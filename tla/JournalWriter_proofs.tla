------------------------ MODULE JournalWriter_proofs ------------------------
(***************************************************************************)
(* Proofs about JournalWriter: its types, that it implements DurableState,  *)
(* that a recovery never finds less than it could have found before, that   *)
(* no mutation is forgotten while the writer lives, that the journal is     *)
(* written in the order of the queue, and that a flush that returned has    *)
(* everything enqueued before it on disk.                                   *)
(* A second part is about HotStorage.                                       *)
(***************************************************************************)
EXTENDS JournalWriter, HotStorage, FiniteSetTheorems, SequenceTheorems,
        WellFoundedInduction, TLAPS

(* The mutations of a concatenation of items or records.                   *)
LEMMA IdsInConcat ==
  ASSUME NEW S, NEW s \in Seq(S), NEW t \in Seq(S)
  PROVE  IdsIn(s \o t) = IdsIn(s) \cup IdsIn(t)
<1>1. IdsIn(s \o t) \subseteq IdsIn(s) \cup IdsIn(t)
  BY DEF IdsIn, IdsOf
<1>2. ASSUME NEW i \in DOMAIN s PROVE i \in DOMAIN (s \o t) /\ (s \o t)[i] = s[i]
  OBVIOUS
<1>3. ASSUME NEW i \in DOMAIN t
      PROVE  i + Len(s) \in DOMAIN (s \o t) /\ (s \o t)[i + Len(s)] = t[i]
  OBVIOUS
<1>4. IdsIn(s) \subseteq IdsIn(s \o t)
  BY <1>2 DEF IdsIn
<1>5. IdsIn(t) \subseteq IdsIn(s \o t)
  BY <1>3 DEF IdsIn
<1> QED BY <1>1, <1>4, <1>5

(* An item put at the end adds its own mutations, no others.               *)
LEMMA IdsInAppend ==
  ASSUME NEW S, NEW s \in Seq(S), NEW e \in S
  PROVE  IdsIn(Append(s, e)) = IdsIn(s) \cup IdsOf(e.ids)
<1>1. Append(s, e) = s \o <<e>>
  BY AppendIsConcat
<1>1a. <<e>> \in Seq(S)
  OBVIOUS
<1>2. IdsIn(<<e>>) = IdsOf(e.ids)
  BY DEF IdsIn
<1>3. IdsIn(s \o <<e>>) = IdsIn(s) \cup IdsIn(<<e>>)
  BY <1>1a, IdsInConcat
<1> QED BY <1>1, <1>2, <1>3

(* An empty queue, batch or file holds no mutations.                       *)
LEMMA IdsInEmpty == IdsIn(<<>>) = {} /\ IdsOf(<<>>) = {} /\ Readable(<<>>) = {}
  BY DEF IdsIn, IdsOf, Readable

(* Taking the first item of a sequence.                                    *)
LEMMA IdsInHeadTail ==
  ASSUME NEW S, NEW s \in Seq(S), s # <<>>
  PROVE  IdsIn(s) = IdsOf(Head(s).ids) \cup IdsIn(Tail(s))
<1>1. Head(s) \in S /\ Tail(s) \in Seq(S)
  BY HeadTailProperties
<1>1a. s = <<Head(s)>> \o Tail(s)
  OBVIOUS
<1>2. IdsIn(<<Head(s)>>) = IdsOf(Head(s).ids)
  BY DEF IdsIn
<1>3. IdsIn(<<Head(s)>> \o Tail(s)) = IdsIn(<<Head(s)>>) \cup IdsIn(Tail(s))
  <2>1. <<Head(s)>> \in Seq(S)
    BY <1>1
  <2>2. Tail(s) \in Seq(S)
    BY <1>1
  <2>3. \A a, b \in Seq(S) : IdsIn(a \o b) = IdsIn(a) \cup IdsIn(b)
    BY IdsInConcat
  <2> QED BY ONLY <2>1, <2>2, <2>3, Zenon
<1> QED BY ONLY <1>1a, <1>2, <1>3

(* Cutting a sequence in two.                                              *)
LEMMA IdsInCut ==
  ASSUME NEW S, NEW s \in Seq(S), NEW k \in 0 .. Len(s)
  PROVE  /\ SubSeq(s, 1, k) \in Seq(S)
         /\ SubSeq(s, k + 1, Len(s)) \in Seq(S)
         /\ IdsIn(s) = IdsIn(SubSeq(s, 1, k)) \cup IdsIn(SubSeq(s, k + 1, Len(s)))
<1>1. SubSeq(s, 1, k) \in Seq(S) /\ SubSeq(s, k + 1, Len(s)) \in Seq(S)
  OBVIOUS
<1>2. s = SubSeq(s, 1, k) \o SubSeq(s, k + 1, Len(s))
  <2>1. SubSeq(s, 1, k) \o SubSeq(s, k + 1, Len(s)) = SubSeq(s, 1, Len(s))
    <3>1. /\ 1 \in 1 .. Len(s) + 1 /\ k \in 1 - 1 .. Len(s)
          /\ Len(s) \in k .. Len(s)
      OBVIOUS
    <3> QED BY <3>1, ConcatAdjacentSubSeq
  <2> QED BY <2>1, SubSeqFull
<1>3. IdsIn(SubSeq(s, 1, k) \o SubSeq(s, k + 1, Len(s)))
        = IdsIn(SubSeq(s, 1, k)) \cup IdsIn(SubSeq(s, k + 1, Len(s)))
  BY <1>1, IdsInConcat
<1> QED BY <1>1, <1>2, <1>3

(* The mutations of two runs of records one after the other.               *)
LEMMA IdsOfConcat ==
  ASSUME NEW S, NEW s \in Seq(S), NEW t \in Seq(S)
  PROVE  IdsOf(s \o t) = IdsOf(s) \cup IdsOf(t)
<1>1. IdsOf(s \o t) \subseteq IdsOf(s) \cup IdsOf(t)
  BY DEF IdsOf
<1>2. IdsOf(s) \subseteq IdsOf(s \o t)
  BY DEF IdsOf
<1>3. ASSUME NEW i \in DOMAIN t
      PROVE  i + Len(s) \in DOMAIN (s \o t) /\ (s \o t)[i + Len(s)] = t[i]
  OBVIOUS
<1>4. IdsOf(t) \subseteq IdsOf(s \o t)
  BY <1>3 DEF IdsOf
<1> QED BY <1>1, <1>2, <1>4

(* Appending to the journal never hides what could be read of it, and      *)
(* shows nothing but what is appended.                                     *)
LEMMA ReadableConcat ==
  ASSUME NEW s \in Seq(Record), NEW t \in Seq(Record)
  PROVE  /\ Readable(s) \subseteq Readable(s \o t)
         /\ Readable(s \o t) \subseteq Readable(s) \cup IdsIn(t)
         /\ Readable(s) \subseteq IdsIn(s)
<1>1. Readable(s) \subseteq IdsIn(s)
  BY DEF Readable, IdsIn
<1>2. ASSUME NEW i \in DOMAIN s PROVE i \in DOMAIN (s \o t) /\ (s \o t)[i] = s[i]
  OBVIOUS
<1>3. Readable(s) \subseteq Readable(s \o t)
  <2> SUFFICES ASSUME NEW i \in DOMAIN s, \A j \in 1 .. i : s[j].whole
               PROVE  i \in DOMAIN (s \o t) /\ (s \o t)[i] = s[i]
                      /\ \A j \in 1 .. i : (s \o t)[j].whole
    BY DEF Readable
  <2>1. \A j \in 1 .. i : j \in DOMAIN s
    OBVIOUS
  <2> QED BY <1>2, <2>1
<1>4. Readable(s \o t) \subseteq Readable(s) \cup IdsIn(t)
  <2> SUFFICES ASSUME NEW i \in DOMAIN (s \o t),
                      \A j \in 1 .. i : (s \o t)[j].whole
               PROVE  IdsOf((s \o t)[i].ids) \subseteq Readable(s) \cup IdsIn(t)
    BY DEF Readable
  <2>1. CASE i \in DOMAIN s
    <3>1. \A j \in 1 .. i : j \in DOMAIN s
      BY <2>1
    <3>2. \A j \in 1 .. i : s[j].whole
      BY <1>2, <3>1
    <3> QED BY <1>2, <2>1, <3>2 DEF Readable
  <2>2. CASE i \notin DOMAIN s
    <3>1. i - Len(s) \in DOMAIN t /\ (s \o t)[i] = t[i - Len(s)]
      BY <2>2
    <3> QED BY <3>1 DEF IdsIn
  <2> QED BY <2>1, <2>2
<1> QED BY <1>1, <1>3, <1>4

----------------------------------------------------------------------------
(* Types                                                                   *)

(* The mutations a sequence names are among those it is made of.           *)
LEMMA IdsOfType ==
  ASSUME NEW S, NEW t \in Seq(S) PROVE IdsOf(t) \subseteq S
  BY DEF IdsOf

(* The mutations of an item of the queue, command or batch.                *)
LEMMA ItemFields ==
  ASSUME NEW x \in Item
  PROVE  /\ x.ids \in Seq(Mutations)
         /\ x.caller \in Callers
         /\ x.kind \in {"flush", "stop"} => x.ids = <<>>
<1>1. <<>> \in Seq(Mutations) /\ Closer \in Callers
  BY DEF Callers
<1>2. CASE x \in [kind : {"batch", "single"}, ids : Seq(Mutations), caller : {Closer}]
  BY <1>1, <1>2
<1>3. CASE x \in [kind : {"flush", "stop"}, ids : {<<>>}, caller : Callers]
  BY <1>1, <1>3
<1> QED BY <1>2, <1>3 DEF Item

(* The queue holds mutations only of those that were made.                 *)
LEMMA IdsInType ==
  ASSUME NEW s, s \in Seq(Item) \/ s \in Seq(Record)
  PROVE  IdsIn(s) \subseteq Mutations
<1>1. \A i \in DOMAIN s : s[i] \in Item \/ s[i] \in Record
  OBVIOUS
<1>2. \A x \in Item \cup Record : x.ids \in Seq(Mutations)
  BY ItemFields DEF Record
<1> QED BY <1>1, <1>2, IdsOfType DEF IdsIn

(* What is put together from typed parts is an item or a record.           *)
LEMMA ItemTypes ==
  /\ \A c \in Callers : Command(c) \in Item
  /\ \A kind \in {"batch", "single"}, ids \in Seq(Mutations) : Data(kind, ids) \in Item
  /\ \A ids \in Seq(Mutations) : Whole(ids) \in Record
  /\ Torn \in Record
<1>1. <<>> \in Seq(Mutations) /\ Closer \in Callers
  BY DEF Callers
<1>2. \A c \in Callers : Command(c).kind \in {"flush", "stop"}
  BY DEF Command
<1>3. \A c \in Callers : Command(c) \in Item
  BY <1>1, <1>2 DEF Command, Item
<1>4. \A kind \in {"batch", "single"}, ids \in Seq(Mutations) : Data(kind, ids) \in Item
  BY <1>1 DEF Data, Item
<1> QED BY <1>1, <1>3, <1>4 DEF Whole, Torn, Record

(* What is on its way, and what can be recovered, are mutations.           *)
LEMMA InFlightType ==
  ASSUME TypeOK
  PROVE  InFlight \cup Unsent \cup Recoverable \subseteq Mutations
<1>1. IdsIn(buf) \cup IdsIn(deferred) \cup IdsIn(queue) \cup IdsIn(journal)
        \subseteq Mutations
  BY IdsInType DEF TypeOK, ThreadTypes, DiskTypes
<1>2. IdsOf(hand) \subseteq Mutations
  BY IdsOfType DEF TypeOK, ThreadTypes
<1>3. Unsent \subseteq Mutations
  BY IdsOfType DEF TypeOK, MemoryTypes, Unsent
<1>4. Readable(journal) \subseteq IdsIn(journal)
  BY DEF Readable, IdsIn
<1> QED BY <1>1, <1>2, <1>3, <1>4
        DEF InFlight, Recoverable, TypeOK, DiskTypes

(* What an action leaves alone keeps its type.                             *)
LEMMA Unchanged ==
  ASSUME TypeOK
  PROVE  /\ UNCHANGED memory => MemoryTypes'
         /\ UNCHANGED thread => ThreadTypes'
         /\ UNCHANGED disk => DiskTypes'
         /\ UNCHANGED calls => CallTypes'
         /\ UNCHANGED channel => (queue \in Seq(Item))'
         /\ UNCHANGED crashes => (crashes \in 0 .. MaxCrashes)'
<1>1. UNCHANGED memory => MemoryTypes'
  BY DEF TypeOK, MemoryTypes, memory
<1>2. UNCHANGED thread => ThreadTypes'
  BY DEF TypeOK, ThreadTypes, thread
<1>3. UNCHANGED disk => DiskTypes'
  BY DEF TypeOK, DiskTypes, disk
<1>4. UNCHANGED calls => CallTypes'
  BY DEF TypeOK, CallTypes, calls
<1> QED BY <1>1, <1>2, <1>3, <1>4 DEF TypeOK, channel

(* enqueue_batch keeps the types, whether it is accepted or not.           *)
LEMMA EnqueueTypes ==
  ASSUME TypeOK, NEW p \in Producers, NEW kind \in {"batch", "single"},
         Enqueue(p, kind) \/ GiveUp(p)
  PROVE  /\ queue' \in Seq(Item)
         /\ batch' \in [Producers -> Seq(Mutations)]
         /\ pstate' \in [Producers -> {"idle", "open", "waiting", "blocked"}]
         /\ dropped' \in SUBSET Mutations
<1>1. batch[p] \in Seq(Mutations) /\ IdsOf(batch[p]) \subseteq Mutations
  BY IdsOfType DEF TypeOK, MemoryTypes
<1>2. Data(kind, batch[p]) \in Item
  BY <1>1, ItemTypes
<1>3. CASE Enqueue(p, kind)
  BY <1>2, <1>3 DEF TypeOK, MemoryTypes, Enqueue
<1>4. CASE GiveUp(p)
  BY <1>1, <1>4 DEF TypeOK, MemoryTypes, GiveUp, channel
<1> QED BY <1>3, <1>4

(* flush() of the file object keeps the types.                             *)
LEMMA FlushTypes ==
  ASSUME TypeOK, FlushHandle \/ UNCHANGED <<buf, spilt, journal>>,
         UNCHANGED snapshot
  PROVE  DiskTypes'
<1>1. CASE FlushHandle
  <2>1. journal' \in Seq(Record) /\ buf' \in Seq(Record)
    BY <1>1 DEF TypeOK, DiskTypes, FlushHandle
  <2>2. spilt' \in BOOLEAN
    BY <1>1 DEF FlushHandle
  <2> QED BY <2>1, <2>2 DEF TypeOK, DiskTypes
<1>2. CASE UNCHANGED <<buf, spilt, journal>>
  BY <1>2 DEF TypeOK, DiskTypes
<1> QED BY <1>1, <1>2

(* The states of a JournalWriter have their types.                         *)
LEMMA TypeStep ==
  ASSUME JournalAssumption, TypeOK, [Next]_vars
  PROVE  TypeOK'
<1>1. ASSUME NEW p \in Producers, BatchMutate(p) \/ RecordMutate(p)
      PROVE  TypeOK'
  <2>1. clock + 1 \in Mutations /\ clock' = clock + 1 /\ clock' \in 0 .. MaxMutations
    BY <1>1 DEF TypeOK, MemoryTypes, JournalAssumption, Mutations, BatchMutate,
                RecordMutate, Mutate
  <2>2. Append(batch[p], clock') \in Seq(Mutations) /\ <<clock'>> \in Seq(Mutations)
    BY <2>1 DEF TypeOK, MemoryTypes
  <2>3. MemoryTypes'
    BY <1>1, <2>1, <2>2 DEF TypeOK, MemoryTypes, BatchMutate, RecordMutate, Mutate
  <2> QED BY <1>1, <2>3, Unchanged DEF TypeOK, BatchMutate, RecordMutate, Mutate
<1>2. ASSUME NEW p \in Producers,
             Commit(p) \/ RetryCommit(p) \/ CancelCommit(p) \/ PutSync(p)
      PROVE  TypeOK'
  <2>1. /\ queue' \in Seq(Item)
        /\ batch' \in [Producers -> Seq(Mutations)]
        /\ pstate' \in [Producers -> {"idle", "open", "waiting", "blocked"}]
        /\ dropped' \in SUBSET Mutations
    <3>1. CASE Enqueue(p, "batch") \/ Enqueue(p, "single") \/ GiveUp(p)
      BY <3>1, EnqueueTypes
    <3>2. CASE /\ pstate' = [pstate EXCEPT ![p] = "waiting"]
               /\ UNCHANGED <<batch, dropped, channel>>
      BY <3>2 DEF TypeOK, MemoryTypes, channel
    <3> QED BY <1>2, <3>1, <3>2
            DEF Commit, RetryCommit, CancelCommit, PutSync
  <2>2. UNCHANGED <<clock, live, thread, disk, calls, crashes>>
    BY <1>2 DEF Commit, RetryCommit, CancelCommit, PutSync
  <2> QED BY <2>1, <2>2, Unchanged DEF TypeOK, MemoryTypes
<1>3. ASSUME NEW c \in Callers,
             Call(c) \/ Return(c) \/ Raise(c) \/ TimeOut(c)
      PROVE  TypeOK'
  <2>1. CallTypes'
    BY <1>3 DEF TypeOK, CallTypes, Call, Return, Raise, TimeOut, Outcome
  <2>2. UNCHANGED <<memory, channel, thread, disk, crashes>>
    BY <1>3 DEF Call, Return, Raise, TimeOut
  <2> QED BY <2>1, <2>2, Unchanged DEF TypeOK
<1>4. ASSUME NEW c \in Callers, Put(c)
      PROVE  TypeOK'
  <2>1. UNCHANGED <<memory, thread, disk, crashes>>
    BY <1>4 DEF Put
  <2>2. queue' \in Seq(Item)
    BY <1>4, ItemTypes DEF TypeOK, Put
  <2>3. CallTypes'
    BY <1>4, InFlightType DEF TypeOK, CallTypes, Put
  <2> QED BY <2>1, <2>2, <2>3, Unchanged DEF TypeOK
<1>5. CASE TakeMutations \/ TakeCommand
  <2>1. /\ NextItem \in Item /\ queue' \in Seq(Item) /\ deferred' \in Seq(Item)
    <3>1. Take /\ deferred \in Seq(Item) /\ queue \in Seq(Item)
      BY <1>5 DEF TakeMutations, TakeCommand, TypeOK, ThreadTypes
    <3>2. deferred' \in Seq(Item)
      BY <3>1 DEF Take
    <3>3. CASE deferred # <<>>
      BY <3>1, <3>2, <3>3 DEF Take, NextItem
    <3>4. CASE deferred = <<>>
      <4>1. queue # <<>> /\ queue' = Tail(queue) /\ NextItem = Head(queue)
        BY <3>1, <3>4 DEF Take, NextItem
      <4> QED BY <3>1, <3>2, <4>1
    <3> QED BY <3>3, <3>4
  <2>2. NextItem.ids \in Seq(Mutations) /\ <<NextItem>> \in Seq(Item)
    BY <2>1, ItemFields
  <2>3. pc' \in PCs
    BY <1>5 DEF TakeMutations, TakeCommand, PCs
  <2>4. ThreadTypes'
    <3>1. hand' \in Seq(Mutations) /\ logical' \in Nat
      BY <1>5, <2>2 DEF TypeOK, ThreadTypes, TakeMutations, TakeCommand
    <3>2. command' \in Seq(Item)
      BY <1>5, <2>2 DEF TypeOK, ThreadTypes, TakeMutations, TakeCommand
    <3>3. UNCHANGED <<unflushed, written, capture, failed, failures>>
      BY <1>5 DEF TakeMutations, TakeCommand
    <3> QED BY <2>1, <2>3, <3>1, <3>2, <3>3 DEF TypeOK, ThreadTypes
  <2> QED BY <1>5, <2>1, <2>4, Unchanged DEF TypeOK, TakeMutations, TakeCommand
<1>6. CASE Coalesce
  <2>1. /\ Head(queue) \in Item /\ Tail(queue) \in Seq(Item)
        /\ <<Head(queue)>> \in Seq(Item)
    BY <1>6 DEF TypeOK, Coalesce
  <2>2. Head(queue).ids \in Seq(Mutations)
    BY <2>1, ItemFields
  <2>3. hand \o Head(queue).ids \in Seq(Mutations)
    BY <2>2 DEF TypeOK, ThreadTypes
  <2>4. ThreadTypes'
    <3>1. hand' \in Seq(Mutations) /\ logical' \in Nat
      <4>1. /\ hand' = hand \o Head(queue).ids \/ hand' = hand
            /\ logical' = logical + 1 \/ logical' = logical
        BY <1>6 DEF Coalesce, Merge
      <4>2. hand \in Seq(Mutations) /\ logical \in Nat
        BY DEF TypeOK, ThreadTypes
      <4>3. logical' \in Nat
        BY <4>1, <4>2
      <4>4. hand' \in Seq(Mutations)
        BY <2>3, <4>1, <4>2
      <4> QED BY <4>3, <4>4
    <3>2. deferred' \in Seq(Item)
      BY <1>6, <2>1 DEF TypeOK, ThreadTypes, Coalesce
    <3>3. pc' \in PCs
      BY <1>6 DEF TypeOK, ThreadTypes, Coalesce, PCs
    <3>4. UNCHANGED <<command, unflushed, written, capture, failed, failures>>
      BY <1>6 DEF Coalesce
    <3> QED BY <3>1, <3>2, <3>3, <3>4 DEF TypeOK, ThreadTypes
  <2> QED BY <1>6, <2>1, <2>4, Unchanged DEF TypeOK, Coalesce
<1>7. CASE Write
  <2>1. Append(buf, Whole(hand)) \in Seq(Record)
    BY ItemTypes DEF TypeOK, ThreadTypes, DiskTypes
  <2>2. DiskTypes'
    <3> DEFINE b == Append(buf, Whole(hand))
    <3>1. PICK k \in 0 .. Len(b), part \in BOOLEAN :
            /\ journal' = journal \o SubSeq(b, 1, k)
            /\ buf' = SubSeq(b, k + 1, Len(b))
            /\ spilt' = part
      BY <1>7 DEF Write, Spill
    <3>2. SubSeq(b, 1, k) \in Seq(Record) /\ SubSeq(b, k + 1, Len(b)) \in Seq(Record)
      BY <2>1, IdsInCut
    <3> HIDE DEF b
    <3>3. journal' \in Seq(Record)
      BY <3>1, <3>2 DEF TypeOK, DiskTypes
    <3>4. UNCHANGED snapshot
      BY <1>7 DEF Write
    <3> QED BY <3>1, <3>2, <3>3, <3>4 DEF TypeOK, DiskTypes
  <2>3. ThreadTypes'
    BY <1>7 DEF TypeOK, ThreadTypes, Write, PCs
  <2> QED BY <1>7, <2>2, <2>3, Unchanged DEF TypeOK, Write
<1>8. CASE AfterWrite \/ Idle \/ Stop \/ Flush \/ CloseJournal
  <2>1. DiskTypes'
    BY <1>8, FlushTypes
       DEF AfterWrite, Idle, Stop, Flush, CloseJournal, FlushPending
  <2>2. unflushed' \in Nat
    BY <1>8 DEF AfterWrite, Idle, Stop, Flush, CloseJournal, FlushPending,
                TypeOK, ThreadTypes
  <2>3. pc' \in PCs
    BY <1>8 DEF AfterWrite, Idle, Stop, Flush, CloseJournal, PCs
  <2>7. command' \in Seq(Item)
    <3>1. command' = command \/ command' = <<>>
      BY <1>8 DEF AfterWrite, Idle, Stop, Flush, Answer, CloseJournal
    <3>2. command \in Seq(Item) /\ <<>> \in Seq(Item)
      BY DEF TypeOK, ThreadTypes
    <3> QED BY <3>1, <3>2
  <2>4. ThreadTypes'
    BY <1>8, <2>2, <2>3, <2>7 DEF AfterWrite, Idle, Stop, Flush, CloseJournal,
                TypeOK, ThreadTypes
  <2>5. CallTypes'
    BY <1>8 DEF AfterWrite, Idle, Stop, Flush, Answer, CloseJournal,
                TypeOK, CallTypes, calls
  <2>6. UNCHANGED <<memory, channel, crashes>>
    BY <1>8 DEF AfterWrite, Idle, Stop, Flush, CloseJournal
  <2> QED BY <2>1, <2>4, <2>5, <2>6, Unchanged DEF TypeOK
<1>9. CASE Capture \/ ReplaceSnapshot
  <2>1. ThreadTypes'
    BY <1>9 DEF TypeOK, MemoryTypes, ThreadTypes, Capture, ReplaceSnapshot, PCs, memory
  <2>2. DiskTypes'
    BY <1>9 DEF TypeOK, ThreadTypes, DiskTypes, Capture, ReplaceSnapshot, disk
  <2> QED BY <1>9, <2>1, <2>2, Unchanged DEF TypeOK, Capture, ReplaceSnapshot
<1>10. CASE Truncate
  <2>1. ThreadTypes'
    BY <1>10 DEF TypeOK, ThreadTypes, Truncate, Answer, PCs
  <2>2. DiskTypes' /\ CallTypes' /\ queue' \in Seq(Item)
    BY <1>10 DEF TypeOK, DiskTypes, CallTypes, Truncate, Answer
  <2> QED BY <1>10, <2>1, <2>2, Unchanged DEF TypeOK, Truncate
<1>11. CASE Fail
  <2>1. ThreadTypes'
    BY <1>11 DEF TypeOK, ThreadTypes, Fail, PCs, JournalAssumption
  <2> QED BY <1>11, <2>1, Unchanged DEF TypeOK, Fail
<1>12. CASE Drain
  <2>1. DiskTypes'
    <3>1. PICK k \in 0 .. Len(buf), part \in BOOLEAN :
            journal' = journal \o SubSeq(buf, 1, k) \o IF part THEN <<Torn>> ELSE <<>>
      BY <1>12 DEF Drain
    <3>2. SubSeq(buf, 1, k) \in Seq(Record)
      BY IdsInCut DEF TypeOK, DiskTypes
    <3>3. (IF part THEN <<Torn>> ELSE <<>>) \in Seq(Record)
      BY ItemTypes
    <3>4. journal' \in Seq(Record)
      BY <3>1, <3>2, <3>3 DEF TypeOK, DiskTypes
    <3>5. buf' \in Seq(Record) /\ UNCHANGED snapshot
      BY <1>12 DEF Drain
    <3>6. spilt' \in BOOLEAN
      BY <1>12 DEF Drain
    <3> QED BY <3>4, <3>5, <3>6 DEF TypeOK, DiskTypes
  <2>2. done' \in SUBSET Callers
    <3> DEFINE items == command \o deferred \o queue
    <3>1. items \in Seq(Item)
      BY DEF TypeOK, ThreadTypes
    <3>2. \A i \in DOMAIN items : items[i] \in Item
      BY <3>1
    <3>3. \A x \in Item : x.caller \in Callers
      BY ItemFields
    <3>4. done' = done \cup {items[i].caller :
                     i \in {k1 \in DOMAIN items : items[k1].kind \in {"flush", "stop"}}}
      BY <1>12 DEF Drain
    <3> HIDE DEF items
    <3> QED BY <3>2, <3>3, <3>4 DEF TypeOK, CallTypes
  <2>3. CallTypes'
    BY <1>12, <2>2 DEF TypeOK, CallTypes, Drain
  <2>4. ThreadTypes' /\ queue' \in Seq(Item)
    BY <1>12 DEF TypeOK, ThreadTypes, Drain, PCs
  <2> QED BY <1>12, <2>1, <2>3, <2>4, Unchanged DEF TypeOK, Drain
<1>13. CASE Crash \/ Exit
  <2>1. journal' \in Seq(Record)
    <3>1. journal' = Append(journal, Torn) \/ journal' = journal
      BY <1>13 DEF Crash, Exit
    <3>2. Append(journal, Torn) \in Seq(Record) /\ journal \in Seq(Record)
      BY ItemTypes DEF TypeOK, DiskTypes
    <3> QED BY <3>1, <3>2
  <2>0. FreshProcess /\ UNCHANGED <<snapshot, failures>> /\ pc' = "down"
    BY <1>13 DEF Crash, Exit
  <2>2. DiskTypes'
    <3>1. spilt' \in BOOLEAN
      BY <2>0 DEF FreshProcess
    <3>2. buf' \in Seq(Record)
      BY <2>0 DEF FreshProcess
    <3> QED BY <2>0, <2>1, <3>1, <3>2 DEF TypeOK, DiskTypes
  <2>3. ThreadTypes' /\ queue' \in Seq(Item)
    <3>1. failed' \in BOOLEAN
      BY <2>0 DEF FreshProcess
    <3>2. /\ hand' \in Seq(Mutations) /\ logical' \in Nat /\ unflushed' \in Nat
          /\ written' \in Nat /\ capture' \in SUBSET Mutations
      BY <2>0 DEF FreshProcess
    <3>3. /\ deferred' \in Seq(Item) /\ command' \in Seq(Item) /\ queue' \in Seq(Item)
      BY <2>0 DEF FreshProcess
    <3>4. pc' \in PCs
      BY <2>0 DEF PCs
    <3> QED BY <2>0, <3>1, <3>2, <3>3, <3>4 DEF TypeOK, ThreadTypes
  <2>4. CallTypes'
    BY <1>13 DEF CallTypes, Crash, Exit, FreshProcess
  <2>5. MemoryTypes'
    <3>1. UNCHANGED <<clock, live, dropped>>
      BY <1>13 DEF Crash, Exit
    <3>2. pstate' \in [Producers -> {"idle", "open", "waiting", "blocked"}]
      BY <2>0 DEF FreshProcess
    <3>3. batch' \in [Producers -> Seq(Mutations)]
      BY <2>0 DEF FreshProcess
    <3> QED BY <3>1, <3>2, <3>3 DEF TypeOK, MemoryTypes
  <2>6. crashes' \in 0 .. MaxCrashes
    BY <1>13 DEF TypeOK, Crash, Exit, JournalAssumption
  <2> QED BY <2>2, <2>3, <2>4, <2>5, <2>6 DEF TypeOK
<1>14. CASE Recover
  <2>1. MemoryTypes'
    BY <1>14, InFlightType DEF TypeOK, MemoryTypes, Recover
  <2>2. ThreadTypes'
    BY <1>14 DEF TypeOK, ThreadTypes, Recover, PCs
  <2> QED BY <1>14, <2>1, <2>2, Unchanged DEF TypeOK, Recover
<1>15. CASE UNCHANGED vars
  BY <1>15, Unchanged DEF TypeOK, vars
<1> QED BY <1>1, <1>2, <1>3, <1>4, <1>5, <1>6, <1>7, <1>8, <1>9, <1>10, <1>11,
           <1>12, <1>13, <1>14, <1>15
        DEF Next, Producer, Caller, Writer

(* A store that has just been created has its types.                       *)
LEMMA InitTypes ==
  ASSUME JournalAssumption, Init PROVE TypeOK
<1>1. MemoryTypes
  BY DEF JournalAssumption, Init, MemoryTypes
<1>2. ThreadTypes
  <2>1. failed \in BOOLEAN
    BY DEF Init
  <2>2. hand \in Seq(Mutations) /\ deferred \in Seq(Item) /\ command \in Seq(Item)
    BY DEF Init
  <2>3. /\ pc \in PCs /\ logical \in Nat /\ unflushed \in Nat /\ written \in Nat
        /\ failures \in 0 .. MaxFailures /\ capture \in SUBSET Mutations
    BY DEF Init, PCs, JournalAssumption
  <2> QED BY <2>1, <2>2, <2>3 DEF ThreadTypes
<1>3. DiskTypes /\ CallTypes
  <2>1. spilt \in BOOLEAN
    BY DEF Init
  <2>2. /\ buf \in Seq(Record) /\ journal \in Seq(Record)
        /\ snapshot \in SUBSET Mutations
    BY DEF Init
  <2>3. CallTypes
    BY DEF Init, CallTypes
  <2> QED BY <2>1, <2>2, <2>3 DEF DiskTypes
<1> QED BY <1>1, <1>2, <1>3 DEF JournalAssumption, Init, TypeOK

(* In every execution the variables keep their types.                      *)
THEOREM TypeCorrect == Spec => []TypeOK
<1>1. Init => TypeOK
  BY InitTypes, JournalAssumption
<1>2. TypeOK /\ [Next]_vars => TypeOK'
  BY TypeStep, JournalAssumption
<1> QED BY <1>1, <1>2, PTL DEF Spec

----------------------------------------------------------------------------
(* Where each action moves mutations                                       *)

(* A Stop command gets into a queue only by being appended.                *)
LEMMA StopInConcat ==
  ASSUME NEW S, NEW s \in Seq(S), NEW e \in S
  PROVE  /\ StopIn(Append(s, e)) => StopIn(s) \/ e.kind = "stop"
         /\ s # <<>> => (StopIn(Tail(s)) => StopIn(s))
         /\ s # <<>> => (Head(s).kind = "stop" => StopIn(s))
         /\ ~StopIn(<<>>)
         /\ StopIn(<<e>>) => e.kind = "stop"
<1>1. \A i \in DOMAIN Append(s, e) :
        (i \in DOMAIN s /\ Append(s, e)[i] = s[i]) \/ Append(s, e)[i] = e
  OBVIOUS
<1>2. s # <<>> => \A i \in DOMAIN Tail(s) : i + 1 \in DOMAIN s /\ Tail(s)[i] = s[i + 1]
  OBVIOUS
<1>3. s # <<>> => 1 \in DOMAIN s /\ Head(s) = s[1]
  OBVIOUS
<1>4. StopIn(<<e>>) => e.kind = "stop"
  BY DEF StopIn
<1>5. ~StopIn(<<>>)
  BY DEF StopIn
<1> QED BY <1>1, <1>2, <1>3, <1>4, <1>5 DEF StopIn

(* A mutation goes to memory and to its producer's batch.                  *)
LEMMA MutateFlow ==
  ASSUME TypeOK, NEW p \in Producers, NEW state, Mutate(p, state)
  PROVE  /\ Unsent' = Unsent \cup {clock'}
         /\ live' = live \cup {clock'} /\ clock' = clock + 1
<1>1. batch[p] \in Seq(Mutations) /\ batch \in [Producers -> Seq(Mutations)]
  BY DEF TypeOK, MemoryTypes
<1>2. IdsOf(Append(batch[p], clock')) = IdsOf(batch[p]) \cup {clock'}
  <2>1. Len(batch[p]) \in Nat
    BY <1>1
  <2>2. PICK b \in Seq(Mutations), n \in Nat, x \in {clock'} : b = batch[p] /\ n = Len(b)
    BY <1>1, <2>1
  <2>3. /\ DOMAIN Append(b, x) = 1 .. n + 1 /\ DOMAIN b = 1 .. n
        /\ \A i \in 1 .. n : Append(b, x)[i] = b[i]
        /\ Append(b, x)[n + 1] = x
    BY ONLY <2>2
  <2> QED BY ONLY <2>2, <2>3 DEF IdsOf
<1>3. /\ batch'[p] = Append(batch[p], clock')
      /\ \A q \in Producers : q # p => batch'[q] = batch[q]
  BY <1>1 DEF Mutate
<1>4. Unsent' = UNION {IdsOf(batch'[q]) : q \in Producers}
  BY DEF Unsent, IdsOf
<1> QED BY <1>2, <1>3, <1>4 DEF Unsent, Mutate

(* A producer's batch goes to the queue or is given up.                    *)
LEMMA SendFlow ==
  ASSUME TypeOK, NEW p \in Producers,
         Commit(p) \/ RetryCommit(p) \/ CancelCommit(p) \/ PutSync(p)
  PROVE  /\ IdsIn(queue)' \cup Unsent' \subseteq IdsIn(queue) \cup Unsent
         /\ Uncaptured \subseteq Uncaptured'
         /\ StopIn(queue)' => StopIn(queue)
         /\ UNCHANGED <<clock, live, thread, disk, calls, crashes>>
         /\ IdsIn(queue) \subseteq IdsIn(queue)'
         /\ Running
<1> DEFINE Kept == UNCHANGED <<batch, dropped, channel>>
           Enqueued == \E kind \in {"batch", "single"} : Enqueue(p, kind)
<1>1. Enqueued \/ GiveUp(p) \/ Kept
  BY DEF Commit, RetryCommit, CancelCommit, PutSync
<1>2. UNCHANGED <<clock, live, thread, disk, calls, crashes>> /\ Running
  BY DEF Commit, RetryCommit, CancelCommit, PutSync, LoopFree
<1>3. batch[p] \in Seq(Mutations) /\ batch \in [Producers -> Seq(Mutations)]
  BY DEF TypeOK, MemoryTypes
<1>4. ASSUME batch' = [batch EXCEPT ![p] = <<>>]
      PROVE  Unsent' \subseteq Unsent /\ Unsent \subseteq Unsent' \cup IdsOf(batch[p])
             /\ IdsOf(batch[p]) \subseteq Unsent
  <2>1. batch'[p] = <<>> /\ \A q \in Producers : q # p => batch'[q] = batch[q]
    BY <1>3, <1>4
  <2>2. Unsent' = UNION {IdsOf(batch'[q]) : q \in Producers}
    BY DEF Unsent, IdsOf
  <2> QED BY <2>1, <2>2, IdsInEmpty DEF Unsent
<1>5. CASE Enqueued
  <2>1. PICK kind \in {"batch", "single"} : Enqueue(p, kind)
    BY <1>5
  <2>2. Data(kind, batch[p]) \in Item
    BY <1>3, ItemTypes
  <2>3. IdsIn(queue') = IdsIn(queue) \cup IdsOf(Data(kind, batch[p]).ids)
    BY <2>1, <2>2, IdsInAppend DEF Enqueue, TypeOK
  <2>4. Data(kind, batch[p]).ids = batch[p] /\ Data(kind, batch[p]).kind # "stop"
    BY DEF Data
  <2>5. StopIn(queue') => StopIn(queue)
    BY <2>1, <2>2, <2>4, StopInConcat DEF Enqueue, TypeOK
  <2>6. IdsIn(queue)' = IdsIn(queue') /\ (StopIn(queue)' <=> StopIn(queue'))
    BY DEF IdsIn, IdsOf, StopIn
  <2> QED BY <1>2, <1>4, <2>1, <2>3, <2>4, <2>5, <2>6 DEF Enqueue, Uncaptured
<1>6. CASE GiveUp(p)
  <2>1. IdsIn(queue)' = IdsIn(queue) /\ (StopIn(queue)' <=> StopIn(queue))
    BY <1>6 DEF GiveUp, channel, IdsIn, IdsOf, StopIn
  <2> QED BY <1>2, <1>4, <1>6, <2>1 DEF GiveUp, Uncaptured
<1>7. CASE Kept
  BY <1>2, <1>7 DEF channel, IdsIn, IdsOf, StopIn, Unsent, Uncaptured
<1> QED BY <1>1, <1>5, <1>6, <1>7

(* The file object's buffer goes to the file.                              *)
LEMMA FlushFlow ==
  ASSUME TypeOK, FlushHandle \/ UNCHANGED <<buf, spilt, journal>>
  PROVE  /\ IdsIn(buf)' \subseteq IdsIn(buf)
         /\ Readable(journal) \subseteq Readable(journal)'
         /\ Readable(journal)' \subseteq Readable(journal) \cup IdsIn(buf)
         /\ IdsIn(journal)' \cup IdsIn(buf)' = IdsIn(journal) \cup IdsIn(buf)
<1>1. /\ IdsIn(buf)' = IdsIn(buf') /\ IdsIn(journal)' = IdsIn(journal')
      /\ Readable(journal)' = Readable(journal')
  BY DEF IdsIn, IdsOf, Readable
<1>2. journal \in Seq(Record) /\ buf \in Seq(Record)
  BY DEF TypeOK, DiskTypes
<1>3. CASE FlushHandle
  <2>1. journal' = journal \o buf /\ buf' = <<>>
    BY <1>3 DEF FlushHandle
  <2> QED BY <1>1, <1>2, <2>1, ReadableConcat, IdsInConcat, IdsInEmpty
<1>4. CASE UNCHANGED <<buf, spilt, journal>>
  BY <1>1, <1>4
<1> QED BY <1>3, <1>4

(* The record in hand goes to the buffer, some of the buffer to the file.  *)
LEMMA WriteFlow ==
  ASSUME TypeOK, Write
  PROVE  /\ IdsIn(buf)' \subseteq IdsIn(buf) \cup IdsOf(hand)
         /\ Readable(journal) \subseteq Readable(journal)'
         /\ Readable(journal)' \subseteq Readable(journal) \cup IdsIn(buf) \cup IdsOf(hand)
         /\ IdsIn(journal)' \cup IdsIn(buf)' = IdsIn(journal) \cup IdsIn(buf) \cup IdsOf(hand)
<1> DEFINE b == Append(buf, Whole(hand))
<1>1. /\ IdsIn(buf)' = IdsIn(buf') /\ IdsIn(journal)' = IdsIn(journal')
      /\ Readable(journal)' = Readable(journal')
  BY DEF IdsIn, IdsOf, Readable
<1>2. journal \in Seq(Record) /\ buf \in Seq(Record) /\ Whole(hand) \in Record
  BY ItemTypes DEF TypeOK, ThreadTypes, DiskTypes
<1>3. b \in Seq(Record) /\ IdsIn(b) = IdsIn(buf) \cup IdsOf(hand)
  <2>1. IdsIn(b) = IdsIn(buf) \cup IdsOf(Whole(hand).ids)
    BY <1>2, IdsInAppend
  <2>2. Whole(hand).ids = hand
    BY DEF Whole
  <2> QED BY <1>2, <2>1, <2>2
<1>4. PICK k \in 0 .. Len(b) : /\ journal' = journal \o SubSeq(b, 1, k)
                               /\ buf' = SubSeq(b, k + 1, Len(b))
  BY DEF Write, Spill
<1> DEFINE front == SubSeq(b, 1, k)
<1> HIDE DEF b
<1>5. /\ front \in Seq(Record)
      /\ IdsIn(b) = IdsIn(front) \cup IdsIn(buf')
  BY <1>3, <1>4, IdsInCut
<1>6. journal' = journal \o front
  BY <1>4
<1> HIDE DEF front
<1>7. /\ Readable(journal) \subseteq Readable(journal \o front)
      /\ Readable(journal \o front) \subseteq Readable(journal) \cup IdsIn(front)
  BY <1>2, <1>5, ReadableConcat
<1>8. IdsIn(journal \o front) = IdsIn(journal) \cup IdsIn(front)
  BY <1>2, <1>5, IdsInConcat
<1> QED BY <1>1, <1>3, <1>5, <1>6, <1>7, <1>8

(* A failed writer leaves some of its buffer and perhaps a torn record.    *)
LEMMA DrainFlow ==
  ASSUME TypeOK, Drain
  PROVE  /\ Readable(journal) \subseteq Readable(journal)'
         /\ Readable(journal)' \subseteq Readable(journal) \cup IdsIn(buf)
<1>1. PICK k \in 0 .. Len(buf), part \in BOOLEAN :
        journal' = journal \o SubSeq(buf, 1, k) \o IF part THEN <<Torn>> ELSE <<>>
  BY DEF Drain
<1> DEFINE whole == SubSeq(buf, 1, k)
           tail  == IF part THEN <<Torn>> ELSE <<>>
<1>2. journal \in Seq(Record) /\ whole \in Seq(Record) /\ tail \in Seq(Record)
      /\ IdsIn(whole) \subseteq IdsIn(buf)
  BY ItemTypes, IdsInCut DEF TypeOK, DiskTypes
<1>3. IdsIn(tail) = {}
  BY DEF Torn, IdsIn, IdsOf
<1>4. Readable(journal)' = Readable((journal \o whole) \o tail)
  BY <1>1 DEF Readable, IdsOf
<1> HIDE DEF whole, tail
<1>5. journal \o whole \in Seq(Record)
  BY <1>2
<1>6. /\ Readable(journal) \subseteq Readable(journal \o whole)
      /\ Readable(journal \o whole) \subseteq Readable(journal) \cup IdsIn(whole)
  BY <1>2, ReadableConcat
<1>7. /\ Readable(journal \o whole) \subseteq Readable((journal \o whole) \o tail)
      /\ Readable((journal \o whole) \o tail) \subseteq Readable(journal \o whole) \cup IdsIn(tail)
  BY <1>2, <1>5, ReadableConcat
<1> QED BY <1>2, <1>3, <1>4, <1>6, <1>7

(* A kill leaves in the file all that could be read of it.                 *)
LEMMA CrashFlow ==
  ASSUME TypeOK, Crash \/ Exit
  PROVE  /\ Readable(journal)' = Readable(journal) /\ UNCHANGED snapshot
         /\ (InFlight \cup Unsent)' = {}
         /\ ~(StopIn(queue) \/ StopIn(deferred) \/ StopIn(command))'
         /\ callers'[Closer] = "idle" /\ pc' = "down" /\ UNCHANGED <<live, clock>>
<1>1. /\ queue' = <<>> /\ hand' = <<>> /\ deferred' = <<>> /\ command' = <<>>
      /\ buf' = <<>> /\ callers' = [c \in Callers |-> "idle"] /\ pc' = "down"
      /\ UNCHANGED <<live, clock, snapshot>>
  BY DEF Crash, Exit, FreshProcess
<1>2. InFlight' = {}
  BY <1>1 DEF InFlight, IdsIn, IdsOf
<1>3. ~StopIn(queue)' /\ ~StopIn(deferred)' /\ ~StopIn(command)'
  BY <1>1 DEF StopIn
<1>4. callers'[Closer] = "idle"
  BY <1>1 DEF Callers
<1>5. Readable(journal)' = Readable(journal)
  <2>1. CASE journal' = journal \o <<Torn>>
    <3>1. IdsIn(<<Torn>>) = {}
      BY DEF IdsIn, IdsOf, Torn
    <3>2. journal \in Seq(Record) /\ <<Torn>> \in Seq(Record)
      BY ItemTypes DEF TypeOK, DiskTypes
    <3>3. Readable(journal)' = Readable(journal \o <<Torn>>)
      BY <2>1 DEF Readable, IdsOf
    <3>4. /\ Readable(journal) \subseteq Readable(journal \o <<Torn>>)
          /\ Readable(journal \o <<Torn>>) \subseteq Readable(journal) \cup IdsIn(<<Torn>>)
      BY <3>2, ReadableConcat
    <3> QED BY <3>1, <3>3, <3>4
  <2>2. CASE journal' = journal
    BY <2>2 DEF Readable, IdsOf
  <2>3. Append(journal, Torn) = journal \o <<Torn>>
    BY ItemTypes DEF TypeOK, DiskTypes
  <2> QED BY <2>1, <2>2, <2>3 DEF Crash, Exit
<1>6. Unsent' = {}
  BY IdsInEmpty DEF Crash, Exit, FreshProcess, Unsent, IdsOf
<1> QED BY <1>1, <1>2, <1>3, <1>4, <1>5, <1>6

(* The next item is taken from the deferred one or from the queue.         *)
LEMMA TakeFlow ==
  ASSUME TypeOK, Assembly, Take
  PROVE  /\ NextItem \in Item
         /\ IdsIn(queue)' \cup IdsOf(NextItem.ids) = IdsIn(queue) \cup IdsIn(deferred)
         /\ IdsIn(deferred)' = {}
         /\ StopIn(queue)' => StopIn(queue)
         /\ ~StopIn(deferred)'
         /\ NextItem.kind = "stop" => StopIn(queue) \/ StopIn(deferred)
         /\ IdsIn(queue)' \subseteq IdsIn(queue)
<1>1. /\ IdsIn(queue)' = IdsIn(queue') /\ IdsIn(deferred)' = IdsIn(deferred')
      /\ (StopIn(queue)' <=> StopIn(queue')) /\ (StopIn(deferred)' <=> StopIn(deferred'))
  BY DEF IdsIn, IdsOf, StopIn
<1>2. queue \in Seq(Item) /\ deferred \in Seq(Item) /\ deferred' = <<>>
  BY DEF TypeOK, ThreadTypes, Take
<1>3. IdsIn(deferred') = {} /\ ~StopIn(deferred')
  BY <1>2, IdsInEmpty DEF StopIn
<1>4. CASE deferred # <<>>
  <2>1. deferred = <<NextItem>> /\ queue' = queue /\ NextItem \in Item
    BY <1>2, <1>4 DEF Assembly, NextItem, Take
  <2>2. IdsIn(<<NextItem>>) = IdsOf(NextItem.ids)
    BY DEF IdsIn
  <2>3. NextItem.kind = "stop" => StopIn(deferred)
    BY <2>1 DEF StopIn
  <2> QED BY <1>1, <1>3, <2>1, <2>2, <2>3
<1>5. CASE deferred = <<>>
  <2>1. /\ queue # <<>> /\ queue' = Tail(queue) /\ NextItem = Head(queue)
        /\ NextItem \in Item
    BY <1>2, <1>5 DEF NextItem, Take
  <2>2. IdsIn(queue) = IdsOf(Head(queue).ids) \cup IdsIn(Tail(queue))
    BY <1>2, <2>1, IdsInHeadTail
  <2>3. /\ StopIn(Tail(queue)) => StopIn(queue)
        /\ Head(queue).kind = "stop" => StopIn(queue)
    BY <1>2, <2>1, StopInConcat
  <2>4. IdsIn(deferred) = {}
    BY <1>5, IdsInEmpty
  <2> QED BY <1>1, <1>3, <2>1, <2>2, <2>3, <2>4
<1> QED BY <1>4, <1>5

(* A variable that keeps its value keeps its mutations.                    *)
LEMMA SameSets ==
  /\ buf' = buf => IdsIn(buf)' = IdsIn(buf)
  /\ journal' = journal => IdsIn(journal)' = IdsIn(journal)
                           /\ Readable(journal)' = Readable(journal)
  /\ queue' = queue => IdsIn(queue)' = IdsIn(queue) /\ (StopIn(queue)' <=> StopIn(queue))
  /\ deferred' = deferred =>
       IdsIn(deferred)' = IdsIn(deferred) /\ (StopIn(deferred)' <=> StopIn(deferred))
  /\ command' = command => (StopIn(command)' <=> StopIn(command))
  /\ hand' = hand => IdsOf(hand)' = IdsOf(hand)
  /\ batch' = batch => Unsent' = Unsent
  /\ command' = <<>> => ~StopIn(command)'
  /\ hand' = <<>> => IdsOf(hand)' = {}
<1>1. buf' = buf => IdsIn(buf)' = IdsIn(buf)
  BY DEF IdsIn, IdsOf
<1>2. journal' = journal => IdsIn(journal)' = IdsIn(journal)
                            /\ Readable(journal)' = Readable(journal)
  BY DEF IdsIn, IdsOf, Readable
<1>3. queue' = queue => IdsIn(queue)' = IdsIn(queue) /\ (StopIn(queue)' <=> StopIn(queue))
  BY DEF IdsIn, IdsOf, StopIn
<1>4. deferred' = deferred =>
        IdsIn(deferred)' = IdsIn(deferred) /\ (StopIn(deferred)' <=> StopIn(deferred))
  BY DEF IdsIn, IdsOf, StopIn
<1>5. command' = command => (StopIn(command)' <=> StopIn(command))
  BY DEF StopIn
<1>6. hand' = hand => IdsOf(hand)' = IdsOf(hand)
  BY DEF IdsOf
<1>7. batch' = batch => Unsent' = Unsent
  BY DEF Unsent, IdsOf
<1>8. command' = <<>> => ~StopIn(command)'
  BY DEF StopIn
<1>9. hand' = <<>> => IdsOf(hand)' = {}
  BY DEF IdsOf
<1> QED BY <1>1, <1>2, <1>3, <1>4, <1>5, <1>6, <1>7, <1>8, <1>9

----------------------------------------------------------------------------
(* The inductive invariant                                                 *)

Safe == /\ MemoryAhead /\ NothingSurvivesDown /\ Assembly
        /\ RotationCovers /\ StopCovers /\ NothingForgotten

(* A producer that mutates, sends or waits keeps the invariant.            *)
LEMMA ProducerStep ==
  ASSUME IInv, NEW p \in Producers, Producer(p)
  PROVE  Safe' /\ UNCHANGED <<journal, snapshot, callers>>
<1>1. CASE BatchMutate(p) \/ RecordMutate(p)
  <2>1. callers[Closer] = "idle" /\ pc # "down"
    BY <1>1 DEF BatchMutate, RecordMutate, LoopFree, Running
  <2>2. /\ Unsent' = Unsent \cup {clock'}
        /\ live' = live \cup {clock'} /\ clock' = clock + 1
    BY <1>1, MutateFlow DEF BatchMutate, RecordMutate, IInv
  <2>3. UNCHANGED <<dropped, channel, thread, disk, calls, crashes>>
    BY <1>1 DEF BatchMutate, RecordMutate, Mutate
  <2>4. /\ UNCHANGED <<dropped, queue, pc, hand, deferred, command, capture, failed,
                       callers, buf, journal, snapshot>>
        /\ IdsIn(buf)' = IdsIn(buf) /\ IdsIn(journal)' = IdsIn(journal)
        /\ Readable(journal)' = Readable(journal)
        /\ IdsIn(queue)' = IdsIn(queue) /\ IdsIn(deferred)' = IdsIn(deferred)
        /\ IdsOf(hand)' = IdsOf(hand)
        /\ StopIn(queue)' <=> StopIn(queue)
        /\ StopIn(deferred)' <=> StopIn(deferred)
        /\ StopIn(command)' <=> StopIn(command)
    BY <2>3, SameSets DEF channel, thread, disk, calls
  <2>5. MemoryAhead'
    <3>1. clock \in Nat
      BY DEF IInv, TypeOK, MemoryTypes
    <3>2. live' \subseteq 1 .. clock'
      BY <2>2, <3>1 DEF IInv, MemoryAhead
    <3> QED BY <2>2, <2>4, <3>2 DEF IInv, MemoryAhead, InFlight, Recoverable
  <2>6. NothingSurvivesDown'
    BY <2>1, <2>4 DEF NothingSurvivesDown
  <2>7. Assembly'
    BY <2>4 DEF IInv, Assembly
  <2>8. RotationCovers'
    BY <2>2, <2>4 DEF IInv, RotationCovers, Recoverable, Uncaptured
  <2>9. StopCovers'
    BY <2>1, <2>4 DEF IInv, StopCovers
  <2>10. NothingForgotten'
    BY <2>2, <2>4 DEF IInv, NothingForgotten, Running, OnDisk, InFlight
  <2> QED BY <2>4, <2>5, <2>6, <2>7, <2>8, <2>9, <2>10 DEF Safe
<1>2. CASE Commit(p) \/ RetryCommit(p) \/ CancelCommit(p) \/ PutSync(p)
  <2>1. /\ IdsIn(queue)' \cup Unsent' \subseteq IdsIn(queue) \cup Unsent
        /\ Uncaptured \subseteq Uncaptured'
        /\ StopIn(queue)' => StopIn(queue)
        /\ UNCHANGED <<clock, live, thread, disk, calls, crashes>>
        /\ pc # "down"
    BY <1>2, SendFlow DEF IInv, Running
  <2>2. /\ UNCHANGED <<pc, hand, deferred, command, capture, failed,
                       callers, buf, journal, snapshot>>
        /\ IdsIn(buf)' = IdsIn(buf) /\ IdsIn(journal)' = IdsIn(journal)
        /\ Readable(journal)' = Readable(journal)
        /\ IdsIn(deferred)' = IdsIn(deferred) /\ IdsOf(hand)' = IdsOf(hand)
        /\ StopIn(deferred)' <=> StopIn(deferred)
        /\ StopIn(command)' <=> StopIn(command)
    BY <2>1, SameSets DEF thread, disk, calls
  <2>3. MemoryAhead'
    BY <2>1, <2>2 DEF IInv, MemoryAhead, InFlight, Recoverable
  <2>4. NothingSurvivesDown'
    BY <2>1, <2>2 DEF NothingSurvivesDown
  <2>5. Assembly'
    BY <2>2 DEF IInv, Assembly
  <2>6. RotationCovers'
    BY <2>1, <2>2 DEF IInv, RotationCovers, Recoverable
  <2>7. StopCovers'
    BY <2>1, <2>2 DEF IInv, StopCovers
  <2>8. NothingForgotten'
    BY <2>1, <2>2 DEF IInv, NothingForgotten, Running, OnDisk, InFlight, Uncaptured
  <2> QED BY <2>2, <2>3, <2>4, <2>5, <2>6, <2>7, <2>8 DEF Safe
<1> QED BY <1>1, <1>2 DEF Producer

(* A caller of flush() or close() keeps the invariant.                     *)
LEMMA CallerStep ==
  ASSUME IInv, NEW c \in Callers, Caller(c)
  PROVE  /\ Safe'
         /\ UNCHANGED <<live, journal, snapshot>>
         /\ callers'[Closer] = "ok" => callers[Closer] = "ok" \/ pc = "stopped"
         /\ callers[Closer] = "ok" => callers'[Closer] = "ok"
<1>1. /\ UNCHANGED <<memory, thread, disk>> /\ pc # "down"
  BY DEF Caller, Call, Put, Return, Raise, TimeOut, Running
<1>2. /\ UNCHANGED <<clock, live, dropped, pc, hand, deferred, command, capture, failed,
                     buf, journal, snapshot>>
      /\ IdsIn(buf)' = IdsIn(buf) /\ IdsIn(journal)' = IdsIn(journal)
      /\ Readable(journal)' = Readable(journal)
      /\ IdsIn(deferred)' = IdsIn(deferred) /\ IdsOf(hand)' = IdsOf(hand)
      /\ Unsent' = Unsent
      /\ StopIn(deferred)' <=> StopIn(deferred)
      /\ StopIn(command)' <=> StopIn(command)
  BY <1>1, SameSets DEF memory, thread, disk
<1>3. /\ IdsIn(queue)' = IdsIn(queue)
      /\ StopIn(queue)' => StopIn(queue) \/ (c = Closer /\ callers[c] = "checked")
  <2>1. CASE queue' = queue
    BY <2>1, SameSets
  <2>2. CASE Put(c) /\ queue' = Append(queue, Command(c))
    <3>1. Command(c) \in Item /\ queue \in Seq(Item)
      BY ItemTypes DEF IInv, TypeOK
    <3>2. Command(c).ids = <<>> /\ (Command(c).kind = "stop" => c = Closer)
      BY DEF Command
    <3>3. IdsIn(queue') = IdsIn(queue) \cup IdsOf(Command(c).ids)
      BY <2>2, <3>1, IdsInAppend
    <3>4. StopIn(queue') => StopIn(queue) \/ Command(c).kind = "stop"
      BY <2>2, <3>1, StopInConcat
    <3>5. IdsIn(queue)' = IdsIn(queue') /\ (StopIn(queue)' <=> StopIn(queue'))
      BY DEF IdsIn, IdsOf, StopIn
    <3> QED BY <2>2, <3>2, <3>3, <3>4, <3>5, IdsInEmpty DEF Put
  <2> QED BY <2>1, <2>2 DEF Caller, Call, Put, Return, Raise, TimeOut, channel
<1>4. /\ callers[Closer] # "idle" => callers'[Closer] # "idle"
      /\ c = Closer /\ callers[c] = "checked" => callers'[Closer] # "idle"
      /\ callers[Closer] = "ok" => callers'[Closer] = "ok"
      /\ callers'[Closer] = "ok" =>
           callers[Closer] = "ok" \/ (~failed /\ pc \in {"stopped", "dead", "down"})
  BY DEF Caller, Call, Put, Return, Raise, TimeOut, Outcome, ThreadUp,
         IInv, TypeOK, CallTypes, Callers
<1>5. MemoryAhead'
  BY <1>2, <1>3 DEF IInv, MemoryAhead, InFlight, Recoverable
<1>6. NothingSurvivesDown'
  BY <1>1, <1>2 DEF NothingSurvivesDown
<1>7. Assembly'
  BY <1>2 DEF IInv, Assembly
<1>8. RotationCovers'
  BY <1>2, <1>3 DEF IInv, RotationCovers, Recoverable, Uncaptured
<1>9. StopCovers'
  BY <1>1, <1>2, <1>3, <1>4 DEF IInv, StopCovers
<1>10. NothingForgotten'
  BY <1>2, <1>3 DEF IInv, NothingForgotten, Running, OnDisk, InFlight
<1>11. callers'[Closer] = "ok" => callers[Closer] = "ok" \/ pc = "stopped"
  BY <1>1, <1>4 DEF IInv, StopCovers
<1> QED BY <1>2, <1>4, <1>5, <1>6, <1>7, <1>8, <1>9, <1>10, <1>11 DEF Safe

(* What every step of the writer must show: memory and the callers are not *)
(* its business, and what can be recovered does not recede.                *)
WriterGuarantee == /\ Safe'
                   /\ UNCHANGED <<live, callers>>
                   /\ Recoverable \subseteq Recoverable'

(* The writer taking an item, or coalescing batches, keeps it.             *)
LEMMA TakeStep ==
  ASSUME IInv, TakeMutations \/ TakeCommand \/ Coalesce
  PROVE  WriterGuarantee
<1>1. /\ UNCHANGED <<clock, live, dropped, batch, callers, capture, failed,
                     buf, journal, snapshot>>
      /\ IdsIn(buf)' = IdsIn(buf) /\ IdsIn(journal)' = IdsIn(journal)
      /\ Readable(journal)' = Readable(journal) /\ Unsent' = Unsent
  BY SameSets DEF TakeMutations, TakeCommand, Coalesce, memory, disk, calls
<1>2. /\ pc \in {"get", "coalesce"}
      /\ pc' \in {"coalesce", "write", "flush", "stop"}
  BY DEF TakeMutations, TakeCommand, Coalesce, Take, IInv, TypeOK, ThreadTypes
<1>3. /\ IdsIn(queue)' \cup IdsIn(deferred)' \cup IdsOf(hand)'
           = IdsIn(queue) \cup IdsIn(deferred) \cup IdsOf(hand)
      /\ (StopIn(queue) \/ StopIn(deferred) \/ StopIn(command))'
           => StopIn(queue) \/ StopIn(deferred) \/ StopIn(command)
      /\ Assembly'
  <2>1. CASE TakeMutations
    <3>1. hand = <<>> /\ hand' = NextItem.ids /\ command' = command /\ Take
          /\ pc' \in {"coalesce", "write"} /\ deferred' = <<>>
      BY <2>1 DEF TakeMutations, Take, IInv, Assembly
    <3>2. IdsOf(hand)' = IdsOf(NextItem.ids) /\ IdsOf(hand) = {}
      BY <3>1, IdsInEmpty DEF IdsOf
    <3>3. Assembly'
      BY <3>1 DEF Assembly
    <3> QED BY <3>1, <3>2, <3>3, TakeFlow, SameSets DEF IInv
  <2>2. CASE TakeCommand
    <3>1. /\ Take /\ hand' = hand /\ command' = <<NextItem>>
          /\ NextItem.kind \in {"flush", "stop"} /\ hand = <<>> /\ deferred' = <<>>
      BY <2>2 DEF TakeCommand, Take, IInv, Assembly
    <3>2. NextItem \in Item
      BY <3>1, TakeFlow DEF IInv
    <3>3. IdsOf(NextItem.ids) = {}
      BY <3>1, <3>2, ItemFields, IdsInEmpty
    <3>4. StopIn(command)' => NextItem.kind = "stop"
      BY <3>1 DEF StopIn
    <3>5. Assembly'
      BY <3>1 DEF Assembly
    <3> QED BY <3>1, <3>3, <3>4, <3>5, TakeFlow, SameSets DEF IInv
  <2>3. CASE Coalesce
    <3>1. /\ queue \in Seq(Item) /\ queue # <<>> /\ queue' = Tail(queue)
          /\ deferred = <<>> /\ command' = command
      BY <2>3 DEF Coalesce, IInv, TypeOK, Assembly
    <3>2. /\ IdsIn(queue) = IdsOf(Head(queue).ids) \cup IdsIn(Tail(queue))
          /\ StopIn(Tail(queue)) => StopIn(queue)
          /\ Head(queue).kind = "stop" => StopIn(queue)
          /\ Head(queue) \in Item
      <4>1. Head(queue) \in Item
        BY <3>1
      <4> QED BY <3>1, <4>1, IdsInHeadTail, StopInConcat
    <3>3. /\ IdsIn(queue)' = IdsIn(Tail(queue)) /\ (StopIn(queue)' <=> StopIn(Tail(queue)))
          /\ IdsIn(deferred) = {}
      BY <3>1, IdsInEmpty DEF IdsIn, IdsOf, StopIn
    <3>4. CASE Head(queue).kind = "batch"
      <4>1. hand' = hand \o Head(queue).ids /\ deferred' = deferred /\ pc' = pc
        BY <2>3, <3>4 DEF Coalesce, Merge
      <4>2. hand \in Seq(Mutations) /\ Head(queue).ids \in Seq(Mutations)
        BY <3>2, ItemFields DEF IInv, TypeOK, ThreadTypes
      <4>3. IdsOf(hand \o Head(queue).ids) = IdsOf(hand) \cup IdsOf(Head(queue).ids)
        BY <4>2, IdsOfConcat
      <4>4. IdsOf(hand)' = IdsOf(hand \o Head(queue).ids)
        BY <4>1 DEF IdsOf
      <4>5. Assembly'
        BY <2>3, <4>1 DEF Assembly, IInv, Coalesce
      <4> QED BY <3>1, <3>2, <3>3, <4>1, <4>3, <4>4, <4>5, SameSets
    <3>5. CASE Head(queue).kind # "batch"
      <4>1. hand' = hand /\ deferred' = <<Head(queue)>> /\ pc' = "write"
        BY <2>3, <3>5 DEF Coalesce
      <4>2. /\ IdsIn(deferred)' = IdsOf(Head(queue).ids)
            /\ StopIn(deferred)' => Head(queue).kind = "stop"
        BY <4>1 DEF IdsIn, IdsOf, StopIn
      <4>3. Assembly'
        BY <4>1 DEF Assembly
      <4> QED BY <3>1, <3>2, <3>3, <4>1, <4>2, <4>3, SameSets
    <3> QED BY <3>4, <3>5
  <2> QED BY <2>1, <2>2, <2>3
<1>4. MemoryAhead'
  BY <1>1, <1>3 DEF IInv, MemoryAhead, InFlight, Recoverable
<1>5. NothingSurvivesDown' /\ RotationCovers'
  BY <1>2 DEF NothingSurvivesDown, RotationCovers
<1>6. StopCovers'
  BY <1>1, <1>2, <1>3 DEF IInv, StopCovers
<1>7. NothingForgotten'
  BY <1>1, <1>2, <1>3 DEF IInv, NothingForgotten, Running, OnDisk, InFlight
<1>8. Recoverable \subseteq Recoverable'
  BY <1>1 DEF Recoverable
<1> QED BY <1>1, <1>3, <1>4, <1>5, <1>6, <1>7, <1>8 DEF Safe, WriterGuarantee

(* A record written to the file object keeps it.                           *)
LEMMA WriteStep ==
  ASSUME IInv, Write
  PROVE  WriterGuarantee
<1>1. /\ UNCHANGED <<clock, live, dropped, callers, capture, failed, snapshot,
                     queue, deferred, command>>
      /\ IdsIn(queue)' = IdsIn(queue) /\ IdsIn(deferred)' = IdsIn(deferred)
      /\ StopIn(queue)' <=> StopIn(queue)
      /\ StopIn(deferred)' <=> StopIn(deferred)
      /\ StopIn(command)' <=> StopIn(command)
      /\ Unsent' = Unsent /\ IdsOf(hand)' = {} /\ hand' = <<>>
      /\ pc \in {"write", "coalesce"} /\ pc' = "written"
  BY SameSets DEF Write, Writing, memory, channel, calls
<1>2. /\ IdsIn(buf)' \subseteq IdsIn(buf) \cup IdsOf(hand)
      /\ Readable(journal) \subseteq Readable(journal)'
      /\ Readable(journal)' \subseteq Readable(journal) \cup IdsIn(buf) \cup IdsOf(hand)
      /\ IdsIn(journal)' \cup IdsIn(buf)' = IdsIn(journal) \cup IdsIn(buf) \cup IdsOf(hand)
  BY WriteFlow DEF IInv
<1>3. MemoryAhead'
  BY <1>1, <1>2 DEF IInv, MemoryAhead, InFlight, Recoverable
<1>4. NothingSurvivesDown' /\ RotationCovers' /\ Assembly'
  BY <1>1 DEF NothingSurvivesDown, RotationCovers, Assembly, IInv
<1>5. StopCovers'
  BY <1>1 DEF IInv, StopCovers
<1>6. NothingForgotten'
  BY <1>1, <1>2 DEF IInv, NothingForgotten, Running, OnDisk, InFlight
<1>7. Recoverable \subseteq Recoverable'
  BY <1>1, <1>2 DEF Recoverable
<1> QED BY <1>1, <1>3, <1>4, <1>5, <1>6, <1>7 DEF Safe, WriterGuarantee

(* What follows a write, an idle tick, and the end by Stop keep it.        *)
LEMMA FlushStep ==
  ASSUME IInv, AfterWrite \/ Idle \/ Flush \/ Stop \/ CloseJournal
  PROVE  WriterGuarantee
<1>1. /\ UNCHANGED <<clock, live, dropped, batch, callers, capture, failed, snapshot,
                     queue, deferred, hand>>
      /\ command' = command \/ command' = <<>>
      /\ FlushHandle \/ UNCHANGED <<buf, spilt, journal>>
      /\ pc \in {"written", "get", "flush", "stop", "close"}
      /\ pc' \in {"get", "capture", "truncate"}
      /\ pc' = "truncate" => pc = "close"
  BY DEF AfterWrite, Idle, Flush, Stop, CloseJournal, FlushPending, Answer,
         memory, channel, calls
<1>2. /\ IdsIn(queue)' = IdsIn(queue) /\ IdsIn(deferred)' = IdsIn(deferred)
      /\ StopIn(queue)' <=> StopIn(queue)
      /\ StopIn(deferred)' <=> StopIn(deferred)
      /\ StopIn(command)' => StopIn(command)
      /\ Unsent' = Unsent /\ IdsOf(hand)' = IdsOf(hand)
  BY <1>1, SameSets
<1>3. /\ IdsIn(buf)' \subseteq IdsIn(buf)
      /\ Readable(journal) \subseteq Readable(journal)'
      /\ Readable(journal)' \subseteq Readable(journal) \cup IdsIn(buf)
      /\ IdsIn(journal)' \cup IdsIn(buf)' = IdsIn(journal) \cup IdsIn(buf)
  BY <1>1, FlushFlow DEF IInv
<1>4. MemoryAhead'
  BY <1>1, <1>2, <1>3 DEF IInv, MemoryAhead, InFlight, Recoverable
<1>5. NothingSurvivesDown' /\ Assembly'
  BY <1>1 DEF NothingSurvivesDown, Assembly, IInv
<1>6. RotationCovers'
  BY <1>1, <1>2, <1>3 DEF RotationCovers, Uncaptured, IInv
<1>7. StopCovers'
  BY <1>1, <1>2 DEF IInv, StopCovers
<1>8. NothingForgotten'
  BY <1>1, <1>2, <1>3 DEF IInv, NothingForgotten, Running, OnDisk, InFlight
<1>9. Recoverable \subseteq Recoverable'
  BY <1>1, <1>3 DEF Recoverable
<1> QED BY <1>1, <1>4, <1>5, <1>6, <1>7, <1>8, <1>9 DEF Safe, WriterGuarantee

(* The snapshot, its rename and the truncation keep it.                    *)
LEMMA RotateStep ==
  ASSUME IInv, Capture \/ ReplaceSnapshot \/ Truncate
  PROVE  WriterGuarantee
<1>1. /\ UNCHANGED <<clock, live, dropped, batch, callers, failed, queue, deferred,
                     hand, buf>>
      /\ IdsIn(queue)' = IdsIn(queue) /\ IdsIn(deferred)' = IdsIn(deferred)
      /\ IdsIn(buf)' = IdsIn(buf)
      /\ StopIn(queue)' <=> StopIn(queue)
      /\ StopIn(deferred)' <=> StopIn(deferred)
      /\ Unsent' = Unsent /\ IdsOf(hand)' = IdsOf(hand)
  BY SameSets DEF Capture, ReplaceSnapshot, Truncate, memory, channel, disk, calls
<1>2. CASE Capture
  <2>1. /\ UNCHANGED <<journal, snapshot, command>> /\ pc = "capture" /\ pc' = "replace"
        /\ capture' = live
        /\ IdsIn(journal)' = IdsIn(journal) /\ Readable(journal)' = Readable(journal)
        /\ StopIn(command)' <=> StopIn(command)
    BY <1>2, SameSets DEF Capture, disk
  <2>2. MemoryAhead' /\ Recoverable' = Recoverable
    BY <1>1, <2>1 DEF IInv, MemoryAhead, InFlight, Recoverable
  <2>3. NothingSurvivesDown' /\ Assembly'
    BY <1>1, <2>1 DEF NothingSurvivesDown, Assembly, IInv
  <2>4. RotationCovers'
    BY <1>1, <2>1, <2>2 DEF RotationCovers, Uncaptured, IInv, MemoryAhead, InFlight
  <2>5. StopCovers'
    BY <1>1, <2>1 DEF IInv, StopCovers
  <2>6. NothingForgotten'
    BY <1>1, <2>1 DEF IInv, NothingForgotten, Running, OnDisk, InFlight
  <2> QED BY <1>1, <2>2, <2>3, <2>4, <2>5, <2>6 DEF Safe, WriterGuarantee
<1>3. CASE ReplaceSnapshot
  <2>1. /\ UNCHANGED <<journal, command>> /\ pc = "replace" /\ pc' = "close"
        /\ snapshot' = capture
        /\ IdsIn(journal)' = IdsIn(journal) /\ Readable(journal)' = Readable(journal)
        /\ StopIn(command)' <=> StopIn(command)
    BY <1>3, SameSets DEF ReplaceSnapshot
  <2>2. /\ Recoverable \cup IdsIn(buf) \subseteq capture /\ capture \subseteq live
        /\ live \subseteq capture \cup Uncaptured
    BY <2>1 DEF IInv, RotationCovers
  <2>3. MemoryAhead' /\ Recoverable \subseteq Recoverable'
    BY <1>1, <2>1, <2>2 DEF IInv, MemoryAhead, InFlight, Recoverable
  <2>4. NothingSurvivesDown' /\ Assembly'
    BY <1>1, <2>1 DEF NothingSurvivesDown, Assembly, IInv
  <2>5. RotationCovers'
    BY <1>1, <2>1, <2>2 DEF RotationCovers, Uncaptured, Recoverable
  <2>6. StopCovers'
    BY <1>1, <2>1 DEF IInv, StopCovers
  <2>7. NothingForgotten'
    BY <1>1, <2>1, <2>2 DEF NothingForgotten, OnDisk, InFlight, Uncaptured
  <2> QED BY <1>1, <2>3, <2>4, <2>5, <2>6, <2>7 DEF Safe, WriterGuarantee
<1>4. CASE Truncate
  <2>1. /\ UNCHANGED <<snapshot, capture>> /\ pc = "truncate" /\ journal' = <<>>
        /\ pc' = IF StopIn(command) THEN "stopped" ELSE "get"
        /\ command' = <<>>
        /\ ~StopIn(command)'
    BY <1>4, SameSets DEF Truncate, Answer, StopIn
  <2>2. IdsIn(journal)' = {} /\ Readable(journal)' = {}
    BY <2>1 DEF IdsIn, Readable
  <2>3. /\ Readable(journal) \cup IdsIn(buf) \subseteq snapshot
        /\ live \subseteq snapshot \cup Uncaptured
    BY <2>1 DEF IInv, RotationCovers
  <2>4. MemoryAhead' /\ Recoverable \subseteq Recoverable'
    BY <1>1, <2>1, <2>2, <2>3 DEF IInv, MemoryAhead, InFlight, Recoverable
  <2>5. NothingSurvivesDown' /\ Assembly' /\ RotationCovers'
    BY <1>1, <2>1 DEF NothingSurvivesDown, Assembly, RotationCovers, IInv
  <2>6. StopCovers'
    BY <1>1, <2>1 DEF IInv, StopCovers
  <2>7. NothingForgotten'
    BY <1>1, <2>1, <2>2, <2>3 DEF NothingForgotten, OnDisk, InFlight, Uncaptured
  <2> QED BY <1>1, <2>4, <2>5, <2>6, <2>7 DEF Safe, WriterGuarantee
<1> QED BY <1>2, <1>3, <1>4

(* A writer that fails, and drains the queue, keeps it.                    *)
LEMMA FailureStep ==
  ASSUME IInv, Fail \/ Drain
  PROVE  WriterGuarantee
<1>1. CASE Fail
  <2>1. /\ UNCHANGED <<clock, live, dropped, batch, callers, queue, deferred, command,
                       hand, buf, journal, snapshot>>
        /\ pc # "down" /\ pc' = "drain" /\ failed' = TRUE
    BY <1>1 DEF Fail, Writing, memory, channel, disk, calls
  <2>2. /\ IdsIn(queue)' = IdsIn(queue) /\ IdsIn(deferred)' = IdsIn(deferred)
        /\ IdsIn(buf)' = IdsIn(buf) /\ Readable(journal)' = Readable(journal)
        /\ Unsent' = Unsent /\ IdsOf(hand)' = IdsOf(hand)
        /\ StopIn(queue)' <=> StopIn(queue)
        /\ StopIn(deferred)' <=> StopIn(deferred)
        /\ StopIn(command)' <=> StopIn(command)
    BY <2>1, SameSets
  <2>3. MemoryAhead' /\ Recoverable' = Recoverable
    BY <2>1, <2>2 DEF IInv, MemoryAhead, InFlight, Recoverable
  <2>4. NothingSurvivesDown' /\ RotationCovers' /\ NothingForgotten'
    BY <2>1 DEF NothingSurvivesDown, RotationCovers, NothingForgotten
  <2>5. Assembly'
    BY <1>1, <2>1 DEF Assembly, IInv, Fail, Writing
  <2>6. callers[Closer] = "ok" => pc = "stopped"
    BY DEF IInv, StopCovers
  <2>7. pc # "stopped"
    BY <1>1 DEF Fail, Writing
  <2>8. StopCovers'
    BY <2>1, <2>2, <2>6, <2>7 DEF IInv, StopCovers
  <2> QED BY <2>1, <2>3, <2>4, <2>5, <2>8 DEF Safe, WriterGuarantee
<1>2. CASE Drain
  <2>1. /\ UNCHANGED <<clock, live, dropped, batch, callers, failed, snapshot>>
        /\ queue' = <<>> /\ deferred' = <<>> /\ command' = <<>> /\ hand' = <<>>
        /\ buf' = <<>> /\ pc = "drain" /\ pc' = "dead"
    BY <1>2 DEF Drain, memory
  <2>2. /\ IdsIn(queue)' = {} /\ IdsIn(deferred)' = {} /\ IdsIn(buf)' = {}
        /\ IdsOf(hand)' = {} /\ Unsent' = Unsent
        /\ ~StopIn(queue)' /\ ~StopIn(deferred)' /\ ~StopIn(command)'
    <3>1. /\ ~StopIn(queue)' /\ ~StopIn(deferred)' /\ ~StopIn(command)'
      BY <2>1 DEF StopIn
    <3>2. IdsIn(queue)' = {} /\ IdsIn(deferred)' = {} /\ IdsIn(buf)' = {}
      BY <2>1 DEF IdsIn
    <3> QED BY <2>1, <3>1, <3>2, SameSets
  <2>3. /\ Readable(journal) \subseteq Readable(journal)'
        /\ Readable(journal)' \subseteq Readable(journal) \cup IdsIn(buf)
    BY <1>2, DrainFlow DEF IInv
  <2>4. MemoryAhead' /\ Recoverable \subseteq Recoverable'
    BY <2>1, <2>2, <2>3 DEF IInv, MemoryAhead, InFlight, Recoverable
  <2>5. NothingSurvivesDown' /\ RotationCovers' /\ Assembly'
    BY <2>1 DEF NothingSurvivesDown, RotationCovers, Assembly
  <2>6. StopCovers'
    BY <2>1, <2>2 DEF IInv, StopCovers
  <2>7. NothingForgotten'
    BY <2>1 DEF IInv, NothingForgotten, StopCovers
  <2> QED BY <2>1, <2>4, <2>5, <2>6, <2>7 DEF Safe, WriterGuarantee
<1> QED BY <1>1, <1>2

(* A kill, an orderly exit and the next start keep it.                     *)
LEMMA ProcessStep ==
  ASSUME IInv, Crash \/ Exit \/ Recover
  PROVE  Safe' /\ Recoverable' = Recoverable
<1>1. CASE Crash \/ Exit
  <2>1. /\ Readable(journal)' = Readable(journal) /\ UNCHANGED snapshot
        /\ (InFlight \cup Unsent)' = {}
        /\ ~(StopIn(queue) \/ StopIn(deferred) \/ StopIn(command))'
        /\ callers'[Closer] = "idle" /\ pc' = "down" /\ UNCHANGED <<live, clock>>
    BY <1>1, CrashFlow DEF IInv
  <2>2. deferred' = <<>> /\ hand' = <<>>
    BY <1>1 DEF Crash, Exit, FreshProcess
  <2>3. MemoryAhead' /\ Recoverable' = Recoverable
    BY <2>1 DEF IInv, MemoryAhead, Recoverable
  <2>4. NothingSurvivesDown' /\ Assembly'
    BY <2>1, <2>2 DEF NothingSurvivesDown, Assembly
  <2>5. RotationCovers' /\ StopCovers' /\ NothingForgotten'
    BY <2>1 DEF RotationCovers, StopCovers, NothingForgotten, Running
  <2> QED BY <2>3, <2>4, <2>5 DEF Safe
<1>2. CASE Recover
  <2>1. /\ UNCHANGED <<clock, batch, callers, failed, queue, deferred, command, hand,
                       buf, journal, snapshot>>
        /\ pc = "down" /\ pc' = "get" /\ live' = Recoverable
    BY <1>2 DEF Recover, channel, disk, calls
  <2>2. /\ InFlight' = InFlight /\ Unsent' = Unsent
        /\ IdsIn(journal)' = IdsIn(journal) /\ Readable(journal)' = Readable(journal)
        /\ StopIn(queue)' <=> StopIn(queue)
        /\ StopIn(deferred)' <=> StopIn(deferred)
        /\ StopIn(command)' <=> StopIn(command)
    BY <2>1, SameSets DEF InFlight
  <2>3. /\ InFlight \cup Unsent = {} /\ callers[Closer] = "idle"
        /\ ~StopIn(queue) /\ ~StopIn(deferred) /\ ~StopIn(command)
    BY <2>1 DEF IInv, NothingSurvivesDown
  <2>4. MemoryAhead' /\ Recoverable' = Recoverable
    BY <2>1, <2>2, <2>3 DEF IInv, MemoryAhead, Recoverable
  <2>5. NothingSurvivesDown' /\ Assembly' /\ RotationCovers'
    BY <2>1 DEF NothingSurvivesDown, Assembly, RotationCovers, IInv
  <2>6. StopCovers'
    BY <2>1, <2>2, <2>3 DEF StopCovers
  <2>7. Readable(journal) \subseteq IdsIn(journal)
    BY DEF Readable, IdsIn
  <2>8. NothingForgotten'
    BY <2>1, <2>2, <2>7 DEF NothingForgotten, OnDisk, Recoverable
  <2> QED BY <2>4, <2>5, <2>6, <2>8 DEF Safe
<1> QED BY <1>1, <1>2

(* Every step preserves the inductive invariant.                           *)
LEMMA InvariantStep ==
  ASSUME JournalAssumption, IInv, [Next]_vars
  PROVE  IInv'
<1>1. TypeOK'
  BY TypeStep DEF IInv
<1>2. Safe'
  <2>1. CASE \E p \in Producers : Producer(p)
    BY <2>1, ProducerStep
  <2>2. CASE \E c \in Callers : Caller(c)
    BY <2>2, CallerStep
  <2>3. CASE Writer \/ Fail
    BY <2>3, TakeStep, WriteStep, FlushStep, RotateStep, FailureStep
       DEF Writer, WriterGuarantee
  <2>4. CASE Crash \/ Exit \/ Recover
    BY <2>4, ProcessStep
  <2>5. CASE UNCHANGED vars
    <3>1. /\ UNCHANGED <<clock, live, dropped, batch, queue, pc, hand, deferred,
                         command, capture, failed, callers, buf, journal, snapshot>>
      BY <2>5 DEF vars, memory, channel, thread, disk, calls
    <3>2. /\ IdsIn(buf)' = IdsIn(buf) /\ IdsIn(journal)' = IdsIn(journal)
          /\ Readable(journal)' = Readable(journal)
          /\ IdsIn(queue)' = IdsIn(queue) /\ IdsIn(deferred)' = IdsIn(deferred)
          /\ IdsOf(hand)' = IdsOf(hand) /\ Unsent' = Unsent
          /\ StopIn(queue)' <=> StopIn(queue)
          /\ StopIn(deferred)' <=> StopIn(deferred)
          /\ StopIn(command)' <=> StopIn(command)
      BY <3>1, SameSets
    <3>3. MemoryAhead' /\ NothingSurvivesDown'
      BY <3>1, <3>2 DEF IInv, MemoryAhead, NothingSurvivesDown, InFlight, Recoverable
    <3>4. Assembly' /\ RotationCovers'
      BY <3>1, <3>2 DEF IInv, Assembly, RotationCovers, Recoverable, Uncaptured
    <3>5. StopCovers'
      BY <3>1, <3>2 DEF IInv, StopCovers
    <3>6. NothingForgotten'
      BY <3>1, <3>2 DEF IInv, NothingForgotten, Running, OnDisk, InFlight
    <3> QED BY <3>3, <3>4, <3>5, <3>6 DEF Safe
  <2> QED BY <2>1, <2>2, <2>3, <2>4, <2>5 DEF Next
<1> QED BY <1>1, <1>2 DEF IInv, Safe

(* A store that has just been created satisfies the invariant.             *)
LEMMA InitInvariant ==
  ASSUME JournalAssumption, Init
  PROVE  IInv
<1>1. TypeOK
  BY InitTypes
<1>2. /\ live = {} /\ snapshot = {} /\ queue = <<>> /\ hand = <<>> /\ deferred = <<>>
      /\ command = <<>> /\ buf = <<>> /\ journal = <<>> /\ pc = "get"
      /\ callers[Closer] = "idle"
  BY DEF Init, Callers
<1>3. Unsent = {}
  BY IdsInEmpty DEF Init, Unsent
<1>4. /\ IdsIn(buf) = {} /\ IdsIn(journal) = {} /\ Readable(journal) = {}
      /\ IdsIn(queue) = {} /\ IdsIn(deferred) = {} /\ IdsOf(hand) = {}
  BY <1>2, IdsInEmpty
<1>5. ~StopIn(queue) /\ ~StopIn(deferred) /\ ~StopIn(command)
  BY <1>2 DEF StopIn
<1> QED BY <1>1, <1>2, <1>3, <1>4, <1>5
        DEF IInv, MemoryAhead, NothingSurvivesDown, Assembly, RotationCovers, StopCovers,
            NothingForgotten, InFlight, Recoverable

(* The strengthened invariant holds in every execution.                    *)
THEOREM Invariant == Spec => []IInv
<1>1. Init => IInv
  BY InitInvariant, JournalAssumption
<1>2. IInv /\ [Next]_vars => IInv'
  BY InvariantStep, JournalAssumption
<1> QED BY <1>1, <1>2, PTL DEF Spec

(* As long as the writer has not failed, no mutation that memory reflects  *)
(* is lost from sight between the batch, the queue, the record in hand, the *)
(* file's buffer, the journal and the snapshot, unless its producer was     *)
(* told so.                                                                *)
THEOREM NothingIsForgotten == Spec => []NothingForgotten
<1>1. IInv => NothingForgotten
  BY DEF IInv
<1> QED BY <1>1, Invariant, PTL

----------------------------------------------------------------------------
(* The refinement of DurableState                                          *)

(* A mutation is new to memory.                                            *)
LEMMA MutateRefines ==
  ASSUME IInv, NEW p \in Producers, BatchMutate(p) \/ RecordMutate(p)
  PROVE  Durable!Mutate
<1>1. PICK state : Mutate(p, state) /\ LoopFree
  BY DEF BatchMutate, RecordMutate
<1>2. /\ clock \in Nat /\ clock < MaxMutations /\ clock' = clock + 1
      /\ live' = live \cup {clock'} /\ live \subseteq 1 .. clock
  BY <1>1 DEF IInv, TypeOK, MemoryTypes, MemoryAhead, Mutate
<1>3. Recoverable' = Recoverable /\ callers' = callers
  BY <1>1 DEF Mutate, Recoverable, Readable, IdsOf, disk, calls
<1>4. clock' \in Mutations \ live
  <2>1. clock' \notin 1 .. clock /\ clock' \in 1 .. MaxMutations
    BY <1>2, JournalAssumption DEF JournalAssumption
  <2> QED BY <1>2, <2>1 DEF Mutations
<1>5. callers[Closer] # "ok"
  BY <1>1 DEF LoopFree
<1> QED BY <1>2, <1>3, <1>4, <1>5 DEF Durable!Mutate

(* What the writer's invariant leaves to recover is part of memory.        *)
LEMMA RecoverableInLive ==
  ASSUME IInv PROVE Recoverable \subseteq live
  BY DEF IInv, MemoryAhead

(* Every step of the writer is a step of the durable state, or none.       *)
LEMMA RefinementStep ==
  ASSUME JournalAssumption, IInv, [Next]_vars
  PROVE  [Durable!Next]_(Durable!vars)
<1>0. IInv'
  BY InvariantStep
<1> DEFINE Stutter == /\ live' = live /\ Recoverable' = Recoverable
                      /\ (callers[Closer] = "ok")' <=> (callers[Closer] = "ok")
<1>s. Stutter => UNCHANGED Durable!vars
  BY DEF Durable!vars
<1>1. ASSUME NEW p \in Producers, Producer(p)
      PROVE  [Durable!Next]_(Durable!vars)
  <2>1. CASE BatchMutate(p) \/ RecordMutate(p)
    BY <2>1, MutateRefines DEF Durable!Next
  <2>2. CASE Commit(p) \/ RetryCommit(p) \/ CancelCommit(p) \/ PutSync(p)
    <3>1. UNCHANGED <<live, journal, snapshot, callers>>
      BY <1>1, <2>2, ProducerStep DEF Commit, RetryCommit, CancelCommit, PutSync
    <3>2. Stutter
      BY <3>1, SameSets DEF Recoverable
    <3> QED BY <1>s, <3>2
  <2> QED BY <1>1, <2>1, <2>2 DEF Producer
<1>2. ASSUME NEW c \in Callers, Caller(c)
      PROVE  [Durable!Next]_(Durable!vars)
  <2>1. /\ UNCHANGED <<live, journal, snapshot>>
        /\ callers'[Closer] = "ok" => callers[Closer] = "ok" \/ pc = "stopped"
        /\ callers[Closer] = "ok" => callers'[Closer] = "ok"
    BY <1>2, CallerStep
  <2>2. Recoverable' = Recoverable
    BY <2>1, SameSets DEF Recoverable
  <2>3. CASE callers'[Closer] = "ok" /\ callers[Closer] # "ok"
    <3>1. snapshot = live
      BY <2>1, <2>3 DEF IInv, StopCovers
    <3>2. Recoverable = live
      BY <3>1, RecoverableInLive DEF Recoverable
    <3> QED BY <2>1, <2>2, <2>3, <3>2 DEF Durable!Next, Durable!Close
  <2>4. CASE ~(callers'[Closer] = "ok" /\ callers[Closer] # "ok")
    <3>1. Stutter
      BY <2>1, <2>2, <2>4
    <3> QED BY <1>s, <3>1
  <2> QED BY <2>3, <2>4
<1>3. ASSUME Writer \/ Fail
      PROVE  [Durable!Next]_(Durable!vars)
  <2>1. WriterGuarantee
    BY <1>3, TakeStep, WriteStep, FlushStep, RotateStep, FailureStep DEF Writer
  <2>2. Recoverable' \subseteq live'
    BY <1>0 DEF IInv, MemoryAhead
  <2> QED BY <2>1, <2>2 DEF WriterGuarantee, Durable!Next, Durable!Persist
<1>4. ASSUME Crash \/ Exit
      PROVE  [Durable!Next]_(Durable!vars)
  <2>1. live' = live /\ callers'[Closer] = "idle"
    BY <1>4, CrashFlow DEF IInv
  <2>2. Recoverable' = Recoverable
    BY <1>4, ProcessStep
  <2> QED BY <2>1, <2>2 DEF Durable!Next, Durable!Reopen
<1>5. ASSUME Recover
      PROVE  [Durable!Next]_(Durable!vars)
  <2>1. live' = Recoverable /\ callers' = callers
    BY <1>5 DEF Recover, calls
  <2>2. Recoverable' = Recoverable
    BY <1>5, ProcessStep
  <2> QED BY <2>1, <2>2 DEF Durable!Next, Durable!Restart
<1>6. ASSUME UNCHANGED vars
      PROVE  [Durable!Next]_(Durable!vars)
  <2>1. UNCHANGED <<live, journal, snapshot, callers>>
    BY <1>6 DEF vars, memory, disk, calls
  <2>2. Stutter
    BY <2>1, SameSets DEF Recoverable
  <2> QED BY <1>s, <2>2
<1> QED BY <1>1, <1>2, <1>3, <1>4, <1>5, <1>6 DEF Next

(* JournalPersistenceWorker implements the durable state: what a recovery  *)
(* would find follows memory and never recedes, through crashes, I/O errors *)
(* and rotations, and after a close() that returned it is all of memory.    *)
THEOREM Implements == Spec => ImplementsDurableState
<1>1. Init => Durable!Init
  <2> SUFFICES ASSUME Init PROVE Durable!Init
    OBVIOUS
  <2>1. live = {} /\ snapshot = {} /\ journal = <<>> /\ callers[Closer] = "idle"
    BY DEF Init, Callers
  <2>2. Recoverable = {}
    BY <2>1, IdsInEmpty DEF Recoverable
  <2> QED BY <2>1, <2>2 DEF Durable!Init
<1>2. IInv /\ [Next]_vars => [Durable!Next]_(Durable!vars)
  BY RefinementStep, JournalAssumption
<1> QED BY <1>1, <1>2, Invariant, PTL DEF Spec, ImplementsDurableState, Durable!Spec

----------------------------------------------------------------------------
(* The mutations of a sequence of items, in order: what Flat computes      *)

(* What flat is, up to its place n.                                        *)
Flattens(f, items, n) ==
  f = [i \in 0 .. n |-> IF i = 0 THEN <<>> ELSE f[i - 1] \o items[i].ids]

(* What the items of a sequence hold.                                      *)
Sequenced(S) == \A x \in S : x.ids \in Seq(Mutations)

(* A property of the naturals that has a counterexample has a least one.   *)
LEMMA LeastNat ==
  ASSUME NEW T, T \subseteq Nat, T # {}
  PROVE  \E n \in T : \A m \in T : ~(m < n)
<1>1. PICK x \in T : \A y \in T : ~(<<y, x>> \in OpToRel(<, Nat))
  BY NatLessThanWellFounded, WFMin
<1> QED BY <1>1 DEF OpToRel

(* The recursive definition of flat determines a function.                 *)
LEMMA FlattensExists ==
  ASSUME NEW items, NEW len \in Nat
  PROVE  \E f : Flattens(f, items, len)
<1> DEFINE Bad == {n \in Nat : ~\E f : Flattens(f, items, n)}
<1>1. SUFFICES ASSUME Bad # {} PROVE FALSE
  OBVIOUS
<1>2. Bad \subseteq Nat
  OBVIOUS
<1>3. PICK n \in Bad : \A m \in Bad : ~(m < n)
  <2> HIDE DEF Bad
  <2> QED BY <1>1, <1>2, LeastNat
<1>4. n # 0
  <2> SUFFICES ASSUME n = 0 PROVE FALSE
    OBVIOUS
  <2> DEFINE f == [i \in {0} |-> <<>>]
  <2>1. f = [i \in 0 .. 0 |-> IF i = 0 THEN <<>> ELSE f[i - 1] \o items[i].ids]
    OBVIOUS
  <2>2. Flattens(f, items, 0)
    BY <2>1 DEF Flattens
  <2> QED BY <2>2
<1>5. n - 1 \in Nat /\ n - 1 \notin Bad
  BY <1>3, <1>4
<1>6. PICK f : Flattens(f, items, n - 1)
  BY <1>5
<1> DEFINE g == [i \in 0 .. n |-> IF i = n THEN f[n - 1] \o items[n].ids ELSE f[i]]
<1>7. g = [i \in 0 .. n |-> IF i = 0 THEN <<>> ELSE g[i - 1] \o items[i].ids]
  <2>1. n \in Nat \ {0}
    BY <1>4
  <2>2. \A i \in 0 .. n - 1 : g[i] = f[i]
    BY <2>1
  <2>3. g[n] = g[n - 1] \o items[n].ids
    BY <2>1, <2>2
  <2>4. f = [i \in 0 .. n - 1 |-> IF i = 0 THEN <<>> ELSE f[i - 1] \o items[i].ids]
    BY <1>6 DEF Flattens
  <2>5. \A i \in 0 .. n - 1 : f[i] = IF i = 0 THEN <<>> ELSE f[i - 1] \o items[i].ids
    BY <2>4
  <2>6. ASSUME NEW i \in 0 .. n
        PROVE  g[i] = IF i = 0 THEN <<>> ELSE g[i - 1] \o items[i].ids
    <3>1. CASE i = n
      BY <2>1, <2>3, <3>1
    <3>2. CASE i = 0
      <4>1. g[i] = f[0] /\ 0 \in 0 .. n - 1
        BY <2>1, <2>2, <3>2
      <4> QED BY <2>5, <3>2, <4>1
    <3>3. CASE i # n /\ i # 0
      <4>1. i \in 0 .. n - 1 /\ i - 1 \in 0 .. n - 1
        BY <2>1, <3>3
      <4>2. f[i] = f[i - 1] \o items[i].ids
        BY <2>5, <3>3, <4>1
      <4>3. g[i] = f[i] /\ g[i - 1] = f[i - 1]
        BY <2>2, <4>1
      <4> QED BY <3>3, <4>2, <4>3
    <3> QED BY <3>1, <3>2, <3>3
  <2> QED BY <2>6
<1>8. Flattens(g, items, n)
  BY <1>7 DEF Flattens
<1> QED BY <1>8

(* and only one, place by place.                                           *)
LEMMA FlattensAgree ==
  ASSUME NEW S, NEW u \in Seq(S), NEW v \in Seq(S), NEW a \in Nat, NEW b \in Nat, a <= b,
         \A i \in 1 .. a : u[i] = v[i],
         NEW f, NEW g, Flattens(f, u, a), Flattens(g, v, b)
  PROVE  f[a] = g[a]
<1> DEFINE Bad == {i \in 0 .. a : f[i] # g[i]}
<1>1. SUFFICES ASSUME Bad # {} PROVE FALSE
  OBVIOUS
<1>2. Bad \subseteq Nat
  OBVIOUS
<1>3. PICK i \in Bad : \A j \in Bad : ~(j < i)
  <2> HIDE DEF Bad
  <2> QED BY <1>1, <1>2, LeastNat
<1>4. /\ f = [j \in 0 .. a |-> IF j = 0 THEN <<>> ELSE f[j - 1] \o u[j].ids]
      /\ g = [j \in 0 .. b |-> IF j = 0 THEN <<>> ELSE g[j - 1] \o v[j].ids]
  BY DEF Flattens
<1>5. /\ f[i] = IF i = 0 THEN <<>> ELSE f[i - 1] \o u[i].ids
      /\ g[i] = IF i = 0 THEN <<>> ELSE g[i - 1] \o v[i].ids
  <2>1. i \in 0 .. a /\ i \in 0 .. b
    OBVIOUS
  <2> QED BY <1>4, <2>1
<1>6. i # 0
  BY <1>5
<1>7. f[i - 1] = g[i - 1] /\ u[i] = v[i]
  <2>1. i - 1 \in 0 .. a /\ i \in 1 .. a /\ i - 1 < i
    BY <1>6
  <2> QED BY <1>3, <2>1
<1> QED BY <1>5, <1>6, <1>7

(* Flat of a sequence is the last place of its flat.                       *)
LEMMA FlatIs ==
  ASSUME NEW S, NEW items \in Seq(S)
  PROVE  \E f : Flattens(f, items, Len(items)) /\ Flat(items) = f[Len(items)]
<1>1. \E f : Flattens(f, items, Len(items))
  BY FlattensExists
<1> QED BY <1>1 DEF Flat, Flattens

(* An item put at the end adds its own mutations at the end.               *)
LEMMA FlatAppend ==
  ASSUME NEW S, NEW s \in Seq(S), NEW e \in S
  PROVE  Flat(Append(s, e)) = Flat(s) \o e.ids
<1>1. PICK t : t = Append(s, e)
  OBVIOUS
<1>2. /\ t \in Seq(S) /\ Len(t) = Len(s) + 1 /\ t[Len(t)] = e
      /\ \A i \in 1 .. Len(s) : s[i] = t[i]
  BY <1>1
<1>3. PICK f : Flattens(f, s, Len(s)) /\ Flat(s) = f[Len(s)]
  BY FlatIs
<1>4. PICK g : Flattens(g, t, Len(t)) /\ Flat(t) = g[Len(t)]
  BY <1>2, FlatIs
<1>5. g[Len(t)] = g[Len(s)] \o e.ids
  <2>1. g = [j \in 0 .. Len(t) |-> IF j = 0 THEN <<>> ELSE g[j - 1] \o t[j].ids]
    BY <1>4 DEF Flattens
  <2> QED BY <1>2, <2>1
<1>6. f[Len(s)] = g[Len(s)]
  <2>1. PICK k \in Nat, n \in Nat : k = Len(s) /\ n = Len(t)
    BY <1>2
  <2>2. k <= n /\ \A i \in 1 .. k : s[i] = t[i]
    BY <1>2, <2>1
  <2>3. Flattens(f, s, k) /\ Flattens(g, t, n)
    BY <1>3, <1>4, <2>1
  <2>4. f[k] = g[k]
    BY <1>2, <2>2, <2>3, FlattensAgree
  <2> QED BY <2>1, <2>4
<1> QED BY <1>1, <1>3, <1>4, <1>5, <1>6

(* Nothing in, nothing out.                                                *)
LEMMA FlatEmpty == Flat(<<>>) = <<>>
<1>1. PICK f : Flattens(f, <<>>, Len(<<>>)) /\ Flat(<<>>) = f[Len(<<>>)]
  <2>1. <<>> \in Seq({})
    OBVIOUS
  <2> QED BY <2>1, FlatIs
<1> QED BY <1>1 DEF Flattens

(* What comes out are the mutations that went in.                          *)
LEMMA FlatType ==
  ASSUME NEW S, Sequenced(S), NEW s \in Seq(S)
  PROVE  Flat(s) \in Seq(Mutations)
<1>1. PICK f : Flattens(f, s, Len(s)) /\ Flat(s) = f[Len(s)]
  BY FlatIs
<1>2. f = [i \in 0 .. Len(s) |-> IF i = 0 THEN <<>> ELSE f[i - 1] \o s[i].ids]
  BY <1>1 DEF Flattens
<1> DEFINE Bad == {i \in 0 .. Len(s) : f[i] \notin Seq(Mutations)}
<1>3. SUFFICES ASSUME Bad # {} PROVE FALSE
  BY <1>1
<1>4. Bad \subseteq Nat
  OBVIOUS
<1>5. PICK n \in Bad : \A m \in Bad : ~(m < n)
  <2> HIDE DEF Bad
  <2> QED BY <1>3, <1>4, LeastNat
<1>6. f[n] = IF n = 0 THEN <<>> ELSE f[n - 1] \o s[n].ids
  BY <1>2
<1>7. n # 0
  <2>1. <<>> \in Seq(Mutations) /\ f[n] \notin Seq(Mutations)
    OBVIOUS
  <2> QED BY <1>6, <2>1
<1>8. f[n - 1] \in Seq(Mutations)
  <2>1. n - 1 \in 0 .. Len(s) /\ n - 1 < n
    BY <1>7
  <2> QED BY <1>5, <2>1
<1>9. s[n].ids \in Seq(Mutations)
  <2>1. s[n] \in S
    BY <1>7
  <2> QED BY <2>1 DEF Sequenced
<1>10. f[n] = f[n - 1] \o s[n].ids
  BY <1>6, <1>7
<1>11. f[n - 1] \o s[n].ids \in Seq(Mutations)
  BY <1>8, <1>9
<1> QED BY <1>10, <1>11

(* The first of the runs joined, and the others joined after it.           *)
AfterOne3(a, b, c) == (a \o b) \o c = a \o (b \o c)
AfterOne4(a, h, d, q) == a \o h \o d \o q = a \o (h \o d \o q)
AfterOne5(a, b, h, d, q) == a \o b \o h \o d \o q = a \o (b \o h \o d \o q)

(* Two runs of mutations joined are one.                                   *)
LEMMA Joined ==
  ASSUME NEW a \in Seq(Mutations), NEW b \in Seq(Mutations)
  PROVE  a \o b \in Seq(Mutations)
  OBVIOUS

(* Three runs of mutations may be joined in either order.                  *)
LEMMA Assoc ==
  ASSUME NEW a \in Seq(Mutations), NEW b \in Seq(Mutations), NEW c \in Seq(Mutations)
  PROVE  AfterOne3(a, b, c)
  BY DEF AfterOne3

(* Four runs of mutations, regrouped.                                      *)
LEMMA Regroup ==
  ASSUME NEW a \in Seq(Mutations), NEW h \in Seq(Mutations), NEW d \in Seq(Mutations),
         NEW q \in Seq(Mutations)
  PROVE  h \o d \o q \in Seq(Mutations) /\ AfterOne4(a, h, d, q)
<1>1. h \o d \in Seq(Mutations)
  BY Joined, Zenon
<1>2. h \o d \o q \in Seq(Mutations)
  BY <1>1, Joined, Zenon
<1>3. AfterOne3(a, h, d)
  BY Assoc, Zenon
<1>4. AfterOne3(a, h \o d, q)
  BY <1>1, Assoc, Zenon
<1>5. AfterOne4(a, h, d, q)
  BY ONLY <1>3, <1>4 DEF AfterOne3, AfterOne4
<1> QED BY ONLY <1>2, <1>5

(* Five runs of mutations, regrouped.                                      *)
LEMMA Regroup5 ==
  ASSUME NEW a \in Seq(Mutations), NEW b \in Seq(Mutations), NEW h \in Seq(Mutations),
         NEW d \in Seq(Mutations), NEW q \in Seq(Mutations)
  PROVE  b \o h \o d \o q \in Seq(Mutations) /\ AfterOne5(a, b, h, d, q)
<1>1. b \o h \o d \in Seq(Mutations) /\ AfterOne4(a, b, h, d)
  BY Regroup, Zenon
<1>2. b \o h \o d \o q \in Seq(Mutations)
  BY <1>1, Joined, Zenon
<1>3. AfterOne3(a, b \o h \o d, q)
  BY <1>1, Assoc, Zenon
<1>4. AfterOne5(a, b, h, d, q)
  BY ONLY <1>1, <1>3 DEF AfterOne3, AfterOne4, AfterOne5
<1> QED BY ONLY <1>2, <1>4

(* The empty run adds nothing on either side.                              *)
LEMMA Neutral ==
  ASSUME NEW a \in Seq(Mutations)
  PROVE  a \o <<>> = a /\ <<>> \o a = a
  OBVIOUS

(* The order of a concatenation is the concatenation of the orders.        *)
LEMMA FlatConcat ==
  ASSUME NEW S, Sequenced(S), NEW s \in Seq(S), NEW t \in Seq(S)
  PROVE  Flat(s \o t) = Flat(s) \o Flat(t)
<1> DEFINE Part(k) == SubSeq(t, 1, k)
           Bad == {k \in 0 .. Len(t) : Flat(s \o Part(k)) # Flat(s) \o Flat(Part(k))}
<1>1. SUFFICES ASSUME Bad # {} PROVE FALSE
  <2>1. Len(t) \in 0 .. Len(t) /\ Part(Len(t)) = t
    OBVIOUS
  <2> QED BY <2>1
<1>2. Bad \subseteq Nat
  OBVIOUS
<1>3. PICK n \in Bad : \A m \in Bad : ~(m < n)
  <2> HIDE DEF Bad
  <2> QED BY <1>1, <1>2, LeastNat
<1>4. n \in 0 .. Len(t) /\ Flat(s \o Part(n)) # Flat(s) \o Flat(Part(n))
  OBVIOUS
<1>5. Flat(s) \in Seq(Mutations)
  BY FlatType
<1>6. n # 0
  <2> SUFFICES ASSUME n = 0 PROVE FALSE
    OBVIOUS
  <2>1. Part(0) = <<>> /\ s \o <<>> = s /\ Flat(s) \o <<>> = Flat(s)
    BY <1>5
  <2> QED BY <1>4, <2>1, FlatEmpty
<1> DEFINE x == Part(n - 1)
           e == t[n]
<1>7. n - 1 \in 0 .. Len(t) /\ n \in 1 .. Len(t) /\ n - 1 < n
  BY <1>4, <1>6
<1>8. Flat(s \o x) = Flat(s) \o Flat(x)
  BY <1>3, <1>7
<1>9. /\ x \in Seq(S) /\ e \in S /\ Part(n) = Append(x, e)
      /\ s \o x \in Seq(S) /\ s \o Append(x, e) = Append(s \o x, e)
  <2>1. x \in Seq(S) /\ e \in S
    BY <1>7
  <2>2. Part(n) = Append(x, e)
    BY <1>7
  <2>3. s \o x \in Seq(S) /\ s \o Append(x, e) = Append(s \o x, e)
    <3> HIDE DEF x, e
    <3> QED BY <2>1
  <2> QED BY <2>1, <2>2, <2>3
<1> HIDE DEF x, e, Part
<1>10. Flat(Append(x, e)) = Flat(x) \o e.ids
  BY <1>9, FlatAppend
<1>11. Flat(Append(s \o x, e)) = Flat(s \o x) \o e.ids
  BY <1>9, FlatAppend
<1>12. Flat(x) \in Seq(Mutations) /\ e.ids \in Seq(Mutations)
  BY <1>9, FlatType DEF Sequenced
<1>13. (Flat(s) \o Flat(x)) \o e.ids = Flat(s) \o (Flat(x) \o e.ids)
  <2>1. AfterOne3(Flat(s), Flat(x), e.ids)
    BY <1>5, <1>12, Assoc
  <2> QED BY ONLY <2>1 DEF AfterOne3
<1> QED BY <1>4, <1>8, <1>9, <1>10, <1>11, <1>13

(* Items and records hold mutations.                                       *)
LEMMA HoldMutations == Sequenced(Item) /\ Sequenced(Record)
  BY ItemFields DEF Sequenced, Record

(* The first item of a queue holds the first mutations of it.              *)
LEMMA FlatHeadTail ==
  ASSUME NEW S, Sequenced(S), NEW s \in Seq(S), s # <<>>
  PROVE  Flat(s) = Head(s).ids \o Flat(Tail(s)) /\ Head(s).ids \in Seq(Mutations)
<1>1. /\ s = <<Head(s)>> \o Tail(s) /\ Head(s) \in S /\ Tail(s) \in Seq(S)
      /\ <<Head(s)>> = Append(<<>>, Head(s)) /\ <<>> \in Seq(S)
  OBVIOUS
<1>2. Head(s).ids \in Seq(Mutations)
  BY <1>1 DEF Sequenced
<1>3. Flat(<<Head(s)>>) = Head(s).ids
  <2>1. Flat(Append(<<>>, Head(s))) = Flat(<<>>) \o Head(s).ids
    BY <1>1, FlatAppend
  <2> QED BY <1>1, <1>2, <2>1, FlatEmpty, Neutral
<1>4. <<Head(s)>> \in Seq(S)
  BY <1>1
<1>5. Flat(<<Head(s)>> \o Tail(s)) = Flat(<<Head(s)>>) \o Flat(Tail(s))
  BY <1>1, <1>4, FlatConcat
<1> QED BY <1>1, <1>2, <1>3, <1>5

(* Items without mutations leave no trace in the order.                    *)
LEMMA FlatNothing ==
  ASSUME NEW S, NEW s \in Seq(S), \A i \in DOMAIN s : s[i].ids = <<>>
  PROVE  Flat(s) = <<>>
<1>1. PICK f : Flattens(f, s, Len(s)) /\ Flat(s) = f[Len(s)]
  BY FlatIs
<1>2. f = [i \in 0 .. Len(s) |-> IF i = 0 THEN <<>> ELSE f[i - 1] \o s[i].ids]
  BY <1>1 DEF Flattens
<1> DEFINE Bad == {i \in 0 .. Len(s) : f[i] # <<>>}
<1>3. SUFFICES ASSUME Bad # {} PROVE FALSE
  BY <1>1
<1>4. Bad \subseteq Nat
  OBVIOUS
<1>5. PICK n \in Bad : \A m \in Bad : ~(m < n)
  <2> HIDE DEF Bad
  <2> QED BY <1>3, <1>4, LeastNat
<1>6. f[n] = IF n = 0 THEN <<>> ELSE f[n - 1] \o s[n].ids
  BY <1>2
<1>7. n # 0
  BY <1>6
<1>8. f[n - 1] = <<>>
  <2>1. n - 1 \in 0 .. Len(s) /\ n - 1 < n
    BY <1>7
  <2> QED BY <1>5, <2>1
<1>9. s[n].ids = <<>>
  <2>1. n \in DOMAIN s
    BY <1>7
  <2> QED BY <2>1
<1>10. f[n] = <<>>
  BY <1>6, <1>7, <1>8, <1>9
<1> QED BY <1>10

----------------------------------------------------------------------------
(* The order of the queue                                                  *)

(* The places of the writer, as runs of mutations.                         *)
LEMMA Places ==
  ASSUME TypeOK
  PROVE  /\ Flat(journal) \in Seq(Mutations) /\ Flat(buf) \in Seq(Mutations)
         /\ hand \in Seq(Mutations)
         /\ Flat(deferred) \in Seq(Mutations) /\ Flat(queue) \in Seq(Mutations)
  BY FlatType, HoldMutations DEF TypeOK, ThreadTypes, DiskTypes

(* Flat is a constant operator.                                            *)
LEMMA FlatPrime ==
  /\ Flat(journal)' = Flat(journal') /\ Flat(buf)' = Flat(buf')
  /\ Flat(deferred)' = Flat(deferred') /\ Flat(queue)' = Flat(queue')
  BY DEF Flat

(* What is appended to the queue is appended to the order.                 *)
LEMMA OrderEnqueued ==
  ASSUME TypeOK, EnqueuedInOrder, NEW x \in Item, queue' = Append(queue, x),
         sent' = sent \o x.ids, UNCHANGED <<journal, buf, hand, deferred>>
  PROVE  EnqueuedInOrder'
<1>1. Flat(queue') = Flat(queue) \o x.ids /\ x.ids \in Seq(Mutations)
  BY FlatAppend, ItemFields DEF TypeOK
<1>2. PICK a \in Seq(Mutations), b \in Seq(Mutations), h \in Seq(Mutations),
           d \in Seq(Mutations), q \in Seq(Mutations), y \in Seq(Mutations) :
        /\ a = Flat(journal) /\ b = Flat(buf) /\ h = hand /\ d = Flat(deferred)
        /\ q = Flat(queue) /\ y = x.ids
  BY <1>1, Places
<1>3. a \o b \o h \o d \o (q \o y) = (a \o b \o h \o d \o q) \o y
  <2>0. a \o b \o h \o d \in Seq(Mutations)
    BY Regroup5, Zenon
  <2>1. PICK z \in Seq(Mutations) : z = a \o b \o h \o d
    BY <2>0
  <2>2. AfterOne3(z, q, y)
    BY Assoc, Zenon
  <2> QED BY ONLY <2>1, <2>2 DEF AfterOne3
<1> QED BY <1>1, <1>2, <1>3, FlatPrime DEF EnqueuedInOrder

(* What moves between hand, deferred item and queue keeps its place.       *)
LEMMA OrderTaken ==
  ASSUME TypeOK, EnqueuedInOrder, TypeOK', UNCHANGED <<journal, buf, sent>>,
         hand' \o Flat(deferred') \o Flat(queue') = hand \o Flat(deferred) \o Flat(queue)
  PROVE  EnqueuedInOrder'
<1> DEFINE a == Flat(journal) \o Flat(buf)
           h == hand
           d == Flat(deferred)
           q == Flat(queue)
           h1 == hand'
           d1 == Flat(deferred')
           q1 == Flat(queue')
<1>1. /\ a \in Seq(Mutations) /\ h \in Seq(Mutations)
      /\ d \in Seq(Mutations) /\ q \in Seq(Mutations) /\ h1 \in Seq(Mutations)
      /\ d1 \in Seq(Mutations) /\ q1 \in Seq(Mutations)
  BY Places, Joined, FlatType, HoldMutations DEF TypeOK, ThreadTypes
<1>2. h1 \o d1 \o q1 = h \o d \o q
  OBVIOUS
<1> HIDE DEF a, h, d, q, h1, d1, q1
<1>3. a \o h1 \o d1 \o q1 = a \o h \o d \o q
  <2>1. AfterOne4(a, h, d, q) /\ AfterOne4(a, h1, d1, q1)
    BY ONLY <1>1, Regroup
  <2> QED BY ONLY <1>2, <2>1 DEF AfterOne4
<1> QED BY <1>3, FlatPrime DEF EnqueuedInOrder, a, h, d, q, h1, d1, q1

(* What moves between hand, buffer and file keeps its place.               *)
LEMMA OrderWritten ==
  ASSUME TypeOK, EnqueuedInOrder, TypeOK', UNCHANGED <<deferred, queue, sent>>,
         Flat(journal') \o Flat(buf') \o hand' = Flat(journal) \o Flat(buf) \o hand
  PROVE  EnqueuedInOrder'
  BY FlatPrime DEF EnqueuedInOrder

----------------------------------------------------------------------------
(* What each step does to the order of the queue                           *)

(* Steps that leave all the places alone.                                  *)
LEMMA OrderSame ==
  ASSUME EnqueuedInOrder, UNCHANGED <<journal, buf, hand, deferred, queue, sent>>
  PROVE  EnqueuedInOrder'
  BY FlatPrime DEF EnqueuedInOrder

(* The order is a run of mutations.                                        *)
LEMMA OrderType ==
  ASSUME TypeOK, EnqueuedInOrder
  PROVE  sent \in Seq(Mutations)
<1>1. Flat(journal) \o Flat(buf) \in Seq(Mutations)
  BY Places, Joined
<1>2. Flat(journal) \o Flat(buf) \o hand \in Seq(Mutations)
  BY <1>1, Places, Joined
<1>3. Flat(journal) \o Flat(buf) \o hand \o Flat(deferred) \in Seq(Mutations)
  BY <1>2, Places, Joined
<1>4. Flat(journal) \o Flat(buf) \o hand \o Flat(deferred) \o Flat(queue) \in Seq(Mutations)
  BY <1>3, Places, Joined
<1> QED BY <1>4 DEF EnqueuedInOrder

(* When nothing is left anywhere else, the order is what the file holds.   *)
LEMMA OrderOfFile ==
  ASSUME TypeOK', sent' = Flat(journal'), hand' = <<>>, Flat(buf') = <<>>,
         Flat(deferred') = <<>>, Flat(queue') = <<>>
  PROVE  EnqueuedInOrder'
<1>1. Flat(journal') \in Seq(Mutations)
  BY FlatType, HoldMutations DEF TypeOK, DiskTypes
<1>2. Flat(journal') \o <<>> = Flat(journal')
  BY <1>1, Neutral
<1> QED BY <1>2, FlatPrime DEF EnqueuedInOrder

(* The producers and the callers.                                          *)
LEMMA OrderAsked ==
  ASSUME JournalAssumption, TypeOK, EnqueuedInOrder,
         (\E p \in Producers : Producer(p)) \/ (\E c \in Callers : Caller(c))
  PROVE  EnqueuedInOrder'
<1>1. ASSUME NEW p \in Producers, NEW kind \in {"batch", "single"}, Enqueue(p, kind),
             UNCHANGED <<journal, buf, hand, deferred>>
      PROVE  EnqueuedInOrder'
  <2>1. Data(kind, batch[p]) \in Item /\ Data(kind, batch[p]).ids = batch[p]
    BY ItemTypes DEF TypeOK, MemoryTypes, Data
  <2> QED BY <1>1, <2>1, OrderEnqueued DEF Enqueue
<1>2. ASSUME NEW p \in Producers, Producer(p)
      PROVE  EnqueuedInOrder'
  <2>1. UNCHANGED <<journal, buf, hand, deferred>>
    BY <1>2 DEF Producer, BatchMutate, Commit, RetryCommit, CancelCommit, RecordMutate,
                PutSync, Mutate, disk, thread
  <2>2. \/ \E kind \in {"batch", "single"} : Enqueue(p, kind)
        \/ UNCHANGED channel
    BY <1>2 DEF Producer, BatchMutate, Commit, RetryCommit, CancelCommit, RecordMutate,
                PutSync, Mutate, GiveUp
  <2> QED BY <1>1, <2>1, <2>2, OrderSame DEF channel
<1>3. ASSUME NEW c \in Callers, Caller(c)
      PROVE  EnqueuedInOrder'
  <2>1. CASE Put(c)
    <3>1. UNCHANGED <<sent, journal, buf, hand, deferred>>
      BY <2>1 DEF Put, disk, thread
    <3>2. CASE queue' = Append(queue, Command(c))
      <4>1. Command(c) \in Item /\ Command(c).ids = <<>>
        BY ItemTypes DEF Command
      <4>2. sent' = sent \o Command(c).ids
        BY <3>1, <4>1, OrderType, Neutral
      <4> QED BY <3>1, <3>2, <4>1, <4>2, OrderEnqueued
    <3>3. CASE queue' = queue
      BY <3>1, <3>3, OrderSame
    <3> QED BY <2>1, <3>2, <3>3 DEF Put
  <2>2. CASE Call(c) \/ Return(c) \/ Raise(c) \/ TimeOut(c)
    BY <2>2, OrderSame DEF Call, Return, Raise, TimeOut, channel, thread, disk
  <2> QED BY <1>3, <2>1, <2>2 DEF Caller
<1> QED BY <1>2, <1>3

(* The writer takes an item, or merges the next one.                       *)
LEMMA OrderTake ==
  ASSUME IInv, OrderInv, TypeOK', TakeMutations \/ TakeCommand \/ Coalesce
  PROVE  EnqueuedInOrder'
<1>0. /\ TypeOK /\ EnqueuedInOrder /\ Assembly
      /\ deferred \in Seq(Item) /\ queue \in Seq(Item) /\ hand \in Seq(Mutations)
      /\ Flat(queue) \in Seq(Mutations)
  BY Places DEF IInv, OrderInv, TypeOK, ThreadTypes
<1>1. UNCHANGED <<journal, buf, sent>>
  BY DEF TakeMutations, TakeCommand, Coalesce, disk
<1>2. CASE TakeMutations \/ TakeCommand
  <2>1. hand = <<>> /\ deferred' = <<>> /\ Take
    BY <1>0, <1>2 DEF Assembly, TakeMutations, TakeCommand, Take
  <2>2. NextItem \in Item /\ hand' = NextItem.ids
    <3>1. NextItem \in Item
      BY <1>0, <2>1 DEF Take, NextItem
    <3>2. CASE TakeMutations
      BY <3>1, <3>2 DEF TakeMutations
    <3>3. CASE TakeCommand
      BY <2>1, <3>1, <3>3, ItemFields DEF TakeCommand
    <3> QED BY <1>2, <3>1, <3>2, <3>3
  <2>3. NextItem.ids \in Seq(Mutations)
    BY <2>2, ItemFields
  <2>4. hand' \o Flat(queue') = Flat(deferred) \o Flat(queue)
    <3>1. CASE deferred # <<>>
      <4>1. queue' = queue /\ NextItem = Head(deferred) /\ Tail(deferred) = <<>>
        <5>1. queue' = queue /\ NextItem = deferred[1]
          BY <2>1, <3>1 DEF Take, NextItem
        <5>2. Len(deferred) = 1
          BY <1>0, <3>1 DEF Assembly
        <5>3. Head(deferred) = deferred[1]
          BY <1>0, <3>1
        <5>4. Tail(deferred) = <<>>
          <6>1. Tail(deferred) \in Seq(Item) /\ Len(Tail(deferred)) = 0
            BY <1>0, <3>1, <5>2, HeadTailProperties
          <6> QED BY <6>1, EmptySeq
        <5> QED BY <5>1, <5>3, <5>4
      <4>2. Flat(deferred) = Head(deferred).ids \o Flat(Tail(deferred))
        BY <1>0, <3>1, FlatHeadTail, HoldMutations
      <4>3. Flat(deferred) = NextItem.ids
        BY <2>3, <4>1, <4>2, FlatEmpty, Neutral
      <4> QED BY <2>2, <4>1, <4>3
    <3>2. CASE deferred = <<>>
      <4>1. queue # <<>> /\ queue' = Tail(queue) /\ NextItem = Head(queue)
        BY <2>1, <3>2 DEF Take, NextItem
      <4>2. Flat(queue) = NextItem.ids \o Flat(queue')
        BY <1>0, <4>1, FlatHeadTail, HoldMutations
      <4>3. <<>> \o Flat(queue) = Flat(queue)
        BY <1>0, Neutral
      <4> QED BY <2>2, <3>2, <4>2, <4>3, FlatEmpty
    <3> QED BY <3>1, <3>2
  <2>5. /\ hand' \o Flat(deferred') = hand'
        /\ hand \o Flat(deferred) = Flat(deferred)
    BY <1>0, <2>1, <2>2, <2>3, Places, FlatEmpty, Neutral
  <2> QED BY <1>0, <1>1, <2>4, <2>5, OrderTaken
<1>3. CASE Coalesce
  <2>1. /\ deferred = <<>> /\ queue # <<>> /\ queue' = Tail(queue)
    BY <1>0, <1>3 DEF Coalesce, Assembly
  <2>2. Flat(queue) = Head(queue).ids \o Flat(queue') /\ Head(queue).ids \in Seq(Mutations)
    BY <1>0, <2>1, FlatHeadTail, HoldMutations
  <2>3. hand \o Flat(deferred) \o Flat(queue) = hand \o (Head(queue).ids \o Flat(queue'))
    BY <1>0, <2>1, <2>2, FlatEmpty, Neutral
  <2>4. Flat(queue') \in Seq(Mutations)
    BY FlatType, HoldMutations DEF TypeOK
  <2>5. CASE Head(queue).kind = "batch"
    <3>1. hand' = hand \o Head(queue).ids /\ deferred' = <<>>
      BY <1>3, <2>1, <2>5 DEF Coalesce, Merge
    <3>2. hand' \o Flat(deferred') = hand'
      BY <3>1, FlatEmpty, Neutral DEF TypeOK, ThreadTypes
    <3>3. (hand \o Head(queue).ids) \o Flat(queue') = hand \o (Head(queue).ids \o Flat(queue'))
      <4>1. AfterOne3(hand, Head(queue).ids, Flat(queue'))
        BY <1>0, <2>2, <2>4, Assoc
      <4> QED BY ONLY <4>1 DEF AfterOne3
    <3> QED BY <1>0, <1>1, <2>3, <3>1, <3>2, <3>3, OrderTaken
  <2>6. CASE Head(queue).kind # "batch"
    <3>1. hand' = hand /\ deferred' = <<Head(queue)>>
      BY <1>3, <2>6 DEF Coalesce
    <3>2. Flat(deferred') = Head(queue).ids
      <4>1. /\ <<>> \in Seq(Item) /\ Head(queue) \in Item
            /\ Append(<<>>, Head(queue)) = <<Head(queue)>>
        BY <1>0, <2>1
      <4>2. Flat(Append(<<>>, Head(queue))) = Flat(<<>>) \o Head(queue).ids
        BY <4>1, FlatAppend
      <4> QED BY <2>2, <3>1, <4>1, <4>2, FlatEmpty, Neutral
    <3>3. (hand \o Head(queue).ids) \o Flat(queue') = hand \o (Head(queue).ids \o Flat(queue'))
      <4>1. AfterOne3(hand, Head(queue).ids, Flat(queue'))
        BY <1>0, <2>2, <2>4, Assoc
      <4> QED BY ONLY <4>1 DEF AfterOne3
    <3> QED BY <1>0, <1>1, <2>3, <3>1, <3>2, <3>3, OrderTaken
  <2> QED BY <2>5, <2>6
<1> QED BY <1>2, <1>3

(* A flush of the file object's buffer.                                    *)
LEMMA OrderFlushed ==
  ASSUME TypeOK, EnqueuedInOrder, TypeOK', UNCHANGED <<hand, deferred, queue, sent>>,
         FlushHandle \/ UNCHANGED <<buf, spilt, journal>>
  PROVE  EnqueuedInOrder'
<1>1. CASE FlushHandle
  <2>1. journal' = journal \o buf /\ buf' = <<>>
    BY <1>1 DEF FlushHandle
  <2>2. Flat(journal \o buf) = Flat(journal) \o Flat(buf)
    BY FlatConcat, HoldMutations DEF TypeOK, DiskTypes
  <2>3. Flat(journal) \o Flat(buf) \in Seq(Mutations)
    BY Places, Joined
  <2>4. Flat(journal) \o Flat(buf) \o <<>> = Flat(journal) \o Flat(buf)
    BY <2>3, Neutral
  <2> QED BY <2>1, <2>2, <2>4, FlatEmpty, OrderWritten
<1>2. CASE UNCHANGED <<buf, spilt, journal>>
  BY <1>2, OrderSame
<1> QED BY <1>1, <1>2

(* The record in hand goes to the buffer, a part of which may go to the    *)
(* file.                                                                   *)
LEMMA OrderWrite ==
  ASSUME TypeOK, EnqueuedInOrder, TypeOK', Write
  PROVE  EnqueuedInOrder'
<1> DEFINE b == Append(buf, Whole(hand))
<1>1. PICK k \in 0 .. Len(b) : journal' = journal \o SubSeq(b, 1, k)
                               /\ buf' = SubSeq(b, k + 1, Len(b))
  BY DEF Write, Spill
<1>2. /\ b \in Seq(Record) /\ Whole(hand).ids = hand /\ Whole(hand) \in Record
      /\ buf \in Seq(Record) /\ journal \in Seq(Record)
  BY ItemTypes DEF TypeOK, ThreadTypes, DiskTypes, Whole
<1>3. Flat(b) = Flat(buf) \o hand
  BY <1>2, FlatAppend
<1> HIDE DEF b
<1>4. /\ SubSeq(b, 1, k) \in Seq(Record) /\ buf' \in Seq(Record)
      /\ SubSeq(b, 1, k) \o buf' = b
  <2>1. SubSeq(b, 1, k) \in Seq(Record) /\ buf' \in Seq(Record)
    BY <1>1, <1>2, IdsInCut
  <2>2. SubSeq(b, 1, k) \o SubSeq(b, k + 1, Len(b)) = SubSeq(b, 1, Len(b))
    <3>1. /\ 1 \in 1 .. Len(b) + 1 /\ k \in 1 - 1 .. Len(b)
          /\ Len(b) \in k .. Len(b)
      BY <1>2
    <3> QED BY <1>2, <3>1, ConcatAdjacentSubSeq
  <2>3. SubSeq(b, 1, Len(b)) = b
    BY <1>2, SubSeqFull
  <2> QED BY <1>1, <2>1, <2>2, <2>3
<1>5. Flat(b) = Flat(SubSeq(b, 1, k)) \o Flat(buf')
  BY <1>4, FlatConcat, HoldMutations
<1>6. Flat(journal') = Flat(journal) \o Flat(SubSeq(b, 1, k))
  BY <1>1, <1>2, <1>4, FlatConcat, HoldMutations
<1>7. /\ Flat(SubSeq(b, 1, k)) \in Seq(Mutations) /\ Flat(buf') \in Seq(Mutations)
      /\ Flat(journal') \in Seq(Mutations)
      /\ Flat(journal) \in Seq(Mutations) /\ Flat(buf) \in Seq(Mutations)
      /\ hand \in Seq(Mutations)
  BY <1>4, FlatType, HoldMutations, Places DEF TypeOK, DiskTypes
<1>8. Flat(journal') \o Flat(buf') = Flat(journal) \o Flat(b)
  <2>1. AfterOne3(Flat(journal), Flat(SubSeq(b, 1, k)), Flat(buf'))
    BY <1>7, Assoc, Zenon
  <2> QED BY ONLY <1>5, <1>6, <2>1 DEF AfterOne3
<1>9. Flat(journal) \o (Flat(buf) \o hand) = Flat(journal) \o Flat(buf) \o hand
  <2>1. AfterOne3(Flat(journal), Flat(buf), hand)
    BY <1>7, Assoc, Zenon
  <2> QED BY ONLY <2>1 DEF AfterOne3
<1>10. Flat(journal') \o Flat(buf') \o <<>> = Flat(journal') \o Flat(buf')
  BY <1>7, Joined, Neutral
<1>11. hand' = <<>> /\ UNCHANGED <<deferred, queue, sent>>
  BY DEF Write, channel
<1> QED BY <1>3, <1>8, <1>9, <1>10, <1>11, OrderWritten

(* A rotation empties the journal, and the order begins after it.          *)
LEMMA OrderTruncated ==
  ASSUME TypeOK, EnqueuedInOrder, TypeOK', Truncate
  PROVE  EnqueuedInOrder'
<1> DEFINE a == Flat(journal)
           r == Flat(buf) \o hand \o Flat(deferred) \o Flat(queue)
<1>0. /\ Flat(journal) \in Seq(Mutations) /\ Flat(buf) \in Seq(Mutations)
      /\ hand \in Seq(Mutations) /\ Flat(deferred) \in Seq(Mutations)
      /\ Flat(queue) \in Seq(Mutations)
  BY Places
<1>1. r \in Seq(Mutations)
  BY <1>0, Regroup5, Zenon
<1>2. sent = a \o r
  <2>1. AfterOne5(Flat(journal), Flat(buf), hand, Flat(deferred), Flat(queue))
    BY <1>0, Regroup5, Zenon
  <2> QED BY ONLY EnqueuedInOrder, <2>1 DEF EnqueuedInOrder, AfterOne5
<1>3. SubSeq(a \o r, Len(a) + 1, Len(a \o r)) = r
  <2> SUFFICES ASSUME NEW x \in Seq(Mutations), NEW y \in Seq(Mutations)
               PROVE  SubSeq(x \o y, Len(x) + 1, Len(x \o y)) = y
    BY <1>0, <1>1
  <2> QED OBVIOUS
<1>4. sent' = r
  BY <1>2, <1>3 DEF Truncate
<1>5. journal' = <<>> /\ UNCHANGED <<buf, hand, deferred, queue>>
  BY DEF Truncate
<1>6. <<>> \o Flat(buf) = Flat(buf)
  BY <1>0, Neutral
<1> QED BY <1>4, <1>5, <1>6, FlatEmpty, FlatPrime DEF EnqueuedInOrder

(* The writer that fails drains the queue and closes the file.             *)
LEMMA OrderDrained ==
  ASSUME TypeOK', Drain PROVE EnqueuedInOrder'
<1>1. /\ sent' = Flat(journal)' /\ hand' = <<>> /\ buf' = <<>> /\ deferred' = <<>>
      /\ queue' = <<>>
  BY DEF Drain
<1> QED BY <1>1, FlatEmpty, FlatPrime, OrderOfFile

(* The process is killed, ends in good order or starts.                    *)
LEMMA OrderProcess ==
  ASSUME IInv, OrderInv, TypeOK', Crash \/ Exit \/ Recover
  PROVE  EnqueuedInOrder'
<1>1. CASE Crash
  <2>1. /\ sent' = Flat(journal)' /\ hand' = <<>> /\ buf' = <<>> /\ deferred' = <<>>
        /\ queue' = <<>>
    BY <1>1 DEF Crash, FreshProcess
  <2> QED BY <2>1, FlatEmpty, FlatPrime, OrderOfFile
<1>2. CASE Exit
  <2>1. /\ sent' = sent /\ journal' = journal /\ hand' = <<>> /\ buf' = <<>>
        /\ deferred' = <<>> /\ queue' = <<>>
    BY <1>2 DEF Exit, FreshProcess
  <2>2. pc = "stopped"
    BY <1>2 DEF Exit, IInv, StopCovers
  <2>3. buf = <<>> /\ hand = <<>> /\ deferred = <<>>
    BY <2>2 DEF IInv, OrderInv, StopIsLast, Assembly
  <2>4. Flat(queue) = <<>>
    <3>1. \A j \in DOMAIN queue : queue[j].ids = <<>>
      BY <2>2 DEF OrderInv, StopIsLast
    <3> QED BY <3>1, FlatNothing DEF IInv, TypeOK
  <2>5. sent = Flat(journal)
    <3>1. Flat(journal) \o <<>> = Flat(journal)
      BY Places, Neutral DEF IInv
    <3> QED BY <2>3, <2>4, <3>1, FlatEmpty DEF OrderInv, EnqueuedInOrder
  <2> QED BY <2>1, <2>5, FlatEmpty, OrderOfFile
<1>3. CASE Recover
  BY <1>3, OrderSame DEF OrderInv, Recover, channel, disk
<1> QED BY <1>1, <1>2, <1>3

----------------------------------------------------------------------------
(* The order of the queue in every execution                               *)

(* What the writer does of its own accord keeps the order.                 *)
LEMMA OrderOfWriter ==
  ASSUME JournalAssumption, IInv, OrderInv, TypeOK', Writer \/ Fail
  PROVE  EnqueuedInOrder'
<1>0. TypeOK /\ EnqueuedInOrder
  BY DEF IInv, OrderInv
<1>1. CASE TakeMutations \/ TakeCommand \/ Coalesce
  BY <1>1, OrderTake
<1>2. CASE Write
  BY <1>0, <1>2, OrderWrite
<1>3. CASE AfterWrite \/ Idle \/ Flush \/ Stop \/ CloseJournal
  <2>1. UNCHANGED <<hand, deferred, queue, sent>>
    BY <1>3 DEF AfterWrite, Idle, Flush, Stop, CloseJournal, channel
  <2>2. FlushHandle \/ UNCHANGED <<buf, spilt, journal>>
    BY <1>3 DEF AfterWrite, Idle, Flush, Stop, CloseJournal, FlushPending
  <2> QED BY <1>0, <2>1, <2>2, OrderFlushed
<1>4. CASE Capture \/ ReplaceSnapshot \/ Fail
  BY <1>0, <1>4, OrderSame DEF Capture, ReplaceSnapshot, Fail, channel, disk
<1>5. CASE Truncate
  BY <1>0, <1>5, OrderTruncated
<1>6. CASE Drain
  BY <1>6, OrderDrained
<1> QED BY <1>1, <1>2, <1>3, <1>4, <1>5, <1>6 DEF Writer

(* The mutations are numbered and written in the order they were enqueued. *)
LEMMA OrderStep ==
  ASSUME JournalAssumption, IInv, OrderInv, TypeOK', [Next]_vars
  PROVE  EnqueuedInOrder'
<1>1. CASE (\E p \in Producers : Producer(p)) \/ (\E c \in Callers : Caller(c))
  BY <1>1, OrderAsked DEF IInv, OrderInv
<1>2. CASE Writer \/ Fail
  BY <1>2, OrderOfWriter
<1>3. CASE Crash \/ Exit \/ Recover
  BY <1>3, OrderProcess
<1>4. CASE UNCHANGED vars
  BY <1>4, OrderSame DEF OrderInv, vars, thread, disk, channel
<1> QED BY <1>1, <1>2, <1>3, <1>4 DEF Next

----------------------------------------------------------------------------
(* The stop command is the last item that matters                          *)

(* Nothing queued carries mutations any more.                              *)
NoMoreIds == \A j \in DOMAIN queue : queue[j].ids = <<>>
(* The stop command is queued, set aside, being executed, or done.         *)
Stopping == StopIn(queue) \/ StopIn(deferred) \/ StopIn(command) \/ pc = "stopped"

(* What the stop command says of the queue when neither the queue nor who  *)
(* might add to it moves.                                                  *)
LEMMA StopKept ==
  ASSUME StopIsLast, UNCHANGED <<pstate, batch, queue, deferred, command>>,
         callers'[Closer] # "idle" => \A p \in Producers : pstate[p] = "idle",
         pc' = "stopped" => StopIn(command) \/ pc = "stopped",
         pc' \in {"get", "coalesce", "write", "written"} => command = <<>>,
         pc' \in {"truncate", "stopped"} => buf' = <<>>,
         StopIn(command) => command # <<>>
  PROVE  StopIsLast'
<1>1. /\ StopIn(deferred)' <=> StopIn(deferred)
      /\ StopIn(command)' <=> StopIn(command)
  BY DEF StopIn
<1>2. /\ \A p \in Producers : pstate'[p] = "idle" => batch'[p] = <<>>
      /\ callers'[Closer] # "idle" => \A p \in Producers : pstate'[p] = "idle"
      /\ \A i, j \in DOMAIN queue' :
           i < j /\ queue'[i].kind = "stop" => queue'[j].ids = <<>>
  BY DEF StopIsLast
<1>3. /\ StopIn(deferred) \/ StopIn(command) \/ pc' = "stopped"
           => \A j \in DOMAIN queue' : queue'[j].ids = <<>>
      /\ command' # <<>> \/ pc' = "stopped" => deferred' = <<>>
  BY DEF StopIsLast
<1> QED BY <1>1, <1>2, <1>3 DEF StopIsLast

(* A command that is there is a command.                                   *)
LEMMA StopInEmpty == \A s : StopIn(s) => s # <<>>
  BY DEF StopIn

(* The producers.                                                          *)
LEMMA StopProducer ==
  ASSUME IInv, OrderInv, NEW p \in Producers, Producer(p)
  PROVE  StopIsLast'
<1>0. StopIsLast /\ StopCovers /\ TypeOK
  BY DEF IInv, OrderInv
<1>1. /\ UNCHANGED <<deferred, command, pc, buf, callers>>
      /\ \A q \in Producers \ {p} : batch'[q] = batch[q] /\ pstate'[q] = pstate[q]
      /\ pstate'[p] = "idle" => batch'[p] = <<>>
      /\ callers[Closer] = "idle"
  <2>1. UNCHANGED <<deferred, command, pc, buf, callers>>
    BY DEF Producer, BatchMutate, Commit, RetryCommit, CancelCommit, RecordMutate,
           PutSync, Mutate, thread, disk, calls
  <2>2. CASE BatchMutate(p) \/ RecordMutate(p)
    BY <1>0, <2>1, <2>2 DEF BatchMutate, RecordMutate, Mutate, LoopFree, TypeOK, MemoryTypes
  <2>3. CASE \/ \E kind \in {"batch", "single"} : Enqueue(p, kind)
             \/ GiveUp(p)
             \/ pstate' = [pstate EXCEPT ![p] = "waiting"] /\ UNCHANGED batch
    <3>1. /\ \A q \in Producers \ {p} : batch'[q] = batch[q] /\ pstate'[q] = pstate[q]
          /\ pstate'[p] = "idle" => batch'[p] = <<>>
      BY <1>0, <2>3 DEF Enqueue, GiveUp, TypeOK, MemoryTypes
    <3>2. callers[Closer] = "idle"
      <4>1. CASE LoopFree
        BY <4>1 DEF LoopFree
      <4>2. CASE pstate[p] # "idle"
        BY <1>0, <4>2 DEF StopIsLast
      <4> QED BY <4>1, <4>2
              DEF Producer, BatchMutate, Commit, RetryCommit, CancelCommit, RecordMutate,
                  PutSync
    <3> QED BY <2>1, <3>1, <3>2
  <2> QED BY <2>2, <2>3 DEF Producer, Commit, RetryCommit, CancelCommit, PutSync
<1>2. ~Stopping
  BY <1>0, <1>1 DEF StopCovers, Stopping
<1>3. /\ queue' \in Seq(Item)
      /\ ~StopIn(queue)'
  <2>1. \/ \E kind \in {"batch", "single"} : Enqueue(p, kind)
        \/ UNCHANGED channel
    BY DEF Producer, BatchMutate, Commit, RetryCommit, CancelCommit, RecordMutate,
           PutSync, Mutate, GiveUp
  <2>2. CASE UNCHANGED channel
    BY <1>0, <1>2, <2>2 DEF channel, Stopping, StopIn, TypeOK
  <2>3. ASSUME NEW kind \in {"batch", "single"}, Enqueue(p, kind)
        PROVE  queue' \in Seq(Item) /\ ~StopIn(queue')
    <3>1. Data(kind, batch[p]) \in Item /\ Data(kind, batch[p]).kind # "stop"
      BY <1>0, ItemTypes DEF TypeOK, MemoryTypes, Data
    <3>2. queue' = Append(queue, Data(kind, batch[p])) /\ queue \in Seq(Item)
      BY <1>0, <2>3 DEF Enqueue, TypeOK
    <3>3. StopIn(queue') => StopIn(queue)
      BY <3>1, <3>2, StopInConcat
    <3>4. queue' \in Seq(Item)
      BY <3>1, <3>2
    <3> QED BY <1>2, <3>3, <3>4 DEF Stopping
  <2>4. StopIn(queue)' <=> StopIn(queue')
    BY DEF StopIn
  <2> QED BY <2>1, <2>2, <2>3, <2>4
<1>4. ~(StopIn(deferred) \/ StopIn(command))' /\ pc' # "stopped"
  BY <1>1, <1>2 DEF Stopping, StopIn
<1>5. \A i \in DOMAIN queue' : queue'[i].kind # "stop"
  BY <1>3 DEF StopIn
<1>6. \A q \in Producers : pstate'[q] = "idle" => batch'[q] = <<>>
  BY <1>0, <1>1 DEF StopIsLast
<1> QED BY <1>0, <1>1, <1>4, <1>5, <1>6 DEF StopIsLast

(* The callers.                                                            *)
LEMMA StopCaller ==
  ASSUME JournalAssumption, IInv, OrderInv, NEW c \in Callers, Caller(c)
  PROVE  StopIsLast'
<1>0. StopIsLast /\ StopCovers /\ TypeOK
  BY DEF IInv, OrderInv
<1>c. callers[Closer] # "idle" => \A p \in Producers : pstate[p] = "idle"
  BY <1>0 DEF StopIsLast
<1>1. /\ UNCHANGED <<pstate, batch, deferred, command, pc, buf>>
      /\ callers'[Closer] # "idle" => \A p \in Producers : pstate[p] = "idle"
  <2>1. UNCHANGED <<pstate, batch, deferred, command, pc, buf>>
    BY DEF Caller, Call, Put, Return, Raise, TimeOut, memory, thread, disk
  <2>2. CASE callers[Closer] # "idle"
    BY <1>c, <2>1, <2>2
  <2>3. CASE callers[Closer] = "idle" /\ callers'[Closer] # "idle"
    <3>1. Call(c) /\ c = Closer
      BY <1>0, <2>3 DEF Caller, Call, Put, Return, Raise, TimeOut, TypeOK, CallTypes, Callers
    <3>2. \A p \in Producers : pstate[p] = "idle"
      BY <3>1 DEF Call
    <3> QED BY <2>1, <3>2
  <2> QED BY <2>1, <2>2, <2>3
<1>2. CASE UNCHANGED queue
  BY <1>0, <1>1, <1>2, StopKept, StopInEmpty DEF StopIsLast
<1>3. CASE queue' = Append(queue, Command(c))
  <2>1. /\ queue \in Seq(Item) /\ Command(c).ids = <<>>
    BY <1>0 DEF TypeOK, Command
  <2>2. \A j \in DOMAIN queue' :
          (j \in DOMAIN queue /\ queue'[j] = queue[j])
          \/ (j = Len(queue) + 1 /\ queue'[j].ids = <<>>)
    BY <1>3, <2>1
  <2>3. \A i, j \in DOMAIN queue' :
          i < j /\ queue'[i].kind = "stop" => queue'[j].ids = <<>>
    <3> SUFFICES ASSUME NEW i \in DOMAIN queue', NEW j \in DOMAIN queue',
                        i < j, queue'[i].kind = "stop"
                 PROVE  queue'[j].ids = <<>>
      OBVIOUS
    <3>1. CASE j \in DOMAIN queue /\ queue'[j] = queue[j]
      <4>1. i \in DOMAIN queue /\ queue'[i] = queue[i]
        BY <1>3, <2>1, <3>1
      <4> QED BY <1>0, <3>1, <4>1 DEF StopIsLast
    <3> QED BY <2>2, <3>1
  <2>4. StopIn(deferred)' \/ StopIn(command)' \/ pc' = "stopped"
          => \A j \in DOMAIN queue' : queue'[j].ids = <<>>
    BY <1>0, <1>1, <2>2 DEF StopIsLast, StopIn
  <2> QED BY <1>0, <1>1, <2>3, <2>4 DEF StopIsLast
<1> QED BY <1>2, <1>3 DEF Caller, Call, Put, Return, Raise, TimeOut, channel

(* The writer takes an item, or merges the next one.                       *)
LEMMA StopTake ==
  ASSUME IInv, OrderInv, TypeOK', TakeMutations \/ TakeCommand \/ Coalesce
  PROVE  StopIsLast'
<1>0. StopIsLast /\ StopCovers /\ TypeOK /\ Assembly
  BY DEF IInv, OrderInv
<1>1. /\ UNCHANGED <<pstate, batch, callers, buf>>
      /\ queue \in Seq(Item) /\ deferred \in Seq(Item)
      /\ pc \in {"get", "coalesce"} /\ command = <<>>
  BY <1>0 DEF TakeMutations, TakeCommand, Coalesce, Take, StopIsLast, memory, calls, disk,
              TypeOK, ThreadTypes
<1>2. /\ \A p \in Producers : pstate'[p] = "idle" => batch'[p] = <<>>
      /\ callers'[Closer] # "idle" => \A p \in Producers : pstate'[p] = "idle"
  BY <1>0, <1>1 DEF StopIsLast
<1>3. queue' = queue \/ (queue # <<>> /\ queue' = Tail(queue))
  BY DEF TakeMutations, TakeCommand, Coalesce, Take
<1>4. \A j \in DOMAIN queue' :
        \/ queue' = queue /\ j \in DOMAIN queue
        \/ queue' = Tail(queue) /\ j + 1 \in DOMAIN queue /\ queue'[j] = queue[j + 1]
  BY <1>1, <1>3
<1>5. \A i, j \in DOMAIN queue' :
        i < j /\ queue'[i].kind = "stop" => queue'[j].ids = <<>>
  <2>1. CASE queue' = queue
    BY <1>0, <2>1 DEF StopIsLast
  <2>2. CASE queue # <<>> /\ queue' = Tail(queue)
    <3> SUFFICES ASSUME NEW i \in DOMAIN queue', NEW j \in DOMAIN queue',
                        i < j, queue'[i].kind = "stop"
                 PROVE  queue'[j].ids = <<>>
      OBVIOUS
    <3>1. /\ i + 1 \in DOMAIN queue /\ queue'[i] = queue[i + 1]
          /\ j + 1 \in DOMAIN queue /\ queue'[j] = queue[j + 1] /\ i + 1 < j + 1
      BY <1>1, <2>2
    <3> QED BY <1>0, <3>1 DEF StopIsLast
  <2> QED BY <1>3, <2>1, <2>2
<1>6. NoMoreIds => NoMoreIds'
  <2>1. NoMoreIds' <=> \A j \in DOMAIN queue' : queue'[j].ids = <<>>
    BY DEF NoMoreIds
  <2> QED BY <1>1, <1>3, <1>4, <2>1 DEF NoMoreIds
<1>7. queue # <<>> /\ queue' = Tail(queue) /\ Head(queue).kind = "stop" => NoMoreIds'
  <2> SUFFICES ASSUME queue # <<>>, queue' = Tail(queue), Head(queue).kind = "stop",
                      NEW j \in DOMAIN queue'
               PROVE  queue'[j].ids = <<>>
    BY DEF NoMoreIds
  <2>1. /\ 1 \in DOMAIN queue /\ Head(queue) = queue[1] /\ 1 < j + 1
        /\ j + 1 \in DOMAIN queue /\ queue'[j] = queue[j + 1]
    BY <1>1
  <2> QED BY <1>0, <2>1 DEF StopIsLast
<1>8. StopIn(deferred) => NoMoreIds
  BY <1>0 DEF StopIsLast, NoMoreIds
<1>9. CASE TakeMutations
  BY <1>0, <1>1, <1>2, <1>5, <1>9 DEF StopIsLast, StopIn, TakeMutations, Take
<1>10. CASE TakeCommand
  <2>1. deferred' = <<>> /\ command' = <<NextItem>> /\ pc' = NextItem.kind
        /\ pc' \in {"flush", "stop"}
    BY <1>10 DEF TakeCommand, Take
  <2>2. StopIn(command)' => NoMoreIds'
    <3> SUFFICES ASSUME NextItem.kind = "stop" PROVE NoMoreIds'
      BY <2>1 DEF StopIn
    <3>1. CASE deferred # <<>>
      <4>1. StopIn(deferred)
        BY <1>1, <3>1 DEF NextItem, StopIn
      <4> QED BY <1>6, <1>8, <4>1
    <3>2. CASE deferred = <<>>
      BY <1>7, <1>10, <3>2 DEF TakeCommand, Take, NextItem
    <3> QED BY <3>1, <3>2
  <2>3. ~StopIn(deferred)'
    BY <2>1 DEF StopIn
  <2> QED BY <1>0, <1>1, <1>2, <1>5, <2>1, <2>2, <2>3 DEF StopIsLast, NoMoreIds
<1>11. CASE Coalesce
  <2>1. command' = <<>> /\ pc' \in {"coalesce", "write"} /\ ~StopIn(command)'
    BY <1>1, <1>11 DEF Coalesce, StopIn
  <2>2. StopIn(deferred)' => NoMoreIds'
    <3>1. CASE deferred' = <<Head(queue)>>
      BY <1>7, <1>11, <3>1 DEF Coalesce, StopIn
    <3>2. CASE deferred' = deferred
      BY <1>6, <1>8, <3>2 DEF StopIn
    <3> QED BY <1>11, <3>1, <3>2 DEF Coalesce
  <2> QED BY <1>0, <1>1, <1>2, <1>5, <2>1, <2>2 DEF StopIsLast, NoMoreIds
<1> QED BY <1>9, <1>10, <1>11

(* The other steps of the writer leave the queue alone.                    *)
LEMMA StopWriter ==
  ASSUME IInv, OrderInv,
         \/ Write \/ AfterWrite \/ Idle \/ Flush \/ Stop \/ Capture \/ ReplaceSnapshot
         \/ CloseJournal \/ Truncate \/ Drain \/ Fail
  PROVE  StopIsLast'
<1>0. StopIsLast
  BY DEF OrderInv
<1>1. CASE \/ Write \/ AfterWrite \/ Idle \/ Stop \/ Capture \/ ReplaceSnapshot
           \/ CloseJournal \/ Fail
  <2>1. UNCHANGED <<pstate, batch, callers, queue, deferred, command>>
    BY <1>1 DEF Write, AfterWrite, Idle, Stop, Capture, ReplaceSnapshot, CloseJournal,
                Fail, memory, channel, calls
  <2>2. pc' # "stopped"
    BY <1>1 DEF Write, AfterWrite, Idle, Stop, Capture, ReplaceSnapshot, CloseJournal, Fail
  <2>3. pc' \in {"get", "coalesce", "write", "written"} => command = <<>>
    BY <1>0, <1>1 DEF Write, Writing, AfterWrite, Idle, Stop, Capture, ReplaceSnapshot,
                      CloseJournal, Fail, StopIsLast
  <2>4. pc' \in {"truncate", "stopped"} => buf' = <<>>
    BY <1>1 DEF Write, AfterWrite, Idle, Stop, Capture, ReplaceSnapshot, CloseJournal,
                Fail, FlushHandle
  <2> QED BY <1>0, <2>1, <2>2, <2>3, <2>4, StopKept, StopInEmpty DEF StopIsLast
<1>2. CASE Flush \/ Truncate
  <2>1. /\ UNCHANGED <<pstate, batch, callers, queue, deferred>>
        /\ command' = <<>> \/ command' = command
    BY <1>2 DEF Flush, Truncate, Answer, memory, channel, calls
  <2>2. pc' = "stopped" => StopIn(command)
    BY <1>2 DEF Flush, Truncate, StopIn
  <2>3. /\ pc' \in {"get", "coalesce", "write", "written"} => command' = <<>>
        /\ pc' \in {"truncate", "stopped"} => buf' = <<>>
    BY <1>0, <1>2 DEF Flush, Truncate, Answer, StopIsLast
  <2>4. StopIn(command)' => StopIn(command)
    BY <2>1 DEF StopIn
  <2>5. StopIn(deferred)' <=> StopIn(deferred)
    BY <2>1 DEF StopIn
  <2>6. pc' = "stopped" => deferred = <<>>
    BY <1>0, <2>2, StopInEmpty DEF StopIsLast
  <2>7. /\ \A p \in Producers : pstate'[p] = "idle" => batch'[p] = <<>>
        /\ callers'[Closer] # "idle" => \A p \in Producers : pstate'[p] = "idle"
        /\ \A i, j \in DOMAIN queue' :
             i < j /\ queue'[i].kind = "stop" => queue'[j].ids = <<>>
    BY <1>0, <2>1 DEF StopIsLast
  <2>8. StopIn(deferred)' \/ StopIn(command)' \/ pc' = "stopped"
          => \A j \in DOMAIN queue' : queue'[j].ids = <<>>
    BY <1>0, <2>1, <2>2, <2>4, <2>5 DEF StopIsLast
  <2>9. command' # <<>> \/ pc' = "stopped" => deferred' = <<>>
    BY <1>0, <2>1, <2>6 DEF StopIsLast
  <2> QED BY <2>3, <2>7, <2>8, <2>9 DEF StopIsLast
<1>3. CASE Drain
  BY <1>0, <1>3 DEF Drain, memory, StopIsLast, StopIn
<1> QED BY <1>1, <1>2, <1>3

(* A kill, an orderly exit and the next start.                             *)
LEMMA StopProcess ==
  ASSUME IInv, OrderInv, Crash \/ Exit \/ Recover
  PROVE  StopIsLast'
<1>1. CASE Crash \/ Exit
  <2>1. FreshProcess /\ pc' = "down"
    BY <1>1 DEF Crash, Exit
  <2> QED BY <2>1 DEF FreshProcess, StopIsLast, StopIn, Callers
<1>2. CASE Recover
  <2>1. /\ UNCHANGED <<pstate, batch, queue, deferred, command, buf, callers>>
        /\ pc = "down" /\ pc' = "get" /\ command = <<>>
    BY <1>2 DEF Recover, channel, disk, calls, OrderInv, NothingVolatileDown
  <2> QED BY <2>1, StopKept, StopInEmpty DEF OrderInv, StopIsLast
<1> QED BY <1>1, <1>2

(* Every step keeps the stop command last.                                 *)
LEMMA StopStep ==
  ASSUME JournalAssumption, IInv, OrderInv, TypeOK', [Next]_vars
  PROVE  StopIsLast'
<1>1. CASE UNCHANGED vars
  BY <1>1, StopKept, StopInEmpty
     DEF OrderInv, StopIsLast, vars, memory, thread, disk, channel, calls
<1> QED BY <1>1, StopProducer, StopCaller, StopTake, StopWriter, StopProcess
        DEF Next, Writer

(* Nothing volatile is left of a process that is gone.                     *)
LEMMA DownStep ==
  ASSUME IInv, OrderInv, [Next]_vars
  PROVE  NothingVolatileDown'
<1>1. CASE Crash \/ Exit
  BY <1>1 DEF Crash, Exit, FreshProcess, NothingVolatileDown
<1>2. CASE UNCHANGED vars
  BY <1>2 DEF OrderInv, NothingVolatileDown, vars, channel, thread, disk, calls
<1>3. CASE Next /\ ~(Crash \/ Exit)
  <2>1. pc' # "down"
    <3>1. CASE \E p \in Producers : Producer(p)
      BY <3>1 DEF Producer, BatchMutate, Commit, RetryCommit, CancelCommit, RecordMutate,
                  PutSync, LoopFree, Running, Mutate, thread
    <3>2. CASE \E c \in Callers : Caller(c)
      BY <3>2 DEF Caller, Call, Put, Return, Raise, TimeOut, Running, thread
    <3>3. CASE Writer \/ Fail
      BY <3>3 DEF Writer, Fail, TakeMutations, TakeCommand, Coalesce, Write, AfterWrite, Idle,
                  Flush, Stop, Capture, ReplaceSnapshot, CloseJournal, Truncate, Drain
    <3>4. CASE Recover
      BY <3>4 DEF Recover
    <3> QED BY <1>3, <3>1, <3>2, <3>3, <3>4 DEF Next
  <2> QED BY <2>1 DEF NothingVolatileDown
<1> QED BY <1>1, <1>2, <1>3

(* The invariant behind InEnqueueOrder.                                    *)
THEOREM OrderInvariant == Spec => []OrderInv
<1>1. Init => OrderInv
  <2> SUFFICES ASSUME Init PROVE OrderInv
    OBVIOUS
  <2>1. NothingVolatileDown
    BY DEF Init, NothingVolatileDown
  <2>2. StopIsLast
    BY DEF Init, StopIsLast, StopIn, Callers
  <2>3. EnqueuedInOrder
    <3>1. <<>> \o <<>> = <<>>
      OBVIOUS
    <3> QED BY <3>1, FlatEmpty DEF Init, EnqueuedInOrder
  <2> QED BY <2>1, <2>2, <2>3 DEF OrderInv
<1>2. IInv /\ IInv' /\ OrderInv /\ [Next]_vars => OrderInv'
  BY JournalAssumption, OrderStep, StopStep, DownStep DEF OrderInv, IInv
<1> QED BY <1>1, <1>2, Invariant, PTL DEF Spec

(* Whatever is coalesced, deferred, flushed, spilt, rotated or lost in a   *)
(* kill, the journal, the buffer, the record in hand, the deferred item and *)
(* the queue, read in that order, are the mutations in the order they were *)
(* enqueued (_run).                                                        *)
THEOREM JournalInOrder == Spec => []InEnqueueOrder
<1>1. OrderInv => InEnqueueOrder
  BY DEF OrderInv, EnqueuedInOrder, InEnqueueOrder
<1> QED BY <1>1, OrderInvariant, PTL

----------------------------------------------------------------------------
(* A flush that succeeded has its mutations on disk                        *)

(* What a queue holds ahead of an item.                                    *)
LEMMA BeforeFacts ==
  ASSUME NEW s \in Seq(Item), NEW e \in Item
  PROVE  /\ \A i \in DOMAIN s : IdsBefore(Append(s, e), i) = IdsBefore(s, i)
         /\ IdsBefore(Append(s, e), Len(s) + 1) = IdsIn(s)
         /\ s # <<>> => /\ IdsBefore(s, 1) = {}
                        /\ \A i \in DOMAIN Tail(s) :
                             IdsBefore(s, i + 1) \subseteq
                               IdsOf(Head(s).ids) \cup IdsBefore(Tail(s), i)
<1>1. \A j \in 1 .. Len(s) : Append(s, e)[j] = s[j]
  OBVIOUS
<1>2. ASSUME NEW i \in DOMAIN s PROVE IdsBefore(Append(s, e), i) = IdsBefore(s, i)
  <2>1. \A j \in 1 .. i - 1 : j \in 1 .. Len(s)
    OBVIOUS
  <2> QED BY <1>1, <2>1 DEF IdsBefore
<1>3. IdsBefore(Append(s, e), Len(s) + 1) = IdsIn(s)
  <2>1. (Len(s) + 1) - 1 = Len(s) /\ DOMAIN s = 1 .. Len(s)
    OBVIOUS
  <2> QED BY <1>1, <2>1 DEF IdsBefore, IdsIn
<1>4. IdsBefore(s, 1) = {}
  BY DEF IdsBefore
<1>5. ASSUME s # <<>>, NEW i \in DOMAIN Tail(s)
      PROVE  IdsBefore(s, i + 1) \subseteq IdsOf(Head(s).ids) \cup IdsBefore(Tail(s), i)
  <2> SUFFICES ASSUME NEW j \in 1 .. (i + 1) - 1
               PROVE  IdsOf(s[j].ids) \subseteq IdsOf(Head(s).ids) \cup IdsBefore(Tail(s), i)
    BY DEF IdsBefore
  <2>1. CASE j = 1
    BY <1>5, <2>1
  <2>2. CASE j # 1
    <3>1. j - 1 \in 1 .. i - 1 /\ Tail(s)[j - 1] = s[j]
      BY <1>5, <2>2
    <3> QED BY <3>1 DEF IdsBefore
  <2> QED BY <2>1, <2>2
<1> QED BY <1>2, <1>3, <1>4, <1>5

----------------------------------------------------------------------------
(* The buffer is counted                                                   *)

(* Every step keeps the count of what is buffered.                         *)
LEMMA CountStep ==
  ASSUME TypeOK, BufferCounted, OrderInv, [Next]_vars
  PROVE  BufferCounted'
<1>1. CASE \/ \E p \in Producers : Producer(p)
           \/ \E c \in Callers : Caller(c)
           \/ UNCHANGED vars
  <2>1. UNCHANGED <<buf, unflushed, pc, logical>>
    BY <1>1 DEF Producer, BatchMutate, Commit, RetryCommit, CancelCommit, RecordMutate,
                PutSync, Mutate, Caller, Call, Put, Return, Raise, TimeOut, vars, thread, disk
  <2> QED BY <2>1 DEF BufferCounted
<1>2. CASE TakeMutations \/ TakeCommand
  BY <1>2 DEF TakeMutations, TakeCommand, Take, disk, BufferCounted
<1>3. CASE Coalesce
  <2>1. UNCHANGED <<buf, unflushed>> /\ logical > 0 /\ logical \in Nat
        /\ logical' \in {logical, logical + 1}
    BY <1>3 DEF Coalesce, disk, BufferCounted, TypeOK, ThreadTypes
  <2>2. logical' > 0
    BY <2>1
  <2> QED BY <2>1, <2>2 DEF BufferCounted
<1>4. CASE Write
  <2>1. logical > 0 /\ logical \in Nat /\ unflushed \in Nat /\ unflushed' = unflushed + logical
        /\ pc' = "written"
    BY <1>4 DEF Write, Writing, BufferCounted, TypeOK, ThreadTypes
  <2>2. unflushed' > 0
    BY <2>1
  <2> QED BY <2>1, <2>2 DEF BufferCounted
<1>5. CASE AfterWrite \/ Idle \/ Flush \/ Stop
  <2>1. pc' \notin {"coalesce", "write"}
    BY <1>5 DEF AfterWrite, Idle, Flush, Stop
  <2>2. buf' = <<>> \/ UNCHANGED <<buf, unflushed>>
    BY <1>5 DEF AfterWrite, Idle, Flush, Stop, FlushPending, FlushHandle, BufferCounted,
                TypeOK, ThreadTypes
  <2> QED BY <2>1, <2>2 DEF BufferCounted
<1>6. CASE Capture \/ ReplaceSnapshot \/ CloseJournal \/ Truncate \/ Drain \/ Fail
  <2>1. pc' \notin {"coalesce", "write"}
    BY <1>6 DEF Capture, ReplaceSnapshot, CloseJournal, Truncate, Drain, Fail
  <2>2. buf' = <<>> \/ UNCHANGED <<buf, unflushed>>
    BY <1>6 DEF Capture, ReplaceSnapshot, CloseJournal, Truncate, Drain, Fail, FlushHandle, disk
  <2> QED BY <2>1, <2>2 DEF BufferCounted
<1>7. CASE Crash \/ Exit
  BY <1>7 DEF Crash, Exit, FreshProcess, BufferCounted
<1>8. CASE Recover
  BY <1>8 DEF Recover, BufferCounted, disk
<1> QED BY <1>1, <1>2, <1>3, <1>4, <1>5, <1>6, <1>7, <1>8 DEF Next, Writer

----------------------------------------------------------------------------
(* Where the commands are                                                  *)

(* A flusher whose command is in none of the writer's places.              *)
Absent(c) == /\ c \notin done
             /\ \A i \in DOMAIN command : command[i].caller # c
             /\ \A i \in DOMAIN deferred : deferred[i].caller # c
             /\ \A i \in DOMAIN queue : queue[i].caller # c

(* A command does not come out of nowhere.                                 *)
LEMMA AbsentStep ==
  ASSUME JournalAssumption, TypeOK, NEW c \in Flushers, Absent(c), [Next]_vars, ~Put(c)
  PROVE  Absent(c)'
<1>0. /\ c # Closer /\ queue \in Seq(Item) /\ deferred \in Seq(Item) /\ command \in Seq(Item)
  BY DEF JournalAssumption, TypeOK, ThreadTypes
<1>1. ASSUME NEW p \in Producers, Producer(p)
      PROVE  Absent(c)'
  <2>1. UNCHANGED <<done, command, deferred>>
    BY <1>1 DEF Producer, BatchMutate, Commit, RetryCommit, CancelCommit, RecordMutate,
                PutSync, Mutate, thread, calls
  <2>2. \/ \E kind \in {"batch", "single"} : Enqueue(p, kind)
        \/ UNCHANGED channel
    BY <1>1 DEF Producer, BatchMutate, Commit, RetryCommit, CancelCommit, RecordMutate,
                PutSync, Mutate, GiveUp
  <2>3. ASSUME NEW kind \in {"batch", "single"}, Enqueue(p, kind)
        PROVE  \A i \in DOMAIN queue' : queue'[i].caller # c
    <3>1. queue' = Append(queue, Data(kind, batch[p])) /\ Data(kind, batch[p]).caller # c
      BY <1>0, <2>3 DEF Enqueue, Data
    <3> QED BY <1>0, <3>1 DEF Absent
  <2> QED BY <2>1, <2>2, <2>3 DEF Absent, channel
<1>2. ASSUME NEW d \in Callers, Caller(d)
      PROVE  Absent(c)'
  <2>1. UNCHANGED <<done, command, deferred>>
    BY <1>2 DEF Caller, Call, Put, Return, Raise, TimeOut, thread, calls
  <2>2. queue' = queue \/ (Put(d) /\ queue' = Append(queue, Command(d)))
    BY <1>2 DEF Caller, Call, Put, Return, Raise, TimeOut, channel
  <2>3. Put(d) => d # c /\ Command(d).caller # c
    BY DEF Command
  <2>4. \A i \in DOMAIN queue' : queue'[i].caller # c
    <3>1. CASE queue' = queue
      BY <3>1 DEF Absent
    <3>2. CASE Put(d) /\ queue' = Append(queue, Command(d))
      <4>1. Command(d).caller # c
        BY <2>3, <3>2
      <4> QED BY <1>0, <3>2, <4>1 DEF Absent
    <3> QED BY <2>2, <3>1, <3>2
  <2> QED BY <2>1, <2>4 DEF Absent
<1>3. CASE TakeMutations \/ TakeCommand
  <2>1. NextItem.caller # c
    BY <1>0, <1>3 DEF TakeMutations, TakeCommand, Take, NextItem, Absent
  <2>2. \A i \in DOMAIN queue' : queue'[i].caller # c
    <3>1. queue' = queue \/ (queue # <<>> /\ queue' = Tail(queue))
      BY <1>3 DEF TakeMutations, TakeCommand, Take
    <3>2. CASE queue' = queue
      BY <3>2 DEF Absent
    <3>3. CASE queue # <<>> /\ queue' = Tail(queue)
      BY <1>0, <3>3 DEF Absent
    <3> QED BY <3>1, <3>2, <3>3
  <2>3. deferred' = <<>> /\ UNCHANGED done /\ (command' = command \/ command' = <<NextItem>>)
    BY <1>3 DEF TakeMutations, TakeCommand, Take, calls
  <2> QED BY <2>1, <2>2, <2>3 DEF Absent
<1>4. CASE Coalesce
  <2>1. queue # <<>> /\ queue' = Tail(queue) /\ Head(queue).caller # c
    BY <1>0, <1>4 DEF Coalesce, Absent
  <2>2. \A i \in DOMAIN queue' : queue'[i].caller # c
    BY <1>0, <2>1 DEF Absent
  <2>3. /\ UNCHANGED <<done, command>>
        /\ deferred' = deferred \/ deferred' = <<Head(queue)>>
    BY <1>4 DEF Coalesce, calls
  <2> QED BY <2>1, <2>2, <2>3 DEF Absent
<1>5. CASE \/ Write \/ AfterWrite \/ Idle \/ Stop \/ Capture \/ ReplaceSnapshot
           \/ CloseJournal \/ Fail \/ Recover \/ UNCHANGED vars
  <2>1. UNCHANGED <<done, command, deferred, queue>>
    BY <1>5 DEF Write, AfterWrite, Idle, Stop, Capture, ReplaceSnapshot, CloseJournal, Fail,
                Recover, vars, thread, channel, calls
  <2> QED BY <2>1 DEF Absent
<1>6. CASE Flush \/ Truncate
  <2>1. UNCHANGED <<deferred, queue>> /\ (Answer \/ UNCHANGED <<done, command>>)
    BY <1>6 DEF Flush, Truncate, channel
  <2> QED BY <2>1 DEF Absent, Answer
<1>7. CASE Drain
  <2> DEFINE items == command \o deferred \o queue
  <2>1. \A i \in DOMAIN items : items[i].caller # c
    BY <1>0 DEF Absent
  <2>2. c \notin done'
    BY <1>7, <2>1 DEF Drain, Absent
  <2> QED BY <1>7, <2>2 DEF Drain, Absent
<1>8. CASE Crash \/ Exit
  BY <1>8 DEF Crash, Exit, FreshProcess, Absent
<1> QED BY <1>1, <1>2, <1>3, <1>4, <1>5, <1>6, <1>7, <1>8 DEF Next, Writer

(* Every step keeps who has no command and who is done.                    *)
LEMMA UnqueuedStep ==
  ASSUME JournalAssumption, TypeOK, Unqueued, [Next]_vars
  PROVE  Unqueued'
<1> SUFFICES ASSUME NEW c \in Flushers
             PROVE  /\ callers'[c] \in {"idle", "calling", "checked"} => Absent(c)'
                    /\ callers'[c] = "ok" => c \in done'
  BY DEF Unqueued, Absent
<1>0. /\ callers[c] \in {"idle", "calling", "checked"} => Absent(c)
      /\ callers[c] = "ok" => c \in done
      /\ c \in Callers /\ callers \in [Callers -> {"idle", "calling", "checked", "waiting",
                                                  "ok", "error", "timeout"}]
  BY DEF Unqueued, Absent, Callers, TypeOK, CallTypes
<1>1. CASE Crash \/ Exit
  BY <1>0, <1>1 DEF Crash, Exit, FreshProcess, Absent
<1>2. CASE [Next]_vars /\ ~(Crash \/ Exit)
  <2>1. /\ callers'[c] \in {"idle", "calling", "checked"} =>
             callers[c] \in {"idle", "calling", "checked"}
        /\ Put(c) => callers'[c] \in {"calling", "waiting"}
        /\ callers'[c] = "ok" => callers[c] = "ok" \/ c \in done
        /\ done \subseteq done'
    <3>1. CASE UNCHANGED callers
      <4>1. done \subseteq done'
        BY <1>2, <3>1
           DEF Next, vars, Producer, BatchMutate, Commit, RetryCommit, CancelCommit,
               RecordMutate, PutSync, Mutate, Caller, Call, Put, Return, Raise, TimeOut,
               Writer, TakeMutations, TakeCommand, Coalesce, Write, AfterWrite, Idle, Flush,
               Stop, Capture, ReplaceSnapshot, CloseJournal, Truncate, Drain, Fail, Recover,
               Answer, calls
      <4>2. ~Put(c)
        BY <1>0, <3>1 DEF Put
      <4> QED BY <3>1, <4>1, <4>2
    <3>2. CASE ~UNCHANGED callers
      <4>1. PICK d \in Callers : Caller(d)
        BY <1>2, <3>2
           DEF Next, vars, Producer, BatchMutate, Commit, RetryCommit, CancelCommit,
               RecordMutate, PutSync, Mutate,
               Writer, TakeMutations, TakeCommand, Coalesce, Write, AfterWrite, Idle, Flush,
               Stop, Capture, ReplaceSnapshot, CloseJournal, Truncate, Drain, Fail, Recover,
               calls
      <4>2. UNCHANGED done /\ (d # c => callers'[c] = callers[c])
        BY <1>0, <4>1 DEF Caller, Call, Put, Return, Raise, TimeOut
      <4>3. /\ Call(d) => callers'[d] \in {"error", "checked"} /\ callers[d] \in {"idle", "calling"}
            /\ Put(d) => callers'[d] \in {"calling", "waiting"} /\ callers[d] = "checked"
            /\ Return(d) => callers'[d] \in {"ok", "error"} /\ d \in done
            /\ Raise(d) => callers'[d] = "error"
            /\ TimeOut(d) => callers'[d] = "timeout"
        BY <1>0 DEF Call, Put, Return, Raise, TimeOut, Outcome
      <4>4. Put(c) => callers'[c] \in {"calling", "waiting"}
        BY <1>0 DEF Put
      <4> QED BY <4>1, <4>2, <4>3, <4>4 DEF Caller
    <3> QED BY <3>1, <3>2
  <2>2. CASE ~Put(c)
    BY <1>0, <2>1, <2>2, AbsentStep
  <2>3. CASE Put(c) /\ callers'[c] = "calling"
    <3>1. UNCHANGED <<queue, done, command, deferred>>
      BY <1>0, <2>3 DEF Put, thread
    <3> QED BY <1>0, <2>1, <2>3, <3>1 DEF Absent
  <2>4. CASE Put(c) /\ callers'[c] = "waiting"
    BY <1>0, <2>1, <2>4
  <2> QED BY <2>1, <2>2, <2>3, <2>4
<1> QED BY <1>1, <1>2

----------------------------------------------------------------------------
(* What was promised is ahead of the command                               *)

(* What a command finds on disk, or in the buffer, or in hand.             *)
Buffered == Lasting \cup IdsIn(buf)
Handed   == Buffered \cup IdsOf(hand)

(* Steps that move mutations towards the disk, and no command.             *)
LEMMA PromiseKept ==
  ASSUME PromisesAhead, live \subseteq live',
         live \cap Lasting \subseteq Lasting', live \cap Buffered \subseteq Buffered',
         live \cap Handed \subseteq Handed',
         UNCHANGED <<promised, done, command, deferred, queue>>
  PROVE  PromisesAhead'
<1> SUFFICES ASSUME NEW c \in Flushers
             PROVE  /\ promised'[c] \subseteq live'
                    /\ c \in done' => promised'[c] \subseteq Lasting'
                    /\ \A i \in DOMAIN command' :
                         command'[i].caller = c => promised'[c] \subseteq Buffered'
                    /\ \A i \in DOMAIN deferred' : deferred'[i].caller = c =>
                         promised'[c] \subseteq Handed'
                    /\ \A i \in DOMAIN queue' : queue'[i].caller = c =>
                         promised'[c] \subseteq Handed' \cup IdsIn(deferred)'
                                                \cup IdsBefore(queue, i)'
  BY DEF PromisesAhead, Buffered, Handed, IdsBefore, IdsOf
<1>1. /\ promised[c] \subseteq live
      /\ c \in done => promised[c] \subseteq Lasting
      /\ \A i \in DOMAIN command : command[i].caller = c => promised[c] \subseteq Buffered
      /\ \A i \in DOMAIN deferred : deferred[i].caller = c => promised[c] \subseteq Handed
      /\ \A i \in DOMAIN queue : queue[i].caller = c =>
           promised[c] \subseteq Handed \cup IdsIn(deferred) \cup IdsBefore(queue, i)
  BY DEF PromisesAhead, Buffered, Handed
<1>2. /\ IdsIn(deferred)' = IdsIn(deferred)
      /\ \A i \in DOMAIN queue : IdsBefore(queue, i)' = IdsBefore(queue, i)
  BY DEF IdsIn, IdsOf, IdsBefore
<1> QED BY <1>1, <1>2

(* An item is put behind the others: whose command it is was promised      *)
(* nothing but what is ahead of it.                                        *)
LEMMA PromiseAppended ==
  ASSUME TypeOK, PromisesAhead, MemoryAhead, NEW x \in Item, queue' = Append(queue, x),
         \A c \in Flushers : \/ x.caller # c /\ promised'[c] = promised[c]
                             \/ Absent(c) /\ promised'[c] = InFlight,
         UNCHANGED <<live, done, command, deferred, hand, buf, journal, snapshot, capture, pc>>
  PROVE  PromisesAhead'
<1> SUFFICES ASSUME NEW c \in Flushers
             PROVE  /\ promised'[c] \subseteq live'
                    /\ c \in done' => promised'[c] \subseteq Lasting'
                    /\ \A i \in DOMAIN command' :
                         command'[i].caller = c => promised'[c] \subseteq Buffered'
                    /\ \A i \in DOMAIN deferred' : deferred'[i].caller = c =>
                         promised'[c] \subseteq Handed'
                    /\ \A i \in DOMAIN queue' : queue'[i].caller = c =>
                         promised'[c] \subseteq Handed' \cup IdsIn(deferred)'
                                                \cup IdsBefore(queue', i)
  <2>1. \A i \in DOMAIN queue' : IdsBefore(queue, i)' = IdsBefore(queue', i)
    BY DEF IdsBefore, IdsOf
  <2> QED BY <2>1 DEF PromisesAhead, Buffered, Handed
<1>1. /\ IdsIn(deferred)' = IdsIn(deferred) /\ Lasting' = Lasting
      /\ Buffered' = Buffered /\ Handed' = Handed /\ IdsIn(buf)' = IdsIn(buf)
      /\ IdsOf(hand)' = IdsOf(hand)
  BY DEF IdsIn, IdsOf, Lasting, OnDisk, Buffered, Handed
<1>2. queue \in Seq(Item)
  BY DEF TypeOK
<1>3. /\ DOMAIN queue' = DOMAIN queue \cup {Len(queue) + 1}
      /\ queue'[Len(queue) + 1] = x
      /\ \A i \in DOMAIN queue : queue'[i] = queue[i]
  BY <1>2
<1>4. /\ \A i \in DOMAIN queue : IdsBefore(queue', i) = IdsBefore(queue, i)
      /\ IdsBefore(queue', Len(queue) + 1) = IdsIn(queue)
  BY <1>2, BeforeFacts
<1>5. /\ promised[c] \subseteq live
      /\ c \in done => promised[c] \subseteq Lasting
      /\ \A i \in DOMAIN command : command[i].caller = c => promised[c] \subseteq Buffered
      /\ \A i \in DOMAIN deferred : deferred[i].caller = c => promised[c] \subseteq Handed
      /\ \A i \in DOMAIN queue : queue[i].caller = c =>
           promised[c] \subseteq Handed \cup IdsIn(deferred) \cup IdsBefore(queue, i)
  BY DEF PromisesAhead, Buffered, Handed
<1>6. CASE x.caller # c /\ promised'[c] = promised[c]
  BY <1>1, <1>3, <1>4, <1>5, <1>6
<1>7. CASE Absent(c) /\ promised'[c] = InFlight
  <2>1. InFlight \subseteq live'
    BY DEF MemoryAhead
  <2>2. InFlight \subseteq Handed \cup IdsIn(deferred) \cup IdsIn(queue)
    BY DEF InFlight, Handed, Buffered
  <2> QED BY <1>1, <1>3, <1>4, <1>7, <2>1, <2>2 DEF Absent
<1> QED BY <1>6, <1>7

(* The producers.                                                          *)
LEMMA PromiseProducer ==
  ASSUME JournalAssumption, IInv, PromisesAhead, NEW p \in Producers, Producer(p)
  PROVE  PromisesAhead'
<1>0. TypeOK /\ MemoryAhead
  BY DEF IInv
<1>1. /\ UNCHANGED <<done, promised, command, deferred, hand, buf, journal, snapshot,
                     capture, pc>>
      /\ live \subseteq live'
  BY DEF Producer, BatchMutate, Commit, RetryCommit, CancelCommit, RecordMutate,
         PutSync, Mutate, thread, calls, disk
<1>2. CASE UNCHANGED queue
  <2>1. Lasting' = Lasting /\ Buffered' = Buffered /\ Handed' = Handed
    BY <1>1 DEF IdsIn, IdsOf, Lasting, OnDisk, Buffered, Handed
  <2> QED BY <1>1, <1>2, <2>1, PromiseKept
<1>3. ASSUME NEW kind \in {"batch", "single"}, Enqueue(p, kind), UNCHANGED live
      PROVE  PromisesAhead'
  <2>1. /\ Data(kind, batch[p]) \in Item /\ Data(kind, batch[p]).caller = Closer
        /\ queue' = Append(queue, Data(kind, batch[p]))
    BY <1>0, <1>3, ItemTypes DEF TypeOK, MemoryTypes, Data, Enqueue
  <2>2. \A c \in Flushers : Data(kind, batch[p]).caller # c /\ promised'[c] = promised[c]
    BY <1>1, <2>1 DEF JournalAssumption
  <2> QED BY <1>0, <1>1, <1>3, <2>1, <2>2, PromiseAppended
<1> QED BY <1>2, <1>3
        DEF Producer, BatchMutate, Commit, RetryCommit, CancelCommit, RecordMutate, PutSync,
            Mutate, GiveUp, channel

(* The callers.                                                            *)
LEMMA PromiseCaller ==
  ASSUME JournalAssumption, IInv, PromisesAhead, Unqueued, NEW c \in Callers, Caller(c)
  PROVE  PromisesAhead'
<1>0. TypeOK /\ MemoryAhead
  BY DEF IInv
<1>1. UNCHANGED <<live, done, command, deferred, hand, buf, journal, snapshot, capture, pc>>
  BY DEF Caller, Call, Put, Return, Raise, TimeOut, memory, thread, disk
<1>2. CASE UNCHANGED <<queue, promised>>
  <2>1. Lasting' = Lasting /\ Buffered' = Buffered /\ Handed' = Handed
    BY <1>1 DEF IdsIn, IdsOf, Lasting, OnDisk, Buffered, Handed
  <2> QED BY <1>1, <1>2, <2>1, PromiseKept
<1>3. CASE Put(c) /\ ~Full
  <2>1. /\ Command(c) \in Item /\ Command(c).caller = c /\ queue' = Append(queue, Command(c))
        /\ promised' = [promised EXCEPT ![c] = InFlight] /\ callers[c] = "checked"
        /\ promised \in [Callers -> SUBSET Mutations]
    BY <1>0, <1>3, ItemTypes DEF Put, Command, TypeOK, CallTypes
  <2>2. \A d \in Flushers : d \in Callers
    BY DEF Callers
  <2>3. \A d \in Flushers : \/ Command(c).caller # d /\ promised'[d] = promised[d]
                            \/ Absent(d) /\ promised'[d] = InFlight
    BY <2>1, <2>2 DEF Unqueued, Absent
  <2> QED BY <1>0, <1>1, <2>1, <2>3, PromiseAppended
<1> QED BY <1>2, <1>3 DEF Caller, Call, Put, Return, Raise, TimeOut, channel

(* The writer takes an item.                                               *)
LEMMA PromiseTake ==
  ASSUME JournalAssumption, IInv, OrderInv, PromisesAhead, TakeMutations \/ TakeCommand
  PROVE  PromisesAhead'
<1>0. /\ TypeOK /\ Assembly /\ Take /\ queue \in Seq(Item) /\ deferred \in Seq(Item)
      /\ pc = "get"
  BY DEF IInv, TakeMutations, TakeCommand, Take, TypeOK, ThreadTypes
<1>1. /\ UNCHANGED <<live, done, promised, buf, journal, snapshot, capture>>
      /\ pc' \notin {"replace", "close", "truncate"} /\ deferred' = <<>>
      /\ hand = <<>> /\ command = <<>>
  BY <1>0 DEF TakeMutations, TakeCommand, Take, memory, calls, disk, Assembly, OrderInv,
              StopIsLast
<1>2. /\ Lasting' = OnDisk /\ Lasting = OnDisk /\ IdsIn(buf)' = IdsIn(buf)
      /\ IdsOf(hand) = {} /\ IdsIn(deferred)' = {}
  <2>1. OnDisk' = OnDisk
    BY <1>1 DEF OnDisk, IdsIn, IdsOf
  <2>2. Lasting' = OnDisk' /\ Lasting = OnDisk
    BY <1>0, <1>1 DEF Lasting
  <2> QED BY <1>1, <2>1, <2>2, IdsInEmpty DEF IdsIn, IdsOf
<1>3. NextItem.ids \in Seq(Mutations) /\ IdsOf(hand)' = IdsOf(NextItem.ids)
      /\ (command' = <<>> \/ (command' = <<NextItem>> /\ IdsOf(NextItem.ids) = {}))
  <2>1. NextItem \in Item
    BY <1>0, TakeFlow
  <2>2. CASE TakeMutations
    BY <1>1, <2>1, <2>2, ItemFields DEF TakeMutations, IdsOf
  <2>3. CASE TakeCommand
    <3>1. NextItem.ids = <<>> /\ hand' = hand
      BY <2>1, <2>3, ItemFields DEF TakeCommand
    <3> QED BY <1>1, <2>3, <3>1, IdsInEmpty DEF TakeCommand, IdsOf
  <2> QED BY <2>1, <2>2, <2>3, ItemFields
<1>4. \A c \in Flushers :
        /\ promised[c] \subseteq live
        /\ c \in done => promised[c] \subseteq OnDisk
        /\ \A i \in DOMAIN deferred : deferred[i].caller = c =>
             promised[c] \subseteq OnDisk \cup IdsIn(buf)
        /\ \A i \in DOMAIN queue : queue[i].caller = c =>
             promised[c] \subseteq OnDisk \cup IdsIn(buf) \cup IdsIn(deferred)
                                   \cup IdsBefore(queue, i)
  BY <1>2 DEF PromisesAhead
<1>5. \A c \in Flushers :
        /\ NextItem.caller = c => promised[c] \subseteq OnDisk \cup IdsIn(buf)
        /\ \A i \in DOMAIN queue' : queue'[i].caller = c =>
             promised[c] \subseteq OnDisk \cup IdsIn(buf) \cup IdsOf(NextItem.ids)
                                   \cup IdsBefore(queue', i)
  <2>1. CASE deferred # <<>>
    <3>1. deferred = <<NextItem>> /\ queue' = queue
      BY <1>0, <2>1 DEF Assembly, NextItem, Take
    <3>2. IdsIn(deferred) = IdsOf(NextItem.ids)
      BY <3>1 DEF IdsIn
    <3>3. 1 \in DOMAIN deferred /\ deferred[1] = NextItem
      BY <3>1
    <3> QED BY <1>4, <3>1, <3>2, <3>3
  <2>2. CASE deferred = <<>>
    <3>1. queue # <<>> /\ queue' = Tail(queue) /\ NextItem = Head(queue)
      BY <1>0, <2>2 DEF NextItem, Take
    <3>2. IdsIn(deferred) = {}
      BY <2>2, IdsInEmpty
    <3>3. /\ IdsBefore(queue, 1) = {}
          /\ \A i \in DOMAIN queue' :
               IdsBefore(queue, i + 1) \subseteq IdsOf(NextItem.ids) \cup IdsBefore(queue', i)
      <4>1. Head(queue) \in Item
        BY <1>0, <3>1
      <4> QED BY <1>0, <3>1, <4>1, BeforeFacts
    <3>4. /\ 1 \in DOMAIN queue /\ queue[1] = NextItem
          /\ \A i \in DOMAIN queue' : i + 1 \in DOMAIN queue /\ queue'[i] = queue[i + 1]
      BY <1>0, <3>1
    <3> QED BY <1>4, <3>2, <3>3, <3>4
  <2> QED BY <2>1, <2>2
<1>6. \A i \in DOMAIN command' : command'[i] = NextItem
  BY <1>3
<1> SUFFICES ASSUME NEW c \in Flushers
             PROVE  /\ promised'[c] \subseteq live'
                    /\ c \in done' => promised'[c] \subseteq Lasting'
                    /\ \A i \in DOMAIN command' :
                         command'[i].caller = c => promised'[c] \subseteq Buffered'
                    /\ \A i \in DOMAIN deferred' : deferred'[i].caller = c =>
                         promised'[c] \subseteq Handed'
                    /\ \A i \in DOMAIN queue' : queue'[i].caller = c =>
                         promised'[c] \subseteq Handed' \cup IdsIn(deferred)'
                                                \cup IdsBefore(queue', i)
  <2>1. \A i \in DOMAIN queue' : IdsBefore(queue, i)' = IdsBefore(queue', i)
    BY DEF IdsBefore, IdsOf
  <2> QED BY <2>1 DEF PromisesAhead, Buffered, Handed
<1>7. Buffered' = OnDisk \cup IdsIn(buf)
      /\ Handed' = OnDisk \cup IdsIn(buf) \cup IdsOf(NextItem.ids)
  BY <1>2, <1>3 DEF Buffered, Handed
<1>8. \A i \in DOMAIN command' :
        command'[i].caller = c => promised'[c] \subseteq Buffered'
  BY <1>1, <1>5, <1>6, <1>7
<1>9. \A i \in DOMAIN queue' : queue'[i].caller = c =>
        promised'[c] \subseteq Handed' \cup IdsIn(deferred)' \cup IdsBefore(queue', i)
  BY <1>1, <1>5, <1>7
<1> QED BY <1>1, <1>2, <1>4, <1>8, <1>9

(* The writer merges the next batch, or defers what interrupts it.         *)
LEMMA PromiseCoalesce ==
  ASSUME JournalAssumption, IInv, OrderInv, PromisesAhead, Coalesce
  PROVE  PromisesAhead'
<1>0. /\ TypeOK /\ queue \in Seq(Item) /\ deferred = <<>> /\ command = <<>>
      /\ queue # <<>> /\ queue' = Tail(queue) /\ hand \in Seq(Mutations)
  BY DEF IInv, Assembly, OrderInv, StopIsLast, Coalesce, TypeOK, ThreadTypes
<1>1. /\ UNCHANGED <<live, done, promised, command, buf, journal, snapshot, capture>>
      /\ pc = "coalesce" /\ pc' \in {"coalesce", "write"}
  BY DEF Coalesce, memory, calls, disk
<1>2. Lasting' = Lasting /\ Buffered' = Buffered /\ IdsIn(deferred) = {}
  BY <1>0, <1>1, IdsInEmpty DEF Lasting, OnDisk, Buffered, IdsIn, IdsOf
<1>3. Head(queue) \in Item /\ Head(queue).ids \in Seq(Mutations)
  BY <1>0, ItemFields
<1>4. /\ Handed \subseteq Handed'
      /\ Handed \cup IdsOf(Head(queue).ids) \subseteq Handed' \cup IdsIn(deferred)'
      /\ \A i \in DOMAIN deferred' : deferred'[i] = Head(queue)
  <2>1. CASE Head(queue).kind = "batch"
    <3>1. hand' = hand \o Head(queue).ids /\ deferred' = <<>>
      BY <1>0, <2>1 DEF Coalesce, Merge
    <3>2. IdsOf(hand') = IdsOf(hand) \cup IdsOf(Head(queue).ids)
      BY <1>0, <1>3, <3>1, IdsOfConcat
    <3>3. IdsOf(hand)' = IdsOf(hand')
      BY DEF IdsOf
    <3> QED BY <1>2, <3>1, <3>2, <3>3 DEF Handed
  <2>2. CASE Head(queue).kind # "batch"
    <3>1. hand' = hand /\ deferred' = <<Head(queue)>>
      BY <2>2 DEF Coalesce
    <3>2. IdsIn(deferred)' = IdsOf(Head(queue).ids)
      BY <3>1 DEF IdsIn, IdsOf
    <3>3. Handed' = Handed
      BY <1>2, <3>1, SameSets DEF Handed
    <3> QED BY <3>1, <3>2, <3>3
  <2> QED BY <2>1, <2>2
<1>5. /\ IdsBefore(queue, 1) = {}
      /\ \A i \in DOMAIN queue' :
           IdsBefore(queue, i + 1) \subseteq IdsOf(Head(queue).ids) \cup IdsBefore(queue', i)
  BY <1>0, <1>3, BeforeFacts
<1>6. /\ 1 \in DOMAIN queue /\ queue[1] = Head(queue)
      /\ \A i \in DOMAIN queue' : i + 1 \in DOMAIN queue /\ queue'[i] = queue[i + 1]
  BY <1>0
<1>7. \A c \in Flushers :
        /\ promised[c] \subseteq live
        /\ c \in done => promised[c] \subseteq Lasting
        /\ \A i \in DOMAIN queue : queue[i].caller = c =>
             promised[c] \subseteq Handed \cup IdsIn(deferred) \cup IdsBefore(queue, i)
  BY DEF PromisesAhead, Handed, Buffered
<1> SUFFICES ASSUME NEW c \in Flushers
             PROVE  /\ promised'[c] \subseteq live'
                    /\ c \in done' => promised'[c] \subseteq Lasting'
                    /\ \A i \in DOMAIN command' :
                         command'[i].caller = c => promised'[c] \subseteq Buffered'
                    /\ \A i \in DOMAIN deferred' : deferred'[i].caller = c =>
                         promised'[c] \subseteq Handed'
                    /\ \A i \in DOMAIN queue' : queue'[i].caller = c =>
                         promised'[c] \subseteq Handed' \cup IdsIn(deferred)'
                                                \cup IdsBefore(queue', i)
  <2>1. \A i \in DOMAIN queue' : IdsBefore(queue, i)' = IdsBefore(queue', i)
    BY DEF IdsBefore, IdsOf
  <2> QED BY <2>1 DEF PromisesAhead, Buffered, Handed
<1>8. \A i \in DOMAIN deferred' : deferred'[i].caller = c => promised'[c] \subseteq Handed'
  BY <1>1, <1>2, <1>4, <1>5, <1>6, <1>7
<1>9. \A i \in DOMAIN queue' : queue'[i].caller = c =>
        promised'[c] \subseteq Handed' \cup IdsIn(deferred)' \cup IdsBefore(queue', i)
  BY <1>1, <1>2, <1>4, <1>5, <1>6, <1>7
<1> QED BY <1>0, <1>1, <1>2, <1>7, <1>8, <1>9

(* What is written or flushed gets closer to the disk,                      *)
LEMMA FlushedFlow ==
  ASSUME TypeOK, Write \/ FlushHandle \/ UNCHANGED <<buf, spilt, journal>>,
         ~Write => UNCHANGED hand, UNCHANGED snapshot
  PROVE  /\ OnDisk \subseteq OnDisk'
         /\ OnDisk \cup IdsIn(buf) \subseteq (OnDisk \cup IdsIn(buf))'
         /\ OnDisk \cup IdsIn(buf) \cup IdsOf(hand)
              \subseteq (OnDisk \cup IdsIn(buf) \cup IdsOf(hand))'
<1>1. IdsIn(journal) \subseteq IdsIn(journal)'
  <2>1. CASE Write
    <3>1. PICK k \in 0 .. Len(Append(buf, Whole(hand))) :
            journal' = journal \o SubSeq(Append(buf, Whole(hand)), 1, k)
      BY <2>1 DEF Write, Spill
    <3>2. /\ journal \in Seq(Record) /\ Append(buf, Whole(hand)) \in Seq(Record)
      BY ItemTypes DEF TypeOK, ThreadTypes, DiskTypes
    <3>3. SubSeq(Append(buf, Whole(hand)), 1, k) \in Seq(Record)
      BY <3>2, IdsInCut
    <3> DEFINE front == SubSeq(Append(buf, Whole(hand)), 1, k)
    <3>4. journal' = journal \o front /\ front \in Seq(Record)
      BY <3>1, <3>3
    <3> HIDE DEF front
    <3>5. IdsIn(journal') = IdsIn(journal) \cup IdsIn(front)
      BY <3>2, <3>4, IdsInConcat
    <3> QED BY <3>5 DEF IdsIn, IdsOf
  <2>2. CASE FlushHandle
    <3>1. journal' = journal \o buf /\ journal \in Seq(Record) /\ buf \in Seq(Record)
      BY <2>2 DEF FlushHandle, TypeOK, DiskTypes
    <3>2. IdsIn(journal') = IdsIn(journal) \cup IdsIn(buf)
      BY <3>1, IdsInConcat
    <3> QED BY <3>2 DEF IdsIn, IdsOf
  <2>3. CASE UNCHANGED <<buf, spilt, journal>>
    BY <2>3, SameSets
  <2> QED BY <2>1, <2>2, <2>3
<1>2. CASE Write
  <2>1. IdsIn(journal)' \cup IdsIn(buf)' = IdsIn(journal) \cup IdsIn(buf) \cup IdsOf(hand)
    BY <1>2, WriteFlow
  <2> QED BY <1>1, <2>1 DEF OnDisk
<1>3. CASE ~Write
  <2>1. IdsIn(journal)' \cup IdsIn(buf)' = IdsIn(journal) \cup IdsIn(buf)
    BY <1>3, FlushFlow
  <2>2. IdsOf(hand)' = IdsOf(hand)
    BY <1>3, SameSets
  <2> QED BY <1>1, <2>1, <2>2 DEF OnDisk
<1> QED BY <1>2, <1>3

(* and so does what was promised.                                          *)
LEMMA PromiseFlushed ==
  ASSUME TypeOK, PromisesAhead,
         Write \/ FlushHandle \/ UNCHANGED <<buf, spilt, journal>>,
         ~Write => UNCHANGED hand,
         UNCHANGED <<live, snapshot, promised, done, command, deferred, queue>>,
         pc \notin {"replace", "close", "truncate"},
         pc' \notin {"replace", "close", "truncate"}
  PROVE  PromisesAhead'
<1>1. Lasting = OnDisk /\ Lasting' = OnDisk'
  BY DEF Lasting
<1>2. /\ Lasting \subseteq Lasting' /\ Buffered \subseteq Buffered' /\ Handed \subseteq Handed'
  BY <1>1, FlushedFlow DEF Buffered, Handed
<1> QED BY <1>2, PromiseKept

(* The command being served is answered when what it was promised lasts.   *)
LEMMA PromiseAnswered ==
  ASSUME PromisesAhead, Answer, Buffered \subseteq Lasting', Handed \subseteq Handed',
         UNCHANGED <<live, deferred, queue, promised>>
  PROVE  PromisesAhead'
<1>1. \A c \in Flushers :
        /\ promised[c] \subseteq live
        /\ c \in done => promised[c] \subseteq Buffered
        /\ \A i \in DOMAIN command : command[i].caller = c => promised[c] \subseteq Buffered
        /\ \A i \in DOMAIN deferred : deferred[i].caller = c => promised[c] \subseteq Handed
        /\ \A i \in DOMAIN queue : queue[i].caller = c =>
             promised[c] \subseteq Handed \cup IdsIn(deferred) \cup IdsBefore(queue, i)
  BY DEF PromisesAhead, Handed, Buffered
<1>2. IdsIn(deferred)' = IdsIn(deferred)
      /\ \A i \in DOMAIN queue : IdsBefore(queue, i)' = IdsBefore(queue, i)
  BY SameSets DEF IdsBefore, IdsOf
<1>3. command' = <<>> /\ \A c \in Flushers : c \in done' =>
        c \in done \/ \E i \in DOMAIN command : command[i].caller = c
  BY DEF Answer
<1> SUFFICES ASSUME NEW c \in Flushers
             PROVE  /\ promised'[c] \subseteq live'
                    /\ c \in done' => promised'[c] \subseteq Lasting'
                    /\ \A i \in DOMAIN command' :
                         command'[i].caller = c => promised'[c] \subseteq Buffered'
                    /\ \A i \in DOMAIN deferred' : deferred'[i].caller = c =>
                         promised'[c] \subseteq Handed'
                    /\ \A i \in DOMAIN queue' : queue'[i].caller = c =>
                         promised'[c] \subseteq Handed' \cup IdsIn(deferred)'
                                                \cup IdsBefore(queue, i)'
  BY DEF PromisesAhead, Buffered, Handed, IdsBefore, IdsOf
<1> QED BY <1>1, <1>2, <1>3

(* The steps of the writer between two items, flushes and rotations.       *)
LEMMA PromiseWriter ==
  ASSUME JournalAssumption, IInv, OrderInv, BufferCounted, PromisesAhead,
         \/ Write \/ AfterWrite \/ Idle \/ Flush \/ Stop
  PROVE  PromisesAhead'
<1>0. TypeOK
  BY DEF IInv
<1>1. CASE Write
  <2>1. /\ UNCHANGED <<live, snapshot, promised, done, command, deferred, queue>>
        /\ pc \notin {"replace", "close", "truncate"} /\ pc' = "written"
    BY <1>1 DEF Write, Writing, memory, calls, channel
  <2> QED BY <1>0, <1>1, <2>1, PromiseFlushed
<1>2. CASE AfterWrite \/ Idle \/ Stop
  <2>1. /\ UNCHANGED <<live, snapshot, promised, done, command, deferred, queue, hand>>
        /\ pc \notin {"replace", "close", "truncate"}
        /\ pc' \notin {"replace", "close", "truncate"}
    BY <1>2 DEF AfterWrite, Idle, Stop, memory, calls, channel
  <2>2. FlushHandle \/ UNCHANGED <<buf, spilt, journal>>
    BY <1>2 DEF AfterWrite, Idle, Stop, FlushPending
  <2> QED BY <1>0, <2>1, <2>2, PromiseFlushed
<1>3. CASE Flush
  <2>1. /\ UNCHANGED <<live, snapshot, promised, deferred, queue, hand>>
        /\ pc = "flush" /\ pc' \in {"get", "capture"}
        /\ FlushHandle \/ UNCHANGED <<buf, spilt, journal>>
    BY <1>3 DEF Flush, FlushPending, memory, channel
  <2>2. CASE UNCHANGED <<done, command>>
    BY <1>0, <2>1, <2>2, PromiseFlushed
  <2>3. CASE Answer
    <3>1. Lasting = OnDisk /\ Lasting' = OnDisk'
      BY <2>1 DEF Lasting
    <3>2. IdsIn(buf)' = {}
      <4>1. buf' = <<>>
        BY <1>0, <1>3 DEF Flush, FlushPending, FlushHandle, BufferCounted, TypeOK, ThreadTypes
      <4> QED BY <4>1 DEF IdsIn, IdsOf
    <3>3. /\ OnDisk \cup IdsIn(buf) \subseteq (OnDisk \cup IdsIn(buf))'
          /\ OnDisk \cup IdsIn(buf) \cup IdsOf(hand)
               \subseteq (OnDisk \cup IdsIn(buf) \cup IdsOf(hand))'
      BY <1>0, <2>1, FlushedFlow
    <3>4. Buffered \subseteq Lasting' /\ Handed \subseteq Handed'
      BY <3>1, <3>2, <3>3 DEF Buffered, Handed
    <3> QED BY <2>1, <2>3, <3>4, PromiseAnswered
  <2> QED BY <1>3, <2>2, <2>3 DEF Flush
<1> QED BY <1>1, <1>2, <1>3

(* A rotation: the snapshot covers what the journal is emptied of.         *)
LEMMA PromiseRotate ==
  ASSUME IInv, OrderInv, PromisesAhead,
         Capture \/ ReplaceSnapshot \/ CloseJournal \/ Truncate
  PROVE  PromisesAhead'
<1>0. TypeOK /\ RotationCovers /\ buf \in Seq(Record) /\ journal \in Seq(Record)
  BY DEF IInv, TypeOK, DiskTypes
<1>1. CASE Capture
  <2>1. /\ UNCHANGED <<live, promised, done, command, deferred, queue, hand, buf, journal,
                       snapshot>>
        /\ pc = "capture" /\ pc' = "replace" /\ capture' = live
    BY <1>1 DEF Capture, memory, calls, channel, disk
  <2>2. Lasting = OnDisk /\ Lasting' = OnDisk' \cap live
    BY <2>1 DEF Lasting
  <2>3. OnDisk' = OnDisk /\ IdsIn(buf)' = IdsIn(buf) /\ IdsOf(hand)' = IdsOf(hand)
    BY <2>1, SameSets DEF OnDisk
  <2>4. /\ live \cap Lasting \subseteq Lasting' /\ live \cap Buffered \subseteq Buffered'
        /\ live \cap Handed \subseteq Handed'
    BY <2>2, <2>3 DEF Buffered, Handed
  <2> QED BY <2>1, <2>4, PromiseKept
<1>2. CASE ReplaceSnapshot
  <2>1. /\ UNCHANGED <<live, promised, done, command, deferred, queue, hand, buf, journal>>
        /\ pc = "replace" /\ pc' = "close" /\ snapshot' = capture
    BY <1>2 DEF ReplaceSnapshot, memory, calls, channel
  <2>2. Lasting = OnDisk \cap capture /\ Lasting' = capture
    BY <2>1 DEF Lasting
  <2>3. IdsIn(buf)' = IdsIn(buf) /\ IdsOf(hand)' = IdsOf(hand)
    BY <2>1, SameSets
  <2>4. /\ Lasting \subseteq Lasting' /\ Buffered \subseteq Buffered' /\ Handed \subseteq Handed'
    BY <2>2, <2>3 DEF Buffered, Handed
  <2> QED BY <2>1, <2>4, PromiseKept
<1>3. CASE CloseJournal
  <2>1. /\ UNCHANGED <<live, promised, done, command, deferred, queue, hand, snapshot>>
        /\ pc = "close" /\ pc' = "truncate"
    BY <1>3 DEF CloseJournal, memory, calls, channel
  <2>2. Lasting = snapshot /\ Lasting' = snapshot /\ IdsIn(buf) \subseteq snapshot
    BY <1>0, <2>1 DEF Lasting, RotationCovers
  <2>3. IdsOf(hand)' = IdsOf(hand)
    BY <2>1, SameSets
  <2>4. /\ Lasting \subseteq Lasting' /\ Buffered \subseteq Buffered' /\ Handed \subseteq Handed'
    BY <2>2, <2>3 DEF Buffered, Handed
  <2> QED BY <2>1, <2>4, PromiseKept
<1>4. CASE Truncate
  <2>1. /\ UNCHANGED <<live, promised, deferred, queue, hand, snapshot, buf>> /\ Answer
        /\ pc = "truncate" /\ pc' \in {"get", "stopped"} /\ journal' = <<>>
    BY <1>4 DEF Truncate, memory
  <2>2. IdsIn(buf) \subseteq snapshot /\ Lasting = snapshot
    BY <1>0, <2>1 DEF Lasting, RotationCovers
  <2>3. Lasting' = snapshot
    <3>1. IdsIn(journal)' = {}
      BY <2>1 DEF IdsIn, IdsOf
    <3> QED BY <2>1, <3>1 DEF Lasting, OnDisk
  <2>4. IdsIn(buf)' = IdsIn(buf) /\ IdsOf(hand)' = IdsOf(hand)
    BY <2>1, SameSets
  <2>5. Buffered \subseteq Lasting' /\ Handed \subseteq Handed'
    BY <2>2, <2>3, <2>4 DEF Buffered, Handed
  <2> QED BY <2>1, <2>5, PromiseAnswered
<1> QED BY <1>1, <1>2, <1>3, <1>4

(* Every step of a writer that has not failed keeps its promises.          *)
LEMMA PromiseStep ==
  ASSUME JournalAssumption, IInv, OrderInv, FlushInv, [Next]_vars
  PROVE  ~failed' => PromisesAhead'
<1>0. BufferCounted /\ Unqueued /\ TypeOK
  BY DEF FlushInv, IInv
<1>1. CASE Crash \/ Exit
  <2>1. /\ promised' = [c \in Callers |-> {}] /\ done' = {} /\ command' = <<>>
        /\ deferred' = <<>> /\ queue' = <<>>
    BY <1>1 DEF Crash, Exit, FreshProcess
  <2> QED BY <2>1 DEF PromisesAhead, Callers
<1>2. CASE Recover
  <2>1. /\ \A c \in Flushers : promised'[c] = {}
        /\ done' = {} /\ command' = <<>> /\ deferred' = <<>> /\ queue' = <<>>
    BY <1>2 DEF Recover, OrderInv, NothingVolatileDown, calls, channel, Callers
  <2> QED BY <2>1 DEF PromisesAhead
<1>3. CASE Fail \/ Drain
  <2>1. failed' = TRUE \/ (failed' = failed /\ pc = "drain")
    BY <1>3 DEF Fail, Drain
  <2> QED BY <2>1 DEF IInv, StopCovers
<1>4. CASE UNCHANGED vars
  <2>1. /\ UNCHANGED <<failed, live, promised, done, command, deferred, queue, buf, hand,
                       journal, snapshot, capture, pc>>
    BY <1>4 DEF vars, memory, channel, thread, disk, calls
  <2>2. Lasting' = Lasting /\ Buffered' = Buffered /\ Handed' = Handed
    BY <2>1 DEF IdsIn, IdsOf, Lasting, OnDisk, Buffered, Handed
  <2>3. PromisesAhead => PromisesAhead'
    BY <2>1, <2>2, PromiseKept
  <2> QED BY <2>1, <2>3 DEF FlushInv
<1>5. CASE Next /\ ~(Crash \/ Exit \/ Recover \/ Fail \/ Drain)
  <2>1. SUFFICES ASSUME PromisesAhead PROVE PromisesAhead'
    <3>1. failed' = failed
      BY <1>5 DEF Next, Producer, BatchMutate, Commit, RetryCommit, CancelCommit, RecordMutate,
                  PutSync, Mutate, Caller, Call, Put, Return, Raise, TimeOut, thread, Writer,
                  TakeMutations, TakeCommand, Coalesce, Write, AfterWrite, Idle, Flush, Stop,
                  Capture, ReplaceSnapshot, CloseJournal, Truncate
    <3> QED BY <3>1 DEF FlushInv
  <2> QED BY <1>0, <1>5, <2>1, PromiseProducer, PromiseCaller, PromiseTake, PromiseCoalesce,
             PromiseWriter, PromiseRotate DEF Next, Writer
<1> QED BY <1>1, <1>2, <1>3, <1>4, <1>5

(* The invariant behind FlushReachesDisk.                                  *)
THEOREM FlushInvariant == Spec => []FlushInv
<1>1. Init => FlushInv
  <2> SUFFICES ASSUME Init PROVE FlushInv
    OBVIOUS
  <2>1. BufferCounted
    BY DEF Init, BufferCounted
  <2>2. Unqueued
    BY DEF Init, Unqueued, Callers
  <2>3. PromisesAhead
    BY DEF Init, PromisesAhead, Callers
  <2> QED BY <2>1, <2>2, <2>3 DEF FlushInv
<1>2. IInv /\ OrderInv /\ FlushInv /\ [Next]_vars => FlushInv'
  <2> SUFFICES ASSUME IInv, OrderInv, FlushInv, [Next]_vars PROVE FlushInv'
    OBVIOUS
  <2>1. TypeOK /\ BufferCounted /\ Unqueued
    BY DEF IInv, FlushInv
  <2>2. BufferCounted' /\ Unqueued'
    BY <2>1, JournalAssumption, CountStep, UnqueuedStep
  <2>3. ~failed' => PromisesAhead'
    BY JournalAssumption, PromiseStep
  <2> QED BY <2>2, <2>3 DEF FlushInv
<1> QED BY <1>1, <1>2, Invariant, OrderInvariant, PTL DEF Spec

(* Wherever the items were when flush() was called, in the queue, deferred, *)
(* in hand, in the file object's buffer or covered by a snapshot being     *)
(* written, a flush() that returns from a writer that has not failed        *)
(* returns with all of them in the files (_FlushCommand, done.set()).      *)
THEOREM FlushMeansOnDisk == Spec => []FlushReachesDisk
<1>1. IInv /\ FlushInv => FlushReachesDisk
  <2> SUFFICES ASSUME IInv, FlushInv, ~failed, NEW c \in Flushers, callers[c] = "ok"
               PROVE  promised[c] \subseteq OnDisk
    BY DEF FlushReachesDisk
  <2>1. promised[c] \subseteq Lasting
    BY DEF FlushInv, Unqueued, PromisesAhead
  <2> QED BY <2>1 DEF Lasting, OnDisk
<1> QED BY <1>1, Invariant, FlushInvariant, PTL

-----------------------------------------------------------------------------
(* HotStorage: the maps of the message ids and the indexes of the stored    *)
(* messages agree, in the running engine and after recovery.                *)

(* No two places of a sequence hold the same.                               *)
Distinct(s) == \A i, j \in DOMAIN s : s[i] = s[j] => i = j

(* Removing a member of a sequence without repetitions leaves the others.   *)
LEMMA RemoveFirstFacts ==
  ASSUME NEW S, NEW s \in Seq(S), Distinct(s), NEW e
  PROVE  /\ RemoveFirst(s, e) \in Seq(S) /\ Distinct(RemoveFirst(s, e))
         /\ \A i \in DOMAIN RemoveFirst(s, e) :
              /\ RemoveFirst(s, e)[i] # e
              /\ \E j \in DOMAIN s : s[j] = RemoveFirst(s, e)[i]
<1>1. CASE ~\E i \in 1 .. Len(s) : s[i] = e
  <2>1. RemoveFirst(s, e) = s
    BY <1>1 DEF RemoveFirst
  <2> QED BY <1>1, <2>1
<1>2. CASE \E i \in 1 .. Len(s) : s[i] = e
  <2> DEFINE I == {i \in 1 .. Len(s) : s[i] = e}
             k == SelectInSeq(s, LAMBDA v : v = e)
  <2>1. PICK x \in I : \A y \in I : ~(y < x)
    <3>1. I # {} /\ I \subseteq Nat
      BY <1>2
    <3> HIDE DEF I
    <3> QED BY <3>1, LeastNat
  <2>2. \E i \in I : \A j \in I : i <= j
    BY <2>1
  <2>3. I # {} /\ k = CHOOSE i \in I : \A j \in I : i <= j
    BY <1>2 DEF SelectInSeq, Min
  <2>4. k \in I
    <3> HIDE DEF k, I
    <3> QED BY <2>2, <2>3
  <2>5. RemoveFirst(s, e) = SubSeq(s, 1, k - 1) \o SubSeq(s, k + 1, Len(s))
    BY <1>2 DEF RemoveFirst, RemoveAt
  <2>6. k \in 1 .. Len(s) /\ s[k] = e
    BY <2>4
  <2> HIDE DEF k
  <2>7. PICK l : l = SubSeq(s, 1, k - 1)
    OBVIOUS
  <2>8. PICK r : r = SubSeq(s, k + 1, Len(s))
    OBVIOUS
  <2>9. /\ l \in Seq(S) /\ Len(l) = k - 1 /\ \A i \in 1 .. k - 1 : l[i] = s[i]
    BY <2>6, <2>7
  <2>10. /\ r \in Seq(S) /\ Len(r) = Len(s) - k /\ \A i \in 1 .. Len(s) - k : r[i] = s[i + k]
    BY <2>6, <2>8
  <2>11. PICK t : t = l \o r
    OBVIOUS
  <2>12. /\ t \in Seq(S) /\ Len(t) = Len(s) - 1
         /\ \A i \in 1 .. Len(s) - 1 : t[i] = IF i < k THEN s[i] ELSE s[i + 1]
    <3>1. /\ t \in Seq(S) /\ Len(t) = Len(l) + Len(r)
          /\ \A i \in 1 .. Len(t) : t[i] = IF i <= Len(l) THEN l[i] ELSE r[i - Len(l)]
      <4>1. /\ l \o r \in Seq(S) /\ Len(l \o r) = Len(l) + Len(r)
            /\ \A i \in 1 .. Len(l) + Len(r) :
                 (l \o r)[i] = IF i <= Len(l) THEN l[i] ELSE r[i - Len(l)]
        BY <2>9, <2>10, ConcatProperties, Zenon
      <4> QED BY ONLY <2>11, <4>1
    <3>2. Len(l) \in Nat /\ Len(r) \in Nat /\ Len(s) \in Nat /\ k \in 1 .. Len(s)
      BY <2>6, <2>9, <2>10
    <3>3. Len(t) = Len(s) - 1
      BY ONLY <2>9, <2>10, <3>1, <3>2
    <3>4. ASSUME NEW i \in 1 .. Len(s) - 1
          PROVE  t[i] = IF i < k THEN s[i] ELSE s[i + 1]
      <4>1. CASE i < k
        <5>1. i \in 1 .. k - 1 /\ i \in 1 .. Len(t) /\ i <= Len(l)
          BY ONLY <2>9, <3>2, <3>3, <4>1
        <5> QED BY ONLY <2>9, <3>1, <4>1, <5>1
      <4>2. CASE ~(i < k)
        <5>1. /\ i - (k - 1) \in 1 .. Len(s) - k /\ i - (k - 1) + k = i + 1
              /\ i \in 1 .. Len(t) /\ ~(i <= Len(l)) /\ i - Len(l) = i - (k - 1)
          BY ONLY <2>9, <3>2, <3>3, <4>2
        <5> QED BY ONLY <2>10, <3>1, <4>2, <5>1
      <4> QED BY ONLY <4>1, <4>2
    <3> QED BY ONLY <3>1, <3>3, <3>4
  <2>13. t = RemoveFirst(s, e)
    BY <2>5, <2>7, <2>8, <2>11
  <2>14. \A i \in DOMAIN t : t[i] # e /\ \E j \in DOMAIN s : s[j] = t[i]
    <3> SUFFICES ASSUME NEW i \in DOMAIN t
                 PROVE  t[i] # e /\ \E j \in DOMAIN s : s[j] = t[i]
      OBVIOUS
    <3>1. i \in 1 .. Len(s) - 1
      BY <2>12
    <3>2. PICK j \in 1 .. Len(s) : j # k /\ t[i] = s[j]
      <4>1. CASE i < k
        BY <2>6, <2>12, <3>1, <4>1
      <4>2. CASE ~(i < k)
        BY <2>6, <2>12, <3>1, <4>2
      <4> QED BY <4>1, <4>2
    <3>3. j \in DOMAIN s /\ k \in DOMAIN s
      BY <2>6
    <3> QED BY <2>6, <3>2, <3>3 DEF Distinct
  <2>15. Distinct(t)
    <3> SUFFICES ASSUME NEW i \in DOMAIN t, NEW j \in DOMAIN t, t[i] = t[j] PROVE i = j
      BY DEF Distinct
    <3>1. i \in 1 .. Len(s) - 1 /\ j \in 1 .. Len(s) - 1
      BY <2>12
    <3> DEFINE at(n) == IF n < k THEN n ELSE n + 1
    <3>2. at(i) \in DOMAIN s /\ at(j) \in DOMAIN s /\ s[at(i)] = s[at(j)]
      BY <2>6, <2>12, <3>1
    <3>3. at(i) = at(j)
      <4> HIDE DEF at
      <4> QED BY <3>2 DEF Distinct
    <3> QED BY <2>6, <3>1, <3>3
  <2> QED BY <2>12, <2>13, <2>14, <2>15
<1> QED BY <1>1, <1>2

(* A sequence cut behind its last stored message is a part of it.           *)
LEMMA RefreshedFacts ==
  ASSUME NEW S, NEW s \in Seq(S), Distinct(s), NEW stored
  PROVE  /\ Refreshed(s, stored) \in Seq(S) /\ Distinct(Refreshed(s, stored))
         /\ \A i \in DOMAIN Refreshed(s, stored) :
              \E j \in DOMAIN s : s[j] = Refreshed(s, stored)[i]
<1> DEFINE present == {i \in DOMAIN s : s[i] \in stored}
<1>1. CASE present = {}
  <2>1. Refreshed(s, stored) = <<>>
    BY <1>1 DEF Refreshed
  <2> QED BY <2>1 DEF Distinct
<1>2. CASE present # {}
  <2> DEFINE above == {n \in Nat : \A i \in present : i <= n}
  <2>1. Len(s) \in above
    OBVIOUS
  <2>2. PICK k \in above : \A n \in above : ~(n < k)
    <3>1. above \subseteq Nat /\ above # {}
      BY <2>1
    <3> HIDE DEF above
    <3> QED BY <3>1, LeastNat
  <2>3. k \in present
    <3> SUFFICES ASSUME k \notin present PROVE FALSE
      OBVIOUS
    <3>1. \A i \in present : i \in Nat /\ i >= 1 /\ i < k
      BY <2>2
    <3>2. k - 1 \in above /\ k - 1 < k
      BY <1>2, <2>2, <3>1
    <3> QED BY <2>2, <3>2
  <2>4. \A i \in present : k >= i /\ i \in Nat
    BY <2>2
  <2>5. Max(present) = k
    <3> HIDE DEF present
    <3>1. Max(present) \in present /\ \A i \in present : Max(present) >= i
      BY <2>3, <2>4 DEF Max
    <3>2. PICK x \in present : x = Max(present) /\ x >= k /\ k >= x /\ x \in Nat
      BY <2>3, <2>4, <3>1
    <3> QED BY <2>2, <3>2
  <2>6. Refreshed(s, stored) = SubSeq(s, 1, k)
    BY <1>2, <2>5 DEF Refreshed
  <2>7. PICK t : t = SubSeq(s, 1, k)
    OBVIOUS
  <2>8. k \in 1 .. Len(s)
    BY <2>3
  <2>9. t \in Seq(S) /\ Len(t) = k /\ \A i \in 1 .. k : t[i] = s[i]
    BY <2>7, <2>8
  <2>10. \A i \in DOMAIN t : i \in DOMAIN s /\ t[i] = s[i]
    BY <2>8, <2>9
  <2> QED BY <2>6, <2>7, <2>9, <2>10 DEF Distinct
<1> QED BY <1>1, <1>2

-----------------------------------------------------------------------------
(* The engine                                                               *)

(* Two states of the engine that have the same maps of the message ids.     *)
SameIds(a, b) ==
  /\ a.window = b.window /\ a.counter = b.counter /\ a.order = b.order
  /\ a.forward = b.forward /\ a.reverse = b.reverse

Sound(st) == Engine(st) /\ Indexed(st)

(* An engine that starts empty is sound, and its maps agree.                *)
LEMMA FreshFacts ==
  ASSUME NEW w \in Surrogates
  PROVE  Sound(Fresh(w)) /\ Windowed(Fresh(w))
<1>1. Engine(Fresh(w))
  BY DEF Engine, Fields, Fresh, Nothing, Surrogates
<1>2. Indexed(Fresh(w))
  <2>1. IsFiniteSet({})
    BY FS_EmptySet
  <2> QED BY <2>1 DEF Indexed, Fresh, Nothing
<1>3. Windowed(Fresh(w))
  BY DEF Windowed, Mapped, Fresh, Nothing, Surrogates
<1> QED BY <1>1, <1>2, <1>3 DEF Sound

(* An engine whose indexes are replaced.                                    *)
Reindexed(st, a, b, c) == [st EXCEPT !.bySource = a, !.bySurrogate = b, !.pairs = c]

LEMMA ReindexedFacts ==
  ASSUME NEW st, Engine(st), NEW a, NEW b, NEW c \in [Senders -> Seq(Msgs)]
  PROVE  /\ Engine(Reindexed(st, a, b, c)) /\ SameIds(Reindexed(st, a, b, c), st)
         /\ Reindexed(st, a, b, c).bySource = a
         /\ Reindexed(st, a, b, c).bySurrogate = b
         /\ Reindexed(st, a, b, c).pairs = c
  BY DEF Reindexed, Engine, Fields, SameIds

(* A message that is removed leaves the indexes.                            *)
LEMMA RemoveFacts ==
  ASSUME NEW st, Sound(st), NEW m \in Msgs
  PROVE  /\ Sound(_remove_message_entry_locked(st, m))
         /\ SameIds(_remove_message_entry_locked(st, m), st)
         /\ DOMAIN _remove_message_entry_locked(st, m).bySource = DOMAIN st.bySource \ {m}
<1>1. CASE m \notin DOMAIN st.bySource
  BY <1>1 DEF _remove_message_entry_locked, SameIds
<1>2. CASE m \in DOMAIN st.bySource
  <2> DEFINE left == Drop(st.bySource, m)
             index == Drop(st.bySurrogate, st.bySource[m].surrogate)
             pairs == IF m \in Direct THEN st.pairs ELSE
                        [st.pairs EXCEPT ![SenderOf[m]] =
                           Refreshed(RemoveFirst(st.pairs[SenderOf[m]], m), DOMAIN left)]
             new == Reindexed(st, left, index, pairs)
  <2>1. new = _remove_message_entry_locked(st, m)
    BY <1>2 DEF _remove_message_entry_locked, Reindexed
  <2>3. /\ DOMAIN left = DOMAIN st.bySource \ {m}
        /\ \A x \in DOMAIN left : left[x] = st.bySource[x]
        /\ DOMAIN index = DOMAIN st.bySurrogate \ {st.bySource[m].surrogate}
        /\ \A x \in DOMAIN index : index[x] = st.bySurrogate[x]
    BY DEF Drop, Restrict
  <2> HIDE DEF left, index
  <2>4. pairs \in [Senders -> Seq(Msgs)]
        /\ \A p \in Senders :
             /\ Distinct(pairs[p])
             /\ \A i \in DOMAIN pairs[p] :
                  pairs[p][i] # m /\ \E j \in DOMAIN st.pairs[p] : st.pairs[p][j] = pairs[p][i]
    <3>1. st.pairs \in [Senders -> Seq(Msgs)] /\ \A p \in Senders : Distinct(st.pairs[p])
      BY DEF Sound, Engine, Indexed, Distinct
    <3>2. CASE m \in Direct
      <4>1. \A p \in Senders : \A i \in DOMAIN st.pairs[p] : st.pairs[p][i] # m
        BY <3>2 DEF Sound, Indexed
      <4> QED BY <3>1, <3>2, <4>1
    <3>3. CASE m \notin Direct
      <4>1. SenderOf[m] \in Senders
        BY DEF Senders
      <4> DEFINE s == st.pairs[SenderOf[m]]
                 r == RemoveFirst(s, m)
                 t == Refreshed(r, DOMAIN left)
      <4>2. s \in Seq(Msgs) /\ Distinct(s)
        BY <3>1, <4>1
      <4>3. /\ r \in Seq(Msgs) /\ Distinct(r)
            /\ \A i \in DOMAIN r : r[i] # m /\ \E j \in DOMAIN s : s[j] = r[i]
        BY <4>2, RemoveFirstFacts
      <4>4. /\ t \in Seq(Msgs) /\ Distinct(t)
            /\ \A i \in DOMAIN t : \E j \in DOMAIN r : r[j] = t[i]
        <5> HIDE DEF r
        <5> QED BY <4>3, RefreshedFacts
      <4>5. \A i \in DOMAIN t : t[i] # m /\ \E j \in DOMAIN s : s[j] = t[i]
        <5> HIDE DEF r, t, s
        <5> QED BY <4>3, <4>4
      <4>6. pairs = [st.pairs EXCEPT ![SenderOf[m]] = t]
        BY <3>3
      <4>7. pairs \in [Senders -> Seq(Msgs)]
        <5> HIDE DEF t, pairs
        <5> QED BY <3>1, <4>1, <4>4, <4>6
      <4>8. ASSUME NEW p \in Senders
            PROVE  /\ Distinct(pairs[p])
                   /\ \A i \in DOMAIN pairs[p] :
                        pairs[p][i] # m /\ \E j \in DOMAIN st.pairs[p] : st.pairs[p][j] = pairs[p][i]
        <5>1. CASE p = SenderOf[m]
          <6>1. pairs[p] = t
            <7> HIDE DEF t, pairs
            <7> QED BY <3>1, <4>1, <4>6, <5>1
          <6> HIDE DEF t, pairs
          <6> QED BY <4>4, <4>5, <5>1, <6>1
        <5>2. CASE p # SenderOf[m]
          <6>1. pairs[p] = st.pairs[p]
            <7> HIDE DEF t, pairs
            <7> QED BY <3>1, <4>1, <4>6, <5>2
          <6>2. \A i \in DOMAIN st.pairs[p] : st.pairs[p][i] # m
            BY <5>2 DEF Sound, Indexed
          <6> HIDE DEF pairs
          <6> QED BY <3>1, <6>1, <6>2
        <5> QED BY <5>1, <5>2
      <4> HIDE DEF pairs
      <4> QED BY <4>7, <4>8
    <3> QED BY <3>2, <3>3
  <2>5. /\ Engine(new) /\ SameIds(new, st)
        /\ new.bySource = left /\ new.bySurrogate = index /\ new.pairs = pairs
    <3> HIDE DEF pairs
    <3> QED BY <2>4, ReindexedFacts DEF Sound
  <2> HIDE DEF pairs, new
  <2>6. Indexed(new)
    <3>1. /\ DOMAIN new.bySource \subseteq Msgs /\ IsFiniteSet(DOMAIN new.bySource)
      <4>1. IsFiniteSet(DOMAIN st.bySource \ {m})
        BY FS_Subset DEF Sound, Indexed
      <4> QED BY <2>5, <2>3, <4>1 DEF Sound, Indexed
    <3>2. \A x \in DOMAIN new.bySource : new.bySource[x] \in Entries /\ new.bySource[x].source = x
      BY <2>5, <2>3 DEF Sound, Indexed
    <3>3. ASSUME NEW s \in DOMAIN new.bySurrogate
          PROVE  LET e == new.bySurrogate[s]
                 IN  e.surrogate = s /\ e.source \in DOMAIN new.bySource /\ new.bySource[e.source] = e
      <4>1. s \in DOMAIN st.bySurrogate /\ s # st.bySource[m].surrogate
            /\ new.bySurrogate[s] = st.bySurrogate[s]
        BY <2>5, <2>3
      <4>2. PICK e : e = st.bySurrogate[s]
        OBVIOUS
      <4>3. e.surrogate = s /\ e.source \in DOMAIN st.bySource /\ st.bySource[e.source] = e
        BY <4>1, <4>2 DEF Sound, Indexed
      <4>4. e.source # m
        BY <4>1, <4>3
      <4> QED BY <2>5, <2>3, <4>1, <4>2, <4>3, <4>4
    <3>4. ASSUME NEW p \in Senders, NEW i \in DOMAIN new.pairs[p]
          PROVE  /\ new.pairs[p][i] \in DOMAIN new.bySource \ Direct
                 /\ SenderOf[new.pairs[p][i]] = p
                 /\ \A j \in DOMAIN new.pairs[p] : new.pairs[p][i] = new.pairs[p][j] => i = j
      <4>1. new.pairs = pairs /\ new.bySource = left
        BY <2>5
      <4>2. PICK j \in DOMAIN st.pairs[p] : st.pairs[p][j] = pairs[p][i]
        BY <2>4, <4>1
      <4>3. pairs[p][i] # m /\ Distinct(pairs[p])
        BY <2>4, <4>1
      <4>4. st.pairs[p][j] \in DOMAIN st.bySource \ Direct /\ SenderOf[st.pairs[p][j]] = p
        BY DEF Sound, Indexed
      <4> QED BY <2>3, <4>1, <4>2, <4>3, <4>4 DEF Distinct
    <3> QED BY <3>1, <3>2, <3>3, <3>4 DEF Indexed
  <2>7. SameIds(new, st) /\ DOMAIN new.bySource = DOMAIN st.bySource \ {m}
    BY <2>3, <2>5
  <2> QED BY <2>1, <2>5, <2>6, <2>7 DEF Sound
<1> QED BY <1>1, <1>2

(* A message that is put is found under its source and its surrogate.       *)
LEMMA PutMessageFacts ==
  ASSUME NEW st, Sound(st), NEW e \in Entries
  PROVE  Sound(PutMessage(st, e)) /\ SameIds(PutMessage(st, e), st)
<1>1. PICK m \in Msgs, s \in Surrogates : e.source = m /\ e.surrogate = s
  BY DEF Entries
<1>2. PICK c : c = _remove_message_entry_locked(st, m)
  OBVIOUS
<1>3. /\ Engine(c) /\ Indexed(c) /\ SameIds(c, st)
      /\ DOMAIN c.bySource = DOMAIN st.bySource \ {m}
  BY <1>2, RemoveFacts DEF Sound
<1> DEFINE stored == PutAt(c.bySource, m, e)
           index == PutAt(c.bySurrogate, s, e)
           order == Append(RemoveFirst(c.pairs[SenderOf[m]], m), m)
           pairs == IF m \in Direct THEN c.pairs ELSE [c.pairs EXCEPT ![SenderOf[m]] = order]
           bare == Reindexed(c, stored, index, c.pairs)
           new == Reindexed(c, stored, index, pairs)
<1>4. c.pairs \in [Senders -> Seq(Msgs)] /\ SenderOf[m] \in Senders
  BY <1>3 DEF Engine, Senders
<1>5. \A p \in Senders : Distinct(c.pairs[p])
  BY <1>3 DEF Indexed, Distinct
<1>6. /\ DOMAIN stored = DOMAIN c.bySource \cup {m} /\ stored[m] = e
      /\ \A x \in DOMAIN c.bySource : stored[x] = c.bySource[x]
      /\ DOMAIN index = DOMAIN c.bySurrogate \cup {s} /\ index[s] = e
      /\ \A x \in DOMAIN index : x # s => x \in DOMAIN c.bySurrogate /\ index[x] = c.bySurrogate[x]
  BY <1>3 DEF PutAt
<1>7. /\ order \in Seq(Msgs) /\ Distinct(order)
      /\ \A i \in DOMAIN order :
           order[i] = m \/ \E j \in DOMAIN c.pairs[SenderOf[m]] : c.pairs[SenderOf[m]][j] = order[i]
  <2>1. PICK r : r = RemoveFirst(c.pairs[SenderOf[m]], m)
    OBVIOUS
  <2>2. /\ r \in Seq(Msgs) /\ Distinct(r)
        /\ \A i \in DOMAIN r :
             r[i] # m /\ \E j \in DOMAIN c.pairs[SenderOf[m]] : c.pairs[SenderOf[m]][j] = r[i]
    BY <1>4, <1>5, <2>1, RemoveFirstFacts
  <2>3. PICK o : o = Append(r, m)
    OBVIOUS
  <2>4. /\ o \in Seq(Msgs) /\ Len(o) = Len(r) + 1 /\ o[Len(o)] = m
        /\ \A i \in 1 .. Len(r) : o[i] = r[i]
    BY <2>2, <2>3
  <2>5. \A i \in DOMAIN o : (i \in DOMAIN r /\ o[i] = r[i]) \/ (i = Len(r) + 1 /\ o[i] = m)
    BY <2>2, <2>4
  <2>6. Distinct(o)
    <3> SUFFICES ASSUME NEW i \in DOMAIN o, NEW j \in DOMAIN o, o[i] = o[j] PROVE i = j
      BY DEF Distinct
    <3> QED BY <2>2, <2>5 DEF Distinct
  <2>7. order = o
    BY <2>1, <2>3
  <2> HIDE DEF order
  <2> QED BY <2>2, <2>4, <2>5, <2>6, <2>7
<1> HIDE DEF order, stored, index
<1>8. pairs \in [Senders -> Seq(Msgs)]
  BY <1>4, <1>7
<1>9. \A p \in Senders :
        pairs[p] = IF m \notin Direct /\ p = SenderOf[m] THEN order ELSE c.pairs[p]
  BY <1>4
<1> HIDE DEF pairs
<1>10. PutMessage(st, e) = new
  <2>1. /\ Engine(bare) /\ bare.pairs = c.pairs
    BY <1>3, <1>4, ReindexedFacts
  <2>2. bare = [c EXCEPT !.bySource = stored, !.bySurrogate = index]
    BY <1>3, <1>4 DEF Reindexed, Engine, Fields
  <2>3. PutMessage(st, e) = _index_latest_context_sender_locked(bare, m)
    BY <1>1, <1>2, <2>2 DEF PutMessage, stored, index
  <2>4. _index_latest_context_sender_locked(bare, m) =
          IF m \in Direct THEN bare
          ELSE [bare EXCEPT !.pairs = [c.pairs EXCEPT ![SenderOf[m]] = order]]
    BY <1>4, <2>1 DEF _index_latest_context_sender_locked, order
  <2>5. _index_latest_context_sender_locked(bare, m) = new
    BY <1>3, <2>4 DEF Reindexed, Engine, Fields, pairs
  <2> QED BY <2>3, <2>5
<1>11. /\ Engine(new) /\ SameIds(new, c)
       /\ new.bySource = stored /\ new.bySurrogate = index /\ new.pairs = pairs
  BY <1>3, <1>8, ReindexedFacts
<1> HIDE DEF new
<1>12. Indexed(new)
  <2>1. DOMAIN new.bySource \subseteq Msgs /\ IsFiniteSet(DOMAIN new.bySource)
    <3>1. IsFiniteSet(DOMAIN c.bySource \cup {m})
      BY <1>3, FS_AddElement DEF Indexed
    <3> QED BY <1>3, <1>6, <1>11, <3>1 DEF Indexed
  <2>2. \A x \in DOMAIN new.bySource : new.bySource[x] \in Entries /\ new.bySource[x].source = x
    BY <1>1, <1>3, <1>6, <1>11 DEF Indexed
  <2>3. ASSUME NEW x \in DOMAIN new.bySurrogate
        PROVE  LET f == new.bySurrogate[x]
               IN  f.surrogate = x /\ f.source \in DOMAIN new.bySource /\ new.bySource[f.source] = f
    <3>1. CASE x = s
      BY <1>1, <1>6, <1>11, <3>1
    <3>2. CASE x # s
      <4>1. x \in DOMAIN c.bySurrogate /\ new.bySurrogate[x] = c.bySurrogate[x]
        BY <1>6, <1>11, <3>2
      <4>2. PICK f : f = c.bySurrogate[x]
        OBVIOUS
      <4>3. f.surrogate = x /\ f.source \in DOMAIN c.bySource /\ c.bySource[f.source] = f
        BY <1>3, <4>1, <4>2 DEF Indexed
      <4> QED BY <1>6, <1>11, <4>1, <4>2, <4>3
    <3> QED BY <3>1, <3>2
  <2>4. ASSUME NEW p \in Senders, NEW i \in DOMAIN new.pairs[p]
        PROVE  /\ new.pairs[p][i] \in DOMAIN new.bySource \ Direct
               /\ SenderOf[new.pairs[p][i]] = p
               /\ \A j \in DOMAIN new.pairs[p] : new.pairs[p][i] = new.pairs[p][j] => i = j
    <3>1. \A j \in DOMAIN c.pairs[p] :
            c.pairs[p][j] \in DOMAIN new.bySource \ Direct /\ SenderOf[c.pairs[p][j]] = p
      BY <1>3, <1>6, <1>11 DEF Indexed
    <3>2. CASE m \notin Direct /\ p = SenderOf[m]
      <4>1. new.pairs[p] = order
        BY <1>9, <1>11, <3>2
      <4>2. m \in DOMAIN new.bySource
        BY <1>6, <1>11
      <4> QED BY <1>7, <3>1, <3>2, <4>1, <4>2 DEF Distinct
    <3>3. CASE ~(m \notin Direct /\ p = SenderOf[m])
      <4>1. new.pairs[p] = c.pairs[p]
        BY <1>9, <1>11, <3>3
      <4> QED BY <1>5, <3>1, <4>1 DEF Distinct
    <3> QED BY <3>2, <3>3
  <2> QED BY <2>1, <2>2, <2>3, <2>4 DEF Indexed
<1> QED BY <1>3, <1>10, <1>11, <1>12 DEF Sound, SameIds

(* So is every message of a sequence of them.                               *)
PuttingPreserves(base, entries, n, st) == Sound(st) /\ SameIds(st, base)
Puts == INSTANCE FoldTheorems WITH op <- PutMessage, P <- PuttingPreserves

LEMMA PutMessagesFacts ==
  ASSUME NEW st, Sound(st), NEW entries \in Seq(Entries)
  PROVE  Sound(PutMessages(st, entries)) /\ SameIds(PutMessages(st, entries), st)
<1>1. PuttingPreserves(st, entries, 0, st)
  BY DEF PuttingPreserves, SameIds
<1>2. ASSUME NEW i \in 1 .. Len(entries), NEW v, PuttingPreserves(st, entries, i - 1, v)
      PROVE  PuttingPreserves(st, entries, i, PutMessage(v, entries[i]))
  <2>1. entries[i] \in Entries
    OBVIOUS
  <2> QED BY <1>2, <2>1, PutMessageFacts DEF PuttingPreserves, SameIds
<1>3. PuttingPreserves(st, entries, Len(entries), Puts!Folded(st, entries))
  BY <1>1, <1>2, Puts!FoldInduction
<1>4. Puts!Folded(st, entries) = PutMessages(st, entries)
  BY DEF PutMessages, FoldLeft, MapThenFoldSet, Max,
         Puts!Folded, Puts!FoldLeft, Puts!MapThenFoldSet, Puts!Max
<1> QED BY <1>3, <1>4 DEF PuttingPreserves

-----------------------------------------------------------------------------
(* The window of mapped messages                                            *)

(* The mappings of one map are mappings of the other.                       *)
PartOf(f, g) == \A x \in DOMAIN f : x \in DOMAIN g /\ f[x] = g[x]

(* An engine whose maps of the message ids are replaced.                    *)
Remapped(st, c, f, r, o) ==
  [st EXCEPT !.counter = c, !.forward = f, !.reverse = r, !.order = o]

LEMMA RemappedFacts ==
  ASSUME NEW st, Sound(st), NEW c \in Nat, NEW o \in Seq(Msgs),
         NEW f, DOMAIN f \subseteq Msgs, f \in [DOMAIN f -> Surrogates],
         NEW r, DOMAIN r \subseteq Surrogates, r \in [DOMAIN r -> Msgs]
  PROVE  /\ Sound(Remapped(st, c, f, r, o))
         /\ Remapped(st, c, f, r, o).window = st.window
         /\ Remapped(st, c, f, r, o).counter = c
         /\ Remapped(st, c, f, r, o).forward = f
         /\ Remapped(st, c, f, r, o).reverse = r
         /\ Remapped(st, c, f, r, o).order = o
<1>1. /\ Engine(Remapped(st, c, f, r, o))
      /\ Remapped(st, c, f, r, o).window = st.window
      /\ Remapped(st, c, f, r, o).counter = c
      /\ Remapped(st, c, f, r, o).forward = f
      /\ Remapped(st, c, f, r, o).reverse = r
      /\ Remapped(st, c, f, r, o).order = o
      /\ Remapped(st, c, f, r, o).bySource = st.bySource
      /\ Remapped(st, c, f, r, o).bySurrogate = st.bySurrogate
      /\ Remapped(st, c, f, r, o).pairs = st.pairs
  BY DEF Sound, Remapped, Engine, Fields
<1>2. Indexed(Remapped(st, c, f, r, o))
  BY <1>1 DEF Sound, Indexed
<1> QED BY <1>1, <1>2 DEF Sound

(* Whether the maps agree depends on nothing else.                          *)
LEMMA SameIdsAgree ==
  ASSUME NEW a, NEW b, SameIds(a, b)
  PROVE  /\ Mapped(a) <=> Mapped(b)
         /\ Windowed(a) <=> Windowed(b)
  BY DEF SameIds, Mapped, Windowed

(* Without its first message, which loses its mapping, the window is one    *)
(* message smaller.                                                         *)
LEMMA ExpireFacts ==
  ASSUME NEW st, Sound(st), Len(st.order) > 0, NEW m \in Msgs
  PROVE  /\ Sound(Expire(st, m))
         /\ Expire(st, m).window = st.window /\ Expire(st, m).counter = st.counter
         /\ Len(Expire(st, m).order) = Len(st.order) - 1
         /\ \A i \in 1 .. Len(st.order) - 1 : Expire(st, m).order[i] = st.order[i + 1]
         /\ PartOf(Expire(st, m).reverse, st.reverse)
         /\ Mapped(st) /\ m = st.order[1] => Mapped(Expire(st, m))
<1> DEFINE known == m \in DOMAIN st.forward
           forward == IF known THEN Drop(st.forward, m) ELSE st.forward
           reverse == IF known THEN Drop(st.reverse, st.forward[m]) ELSE st.reverse
<1>1. /\ st.order \in Seq(Msgs) /\ st.counter \in Nat
      /\ DOMAIN st.forward \subseteq Msgs /\ st.forward \in [DOMAIN st.forward -> Surrogates]
      /\ DOMAIN st.reverse \subseteq Surrogates /\ st.reverse \in [DOMAIN st.reverse -> Msgs]
  BY DEF Sound, Engine
<1>2. /\ DOMAIN forward = DOMAIN st.forward \ {m}
      /\ \A x \in DOMAIN forward : forward[x] = st.forward[x]
      /\ forward \in [DOMAIN forward -> Surrogates]
  BY <1>1 DEF Drop, Restrict
<1>3. /\ DOMAIN reverse = IF known THEN DOMAIN st.reverse \ {st.forward[m]} ELSE DOMAIN st.reverse
      /\ \A x \in DOMAIN reverse : reverse[x] = st.reverse[x]
      /\ reverse \in [DOMAIN reverse -> Msgs]
  BY <1>1 DEF Drop, Restrict
<1>4. PICK o : o = Tail(st.order)
  OBVIOUS
<1>5. /\ o \in Seq(Msgs) /\ Len(o) = Len(st.order) - 1
      /\ \A i \in 1 .. Len(st.order) - 1 : o[i] = st.order[i + 1]
  BY <1>1, <1>4
<1> DEFINE bare == Remapped(st, st.counter, forward, reverse, o)
<1>6. Expire(st, m) = _remove_message_entry_locked(bare, m)
  <2>1. CASE known
    <3>1. [[st EXCEPT !.reverse = Drop(@, st.forward[m]), !.forward = Drop(@, m)]
             EXCEPT !.order = Tail(@)] = bare
      BY <1>4, <2>1 DEF Remapped, Sound, Engine, Fields
    <3> QED BY <2>1, <3>1 DEF Expire
  <2>2. CASE ~known
    <3>1. [st EXCEPT !.order = Tail(@)] = bare
      BY <1>4, <2>2 DEF Remapped, Sound, Engine, Fields
    <3> QED BY <2>2, <3>1 DEF Expire
  <2> QED BY <2>1, <2>2
<1> HIDE DEF forward, reverse
<1>7. /\ Sound(bare) /\ bare.window = st.window /\ bare.counter = st.counter
      /\ bare.forward = forward /\ bare.reverse = reverse /\ bare.order = o
  <2>1. DOMAIN forward \subseteq Msgs /\ DOMAIN reverse \subseteq Surrogates
    BY <1>1, <1>2, <1>3
  <2>2. PICK c, f, r : c \in Nat /\ c = st.counter /\ f = forward /\ r = reverse
    BY <1>1
  <2>3. /\ DOMAIN f \subseteq Msgs /\ f \in [DOMAIN f -> Surrogates]
        /\ DOMAIN r \subseteq Surrogates /\ r \in [DOMAIN r -> Msgs]
    BY <1>2, <1>3, <2>1, <2>2
  <2>4. /\ Sound(Remapped(st, c, f, r, o))
        /\ Remapped(st, c, f, r, o).window = st.window
        /\ Remapped(st, c, f, r, o).counter = c
        /\ Remapped(st, c, f, r, o).forward = f
        /\ Remapped(st, c, f, r, o).reverse = r
        /\ Remapped(st, c, f, r, o).order = o
    BY <1>5, <2>2, <2>3, RemappedFacts
  <2> QED BY <2>2, <2>4
<1> HIDE DEF bare
<1>8. Sound(Expire(st, m)) /\ SameIds(Expire(st, m), bare)
  BY <1>6, <1>7, RemoveFacts
<1>9. PartOf(reverse, st.reverse)
  BY <1>3 DEF PartOf
<1>10. ASSUME Mapped(st), m = st.order[1] PROVE Mapped(bare)
  <2>1. known /\ st.reverse[st.forward[m]] = m
    BY <1>1, <1>10 DEF Mapped
  <2>2. \A x \in DOMAIN bare.forward :
          bare.forward[x] \in DOMAIN bare.reverse /\ bare.reverse[bare.forward[x]] = x
    BY <1>2, <1>3, <1>7, <1>10, <2>1 DEF Mapped
  <2>3. \A s \in DOMAIN bare.reverse :
          /\ bare.reverse[s] \in DOMAIN bare.forward /\ bare.forward[bare.reverse[s]] = s
          /\ s <= bare.counter
    BY <1>2, <1>3, <1>7, <1>10, <2>1 DEF Mapped
  <2>4. \A i \in DOMAIN o : /\ i \in 1 .. Len(st.order) - 1 /\ i + 1 \in DOMAIN st.order
                            /\ o[i] = st.order[i + 1]
    BY <1>1, <1>5
  <2>5. 1 \in DOMAIN st.order
    BY <1>1
  <2>6. ASSUME NEW i \in DOMAIN o
        PROVE  o[i] \in DOMAIN forward /\ \A j \in DOMAIN o : o[i] = o[j] => i = j
    <3>1. o[i] \in DOMAIN st.forward /\ o[i] # m
      BY <1>10, <2>4, <2>5 DEF Mapped
    <3>2. \A j \in DOMAIN o : o[i] = o[j] => i + 1 = j + 1
      BY <1>10, <2>4 DEF Mapped
    <3> QED BY <1>2, <2>4, <3>1, <3>2
  <2>7. ASSUME NEW x \in DOMAIN forward PROVE \E i \in DOMAIN o : o[i] = x
    <3>1. PICK i \in DOMAIN st.order : st.order[i] = x
      BY <1>2, <1>10 DEF Mapped
    <3>2. i # 1
      BY <1>2, <1>10, <3>1
    <3>3. i - 1 \in DOMAIN o /\ o[i - 1] = st.order[i]
      BY <1>1, <1>5, <3>1, <3>2
    <3> QED BY <3>1, <3>3
  <2> QED BY <1>7, <2>2, <2>3, <2>6, <2>7 DEF Mapped
<1> QED BY <1>5, <1>7, <1>8, <1>9, <1>10, SameIdsAgree DEF SameIds

(* Trimming leaves a window of the right size; what is left is unchanged.   *)
TrimmedBy(base, expired, n, st) ==
  /\ Sound(st) /\ st.window = base.window /\ st.counter = base.counter
  /\ Len(st.order) = Len(base.order) - n
  /\ \A i \in 1 .. Len(base.order) - n : st.order[i] = base.order[i + n]
  /\ PartOf(st.reverse, base.reverse)
  /\ Mapped(base) => Mapped(st)
Trims == INSTANCE FoldTheorems WITH op <- Expire, P <- TrimmedBy

LEMMA TrimFacts ==
  ASSUME NEW st, Sound(st)
  PROVE  /\ Sound(_trim_message_window_locked(st))
         /\ _trim_message_window_locked(st).window = st.window
         /\ _trim_message_window_locked(st).counter = st.counter
         /\ PartOf(_trim_message_window_locked(st).reverse, st.reverse)
         /\ Mapped(st) => Windowed(_trim_message_window_locked(st))
<1>1. st.order \in Seq(Msgs) /\ st.window \in Nat /\ Len(st.order) \in Nat
  BY DEF Sound, Engine, Surrogates
<1>2. PICK expired : expired = SubSeq(st.order, 1, Len(st.order) - st.window)
  OBVIOUS
<1>3. /\ expired \in Seq(Msgs)
      /\ Len(expired) = IF Len(st.order) > st.window THEN Len(st.order) - st.window ELSE 0
      /\ \A i \in 1 .. Len(expired) : expired[i] = st.order[i]
  BY <1>1, <1>2
<1>4. TrimmedBy(st, expired, 0, st)
  BY <1>1 DEF TrimmedBy, PartOf
<1>5. ASSUME NEW i \in 1 .. Len(expired), NEW v, TrimmedBy(st, expired, i - 1, v)
      PROVE  TrimmedBy(st, expired, i, Expire(v, expired[i]))
  <2>1. /\ Sound(v) /\ Len(v.order) > 0 /\ expired[i] \in Msgs /\ v.order[1] = expired[i]
    <3>1. i \in Nat /\ i - 1 < Len(st.order) /\ 1 \in 1 .. Len(st.order) - (i - 1)
      BY <1>1, <1>3
    <3>2. v.order[1] = st.order[1 + (i - 1)]
      BY <1>5, <3>1 DEF TrimmedBy
    <3> QED BY <1>1, <1>3, <1>5, <3>1, <3>2 DEF TrimmedBy
  <2>2. PICK w : w = Expire(v, expired[i])
    OBVIOUS
  <2>3. /\ Sound(w) /\ w.window = v.window /\ w.counter = v.counter
        /\ Len(w.order) = Len(v.order) - 1
        /\ \A j \in 1 .. Len(v.order) - 1 : w.order[j] = v.order[j + 1]
        /\ PartOf(w.reverse, v.reverse)
        /\ Mapped(v) => Mapped(w)
    BY <2>1, <2>2, ExpireFacts
  <2>4. Len(w.order) = Len(st.order) - i
    BY <1>1, <1>5, <2>3 DEF TrimmedBy
  <2>5. ASSUME NEW j \in 1 .. Len(st.order) - i PROVE w.order[j] = st.order[j + i]
    <3>1. /\ j \in 1 .. Len(v.order) - 1 /\ j + 1 \in 1 .. Len(st.order) - (i - 1)
          /\ (j + 1) + (i - 1) = j + i
      BY <1>1, <1>5 DEF TrimmedBy
    <3> QED BY <1>5, <2>3, <3>1 DEF TrimmedBy
  <2> QED BY <1>5, <2>2, <2>3, <2>4, <2>5 DEF TrimmedBy, PartOf
<1>6. TrimmedBy(st, expired, Len(expired), Trims!Folded(st, expired))
  BY <1>3, <1>4, <1>5, Trims!FoldInduction
<1>7. Trims!Folded(st, expired) = _trim_message_window_locked(st)
  BY <1>2 DEF _trim_message_window_locked, FoldLeft, MapThenFoldSet, Max,
              Trims!Folded, Trims!FoldLeft, Trims!MapThenFoldSet, Trims!Max
<1>8. TrimmedBy(st, expired, Len(expired), _trim_message_window_locked(st))
  BY <1>6, <1>7
<1> QED BY <1>1, <1>3, <1>8 DEF TrimmedBy, Windowed

LEMMA LargerIs ==
  ASSUME NEW a \in Nat, NEW b \in Nat
  PROVE  Max({a, b}) = IF a >= b THEN a ELSE b
<1>1. \E x \in {a, b} : \A y \in {a, b} : x >= y
  OBVIOUS
<1>2. Max({a, b}) \in {a, b} /\ \A y \in {a, b} : Max({a, b}) >= y
  BY <1>1 DEF Max
<1>3. PICK x \in {a, b} : x = Max({a, b}) /\ x >= a /\ x >= b
  BY <1>2
<1> QED BY <1>3

(* A message is mapped to a surrogate that has no other message: the maps    *)
(* agree as before, and at most that one mapping is new.                    *)
LEMMA MapMessageFacts ==
  ASSUME NEW st, Sound(st), NEW m \in Msgs, NEW s \in Surrogates
  PROVE  /\ Sound(MapMessage(st, m, s))
         /\ MapMessage(st, m, s).window = st.window
         /\ MapMessage(st, m, s).counter = IF m \notin DOMAIN st.forward /\ s > st.counter
                                             THEN s ELSE st.counter
         /\ \A x \in DOMAIN MapMessage(st, m, s).reverse :
              \/ x \in DOMAIN st.reverse /\ MapMessage(st, m, s).reverse[x] = st.reverse[x]
              \/ x = s /\ m \notin DOMAIN st.forward /\ MapMessage(st, m, s).reverse[x] = m
         /\ Windowed(st) /\ (s \in DOMAIN st.reverse => st.reverse[s] = m)
              => Windowed(MapMessage(st, m, s))
<1>1. CASE m \in DOMAIN st.forward
  BY <1>1 DEF MapMessage
<1>2. CASE m \notin DOMAIN st.forward
  <2>1. /\ st.order \in Seq(Msgs) /\ st.counter \in Nat /\ s \in Nat /\ st.window \in Nat
        /\ DOMAIN st.forward \subseteq Msgs /\ st.forward \in [DOMAIN st.forward -> Surrogates]
        /\ DOMAIN st.reverse \subseteq Surrogates /\ st.reverse \in [DOMAIN st.reverse -> Msgs]
    BY DEF Sound, Engine, Surrogates
  <2>2. PICK c \in Nat : c = Max({st.counter, s}) /\ c = IF s > st.counter THEN s ELSE st.counter
    <3>1. /\ Max({st.counter, s}) = IF st.counter >= s THEN st.counter ELSE s
          /\ st.counter \in Nat /\ s \in Nat
      BY <2>1, LargerIs
    <3>2. (IF st.counter >= s THEN st.counter ELSE s) = IF s > st.counter THEN s ELSE st.counter
      BY <3>1
    <3>3. (IF s > st.counter THEN s ELSE st.counter) \in Nat
      BY <3>1
    <3> QED BY <3>1, <3>2, <3>3
  <2>3. PICK f : f = PutAt(st.forward, m, s)
    OBVIOUS
  <2>4. /\ DOMAIN f = DOMAIN st.forward \cup {m} /\ f[m] = s
        /\ \A x \in DOMAIN st.forward : f[x] = st.forward[x]
        /\ DOMAIN f \subseteq Msgs /\ f \in [DOMAIN f -> Surrogates]
    BY <1>2, <2>1, <2>3 DEF PutAt
  <2>5. PICK r : r = PutAt(st.reverse, s, m)
    OBVIOUS
  <2>6. /\ DOMAIN r = DOMAIN st.reverse \cup {s} /\ r[s] = m
        /\ \A x \in DOMAIN r : x # s => x \in DOMAIN st.reverse /\ r[x] = st.reverse[x]
        /\ DOMAIN r \subseteq Surrogates /\ r \in [DOMAIN r -> Msgs]
    BY <2>1, <2>5 DEF PutAt
  <2>7. PICK o : o = Append(st.order, m)
    OBVIOUS
  <2>8. /\ o \in Seq(Msgs) /\ Len(o) = Len(st.order) + 1 /\ o[Len(o)] = m
        /\ \A i \in 1 .. Len(st.order) : o[i] = st.order[i]
    BY <2>1, <2>7
  <2>9. PICK new : new = Remapped(st, c, f, r, o)
    OBVIOUS
  <2>10. MapMessage(st, m, s) = _trim_message_window_locked(new)
    <3>1. [st EXCEPT !.counter = Max({@, s}), !.forward = PutAt(@, m, s),
                     !.reverse = PutAt(@, s, m), !.order = Append(@, m)] = new
      BY <2>2, <2>3, <2>5, <2>7, <2>9 DEF Remapped, Sound, Engine, Fields
    <3> QED BY <1>2, <3>1 DEF MapMessage
  <2>11. /\ Sound(new) /\ new.window = st.window /\ new.counter = c
         /\ new.forward = f /\ new.reverse = r /\ new.order = o
    BY <2>4, <2>6, <2>8, <2>9, RemappedFacts
  <2>12. PICK t : t = MapMessage(st, m, s)
    OBVIOUS
  <2>13. /\ Sound(t) /\ t.window = st.window /\ t.counter = c /\ PartOf(t.reverse, r)
         /\ Mapped(new) => Windowed(t)
    BY <2>10, <2>11, <2>12, TrimFacts
  <2>14. ASSUME Windowed(st), s \in DOMAIN st.reverse => st.reverse[s] = m PROVE Mapped(new)
    <3>1. Mapped(st) /\ s \notin DOMAIN st.reverse
      BY <1>2, <2>14 DEF Windowed, Mapped
    <3>2. \A x \in DOMAIN f : f[x] \in DOMAIN r /\ r[f[x]] = x
      <4> SUFFICES ASSUME NEW x \in DOMAIN f PROVE f[x] \in DOMAIN r /\ r[f[x]] = x
        OBVIOUS
      <4>1. CASE x = m
        BY <2>4, <2>6, <4>1
      <4>2. CASE x # m
        <5>1. x \in DOMAIN st.forward /\ f[x] = st.forward[x]
          BY <2>4, <4>2
        <5>2. st.forward[x] \in DOMAIN st.reverse /\ st.reverse[st.forward[x]] = x
          BY <3>1, <5>1 DEF Mapped
        <5> QED BY <2>6, <3>1, <5>1, <5>2
      <4> QED BY <4>1, <4>2
    <3>3. \A x \in DOMAIN r : r[x] \in DOMAIN f /\ f[r[x]] = x /\ x <= c
      <4> SUFFICES ASSUME NEW x \in DOMAIN r PROVE r[x] \in DOMAIN f /\ f[r[x]] = x /\ x <= c
        OBVIOUS
      <4>0. s <= c /\ st.counter <= c /\ st.counter \in Nat
        <5>1. PICK n \in Nat : n = st.counter
          BY <2>1
        <5>2. c = IF s > n THEN s ELSE n
          BY <2>2, <5>1
        <5>3. s \in Nat /\ n \in Nat
          BY <2>1
        <5>4. s <= c /\ n <= c
          BY <5>2, <5>3
        <5> QED BY <5>1, <5>4
      <4>1. CASE x = s
        BY <2>4, <2>6, <4>0, <4>1
      <4>2. CASE x # s
        <5>1. /\ x \in DOMAIN st.reverse /\ r[x] = st.reverse[x]
          BY <2>6, <4>2
        <5>2. /\ st.reverse[x] \in DOMAIN st.forward /\ st.forward[st.reverse[x]] = x
              /\ x <= st.counter /\ x \in Nat
          BY <2>1, <3>1, <5>1 DEF Mapped, Surrogates
        <5>3. x <= c
          BY <2>2, <4>0, <5>2
        <5> QED BY <2>4, <5>1, <5>2, <5>3
      <4> QED BY <4>1, <4>2
    <3>4. \A i \in DOMAIN o : \/ i \in DOMAIN st.order /\ o[i] = st.order[i]
                              \/ i = Len(st.order) + 1 /\ o[i] = m
      BY <2>1, <2>8
    <3>5. \A i \in DOMAIN st.order : st.order[i] \in DOMAIN st.forward
      BY <3>1 DEF Mapped
    <3>6. \A i \in DOMAIN o : o[i] \in DOMAIN f
      BY <2>4, <3>4, <3>5
    <3>0. \A u \in DOMAIN st.order : u \in DOMAIN o /\ o[u] = st.order[u]
      <4> PICK n \in Nat : n = Len(st.order)
        BY <2>1
      <4>1. DOMAIN st.order = 1 .. n /\ DOMAIN o = 1 .. n + 1
        BY <2>1, <2>8
      <4> QED BY ONLY <2>8, <4>1, n \in Nat, n = Len(st.order)
    <3>7. \A i, j \in DOMAIN o : o[i] = o[j] => i = j
      <4> SUFFICES ASSUME NEW i \in DOMAIN o, NEW j \in DOMAIN o, o[i] = o[j] PROVE i = j
        OBVIOUS
      <4>1. CASE i \in DOMAIN st.order /\ j \in DOMAIN st.order
        <5>1. st.order[i] = st.order[j]
          BY <3>0, <4>1
        <5> QED BY <3>1, <4>1, <5>1 DEF Mapped
      <4>2. CASE ~(i \in DOMAIN st.order /\ j \in DOMAIN st.order)
        <5>1. \A u \in DOMAIN st.order : st.order[u] # m
          BY <1>2, <3>5, Zenon
        <5>2. /\ \/ i \in DOMAIN st.order /\ o[i] = st.order[i]
                 \/ i = Len(st.order) + 1 /\ o[i] = m
              /\ \/ j \in DOMAIN st.order /\ o[j] = st.order[j]
                 \/ j = Len(st.order) + 1 /\ o[j] = m
          BY <3>4, Zenon
        <5>3. PICK e : e = Len(st.order) + 1
          OBVIOUS
        <5>4. o[i] = o[j]
          OBVIOUS
        <5>5. CASE i \in DOMAIN st.order
          BY ONLY <4>2, <5>1, <5>2, <5>3, <5>4, <5>5
        <5>6. CASE j \in DOMAIN st.order
          BY ONLY <4>2, <5>1, <5>2, <5>3, <5>4, <5>6
        <5> QED BY ONLY <5>2, <5>3, <5>5, <5>6
      <4> QED BY <4>1, <4>2
    <3>8. ASSUME NEW x \in DOMAIN f PROVE \E i \in DOMAIN o : o[i] = x
      <4>1. CASE x = m
        <5>1. Len(o) \in DOMAIN o
          BY <2>1, <2>8
        <5> QED BY <2>8, <4>1, <5>1
      <4>2. CASE x # m
        <5>1. PICK i \in DOMAIN st.order : st.order[i] = x
          BY <2>4, <3>1, <4>2 DEF Mapped
        <5> QED BY <3>0, <5>1
      <4> QED BY <4>1, <4>2
    <3>9. /\ \A x \in DOMAIN new.forward :
               new.forward[x] \in DOMAIN new.reverse /\ new.reverse[new.forward[x]] = x
          /\ \A x \in DOMAIN new.reverse :
               /\ new.reverse[x] \in DOMAIN new.forward /\ new.forward[new.reverse[x]] = x
               /\ x <= new.counter
      BY <2>11, <3>2, <3>3
    <3>10. /\ \A i \in DOMAIN new.order :
                /\ new.order[i] \in DOMAIN new.forward
                /\ \A j \in DOMAIN new.order : new.order[i] = new.order[j] => i = j
           /\ \A x \in DOMAIN new.forward : \E i \in DOMAIN new.order : new.order[i] = x
      BY <2>11, <3>6, <3>7, <3>8
    <3> QED BY <3>9, <3>10 DEF Mapped
  <2>15. \A x \in DOMAIN t.reverse :
           \/ x \in DOMAIN st.reverse /\ t.reverse[x] = st.reverse[x]
           \/ x = s /\ t.reverse[x] = m
    BY <2>6, <2>13 DEF PartOf
  <2>16. t.window = st.window /\ t.counter = IF s > st.counter THEN s ELSE st.counter
    BY <2>2, <2>13
  <2>17. Windowed(st) /\ (s \in DOMAIN st.reverse => st.reverse[s] = m) => Windowed(t)
    BY <2>13, <2>14
  <2> QED BY <1>2, <2>12, <2>13, <2>15, <2>16, <2>17
<1> QED BY <1>1, <1>2

(* The counter gives a surrogate no message has.                            *)
LEMMA AllocateFacts ==
  ASSUME NEW st, Sound(st), NEW m \in Msgs
  PROVE  /\ Sound(Allocate(st, m))
         /\ Allocate(st, m).window = st.window
         /\ Allocate(st, m).counter = IF m \notin DOMAIN st.forward THEN st.counter + 1
                                                                    ELSE st.counter
         /\ \A x \in DOMAIN Allocate(st, m).reverse :
              \/ x \in DOMAIN st.reverse /\ Allocate(st, m).reverse[x] = st.reverse[x]
              \/ /\ x = st.counter + 1 /\ m \notin DOMAIN st.forward
                 /\ Allocate(st, m).reverse[x] = m
         /\ m \in DOMAIN st.forward => Allocate(st, m) = st
         /\ Windowed(st) => Windowed(Allocate(st, m))
<1>1. PICK s : s = st.counter + 1
  OBVIOUS
<1>2. st.counter \in Nat /\ s \in Surrogates /\ s > st.counter
  BY <1>1 DEF Sound, Engine, Surrogates
<1>3. Windowed(st) => s \notin DOMAIN st.reverse
  <2> SUFFICES ASSUME Windowed(st), s \in DOMAIN st.reverse PROVE FALSE
    OBVIOUS
  <2>1. s <= st.counter
    BY DEF Windowed, Mapped
  <2> QED BY <1>1, <1>2, <2>1
<1>4. Allocate(st, m) = MapMessage(st, m, s)
  BY <1>1 DEF Allocate
<1>5. PICK t : t = MapMessage(st, m, s)
  OBVIOUS
<1>6. /\ Sound(t) /\ t.window = st.window
      /\ t.counter = IF m \notin DOMAIN st.forward /\ s > st.counter THEN s ELSE st.counter
      /\ \A x \in DOMAIN t.reverse :
           \/ x \in DOMAIN st.reverse /\ t.reverse[x] = st.reverse[x]
           \/ x = s /\ m \notin DOMAIN st.forward /\ t.reverse[x] = m
      /\ Windowed(st) /\ (s \in DOMAIN st.reverse => st.reverse[s] = m) => Windowed(t)
  BY <1>2, <1>5, MapMessageFacts
<1>7. m \in DOMAIN st.forward => t = st
  BY <1>5 DEF MapMessage
<1> QED BY <1>1, <1>2, <1>3, <1>4, <1>5, <1>6, <1>7

LEMMA ResizedFacts ==
  ASSUME NEW st, Sound(st), NEW w \in Surrogates
  PROVE  /\ Sound(Resized(st, w)) /\ Resized(st, w).counter = st.counter
         /\ PartOf(Resized(st, w).reverse, st.reverse)
         /\ Mapped(st) => Windowed(Resized(st, w))
<1>1. PICK new : new = [st EXCEPT !.window = w]
  OBVIOUS
<1>2. /\ Engine(new) /\ new.counter = st.counter /\ new.forward = st.forward
      /\ new.reverse = st.reverse /\ new.order = st.order /\ new.bySource = st.bySource
      /\ new.bySurrogate = st.bySurrogate /\ new.pairs = st.pairs
  BY <1>1 DEF Sound, Engine, Fields
<1>3. Sound(new) /\ (Mapped(st) => Mapped(new))
  BY <1>2 DEF Sound, Indexed, Mapped
<1>4. Resized(st, w) = _trim_message_window_locked(new)
  BY <1>1 DEF Resized
<1> QED BY <1>2, <1>3, <1>4, TrimFacts

LEMMA BindFacts ==
  ASSUME NEW st, Sound(st), NEW b
  PROVE  /\ Sound(BindPrivate(st, b)) /\ SameIds(BindPrivate(st, b), st)
         /\ Sound(BindContext(st, b)) /\ SameIds(BindContext(st, b), st)
<1>1. PICK p : p = [st EXCEPT !.private = b]
  OBVIOUS
<1>2. /\ Engine(p) /\ SameIds(p, st) /\ p.bySource = st.bySource
      /\ p.bySurrogate = st.bySurrogate /\ p.pairs = st.pairs
  BY <1>1 DEF Sound, Engine, Fields, SameIds
<1>3. PICK c : c = [st EXCEPT !.context = b]
  OBVIOUS
<1>4. /\ Engine(c) /\ SameIds(c, st) /\ c.bySource = st.bySource
      /\ c.bySurrogate = st.bySurrogate /\ c.pairs = st.pairs
  BY <1>3 DEF Sound, Engine, Fields, SameIds
<1>5. Sound(p) /\ Sound(c)
  BY <1>2, <1>4 DEF Sound, Indexed
<1>6. Sound(BindPrivate(st, b)) /\ SameIds(BindPrivate(st, b), st)
  BY <1>1, <1>2, <1>5 DEF BindPrivate
<1>7. SameIds(st, st)
  BY DEF SameIds
<1>8. Sound(BindContext(st, b)) /\ SameIds(BindContext(st, b), st)
  BY <1>3, <1>4, <1>5, <1>7 DEF BindContext
<1> QED BY <1>6, <1>8

-----------------------------------------------------------------------------
(* Mutations and their replay                                               *)

Ordered(s, S, key) ==
  /\ \A m \in S : \E i \in DOMAIN s : s[i] = m
  /\ \A i, j \in DOMAIN s : i < j => key[s[i]] <= key[s[j]]

(* The members of a finite set can be put in the order of their keys.       *)
LEMMA InOrderFacts ==
  ASSUME NEW S, IsFiniteSet(S), NEW key, \A m \in S : key[m] \in Nat
  PROVE  /\ Cardinality(S) \in Nat
         /\ InOrder(S, key) \in [1 .. Cardinality(S) -> S]
<1> DEFINE Bad == {n \in Nat : \E T \in SUBSET S : /\ Cardinality(T) = n
                                                   /\ ~\E s \in [1 .. n -> T] : Ordered(s, T, key)}
<1>1. Cardinality(S) \in Nat
  BY FS_CardinalityType
<1>2. ASSUME Bad # {} PROVE FALSE
  <2>1. PICK n \in Bad : \A k \in Bad : ~(k < n)
    <3>1. Bad \subseteq Nat
      OBVIOUS
    <3> HIDE DEF Bad
    <3> QED BY <1>2, <3>1, LeastNat
  <2>2. PICK T \in SUBSET S : /\ Cardinality(T) = n
                              /\ ~\E s \in [1 .. n -> T] : Ordered(s, T, key)
    OBVIOUS
  <2>3. IsFiniteSet(T) /\ n \in Nat
    BY FS_Subset
  <2>4. CASE T = {}
    <3>1. n = 0
      BY <2>2, <2>4, FS_EmptySet
    <3> DEFINE s == [i \in 1 .. 0 |-> i]
    <3>2. s \in [1 .. n -> T] /\ DOMAIN s = {}
      BY <3>1
    <3>3. Ordered(s, T, key)
      <4> HIDE DEF s
      <4> QED BY <2>4, <3>2 DEF Ordered
    <3> QED BY <2>2, <3>2, <3>3
  <2>5. CASE T # {}
    <3>1. PICK m \in T : \A x \in T : key[m] <= key[x]
      <4> DEFINE K == {key[x] : x \in T}
      <4>1. K \subseteq Nat /\ K # {}
        BY <2>5
      <4>2. PICK k \in K : \A l \in K : ~(l < k)
        <5> HIDE DEF K
        <5> QED BY <4>1, LeastNat
      <4>3. PICK m \in T : key[m] = k
        OBVIOUS
      <4>4. ASSUME NEW x \in T PROVE key[m] <= key[x]
        <5>1. key[x] \in K /\ key[x] \in Nat /\ key[m] \in Nat
          OBVIOUS
        <5> HIDE DEF K
        <5> QED BY <4>2, <4>3, <5>1
      <4> QED BY <4>4
    <3>2. PICK R \in SUBSET S : R = T \ {m}
      OBVIOUS
    <3>3. Cardinality(R) = n - 1
      BY <2>2, <2>3, <3>2, FS_RemoveElement
    <3>4. n - 1 \in Nat /\ n - 1 < n
      <4>1. Cardinality(R) \in Nat
        BY <2>3, <3>2, FS_RemoveElement, FS_CardinalityType
      <4> QED BY <2>3, <3>3, <4>1
    <3>5. n - 1 \notin Bad
      <4> HIDE DEF Bad
      <4> QED BY <2>1, <3>4
    <3>6. PICK r \in [1 .. n - 1 -> R] : Ordered(r, R, key)
      BY <3>3, <3>4, <3>5
    <3> DEFINE s == [i \in 1 .. n |-> IF i = 1 THEN m ELSE r[i - 1]]
    <3>7. \A i \in 1 .. n : i # 1 => i - 1 \in 1 .. n - 1 /\ r[i - 1] \in R
      BY <2>3, <3>4
    <3>8. /\ s \in [1 .. n -> T] /\ 1 \in 1 .. n /\ s[1] = m
          /\ \A i \in 1 .. n : i # 1 => s[i] = r[i - 1]
      BY <2>3, <3>2, <3>4, <3>7
    <3> HIDE DEF s
    <3>9. ASSUME NEW x \in T PROVE \E i \in DOMAIN s : s[i] = x
      <4>1. CASE x = m
        BY <3>8, <4>1
      <4>2. CASE x # m
        <5>1. PICK i \in 1 .. n - 1 : r[i] = x
          BY <3>2, <3>6, <4>2 DEF Ordered
        <5>2. i + 1 \in 1 .. n /\ i + 1 # 1 /\ (i + 1) - 1 = i
          BY <2>3, <3>4
        <5> QED BY <3>8, <5>1, <5>2
      <4> QED BY <4>1, <4>2
    <3>10. ASSUME NEW i \in DOMAIN s, NEW j \in DOMAIN s, i < j
           PROVE  key[s[i]] <= key[s[j]]
      <4>1. i \in 1 .. n /\ j \in 1 .. n /\ j # 1 /\ s[j] \in T
        BY <2>3, <3>8, <3>10
      <4>2. CASE i = 1
        BY <3>1, <3>8, <4>1, <4>2
      <4>3. CASE i # 1
        <5>1. i - 1 \in DOMAIN r /\ j - 1 \in DOMAIN r /\ i - 1 < j - 1
          BY <2>3, <3>7, <3>10, <4>1, <4>3
        <5>2. key[r[i - 1]] <= key[r[j - 1]]
          BY <3>6, <5>1 DEF Ordered
        <5> QED BY <3>8, <4>1, <4>3, <5>2
      <4> QED BY <4>2, <4>3
    <3>11. Ordered(s, T, key)
      BY <3>9, <3>10 DEF Ordered
    <3> QED BY <2>2, <3>8, <3>11
  <2> QED BY <2>4, <2>5
<1>3. \E s \in [1 .. Cardinality(S) -> S] : Ordered(s, S, key)
  BY <1>1, <1>2
<1>4. InOrder(S, key) = CHOOSE s \in [1 .. Cardinality(S) -> S] : Ordered(s, S, key)
  BY DEF InOrder, Ordered
<1> HIDE DEF Bad
<1> QED BY <1>1, <1>3, <1>4

(* Building the indexes anew leaves the maps of the message ids alone.      *)
LEMMA RebuildFacts ==
  ASSUME NEW st, Sound(st), NEW active, \A m \in DOMAIN active : active[m] \in Surrogates
  PROVE  /\ Sound(_apply_message_rebuild(st, active))
         /\ SameIds(_apply_message_rebuild(st, active), st)
<1>1. PICK S : S = DOMAIN st.bySource \cap DOMAIN active
  OBVIOUS
<1>2. /\ S \subseteq Msgs /\ IsFiniteSet(S)
      /\ \A m \in S : active[m] \in Surrogates /\ active[m] \in Nat
  <2>1. IsFiniteSet(DOMAIN st.bySource) /\ DOMAIN st.bySource \subseteq Msgs
    BY DEF Sound, Indexed
  <2>2. IsFiniteSet(S)
    BY <1>1, <2>1, FS_Subset
  <2> QED BY <1>1, <2>1, <2>2 DEF Surrogates
<1>3. PICK kept : kept = InOrder(S, active)
  OBVIOUS
<1>4. Cardinality(S) \in Nat /\ kept \in [1 .. Cardinality(S) -> S]
  BY <1>2, <1>3, InOrderFacts
<1>5. PICK entries : entries = [i \in DOMAIN kept |->
                                  [source |-> kept[i], surrogate |-> active[kept[i]]]]
  OBVIOUS
<1>6. entries \in Seq(Entries)
  <2>1. entries \in [1 .. Cardinality(S) -> Entries]
    BY <1>2, <1>4, <1>5 DEF Entries
  <2> QED BY <1>4, <2>1
<1>7. PICK none : none = [s \in Senders |-> <<>>]
  OBVIOUS
<1>8. none \in [Senders -> Seq(Msgs)] /\ \A p \in Senders : DOMAIN none[p] = {}
  BY <1>7
<1>9. PICK bare : bare = Reindexed(st, Nothing, Nothing, none)
  OBVIOUS
<1>10. /\ Engine(bare) /\ SameIds(bare, st) /\ bare.bySource = Nothing
       /\ bare.bySurrogate = Nothing /\ bare.pairs = none
  BY <1>8, <1>9, ReindexedFacts DEF Sound
<1>11. Indexed(bare)
  <2>1. DOMAIN Nothing = {} /\ IsFiniteSet({})
    BY FS_EmptySet DEF Nothing
  <2> QED BY <1>8, <1>10, <2>1 DEF Indexed
<1>12. _apply_message_rebuild(st, active) = PutMessages(bare, entries)
  BY <1>1, <1>3, <1>5, <1>7, <1>9 DEF _apply_message_rebuild, Reindexed
<1> QED BY <1>6, <1>10, <1>11, <1>12, PutMessagesFacts DEF Sound, SameIds

(* What one record does. Only an id_put touches the maps of the ids.        *)
LEMMA RecordFacts ==
  ASSUME NEW st, Sound(st), NEW x, IsMutation(x)
  PROVE  /\ Sound(_apply_record(st, x))
         /\ _apply_record(st, x).window = st.window
         /\ \/ _apply_record(st, x).counter = st.counter
            \/ x.op = "id_put" /\ _apply_record(st, x).counter = x.surrogate
         /\ \A s \in DOMAIN _apply_record(st, x).reverse :
              \/ s \in DOMAIN st.reverse /\ _apply_record(st, x).reverse[s] = st.reverse[s]
              \/ x.op = "id_put" /\ s = x.surrogate /\ _apply_record(st, x).reverse[s] = x.source
         /\ /\ Windowed(st)
            /\ x.op = "id_put" => (x.surrogate \in DOMAIN st.reverse =>
                                     st.reverse[x.surrogate] = x.source)
            => Windowed(_apply_record(st, x))
<1>1. CASE x.op = "id_put"
  <2>1. _apply_record(st, x) = MapMessage(st, x.source, x.surrogate)
    BY <1>1 DEF _apply_record, _apply_id_put
  <2>2. x.source \in Msgs /\ x.surrogate \in Surrogates
    BY <1>1 DEF IsMutation
  <2> QED BY <1>1, <2>1, <2>2, MapMessageFacts
<1>2. CASE x.op # "id_put"
  <2>1. Sound(_apply_record(st, x)) /\ SameIds(_apply_record(st, x), st)
    <3>1. CASE x.op = "message_put"
      <4>1. _apply_record(st, x) = PutMessage(st, x.entry) /\ x.entry \in Entries
        BY <3>1 DEF _apply_record, IsMutation
      <4> QED BY <4>1, PutMessageFacts
    <3>2. CASE x.op = "private_bind"
      <4>1. _apply_record(st, x) = BindPrivate(st, x.room)
        BY <3>2 DEF _apply_record
      <4> QED BY <4>1, BindFacts
    <3>3. CASE x.op = "context_bind"
      <4>1. _apply_record(st, x) = BindContext(st, x.entry)
        BY <3>3 DEF _apply_record
      <4> QED BY <4>1, BindFacts
    <3>4. CASE x.op = "message_rebuild"
      <4>1. /\ _apply_record(st, x) = _apply_message_rebuild(st, x.active)
            /\ \A m \in DOMAIN x.active : x.active[m] \in Surrogates
        BY <3>4 DEF _apply_record, IsMutation
      <4> QED BY <4>1, RebuildFacts
    <3> QED BY <1>2, <3>1, <3>2, <3>3, <3>4 DEF IsMutation
  <2> QED BY <1>2, <2>1, SameIdsAgree DEF SameIds
<1> QED BY <1>1, <1>2

-----------------------------------------------------------------------------
(* Batches                                                                  *)

LEMMA BatchSeq ==
  ASSUME NEW b, IsBatch(b)
  PROVE  /\ DOMAIN b = 1 .. Len(b) /\ Len(b) \in Nat
         /\ b \in Seq({b[i] : i \in 1 .. Len(b)})
<1>1. PICK n : n = Len(b)
  OBVIOUS
<1>2. b = [i \in 1 .. n |-> b[i]] /\ n \in Nat
  BY <1>1 DEF IsBatch
<1>3. b \in [1 .. n -> {b[i] : i \in 1 .. n}]
  BY <1>2
<1>4. b \in Seq({b[i] : i \in 1 .. n})
  BY <1>2, <1>3
<1> QED BY <1>1, <1>2, <1>4

(* A batch is a sequence over any set that has all its mutations.           *)
LEMMA SeqBatch ==
  ASSUME NEW S, NEW b \in Seq(S), \A x \in S : IsMutation(x)
  PROVE  IsBatch(b)
<1>1. b = [i \in 1 .. Len(b) |-> b[i]] /\ Len(b) \in Nat
  OBVIOUS
<1>2. \A i \in 1 .. Len(b) : b[i] \in S
  OBVIOUS
<1> QED BY <1>1, <1>2 DEF IsBatch

LEMMA InMapped ==
  ASSUME NEW b, IsBatch(b), NEW p
  PROVE  p \in MappedIn(b) <=>
           \E i \in 1 .. Len(b) : b[i].op = "id_put" /\ p = <<b[i].surrogate, b[i].source>>
  BY BatchSeq DEF MappedIn

LEMMA BatchConcat ==
  ASSUME NEW a, NEW b, IsBatch(a), IsBatch(b)
  PROVE  /\ IsBatch(a \o b)
         /\ MappedIn(a \o b) = MappedIn(a) \cup MappedIn(b)
<1> DEFINE S == {a[i] : i \in 1 .. Len(a)} \cup {b[i] : i \in 1 .. Len(b)}
<1>1. a \in Seq(S) /\ b \in Seq(S) /\ \A x \in S : IsMutation(x)
  <2>1. a \in Seq({a[i] : i \in 1 .. Len(a)}) /\ b \in Seq({b[i] : i \in 1 .. Len(b)})
    BY BatchSeq
  <2>2. ASSUME NEW T, NEW U, NEW s \in Seq(T), T \subseteq U PROVE s \in Seq(U)
    <3>1. s \in [1 .. Len(s) -> U] /\ Len(s) \in Nat
      BY <2>2
    <3> QED BY <3>1
  <2>3. a \in Seq(S) /\ b \in Seq(S)
    <3>1. {a[i] : i \in 1 .. Len(a)} \subseteq S /\ {b[i] : i \in 1 .. Len(b)} \subseteq S
      OBVIOUS
    <3> HIDE DEF S
    <3> QED BY <2>1, <2>2, <3>1
  <2>4. \A x \in S : IsMutation(x)
    BY DEF IsBatch
  <2> QED BY <2>3, <2>4
<1> HIDE DEF S
<1>2. PICK c : c = a \o b
  OBVIOUS
<1>3. /\ c \in Seq(S) /\ Len(c) = Len(a) + Len(b) /\ Len(a) \in Nat /\ Len(b) \in Nat
      /\ \A i \in 1 .. Len(a) : c[i] = a[i]
      /\ \A i \in 1 .. Len(b) : c[Len(a) + i] = b[i]
  BY <1>1, <1>2
<1>4. IsBatch(c)
  BY <1>1, <1>3, SeqBatch
<1>5. ASSUME NEW p PROVE p \in MappedIn(c) <=> p \in MappedIn(a) \cup MappedIn(b)
  <2>1. ASSUME p \in MappedIn(c) PROVE p \in MappedIn(a) \cup MappedIn(b)
    <3>1. PICK i \in 1 .. Len(c) : c[i].op = "id_put" /\ p = <<c[i].surrogate, c[i].source>>
      BY <1>4, <2>1, InMapped
    <3>2. CASE i \in 1 .. Len(a)
      BY <1>3, <3>1, <3>2, InMapped
    <3>3. CASE i \notin 1 .. Len(a)
      <4>1. i - Len(a) \in 1 .. Len(b) /\ c[i] = b[i - Len(a)]
        <5>1. i - Len(a) \in 1 .. Len(b) /\ Len(a) + (i - Len(a)) = i
          BY <1>3, <3>3
        <5> QED BY <1>3, <5>1
      <4> QED BY <3>1, <4>1, InMapped
    <3> QED BY <3>2, <3>3
  <2>2. ASSUME p \in MappedIn(a) PROVE p \in MappedIn(c)
    <3>1. PICK i \in 1 .. Len(a) : a[i].op = "id_put" /\ p = <<a[i].surrogate, a[i].source>>
      BY <2>2, InMapped
    <3>2. i \in 1 .. Len(c) /\ c[i] = a[i]
      BY <1>3
    <3> QED BY <1>4, <3>1, <3>2, InMapped
  <2>3. ASSUME p \in MappedIn(b) PROVE p \in MappedIn(c)
    <3>1. PICK i \in 1 .. Len(b) : b[i].op = "id_put" /\ p = <<b[i].surrogate, b[i].source>>
      BY <2>3, InMapped
    <3>2. Len(a) + i \in 1 .. Len(c) /\ c[Len(a) + i] = b[i]
      BY <1>3
    <3> QED BY <1>4, <3>1, <3>2, InMapped
  <2> QED BY <2>1, <2>2, <2>3
<1> QED BY <1>2, <1>4, <1>5

LEMMA NoBatch == IsBatch(<<>>) /\ MappedIn(<<>>) = {}
<1>1. <<>> \in Seq({}) /\ Len(<<>>) = 0
  OBVIOUS
<1>2. IsBatch(<<>>)
  BY <1>1 DEF IsBatch
<1>3. \A p : p \notin MappedIn(<<>>)
  BY <1>1, <1>2, InMapped
<1> QED BY <1>2, <1>3

LEMMA OneMutation ==
  ASSUME NEW x, IsMutation(x)
  PROVE  /\ IsBatch(<<x>>)
         /\ MappedIn(<<x>>) = IF x.op = "id_put" THEN {<<x.surrogate, x.source>>} ELSE {}
<1>1. PICK b : b = <<x>>
  OBVIOUS
<1>2. b \in Seq({x}) /\ Len(b) = 1 /\ b[1] = x /\ 1 .. Len(b) = {1}
  BY <1>1
<1>3. IsBatch(b)
  BY <1>2, SeqBatch
<1>4. \A p : p \in MappedIn(b) <=> x.op = "id_put" /\ p = <<x.surrogate, x.source>>
  BY <1>2, <1>3, InMapped
<1> QED BY <1>1, <1>3, <1>4

LEMMA BatchAppend ==
  ASSUME NEW b, IsBatch(b), NEW x, IsMutation(x)
  PROVE  /\ IsBatch(Append(b, x))
         /\ MappedIn(Append(b, x)) =
              MappedIn(b) \cup IF x.op = "id_put" THEN {<<x.surrogate, x.source>>} ELSE {}
<1>1. Append(b, x) = b \o <<x>>
  <2> DEFINE S == {b[i] : i \in 1 .. Len(b)}
  <2>1. b \in Seq(S)
    BY BatchSeq
  <2> HIDE DEF S
  <2>2. b \in Seq(S \cup {x})
    <3>1. b \in [1 .. Len(b) -> S \cup {x}] /\ Len(b) \in Nat
      BY <2>1
    <3> QED BY <3>1
  <2> QED BY <2>2
<1>2. PICK o : o = <<x>>
  OBVIOUS
<1>3. IsBatch(o) /\ MappedIn(o) = IF x.op = "id_put" THEN {<<x.surrogate, x.source>>} ELSE {}
  BY <1>2, OneMutation
<1>4. IsBatch(b \o o) /\ MappedIn(b \o o) = MappedIn(b) \cup MappedIn(o)
  BY <1>3, BatchConcat
<1> QED BY <1>1, <1>2, <1>3, <1>4

(* What the records of a batch do: a mapping that is new is one of the      *)
(* batch's, and the maps agree if its mappings fit.                         *)
BatchTurns(base, opened, n, st) ==
  /\ Sound(st) /\ st.window = base.window
  /\ st.counter = base.counter \/ \E p \in MappedIn(opened) : st.counter = p[1]
  /\ \A s \in DOMAIN st.reverse :
       \/ s \in DOMAIN base.reverse /\ st.reverse[s] = base.reverse[s]
       \/ <<s, st.reverse[s]>> \in MappedIn(opened)
  /\ Windowed(base) /\ Functional(MappedIn(opened)) /\ Fits(base, MappedIn(opened))
       => Windowed(st)
Records == INSTANCE FoldTheorems WITH op <- _apply_record, P <- BatchTurns

LEMMA ApplyBatchFacts ==
  ASSUME NEW st, Sound(st), NEW b, IsBatch(b)
  PROVE  BatchTurns(st, b, Len(b), _apply_batch(st, b))
<1>1. BatchTurns(st, b, 0, st)
  BY DEF BatchTurns
<1>2. ASSUME NEW i \in 1 .. Len(b), NEW v, BatchTurns(st, b, i - 1, v)
      PROVE  BatchTurns(st, b, i, _apply_record(v, b[i]))
  <2>1. PICK x : x = b[i]
    OBVIOUS
  <2>2. IsMutation(x) /\ (x.op = "id_put" => <<x.surrogate, x.source>> \in MappedIn(b))
    BY <2>1, InMapped DEF IsBatch
  <2>3. PICK w : w = _apply_record(v, x)
    OBVIOUS
  <2>4. /\ Sound(w) /\ w.window = v.window
        /\ \/ w.counter = v.counter
           \/ x.op = "id_put" /\ w.counter = x.surrogate
        /\ \A s \in DOMAIN w.reverse :
             \/ s \in DOMAIN v.reverse /\ w.reverse[s] = v.reverse[s]
             \/ x.op = "id_put" /\ s = x.surrogate /\ w.reverse[s] = x.source
        /\ /\ Windowed(v)
           /\ x.op = "id_put" => (x.surrogate \in DOMAIN v.reverse =>
                                    v.reverse[x.surrogate] = x.source)
           => Windowed(w)
    <3>1. Sound(v) /\ IsMutation(x)
      BY <1>2, <2>2 DEF BatchTurns
    <3> QED BY <2>3, <3>1, RecordFacts
  <2>5. w.counter = st.counter \/ \E p \in MappedIn(b) : w.counter = p[1]
    <3>1. CASE w.counter = v.counter
      BY <1>2, <3>1 DEF BatchTurns
    <3>2. CASE x.op = "id_put" /\ w.counter = x.surrogate
      <4>1. PICK p \in MappedIn(b) : p = <<x.surrogate, x.source>>
        BY <2>2, <3>2
      <4> QED BY <3>2, <4>1
    <3> QED BY <2>4, <3>1, <3>2
  <2>6. ASSUME NEW s \in DOMAIN w.reverse
        PROVE  \/ s \in DOMAIN st.reverse /\ w.reverse[s] = st.reverse[s]
               \/ <<s, w.reverse[s]>> \in MappedIn(b)
    BY <1>2, <2>2, <2>4 DEF BatchTurns
  <2>7. ASSUME Windowed(st), Functional(MappedIn(b)), Fits(st, MappedIn(b))
        PROVE  Windowed(w)
    <3>1. Windowed(v)
      BY <1>2, <2>7 DEF BatchTurns
    <3>2. ASSUME x.op = "id_put", x.surrogate \in DOMAIN v.reverse
          PROVE  v.reverse[x.surrogate] = x.source
      <4>1. PICK p \in MappedIn(b) : p = <<x.surrogate, x.source>>
        BY <2>2, <3>2
      <4>2. CASE /\ x.surrogate \in DOMAIN st.reverse
                 /\ v.reverse[x.surrogate] = st.reverse[x.surrogate]
        BY <2>7, <4>1, <4>2 DEF Fits
      <4>3. CASE <<x.surrogate, v.reverse[x.surrogate]>> \in MappedIn(b)
        <5>1. PICK q \in MappedIn(b) : q = <<x.surrogate, v.reverse[x.surrogate]>>
          BY <4>3
        <5>2. p[1] = q[1] => p[2] = q[2]
          BY <2>7, <4>1, <5>1 DEF Functional
        <5> QED BY <4>1, <5>1, <5>2
      <4> QED BY <1>2, <3>2, <4>2, <4>3 DEF BatchTurns
    <3> QED BY <2>4, <3>1, <3>2
  <2>8. Sound(w) /\ w.window = st.window
    BY <1>2, <2>4 DEF BatchTurns
  <2> QED BY <2>1, <2>3, <2>5, <2>6, <2>7, <2>8 DEF BatchTurns
<1>3. BatchTurns(st, b, Len(b), Records!Folded(st, b))
  <2> DEFINE S == {b[i] : i \in 1 .. Len(b)}
  <2>1. b \in Seq(S)
    BY BatchSeq
  <2> HIDE DEF S
  <2> QED BY <1>1, <1>2, <2>1, Records!FoldInduction
<1>4. Records!Folded(st, b) = _apply_batch(st, b)
  BY DEF _apply_batch, FoldLeft, MapThenFoldSet, Max,
         Records!Folded, Records!FoldLeft, Records!MapThenFoldSet, Records!Max
<1> QED BY <1>3, <1>4

-----------------------------------------------------------------------------
(* The journal                                                              *)

LEMMA BatchesSeq ==
  ASSUME NEW r, AreBatches(r)
  PROVE  /\ DOMAIN r = 1 .. Len(r) /\ Len(r) \in Nat
         /\ r \in Seq({r[i] : i \in 1 .. Len(r)})
<1>1. PICK n : n = Len(r)
  OBVIOUS
<1>2. r = [i \in 1 .. n |-> r[i]] /\ n \in Nat
  BY <1>1 DEF AreBatches
<1>3. r \in [1 .. n -> {r[i] : i \in 1 .. n}]
  BY <1>2
<1>4. r \in Seq({r[i] : i \in 1 .. n})
  BY <1>2, <1>3
<1> QED BY <1>1, <1>2, <1>4

LEMMA SeqBatches ==
  ASSUME NEW S, NEW r \in Seq(S), \A b \in S : IsBatch(b)
  PROVE  AreBatches(r)
<1>1. r = [i \in 1 .. Len(r) |-> r[i]] /\ Len(r) \in Nat
  OBVIOUS
<1>2. \A i \in 1 .. Len(r) : r[i] \in S
  OBVIOUS
<1> QED BY <1>1, <1>2 DEF AreBatches

(* Both ways, for a set that has one batch more.                            *)
LEMMA BatchesOver ==
  ASSUME NEW r, AreBatches(r), NEW b, IsBatch(b)
  PROVE  \E S : r \in Seq(S) /\ b \in S /\ \A x \in S : IsBatch(x)
<1> DEFINE S == {r[i] : i \in 1 .. Len(r)} \cup {b}
<1>1. \A x \in S : IsBatch(x)
  BY DEF AreBatches
<1>2. r \in [1 .. Len(r) -> S] /\ Len(r) \in Nat
  <2>1. DOMAIN r = 1 .. Len(r) /\ r = [i \in 1 .. Len(r) |-> r[i]] /\ Len(r) \in Nat
    BY BatchesSeq DEF AreBatches
  <2> QED BY <2>1
<1>3. r \in Seq(S)
  <2> HIDE DEF S
  <2> QED BY <1>2
<1> QED BY <1>1, <1>3

LEMMA InMappedBy ==
  ASSUME NEW r, AreBatches(r), NEW p
  PROVE  p \in MappedBy(r) <=> \E i \in 1 .. Len(r) : p \in MappedIn(r[i])
  BY BatchesSeq DEF MappedBy

LEMMA BatchesAppend ==
  ASSUME NEW r, AreBatches(r), NEW b, IsBatch(b)
  PROVE  /\ AreBatches(Append(r, b)) /\ Len(Append(r, b)) = Len(r) + 1
         /\ MappedBy(Append(r, b)) = MappedBy(r) \cup MappedIn(b)
         /\ \A n \in 0 .. Len(r) : SubSeq(Append(r, b), 1, n) = SubSeq(r, 1, n)
         /\ SubSeq(Append(r, b), 1, Len(r) + 1) = Append(r, b)
<1>1. PICK S : r \in Seq(S) /\ b \in S /\ \A x \in S : IsBatch(x)
  BY BatchesOver
<1>2. PICK s : s = Append(r, b)
  OBVIOUS
<1>3. /\ s \in Seq(S) /\ Len(s) = Len(r) + 1 /\ s[Len(r) + 1] = b /\ Len(r) \in Nat
      /\ \A i \in 1 .. Len(r) : s[i] = r[i]
  BY <1>1, <1>2
<1>4. AreBatches(s)
  BY <1>1, <1>3, SeqBatches
<1>5. ASSUME NEW p PROVE p \in MappedBy(s) <=> p \in MappedBy(r) \cup MappedIn(b)
  <2>1. p \in MappedBy(s) <=> \E i \in 1 .. Len(s) : p \in MappedIn(s[i])
    BY <1>4, InMappedBy
  <2>2. p \in MappedBy(r) <=> \E i \in 1 .. Len(r) : p \in MappedIn(r[i])
    BY InMappedBy
  <2>3. \A i \in 1 .. Len(s) : i \in 1 .. Len(r) \/ i = Len(r) + 1
    BY <1>3
  <2>4. Len(r) + 1 \in 1 .. Len(s) /\ \A i \in 1 .. Len(r) : i \in 1 .. Len(s)
    BY <1>3
  <2> QED BY <1>3, <2>1, <2>2, <2>3, <2>4
<1>6. ASSUME NEW n \in 0 .. Len(r) PROVE SubSeq(s, 1, n) = SubSeq(r, 1, n)
  BY <1>1, <1>3
<1>7. SubSeq(s, 1, Len(r) + 1) = s
  <2>1. PICK n : n = Len(r) + 1 /\ n \in Nat /\ Len(s) = n
    BY <1>3
  <2>2. SubSeq(s, 1, n) = s
    BY <1>3, <2>1
  <2> QED BY <2>1, <2>2
<1> QED BY <1>2, <1>3, <1>4, <1>5, <1>6, <1>7

LEMMA BatchesTail ==
  ASSUME NEW r, AreBatches(r), r # <<>>
  PROVE  /\ IsBatch(Head(r)) /\ AreBatches(Tail(r))
         /\ MappedBy(r) = MappedIn(Head(r)) \cup MappedBy(Tail(r))
<1>1. PICK S : S = {r[i] : i \in 1 .. Len(r)}
  OBVIOUS
<1>2. r \in Seq(S) /\ \A x \in S : IsBatch(x)
  BY <1>1, BatchesSeq DEF AreBatches
<1>3. PICK t : t = Tail(r)
  OBVIOUS
<1>4. /\ t \in Seq(S) /\ Len(t) = Len(r) - 1 /\ Len(r) \in Nat /\ Len(r) > 0 /\ Head(r) = r[1]
      /\ \A i \in 1 .. Len(r) - 1 : t[i] = r[i + 1]
  BY <1>2, <1>3
<1>5. AreBatches(t) /\ IsBatch(r[1])
  BY <1>2, <1>4, SeqBatches
<1>6. ASSUME NEW p PROVE p \in MappedBy(r) <=> p \in MappedIn(r[1]) \cup MappedBy(t)
  <2>1. p \in MappedBy(r) <=> \E i \in 1 .. Len(r) : p \in MappedIn(r[i])
    BY InMappedBy
  <2>2. p \in MappedBy(t) <=> \E i \in 1 .. Len(t) : p \in MappedIn(t[i])
    BY <1>5, InMappedBy
  <2>3. \A i \in 1 .. Len(r) : i = 1 \/ (i - 1 \in 1 .. Len(t) /\ t[i - 1] = r[i])
    <3> SUFFICES ASSUME NEW i \in 1 .. Len(r), i # 1
                 PROVE  i - 1 \in 1 .. Len(t) /\ t[i - 1] = r[i]
      OBVIOUS
    <3>1. i - 1 \in 1 .. Len(r) - 1 /\ (i - 1) + 1 = i
      BY <1>4
    <3> QED BY <1>4, <3>1
  <2>4. 1 \in 1 .. Len(r) /\ \A i \in 1 .. Len(t) : i + 1 \in 1 .. Len(r) /\ t[i] = r[i + 1]
    BY <1>4
  <2> QED BY <2>1, <2>2, <2>3, <2>4
<1> QED BY <1>3, <1>4, <1>5, <1>6

LEMMA BatchesPrefix ==
  ASSUME NEW r, AreBatches(r), NEW n \in 0 .. Len(r)
  PROVE  /\ AreBatches(SubSeq(r, 1, n)) /\ Len(SubSeq(r, 1, n)) = n
         /\ \A k \in 0 .. n : SubSeq(SubSeq(r, 1, n), 1, k) = SubSeq(r, 1, k)
         /\ SubSeq(r, 1, Len(r)) = r /\ SubSeq(r, 1, 0) = <<>>
         /\ Len(r) \in Nat /\ MappedBy(SubSeq(r, 1, n)) \subseteq MappedBy(r)
<1>1. PICK S : S = {r[i] : i \in 1 .. Len(r)}
  OBVIOUS
<1>2. r \in Seq(S) /\ \A x \in S : IsBatch(x)
  BY <1>1, BatchesSeq DEF AreBatches
<1>3. PICK s : s = SubSeq(r, 1, n)
  OBVIOUS
<1>4. s \in Seq(S) /\ Len(s) = n /\ \A i \in 1 .. n : s[i] = r[i]
  BY <1>2, <1>3
<1>5. AreBatches(s)
  BY <1>2, <1>4, SeqBatches
<1>6. ASSUME NEW k \in 0 .. n PROVE SubSeq(s, 1, k) = SubSeq(r, 1, k)
  BY <1>2, <1>4
<1>7. SubSeq(r, 1, Len(r)) = r /\ SubSeq(r, 1, 0) = <<>>
  BY <1>2
<1>8. ASSUME NEW p \in MappedBy(s) PROVE p \in MappedBy(r)
  <2>1. PICK i \in 1 .. n : p \in MappedIn(s[i])
    BY <1>4, <1>5, <1>8, InMappedBy
  <2>2. i \in 1 .. Len(r) /\ p \in MappedIn(r[i])
    BY <1>2, <1>4, <2>1
  <2> QED BY <2>2, InMappedBy
<1> QED BY <1>2, <1>3, <1>4, <1>5, <1>6, <1>7, <1>8

LEMMA NoBatches == AreBatches(<<>>) /\ MappedBy(<<>>) = {} /\ Len(<<>>) = 0
<1>1. <<>> \in Seq({}) /\ Len(<<>>) = 0
  OBVIOUS
<1>2. AreBatches(<<>>)
  BY <1>1 DEF AreBatches
<1>3. \A p : p \notin MappedBy(<<>>)
  BY <1>1, <1>2, InMappedBy
<1> QED BY <1>1, <1>2, <1>3

(* Replaying, batch after batch: whatever the state is, what comes of it is *)
(* well formed, and if the state and the records have one message for each  *)
(* surrogate, its maps agree.                                               *)
StaysSound(base, records, n, st) ==
  /\ Sound(st)
  /\ Windowed(base) /\ Functional(Given(base) \cup MappedBy(records)) =>
       Windowed(st) /\ Given(st) \subseteq Given(base) \cup MappedBy(records)
Batches == INSTANCE FoldTheorems WITH op <- _apply_batch, P <- StaysSound

LEMMA InGiven ==
  ASSUME NEW st, NEW s
  PROVE  s \in DOMAIN st.reverse <=> <<s, st.reverse[s]>> \in Given(st)
  BY DEF Given

(* One more batch of the records.                                           *)
LEMMA BatchStays ==
  ASSUME NEW st, NEW b, NEW next, BatchTurns(st, b, Len(b), next), Windowed(st),
         NEW given, Functional(given), Given(st) \subseteq given, MappedIn(b) \subseteq given
  PROVE  Windowed(next) /\ Given(next) \subseteq given
<1>1. Functional(MappedIn(b))
  BY DEF Functional
<1>2. Fits(st, MappedIn(b))
  <2> SUFFICES ASSUME NEW p \in MappedIn(b), p[1] \in DOMAIN st.reverse
               PROVE  st.reverse[p[1]] = p[2]
    BY DEF Fits
  <2>1. PICK q : q = <<p[1], st.reverse[p[1]]>>
    OBVIOUS
  <2>2. q \in given /\ p \in given
    BY <2>1, InGiven
  <2>3. q[1] = p[1] /\ q[2] = st.reverse[p[1]]
    BY <2>1
  <2> QED BY <2>2, <2>3 DEF Functional
<1>3. Windowed(next)
  BY <1>1, <1>2 DEF BatchTurns
<1>4. ASSUME NEW p \in Given(next) PROVE p \in given
  <2>1. PICK s \in DOMAIN next.reverse : p = <<s, next.reverse[s]>>
    BY DEF Given
  <2>2. CASE s \in DOMAIN st.reverse /\ next.reverse[s] = st.reverse[s]
    BY <2>1, <2>2, InGiven
  <2>3. CASE <<s, next.reverse[s]>> \in MappedIn(b)
    BY <2>1, <2>3
  <2> QED BY <2>2, <2>3 DEF BatchTurns
<1> QED BY <1>3, <1>4

LEMMA ReplayedIs ==
  ASSUME NEW base, NEW r
  PROVE  Batches!Folded(base, r) = Replayed(base, r)
  BY DEF Replayed, FoldLeft, MapThenFoldSet, Max,
         Batches!Folded, Batches!FoldLeft, Batches!MapThenFoldSet, Batches!Max

LEMMA ReplayedFacts ==
  ASSUME NEW base, Sound(base), NEW r, AreBatches(r)
  PROVE  /\ Sound(Replayed(base, r))
         /\ Windowed(base) /\ Functional(Given(base) \cup MappedBy(r))
              => Windowed(Replayed(base, r))
<1>1. StaysSound(base, r, 0, base)
  BY DEF StaysSound
<1>2. ASSUME NEW i \in 1 .. Len(r), NEW v, StaysSound(base, r, i - 1, v)
      PROVE  StaysSound(base, r, i, _apply_batch(v, r[i]))
  <2>1. IsBatch(r[i])
    BY DEF AreBatches
  <2>2. PICK next : next = _apply_batch(v, r[i])
    OBVIOUS
  <2>3. Sound(v)
    BY <1>2 DEF StaysSound
  <2>4. BatchTurns(v, r[i], Len(r[i]), next) /\ Sound(next)
    BY <2>1, <2>2, <2>3, ApplyBatchFacts DEF BatchTurns
  <2>5. ASSUME Windowed(base), Functional(Given(base) \cup MappedBy(r))
        PROVE  Windowed(next) /\ Given(next) \subseteq Given(base) \cup MappedBy(r)
    <3>1. PICK given : given = Given(base) \cup MappedBy(r)
      OBVIOUS
    <3>2. Windowed(v) /\ Given(v) \subseteq given
      BY <1>2, <2>5, <3>1 DEF StaysSound
    <3>3. MappedIn(r[i]) \subseteq given
      BY <3>1, InMappedBy
    <3>4. Functional(given)
      BY <2>5, <3>1
    <3> QED BY <2>4, <3>1, <3>2, <3>3, <3>4, BatchStays
  <2> QED BY <2>2, <2>4, <2>5 DEF StaysSound
<1>3. StaysSound(base, r, Len(r), Batches!Folded(base, r))
  <2> DEFINE S == {r[i] : i \in 1 .. Len(r)}
  <2>1. r \in Seq(S)
    BY BatchesSeq
  <2> HIDE DEF S
  <2> QED BY <1>1, <1>2, <2>1, Batches!FoldInduction
<1> QED BY <1>3, ReplayedIs DEF StaysSound

LEMMA ReplayedSteps ==
  /\ \A base : Replayed(base, <<>>) = base
  /\ \A base, r, b : AreBatches(r) /\ IsBatch(b) =>
       Replayed(base, Append(r, b)) = _apply_batch(Replayed(base, r), b)
<1>1. ASSUME NEW base PROVE Replayed(base, <<>>) = base
  BY ReplayedIs, Batches!FoldOfNothing
<1>2. ASSUME NEW base, NEW r, NEW b, AreBatches(r), IsBatch(b)
      PROVE  Replayed(base, Append(r, b)) = _apply_batch(Replayed(base, r), b)
  <2>1. PICK S : r \in Seq(S) /\ b \in S /\ \A x \in S : IsBatch(x)
    BY <1>2, BatchesOver
  <2>2. Batches!Folded(base, Append(r, b)) = _apply_batch(Batches!Folded(base, r), b)
    BY <2>1, Batches!FoldOfAppend
  <2> QED BY <2>2, ReplayedIs
<1> QED BY <1>1, <1>2

-----------------------------------------------------------------------------
(* What the actions make of the engine                                      *)

(* The index by surrogate that is built from the messages agrees with them. *)
LEMMA LoadedFacts ==
  ASSUME NEW st, Sound(st)
  PROVE  Sound(Loaded(st)) /\ SameIds(Loaded(st), st)
<1>1. PICK entries : entries = Range(st.bySource)
  OBVIOUS
<1>2. PICK index : index = [s \in {e.surrogate : e \in entries} |->
                              CHOOSE e \in entries : e.surrogate = s]
  OBVIOUS
<1>3. Loaded(st) = Reindexed(st, st.bySource, index, st.pairs)
  <2>1. Loaded(st) = [st EXCEPT !.bySurrogate = index]
    BY <1>1, <1>2 DEF Loaded
  <2>2. [st EXCEPT !.bySurrogate = index] = Reindexed(st, st.bySource, index, st.pairs)
    BY DEF Reindexed, Sound, Engine, Fields
  <2> QED BY <2>1, <2>2
<1>4. PICK new : new = Reindexed(st, st.bySource, index, st.pairs)
  OBVIOUS
<1>5. /\ Engine(new) /\ SameIds(new, st) /\ new.bySource = st.bySource
      /\ new.bySurrogate = index /\ new.pairs = st.pairs
  <2>1. Engine(st) /\ st.pairs \in [Senders -> Seq(Msgs)]
    BY DEF Sound, Engine
  <2> QED BY <1>4, <2>1, ReindexedFacts
<1>6. ASSUME NEW s \in DOMAIN index
      PROVE  LET e == index[s]
             IN  e.surrogate = s /\ e.source \in DOMAIN st.bySource /\ st.bySource[e.source] = e
  <2>1. PICK e : e = index[s]
    OBVIOUS
  <2>2. e \in entries /\ e.surrogate = s
    BY <1>2, <2>1
  <2>3. PICK m \in DOMAIN st.bySource : e = st.bySource[m]
    BY <1>1, <2>2 DEF Range
  <2>4. e.source = m
    BY <2>3 DEF Sound, Indexed
  <2> QED BY <2>1, <2>2, <2>3, <2>4
<1>7. Indexed(new)
  <2>1. /\ DOMAIN new.bySource \subseteq Msgs /\ IsFiniteSet(DOMAIN new.bySource)
        /\ \A m \in DOMAIN new.bySource :
             new.bySource[m] \in Entries /\ new.bySource[m].source = m
    BY <1>5 DEF Sound, Indexed
  <2>2. \A s \in DOMAIN new.bySurrogate :
          LET e == new.bySurrogate[s]
          IN  e.surrogate = s /\ e.source \in DOMAIN new.bySource /\ new.bySource[e.source] = e
    BY <1>5, <1>6
  <2>3. \A p \in Senders : \A i \in DOMAIN new.pairs[p] :
          /\ new.pairs[p][i] \in DOMAIN new.bySource \ Direct /\ SenderOf[new.pairs[p][i]] = p
          /\ \A j \in DOMAIN new.pairs[p] : new.pairs[p][i] = new.pairs[p][j] => i = j
    BY <1>5 DEF Sound, Indexed
  <2> QED BY <2>1, <2>2, <2>3 DEF Indexed
<1> QED BY <1>3, <1>4, <1>5, <1>7 DEF Sound

(* Trimming the window leaves one batch behind, which maps nothing.         *)
LEMMA ResizeRecordsFacts ==
  ASSUME NEW st, Sound(st), NEW w \in Surrogates
  PROVE  /\ AreBatches(ResizeRecords(st, w)) /\ MappedBy(ResizeRecords(st, w)) = {}
         /\ ResizeRecords(st, w) # <<>> =>
              IsBatch(ResizeRecords(st, w)[1]) /\ MappedIn(ResizeRecords(st, w)[1]) = {}
<1>1. CASE Len(st.order) > w
  <2>1. PICK x : x = MessageRebuild(Resized(st, w).forward)
    OBVIOUS
  <2>2. IsMutation(x) /\ x.op # "id_put"
    <3>1. \A m \in DOMAIN Resized(st, w).forward : Resized(st, w).forward[m] \in Surrogates
      <4>1. PICK t : t = Resized(st, w)
        OBVIOUS
      <4>2. Engine(t)
        BY <4>1, ResizedFacts DEF Sound
      <4> QED BY <4>1, <4>2 DEF Engine
    <3> QED BY <2>1, <3>1 DEF MessageRebuild, IsMutation
  <2>3. PICK b : b = <<x>>
    OBVIOUS
  <2>4. IsBatch(b) /\ MappedIn(b) = {}
    BY <2>2, <2>3, OneMutation
  <2>5. PICK r : r = <<b>>
    OBVIOUS
  <2>6. r \in Seq({b}) /\ Len(r) = 1 /\ r[1] = b
    BY <2>5
  <2>7. AreBatches(r)
    BY <2>4, <2>6, SeqBatches
  <2>8. \A p : p \notin MappedBy(r)
    BY <2>4, <2>6, <2>7, InMappedBy
  <2>9. ResizeRecords(st, w) = r
    BY <1>1, <2>1, <2>3, <2>5 DEF ResizeRecords
  <2> QED BY <2>4, <2>6, <2>7, <2>8, <2>9
<1>2. CASE ~(Len(st.order) > w)
  BY <1>2, NoBatches DEF ResizeRecords
<1> QED BY <1>1, <1>2

(* Mappings that were given by the counter of st, each to one message.      *)
GivenBy(st, given) ==
  /\ Functional(given) /\ Fits(st, given)
  /\ \A p \in given : p[1] \in Nat /\ p[1] <= st.counter

(* From one state and open batch of a translation to a later one.           *)
Allocates(st, opened, next, later) ==
  /\ Sound(next) /\ next.counter >= st.counter
  /\ IsBatch(later)
  /\ \A p \in MappedIn(later) : p \in MappedIn(opened) \/ st.counter < p[1]
  /\ Windowed(st) => Windowed(next)
  /\ \A given : Windowed(st) /\ GivenBy(st, given \cup MappedIn(opened))
                  => GivenBy(next, given \cup MappedIn(later))

LEMMA AllocatesNothing ==
  ASSUME NEW st, Sound(st), NEW b, IsBatch(b)
  PROVE  Allocates(st, b, st, b)
<1>1. st.counter \in Nat
  BY DEF Sound, Engine
<1> QED BY <1>1 DEF Allocates

LEMMA AllocatesBoth ==
  ASSUME NEW a, NEW b, NEW c, NEW x, NEW y, NEW z, Sound(a),
         Allocates(a, x, b, y), Allocates(b, y, c, z)
  PROVE  Allocates(a, x, c, z)
<1>1. a.counter \in Nat /\ b.counter \in Nat /\ c.counter \in Nat
  BY DEF Allocates, Sound, Engine
<1>2. \A p \in MappedIn(z) : p \in MappedIn(x) \/ a.counter < p[1]
  <2> SUFFICES ASSUME NEW p \in MappedIn(z), p \notin MappedIn(x) PROVE a.counter < p[1]
    OBVIOUS
  <2>1. CASE p \in MappedIn(y)
    BY <2>1 DEF Allocates
  <2>2. CASE p \notin MappedIn(y)
    <3>1. PICK i : i \in 1 .. Len(z) /\ p = <<z[i].surrogate, z[i].source>> /\ z[i].op = "id_put"
      BY InMapped DEF Allocates
    <3>2. p[1] \in Nat
      BY <3>1 DEF Allocates, IsBatch, IsMutation, Surrogates
    <3>3. b.counter < p[1]
      BY <2>2 DEF Allocates
    <3>4. b.counter >= a.counter
      BY DEF Allocates
    <3> QED BY <1>1, <3>2, <3>3, <3>4
  <2> QED BY <2>1, <2>2
<1>3. c.counter >= a.counter
  <2>1. b.counter >= a.counter /\ c.counter >= b.counter
    BY DEF Allocates
  <2> QED BY <1>1, <2>1
<1>4. \A given : Windowed(a) /\ GivenBy(a, given \cup MappedIn(x))
                   => GivenBy(c, given \cup MappedIn(z))
  BY DEF Allocates
<1> QED BY <1>2, <1>3, <1>4 DEF Allocates

(* get_or_create by a translation or by an action                           *)
LEMMA AllocatesOne ==
  ASSUME NEW st, Sound(st), NEW m \in Msgs, NEW b, IsBatch(b), m \notin DOMAIN st.forward
  PROVE  Allocates(st, b, Allocate(st, m), Append(b, IdPut(m, st.counter + 1)))
<1>0. PICK s : s = st.counter + 1
  OBVIOUS
<1>1. s \in Surrogates /\ s = st.counter + 1 /\ s > st.counter /\ st.counter \in Nat
  <2>1. PICK n \in Nat : n = st.counter
    BY DEF Sound, Engine
  <2>2. n + 1 \in Nat \ {0} /\ n + 1 > n
    OBVIOUS
  <2> QED BY <1>0, <2>1, <2>2 DEF Surrogates
<1>2. PICK x : x = IdPut(m, s)
  OBVIOUS
<1>3. x.op = "id_put" /\ x.source = m /\ x.surrogate = s /\ IsMutation(x)
  BY <1>1, <1>2 DEF IdPut, IsMutation
<1>4. PICK later : later = Append(b, x)
  OBVIOUS
<1>5. IsBatch(later) /\ MappedIn(later) = MappedIn(b) \cup {<<s, m>>}
  BY <1>3, <1>4, BatchAppend
<1>6. PICK next : next = Allocate(st, m)
  OBVIOUS
<1>7. /\ Sound(next) /\ next.window = st.window /\ next.counter = s
      /\ \A t \in DOMAIN next.reverse :
           \/ t \in DOMAIN st.reverse /\ next.reverse[t] = st.reverse[t]
           \/ t = s /\ next.reverse[t] = m
      /\ Windowed(st) => Windowed(next)
  BY <1>1, <1>6, AllocateFacts
<1>8. \A p \in MappedIn(later) : p \in MappedIn(b) \/ st.counter < p[1]
  <2> SUFFICES ASSUME NEW p \in MappedIn(later), p \notin MappedIn(b) PROVE st.counter < p[1]
    OBVIOUS
  <2>1. p = <<s, m>>
    BY <1>5
  <2> QED BY <1>1, <2>1
<1>9. ASSUME NEW given, Windowed(st), GivenBy(st, given \cup MappedIn(b))
      PROVE  GivenBy(next, given \cup MappedIn(later))
  <2> DEFINE old == given \cup MappedIn(b)
  <2>1. given \cup MappedIn(later) = old \cup {<<s, m>>}
    BY <1>5
  <2>2. \A p \in old : p[1] \in Nat /\ p[1] <= st.counter
    BY <1>9 DEF GivenBy
  <2>3. \A p \in old : p[1] \in Nat /\ p[1] # s /\ p[1] <= s
    <3> HIDE DEF old
    <3> QED BY <1>1, <2>2
  <2> HIDE DEF old
  <2>4. Functional(old) /\ Fits(st, old)
    BY <1>9 DEF GivenBy, old
  <2>5. Functional(old \cup {<<s, m>>})
    <3> SUFFICES ASSUME NEW p \in old \cup {<<s, m>>}, NEW q \in old \cup {<<s, m>>}, p[1] = q[1]
                 PROVE  p[2] = q[2]
      BY DEF Functional
    <3> QED BY <2>3, <2>4 DEF Functional
  <2>6. Fits(next, old \cup {<<s, m>>})
    <3> SUFFICES ASSUME NEW p \in old \cup {<<s, m>>}, p[1] \in DOMAIN next.reverse
                 PROVE  next.reverse[p[1]] = p[2]
      BY DEF Fits
    <3>1. CASE p \in old
      BY <1>7, <2>3, <2>4, <3>1 DEF Fits
    <3>2. CASE p = <<s, m>>
      <4>1. s \notin DOMAIN st.reverse
        BY <1>1, <1>9 DEF Windowed, Mapped
      <4> QED BY <1>7, <3>2, <4>1
    <3> QED BY <3>1, <3>2
  <2>7. \A p \in old \cup {<<s, m>>} : p[1] \in Nat /\ p[1] <= next.counter
    BY <1>1, <1>7, <2>3 DEF Surrogates
  <2> QED BY <2>1, <2>5, <2>6, <2>7 DEF GivenBy
<1>10. next.counter >= st.counter
  BY <1>1, <1>7
<1> QED BY <1>1, <1>2, <1>4, <1>5, <1>6, <1>7, <1>8, <1>9, <1>10 DEF Allocates

(* The accumulator of AllocateAll                                           *)
Making(base, msgs, n, acc) ==
  /\ Allocates(base.st, base.batch, acc.st, acc.batch)
  /\ acc.ids \in Seq(Surrogates) /\ Len(acc.ids) = n
Makes == INSTANCE FoldTheorems WITH op <- get_or_create_mapping, P <- Making

LEMMA AllocateAllFacts ==
  ASSUME NEW st, Sound(st), NEW b, IsBatch(b), NEW msgs \in Seq(Msgs)
  PROVE  /\ Allocates(st, b, AllocateAll(st, b, msgs).st, AllocateAll(st, b, msgs).batch)
         /\ AllocateAll(st, b, msgs).ids \in Seq(Surrogates)
         /\ Len(AllocateAll(st, b, msgs).ids) = Len(msgs)
<1>1. PICK base : base = [st |-> st, ids |-> <<>>, batch |-> b]
  OBVIOUS
<1>2. Making(base, msgs, 0, base)
  BY <1>1, AllocatesNothing DEF Making
<1>3. ASSUME NEW i \in 1 .. Len(msgs), NEW v, Making(base, msgs, i - 1, v)
      PROVE  Making(base, msgs, i, get_or_create_mapping(v, msgs[i]))
  <2>1. PICK m \in Msgs : m = msgs[i]
    OBVIOUS
  <2>2. /\ Allocates(st, b, v.st, v.batch) /\ Sound(v.st) /\ IsBatch(v.batch)
        /\ v.ids \in Seq(Surrogates) /\ Len(v.ids) = i - 1
    BY <1>1, <1>3 DEF Making, Allocates
  <2>3. PICK w : w = get_or_create_mapping(v, m)
    OBVIOUS
  <2>4. PICK id \in Surrogates : w.ids = Append(v.ids, id)
                                /\ Allocates(v.st, v.batch, w.st, w.batch)
    <3>1. CASE m \in DOMAIN v.st.forward
      <4>1. Allocate(v.st, m) = v.st
        BY <2>2, <3>1, AllocateFacts
      <4>2. /\ w.st = v.st /\ w.ids = Append(v.ids, v.st.forward[m]) /\ w.batch = v.batch
        BY <2>3, <3>1, <4>1 DEF get_or_create_mapping
      <4>3. v.st.forward[m] \in Surrogates
        BY <2>2, <3>1 DEF Sound, Engine
      <4> QED BY <2>2, <4>2, <4>3, AllocatesNothing
    <3>2. CASE m \notin DOMAIN v.st.forward
      <4>1. PICK s : s = v.st.counter + 1
        OBVIOUS
      <4>2. Allocate(v.st, m).counter = s
        BY <2>2, <3>2, <4>1, AllocateFacts
      <4>3. /\ w.st = Allocate(v.st, m) /\ w.ids = Append(v.ids, s)
            /\ w.batch = Append(v.batch, IdPut(m, s))
        BY <2>3, <3>2, <4>2 DEF get_or_create_mapping
      <4>4. s \in Surrogates
        BY <2>2, <4>1 DEF Sound, Engine, Surrogates
      <4>5. Allocates(v.st, v.batch, Allocate(v.st, m), Append(v.batch, IdPut(m, s)))
        BY <2>2, <3>2, <4>1, AllocatesOne
      <4> QED BY <4>3, <4>4, <4>5
    <3> QED BY <3>1, <3>2
  <2>5. Allocates(st, b, w.st, w.batch)
    BY <2>2, <2>4, AllocatesBoth
  <2>6. w.ids \in Seq(Surrogates) /\ Len(w.ids) = i
    BY <2>2, <2>4
  <2> QED BY <1>1, <2>1, <2>3, <2>5, <2>6 DEF Making
<1>4. Making(base, msgs, Len(msgs), Makes!Folded(base, msgs))
  BY <1>2, <1>3, Makes!FoldInduction
<1>5. Makes!Folded(base, msgs) = AllocateAll(st, b, msgs)
  BY <1>1 DEF AllocateAll, FoldLeft, MapThenFoldSet, Max,
              Makes!Folded, Makes!FoldLeft, Makes!MapThenFoldSet, Makes!Max
<1> QED BY <1>1, <1>4, <1>5 DEF Making

-----------------------------------------------------------------------------
(* A step of the engine, whatever the action                                *)

LEMMA GivenLess ==
  ASSUME NEW st, NEW given, NEW less, less \subseteq given, GivenBy(st, given)
  PROVE  GivenBy(st, less)
  BY DEF GivenBy, Functional, Fits

(* A step that gives out no surrogate.                                      *)
LEMMA AllocatesLess ==
  ASSUME NEW st, NEW next, NEW b, IsBatch(b), Sound(st), Sound(next),
         next.counter = st.counter, PartOf(next.reverse, st.reverse),
         Windowed(st) => Windowed(next)
  PROVE  Allocates(st, b, next, b)
<1>1. st.counter \in Nat
  BY DEF Sound, Engine
<1>2. ASSUME NEW given, GivenBy(st, given) PROVE GivenBy(next, given)
  BY <1>2 DEF GivenBy, Fits, PartOf
<1>3. \A given : Windowed(st) /\ GivenBy(st, given \cup MappedIn(b))
                   => GivenBy(next, given \cup MappedIn(b))
  BY <1>2
<1> QED BY <1>1, <1>3 DEF Allocates

LEMMA AllocatesSame ==
  ASSUME NEW st, NEW next, NEW b, NEW x, NEW y, Sound(st), NEW end, Sound(end),
         Allocates(st, b, next, x), SameIds(end, next),
         IsBatch(y), MappedIn(y) = MappedIn(x)
  PROVE  Allocates(st, b, end, y)
<1>1. PartOf(end.reverse, next.reverse) /\ end.counter = next.counter /\ end.reverse = next.reverse
  BY DEF PartOf, SameIds
<1>2. Windowed(next) => Windowed(end)
  BY SameIdsAgree
<1>3. \A given : GivenBy(next, given) => GivenBy(end, given)
  BY <1>1 DEF GivenBy, Fits
<1> QED BY <1>1, <1>2, <1>3 DEF Allocates

(* The surrogates that records still to be written mention.                 *)
LEMMA PendingTyped ==
  ASSUME Stored, NEW p \in Pending
  PROVE  p[1] \in Nat
<1>1. PICK b : IsBatch(b) /\ p \in MappedIn(b)
  <2>1. CASE p \in MappedBy(accepted)
    <3>1. PICK i \in 1 .. Len(accepted) : p \in MappedIn(accepted[i])
      BY <2>1, InMappedBy DEF Stored
    <3>2. IsBatch(accepted[i])
      BY DEF Stored, AreBatches
    <3> QED BY <3>1, <3>2
  <2>2. CASE p \notin MappedBy(accepted)
    <3>1. PICK t \in Tasks : p \in MappedIn(task[t].batch)
      BY <2>2 DEF Pending
    <3> QED BY <3>1 DEF Stored, Translation
  <2> QED BY <2>1, <2>2
<1>2. PICK i \in 1 .. Len(b) : b[i].op = "id_put" /\ p = <<b[i].surrogate, b[i].source>>
  BY <1>1, InMapped
<1>3. b[i].surrogate \in Surrogates
  BY <1>1, <1>2 DEF IsBatch, IsMutation
<1> QED BY <1>2, <1>3 DEF Surrogates

(* The running engine moves on: the files stay, and every mapping that is   *)
(* pending afterwards was pending before or has just been made.             *)
LEMMA EngineStep ==
  ASSUME HotInv, up, up' = up, UNCHANGED <<files, ghosts>>, setting' \in Windows,
         Sound(mem'), AreBatches(accepted'),
         DOMAIN task' = Tasks, \A t \in Tasks : Translation(task'[t]),
         NEW given, NEW b, NEW later, Allocates(mem, b, mem', later),
         given \cup MappedIn(b) \subseteq Pending,
         Pending' \subseteq given \cup MappedIn(later)
  PROVE  HotInv'
<1>1. /\ logged' = logged /\ flushed' = flushed /\ saved' = saved
      /\ origin' = origin /\ coherent' = coherent /\ rotation' = rotation
  BY DEF files, ghosts
<1>2. Stored'
  BY <1>1 DEF HotInv, Stored, Sound
<1>3. ASSUME NEW n \in 0 .. Len(logged) PROVE After(n)' = After(n)
  BY <1>1 DEF After
<1>4. ASSUME coherent PROVE Replayable'
  <2>0. PICK last, cap : last = After(Len(logged)) /\ cap = rotation.capture
    OBVIOUS
  <2>1. /\ \A n \in 0 .. Len(logged) : Windowed(After(n))
        /\ saved # None => Windowed(saved)
        /\ Windowed(mem) /\ Behind(last)
        /\ Functional(Pending) /\ Fits(mem, Pending)
        /\ \A p \in Pending : p[1] <= mem.counter
        /\ rotation # None => Windowed(cap) /\ Behind(cap)
    BY <1>4, <2>0 DEF HotInv, Replayable
  <2>2. Len(logged) \in 0 .. Len(logged)
    BY DEF HotInv, Stored, AreBatches
  <2>3. \A n \in 0 .. Len(logged') : Windowed(After(n)')
    BY <1>1, <1>3, <2>1
  <2>4. Sound(last)
    BY <2>0, <2>2, BatchesPrefix, ReplayedFacts DEF HotInv, Stored, After, Sound
  <2>5. Windowed(last) /\ last.counter \in Nat
    BY <2>0, <2>1, <2>2, <2>4 DEF Sound, Engine
  <2>6. After(Len(logged))' = last
    BY <1>1, <2>0 DEF After
  <2>7. GivenBy(mem, given \cup MappedIn(b))
    <3>1. GivenBy(mem, Pending)
      BY <2>1, PendingTyped DEF GivenBy, HotInv
    <3> QED BY <3>1, GivenLess
  <2>8. Windowed(mem') /\ GivenBy(mem', Pending')
    <3>1. GivenBy(mem', given \cup MappedIn(later))
      BY <2>1, <2>7 DEF Allocates
    <3> QED BY <2>1, <3>1, GivenLess DEF Allocates
  <2>9. ASSUME NEW st, Windowed(st), st.counter \in Nat, Behind(st) PROVE Behind(st)'
    <3>1. mem.counter \in Nat /\ mem'.counter \in Nat /\ mem'.counter >= mem.counter
      BY DEF HotInv, Stored, Sound, Engine, Allocates
    <3>2. st.counter <= mem'.counter
      BY <2>9, <3>1 DEF Behind
    <3>3. ASSUME NEW p \in Pending', p[1] \in DOMAIN st.reverse PROVE st.reverse[p[1]] = p[2]
      <4>1. CASE p \in Pending
        BY <2>9, <3>3, <4>1 DEF Behind, Fits
      <4>2. CASE p \notin Pending
        <5>1. p \in MappedIn(later) /\ p \notin MappedIn(b)
          BY <4>2
        <5>2. mem.counter < p[1]
          BY <5>1 DEF Allocates
        <5>3. p[1] <= st.counter
          BY <2>9, <3>3 DEF Windowed, Mapped
        <5>4. p[1] \in Nat
          BY <2>8 DEF GivenBy
        <5>5. st.counter <= mem.counter
          BY <2>9 DEF Behind
        <5> QED BY <2>9, <3>1, <5>2, <5>3, <5>4, <5>5
      <4> QED BY <4>1, <4>2
    <3> QED BY <3>2, <3>3 DEF Behind, Fits
  <2>10. /\ Behind(last)'
         /\ rotation # None => Behind(cap)'
    <3>1. rotation # None => cap.counter \in Nat
      BY <2>0 DEF HotInv, Stored, Engine
    <3> QED BY <2>1, <2>5, <2>9, <3>1
  <2>11. Functional(Pending') /\ Fits(mem', Pending') /\ \A p \in Pending' : p[1] <= mem'.counter
    BY <2>8 DEF GivenBy
  <2>12. /\ Behind(After(Len(logged)))'
         /\ rotation' # None => Windowed(rotation'.capture) /\ Behind(rotation.capture)'
    BY <1>1, <2>0, <2>1, <2>6, <2>10 DEF Behind
  <2> QED BY <1>1, <2>1, <2>3, <2>8, <2>11, <2>12 DEF Replayable
<1>5. ASSUME ~coherent PROVE Replayable'
  BY <1>1, <1>5 DEF Replayable
<1>6. coherent \in BOOLEAN
  BY DEF HotInv, Stored
<1> QED BY <1>2, <1>4, <1>5, <1>6 DEF HotInv

-----------------------------------------------------------------------------
(* The actions of the engine                                                *)

LEMMA WindowsAreSurrogates == \A w \in Windows : w \in Surrogates
  BY HotStorageAssumption DEF Surrogates

LEMMA InPending ==
  ASSUME NEW p
  PROVE  /\ p \in Pending <=> p \in MappedBy(accepted) \/ \E t \in Tasks : p \in MappedIn(task[t].batch)
         /\ p \in Pending' <=> \/ p \in MappedBy(accepted')
                               \/ \E t \in Tasks : p \in MappedIn(task'[t].batch)
  BY DEF Pending

(* A step of one translation: only its own batch changes.                   *)
LEMMA TaskStep ==
  ASSUME HotInv, up, UNCHANGED <<accepted, files, setting, up, ghosts>>, Sound(mem'),
         NEW t \in Tasks, NEW tk, task' = [task EXCEPT ![t] = tk], Translation(tk),
         NEW b, MappedIn(b) \subseteq MappedIn(task[t].batch), Allocates(mem, b, mem', tk.batch)
  PROVE  HotInv'
<1>1. /\ DOMAIN task' = Tasks /\ task'[t] = tk
      /\ \A u \in Tasks : u # t => task'[u] = task[u]
  BY DEF HotInv, Stored
<1>2. \A u \in Tasks : Translation(task'[u])
  BY <1>1 DEF HotInv, Stored
<1> DEFINE given == MappedBy(accepted) \cup UNION {MappedIn(task[u].batch) : u \in Tasks \ {t}}
<1>3. given \cup MappedIn(b) \subseteq Pending
  BY InPending
<1>4. Pending' \subseteq given \cup MappedIn(tk.batch)
  <2> SUFFICES ASSUME NEW p \in Pending' PROVE p \in given \cup MappedIn(tk.batch)
    OBVIOUS
  <2>1. CASE p \in MappedBy(accepted)
    BY <2>1
  <2>2. CASE \E u \in Tasks : p \in MappedIn(task'[u].batch)
    BY <1>1, <2>2
  <2> QED BY <2>1, <2>2, InPending
<1>5. setting' \in Windows /\ AreBatches(accepted')
  BY DEF HotInv, Stored
<1> HIDE DEF given
<1> QED BY <1>1, <1>2, <1>3, <1>4, <1>5, EngineStep

LEMMA TranslateBeginStep ==
  ASSUME HotInv, NEW t \in Tasks, NEW m \in Msgs, TranslateBegin(t, m)
  PROVE  HotInv'
<1>1. PICK quoted : quoted = IF Len(Quotes[m]) > 1 THEN Quotes[m] ELSE <<>>
  OBVIOUS
<1>2. PICK msgs : msgs = Append(quoted, m)
  OBVIOUS
<1>3. PICK made : made = AllocateAll(mem, <<>>, msgs)
  OBVIOUS
<1>4. PICK bound : bound = [room |-> RoomOf[m], time |-> TimeOf[m]]
  OBVIOUS
<1>5. PICK binding : binding = IF m \in Direct THEN <<PrivateBind(RoomOf[m])>>
                               ELSE IF ContextRefused(made.st, bound) THEN <<>>
                               ELSE <<ContextBind(bound)>>
  OBVIOUS
<1>6. PICK all : all = made.batch \o binding
  OBVIOUS
<1>7. PICK tk : tk = [pc |-> "translating", msg |-> m, ids |-> made.ids, batch |-> all]
  OBVIOUS
<1>8. /\ up /\ UNCHANGED <<accepted, files, setting, up, ghosts>>
      /\ mem' = IF m \in Direct THEN BindPrivate(made.st, RoomOf[m])
                                ELSE BindContext(made.st, bound)
      /\ task' = [task EXCEPT ![t] = tk]
  BY <1>1, <1>2, <1>3, <1>4, <1>5, <1>6, <1>7 DEF TranslateBegin, Runs
<1>9. quoted \in Seq(Msgs) /\ Len(quoted) = IF Len(Quotes[m]) > 1 THEN Len(Quotes[m]) ELSE 0
  <2>1. Quotes[m] \in Seq(Msgs)
    BY HotStorageAssumption
  <2> QED BY <1>1, <2>1
<1>10. msgs \in Seq(Msgs) /\ Len(msgs) = Len(quoted) + 1
  BY <1>2, <1>9
<1>11. Sound(mem) /\ IsBatch(<<>>) /\ MappedIn(<<>>) = {}
  BY NoBatch DEF HotInv, Stored, Sound
<1>12. /\ Allocates(mem, <<>>, made.st, made.batch)
       /\ made.ids \in Seq(Surrogates) /\ Len(made.ids) = Len(msgs)
  BY <1>3, <1>10, <1>11, AllocateAllFacts
<1>13. Sound(made.st) /\ IsBatch(made.batch)
  BY <1>12 DEF Allocates
<1>14. Sound(mem') /\ SameIds(mem', made.st)
  <2>1. CASE m \in Direct
    BY <1>8, <1>13, <2>1, BindFacts
  <2>2. CASE m \notin Direct
    BY <1>8, <1>13, <2>2, BindFacts
  <2> QED BY <2>1, <2>2
<1>15. IsBatch(binding) /\ MappedIn(binding) = {}
  <2>1. \A room : LET x == PrivateBind(room) IN IsMutation(x) /\ x.op # "id_put"
    BY DEF PrivateBind, IsMutation
  <2>2. \A entry : LET x == ContextBind(entry) IN IsMutation(x) /\ x.op # "id_put"
    BY DEF ContextBind, IsMutation
  <2>3. CASE m \in Direct
    <3>1. binding = <<PrivateBind(RoomOf[m])>>
      BY <1>5, <2>3
    <3> QED BY <2>1, <3>1, OneMutation
  <2>4. CASE m \notin Direct /\ ContextRefused(made.st, bound)
    <3>1. binding = <<>>
      BY <1>5, <2>4
    <3> QED BY <1>11, <3>1
  <2>5. CASE m \notin Direct /\ ~ContextRefused(made.st, bound)
    <3>1. binding = <<ContextBind(bound)>>
      BY <1>5, <2>5
    <3> QED BY <2>2, <3>1, OneMutation
  <2> QED BY <2>3, <2>4, <2>5
<1>16. IsBatch(tk.batch) /\ MappedIn(tk.batch) = MappedIn(made.batch)
  <2>1. tk.batch = all
    BY <1>7
  <2>2. IsBatch(all) /\ MappedIn(all) = MappedIn(made.batch)
    <3>1. PICK b : b = made.batch
      OBVIOUS
    <3>2. IsBatch(b \o binding) /\ MappedIn(b \o binding) = MappedIn(b) \cup MappedIn(binding)
      BY <1>13, <1>15, <3>1, BatchConcat
    <3> QED BY <1>6, <1>15, <3>1, <3>2
  <2> QED BY <2>1, <2>2
<1>17. Allocates(mem, <<>>, mem', tk.batch)
  BY <1>11, <1>12, <1>14, <1>16, AllocatesSame
<1>18. Translation(tk)
  <2>1. tk.pc = "translating" /\ tk.msg = m /\ tk.ids = made.ids
    BY <1>7
  <2>2. tk = [field \in {"pc", "msg", "ids", "batch"} |-> tk[field]]
    BY <1>7
  <2>3. Len(tk.ids) = IF Len(Quotes[m]) > 1 THEN Len(Quotes[m]) + 1 ELSE 1
    BY <1>9, <1>10, <1>12, <2>1
  <2> QED BY <1>12, <1>16, <2>1, <2>2, <2>3 DEF Translation
<1>19. MappedIn(<<>>) \subseteq MappedIn(task[t].batch)
  BY <1>11
<1> QED BY <1>8, <1>14, <1>17, <1>18, <1>19, TaskStep

LEMMA PersistStep ==
  ASSUME HotInv, NEW t \in Tasks, _persist_translated_event(t)
  PROVE  HotInv'
<1> DEFINE m == task[t].msg
           late == IF Len(Quotes[m]) > 1 THEN <<>> ELSE Quotes[m]
           made == AllocateAll(mem, task[t].batch, late)
           own == [source |-> m, surrogate |-> task[t].ids[Len(task[t].ids)]]
<1>1. PICK used \in SUBSET (IF Len(Quotes[m]) > 1 THEN DOMAIN Quotes[m] ELSE {}) :
        LET kept == InOrder(used, [i \in used |-> i])
            entries == Append([i \in DOMAIN kept |->
                                 [source |-> Quotes[m][kept[i]],
                                  surrogate |-> task[t].ids[kept[i]]]], own)
        IN  /\ mem' = PutMessages(made.st, entries)
            /\ task' = [task EXCEPT ![t].pc = "ending", ![t].batch =
                 made.batch \o [i \in DOMAIN entries |-> MessagePut(entries[i])]]
  BY DEF _persist_translated_event, Runs
<1>2. m = task[t].msg
  OBVIOUS
<1>3. late = IF Len(Quotes[m]) > 1 THEN <<>> ELSE Quotes[m]
  OBVIOUS
<1>4. made = AllocateAll(mem, task[t].batch, late)
  OBVIOUS
<1>5. own = [source |-> m, surrogate |-> task[t].ids[Len(task[t].ids)]]
  OBVIOUS
<1> HIDE DEF m, late, made, own
<1>6. PICK kept : kept = InOrder(used, [i \in used |-> i])
  OBVIOUS
<1>7. PICK quotes : quotes = [i \in DOMAIN kept |-> [source |-> Quotes[m][kept[i]],
                                                     surrogate |-> task[t].ids[kept[i]]]]
  OBVIOUS
<1>8. PICK entries : entries = Append(quotes, own)
  OBVIOUS
<1>9. PICK puts : puts = [i \in DOMAIN entries |-> MessagePut(entries[i])]
  OBVIOUS
<1>10. PICK all : all = made.batch \o puts
  OBVIOUS
<1>11. PICK tk : tk = [task[t] EXCEPT !.pc = "ending", !.batch = all]
  OBVIOUS
<1>12. /\ up /\ task[t].pc = "translating" /\ UNCHANGED <<accepted, files, setting, up, ghosts>>
       /\ mem' = PutMessages(made.st, entries)
       /\ task' = [task EXCEPT ![t] = tk]
  <2>1. /\ mem' = PutMessages(made.st, entries)
        /\ task' = [task EXCEPT ![t].pc = "ending", ![t].batch = all]
    BY <1>1, <1>6, <1>7, <1>8, <1>9, <1>10
  <2>2. t \in DOMAIN task
    BY DEF HotInv, Stored
  <2>3. task' = [task EXCEPT ![t] = tk]
    BY <1>11, <2>1, <2>2
  <2> QED BY <2>1, <2>3 DEF _persist_translated_event, Runs
<1>13. /\ Translation(task[t]) /\ m \in Msgs /\ task[t].ids \in Seq(Surrogates)
       /\ Len(task[t].ids) = IF Len(Quotes[m]) > 1 THEN Len(Quotes[m]) + 1 ELSE 1
       /\ IsBatch(task[t].batch) /\ Sound(mem)
  BY <1>2, <1>12 DEF HotInv, Stored, Translation, Sound
<1>14. Quotes[m] \in Seq(Msgs) /\ Len(Quotes[m]) \in Nat /\ DOMAIN Quotes[m] = 1 .. Len(Quotes[m])
  BY <1>13, HotStorageAssumption
<1>15. late \in Seq(Msgs)
  BY <1>3, <1>14
<1>16. Allocates(mem, task[t].batch, made.st, made.batch)
  BY <1>4, <1>13, <1>15, AllocateAllFacts
<1>17. Sound(made.st) /\ IsBatch(made.batch)
  BY <1>16 DEF Allocates
<1>18. entries \in Seq(Entries)
  <2>1. own \in Entries
    <3>1. Len(task[t].ids) \in 1 .. Len(task[t].ids)
      BY <1>13, <1>14
    <3> QED BY <1>5, <1>13, <3>1 DEF Entries
  <2>2. used \subseteq 1 .. Len(Quotes[m]) /\ used \subseteq 1 .. Len(task[t].ids)
    BY <1>13, <1>14
  <2>3. Cardinality(used) \in Nat /\ kept \in [1 .. Cardinality(used) -> used]
    <3>1. IsFiniteSet(used)
      <4>1. IsFiniteSet(1 .. Len(Quotes[m]))
        BY <1>14, FS_Interval
      <4> QED BY <2>2, <4>1, FS_Subset
    <3>2. PICK key : key = [i \in used |-> i]
      OBVIOUS
    <3>3. \A i \in used : key[i] \in Nat
      BY <2>2, <3>2
    <3> QED BY <1>6, <3>1, <3>2, <3>3, InOrderFacts
  <2>4. \A i \in used : Quotes[m][i] \in Msgs /\ task[t].ids[i] \in Surrogates
    BY <1>13, <1>14, <2>2
  <2>5. quotes \in [1 .. Cardinality(used) -> Entries]
    BY <1>7, <2>3, <2>4 DEF Entries
  <2>6. quotes \in Seq(Entries)
    BY <2>3, <2>5
  <2> QED BY <1>8, <2>1, <2>6
<1>19. IsBatch(puts) /\ MappedIn(puts) = {}
  <2>1. \A e \in Entries : LET x == MessagePut(e) IN IsMutation(x) /\ x.op = "message_put"
    BY DEF MessagePut, IsMutation
  <2>2. PICK S : S = {MessagePut(e) : e \in Entries}
    OBVIOUS
  <2>3. \A x \in S : IsMutation(x) /\ x.op = "message_put"
    BY <2>1, <2>2
  <2>4. Len(entries) \in Nat /\ \A i \in 1 .. Len(entries) : MessagePut(entries[i]) \in S
    BY <1>18, <2>2
  <2>5. puts \in [1 .. Len(entries) -> S]
    BY <1>9, <1>18, <2>4
  <2>6. puts \in Seq(S) /\ Len(puts) = Len(entries)
    BY <2>4, <2>5
  <2>7. IsBatch(puts)
    BY <2>3, <2>6, SeqBatch
  <2>8. \A p : p \notin MappedIn(puts)
    <3>1. \A i \in 1 .. Len(puts) : puts[i].op # "id_put"
      BY <2>3, <2>5, <2>6
    <3> QED BY <2>7, <3>1, InMapped
  <2> QED BY <2>7, <2>8
<1>20. Sound(mem') /\ SameIds(mem', made.st)
  BY <1>12, <1>17, <1>18, PutMessagesFacts
<1>21. /\ tk.pc = "ending" /\ tk.batch = all
       /\ tk = [field \in {"pc", "msg", "ids", "batch"} |-> tk[field]]
  BY <1>11, <1>13 DEF Translation
<1>22. IsBatch(tk.batch) /\ MappedIn(tk.batch) = MappedIn(made.batch)
  <2>1. PICK b : b = made.batch
    OBVIOUS
  <2>2. IsBatch(b \o puts) /\ MappedIn(b \o puts) = MappedIn(b) \cup MappedIn(puts)
    BY <1>17, <1>19, <2>1, BatchConcat
  <2> QED BY <1>10, <1>19, <1>21, <2>1, <2>2
<1>23. Allocates(mem, task[t].batch, mem', tk.batch)
  BY <1>13, <1>16, <1>20, <1>22, AllocatesSame
<1>24. Translation(tk)
  BY <1>21, <1>22 DEF Translation
<1> QED BY <1>12, <1>20, <1>23, <1>24, TaskStep

(* Only where the translation stands changes.                               *)
LEMMA TranslateFailsStep ==
  ASSUME HotInv, NEW t \in Tasks, TranslateFails(t)
  PROVE  HotInv'
<1>1. PICK tk : tk = [task[t] EXCEPT !.pc = "ending"]
  OBVIOUS
<1>2. /\ up /\ UNCHANGED <<accepted, files, setting, up, ghosts>> /\ mem' = mem
      /\ task' = [task EXCEPT ![t] = tk]
  <2>1. t \in DOMAIN task /\ task' = [task EXCEPT ![t].pc = "ending"]
    BY DEF HotInv, Stored, TranslateFails
  <2>2. task' = [task EXCEPT ![t] = tk]
    BY <1>1, <2>1
  <2> QED BY <2>2 DEF TranslateFails, Runs
<1>3. Translation(task[t]) /\ Sound(mem)
  BY DEF HotInv, Stored, Sound
<1>4. tk.pc = "ending" /\ tk.batch = task[t].batch
      /\ tk = [field \in {"pc", "msg", "ids", "batch"} |-> tk[field]]
  BY <1>1, <1>3 DEF Translation
<1>5. Translation(tk)
  BY <1>3, <1>4 DEF Translation
<1>6. Allocates(mem, task[t].batch, mem', tk.batch) /\ Sound(mem')
  BY <1>2, <1>3, <1>4, AllocatesNothing DEF Translation
<1> QED BY <1>2, <1>5, <1>6, TaskStep

LEMMA IdleFacts == Translation(IdleTask) /\ MappedIn(IdleTask.batch) = {}
<1>1. /\ IdleTask.pc = "idle" /\ IdleTask.batch = <<>>
      /\ IdleTask = [field \in {"pc", "msg", "ids", "batch"} |-> IdleTask[field]]
  BY DEF IdleTask
<1> QED BY <1>1, NoBatch DEF Translation

(* A batch that is committed was pending already.                           *)
LEMMA CommitStep ==
  ASSUME HotInv, NEW t \in Tasks, commit(t)
  PROVE  HotInv'
<1>1. PICK b : b = task[t].batch
  OBVIOUS
<1>2. /\ up /\ mem' = mem /\ UNCHANGED <<files, setting, up, ghosts>>
      /\ task' = [task EXCEPT ![t] = IdleTask]
      /\ accepted' = IF b = <<>> THEN accepted ELSE Append(accepted, b)
  BY <1>1 DEF commit, Runs
<1>3. /\ DOMAIN task' = Tasks /\ task'[t] = IdleTask
      /\ \A u \in Tasks : u # t => task'[u] = task[u]
  BY <1>2 DEF HotInv, Stored
<1>4. \A u \in Tasks : Translation(task'[u])
  BY <1>3, IdleFacts DEF HotInv, Stored
<1>5. AreBatches(accepted) /\ IsBatch(b) /\ Sound(mem) /\ setting' \in Windows
  BY <1>1, <1>2 DEF HotInv, Stored, Translation, Sound
<1>6. AreBatches(accepted') /\ MappedBy(accepted') \subseteq MappedBy(accepted) \cup MappedIn(b)
  <2>1. PICK later : later = Append(accepted, b)
    OBVIOUS
  <2>2. AreBatches(later) /\ MappedBy(later) = MappedBy(accepted) \cup MappedIn(b)
    BY <1>5, <2>1, BatchesAppend
  <2> QED BY <1>2, <1>5, <2>1, <2>2
<1>7. Pending' \subseteq Pending
  <2> SUFFICES ASSUME NEW p \in Pending' PROVE p \in Pending
    OBVIOUS
  <2>1. CASE p \in MappedBy(accepted')
    BY <1>1, <1>6, <2>1, InPending
  <2>2. CASE \E u \in Tasks : p \in MappedIn(task'[u].batch)
    <3>1. PICK u \in Tasks : p \in MappedIn(task'[u].batch)
      BY <2>2
    <3>2. u # t
      BY <1>3, <3>1, IdleFacts
    <3> QED BY <1>3, <3>1, <3>2, InPending
  <2> QED BY <2>1, <2>2, InPending
<1>8. Allocates(mem, <<>>, mem', <<>>) /\ Sound(mem') /\ MappedIn(<<>>) = {}
  BY <1>2, <1>5, NoBatch, AllocatesNothing
<1>9. Pending \cup MappedIn(<<>>) \subseteq Pending /\ Pending' \subseteq Pending \cup MappedIn(<<>>)
  BY <1>7, <1>8
<1> QED BY <1>2, <1>3, <1>4, <1>5, <1>6, <1>8, <1>9, EngineStep

(* The engine changes, and a batch follows that is recorded, or is lost     *)
(* when the queue stays full.                                               *)
LEMMA RecordStep ==
  ASSUME HotInv, up, UNCHANGED <<task, files, up, ghosts>>, setting' \in Windows,
         NEW b, IsBatch(b), accepted' = accepted \/ Accept(b), Sound(mem'),
         Allocates(mem, <<>>, mem', b)
  PROVE  HotInv'
<1>1. AreBatches(accepted) /\ DOMAIN task' = Tasks /\ \A t \in Tasks : Translation(task'[t])
  BY DEF HotInv, Stored
<1>2. AreBatches(accepted') /\ MappedBy(accepted') \subseteq MappedBy(accepted) \cup MappedIn(b)
  <2>1. PICK later : later = Append(accepted, b)
    OBVIOUS
  <2>2. AreBatches(later) /\ MappedBy(later) = MappedBy(accepted) \cup MappedIn(b)
    BY <1>1, <2>1, BatchesAppend
  <2>3. accepted' = accepted \/ accepted' = later
    BY <2>1 DEF Accept
  <2> QED BY <1>1, <2>2, <2>3
<1>3. Pending \cup MappedIn(<<>>) \subseteq Pending
  BY NoBatch
<1>4. Pending' \subseteq Pending \cup MappedIn(b)
  <2> SUFFICES ASSUME NEW p \in Pending' PROVE p \in Pending \cup MappedIn(b)
    OBVIOUS
  <2>1. p \in MappedBy(accepted') \/ \E t \in Tasks : p \in MappedIn(task[t].batch)
    BY InPending
  <2> QED BY <1>2, <2>1, InPending
<1>5. up' = up /\ UNCHANGED <<files, ghosts>>
  OBVIOUS
<1> QED BY <1>1, <1>2, <1>3, <1>4, <1>5, EngineStep

LEMMA AllocateStep ==
  ASSUME HotInv, NEW m \in Msgs, allocate_mapping(m)
  PROVE  HotInv'
<1>1. PICK x : x = IdPut(m, mem.counter + 1)
  OBVIOUS
<1>2. /\ up /\ m \notin DOMAIN mem.forward /\ mem' = Allocate(mem, m) /\ Accept(<<x>>)
      /\ UNCHANGED <<task, files, setting, up, ghosts>>
  BY <1>1 DEF allocate_mapping, Runs
<1>3. Sound(mem) /\ setting' \in Windows /\ IsBatch(<<>>) /\ MappedIn(<<>>) = {}
  BY <1>2, NoBatch DEF HotInv, Stored, Sound
<1>4. PICK b : b = Append(<<>>, x)
  OBVIOUS
<1>5. Allocates(mem, <<>>, mem', b)
  BY <1>1, <1>2, <1>3, <1>4, AllocatesOne
<1>6. b = <<x>> /\ IsBatch(b) /\ Sound(mem')
  BY <1>4, <1>5 DEF Allocates
<1> QED BY <1>2, <1>3, <1>5, <1>6, RecordStep

LEMMA BindStep ==
  ASSUME HotInv, NEW room, bind_context_room(room)
  PROVE  HotInv'
<1>1. PICK bound : bound = [room |-> room, time |-> 0]
  OBVIOUS
<1>2. PICK b : b = <<ContextBind(bound)>>
  OBVIOUS
<1>3. /\ up /\ mem' = BindContext(mem, bound) /\ Accept(b)
      /\ UNCHANGED <<task, files, setting, up, ghosts>>
  BY <1>1, <1>2 DEF bind_context_room, Runs
<1>4. Sound(mem) /\ setting' \in Windows /\ IsBatch(<<>>) /\ MappedIn(<<>>) = {}
  BY <1>3, NoBatch DEF HotInv, Stored, Sound
<1>5. IsBatch(b) /\ MappedIn(b) = {}
  <2>1. PICK x : x = ContextBind(bound)
    OBVIOUS
  <2>2. IsMutation(x) /\ x.op = "context_bind"
    BY <2>1 DEF ContextBind, IsMutation
  <2> QED BY <1>2, <2>1, <2>2, OneMutation
<1>6. Sound(mem') /\ SameIds(mem', mem)
  BY <1>3, <1>4, BindFacts
<1>7. Allocates(mem, <<>>, mem', b)
  BY <1>4, <1>5, <1>6, AllocatesNothing, AllocatesSame
<1> QED BY <1>3, <1>4, <1>5, <1>6, <1>7, RecordStep

(* Whatever is trimmed away gives out no surrogate.                         *)
LEMMA ResizeStep ==
  ASSUME HotInv, NEW w \in Windows, rebuild_message_indexes(w)
  PROVE  HotInv'
<1>1. PICK r : r = ResizeRecords(mem, w)
  OBVIOUS
<1>2. /\ up /\ setting' = w /\ mem' = Resized(mem, w)
      /\ IF r = <<>> THEN accepted' = accepted ELSE Accept(r[1])
      /\ UNCHANGED <<task, files, up, ghosts>>
  BY <1>1 DEF rebuild_message_indexes, Runs
<1>3. Sound(mem) /\ IsBatch(<<>>) /\ MappedIn(<<>>) = {} /\ w \in Surrogates
  BY NoBatch, WindowsAreSurrogates DEF HotInv, Stored, Sound
<1>4. PICK b : IsBatch(b) /\ MappedIn(b) = {} /\ (accepted' = accepted \/ Accept(b))
  <2>1. CASE r = <<>>
    BY <1>2, <1>3, <2>1
  <2>2. CASE r # <<>>
    <3>1. IsBatch(r[1]) /\ MappedIn(r[1]) = {}
      BY <1>1, <1>3, <2>2, ResizeRecordsFacts
    <3> QED BY <1>2, <2>2, <3>1
  <2> QED BY <2>1, <2>2
<1>5. /\ Sound(mem') /\ mem'.counter = mem.counter /\ PartOf(mem'.reverse, mem.reverse)
      /\ Mapped(mem) => Windowed(mem')
  BY <1>2, <1>3, ResizedFacts
<1>6. Allocates(mem, <<>>, mem', <<>>)
  BY <1>3, <1>5, AllocatesLess DEF Windowed
<1>7. SameIds(mem', mem')
  BY DEF SameIds
<1>8. Allocates(mem, <<>>, mem', b)
  BY <1>3, <1>4, <1>5, <1>6, <1>7, AllocatesSame
<1> QED BY <1>2, <1>4, <1>5, <1>8, RecordStep

-----------------------------------------------------------------------------
(* The writer and the files                                                 *)

LEMMA AfterFacts ==
  ASSUME Stored, NEW n \in 0 .. Len(logged)
  PROVE  Sound(After(n)) /\ Len(logged) \in 0 .. Len(logged)
<1>1. AreBatches(logged) /\ Sound(origin)
  BY DEF Stored, Sound
<1>2. AreBatches(SubSeq(logged, 1, n)) /\ Len(logged) \in Nat
  BY <1>1, BatchesPrefix
<1>3. Sound(After(n))
  BY <1>1, <1>2, ReplayedFacts DEF After
<1>4. PICK k : k = Len(logged)
  OBVIOUS
<1>5. k \in Nat => k \in 0 .. k
  OBVIOUS
<1> QED BY <1>2, <1>3, <1>4, <1>5

(* The record that is written next fits what the journal gives so far.      *)
LEMMA WriteRecordStep ==
  ASSUME HotInv, WriteRecord
  PROVE  HotInv'
<1>1. PICK b : b = Head(accepted)
  OBVIOUS
<1>2. /\ up /\ logged' = Append(logged, b) /\ accepted' = Tail(accepted) /\ accepted # <<>>
      /\ UNCHANGED <<mem, task, flushed, saved, rotation, setting, up, ghosts>> /\ rotation = None
      /\ origin' = origin /\ coherent' = coherent
  BY <1>1 DEF WriteRecord, ghosts
<1>3. /\ AreBatches(accepted) /\ AreBatches(logged) /\ Sound(mem) /\ Sound(origin)
      /\ flushed \in 0 .. Len(logged) /\ coherent \in BOOLEAN
  BY DEF HotInv, Stored, Sound
<1>4. /\ IsBatch(b) /\ AreBatches(accepted') /\ MappedBy(accepted) = MappedIn(b) \cup MappedBy(accepted')
  BY <1>1, <1>2, <1>3, BatchesTail
<1>5. PICK k : k = Len(logged)
  OBVIOUS
<1>6. /\ AreBatches(logged') /\ Len(logged') = k + 1 /\ k \in Nat
      /\ \A n \in 0 .. k : SubSeq(logged', 1, n) = SubSeq(logged, 1, n)
      /\ SubSeq(logged', 1, k + 1) = logged'
  BY <1>2, <1>3, <1>4, <1>5, BatchesAppend, BatchesSeq
<1>7. Stored'
  <2>1. flushed' \in 0 .. Len(logged')
    BY <1>2, <1>3, <1>5, <1>6
  <2> QED BY <1>2, <1>4, <1>6, <2>1 DEF HotInv, Stored
<1>8. \A n \in 0 .. k : After(n)' = After(n)
  BY <1>2, <1>6 DEF After
<1>9. PICK last : last = After(k)
  OBVIOUS
<1>10. k \in 0 .. k /\ k \in 0 .. Len(logged)
  BY <1>5, <1>6
<1>11. Sound(last)
  BY <1>9, <1>10, AfterFacts DEF HotInv
<1>12. PICK next : next = After(k + 1)'
  OBVIOUS
<1>13. BatchTurns(last, b, Len(b), next)
  <2>1. last = Replayed(origin, logged)
    BY <1>3, <1>5, <1>9, BatchesPrefix DEF After
  <2>2. next = Replayed(origin, logged')
    BY <1>2, <1>6, <1>12 DEF After
  <2>3. next = _apply_batch(last, b)
    BY <1>2, <1>3, <1>4, <2>1, <2>2, ReplayedSteps
  <2> QED BY <1>4, <1>11, <2>3, ApplyBatchFacts
<1>14. MappedIn(b) \subseteq Pending /\ Pending' \subseteq Pending
  BY <1>2, <1>4, InPending
<1>15. ASSUME coherent PROVE Replayable'
  <2>1. /\ \A n \in 0 .. k : Windowed(After(n))
        /\ saved # None => Windowed(saved)
        /\ Windowed(mem) /\ last.counter <= mem.counter
        /\ Functional(Pending) /\ Fits(mem, Pending) /\ Fits(last, Pending)
        /\ \A p \in Pending : p[1] <= mem.counter
    BY <1>2, <1>5, <1>9, <1>15 DEF HotInv, Replayable, Behind
  <2>2. Windowed(last)
    BY <1>9, <1>10, <2>1
  <2>3. Functional(MappedIn(b)) /\ Fits(last, MappedIn(b))
    BY <1>14, <2>1 DEF Functional, Fits
  <2>4. Windowed(next)
    BY <1>13, <2>2, <2>3 DEF BatchTurns
  <2>5. \A n \in 0 .. Len(logged') : Windowed(After(n)')
    <3> SUFFICES ASSUME NEW n \in 0 .. Len(logged') PROVE Windowed(After(n)')
      OBVIOUS
    <3>1. CASE n \in 0 .. k
      BY <1>8, <2>1, <3>1
    <3>2. CASE n \notin 0 .. k
      <4>1. n = k + 1
        BY <1>6, <3>2
      <4> QED BY <1>12, <2>4, <4>1
    <3> QED BY <3>1, <3>2
  <2>6. next.counter <= mem.counter
    <3>1. CASE next.counter = last.counter
      BY <2>1, <3>1
    <3>2. CASE \E p \in MappedIn(b) : next.counter = p[1]
      BY <1>14, <2>1, <3>2
    <3> QED BY <1>13, <3>1, <3>2 DEF BatchTurns
  <2>7. Fits(next, Pending')
    <3> SUFFICES ASSUME NEW p \in Pending', p[1] \in DOMAIN next.reverse
                 PROVE  next.reverse[p[1]] = p[2]
      BY DEF Fits
    <3>1. p \in Pending
      BY <1>14
    <3>2. CASE p[1] \in DOMAIN last.reverse /\ next.reverse[p[1]] = last.reverse[p[1]]
      BY <2>1, <3>1, <3>2 DEF Fits
    <3>3. CASE <<p[1], next.reverse[p[1]]>> \in MappedIn(b)
      <4>1. PICK q \in Pending : q = <<p[1], next.reverse[p[1]]>>
        BY <1>14, <3>3
      <4>2. p[1] = q[1] => p[2] = q[2]
        BY <2>1, <3>1 DEF Functional
      <4> QED BY <4>1, <4>2
    <3> QED BY <1>13, <3>2, <3>3 DEF BatchTurns
  <2>8. /\ Functional(Pending') /\ Fits(mem, Pending')
        /\ \A p \in Pending' : p[1] <= mem.counter
    BY <1>14, <2>1 DEF Functional, Fits
  <2>9. After(Len(logged))' = next
    BY <1>6, <1>12
  <2>10. Behind(After(Len(logged)))'
    BY <1>2, <2>6, <2>7, <2>9 DEF Behind
  <2> QED BY <1>2, <2>1, <2>5, <2>8, <2>10 DEF Replayable
<1>16. ASSUME ~coherent PROVE Replayable'
  BY <1>2, <1>16 DEF Replayable
<1> QED BY <1>3, <1>7, <1>15, <1>16 DEF HotInv

(* A step of the writer that leaves the journal, the engine and what is     *)
(* pending alone.                                                           *)
LEMMA WriterStep ==
  ASSUME HotInv, Stored', UNCHANGED <<mem, task, accepted, logged, up, origin, coherent>>,
         coherent /\ saved' # None => Windowed(saved'),
         coherent /\ up /\ rotation' # None => Windowed(rotation'.capture) /\ Behind(rotation'.capture)
  PROVE  HotInv'
<1>1. /\ \A n : After(n)' = After(n)
      /\ After(Len(logged))' = After(Len(logged))
  BY DEF After
<1>2. Pending' = Pending
  BY DEF Pending
<1>3. Behind(After(Len(logged)))' <=> Behind(After(Len(logged)))
  BY <1>1, <1>2 DEF Behind
<1>4. Behind(rotation.capture)' <=> Behind(rotation'.capture)
  BY <1>2 DEF Behind
<1> QED BY <1>1, <1>2, <1>3, <1>4 DEF HotInv, Replayable

LEMMA FlushJournalStep ==
  ASSUME HotInv, FlushJournal
  PROVE  HotInv'
<1>1. /\ UNCHANGED <<mem, task, accepted, logged, saved, rotation, setting, up, origin, coherent>>
      /\ flushed' = Len(logged) /\ rotation = None
  BY DEF FlushJournal
<1>2. Stored'
  <2>1. Len(logged) \in 0 .. Len(logged)
    BY BatchesSeq DEF HotInv, Stored
  <2> QED BY <1>1, <2>1 DEF HotInv, Stored
<1>3. coherent /\ saved' # None => Windowed(saved')
  BY <1>1 DEF HotInv, Replayable
<1> QED BY <1>1, <1>2, <1>3, WriterStep

(* What is captured is the state of the engine, which everything pending    *)
(* fits.                                                                    *)
LEMMA CaptureStep ==
  ASSUME HotInv, NEW last, CaptureState(last)
  PROVE  HotInv'
<1>1. /\ UNCHANGED <<mem, task, accepted, logged, flushed, saved, setting, up, origin, coherent>>
      /\ up /\ rotation' = [step |-> "replace", capture |-> mem, last |-> last]
  BY DEF CaptureState, ghosts
<1>2. /\ rotation'.capture = mem
      /\ rotation' = [f \in {"step", "capture", "last"} |-> rotation'[f]]
  BY <1>1
<1>3. Stored'
  BY <1>1, <1>2 DEF HotInv, Stored
<1>4. coherent => Windowed(mem) /\ Behind(mem)
  <2>1. mem.counter \in Nat
    BY DEF HotInv, Stored, Engine
  <2> QED BY <1>1, <2>1 DEF HotInv, Replayable, Behind
<1>5. coherent /\ saved' # None => Windowed(saved')
  BY <1>1 DEF HotInv, Replayable
<1> QED BY <1>1, <1>2, <1>3, <1>4, <1>5, WriterStep

(* The next step of a rotation keeps the state captured.                    *)
LEMMA RotationGoesOn ==
  ASSUME HotInv, rotation # None, NEW step, rotation' = [rotation EXCEPT !.step = step]
  PROVE  /\ rotation'.capture = rotation.capture
         /\ rotation' = [f \in {"step", "capture", "last"} |-> rotation'[f]]
         /\ up /\ Sound(rotation.capture)
         /\ coherent => Windowed(rotation.capture) /\ Behind(rotation.capture)
  BY DEF HotInv, Stored, Replayable, Sound

LEMMA InstallSnapshotStep ==
  ASSUME HotInv, InstallSnapshot
  PROVE  HotInv'
<1>1. /\ UNCHANGED <<mem, task, accepted, logged, flushed, setting, up, origin, coherent>>
      /\ rotation # None /\ rotation' = [rotation EXCEPT !.step = "close"]
      /\ saved' = rotation.capture
  BY DEF InstallSnapshot, Rotates
<1>2. /\ rotation'.capture = rotation.capture
      /\ rotation' = [f \in {"step", "capture", "last"} |-> rotation'[f]]
      /\ up /\ Sound(rotation.capture)
      /\ coherent => Windowed(rotation.capture) /\ Behind(rotation.capture)
  BY <1>1, RotationGoesOn
<1>3. Stored'
  BY <1>1, <1>2 DEF HotInv, Stored, Sound
<1> QED BY <1>1, <1>2, <1>3, WriterStep

LEMMA CloseHandleStep ==
  ASSUME HotInv, CloseHandle
  PROVE  HotInv'
<1>1. /\ UNCHANGED <<mem, task, accepted, logged, saved, setting, up, origin, coherent>>
      /\ rotation # None /\ rotation' = [rotation EXCEPT !.step = "truncate"]
      /\ flushed' = Len(logged)
  BY DEF CloseHandle, Rotates
<1>2. /\ rotation'.capture = rotation.capture
      /\ rotation' = [f \in {"step", "capture", "last"} |-> rotation'[f]]
      /\ up /\ Sound(rotation.capture)
      /\ coherent => Windowed(rotation.capture) /\ Behind(rotation.capture)
  BY <1>1, RotationGoesOn
<1>3. Stored'
  <2>1. Len(logged) \in 0 .. Len(logged)
    BY BatchesSeq DEF HotInv, Stored
  <2> QED BY <1>1, <1>2, <2>1 DEF HotInv, Stored, Sound
<1>4. coherent /\ saved' # None => Windowed(saved')
  BY <1>1 DEF HotInv, Replayable
<1> QED BY <1>1, <1>2, <1>3, <1>4, WriterStep

(* What a process that has ended leaves in memory: nothing.                 *)
LEMMA EndedFacts ==
  ASSUME HotInv, ProcessEnds
  PROVE  /\ Sound(mem') /\ AreBatches(accepted') /\ up' = FALSE /\ DOMAIN task' = Tasks
         /\ \A t \in Tasks : Translation(task'[t]) /\ task'[t] = IdleTask
<1>1. setting \in Surrogates
  BY WindowsAreSurrogates DEF HotInv, Stored
<1> QED BY <1>1, FreshFacts, NoBatches, IdleFacts DEF ProcessEnds

LEMMA CrashStep ==
  ASSUME HotInv, ProcessDies
  PROVE  HotInv'
<1>1. PICK n \in flushed .. Len(logged) : logged' = SubSeq(logged, 1, n) /\ flushed' = n
  BY DEF ProcessDies
<1>2. /\ ProcessEnds /\ saved' = saved /\ setting' = setting
      /\ origin' = origin /\ coherent' = coherent /\ rotation' = None
  BY DEF ProcessDies
<1>3. AreBatches(logged) /\ Len(logged) \in Nat /\ n \in 0 .. Len(logged) /\ n \in Nat
  BY <1>1, BatchesSeq DEF HotInv, Stored
<1>4. /\ AreBatches(logged') /\ Len(logged') = n
      /\ \A k \in 0 .. n : SubSeq(logged', 1, k) = SubSeq(logged, 1, k)
  BY <1>1, <1>3, BatchesPrefix
<1>5. Stored'
  <2>1. flushed' \in 0 .. Len(logged')
    BY <1>1, <1>3, <1>4
  <2> QED BY <1>2, <1>4, <2>1, EndedFacts DEF HotInv, Stored, Sound
<1>6. Replayable'
  <2>1. ASSUME NEW k \in 0 .. n PROVE After(k)' = After(k) /\ k \in 0 .. Len(logged)
    <3>1. After(k)' = After(k)
      BY <1>2, <1>4 DEF After
    <3>2. k \in 0 .. Len(logged)
      BY <1>3
    <3> QED BY <3>1, <3>2
  <2>2. ~up'
    BY <1>2, EndedFacts
  <2>3. coherent => \A k \in 0 .. Len(logged') : Windowed(After(k)')
    BY <1>4, <2>1 DEF HotInv, Replayable
  <2> QED BY <1>2, <2>2, <2>3 DEF HotInv, Replayable
<1> QED BY <1>5, <1>6 DEF HotInv

(* The new journal continues the state that the snapshot holds.             *)
LEMMA TruncateFacts ==
  ASSUME HotInv, TruncateJournal
  PROVE  /\ up /\ Sound(origin') /\ SameIds(origin', rotation.capture)
         /\ AreBatches(logged') /\ Len(logged') = 0 /\ flushed' = 0
         /\ saved' = saved /\ rotation' = None /\ setting' = setting /\ coherent' = coherent
         /\ After(0)' = origin' /\ After(Len(logged))' = origin'
         /\ coherent => /\ Windowed(origin') /\ Behind(rotation.capture)
                        /\ saved' # None => Windowed(saved')
<1>1. /\ rotation # None /\ rotation' = None /\ logged' = <<>> /\ flushed' = 0
      /\ origin' = Loaded(rotation.capture)
      /\ saved' = saved /\ setting' = setting /\ coherent' = coherent
  BY DEF TruncateJournal, Rotates
<1>2. up /\ Sound(rotation.capture)
  BY <1>1 DEF HotInv, Stored, Sound
<1>3. Sound(origin') /\ SameIds(origin', rotation.capture)
  BY <1>1, <1>2, LoadedFacts
<1>4. AreBatches(logged') /\ Len(logged') = 0
  BY <1>1, NoBatches
<1>5. SubSeq(logged', 1, 0) = <<>>
  BY <1>1
<1>6. After(0)' = origin' /\ After(Len(logged))' = origin'
  BY <1>4, <1>5, ReplayedSteps DEF After
<1>7. ASSUME coherent
      PROVE  /\ Windowed(origin') /\ Behind(rotation.capture)
             /\ saved' # None => Windowed(saved')
  <2>1. Windowed(rotation.capture) /\ Behind(rotation.capture) /\ (saved # None => Windowed(saved))
    BY <1>1, <1>2, <1>7 DEF HotInv, Replayable
  <2> QED BY <1>1, <1>3, <2>1, SameIdsAgree
<1> QED BY <1>1, <1>2, <1>3, <1>4, <1>6, <1>7

LEMMA TruncateStep ==
  ASSUME HotInv, TruncateJournal
  PROVE  HotInv'
<1>1. /\ up /\ Sound(origin') /\ SameIds(origin', rotation.capture)
      /\ AreBatches(logged') /\ Len(logged') = 0 /\ flushed' = 0
      /\ saved' = saved /\ rotation' = None /\ setting' = setting /\ coherent' = coherent
      /\ After(0)' = origin' /\ After(Len(logged))' = origin'
      /\ coherent => /\ Windowed(origin') /\ Behind(rotation.capture)
                     /\ saved' # None => Windowed(saved')
  BY TruncateFacts
<1>2. flushed' \in 0 .. Len(logged')
  BY <1>1
<1>3. coherent => \A k \in 0 .. Len(logged') : Windowed(After(k)')
  <2>1. \A k \in 0 .. Len(logged') : k = 0
    BY <1>1
  <2> QED BY <1>1, <2>1
<1>4. CASE ProcessEnds
  <2>1. ~up'
    BY <1>4 DEF ProcessEnds
  <2>2. Stored'
    BY <1>1, <1>2, <1>4, EndedFacts DEF HotInv, Stored, Sound
  <2> QED BY <1>1, <1>3, <2>1, <2>2 DEF HotInv, Replayable
<1>5. CASE UNCHANGED <<mem, task, accepted, up>>
  <2>1. Stored'
    BY <1>1, <1>2, <1>5 DEF HotInv, Stored, Sound
  <2>2. ASSUME coherent PROVE Replayable'
    <3>1. /\ Windowed(mem) /\ Functional(Pending) /\ Fits(mem, Pending)
          /\ \A p \in Pending : p[1] <= mem.counter
      BY <1>1, <2>2 DEF HotInv, Replayable
    <3>2. Pending' = Pending
      BY <1>5 DEF Pending
    <3>3. origin'.counter <= mem.counter /\ Fits(origin', Pending)
      BY <1>1, <2>2 DEF Behind, Fits, SameIds
    <3>4. Behind(After(Len(logged)))'
      BY <1>1, <1>5, <3>2, <3>3 DEF Behind
    <3> QED BY <1>1, <1>3, <1>5, <2>2, <3>1, <3>2, <3>4 DEF Replayable
  <2>3. ASSUME ~coherent PROVE Replayable'
    BY <1>1, <2>3 DEF Replayable
  <2> QED BY <2>1, <2>2, <2>3 DEF HotInv
<1> QED BY <1>4, <1>5 DEF TruncateJournal

(* What the process reads when it comes back.                               *)
LEMMA BuildStep ==
  ASSUME HotInv, build_runtime_hot_stores
  PROVE  HotInv'
<1>1. PICK base \in load_snapshot_payload :
        /\ mem' = Resized(Replayed(base, logged), setting)
        /\ accepted' = ResizeRecords(Replayed(base, logged), setting)
        /\ origin' = base
        /\ coherent' = (coherent /\ (\/ base = origin
                                     \/ Functional(Given(base) \cup MappedBy(logged))))
  BY DEF build_runtime_hot_stores
<1>2. /\ ~up /\ up' = TRUE /\ UNCHANGED <<task, setting>>
      /\ logged' = logged /\ flushed' = flushed /\ saved' = saved /\ rotation' = rotation
  BY DEF build_runtime_hot_stores, files
<1>a. rotation = None
  BY <1>2 DEF HotInv, Stored
<1>3. PICK replayed : replayed = Replayed(base, logged)
  OBVIOUS
<1>4. setting \in Surrogates /\ AreBatches(logged)
  BY WindowsAreSurrogates DEF HotInv, Stored
<1>5. base = Fresh(setting) \/ (saved # None /\ base = Loaded(saved))
  BY <1>1 DEF load_snapshot_payload
<1>6. Sound(base) /\ (coherent => Windowed(base))
  <2>1. CASE base = Fresh(setting)
    BY <1>4, <2>1, FreshFacts
  <2>2. CASE saved # None /\ base = Loaded(saved)
    <3>1. Sound(saved) /\ (coherent => Windowed(saved))
      BY <2>2 DEF HotInv, Stored, Replayable, Sound
    <3>2. Sound(base) /\ SameIds(base, saved)
      BY <2>2, <3>1, LoadedFacts
    <3> QED BY <3>1, <3>2, SameIdsAgree
  <2> QED BY <1>5, <2>1, <2>2
<1>7. Sound(replayed)
  BY <1>3, <1>4, <1>6, ReplayedFacts
<1>8. /\ Sound(mem') /\ mem'.counter = replayed.counter
      /\ Mapped(replayed) => Windowed(mem')
  BY <1>1, <1>3, <1>4, <1>7, ResizedFacts
<1>9. AreBatches(accepted') /\ MappedBy(accepted') = {}
  BY <1>1, <1>3, <1>4, <1>7, ResizeRecordsFacts
<1>10. Stored'
  <2>1. coherent' \in BOOLEAN
    BY <1>1
  <2> QED BY <1>1, <1>2, <1>a, <1>6, <1>8, <1>9, <2>1 DEF HotInv, Stored, Sound
<1>11. Pending' = {}
  <2>1. \A t \in Tasks : MappedIn(task'[t].batch) = {}
    BY <1>2, IdleFacts DEF HotInv, Stored
  <2>2. \A p : p \notin Pending'
    BY <1>9, <2>1, InPending
  <2> QED BY <2>2
<1>12. ASSUME coherent' PROVE Replayable'
  <2>1. coherent /\ (base = origin \/ Functional(Given(base) \cup MappedBy(logged)))
    BY <1>1, <1>12
  <2>2. \A n \in 0 .. Len(logged) : Windowed(After(n)')
    <3> SUFFICES ASSUME NEW n \in 0 .. Len(logged) PROVE Windowed(After(n)')
      OBVIOUS
    <3>1. CASE base = origin
      <4>1. After(n)' = After(n)
        BY <1>1, <1>2, <3>1 DEF After
      <4> QED BY <2>1, <4>1 DEF HotInv, Replayable
    <3>2. CASE Functional(Given(base) \cup MappedBy(logged))
      <4>1. PICK first : first = SubSeq(logged, 1, n)
        OBVIOUS
      <4>2. AreBatches(first) /\ MappedBy(first) \subseteq MappedBy(logged)
        BY <1>4, <4>1, BatchesPrefix
      <4>3. Functional(Given(base) \cup MappedBy(first))
        BY <3>2, <4>2 DEF Functional
      <4>4. Windowed(Replayed(base, first))
        BY <1>6, <2>1, <4>2, <4>3, ReplayedFacts
      <4>5. After(n)' = Replayed(base, first)
        BY <1>1, <1>2, <4>1 DEF After
      <4> QED BY <4>4, <4>5
    <3> QED BY <2>1, <3>1, <3>2
  <2>3. Len(logged) \in 0 .. Len(logged) /\ After(Len(logged))' = replayed
    <3>1. PICK n : n = Len(logged) /\ n \in Nat
      BY <1>4, BatchesSeq
    <3>2. n \in 0 .. Len(logged)
      BY <3>1
    <3>3. SubSeq(logged, 1, Len(logged)) = logged
      BY <1>4, <3>1, <3>2, BatchesPrefix
    <3> QED BY <1>1, <1>2, <1>3, <3>1, <3>2, <3>3 DEF After
  <2>4. Windowed(replayed) /\ Windowed(mem')
    <3>1. Windowed(After(Len(logged))')
      <4>1. PICK n \in 0 .. Len(logged) : n = Len(logged)
        BY <2>3
      <4>2. After(n)' = After(Len(logged))'
        BY <1>2, <4>1 DEF After
      <4> QED BY <2>2, <4>2
    <3> QED BY <1>8, <2>3, <3>1 DEF Windowed
  <2>5. replayed.counter <= mem'.counter
    BY <1>7, <1>8 DEF Sound, Engine
  <2>6. /\ Functional(Pending') /\ Fits(mem', Pending') /\ Fits(replayed, Pending')
        /\ \A p \in Pending' : p[1] <= mem'.counter
    BY <1>11 DEF Functional, Fits
  <2>7. saved' # None => Windowed(saved')
    BY <1>2, <2>1 DEF HotInv, Replayable
  <2>8. Behind(After(Len(logged)))'
    BY <2>3, <2>5, <2>6 DEF Behind
  <2> QED BY <1>2, <1>a, <2>2, <2>4, <2>6, <2>7, <2>8 DEF Replayable
<1>13. ASSUME ~coherent' PROVE Replayable'
  BY <1>13 DEF Replayable
<1> QED BY <1>10, <1>12, <1>13 DEF HotInv

-----------------------------------------------------------------------------
(* The theorems                                                             *)

LEMMA InitHolds == HotInit => HotInv
<1> SUFFICES ASSUME HotInit PROVE HotInv
  OBVIOUS
<1>1. /\ setting \in Windows /\ mem = Fresh(setting) /\ saved = None
      /\ task = [t \in Tasks |-> IdleTask] /\ accepted = <<>> /\ logged = <<>> /\ flushed = 0
      /\ up = TRUE /\ origin = Fresh(setting) /\ coherent = TRUE /\ rotation = None
  BY DEF HotInit
<1>2. Sound(mem) /\ Windowed(mem) /\ mem.counter \in Nat
  BY <1>1, WindowsAreSurrogates, FreshFacts DEF Sound, Engine
<1>3. /\ AreBatches(accepted) /\ AreBatches(logged) /\ Len(logged) = 0 /\ MappedBy(accepted) = {}
  BY <1>1, NoBatches
<1>4. \A t \in Tasks : task[t] = IdleTask /\ Translation(task[t]) /\ MappedIn(task[t].batch) = {}
  BY <1>1, IdleFacts
<1>5. Stored
  <2>1. flushed \in 0 .. Len(logged)
    BY <1>1, <1>3
  <2>2. DOMAIN task = Tasks
    BY <1>1
  <2> QED BY <1>1, <1>2, <1>3, <1>4, <2>1, <2>2 DEF Stored, Sound
<1>6. Pending = {}
  <2>1. \A p : p \notin Pending
    BY <1>3, <1>4, InPending
  <2> QED BY <2>1
<1>7. \A n \in 0 .. Len(logged) : n = 0
  BY <1>3
<1>8. After(0) = mem
  <2>1. SubSeq(logged, 1, 0) = <<>>
    BY <1>1
  <2> QED BY <1>1, <2>1, ReplayedSteps DEF After
<1>9. Replayable
  BY <1>1, <1>2, <1>3, <1>6, <1>7, <1>8 DEF Replayable, Behind, Functional, Fits
<1> QED BY <1>5, <1>9 DEF HotInv

LEMMA NextPreserves == HotInv /\ [HotNext]_hotVars => HotInv'
<1> SUFFICES ASSUME HotInv, [HotNext]_hotVars PROVE HotInv'
  OBVIOUS
<1>1. ASSUME NEW t \in Tasks, NEW m \in Msgs, TranslateBegin(t, m) PROVE HotInv'
  BY <1>1, TranslateBeginStep
<1>2. ASSUME NEW t \in Tasks, _persist_translated_event(t) PROVE HotInv'
  BY <1>2, PersistStep
<1>3. ASSUME NEW t \in Tasks, TranslateFails(t) PROVE HotInv'
  BY <1>3, TranslateFailsStep
<1>4. ASSUME NEW t \in Tasks, commit(t) PROVE HotInv'
  BY <1>4, CommitStep
<1>5. ASSUME NEW m \in Msgs, allocate_mapping(m) PROVE HotInv'
  BY <1>5, AllocateStep
<1>6. ASSUME NEW room, bind_context_room(room) PROVE HotInv'
  BY <1>6, BindStep
<1>7. ASSUME NEW w \in Windows, rebuild_message_indexes(w) PROVE HotInv'
  BY <1>7, ResizeStep
<1>8. CASE WriteRecord
  BY <1>8, WriteRecordStep
<1>9. CASE FlushJournal
  BY <1>9, FlushJournalStep
<1>10. CASE _write_snapshot_and_rotate \/ close
  BY <1>10, CaptureStep DEF _write_snapshot_and_rotate, close
<1>11. CASE ProcessDies
  BY <1>11, CrashStep
<1>12. CASE InstallSnapshot
  BY <1>12, InstallSnapshotStep
<1>13. CASE CloseHandle
  BY <1>13, CloseHandleStep
<1>14. CASE TruncateJournal
  BY <1>14, TruncateStep
<1>15. CASE build_runtime_hot_stores
  BY <1>15, BuildStep
<1>16. CASE UNCHANGED hotVars
  <2>1. /\ mem' = mem /\ task' = task /\ accepted' = accepted /\ logged' = logged
        /\ flushed' = flushed /\ saved' = saved /\ setting' = setting /\ up' = up
        /\ origin' = origin /\ coherent' = coherent /\ rotation' = rotation
    BY <1>16 DEF hotVars, files, ghosts
  <2>2. Stored'
    BY <2>1 DEF HotInv, Stored
  <2>3. /\ \A n : After(n)' = After(n)
        /\ Pending' = Pending /\ After(Len(logged))' = After(Len(logged))
    BY <2>1 DEF After, Pending
  <2>4. Replayable'
    <3>1. /\ Behind(After(Len(logged)))' <=> Behind(After(Len(logged)))
          /\ Behind(rotation.capture)' <=> Behind(rotation.capture)
      BY <2>1, <2>3 DEF Behind
    <3> QED BY <2>1, <2>3, <3>1 DEF HotInv, Replayable
  <2> QED BY <2>2, <2>4 DEF HotInv
<1> QED BY <1>1, <1>2, <1>3, <1>4, <1>5, <1>6, <1>7, <1>8, <1>9, <1>10, <1>11, <1>12, <1>13,
           <1>14, <1>15, <1>16 DEF HotNext

(* What is in memory and on disk is well formed, with indexes that agree,   *)
(* and as long as no journal is replayed over a state that has one of its   *)
(* surrogates for another message, everything a restart may find gives maps *)
(* that agree, together with all that is still to be written: also when the *)
(* kill comes between two steps of a rotation.                              *)
THEOREM HotInvariant == HotSpec => []HotInv
<1>1. HotInit => HotInv
  BY InitHolds
<1>2. HotInv /\ [HotNext]_hotVars => HotInv'
  BY NextPreserves
<1> QED BY <1>1, <1>2, PTL DEF HotSpec

(* The maps of the message ids are each other's inverse and list what the   *)
(* window holds, in the running engine and after every recovery, over the   *)
(* state the journal continues or any other that has none of the journal's  *)
(* surrogates for another message: so of the old journal over the new       *)
(* snapshot too.                                                            *)
THEOREM MapsAgree == HotSpec => []IdMapAgrees
<1>1. HotInv => IdMapAgrees
  <2> SUFFICES ASSUME HotInv, up, coherent
               PROVE  /\ DOMAIN mem.reverse = {mem.forward[m] : m \in DOMAIN mem.forward}
                      /\ \A m \in DOMAIN mem.forward : mem.reverse[mem.forward[m]] = m
                      /\ ToSet(mem.order) = DOMAIN mem.forward
                      /\ Len(mem.order) = Cardinality(DOMAIN mem.forward)
                      /\ Len(mem.order) <= mem.window
                      /\ \A s \in DOMAIN mem.reverse : s <= mem.counter
    BY DEF IdMapAgrees, IdMapAlwaysAgrees
  <2>1. Mapped(mem) /\ Len(mem.order) <= mem.window
    BY DEF HotInv, Replayable, Windowed
  <2>2. mem.order \in Seq(Msgs)
    BY DEF HotInv, Stored, Engine
  <2>3. ToSet(mem.order) = DOMAIN mem.forward
    BY <2>1 DEF Mapped, ToSet
  <2>4. Len(mem.order) = Cardinality(DOMAIN mem.forward)
    <3>1. PICK n, F, o : n \in Nat /\ n = Len(mem.order) /\ F = DOMAIN mem.forward /\ o = mem.order
      BY <2>2
    <3>2. DOMAIN o = 1 .. n /\ o \in [1 .. n -> F]
      BY <2>1, <2>2, <3>1 DEF Mapped
    <3>3. /\ \A i, j \in 1 .. n : o[i] = o[j] => i = j
          /\ \A m \in F : \E i \in 1 .. n : o[i] = m
      BY <2>1, <3>1, <3>2 DEF Mapped
    <3>4. o \in Bijection(1 .. n, F)
      BY <3>2, <3>3 DEF Bijection, Injection, Surjection, IsInjective
    <3> QED BY <3>1, <3>4, FS_CountingElements DEF ExistsBijection
  <2> QED BY <2>1, <2>3, <2>4 DEF Mapped
<1> QED BY <1>1, HotInvariant, PTL

(* The indexes of the stored messages agree, whatever was replayed.         *)
THEOREM IndexesAgree == HotSpec => []MessageIndexesAgree
<1>1. HotInv => MessageIndexesAgree
  BY DEF HotInv, Stored, Indexed, MessageIndexesAgree, ToSet
<1> QED BY <1>1, HotInvariant, PTL
=============================================================================
