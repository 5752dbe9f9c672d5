------------------------ MODULE OutboundSend_proofs ------------------------
(***************************************************************************)
(* Proofs about InboundPipeline and OutboundSend: that the messages of a    *)
(* room are handled in order and one at a time, that no accepted message is *)
(* forgotten and no version emitted twice, and that what a forward's answer *)
(* says of it is true.                                                     *)
(***************************************************************************)
EXTENDS OutboundSend, FiniteSetTheorems, SequenceTheorems, TLAPS

----------------------------------------------------------------------------
(* Types                                                                   *)

(* A queue whose head is taken.                                            *)
LEMMA TailOf ==
  ASSUME NEW S, NEW s \in Seq(S), s # <<>>
  PROVE  /\ Head(s) \in S /\ Head(s) = s[1] /\ 1 \in DOMAIN s
         /\ Tail(s) \in Seq(S) /\ Len(Tail(s)) = Len(s) - 1
         /\ \A i \in DOMAIN Tail(s) : i + 1 \in DOMAIN s /\ Tail(s)[i] = s[i + 1]
  OBVIOUS

(* A queue at whose end an element is put.                                 *)
LEMMA AppendOf ==
  ASSUME NEW S, NEW s \in Seq(S), NEW e \in S
  PROVE  /\ Append(s, e) \in Seq(S) /\ Len(Append(s, e)) = Len(s) + 1
         /\ Append(s, e)[Len(s) + 1] = e
         /\ DOMAIN Append(s, e) = DOMAIN s \cup {Len(s) + 1}
         /\ \A i \in DOMAIN s : Append(s, e)[i] = s[i] /\ i < Len(s) + 1
  OBVIOUS

(* The bucket of a message is one.                                         *)
LEMMA BucketType ==
  ASSUME InboundAssumption, NEW m \in Received
  PROVE  BucketFor(m) \in Buckets /\ RoomOf[m.id] \in Rooms /\ m.id \in Ids
  BY DEF InboundAssumption, BucketFor, Received

(* A task belongs to a bucket.                                             *)
LEMMA TaskType ==
  ASSUME NEW t \in Tasks
  PROVE  t[1] \in Buckets /\ t \in Of(t[1])
  BY DEF Tasks, Of

(* The tasks of a bucket.                                                  *)
LEMMA OfType ==
  ASSUME NEW b, NEW t \in Of(b)
  PROVE  t \in Tasks /\ t[1] = b
  BY DEF Of

(* The signature of a message is one.                                      *)
LEMMA SignatureType ==
  ASSUME NEW m \in Received
  PROVE  /\ Signature(m) \in Signed
         /\ Signature(m).id = m.id /\ Signature(m).version = m.version
  BY DEF Signature, Signed, Received

(* Replacing an entry of the signature cache, or adding one.               *)
LEMMA RememberType ==
  ASSUME NEW cache \in Seq(Signed), NEW m \in Signed, InboundAssumption
  PROVE  Remember(cache, m) \in Seq(Signed)
<1>1. CASE \E i \in DOMAIN cache : cache[i].id = m.id
  <2>1. Remember(cache, m) = [i \in DOMAIN cache |-> IF cache[i].id = m.id THEN m ELSE cache[i]]
    BY <1>1 DEF Remember, Knows
  <2>2. \A i \in DOMAIN cache : cache[i] \in Signed
    OBVIOUS
  <2>3. DOMAIN cache = 1 .. Len(cache) /\ Len(cache) \in Nat
    OBVIOUS
  <2> QED BY <2>1, <2>2, <2>3
<1>2. CASE ~\E i \in DOMAIN cache : cache[i].id = m.id
  <2>1. CASE Len(cache) >= SeenMax
    <3>1. cache # <<>>
      BY <2>1 DEF InboundAssumption
    <3> QED BY <1>2, <2>1, <3>1, TailOf DEF Remember, Knows
  <2>2. CASE ~(Len(cache) >= SeenMax)
    BY <1>2, <2>2 DEF Remember, Knows
  <2> QED BY <2>1, <2>2
<1> QED BY <1>1, <1>2

(* A registered worker for a bucket is found, or a task that is free is     *)
(* made one: at most one task of the bucket has ended without its callback  *)
(* having run, and none is alive.                                          *)
LEMMA EnsureFacts ==
  ASSUME InboundAssumption, NEW b \in Buckets, NEW tasks \in [Buckets -> Tasks \cup {NoTask}],
         NEW states \in [Tasks -> Alive \cup {"none", "retired"}],
         tasks[b] # NoTask => tasks[b] \in Of(b),
         \A t \in Of(b) : states[t] \in Alive => tasks[b] = t,
         \A t, u \in Of(b) : states[t] = "retired" /\ states[u] = "retired" => t = u,
         Ensure(b, tasks, states)
  PROVE  \/ /\ owner' = tasks /\ task' = states
            /\ tasks[b] \in Of(b) /\ states[tasks[b]] \in Alive
         \/ \E t \in Of(b) :
              /\ states[t] = "none" /\ \A u \in Of(b) : states[u] \notin Alive
              /\ owner' = [tasks EXCEPT ![b] = t] /\ task' = [states EXCEPT ![t] = "ready"]
<1>1. CASE tasks[b] # NoTask /\ states[tasks[b]] \in Alive
  BY <1>1 DEF Ensure
<1>2. CASE ~(tasks[b] # NoTask /\ states[tasks[b]] \in Alive)
  <2>1. \A u \in Of(b) : states[u] \notin Alive
    <3>1. ASSUME NEW u \in Of(b), states[u] \in Alive PROVE FALSE
      <4>1. tasks[b] = u /\ u \in Tasks
        BY <3>1, OfType
      <4>2. u # NoTask
        BY <4>1 DEF InboundAssumption, Tasks
      <4> QED BY <1>2, <3>1, <4>1, <4>2
    <3> QED BY <3>1
  <2>2. \E u \in Of(b) : states[u] = "none"
    <3>1. <<b, 1>> \in Of(b) /\ <<b, 2>> \in Of(b) /\ <<b, 1>> # <<b, 2>>
      BY DEF Of, Tasks
    <3>2. \A u \in Of(b) : states[u] \in {"none", "retired"}
      BY <2>1, OfType
    <3> QED BY <3>1, <3>2
  <2> DEFINE t == CHOOSE u \in Of(b) : states[u] = "none"
  <2>3. t \in Of(b) /\ states[t] = "none"
    BY <2>2
  <2>4. owner' = [tasks EXCEPT ![b] = t] /\ task' = [states EXCEPT ![t] = "ready"]
    BY <1>2 DEF Ensure
  <2> HIDE DEF t
  <2> QED BY <2>1, <2>3, <2>4
<1> QED BY <1>1, <1>2

(* What a task is about to process.                                        *)
LEMMA HeldType ==
  ASSUME TypeOK, InBucket, NEW t \in Tasks, Holds(t)
  PROVE  /\ item[t][1] \in Received /\ BucketFor(item[t][1]) = t[1] /\ Len(item[t]) = 1
         /\ item[t] = <<item[t][1]>>
<1>1. item[t] \in Seq(Received) /\ Len(item[t]) = 1
  BY DEF TypeOK, InBucket
<1> QED BY <1>1 DEF InBucket

(* A message in the queue of a bucket.                                     *)
LEMMA HeadType ==
  ASSUME TypeOK, InBucket, NEW b \in Buckets, queue[b] # <<>>
  PROVE  /\ Head(queue[b]) \in Received /\ BucketFor(Head(queue[b])) = b
         /\ Tail(queue[b]) \in Seq(Received)
<1>1. queue[b] \in Seq(Received)
  BY DEF TypeOK
<1> QED BY <1>1, TailOf DEF InBucket

(* Keeping an echo.                                                        *)
LEMMA RememberSelfType ==
  ASSUME InboundAssumption, TypeOK, NEW id \in Ids, RememberSelf(id)
  PROVE  /\ recent' \in [Rooms -> Seq(Ids)]
         /\ sender' \in [Senders -> {"idle", "wants", "waiting", "cut"}]
         /\ echo' \in [Senders -> Ids \cup {NoId}] /\ UNCHANGED posted
<1>1. recent' = [recent EXCEPT ![RoomOf[id]] = Append(@, id)] /\ UNCHANGED posted
  BY DEF RememberSelf
<1>2. recent' \in [Rooms -> Seq(Ids)]
  BY <1>1, AppendOf DEF TypeOK, InboundAssumption
<1>3. CASE waiters[RoomOf[id]] = <<>>
  BY <1>1, <1>2, <1>3 DEF RememberSelf, TypeOK
<1>4. CASE waiters[RoomOf[id]] # <<>>
  <2> DEFINE s == Head(waiters[RoomOf[id]])
  <2>1. sender' = [sender EXCEPT ![s] = "idle"] /\ echo' = [echo EXCEPT ![s] = id]
    BY <1>4 DEF RememberSelf
  <2> HIDE DEF s
  <2> QED BY <1>1, <1>2, <2>1 DEF TypeOK
<1> QED BY <1>3, <1>4

(* An emitted message is recorded as one that entered when it was new.      *)
Enters(m) == entered' = IF Knows(seen, m.id) THEN entered ELSE Append(entered, m)

(* A message is processed: what it changes.                                *)
LEMMA ProcessCases ==
  ASSUME NEW t, NEW m, Process(t, m)
  PROVE  /\ seen' = Remember(seen, Signature(m))
         /\ \/ Repeated(m) /\ UNCHANGED <<emitted, entered>> /\ Done(t)
            \/ ~Repeated(m) /\ emitted' = Append(emitted, m) /\ Enters(m) /\ Done(t)
            \/ /\ ~Repeated(m) /\ emitted' = Append(emitted, m) /\ Enters(m)
               /\ task' = [task EXCEPT ![t] = "handling"] /\ item' = [item EXCEPT ![t] = <<m>>]
  BY DEF Process, Enters

(* A message is processed: the types.                                      *)
LEMMA ProcessType ==
  ASSUME InboundAssumption, TypeOK, NEW t \in Tasks, NEW m \in Received, Process(t, m)
  PROVE  /\ task' \in [Tasks -> Alive \cup {"none", "retired"}]
         /\ item' \in [Tasks -> Seq(Received)]
         /\ seen' \in Seq(Signed) /\ emitted' \in Seq(Received) /\ entered' \in Seq(Received)
         /\ recent' \in [Rooms -> Seq(Ids)]
         /\ sender' \in [Senders -> {"idle", "wants", "waiting", "cut"}]
         /\ echo' \in [Senders -> Ids \cup {NoId}] /\ UNCHANGED posted
<1>0. /\ seen' = Remember(seen, Signature(m))
      /\ \/ UNCHANGED <<emitted, entered>> /\ Done(t)
         \/ emitted' = Append(emitted, m) /\ Done(t)
         \/ /\ emitted' = Append(emitted, m)
            /\ task' = [task EXCEPT ![t] = "handling"] /\ item' = [item EXCEPT ![t] = <<m>>]
  BY ProcessCases
<1>1. seen' \in Seq(Signed)
  BY <1>0, SignatureType, RememberType DEF TypeOK
<1>7. /\ emitted \in Seq(Received) /\ item \in [Tasks -> Seq(Received)]
      /\ task \in [Tasks -> Alive \cup {"none", "retired"}]
  BY DEF TypeOK
<1>2. emitted' \in Seq(Received) /\ entered' \in Seq(Received)
  <2>1. emitted' = emitted \/ emitted' = Append(emitted, m)
    BY <1>0
  <2>2. entered' = entered \/ entered' = Append(entered, m)
    BY ProcessCases DEF Enters
  <2>3. entered \in Seq(Received)
    BY DEF TypeOK
  <2>4. Append(emitted, m) \in Seq(Received) /\ Append(entered, m) \in Seq(Received)
    BY <1>7, <2>3, AppendOf
  <2> QED BY <1>7, <2>1, <2>2, <2>3, <2>4
<1>3. /\ task' \in [Tasks -> Alive \cup {"none", "retired"}]
      /\ item' \in [Tasks -> Seq(Received)]
  <2>1. <<m>> \in Seq(Received) /\ <<>> \in Seq(Received)
    OBVIOUS
  <2>2. CASE Done(t)
    BY <1>7, <2>1, <2>2 DEF Done, Alive
  <2>3. CASE task' = [task EXCEPT ![t] = "handling"] /\ item' = [item EXCEPT ![t] = <<m>>]
    BY <1>7, <2>1, <2>3 DEF Alive
  <2> QED BY <1>0, <2>2, <2>3
<1>4. m.id \in Ids
  BY BucketType
<1>5. CASE UNCHANGED selfs
  BY <1>1, <1>2, <1>3, <1>5 DEF TypeOK, selfs
<1>6. CASE RememberSelf(m.id)
  BY <1>1, <1>2, <1>3, <1>4, <1>6, RememberSelfType
<1> QED BY <1>5, <1>6 DEF Process

(* A worker is looked for: the types.                                      *)
LEMMA EnsureType ==
  ASSUME NEW b \in Buckets, NEW tasks \in [Buckets -> Tasks \cup {NoTask}],
         NEW states \in [Tasks -> Alive \cup {"none", "retired"}],
         \/ owner' = tasks /\ task' = states
         \/ \E t \in Of(b) : /\ owner' = [tasks EXCEPT ![b] = t]
                             /\ task' = [states EXCEPT ![t] = "ready"]
  PROVE  /\ owner' \in [Buckets -> Tasks \cup {NoTask}]
         /\ task' \in [Tasks -> Alive \cup {"none", "retired"}]
  BY OfType DEF Alive

(* Where a message is put: a worker of its bucket is registered or made.    *)
LEMMA ReceiveCases ==
  ASSUME InboundAssumption, TypeOK, OneWorker, NEW m \in Messages, Receive(m)
  PROVE  LET e == [id |-> m.id, version |-> m.version, arrival |-> arrivals + 1]
             b == BucketFor(m)
         IN  /\ e \in Received /\ b \in Buckets /\ BucketFor(e) = b
             /\ \/ UNCHANGED <<queue, owner, task>> /\ queue[b] # <<>>
                \/ /\ queue' = [queue EXCEPT ![b] = Append(@, e)]
                   /\ \/ /\ UNCHANGED <<owner, task>>
                         /\ owner[b] \in Of(b) /\ task[owner[b]] \in Alive
                      \/ \E t \in Of(b) :
                           /\ task[t] = "none" /\ \A u \in Of(b) : task[u] \notin Alive
                           /\ owner' = [owner EXCEPT ![b] = t]
                           /\ task' = [task EXCEPT ![t] = "ready"]
<1> DEFINE e == [id |-> m.id, version |-> m.version, arrival |-> arrivals + 1]
           b == BucketFor(m)
<1>1. e \in Received /\ BucketFor(e) = b
  BY DEF Received, Ids, Versions, TypeOK, BucketFor
<1>2. b \in Buckets
  BY <1>1, BucketType
<1>3. CASE Len(queue[b]) >= QueueMax
  BY <1>1, <1>2, <1>3 DEF Receive, InboundAssumption
<1>4. CASE ~(Len(queue[b]) >= QueueMax)
  <2>1. queue' = [queue EXCEPT ![b] = Append(@, e)] /\ Ensure(b, owner, task)
    BY <1>4 DEF Receive
  <2> HIDE DEF b, e
  <2>2. /\ owner \in [Buckets -> Tasks \cup {NoTask}]
        /\ task \in [Tasks -> Alive \cup {"none", "retired"}]
        /\ owner[b] # NoTask => owner[b] \in Of(b)
        /\ \A t \in Of(b) : task[t] \in Alive => owner[b] = t
        /\ \A t, u \in Of(b) : task[t] = "retired" /\ task[u] = "retired" => t = u
    BY <1>2 DEF TypeOK, OneWorker, Of
  <2>3. \/ /\ owner' = owner /\ task' = task
           /\ owner[b] \in Of(b) /\ task[owner[b]] \in Alive
        \/ \E t \in Of(b) :
              /\ task[t] = "none" /\ \A u \in Of(b) : task[u] \notin Alive
              /\ owner' = [owner EXCEPT ![b] = t] /\ task' = [task EXCEPT ![t] = "ready"]
    BY <1>2, <2>1, <2>2, EnsureFacts
  <2> QED BY <1>1, <1>2, <2>1, <2>3 DEF b, e
<1> QED BY <1>3, <1>4

(* A task ended: its bucket may need another.                              *)
LEMMA CallbackCases ==
  ASSUME InboundAssumption, TypeOK, OneWorker, NEW t \in Tasks, Callback(t)
  PROVE  LET b == t[1]
             tasks == Pop(t)
             states == [task EXCEPT ![t] = "none"]
         IN  /\ task[t] = "retired" /\ b \in Buckets /\ t \in Of(b)
             /\ tasks \in [Buckets -> Tasks \cup {NoTask}]
             /\ states \in [Tasks -> Alive \cup {"none", "retired"}]
             /\ \/ /\ owner' = tasks /\ task' = states
                   /\ running /\ queue[b] # <<>> =>
                        tasks[b] \in Of(b) /\ states[tasks[b]] \in Alive
                \/ \E u \in Of(b) :
                     /\ running /\ states[u] = "none" /\ \A v \in Of(b) : states[v] \notin Alive
                     /\ owner' = [tasks EXCEPT ![b] = u]
                     /\ task' = [states EXCEPT ![u] = "ready"]
<1> DEFINE b == t[1]
           tasks == Pop(t)
           states == [task EXCEPT ![t] = "none"]
<1>1. task[t] = "retired" /\ b \in Buckets /\ t \in Of(b)
  BY TaskType DEF Callback
<1>2. /\ tasks \in [Buckets -> Tasks \cup {NoTask}]
      /\ states \in [Tasks -> Alive \cup {"none", "retired"}]
  BY <1>1 DEF Pop, TypeOK
<1>3. CASE running /\ queue[b] # <<>>
  <2>1. Ensure(b, tasks, states)
    BY <1>3 DEF Callback
  <2>2. tasks[b] = IF owner[b] = t THEN NoTask ELSE owner[b]
    BY <1>1 DEF Pop, TypeOK
  <2>3. tasks[b] # NoTask => tasks[b] \in Of(b)
    BY <1>1, <2>2 DEF OneWorker
  <2>4. ASSUME NEW u \in Of(b), states[u] \in Alive PROVE tasks[b] = u
    <3>1. u \in Tasks /\ u[1] = b
      BY OfType
    <3>2. u # t /\ task[u] \in Alive
      BY <2>4, <3>1 DEF TypeOK, Alive
    <3> QED BY <2>2, <3>1, <3>2 DEF OneWorker
  <2>5. ASSUME NEW u \in Of(b), NEW v \in Of(b), states[u] = "retired", states[v] = "retired"
        PROVE  u = v
    <3>1. u \in Tasks /\ u[1] = b /\ v \in Tasks /\ v[1] = b
      BY OfType
    <3> QED BY <2>5, <3>1 DEF OneWorker, TypeOK
  <2> HIDE DEF b, tasks, states
  <2>6. \/ /\ owner' = tasks /\ task' = states
           /\ tasks[b] \in Of(b) /\ states[tasks[b]] \in Alive
        \/ \E u \in Of(b) :
              /\ states[u] = "none" /\ \A v \in Of(b) : states[v] \notin Alive
              /\ owner' = [tasks EXCEPT ![b] = u] /\ task' = [states EXCEPT ![u] = "ready"]
    BY <1>1, <1>2, <2>1, <2>3, <2>4, <2>5, EnsureFacts
  <2> QED BY <1>1, <1>2, <1>3, <2>6 DEF b, tasks, states
<1>4. CASE ~(running /\ queue[b] # <<>>)
  <2>1. owner' = tasks /\ task' = states
    BY <1>4 DEF Callback
  <2> QED BY <1>1, <1>2, <1>4, <2>1
<1> QED BY <1>3, <1>4

(* What the client does keeps the types.                                   *)
LEMMA ClientType ==
  ASSUME InboundAssumption, SendAssumption, TypeOK, OneWorker, InBucket, ClientNext
  PROVE  TypeOK' /\ (UNCHANGED posted)
<1>1. CASE Fetch \/ SubscribeRooms \/ SubscribeUserEvents \/ Break \/ Reconnect
  <2>1. CASE Fetch
    BY <2>1 DEF Fetch, TypeOK, workers, selfs
  <2>2. CASE SubscribeRooms
    BY <2>2 DEF SubscribeRooms, TypeOK, workers, selfs
  <2>3. CASE SubscribeUserEvents \/ Reconnect
    BY <2>3 DEF SubscribeUserEvents, Reconnect, TypeOK, workers, selfs
  <2>4. CASE Break
    <3>1. /\ link' \in {"exhausted", "sleeping"} /\ running' \in BOOLEAN
          /\ failures' \in Nat /\ breaks' \in Nat
      BY <2>4 DEF Break, TypeOK
    <3> QED BY <2>4, <3>1 DEF Break, TypeOK, workers, selfs
  <2> QED BY <1>1, <2>1, <2>2, <2>3, <2>4
<1>2. CASE \E r \in Rooms : Join(r) \/ Notified(r)
  BY <1>2 DEF Join, Notified, TypeOK, workers, selfs
<1>3. ASSUME NEW r \in Rooms, Age(r) PROVE TypeOK' /\ UNCHANGED posted
  <2>1. recent[r] \in Seq(Ids) /\ recent[r] # <<>>
    BY <1>3 DEF TypeOK, Age
  <2>2. Tail(recent[r]) \in Seq(Ids)
    BY <2>1
  <2> QED BY <1>3, <2>2 DEF Age, TypeOK, connection, workers
<1>4. ASSUME NEW m \in Messages, Receive(m) PROVE TypeOK' /\ UNCHANGED posted
  <2> DEFINE e == [id |-> m.id, version |-> m.version, arrival |-> arrivals + 1]
             b == BucketFor(m)
  <2>1. /\ e \in Received /\ b \in Buckets
        /\ \/ UNCHANGED <<queue, owner, task>>
           \/ /\ queue' = [queue EXCEPT ![b] = Append(@, e)]
              /\ \/ UNCHANGED <<owner, task>>
                 \/ \E t \in Of(b) : /\ owner' = [owner EXCEPT ![b] = t]
                                     /\ task' = [task EXCEPT ![t] = "ready"]
    BY <1>4, ReceiveCases
  <2>2. /\ owner \in [Buckets -> Tasks \cup {NoTask}]
        /\ task \in [Tasks -> Alive \cup {"none", "retired"}]
        /\ queue \in [Buckets -> Seq(Received)]
    BY DEF TypeOK
  <2> HIDE DEF b, e
  <2>3. queue' \in [Buckets -> Seq(Received)]
    <3>1. Append(queue[b], e) \in Seq(Received)
      BY <2>1, <2>2, AppendOf
    <3>2. [queue EXCEPT ![b] = Append(@, e)] \in [Buckets -> Seq(Received)]
      BY ONLY <2>2, <3>1
    <3> QED BY ONLY <2>1, <2>2, <3>2
  <2>4. /\ owner' \in [Buckets -> Tasks \cup {NoTask}]
        /\ task' \in [Tasks -> Alive \cup {"none", "retired"}]
    BY ONLY <2>1, <2>2, EnsureType
  <2>5. arrivals' \in Nat /\ UNCHANGED <<item, connection, selfs, member, seen, emitted, entered, stopping>>
    BY <1>4 DEF Receive, TypeOK
  <2> QED BY <2>3, <2>4, <2>5 DEF TypeOK, connection, selfs
<1>5. ASSUME NEW t \in Tasks, TakeOpen(t) \/ Decrypted(t) PROVE TypeOK' /\ UNCHANGED posted
  <2>1. CASE TakeOpen(t)
    <3>1. /\ Head(queue[t[1]]) \in Received /\ t[1] \in Buckets
          /\ Tail(queue[t[1]]) \in Seq(Received) /\ Process(t, Head(queue[t[1]]))
          /\ queue' = [queue EXCEPT ![t[1]] = Tail(queue[t[1]])]
          /\ UNCHANGED <<owner, arrivals, connection, member, stopping>>
      BY <2>1, HeadType, TaskType DEF TakeOpen, Take
    <3>2. queue' \in [Buckets -> Seq(Received)]
      BY <3>1 DEF TypeOK
    <3> QED BY <3>1, <3>2, ProcessType DEF TypeOK, connection
  <2>2. CASE Decrypted(t)
    <3>1. /\ item[t][1] \in Received /\ Process(t, item[t][1])
          /\ UNCHANGED <<queue, owner, arrivals, connection, member, stopping>>
      BY <2>2, HeldType DEF Decrypted, Holds
    <3> QED BY <3>1, ProcessType DEF TypeOK, connection
  <2> QED BY <1>5, <2>1, <2>2
<1>6. ASSUME NEW t \in Tasks, TakeSealed(t) PROVE TypeOK' /\ UNCHANGED posted
  <2>1. /\ Head(queue[t[1]]) \in Received /\ t[1] \in Buckets
        /\ Tail(queue[t[1]]) \in Seq(Received)
        /\ queue' = [queue EXCEPT ![t[1]] = Tail(queue[t[1]])]
    BY <1>6, HeadType, TaskType DEF TakeSealed, Take
  <2>2. queue' \in [Buckets -> Seq(Received)] /\ <<Head(queue[t[1]])>> \in Seq(Received)
    BY <2>1 DEF TypeOK
  <2> QED BY <1>6, <2>2 DEF TakeSealed, TypeOK, Alive, connection, selfs
<1>7. ASSUME NEW t \in Tasks, Undecipherable(t) \/ Finish(t) \/ Wait(t) \/ Retire(t)
      PROVE  TypeOK' /\ UNCHANGED posted
  <2>1. <<>> \in Seq(Received)
    OBVIOUS
  <2>2. CASE Undecipherable(t) \/ Finish(t)
    <3>1. /\ task' = [task EXCEPT ![t] = "ready"] /\ item' = [item EXCEPT ![t] = <<>>]
          /\ UNCHANGED <<queue, owner, arrivals, connection, selfs, member, seen, emitted, entered,
                         stopping>>
      BY <2>2 DEF Undecipherable, Finish, Done
    <3> QED BY <2>1, <3>1 DEF TypeOK, Alive, connection, selfs
  <2>3. CASE Wait(t) \/ Retire(t)
    <3>1. /\ task' = [task EXCEPT ![t] = "waiting"] \/ task' = [task EXCEPT ![t] = "retired"]
          /\ UNCHANGED <<queue, owner, item, arrivals, connection, selfs, member, seen, emitted, entered,
                         stopping>>
      BY <2>3 DEF Wait, Retire
    <3>2. task' \in [Tasks -> Alive \cup {"none", "retired"}]
      BY <3>1 DEF TypeOK, Alive
    <3> QED BY <3>1, <3>2 DEF TypeOK, connection, selfs
  <2> QED BY <1>7, <2>2, <2>3
<1>8. ASSUME NEW t \in Tasks, Callback(t) PROVE TypeOK' /\ UNCHANGED posted
  <2> DEFINE b == t[1]
             tasks == Pop(t)
             states == [task EXCEPT ![t] = "none"]
  <2>1. /\ b \in Buckets /\ tasks \in [Buckets -> Tasks \cup {NoTask}]
        /\ states \in [Tasks -> Alive \cup {"none", "retired"}]
        /\ \/ owner' = tasks /\ task' = states
           \/ \E u \in Of(b) : /\ owner' = [tasks EXCEPT ![b] = u]
                               /\ task' = [states EXCEPT ![u] = "ready"]
    BY <1>8, CallbackCases
  <2> HIDE DEF b, tasks, states
  <2>2. /\ owner' \in [Buckets -> Tasks \cup {NoTask}]
        /\ task' \in [Tasks -> Alive \cup {"none", "retired"}]
    BY <2>1, EnsureType
  <2> QED BY <1>8, <2>2 DEF Callback, TypeOK, connection, selfs
<1>9. ASSUME NEW s \in Senders, AwaitEcho(s) \/ EchoTimeout(s)
      PROVE  TypeOK' /\ UNCHANGED posted
  <2>1. CASE AwaitEcho(s) /\ recent[RoomFor[s]] # <<>>
    <3>1. /\ recent' = [recent EXCEPT ![RoomFor[s]] = Tail(@)]
          /\ echo' = [echo EXCEPT ![s] = Head(recent[RoomFor[s]])]
      BY <2>1 DEF AwaitEcho
    <3>2. /\ sender' \in [Senders -> {"idle", "wants", "waiting", "cut"}]
          /\ UNCHANGED <<posted, connection, workers, member, seen, emitted, entered, stopping>>
      <4>1. /\ sender' = [sender EXCEPT ![s] = "idle"]
            /\ UNCHANGED <<posted, connection, workers, member, seen, emitted, entered, stopping>>
        BY <2>1 DEF AwaitEcho
      <4>2. sender \in [Senders -> {"idle", "wants", "waiting", "cut"}]
        BY DEF TypeOK
      <4> QED BY ONLY <4>1, <4>2
    <3>5. RoomFor[s] \in Rooms
      BY DEF SendAssumption
    <3>6. Head(recent[RoomFor[s]]) \in Ids /\ Tail(recent[RoomFor[s]]) \in Seq(Ids)
      BY <2>1, <3>5, TailOf DEF TypeOK
    <3>3. recent' \in [Rooms -> Seq(Ids)]
      BY <3>1, <3>5, <3>6 DEF TypeOK
    <3>4. echo' \in [Senders -> Ids \cup {NoId}]
      BY <3>1, <3>6 DEF TypeOK
    <3> QED BY <3>2, <3>3, <3>4 DEF TypeOK, connection, workers
  <2>2. CASE (AwaitEcho(s) /\ recent[RoomFor[s]] = <<>>) \/ EchoTimeout(s)
    <3>1. /\ sender' = [sender EXCEPT ![s] = "waiting"] \/ sender' = [sender EXCEPT ![s] = "idle"]
          /\ UNCHANGED <<recent, posted, echo, connection, workers, member, seen, emitted, entered,
                         stopping>>
      BY <2>2 DEF AwaitEcho, EchoTimeout
    <3>2. sender' \in [Senders -> {"idle", "wants", "waiting", "cut"}]
      BY <3>1 DEF TypeOK
    <3> QED BY <3>1, <3>2 DEF TypeOK, connection, workers
  <2> QED BY <1>9, <2>1, <2>2
<1>10. CASE Stop \/ Drained
  <2>1. CASE Stop
    BY <2>1 DEF Stop, TypeOK, workers, selfs
  <2>2. CASE Drained
    BY <2>2 DEF Drained, TypeOK, workers, selfs, connection
  <2> QED BY <1>10, <2>1, <2>2
<1>11. CASE Finished
  <2>1. <<>> \in Seq(Received) /\ <<>> \in Seq(Signed) /\ <<>> \in Seq(Ids)
    OBVIOUS
  <2> QED BY <1>11, <2>1 DEF Finished, TypeOK, connection
<1> QED BY <1>1, <1>2, <1>3, <1>4, <1>5, <1>6, <1>7, <1>8, <1>9, <1>10, <1>11
        DEF ClientNext, TaskStep

----------------------------------------------------------------------------
(* The workers                                                             *)

(* A worker that goes on moves only itself.                                *)
LEMMA TaskMoves ==
  ASSUME TypeOK, NEW t \in Tasks, TaskStep(t)
  PROVE  /\ task[t] \in Alive /\ task'[t] \in Alive
         /\ \A u \in Tasks \ {t} : task'[u] = task[u] /\ item'[u] = item[u]
         /\ UNCHANGED <<owner, arrivals, connection, stopping>>
         /\ task'[t] \notin {"decrypting", "handling"} \/ Len(item'[t]) = 1
<1>0. /\ task \in [Tasks -> Alive \cup {"none", "retired"}]
      /\ item \in [Tasks -> Seq(Received)]
  BY DEF TypeOK
<1>1. CASE Wait(t)
  BY <1>0, <1>1 DEF Wait, Alive
<1>2. ASSUME Undecipherable(t) \/ Finish(t)
      PROVE  /\ task[t] \in Alive /\ Done(t)
             /\ UNCHANGED <<owner, arrivals, connection, stopping>>
  BY <1>2 DEF Undecipherable, Finish, Alive
<1>3. CASE TakeSealed(t)
  BY <1>0, <1>3 DEF TakeSealed, Take, Alive
<1>4. ASSUME TakeOpen(t) \/ Decrypted(t)
      PROVE  /\ task[t] \in Alive /\ \E m : Process(t, m)
             /\ UNCHANGED <<owner, arrivals, connection, stopping>>
  BY <1>4 DEF TakeOpen, Take, Decrypted, Alive
<1>5. ASSUME NEW m, Process(t, m)
      PROVE  \/ Done(t)
             \/ /\ task' = [task EXCEPT ![t] = "handling"]
                /\ item' = [item EXCEPT ![t] = <<m>>]
  BY <1>5, ProcessCases
<1>6. ASSUME Done(t)
      PROVE  /\ task'[t] = "ready"
             /\ \A u \in Tasks \ {t} : task'[u] = task[u] /\ item'[u] = item[u]
  BY <1>0, <1>6 DEF Done
<1>7. ASSUME NEW m, task' = [task EXCEPT ![t] = "handling"],
             item' = [item EXCEPT ![t] = <<m>>]
      PROVE  /\ task'[t] = "handling" /\ Len(item'[t]) = 1
             /\ \A u \in Tasks \ {t} : task'[u] = task[u] /\ item'[u] = item[u]
  BY <1>0, <1>7
<1>8. CASE Undecipherable(t) \/ Finish(t)
  BY <1>2, <1>6, <1>8 DEF Alive
<1>9. CASE TakeOpen(t) \/ Decrypted(t)
  <2>1. PICK m : Process(t, m)
    BY <1>4, <1>9
  <2>2. CASE Done(t)
    BY <1>4, <1>6, <1>9, <2>2 DEF Alive
  <2>3. CASE /\ task' = [task EXCEPT ![t] = "handling"] /\ item' = [item EXCEPT ![t] = <<m>>]
    BY <1>4, <1>7, <1>9, <2>3 DEF Alive
  <2> QED BY <1>5, <2>1, <2>2, <2>3
<1> QED BY <1>1, <1>3, <1>8, <1>9 DEF TaskStep

(* What the connection, the senders and the beginning of stop() do leaves   *)
(* queues and workers alone, and a client that ended does not run again.   *)
Quiet == /\ UNCHANGED <<world, workers, emitted, entered>>
         /\ running' => running
         /\ (stopping' = "stopped") <=> (stopping = "stopped")

(* An action of the client is quiet, or one of those that move messages.    *)
LEMMA ClientCases ==
  ASSUME TypeOK, Ending, ClientNext
  PROVE  \/ Quiet /\ UNCHANGED seen
         \/ \E m \in Messages : Receive(m)
         \/ \E t \in Tasks : TaskStep(t) \/ Retire(t) \/ Callback(t)
         \/ Finished
<1>1. CASE Fetch \/ SubscribeRooms \/ SubscribeUserEvents \/ Reconnect
  BY <1>1 DEF Fetch, SubscribeRooms, SubscribeUserEvents, Reconnect, Quiet
<1>2. CASE Break
  <2>1. link \in {"connecting", "fetched", "subscribed", "listening"}
        /\ UNCHANGED <<world, workers, seen, emitted, entered, stopping>>
    BY <1>2 DEF Break
  <2> QED BY <2>1 DEF Quiet, Ending
<1>3. ASSUME NEW r \in Rooms, Join(r) \/ Notified(r) \/ Age(r)
      PROVE  Quiet /\ UNCHANGED seen
  BY <1>3 DEF Join, Notified, Age, Quiet, connection
<1>4. ASSUME NEW s \in Senders, AwaitEcho(s) \/ EchoTimeout(s)
      PROVE  Quiet /\ UNCHANGED seen
  BY <1>4 DEF AwaitEcho, EchoTimeout, Quiet, connection
<1>5. CASE Stop \/ Drained
  BY <1>5 DEF Stop, Drained, Quiet, connection
<1> QED BY <1>1, <1>2, <1>3, <1>4, <1>5 DEF ClientNext

(* A client that ended stays without a connection.                         *)
LEMMA EndingStep ==
  ASSUME TypeOK, Ending, ClientNext
  PROVE  Ending'
<1>1. CASE Fetch \/ SubscribeRooms \/ SubscribeUserEvents \/ Reconnect
  BY <1>1 DEF Fetch, SubscribeRooms, SubscribeUserEvents, Reconnect, Ending
<1>2. CASE Break
  <2>1. /\ link \in {"connecting", "fetched", "subscribed", "listening"}
        /\ UNCHANGED stopping /\ \/ ~running' /\ link' = "exhausted"
                                 \/ running' /\ link' = "sleeping"
    BY <1>2 DEF Break
  <2> QED BY <2>1 DEF Ending
<1>3. ASSUME \/ \E r \in Rooms : Join(r) \/ Notified(r) \/ Age(r)
             \/ \E m \in Messages : Receive(m)
             \/ \E t \in Tasks : TaskStep(t) \/ Retire(t) \/ Callback(t)
             \/ \E s \in Senders : AwaitEcho(s) \/ EchoTimeout(s)
      PROVE  UNCHANGED <<running, link, stopping>>
  <2>1. ASSUME NEW t \in Tasks, TaskStep(t) PROVE UNCHANGED <<running, link, stopping>>
    BY <2>1, TaskMoves DEF connection
  <2> QED BY <1>3, <2>1 DEF Join, Notified, Age, Receive, Retire, Callback, AwaitEcho,
                            EchoTimeout, connection
<1>4. CASE Stop \/ Drained \/ Finished
  BY <1>4 DEF Stop, Drained, Finished, Ending, connection
<1> QED BY <1>1, <1>2, <1>3, <1>4 DEF ClientNext, Ending

(* A task that is made the worker of a bucket without one.                 *)
LEMMA OneStarted ==
  ASSUME NEW tasks \in [Buckets -> Tasks \cup {NoTask}],
         NEW states \in [Tasks -> Alive \cup {"none", "retired"}],
         \A c \in Buckets : tasks[c] # NoTask => tasks[c] \in Of(c),
         \A u \in Tasks : states[u] \in Alive => tasks[u[1]] = u,
         \A u, v \in Tasks :
           states[u] = "retired" /\ states[v] = "retired" /\ u[1] = v[1] => u = v,
         NEW b \in Buckets, NEW t \in Of(b), \A u \in Of(b) : states[u] \notin Alive,
         owner' = [tasks EXCEPT ![b] = t], task' = [states EXCEPT ![t] = "ready"]
  PROVE  OneWorker'
<1>1. t \in Tasks /\ t[1] = b
  BY OfType
<1>2. /\ \A c \in Buckets : owner'[c] = IF c = b THEN t ELSE tasks[c]
      /\ \A u \in Tasks : task'[u] = IF u = t THEN "ready" ELSE states[u]
  BY <1>1
<1>3. \A u \in Tasks : u[1] \in Buckets /\ (u[1] = b => u \in Of(b))
  BY TaskType DEF Of
<1>4. \A c \in Buckets : owner'[c] # NoTask => owner'[c] \in Of(c)
  BY <1>2
<1>5. \A u \in Tasks : task'[u] \in Alive => owner'[u[1]] = u
  BY <1>1, <1>2, <1>3
<1>6. \A u, v \in Tasks :
        task'[u] = "retired" /\ task'[v] = "retired" /\ u[1] = v[1] => u = v
  BY <1>2
<1> QED BY <1>4, <1>5, <1>6 DEF OneWorker

(* No two tasks of a bucket are alive, or wait for their callback.         *)
LEMMA WorkerStep ==
  ASSUME InboundAssumption, TypeOK, Ending, OneWorker, ClientNext
  PROVE  OneWorker'
<1>1. CASE Quiet
  BY <1>1 DEF Quiet, workers, OneWorker
<1>2. ASSUME NEW m \in Messages, Receive(m) PROVE OneWorker'
  <2> DEFINE b == BucketFor(m)
  <2>1. /\ b \in Buckets
        /\ \/ UNCHANGED <<owner, task>>
           \/ \E t \in Of(b) : /\ \A u \in Of(b) : task[u] \notin Alive
                               /\ task[t] = "none"
                               /\ owner' = [owner EXCEPT ![b] = t]
                               /\ task' = [task EXCEPT ![t] = "ready"]
    BY <1>2, ReceiveCases
  <2> HIDE DEF b
  <2>2. CASE UNCHANGED <<owner, task>>
    BY <2>2 DEF OneWorker
  <2>3. ASSUME NEW t \in Of(b), \A u \in Of(b) : task[u] \notin Alive,
               owner' = [owner EXCEPT ![b] = t], task' = [task EXCEPT ![t] = "ready"]
        PROVE  OneWorker'
    BY <2>1, <2>3, OneStarted DEF TypeOK, OneWorker
  <2> QED BY <2>1, <2>2, <2>3
<1>3. ASSUME NEW t \in Tasks, TaskStep(t) PROVE OneWorker'
  <2>1. /\ task[t] \in Alive /\ task'[t] \in Alive /\ owner' = owner
        /\ \A u \in Tasks \ {t} : task'[u] = task[u]
    BY <1>3, TaskMoves
  <2>2. \A u \in Tasks : /\ task'[u] \in Alive => task[u] \in Alive
                         /\ task'[u] = "retired" => task[u] = "retired"
    BY <2>1 DEF Alive
  <2> QED BY <2>1, <2>2 DEF OneWorker
<1>4. ASSUME NEW t \in Tasks, Retire(t) PROVE OneWorker'
  <2>1. /\ owner' = owner /\ task' = [task EXCEPT ![t] = "retired"] /\ t \in Of(t[1])
        /\ \A u \in Of(t[1]) : task[u] # "retired"
    BY <1>4, TaskType DEF Retire
  <2>2. \A u \in Tasks : task'[u] = IF u = t THEN "retired" ELSE task[u]
    BY <2>1 DEF TypeOK
  <2>3. \A u \in Tasks : u[1] = t[1] => u \in Of(t[1])
    BY DEF Of
  <2> QED BY <2>1, <2>2, <2>3 DEF OneWorker, Alive
<1>5. ASSUME NEW t \in Tasks, Callback(t) PROVE OneWorker'
  <2> DEFINE b == t[1]
             tasks == Pop(t)
             states == [task EXCEPT ![t] = "none"]
  <2>1. /\ task[t] = "retired" /\ b \in Buckets /\ t \in Of(b)
        /\ tasks \in [Buckets -> Tasks \cup {NoTask}]
        /\ states \in [Tasks -> Alive \cup {"none", "retired"}]
        /\ \/ owner' = tasks /\ task' = states
           \/ \E u \in Of(b) :
                /\ states[u] = "none" /\ \A v \in Of(b) : states[v] \notin Alive
                /\ owner' = [tasks EXCEPT ![b] = u]
                /\ task' = [states EXCEPT ![u] = "ready"]
    BY <1>5, CallbackCases
  <2>2. /\ \A c \in Buckets : tasks[c] = IF c = b /\ owner[b] = t THEN NoTask ELSE owner[c]
        /\ \A u \in Tasks : states[u] = IF u = t THEN "none" ELSE task[u]
    BY <2>1 DEF Pop, TypeOK
  <2> HIDE DEF b, tasks, states
  <2>3. /\ \A c \in Buckets : tasks[c] # NoTask => tasks[c] \in Of(c)
        /\ \A u \in Tasks : states[u] \in Alive => tasks[u[1]] = u
        /\ \A u, v \in Tasks :
             states[u] = "retired" /\ states[v] = "retired" /\ u[1] = v[1] => u = v
    <3>1. \A u \in Tasks : states[u] \in Alive => u # t /\ task[u] \in Alive
      BY <2>2 DEF Alive
    <3>2. \A u \in Tasks : u[1] \in Buckets
      BY TaskType
    <3>3. \A u \in Tasks : states[u] = "retired" => task[u] = "retired"
      BY <2>2
    <3> QED BY <2>2, <3>1, <3>2, <3>3 DEF OneWorker
  <2>4. CASE owner' = tasks /\ task' = states
    BY <2>3, <2>4 DEF OneWorker
  <2>5. ASSUME NEW u \in Of(b), \A v \in Of(b) : states[v] \notin Alive,
               owner' = [tasks EXCEPT ![b] = u], task' = [states EXCEPT ![u] = "ready"]
        PROVE  OneWorker'
    BY <2>1, <2>3, <2>5, OneStarted
  <2> QED BY <2>1, <2>4, <2>5
<1>6. CASE Finished
  <2>1. /\ \A b \in Buckets : owner'[b] = NoTask
        /\ \A t \in Tasks : task'[t] = IF owner[t[1]] = t /\ task[t] \in Alive
                                         THEN "none" ELSE task[t]
    BY <1>6 DEF Finished
  <2>2. \A t \in Tasks : /\ task'[t] \notin Alive
                         /\ task'[t] = "retired" => task[t] = "retired"
    BY <2>1 DEF OneWorker, Alive
  <2> QED BY <2>1, <2>2 DEF OneWorker
<1> QED BY <1>1, <1>2, <1>3, <1>4, <1>5, <1>6, ClientCases

(* A message is taken from the queue of bucket b.                          *)
Taken(b, m) == /\ queue[b] # <<>> /\ m = Head(queue[b])
               /\ queue' = [queue EXCEPT ![b] = Tail(@)]

(* A task goes on with the message it held while it was being decrypted.   *)
Readable(t, m) == task[t] = "decrypting" /\ m = item[t][1] /\ UNCHANGED queue

(* A message is suppressed, or emitted and perhaps handled.                *)
Suppressed(t, m) == Repeated(m) /\ UNCHANGED <<emitted, entered>> /\ ~Holds(t)'
Emitted(t, m)    == /\ ~Repeated(m) /\ emitted' = Append(emitted, m) /\ Enters(m)
                    /\ task'[t] # "decrypting" /\ (Holds(t)' => item'[t] = <<m>>)

(* What a worker does: nothing with a message, take one that has to be      *)
(* decrypted, or process one.                                              *)
Idles(t) == UNCHANGED <<queue, seen, emitted, entered>> /\ ~Holds(t)'
Seals(t, m) == /\ Taken(t[1], m) /\ UNCHANGED <<seen, emitted, entered>>
               /\ task'[t] = "decrypting" /\ item'[t] = <<m>>
Works(t, m) == /\ Taken(t[1], m) \/ Readable(t, m)
               /\ seen' = Remember(seen, Signature(m))
               /\ Suppressed(t, m) \/ Emitted(t, m)

(* A worker that processes a message suppresses or emits it.               *)
LEMMA Processed ==
  ASSUME TypeOK, NEW t \in Tasks, NEW m, Process(t, m)
  PROVE  /\ seen' = Remember(seen, Signature(m))
         /\ Suppressed(t, m) \/ Emitted(t, m)
<1>1. /\ task \in [Tasks -> Alive \cup {"none", "retired"}]
      /\ item \in [Tasks -> Seq(Received)]
  BY DEF TypeOK
<1>2. ASSUME Done(t) PROVE ~Holds(t)' /\ task'[t] # "decrypting"
  BY <1>1, <1>2 DEF Done, Holds
<1>3. ASSUME task' = [task EXCEPT ![t] = "handling"], item' = [item EXCEPT ![t] = <<m>>]
      PROVE  task'[t] # "decrypting" /\ item'[t] = <<m>>
  BY <1>1, <1>3
<1>7. /\ seen' = Remember(seen, Signature(m))
      /\ \/ Repeated(m) /\ UNCHANGED <<emitted, entered>> /\ Done(t)
         \/ ~Repeated(m) /\ emitted' = Append(emitted, m) /\ Enters(m) /\ Done(t)
         \/ /\ ~Repeated(m) /\ emitted' = Append(emitted, m) /\ Enters(m)
            /\ task' = [task EXCEPT ![t] = "handling"] /\ item' = [item EXCEPT ![t] = <<m>>]
  BY ProcessCases
<1>4. CASE Repeated(m) /\ UNCHANGED <<emitted, entered>> /\ Done(t)
  BY <1>2, <1>4, <1>7 DEF Suppressed
<1>5. CASE ~Repeated(m) /\ emitted' = Append(emitted, m) /\ Enters(m) /\ Done(t)
  BY <1>2, <1>5, <1>7 DEF Emitted
<1>6. CASE /\ ~Repeated(m) /\ emitted' = Append(emitted, m) /\ Enters(m)
           /\ task' = [task EXCEPT ![t] = "handling"] /\ item' = [item EXCEPT ![t] = <<m>>]
  BY <1>3, <1>6, <1>7 DEF Emitted
<1> QED BY <1>4, <1>5, <1>6, <1>7

(* The three things a worker does.                                         *)
LEMMA TaskCases ==
  ASSUME TypeOK, InBucket, NEW t \in Tasks, TaskStep(t)
  PROVE  \/ Idles(t)
         \/ \E m \in Received : BucketFor(m) = t[1] /\ (Seals(t, m) \/ Works(t, m))
<1>1. CASE Wait(t)
  BY <1>1 DEF Wait, Idles, Holds, TypeOK
<1>2. CASE Undecipherable(t) \/ Finish(t)
  BY <1>2 DEF Undecipherable, Finish, Done, Idles, Holds, TypeOK
<1>3. ASSUME Take(t)
      PROVE  /\ Head(queue[t[1]]) \in Received /\ BucketFor(Head(queue[t[1]])) = t[1]
             /\ Taken(t[1], Head(queue[t[1]]))
  BY <1>3, HeadType, TaskType DEF Take, Taken
<1>4. CASE TakeSealed(t)
  <2>1. /\ task'[t] = "decrypting" /\ item'[t] = <<Head(queue[t[1]])>>
        /\ UNCHANGED <<seen, emitted, entered>> /\ Take(t)
    BY <1>4 DEF TakeSealed, TypeOK
  <2> QED BY <1>3, <2>1 DEF Seals
<1>5. CASE TakeOpen(t)
  <2>1. Take(t) /\ Process(t, Head(queue[t[1]]))
    BY <1>5 DEF TakeOpen
  <2> QED BY <1>3, <2>1, Processed DEF Works
<1>6. CASE Decrypted(t)
  <2>1. /\ Readable(t, item[t][1]) /\ Process(t, item[t][1]) /\ Holds(t)
    BY <1>6 DEF Decrypted, Readable, Holds
  <2> QED BY <2>1, HeldType, Processed DEF Works
<1> QED BY <1>1, <1>2, <1>4, <1>5, <1>6 DEF TaskStep

(* The queues after a message is taken.                                    *)
LEMMA TakenFacts ==
  ASSUME TypeOK, NEW b \in Buckets, NEW m, Taken(b, m)
  PROVE  /\ \A c \in Buckets \ {b} : queue'[c] = queue[c]
         /\ queue'[b] = Tail(queue[b]) /\ queue[b] # <<>> /\ m = queue[b][1]
         /\ 1 \in DOMAIN queue[b]
         /\ \A i \in DOMAIN queue'[b] : i + 1 \in DOMAIN queue[b] /\ queue'[b][i] = queue[b][i + 1]
<1>1. /\ queue \in [Buckets -> Seq(Received)] /\ queue[b] \in Seq(Received)
      /\ queue[b] # <<>> /\ m = Head(queue[b])
      /\ queue' = [queue EXCEPT ![b] = Tail(queue[b])]
  BY DEF TypeOK, Taken
<1>2. queue'[b] = Tail(queue[b]) /\ \A c \in Buckets \ {b} : queue'[c] = queue[c]
  BY <1>1
<1> QED BY <1>1, <1>2, TailOf

(* What is held and queued stays in its bucket.                            *)
LEMMA BucketStep ==
  ASSUME InboundAssumption, TypeOK, Ending, OneWorker, InBucket, ClientNext
  PROVE  InBucket'
<1>1. CASE Quiet
  BY <1>1 DEF Quiet, workers, InBucket, Holds, BucketFor
<1>2. ASSUME NEW m \in Messages, Receive(m) PROVE InBucket'
  <2> DEFINE e == [id |-> m.id, version |-> m.version, arrival |-> arrivals + 1]
             b == BucketFor(m)
  <2>1. /\ e \in Received /\ b \in Buckets /\ BucketFor(e) = b
        /\ \/ UNCHANGED <<queue, owner, task>>
           \/ /\ queue' = [queue EXCEPT ![b] = Append(@, e)]
              /\ \/ UNCHANGED task
                 \/ \E t \in Of(b) : task[t] = "none" /\ task' = [task EXCEPT ![t] = "ready"]
    BY <1>2, ReceiveCases
  <2>2. UNCHANGED item
    BY <1>2 DEF Receive
  <2> HIDE DEF b, e
  <2>3. \A t \in Tasks : Holds(t)' => Holds(t)
    BY <2>1, OfType DEF Holds, TypeOK
  <2>4. \A c \in Buckets : \A i \in DOMAIN queue'[c] : BucketFor(queue'[c][i]) = c
    <3>1. CASE UNCHANGED queue
      BY <3>1 DEF InBucket
    <3>2. CASE queue' = [queue EXCEPT ![b] = Append(@, e)]
      <4>1. /\ queue[b] \in Seq(Received) /\ queue'[b] = Append(queue[b], e)
            /\ \A c \in Buckets \ {b} : queue'[c] = queue[c]
        BY <2>1, <3>2 DEF TypeOK
      <4>2. \A i \in DOMAIN queue'[b] : BucketFor(queue'[b][i]) = b
        BY <2>1, <4>1, AppendOf DEF InBucket
      <4> QED BY <4>1, <4>2 DEF InBucket
    <3> QED BY <2>1, <3>1, <3>2
  <2> QED BY <2>2, <2>3, <2>4 DEF InBucket, BucketFor
<1>3. ASSUME NEW t \in Tasks, TaskStep(t) PROVE InBucket'
  <2>1. \A u \in Tasks \ {t} : task'[u] = task[u] /\ item'[u] = item[u]
    BY <1>3, TaskMoves
  <2>2. t[1] \in Buckets
    BY TaskType
  <2>3. ASSUME NEW m \in Received, Taken(t[1], m)
        PROVE  \A c \in Buckets : \A i \in DOMAIN queue'[c] : BucketFor(queue'[c][i]) = c
    BY <2>2, <2>3, TakenFacts DEF InBucket
  <2>4. CASE Idles(t)
    BY <2>1, <2>4 DEF Idles, InBucket, BucketFor, Holds
  <2>5. ASSUME NEW m \in Received, BucketFor(m) = t[1], Seals(t, m) PROVE InBucket'
    <3>1. item'[t] = <<m>> /\ Taken(t[1], m)
      BY <2>5 DEF Seals
    <3>2. Len(item'[t]) = 1 /\ item'[t][1] = m
      BY <3>1
    <3>3. \A u \in Tasks : Holds(u)' => Len(item'[u]) = 1 /\ BucketFor(item'[u][1]) = u[1]
      BY <2>1, <2>5, <3>2 DEF InBucket, Holds
    <3> QED BY <2>3, <3>1, <3>3 DEF InBucket, BucketFor
  <2>6. ASSUME NEW m \in Received, BucketFor(m) = t[1], Works(t, m) PROVE InBucket'
    <3>1. Holds(t)' => item'[t] = <<m>>
      BY <2>6 DEF Works, Suppressed, Emitted
    <3>2. \A c \in Buckets : \A i \in DOMAIN queue'[c] : BucketFor(queue'[c][i]) = c
      BY <2>3, <2>6 DEF Works, Readable, InBucket
    <3>3. Holds(t)' => Len(item'[t]) = 1 /\ item'[t][1] = m
      BY <3>1
    <3>4. \A u \in Tasks : Holds(u)' => Len(item'[u]) = 1 /\ BucketFor(item'[u][1]) = u[1]
      BY <2>1, <2>6, <3>3 DEF InBucket, Holds
    <3> QED BY <3>2, <3>4 DEF InBucket, BucketFor
  <2> QED BY <1>3, <2>4, <2>5, <2>6, TaskCases
<1>4. ASSUME NEW t \in Tasks, Retire(t) \/ Callback(t) PROVE InBucket'
  <2>1. UNCHANGED <<queue, item>>
    BY <1>4 DEF Retire, Callback
  <2>2. \A u \in Tasks : Holds(u)' => Holds(u)
    <3>1. CASE Retire(t)
      BY <3>1 DEF Retire, Holds, TypeOK
    <3>2. CASE Callback(t)
      <4> DEFINE states == [task EXCEPT ![t] = "none"]
      <4>1. task' = states \/ \E u \in Of(t[1]) : task' = [states EXCEPT ![u] = "ready"]
        BY <3>2, CallbackCases
      <4> QED BY <4>1 DEF Holds, TypeOK
    <3> QED BY <1>4, <3>1, <3>2
  <2> QED BY <2>1, <2>2 DEF InBucket, BucketFor
<1>5. CASE Finished
  <2>1. /\ \A b \in Buckets : queue'[b] = <<>>
        /\ \A t \in Tasks : task'[t] = IF owner[t[1]] = t /\ task[t] \in Alive
                                         THEN "none" ELSE task[t]
    BY <1>5 DEF Finished
  <2>2. \A t \in Tasks : ~Holds(t)'
    BY <2>1 DEF OneWorker, Holds, Alive
  <2> QED BY <2>1, <2>2 DEF InBucket
<1> QED BY <1>1, <1>2, <1>3, <1>4, <1>5, ClientCases

(* The senders' world keeps its queues empty.                              *)
LEMMA ListeningStep ==
  ASSUME InboundAssumption, TypeOK, Ending, OneWorker, InBucket, OnlyListening, ClientNext
  PROVE  OnlyListening'
<1>1. CASE Quiet
  BY <1>1 DEF Quiet, workers, OnlyListening, Holds
<1>2. ASSUME NEW m \in Messages, Receive(m) PROVE OnlyListening'
  BY <1>2 DEF Receive, OnlyListening, connection
<1>3. ASSUME NEW t \in Tasks, TaskStep(t) PROVE OnlyListening'
  <2>1. /\ \A u \in Tasks \ {t} : task'[u] = task[u]
        /\ UNCHANGED world /\ t[1] \in Buckets
    BY <1>3, TaskMoves, TaskType DEF connection
  <2>2. CASE Idles(t)
    BY <2>1, <2>2 DEF Idles, OnlyListening, Holds
  <2>3. ASSUME NEW m, Seals(t, m) \/ Works(t, m) PROVE world # "send"
    BY <2>1, <2>3 DEF Seals, Works, Taken, Readable, OnlyListening, Holds
  <2> QED BY <1>3, <2>1, <2>2, <2>3, TaskCases DEF OnlyListening
<1>4. ASSUME NEW t \in Tasks, Retire(t) PROVE OnlyListening'
  BY <1>4 DEF Retire, OnlyListening, Holds, TypeOK, connection
<1>5. ASSUME NEW t \in Tasks, Callback(t) PROVE OnlyListening'
  <2> DEFINE states == [task EXCEPT ![t] = "none"]
  <2>1. task' = states \/ \E u \in Of(t[1]) : task' = [states EXCEPT ![u] = "ready"]
    BY <1>5, CallbackCases
  <2>2. \A u \in Tasks : Holds(u)' => Holds(u)
    BY <2>1 DEF Holds, TypeOK
  <2> QED BY <1>5, <2>2 DEF Callback, OnlyListening, connection
<1>6. CASE Finished
  <2>1. /\ \A b \in Buckets : queue'[b] = <<>>
        /\ \A t \in Tasks : task'[t] = IF owner[t[1]] = t /\ task[t] \in Alive
                                         THEN "none" ELSE task[t]
    BY <1>6 DEF Finished
  <2>2. \A t \in Tasks : ~Holds(t)'
    BY <2>1 DEF OneWorker, Holds, Alive
  <2> QED BY <2>1, <2>2 DEF OnlyListening
<1> QED BY <1>1, <1>2, <1>3, <1>4, <1>5, <1>6, ClientCases

(* A queue that is not empty has a worker, or a callback to come.          *)
LEMMA ServedStep ==
  ASSUME InboundAssumption, TypeOK, Ending, OneWorker, InBucket, AcceptedAreServed, ClientNext
  PROVE  AcceptedAreServed'
<1> DEFINE Served(b) == \E t \in Of(b) :
                          (task[t] \in Alive /\ owner[b] = t) \/ task[t] = "retired"
<1>1. CASE Quiet
  BY <1>1 DEF Quiet, workers, AcceptedAreServed
<1>2. ASSUME NEW m \in Messages, Receive(m) PROVE AcceptedAreServed'
  <2> DEFINE e == [id |-> m.id, version |-> m.version, arrival |-> arrivals + 1]
             b == BucketFor(m)
  <2>1. /\ b \in Buckets
        /\ \/ UNCHANGED <<queue, owner, task>>
           \/ /\ queue' = [queue EXCEPT ![b] = Append(@, e)]
              /\ \/ UNCHANGED <<owner, task>> /\ owner[b] \in Of(b) /\ task[owner[b]] \in Alive
                 \/ \E t \in Of(b) : /\ task[t] = "none"
                                     /\ \A u \in Of(b) : task[u] \notin Alive
                                     /\ owner' = [owner EXCEPT ![b] = t]
                                     /\ task' = [task EXCEPT ![t] = "ready"]
    BY <1>2, ReceiveCases
  <2>2. UNCHANGED <<running, stopping>> /\ running /\ stopping # "stopped"
    BY <1>2 DEF Receive, connection, Ending
  <2> HIDE DEF b, e
  <2>3. CASE UNCHANGED <<queue, owner, task>>
    BY <2>2, <2>3 DEF AcceptedAreServed
  <2>4. CASE /\ queue' = [queue EXCEPT ![b] = Append(@, e)] /\ UNCHANGED <<owner, task>>
             /\ owner[b] \in Of(b) /\ task[owner[b]] \in Alive
    <3>1. Served(b)' /\ \A c \in Buckets \ {b} : queue'[c] = queue[c]
      BY <2>4 DEF TypeOK
    <3> QED BY <2>2, <2>4, <3>1 DEF AcceptedAreServed
  <2>5. ASSUME NEW t \in Of(b), task[t] = "none",
               queue' = [queue EXCEPT ![b] = Append(@, e)],
               owner' = [owner EXCEPT ![b] = t], task' = [task EXCEPT ![t] = "ready"]
        PROVE  AcceptedAreServed'
    <3>1. t \in Tasks /\ t[1] = b
      BY OfType
    <3>2. /\ \A c \in Buckets : owner'[c] = IF c = b THEN t ELSE owner[c]
          /\ \A u \in Tasks : task'[u] = IF u = t THEN "ready" ELSE task[u]
          /\ \A c \in Buckets \ {b} : queue'[c] = queue[c]
      BY <2>5, <3>1 DEF TypeOK
    <3>3. Served(b)'
      BY <2>1, <3>1, <3>2 DEF Alive
    <3>4. \A c \in Buckets \ {b} : Served(c) => Served(c)'
      BY <2>5, <3>1, <3>2 DEF Of, Alive
    <3> QED BY <2>2, <3>2, <3>3, <3>4 DEF AcceptedAreServed
  <2> QED BY <2>1, <2>3, <2>4, <2>5
<1>3. ASSUME NEW t \in Tasks, TaskStep(t) PROVE AcceptedAreServed'
  <2>1. /\ task[t] \in Alive /\ task'[t] \in Alive
        /\ \A u \in Tasks \ {t} : task'[u] = task[u]
        /\ UNCHANGED <<owner, running, stopping>> /\ t[1] \in Buckets
    BY <1>3, TaskMoves, TaskType DEF connection
  <2>2. \A c \in Buckets : Served(c) => Served(c)'
    BY <2>1, OfType DEF Alive
  <2>3. \A c \in Buckets \ {t[1]} : queue'[c] = queue[c]
    <3>1. \A m : Taken(t[1], m) => \A c \in Buckets \ {t[1]} : queue'[c] = queue[c]
      BY <2>1, TakenFacts
    <3> QED BY <1>3, <3>1, TaskCases DEF Idles, Seals, Works, Readable
  <2>4. Served(t[1])'
    BY <2>1, TaskType DEF OneWorker
  <2>5. stopping # "stopped"
    BY <2>1 DEF AcceptedAreServed
  <2> QED BY <2>1, <2>2, <2>3, <2>4, <2>5 DEF AcceptedAreServed
<1>4. ASSUME NEW t \in Tasks, Retire(t) PROVE AcceptedAreServed'
  <2>1. /\ \A u \in Tasks : task'[u] = IF u = t THEN "retired" ELSE task[u]
        /\ UNCHANGED <<queue, owner, running, stopping>>
    BY <1>4 DEF Retire, TypeOK, connection
  <2>2. \A c \in Buckets : Served(c) => Served(c)'
    BY <2>1, OfType
  <2> QED BY <2>1, <2>2 DEF AcceptedAreServed, Alive
<1>5. ASSUME NEW t \in Tasks, Callback(t) PROVE AcceptedAreServed'
  <2> DEFINE b == t[1]
             tasks == Pop(t)
             states == [task EXCEPT ![t] = "none"]
  <2>1. /\ task[t] = "retired" /\ b \in Buckets /\ t \in Of(b)
        /\ tasks \in [Buckets -> Tasks \cup {NoTask}]
        /\ states \in [Tasks -> Alive \cup {"none", "retired"}]
        /\ \/ /\ owner' = tasks /\ task' = states
              /\ running /\ queue[b] # <<>> =>
                   tasks[b] \in Of(b) /\ states[tasks[b]] \in Alive
           \/ \E u \in Of(b) :
                /\ running /\ states[u] = "none" /\ \A v \in Of(b) : states[v] \notin Alive
                /\ owner' = [tasks EXCEPT ![b] = u]
                /\ task' = [states EXCEPT ![u] = "ready"]
    BY <1>5, CallbackCases
  <2>2. /\ \A c \in Buckets : tasks[c] = IF c = b /\ owner[b] = t THEN NoTask ELSE owner[c]
        /\ \A u \in Tasks : states[u] = IF u = t THEN "none" ELSE task[u]
    BY <2>1 DEF Pop, TypeOK
  <2>3. UNCHANGED <<queue, running, stopping>>
    BY <1>5 DEF Callback, connection
  <2> HIDE DEF b, tasks, states
  <2>4. CASE /\ owner' = tasks /\ task' = states
             /\ running /\ queue[b] # <<>> =>
                  tasks[b] \in Of(b) /\ states[tasks[b]] \in Alive
    <3>1. \A c \in Buckets \ {b} : Served(c) => Served(c)'
      BY <2>1, <2>2, <2>4, OfType
    <3>2. running /\ queue[b] # <<>> => Served(b)'
      BY <2>4
    <3>3. stopping = "stopped" => \A u \in Tasks : task'[u] \notin Alive
      BY <2>2, <2>4 DEF AcceptedAreServed, Alive
    <3> QED BY <2>3, <3>1, <3>2, <3>3 DEF AcceptedAreServed
  <2>5. ASSUME NEW u \in Of(b), running, owner' = [tasks EXCEPT ![b] = u],
               task' = [states EXCEPT ![u] = "ready"]
        PROVE  AcceptedAreServed'
    <3>1. u \in Tasks /\ u[1] = b
      BY OfType
    <3>2. /\ \A c \in Buckets : owner'[c] = IF c = b THEN u ELSE tasks[c]
          /\ \A v \in Tasks : task'[v] = IF v = u THEN "ready" ELSE states[v]
      BY <2>1, <2>5, <3>1
    <3>3. Served(b)'
      BY <2>1, <3>2, <3>1 DEF Alive
    <3>4. \A c \in Buckets \ {b} : Served(c) => Served(c)'
      <4>1. ASSUME NEW c \in Buckets \ {b}, NEW v \in Of(c)
            PROVE  task'[v] = task[v] /\ owner'[c] = owner[c]
        <5>1. v \in Tasks /\ v # u /\ v # t
          BY <2>1, <3>1, <4>1, OfType
        <5> QED BY <2>2, <3>2, <4>1, <5>1
      <4> QED BY <4>1
    <3>5. stopping # "stopped"
      BY <2>5 DEF Ending
    <3> QED BY <2>3, <3>3, <3>4, <3>5 DEF AcceptedAreServed
  <2> QED BY <2>1, <2>4, <2>5
<1>6. CASE Finished
  <2>1. /\ \A b \in Buckets : queue'[b] = <<>>
        /\ \A t \in Tasks : task'[t] = IF owner[t[1]] = t /\ task[t] \in Alive
                                         THEN "none" ELSE task[t]
    BY <1>6 DEF Finished
  <2>2. \A t \in Tasks : task'[t] \notin Alive
    BY <2>1 DEF OneWorker, Alive
  <2> QED BY <2>1, <2>2 DEF AcceptedAreServed
<1> QED BY <1>1, <1>2, <1>3, <1>4, <1>5, <1>6, ClientCases

----------------------------------------------------------------------------
(* The order of arrival                                                    *)

(* Arrivals are numbers.                                                   *)
LEMMA Arrivals ==
  ASSUME TypeOK
  PROVE  /\ arrivals \in Nat
         /\ \A i \in DOMAIN emitted : emitted[i] \in Received /\ emitted[i].arrival \in Nat
         /\ \A b \in Buckets : \A i \in DOMAIN queue[b] :
              queue[b][i] \in Received /\ queue[b][i].arrival \in Nat
<1>1. emitted \in Seq(Received) /\ arrivals \in Nat
  BY DEF TypeOK
<1>2. ASSUME NEW b \in Buckets PROVE queue[b] \in Seq(Received)
  BY DEF TypeOK
<1>3. \A m \in Received : m.arrival \in Nat
  BY DEF Received
<1> QED BY <1>1, <1>2, <1>3

(* Message m comes after what its bucket emitted and before what is queued  *)
(* there next; and the queues keep their order.                            *)
Leads(b, m) ==
  /\ m.arrival <= arrivals /\ EmittedBefore(b, m.arrival)
  /\ \A i \in DOMAIN queue'[b] : m.arrival < queue'[b][i].arrival

StillInTurn ==
  \A c \in Buckets :
    /\ \A i, j \in DOMAIN queue'[c] : i < j => queue'[c][i].arrival < queue'[c][j].arrival
    /\ \A i \in DOMAIN queue'[c] : /\ queue'[c][i].arrival <= arrivals
                                   /\ EmittedBefore(c, queue'[c][i].arrival)

(* What a task has in hand, or a reader holds, is next in its bucket.       *)
LEMMA LeadsFacts ==
  ASSUME TypeOK, InTurn, NEW t \in Tasks, NEW m, Taken(t[1], m) \/ Readable(t, m)
  PROVE  Leads(t[1], m) /\ StillInTurn
<1>0. t[1] \in Buckets
  BY TaskType
<1>1. CASE Taken(t[1], m)
  <2> DEFINE b == t[1]
  <2> HIDE DEF b
  <2>1. /\ \A c \in Buckets \ {b} : queue'[c] = queue[c]
        /\ m = queue[b][1] /\ 1 \in DOMAIN queue[b] /\ b \in Buckets
        /\ \A i \in DOMAIN queue'[b] :
             i + 1 \in DOMAIN queue[b] /\ queue'[b][i] = queue[b][i + 1]
    BY <1>0, <1>1, TakenFacts DEF b
  <2>2. /\ queue[b] \in Seq(Received) /\ queue'[b] \in Seq(Received)
    <3>1. queue[b] \in Seq(Received) /\ queue[b] # <<>> /\ queue'[b] = Tail(queue[b])
      BY <1>0, <1>1, TakenFacts DEF b, TypeOK
    <3> QED BY <3>1, TailOf
  <2>3. QueuedInTurn(b)
    BY <2>1 DEF InTurn
  <2>4. \A i \in DOMAIN queue'[b] : i \in Nat /\ i + 1 > 1
    BY <2>2
  <2>5. Leads(b, m)
    BY <2>1, <2>3, <2>4 DEF QueuedInTurn, Leads
  <2>6. \A i, j \in DOMAIN queue'[b] : i < j => queue'[b][i].arrival < queue'[b][j].arrival
    <3>1. \A i, j \in DOMAIN queue'[b] : i < j => i + 1 < j + 1
      BY <2>4
    <3> QED BY <2>1, <2>3, <3>1 DEF QueuedInTurn
  <2>7. \A i \in DOMAIN queue'[b] : /\ queue'[b][i].arrival <= arrivals
                                    /\ EmittedBefore(b, queue'[b][i].arrival)
    BY <2>1, <2>3 DEF QueuedInTurn
  <2>8. StillInTurn
    BY <2>1, <2>6, <2>7 DEF StillInTurn, InTurn, QueuedInTurn
  <2> QED BY <2>5, <2>8 DEF b
<1>2. CASE Readable(t, m)
  <2>1. HeldInTurn(t) /\ task[t] = "decrypting" /\ m = item[t][1] /\ queue' = queue
    BY <1>2 DEF Readable, InTurn
  <2>2. Leads(t[1], m)
    BY <2>1 DEF HeldInTurn, Leads, QueuedAfter
  <2>3. StillInTurn
    BY <2>1 DEF StillInTurn, InTurn, QueuedInTurn
  <2> QED BY <2>2, <2>3
<1> QED BY <1>1, <1>2

(* What another task decrypts is of another bucket, and is not disturbed by *)
(* what becomes of m.                                                      *)
LEMMA OthersInTurn ==
  ASSUME TypeOK, OneWorker, InTurn, NEW t \in Tasks, NEW m \in Received,
         task[t] \in Alive, BucketFor(m) = t[1],
         \A c \in Buckets \ {t[1]} : queue'[c] = queue[c],
         emitted' = emitted \/ emitted' = Append(emitted, m), UNCHANGED arrivals,
         NEW u \in Tasks, u # t, task'[u] = task[u], item'[u] = item[u]
  PROVE  HeldInTurn(u)'
<1> SUFFICES ASSUME task[u] = "decrypting"
             PROVE  /\ item[u][1].arrival <= arrivals
                    /\ EmittedBefore(u[1], item[u][1].arrival)'
                    /\ QueuedAfter(u[1], item[u][1].arrival)'
  BY DEF HeldInTurn, EmittedBefore, QueuedAfter, BucketFor
<1>1. u[1] # t[1] /\ u[1] \in Buckets
  BY TaskType DEF OneWorker, Alive
<1>2. HeldInTurn(u)
  BY DEF InTurn
<1>3. item[u]' = item[u]
  OBVIOUS
<1>4. QueuedAfter(u[1], item[u][1].arrival)'
  BY <1>1, <1>2, <1>3 DEF HeldInTurn, QueuedAfter
<1>5. EmittedBefore(u[1], item[u][1].arrival)'
  <2>1. \A i \in DOMAIN emitted' :
          \/ i \in DOMAIN emitted /\ emitted'[i] = emitted[i]
          \/ emitted'[i] = m
    <3>1. emitted \in Seq(Received)
      BY DEF TypeOK
    <3> QED BY <3>1, AppendOf
  <2> QED BY <1>1, <1>2, <1>3, <2>1 DEF HeldInTurn, EmittedBefore, BucketFor
<1> QED BY <1>2, <1>4, <1>5 DEF HeldInTurn

(* What is emitted next of a bucket comes after the rest of it.            *)
LEMMA EmitsInTurn ==
  ASSUME TypeOK, InTurn, NEW t \in Tasks, NEW m \in Received, BucketFor(m) = t[1],
         Leads(t[1], m), emitted' = Append(emitted, m), UNCHANGED arrivals
  PROVE  /\ \A i \in DOMAIN emitted' : emitted'[i].arrival <= arrivals
         /\ EmittedInTurn'
<1>1. emitted \in Seq(Received)
  BY DEF TypeOK
<1>2. /\ DOMAIN emitted' = DOMAIN emitted \cup {Len(emitted) + 1}
      /\ emitted'[Len(emitted) + 1] = m
      /\ \A i \in DOMAIN emitted : emitted'[i] = emitted[i] /\ i < Len(emitted) + 1
  BY <1>1, AppendOf
<1>3. \A i \in DOMAIN emitted' : emitted'[i].arrival <= arrivals
  BY <1>2 DEF InTurn, Leads
<1>4. ASSUME NEW i \in DOMAIN emitted', NEW j \in DOMAIN emitted', i < j,
             BucketFor(emitted'[i]) = BucketFor(emitted'[j])
      PROVE  emitted'[i].arrival < emitted'[j].arrival
  <2>1. i \in DOMAIN emitted
    BY <1>1, <1>2, <1>4
  <2>2. CASE j \in DOMAIN emitted
    BY <1>2, <1>4, <2>1, <2>2 DEF InTurn, EmittedInTurn
  <2>3. CASE j = Len(emitted) + 1
    BY <1>2, <1>4, <2>1, <2>3 DEF Leads, EmittedBefore
  <2> QED BY <1>2, <2>2, <2>3
<1> QED BY <1>3, <1>4 DEF EmittedInTurn, BucketFor

(* Queues that keep their order keep it after m has been emitted.          *)
LEMMA QueuesInTurn ==
  ASSUME TypeOK, NEW b \in Buckets, NEW m \in Received, BucketFor(m) = b,
         Leads(b, m), StillInTurn, UNCHANGED arrivals,
         emitted' = emitted \/ emitted' = Append(emitted, m),
         NEW c \in Buckets
  PROVE  QueuedInTurn(c)'
<1>1. emitted \in Seq(Received)
  BY DEF TypeOK
<1>2. \A i \in DOMAIN emitted' :
        \/ i \in DOMAIN emitted /\ emitted'[i] = emitted[i]
        \/ emitted'[i] = m
  BY <1>1, AppendOf
<1>3. ASSUME NEW i \in DOMAIN queue'[c], NEW k \in DOMAIN emitted',
             BucketFor(emitted'[k]) = c
      PROVE  emitted'[k].arrival < queue'[c][i].arrival
  <2>1. CASE k \in DOMAIN emitted /\ emitted'[k] = emitted[k]
    BY <1>3, <2>1 DEF StillInTurn, EmittedBefore
  <2>2. CASE emitted'[k] = m
    BY <1>3, <2>2 DEF Leads
  <2> QED BY <1>2, <2>1, <2>2
<1> QED BY <1>3 DEF QueuedInTurn, EmittedBefore, StillInTurn, BucketFor

(* What a worker does keeps the order of arrival.                          *)
LEMMA TaskInTurn ==
  ASSUME InboundAssumption, TypeOK, OneWorker, InBucket, InTurn, NEW t \in Tasks, TaskStep(t)
  PROVE  InTurn'
<1>1. /\ task[t] \in Alive /\ UNCHANGED arrivals
      /\ \A u \in Tasks \ {t} : task'[u] = task[u] /\ item'[u] = item[u]
      /\ t[1] \in Buckets
  BY TaskMoves, TaskType
<1>2. CASE Idles(t)
  <2>1. UNCHANGED <<queue, emitted, entered>> /\ task'[t] # "decrypting"
    BY <1>2 DEF Idles, Holds
  <2>2. \A u \in Tasks : HeldInTurn(u)'
    BY <1>1, <2>1 DEF InTurn, HeldInTurn, EmittedBefore, QueuedAfter, BucketFor
  <2>3. \A b \in Buckets : QueuedInTurn(b)'
    BY <1>1, <2>1 DEF InTurn, QueuedInTurn, EmittedBefore, BucketFor
  <2> QED BY <1>1, <2>1, <2>2, <2>3 DEF InTurn, EmittedInTurn, BucketFor
<1>3. ASSUME NEW m \in Received, BucketFor(m) = t[1], Seals(t, m) \/ Works(t, m)
      PROVE  InTurn'
  <2>1. Taken(t[1], m) \/ Readable(t, m)
    BY <1>3 DEF Seals, Works
  <2>2. Leads(t[1], m) /\ StillInTurn
    BY <2>1, LeadsFacts
  <2>3. emitted' = emitted \/ emitted' = Append(emitted, m)
    BY <1>3 DEF Seals, Works, Suppressed, Emitted
  <2>4. \A c \in Buckets \ {t[1]} : queue'[c] = queue[c]
    BY <1>1, <2>1, TakenFacts DEF Readable
  <2>5. \A c \in Buckets : QueuedInTurn(c)'
    BY <1>1, <1>3, <2>2, <2>3, QueuesInTurn
  <2>6. /\ \A i \in DOMAIN emitted' : emitted'[i].arrival <= arrivals'
        /\ EmittedInTurn'
    <3>1. CASE emitted' = emitted
      BY <1>1, <3>1 DEF InTurn, EmittedInTurn, BucketFor
    <3>2. CASE emitted' = Append(emitted, m)
      BY <1>1, <1>3, <2>2, <3>2, EmitsInTurn
    <3> QED BY <2>3, <3>1, <3>2
  <2>7. ASSUME NEW u \in Tasks PROVE HeldInTurn(u)'
    <3>1. CASE u # t
      BY <1>1, <1>3, <2>3, <2>4, <3>1, OthersInTurn
    <3>2. CASE u = t
      <4>1. CASE Works(t, m)
        BY <3>2, <4>1 DEF Works, Suppressed, Emitted, Holds, HeldInTurn
      <4>2. CASE Seals(t, m)
        <5>1. item'[t][1] = m /\ emitted' = emitted
          BY <4>2 DEF Seals
        <5> QED BY <1>1, <2>2, <3>2, <5>1
                DEF Leads, HeldInTurn, EmittedBefore, QueuedAfter, BucketFor
      <4> QED BY <1>3, <4>1, <4>2
    <3> QED BY <3>1, <3>2
  <2> QED BY <2>5, <2>6, <2>7 DEF InTurn
<1> QED BY <1>2, <1>3, TaskCases

(* A message that arrives comes last.                                      *)
LEMMA ReceiveInTurn ==
  ASSUME InboundAssumption, TypeOK, OneWorker, InBucket, InTurn, NEW m \in Messages, Receive(m)
  PROVE  InTurn'
<1> DEFINE e == [id |-> m.id, version |-> m.version, arrival |-> arrivals + 1]
           b == BucketFor(m)
<1>1. /\ e \in Received /\ b \in Buckets /\ e.arrival = arrivals + 1
      /\ \/ UNCHANGED queue \/ queue' = [queue EXCEPT ![b] = Append(@, e)]
      /\ \/ UNCHANGED task
         \/ \E t \in Of(b) : task' = [task EXCEPT ![t] = "ready"]
  BY ReceiveCases
<1>2. UNCHANGED <<item, emitted, entered>> /\ arrivals' = arrivals + 1
  BY DEF Receive
<1> HIDE DEF b, e
<1>3. /\ arrivals \in Nat
      /\ \A i \in DOMAIN emitted : emitted[i].arrival \in Nat
      /\ \A c \in Buckets : \A i \in DOMAIN queue[c] : queue[c][i].arrival \in Nat
  BY Arrivals
<1>4. \A c \in Buckets : \A i \in DOMAIN queue'[c] :
        \/ i \in DOMAIN queue[c] /\ queue'[c][i] = queue[c][i]
        \/ i = Len(queue[c]) + 1 /\ queue'[c][i] = e /\ \A j \in DOMAIN queue[c] : j < i
  <2>1. CASE UNCHANGED queue
    BY <2>1
  <2>2. CASE queue' = [queue EXCEPT ![b] = Append(@, e)]
    <3>1. /\ queue[b] \in Seq(Received) /\ queue'[b] = Append(queue[b], e)
          /\ \A c \in Buckets \ {b} : queue'[c] = queue[c]
      BY <1>1, <2>2 DEF TypeOK
    <3>2. \A i \in DOMAIN queue'[b] :
            \/ i \in DOMAIN queue[b] /\ queue'[b][i] = queue[b][i]
            \/ i = Len(queue[b]) + 1 /\ queue'[b][i] = e /\ \A j \in DOMAIN queue[b] : j < i
      BY <1>1, <3>1, AppendOf
    <3> QED BY <3>1, <3>2
  <2> QED BY <1>1, <2>1, <2>2
<1>5. \A i \in DOMAIN emitted : emitted[i].arrival < arrivals + 1
  BY <1>3 DEF InTurn
<1>6. \A c \in Buckets : \A i \in DOMAIN queue[c] : queue[c][i].arrival < arrivals + 1
  BY <1>3 DEF InTurn, QueuedInTurn
<1>7. ASSUME NEW c \in Buckets PROVE QueuedInTurn(c)'
  <2>1. ASSUME NEW i \in DOMAIN queue'[c], NEW j \in DOMAIN queue'[c], i < j
        PROVE  queue'[c][i].arrival < queue'[c][j].arrival
    <3>1. queue[c] \in Seq(Received)
      BY DEF TypeOK
    <3>2. i \in DOMAIN queue[c] /\ queue'[c][i] = queue[c][i]
      BY <1>4, <2>1, <3>1
    <3>3. CASE j \in DOMAIN queue[c] /\ queue'[c][j] = queue[c][j]
      BY <2>1, <3>2, <3>3 DEF InTurn, QueuedInTurn
    <3>4. CASE queue'[c][j] = e
      BY <1>1, <1>6, <3>2, <3>4
    <3> QED BY <1>4, <3>3, <3>4
  <2>2. ASSUME NEW i \in DOMAIN queue'[c]
        PROVE  /\ queue'[c][i].arrival <= arrivals + 1
               /\ EmittedBefore(c, queue'[c][i].arrival)
    <3>1. CASE i \in DOMAIN queue[c] /\ queue'[c][i] = queue[c][i]
      BY <1>3, <1>6, <3>1 DEF InTurn, QueuedInTurn
    <3>2. CASE queue'[c][i] = e
      BY <1>1, <1>3, <1>5, <3>2 DEF EmittedBefore
    <3> QED BY <1>4, <3>1, <3>2
  <2> QED BY <1>2, <2>1, <2>2 DEF QueuedInTurn, EmittedBefore, BucketFor
<1>8. ASSUME NEW u \in Tasks PROVE HeldInTurn(u)'
  <2> SUFFICES ASSUME task'[u] = "decrypting" PROVE HeldInTurn(u)'
    BY DEF HeldInTurn
  <2>1. task[u] = "decrypting" /\ u[1] \in Buckets /\ HeldInTurn(u)
    BY <1>1, TaskType DEF TypeOK, InTurn
  <2>2. item[u][1].arrival \in Nat
    BY <2>1, HeldType DEF Holds, Received
  <2>3. /\ item[u][1].arrival < arrivals + 1
        /\ EmittedBefore(u[1], item[u][1].arrival)
        /\ QueuedAfter(u[1], item[u][1].arrival)
    BY <1>3, <2>1, <2>2 DEF HeldInTurn
  <2>4. \A i \in DOMAIN queue'[u[1]] : item[u][1].arrival < queue'[u[1]][i].arrival
    BY <1>1, <1>4, <2>1, <2>3 DEF QueuedAfter
  <2>5. item[u][1].arrival <= arrivals + 1
    BY <1>3, <2>2, <2>3
  <2> QED BY <1>2, <2>3, <2>4, <2>5 DEF HeldInTurn, EmittedBefore, QueuedAfter, BucketFor
<1>9. \A i \in DOMAIN emitted : emitted[i].arrival <= arrivals + 1
  BY <1>3, <1>5
<1> QED BY <1>2, <1>7, <1>8, <1>9 DEF InTurn, EmittedInTurn, BucketFor

(* Every step keeps the order of arrival.                                  *)
LEMMA TurnStep ==
  ASSUME InboundAssumption, TypeOK, Ending, OneWorker, InBucket, InTurn, ClientNext
  PROVE  InTurn'
<1>1. ASSUME UNCHANGED <<queue, item, emitted, entered, arrivals>>,
             \A u \in Tasks : task'[u] = "decrypting" => task[u] = "decrypting"
      PROVE  InTurn'
  <2>1. \A u \in Tasks : HeldInTurn(u)'
    BY <1>1 DEF InTurn, HeldInTurn, EmittedBefore, QueuedAfter, BucketFor
  <2>2. \A b \in Buckets : QueuedInTurn(b)'
    BY <1>1 DEF InTurn, QueuedInTurn, EmittedBefore, BucketFor
  <2> QED BY <1>1, <2>1, <2>2 DEF InTurn, EmittedInTurn, BucketFor
<1>2. CASE Quiet
  BY <1>1, <1>2 DEF Quiet, workers
<1>3. ASSUME NEW t \in Tasks, Retire(t) PROVE InTurn'
  BY <1>1, <1>3 DEF Retire, TypeOK
<1>4. ASSUME NEW t \in Tasks, Callback(t) PROVE InTurn'
  <2> DEFINE states == [task EXCEPT ![t] = "none"]
  <2>1. task' = states \/ \E u \in Of(t[1]) : task' = [states EXCEPT ![u] = "ready"]
    BY <1>4, CallbackCases
  <2>2. \A u \in Tasks : task'[u] = "decrypting" => task[u] = "decrypting"
    BY <2>1 DEF TypeOK
  <2> QED BY <1>1, <1>4, <2>2 DEF Callback
<1>5. CASE Finished
  <2>1. /\ \A b \in Buckets : queue'[b] = <<>>
        /\ \A t \in Tasks : task'[t] = IF owner[t[1]] = t /\ task[t] \in Alive
                                         THEN "none" ELSE task[t]
        /\ UNCHANGED <<emitted, entered, arrivals>>
    BY <1>5 DEF Finished
  <2>2. \A t \in Tasks : task'[t] # "decrypting"
    BY <2>1 DEF OneWorker, Alive
  <2> QED BY <2>1, <2>2 DEF InTurn, EmittedInTurn, QueuedInTurn, HeldInTurn, BucketFor
<1> QED BY <1>2, <1>3, <1>4, <1>5, ClientCases, TaskInTurn, ReceiveInTurn

----------------------------------------------------------------------------
(* The signature cache                                                     *)

(* The ids in a cache.                                                     *)
CacheIds(cache) == {cache[i].id : i \in DOMAIN cache}

(* A cache that knows the id: the entry is replaced where it stands.        *)
LEMMA RememberKnown ==
  ASSUME NEW cache \in Seq(Signed), NEW m \in Signed, OncePerId(cache), Knows(cache, m.id)
  PROVE  LET r == Remember(cache, m)
         IN  /\ DOMAIN r = DOMAIN cache /\ Len(r) = Len(cache) /\ OncePerId(r)
             /\ \A i \in DOMAIN cache : r[i] = IF cache[i].id = m.id THEN m ELSE cache[i]
<1> DEFINE r == Remember(cache, m)
<1>1. r = [i \in DOMAIN cache |-> IF cache[i].id = m.id THEN m ELSE cache[i]]
  BY DEF Remember
<1> HIDE DEF r
<1>2. DOMAIN cache = 1 .. Len(cache) /\ Len(cache) \in Nat
  OBVIOUS
<1>3. DOMAIN r = DOMAIN cache /\ Len(r) = Len(cache)
  BY <1>1, <1>2
<1>4. \A i \in DOMAIN cache : r[i] = IF cache[i].id = m.id THEN m ELSE cache[i]
  BY <1>1
<1>5. \A i \in DOMAIN cache : r[i].id = cache[i].id
  BY <1>4
<1>6. OncePerId(r)
  BY <1>3, <1>5 DEF OncePerId
<1> QED BY <1>3, <1>4, <1>6 DEF r

(* One that does not: the entry comes last, and the one that was inserted   *)
(* first goes for it when the cache is full.                               *)
Shift(cache) == IF Len(cache) >= SeenMax THEN 1 ELSE 0

LEMMA RememberNew ==
  ASSUME InboundAssumption, NEW cache \in Seq(Signed), NEW m \in Signed, OncePerId(cache),
         ~Knows(cache, m.id)
  PROVE  LET r == Remember(cache, m)
         IN  /\ Len(r) = Len(cache) + 1 - Shift(cache) /\ Len(r) \in Nat \ {0}
             /\ r[Len(r)] = m
             /\ \A i \in DOMAIN r : i # Len(r) =>
                  i + Shift(cache) \in DOMAIN cache /\ r[i] = cache[i + Shift(cache)]
             /\ OncePerId(r)
<1> DEFINE r == Remember(cache, m)
           d == Shift(cache)
<1>1. Len(cache) \in Nat /\ DOMAIN cache = 1 .. Len(cache) /\ SeenMax \in Nat \ {0}
  BY DEF InboundAssumption
<1>2. /\ Len(r) = Len(cache) + 1 - d /\ Len(r) \in Nat \ {0} /\ r[Len(r)] = m
      /\ DOMAIN r = 1 .. Len(r) /\ d \in {0, 1}
      /\ \A i \in DOMAIN r : i # Len(r) => i + d \in DOMAIN cache /\ r[i] = cache[i + d]
  <2>1. CASE Len(cache) >= SeenMax
    <3> DEFINE rest == Tail(cache)
    <3>1. r = Append(rest, m) /\ d = 1
      BY <2>1 DEF Remember, Shift
    <3>2. /\ rest \in Seq(Signed) /\ Len(rest) = Len(cache) - 1
          /\ \A i \in DOMAIN rest : i + 1 \in DOMAIN cache /\ rest[i] = cache[i + 1]
      BY <1>1, <2>1, TailOf
    <3> HIDE DEF rest
    <3>3. /\ r \in Seq(Signed) /\ Len(r) = Len(rest) + 1 /\ r[Len(rest) + 1] = m
          /\ \A i \in DOMAIN rest : r[i] = rest[i]
          /\ DOMAIN r = DOMAIN rest \cup {Len(rest) + 1}
      BY <3>1, <3>2, AppendOf
    <3> HIDE DEF r, d
    <3> QED BY <1>1, <3>1, <3>2, <3>3
  <2>2. CASE ~(Len(cache) >= SeenMax)
    <3>1. r = Append(cache, m) /\ d = 0
      BY <2>2 DEF Remember, Shift
    <3>2. /\ r \in Seq(Signed) /\ Len(r) = Len(cache) + 1 /\ r[Len(cache) + 1] = m
          /\ \A i \in DOMAIN cache : r[i] = cache[i]
          /\ DOMAIN r = DOMAIN cache \cup {Len(cache) + 1}
      BY <3>1, AppendOf
    <3> HIDE DEF r, d
    <3> QED BY <1>1, <3>1, <3>2
  <2> QED BY <2>1, <2>2
<1> HIDE DEF r, d
<1>3. \A i \in DOMAIN cache : cache[i].id # m.id
  BY DEF Knows
<1>4. OncePerId(r)
  <2> SUFFICES ASSUME NEW i \in DOMAIN r, NEW j \in DOMAIN r, r[i].id = r[j].id PROVE i = j
    BY DEF OncePerId
  <2>1. CASE i # Len(r) /\ j # Len(r)
    <3>1. i + d = j + d
      BY <1>2, <2>1 DEF OncePerId
    <3> QED BY <1>2, <3>1
  <2>2. CASE i = Len(r) \/ j = Len(r)
    BY <1>2, <1>3, <2>2
  <2> QED BY <2>1, <2>2
<1> QED BY <1>2, <1>4 DEF r, d

(* The ids that occur in a sequence are finitely many, and as many as its    *)
(* entries when none occurs twice.                                         *)
LEMMA IdsFinite ==
  ASSUME NEW S, NEW s \in Seq(S)
  PROVE  /\ IsFiniteSet(CacheIds(s))
         /\ OncePerId(s) => Cardinality(CacheIds(s)) = Len(s)
<1> DEFINE f == [i \in DOMAIN s |-> s[i].id]
<1>1. DOMAIN s = 1 .. Len(s) /\ Len(s) \in Nat
  OBVIOUS
<1>2. IsFiniteSet(DOMAIN s) /\ Cardinality(DOMAIN s) = Len(s)
  BY <1>1, FS_Interval
<1>3. f \in Surjection(DOMAIN s, CacheIds(s))
  BY DEF Surjection, CacheIds
<1>4. OncePerId(s) => f \in Injection(DOMAIN s, CacheIds(s))
  BY DEF Injection, IsInjective, CacheIds, OncePerId
<1> HIDE DEF f
<1> QED BY <1>2, <1>3, <1>4, FS_Surjection

(* A message whose version the cache holds changes nothing.                *)
LEMMA RememberSame ==
  ASSUME TypeOK, OncePerId(seen), NEW m \in Received, Repeated(m)
  PROVE  Remember(seen, Signature(m)) = seen
<1>1. PICK k \in DOMAIN seen : seen[k] = Signature(m)
  BY DEF Repeated
<1>2. seen \in Seq(Signed)
  BY DEF TypeOK
<1>3. Remember(seen, Signature(m))
        = [i \in DOMAIN seen |-> IF seen[i].id = Signature(m).id THEN Signature(m) ELSE seen[i]]
  BY <1>1 DEF Remember, Knows
<1>4. \A i \in DOMAIN seen : seen[i].id = Signature(m).id => i = k
  BY <1>1 DEF OncePerId
<1>5. seen = [i \in DOMAIN seen |-> seen[i]]
  BY <1>2
<1> QED BY <1>1, <1>3, <1>4, <1>5

(* Where the i-th entry of a cache of length l is in a history of length h. *)
LEMMA Places ==
  ASSUME NEW h \in Nat, NEW l \in Nat, NEW e \in {0, 1}, NEW i \in Nat, l <= h,
         i + e \in 1 .. l
  PROVE  /\ h + 1 - (l + 1 - e) + i = h - l + (i + e)
         /\ h - l + (i + e) \in 1 .. h
  OBVIOUS

LEMMA PlaceOf ==
  ASSUME NEW h \in Nat, NEW l \in Nat, NEW i \in 1 .. h, l <= h, ~(i <= h - l)
  PROVE  i - (h - l) \in 1 .. l /\ h - l + (i - (h - l)) = i
  OBVIOUS

LEMMA PlaceAfter ==
  ASSUME NEW h \in Nat, NEW l \in Nat, NEW i \in 1 .. h, NEW c \in 1 .. l, l <= h, i <= h - l
  PROVE  h - l + c \in i + 1 .. h + 1 - 1
  OBVIOUS

(* The histories after a message has been emitted.                         *)
LEMMA EmittedFacts ==
  ASSUME TypeOK, NEW m \in Received, emitted' = Append(emitted, m), Enters(m)
  PROVE  /\ LET n == Len(emitted) + 1
            IN  /\ Len(emitted) \in Nat /\ Len(emitted') = n /\ emitted'[n] = m
                /\ DOMAIN emitted = 1 .. Len(emitted) /\ DOMAIN emitted' = 1 .. n
                /\ \A i \in DOMAIN emitted : i < n /\ emitted'[i] = emitted[i]
         /\ Len(entered) \in Nat /\ DOMAIN entered = 1 .. Len(entered)
         /\ \A i \in DOMAIN entered : i \in DOMAIN entered' /\ entered'[i] = entered[i]
         /\ Knows(seen, m.id) => entered' = entered
         /\ ~Knows(seen, m.id) =>
              /\ Len(entered') = Len(entered) + 1 /\ DOMAIN entered' = 1 .. Len(entered) + 1
              /\ entered'[Len(entered) + 1] = m
<1>1. emitted \in Seq(Received) /\ entered \in Seq(Received)
  BY DEF TypeOK
<1>2. /\ Len(emitted') = Len(emitted) + 1 /\ emitted'[Len(emitted) + 1] = m
      /\ DOMAIN emitted' = DOMAIN emitted \cup {Len(emitted) + 1}
      /\ \A i \in DOMAIN emitted : i < Len(emitted) + 1 /\ emitted'[i] = emitted[i]
  BY <1>1, AppendOf
<1>3. CASE Knows(seen, m.id)
  BY <1>1, <1>2, <1>3 DEF Enters
<1>4. CASE ~Knows(seen, m.id)
  <2>1. entered' = Append(entered, m)
    BY <1>4 DEF Enters
  <2>2. /\ Len(entered') = Len(entered) + 1 /\ entered'[Len(entered) + 1] = m
        /\ DOMAIN entered' = DOMAIN entered \cup {Len(entered) + 1}
        /\ \A i \in DOMAIN entered : entered'[i] = entered[i]
    BY <1>1, <2>1, AppendOf
  <2> QED BY <1>1, <1>2, <1>4, <2>2
<1> QED BY <1>3, <1>4

(* What the cache holds, as a property of the cache and the histories.      *)
Current == OncePerId(seen) /\ LastEntered /\ LastVersions

(* An edit of a message that the cache knows.                              *)
LEMMA EditKeepsCurrent ==
  ASSUME InboundAssumption, TypeOK, Current, NEW m \in Received, Knows(seen, m.id),
         emitted' = Append(emitted, m), Enters(m), seen' = Remember(seen, Signature(m))
  PROVE  Current'
<1> DEFINE n == Len(emitted) + 1
<1>1. /\ Len(emitted) \in Nat /\ Len(emitted') = n /\ emitted'[n] = m
      /\ DOMAIN emitted = 1 .. Len(emitted) /\ DOMAIN emitted' = 1 .. n
      /\ \A i \in DOMAIN emitted : i < n /\ emitted'[i] = emitted[i]
      /\ entered' = entered
  BY EmittedFacts
<1>2. /\ Signature(m) \in Signed /\ Signature(m).id = m.id /\ Signature(m).version = m.version
      /\ seen \in Seq(Signed)
  BY SignatureType DEF TypeOK
<1>3. /\ DOMAIN seen' = DOMAIN seen /\ Len(seen') = Len(seen) /\ OncePerId(seen')
      /\ \A i \in DOMAIN seen : seen'[i] = IF seen[i].id = m.id THEN Signature(m) ELSE seen[i]
  BY <1>2, RememberKnown DEF Current
<1>4. \A i \in DOMAIN seen : seen'[i].id = seen[i].id
  BY <1>2, <1>3
<1>5. LastEntered'
  BY <1>1, <1>3, <1>4 DEF Current, LastEntered
<1>6. ASSUME NEW c \in DOMAIN seen', NEW i \in DOMAIN emitted',
             emitted'[i].id = seen'[c].id, Unchanged(i)'
      PROVE  emitted'[i].version = seen'[c].version
  <2>1. CASE seen[c].id = m.id
    <3>1. seen'[c] = Signature(m) /\ emitted'[i].id = m.id
      BY <1>2, <1>3, <1>6, <2>1
    <3>2. n \in i .. Len(emitted') /\ emitted'[n].id = emitted'[i].id
      BY <1>1, <3>1
    <3>3. emitted'[n].version = emitted'[i].version
      BY <1>6, <3>2 DEF Unchanged
    <3> QED BY <1>1, <1>2, <3>1, <3>3
  <2>2. CASE seen[c].id # m.id
    <3>1. seen'[c] = seen[c] /\ c \in DOMAIN seen /\ i # n
      BY <1>1, <1>3, <1>6, <2>2
    <3>2. i \in DOMAIN emitted /\ emitted'[i] = emitted[i] /\ i \in Nat
      BY <1>1, <3>1
    <3>3. ASSUME NEW k \in i .. Len(emitted), emitted[k].id = emitted[i].id
          PROVE  emitted[k].version = emitted[i].version
      <4>1. k \in DOMAIN emitted /\ k \in i .. Len(emitted')
        BY <1>1, <3>2
      <4> QED BY <1>1, <1>6, <3>2, <3>3, <4>1 DEF Unchanged
    <3>4. Unchanged(i)
      BY ONLY <3>3 DEF Unchanged
    <3>5. emitted[i].id = seen[c].id
      BY ONLY <1>6, <3>1, <3>2
    <3>6. emitted[i].version = seen[c].version
      BY <3>1, <3>2, <3>4, <3>5 DEF Current, LastVersions
    <3> QED BY ONLY <3>1, <3>2, <3>6
  <2> QED BY <2>1, <2>2
<1>7. LastVersions'
  BY <1>6 DEF LastVersions
<1> QED BY <1>3, <1>5, <1>7 DEF Current

(* A message that the cache does not know enters it.                       *)
LEMMA EntryKeepsCurrent ==
  ASSUME InboundAssumption, TypeOK, Current, NEW m \in Received, ~Knows(seen, m.id),
         emitted' = Append(emitted, m), Enters(m), seen' = Remember(seen, Signature(m))
  PROVE  Current'
<1> DEFINE n == Len(emitted) + 1
           d == Shift(seen)
           l == Len(seen)
           h == Len(entered)
<1>1. /\ Len(emitted) \in Nat /\ Len(emitted') = n /\ emitted'[n] = m
      /\ DOMAIN emitted = 1 .. Len(emitted) /\ DOMAIN emitted' = 1 .. n
      /\ \A i \in DOMAIN emitted : i < n /\ emitted'[i] = emitted[i]
      /\ h \in Nat /\ DOMAIN entered = 1 .. h /\ Len(entered') = h + 1
      /\ \A i \in DOMAIN entered : entered'[i] = entered[i]
      /\ entered'[h + 1] = m
  BY EmittedFacts
<1>2. /\ Signature(m) \in Signed /\ Signature(m).id = m.id /\ Signature(m).version = m.version
      /\ seen \in Seq(Signed)
  BY SignatureType DEF TypeOK
<1>3. /\ Len(seen') = l + 1 - d /\ Len(seen') \in Nat \ {0} /\ OncePerId(seen')
      /\ seen'[Len(seen')] = Signature(m)
      /\ \A i \in DOMAIN seen' : i # Len(seen') => i + d \in DOMAIN seen /\ seen'[i] = seen[i + d]
  BY <1>2, RememberNew DEF Current
<1>4. /\ l \in Nat /\ DOMAIN seen = 1 .. l /\ SeenMax \in Nat \ {0}
      /\ l <= h /\ l <= SeenMax /\ (l < SeenMax => h = l)
      /\ \A i \in DOMAIN seen : seen[i].id = entered[h - l + i].id
      /\ d = IF l >= SeenMax THEN 1 ELSE 0
  BY <1>2 DEF Current, LastEntered, Shift, InboundAssumption
<1>5. seen' \in Seq(Signed) /\ DOMAIN seen' = 1 .. Len(seen')
  <2>1. seen' \in Seq(Signed)
    BY <1>2, RememberType
  <2> QED BY <2>1
<1> HIDE DEF n, d, l, h
<1>6. LastEntered'
  <2>1. /\ Len(seen') <= h + 1 /\ Len(seen') <= SeenMax
        /\ Len(seen') < SeenMax => h + 1 = Len(seen')
    BY <1>1, <1>3, <1>4
  <2>2. ASSUME NEW i \in DOMAIN seen'
        PROVE  seen'[i].id = entered'[h + 1 - Len(seen') + i].id
    <3>1. CASE i = Len(seen')
      <4>1. h + 1 - Len(seen') + i = h + 1
        BY <1>1, <1>3, <3>1
      <4> QED BY <1>1, <1>2, <1>3, <3>1, <4>1
    <3>2. CASE i # Len(seen')
      <4>1. i + d \in DOMAIN seen /\ seen'[i] = seen[i + d] /\ i \in Nat
        BY <1>3, <1>5, <3>2
      <4>2. d \in {0, 1} /\ h \in Nat /\ l \in Nat /\ l <= h /\ i + d \in 1 .. l /\ i \in Nat
        BY <1>1, <1>4, <4>1
      <4>3. /\ h + 1 - (l + 1 - d) + i = h - l + (i + d)
            /\ h - l + (i + d) \in 1 .. h
        BY ONLY <4>2, Places
      <4>4. h + 1 - Len(seen') + i = h - l + (i + d) /\ h - l + (i + d) \in DOMAIN entered
        BY <1>1, <1>3, <4>3
      <4>5. seen[i + d].id = entered[h - l + (i + d)].id
        BY <1>4, <4>1
      <4> QED BY <1>1, <4>1, <4>4, <4>5
    <3> QED BY <3>1, <3>2
  <2> QED BY <1>1, <2>1, <2>2 DEF LastEntered
<1>7. ASSUME NEW c \in DOMAIN seen', NEW i \in DOMAIN emitted',
             emitted'[i].id = seen'[c].id, Unchanged(i)'
      PROVE  emitted'[i].version = seen'[c].version
  <2>1. CASE c = Len(seen')
    <3>1. seen'[c] = Signature(m) /\ emitted'[i].id = m.id
      BY <1>2, <1>3, <1>7, <2>1
    <3>2. n \in i .. Len(emitted') /\ emitted'[n].id = emitted'[i].id
      BY <1>1, <3>1 DEF n
    <3>3. emitted'[n].version = emitted'[i].version
      BY <1>7, <3>2 DEF Unchanged
    <3> QED BY <1>1, <1>2, <3>1, <3>3
  <2>2. CASE c # Len(seen')
    <3>1. c + d \in DOMAIN seen /\ seen'[c] = seen[c + d]
      BY <1>3, <2>2
    <3>2. seen'[c].id # m.id
      BY <3>1 DEF Knows
    <3>3. i \in DOMAIN emitted /\ emitted'[i] = emitted[i] /\ i \in Nat
      BY <1>1, <1>7, <3>2 DEF n
    <3>4. ASSUME NEW k \in i .. Len(emitted), emitted[k].id = emitted[i].id
          PROVE  emitted[k].version = emitted[i].version
      <4>1. k \in DOMAIN emitted /\ k \in i .. Len(emitted')
        BY <1>1, <3>3 DEF n
      <4> QED BY <1>1, <1>7, <3>3, <3>4, <4>1 DEF Unchanged
    <3> QED BY <1>7, <3>1, <3>3, <3>4 DEF Current, LastVersions, Unchanged
  <2> QED BY <2>1, <2>2
<1>8. LastVersions'
  BY <1>7 DEF LastVersions
<1> QED BY <1>3, <1>6, <1>8 DEF Current

(* The two halves of NoRepeat.                                             *)
SameVersion(i, j) ==
  /\ i < j /\ emitted[i].id = emitted[j].id
  /\ \A k \in i .. j : emitted[k].id = emitted[i].id => emitted[k].version = emitted[i].version

RepeatsEnter ==
  \A i, j \in DOMAIN emitted : SameVersion(i, j) => \E k \in DOMAIN entered : entered[k] = emitted[j]

Between(i, j) == {entered[k].id : k \in i + 1 .. j - 1} \ {entered[i].id}

EntersInTurn ==
  \A i, j \in DOMAIN entered :
    i < j /\ entered[i].id = entered[j].id => Cardinality(Between(i, j)) >= SeenMax

LEMMA NoRepeatParts == NoRepeat <=> RepeatsEnter /\ EntersInTurn
  BY DEF NoRepeat, RepeatsEnter, SameVersion, EntersInTurn, Between

(* A message that is emitted in the same version again has entered anew.    *)
LEMMA RepeatEnters ==
  ASSUME TypeOK, Current, RepeatsEnter, NEW m \in Received, ~Repeated(m),
         emitted' = Append(emitted, m), Enters(m)
  PROVE  RepeatsEnter'
<1> DEFINE n == Len(emitted) + 1
<1>1. /\ Len(emitted) \in Nat /\ Len(emitted') = n /\ emitted'[n] = m
      /\ DOMAIN emitted = 1 .. Len(emitted) /\ DOMAIN emitted' = 1 .. n
      /\ \A i \in DOMAIN emitted : i < n /\ emitted'[i] = emitted[i]
      /\ Len(entered) \in Nat
      /\ \A i \in DOMAIN entered : i \in DOMAIN entered' /\ entered'[i] = entered[i]
      /\ ~Knows(seen, m.id) => /\ DOMAIN entered' = 1 .. Len(entered) + 1
                               /\ entered'[Len(entered) + 1] = m
  BY EmittedFacts
<1> SUFFICES ASSUME NEW i \in DOMAIN emitted', NEW j \in DOMAIN emitted', SameVersion(i, j)'
             PROVE  \E k \in DOMAIN entered' : entered'[k] = emitted'[j]
  BY DEF RepeatsEnter
<1>2. /\ i < j /\ emitted'[i].id = emitted'[j].id /\ i \in Nat /\ j \in Nat
      /\ \A k \in i .. j : emitted'[k].id = emitted'[i].id => emitted'[k].version = emitted'[i].version
  BY <1>1 DEF SameVersion
<1>3. i \in DOMAIN emitted /\ emitted'[i] = emitted[i]
  BY <1>1, <1>2
<1>4. \A k \in i .. j : k # n => k \in DOMAIN emitted /\ emitted'[k] = emitted[k]
  BY <1>1, <1>2
<1>5. CASE j # n
  <2>1. \A k \in i .. j : k # n
    BY <1>1, <1>2, <1>5
  <2>2. j \in DOMAIN emitted /\ emitted'[j] = emitted[j]
    BY <1>1, <1>5
  <2>3. SameVersion(i, j)
    BY <1>2, <1>3, <1>4, <2>1, <2>2 DEF SameVersion
  <2>4. PICK k \in DOMAIN entered : entered[k] = emitted[j]
    BY <1>3, <2>2, <2>3 DEF RepeatsEnter
  <2> QED BY <1>1, <2>2, <2>4
<1>6. CASE j = n
  <2>1. j \in i .. j /\ emitted'[j] = m
    BY <1>1, <1>2, <1>6
  <2>2. emitted[i].id = m.id /\ emitted[i].version = m.version
    BY <1>2, <1>3, <2>1
  <2>3. Unchanged(i)
    <3> SUFFICES ASSUME NEW k \in i .. Len(emitted), emitted[k].id = emitted[i].id
                 PROVE  emitted[k].version = emitted[i].version
      BY DEF Unchanged
    <3>1. k \in i .. j /\ k # n
      BY <1>1, <1>2, <1>6
    <3> QED BY <1>2, <1>3, <1>4, <3>1
  <2>4. ~Knows(seen, m.id)
    <3> SUFFICES ASSUME NEW c \in DOMAIN seen, seen[c].id = m.id PROVE FALSE
      BY DEF Knows
    <3>1. seen[c].version = m.version
      BY <1>3, <2>2, <2>3 DEF Current, LastVersions
    <3>2. seen[c] \in Signed
      BY DEF TypeOK
    <3>3. seen[c] = Signature(m)
      BY <3>1, <3>2 DEF Signed, Signature
    <3> QED BY <3>3 DEF Repeated
  <2> QED BY <1>1, <1>6, <2>4
<1> QED BY <1>5, <1>6

(* A message enters again after as many others as the cache holds.          *)
LEMMA EnterInTurn ==
  ASSUME InboundAssumption, TypeOK, Current, EntersInTurn, NEW m \in Received,
         emitted' = Append(emitted, m), Enters(m)
  PROVE  EntersInTurn'
<1> DEFINE h == Len(entered)
<1>1. /\ h \in Nat /\ DOMAIN entered = 1 .. h
      /\ \A i \in DOMAIN entered : i \in DOMAIN entered' /\ entered'[i] = entered[i]
      /\ Knows(seen, m.id) => entered' = entered
      /\ ~Knows(seen, m.id) => DOMAIN entered' = 1 .. h + 1 /\ entered'[h + 1] = m
  BY EmittedFacts
<1>2. CASE Knows(seen, m.id)
  BY <1>1, <1>2 DEF EntersInTurn, Between
<1>3. CASE ~Knows(seen, m.id)
  <2> SUFFICES ASSUME NEW i \in DOMAIN entered', NEW j \in DOMAIN entered', i < j,
                      entered'[i].id = entered'[j].id
               PROVE  Cardinality(Between(i, j)') >= SeenMax
    BY DEF EntersInTurn
  <2>1. i \in 1 .. h /\ entered'[i] = entered[i] /\ j \in 1 .. h + 1
    BY <1>1, <1>3
  <2>2. \A k \in i + 1 .. j - 1 : k \in DOMAIN entered /\ entered'[k] = entered[k]
    BY <1>1, <2>1
  <2>3. {entered'[k].id : k \in i + 1 .. j - 1} = {entered[k].id : k \in i + 1 .. j - 1}
    BY <2>2
  <2>4. Between(i, j)' = Between(i, j)
    BY <2>1, <2>3 DEF Between
  <2>5. CASE j # h + 1
    <3>1. j \in DOMAIN entered /\ entered'[j] = entered[j]
      BY <1>1, <2>1, <2>5
    <3> QED BY <1>1, <2>1, <2>4, <3>1 DEF EntersInTurn
  <2>6. CASE j = h + 1
    <3>1. entered[i].id = m.id
      BY <1>1, <1>3, <2>1, <2>6
    <3>2. /\ seen \in Seq(Signed) /\ Len(seen) \in Nat /\ DOMAIN seen = 1 .. Len(seen)
          /\ SeenMax \in Nat \ {0}
      BY DEF TypeOK, InboundAssumption
    <3>3. /\ Len(seen) <= h /\ Len(seen) <= SeenMax /\ (Len(seen) < SeenMax => h = Len(seen))
          /\ \A c \in DOMAIN seen : seen[c].id = entered[h - Len(seen) + c].id
          /\ \A c \in DOMAIN seen : seen[c].id # m.id
      BY <1>3 DEF Current, LastEntered, Knows
    <3>4. i <= h - Len(seen)
      <4> SUFFICES ASSUME ~(i <= h - Len(seen)) PROVE FALSE
        OBVIOUS
      <4>1. i - (h - Len(seen)) \in DOMAIN seen /\ h - Len(seen) + (i - (h - Len(seen))) = i
        <5>1. h \in Nat /\ Len(seen) \in Nat /\ i \in 1 .. h /\ Len(seen) <= h
          BY <1>1, <2>1, <3>2, <3>3
        <5>2. ~(i <= h - Len(seen))
          OBVIOUS
        <5>3. i - (h - Len(seen)) \in 1 .. Len(seen) /\ h - Len(seen) + (i - (h - Len(seen))) = i
          BY ONLY <5>1, <5>2, PlaceOf
        <5> QED BY <3>2, <5>3
      <4>2. PICK c \in DOMAIN seen : h - Len(seen) + c = i
        BY <4>1
      <4>3. seen[c].id = entered[i].id /\ seen[c].id # m.id
        BY <3>3, <4>2
      <4> QED BY <3>1, <4>3
    <3>5. Len(seen) = SeenMax
      <4>1. /\ h \in Nat /\ Len(seen) \in Nat /\ SeenMax \in Nat /\ i \in 1 .. h
            /\ Len(seen) <= SeenMax /\ (Len(seen) < SeenMax => h = Len(seen))
        BY <1>1, <2>1, <3>2, <3>3
      <4> QED BY ONLY <3>4, <4>1
    <3>6. CacheIds(seen) \subseteq Between(i, j)
      <4> SUFFICES ASSUME NEW c \in DOMAIN seen PROVE seen[c].id \in Between(i, j)
        BY DEF CacheIds
      <4>1. c \in 1 .. Len(seen) /\ Len(seen) \in Nat /\ h \in Nat /\ i \in 1 .. h /\ Len(seen) <= h
        BY <1>1, <2>1, <3>2, <3>3
      <4>2. h - Len(seen) + c \in i + 1 .. h + 1 - 1
        BY ONLY <3>4, <4>1, PlaceAfter
      <4>3. h - Len(seen) + c \in i + 1 .. j - 1
        BY <2>6, <4>2
      <4>4. seen[c].id = entered[h - Len(seen) + c].id /\ seen[c].id # entered[i].id
        BY <3>1, <3>3
      <4> QED BY <4>3, <4>4 DEF Between
    <3>7. IsFiniteSet(Between(i, j))
      <4>1. Between(i, j) \subseteq CacheIds(entered)
        BY <2>2 DEF Between, CacheIds
      <4>2. IsFiniteSet(CacheIds(entered))
        BY IdsFinite DEF TypeOK
      <4> QED BY <4>1, <4>2, FS_Subset
    <3>8. Cardinality(CacheIds(seen)) = SeenMax
      BY <3>2, <3>5, IdsFinite DEF Current
    <3>9. Cardinality(CacheIds(seen)) <= Cardinality(Between(i, j))
      BY <3>6, <3>7, FS_Subset
    <3>10. Cardinality(Between(i, j)) >= SeenMax
      BY <3>8, <3>9
    <3> QED BY <2>4, <3>10
  <2> QED BY <2>5, <2>6
<1> QED BY <1>2, <1>3

(* A message that is emitted leaves the cache current and is no repetition. *)
LEMMA CurrentEmitted ==
  ASSUME InboundAssumption, TypeOK, Current, NoRepeat, NEW m \in Received, ~Repeated(m),
         emitted' = Append(emitted, m), Enters(m), seen' = Remember(seen, Signature(m))
  PROVE  Current' /\ NoRepeat'
<1>1. Current'
  BY EditKeepsCurrent, EntryKeepsCurrent
<1>2. RepeatsEnter' /\ EntersInTurn'
  BY NoRepeatParts, RepeatEnters, EnterInTurn
<1>3. NoRepeat' <=> RepeatsEnter' /\ EntersInTurn'
  BY NoRepeatParts, PTL
<1> QED BY <1>1, <1>2, <1>3

(* A step that touches neither the cache nor the histories.                *)
LEMMA CacheKept ==
  ASSUME CacheIsCurrent, NoRepeat, UNCHANGED <<world, seen, emitted, entered>>,
         (stopping' = "stopped") <=> (stopping = "stopped")
  PROVE  CacheIsCurrent' /\ NoRepeat'
<1>1. OncePerId(seen)' <=> OncePerId(seen)
  BY DEF OncePerId
<1>2. LastEntered' <=> LastEntered
  BY DEF LastEntered
<1>3. LastVersions' <=> LastVersions
  BY DEF LastVersions, Unchanged
<1>4. NoRepeat'
  BY DEF NoRepeat
<1> QED BY <1>1, <1>2, <1>3, <1>4 DEF CacheIsCurrent

(* Every step keeps the cache current, and repeats nothing.                *)
LEMMA CacheStep ==
  ASSUME InboundAssumption, TypeOK, Ending, OneWorker, InBucket, OnlyListening,
         AcceptedAreServed, CacheIsCurrent, NoRepeat, ClientNext
  PROVE  CacheIsCurrent' /\ NoRepeat'
<1>1. ASSUME UNCHANGED <<world, seen, emitted, entered>>,
             (stopping' = "stopped") <=> (stopping = "stopped")
      PROVE  CacheIsCurrent' /\ NoRepeat'
  BY <1>1, CacheKept
<1>2. CASE Quiet /\ UNCHANGED seen
  BY <1>1, <1>2 DEF Quiet
<1>3. ASSUME \/ \E m \in Messages : Receive(m)
             \/ \E t \in Tasks : Retire(t) \/ Callback(t)
      PROVE  CacheIsCurrent' /\ NoRepeat'
  BY <1>1, <1>3 DEF Receive, Retire, Callback, connection
<1>4. CASE Finished
  BY <1>4 DEF Finished, CacheIsCurrent, NoRepeat
<1>5. ASSUME NEW t \in Tasks, TaskStep(t) PROVE CacheIsCurrent' /\ NoRepeat'
  <2>1. UNCHANGED <<world, stopping>> /\ task[t] \in Alive
    BY <1>5, TaskMoves DEF connection
  <2>2. CASE UNCHANGED <<seen, emitted, entered>>
    BY <1>1, <2>1, <2>2
  <2>3. ASSUME NEW m \in Received, Works(t, m) PROVE CacheIsCurrent' /\ NoRepeat'
    <3>1. world # "send"
      BY <2>3, TaskType DEF Works, Taken, Readable, OnlyListening, Holds
    <3>2. stopping # "stopped"
      BY <2>1 DEF TypeOK, InboundAssumption, AcceptedAreServed
    <3>3. Current
      BY <3>1, <3>2 DEF CacheIsCurrent, Current
    <3>4. CASE Suppressed(t, m)
      <4>1. UNCHANGED <<seen, emitted, entered>>
        BY <2>3, <3>3, <3>4, RememberSame DEF Current, Works, Suppressed
      <4> QED BY <2>2, <4>1
    <3>5. CASE Emitted(t, m)
      <4>1. /\ ~Repeated(m) /\ emitted' = Append(emitted, m) /\ Enters(m)
            /\ seen' = Remember(seen, Signature(m))
        BY <2>3, <3>5 DEF Works, Emitted
      <4>2. Current' /\ NoRepeat'
        BY <3>3, <4>1, CurrentEmitted
      <4> QED BY <4>2 DEF CacheIsCurrent, Current
    <3> QED BY <2>3, <3>4, <3>5 DEF Works
  <2> QED BY <1>5, <2>2, <2>3, TaskCases DEF Idles, Seals
<1> QED BY <1>2, <1>3, <1>4, <1>5, ClientCases

----------------------------------------------------------------------------
(* The invariant of the client                                             *)

(* What the client does.                                                   *)
LEMMA ClientStep ==
  ASSUME InboundAssumption, SendAssumption, PipelineInv, ClientNext
  PROVE  PipelineInv' /\ UNCHANGED posted
<1>1. TypeOK' /\ UNCHANGED posted
  BY ClientType DEF PipelineInv
<1>2. OneWorker' /\ Ending' /\ InBucket' /\ InTurn'
  BY WorkerStep, EndingStep, BucketStep, TurnStep DEF PipelineInv
<1>3. OnlyListening' /\ AcceptedAreServed'
  BY ListeningStep, ServedStep DEF PipelineInv
<1>4. CacheIsCurrent' /\ NoRepeat'
  BY CacheStep DEF PipelineInv
<1> QED BY <1>1, <1>2, <1>3, <1>4 DEF PipelineInv

(* What leaves queues and workers alone; the senders' world has its own use *)
(* of the signature cache.                                                 *)
LEMMA RestStep ==
  ASSUME PipelineInv, TypeOK', UNCHANGED <<connection, workers, emitted, entered, stopping>>,
         UNCHANGED seen \/ world = "send"
  PROVE  PipelineInv'
<1>1. /\ UNCHANGED <<world, running, link, queue, owner, task, item, arrivals, emitted, entered, stopping>>
      /\ OneWorker /\ Ending /\ InBucket /\ InTurn /\ OnlyListening /\ AcceptedAreServed
      /\ CacheIsCurrent /\ NoRepeat
  BY DEF connection, workers, PipelineInv
<1>2. OneWorker' /\ Ending' /\ OnlyListening' /\ AcceptedAreServed'
  BY <1>1 DEF OneWorker, Ending, OnlyListening, AcceptedAreServed, Holds
<1>3. InBucket'
  BY <1>1 DEF InBucket, Holds, BucketFor
<1>4. InTurn'
  <2>1. \A u \in Tasks : HeldInTurn(u)'
    BY <1>1 DEF InTurn, HeldInTurn, EmittedBefore, QueuedAfter, BucketFor
  <2>2. \A b \in Buckets : QueuedInTurn(b)'
    BY <1>1 DEF InTurn, QueuedInTurn, EmittedBefore, BucketFor
  <2> QED BY <1>1, <2>1, <2>2 DEF InTurn, EmittedInTurn, BucketFor
<1>5. CacheIsCurrent' /\ NoRepeat'
  <2>1. CASE UNCHANGED seen
    BY <1>1, <2>1, CacheKept
  <2>2. CASE world = "send"
    BY <1>1, <2>2 DEF CacheIsCurrent, NoRepeat
  <2> QED BY <2>1, <2>2
<1> QED BY <1>2, <1>3, <1>4, <1>5 DEF PipelineInv

(* An echo is remembered, in the senders' world.                           *)
LEMMA EchoedStep ==
  ASSUME InboundAssumption, SendAssumption, PipelineInv,
         NEW s \in Senders, NEW k \in 0 .. Parts[s], Echoed(<<s, k>>)
  PROVE  PipelineInv' /\ UNCHANGED <<posted, job>>
<1> DEFINE id == <<s, k>>
           e == [id |-> id, version |-> 1]
<1>1. id \in Ids /\ e \in Signed
  BY DEF SendAssumption, Ids, Signed, Versions
<1> HIDE DEF id
<1>2. /\ seen' = Append(seen, e) /\ RememberSelf(id) /\ world = "send"
      /\ UNCHANGED <<connection, workers, member, emitted, entered, stopping, job>>
  BY DEF Echoed, id
<1> HIDE DEF e
<1>3. /\ recent' \in [Rooms -> Seq(Ids)]
      /\ sender' \in [Senders -> {"idle", "wants", "waiting", "cut"}]
      /\ echo' \in [Senders -> Ids \cup {NoId}] /\ UNCHANGED posted
  BY <1>1, <1>2, RememberSelfType DEF PipelineInv
<1>4. seen' \in Seq(Signed)
  BY <1>1, <1>2, AppendOf DEF PipelineInv, TypeOK
<1>5. TypeOK'
  BY <1>2, <1>3, <1>4 DEF PipelineInv, TypeOK, connection, workers
<1> QED BY <1>2, <1>3, <1>5, RestStep

(* What a sender does for its action.                                      *)
LEMMA SenderStep ==
  ASSUME InboundAssumption, PipelineInv, NEW s \in Senders,
         UNCHANGED vars \/ Stored(s) \/ WantEcho(s) \/ Timeout(s)
  PROVE  PipelineInv'
<1>1. UNCHANGED <<connection, workers, seen, emitted, entered, stopping>>
  BY DEF vars, Stored, WantEcho, Timeout, Rest
<1>2. TypeOK'
  <2>1. CASE UNCHANGED vars
    BY <2>1 DEF vars, connection, workers, selfs, PipelineInv, TypeOK
  <2>2. CASE Stored(s)
    BY <2>2 DEF Stored, Rest, connection, workers, PipelineInv, TypeOK
  <2>3. CASE WantEcho(s)
    BY <2>3 DEF WantEcho, Rest, connection, workers, PipelineInv, TypeOK
  <2>4. CASE Timeout(s)
    BY <2>4 DEF Timeout, Rest, connection, workers, PipelineInv, TypeOK
  <2> QED BY <2>1, <2>2, <2>3, <2>4
<1> QED BY <1>1, <1>2, RestStep

(* The client starts as the invariant says.                                *)
LEMMA InitPipeline == InboundAssumption /\ SendInit => PipelineInv
<1> SUFFICES ASSUME InboundAssumption, Init PROVE PipelineInv
  BY DEF SendInit
<1>1. TypeOK
  <2>1. <<>> \in Seq(Received) /\ <<>> \in Seq(Signed) /\ <<>> \in Seq(Ids)
    OBVIOUS
  <2> QED BY <2>1 DEF Init, TypeOK, InboundAssumption
<1>2. OneWorker /\ Ending /\ InBucket /\ OnlyListening /\ AcceptedAreServed
  BY TaskType DEF Init, OneWorker, Ending, InBucket, OnlyListening, AcceptedAreServed, Holds,
                  Alive
<1>3. InTurn /\ NoRepeat
  BY DEF Init, InTurn, QueuedInTurn, HeldInTurn, EmittedInTurn, NoRepeat
<1>4. CacheIsCurrent
  BY DEF Init, CacheIsCurrent, OncePerId, LastEntered, LastVersions
<1> QED BY <1>1, <1>2, <1>3, <1>4 DEF PipelineInv

(* Every step keeps the invariant of the client.                           *)
LEMMA PipelineStep ==
  InboundAssumption /\ SendAssumption /\ PipelineInv /\ [Next]_sendVars => PipelineInv'
<1> SUFFICES ASSUME InboundAssumption, SendAssumption, PipelineInv, [Next]_sendVars
             PROVE  PipelineInv'
  OBVIOUS
<1>1. CASE ClientNext
  BY <1>1, ClientStep
<1>2. ASSUME NEW s \in Senders, NEW k \in 0 .. Parts[s], Echoed(<<s, k>>) PROVE PipelineInv'
  BY <1>2, EchoedStep
<1>3. ASSUME NEW s \in Senders, \/ \E mode \in Modes[s] : Ask(s, mode)
                                \/ SendStep(s) \/ Stored(s) \/ Timeout(s)
      PROVE  PipelineInv'
  <2>1. UNCHANGED vars \/ Stored(s) \/ WantEcho(s) \/ Timeout(s)
    BY <1>3 DEF Ask, SendStep, Prepare, Refuse, Threads, Answered, PostFails, Declined, MapNamed,
                EchoOver, Cut, MapFails
  <2> QED BY <2>1, SenderStep
<1>4. CASE UNCHANGED sendVars
  <2>1. UNCHANGED <<connection, workers, seen, emitted, entered, stopping>> /\ TypeOK'
    BY <1>4 DEF sendVars, vars, connection, workers, selfs, PipelineInv, TypeOK
  <2> QED BY <2>1, RestStep
<1> QED BY <1>1, <1>2, <1>3, <1>4 DEF Next

(* At every step: every live task is the registered worker of its bucket,   *)
(* the messages of a bucket are where the order of arrival wants them, a    *)
(* queue that is not empty is served, and the signature cache is current.  *)
THEOREM PipelineInvariant == Spec => []PipelineInv
<1>1. InboundAssumption /\ SendAssumption
  BY InboundAssumption, SendAssumption
<1> QED BY <1>1, InitPipeline, PipelineStep, PTL DEF Spec

(* The messages of a room are emitted in the order in which they arrived,   *)
(* and no two tasks handle messages of one room at the same time            *)
(* (_ensure_inbound_worker, _on_inbound_worker_done).                      *)
THEOREM RoomsInOrder == Spec => []RoomOrder
<1>1. PipelineInv => RoomOrder
  <2> SUFFICES ASSUME PipelineInv PROVE RoomOrder
    OBVIOUS
  <2>1. TypeOK /\ OneWorker /\ InBucket /\ InTurn
    BY DEF PipelineInv
  <2>2. \A i, j \in DOMAIN emitted :
          i < j /\ RoomOf[emitted[i].id] = RoomOf[emitted[j].id]
            => emitted[i].arrival < emitted[j].arrival
    BY <2>1 DEF InTurn, EmittedInTurn, BucketFor
  <2>3. ASSUME NEW t \in Tasks, NEW u \in Tasks, task[t] = "handling", task[u] = "handling",
               RoomOf[item[t][1].id] = RoomOf[item[u][1].id]
        PROVE  t = u
    <3>1. BucketFor(item[t][1]) = t[1] /\ BucketFor(item[u][1]) = u[1]
      BY <2>1, <2>3 DEF InBucket, Holds
    <3>2. t[1] = u[1]
      BY <2>3, <3>1 DEF BucketFor
    <3> QED BY <2>1, <2>3, <3>2 DEF OneWorker, Alive
  <2> QED BY <2>2, <2>3 DEF RoomOrder
<1> QED BY <1>1, PipelineInvariant, PTL

(* No version of a message is emitted again before another version of it,   *)
(* unless the cache has forgotten the message, which takes as many new ids  *)
(* after it as the cache can hold (_should_emit_inbound_message).          *)
THEOREM NothingRepeated == Spec => []NoRepeat
<1>1. PipelineInv => NoRepeat
  BY DEF PipelineInv
<1> QED BY <1>1, PipelineInvariant, PTL

(* Until the client stops, a queue that is not empty has a worker or will   *)
(* get one from a callback; and after stop() no worker is left              *)
(* (_ensure_inbound_worker, _on_inbound_worker_done, _stop_inbound_workers).  *)
THEOREM AcceptedIsServed == Spec => []AcceptedAreServed
<1>1. PipelineInv => AcceptedAreServed
  BY DEF PipelineInv
<1> QED BY <1>1, PipelineInvariant, PTL

----------------------------------------------------------------------------
(* The actions of the senders                                              *)

(* The parts of an action are at least one.                                *)
LEMMA PartsType ==
  ASSUME SendAssumption, NEW s \in Senders PROVE Parts[s] \in Nat \ {0}
  BY DEF SendAssumption

(* The fields of a job.                                                    *)
LEMMA JobFields ==
  ASSUME NEW j \in Job
  PROVE  /\ j.mode \in {"plain", "sequence", "thread"} /\ j.k \in Nat /\ j.cnt \in Nat
         /\ j.hdr \in BOOLEAN /\ j.flight \in {"no", "sent", "there"}
         /\ First(j) \in {0, 1} /\ (First(j) = 0 <=> j.mode = "thread")
  BY DEF Job, First

(* A job that is over, with what it has sent so far.                       *)
LEMMA OverStands ==
  ASSUME NEW s \in Senders, NEW j \in Job, NEW sent \in Seq(Senders \X Nat),
         Stands(s, j, sent), NEW e \in Job, e.st = "done",
         e.res \in {"none", "failed", "timeout"}, e.mode = j.mode, e.k = j.k,
         e.flight = j.flight, e.cnt = j.cnt, e.hdr = j.hdr
  PROVE  Stands(s, e, sent)
<1>2. First(e) = First(j) /\ Strict(e) = Strict(j) /\ Unanswered(e) = Unanswered(j)
      /\ PartsAmong(e, Len(sent)) = PartsAmong(j, Len(sent))
  BY DEF First, Strict, Unanswered, PartsAmong
<1>3. Standing(s, e)
  BY <1>2 DEF Stands, Standing
<1>4. ASSUME Strict(j) PROVE Stands(s, e, sent)
  BY <1>2, <1>3, <1>4 DEF Stands, ForwardStands
<1>5. ASSUME ~Strict(j) PROVE Stands(s, e, sent)
  BY <1>2, <1>3, <1>5 DEF Stands, PlainStands
<1> QED BY <1>4, <1>5

(* A job that ends with what it has sent so far.                           *)
LEMMA EndedStands ==
  ASSUME NEW s \in Senders, NEW j \in Job, NEW sent \in Seq(Senders \X Nat),
         Stands(s, j, sent), NEW res \in {"none", "failed", "timeout"}
  PROVE  Ended(j, res) \in Job /\ Stands(s, Ended(j, res), sent)
<1> DEFINE e == Ended(j, res)
<1>1. /\ e \in Job /\ e.st = "done" /\ e.res = res /\ e.mode = j.mode /\ e.k = j.k
      /\ e.flight = j.flight /\ e.cnt = j.cnt /\ e.hdr = j.hdr
  BY DEF Ended, Job
<1> HIDE DEF e
<1>2. Stands(s, e, sent)
  BY <1>1, OverStands
<1> QED BY <1>1, <1>2 DEF e

(* A job whose request was declined, or a header without a name, is over    *)
(* with the request.                                                       *)
LEMMA AnsweredStands ==
  ASSUME NEW s \in Senders, NEW j \in Job, NEW sent \in Seq(Senders \X Nat),
         Stands(s, j, sent), j.flight # "no", Unanswered(j) = 0
  PROVE  LET e == Ended([j EXCEPT !.flight = "no"], "failed")
         IN  e \in Job /\ Stands(s, e, sent)
<1> DEFINE e == Ended([j EXCEPT !.flight = "no"], "failed")
<1>1. /\ e \in Job /\ e.st = "done" /\ e.res = "failed" /\ e.mode = j.mode /\ e.k = j.k
      /\ e.flight = "no" /\ e.cnt = j.cnt /\ e.hdr = j.hdr
  BY DEF Ended, Job
<1> HIDE DEF e
<1>2. First(e) = First(j) /\ Strict(e) = Strict(j) /\ Unanswered(e) = 0
      /\ PartsAmong(e, Len(sent)) = PartsAmong(j, Len(sent))
  BY <1>1 DEF First, Strict, Unanswered, PartsAmong
<1>3. Standing(s, e)
  BY <1>1, <1>2 DEF Stands, Standing
<1>4. ASSUME Strict(j) PROVE Stands(s, e, sent)
  BY <1>1, <1>2, <1>3, <1>4 DEF Stands, ForwardStands
<1>5. ASSUME ~Strict(j) PROVE Stands(s, e, sent)
  BY <1>1, <1>2, <1>3, <1>5 DEF Stands, PlainStands
<1> QED BY <1>1, <1>4, <1>5 DEF e

(* What is sent of an action j so far ends before part k: of a forward, all *)
(* the parts before it.                                                    *)
SentBefore(s, j, k, sent) ==
  IF Strict(j)
  THEN /\ Consecutive(s, First(j), sent) /\ Len(sent) = k - First(j)
       /\ PartsAmong(j, Len(sent)) = j.cnt
       /\ j.hdr => j.mode = "thread" /\ Len(sent) > 0
  ELSE /\ \A i, n \in DOMAIN sent : i < n => sent[i][2] < sent[n][2]
       /\ \A i \in DOMAIN sent : sent[i][2] < k

(* A job that goes on to post part k, the one after what it has sent.      *)
LEMMA PostingStands ==
  ASSUME SendAssumption, NEW s \in Senders, NEW j \in Job, NEW sent \in Seq(Senders \X Nat),
         NEW k \in First(j) .. Parts[s], j.res = "none", SentBefore(s, j, k, sent)
  PROVE  Posting(j, k) \in Job /\ Stands(s, Posting(j, k), sent)
<1> DEFINE e == Posting(j, k)
<1>0. k \in Nat
  BY PartsType, JobFields
<1>1. /\ e \in Job /\ e.st = "posting" /\ e.res = "none" /\ e.mode = j.mode /\ e.k = k
      /\ e.flight = "sent" /\ e.cnt = j.cnt /\ e.hdr = j.hdr
  BY <1>0 DEF Posting, Job
<1> HIDE DEF e
<1>2. First(e) = First(j) /\ Strict(e) = Strict(j) /\ Unanswered(e) = 0
      /\ PartsAmong(e, Len(sent)) = PartsAmong(j, Len(sent))
  BY <1>1 DEF First, Strict, Unanswered, PartsAmong
<1>3. Standing(s, e)
  BY <1>1, <1>2 DEF Standing
<1>6. j.cnt \in Nat
  BY JobFields
<1>4. ASSUME Strict(j) PROVE Stands(s, e, sent)
  BY <1>1, <1>2, <1>3, <1>4, <1>6 DEF Stands, ForwardStands, SentBefore
<1>5. ASSUME ~Strict(j) PROVE Stands(s, e, sent)
  BY <1>1, <1>2, <1>3, <1>5 DEF Stands, PlainStands, SentBefore
<1> QED BY <1>1, <1>4, <1>5 DEF e

(* A job moves on, nothing being stored meanwhile.                         *)
LEMMA JobStep ==
  ASSUME SendInv, NEW s \in Senders, NEW e \in Job, Stands(s, e, posted[s]),
         Becomes(s, e), UNCHANGED posted
  PROVE  SendInv'
<1>1. job' = [job EXCEPT ![s] = e] /\ job \in [Senders -> Job]
  BY DEF Becomes, SendInv, SendTypeOK
<1>2. \A u \in Senders : job'[u] = IF u = s THEN e ELSE job[u]
  BY <1>1
<1>3. \A u \in Senders : Stands(u, job'[u], posted[u])
  BY <1>2 DEF SendInv
<1>4. ASSUME NEW u \in Senders PROVE Stands(u, job[u], posted[u])'
  BY <1>3 DEF Stands, Standing, ForwardStands, PlainStands, Strict, First, Consecutive,
              PartsAmong, Unanswered
<1> QED BY <1>1, <1>4 DEF SendInv, SendTypeOK

(* What is known of an action and of what it sent.                         *)
LEMMA JobFacts ==
  ASSUME SendInv, NEW s \in Senders
  PROVE  /\ job[s] \in Job /\ posted[s] \in Seq(Senders \X Nat) /\ Stands(s, job[s], posted[s])
         /\ Len(posted[s]) \in Nat
  BY DEF SendInv, SendTypeOK

(* Nothing was sent.                                                       *)
LEMMA Empty == ASSUME NEW S, NEW s \in Seq(S), Len(s) = 0 PROVE s = <<>>
  OBVIOUS

(* An action begins.                                                       *)
LEMMA AskStep ==
  ASSUME SendAssumption, SendInv, NEW s \in Senders, NEW mode \in Modes[s], Ask(s, mode)
  PROVE  SendInv'
<1> DEFINE e == [NoJob EXCEPT !.st = "preparing", !.mode = mode]
<1>0. mode \in {"plain", "sequence", "thread"}
  BY DEF SendAssumption
<1>1. /\ e \in Job /\ e.st = "preparing" /\ e.mode = mode /\ e.k = 0 /\ e.flight = "no"
      /\ e.cnt = 0 /\ e.hdr = FALSE /\ e.res = "none"
  <2>1. NoJob \in Job
    BY DEF NoJob, Job
  <2> QED BY <1>0, <2>1 DEF NoJob, Job
<1>2. Becomes(s, e) /\ UNCHANGED posted /\ job[s].st = "none"
  BY DEF Ask, vars, selfs
<1> HIDE DEF e
<1>3. posted[s] = <<>>
  BY <1>2, JobFacts, Empty DEF Stands, ForwardStands, PlainStands
<1>4. Stands(s, e, posted[s])
  BY <1>0, <1>1, <1>3 DEF Stands, Standing, ForwardStands, PlainStands, Consecutive, PartsAmong,
                          Unanswered
<1> QED BY <1>1, <1>2, <1>4, JobStep

(* A part is prepared, or the first is posted.                             *)
LEMMA PrepareStep ==
  ASSUME SendAssumption, SendInv, NEW s \in Senders, Prepare(s)
  PROVE  SendInv'
<1> DEFINE j == job[s]
<1>1. /\ j \in Job /\ Stands(s, j, posted[s]) /\ posted[s] \in Seq(Senders \X Nat)
      /\ Len(posted[s]) \in Nat
  BY JobFacts
<1>2. /\ j.st = "preparing" /\ UNCHANGED posted
      /\ Becomes(s, IF Strict(j) /\ j.k < Parts[s] THEN [j EXCEPT !.k = @ + 1]
                    ELSE IF j.mode = "thread" THEN [j EXCEPT !.st = "threads"]
                    ELSE Posting(j, First(j)))
  BY DEF Prepare, vars, selfs
<1> HIDE DEF j
<1>3. CASE Strict(j) /\ j.k < Parts[s]
  <2> DEFINE e == [j EXCEPT !.k = @ + 1]
  <2>1. /\ e \in Job /\ e.st = "preparing" /\ e.mode = j.mode /\ e.flight = j.flight
        /\ e.cnt = j.cnt /\ e.hdr = j.hdr /\ e.res = j.res
    <3>1. j.k + 1 \in Nat
      BY <1>1, JobFields
    <3> QED BY <1>1, <1>2, <3>1 DEF Job
  <2>2. Becomes(s, e)
    BY <1>2, <1>3
  <2> HIDE DEF e
  <2>3. Stands(s, e, posted[s])
    BY <1>1, <1>2, <1>3, <2>1
       DEF Stands, Standing, ForwardStands, First, Strict, PartsAmong, Unanswered
  <2> QED BY <1>2, <2>1, <2>2, <2>3, JobStep
<1>4. CASE ~(Strict(j) /\ j.k < Parts[s]) /\ j.mode = "thread"
  <2> DEFINE e == [j EXCEPT !.st = "threads"]
  <2>1. /\ e \in Job /\ e.st = "threads" /\ e.mode = j.mode /\ e.flight = j.flight
        /\ e.cnt = j.cnt /\ e.hdr = j.hdr /\ e.res = j.res /\ e.k = j.k
    BY <1>1 DEF Job
  <2>2. Becomes(s, e)
    BY <1>2, <1>4
  <2> HIDE DEF e
  <2>3. Stands(s, e, posted[s])
    BY <1>1, <1>2, <1>4, <2>1
       DEF Stands, Standing, ForwardStands, First, Strict, PartsAmong, Unanswered
  <2> QED BY <1>2, <2>1, <2>2, <2>3, JobStep
<1>5. CASE ~(Strict(j) /\ j.k < Parts[s]) /\ j.mode # "thread"
  <2>1. Becomes(s, Posting(j, First(j)))
    BY <1>2, <1>5
  <2>2. /\ j.res = "none" /\ First(j) = 1 /\ First(j) \in First(j) .. Parts[s]
        /\ j.flight = "no"
    BY <1>1, <1>2, <1>5, PartsType DEF Stands, Standing, First
  <2>3. Unanswered(j) = 0
    BY <2>2 DEF Unanswered
  <2>4. ASSUME Strict(j)
        PROVE  /\ Consecutive(s, First(j), posted[s]) /\ Len(posted[s]) = 0 /\ ~j.hdr
               /\ PartsAmong(j, Len(posted[s])) = j.cnt
    BY <1>1, <1>2, <2>3, <2>4, JobFields DEF Stands, ForwardStands
  <2>5. ASSUME ~Strict(j) PROVE posted[s] = <<>>
    BY <1>1, <1>2, <2>5 DEF Stands, PlainStands
  <2>6. SentBefore(s, j, First(j), posted[s])
    BY <2>2, <2>4, <2>5 DEF SentBefore
  <2>7. Posting(j, First(j)) \in Job /\ Stands(s, Posting(j, First(j)), posted[s])
    BY <1>1, <2>2, <2>6, PostingStands
  <2> QED BY <1>2, <2>1, <2>7, JobStep
<1> QED BY <1>3, <1>4, <1>5

(* An action is refused before anything is sent, or fails.                 *)
LEMMA RefuseStep ==
  ASSUME SendInv, NEW s \in Senders, NEW res \in {"refused", "failed"}, Refuse(s, res)
  PROVE  SendInv'
<1> DEFINE j == job[s]
           e == Ended(j, "refused")
<1>1. /\ j \in Job /\ Stands(s, j, posted[s]) /\ posted[s] \in Seq(Senders \X Nat)
      /\ Len(posted[s]) \in Nat
  BY JobFacts
<1>2. /\ j.st = "preparing" /\ UNCHANGED posted /\ (res = "refused" => Strict(j))
      /\ Becomes(s, Ended(j, res))
  BY DEF Refuse, vars, selfs
<1> HIDE DEF j
<1>3. CASE res = "failed"
  BY <1>1, <1>2, <1>3, EndedStands, JobStep
<1>4. CASE res = "refused"
  <2>1. /\ e \in Job /\ e.st = "done" /\ e.mode = j.mode /\ e.flight = j.flight
        /\ e.cnt = j.cnt /\ e.hdr = j.hdr /\ e.res = "refused" /\ e.k = j.k
    BY <1>1 DEF Job, Ended
  <2>2. Becomes(s, e) /\ Strict(j)
    BY <1>2, <1>4
  <2> HIDE DEF e
  <2>3. Stands(s, e, posted[s])
    BY <1>1, <1>2, <2>1, <2>2
       DEF Stands, Standing, ForwardStands, First, Strict, PartsAmong, Unanswered
  <2> QED BY <1>2, <2>1, <2>2, <2>3, JobStep
<1> QED BY <1>3, <1>4

(* Rocket.Chat has threads, or the action fails.                           *)
LEMMA ThreadsStep ==
  ASSUME SendAssumption, SendInv, NEW s \in Senders, NEW enabled \in BOOLEAN,
         Threads(s, enabled)
  PROVE  SendInv'
<1> DEFINE j == job[s]
<1>1. /\ j \in Job /\ Stands(s, j, posted[s]) /\ posted[s] \in Seq(Senders \X Nat)
      /\ Len(posted[s]) \in Nat
  BY JobFacts
<1>2. /\ j.st = "threads" /\ UNCHANGED posted
      /\ Becomes(s, IF enabled THEN Posting(j, 0) ELSE Ended(j, "failed"))
  BY DEF Threads, vars, selfs
<1> HIDE DEF j
<1>3. CASE ~enabled
  BY <1>1, <1>2, <1>3, EndedStands, JobStep
<1>4. CASE enabled
  <2>1. j.res = "none" /\ j.flight = "no" /\ Unanswered(j) = 0
    BY <1>1, <1>2 DEF Stands, Standing, Unanswered
  <2>2. Strict(j) /\ First(j) = 0 /\ 0 \in First(j) .. Parts[s]
    BY <1>1, <1>2, PartsType DEF Stands, Standing, Strict, First
  <2>3. /\ Consecutive(s, First(j), posted[s]) /\ Len(posted[s]) = 0 /\ ~j.hdr
        /\ PartsAmong(j, Len(posted[s])) = j.cnt
    BY <1>1, <1>2, <2>1, <2>2, JobFields DEF Stands, ForwardStands
  <2>4. SentBefore(s, j, 0, posted[s])
    BY <2>2, <2>3 DEF SentBefore
  <2>5. Posting(j, 0) \in Job /\ Stands(s, Posting(j, 0), posted[s])
    BY <1>1, <2>1, <2>2, <2>4, PostingStands
  <2> QED BY <1>2, <1>4, <2>5, JobStep
<1> QED BY <1>3, <1>4

(* Messages are consecutive if each is the one its place calls for.        *)
LEMMA ConsecutiveIs ==
  ASSUME NEW s, NEW first \in Nat, NEW sent \in Seq(Senders \X Nat)
  PROVE  Consecutive(s, first, sent) <=>
           \A i \in 1 .. Len(sent) : sent[i] = <<s, first + i - 1>>
<1>1. sent = [i \in 1 .. Len(sent) |-> sent[i]]
  OBVIOUS
<1>2. ASSUME Consecutive(s, first, sent), NEW i \in 1 .. Len(sent)
      PROVE  sent[i] = <<s, first + i - 1>>
  <2> DEFINE f == [n \in 1 .. Len(sent) |-> <<s, first + n - 1>>]
  <2>1. sent = f /\ f[i] = <<s, first + i - 1>>
    BY <1>2 DEF Consecutive
  <2> QED BY <2>1
<1>3. ASSUME \A i \in 1 .. Len(sent) : sent[i] = <<s, first + i - 1>>
      PROVE  Consecutive(s, first, sent)
  BY <1>1, <1>3, Zenon DEF Consecutive
<1> QED BY <1>2, <1>3

(* Rocket.Chat stores the message of the request under way.                *)
LEMMA StoredStep ==
  ASSUME SendAssumption, SendInv, NEW s \in Senders, Stored(s)
  PROVE  SendInv'
<1> DEFINE j == job[s]
           e == [j EXCEPT !.flight = "there"]
           p == posted[s]
           t == Append(p, <<s, j.k>>)
<1>1. /\ j \in Job /\ Stands(s, j, p) /\ p \in Seq(Senders \X Nat) /\ Len(p) \in Nat
      /\ Parts[s] \in Nat
  BY JobFacts, PartsType
<1>2. /\ j.flight = "sent" /\ posted' = [posted EXCEPT ![s] = t]
      /\ job' = [job EXCEPT ![s] = e]
  BY DEF Stored
<1>3. /\ e \in Job /\ e.st = j.st /\ e.mode = j.mode /\ e.flight = "there" /\ e.k = j.k
      /\ e.cnt = j.cnt /\ e.hdr = j.hdr /\ e.res = j.res
  BY <1>1 DEF Job
<1>4. /\ t \in Seq(Senders \X Nat) /\ Len(t) = Len(p) + 1 /\ t[Len(p) + 1] = <<s, j.k>>
      /\ \A i \in 1 .. Len(p) : t[i] = p[i]
  BY <1>1, JobFields
<1>5. /\ First(e) = First(j) /\ Strict(e) = Strict(j) /\ First(j) \in {0, 1}
      /\ j.k \in First(j) .. Parts[s] /\ Standing(s, e)
  BY <1>1, <1>2, <1>3, JobFields DEF First, Strict, Stands, Standing
<1> HIDE DEF e, t, p, j
<1>6. ASSUME Strict(j) PROVE ForwardStands(s, e, t)
  <2>1. /\ Consecutive(s, First(j), p) /\ Len(p) = j.k - First(j)
        /\ PartsAmong(j, Len(p)) = j.cnt + Unanswered(j) /\ j.res # "refused"
        /\ (j.hdr => j.mode = "thread" /\ Len(p) > 0) /\ j.st \notin {"none", "preparing", "threads"}
        /\ j.res # "ok"
    BY <1>1, <1>2, <1>6 DEF Stands, Standing, ForwardStands
  <2>2. Consecutive(s, First(j), t)
    <3>1. \A i \in 1 .. Len(p) : p[i] = <<s, First(j) + i - 1>>
      <4>1. First(j) \in Nat
        BY <1>5
      <4>2. p \in Seq(Senders \X Nat)
        BY <1>1
      <4>3. Consecutive(s, First(j), p) <=> \A i \in 1 .. Len(p) : p[i] = <<s, First(j) + i - 1>>
        BY ONLY <4>1, <4>2, ConsecutiveIs, Zenon
      <4> QED BY ONLY <2>1, <4>3, Zenon
    <3>2. First(j) + (Len(p) + 1) - 1 = j.k
      BY <1>1, <1>5, <2>1, JobFields
    <3>3. \A i \in 1 .. Len(t) : i \in 1 .. Len(p) \/ i = Len(p) + 1
      BY <1>1, <1>4
    <3>4. \A i \in 1 .. Len(t) : t[i] = <<s, First(j) + i - 1>>
      BY <1>4, <3>1, <3>2, <3>3
    <3>5. First(j) \in Nat
      BY <1>5
    <3> QED BY <1>4, <3>4, <3>5, ConsecutiveIs
  <2>3. PartsAmong(e, Len(t)) = e.cnt + Unanswered(e)
    <3>1. Unanswered(j) = 0 /\ Unanswered(e) = IF j.k > 0 THEN 1 ELSE 0
      BY <1>2, <1>3 DEF Unanswered
    <3>2. j.k \in Nat /\ j.cnt \in Nat
      BY <1>1, JobFields
    <3>3. /\ PartsAmong(j, Len(p)) = IF First(j) = 1 \/ Len(p) = 0 THEN Len(p) ELSE Len(p) - 1
          /\ PartsAmong(e, Len(t)) =
               IF First(j) = 1 \/ Len(p) + 1 = 0 THEN Len(p) + 1 ELSE Len(p)
      BY <1>1, <1>4, <1>5 DEF PartsAmong
    <3>4. PartsAmong(j, Len(p)) = j.cnt /\ Len(p) = j.k - First(j)
      BY <2>1, <3>1, <3>2
    <3>5. CASE First(j) = 1
      BY <1>1, <1>3, <3>1, <3>2, <3>3, <3>4, <3>5
    <3>6. CASE First(j) = 0
      BY <1>1, <1>3, <3>1, <3>2, <3>3, <3>4, <3>6
    <3> QED BY <1>5, <3>5, <3>6
  <2> QED BY <1>1, <1>3, <1>4, <1>5, <2>1, <2>2, <2>3 DEF ForwardStands
<1>7. ASSUME ~Strict(j) PROVE PlainStands(e, t)
  <2>1. /\ \A i, k \in DOMAIN p : i < k => p[i][2] < p[k][2]
        /\ \A i \in DOMAIN p : p[i][2] < j.k
        /\ j.st \notin {"none", "preparing"}
    BY <1>1, <1>2, <1>7 DEF Stands, Standing, PlainStands
  <2>2. /\ DOMAIN t = DOMAIN p \cup {Len(p) + 1} /\ t[Len(p) + 1][2] = j.k
        /\ \A i \in DOMAIN p : t[i] = p[i] /\ i < Len(p) + 1 /\ p[i][2] \in Nat
    <3>1. DOMAIN p = 1 .. Len(p) /\ DOMAIN t = 1 .. (Len(p) + 1)
      BY <1>1, <1>4
    <3>2. \A i \in DOMAIN p : p[i] \in Senders \X Nat
      BY <1>1
    <3>3. \A i \in DOMAIN p : p[i][2] \in Nat
      BY <3>2
    <3> QED BY <1>1, <1>4, <3>1, <3>3
  <2>3. j.k \in Nat /\ \A i \in DOMAIN t : i \in Nat
    BY <1>1, <1>4, JobFields
  <2>4. \A i, k \in DOMAIN t : i < k => t[i][2] < t[k][2]
    BY <1>1, <2>1, <2>2, <2>3
  <2>5. \A i \in DOMAIN t : t[i][2] <= j.k
    BY <2>1, <2>2, <2>3
  <2> QED BY <1>3, <2>1, <2>4, <2>5 DEF PlainStands
<1>8. Stands(s, e, t)
  BY <1>5, <1>6, <1>7 DEF Stands
<1>9. \A u \in Senders : Stands(u, job'[u], posted'[u])
  <2> SUFFICES ASSUME NEW u \in Senders PROVE Stands(u, job'[u], posted'[u])
    OBVIOUS
  <2>1. CASE u = s
    BY <1>2, <1>8, <2>1 DEF SendInv, SendTypeOK
  <2>2. CASE u # s
    BY <1>2, <2>2 DEF SendInv, SendTypeOK
  <2> QED BY <2>1, <2>2
<1>10. ASSUME NEW u \in Senders PROVE Stands(u, job[u], posted[u])'
  BY <1>9 DEF Stands, Standing, ForwardStands, PlainStands, Strict, First, Consecutive,
              PartsAmong, Unanswered
<1> QED BY <1>2, <1>3, <1>4, <1>10 DEF SendInv, SendTypeOK

(* A queue to which something was added is not empty.                      *)
LEMMA NotEmpty == ASSUME NEW S, NEW s \in Seq(S), NEW e \in S PROVE Append(s, e) # <<>>
<1>1. Len(Append(s, e)) = Len(s) + 1 /\ Len(s) \in Nat
  BY AppendOf
<1>2. Len(<<>>) = 0
  OBVIOUS
<1> QED BY <1>1, <1>2

(* The messages of an action are among those the client knows.             *)
LEMMA OwnMessage ==
  ASSUME InboundAssumption, SendAssumption, NEW s \in Senders, NEW k \in 0 .. Parts[s]
  PROVE  <<s, k>> \in Ids
  BY DEF InboundAssumption, SendAssumption, Ids

(* A request is answered.                                                  *)
LEMMA AnsweredStep ==
  ASSUME InboundAssumption, SendAssumption, SendInv, NEW s \in Senders,
         NEW sort \in {"named", "bare", "silent"}, Answered(s, sort)
  PROVE  SendInv'
<1> DEFINE j == job[s]
           p == posted[s]
           r == [id |-> <<s, j.k>>, sort |-> sort]
           a == [j EXCEPT !.flight = "no", !.cnt = Counted(j, sort), !.raw = Append(@, r)]
<1>1. /\ j \in Job /\ Stands(s, j, p) /\ p \in Seq(Senders \X Nat) /\ Len(p) \in Nat
      /\ Parts[s] \in Nat
  BY JobFacts, PartsType
<1>2. /\ j.st = "posting" /\ j.flight = "there" /\ UNCHANGED posted
      /\ Becomes(s, IF j.k = 0 /\ sort = "silent"
                      THEN Ended([j EXCEPT !.flight = "no"], "failed")
                    ELSE IF j.k = 0 THEN [a EXCEPT !.st = "mapping", !.hdr = TRUE]
                    ELSE IF Strict(j) \/ j.k = Parts[s] THEN [a EXCEPT !.st = "mapping"]
                    ELSE Posting(a, j.k + 1))
  BY DEF Answered, vars, selfs
<1>3. /\ j.k \in First(j) .. Parts[s] /\ j.k \in 0 .. Parts[s] /\ j.res = "none"
      /\ First(j) \in {0, 1} /\ (First(j) = 0 <=> j.mode = "thread")
      /\ j.k \in Nat /\ j.cnt \in Nat
  BY <1>1, <1>2, JobFields DEF Stands, Standing
<1>4. Counted(j, sort) = j.cnt + (IF Strict(j) /\ j.k > 0 THEN 1 ELSE 0)
  BY <1>3 DEF Counted
<1>5. /\ a \in Job /\ a.st = "posting" /\ a.mode = j.mode /\ a.flight = "no" /\ a.k = j.k
      /\ a.cnt = Counted(j, sort) /\ a.hdr = j.hdr /\ a.res = "none" /\ a.cnt \in Nat
      /\ a.raw # <<>>
  <2> DEFINE Raw == [id : Ids, sort : {"named", "bare", "silent"}]
  <2>1. r \in Raw
    BY <1>3, OwnMessage
  <2>5. j.raw \in Seq(Raw)
    BY <1>1 DEF Job
  <2>2. Append(j.raw, r) \in Seq(Raw)
    BY <2>1, <2>5
  <2>3. Counted(j, sort) \in Nat
    BY <1>3, <1>4
  <2>4. Append(j.raw, r) # <<>>
    <3> HIDE DEF r, Raw, j
    <3> QED BY <2>1, <2>5, NotEmpty
  <2> QED BY <1>1, <1>2, <1>3, <2>2, <2>3, <2>4 DEF Job
<1> HIDE DEF a, r, j
<1>6. /\ Unanswered(j) = (IF j.k > 0 THEN 1 ELSE 0)
      /\ Strict(a) = Strict(j) /\ First(a) = First(j)
  BY <1>2, <1>5 DEF Unanswered, Strict, First
<1>7. ASSUME Strict(j)
      PROVE  /\ Consecutive(s, First(j), p) /\ Len(p) = j.k - First(j) + 1
             /\ PartsAmong(j, Len(p)) = a.cnt
             /\ j.hdr => j.mode = "thread" /\ Len(p) > 0
  BY <1>1, <1>2, <1>3, <1>4, <1>5, <1>6, <1>7 DEF Stands, ForwardStands
<1>8. ASSUME ~Strict(j)
      PROVE  /\ \A i, k \in DOMAIN p : i < k => p[i][2] < p[k][2]
             /\ \A i \in DOMAIN p : p[i][2] <= j.k
  BY <1>1, <1>2, <1>8 DEF Stands, PlainStands
<1>9. CASE j.k = 0 /\ sort = "silent"
  <2>1. Unanswered(j) = 0 /\ j.flight # "no"
    BY <1>2, <1>6, <1>9
  <2> DEFINE e == Ended([j EXCEPT !.flight = "no"], "failed")
  <2>2. e \in Job /\ Stands(s, e, p)
    BY <1>1, <2>1, AnsweredStands
  <2>3. Becomes(s, e)
    BY <1>2, <1>9
  <2> QED BY <1>2, <2>2, <2>3, JobStep
<1>10. CASE j.k = 0 /\ sort # "silent"
  <2> DEFINE e == [a EXCEPT !.st = "mapping", !.hdr = TRUE]
  <2>1. /\ e \in Job /\ e.st = "mapping" /\ e.mode = j.mode /\ e.flight = "no" /\ e.k = j.k
        /\ e.cnt = a.cnt /\ e.hdr = TRUE /\ e.res = "none" /\ e.raw # <<>>
    BY <1>5 DEF Job
  <2>2. Becomes(s, e)
    BY <1>2, <1>10
  <2> HIDE DEF e
  <2>3. First(e) = First(j) /\ Strict(e) = Strict(j) /\ Unanswered(e) = 0
        /\ PartsAmong(e, Len(p)) = PartsAmong(j, Len(p)) /\ Strict(j) /\ First(j) = 0
        /\ j.mode = "thread"
    BY <1>3, <1>10, <2>1 DEF First, Strict, Unanswered, PartsAmong
  <2>4. Standing(s, e)
    BY <1>3, <2>1, <2>3 DEF Standing
  <2>5. Stands(s, e, p)
    <3>1. /\ Consecutive(s, First(e), p) /\ Len(p) = 1
          /\ PartsAmong(e, Len(p)) = e.cnt + Unanswered(e)
      BY <1>3, <1>5, <1>7, <1>10, <2>1, <2>3
    <3> QED BY <1>10, <2>1, <2>3, <2>4, <3>1 DEF Stands, ForwardStands
  <2> QED BY <1>2, <2>1, <2>2, <2>5, JobStep
<1>11. CASE j.k > 0 /\ (Strict(j) \/ j.k = Parts[s])
  <2> DEFINE e == [a EXCEPT !.st = "mapping"]
  <2>1. /\ e \in Job /\ e.st = "mapping" /\ e.mode = j.mode /\ e.flight = "no" /\ e.k = j.k
        /\ e.cnt = a.cnt /\ e.hdr = j.hdr /\ e.res = "none" /\ e.raw # <<>>
    BY <1>5 DEF Job
  <2>2. Becomes(s, e)
    BY <1>2, <1>3, <1>11
  <2> HIDE DEF e
  <2>3. First(e) = First(j) /\ Strict(e) = Strict(j) /\ Unanswered(e) = 0
        /\ PartsAmong(e, Len(p)) = PartsAmong(j, Len(p))
    BY <2>1 DEF First, Strict, Unanswered, PartsAmong
  <2>4. Standing(s, e)
    BY <1>3, <2>1, <2>3 DEF Standing
  <2>5. ASSUME Strict(j) PROVE Stands(s, e, p)
    BY <1>1, <1>3, <1>5, <1>7, <2>1, <2>3, <2>4, <2>5 DEF Stands, ForwardStands
  <2>6. ASSUME ~Strict(j) PROVE Stands(s, e, p)
    BY <1>8, <2>1, <2>3, <2>4, <2>6 DEF Stands, PlainStands
  <2> QED BY <1>2, <2>1, <2>2, <2>5, <2>6, JobStep
<1>12. CASE j.k > 0 /\ ~Strict(j) /\ j.k # Parts[s]
  <2>1. Becomes(s, Posting(a, j.k + 1))
    BY <1>2, <1>3, <1>12
  <2>2. j.k + 1 \in First(a) .. Parts[s]
    BY <1>1, <1>3, <1>6, <1>12
  <2>3. \A i \in DOMAIN p : p[i][2] \in Nat
    <3>1. \A i \in DOMAIN p : p[i] \in Senders \X Nat
      BY <1>1
    <3> QED BY <3>1
  <2>4. SentBefore(s, a, j.k + 1, p)
    BY <1>3, <1>6, <1>8, <1>12, <2>3 DEF SentBefore
  <2>5. Posting(a, j.k + 1) \in Job /\ Stands(s, Posting(a, j.k + 1), p)
    BY <1>1, <1>5, <2>2, <2>4, PostingStands
  <2> QED BY <1>2, <2>1, <2>5, JobStep
<1> QED BY <1>3, <1>9, <1>10, <1>11, <1>12

(* Rocket.Chat declines a message, or there is nothing to send.            *)
LEMMA DeclinedStep ==
  ASSUME SendAssumption, SendInv, NEW s \in Senders, Declined(s)
  PROVE  SendInv'
<1> DEFINE j == job[s]
           p == posted[s]
<1>1. /\ j \in Job /\ Stands(s, j, p) /\ p \in Seq(Senders \X Nat) /\ Len(p) \in Nat
      /\ Parts[s] \in Nat
  BY JobFacts, PartsType
<1>2. /\ j.st = "posting" /\ j.flight = "sent" /\ UNCHANGED posted
      /\ Becomes(s, IF Strict(j) \/ (j.k = Parts[s] /\ j.raw = <<>>)
                      THEN Ended([j EXCEPT !.flight = "no"], "failed")
                    ELSE IF j.k = Parts[s] THEN [j EXCEPT !.flight = "no", !.st = "mapping"]
                    ELSE Posting(j, j.k + 1))
  BY DEF Declined, vars, selfs
<1>3. /\ j.k \in First(j) .. Parts[s] /\ j.res = "none" /\ First(j) \in {0, 1}
      /\ j.k \in Nat /\ Unanswered(j) = 0
  BY <1>1, <1>2, JobFields DEF Stands, Standing, Unanswered
<1> HIDE DEF j
<1>4. ASSUME ~Strict(j)
      PROVE  /\ \A i, k \in DOMAIN p : i < k => p[i][2] < p[k][2]
             /\ \A i \in DOMAIN p : p[i][2] < j.k /\ p[i][2] \in Nat
  <2>1. /\ \A i, k \in DOMAIN p : i < k => p[i][2] < p[k][2]
        /\ \A i \in DOMAIN p : p[i][2] < j.k
    BY <1>1, <1>2, <1>4 DEF Stands, PlainStands
  <2>2. \A i \in DOMAIN p : p[i] \in Senders \X Nat
    BY <1>1
  <2> QED BY <2>1, <2>2
<1>5. CASE Strict(j) \/ (j.k = Parts[s] /\ j.raw = <<>>)
  <2> DEFINE e == Ended([j EXCEPT !.flight = "no"], "failed")
  <2>1. e \in Job /\ Stands(s, e, p)
    BY <1>1, <1>2, <1>3, AnsweredStands
  <2>2. Becomes(s, e)
    BY <1>2, <1>5
  <2> QED BY <1>2, <2>1, <2>2, JobStep
<1>6. CASE ~Strict(j) /\ j.k = Parts[s] /\ j.raw # <<>>
  <2> DEFINE e == [j EXCEPT !.flight = "no", !.st = "mapping"]
  <2>1. /\ e \in Job /\ e.st = "mapping" /\ e.mode = j.mode /\ e.flight = "no" /\ e.k = j.k
        /\ e.res = "none" /\ e.raw = j.raw
    BY <1>1, <1>3 DEF Job
  <2>2. Becomes(s, e)
    BY <1>2, <1>6
  <2> HIDE DEF e
  <2>3. First(e) = First(j) /\ Strict(e) = Strict(j)
    BY <2>1 DEF First, Strict
  <2>4. Stands(s, e, p)
    BY <1>3, <1>4, <1>6, <2>1, <2>3 DEF Stands, Standing, PlainStands
  <2> QED BY <1>2, <2>1, <2>2, <2>4, JobStep
<1>7. CASE ~Strict(j) /\ j.k # Parts[s]
  <2>1. Becomes(s, Posting(j, j.k + 1))
    BY <1>2, <1>7
  <2>2. j.k + 1 \in First(j) .. Parts[s]
    BY <1>1, <1>3, <1>7
  <2>3. SentBefore(s, j, j.k + 1, p)
    BY <1>3, <1>4, <1>7 DEF SentBefore
  <2>4. Posting(j, j.k + 1) \in Job /\ Stands(s, Posting(j, j.k + 1), p)
    BY <1>1, <1>3, <2>2, <2>3, PostingStands
  <2> QED BY <1>2, <2>1, <2>4, JobStep
<1> QED BY <1>5, <1>6, <1>7

(* An answer is mapped, or cannot be.                                      *)
LEMMA MappedStep ==
  ASSUME SendAssumption, SendInv, NEW s \in Senders, NEW id \in Ids \cup {NoId},
         job[s].st \in {"mapping", "echo"}, Becomes(s, Mapped(s, job[s], id)),
         UNCHANGED posted
  PROVE  SendInv'
<1> DEFINE j == job[s]
           p == posted[s]
           m == [j EXCEPT !.raw = Tail(@), !.last = IF id # NoId /\ j.k > 0 THEN id ELSE @]
<1>1. /\ j \in Job /\ Stands(s, j, p) /\ p \in Seq(Senders \X Nat) /\ Len(p) \in Nat
      /\ Parts[s] \in Nat /\ j.st \in {"mapping", "echo"}
  BY JobFacts, PartsType
<1>2. Becomes(s, IF Strict(j) /\ id = NoId THEN Ended(m, "failed")
                 ELSE IF Strict(j) /\ j.k < Parts[s] THEN Posting(m, j.k + 1)
                 ELSE IF m.raw # <<>> THEN [m EXCEPT !.st = "mapping"]
                 ELSE Ended(m, IF m.last = NoId THEN "failed" ELSE "ok"))
  BY DEF Mapped
<1>3. /\ j.k \in First(j) .. Parts[s] /\ j.res = "none" /\ First(j) \in {0, 1}
      /\ j.k \in Nat /\ j.cnt \in Nat /\ Unanswered(j) = 0 /\ j.flight = "no"
      /\ j.raw # <<>>
  BY <1>1, JobFields DEF Stands, Standing, Unanswered
<1>4. /\ m \in Job /\ m.st = j.st /\ m.mode = j.mode /\ m.flight = "no" /\ m.k = j.k
      /\ m.cnt = j.cnt /\ m.hdr = j.hdr /\ m.res = "none"
  <2>1. Tail(j.raw) \in Seq([id : Ids, sort : {"named", "bare", "silent"}])
    BY <1>1, <1>3, TailOf DEF Job
  <2> QED BY <1>1, <1>3, <2>1 DEF Job
<1> HIDE DEF m, j
<1>5. First(m) = First(j) /\ Strict(m) = Strict(j)
  BY <1>4 DEF First, Strict
<1>6. ASSUME Strict(j)
      PROVE  /\ Consecutive(s, First(j), p) /\ Len(p) = j.k - First(j) + 1
             /\ PartsAmong(j, Len(p)) = j.cnt
             /\ j.hdr => j.mode = "thread" /\ Len(p) > 0
  BY <1>1, <1>3, <1>6 DEF Stands, ForwardStands
<1>7. ASSUME ~Strict(j)
      PROVE  \A i, k \in DOMAIN p : i < k => p[i][2] < p[k][2]
  BY <1>1, <1>7 DEF Stands, PlainStands
<1>8. ASSUME NEW e \in Job, e.st = "done", e.res \in {"failed", "ok"}, e.mode = j.mode,
             e.k = j.k, e.flight = "no", e.cnt = j.cnt, e.hdr = j.hdr,
             e.res = "ok" /\ Strict(j) => j.k = Parts[s]
      PROVE  Stands(s, e, p)
  <2>1. /\ First(e) = First(j) /\ Strict(e) = Strict(j) /\ Unanswered(e) = 0
        /\ PartsAmong(e, Len(p)) = PartsAmong(j, Len(p))
    BY <1>8 DEF First, Strict, Unanswered, PartsAmong
  <2>2. Standing(s, e)
    BY <1>8 DEF Standing
  <2>3. ASSUME Strict(j) PROVE Stands(s, e, p)
    BY <1>1, <1>3, <1>6, <1>8, <2>1, <2>2, <2>3 DEF Stands, ForwardStands
  <2>4. ASSUME ~Strict(j) PROVE Stands(s, e, p)
    BY <1>7, <1>8, <2>1, <2>2, <2>4 DEF Stands, PlainStands
  <2> QED BY <2>3, <2>4
<1>9. CASE Strict(j) /\ id = NoId
  <2> DEFINE e == Ended(m, "failed")
  <2>1. /\ e \in Job /\ e.st = "done" /\ e.res = "failed" /\ e.mode = j.mode
        /\ e.k = j.k /\ e.flight = "no" /\ e.cnt = j.cnt /\ e.hdr = j.hdr
    BY <1>4 DEF Job, Ended
  <2>2. Becomes(s, e)
    BY <1>2, <1>9
  <2> HIDE DEF e
  <2>3. Stands(s, e, p)
    BY <1>8, <2>1
  <2> QED BY <2>1, <2>2, <2>3, JobStep
<1>10. CASE Strict(j) /\ id # NoId /\ j.k < Parts[s]
  <2>1. Becomes(s, Posting(m, j.k + 1))
    BY <1>2, <1>10
  <2>2. j.k + 1 \in First(m) .. Parts[s]
    BY <1>1, <1>3, <1>5, <1>10
  <2>3. PartsAmong(m, Len(p)) = PartsAmong(j, Len(p))
    BY <1>5 DEF PartsAmong
  <2>4. SentBefore(s, m, j.k + 1, p)
    BY <1>3, <1>4, <1>5, <1>6, <1>10, <2>3 DEF SentBefore
  <2>5. Posting(m, j.k + 1) \in Job /\ Stands(s, Posting(m, j.k + 1), p)
    BY <1>1, <1>4, <2>2, <2>4, PostingStands
  <2> QED BY <2>1, <2>5, JobStep
<1>11. CASE ~(Strict(j) /\ id = NoId) /\ ~(Strict(j) /\ j.k < Parts[s]) /\ m.raw # <<>>
  <2> DEFINE e == [m EXCEPT !.st = "mapping"]
  <2>1. /\ e \in Job /\ e.st = "mapping" /\ e.mode = j.mode /\ e.flight = "no" /\ e.k = j.k
        /\ e.cnt = j.cnt /\ e.hdr = j.hdr /\ e.res = "none" /\ e.raw # <<>>
    BY <1>4, <1>11 DEF Job
  <2>2. Becomes(s, e)
    BY <1>2, <1>11
  <2> HIDE DEF e
  <2>3. First(e) = First(j) /\ Strict(e) = Strict(j) /\ Unanswered(e) = 0
        /\ PartsAmong(e, Len(p)) = PartsAmong(j, Len(p))
    BY <2>1 DEF First, Strict, Unanswered, PartsAmong
  <2>4. Standing(s, e)
    BY <1>3, <2>1, <2>3 DEF Standing
  <2>5. ASSUME Strict(j) PROVE Stands(s, e, p)
    BY <1>1, <1>3, <1>6, <2>1, <2>3, <2>4, <2>5 DEF Stands, ForwardStands
  <2>6. ASSUME ~Strict(j) PROVE Stands(s, e, p)
    BY <1>7, <2>1, <2>3, <2>4, <2>6 DEF Stands, PlainStands
  <2> QED BY <2>1, <2>2, <2>5, <2>6, JobStep
<1>12. CASE ~(Strict(j) /\ id = NoId) /\ ~(Strict(j) /\ j.k < Parts[s]) /\ m.raw = <<>>
  <2> DEFINE res == IF m.last = NoId THEN "failed" ELSE "ok"
             e == Ended(m, res)
  <2>1. /\ e \in Job /\ e.st = "done" /\ e.res \in {"failed", "ok"} /\ e.mode = j.mode
        /\ e.k = j.k /\ e.flight = "no" /\ e.cnt = j.cnt /\ e.hdr = j.hdr
    BY <1>4 DEF Job, Ended
  <2>2. Becomes(s, e)
    BY <1>2, <1>12
  <2> HIDE DEF e
  <2>3. e.res = "ok" /\ Strict(j) => j.k = Parts[s]
    BY <1>1, <1>3, <1>12
  <2>4. Stands(s, e, p)
    BY <1>8, <2>1, <2>3
  <2> QED BY <2>1, <2>2, <2>4, JobStep
<1> QED BY <1>9, <1>10, <1>11, <1>12

(* The wait for an echo begins, or ends with the client.                   *)
LEMMA EchoSteps ==
  ASSUME InboundAssumption, SendAssumption, SendInv, TypeOK, NEW s \in Senders,
         WantEcho(s) \/ EchoOver(s) \/ Cut(s) \/ MapNamed(s)
  PROVE  SendInv'
<1> DEFINE j == job[s]
           p == posted[s]
<1>1. /\ j \in Job /\ Stands(s, j, p) /\ p \in Seq(Senders \X Nat) /\ Len(p) \in Nat
  BY JobFacts
<1>2. ASSUME j.st \in {"mapping", "echo"} PROVE Head(j.raw).id \in Ids
  <2>1. j.raw # <<>> /\ j.raw \in Seq([id : Ids, sort : {"named", "bare", "silent"}])
    BY <1>1, <1>2 DEF Stands, Standing, Job
  <2>2. Head(j.raw) \in [id : Ids, sort : {"named", "bare", "silent"}]
    BY <2>1, TailOf
  <2> QED BY <2>2
<1>3. CASE WantEcho(s)
  <2> DEFINE e == [j EXCEPT !.st = "echo"]
  <2>1. job' = [job EXCEPT ![s] = e] /\ j.st = "mapping" /\ UNCHANGED posted
    BY <1>3 DEF WantEcho
  <2>2. /\ e \in Job /\ e.st = "echo" /\ e.mode = j.mode /\ e.flight = j.flight /\ e.k = j.k
        /\ e.cnt = j.cnt /\ e.hdr = j.hdr /\ e.res = j.res /\ e.raw = j.raw
    BY <1>1 DEF Job
  <2>3. Becomes(s, e)
    BY <2>1 DEF Becomes
  <2> HIDE DEF e
  <2>4. Stands(s, e, p)
    BY <1>1, <2>1, <2>2 DEF Stands, Standing, ForwardStands, PlainStands, First, Strict,
                            PartsAmong, Unanswered
  <2> QED BY <2>1, <2>2, <2>3, <2>4, JobStep
<1>4. CASE EchoOver(s)
  <2> DEFINE r == Head(j.raw)
             known == IF r.sort = "bare" THEN r.id ELSE NoId
             id == IF echo[s] # NoId THEN echo[s] ELSE known
  <2>1. j.st = "echo" /\ Becomes(s, Mapped(s, j, id)) /\ UNCHANGED posted
    BY <1>4 DEF EchoOver, vars, selfs
  <2>2. echo[s] \in Ids \cup {NoId}
    BY DEF TypeOK
  <2>3. id \in Ids \cup {NoId}
    BY <1>2, <2>1, <2>2
  <2> HIDE DEF id
  <2> QED BY <2>1, <2>3, MappedStep
<1>5. CASE Cut(s)
  <2>1. Becomes(s, Ended(j, "none")) /\ UNCHANGED posted
    BY <1>5 DEF Cut, vars, selfs
  <2> QED BY <1>1, <2>1, EndedStands, JobStep
<1>6. CASE MapNamed(s)
  <2>1. j.st = "mapping" /\ Becomes(s, Mapped(s, j, Head(j.raw).id)) /\ UNCHANGED posted
    BY <1>6 DEF MapNamed, vars, selfs
  <2>2. Head(j.raw).id \in Ids \cup {NoId}
    BY <1>2, <2>1
  <2> QED BY <2>1, <2>2, MappedStep
<1> QED BY <1>3, <1>4, <1>5, <1>6

(* A request, the mapping or the action's minute comes to nothing.         *)
LEMMA FailedStep ==
  ASSUME SendInv, NEW s \in Senders, PostFails(s) \/ MapFails(s) \/ Timeout(s)
  PROVE  SendInv'
<1>1. /\ job[s] \in Job /\ Stands(s, job[s], posted[s]) /\ posted[s] \in Seq(Senders \X Nat)
  BY JobFacts
<1>2. /\ Becomes(s, Ended(job[s], "failed")) \/ Becomes(s, Ended(job[s], "timeout"))
      /\ UNCHANGED posted
  BY DEF PostFails, MapFails, Timeout, vars, selfs
<1>3. CASE Becomes(s, Ended(job[s], "failed"))
  BY <1>1, <1>2, <1>3, EndedStands, JobStep
<1>4. CASE Becomes(s, Ended(job[s], "timeout"))
  BY <1>1, <1>2, <1>4, EndedStands, JobStep
<1> QED BY <1>2, <1>3, <1>4

(* No message is stored, and no action goes on.                            *)
LEMMA SendUnchanged ==
  ASSUME SendInv, UNCHANGED <<job, posted>>
  PROVE  SendInv'
  BY DEF SendInv, SendTypeOK, Stands, Standing, ForwardStands, PlainStands, Strict, First,
         Consecutive, PartsAmong, Unanswered

(* The connection and the workers store nothing.                           *)
LEMMA ClientPosts ==
  ASSUME ClientNext, UNCHANGED job
  PROVE  UNCHANGED <<job, posted>>
<1>1. CASE Fetch \/ SubscribeRooms \/ SubscribeUserEvents \/ Reconnect \/ Break
  BY <1>1 DEF Fetch, SubscribeRooms, SubscribeUserEvents, Reconnect, Break, selfs
<1>2. ASSUME NEW r \in Rooms, Join(r) \/ Notified(r) \/ Age(r)
      PROVE  UNCHANGED posted
  BY <1>2 DEF Join, Notified, Age, selfs
<1>3. ASSUME NEW s \in Senders, AwaitEcho(s) \/ EchoTimeout(s)
      PROVE  UNCHANGED posted
  BY <1>3 DEF AwaitEcho, EchoTimeout
<1>4. CASE Stop \/ Drained \/ Finished
  BY <1>4 DEF Stop, Drained, Finished, selfs
<1>5. ASSUME NEW m \in Messages, Receive(m) PROVE UNCHANGED posted
  BY <1>5 DEF Receive, selfs
<1>6. ASSUME NEW t \in Tasks, Wait(t) \/ TakeSealed(t) \/ Undecipherable(t) \/ Finish(t)
             \/ Retire(t) \/ Callback(t)
      PROVE  UNCHANGED posted
  BY <1>6 DEF Wait, TakeSealed, Undecipherable, Finish, Retire, Callback, selfs
<1>7. ASSUME NEW t, NEW m, Process(t, m) PROVE UNCHANGED posted
  BY <1>7 DEF Process, RememberSelf, selfs
<1>8. ASSUME NEW t \in Tasks, TakeOpen(t) \/ Decrypted(t) PROVE UNCHANGED posted
  BY <1>7, <1>8 DEF TakeOpen, Decrypted
<1> QED BY <1>1, <1>2, <1>3, <1>4, <1>5, <1>6, <1>8 DEF ClientNext, TaskStep

(* Nothing was sent before the first action.                               *)
LEMMA InitSend ==
  ASSUME SendInit
  PROVE  SendInv
<1>1. job = [s \in Senders |-> NoJob] /\ posted = [s \in Senders |-> <<>>]
  BY DEF SendInit, Init
<1>2. /\ NoJob \in Job /\ NoJob.st = "none" /\ NoJob.mode = "plain" /\ NoJob.flight = "no"
      /\ NoJob.res = "none"
  BY DEF NoJob, Job
<1>3. ASSUME NEW s \in Senders PROVE Stands(s, job[s], posted[s])
  BY <1>1, <1>2 DEF Stands, Standing, PlainStands, Strict
<1> QED BY <1>1, <1>2, <1>3 DEF SendInv, SendTypeOK

(* Every step keeps the account of what was sent.                          *)
LEMMA SendStays ==
  ASSUME InboundAssumption, SendAssumption, TypeOK, SendInv, [Next]_sendVars
  PROVE  SendInv'
<1>1. CASE ClientNext /\ UNCHANGED job
  BY <1>1, ClientPosts, SendUnchanged
<1>2. ASSUME NEW s \in Senders, NEW mode \in Modes[s], Ask(s, mode) PROVE SendInv'
  BY <1>2, AskStep
<1>3. ASSUME NEW s \in Senders, SendStep(s) PROVE SendInv'
  <2>1. CASE Prepare(s)
    BY <2>1, PrepareStep
  <2>2. ASSUME NEW res \in {"refused", "failed"}, Refuse(s, res) PROVE SendInv'
    BY <2>2, RefuseStep
  <2>3. ASSUME NEW enabled \in BOOLEAN, Threads(s, enabled) PROVE SendInv'
    BY <2>3, ThreadsStep
  <2>4. ASSUME NEW sort \in {"named", "bare", "silent"}, Answered(s, sort) PROVE SendInv'
    BY <2>4, AnsweredStep
  <2>5. CASE Declined(s)
    BY <2>5, DeclinedStep
  <2>6. CASE MapNamed(s) \/ WantEcho(s) \/ EchoOver(s) \/ Cut(s)
    BY <2>6, EchoSteps
  <2>7. CASE PostFails(s) \/ MapFails(s)
    BY <2>7, FailedStep
  <2> QED BY <1>3, <2>1, <2>2, <2>3, <2>4, <2>5, <2>6, <2>7 DEF SendStep
<1>4. ASSUME NEW s \in Senders, Stored(s) PROVE SendInv'
  BY <1>4, StoredStep
<1>5. ASSUME NEW s \in Senders, Timeout(s) PROVE SendInv'
  BY <1>5, FailedStep
<1>6. ASSUME NEW s \in Senders, NEW k \in 0 .. Parts[s], Echoed(<<s, k>>) PROVE SendInv'
  <2>1. UNCHANGED <<job, posted>>
    BY <1>6 DEF Echoed, RememberSelf
  <2> QED BY <2>1, SendUnchanged
<1>7. CASE UNCHANGED sendVars
  <2>1. UNCHANGED <<job, posted>>
    BY <1>7 DEF sendVars, vars, selfs
  <2> QED BY <2>1, SendUnchanged
<1> QED BY <1>1, <1>2, <1>3, <1>4, <1>5, <1>6, <1>7 DEF Next

(* In every reachable state what was sent of an action is what its job says *)
(* of it: the messages up to the part at hand, counted one by one           *)
(* (OneBotActionHandler, map_progress).                                    *)
THEOREM SendInvariant == Spec => []SendInv
<1>1. SendInit => SendInv
  BY InitSend
<1>2. TypeOK /\ SendInv /\ [Next]_sendVars => SendInv'
  BY InboundAssumption, SendAssumption, SendStays
<1>3. PipelineInv => TypeOK
  BY DEF PipelineInv
<1> QED BY <1>1, <1>2, <1>3, PipelineInvariant, PTL DEF Spec

(* The parts among the messages that were sent are as many as PartsAmong    *)
(* counts.                                                                 *)
LEMMA BodiesCount ==
  ASSUME NEW s \in Senders, NEW j \in Job, posted[s] \in Seq(Senders \X Nat),
         Consecutive(s, First(j), posted[s])
  PROVE  Bodies(s) = PartsAmong(j, Len(posted[s]))
<1> DEFINE p == posted[s]
           n == Len(p)
           bodies == {i \in DOMAIN p : p[i][2] > 0}
<1>1. n \in Nat /\ DOMAIN p = 1 .. n /\ First(j) \in {0, 1} /\ First(j) \in Nat
  BY JobFields
<1>2. \A i \in 1 .. n : p[i] = <<s, First(j) + i - 1>>
  BY <1>1, ConsecutiveIs
<1>3. \A i \in 1 .. n : p[i][2] = First(j) + i - 1
  BY <1>2
<1>4. CASE First(j) = 1
  <2>1. bodies = 1 .. n
    BY <1>1, <1>3, <1>4
  <2>2. Cardinality(1 .. n) = n
    <3>1. Cardinality(1 .. n) = IF 1 > n THEN 0 ELSE n - 1 + 1
      BY <1>1, FS_Interval, 1 \in Int, n \in Int
    <3> QED BY ONLY <1>1, <3>1
  <2> QED BY <1>4, <2>1, <2>2 DEF Bodies, PartsAmong
<1>5. CASE First(j) = 0
  <2>1. bodies = 2 .. n
    BY <1>1, <1>3, <1>5
  <2>2. Cardinality(2 .. n) = IF n = 0 THEN 0 ELSE n - 1
    <3>1. Cardinality(2 .. n) = IF 2 > n THEN 0 ELSE n - 2 + 1
      BY <1>1, FS_Interval, 2 \in Int, n \in Int
    <3> QED BY <1>1, <3>1
  <2>3. PartsAmong(j, n) = IF n = 0 THEN n ELSE n - 1
    BY <1>5 DEF PartsAmong
  <2> QED BY <1>1, <2>1, <2>2, <2>3 DEF Bodies
<1> QED BY <1>1, <1>4, <1>5

(* What the answer says of a forward is true of what Rocket.Chat has, and   *)
(* other sends keep their order (ForwardIsAccounted, take_timeout_response).*)
THEOREM ForwardAccounted == Spec => []ForwardIsAccounted
<1>1. ASSUME SendInv, NEW s \in Senders, Strict(job[s])
      PROVE  LET j == job[s]
             IN  /\ Consecutive(s, First(j), posted[s])
                 /\ j.res = "refused" => posted[s] = <<>>
                 /\ j.res = "ok" => Bodies(s) = Parts[s]
                 /\ Bodies(s) = j.cnt + Unanswered(j)
                 /\ j.hdr => posted[s] # <<>> /\ posted[s][1] = <<s, 0>>
  <2> DEFINE j == job[s]
             p == posted[s]
             n == Len(p)
  <2>1. /\ j \in Job /\ Stands(s, j, p) /\ p \in Seq(Senders \X Nat) /\ n \in Nat
        /\ First(j) \in {0, 1} /\ First(j) \in Nat /\ (First(j) = 0 <=> j.mode = "thread")
        /\ Parts[s] \in Nat \ {0}
    BY <1>1, JobFacts, JobFields, PartsType, SendAssumption
  <2>2. /\ Consecutive(s, First(j), p) /\ PartsAmong(j, n) = j.cnt + Unanswered(j)
        /\ j.res = "refused" => n = 0
        /\ j.res = "ok" => n = Parts[s] - First(j) + 1
        /\ j.hdr => j.mode = "thread" /\ n > 0
    BY <1>1, <2>1 DEF Stands, ForwardStands
  <2>3. Bodies(s) = PartsAmong(j, n)
    BY <2>1, <2>2, BodiesCount
  <2>4. j.res = "refused" => p = <<>>
    BY <2>1, <2>2, Empty
  <2>5. j.res = "ok" => PartsAmong(j, n) = Parts[s]
    BY <2>1, <2>2 DEF PartsAmong
  <2>6. ASSUME j.hdr PROVE p # <<>> /\ p[1] = <<s, 0>>
    <3>1. First(j) = 0 /\ 1 \in 1 .. n
      BY <2>1, <2>2, <2>6
    <3>2. p[1] = <<s, First(j) + 1 - 1>>
      BY <2>1, <2>2, <3>1, ConsecutiveIs
    <3> QED BY <2>1, <3>1, <3>2
  <2> QED BY <2>2, <2>3, <2>4, <2>5, <2>6
<1>2. ASSUME SendInv, NEW s \in Senders, ~Strict(job[s])
      PROVE  \A i, k \in 1 .. Len(posted[s]) : i < k => posted[s][i][2] < posted[s][k][2]
  BY <1>2, JobFacts DEF Stands, PlainStands
<1>3. SendInv => ForwardIsAccounted
  BY <1>1, <1>2, Zenon DEF ForwardIsAccounted
<1> QED BY <1>3, SendInvariant, PTL
=============================================================================
