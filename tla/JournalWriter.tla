--------------------------- MODULE JournalWriter ---------------------------
(***************************************************************************)
(* JournalPersistenceWorker of rocketcat_shell/bridge/hot_storage.py: the   *)
(* writer thread that makes the in-memory state of one bot durable.         *)
(*                                                                          *)
(* Coroutines of the event loop mutate the in-memory state first and hand   *)
(* the mutations to the writer afterwards, through a bounded queue.  The    *)
(* writer appends them to runtime.journal.bin, and from time to time        *)
(* replaces runtime.snapshot.bin by a copy of the whole state and truncates *)
(* the journal.  The process may be killed between any two steps; recovery  *)
(* loads the snapshot and replays the journal up to the first record it     *)
(* cannot read.                                                             *)
(*                                                                          *)
(* A mutation is a number, given in the order in which mutations are        *)
(* applied to memory; what it does to the state is left out.               *)
(***************************************************************************)
EXTENDS Integers, Sequences, FiniteSets

CONSTANTS
  Producers,      (* coroutines that mutate the state                       *)
  Flushers,       (* threads that call flush()                              *)
  Closer,         (* the thread that calls close()                          *)
  QueueCapacity,  (* _QUEUE_CAPACITY                                        *)
  FlushEvery,     (* flush_every_records                                    *)
  SnapshotEvery,  (* snapshot_every_records                                 *)
  ForceSize,      (* _FORCE_SNAPSHOT_BYTES, counted in records              *)
  MaxCoalesce,    (* batches merged into one journal record, 32 in the code *)
  MaxMutations,   (* bound: mutations applied in a behaviour                *)
  MaxCrashes,     (* bound: process kills in a behaviour                    *)
  MaxFailures     (* bound: I/O errors in a behaviour                       *)

ASSUME JournalAssumption ==
  /\ Closer \notin Flushers
  /\ QueueCapacity \in Nat \ {0}
  /\ FlushEvery \in Nat \ {0}
  /\ SnapshotEvery \in Nat \ {0}
  /\ ForceSize \in Nat \ {0}
  /\ MaxCoalesce \in Nat \ {0}
  /\ MaxMutations \in Nat
  /\ MaxCrashes \in Nat
  /\ MaxFailures \in Nat

VARIABLES
  clock,      (* mutations applied so far; they are numbered 1..clock        *)
  live,       (* the mutations the in-memory state reflects                  *)
  pstate,     (* where each producer stands with its batch                   *)
  batch,      (* the mutations of a producer that are not enqueued yet       *)
  dropped,    (* mutations whose producer was told they were not recorded    *)
  queue,      (* the bounded queue to the writer thread                      *)
  sent,       (* the mutations enqueued and not yet covered by a rotation    *)
  pc,         (* the writer thread's place in _run                           *)
  hand,       (* the mutations of the record being assembled                 *)
  logical,    (* how many batches were merged into hand                      *)
  deferred,   (* deferred_item, as a sequence of at most one item            *)
  command,    (* the flush or stop command being served, as in deferred      *)
  unflushed,  (* pending_since_flush                                         *)
  written,    (* records_since_snapshot                                      *)
  capture,    (* the state captured for the snapshot being written           *)
  failed,     (* _last_error is set                                          *)
  callers,    (* where each flush() or close() call stands                   *)
  done,       (* callers whose event is set                                  *)
  promised,   (* what was in the writer's care when a flush() was queued     *)
  buf,        (* records in the file object's buffer                         *)
  spilt,      (* part of the first buffered record is on disk already        *)
  journal,    (* runtime.journal.bin                                         *)
  snapshot,   (* runtime.snapshot.bin                                        *)
  crashes, failures

memory == <<clock, live, pstate, batch, dropped>>
thread == <<pc, hand, logical, deferred, command, unflushed, written, capture,
            failed, failures>>
disk   == <<buf, spilt, journal, snapshot>>
calls  == <<callers, done, promised>>
channel == <<queue, sent>>
vars   == <<memory, channel, thread, disk, calls, crashes>>

Mutations == 1 .. MaxMutations
Callers   == Flushers \cup {Closer}

Data(kind, ids) == [kind |-> kind, ids |-> ids, caller |-> Closer]
Command(c) == [kind |-> IF c = Closer THEN "stop" ELSE "flush",
               ids |-> <<>>, caller |-> c]
Item == [kind : {"batch", "single"}, ids : Seq(Mutations), caller : {Closer}]
          \cup [kind : {"flush", "stop"}, ids : {<<>>}, caller : Callers]
Record == [whole : BOOLEAN, ids : Seq(Mutations)]
Whole(ids) == [whole |-> TRUE, ids |-> ids]
Torn == [whole |-> FALSE, ids |-> <<>>]

IdsOf(s) == {s[i] : i \in DOMAIN s}
IdsIn(items) == UNION {IdsOf(items[i].ids) : i \in DOMAIN items}

(* The mutations of a sequence of items or records, in order.              *)
Flat(items) ==
  LET flat[i \in 0 .. Len(items)] ==
        IF i = 0 THEN <<>> ELSE flat[i - 1] \o items[i].ids
  IN  flat[Len(items)]

(* iter_records stops at the first record that is truncated or does not    *)
(* decode: what follows it in the file is never read.                      *)
Readable(file) ==
  UNION {IdsOf(file[i].ids) :
           i \in {k \in DOMAIN file : \A j \in 1 .. k : file[j].whole}}

Recoverable == snapshot \cup Readable(journal)
OnDisk      == snapshot \cup IdsIn(journal)

(* What the writer was handed and has not written to the file yet.         *)
InFlight == IdsIn(buf) \cup IdsOf(hand) \cup IdsIn(deferred) \cup IdsIn(queue)
Unsent   == UNION {IdsOf(batch[p]) : p \in Producers}

Running  == pc # "down"
ThreadUp == pc \notin {"stopped", "dead", "down"}
Full     == Len(queue) >= QueueCapacity

RefusesOnErrorOnly == failed

(* _raise_if_failed: the writer reported an error, or died without one.    *)
Refuses == failed \/ (~ThreadUp /\ callers[Closer] # "ok")

(* A synchronous put blocks the event loop's own thread; BridgeRuntime.stop *)
(* stops its clients before it closes the store.                            *)
LoopFree == /\ Running
            /\ \A p \in Producers : pstate[p] # "blocked"
            /\ callers[Closer] = "idle"

(* Nothing volatile is left: no coroutine, no queue, no thread, no buffer. *)
FreshProcess ==
  /\ pstate' = [p \in Producers |-> "idle"]
  /\ batch' = [p \in Producers |-> <<>>]
  /\ queue' = <<>> /\ hand' = <<>> /\ logical' = 0
  /\ deferred' = <<>> /\ command' = <<>>
  /\ unflushed' = 0 /\ written' = 0 /\ capture' = {} /\ failed' = FALSE
  /\ callers' = [c \in Callers |-> "idle"] /\ done' = {}
  /\ promised' = [c \in Callers |-> {}]
  /\ buf' = <<>> /\ spilt' = FALSE

Init ==
  /\ clock = 0 /\ live = {} /\ dropped = {}
  /\ pstate = [p \in Producers |-> "idle"]
  /\ batch = [p \in Producers |-> <<>>]
  /\ queue = <<>> /\ sent = <<>> /\ pc = "get" /\ hand = <<>> /\ logical = 0
  /\ deferred = <<>> /\ command = <<>>
  /\ unflushed = 0 /\ written = 0 /\ capture = {}
  /\ failed = FALSE /\ failures = 0
  /\ callers = [c \in Callers |-> "idle"] /\ done = {}
  /\ promised = [c \in Callers |-> {}]
  /\ buf = <<>> /\ spilt = FALSE /\ journal = <<>> /\ snapshot = {}
  /\ crashes = 0

----------------------------------------------------------------------------
(* Coroutines of the event loop                                            *)

(* One mutation of the engine's state; its record is the producer's to send. *)
Mutate(p, state) ==
  /\ clock < MaxMutations
  /\ clock' = clock + 1
  /\ live' = live \cup {clock'}
  /\ batch' = [batch EXCEPT ![p] = Append(@, clock')]
  /\ pstate' = [pstate EXCEPT ![p] = state]
  /\ UNCHANGED <<dropped, channel, thread, disk, calls, crashes>>

(* RuntimeStateMutationBatch: the effect is immediate, the record waits    *)
(* for commit().                                                           *)
BatchMutate(p) ==
  LoopFree /\ pstate[p] \in {"idle", "open"} /\ Mutate(p, "open")

(* The producer's mutations enter the queue as one item.                   *)
Enqueue(p, kind) ==
  /\ ~Refuses /\ ~Full
  /\ queue' = Append(queue, Data(kind, batch[p]))
  /\ sent' = sent \o batch[p]
  /\ batch' = [batch EXCEPT ![p] = <<>>]
  /\ pstate' = [pstate EXCEPT ![p] = "idle"]
  /\ UNCHANGED dropped

(* The producer's call raises: applied to memory, never to be recorded.    *)
GiveUp(p) ==
  /\ dropped' = dropped \cup IdsOf(batch[p])
  /\ batch' = [batch EXCEPT ![p] = <<>>]
  /\ pstate' = [pstate EXCEPT ![p] = "idle"]
  /\ UNCHANGED channel

(* enqueue_batch_maybe_async: one attempt, then a coroutine that retries.  *)
Commit(p) ==
  /\ LoopFree /\ pstate[p] = "open"
  /\ \/ Enqueue(p, "batch")
     \/ Refuses /\ GiveUp(p)
     \/ /\ ~Refuses /\ Full
        /\ pstate' = [pstate EXCEPT ![p] = "waiting"]
        /\ UNCHANGED <<batch, dropped, channel>>
  /\ UNCHANGED <<clock, live, thread, disk, calls, crashes>>

(* _enqueue_when_available, after its sleep.                               *)
RetryCommit(p) ==
  /\ LoopFree /\ pstate[p] = "waiting"
  /\ Enqueue(p, "batch") \/ (Refuses /\ GiveUp(p))
  /\ UNCHANGED <<clock, live, thread, disk, calls, crashes>>

(* The coroutine is cancelled in that sleep.                               *)
CancelCommit(p) ==
  /\ LoopFree /\ pstate[p] = "waiting"
  /\ GiveUp(p)
  /\ UNCHANGED <<clock, live, thread, disk, calls, crashes>>

(* allocate_mapping, put_message, bind_*: mutate, then _record.  The put   *)
(* polls on the event loop's thread, which nothing else runs on meanwhile. *)
RecordMutate(p) == LoopFree /\ pstate[p] = "idle" /\ Mutate(p, "blocked")

(* _put_sync, whose deadline passes only while the queue stays full.       *)
PutSync(p) ==
  /\ Running /\ pstate[p] = "blocked"
  /\ Enqueue(p, "single") \/ ((Refuses \/ Full) /\ GiveUp(p))
  /\ UNCHANGED <<clock, live, thread, disk, calls, crashes>>

----------------------------------------------------------------------------
(* Callers of flush() and close()                                          *)

(* _raise_if_failed of _put_sync.  close() is called once every producer   *)
(* has been stopped.                                                       *)
Call(c) ==
  /\ Running /\ callers[c] \in {"idle", "calling"}
  /\ c = Closer => \A p \in Producers : pstate[p] = "idle"
  /\ callers' = [callers EXCEPT ![c] = IF Refuses THEN "error" ELSE "checked"]
  /\ UNCHANGED <<memory, channel, thread, disk, done, promised, crashes>>

(* The put that follows the check: the writer may have died in between.    *)
Put(c) ==
  /\ Running /\ callers[c] = "checked"
  /\ IF Full
       THEN /\ callers' = [callers EXCEPT ![c] = "calling"]
            /\ UNCHANGED <<queue, promised>>
       ELSE /\ queue' = Append(queue, Command(c))
            /\ callers' = [callers EXCEPT ![c] = "waiting"]
            /\ promised' = [promised EXCEPT ![c] = InFlight]
  /\ UNCHANGED <<sent, memory, thread, disk, done, crashes>>

OutcomeUnchecked(c) == "ok"

(* close() raises if the writer had failed; flush() does not look again.   *)
Outcome(c) == IF c = Closer /\ failed THEN "error" ELSE "ok"

(* _wait_command returns; close() also joins the thread.                   *)
Return(c) ==
  /\ Running /\ callers[c] = "waiting" /\ c \in done
  /\ c = Closer => ~ThreadUp
  /\ callers' = [callers EXCEPT ![c] = Outcome(c)]
  /\ UNCHANGED <<memory, channel, thread, disk, done, promised, crashes>>

(* _wait_command polls _raise_if_failed between two waits.                 *)
Raise(c) ==
  /\ Running /\ callers[c] = "waiting" /\ c \notin done /\ Refuses
  /\ callers' = [callers EXCEPT ![c] = "error"]
  /\ UNCHANGED <<memory, channel, thread, disk, done, promised, crashes>>

(* The deadline passes before the put or before the event.                 *)
TimeOut(c) ==
  /\ Running /\ callers[c] \in {"calling", "waiting"} /\ c \notin done
  /\ callers' = [callers EXCEPT ![c] = "timeout"]
  /\ UNCHANGED <<memory, channel, thread, disk, done, promised, crashes>>

----------------------------------------------------------------------------
(* The writer thread                                                       *)

(* The file object writes a prefix of its buffer to the file whenever it   *)
(* needs room: whole records, and perhaps a part of the next one.          *)
Spill(b) ==
  \E k \in 0 .. Len(b), part \in BOOLEAN :
    /\ part => k < Len(b)
    /\ spilt => k > 0 \/ part
    /\ journal' = journal \o SubSeq(b, 1, k)
    /\ buf' = SubSeq(b, k + 1, Len(b))
    /\ spilt' = part

FlushHandle ==
  /\ journal' = journal \o buf
  /\ buf' = <<>> /\ spilt' = FALSE

FlushForgotten == unflushed' = 0 /\ UNCHANGED <<buf, spilt, journal>>

FlushPending == /\ IF unflushed > 0 THEN FlushHandle
                                    ELSE UNCHANGED <<buf, spilt, journal>>
                /\ unflushed' = 0

(* _snapshot_due: the journal's tell() counts what is still buffered.      *)
SnapshotDue ==
  \/ Len(journal) + Len(buf) >= ForceSize
  \/ /\ written >= SnapshotEvery
     /\ \/ Len(queue) < QueueCapacity \div 4
        \/ Len(queue) = 0

QueueFirst == IF queue # <<>> THEN Head(queue) ELSE deferred[1]

NextItem == IF deferred # <<>> THEN deferred[1] ELSE Head(queue)

(* The item the loop serves next: the deferred one before the queue.       *)
Take ==
  /\ pc = "get" /\ (deferred # <<>> \/ queue # <<>>)
  /\ deferred' = <<>>
  /\ queue' = IF deferred # <<>> THEN queue ELSE Tail(queue)

TakeMutations ==
  /\ Take /\ NextItem.kind \in {"batch", "single"}
  /\ hand' = NextItem.ids /\ logical' = 1
  /\ pc' = IF NextItem.kind = "batch" THEN "coalesce" ELSE "write"
  /\ UNCHANGED <<command, unflushed, written, capture, failed, failures,
                 sent, memory, disk, calls, crashes>>

TakeCommand ==
  /\ Take /\ NextItem.kind \in {"flush", "stop"}
  /\ command' = <<NextItem>>
  /\ pc' = NextItem.kind
  /\ UNCHANGED <<hand, logical, unflushed, written, capture, failed, failures,
                 sent, memory, disk, calls, crashes>>

ReplaceIds(ids) == ids

Merge(ids) == hand \o ids

(* Consecutive batches become one record; what interrupts them is deferred. *)
Coalesce ==
  /\ pc = "coalesce" /\ logical < MaxCoalesce /\ queue # <<>>
  /\ queue' = Tail(queue)
  /\ IF Head(queue).kind = "batch"
       THEN /\ hand' = Merge(Head(queue).ids)
            /\ logical' = logical + 1
            /\ UNCHANGED <<deferred, pc>>
       ELSE /\ deferred' = <<Head(queue)>>
            /\ pc' = "write"
            /\ UNCHANGED <<hand, logical>>
  /\ UNCHANGED <<command, unflushed, written, capture, failed, failures,
                 sent, memory, disk, calls, crashes>>

Writing == \/ pc = "write"
           \/ pc = "coalesce" /\ (queue = <<>> \/ logical = MaxCoalesce)

Write ==
  /\ Writing
  /\ Spill(Append(buf, Whole(hand)))
  /\ unflushed' = unflushed + logical
  /\ written' = written + logical
  /\ hand' = <<>> /\ logical' = 0
  /\ pc' = "written"
  /\ UNCHANGED <<deferred, command, capture, failed, failures, snapshot,
                 memory, channel, calls, crashes>>

AfterWrite ==
  /\ pc = "written"
  /\ IF unflushed >= FlushEvery
       THEN FlushPending
       ELSE UNCHANGED <<unflushed, buf, spilt, journal>>
  /\ pc' = IF SnapshotDue THEN "capture" ELSE "get"
  /\ UNCHANGED <<hand, logical, deferred, command, written, capture, failed,
                 failures, snapshot, memory, channel, calls, crashes>>

SnapshotOnly == written >= SnapshotEvery

IdleWork == unflushed > 0 \/ written >= SnapshotEvery

(* The queue stayed empty for idle_flush_interval.                         *)
Idle ==
  /\ pc = "get" /\ queue = <<>> /\ deferred = <<>>
  /\ IdleWork
  /\ FlushPending
  /\ pc' = IF written >= SnapshotEvery THEN "capture" ELSE "get"
  /\ UNCHANGED <<hand, logical, deferred, command, written, capture, failed,
                 failures, snapshot, memory, channel, calls, crashes>>

(* The command being served is answered: current_item.done.set().          *)
Answer == /\ done' = done \cup {c \in Callers :
                                  \E i \in DOMAIN command : command[i].caller = c}
          /\ command' = <<>>

Flush ==
  /\ pc = "flush"
  /\ FlushPending
  /\ IF SnapshotDue THEN pc' = "capture" /\ UNCHANGED <<done, command>>
                    ELSE pc' = "get" /\ Answer
  /\ UNCHANGED <<hand, logical, deferred, written, capture, failed, failures,
                 callers, promised, snapshot, memory, channel, crashes>>

Stop ==
  /\ pc = "stop"
  /\ FlushPending
  /\ pc' = "capture"
  /\ UNCHANGED <<hand, logical, deferred, command, written, capture, failed,
                 failures, snapshot, memory, channel, calls, crashes>>

(* _write_snapshot_and_rotate, a step for each effect: the state is copied *)
(* under the engine's lock,                                                *)
Capture ==
  /\ pc = "capture"
  /\ capture' = live
  /\ pc' = "replace"
  /\ UNCHANGED <<hand, logical, deferred, command, unflushed, written, failed,
                 failures, memory, channel, disk, calls, crashes>>

(* a temporary file takes the snapshot's name,                             *)
ReplaceSnapshot ==
  /\ pc = "replace"
  /\ snapshot' = capture /\ capture' = {}
  /\ pc' = "close"
  /\ UNCHANGED <<hand, logical, deferred, command, unflushed, written, failed,
                 failures, buf, spilt, journal, memory, channel, calls, crashes>>

(* the journal's file object is closed, which writes what it buffers,      *)
CloseJournal ==
  /\ pc = "close"
  /\ FlushHandle
  /\ pc' = "truncate"
  /\ UNCHANGED <<hand, logical, deferred, command, unflushed, written,
                 capture, failed, failures, snapshot, memory, channel, calls, crashes>>

(* and the file is emptied and opened again.                               *)
Truncate ==
  /\ pc = "truncate"
  /\ journal' = <<>>
  /\ written' = 0
  /\ sent' = SubSeq(sent, Len(Flat(journal)) + 1, Len(sent))
  /\ Answer
  /\ pc' = IF \E i \in DOMAIN command : command[i].kind = "stop"
             THEN "stopped" ELSE "get"
  /\ UNCHANGED <<hand, logical, deferred, unflushed, capture, failed, failures,
                 buf, spilt, snapshot, callers, promised, memory, queue, crashes>>

(* Any of these steps may raise OSError: _last_error is set first,         *)
Fail ==
  /\ Writing \/ pc \in {"written", "flush", "stop", "replace", "close", "truncate"}
  /\ failures < MaxFailures
  /\ failures' = failures + 1
  /\ failed' = TRUE
  /\ pc' = "drain"
  /\ UNCHANGED <<hand, logical, deferred, command, unflushed, written, capture,
                 memory, channel, disk, calls, crashes>>

(* then everyone who waits for a command is released, the queue is emptied *)
(* and the file object closed, which may still write what it can.          *)
Drain ==
  /\ pc = "drain"
  /\ LET items == command \o deferred \o queue
     IN  done' = done \cup {items[i].caller :
                   i \in {k \in DOMAIN items : items[k].kind \in {"flush", "stop"}}}
  /\ queue' = <<>> /\ deferred' = <<>> /\ command' = <<>>
  /\ hand' = <<>> /\ logical' = 0 /\ capture' = {}
  /\ \E k \in 0 .. Len(buf), part \in BOOLEAN :
       /\ part => k < Len(buf) \/ hand # <<>>
       /\ spilt => k > 0 \/ part
       /\ journal' = journal \o SubSeq(buf, 1, k) \o IF part THEN <<Torn>> ELSE <<>>
  /\ sent' = Flat(journal')
  /\ buf' = <<>> /\ spilt' = FALSE
  /\ pc' = "dead"
  /\ UNCHANGED <<unflushed, written, failed, failures, snapshot, callers,
                 promised, memory, crashes>>

----------------------------------------------------------------------------
(* The process                                                             *)

(* The process is killed: what reached the file survives, even half of a   *)
(* record.                                                                 *)
Crash ==
  /\ Running /\ crashes < MaxCrashes
  /\ crashes' = crashes + 1
  /\ journal' = IF spilt THEN Append(journal, Torn) ELSE journal
  /\ pc' = "down"
  /\ FreshProcess
  /\ sent' = Flat(journal')
  /\ UNCHANGED <<clock, live, dropped, failures, snapshot>>

(* The bot is stopped in good order.                                       *)
Exit ==
  /\ callers[Closer] = "ok" /\ Running
  /\ pc' = "down"
  /\ FreshProcess
  /\ UNCHANGED <<clock, live, dropped, sent, failures, journal, snapshot, crashes>>

(* build_runtime_hot_stores: load the snapshot, replay the journal, start a *)
(* writer that appends to that same journal.                               *)
Recover ==
  /\ pc = "down"
  /\ live' = Recoverable /\ dropped' = {}
  /\ pc' = "get"
  /\ UNCHANGED <<clock, pstate, batch, hand, logical, deferred, command,
                 unflushed, written, capture, failed, failures, channel, disk,
                 calls, crashes>>

----------------------------------------------------------------------------
Producer(p) == \/ BatchMutate(p) \/ Commit(p) \/ RetryCommit(p)
               \/ CancelCommit(p) \/ RecordMutate(p) \/ PutSync(p)

Caller(c) == Call(c) \/ Put(c) \/ Return(c) \/ Raise(c) \/ TimeOut(c)

Writer == \/ TakeMutations \/ TakeCommand \/ Coalesce \/ Write \/ AfterWrite
          \/ Idle \/ Flush \/ Stop
          \/ Capture \/ ReplaceSnapshot \/ CloseJournal \/ Truncate \/ Drain

Next == \/ \E p \in Producers : Producer(p)
        \/ \E c \in Callers : Caller(c)
        \/ Writer \/ Fail
        \/ Crash \/ Exit \/ Recover

Spec == Init /\ [][Next]_vars

(* The writer thread is scheduled, the event loop resumes its coroutines   *)
(* and a caller that waits polls.  Nothing obliges a producer to mutate, a *)
(* command to be issued, a file to fail or a process to die.               *)
FairSpec == /\ Spec
            /\ WF_vars(Writer)
            /\ \A p \in Producers : WF_vars(RetryCommit(p)) /\ WF_vars(PutSync(p))
            /\ \A c \in Callers :
                 WF_vars(Put(c)) /\ WF_vars(Return(c)) /\ WF_vars(Raise(c))

----------------------------------------------------------------------------
(* Properties                                                              *)

PCs == {"get", "coalesce", "write", "written", "flush", "stop", "capture",
        "replace", "close", "truncate", "stopped", "drain", "dead", "down"}

MemoryTypes ==
  /\ clock \in 0 .. MaxMutations
  /\ live \in SUBSET Mutations /\ dropped \in SUBSET Mutations
  /\ pstate \in [Producers -> {"idle", "open", "waiting", "blocked"}]
  /\ batch \in [Producers -> Seq(Mutations)]

ThreadTypes ==
  /\ pc \in PCs
  /\ hand \in Seq(Mutations) /\ logical \in Nat
  /\ deferred \in Seq(Item) /\ command \in Seq(Item)
  /\ unflushed \in Nat /\ written \in Nat
  /\ capture \in SUBSET Mutations
  /\ failed \in BOOLEAN /\ failures \in 0 .. MaxFailures

DiskTypes == /\ buf \in Seq(Record) /\ spilt \in BOOLEAN
             /\ journal \in Seq(Record) /\ snapshot \in SUBSET Mutations

CallTypes ==
  /\ callers \in [Callers -> {"idle", "calling", "checked", "waiting", "ok",
                              "error", "timeout"}]
  /\ done \in SUBSET Callers
  /\ promised \in [Callers -> SUBSET Mutations]

(* The types of the variables: sequences of mutation numbers, items and    *)
(* records as JournalPersistenceWorker handles them.  (InEnqueueOrder says *)
(* what sent is.)                                                          *)
TypeOK == /\ MemoryTypes /\ ThreadTypes /\ DiskTypes /\ CallTypes
          /\ queue \in Seq(Item)
          /\ crashes \in 0 .. MaxCrashes

(* The journal is a FIFO: record, merged batch, deferred item and queue,   *)
(* read in that order, are the mutations in the order they were enqueued,  *)
(* none of them missing or twice (_run, coalescing and deferred_item).     *)
InEnqueueOrder ==
  Running => Flat(journal) \o Flat(buf) \o hand \o Flat(deferred) \o Flat(queue)
               = sent

(* As long as the writer has not failed, a mutation that memory reflects   *)
(* is on disk, on its way to the disk, or its producer was told otherwise  *)
(* (enqueue paths, _run, _write_snapshot_and_rotate).                      *)
NothingForgotten ==
  Running /\ ~failed => live \subseteq OnDisk \cup InFlight \cup Unsent \cup dropped

(* flush() returns without an error from a writer that has not failed only *)
(* when everything the writer had been given before the call is in the     *)
(* files (_FlushCommand: the flush before done.set()).                     *)
FlushReachesDisk ==
  ~failed => \A c \in Flushers : callers[c] = "ok" => promised[c] \subseteq OnDisk

(* The writer implements the durable state the bridge relies on.  In        *)
(* particular a rotation never leaves a moment at which a kill would lose a *)
(* mutation that a recovery could have read a moment before: the snapshot   *)
(* is in place before the journal is emptied; and a close() that returns    *)
(* leaves everything in the files (_write_snapshot_and_rotate, close).      *)
Durable == INSTANCE DurableState WITH
             durable <- Recoverable,
             closed  <- callers[Closer] = "ok"
ImplementsDurableState == Durable!Spec

(* Records of what the files hold are what a recovery reads.  Not so: a    *)
(* kill in the middle of a record leaves a torn tail, build_runtime_hot_   *)
(* stores appends to the same journal, and iter_records of the recovery    *)
(* after that stops at the torn record.                                    *)
JournalIsReplayable == OnDisk \subseteq Recoverable

(* Every flush() and close() that was queued is answered, whatever becomes *)
(* of the writer, without the help of its deadline (_wait_command polls,   *)
(* and a failing writer releases whom it can).  A flush() queued behind    *)
(* the stop command is the exception: once close() has set _closed nothing *)
(* tells it that no one reads the queue any more.                          *)
CommandsAnswered ==
  \A c \in Callers :
    callers[c] = "waiting" ~> (callers[c] # "waiting" \/ callers[Closer] = "ok")

(* What is enqueued reaches the file even if no other mutation follows, as *)
(* long as the writer lives (the idle flush of _run).                      *)
EventuallyOnDisk ==
  \A m \in Mutations :
    m \in InFlight ~> (m \in OnDisk \/ failed \/ ~Running)

----------------------------------------------------------------------------
(* The inductive invariant behind ImplementsDurableState and               *)
(* NothingForgotten (proved in JournalWriter_proofs)                       *)

StopIn(items) == \E i \in DOMAIN items : items[i].kind = "stop"

(* Memory is ahead of everything else.                                     *)
MemoryAhead == /\ InFlight \cup Unsent \cup Recoverable \subseteq live
               /\ live \subseteq 1 .. clock

NothingSurvivesDown ==
  pc = "down" => /\ InFlight \cup Unsent = {}
                 /\ callers[Closer] = "idle"
                 /\ ~StopIn(queue) /\ ~StopIn(deferred) /\ ~StopIn(command)

(* A record is assembled in hand from the queue; at most one item that was *)
(* taken too early waits beside it.                                        *)
Assembly ==
  /\ deferred = <<>> \/ Len(deferred) = 1
  /\ pc = "coalesce" => deferred = <<>>
  /\ pc \notin {"coalesce", "write", "drain"} => hand = <<>>

(* What the queue receives while a snapshot is written is in no snapshot   *)
(* and in no journal yet.                                                  *)
Uncaptured == IdsIn(queue) \cup Unsent \cup dropped

(* The state being written covers all that the rotation will discard.      *)
RotationCovers ==
  /\ pc = "replace" =>
       /\ Recoverable \cup IdsIn(buf) \subseteq capture /\ capture \subseteq live
       /\ live \subseteq capture \cup Uncaptured
  /\ pc \in {"close", "truncate"} =>
       /\ Readable(journal) \cup IdsIn(buf) \subseteq snapshot
       /\ live \subseteq snapshot \cup Uncaptured

(* From close() on memory stands still, so the last snapshot is the state. *)
StopCovers ==
  /\ StopIn(queue) \/ StopIn(deferred) \/ StopIn(command) \/ pc = "stopped"
       => callers[Closer] # "idle"
  /\ StopIn(command) /\ pc = "replace" => capture = live
  /\ StopIn(command) /\ pc \in {"close", "truncate"} => snapshot = live
  /\ pc = "stopped" => snapshot = live
  /\ callers[Closer] = "ok" => pc = "stopped"
  /\ pc \in {"drain", "dead"} => failed

IInv == /\ TypeOK
        /\ MemoryAhead
        /\ NothingSurvivesDown
        /\ Assembly
        /\ RotationCovers
        /\ StopCovers
        /\ NothingForgotten

----------------------------------------------------------------------------
(* The inductive invariant behind InEnqueueOrder and FlushReachesDisk      *)
(* (proved in JournalWriter_proofs, on top of IInv)                        *)

NothingVolatileDown ==
  pc = "down" => /\ queue = <<>> /\ hand = <<>> /\ deferred = <<>>
                 /\ command = <<>> /\ buf = <<>>
                 /\ done = {} /\ \A c \in Callers : promised[c] = {}

(* The order of what the writer was handed, in every state of the process. *)
EnqueuedInOrder ==
  Flat(journal) \o Flat(buf) \o hand \o Flat(deferred) \o Flat(queue) = sent

(* No producer has anything left when close() is called, so the stop       *)
(* command is the last item that matters, and the writer that has stopped  *)
(* has written everything.                                                 *)
StopIsLast ==
  /\ \A p \in Producers : pstate[p] = "idle" => batch[p] = <<>>
  /\ callers[Closer] # "idle" => \A p \in Producers : pstate[p] = "idle"
  /\ \A i, j \in DOMAIN queue :
       i < j /\ queue[i].kind = "stop" => queue[j].ids = <<>>
  /\ StopIn(deferred) \/ StopIn(command) \/ pc = "stopped"
       => \A j \in DOMAIN queue : queue[j].ids = <<>>
  /\ command # <<>> \/ pc = "stopped" => deferred = <<>>
  /\ pc \in {"get", "coalesce", "write", "written"} => command = <<>>
  /\ pc \in {"truncate", "stopped"} => buf = <<>>

(* The count of unflushed records is what tells the writer that its buffer *)
(* is not empty.                                                           *)
BufferCounted ==
  /\ buf # <<>> => unflushed > 0
  /\ pc \in {"coalesce", "write"} => logical > 0

(* What is on disk now and still will be when a rotation under way is over. *)
Lasting == IF pc = "replace" THEN OnDisk \cap capture
           ELSE IF pc \in {"close", "truncate"} THEN snapshot
           ELSE OnDisk

(* What a queue holds ahead of its i-th item.                              *)
IdsBefore(items, i) == UNION {IdsOf(items[j].ids) : j \in 1 .. i - 1}

(* Whatever a flush() was promised lasts, or is ahead of its command.      *)
PromisesAhead ==
  \A c \in Flushers :
    /\ promised[c] \subseteq live
    /\ c \in done => promised[c] \subseteq Lasting
    /\ \A i \in DOMAIN command :
         command[i].caller = c => promised[c] \subseteq Lasting \cup IdsIn(buf)
    /\ \A i \in DOMAIN deferred : deferred[i].caller = c =>
         promised[c] \subseteq Lasting \cup IdsIn(buf) \cup IdsOf(hand)
    /\ \A i \in DOMAIN queue : queue[i].caller = c =>
         promised[c] \subseteq Lasting \cup IdsIn(buf) \cup IdsOf(hand)
                               \cup IdsIn(deferred)
                               \cup IdsBefore(queue, i)

(* A flush() that has not been queued is in none of the writer's places,   *)
(* and one that returned was answered.                                     *)
Unqueued ==
  \A c \in Flushers :
    /\ callers[c] \in {"idle", "calling", "checked"} =>
         /\ c \notin done
         /\ \A i \in DOMAIN command : command[i].caller # c
         /\ \A i \in DOMAIN deferred : deferred[i].caller # c
         /\ \A i \in DOMAIN queue : queue[i].caller # c
    /\ callers[c] = "ok" => c \in done

OrderInv == NothingVolatileDown /\ StopIsLast /\ EnqueuedInOrder
FlushInv == BufferCounted /\ Unqueued /\ (~failed => PromisesAhead)
============================================================================
