--------------------------- MODULE InboundPipeline ---------------------------
(***************************************************************************)
(* RocketChatClient of rocketcat_shell/bridge/rocketchat_client.py, from a  *)
(* successful start() to the end of stop(): the DDP connection that         *)
(* receives the messages of the rooms the bot is in, the bounded inbound    *)
(* queues, the workers that serve them and retire when idle, the cache of   *)
(* message signatures, and the echoes of the bot's own messages that        *)
(* senders wait for.  OutboundSend adds the senders.                        *)
(*                                                                          *)
(* Everything here runs on one event loop: an action is what a task does    *)
(* between two points at which it awaits.                                   *)
(***************************************************************************)
EXTENDS Integers, Sequences, FiniteSets

CONSTANTS
  Rooms,
  Messages,       (* what the server may send: records [id, version]         *)
  RoomOf,         (* the room of a message id                                *)
  Sealed,         (* the rooms that are end-to-end encrypted                 *)
  Own,            (* the ids of messages of the bot's account: those of its  *)
                  (* senders, and any it writes from elsewhere               *)
  SkipOwn,        (* config.skip_own_messages                                *)
  Buckets,        (* 1 .. _inbound_worker_count                              *)
  BucketOf,       (* hash(room_id) % number of queues                        *)
  Senders,        (* coroutines that send and wait for the echo              *)
  RoomFor,        (* the room a sender sends to                              *)
  QueueMax,       (* _INBOUND_QUEUE_MAX_SIZE                                 *)
  SeenMax,        (* capacity of the signature cache, 5000 in the code       *)
  MaxAttempts,    (* config.max_reconnect_attempts, 0 for no limit           *)
  NoTask,         (* a bucket without an entry in _inbound_workers           *)
  NoId,           (* a sender that has sent or received nothing              *)
  FirstRooms,     (* the rooms the bot is in when it starts                  *)
  Worlds,         (* bound: what may happen. The client connects, others     *)
                  (* write, and it stops ("listen"); it is connected, and    *)
                  (* others write so often that no worker is idle ("chat");  *)
                  (* or it is connected and sends ("send"), when             *)
                  (* OutboundSend's senders are at work and not the queues   *)
  MaxArrivals,    (* bound: messages received in each world                  *)
  MaxBreaks       (* bound: connection failures                              *)

Ids == {m.id : m \in Messages} \cup Own

ASSUME InboundAssumption ==
  /\ RoomOf \in [Ids -> Rooms] /\ BucketOf \in [Rooms -> Buckets]
  /\ Sealed \subseteq Rooms /\ FirstRooms \subseteq Rooms
  /\ SkipOwn \in BOOLEAN
  /\ QueueMax \in Nat \ {0} /\ SeenMax \in Nat \ {0} /\ MaxAttempts \in Nat
  /\ NoId \notin Ids /\ NoTask \notin Buckets \X {1, 2, 3}
  /\ Worlds \subseteq {"listen", "chat", "send"}
  /\ MaxArrivals \in [Worlds -> Nat] /\ MaxBreaks \in Nat

VARIABLES
  world,       (* a member of Worlds                                         *)
  running,     (* _running                                                   *)
  stopping,    (* where stop() stands                                        *)
  link,        (* where _run_forever stands                                  *)
  failures,    (* _consecutive_reconnect_failures                            *)
  member,      (* the rooms the bot is in, according to the server           *)
  listed,      (* the rooms _get_subscriptions returned                      *)
  subscribed,  (* _subscribed_rooms of this connection                       *)
  notices,     (* rooms-changed notifications on their way to the client     *)
  queue,       (* _inbound_queues                                            *)
  owner,       (* _inbound_workers: the task of each bucket                  *)
  task,        (* the state of each task, until its done-callback has run    *)
  item,        (* the item a task has taken, as a sequence of at most one    *)
  seen,        (* _seen_inbound_message_signatures, in order of insertion    *)
  recent,      (* _recent_self_messages                                      *)
  waiters,     (* _pending_self_message_waiters                              *)
  sender,      (* what each sender does                                      *)
  posted,      (* the messages a sender has sent so far                      *)
  echo,        (* the message a sender was given as its echo                 *)
  emitted,     (* history: the items that passed the signature cache         *)
  entered,     (* history: those of them whose id it did not know            *)
  arrivals, breaks

connection == <<world, running, link, failures, listed, subscribed, notices, breaks>>
workers    == <<queue, owner, task, item, arrivals>>
selfs      == <<recent, waiters, sender, posted, echo>>
vars == <<connection, workers, selfs, member, seen, emitted, entered, stopping>>

(* A live task, one whose callback has not run, and room for one too many. *)
Tasks == Buckets \X {1, 2, 3}
Alive == {"ready", "waiting", "decrypting", "handling"}

Of(b) == {t \in Tasks : t[1] = b}

Init ==
  /\ world \in Worlds
  /\ running = TRUE /\ stopping = "no" /\ failures = 0
  /\ \/ /\ world = "listen" /\ link = "connecting"
        /\ member = FirstRooms /\ listed = {} /\ subscribed = {}
     \/ /\ world # "listen" /\ link = "listening"
        /\ member = Rooms /\ listed = Rooms /\ subscribed = Rooms
  /\ notices = {}
  /\ queue = [b \in Buckets |-> <<>>]
  /\ owner = [b \in Buckets |-> NoTask]
  /\ task = [t \in Tasks |-> "none"] /\ item = [t \in Tasks |-> <<>>]
  /\ seen = <<>> /\ emitted = <<>> /\ entered = <<>>
  /\ recent = [r \in Rooms |-> <<>>] /\ waiters = [r \in Rooms |-> <<>>]
  /\ sender = [s \in Senders |-> "idle"]
  /\ posted = [s \in Senders |-> <<>>] /\ echo = [s \in Senders |-> NoId]
  /\ arrivals = 0 /\ breaks = 0

----------------------------------------------------------------------------
(* The connection                                                          *)

(* Login, WebSocket, DDP login; then the rooms are asked for over REST.     *)
Fetch ==
  /\ link = "connecting" /\ link' = "fetched"
  /\ listed' = member /\ subscribed' = {} /\ notices' = {}
  /\ UNCHANGED <<world, running, failures, breaks, workers, selfs, member, seen,
                 emitted, entered, stopping>>

SubscribeRooms ==
  /\ link = "fetched" /\ link' = "subscribed"
  /\ subscribed' = listed
  /\ UNCHANGED <<world, running, failures, listed, notices, breaks, workers, selfs,
                 member, seen, emitted, entered, stopping>>

(* From here the server announces the rooms the bot is added to.           *)
SubscribeUserEvents ==
  /\ link = "subscribed" /\ link' = "listening"
  /\ failures' = 0
  /\ UNCHANGED <<world, running, listed, subscribed, notices, breaks, workers, selfs,
                 member, seen, emitted, entered, stopping>>

(* Somebody adds the bot to a room.                                        *)
Join(r) ==
  /\ r \notin member
  /\ member' = member \cup {r}
  /\ notices' = IF link = "listening" THEN notices \cup {r} ELSE notices
  /\ UNCHANGED <<world, running, link, failures, listed, subscribed, breaks, workers,
                 selfs, seen, emitted, entered, stopping>>

(* _handle_user_notification, event "inserted".                            *)
Notified(r) ==
  /\ link = "listening" /\ running /\ r \in notices
  /\ notices' = notices \ {r}
  /\ subscribed' = subscribed \cup {r}
  /\ UNCHANGED <<world, running, link, failures, listed, breaks, workers, selfs,
                 member, seen, emitted, entered, stopping>>

Exhausted(n) == MaxAttempts > 0 /\ n >= MaxAttempts

(* Any stage fails, or the peer closes: _run_forever counts and sleeps, or  *)
(* gives up.                                                               *)
Break ==
  /\ link \in {"connecting", "fetched", "subscribed", "listening"}
  /\ world = "listen" /\ breaks < MaxBreaks /\ breaks' = breaks + 1
  /\ failures' = failures + 1
  /\ running' = ~Exhausted(failures')
  /\ link' = IF Exhausted(failures') THEN "exhausted" ELSE "sleeping"
  /\ UNCHANGED <<world, listed, subscribed, notices, workers, selfs, member, seen,
                 emitted, entered, stopping>>

Reconnect ==
  /\ link = "sleeping" /\ link' = "connecting"
  /\ UNCHANGED <<world, running, failures, listed, subscribed, notices, breaks,
                 workers, selfs, member, seen, emitted, entered, stopping>>

----------------------------------------------------------------------------
(* Queues and workers                                                      *)

(* _ensure_inbound_worker, for bucket b, where tasks are registered and in  *)
(* these states: a task is created unless a live one is registered.        *)
Ensure(b, tasks, states) ==
  IF tasks[b] # NoTask /\ states[tasks[b]] \in Alive
    THEN owner' = tasks /\ task' = states
    ELSE LET t == CHOOSE u \in Of(b) : states[u] = "none"
         IN  /\ owner' = [tasks EXCEPT ![b] = t]
             /\ task' = [states EXCEPT ![t] = "ready"]

BucketFor(m) == BucketOf[RoomOf[m.id]]

(* _enqueue_incoming_message: into the queue of the room's bucket, or       *)
(* dropped when that is full.                                              *)
Receive(m) ==
  /\ link = "listening" /\ running /\ RoomOf[m.id] \in subscribed
  /\ world # "send"
  /\ arrivals < MaxArrivals[world] /\ arrivals' = arrivals + 1
  /\ LET b == BucketFor(m) IN
       IF Len(queue[b]) >= QueueMax
         THEN UNCHANGED <<queue, owner, task>>
         ELSE /\ queue' = [queue EXCEPT ![b] =
                             Append(@, [id |-> m.id, version |-> m.version,
                                        arrival |-> arrivals'])]
              /\ Ensure(b, owner, task)
  /\ UNCHANGED <<item, connection, selfs, member, seen, emitted, entered, stopping>>

Knows(cache, id) == \E i \in DOMAIN cache : cache[i].id = id

(* Mutated form: popitem(), which forgets the entry inserted last. *)
ForgetLast(cache, m) ==
  IF Knows(cache, m.id)
    THEN [i \in DOMAIN cache |-> IF cache[i].id = m.id THEN m ELSE cache[i]]
    ELSE IF Len(cache) >= SeenMax THEN cache ELSE Append(cache, m)

(* A known id keeps its place in the dictionary; beyond the capacity the    *)
(* entry that was inserted first goes.                                     *)
Remember(cache, m) ==
  IF Knows(cache, m.id)
    THEN [i \in DOMAIN cache |-> IF cache[i].id = m.id THEN m ELSE cache[i]]
    ELSE IF Len(cache) >= SeenMax THEN Append(Tail(cache), m)
                                  ELSE Append(cache, m)

Signature(m) == [id |-> m.id, version |-> m.version]

(* This version of m is the one the cache holds.                           *)
Repeated(m) == \E i \in DOMAIN seen : seen[i] = Signature(m)

(* _remember_self_message: every echo is kept for later, and the first     *)
(* coroutine that waits in the room is given it as well.                   *)
RememberSelf(id) ==
  LET r == RoomOf[id] IN
    /\ recent' = [recent EXCEPT ![r] = Append(@, id)]
    /\ IF waiters[r] = <<>>
         THEN UNCHANGED <<waiters, sender, echo>>
         ELSE /\ waiters' = [waiters EXCEPT ![r] = Tail(@)]
              /\ sender' = [sender EXCEPT ![Head(waiters[r])] = "idle"]
              /\ echo' = [echo EXCEPT ![Head(waiters[r])] = id]
    /\ UNCHANGED posted

(* The task has no item any more and looks for the next one.               *)
Done(t) == /\ task' = [task EXCEPT ![t] = "ready"]
           /\ item' = [item EXCEPT ![t] = <<>>]

(* _handle_incoming_message once the content is readable: signature cache,  *)
(* own messages, on_message.                                               *)
Process(t, m) ==
  /\ seen' = Remember(seen, Signature(m))
  /\ IF Repeated(m)
       THEN Done(t) /\ UNCHANGED <<selfs, emitted, entered>>
       ELSE /\ emitted' = Append(emitted, m)
            /\ entered' = IF Knows(seen, m.id) THEN entered ELSE Append(entered, m)
            /\ IF m.id \in Own THEN RememberSelf(m.id) ELSE UNCHANGED selfs
            /\ IF m.id \in Own /\ SkipOwn
                 THEN Done(t)
                 ELSE /\ task' = [task EXCEPT ![t] = "handling"]
                      /\ item' = [item EXCEPT ![t] = <<m>>]

Take(t) ==
  /\ task[t] \in {"ready", "waiting"} /\ queue[t[1]] # <<>>
  /\ queue' = [queue EXCEPT ![t[1]] = Tail(@)]

TakeOpen(t) ==
  /\ Take(t) /\ RoomOf[Head(queue[t[1]]).id] \notin Sealed
  /\ Process(t, Head(queue[t[1]]))
  /\ UNCHANGED <<owner, arrivals, connection, member, stopping>>

(* The room key may have to be fetched: the task awaits.                   *)
TakeSealed(t) ==
  /\ Take(t) /\ RoomOf[Head(queue[t[1]]).id] \in Sealed
  /\ task' = [task EXCEPT ![t] = "decrypting"]
  /\ item' = [item EXCEPT ![t] = <<Head(queue[t[1]])>>]
  /\ UNCHANGED <<owner, arrivals, connection, selfs, member, seen, emitted, entered,
                 stopping>>

Decrypted(t) ==
  /\ task[t] = "decrypting" /\ Process(t, item[t][1])
  /\ UNCHANGED <<queue, owner, arrivals, connection, member, stopping>>

(* No key, or the payload does not decrypt: nothing is recorded of it.     *)
Undecipherable(t) ==
  /\ task[t] = "decrypting" /\ Done(t)
  /\ UNCHANGED <<queue, owner, arrivals, connection, selfs, member, seen,
                 emitted, entered, stopping>>

(* on_message returns or raises: the worker goes on either way.            *)
Finish(t) ==
  /\ task[t] = "handling" /\ Done(t)
  /\ UNCHANGED <<queue, owner, arrivals, connection, selfs, member, seen,
                 emitted, entered, stopping>>

(* The queue is empty: the task awaits get(), and its idle timer runs.     *)
Wait(t) ==
  /\ task[t] = "ready" /\ queue[t[1]] = <<>>
  /\ task' = [task EXCEPT ![t] = "waiting"]
  /\ UNCHANGED <<queue, owner, item, arrivals, connection, selfs, member, seen,
                 emitted, entered, stopping>>

(* wait_for's timer fires, perhaps in the very iteration in which an item   *)
(* arrives: the item stays in the queue, the task ends.  The callback of a  *)
(* task that ended earlier has run long before.                            *)
Retire(t) ==
  /\ task[t] = "waiting" /\ world = "listen"
  /\ \A u \in Of(t[1]) : task[u] # "retired"
  /\ task' = [task EXCEPT ![t] = "retired"]
  /\ UNCHANGED <<queue, owner, item, arrivals, connection, selfs, member, seen,
                 emitted, entered, stopping>>

(* Mutated form: the entry goes whoever it is. *)
PopAlways(t) == [owner EXCEPT ![t[1]] = NoTask]

(* The dictionary entry goes only if it still is this task's.              *)
Pop(t) == [owner EXCEPT ![t[1]] = IF @ = t THEN NoTask ELSE @]

(* Mutated form: an item that slipped in is left. *)
CallbackWithoutRestart(t) ==
  /\ task[t] = "retired"
  /\ owner' = Pop(t) /\ task' = [task EXCEPT ![t] = "none"]
  /\ UNCHANGED <<queue, item, arrivals, connection, selfs, member, seen,
                 emitted, entered, stopping>>

(* _on_inbound_worker_done: an item that slipped in gets a new worker.     *)
Callback(t) ==
  /\ task[t] = "retired"
  /\ LET tasks == Pop(t)
         states == [task EXCEPT ![t] = "none"]
     IN  IF running /\ queue[t[1]] # <<>>
           THEN Ensure(t[1], tasks, states)
           ELSE owner' = tasks /\ task' = states
  /\ UNCHANGED <<queue, item, arrivals, connection, selfs, member, seen,
                 emitted, entered, stopping>>

----------------------------------------------------------------------------
(* Waiting for the echo of what was sent                                   *)

(* await_sent_message_echo: what is kept first, or a place in the line.     *)
AwaitEcho(s) ==
  /\ sender[s] = "wants"
  /\ LET r == RoomFor[s] IN
       IF recent[r] # <<>>
         THEN /\ recent' = [recent EXCEPT ![r] = Tail(@)]
              /\ echo' = [echo EXCEPT ![s] = Head(recent[r])]
              /\ sender' = [sender EXCEPT ![s] = "idle"]
              /\ UNCHANGED waiters
         ELSE /\ waiters' = [waiters EXCEPT ![r] = Append(@, s)]
              /\ sender' = [sender EXCEPT ![s] = "waiting"]
              /\ UNCHANGED <<recent, echo>>
  /\ UNCHANGED <<posted, connection, workers, member, seen, emitted, entered, stopping>>

Leave(line, s) == SelectSeq(line, LAMBDA u : u # s)

EchoTimeout(s) ==
  /\ sender[s] = "waiting"
  /\ waiters' = [r \in Rooms |-> Leave(waiters[r], s)]
  /\ sender' = [sender EXCEPT ![s] = "idle"]
  /\ UNCHANGED <<recent, posted, echo, connection, workers, member, seen,
                 emitted, entered, stopping>>

(* Kept echoes are forgotten after ten seconds.                            *)
Age(r) ==
  /\ recent[r] # <<>>
  /\ recent' = [recent EXCEPT ![r] = Tail(@)]
  /\ UNCHANGED <<waiters, sender, posted, echo, connection, workers, member,
                 seen, emitted, entered, stopping>>

----------------------------------------------------------------------------
(* stop(): also what the callback of an exhausted connection ends in        *)

Stop ==
  /\ stopping = "no" /\ world # "chat" /\ stopping' = "draining"
  /\ running' = FALSE /\ link' = "off"
  /\ UNCHANGED <<world, failures, listed, subscribed, notices, breaks, workers, selfs,
                 member, seen, emitted, entered>>

(* join() returns, or ten seconds pass.                                    *)
Drained ==
  /\ stopping = "draining" /\ stopping' = "cancelling"
  /\ UNCHANGED <<connection, workers, selfs, member, seen, emitted, entered>>

(* _stop_inbound_workers and the end of stop(): the registered tasks are    *)
(* cancelled wherever they await, what they held and what is queued is lost;  *)
(* whoever waits for an echo is cancelled too.                             *)
Finished ==
  /\ stopping = "cancelling" /\ stopping' = "stopped"
  /\ task' = [t \in Tasks |-> IF owner[t[1]] = t /\ task[t] \in Alive
                                THEN "none" ELSE task[t]]
  /\ item' = [t \in Tasks |-> IF owner[t[1]] = t THEN <<>> ELSE item[t]]
  /\ owner' = [b \in Buckets |-> NoTask]
  /\ queue' = [b \in Buckets |-> <<>>]
  /\ seen' = <<>>
  /\ recent' = [r \in Rooms |-> <<>>] /\ waiters' = [r \in Rooms |-> <<>>]
  /\ sender' = [s \in Senders |-> IF sender[s] = "waiting" THEN "cut"
                                                           ELSE sender[s]]
  /\ UNCHANGED <<arrivals, posted, echo, connection, member, emitted, entered>>

----------------------------------------------------------------------------
TaskStep(t) == \/ Wait(t) \/ TakeOpen(t) \/ TakeSealed(t) \/ Decrypted(t)
               \/ Undecipherable(t) \/ Finish(t)

ClientNext ==
  \/ Fetch \/ SubscribeRooms \/ SubscribeUserEvents \/ Break \/ Reconnect
  \/ \E r \in Rooms : Join(r) \/ Notified(r) \/ Age(r)
  \/ \E m \in Messages : Receive(m)
  \/ \E t \in Tasks : TaskStep(t) \/ Retire(t) \/ Callback(t)
  \/ \E s \in Senders : AwaitEcho(s) \/ EchoTimeout(s)
  \/ Stop \/ Drained \/ Finished

----------------------------------------------------------------------------
(* Properties                                                              *)

(* The messages of a room reach on_message in the order in which they       *)
(* arrived and one at a time, whatever worker serves the room at the time   *)
(* (_ensure_inbound_worker, _on_inbound_worker_done).                      *)
RoomOrder ==
  /\ \A i, j \in DOMAIN emitted :
       i < j /\ RoomOf[emitted[i].id] = RoomOf[emitted[j].id]
         => emitted[i].arrival < emitted[j].arrival
  /\ \A t, u \in Tasks :
       /\ task[t] = "handling" /\ task[u] = "handling"
       /\ RoomOf[item[t][1].id] = RoomOf[item[u][1].id]
       => t = u

(* A version of a message is emitted again only after another version of    *)
(* it, or because the signature cache has forgotten the message in between. *)
(* It forgets in the order in which ids entered: an id that enters for the  *)
(* second time was followed by as many other new ids as the cache holds,    *)
(* whatever was edited and repeated meanwhile                              *)
(* (_should_emit_inbound_message).                                         *)
NoRepeat ==
  /\ \A i, j \in DOMAIN emitted :
       /\ i < j /\ emitted[i].id = emitted[j].id
       /\ \A k \in i .. j : emitted[k].id = emitted[i].id
                             => emitted[k].version = emitted[i].version
       => \E k \in DOMAIN entered : entered[k] = emitted[j]
  /\ \A i, j \in DOMAIN entered :
       i < j /\ entered[i].id = entered[j].id =>
         Cardinality({entered[k].id : k \in i + 1 .. j - 1} \ {entered[i].id}) >= SeenMax

(* A message in a queue is not forgotten, also when the worker's idle timer *)
(* fires as it arrives: until the client stops there is a registered worker *)
(* for it, or a callback to come that starts one.  Once stop() has returned *)
(* no task of this client calls on_message any more: every live task was    *)
(* registered when the workers were cancelled (_ensure_inbound_worker,      *)
(* _on_inbound_worker_done, _stop_inbound_workers).                        *)
AcceptedAreServed ==
  /\ \A b \in Buckets :
       running /\ queue[b] # <<>> =>
         \E t \in Of(b) : (task[t] \in Alive /\ owner[b] = t) \/ task[t] = "retired"
  /\ stopping = "stopped" => \A t \in Tasks : task[t] \notin Alive

----------------------------------------------------------------------------
(* The invariants the properties rest on                                   *)

Versions == {m.version : m \in Messages} \cup {1}
Received == [id : Ids, version : Versions, arrival : Nat]
Signed   == [id : Ids, version : Versions]

TypeOK ==
  /\ world \in Worlds /\ running \in BOOLEAN
  /\ stopping \in {"no", "draining", "cancelling", "stopped"}
  /\ link \in {"connecting", "fetched", "subscribed", "listening", "sleeping",
               "exhausted", "off"}
  /\ failures \in Nat /\ breaks \in Nat /\ arrivals \in Nat
  /\ member \subseteq Rooms /\ listed \subseteq Rooms
  /\ subscribed \subseteq Rooms /\ notices \subseteq Rooms
  /\ queue \in [Buckets -> Seq(Received)]
  /\ owner \in [Buckets -> Tasks \cup {NoTask}]
  /\ task \in [Tasks -> Alive \cup {"none", "retired"}]
  /\ item \in [Tasks -> Seq(Received)]
  /\ seen \in Seq(Signed) /\ emitted \in Seq(Received) /\ entered \in Seq(Received)
  /\ recent \in [Rooms -> Seq(Ids)]
  /\ sender \in [Senders -> {"idle", "wants", "waiting", "cut"}]
  /\ echo \in [Senders -> Ids \cup {NoId}]

(* A live task is the registered one, and at most one task of a bucket has  *)
(* ended without its callback having run.                                  *)
OneWorker ==
  /\ \A b \in Buckets : owner[b] # NoTask => owner[b] \in Of(b)
  /\ \A t \in Tasks : task[t] \in Alive => owner[t[1]] = t
  /\ \A t, u \in Tasks :
       task[t] = "retired" /\ task[u] = "retired" /\ t[1] = u[1] => t = u

(* A client that gave up or stopped has no connection, and stays so.        *)
Ending == /\ running <=> link \notin {"exhausted", "off"}
          /\ stopping # "no" => link = "off"

(* What a task holds, and what is queued, belongs to the bucket.           *)
Holds(t) == task[t] \in {"decrypting", "handling"}

InBucket ==
  /\ \A t \in Tasks : Holds(t) => Len(item[t]) = 1 /\ BucketFor(item[t][1]) = t[1]
  /\ \A b \in Buckets : \A i \in DOMAIN queue[b] : BucketFor(queue[b][i]) = b

(* In each bucket: what was emitted, then what is being decrypted, then     *)
(* what is queued, in the order of arrival.                                *)
EmittedInTurn ==
  \A i, j \in DOMAIN emitted :
    i < j /\ BucketFor(emitted[i]) = BucketFor(emitted[j])
      => emitted[i].arrival < emitted[j].arrival

EmittedBefore(b, n) ==
  \A i \in DOMAIN emitted : BucketFor(emitted[i]) = b => emitted[i].arrival < n

QueuedAfter(b, n) == \A i \in DOMAIN queue[b] : n < queue[b][i].arrival

QueuedInTurn(b) ==
  /\ \A i, j \in DOMAIN queue[b] : i < j => queue[b][i].arrival < queue[b][j].arrival
  /\ \A i \in DOMAIN queue[b] : /\ queue[b][i].arrival <= arrivals
                                /\ EmittedBefore(b, queue[b][i].arrival)

HeldInTurn(t) ==
  task[t] = "decrypting" => /\ item[t][1].arrival <= arrivals
                            /\ EmittedBefore(t[1], item[t][1].arrival)
                            /\ QueuedAfter(t[1], item[t][1].arrival)

InTurn ==
  /\ \A i \in DOMAIN emitted : emitted[i].arrival <= arrivals
  /\ EmittedInTurn
  /\ \A b \in Buckets : QueuedInTurn(b)
  /\ \A t \in Tasks : HeldInTurn(t)

(* Until the client stops, the signature cache holds the ids that entered   *)
(* last, each once and in that order, as many as it can hold, and of each   *)
(* the version that was emitted last.                                      *)
OncePerId(cache) == \A i, j \in DOMAIN cache : cache[i].id = cache[j].id => i = j

LastEntered ==
  /\ Len(seen) <= Len(entered) /\ Len(seen) <= SeenMax
  /\ Len(seen) < SeenMax => Len(entered) = Len(seen)
  /\ \A i \in DOMAIN seen : seen[i].id = entered[Len(entered) - Len(seen) + i].id

Unchanged(i) ==
  \A k \in i .. Len(emitted) :
    emitted[k].id = emitted[i].id => emitted[k].version = emitted[i].version

LastVersions ==
  \A c \in DOMAIN seen, i \in DOMAIN emitted :
    emitted[i].id = seen[c].id /\ Unchanged(i) => emitted[i].version = seen[c].version

CacheIsCurrent ==
  world # "send" /\ stopping # "stopped" => OncePerId(seen) /\ LastEntered /\ LastVersions

(* The queues and workers are not at work in the senders' world.           *)
OnlyListening ==
  world = "send" => /\ \A b \in Buckets : queue[b] = <<>>
                    /\ \A t \in Tasks : ~Holds(t)

PipelineInv ==
  /\ TypeOK /\ OneWorker /\ Ending /\ InBucket /\ InTurn /\ OnlyListening
  /\ AcceptedAreServed /\ CacheIsCurrent /\ NoRepeat
=============================================================================
