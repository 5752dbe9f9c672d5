---------------------------- MODULE OneBotSession ----------------------------
(***************************************************************************)
(* The OneBot side of a runtime: WebsocketClientTransport and the           *)
(* OneBotActionDispatcher of rocketcat_shell/bridge/transports, from        *)
(* start() to the end of stop().  The peer connects, asks for actions and   *)
(* goes away; the bot pushes events.  A session is one connection; requests *)
(* and events are numbered in the order in which they come.                *)
(*                                                                          *)
(* Everything runs on one event loop: an action is what a task does between *)
(* two points at which it awaits.  The lifecycle and heartbeat events and   *)
(* the answers to malformed JSON are left out.                              *)
(***************************************************************************)
EXTENDS Integers, Sequences, FiniteSets
LOCAL INSTANCE SequencesExt

CONSTANTS
  Targets,       (* values of _target_key                                    *)
  WorkerMax,     (* ACTION_WORKER_COUNT                                      *)
  QueueMax,      (* ACTION_QUEUE_CAPACITY                                    *)
  MaxRequests,   (* bound: requests of the peer in a behaviour               *)
  SameTarget,    (* bound: how many of them, the first ones, are all for one *)
                 (* target; 0 leaves the targets open                        *)
  MaxEvents,     (* bound: events accepted in a behaviour                    *)
  MaxSessions    (* bound: connections in a behaviour                        *)

ASSUME SessionAssumption ==
  /\ WorkerMax \in Nat \ {0} /\ QueueMax \in Nat \ {0}
  /\ MaxRequests \in Nat /\ SameTarget \in Nat /\ MaxEvents \in Nat /\ MaxSessions \in Nat

Workers  == 1 .. WorkerMax
Requests == 1 .. MaxRequests
Nobody   == 0
Sender   == -1
Listener == -2

VARIABLES
  session,   (* how many connections there were; the last one is _ws         *)
  link,      (* _ws: open, closed but not left yet, or None                  *)
  outgoing,  (* _outgoing: the events, each with the session it came in      *)
  sender,    (* _sender_loop                                                 *)
  holder,    (* who holds _send_lock: Nobody, Sender, Listener or a worker   *)
  events,    (* how many events were accepted                                *)
  pushed,    (* history: events handed to a connection, with its session     *)
  asked,     (* the requests so far: their target and session                *)
  queue,     (* the dispatcher's queue                                       *)
  worker,    (* what each worker does, until its done-callback has run       *)
  request,   (* the request a worker has taken                               *)
  lock,      (* _target_locks: the lock of a target, named by the request     *)
             (* that created it, or Nobody                                   *)
  users,     (* _target_lock_users                                           *)
  line,      (* the workers that hold or await a lock, in order              *)
  begun,     (* history: the requests whose handler was called, in order     *)
  answered,  (* history: answers handed to a connection, with its session    *)
  refusing,  (* the request that _listen_loop is about to refuse, or 0       *)
  stopping   (* where stop() stands                                          *)

connection == <<session, link, sender, outgoing, events, pushed>>
pool       == <<queue, worker, request, lock, users, line, begun>>
vars == <<connection, holder, pool, asked, refusing, answered, stopping>>

(* _running of the dispatcher *)
running == stopping \in {"no", "link"}

Busy == {"lining", "handling", "answering", "sending"}

Init ==
  /\ session = 0 /\ link = "none" /\ sender = "none" /\ holder = Nobody
  /\ outgoing = <<>> /\ events = 0 /\ pushed = <<>>
  /\ asked = <<>> /\ queue = <<>> /\ begun = <<>> /\ answered = {}
  /\ worker = [w \in Workers |-> "none"]
  /\ request = [w \in Workers |-> 0]
  /\ lock = [t \in Targets |-> Nobody]
  /\ users = [t \in Targets |-> 0]
  /\ line = [l \in Requests |-> <<>>]
  /\ refusing = 0 /\ stopping = "no"

----------------------------------------------------------------------------
(* The connection                                                          *)

(* ws_connect succeeds and the lifecycle event is sent.                    *)
Connect ==
  /\ stopping = "no" /\ link = "none" /\ session < MaxSessions
  /\ session' = session + 1 /\ link' = "open" /\ sender' = "waiting"
  /\ UNCHANGED <<outgoing, events, pushed, holder, pool, asked, refusing, answered, stopping>>

(* The connection is closed or lost, seen by the end of _listen_loop.       *)
Disconnect ==
  /\ link = "open" /\ link' = "closed"
  /\ UNCHANGED <<session, sender, outgoing, events, pushed, holder, pool, asked, refusing,
                 answered, stopping>>

Kept == UNCHANGED outgoing

(* _discard_queued_events                                                  *)
Discarded == outgoing' = <<>>

(* async with _send_lock, left by the tasks of the connection              *)
LetGo == holder' = IF holder \in {Sender, Listener} THEN Nobody ELSE holder

(* The finally of _run_forever, after the refusal has failed that the       *)
(* listener may have been about to give: _ws is None, the sender is         *)
(* cancelled, and what it has not sent is dropped.                         *)
Unwind ==
  /\ link = "closed"
  /\ link' = "none" /\ sender' = "none" /\ refusing' = 0 /\ Discarded /\ LetGo
  /\ UNCHANGED <<session, events, pushed, pool, asked, answered, stopping>>

(* emit_event puts an event into the queue; it may drop it instead, when    *)
(* there is no connection or the queue is full.                            *)
Emit ==
  /\ stopping = "no" /\ link = "open" /\ events < MaxEvents
  /\ events' = events + 1
  /\ outgoing' = Append(outgoing, [id |-> events + 1, session |-> session])
  /\ UNCHANGED <<session, link, sender, pushed, holder, pool, asked, refusing, answered,
                 stopping>>

(* _sender_loop takes an event and gets the send lock.                     *)
Push ==
  /\ sender = "waiting" /\ outgoing # <<>> /\ link = "open" /\ holder = Nobody
  /\ sender' = "sending" /\ holder' = Sender
  /\ outgoing' = Tail(outgoing)
  /\ pushed' = Append(pushed, [event |-> Head(outgoing), to |-> session])
  /\ UNCHANGED <<session, link, events, pool, asked, refusing, answered, stopping>>

(* send_str returns, or it fails: the sender closes the connection and ends. *)
Pushed ==
  /\ sender = "sending" /\ holder' = Nobody
  /\ \/ sender' = "waiting" /\ UNCHANGED link
     \/ sender' = "none" /\ link' = IF link = "open" THEN "closed" ELSE link
  /\ UNCHANGED <<session, outgoing, events, pushed, pool, asked, refusing, answered, stopping>>

----------------------------------------------------------------------------
(* The dispatcher                                                          *)

On(t) == {w \in Workers : worker[w] \in Busy /\ asked[request[w]].target = t}

Active == {w \in Workers : worker[w] \in Busy}

(* How many workers _ensure_workers wants for q waiting requests.          *)
Desired(q) ==
  LET n == q + Cardinality(Active)
      m == IF n < 1 THEN 1 ELSE n
  IN  IF m < WorkerMax THEN m ELSE WorkerMax

(* The workers it creates when others of the set of workers are absent.     *)
Hired(absent, q) ==
  LET missing == Desired(q) - (WorkerMax - Cardinality(absent))
  IN  {w \in absent : Cardinality({v \in absent : v < w}) < missing}

Idle == {w \in Workers : worker[w] = "none"}

(* _listen_loop: submit() of an action, unless the queue is full.          *)
Ask(t) ==
  /\ link = "open" /\ stopping = "no" /\ refusing = 0 /\ Len(asked) < MaxRequests
  /\ Len(asked) < SameTarget => t = CHOOSE u \in Targets : TRUE
  /\ asked' = Append(asked, [target |-> t, session |-> session])
  /\ LET r == Len(asked) + 1 IN
       IF Len(queue) < QueueMax
         THEN /\ queue' = Append(queue, r)
              /\ worker' = [w \in Workers |-> IF w \in Hired(Idle, Len(queue) + 1)
                                                THEN "ready" ELSE worker[w]]
              /\ UNCHANGED refusing
         ELSE refusing' = r /\ UNCHANGED <<queue, worker>>
  /\ UNCHANGED <<connection, holder, request, lock, users, line, begun, answered, stopping>>

(* The listener reads on only when it has answered that the queue is full.  *)
Refuse ==
  /\ refusing # 0 /\ link = "open" /\ holder = Nobody /\ holder' = Listener
  /\ answered' = answered \cup {[request |-> refusing, to |-> session]}
  /\ UNCHANGED <<connection, pool, asked, refusing, stopping>>

(* send_str returns, or it fails and closes the connection.                *)
Refused ==
  /\ holder = Listener /\ holder' = Nobody /\ refusing' = 0
  /\ \/ UNCHANGED link
     \/ link = "open" /\ link' = "closed"
  /\ UNCHANGED <<session, sender, outgoing, events, pushed, pool, asked, answered, stopping>>

(* queue.get() finds nothing and waits.                                    *)
Wait(w) ==
  /\ worker[w] = "ready" /\ queue = <<>>
  /\ worker' = [worker EXCEPT ![w] = "waiting"]
  /\ UNCHANGED <<queue, request, lock, users, line, begun, connection, holder, asked,
                 refusing, answered, stopping>>

(* The idle timer fires, perhaps in the iteration in which a request comes. *)
Retire(w) ==
  /\ worker[w] = "waiting"
  /\ worker' = [worker EXCEPT ![w] = "done"]
  /\ UNCHANGED <<queue, request, lock, users, line, begun, connection, holder, asked,
                 refusing, answered, stopping>>

CallbackAlone(w) ==
  /\ worker[w] = "done"
  /\ worker' = [worker EXCEPT ![w] = "none"]
  /\ UNCHANGED <<queue, request, lock, users, line, begun, connection, holder, asked,
                 refusing, answered, stopping>>

(* _on_worker_done: requests that came too late for w get another worker.   *)
Callback(w) ==
  /\ worker[w] = "done"
  /\ LET hired == IF running /\ queue # <<>> THEN Hired(Idle \cup {w}, Len(queue)) ELSE {}
     IN  worker' = [v \in Workers |-> IF v \in hired THEN "ready"
                                      ELSE IF v = w THEN "none" ELSE worker[v]]
  /\ UNCHANGED <<queue, request, lock, users, line, begun, connection, holder, asked,
                 refusing, answered, stopping>>

(* A request is taken and gets into the line of its target's lock, which is *)
(* created if the target has none.                                         *)
Take(w) ==
  /\ worker[w] \in {"ready", "waiting"} /\ queue # <<>>
  /\ LET r == Head(queue)
         t == asked[r].target
         l == IF lock[t] = Nobody THEN r ELSE lock[t]
     IN  /\ queue' = Tail(queue)
         /\ request' = [request EXCEPT ![w] = r]
         /\ lock' = [lock EXCEPT ![t] = l]
         /\ users' = [users EXCEPT ![t] = @ + 1]
         /\ line' = [line EXCEPT ![l] = Append(@, w)]
         /\ worker' = [worker EXCEPT ![w] = IF line[l] = <<>> THEN "handling" ELSE "lining"]
         /\ begun' = IF line[l] = <<>> THEN Append(begun, r) ELSE begun
  /\ UNCHANGED <<connection, holder, asked, refusing, answered, stopping>>

(* The handler returns, raises, or is cancelled by its timeout.            *)
Handled(w) ==
  /\ worker[w] = "handling"
  /\ worker' = [worker EXCEPT ![w] = "answering"]
  /\ UNCHANGED <<queue, request, lock, users, line, begun, connection, holder, asked,
                 refusing, answered, stopping>>

LockOf(w) == CHOOSE l \in Requests : \E i \in DOMAIN line[l] : line[l][i] = w

EveryoneIsLast(n) == TRUE

IsLast(n) == n = 1

(* The lock is released to the next in line, the last of its users takes it *)
(* out of the table, and w turns to the queue.                             *)
Release(w) ==
  LET r == request[w]
      t == asked[r].target
      l == LockOf(w)
      rest == Tail(line[l])
  IN  /\ line' = [line EXCEPT ![l] = rest]
      /\ users' = [users EXCEPT ![t] = IF IsLast(@) THEN 0 ELSE @ - 1]
      /\ lock' = [lock EXCEPT ![t] = IF IsLast(users[t]) THEN Nobody ELSE @]
      /\ request' = [request EXCEPT ![w] = 0]
      /\ worker' = [v \in Workers |-> IF v = w THEN "ready"
                                      ELSE IF rest # <<>> /\ v = Head(rest) THEN "handling"
                                      ELSE worker[v]]
      /\ begun' = IF rest = <<>> THEN begun ELSE Append(begun, request[Head(rest)])
      /\ UNCHANGED queue

(* respond() is a closure over the connection that asked.                  *)
Addressee(r) == asked[r].session

(* respond() does nothing when that connection is gone.                    *)
Unheard(w) ==
  /\ worker[w] = "answering" /\ (link # "open" \/ Addressee(request[w]) # session)
  /\ Release(w)
  /\ UNCHANGED <<connection, holder, asked, refusing, answered, stopping>>

(* It gets the send lock, and the connection is still the same.            *)
Answer(w) ==
  /\ worker[w] = "answering" /\ link = "open" /\ Addressee(request[w]) = session
  /\ holder = Nobody /\ holder' = w
  /\ answered' = answered \cup {[request |-> request[w], to |-> session]}
  /\ worker' = [worker EXCEPT ![w] = "sending"]
  /\ UNCHANGED <<connection, queue, request, lock, users, line, begun, asked, refusing,
                 stopping>>

(* send_str returns, or it fails and closes the connection if that is still *)
(* the one that asked.                                                     *)
Answered(w) ==
  /\ worker[w] = "sending" /\ holder' = Nobody
  /\ \/ UNCHANGED link
     \/ link = "open" /\ Addressee(request[w]) = session /\ link' = "closed"
  /\ Release(w)
  /\ UNCHANGED <<session, sender, outgoing, events, pushed, asked, refusing, answered,
                 stopping>>

----------------------------------------------------------------------------
(* stop()                                                                  *)

(* The transport's tasks are cancelled, which closes the connection.       *)
Stop ==
  /\ stopping = "no" /\ stopping' = "link"
  /\ link' = IF link = "open" THEN "closed" ELSE link
  /\ UNCHANGED <<session, sender, outgoing, events, pushed, holder, pool, asked, refusing,
                 answered>>

(* The dispatcher's stop() waits for the queue to be done.                 *)
StopDispatcher ==
  /\ stopping = "link" /\ link = "none"
  /\ stopping' = "drain"
  /\ UNCHANGED <<connection, holder, pool, asked, refusing, answered>>

AllDone == queue = <<>> /\ Active = {}

(* join() has returned or the drain timeout has passed.                    *)
Drained == TRUE

(* The workers are cancelled and the queue is emptied.                     *)
StopWorkers ==
  /\ stopping = "drain" /\ Drained
  /\ stopping' = "stopped"
  /\ queue' = <<>>
  /\ worker' = [w \in Workers |-> "none"]
  /\ request' = [w \in Workers |-> 0]
  /\ lock' = [t \in Targets |-> Nobody]
  /\ users' = [t \in Targets |-> 0]
  /\ line' = [l \in Requests |-> <<>>]
  /\ holder' = Nobody
  /\ UNCHANGED <<connection, begun, asked, refusing, answered>>

----------------------------------------------------------------------------
Worker(w) ==
  \/ Wait(w) \/ Take(w) \/ Handled(w) \/ Unheard(w) \/ Answer(w) \/ Answered(w)
  \/ Callback(w)

Next ==
  \/ Connect \/ Disconnect \/ Unwind
  \/ Emit \/ Push \/ Pushed
  \/ (\E t \in Targets : Ask(t)) \/ Refuse \/ Refused
  \/ \E w \in Workers : Worker(w) \/ Retire(w)
  \/ Stop \/ StopDispatcher \/ StopWorkers

Spec == Init /\ [][Next]_vars

(* Tasks that can go on do; handlers and sends end within their timeouts,   *)
(* and the send lock is granted in order.  Nothing is assumed of the peer,  *)
(* of the idle timer, or of who calls stop().                              *)
FairSpec ==
  /\ Spec
  /\ WF_vars(Unwind) /\ WF_vars(Pushed) /\ SF_vars(Refuse) /\ WF_vars(Refused)
  /\ WF_vars(StopDispatcher) /\ WF_vars(StopWorkers)
  /\ \A w \in Workers : WF_vars(Worker(w)) /\ SF_vars(Answer(w))

----------------------------------------------------------------------------
(* Properties                                                              *)

Event == [id : Nat, session : Nat]

(* The types of the variables of connection, dispatcher and stop().         *)
TypeOK ==
  /\ session \in Nat /\ events \in Nat
  /\ link \in {"none", "open", "closed"} /\ sender \in {"none", "waiting", "sending"}
  /\ outgoing \in Seq(Event) /\ pushed \in Seq([event : Event, to : Nat])
  /\ holder \in {Nobody, Sender, Listener} \cup Workers
  /\ asked \in Seq([target : Targets, session : Nat]) /\ Len(asked) <= MaxRequests
  /\ queue \in Seq(Requests) /\ begun \in Seq(Requests)
  /\ worker \in [Workers -> {"none", "ready", "waiting", "done"} \cup Busy]
  /\ request \in [Workers -> 0 .. MaxRequests]
  /\ lock \in [Targets -> {Nobody} \cup Requests] /\ users \in [Targets -> Int]
  /\ line \in [Requests -> Seq(Workers)]
  /\ answered \subseteq [request : Requests, to : Nat]
  /\ refusing \in 0 .. MaxRequests
  /\ stopping \in {"no", "link", "drain", "stopped"}

OneAtATime ==
  \A t \in Targets : Cardinality({w \in On(t) : worker[w] # "lining"}) <= 1

BegunInOrder ==
  \A i, j \in DOMAIN begun :
    i < j /\ asked[begun[i]].target = asked[begun[j]].target => begun[i] < begun[j]

(* One handler at a time works for a target, and handlers are called for it *)
(* in the order in which its requests came, whatever worker takes them and  *)
(* whenever its lock is dropped and created again (_handle_request).       *)
TargetInOrder == OneAtATime /\ BegunInOrder

(* Answers and events stay with their connection.  An answer is given only  *)
(* to the connection that asked, not to the one after it, and only once     *)
(* (respond() of _listen_loop); events are pushed in order, and only to the *)
(* connection during which they came (_discard_queued_events).             *)
ConnectionsAreApart ==
  /\ \A a \in answered : a.to = asked[a.request].session
  /\ \A a, b \in answered : a.request = b.request => a = b
  /\ \A i \in DOMAIN pushed : pushed[i].to = pushed[i].event.session
  /\ \A i, j \in DOMAIN pushed : i < j => pushed[i].event.id < pushed[j].event.id

(* A request of the connection that is open, and no answer to it            *)
Awaited(r) ==
  /\ r \in DOMAIN asked /\ asked[r].session = session
  /\ link = "open" /\ stopping = "no"
  /\ \A a \in answered : a.request # r

(* A peer that stays is answered, although idle workers retire while its    *)
(* request is put into the queue and workers are still busy for a           *)
(* connection that is gone (_on_worker_done, _ensure_workers).             *)
AskersAreAnswered == \A r \in Requests : Awaited(r) ~> ~ Awaited(r)

(* stop() comes to an end, although the last worker may have retired and    *)
(* left a request behind that nobody will take (OneBotActionDispatcher.stop). *)
StopEnds == stopping # "no" ~> stopping = "stopped"

----------------------------------------------------------------------------
(* The inductive invariant behind ConnectionsAreApart (OneBotSession_proofs) *)

(* The lock is held by whoever is sending.                                  *)
Held ==
  /\ holder = Sender <=> sender = "sending"
  /\ holder = Listener => refusing # 0
  /\ \A w \in Workers : holder = w <=> worker[w] = "sending"

(* Nothing of a connection is left when there is none.                      *)
Links ==
  /\ link = "none" => sender = "none" /\ outgoing = <<>> /\ refusing = 0
  /\ stopping \in {"drain", "stopped"} => link = "none"

(* The busy workers are those in the lines; the first of a line works.      *)
Lines ==
  /\ \A w \in Workers : worker[w] \in Busy =>
       \E l \in Requests : \E i \in DOMAIN line[l] : line[l][i] = w
  /\ \A l \in Requests : \A i \in DOMAIN line[l] :
       /\ worker[line[l][i]] \in Busy
       /\ i = 1 <=> worker[line[l][i]] # "lining"
  /\ \A l, k \in Requests : \A i \in DOMAIN line[l], j \in DOMAIN line[k] :
       line[l][i] = line[k][j] => l = k /\ i = j

(* A request is in one place only: in the queue, at a worker, or refused.   *)
Places ==
  /\ \A i \in DOMAIN queue : queue[i] <= Len(asked)
  /\ \A i, j \in DOMAIN queue : queue[i] = queue[j] => i = j
  /\ \A w \in Workers : worker[w] \in Busy =>
       /\ request[w] \in 1 .. Len(asked)
       /\ \A i \in DOMAIN queue : queue[i] # request[w]
       /\ \A v \in Workers : worker[v] \in Busy /\ request[v] = request[w] => v = w
  /\ refusing # 0 =>
       /\ refusing <= Len(asked) /\ asked[refusing].session = session
       /\ \A i \in DOMAIN queue : queue[i] # refusing
       /\ \A w \in Workers : worker[w] \in Busy => request[w] # refusing

(* And it has been answered only where the answer is being sent.            *)
Unanswered ==
  \A a \in answered :
    /\ a.request <= Len(asked)
    /\ \A i \in DOMAIN queue : queue[i] # a.request
    /\ \A w \in Workers : worker[w] \in Busy /\ worker[w] # "sending" => request[w] # a.request
    /\ refusing # 0 /\ holder # Listener => refusing # a.request

(* Events wait in the order of their numbers, and behind what was pushed.   *)
InTurn ==
  /\ \A i \in DOMAIN outgoing : outgoing[i].session = session /\ outgoing[i].id <= events
  /\ \A i, j \in DOMAIN outgoing : i < j => outgoing[i].id < outgoing[j].id
  /\ \A i \in DOMAIN pushed : pushed[i].event.id <= events
  /\ \A i \in DOMAIN pushed, j \in DOMAIN outgoing : pushed[i].event.id < outgoing[j].id

IInv == /\ TypeOK /\ Held /\ Links /\ Lines /\ Places /\ Unanswered /\ InTurn
        /\ ConnectionsAreApart

----------------------------------------------------------------------------
(* The inductive invariant behind TargetInOrder                             *)

(* The lock of a target is named by a request for it, and is in the table   *)
(* as long as somebody is in its line; all of those work for the target.    *)
Locks ==
  /\ \A l \in Requests : line[l] # <<>> =>
       /\ l <= Len(asked) /\ lock[asked[l].target] = l
       /\ \A i \in DOMAIN line[l] : asked[request[line[l][i]]].target = asked[l].target
  /\ \A t \in Targets :
       \/ lock[t] = Nobody /\ users[t] = 0
       \/ /\ lock[t] \in 1 .. Len(asked) /\ asked[lock[t]].target = t
          /\ line[lock[t]] # <<>> /\ users[t] = Len(line[lock[t]])

(* Requests are taken in the order in which they came, so that those in the *)
(* queue come after those in the lines; in a line they stand in that order  *)
(* too, behind those of the target that were begun.                        *)
Turns ==
  /\ \A b \in DOMAIN begun : begun[b] <= Len(asked)
  /\ \A i, j \in DOMAIN queue : i < j => queue[i] < queue[j]
  /\ \A i \in DOMAIN queue, b \in DOMAIN begun : begun[b] < queue[i]
  /\ \A l \in Requests : \A i \in DOMAIN line[l] :
       /\ \A k \in DOMAIN queue : request[line[l][i]] < queue[k]
       /\ \A j \in DOMAIN line[l] : i < j => request[line[l][i]] < request[line[l][j]]
       /\ \A b \in DOMAIN begun :
            i # 1 /\ asked[begun[b]].target = asked[l].target => begun[b] < request[line[l][i]]

OrderInv == Locks /\ Turns /\ BegunInOrder
=============================================================================
