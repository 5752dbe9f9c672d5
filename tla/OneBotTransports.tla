-------------------------- MODULE OneBotTransports --------------------------
(***************************************************************************)
(* The OneBot transports other than the websocket client (bridge/          *)
(* transports): the servers, with websocket peers, event streams (SSE) and *)
(* HTTP actions on one listener, and the HTTP client that posts events and *)
(* takes quick replies.  All of them hand actions to an action dispatcher, *)
(* of which only the queue matters here (OneBotSession has the rest), and  *)
(* have to stop in an order that leaves nobody waiting.                    *)
(*                                                                         *)
(* Events are numbered.  A peer's queue also holds answers to its actions  *)
(* and, on a websocket that takes events, the greeting and heartbeats:     *)
(* these are Other.                                                        *)
(***************************************************************************)
EXTENDS Integers, Sequences, FiniteSets, SequencesExt

CONSTANTS Peers,      \* connections that take events
          Acts,       \* actions
          Cap,        \* queue_capacity of a peer, or of the HTTP client
          ActCap,     \* capacity of the dispatcher's queue
          MaxEmitted, \* bound: events
          None

ASSUME TransportAssumption ==
    /\ Cap \in Nat \ {0} /\ ActCap \in Nat \ {0} /\ MaxEmitted \in Nat
    /\ None \notin Peers \cup Acts

Other == 0

VARIABLES
    kind,    \* "server" or "client"
    phase,   \* "up"; of stop(): "hub", "runner", "join", "drain"; "down"
    ev,      \* events emitted
    peer,    \* [st, sort, from, q, got, shut]: got are the events it was sent
    act,     \* [st, by, waits]: by a peer, an HTTP request or a quick reply
    aq,      \* the dispatcher's queue
    post     \* the HTTP client: [q, cur, sent]

transportVars == <<kind, phase, ev, peer, act, aq, post>>

NoPeer == [st |-> "off", sort |-> None, from |-> 0, q |-> <<>>, got |-> <<>>, shut |-> FALSE]

TransportInit ==
    /\ kind \in {"server", "client"}
    /\ phase = "up" /\ ev = 0
    /\ peer = [p \in Peers |-> NoPeer]
    /\ act = [a \in Acts |-> [st |-> "none", by |-> None, waits |-> FALSE]]
    /\ aq = <<>>
    /\ post = [q |-> <<>>, cur |-> None, sent |-> <<>>]

Serves == kind = "server" /\ phase \in {"up", "hub"}

(***************************************************************************)
(* Peers of a server.                                                      *)
(***************************************************************************)
(* A request is accepted: an upgrade to a websocket, with events or (path    *)
(* /api) without, or an event stream.                                        *)
Arrive(p, sort) ==
    /\ Serves
    /\ peer[p].st = "off"
    /\ peer' = [peer EXCEPT ![p] = [NoPeer EXCEPT !.st = "prepared", !.sort = sort]]
    /\ UNCHANGED <<kind, phase, ev, act, aq, post>>

(* The response is prepared and the peer listed; an event stream ends at     *)
(* once if the transport was stopped meanwhile, a websocket does not look    *)
(* and has a greeting to send.                                               *)
Join(p) ==
    /\ peer[p].st = "prepared"
    /\ peer' = [peer EXCEPT ![p].st = IF peer[p].sort = "sse" /\ phase # "up" THEN "gone" ELSE "on",
                            ![p].from = ev,
                            ![p].q = IF peer[p].sort = "ws" THEN <<Other>> ELSE <<>>]
    /\ UNCHANGED <<kind, phase, ev, act, aq, post>>

(* Mutated form: what does not fit is dropped, and that is all. *)
DropOnly(p, x) == IF peer[p].shut \/ Len(peer[p].q) >= Cap THEN peer[p]
                  ELSE [peer[p] EXCEPT !.q = Append(@, x)]

(* _enqueue and _schedule_slow_peer_close, put_nowait and close_event: a     *)
(* frame that does not fit is dropped and the peer closed before it is sent  *)
(* anything else.                                                            *)
Enqueued(p, x) ==
    CASE peer[p].shut -> peer[p]
      [] Len(peer[p].q) >= Cap -> [peer[p] EXCEPT !.shut = TRUE]
      [] OTHER -> [peer[p] EXCEPT !.q = Append(@, x)]

(* emit_event: to all event streams and all websockets that take events; the *)
(* HTTP client queues it, if it runs and there is room.                      *)
EmitEvent ==
    /\ ev < MaxEmitted
    /\ ev' = ev + 1
    /\ peer' = [p \in Peers |-> IF Serves /\ peer[p].st = "on" /\ peer[p].sort # "api"
                                THEN Enqueued(p, ev + 1) ELSE peer[p]]
    /\ post' = IF kind = "client" /\ phase = "up" /\ Len(post.q) < Cap
               THEN [post EXCEPT !.q = Append(@, ev + 1)] ELSE post
    /\ UNCHANGED <<kind, phase, act, aq>>

(* _heartbeat_loop: one more frame for every websocket that takes events.    *)
Heartbeat ==
    /\ \E p \in Peers : peer[p].st = "on" /\ peer[p].sort = "ws"
    /\ peer' = [p \in Peers |-> IF peer[p].st = "on" /\ peer[p].sort = "ws"
                                THEN Enqueued(p, Other) ELSE peer[p]]
    /\ UNCHANGED <<kind, phase, ev, act, aq, post>>

(* _sender_loop, and the loop of _handle_sse: a frame is sent.  The sender   *)
(* of a websocket that is to be closed may still be quicker than the close.  *)
Send(p) ==
    /\ peer[p].st = "on" /\ peer[p].q # <<>>
    /\ peer[p].sort = "sse" => ~peer[p].shut
    /\ LET x == Head(peer[p].q)
       IN peer' = [peer EXCEPT ![p].q = Tail(@), ![p].got = IF x = Other THEN @ ELSE Append(@, x)]
    /\ UNCHANGED <<kind, phase, ev, act, aq, post>>

(* The handler of the connection ends: the peer went, sending failed or      *)
(* timed out, or the peer was shut.  _remove_peer lets it go once.           *)
Leave(p) ==
    /\ peer[p].st = "on"
    /\ peer' = [peer EXCEPT ![p].st = "leaving", ![p].shut = TRUE]
    /\ UNCHANGED <<kind, phase, ev, act, aq, post>>

LeftNow(p) ==
    /\ peer[p].st \in {"leaving", "closing"}
    /\ peer' = [peer EXCEPT ![p].st = "gone"]
    /\ UNCHANGED <<kind, phase, ev, act, aq, post>>

(***************************************************************************)
(* Actions.                                                                *)
(***************************************************************************)
\* The answer to an action of a peer goes the way of the events.
AnswerTo(p) == [peer EXCEPT ![p] = IF peer[p].st = "on" THEN Enqueued(p, Other) ELSE @]

(* submit: queued, or answered at once that the queue is full. *)
Submit(a, by) ==
    IF Len(aq) < ActCap
    THEN /\ aq' = Append(aq, a)
         /\ act' = [act EXCEPT ![a] = [st |-> "queued", by |-> by, waits |-> by = "http"]]
         /\ UNCHANGED peer
    ELSE /\ act' = [act EXCEPT ![a] = [st |-> "busy", by |-> by, waits |-> FALSE]]
         /\ peer' = IF by \in Peers THEN AnswerTo(by) ELSE peer
         /\ UNCHANGED aq

(* _handle_message: an action on a websocket. *)
PeerAsks(p, a) ==
    /\ peer[p].st = "on" /\ peer[p].sort # "sse" /\ ~peer[p].shut
    /\ act[a].st = "none"
    /\ Submit(a, p)
    /\ UNCHANGED <<kind, phase, ev, post>>

(* handle_http_action: the handler awaits the answer (execute).  A request   *)
(* accepted before the listener was closed may be parsed after.              *)
HttpAsks(a) ==
    /\ Serves \/ (kind = "server" /\ phase = "runner")
    /\ act[a].st = "none"
    /\ Submit(a, "http")
    /\ UNCHANGED <<kind, phase, ev, post>>

(* A worker of the dispatcher takes an action. *)
Work(a) ==
    /\ phase # "down"
    /\ aq # <<>> /\ Head(aq) = a
    /\ aq' = Tail(aq)
    /\ act' = [act EXCEPT ![a].st = "running"]
    /\ UNCHANGED <<kind, phase, ev, peer, post>>

(* It is answered: done, failed or timed out. *)
ActionAnswered(a) ==
    /\ act[a].st = "running"
    /\ act' = [act EXCEPT ![a].st = "done", ![a].waits = FALSE]
    /\ peer' = IF act[a].by \in Peers THEN AnswerTo(act[a].by) ELSE peer
    /\ UNCHANGED <<kind, phase, ev, aq, post>>

(***************************************************************************)
(* The HTTP client.                                                        *)
(***************************************************************************)
Sending == kind = "client" /\ phase \in {"up", "join"}

(* _sender_loop takes an event. *)
TakeEvent ==
    /\ Sending /\ post.cur = None /\ post.q # <<>>
    /\ post' = [post EXCEPT !.q = Tail(@), !.cur = Head(post.q)]
    /\ UNCHANGED <<kind, phase, ev, peer, act, aq>>

\* The target has the event or not; it is not posted again.
Posted(got) ==
    post' = [post EXCEPT !.cur = None, !.sent = IF got THEN Append(@, post.cur) ELSE @]

(* _deliver: the answer may hold a reply, which is an action nobody waits    *)
(* for; or the post fails, with or without the target having the event.      *)
Deliver ==
    /\ Sending /\ post.cur # None
    /\ \/ Posted(TRUE) /\ UNCHANGED <<act, aq, peer>>
       \/ Posted(FALSE) /\ UNCHANGED <<act, aq, peer>>
       \/ \E a \in Acts : act[a].st = "none" /\ Posted(TRUE) /\ Submit(a, "quick")
    /\ UNCHANGED <<kind, phase, ev>>

(***************************************************************************)
(* stop().                                                                 *)
(***************************************************************************)
(* Mutated form: the dispatcher is stopped before the listener. *)
DispatcherFirst(ph) ==
    CASE ph = "hub" -> "drain" [] ph = "drain" -> "runner" [] ph = "runner" -> "down"
      [] ph = "join" -> "drain"

\* What is stopped after what.
Following(ph) ==
    CASE ph = "hub" -> "runner" [] ph = "runner" -> "drain" [] ph = "join" -> "drain"
      [] ph = "drain" -> "down"

(* Event streams are told to close and hub.stop() removes the websockets     *)
(* there are; the HTTP client takes no more events.                          *)
StopTransport ==
    /\ phase = "up"
    /\ phase' = IF kind = "server" THEN "hub" ELSE "join"
    /\ peer' = [p \in Peers |-> IF peer[p].st = "on" THEN [peer[p] EXCEPT !.shut = TRUE,
                                                  !.st = IF peer[p].sort = "sse" THEN "leaving" ELSE "closing"]
                                ELSE peer[p]]
    /\ UNCHANGED <<kind, ev, act, aq, post>>

(* hub.stop() has let them go.  One that came meanwhile stays. *)
HubStopped ==
    /\ phase = "hub" /\ \A p \in Peers : peer[p].st # "closing"
    /\ phase' = Following(phase)
    /\ UNCHANGED <<kind, ev, peer, act, aq, post>>

\* Handlers that the server waits for.
Handlers == {p \in Peers : peer[p].st \in {"prepared", "on", "leaving", "closing"}}
              \cup {a \in Acts : act[a].waits}

(* Mutated form: the server waits for its handlers as long as it takes. *)
WaitsForAll(late) ==
    /\ phase = "runner" /\ Handlers = {}
    /\ phase' = Following(phase)
    /\ UNCHANGED <<kind, ev, peer, act, aq, post>>

(* runner.stop(): the server waits for its handlers, for a minute at most,   *)
(* and cancels those that are left.                                          *)
RunnerStopped(late) ==
    /\ phase = "runner"
    /\ late \/ Handlers = {}
    /\ phase' = Following(phase)
    /\ peer' = [p \in Peers |-> IF p \in Handlers THEN [peer[p] EXCEPT !.st = "gone", !.shut = TRUE]
                                ELSE peer[p]]
    /\ act' = [a \in Acts |-> [act[a] EXCEPT !.waits = FALSE]]
    /\ UNCHANGED <<kind, ev, aq, post>>

(* The HTTP client waits until all events are posted, for ten seconds at     *)
(* most; then the sender is cancelled, in the middle of a post perhaps, and  *)
(* what is queued is discarded.                                              *)
JoinEnds(late) ==
    /\ phase = "join"
    /\ late \/ (post.q = <<>> /\ post.cur = None)
    /\ phase' = Following(phase)
    /\ \E got \in BOOLEAN :
          post' = [q |-> <<>>, cur |-> None,
                   sent |-> IF got /\ post.cur # None THEN Append(post.sent, post.cur) ELSE post.sent]
    /\ UNCHANGED <<kind, ev, peer, act, aq>>

(* dispatcher.stop(): it waits for the actions, for ten seconds at most; then*)
(* workers are cancelled and the queue is discarded.                         *)
DrainEnds(late) ==
    /\ phase = "drain"
    /\ late \/ (aq = <<>> /\ \A a \in Acts : act[a].st # "running")
    /\ phase' = Following(phase)
    /\ aq' = <<>>
    /\ act' = [a \in Acts |-> [act[a] EXCEPT !.st = IF @ \in {"queued", "running"} THEN "dropped" ELSE @]]
    /\ UNCHANGED <<kind, ev, peer, post>>

TransportNext ==
    \/ \E p \in Peers : \/ \E sort \in {"ws", "api", "sse"} : Arrive(p, sort)
                        \/ Join(p) \/ Send(p) \/ Leave(p) \/ LeftNow(p)
                        \/ \E a \in Acts : PeerAsks(p, a)
    \/ \E a \in Acts : HttpAsks(a) \/ Work(a) \/ ActionAnswered(a)
    \/ EmitEvent \/ Heartbeat \/ TakeEvent \/ Deliver
    \/ StopTransport \/ HubStopped
    \/ \E late \in BOOLEAN : RunnerStopped(late) \/ JoinEnds(late) \/ DrainEnds(late)

TransportSpec == TransportInit /\ [][TransportNext]_transportVars

(* Workers, the sender and the handlers that end run on; every wait of       *)
(* stop() has a timeout.                                                     *)
TransportFairSpec ==
    /\ TransportSpec
    /\ \A a \in Acts : WF_transportVars(Work(a)) /\ WF_transportVars(ActionAnswered(a))
    /\ \A p \in Peers : /\ WF_transportVars(Join(p)) /\ WF_transportVars(LeftNow(p))
                        /\ WF_transportVars(peer[p].shut /\ Leave(p))
    /\ WF_transportVars(TakeEvent) /\ WF_transportVars(Deliver)
    /\ WF_transportVars(HubStopped) /\ WF_transportVars(RunnerStopped(TRUE)) /\ WF_transportVars(JoinEnds(TRUE))
    /\ WF_transportVars(DrainEnds(TRUE))
-----------------------------------------------------------------------------
(* No HTTP request waits for an action that was thrown away; when stop() is  *)
(* over no connection and no action is left.                                 *)
NobodyStranded ==
    /\ \A a \in Acts : act[a].waits => act[a].st \in {"queued", "running"}
    /\ phase = "down" =>
          /\ Handlers = {}
          /\ \A a \in Acts : act[a].st \notin {"queued", "running"}

(* stop() ends, with peers that come in the middle of it too.  And an action *)
(* that was accepted is answered or, when the transport is stopped, dropped; *)
(* its HTTP request ends.                                                    *)
EveryStopEnds ==
    /\ phase # "up" ~> phase = "down"
    /\ \A a \in Acts : act[a].st = "queued" ~> act[a].st \in {"done", "dropped"} /\ ~act[a].waits

\* The events in a queue, and the last event that a peer was sent
In(s) == {s[i] : i \in DOMAIN s} \ {Other}
Reached(r) == r.from + Len(r.got)

\* The events sent to a peer are the ones after it joined; those in its queue
\* follow, in order, and none is missing before the last of them.
InARow(r) ==
    /\ \A i \in DOMAIN r.got : r.got[i] = r.from + i
    /\ \A i, j \in DOMAIN r.q : i < j /\ r.q[i] # Other /\ r.q[j] # Other => r.q[i] < r.q[j]
    /\ \A n \in In(r.q) : /\ Reached(r) < n
                          /\ \A m \in 1 .. n - 1 : Reached(r) < m => m \in In(r.q)

(* A peer gets every event from the moment it joined, in order and without a *)
(* gap, until it is closed: slow peers are cut off, never served a stream    *)
(* with holes.  Events wait in its queue in the same order.  And the HTTP    *)
(* client posts an event at most once and in the order of emission, whatever *)
(* posts fail and whenever it is stopped.                                    *)
NoGap ==
    /\ \A p \in Peers : InARow(peer[p])
    /\ \A i, j \in 1..Len(post.sent) : i < j => post.sent[i] < post.sent[j]

-----------------------------------------------------------------------------
(* The inductive invariant (OneBotSession_proofs).                           *)

Peer == [st : {"off", "prepared", "on", "leaving", "closing", "gone"},
         sort : {"ws", "api", "sse", None}, from : Nat, q : Seq(Nat), got : Seq(Nat),
         shut : BOOLEAN]

TransportTypeOK ==
    /\ kind \in {"server", "client"} /\ ev \in Nat
    /\ phase \in {"up", "hub", "runner", "join", "drain", "down"}
    /\ peer \in [Peers -> Peer]
    /\ act \in [Acts -> [st : {"none", "queued", "busy", "running", "done", "dropped"},
                         by : Peers \cup {"http", "quick", None}, waits : BOOLEAN]]
    /\ aq \in Seq(Acts)
    /\ post \in [q : Seq(Nat), cur : Nat \cup {None}, sent : Seq(Nat)]

(* What is left of peers and of requests at each stage of stop().            *)
Stages ==
    /\ phase \in {"hub", "runner"} => kind = "server"
    /\ phase = "join" => kind = "client"
    /\ kind = "client" \/ phase \in {"drain", "down"} =>
          /\ \A p \in Peers : peer[p].st \in {"off", "gone"}
          /\ \A a \in Acts : ~act[a].waits
    /\ \A a \in Acts : act[a].waits => act[a].st \in {"queued", "running"}
    /\ phase = "down" => \A a \in Acts : act[a].st \notin {"queued", "running"}

(* What a peer was sent has no gap, and its queue goes on where that ends,   *)
(* in order and without a gap.                                               *)
Unbroken(r, now) ==
    /\ \A i \in DOMAIN r.got : r.got[i] = r.from + i
    /\ \A i, j \in DOMAIN r.q : i < j /\ r.q[i] # Other /\ r.q[j] # Other => r.q[i] < r.q[j]
    /\ \A n \in In(r.q) : Reached(r) < n /\ n <= now
    /\ \A n \in In(r.q), m \in 1 .. now : Reached(r) < m /\ m < n => m \in In(r.q)
    /\ Reached(r) <= now
    /\ r.st = "prepared" => r.got = <<>>

(* As long as a peer is served, nothing that was emitted is missing.         *)
UpToDate(r, now) ==
    r.st = "on" /\ r.sort # "api" /\ ~r.shut =>
        \A m \in 1 .. now : Reached(r) < m => m \in In(r.q)

Streams == \A p \in Peers : Unbroken(peer[p], ev) /\ (Serves => UpToDate(peer[p], ev))

(* The events that the HTTP client posted, posts and will post are in order. *)
PostsInOrder ==
    /\ \A i, j \in DOMAIN post.sent : i < j => post.sent[i] < post.sent[j]
    /\ \A i, j \in DOMAIN post.q : i < j => post.q[i] < post.q[j]
    /\ \A i \in DOMAIN post.sent, j \in DOMAIN post.q : post.sent[i] < post.q[j]
    /\ post.cur # None => /\ \A i \in DOMAIN post.sent : post.sent[i] < post.cur
                          /\ \A j \in DOMAIN post.q : post.cur < post.q[j]
                          /\ post.cur <= ev
    /\ \A i \in DOMAIN post.sent : post.sent[i] <= ev
    /\ \A j \in DOMAIN post.q : post.q[j] <= ev

TransportInv == TransportTypeOK /\ Stages /\ Streams /\ PostsInOrder
=============================================================================
