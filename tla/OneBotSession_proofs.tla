------------------------- MODULE OneBotSession_proofs -------------------------
(***************************************************************************)
(* Proofs about OneBotSession, for any number of targets, workers,          *)
(* requests, events and connections.  The inductive invariant IInv says     *)
(* where each request is, who stands in which line, and what is left of a   *)
(* connection that is gone; ConnectionsAreApart follows.  A second part is   *)
(* about OneBotTransports.                                                  *)
(***************************************************************************)
EXTENDS OneBotSession, OneBotTransports, FiniteSetTheorems, TLAPS

(* An element of a sequence over S is in S.                                 *)
LEMMA ElementOfSeq == ASSUME NEW S, NEW s \in Seq(S), NEW i \in DOMAIN s PROVE s[i] \in S
OBVIOUS

(* What is in a sequence after an element is put at its end.                *)
LEMMA Appended ==
  ASSUME NEW S, NEW s \in Seq(S), NEW e \in S
  PROVE  /\ Append(s, e) \in Seq(S) /\ Len(Append(s, e)) = Len(s) + 1
         /\ DOMAIN Append(s, e) = DOMAIN s \cup {Len(s) + 1}
         /\ \A i \in DOMAIN s : Append(s, e)[i] = s[i] /\ i \in Nat \ {0} /\ i < Len(s) + 1
         /\ Append(s, e)[Len(s) + 1] = e
OBVIOUS

(* What a step of the pool leaves alone when only workers change.           *)
others == <<queue, request, lock, users, line, begun, connection, holder, asked,
            refusing, answered, stopping>>

(* A step that only moves workers, between states that are alike to         *)
(* everybody else, keeps the invariant: Wait, Retire, Callback, Handled.    *)
LEMMA Moves ==
  ASSUME IInv, UNCHANGED others,
         worker' \in [Workers -> {"none", "ready", "waiting", "done"} \cup Busy],
         \A v \in Workers : /\ worker'[v] \in Busy <=> worker[v] \in Busy
                            /\ worker'[v] = "lining" <=> worker[v] = "lining"
                            /\ worker'[v] = "sending" <=> worker[v] = "sending"
  PROVE  IInv'
<1>1. TypeOK'
  BY DEF IInv, TypeOK, others, connection
<1>2. Held' /\ Links'
  BY DEF IInv, Held, Links, others, connection
<1>3. Lines'
  BY DEF IInv, TypeOK, Lines, others
<1>4. Places'
  BY DEF IInv, Places, others, connection
<1>5. Unanswered'
  BY DEF IInv, Unanswered, others
<1>6. InTurn' /\ ConnectionsAreApart'
  BY DEF IInv, InTurn, ConnectionsAreApart, others, connection
<1> QED BY <1>1, <1>2, <1>3, <1>4, <1>5, <1>6 DEF IInv

(* _ensure_workers creates only workers that are absent.                    *)
LEMMA HiredWereAbsent == ASSUME NEW absent, NEW q PROVE Hired(absent, q) \subseteq absent
BY DEF Hired

(* A worker waits, retires, ends, or its handler returns.                   *)
LEMMA MovesOfWorkers ==
  ASSUME IInv, NEW w \in Workers, Wait(w) \/ Retire(w) \/ Callback(w) \/ Handled(w)
  PROVE  IInv'
<1>1. UNCHANGED others
  BY DEF Wait, Retire, Callback, Handled, others
<1>2. CASE Wait(w) \/ Retire(w) \/ Handled(w)
  <2>1. \E s \in {"waiting", "done", "answering"} : worker' = [worker EXCEPT ![w] = s]
    BY <1>2 DEF Wait, Retire, Handled
  <2> QED BY <1>1, <1>2, <2>1, Moves DEF Wait, Retire, Handled, IInv, TypeOK, Busy
<1>3. CASE Callback(w)
  <2>1. \A v \in Workers :
          \/ worker'[v] = worker[v]
          \/ worker[v] \in {"none", "done"} /\ worker'[v] \in {"none", "ready"}
    <3>1. PICK H \in SUBSET (Idle \cup {w}) :
            worker' = [v \in Workers |-> IF v \in H THEN "ready"
                                         ELSE IF v = w THEN "none" ELSE worker[v]]
      BY <1>3, HiredWereAbsent DEF Callback
    <3>2. worker[w] = "done" /\ \A v \in Idle : v \in Workers /\ worker[v] = "none"
      BY <1>3 DEF Callback, Idle
    <3> QED BY <3>1, <3>2
  <2>2. worker' \in [Workers -> {"none", "ready", "waiting", "done"} \cup Busy]
    <3>1. \E H : worker' = [v \in Workers |-> IF v \in H THEN "ready"
                                               ELSE IF v = w THEN "none" ELSE worker[v]]
      BY <1>3 DEF Callback
    <3> QED BY <3>1 DEF IInv, TypeOK
  <2> QED BY <1>1, <2>1, <2>2, Moves DEF Busy
<1> QED BY <1>2, <1>3

----------------------------------------------------------------------------
(* The connection                                                          *)

(* A new connection: nothing is left of the one before.                     *)
LEMMA ConnectStep == ASSUME IInv, Connect PROVE IInv'
<1>1. /\ sender = "none" /\ outgoing = <<>> /\ refusing = 0
      /\ link' = "open" /\ sender' = "waiting" /\ session' = session + 1 /\ stopping = "no"
      /\ UNCHANGED <<outgoing, events, pushed, holder, queue, worker, request, lock, users, line,
                     begun, asked, refusing, answered, stopping>>
  BY DEF IInv, Links, Connect, pool
<1>2. TypeOK'
  BY <1>1 DEF IInv, TypeOK
<1>3. Held' /\ Links'
  BY <1>1 DEF IInv, Held, Links
<1>4. Lines'
  BY <1>1 DEF IInv, Lines
<1>5. Places'
  BY <1>1 DEF IInv, Places
<1>6. Unanswered' /\ InTurn' /\ ConnectionsAreApart'
  BY <1>1 DEF IInv, Unanswered, InTurn, ConnectionsAreApart
<1> QED BY <1>2, <1>3, <1>4, <1>5, <1>6 DEF IInv

(* The connection is closed, by the peer or by stop().                      *)
LEMMA CloseStep == ASSUME IInv, Disconnect \/ Stop PROVE IInv'
<1>1. /\ link' \in {link, "closed"} /\ (link = "none" => link' = "none")
      /\ (link # "none" => link' # "none") /\ stopping' \in {stopping, "link"}
      /\ UNCHANGED <<session, sender, outgoing, events, pushed, holder, queue, worker, request,
                     lock, users, line, begun, asked, refusing, answered>>
  BY DEF Disconnect, Stop, pool
<1>2. TypeOK'
  BY <1>1 DEF IInv, TypeOK
<1>3. Held' /\ Links'
  BY <1>1 DEF IInv, Held, Links
<1>4. Lines'
  BY <1>1 DEF IInv, Lines
<1>5. Places'
  BY <1>1 DEF IInv, Places
<1>6. Unanswered' /\ InTurn' /\ ConnectionsAreApart'
  BY <1>1 DEF IInv, Unanswered, InTurn, ConnectionsAreApart
<1> QED BY <1>2, <1>3, <1>4, <1>5, <1>6 DEF IInv

(* _run_forever has left the connection.                                    *)
LEMMA UnwindStep == ASSUME IInv, Unwind PROVE IInv'
<1>1. /\ link' = "none" /\ sender' = "none" /\ refusing' = 0 /\ outgoing' = <<>>
      /\ holder' = (IF holder \in {Sender, Listener} THEN Nobody ELSE holder)
      /\ UNCHANGED <<session, events, pushed, queue, worker, request, lock, users, line, begun,
                     asked, answered, stopping>>
  BY DEF Unwind, Discarded, LetGo, pool
<1>2. TypeOK'
  <2>1. outgoing' \in Seq(Event) /\ refusing' \in 0 .. MaxRequests
    BY <1>1, SessionAssumption
  <2> QED BY <1>1, <2>1 DEF IInv, TypeOK, Nobody
<1>3. Held' /\ Links'
  BY <1>1 DEF IInv, Held, Links, Sender, Listener, Nobody, Workers
<1>4. Lines'
  BY <1>1 DEF IInv, Lines
<1>5. Places'
  BY <1>1 DEF IInv, Places
<1>6. Unanswered' /\ InTurn' /\ ConnectionsAreApart'
  BY <1>1 DEF IInv, Unanswered, InTurn, ConnectionsAreApart
<1> QED BY <1>2, <1>3, <1>4, <1>5, <1>6 DEF IInv

(* What the events do not touch.                                            *)
aside == <<session, queue, worker, request, lock, users, line, begun, asked, refusing, answered,
          stopping>>

(* An event comes into the queue behind the others.                         *)
LEMMA EmitStep == ASSUME IInv, Emit PROVE IInv'
<1> DEFINE e == [id |-> events + 1, session |-> session]
<1>1. /\ link = "open" /\ events' = events + 1 /\ outgoing' = Append(outgoing, e)
      /\ UNCHANGED <<aside, link, sender, pushed, holder>>
  BY DEF Emit, pool, aside
<1>2. e \in Event /\ events \in Nat /\ outgoing \in Seq(Event)
  BY DEF IInv, TypeOK, Event
<1>3. /\ outgoing' \in Seq(Event)
      /\ \A i \in DOMAIN outgoing' : \/ i \in DOMAIN outgoing /\ outgoing'[i] = outgoing[i]
                                     \/ i = Len(outgoing) + 1 /\ outgoing'[i] = e
      /\ \A i \in DOMAIN outgoing : i < Len(outgoing) + 1
  <2>1. outgoing' = Append(outgoing, e) /\ outgoing \in Seq(Event) /\ e \in Event
    BY <1>1, <1>2
  <2> HIDE DEF e
  <2> QED BY <2>1
<1>4. TypeOK'
  BY <1>1, <1>2, <1>3 DEF IInv, TypeOK, aside
<1>5. Held' /\ Links' /\ Lines'
  BY <1>1 DEF IInv, Held, Links, Lines, aside
<1>6. Places' /\ Unanswered' /\ ConnectionsAreApart'
  BY <1>1 DEF IInv, Places, Unanswered, ConnectionsAreApart, aside
<1>7. InTurn'
  <2>1. \A i \in DOMAIN outgoing : outgoing[i].id \in Nat /\ outgoing[i].id <= events
    <3>1. \A i \in DOMAIN outgoing : outgoing[i] \in Event
      BY <1>2
    <3> QED BY <3>1 DEF IInv, InTurn, Event
  <2>2. \A i \in DOMAIN pushed : pushed[i].event.id \in Nat /\ pushed[i].event.id <= events
    <3>1. pushed \in Seq([event : Event, to : Nat])
      BY DEF IInv, TypeOK
    <3>2. \A i \in DOMAIN pushed : pushed[i] \in [event : Event, to : Nat]
      <4> DEFINE R == [event : Event, to : Nat]
      <4>1. pushed \in Seq(R)
        BY <3>1
      <4> HIDE DEF R
      <4>2. \A i \in DOMAIN pushed : pushed[i] \in R
        BY <4>1, ElementOfSeq
      <4> QED BY <4>2 DEF R
    <3> QED BY <3>2 DEF IInv, InTurn, Event
  <2>3. \A i \in DOMAIN outgoing' : outgoing'[i].session = session' /\ outgoing'[i].id <= events'
    BY <1>1, <1>2, <1>3, <2>1 DEF IInv, InTurn, aside
  <2>4. \A i, j \in DOMAIN outgoing' : i < j => outgoing'[i].id < outgoing'[j].id
    BY <1>2, <1>3, <2>1 DEF IInv, InTurn
  <2>5. \A i \in DOMAIN pushed, j \in DOMAIN outgoing' : pushed[i].event.id < outgoing'[j].id
    BY <1>2, <1>3, <2>2 DEF IInv, InTurn
  <2>6. \A i \in DOMAIN pushed : pushed[i].event.id <= events'
    BY <1>1, <1>2, <2>2
  <2> QED BY <1>1, <2>3, <2>4, <2>5, <2>6 DEF InTurn
<1> QED BY <1>4, <1>5, <1>6, <1>7 DEF IInv

(* The first event of the queue is handed to the connection.                *)
LEMMA PushStep == ASSUME IInv, Push PROVE IInv'
<1> DEFINE p == [event |-> Head(outgoing), to |-> session]
<1>1. /\ sender = "waiting" /\ link = "open" /\ holder = Nobody /\ outgoing # <<>>
      /\ sender' = "sending" /\ holder' = Sender
      /\ outgoing' = Tail(outgoing) /\ pushed' = Append(pushed, p)
      /\ UNCHANGED <<aside, link, events>>
  BY DEF Push, pool, aside
<1>2. /\ outgoing \in Seq(Event) /\ Len(outgoing) \in Nat \ {0} /\ 1 \in DOMAIN outgoing
      /\ Head(outgoing) = outgoing[1] /\ Head(outgoing) \in Event
      /\ outgoing' \in Seq(Event)
      /\ \A i \in DOMAIN outgoing' : /\ i \in Nat \ {0} /\ i + 1 \in DOMAIN outgoing
                                     /\ outgoing'[i] = outgoing[i + 1]
  BY <1>1 DEF IInv, TypeOK
<1>3. /\ pushed \in Seq([event : Event, to : Nat]) /\ p \in [event : Event, to : Nat]
  BY <1>2 DEF IInv, TypeOK
<1>4. /\ pushed' \in Seq([event : Event, to : Nat])
      /\ \A i \in DOMAIN pushed' : \/ i \in DOMAIN pushed /\ pushed'[i] = pushed[i]
                                   \/ i = Len(pushed) + 1 /\ pushed'[i] = p
      /\ \A i \in DOMAIN pushed : i < Len(pushed) + 1
  BY <1>1, <1>3
<1>5. TypeOK'
  BY <1>1, <1>2, <1>4 DEF IInv, TypeOK, aside
<1>6. Held' /\ Links' /\ Lines'
  BY <1>1 DEF IInv, Held, Links, Lines, aside, Nobody, Sender, Listener, Workers
<1>7. Places' /\ Unanswered'
  BY <1>1 DEF IInv, Places, Unanswered, aside, Nobody, Sender, Listener
<1>8. InTurn'
  <2>1. /\ p.event.id = outgoing[1].id /\ outgoing[1].id <= events
        /\ \A j \in DOMAIN outgoing' : outgoing[1].id < outgoing'[j].id
    BY <1>2 DEF IInv, InTurn
  <2>2. \A i, j \in DOMAIN outgoing' : i < j => outgoing'[i].id < outgoing'[j].id
    <3> SUFFICES ASSUME NEW i \in DOMAIN outgoing', NEW j \in DOMAIN outgoing', i < j
                 PROVE  outgoing'[i].id < outgoing'[j].id
      OBVIOUS
    <3>1. /\ i + 1 \in DOMAIN outgoing /\ outgoing'[i] = outgoing[i + 1]
          /\ j + 1 \in DOMAIN outgoing /\ outgoing'[j] = outgoing[j + 1] /\ i + 1 < j + 1
      BY <1>2
    <3>2. \A a, b \in DOMAIN outgoing : a < b => outgoing[a].id < outgoing[b].id
      BY DEF IInv, InTurn
    <3> QED BY ONLY <3>1, <3>2
  <2>3. \A i \in DOMAIN outgoing' : outgoing'[i].session = session /\ outgoing'[i].id <= events
    BY <1>2 DEF IInv, InTurn
  <2>4. \A i \in DOMAIN pushed', j \in DOMAIN outgoing' : pushed'[i].event.id < outgoing'[j].id
    <3>1. \A i \in DOMAIN pushed, j \in DOMAIN outgoing : pushed[i].event.id < outgoing[j].id
      BY DEF IInv, InTurn
    <3> QED BY <1>2, <1>4, <2>1, <3>1
  <2>5. \A i \in DOMAIN pushed' : pushed'[i].event.id <= events
    BY <1>4, <2>1 DEF IInv, InTurn
  <2> QED BY <1>1, <2>2, <2>3, <2>4, <2>5 DEF InTurn, aside
<1>9. ConnectionsAreApart'
  <2>1. p.to = session /\ p.event.session = session
    BY <1>2 DEF IInv, InTurn
  <2>2. \A i \in DOMAIN pushed : pushed[i].event.id < p.event.id
    BY <1>2 DEF IInv, InTurn
  <2>3. \A i \in DOMAIN pushed' : pushed'[i].to = pushed'[i].event.session
    BY <1>4, <2>1 DEF IInv, ConnectionsAreApart
  <2>4. \A i, j \in DOMAIN pushed' : i < j => pushed'[i].event.id < pushed'[j].event.id
    <3> SUFFICES ASSUME NEW i \in DOMAIN pushed', NEW j \in DOMAIN pushed', i < j
                 PROVE  pushed'[i].event.id < pushed'[j].event.id
      OBVIOUS
    <3>1. /\ \A a, b \in DOMAIN pushed : a < b => pushed[a].event.id < pushed[b].event.id
          /\ Len(pushed) \in Nat /\ \A a \in DOMAIN pushed : a \in Nat
      BY <1>3 DEF IInv, ConnectionsAreApart
    <3>2. i \in DOMAIN pushed /\ pushed'[i] = pushed[i]
      <4>1. CASE i = Len(pushed) + 1
        <5>1. j \in DOMAIN pushed \/ j = Len(pushed) + 1
          BY <1>4
        <5> QED BY <1>4, <3>1, <4>1, <5>1
      <4> QED BY <1>4, <4>1
    <3>3. \/ j \in DOMAIN pushed /\ pushed'[j] = pushed[j]
          \/ pushed'[j] = p
      BY <1>4
    <3> QED BY ONLY <2>2, <3>1, <3>2, <3>3, i < j
  <2> QED BY <1>1, <2>3, <2>4 DEF IInv, ConnectionsAreApart, aside
<1> QED BY <1>5, <1>6, <1>7, <1>8, <1>9 DEF IInv

(* The event is sent, or the sender closes the connection.                  *)
LEMMA PushedStep == ASSUME IInv, Pushed PROVE IInv'
<1>1. /\ sender = "sending" /\ holder = Sender /\ holder' = Nobody /\ link # "none"
      /\ sender' \in {"waiting", "none"} /\ link' \in {link, "closed"} /\ link' # "none"
      /\ UNCHANGED <<aside, outgoing, events, pushed>>
  BY DEF IInv, Held, Links, Pushed, pool, aside
<1>2. TypeOK'
  BY <1>1 DEF IInv, TypeOK, aside
<1>3. Held' /\ Links' /\ Lines'
  BY <1>1 DEF IInv, Held, Links, Lines, aside, Nobody, Sender, Listener, Workers
<1>4. Places' /\ Unanswered'
  BY <1>1 DEF IInv, Places, Unanswered, aside, Sender, Listener
<1>5. InTurn' /\ ConnectionsAreApart'
  BY <1>1 DEF IInv, InTurn, ConnectionsAreApart, aside
<1> QED BY <1>2, <1>3, <1>4, <1>5 DEF IInv

----------------------------------------------------------------------------
(* The dispatcher                                                          *)

(* A request comes: it has a number of its own, and is queued or refused.   *)
LEMMA AskStep == ASSUME IInv, NEW t \in Targets, Ask(t) PROVE IInv'
<1> DEFINE r == Len(asked) + 1
           q == [target |-> t, session |-> session]
<1>1. /\ link = "open" /\ stopping = "no" /\ refusing = 0 /\ asked' = Append(asked, q)
      /\ UNCHANGED <<session, link, sender, outgoing, events, pushed, holder, request, lock, users,
                     line, begun, answered, stopping>>
  BY DEF Ask, connection
<1>2. PICK H \in SUBSET Idle :
        \/ /\ queue' = Append(queue, r) /\ UNCHANGED refusing
           /\ worker' = [w \in Workers |-> IF w \in H THEN "ready" ELSE worker[w]]
        \/ refusing' = r /\ UNCHANGED queue /\ worker' = [w \in Workers |-> worker[w]] /\ H = {}
  <2>1. worker = [w \in Workers |-> worker[w]]
    BY DEF IInv, TypeOK
  <2>2. CASE Len(queue) < QueueMax
    BY <2>2, HiredWereAbsent DEF Ask
  <2>3. CASE ~ (Len(queue) < QueueMax)
    <3>1. refusing' = r /\ UNCHANGED <<queue, worker>>
      BY <2>3 DEF Ask
    <3> QED BY <2>1, <3>1
  <2> QED BY <2>2, <2>3
<1>3. /\ Len(asked) \in Nat /\ r \in Requests /\ r # 0 /\ session \in Nat
      /\ asked' \in Seq([target : Targets, session : Nat])
      /\ Len(asked') = r /\ asked'[r].session = session
      /\ \A i \in 1 .. Len(asked) : asked'[i] = asked[i]
  <2>1. /\ asked \in Seq([target : Targets, session : Nat]) /\ session \in Nat
        /\ Len(asked) < MaxRequests
    BY DEF IInv, TypeOK, Ask
  <2>2. q \in [target : Targets, session : Nat] /\ q.session = session
    BY <2>1
  <2>3. Len(asked) \in Nat /\ MaxRequests \in Nat
    BY <2>1, SessionAssumption
  <2> DEFINE R == [target : Targets, session : Nat]
  <2>4. asked \in Seq(R) /\ q \in R
    BY <2>1, <2>2
  <2> HIDE DEF R
  <2>5. /\ Append(asked, q) \in Seq(R) /\ Len(Append(asked, q)) = Len(asked) + 1
        /\ Append(asked, q)[Len(asked) + 1] = q
        /\ \A i \in 1 .. Len(asked) : Append(asked, q)[i] = asked[i]
    <3> HIDE DEF q
    <3> QED BY <2>4
  <2> QED BY <1>1, <2>1, <2>2, <2>3, <2>5 DEF R, Requests
<1>4. /\ worker' \in [Workers -> {"none", "ready", "waiting", "done"} \cup Busy]
      /\ \A w \in Workers : /\ worker'[w] \in Busy <=> worker[w] \in Busy
                            /\ worker'[w] = "lining" <=> worker[w] = "lining"
                            /\ worker'[w] = "sending" <=> worker[w] = "sending"
                            /\ worker[w] \in Busy => worker'[w] = worker[w]
  BY <1>2 DEF IInv, TypeOK, Busy, Idle
<1>5. /\ queue \in Seq(Requests) /\ queue' \in Seq(Requests)
      /\ \A i \in DOMAIN queue' : \/ i \in DOMAIN queue /\ queue'[i] = queue[i]
                                  \/ queue'[i] = r /\ i = Len(queue) + 1 /\ refusing' = 0
      /\ \A i \in DOMAIN queue : i \in Nat /\ queue[i] \in Nat /\ queue[i] < r /\ i < Len(queue) + 1
  <2>1. queue \in Seq(Requests)
    BY DEF IInv, TypeOK
  <2>2. \A i \in DOMAIN queue : queue[i] \in Nat /\ queue[i] <= Len(asked)
    <3>1. \A i \in DOMAIN queue : queue[i] \in Requests
      BY <2>1, ElementOfSeq
    <3>2. \A x \in Requests : x \in Nat
      BY DEF Requests
    <3> QED BY <3>1, <3>2 DEF IInv, Places
  <2>3. r \in Requests
    BY <1>3
  <2> HIDE DEF r
  <2>4. /\ queue' \in Seq(Requests)
        /\ \A i \in DOMAIN queue' : \/ i \in DOMAIN queue /\ queue'[i] = queue[i]
                                    \/ queue'[i] = r /\ i = Len(queue) + 1 /\ refusing' = 0
    <3>1. CASE queue' = Append(queue, r) /\ UNCHANGED refusing
      BY <1>1, <2>1, <2>3, <3>1, Appended
    <3>2. CASE UNCHANGED queue
      BY <2>1, <3>2
    <3> QED BY <1>2, <3>1, <3>2
  <2>5. \A i \in DOMAIN queue : queue[i] < r
    BY <2>2, <1>3 DEF r
  <2> QED BY <2>1, <2>2, <2>4, <2>5
<1>6. refusing' \in {0, r}
  BY <1>1, <1>2
<1>7. \A w \in Workers : worker[w] \in Busy => request[w] \in 1 .. Len(asked) /\ request[w] # r
  BY <1>3 DEF IInv, Places
<1>8. \A a \in answered : a.request \in 1 .. Len(asked) /\ a.request # r
  <2>1. \A a \in answered : a.request \in Requests /\ a.request <= Len(asked)
    BY DEF IInv, TypeOK, Unanswered
  <2> QED BY <1>3, <2>1 DEF Requests
<1>9. TypeOK'
  <2>1. Len(asked') <= MaxRequests /\ refusing' \in 0 .. MaxRequests
    BY <1>3, <1>6, SessionAssumption DEF Requests
  <2> HIDE DEF r, q
  <2> QED BY <1>1, <1>3, <1>4, <1>5, <2>1 DEF IInv, TypeOK
<1>10. Held' /\ Links' /\ Lines'
  <2>1. Held'
    BY <1>1, <1>4 DEF IInv, Held
  <2>2. Links'
    BY <1>1 DEF IInv, Links
  <2>3. Lines'
    <3>1. \A l \in Requests : \A i \in DOMAIN line[l] : line[l][i] \in Workers
      BY ElementOfSeq DEF IInv, TypeOK
    <3> QED BY <1>1, <1>4, <3>1 DEF IInv, Lines
  <2> QED BY <2>1, <2>2, <2>3
<1>11. Places'
  <2>1. /\ \A i \in DOMAIN queue' : queue'[i] <= Len(asked')
        /\ \A i, j \in DOMAIN queue' : queue'[i] = queue'[j] => i = j
    <3>0. PICK n \in Nat : n = r /\ Len(asked') = n
      BY <1>3
    <3> HIDE DEF r
    <3>1. \A i \in DOMAIN queue' : queue'[i] <= Len(asked')
      BY ONLY <1>5, <3>0
    <3>2. \A i, j \in DOMAIN queue' : queue'[i] = queue'[j] => i = j
      <4>1. \A i, j \in DOMAIN queue : queue[i] = queue[j] => i = j
        BY DEF IInv, Places
      <4> QED BY ONLY <1>5, <3>0, <4>1
    <3> QED BY <3>1, <3>2
  <2>2. \A w \in Workers : worker'[w] \in Busy =>
          /\ request'[w] \in 1 .. Len(asked')
          /\ \A i \in DOMAIN queue' : queue'[i] # request'[w]
          /\ \A v \in Workers : worker'[v] \in Busy /\ request'[v] = request'[w] => v = w
    <3>1. UNCHANGED request
      BY <1>1
    <3>2. \A i \in 1 .. Len(asked) : i \in 1 .. Len(asked')
      BY <1>3
    <3> QED BY <3>1, <3>2, <1>4, <1>5, <1>7 DEF IInv, Places
  <2>3. refusing' # 0 =>
          /\ refusing' <= Len(asked') /\ asked'[refusing'].session = session'
          /\ \A i \in DOMAIN queue' : queue'[i] # refusing'
          /\ \A w \in Workers : worker'[w] \in Busy => request'[w] # refusing'
    <3>1. SUFFICES ASSUME refusing' # 0
                   PROVE  /\ refusing' <= Len(asked') /\ asked'[refusing'].session = session'
                          /\ \A i \in DOMAIN queue' : queue'[i] # refusing'
                          /\ \A w \in Workers : worker'[w] \in Busy => request'[w] # refusing'
      OBVIOUS
    <3>2. refusing' = r /\ \A i \in DOMAIN queue' : i \in DOMAIN queue /\ queue'[i] = queue[i]
      BY <3>1, <1>5, <1>6
    <3> QED BY <3>2, <1>1, <1>3, <1>4, <1>5, <1>7
  <2> QED BY <2>1, <2>2, <2>3 DEF Places
<1>12. Unanswered'
  <2>1. UNCHANGED <<answered, request, holder>>
    BY <1>1
  <2>2. \A a \in answered : a.request <= Len(asked')
    BY <1>3, <1>8
  <2>3. \A a \in answered : \A i \in DOMAIN queue' : queue'[i] # a.request
    BY <1>5, <1>8 DEF IInv, Unanswered
  <2>4. \A a \in answered : \A w \in Workers :
          worker'[w] \in Busy /\ worker'[w] # "sending" => request[w] # a.request
    BY <1>4 DEF IInv, Unanswered
  <2>5. \A a \in answered : refusing' # 0 => refusing' # a.request
    BY <1>6, <1>8
  <2> QED BY <2>1, <2>2, <2>3, <2>4, <2>5 DEF Unanswered
<1>13. InTurn' /\ ConnectionsAreApart'
  BY <1>1, <1>3, <1>8 DEF IInv, InTurn, ConnectionsAreApart
<1> QED BY <1>9, <1>10, <1>11, <1>12, <1>13 DEF IInv

(* The listener answers that the queue is full.                             *)
LEMMA RefuseStep == ASSUME IInv, Refuse PROVE IInv'
<1> DEFINE a == [request |-> refusing, to |-> session]
<1>1. /\ refusing # 0 /\ holder = Nobody /\ link = "open"
      /\ holder' = Listener /\ answered' = answered \cup {a}
      /\ UNCHANGED <<session, queue, worker, request, lock, users, line, begun, asked, refusing,
                     stopping, link, sender, outgoing, events, pushed>>
  BY DEF Refuse, connection, pool
<1>2. refusing \in Requests /\ session \in Nat /\ refusing <= Len(asked)
  <2>1. session \in Nat /\ refusing \in 0 .. MaxRequests
    BY DEF IInv, TypeOK
  <2>2. refusing # 0 => refusing <= Len(asked)
    BY DEF IInv, Places
  <2> QED BY ONLY <1>1, <2>1, <2>2, SessionAssumption DEF Requests
<1>3. \A b \in answered : b.request # refusing
  BY <1>1 DEF IInv, Unanswered, Nobody, Listener
<1>4. TypeOK'
  <2>1. answered \subseteq [request : Requests, to : Nat]
    BY DEF IInv, TypeOK
  <2>2. a \in [request : Requests, to : Nat]
    BY <1>2
  <2>3. answered' \subseteq [request : Requests, to : Nat]
    BY ONLY <1>1, <2>1, <2>2
  <2>4. holder' \in {Nobody, Sender, Listener} \cup Workers
    BY <1>1
  <2> HIDE DEF a
  <2> QED BY <1>1, <2>3, <2>4 DEF IInv, TypeOK
<1>5. Held' /\ Links' /\ Lines'
  BY <1>1 DEF IInv, Held, Links, Lines, Nobody, Sender, Listener, Workers
<1>6. Places'
  BY <1>1 DEF IInv, Places
<1>7. Unanswered'
  <2>1. /\ \A i \in DOMAIN queue : queue[i] # a.request
        /\ \A w \in Workers : worker[w] \in Busy => request[w] # a.request
    BY <1>1 DEF IInv, Places
  <2> QED BY <1>1, <1>2, <2>1 DEF IInv, Unanswered
<1>8. InTurn' /\ ConnectionsAreApart'
  <2>1. a.to = asked[a.request].session
    BY <1>1 DEF IInv, Places
  <2>2. \A b \in answered : b.request # a.request
    BY <1>3
  <2> HIDE DEF a
  <2> QED BY <1>1, <2>1, <2>2 DEF IInv, InTurn, ConnectionsAreApart
<1> QED BY <1>4, <1>5, <1>6, <1>7, <1>8 DEF IInv

(* The listener reads on.                                                   *)
LEMMA RefusedStep == ASSUME IInv, Refused PROVE IInv'
<1>1. /\ holder = Listener /\ holder' = Nobody /\ refusing' = 0
      /\ link' \in {link, "closed"} /\ (link' = "none" <=> link = "none")
      /\ UNCHANGED <<session, sender, outgoing, events, pushed, queue, worker, request, lock, users,
                     line, begun, asked, answered, stopping>>
  BY DEF Refused, pool
<1>2. TypeOK'
  BY <1>1, SessionAssumption DEF IInv, TypeOK
<1>3. Held' /\ Links' /\ Lines'
  BY <1>1 DEF IInv, Held, Links, Lines, Nobody, Sender, Listener, Workers
<1>4. Places' /\ Unanswered'
  BY <1>1 DEF IInv, Places, Unanswered
<1>5. InTurn' /\ ConnectionsAreApart'
  BY <1>1 DEF IInv, InTurn, ConnectionsAreApart
<1> QED BY <1>2, <1>3, <1>4, <1>5 DEF IInv

(* The dispatcher's stop() begins when the transport's tasks have ended.    *)
LEMMA StopDispatcherStep == ASSUME IInv, StopDispatcher PROVE IInv'
<1>1. /\ link = "none" /\ stopping' = "drain"
      /\ UNCHANGED <<session, link, sender, outgoing, events, pushed, holder, queue, worker, request,
                     lock, users, line, begun, asked, refusing, answered>>
  BY DEF StopDispatcher, connection, pool
<1>2. TypeOK' /\ Held' /\ Links'
  BY <1>1 DEF IInv, TypeOK, Held, Links
<1>3. Lines' /\ Places'
  BY <1>1 DEF IInv, Lines, Places
<1>4. Unanswered' /\ InTurn' /\ ConnectionsAreApart'
  BY <1>1 DEF IInv, Unanswered, InTurn, ConnectionsAreApart
<1> QED BY <1>2, <1>3, <1>4 DEF IInv

(* It ends with the workers and with what was left of the queue.            *)
LEMMA StopWorkersStep == ASSUME IInv, StopWorkers PROVE IInv'
<1>1. /\ link = "none" /\ sender = "none" /\ outgoing = <<>> /\ refusing = 0
      /\ stopping' = "stopped" /\ queue' = <<>> /\ holder' = Nobody
      /\ worker' = [w \in Workers |-> "none"] /\ request' = [w \in Workers |-> 0]
      /\ lock' = [t \in Targets |-> Nobody] /\ users' = [t \in Targets |-> 0]
      /\ line' = [l \in Requests |-> <<>>]
      /\ UNCHANGED <<session, link, sender, outgoing, events, pushed, begun, asked, refusing,
                     answered>>
  BY DEF IInv, Links, StopWorkers, connection
<1>2. TypeOK'
  <2>1. queue' \in Seq(Requests) /\ line' \in [Requests -> Seq(Workers)]
    BY <1>1
  <2>2. request' \in [Workers -> 0 .. MaxRequests]
    BY <1>1, SessionAssumption
  <2> QED BY <1>1, <2>1, <2>2 DEF IInv, TypeOK
<1>3. \A w \in Workers : worker'[w] \notin Busy
  BY <1>1 DEF Busy
<1>4. Held' /\ Links'
  BY <1>1, <1>3 DEF Held, Links, Nobody, Sender, Listener, Workers, Busy
<1>5. Lines' /\ Places' /\ Unanswered'
  BY <1>1, <1>3 DEF IInv, Lines, Places, Unanswered
<1>6. InTurn' /\ ConnectionsAreApart'
  BY <1>1 DEF IInv, InTurn, ConnectionsAreApart
<1> QED BY <1>2, <1>4, <1>5, <1>6 DEF IInv

(* A worker gets the send lock and hands the answer to the connection.      *)
LEMMA AnswerStep == ASSUME IInv, NEW w \in Workers, Answer(w) PROVE IInv'
<1> DEFINE a == [request |-> request[w], to |-> session]
<1>1. /\ worker[w] = "answering" /\ link = "open" /\ asked[request[w]].session = session
      /\ holder = Nobody /\ holder' = w /\ answered' = answered \cup {a}
      /\ worker' = [worker EXCEPT ![w] = "sending"]
      /\ UNCHANGED <<session, link, sender, outgoing, events, pushed, queue, request, lock, users,
                     line, begun, asked, refusing, stopping>>
  BY DEF Answer, Addressee, connection
<1>2. /\ worker[w] \in Busy /\ request[w] \in 1 .. Len(asked) /\ request[w] \in Requests
      /\ session \in Nat
  <2>1. worker[w] \in Busy
    BY <1>1 DEF Busy
  <2>2. request[w] \in 1 .. Len(asked) /\ request[w] \in 0 .. MaxRequests
    BY <2>1 DEF IInv, TypeOK, Places
  <2> QED BY <2>1, <2>2 DEF IInv, TypeOK, Requests
<1>3. \A v \in Workers : /\ worker'[v] \in Busy <=> worker[v] \in Busy
                         /\ worker'[v] = "lining" <=> worker[v] = "lining"
                         /\ worker'[v] = IF v = w THEN "sending" ELSE worker[v]
  BY <1>1 DEF IInv, TypeOK, Busy
<1>4. TypeOK'
  <2>1. /\ answered \subseteq [request : Requests, to : Nat]
        /\ worker \in [Workers -> {"none", "ready", "waiting", "done"} \cup Busy]
    BY DEF IInv, TypeOK
  <2>2. a \in [request : Requests, to : Nat] /\ "sending" \in Busy
    BY <1>2 DEF Busy
  <2>3. answered' \subseteq [request : Requests, to : Nat]
    BY ONLY <1>1, <2>1, <2>2
  <2>4. worker' \in [Workers -> {"none", "ready", "waiting", "done"} \cup Busy]
    BY ONLY <1>1, <2>1, <2>2
  <2>5. holder' \in {Nobody, Sender, Listener} \cup Workers
    BY <1>1
  <2> HIDE DEF a
  <2> QED BY <1>1, <2>3, <2>4, <2>5 DEF IInv, TypeOK
<1>5. Held' /\ Links'
  BY <1>1, <1>3 DEF IInv, Held, Links, Nobody, Sender, Listener, Workers
<1>6. Lines'
  <2>1. \A l \in Requests : \A i \in DOMAIN line[l] : line[l][i] \in Workers
    BY ElementOfSeq DEF IInv, TypeOK
  <2> QED BY <1>1, <1>3, <2>1 DEF IInv, Lines
<1>7. Places'
  BY <1>1, <1>3 DEF IInv, Places
<1>8. \A b \in answered : b.request # a.request
  BY <1>1, <1>2 DEF IInv, Unanswered
<1>9. Unanswered'
  <2>1. /\ a.request <= Len(asked)
        /\ \A i \in DOMAIN queue : queue[i] # a.request
        /\ \A v \in Workers : worker[v] \in Busy /\ v # w => request[v] # a.request
        /\ refusing # 0 => refusing # a.request
    BY <1>2 DEF IInv, Places
  <2>2. holder # Listener
    BY <1>1 DEF Nobody, Listener
  <2> HIDE DEF a
  <2> QED BY <1>1, <1>3, <2>1, <2>2 DEF IInv, Unanswered
<1>10. InTurn' /\ ConnectionsAreApart'
  <2>1. a.to = asked[a.request].session
    BY <1>1
  <2> HIDE DEF a
  <2> QED BY <1>1, <1>8, <2>1 DEF IInv, InTurn, ConnectionsAreApart
<1> QED BY <1>4, <1>5, <1>6, <1>7, <1>9, <1>10 DEF IInv

(* The rest of a sequence.                                                  *)
LEMMA TailOf ==
  ASSUME NEW S, NEW s \in Seq(S), s # <<>>
  PROVE  /\ Tail(s) \in Seq(S) /\ Head(s) = s[1] /\ 1 \in DOMAIN s /\ s[1] \in S
         /\ \A i \in DOMAIN Tail(s) : i \in Nat \ {0} /\ i + 1 \in DOMAIN s /\ Tail(s)[i] = s[i + 1]
         /\ \A i \in DOMAIN s : i = 1 \/ i - 1 \in DOMAIN Tail(s)
         /\ Tail(s) # <<>> => 1 \in DOMAIN Tail(s) /\ Head(Tail(s)) = s[2] /\ 2 \in DOMAIN s
OBVIOUS

(* A request leaves the queue for a worker, at the end of its target's line. *)
LEMMA TakeStep == ASSUME IInv, NEW w \in Workers, Take(w) PROVE IInv'
<1> DEFINE r == Head(queue)
           t == asked[r].target
           l == IF lock[t] = Nobody THEN r ELSE lock[t]
           s == IF line[l] = <<>> THEN "handling" ELSE "lining"
<1>1. /\ worker[w] \in {"ready", "waiting"} /\ queue # <<>> /\ queue' = Tail(queue)
      /\ request' = [request EXCEPT ![w] = r] /\ lock' = [lock EXCEPT ![t] = l]
      /\ users' = [users EXCEPT ![t] = @ + 1] /\ line' = [line EXCEPT ![l] = Append(@, w)]
      /\ worker' = [worker EXCEPT ![w] = s]
      /\ begun' = (IF line[l] = <<>> THEN Append(begun, r) ELSE begun)
      /\ UNCHANGED <<session, link, sender, outgoing, events, pushed, holder, asked, refusing,
                     answered, stopping>>
  BY DEF Take, connection
<1>2. /\ queue \in Seq(Requests) /\ queue' \in Seq(Requests)
      /\ r = queue[1] /\ 1 \in DOMAIN queue /\ r \in Requests
      /\ \A i \in DOMAIN queue' : i # 0 /\ i + 1 \in DOMAIN queue /\ queue'[i] = queue[i + 1]
                                  /\ i \in Nat
  <2>1. queue \in Seq(Requests)
    BY DEF IInv, TypeOK
  <2>2. PICK q \in Seq(Requests) : q = queue /\ q # <<>>
    BY <1>1, <2>1
  <2>3. /\ Tail(q) \in Seq(Requests) /\ Head(q) = q[1] /\ 1 \in DOMAIN q /\ q[1] \in Requests
        /\ \A i \in DOMAIN Tail(q) : i \in Nat \ {0} /\ i + 1 \in DOMAIN q /\ Tail(q)[i] = q[i + 1]
    BY <2>2, TailOf
  <2>4. queue' = Tail(q)
    BY <1>1, <2>2
  <2> QED BY ONLY <2>2, <2>3, <2>4
<1>3. t \in Targets /\ l \in Requests
  <2>1. r \in DOMAIN asked
    BY <1>2 DEF IInv, TypeOK, Places, Requests
  <2>2. asked[r] \in [target : Targets, session : Nat]
    <3> DEFINE A == [target : Targets, session : Nat]
    <3>1. asked \in Seq(A)
      BY DEF IInv, TypeOK
    <3> HIDE DEF A
    <3>2. asked[r] \in A
      BY <2>1, <3>1, ElementOfSeq
    <3> QED BY <3>2 DEF A
  <2>3. asked[r].target \in Targets
    BY <2>2
  <2>4. lock[t] \in {Nobody} \cup Requests
    BY <2>3 DEF IInv, TypeOK
  <2> QED BY <1>2, <2>3, <2>4
<1>4. /\ worker[w] \notin Busy /\ s \in Busy /\ s # "sending" /\ worker[w] # "sending"
      /\ worker[w] # "lining"
      /\ \A v \in Workers : worker'[v] = IF v = w THEN s ELSE worker[v]
      /\ \A v \in Workers : request'[v] = IF v = w THEN r ELSE request[v]
      /\ worker' \in [Workers -> {"none", "ready", "waiting", "done"} \cup Busy]
      /\ request' \in [Workers -> 0 .. MaxRequests]
  <2>1. r \in 0 .. MaxRequests
    BY <1>2 DEF Requests
  <2>2. s \in Busy /\ s # "sending" /\ worker[w] \notin Busy
    BY <1>1 DEF Busy
  <2> HIDE DEF r, s
  <2> QED BY <1>1, <2>1, <2>2 DEF IInv, TypeOK
<1>5. /\ line[l] \in Seq(Workers) /\ Len(line[l]) \in Nat /\ line' \in [Requests -> Seq(Workers)]
      /\ \A k \in Requests : k # l => line'[k] = line[k]
      /\ DOMAIN line'[l] = DOMAIN line[l] \cup {Len(line[l]) + 1}
      /\ line'[l][Len(line[l]) + 1] = w
      /\ \A i \in DOMAIN line[l] : /\ line'[l][i] = line[l][i] /\ i # Len(line[l]) + 1
      /\ s = "lining" <=> Len(line[l]) + 1 # 1
  <2>1. line \in [Requests -> Seq(Workers)] /\ line[l] \in Seq(Workers)
    BY <1>3 DEF IInv, TypeOK
  <2>2. s = "lining" <=> Len(line[l]) + 1 # 1
    BY <2>1
  <2> HIDE DEF l, s
  <2>3. line'[l] = Append(line[l], w) /\ \A k \in Requests : k # l => line'[k] = line[k]
    BY <1>1, <1>3, <2>1
  <2>4. line'[l] \in Seq(Workers)
    BY <2>1, <2>3, Appended
  <2>5. line' \in [Requests -> Seq(Workers)]
    BY <1>1, <1>3, <2>1, <2>3, <2>4
  <2> QED BY <2>1, <2>2, <2>3, <2>5, Appended
<1>6. TypeOK'
  <2>1. begun' \in Seq(Requests)
    BY <1>1, <1>2, Appended DEF IInv, TypeOK
  <2>2. lock' \in [Targets -> {Nobody} \cup Requests] /\ users' \in [Targets -> Int]
    <3> HIDE DEF t, l
    <3>1. lock' \in [Targets -> {Nobody} \cup Requests]
      BY <1>1, <1>3 DEF IInv, TypeOK
    <3>2. users \in [Targets -> Int] /\ users[t] + 1 \in Int
      BY <1>3 DEF IInv, TypeOK
    <3>3. users' \in [Targets -> Int]
      BY <1>1, <3>2
    <3> QED BY <3>1, <3>3
  <2> HIDE DEF r, t, l, s
  <2> QED BY <1>1, <1>2, <1>4, <1>5, <2>1, <2>2 DEF IInv, TypeOK
<1> HIDE DEF r, t, l, s
<1>7. Held' /\ Links'
  BY <1>1, <1>4 DEF IInv, Held, Links
<1>8. Lines'
  <2>1. \A k \in Requests : \A i \in DOMAIN line[k] :
          line[k][i] \in Workers /\ worker[line[k][i]] \in Busy /\ line[k][i] # w
    BY <1>4, ElementOfSeq DEF IInv, TypeOK, Lines
  <2>2. \A v \in Workers : worker'[v] \in Busy =>
          \E k \in Requests : \E i \in DOMAIN line'[k] : line'[k][i] = v
    <3>1. SUFFICES ASSUME NEW v \in Workers, worker'[v] \in Busy
                   PROVE  \E k \in Requests : \E i \in DOMAIN line'[k] : line'[k][i] = v
      OBVIOUS
    <3>2. CASE v = w
      BY <3>2, <1>3, <1>5
    <3>3. CASE v # w
      <4>1. PICK k \in Requests : \E i \in DOMAIN line[k] : line[k][i] = v
        BY <3>1, <3>3, <1>4 DEF IInv, Lines
      <4> QED BY <4>1, <1>5
    <3> QED BY <3>2, <3>3
  <2>3. \A k \in Requests : \A i \in DOMAIN line'[k] :
          /\ worker'[line'[k][i]] \in Busy
          /\ i = 1 <=> worker'[line'[k][i]] # "lining"
    <3>1. SUFFICES ASSUME NEW k \in Requests, NEW i \in DOMAIN line'[k]
                   PROVE  /\ worker'[line'[k][i]] \in Busy
                          /\ i = 1 <=> worker'[line'[k][i]] # "lining"
      OBVIOUS
    <3>2. CASE i \in DOMAIN line[k]
      <4>1. line'[k][i] = line[k][i]
        BY <3>2, <1>5
      <4>2. worker'[line[k][i]] = worker[line[k][i]]
        BY <3>2, <2>1, <1>4
      <4> QED BY <3>2, <4>1, <4>2 DEF IInv, Lines
    <3>3. CASE k = l /\ i = Len(line[l]) + 1
      BY <3>3, <1>4, <1>5
    <3> QED BY <3>1, <3>2, <3>3, <1>5
  <2>4. \A k, j \in Requests : \A a \in DOMAIN line'[k], b \in DOMAIN line'[j] :
          line'[k][a] = line'[j][b] => k = j /\ a = b
    <3>1. SUFFICES ASSUME NEW k \in Requests, NEW j \in Requests, NEW a \in DOMAIN line'[k],
                          NEW b \in DOMAIN line'[j], line'[k][a] = line'[j][b]
                   PROVE  k = j /\ a = b
      OBVIOUS
    <3>2. /\ \/ a \in DOMAIN line[k] /\ line'[k][a] = line[k][a]
             \/ k = l /\ a = Len(line[l]) + 1 /\ line'[k][a] = w
          /\ \/ b \in DOMAIN line[j] /\ line'[j][b] = line[j][b]
             \/ j = l /\ b = Len(line[l]) + 1 /\ line'[j][b] = w
      BY <1>5
    <3> QED BY <3>1, <3>2, <2>1 DEF IInv, Lines
  <2> QED BY <2>2, <2>3, <2>4 DEF Lines
<1>9. Places'
  <2>1. \A i \in DOMAIN queue' : queue'[i] <= Len(asked') /\ queue'[i] # r
    BY <1>1, <1>2 DEF IInv, Places
  <2>2. \A i, j \in DOMAIN queue' : queue'[i] = queue'[j] => i = j
    BY <1>2 DEF IInv, Places
  <2>3. r \in 1 .. Len(asked)
    BY <1>2 DEF IInv, TypeOK, Places, Requests
  <2>4. \A v \in Workers : worker[v] \in Busy => request[v] # r
    BY <1>2 DEF IInv, Places
  <2>5. \A v \in Workers : worker'[v] \in Busy =>
          /\ request'[v] \in 1 .. Len(asked')
          /\ \A i \in DOMAIN queue' : queue'[i] # request'[v]
          /\ \A u \in Workers : worker'[u] \in Busy /\ request'[u] = request'[v] => u = v
    BY <1>1, <1>2, <1>4, <2>1, <2>3, <2>4 DEF IInv, Places
  <2>6. refusing # 0 => refusing # r
    BY <1>2 DEF IInv, Places
  <2> QED BY <1>1, <1>2, <1>4, <2>1, <2>2, <2>5, <2>6 DEF IInv, Places
<1>10. Unanswered'
  <2>1. \A a \in answered : a.request # r
    BY <1>2 DEF IInv, Unanswered
  <2> QED BY <1>1, <1>2, <1>4, <2>1 DEF IInv, Unanswered
<1>11. InTurn' /\ ConnectionsAreApart'
  BY <1>1 DEF IInv, InTurn, ConnectionsAreApart
<1> QED BY <1>6, <1>7, <1>8, <1>9, <1>10, <1>11 DEF IInv

(* Whoever is not the first of a line waits in it.                          *)
LEMMA Waits ==
  ASSUME Lines, NEW l \in Requests, NEW i \in DOMAIN line[l], i # 1
  PROVE  worker[line[l][i]] = "lining"
BY DEF Lines

(* Nobody stands in two places.                                             *)
LEMMA OnePlace ==
  ASSUME Lines, NEW l \in Requests, NEW k \in Requests, NEW i \in DOMAIN line[l],
         NEW j \in DOMAIN line[k], line[l][i] = line[k][j]
  PROVE  l = k /\ i = j
BY DEF Lines

(* A worker that answers is the first of the line of its lock.              *)
LEMMA FirstOfLine ==
  ASSUME IInv, NEW w \in Workers, worker[w] \in {"answering", "sending"}
  PROVE  /\ LockOf(w) \in Requests /\ line[LockOf(w)] \in Seq(Workers)
         /\ line[LockOf(w)] # <<>> /\ line[LockOf(w)][1] = w
<1> DEFINE l == LockOf(w)
<1>1. worker[w] \in Busy /\ worker[w] # "lining"
  BY DEF Busy
<1>2. \E k \in Requests : \E i \in DOMAIN line[k] : line[k][i] = w
  BY <1>1 DEF IInv, Lines
<1>3. l \in Requests /\ \E i \in DOMAIN line[l] : line[l][i] = w
  BY <1>2 DEF LockOf
<1> HIDE DEF l
<1>4. line[l] \in Seq(Workers) /\ 1 \in DOMAIN line[l] /\ line[l][1] = w
  BY <1>1, <1>3 DEF IInv, TypeOK, Lines
<1>5. line[l] # <<>>
  BY <1>4
<1> QED BY <1>3, <1>4, <1>5 DEF l

(* A worker leaves the first place of its line: the next one works, and the *)
(* answer, if there was one, stays with its connection.                    *)
LEMMA ReleaseStep ==
  ASSUME IInv, NEW w \in Workers, worker[w] \in {"answering", "sending"}, Release(w),
         holder' = IF holder = w THEN Nobody ELSE holder,
         link' \in {link, "closed"}, link' = "none" <=> link = "none",
         UNCHANGED <<session, sender, outgoing, events, pushed, asked, refusing, answered, stopping>>
  PROVE  IInv'
<1> DEFINE l == LockOf(w)
           s == line[l]
           next == Tail(s)
           t == asked[request[w]].target
<1>1. /\ l \in Requests /\ s \in Seq(Workers) /\ s # <<>> /\ s[1] = w
      /\ worker[w] \in Busy /\ worker[w] # "lining"
  BY FirstOfLine DEF Busy
<1>2. /\ line' = [line EXCEPT ![l] = next]
      /\ users' = [users EXCEPT ![t] = IF IsLast(@) THEN 0 ELSE @ - 1]
      /\ lock' = [lock EXCEPT ![t] = IF IsLast(users[t]) THEN Nobody ELSE @]
      /\ request' = [request EXCEPT ![w] = 0]
      /\ worker' = [v \in Workers |-> IF v = w THEN "ready"
                                      ELSE IF next # <<>> /\ v = Head(next) THEN "handling"
                                      ELSE worker[v]]
      /\ begun' = (IF next = <<>> THEN begun ELSE Append(begun, request[Head(next)]))
      /\ UNCHANGED queue
  BY DEF Release
<1> HIDE DEF l, t
<1>3. /\ next \in Seq(Workers) /\ \A i \in DOMAIN s : s[i] \in Workers
      /\ \A i \in DOMAIN next : /\ i \in Nat \ {0} /\ i + 1 \in DOMAIN s
                                /\ next[i] = s[i + 1]
      /\ \A i \in DOMAIN s : i = 1 \/ i - 1 \in DOMAIN next
      /\ next # <<>> => 1 \in DOMAIN next /\ Head(next) = s[2] /\ 2 \in DOMAIN s
      /\ \A i \in DOMAIN s : i \in Nat
  BY <1>1, TailOf, ElementOfSeq
<1> HIDE DEF s, next
<1>4. next # <<>> => /\ Head(next) \in Workers /\ Head(next) # w
                     /\ worker[Head(next)] = "lining"
  <2>1. 1 # 2 /\ (next # <<>> => 2 \in DOMAIN line[l] /\ Head(next) = line[l][2])
    BY <1>3 DEF s
  <2>2. ASSUME next # <<>> PROVE worker[Head(next)] = "lining" /\ Head(next) \in Workers
    <3>1. 2 \in DOMAIN line[l] /\ Head(next) = line[l][2] /\ line[l][2] \in Workers
      BY <2>1, <2>2, <1>3 DEF s
    <3> QED BY <3>1, <2>1, <1>1, Waits DEF IInv
  <2> QED BY <2>2, <1>1
<1>5. /\ worker'[w] = "ready"
      /\ \A v \in Workers : v # w => \/ worker'[v] = worker[v]
                                     \/ /\ worker[v] = "lining" /\ worker'[v] = "handling"
                                        /\ next # <<>> /\ v = Head(next)
      /\ next # <<>> => worker'[Head(next)] = "handling"
      /\ \A v \in Workers : v # w => (worker'[v] \in Busy <=> worker[v] \in Busy)
      /\ \A v \in Workers : v # w => (worker'[v] = "sending" <=> worker[v] = "sending")
      /\ worker'[w] \notin Busy
      /\ \A v \in Workers : v # w => request'[v] = request[v]
  BY <1>2, <1>4 DEF Busy, IInv, TypeOK
<1>6. TypeOK'
  <2>1. worker' \in [Workers -> {"none", "ready", "waiting", "done"} \cup Busy]
    BY <1>2 DEF IInv, TypeOK, Busy
  <2>2. begun' \in Seq(Requests)
    <3>1. next # <<>> => request[Head(next)] \in Requests
      <4>1. ASSUME next # <<>> PROVE /\ request[Head(next)] \in 1 .. Len(asked)
                                      /\ request[Head(next)] \in 0 .. MaxRequests
        <5>1. worker[Head(next)] \in Busy
          BY <4>1, <1>4 DEF Busy
        <5> QED BY <4>1, <5>1, <1>4 DEF IInv, TypeOK, Places
      <4> QED BY <4>1 DEF Requests
    <3> QED BY <1>2, <3>1, Appended DEF IInv, TypeOK
  <2>3. line' \in [Requests -> Seq(Workers)]
    BY <1>1, <1>2, <1>3 DEF IInv, TypeOK
  <2>4. lock' \in [Targets -> {Nobody} \cup Requests]
    BY <1>2 DEF IInv, TypeOK
  <2>5. users' \in [Targets -> Int]
    <3>1. users \in [Targets -> Int] /\ \A x \in Int : x - 1 \in Int
      BY DEF IInv, TypeOK
    <3> DEFINE x == IF IsLast(users[t]) THEN 0 ELSE users[t] - 1
    <3>2. users' = [users EXCEPT ![t] = x]
      BY <1>2
    <3>3. t \in Targets => x \in Int
      BY <3>1
    <3> HIDE DEF x
    <3> QED BY <3>1, <3>2, <3>3
  <2>6. request' \in [Workers -> 0 .. MaxRequests]
    BY <1>2, SessionAssumption DEF IInv, TypeOK
  <2>7. holder' \in {Nobody, Sender, Listener} \cup Workers /\ link' \in {"none", "open", "closed"}
    BY DEF IInv, TypeOK
  <2> QED BY <1>2, <2>1, <2>2, <2>3, <2>4, <2>5, <2>6, <2>7 DEF IInv, TypeOK
<1>7. Held' /\ Links'
  <2>1. \A v \in Workers : holder' = v <=> worker'[v] = "sending"
    BY <1>5 DEF IInv, Held, Nobody, Workers
  <2>2. w # Sender /\ w # Listener /\ Nobody # Sender /\ Nobody # Listener
    BY DEF Workers, Sender, Listener, Nobody
  <2> QED BY <2>1, <2>2 DEF IInv, Held, Links
<1>8. Lines'
  <2>1. /\ \A k \in Requests : k # l => line'[k] = line[k]
        /\ line'[l] = next
    BY <1>1, <1>2 DEF IInv, TypeOK
  <2>2. \A k \in Requests : \A i \in DOMAIN line[k] : line[k][i] \in Workers
    BY ElementOfSeq DEF IInv, TypeOK
  <2>3. \A v \in Workers : worker'[v] \in Busy =>
          \E k \in Requests : \E i \in DOMAIN line'[k] : line'[k][i] = v
    <3>1. SUFFICES ASSUME NEW v \in Workers, worker'[v] \in Busy
                   PROVE  \E k \in Requests : \E i \in DOMAIN line'[k] : line'[k][i] = v
      OBVIOUS
    <3>2. v # w /\ worker[v] \in Busy
      BY <3>1, <1>5
    <3>3. PICK k \in Requests : \E i \in DOMAIN line[k] : line[k][i] = v
      BY <3>2 DEF IInv, Lines
    <3>4. PICK i \in DOMAIN line[k] : line[k][i] = v
      BY <3>3
    <3>5. CASE k # l
      BY <3>4, <3>5, <2>1
    <3>6. CASE k = l
      <4>1. i \in DOMAIN s /\ s[i] = v /\ i # 1 /\ i \in Nat
        BY <3>2, <3>4, <3>6, <1>1, <1>3 DEF s
      <4>2. i - 1 \in DOMAIN next /\ next[i - 1] = s[(i - 1) + 1] /\ (i - 1) + 1 = i
        BY <4>1, <1>3
      <4> QED BY <4>1, <4>2, <2>1, <1>1
    <3> QED BY <3>5, <3>6
  <2>4. \A k \in Requests : \A i \in DOMAIN line'[k] :
          /\ worker'[line'[k][i]] \in Busy
          /\ i = 1 <=> worker'[line'[k][i]] # "lining"
    <3>1. SUFFICES ASSUME NEW k \in Requests, NEW i \in DOMAIN line'[k]
                   PROVE  /\ worker'[line'[k][i]] \in Busy
                          /\ i = 1 <=> worker'[line'[k][i]] # "lining"
      OBVIOUS
    <3>2. CASE k # l
      <4>1. line'[k][i] = line[k][i] /\ i \in DOMAIN line[k] /\ line[k][i] \in Workers
        BY <3>2, <2>1, <2>2
      <4>2. line[k][i] # w /\ (next # <<>> => line[k][i] # Head(next))
        <5>1. line[k][i] # line[l][1] /\ (2 \in DOMAIN line[l] => line[k][i] # line[l][2])
          <6>1. 1 \in DOMAIN line[l]
            BY <1>1 DEF s
          <6> QED BY <6>1, <4>1, <3>2, <1>1 DEF IInv, Lines
        <5> QED BY <5>1, <1>1, <1>3 DEF s
      <4>3. worker'[line[k][i]] = worker[line[k][i]]
        BY <4>1, <4>2, <1>5
      <4> QED BY <4>1, <4>3 DEF IInv, Lines
    <3>3. CASE k = l
      <4>1. /\ line'[k][i] = s[i + 1] /\ i + 1 \in DOMAIN s /\ s[i + 1] \in Workers
            /\ i \in Nat \ {0} /\ line'[k][i] = next[i] /\ i \in DOMAIN next
        BY <3>3, <2>1, <1>3
      <4>2. worker[s[i + 1]] = "lining" /\ worker[s[i + 1]] \in Busy
        <5>1. worker[s[i + 1]] = "lining"
          <6>1. i + 1 # 1 /\ i + 1 \in DOMAIN line[l] /\ s[i + 1] = line[l][i + 1]
            BY <4>1 DEF s
          <6> QED BY <6>1, <1>1, Waits DEF IInv
        <5> QED BY <5>1 DEF Busy
      <4>3. s[i + 1] # w
        BY <4>2, <1>1
      <4>4. CASE i = 1
        <5>1. Head(next) = s[i + 1] /\ next # <<>>
          BY <4>1, <4>4, <1>3
        <5> QED BY <4>1, <4>4, <5>1, <1>5 DEF Busy
      <4>5. CASE i # 1
        <5>1. next # <<>> => s[i + 1] # Head(next)
          BY <4>1, <4>5, <1>1, <1>3 DEF IInv, Lines, s
        <5>2. worker'[s[i + 1]] = worker[s[i + 1]]
          BY <4>1, <4>3, <5>1, <1>5
        <5> QED BY <4>1, <4>2, <4>5, <5>2
      <4> QED BY <4>4, <4>5
    <3> QED BY <3>2, <3>3
  <2>5. \A k, j \in Requests : \A a \in DOMAIN line'[k], b \in DOMAIN line'[j] :
          line'[k][a] = line'[j][b] => k = j /\ a = b
    <3>1. SUFFICES ASSUME NEW k \in Requests, NEW j \in Requests, NEW a \in DOMAIN line'[k],
                          NEW b \in DOMAIN line'[j], line'[k][a] = line'[j][b]
                   PROVE  k = j /\ a = b
      OBVIOUS
    <3>2. PICK c \in DOMAIN line[k] : line'[k][a] = line[k][c] /\ (k # l => c = a)
                                      /\ (k = l => c = a + 1 /\ a \in Nat)
      BY <2>1, <1>3 DEF s
    <3>3. PICK d \in DOMAIN line[j] : line'[j][b] = line[j][d] /\ (j # l => d = b)
                                      /\ (j = l => d = b + 1 /\ b \in Nat)
      BY <2>1, <1>3 DEF s
    <3>4. k = j /\ c = d
      <4>1. line[k][c] = line[j][d] /\ Lines
        BY <3>1, <3>2, <3>3 DEF IInv
      <4> QED BY <4>1, OnePlace
    <3> QED BY <3>2, <3>3, <3>4
  <2> QED BY <2>3, <2>4, <2>5 DEF Lines
<1>9. Places'
  BY <1>2, <1>5 DEF IInv, Places
<1>10. Unanswered'
  <2>1. w # Listener /\ Nobody # Listener
    BY DEF Workers, Listener, Nobody
  <2> QED BY <1>2, <1>5, <2>1 DEF IInv, Unanswered
<1>11. InTurn' /\ ConnectionsAreApart'
  BY DEF IInv, InTurn, ConnectionsAreApart
<1> QED BY <1>6, <1>7, <1>8, <1>9, <1>10, <1>11 DEF IInv

(* The connection is gone: the answer is dropped.                           *)
LEMMA UnheardStep == ASSUME IInv, NEW w \in Workers, Unheard(w) PROVE IInv'
<1>1. /\ worker[w] = "answering" /\ Release(w)
      /\ UNCHANGED <<session, link, sender, outgoing, events, pushed, holder, asked, refusing,
                     answered, stopping>>
  BY DEF Unheard, connection
<1>2. holder # w
  BY <1>1 DEF IInv, Held
<1> QED BY <1>1, <1>2, ReleaseStep

(* The answer is sent, or the connection closed.                            *)
LEMMA AnsweredStep == ASSUME IInv, NEW w \in Workers, Answered(w) PROVE IInv'
<1>1. /\ worker[w] = "sending" /\ Release(w) /\ holder' = Nobody
      /\ link' \in {link, "closed"} /\ (link' = "none" <=> link = "none")
      /\ UNCHANGED <<session, sender, outgoing, events, pushed, asked, refusing, answered, stopping>>
  BY DEF Answered
<1>2. holder = w
  BY <1>1 DEF IInv, Held
<1> QED BY <1>1, <1>2, ReleaseStep

----------------------------------------------------------------------------
(* The theorems                                                            *)

(* At the start nobody has asked for anything.                              *)
LEMMA InitInvariant == Init => IInv
<1> SUFFICES ASSUME Init PROVE IInv
  OBVIOUS
<1>1. \A w \in Workers : worker[w] = "none" /\ worker[w] \notin Busy
  BY DEF Init, Busy
<1>2. TypeOK
  <2>1. /\ outgoing \in Seq(Event) /\ pushed \in Seq([event : Event, to : Nat])
        /\ queue \in Seq(Requests) /\ begun \in Seq(Requests)
        /\ line \in [Requests -> Seq(Workers)]
    BY DEF Init
  <2>2. /\ asked \in Seq([target : Targets, session : Nat]) /\ Len(asked) <= MaxRequests
        /\ request \in [Workers -> 0 .. MaxRequests] /\ refusing \in 0 .. MaxRequests
    BY SessionAssumption DEF Init
  <2> QED BY <2>1, <2>2 DEF Init, TypeOK
<1>3. Held /\ Links
  BY <1>1 DEF Init, Held, Links, Nobody, Sender, Listener, Workers
<1>4. Lines /\ Places
  BY <1>1 DEF Init, Lines, Places
<1>5. Unanswered /\ InTurn /\ ConnectionsAreApart
  BY DEF Init, Unanswered, InTurn, ConnectionsAreApart
<1> QED BY <1>2, <1>3, <1>4, <1>5 DEF IInv

(* Every step keeps the invariant.                                          *)
LEMMA InvariantStep == IInv /\ [Next]_vars => IInv'
<1> SUFFICES ASSUME IInv, [Next]_vars PROVE IInv'
  OBVIOUS
<1>1. CASE Connect \/ Disconnect \/ Unwind
  BY <1>1, ConnectStep, CloseStep, UnwindStep
<1>2. CASE Emit \/ Push \/ Pushed
  BY <1>2, EmitStep, PushStep, PushedStep
<1>3. CASE \E t \in Targets : Ask(t)
  BY <1>3, AskStep
<1>4. CASE Refuse \/ Refused
  BY <1>4, RefuseStep, RefusedStep
<1>5. ASSUME NEW w \in Workers, Wait(w) \/ Retire(w) \/ Callback(w) \/ Handled(w) PROVE IInv'
  BY <1>5, MovesOfWorkers
<1>6. ASSUME NEW w \in Workers, Take(w) \/ Unheard(w) \/ Answer(w) \/ Answered(w) PROVE IInv'
  BY <1>6, TakeStep, UnheardStep, AnswerStep, AnsweredStep
<1>7. CASE Stop \/ StopDispatcher \/ StopWorkers
  BY <1>7, CloseStep, StopDispatcherStep, StopWorkersStep
<1>8. CASE UNCHANGED vars
  <2>1. UNCHANGED <<session, link, sender, outgoing, events, pushed, holder, queue, worker, request,
                    lock, users, line, begun, asked, refusing, answered, stopping>>
    BY <1>8 DEF vars, connection, pool
  <2>2. TypeOK' /\ Held' /\ Links'
    BY <2>1 DEF IInv, TypeOK, Held, Links
  <2>3. Lines' /\ Places'
    BY <2>1 DEF IInv, Lines, Places
  <2>4. Unanswered' /\ InTurn' /\ ConnectionsAreApart'
    BY <2>1 DEF IInv, Unanswered, InTurn, ConnectionsAreApart
  <2> QED BY <2>2, <2>3, <2>4 DEF IInv
<1> QED BY <1>1, <1>2, <1>3, <1>4, <1>5, <1>6, <1>7, <1>8 DEF Next, Worker

(* IInv is an invariant of the session.                                     *)
THEOREM Invariant == Spec => []IInv
<1> QED BY InitInvariant, InvariantStep, PTL DEF Spec

(* Every variable of the session, the dispatcher and stop() has its type.   *)
THEOREM TypeCorrect == Spec => []TypeOK
<1>1. IInv => TypeOK
  BY DEF IInv
<1> QED BY Invariant, <1>1, PTL

(* Answers and events stay with their connection: an answer goes only to    *)
(* the connection that asked, and once; events are pushed in order and only *)
(* to the connection during which they came.                               *)
THEOREM ConnectionsStayApart == Spec => []ConnectionsAreApart
<1>1. IInv => ConnectionsAreApart
  BY DEF IInv
<1> QED BY Invariant, <1>1, PTL

----------------------------------------------------------------------------
(* The order in which a target is served                                    *)

(* Where the requests of lines, queue and begun are.                        *)
LEMMA Numbers ==
  ASSUME IInv
  PROVE  /\ Len(asked) \in Nat /\ 1 .. Len(asked) \subseteq Requests
         /\ Requests \subseteq Nat /\ 0 \notin Requests
         /\ \A r \in 1 .. Len(asked) : asked[r].target \in Targets
         /\ \A l \in Requests : \A i \in DOMAIN line[l] :
              /\ line[l][i] \in Workers /\ worker[line[l][i]] \in Busy
              /\ request[line[l][i]] \in 1 .. Len(asked) /\ i \in Nat \ {0}
         /\ \A k \in DOMAIN queue : queue[k] \in 1 .. Len(asked)
         /\ \A b \in DOMAIN begun : begun[b] \in Requests
<1>1. /\ Len(asked) \in Nat /\ 1 .. Len(asked) \subseteq Requests
      /\ Requests \subseteq Nat /\ 0 \notin Requests
  BY SessionAssumption DEF IInv, TypeOK, Requests
<1>2. ASSUME NEW r \in 1 .. Len(asked) PROVE asked[r].target \in Targets
  <2> DEFINE A == [target : Targets, session : Nat]
  <2>1. asked \in Seq(A)
    BY DEF IInv, TypeOK
  <2> HIDE DEF A
  <2>2. asked[r] \in A
    BY <2>1
  <2> QED BY <2>2 DEF A
<1>3. \A l \in Requests : \A i \in DOMAIN line[l] :
        /\ line[l][i] \in Workers /\ worker[line[l][i]] \in Busy
        /\ request[line[l][i]] \in 1 .. Len(asked) /\ i \in Nat \ {0}
  <2>1. \A l \in Requests : line[l] \in Seq(Workers)
    BY DEF IInv, TypeOK
  <2>2. \A l \in Requests : \A i \in DOMAIN line[l] : line[l][i] \in Workers /\ i \in Nat \ {0}
    BY <2>1
  <2> QED BY <2>2 DEF IInv, Lines, Places
<1>4. \A k \in DOMAIN queue : queue[k] \in 1 .. Len(asked)
  <2>1. \A k \in DOMAIN queue : queue[k] \in Requests
    BY DEF IInv, TypeOK
  <2> QED BY <1>1, <2>1 DEF IInv, Places, Requests
<1>5. \A b \in DOMAIN begun : begun[b] \in Requests
  BY DEF IInv, TypeOK
<1> QED BY <1>1, <1>2, <1>3, <1>4, <1>5

(* Most steps leave lines, locks and requests alone.                        *)
LEMMA OrderKept ==
  ASSUME OrderInv, UNCHANGED <<asked, queue, request, lock, users, line, begun>>
  PROVE  OrderInv'
BY DEF OrderInv, Locks, Turns, BegunInOrder

(* The new request comes after all others.                                  *)
LEMMA OrderAsk == ASSUME IInv, OrderInv, NEW t \in Targets, Ask(t) PROVE OrderInv'
<1> DEFINE r == Len(asked) + 1
           q == [target |-> t, session |-> session]
<1>1. /\ asked' = Append(asked, q) /\ queue' \in {queue, Append(queue, r)}
      /\ UNCHANGED <<request, lock, users, line, begun>>
  BY DEF Ask
<1>2. /\ Len(asked') = r /\ Len(asked) \in Nat /\ r \in Nat
      /\ \A i \in 1 .. Len(asked) : asked'[i] = asked[i]
  <2> DEFINE A == [target : Targets, session : Nat]
  <2>1. asked \in Seq(A)
    BY DEF IInv, TypeOK
  <2>2. q \in A
    BY DEF IInv, TypeOK
  <2> HIDE DEF A, q
  <2> QED BY <1>1, <2>1, <2>2
<1> HIDE DEF q
<1>3. \A i \in DOMAIN queue' : /\ i \in Nat
                               /\ \/ i \in DOMAIN queue /\ queue'[i] = queue[i] /\ i < Len(queue) + 1
                                  \/ i = Len(queue) + 1 /\ queue'[i] = r
  <2>1. queue \in Seq(Requests)
    BY DEF IInv, TypeOK
  <2>2. r \in Requests /\ r \in Nat
    BY <1>2, SessionAssumption DEF Ask, Requests
  <2> HIDE DEF r
  <2>3. CASE queue' = queue
    <3>1. \A i \in DOMAIN queue : i \in Nat /\ i < Len(queue) + 1
      BY <2>1
    <3> QED BY <2>3, <3>1
  <2>4. CASE queue' = Append(queue, r)
    BY <2>1, <2>2, <2>4, Appended
  <2> QED BY <1>1, <2>3, <2>4
<1>4. Locks'
  BY <1>1, <1>2, Numbers DEF OrderInv, Locks
<1>5. Turns'
  <2>1. \A b \in DOMAIN begun : begun[b] \in 1 .. Len(asked) /\ begun[b] < r /\ begun[b] <= Len(asked')
    BY <1>2, Numbers DEF OrderInv, Turns, Requests
  <2>2. \A l \in Requests : \A i \in DOMAIN line[l] : request[line[l][i]] < r
    BY <1>2, Numbers
  <2>3. \A k \in DOMAIN queue : queue[k] < r
    BY <1>2, Numbers
  <2>4. \A l \in Requests : line[l] # <<>> => asked'[l] = asked[l]
    BY <1>2, Numbers DEF OrderInv, Locks, Requests
  <2>5. \A l \in Requests : \A i \in DOMAIN line[l], b \in DOMAIN begun :
          i # 1 /\ asked'[begun[b]].target = asked'[l].target => begun[b] < request[line[l][i]]
    <3>1. \A l \in Requests : \A i \in DOMAIN line[l] : line[l] # <<>>
      OBVIOUS
    <3> QED BY <1>2, <2>1, <2>4, <3>1 DEF OrderInv, Turns
  <2>6. \A i, j \in DOMAIN queue' : i < j => queue'[i] < queue'[j]
    BY <1>3, <2>3 DEF OrderInv, Turns
  <2>7. \A i \in DOMAIN queue', b \in DOMAIN begun : begun[b] < queue'[i]
    BY <1>3, <2>1 DEF OrderInv, Turns
  <2>8. \A l \in Requests : \A i \in DOMAIN line[l] : \A k \in DOMAIN queue' :
          request[line[l][i]] < queue'[k]
    BY <1>3, <2>2 DEF OrderInv, Turns
  <2> QED BY <1>1, <2>1, <2>5, <2>6, <2>7, <2>8 DEF OrderInv, Turns
<1>6. BegunInOrder'
  BY <1>1, <1>2, Numbers DEF OrderInv, Turns, BegunInOrder, Requests
<1> QED BY <1>4, <1>5, <1>6 DEF OrderInv

(* A lock whose line is not empty is the one of its target.                 *)
LEMMA OneLock ==
  ASSUME IInv, OrderInv, NEW l \in Requests, NEW k \in Requests, line[l] # <<>>, line[k] # <<>>,
         asked[l].target = asked[k].target
  PROVE  l = k
BY DEF OrderInv, Locks

(* A request gets into the line of its target, behind all that came before  *)
(* it; its lock is the one that the others of the target wait for.          *)
LEMMA OrderTake == ASSUME IInv, OrderInv, NEW w \in Workers, Take(w) PROVE OrderInv'
<1> DEFINE r == Head(queue)
           t == asked[r].target
           l == IF lock[t] = Nobody THEN r ELSE lock[t]
           n == Len(line[l]) + 1
<1>1. /\ worker[w] \notin Busy /\ queue # <<>> /\ queue' = Tail(queue)
      /\ request' = [request EXCEPT ![w] = r] /\ lock' = [lock EXCEPT ![t] = l]
      /\ users' = [users EXCEPT ![t] = @ + 1] /\ line' = [line EXCEPT ![l] = Append(@, w)]
      /\ begun' = (IF line[l] = <<>> THEN Append(begun, r) ELSE begun)
      /\ UNCHANGED asked
  BY DEF Take, Busy
<1>2. /\ r = queue[1] /\ 1 \in DOMAIN queue /\ r \in 1 .. Len(asked)
      /\ \A i \in DOMAIN queue' : i \in Nat \ {0} /\ i + 1 \in DOMAIN queue /\ queue'[i] = queue[i + 1]
  <2>1. /\ r = queue[1] /\ 1 \in DOMAIN queue
        /\ \A i \in DOMAIN queue' : i \in Nat \ {0} /\ i + 1 \in DOMAIN queue /\ queue'[i] = queue[i + 1]
    <3>1. queue \in Seq(Requests)
      BY DEF IInv, TypeOK
    <3>2. PICK q \in Seq(Requests) : q = queue /\ q # <<>>
      BY <1>1, <3>1
    <3>3. /\ Head(q) = q[1] /\ 1 \in DOMAIN q
          /\ \A i \in DOMAIN Tail(q) : i \in Nat \ {0} /\ i + 1 \in DOMAIN q /\ Tail(q)[i] = q[i + 1]
      BY <3>2, TailOf
    <3>4. queue' = Tail(q)
      BY <1>1, <3>2
    <3> QED BY ONLY <3>2, <3>3, <3>4
  <2> QED BY <2>1, Numbers
<1>3. t \in Targets
  BY <1>2, Numbers
<1>4. /\ l \in 1 .. Len(asked) /\ l \in Requests /\ asked[l].target = t
      /\ lock[t] = Nobody => l = r /\ users[t] = 0
      /\ lock[t] # Nobody => lock[t] = l /\ users[t] = Len(line[l])
  <2>1. \/ lock[t] = Nobody /\ users[t] = 0
        \/ /\ lock[t] \in 1 .. Len(asked) /\ asked[lock[t]].target = t
           /\ users[t] = Len(line[lock[t]])
    BY <1>3 DEF OrderInv, Locks
  <2>2. 1 .. Len(asked) \subseteq Requests
    BY Numbers
  <2>3. CASE lock[t] = Nobody
    <3>1. l = r /\ r \in 1 .. Len(asked) /\ asked[r].target = t
      BY <2>3, <1>2
    <3> HIDE DEF l, r, t
    <3> QED BY <2>1, <2>2, <2>3, <3>1, Numbers DEF Nobody
  <2>4. CASE lock[t] # Nobody
    BY <2>1, <2>2, <2>4
  <2> QED BY <2>3, <2>4
<1>5. lock[t] = Nobody => line[l] = <<>>
  BY <1>4, Numbers DEF OrderInv, Locks, Nobody
<1> HIDE DEF r, t, l
<1>6. \A k \in Requests : line[k] # <<>> /\ asked[k].target = t => k = l /\ lock[t] = l
  BY <1>4, Numbers DEF OrderInv, Locks, Nobody
<1>7. /\ \A k \in Requests : k # l => line'[k] = line[k]
      /\ DOMAIN line'[l] = DOMAIN line[l] \cup {n} /\ n \in Nat \ {0} /\ Len(line'[l]) = n
      /\ line'[l][n] = w /\ line'[l] # <<>>
      /\ \A i \in DOMAIN line[l] : line'[l][i] = line[l][i] /\ i < n
      /\ line[l] = <<>> <=> n = 1
  <2>1. line[l] \in Seq(Workers) /\ line'[l] = Append(line[l], w)
    BY <1>1, <1>4 DEF IInv, TypeOK
  <2>2. \A k \in Requests : k # l => line'[k] = line[k]
    BY <1>1, <1>4 DEF IInv, TypeOK
  <2> QED BY <2>1, <2>2, Appended
<1> HIDE DEF n
<1>8. /\ request'[w] = r
      /\ \A k \in Requests : \A i \in DOMAIN line[k] :
           line[k][i] # w /\ request'[line[k][i]] = request[line[k][i]]
      /\ lock'[t] = l /\ users'[t] = users[t] + 1
      /\ \A u \in Targets : u # t => lock'[u] = lock[u] /\ users'[u] = users[u]
  BY <1>1, <1>3, Numbers DEF IInv, TypeOK
<1>9. Locks'
  <2>1. ASSUME NEW k \in Requests, line'[k] # <<>>
        PROVE  /\ k <= Len(asked') /\ lock'[asked'[k].target] = k
               /\ \A i \in DOMAIN line'[k] : asked'[request'[line'[k][i]]].target = asked'[k].target
    <3>1. CASE k # l
      <4>1. line[k] # <<>> /\ line'[k] = line[k] /\ asked[k].target # t /\ k <= Len(asked)
        BY <2>1, <3>1, <1>6, <1>7 DEF OrderInv, Locks
      <4>2. asked[k].target \in Targets
        BY <4>1, Numbers DEF Requests
      <4> QED BY <4>1, <4>2, <1>1, <1>8 DEF OrderInv, Locks
    <3>2. CASE k = l
      <4>1. \A i \in DOMAIN line[l] : line[l] # <<>>
        OBVIOUS
      <4>2. \A i \in DOMAIN line[l] : asked[request'[line'[l][i]]].target = asked[l].target
        BY <4>1, <1>4, <1>7, <1>8 DEF OrderInv, Locks
      <4>3. asked[request'[line'[l][n]]].target = asked[l].target
        BY <1>4, <1>7, <1>8 DEF t
      <4> QED BY <3>2, <4>2, <4>3, <1>1, <1>4, <1>7, <1>8
    <3> QED BY <3>1, <3>2
  <2>2. ASSUME NEW u \in Targets
        PROVE  \/ lock'[u] = Nobody /\ users'[u] = 0
               \/ /\ lock'[u] \in 1 .. Len(asked') /\ asked'[lock'[u]].target = u
                  /\ line'[lock'[u]] # <<>> /\ users'[u] = Len(line'[lock'[u]])
    <3>1. CASE u = t
      <4>1. users[t] + 1 = n
        BY <1>4, <1>5 DEF n
      <4> QED BY <3>1, <4>1, <1>1, <1>4, <1>7, <1>8
    <3>2. CASE u # t
      <4>1. \/ lock[u] = Nobody /\ users[u] = 0
            \/ /\ lock[u] \in 1 .. Len(asked) /\ asked[lock[u]].target = u
               /\ line[lock[u]] # <<>> /\ users[u] = Len(line[lock[u]])
        BY DEF OrderInv, Locks
      <4>2. lock'[u] = lock[u] /\ users'[u] = users[u] /\ asked' = asked
        BY <3>2, <1>1, <1>8
      <4>3. lock[u] # Nobody => line'[lock[u]] = line[lock[u]]
        BY <3>2, <4>1, <1>4, <1>7, Numbers
      <4> QED BY <4>1, <4>2, <4>3, Numbers DEF Nobody
    <3> QED BY <3>1, <3>2
  <2> QED BY <2>1, <2>2 DEF Locks
<1>10. /\ \A b \in DOMAIN begun' : \/ b \in DOMAIN begun /\ begun'[b] = begun[b] /\ b < Len(begun) + 1
                                   \/ b = Len(begun) + 1 /\ begun'[b] = r /\ line[l] = <<>>
       /\ \A b \in DOMAIN begun' : b \in Nat
  <2>1. begun \in Seq(Requests) /\ r \in Requests
    BY <1>2, Numbers DEF IInv, TypeOK
  <2> QED BY <1>1, <2>1, Appended
<1>11. /\ \A b \in DOMAIN begun : begun[b] < r /\ begun[b] \in Nat
       /\ \A i \in DOMAIN queue' : r < queue'[i] /\ queue'[i] \in Nat
       /\ \A k \in Requests : \A i \in DOMAIN line[k] :
            request[line[k][i]] < r /\ request[line[k][i]] \in Nat
  <2>1. \A i \in DOMAIN queue' : 1 < i + 1
    BY <1>2
  <2> QED BY <1>2, <2>1, Numbers DEF OrderInv, Turns
<1>12. Turns'
  <2>1. \A b \in DOMAIN begun' : begun'[b] <= Len(asked)
    BY <1>2, <1>10 DEF OrderInv, Turns
  <2>2. \A i, j \in DOMAIN queue' : i < j => queue'[i] < queue'[j]
    BY <1>2 DEF OrderInv, Turns
  <2>3. \A i \in DOMAIN queue', b \in DOMAIN begun' : begun'[b] < queue'[i]
    BY <1>2, <1>10, <1>11 DEF OrderInv, Turns
  <2>4. ASSUME NEW k \in Requests, NEW i \in DOMAIN line'[k]
        PROVE  /\ \A j \in DOMAIN queue' : request'[line'[k][i]] < queue'[j]
               /\ \A j \in DOMAIN line'[k] : i < j => request'[line'[k][i]] < request'[line'[k][j]]
               /\ \A b \in DOMAIN begun' :
                    i # 1 /\ asked[begun'[b]].target = asked[k].target
                      => begun'[b] < request'[line'[k][i]]
    <3>1. \/ i \in DOMAIN line[k] /\ line'[k][i] = line[k][i] /\ request'[line'[k][i]] = request[line[k][i]]
          \/ k = l /\ i = n /\ request'[line'[k][i]] = r
      BY <1>7, <1>8
    <3>2. \A j \in DOMAIN queue' : request'[line'[k][i]] < queue'[j]
      BY <3>1, <1>2, <1>11 DEF OrderInv, Turns
    <3>3. \A j \in DOMAIN line'[k] : i < j => request'[line'[k][i]] < request'[line'[k][j]]
      <4>1. SUFFICES ASSUME NEW j \in DOMAIN line'[k], i < j
                     PROVE  request'[line'[k][i]] < request'[line'[k][j]]
        OBVIOUS
      <4>2. \/ j \in DOMAIN line[k] /\ request'[line'[k][j]] = request[line[k][j]]
            \/ k = l /\ j = n /\ request'[line'[k][j]] = r
        BY <1>7, <1>8
      <4>3. k = l /\ i = n => j \notin DOMAIN line[k] /\ j # n
        BY <4>1, <1>7
      <4> QED BY <3>1, <4>1, <4>2, <4>3, <1>11 DEF OrderInv, Turns
    <3>4. ASSUME NEW b \in DOMAIN begun', i # 1, asked[begun'[b]].target = asked[k].target
          PROVE  begun'[b] < request'[line'[k][i]]
      <4>1. CASE b \in DOMAIN begun /\ begun'[b] = begun[b]
        BY <3>1, <3>4, <4>1, <1>11 DEF OrderInv, Turns
      <4>2. CASE begun'[b] = r /\ line[l] = <<>>
        <5>1. n = 1 /\ asked[k].target = t
          BY <3>4, <4>2, <1>7 DEF t
        <5>2. i \in DOMAIN line[k] /\ k # l
          BY <3>1, <3>4, <4>2, <5>1
        <5>3. line[k] # <<>>
          BY <5>2
        <5> QED BY <5>1, <5>2, <5>3, <1>6
      <4>3. \/ b \in DOMAIN begun /\ begun'[b] = begun[b]
            \/ begun'[b] = r /\ line[l] = <<>>
        BY ONLY <1>10, b \in DOMAIN begun'
      <4> QED BY ONLY <4>1, <4>2, <4>3
    <3> QED BY <3>2, <3>3, <3>4
  <2>5. \A k \in Requests : \A i \in DOMAIN line'[k] :
               /\ \A j \in DOMAIN queue' : request'[line'[k][i]] < queue'[j]
               /\ \A j \in DOMAIN line'[k] : i < j => request'[line'[k][i]] < request'[line'[k][j]]
               /\ \A b \in DOMAIN begun' :
                    i # 1 /\ asked[begun'[b]].target = asked[k].target
                      => begun'[b] < request'[line'[k][i]]
    BY ONLY <2>4
  <2>6. asked' = asked
    BY <1>1
  <2> QED BY ONLY <2>1, <2>2, <2>3, <2>5, <2>6 DEF Turns
<1>13. BegunInOrder'
  BY <1>1, <1>10, <1>11 DEF OrderInv, BegunInOrder
<1> QED BY <1>9, <1>12, <1>13 DEF OrderInv

(* The length of the rest of a sequence.                                    *)
LEMMA LenOfTail ==
  ASSUME NEW S, NEW s \in Seq(S), s # <<>>
  PROVE  Len(Tail(s)) = Len(s) - 1 /\ Len(s) \in Nat \ {0} /\ (Tail(s) = <<>> <=> Len(s) = 1)
<1>1. Len(Tail(s)) = Len(s) - 1 /\ Len(s) \in Nat \ {0} /\ Tail(s) \in Seq(S)
  OBVIOUS
<1>2. Tail(s) = <<>> <=> Len(Tail(s)) = 0
  <2> DEFINE u == Tail(s)
  <2>1. u \in Seq(S)
    BY <1>1
  <2> HIDE DEF u
  <2>2. u = <<>> <=> Len(u) = 0
    BY <2>1
  <2> QED BY <2>2 DEF u
<1> QED BY <1>1, <1>2

(* The next in line begins; without one the lock is taken out of the table. *)
LEMMA OrderRelease ==
  ASSUME IInv, OrderInv, NEW w \in Workers, worker[w] \in {"answering", "sending"}, Release(w),
         UNCHANGED asked
  PROVE  OrderInv'
<1> DEFINE l == LockOf(w)
           s == line[l]
           next == Tail(s)
           t == asked[request[w]].target
<1>1. l \in Requests /\ s \in Seq(Workers) /\ s # <<>> /\ s[1] = w
  BY FirstOfLine
<1>2. /\ line' = [line EXCEPT ![l] = next]
      /\ users' = [users EXCEPT ![t] = IF IsLast(@) THEN 0 ELSE @ - 1]
      /\ lock' = [lock EXCEPT ![t] = IF IsLast(users[t]) THEN Nobody ELSE @]
      /\ request' = [request EXCEPT ![w] = 0]
      /\ begun' = (IF next = <<>> THEN begun ELSE Append(begun, request[Head(next)]))
      /\ UNCHANGED <<asked, queue>>
  BY DEF Release
<1> HIDE DEF l
<1>3. /\ 1 \in DOMAIN s
      /\ \A i \in DOMAIN next : /\ i \in Nat \ {0} /\ i + 1 \in DOMAIN s /\ next[i] = s[i + 1]
      /\ next # <<>> => Head(next) = s[2] /\ 2 \in DOMAIN s
      /\ Len(next) = Len(s) - 1 /\ Len(s) \in Nat \ {0}
      /\ next = <<>> <=> Len(s) = 1
  <2>1. Len(next) = Len(s) - 1 /\ Len(s) \in Nat \ {0} /\ (next = <<>> <=> Len(s) = 1)
    BY <1>1, LenOfTail
  <2> QED BY <1>1, <2>1, TailOf
<1>4. /\ t = asked[l].target /\ t \in Targets /\ lock[t] = l /\ users[t] = Len(s)
      /\ l \in 1 .. Len(asked) /\ l # Nobody
  <2>1. t = asked[l].target /\ lock[asked[l].target] = l /\ l <= Len(asked)
    BY <1>1, <1>3 DEF OrderInv, Locks
  <2>2. l \in 1 .. Len(asked) /\ l # Nobody
    BY <1>1, <2>1, Numbers DEF Requests, Nobody
  <2>3. asked[l].target \in Targets
    BY <2>2, Numbers
  <2> QED BY <2>1, <2>2, <2>3 DEF OrderInv, Locks
<1> HIDE DEF t
<1>5. /\ line'[l] = next
      /\ \A k \in Requests : k # l => line'[k] = line[k]
      /\ lock'[t] = (IF next = <<>> THEN Nobody ELSE l)
      /\ users'[t] = (IF next = <<>> THEN 0 ELSE Len(next))
      /\ \A u \in Targets : u # t => lock'[u] = lock[u] /\ users'[u] = users[u]
      /\ \A v \in Workers : v # w => request'[v] = request[v]
  <2>1. line \in [Requests -> Seq(Workers)] /\ request \in [Workers -> 0 .. MaxRequests]
        /\ lock \in [Targets -> {Nobody} \cup Requests] /\ users \in [Targets -> Int]
    BY DEF IInv, TypeOK
  <2>2. IsLast(users[t]) <=> next = <<>>
    BY <1>3, <1>4 DEF IsLast
  <2>3. users[t] - 1 = Len(next)
    BY <1>3, <1>4
  <2> HIDE DEF next, s
  <2>4. lock'[t] = (IF next = <<>> THEN Nobody ELSE l) /\ users'[t] = (IF next = <<>> THEN 0 ELSE Len(next))
    BY <1>2, <1>4, <2>1, <2>2, <2>3
  <2> QED BY <1>1, <1>2, <1>4, <2>1, <2>4
<1>6. \A k \in Requests : \A i \in DOMAIN line'[k] :
        /\ k # l => i \in DOMAIN line[k] /\ line'[k][i] = line[k][i]
        /\ k = l => i + 1 \in DOMAIN line[k] /\ line'[k][i] = line[k][i + 1] /\ i \in Nat \ {0}
        /\ request'[line'[k][i]] = request[line'[k][i]]
  <2>1. ASSUME NEW k \in Requests, NEW i \in DOMAIN line'[k]
        PROVE  /\ k # l => i \in DOMAIN line[k] /\ line'[k][i] = line[k][i]
               /\ k = l => i + 1 \in DOMAIN line[k] /\ line'[k][i] = line[k][i + 1] /\ i \in Nat \ {0}
    BY <1>3, <1>5
  <2>2. ASSUME NEW k \in Requests, NEW i \in DOMAIN line'[k]
        PROVE  line'[k][i] \in Workers /\ line'[k][i] # w
    <3>1. PICK j \in DOMAIN line[k] : line'[k][i] = line[k][j] /\ (k = l => j # 1)
      BY <2>1
    <3>2. line[k][j] # line[l][1]
      BY <3>1, <1>1, <1>3, OnePlace DEF IInv
    <3> QED BY <3>1, <3>2, <1>1, Numbers
  <2> QED BY <2>1, <2>2, <1>5
<1>7. Locks'
  <2>1. ASSUME NEW k \in Requests, line'[k] # <<>>
        PROVE  /\ k <= Len(asked') /\ lock'[asked'[k].target] = k
               /\ \A i \in DOMAIN line'[k] : asked'[request'[line'[k][i]]].target = asked'[k].target
    <3>1. line[k] # <<>>
      BY <2>1, <1>1, <1>5
    <3>2. /\ k <= Len(asked) /\ lock[asked[k].target] = k
          /\ \A i \in DOMAIN line'[k] : asked[request'[line'[k][i]]].target = asked[k].target
      BY <3>1, <1>6 DEF OrderInv, Locks
    <3>3. asked[k].target \in Targets
      BY <3>2, Numbers DEF Requests
    <3>4. lock'[asked[k].target] = k
      BY <2>1, <3>2, <3>3, <1>4, <1>5
    <3> QED BY <3>2, <3>4, <1>2
  <2>2. ASSUME NEW u \in Targets
        PROVE  \/ lock'[u] = Nobody /\ users'[u] = 0
               \/ /\ lock'[u] \in 1 .. Len(asked') /\ asked'[lock'[u]].target = u
                  /\ line'[lock'[u]] # <<>> /\ users'[u] = Len(line'[lock'[u]])
    <3>1. CASE u = t
      <4>1. asked' = asked /\ asked[l].target = u
        BY <3>1, <1>2, <1>4
      <4> HIDE DEF next, t, l
      <4>2. CASE next = <<>>
        BY <3>1, <4>2, <1>5
      <4>3. CASE next # <<>>
        <5>1. lock'[u] = l /\ users'[u] = Len(next) /\ line'[l] = next
          BY <3>1, <4>3, <1>4, <1>5
        <5>2. l \in 1 .. Len(asked')
          BY <4>1, <1>4
        <5> QED BY ONLY <4>1, <4>3, <5>1, <5>2
      <4> QED BY <4>2, <4>3
    <3>2. CASE u # t
      <4>1. \/ lock[u] = Nobody /\ users[u] = 0
            \/ /\ lock[u] \in 1 .. Len(asked) /\ asked[lock[u]].target = u
               /\ line[lock[u]] # <<>> /\ users[u] = Len(line[lock[u]])
        BY DEF OrderInv, Locks
      <4>2. lock'[u] = lock[u] /\ users'[u] = users[u] /\ asked' = asked
        BY <3>2, <1>2, <1>5
      <4>3. lock[u] # Nobody => line'[lock[u]] = line[lock[u]]
        BY <3>2, <4>1, <1>4, <1>5, Numbers
      <4> QED BY <4>1, <4>2, <4>3, Numbers DEF Nobody
    <3> QED BY <3>1, <3>2
  <2> QED BY <2>1, <2>2 DEF Locks
<1>8. next # <<>> => /\ request[s[2]] \in 1 .. Len(asked) /\ asked[request[s[2]]].target = t
  <2>1. next # <<>> => 2 \in DOMAIN line[l] /\ line[l] # <<>>
    BY <1>3, <1>1
  <2> QED BY <2>1, <1>1, <1>4, Numbers DEF OrderInv, Locks
<1>9. \A b \in DOMAIN begun' : /\ b \in Nat
                               /\ \/ b \in DOMAIN begun /\ begun'[b] = begun[b] /\ b < Len(begun) + 1
                                  \/ b = Len(begun) + 1 /\ begun'[b] = request[s[2]] /\ next # <<>>
  <2>1. begun \in Seq(Requests) /\ (next # <<>> => request[s[2]] \in Requests)
    BY <1>8, Numbers DEF IInv, TypeOK
  <2>2. begun' = (IF next = <<>> THEN begun ELSE Append(begun, request[s[2]]))
    BY <1>2, <1>3
  <2> HIDE DEF next, s
  <2> QED BY <2>1, <2>2, Appended
<1>10. Turns'
  <2>1. \A b \in DOMAIN begun' : begun'[b] <= Len(asked)
    BY <1>8, <1>9 DEF OrderInv, Turns
  <2>2. \A i \in DOMAIN queue, b \in DOMAIN begun' : begun'[b] < queue[i]
    BY <1>1, <1>3, <1>9 DEF OrderInv, Turns
  <2>3. ASSUME NEW k \in Requests, NEW i \in DOMAIN line'[k]
        PROVE  /\ \A j \in DOMAIN queue : request'[line'[k][i]] < queue[j]
               /\ \A j \in DOMAIN line'[k] : i < j => request'[line'[k][i]] < request'[line'[k][j]]
               /\ \A b \in DOMAIN begun' :
                    i # 1 /\ asked[begun'[b]].target = asked[k].target
                      => begun'[b] < request'[line'[k][i]]
    <3> DEFINE at(j) == IF k = l THEN j + 1 ELSE j
    <3>1. \A j \in DOMAIN line'[k] : /\ at(j) \in DOMAIN line[k] /\ j \in Nat \ {0}
                                     /\ request'[line'[k][j]] = request[line[k][at(j)]]
      BY <1>6, Numbers
    <3>2. \A j \in DOMAIN line'[k] : i < j => at(i) < at(j)
      BY <3>1
    <3>3. i # 1 => at(i) # 1 /\ (k = l => 2 < at(i))
      BY <3>1
    <3> HIDE DEF at
    <3>4. \A j \in DOMAIN queue : request'[line'[k][i]] < queue[j]
      BY <3>1 DEF OrderInv, Turns
    <3>5. \A j \in DOMAIN line'[k] : i < j => request'[line'[k][i]] < request'[line'[k][j]]
      BY <3>1, <3>2 DEF OrderInv, Turns
    <3>6. ASSUME NEW b \in DOMAIN begun', i # 1, asked[begun'[b]].target = asked[k].target
          PROVE  begun'[b] < request'[line'[k][i]]
      <4>1. CASE b \in DOMAIN begun /\ begun'[b] = begun[b]
        BY <3>1, <3>3, <3>6, <4>1 DEF OrderInv, Turns
      <4>2. CASE begun'[b] = request[s[2]] /\ next # <<>>
        <5>1. line[k] # <<>> /\ line[l] # <<>> /\ asked[k].target = asked[l].target
          BY <3>1, <3>6, <4>2, <1>1, <1>4, <1>8
        <5>2. k = l
          BY <5>1, <1>1, OneLock
        <5>3. 2 \in DOMAIN line[l] /\ at(i) \in DOMAIN line[l] /\ 2 < at(i)
          BY <3>1, <3>3, <3>6, <4>2, <5>2, <1>3
        <5>4. request[line[l][2]] < request[line[l][at(i)]]
          BY <1>1, <5>3 DEF OrderInv, Turns
        <5>5. request'[line'[k][i]] = request[line[l][at(i)]]
          BY <3>1, <5>2
        <5>6. begun'[b] = request[line[l][2]]
          BY <4>2
        <5> QED BY ONLY <5>4, <5>5, <5>6
      <4>3. \/ b \in DOMAIN begun /\ begun'[b] = begun[b]
            \/ begun'[b] = request[s[2]] /\ next # <<>>
        BY ONLY <1>9, b \in DOMAIN begun'
      <4> QED BY ONLY <4>1, <4>2, <4>3
    <3> QED BY <3>4, <3>5, <3>6
  <2>4. \A k \in Requests : \A i \in DOMAIN line'[k] :
               /\ \A j \in DOMAIN queue : request'[line'[k][i]] < queue[j]
               /\ \A j \in DOMAIN line'[k] : i < j => request'[line'[k][i]] < request'[line'[k][j]]
               /\ \A b \in DOMAIN begun' :
                    i # 1 /\ asked[begun'[b]].target = asked[k].target
                      => begun'[b] < request'[line'[k][i]]
    BY ONLY <2>3
  <2>5. asked' = asked /\ queue' = queue
    BY <1>2
  <2>6. \A i, j \in DOMAIN queue : i < j => queue[i] < queue[j]
    BY DEF OrderInv, Turns
  <2> QED BY ONLY <2>1, <2>2, <2>4, <2>5, <2>6 DEF Turns
<1>11. BegunInOrder'
  <2>1. \A b \in DOMAIN begun : next # <<>> /\ asked[begun[b]].target = t => begun[b] < request[s[2]]
    <3>1. next # <<>> => 2 \in DOMAIN line[l] /\ 2 # 1
      BY <1>3
    <3> QED BY <3>1, <1>1, <1>4 DEF OrderInv, Turns
  <2>2. ASSUME NEW i \in DOMAIN begun', NEW j \in DOMAIN begun', i < j,
               asked[begun'[i]].target = asked[begun'[j]].target
        PROVE  begun'[i] < begun'[j]
    <3>1. i \in DOMAIN begun /\ begun'[i] = begun[i]
      <4>1. Len(begun) \in Nat
        BY DEF IInv, TypeOK
      <4>2. i \in Nat /\ j \in Nat /\ j <= Len(begun) + 1
        BY <4>1, <1>9
      <4>3. i # Len(begun) + 1
        BY <2>2, <4>1, <4>2
      <4> QED BY <4>3, <1>9
    <3>2. CASE j \in DOMAIN begun /\ begun'[j] = begun[j]
      BY <2>2, <3>1, <3>2 DEF OrderInv, BegunInOrder
    <3>3. CASE begun'[j] = request[s[2]] /\ next # <<>>
      BY <2>1, <2>2, <3>1, <3>3, <1>8
    <3> QED BY <3>2, <3>3, <1>9
  <2>3. asked' = asked
    BY <1>2
  <2> QED BY <2>2, <2>3 DEF BegunInOrder
<1> QED BY <1>7, <1>10, <1>11 DEF OrderInv

(* Nobody is in a line and nothing in the queue when the workers are gone.  *)
LEMMA OrderStop == ASSUME OrderInv, StopWorkers PROVE OrderInv'
BY DEF OrderInv, Locks, Turns, BegunInOrder, StopWorkers

(* Every step keeps the order.                                              *)
LEMMA OrderStep == IInv /\ OrderInv /\ [Next]_vars => OrderInv'
<1> SUFFICES ASSUME IInv, OrderInv, [Next]_vars PROVE OrderInv'
  OBVIOUS
<1>1. CASE \/ Connect \/ Disconnect \/ Unwind \/ Emit \/ Push \/ Pushed \/ Refuse \/ Refused
           \/ Stop \/ StopDispatcher \/ UNCHANGED vars
  BY <1>1, OrderKept
     DEF Connect, Disconnect, Unwind, Emit, Push, Pushed, Refuse, Refused, Stop, StopDispatcher,
         vars, pool
<1>2. CASE \E t \in Targets : Ask(t)
  BY <1>2, OrderAsk
<1>3. ASSUME NEW w \in Workers, Wait(w) \/ Retire(w) \/ Callback(w) \/ Handled(w) \/ Answer(w)
      PROVE  OrderInv'
  BY <1>3, OrderKept DEF Wait, Retire, Callback, Handled, Answer
<1>4. ASSUME NEW w \in Workers, Unheard(w) \/ Answered(w) PROVE OrderInv'
  BY <1>4, OrderRelease DEF Unheard, Answered
<1>5. ASSUME NEW w \in Workers, Take(w) PROVE OrderInv'
  BY <1>5, OrderTake
<1>6. CASE StopWorkers
  BY <1>6, OrderStop
<1> QED BY <1>1, <1>2, <1>3, <1>4, <1>5, <1>6 DEF Next, Worker

(* For every target one handler at a time works, and handlers are called in *)
(* the order in which its requests came, whatever worker takes them and     *)
(* whenever its lock is dropped and created again.                         *)
THEOREM TargetsInOrder == Spec => []TargetInOrder
<1>1. Init => OrderInv
  BY DEF Init, OrderInv, Locks, Turns, BegunInOrder
<1>2. IInv /\ OrderInv => TargetInOrder
  <2> SUFFICES ASSUME IInv, OrderInv PROVE TargetInOrder
    OBVIOUS
  <2>1. ASSUME NEW t \in Targets
        PROVE  Cardinality({w \in On(t) : worker[w] # "lining"}) <= 1
    <3> DEFINE at == {w \in On(t) : worker[w] # "lining"}
    <3>1. ASSUME NEW v \in at PROVE v = line[lock[t]][1]
      <4>1. v \in Workers /\ worker[v] \in Busy /\ worker[v] # "lining" /\ asked[request[v]].target = t
        BY <3>1 DEF On
      <4>2. PICK l \in Requests : \E i \in DOMAIN line[l] : line[l][i] = v
        BY <4>1 DEF IInv, Lines
      <4>3. PICK i \in DOMAIN line[l] : line[l][i] = v
        BY <4>2
      <4>4. i = 1 /\ line[l] # <<>>
        BY <4>1, <4>3 DEF IInv, Lines
      <4>5. lock[t] = l
        BY <4>1, <4>3, <4>4 DEF OrderInv, Locks
      <4> QED BY <4>3, <4>4, <4>5
    <3>2. at = {} \/ \E v : at = {v}
      <4>1. CASE at # {}
        <5>1. PICK v : v \in at
          BY <4>1
        <5>2. \A u \in at : u = v
          BY <3>1, <5>1
        <5>3. at = {v}
          BY <5>1, <5>2
        <5> QED BY <5>3
      <4> QED BY <4>1
    <3> HIDE DEF at
    <3>3. Cardinality(at) = 0 \/ Cardinality(at) = 1
      BY <3>2, FS_EmptySet, FS_Singleton
    <3> QED BY <3>3 DEF at
  <2> QED BY <2>1 DEF TargetInOrder, OneAtATime, OrderInv
<1>3. IInv /\ [Next]_vars => IInv'
  BY InvariantStep
<1> QED BY InitInvariant, <1>1, <1>2, <1>3, OrderStep, PTL DEF Spec

----------------------------------------------------------------------------
(* OneBotTransports, for any number of peers, actions and events and any    *)
(* capacity of the queues: nobody is left waiting by stop(), no stream has  *)
(* a gap, and the HTTP client posts in order.                               *)

USE TransportAssumption

(* What is in a sequence of numbers after one more is put at its end.       *)
LEMMA NumberAppended ==
  ASSUME NEW s \in Seq(Nat), NEW x \in Nat
  PROVE  /\ Append(s, x) \in Seq(Nat) /\ Len(Append(s, x)) = Len(s) + 1
         /\ DOMAIN Append(s, x) = DOMAIN s \cup {Len(s) + 1}
         /\ \A i \in DOMAIN s : Append(s, x)[i] = s[i] /\ i \in Nat /\ i < Len(s) + 1
         /\ Append(s, x)[Len(s) + 1] = x
OBVIOUS

(* And after its first is taken.                                            *)
LEMMA Taken ==
  ASSUME NEW s \in Seq(Nat), s # <<>>
  PROVE  /\ Head(s) \in Nat /\ Head(s) = s[1] /\ 1 \in DOMAIN s /\ Tail(s) \in Seq(Nat)
         /\ \A i \in DOMAIN Tail(s) : i + 1 \in DOMAIN s /\ Tail(s)[i] = s[i + 1] /\ i \in Nat
         /\ \A i \in DOMAIN s \ {1} : i - 1 \in DOMAIN Tail(s) /\ Tail(s)[i - 1] = s[i] /\ 1 < i
OBVIOUS

LEMMA InAppended ==
  ASSUME NEW s \in Seq(Nat), NEW x \in Nat
  PROVE  In(Append(s, x)) = In(s) \cup ({x} \ {Other})
<1> DEFINE t == Append(s, x)
<1>1. /\ DOMAIN t = DOMAIN s \cup {Len(s) + 1} /\ \A i \in DOMAIN s : t[i] = s[i]
      /\ t[Len(s) + 1] = x
  BY NumberAppended
<1> HIDE DEF t
<1>2. {t[i] : i \in DOMAIN t} = {s[i] : i \in DOMAIN s} \cup {x}
  BY <1>1
<1> QED BY <1>2 DEF In, t

(* A frame is put into the queue of a peer, or the peer is shut.            *)
LEMMA EnqueuedFrame ==
  ASSUME NEW p \in Peers, NEW x \in Nat, peer[p] \in Peer
  PROVE  /\ Enqueued(p, x) \in Peer
         /\ Enqueued(p, x).st = peer[p].st /\ Enqueued(p, x).sort = peer[p].sort
         /\ Enqueued(p, x).from = peer[p].from /\ Enqueued(p, x).got = peer[p].got
         /\ \/ Enqueued(p, x).q = peer[p].q /\ Enqueued(p, x).shut
            \/ Enqueued(p, x).q = Append(peer[p].q, x) /\ ~Enqueued(p, x).shut /\ ~peer[p].shut
<1>1. Append(peer[p].q, x) \in Seq(Nat)
  BY NumberAppended DEF Peer
<1> QED BY <1>1 DEF Enqueued, Peer

(* What may happen to a peer without a new event: a frame that is none is   *)
(* put at the end of its queue, or it is shut or ends.                      *)
Like(r, s) ==
  /\ s.from = r.from /\ s.got = r.got /\ (s.st = "prepared" => r.st = "prepared")
  /\ \/ s.q = r.q
     \/ s.q = Append(r.q, Other)
  /\ s.st = "on" /\ ~s.shut => r.st = "on" /\ ~r.shut /\ s.sort = r.sort

LEMMA LikeFrame ==
  ASSUME NEW r \in Peer, NEW s \in Peer, NEW now \in Nat, Like(r, s)
  PROVE  /\ Unbroken(r, now) => Unbroken(s, now)
         /\ UpToDate(r, now) => UpToDate(s, now)
<1>1. r.q \in Seq(Nat) /\ Other \in Nat
  BY DEF Peer, Other
<1>2. Reached(s) = Reached(r)
  BY DEF Like, Reached
<1>3. In(s.q) = In(r.q)
  <2>1. In(Append(r.q, Other)) = In(r.q) \cup ({Other} \ {Other})
    BY <1>1, InAppended
  <2>2. In(Append(r.q, Other)) = In(r.q)
    BY <2>1
  <2>3. CASE s.q = r.q
    BY <2>3
  <2>4. CASE s.q = Append(r.q, Other)
    BY <2>2, <2>4
  <2> QED BY <2>3, <2>4 DEF Like
<1>4. \A i \in DOMAIN s.q : s.q[i] # Other => i \in DOMAIN r.q /\ s.q[i] = r.q[i]
  BY <1>1, NumberAppended DEF Like
<1>5. Unbroken(r, now) => Unbroken(s, now)
  BY <1>2, <1>3, <1>4 DEF Like, Unbroken
<1>6. UpToDate(r, now) => UpToDate(s, now)
  BY <1>2, <1>3 DEF Like, UpToDate
<1> QED BY <1>5, <1>6

LEMMA StreamsLike ==
  ASSUME TransportTypeOK, Streams, peer' \in [Peers -> Peer], UNCHANGED ev, Serves' => Serves,
         \A p \in Peers : Like(peer[p], peer'[p])
  PROVE  Streams'
<1> SUFFICES ASSUME NEW p \in Peers
             PROVE  Unbroken(peer'[p], ev) /\ (Serves' => UpToDate(peer'[p], ev))
  BY DEF Streams
<1>1. peer[p] \in Peer /\ peer'[p] \in Peer /\ ev \in Nat
  BY DEF TransportTypeOK
<1> QED BY <1>1, LikeFrame DEF Streams

(* The HTTP client is not affected by what others do.                       *)
LEMMA PostsKept ==
  ASSUME TransportTypeOK, PostsInOrder, UNCHANGED post, ev' \in Nat, ev <= ev'
  PROVE  PostsInOrder'
<1>1. \A n \in Nat : n <= ev => n <= ev'
  BY DEF TransportTypeOK
<1>2. /\ post.cur \in Nat \/ post.cur = None
      /\ post.sent \in Seq(Nat) /\ post.q \in Seq(Nat)
  BY DEF TransportTypeOK
<1> QED BY <1>1, <1>2 DEF PostsInOrder

(* When the peers, the stage of stop() and the numbers of the events are    *)
(* left alone, so are the streams.                                          *)
LEMMA StreamsKept ==
  ASSUME Streams, UNCHANGED <<peer, ev>>, Serves' => Serves
  PROVE  Streams'
BY DEF Streams

----------------------------------------------------------------------------
(* Peers                                                                    *)

(* A connection comes, is listed, or ends: only the peer changes.           *)
LEMMA ArriveStep ==
  ASSUME TransportInv, NEW p \in Peers, NEW sort \in {"ws", "api", "sse"}, Arrive(p, sort)
  PROVE  TransportInv'
<1> DEFINE r == [NoPeer EXCEPT !.st = "prepared", !.sort = sort]
<1>1. /\ r.st = "prepared" /\ r.sort = sort /\ r.from = 0 /\ r.q = <<>> /\ r.got = <<>>
      /\ r.shut = FALSE
  BY DEF NoPeer
<1>2. r \in Peer
  <2>1. <<>> \in Seq(Nat) /\ 0 \in Nat
    OBVIOUS
  <2> QED BY <2>1 DEF Peer, NoPeer
<1> HIDE DEF r
<1>3. /\ peer' = [peer EXCEPT ![p] = r] /\ peer \in [Peers -> Peer] /\ Serves /\ ev \in Nat
      /\ UNCHANGED <<kind, phase, ev, act, aq, post>>
  BY DEF Arrive, r, TransportInv, TransportTypeOK
<1>4. TransportTypeOK'
  BY <1>2, <1>3 DEF TransportInv, TransportTypeOK
<1>5. Stages'
  BY <1>3 DEF TransportInv, Stages, Serves
<1>6. Unbroken(r, ev) /\ UpToDate(r, ev)
  <2>1. In(<<>>) = {}
    BY DEF In
  <2>2. Reached(r) = 0
    BY <1>1 DEF Reached
  <2> QED BY <1>1, <1>3, <2>1, <2>2 DEF Unbroken, UpToDate
<1>7. Streams'
  BY <1>3, <1>6 DEF TransportInv, Streams, Serves
<1>8. PostsInOrder'
  BY <1>3, PostsKept DEF TransportInv
<1> QED BY <1>4, <1>5, <1>7, <1>8 DEF TransportInv

LEMMA JoinStep ==
  ASSUME TransportInv, NEW p \in Peers, Join(p)
  PROVE  TransportInv'
<1> DEFINE r == peer'[p]
<1>1. /\ peer \in [Peers -> Peer] /\ peer[p] \in Peer /\ peer[p].st = "prepared" /\ ev \in Nat
      /\ UNCHANGED <<kind, phase, ev, act, aq, post>>
  BY DEF Join, TransportInv, TransportTypeOK
<1>2. peer[p].got = <<>>
  BY <1>1 DEF TransportInv, Streams, Unbroken
<1>3. /\ r.st \in {"on", "gone"} /\ r.from = ev /\ r.q \in {<<>>, <<Other>>} /\ r.got = <<>>
      /\ r \in Peer /\ peer' = [peer EXCEPT ![p] = r]
  <2> DEFINE o == peer[p]
             st == IF o.sort = "sse" /\ phase # "up" THEN "gone" ELSE "on"
             q == IF o.sort = "ws" THEN <<Other>> ELSE <<>>
  <2>1. r = [o EXCEPT !.st = st, !.from = ev, !.q = q] /\ peer' = [peer EXCEPT ![p] = r]
    BY <1>1 DEF Join
  <2>2. st \in {"on", "gone"} /\ q \in {<<>>, <<Other>>}
    OBVIOUS
  <2>3. q \in Seq(Nat) /\ o \in Peer /\ o.got = <<>>
    BY <1>1, <1>2, <2>2 DEF Other
  <2> HIDE DEF o, st, q
  <2> QED BY <1>1, <2>1, <2>2, <2>3 DEF Peer
<1> HIDE DEF r
<1>4. TransportTypeOK'
  BY <1>1, <1>3 DEF TransportInv, TransportTypeOK
<1>5. Stages'
  BY <1>1, <1>3 DEF TransportInv, Stages
<1>6. Unbroken(r, ev) /\ UpToDate(r, ev)
  <2>1. In(r.q) = {}
    BY <1>3 DEF In
  <2>2. Reached(r) = ev
    BY <1>1, <1>3 DEF Reached
  <2>3. \A i, j \in DOMAIN r.q : ~(i < j)
    BY <1>3
  <2> QED BY <1>1, <1>3, <2>1, <2>2, <2>3 DEF Unbroken, UpToDate
<1>7. Streams'
  BY <1>1, <1>3, <1>6 DEF TransportInv, Streams, Serves
<1>8. PostsInOrder'
  BY <1>1, PostsKept DEF TransportInv
<1> QED BY <1>4, <1>5, <1>7, <1>8 DEF TransportInv

(* The first frame of the queue is sent: an event that goes on where those  *)
(* before it ended, or another frame.                                       *)
LEMMA SendStep ==
  ASSUME TransportInv, NEW p \in Peers, Send(p)
  PROVE  TransportInv'
<1> DEFINE r == peer[p]
           x == Head(peer[p].q)
           s == peer'[p]
<1>1. /\ peer \in [Peers -> Peer] /\ r \in Peer /\ r.st = "on" /\ ev \in Nat /\ r.q # <<>>
      /\ UNCHANGED <<kind, phase, ev, act, aq, post>>
      /\ r.q \in Seq(Nat) /\ r.got \in Seq(Nat) /\ r.from \in Nat
  BY DEF Send, TransportInv, TransportTypeOK, Peer
<1>2. /\ x \in Nat /\ x = r.q[1] /\ 1 \in DOMAIN r.q /\ Tail(r.q) \in Seq(Nat)
      /\ \A i \in DOMAIN Tail(r.q) : i + 1 \in DOMAIN r.q /\ Tail(r.q)[i] = r.q[i + 1] /\ i \in Nat
      /\ \A i \in DOMAIN r.q \ {1} : i - 1 \in DOMAIN Tail(r.q) /\ Tail(r.q)[i - 1] = r.q[i] /\ 1 < i
  BY <1>1, Taken
<1>3. /\ Append(r.got, x) \in Seq(Nat) /\ Len(Append(r.got, x)) = Len(r.got) + 1
      /\ DOMAIN Append(r.got, x) = DOMAIN r.got \cup {Len(r.got) + 1}
      /\ \A i \in DOMAIN r.got : Append(r.got, x)[i] = r.got[i]
      /\ Append(r.got, x)[Len(r.got) + 1] = x
  BY <1>1, <1>2, NumberAppended
<1>4. /\ s.q = Tail(r.q) /\ s.got = (IF x = Other THEN r.got ELSE Append(r.got, x))
      /\ s.st = r.st /\ s.sort = r.sort /\ s.from = r.from /\ s.shut = r.shut
      /\ s \in Peer /\ peer' = [peer EXCEPT ![p] = s]
  BY <1>1, <1>2, <1>3 DEF Send, Peer
<1>5. Unbroken(r, ev)
  BY DEF TransportInv, Streams
<1> HIDE DEF r, x, s
<1>6. TransportTypeOK'
  BY <1>1, <1>4 DEF TransportInv, TransportTypeOK
<1>7. Stages'
  BY <1>1, <1>4 DEF TransportInv, Stages, r
<1>8. In(r.q) = In(s.q) \cup ({x} \ {Other})
  <2> DEFINE t == s.q
  <2>1. /\ x = r.q[1] /\ 1 \in DOMAIN r.q
        /\ \A i \in DOMAIN t : i + 1 \in DOMAIN r.q /\ t[i] = r.q[i + 1]
        /\ \A i \in DOMAIN r.q \ {1} : i - 1 \in DOMAIN t /\ t[i - 1] = r.q[i]
    BY <1>2, <1>4
  <2> HIDE DEF t
  <2>2. {r.q[i] : i \in DOMAIN r.q} = {t[i] : i \in DOMAIN t} \cup {x}
    BY <2>1
  <2> QED BY <2>2 DEF In, t
<1>9. Unbroken(s, ev) /\ (UpToDate(r, ev) => UpToDate(s, ev))
  <2>1. /\ \A i, j \in DOMAIN s.q : i < j /\ s.q[i] # Other /\ s.q[j] # Other => s.q[i] < s.q[j]
        /\ x # Other => \A n \in In(s.q) : x < n
    <3>1. \A i, j \in DOMAIN r.q : i < j /\ r.q[i] # Other /\ r.q[j] # Other => r.q[i] < r.q[j]
      BY <1>5 DEF Unbroken
    <3>2. \A i \in DOMAIN s.q : i + 1 \in DOMAIN r.q /\ s.q[i] = r.q[i + 1] /\ i \in Nat /\ 1 < i + 1
      <4>1. \A i \in DOMAIN Tail(r.q) : i \in Nat /\ i # 0
        BY <1>2
      <4> QED BY <1>2, <1>4, <4>1
    <3>3. \A i, j \in DOMAIN s.q : i < j /\ s.q[i] # Other /\ s.q[j] # Other => s.q[i] < s.q[j]
      BY <3>1, <3>2
    <3>4. ASSUME x # Other, NEW n \in In(s.q) PROVE x < n
      <4>1. PICK i \in DOMAIN s.q : n = s.q[i] /\ s.q[i] # Other
        BY <3>4 DEF In
      <4> QED BY <1>2, <3>1, <3>2, <3>4, <4>1
    <3> QED BY <3>3, <3>4
  <2>2. CASE x = Other
    <3>1. Reached(s) = Reached(r) /\ In(s.q) = In(r.q)
      BY <1>4, <1>8, <2>2 DEF Reached
    <3> QED BY <1>1, <1>4, <1>5, <2>1, <2>2, <3>1 DEF Unbroken, UpToDate
  <2>3. CASE x # Other
    <3>1. Reached(s) = Reached(r) + 1 /\ Reached(r) \in Nat /\ In(s.q) \subseteq Nat
      <4>1. Len(r.got) \in Nat /\ r.from \in Nat /\ s.q \in Seq(Nat)
        BY <1>1, <1>4 DEF Peer
      <4>2. Reached(s) = Reached(r) + 1 /\ Reached(r) \in Nat
        <5>1. Len(s.got) = Len(r.got) + 1 /\ s.from = r.from
          BY <1>3, <1>4, <2>3
        <5>2. r.from + Len(r.got) \in Nat /\ s.from + Len(s.got) = r.from + Len(r.got) + 1
          <6>1. PICK n \in Nat, f \in Nat : n = Len(r.got) /\ f = r.from
            BY ONLY <4>1
          <6>2. Len(s.got) = n + 1 /\ s.from = f
            BY ONLY <5>1, <6>1
          <6>3. f + n \in Nat /\ f + (n + 1) = f + n + 1
            BY ONLY n \in Nat, f \in Nat
          <6> QED BY ONLY <6>1, <6>2, <6>3
        <5> QED BY <5>2 DEF Reached
      <4>3. \A i \in DOMAIN s.q : s.q[i] \in Nat
        BY <4>1
      <4> QED BY <4>2, <4>3 DEF In
    <3>2. x = Reached(r) + 1
      <4>1. x \in In(r.q) /\ Reached(r) < x /\ x <= ev
        BY <1>5, <1>8, <2>3 DEF Unbroken
      <4>2. Reached(r) + 1 < x => Reached(r) + 1 \in In(s.q)
        <5>1. SUFFICES ASSUME Reached(r) + 1 < x PROVE Reached(r) + 1 \in In(s.q)
          OBVIOUS
        <5>2. \A m \in 1 .. ev : Reached(r) < m /\ m < x => m \in In(r.q)
          BY <1>5, <4>1 DEF Unbroken
        <5>3. Reached(r) + 1 \in 1 .. ev /\ Reached(r) < Reached(r) + 1 /\ Reached(r) + 1 # x
          BY <1>1, <1>2, <3>1, <4>1, <5>1
        <5>4. Reached(r) + 1 \in In(r.q)
          BY ONLY <5>1, <5>2, <5>3
        <5> QED BY <1>8, <5>3, <5>4
      <4> QED BY <1>2, <2>1, <2>3, <3>1, <4>1, <4>2
    <3>3. \A i \in DOMAIN s.got : s.got[i] = s.from + i
      <4>1. \A i \in DOMAIN r.got : r.got[i] = r.from + i
        BY <1>5 DEF Unbroken
      <4>2. x = r.from + (Len(r.got) + 1)
        <5>1. Len(r.got) \in Nat
          BY <1>1
        <5> QED BY <1>1, <3>2, <5>1 DEF Reached
      <4> QED BY <1>3, <1>4, <2>3, <4>1, <4>2
    <3>4. Reached(s) <= ev /\ \A n \in In(s.q) : Reached(s) < n /\ n <= ev
      BY <1>5, <1>8, <2>1, <2>3, <3>1, <3>2 DEF Unbroken
    <3>5. \A n \in In(s.q), m \in 1 .. ev : Reached(s) < m /\ m < n => m \in In(s.q)
      <4> SUFFICES ASSUME NEW n \in In(s.q), NEW m \in 1 .. ev, Reached(s) < m, m < n
                   PROVE  m \in In(s.q)
        OBVIOUS
      <4>1. n \in In(r.q) /\ Reached(r) < m /\ m # x /\ n \in Nat
        BY <1>1, <1>8, <3>1, <3>2
      <4>2. m \in In(r.q)
        <5>1. \A a \in In(r.q), b \in 1 .. ev : Reached(r) < b /\ b < a => b \in In(r.q)
          BY ONLY <1>5 DEF Unbroken
        <5>2. m \in 1 .. ev /\ m < n
          OBVIOUS
        <5> QED BY ONLY <4>1, <5>1, <5>2
      <4> QED BY ONLY <1>8, <4>1, <4>2
    <3>6. UpToDate(r, ev) => UpToDate(s, ev)
      BY <1>1, <1>4, <1>8, <3>1, <3>2 DEF UpToDate
    <3> QED BY <1>1, <1>4, <2>1, <3>3, <3>4, <3>5, <3>6 DEF Unbroken
  <2> QED BY <2>2, <2>3
<1>10. Streams'
  BY <1>1, <1>4, <1>9 DEF TransportInv, Streams, Serves, r
<1>11. PostsInOrder'
  BY <1>1, PostsKept DEF TransportInv
<1> QED BY <1>6, <1>7, <1>10, <1>11 DEF TransportInv

(* What changes peers only, and none that is gone: Leave, LeftNow,          *)
(* Heartbeat.                                                               *)
LEMMA PeersStep ==
  ASSUME TransportInv, UNCHANGED <<kind, phase, ev, act, aq, post>>, peer' \in [Peers -> Peer],
         \A p \in Peers : /\ Like(peer[p], peer'[p])
                          /\ peer[p].st \in {"off", "gone"} => peer'[p].st \in {"off", "gone"}
  PROVE  TransportInv'
<1>1. TransportTypeOK' /\ Stages'
  BY DEF TransportInv, TransportTypeOK, Stages
<1>2. Streams'
  BY StreamsLike DEF TransportInv, Serves
<1>3. PostsInOrder'
  BY PostsKept DEF TransportInv, TransportTypeOK
<1> QED BY <1>1, <1>2, <1>3 DEF TransportInv

LEMMA LeaveStep ==
  ASSUME TransportInv, NEW p \in Peers, Leave(p) \/ LeftNow(p)
  PROVE  TransportInv'
<1>1. /\ peer \in [Peers -> Peer] /\ peer[p].st \in {"on", "leaving", "closing"}
      /\ \/ peer' = [peer EXCEPT ![p] = [peer[p] EXCEPT !.st = "leaving", !.shut = TRUE]]
         \/ peer' = [peer EXCEPT ![p] = [peer[p] EXCEPT !.st = "gone"]]
      /\ UNCHANGED <<kind, phase, ev, act, aq, post>>
  BY DEF Leave, LeftNow, TransportInv, TransportTypeOK
<1>2. peer[p] \in Peer
  BY <1>1
<1>3. /\ [peer[p] EXCEPT !.st = "leaving", !.shut = TRUE] \in Peer
      /\ Like(peer[p], [peer[p] EXCEPT !.st = "leaving", !.shut = TRUE])
      /\ [peer[p] EXCEPT !.st = "gone"] \in Peer
      /\ Like(peer[p], [peer[p] EXCEPT !.st = "gone"])
  BY <1>2 DEF Peer, Like
<1>4. peer' \in [Peers -> Peer] /\ Like(peer[p], peer'[p])
  BY <1>1, <1>3
<1>5. \A q \in Peers \ {p} : peer'[q] = peer[q] /\ Like(peer[q], peer'[q])
  BY <1>1 DEF Like
<1> QED BY <1>1, <1>4, <1>5, PeersStep

LEMMA HeartbeatStep == ASSUME TransportInv, Heartbeat PROVE TransportInv'
<1>1. /\ peer \in [Peers -> Peer] /\ Other \in Nat
      /\ peer' = [p \in Peers |-> IF peer[p].st = "on" /\ peer[p].sort = "ws"
                                 THEN Enqueued(p, Other) ELSE peer[p]]
      /\ UNCHANGED <<kind, phase, ev, act, aq, post>>
  BY DEF Heartbeat, TransportInv, TransportTypeOK, Other
<1>2. ASSUME NEW p \in Peers
      PROVE  peer'[p] \in Peer /\ Like(peer[p], peer'[p]) /\ peer'[p].st = peer[p].st
  <2>1. CASE peer'[p] = peer[p]
    BY <1>1, <2>1 DEF Like
  <2>2. CASE peer'[p] = Enqueued(p, Other)
    BY <1>1, <2>2, EnqueuedFrame DEF Like
  <2> QED BY <1>1, <2>1, <2>2
<1>3. peer' \in [Peers -> Peer]
  BY <1>1, <1>2
<1> QED BY <1>1, <1>2, <1>3, PeersStep

(* An event is put into the queues of the peers that are served, behind     *)
(* those that are there, and into that of the HTTP client.                  *)
LEMMA EmitEventStep == ASSUME TransportInv, EmitEvent PROVE TransportInv'
<1>1. /\ peer \in [Peers -> Peer] /\ ev \in Nat /\ ev' = ev + 1 /\ ev' \in Nat
      /\ peer' = [p \in Peers |-> IF Serves /\ peer[p].st = "on" /\ peer[p].sort # "api"
                                 THEN Enqueued(p, ev') ELSE peer[p]]
      /\ UNCHANGED <<kind, phase, act, aq>>
  BY DEF EmitEvent, TransportInv, TransportTypeOK
<1>2. ASSUME NEW p \in Peers
      PROVE  /\ peer'[p] \in Peer /\ peer'[p].st = peer[p].st
             /\ Unbroken(peer'[p], ev') /\ (Serves => UpToDate(peer'[p], ev'))
  <2> DEFINE r == peer[p]
             s == peer'[p]
  <2>1. /\ r \in Peer /\ Unbroken(r, ev) /\ (Serves => UpToDate(r, ev)) /\ r.q \in Seq(Nat)
        /\ Reached(r) \in Nat /\ In(r.q) \subseteq Nat
    <3>1. r \in Peer /\ r.q \in Seq(Nat) /\ Len(r.got) \in Nat /\ r.from \in Nat
      BY <1>1 DEF Peer
    <3>2. \A i \in DOMAIN r.q : r.q[i] \in Nat
      BY <3>1
    <3> QED BY <3>1, <3>2 DEF TransportInv, Streams, Reached, In
  <2>2. /\ s \in Peer /\ s.st = r.st /\ s.sort = r.sort /\ s.from = r.from /\ s.got = r.got
        /\ \/ s.q = r.q /\ (s.shut \/ (s.shut = r.shut /\ ~(Serves /\ r.st = "on" /\ r.sort # "api")))
           \/ s.q = Append(r.q, ev') /\ ~s.shut /\ ~r.shut /\ Serves /\ r.st = "on" /\ r.sort # "api"
    <3>1. CASE Serves /\ r.st = "on" /\ r.sort # "api"
      <4>1. s = Enqueued(p, ev')
        BY <1>1, <3>1
      <4> QED BY <1>1, <2>1, <3>1, <4>1, EnqueuedFrame
    <3>2. CASE ~(Serves /\ r.st = "on" /\ r.sort # "api")
      <4>1. s = r
        BY <1>1, <3>2
      <4> QED BY <2>1, <3>2, <4>1
    <3> QED BY <3>1, <3>2
  <2> HIDE DEF r, s
  <2>3. Reached(s) = Reached(r)
    BY <2>2 DEF Reached
  <2>4. CASE s.q = r.q
    <3>1. Unbroken(s, ev')
      BY <1>1, <2>1, <2>2, <2>3, <2>4 DEF Unbroken
    <3>2. Serves => UpToDate(s, ev')
      BY <2>2, <2>4, NumberAppended, <1>1, <2>1 DEF UpToDate
    <3> QED BY <2>2, <3>1, <3>2 DEF r, s
  <2>5. CASE s.q = Append(r.q, ev') /\ ~s.shut /\ ~r.shut /\ Serves /\ r.st = "on" /\ r.sort # "api"
    <3>1. In(s.q) = In(r.q) \cup {ev'}
      BY <1>1, <2>1, <2>5, InAppended DEF Other
    <3>2. /\ \A i \in DOMAIN s.q : \/ i \in DOMAIN r.q /\ s.q[i] = r.q[i]
                                   \/ i = Len(r.q) + 1 /\ s.q[i] = ev'
          /\ \A i \in DOMAIN r.q : i < Len(r.q) + 1
      BY <1>1, <2>1, <2>5, NumberAppended
    <3>3. \A i \in DOMAIN r.q : r.q[i] # Other => r.q[i] <= ev
      BY <2>1 DEF Unbroken, In
    <3>4. \A i, j \in DOMAIN s.q : i < j /\ s.q[i] # Other /\ s.q[j] # Other => s.q[i] < s.q[j]
      <4>1. Len(r.q) + 1 \in Nat /\ \A i \in DOMAIN r.q : i \in Nat /\ r.q[i] \in Nat
        BY <2>1
      <4>2. \A i, j \in DOMAIN r.q : i < j /\ r.q[i] # Other /\ r.q[j] # Other => r.q[i] < r.q[j]
        BY <2>1 DEF Unbroken
      <4>3. ev \in Nat /\ ev' = ev + 1
        BY <1>1
      <4> QED BY ONLY <3>2, <3>3, <4>1, <4>2, <4>3
    <3>5. ~s.shut => \A m \in 1 .. ev' : Reached(s) < m => m \in In(s.q)
      <4> SUFFICES ASSUME ~s.shut, NEW m \in 1 .. ev', Reached(s) < m PROVE m \in In(s.q)
        OBVIOUS
      <4>1. m = ev' \/ m \in 1 .. ev
        BY <1>1
      <4>2. m \in 1 .. ev => m \in In(r.q)
        BY <2>1, <2>3, <2>5 DEF UpToDate
      <4> QED BY <3>1, <4>1, <4>2
    <3>6. /\ \A n \in In(s.q) : Reached(s) < n /\ n <= ev'
          /\ Reached(s) <= ev'
      <4>1. Reached(r) <= ev /\ \A n \in In(r.q) : Reached(r) < n /\ n <= ev
        BY <2>1 DEF Unbroken
      <4> QED BY <1>1, <2>1, <2>3, <3>1, <4>1
    <3>7. \A n \in In(s.q), m \in 1 .. ev' : Reached(s) < m /\ m < n => m \in In(s.q)
      <4> SUFFICES ASSUME NEW n \in In(s.q), NEW m \in 1 .. ev', Reached(s) < m, m < n
                   PROVE  m \in In(s.q)
        OBVIOUS
      <4>1. n = ev' \/ (n \in In(r.q) /\ n <= ev)
        BY <2>1, <3>1 DEF Unbroken
      <4>2. m \in 1 .. ev
        BY <1>1, <2>1, <4>1
      <4>3. CASE n = ev'
        BY <2>1, <2>3, <2>5, <3>1, <4>2 DEF UpToDate
      <4> QED BY <2>1, <2>3, <3>1, <4>1, <4>2, <4>3 DEF Unbroken
    <3> QED BY <1>1, <2>1, <2>2, <2>3, <2>5, <3>4, <3>5, <3>6, <3>7 DEF Unbroken, UpToDate, r, s
  <2> QED BY <2>2, <2>4, <2>5
<1>3. post' \in [q : Seq(Nat), cur : Nat \cup {None}, sent : Seq(Nat)] /\ PostsInOrder'
  <2>1. CASE UNCHANGED post
    BY <1>1, <2>1, PostsKept DEF TransportInv, TransportTypeOK
  <2>2. CASE post' = [post EXCEPT !.q = Append(@, ev + 1)]
    <3> DEFINE q == post.q
    <3>1. /\ q \in Seq(Nat) /\ post \in [q : Seq(Nat), cur : Nat \cup {None}, sent : Seq(Nat)]
          /\ post.sent \in Seq(Nat)
      BY DEF TransportInv, TransportTypeOK
    <3>2. /\ Append(q, ev') \in Seq(Nat) /\ DOMAIN Append(q, ev') = DOMAIN q \cup {Len(q) + 1}
          /\ \A i \in DOMAIN q : Append(q, ev')[i] = q[i] /\ i \in Nat /\ i < Len(q) + 1
          /\ Append(q, ev')[Len(q) + 1] = ev'
      BY <1>1, <3>1, NumberAppended
    <3>3. post'.q = Append(q, ev') /\ post'.cur = post.cur /\ post'.sent = post.sent
      BY <1>1, <2>2, <3>1
    <3>4. /\ \A i \in DOMAIN post.sent : post.sent[i] \in Nat
          /\ \A i \in DOMAIN q : q[i] \in Nat
          /\ Len(q) \in Nat
      BY <3>1
    <3>5. post.cur # None => post.cur \in Nat
      BY <3>1
    <3>6. post' \in [q : Seq(Nat), cur : Nat \cup {None}, sent : Seq(Nat)]
      BY <1>1, <2>2, <3>1, <3>2
    <3> HIDE DEF q
    <3>7. PostsInOrder
      BY DEF TransportInv
    <3>8. PostsInOrder'
      <4>1. ev \in Nat /\ ev' \in Nat /\ ev < ev'
        BY <1>1
      <4>2. /\ \A i \in DOMAIN post.sent : post.sent[i] \in Nat /\ post.sent[i] <= ev
            /\ \A j \in DOMAIN q : q[j] \in Nat /\ q[j] <= ev
            /\ post.cur # None => post.cur \in Nat /\ post.cur <= ev
        BY <3>4, <3>5, <3>7 DEF PostsInOrder, q
      <4>3. \A j \in DOMAIN post'.q :
              \/ j = Len(q) + 1 /\ post'.q[j] = ev'
              \/ j \in DOMAIN q /\ post'.q[j] = q[j] /\ j \in Nat /\ j < Len(q) + 1
        BY ONLY <3>2, <3>3
      <4>4. \A i, j \in DOMAIN post'.sent : i < j => post'.sent[i] < post'.sent[j]
        BY <3>3, <3>7 DEF PostsInOrder
      <4>5. \A i, j \in DOMAIN post'.q : i < j => post'.q[i] < post'.q[j]
        <5>1. \A i, j \in DOMAIN q : i < j => q[i] < q[j]
          BY <3>7 DEF PostsInOrder, q
        <5> QED BY ONLY <3>4, <4>1, <4>2, <4>3, <5>1
      <4>6. \A i \in DOMAIN post'.sent, j \in DOMAIN post'.q : post'.sent[i] < post'.q[j]
        <5>1. \A i \in DOMAIN post.sent, j \in DOMAIN q : post.sent[i] < q[j]
          BY <3>7 DEF PostsInOrder, q
        <5> QED BY ONLY <3>3, <4>1, <4>2, <4>3, <5>1
      <4>7. post'.cur # None => /\ \A i \in DOMAIN post'.sent : post'.sent[i] < post'.cur
                                /\ \A j \in DOMAIN post'.q : post'.cur < post'.q[j]
                                /\ post'.cur <= ev'
        <5>1. post.cur # None => /\ \A i \in DOMAIN post.sent : post.sent[i] < post.cur
                                 /\ \A j \in DOMAIN q : post.cur < q[j]
          BY <3>7 DEF PostsInOrder, q
        <5> QED BY ONLY <3>3, <4>1, <4>2, <4>3, <5>1
      <4>8. \A i \in DOMAIN post'.sent : post'.sent[i] <= ev'
        BY ONLY <3>3, <4>1, <4>2
      <4>9. \A j \in DOMAIN post'.q : post'.q[j] <= ev'
        BY ONLY <4>1, <4>2, <4>3
      <4> QED BY ONLY <4>4, <4>5, <4>6, <4>7, <4>8, <4>9 DEF PostsInOrder
    <3> QED BY <3>6, <3>8
  <2> QED BY <2>1, <2>2 DEF EmitEvent
<1>4. peer' \in [Peers -> Peer]
  BY <1>1, <1>2
<1>5. TransportTypeOK' /\ Stages'
  BY <1>1, <1>2, <1>3, <1>4 DEF TransportInv, TransportTypeOK, Stages
<1>6. Streams'
  BY <1>1, <1>2 DEF Streams, Serves
<1> QED BY <1>3, <1>5, <1>6 DEF TransportInv

----------------------------------------------------------------------------
(* Actions, posts and stop()                                                *)

(* The types of what actions and posts change.                              *)
LEMMA Typed ==
  ASSUME TransportTypeOK
  PROVE  /\ peer \in [Peers -> Peer] /\ aq \in Seq(Acts) /\ ev \in Nat
         /\ act \in [Acts -> [st : {"none", "queued", "busy", "running", "done", "dropped"},
                              by : Peers \cup {"http", "quick", None}, waits : BOOLEAN]]
BY DEF TransportTypeOK

(* An action is queued, taken or answered. Somebody waits for it only if he *)
(* did before, or if the listener still takes requests.                     *)
LEMMA ActionStep ==
  ASSUME TransportInv, UNCHANGED <<kind, phase, ev>>, peer' \in [Peers -> Peer],
         \A p \in Peers : Like(peer[p], peer'[p]) /\ peer'[p].st = peer[p].st,
         aq' \in Seq(Acts),
         act' \in [Acts -> [st : {"none", "queued", "busy", "running", "done", "dropped"},
                           by : Peers \cup {"http", "quick", None}, waits : BOOLEAN]],
         phase # "down",
         \A a \in Acts : act'[a].waits =>
            /\ act'[a].st \in {"queued", "running"}
            /\ act[a].waits \/ (kind = "server" /\ phase # "drain"),
         post' \in [q : Seq(Nat), cur : Nat \cup {None}, sent : Seq(Nat)], PostsInOrder'
  PROVE  TransportInv'
<1>1. TransportTypeOK' /\ Stages'
  BY DEF TransportInv, TransportTypeOK, Stages
<1>2. Streams'
  BY StreamsLike DEF TransportInv, Serves
<1> QED BY <1>1, <1>2 DEF TransportInv

(* An answer goes to the queue of the peer that asked, if it is there.      *)
LEMMA AnswerFrame ==
  ASSUME TransportInv, NEW p \in Peers, peer' \in {peer, AnswerTo(p)}
  PROVE  /\ peer' \in [Peers -> Peer]
         /\ \A q \in Peers : Like(peer[q], peer'[q]) /\ peer'[q].st = peer[q].st
<1>1. peer \in [Peers -> Peer] /\ Other \in Nat
  BY Typed DEF TransportInv, Other
<1>2. \A q \in Peers : peer'[q] = peer[q] \/ (q = p /\ peer'[q] = Enqueued(p, Other))
  BY <1>1 DEF AnswerTo
<1>3. Enqueued(p, Other) \in Peer /\ Like(peer[p], Enqueued(p, Other))
      /\ Enqueued(p, Other).st = peer[p].st
  BY <1>1, EnqueuedFrame DEF Like
<1>4. DOMAIN peer' = Peers /\ peer' = [q \in Peers |-> peer'[q]]
  BY <1>1 DEF AnswerTo
<1>5. \A q \in Peers : Like(peer[q], peer[q])
  BY DEF Like
<1>6. peer' \in [Peers -> Peer]
  BY <1>1, <1>2, <1>3, <1>4
<1> QED BY <1>2, <1>3, <1>5, <1>6

(* submit: queued or refused, for a peer, a request or a quick reply.       *)
LEMMA SubmitFrame ==
  ASSUME TransportInv, NEW a \in Acts, NEW by \in Peers \cup {"http", "quick"}, Submit(a, by)
  PROVE  /\ peer' \in [Peers -> Peer]
         /\ \A q \in Peers : Like(peer[q], peer'[q]) /\ peer'[q].st = peer[q].st
         /\ aq' \in Seq(Acts)
         /\ act' \in [Acts -> [st : {"none", "queued", "busy", "running", "done", "dropped"},
                              by : Peers \cup {"http", "quick", None}, waits : BOOLEAN]]
         /\ \A b \in Acts \ {a} : act'[b] = act[b]
         /\ act'[a].waits => act'[a].st = "queued" /\ by = "http"
<1>1. /\ peer \in [Peers -> Peer] /\ aq \in Seq(Acts)
      /\ act \in [Acts -> [st : {"none", "queued", "busy", "running", "done", "dropped"},
                           by : Peers \cup {"http", "quick", None}, waits : BOOLEAN]]
  BY Typed DEF TransportInv
<1>2. /\ aq' = aq \/ aq' = Append(aq, a)
      /\ \/ act' = [act EXCEPT ![a] = [st |-> "queued", by |-> by, waits |-> by = "http"]]
         \/ act' = [act EXCEPT ![a] = [st |-> "busy", by |-> by, waits |-> FALSE]]
      /\ peer' = peer \/ (by \in Peers /\ peer' = AnswerTo(by))
  BY DEF Submit
<1>3. aq' \in Seq(Acts)
  BY <1>1, <1>2
<1>4. (by = "http") \in BOOLEAN
  OBVIOUS
<1>5. /\ act' \in [Acts -> [st : {"none", "queued", "busy", "running", "done", "dropped"},
                            by : Peers \cup {"http", "quick", None}, waits : BOOLEAN]]
      /\ \A b \in Acts \ {a} : act'[b] = act[b]
      /\ act'[a].waits => act'[a].st = "queued" /\ by = "http"
  <2>1. CASE act' = [act EXCEPT ![a] = [st |-> "queued", by |-> by, waits |-> by = "http"]]
    <3> DEFINE r == [st |-> "queued", by |-> by, waits |-> by = "http"]
    <3>1. /\ r \in [st : {"none", "queued", "busy", "running", "done", "dropped"},
                    by : Peers \cup {"http", "quick", None}, waits : BOOLEAN]
          /\ r.st = "queued" /\ (r.waits => by = "http")
      BY <1>4
    <3> HIDE DEF r
    <3>2. act' = [act EXCEPT ![a] = r]
      BY <2>1 DEF r
    <3> QED BY <1>1, <3>1, <3>2
  <2>2. CASE act' = [act EXCEPT ![a] = [st |-> "busy", by |-> by, waits |-> FALSE]]
    <3> DEFINE r == [st |-> "busy", by |-> by, waits |-> FALSE]
    <3>1. /\ r \in [st : {"none", "queued", "busy", "running", "done", "dropped"},
                    by : Peers \cup {"http", "quick", None}, waits : BOOLEAN]
          /\ ~r.waits
      OBVIOUS
    <3> HIDE DEF r
    <3>2. act' = [act EXCEPT ![a] = r]
      BY <2>2 DEF r
    <3> QED BY <1>1, <3>1, <3>2
  <2> QED BY <1>2, <2>1, <2>2
<1>6. \A q \in Peers : Like(peer[q], peer[q])
  BY DEF Like
<1>7. /\ peer' \in [Peers -> Peer]
      /\ \A q \in Peers : Like(peer[q], peer'[q]) /\ peer'[q].st = peer[q].st
  BY <1>1, <1>2, <1>6, AnswerFrame
<1> QED BY <1>3, <1>5, <1>7

LEMMA PeerAskStep ==
  ASSUME TransportInv, NEW a \in Acts, (\E p \in Peers : PeerAsks(p, a)) \/ HttpAsks(a)
  PROVE  TransportInv'
<1>1. PICK by \in Peers \cup {"http", "quick"} :
        /\ Submit(a, by) /\ UNCHANGED <<kind, phase, ev, post>>
        /\ \/ by \in Peers /\ peer[by].st = "on"
           \/ by = "http" /\ kind = "server" /\ phase \in {"up", "hub", "runner"}
  BY DEF PeerAsks, HttpAsks, Serves
<1>2. phase # "down" /\ (by = "http" => kind = "server" /\ phase # "drain")
  <2>1. CASE by \in Peers /\ peer[by].st = "on"
    BY <2>1 DEF TransportInv, Stages, TransportTypeOK
  <2>2. CASE by = "http" /\ kind = "server" /\ phase \in {"up", "hub", "runner"}
    BY <2>2
  <2> QED BY <1>1, <2>1, <2>2
<1>3. \A b \in Acts : act[b].waits => act[b].st \in {"queued", "running"}
  BY DEF TransportInv, Stages
<1>4. post' \in [q : Seq(Nat), cur : Nat \cup {None}, sent : Seq(Nat)] /\ PostsInOrder'
  <2>1. TransportTypeOK /\ PostsInOrder /\ ev \in Nat
    BY DEF TransportInv, TransportTypeOK
  <2>2. ev' = ev /\ UNCHANGED post
    BY <1>1
  <2>3. ev' \in Nat /\ ev <= ev'
    BY <2>1, <2>2
  <2>4. PostsInOrder'
    BY <2>1, <2>2, <2>3, PostsKept
  <2>5. post' \in [q : Seq(Nat), cur : Nat \cup {None}, sent : Seq(Nat)]
    BY <2>1, <2>2 DEF TransportTypeOK
  <2> QED BY <2>4, <2>5
<1> QED BY <1>1, <1>2, <1>3, <1>4, SubmitFrame, ActionStep

LEMMA WorkStep == ASSUME TransportInv, NEW a \in Acts, Work(a) \/ ActionAnswered(a) PROVE TransportInv'
<1>1. /\ aq \in Seq(Acts) /\ peer \in [Peers -> Peer]
      /\ act \in [Acts -> [st : {"none", "queued", "busy", "running", "done", "dropped"},
                           by : Peers \cup {"http", "quick", None}, waits : BOOLEAN]]
      /\ \A b \in Acts : act[b].waits => act[b].st \in {"queued", "running"}
  BY Typed DEF TransportInv, Stages
<1>2. UNCHANGED <<kind, phase, ev, post>> /\ phase # "down"
  BY DEF Work, ActionAnswered, TransportInv, Stages
<1>3. aq' \in Seq(Acts)
  <2>1. aq' = aq \/ (aq # <<>> /\ aq' = Tail(aq))
    BY DEF Work, ActionAnswered
  <2>2. aq # <<>> => Tail(aq) \in Seq(Acts)
    BY <1>1, TailOf
  <2> QED BY ONLY <1>1, <2>1, <2>2
<1>4. \/ act' = [act EXCEPT ![a].st = "running"]
      \/ act' = [act EXCEPT ![a].st = "done", ![a].waits = FALSE]
  BY DEF Work, ActionAnswered
<1>5. /\ act' \in [Acts -> [st : {"none", "queued", "busy", "running", "done", "dropped"},
                            by : Peers \cup {"http", "quick", None}, waits : BOOLEAN]]
      /\ \A b \in Acts : act'[b].waits => act'[b].st \in {"queued", "running"} /\ act[b].waits
  BY <1>1, <1>4
<1>6. peer' = peer \/ (act[a].by \in Peers /\ peer' = AnswerTo(act[a].by))
  BY DEF Work, ActionAnswered
<1>7. \A q \in Peers : Like(peer[q], peer[q])
  BY DEF Like
<1>8. /\ peer' \in [Peers -> Peer]
      /\ \A q \in Peers : Like(peer[q], peer'[q]) /\ peer'[q].st = peer[q].st
  BY <1>1, <1>6, <1>7, AnswerFrame
<1>9. post' \in [q : Seq(Nat), cur : Nat \cup {None}, sent : Seq(Nat)] /\ PostsInOrder'
  BY <1>2, PostsKept DEF TransportInv, TransportTypeOK
<1> QED BY <1>2, <1>3, <1>5, <1>8, <1>9, ActionStep

(* An event is taken and posted, or not; the answer may hold an action.     *)
LEMMA Post ==
  ASSUME TransportInv
  PROVE  /\ post \in [q : Seq(Nat), cur : Nat \cup {None}, sent : Seq(Nat)]
         /\ post.q \in Seq(Nat) /\ post.sent \in Seq(Nat) /\ ev \in Nat
         /\ \A i \in DOMAIN post.q : post.q[i] \in Nat
         /\ \A i \in DOMAIN post.sent : post.sent[i] \in Nat
         /\ post.cur # None => post.cur \in Nat
<1>1. post \in [q : Seq(Nat), cur : Nat \cup {None}, sent : Seq(Nat)] /\ ev \in Nat
  BY DEF TransportInv, TransportTypeOK
<1>2. post.q \in Seq(Nat) /\ post.sent \in Seq(Nat) /\ post.cur \in Nat \cup {None}
  BY <1>1
<1> QED BY <1>1, <1>2

(* What is posted comes behind all that was.                                *)
LEMMA SentInOrder ==
  ASSUME TransportInv, ev' = ev, post'.sent \in {post.sent, Append(post.sent, post.cur)},
         post'.sent # post.sent => post.cur # None, post'.cur = None,
         \/ post'.q = post.q
         \/ post'.q = <<>>
  PROVE  PostsInOrder'
<1> DEFINE s == post.sent
           t == post'.sent
<1>1. /\ s \in Seq(Nat) /\ ev \in Nat /\ (post.cur # None => post.cur \in Nat)
      /\ \A i \in DOMAIN post.q : post.q[i] \in Nat
      /\ \A i \in DOMAIN s : s[i] \in Nat
  BY Post
<1>2. PostsInOrder
  BY DEF TransportInv
<1>3. \A i \in DOMAIN t : \/ i \in DOMAIN s /\ t[i] = s[i] /\ i \in Nat /\ i < Len(s) + 1
                          \/ i = Len(s) + 1 /\ t[i] = post.cur /\ post.cur # None
  <2>1. CASE t = s
    BY <1>1, <2>1
  <2>2. CASE t # s
    <3>1. post.cur # None /\ t = Append(s, post.cur) /\ post.cur \in Nat
      BY <1>1, <2>2
    <3>2. /\ DOMAIN t = DOMAIN s \cup {Len(s) + 1} /\ t[Len(s) + 1] = post.cur
          /\ \A i \in DOMAIN s : t[i] = s[i] /\ i \in Nat /\ i < Len(s) + 1
      BY <1>1, <3>1, NumberAppended
    <3> HIDE DEF s, t
    <3> QED BY <3>1, <3>2
  <2> QED BY <2>1, <2>2
<1>4. Len(s) + 1 \in Nat
  BY <1>1
<1>5. \A j \in DOMAIN post'.q : j \in DOMAIN post.q /\ post'.q[j] = post.q[j]
  OBVIOUS
<1> HIDE DEF s, t
<1>6. \A i, j \in DOMAIN t : i < j => t[i] < t[j]
  BY <1>1, <1>2, <1>3, <1>4 DEF PostsInOrder, s
<1>7. /\ \A i \in DOMAIN t : t[i] <= ev
      /\ \A i \in DOMAIN t, j \in DOMAIN post.q : t[i] < post.q[j]
  BY <1>1, <1>2, <1>3 DEF PostsInOrder, s
<1>8. \A i, j \in DOMAIN post'.q : i < j => post'.q[i] < post'.q[j]
  BY <1>2, <1>5 DEF PostsInOrder
<1>9. \A j \in DOMAIN post'.q : post'.q[j] <= ev
  BY <1>2, <1>5 DEF PostsInOrder
<1> QED BY <1>5, <1>6, <1>7, <1>8, <1>9 DEF PostsInOrder, t

LEMMA TakeEventStep == ASSUME TransportInv, TakeEvent PROVE TransportInv'
<1>1. /\ UNCHANGED <<kind, phase, ev, peer, act, aq>> /\ Sending /\ post.q # <<>>
      /\ post' = [post EXCEPT !.q = Tail(@), !.cur = Head(post.q)] /\ post.cur = None
  BY DEF TakeEvent
<1> DEFINE q == post.q
           t == Tail(post.q)
<1>2. /\ q \in Seq(Nat) /\ ev \in Nat
      /\ post \in [q : Seq(Nat), cur : Nat \cup {None}, sent : Seq(Nat)]
      /\ \A i \in DOMAIN q : q[i] \in Nat
      /\ \A i \in DOMAIN post.sent : post.sent[i] \in Nat
  BY Post
<1>3. /\ Head(q) \in Nat /\ Head(q) = q[1] /\ 1 \in DOMAIN q /\ t \in Seq(Nat)
      /\ \A i \in DOMAIN t : i + 1 \in DOMAIN q /\ t[i] = q[i + 1] /\ i \in Nat
      /\ \A i \in DOMAIN t : 1 < i + 1
  <2>1. \A i \in DOMAIN t : i \in 1 .. Len(t)
    BY <1>1, <1>2
  <2> QED BY <1>1, <1>2, <2>1, Taken
<1>4. post'.q = t /\ post'.cur = Head(q) /\ post'.sent = post.sent
  BY <1>1, <1>2
<1>5. post' \in [q : Seq(Nat), cur : Nat \cup {None}, sent : Seq(Nat)]
  BY <1>1, <1>2, <1>3
<1>6. PostsInOrder
  BY DEF TransportInv
<1> HIDE DEF q, t
<1>7. \A i, j \in DOMAIN t : i < j => t[i] < t[j]
  <2> SUFFICES ASSUME NEW i \in DOMAIN t, NEW j \in DOMAIN t, i < j PROVE t[i] < t[j]
    OBVIOUS
  <2>1. i + 1 \in DOMAIN q /\ j + 1 \in DOMAIN q /\ i + 1 < j + 1
    BY <1>3
  <2> QED BY <1>3, <1>6, <2>1 DEF PostsInOrder, q
<1>8. /\ \A j \in DOMAIN t : Head(q) < t[j] /\ t[j] <= ev
      /\ Head(q) <= ev
      /\ \A i \in DOMAIN post.sent : post.sent[i] < Head(q) /\ post.sent[i] <= ev
      /\ \A i \in DOMAIN post.sent, j \in DOMAIN t : post.sent[i] < t[j]
      /\ \A i, j \in DOMAIN post.sent : i < j => post.sent[i] < post.sent[j]
  BY <1>3, <1>6 DEF PostsInOrder, q
<1>9. PostsInOrder'
  BY <1>1, <1>4, <1>7, <1>8 DEF PostsInOrder
<1>10. TransportTypeOK' /\ Stages'
  BY <1>1, <1>5 DEF TransportInv, TransportTypeOK, Stages
<1>11. Streams'
  BY <1>1, StreamsKept DEF TransportInv, Serves
<1> QED BY <1>9, <1>10, <1>11 DEF TransportInv

LEMMA DeliverStep == ASSUME TransportInv, Deliver PROVE TransportInv'
<1>1. /\ UNCHANGED <<kind, phase, ev>> /\ kind = "client" /\ phase \in {"up", "join"}
      /\ post.cur # None
      /\ \E got \in BOOLEAN : Posted(got)
      /\ \/ UNCHANGED <<act, aq, peer>>
         \/ \E a \in Acts : act[a].st = "none" /\ Submit(a, "quick")
  BY DEF Deliver, Sending
<1>2. /\ post \in [q : Seq(Nat), cur : Nat \cup {None}, sent : Seq(Nat)]
      /\ post.cur \in Nat /\ post.sent \in Seq(Nat)
  BY <1>1, Post
<1>3. PICK got \in BOOLEAN : Posted(got)
  BY <1>1
<1>4. Append(post.sent, post.cur) \in Seq(Nat)
  BY <1>2
<1>5. /\ post' \in [q : Seq(Nat), cur : Nat \cup {None}, sent : Seq(Nat)]
      /\ post'.q = post.q /\ post'.cur = None
      /\ post'.sent \in {post.sent, Append(post.sent, post.cur)}
  BY <1>2, <1>3, <1>4 DEF Posted
<1>6. PostsInOrder'
  BY <1>1, <1>5, SentInOrder
<1>7. \A b \in Acts : ~act[b].waits
  BY <1>1 DEF TransportInv, Stages
<1>8. CASE UNCHANGED <<act, aq, peer>>
  <2>1. TransportTypeOK' /\ Stages'
    BY <1>1, <1>5, <1>8 DEF TransportInv, TransportTypeOK, Stages
  <2>2. Streams'
    BY <1>1, <1>8, StreamsKept DEF TransportInv, Serves
  <2> QED BY <1>6, <2>1, <2>2 DEF TransportInv
<1>9. ASSUME NEW a \in Acts, Submit(a, "quick") PROVE TransportInv'
  <2>1. \A b \in Acts : ~act'[b].waits
    <3>1. "quick" # "http"
      OBVIOUS
    <3> QED BY <1>7, <1>9, <3>1, SubmitFrame
  <2>2. phase # "down"
    BY <1>1
  <2> QED BY <1>1, <1>5, <1>6, <1>9, <2>1, <2>2, SubmitFrame, ActionStep
<1> QED BY <1>1, <1>8, <1>9

(* stop() takes the peers, or the posts, before the dispatcher: when it     *)
(* gets there nobody can ask, and nobody waits, any more.                   *)
LEMMA StopStep == ASSUME TransportInv, StopTransport \/ HubStopped PROVE TransportInv'
<1>1. /\ peer \in [Peers -> Peer] /\ UNCHANGED <<kind, ev, act, aq, post>>
      /\ \/ phase = "up" /\ phase' = IF kind = "server" THEN "hub" ELSE "join"
         \/ phase = "hub" /\ phase' = "runner"
  BY Typed DEF TransportInv, StopTransport, HubStopped, Following
<1>2. ASSUME NEW p \in Peers
      PROVE  /\ peer'[p] \in Peer /\ Like(peer[p], peer'[p])
             /\ peer[p].st \in {"off", "gone"} => peer'[p] = peer[p]
  <2> DEFINE o == peer[p]
             st == IF o.sort = "sse" THEN "leaving" ELSE "closing"
  <2>1. o \in Peer /\ st \in {"leaving", "closing"}
    BY <1>1
  <2>2. \/ peer'[p] = o
        \/ o.st = "on" /\ peer'[p] = [o EXCEPT !.shut = TRUE, !.st = st]
    BY DEF StopTransport, HubStopped
  <2> HIDE DEF o, st
  <2>3. peer'[p] \in Peer /\ Like(o, peer'[p]) /\ (o.st # "on" => peer'[p] = o)
    BY <2>1, <2>2 DEF Peer, Like
  <2> QED BY <2>3 DEF o
<1>3. peer' \in [Peers -> Peer]
  <2>1. peer' = [p \in Peers |-> peer'[p]]
    BY <1>1 DEF StopTransport, HubStopped
  <2> QED BY <1>2, <2>1
<1>4. TransportTypeOK'
  BY <1>1, <1>3 DEF TransportInv, TransportTypeOK
<1>5. Stages'
  BY <1>1, <1>2 DEF TransportInv, Stages, TransportTypeOK
<1>6. Streams'
  BY <1>1, <1>2, <1>3, StreamsLike DEF TransportInv, Serves
<1>7. PostsInOrder'
  <2>1. TransportTypeOK /\ PostsInOrder /\ ev \in Nat
    BY DEF TransportInv, TransportTypeOK
  <2>2. ev' = ev /\ UNCHANGED post
    BY <1>1
  <2>3. ev' \in Nat /\ ev <= ev'
    BY <2>1, <2>2
  <2> QED BY <2>1, <2>2, <2>3, PostsKept
<1> QED BY <1>4, <1>5, <1>6, <1>7 DEF TransportInv

LEMMA RunnerStep == ASSUME TransportInv, NEW late \in BOOLEAN, RunnerStopped(late) PROVE TransportInv'
<1>1. /\ peer \in [Peers -> Peer] /\ UNCHANGED <<kind, ev, aq, post>>
      /\ phase = "runner" /\ phase' = "drain" /\ kind = "server"
      /\ peer' = [p \in Peers |-> IF p \in Handlers THEN [peer[p] EXCEPT !.st = "gone", !.shut = TRUE]
                                 ELSE peer[p]]
      /\ act' = [a \in Acts |-> [act[a] EXCEPT !.waits = FALSE]]
  BY Typed DEF TransportInv, RunnerStopped, Following, Stages
<1>2. ASSUME NEW p \in Peers
      PROVE  peer'[p] \in Peer /\ Like(peer[p], peer'[p]) /\ peer'[p].st \in {"off", "gone"}
  <2> DEFINE o == peer[p]
  <2>1. o \in Peer
    BY <1>1
  <2>2. \/ peer'[p] = [o EXCEPT !.st = "gone", !.shut = TRUE]
        \/ peer'[p] = o /\ o.st \notin {"prepared", "on", "leaving", "closing"}
    BY <1>1 DEF Handlers
  <2> HIDE DEF o
  <2>3. peer'[p] \in Peer /\ Like(o, peer'[p]) /\ peer'[p].st \in {"off", "gone"}
    BY <2>1, <2>2 DEF Peer, Like
  <2> QED BY <2>3 DEF o
<1>3. peer' \in [Peers -> Peer]
  BY <1>1, <1>2
<1>4. /\ act' \in [Acts -> [st : {"none", "queued", "busy", "running", "done", "dropped"},
                            by : Peers \cup {"http", "quick", None}, waits : BOOLEAN]]
      /\ \A a \in Acts : ~act'[a].waits
  BY <1>1, Typed DEF TransportInv
<1>5. TransportTypeOK'
  BY <1>1, <1>3, <1>4 DEF TransportInv, TransportTypeOK
<1>6. Stages'
  BY <1>1, <1>2, <1>4 DEF Stages
<1>7. Streams'
  BY <1>1, <1>2, <1>3, StreamsLike DEF TransportInv, Serves
<1>8. PostsInOrder'
  <2>1. TransportTypeOK /\ PostsInOrder /\ ev \in Nat
    BY DEF TransportInv, TransportTypeOK
  <2>2. ev' = ev /\ UNCHANGED post
    BY <1>1
  <2>3. ev' \in Nat /\ ev <= ev'
    BY <2>1, <2>2
  <2> QED BY <2>1, <2>2, <2>3, PostsKept
<1> QED BY <1>5, <1>6, <1>7, <1>8 DEF TransportInv

LEMMA JoinEndsStep == ASSUME TransportInv, NEW late \in BOOLEAN, JoinEnds(late) PROVE TransportInv'
<1>1. /\ UNCHANGED <<kind, ev, peer, act, aq>> /\ phase = "join" /\ phase' = "drain"
      /\ kind = "client"
  BY DEF TransportInv, JoinEnds, Following, Stages
<1>2. PICK got \in BOOLEAN :
        post' = [q |-> <<>>, cur |-> None,
                 sent |-> IF got /\ post.cur # None THEN Append(post.sent, post.cur) ELSE post.sent]
  BY DEF JoinEnds
<1>3. /\ post.sent \in Seq(Nat) /\ (post.cur # None => post.cur \in Nat)
      /\ post.cur # None => Append(post.sent, post.cur) \in Seq(Nat)
  BY Post
<1>4. /\ post' \in [q : Seq(Nat), cur : Nat \cup {None}, sent : Seq(Nat)]
      /\ post'.q = <<>> /\ post'.cur = None
      /\ post'.sent \in {post.sent, Append(post.sent, post.cur)}
      /\ post'.sent # post.sent => post.cur # None
  BY <1>2, <1>3
<1>5. PostsInOrder'
  BY <1>1, <1>4, SentInOrder
<1>6. TransportTypeOK' /\ Stages'
  BY <1>1, <1>4 DEF TransportInv, TransportTypeOK, Stages
<1>7. Streams'
  BY <1>1, StreamsKept DEF TransportInv, Serves
<1> QED BY <1>5, <1>6, <1>7 DEF TransportInv

LEMMA DrainStep == ASSUME TransportInv, NEW late \in BOOLEAN, DrainEnds(late) PROVE TransportInv'
<1>1. /\ UNCHANGED <<kind, ev, peer, post>> /\ phase = "drain" /\ phase' = "down" /\ aq' = <<>>
      /\ act' = [a \in Acts |-> [act[a] EXCEPT !.st = IF @ \in {"queued", "running"} THEN "dropped" ELSE @]]
  BY DEF TransportInv, DrainEnds, Following
<1>2. /\ act' \in [Acts -> [st : {"none", "queued", "busy", "running", "done", "dropped"},
                            by : Peers \cup {"http", "quick", None}, waits : BOOLEAN]]
      /\ \A a \in Acts : act'[a].st \notin {"queued", "running"} /\ act'[a].waits = act[a].waits
  BY <1>1, Typed DEF TransportInv
<1>3. TransportTypeOK'
  BY <1>1, <1>2 DEF TransportInv, TransportTypeOK
<1>4. Stages'
  BY <1>1, <1>2 DEF TransportInv, Stages
<1>5. Streams'
  BY <1>1, StreamsKept DEF TransportInv, Serves
<1>6. PostsInOrder'
  <2>1. TransportTypeOK /\ PostsInOrder /\ ev \in Nat
    BY DEF TransportInv, TransportTypeOK
  <2>2. ev' = ev /\ UNCHANGED post
    BY <1>1
  <2>3. ev' \in Nat /\ ev <= ev'
    BY <2>1, <2>2
  <2> QED BY <2>1, <2>2, <2>3, PostsKept
<1> QED BY <1>3, <1>4, <1>5, <1>6 DEF TransportInv

----------------------------------------------------------------------------
(* The theorems                                                             *)

LEMMA TransportInitInv == TransportInit => TransportInv
<1> SUFFICES ASSUME TransportInit PROVE TransportInv
  OBVIOUS
<1>1. /\ NoPeer \in Peer /\ NoPeer.st = "off" /\ NoPeer.got = <<>> /\ NoPeer.q = <<>>
      /\ NoPeer.from = 0
  BY DEF NoPeer, Peer
<1>2. /\ kind \in {"server", "client"} /\ phase = "up" /\ ev = 0 /\ aq = <<>>
      /\ peer = [p \in Peers |-> NoPeer]
      /\ act = [a \in Acts |-> [st |-> "none", by |-> None, waits |-> FALSE]]
      /\ post = [q |-> <<>>, cur |-> None, sent |-> <<>>]
  BY DEF TransportInit
<1>3. TransportTypeOK
  BY <1>1, <1>2 DEF TransportTypeOK
<1>4. Stages
  BY <1>1, <1>2 DEF Stages
<1>5. Streams
  <2>1. In(<<>>) = {} /\ Reached(NoPeer) = 0
    BY <1>1 DEF In, Reached
  <2> QED BY <1>1, <1>2, <2>1 DEF Streams, Unbroken, UpToDate
<1>6. PostsInOrder
  BY <1>2 DEF PostsInOrder
<1> QED BY <1>3, <1>4, <1>5, <1>6 DEF TransportInv

(* Every step keeps the invariant.                                          *)
LEMMA TransportInvariantStep == TransportInv /\ [TransportNext]_transportVars => TransportInv'
<1> SUFFICES ASSUME TransportInv, [TransportNext]_transportVars PROVE TransportInv'
  OBVIOUS
<1>1. CASE \E p \in Peers : \/ \E sort \in {"ws", "api", "sse"} : Arrive(p, sort)
                            \/ Join(p) \/ Send(p) \/ Leave(p) \/ LeftNow(p)
                            \/ \E a \in Acts : PeerAsks(p, a)
  BY <1>1, ArriveStep, JoinStep, SendStep, LeaveStep, PeerAskStep
<1>2. CASE \E a \in Acts : HttpAsks(a) \/ Work(a) \/ ActionAnswered(a)
  BY <1>2, PeerAskStep, WorkStep
<1>3. CASE EmitEvent \/ Heartbeat \/ TakeEvent \/ Deliver \/ StopTransport \/ HubStopped
  BY <1>3, EmitEventStep, HeartbeatStep, TakeEventStep, DeliverStep, StopStep
<1>4. CASE \E late \in BOOLEAN : RunnerStopped(late) \/ JoinEnds(late) \/ DrainEnds(late)
  BY <1>4, RunnerStep, JoinEndsStep, DrainStep
<1>5. CASE UNCHANGED transportVars
  <2>1. TransportTypeOK' /\ Stages'
    BY <1>5 DEF transportVars, TransportInv, TransportTypeOK, Stages
  <2>2. Streams'
    BY <1>5, StreamsKept DEF transportVars, TransportInv, Serves
  <2>3. PostsInOrder'
    BY <1>5, PostsKept DEF transportVars, TransportInv, TransportTypeOK
  <2> QED BY <2>1, <2>2, <2>3 DEF TransportInv
<1> QED BY <1>1, <1>2, <1>3, <1>4, <1>5 DEF TransportNext

(* TransportInv is an invariant of the transports.                                  *)
THEOREM TransportInvariant == TransportSpec => []TransportInv
<1> QED BY TransportInitInv, TransportInvariantStep, PTL DEF TransportSpec

(* No HTTP request waits for an action that was thrown away, and when       *)
(* stop() is over no connection and no action is left: the order hub,       *)
(* runner, dispatcher, whatever times out and whoever joins meanwhile.      *)
THEOREM StopLeavesNobody == TransportSpec => []NobodyStranded
<1>1. TransportInv => NobodyStranded
  <2> SUFFICES ASSUME TransportInv PROVE NobodyStranded
    OBVIOUS
  <2>1. phase = "down" => Handlers = {}
    BY DEF TransportInv, Stages, Handlers
  <2> QED BY <2>1 DEF TransportInv, Stages, NobodyStranded
<1> QED BY TransportInvariant, <1>1, PTL

(* What a peer was sent are the events from the one after it joined on, and *)
(* its queue goes on where that ends: a slow peer is cut off and never gets *)
(* a stream with holes.  The HTTP client posts an event at most once and in *)
(* the order of emission, whatever posts fail and whenever it is stopped.   *)
THEOREM StreamsHaveNoGap == TransportSpec => []NoGap
<1>1. TransportInv => NoGap
  <2> SUFFICES ASSUME TransportInv PROVE NoGap
    OBVIOUS
  <2>1. ASSUME NEW p \in Peers PROVE InARow(peer[p])
    <3> DEFINE r == peer[p]
    <3>1. Unbroken(r, ev) /\ r \in Peer /\ ev \in Nat
      BY DEF TransportInv, Streams, TransportTypeOK
    <3> HIDE DEF r
    <3>2. \A n \in In(r.q) : n \in Nat
      BY <3>1 DEF In, Peer
    <3>3. ASSUME NEW n \in In(r.q), NEW m \in 1 .. n - 1, Reached(r) < m PROVE m \in In(r.q)
      <4>1. n <= ev /\ n \in Nat
        BY <3>1, <3>2 DEF Unbroken
      <4>2. m \in 1 .. ev /\ m < n
        BY <3>1, <4>1
      <4> QED BY <3>1, <3>3, <4>2 DEF Unbroken
    <3> QED BY <3>1, <3>3 DEF Unbroken, InARow, r
  <2>2. \A i, j \in 1 .. Len(post.sent) : i < j => post.sent[i] < post.sent[j]
    <3>1. DOMAIN post.sent = 1 .. Len(post.sent)
      BY Post
    <3> QED BY <3>1 DEF TransportInv, PostsInOrder
  <2> QED BY <2>1, <2>2 DEF NoGap
<1> QED BY TransportInvariant, <1>1, PTL
=============================================================================
