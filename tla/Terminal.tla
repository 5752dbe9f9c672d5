------------------------------ MODULE Terminal ------------------------------
(***************************************************************************)
(* The terminals of the WebUI (shell/webui.py).  A reader thread takes the *)
(* output of a pseudo terminal and leaves it for the event loop, which     *)
(* collects it in batches, appends it to the history of the terminal and   *)
(* queues it for the websockets that are attached.  Terminals end because  *)
(* their process does, or are closed by a request or for idleness.         *)
(*                                                                         *)
(* _terminal_lock is granted first come first served, and may be held      *)
(* while a websocket is refused, so that others wait.  Every critical      *)
(* section is one step here; "line" holds the sections that were asked for,*)
(* in order.  What runs between two of them without an await is part of    *)
(* the first.                                                              *)
(***************************************************************************)
EXTENDS Integers, Sequences, FiniteSets, SequencesExt

CONSTANTS Terms,        \* terminals, each created once
          Clients,      \* websockets, each attached once
          MaxSessions,  \* _terminal_max_sessions
          MaxOut,       \* bound: reads from all terminals
          Batch,        \* _TERMINAL_OUTPUT_BATCH_CHARS, in reads
          HistMax,      \* _TERMINAL_BUFFER_LIMIT_CHARS, in reads
          QueueMax,     \* _TERMINAL_CLIENT_QUEUE_FRAMES
          MaxCloses,    \* bound: requests to close a terminal
          Nobody

ASSUME TerminalAssumption ==
    /\ MaxSessions \in Nat \ {0} /\ MaxOut \in Nat /\ Batch \in Nat \ {0}
    /\ HistMax \in Nat \ {0} /\ QueueMax \in Nat \ {0} /\ MaxCloses \in Nat
    /\ Nobody \notin Terms \cup Clients /\ IsFiniteSet(Terms)

VARIABLES
    sess,      \* "none", "making", "open", "closing" or "gone"
    fd,        \* the number of the pseudo terminal
    owner,     \* the terminal that a number stands for now, or Nobody
    reader,    \* the thread: "off", "loop", "read" or "done"
    stop,      \* pty_stop
    made,      \* reads so far: the output of a terminal is 1..made
    lost,      \* reads that never became output of the terminal
    thr,       \* thread_pending_output
    drain,     \* thread_output_scheduled: the event loop will drain thr
    pend,      \* pending_output
    handle,    \* output_flush_handle: "none", "armed" or "fired"
    sched,     \* output_flush_scheduled
    shown,     \* what was broadcast; its end is the history
    client,    \* [st, t, str, n, slow]: what was queued for it, frames not yet sent
    line,      \* critical sections asked for
    making,    \* the terminal that holds _terminal_create_lock, or Nobody
    closes

terminalVars == <<sess, fd, owner, reader, stop, made, lost, thr, drain, pend, handle, sched,
          shown, client, line, making, closes>>
feed == <<reader, stop, made, lost, thr, drain>>
batches == <<pend, handle, sched>>

Fds == 1..Cardinality(Terms)
Alive == {"open", "closing"}
Live == {t \in Terms : sess[t] \in Alive}
On(t) == {c \in Clients : client[c].t = t /\ client[c].st = "on"}

Section(do, t, c, d, by) == [do |-> do, t |-> t, c |-> c, d |-> d, by |-> by]
Simple(do, t) == Section(do, t, Nobody, <<>>, "flush")

TerminalInit ==
    /\ sess = [t \in Terms |-> "none"]
    /\ fd = [t \in Terms |-> 0] /\ owner = [f \in Fds |-> Nobody]
    /\ reader = [t \in Terms |-> "off"] /\ stop = [t \in Terms |-> FALSE]
    /\ made = [t \in Terms |-> 0] /\ lost = [t \in Terms |-> {}]
    /\ thr = [t \in Terms |-> <<>>] /\ drain = [t \in Terms |-> FALSE]
    /\ pend = [t \in Terms |-> <<>>]
    /\ handle = [t \in Terms |-> "none"] /\ sched = [t \in Terms |-> FALSE]
    /\ shown = [t \in Terms |-> <<>>]
    /\ client = [c \in Clients |-> [st |-> "off", t |-> Nobody, str |-> <<>>, n |-> 0, slow |-> FALSE]]
    /\ line = <<>> /\ making = Nobody /\ closes = 0

\* _create_terminal_session holds _terminal_create_lock to its end.
MayCreate(t) == making = Nobody

Create(t) ==
    /\ sess[t] = "none"
    /\ MayCreate(t)
    /\ sess' = [sess EXCEPT ![t] = "making"]
    /\ making' = t
    /\ line' = Append(line, Simple("check", t))
    /\ UNCHANGED <<fd, owner, feed, batches, shown, client, closes>>

Turn(do) == line # <<>> /\ Head(line).do = do
Done == line' = Tail(line)
Again(s) == line' = Append(Tail(line), s)

(* The limit is looked at; then the pseudo terminal is opened, with the      *)
(* lowest number that is free.                                               *)
Check ==
    /\ Turn("check")
    /\ LET t == Head(line).t
           free == CHOOSE f \in Fds : owner[f] = Nobody /\ \A g \in 1..(f - 1) : owner[g] # Nobody
       IN IF Cardinality(Live) >= MaxSessions
          THEN /\ sess' = [sess EXCEPT ![t] = "none"]
               /\ making' = Nobody
               /\ Done
               /\ UNCHANGED <<fd, owner>>
          ELSE /\ fd' = [fd EXCEPT ![t] = free]
               /\ owner' = [owner EXCEPT ![free] = t]
               /\ Again(Simple("register", t))
               /\ UNCHANGED <<sess, making>>
    /\ UNCHANGED <<feed, batches, shown, client, closes>>

(* The session is listed and its reader started. *)
Register ==
    /\ Turn("register")
    /\ LET t == Head(line).t
       IN /\ sess' = [sess EXCEPT ![t] = "open"]
          /\ reader' = [reader EXCEPT ![t] = "loop"]
    /\ making' = Nobody
    /\ Done
    /\ UNCHANGED <<fd, owner, stop, made, lost, thr, drain, batches, shown, client, closes>>

(***************************************************************************)
(* The reader thread.                                                      *)
(***************************************************************************)
(* The thread ends: the event loop will finish the session. *)
ReaderEnds(t) ==
    /\ reader' = [reader EXCEPT ![t] = "done"]
    /\ line' = Append(line, Section("mark", t, Nobody, <<>>, "finish"))

(* The stop event is looked at; then the thread waits for something to read. *)
ReaderLoop(t) ==
    /\ reader[t] = "loop"
    /\ IF stop[t]
       THEN ReaderEnds(t)
       ELSE reader' = [reader EXCEPT ![t] = "read"] /\ UNCHANGED line
    /\ UNCHANGED <<sess, fd, owner, stop, made, lost, thr, drain, batches, shown, client, making, closes>>

\* _queue_terminal_output_from_thread.
Queued(t, v) ==
    IF sess[t] = "open"
    THEN /\ thr' = [thr EXCEPT ![t] = Append(@, v)]
         /\ drain' = [drain EXCEPT ![t] = TRUE]
         /\ UNCHANGED lost
    ELSE lost' = [lost EXCEPT ![t] = @ \cup {v}] /\ UNCHANGED <<thr, drain>>

(* Something was read, nothing came for a while, or the process is gone.     *)
(* The read uses the number, whatever it stands for by now: if the terminal  *)
(* was closed and the number given to another one, the output of that one is *)
(* read and dropped.                                                         *)
ReaderRead(t) ==
    /\ reader[t] = "read"
    /\ LET u == owner[fd[t]]
       IN \/ /\ u # Nobody /\ FoldFunction(+, 0, made) < MaxOut
             /\ made' = [made EXCEPT ![u] = @ + 1]
             /\ IF u = t
                THEN Queued(t, made[t] + 1)
                ELSE lost' = [lost EXCEPT ![u] = @ \cup {made[u] + 1}] /\ UNCHANGED <<thr, drain>>
             /\ reader' = [reader EXCEPT ![t] = "loop"]
             /\ UNCHANGED line
          \/ /\ u # Nobody
             /\ reader' = [reader EXCEPT ![t] = "loop"]
             /\ UNCHANGED <<made, lost, thr, drain, line>>
          \/ ReaderEnds(t) /\ UNCHANGED <<made, lost, thr, drain>>
    /\ UNCHANGED <<sess, fd, owner, stop, batches, shown, client, making, closes>>

(***************************************************************************)
(* Output in the event loop.                                               *)
(***************************************************************************)
(* _queue_terminal_output: at once when enough is pending, else by a timer.  *)
Collect(t, d) ==
    /\ pend' = [pend EXCEPT ![t] = @ \o d]
    /\ IF Len(pend[t] \o d) >= Batch
       THEN /\ sched' = [sched EXCEPT ![t] = TRUE]
            /\ line' = IF sched[t] THEN line ELSE Append(line, Simple("flush", t))
            /\ UNCHANGED handle
       ELSE /\ sched' = [sched EXCEPT ![t] = TRUE]
            /\ handle' = [handle EXCEPT ![t] = IF @ = "none" THEN "armed" ELSE @]
            /\ UNCHANGED line

(* _drain_terminal_thread_output. *)
Drain(t) ==
    /\ drain[t]
    /\ drain' = [drain EXCEPT ![t] = FALSE]
    /\ thr' = [thr EXCEPT ![t] = <<>>]
    /\ IF thr[t] = <<>> \/ sess[t] # "open"
       THEN UNCHANGED <<batches, line>>
       ELSE Collect(t, thr[t])
    /\ UNCHANGED <<sess, fd, owner, reader, stop, made, lost, shown, client, making, closes>>

(* The timer of a batch fires. *)
Timer(t) ==
    /\ handle[t] = "armed"
    /\ handle' = [handle EXCEPT ![t] = "fired"]
    /\ line' = Append(line, Simple("flush", t))
    /\ UNCHANGED <<sess, fd, owner, feed, pend, sched, shown, client, making, closes>>

\* What a section of a flush or of the end of a session asks for next.
Afterwards(s, t) == IF s.by = "flush" THEN Done ELSE Again(Section("pop", t, Nobody, <<>>, s.by))

(* _flush_terminal_output: what is pending is taken, and broadcast under the *)
(* lock once more.                                                           *)
Flush ==
    /\ Turn("flush")
    /\ LET t == Head(line).t
       IN IF t \in Live
          THEN /\ handle' = [handle EXCEPT ![t] = "none"]
               /\ sched' = [sched EXCEPT ![t] = FALSE]
               /\ pend' = [pend EXCEPT ![t] = <<>>]
               /\ IF pend[t] = <<>>
                  THEN Afterwards(Head(line), t)
                  ELSE Again(Section("cast", t, Nobody, pend[t], Head(line).by))
          ELSE Done /\ UNCHANGED batches
    /\ UNCHANGED <<sess, fd, owner, feed, shown, client, making, closes>>

\* A client without room misses the output and will be removed.
Offered(c, d) ==
    IF client[c].n >= QueueMax THEN [client[c] EXCEPT !.slow = TRUE]
    ELSE [client[c] EXCEPT !.str = @ \o d, !.n = @ + 1]

(* _broadcast_terminal_output. *)
Broadcast ==
    /\ Turn("cast")
    /\ LET s == Head(line)
       IN IF s.t \in Live
          THEN /\ shown' = [shown EXCEPT ![s.t] = @ \o s.d]
               /\ client' = [c \in Clients |-> IF c \in On(s.t) THEN Offered(c, s.d) ELSE client[c]]
               /\ Afterwards(s, s.t)
          ELSE Done /\ UNCHANGED <<shown, client>>
    /\ UNCHANGED <<sess, fd, owner, feed, batches, making, closes>>

(***************************************************************************)
(* Clients.                                                                *)
(***************************************************************************)
(* The session exists when the client is accepted, and is looked up again.   *)
_handle_terminal_websocket(c, t) ==
    /\ client[c].st = "off" /\ t \in Live
    /\ client' = [client EXCEPT ![c].st = "accepted", ![c].t = t]
    /\ line' = Append(line, Section("attach", t, c, <<>>, "flush"))
    /\ UNCHANGED <<sess, fd, owner, feed, batches, shown, making, closes>>

\* _append_terminal_history, _terminal_history_text: the end of what was shown.
Replay(t) ==
    IF Len(shown[t]) <= HistMax THEN shown[t]
    ELSE SubSeq(shown[t], Len(shown[t]) - HistMax + 1, Len(shown[t]))

(* The history is queued and the client listed, or it is refused. *)
Attach ==
    /\ Turn("attach")
    /\ LET s == Head(line)
       IN client' = [client EXCEPT ![s.c] =
             IF s.t \notin Live THEN [@ EXCEPT !.st = "closed"]
             ELSE [@ EXCEPT !.st = "on", !.str = Replay(s.t),
                            !.n = IF shown[s.t] = <<>> THEN 0 ELSE 1]]
    /\ Done
    /\ UNCHANGED <<sess, fd, owner, feed, batches, shown, making, closes>>

(* _terminal_client_sender sends a frame. *)
Send(c) ==
    /\ client[c].st \in {"on", "ending"} /\ client[c].n > 0
    /\ client' = [client EXCEPT ![c].n = @ - 1]
    /\ UNCHANGED <<sess, fd, owner, feed, batches, shown, line, making, closes>>

(* The browser goes, sending to it fails, or it was too slow. *)
Leave(c) ==
    /\ client[c].st = "on"
    /\ ~\E i \in 1..Len(line) : line[i].do = "remove" /\ line[i].c = c
    /\ line' = Append(line, Section("remove", client[c].t, c, <<>>, "flush"))
    /\ UNCHANGED <<sess, fd, owner, feed, batches, shown, client, making, closes>>

(* _remove_terminal_client. *)
RemoveClient ==
    /\ Turn("remove")
    /\ client' = [client EXCEPT ![Head(line).c].st = "closed"]
    /\ Done
    /\ UNCHANGED <<sess, fd, owner, feed, batches, shown, making, closes>>

(* _close_terminal_clients: what is queued is sent, for a second at most;    *)
(* then the client is closed.                                                *)
LetGo(c) ==
    /\ client[c].st = "ending"
    /\ client' = [client EXCEPT ![c].st = "closed"]
    /\ UNCHANGED <<sess, fd, owner, feed, batches, shown, line, making, closes>>

(***************************************************************************)
(* The end of a session.                                                   *)
(***************************************************************************)
(* _handle_close_terminal, or the cleanup found it idle without clients. *)
Close(t) ==
    /\ closes < MaxCloses /\ closes' = closes + 1
    /\ t \in Live
    /\ \E do \in {"mark", "expire"} :
          line' = Append(line, Section(do, t, Nobody, <<>>, "close"))
    /\ UNCHANGED <<sess, fd, owner, feed, batches, shown, client, making>>

(* _terminal_cleanup_loop: idle terminals are listed under the lock, and     *)
(* closed one by one after it.                                               *)
Expire ==
    /\ Turn("expire")
    /\ LET t == Head(line).t
       IN IF t \in Live /\ On(t) = {} THEN Again(Section("mark", t, Nobody, <<>>, "close")) ELSE Done
    /\ UNCHANGED <<sess, fd, owner, feed, batches, shown, client, making, closes>>

(* Mutated form: what the reader left is not taken over. *)
SealNothing ==
    /\ Turn("mark")
    /\ LET s == Head(line)
       IN IF s.t \in Live
          THEN /\ sess' = [sess EXCEPT ![s.t] = "closing"]
               /\ thr' = [thr EXCEPT ![s.t] = <<>>]
               /\ Again([s EXCEPT !.do = "flush"])
               /\ UNCHANGED pend
          ELSE Done /\ UNCHANGED <<sess, thr, pend>>
    /\ UNCHANGED <<fd, owner, reader, stop, made, lost, drain, handle, sched, shown, client, making, closes>>

(* The session is marked as closing and what the reader thread left is taken *)
(* over (_seal_terminal_thread_output); then all of it is flushed.           *)
Mark ==
    /\ Turn("mark")
    /\ LET s == Head(line)
       IN IF s.t \in Live
          THEN /\ sess' = [sess EXCEPT ![s.t] = "closing"]
               /\ pend' = [pend EXCEPT ![s.t] = @ \o thr[s.t]]
               /\ thr' = [thr EXCEPT ![s.t] = <<>>]
               /\ Again([s EXCEPT !.do = "flush"])
          ELSE Done /\ UNCHANGED <<sess, thr, pend>>
    /\ UNCHANGED <<fd, owner, reader, stop, made, lost, drain, handle, sched, shown, client, making, closes>>

(* Mutated form: clients stay with the session that is gone. *)
StillOn(t) == client

\* The clients of a session that ends are taken out of it.
TakenOut(t) == [c \in Clients |-> IF c \in On(t) THEN [client[c] EXCEPT !.st = "ending"] ELSE client[c]]

(* The session is taken out of the table by whoever comes first; the number  *)
(* is closed and the reader told to stop.                                    *)
Pop ==
    /\ Turn("pop")
    /\ LET t == Head(line).t
       IN IF t \in Live
          THEN /\ sess' = [sess EXCEPT ![t] = "gone"]
               /\ client' = TakenOut(t)
               /\ handle' = [handle EXCEPT ![t] = "none"]
               /\ stop' = [stop EXCEPT ![t] = TRUE]
               /\ owner' = [owner EXCEPT ![fd[t]] = Nobody]
          ELSE UNCHANGED <<sess, client, handle, stop, owner>>
    /\ Done
    /\ UNCHANGED <<fd, reader, made, lost, thr, drain, pend, sched, shown, making, closes>>

(* Writing to the pseudo terminal fails. *)
InputFails(t) ==
    /\ closes < MaxCloses /\ closes' = closes + 1
    /\ t \in Live /\ On(t) # {}
    /\ line' = Append(line, Section("mark", t, Nobody, <<>>, "finish"))
    /\ UNCHANGED <<sess, fd, owner, feed, batches, shown, client, making>>

Loop == \/ Check \/ Register \/ Flush \/ Broadcast \/ Attach \/ RemoveClient \/ Expire \/ Mark \/ Pop

TerminalNext ==
    \/ Loop
    \/ \E t \in Terms : \/ Create(t) \/ ReaderLoop(t) \/ ReaderRead(t)
                        \/ Drain(t) \/ Timer(t) \/ Close(t) \/ InputFails(t)
    \/ \E c \in Clients : Send(c) \/ Leave(c) \/ LetGo(c) \/ \E t \in Terms : _handle_terminal_websocket(c, t)

TerminalSpec == TerminalInit /\ [][TerminalNext]_terminalVars

(* The event loop runs what is ready, timers included; a client that missed  *)
(* output is removed; a thread whose stop event is set sees it.              *)
TerminalFairSpec ==
    /\ TerminalSpec
    /\ WF_terminalVars(Loop)
    /\ \A t \in Terms : WF_terminalVars(Drain(t)) /\ WF_terminalVars(Timer(t))
    /\ \A c \in Clients : WF_terminalVars(LetGo(c)) /\ WF_terminalVars(client[c].slow /\ Leave(c))
-----------------------------------------------------------------------------
(* Output of t that is on its way: in batches that are about to be shown, in *)
(* the order of the line, then what is pending, then what the reader left.   *)
Casts(t) == {k \in DOMAIN line : line[k].do = "cast" /\ line[k].t = t}

Increasing(s) == \A i, j \in DOMAIN s : i < j => s[i] < s[j]

InOrder(t) ==
    /\ Increasing(shown[t] \o pend[t] \o thr[t])
    /\ \A k \in Casts(t) : Increasing(shown[t] \o line[k].d \o pend[t] \o thr[t])
    /\ \A j, k \in Casts(t) : j < k => Increasing(line[j].d \o line[k].d)

Whole(t) ==
    (1..made[t]) \ lost[t] = ToSet(shown[t]) \cup ToSet(pend[t]) \cup ToSet(thr[t])
                             \cup UNION {ToSet(line[k].d) : k \in Casts(t)}

\* A client has the history from when it was attached, and all that came after.
Fed(c) ==
    LET all == shown[client[c].t]
    IN /\ IsSuffix(client[c].str, all)
       /\ Len(client[c].str) >= HistMax \/ client[c].str = all

(* What was read from a terminal while it was open is shown, or on its way,  *)
(* once and in order, through threads, batches, timers and every way to end  *)
(* the session; only reads of a reader whose terminal is gone are lost.  And *)
(* a client has been queued everything shown since it was attached, after    *)
(* the end of the history, without a gap; unless it was too slow.            *)
OutputIsWhole ==
    /\ \A t \in Live : InOrder(t) /\ Whole(t)
    /\ \A c \in Clients : client[c].st \in {"on", "ending"} /\ ~client[c].slow => Fed(c)

\* The terminal of c is gone, or c missed output.
Stranded(c) == client[c].slow \/ (client[c].t # Nobody /\ sess[client[c].t] = "gone")

(* A session that is closing goes, and every client of it is closed, those   *)
(* that were attaching meanwhile too; as is a client that missed output.     *)
(* Output that the reader left for the event loop is shown before that.      *)
EveryoneLetGo ==
    /\ \A t \in Terms : sess[t] = "closing" ~> sess[t] = "gone"
    /\ \A c \in Clients : Stranded(c) ~> client[c].st = "closed"
    /\ \A t \in Terms, i \in 1..MaxOut :
        (\E k \in 1..Len(thr[t]) : thr[t][k] = i) ~> (\E k \in 1..Len(shown[t]) : shown[t][k] = i)

-----------------------------------------------------------------------------
(* The inductive invariant behind OutputIsWhole                             *)
Sections ==
    [do : {"check", "register", "mark", "expire", "flush", "cast", "pop", "attach", "remove"},
     t : Terms, c : Clients \cup {Nobody}, d : Seq(Nat), by : {"flush", "finish", "close"}]

TerminalTypeOK ==
    /\ sess \in [Terms -> {"none", "making", "open", "closing", "gone"}]
    /\ fd \in [Terms -> Fds \cup {0}] /\ owner \in [Fds -> Terms \cup {Nobody}]
    /\ reader \in [Terms -> {"off", "loop", "read", "done"}] /\ stop \in [Terms -> BOOLEAN]
    /\ made \in [Terms -> Nat] /\ lost \in [Terms -> SUBSET Nat]
    /\ thr \in [Terms -> Seq(Nat)] /\ drain \in [Terms -> BOOLEAN]
    /\ pend \in [Terms -> Seq(Nat)] /\ sched \in [Terms -> BOOLEAN]
    /\ handle \in [Terms -> {"none", "armed", "fired"}]
    /\ shown \in [Terms -> Seq(Nat)]
    /\ client \in [Clients -> [st : {"off", "accepted", "on", "ending", "closed"},
                               t : Terms \cup {Nobody}, str : Seq(Nat), n : Nat, slow : BOOLEAN]]
    /\ line \in Seq(Sections) /\ making \in Terms \cup {Nobody} /\ closes \in Nat

\* The creation of a terminal is in the line once, while it holds the lock.
Creates(k) == line[k].do \in {"check", "register"}
Creation ==
    /\ \A t \in Terms : sess[t] = "making" => making = t
    /\ \A k \in DOMAIN line : Creates(k) => line[k].t = making /\ sess[making] = "making"
    /\ \A j, k \in DOMAIN line : Creates(j) /\ Creates(k) => j = k

\* A number stands for one terminal, that has it; a reader has a number.
Registering(t) == \E k \in DOMAIN line : line[k].do = "register" /\ line[k].t = t
Numbers ==
    /\ \A f \in Fds : owner[f] # Nobody => /\ fd[owner[f]] = f
                                           /\ owner[f] \in Live \/ Registering(owner[f])
    /\ \A t \in Terms : reader[t] # "off" \/ Registering(t) => fd[t] \in Fds

(* There is no output of a terminal before it is open, and nothing is left   *)
(* with the reader thread once the session is closing; which it is when its  *)
(* end is in the line.                                                       *)
Ends(k) == line[k].do = "pop" \/ (line[k].do \in {"flush", "cast"} /\ line[k].by # "flush")
SessionStages ==
    /\ \A t \in Terms : sess[t] \in {"none", "making"} =>
          shown[t] = <<>> /\ pend[t] = <<>> /\ Casts(t) = {} /\ lost[t] = 1..made[t]
    /\ \A t \in Terms : lost[t] \subseteq 1..made[t] /\ (sess[t] # "open" => thr[t] = <<>>)
    /\ \A k \in DOMAIN line : Ends(k) => sess[line[k].t] \in {"closing", "gone"}

\* Which terminal a client belongs to
Joined ==
    /\ \A c \in Clients : /\ client[c].st = "off" => client[c].t = Nobody
                          /\ client[c].st = "on" => client[c].t \in Live
                          /\ client[c].st = "ending" => client[c].t \in Terms /\ sess[client[c].t] = "gone"
    /\ \A k \in DOMAIN line : line[k].do = "attach" => line[k].c \in Clients /\ client[line[k].c].t = line[k].t

TerminalInv == TerminalTypeOK /\ Creation /\ Numbers /\ SessionStages /\ Joined /\ OutputIsWhole
=============================================================================
