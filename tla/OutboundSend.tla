---------------------------- MODULE OutboundSend ----------------------------
(***************************************************************************)
(* Sending to Rocket.Chat: what OneBotActionHandler (bridge/               *)
(* onebot_actions.py) does for send_msg and for merged forwards, over the  *)
(* client of InboundPipeline, through whose connection the echo of a sent  *)
(* message may come before, after or instead of the answer to the request. *)
(* The way of an echo through queues and workers is one step here: those   *)
(* only delay it.                                                          *)
(*                                                                         *)
(* The action of sender s sends the parts 1 .. Parts[s], each a message of *)
(* its own; a forward into a thread sends a header, part 0, first.         *)
(***************************************************************************)
EXTENDS InboundPipeline

CONSTANTS Parts,    \* bound: parts of the action of a sender
          Modes     \* how it may send: "plain", "sequence", "thread"

ASSUME SendAssumption ==
  /\ Parts \in [Senders -> Nat \ {0}]
  /\ Modes \in [Senders -> SUBSET {"plain", "sequence", "thread"}]
  /\ RoomFor \in [Senders -> Rooms]
  /\ \A s \in Senders : \A k \in 0 .. Parts[s] :
       <<s, k>> \in Own /\ RoomOf[<<s, k>>] = RoomFor[s]

VARIABLE job  \* [st, mode, k, flight, cnt, hdr, raw, last, res] of each sender:
              \*   k       the part at hand, or how many were prepared
              \*   flight  the request: "sent", "there" (stored), "no" (answered)
              \*   cnt     progress["sent_count"]
              \*   hdr     progress["thread_header_source_id"] is known
              \*   raw     answers still to be mapped
              \*   last    the last message that was mapped

sendVars == <<vars, job>>

NoJob == [st |-> "none", mode |-> "plain", k |-> 0, flight |-> "no", cnt |-> 0,
          hdr |-> FALSE, raw |-> <<>>, last |-> NoId, res |-> "none"]

SendInit == Init /\ job = [s \in Senders |-> NoJob]

Strict(j) == j.mode # "plain"
First(j) == IF j.mode = "thread" THEN 0 ELSE 1

Rest == <<connection, workers, member, seen, emitted, entered, stopping>>

(* Job s goes on as j. *)
Becomes(s, j) == job' = [job EXCEPT ![s] = j]
Ended(j, res) == [j EXCEPT !.st = "done", !.res = res]
Posting(j, k) == [j EXCEPT !.st = "posting", !.k = k, !.flight = "sent"]

----------------------------------------------------------------------------
(* Before anything is sent                                                 *)

Ask(s, mode) ==
  /\ world = "send" /\ stopping = "no" /\ job[s].st = "none"
  /\ Becomes(s, [NoJob EXCEPT !.st = "preparing", !.mode = mode])
  /\ UNCHANGED vars

(* Every part of a forward is resolved and translated before the first is   *)
(* sent.  Into a thread, Rocket.Chat is asked whether it has threads.       *)
Prepare(s) ==
  LET j == job[s] IN
  /\ j.st = "preparing"
  /\ Becomes(s, IF Strict(j) /\ j.k < Parts[s] THEN [j EXCEPT !.k = @ + 1]
                ELSE IF j.mode = "thread" THEN [j EXCEPT !.st = "threads"]
                ELSE Posting(j, First(j)))
  /\ UNCHANGED vars

(* The nodes cannot be parsed, a reference cannot be resolved, a part is     *)
(* empty, or there is no such target: a forward is refused (1400).  It      *)
(* fails (1500), as others do, if a lookup goes wrong.                     *)
Refuse(s, res) ==
  /\ job[s].st = "preparing"
  /\ res = "refused" => Strict(job[s])
  /\ Becomes(s, Ended(job[s], res))
  /\ UNCHANGED vars

Threads(s, enabled) ==
  /\ job[s].st = "threads"
  /\ Becomes(s, IF enabled THEN Posting(job[s], 0) ELSE Ended(job[s], "failed"))
  /\ UNCHANGED vars

----------------------------------------------------------------------------
(* Sending                                                                 *)

(* Rocket.Chat stores the message; also when nobody waits for the answer    *)
(* any more.                                                               *)
Stored(s) ==
  /\ job[s].flight = "sent"
  /\ job' = [job EXCEPT ![s].flight = "there"]
  /\ posted' = [posted EXCEPT ![s] = Append(@, <<s, job[s].k>>)]
  /\ UNCHANGED <<recent, waiters, sender, echo, Rest>>

(* The connection brings the echo: _handle_incoming_message, once for each   *)
(* message.                                                                *)
Echoed(id) ==
  /\ world = "send" /\ link = "listening" /\ running
  /\ \E s \in Senders : \E i \in DOMAIN posted[s] : posted[s][i] = id
  /\ ~Repeated([id |-> id, version |-> 1])
  /\ seen' = Append(seen, [id |-> id, version |-> 1])
  /\ RememberSelf(id)
  /\ UNCHANGED <<connection, workers, member, emitted, entered, stopping, job>>

(* Mutated form: a message counts as sent when it has been mapped. *)
CountMapped(j, sort) == IF sort = "silent" THEN j.cnt ELSE j.cnt + 1

(* map_progress counts a message as soon as its request is answered; the     *)
(* header is not one of them.                                              *)
Counted(j, sort) == IF Strict(j) /\ j.k > 0 THEN j.cnt + 1 ELSE j.cnt

(* The request is answered, with the message and its thread ("named"),       *)
(* without the thread ("bare") or, for an upload, without the message       *)
(* ("silent").  A forward maps the message before it goes on; other sends   *)
(* map when all is sent.  A header has to be named.                        *)
Answered(s, sort) ==
  LET j == job[s]
      a == [j EXCEPT !.flight = "no", !.cnt = Counted(j, sort),
                     !.raw = Append(@, [id |-> <<s, j.k>>, sort |-> sort])]
  IN
  /\ j.st = "posting" /\ j.flight = "there"
  /\ Becomes(s, IF j.k = 0 /\ sort = "silent" THEN Ended([j EXCEPT !.flight = "no"], "failed")
                ELSE IF j.k = 0 THEN [a EXCEPT !.st = "mapping", !.hdr = TRUE]
                ELSE IF Strict(j) \/ j.k = Parts[s] THEN [a EXCEPT !.st = "mapping"]
                ELSE Posting(a, j.k + 1))
  /\ UNCHANGED vars

(* _request_json raises, and does not repeat a POST: an error, a timeout, a  *)
(* broken connection.  The message may have been stored, or may yet be.    *)
PostFails(s) ==
  /\ job[s].st = "posting"
  /\ Becomes(s, Ended(job[s], "failed"))
  /\ UNCHANGED vars

(* Rocket.Chat declines, or there is nothing to send (no file, no key): a    *)
(* forward ends, other sends go on without this part.                      *)
Declined(s) ==
  LET j == job[s] IN
  /\ j.st = "posting" /\ j.flight = "sent"
  /\ Becomes(s, IF Strict(j) \/ (j.k = Parts[s] /\ j.raw = <<>>)
                  THEN Ended([j EXCEPT !.flight = "no"], "failed")
                ELSE IF j.k = Parts[s] THEN [j EXCEPT !.flight = "no", !.st = "mapping"]
                ELSE Posting(j, j.k + 1))
  /\ UNCHANGED vars

----------------------------------------------------------------------------
(* _map_sent_message                                                       *)

(* The first of the answers is mapped to id, or cannot be (NoId): then a     *)
(* forward ends.                                                           *)
Mapped(s, j, id) ==
  LET m == [j EXCEPT !.raw = Tail(@), !.last = IF id # NoId /\ j.k > 0 THEN id ELSE @]
  IN IF Strict(j) /\ id = NoId THEN Ended(m, "failed")
     ELSE IF Strict(j) /\ j.k < Parts[s] THEN Posting(m, j.k + 1)
     ELSE IF m.raw # <<>> THEN [m EXCEPT !.st = "mapping"]
     ELSE Ended(m, IF m.last = NoId THEN "failed" ELSE "ok")

NeedsEcho(j) == \/ Head(j.raw).sort = "silent"
                \/ Head(j.raw).sort = "bare" /\ j.mode = "thread" /\ j.k > 0

MapNamed(s) ==
  /\ job[s].st = "mapping" /\ ~NeedsEcho(job[s])
  /\ Becomes(s, Mapped(s, job[s], Head(job[s].raw).id))
  /\ UNCHANGED vars

(* _should_prefer_echo_for_thread, or there is no other way. *)
WantEcho(s) ==
  /\ job[s].st = "mapping" /\ NeedsEcho(job[s])
  /\ job' = [job EXCEPT ![s].st = "echo"]
  /\ sender' = [sender EXCEPT ![s] = "wants"] /\ echo' = [echo EXCEPT ![s] = NoId]
  /\ UNCHANGED <<recent, waiters, posted, Rest>>

(* The echo, or two seconds, have come: a message that is known anyway is    *)
(* mapped in either case.                                                  *)
EchoOver(s) ==
  LET r == Head(job[s].raw)
      known == IF r.sort = "bare" THEN r.id ELSE NoId
  IN
  /\ job[s].st = "echo" /\ sender[s] = "idle"
  /\ Becomes(s, Mapped(s, job[s], IF echo[s] # NoId THEN echo[s] ELSE known))
  /\ UNCHANGED vars

(* The client was stopped: the wait is cancelled, and nobody is answered.   *)
Cut(s) ==
  /\ job[s].st = "echo" /\ sender[s] = "cut"
  /\ Becomes(s, Ended(job[s], "none"))
  /\ UNCHANGED vars

(* inbound.translate or the store raises. *)
MapFails(s) ==
  /\ job[s].st = "mapping"
  /\ Becomes(s, Ended(job[s], "failed"))
  /\ UNCHANGED vars

Busy(s) == job[s].st \notin {"none", "done"}

(* The dispatcher's minute is over, wherever the action stands.  The answer  *)
(* is made of the progress (take_timeout_response).                        *)
Timeout(s) ==
  /\ Busy(s) /\ sender[s] # "cut"
  /\ Becomes(s, Ended(job[s], "timeout"))
  /\ waiters' = [r \in Rooms |-> Leave(waiters[r], s)]
  /\ sender' = [sender EXCEPT ![s] = "idle"]
  /\ UNCHANGED <<recent, posted, echo, Rest>>

----------------------------------------------------------------------------
SendStep(s) ==
  \/ Prepare(s) \/ \E res \in {"refused", "failed"} : Refuse(s, res)
  \/ \E enabled \in BOOLEAN : Threads(s, enabled)
  \/ \E sort \in {"named", "bare", "silent"} : Answered(s, sort)
  \/ PostFails(s) \/ Declined(s)
  \/ MapNamed(s) \/ WantEcho(s) \/ EchoOver(s) \/ Cut(s) \/ MapFails(s)

Next ==
  \/ ClientNext /\ UNCHANGED job
  \/ \E s \in Senders :
       \/ \E mode \in Modes[s] : Ask(s, mode)
       \/ SendStep(s) \/ Stored(s) \/ Timeout(s)
       \/ \E k \in 0 .. Parts[s] : Echoed(<<s, k>>)

Spec == SendInit /\ [][Next]_sendVars

----------------------------------------------------------------------------
(* The messages of sender s from this part on, without a hole.              *)
Consecutive(s, first, sent) == sent = [i \in 1 .. Len(sent) |-> <<s, first + i - 1>>]

(* The part that is stored and whose answer is still to come, if any.       *)
Unanswered(j) == IF j.flight = "there" /\ j.k > 0 THEN 1 ELSE 0

Bodies(s) == Cardinality({i \in DOMAIN posted[s] : posted[s][i][2] > 0})

(* A forward is seen in Rocket.Chat as its parts in order from the first    *)
(* (or the header), without a hole and none twice, however far it comes;    *)
(* other sends may leave parts out, but keep their order too.  And what the *)
(* answer says of a forward is true: nothing was sent, if it was refused;   *)
(* all of it, if it went well; otherwise as many messages as sent_count     *)
(* says, and one more if its request never was answered; and a header that  *)
(* is said to be there is there.                                           *)
ForwardIsAccounted ==
  \A s \in Senders :
    LET j == job[s]
    IN  IF Strict(j)
        THEN /\ Consecutive(s, First(j), posted[s])
             /\ j.res = "refused" => posted[s] = <<>>
             /\ j.res = "ok" => Bodies(s) = Parts[s]
             /\ Bodies(s) = j.cnt + Unanswered(j)
             /\ j.hdr => posted[s] # <<>> /\ posted[s][1] = <<s, 0>>
        ELSE \A i, k \in 1 .. Len(posted[s]) : i < k => posted[s][i][2] < posted[s][k][2]

----------------------------------------------------------------------------
(* The invariants the property rests on                                    *)

Job == [st : {"none", "preparing", "threads", "posting", "mapping", "echo", "done"},
        mode : {"plain", "sequence", "thread"}, k : Nat,
        flight : {"no", "sent", "there"}, cnt : Nat, hdr : BOOLEAN,
        raw : Seq([id : Ids, sort : {"named", "bare", "silent"}]),
        last : Ids \cup {NoId},
        res : {"none", "refused", "failed", "timeout", "ok"}]

SendTypeOK == /\ job \in [Senders -> Job]
              /\ posted \in [Senders -> Seq(Senders \X Nat)]

(* Of the messages 0 .. n - 1 or 1 .. n of a forward, those that are parts. *)
PartsAmong(j, n) == IF First(j) = 1 \/ n = 0 THEN n ELSE n - 1

(* Where a job stands, with or without a request under way, its part is one *)
(* of the action; what maps has something to map; and there is no result    *)
(* before the job is done.                                                 *)
Standing(s, j) ==
  /\ j.st \in {"none", "preparing", "threads", "mapping", "echo"} => j.flight = "no"
  /\ j.st = "threads" => j.mode = "thread"
  /\ j.st = "posting" => j.flight # "no"
  /\ j.st \in {"mapping", "echo"} \/ j.flight # "no" => j.k \in First(j) .. Parts[s]
  /\ j.st \in {"mapping", "echo"} => j.raw # <<>>
  /\ j.st # "done" => j.res = "none"

(* A forward j has sent the messages up to the part at hand, that one       *)
(* included unless its request is still to be stored; what was being sent   *)
(* when the action ended may be stored later.                              *)
ForwardStands(s, j, sent) ==
  LET n == Len(sent) IN
  /\ Consecutive(s, First(j), sent)
  /\ PartsAmong(j, n) = j.cnt + Unanswered(j)
  /\ j.st \in {"none", "preparing", "threads"} \/ j.res = "refused" =>
       n = 0 /\ j.flight = "no" /\ ~j.hdr
  /\ j.flight = "sent" => n = j.k - First(j)
  /\ j.flight = "there" \/ j.st \in {"mapping", "echo"} => n = j.k - First(j) + 1
  /\ j.res = "ok" => n = Parts[s] - First(j) + 1 /\ j.flight = "no"
  /\ j.hdr => j.mode = "thread" /\ n > 0

(* Another action has sent parts in order, the one at hand last.           *)
PlainStands(j, sent) ==
  /\ \A i, k \in DOMAIN sent : i < k => sent[i][2] < sent[k][2]
  /\ j.st \in {"none", "preparing"} => sent = <<>>
  /\ j.flight = "sent" => \A i \in DOMAIN sent : sent[i][2] < j.k
  /\ j.flight = "there" => \A i \in DOMAIN sent : sent[i][2] <= j.k

Stands(s, j, sent) == /\ Standing(s, j)
                      /\ IF Strict(j) THEN ForwardStands(s, j, sent) ELSE PlainStands(j, sent)

SendInv == SendTypeOK /\ \A s \in Senders : Stands(s, job[s], posted[s])
=============================================================================
