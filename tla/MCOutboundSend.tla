--------------------------- MODULE MCOutboundSend ---------------------------
(* Instances of OutboundSend for TLC.  Others write in two rooms, one of     *)
(* them sealed, and edit a message; or the bot sends to the first room.     *)
EXTENDS OutboundSend

CONSTANTS r1, r2, m1, m2, m3, s1, s2

Msg(id, version) == [id |-> id, version |-> version]

TwoRooms      == {r1, r2}
TwoBuckets    == {1, 2}
TwoSenders    == {s1, s2}
OwnIds        == {m2} \cup UNION {{s} \X (0 .. Parts[s]) : s \in Senders}
PartsOf       == [s \in TwoSenders |-> IF s = s1 THEN 2 ELSE 1]
ModesOf       == [s \in TwoSenders |-> IF s = s1 THEN {"plain", "sequence", "thread"} ELSE {"plain"}]
Traffic       == {Msg(m1, 1), Msg(m1, 2), Msg(m2, 1), Msg(m3, 1)}
RoomOfIds     == [id \in Ids |-> IF id = m3 THEN r2 ELSE r1]
BucketOfRooms == [r \in {r1, r2} |-> IF r = r1 THEN 1 ELSE 2]
SealedRooms   == {r2}
FirstOne      == {r1}
ToFirst       == [s \in Senders |-> r1]
AllWorlds     == {"listen", "chat", "send"}
ArrivalsIn    == [w \in AllWorlds |-> CASE w = "listen" -> 3 [] w = "chat" -> 5 [] w = "send" -> 0]
=============================================================================
