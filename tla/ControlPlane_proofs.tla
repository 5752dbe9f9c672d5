------------------------ MODULE ControlPlane_proofs ------------------------
(***************************************************************************)
(* Proofs about the manager and the terminals.  The first part is about    *)
(* ControlPlane: that memory and files agree, that a release switch finds  *)
(* its port, and that transports keep their types and do not clash,        *)
(* through failed writes, crashes and restarts.  The second is about       *)
(* RuntimeLifecycle: that every runtime at work is the one in the table,   *)
(* or is being stopped, and that it is what the record of its bot asks for.*)
(* The third is about Terminal: that output arrives whole.                 *)
(***************************************************************************)
EXTENDS ControlPlane, RuntimeLifecycle, Terminal, FiniteSetTheorems, SequenceTheorems,
        WellFoundedInduction, NaturalsInduction, TLAPS

----------------------------------------------------------------------------
(* Settings, tables and files                                              *)

Memories == [set : Settings, bots : Tables, plug : Nat]
Files == [set : Settings, bots : PerBot(BOOLEAN), trans : PerBot(Transports), plug : Nat]
TypeNames == {"websocket-client", "http-server"}
TypeSets == SUBSET TypeNames

(* The fields of memory.                                                   *)
LEMMA MemoryFields ==
  ASSUME NEW m \in Memories
  PROVE  /\ m.set \in Settings /\ m.bots \in Tables /\ m.plug \in Nat
         /\ m.set.pw \in Passwords /\ m.set.port \in Ports
  BY DEF Memories, Settings

(* A record of a bot.                                                      *)
LEMMA RecordFields ==
  ASSUME NEW rec \in Records
  PROVE  /\ rec = [on |-> rec.on, tr |-> rec.tr] /\ rec.on \in BOOLEAN /\ rec.tr \in Transports
         /\ rec.tr.type \in TypeNames
  BY DEF Records, Transports, Client, TypeNames

(* A table, entry by entry.                                                *)
LEMMA TableFields ==
  ASSUME NEW bots \in Tables
  PROVE  /\ DOMAIN bots \subseteq BotIds /\ bots = [b \in DOMAIN bots |-> bots[b]]
         /\ \A b \in DOMAIN bots : bots[b] \in Records
  BY DEF Tables

(* A function with records at some bots is a table.                        *)
LEMMA TableIs ==
  ASSUME NEW S \in SUBSET BotIds, NEW f \in [S -> Records]
  PROVE  f \in Tables
  BY DEF Tables

(* What the files hold of a type-correct memory.                           *)
LEMMA FilesType ==
  ASSUME NEW m \in Memories
  PROVE  /\ FilesOf(m) \in Files
         /\ FilesOf(m).set = m.set /\ FilesOf(m).bots = Flags(m.bots)
         /\ FilesOf(m).trans = Wires(m.bots) /\ FilesOf(m).plug = m.plug
<1>1. m.set \in Settings /\ m.bots \in Tables /\ m.plug \in Nat
  BY MemoryFields
<1>2. DOMAIN m.bots \in SUBSET BotIds /\ \A b \in DOMAIN m.bots : m.bots[b] \in Records
  BY <1>1, TableFields
<1>3. Flags(m.bots) \in PerBot(BOOLEAN)
  <2>1. Flags(m.bots) \in [DOMAIN m.bots -> BOOLEAN]
    BY <1>2, RecordFields DEF Flags
  <2> QED BY <1>2, <2>1 DEF PerBot
<1>4. Wires(m.bots) \in PerBot(Transports)
  <2>1. Wires(m.bots) \in [DOMAIN m.bots -> Transports]
    BY <1>2, RecordFields DEF Wires
  <2> QED BY <1>2, <2>1 DEF PerBot
<1> QED BY <1>1, <1>3, <1>4 DEF FilesOf, Files

(* The types of the transports of a table.                                 *)
LEMMA TypesType ==
  ASSUME NEW bots \in Tables
  PROVE  /\ Types(bots) \in PerBot(TypeSets) /\ DOMAIN Types(bots) = DOMAIN bots
         /\ \A b \in DOMAIN bots : Types(bots)[b] = {bots[b].tr.type}
<1>1. DOMAIN bots \in SUBSET BotIds /\ \A b \in DOMAIN bots : bots[b] \in Records
  BY TableFields
<1>2. \A b \in DOMAIN bots : {bots[b].tr.type} \in TypeSets
  BY <1>1, RecordFields DEF TypeSets
<1>3. Types(bots) \in [DOMAIN bots -> TypeSets]
  BY <1>2 DEF Types
<1> QED BY <1>1, <1>3 DEF Types, PerBot

(* What a bot may be is a set of types, and more than it might be before.  *)
LEMMA MayType ==
  ASSUME acked \in PerBot(TypeSets), NEW lax, NEW b \in DOMAIN acked
  PROVE  May(b, lax) \in TypeSets /\ acked[b] \subseteq May(b, lax)
<1>1. acked[b] \in TypeSets
  BY DEF PerBot
<1>2. Client.type \in TypeNames
  BY DEF Client, TypeNames
<1> QED BY <1>1, <1>2 DEF May, TypeSets

(* A table has types that its bots may have.                               *)
Allowed(bots, lax) ==
  \A b \in DOMAIN bots \cap DOMAIN acked : bots[b].tr.type \in May(b, lax)

(* What is remembered of the types when a table is saved.                  *)
LEMMA SettledType ==
  ASSUME acked \in PerBot(TypeSets), NEW bots \in Tables, NEW lax, Allowed(bots, lax)
  PROVE  /\ Settled(bots, lax) \in PerBot(TypeSets) /\ DOMAIN Settled(bots, lax) = DOMAIN bots
         /\ \A b \in DOMAIN bots : bots[b].tr.type \in Settled(bots, lax)[b]
<1>1. DOMAIN bots \in SUBSET BotIds
  BY TableFields
<1>2. ASSUME NEW b \in DOMAIN bots
      PROVE  Settled(bots, lax)[b] \in TypeSets /\ bots[b].tr.type \in Settled(bots, lax)[b]
  <2>1. CASE b \in DOMAIN acked
    <3>1. Settled(bots, lax)[b] = May(b, lax)
      BY <2>1 DEF Settled
    <3> QED BY <2>1, <3>1, MayType DEF Allowed
  <2>2. CASE b \notin DOMAIN acked
    <3>1. Settled(bots, lax)[b] = Types(bots)[b]
      BY <2>2 DEF Settled
    <3>2. Types(bots)[b] \in TypeSets /\ Types(bots)[b] = {bots[b].tr.type}
      BY TypesType DEF PerBot
    <3> QED BY <3>1, <3>2
  <2> QED BY <2>1, <2>2
<1>3. Settled(bots, lax) = [b \in DOMAIN bots |-> Settled(bots, lax)[b]]
  BY DEF Settled
<1>4. Settled(bots, lax) \in [DOMAIN bots -> TypeSets]
  BY <1>2, <1>3
<1>5. DOMAIN Settled(bots, lax) = DOMAIN bots
  BY DEF Settled
<1> QED BY <1>1, <1>2, <1>4, <1>5 DEF PerBot

(* And so when n files are saved.                                          *)
LEMMA KeptType ==
  ASSUME acked \in PerBot(TypeSets), NEW m \in Memories, NEW lax, NEW n \in {3, 4},
         n = 3 => Allowed(m.bots, lax)
  PROVE  /\ Kept(n, m, lax) \in PerBot(TypeSets) /\ DOMAIN Kept(n, m, lax) = DOMAIN m.bots
         /\ \A b \in DOMAIN m.bots : m.bots[b].tr.type \in Kept(n, m, lax)[b]
<1>1. m.bots \in Tables
  BY MemoryFields
<1>2. CASE n = 3
  BY <1>1, <1>2, SettledType DEF Kept
<1>3. CASE n = 4
  BY <1>1, <1>3, TypesType DEF Kept
<1> QED BY <1>2, <1>3

(* The order in which the files are written.                               *)
LEMMA FirstIs ==
  /\ First(0) = {} /\ First(1) = {"set"} /\ First(2) = {"set", "bots"}
  /\ First(3) = {"set", "bots", "trans"} /\ First(4) = {"set", "bots", "trans", "plug"}
<1>1. Order[1] = "set" /\ Order[2] = "bots" /\ Order[3] = "trans" /\ Order[4] = "plug"
  BY DEF Order
<1>2. 1 .. 0 = {} /\ 1 .. 1 = {1} /\ 1 .. 2 = {1, 2} /\ 1 .. 3 = {1, 2, 3} /\ 1 .. 4 = {1, 2, 3, 4}
  OBVIOUS
<1> QED BY <1>1, <1>2 DEF First

(* The files after some of them were written.                              *)
LEMMA AfterIs ==
  ASSUME disk \in Files, NEW m \in Memories, NEW k \in 0 .. 4
  PROVE  /\ After(k, m) \in Files
         /\ After(k, m).set = IF k >= 1 THEN m.set ELSE disk.set
         /\ After(k, m).bots = IF k >= 2 THEN Flags(m.bots) ELSE disk.bots
         /\ After(k, m).trans = IF k >= 3 THEN Wires(m.bots) ELSE disk.trans
         /\ After(k, m).plug = IF k = 4 THEN m.plug ELSE disk.plug
<1>1. DOMAIN disk = {"set", "bots", "trans", "plug"}
  BY DEF Files
<1>2. FilesOf(m) \in Files
  BY FilesType
<1>3. /\ "set" \in First(k) <=> k >= 1
      /\ "bots" \in First(k) <=> k >= 2
      /\ "trans" \in First(k) <=> k >= 3
      /\ "plug" \in First(k) <=> k = 4
  <2>1. k = 0 \/ k = 1 \/ k = 2 \/ k = 3 \/ k = 4
    OBVIOUS
  <2> QED BY <2>1, FirstIs
<1>4. /\ After(k, m).set = IF k >= 1 THEN FilesOf(m).set ELSE disk.set
      /\ After(k, m).bots = IF k >= 2 THEN FilesOf(m).bots ELSE disk.bots
      /\ After(k, m).trans = IF k >= 3 THEN FilesOf(m).trans ELSE disk.trans
      /\ After(k, m).plug = IF k = 4 THEN FilesOf(m).plug ELSE disk.plug
  BY <1>1, <1>3 DEF After
<1>5. After(k, m) \in Files
  <2>1. After(k, m) = [set |-> After(k, m).set, bots |-> After(k, m).bots,
                       trans |-> After(k, m).trans, plug |-> After(k, m).plug]
    BY <1>1 DEF After
  <2>2. /\ After(k, m).set \in Settings /\ After(k, m).bots \in PerBot(BOOLEAN)
        /\ After(k, m).trans \in PerBot(Transports) /\ After(k, m).plug \in Nat
    BY <1>2, <1>4 DEF Files
  <2> QED BY <2>1, <2>2 DEF Files
<1> QED BY <1>4, <1>5, FilesType

(* Files that hold each part of memory are those of the memory.            *)
LEMMA FilesEqual ==
  ASSUME NEW d \in Files, NEW m \in Memories,
         d.set = m.set, d.bots = Flags(m.bots), d.trans = Wires(m.bots), d.plug = m.plug
  PROVE  d = FilesOf(m)
  BY DEF Files, FilesOf

(* Bots that were written as a whole are read as they were.                *)
LEMMA LoadWritten ==
  ASSUME NEW d, NEW bots \in Tables, d.bots = Flags(bots), d.trans = Wires(bots)
  PROVE  LoadBots(d) = bots
<1>1. DOMAIN d.bots = DOMAIN bots /\ DOMAIN d.trans = DOMAIN bots
  BY DEF Flags, Wires
<1>2. \A b \in DOMAIN bots : d.bots[b] = bots[b].on /\ d.trans[b] = bots[b].tr
  BY DEF Flags, Wires
<1>3. \A b \in DOMAIN bots : [on |-> d.bots[b], tr |-> d.trans[b]] = bots[b]
  BY <1>2, TableFields, RecordFields
<1>4. LoadBots(d) = [b \in DOMAIN bots |-> bots[b]]
  BY <1>1, <1>3 DEF LoadBots
<1> QED BY <1>4, TableFields

(* Bots that are read are a table.                                         *)
LEMMA LoadType ==
  ASSUME NEW d \in Files
  PROVE  /\ LoadBots(d) \in Tables /\ DOMAIN LoadBots(d) = DOMAIN d.bots
         /\ \A b \in DOMAIN d.bots \cap DOMAIN d.trans : LoadBots(d)[b].tr = d.trans[b]
<1>1. PICK S \in SUBSET BotIds : d.bots \in [S -> BOOLEAN]
  BY DEF Files, PerBot
<1>2. PICK T \in SUBSET BotIds : d.trans \in [T -> Transports]
  BY DEF Files, PerBot
<1>3. Client \in Transports
  BY DEF Transports
<1>4. \A b \in S : [on |-> d.bots[b], tr |-> IF b \in DOMAIN d.trans THEN d.trans[b] ELSE Client]
                     \in Records
  BY <1>1, <1>2, <1>3 DEF Records
<1>5. LoadBots(d) \in [S -> Records]
  BY <1>1, <1>4 DEF LoadBots
<1> QED BY <1>1, <1>2, <1>5, TableIs DEF LoadBots

----------------------------------------------------------------------------
(* What a save leaves                                                      *)

(* The files hold the saved bots to their types, and no two clash in them. *)
DiskFits ==
  /\ DOMAIN acked \subseteq DOMAIN disk.trans
  /\ \A b \in DOMAIN acked : disk.trans[b].type \in acked[b]
  /\ ~torn => NoClash(LoadBots(disk))

(* The outcome of a save that ended after k files.                         *)
Lands(k, m) ==
  /\ disk' = After(k, m) /\ torn' = Torn(k, m)
  /\ acked' \in PerBot(TypeSets)
  /\ k >= 3 => /\ DOMAIN acked' = DOMAIN m.bots
               /\ \A b \in DOMAIN m.bots : m.bots[b].tr.type \in acked'[b]
  /\ k < 3 => /\ DOMAIN acked' \subseteq DOMAIN acked
              /\ \A b \in DOMAIN acked' : acked[b] \subseteq acked'[b]

(* A save that ended anywhere leaves such files.                           *)
LEMMA LandsFits ==
  ASSUME disk \in Files, torn \in BOOLEAN, DiskFits, NEW m \in Memories, NEW k \in 0 .. 4,
         Lands(k, m), ~torn => NoClash(m.bots)
  PROVE  DiskFits' /\ disk' \in Files /\ torn' \in BOOLEAN /\ acked' \in PerBot(TypeSets)
<1>1. /\ disk' \in Files
      /\ disk'.bots = IF k >= 2 THEN Flags(m.bots) ELSE disk.bots
      /\ disk'.trans = IF k >= 3 THEN Wires(m.bots) ELSE disk.trans
  BY AfterIs DEF Lands
<1>2. m.bots \in Tables /\ FilesOf(m).trans = Wires(m.bots)
  BY MemoryFields, FilesType
<1>3. torn' \in BOOLEAN /\ (~torn' => ~torn /\ (k = 2 => disk.trans = Wires(m.bots)))
  BY <1>2 DEF Lands, Torn
<1>4. acked' \in PerBot(TypeSets)
  BY DEF Lands
<1>5. /\ DOMAIN acked' \subseteq DOMAIN disk'.trans
      /\ \A b \in DOMAIN acked' : disk'.trans[b].type \in acked'[b]
  <2>1. CASE k >= 3
    <3>1. /\ DOMAIN acked' = DOMAIN m.bots /\ disk'.trans = Wires(m.bots)
          /\ \A b \in DOMAIN m.bots : m.bots[b].tr.type \in acked'[b]
      BY <1>1, <2>1 DEF Lands
    <3> QED BY <3>1 DEF Wires
  <2>2. CASE k < 3
    <3>1. disk'.trans = disk.trans
      BY <1>1, <2>2
    <3> QED BY <2>2, <3>1 DEF Lands, DiskFits
  <2> QED BY <2>1, <2>2
<1>6. ASSUME ~torn' PROVE NoClash(LoadBots(disk'))
  <2>1. CASE k >= 2
    <3>1. disk'.bots = Flags(m.bots) /\ disk'.trans = Wires(m.bots)
      BY <1>1, <1>3, <1>6, <2>1
    <3>2. LoadBots(disk') = m.bots
      BY <1>2, <3>1, LoadWritten
    <3> QED BY <1>3, <1>6, <3>2
  <2>2. CASE k < 2
    <3>1. disk'.bots = disk.bots /\ disk'.trans = disk.trans
      BY <1>1, <2>2
    <3>2. LoadBots(disk') = LoadBots(disk)
      BY <3>1 DEF LoadBots
    <3> QED BY <1>3, <1>6, <3>2 DEF DiskFits
  <2> QED BY <2>1, <2>2
<1>7. DiskFits'
  BY <1>5, <1>6 DEF DiskFits
<1> QED BY <1>1, <1>3, <1>4, <1>7

(* A save that is completed.                                               *)
LEMMA SavedLands ==
  ASSUME acked \in PerBot(TypeSets), torn \in BOOLEAN, NEW m \in Memories, NEW lax,
         NEW n \in {1, 3, 4}, Saved(n, m, lax), n = 3 => Allowed(m.bots, lax)
  PROVE  Lands(n, m)
<1>1. disk' = After(n, m) /\ torn' = Torn(n, m)
  BY DEF Saved, Torn
<1>2. acked' = IF n >= 3 THEN Kept(n, m, lax) ELSE acked
  BY DEF Saved
<1>3. CASE n = 1
  BY <1>1, <1>2, <1>3 DEF Lands
<1>4. CASE n \in {3, 4}
  <2>1. acked' = Kept(n, m, lax)
    BY <1>2, <1>4
  <2> QED BY <1>1, <1>4, <2>1, KeptType DEF Lands
<1> QED BY <1>3, <1>4

(* A save that fails.                                                      *)
LEMMA FailsLands ==
  ASSUME acked \in PerBot(TypeSets), torn \in BOOLEAN, NEW m, NEW lax, NEW n \in {1, 3},
         SaveFails(n, m, lax)
  PROVE  \E k \in 0 .. 2 : /\ Lands(k, m) /\ k < n
                           /\ DOMAIN acked' \subseteq DOMAIN acked \cap DOMAIN m.bots
                           /\ \A b \in DOMAIN acked' : acked'[b] = May(b, lax)
<1>1. PICK S \in SUBSET BotIds : acked \in [S -> TypeSets]
  BY DEF PerBot
<1>2. acked' = [b \in DOMAIN acked \cap DOMAIN m.bots |-> May(b, lax)]
  BY DEF SaveFails
<1>3. /\ DOMAIN acked' = DOMAIN acked \cap DOMAIN m.bots
      /\ \A b \in DOMAIN acked' : acked'[b] = May(b, lax)
  BY <1>2
<1>4. /\ acked' \in PerBot(TypeSets)
      /\ \A b \in DOMAIN acked' : acked[b] \subseteq acked'[b]
  <2>1. S \cap DOMAIN m.bots \in SUBSET BotIds /\ DOMAIN acked = S
    BY <1>1
  <2>2. \A b \in DOMAIN acked : May(b, lax) \in TypeSets /\ acked[b] \subseteq May(b, lax)
    BY MayType
  <2>3. acked' \in [S \cap DOMAIN m.bots -> TypeSets]
    BY <1>2, <2>1, <2>2
  <2>4. acked' \in PerBot(TypeSets)
    BY <2>1, <2>3 DEF PerBot
  <2> QED BY <1>3, <2>2, <2>4
<1>5. \/ n >= 1 /\ disk' = After(0, m) /\ torn' = torn
      \/ n >= 2 /\ disk' = After(1, m) /\ torn' = torn
      \/ n >= 3 /\ disk' = After(2, m) /\ torn' = Torn(2, m)
  BY DEF SaveFails
<1>6. Torn(0, m) = torn /\ Torn(1, m) = torn
  BY DEF Torn
<1>7. PICK k \in 0 .. 2 : k < n /\ disk' = After(k, m) /\ torn' = Torn(k, m)
  BY <1>5, <1>6
<1>8. Lands(k, m)
  BY <1>3, <1>4, <1>7 DEF Lands
<1> QED BY <1>3, <1>7, <1>8

(* A save in the middle of which the process dies.                         *)
LEMMA DiesLands ==
  ASSUME acked \in PerBot(TypeSets), NEW m \in Memories, NEW lax, NEW n \in {1, 3, 4},
         Dies(n, m, lax), n = 3 => Allowed(m.bots, lax)
  PROVE  \E k \in 0 .. n : Lands(k, m)
<1>1. PICK k \in 0 .. n : /\ disk' = After(k, m) /\ torn' = Torn(k, m)
                          /\ acked' = IF k >= 3 THEN Kept(n, m, lax) ELSE acked
  BY DEF Dies
<1>2. CASE k < 3
  BY <1>1, <1>2 DEF Lands
<1>3. CASE k >= 3
  <2>1. n \in {3, 4} /\ acked' = Kept(n, m, lax)
    BY <1>1, <1>3
  <2> QED BY <1>1, <1>3, <2>1, KeptType DEF Lands
<1> QED BY <1>2, <1>3

----------------------------------------------------------------------------
(* Steps that change the files                                             *)

(* Parts of the invariant that these steps leave alone.                    *)
Rest == /\ req \in [Reqs -> [pc : {"idle", "asked", "prepare", "apply"}, kind : Kinds \cup {None}]]
        /\ queue \in Seq(Reqs) /\ gate \in [pw : Passwords, port : Ports]
        /\ login \subseteq Passwords
        /\ switch = None \/ switch \in [port : Ports, saved : BOOLEAN]
        /\ ops \in Nat /\ faults \in Nat

(* The invariant in the parts that the proofs speak of.                    *)
LEMMA InvParts ==
  ControlInv <=> /\ app \in {"up", "down"} /\ strayed \in BOOLEAN /\ torn \in BOOLEAN
                 /\ mem \in Memories /\ disk \in Files /\ acked \in PerBot(TypeSets) /\ Rest
                 /\ Locked /\ PortIsSaved /\ Written /\ DiskFits
                 /\ app = "up" => /\ DOMAIN acked \subseteq DOMAIN mem.bots
                                  /\ \A b \in DOMAIN acked : mem.bots[b].tr.type \in acked[b]
                                  /\ ~torn => NoClash(mem.bots)
  BY DEF ControlInv, TypeOK, Fitting, DiskFits, Rest, Memories, Files, TypeNames, TypeSets

(* and so after a step.                                                    *)
LEMMA InvNext ==
  ASSUME app' \in {"up", "down"}, strayed' \in BOOLEAN, torn' \in BOOLEAN,
         mem' \in Memories, disk' \in Files, acked' \in PerBot(TypeSets), Rest',
         Locked', PortIsSaved', Written', DiskFits',
         app' = "up" => /\ DOMAIN acked' \subseteq DOMAIN mem'.bots
                        /\ \A b \in DOMAIN acked' : mem'.bots[b].tr.type \in acked'[b]
                        /\ ~torn' => NoClash(mem'.bots)
  PROVE  ControlInv'
  BY DEF ControlInv, TypeOK, Fitting, DiskFits, Rest, Memories, Files, TypeNames, TypeSets

(* No request is past its checks while nothing is asked.                   *)
LEMMA QuietIs ==
  /\ Quiet \in [Reqs -> [pc : {"idle", "asked", "prepare", "apply"}, kind : Kinds \cup {None}]]
  /\ \A r \in Reqs : Quiet[r].pc = "idle"
  BY DEF Quiet

(* The process dies in a save: the files of before and of after fit.       *)
LEMMA DyingKeeps ==
  ASSUME ControlInv, app = "up", NEW m \in Memories, NEW lax, NEW n \in {1, 3, 4},
         Dies(n, m, lax), n = 3 => Allowed(m.bots, lax),
         ~torn => NoClash(m.bots), switch # None => m.set = mem.set, ops' \in Nat
  PROVE  ControlInv'
<1>1. /\ disk \in Files /\ torn \in BOOLEAN /\ acked \in PerBot(TypeSets) /\ DiskFits /\ Rest
      /\ Locked /\ PortIsSaved /\ Written /\ mem \in Memories /\ strayed \in BOOLEAN
  BY InvParts
<1>2. PICK k \in 0 .. n : Lands(k, m)
  BY <1>1, DiesLands
<1>3. k \in 0 .. 4
  OBVIOUS
<1>4. DiskFits' /\ disk' \in Files /\ torn' \in BOOLEAN /\ acked' \in PerBot(TypeSets)
  BY <1>1, <1>2, <1>3, LandsFits
<1>5. /\ app' = "down" /\ req' = Quiet /\ queue' = <<>> /\ login' = {} /\ faults' = faults + 1
      /\ UNCHANGED <<mem, strayed, gate, switch>>
  BY DEF Dies
<1>6. Rest'
  BY <1>1, <1>5, QuietIs DEF Rest
<1>7. Locked'
  BY <1>5, QuietIs DEF Locked
<1>8. PortIsSaved'
  <2>1. disk'.set = m.set \/ disk'.set = disk.set
    BY <1>1, <1>2, <1>3, AfterIs DEF Lands
  <2> QED BY <1>1, <1>5, <2>1 DEF PortIsSaved
<1>9. Written'
  BY <1>5 DEF Written
<1> QED BY <1>1, <1>4, <1>5, <1>6, <1>7, <1>8, <1>9, InvNext

(* An operation on the bots.                                               *)
LEMMA ChangeKeeps ==
  ASSUME ControlInv, app = "up", ops' \in Nat, NEW m \in Memories,
         m.set = mem.set, m.plug = mem.plug, ~torn => NoClash(m.bots),
         NEW lax,
         \A b \in DOMAIN m.bots \cap DOMAIN mem.bots :
            m.bots[b].tr.type = mem.bots[b].tr.type \/ (b \in lax /\ m.bots[b].tr = Client),
         ChangeBots(m, lax)
  PROVE  ControlInv'
<1>1. /\ disk \in Files /\ torn \in BOOLEAN /\ acked \in PerBot(TypeSets) /\ DiskFits /\ Rest
      /\ Locked /\ PortIsSaved /\ Written /\ mem \in Memories /\ strayed \in BOOLEAN
      /\ DOMAIN acked \subseteq DOMAIN mem.bots
      /\ \A b \in DOMAIN acked : mem.bots[b].tr.type \in acked[b]
  BY InvParts
<1>0. Allowed(m.bots, lax)
  <2> SUFFICES ASSUME NEW b \in DOMAIN m.bots \cap DOMAIN acked PROVE m.bots[b].tr.type \in May(b, lax)
    BY DEF Allowed
  <2>1. b \in DOMAIN mem.bots /\ mem.bots[b].tr.type \in acked[b]
    BY <1>1
  <2> QED BY <2>1 DEF May
<1>2. CASE Dies(3, m, lax)
  BY <1>0, <1>2, DyingKeeps
<1>3. ASSUME mem' = m, UNCHANGED <<app, gate, login, req, queue, switch>>,
             NEW k \in 0 .. 3, Lands(k, m), faults' \in Nat, strayed' \in BOOLEAN,
             k = 3 \/ strayed', ~strayed' => ~strayed,
             DOMAIN acked' \subseteq DOMAIN m.bots,
             \A b \in DOMAIN acked' : m.bots[b].tr.type \in acked'[b]
      PROVE  ControlInv'
  <2>1. k \in 0 .. 4
    OBVIOUS
  <2>2. DiskFits' /\ disk' \in Files /\ torn' \in BOOLEAN /\ acked' \in PerBot(TypeSets)
    BY <1>1, <1>3, <2>1, LandsFits
  <2>3. /\ disk'.set = IF k >= 1 THEN m.set ELSE disk.set
        /\ disk'.bots = IF k >= 2 THEN Flags(m.bots) ELSE disk.bots
        /\ disk'.trans = IF k >= 3 THEN Wires(m.bots) ELSE disk.trans
        /\ disk'.plug = disk.plug
    BY <1>1, <1>3, <2>1, AfterIs DEF Lands
  <2>4. Rest'
    BY <1>1, <1>3 DEF Rest
  <2>5. Locked' /\ PortIsSaved'
    BY <1>1, <1>3, <2>3 DEF Locked, PortIsSaved
  <2>6. Written'
    <3>1. ASSUME ~strayed' PROVE disk' = FilesOf(mem')
      <4>1. disk = FilesOf(mem) /\ k = 3
        BY <1>1, <1>3, <3>1 DEF Written
      <4>2. disk.plug = m.plug
        BY <1>1, <4>1, FilesType
      <4> QED BY <1>3, <2>2, <2>3, <4>1, <4>2, FilesEqual
    <3> QED BY <1>1, <1>3, <3>1 DEF Written
  <2>8. ~torn' => NoClash(m.bots)
    BY <1>3 DEF Lands, Torn
  <2> QED BY <1>3, <2>2, <2>4, <2>5, <2>6, <2>8, InvNext
<1>4. CASE Saved(3, m, lax) /\ UNCHANGED <<faults, strayed>> /\ mem' = m
           /\ UNCHANGED <<app, gate, login, req, queue, switch>>
  <2>1. Lands(3, m)
    BY <1>0, <1>1, <1>4, SavedLands
  <2>2. faults' \in Nat /\ strayed' \in BOOLEAN
    BY <1>1, <1>4 DEF Rest
  <2>3. DOMAIN acked' = DOMAIN m.bots /\ \A b \in DOMAIN m.bots : m.bots[b].tr.type \in acked'[b]
    BY <2>1 DEF Lands
  <2> QED BY <1>3, <1>4, <2>1, <2>2, <2>3
<1>5. CASE SaveFails(3, m, lax) /\ strayed' = TRUE /\ mem' = m
           /\ UNCHANGED <<app, gate, login, req, queue, switch>>
  <2>1. PICK k \in 0 .. 2 : /\ Lands(k, m) /\ DOMAIN acked' \subseteq DOMAIN acked \cap DOMAIN m.bots
                           /\ \A b \in DOMAIN acked' : acked'[b] = May(b, lax)
    BY <1>1, <1>5, FailsLands
  <2>2. faults' \in Nat /\ k \in 0 .. 3
    BY <1>1, <1>5 DEF SaveFails, Rest
  <2>3. \A b \in DOMAIN acked' : m.bots[b].tr.type \in acked'[b]
    BY <1>0, <2>1 DEF Allowed
  <2> QED BY <1>3, <1>5, <2>1, <2>2, <2>3
<1> QED BY <1>2, <1>4, <1>5 DEF ChangeBots

(* Where no two bots clash, none do among some of them.                    *)
LEMMA FewerClash ==
  ASSUME NEW bots, NEW some, NoClash(bots), DOMAIN some \subseteq DOMAIN bots,
         \A b \in DOMAIN some : ListensAt(some[b]) = None \/ ListensAt(some[b]) = ListensAt(bots[b])
  PROVE  NoClash(some)
  BY DEF NoClash, Conflict

(* create_bot and update_bot.                                              *)
LEMMA PutKeeps ==
  ASSUME ControlInv, NEW b \in BotIds, NEW rec \in Records, NEW typed \in BOOLEAN, PutBot(b, rec, typed)
  PROVE  ControlInv'
<1> DEFINE bots == With(b, rec)
           m == [mem EXCEPT !.bots = bots]
           lax == IF typed THEN {} ELSE {b}
<1>1. /\ mem \in Memories /\ app = "up" /\ ops' \in Nat
      /\ SameType(b, rec, typed) /\ Normalized(rec, typed)
      /\ ~Conflict(bots, b) /\ ChangeBots(m, lax)
  BY InvParts DEF PutBot, Step, Valid, Rest
<1>2. mem.bots \in Tables /\ DOMAIN mem.bots \in SUBSET BotIds
      /\ \A c \in DOMAIN mem.bots : mem.bots[c] \in Records
  BY <1>1, MemoryFields, TableFields
<1>3. /\ DOMAIN bots = DOMAIN mem.bots \cup {b} /\ bots[b] = rec
      /\ \A c \in DOMAIN mem.bots \ {b} : bots[c] = mem.bots[c]
  BY DEF With
<1>4. bots \in Tables
  <2>1. DOMAIN bots \in SUBSET BotIds
    BY <1>2, <1>3
  <2>2. bots \in [DOMAIN bots -> Records]
    BY <1>2 DEF With
  <2> QED BY <2>1, <2>2, TableIs
<1> HIDE DEF bots
<1>5. m \in Memories /\ m.bots = bots /\ m.set = mem.set /\ m.plug = mem.plug
  BY <1>1, <1>4 DEF Memories
<1>6. NoClash(mem.bots) => NoClash(bots)
  BY <1>1, <1>3 DEF NoClash, Conflict
<1>7. \A c \in DOMAIN bots \cap DOMAIN mem.bots :
         bots[c].tr.type = mem.bots[c].tr.type \/ (c \in lax /\ bots[c].tr = Client)
  BY <1>1, <1>3 DEF SameType, Normalized
<1>8. ~torn => NoClash(mem.bots)
  BY <1>1, InvParts
<1> HIDE DEF m, lax
<1> QED BY <1>1, <1>5, <1>6, <1>7, <1>8, ChangeKeeps

(* delete_bot.                                                             *)
LEMMA DeleteKeeps ==
  ASSUME ControlInv, NEW b \in BotIds, DeleteBot(b)
  PROVE  ControlInv'
<1> DEFINE bots == [c \in DOMAIN mem.bots \ {b} |-> mem.bots[c]]
           m == [mem EXCEPT !.bots = bots]
<1>1. mem \in Memories /\ app = "up" /\ ops' \in Nat /\ ChangeBots(m, {})
  <2>1. mem \in Memories /\ app = "up" /\ ops' \in Nat
    BY InvParts DEF DeleteBot, Step, Rest
  <2>2. m = [mem EXCEPT !.bots = [c \in DOMAIN @ \ {b} |-> @[c]]]
    BY <2>1 DEF Memories
  <2> QED BY <2>1, <2>2 DEF DeleteBot
<1>2. mem.bots \in Tables /\ DOMAIN mem.bots \in SUBSET BotIds
      /\ \A c \in DOMAIN mem.bots : mem.bots[c] \in Records
  BY <1>1, MemoryFields, TableFields
<1>3. bots \in Tables
  <2>1. DOMAIN mem.bots \ {b} \in SUBSET BotIds
    BY <1>2
  <2>2. bots \in [DOMAIN mem.bots \ {b} -> Records]
    BY <1>2
  <2> QED BY <2>1, <2>2, TableIs
<1>4. DOMAIN bots \subseteq DOMAIN mem.bots /\ \A c \in DOMAIN bots : bots[c] = mem.bots[c]
  OBVIOUS
<1> HIDE DEF bots
<1>5. m \in Memories /\ m.bots = bots /\ m.set = mem.set /\ m.plug = mem.plug
  BY <1>1, <1>3 DEF Memories
<1>6. NoClash(mem.bots) => NoClash(bots)
  BY <1>4, FewerClash
<1>7. ~torn => NoClash(mem.bots)
  BY <1>1, InvParts
<1> HIDE DEF m
<1> QED BY <1>1, <1>4, <1>5, <1>6, <1>7, ChangeKeeps

(* _disable_bot_after_rocketchat_failure.                                  *)
LEMMA DisableKeeps ==
  ASSUME ControlInv, NEW b \in BotIds, DisableBot(b)
  PROVE  ControlInv'
<1> DEFINE bots == [mem.bots EXCEPT ![b] = [@ EXCEPT !.on = FALSE]]
           m == [mem EXCEPT !.bots = bots]
<1>1. mem \in Memories /\ app = "up" /\ ops' \in Nat /\ b \in DOMAIN mem.bots /\ ChangeBots(m, {})
  <2>1. mem \in Memories /\ app = "up" /\ ops' \in Nat /\ b \in DOMAIN mem.bots
    BY InvParts DEF DisableBot, Step, Rest
  <2>2. m = [mem EXCEPT !.bots[b].on = FALSE]
    BY <2>1 DEF Memories
  <2> QED BY <2>1, <2>2 DEF DisableBot
<1>2. /\ mem.bots \in Tables /\ DOMAIN mem.bots \in SUBSET BotIds
      /\ \A c \in DOMAIN mem.bots : mem.bots[c] \in Records
      /\ mem.bots = [c \in DOMAIN mem.bots |-> mem.bots[c]]
  BY <1>1, MemoryFields, TableFields
<1>3. /\ DOMAIN bots = DOMAIN mem.bots
      /\ \A c \in DOMAIN mem.bots : bots[c] = IF c = b THEN [mem.bots[c] EXCEPT !.on = FALSE]
                                              ELSE mem.bots[c]
      /\ bots = [c \in DOMAIN mem.bots |-> bots[c]]
  BY <1>2
<1> HIDE DEF bots
<1>4. \A c \in DOMAIN bots : /\ bots[c] \in Records /\ bots[c].tr = mem.bots[c].tr
                             /\ bots[c] = mem.bots[c] \/ bots[c].on = FALSE
  <2> SUFFICES ASSUME NEW c \in DOMAIN mem.bots
               PROVE  /\ bots[c] \in Records /\ bots[c].tr = mem.bots[c].tr
                      /\ bots[c] = mem.bots[c] \/ bots[c].on = FALSE
    BY <1>3
  <2>1. mem.bots[c] = [on |-> mem.bots[c].on, tr |-> mem.bots[c].tr]
        /\ mem.bots[c].tr \in Transports /\ mem.bots[c] \in Records
    BY <1>2, RecordFields
  <2>2. CASE c # b
    BY <1>3, <2>1, <2>2
  <2>3. CASE c = b
    <3>1. bots[c] = [on |-> FALSE, tr |-> mem.bots[c].tr]
      BY <1>3, <2>1, <2>3
    <3>2. \A o \in BOOLEAN, t \in Transports : [on |-> o, tr |-> t] \in Records
      BY DEF Records
    <3>3. bots[c] \in Records
      BY <2>1, <3>1, <3>2
    <3> QED BY <3>1, <3>3
  <2> QED BY <2>2, <2>3
<1>5. bots \in Tables
  <2>1. bots \in [DOMAIN mem.bots -> Records]
    BY <1>3, <1>4
  <2> QED BY <1>2, <2>1, TableIs
<1>6. m \in Memories /\ m.bots = bots /\ m.set = mem.set /\ m.plug = mem.plug
  BY <1>1, <1>5 DEF Memories
<1>7. NoClash(mem.bots) => NoClash(bots)
  <2>1. \A c \in DOMAIN bots : ListensAt(bots[c]) = None \/ ListensAt(bots[c]) = ListensAt(mem.bots[c])
    BY <1>4 DEF ListensAt
  <2> QED BY <1>3, <2>1, FewerClash
<1>8. ~torn => NoClash(mem.bots)
  BY <1>1, InvParts
<1>9. \A c \in DOMAIN bots \cap DOMAIN mem.bots : bots[c].tr.type = mem.bots[c].tr.type
  BY <1>4
<1> HIDE DEF m
<1> QED BY <1>1, <1>6, <1>7, <1>8, <1>9, ChangeKeeps

----------------------------------------------------------------------------
(* Requests under the configuration lock                                   *)

(* Nobody is past the checks but the request that holds the lock.          *)
LEMMA OthersWait ==
  ASSUME Locked, NEW r \in Reqs, Holds(r), NEW s \in Reqs, s # r
  PROVE  req[s].pc \notin {"apply", "prepare"}
  BY DEF Locked, Holds

(* A request returns.                                                      *)
LEMMA ReturnFacts ==
  ASSUME Locked, Rest, NEW r \in Reqs, Holds(r), Return(r)
  PROVE  /\ req' \in [Reqs -> [pc : {"idle", "asked", "prepare", "apply"}, kind : Kinds \cup {None}]]
         /\ queue' \in Seq(Reqs)
         /\ \A s \in Reqs : req'[s].pc \notin {"apply", "prepare"}
<1>1. queue \in Seq(Reqs) /\ queue # <<>>
  BY DEF Rest, Holds
<1>2. queue' \in Seq(Reqs)
  BY <1>1 DEF Return
<1>3. /\ req' = [req EXCEPT ![r] = [pc |-> "idle", kind |-> None]]
      /\ req \in [Reqs -> [pc : {"idle", "asked", "prepare", "apply"}, kind : Kinds \cup {None}]]
  BY DEF Return, Rest
<1>4. \A s \in Reqs \ {r} : req'[s] = req[s]
  BY <1>3
<1>5. req'[r].pc = "idle"
  BY <1>3
<1> QED BY <1>2, <1>3, <1>4, <1>5, OthersWait

(* A request passes its checks and is to be applied.                       *)
LEMMA GoesFacts ==
  ASSUME Rest, NEW r \in Reqs, NEW kind \in {"settings", "import"}, Asked(r, kind), Goes(r)
  PROVE  /\ req' \in [Reqs -> [pc : {"idle", "asked", "prepare", "apply"}, kind : Kinds \cup {None}]]
         /\ req'[r].pc = "apply" /\ \A s \in Reqs \ {r} : req'[s] = req[s]
<1>1. req[r].pc = "asked" /\ req[r].kind # "switch"
  BY DEF Asked
<1>2. req' = [req EXCEPT ![r] = [@ EXCEPT !.pc = "apply"]]
  BY <1>1 DEF Goes
<1> QED BY <1>2 DEF Rest

(* A step of the request r leaves the lock in order.                       *)
LEMMA LockedNext ==
  ASSUME Locked, NEW r \in Reqs, Holds(r), app' = "up", switch' = None,
         \/ \A s \in Reqs : req'[s].pc \notin {"apply", "prepare"}
         \/ /\ UNCHANGED queue /\ req'[r].pc = "apply"
            /\ \A s \in Reqs \ {r} : req'[s] = req[s]
  PROVE  Locked'
<1>1. \A s \in Reqs \ {r} : req[s].pc \notin {"apply", "prepare"}
  BY OthersWait
<1> QED BY <1>1 DEF Locked, Holds

(* update_settings and update_card_order, wherever they end but in a crash. *)
LEMMA SettingsKeep ==
  ASSUME ControlInv, NEW r \in Reqs, NEW kind, Asked(r, kind), NEW m \in Memories,
         m.bots = mem.bots, m.plug = mem.plug, mem' = m,
         UNCHANGED <<app, gate, login, switch, ops>>, faults' \in Nat, strayed' \in BOOLEAN,
         NEW k \in 0 .. 1, Lands(k, m),
         k = 1 \/ strayed' \/ m = mem, ~strayed' => ~strayed,
         \/ Return(r) /\ (~strayed' => m.set.pw = mem.set.pw)
         \/ kind \in {"settings", "import"} /\ Goes(r) /\ UNCHANGED queue
  PROVE  ControlInv'
<1>1. /\ disk \in Files /\ torn \in BOOLEAN /\ acked \in PerBot(TypeSets) /\ DiskFits /\ Rest
      /\ Locked /\ PortIsSaved /\ Written /\ mem \in Memories /\ strayed \in BOOLEAN
      /\ app = "up" /\ Holds(r) /\ req[r].pc = "asked" /\ switch = None
  BY InvParts DEF Asked, Holds, Busy
<1>2. /\ DOMAIN acked \subseteq DOMAIN mem.bots
      /\ \A b \in DOMAIN acked : mem.bots[b].tr.type \in acked[b]
      /\ ~torn => NoClash(mem.bots)
  BY <1>1, InvParts
<1>3. k \in 0 .. 4 /\ k < 3 /\ k # 2
  OBVIOUS
<1>4. DiskFits' /\ disk' \in Files /\ torn' \in BOOLEAN /\ acked' \in PerBot(TypeSets)
  BY <1>1, <1>2, <1>3, LandsFits
<1>5. /\ disk'.set = IF k >= 1 THEN m.set ELSE disk.set
      /\ disk'.bots = disk.bots /\ disk'.trans = disk.trans /\ disk'.plug = disk.plug
  BY <1>1, <1>3, AfterIs DEF Lands
<1>6. /\ DOMAIN acked' \subseteq DOMAIN acked /\ \A b \in DOMAIN acked' : acked[b] \subseteq acked'[b]
      /\ torn' = torn
  BY <1>1, <1>3 DEF Lands, Torn
<1>7. /\ req' \in [Reqs -> [pc : {"idle", "asked", "prepare", "apply"}, kind : Kinds \cup {None}]]
      /\ queue' \in Seq(Reqs)
      /\ \/ /\ \A s \in Reqs : req'[s].pc \notin {"apply", "prepare"}
            /\ ~strayed' => m.set.pw = mem.set.pw
         \/ /\ UNCHANGED queue /\ req'[r].pc = "apply"
            /\ \A s \in Reqs \ {r} : req'[s] = req[s]
  <2>1. CASE Return(r) /\ (~strayed' => m.set.pw = mem.set.pw)
    BY <1>1, <2>1, ReturnFacts
  <2>2. CASE kind \in {"settings", "import"} /\ Goes(r) /\ UNCHANGED queue
    BY <1>1, <2>2, GoesFacts DEF Rest
  <2> QED BY <2>1, <2>2
<1>8. Rest'
  BY <1>1, <1>7 DEF Rest
<1>9. Locked'
  BY <1>1, <1>7, LockedNext
<1>10. PortIsSaved'
  BY <1>1 DEF PortIsSaved
<1>11. ASSUME ~strayed' PROVE disk' = FilesOf(mem')
  <2>1. disk = FilesOf(mem)
    BY <1>1, <1>11 DEF Written
  <2>2. disk'.set = m.set
    BY <1>1, <1>5, <1>11, <2>1, FilesType
  <2>3. disk'.bots = Flags(m.bots) /\ disk'.trans = Wires(m.bots) /\ disk'.plug = m.plug
    BY <1>1, <1>5, <2>1, FilesType
  <2> QED BY <1>4, <2>2, <2>3, FilesEqual
<1>12. ASSUME ~strayed', \A s \in Reqs : req'[s].pc # "apply" PROVE gate'.pw = mem'.set.pw
  <2>1. m.set.pw = mem.set.pw
    BY <1>7, <1>12
  <2>2. \A s \in Reqs : req[s].pc # "apply"
    BY <1>1, OthersWait
  <2> QED BY <1>1, <1>12, <2>1, <2>2 DEF Written
<1>13. Written'
  BY <1>1, <1>11, <1>12 DEF Written
<1> QED BY <1>1, <1>2, <1>4, <1>6, <1>8, <1>9, <1>10, <1>13, InvNext

(* A request that changes no file has the outcome of an empty save.        *)
LEMMA NothingLands ==
  ASSUME disk \in Files, torn \in BOOLEAN, acked \in PerBot(TypeSets), NEW m \in Memories,
         UNCHANGED <<disk, torn, acked>>
  PROVE  Lands(0, m)
<1>1. After(0, m) = disk
  BY FirstIs DEF After, Files
<1>2. Torn(0, m) = torn
  BY DEF Torn
<1> QED BY <1>1, <1>2 DEF Lands

(* update_settings.                                                        *)
LEMMA UpdateKeeps ==
  ASSUME ControlInv, NEW r \in Reqs, NEW op \in SettingsOps, UpdateSettings(r, op)
  PROVE  ControlInv'
<1> DEFINE m == Merged(op)
<1>1. /\ disk \in Files /\ torn \in BOOLEAN /\ acked \in PerBot(TypeSets) /\ Rest
      /\ mem \in Memories /\ strayed \in BOOLEAN /\ Asked(r, "settings") /\ app = "up"
      /\ switch = None /\ UNCHANGED ops
  BY InvParts DEF UpdateSettings, Asked, Holds, Busy
<1>2. m \in Memories /\ m.bots = mem.bots /\ m.plug = mem.plug
  <2>1. op.pw \in Passwords \cup {None} /\ op.port \in Ports \cup {None}
    BY DEF SettingsOps
  <2> DEFINE pw == IF op.pw = None THEN mem.set.pw ELSE op.pw
             port == IF op.port = None \/ op.bad = "port" THEN mem.set.port ELSE op.port
  <2>2. pw \in Passwords /\ port \in Ports
    BY <1>1, <2>1, MemoryFields
  <2>3. m = [mem EXCEPT !.set = [mem.set EXCEPT !.pw = pw, !.port = port]]
    BY <1>1 DEF Merged, Memories, Settings
  <2> HIDE DEF m, pw, port
  <2>4. [mem.set EXCEPT !.pw = pw, !.port = port] \in Settings
    BY <1>1, <2>2, MemoryFields DEF Settings
  <2> QED BY <1>1, <2>3, <2>4 DEF Memories
<1> HIDE DEF m
<1>3. CASE /\ mem' = m /\ strayed' = (strayed \/ m # mem) /\ Return(r)
           /\ UNCHANGED <<app, disk, torn, acked, gate, login, switch, faults>>
  <2>1. Lands(0, m)
    BY <1>1, <1>2, <1>3, NothingLands
  <2>2. faults' \in Nat /\ 0 \in 0 .. 1
    BY <1>1, <1>3 DEF Rest
  <2>3. strayed' \in BOOLEAN /\ (~strayed' => m = mem /\ ~strayed)
    BY <1>3
  <2>4. ~strayed' => m.set.pw = mem.set.pw
    BY <2>3
  <2> QED BY <1>1, <1>2, <1>3, <2>1, <2>2, <2>3, <2>4, SettingsKeep
<1>4. CASE /\ mem' = m /\ Saved(1, m, {}) /\ Goes(r)
           /\ UNCHANGED <<app, strayed, gate, login, queue, switch, faults>>
  <2>1. Lands(1, m)
    BY <1>1, <1>2, <1>4, SavedLands
  <2>2. faults' \in Nat /\ strayed' \in BOOLEAN /\ 1 \in 0 .. 1
    BY <1>1, <1>4 DEF Rest
  <2> QED BY <1>1, <1>2, <1>4, <2>1, <2>2, SettingsKeep
<1>5. CASE /\ mem' = m /\ SaveFails(1, m, {}) /\ strayed' = TRUE /\ Return(r)
           /\ UNCHANGED <<app, gate, login, switch>>
  <2>1. PICK k \in 0 .. 2 : Lands(k, m) /\ k < 1
    BY <1>1, <1>5, FailsLands
  <2>2. faults' \in Nat /\ k \in 0 .. 1
    BY <1>1, <1>5, <2>1 DEF Rest, SaveFails
  <2> QED BY <1>1, <1>2, <1>5, <2>1, <2>2, SettingsKeep
<1>6. CASE Dies(1, m, {})
  <2>1. ~torn => NoClash(m.bots)
    BY <1>1, <1>2, InvParts
  <2>2. ops' \in Nat
    BY <1>1 DEF Rest
  <2>3. 1 \in {1, 3, 4} /\ (1 = 3 => Allowed(m.bots, {})) /\ (switch # None => m.set = mem.set)
    BY <1>1
  <2> QED BY <1>1, <1>2, <1>6, <2>1, <2>2, <2>3, DyingKeeps
<1> QED BY <1>3, <1>4, <1>5, <1>6 DEF UpdateSettings, m

(* update_card_order.                                                      *)
LEMMA OrderKeeps ==
  ASSUME ControlInv, NEW r \in Reqs, NEW list \in Lists, UpdateOrder(r, list)
  PROVE  ControlInv'
<1> DEFINE m == [mem EXCEPT !.set = [@ EXCEPT !.order = list]]
<1>1. /\ disk \in Files /\ torn \in BOOLEAN /\ acked \in PerBot(TypeSets) /\ Rest
      /\ mem \in Memories /\ strayed \in BOOLEAN /\ Asked(r, "order") /\ app = "up"
      /\ switch = None /\ UNCHANGED ops
  BY InvParts DEF UpdateOrder, Asked, Holds, Busy
<1>2. /\ m = [mem EXCEPT !.set.order = list]
      /\ m \in Memories /\ m.bots = mem.bots /\ m.plug = mem.plug /\ m.set.pw = mem.set.pw
  BY <1>1 DEF Memories, Settings
<1>3. CASE Return(r) /\ UNCHANGED <<app, mem, disk, torn, acked, strayed, gate, login, switch, faults>>
  <2>1. Lands(0, mem)
    BY <1>1, <1>3, NothingLands
  <2>2. faults' \in Nat /\ strayed' \in BOOLEAN /\ 0 \in 0 .. 1
    BY <1>1, <1>3 DEF Rest
  <2> QED BY <1>1, <1>3, <2>1, <2>2, SettingsKeep
<1> HIDE DEF m
<1>4. CASE /\ mem' = m /\ Saved(1, m, {}) /\ UNCHANGED <<strayed, faults>>
           /\ Return(r) /\ UNCHANGED <<app, gate, login, switch>>
  <2>1. Lands(1, m)
    BY <1>1, <1>2, <1>4, SavedLands
  <2>2. faults' \in Nat /\ strayed' \in BOOLEAN /\ 1 \in 0 .. 1
    BY <1>1, <1>4 DEF Rest
  <2> QED BY <1>1, <1>2, <1>4, <2>1, <2>2, SettingsKeep
<1>5. CASE /\ mem' = m /\ SaveFails(1, m, {}) /\ strayed' = TRUE
           /\ Return(r) /\ UNCHANGED <<app, gate, login, switch>>
  <2>1. PICK k \in 0 .. 2 : Lands(k, m) /\ k < 1
    BY <1>1, <1>5, FailsLands
  <2>2. faults' \in Nat /\ k \in 0 .. 1
    BY <1>1, <1>5, <2>1 DEF Rest, SaveFails
  <2> QED BY <1>1, <1>2, <1>5, <2>1, <2>2, SettingsKeep
<1>6. CASE Dies(1, m, {})
  <2>1. ~torn => NoClash(m.bots)
    BY <1>1, <1>2, InvParts
  <2>2. ops' \in Nat
    BY <1>1 DEF Rest
  <2>3. 1 \in {1, 3, 4} /\ (1 = 3 => Allowed(m.bots, {})) /\ (switch # None => m.set = mem.set)
    BY <1>1
  <2> QED BY <1>1, <1>2, <1>6, <2>1, <2>2, <2>3, DyingKeeps
<1> QED BY <1>2, <1>3, <1>4, <1>5, <1>6 DEF UpdateOrder

(* What an import puts in place.                                           *)
LEMMA ImportedFacts ==
  ASSUME mem \in Memories, NEW op \in ImportOps, NEW m \in Imported(op)
  PROVE  m \in Memories /\ NoClash(m.bots)
<1>1. PICK o \in ImportOrders(DOMAIN op.bots) :
        m = [set |-> [pw |-> op.set.pw, port |-> op.set.port, order |-> o],
             bots |-> op.bots, plug |-> mem.plug + 1]
  BY DEF Imported
<1>2. o \in Lists
  BY DEF ImportOrders
<1>3. /\ op.set.pw \in Passwords /\ op.set.port \in Ports /\ op.bots \in Tables
      /\ \A b \in DOMAIN op.bots : ~Conflict(op.bots, b)
  BY DEF ImportOps
<1>4. mem.plug + 1 \in Nat
  BY MemoryFields
<1>5. m \in Memories
  BY <1>1, <1>2, <1>3, <1>4 DEF Memories, Settings
<1> QED BY <1>1, <1>3, <1>5 DEF NoClash

(* The files after the way back.                                           *)
LEMMA BackType ==
  ASSUME disk \in Files, mem \in Memories
  PROVE  /\ [FilesOf(mem) EXCEPT !.plug = disk.plug] \in Files
         /\ [FilesOf(mem) EXCEPT !.plug = disk.plug].bots = Flags(mem.bots)
         /\ [FilesOf(mem) EXCEPT !.plug = disk.plug].trans = Wires(mem.bots)
  BY FilesType DEF Files

(* import_configuration.                                                   *)
LEMMA ImportKeeps ==
  ASSUME ControlInv, NEW r \in Reqs, NEW op \in ImportOps, Import(r, op)
  PROVE  ControlInv'
<1>1. /\ disk \in Files /\ torn \in BOOLEAN /\ acked \in PerBot(TypeSets) /\ DiskFits /\ Rest
      /\ Locked /\ PortIsSaved /\ Written /\ mem \in Memories /\ strayed \in BOOLEAN
      /\ Asked(r, "import") /\ Holds(r) /\ app = "up" /\ switch = None /\ UNCHANGED ops
  BY InvParts DEF Import, Asked, Holds, Busy
<1>2. /\ DOMAIN acked \subseteq DOMAIN mem.bots
      /\ \A b \in DOMAIN acked : mem.bots[b].tr.type \in acked[b]
      /\ ~torn => NoClash(mem.bots)
      /\ mem.bots \in Tables
  BY <1>1, InvParts, MemoryFields
<1>3. PICK m \in Imported(op) :
        \/ /\ mem' = m /\ Saved(4, m, {}) /\ Goes(r)
           /\ UNCHANGED <<app, strayed, gate, login, queue, switch, faults>>
        \/ /\ faults' = faults + 1 /\ Return(r)
           /\ UNCHANGED <<app, mem, gate, login, switch>>
           /\ \/ RollBack(4, m) /\ UNCHANGED <<torn, strayed>>
              \/ \E k \in {1, 3, 4}, j \in 0..3 :
                    j < k /\ RollBackFails(j, k, m) /\ torn' = TRUE /\ strayed' = TRUE
        \/ Dies(4, m, {})
  BY DEF Import
<1>4. m \in Memories /\ NoClash(m.bots)
  BY <1>1, ImportedFacts
<1>5. CASE /\ mem' = m /\ Saved(4, m, {}) /\ Goes(r)
           /\ UNCHANGED <<app, strayed, gate, login, queue, switch, faults>>
  <2>1. Lands(4, m)
    BY <1>1, <1>4, <1>5, SavedLands
  <2>2. DiskFits' /\ disk' \in Files /\ torn' \in BOOLEAN /\ acked' \in PerBot(TypeSets)
    BY <1>1, <1>4, <2>1, LandsFits
  <2>3. disk' = FilesOf(m)
    <3>1. /\ disk'.set = m.set /\ disk'.bots = Flags(m.bots) /\ disk'.trans = Wires(m.bots)
          /\ disk'.plug = m.plug
      BY <1>1, <1>4, <2>1, AfterIs DEF Lands
    <3> QED BY <1>4, <2>2, <3>1, FilesEqual
  <2>4. /\ req' \in [Reqs -> [pc : {"idle", "asked", "prepare", "apply"}, kind : Kinds \cup {None}]]
        /\ req'[r].pc = "apply" /\ \A s \in Reqs \ {r} : req'[s] = req[s]
    BY <1>1, <1>5, GoesFacts
  <2>5. Rest'
    BY <1>1, <1>5, <2>4 DEF Rest
  <2>6. Locked'
    BY <1>1, <1>5, <2>4, LockedNext
  <2>7. PortIsSaved'
    BY <1>1, <1>5 DEF PortIsSaved
  <2>8. Written'
    BY <1>1, <1>5, <2>3, <2>4 DEF Written
  <2>9. /\ DOMAIN acked' \subseteq DOMAIN m.bots
        /\ \A b \in DOMAIN acked' : m.bots[b].tr.type \in acked'[b]
    BY <2>1 DEF Lands
  <2> QED BY <1>1, <1>4, <1>5, <2>2, <2>5, <2>6, <2>7, <2>8, <2>9, InvNext
<1>6. CASE /\ faults' = faults + 1 /\ Return(r)
           /\ UNCHANGED <<app, mem, gate, login, switch>>
           /\ \/ RollBack(4, m) /\ UNCHANGED <<torn, strayed>>
              \/ \E k \in {1, 3, 4}, j \in 0..3 :
                    j < k /\ RollBackFails(j, k, m) /\ torn' = TRUE /\ strayed' = TRUE
  <2>1. /\ req' \in [Reqs -> [pc : {"idle", "asked", "prepare", "apply"}, kind : Kinds \cup {None}]]
        /\ queue' \in Seq(Reqs)
        /\ \A s \in Reqs : req'[s].pc \notin {"apply", "prepare"}
    BY <1>1, <1>6, ReturnFacts
  <2>2. Rest'
    BY <1>1, <1>6, <2>1 DEF Rest
  <2>3. Locked'
    BY <1>1, <1>6, <2>1, LockedNext
  <2>4. PortIsSaved'
    BY <1>1, <1>6 DEF PortIsSaved
  <2>5. \A s \in Reqs : req[s].pc # "apply"
    BY <1>1, OthersWait DEF Asked
  <2>6. CASE RollBack(4, m) /\ UNCHANGED <<torn, strayed>>
    <3>1. disk' = [FilesOf(mem) EXCEPT !.plug = disk.plug] /\ acked' = Settled(mem.bots, {})
      BY <2>6 DEF RollBack
    <3>2. disk' \in Files /\ disk'.bots = Flags(mem.bots) /\ disk'.trans = Wires(mem.bots)
      BY <1>1, <3>1, BackType
    <3>3. /\ acked' \in PerBot(TypeSets) /\ DOMAIN acked' = DOMAIN mem.bots
          /\ \A b \in DOMAIN mem.bots : mem.bots[b].tr.type \in acked'[b]
      <4>1. Allowed(mem.bots, {})
        BY <1>2 DEF Allowed, May
      <4> QED BY <1>1, <1>2, <3>1, <4>1, SettledType
    <3>4. DiskFits'
      <4>1. LoadBots(disk') = mem.bots
        BY <1>2, <3>2, LoadWritten
      <4>2. /\ DOMAIN disk'.trans = DOMAIN mem.bots
            /\ \A b \in DOMAIN mem.bots : disk'.trans[b] = mem.bots[b].tr
        BY <3>2 DEF Wires
      <4> QED BY <1>2, <2>6, <3>3, <4>1, <4>2 DEF DiskFits
    <3>5. Written'
      <4>1. ASSUME ~strayed PROVE disk' = FilesOf(mem)
        <5>1. disk = FilesOf(mem)
          BY <1>1, <4>1 DEF Written
        <5> QED BY <1>1, <3>1, <5>1, FilesType DEF Files
      <4> QED BY <1>1, <1>6, <2>5, <2>6, <4>1 DEF Written
    <3> QED BY <1>1, <1>2, <1>6, <2>2, <2>3, <2>4, <2>6, <3>2, <3>3, <3>4, <3>5, InvNext
  <2>7. ASSUME NEW k \in {1, 3, 4}, NEW j \in 0 .. 3, RollBackFails(j, k, m), torn' = TRUE,
               strayed' = TRUE
        PROVE  ControlInv'
    <3>1. k \in 0 .. 4
      OBVIOUS
    <3>2. After(k, m) \in Files /\ FilesOf(mem) \in Files
      BY <1>1, <1>4, <3>1, AfterIs, FilesType
    <3>3. disk' = [f \in DOMAIN disk |-> IF f \in First(j) THEN FilesOf(mem)[f] ELSE After(k, m)[f]]
          /\ acked' = Types(NoBots)
      BY <2>7 DEF RollBackFails
    <3>4. disk' \in Files
      <4>1. DOMAIN disk = {"set", "bots", "trans", "plug"}
        BY <1>1 DEF Files
      <4>2. disk' = [set |-> disk'.set, bots |-> disk'.bots, trans |-> disk'.trans, plug |-> disk'.plug]
        BY <3>3, <4>1
      <4>3. /\ disk'.set = FilesOf(mem).set \/ disk'.set = After(k, m).set
            /\ disk'.bots = FilesOf(mem).bots \/ disk'.bots = After(k, m).bots
            /\ disk'.trans = FilesOf(mem).trans \/ disk'.trans = After(k, m).trans
            /\ disk'.plug = FilesOf(mem).plug \/ disk'.plug = After(k, m).plug
        BY <3>3, <4>1
      <4>4. /\ disk'.set \in Settings /\ disk'.bots \in PerBot(BOOLEAN)
            /\ disk'.trans \in PerBot(Transports) /\ disk'.plug \in Nat
        BY <3>2, <4>3 DEF Files
      <4> QED BY <4>2, <4>4 DEF Files
    <3>5. acked' \in PerBot(TypeSets) /\ DOMAIN acked' = {}
      <4>1. DOMAIN NoBots = {} /\ NoBots \in [{} -> Records]
        BY DEF NoBots
      <4>2. NoBots \in Tables
        BY <4>1, TableIs
      <4> QED BY <3>3, <4>1, <4>2, TypesType
    <3>6. DiskFits' /\ Written'
      BY <1>1, <1>6, <2>7, <3>5 DEF DiskFits, Written
    <3> QED BY <1>1, <1>6, <2>2, <2>3, <2>4, <2>7, <3>4, <3>5, <3>6, InvNext
  <2> QED BY <1>6, <2>6, <2>7
<1>7. CASE Dies(4, m, {})
  <2>1. ops' \in Nat
    BY <1>1 DEF Rest
  <2> QED BY <1>1, <1>4, <1>7, <2>1, DyingKeeps
<1> QED BY <1>3, <1>5, <1>6, <1>7

----------------------------------------------------------------------------
(* Steps that leave bots and files alone                                   *)

(* Memory, files and what the files are compared with stay.                *)
LEMMA SameFiles ==
  ASSUME ControlInv, UNCHANGED <<app, mem, disk, torn, acked>>, strayed' \in BOOLEAN,
         Rest', Locked', PortIsSaved', Written'
  PROVE  ControlInv'
<1>1. DiskFits'
  BY InvParts DEF DiskFits
<1> QED BY <1>1, InvParts, InvNext

(* A request of the WebUI waits for the lock.                              *)
LEMMA AskKeeps ==
  ASSUME ControlInv, NEW r \in Reqs, NEW kind \in Kinds, Ask(r, kind)
  PROVE  ControlInv'
<1>1. Rest /\ Locked /\ PortIsSaved /\ Written /\ app = "up" /\ strayed \in BOOLEAN
  BY InvParts DEF Ask, Step
<1>2. /\ req' = [req EXCEPT ![r] = [pc |-> "asked", kind |-> kind]] /\ queue' = Append(queue, r)
      /\ UNCHANGED <<app, mem, disk, torn, acked, strayed, gate, login, switch, faults>>
      /\ ops' = ops + 1 /\ req[r].pc = "idle"
  BY DEF Ask, Step
<1>3. \A s \in Reqs \ {r} : req'[s] = req[s]
  BY <1>1, <1>2 DEF Rest
<1>4. req'[r].pc = "asked"
  BY <1>1, <1>2 DEF Rest
<1>5. Rest'
  BY <1>1, <1>2 DEF Rest
<1>6. queue # <<>> => queue' # <<>> /\ Head(queue') = Head(queue)
  BY <1>1, <1>2 DEF Rest
<1>7. Locked'
  BY <1>1, <1>2, <1>3, <1>4, <1>6 DEF Locked
<1>8. PortIsSaved' /\ Written'
  BY <1>1, <1>2, <1>3, <1>4 DEF PortIsSaved, Written
<1> QED BY <1>1, <1>2, <1>5, <1>7, <1>8, SameFiles

(* A request is refused, or applied, or fails to be.                       *)
LEMMA ReturnKeeps ==
  ASSUME ControlInv, NEW r \in Reqs, Refuse(r) \/ Applied(r) \/ ApplyFails(r)
  PROVE  ControlInv'
<1>1. /\ Rest /\ Locked /\ PortIsSaved /\ Written /\ app = "up" /\ strayed \in BOOLEAN
      /\ mem \in Memories /\ Holds(r) /\ Return(r)
      /\ UNCHANGED <<app, mem, disk, torn, acked, switch, ops>>
  BY InvParts DEF Refuse, Applied, ApplyFails, Holds
<1>2. /\ req' \in [Reqs -> [pc : {"idle", "asked", "prepare", "apply"}, kind : Kinds \cup {None}]]
      /\ queue' \in Seq(Reqs)
      /\ \A s \in Reqs : req'[s].pc \notin {"apply", "prepare"}
  BY <1>1, ReturnFacts
<1>3. Locked' /\ PortIsSaved'
  BY <1>1, <1>2 DEF Locked, PortIsSaved
<1>4. CASE Refuse(r)
  <2>1. UNCHANGED <<strayed, gate, login, faults>> /\ req[r].pc = "asked"
    BY <1>4 DEF Refuse
  <2>2. \A s \in Reqs : req[s].pc # "apply"
    BY <1>1, <2>1, OthersWait
  <2>3. Rest' /\ Written'
    BY <1>1, <1>2, <2>1, <2>2 DEF Rest, Written
  <2> QED BY <1>1, <1>3, <2>1, <2>3, SameFiles
<1>5. CASE Applied(r)
  <2>1. /\ gate' = [gate EXCEPT !.pw = mem.set.pw] /\ login' = Sessions(mem.set.pw)
        /\ UNCHANGED <<strayed, faults>>
    BY <1>5 DEF Applied
  <2>2. mem.set.pw \in Passwords
    BY <1>1, MemoryFields
  <2>3. /\ gate' \in [pw : Passwords, port : Ports] /\ gate'.pw = mem.set.pw
        /\ login' \subseteq Passwords /\ login' \subseteq {mem.set.pw}
    BY <1>1, <2>1, <2>2 DEF Rest, Sessions, Written
  <2>4. Rest' /\ Written'
    BY <1>1, <1>2, <2>1, <2>3 DEF Rest, Written
  <2> QED BY <1>1, <1>3, <2>1, <2>4, SameFiles
<1>6. CASE ApplyFails(r)
  <2>1. UNCHANGED <<gate, login>> /\ strayed' = TRUE /\ faults' = faults + 1
    BY <1>6 DEF ApplyFails
  <2>2. Rest' /\ Written'
    BY <1>1, <1>2, <2>1 DEF Rest, Written
  <2> QED BY <1>1, <1>3, <2>1, <2>2, SameFiles
<1> QED BY <1>4, <1>5, <1>6

(* A release switch is asked for: it is prepared with the lock held.       *)
LEMMA SwitchAsked ==
  ASSUME ControlInv, NEW r \in Reqs, StartSwitch(r)
  PROVE  ControlInv'
<1>1. /\ Rest /\ Locked /\ PortIsSaved /\ Written /\ app = "up" /\ strayed \in BOOLEAN
      /\ Holds(r) /\ req[r].pc = "asked" /\ req[r].kind = "switch" /\ switch = None
      /\ UNCHANGED <<app, mem, disk, torn, acked, strayed, gate, login, switch, ops, faults>>
  BY InvParts DEF StartSwitch, Asked, Holds, Busy
<1>2. \A s \in Reqs : req[s].pc \notin {"apply", "prepare"}
  BY <1>1, OthersWait
<1>3. CASE mem.set.port = gate.port /\ Goes(r) /\ UNCHANGED queue
  <2>1. req' = [req EXCEPT ![r] = [@ EXCEPT !.pc = "prepare"]]
    BY <1>1, <1>3 DEF Goes
  <2>2. /\ req' \in [Reqs -> [pc : {"idle", "asked", "prepare", "apply"}, kind : Kinds \cup {None}]]
        /\ req'[r].pc = "prepare" /\ \A s \in Reqs \ {r} : req'[s] = req[s]
    BY <1>1, <2>1 DEF Rest
  <2>3. Rest' /\ Locked'
    BY <1>1, <1>2, <1>3, <2>2 DEF Rest, Locked, Holds
  <2>4. PortIsSaved' /\ Written'
    BY <1>1, <1>2, <2>2 DEF PortIsSaved, Written
  <2> QED BY <1>1, <2>3, <2>4, SameFiles
<1>4. CASE Return(r)
  <2>1. /\ req' \in [Reqs -> [pc : {"idle", "asked", "prepare", "apply"}, kind : Kinds \cup {None}]]
        /\ queue' \in Seq(Reqs)
        /\ \A s \in Reqs : req'[s].pc \notin {"apply", "prepare"}
    BY <1>1, <1>4, ReturnFacts
  <2>2. Rest' /\ Locked' /\ PortIsSaved' /\ Written'
    BY <1>1, <1>2, <2>1 DEF Rest, Locked, PortIsSaved, Written
  <2> QED BY <1>1, <2>2, SameFiles
<1> QED BY <1>3, <1>4 DEF StartSwitch

(* It is prepared, or cannot be: the port it probes is the configured one. *)
LEMMA SwitchPrepared ==
  ASSUME ControlInv, NEW r \in Reqs, NEW ok \in BOOLEAN, Prepared(r, ok)
  PROVE  ControlInv'
<1>1. /\ Rest /\ Locked /\ PortIsSaved /\ Written /\ app = "up" /\ strayed \in BOOLEAN
      /\ Holds(r) /\ Return(r) /\ req[r].pc = "prepare"
      /\ UNCHANGED <<app, mem, disk, torn, acked, strayed, gate, login, ops, faults>>
      /\ switch' = IF ok THEN [port |-> gate.port, saved |-> disk.set = mem.set] ELSE None
  BY InvParts DEF Prepared, Holds
<1>2. mem.set.port = gate.port /\ gate.port \in Ports
  BY <1>1 DEF Locked, Rest
<1>3. /\ req' \in [Reqs -> [pc : {"idle", "asked", "prepare", "apply"}, kind : Kinds \cup {None}]]
      /\ queue' \in Seq(Reqs)
      /\ \A s \in Reqs : req'[s].pc \notin {"apply", "prepare"}
  BY <1>1, ReturnFacts
<1>4. switch' = None \/ switch' \in [port : Ports, saved : BOOLEAN]
  BY <1>1, <1>2
<1>5. Rest' /\ Locked'
  BY <1>1, <1>3, <1>4 DEF Rest, Locked
<1>6. PortIsSaved'
  <2>1. switch' # None => switch'.port = gate.port /\ (switch'.saved => disk.set = mem.set)
    BY <1>1
  <2> QED BY <1>1, <1>2, <2>1 DEF PortIsSaved
<1>7. Written'
  <2>1. \A s \in Reqs : req[s].pc # "apply"
    BY <1>1, OthersWait
  <2> QED BY <1>1, <2>1 DEF Written
<1> QED BY <1>1, <1>5, <1>6, <1>7, SameFiles

(* The switch fails, a session begins or ends.                             *)
LEMMA SessionsKeep ==
  ASSUME ControlInv, SwitchFails \/ \E pw \in Passwords : Login(pw) \/ SessionEnds(pw)
  PROVE  ControlInv'
<1>1. /\ Rest /\ Locked /\ PortIsSaved /\ Written /\ strayed \in BOOLEAN /\ app = "up"
      /\ UNCHANGED <<app, mem, disk, torn, acked, strayed, gate, req, queue, ops, faults>>
  BY InvParts DEF SwitchFails, Login, SessionEnds
<1>2. /\ switch' = None \/ UNCHANGED switch
      /\ login' \subseteq Passwords /\ login' \subseteq {gate.pw}
  BY <1>1 DEF SwitchFails, Login, SessionEnds, Rest, Written
<1>3. Rest' /\ Locked' /\ PortIsSaved' /\ Written'
  BY <1>1, <1>2 DEF Rest, Locked, PortIsSaved, Written
<1> QED BY <1>1, <1>3, SameFiles

----------------------------------------------------------------------------
(* Stop and start                                                          *)

(* The shell stops.                                                        *)
LEMMA StopKeeps ==
  ASSUME ControlInv, Stop
  PROVE  ControlInv'
<1>1. /\ Rest /\ PortIsSaved /\ strayed \in BOOLEAN /\ app' = "down" /\ req' = Quiet
      /\ queue' = <<>> /\ login' = {} /\ DiskFits
      /\ UNCHANGED <<mem, disk, torn, acked, strayed, gate, switch, ops>>
      /\ faults' = faults \/ faults' = faults + 1
  BY InvParts DEF Stop
<1>2. Rest' /\ Locked'
  BY <1>1, QuietIs DEF Rest, Locked
<1>3. PortIsSaved' /\ Written' /\ DiskFits'
  BY <1>1 DEF PortIsSaved, Written, DiskFits
<1> QED BY <1>1, <1>2, <1>3, InvParts, InvNext

(* The shell starts from what is on disk.                                  *)
LEMMA StartKeeps ==
  ASSUME ControlInv, Start
  PROVE  ControlInv'
<1> DEFINE bots == LoadBots(disk)
<1>1. /\ Rest /\ Locked /\ strayed' = FALSE /\ disk \in Files /\ acked \in PerBot(TypeSets)
      /\ DiskFits /\ app = "down" /\ app' = "up" /\ switch' = None
      /\ mem' = [set |-> disk.set, bots |-> bots, plug |-> disk.plug]
      /\ disk' = [disk EXCEPT !.bots = Flags(bots), !.trans = Wires(bots)]
      /\ acked' = Settled(bots, {})
      /\ UNCHANGED <<torn, login, req, queue, ops, faults>> /\ torn \in BOOLEAN
  BY InvParts DEF Start, Loaded
<1>2. PICK p \in Bindable : gate' = [pw |-> disk.set.pw, port |-> p]
  BY DEF Start
<1>3. disk.set \in Settings /\ disk.plug \in Nat /\ disk.set.pw \in Passwords /\ p \in Ports
  BY <1>1, <1>2 DEF Files, Settings, Bindable
<1>4. /\ bots \in Tables /\ DOMAIN bots = DOMAIN disk.bots
      /\ \A b \in DOMAIN disk.bots \cap DOMAIN disk.trans : bots[b].tr = disk.trans[b]
  BY <1>1, LoadType
<1> HIDE DEF bots
<1>5. mem' \in Memories /\ mem'.bots = bots /\ mem'.set = disk.set /\ mem'.plug = disk.plug
  BY <1>1, <1>3, <1>4 DEF Memories
<1>6. disk' = FilesOf(mem') /\ disk' \in Files
  <2>1. FilesOf(mem') \in Files
    BY <1>5, FilesType
  <2> QED BY <1>1, <1>5, <2>1 DEF Files, FilesOf
<1>7. acked' \in PerBot(TypeSets) /\ DOMAIN acked' = DOMAIN bots
      /\ \A b \in DOMAIN bots : bots[b].tr.type \in acked'[b]
  <2>1. \A b \in DOMAIN bots \cap DOMAIN acked : bots[b].tr.type \in acked[b]
    BY <1>1, <1>4 DEF DiskFits
  <2>2. Allowed(bots, {})
    BY <2>1 DEF Allowed, May
  <2> QED BY <1>1, <1>4, <2>2, SettledType
<1>8. /\ disk'.bots = Flags(bots) /\ disk'.trans = Wires(bots)
  BY <1>5, <1>6, FilesType
<1>9. DiskFits'
  <2>1. LoadBots(disk') = bots
    BY <1>4, <1>8, LoadWritten
  <2>2. /\ DOMAIN disk'.trans = DOMAIN bots /\ \A b \in DOMAIN bots : disk'.trans[b] = bots[b].tr
    BY <1>8 DEF Wires
  <2> QED BY <1>1, <1>7, <2>1, <2>2 DEF DiskFits, bots
<1>10. ~torn => NoClash(bots)
  BY <1>1 DEF DiskFits, bots
<1>11. Rest'
  BY <1>1, <1>2, <1>3 DEF Rest
<1>12. Locked' /\ PortIsSaved'
  BY <1>1, QuietIs DEF Locked, PortIsSaved
<1>13. Written'
  BY <1>1, <1>2, <1>5, <1>6 DEF Written, Locked
<1> QED BY <1>1, <1>5, <1>6, <1>7, <1>9, <1>10, <1>11, <1>12, <1>13, InvNext

----------------------------------------------------------------------------
(* The theorems                                                            *)

(* A new installation.                                                     *)
LEMMA InitControl == Init => ControlInv
<1> SUFFICES ASSUME Init PROVE ControlInv
  OBVIOUS
<1>1. Fresh \in Settings
  <2>1. Cardinality(BotIds) \in Nat
    BY ControlAssumption, FS_CardinalityType
  <2>2. <<>> \in Lists
    <3>1. <<>> \in [1 .. 0 -> BotIds] /\ 0 \in 0 .. Cardinality(BotIds) /\ IsInjective(<<>>)
      BY <2>1 DEF IsInjective
    <3>2. <<>> \in BoundedSeq(BotIds, Cardinality(BotIds))
      BY <3>1 DEF BoundedSeq, SeqOf
    <3> QED BY <3>1, <3>2 DEF Lists
  <2>3. (CHOOSE p \in Ports : TRUE) \in Ports
    BY ControlAssumption
  <2> QED BY <2>2, <2>3, ControlAssumption DEF Fresh, Settings
<1>2. NoBots \in Tables /\ DOMAIN NoBots = {}
  <2>1. DOMAIN NoBots = {} /\ NoBots \in [{} -> Records]
    BY DEF NoBots
  <2> QED BY <2>1, TableIs
<1>3. mem \in Memories /\ mem.bots = NoBots /\ mem.set = Fresh
  BY <1>1, <1>2 DEF Init, Memories
<1>4. disk \in Files /\ disk = FilesOf(mem) /\ disk.set = Fresh
      /\ disk.bots = Flags(NoBots) /\ disk.trans = Wires(NoBots)
  BY <1>3, FilesType DEF Init
<1>5. acked \in PerBot(TypeSets) /\ DOMAIN acked = {}
  BY <1>2, TypesType DEF Init
<1>6. /\ app = "up" /\ strayed = FALSE /\ torn = FALSE /\ req = Quiet /\ queue = <<>> /\ switch = None
      /\ gate = [pw |-> Default, port |-> Fresh.port] /\ login = {} /\ ops = 0 /\ faults = 0
  BY DEF Init
<1>7. Rest
  BY <1>1, <1>6, QuietIs, ControlAssumption DEF Rest, Settings
<1>8. Locked /\ PortIsSaved
  BY <1>6, QuietIs DEF Locked, PortIsSaved
<1>9. Written
  <2>1. Fresh.pw = Default
    BY DEF Fresh
  <2> QED BY <1>3, <1>4, <1>6, <2>1 DEF Written
<1>10. DiskFits
  <2>1. LoadBots(disk) = NoBots
    BY <1>2, <1>4, LoadWritten
  <2> QED BY <1>2, <1>5, <2>1 DEF DiskFits, NoClash
<1> QED BY <1>2, <1>3, <1>4, <1>5, <1>6, <1>7, <1>8, <1>9, <1>10, InvParts DEF NoClash

(* Every step.                                                             *)
LEMMA NextControl == ControlInv /\ [Next]_vars => ControlInv'
<1> SUFFICES ASSUME ControlInv, [Next]_vars PROVE ControlInv'
  OBVIOUS
<1>1. ASSUME NEW b \in BotIds,
             DeleteBot(b) \/ DisableBot(b) \/ \E rec \in Records, typed \in BOOLEAN : PutBot(b, rec, typed)
      PROVE  ControlInv'
  BY <1>1, DeleteKeeps, DisableKeeps, PutKeeps
<1>2. ASSUME NEW r \in Reqs,
             \/ \E kind \in Kinds : Ask(r, kind)
             \/ \E op \in SettingsOps : UpdateSettings(r, op)
             \/ \E list \in Lists : UpdateOrder(r, list)
             \/ \E op \in ImportOps : Import(r, op)
      PROVE  ControlInv'
  BY <1>2, AskKeeps, UpdateKeeps, OrderKeeps, ImportKeeps
<1>3. ASSUME NEW r \in Reqs,
             \/ Refuse(r) \/ Applied(r) \/ ApplyFails(r)
             \/ StartSwitch(r) \/ Prepared(r, TRUE) \/ Prepared(r, FALSE)
      PROVE  ControlInv'
  BY <1>3, ReturnKeeps, SwitchAsked, SwitchPrepared
<1>4. CASE SwitchFails \/ Stop \/ Start \/ \E pw \in Passwords : Login(pw) \/ SessionEnds(pw)
  BY <1>4, SessionsKeep, StopKeeps, StartKeeps
<1>5. CASE UNCHANGED vars
  <2>1. /\ UNCHANGED <<app, mem, disk, torn, acked, strayed, gate, login, req, queue, switch>>
        /\ UNCHANGED <<ops, faults>>
    BY <1>5 DEF vars
  <2>2. Rest /\ Locked /\ PortIsSaved /\ Written /\ strayed \in BOOLEAN
    BY InvParts
  <2>3. Rest' /\ Locked'
    BY <2>1, <2>2 DEF Rest, Locked
  <2>4. PortIsSaved' /\ Written'
    BY <2>1, <2>2 DEF PortIsSaved, Written
  <2> QED BY <2>1, <2>2, <2>3, <2>4, SameFiles
<1> QED BY <1>1, <1>2, <1>3, <1>4, <1>5 DEF Next

(* The whole invariant of the configuration.                               *)
THEOREM ControlInvariant == Spec => []ControlInv
  BY InitControl, NextControl, PTL DEF Spec

(* ShellManager: while the shell runs, memory and the four files agree     *)
(* after every operation, failed import and restart, and the WebUI asks    *)
(* for the password in the file.                                           *)
THEOREM FilesFollow == Spec => []MemoryIsOnDisk
<1>1. ControlInv => MemoryIsOnDisk
  <2> SUFFICES ASSUME ControlInv PROVE MemoryIsOnDisk
    OBVIOUS
  <2>1. Rest /\ Locked /\ Written /\ mem \in Memories
    BY InvParts
  <2>2. queue = <<>> => \A r \in Reqs : req[r].pc # "apply"
    BY <2>1 DEF Locked
  <2>3. disk = FilesOf(mem) => disk.set = mem.set
    BY <2>1, FilesType
  <2> QED BY <2>1, <2>2, <2>3 DEF MemoryIsOnDisk, Written
<1> QED BY <1>1, ControlInvariant, PTL

(* _handle_update_switch: the port that the release switch probes is the   *)
(* one in the settings file until the shell starts again.                  *)
THEOREM PortIsKept == Spec => []SwitchKeepsPort
<1>1. ControlInv => SwitchKeepsPort
  BY DEF ControlInv, PortIsSaved, SwitchKeepsPort
<1> QED BY <1>1, ControlInvariant, PTL

(* _validate_transport_listener_conflicts, _normalize_bot_payload,         *)
(* BotRegistry.save: enabled bots do not share a listener, and a saved bot *)
(* keeps its type, unless an update whose transport names no type made it  *)
(* a websocket client.                                                     *)
THEOREM TransportsStay == Spec => []TransportsFit
<1>1. ControlInv => TransportsFit
  BY DEF ControlInv, Fitting, TransportsFit, NoClash
<1> QED BY <1>1, ControlInvariant, PTL

-----------------------------------------------------------------------------
(***************************************************************************)
(* The runtimes of one bot (module RuntimeLifecycle), for any number of    *)
(* runtimes, updates and failures and any limit of reconnect attempts.  The *)
(* inductive invariant IInv says where each runtime stands with respect to  *)
(* the table and to the holder of _runtime_lock; the safety properties of   *)
(* the run follow.                                                          *)
(***************************************************************************)

(* A runtime that gives up finds itself in the table, or nothing.          *)
LEMMA GivingUpAlone ==
  ASSUME IInv, NEW g \in Runtimes, phase[g] \in {"exhausted", "lost"}
  PROVE  placed \in {g, NoRuntime}
<1>1. placed = g \/ leaving = g
  BY DEF IInv, Working
<1>2. leaving = g => reconciling = "stopping"
  BY DEF IInv, LifecycleTypeOK, NoRuntime, Runtimes
<1> QED BY <1>1, <1>2 DEF IInv, Holding

(* What StartRuntime places is a runtime of its own, connecting.           *)
LEMMA Started ==
  ASSUME LifecycleAssumption, IInv, built < MaxRuntimes,
         NEW v \in Versions, StartRuntime(v)
  PROVE  /\ placed' = built + 1 /\ built' = built + 1 /\ placed' \in Runtimes
         /\ config' \in [Runtimes -> 0 .. MaxUpdates + 1] /\ config'[placed'] = v
         /\ \A g \in Runtimes : phase'[g] = IF g = placed' THEN "connecting" ELSE phase[g]
         /\ status' \in [Runtimes -> {"none", "connecting", "reconnecting", "running",
                                      "stopped", "failed"}]
         /\ phase' \in [Runtimes -> {"idle", "connecting", "connected", "exhausted",
                                     "lost", "leaving", "hung"}]
         /\ store' = store \cup {placed'} /\ store' \subseteq 1 .. built'
         /\ stopping[placed'] = "no"
         /\ UNCHANGED <<attempts, stopping>>
<1>1. built \in 0 .. MaxRuntimes /\ built + 1 \in Runtimes
  BY DEF IInv, LifecycleTypeOK, LifecycleAssumption, Runtimes
<1>2. placed' = built + 1 /\ built' = built + 1
  BY DEF StartRuntime
<1>3. config' \in [Runtimes -> 0 .. MaxUpdates + 1] /\ config'[placed'] = v
  BY <1>1, <1>2 DEF IInv, LifecycleTypeOK, StartRuntime, Versions, LifecycleAssumption
<1>4. /\ \A g \in Runtimes : phase'[g] = IF g = placed' THEN "connecting" ELSE phase[g]
      /\ phase' \in [Runtimes -> {"idle", "connecting", "connected", "exhausted",
                                  "lost", "leaving", "hung"}]
  BY <1>1, <1>2 DEF IInv, LifecycleTypeOK, StartRuntime
<1>5. status' \in [Runtimes -> {"none", "connecting", "reconnecting", "running",
                               "stopped", "failed"}]
  BY <1>1 DEF IInv, LifecycleTypeOK, StartRuntime
<1>6. store' = store \cup {placed'} /\ store' \subseteq 1 .. built'
  BY <1>1, <1>2 DEF IInv, LifecycleTypeOK, StartRuntime
<1>7. stopping[placed'] = "no"
  BY <1>1, <1>2 DEF IInv, Unbuilt
<1> QED BY <1>1, <1>2, <1>3, <1>4, <1>5, <1>6, <1>7 DEF StartRuntime

(* An update replaces the record and asks for a reconcile.                 *)
LEMMA UpdateStep ==
  ASSUME LifecycleAssumption, IInv, NEW e \in BOOLEAN, NEW v \in {version, version + 1},
         Update(e, v)
  PROVE  IInv'
<1>1. LifecycleTypeOK' /\ Counted'
  BY DEF IInv, Update, LifecycleTypeOK, Counted, Versions, LifecycleAssumption, record,
         holder, runtime
<1>2. Unbuilt'
  BY DEF IInv, Update, LifecycleTypeOK, Unbuilt, record, holder, runtime
<1>3. Holding'
  BY DEF IInv, Update, LifecycleTypeOK, Holding, record, holder, runtime
<1>4. Stages'
  BY DEF IInv, Update, LifecycleTypeOK, Stages, record, holder, runtime
<1>5. Working'
  BY DEF IInv, Update, LifecycleTypeOK, Working, record, holder, runtime
<1>6. Underway'
  BY DEF IInv, Update, LifecycleTypeOK, Underway, record, holder
<1>7. PlacedRuns'
  BY DEF IInv, Update, LifecycleTypeOK, PlacedRuns, record, holder, runtime
<1>8. EnabledIsServed' /\ DisabledIsDown'
  BY DEF IInv, Update, LifecycleTypeOK, EnabledIsServed, DisabledIsDown, record, holder,
         runtime
<1> QED BY <1>1, <1>2, <1>3, <1>4, <1>5, <1>6, <1>7, <1>8 DEF IInv

(* A reconcile takes the runtime out of the table and stops it.            *)
LEMMA ReconcileStopStep ==
  ASSUME LifecycleAssumption, IInv, ReconcileStop
  PROVE  IInv'
<1>1. LifecycleTypeOK' /\ Counted'
  <2>1. /\ placed \in 0 .. built /\ built \in Nat /\ placed # NoRuntime /\ placed' = NoRuntime
        /\ pending \in 0 .. MaxUpdates + 1 /\ pending > 0 /\ pending' = pending - 1
        /\ reconciling' = "stopping" /\ leaving' = placed
        /\ UNCHANGED <<enabled, version, updates, built, config, attempts, store, status, offline>>
    BY DEF IInv, ReconcileStop, PopAs, LifecycleTypeOK, LifecycleAssumption
  <2>2. placed' \in 0 .. built' /\ leaving' \in 0 .. built'
    BY <2>1 DEF NoRuntime
  <2>3. pending' \in 0 .. MaxUpdates + 1 /\ Counted'
    BY <2>1 DEF IInv, Counted, LifecycleTypeOK, LifecycleAssumption
  <2>4. /\ stopping' \in [Runtimes -> {"no", "clients", "plugins", "closing", "stopped",
                                       "hung", "stuck"}]
        /\ phase' \in [Runtimes -> {"idle", "connecting", "connected", "exhausted",
                                    "lost", "leaving", "hung"}]
    BY DEF IInv, ReconcileStop, BeginStop, LifecycleTypeOK
  <2>5. /\ successor' \in 0 .. MaxUpdates + 1 /\ captured' \in {"none", "current"}
        /\ (captured' = "none") = (successor' = NoRuntime)
    BY DEF IInv, ReconcileStop, LifecycleTypeOK, Versions, NoRuntime, LifecycleAssumption
  <2> QED BY <2>1, <2>2, <2>3, <2>4, <2>5 DEF IInv, LifecycleTypeOK
<1>2. Unbuilt'
  BY DEF IInv, ReconcileStop, LockFree, UpToDate, BeginStop, PopAs, LifecycleTypeOK, Unbuilt,
         record, holder
<1>3. Holding'
  BY DEF IInv, ReconcileStop, LockFree, UpToDate, BeginStop, PopAs, LifecycleTypeOK, Holding,
         record, holder, NoRuntime, Runtimes
<1>4. Stages'
  BY DEF IInv, ReconcileStop, LockFree, UpToDate, BeginStop, PopAs, LifecycleTypeOK, Stages,
         Holding, PlacedRuns, record, holder
<1>5. Working'
  BY DEF IInv, ReconcileStop, LockFree, UpToDate, BeginStop, PopAs, LifecycleTypeOK, Working,
         record, holder
<1>6. Underway'
  BY DEF IInv, ReconcileStop, LockFree, UpToDate, BeginStop, PopAs, LifecycleTypeOK,
         Underway, record, holder
<1>7. PlacedRuns'
  BY DEF IInv, ReconcileStop, LockFree, UpToDate, BeginStop, PopAs, LifecycleTypeOK,
         PlacedRuns, record, holder
<1>8. EnabledIsServed' /\ DisabledIsDown'
  BY DEF IInv, ReconcileStop, LockFree, UpToDate, BeginStop, PopAs, LifecycleTypeOK,
         EnabledIsServed, DisabledIsDown, record, holder
<1> QED BY <1>1, <1>2, <1>3, <1>4, <1>5, <1>6, <1>7, <1>8 DEF IInv

(* The offline policy opens and closes the store.                          *)
LEMMA OfflineStep ==
  ASSUME LifecycleAssumption, IInv, OfflineOpen \/ OfflineClose
  PROVE  IInv'
<1>1. LifecycleTypeOK' /\ Counted'
  BY DEF IInv, OfflineOpen, OfflineClose, LockFree, LifecycleTypeOK, Counted, Versions,
         LifecycleAssumption, record, holder, runtime
<1>2. Unbuilt'
  BY DEF IInv, OfflineOpen, OfflineClose, LockFree, LifecycleTypeOK, Unbuilt, record, holder,
         runtime
<1>3. Holding'
  BY DEF IInv, OfflineOpen, OfflineClose, LockFree, LifecycleTypeOK, Holding, record, holder,
         runtime
<1>4. Stages'
  BY DEF IInv, OfflineOpen, OfflineClose, LockFree, LifecycleTypeOK, Stages, record, holder,
         runtime
<1>5. Working'
  BY DEF IInv, OfflineOpen, OfflineClose, LockFree, LifecycleTypeOK, Working, record, holder,
         runtime
<1>6. Underway'
  BY DEF IInv, OfflineOpen, OfflineClose, LockFree, LifecycleTypeOK, Underway, record, holder
<1>7. PlacedRuns'
  BY DEF IInv, OfflineOpen, OfflineClose, LockFree, LifecycleTypeOK, PlacedRuns, record,
         holder, runtime
<1>8. EnabledIsServed' /\ DisabledIsDown'
  BY DEF IInv, OfflineOpen, OfflineClose, LockFree, LifecycleTypeOK, EnabledIsServed,
         DisabledIsDown, record, holder, runtime
<1> QED BY <1>1, <1>2, <1>3, <1>4, <1>5, <1>6, <1>7, <1>8 DEF IInv

(* The supervisor connects.                                                *)
LEMMA ConnectStep ==
  ASSUME LifecycleAssumption, IInv, NEW g \in Runtimes, Connect(g)
  PROVE  IInv'
<1>1. LifecycleTypeOK' /\ Counted'
  BY DEF IInv, Connect, LifecycleTypeOK, Counted, Versions, LifecycleAssumption, record,
         holder
<1>2. Unbuilt'
  BY DEF IInv, Connect, LifecycleTypeOK, Unbuilt, record, holder
<1>3. Holding'
  BY DEF IInv, Connect, LifecycleTypeOK, Holding, record, holder
<1>4. Stages'
  BY DEF IInv, Connect, LifecycleTypeOK, Stages, record, holder
<1>5. Working'
  BY DEF IInv, Connect, LifecycleTypeOK, Working, record, holder
<1>6. Underway'
  BY DEF IInv, Connect, LifecycleTypeOK, Underway, record, holder
<1>7. PlacedRuns'
  BY DEF IInv, Connect, LifecycleTypeOK, PlacedRuns, record, holder
<1>8. EnabledIsServed' /\ DisabledIsDown'
  BY DEF IInv, Connect, LifecycleTypeOK, EnabledIsServed, DisabledIsDown, record, holder
<1> QED BY <1>1, <1>2, <1>3, <1>4, <1>5, <1>6, <1>7, <1>8 DEF IInv

(* The supervisor fails to connect.                                        *)
LEMMA ConnectFailsStep ==
  ASSUME LifecycleAssumption, IInv, NEW g \in Runtimes, ConnectFails(g)
  PROVE  IInv'
<1>1. LifecycleTypeOK' /\ Counted'
  BY DEF IInv, ConnectFails, Failing, LifecycleTypeOK, Counted, Versions,
         LifecycleAssumption, record, holder
<1>2. Unbuilt'
  BY DEF IInv, ConnectFails, Failing, LifecycleTypeOK, Unbuilt, record, holder
<1>3. Holding'
  BY DEF IInv, ConnectFails, Failing, LifecycleTypeOK, Holding, record, holder
<1>4. Stages'
  BY DEF IInv, ConnectFails, Failing, LifecycleTypeOK, Stages, record, holder
<1>5. Working'
  BY DEF IInv, ConnectFails, Failing, LifecycleTypeOK, Working, record, holder
<1>6. Underway'
  BY DEF IInv, ConnectFails, Failing, LifecycleTypeOK, Underway, record, holder
<1>7. PlacedRuns'
  BY DEF IInv, ConnectFails, Failing, LifecycleTypeOK, PlacedRuns, record, holder
<1>8. EnabledIsServed' /\ DisabledIsDown'
  BY DEF IInv, ConnectFails, Failing, LifecycleTypeOK, EnabledIsServed, DisabledIsDown,
         record, holder
<1> QED BY <1>1, <1>2, <1>3, <1>4, <1>5, <1>6, <1>7, <1>8 DEF IInv

(* The client fails to reconnect.                                          *)
LEMMA LoseStep ==
  ASSUME LifecycleAssumption, IInv, NEW g \in Runtimes, Lose(g)
  PROVE  IInv'
<1>1. LifecycleTypeOK' /\ Counted'
  BY DEF IInv, Lose, Failing, LifecycleTypeOK, Counted, Versions, LifecycleAssumption,
         record, holder
<1>2. Unbuilt'
  BY DEF IInv, Lose, Failing, LifecycleTypeOK, Unbuilt, record, holder
<1>3. Holding'
  BY DEF IInv, Lose, Failing, LifecycleTypeOK, Holding, record, holder
<1>4. Stages'
  BY DEF IInv, Lose, Failing, LifecycleTypeOK, Stages, record, holder
<1>5. Working'
  BY DEF IInv, Lose, Failing, LifecycleTypeOK, Working, record, holder
<1>6. Underway'
  BY DEF IInv, Lose, Failing, LifecycleTypeOK, Underway, record, holder
<1>7. PlacedRuns'
  BY DEF IInv, Lose, Failing, LifecycleTypeOK, PlacedRuns, record, holder
<1>8. EnabledIsServed' /\ DisabledIsDown'
  BY DEF IInv, Lose, Failing, LifecycleTypeOK, EnabledIsServed, DisabledIsDown, record,
         holder
<1> QED BY <1>1, <1>2, <1>3, <1>4, <1>5, <1>6, <1>7, <1>8 DEF IInv

(* The client is connected again.                                          *)
LEMMA RecoverStep ==
  ASSUME LifecycleAssumption, IInv, NEW g \in Runtimes, Recover(g)
  PROVE  IInv'
<1>1. LifecycleTypeOK' /\ Counted'
  BY DEF IInv, Recover, LifecycleTypeOK, Counted, Versions, LifecycleAssumption, record,
         holder
<1>2. Unbuilt'
  BY DEF IInv, Recover, LifecycleTypeOK, Unbuilt, record, holder
<1>3. Holding'
  BY DEF IInv, Recover, LifecycleTypeOK, Holding, record, holder
<1>4. Stages'
  BY DEF IInv, Recover, LifecycleTypeOK, Stages, record, holder
<1>5. Working'
  BY DEF IInv, Recover, LifecycleTypeOK, Working, record, holder
<1>6. Underway'
  BY DEF IInv, Recover, LifecycleTypeOK, Underway, record, holder
<1>7. PlacedRuns'
  BY DEF IInv, Recover, LifecycleTypeOK, PlacedRuns, record, holder
<1>8. EnabledIsServed' /\ DisabledIsDown'
  BY DEF IInv, Recover, LifecycleTypeOK, EnabledIsServed, DisabledIsDown, record, holder
<1> QED BY <1>1, <1>2, <1>3, <1>4, <1>5, <1>6, <1>7, <1>8 DEF IInv

(* The supervisor gives up and disables the bot.                           *)
LEMMA SupervisorGivesUpStep ==
  ASSUME LifecycleAssumption, IInv, NEW g \in Runtimes, SupervisorGivesUp(g)
  PROVE  IInv'
<1>1. LifecycleTypeOK' /\ Counted'
  BY DEF IInv, SupervisorGivesUp, DisableFailedBot, SeenDisabled, FailsUnplaced, LifecycleTypeOK,
         Counted, Versions, Holding, Working, LifecycleAssumption, record, holder
<1>2. Unbuilt'
  BY DEF IInv, SupervisorGivesUp, DisableFailedBot, SeenDisabled, FailsUnplaced, LifecycleTypeOK,
         Unbuilt, record, holder
<1>3. Holding'
  BY DEF IInv, SupervisorGivesUp, DisableFailedBot, SeenDisabled, FailsUnplaced, LifecycleTypeOK,
         Holding, record, holder, NoRuntime, Runtimes
<1>4. Stages'
  BY DEF IInv, SupervisorGivesUp, DisableFailedBot, SeenDisabled, FailsUnplaced, LifecycleTypeOK,
         Stages, record, holder
<1>5. Working'
  <2> SUFFICES ASSUME NEW h \in Runtimes,
                      phase'[h] \in {"connecting", "connected", "exhausted", "lost"}
               PROVE  leaving' = h
    BY DEF Working
  <2>1. h # g /\ phase[h] = phase'[h]
    BY DEF IInv, LifecycleTypeOK, SupervisorGivesUp, FailsUnplaced
  <2>2. placed \in {g, NoRuntime} /\ h # NoRuntime
    BY GivingUpAlone DEF SupervisorGivesUp, Runtimes, NoRuntime
  <2>3. leaving = h
    BY <2>1, <2>2 DEF IInv, Working
  <2> QED BY <2>3 DEF SupervisorGivesUp, DisableFailedBot
<1>6. Underway'
  BY DEF IInv, SupervisorGivesUp, DisableFailedBot, SeenDisabled, FailsUnplaced, LifecycleTypeOK,
         Underway, record, holder
<1>7. PlacedRuns'
  BY DEF IInv, SupervisorGivesUp, DisableFailedBot, SeenDisabled, FailsUnplaced, LifecycleTypeOK,
         PlacedRuns, record, holder
<1>8. EnabledIsServed' /\ DisabledIsDown'
  BY DEF IInv, SupervisorGivesUp, DisableFailedBot, SeenDisabled, FailsUnplaced, LifecycleTypeOK,
         EnabledIsServed, DisabledIsDown, record, holder
<1> QED BY <1>1, <1>2, <1>3, <1>4, <1>5, <1>6, <1>7, <1>8 DEF IInv

(* The client gives up and disables the bot.                               *)
LEMMA ClientGivesUpStep ==
  ASSUME LifecycleAssumption, IInv, NEW g \in Runtimes, ClientGivesUp(g)
  PROVE  IInv'
<1>1. LifecycleTypeOK' /\ Counted'
  BY DEF IInv, ClientGivesUp, DisableFailedBot, SeenDisabled, FailsUnplaced, LifecycleTypeOK,
         Counted, Versions, Holding, Working, LifecycleAssumption, record, holder
<1>2. Unbuilt'
  BY DEF IInv, ClientGivesUp, DisableFailedBot, SeenDisabled, FailsUnplaced, LifecycleTypeOK,
         Unbuilt, record, holder
<1>3. Holding'
  BY DEF IInv, ClientGivesUp, DisableFailedBot, SeenDisabled, FailsUnplaced, LifecycleTypeOK,
         Holding, record, holder, NoRuntime, Runtimes
<1>4. Stages'
  BY DEF IInv, ClientGivesUp, DisableFailedBot, SeenDisabled, FailsUnplaced, LifecycleTypeOK,
         Stages, record, holder
<1>5. Working'
  <2> SUFFICES ASSUME NEW h \in Runtimes,
                      phase'[h] \in {"connecting", "connected", "exhausted", "lost"}
               PROVE  leaving' = h
    BY DEF Working
  <2>1. h # g /\ phase[h] = phase'[h]
    BY DEF IInv, LifecycleTypeOK, ClientGivesUp, FailsUnplaced
  <2>2. placed \in {g, NoRuntime} /\ h # NoRuntime
    BY GivingUpAlone DEF ClientGivesUp, Runtimes, NoRuntime
  <2>3. leaving = h
    BY <2>1, <2>2 DEF IInv, Working
  <2> QED BY <2>3 DEF ClientGivesUp, DisableFailedBot
<1>6. Underway'
  BY DEF IInv, ClientGivesUp, DisableFailedBot, SeenDisabled, FailsUnplaced, LifecycleTypeOK,
         Underway, record, holder
<1>7. PlacedRuns'
  BY DEF IInv, ClientGivesUp, DisableFailedBot, SeenDisabled, FailsUnplaced, LifecycleTypeOK,
         PlacedRuns, record, holder
<1>8. EnabledIsServed' /\ DisabledIsDown'
  BY DEF IInv, ClientGivesUp, DisableFailedBot, SeenDisabled, FailsUnplaced, LifecycleTypeOK,
         EnabledIsServed, DisabledIsDown, record, holder
<1> QED BY <1>1, <1>2, <1>3, <1>4, <1>5, <1>6, <1>7, <1>8 DEF IInv

(* stop() has stopped the clients.                                         *)
LEMMA StopClientsStep ==
  ASSUME LifecycleAssumption, IInv, NEW g \in Runtimes, StopClients(g)
  PROVE  IInv'
<1>1. LifecycleTypeOK' /\ Counted'
  BY DEF IInv, StopClients, LifecycleTypeOK, Counted, Versions, LifecycleAssumption, record,
         holder
<1>2. Unbuilt'
  BY DEF IInv, StopClients, LifecycleTypeOK, Unbuilt, record, holder
<1>3. Holding'
  BY DEF IInv, StopClients, LifecycleTypeOK, Holding, record, holder
<1>4. Stages'
  BY DEF IInv, StopClients, LifecycleTypeOK, Stages, record, holder
<1>5. Working'
  BY DEF IInv, StopClients, LifecycleTypeOK, Working, record, holder
<1>6. Underway'
  BY DEF IInv, StopClients, LifecycleTypeOK, Underway, record, holder
<1>7. PlacedRuns'
  BY DEF IInv, StopClients, LifecycleTypeOK, PlacedRuns, record, holder
<1>8. EnabledIsServed' /\ DisabledIsDown'
  BY DEF IInv, StopClients, LifecycleTypeOK, EnabledIsServed, DisabledIsDown, record, holder
<1> QED BY <1>1, <1>2, <1>3, <1>4, <1>5, <1>6, <1>7, <1>8 DEF IInv

(* The plugins are detached from the runtime.                              *)
LEMMA PluginsLeaveStep ==
  ASSUME LifecycleAssumption, IInv, NEW g \in Runtimes, PluginsLeave(g)
  PROVE  IInv'
<1>1. LifecycleTypeOK' /\ Counted'
  BY DEF IInv, PluginsLeave, LifecycleTypeOK, Counted, Versions, LifecycleAssumption, record,
         holder
<1>2. Unbuilt'
  BY DEF IInv, PluginsLeave, LifecycleTypeOK, Unbuilt, record, holder
<1>3. Holding'
  BY DEF IInv, PluginsLeave, LifecycleTypeOK, Holding, record, holder
<1>4. Stages'
  BY DEF IInv, PluginsLeave, LifecycleTypeOK, Stages, record, holder
<1>5. Working'
  BY DEF IInv, PluginsLeave, LifecycleTypeOK, Working, record, holder
<1>6. Underway'
  BY DEF IInv, PluginsLeave, LifecycleTypeOK, Underway, record, holder
<1>7. PlacedRuns'
  BY DEF IInv, PluginsLeave, LifecycleTypeOK, PlacedRuns, record, holder
<1>8. EnabledIsServed' /\ DisabledIsDown'
  BY DEF IInv, PluginsLeave, LifecycleTypeOK, EnabledIsServed, DisabledIsDown, record, holder
<1> QED BY <1>1, <1>2, <1>3, <1>4, <1>5, <1>6, <1>7, <1>8 DEF IInv

(* A plugin never lets go of it.                                           *)
LEMMA PluginsHangStep ==
  ASSUME LifecycleAssumption, IInv, NEW g \in Runtimes, PluginsHang(g)
  PROVE  IInv'
<1>1. LifecycleTypeOK' /\ Counted'
  BY DEF IInv, PluginsHang, LifecycleTypeOK, Counted, Versions, LifecycleAssumption, record,
         holder
<1>2. Unbuilt'
  BY DEF IInv, PluginsHang, LifecycleTypeOK, Unbuilt, record, holder
<1>3. Holding'
  BY DEF IInv, PluginsHang, LifecycleTypeOK, Holding, record, holder
<1>4. Stages'
  BY DEF IInv, PluginsHang, LifecycleTypeOK, Stages, record, holder
<1>5. Working'
  BY DEF IInv, PluginsHang, LifecycleTypeOK, Working, record, holder
<1>6. Underway'
  BY DEF IInv, PluginsHang, LifecycleTypeOK, Underway, record, holder
<1>7. PlacedRuns'
  BY DEF IInv, PluginsHang, LifecycleTypeOK, PlacedRuns, record, holder
<1>8. EnabledIsServed' /\ DisabledIsDown'
  BY DEF IInv, PluginsHang, LifecycleTypeOK, EnabledIsServed, DisabledIsDown, record, holder
<1> QED BY <1>1, <1>2, <1>3, <1>4, <1>5, <1>6, <1>7, <1>8 DEF IInv

(* stop() has closed the store.                                            *)
LEMMA StopEndsStep ==
  ASSUME LifecycleAssumption, IInv, NEW g \in Runtimes, StopEnds(g)
  PROVE  IInv'
<1>1. LifecycleTypeOK' /\ Counted'
  BY DEF IInv, StopEnds, LifecycleTypeOK, Counted, Versions, LifecycleAssumption, record,
         holder
<1>2. Unbuilt'
  BY DEF IInv, StopEnds, LifecycleTypeOK, Unbuilt, record, holder
<1>3. Holding'
  BY DEF IInv, StopEnds, LifecycleTypeOK, Holding, record, holder
<1>4. Stages'
  BY DEF IInv, StopEnds, LifecycleTypeOK, Stages, record, holder
<1>5. Working'
  BY DEF IInv, StopEnds, LifecycleTypeOK, Working, record, holder
<1>6. Underway'
  BY DEF IInv, StopEnds, LifecycleTypeOK, Underway, record, holder
<1>7. PlacedRuns'
  BY DEF IInv, StopEnds, LifecycleTypeOK, PlacedRuns, record, holder
<1>8. EnabledIsServed' /\ DisabledIsDown'
  BY DEF IInv, StopEnds, LifecycleTypeOK, EnabledIsServed, DisabledIsDown, record, holder
<1> QED BY <1>1, <1>2, <1>3, <1>4, <1>5, <1>6, <1>7, <1>8 DEF IInv

(* Placing a new runtime keeps the invariant, when the table is empty and   *)
(* no other runtime works.                                                 *)
LEMMA RuntimeStartKeeps ==
  ASSUME LifecycleAssumption, IInv, built < MaxRuntimes, placed = NoRuntime,
         NEW v \in Versions, StartRuntime(v),
         reconciling' = "no" /\ leaving' = NoRuntime /\ successor' = NoRuntime /\ captured' = "none",
         leaving # NoRuntime => phase[leaving] = "idle",
         UNCHANGED <<enabled, version, updates, offline>>, pending' \in 0 .. pending,
         pending' = 0 => enabled /\ v = version
  PROVE  IInv'
<1>1. /\ placed' = built + 1 /\ built' = built + 1 /\ placed' \in Runtimes
      /\ config' \in [Runtimes -> 0 .. MaxUpdates + 1] /\ config'[placed'] = v
      /\ \A g \in Runtimes : phase'[g] = IF g = placed' THEN "connecting" ELSE phase[g]
      /\ status' \in [Runtimes -> {"none", "connecting", "reconnecting", "running",
                                   "stopped", "failed"}]
      /\ phase' \in [Runtimes -> {"idle", "connecting", "connected", "exhausted",
                                  "lost", "leaving", "hung"}]
      /\ store' = store \cup {placed'} /\ store' \subseteq 1 .. built'
      /\ stopping[placed'] = "no"
      /\ UNCHANGED <<attempts, stopping>>
  BY Started
<1>2. built \in 0 .. MaxRuntimes /\ built' \in 0 .. MaxRuntimes /\ placed' # NoRuntime
  BY <1>1 DEF IInv, LifecycleTypeOK, LifecycleAssumption, Runtimes, NoRuntime
<1>3. LifecycleTypeOK' /\ Counted'
  <2>1. pending \in 0 .. MaxUpdates + 1 /\ pending' \in 0 .. MaxUpdates + 1
    BY DEF IInv, LifecycleTypeOK, LifecycleAssumption
  <2>2. placed' \in 0 .. built' /\ leaving' \in 0 .. built'
    BY <1>1, <1>2 DEF NoRuntime
  <2>3. /\ reconciling' = "no" /\ successor' = NoRuntime /\ successor' \in 0 .. MaxUpdates + 1
        /\ captured' = "none"
    BY <2>1 DEF NoRuntime, LifecycleAssumption
  <2>4. LifecycleTypeOK'
    BY <1>1, <1>2, <2>1, <2>2, <2>3 DEF IInv, LifecycleTypeOK
  <2>5. Counted'
    BY <2>1 DEF IInv, LifecycleTypeOK, Counted, LifecycleAssumption
  <2> QED BY <2>4, <2>5
<1>4. Unbuilt'
  <2> SUFFICES ASSUME NEW g \in Runtimes, g > built'
               PROVE  phase'[g] = "idle" /\ stopping'[g] = "no" /\ g \notin store'
    BY DEF Unbuilt
  <2>1. g > built /\ g # built + 1 /\ g \in Nat
    BY <1>1, <1>2 DEF Runtimes
  <2>2. phase[g] = "idle" /\ stopping[g] = "no" /\ g \notin store
    BY <2>1 DEF IInv, Unbuilt
  <2> QED BY <1>1, <2>1, <2>2
<1>5. Holding' /\ Underway'
  <2>1. reconciling' = "no" /\ leaving' = NoRuntime /\ captured' = "none"
    OBVIOUS
  <2>2. Holding'
    BY ONLY <2>1 DEF Holding
  <2>3. Underway'
    BY ONLY <2>1 DEF Underway
  <2> QED BY <2>2, <2>3
<1>6. Stages'
  BY <1>1 DEF IInv, Stages
<1>7. Working'
  BY <1>1 DEF IInv, Working, Runtimes, NoRuntime
<1>8. PlacedRuns'
  BY <1>1 DEF PlacedRuns
<1>9. EnabledIsServed' /\ DisabledIsDown'
  BY <1>1, <1>2 DEF EnabledIsServed, DisabledIsDown
<1> QED BY <1>3, <1>4, <1>5, <1>6, <1>7, <1>8, <1>9 DEF IInv

(* A reconcile that has nothing to stop.                                   *)
LEMMA ReconcileAtOnceStep ==
  ASSUME LifecycleAssumption, IInv, ReconcileAtOnce
  PROVE  IInv'
<1>1. /\ LockFree /\ leaving = NoRuntime /\ successor = NoRuntime /\ captured = "none"
      /\ pending > 0 /\ pending' = pending - 1 /\ pending' \in 0 .. pending
      /\ UNCHANGED <<enabled, version, updates, holder, offline>>
  BY DEF ReconcileAtOnce, LockFree, IInv, LifecycleTypeOK, Holding, NoRuntime
<1>2. CASE UNCHANGED <<placed, runtime>>
  <2>1. \/ ~enabled /\ placed = NoRuntime
        \/ enabled /\ UpToDate(version)
    <3>1. built' = built + 1 => built' # built
      BY DEF IInv, LifecycleTypeOK
    <3> QED BY <1>2, <3>1 DEF ReconcileAtOnce, StartRuntime, runtime
  <2>2. LifecycleTypeOK' /\ Counted'
    BY <1>1, <1>2 DEF IInv, LifecycleTypeOK, Counted, Versions, holder, runtime, LifecycleAssumption
  <2>3. Unbuilt' /\ Holding' /\ Stages' /\ Working' /\ PlacedRuns'
    BY <1>1, <1>2
       DEF IInv, Unbuilt, Holding, Stages, Working, PlacedRuns, holder, runtime
  <2>4. Underway' /\ EnabledIsServed' /\ DisabledIsDown'
    BY <1>1, <1>2, <2>1
       DEF Underway, EnabledIsServed, DisabledIsDown, UpToDate, LockFree, holder, runtime
  <2> QED BY <2>2, <2>3, <2>4 DEF IInv
<1>3. CASE enabled /\ placed = NoRuntime /\ built < MaxRuntimes /\ StartRuntime(version)
  <2>1. version \in Versions
    BY DEF IInv, LifecycleTypeOK
  <2>2. reconciling' = "no" /\ leaving' = NoRuntime /\ successor' = NoRuntime /\ captured' = "none"
    BY <1>1 DEF holder, LockFree
  <2> QED BY <1>1, <1>3, <2>1, <2>2, RuntimeStartKeeps
<1> QED BY <1>2, <1>3 DEF ReconcileAtOnce

(* The end of a reconcile that stopped a runtime.                          *)
LEMMA ReconcileEndStep ==
  ASSUME LifecycleAssumption, IInv, ReconcileEnd
  PROVE  IInv'
<1>1. /\ reconciling = "stopping" /\ stopping[leaving] = "stopped"
      /\ reconciling' = "no" /\ leaving' = NoRuntime /\ successor' = NoRuntime /\ captured' = "none"
      /\ UNCHANGED <<enabled, version, updates, pending, offline>>
      /\ placed = NoRuntime /\ ~offline
  BY DEF ReconcileEnd, Release, record, IInv, Holding
<1>2. leaving \in Runtimes /\ phase[leaving] = "idle"
  BY <1>1 DEF IInv, LifecycleTypeOK, Stages, Runtimes, NoRuntime, LifecycleAssumption
<1>3. captured # "none" => built < MaxRuntimes /\ successor \in Versions
  BY <1>1 DEF IInv, Holding, LifecycleTypeOK, Versions, NoRuntime, LifecycleAssumption
<1>4. CASE captured = "none" /\ UNCHANGED <<placed, runtime>>
  <2>1. LifecycleTypeOK' /\ Counted'
    BY <1>1, <1>4 DEF IInv, LifecycleTypeOK, Counted, runtime, NoRuntime
  <2>2. Unbuilt' /\ Holding' /\ Stages' /\ PlacedRuns'
    BY <1>1, <1>4 DEF IInv, Unbuilt, Holding, Stages, PlacedRuns, runtime
  <2>3. Working'
    BY <1>1, <1>2, <1>4 DEF IInv, Working, runtime
  <2>4. Underway' /\ EnabledIsServed' /\ DisabledIsDown'
    BY <1>1, <1>4 DEF IInv, Underway, EnabledIsServed, DisabledIsDown
  <2> QED BY <2>1, <2>2, <2>3, <2>4 DEF IInv
<1>5. CASE captured \in {"current", "replaced"} /\ StartRuntime(successor)
  <2>1. pending \in Nat /\ pending' = pending
    BY <1>1 DEF IInv, LifecycleTypeOK
  <2>2. pending' = 0 => enabled /\ successor = version
    BY <1>1, <1>5, <2>1 DEF IInv, Underway
  <2> QED BY <1>1, <1>2, <1>3, <1>5, <2>1, <2>2, RuntimeStartKeeps
<1>6. CASE captured = "disabled" /\ BuildOnly(successor)
  <2>1. /\ built < MaxRuntimes /\ built' = built + 1 /\ store' = store \cup {built + 1}
        /\ successor \in Versions /\ config' = [config EXCEPT ![built + 1] = successor]
        /\ UNCHANGED <<placed, phase, attempts, stopping, status>>
    BY <1>3, <1>6 DEF BuildOnly
  <2>2. LifecycleTypeOK' /\ Counted'
    <3>1. built + 1 \in 1 .. MaxRuntimes /\ successor \in 0 .. MaxUpdates + 1
      BY <2>1 DEF IInv, LifecycleTypeOK, Versions, LifecycleAssumption
    <3>2. config' \in [Runtimes -> 0 .. MaxUpdates + 1]
      BY <2>1, <3>1 DEF IInv, LifecycleTypeOK
    <3>3. version \in Versions /\ 0 \in 0 .. MaxUpdates + 1
      BY DEF IInv, LifecycleTypeOK, LifecycleAssumption
    <3>4. store \subseteq 1 .. built /\ placed \in 0 .. built /\ built \in Nat
      BY DEF IInv, LifecycleTypeOK, LifecycleAssumption
    <3>5. /\ store' \subseteq 1 .. built' /\ placed' \in 0 .. built'
          /\ leaving' \in 0 .. built' /\ built' \in 0 .. MaxRuntimes
      BY <1>1, <2>1, <3>1, <3>4 DEF NoRuntime, LifecycleAssumption
    <3> QED BY <1>1, <2>1, <3>2, <3>3, <3>5 DEF IInv, LifecycleTypeOK, Counted, NoRuntime
  <2>3. Unbuilt' /\ Stages' /\ Working'
    BY <1>1, <1>2, <2>1
       DEF IInv, LifecycleTypeOK, Unbuilt, Stages, Working, Runtimes, LifecycleAssumption
  <2>4. Holding' /\ PlacedRuns' /\ Underway'
    BY <1>1, <2>1 DEF Holding, PlacedRuns, Underway
  <2>5. EnabledIsServed' /\ DisabledIsDown'
    BY <1>1, <1>6, <2>1 DEF IInv, Underway, EnabledIsServed, DisabledIsDown
  <2> QED BY <2>2, <2>3, <2>4, <2>5 DEF IInv
<1> QED BY <1>4, <1>5, <1>6 DEF ReconcileEnd

(* Every step keeps the inductive invariant.                               *)
LEMMA LifecycleStep ==
  ASSUME LifecycleAssumption, IInv, [LifecycleNext]_lifecycleVars
  PROVE  IInv'
<1>1. ASSUME NEW e \in BOOLEAN, NEW v \in {version, version + 1}, Update(e, v)
      PROVE  IInv'
  BY <1>1, UpdateStep
<1>2. CASE Reconcile \/ ReconcileEnd \/ OfflineOpen \/ OfflineClose
  BY <1>2, ReconcileAtOnceStep, ReconcileStopStep, ReconcileEndStep, OfflineStep
     DEF Reconcile
<1>3. ASSUME NEW g \in Runtimes,
             \/ Connect(g) \/ ConnectFails(g) \/ Lose(g) \/ Recover(g)
             \/ SupervisorGivesUp(g) \/ ClientGivesUp(g)
             \/ StopClients(g) \/ PluginsLeave(g) \/ PluginsHang(g) \/ StopEnds(g)
      PROVE  IInv'
  BY <1>3, ConnectStep, ConnectFailsStep, LoseStep, RecoverStep,
     SupervisorGivesUpStep, ClientGivesUpStep, StopClientsStep, PluginsLeaveStep,
     PluginsHangStep, StopEndsStep
<1>4. CASE UNCHANGED lifecycleVars
  BY <1>4
     DEF lifecycleVars, record, runtime, holder, IInv, LifecycleTypeOK, Counted, Unbuilt, Holding, Stages,
         Working, Underway, PlacedRuns, EnabledIsServed, DisabledIsDown, Versions
<1> QED BY <1>1, <1>2, <1>3, <1>4 DEF LifecycleNext

(* It holds when the manager has loaded the registry.                      *)
LEMMA LifecycleInitInvariant ==
  ASSUME LifecycleAssumption, LifecycleInit
  PROVE  IInv
<1>1. LifecycleTypeOK /\ Counted
  <2>1. MaxUpdates + 1 \in Nat /\ version \in 1 .. MaxUpdates + 1
    BY DEF LifecycleAssumption, LifecycleInit
  <2>2. /\ config \in [Runtimes -> 0 .. MaxUpdates + 1]
        /\ attempts \in [Runtimes -> 0 .. MaxFailures]
    BY <2>1 DEF LifecycleAssumption, LifecycleInit
  <2>3. /\ placed \in 0 .. built /\ leaving \in 0 .. built /\ built \in 0 .. MaxRuntimes
        /\ store \subseteq 1 .. built
    BY DEF LifecycleAssumption, LifecycleInit, NoRuntime
  <2>4. /\ pending \in 0 .. MaxUpdates + 1 /\ updates \in 0 .. MaxUpdates
        /\ successor \in 0 .. MaxUpdates + 1
    BY <2>1 DEF LifecycleAssumption, LifecycleInit, NoRuntime
  <2>5. /\ (reconciling = "stopping") = (leaving # NoRuntime)
        /\ (captured = "none") = (successor = NoRuntime)
        /\ version <= updates + 1 /\ pending <= updates + 1
    BY DEF LifecycleInit
  <2>6. /\ phase \in [Runtimes -> {"idle"}] /\ stopping \in [Runtimes -> {"no"}]
        /\ status \in [Runtimes -> {"none"}]
    BY DEF LifecycleInit
  <2> QED BY <2>1, <2>2, <2>3, <2>4, <2>5, <2>6 DEF LifecycleInit, LifecycleTypeOK, Counted, Versions
<1>2. Unbuilt /\ Stages /\ Working
  BY DEF LifecycleInit, Unbuilt, Stages, Working
<1>3. Holding /\ Underway /\ PlacedRuns
  BY DEF LifecycleInit, Holding, Underway, PlacedRuns
<1>4. EnabledIsServed /\ DisabledIsDown
  BY DEF LifecycleInit, EnabledIsServed, DisabledIsDown
<1> QED BY <1>1, <1>2, <1>3, <1>4 DEF IInv

(* The inductive invariant holds in every execution.                       *)
THEOREM LifecycleInvariant == LifecycleSpec => []IInv
<1>1. LifecycleInit => IInv
  BY LifecycleInitInvariant, LifecycleAssumption
<1>2. IInv /\ [LifecycleNext]_lifecycleVars => IInv'
  BY LifecycleStep, LifecycleAssumption
<1> QED BY <1>1, <1>2, PTL DEF LifecycleSpec

(* The attributes of the manager and of its runtimes keep their types, and  *)
(* the lock's holder waits for a runtime exactly while it stops one.       *)
THEOREM LifecycleTypeCorrect == LifecycleSpec => []LifecycleTypeOK
<1>1. IInv => LifecycleTypeOK
  BY DEF IInv
<1> QED BY <1>1, LifecycleInvariant, PTL

(* The runtime in the table is never one that is being stopped or has been, *)
(* and its store is open (_reconcile_runtimes pops before it stops).       *)
THEOREM PlacedIsRunning == LifecycleSpec => []PlacedRuns
<1>1. IInv => PlacedRuns
  BY DEF IInv
<1> QED BY <1>1, LifecycleInvariant, PTL

(* No runtime is left at work outside the table unless it is being stopped, *)
(* and a failing runtime never takes another one down with it              *)
(* (_disable_bot_after_rocketchat_failure pops by the id of the bot).      *)
THEOREM NoneLeftBehind == LifecycleSpec => []NoGhost
<1>1. ASSUME IInv, NEW g \in Runtimes, phase[g] # "idle"
      PROVE  placed = g \/ stopping[g] \notin {"no", "stopped"}
  <2>1. CASE phase[g] \in {"connecting", "connected", "exhausted", "lost"}
    <3>1. SUFFICES ASSUME leaving = g PROVE stopping[g] \notin {"no", "stopped"}
      BY <1>1, <2>1 DEF IInv, Working
    <3>2. reconciling = "stopping"
      BY <1>1, <3>1 DEF IInv, LifecycleTypeOK, Runtimes, NoRuntime
    <3>3. stopping[g] \in {"clients", "plugins", "closing", "stopped", "stuck"}
      BY <1>1, <3>1, <3>2 DEF IInv, Holding
    <3> QED BY <1>1, <3>3 DEF IInv, Stages
  <2>2. CASE phase[g] \in {"leaving", "hung"}
    BY <1>1, <2>2 DEF IInv, Stages
  <2>3. phase[g] \in {"connecting", "connected", "exhausted", "lost", "leaving", "hung"}
    BY <1>1 DEF IInv, LifecycleTypeOK
  <2> QED BY <2>1, <2>2, <2>3
<1>2. IInv => NoGhost
  BY <1>1, GivingUpAlone DEF NoGhost
<1> QED BY <1>2, LifecycleInvariant, PTL

(* Once its requests are reconciled, the bot has a runtime of exactly its   *)
(* record when that is enabled, and none when it is not, although records   *)
(* are read before a wait and failures disable them in the meantime.       *)
THEOREM RecordDecides == LifecycleSpec => []ServedAsRecorded
<1>1. IInv => ServedAsRecorded
  BY DEF IInv, ServedAsRecorded
<1> QED BY <1>1, LifecycleInvariant, PTL

(***************************************************************************)
(* The output of the terminals (module Terminal), for any number of        *)
(* terminals and websockets: what was shown, the batches in the line of    *)
(* the lock, what is pending and what the reader thread left are, in that  *)
(* order, all that was read and not lost; and every client has the end of  *)
(* what was shown.                                                         *)
(***************************************************************************)

(* Facts about sequences of reads                                           *)
LEMMA Parts ==
  ASSUME NEW s \in Seq(Nat), NEW r \in Seq(Nat)
  PROVE  /\ s \o r \in Seq(Nat) /\ ToSet(s \o r) = ToSet(s) \cup ToSet(r)
         /\ \A i \in DOMAIN s : i \in DOMAIN (s \o r) /\ (s \o r)[i] = s[i]
         /\ \A j \in DOMAIN r : Len(s) + j \in DOMAIN (s \o r) /\ (s \o r)[Len(s) + j] = r[j]
         /\ \A i \in DOMAIN (s \o r) : i \in DOMAIN s \/ (i - Len(s) \in DOMAIN r /\ i > Len(s) /\ (s \o r)[i] = r[i - Len(s)])
<1>1. /\ s \o r \in Seq(Nat) /\ Len(s \o r) = Len(s) + Len(r) /\ Len(s) \in Nat /\ Len(r) \in Nat
      /\ DOMAIN (s \o r) = 1..(Len(s) + Len(r)) /\ DOMAIN s = 1..Len(s) /\ DOMAIN r = 1..Len(r)
      /\ \A i \in 1..(Len(s) + Len(r)) : (s \o r)[i] = IF i <= Len(s) THEN s[i] ELSE r[i - Len(s)]
  OBVIOUS
<1>2. \A i \in DOMAIN s : i \in DOMAIN (s \o r) /\ (s \o r)[i] = s[i]
  BY <1>1
<1>3. \A j \in DOMAIN r : Len(s) + j \in DOMAIN (s \o r) /\ (s \o r)[Len(s) + j] = r[j]
  BY <1>1
<1>4. \A i \in DOMAIN (s \o r) : i \in DOMAIN s \/ (i - Len(s) \in DOMAIN r /\ i > Len(s) /\ (s \o r)[i] = r[i - Len(s)])
  BY <1>1
<1>5. ToSet(s \o r) = ToSet(s) \cup ToSet(r)
  <2>1. ASSUME NEW x \in ToSet(s \o r) PROVE x \in ToSet(s) \/ x \in ToSet(r)
    <3>1. PICK i \in DOMAIN (s \o r) : x = (s \o r)[i]
      BY DEF ToSet
    <3> QED BY <1>2, <1>4, <3>1 DEF ToSet
  <2>2. ASSUME NEW x \in ToSet(s) PROVE x \in ToSet(s \o r)
    BY <1>2 DEF ToSet
  <2>3. ASSUME NEW x \in ToSet(r) PROVE x \in ToSet(s \o r)
    <3>1. PICK j \in DOMAIN r : x = r[j]
      BY DEF ToSet
    <3> QED BY <1>3, <3>1 DEF ToSet
  <2> QED BY <2>1, <2>2, <2>3
<1> QED BY <1>1, <1>2, <1>3, <1>4, <1>5

Below(s, r) == \A x \in ToSet(s), y \in ToSet(r) : x < y

(* When a concatenation is increasing.                                      *)
LEMMA OrderOfParts ==
  ASSUME NEW s \in Seq(Nat), NEW r \in Seq(Nat)
  PROVE  Increasing(s \o r) <=> Increasing(s) /\ Increasing(r) /\ Below(s, r)
<1>0. Len(s) \in Nat /\ DOMAIN s = 1..Len(s) /\ DOMAIN r = 1..Len(r) /\ DOMAIN s \subseteq Nat /\ DOMAIN r \subseteq Nat
  OBVIOUS
<1>1. ASSUME Increasing(s \o r) PROVE Increasing(s)
  BY <1>1, Parts DEF Increasing
<1>2. ASSUME Increasing(s \o r) PROVE Increasing(r)
  <2> SUFFICES ASSUME NEW i \in DOMAIN r, NEW j \in DOMAIN r, i < j PROVE r[i] < r[j]
    BY DEF Increasing
  <2>1. Len(s) + i < Len(s) + j
    BY <1>0
  <2>2. (s \o r)[Len(s) + i] < (s \o r)[Len(s) + j]
    BY <1>2, <2>1, Parts DEF Increasing
  <2> QED BY <2>2, Parts
<1>3. ASSUME Increasing(s \o r) PROVE Below(s, r)
  <2> SUFFICES ASSUME NEW x \in ToSet(s), NEW y \in ToSet(r) PROVE x < y
    BY DEF Below
  <2>1. PICK i \in DOMAIN s, j \in DOMAIN r : x = s[i] /\ y = r[j]
    BY DEF ToSet
  <2>2. i < Len(s) + j
    BY <1>0
  <2>3. (s \o r)[i] < (s \o r)[Len(s) + j]
    BY <1>3, <2>2, Parts DEF Increasing
  <2> QED BY <2>1, <2>3, Parts
<1>4. ASSUME Increasing(s), Increasing(r), Below(s, r) PROVE Increasing(s \o r)
  <2> SUFFICES ASSUME NEW i \in DOMAIN (s \o r), NEW j \in DOMAIN (s \o r), i < j
               PROVE  (s \o r)[i] < (s \o r)[j]
    BY DEF Increasing
  <2>0. i \in Nat /\ j \in Nat
    BY Parts
  <2>1. CASE i \in DOMAIN s /\ j \in DOMAIN s
    BY <1>4, <2>1, Parts DEF Increasing
  <2>2. CASE i \in DOMAIN s /\ j \notin DOMAIN s
    <3>1. j - Len(s) \in DOMAIN r /\ (s \o r)[j] = r[j - Len(s)] /\ (s \o r)[i] = s[i]
      BY <2>2, Parts
    <3> QED BY <1>4, <2>2, <3>1 DEF Below, ToSet
  <2>3. CASE i \notin DOMAIN s /\ j \notin DOMAIN s
    <3>1. /\ j - Len(s) \in DOMAIN r /\ (s \o r)[j] = r[j - Len(s)]
          /\ i - Len(s) \in DOMAIN r /\ (s \o r)[i] = r[i - Len(s)]
      BY <2>3, Parts
    <3>2. i - Len(s) < j - Len(s)
      BY <1>0, <2>0
    <3> QED BY <1>4, <3>1, <3>2 DEF Increasing
  <2>4. CASE i \notin DOMAIN s /\ j \in DOMAIN s
    <3>1. i > Len(s) /\ j <= Len(s)
      BY <1>0, <2>4, Parts
    <3> QED BY <1>0, <2>0, <3>1
  <2> QED BY <2>1, <2>2, <2>3, <2>4
<1> QED BY <1>1, <1>2, <1>3, <1>4

(* No output: the empty sequence.                                           *)
LEMMA NoOutput ==
  /\ <<>> \in Seq(Nat) /\ Increasing(<<>>) /\ ToSet(<<>>) = {}
  /\ \A s : s \o <<>> = s \/ s \notin Seq(Nat)
BY DEF Increasing, ToSet

(* One more read at the end.                                                *)
LEMMA OneMore ==
  ASSUME NEW s \in Seq(Nat), NEW v \in Nat
  PROVE  /\ Append(s, v) \in Seq(Nat) /\ ToSet(Append(s, v)) = ToSet(s) \cup {v}
         /\ (Increasing(s) /\ \A x \in ToSet(s) : x < v) => Increasing(Append(s, v))
<1>1. <<v>> \in Seq(Nat) /\ Append(s, v) = s \o <<v>> /\ ToSet(<<v>>) = {v} /\ Increasing(<<v>>)
  <2>1. DOMAIN <<v>> = {1} /\ <<v>>[1] = v
    OBVIOUS
  <2>2. ToSet(<<v>>) = {v} /\ Increasing(<<v>>)
    BY <2>1 DEF ToSet, Increasing
  <2>3. <<v>> \in Seq(Nat)
    OBVIOUS
  <2>4. Append(s, v) = s \o <<v>>
    BY AppendIsConcat
  <2> QED BY ONLY <2>2, <2>3, <2>4
<1> PICK r \in Seq(Nat) : r = <<v>>
  BY ONLY <1>1
<1>2. Append(s, v) = s \o r /\ ToSet(r) = {v} /\ Increasing(r)
  BY ONLY <1>1, r = <<v>>
<1>3. Append(s, v) \in Seq(Nat) /\ ToSet(Append(s, v)) = ToSet(s) \cup {v}
  <2>1. s \o r \in Seq(Nat) /\ ToSet(s \o r) = ToSet(s) \cup ToSet(r)
    BY Parts
  <2> QED BY ONLY <1>2, <2>1
<1>4. (\A x \in ToSet(s) : x < v) => Below(s, r)
  BY <1>2 DEF Below
<1>5. Increasing(s \o r) <=> Increasing(s) /\ Increasing(r) /\ Below(s, r)
  BY OrderOfParts
<1> QED BY <1>2, <1>3, <1>4, <1>5, Zenon

(* What a line holds of the output of t                                     *)
CastsIn(L, t) == {k \in DOMAIN L : L[k].do = "cast" /\ L[k].t = t}

\* Output shown, in the line, pending and with the reader: in order, ...
Sorted(t, S, P, R, L) ==
  /\ Increasing(S) /\ Increasing(P) /\ Increasing(R) /\ Below(S, P) /\ Below(S, R) /\ Below(P, R)
  /\ \A k \in CastsIn(L, t) : /\ Increasing(L[k].d) /\ Below(S, L[k].d)
                              /\ Below(L[k].d, P) /\ Below(L[k].d, R)
  /\ \A j, k \in CastsIn(L, t) : j < k => Below(L[j].d, L[k].d)

\* ... and all that has been read but not lost
Among(x, t, S, P, R, L) ==
  x \in ToSet(S) \/ x \in ToSet(P) \/ x \in ToSet(R) \/ (\E k \in CastsIn(L, t) : x \in ToSet(L[k].d))
Good(t, S, P, R, L, m, gone) ==
  Sorted(t, S, P, R, L) /\ \A x : (x \in 1..m /\ x \notin gone) <=> Among(x, t, S, P, R, L)

(* Increasing, part by part.                                                *)
LEMMA ThreeParts ==
  ASSUME NEW s \in Seq(Nat), NEW p \in Seq(Nat), NEW r \in Seq(Nat)
  PROVE  Increasing(s \o p \o r) <=>
           Increasing(s) /\ Increasing(p) /\ Increasing(r) /\ Below(s, p) /\ Below(s, r) /\ Below(p, r)
<1>1. s \o p \in Seq(Nat) /\ ToSet(s \o p) = ToSet(s) \cup ToSet(p)
  BY Parts
<1>2. Increasing((s \o p) \o r) <=> Increasing(s \o p) /\ Increasing(r) /\ Below(s \o p, r)
  BY <1>1, OrderOfParts
<1>3. Below(s \o p, r) <=> Below(s, r) /\ Below(p, r)
  BY <1>1 DEF Below
<1> QED BY <1>2, <1>3, OrderOfParts

(* The same with a batch in between.                                        *)
LEMMA FourParts ==
  ASSUME NEW s \in Seq(Nat), NEW d \in Seq(Nat), NEW p \in Seq(Nat), NEW r \in Seq(Nat)
  PROVE  Increasing(s \o d \o p \o r) <=>
           /\ Increasing(s) /\ Increasing(d) /\ Increasing(p) /\ Increasing(r)
           /\ Below(s, d) /\ Below(s, p) /\ Below(s, r) /\ Below(d, p) /\ Below(d, r) /\ Below(p, r)
<1>1. s \o d \in Seq(Nat) /\ ToSet(s \o d) = ToSet(s) \cup ToSet(d)
  BY Parts
<1>2. Increasing((s \o d) \o p \o r) <=>
         /\ Increasing(s \o d) /\ Increasing(p) /\ Increasing(r)
         /\ Below(s \o d, p) /\ Below(s \o d, r) /\ Below(p, r)
  BY <1>1, ThreeParts
<1>3. (Below(s \o d, r) <=> Below(s, r) /\ Below(d, r)) /\ (Below(s \o d, p) <=> Below(s, p) /\ Below(d, p))
  BY <1>1 DEF Below
<1> QED BY <1>2, <1>3, OrderOfParts

Batches(L, t) == \A k \in CastsIn(L, t) : L[k].d \in Seq(Nat)

(* Sorted, in the words of InOrder.                                         *)
LEMMA SortedParts ==
  ASSUME NEW t, NEW S \in Seq(Nat), NEW P \in Seq(Nat), NEW R \in Seq(Nat), NEW L, Batches(L, t)
  PROVE  Sorted(t, S, P, R, L) <=>
           /\ Increasing(S \o P \o R)
           /\ \A k \in CastsIn(L, t) : Increasing(S \o L[k].d \o P \o R)
           /\ \A j, k \in CastsIn(L, t) : j < k => Increasing(L[j].d \o L[k].d)
<1>1. \A k \in CastsIn(L, t) : L[k].d \in Seq(Nat)
  BY DEF Batches
<1>2. Increasing(S \o P \o R) <=>
         Increasing(S) /\ Increasing(P) /\ Increasing(R) /\ Below(S, P) /\ Below(S, R) /\ Below(P, R)
  BY ThreeParts
<1>3. \A k \in CastsIn(L, t) : Increasing(S \o L[k].d \o P \o R) <=>
         /\ Increasing(S) /\ Increasing(L[k].d) /\ Increasing(P) /\ Increasing(R)
         /\ Below(S, L[k].d) /\ Below(S, P) /\ Below(S, R) /\ Below(L[k].d, P) /\ Below(L[k].d, R) /\ Below(P, R)
  BY <1>1, FourParts
<1>4. \A j, k \in CastsIn(L, t) : Increasing(L[j].d \o L[k].d) <=>
         Increasing(L[j].d) /\ Increasing(L[k].d) /\ Below(L[j].d, L[k].d)
  BY <1>1, OrderOfParts
<1> QED BY <1>2, <1>3, <1>4 DEF Sorted

(* The line moves on by h places, and holds the same output of t.           *)
Follows(L, L2, t, h) ==
  /\ \A k \in CastsIn(L2, t) : k + h \in CastsIn(L, t) /\ L2[k].d = L[k + h].d
  /\ \A k \in CastsIn(L, t) : k - h \in CastsIn(L2, t) /\ L2[k - h].d = L[k].d
  /\ \A k \in CastsIn(L2, t) : k \in Nat

(* A line that holds the same output is as good.                            *)
LEMMA SameOutput ==
  ASSUME NEW t, NEW S, NEW P, NEW R, NEW L, NEW L2, NEW m, NEW gone, NEW h \in Nat,
         Follows(L, L2, t, h), Good(t, S, P, R, L, m, gone)
  PROVE  Good(t, S, P, R, L2, m, gone)
<1>1. Sorted(t, S, P, R, L2)
  <2>1. \A j, k \in CastsIn(L2, t) : j < k => Below(L2[j].d, L2[k].d)
    <3> SUFFICES ASSUME NEW j \in CastsIn(L2, t), NEW k \in CastsIn(L2, t), j < k PROVE Below(L2[j].d, L2[k].d)
      OBVIOUS
    <3>1. j + h < k + h
      BY DEF Follows
    <3> QED BY <3>1 DEF Follows, Good, Sorted
  <2> QED BY <2>1 DEF Follows, Good, Sorted
<1>2. \A x : Among(x, t, S, P, R, L) <=> Among(x, t, S, P, R, L2)
  BY DEF Among, Follows
<1> QED BY <1>1, <1>2 DEF Good

(* What is pending takes over what the reader left: Drain, Mark.            *)
LEMMA TakenOver ==
  ASSUME NEW t, NEW S \in Seq(Nat), NEW P \in Seq(Nat), NEW R \in Seq(Nat), NEW L, NEW m, NEW gone,
         Good(t, S, P, R, L, m, gone)
  PROVE  Good(t, S, P \o R, <<>>, L, m, gone)
<1> PICK Q \in Seq(Nat) : Q = P \o R
  BY Parts
<1>1. ToSet(Q) = ToSet(P) \cup ToSet(R) /\ (Increasing(Q) <=> Increasing(P) /\ Increasing(R) /\ Below(P, R))
  BY Parts, OrderOfParts
<1>2. \A s : Below(s, Q) <=> Below(s, P) /\ Below(s, R)
  BY <1>1 DEF Below
<1>3. \A s : Below(s, <<>>)
  BY NoOutput DEF Below
<1>4. Sorted(t, S, Q, <<>>, L)
  BY <1>1, <1>2, <1>3, NoOutput DEF Good, Sorted
<1>5. \A x : Among(x, t, S, P, R, L) <=> Among(x, t, S, Q, <<>>, L)
  BY <1>1, NoOutput DEF Among
<1> QED BY <1>4, <1>5 DEF Good

(* Something is read: ReaderRead.                                           *)
LEMMA WasRead ==
  ASSUME NEW t, NEW S \in Seq(Nat), NEW P \in Seq(Nat), NEW R \in Seq(Nat), NEW L, NEW m \in Nat,
         NEW gone, gone \subseteq 1..m, Good(t, S, P, R, L, m, gone)
  PROVE  /\ Good(t, S, P, Append(R, m + 1), L, m + 1, gone)
         /\ Good(t, S, P, R, L, m + 1, gone \cup {m + 1})
<1> PICK n \in Nat : n = m + 1
  OBVIOUS
<1> PICK Q \in Seq(Nat) : Q = Append(R, n)
  BY OneMore
<1>1. \A x : Among(x, t, S, P, R, L) => x \in 1..m
  BY DEF Good
<1>2. /\ ToSet(Q) = ToSet(R) \cup {m + 1}
      /\ (Increasing(R) /\ \A x \in ToSet(R) : x < m + 1) => Increasing(Q)
  BY OneMore
<1>3. \A x \in 1..m : x < m + 1
  OBVIOUS
<1>4. Increasing(Q)
  <2>1. Increasing(R)
    BY DEF Good, Sorted
  <2>2. \A x \in ToSet(R) : x < m + 1
    BY <1>1, <1>3 DEF Among
  <2> QED BY ONLY <1>2, <2>1, <2>2
<1>5. /\ Below(S, Q) /\ Below(P, Q)
      /\ \A k \in CastsIn(L, t) : Below(L[k].d, Q)
  <2>1. /\ \A x \in ToSet(S) \cup ToSet(P) : x < m + 1
        /\ \A k \in CastsIn(L, t) : \A x \in ToSet(L[k].d) : x < m + 1
    BY <1>1, <1>3 DEF Among
  <2>2. /\ Below(S, R) /\ Below(P, R)
        /\ \A k \in CastsIn(L, t) : Below(L[k].d, R)
    BY DEF Good, Sorted
  <2> QED BY ONLY <1>2, <2>1, <2>2 DEF Below
<1>6. Sorted(t, S, P, Q, L)
  BY <1>4, <1>5 DEF Good, Sorted
<1>7. \A x : Among(x, t, S, P, Q, L) <=> Among(x, t, S, P, R, L) \/ x = m + 1
  BY <1>2 DEF Among
<1>8. \A x : x \in 1..(m + 1) <=> x \in 1..m \/ x = m + 1
  OBVIOUS
<1>9. m + 1 \notin gone /\ m + 1 \notin 1..m
  OBVIOUS
<1> QED BY <1>6, <1>7, <1>8, <1>9 DEF Good

(* The line moves on by one place, and P is the last output of t in it.     *)
EndsWith(t, P, L, L2, n) ==
  /\ n \in CastsIn(L2, t) /\ L2[n].d = P
  /\ \A k \in CastsIn(L2, t) : k = n \/ (k < n /\ k \in Nat /\ k + 1 \in CastsIn(L, t) /\ L2[k].d = L[k + 1].d)
  /\ \A k \in CastsIn(L, t) : k - 1 \in CastsIn(L2, t) /\ L2[k - 1].d = L[k].d

(* A batch is taken from what is pending: Flush.                            *)
LEMMA BatchTaken ==
  ASSUME NEW t, NEW S, NEW P, NEW R, NEW L, NEW L2, NEW m, NEW gone, NEW n \in Nat,
         Good(t, S, P, R, L, m, gone), EndsWith(t, P, L, L2, n)
  PROVE  Good(t, S, <<>>, R, L2, m, gone)
<1>0. /\ n \in CastsIn(L2, t) /\ L2[n].d = P
      /\ \A k \in CastsIn(L2, t) : k = n \/ (k < n /\ k \in Nat /\ k + 1 \in CastsIn(L, t) /\ L2[k].d = L[k + 1].d)
      /\ \A k \in CastsIn(L, t) : k - 1 \in CastsIn(L2, t) /\ L2[k - 1].d = L[k].d
  BY DEF EndsWith
<1>1. \A s : Below(s, <<>>) /\ Below(<<>>, s)
  BY NoOutput DEF Below
<1>2. \A k \in CastsIn(L2, t) : /\ Increasing(L2[k].d) /\ Below(S, L2[k].d) /\ Below(L2[k].d, R)
                                /\ (k # n => Below(L2[k].d, P))
  BY <1>0 DEF Good, Sorted
<1>3. ASSUME NEW j \in CastsIn(L2, t), NEW k \in CastsIn(L2, t), j < k PROVE Below(L2[j].d, L2[k].d)
  <2>1. j # n
    BY <1>0, <1>3
  <2>2. CASE k = n
    BY <1>0, <1>2, <2>1, <2>2
  <2>3. CASE k # n
    <3>1. j + 1 < k + 1
      BY <1>0, <1>3, <2>1, <2>3
    <3> QED BY <1>0, <2>1, <2>3, <3>1 DEF Good, Sorted
  <2> QED BY <2>2, <2>3
<1>4. Sorted(t, S, <<>>, R, L2)
  BY <1>0, <1>1, <1>2, <1>3, NoOutput DEF Good, Sorted
<1>5. ASSUME NEW x PROVE Among(x, t, S, P, R, L) <=> Among(x, t, S, <<>>, R, L2)
  <2>1. ASSUME NEW k \in CastsIn(L, t), x \in ToSet(L[k].d) PROVE Among(x, t, S, <<>>, R, L2)
    BY <1>0, <2>1 DEF Among
  <2>2. x \in ToSet(P) => Among(x, t, S, <<>>, R, L2)
    BY <1>0 DEF Among
  <2>3. ASSUME NEW k \in CastsIn(L2, t), x \in ToSet(L2[k].d) PROVE Among(x, t, S, P, R, L)
    BY <1>0, <2>3 DEF Among
  <2> QED BY <2>1, <2>2, <2>3, NoOutput DEF Among
<1> QED BY <1>4, <1>5 DEF Good

(* L2 has the batches of L except the first, d.                             *)
FirstTaken(t, L, L2, d) ==
  /\ 1 \in CastsIn(L, t) /\ L[1].d = d
  /\ \A k \in CastsIn(L2, t) : k \in Nat /\ k > 0 /\ k + 1 \in CastsIn(L, t) /\ L2[k].d = L[k + 1].d
  /\ \A k \in CastsIn(L, t) : k = 1 \/ (k - 1 \in CastsIn(L2, t) /\ L2[k - 1].d = L[k].d)

(* The first batch of the line is shown: Broadcast.                         *)
LEMMA BatchShown ==
  ASSUME NEW t, NEW S \in Seq(Nat), NEW P, NEW R, NEW L, NEW L2, NEW m, NEW gone,
         Good(t, S, P, R, L, m, gone), NEW d \in Seq(Nat), FirstTaken(t, L, L2, d)
  PROVE  Good(t, S \o d, P, R, L2, m, gone)
<1> USE DEF FirstTaken
<1> PICK Q \in Seq(Nat) : Q = S \o d
  BY Parts
<1>1. ToSet(Q) = ToSet(S) \cup ToSet(d) /\ (Increasing(Q) <=> Increasing(S) /\ Increasing(d) /\ Below(S, d))
  BY Parts, OrderOfParts
<1>2. \A s : Below(Q, s) <=> Below(S, s) /\ Below(d, s)
  BY <1>1 DEF Below
<1>3. \A k \in CastsIn(L2, t) : 1 < k + 1
  OBVIOUS
<1>4. \A k \in CastsIn(L2, t) : /\ Increasing(L2[k].d) /\ Below(S, L2[k].d) /\ Below(d, L2[k].d)
                                /\ Below(L2[k].d, P) /\ Below(L2[k].d, R)
  BY <1>3 DEF Good, Sorted
<1>5. ASSUME NEW j \in CastsIn(L2, t), NEW k \in CastsIn(L2, t), j < k PROVE Below(L2[j].d, L2[k].d)
  <2>1. j + 1 < k + 1
    BY <1>5
  <2> QED BY <2>1 DEF Good, Sorted
<1>6. Increasing(Q) /\ Below(Q, P) /\ Below(Q, R)
  BY <1>1, <1>2 DEF Good, Sorted
<1>7. Sorted(t, Q, P, R, L2)
  BY <1>2, <1>4, <1>5, <1>6 DEF Good, Sorted
<1>8. ASSUME NEW x PROVE Among(x, t, S, P, R, L) <=> Among(x, t, Q, P, R, L2)
  <2>1. ASSUME NEW k \in CastsIn(L, t), x \in ToSet(L[k].d) PROVE Among(x, t, Q, P, R, L2)
    BY <1>1, <2>1 DEF Among
  <2>2. ASSUME NEW k \in CastsIn(L2, t), x \in ToSet(L2[k].d) PROVE Among(x, t, S, P, R, L)
    BY <2>2 DEF Among
  <2>3. x \in ToSet(d) => Among(x, t, S, P, R, L)
    BY DEF Among
  <2> QED BY <1>1, <2>1, <2>2, <2>3 DEF Among
<1> QED BY <1>7, <1>8 DEF Good

(* The line goes on by h places, and one section may be added at its end.   *)
Moves(L, L2, h, X) ==
  /\ h \in {0, 1}
  /\ \A k \in DOMAIN L2 : /\ k \in Nat /\ k > 0
                          /\ \/ k + h \in DOMAIN L /\ L2[k] = L[k + h]
                             \/ k = Len(L2) /\ k + h \notin DOMAIN L /\ L2[k] \in X
  /\ \A k \in DOMAIN L : k \in Nat /\ k > 0 /\ (k > h => k - h \in DOMAIN L2 /\ L2[k - h] = L[k])
  /\ \A s \in X : Len(L2) \in DOMAIN L2 /\ L2[Len(L2)] = s

(* The ways a line moves: not at all, with a section added, with the first  *)
(* one taken.                                                               *)
LEMMA LineMoves ==
  ASSUME NEW T, NEW L \in Seq(T)
  PROVE  /\ Moves(L, L, 0, {})
         /\ \A s \in T : Append(L, s) \in Seq(T) /\ Moves(L, Append(L, s), 0, {s})
         /\ L # <<>> => /\ 1 \in DOMAIN L /\ L[1] = Head(L) /\ L[1] \in T
                        /\ Tail(L) \in Seq(T) /\ Moves(L, Tail(L), 1, {})
                        /\ \A s \in T : Append(Tail(L), s) \in Seq(T) /\ Moves(L, Append(Tail(L), s), 1, {s})
<1>1. Len(L) \in Nat /\ DOMAIN L = 1..Len(L)
  OBVIOUS
<1>2. Moves(L, L, 0, {})
  BY <1>1 DEF Moves
<1>3. ASSUME NEW s \in T PROVE Append(L, s) \in Seq(T) /\ Moves(L, Append(L, s), 0, {s})
  <2>1. /\ Append(L, s) \in Seq(T) /\ Len(Append(L, s)) = Len(L) + 1 /\ DOMAIN Append(L, s) = 1..(Len(L) + 1)
        /\ \A k \in 1..Len(L) : Append(L, s)[k] = L[k]
        /\ Append(L, s)[Len(L) + 1] = s
    BY <1>1
  <2> PICK L2 : L2 = Append(L, s)
    OBVIOUS
  <2> QED BY <1>1, <2>1 DEF Moves
<1>4. ASSUME L # <<>>
      PROVE  /\ 1 \in DOMAIN L /\ L[1] = Head(L) /\ L[1] \in T
             /\ Tail(L) \in Seq(T) /\ Len(Tail(L)) = Len(L) - 1 /\ DOMAIN Tail(L) = 1..(Len(L) - 1)
             /\ \A k \in 1..(Len(L) - 1) : Tail(L)[k] = L[k + 1]
             /\ Len(L) >= 1
  BY <1>1, <1>4
<1>5. ASSUME L # <<>> PROVE Moves(L, Tail(L), 1, {})
  <2> PICK L2 : L2 = Tail(L)
    OBVIOUS
  <2> QED BY <1>1, <1>4, <1>5 DEF Moves
<1>6. ASSUME L # <<>>, NEW s \in T PROVE Append(Tail(L), s) \in Seq(T) /\ Moves(L, Append(Tail(L), s), 1, {s})
  <2> PICK L1 \in Seq(T) : L1 = Tail(L)
    BY <1>4, <1>6
  <2>1. /\ Append(L1, s) \in Seq(T) /\ Len(Append(L1, s)) = Len(L) /\ DOMAIN Append(L1, s) = 1..Len(L)
        /\ \A k \in 1..(Len(L) - 1) : Append(L1, s)[k] = L[k + 1]
        /\ Append(L1, s)[Len(L)] = s
    BY <1>1, <1>4, <1>6
  <2> PICK L2 : L2 = Append(L1, s)
    OBVIOUS
  <2>2. Moves(L, L2, 1, {s})
    BY <1>1, <1>4, <1>6, <2>1 DEF Moves
  <2> QED BY <2>1, <2>2
<1> QED BY <1>2, <1>3, <1>4, <1>5, <1>6

(* A line that moves keeps the output of a terminal whose batch is neither  *)
(* first nor added.                                                         *)
LEMMA FollowsMoves ==
  ASSUME NEW L, NEW L2, NEW h, NEW X, Moves(L, L2, h, X), NEW t,
         h = 1 => ~(L[1].do = "cast" /\ L[1].t = t),
         \A s \in X : ~(s.do = "cast" /\ s.t = t)
  PROVE  Follows(L, L2, t, h) /\ h \in Nat
<1>1. \A k \in CastsIn(L2, t) : k + h \in CastsIn(L, t) /\ L2[k].d = L[k + h].d /\ k \in Nat
  BY DEF Moves, CastsIn
<1>2. \A k \in CastsIn(L, t) : k > h
  BY DEF Moves, CastsIn
<1>3. \A k \in CastsIn(L, t) : k - h \in CastsIn(L2, t) /\ L2[k - h].d = L[k].d
  BY <1>2 DEF Moves, CastsIn
<1> QED BY <1>1, <1>3 DEF Follows, Moves

(* What the invariant says of one terminal, whose session is at stage st    *)
Own(t, st, S, P, R, L, m, gone) ==
  /\ st \in {"none", "making"} => S = <<>> /\ P = <<>> /\ CastsIn(L, t) = {} /\ gone = 1..m
  /\ gone \subseteq 1..m /\ (st # "open" => R = <<>>)
  /\ st \in Alive => Good(t, S, P, R, L, m, gone)
Owned(t) == Own(t, sess[t], shown[t], pend[t], thr[t], line, made[t], lost[t])

Ending == \A k \in DOMAIN line : Ends(k) => sess[line[k].t] \in {"closing", "gone"}
Feeding == \A c \in Clients : client[c].st \in {"on", "ending"} /\ ~client[c].slow => Fed(c)

Total(t, S, P, R, L, m, gone) ==
  (1..m) \ gone = ToSet(S) \cup ToSet(P) \cup ToSet(R) \cup UNION {ToSet(L[k].d) : k \in CastsIn(L, t)}

(* Good, in the words of InOrder and Whole.                                 *)
LEMMA GoodParts ==
  ASSUME NEW t, NEW S \in Seq(Nat), NEW P \in Seq(Nat), NEW R \in Seq(Nat), NEW L, Batches(L, t), NEW m, NEW gone
  PROVE  Good(t, S, P, R, L, m, gone) <=>
           /\ Increasing(S \o P \o R)
           /\ \A k \in CastsIn(L, t) : Increasing(S \o L[k].d \o P \o R)
           /\ \A j, k \in CastsIn(L, t) : j < k => Increasing(L[j].d \o L[k].d)
           /\ Total(t, S, P, R, L, m, gone)
<1>1. (\A x : (x \in 1..m /\ x \notin gone) <=> Among(x, t, S, P, R, L)) <=>
      Total(t, S, P, R, L, m, gone)
  BY DEF Among, Total
<1> QED BY <1>1, SortedParts DEF Good

(* A section of a line, field by field.                                     *)
LEMMA SectionTypes ==
  ASSUME NEW L \in Seq(Sections), NEW k \in DOMAIN L
  PROVE  /\ L[k] \in Sections /\ L[k].t \in Terms /\ L[k].d \in Seq(Nat) /\ L[k].c \in Clients \cup {Nobody}
         /\ k \in Nat /\ k > 0
<1>1. L[k] \in Sections /\ k \in Nat /\ k > 0
  OBVIOUS
<1> QED BY <1>1 DEF Sections

(* The invariant, terminal by terminal.                                     *)
LEMMA Unfolded ==
  ASSUME TerminalInv
  PROVE  (\A t \in Terms : Owned(t)) /\ Ending /\ Feeding
<1>1. ASSUME NEW t \in Terms PROVE Owned(t)
  <2>1. Casts(t) = CastsIn(line, t) /\ Batches(line, t)
    BY SectionTypes DEF Casts, CastsIn, Batches, TerminalInv, TerminalTypeOK
  <2>2. shown[t] \in Seq(Nat) /\ pend[t] \in Seq(Nat) /\ thr[t] \in Seq(Nat)
    BY DEF TerminalInv, TerminalTypeOK
  <2>3. ASSUME sess[t] \in Alive PROVE Good(t, shown[t], pend[t], thr[t], line, made[t], lost[t])
    <3>1. InOrder(t) /\ Whole(t)
      BY <2>3 DEF TerminalInv, OutputIsWhole, Live
    <3>2. /\ Increasing(shown[t] \o pend[t] \o thr[t])
          /\ \A k \in CastsIn(line, t) : Increasing(shown[t] \o line[k].d \o pend[t] \o thr[t])
          /\ \A j, k \in CastsIn(line, t) : j < k => Increasing(line[j].d \o line[k].d)
      BY <2>1, <3>1 DEF InOrder
    <3>3. Total(t, shown[t], pend[t], thr[t], line, made[t], lost[t])
      BY <2>1, <3>1, Zenon DEF Whole, Total
    <3> QED BY <2>1, <2>2, <3>2, <3>3, GoodParts
  <2> QED BY <2>1, <2>3 DEF TerminalInv, SessionStages, Owned, Own
<1> QED BY <1>1 DEF TerminalInv, SessionStages, OutputIsWhole, Ending, Feeding

(* ... and back.                                                            *)
LEMMA Folded ==
  ASSUME TerminalTypeOK', \A t \in Terms : Owned(t)', Ending', Feeding'
  PROVE  SessionStages' /\ OutputIsWhole'
<1>1. ASSUME NEW t \in Terms
      PROVE  /\ Casts(t)' = CastsIn(line', t) /\ Batches(line', t)
             /\ shown'[t] \in Seq(Nat) /\ pend'[t] \in Seq(Nat) /\ thr'[t] \in Seq(Nat)
  BY SectionTypes DEF Casts, CastsIn, Batches, TerminalTypeOK
<1>2. SessionStages'
  BY <1>1 DEF SessionStages, Owned, Own, Ending
<1>3. ASSUME NEW t \in Live' PROVE InOrder(t)' /\ Whole(t)'
  <2>1. t \in Terms /\ Good(t, shown'[t], pend'[t], thr'[t], line', made'[t], lost'[t])
    BY <1>3 DEF Live, Owned, Own
  <2>2. /\ Increasing(shown'[t] \o pend'[t] \o thr'[t])
        /\ \A k \in CastsIn(line', t) : Increasing(shown'[t] \o line'[k].d \o pend'[t] \o thr'[t])
        /\ \A j, k \in CastsIn(line', t) : j < k => Increasing(line'[j].d \o line'[k].d)
        /\ Total(t, shown'[t], pend'[t], thr'[t], line', made'[t], lost'[t])
    BY <1>1, <2>1, GoodParts
  <2>3. InOrder(t)'
    BY <1>1, <2>1, <2>2 DEF InOrder
  <2>4. Whole(t)'
    BY <1>1, <2>1, <2>2, Zenon DEF Whole, Total
  <2> QED BY <2>3, <2>4
<1> QED BY <1>2, <1>3 DEF OutputIsWhole, Feeding

(* The steps that create no terminal                                        *)
LEMMA NothingCreated ==
  ASSUME TerminalInv, NEW h, NEW X, Moves(line, line', h, X), UNCHANGED <<fd, making>>,
         h = 1 => line[1].do \notin {"check", "register"},
         \A s \in X : s.do \notin {"check", "register"},
         \A t \in Terms : sess'[t] = sess[t] \/ (sess[t] \in Alive /\ sess'[t] \in {"closing", "gone"}),
         \A f \in Fds : owner'[f] \in {owner[f], Nobody},
         \A t \in Live : t \in Live' \/ (\A f \in Fds : owner'[f] # t),
         \A t \in Terms : reader[t] = "off" => reader'[t] = "off",
         \A s \in X : s.t \in Terms /\ (s.do = "pop" \/ (s.do \in {"flush", "cast"} /\ s.by # "flush") =>
                                            sess'[s.t] \in {"closing", "gone"})
  PROVE  Creation' /\ Numbers' /\ Ending'
<1>1. /\ \A k \in DOMAIN line' : Creates(k)' => k + h \in DOMAIN line /\ line'[k] = line[k + h] /\ Creates(k + h)
      /\ \A k \in DOMAIN line' : k \in Nat
  BY DEF Moves, Creates
<1>2. Creation'
  <2>1. \A t \in Terms : sess'[t] = "making" <=> sess[t] = "making"
    BY DEF Alive
  <2>2. \A k \in DOMAIN line' : Creates(k)' => line'[k].t = making' /\ sess'[making'] = "making"
    <3> SUFFICES ASSUME NEW k \in DOMAIN line', Creates(k)' PROVE line'[k].t = making' /\ sess'[making'] = "making"
      OBVIOUS
    <3>1. k + h \in DOMAIN line /\ line'[k] = line[k + h] /\ Creates(k + h)
      BY <1>1
    <3>2. line[k + h].t \in Terms
      BY <3>1, SectionTypes DEF TerminalInv, TerminalTypeOK
    <3> QED BY <2>1, <3>1, <3>2 DEF TerminalInv, Creation
  <2>3. ASSUME NEW j \in DOMAIN line', NEW k \in DOMAIN line', Creates(j)', Creates(k)' PROVE j = k
    <3>1. j + h = k + h
      BY <1>1, <2>3 DEF TerminalInv, Creation
    <3> QED BY <1>1, <3>1 DEF Moves
  <2>4. \A t \in Terms : sess'[t] = "making" => making' = t
    BY <2>1 DEF TerminalInv, Creation
  <2> QED BY <2>2, <2>3, <2>4 DEF Creation
<1>3. \A t \in Terms : Registering(t) <=> Registering(t)'
  <2>1. ASSUME NEW t \in Terms, Registering(t) PROVE Registering(t)'
    <3>1. PICK k \in DOMAIN line : line[k].do = "register" /\ line[k].t = t
      BY <2>1 DEF Registering
    <3>2. k > h
      BY <3>1 DEF Moves
    <3> QED BY <3>1, <3>2 DEF Moves, Registering
  <2>2. ASSUME NEW t \in Terms, Registering(t)' PROVE Registering(t)
    <3>1. PICK k \in DOMAIN line' : line'[k].do = "register" /\ line'[k].t = t
      BY <2>2 DEF Registering
    <3>2. k + h \in DOMAIN line /\ line'[k] = line[k + h]
      BY <1>1, <3>1 DEF Creates
    <3> QED BY <3>1, <3>2 DEF Registering
  <2> QED BY <2>1, <2>2
<1>4. Numbers'
  <2>1. ASSUME NEW f \in Fds, NEW u, u = owner'[f], u # Nobody
        PROVE  fd'[u] = f /\ (u \in Live' \/ Registering(u)')
    <3>1. u = owner[f] /\ u \in Terms
      BY <2>1 DEF TerminalInv, TerminalTypeOK
    <3>2. fd[u] = f /\ (u \in Live \/ Registering(u))
      BY <2>1, <3>1 DEF TerminalInv, Numbers
    <3>3. u \in Live => u \in Live'
      BY <2>1
    <3> QED BY <1>3, <3>1, <3>2, <3>3
  <2>2. ASSUME NEW t \in Terms, reader'[t] # "off" \/ Registering(t)' PROVE fd'[t] \in Fds
    <3>1. reader[t] # "off" \/ Registering(t)
      BY <1>3, <2>2
    <3> QED BY <3>1 DEF TerminalInv, Numbers
  <2>3. Fds' = Fds
    BY DEF Fds
  <2> QED BY <2>1, <2>2, <2>3 DEF Numbers, Registering
<1>5. Ending'
  <2> SUFFICES ASSUME NEW k \in DOMAIN line', Ends(k)' PROVE sess'[line'[k].t] \in {"closing", "gone"}
    BY DEF Ending
  <2>1. CASE k + h \in DOMAIN line /\ line'[k] = line[k + h]
    <3>1. sess[line[k + h].t] \in {"closing", "gone"} /\ line[k + h].t \in Terms
      BY <2>1, Unfolded, SectionTypes DEF Ends, Ending, TerminalInv, TerminalTypeOK
    <3> QED BY <2>1, <3>1 DEF Alive
  <2>2. CASE line'[k] \in X
    BY <2>2 DEF Ends
  <2> QED BY <2>1, <2>2 DEF Moves
<1> QED BY <1>2, <1>4, <1>5

(* A terminal that a step leaves alone.                                     *)
LEMMA LeftAlone ==
  ASSUME NEW t, Owned(t), NEW h, NEW X, Moves(line, line', h, X),
         sess'[t] = sess[t], shown'[t] = shown[t], pend'[t] = pend[t], thr'[t] = thr[t],
         made'[t] = made[t], lost'[t] = lost[t],
         h = 1 => ~(line[1].do = "cast" /\ line[1].t = t),
         \A s \in X : ~(s.do = "cast" /\ s.t = t)
  PROVE  Owned(t)'
<1>1. Follows(line, line', t, h) /\ h \in Nat
  BY FollowsMoves
<1>2. CastsIn(line, t) = {} => CastsIn(line', t) = {}
  BY <1>1 DEF Follows
<1>3. sess[t] \in Alive => Good(t, shown[t], pend[t], thr[t], line', made[t], lost[t])
  BY <1>1, SameOutput DEF Owned, Own
<1> QED BY <1>2, <1>3 DEF Owned, Own

(* The end of a sequence                                                    *)
LEMMA SuffixIs ==
  ASSUME NEW a \in Seq(Nat), NEW s \in Seq(Nat)
  PROVE  IsSuffix(a, s) <=> Len(a) <= Len(s) /\ \A i \in 1..Len(a) : a[i] = s[Len(s) - Len(a) + i]
<1>1. /\ Len(a) \in Nat /\ Len(s) \in Nat /\ DOMAIN a = 1..Len(a) /\ DOMAIN s = 1..Len(s)
      /\ \A i \in 1..Len(a) : a[i] \in Nat
      /\ \A i \in 1..Len(s) : s[i] \in Nat
  OBVIOUS
<1> DEFINE ra == Reverse(a)
           rs == Reverse(s)
<1>2. /\ ra \in Seq(Nat) /\ Len(ra) = Len(a) /\ \A i \in 1..Len(a) : ra[i] = a[Len(a) - i + 1]
      /\ rs \in Seq(Nat) /\ Len(rs) = Len(s) /\ \A i \in 1..Len(s) : rs[i] = s[Len(s) - i + 1]
  BY <1>1 DEF Reverse
<1>3. IsSuffix(a, s) <=> IsPrefix(ra, rs)
  BY DEF IsSuffix
<1> HIDE DEF ra, rs
<1>4. IsPrefix(ra, rs) <=> Len(a) <= Len(s) /\ SubSeq(ra, 1, Len(a)) = SubSeq(rs, 1, Len(a))
  BY <1>2 DEF IsPrefix
<1>5. ASSUME Len(a) <= Len(s)
      PROVE  SubSeq(ra, 1, Len(a)) = SubSeq(rs, 1, Len(a)) <=> \A i \in 1..Len(a) : ra[i] = rs[i]
  <2> PICK n \in Nat : n = Len(a)
    BY <1>1
  <2>1. ASSUME NEW q \in Seq(Nat), n <= Len(q)
        PROVE  /\ SubSeq(q, 1, n) \in Seq(Nat) /\ Len(SubSeq(q, 1, n)) = n
               /\ \A i \in 1..n : SubSeq(q, 1, n)[i] = q[i]
    BY <2>1
  <2> PICK x \in Seq(Nat) : x = SubSeq(ra, 1, n)
    BY <1>2, <2>1
  <2> PICK y \in Seq(Nat) : y = SubSeq(rs, 1, n)
    BY <1>2, <1>5, <2>1
  <2>2. Len(x) = n /\ Len(y) = n /\ \A i \in 1..n : x[i] = ra[i] /\ y[i] = rs[i]
    BY <1>2, <1>5, <2>1
  <2>3. x = y <=> \A i \in 1..n : x[i] = y[i]
    BY <2>2, SeqEqual
  <2> QED BY <2>2, <2>3
<1>6. ASSUME Len(a) <= Len(s), \A i \in 1..Len(a) : ra[i] = rs[i], NEW i \in 1..Len(a)
      PROVE  a[i] = s[Len(s) - Len(a) + i]
  <2> PICK j : j = Len(a) - i + 1
    OBVIOUS
  <2>1. j \in 1..Len(a) /\ j \in 1..Len(s) /\ Len(a) - j + 1 = i /\ Len(s) - j + 1 = Len(s) - Len(a) + i
    <3> PICK n \in Nat, m \in Nat : n = Len(a) /\ m = Len(s)
      BY <1>1
    <3>1. n <= m /\ i \in 1..n /\ j = n - i + 1
      BY <1>6
    <3>2. j \in 1..n /\ j \in 1..m /\ n - j + 1 = i /\ m - j + 1 = m - n + i
      BY ONLY <3>1, n \in Nat, m \in Nat
    <3> QED BY <3>2
  <2>2. ra[j] = a[i] /\ rs[j] = s[Len(s) - Len(a) + i]
    <3>1. ra[j] = a[Len(a) - j + 1] /\ rs[j] = s[Len(s) - j + 1]
      BY <1>2, <2>1
    <3> QED BY ONLY <2>1, <3>1
  <2> QED BY ONLY <1>6, <2>1, <2>2
<1>7. ASSUME Len(a) <= Len(s), \A i \in 1..Len(a) : a[i] = s[Len(s) - Len(a) + i], NEW i \in 1..Len(a)
      PROVE  ra[i] = rs[i]
  <2> PICK j : j = Len(a) - i + 1
    OBVIOUS
  <2>1. j \in 1..Len(a) /\ i \in 1..Len(s) /\ Len(s) - Len(a) + j = Len(s) - i + 1
    BY <1>1, <1>7
  <2> QED BY <1>2, <1>7, <2>1
<1> QED BY <1>3, <1>4, <1>5, <1>6, <1>7

(* What is a suffix stays one when both are extended; the end of a sequence *)
(* is one.                                                                  *)
LEMMA SuffixFacts ==
  ASSUME NEW a \in Seq(Nat), NEW s \in Seq(Nat), NEW d \in Seq(Nat)
  PROVE  /\ IsSuffix(s, s)
         /\ IsSuffix(a, s) => IsSuffix(a \o d, s \o d)
         /\ \A h \in Nat \ {0} : Len(s) > h =>
              /\ SubSeq(s, Len(s) - h + 1, Len(s)) \in Seq(Nat)
              /\ Len(SubSeq(s, Len(s) - h + 1, Len(s))) = h
              /\ IsSuffix(SubSeq(s, Len(s) - h + 1, Len(s)), s)
<1>0. Len(a) \in Nat /\ Len(s) \in Nat /\ Len(d) \in Nat
  OBVIOUS
<1>1. IsSuffix(s, s)
  <2>1. \A i \in 1..Len(s) : Len(s) - Len(s) + i = i
    BY <1>0
  <2> QED BY <1>0, <2>1, SuffixIs
<1>2. ASSUME IsSuffix(a, s) PROVE IsSuffix(a \o d, s \o d)
  <2>1. /\ a \o d \in Seq(Nat) /\ Len(a \o d) = Len(a) + Len(d)
        /\ \A i \in 1..(Len(a) + Len(d)) : (a \o d)[i] = IF i <= Len(a) THEN a[i] ELSE d[i - Len(a)]
        /\ s \o d \in Seq(Nat) /\ Len(s \o d) = Len(s) + Len(d)
        /\ \A i \in 1..(Len(s) + Len(d)) : (s \o d)[i] = IF i <= Len(s) THEN s[i] ELSE d[i - Len(s)]
    OBVIOUS
  <2>2. Len(a) <= Len(s) /\ \A i \in 1..Len(a) : a[i] = s[Len(s) - Len(a) + i]
    BY <1>2, SuffixIs
  <2> PICK x \in Seq(Nat), y \in Seq(Nat) : x = a \o d /\ y = s \o d
    BY <2>1
  <2>3. ASSUME NEW i \in 1..Len(x) PROVE x[i] = y[Len(y) - Len(x) + i]
    <3> PICK j : j = Len(s) - Len(a) + i
      OBVIOUS
    <3>1. Len(y) - Len(x) + i = j /\ j \in 1..(Len(s) + Len(d)) /\ i \in 1..(Len(a) + Len(d))
      BY <1>0, <2>1, <2>2
    <3>2. CASE i <= Len(a)
      <4>1. j <= Len(s)
        BY <1>0, <2>2, <3>2
      <4> QED BY <1>0, <2>1, <2>2, <3>1, <3>2, <4>1
    <3>3. CASE i > Len(a)
      <4>1. ~(j <= Len(s)) /\ j - Len(s) = i - Len(a)
        BY <1>0, <2>2, <3>3
      <4> QED BY <1>0, <2>1, <3>1, <3>3, <4>1
    <3> QED BY <1>0, <3>1, <3>2, <3>3
  <2>4. Len(x) <= Len(y)
    BY <1>0, <2>1, <2>2
  <2> QED BY <2>3, <2>4, SuffixIs
<1>3. ASSUME NEW h \in Nat \ {0}, Len(s) > h
      PROVE  /\ SubSeq(s, Len(s) - h + 1, Len(s)) \in Seq(Nat)
             /\ Len(SubSeq(s, Len(s) - h + 1, Len(s))) = h
             /\ IsSuffix(SubSeq(s, Len(s) - h + 1, Len(s)), s)
  <2>1. /\ SubSeq(s, Len(s) - h + 1, Len(s)) \in Seq(Nat)
        /\ Len(SubSeq(s, Len(s) - h + 1, Len(s))) = h
        /\ \A i \in 1..h : SubSeq(s, Len(s) - h + 1, Len(s))[i] = s[Len(s) - h + i]
    <3> PICK n \in Nat : n = Len(s)
      BY <1>0
    <3> PICK m \in Nat : m = n - h + 1
      <4>1. n > h
        BY <1>3
      <4> QED BY ONLY <4>1, n \in Nat, h \in Nat
    <3>1. m \in 1..n /\ h = n - m + 1
      BY <1>3
    <3>2. /\ SubSeq(s, m, n) \in Seq(Nat) /\ Len(SubSeq(s, m, n)) = n - m + 1
          /\ \A i \in 1..(n - m + 1) : SubSeq(s, m, n)[i] = s[m + i - 1]
      <4>1. m \in Int /\ n \in Int /\ m <= n + 1 /\ \A i \in m..n : s[i] \in Nat
        BY <3>1
      <4> QED BY <4>1, SubSeqProperties
    <3>3. \A i \in 1..h : m + i - 1 = n - h + i
      BY ONLY m = n - h + 1, n \in Nat, h \in Nat
    <3>4. /\ SubSeq(s, m, n) \in Seq(Nat) /\ Len(SubSeq(s, m, n)) = h
          /\ \A i \in 1..h : SubSeq(s, m, n)[i] = s[n - h + i]
      <4>1. n - m + 1 = h
        BY <3>1
      <4> QED BY ONLY <3>2, <3>3, <4>1
    <3> QED BY ONLY <3>4, n = Len(s), m = n - h + 1
  <2> PICK x \in Seq(Nat) : x = SubSeq(s, Len(s) - h + 1, Len(s))
    BY <2>1
  <2>2. Len(x) <= Len(s) /\ \A i \in 1..Len(x) : x[i] = s[Len(s) - Len(x) + i]
    BY <1>0, <1>3, <2>1
  <2>3. IsSuffix(x, s)
    BY <2>2, SuffixIs
  <2> QED BY <2>1, <2>3
<1> QED BY <1>1, <1>2, <1>3

(* Steps that change nothing of what the clients have been queued           *)
LEMMA FedAsBefore ==
  ASSUME TerminalInv, UNCHANGED shown,
         \A c \in Clients : client'[c].st \in {"on", "ending"} =>
            /\ client[c].st \in {"on", "ending"} /\ client'[c].t = client[c].t
            /\ client'[c].str = client[c].str /\ client'[c].slow = client[c].slow
  PROVE  Feeding'
<1> SUFFICES ASSUME NEW c \in Clients, client'[c].st \in {"on", "ending"}, ~client'[c].slow PROVE Fed(c)'
  BY DEF Feeding
<1>1. Fed(c)
  BY Unfolded DEF Feeding
<1> QED BY <1>1 DEF Fed

(* Steps that attach nobody keep clients with their terminals.              *)
LEMMA JoinedAsBefore ==
  ASSUME TerminalInv, NEW h, NEW X, Moves(line, line', h, X), \A s \in X : s.do # "attach",
         \A c \in Clients : client'[c].t = client[c].t /\ (client'[c].st = "off" => client[c].st = "off"),
         \A c \in Clients : client'[c].st = "on" => client[c].st = "on" /\ sess'[client[c].t] \in Alive,
         \A c \in Clients : client'[c].st = "ending" =>
            \/ client[c].st = "ending" /\ sess'[client[c].t] = sess[client[c].t]
            \/ client[c].st = "on" /\ sess'[client[c].t] = "gone"
  PROVE  Joined'
<1>1. ASSUME NEW c \in Clients
      PROVE  /\ client'[c].st = "off" => client'[c].t = Nobody
             /\ client'[c].st = "on" => client'[c].t \in Live'
             /\ client'[c].st = "ending" => client'[c].t \in Terms /\ sess'[client'[c].t] = "gone"
  BY DEF TerminalInv, Joined, Live
<1>2. ASSUME NEW k \in DOMAIN line', line'[k].do = "attach"
      PROVE  line'[k].c \in Clients /\ client'[line'[k].c].t = line'[k].t
  <2>1. k + h \in DOMAIN line /\ line'[k] = line[k + h]
    BY <1>2 DEF Moves
  <2> QED BY <1>2, <2>1 DEF TerminalInv, Joined
<1> QED BY <1>1, <1>2 DEF Joined

ClientRecords == [st : {"off", "accepted", "on", "ending", "closed"}, t : Terms \cup {Nobody},
                  str : Seq(Nat), n : Nat, slow : BOOLEAN]

(* A section that leaves output, numbers and creation alone                 *)
Harmless(s) ==
  /\ s \in Sections /\ s.do \notin {"check", "register", "cast", "attach"}
  /\ s.do = "pop" \/ (s.do = "flush" /\ s.by # "flush") => sess[s.t] \in {"closing", "gone"}

(* A client that a step leaves alone, or lets go                            *)
Unheard(c) == /\ client'[c].t = client[c].t /\ client'[c].str = client[c].str
              /\ client'[c].slow = client[c].slow
              /\ client'[c].st \in {"off", "on", "ending"} => client'[c].st = client[c].st

(* Steps that only move the line on, start or stop somebody, or let a       *)
(* client go                                                                *)
LEMMA QuietStep ==
  ASSUME TerminalInv, NEW h, NEW X, Moves(line, line', h, X), line' \in Seq(Sections),
         UNCHANGED <<sess, fd, owner, made, lost, thr, pend, shown, making>>,
         reader' \in [Terms -> {"off", "loop", "read", "done"}],
         \A t \in Terms : reader[t] = "off" => reader'[t] = "off",
         stop' = stop, drain' \in [Terms -> BOOLEAN], sched' \in [Terms -> BOOLEAN],
         handle' \in [Terms -> {"none", "armed", "fired"}], closes' \in Nat,
         client' \in [Clients -> ClientRecords], \A c \in Clients : Unheard(c),
         h = 1 => line[1].do \notin {"check", "register", "cast"},
         \A s \in X : Harmless(s)
  PROVE  TerminalInv'
<1>1. TerminalTypeOK'
  BY DEF TerminalInv, TerminalTypeOK, ClientRecords, Fds
<1>2. Creation' /\ Numbers' /\ Ending'
  <2>1. \A s \in X : /\ s.do \notin {"check", "register"} /\ s.t \in Terms
                     /\ s.do = "pop" \/ (s.do \in {"flush", "cast"} /\ s.by # "flush") => sess'[s.t] \in {"closing", "gone"}
    BY DEF Harmless, Sections
  <2>2. Live' = Live
    BY DEF Live
  <2> QED BY <2>1, <2>2, NothingCreated
<1>3. \A t \in Terms : Owned(t)'
  BY Unfolded, LeftAlone DEF Harmless
<1>4. Feeding'
  BY FedAsBefore DEF Unheard
<1>5. Joined'
  <2>1. \A c \in Clients : client[c].st = "on" => sess'[client[c].t] \in Alive
    BY DEF TerminalInv, Joined, Live
  <2> QED BY <2>1, JoinedAsBefore DEF Unheard, Harmless
<1> QED BY <1>1, <1>2, <1>3, <1>4, <1>5, Folded DEF TerminalInv

(* The section whose turn it is                                             *)
LEMMA TurnFacts ==
  ASSUME TerminalTypeOK, NEW do, Turn(do)
  PROVE  /\ line # <<>> /\ 1 \in DOMAIN line /\ line[1] = Head(line) /\ line[1].do = do
         /\ line[1] \in Sections /\ line[1].t \in Terms /\ line[1].d \in Seq(Nat)
         /\ line[1].c \in Clients \cup {Nobody} /\ line[1].by \in {"flush", "finish", "close"}
         /\ Tail(line) \in Seq(Sections) /\ Moves(line, Tail(line), 1, {})
         /\ \A s \in Sections : Append(Tail(line), s) \in Seq(Sections) /\ Moves(line, Append(Tail(line), s), 1, {s})
<1>1. line \in Seq(Sections) /\ line # <<>>
  BY DEF TerminalTypeOK, Turn
<1>2. line[1] \in Sections /\ 1 \in DOMAIN line /\ line[1] = Head(line)
  BY <1>1, LineMoves
<1>3. /\ Tail(line) \in Seq(Sections) /\ Moves(line, Tail(line), 1, {})
      /\ \A s \in Sections : Append(Tail(line), s) \in Seq(Sections) /\ Moves(line, Append(Tail(line), s), 1, {s})
  BY <1>1, LineMoves
<1> QED BY <1>1, <1>2, <1>3 DEF Turn, Sections

(* A section that is built, field by field.                                 *)
LEMMA SectionIs ==
  ASSUME NEW do \in {"check", "register", "mark", "expire", "flush", "cast", "pop", "attach", "remove"},
         NEW t \in Terms, NEW c \in Clients \cup {Nobody}, NEW d \in Seq(Nat),
         NEW by \in {"flush", "finish", "close"},
         NEW s, s = Section(do, t, c, d, by)
  PROVE  s \in Sections /\ s.do = do /\ s.t = t /\ s.c = c /\ s.d = d /\ s.by = by
BY DEF Section, Sections

(* ... and one without output.                                              *)
LEMMA PlainSection ==
  ASSUME NEW do \in {"check", "register", "mark", "expire", "flush", "cast", "pop", "attach", "remove"},
         NEW t \in Terms, NEW c \in Clients \cup {Nobody}, NEW by \in {"flush", "finish", "close"},
         NEW s, s = Section(do, t, c, <<>>, by)
  PROVE  s \in Sections /\ s.do = do /\ s.t = t /\ s.c = c /\ s.by = by
<1> DEFINE d == <<>>
<1>1. d \in Seq(Nat) /\ s = Section(do, t, c, d, by)
  BY NoOutput
<1> HIDE DEF d
<1> QED BY <1>1 DEF Section, Sections

(* Types and moves of what a step leaves unchanged.                         *)
LEMMA Unchanging ==
  ASSUME TerminalInv
  PROVE  /\ reader \in [Terms -> {"off", "loop", "read", "done"}] /\ stop \in [Terms -> BOOLEAN]
         /\ drain \in [Terms -> BOOLEAN] /\ sched \in [Terms -> BOOLEAN]
         /\ handle \in [Terms -> {"none", "armed", "fired"}] /\ closes \in Nat
         /\ client \in [Clients -> ClientRecords] /\ line \in Seq(Sections) /\ <<>> \in Seq(Nat)
         /\ Moves(line, line, 0, {}) /\ TerminalTypeOK
         /\ \A s \in Sections : Append(line, s) \in Seq(Sections) /\ Moves(line, Append(line, s), 0, {s})
<1>1. TerminalTypeOK
  BY DEF TerminalInv
<1>2. /\ reader \in [Terms -> {"off", "loop", "read", "done"}] /\ stop \in [Terms -> BOOLEAN]
      /\ drain \in [Terms -> BOOLEAN] /\ sched \in [Terms -> BOOLEAN]
      /\ handle \in [Terms -> {"none", "armed", "fired"}] /\ closes \in Nat
      /\ line \in Seq(Sections)
  BY <1>1 DEF TerminalTypeOK
<1>3. client \in [Clients -> ClientRecords]
  BY <1>1 DEF TerminalTypeOK, ClientRecords
<1>4. /\ Moves(line, line, 0, {})
      /\ \A s \in Sections : Append(line, s) \in Seq(Sections) /\ Moves(line, Append(line, s), 0, {s})
  BY <1>2, LineMoves, Zenon
<1>5. <<>> \in Seq(Nat)
  BY EmptySeq, Zenon
<1> QED BY <1>1, <1>2, <1>3, <1>4, <1>5, Zenon

(* The reader thread ends.                                                  *)
LEMMA ReaderEndsStep ==
  ASSUME TerminalInv, NEW t \in Terms, reader[t] # "off", ReaderEnds(t),
         UNCHANGED <<sess, fd, owner, stop, made, lost, thr, drain, batches, shown, client, making, closes>>
  PROVE  TerminalInv'
<1> PICK s : s = Section("mark", t, Nobody, <<>>, "finish")
  OBVIOUS
<1>1. s \in Sections /\ s.do = "mark" /\ line' = Append(line, s)
  BY PlainSection, Unchanging DEF ReaderEnds
<1>2. reader' \in [Terms -> {"off", "loop", "read", "done"}] /\ \A u \in Terms : reader[u] = "off" => reader'[u] = "off"
  BY Unchanging DEF ReaderEnds
<1>3. Harmless(s)
  BY <1>1 DEF Harmless
<1>4. Moves(line, line', 0, {s}) /\ line' \in Seq(Sections)
  BY <1>1, Unchanging
<1> QED BY <1>2, <1>3, <1>4, QuietStep, Unchanging DEF batches, Unheard

(* The reader thread looks at its stop event.                               *)
LEMMA ReaderLoopStep ==
  ASSUME TerminalInv, NEW t \in Terms, ReaderLoop(t)
  PROVE  TerminalInv'
<1>1. CASE stop[t]
  BY <1>1, ReaderEndsStep DEF ReaderLoop
<1>2. CASE ~stop[t]
  <2>1. reader' \in [Terms -> {"off", "loop", "read", "done"}] /\ \A u \in Terms : reader[u] = "off" => reader'[u] = "off"
    BY <1>2, Unchanging DEF ReaderLoop
  <2>2. line' = line
    BY <1>2 DEF ReaderLoop
  <2> QED BY <2>1, <2>2, QuietStep, Unchanging DEF ReaderLoop, batches, Unheard
<1> QED BY <1>1, <1>2

(* The timer of a batch fires.                                              *)
LEMMA TimerStep ==
  ASSUME TerminalInv, NEW t \in Terms, Timer(t)
  PROVE  TerminalInv'
<1> PICK s : s = Simple("flush", t)
  OBVIOUS
<1>1. s \in Sections /\ s.do = "flush" /\ s.by = "flush" /\ line' = Append(line, s)
  BY PlainSection, Unchanging DEF Timer, Simple
<1>2. handle' \in [Terms -> {"none", "armed", "fired"}]
  BY Unchanging DEF Timer
<1>3. Harmless(s)
  BY <1>1 DEF Harmless
<1>4. Moves(line, line', 0, {s}) /\ line' \in Seq(Sections)
  BY <1>1, Unchanging
<1> QED BY <1>2, <1>3, <1>4, QuietStep, Unchanging DEF Timer, feed, Unheard

(* A request, the cleanup or a failed write asks for the end of a session.  *)
LEMMA CloseStep ==
  ASSUME TerminalInv, NEW t \in Terms, Close(t) \/ InputFails(t)
  PROVE  TerminalInv'
<1>1. PICK do \in {"mark", "expire"}, by \in {"close", "finish"} :
        line' = Append(line, Section(do, t, Nobody, <<>>, by))
  BY DEF Close, InputFails
<1> PICK s : s = Section(do, t, Nobody, <<>>, by)
  OBVIOUS
<1>2. s \in Sections /\ s.do \in {"mark", "expire"} /\ line' = Append(line, s)
  BY <1>1, PlainSection, Unchanging
<1>3. Harmless(s)
  BY <1>2 DEF Harmless
<1>4. Moves(line, line', 0, {s}) /\ line' \in Seq(Sections)
  BY <1>2, Unchanging
<1>5. closes' \in Nat /\ UNCHANGED <<sess, fd, owner, feed, batches, shown, client, making>>
  BY Unchanging DEF Close, InputFails
<1> QED BY <1>3, <1>4, <1>5, QuietStep, Unchanging DEF feed, batches, Unheard

(* A client leaves.                                                         *)
LEMMA LeaveStep ==
  ASSUME TerminalInv, NEW c \in Clients, Leave(c)
  PROVE  TerminalInv'
<1>1. client[c].t \in Terms
  BY DEF Leave, TerminalInv, Joined, Live
<1> PICK s : s = Section("remove", client[c].t, c, <<>>, "flush")
  OBVIOUS
<1>2. s \in Sections /\ s.do = "remove" /\ line' = Append(line, s)
  BY <1>1, PlainSection, Unchanging DEF Leave
<1>3. Harmless(s)
  BY <1>2 DEF Harmless
<1>4. Moves(line, line', 0, {s}) /\ line' \in Seq(Sections)
  BY <1>2, Unchanging
<1> QED BY <1>3, <1>4, QuietStep, Unchanging DEF Leave, feed, batches, Unheard

(* What is left of a client's record when a field of it changes.            *)
LEMMA RecordChanged ==
  ASSUME NEW r \in ClientRecords, NEW n \in Nat
  PROVE  /\ [r EXCEPT !.n = n] \in ClientRecords /\ [r EXCEPT !.n = n].t = r.t
         /\ [r EXCEPT !.n = n].str = r.str /\ [r EXCEPT !.n = n].slow = r.slow
         /\ [r EXCEPT !.n = n].st = r.st
         /\ [r EXCEPT !.st = "closed"] \in ClientRecords /\ [r EXCEPT !.st = "closed"].t = r.t
         /\ [r EXCEPT !.st = "closed"].str = r.str /\ [r EXCEPT !.st = "closed"].slow = r.slow
         /\ [r EXCEPT !.st = "closed"].st = "closed"
<1>1. PICK a : a = [r EXCEPT !.n = n]
  OBVIOUS
<1>2. a \in ClientRecords /\ a.t = r.t /\ a.str = r.str /\ a.slow = r.slow /\ a.st = r.st
  BY <1>1 DEF ClientRecords
<1>3. PICK b : b = [r EXCEPT !.st = "closed"]
  OBVIOUS
<1>4. b \in ClientRecords /\ b.t = r.t /\ b.str = r.str /\ b.slow = r.slow /\ b.st = "closed"
  BY <1>3 DEF ClientRecords
<1> QED BY ONLY <1>1, <1>2, <1>3, <1>4

(* One client's record changes, not in what it is fed.                      *)
LEMMA OneClient ==
  ASSUME TerminalInv, NEW c \in Clients, NEW r \in ClientRecords, client' = [client EXCEPT ![c] = r],
         r.t = client[c].t, r.str = client[c].str, r.slow = client[c].slow,
         r.st = client[c].st \/ r.st = "closed"
  PROVE  client' \in [Clients -> ClientRecords] /\ \A e \in Clients : Unheard(e)
<1>1. client \in [Clients -> ClientRecords]
  BY Unchanging
<1>2. /\ client' \in [Clients -> ClientRecords] /\ client'[c] = r
      /\ \A e \in Clients : e # c => client'[e] = client[e]
  BY <1>1
<1>3. Unheard(c)
  BY <1>2 DEF Unheard
<1>4. \A e \in Clients : e # c => Unheard(e)
  BY <1>2 DEF Unheard
<1> QED BY <1>2, <1>3, <1>4

(* A frame is sent, or a client let go.                                     *)
LEMMA SendStep ==
  ASSUME TerminalInv, NEW c \in Clients, Send(c) \/ LetGo(c)
  PROVE  TerminalInv'
<1>1. client' \in [Clients -> ClientRecords] /\ \A e \in Clients : Unheard(e)
  <2>1. CASE Send(c)
    <3>1. client[c] \in ClientRecords /\ client[c].n - 1 \in Nat
      BY <2>1, Unchanging DEF Send, ClientRecords
    <3> PICK n \in Nat : n = client[c].n - 1
      BY <3>1
    <3> PICK r : r = [client[c] EXCEPT !.n = n]
      OBVIOUS
    <3>2. client' = [client EXCEPT ![c] = r]
      BY <2>1 DEF Send
    <3>3. r \in ClientRecords /\ r.t = client[c].t /\ r.str = client[c].str /\ r.slow = client[c].slow
          /\ r.st = client[c].st
      BY <3>1, RecordChanged
    <3> QED BY <3>2, <3>3, OneClient
  <2>2. CASE LetGo(c)
    <3>1. client[c] \in ClientRecords
      BY Unchanging
    <3> PICK r : r = [client[c] EXCEPT !.st = "closed"]
      OBVIOUS
    <3>2. client' = [client EXCEPT ![c] = r]
      BY <2>2 DEF LetGo
    <3>3. r \in ClientRecords /\ r.t = client[c].t /\ r.str = client[c].str /\ r.slow = client[c].slow
          /\ r.st = "closed"
      BY <3>1, RecordChanged
    <3> QED BY <3>2, <3>3, OneClient
  <2> QED BY <2>1, <2>2
<1>2. UNCHANGED <<sess, fd, owner, feed, batches, shown, line, making, closes>>
  BY DEF Send, LetGo
<1> QED BY <1>1, <1>2, QuietStep, Unchanging DEF feed, batches

(* A client is removed.                                                     *)
LEMMA RemoveClientStep ==
  ASSUME TerminalInv, RemoveClient
  PROVE  TerminalInv'
<1>1. /\ line[1].do = "remove" /\ line' = Tail(line) /\ line' \in Seq(Sections) /\ Moves(line, line', 1, {})
      /\ line[1] = Head(line)
  BY TurnFacts, Unchanging DEF RemoveClient, Done
<1> PICK c : c = Head(line).c
  OBVIOUS
<1>2. client' = [client EXCEPT ![c].st = "closed"]
  BY DEF RemoveClient
<1>3. client' \in [Clients -> ClientRecords] /\ \A e \in Clients : Unheard(e)
  <2>1. client \in [Clients -> ClientRecords]
    BY Unchanging
  <2>2. CASE c \notin Clients
    <3>1. client' = client
      BY <1>2, <2>1, <2>2
    <3> QED BY <2>1, <3>1 DEF Unheard
  <2>3. CASE c \in Clients
    <3>1. client[c] \in ClientRecords
      BY <2>1, <2>3
    <3> PICK r : r = [client[c] EXCEPT !.st = "closed"]
      OBVIOUS
    <3>2. client' = [client EXCEPT ![c] = r]
      BY <1>2
    <3>3. r \in ClientRecords /\ r.t = client[c].t /\ r.str = client[c].str /\ r.slow = client[c].slow
          /\ r.st = "closed"
      BY <3>1, RecordChanged
    <3>4. r.st = client[c].st \/ r.st = "closed"
      BY <3>3
    <3> HIDE DEF TerminalInv
    <3> QED BY ONLY TerminalInv, <2>3, <3>2, <3>3, <3>4, OneClient
  <2> QED BY <2>2, <2>3
<1>4. /\ UNCHANGED <<sess, fd, owner, made, lost, thr, pend, shown, making, stop>>
      /\ reader' = reader /\ drain' = drain /\ sched' = sched /\ handle' = handle /\ closes' = closes
  BY DEF RemoveClient, feed, batches
<1>5. /\ reader' \in [Terms -> {"off", "loop", "read", "done"}] /\ drain' \in [Terms -> BOOLEAN]
      /\ sched' \in [Terms -> BOOLEAN] /\ handle' \in [Terms -> {"none", "armed", "fired"}]
      /\ closes' \in Nat
  BY <1>4, Unchanging
<1>6. line[1].do \notin {"check", "register", "cast"}
  BY <1>1
<1> QED BY ONLY TerminalInv, <1>1, <1>3, <1>4, <1>5, <1>6, QuietStep

(* The cleanup looks at an idle session again.                              *)
LEMMA ExpireStep ==
  ASSUME TerminalInv, Expire
  PROVE  TerminalInv'
<1>1. /\ line[1].do = "expire" /\ line[1] = Head(line) /\ line[1].t \in Terms
      /\ Tail(line) \in Seq(Sections) /\ Moves(line, Tail(line), 1, {})
      /\ \A s \in Sections : Append(Tail(line), s) \in Seq(Sections) /\ Moves(line, Append(Tail(line), s), 1, {s})
  BY TurnFacts, Unchanging DEF Expire
<1> PICK s : s = Section("mark", line[1].t, Nobody, <<>>, "close")
  OBVIOUS
<1>2. s \in Sections /\ s.do = "mark"
  BY <1>1, PlainSection, Unchanging
<1>3. Harmless(s)
  BY <1>2 DEF Harmless
<1>4. line' = Append(Tail(line), s) \/ line' = Tail(line)
  BY <1>1 DEF Expire, Done, Again
<1>5. PICK X \in {{}, {s}} : line' \in Seq(Sections) /\ Moves(line, line', 1, X)
  BY <1>1, <1>2, <1>4
<1>6. \A r \in X : Harmless(r)
  BY <1>3
<1> QED BY <1>1, <1>5, <1>6, QuietStep, Unchanging DEF Expire, feed, batches, Unheard

(* What the first section says, when it is its turn                         *)
LEMMA FirstSection ==
  ASSUME TerminalInv, NEW do, Turn(do)
  PROVE  /\ line # <<>> /\ 1 \in DOMAIN line /\ line[1] = Head(line) /\ line[1].do = do
         /\ line[1] \in Sections /\ line[1].t \in Terms /\ line[1].d \in Seq(Nat)
         /\ line[1].c \in Clients \cup {Nobody} /\ line[1].by \in {"flush", "finish", "close"}
         /\ Tail(line) \in Seq(Sections) /\ Moves(line, Tail(line), 1, {})
         /\ \A s \in Sections : Append(Tail(line), s) \in Seq(Sections) /\ Moves(line, Append(Tail(line), s), 1, {s})
BY TurnFacts DEF TerminalInv

(* What a line that moves on holds of the creation of a terminal            *)
LEMMA CreatesMoved ==
  ASSUME TerminalInv, NEW h, NEW X, Moves(line, line', h, X), NEW k \in DOMAIN line', Creates(k)'
  PROVE  \/ k + h \in DOMAIN line /\ line'[k] = line[k + h] /\ Creates(k + h) /\ k \in Nat /\ k > 0
         \/ line'[k] \in X /\ k = Len(line')
BY DEF Moves, Creates

(* Sections of an end, after a move.                                        *)
LEMMA EndsMoved ==
  ASSUME TerminalInv, NEW h, NEW X, Moves(line, line', h, X),
         \A s \in X : ~(s.do = "pop" \/ (s.do \in {"flush", "cast"} /\ s.by # "flush")),
         \A t \in Terms : sess[t] \in {"closing", "gone"} => sess'[t] \in {"closing", "gone"}
  PROVE  Ending'
<1> SUFFICES ASSUME NEW k \in DOMAIN line', Ends(k)' PROVE sess'[line'[k].t] \in {"closing", "gone"}
  BY DEF Ending
<1>1. k + h \in DOMAIN line /\ line'[k] = line[k + h]
  BY DEF Moves, Ends
<1>2. sess[line[k + h].t] \in {"closing", "gone"} /\ line[k + h].t \in Terms
  BY <1>1, Unfolded, SectionTypes DEF Ends, Ending, TerminalInv, TerminalTypeOK
<1> QED BY <1>1, <1>2

(* The session is listed: its terminal has no output yet.                   *)
LEMMA RegisterStep ==
  ASSUME TerminalInv, Register
  PROVE  TerminalInv'
<1> PICK t \in Terms : t = line[1].t
  BY FirstSection DEF Register
<1>1. /\ 1 \in DOMAIN line /\ line[1].do = "register" /\ line[1] = Head(line) /\ line' = Tail(line)
      /\ line' \in Seq(Sections) /\ Moves(line, line', 1, {})
  BY FirstSection DEF Register, Done
<1>2. /\ sess' = [sess EXCEPT ![t] = "open"] /\ reader' = [reader EXCEPT ![t] = "loop"] /\ making' = Nobody
      /\ UNCHANGED <<fd, owner, stop, made, lost, thr, drain, pend, handle, sched, shown, client, closes>>
  BY <1>1 DEF Register, batches
<1>3. TerminalTypeOK
  BY DEF TerminalInv
<1>4. t = making /\ sess[t] = "making" /\ \A k \in DOMAIN line : Creates(k) => k = 1
  BY <1>1 DEF Creates, Creation, TerminalInv
<1>5. sess'[t] = "open" /\ \A u \in Terms : u # t => sess'[u] = sess[u] /\ sess[u] # "making"
  BY <1>2, <1>3, <1>4 DEF TerminalTypeOK, TerminalInv, Creation
<1>6. TerminalTypeOK'
  BY <1>1, <1>2, <1>3 DEF TerminalTypeOK, Fds
<1>7. \A k \in DOMAIN line' : ~Creates(k)'
  BY <1>1, <1>4, CreatesMoved
<1>8. Creation'
  BY <1>5, <1>7 DEF Creation
<1>9. Numbers'
  <2>1. ASSUME NEW f \in Fds, NEW u, u = owner'[f], u # Nobody PROVE fd'[u] = f /\ u \in Live'
    <3>1. u \in Terms /\ u = owner[f]
      BY <1>2, <1>3, <2>1 DEF TerminalTypeOK
    <3>2. fd[u] = f /\ (u \in Live \/ Registering(u))
      BY <2>1, <3>1 DEF TerminalInv, Numbers
    <3>3. Registering(u) => u = t
      BY <1>4 DEF Registering, Creates
    <3> QED BY <1>2, <1>5, <3>1, <3>2, <3>3 DEF Live, Alive
  <2>2. ASSUME NEW u \in Terms, reader'[u] # "off" \/ Registering(u)' PROVE fd'[u] \in Fds
    <3>1. ~Registering(u)'
      BY <1>7 DEF Registering, Creates
    <3>2. u # t => reader[u] # "off"
      BY <1>2, <1>3, <2>2, <3>1 DEF TerminalTypeOK
    <3>3. Registering(t)
      BY <1>1 DEF Registering
    <3> QED BY <1>2, <3>2, <3>3 DEF TerminalInv, Numbers
  <2>3. Fds' = Fds
    BY DEF Fds
  <2> QED BY <2>1, <2>2, <2>3 DEF Numbers
<1>10. Ending'
  BY <1>1, <1>4, <1>5, EndsMoved
<1>11. ASSUME NEW u \in Terms PROVE Owned(u)'
  <2>1. CASE u # t
    BY <1>1, <1>2, <1>5, <2>1, LeftAlone, Unfolded
  <2>2. CASE u = t
    <3>1. /\ shown[t] = <<>> /\ pend[t] = <<>> /\ CastsIn(line, t) = {} /\ lost[t] = 1..made[t] /\ thr[t] = <<>>
      BY <1>4, Unfolded DEF Owned, Own
    <3>2. CastsIn(line', t) = {}
      BY <1>1, <3>1, FollowsMoves DEF Follows
    <3>3. Below(<<>>, <<>>)
      BY NoOutput DEF Below
    <3>4. Good(t, <<>>, <<>>, <<>>, line', made[t], lost[t])
      BY <3>1, <3>2, <3>3, NoOutput DEF Good, Sorted, Among
    <3> QED BY <1>2, <1>5, <2>2, <3>1, <3>4 DEF Owned, Own
  <2> QED BY <2>1, <2>2
<1>12. Feeding'
  BY <1>2, FedAsBefore
<1>13. Joined'
  <2>1. ASSUME NEW c \in Clients
        PROVE  /\ client'[c].st = "on" => client[c].st = "on" /\ sess'[client[c].t] \in Alive
               /\ client'[c].st = "ending" => client[c].st = "ending" /\ sess'[client[c].t] = sess[client[c].t]
    BY <1>2, <1>4, <1>5 DEF TerminalInv, Joined, Live, Alive
  <2> QED BY <1>1, <1>2, <2>1, JoinedAsBefore
<1> QED BY <1>6, <1>8, <1>9, <1>10, <1>11, <1>12, <1>13, Folded DEF TerminalInv

(* A creation takes the lock: nothing of another one is in the line.        *)
LEMMA CreateStep ==
  ASSUME TerminalInv, NEW t \in Terms, Create(t)
  PROVE  TerminalInv'
<1> PICK s : s = Simple("check", t)
  OBVIOUS
<1>1. s \in Sections /\ s.do = "check" /\ s.t = t /\ line' = Append(line, s)
  BY PlainSection, Unchanging DEF Create, Simple
<1>2. Moves(line, line', 0, {s}) /\ line' \in Seq(Sections)
  BY <1>1, Unchanging
<1>3. /\ sess' = [sess EXCEPT ![t] = "making"] /\ making' = t /\ sess[t] = "none" /\ making = Nobody
      /\ UNCHANGED <<fd, owner, reader, stop, made, lost, thr, drain, pend, handle, sched, shown, client, closes>>
  BY DEF Create, MayCreate, feed, batches
<1>4. TerminalTypeOK
  BY DEF TerminalInv
<1>5. ASSUME NEW k \in DOMAIN line PROVE ~Creates(k)
  <2>1. line[k].t \in Terms /\ Nobody \notin Terms
    BY <1>4, SectionTypes, TerminalAssumption DEF TerminalTypeOK
  <2> QED BY <1>3, <2>1 DEF TerminalInv, Creation
<1>6. sess'[t] = "making" /\ \A u \in Terms : u # t => sess'[u] = sess[u] /\ sess[u] # "making"
  BY <1>3, <1>4, TerminalAssumption DEF TerminalInv, Creation, TerminalTypeOK
<1>7. TerminalTypeOK'
  BY <1>2, <1>3, <1>4 DEF TerminalTypeOK, Fds
<1>8. \A k \in DOMAIN line' : Creates(k)' => line'[k] = s /\ k = Len(line')
  BY <1>2, <1>5, CreatesMoved
<1>9. Creation'
  BY <1>1, <1>3, <1>6, <1>8 DEF Creation
<1>10. Numbers'
  <2>1. ASSUME NEW f \in Fds, NEW u, u = owner'[f], u # Nobody PROVE fd'[u] = f /\ u \in Live'
    <3>1. u \in Terms /\ u = owner[f]
      BY <1>3, <1>4, <2>1 DEF TerminalTypeOK
    <3>2. fd[u] = f /\ (u \in Live \/ Registering(u))
      BY <2>1, <3>1 DEF TerminalInv, Numbers
    <3>3. ~Registering(u)
      BY <1>5 DEF Registering, Creates
    <3> QED BY <1>3, <1>6, <3>1, <3>2, <3>3 DEF Live, Alive
  <2>2. ASSUME NEW u \in Terms, reader'[u] # "off" \/ Registering(u)' PROVE fd'[u] \in Fds
    <3>1. ~Registering(u)'
      BY <1>1, <1>8 DEF Registering, Creates
    <3> QED BY <1>3, <2>2, <3>1 DEF TerminalInv, Numbers
  <2>3. Fds' = Fds
    BY DEF Fds
  <2> QED BY <2>1, <2>2, <2>3 DEF Numbers
<1>11. Ending'
  BY <1>1, <1>2, <1>3, <1>6, EndsMoved
<1>12. ASSUME NEW u \in Terms PROVE Owned(u)'
  <2>1. CASE u # t
    BY <1>1, <1>2, <1>3, <1>6, <2>1, LeftAlone, Unfolded
  <2>2. CASE u = t
    <3>1. /\ shown[t] = <<>> /\ pend[t] = <<>> /\ CastsIn(line, t) = {} /\ lost[t] = 1..made[t] /\ thr[t] = <<>>
      BY <1>3, Unfolded DEF Owned, Own
    <3>2. CastsIn(line', t) = {}
      BY <1>1, <1>2, <3>1, FollowsMoves DEF Follows
    <3> QED BY <1>3, <1>6, <2>2, <3>1, <3>2 DEF Owned, Own, Alive
  <2> QED BY <2>1, <2>2
<1>13. Feeding'
  BY <1>3, FedAsBefore
<1>14. Joined'
  <2>1. ASSUME NEW c \in Clients
        PROVE  /\ client'[c].st = "on" => client[c].st = "on" /\ sess'[client[c].t] \in Alive
               /\ client'[c].st = "ending" => client[c].st = "ending" /\ sess'[client[c].t] = sess[client[c].t]
    BY <1>3, <1>6 DEF TerminalInv, Joined, Live, Alive
  <2> QED BY <1>1, <1>2, <1>3, <2>1, JoinedAsBefore
<1> QED BY <1>7, <1>9, <1>10, <1>11, <1>12, <1>13, <1>14, Folded DEF TerminalInv

(* A set of naturals that is not empty has a least member.                  *)
LEMMA LeastNat ==
  ASSUME NEW T, T \subseteq Nat, T # {}
  PROVE  \E n \in T : \A m \in T : ~(m < n)
<1>1. PICK x \in T : \A y \in T : ~(<<y, x>> \in OpToRel(<, Nat))
  BY NatLessThanWellFounded, WFMin
<1> QED BY <1>1 DEF OpToRel

(* A terminal that is being made finds a number                             *)
LEMMA NumberIsFree ==
  ASSUME TerminalInv, NEW t \in Terms, t \notin Live, \A u \in Terms : ~Registering(u)
  PROVE  \E f \in Fds : owner[f] = Nobody /\ \A g \in 1..(f - 1) : owner[g] # Nobody
<1> DEFINE F == {f \in Fds : owner[f] = Nobody}
           O == [f \in Fds |-> owner[f]]
<1>0. TerminalTypeOK /\ Numbers /\ IsFiniteSet(Terms)
  BY TerminalAssumption DEF TerminalInv
<1>1. Cardinality(Terms) \in Nat /\ Fds \subseteq Nat
  BY <1>0, FS_CardinalityType DEF Fds
<1>2. F # {}
  <2> SUFFICES ASSUME \A f \in Fds : owner[f] # Nobody PROVE FALSE
    OBVIOUS
  <2>1. ASSUME NEW f \in Fds PROVE owner[f] \in Terms \ {t} /\ fd[owner[f]] = f
    BY <1>0, <2>1 DEF TerminalTypeOK, Numbers
  <2>2. O \in Injection(Fds, Terms \ {t})
    BY <2>1 DEF Injection, IsInjective
  <2>3. IsFiniteSet(Terms \ {t}) /\ Cardinality(Terms \ {t}) = Cardinality(Terms) - 1
    BY <1>0, FS_RemoveElement
  <2>4. Cardinality(Fds) <= Cardinality(Terms \ {t})
    BY <2>2, <2>3, FS_Injection DEF ExistsInjection
  <2>5. Cardinality(Fds) = Cardinality(Terms)
    BY <1>1, FS_Interval DEF Fds
  <2> QED BY <1>1, <2>3, <2>4, <2>5
<1>3. PICK n \in F : \A m \in F : ~(m < n)
  BY <1>1, <1>2, LeastNat
<1>4. \A g \in 1..(n - 1) : g \in Fds /\ g < n
  BY <1>1 DEF Fds
<1> QED BY <1>3, <1>4

(* The limit is reached, or a number is found that stands for no terminal.  *)
LEMMA CheckStep ==
  ASSUME TerminalInv, Check
  PROVE  TerminalInv'
<1> PICK t \in Terms : t = line[1].t
  BY FirstSection DEF Check
<1>1. /\ 1 \in DOMAIN line /\ line[1].do = "check" /\ line[1] = Head(line)
      /\ Tail(line) \in Seq(Sections) /\ Moves(line, Tail(line), 1, {})
      /\ \A s \in Sections : Append(Tail(line), s) \in Seq(Sections) /\ Moves(line, Append(Tail(line), s), 1, {s})
  BY FirstSection DEF Check
<1>2. UNCHANGED <<reader, stop, made, lost, thr, drain, pend, handle, sched, shown, client, closes>>
  BY DEF Check, batches, feed
<1>3. TerminalTypeOK
  BY DEF TerminalInv
<1>4. t = making /\ sess[t] = "making" /\ t \notin Live /\ \A k \in DOMAIN line : Creates(k) => k = 1
  BY <1>1 DEF Creates, Creation, TerminalInv, Live, Alive
<1>5. \A u \in Terms : ~Registering(u)
  BY <1>1, <1>4 DEF Registering, Creates
<1>6. \A u \in Terms : u # t => sess[u] # "making"
  BY <1>4 DEF TerminalInv, Creation
<1>7. CASE sess' = [sess EXCEPT ![t] = "none"] /\ making' = Nobody /\ Done /\ UNCHANGED <<fd, owner>>
  <2>1. line' \in Seq(Sections) /\ Moves(line, line', 1, {})
    BY <1>1, <1>7 DEF Done
  <2>2. sess'[t] = "none" /\ \A u \in Terms : u # t => sess'[u] = sess[u]
    BY <1>3, <1>7 DEF TerminalTypeOK
  <2>3. \A k \in DOMAIN line' : ~Creates(k)'
    BY <1>4, <2>1, CreatesMoved
  <2>4. TerminalTypeOK'
    BY <1>2, <1>3, <1>7, <2>1 DEF TerminalTypeOK, Fds
  <2>5. Creation'
    BY <1>6, <2>2, <2>3 DEF Creation
  <2>6. Numbers'
    <3>1. ASSUME NEW f \in Fds, NEW u, u = owner'[f], u # Nobody PROVE fd'[u] = f /\ u \in Live'
      <4>1. u \in Terms /\ u = owner[f]
        BY <1>3, <1>7, <3>1 DEF TerminalTypeOK
      <4>2. fd[u] = f /\ u \in Live
        BY <1>5, <3>1, <4>1 DEF TerminalInv, Numbers
      <4> QED BY <1>4, <1>7, <2>2, <4>1, <4>2 DEF Live
    <3>2. ASSUME NEW u \in Terms, reader'[u] # "off" \/ Registering(u)' PROVE fd'[u] \in Fds
      <4>1. ~Registering(u)'
        BY <2>3 DEF Registering, Creates
      <4> QED BY <1>2, <1>7, <3>2, <4>1 DEF TerminalInv, Numbers
    <3>3. Fds' = Fds
      BY DEF Fds
    <3> QED BY <3>1, <3>2, <3>3 DEF Numbers
  <2>7. Ending'
    BY <1>4, <2>1, <2>2, EndsMoved
  <2>8. ASSUME NEW u \in Terms PROVE Owned(u)'
    <3>1. CASE u # t
      BY <1>1, <1>2, <2>1, <2>2, <3>1, LeftAlone, Unfolded
    <3>2. CASE u = t
      <4>1. /\ shown[t] = <<>> /\ pend[t] = <<>> /\ CastsIn(line, t) = {} /\ lost[t] = 1..made[t] /\ thr[t] = <<>>
        BY <1>4, Unfolded DEF Owned, Own
      <4>2. CastsIn(line', t) = {}
        BY <1>1, <2>1, <4>1, FollowsMoves DEF Follows
      <4> QED BY <1>2, <2>2, <3>2, <4>1, <4>2 DEF Owned, Own, Alive
    <3> QED BY <3>1, <3>2
  <2>9. Feeding'
    BY <1>2, FedAsBefore
  <2>10. Joined'
    <3>1. ASSUME NEW c \in Clients
          PROVE  /\ client'[c].st = "on" => client[c].st = "on" /\ sess'[client[c].t] \in Alive
                 /\ client'[c].st = "ending" => client[c].st = "ending" /\ sess'[client[c].t] = sess[client[c].t]
      BY <1>2, <1>4, <2>2 DEF TerminalInv, Joined, Live, Alive
    <3> QED BY <1>2, <2>1, <3>1, JoinedAsBefore
  <2> QED BY <2>4, <2>5, <2>6, <2>7, <2>8, <2>9, <2>10, Folded DEF TerminalInv
<1>8. ASSUME NEW f \in Fds, owner[f] = Nobody,
             fd' = [fd EXCEPT ![t] = f], owner' = [owner EXCEPT ![f] = t],
             Again(Simple("register", t)), UNCHANGED <<sess, making>>
      PROVE  TerminalInv'
  <2> PICK s : s = Simple("register", t)
    OBVIOUS
  <2>1. s \in Sections /\ s.do = "register" /\ s.t = t /\ line' = Append(Tail(line), s)
    BY <1>8, PlainSection, Unchanging DEF Again, Simple
  <2>2. line' \in Seq(Sections) /\ Moves(line, line', 1, {s})
    BY <1>1, <2>1
  <2>3. \A k \in DOMAIN line' : Creates(k)' => line'[k] = s /\ k = Len(line')
    BY <1>4, <2>2, CreatesMoved
  <2>4. TerminalTypeOK'
    BY <1>2, <1>3, <1>8, <2>2 DEF TerminalTypeOK, Fds
  <2>5. Creation'
    BY <1>4, <1>8, <2>1, <2>3 DEF Creation, TerminalInv
  <2>6. Numbers'
    <3>1. Registering(t)'
      BY <2>1, <2>2 DEF Registering, Moves
    <3>2. fd'[t] = f /\ (\A u \in Terms : u # t => fd'[u] = fd[u]) /\ owner'[f] = t
          /\ \A g \in Fds : g # f => owner'[g] = owner[g]
      BY <1>3, <1>8 DEF TerminalTypeOK
    <3>3. ASSUME NEW g \in Fds, NEW u, u = owner'[g], u # Nobody PROVE fd'[u] = g /\ (u \in Live' \/ u = t)
      <4>1. CASE g = f
        BY <3>2, <3>3, <4>1
      <4>2. CASE g # f
        <5>1. u \in Terms /\ u = owner[g]
          BY <1>3, <3>2, <3>3, <4>2 DEF TerminalTypeOK
        <5>2. fd[u] = g /\ u \in Live
          BY <1>5, <3>3, <5>1 DEF TerminalInv, Numbers
        <5> QED BY <1>4, <1>8, <3>2, <5>1, <5>2 DEF Live
      <4> QED BY <4>1, <4>2
    <3>4. ASSUME NEW u \in Terms, reader'[u] # "off" \/ Registering(u)' PROVE fd'[u] \in Fds
      <4>1. Registering(u)' => u = t
        BY <2>1, <2>3 DEF Registering, Creates
      <4> QED BY <1>2, <3>2, <3>4, <4>1 DEF TerminalInv, Numbers
    <3>5. Fds' = Fds
      BY DEF Fds
    <3> QED BY <3>1, <3>3, <3>4, <3>5 DEF Numbers
  <2>7. Ending'
    BY <1>8, <2>1, <2>2, EndsMoved
  <2>8. ASSUME NEW u \in Terms PROVE Owned(u)'
    BY <1>1, <1>2, <1>8, <2>1, <2>2, LeftAlone, Unfolded
  <2>9. Feeding'
    BY <1>2, FedAsBefore
  <2>10. Joined'
    <3>1. ASSUME NEW c \in Clients
          PROVE  /\ client'[c].st = "on" => client[c].st = "on" /\ sess'[client[c].t] \in Alive
                 /\ client'[c].st = "ending" => client[c].st = "ending" /\ sess'[client[c].t] = sess[client[c].t]
      BY <1>2, <1>8 DEF TerminalInv, Joined, Live, Alive
    <3> QED BY <1>2, <2>1, <2>2, <3>1, JoinedAsBefore
  <2> QED BY <2>4, <2>5, <2>6, <2>7, <2>8, <2>9, <2>10, Folded DEF TerminalInv
<1>9. \E f \in Fds : owner[f] = Nobody /\ \A g \in 1..(f - 1) : owner[g] # Nobody
  BY <1>4, <1>5, NumberIsFree
<1>10. CASE Cardinality(Live) >= MaxSessions
  BY <1>1, <1>7, <1>10 DEF Check
<1>11. CASE ~(Cardinality(Live) >= MaxSessions)
  <2> DEFINE f == CHOOSE f \in Fds : owner[f] = Nobody /\ \A g \in 1..(f - 1) : owner[g] # Nobody
  <2>1. f \in Fds /\ owner[f] = Nobody
    BY <1>9
  <2>2. /\ fd' = [fd EXCEPT ![t] = f] /\ owner' = [owner EXCEPT ![f] = t]
        /\ Again(Simple("register", t)) /\ UNCHANGED <<sess, making>>
    BY <1>1, <1>11 DEF Check
  <2> HIDE DEF f
  <2> QED BY <1>8, <2>1, <2>2
<1> QED BY <1>10, <1>11

(* A websocket is accepted: no other section attaches it.                   *)
LEMMA WebsocketStep ==
  ASSUME TerminalInv, NEW c \in Clients, NEW t \in Terms, _handle_terminal_websocket(c, t)
  PROVE  TerminalInv'
<1> PICK s : s = Section("attach", t, c, <<>>, "flush")
  OBVIOUS
<1>1. s \in Sections /\ s.do = "attach" /\ s.t = t /\ s.c = c /\ line' = Append(line, s)
  BY PlainSection, Unchanging DEF _handle_terminal_websocket
<1>2. Moves(line, line', 0, {s}) /\ line' \in Seq(Sections)
  BY <1>1, Unchanging
<1>3. /\ client[c].st = "off" /\ t \in Live
      /\ UNCHANGED <<sess, fd, owner, reader, stop, made, lost, thr, drain, pend, handle, sched, shown, making, closes>>
  BY DEF _handle_terminal_websocket, feed, batches
<1>4. /\ client' \in [Clients -> ClientRecords] /\ client'[c].st = "accepted" /\ client'[c].t = t
      /\ \A e \in Clients : e # c => client'[e] = client[e]
  <2>1. client[c] \in ClientRecords /\ client \in [Clients -> ClientRecords]
    BY Unchanging
  <2>2. client' = [client EXCEPT ![c] = [[@ EXCEPT !.st = "accepted"] EXCEPT !.t = t]]
    BY <2>1 DEF _handle_terminal_websocket
  <2> PICK r : r = [[client[c] EXCEPT !.st = "accepted"] EXCEPT !.t = t]
    OBVIOUS
  <2>3. r \in ClientRecords /\ r.st = "accepted" /\ r.t = t
    BY <2>1 DEF ClientRecords
  <2> QED BY <2>1, <2>2, <2>3
<1>5. TerminalTypeOK /\ Joined
  BY DEF TerminalInv
<1>6. TerminalTypeOK'
  BY <1>2, <1>3, <1>4, <1>5 DEF TerminalTypeOK, ClientRecords, Fds
<1>7. Creation' /\ Numbers' /\ Ending'
  <2>1. \A r \in {s} : r.do = "attach" /\ r.t \in Terms
    BY <1>1
  <2>2. Live' = Live
    BY <1>3 DEF Live
  <2> QED BY <1>2, <1>3, <2>1, <2>2, NothingCreated
<1>8. \A u \in Terms : Owned(u)'
  BY <1>1, <1>2, <1>3, LeftAlone, Unfolded
<1>9. Feeding'
  BY <1>3, <1>4, FedAsBefore
<1>10. Joined'
  <2>1. ASSUME NEW e \in Clients
        PROVE  /\ client'[e].st = "off" => client'[e].t = Nobody
               /\ client'[e].st = "on" => client'[e].t \in Live'
               /\ client'[e].st = "ending" => client'[e].t \in Terms /\ sess'[client'[e].t] = "gone"
    BY <1>3, <1>4, <1>5 DEF Joined, Live
  <2>2. ASSUME NEW k \in DOMAIN line', line'[k].do = "attach"
        PROVE  line'[k].c \in Clients /\ client'[line'[k].c].t = line'[k].t
    <3>1. CASE line'[k] = s
      BY <1>1, <1>4, <3>1
    <3>2. CASE k + 0 \in DOMAIN line /\ line'[k] = line[k + 0]
      <4>1. line[k + 0].c \in Clients /\ client[line[k + 0].c].t = line[k + 0].t
        BY <1>5, <2>2, <3>2 DEF Joined
      <4>2. line[k + 0].t \in Terms /\ Nobody \notin Terms
        BY <1>5, <3>2, SectionTypes, TerminalAssumption DEF TerminalTypeOK
      <4>3. line[k + 0].c # c
        BY <1>3, <1>5, <4>1, <4>2 DEF Joined
      <4> QED BY <1>4, <3>2, <4>1, <4>3
    <3> QED BY <1>2, <3>1, <3>2 DEF Moves
  <2> QED BY <2>1, <2>2 DEF Joined
<1> QED BY <1>6, <1>7, <1>8, <1>9, <1>10, Folded DEF TerminalInv

(* Steps that leave the clients and the stages of the sessions as they are  *)
LEMMA OutputStep ==
  ASSUME TerminalInv, TerminalTypeOK', NEW h, NEW X, Moves(line, line', h, X),
         UNCHANGED <<sess, fd, owner, making, shown, client>>,
         \A u \in Terms : reader[u] = "off" => reader'[u] = "off",
         h = 1 => line[1].do \notin {"check", "register"},
         \A s \in X : /\ s.do \notin {"check", "register", "attach"} /\ s.t \in Terms
                      /\ s.do = "pop" \/ (s.do \in {"flush", "cast"} /\ s.by # "flush") => sess[s.t] \in {"closing", "gone"},
         \A u \in Terms : Owned(u)'
  PROVE  TerminalInv'
<1>1. Creation' /\ Numbers' /\ Ending'
  <2>1. Live' = Live
    BY DEF Live
  <2> QED BY <2>1, NothingCreated
<1>2. Feeding'
  BY FedAsBefore
<1>3. Joined'
  <2>1. \A c \in Clients : client[c].st = "on" => sess'[client[c].t] \in Alive
    BY DEF TerminalInv, Joined, Live
  <2> QED BY <2>1, JoinedAsBefore
<1> QED BY <1>1, <1>2, <1>3, Folded DEF TerminalInv

(* Something is read: it is the next output of its terminal, or lost.       *)
LEMMA ReaderReadStep ==
  ASSUME TerminalInv, NEW t \in Terms, ReaderRead(t)
  PROVE  TerminalInv'
<1>1. UNCHANGED <<sess, fd, owner, stop, pend, handle, sched, shown, client, making, closes>> /\ reader[t] = "read"
  BY DEF ReaderRead, batches
<1>2. TerminalTypeOK
  BY DEF TerminalInv
<1>3. fd[t] \in Fds
  BY <1>1 DEF TerminalInv, Numbers
<1> PICK u \in Terms \cup {Nobody} : u = owner[fd[t]]
  BY <1>2, <1>3 DEF TerminalTypeOK
<1>4. CASE /\ u # Nobody /\ made' = [made EXCEPT ![u] = @ + 1]
           /\ IF u = t
              THEN Queued(t, made[t] + 1)
              ELSE lost' = [lost EXCEPT ![u] = @ \cup {made[u] + 1}] /\ UNCHANGED <<thr, drain>>
           /\ reader' = [reader EXCEPT ![t] = "loop"]
           /\ UNCHANGED line
  <2>0. u \in Terms
    BY <1>4
  <2> PICK m \in Nat : m = made[u]
    BY <1>2, <2>0 DEF TerminalTypeOK
  <2>1. /\ made' \in [Terms -> Nat] /\ made'[u] = m + 1 /\ \A e \in Terms : e # u => made'[e] = made[e]
        /\ reader' \in [Terms -> {"off", "loop", "read", "done"}]
        /\ \A e \in Terms : reader[e] = "off" => reader'[e] = "off"
    <3>1. made' = [made EXCEPT ![u] = m + 1] /\ made \in [Terms -> Nat] /\ m + 1 \in Nat
      BY <1>2, <1>4 DEF TerminalTypeOK
    <3>2. /\ reader' = [reader EXCEPT ![t] = "loop"] /\ reader[t] = "read"
          /\ reader \in [Terms -> {"off", "loop", "read", "done"}]
      BY <1>1, <1>2, <1>4 DEF TerminalTypeOK
    <3>3. made' \in [Terms -> Nat] /\ made'[u] = m + 1 /\ \A e \in Terms : e # u => made'[e] = made[e]
      BY ONLY <2>0, <3>1, m \in Nat
    <3>4. /\ reader' \in [Terms -> {"off", "loop", "read", "done"}]
          /\ \A e \in Terms : reader[e] = "off" => reader'[e] = "off"
      BY <3>2
    <3> QED BY <3>3, <3>4
  <2>2. Moves(line, line', 0, {})
    BY <1>4, Unchanging
  <2>3. /\ shown[u] \in Seq(Nat) /\ pend[u] \in Seq(Nat) /\ thr[u] \in Seq(Nat) /\ Owned(u) /\ lost[u] \subseteq 1..m
    BY <1>2, <2>0, Unfolded DEF TerminalTypeOK, Owned, Own
  <2>4. CASE lost' = [lost EXCEPT ![u] = @ \cup {m + 1}] /\ UNCHANGED <<thr, drain>>
    <3>1. lost'[u] = lost[u] \cup {m + 1} /\ (\A e \in Terms : e # u => lost'[e] = lost[e]) /\ lost' \in [Terms -> SUBSET Nat]
      BY <1>2, <2>0, <2>4 DEF TerminalTypeOK
    <3>2. TerminalTypeOK'
      BY <1>1, <1>2, <1>4, <2>1, <2>4, <3>1 DEF TerminalTypeOK, Fds
    <3>3. Owned(u)'
      <4>1. sess[u] \in Alive => Good(u, shown[u], pend[u], thr[u], line, m + 1, lost[u] \cup {m + 1})
        BY <2>3, WasRead DEF Owned, Own
      <4>2. lost[u] \cup {m + 1} \subseteq 1..(m + 1) /\ (lost[u] = 1..m => lost[u] \cup {m + 1} = 1..(m + 1))
        BY <2>3
      <4> QED BY <1>1, <1>4, <2>1, <2>3, <2>4, <3>1, <4>1, <4>2 DEF Owned, Own
    <3>4. ASSUME NEW e \in Terms PROVE Owned(e)'
      <4>1. CASE e # u
        BY <1>1, <2>1, <2>2, <2>4, <3>1, <4>1, LeftAlone, Unfolded
      <4> QED BY <3>3, <4>1
    <3> QED BY <1>1, <2>1, <2>2, <3>2, <3>4, OutputStep
  <2>5. CASE /\ u = t /\ sess[t] = "open" /\ thr' = [thr EXCEPT ![t] = Append(@, m + 1)]
             /\ drain' = [drain EXCEPT ![t] = TRUE] /\ UNCHANGED lost
    <3>0. thr[t] \in Seq(Nat) /\ m + 1 \in Nat
      BY <2>3, <2>5
    <3> PICK R \in Seq(Nat) : R = Append(thr[t], m + 1)
      BY <3>0, OneMore
    <3>1. thr'[t] = R /\ (\A e \in Terms : e # t => thr'[e] = thr[e]) /\ thr' \in [Terms -> Seq(Nat)]
          /\ drain' \in [Terms -> BOOLEAN]
      BY <1>2, <2>5 DEF TerminalTypeOK
    <3>2. TerminalTypeOK'
      BY <1>1, <1>2, <1>4, <2>1, <2>5, <3>1 DEF TerminalTypeOK, Fds
    <3>3. Owned(t)'
      <4>0. /\ shown[t] \in Seq(Nat) /\ pend[t] \in Seq(Nat) /\ lost[t] \subseteq 1..m
            /\ Good(t, shown[t], pend[t], thr[t], line, m, lost[t])
        BY <2>3, <2>5 DEF Owned, Own, Alive
      <4>1. Good(t, shown[t], pend[t], R, line, m + 1, lost[t])
        BY <3>0, <4>0, WasRead
      <4>2. lost[t] \subseteq 1..(m + 1)
        BY <2>3, <2>5
      <4> QED BY <1>1, <1>4, <2>1, <2>5, <3>1, <4>1, <4>2 DEF Owned, Own
    <3>4. ASSUME NEW e \in Terms PROVE Owned(e)'
      <4>1. CASE e # t
        <5>1. /\ sess'[e] = sess[e] /\ shown'[e] = shown[e] /\ pend'[e] = pend[e] /\ thr'[e] = thr[e]
              /\ made'[e] = made[e] /\ lost'[e] = lost[e]
          BY <1>1, <2>1, <2>5, <3>1, <4>1
        <5> QED BY <2>2, <5>1, LeftAlone, Unfolded
      <4> QED BY <3>3, <4>1
    <3> QED BY <1>1, <2>1, <2>2, <3>2, <3>4, OutputStep
  <2> QED BY <1>4, <2>4, <2>5 DEF Queued
<1>5. CASE reader' = [reader EXCEPT ![t] = "loop"] /\ UNCHANGED <<made, lost, thr, drain, line>>
  <2>1. reader' \in [Terms -> {"off", "loop", "read", "done"}] /\ \A e \in Terms : reader[e] = "off" => reader'[e] = "off"
    BY <1>1, <1>5, Unchanging
  <2> QED BY <1>1, <1>5, <2>1, QuietStep, Unchanging DEF Unheard
<1>6. CASE ReaderEnds(t) /\ UNCHANGED <<made, lost, thr, drain>>
  BY <1>1, <1>6, ReaderEndsStep DEF batches
<1> QED BY <1>4, <1>5, <1>6 DEF ReaderRead

(* What the reader left becomes pending.                                    *)
LEMMA DrainStep ==
  ASSUME TerminalInv, NEW t \in Terms, Drain(t)
  PROVE  TerminalInv'
<1>1. /\ drain' = [drain EXCEPT ![t] = FALSE] /\ thr' = [thr EXCEPT ![t] = <<>>]
      /\ UNCHANGED <<sess, fd, owner, reader, stop, made, lost, shown, client, making, closes>>
  BY DEF Drain
<1>2. TerminalTypeOK /\ Owned(t)
  BY Unfolded DEF TerminalInv
<1>3. drain' \in [Terms -> BOOLEAN] /\ thr' \in [Terms -> Seq(Nat)] /\ thr'[t] = <<>> /\ \A e \in Terms : e # t => thr'[e] = thr[e]
  BY <1>1, <1>2, NoOutput DEF TerminalTypeOK
<1>4. CASE thr[t] = <<>> \/ sess[t] # "open"
  <2>1. thr[t] = <<>>
    BY <1>2, <1>4 DEF Owned, Own
  <2>2. thr' = thr
    BY <1>1, <1>2, <2>1 DEF TerminalTypeOK
  <2>3. UNCHANGED <<pend, handle, sched, line>>
    BY <1>4 DEF Drain, batches
  <2> QED BY <1>1, <1>3, <2>2, <2>3, QuietStep, Unchanging DEF Unheard
<1>5. CASE thr[t] # <<>> /\ sess[t] = "open"
  <2>1. Collect(t, thr[t])
    BY <1>5 DEF Drain
  <2> PICK P \in Seq(Nat) : P = pend[t] \o thr[t]
    BY <1>2, Parts DEF TerminalTypeOK
  <2>2. /\ pend' = [pend EXCEPT ![t] = P] /\ sched' = [sched EXCEPT ![t] = TRUE]
        /\ handle' = handle \/ handle' = [handle EXCEPT ![t] = IF @ = "none" THEN "armed" ELSE @]
        /\ line' = line \/ line' = Append(line, Simple("flush", t))
    BY <2>1 DEF Collect
  <2>3. /\ pend' \in [Terms -> Seq(Nat)] /\ pend'[t] = P /\ \A e \in Terms : e # t => pend'[e] = pend[e]
        /\ sched' \in [Terms -> BOOLEAN] /\ handle' \in [Terms -> {"none", "armed", "fired"}]
    <3>1. /\ pend \in [Terms -> Seq(Nat)] /\ sched \in [Terms -> BOOLEAN]
          /\ handle \in [Terms -> {"none", "armed", "fired"}]
      BY <1>2 DEF TerminalTypeOK
    <3>2. pend' \in [Terms -> Seq(Nat)] /\ pend'[t] = P /\ \A e \in Terms : e # t => pend'[e] = pend[e]
      BY <2>2, <3>1
    <3>3. sched' \in [Terms -> BOOLEAN]
      BY <2>2, <3>1
    <3>4. handle' \in [Terms -> {"none", "armed", "fired"}]
      BY <2>2, <3>1
    <3> QED BY <3>2, <3>3, <3>4
  <2> PICK s : s = Simple("flush", t)
    OBVIOUS
  <2>4. s \in Sections /\ s.do = "flush" /\ s.by = "flush" /\ s.t = t
    BY PlainSection, Unchanging DEF Simple
  <2>5. PICK X \in {{}, {s}} : line' \in Seq(Sections) /\ Moves(line, line', 0, X)
    BY <2>2, <2>4, Unchanging
  <2>6. \A r \in X : r = s
    OBVIOUS
  <2>7. TerminalTypeOK'
    BY <1>1, <1>2, <1>3, <2>3, <2>5 DEF TerminalTypeOK, Fds
  <2>8. Owned(t)'
    <3>1. Follows(line, line', t, 0)
      BY <2>4, <2>5, <2>6, FollowsMoves
    <3>2. shown[t] \in Seq(Nat) /\ pend[t] \in Seq(Nat) /\ thr[t] \in Seq(Nat)
      BY <1>2 DEF TerminalTypeOK
    <3>3. Good(t, shown[t], pend[t], thr[t], line, made[t], lost[t])
      BY <1>2, <1>5 DEF Owned, Own, Alive
    <3>4. Good(t, shown[t], pend[t], thr[t], line', made[t], lost[t])
      BY <3>1, <3>3, SameOutput
    <3>5. Good(t, shown[t], P, <<>>, line', made[t], lost[t])
      BY <3>2, <3>4, TakenOver
    <3> QED BY <1>1, <1>2, <1>3, <1>5, <2>3, <3>5 DEF Owned, Own
  <2>9. ASSUME NEW e \in Terms PROVE Owned(e)'
    <3>1. CASE e # t
      <4>1. /\ sess'[e] = sess[e] /\ shown'[e] = shown[e] /\ pend'[e] = pend[e] /\ thr'[e] = thr[e]
            /\ made'[e] = made[e] /\ lost'[e] = lost[e]
        BY <1>1, <1>3, <2>3, <3>1
      <4>2. \A r \in X : ~(r.do = "cast" /\ r.t = e)
        BY <2>4, <2>6
      <4> QED BY <2>5, <4>1, <4>2, LeftAlone, Unfolded
    <3> QED BY <2>8, <3>1
  <2> QED BY <1>1, <2>4, <2>5, <2>6, <2>7, <2>9, OutputStep
<1> QED BY <1>4, <1>5

Leads(X, t) == \A s \in X : s \in Sections /\ s.t = t /\ s.do = "pop" /\ sess[t] \in {"closing", "gone"}

(* What comes after a section                                               *)
LEMMA AfterwardsMoves ==
  ASSUME TerminalInv, NEW do \in {"flush", "cast"}, Turn(do), NEW t \in Terms, t = line[1].t,
         Afterwards(line[1], t)
  PROVE  \E X : line' \in Seq(Sections) /\ Moves(line, line', 1, X) /\ Leads(X, t)
<1>1. /\ 1 \in DOMAIN line /\ line[1].do = do /\ line[1].by \in {"flush", "finish", "close"}
      /\ Tail(line) \in Seq(Sections) /\ Moves(line, Tail(line), 1, {})
      /\ \A s \in Sections : Append(Tail(line), s) \in Seq(Sections) /\ Moves(line, Append(Tail(line), s), 1, {s})
  BY FirstSection
<1>2. CASE line[1].by = "flush"
  <2>1. line' = Tail(line)
    BY <1>2 DEF Afterwards, Done
  <2>2. Leads({}, t)
    BY DEF Leads
  <2> QED BY <1>1, <2>1, <2>2
<1>3. CASE line[1].by # "flush"
  <2> PICK s : s = Section("pop", t, Nobody, <<>>, line[1].by)
    OBVIOUS
  <2>1. s \in Sections /\ s.do = "pop" /\ s.t = t
    BY <1>1, PlainSection
  <2>2. line' = Append(Tail(line), s)
    BY <1>3 DEF Afterwards, Again
  <2>3. sess[t] \in {"closing", "gone"}
    BY <1>1, <1>3, Unfolded DEF Ending, Ends
  <2>4. Leads({s}, t)
    BY <2>1, <2>3 DEF Leads
  <2> QED BY <1>1, <2>1, <2>2, <2>4
<1> QED BY <1>2, <1>3

(* What is pending becomes the last batch of the line.                      *)
LEMMA FlushStep ==
  ASSUME TerminalInv, Flush
  PROVE  TerminalInv'
<1> PICK t \in Terms : t = line[1].t
  BY FirstSection DEF Flush
<1>0. Turn("flush")
  BY DEF Flush
<1>1. /\ 1 \in DOMAIN line /\ line[1].do = "flush" /\ line[1] = Head(line) /\ line[1].by \in {"flush", "finish", "close"}
      /\ Tail(line) \in Seq(Sections) /\ Moves(line, Tail(line), 1, {})
      /\ \A s \in Sections : Append(Tail(line), s) \in Seq(Sections) /\ Moves(line, Append(Tail(line), s), 1, {s})
  BY <1>0, FirstSection
<1>2. UNCHANGED <<sess, fd, owner, reader, stop, made, lost, thr, drain, shown, client, making, closes>>
  BY DEF Flush, feed
<1>3. TerminalTypeOK /\ Owned(t)
  BY Unfolded DEF TerminalInv
<1>4. CASE t \notin Live
  <2>1. line' = Tail(line) /\ UNCHANGED <<pend, handle, sched>>
    BY <1>1, <1>4 DEF Flush, Done, batches
  <2> QED BY <1>1, <1>2, <2>1, QuietStep, Unchanging DEF Unheard
<1>5. CASE t \in Live
  <2>1. /\ handle' = [handle EXCEPT ![t] = "none"] /\ sched' = [sched EXCEPT ![t] = FALSE]
        /\ pend' = [pend EXCEPT ![t] = <<>>]
        /\ IF pend[t] = <<>>
           THEN Afterwards(line[1], t)
           ELSE Again(Section("cast", t, Nobody, pend[t], line[1].by))
    BY <1>1, <1>5 DEF Flush
  <2>2. /\ handle' \in [Terms -> {"none", "armed", "fired"}] /\ sched' \in [Terms -> BOOLEAN]
        /\ pend' \in [Terms -> Seq(Nat)] /\ pend'[t] = <<>> /\ \A e \in Terms : e # t => pend'[e] = pend[e]
    BY <1>3, <2>1, NoOutput DEF TerminalTypeOK
  <2>3. CASE pend[t] = <<>>
    <3>1. pend' = pend
      BY <1>3, <2>1, <2>3 DEF TerminalTypeOK
    <3>2. PICK X : line' \in Seq(Sections) /\ Moves(line, line', 1, X) /\ Leads(X, t)
      BY <1>0, <2>1, <2>3, AfterwardsMoves
    <3>3. \A s \in X : Harmless(s)
      BY <3>2 DEF Leads, Harmless
    <3> QED BY <1>1, <1>2, <2>2, <3>1, <3>2, <3>3, QuietStep, Unchanging DEF Unheard
  <2>4. CASE pend[t] # <<>>
    <3> PICK P \in Seq(Nat) : P = pend[t]
      BY <1>3 DEF TerminalTypeOK
    <3> PICK by \in {"flush", "finish", "close"} : by = line[1].by
      BY <1>1
    <3> PICK s : s = Section("cast", t, Nobody, P, by)
      OBVIOUS
    <3>1. s \in Sections /\ s.do = "cast" /\ s.t = t /\ s.d = P /\ s.by = by
      BY DEF Section, Sections
    <3>2. line' = Append(Tail(line), s)
      BY <2>1, <2>4 DEF Again
    <3>3. line' \in Seq(Sections) /\ Moves(line, line', 1, {s})
      BY <1>1, <3>1, <3>2
    <3>4. TerminalTypeOK'
      BY <1>2, <1>3, <2>2, <3>3 DEF TerminalTypeOK, Fds
    <3>5. Owned(t)'
      <4> PICK n : n = Len(line')
        OBVIOUS
      <4>1. n \in CastsIn(line', t) /\ n \in Nat /\ line'[n].d = P
        BY <3>1, <3>3 DEF Moves, CastsIn
      <4>2. \A k \in DOMAIN line' : k <= n
        BY <3>3
      <4>3. \A k \in CastsIn(line', t) : k = n \/ (k < n /\ k \in Nat /\ k + 1 \in CastsIn(line, t) /\ line'[k].d = line[k + 1].d)
        BY <3>3, <4>1, <4>2 DEF Moves, CastsIn
      <4>4. \A k \in CastsIn(line, t) : k - 1 \in CastsIn(line', t) /\ line'[k - 1].d = line[k].d
        BY <1>1, <3>3 DEF Moves, CastsIn
      <4>5. Good(t, shown[t], P, thr[t], line, made[t], lost[t])
        BY <1>3, <1>5 DEF Owned, Own, Live
      <4> EndsWith(t, P, line, line', n)
        BY <4>1, <4>3, <4>4 DEF EndsWith
      <4>6. Good(t, shown[t], <<>>, thr[t], line', made[t], lost[t])
        BY <4>1, <4>5, BatchTaken
      <4>7. sess[t] \notin {"none", "making"}
        BY <1>5 DEF Live, Alive
      <4> QED BY <1>2, <1>3, <2>2, <4>6, <4>7 DEF Owned, Own
    <3>6. ASSUME NEW e \in Terms PROVE Owned(e)'
      <4>1. CASE e # t
        <5>1. /\ sess'[e] = sess[e] /\ shown'[e] = shown[e] /\ pend'[e] = pend[e] /\ thr'[e] = thr[e]
              /\ made'[e] = made[e] /\ lost'[e] = lost[e]
          BY <1>2, <2>2, <4>1
        <5> QED BY <1>1, <3>1, <3>3, <4>1, <5>1, LeftAlone, Unfolded
      <4> QED BY <3>5, <4>1
    <3>7. by # "flush" => sess[t] \in {"closing", "gone"}
      BY <1>1, Unfolded DEF Ending, Ends
    <3> QED BY <1>1, <1>2, <3>1, <3>3, <3>4, <3>6, <3>7, OutputStep
  <2> QED BY <2>3, <2>4
<1> QED BY <1>4, <1>5

(* The session is closing, and nothing is left with the reader.             *)
LEMMA MarkStep ==
  ASSUME TerminalInv, Mark
  PROVE  TerminalInv'
<1> PICK t \in Terms : t = line[1].t
  BY FirstSection DEF Mark
<1>1. /\ 1 \in DOMAIN line /\ line[1].do = "mark" /\ line[1] = Head(line) /\ line[1] \in Sections
      /\ Tail(line) \in Seq(Sections) /\ Moves(line, Tail(line), 1, {})
      /\ \A s \in Sections : Append(Tail(line), s) \in Seq(Sections) /\ Moves(line, Append(Tail(line), s), 1, {s})
  BY FirstSection DEF Mark
<1>2. UNCHANGED <<fd, owner, reader, stop, made, lost, drain, handle, sched, shown, client, making, closes>>
  BY DEF Mark
<1>3. TerminalTypeOK /\ Owned(t)
  BY Unfolded DEF TerminalInv
<1>4. CASE t \notin Live
  <2>1. line' = Tail(line) /\ UNCHANGED <<sess, thr, pend>>
    BY <1>1, <1>4 DEF Mark, Done
  <2> QED BY <1>1, <1>2, <2>1, QuietStep, Unchanging DEF Unheard
<1>5. CASE t \in Live
  <2>0. /\ [line[1] EXCEPT !.do = "flush"] \in Sections /\ [line[1] EXCEPT !.do = "flush"].do = "flush"
        /\ [line[1] EXCEPT !.do = "flush"].t = t /\ line' = Append(Tail(line), [line[1] EXCEPT !.do = "flush"])
    BY <1>1, <1>5 DEF Sections, Mark, Again
  <2>1. PICK s : s \in Sections /\ s.do = "flush" /\ s.t = t /\ line' = Append(Tail(line), s)
    BY <2>0
  <2> PICK P \in Seq(Nat) : P = pend[t] \o thr[t]
    BY <1>3, Parts DEF TerminalTypeOK
  <2>2. /\ sess' = [sess EXCEPT ![t] = "closing"] /\ pend' = [pend EXCEPT ![t] = P]
        /\ thr' = [thr EXCEPT ![t] = <<>>]
    BY <1>1, <1>5 DEF Mark
  <2>3. line' \in Seq(Sections) /\ Moves(line, line', 1, {s})
    BY <1>1, <2>1
  <2>4. /\ pend' \in [Terms -> Seq(Nat)] /\ pend'[t] = P /\ thr' \in [Terms -> Seq(Nat)] /\ thr'[t] = <<>>
        /\ sess'[t] = "closing" /\ \A e \in Terms : e # t => pend'[e] = pend[e] /\ thr'[e] = thr[e] /\ sess'[e] = sess[e]
        /\ sess[t] \in Alive
    BY <1>3, <1>5, <2>2, NoOutput DEF TerminalTypeOK, Live
  <2>5. TerminalTypeOK'
    BY <1>2, <1>3, <2>2, <2>3, <2>4 DEF TerminalTypeOK, Fds
  <2>6. Live' = Live
    BY <2>4 DEF Live, Alive
  <2>7. Creation' /\ Numbers' /\ Ending'
    <3>1. \A r \in {s} : r.do = "flush" /\ r.t \in Terms /\ sess'[r.t] \in {"closing", "gone"}
      BY <2>1, <2>4
    <3>2. \A e \in Terms : sess'[e] = sess[e] \/ (sess[e] \in Alive /\ sess'[e] \in {"closing", "gone"})
      BY <2>4
    <3> QED BY <1>1, <1>2, <2>3, <2>6, <3>1, <3>2, NothingCreated
  <2>8. Owned(t)'
    <3>1. Follows(line, line', t, 1)
      BY <1>1, <2>1, <2>3, FollowsMoves
    <3>2. shown[t] \in Seq(Nat) /\ pend[t] \in Seq(Nat) /\ thr[t] \in Seq(Nat)
      BY <1>3 DEF TerminalTypeOK
    <3>3. Good(t, shown[t], pend[t], thr[t], line, made[t], lost[t])
      BY <1>3, <2>4 DEF Owned, Own
    <3>4. Good(t, shown[t], pend[t], thr[t], line', made[t], lost[t])
      BY <3>1, <3>3, SameOutput
    <3>5. Good(t, shown[t], P, <<>>, line', made[t], lost[t])
      BY <3>2, <3>4, TakenOver
    <3> QED BY <1>2, <1>3, <2>4, <3>5 DEF Owned, Own
  <2>9. ASSUME NEW e \in Terms PROVE Owned(e)'
    <3>1. CASE e # t
      <4>1. /\ sess'[e] = sess[e] /\ shown'[e] = shown[e] /\ pend'[e] = pend[e] /\ thr'[e] = thr[e]
            /\ made'[e] = made[e] /\ lost'[e] = lost[e]
        BY <1>2, <2>4, <3>1
      <4> QED BY <1>1, <2>1, <2>3, <4>1, LeftAlone, Unfolded
    <3> QED BY <2>8, <3>1
  <2>10. Feeding'
    BY <1>2, FedAsBefore
  <2>11. Joined'
    <3>1. ASSUME NEW c \in Clients
          PROVE  /\ client'[c].st = "on" => client[c].st = "on" /\ sess'[client[c].t] \in Alive
                 /\ client'[c].st = "ending" => client[c].st = "ending" /\ sess'[client[c].t] = sess[client[c].t]
      <4>1. client'[c].st = "on" => client[c].st = "on" /\ client[c].t \in Live'
        BY <1>2, <2>6 DEF TerminalInv, Joined
      <4>2. client'[c].st = "ending" => client[c].st = "ending" /\ client[c].t \in Terms /\ client[c].t # t
        BY <1>2, <2>4 DEF TerminalInv, Joined, Alive
      <4> QED BY <2>4, <4>1, <4>2 DEF Live
    <3> QED BY <1>2, <2>1, <2>3, <3>1, JoinedAsBefore
  <2> QED BY <2>5, <2>7, <2>9, <2>10, <2>11, Folded DEF TerminalInv
<1> QED BY <1>4, <1>5

(* The session goes: its number stands for nothing, its clients end.        *)
LEMMA PopStep ==
  ASSUME TerminalInv, Pop
  PROVE  TerminalInv'
<1> PICK t \in Terms : t = line[1].t
  BY FirstSection DEF Pop
<1>1. /\ 1 \in DOMAIN line /\ line[1].do = "pop" /\ line[1] = Head(line)
      /\ line' = Tail(line) /\ line' \in Seq(Sections) /\ Moves(line, line', 1, {})
  BY FirstSection DEF Pop, Done
<1>2. UNCHANGED <<fd, reader, made, lost, thr, drain, pend, sched, shown, making, closes>>
  BY DEF Pop
<1>3. TerminalTypeOK /\ Owned(t) /\ Ending /\ client \in [Clients -> ClientRecords]
  BY Unfolded, Unchanging DEF TerminalInv
<1>4. CASE t \notin Live
  <2>1. UNCHANGED <<sess, client, handle, stop, owner>>
    BY <1>1, <1>4 DEF Pop
  <2> QED BY <1>1, <1>2, <2>1, QuietStep, Unchanging DEF Unheard
<1>5. CASE t \in Live
  <2>1. /\ sess' = [sess EXCEPT ![t] = "gone"] /\ client' = TakenOut(t)
        /\ handle' = [handle EXCEPT ![t] = "none"] /\ stop' = [stop EXCEPT ![t] = TRUE]
        /\ owner' = [owner EXCEPT ![fd[t]] = Nobody]
    BY <1>1, <1>5 DEF Pop
  <2>2. sess[t] = "closing"
    BY <1>1, <1>3, <1>5 DEF Ending, Ends, Live, Alive
  <2>3. sess'[t] = "gone" /\ \A e \in Terms : e # t => sess'[e] = sess[e]
    BY <1>3, <2>1 DEF TerminalTypeOK
  <2>4. ASSUME NEW c \in Clients
        PROVE  /\ client'[c] \in ClientRecords
               /\ client'[c].t = client[c].t /\ client'[c].str = client[c].str /\ client'[c].slow = client[c].slow
               /\ \/ client[c].st = "on" /\ client[c].t = t /\ client'[c].st = "ending"
                  \/ ~(client[c].st = "on" /\ client[c].t = t) /\ client'[c].st = client[c].st
    <3>1. client[c] \in ClientRecords
      BY <1>3
    <3>2. CASE c \in On(t)
      <4>1. client'[c] = [client[c] EXCEPT !.st = "ending"]
        BY <2>1, <3>2 DEF TakenOut
      <4> QED BY <3>1, <3>2, <4>1 DEF On, ClientRecords
    <3>3. CASE c \notin On(t)
      <4>1. client'[c] = client[c]
        BY <2>1, <3>3 DEF TakenOut
      <4> QED BY <3>1, <3>3, <4>1 DEF On
    <3> QED BY <3>2, <3>3
  <2>5. client' \in [Clients -> ClientRecords]
    BY <2>1, <2>4 DEF TakenOut
  <2>6. TerminalTypeOK'
    BY <1>1, <1>2, <1>3, <2>1, <2>5 DEF TerminalTypeOK, Fds, ClientRecords
  <2>7. Creation' /\ Numbers' /\ Ending'
    <3>1. ASSUME NEW f \in Fds PROVE owner'[f] \in {owner[f], Nobody} /\ owner'[f] # t
      <4>1. owner[f] = t => fd[t] = f
        BY TerminalAssumption DEF TerminalInv, Numbers
      <4>2. owner'[f] = IF f = fd[t] THEN Nobody ELSE owner[f]
        BY <1>3, <2>1 DEF TerminalTypeOK
      <4> QED BY <4>1, <4>2, TerminalAssumption
    <3>2. ASSUME NEW e \in Live PROVE e \in Live' \/ (\A f \in Fds : owner'[f] # e)
      BY <2>3, <3>1 DEF Live
    <3>3. \A e \in Terms : sess'[e] = sess[e] \/ (sess[e] \in Alive /\ sess'[e] \in {"closing", "gone"})
      BY <2>2, <2>3 DEF Alive
    <3> QED BY <1>1, <1>2, <3>1, <3>2, <3>3, NothingCreated
  <2>8. Owned(t)'
    BY <1>2, <1>3, <2>2, <2>3 DEF Owned, Own, Alive
  <2>9. ASSUME NEW e \in Terms PROVE Owned(e)'
    <3>1. CASE e # t
      BY <1>1, <1>2, <2>3, <3>1, LeftAlone, Unfolded
    <3> QED BY <2>8, <3>1
  <2>10. Feeding'
    BY <1>2, <2>4, FedAsBefore
  <2>11. Joined'
    <3>1. ASSUME NEW c \in Clients
          PROVE  /\ client'[c].st = "off" => client[c].st = "off"
                 /\ client'[c].st = "on" => client[c].st = "on" /\ sess'[client[c].t] \in Alive
                 /\ client'[c].st = "ending" =>
                      \/ client[c].st = "ending" /\ sess'[client[c].t] = sess[client[c].t]
                      \/ client[c].st = "on" /\ sess'[client[c].t] = "gone"
      <4>1. client'[c].st = "on" => client[c].st = "on" /\ client[c].t \in Live /\ client[c].t # t
        BY <2>4 DEF TerminalInv, Joined
      <4>2. client[c].st = "ending" => client[c].t \in Terms /\ client[c].t # t
        BY <2>2 DEF TerminalInv, Joined
      <4> QED BY <2>3, <2>4, <4>1, <4>2 DEF Live
    <3> QED BY <1>1, <2>4, <3>1, JoinedAsBefore
  <2> QED BY <2>6, <2>7, <2>9, <2>10, <2>11, Folded DEF TerminalInv
<1> QED BY <1>4, <1>5

(* A history that is long enough stays so.                                  *)
LEMMA LongerStill ==
  ASSUME NEW a \in Seq(Nat), NEW d \in Seq(Nat), NEW h \in Nat, Len(a) >= h
  PROVE  Len(a \o d) >= h
<1>1. Len(a) \in Nat /\ Len(d) \in Nat /\ Len(a \o d) = Len(a) + Len(d)
  OBVIOUS
<1> QED BY <1>1

(* The first batch is shown, and offered to the clients.                    *)
LEMMA BroadcastStep ==
  ASSUME TerminalInv, Broadcast
  PROVE  TerminalInv'
<1> PICK t \in Terms : t = line[1].t
  BY FirstSection DEF Broadcast
<1> PICK d \in Seq(Nat) : d = line[1].d
  BY FirstSection DEF Broadcast
<1>0. Turn("cast")
  BY DEF Broadcast
<1>1. /\ 1 \in DOMAIN line /\ line[1].do = "cast" /\ line[1] = Head(line)
      /\ Tail(line) \in Seq(Sections) /\ Moves(line, Tail(line), 1, {})
  BY <1>0, FirstSection
<1>2. UNCHANGED <<sess, fd, owner, reader, stop, made, lost, thr, drain, pend, handle, sched, making, closes>>
  BY DEF Broadcast, feed, batches
<1>3. TerminalTypeOK /\ Owned(t) /\ client \in [Clients -> ClientRecords] /\ Feeding /\ Joined
  BY Unfolded, Unchanging DEF TerminalInv
<1>4. \A e \in Terms : e # t => ~(line[1].do = "cast" /\ line[1].t = e)
  OBVIOUS
<1>5. CASE t \notin Live
  <2>1. line' = Tail(line) /\ UNCHANGED <<shown, client>>
    BY <1>1, <1>5 DEF Broadcast, Done
  <2>2. line' \in Seq(Sections) /\ Moves(line, line', 1, {})
    BY <1>1, <2>1
  <2>3. TerminalTypeOK'
    BY <1>2, <1>3, <2>1, <2>2 DEF TerminalTypeOK, Fds
  <2>4. Owned(t)'
    <3>1. 1 \in CastsIn(line, t)
      BY <1>1 DEF CastsIn
    <3>2. sess[t] \notin {"none", "making"} /\ sess[t] \notin Alive
      BY <1>3, <1>5, <3>1 DEF Owned, Own, Live
    <3> QED BY <1>2, <1>3, <2>1, <3>2 DEF Owned, Own
  <2>5. ASSUME NEW e \in Terms PROVE Owned(e)'
    <3>1. CASE e # t
      BY <1>2, <1>4, <2>1, <2>2, <3>1, LeftAlone, Unfolded
    <3> QED BY <2>4, <3>1
  <2> QED BY <1>1, <1>2, <2>1, <2>2, <2>3, <2>5, OutputStep
<1>6. CASE t \in Live
  <2> PICK S \in Seq(Nat), Q \in Seq(Nat) : S = shown[t] /\ Q = S \o d
    BY <1>3, Parts DEF TerminalTypeOK
  <2>1. /\ shown' = [shown EXCEPT ![t] = Q]
        /\ client' = [c \in Clients |-> IF c \in On(t) THEN Offered(c, d) ELSE client[c]]
        /\ Afterwards(line[1], t)
    BY <1>1, <1>6 DEF Broadcast
  <2>2. PICK X : line' \in Seq(Sections) /\ Moves(line, line', 1, X) /\ Leads(X, t)
    BY <1>0, <2>1, AfterwardsMoves
  <2>3. shown' \in [Terms -> Seq(Nat)] /\ shown'[t] = Q /\ \A e \in Terms : e # t => shown'[e] = shown[e]
    BY <1>3, <2>1 DEF TerminalTypeOK
  <2>4. ASSUME NEW c \in Clients, c \in On(t)
        PROVE  /\ client'[c] \in ClientRecords /\ client'[c].st = client[c].st /\ client'[c].t = client[c].t
               /\ ~client'[c].slow => ~client[c].slow /\ client'[c].str = client[c].str \o d
    <3>1. client'[c] = Offered(c, d) /\ client[c] \in ClientRecords
      BY <1>3, <2>1, <2>4
    <3>2. CASE client[c].n >= QueueMax
      <4>1. client'[c] = [client[c] EXCEPT !.slow = TRUE]
        BY <3>1, <3>2 DEF Offered
      <4> QED BY <3>1, <4>1 DEF ClientRecords
    <3>3. CASE ~(client[c].n >= QueueMax)
      <4>0. client[c].str \in Seq(Nat) /\ client[c].n + 1 \in Nat
        BY <3>1 DEF ClientRecords
      <4> PICK r \in Seq(Nat), n \in Nat : r = client[c].str \o d /\ n = client[c].n + 1
        BY <4>0, Parts
      <4>1. client'[c] = [client[c] EXCEPT !.str = r, !.n = n]
        BY <3>1, <3>3 DEF Offered
      <4>2. /\ client'[c] \in ClientRecords /\ client'[c].st = client[c].st /\ client'[c].t = client[c].t
            /\ client'[c].slow = client[c].slow /\ client'[c].str = r
        BY <3>1, <4>1 DEF ClientRecords
      <4> QED BY <4>2
    <3> QED BY <3>2, <3>3
  <2>5. \A c \in Clients : c \notin On(t) => client'[c] = client[c]
    BY <2>1
  <2>6. client' \in [Clients -> ClientRecords]
    BY <1>3, <2>1, <2>4, <2>5
  <2>7. TerminalTypeOK'
    BY <1>2, <1>3, <2>2, <2>3, <2>6 DEF TerminalTypeOK, Fds, ClientRecords
  <2>8. Creation' /\ Numbers' /\ Ending'
    <3>1. \A s \in X : s.do = "pop" /\ s.t \in Terms /\ sess'[s.t] \in {"closing", "gone"}
      BY <1>2, <2>2 DEF Leads
    <3>2. Live' = Live
      BY <1>2 DEF Live
    <3>3. UNCHANGED <<fd, making>> /\ line[1].do \notin {"check", "register"}
      BY <1>1, <1>2
    <3>4. /\ \A s \in X : s.do \notin {"check", "register"}
          /\ \A s \in X : s.t \in Terms /\ (s.do = "pop" \/ (s.do \in {"flush", "cast"} /\ s.by # "flush") =>
                                              sess'[s.t] \in {"closing", "gone"})
      BY <3>1
    <3>5. \A u \in Terms : sess'[u] = sess[u] /\ (reader[u] = "off" => reader'[u] = "off")
      BY <1>2
    <3>6. \A f \in Fds : owner'[f] \in {owner[f], Nobody}
      BY <1>2
    <3>7. \A u \in Live : u \in Live'
      BY <3>2
    <3>8. Moves(line, line', 1, X)
      BY <2>2
    <3> QED BY ONLY TerminalInv, <3>3, <3>4, <3>5, <3>6, <3>7, <3>8, NothingCreated
  <2>9. Owned(t)'
    <3>1. \A s \in X : s.do # "cast"
      BY <2>2 DEF Leads
    <3>2. 1 \in CastsIn(line, t)
      BY <1>1 DEF CastsIn
    <3>3. \A k \in CastsIn(line', t) : k \in Nat /\ k > 0 /\ k + 1 \in CastsIn(line, t) /\ line'[k].d = line[k + 1].d
      BY <2>2, <3>1 DEF Moves, CastsIn
    <3>4. \A k \in CastsIn(line, t) : k = 1 \/ (k - 1 \in CastsIn(line', t) /\ line'[k - 1].d = line[k].d)
      BY <2>2 DEF Moves, CastsIn
    <3>5. Good(t, S, pend[t], thr[t], line, made[t], lost[t])
      BY <1>3, <1>6 DEF Owned, Own, Live
    <3>6. Good(t, Q, pend[t], thr[t], line', made[t], lost[t])
      <4>1. Good(t, S \o d, pend[t], thr[t], line', made[t], lost[t])
        <5>1. FirstTaken(t, line, line', d)
          BY <3>2, <3>3, <3>4 DEF FirstTaken
        <5> QED BY <3>5, <5>1, BatchShown
      <4> QED BY ONLY <4>1, Q = S \o d
    <3>7. sess[t] \notin {"none", "making"}
      BY <1>6 DEF Live, Alive
    <3> QED BY <1>2, <1>3, <2>3, <3>6, <3>7 DEF Owned, Own
  <2>10. ASSUME NEW e \in Terms PROVE Owned(e)'
    <3>1. CASE e # t
      <4>1. /\ sess'[e] = sess[e] /\ shown'[e] = shown[e] /\ pend'[e] = pend[e] /\ thr'[e] = thr[e]
            /\ made'[e] = made[e] /\ lost'[e] = lost[e]
        BY <1>2, <2>3, <3>1
      <4>2. \A s \in X : ~(s.do = "cast" /\ s.t = e)
        BY <2>2 DEF Leads
      <4> QED BY <1>4, <2>2, <3>1, <4>1, <4>2, LeftAlone, Unfolded
    <3> QED BY <2>9, <3>1
  <2>11. Feeding'
    <3> SUFFICES ASSUME NEW c \in Clients, client'[c].st \in {"on", "ending"}, ~client'[c].slow PROVE Fed(c)'
      BY DEF Feeding
    <3>1. CASE c \in On(t)
      <4>1. /\ client[c].st = "on" /\ client[c].t = t /\ client'[c].t = t /\ ~client[c].slow
            /\ client'[c].str = client[c].str \o d
        BY <2>4, <3>1 DEF On
      <4> PICK a \in Seq(Nat) : a = client[c].str
        BY <1>3 DEF ClientRecords
      <4>2. IsSuffix(a, S) /\ (Len(a) >= HistMax \/ a = S)
        BY <1>3, <4>1 DEF Feeding, Fed
      <4>3. IsSuffix(a \o d, Q)
        BY <4>2, SuffixFacts
      <4>4. Len(a \o d) >= HistMax \/ a \o d = Q
        BY <4>2, LongerStill, TerminalAssumption
      <4> QED BY <2>3, <4>1, <4>3, <4>4 DEF Fed
    <3>2. CASE c \notin On(t)
      <4>1. client'[c] = client[c]
        BY <2>5, <3>2
      <4>2. Fed(c)
        BY <1>3, <4>1 DEF Feeding
      <4>3. client[c].t \in Terms /\ client[c].t # t
        <5>1. client[c].st = "on" => client[c].t # t
          BY <3>2 DEF On
        <5>2. client[c].st = "ending" => client[c].t # t
          BY <1>3, <1>6 DEF Joined, Live, Alive
        <5> QED BY <1>3, <4>1, <5>1, <5>2 DEF Joined, Live
      <4> QED BY <2>3, <4>1, <4>2, <4>3 DEF Fed
    <3> QED BY <3>1, <3>2
  <2>12. Joined'
    <3>1. \A c \in Clients : client'[c].t = client[c].t /\ client'[c].st = client[c].st
      BY <2>4, <2>5
    <3>2. \A s \in X : s.do # "attach"
      BY <2>2 DEF Leads
    <3>3. \A c \in Clients : client[c].st = "on" => sess'[client[c].t] \in Alive
      BY <1>2, <1>3 DEF Joined, Live
    <3> QED BY <1>2, <2>2, <3>1, <3>2, <3>3, JoinedAsBefore
  <2> QED BY <2>7, <2>8, <2>10, <2>11, <2>12, Folded DEF TerminalInv
<1> QED BY <1>5, <1>6

(* What is replayed is the end of what was shown.                           *)
LEMMA ReplayIs ==
  ASSUME TerminalInv, NEW t \in Terms, NEW r, r = Replay(t)
  PROVE  r \in Seq(Nat) /\ IsSuffix(r, shown[t]) /\ (Len(r) >= HistMax \/ r = shown[t])
<1> PICK S \in Seq(Nat) : S = shown[t]
  BY DEF TerminalInv, TerminalTypeOK
<1>1. HistMax \in Nat \ {0} /\ Len(S) \in Nat
  BY TerminalAssumption
<1>2. CASE Len(S) <= HistMax
  <2>1. r = S
    BY <1>2 DEF Replay
  <2> QED BY <2>1, SuffixFacts
<1>3. CASE Len(S) > HistMax
  <2>1. r = SubSeq(S, Len(S) - HistMax + 1, Len(S))
    BY <1>1, <1>3 DEF Replay
  <2>2. r \in Seq(Nat) /\ Len(r) = HistMax /\ IsSuffix(r, S)
    BY <1>1, <1>3, <2>1, SuffixFacts
  <2> QED BY <1>1, <2>2
<1> QED BY <1>1, <1>2, <1>3

(* A client is attached with the history, or refused.                       *)
LEMMA AttachStep ==
  ASSUME TerminalInv, Attach
  PROVE  TerminalInv'
<1> PICK t \in Terms : t = line[1].t
  BY FirstSection DEF Attach
<1>1. /\ 1 \in DOMAIN line /\ line[1].do = "attach" /\ line[1] = Head(line)
      /\ line' = Tail(line) /\ line' \in Seq(Sections) /\ Moves(line, line', 1, {})
  BY FirstSection DEF Attach, Done
<1>2. UNCHANGED <<sess, fd, owner, reader, stop, made, lost, thr, drain, pend, handle, sched, shown, making, closes>>
  BY DEF Attach, feed, batches
<1>3. TerminalTypeOK /\ client \in [Clients -> ClientRecords] /\ Feeding /\ Joined
  BY Unfolded, Unchanging DEF TerminalInv
<1> PICK c \in Clients : c = line[1].c /\ client[c].t = t
  BY <1>1, <1>3 DEF Joined
<1>4. client[c] \in ClientRecords
  BY <1>3
<1> PICK r \in Seq(Nat) : r = Replay(t)
  BY ReplayIs
<1> PICK n \in Nat : n = IF shown[t] = <<>> THEN 0 ELSE 1
  OBVIOUS
<1>5. /\ t \notin Live => client' = [client EXCEPT ![c] = [client[c] EXCEPT !.st = "closed"]]
      /\ t \in Live => client' = [client EXCEPT ![c] = [client[c] EXCEPT !.st = "on", !.str = r, !.n = n]]
  BY <1>1, <1>3 DEF Attach
<1>6. /\ client' \in [Clients -> ClientRecords] /\ client'[c].t = t /\ client'[c].slow = client[c].slow
      /\ \/ client'[c].st = "closed"
         \/ t \in Live /\ client'[c].st = "on" /\ client'[c].str = r
      /\ \A e \in Clients : e # c => client'[e] = client[e]
  <2>1. CASE t \notin Live
    <3> PICK x : x = [client[c] EXCEPT !.st = "closed"]
      OBVIOUS
    <3>1. x \in ClientRecords /\ x.t = t /\ x.slow = client[c].slow /\ x.st = "closed"
      BY <1>4 DEF ClientRecords
    <3> QED BY <1>3, <1>5, <2>1, <3>1
  <2>2. CASE t \in Live
    <3> DEFINE x == [client[c] EXCEPT !.st = "on", !.str = r, !.n = n]
    <3>1. x \in ClientRecords /\ x.t = t /\ x.slow = client[c].slow /\ x.st = "on" /\ x.str = r
      BY <1>4 DEF ClientRecords
    <3>2. client' = [client EXCEPT ![c] = x]
      BY <1>5, <2>2
    <3> HIDE DEF x
    <3> QED BY <1>3, <2>2, <3>1, <3>2
  <2> QED BY <2>1, <2>2
<1>7. TerminalTypeOK'
  BY <1>1, <1>2, <1>3, <1>6 DEF TerminalTypeOK, ClientRecords, Fds
<1>8. Creation' /\ Numbers' /\ Ending'
  <2>1. Live' = Live
    BY <1>2 DEF Live
  <2> QED BY <1>1, <1>2, <2>1, NothingCreated
<1>9. \A u \in Terms : Owned(u)'
  BY <1>1, <1>2, LeftAlone, Unfolded
<1>10. Feeding'
  <2> SUFFICES ASSUME NEW e \in Clients, client'[e].st \in {"on", "ending"}, ~client'[e].slow PROVE Fed(e)'
    BY DEF Feeding
  <2>1. CASE e = c
    BY <1>2, <1>6, <2>1, ReplayIs DEF Fed
  <2>2. CASE e # c
    BY <1>2, <1>3, <1>6, <2>2 DEF Feeding, Fed
  <2> QED BY <2>1, <2>2
<1>11. Joined'
  <2>1. ASSUME NEW e \in Clients
        PROVE  /\ client'[e].st = "off" => client'[e].t = Nobody
               /\ client'[e].st = "on" => client'[e].t \in Live'
               /\ client'[e].st = "ending" => client'[e].t \in Terms /\ sess'[client'[e].t] = "gone"
               /\ client'[e].t = client[e].t
    BY <1>2, <1>3, <1>6 DEF Joined, Live
  <2>2. ASSUME NEW k \in DOMAIN line', line'[k].do = "attach"
        PROVE  line'[k].c \in Clients /\ client'[line'[k].c].t = line'[k].t
    <3>1. k + 1 \in DOMAIN line /\ line'[k] = line[k + 1]
      BY <1>1 DEF Moves
    <3> QED BY <1>3, <2>1, <2>2, <3>1 DEF Joined
  <2> QED BY <2>1, <2>2 DEF Joined
<1> QED BY <1>7, <1>8, <1>9, <1>10, <1>11, Folded DEF TerminalInv

(* The invariant holds before there is a terminal.                          *)
LEMMA TerminalStarts == TerminalInit => TerminalInv
<1> SUFFICES ASSUME TerminalInit PROVE TerminalInv
  OBVIOUS
<1>1. /\ sess = [t \in Terms |-> "none"]
      /\ fd = [t \in Terms |-> 0] /\ owner = [f \in Fds |-> Nobody]
      /\ reader = [t \in Terms |-> "off"] /\ stop = [t \in Terms |-> FALSE]
      /\ made = [t \in Terms |-> 0] /\ lost = [t \in Terms |-> {}]
      /\ thr = [t \in Terms |-> <<>>] /\ drain = [t \in Terms |-> FALSE]
      /\ pend = [t \in Terms |-> <<>>]
      /\ handle = [t \in Terms |-> "none"] /\ sched = [t \in Terms |-> FALSE]
      /\ shown = [t \in Terms |-> <<>>]
      /\ line = <<>> /\ making = Nobody /\ closes = 0
  BY DEF TerminalInit
<1>2. client = [c \in Clients |-> [st |-> "off", t |-> Nobody, str |-> <<>>, n |-> 0, slow |-> FALSE]]
  BY DEF TerminalInit
<1>3. client \in [Clients -> ClientRecords] /\ \A c \in Clients : client[c].st = "off" /\ client[c].t = Nobody
  BY <1>2 DEF ClientRecords
<1>4. line \in Seq(Sections) /\ DOMAIN line = {}
  BY <1>1
<1>5. TerminalTypeOK
  <2>1. <<>> \in Seq(Nat) /\ {} \in SUBSET Nat
    BY NoOutput
  <2> QED BY <1>1, <1>3, <1>4, <2>1 DEF TerminalTypeOK, ClientRecords
<1>6. Creation /\ Numbers /\ Joined
  BY <1>1, <1>3, <1>4 DEF Creation, Numbers, Joined, Registering
<1>7. SessionStages
  BY <1>1, <1>4 DEF SessionStages, Casts
<1>8. OutputIsWhole
  BY <1>1, <1>3 DEF OutputIsWhole, Live, Alive
<1> QED BY <1>5, <1>6, <1>7, <1>8 DEF TerminalInv

(* Every step preserves it.                                                 *)
LEMMA TerminalStep == TerminalInv /\ [TerminalNext]_terminalVars => TerminalInv'
<1> SUFFICES ASSUME TerminalInv, [TerminalNext]_terminalVars PROVE TerminalInv'
  OBVIOUS
<1>1. CASE Loop
  BY <1>1, CheckStep, RegisterStep, FlushStep, BroadcastStep, AttachStep, RemoveClientStep,
     ExpireStep, MarkStep, PopStep DEF Loop
<1>2. CASE \E t \in Terms : \/ Create(t) \/ ReaderLoop(t) \/ ReaderRead(t)
                            \/ Drain(t) \/ Timer(t) \/ Close(t) \/ InputFails(t)
  BY <1>2, CreateStep, ReaderLoopStep, ReaderReadStep, DrainStep, TimerStep, CloseStep
<1>3. CASE \E c \in Clients : Send(c) \/ Leave(c) \/ LetGo(c) \/ \E t \in Terms : _handle_terminal_websocket(c, t)
  BY <1>3, SendStep, LeaveStep, WebsocketStep
<1>4. CASE UNCHANGED terminalVars
  BY <1>4, QuietStep, Unchanging DEF terminalVars, Unheard
<1> QED BY <1>1, <1>2, <1>3, <1>4 DEF TerminalNext

(* The invariant, for any number of terminals, websockets and closers:      *)
(* a number stands for one terminal (_spawn_terminal_pty), the lock of the  *)
(* creation is held by one, and what is read is kept in order on its way.   *)
THEOREM TerminalInvariant == TerminalSpec => []TerminalInv
BY TerminalStarts, TerminalStep, PTL DEF TerminalSpec

(* What the reader thread reads from a terminal while it is open is shown,  *)
(* once and in order, through _queue_terminal_output, _flush_terminal_output*)
(* and _broadcast_terminal_output, whatever ends the session; and a client  *)
(* of _handle_terminal_websocket is queued all of it since it was attached. *)
THEOREM OutputArrivesWhole == TerminalSpec => []OutputIsWhole
<1>1. TerminalInv => OutputIsWhole
  BY DEF TerminalInv
<1> QED BY <1>1, TerminalInvariant, PTL

=============================================================================
