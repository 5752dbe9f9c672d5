------------------------ MODULE MediaService_proofs ------------------------
(***************************************************************************)
(* Proofs about MediaService: that the table of published files and its    *)
(* index agree, that nothing is posted twice, and that whoever waits for a *)
(* download waits for one that is under way.                               *)
(***************************************************************************)
EXTENDS MediaService, NaturalsInduction, WellFoundedInduction, TLAPS

----------------------------------------------------------------------------
(* Removing entries from the table                                         *)

(* An entry of the table.                                                  *)
Row == [tok : Nat \ {0}, b : Bots, i : Items, v : Nat]

(* No token occurs twice in the table.                                     *)
Distinct(table) == \A k, n \in DOMAIN table : table[k].tok = table[n].tok => k = n

(* A property of the naturals that has a counterexample has a least one.   *)
LEMMA LeastNat ==
  ASSUME NEW T, T \subseteq Nat, T # {}
  PROVE  \E n \in T : \A m \in T : ~(m < n)
<1>1. PICK x \in T : \A y \in T : ~(<<y, x>> \in OpToRel(<, Nat))
  BY NatLessThanWellFounded, WFMin
<1> QED BY <1>1 DEF OpToRel

(* What the recursive definition in WithoutEntries says of its function.   *)
Filters(f, S, table, len) ==
  f = [n \in 0 .. len |-> IF n = 0 THEN <<>>
                          ELSE IF table[n].tok \in S THEN f[n - 1]
                          ELSE Append(f[n - 1], table[n])]

(* There is such a function.                                               *)
LEMMA FiltersExists ==
  ASSUME NEW S, NEW table, NEW len \in Nat
  PROVE  \E f : Filters(f, S, table, len)
<1> DEFINE Bad == {n \in Nat : ~\E f : Filters(f, S, table, n)}
<1>1. SUFFICES ASSUME Bad # {} PROVE FALSE
  OBVIOUS
<1>2. Bad \subseteq Nat
  OBVIOUS
<1>3. PICK n \in Bad : \A m \in Bad : ~(m < n)
  <2> HIDE DEF Bad
  <2> QED BY <1>1, <1>2, LeastNat
<1>4. n # 0
  <2> SUFFICES ASSUME n = 0 PROVE FALSE
    OBVIOUS
  <2> DEFINE f == [k \in {0} |-> <<>>]
  <2>1. f = [k \in 0 .. 0 |-> IF k = 0 THEN <<>>
                              ELSE IF table[k].tok \in S THEN f[k - 1]
                              ELSE Append(f[k - 1], table[k])]
    OBVIOUS
  <2>2. Filters(f, S, table, 0)
    BY <2>1 DEF Filters
  <2> QED BY <2>2
<1>5. n - 1 \in Nat /\ n - 1 \notin Bad
  BY <1>3, <1>4
<1>6. PICK f : Filters(f, S, table, n - 1)
  BY <1>5
<1> DEFINE Last == IF table[n].tok \in S THEN f[n - 1] ELSE Append(f[n - 1], table[n])
           g == [k \in 0 .. n |-> IF k = n THEN Last ELSE f[k]]
<1>7. g = [k \in 0 .. n |-> IF k = 0 THEN <<>>
                            ELSE IF table[k].tok \in S THEN g[k - 1]
                            ELSE Append(g[k - 1], table[k])]
  <2>1. n \in Nat \ {0}
    BY <1>4
  <2>2. \A k \in 0 .. n - 1 : g[k] = f[k]
    BY <2>1
  <2>3. g[n] = Last /\ g[n - 1] = f[n - 1]
    BY <2>1, <2>2
  <2>4. f = [k \in 0 .. n - 1 |-> IF k = 0 THEN <<>>
                                  ELSE IF table[k].tok \in S THEN f[k - 1]
                                  ELSE Append(f[k - 1], table[k])]
    BY <1>6 DEF Filters
  <2>5. \A k \in 0 .. n - 1 : f[k] = IF k = 0 THEN <<>>
                                     ELSE IF table[k].tok \in S THEN f[k - 1]
                                     ELSE Append(f[k - 1], table[k])
    BY <2>4
  <2>6. ASSUME NEW k \in 0 .. n
        PROVE  g[k] = IF k = 0 THEN <<>>
                      ELSE IF table[k].tok \in S THEN g[k - 1]
                      ELSE Append(g[k - 1], table[k])
    <3>1. CASE k = n
      BY <2>1, <2>3, <3>1
    <3>2. CASE k = 0
      <4>1. g[k] = f[0] /\ 0 \in 0 .. n - 1
        BY <2>1, <2>2, <3>2
      <4> QED BY <2>5, <3>2, <4>1
    <3>3. CASE k # n /\ k # 0
      <4>1. k \in 0 .. n - 1 /\ k - 1 \in 0 .. n - 1
        BY <2>1, <3>3
      <4>2. f[k] = IF table[k].tok \in S THEN f[k - 1] ELSE Append(f[k - 1], table[k])
        BY <2>5, <3>3, <4>1
      <4>3. g[k] = f[k] /\ g[k - 1] = f[k - 1]
        BY <2>2, <4>1
      <4> QED BY <3>3, <4>2, <4>3
    <3> QED BY <3>1, <3>2, <3>3
  <2> QED BY <2>6
<1>8. Filters(g, S, table, n)
  BY <1>7 DEF Filters
<1> QED BY <1>8

(* What is left of the first n entries: those whose tokens are not in S,   *)
(* each once.                                                              *)
KeptOf(out, S, table, n) ==
  /\ out \in Seq(Row) /\ Len(out) <= n
  /\ \A k \in DOMAIN out : \E m \in 1 .. n : out[k] = table[m] /\ table[m].tok \notin S
  /\ \A m \in 1 .. n : table[m].tok \notin S => \E k \in DOMAIN out : out[k] = table[m]
  /\ (\E m \in 1 .. n : table[m].tok \in S) => Len(out) < n
  /\ Distinct(out)

(* An entry that is left out.                                              *)
LEMMA KeptSkip ==
  ASSUME NEW S, NEW table \in Seq(Row), NEW n \in 1 .. Len(table), NEW out,
         KeptOf(out, S, table, n - 1), table[n].tok \in S
  PROVE  KeptOf(out, S, table, n)
<1>1. /\ Len(out) \in Nat /\ n \in Nat /\ n - 1 \in Nat
      /\ \A m \in 1 .. n : m \in 1 .. (n - 1) \/ m = n
      /\ \A m \in 1 .. (n - 1) : m \in 1 .. n
  BY DEF KeptOf
<1> QED BY <1>1 DEF KeptOf

(* An entry that stays.                                                    *)
LEMMA KeptAppend ==
  ASSUME NEW S, NEW table \in Seq(Row), Distinct(table), NEW n \in 1 .. Len(table), NEW out,
         KeptOf(out, S, table, n - 1), table[n].tok \notin S
  PROVE  KeptOf(Append(out, table[n]), S, table, n)
<1> DEFINE new == Append(out, table[n])
<1>1. /\ out \in Seq(Row) /\ Len(out) \in Nat /\ n \in Nat /\ n - 1 \in Nat /\ Len(out) <= n - 1
      /\ \A m \in 1 .. n : m \in 1 .. (n - 1) \/ m = n
      /\ \A m \in 1 .. (n - 1) : m \in 1 .. n
      /\ table[n] \in Row /\ n \in DOMAIN table
  BY DEF KeptOf
<1>2. /\ new \in Seq(Row) /\ Len(new) = Len(out) + 1 /\ new[Len(out) + 1] = table[n]
      /\ DOMAIN new = DOMAIN out \cup {Len(out) + 1} /\ Len(out) + 1 \in DOMAIN new
      /\ \A k \in DOMAIN out : new[k] = out[k] /\ k \in DOMAIN new
  <2>1. new \in Seq(Row) /\ Len(new) = Len(out) + 1
    BY ONLY <1>1
  <2>2. DOMAIN new = 1 .. Len(out) + 1 /\ DOMAIN out = 1 .. Len(out)
    BY ONLY <1>1, <2>1
  <2>3. new[Len(out) + 1] = table[n]
    BY ONLY <1>1
  <2>4. \A k \in DOMAIN out : new[k] = out[k]
    BY ONLY <1>1
  <2> HIDE DEF new
  <2> QED BY ONLY <1>1, <2>1, <2>2, <2>3, <2>4
<1> HIDE DEF new
<1>3. \A k \in DOMAIN new : \E m \in 1 .. n : new[k] = table[m] /\ table[m].tok \notin S
  <2>1. \A k \in DOMAIN out : \E m \in 1 .. n - 1 : out[k] = table[m] /\ table[m].tok \notin S
    BY DEF KeptOf
  <2>2. \A k \in DOMAIN new : \/ k \in DOMAIN out /\ new[k] = out[k]
                              \/ new[k] = table[n]
    BY ONLY <1>2
  <2>3. n \in 1 .. n /\ table[n].tok \notin S /\ \A m \in 1 .. n - 1 : m \in 1 .. n
    BY <1>1
  <2> QED BY ONLY <2>1, <2>2, <2>3
<1>4. \A m \in 1 .. n : table[m].tok \notin S => \E k \in DOMAIN new : new[k] = table[m]
  BY <1>1, <1>2 DEF KeptOf
<1>5. (\E m \in 1 .. n : table[m].tok \in S) => Len(new) < n
  <2> SUFFICES ASSUME NEW m \in 1 .. n, table[m].tok \in S PROVE Len(new) < n
    OBVIOUS
  <2>1. m \in 1 .. (n - 1)
    BY <1>1
  <2>2. Len(out) < n - 1
    BY <2>1 DEF KeptOf
  <2> QED BY <1>1, <1>2, <2>2
<1>6. Distinct(new)
  <2>1. ASSUME NEW k \in DOMAIN out PROVE out[k].tok # table[n].tok
    <3>1. PICK m \in 1 .. (n - 1) : out[k] = table[m]
      BY DEF KeptOf
    <3>2. m # n /\ m \in DOMAIN table
      BY <1>1, <3>1
    <3> QED BY <1>1, <3>1, <3>2 DEF Distinct
  <2>2. Distinct(out)
    BY DEF KeptOf
  <2> QED BY <1>2, <2>1, <2>2 DEF Distinct
<1>7. Len(new) <= n
  BY <1>1, <1>2
<1>8. KeptOf(new, S, table, n)
  BY <1>2, <1>3, <1>4, <1>5, <1>6, <1>7 DEF KeptOf
<1> QED BY <1>8 DEF new

(* What WithoutEntries returns.                                            *)
LEMMA WithoutFacts ==
  ASSUME NEW S, NEW table \in Seq(Row), Distinct(table)
  PROVE  KeptOf(WithoutEntries(S, table), S, table, Len(table))
<1> DEFINE kept == CHOOSE f : Filters(f, S, table, Len(table))
<1>1. Len(table) \in Nat
  OBVIOUS
<1>2. Filters(kept, S, table, Len(table))
  BY <1>1, FiltersExists
<1>3. WithoutEntries(S, table) = kept[Len(table)]
  BY DEF WithoutEntries, Filters
<1> HIDE DEF kept
<1>4. \A n \in 0 .. Len(table) : kept[n] = IF n = 0 THEN <<>>
                                           ELSE IF table[n].tok \in S THEN kept[n - 1]
                                           ELSE Append(kept[n - 1], table[n])
  BY <1>2 DEF Filters
<1> DEFINE Bad == {n \in 0 .. Len(table) : ~KeptOf(kept[n], S, table, n)}
<1>5. ASSUME Bad # {} PROVE FALSE
  <2>1. Bad \subseteq Nat
    OBVIOUS
  <2>2. PICK n \in Bad : \A m \in Bad : ~(m < n)
    <3> HIDE DEF Bad
    <3> QED BY <1>5, <2>1, LeastNat
  <2>3. CASE n = 0
    <3>1. kept[0] = <<>>
      BY <1>1, <1>4
    <3>2. KeptOf(<<>>, S, table, 0)
      BY DEF KeptOf, Distinct
    <3> QED BY <2>2, <2>3, <3>1, <3>2
  <2>4. CASE n # 0
    <3>1. n \in 1 .. Len(table) /\ n - 1 \in 0 .. Len(table) /\ n - 1 < n
      BY <1>1, <2>2, <2>4
    <3>2. KeptOf(kept[n - 1], S, table, n - 1)
      BY <2>2, <3>1
    <3>3. kept[n] = IF table[n].tok \in S THEN kept[n - 1] ELSE Append(kept[n - 1], table[n])
      BY <1>4, <2>4, <3>1
    <3>4. KeptOf(kept[n], S, table, n)
      BY <3>1, <3>2, <3>3, KeptSkip, KeptAppend
    <3> QED BY <2>2, <3>4
  <2> QED BY <2>3, <2>4
<1>6. Len(table) \in 0 .. Len(table) /\ Len(table) \notin Bad
  BY <1>1, <1>5
<1> QED BY <1>3, <1>6

----------------------------------------------------------------------------
(* Types                                                                   *)

(* The parts of the type invariant that speak of the table.                *)
LEMMA TableTypes ==
  ASSUME TypeOK
  PROVE  pub \in Seq(Row) /\ index \in [Bots -> [Items -> Nat]] /\ token \in Nat
  BY DEF TypeOK, Row

(* What is left of a type-correct table and index is type-correct.         *)
LEMMA WithoutType ==
  ASSUME TypeOK, Indexed, NEW S
  PROVE  /\ WithoutEntries(S, pub) \in Seq(Row)
         /\ WithoutTokens(S, index) \in [Bots -> [Items -> Nat]]
<1>1. KeptOf(WithoutEntries(S, pub), S, pub, Len(pub))
  BY TableTypes, WithoutFacts DEF Indexed, Distinct
<1>2. WithoutTokens(S, index) \in [Bots -> [Items -> Nat]]
  BY TableTypes DEF WithoutTokens
<1> QED BY <1>1, <1>2 DEF KeptOf

(* The effect of a publication, without what it means for the index.       *)
LEMMA PublishCases ==
  ASSUME NEW b, NEW i, NEW v, Publish(b, i, v)
  PROVE  \/ /\ Current(b, i, v)
            /\ pub' = Append(WithoutEntries({index[b][i]}, pub), Entry(index[b][i], b, i, v))
            /\ UNCHANGED <<index, token>>
         \/ LET all == Append(WithoutEntries({index[b][i]}, pub), Entry(token + 1, b, i, v))
                over == IF Len(all) > MaxPub THEN Len(all) - MaxPub ELSE 0
                gone == {all[k].tok : k \in 1 .. over}
            IN  /\ token' = token + 1
                /\ pub' = SubSeq(all, over + 1, Len(all))
                /\ index' = WithoutTokens(gone, [index EXCEPT ![b][i] = token + 1])
  BY DEF Publish

(* What a publication leaves is type-correct.                              *)
LEMMA PublishType ==
  ASSUME MediaAssumption, TypeOK, Indexed, NEW b \in Bots, NEW i \in Items, NEW v \in Nat,
         Publish(b, i, v)
  PROVE  pub' \in Seq(Row) /\ index' \in [Bots -> [Items -> Nat]] /\ token' \in Nat
<1> DEFINE others == WithoutEntries({index[b][i]}, pub)
<1>1. others \in Seq(Row) /\ pub \in Seq(Row) /\ token \in Nat
      /\ index \in [Bots -> [Items -> Nat]]
  BY WithoutType, TableTypes
<1> HIDE DEF others
<1>2. CASE /\ Current(b, i, v) /\ pub' = Append(others, Entry(index[b][i], b, i, v))
           /\ UNCHANGED <<index, token>>
  <2>1. PICK k \in DOMAIN pub : pub[k].tok = index[b][i]
    BY <1>2 DEF Current
  <2>2. pub[k] \in Row
    BY <1>1
  <2>3. Entry(index[b][i], b, i, v) \in Row
    BY <2>1, <2>2 DEF Entry, Row
  <2> QED BY <1>1, <1>2, <2>3
<1> DEFINE all == Append(others, Entry(token + 1, b, i, v))
           over == IF Len(all) > MaxPub THEN Len(all) - MaxPub ELSE 0
           gone == {all[k].tok : k \in 1 .. over}
<1>3. CASE /\ token' = token + 1
           /\ pub' = SubSeq(all, over + 1, Len(all))
           /\ index' = WithoutTokens(gone, [index EXCEPT ![b][i] = token + 1])
  <2>1. Entry(token + 1, b, i, v) \in Row
    BY <1>1 DEF Entry, Row
  <2>2. all \in Seq(Row) /\ over \in Nat /\ Len(all) \in Nat
    BY <1>1, <2>1 DEF MediaAssumption
  <2>3. pub' \in Seq(Row)
    <3> HIDE DEF all, over
    <3> QED BY <1>3, <2>2
  <2>4. [index EXCEPT ![b][i] = token + 1] \in [Bots -> [Items -> Nat]]
    BY <1>1
  <2>5. index' \in [Bots -> [Items -> Nat]]
    <3> HIDE DEF all, over, gone
    <3> QED BY <1>3, <2>4 DEF WithoutTokens
  <2>6. token' \in Nat
    BY <1>1, <1>3
  <2> QED BY <2>3, <2>5, <2>6
<1> QED BY <1>2, <1>3, PublishCases DEF others

(* Variables of TypeOK that most actions leave alone.                      *)
BotTypes == /\ bot \in [Bots -> {"down", "starting", "up"}] /\ starts \in Nat
            /\ coord \in [members : SUBSET Bots, owner : Bots \cup {None},
                          started : BOOLEAN, loop : BOOLEAN]
            /\ cut \in BOOLEAN
FileTypes == /\ file \in [Items -> Nat] /\ ver \in [Items -> Nat] /\ temp \in [Items -> BOOLEAN]
             /\ flight \in [Items -> Bots \cup {None}]
UrlTypes == /\ pub \in Seq(Row) /\ index \in [Bots -> [Items -> Nat]] /\ token \in Nat
SendTypes == /\ task \in [Tasks -> Job]
             /\ pref \in [Bots -> {Modern, Legacy, None}] /\ legacyOk \in [Bots -> BOOLEAN]
             /\ server \subseteq {Modern, Legacy}
             /\ posted \in [Tasks -> Nat]
             /\ told \in [Tasks -> {"nothing", "cancelled", "received", "sent", "failed"}]

(* TypeOK is made of these four parts.                                     *)
LEMMA TypeParts == TypeOK <=> BotTypes /\ FileTypes /\ UrlTypes /\ SendTypes
  BY DEF TypeOK, BotTypes, FileTypes, UrlTypes, SendTypes, Row

(* and so after a step.                                                    *)
LEMMA TypePartsNext ==
  ASSUME BotTypes', FileTypes', UrlTypes', SendTypes'
  PROVE  TypeOK'
  BY DEF TypeOK, BotTypes, FileTypes, UrlTypes, SendTypes, Row

(* Items that a task may have.                                             *)
LEMMA TaskFields ==
  ASSUME TypeOK, AtWork, NEW t \in Tasks, task[t].pc # "idle"
  PROVE  /\ task[t] \in Job /\ task[t].b \in Bots /\ task[t].i \in Items
         /\ told[t] = "nothing" /\ posted[t] = 0 /\ bot[task[t].b] = "up"
  BY DEF TypeOK, AtWork

(* A task that ends.                                                       *)
LEMMA IdleType == Idle \in Job
  BY DEF Idle, Job

(* A task's end keeps the types.                                           *)
LEMMA FinishedType ==
  ASSUME SendTypes, NEW t \in Tasks,
         NEW what \in {"nothing", "cancelled", "received", "sent", "failed"}, Finished(t, what)
  PROVE  /\ task' \in [Tasks -> Job]
         /\ told' \in [Tasks -> {"nothing", "cancelled", "received", "sent", "failed"}]
  BY IdleType DEF SendTypes, Finished

(* A post keeps the types.                                                 *)
LEMMA PostsType ==
  ASSUME SendTypes, NEW t \in Tasks, Posts(t) PROVE posted' \in [Tasks -> Nat]
  BY DEF SendTypes, Posts

(* The other endpoint, or the end.                                         *)
LEMMA FallBackType ==
  ASSUME SendTypes, NEW t \in Tasks, NEW incompatible, GiveUpOrFallBack(t, incompatible)
  PROVE  /\ task' \in [Tasks -> Job]
         /\ told' \in [Tasks -> {"nothing", "cancelled", "received", "sent", "failed"}]
<1>1. CASE Finished(t, "failed")
  BY <1>1, FinishedType
<1>2. CASE /\ task' = [task EXCEPT ![t].pc = "upload", ![t].ep = Other(@), ![t].fell = TRUE]
           /\ UNCHANGED told
  <2>1. task[t] \in Job /\ Other(task[t].ep) \in {Modern, Legacy, None}
    BY DEF SendTypes, Other
  <2>2. [task[t] EXCEPT !.pc = "upload", !.ep = Other(task[t].ep), !.fell = TRUE] \in Job
    BY <2>1 DEF Job
  <2> QED BY <1>2, <2>2 DEF SendTypes
<1> QED BY <1>1, <1>2 DEF GiveUpOrFallBack

(* Bots come and go.                                                       *)
LEMMA BotSteps ==
  ASSUME BotTypes, NEW b \in Bots, StartBot(b) \/ StartLoop(b) \/ StopBot(b)
  PROVE  BotTypes'
<1>1. CASE StartBot(b)
  <2> DEFINE o == IF coord.owner = None THEN b ELSE coord.owner
             m == coord.members \cup {b}
  <2>1. o \in Bots \cup {None} /\ m \in SUBSET Bots
    BY DEF BotTypes
  <2>2. coord' = [coord EXCEPT !.members = m, !.owner = o, !.started = TRUE]
    BY <1>1 DEF StartBot
  <2>3. bot' \in [Bots -> {"down", "starting", "up"}] /\ starts' \in Nat /\ cut' \in BOOLEAN
    BY <1>1 DEF StartBot, BotTypes
  <2> HIDE DEF o, m
  <2> QED BY <2>1, <2>2, <2>3 DEF BotTypes
<1>2. CASE StartLoop(b)
  BY <1>2 DEF StartLoop, BotTypes
<1>3. CASE StopBot(b)
  <2>1. coord' \in [members : SUBSET Bots, owner : Bots \cup {None},
                    started : BOOLEAN, loop : BOOLEAN]
    <3>1. Left(b) \in SUBSET Bots
      BY DEF Left, BotTypes
    <3>2. CASE Left(b) = {}
      <4>1. coord' = Fresh
        BY <1>3, <3>2 DEF StopBot, Release
      <4> QED BY <4>1 DEF Fresh
    <3>3. CASE Left(b) # {}
      <4>1. (CHOOSE c \in Left(b) : TRUE) \in Bots
        BY <3>1, <3>3
      <4> DEFINE o == IF coord.owner = b THEN CHOOSE c \in Left(b) : TRUE ELSE coord.owner
      <4>2. o \in Bots \cup {None}
        BY <4>1 DEF BotTypes
      <4>3. coord' = [coord EXCEPT !.members = Left(b), !.owner = o]
        BY <1>3, <3>3 DEF StopBot, Release
      <4> HIDE DEF o
      <4> QED BY <3>1, <4>2, <4>3 DEF BotTypes
    <3> QED BY <3>2, <3>3
  <2>2. bot' \in [Bots -> {"down", "starting", "up"}] /\ starts' \in Nat
    BY <1>3 DEF StopBot, BotTypes
  <2>3. cut' \in BOOLEAN
    BY <1>3 DEF StopBot, BotTypes
  <2> QED BY <2>1, <2>2, <2>3 DEF BotTypes
<1> QED BY <1>1, <1>2, <1>3

(* The types of files, and of downloads under way, at each step.           *)
LEMMA FileSteps ==
  ASSUME BotTypes, FileTypes, Next
  PROVE  FileTypes'
<1>1. ASSUME NEW b \in Bots, StopBot(b) PROVE FileTypes'
  <2>1. /\ UNCHANGED <<file, ver>>
        /\ \/ /\ flight' = [i \in Items |-> None]
              /\ temp' = [i \in Items |-> IF i \in Enc /\ flight[i] # None THEN FALSE ELSE temp[i]]
           \/ UNCHANGED <<flight, temp>>
    BY <1>1 DEF StopBot, Release
  <2> QED BY <2>1 DEF FileTypes
<1>2. ASSUME NEW i \in Items, Written(i)
      PROVE  file' \in [Items -> Nat] /\ ver' \in [Items -> Nat]
  BY <1>2 DEF Written, FileTypes
<1>3. ASSUME NEW b \in Bots, StartBot(b) \/ StartLoop(b) PROVE FileTypes'
  BY <1>3 DEF StartBot, StartLoop, FileTypes
<1>4. CASE CleanupAgain \/ CleanDone
  BY <1>4 DEF CleanupAgain, CleanDone, FileTypes
<1>5. ASSUME NEW i \in Items, NEW how, CleanNext(i, how) PROVE FileTypes'
  BY <1>5 DEF CleanNext, FileTypes
<1>6. ASSUME NEW t \in Tasks, NEW b \in Bots, NEW i \in Items, Join(t, b, i) PROVE FileTypes'
  BY <1>6 DEF Join, FileTypes
<1>7. ASSUME NEW i \in Items, NEW ok \in BOOLEAN, DecryptEnds(i, ok) \/ DownloadEnds(i, ok)
      PROVE  FileTypes'
  <2>1. /\ Written(i) \/ UNCHANGED <<file, ver>>
        /\ flight' = [flight EXCEPT ![i] = None] /\ temp' = [temp EXCEPT ![i] = FALSE]
    BY <1>7 DEF DecryptEnds, DownloadEnds, Landed
  <2>2. file' \in [Items -> Nat] /\ ver' \in [Items -> Nat]
    BY <1>2, <2>1 DEF FileTypes
  <2> QED BY <2>1, <2>2 DEF FileTypes
<1>8. ASSUME NEW b \in Bots, NEW i \in Enc, Republish(b, i) PROVE FileTypes'
  <2>1. i \in Items /\ (Written(i) \/ UNCHANGED <<file, ver>>) /\ UNCHANGED <<temp, flight>>
    BY <1>8 DEF Republish, Items
  <2>2. file' \in [Items -> Nat] /\ ver' \in [Items -> Nat]
    BY <1>2, <2>1 DEF FileTypes
  <2> QED BY <2>1, <2>2 DEF FileTypes
<1>9. CASE \/ \E t \in Tasks : Receive(t) \/ StartUpload(t, TRUE) \/ StartUpload(t, FALSE)
           \/ \E k \in DOMAIN pub : Resolve(k)
           \/ \E t \in Tasks, a \in Answers :
                UploadAnswered(t, a) \/ ConfirmAnswered(t, a) \/ TextAnswered(t, a)
           \/ Upgrade
  <2>1. UNCHANGED cache
    BY <1>9 DEF Receive, StartUpload, Resolve, UploadAnswered, ConfirmAnswered, TextAnswered,
                Upgrade
  <2> QED BY <2>1 DEF cache, FileTypes
<1> QED BY <1>1, <1>3, <1>4, <1>5, <1>6, <1>7, <1>8, <1>9 DEF Next, BeginReceive, BeginSend

(* The types of what concerns bots.                                        *)
LEMMA BotTypesStep ==
  ASSUME BotTypes, Next
  PROVE  BotTypes'
<1>1. CASE \E b \in Bots : StartBot(b) \/ StartLoop(b) \/ StopBot(b)
  BY <1>1, BotSteps
<1>2. CASE \/ CleanupAgain \/ CleanDone
           \/ \E i \in Items, how \in {"keep", "file", "temp"} : CleanNext(i, how)
           \/ \E t \in Tasks, b \in Bots, i \in Items : BeginReceive(t, b, i) \/ BeginSend(t, b, i)
           \/ \E i \in Items, ok \in BOOLEAN : DecryptEnds(i, ok) \/ DownloadEnds(i, ok)
           \/ \E b \in Bots, i \in Enc : Republish(b, i)
  <2>1. UNCHANGED <<bot, starts, coord, cut>>
    BY <1>2 DEF CleanupAgain, CleanDone, CleanNext, BeginReceive, BeginSend, Join, DecryptEnds,
                DownloadEnds, Landed, Republish
  <2> QED BY <2>1 DEF BotTypes
<1>3. CASE \/ \E t \in Tasks : Receive(t) \/ StartUpload(t, TRUE) \/ StartUpload(t, FALSE)
           \/ \E k \in DOMAIN pub : Resolve(k)
           \/ \E t \in Tasks, a \in Answers :
                UploadAnswered(t, a) \/ ConfirmAnswered(t, a) \/ TextAnswered(t, a)
           \/ Upgrade
  <2>1. UNCHANGED <<bot, starts, coord, cut>>
    BY <1>3 DEF Receive, StartUpload, Resolve, UploadAnswered, ConfirmAnswered, TextAnswered,
                Upgrade, cache
  <2> QED BY <2>1 DEF BotTypes
<1> QED BY <1>1, <1>2, <1>3 DEF Next

(* The types of the tasks, and of what they know of server and messages.   *)
LEMMA SendSteps ==
  ASSUME TypeOK, AtWork, Next
  PROVE  SendTypes'
<1>0. SendTypes /\ BotTypes
  BY TypeParts
<1>1. ASSUME NEW b \in Bots, StartBot(b) \/ StartLoop(b) \/ StopBot(b) PROVE SendTypes'
  <2>1. CASE StartBot(b)
    BY <1>0, <2>1 DEF StartBot, SendTypes
  <2>2. CASE StartLoop(b)
    BY <1>0, <2>2 DEF StartLoop, SendTypes, sends
  <2>3. CASE StopBot(b)
    BY <1>0, <2>3, IdleType DEF StopBot, SendTypes
  <2> QED BY <1>1, <2>1, <2>2, <2>3
<1>2. CASE \/ CleanupAgain \/ CleanDone
           \/ \E i \in Items, how \in {"keep", "file", "temp"} : CleanNext(i, how)
           \/ \E b \in Bots, i \in Enc : Republish(b, i)
           \/ \E k \in DOMAIN pub : Resolve(k)
           \/ Upgrade
  <2>1. UNCHANGED <<task, pref, legacyOk, posted, told>> /\ (UNCHANGED server \/ Upgrade)
    BY <1>2 DEF CleanupAgain, CleanDone, CleanNext, Republish, Resolve, Upgrade, sends
  <2>2. server' \subseteq {Modern, Legacy}
    BY <1>0, <2>1 DEF Upgrade, SendTypes
  <2> QED BY <1>0, <2>1, <2>2 DEF SendTypes
<1>3. ASSUME NEW t \in Tasks, NEW b \in Bots, NEW i \in Items, Join(t, b, i) PROVE SendTypes'
  <2>1. [Idle EXCEPT !.pc = "wait", !.b = b, !.i = i] \in Job
    BY DEF Idle, Job
  <2> QED BY <1>0, <1>3, <2>1 DEF Join, SendTypes, sends
<1>4. ASSUME NEW i \in Items, NEW ok \in BOOLEAN, Landed(i, ok) PROVE SendTypes'
  <2>1. \A t \in Tasks : [task[t] EXCEPT !.pc = IF ok THEN "have" ELSE "none"] \in Job
    BY <1>0 DEF SendTypes, Job
  <2> QED BY <1>0, <1>4, <2>1 DEF Landed, SendTypes, sends
<1>5. ASSUME NEW t \in Tasks, Receive(t) PROVE SendTypes'
  BY <1>0, <1>5, IdleType DEF Receive, SendTypes
<1>6. ASSUME NEW t \in Tasks, NEW e2ee \in BOOLEAN, StartUpload(t, e2ee) PROVE SendTypes'
  <2>1. UNCHANGED <<pref, legacyOk, server, posted>> /\ task[t].pc \in {"none", "have"}
    BY <1>6 DEF StartUpload
  <2>2. CASE Finished(t, "failed")
    BY <1>0, <2>1, <2>2, FinishedType DEF SendTypes
  <2>3. CASE task' = [task EXCEPT ![t].pc = "text"] /\ UNCHANGED told
    BY <1>0, <2>1, <2>3 DEF SendTypes, Job
  <2>4. CASE /\ task' = [task EXCEPT ![t].pc = "upload", ![t].e2ee = e2ee,
                                     ![t].ep = IF e2ee THEN Modern ELSE Primary(task[t].b)]
             /\ UNCHANGED told
    <3> DEFINE ep == IF e2ee THEN Modern ELSE Primary(task[t].b)
    <3>1. task[t] \in Job /\ task[t].b \in Bots
      BY <2>1, TaskFields
    <3>2. ep \in {Modern, Legacy, None}
      BY <1>0, <3>1 DEF Primary, SendTypes
    <3>3. [task[t] EXCEPT !.pc = "upload", !.e2ee = e2ee, !.ep = ep] \in Job
      BY <3>1, <3>2 DEF Job
    <3> QED BY <1>0, <2>1, <2>4, <3>3 DEF SendTypes
  <2> QED BY <1>6, <2>2, <2>3, <2>4 DEF StartUpload
<1>7. ASSUME NEW t \in Tasks, NEW a \in Answers, UploadAnswered(t, a) PROVE SendTypes'
  <2>1. task[t] \in Job /\ task[t].b \in Bots /\ UNCHANGED <<legacyOk, server>>
    BY <1>7, TaskFields DEF UploadAnswered
  <2>2. /\ Posts(t) \/ UNCHANGED posted
        /\ UNCHANGED pref \/ pref' = [pref EXCEPT ![task[t].b] = Legacy]
    BY <1>7 DEF UploadAnswered
  <2>3. \/ GiveUpOrFallBack(t, TRUE) \/ GiveUpOrFallBack(t, FALSE) \/ Finished(t, "sent")
        \/ task' = [task EXCEPT ![t].pc = "confirm"] /\ UNCHANGED told
    BY <1>7 DEF UploadAnswered, GiveUpOrFallBack
  <2>4. posted' \in [Tasks -> Nat]
    BY <1>0, <2>2, PostsType DEF SendTypes
  <2>5. /\ task' \in [Tasks -> Job]
        /\ told' \in [Tasks -> {"nothing", "cancelled", "received", "sent", "failed"}]
    <3>1. CASE task' = [task EXCEPT ![t].pc = "confirm"] /\ UNCHANGED told
      BY <1>0, <2>1, <3>1 DEF SendTypes, Job
    <3> QED BY <1>0, <2>3, <3>1, FallBackType, FinishedType
  <2> QED BY <1>0, <2>1, <2>2, <2>4, <2>5 DEF SendTypes
<1>8. ASSUME NEW t \in Tasks, NEW a \in Answers, ConfirmAnswered(t, a) \/ TextAnswered(t, a)
      PROVE  SendTypes'
  <2>1. task[t] \in Job /\ task[t].b \in Bots /\ UNCHANGED <<legacyOk, server>>
    BY <1>8, TaskFields DEF ConfirmAnswered, TextAnswered
  <2>2. /\ Posts(t) \/ UNCHANGED posted
        /\ UNCHANGED pref \/ pref' = [pref EXCEPT ![task[t].b] = Modern]
    BY <1>8 DEF ConfirmAnswered, TextAnswered
  <2>3. GiveUpOrFallBack(t, TRUE) \/ Finished(t, "sent") \/ Finished(t, "failed")
    BY <1>8 DEF ConfirmAnswered, TextAnswered
  <2>4. posted' \in [Tasks -> Nat]
    BY <1>0, <2>2, PostsType DEF SendTypes
  <2>5. /\ task' \in [Tasks -> Job]
        /\ told' \in [Tasks -> {"nothing", "cancelled", "received", "sent", "failed"}]
    BY <1>0, <2>3, FallBackType, FinishedType
  <2> QED BY <1>0, <2>1, <2>2, <2>4, <2>5 DEF SendTypes
<1> QED BY <1>1, <1>2, <1>3, <1>4, <1>5, <1>6, <1>7, <1>8
        DEF Next, BeginReceive, BeginSend, DecryptEnds, DownloadEnds

(* What each step does to the table, if anything.                          *)
LEMMA UrlCases ==
  ASSUME Next
  PROVE  \/ UNCHANGED urls
         \/ \E b \in Bots : StopBot(b)
         \/ \E k \in DOMAIN pub : Resolve(k)
         \/ \E t \in Tasks : /\ task[t].i \in Enc /\ task[t].pc = "have"
                             /\ Publish(task[t].b, task[t].i, file[task[t].i])
         \/ \E b \in Bots, i \in Enc : Publish(b, i, file'[i])
<1>1. CASE \E b \in Bots : StartBot(b) \/ StartLoop(b)
  BY <1>1 DEF StartBot, StartLoop
<1>2. CASE \/ CleanupAgain \/ CleanDone
           \/ \E i \in Items, how \in {"keep", "file", "temp"} : CleanNext(i, how)
           \/ \E t \in Tasks, b \in Bots, i \in Items : BeginReceive(t, b, i) \/ BeginSend(t, b, i)
           \/ \E i \in Items, ok \in BOOLEAN : DecryptEnds(i, ok) \/ DownloadEnds(i, ok)
  BY <1>2 DEF CleanupAgain, CleanDone, CleanNext, BeginReceive, BeginSend, Join, DecryptEnds,
              DownloadEnds, Landed
<1>3. CASE \E b \in Bots, i \in Enc : Republish(b, i)
  BY <1>3 DEF Republish
<1>4. CASE \E t \in Tasks : Receive(t)
  BY <1>4 DEF Receive
<1>5. CASE \/ \E t \in Tasks : StartUpload(t, TRUE) \/ StartUpload(t, FALSE)
           \/ \E t \in Tasks, a \in Answers :
                UploadAnswered(t, a) \/ ConfirmAnswered(t, a) \/ TextAnswered(t, a)
           \/ Upgrade
  BY <1>5 DEF StartUpload, UploadAnswered, ConfirmAnswered, TextAnswered, Upgrade
<1> QED BY <1>1, <1>2, <1>3, <1>4, <1>5 DEF Next

----------------------------------------------------------------------------
(* The table and its index                                                 *)

(* A table and an index of which Indexed holds, but for the size.          *)
Agree(table, idx, top) ==
  /\ \A k \in DOMAIN table : /\ table[k].tok <= top
                             /\ idx[table[k].b][table[k].i] = table[k].tok
  /\ Distinct(table)
  /\ \A b \in Bots, i \in Items :
       idx[b][i] # 0 => \E k \in DOMAIN table :
                          table[k].tok = idx[b][i] /\ table[k].b = b /\ table[k].i = i

(* Indexed is Agree and the limit.                                         *)
LEMMA IndexedIs == Indexed <=> Len(pub) <= MaxPub /\ Agree(pub, index, token)
  BY DEF Indexed, Agree, Distinct

(* and so after a step.                                                    *)
LEMMA IndexedNext == ASSUME Len(pub') <= MaxPub, Agree(pub', index', token') PROVE Indexed'
  BY DEF Indexed, Agree, Distinct

(* The fields of an entry.                                                 *)
LEMMA RowFields ==
  ASSUME NEW table \in Seq(Row), NEW k \in DOMAIN table
  PROVE  /\ table[k] \in Row /\ table[k].tok \in Nat \ {0} /\ table[k].b \in Bots
         /\ table[k].i \in Items
<1>1. table[k] \in Row
  OBVIOUS
<1> QED BY <1>1 DEF Row

(* Entries go, from the table and from the index.                          *)
LEMMA RemoveAgrees ==
  ASSUME NEW S, NEW table \in Seq(Row), NEW idx \in [Bots -> [Items -> Nat]], NEW top \in Nat,
         Agree(table, idx, top)
  PROVE  Agree(WithoutEntries(S, table), WithoutTokens(S, idx), top)
<1> DEFINE out == WithoutEntries(S, table)
           rest == WithoutTokens(S, idx)
<1>1. KeptOf(out, S, table, Len(table)) /\ DOMAIN table = 1 .. Len(table)
  BY WithoutFacts DEF Agree
<1>2. \A b \in Bots, i \in Items : rest[b][i] = IF idx[b][i] \in S THEN 0 ELSE idx[b][i]
  BY DEF WithoutTokens
<1> HIDE DEF out, rest
<1>3. ASSUME NEW k \in DOMAIN out
      PROVE  out[k].tok <= top /\ rest[out[k].b][out[k].i] = out[k].tok
  <2>1. PICK m \in DOMAIN table : out[k] = table[m] /\ table[m].tok \notin S
    BY <1>1 DEF KeptOf
  <2>2. table[m].b \in Bots /\ table[m].i \in Items
    BY RowFields
  <2> QED BY <1>2, <2>1, <2>2 DEF Agree
<1>4. ASSUME NEW b \in Bots, NEW i \in Items, rest[b][i] # 0
      PROVE  \E k \in DOMAIN out : out[k].tok = rest[b][i] /\ out[k].b = b /\ out[k].i = i
  <2>1. idx[b][i] \notin S /\ rest[b][i] = idx[b][i]
    BY <1>2, <1>4
  <2>2. PICK m \in DOMAIN table : table[m].tok = idx[b][i] /\ table[m].b = b /\ table[m].i = i
    BY <1>4, <2>1 DEF Agree
  <2>3. PICK k \in DOMAIN out : out[k] = table[m]
    BY <1>1, <2>1, <2>2 DEF KeptOf
  <2> QED BY <2>1, <2>2, <2>3
<1> QED BY <1>1, <1>3, <1>4 DEF Agree, KeptOf, out, rest

(* An entry comes, for a bot and a file that have none.                    *)
LEMMA AddAgrees ==
  ASSUME NEW table \in Seq(Row), NEW idx \in [Bots -> [Items -> Nat]], NEW top \in Nat,
         Agree(table, idx, top), NEW e \in Row, NEW new \in Nat, top <= new, e.tok <= new,
         \A k \in DOMAIN table : table[k].tok # e.tok, idx[e.b][e.i] = 0
  PROVE  Agree(Append(table, e), [idx EXCEPT ![e.b][e.i] = e.tok], new)
<1> DEFINE all == Append(table, e)
           idx2 == [idx EXCEPT ![e.b][e.i] = e.tok]
<1>1. /\ DOMAIN all = DOMAIN table \cup {Len(table) + 1} /\ all[Len(table) + 1] = e
      /\ \A k \in DOMAIN table : all[k] = table[k]
  OBVIOUS
<1>2. e.b \in Bots /\ e.i \in Items /\ e.tok \in Nat \ {0}
  BY DEF Row
<1>3. \A b \in Bots, i \in Items : idx2[b][i] = IF b = e.b /\ i = e.i THEN e.tok ELSE idx[b][i]
  BY <1>2
<1> HIDE DEF all, idx2
<1>4. ASSUME NEW k \in DOMAIN all
      PROVE  all[k].tok <= new /\ idx2[all[k].b][all[k].i] = all[k].tok
  <2>1. CASE k \in DOMAIN table
    <3>1. /\ table[k].tok \in Nat \ {0} /\ table[k].b \in Bots /\ table[k].i \in Items
      BY <2>1, RowFields
    <3>2. table[k].tok <= top /\ idx[table[k].b][table[k].i] = table[k].tok
      BY <2>1 DEF Agree
    <3>3. ~(table[k].b = e.b /\ table[k].i = e.i)
      BY <3>1, <3>2
    <3>4. idx2[table[k].b][table[k].i] = table[k].tok
      BY <1>3, <3>1, <3>2, <3>3
    <3> QED BY <1>1, <2>1, <3>1, <3>2, <3>4
  <2>2. CASE k = Len(table) + 1
    BY <1>1, <1>2, <1>3, <2>2
  <2> QED BY <1>1, <2>1, <2>2
<1>5. Distinct(all)
  BY <1>1 DEF Agree, Distinct
<1>6. ASSUME NEW b \in Bots, NEW i \in Items, idx2[b][i] # 0
      PROVE  \E k \in DOMAIN all : all[k].tok = idx2[b][i] /\ all[k].b = b /\ all[k].i = i
  <2>1. CASE b = e.b /\ i = e.i
    BY <1>1, <1>2, <1>3, <2>1
  <2>2. CASE ~(b = e.b /\ i = e.i)
    <3>1. idx2[b][i] = idx[b][i]
      BY <1>3, <2>2
    <3>2. PICK k \in DOMAIN table : table[k].tok = idx[b][i] /\ table[k].b = b /\ table[k].i = i
      BY <1>6, <3>1 DEF Agree
    <3> QED BY <1>1, <3>1, <3>2
  <2> QED BY <2>1, <2>2
<1> QED BY <1>4, <1>5, <1>6 DEF Agree, all, idx2

(* The oldest entries go.                                                  *)
LEMMA DropAgrees ==
  ASSUME NEW table \in Seq(Row), NEW idx \in [Bots -> [Items -> Nat]], NEW top \in Nat,
         Agree(table, idx, top), NEW n \in 0 .. Len(table)
  PROVE  Agree(SubSeq(table, n + 1, Len(table)),
               WithoutTokens({table[k].tok : k \in 1 .. n}, idx), top)
<1> DEFINE out == SubSeq(table, n + 1, Len(table))
           gone == {table[k].tok : k \in 1 .. n}
           rest == WithoutTokens(gone, idx)
<1>1. /\ DOMAIN out = 1 .. (Len(table) - n) /\ Len(table) \in Nat /\ n \in Nat
      /\ DOMAIN table = 1 .. Len(table)
      /\ \A k \in DOMAIN out : out[k] = table[n + k] /\ n + k \in DOMAIN table /\ n + k \notin 1 .. n
  OBVIOUS
<1>2. \A b \in Bots, i \in Items : rest[b][i] = IF idx[b][i] \in gone THEN 0 ELSE idx[b][i]
  BY DEF WithoutTokens
<1>3. ASSUME NEW m \in DOMAIN table, m \notin 1 .. n PROVE table[m].tok \notin gone
  <2> SUFFICES ASSUME NEW k \in 1 .. n, table[k].tok = table[m].tok PROVE FALSE
    OBVIOUS
  <2>1. k \in DOMAIN table
    BY <1>1
  <2> QED BY <1>3, <2>1 DEF Agree, Distinct
<1>4. \A k \in 1 .. n : table[k].tok \in gone
  OBVIOUS
<1> HIDE DEF out, gone, rest
<1>5. ASSUME NEW k \in DOMAIN out
      PROVE  out[k].tok <= top /\ rest[out[k].b][out[k].i] = out[k].tok
  <2> DEFINE m == n + k
  <2>1. m \in DOMAIN table /\ m \notin 1 .. n /\ out[k] = table[m]
    BY <1>1
  <2> HIDE DEF m
  <2>2. table[m].b \in Bots /\ table[m].i \in Items
    BY <2>1, RowFields
  <2>3. table[m].tok \notin gone
    BY <1>3, <2>1
  <2>4. table[m].tok <= top /\ idx[table[m].b][table[m].i] = table[m].tok
    BY <2>1 DEF Agree
  <2> QED BY <1>2, <2>1, <2>2, <2>3, <2>4
<1>6. Distinct(out)
  <2> SUFFICES ASSUME NEW k \in DOMAIN out, NEW l \in DOMAIN out, out[k].tok = out[l].tok
               PROVE  k = l
    BY DEF Distinct
  <2>1. n + k \in DOMAIN table /\ n + l \in DOMAIN table /\ table[n + k].tok = table[n + l].tok
    BY <1>1
  <2>2. n + k = n + l
    BY <2>1 DEF Agree, Distinct
  <2> QED BY <1>1, <2>2
<1>7. ASSUME NEW b \in Bots, NEW i \in Items, rest[b][i] # 0
      PROVE  \E k \in DOMAIN out : out[k].tok = rest[b][i] /\ out[k].b = b /\ out[k].i = i
  <2>1. idx[b][i] \notin gone /\ rest[b][i] = idx[b][i]
    BY <1>2, <1>7
  <2>2. PICK m \in DOMAIN table : table[m].tok = idx[b][i] /\ table[m].b = b /\ table[m].i = i
    BY <1>7, <2>1 DEF Agree
  <2>3. m \notin 1 .. n
    BY <1>4, <2>1, <2>2
  <2>4. m - n \in DOMAIN out /\ out[m - n] = table[m]
    BY <1>1, <2>2, <2>3
  <2> QED BY <2>1, <2>2, <2>4
<1> QED BY <1>5, <1>6, <1>7 DEF Agree, out, gone, rest

(* The tokens of a table that agrees with its index tell its entries' bots   *)
(* and files apart.                                                        *)
LEMMA TokenOnce ==
  ASSUME NEW table, NEW idx, NEW top, Agree(table, idx, top),
         NEW b \in Bots, NEW i \in Items, NEW c \in Bots, NEW j \in Items,
         idx[b][i] # 0, idx[b][i] = idx[c][j]
  PROVE  b = c /\ i = j
<1>1. PICK k \in DOMAIN table : table[k].tok = idx[b][i] /\ table[k].b = b /\ table[k].i = i
  BY DEF Agree
<1>2. PICK n \in DOMAIN table : table[n].tok = idx[c][j] /\ table[n].b = c /\ table[n].i = j
  BY DEF Agree
<1> QED BY <1>1, <1>2 DEF Agree, Distinct

(* An entry takes the place of the one that its bot and file had.          *)
LEMMA ReplaceAgrees ==
  ASSUME NEW table \in Seq(Row), NEW idx \in [Bots -> [Items -> Nat]], NEW top \in Nat,
         Agree(table, idx, top), NEW e \in Row, NEW new \in Nat, top <= new, e.tok <= new,
         \/ e.tok = idx[e.b][e.i]
         \/ top < e.tok
  PROVE  Agree(Append(WithoutEntries({idx[e.b][e.i]}, table), e),
               [idx EXCEPT ![e.b][e.i] = e.tok], new)
<1> DEFINE S == {idx[e.b][e.i]}
           rest == WithoutEntries(S, table)
           free == WithoutTokens(S, idx)
           idx2 == [idx EXCEPT ![e.b][e.i] = e.tok]
<1>1. e.b \in Bots /\ e.i \in Items /\ e.tok \in Nat \ {0}
  BY DEF Row
<1>2. Agree(rest, free, top)
  BY RemoveAgrees
<1>3. KeptOf(rest, S, table, Len(table)) /\ DOMAIN table = 1 .. Len(table)
  BY WithoutFacts DEF Agree
<1>4. free \in [Bots -> [Items -> Nat]]
  BY DEF WithoutTokens
<1>5. free[e.b][e.i] = 0
  BY <1>1 DEF WithoutTokens
<1>6. \A k \in DOMAIN rest : rest[k].tok # e.tok
  <2> SUFFICES ASSUME NEW k \in DOMAIN rest, rest[k].tok = e.tok PROVE FALSE
    OBVIOUS
  <2>1. PICK m \in DOMAIN table : rest[k] = table[m] /\ table[m].tok \notin S
    <3> HIDE DEF rest, S
    <3> QED BY <1>3 DEF KeptOf
  <2>2. table[m].tok <= top /\ table[m].tok \in Nat
    BY RowFields DEF Agree
  <2> QED BY <1>1, <2>1, <2>2
<1>7. [free EXCEPT ![e.b][e.i] = e.tok] = idx2
  <2>1. ASSUME NEW b \in Bots, NEW i \in Items, ~(b = e.b /\ i = e.i)
        PROVE  free[b][i] = idx[b][i]
    <3>1. idx[b][i] = idx[e.b][e.i] => idx[b][i] = 0
      BY <1>1, <2>1, TokenOnce
    <3> QED BY <3>1 DEF WithoutTokens
  <2> HIDE DEF free, S
  <2>2. \A b \in Bots : [free EXCEPT ![e.b][e.i] = e.tok][b] = idx2[b]
    <3> SUFFICES ASSUME NEW b \in Bots PROVE [free EXCEPT ![e.b][e.i] = e.tok][b] = idx2[b]
      OBVIOUS
    <3>1. CASE b = e.b
      <4>1. free[b] \in [Items -> Nat] /\ idx[b] \in [Items -> Nat]
        BY <1>4
      <4>2. \A i \in Items : i # e.i => free[b][i] = idx[b][i]
        BY <2>1, <3>1
      <4>3. [free[b] EXCEPT ![e.i] = e.tok] = [idx[b] EXCEPT ![e.i] = e.tok]
        BY <4>1, <4>2
      <4> QED BY <1>1, <1>4, <3>1, <4>3
    <3>2. CASE b # e.b
      <4>1. free[b] \in [Items -> Nat] /\ idx[b] \in [Items -> Nat]
        BY <1>4
      <4>2. \A i \in Items : free[b][i] = idx[b][i]
        BY <2>1, <3>2
      <4>3. free[b] = idx[b]
        BY <4>1, <4>2
      <4> QED BY <1>1, <1>4, <3>2, <4>3
    <3> QED BY <3>1, <3>2
  <2> QED BY <1>1, <1>4, <2>2
<1>8. rest \in Seq(Row)
  BY <1>3 DEF KeptOf
<1> HIDE DEF S, rest, free, idx2
<1>9. Agree(Append(rest, e), [free EXCEPT ![e.b][e.i] = e.tok], new)
  BY <1>2, <1>4, <1>5, <1>6, <1>8, AddAgrees
<1> QED BY <1>7, <1>9 DEF S, rest, idx2

(* A publication keeps table and index in agreement.                       *)
LEMMA PublishIndexed ==
  ASSUME MediaAssumption, TypeOK, Indexed, NEW b \in Bots, NEW i \in Items, NEW v \in Nat,
         Publish(b, i, v)
  PROVE  Indexed'
<1> DEFINE x == index[b][i]
           others == WithoutEntries({x}, pub)
<1>1. /\ pub \in Seq(Row) /\ index \in [Bots -> [Items -> Nat]] /\ token \in Nat /\ x \in Nat
      /\ Agree(pub, index, token) /\ Len(pub) <= MaxPub /\ Len(pub) \in Nat
      /\ MaxPub \in Nat /\ MaxPub # 0
  BY TableTypes, IndexedIs DEF MediaAssumption
<1>2. KeptOf(others, {x}, pub, Len(pub)) /\ DOMAIN pub = 1 .. Len(pub)
  BY <1>1, WithoutFacts DEF Agree
<1>3. others \in Seq(Row) /\ Len(others) \in Nat
  BY <1>2 DEF KeptOf
<1>4. CASE /\ Current(b, i, v) /\ pub' = Append(others, Entry(x, b, i, v))
           /\ UNCHANGED <<index, token>>
  <2> DEFINE e == Entry(x, b, i, v)
  <2>1. PICK k \in DOMAIN pub : pub[k].tok = x
    BY <1>4 DEF Current
  <2>2. x # 0 /\ x <= token
    BY <1>1, <2>1, RowFields DEF Agree
  <2>3. e \in Row /\ e.tok = x /\ e.b = b /\ e.i = i
    BY <1>1, <2>2 DEF Entry, Row
  <2>4. Len(others) < Len(pub)
    <3> HIDE DEF others, x
    <3> QED BY <1>2, <2>1 DEF KeptOf
  <2>5. Len(pub') <= MaxPub
    <3> HIDE DEF others, e
    <3> QED BY <1>1, <1>3, <1>4, <2>4 DEF e
  <2>6. [index EXCEPT ![b][i] = x] = index
    BY <1>1
  <2> HIDE DEF e
  <2>7. Agree(Append(WithoutEntries({index[e.b][e.i]}, pub), e),
              [index EXCEPT ![e.b][e.i] = e.tok], token)
    <3>1. e.tok = index[e.b][e.i] /\ e.tok <= token /\ token <= token
      BY <1>1, <2>2, <2>3
    <3> HIDE DEF x, others
    <3> QED BY <1>1, <2>3, <3>1, ReplaceAgrees
  <2>8. Agree(pub', index', token')
    BY <1>4, <2>3, <2>6, <2>7 DEF e
  <2> QED BY <2>5, <2>8, IndexedNext
<1> DEFINE e == Entry(token + 1, b, i, v)
           all == Append(others, e)
           over == IF Len(all) > MaxPub THEN Len(all) - MaxPub ELSE 0
           gone == {all[k].tok : k \in 1 .. over}
           idx == [index EXCEPT ![b][i] = token + 1]
<1>5. CASE /\ token' = token + 1
           /\ pub' = SubSeq(all, over + 1, Len(all))
           /\ index' = WithoutTokens(gone, idx)
  <2>1. e \in Row /\ e.tok = token + 1 /\ e.b = b /\ e.i = i
    BY <1>1 DEF Entry, Row
  <2>2. all \in Seq(Row) /\ Len(all) \in Nat
    <3> HIDE DEF e, others
    <3> QED BY <1>3, <2>1
  <2>3. idx \in [Bots -> [Items -> Nat]]
    BY <1>1
  <2> HIDE DEF e
  <2>4. Agree(Append(WithoutEntries({index[e.b][e.i]}, pub), e),
              [index EXCEPT ![e.b][e.i] = e.tok], token + 1)
    <3>1. /\ e.tok <= token + 1 /\ token <= token + 1 /\ token < e.tok
          /\ token + 1 \in Nat
      BY <1>1, <2>1
    <3> HIDE DEF x, others
    <3> QED BY <1>1, <2>1, <3>1, ReplaceAgrees
  <2>5. Agree(all, idx, token + 1)
    BY <2>1, <2>4
  <2> HIDE DEF all, idx
  <2>6. over \in 0 .. Len(all) /\ Len(all) - over <= MaxPub
    BY <1>1, <2>2
  <2> HIDE DEF over
  <2>7. Agree(SubSeq(all, over + 1, Len(all)), WithoutTokens(gone, idx), token + 1)
    <3>1. token + 1 \in Nat
      BY <1>1
    <3> HIDE DEF x, others
    <3> QED BY <2>2, <2>3, <2>5, <2>6, <3>1, DropAgrees
  <2>8. Len(SubSeq(all, over + 1, Len(all))) = Len(all) - over
    BY <2>2, <2>6
  <2> HIDE DEF gone
  <2> QED BY <1>5, <2>6, <2>7, <2>8, IndexedNext
<1> QED BY <1>4, <1>5, PublishCases

(* A stop removes the URLs of the bot.                                     *)
LEMMA StopIndexed ==
  ASSUME MediaAssumption, TypeOK, Indexed, NEW b \in Bots, StopBot(b)
  PROVE  Indexed' /\ UrlTypes'
<1> DEFINE S == TokensOf(b)
<1>1. /\ pub \in Seq(Row) /\ index \in [Bots -> [Items -> Nat]] /\ token \in Nat
      /\ Agree(pub, index, token) /\ Len(pub) <= MaxPub /\ Len(pub) \in Nat
  BY TableTypes, IndexedIs
<1>2. /\ pub' = WithoutEntries(S, pub) /\ index' = WithoutTokens(S, index) /\ token' = token
  BY DEF StopBot
<1> HIDE DEF S
<1>3. KeptOf(pub', S, pub, Len(pub))
  BY <1>1, <1>2, WithoutFacts DEF Agree
<1>4. Agree(pub', index', token')
  BY <1>1, <1>2, RemoveAgrees
<1>5. Indexed'
  <2>1. Len(pub') \in Nat /\ Len(pub') <= Len(pub)
    BY <1>3 DEF KeptOf
  <2>2. Len(pub') <= MaxPub
    BY <1>1, <2>1 DEF MediaAssumption
  <2> QED BY <1>4, <2>2, IndexedNext
<1>6. UrlTypes'
  BY <1>1, <1>2, WithoutType DEF UrlTypes
<1> QED BY <1>5, <1>6

(* A fetched URL moves its entry to the end or removes it.                 *)
LEMMA ResolveIndexed ==
  ASSUME MediaAssumption, TypeOK, Indexed, NEW k \in DOMAIN pub, Resolve(k)
  PROVE  Indexed' /\ UrlTypes'
<1> DEFINE e == pub[k]
           S == {e.tok}
           rest == WithoutEntries(S, pub)
<1>1. /\ pub \in Seq(Row) /\ index \in [Bots -> [Items -> Nat]] /\ token \in Nat
      /\ Agree(pub, index, token) /\ Len(pub) <= MaxPub /\ Len(pub) \in Nat /\ MaxPub \in Nat
  BY TableTypes, IndexedIs DEF MediaAssumption
<1>2. KeptOf(rest, S, pub, Len(pub)) /\ DOMAIN pub = 1 .. Len(pub)
  BY <1>1, WithoutFacts DEF Agree
<1>3. /\ e \in Row /\ e.tok \in Nat \ {0} /\ e.tok <= token /\ e.b \in Bots /\ e.i \in Items
      /\ index[e.b][e.i] = e.tok
  BY <1>1, RowFields DEF Agree
<1>4. rest \in Seq(Row) /\ Len(rest) \in Nat
  BY <1>2 DEF KeptOf
<1>5. Len(rest) < Len(pub)
  <2>1. k \in 1 .. Len(pub) /\ pub[k].tok \in S
    BY <1>2
  <2> HIDE DEF rest, S
  <2> QED BY <1>2, <2>1 DEF KeptOf
<1>6. \/ pub' = Append(rest, e) /\ index' = index /\ token' = token
      \/ pub' = rest /\ index' = WithoutTokens(S, index) /\ token' = token
  BY DEF Resolve
<1>7. CASE pub' = Append(rest, e) /\ index' = index /\ token' = token
  <2>1. [index EXCEPT ![e.b][e.i] = e.tok] = index
    BY <1>1, <1>3
  <2> DEFINE all == Append(WithoutEntries({index[e.b][e.i]}, pub), e)
  <2>2. pub' = all
    BY <1>3, <1>7
  <2> HIDE DEF e, all, rest, S
  <2>3. Agree(all, [index EXCEPT ![e.b][e.i] = e.tok], token)
    <3>1. token <= token
      BY <1>1
    <3> QED BY <1>1, <1>3, <3>1, ReplaceAgrees DEF all
  <2>4. Agree(pub', index', token')
    BY <1>7, <2>1, <2>2, <2>3
  <2> HIDE DEF rest
  <2>5. Len(pub') = Len(rest) + 1 /\ pub' \in Seq(Row)
    BY <1>3, <1>4, <1>7
  <2>6. Len(pub') <= MaxPub
    BY <1>1, <1>4, <1>5, <2>5
  <2> QED BY <1>1, <1>7, <2>4, <2>5, <2>6, IndexedNext DEF UrlTypes
<1>8. CASE pub' = rest /\ index' = WithoutTokens(S, index) /\ token' = token
  <2>1. Agree(pub', index', token')
    <3> HIDE DEF S
    <3> QED BY <1>1, <1>8, RemoveAgrees
  <2>2. Len(pub') <= MaxPub
    BY <1>1, <1>4, <1>5, <1>8
  <2>3. index' \in [Bots -> [Items -> Nat]]
    BY <1>8, WithoutType
  <2> HIDE DEF rest
  <2> QED BY <1>1, <1>4, <1>8, <2>1, <2>2, <2>3, IndexedNext DEF UrlTypes
<1> QED BY <1>6, <1>7, <1>8

(* Table and index through every step.                                     *)
LEMMA UrlStep ==
  ASSUME MediaAssumption, TypeOK, Indexed, AtWork, FileTypes', Next
  PROVE  Indexed' /\ UrlTypes'
<1>1. CASE UNCHANGED urls
  <2>1. UNCHANGED <<pub, index, token>>
    BY <1>1 DEF urls
  <2>2. UrlTypes
    BY TypeParts
  <2> QED BY <2>1, <2>2 DEF UrlTypes, Indexed
<1>2. CASE \E b \in Bots : StopBot(b)
  BY <1>2, StopIndexed
<1>3. CASE \E k \in DOMAIN pub : Resolve(k)
  BY <1>3, ResolveIndexed
<1>4. ASSUME NEW t \in Tasks, task[t].i \in Enc, task[t].pc = "have",
             Publish(task[t].b, task[t].i, file[task[t].i])
      PROVE  Indexed' /\ UrlTypes'
  <2>1. task[t].b \in Bots /\ task[t].i \in Items /\ file[task[t].i] \in Nat
    BY <1>4, TaskFields DEF TypeOK
  <2> QED BY <1>4, <2>1, PublishIndexed, PublishType DEF UrlTypes
<1>5. ASSUME NEW b \in Bots, NEW i \in Enc, Publish(b, i, file'[i])
      PROVE  Indexed' /\ UrlTypes'
  <2>1. i \in Items /\ file'[i] \in Nat
    BY DEF Items, FileTypes
  <2> QED BY <1>5, <2>1, PublishIndexed, PublishType DEF UrlTypes
<1> QED BY <1>1, <1>2, <1>3, <1>4, <1>5, UrlCases

----------------------------------------------------------------------------
(* What was posted for a task, and who is served                           *)

(* A step of one task at work: it goes on with nothing posted, or it ends  *)
(* with at most one message posted, and exactly one if the caller is told  *)
(* that it was sent.                                                       *)
WorksOn(t) ==
  /\ UNCHANGED <<bot, coord, cut, flight>>
  /\ \A u \in Tasks \ {t} : task'[u] = task[u] /\ told'[u] = told[u] /\ posted'[u] = posted[u]
  /\ \/ /\ task'[t].pc \notin {"idle", "wait"}
        /\ task'[t].b = task[t].b /\ task'[t].i = task[t].i
        /\ told'[t] = told[t] /\ posted'[t] = posted[t]
     \/ /\ task'[t].pc = "idle" /\ told'[t] # "nothing"
        /\ posted'[t] \in {posted[t], posted[t] + 1}
        /\ told'[t] = "sent" => posted'[t] = posted[t] + 1

(* A task's end.                                                           *)
LEMMA FinishedFacts ==
  ASSUME SendTypes, NEW t \in Tasks, NEW what, Finished(t, what)
  PROVE  /\ \A u \in Tasks \ {t} : task'[u] = task[u] /\ told'[u] = told[u]
         /\ task'[t].pc = "idle" /\ told'[t] = what
  BY DEF SendTypes, Finished, Idle

(* A post.                                                                 *)
LEMMA PostsFacts ==
  ASSUME SendTypes, NEW t \in Tasks, Posts(t) \/ UNCHANGED posted
  PROVE  /\ \A u \in Tasks \ {t} : posted'[u] = posted[u]
         /\ posted'[t] \in {posted[t], posted[t] + 1}
         /\ Posts(t) => posted'[t] = posted[t] + 1
         /\ UNCHANGED posted => posted'[t] = posted[t]
  BY DEF SendTypes, Posts

(* The other endpoint, or the end, with nothing posted.                    *)
LEMMA FallBackFacts ==
  ASSUME SendTypes, NEW t \in Tasks, NEW incompatible, GiveUpOrFallBack(t, incompatible)
  PROVE  /\ \A u \in Tasks \ {t} : task'[u] = task[u] /\ told'[u] = told[u]
         /\ \/ /\ task'[t].pc = "upload" /\ task'[t].b = task[t].b /\ task'[t].i = task[t].i
               /\ told'[t] = told[t] /\ incompatible
            \/ task'[t].pc = "idle" /\ told'[t] = "failed"
<1>1. CASE Finished(t, "failed")
  BY <1>1, FinishedFacts
<1>2. CASE /\ task' = [task EXCEPT ![t].pc = "upload", ![t].ep = Other(@), ![t].fell = TRUE]
           /\ UNCHANGED told /\ incompatible
  <2>1. task[t] \in Job
    BY DEF SendTypes
  <2> QED BY <1>2, <2>1 DEF SendTypes, Job
<1> QED BY <1>1, <1>2 DEF GiveUpOrFallBack

(* Whoever receives, or begins an upload.                                  *)
LEMMA BeginsWork ==
  ASSUME TypeOK, AtWork, NEW t \in Tasks,
         Receive(t) \/ StartUpload(t, TRUE) \/ StartUpload(t, FALSE)
  PROVE  WorksOn(t) /\ task[t].pc # "idle"
<1>1. SendTypes
  BY TypeParts
<1>2. CASE Receive(t)
  <2>1. UNCHANGED <<bot, coord, cut, flight, posted>>
    BY <1>2 DEF Receive, cache
  <2>2. posted'[t] = posted[t] /\ posted[t] \in Nat
    BY <1>1, <2>1 DEF SendTypes
  <2>3. /\ \A u \in Tasks \ {t} : task'[u] = task[u] /\ told'[u] = told[u]
        /\ task'[t].pc = "idle" /\ told'[t] = "received" /\ task[t].pc # "idle"
    BY <1>1, <1>2 DEF Receive, SendTypes, Idle
  <2> QED BY <2>1, <2>2, <2>3 DEF WorksOn
<1>3. ASSUME NEW e2ee \in BOOLEAN, StartUpload(t, e2ee) PROVE WorksOn(t) /\ task[t].pc # "idle"
  <2>1. UNCHANGED <<bot, coord, cut, flight, posted>> /\ task[t].pc \in {"none", "have"}
    BY <1>3 DEF StartUpload, cache
  <2>2. posted'[t] = posted[t] /\ task[t] \in Job
    BY <1>1, <2>1 DEF SendTypes
  <2>3. CASE Finished(t, "failed")
    BY <1>1, <2>1, <2>2, <2>3, FinishedFacts DEF WorksOn
  <2>4. CASE task' = [task EXCEPT ![t].pc = "text"] /\ UNCHANGED told
    BY <1>1, <2>1, <2>2, <2>4 DEF WorksOn, SendTypes, Job
  <2>5. CASE /\ task' = [task EXCEPT ![t].pc = "upload", ![t].e2ee = e2ee,
                                     ![t].ep = IF e2ee THEN Modern ELSE Primary(task[t].b)]
             /\ UNCHANGED told
    <3>1. /\ \A u \in Tasks \ {t} : task'[u] = task[u]
          /\ task'[t].pc = "upload" /\ task'[t].b = task[t].b /\ task'[t].i = task[t].i
      BY <1>1, <2>2, <2>5 DEF SendTypes, Job
    <3> QED BY <2>1, <2>2, <2>5, <3>1 DEF WorksOn
  <2> QED BY <1>3, <2>1, <2>3, <2>4, <2>5 DEF StartUpload
<1> QED BY <1>2, <1>3

(* Whoever uploads.                                                        *)
LEMMA Uploads ==
  ASSUME TypeOK, AtWork, NEW t \in Tasks, NEW a \in Answers, UploadAnswered(t, a)
  PROVE  WorksOn(t) /\ task[t].pc # "idle"
<1>1. SendTypes /\ UNCHANGED <<bot, coord, cut, flight>> /\ task[t].pc = "upload"
  BY TypeParts DEF UploadAnswered, cache
<1>2. task[t] \in Job /\ posted[t] \in Nat
  BY <1>1 DEF SendTypes
<1>3. CASE GiveUpOrFallBack(t, a = "incompatible") /\ UNCHANGED posted
  BY <1>1, <1>2, <1>3, FallBackFacts, PostsFacts DEF WorksOn
<1>4. CASE /\ Posts(t) \/ UNCHANGED posted
           /\ GiveUpOrFallBack(t, FALSE)
  <2>1. /\ \A u \in Tasks \ {t} : task'[u] = task[u] /\ told'[u] = told[u]
        /\ task'[t].pc = "idle" /\ told'[t] = "failed"
    BY <1>1, <1>4, FallBackFacts
  <2> QED BY <1>1, <1>2, <1>4, <2>1, PostsFacts DEF WorksOn
<1>5. CASE Posts(t) /\ Finished(t, "sent")
  BY <1>1, <1>2, <1>5, FinishedFacts, PostsFacts DEF WorksOn
<1>6. CASE task' = [task EXCEPT ![t].pc = "confirm"] /\ UNCHANGED <<posted, told>>
  BY <1>1, <1>2, <1>6 DEF WorksOn, SendTypes, Job
<1> QED BY <1>1, <1>3, <1>4, <1>5, <1>6 DEF UploadAnswered

(* Whoever confirms an upload, or posts a link.                            *)
LEMMA Confirms ==
  ASSUME TypeOK, AtWork, NEW t \in Tasks, NEW a \in Answers,
         ConfirmAnswered(t, a) \/ TextAnswered(t, a)
  PROVE  WorksOn(t) /\ task[t].pc # "idle"
<1>1. /\ SendTypes /\ UNCHANGED <<bot, coord, cut, flight>> /\ task[t].pc \in {"confirm", "text"}
      /\ task[t] \in Job
  <2>1. SendTypes
    BY TypeParts
  <2> QED BY <2>1 DEF ConfirmAnswered, TextAnswered, cache, SendTypes
<1>2. posted[t] \in Nat
  BY <1>1 DEF SendTypes
<1>3. CASE Posts(t) /\ (Finished(t, "sent") \/ Finished(t, "failed"))
  BY <1>1, <1>2, <1>3, FinishedFacts, PostsFacts DEF WorksOn
<1>4. CASE UNCHANGED posted /\ Finished(t, "failed")
  BY <1>1, <1>2, <1>4, FinishedFacts, PostsFacts DEF WorksOn
<1>5. CASE UNCHANGED posted /\ GiveUpOrFallBack(t, TRUE)
  BY <1>1, <1>2, <1>5, FallBackFacts, PostsFacts DEF WorksOn
<1> QED BY <1>3, <1>4, <1>5 DEF ConfirmAnswered, TextAnswered

(* So a task at work has had nothing posted, and one that is over at most  *)
(* one message.                                                            *)
LEMMA WorkKeeps ==
  ASSUME MediaAssumption, TypeOK, AtWork, PostedOnce, MembersAreServed,
         NEW t \in Tasks, WorksOn(t), task[t].pc # "idle"
  PROVE  AtWork' /\ PostedOnce' /\ MembersAreServed'
<1>1. told[t] = "nothing" /\ posted[t] = 0 /\ posted'[t] \in {0, 1}
  BY DEF AtWork, WorksOn
<1>2. PostedOnce'
  BY <1>1 DEF PostedOnce, WorksOn
<1>3. AtWork'
  BY <1>1 DEF AtWork, WorksOn
<1>4. MembersAreServed'
  BY DEF MembersAreServed, WorksOn
<1> QED BY <1>2, <1>3, <1>4

(* The properties that the steps below preserve, besides the table.        *)
Working == AtWork /\ PostedOnce /\ MembersAreServed /\ (coord.started => coord.members # {})

(* The fields of the coordinator.                                          *)
LEMMA CoordFields ==
  ASSUME BotTypes
  PROVE  /\ coord \in [members : SUBSET Bots, owner : Bots \cup {None},
                       started : BOOLEAN, loop : BOOLEAN]
         /\ coord.members \subseteq Bots /\ coord.started \in BOOLEAN /\ coord.loop \in BOOLEAN
         /\ bot \in [Bots -> {"down", "starting", "up"}] /\ cut \in BOOLEAN
  BY DEF BotTypes

(* A bot starts: it has no task at work, and the first one to start sees   *)
(* to the cleanup loop.                                                    *)
LEMMA StartWorking ==
  ASSUME MediaAssumption, TypeOK, Working, NEW b \in Bots, StartBot(b)
  PROVE  Working'
<1>1. BotTypes /\ UNCHANGED <<task, posted, told, flight, cut>>
  BY TypeParts DEF StartBot
<1>2. /\ coord.members \subseteq Bots /\ bot \in [Bots -> {"down", "starting", "up"}]
      /\ bot[b] = "down"
  BY <1>1, CoordFields DEF StartBot
<1> DEFINE o == IF coord.owner = None THEN b ELSE coord.owner
           m == coord.members \cup {b}
<1>3. coord' = [coord EXCEPT !.members = m, !.owner = o, !.started = TRUE]
  BY DEF StartBot
<1> HIDE DEF o
<1>4. coord'.members = coord.members \cup {b} /\ coord'.loop = coord.loop
  BY <1>1, <1>3, CoordFields
<1>5. bot' = [bot EXCEPT ![b] = IF coord.started THEN "up" ELSE "starting"]
  BY DEF StartBot
<1>6. /\ \A c \in Bots \ {b} : bot'[c] = bot[c]
      /\ bot'[b] # "down" /\ (~coord.started => bot'[b] = "starting")
  BY <1>2, <1>5
<1>7. AtWork' /\ PostedOnce'
  <2>1. \A t \in Tasks : task[t].pc # "idle" => task[t].b # b
    BY <1>2 DEF Working, AtWork
  <2> QED BY <1>1, <1>6, <2>1 DEF Working, AtWork, PostedOnce
<1>8. coord'.members = {c \in Bots : bot'[c] # "down"}
  BY <1>2, <1>4, <1>6 DEF Working, MembersAreServed
<1>9. ~cut => coord'.loop \/ \E c \in Bots : bot'[c] = "starting"
  BY <1>2, <1>4, <1>6 DEF Working, MembersAreServed
<1> QED BY <1>1, <1>4, <1>7, <1>8, <1>9 DEF Working, MembersAreServed

(* A bot is up, and the loop runs.                                         *)
LEMMA LoopWorking ==
  ASSUME TypeOK, Working, NEW b \in Bots, StartLoop(b)
  PROVE  Working'
<1>1. BotTypes /\ UNCHANGED <<task, posted, told, flight, cut>>
  BY TypeParts DEF StartLoop, sends
<1>2. /\ bot \in [Bots -> {"down", "starting", "up"}] /\ bot[b] = "starting"
      /\ bot' = [bot EXCEPT ![b] = "up"]
  BY <1>1, CoordFields DEF StartLoop
<1>3. coord'.members = coord.members /\ coord'.loop /\ coord'.started = coord.started
  BY <1>1, CoordFields DEF StartLoop
<1>4. AtWork' /\ PostedOnce'
  BY <1>1, <1>2 DEF Working, AtWork, PostedOnce
<1>5. MembersAreServed'
  BY <1>1, <1>2, <1>3 DEF Working, MembersAreServed
<1> QED BY <1>3, <1>4, <1>5 DEF Working

(* A bot stops: its tasks end, and the downloads end with the last bot.    *)
LEMMA StopWorking ==
  ASSUME TypeOK, Working, NEW b \in Bots, StopBot(b)
  PROVE  Working'
<1>1. /\ BotTypes /\ SendTypes /\ UNCHANGED posted /\ bot[b] # "down"
      /\ bot' = [bot EXCEPT ![b] = "down"]
      /\ task' = [t \in Tasks |-> IF task[t].b = b THEN Idle ELSE task[t]]
      /\ told' = [t \in Tasks |-> IF task[t].b = b THEN "cancelled" ELSE told[t]]
      /\ cut' = (Left(b) # {} /\ (cut \/ bot[b] = "starting"))
  BY TypeParts DEF StopBot
<1>2. bot \in [Bots -> {"down", "starting", "up"}] /\ coord.members \subseteq Bots
  BY <1>1, CoordFields
<1>3. bot'[b] = "down" /\ \A c \in Bots \ {b} : bot'[c] = bot[c]
  BY <1>1, <1>2
<1>4. \A t \in Tasks : /\ task'[t].pc # "idle" => task'[t] = task[t] /\ task[t].b # b
                       /\ told'[t] = told[t] \/ told'[t] = "cancelled"
  BY <1>1 DEF Idle
<1>5. AtWork'
  BY <1>1, <1>3, <1>4 DEF Working, AtWork
<1>6. PostedOnce'
  BY <1>1, <1>4 DEF Working, PostedOnce
<1>7. Left(b) = {c \in Bots : bot'[c] # "down"}
  BY <1>2, <1>3 DEF Left, Working, MembersAreServed
<1>8. CASE Left(b) = {}
  <2>1. coord' = Fresh
    BY <1>8 DEF StopBot, Release
  <2>2. coord'.members = {} /\ coord'.loop = FALSE /\ coord'.started = FALSE
    BY <2>1 DEF Fresh
  <2>3. \A t \in Tasks : task'[t].pc # "wait"
    BY <1>5, <1>7, <1>8 DEF AtWork
  <2> QED BY <1>5, <1>6, <1>7, <1>8, <2>2, <2>3 DEF Working, MembersAreServed
<1>9. CASE Left(b) # {}
  <2> DEFINE o == IF coord.owner = b THEN CHOOSE c \in Left(b) : TRUE ELSE coord.owner
  <2>1. coord' = [coord EXCEPT !.members = Left(b), !.owner = o] /\ UNCHANGED flight
    BY <1>9 DEF StopBot, Release
  <2> HIDE DEF o
  <2>2. coord'.members = Left(b) /\ coord'.loop = coord.loop /\ coord'.started = coord.started
    BY <1>1, <2>1, CoordFields
  <2>3. \A t \in Tasks : task'[t].pc = "wait" => flight'[task'[t].i] # None
    BY <1>4, <2>1 DEF Working, MembersAreServed
  <2>4. ~cut' => coord'.loop \/ \E c \in Bots : bot'[c] = "starting"
    <3> SUFFICES ASSUME ~cut', ~coord'.loop PROVE \E c \in Bots : bot'[c] = "starting"
      OBVIOUS
    <3>1. ~cut /\ bot[b] # "starting" /\ ~coord.loop /\ coord.members # {}
      BY <1>1, <1>9, <2>2 DEF Left
    <3>2. PICK c \in Bots : bot[c] = "starting"
      BY <3>1 DEF Working, MembersAreServed
    <3> QED BY <1>3, <3>1, <3>2
  <2> QED BY <1>5, <1>6, <1>7, <1>9, <2>2, <2>3, <2>4 DEF Working, MembersAreServed
<1> QED BY <1>8, <1>9

(* A task joins a download or begins one.                                  *)
LEMMA JoinWorking ==
  ASSUME MediaAssumption, TypeOK, Working,
         NEW t \in Tasks, NEW b \in Bots, NEW i \in Items, Join(t, b, i)
  PROVE  Working'
<1>1. /\ SendTypes /\ FileTypes /\ UNCHANGED <<bot, coord, cut, posted, told>>
      /\ bot[b] = "up" /\ told[t] = "nothing"
      /\ flight' = [flight EXCEPT ![i] = IF @ = None THEN b ELSE @]
  BY TypeParts DEF Join, sends
<1>2. /\ task' = [task EXCEPT ![t] = [Idle EXCEPT !.pc = "wait", !.b = b, !.i = i]]
      /\ task \in [Tasks -> Job] /\ flight \in [Items -> Bots \cup {None}]
  BY <1>1 DEF Join, SendTypes, FileTypes
<1>3. /\ \A u \in Tasks \ {t} : task'[u] = task[u]
      /\ task'[t].pc = "wait" /\ task'[t].b = b /\ task'[t].i = i
  BY <1>2 DEF Idle
<1>4. flight'[i] # None /\ \A j \in Items \ {i} : flight'[j] = flight[j]
  BY <1>1, <1>2 DEF MediaAssumption
<1>5. AtWork' /\ PostedOnce'
  BY <1>1, <1>3 DEF Working, AtWork, PostedOnce
<1>6. \A u \in Tasks : task'[u].pc = "wait" => flight'[task'[u].i] # None
  BY <1>3, <1>4 DEF Working, AtWork, MembersAreServed
<1> QED BY <1>1, <1>5, <1>6 DEF Working, MembersAreServed

(* A download ends for all who waited for it.                              *)
LEMMA LandWorking ==
  ASSUME TypeOK, Working, NEW i \in Items, NEW ok \in BOOLEAN, Landed(i, ok)
  PROVE  Working'
<1>1. /\ SendTypes /\ FileTypes /\ UNCHANGED <<bot, coord, cut, posted, told>>
      /\ flight' = [flight EXCEPT ![i] = None] /\ flight \in [Items -> Bots \cup {None}]
      /\ task \in [Tasks -> Job]
      /\ task' = [t \in Tasks |->
                    IF task[t].pc # "wait" \/ task[t].i # i THEN task[t]
                    ELSE [task[t] EXCEPT !.pc = IF ok THEN "have" ELSE "none"]]
  <2>1. SendTypes /\ FileTypes
    BY TypeParts
  <2> QED BY <2>1 DEF Landed, sends, SendTypes, FileTypes
<1>2. \A t \in Tasks : \/ /\ task[t].pc # "wait" \/ task[t].i # i
                          /\ task'[t] = task[t]
                       \/ /\ task[t].pc = "wait" /\ task'[t].pc \in {"have", "none"}
                          /\ task'[t].b = task[t].b /\ task'[t].i = task[t].i
  <2> SUFFICES ASSUME NEW t \in Tasks
               PROVE  \/ /\ task[t].pc # "wait" \/ task[t].i # i
                         /\ task'[t] = task[t]
                      \/ /\ task[t].pc = "wait" /\ task'[t].pc \in {"have", "none"}
                         /\ task'[t].b = task[t].b /\ task'[t].i = task[t].i
    OBVIOUS
  <2>1. task[t] \in Job
    BY <1>1
  <2>2. CASE task[t].pc # "wait" \/ task[t].i # i
    BY <1>1, <2>2
  <2>3. CASE task[t].pc = "wait" /\ task[t].i = i
    <3>1. task'[t] = [task[t] EXCEPT !.pc = IF ok THEN "have" ELSE "none"]
      BY <1>1, <2>3
    <3> QED BY <2>1, <2>3, <3>1 DEF Job
  <2> QED BY <2>2, <2>3
<1>3. AtWork' /\ PostedOnce'
  BY <1>1, <1>2 DEF Working, AtWork, PostedOnce
<1>4. \A t \in Tasks : task'[t].pc = "wait" => flight'[task'[t].i] # None
  BY <1>1, <1>2 DEF Working, AtWork, MembersAreServed
<1> QED BY <1>1, <1>3, <1>4 DEF Working, MembersAreServed

(* Every step.                                                             *)
LEMMA WorkingStep ==
  ASSUME MediaAssumption, TypeOK, Working, Next
  PROVE  Working'
<1>1. CASE \E b \in Bots : StartBot(b) \/ StartLoop(b) \/ StopBot(b)
  BY <1>1, StartWorking, LoopWorking, StopWorking
<1>2. CASE \E t \in Tasks, b \in Bots, i \in Items : BeginReceive(t, b, i) \/ BeginSend(t, b, i)
  BY <1>2, JoinWorking DEF BeginReceive, BeginSend
<1>3. CASE \E i \in Items, ok \in BOOLEAN : DecryptEnds(i, ok) \/ DownloadEnds(i, ok)
  BY <1>3, LandWorking DEF DecryptEnds, DownloadEnds
<1>4. CASE \/ \E t \in Tasks : Receive(t) \/ StartUpload(t, TRUE) \/ StartUpload(t, FALSE)
           \/ \E t \in Tasks, a \in Answers :
                UploadAnswered(t, a) \/ ConfirmAnswered(t, a) \/ TextAnswered(t, a)
  <2>1. PICK t \in Tasks : WorksOn(t) /\ task[t].pc # "idle"
    BY <1>4, BeginsWork, Uploads, Confirms DEF Working
  <2>2. UNCHANGED coord
    BY <2>1 DEF WorksOn
  <2> QED BY <2>1, <2>2, WorkKeeps DEF Working
<1>5. CASE \/ CleanupAgain \/ CleanDone
           \/ \E i \in Items, how \in {"keep", "file", "temp"} : CleanNext(i, how)
           \/ \E b \in Bots, i \in Enc : Republish(b, i)
           \/ \E k \in DOMAIN pub : Resolve(k)
           \/ Upgrade
  <2>1. UNCHANGED <<bot, coord, cut, flight, task, posted, told>>
    BY <1>5 DEF CleanupAgain, CleanDone, CleanNext, Republish, Resolve, Upgrade, sends, cache
  <2> QED BY <2>1 DEF Working, AtWork, PostedOnce, MembersAreServed
<1> QED BY <1>1, <1>2, <1>3, <1>4, <1>5 DEF Next

----------------------------------------------------------------------------
(* The theorems                                                            *)

(* The invariant holds in the beginning.                                   *)
LEMMA InitMedia == ASSUME MediaAssumption, Init PROVE MediaInv
<1>1. TypeOK
  <2>1. BotTypes /\ FileTypes
    BY DEF Init, BotTypes, FileTypes, Fresh
  <2>2. UrlTypes
    BY DEF Init, UrlTypes
  <2>3. SendTypes
    BY IdleType DEF Init, SendTypes
  <2> QED BY <2>1, <2>2, <2>3, TypeParts
<1>2. Indexed
  BY DEF Init, Indexed, MediaAssumption
<1>3. AtWork /\ PostedOnce
  BY DEF Init, AtWork, PostedOnce, Idle
<1>4. MembersAreServed /\ (coord.started => coord.members # {})
  BY DEF Init, MembersAreServed, Idle, Fresh
<1> QED BY <1>1, <1>2, <1>3, <1>4 DEF MediaInv

(* and no step breaks it.                                                  *)
LEMMA NextMedia == ASSUME MediaAssumption, MediaInv, [Next]_vars PROVE MediaInv'
<1>1. TypeOK /\ Indexed /\ Working
  BY DEF MediaInv, Working
<1>2. CASE Next
  <2>1. BotTypes /\ FileTypes /\ UrlTypes /\ SendTypes /\ AtWork
    BY <1>1, TypeParts DEF Working
  <2>2. BotTypes' /\ FileTypes' /\ SendTypes'
    BY <1>1, <1>2, <2>1, BotTypesStep, FileSteps, SendSteps
  <2>3. Indexed' /\ UrlTypes'
    BY <1>1, <1>2, <2>1, <2>2, UrlStep
  <2>4. Working'
    BY <1>1, <1>2, WorkingStep
  <2> QED BY <2>2, <2>3, <2>4, TypePartsNext DEF MediaInv, Working
<1>3. CASE UNCHANGED vars
  BY <1>3 DEF vars, cache, urls, sends, MediaInv, TypeOK, Indexed, AtWork, PostedOnce,
              MembersAreServed
<1> QED BY <1>2, <1>3

(* The whole invariant of the media service.                               *)
THEOREM MediaInvariant == Spec => []MediaInv
<1>1. Init => MediaInv
  BY InitMedia, MediaAssumption
<1>2. MediaInv /\ [Next]_vars => MediaInv'
  BY NextMedia, MediaAssumption
<1> QED BY <1>1, <1>2, PTL DEF Spec

(* publish, resolve, invalidate_bot: the table of published files never    *)
(* outgrows its limit, and its index names just its entries.               *)
THEOREM IndexFollows == Spec => []IndexAgrees
<1>1. MediaInv => IndexAgrees
  BY DEF MediaInv, Indexed, IndexAgrees
<1> QED BY <1>1, MediaInvariant, PTL

(* upload_plain_file: nothing is posted twice for one send, whichever      *)
(* endpoint is missing or answer lost, and what was told sent was posted.  *)
THEOREM PostedAtMostOnce == Spec => []PostedOnce
<1>1. MediaInv => PostedOnce
  BY DEF MediaInv
<1> QED BY <1>1, MediaInvariant, PTL

(* MediaCacheCoordinator: a bot that leaves takes no download of another   *)
(* along, and the cleanup runs as long as a bot uses the cache.            *)
THEOREM WaitersServed == Spec => []MembersAreServed
<1>1. MediaInv => MembersAreServed
  BY DEF MediaInv
<1> QED BY <1>1, MediaInvariant, PTL
=============================================================================
