------------------------- MODULE PluginHost_proofs -------------------------
(***************************************************************************)
(* Proofs about PluginHost, for any plugins, bots, requests, workers and    *)
(* configurations.  The inductive invariant PluginInv joins five parts: the *)
(* stage of every operation (Roles, Changing), which bots are attached      *)
(* (Attached), what is bound and loaded (Binding), how bindings, hooks and  *)
(* instances account for each other unless a start was torn (Accounted),    *)
(* and what runs with respect to the files (Matching).                      *)
(*                                                                         *)
(* The order below: sequences; what each action does to the variables (the *)
(* ...Facts lemmas); types; how each part of the invariant passes through   *)
(* a step that leaves it alone (...Same, ...Other, ...Step); the invariant  *)
(* under each action (Sound...); the theorems.                              *)
(***************************************************************************)
EXTENDS PluginHost, FiniteSetTheorems, WellFoundedInduction, NaturalsInduction, TLAPS

----------------------------------------------------------------------------
(* Sequences                                                               *)

(* A property of the naturals that has a counterexample has a least one.   *)
LEMMA LeastNat ==
  ASSUME NEW T, T \subseteq Nat, T # {}
  PROVE  \E n \in T : \A m \in T : ~(m < n)
<1>1. PICK x \in T : \A y \in T : ~(<<y, x>> \in OpToRel(<, Nat))
  BY NatLessThanWellFounded, WFMin
<1> QED BY <1>1 DEF OpToRel

(* What the recursive definition in Kept says of its function.             *)
Keeps(f, s, S, len) ==
  f = [n \in 0 .. len |-> IF n = 0 THEN <<>>
                          ELSE IF s[n] \in S THEN Append(f[n - 1], s[n])
                          ELSE f[n - 1]]

(* There is such a function.                                               *)
LEMMA KeepsExists ==
  ASSUME NEW S, NEW s, NEW len \in Nat
  PROVE  \E f : Keeps(f, s, S, len)
<1> DEFINE Bad == {n \in Nat : ~\E f : Keeps(f, s, S, n)}
<1>1. SUFFICES ASSUME Bad # {} PROVE FALSE
  OBVIOUS
<1>2. Bad \subseteq Nat
  OBVIOUS
<1>3. PICK n \in Bad : \A m \in Bad : ~(m < n)
  <2> HIDE DEF Bad
  <2> QED BY <1>1, <1>2, LeastNat
<1>4. n # 0
  <2> SUFFICES ASSUME n = 0 PROVE FALSE
    OBVIOUS
  <2> DEFINE f == [k \in {0} |-> <<>>]
  <2>1. f = [k \in 0 .. 0 |-> IF k = 0 THEN <<>>
                              ELSE IF s[k] \in S THEN Append(f[k - 1], s[k])
                              ELSE f[k - 1]]
    OBVIOUS
  <2>2. Keeps(f, s, S, 0)
    BY <2>1 DEF Keeps
  <2> QED BY <2>2
<1>5. n - 1 \in Nat /\ n - 1 \notin Bad
  BY <1>3, <1>4
<1>6. PICK f : Keeps(f, s, S, n - 1)
  BY <1>5
<1> DEFINE Final == IF s[n] \in S THEN Append(f[n - 1], s[n]) ELSE f[n - 1]
           g == [k \in 0 .. n |-> IF k = n THEN Final ELSE f[k]]
<1>7. g = [k \in 0 .. n |-> IF k = 0 THEN <<>>
                            ELSE IF s[k] \in S THEN Append(g[k - 1], s[k])
                            ELSE g[k - 1]]
  <2>1. n \in Nat \ {0}
    BY <1>4
  <2>2. \A k \in 0 .. n - 1 : g[k] = f[k]
    BY <2>1
  <2>3. g[n] = Final /\ g[n - 1] = f[n - 1]
    BY <2>1, <2>2
  <2>4. f = [k \in 0 .. n - 1 |-> IF k = 0 THEN <<>>
                                  ELSE IF s[k] \in S THEN Append(f[k - 1], s[k])
                                  ELSE f[k - 1]]
    BY <1>6 DEF Keeps
  <2>5. \A k \in 0 .. n - 1 : f[k] = IF k = 0 THEN <<>>
                                     ELSE IF s[k] \in S THEN Append(f[k - 1], s[k])
                                     ELSE f[k - 1]
    BY <2>4
  <2>6. ASSUME NEW k \in 0 .. n
        PROVE  g[k] = IF k = 0 THEN <<>>
                      ELSE IF s[k] \in S THEN Append(g[k - 1], s[k])
                      ELSE g[k - 1]
    <3>1. CASE k = n
      BY <2>1, <2>3, <3>1
    <3>2. CASE k = 0
      <4>1. g[k] = f[0] /\ 0 \in 0 .. n - 1
        BY <2>1, <2>2, <3>2
      <4> QED BY <2>5, <3>2, <4>1
    <3>3. CASE k # n /\ k # 0
      <4>1. k \in 0 .. n - 1 /\ k - 1 \in 0 .. n - 1
        BY <2>1, <3>3
      <4>2. f[k] = IF s[k] \in S THEN Append(f[k - 1], s[k]) ELSE f[k - 1]
        BY <2>5, <3>3, <4>1
      <4>3. g[k] = f[k] /\ g[k - 1] = f[k - 1]
        BY <2>2, <4>1
      <4> QED BY <3>3, <4>2, <4>3
    <3> QED BY <3>1, <3>2, <3>3
  <2> QED BY <2>6
<1>8. Keeps(g, s, S, n)
  BY <1>7 DEF Keeps
<1> QED BY <1>8

(* The elements of the first n entries of s that are in S, and no two       *)
(* entries of the result from one entry of s.                              *)
KeptUpTo(out, s, S, T, n) ==
  /\ out \in Seq(T) /\ Len(out) <= n
  /\ \A k \in DOMAIN out : \E m \in 1 .. n : out[k] = s[m] /\ s[m] \in S
  /\ \A m \in 1 .. n : s[m] \in S => \E k \in DOMAIN out : out[k] = s[m]
  /\ \A j, k \in DOMAIN out : j # k => \E l, m \in 1 .. n : l # m /\ out[j] = s[l] /\ out[k] = s[m]

(* Up to here the kept elements are `out`; one outside S leaves them so.    *)
LEMMA KeptUpToSkip ==
  ASSUME NEW S, NEW T, NEW s \in Seq(T), NEW n \in 1 .. Len(s), NEW out,
         KeptUpTo(out, s, S, T, n - 1), s[n] \notin S
  PROVE  KeptUpTo(out, s, S, T, n)
<1>1. /\ Len(out) \in Nat /\ n \in Nat /\ n - 1 \in Nat
      /\ \A m \in 1 .. n : m \in 1 .. (n - 1) \/ m = n
      /\ \A m \in 1 .. (n - 1) : m \in 1 .. n
  BY DEF KeptUpTo
<1> QED BY <1>1 DEF KeptUpTo

(* One in S is appended.                                                    *)
LEMMA KeptUpToAppend ==
  ASSUME NEW S, NEW T, NEW s \in Seq(T), NEW n \in 1 .. Len(s), NEW out,
         KeptUpTo(out, s, S, T, n - 1), s[n] \in S
  PROVE  KeptUpTo(Append(out, s[n]), s, S, T, n)
<1> DEFINE new == Append(out, s[n])
<1>1. /\ out \in Seq(T) /\ Len(out) \in Nat /\ n \in Nat /\ n - 1 \in Nat /\ Len(out) <= n - 1
      /\ \A m \in 1 .. n : m \in 1 .. (n - 1) \/ m = n
      /\ \A m \in 1 .. (n - 1) : m \in 1 .. n /\ m # n
      /\ s[n] \in T /\ n \in 1 .. n
  BY DEF KeptUpTo
<1>2. /\ new \in Seq(T) /\ Len(new) = Len(out) + 1 /\ new[Len(out) + 1] = s[n]
      /\ DOMAIN new = DOMAIN out \cup {Len(out) + 1} /\ Len(out) + 1 \in DOMAIN new
      /\ \A k \in DOMAIN out : new[k] = out[k] /\ k \in DOMAIN new /\ k # Len(out) + 1
  BY <1>1
<1> HIDE DEF new
<1>3. ASSUME NEW k \in DOMAIN new PROVE \E m \in 1 .. n : new[k] = s[m] /\ s[m] \in S
  <2>1. CASE k = Len(out) + 1
    BY <1>1, <1>2, <2>1
  <2>2. CASE k \in DOMAIN out
    <3>1. PICK m \in 1 .. (n - 1) : out[k] = s[m] /\ s[m] \in S
      BY <2>2 DEF KeptUpTo
    <3> QED BY <1>1, <1>2, <2>2, <3>1
  <2> QED BY <1>2, <2>1, <2>2
<1>4. ASSUME NEW m \in 1 .. n, s[m] \in S PROVE \E k \in DOMAIN new : new[k] = s[m]
  <2>1. CASE m = n
    BY <1>2, <2>1
  <2>2. CASE m \in 1 .. (n - 1)
    <3>1. PICK k \in DOMAIN out : out[k] = s[m]
      BY <1>4, <2>2 DEF KeptUpTo
    <3> QED BY <1>2, <3>1
  <2> QED BY <1>1, <2>1, <2>2
<1>5. ASSUME NEW j \in DOMAIN new, NEW k \in DOMAIN new, j # k
      PROVE  \E l, m \in 1 .. n : l # m /\ new[j] = s[l] /\ new[k] = s[m]
  <2>1. CASE j \in DOMAIN out /\ k \in DOMAIN out
    <3>1. PICK l \in 1 .. (n - 1), m \in 1 .. (n - 1) : l # m /\ out[j] = s[l] /\ out[k] = s[m]
      BY <1>5, <2>1 DEF KeptUpTo
    <3>2. l \in 1 .. n /\ m \in 1 .. n /\ new[j] = s[l] /\ new[k] = s[m]
      BY <1>1, <1>2, <2>1, <3>1
    <3> QED BY <3>1, <3>2
  <2>2. CASE k = Len(out) + 1
    <3>1. PICK l \in 1 .. (n - 1) : out[j] = s[l]
      BY <1>2, <1>5, <2>2 DEF KeptUpTo
    <3>2. l \in 1 .. n /\ l # n /\ new[j] = s[l] /\ new[k] = s[n]
      BY <1>1, <1>2, <1>5, <2>2, <3>1
    <3> QED BY <1>1, <3>2
  <2>3. CASE j = Len(out) + 1
    <3>1. PICK l \in 1 .. (n - 1) : out[k] = s[l]
      BY <1>2, <1>5, <2>3 DEF KeptUpTo
    <3>2. l \in 1 .. n /\ l # n /\ new[k] = s[l] /\ new[j] = s[n]
      BY <1>1, <1>2, <1>5, <2>3, <3>1
    <3> QED BY <1>1, <3>2
  <2> QED BY <1>2, <1>5, <2>1, <2>2, <2>3
<1>6. Len(new) <= n
  BY <1>1, <1>2
<1>7. KeptUpTo(new, s, S, T, n)
  BY <1>2, <1>3, <1>4, <1>5, <1>6 DEF KeptUpTo
<1> QED BY <1>7 DEF new

(* What Kept returns.                                                      *)
LEMMA KeptFacts ==
  ASSUME NEW S, NEW T, NEW s \in Seq(T)
  PROVE  /\ Kept(s, S) \in Seq(T)
         /\ ToSet(Kept(s, S)) = ToSet(s) \cap S
         /\ \A j, k \in DOMAIN Kept(s, S) : j # k =>
              \E l, m \in DOMAIN s : l # m /\ Kept(s, S)[j] = s[l] /\ Kept(s, S)[k] = s[m]
<1> DEFINE kept == CHOOSE f : Keeps(f, s, S, Len(s))
<1>1. Len(s) \in Nat
  OBVIOUS
<1>2. Keeps(kept, s, S, Len(s))
  BY <1>1, KeepsExists
<1>3. Kept(s, S) = kept[Len(s)]
  BY DEF Kept, Keeps
<1> HIDE DEF kept
<1>4. \A n \in 0 .. Len(s) : kept[n] = IF n = 0 THEN <<>>
                                       ELSE IF s[n] \in S THEN Append(kept[n - 1], s[n])
                                       ELSE kept[n - 1]
  BY <1>2 DEF Keeps
<1> DEFINE Bad == {n \in 0 .. Len(s) : ~KeptUpTo(kept[n], s, S, T, n)}
<1>5. ASSUME Bad # {} PROVE FALSE
  <2>1. Bad \subseteq Nat
    OBVIOUS
  <2>2. PICK n \in Bad : \A m \in Bad : ~(m < n)
    <3> HIDE DEF Bad
    <3> QED BY <1>5, <2>1, LeastNat
  <2>3. CASE n = 0
    <3>1. kept[0] = <<>>
      BY <1>1, <1>4
    <3>2. KeptUpTo(<<>>, s, S, T, 0)
      BY DEF KeptUpTo
    <3> QED BY <2>2, <2>3, <3>1, <3>2
  <2>4. CASE n # 0
    <3>1. n \in 1 .. Len(s) /\ n - 1 \in 0 .. Len(s) /\ n - 1 < n
      BY <1>1, <2>2, <2>4
    <3>2. KeptUpTo(kept[n - 1], s, S, T, n - 1)
      BY <2>2, <3>1
    <3>3. kept[n] = IF s[n] \in S THEN Append(kept[n - 1], s[n]) ELSE kept[n - 1]
      BY <1>4, <2>4, <3>1
    <3>4. KeptUpTo(kept[n], s, S, T, n)
      BY <3>1, <3>2, <3>3, KeptUpToSkip, KeptUpToAppend
    <3> QED BY <2>2, <3>4
  <2> QED BY <2>3, <2>4
<1>6. Len(s) \in 0 .. Len(s) /\ Len(s) \notin Bad
  BY <1>1, <1>5
<1> DEFINE K == Kept(s, S)
<1>7. KeptUpTo(K, s, S, T, Len(s))
  BY <1>3, <1>6
<1> HIDE DEF K, kept, Bad
<1>8. /\ K \in Seq(T)
      /\ \A k \in DOMAIN K : \E m \in DOMAIN s : K[k] = s[m] /\ s[m] \in S
      /\ \A m \in DOMAIN s : s[m] \in S => \E k \in DOMAIN K : K[k] = s[m]
      /\ \A j, k \in DOMAIN K : j # k => \E l, m \in DOMAIN s : l # m /\ K[j] = s[l] /\ K[k] = s[m]
  <2> DEFINE d == DOMAIN s
  <2>1. d = 1 .. Len(s)
    OBVIOUS
  <2> HIDE DEF d
  <2>2. /\ K \in Seq(T)
        /\ \A k \in DOMAIN K : \E m \in d : K[k] = s[m] /\ s[m] \in S
        /\ \A m \in d : s[m] \in S => \E k \in DOMAIN K : K[k] = s[m]
        /\ \A j, k \in DOMAIN K : j # k => \E l, m \in d : l # m /\ K[j] = s[l] /\ K[k] = s[m]
    BY <1>7, <2>1, Zenon DEF KeptUpTo
  <2> QED BY <2>2 DEF d
<1>9. ToSet(K) = ToSet(s) \cap S
  BY <1>8 DEF ToSet
<1> QED BY <1>8, <1>9 DEF K

(* A sequence with one more element in front.                              *)
LEMMA PushedFront ==
  ASSUME NEW T, NEW s \in Seq(T), NEW x \in T
  PROVE  <<x>> \o s \in Seq(T) /\ ToSet(<<x>> \o s) = ToSet(s) \cup {x}
<1> DEFINE r == <<x>> \o s
<1>1. /\ ToSet(s) = {s[k] : k \in DOMAIN s} /\ DOMAIN s = 1 .. Len(s) /\ Len(s) \in Nat
      /\ \A k \in DOMAIN s : s[k] \in T
  BY DEF ToSet
<1>2. /\ r \in Seq(T) /\ DOMAIN r = 1 .. (Len(s) + 1) /\ r[1] = x
      /\ \A k \in DOMAIN s : r[k + 1] = s[k] /\ k + 1 \in DOMAIN r
      /\ \A k \in DOMAIN r : k = 1 \/ (k - 1 \in DOMAIN s /\ k = (k - 1) + 1)
      /\ 1 \in DOMAIN r
  BY <1>1
<1>3. ToSet(r) = {r[k] : k \in DOMAIN r}
  BY DEF ToSet
<1> HIDE DEF r
<1>4. ToSet(s) \cup {x} \subseteq ToSet(r)
  BY <1>1, <1>2, <1>3
<1>5. ASSUME NEW k \in DOMAIN r PROVE r[k] \in ToSet(s) \cup {x}
  BY <1>1, <1>2
<1> QED BY <1>2, <1>3, <1>4, <1>5 DEF r

(* An element appended to a sequence is one more of its elements.           *)
LEMMA Pushed ==
  ASSUME NEW T, NEW s \in Seq(T), NEW x \in T
  PROVE  Append(s, x) \in Seq(T) /\ ToSet(Append(s, x)) = ToSet(s) \cup {x}
<1> DEFINE r == Append(s, x)
<1>0. DOMAIN s = 1 .. Len(s) /\ Len(s) \in Nat /\ ToSet(s) = {s[k] : k \in DOMAIN s}
  BY DEF ToSet
<1>1. /\ r \in Seq(T) /\ DOMAIN r = DOMAIN s \cup {Len(s) + 1} /\ r[Len(s) + 1] = x
      /\ \A k \in DOMAIN s : r[k] = s[k]
  BY <1>0
<1>2. ToSet(r) = {r[k] : k \in DOMAIN r}
  BY DEF ToSet
<1> HIDE DEF r
<1>3. ToSet(r) = ToSet(s) \cup {x}
  BY <1>0, <1>1, <1>2
<1> QED BY <1>1, <1>3 DEF r

(* The sequence operators of the model, as sets of elements.               *)
LEMMA SeqFacts ==
  ASSUME NEW T, NEW s \in Seq(T)
  PROVE  /\ ToSet(s) \subseteq T
         /\ s # <<>> => /\ Head(s) \in ToSet(s) /\ Tail(s) \in Seq(T)
                        /\ Len(Tail(s)) = Len(s) - 1
                        /\ ToSet(s) = ToSet(Tail(s)) \cup {Head(s)}
         /\ \A x \in T : Append(s, x) \in Seq(T) /\ ToSet(Append(s, x)) = ToSet(s) \cup {x}
         /\ \A x \in T : <<x>> \o s \in Seq(T) /\ ToSet(<<x>> \o s) = ToSet(s) \cup {x}
         /\ Reverse(s) \in Seq(T) /\ ToSet(Reverse(s)) = ToSet(s)
<1>1. ToSet(s) = {s[k] : k \in DOMAIN s} /\ DOMAIN s = 1 .. Len(s) /\ Len(s) \in Nat
      /\ \A k \in DOMAIN s : s[k] \in T
  BY DEF ToSet
<1>2. ToSet(s) \subseteq T
  BY <1>1
<1>3. ASSUME s # <<>>
      PROVE  /\ Head(s) \in ToSet(s) /\ Tail(s) \in Seq(T)
             /\ Len(Tail(s)) = Len(s) - 1
             /\ ToSet(s) = ToSet(Tail(s)) \cup {Head(s)}
  <2>1. /\ Head(s) = s[1] /\ 1 \in DOMAIN s
        /\ Tail(s) \in Seq(T) /\ DOMAIN Tail(s) = 1 .. (Len(s) - 1)
        /\ Len(Tail(s)) = Len(s) - 1
        /\ \A k \in 1 .. (Len(s) - 1) : Tail(s)[k] = s[k + 1] /\ k + 1 \in DOMAIN s
        /\ \A k \in DOMAIN s : k = 1 \/ k - 1 \in 1 .. (Len(s) - 1)
        /\ \A k \in DOMAIN s : k = (k - 1) + 1
    BY <1>1, <1>3
  <2> DEFINE t == Tail(s)
  <2>2. ToSet(t) = {t[k] : k \in DOMAIN t}
    BY DEF ToSet
  <2>3. ToSet(t) \subseteq ToSet(s)
    BY <1>1, <2>1, <2>2
  <2>4. ASSUME NEW k \in DOMAIN s PROVE s[k] \in ToSet(t) \cup {Head(s)}
    BY <1>1, <2>1, <2>2
  <2> QED BY <1>1, <2>1, <2>3, <2>4
<1>4. ASSUME NEW x \in T PROVE Append(s, x) \in Seq(T) /\ ToSet(Append(s, x)) = ToSet(s) \cup {x}
  BY Pushed
<1>5. ASSUME NEW x \in T PROVE <<x>> \o s \in Seq(T) /\ ToSet(<<x>> \o s) = ToSet(s) \cup {x}
  BY PushedFront
<1>6. Reverse(s) \in Seq(T) /\ ToSet(Reverse(s)) = ToSet(s)
  <2> DEFINE r == Reverse(s)
  <2>1. /\ r \in Seq(T) /\ DOMAIN r = DOMAIN s
        /\ \A k \in DOMAIN s : r[k] = s[Len(s) - k + 1] /\ Len(s) - k + 1 \in DOMAIN s
        /\ \A k \in DOMAIN s : Len(s) - (Len(s) - k + 1) + 1 = k
    BY <1>1 DEF Reverse
  <2>2. ToSet(r) = {r[k] : k \in DOMAIN r}
    BY DEF ToSet
  <2> HIDE DEF r
  <2>3. ToSet(r) \subseteq ToSet(s)
    BY <1>1, <2>1, <2>2
  <2>4. ASSUME NEW k \in DOMAIN s PROVE s[k] \in ToSet(r)
    <3>1. s[k] = r[Len(s) - k + 1]
      BY <2>1
    <3> QED BY <2>1, <2>2, <3>1
  <2> QED BY <1>1, <2>1, <2>3, <2>4 DEF r
<1> QED BY <1>2, <1>3, <1>4, <1>5, <1>6

(* A finite set has an enumeration, which SetToSeq chooses.                *)
LEMMA SetToSeqFacts ==
  ASSUME NEW T, NEW S, S \subseteq T, IsFiniteSet(S)
  PROVE  /\ SetToSeq(S) \in Seq(T) /\ ToSet(SetToSeq(S)) \subseteq S
         /\ IsInjective(SetToSeq(S))
<1>1. PICK n \in Nat : ExistsBijection(1 .. n, S)
  BY FS_NatBijection
<1>2. n = Cardinality(S)
  BY <1>1, FS_CountingElements
<1>3. PICK f \in [1 .. n -> S] : IsInjective(f)
  BY <1>1 DEF ExistsBijection, Bijection, Injection, IsInjective
<1>4. SetToSeq(S) \in [1 .. Cardinality(S) -> S] /\ IsInjective(SetToSeq(S))
  BY <1>2, <1>3 DEF SetToSeq
<1> DEFINE r == SetToSeq(S)
<1>5. r \in [1 .. n -> S]
  BY <1>2, <1>4
<1> HIDE DEF r
<1>6. r \in Seq(T) /\ DOMAIN r = 1 .. n
  BY <1>1, <1>5
<1>7. ToSet(r) \subseteq S
  BY <1>5, <1>6 DEF ToSet
<1> QED BY <1>4, <1>6, <1>7 DEF r

----------------------------------------------------------------------------
(* What a step does to the tasks                                           *)

(* The fields of a task.                                                   *)
LEMMA TaskTypes ==
  ASSUME TypeOK, NEW t \in Tasks
  PROVE  /\ task[t] \in Tasking
         /\ task[t].op \in {"idle", "update", "reload", "uninstall", "reconcile", "shutdown",
                            "prepare", "attach", "detach"}
         /\ task[t].pc \in {"idle", "wait", "next", "init", "load", "undo", "failed", "retire",
                            "drop", "bind", "unbind"}
         /\ task[t].todo \in Seq(Items)
         /\ task[t].p \in Plugins \cup {None} /\ task[t].prev \in Configs \cup {None}
         /\ task[t].cand \in Instances \cup {None} /\ task[t].old \in Instances \cup {None}
         /\ task[t].left \in Seq(Contexts) \cup Seq(Plugins) \cup Seq(Bindings)
         /\ task[t].back \in Seq(Contexts)
  BY DEF TypeOK, Tasking

(* An item that is due: what it asks for, and of what.                     *)
LEMMA ItemTypes ==
  ASSUME NEW h \in Items
  PROVE  /\ h.do \in {"replace", "drop", "sync", "force", "attach", "detach"}
         /\ h.do \in {"replace", "drop", "sync", "force"} => h.p \in Plugins
         /\ h.do \in {"attach", "detach"} => h.p \in Contexts
         /\ h.do = "replace" => h.cfg \in Configs
         /\ h.p \in Plugins \cup Contexts
  BY DEF Items

(* The task t alone has changed, and this is what it is now.               *)
Moved(t, op, pc, todo, p, prev, cand, old, left, back) ==
  /\ task' \in [Tasks -> Tasking]
  /\ \A u \in Tasks : u # t => task'[u] = task[u]
  /\ task'[t].op = op /\ task'[t].pc = pc /\ task'[t].todo = todo
  /\ task'[t].p = p /\ task'[t].prev = prev /\ task'[t].cand = cand
  /\ task'[t].old = old /\ task'[t].left = left /\ task'[t].back = back

(* Setting every field of a task is replacing the task.                     *)
LEMMA MovedTo ==
  ASSUME TypeOK, NEW t \in Tasks, NEW r \in Tasking, task' = [task EXCEPT ![t] = r]
  PROVE  Moved(t, r.op, r.pc, r.todo, r.p, r.prev, r.cand, r.old, r.left, r.back)
<1>1. task \in [Tasks -> Tasking]
  BY DEF TypeOK
<1>2. task'[t] = r /\ task' \in [Tasks -> Tasking] /\ \A u \in Tasks : u # t => task'[u] = task[u]
  BY <1>1
<1> QED BY <1>2 DEF Moved

(* The fields of an idle task.                                             *)
LEMMA IdleFields ==
  /\ Idle.op = "idle" /\ Idle.pc = "idle" /\ Idle.todo = <<>> /\ Idle.p = None
  /\ Idle.prev = None /\ Idle.cand = None /\ Idle.old = None /\ Idle.left = <<>>
  /\ Idle.back = <<>>
  BY DEF Idle

(* A task that is idle.                                                    *)
LEMMA MovedToIdle ==
  ASSUME TypeOK, NEW t \in Tasks, task' = [task EXCEPT ![t] = Idle]
  PROVE  /\ Moved(t, "idle", "idle", <<>>, None, None, None, None, <<>>, <<>>)
         /\ task'[t] = Idle
<1>1. Idle \in Tasking
  BY DEF Idle, Tasking
<1>2. Moved(t, Idle.op, Idle.pc, Idle.todo, Idle.p, Idle.prev, Idle.cand, Idle.old, Idle.left,
            Idle.back)
  BY <1>1, MovedTo
<1>3. task \in [Tasks -> Tasking]
  BY DEF TypeOK
<1> QED BY <1>2, <1>3, IdleFields

(* A new operation.                                                        *)
LEMMA RequestTask ==
  ASSUME TypeOK, NEW a \in Tasks, NEW op, NEW todo \in Seq(Items), NEW p \in Plugins \cup {None},
         NEW prev \in Configs \cup {None}, Request(a, op, todo, p, prev),
         op \in {"update", "reload", "uninstall", "reconcile"}
  PROVE  Moved(a, op, "wait", todo, p, prev, None, None, <<>>, <<>>)
<1> DEFINE r == [Idle EXCEPT !.op = op, !.pc = "wait", !.todo = todo, !.p = p, !.prev = prev]
<1>1. /\ r.op = op /\ r.pc = "wait" /\ r.todo = todo /\ r.p = p /\ r.prev = prev
      /\ r.cand = None /\ r.old = None /\ r.left = <<>> /\ r.back = <<>>
  BY DEF Idle
<1>2. r \in Tasking
  <2>1. Idle \in Tasking
    BY DEF Idle, Tasking
  <2>2. [Idle EXCEPT !.op = op] \in Tasking
    BY <2>1 DEF Tasking
  <2>3. [[Idle EXCEPT !.op = op] EXCEPT !.pc = "wait"] \in Tasking
    BY <2>2 DEF Tasking
  <2>4. [[[Idle EXCEPT !.op = op] EXCEPT !.pc = "wait"] EXCEPT !.todo = todo] \in Tasking
    BY <2>3 DEF Tasking
  <2>5. [[[[Idle EXCEPT !.op = op] EXCEPT !.pc = "wait"] EXCEPT !.todo = todo]
             EXCEPT !.p = p] \in Tasking
    BY <2>4 DEF Tasking
  <2>6. [[[[[Idle EXCEPT !.op = op] EXCEPT !.pc = "wait"] EXCEPT !.todo = todo]
             EXCEPT !.p = p] EXCEPT !.prev = prev] \in Tasking
    BY <2>5 DEF Tasking
  <2> QED BY <2>6
<1>3. task' = [task EXCEPT ![a] = r]
  BY DEF Request
<1> HIDE DEF r
<1>4. Moved(a, r.op, r.pc, r.todo, r.p, r.prev, r.cand, r.old, r.left, r.back)
  BY <1>2, <1>3, MovedTo
<1> QED BY <1>1, <1>4

(* A task with one field changed.                                          *)
LEMMA TaskingExcept ==
  ASSUME NEW x \in Tasking
  PROVE  /\ \A v \in {"idle", "wait", "next", "init", "load", "undo", "failed", "retire",
                      "drop", "bind", "unbind"} : [x EXCEPT !.pc = v] \in Tasking
         /\ \A v \in {"attach", "detach", "prepare", "shutdown"} : [x EXCEPT !.op = v] \in Tasking
         /\ \A v \in Seq(Items) : [x EXCEPT !.todo = v] \in Tasking
         /\ \A v \in Instances \cup {None} : /\ [x EXCEPT !.cand = v] \in Tasking
                                             /\ [x EXCEPT !.old = v] \in Tasking
         /\ \A v \in Seq(Contexts) \cup Seq(Plugins) \cup Seq(Bindings) :
              [x EXCEPT !.left = v] \in Tasking
         /\ \A v \in Seq(Contexts) : [x EXCEPT !.back = v] \in Tasking
<1>1. \A v \in {"idle", "wait", "next", "init", "load", "undo", "failed", "retire",
                "drop", "bind", "unbind"} : [x EXCEPT !.pc = v] \in Tasking
  BY DEF Tasking
<1>2. \A v \in {"attach", "detach", "prepare", "shutdown"} : [x EXCEPT !.op = v] \in Tasking
  BY DEF Tasking
<1>3. \A v \in Seq(Items) : [x EXCEPT !.todo = v] \in Tasking
  BY DEF Tasking
<1>4. \A v \in Instances \cup {None} : [x EXCEPT !.cand = v] \in Tasking
  BY DEF Tasking
<1>5. \A v \in Instances \cup {None} : [x EXCEPT !.old = v] \in Tasking
  BY DEF Tasking
<1>6. \A v \in Seq(Contexts) \cup Seq(Plugins) \cup Seq(Bindings) : [x EXCEPT !.left = v] \in Tasking
  BY DEF Tasking
<1>7. \A v \in Seq(Contexts) : [x EXCEPT !.back = v] \in Tasking
  BY DEF Tasking
<1> QED BY <1>1, <1>2, <1>3, <1>4, <1>5, <1>6, <1>7

(* The first item is done.                                                 *)
LEMMA DoneTask ==
  ASSUME TypeOK, NEW t \in Tasks, NEW todo \in Seq(Items), todo # <<>>, Done(t, todo)
  PROVE  Moved(t, task[t].op, "next", Tail(todo), task[t].p, task[t].prev, None, None, <<>>, <<>>)
<1> DEFINE r == [task[t] EXCEPT !.pc = "next", !.todo = Tail(todo), !.cand = None, !.old = None,
                                !.left = <<>>, !.back = <<>>]
<1>1. task \in [Tasks -> Tasking] /\ task[t] \in Tasking /\ Tail(todo) \in Seq(Items)
      /\ <<>> \in Seq(Contexts) \cup Seq(Plugins) \cup Seq(Bindings) /\ <<>> \in Seq(Contexts)
  BY TaskTypes, SeqFacts DEF TypeOK
<1>2. r \in Tasking
  <2>1. [task[t] EXCEPT !.pc = "next"] \in Tasking
    BY <1>1, TaskingExcept
  <2>2. [task[t] EXCEPT !.pc = "next", !.todo = Tail(todo)] \in Tasking
    BY <1>1, <2>1, TaskingExcept
  <2>3. [task[t] EXCEPT !.pc = "next", !.todo = Tail(todo), !.cand = None] \in Tasking
    BY <2>2, TaskingExcept
  <2>4. [task[t] EXCEPT !.pc = "next", !.todo = Tail(todo), !.cand = None, !.old = None] \in Tasking
    BY <2>3, TaskingExcept
  <2>5. [task[t] EXCEPT !.pc = "next", !.todo = Tail(todo), !.cand = None, !.old = None,
                        !.left = <<>>] \in Tasking
    BY <1>1, <2>4, TaskingExcept
  <2> QED BY <1>1, <2>5, TaskingExcept
<1>3. task' = [task EXCEPT ![t] = r]
  BY <1>1 DEF Done
<1>4. /\ r.op = task[t].op /\ r.pc = "next" /\ r.todo = Tail(todo) /\ r.p = task[t].p
      /\ r.prev = task[t].prev /\ r.cand = None /\ r.old = None /\ r.left = <<>> /\ r.back = <<>>
  BY <1>1 DEF Tasking
<1> HIDE DEF r
<1>5. Moved(t, r.op, r.pc, r.todo, r.p, r.prev, r.cand, r.old, r.left, r.back)
  BY <1>2, <1>3, MovedTo
<1> QED BY <1>4, <1>5

(* The task goes on to another stage.                                      *)
LEMMA TaskPc ==
  ASSUME TypeOK, NEW t \in Tasks,
         NEW pc \in {"idle", "wait", "next", "init", "load", "undo", "failed", "retire",
                     "drop", "bind", "unbind"},
         task' = [task EXCEPT ![t].pc = pc]
  PROVE  Moved(t, task[t].op, pc, task[t].todo, task[t].p, task[t].prev,
               task[t].cand, task[t].old, task[t].left, task[t].back)
<1> DEFINE r == [task[t] EXCEPT !.pc = pc]
<1>1. task \in [Tasks -> Tasking] /\ task[t] \in Tasking
  BY TaskTypes DEF TypeOK
<1>2. r \in Tasking
  BY <1>1, TaskingExcept
<1>3. task' = [task EXCEPT ![t] = r]
  BY <1>1
<1>4. /\ r.op = task[t].op /\ r.pc = pc /\ r.todo = task[t].todo /\ r.p = task[t].p /\ r.prev = task[t].prev
      /\ r.cand = task[t].cand /\ r.old = task[t].old /\ r.left = task[t].left /\ r.back = task[t].back
  BY <1>1 DEF Tasking
<1> HIDE DEF r
<1>5. Moved(t, r.op, r.pc, r.todo, r.p, r.prev, r.cand, r.old, r.left, r.back)
  BY <1>2, <1>3, MovedTo
<1> QED BY <1>4, <1>5

(* The task is through with one of those it goes through.                  *)
LEMMA TaskLeft ==
  ASSUME TypeOK, NEW t \in Tasks,
         NEW left \in Seq(Contexts) \cup Seq(Plugins) \cup Seq(Bindings),
         task' = [task EXCEPT ![t].left = left]
  PROVE  Moved(t, task[t].op, task[t].pc, task[t].todo, task[t].p, task[t].prev,
               task[t].cand, task[t].old, left, task[t].back)
<1> DEFINE r == [task[t] EXCEPT !.left = left]
<1>1. task \in [Tasks -> Tasking] /\ task[t] \in Tasking
  BY TaskTypes DEF TypeOK
<1>2. r \in Tasking
  BY <1>1, TaskingExcept
<1>3. task' = [task EXCEPT ![t] = r]
  BY <1>1
<1>4. /\ r.op = task[t].op /\ r.pc = task[t].pc /\ r.todo = task[t].todo /\ r.p = task[t].p /\ r.prev = task[t].prev
      /\ r.cand = task[t].cand /\ r.old = task[t].old /\ r.left = left /\ r.back = task[t].back
  BY <1>1 DEF Tasking
<1> HIDE DEF r
<1>5. Moved(t, r.op, r.pc, r.todo, r.p, r.prev, r.cand, r.old, r.left, r.back)
  BY <1>2, <1>3, MovedTo
<1> QED BY <1>4, <1>5

(* The same on the way back.                                               *)
LEMMA TaskBack ==
  ASSUME TypeOK, NEW t \in Tasks,
         NEW back \in Seq(Contexts),
         task' = [task EXCEPT ![t].back = back]
  PROVE  Moved(t, task[t].op, task[t].pc, task[t].todo, task[t].p, task[t].prev,
               task[t].cand, task[t].old, task[t].left, back)
<1> DEFINE r == [task[t] EXCEPT !.back = back]
<1>1. task \in [Tasks -> Tasking] /\ task[t] \in Tasking
  BY TaskTypes DEF TypeOK
<1>2. r \in Tasking
  BY <1>1, TaskingExcept
<1>3. task' = [task EXCEPT ![t] = r]
  BY <1>1
<1>4. /\ r.op = task[t].op /\ r.pc = task[t].pc /\ r.todo = task[t].todo /\ r.p = task[t].p /\ r.prev = task[t].prev
      /\ r.cand = task[t].cand /\ r.old = task[t].old /\ r.left = task[t].left /\ r.back = back
  BY <1>1 DEF Tasking
<1> HIDE DEF r
<1>5. Moved(t, r.op, r.pc, r.todo, r.p, r.prev, r.cand, r.old, r.left, r.back)
  BY <1>2, <1>3, MovedTo
<1> QED BY <1>4, <1>5

(* A stage that goes through a list.                                       *)
LEMMA TaskPcLeft ==
  ASSUME TypeOK, NEW t \in Tasks,
         NEW pc \in {"idle", "wait", "next", "init", "load", "undo", "failed", "retire",
                     "drop", "bind", "unbind"},
         NEW left \in Seq(Contexts) \cup Seq(Plugins) \cup Seq(Bindings),
         task' = [task EXCEPT ![t].pc = pc, ![t].left = left]
  PROVE  Moved(t, task[t].op, pc, task[t].todo, task[t].p, task[t].prev,
               task[t].cand, task[t].old, left, task[t].back)
<1> DEFINE r == [task[t] EXCEPT !.pc = pc, !.left = left]
<1>1. task \in [Tasks -> Tasking] /\ task[t] \in Tasking
  BY TaskTypes DEF TypeOK
<1>2. r \in Tasking
  <2>1. [task[t] EXCEPT !.pc = pc] \in Tasking
    BY <1>1, TaskingExcept
  <2> QED BY <2>1, TaskingExcept
<1>3. task' = [task EXCEPT ![t] = r]
  BY <1>1
<1>4. /\ r.op = task[t].op /\ r.pc = pc /\ r.todo = task[t].todo /\ r.p = task[t].p /\ r.prev = task[t].prev
      /\ r.cand = task[t].cand /\ r.old = task[t].old /\ r.left = left /\ r.back = task[t].back
  BY <1>1 DEF Tasking
<1> HIDE DEF r
<1>5. Moved(t, r.op, r.pc, r.todo, r.p, r.prev, r.cand, r.old, r.left, r.back)
  BY <1>2, <1>3, MovedTo
<1> QED BY <1>4, <1>5

(* One more that may have to be taken back.                                *)
LEMMA TaskLeftBack ==
  ASSUME TypeOK, NEW t \in Tasks,
         NEW left \in Seq(Contexts) \cup Seq(Plugins) \cup Seq(Bindings),
         NEW back \in Seq(Contexts),
         task' = [task EXCEPT ![t].left = left, ![t].back = back]
  PROVE  Moved(t, task[t].op, task[t].pc, task[t].todo, task[t].p, task[t].prev,
               task[t].cand, task[t].old, left, back)
<1> DEFINE r == [task[t] EXCEPT !.left = left, !.back = back]
<1>1. task \in [Tasks -> Tasking] /\ task[t] \in Tasking
  BY TaskTypes DEF TypeOK
<1>2. r \in Tasking
  <2>1. [task[t] EXCEPT !.left = left] \in Tasking
    BY <1>1, TaskingExcept
  <2> QED BY <2>1, TaskingExcept
<1>3. task' = [task EXCEPT ![t] = r]
  BY <1>1
<1>4. /\ r.op = task[t].op /\ r.pc = task[t].pc /\ r.todo = task[t].todo /\ r.p = task[t].p /\ r.prev = task[t].prev
      /\ r.cand = task[t].cand /\ r.old = task[t].old /\ r.left = left /\ r.back = back
  BY <1>1 DEF Tasking
<1> HIDE DEF r
<1>5. Moved(t, r.op, r.pc, r.todo, r.p, r.prev, r.cand, r.old, r.left, r.back)
  BY <1>2, <1>3, MovedTo
<1> QED BY <1>4, <1>5

(* Items were passed over.                                                 *)
LEMMA TaskPcTodo ==
  ASSUME TypeOK, NEW t \in Tasks,
         NEW pc \in {"idle", "wait", "next", "init", "load", "undo", "failed", "retire",
                     "drop", "bind", "unbind"},
         NEW todo \in Seq(Items),
         task' = [task EXCEPT ![t].pc = pc, ![t].todo = todo]
  PROVE  Moved(t, task[t].op, pc, todo, task[t].p, task[t].prev,
               task[t].cand, task[t].old, task[t].left, task[t].back)
<1> DEFINE r == [task[t] EXCEPT !.pc = pc, !.todo = todo]
<1>1. task \in [Tasks -> Tasking] /\ task[t] \in Tasking
  BY TaskTypes DEF TypeOK
<1>2. r \in Tasking
  <2>1. [task[t] EXCEPT !.pc = pc] \in Tasking
    BY <1>1, TaskingExcept
  <2> QED BY <2>1, TaskingExcept
<1>3. task' = [task EXCEPT ![t] = r]
  BY <1>1
<1>4. /\ r.op = task[t].op /\ r.pc = pc /\ r.todo = todo /\ r.p = task[t].p /\ r.prev = task[t].prev
      /\ r.cand = task[t].cand /\ r.old = task[t].old /\ r.left = task[t].left /\ r.back = task[t].back
  BY <1>1 DEF Tasking
<1> HIDE DEF r
<1>5. Moved(t, r.op, r.pc, r.todo, r.p, r.prev, r.cand, r.old, r.left, r.back)
  BY <1>2, <1>3, MovedTo
<1> QED BY <1>4, <1>5

(* A candidate is to be initialised.                                       *)
LEMMA TaskPcTodoCand ==
  ASSUME TypeOK, NEW t \in Tasks,
         NEW pc \in {"idle", "wait", "next", "init", "load", "undo", "failed", "retire",
                     "drop", "bind", "unbind"},
         NEW todo \in Seq(Items),
         NEW cand \in Instances \cup {None},
         task' = [task EXCEPT ![t].pc = pc, ![t].todo = todo, ![t].cand = cand]
  PROVE  Moved(t, task[t].op, pc, todo, task[t].p, task[t].prev,
               cand, task[t].old, task[t].left, task[t].back)
<1> DEFINE r == [task[t] EXCEPT !.pc = pc, !.todo = todo, !.cand = cand]
<1>1. task \in [Tasks -> Tasking] /\ task[t] \in Tasking
  BY TaskTypes DEF TypeOK
<1>2. r \in Tasking
  <2>1. [task[t] EXCEPT !.pc = pc] \in Tasking
    BY <1>1, TaskingExcept
  <2>2. [task[t] EXCEPT !.pc = pc, !.todo = todo] \in Tasking
    BY <2>1, TaskingExcept
  <2> QED BY <2>2, TaskingExcept
<1>3. task' = [task EXCEPT ![t] = r]
  BY <1>1
<1>4. /\ r.op = task[t].op /\ r.pc = pc /\ r.todo = todo /\ r.p = task[t].p /\ r.prev = task[t].prev
      /\ r.cand = cand /\ r.old = task[t].old /\ r.left = task[t].left /\ r.back = task[t].back
  BY <1>1 DEF Tasking
<1> HIDE DEF r
<1>5. Moved(t, r.op, r.pc, r.todo, r.p, r.prev, r.cand, r.old, r.left, r.back)
  BY <1>2, <1>3, MovedTo
<1> QED BY <1>4, <1>5

(* An instance is to be retired.                                           *)
LEMMA TaskPcOldLeft ==
  ASSUME TypeOK, NEW t \in Tasks,
         NEW pc \in {"idle", "wait", "next", "init", "load", "undo", "failed", "retire",
                     "drop", "bind", "unbind"},
         NEW old \in Instances \cup {None},
         NEW left \in Seq(Contexts) \cup Seq(Plugins) \cup Seq(Bindings),
         task' = [task EXCEPT ![t].pc = pc, ![t].old = old, ![t].left = left]
  PROVE  Moved(t, task[t].op, pc, task[t].todo, task[t].p, task[t].prev,
               task[t].cand, old, left, task[t].back)
<1> DEFINE r == [task[t] EXCEPT !.pc = pc, !.old = old, !.left = left]
<1>1. task \in [Tasks -> Tasking] /\ task[t] \in Tasking
  BY TaskTypes DEF TypeOK
<1>2. r \in Tasking
  <2>1. [task[t] EXCEPT !.pc = pc] \in Tasking
    BY <1>1, TaskingExcept
  <2>2. [task[t] EXCEPT !.pc = pc, !.old = old] \in Tasking
    BY <2>1, TaskingExcept
  <2> QED BY <2>2, TaskingExcept
<1>3. task' = [task EXCEPT ![t] = r]
  BY <1>1
<1>4. /\ r.op = task[t].op /\ r.pc = pc /\ r.todo = task[t].todo /\ r.p = task[t].p /\ r.prev = task[t].prev
      /\ r.cand = task[t].cand /\ r.old = old /\ r.left = left /\ r.back = task[t].back
  BY <1>1 DEF Tasking
<1> HIDE DEF r
<1>5. Moved(t, r.op, r.pc, r.todo, r.p, r.prev, r.cand, r.old, r.left, r.back)
  BY <1>2, <1>3, MovedTo
<1> QED BY <1>4, <1>5

(* An instance is to be dropped.                                           *)
LEMMA TaskPcTodoOldLeftBack ==
  ASSUME TypeOK, NEW t \in Tasks,
         NEW pc \in {"idle", "wait", "next", "init", "load", "undo", "failed", "retire",
                     "drop", "bind", "unbind"},
         NEW todo \in Seq(Items),
         NEW old \in Instances \cup {None},
         NEW left \in Seq(Contexts) \cup Seq(Plugins) \cup Seq(Bindings),
         NEW back \in Seq(Contexts),
         task' = [task EXCEPT ![t].pc = pc, ![t].todo = todo, ![t].old = old, ![t].left = left, ![t].back = back]
  PROVE  Moved(t, task[t].op, pc, todo, task[t].p, task[t].prev,
               task[t].cand, old, left, back)
<1> DEFINE r == [task[t] EXCEPT !.pc = pc, !.todo = todo, !.old = old, !.left = left, !.back = back]
<1>1. task \in [Tasks -> Tasking] /\ task[t] \in Tasking
  BY TaskTypes DEF TypeOK
<1>2. r \in Tasking
  <2>1. [task[t] EXCEPT !.pc = pc] \in Tasking
    BY <1>1, TaskingExcept
  <2>2. [task[t] EXCEPT !.pc = pc, !.todo = todo] \in Tasking
    BY <2>1, TaskingExcept
  <2>3. [task[t] EXCEPT !.pc = pc, !.todo = todo, !.old = old] \in Tasking
    BY <2>2, TaskingExcept
  <2>4. [task[t] EXCEPT !.pc = pc, !.todo = todo, !.old = old, !.left = left] \in Tasking
    BY <2>3, TaskingExcept
  <2> QED BY <2>4, TaskingExcept
<1>3. task' = [task EXCEPT ![t] = r]
  BY <1>1
<1>4. /\ r.op = task[t].op /\ r.pc = pc /\ r.todo = todo /\ r.p = task[t].p /\ r.prev = task[t].prev
      /\ r.cand = task[t].cand /\ r.old = old /\ r.left = left /\ r.back = back
  BY <1>1 DEF Tasking
<1> HIDE DEF r
<1>5. Moved(t, r.op, r.pc, r.todo, r.p, r.prev, r.cand, r.old, r.left, r.back)
  BY <1>2, <1>3, MovedTo
<1> QED BY <1>4, <1>5

(* A bot's own operation, and the shutdown.                                *)
LEMMA NewTask ==
  ASSUME TypeOK, NEW t \in Tasks, NEW op \in {"attach", "detach", "prepare", "shutdown"},
         NEW todo \in Seq(Items),
         task' = [task EXCEPT ![t] = [Idle EXCEPT !.op = op, !.pc = "wait", !.todo = todo]]
  PROVE  Moved(t, op, "wait", todo, None, None, None, None, <<>>, <<>>)
<1> DEFINE r == [Idle EXCEPT !.op = op, !.pc = "wait", !.todo = todo]
<1>1. /\ r.op = op /\ r.pc = "wait" /\ r.todo = todo /\ r.p = None /\ r.prev = None
      /\ r.cand = None /\ r.old = None /\ r.left = <<>> /\ r.back = <<>>
  BY DEF Idle
<1>2. r \in Tasking
  <2>1. Idle \in Tasking
    BY DEF Idle, Tasking
  <2>2. [Idle EXCEPT !.op = op] \in Tasking
    BY <2>1, TaskingExcept
  <2>3. [Idle EXCEPT !.op = op, !.pc = "wait"] \in Tasking
    BY <2>2, TaskingExcept
  <2> QED BY <2>3, TaskingExcept
<1>3. task' = [task EXCEPT ![t] = r]
  OBVIOUS
<1> HIDE DEF r
<1>4. Moved(t, r.op, r.pc, r.todo, r.p, r.prev, r.cand, r.old, r.left, r.back)
  BY <1>2, <1>3, MovedTo
<1> QED BY <1>1, <1>4

(* The items of a reconcile and of the end of a shutdown.                  *)
LEMMA SyncFacts ==
  ASSUME PluginHostAssumption, NEW kind \in {"sync", "force", "drop"}
  PROVE  /\ SyncItems(kind) \in Seq(Items)
         /\ \A i \in ToSet(SyncItems(kind)) : i.do = kind /\ i.p \in Plugins
<1> DEFINE known == SetToSeq(Plugins)
           r == [k \in DOMAIN known |-> Item(kind, known[k], None)]
<1>1. known \in Seq(Plugins)
  BY SetToSeqFacts DEF PluginHostAssumption
<1>2. SyncItems(kind) = r
  BY DEF SyncItems
<1> HIDE DEF known
<1>3. DOMAIN known = 1 .. Len(known) /\ Len(known) \in Nat /\ \A k \in DOMAIN known : known[k] \in Plugins
  BY <1>1
<1>4. \A k \in DOMAIN known : /\ r[k] \in Items /\ r[k].do = kind /\ r[k].p \in Plugins
  BY <1>3 DEF Item, Items
<1>5. r \in Seq(Items) /\ DOMAIN r = DOMAIN known
  BY <1>3, <1>4
<1> HIDE DEF r
<1>6. \A i \in ToSet(r) : i.do = kind /\ i.p \in Plugins
  BY <1>4, <1>5 DEF ToSet
<1> QED BY <1>2, <1>5, <1>6

(* What is still due of an operation is the rest of its items.             *)
LEMMA PendingFacts ==
  ASSUME TypeOK, NEW t \in Tasks
  PROVE  /\ Pending(t) \in Seq(Items) /\ ToSet(Pending(t)) \subseteq ToSet(task[t].todo)
         /\ Pending(t) # <<>> => Due(Head(Pending(t)))
         /\ Len(task[t].todo) <= 1 /\ Pending(t) # <<>> => Pending(t) = task[t].todo
         /\ \A i \in ToSet(task[t].todo) : Due(i) => Pending(t) # <<>>
<1> DEFINE s == task[t].todo
           due == {k \in DOMAIN s : Due(s[k])}
           n == CHOOSE k \in due : \A j \in due : k <= j
<1>1. s \in Seq(Items) /\ DOMAIN s = 1 .. Len(s) /\ Len(s) \in Nat
  BY TaskTypes
<1>2. Pending(t) = IF due = {} THEN <<>> ELSE SubSeq(s, n, Len(s))
  BY DEF Pending
<1>3. CASE due = {}
  <2>1. Pending(t) = <<>> /\ ToSet(<<>>) = {}
    BY <1>2, <1>3 DEF ToSet
  <2> HIDE DEF s
  <2>2. \A i \in ToSet(s) : ~Due(i)
    BY <1>1, <1>3 DEF ToSet
  <2> QED BY <2>1, <2>2 DEF s
<1>4. CASE due # {}
  <2>1. due \subseteq Nat
    BY <1>1
  <2>2. \E k \in due : \A j \in due : ~(j < k)
    <3> HIDE DEF due
    <3> QED BY <1>4, <2>1, LeastNat
  <2>3. \E k \in due : \A j \in due : k <= j
    BY <2>1, <2>2
  <2>4. n \in due
    <3> HIDE DEF due
    <3> QED BY <2>3
  <2> HIDE DEF n
  <2>5. n \in 1 .. Len(s) /\ n \in Nat /\ Due(s[n])
    BY <1>1, <2>4
  <2> DEFINE q == SubSeq(s, n, Len(s))
  <2>6. /\ q \in Seq(Items) /\ DOMAIN q = 1 .. (Len(s) - n + 1) /\ q # <<>> /\ Head(q) = s[n]
        /\ \A k \in DOMAIN q : q[k] = s[n + k - 1] /\ n + k - 1 \in DOMAIN s
    <3> HIDE DEF s
    <3>1. /\ q \in Seq(Items) /\ Len(q) = Len(s) - n + 1
          /\ \A k \in 1 .. (Len(s) - n + 1) : q[k] = s[n + k - 1]
      BY <1>1, <2>5
    <3> HIDE DEF q
    <3>2. /\ DOMAIN q = 1 .. (Len(s) - n + 1) /\ q # <<>> /\ 1 \in DOMAIN q
          /\ \A k \in DOMAIN q : n + k - 1 \in DOMAIN s
      BY <1>1, <2>5, <3>1
    <3>3. Head(q) = q[1] /\ q[1] = s[n + 1 - 1] /\ n + 1 - 1 = n
      BY <2>5, <3>1, <3>2
    <3> QED BY <3>1, <3>2, <3>3
  <2>7. Len(s) <= 1 => q = s
    <3> HIDE DEF s
    <3>1. Len(s) <= 1 => n = 1 /\ Len(s) = 1
      BY <1>1, <2>5
    <3>2. SubSeq(s, 1, Len(s)) = s
      BY <1>1
    <3> QED BY <3>1, <3>2
  <2>8. Pending(t) = q
    BY <1>2, <1>4
  <2> HIDE DEF q, s
  <2>9. ToSet(q) \subseteq ToSet(s)
    BY <1>1, <2>6 DEF ToSet
  <2> QED BY <2>5, <2>6, <2>7, <2>8, <2>9 DEF s
<1> QED BY <1>3, <1>4

(* The plugins an operation is about.                                      *)
LEMMA ConcernedFacts ==
  ASSUME NEW t \in Tasks
  PROVE  Concerned(t) = {i.p : i \in ToSet(task[t].todo)} \cup {task[t].p}
  BY DEF Concerned, ToSet

----------------------------------------------------------------------------
(* What each action does                                                   *)

(* The first item was done: t goes on to the next.                         *)
Passed(t, todo) ==
  Moved(t, task[t].op, "next", Tail(todo), task[t].p, task[t].prev, None, None, <<>>, <<>>)

(* The instance of p is being dropped.                                     *)
Dropped(t, p, todo) ==
  /\ states[p] # None
  /\ Moved(t, task[t].op, "drop", todo, task[t].p, task[t].prev, task[t].cand, states[p],
           ContextsWith(p), <<>>)

(* What StartDeactivate does to the task: the item is done, or the hooks    *)
(* are next.                                                                *)
LEMMA DeactivateFacts ==
  ASSUME TypeOK, NEW t \in Tasks, NEW p \in Plugins, NEW todo \in Seq(Items), todo # <<>>,
         StartDeactivate(t, p, todo)
  PROVE  /\ states' = [states EXCEPT ![p] = None]
         /\ (states[p] = None /\ Passed(t, todo)) \/ Dropped(t, p, todo)
<1>1. states' = [states EXCEPT ![p] = None]
  BY DEF StartDeactivate
<1>2. CASE states[p] = None
  <2>1. Done(t, todo)
    BY <1>2 DEF StartDeactivate
  <2> QED BY <1>1, <1>2, <2>1, DoneTask DEF Passed
<1>3. CASE states[p] # None
  <2>1. states[p] \in Instances \cup {None} /\ <<>> \in Seq(Contexts)
    BY DEF TypeOK
  <2>2. ContextsWith(p) \in Seq(Contexts)
    BY KeptFacts DEF ContextsWith, TypeOK
  <2>3. task' = [task EXCEPT ![t].pc = "drop", ![t].todo = todo, ![t].old = states[p],
                             ![t].left = ContextsWith(p), ![t].back = <<>>]
    BY <1>3 DEF StartDeactivate
  <2>4. ContextsWith(p) \in Seq(Contexts) \cup Seq(Plugins) \cup Seq(Bindings)
    BY <2>2
  <2>5. Moved(t, task[t].op, "drop", todo, task[t].p, task[t].prev, task[t].cand, states[p],
              ContextsWith(p), <<>>)
    BY <2>1, <2>3, <2>4, TaskPcTodoOldLeftBack
  <2> QED BY <1>1, <1>3, <2>5 DEF Dropped
<1> QED BY <1>2, <1>3

(* A candidate for p is being initialised.                                 *)
Replacing(t, p, c, todo) ==
  /\ p \in installed /\ Enabled(c) /\ c \in Configs
  /\ states' = states /\ born' = [born EXCEPT ![p] = @ + 1]
  /\ Moved(t, task[t].op, "init", todo, task[t].p, task[t].prev, InstanceOf(p, born[p] + 1, c),
           task[t].old, task[t].left, task[t].back)
  /\ InstanceOf(p, born[p] + 1, c) \in Instances

(* The module of p is gone.                                                *)
Unloadable(t, todo) ==
  /\ states' = states
  /\ Moved(t, task[t].op, "failed", todo, task[t].p, task[t].prev, task[t].cand, task[t].old,
           task[t].left, task[t].back)

Deactivated(t, p, todo) ==
  /\ states' = [states EXCEPT ![p] = None]
  /\ (states[p] = None /\ Passed(t, todo)) \/ Dropped(t, p, todo)

(* What StartReplace does: the candidate is made, cannot be loaded, or the  *)
(* plugin is switched off.                                                  *)
LEMMA ReplaceFacts ==
  ASSUME TypeOK, NEW t \in Tasks, NEW p \in Plugins, NEW c \in Configs,
         NEW todo \in Seq(Items), todo # <<>>, StartReplace(t, p, c, todo)
  PROVE  \/ Replacing(t, p, c, todo)
         \/ born' = born /\ Unloadable(t, todo)
         \/ born' = born /\ Deactivated(t, p, todo)
<1>1. CASE Enabled(c) /\ p \in installed
  <2>1. /\ states' = states /\ born' = [born EXCEPT ![p] = @ + 1]
        /\ task' = [task EXCEPT ![t].pc = "init", ![t].todo = todo,
                                ![t].cand = InstanceOf(p, born[p] + 1, c)]
    BY <1>1 DEF StartReplace
  <2>2. InstanceOf(p, born[p] + 1, c) \in Instances
    BY DEF InstanceOf, Instances, TypeOK
  <2> DEFINE i == InstanceOf(p, born[p] + 1, c)
  <2>3. Moved(t, task[t].op, "init", todo, task[t].p, task[t].prev, i,
              task[t].old, task[t].left, task[t].back)
    <3> HIDE DEF i
    <3> QED BY <2>1, <2>2, TaskPcTodoCand DEF i
  <2> QED BY <1>1, <2>1, <2>2, <2>3 DEF Replacing
<1>2. CASE Enabled(c) /\ p \notin installed
  <2>1. /\ states' = states /\ born' = born
        /\ task' = [task EXCEPT ![t].pc = "failed", ![t].todo = todo]
    BY <1>2 DEF StartReplace
  <2> QED BY <2>1, TaskPcTodo DEF Unloadable
<1>3. CASE ~Enabled(c)
  <2>1. StartDeactivate(t, p, todo) /\ born' = born
    BY <1>3 DEF StartReplace
  <2> QED BY <2>1, DeactivateFacts DEF Deactivated
<1> QED BY <1>1, <1>2, <1>3

(* A task that takes the lock, or goes on, has nothing under way.           *)
Taking(t) ==
  /\ lock' = t
  /\ (lock = None /\ task[t].pc = "wait") \/ (lock = t /\ task[t].pc = "next")

(* What TakeItem does to each variable.                                     *)
LEMMA TakeItemFacts ==
  ASSUME TypeOK, NEW t \in Tasks, TakeItem(t)
  PROVE  /\ Taking(t) /\ Pending(t) # <<>> /\ Pending(t) \in Seq(Items)
         /\ Head(Pending(t)) \in Items /\ Head(Pending(t)) \in ToSet(task[t].todo)
         /\ Head(Pending(t)).p \in Plugins
         /\ Head(Pending(t)).do \in {"replace", "drop", "sync", "force"}
         /\ \/ \E c \in Configs :
                 /\ Replacing(t, Head(Pending(t)).p, c, Pending(t))
                 /\ c = IF Head(Pending(t)).do = "replace" THEN Head(Pending(t)).cfg
                        ELSE file[Head(Pending(t)).p]
                 /\ Head(Pending(t)).do # "drop"
            \/ born' = born /\ Unloadable(t, Pending(t)) /\ Head(Pending(t)).do # "drop"
            \/ born' = born /\ Deactivated(t, Head(Pending(t)).p, Pending(t))
         /\ UNCHANGED <<installed, file, alive, loaded, attached, bind, rt, worker, breaker,
                        ops, calls, overlap, torn>>
<1> DEFINE todo == Pending(t)
           h == Head(Pending(t))
<1>1. Taking(t) /\ todo # <<>>
  BY DEF TakeItem, Turn, Taking
<1>2. todo \in Seq(Items) /\ ToSet(todo) \subseteq ToSet(task[t].todo)
  BY PendingFacts
<1>3. h \in Items /\ h \in ToSet(task[t].todo)
  BY <1>1, <1>2, SeqFacts
<1>4. UNCHANGED <<installed, file, alive, loaded, attached, bind, rt, worker, breaker,
                  ops, calls, overlap, torn>>
  BY DEF TakeItem, Outside
<1>5. \/ h.do = "replace" /\ StartReplace(t, h.p, h.cfg, todo)
      \/ h.do \in {"sync", "force"} /\ Wanted(h.p) /\ StartReplace(t, h.p, file[h.p], todo)
      \/ /\ h.do = "drop" \/ (h.do \in {"sync", "force"} /\ ~Wanted(h.p))
         /\ StartDeactivate(t, h.p, todo)
         /\ UNCHANGED born
  BY DEF TakeItem
<1> HIDE DEF h, todo
<1>6. h.do \in {"replace", "drop", "sync", "force"} /\ h.p \in Plugins
      /\ (h.do = "replace" => h.cfg \in Configs) /\ file[h.p] \in Configs
  <2>1. h.do \in {"replace", "drop", "sync", "force"}
    BY <1>5
  <2>2. h.p \in Plugins /\ (h.do = "replace" => h.cfg \in Configs)
    BY <1>3, <2>1, ItemTypes
  <2> QED BY <2>1, <2>2 DEF TypeOK
<1>7. \/ \E c \in Configs : /\ Replacing(t, h.p, c, todo)
                            /\ c = IF h.do = "replace" THEN h.cfg ELSE file[h.p]
                            /\ h.do # "drop"
      \/ born' = born /\ Unloadable(t, todo) /\ h.do # "drop"
      \/ born' = born /\ Deactivated(t, h.p, todo)
  <2>1. CASE h.do = "replace" /\ StartReplace(t, h.p, h.cfg, todo)
    BY <1>1, <1>2, <1>6, <2>1, ReplaceFacts
  <2>2. CASE h.do \in {"sync", "force"} /\ Wanted(h.p) /\ StartReplace(t, h.p, file[h.p], todo)
    BY <1>1, <1>2, <1>6, <2>2, ReplaceFacts
  <2>3. CASE StartDeactivate(t, h.p, todo) /\ UNCHANGED born
    BY <1>1, <1>2, <1>6, <2>3, DeactivateFacts DEF Deactivated
  <2> QED BY <1>5, <2>1, <2>2, <2>3
<1> QED BY <1>1, <1>2, <1>3, <1>4, <1>6, <1>7 DEF h, todo

(* The holder of the lock goes on: nothing else of its operation changes.  *)
Held(t, pc) == lock = t /\ lock' = t /\ task[t].pc = pc

(* What the end of on_initialize does to each variable.                     *)
LEMMA InitialisedFacts ==
  ASSUME TypeOK, NEW t \in Tasks, NEW ok \in BOOLEAN, Initialised(t, ok)
  PROVE  /\ Held(t, "init")
         /\ \/ /\ alive' = alive \cup {task[t].cand}
               /\ Moved(t, task[t].op, "load", task[t].todo, task[t].p, task[t].prev,
                        task[t].cand, task[t].old, attached, task[t].back)
            \/ /\ alive' = alive
               /\ Moved(t, task[t].op, "failed", task[t].todo, task[t].p, task[t].prev,
                        task[t].cand, task[t].old, task[t].left, task[t].back)
         /\ UNCHANGED <<installed, file, states, born, loaded, attached, bind, rt, worker,
                        breaker, ops, calls, overlap, torn>>
<1>1. /\ Held(t, "init")
      /\ UNCHANGED <<installed, file, states, born, loaded, attached, bind, rt, worker,
                     breaker, ops, calls, overlap, torn>>
  BY DEF Initialised, Outside, Held
<1>2. CASE ok
  <2>1. /\ alive' = alive \cup {task[t].cand}
        /\ task' = [task EXCEPT ![t].pc = "load", ![t].left = attached]
    BY <1>2 DEF Initialised
  <2>2. attached \in Seq(Contexts) \cup Seq(Plugins) \cup Seq(Bindings)
    BY DEF TypeOK
  <2>3. Moved(t, task[t].op, "load", task[t].todo, task[t].p, task[t].prev, task[t].cand,
              task[t].old, attached, task[t].back)
    BY <2>1, <2>2, TaskPcLeft
  <2> QED BY <1>1, <2>1, <2>3
<1>3. CASE ~ok
  <2>1. alive' = alive /\ task' = [task EXCEPT ![t].pc = "failed"]
    BY <1>3 DEF Initialised
  <2>2. Moved(t, task[t].op, "failed", task[t].todo, task[t].p, task[t].prev,
              task[t].cand, task[t].old, task[t].left, task[t].back)
    BY <2>1, TaskPc
  <2> QED BY <1>1, <2>1, <2>2
<1> QED BY <1>2, <1>3

(* What the end of a candidate's on_load does.                              *)
LEMMA CandidateLoadFacts ==
  ASSUME TypeOK, NEW t \in Tasks, Changing(t), NEW ok \in BOOLEAN, CandidateLoad(t, ok)
  PROVE  /\ Held(t, "load") /\ task[t].left # <<>> /\ Head(task[t].left) \in Contexts
         /\ \/ /\ loaded' = loaded \cup {<<task[t].cand, Head(task[t].left)>>}
               /\ Moved(t, task[t].op, "load", task[t].todo, task[t].p, task[t].prev,
                        task[t].cand, task[t].old, Tail(task[t].left),
                        <<Head(task[t].left)>> \o task[t].back)
            \/ /\ loaded' = loaded
               /\ Moved(t, task[t].op, "undo", task[t].todo, task[t].p, task[t].prev,
                        task[t].cand, task[t].old, task[t].left, task[t].back)
         /\ UNCHANGED <<installed, file, states, born, alive, attached, bind, rt, worker,
                        breaker, ops, calls, overlap, torn>>
<1>1. /\ Held(t, "load") /\ task[t].left # <<>>
      /\ UNCHANGED <<installed, file, states, born, alive, attached, bind, rt, worker,
                     breaker, ops, calls, overlap, torn>>
  BY DEF CandidateLoad, Outside, Held
<1>2. task[t].left \in Seq(Contexts) /\ task[t].back \in Seq(Contexts)
  BY <1>1, TaskTypes DEF Changing, Held
<1>3. Head(task[t].left) \in Contexts /\ Tail(task[t].left) \in Seq(Contexts)
      /\ <<Head(task[t].left)>> \o task[t].back \in Seq(Contexts)
  <2>1. Head(task[t].left) \in Contexts /\ Tail(task[t].left) \in Seq(Contexts)
    BY <1>1, <1>2, SeqFacts
  <2> QED BY <1>2, <2>1, SeqFacts
<1>4. CASE ok
  <2>1. /\ loaded' = loaded \cup {<<task[t].cand, Head(task[t].left)>>}
        /\ task' = [task EXCEPT ![t].left = Tail(task[t].left),
                                ![t].back = <<Head(task[t].left)>> \o task[t].back]
    BY <1>4 DEF CandidateLoad
  <2>2. Moved(t, task[t].op, task[t].pc, task[t].todo, task[t].p, task[t].prev, task[t].cand,
              task[t].old, Tail(task[t].left), <<Head(task[t].left)>> \o task[t].back)
    BY <1>3, <2>1, TaskLeftBack
  <2> QED BY <1>1, <1>3, <2>1, <2>2 DEF Held
<1>5. CASE ~ok
  <2>1. loaded' = loaded /\ task' = [task EXCEPT ![t].pc = "undo"]
    BY <1>5 DEF CandidateLoad
  <2>2. Moved(t, task[t].op, "undo", task[t].todo, task[t].p, task[t].prev,
              task[t].cand, task[t].old, task[t].left, task[t].back)
    BY <2>1, TaskPc
  <2> QED BY <1>1, <1>3, <2>1, <2>2
<1> QED BY <1>4, <1>5

(* What one step of the way back does.                                      *)
LEMMA UndoFacts ==
  ASSUME TypeOK, NEW t \in Tasks, UndoCandidate(t)
  PROVE  /\ Held(t, "undo")
         /\ \/ /\ task[t].back # <<>> /\ Head(task[t].back) \in Contexts
               /\ loaded' = loaded \ {<<task[t].cand, Head(task[t].back)>>} /\ alive' = alive
               /\ Moved(t, task[t].op, "undo", task[t].todo, task[t].p, task[t].prev,
                        task[t].cand, task[t].old, task[t].left, Tail(task[t].back))
            \/ /\ task[t].back = <<>>
               /\ loaded' = loaded /\ alive' = alive \ {task[t].cand}
               /\ Moved(t, task[t].op, "failed", task[t].todo, task[t].p, task[t].prev,
                        task[t].cand, task[t].old, task[t].left, task[t].back)
         /\ UNCHANGED <<installed, file, states, born, attached, bind, rt, worker,
                        breaker, ops, calls, overlap, torn>>
<1>1. /\ Held(t, "undo")
      /\ UNCHANGED <<installed, file, states, born, attached, bind, rt, worker,
                     breaker, ops, calls, overlap, torn>>
  BY DEF UndoCandidate, Outside, Held
<1>2. task[t].back \in Seq(Contexts)
  BY TaskTypes
<1>3. CASE task[t].back # <<>>
  <2>1. /\ loaded' = loaded \ {<<task[t].cand, Head(task[t].back)>>} /\ alive' = alive
        /\ task' = [task EXCEPT ![t].back = Tail(task[t].back)]
    BY <1>3 DEF UndoCandidate
  <2>2. Head(task[t].back) \in Contexts /\ Tail(task[t].back) \in Seq(Contexts)
    BY <1>2, <1>3, SeqFacts
  <2>3. Moved(t, task[t].op, task[t].pc, task[t].todo, task[t].p, task[t].prev, task[t].cand,
              task[t].old, task[t].left, Tail(task[t].back))
    BY <2>1, <2>2, TaskBack
  <2> QED BY <1>1, <1>3, <2>1, <2>2, <2>3 DEF Held
<1>4. CASE task[t].back = <<>>
  <2>1. loaded' = loaded /\ alive' = alive \ {task[t].cand} /\ task' = [task EXCEPT ![t].pc = "failed"]
    BY <1>4 DEF UndoCandidate
  <2>2. Moved(t, task[t].op, "failed", task[t].todo, task[t].p, task[t].prev,
              task[t].cand, task[t].old, task[t].left, task[t].back)
    BY <2>1, TaskPc
  <2> QED BY <1>1, <1>4, <2>1, <2>2
<1> QED BY <1>3, <1>4

(* The holder has an item to work on.                                      *)
LEMMA HeldItem ==
  ASSUME TypeOK, NEW t \in Tasks, Working(t),
         task[t].pc \in Swapping \cup {"bind", "unbind"}
  PROVE  /\ task[t].todo # <<>> /\ Head(task[t].todo) \in Items
         /\ Head(task[t].todo) \in ToSet(task[t].todo)
         /\ task[t].pc \in Swapping =>
              /\ Head(task[t].todo).do \in {"replace", "drop", "sync", "force"}
              /\ Head(task[t].todo).p \in Plugins
         /\ task[t].pc = "bind" => Head(task[t].todo).do = "attach"
         /\ task[t].pc = "unbind" =>
              Head(task[t].todo).do = "detach" /\ Head(task[t].todo).p \in Contexts
<1>1. task[t].todo \in Seq(Items) /\ task[t].todo # <<>>
  BY TaskTypes DEF Working
<1>2. Head(task[t].todo) \in Items /\ Head(task[t].todo) \in ToSet(task[t].todo)
  <2>1. ToSet(task[t].todo) \subseteq Items /\ Head(task[t].todo) \in ToSet(task[t].todo)
    BY <1>1, SeqFacts
  <2> QED BY <2>1
<1>3. /\ task[t].pc \in Swapping =>
              Head(task[t].todo).do \in {"replace", "drop", "sync", "force"}
      /\ task[t].pc = "bind" => Head(task[t].todo).do = "attach"
      /\ task[t].pc = "unbind" => Head(task[t].todo).do = "detach"
  BY DEF Working
<1> QED BY <1>1, <1>2, <1>3, ItemTypes

(* What one hook of the replaced instance does.                             *)
LEMMA RetireFacts ==
  ASSUME TypeOK, NEW t \in Tasks, Working(t), Changing(t), RetireOld(t)
  PROVE  /\ Held(t, "retire") /\ task[t].todo # <<>>
         /\ \/ /\ task[t].left # <<>> /\ Head(task[t].left) \in Contexts
               /\ loaded' = loaded \ {<<task[t].old, Head(task[t].left)>>} /\ alive' = alive
               /\ Moved(t, task[t].op, "retire", task[t].todo, task[t].p, task[t].prev,
                        task[t].cand, task[t].old, Tail(task[t].left), task[t].back)
            \/ /\ task[t].left = <<>>
               /\ loaded' = loaded /\ alive' = alive \ {task[t].old}
               /\ Passed(t, task[t].todo)
         /\ UNCHANGED <<installed, file, states, born, attached, bind, rt, worker,
                        breaker, ops, calls, overlap, torn>>
<1>1. /\ Held(t, "retire")
      /\ UNCHANGED <<installed, file, states, born, attached, bind, rt, worker,
                     breaker, ops, calls, overlap, torn>>
  BY DEF RetireOld, Outside, Held
<1>2. task[t].left \in Seq(Contexts) /\ task[t].todo \in Seq(Items) /\ task[t].todo # <<>>
  <2>1. task[t].pc = "retire"
    BY <1>1 DEF Held
  <2> QED BY <2>1, TaskTypes, HeldItem DEF Changing, Swapping
<1>3. CASE task[t].left # <<>>
  <2>1. /\ loaded' = loaded \ {<<task[t].old, Head(task[t].left)>>} /\ alive' = alive
        /\ task' = [task EXCEPT ![t].left = Tail(task[t].left)]
    BY <1>3 DEF RetireOld
  <2>2. Head(task[t].left) \in Contexts /\ Tail(task[t].left) \in Seq(Contexts)
    BY <1>2, <1>3, SeqFacts
  <2>3. Moved(t, task[t].op, task[t].pc, task[t].todo, task[t].p, task[t].prev, task[t].cand,
              task[t].old, Tail(task[t].left), task[t].back)
    BY <2>1, <2>2, TaskLeft
  <2> QED BY <1>1, <1>2, <1>3, <2>1, <2>2, <2>3 DEF Held
<1>4. CASE task[t].left = <<>>
  <2>1. loaded' = loaded /\ alive' = alive \ {task[t].old} /\ Done(t, task[t].todo)
    BY <1>4 DEF RetireOld, ItemDone
  <2>2. Passed(t, task[t].todo)
    BY <1>2, <2>1, DoneTask DEF Passed
  <2> QED BY <1>1, <1>2, <1>4, <2>1, <2>2
<1> QED BY <1>3, <1>4

(* What one hook of a deactivated instance does.                            *)
LEMMA DropFacts ==
  ASSUME TypeOK, NEW t \in Tasks, Working(t), Changing(t), DropInstance(t)
  PROVE  /\ Held(t, "drop") /\ task[t].todo # <<>>
         /\ \/ /\ task[t].left # <<>> /\ Head(task[t].left) \in Contexts
               /\ loaded' = loaded \ {<<task[t].old, Head(task[t].left)>>} /\ alive' = alive
               /\ bind' = [bind EXCEPT ![Head(task[t].left)] =
                             Kept(@, {b \in Bound(Head(task[t].left)) : b.p # task[t].old.p})]
               /\ Moved(t, task[t].op, "drop", task[t].todo, task[t].p, task[t].prev,
                        task[t].cand, task[t].old, Tail(task[t].left), task[t].back)
            \/ /\ task[t].left = <<>>
               /\ loaded' = loaded /\ alive' = alive \ {task[t].old} /\ bind' = bind
               /\ Passed(t, task[t].todo)
         /\ UNCHANGED <<installed, file, states, born, attached, rt, worker,
                        breaker, ops, calls, overlap, torn>>
<1>1. /\ Held(t, "drop")
      /\ UNCHANGED <<installed, file, states, born, attached, rt, worker,
                     breaker, ops, calls, overlap, torn>>
  BY DEF DropInstance, Outside, Held
<1>2. task[t].left \in Seq(Contexts) /\ task[t].todo \in Seq(Items) /\ task[t].todo # <<>>
  <2>1. task[t].pc = "drop"
    BY <1>1 DEF Held
  <2> QED BY <2>1, TaskTypes, HeldItem DEF Changing, Swapping
<1>3. CASE task[t].left # <<>>
  <2>1. /\ loaded' = loaded \ {<<task[t].old, Head(task[t].left)>>} /\ alive' = alive
        /\ bind' = [bind EXCEPT ![Head(task[t].left)] =
                      Kept(@, {b \in Bound(Head(task[t].left)) : b.p # task[t].old.p})]
        /\ task' = [task EXCEPT ![t].left = Tail(task[t].left)]
    BY <1>3 DEF DropInstance
  <2>2. Head(task[t].left) \in Contexts /\ Tail(task[t].left) \in Seq(Contexts)
    BY <1>2, <1>3, SeqFacts
  <2>3. Moved(t, task[t].op, task[t].pc, task[t].todo, task[t].p, task[t].prev, task[t].cand,
              task[t].old, Tail(task[t].left), task[t].back)
    BY <2>1, <2>2, TaskLeft
  <2> QED BY <1>1, <1>2, <1>3, <2>1, <2>2, <2>3 DEF Held
<1>4. CASE task[t].left = <<>>
  <2>1. loaded' = loaded /\ alive' = alive \ {task[t].old} /\ bind' = bind /\ Done(t, task[t].todo)
    BY <1>4 DEF DropInstance, ItemDone
  <2>2. Passed(t, task[t].todo)
    BY <1>2, <2>1, DoneTask DEF Passed
  <2> QED BY <1>1, <1>2, <1>4, <2>1, <2>2
<1> QED BY <1>3, <1>4

(* The bindings after the swap to the candidate i.                         *)
SwappedIn(i, c) ==
  IF c \notin ToSet(attached) THEN bind[c]
  ELSE IF PositionOf(c, i.p) = {} THEN Append(bind[c], [p |-> i.p, inst |-> i])
  ELSE [k \in DOMAIN bind[c] |->
          IF k \in PositionOf(c, i.p) THEN [p |-> i.p, inst |-> i] ELSE bind[c][k]]

(* What the swap does to states, bindings and the task.                     *)
LEMMA SwapFacts ==
  ASSUME TypeOK, NEW t \in Tasks, Working(t), Changing(t), SwapInstances(t)
  PROVE  /\ Held(t, "load") /\ task[t].todo # <<>> /\ task[t].left = <<>>
         /\ task[t].cand \in Instances /\ task[t].cand.p \in Plugins
         /\ bind' = [c \in Contexts |-> SwappedIn(task[t].cand, c)]
         /\ states' = [states EXCEPT ![task[t].cand.p] = task[t].cand]
         /\ \/ states[task[t].cand.p] = None /\ Passed(t, task[t].todo)
            \/ /\ states[task[t].cand.p] # None
               /\ Moved(t, task[t].op, "retire", task[t].todo, task[t].p, task[t].prev,
                        task[t].cand, states[task[t].cand.p],
                        Reverse(ContextsWith(task[t].cand.p)), task[t].back)
               /\ Reverse(ContextsWith(task[t].cand.p)) \in Seq(Contexts)
         /\ UNCHANGED <<installed, file, born, alive, loaded, attached, rt, worker,
                        breaker, ops, calls, overlap, torn>>
<1>1. /\ Held(t, "load") /\ task[t].left = <<>>
      /\ UNCHANGED <<installed, file, born, alive, loaded, attached, rt, worker,
                     breaker, ops, calls, overlap, torn>>
  BY DEF SwapInstances, Outside, Held
<1>2. task[t].cand \in Instances /\ task[t].todo \in Seq(Items) /\ task[t].todo # <<>>
  <2>1. task[t].pc = "load"
    BY <1>1 DEF Held
  <2>2. task[t].cand \in Instances
    BY <2>1, TaskTypes DEF Changing
  <2> QED BY <2>1, <2>2, TaskTypes, HeldItem DEF Swapping
<1> DEFINE i == task[t].cand
<1>3. i.p \in Plugins
  BY <1>2 DEF Instances
<1>4. /\ bind' = [c \in Contexts |-> SwappedIn(i, c)]
      /\ states' = [states EXCEPT ![i.p] = i]
  BY DEF SwapInstances, SwappedIn
<1>5. CASE states[i.p] = None
  <2>1. Done(t, task[t].todo)
    BY <1>5 DEF SwapInstances, ItemDone
  <2>2. Passed(t, task[t].todo)
    BY <1>2, <2>1, DoneTask DEF Passed
  <2> QED BY <1>1, <1>2, <1>3, <1>4, <1>5, <2>2
<1>6. CASE states[i.p] # None
  <2>1. task' = [task EXCEPT ![t].pc = "retire", ![t].old = states[i.p],
                             ![t].left = Reverse(ContextsWith(i.p))]
    BY <1>6 DEF SwapInstances
  <2>2. Reverse(ContextsWith(i.p)) \in Seq(Contexts) /\ states[i.p] \in Instances \cup {None}
    <3>1. ContextsWith(i.p) \in Seq(Contexts)
      BY KeptFacts DEF ContextsWith, TypeOK
    <3> QED BY <1>3, <3>1, SeqFacts DEF TypeOK
  <2>3. Moved(t, task[t].op, "retire", task[t].todo, task[t].p, task[t].prev, task[t].cand,
              states[i.p], Reverse(ContextsWith(i.p)), task[t].back)
    <3>1. Reverse(ContextsWith(i.p)) \in Seq(Contexts) \cup Seq(Plugins) \cup Seq(Bindings)
      BY <2>2
    <3> QED BY <2>1, <2>2, <3>1, TaskPcOldLeft
  <2> QED BY <1>1, <1>2, <1>3, <1>4, <1>6, <2>2, <2>3
<1> QED BY <1>5, <1>6

(* What attaching a bot does before the first hook.                         *)
LEMMA StartAttachFacts ==
  ASSUME PluginHostAssumption, TypeOK, NEW c \in Contexts, StartAttach(c)
  PROVE  /\ Taking(c) /\ task[c].op = "attach" /\ task[c].todo # <<>>
         /\ attached' = Append(attached, c)
         /\ \E s \in Seq(Plugins) :
              /\ IsInjective(s) /\ \A p \in ToSet(s) : states[p] # None
              /\ Moved(c, "attach", "bind", task[c].todo, task[c].p, task[c].prev,
                       task[c].cand, task[c].old, s, task[c].back)
         /\ UNCHANGED <<installed, file, states, born, alive, loaded, bind, rt, worker,
                        breaker, ops, calls, overlap, torn>>
<1>1. /\ Taking(c) /\ task[c].op = "attach" /\ task[c].todo # <<>>
      /\ attached' = Append(attached, c)
      /\ UNCHANGED <<installed, file, states, born, alive, loaded, bind, rt, worker,
                     breaker, ops, calls, overlap, torn>>
  BY DEF StartAttach, Outside, Turn, Taking
<1> DEFINE S == {p \in Plugins : states[p] # None}
           s == SetToSeq(S)
<1>2. IsFiniteSet(S) /\ S \subseteq Plugins
  BY FS_Subset DEF PluginHostAssumption
<1>3. s \in Seq(Plugins) /\ ToSet(s) \subseteq S /\ IsInjective(s)
  BY <1>2, SetToSeqFacts
<1>4. task' = [task EXCEPT ![c].pc = "bind", ![c].left = s]
  BY DEF StartAttach
<1> HIDE DEF s
<1>5. Moved(c, task[c].op, "bind", task[c].todo, task[c].p, task[c].prev,
            task[c].cand, task[c].old, s, task[c].back)
  <2>1. c \in Tasks /\ s \in Seq(Contexts) \cup Seq(Plugins) \cup Seq(Bindings)
    BY <1>3 DEF Tasks
  <2> QED BY <1>4, <2>1, TaskPcLeft
<1> QED BY <1>1, <1>3, <1>5

(* What on_load of the next plugin does to a bot that is attached.          *)
LEMMA BindFacts ==
  ASSUME TypeOK, NEW c \in Contexts, Working(c), Changing(c), NEW ok \in BOOLEAN, BindNext(c, ok)
  PROVE  /\ Held(c, "bind") /\ task[c].todo # <<>>
         /\ \/ /\ task[c].left = <<>> /\ loaded' = loaded /\ bind' = bind
               /\ Passed(c, task[c].todo)
            \/ /\ task[c].left # <<>> /\ Head(task[c].left) \in Plugins
               /\ states[Head(task[c].left)] \in Instances
               /\ Moved(c, task[c].op, "bind", task[c].todo, task[c].p, task[c].prev,
                        task[c].cand, task[c].old, Tail(task[c].left), task[c].back)
               /\ \/ loaded' = loaded /\ bind' = bind
                  \/ /\ loaded' = loaded \cup {<<states[Head(task[c].left)], c>>}
                     /\ bind' = [bind EXCEPT ![c] =
                                   Append(@, [p |-> Head(task[c].left),
                                              inst |-> states[Head(task[c].left)]])]
         /\ UNCHANGED <<installed, file, states, born, alive, attached, rt, worker,
                        breaker, ops, calls, overlap, torn>>
<1>1. /\ Held(c, "bind")
      /\ UNCHANGED <<installed, file, states, born, alive, attached, rt, worker,
                     breaker, ops, calls, overlap, torn>>
  BY DEF BindNext, Outside, Held
<1>2. /\ task[c].left \in Seq(Plugins) /\ task[c].todo \in Seq(Items) /\ task[c].todo # <<>>
      /\ c \in Tasks /\ \A p \in ToSet(task[c].left) : states[p] # None
  <2>1. task[c].pc = "bind" /\ c \in Tasks
    BY <1>1 DEF Held, Tasks
  <2> QED BY <2>1, TaskTypes, HeldItem DEF Changing
<1>3. CASE task[c].left = <<>>
  <2>1. loaded' = loaded /\ bind' = bind /\ Done(c, task[c].todo)
    BY <1>3 DEF BindNext, ItemDone
  <2>2. Passed(c, task[c].todo)
    BY <1>2, <2>1, DoneTask DEF Passed
  <2> QED BY <1>1, <1>2, <1>3, <2>1, <2>2
<1>4. CASE task[c].left # <<>>
  <2>1. /\ Head(task[c].left) \in Plugins /\ Tail(task[c].left) \in Seq(Plugins)
        /\ Head(task[c].left) \in ToSet(task[c].left)
    BY <1>2, <1>4, SeqFacts
  <2>2. states[Head(task[c].left)] \in Instances
    BY <1>2, <2>1 DEF TypeOK
  <2>3. task' = [task EXCEPT ![c].left = Tail(task[c].left)]
    BY <1>4 DEF BindNext
  <2>4. Moved(c, task[c].op, task[c].pc, task[c].todo, task[c].p, task[c].prev,
              task[c].cand, task[c].old, Tail(task[c].left), task[c].back)
    BY <1>2, <2>1, <2>3, TaskLeft
  <2>5. \/ loaded' = loaded /\ bind' = bind
        \/ /\ loaded' = loaded \cup {<<states[Head(task[c].left)], c>>}
           /\ bind' = [bind EXCEPT ![c] = Append(@, [p |-> Head(task[c].left),
                                                     inst |-> states[Head(task[c].left)]])]
    BY <1>4 DEF BindNext
  <2> QED BY <1>1, <1>2, <1>4, <2>1, <2>2, <2>4, <2>5 DEF Held
<1> QED BY <1>3, <1>4

(* What detaching a bot does before the first hook.                         *)
LEMMA StartDetachFacts ==
  ASSUME TypeOK, NEW t \in Tasks, StartDetach(t)
  PROVE  /\ Taking(t) /\ task[t].todo # <<>> /\ Head(task[t].todo).do = "detach"
         /\ Head(task[t].todo) \in ToSet(task[t].todo) /\ Head(task[t].todo).p \in Contexts
         /\ attached' = Kept(attached, Contexts \ {Head(task[t].todo).p})
         /\ Reverse(bind[Head(task[t].todo).p]) \in Seq(Bindings)
         /\ Moved(t, task[t].op, "unbind", task[t].todo, task[t].p, task[t].prev,
                  task[t].cand, task[t].old, Reverse(bind[Head(task[t].todo).p]), task[t].back)
         /\ UNCHANGED <<installed, file, states, born, alive, loaded, bind, rt, worker,
                        breaker, ops, calls, overlap, torn>>
<1>1. /\ Taking(t) /\ task[t].todo # <<>> /\ Head(task[t].todo).do = "detach"
      /\ UNCHANGED <<installed, file, states, born, alive, loaded, bind, rt, worker,
                     breaker, ops, calls, overlap, torn>>
  BY DEF StartDetach, Outside, Turn, Taking
<1>2. /\ attached' = Kept(attached, Contexts \ {Head(task[t].todo).p})
      /\ task' = [task EXCEPT ![t].pc = "unbind", ![t].left = Reverse(bind[Head(task[t].todo).p])]
  BY DEF StartDetach
<1>3. Head(task[t].todo) \in ToSet(task[t].todo) /\ Head(task[t].todo) \in Items
  <2>1. task[t].todo \in Seq(Items)
    BY TaskTypes
  <2>2. ToSet(task[t].todo) \subseteq Items /\ Head(task[t].todo) \in ToSet(task[t].todo)
    BY <1>1, <2>1, SeqFacts
  <2> QED BY <2>2
<1>4. Head(task[t].todo).p \in Contexts
  BY <1>1, <1>3, ItemTypes
<1>5. Reverse(bind[Head(task[t].todo).p]) \in Seq(Bindings)
  <2>1. bind[Head(task[t].todo).p] \in Seq(Bindings)
    BY <1>4 DEF TypeOK
  <2> QED BY <2>1, SeqFacts
<1>6. Moved(t, task[t].op, "unbind", task[t].todo, task[t].p, task[t].prev,
            task[t].cand, task[t].old, Reverse(bind[Head(task[t].todo).p]), task[t].back)
  <2>1. Reverse(bind[Head(task[t].todo).p]) \in Seq(Contexts) \cup Seq(Plugins) \cup Seq(Bindings)
    BY <1>5
  <2> QED BY <1>2, <2>1, TaskPcLeft
<1> QED BY <1>1, <1>2, <1>3, <1>4, <1>5, <1>6

(* What the next on_unload does to a bot that is detached.                  *)
LEMMA UnbindFacts ==
  ASSUME TypeOK, NEW t \in Tasks, Working(t), Changing(t), UnbindNext(t)
  PROVE  /\ Held(t, "unbind") /\ task[t].todo # <<>> /\ Head(task[t].todo).p \in Contexts
         /\ task[t].left \in Seq(Bindings)
         /\ \/ /\ task[t].left # <<>>
               /\ loaded' = loaded \ {<<Head(task[t].left).inst, Head(task[t].todo).p>>}
               /\ bind' = bind
               /\ Moved(t, task[t].op, "unbind", task[t].todo, task[t].p, task[t].prev,
                        task[t].cand, task[t].old, Tail(task[t].left), task[t].back)
            \/ /\ task[t].left = <<>> /\ loaded' = loaded
               /\ bind' = [bind EXCEPT ![Head(task[t].todo).p] = <<>>]
               /\ Passed(t, task[t].todo)
         /\ UNCHANGED <<installed, file, states, born, alive, attached, rt, worker,
                        breaker, ops, calls, overlap, torn>>
<1>1. /\ Held(t, "unbind")
      /\ UNCHANGED <<installed, file, states, born, alive, attached, rt, worker,
                     breaker, ops, calls, overlap, torn>>
  BY DEF UnbindNext, Outside, Held
<1>2. /\ task[t].left \in Seq(Bindings) /\ task[t].todo \in Seq(Items) /\ task[t].todo # <<>>
      /\ Head(task[t].todo).p \in Contexts
  <2>1. task[t].pc = "unbind"
    BY <1>1 DEF Held
  <2> QED BY <2>1, TaskTypes, HeldItem DEF Changing
<1>3. CASE task[t].left # <<>>
  <2>1. /\ loaded' = loaded \ {<<Head(task[t].left).inst, Head(task[t].todo).p>>} /\ bind' = bind
        /\ task' = [task EXCEPT ![t].left = Tail(task[t].left)]
    BY <1>3 DEF UnbindNext
  <2>2. Tail(task[t].left) \in Seq(Bindings)
    BY <1>2, <1>3, SeqFacts
  <2>3. Moved(t, task[t].op, task[t].pc, task[t].todo, task[t].p, task[t].prev, task[t].cand,
              task[t].old, Tail(task[t].left), task[t].back)
    BY <2>1, <2>2, TaskLeft
  <2> QED BY <1>1, <1>2, <1>3, <2>1, <2>3 DEF Held
<1>4. CASE task[t].left = <<>>
  <2>1. /\ loaded' = loaded /\ bind' = [bind EXCEPT ![Head(task[t].todo).p] = <<>>]
        /\ Done(t, task[t].todo)
    BY <1>4 DEF UnbindNext, ItemDone
  <2>2. Passed(t, task[t].todo)
    BY <1>2, <2>1, DoneTask DEF Passed
  <2> QED BY <1>1, <1>2, <1>4, <2>1, <2>2
<1> QED BY <1>3, <1>4

(* The task t is idle now.                                                 *)
Idles(t) ==
  /\ Moved(t, "idle", "idle", <<>>, None, None, None, None, <<>>, <<>>)
  /\ task'[t] = Idle

(* What a failed replacement does: the file goes back, the plugin is kept   *)
(* or isolated.                                                             *)
LEMMA FailFacts ==
  ASSUME TypeOK, NEW t \in Tasks, Working(t), FailItem(t)
  PROVE  /\ lock = t /\ task[t].pc = "failed" /\ task[t].todo # <<>>
         /\ Head(task[t].todo).p \in Plugins
         /\ \/ /\ task[t].op \in {"update", "reload"}
               /\ file' = IF task[t].op = "update"
                          THEN [file EXCEPT ![Head(task[t].todo).p] = task[t].prev] ELSE file
               /\ lock' = None /\ states' = states /\ Idles(t)
            \/ /\ task[t].op \in {"reconcile", "prepare"}
               /\ file' = file /\ lock' = lock
               /\ Deactivated(t, Head(task[t].todo).p, task[t].todo)
         /\ UNCHANGED <<installed, born, alive, loaded, attached, bind, rt, worker,
                        breaker, ops, calls, overlap, torn>>
<1> DEFINE p == Head(task[t].todo).p
<1>1. /\ lock = t /\ task[t].pc = "failed"
      /\ UNCHANGED <<installed, born, alive, loaded, attached, bind, rt, worker,
                     breaker, ops, calls, overlap, torn>>
  BY DEF FailItem, Outside
<1>2. task[t].todo \in Seq(Items) /\ task[t].todo # <<>> /\ p \in Plugins
  <2>1. task[t].pc \in Swapping
    BY <1>1 DEF Swapping
  <2> QED BY <2>1, TaskTypes, HeldItem
<1>3. CASE task[t].op \in {"update", "reload"}
  <2>1. /\ file' = IF task[t].op = "update" THEN [file EXCEPT ![p] = task[t].prev] ELSE file
        /\ lock' = None /\ states' = states /\ task' = [task EXCEPT ![t] = Idle]
    BY <1>3 DEF FailItem
  <2>2. Idles(t)
    BY <2>1, MovedToIdle DEF Idles
  <2> QED BY <1>1, <1>2, <1>3, <2>1, <2>2
<1>4. CASE task[t].op \in {"reconcile", "prepare"}
  <2>1. file' = file /\ lock' = lock
    BY <1>4 DEF FailItem
  <2>2. Deactivated(t, p, task[t].todo)
    <3>1. CASE states[p] # None
      <4>1. StartDeactivate(t, p, task[t].todo)
        BY <1>4, <3>1 DEF FailItem
      <4> QED BY <1>2, <4>1, DeactivateFacts DEF Deactivated
    <3>2. CASE states[p] = None
      <4>1. Done(t, task[t].todo) /\ states' = states
        BY <1>4, <3>2 DEF FailItem, ItemDone
      <4>2. states' = [states EXCEPT ![p] = None]
        BY <1>2, <3>2, <4>1 DEF TypeOK
      <4> QED BY <1>2, <3>2, <4>1, <4>2, DoneTask DEF Deactivated, Passed
    <3> QED BY <3>1, <3>2
  <2> QED BY <1>1, <1>2, <1>4, <2>1, <2>2
<1> QED BY <1>3, <1>4 DEF FailItem

(* The items of an operation that comes to its end.                        *)
LEMMA FinishFacts ==
  ASSUME TypeOK, Roles, NEW t \in Tasks, Finish(t)
  PROVE  /\ (lock = t /\ task[t].pc = "next") \/ (lock = None /\ task[t].pc = "wait")
         /\ Pending(t) = <<>> /\ lock' = None
         /\ installed' = IF task[t].op = "uninstall" THEN installed \ {task[t].p} ELSE installed
         /\ \/ /\ task[t].op = "prepare" /\ t \in Contexts /\ rt' = rt
               /\ Moved(t, "attach", "wait", <<Item("attach", t, None)>>, None, None,
                        None, None, <<>>, <<>>)
               /\ <<Item("attach", t, None)>> \in Seq(Items)
            \/ task[t].op = "attach" /\ t \in Contexts /\ rt' = [rt EXCEPT ![t] = "up"] /\ Idles(t)
            \/ task[t].op = "detach" /\ t \in Contexts /\ rt' = [rt EXCEPT ![t] = "gone"] /\ Idles(t)
            \/ task[t].op \notin {"prepare", "attach", "detach"} /\ rt' = rt /\ Idles(t)
         /\ UNCHANGED <<file, states, born, alive, loaded, attached, bind, worker,
                        breaker, ops, calls, overlap, torn>>
<1>1. /\ (lock = t /\ task[t].pc = "next") \/ (lock = None /\ task[t].pc = "wait")
      /\ Pending(t) = <<>> /\ lock' = None
      /\ installed' = IF task[t].op = "uninstall" THEN installed \ {task[t].p} ELSE installed
      /\ UNCHANGED <<file, states, born, alive, loaded, attached, bind, worker,
                     breaker, ops, calls, overlap, torn>>
  BY DEF Finish
<1>2. task[t].op \in {"prepare", "attach", "detach"} => t \in Contexts
  BY DEF Roles, Tasks
<1>3. CASE task[t].op = "prepare"
  <2> DEFINE todo == <<Item("attach", t, None)>>
  <2>1. /\ task' = [task EXCEPT ![t] = [Idle EXCEPT !.op = "attach", !.pc = "wait", !.todo = todo]]
        /\ rt' = rt
    BY <1>3 DEF Finish
  <2>2. todo \in Seq(Items)
    <3>1. Item("attach", t, None) \in Items
      BY <1>2, <1>3 DEF Item, Items
    <3> QED BY <3>1
  <2> HIDE DEF todo
  <2>3. Moved(t, "attach", "wait", todo, None, None, None, None, <<>>, <<>>)
    BY <2>1, <2>2, NewTask
  <2> QED BY <1>1, <1>2, <1>3, <2>1, <2>2, <2>3 DEF todo
<1>4. CASE task[t].op # "prepare"
  <2>1. task' = [task EXCEPT ![t] = Idle]
    BY <1>4 DEF Finish
  <2>2. Idles(t)
    BY <2>1, MovedToIdle DEF Idles
  <2>3. rt' = IF task[t].op = "attach" THEN [rt EXCEPT ![t] = "up"]
              ELSE IF task[t].op = "detach" THEN [rt EXCEPT ![t] = "gone"]
              ELSE rt
    BY DEF Finish
  <2> QED BY <1>1, <1>2, <1>4, <2>2, <2>3
<1> QED BY <1>3, <1>4

----------------------------------------------------------------------------
(* The steps that take no lock                                             *)

(* A request, and what it leaves alone.                                    *)
NewRequest(a, op, todo, p, prev) ==
  /\ task[a] = Idle /\ ops' \in Nat
  /\ todo \in Seq(Items) /\ p \in Plugins \cup {None} /\ prev \in Configs \cup {None}
  /\ Moved(a, op, "wait", todo, p, prev, None, None, <<>>, <<>>)
  /\ UNCHANGED <<installed, states, born, alive, loaded, attached, bind, rt, lock,
                 worker, breaker, calls, torn>>

(* A request about one plugin; one about all of them; the shutdown.        *)
AboutOne(op, i, p, prev) ==
  /\ i.p = p /\ i.do = (IF op = "uninstall" THEN "drop" ELSE "replace")
  /\ op = "reload" => i.cfg = file[p]
  /\ op = "update" => prev = file[p] /\ file' = [file EXCEPT ![p] = i.cfg]
  /\ op # "update" => file' = file
  /\ overlap' = overlap \cup Overlapping({p}, op = "update")
AboutAll(todo) ==
  /\ file' = file
  /\ \A i \in ToSet(todo) : i.do = "force" /\ i.p \in Plugins
  /\ overlap' = overlap \cup Overlapping({i.p : i \in ToSet(todo)}, FALSE)
AboutTheEnd(todo) ==
  /\ file' = file /\ overlap' = overlap
  /\ \A c \in Contexts : rt[c] = "gone"
  /\ \A t \in Tasks : task[t] = Idle
  /\ \A i \in ToSet(todo) : (i.do = "drop" /\ i.p \in Plugins) \/ (i.do = "detach" /\ i.p \in Contexts)

(* What a request of the WebUI does before it waits for the lock.           *)
LEMMA RequestsFacts ==
  ASSUME PluginHostAssumption, TypeOK, NEW a \in Admins, Requests(a)
  PROVE  \/ \E op \in {"update", "reload", "uninstall"}, i \in Items, p \in installed,
               prev \in Configs \cup {None} :
              NewRequest(a, op, <<i>>, p, prev) /\ AboutOne(op, i, p, prev)
         \/ \E todo \in Seq(Items) : NewRequest(a, "reconcile", todo, None, None) /\ AboutAll(todo)
         \/ \E todo \in Seq(Items) : NewRequest(a, "shutdown", todo, None, None) /\ AboutTheEnd(todo)
<1> DEFINE Rest == UNCHANGED <<installed, states, born, alive, loaded, attached, bind, rt, lock,
                               worker, breaker, calls, torn>>
<1>0. a \in Tasks /\ file \in [Plugins -> Configs] /\ installed \subseteq Plugins
      /\ ops \in Nat /\ ops + 1 \in Nat /\ MaxOps \in Nat /\ None \in Plugins \cup {None}
      /\ None \in Configs \cup {None}
  BY DEF Tasks, TypeOK, PluginHostAssumption
<1>1. ASSUME NEW p \in Plugins, NEW c \in Configs, UpdateConfig(a, p, c)
      PROVE  /\ p \in installed /\ Item("replace", p, c) \in Items
             /\ NewRequest(a, "update", <<Item("replace", p, c)>>, p, file[p])
             /\ AboutOne("update", Item("replace", p, c), p, file[p])
  <2> DEFINE i == Item("replace", p, c)
             s == <<i>>
  <2>1. Request(a, "update", s, p, file[p]) /\ p \in installed /\ file' = [file EXCEPT ![p] = c] /\ Rest
    BY <1>1 DEF UpdateConfig
  <2>2. i \in Items /\ i.p = p /\ i.do = "replace" /\ i.cfg = c
    BY <1>0 DEF Item, Items
  <2> HIDE DEF i
  <2>3. s \in Seq(Items) /\ file[p] \in Configs \cup {None} /\ p \in Plugins \cup {None}
    BY <1>0, <2>2
  <2>4. Moved(a, "update", "wait", s, p, file[p], None, None, <<>>, <<>>)
    BY <1>0, <2>1, <2>3, RequestTask
  <2>5. {s[k].p : k \in DOMAIN s} = {p}
    BY <2>2
  <2> HIDE DEF s
  <2>6. task[a] = Idle /\ ops' \in Nat
        /\ overlap' = overlap \cup Overlapping({s[k].p : k \in DOMAIN s}, "update" = "update")
    BY <1>0, <2>1 DEF Request
  <2>7. NewRequest(a, "update", s, p, file[p])
    BY <2>1, <2>3, <2>4, <2>6 DEF NewRequest
  <2>8. AboutOne("update", i, p, file[p])
    BY <2>1, <2>2, <2>5, <2>6 DEF AboutOne
  <2> QED BY <2>1, <2>2, <2>7, <2>8 DEF i, s
<1>2. ASSUME NEW p \in Plugins, ReloadPlugin(a, p)
      PROVE  /\ p \in installed /\ Item("replace", p, file[p]) \in Items
             /\ NewRequest(a, "reload", <<Item("replace", p, file[p])>>, p, None)
             /\ AboutOne("reload", Item("replace", p, file[p]), p, None)
  <2> DEFINE i == Item("replace", p, file[p])
             s == <<i>>
  <2>1. Request(a, "reload", s, p, None) /\ p \in installed /\ file' = file /\ Rest
    BY <1>2 DEF ReloadPlugin, host
  <2>2. i \in Items /\ i.p = p /\ i.do = "replace" /\ i.cfg = file[p]
    BY <1>0 DEF Item, Items
  <2> HIDE DEF i
  <2>3. s \in Seq(Items) /\ None \in Configs \cup {None} /\ p \in Plugins \cup {None}
    BY <1>0, <2>2
  <2>4. Moved(a, "reload", "wait", s, p, None, None, None, <<>>, <<>>)
    BY <1>0, <2>1, <2>3, RequestTask
  <2>5. {s[k].p : k \in DOMAIN s} = {p}
    BY <2>2
  <2> HIDE DEF s
  <2>6. task[a] = Idle /\ ops' \in Nat
        /\ overlap' = overlap \cup Overlapping({s[k].p : k \in DOMAIN s}, "reload" = "update")
    BY <1>0, <2>1 DEF Request
  <2>7. NewRequest(a, "reload", s, p, None)
    BY <2>1, <2>3, <2>4, <2>6 DEF NewRequest
  <2>8. AboutOne("reload", i, p, None)
    BY <2>1, <2>2, <2>5, <2>6 DEF AboutOne
  <2> QED BY <2>1, <2>2, <2>7, <2>8 DEF i, s
<1>3. ASSUME NEW p \in Plugins, Uninstall(a, p)
      PROVE  /\ p \in installed /\ Item("drop", p, None) \in Items
             /\ NewRequest(a, "uninstall", <<Item("drop", p, None)>>, p, None)
             /\ AboutOne("uninstall", Item("drop", p, None), p, None)
  <2> DEFINE i == Item("drop", p, None)
             s == <<i>>
  <2>1. Request(a, "uninstall", s, p, None) /\ p \in installed /\ file' = file /\ Rest
    BY <1>3 DEF Uninstall, host
  <2>2. i \in Items /\ i.p = p /\ i.do = "drop" /\ i.cfg = None
    BY <1>0 DEF Item, Items
  <2> HIDE DEF i
  <2>3. s \in Seq(Items) /\ None \in Configs \cup {None} /\ p \in Plugins \cup {None}
    BY <1>0, <2>2
  <2>4. Moved(a, "uninstall", "wait", s, p, None, None, None, <<>>, <<>>)
    BY <1>0, <2>1, <2>3, RequestTask
  <2>5. {s[k].p : k \in DOMAIN s} = {p}
    BY <2>2
  <2> HIDE DEF s
  <2>6. task[a] = Idle /\ ops' \in Nat
        /\ overlap' = overlap \cup Overlapping({s[k].p : k \in DOMAIN s}, "uninstall" = "update")
    BY <1>0, <2>1 DEF Request
  <2>7. NewRequest(a, "uninstall", s, p, None)
    BY <2>1, <2>3, <2>4, <2>6 DEF NewRequest
  <2>8. AboutOne("uninstall", i, p, None)
    BY <2>1, <2>2, <2>5, <2>6 DEF AboutOne
  <2> QED BY <2>1, <2>2, <2>7, <2>8 DEF i, s
<1>4. ASSUME ReconcileForced(a)
      PROVE  /\ NewRequest(a, "reconcile", SyncItems("force"), None, None)
             /\ AboutAll(SyncItems("force")) /\ SyncItems("force") \in Seq(Items)
  <2> DEFINE s == SyncItems("force")
  <2>1. Request(a, "reconcile", s, None, None) /\ file' = file /\ Rest
    BY <1>4 DEF ReconcileForced, host
  <2>2. s \in Seq(Items) /\ \A i \in ToSet(s) : i.do = "force" /\ i.p \in Plugins
    BY SyncFacts
  <2> HIDE DEF s
  <2>3. Moved(a, "reconcile", "wait", s, None, None, None, None, <<>>, <<>>)
    BY <1>0, <2>1, <2>2, RequestTask
  <2>4. {s[k].p : k \in DOMAIN s} = {i.p : i \in ToSet(s)}
    BY DEF ToSet
  <2>5. task[a] = Idle /\ ops' \in Nat
        /\ overlap' = overlap \cup Overlapping({s[k].p : k \in DOMAIN s}, "reconcile" = "update")
    BY <1>0, <2>1 DEF Request
  <2>6. overlap' = overlap \cup Overlapping({i.p : i \in ToSet(s)}, FALSE)
    BY <2>4, <2>5
  <2>7. NewRequest(a, "reconcile", s, None, None)
    BY <1>0, <2>1, <2>2, <2>3, <2>5 DEF NewRequest
  <2>8. AboutAll(s)
    BY <2>1, <2>2, <2>6 DEF AboutAll
  <2> QED BY <2>2, <2>7, <2>8 DEF s
<1>5. ASSUME Shutdown(a)
      PROVE  \E todo \in Seq(Items) : NewRequest(a, "shutdown", todo, None, None) /\ AboutTheEnd(todo)
  <2> DEFINE d == [k \in DOMAIN attached |-> Item("detach", attached[k], None)]
             e == SyncItems("drop")
             todo == d \o e
  <2>1. /\ \A c \in Contexts : rt[c] = "gone"
        /\ \A t \in Tasks : task[t] = Idle
        /\ ops' = MaxOps /\ file' = file /\ overlap' = overlap /\ Rest
        /\ task' = [task EXCEPT ![a] = [Idle EXCEPT !.op = "shutdown", !.pc = "wait", !.todo = todo]]
    BY <1>5 DEF Shutdown, host
  <2>2. attached \in Seq(Contexts) /\ DOMAIN attached = 1 .. Len(attached) /\ Len(attached) \in Nat
        /\ \A k \in DOMAIN attached : attached[k] \in Contexts
    BY DEF TypeOK
  <2>3. \A k \in DOMAIN attached : d[k] \in Items /\ d[k].do = "detach" /\ d[k].p \in Contexts
    BY <2>2 DEF Item, Items
  <2>4. d \in Seq(Items) /\ DOMAIN d = DOMAIN attached
    BY <2>2, <2>3
  <2>5. e \in Seq(Items) /\ \A i \in ToSet(e) : i.do = "drop" /\ i.p \in Plugins
    BY SyncFacts
  <2> HIDE DEF d, e
  <2>6. todo \in Seq(Items)
    BY <2>4, <2>5
  <2>7. ASSUME NEW i \in ToSet(todo)
        PROVE  (i.do = "drop" /\ i.p \in Plugins) \/ (i.do = "detach" /\ i.p \in Contexts)
    <3>1. PICK k \in DOMAIN todo : i = todo[k]
      BY DEF ToSet
    <3>2. \/ k \in DOMAIN d /\ todo[k] = d[k]
          \/ k - Len(d) \in DOMAIN e /\ todo[k] = e[k - Len(d)]
      BY <2>4, <2>5
    <3>3. CASE k \in DOMAIN d /\ todo[k] = d[k]
      BY <2>3, <2>4, <3>1, <3>3
    <3>4. CASE k - Len(d) \in DOMAIN e /\ todo[k] = e[k - Len(d)]
      BY <2>5, <3>1, <3>4 DEF ToSet
    <3> QED BY <3>2, <3>3, <3>4
  <2> HIDE DEF todo
  <2>8. Moved(a, "shutdown", "wait", todo, None, None, None, None, <<>>, <<>>)
    BY <1>0, <2>1, <2>6, NewTask
  <2>9. NewRequest(a, "shutdown", todo, None, None)
    BY <1>0, <2>1, <2>6, <2>8 DEF NewRequest
  <2>10. AboutTheEnd(todo)
    BY <2>1, <2>7 DEF AboutTheEnd
  <2> QED BY <2>6, <2>9, <2>10
<1> HIDE DEF Rest
<1>6. CASE \E p \in Plugins, c \in Configs : UpdateConfig(a, p, c)
  <2>1. PICK p \in Plugins, c \in Configs : UpdateConfig(a, p, c)
    BY <1>6
  <2>2. file[p] \in Configs \cup {None}
    BY <1>0
  <2> QED BY <1>1, <2>1, <2>2
<1>7. CASE \E p \in Plugins : ReloadPlugin(a, p)
  BY <1>0, <1>2, <1>7
<1>8. CASE \E p \in Plugins : Uninstall(a, p)
  BY <1>0, <1>3, <1>8
<1>9. CASE ReconcileForced(a)
  BY <1>4, <1>9
<1>10. CASE Shutdown(a)
  BY <1>5, <1>10
<1> QED BY <1>6, <1>7, <1>8, <1>9, <1>10 DEF Requests

(* What the start of a bot does.                                            *)
LEMMA StartBotFacts ==
  ASSUME PluginHostAssumption, TypeOK, NEW c \in Contexts, StartBot(c)
  PROVE  /\ rt[c] = "fresh" /\ rt' = [rt EXCEPT ![c] = "starting"]
         /\ \E todo \in Seq(Items) :
              /\ Moved(c, "prepare", "wait", todo, None, None, None, None, <<>>, <<>>)
              /\ \A i \in ToSet(todo) : i.do = "sync" /\ i.p \in Plugins
         /\ overlap' = overlap \cup Overlapping(Plugins, FALSE)
         /\ UNCHANGED <<installed, file, states, born, alive, loaded, attached, bind, lock,
                        worker, breaker, ops, calls, torn>>
<1> DEFINE todo == SyncItems("sync")
<1>1. /\ rt[c] = "fresh" /\ rt' = [rt EXCEPT ![c] = "starting"]
      /\ overlap' = overlap \cup Overlapping(Plugins, FALSE)
      /\ UNCHANGED <<installed, file, states, born, alive, loaded, attached, bind, lock,
                     worker, breaker, ops, calls, torn>>
      /\ task' = [task EXCEPT ![c] = [Idle EXCEPT !.op = "prepare", !.pc = "wait", !.todo = todo]]
  BY DEF StartBot, host
<1>2. todo \in Seq(Items) /\ \A i \in ToSet(todo) : i.do = "sync" /\ i.p \in Plugins
  BY SyncFacts
<1> HIDE DEF todo
<1>3. Moved(c, "prepare", "wait", todo, None, None, None, None, <<>>, <<>>)
  <2>1. c \in Tasks
    BY DEF Tasks
  <2> QED BY <1>1, <1>2, <2>1, NewTask
<1> QED BY <1>1, <1>2, <1>3

(* What cancelling a start does.                                            *)
LEMMA CancelFacts ==
  ASSUME TypeOK, NEW c \in Contexts, CancelStart(c)
  PROVE  /\ rt[c] = "starting" /\ rt' = [rt EXCEPT ![c] = "gone"] /\ Idles(c)
         /\ lock' = IF lock = c THEN None ELSE lock
         /\ torn' = (torn \/ lock = c)
         /\ UNCHANGED <<installed, file, states, born, alive, loaded, attached, bind,
                        worker, breaker, ops, calls, overlap>>
<1>1. /\ rt[c] = "starting" /\ rt' = [rt EXCEPT ![c] = "gone"]
      /\ task' = [task EXCEPT ![c] = Idle] /\ c \in Tasks
      /\ lock' = IF lock = c THEN None ELSE lock
      /\ UNCHANGED <<installed, file, states, born, alive, loaded, attached, bind,
                     worker, breaker, ops, calls, overlap>>
  BY DEF CancelStart, host, Tasks
<1>2. torn' = (torn \/ lock = c)
  BY DEF CancelStart
<1>3. Idles(c)
  BY <1>1, MovedToIdle DEF Idles
<1> QED BY <1>1, <1>2, <1>3

(* What stopping a bot does.                                                *)
LEMMA StopFacts ==
  ASSUME TypeOK, NEW c \in Contexts, StopBot(c)
  PROVE  /\ rt[c] = "up"
         /\ worker' = [w \in Workers |-> IF worker[w].c = c THEN Resting ELSE worker[w]]
         /\ breaker' = [breaker EXCEPT ![c] = [p \in Plugins |-> Closed]]
         /\ \/ rt' = [rt EXCEPT ![c] = "gone"] /\ task' = task
            \/ /\ rt' = [rt EXCEPT ![c] = "stopping"]
               /\ \E i \in Items :
                    /\ i.do = "detach" /\ i.p = c
                    /\ Moved(c, "detach", "wait", <<i>>, None, None, None, None, <<>>, <<>>)
         /\ UNCHANGED <<installed, file, states, born, alive, loaded, attached, bind, lock,
                        ops, calls, overlap, torn>>
<1>1. /\ rt[c] = "up"
      /\ worker' = [w \in Workers |-> IF worker[w].c = c THEN Resting ELSE worker[w]]
      /\ breaker' = [breaker EXCEPT ![c] = [p \in Plugins |-> Closed]]
      /\ UNCHANGED <<installed, file, states, born, alive, loaded, attached, bind, lock,
                     ops, calls, overlap, torn>>
  BY DEF StopBot, host
<1>2. CASE bind[c] = <<>>
  BY <1>1, <1>2 DEF StopBot
<1>3. CASE bind[c] # <<>>
  <2> DEFINE i == Item("detach", c, None)
  <2>1. i \in Items /\ i.do = "detach" /\ i.p = c /\ c \in Tasks
    BY DEF Item, Items, Tasks
  <2>2. /\ task' = [task EXCEPT ![c] = [Idle EXCEPT !.op = "detach", !.pc = "wait", !.todo = <<i>>]]
        /\ rt' = [rt EXCEPT ![c] = "stopping"]
    BY <1>3 DEF StopBot
  <2> HIDE DEF i
  <2>3. <<i>> \in Seq(Items)
    BY <2>1
  <2>4. Moved(c, "detach", "wait", <<i>>, None, None, None, None, <<>>, <<>>)
    BY <2>1, <2>2, <2>3, NewTask
  <2> QED BY <1>1, <2>1, <2>2, <2>4
<1> QED BY <1>2, <1>3

(* The walk of an inbound worker: who is called is bound to the bot.       *)
Calls(w, c) ==
  /\ \E b \in Bound(c) : worker' \in [Workers -> [c : Contexts \cup {None}, pos : Nat,
                                                 inst : Instances \cup {None}, probe : BOOLEAN]]
                         /\ worker'[w].c = c /\ worker'[w].inst = b.inst
  /\ \A v \in Workers : v # w => worker'[v] = worker[v]

(* The worker calls a plugin that is bound to the bot.                      *)
LEMMA CallFacts ==
  ASSUME TypeOK, NEW w \in Workers, NEW c \in Contexts, NEW k \in Nat, k # 0, NEW B,
         B \in [Plugins -> [n : 0 .. Trip, probe : BOOLEAN, st : {"closed", "open", "expired"}]],
         CallFrom(w, c, k, B)
  PROVE  /\ Calls(w, c) /\ calls' \in Nat
         /\ breaker' \in [Contexts -> [Plugins -> [n : 0 .. Trip, probe : BOOLEAN,
                                                   st : {"closed", "open", "expired"}]]]
<1>1. PICK j \in k .. Len(bind[c]) :
        LET b == bind[c][j]
            probing == B[b.p].st = "expired"
        IN /\ calls' = calls + 1
           /\ worker' = [worker EXCEPT ![w] = [c |-> c, pos |-> j, inst |-> b.inst,
                                               probe |-> probing]]
           /\ breaker' = [breaker EXCEPT ![c] = [B EXCEPT ![b.p].probe = probing]]
  BY DEF CallFrom
<1> DEFINE b == bind[c][j]
           probing == B[b.p].st = "expired"
<1>2. /\ bind[c] \in Seq(Bindings) /\ j \in DOMAIN bind[c] /\ j \in Nat
  BY DEF TypeOK
<1>3. b \in Bindings /\ b.p \in Plugins /\ b.inst \in Instances /\ b \in Bound(c)
  <2>1. b \in Bindings
    BY <1>2
  <2>2. b \in Bound(c)
    BY <1>2 DEF Bound, ToSet
  <2> HIDE DEF b
  <2> QED BY <2>1, <2>2 DEF Bindings
<1>4. probing \in BOOLEAN
  OBVIOUS
<1>5. /\ calls' = calls + 1
      /\ worker' = [worker EXCEPT ![w] = [c |-> c, pos |-> j, inst |-> b.inst, probe |-> probing]]
      /\ breaker' = [breaker EXCEPT ![c] = [B EXCEPT ![b.p].probe = probing]]
  BY <1>1
<1> HIDE DEF b, probing
<1>6. [c |-> c, pos |-> j, inst |-> b.inst, probe |-> probing]
         \in [c : Contexts \cup {None}, pos : Nat, inst : Instances \cup {None}, probe : BOOLEAN]
  BY <1>2, <1>3, <1>4
<1>7. worker \in [Workers -> [c : Contexts \cup {None}, pos : Nat,
                              inst : Instances \cup {None}, probe : BOOLEAN]]
  BY DEF TypeOK
<1> DEFINE r == [c |-> c, pos |-> j, inst |-> b.inst, probe |-> probing]
<1>8. r.c = c /\ r.inst = b.inst
  OBVIOUS
<1> HIDE DEF r
<1>9. /\ worker' \in [Workers -> [c : Contexts \cup {None}, pos : Nat,
                                  inst : Instances \cup {None}, probe : BOOLEAN]]
      /\ worker'[w] = r /\ \A v \in Workers : v # w => worker'[v] = worker[v]
  BY <1>5, <1>6, <1>7 DEF r
<1>10. Calls(w, c)
  BY <1>3, <1>8, <1>9 DEF Calls
<1>11. [B EXCEPT ![b.p].probe = probing]
         \in [Plugins -> [n : 0 .. Trip, probe : BOOLEAN, st : {"closed", "open", "expired"}]]
  BY <1>3, <1>4
<1>12. breaker' \in [Contexts -> [Plugins -> [n : 0 .. Trip, probe : BOOLEAN,
                                              st : {"closed", "open", "expired"}]]]
  <2>1. breaker \in [Contexts -> [Plugins -> [n : 0 .. Trip, probe : BOOLEAN,
                                              st : {"closed", "open", "expired"}]]]
    BY DEF TypeOK
  <2> QED BY <1>5, <1>11, <2>1
<1>13. calls' \in Nat
  BY <1>5 DEF TypeOK
<1> QED BY <1>10, <1>12, <1>13

(* What an inbound worker and an expiring breaker may change.              *)
LEMMA InboundFacts ==
  ASSUME PluginHostAssumption, TypeOK, NEW w \in Workers, Inbound(w),
         worker[w].inst # None => worker[w].c \in Contexts /\ rt[worker[w].c] = "up"
  PROVE  /\ \/ \E c \in Contexts : rt[c] = "up" /\ Calls(w, c)
            \/ worker' = [worker EXCEPT ![w] = Resting]
         /\ calls' \in Nat
         /\ breaker' \in [Contexts -> [Plugins -> [n : 0 .. Trip, probe : BOOLEAN,
                                                   st : {"closed", "open", "expired"}]]]
         /\ UNCHANGED <<installed, file, states, born, alive, loaded, attached, bind, rt, lock,
                        task, ops, overlap, torn>>
<1> DEFINE Breakers == [Plugins -> [n : 0 .. Trip, probe : BOOLEAN,
                                    st : {"closed", "open", "expired"}]]
<1>1. ASSUME NEW c \in Contexts, Message(w, c)
      PROVE  /\ rt[c] = "up" /\ Calls(w, c) /\ calls' \in Nat /\ breaker' \in [Contexts -> Breakers]
             /\ UNCHANGED <<installed, file, states, born, alive, loaded, attached, bind, rt, lock,
                            task, ops, overlap, torn>>
  <2>1. /\ rt[c] = "up" /\ CallFrom(w, c, 1, breaker[c])
        /\ UNCHANGED <<installed, file, states, born, alive, loaded, attached, bind, rt, lock,
                       task, ops, overlap, torn>>
    BY <1>1 DEF Message, host
  <2>2. breaker[c] \in Breakers
    BY DEF TypeOK
  <2>3. Calls(w, c) /\ calls' \in Nat /\ breaker' \in [Contexts -> Breakers]
    BY <2>1, <2>2, CallFacts
  <2> QED BY <2>1, <2>3
<1>2. ASSUME NEW how \in {"ok", "swallow", "raise", "timeout"}, PluginReturns(w, how)
      PROVE  /\ \/ \E c \in Contexts : rt[c] = "up" /\ Calls(w, c)
                \/ worker' = [worker EXCEPT ![w] = Resting]
             /\ calls' \in Nat /\ breaker' \in [Contexts -> Breakers]
             /\ UNCHANGED <<installed, file, states, born, alive, loaded, attached, bind, rt, lock,
                            task, ops, overlap, torn>>
  <2> DEFINE c == worker[w].c
             p == worker[w].inst.p
             B == [breaker[c] EXCEPT ![p] = Settled(@, how)]
  <2>1. /\ worker[w].inst # None
        /\ \/ CallFrom(w, c, worker[w].pos + 1, B)
           \/ /\ worker' = [worker EXCEPT ![w] = Resting]
              /\ breaker' = [breaker EXCEPT ![c] = B]
              /\ calls' = calls
        /\ UNCHANGED <<installed, file, states, born, alive, loaded, attached, bind, rt, lock,
                       task, ops, overlap, torn>>
    BY <1>2 DEF PluginReturns, host
  <2>2. c \in Contexts /\ rt[c] = "up"
    BY <2>1
  <2>3. breaker[c] \in Breakers /\ worker[w].pos \in Nat
    BY <2>2 DEF TypeOK
  <2>4. \A b \in [n : 0 .. Trip, probe : BOOLEAN, st : {"closed", "open", "expired"}] :
          Settled(b, how) \in [n : 0 .. Trip, probe : BOOLEAN, st : {"closed", "open", "expired"}]
    BY DEF Settled, Closed, PluginHostAssumption
  <2>5. B \in Breakers
    BY <2>3, <2>4
  <2> HIDE DEF B, c
  <2>6. CASE CallFrom(w, c, worker[w].pos + 1, B)
    <3>1. worker[w].pos + 1 \in Nat /\ worker[w].pos + 1 # 0
      BY <2>3
    <3>2. Calls(w, c) /\ calls' \in Nat /\ breaker' \in [Contexts -> Breakers]
      BY <2>2, <2>5, <2>6, <3>1, CallFacts
    <3> QED BY <2>1, <2>2, <3>2
  <2>7. CASE worker' = [worker EXCEPT ![w] = Resting] /\ breaker' = [breaker EXCEPT ![c] = B]
             /\ calls' = calls
    <3>1. calls' \in Nat /\ breaker' \in [Contexts -> Breakers]
      BY <2>2, <2>5, <2>7 DEF TypeOK
    <3> QED BY <2>1, <2>7, <3>1
  <2> QED BY <2>1, <2>6, <2>7
<1> QED BY <1>1, <1>2 DEF Inbound

(* What the end of a breaker's timeout does.                                *)
LEMMA ExpiryFacts ==
  ASSUME TypeOK, NEW c \in Contexts, NEW p \in Plugins, BreakerExpires(c, p)
  PROVE  /\ breaker' \in [Contexts -> [Plugins -> [n : 0 .. Trip, probe : BOOLEAN,
                                                   st : {"closed", "open", "expired"}]]]
         /\ UNCHANGED <<installed, file, states, born, alive, loaded, attached, bind, rt, lock,
                        task, worker, ops, calls, overlap, torn>>
<1>1. breaker' = [breaker EXCEPT ![c][p].st = "expired"]
  BY DEF BreakerExpires
<1>2. breaker \in [Contexts -> [Plugins -> [n : 0 .. Trip, probe : BOOLEAN,
                                            st : {"closed", "open", "expired"}]]]
  BY DEF TypeOK
<1>3. [breaker[c] EXCEPT ![p].st = "expired"]
         \in [Plugins -> [n : 0 .. Trip, probe : BOOLEAN, st : {"closed", "open", "expired"}]]
  <2>1. breaker[c] \in [Plugins -> [n : 0 .. Trip, probe : BOOLEAN,
                                    st : {"closed", "open", "expired"}]]
    BY <1>2
  <2> QED BY <2>1
<1>4. breaker' = [breaker EXCEPT ![c] = [breaker[c] EXCEPT ![p].st = "expired"]]
  BY <1>1, <1>2
<1> QED BY <1>2, <1>3, <1>4 DEF BreakerExpires, host

----------------------------------------------------------------------------
(* Types                                                                   *)

(* A deactivation keeps the types.                                          *)
LEMMA DeactivatedTypes ==
  ASSUME TypeOK, NEW t \in Tasks, NEW p \in Plugins, NEW todo, Deactivated(t, p, todo)
  PROVE  states' \in [Plugins -> Instances \cup {None}] /\ task' \in [Tasks -> Tasking]
<1>1. states' \in [Plugins -> Instances \cup {None}]
  BY DEF TypeOK, Deactivated
<1> QED BY <1>1 DEF Deactivated, Passed, Dropped, Moved

(* The steps under the lock keep the types.                                 *)
LEMMA TypeLocked ==
  ASSUME PluginHostAssumption, PluginInv, NEW t \in Tasks, Locked(t)
  PROVE  TypeOK'
<1>1. TypeOK /\ Roles /\ Working(t) /\ Changing(t)
  BY DEF PluginInv, Roles
<1>2. CASE TakeItem(t)
  <2> DEFINE h == Head(Pending(t))
  <2>1. /\ Taking(t) /\ h.p \in Plugins
        /\ UNCHANGED <<installed, file, alive, loaded, attached, bind, rt, worker, breaker,
                       ops, calls, overlap, torn>>
        /\ \/ \E c \in Configs : Replacing(t, h.p, c, Pending(t))
           \/ born' = born /\ Unloadable(t, Pending(t))
           \/ born' = born /\ Deactivated(t, h.p, Pending(t))
    BY <1>1, <1>2, TakeItemFacts
  <2> HIDE DEF h
  <2>2. /\ states' \in [Plugins -> Instances \cup {None}] /\ task' \in [Tasks -> Tasking]
        /\ born' \in [Plugins -> Nat]
    <3>1. CASE \E c \in Configs : Replacing(t, h.p, c, Pending(t))
      BY <1>1, <2>1, <3>1 DEF Replacing, Moved, TypeOK
    <3>2. CASE born' = born /\ Unloadable(t, Pending(t))
      BY <1>1, <3>2 DEF Unloadable, Moved, TypeOK
    <3>3. CASE born' = born /\ Deactivated(t, h.p, Pending(t))
      <4>1. born' \in [Plugins -> Nat]
        BY <1>1, <3>3 DEF TypeOK
      <4> QED BY <1>1, <2>1, <3>3, <4>1, DeactivatedTypes
    <3> QED BY <2>1, <3>1, <3>2, <3>3
  <2>3. lock' \in Tasks \cup {None}
    BY <2>1 DEF Taking
  <2> QED BY <1>1, <2>1, <2>2, <2>3 DEF TypeOK
<1>3. CASE UndoCandidate(t)
  <2>1. /\ lock' = t /\ task' \in [Tasks -> Tasking]
        /\ loaded' \subseteq loaded /\ alive' \subseteq alive
        /\ UNCHANGED <<installed, file, states, born, attached, bind, rt, worker,
                       breaker, ops, calls, overlap, torn>>
    BY <1>1, <1>3, UndoFacts DEF Held, Moved
  <2> QED BY <1>1, <2>1 DEF TypeOK
<1>4. CASE SwapInstances(t)
  <2> DEFINE i == task[t].cand
  <2>1. /\ lock' = t /\ task' \in [Tasks -> Tasking] /\ i \in Instances /\ i.p \in Plugins
        /\ bind' = [c \in Contexts |-> SwappedIn(i, c)]
        /\ states' = [states EXCEPT ![i.p] = i]
        /\ UNCHANGED <<installed, file, born, alive, loaded, attached, rt, worker,
                       breaker, ops, calls, overlap, torn>>
    BY <1>1, <1>4, SwapFacts DEF Held, Moved, Passed
  <2> HIDE DEF i
  <2>2. states' \in [Plugins -> Instances \cup {None}]
    BY <1>1, <2>1 DEF TypeOK
  <2>3. [p |-> i.p, inst |-> i] \in Bindings
    BY <2>1 DEF Bindings
  <2>4. ASSUME NEW c \in Contexts PROVE SwappedIn(i, c) \in Seq(Bindings)
    <3>1. bind[c] \in Seq(Bindings)
      BY <1>1 DEF TypeOK
    <3>2. Append(bind[c], [p |-> i.p, inst |-> i]) \in Seq(Bindings)
      BY <2>3, <3>1
    <3>3. [k \in DOMAIN bind[c] |->
             IF k \in PositionOf(c, i.p) THEN [p |-> i.p, inst |-> i] ELSE bind[c][k]] \in Seq(Bindings)
      BY <2>3, <3>1
    <3> QED BY <3>1, <3>2, <3>3 DEF SwappedIn
  <2>5. bind' \in [Contexts -> Seq(Bindings)]
    BY <2>1, <2>4
  <2> QED BY <1>1, <2>1, <2>2, <2>5 DEF TypeOK
<1>5. ASSUME NEW ok \in BOOLEAN, Initialised(t, ok) PROVE TypeOK'
  <2>1. /\ lock' = t /\ task' \in [Tasks -> Tasking] /\ task[t].pc = "init"
        /\ alive' \subseteq alive \cup {task[t].cand}
        /\ UNCHANGED <<installed, file, states, born, loaded, attached, bind, rt, worker,
                       breaker, ops, calls, overlap, torn>>
    BY <1>1, <1>5, InitialisedFacts DEF Held, Moved
  <2>2. task[t].cand \in Instances
    BY <1>1, <2>1, TaskTypes DEF Changing
  <2> QED BY <1>1, <2>1, <2>2 DEF TypeOK
<1>6. ASSUME NEW ok \in BOOLEAN, CandidateLoad(t, ok) PROVE TypeOK'
  <2>1. /\ lock' = t /\ task' \in [Tasks -> Tasking] /\ task[t].pc = "load"
        /\ loaded' \subseteq loaded \cup {<<task[t].cand, Head(task[t].left)>>}
        /\ Head(task[t].left) \in Contexts
        /\ UNCHANGED <<installed, file, states, born, alive, attached, bind, rt, worker,
                       breaker, ops, calls, overlap, torn>>
    BY <1>1, <1>6, CandidateLoadFacts DEF Held, Moved
  <2>2. task[t].cand \in Instances
    BY <1>1, <2>1, TaskTypes DEF Changing
  <2>3. <<task[t].cand, Head(task[t].left)>> \in Instances \X Contexts
    BY <2>1, <2>2
  <2> QED BY <1>1, <2>1, <2>3 DEF TypeOK
<1>7. CASE RetireOld(t)
  <2>1. /\ lock' = t /\ task' \in [Tasks -> Tasking]
        /\ loaded' \subseteq loaded /\ alive' \subseteq alive
        /\ UNCHANGED <<installed, file, states, born, attached, bind, rt, worker,
                       breaker, ops, calls, overlap, torn>>
    BY <1>1, <1>7, RetireFacts DEF Held, Moved, Passed
  <2> QED BY <1>1, <2>1 DEF TypeOK
<1>8. CASE DropInstance(t)
  <2> DEFINE c == Head(task[t].left)
             r == Kept(bind[c], {b \in Bound(c) : b.p # task[t].old.p})
  <2>1. /\ lock' = t /\ task' \in [Tasks -> Tasking]
        /\ loaded' \subseteq loaded /\ alive' \subseteq alive
        /\ bind' = bind \/ (c \in Contexts /\ bind' = [bind EXCEPT ![c] = r])
        /\ UNCHANGED <<installed, file, states, born, attached, rt, worker,
                       breaker, ops, calls, overlap, torn>>
    BY <1>1, <1>8, DropFacts DEF Held, Moved, Passed
  <2>2. c \in Contexts => r \in Seq(Bindings)
    BY <1>1, KeptFacts DEF TypeOK
  <2> HIDE DEF c, r
  <2>3. bind' \in [Contexts -> Seq(Bindings)]
    <3>1. bind \in [Contexts -> Seq(Bindings)]
      BY <1>1 DEF TypeOK
    <3> QED BY ONLY <2>1, <2>2, <3>1
  <2> QED BY <1>1, <2>1, <2>3 DEF TypeOK
<1>9. CASE StartDetach(t)
  <2>1. /\ lock' = t /\ task' \in [Tasks -> Tasking]
        /\ attached' = Kept(attached, Contexts \ {Head(task[t].todo).p})
        /\ UNCHANGED <<installed, file, states, born, alive, loaded, bind, rt, worker,
                       breaker, ops, calls, overlap, torn>>
    BY <1>1, <1>9, StartDetachFacts DEF Taking, Moved
  <2>2. attached' \in Seq(Contexts)
    BY <1>1, <2>1, KeptFacts DEF TypeOK
  <2> QED BY <1>1, <2>1, <2>2 DEF TypeOK
<1>10. CASE UnbindNext(t)
  <2>1. /\ lock' = t /\ task' \in [Tasks -> Tasking]
        /\ loaded' \subseteq loaded
        /\ bind' = bind \/ bind' = [bind EXCEPT ![Head(task[t].todo).p] = <<>>]
        /\ UNCHANGED <<installed, file, states, born, alive, attached, rt, worker,
                       breaker, ops, calls, overlap, torn>>
    BY <1>1, <1>10, UnbindFacts DEF Held, Moved, Passed
  <2>2. bind' \in [Contexts -> Seq(Bindings)]
    <3>1. bind \in [Contexts -> Seq(Bindings)] /\ <<>> \in Seq(Bindings)
      BY <1>1 DEF TypeOK
    <3> QED BY <2>1, <3>1
  <2> QED BY <1>1, <2>1, <2>2 DEF TypeOK
<1>11. CASE FailItem(t)
  <2> DEFINE p == Head(task[t].todo).p
  <2>1. /\ p \in Plugins /\ lock' \in {lock, None}
        /\ UNCHANGED <<installed, born, alive, loaded, attached, bind, rt, worker,
                       breaker, ops, calls, overlap, torn>>
    BY <1>1, <1>11, FailFacts
  <2>2. /\ file' \in [Plugins -> Configs]
    <3>1. file' = file \/ (task[t].op = "update" /\ file' = [file EXCEPT ![p] = task[t].prev])
      BY <1>1, <1>11, FailFacts
    <3>2. task[t].op = "update" => task[t].prev \in Configs
      BY DEF PluginInv, Matching
    <3> QED BY <1>1, <2>1, <3>1, <3>2 DEF TypeOK
  <2>3. states' \in [Plugins -> Instances \cup {None}] /\ task' \in [Tasks -> Tasking]
    <3>1. (states' = states /\ Idles(t)) \/ Deactivated(t, p, task[t].todo)
      BY <1>1, <1>11, FailFacts
    <3>2. CASE states' = states /\ Idles(t)
      BY <1>1, <3>2 DEF Idles, Moved, TypeOK
    <3>3. CASE Deactivated(t, p, task[t].todo)
      BY <1>1, <2>1, <3>3, DeactivatedTypes
    <3> QED BY <3>1, <3>2, <3>3
  <2> QED BY <1>1, <2>1, <2>2, <2>3 DEF TypeOK
<1>12. CASE Finish(t)
  <2>1. /\ lock' = None /\ installed' \subseteq installed /\ task' \in [Tasks -> Tasking]
        /\ UNCHANGED <<file, states, born, alive, loaded, attached, bind, worker,
                       breaker, ops, calls, overlap, torn>>
        /\ \/ rt' = rt \/ rt' = [rt EXCEPT ![t] = "up"] \/ rt' = [rt EXCEPT ![t] = "gone"]
    BY <1>1, <1>12, FinishFacts DEF Idles, Moved
  <2>2. rt' \in [Contexts -> {"fresh", "starting", "up", "stopping", "gone"}]
    BY <1>1, <2>1 DEF TypeOK
  <2> QED BY <1>1, <2>1, <2>2 DEF TypeOK
<1> QED BY <1>2, <1>3, <1>4, <1>5, <1>6, <1>7, <1>8, <1>9, <1>10, <1>11, <1>12 DEF Locked

(* The steps of a bot's own task keep the types.                            *)
LEMMA TypeBots ==
  ASSUME PluginHostAssumption, PluginInv, NEW c \in Contexts, Bots(c)
  PROVE  TypeOK'
<1>1. TypeOK /\ Roles /\ Working(c) /\ Changing(c) /\ c \in Tasks
  BY DEF PluginInv, Roles, Tasks
<1>2. CASE StartBot(c)
  <2>1. /\ rt' = [rt EXCEPT ![c] = "starting"] /\ task' \in [Tasks -> Tasking]
        /\ overlap' = overlap \cup Overlapping(Plugins, FALSE)
        /\ UNCHANGED <<installed, file, states, born, alive, loaded, attached, bind, lock,
                       worker, breaker, ops, calls, torn>>
    BY <1>1, <1>2, StartBotFacts DEF Moved
  <2>2. overlap' \subseteq Plugins
    BY <1>1, <2>1 DEF Overlapping, TypeOK
  <2>3. rt' \in [Contexts -> {"fresh", "starting", "up", "stopping", "gone"}]
    BY <1>1, <2>1 DEF TypeOK
  <2> QED BY <1>1, <2>1, <2>2, <2>3 DEF TypeOK
<1>3. CASE CancelStart(c)
  <2>1. /\ rt' = [rt EXCEPT ![c] = "gone"] /\ task' \in [Tasks -> Tasking]
        /\ lock' \in {None, lock}
        /\ UNCHANGED <<installed, file, states, born, alive, loaded, attached, bind,
                       worker, breaker, ops, calls, overlap>>
    BY <1>1, <1>3, CancelFacts DEF Idles, Moved
  <2>2. torn' \in BOOLEAN
    BY <1>1, <1>3, CancelFacts DEF TypeOK
  <2>3. rt' \in [Contexts -> {"fresh", "starting", "up", "stopping", "gone"}]
    BY <1>1, <2>1 DEF TypeOK
  <2> QED BY <1>1, <2>1, <2>2, <2>3 DEF TypeOK
<1>4. CASE StopBot(c)
  <2>1. /\ rt' \in {[rt EXCEPT ![c] = "gone"], [rt EXCEPT ![c] = "stopping"]}
        /\ task' \in [Tasks -> Tasking]
        /\ worker' = [w \in Workers |-> IF worker[w].c = c THEN Resting ELSE worker[w]]
        /\ breaker' = [breaker EXCEPT ![c] = [p \in Plugins |-> Closed]]
        /\ UNCHANGED <<installed, file, states, born, alive, loaded, attached, bind, lock,
                       ops, calls, overlap, torn>>
    BY <1>1, <1>4, StopFacts DEF Moved, TypeOK
  <2>2. rt' \in [Contexts -> {"fresh", "starting", "up", "stopping", "gone"}]
    BY <1>1, <2>1 DEF TypeOK
  <2>3. worker' \in [Workers -> [c : Contexts \cup {None}, pos : Nat,
                                 inst : Instances \cup {None}, probe : BOOLEAN]]
    BY <1>1, <2>1 DEF TypeOK, Resting
  <2>4. breaker' \in [Contexts -> [Plugins -> [n : 0 .. Trip, probe : BOOLEAN,
                                               st : {"closed", "open", "expired"}]]]
    <3>1. Closed \in [n : 0 .. Trip, probe : BOOLEAN, st : {"closed", "open", "expired"}]
      BY DEF Closed, PluginHostAssumption
    <3> QED BY <1>1, <2>1, <3>1 DEF TypeOK
  <2> QED BY <1>1, <2>1, <2>2, <2>3, <2>4 DEF TypeOK
<1>5. CASE StartAttach(c)
  <2>1. /\ lock' = c /\ task' \in [Tasks -> Tasking] /\ attached' = Append(attached, c)
        /\ UNCHANGED <<installed, file, states, born, alive, loaded, bind, rt, worker,
                       breaker, ops, calls, overlap, torn>>
    BY <1>1, <1>5, StartAttachFacts DEF Taking, Moved
  <2>2. attached' \in Seq(Contexts)
    BY <1>1, <2>1 DEF TypeOK
  <2> QED BY <1>1, <2>1, <2>2 DEF TypeOK
<1>6. ASSUME NEW ok \in BOOLEAN, BindNext(c, ok) PROVE TypeOK'
  <2> DEFINE p == Head(task[c].left)
             b == [p |-> p, inst |-> states[p]]
  <2>1. /\ lock' = c /\ task' \in [Tasks -> Tasking]
        /\ \/ loaded' = loaded /\ bind' = bind
           \/ /\ p \in Plugins /\ states[p] \in Instances
              /\ loaded' = loaded \cup {<<states[p], c>>}
              /\ bind' = [bind EXCEPT ![c] = Append(@, b)]
        /\ UNCHANGED <<installed, file, states, born, alive, attached, rt, worker,
                       breaker, ops, calls, overlap, torn>>
    BY <1>1, <1>6, BindFacts DEF Held, Moved, Passed
  <2>2. p \in Plugins /\ states[p] \in Instances => b \in Bindings
    BY DEF Bindings
  <2> HIDE DEF p, b
  <2>3. bind' \in [Contexts -> Seq(Bindings)]
    <3>1. bind \in [Contexts -> Seq(Bindings)] /\ bind[c] \in Seq(Bindings)
      BY <1>1 DEF TypeOK
    <3>2. CASE bind' = bind
      BY <3>1, <3>2
    <3>3. CASE b \in Bindings /\ bind' = [bind EXCEPT ![c] = Append(@, b)]
      <4>1. Append(bind[c], b) \in Seq(Bindings)
        BY <3>1, <3>3
      <4> QED BY <3>1, <3>3, <4>1
    <3> QED BY <2>1, <2>2, <3>2, <3>3
  <2>4. loaded' \subseteq Instances \X Contexts
    BY <1>1, <2>1 DEF TypeOK
  <2> QED BY <1>1, <2>1, <2>3, <2>4 DEF TypeOK
<1> QED BY <1>2, <1>3, <1>4, <1>5, <1>6 DEF Bots

(* Requests, messages and breakers keep the types.                          *)
LEMMA TypeRest ==
  ASSUME PluginHostAssumption, PluginInv,
         \/ \E a \in Admins : Requests(a)
         \/ \E w \in Workers : Inbound(w)
         \/ \E c \in Contexts, p \in Plugins : BreakerExpires(c, p)
  PROVE  TypeOK'
<1>1. TypeOK /\ Attached
  BY DEF PluginInv
<1>2. ASSUME NEW a \in Admins, Requests(a) PROVE TypeOK'
  <2>1. ASSUME NEW op, NEW todo, NEW p, NEW prev, NewRequest(a, op, todo, p, prev),
               file' \in [Plugins -> Configs], overlap' \subseteq Plugins
        PROVE  TypeOK'
    <3>1. /\ ops' \in Nat /\ task' \in [Tasks -> Tasking]
          /\ UNCHANGED <<installed, states, born, alive, loaded, attached, bind, rt, lock,
                         worker, breaker, calls, torn>>
      BY <2>1 DEF NewRequest, Moved
    <3> QED BY <1>1, <2>1, <3>1 DEF TypeOK
  <2>2. CASE \E op \in {"update", "reload", "uninstall"}, i \in Items, p \in installed,
               prev \in Configs \cup {None} :
              NewRequest(a, op, <<i>>, p, prev) /\ AboutOne(op, i, p, prev)
    <3>1. PICK op \in {"update", "reload", "uninstall"}, i \in Items, p \in installed,
               prev \in Configs \cup {None} :
              NewRequest(a, op, <<i>>, p, prev) /\ AboutOne(op, i, p, prev)
      BY <2>2
    <3>2. i.do = "replace" => i.cfg \in Configs
      BY ItemTypes
    <3>3. p \in Plugins
      BY <1>1 DEF TypeOK
    <3>4. file' \in [Plugins -> Configs] /\ overlap' \subseteq Plugins
      BY <1>1, <3>1, <3>2, <3>3 DEF AboutOne, TypeOK, Overlapping
    <3> QED BY <2>1, <3>1, <3>4
  <2>3. CASE \E todo \in Seq(Items) : NewRequest(a, "reconcile", todo, None, None) /\ AboutAll(todo)
    <3>1. PICK todo \in Seq(Items) : NewRequest(a, "reconcile", todo, None, None) /\ AboutAll(todo)
      BY <2>3
    <3>2. file' \in [Plugins -> Configs] /\ overlap' \subseteq Plugins
      BY <1>1, <3>1 DEF AboutAll, TypeOK, Overlapping
    <3> QED BY <2>1, <3>1, <3>2
  <2>4. CASE \E todo \in Seq(Items) : NewRequest(a, "shutdown", todo, None, None) /\ AboutTheEnd(todo)
    <3>1. PICK todo \in Seq(Items) : NewRequest(a, "shutdown", todo, None, None) /\ AboutTheEnd(todo)
      BY <2>4
    <3>2. file' \in [Plugins -> Configs] /\ overlap' \subseteq Plugins
      BY <1>1, <3>1 DEF AboutTheEnd, TypeOK
    <3> QED BY <2>1, <3>1, <3>2
  <2> QED BY <1>1, <1>2, <2>2, <2>3, <2>4, RequestsFacts
<1>3. ASSUME NEW w \in Workers, Inbound(w) PROVE TypeOK'
  <2>1. worker[w].inst # None => worker[w].c \in Contexts /\ rt[worker[w].c] = "up"
    BY <1>1 DEF Attached
  <2>2. /\ \/ \E c \in Contexts : rt[c] = "up" /\ Calls(w, c)
           \/ worker' = [worker EXCEPT ![w] = Resting]
        /\ calls' \in Nat
        /\ breaker' \in [Contexts -> [Plugins -> [n : 0 .. Trip, probe : BOOLEAN,
                                                  st : {"closed", "open", "expired"}]]]
        /\ UNCHANGED <<installed, file, states, born, alive, loaded, attached, bind, rt, lock,
                       task, ops, overlap, torn>>
    BY <1>1, <1>3, <2>1, InboundFacts
  <2>3. worker' \in [Workers -> [c : Contexts \cup {None}, pos : Nat,
                                 inst : Instances \cup {None}, probe : BOOLEAN]]
    <3>1. CASE \E c \in Contexts : rt[c] = "up" /\ Calls(w, c)
      BY <3>1 DEF Calls
    <3>2. CASE worker' = [worker EXCEPT ![w] = Resting]
      BY <1>1, <3>2 DEF Resting, TypeOK
    <3> QED BY <2>2, <3>1, <3>2
  <2> QED BY <1>1, <2>2, <2>3 DEF TypeOK
<1>4. ASSUME NEW c \in Contexts, NEW p \in Plugins, BreakerExpires(c, p) PROVE TypeOK'
  BY <1>1, <1>4, ExpiryFacts DEF TypeOK
<1> QED BY <1>2, <1>3, <1>4

----------------------------------------------------------------------------
(* Who does what                                                           *)

(* A task that another one's step leaves alone.                            *)
LEMMA WorkingOther ==
  ASSUME TypeOK, NEW u \in Tasks, Working(u), task'[u] = task[u], lock' = u <=> lock = u,
         \A c \in Contexts : rt[c] \in {"stopping", "gone"} => rt'[c] \in {"stopping", "gone"}
  PROVE  Working(u)'
<1>1. ToSet(task[u].todo) \subseteq Items
  BY TaskTypes, SeqFacts
<1>2. \A i \in ToSet(task[u].todo) : i.do = "detach" => i.p \in Contexts
  BY <1>1, ItemTypes
<1>3. ToSet(task[u].todo)' = ToSet(task[u].todo)
  OBVIOUS
<1>4. \A i \in ToSet(task[u].todo) : i.do = "detach" => rt'[i.p] \in {"stopping", "gone"}
  BY <1>2 DEF Working
<1> QED BY <1>3, <1>4 DEF Working

(* The holder goes on with its item.                                       *)
LEMMA WorkingOn ==
  ASSUME TypeOK, NEW t \in Tasks, Working(t), lock = t, lock' = t, rt' = rt,
         task[t].pc \in Swapping \cup {"bind", "unbind"},
         task'[t].op = task[t].op, task'[t].todo = task[t].todo, task'[t].p = task[t].p,
         \/ task[t].pc \in Swapping /\ task'[t].pc \in Swapping \ {"init"}
         \/ task[t].pc \in {"bind", "unbind"} /\ task'[t].pc = task[t].pc
  PROVE  Working(t)'
<1>1. task[t].op # "idle" /\ task'[t].pc \notin {"idle", "wait", "next", "init"}
  BY DEF Working, Swapping
<1>2. /\ task[t].pc \in Swapping => /\ task'[t].pc \in Swapping
                                    /\ task'[t].pc \notin {"bind", "unbind"}
      /\ task[t].pc \notin Swapping => task'[t].pc \notin Swapping
      /\ task[t].pc # "next"
  BY DEF Swapping
<1> QED BY <1>1, <1>2 DEF Working

(* The holder is through with an item, the first of todo.                  *)
LEMMA WorkingPassed ==
  ASSUME TypeOK, NEW t \in Tasks, Working(t), lock' = t, rt' = rt,
         NEW todo \in Seq(Items), todo # <<>>, ToSet(todo) \subseteq ToSet(task[t].todo),
         Len(task[t].todo) <= 1 => todo = task[t].todo,
         task[t].op # "idle", Passed(t, todo)
  PROVE  Working(t)'
<1>1. /\ task'[t].op = task[t].op /\ task'[t].pc = "next" /\ task'[t].todo = Tail(todo)
      /\ task'[t].p = task[t].p /\ task'[t].back = <<>>
  BY DEF Passed, Moved
<1>2. /\ Tail(todo) \in Seq(Items) /\ Len(Tail(todo)) = Len(todo) - 1
      /\ ToSet(Tail(todo)) \subseteq ToSet(task[t].todo)
  <2>1. /\ Tail(todo) \in Seq(Items) /\ Len(Tail(todo)) = Len(todo) - 1
        /\ ToSet(todo) = ToSet(Tail(todo)) \cup {Head(todo)}
    BY SeqFacts
  <2> QED BY <2>1
<1>3. Len(task[t].todo) <= 1 => Len(Tail(todo)) = 0
  <2>1. Len(todo) \in Nat /\ Len(todo) # 0
    OBVIOUS
  <2> QED BY <1>2, <2>1
<1>4. Len(task[t].todo) <= 1 => Tail(todo) = <<>>
  BY <1>2, <1>3
<1>5. \A i \in ToSet(task'[t].todo) : i \in ToSet(task[t].todo)
  BY <1>1, <1>2
<1>6. ToSet(task[t].todo)' = ToSet(task'[t].todo)
  OBVIOUS
<1>7. \A i \in ToSet(task'[t].todo) :
        /\ i.do \in ItemsOf(task[t].op)
        /\ i.do = "attach" => i.p = t
        /\ i.do = "detach" => rt[i.p] \in {"stopping", "gone"}
  BY <1>5 DEF Working
<1>8. task[t].op \in {"update", "reload", "uninstall", "attach", "detach"} =>
        /\ task'[t].todo = <<>> /\ Len(task'[t].todo) <= 1
  BY <1>1, <1>3, <1>4 DEF Working
<1>9. task[t].op \in {"update", "reload", "uninstall"} => task[t].p \in Plugins
  BY DEF Working
<1> QED BY <1>1, <1>6, <1>7, <1>8, <1>9 DEF Working, Swapping

(* The task takes an item, the first of todo.                              *)
LEMMA WorkingTaken ==
  ASSUME TypeOK, NEW t \in Tasks, Working(t), lock' = t, rt' = rt,
         NEW todo \in Seq(Items), todo # <<>>, ToSet(todo) \subseteq ToSet(task[t].todo),
         Len(task[t].todo) <= 1 => todo = task[t].todo,
         task[t].op # "idle", task'[t].op = task[t].op, task'[t].todo = todo,
         task'[t].p = task[t].p, task'[t].pc = "init" => task'[t].back = <<>>,
         \/ task'[t].pc \in Swapping /\ Head(todo).do \in {"replace", "drop", "sync", "force"}
         \/ task'[t].pc = "bind" /\ Head(todo).do = "attach"
         \/ task'[t].pc = "unbind" /\ Head(todo).do = "detach"
  PROVE  Working(t)'
<1>1. task'[t].pc \in {"init", "load", "undo", "failed", "retire", "drop", "bind", "unbind"}
  BY DEF Swapping
<1>2. ToSet(task[t].todo)' = ToSet(task'[t].todo)
  OBVIOUS
<1>3. \A i \in ToSet(todo) :
        /\ i.do \in ItemsOf(task[t].op)
        /\ i.do = "attach" => i.p = t
        /\ i.do = "detach" => rt[i.p] \in {"stopping", "gone"}
  BY DEF Working
<1>4. task[t].op \in {"update", "reload", "uninstall", "attach", "detach"} =>
        todo = task[t].todo /\ Len(todo) <= 1
  BY DEF Working
<1>5. task[t].op \in {"update", "reload", "uninstall"} =>
        task[t].p \in Plugins /\ Head(todo).p = task[t].p
  BY <1>4 DEF Working
<1> QED BY <1>1, <1>2, <1>3, <1>4, <1>5 DEF Working, Swapping

(* The task is idle again.                                                 *)
LEMMA WorkingIdle ==
  ASSUME NEW t \in Tasks, Idles(t), lock' # t
  PROVE  Working(t)'
<1>1. task'[t] = Idle
  BY DEF Idles
<1>2. ToSet(<<>>) = {}
  BY DEF ToSet
<1> QED BY <1>1, <1>2, IdleFields DEF Working, Swapping

(* The task waits for the lock.                                            *)
LEMMA WorkingWaits ==
  ASSUME NEW t \in Tasks, lock' # t,
         NEW op \in {"update", "reload", "uninstall", "reconcile", "shutdown", "prepare",
                     "attach", "detach"},
         NEW todo \in Seq(Items), NEW p, NEW prev,
         Moved(t, op, "wait", todo, p, prev, None, None, <<>>, <<>>),
         \A i \in ToSet(todo) : /\ i.do \in ItemsOf(op)
                                /\ i.do = "attach" => i.p = t
                                /\ i.do = "detach" => rt'[i.p] \in {"stopping", "gone"},
         op \in {"update", "reload", "uninstall", "attach", "detach"} => \E i : todo = <<i>>,
         op \in {"update", "reload", "uninstall"} => p \in Plugins /\ Head(todo).p = p
  PROVE  Working(t)'
<1>1. /\ task'[t].op = op /\ task'[t].pc = "wait" /\ task'[t].todo = todo /\ task'[t].p = p
      /\ task'[t].back = <<>>
  BY DEF Moved
<1>2. op \in {"update", "reload", "uninstall", "attach", "detach"} =>
        Len(todo) = 1 /\ todo # <<>>
  OBVIOUS
<1>3. ToSet(task[t].todo)' = ToSet(task'[t].todo)
  OBVIOUS
<1>4. \A i \in ToSet(task'[t].todo) : /\ i.do \in ItemsOf(op)
                                      /\ i.do = "attach" => i.p = t
                                      /\ i.do = "detach" => rt'[i.p] \in {"stopping", "gone"}
  BY <1>1
<1>5. op # "idle"
  OBVIOUS
<1>6. op \in {"update", "reload", "uninstall", "attach", "detach"} =>
        Len(todo) <= 1 /\ todo # <<>>
  <2>1. Len(todo) = 1 => Len(todo) <= 1
    OBVIOUS
  <2> QED BY <1>2, <2>1
<1> QED BY <1>1, <1>3, <1>4, <1>5, <1>6 DEF Working, Swapping

(* The roles after a step of t.                                            *)
LEMMA RolesStep ==
  ASSUME PluginHostAssumption, TypeOK, Roles, NEW t \in Tasks, Working(t)',
         \A u \in Tasks : u # t => task'[u] = task[u] /\ (lock' = u <=> lock = u),
         \A c \in Contexts : rt[c] \in {"stopping", "gone"} => rt'[c] \in {"stopping", "gone"},
         \A c \in Contexts : c # t => rt'[c] = rt[c],
         t \in Contexts => task'[t].op \in RoleOf(t)',
         t \in Admins => task'[t].op \notin {"prepare", "attach", "detach"}
  PROVE  Roles'
<1>1. ASSUME NEW u \in Tasks PROVE Working(u)'
  <2>1. CASE u = t
    BY <2>1
  <2>2. CASE u # t
    BY <2>2, WorkingOther DEF Roles
  <2> QED BY <2>1, <2>2
<1>2. ASSUME NEW c \in Contexts PROVE task'[c].op \in RoleOf(c)'
  <2>1. c \in Tasks
    BY DEF Tasks
  <2>2. CASE c # t
    BY <2>1, <2>2 DEF Roles, RoleOf
  <2> QED BY <2>2
<1>3. ASSUME NEW a \in Admins PROVE task'[a].op \notin {"prepare", "attach", "detach"}
  <2>1. a \in Tasks
    BY DEF Tasks
  <2> QED BY <2>1 DEF Roles
<1> QED BY <1>1, <1>2, <1>3 DEF Roles

(* The roles after a step of t under the lock.                             *)
LEMMA RolesHeld ==
  ASSUME PluginHostAssumption, TypeOK, Roles, NEW t \in Tasks, Working(t)',
         lock \in {t, None}, lock' = t,
         \A u \in Tasks : u # t => task'[u] = task[u],
         rt' = rt, task'[t].op = task[t].op
  PROVE  Roles'
<1>1. t # None
  BY DEF PluginHostAssumption, Tasks
<1>2. \A u \in Tasks : u # t => (lock' = u <=> lock = u)
  BY DEF PluginHostAssumption, Tasks
<1>3. t \in Contexts => task'[t].op \in RoleOf(t)'
  BY DEF Roles, RoleOf
<1>4. t \in Admins => task'[t].op \notin {"prepare", "attach", "detach"}
  BY DEF Roles
<1> QED BY <1>2, <1>3, <1>4, RolesStep

(* Who does not hold the lock changes no plugin.                           *)
LEMMA ChangingOther ==
  ASSUME NEW u \in Tasks, Working(u), lock # u, task'[u] = task[u]
  PROVE  Changing(u)'
<1>1. task'[u].pc \in {"idle", "wait"}
  BY DEF Working
<1> QED BY <1>1 DEF Changing

(* Nor does a step that leaves the plugins and the task alone.             *)
LEMMA ChangingSame ==
  ASSUME NEW u \in Tasks, Changing(u), task'[u] = task[u],
         UNCHANGED <<states, born, loaded, attached, bind>>
  PROVE  Changing(u)'
  BY DEF Changing, Unused, Bound

(* What the bots are attached to stays.                                    *)
LEMMA AttachedSame ==
  ASSUME Attached, rt' = rt, attached' = attached, worker' = worker,
         \A c \in Contexts : bind[c] = <<>> /\ c \notin ToSet(attached) => bind'[c] = <<>>,
         \A c \in Contexts : Attaching(c)' <=> Attaching(c)
  PROVE  Attached'
<1>1. ToSet(attached)' = ToSet(attached)
  OBVIOUS
<1> QED BY <1>1 DEF Attached

(* What is bound.                                                          *)
LEMMA BoundFacts ==
  ASSUME PluginHostAssumption, TypeOK, Binding, NEW c \in Contexts, NEW b \in Bound(c)
  PROVE  /\ b.p \in Plugins /\ b.inst \in Instances /\ b.inst # None /\ b.inst.n \in Nat
         /\ Numbered(b.inst, b.p) /\ b.inst.p = b.p /\ bind[c] # <<>>
         /\ c \in ToSet(attached) => <<b.inst, c>> \in loaded
<1>1. bind[c] \in Seq(Bindings)
  BY DEF TypeOK
<1>2. Bound(c) \subseteq Bindings
  BY <1>1, SeqFacts DEF Bound
<1>3. b.p \in Plugins /\ b.inst \in Instances
  BY <1>2 DEF Bindings
<1>4. b.inst # None /\ b.inst.n \in Nat
  BY <1>3 DEF Instances, PluginHostAssumption
<1>5. Numbered(b.inst, b.p) /\ (c \in ToSet(attached) => <<b.inst, c>> \in loaded)
  <2>1. \A d \in Contexts : \A e \in Bound(d) :
          Numbered(e.inst, e.p) /\ (d \in ToSet(attached) => <<e.inst, d>> \in loaded)
    BY DEF Binding
  <2> QED BY <2>1
<1>6. b.inst.p = b.p
  BY <1>5 DEF Numbered
<1>7. bind[c] # <<>>
  <2>1. ToSet(<<>>) = {}
    BY DEF ToSet
  <2> QED BY <2>1 DEF Bound
<1> QED BY <1>3, <1>4, <1>5, <1>6, <1>7

(* So do the bindings where what is bound stays loaded.                    *)
LEMMA BindingSame ==
  ASSUME PluginHostAssumption, TypeOK, TypeOK', Binding, bind' = bind,
         ToSet(attached') \subseteq ToSet(attached),
         \A p \in Plugins : states'[p] \in {states[p], None},
         \A p \in Plugins : born[p] <= born'[p],
         \A c \in Contexts : \A b \in Bound(c) :
           c \in ToSet(attached) => <<b.inst, c>> \in loaded'
  PROVE  Binding'
<1>0. \A p \in Plugins : born[p] \in Nat /\ born'[p] \in Nat
  BY DEF TypeOK
<1>1. ASSUME NEW p \in Plugins, states'[p] # None PROVE Numbered(states[p], p)'
  <2>1. states'[p] = states[p] /\ states[p] # None
    BY <1>1
  <2>2. Numbered(states[p], p)
    BY <2>1 DEF Binding
  <2>3. states[p].n \in Nat
    BY <2>1 DEF TypeOK, Instances
  <2> QED BY <1>0, <2>1, <2>2, <2>3 DEF Numbered
<1>2. ASSUME NEW c \in Contexts PROVE OnePerPlugin(c)'
  BY DEF Binding, OnePerPlugin
<1>3. ASSUME NEW c \in Contexts PROVE Bound(c)' = Bound(c)
  BY DEF Bound
<1>4. ASSUME NEW c \in Contexts, NEW b \in Bound(c)
      PROVE  Numbered(b.inst, b.p)' /\ (c \in ToSet(attached') => <<b.inst, c>> \in loaded')
  <2>1. b.p \in Plugins /\ b.inst.n \in Nat /\ Numbered(b.inst, b.p)
    BY BoundFacts
  <2>2. Numbered(b.inst, b.p)'
    BY <1>0, <2>1 DEF Numbered
  <2>3. c \in ToSet(attached') => <<b.inst, c>> \in loaded'
    OBVIOUS
  <2> QED BY <2>2, <2>3
<1>5. ToSet(attached)' = ToSet(attached')
  OBVIOUS
<1> QED BY <1>1, <1>2, <1>3, <1>4, <1>5 DEF Binding

(* Who holds the lock, and what is its to unload.                          *)
LEMMA HolderNow ==
  ASSUME PluginHostAssumption, NEW t \in Tasks, lock = t
  PROVE  /\ task[t].pc \in {"load", "undo"} =>
              Leaving = {<<task[t].cand, c>> : c \in ToSet(task[t].back)} /\ Besides = {task[t].cand}
         /\ task[t].pc = "retire" =>
              Leaving = {<<task[t].old, c>> : c \in ToSet(task[t].left)} /\ Besides = {task[t].old}
         /\ task[t].pc = "drop" => Leaving = {} /\ Besides = {task[t].old}
         /\ task[t].pc = "unbind" =>
              /\ Leaving = {<<b.inst, Head(task[t].todo).p>> : b \in ToSet(task[t].left)}
              /\ Besides = {}
         /\ task[t].pc \notin {"load", "undo", "retire", "drop", "unbind"} => Leaving = {} /\ Besides = {}
         /\ \A c : Unbinding(c) <=> task[t].pc = "unbind" /\ Head(task[t].todo).p = c
         /\ \A c, i : Dropping(c, i) <=> /\ task[t].pc = "drop" /\ task[t].old = i
                                         /\ c \in ToSet(task[t].left)
<1>1. lock # None
  BY DEF PluginHostAssumption, Tasks
<1>2. /\ \A c : Unbinding(c) <=> task[t].pc = "unbind" /\ Head(task[t].todo).p = c
      /\ \A c, i : Dropping(c, i) <=> /\ task[t].pc = "drop" /\ task[t].old = i
                                      /\ c \in ToSet(task[t].left)
  BY <1>1 DEF Unbinding, Dropping
<1>3. CASE task[t].pc \in {"load", "undo"}
  BY <1>1, <1>2, <1>3 DEF Leaving, Besides
<1>4. CASE task[t].pc = "retire"
  BY <1>1, <1>2, <1>4 DEF Leaving, Besides
<1>5. CASE task[t].pc = "unbind"
  BY <1>1, <1>2, <1>5 DEF Leaving, Besides
<1>6. CASE task[t].pc \notin {"load", "undo", "retire", "unbind"}
  BY <1>1, <1>2, <1>6 DEF Leaving, Besides
<1> QED BY <1>2, <1>3, <1>4, <1>5, <1>6

(* The same after a step.                                                  *)
LEMMA HolderNext ==
  ASSUME PluginHostAssumption, NEW t \in Tasks, lock' = t
  PROVE  /\ task'[t].pc \in {"load", "undo"} =>
              Leaving' = {<<task'[t].cand, c>> : c \in ToSet(task'[t].back)} /\ Besides' = {task'[t].cand}
         /\ task'[t].pc = "retire" =>
              Leaving' = {<<task'[t].old, c>> : c \in ToSet(task'[t].left)} /\ Besides' = {task'[t].old}
         /\ task'[t].pc = "drop" => Leaving' = {} /\ Besides' = {task'[t].old}
         /\ task'[t].pc = "unbind" =>
              /\ Leaving' = {<<b.inst, Head(task'[t].todo).p>> : b \in ToSet(task'[t].left)}
              /\ Besides' = {}
         /\ task'[t].pc \notin {"load", "undo", "retire", "drop", "unbind"} => Leaving' = {} /\ Besides' = {}
         /\ \A c : Unbinding(c)' <=> task'[t].pc = "unbind" /\ Head(task'[t].todo).p = c
         /\ \A c, i : Dropping(c, i)' <=> /\ task'[t].pc = "drop" /\ task'[t].old = i
                                          /\ c \in ToSet(task'[t].left)
<1>1. lock' # None
  BY DEF PluginHostAssumption, Tasks
<1>2. ToSet(task[t].left)' = ToSet(task'[t].left) /\ ToSet(task[t].back)' = ToSet(task'[t].back)
  OBVIOUS
<1>3. /\ \A c : Unbinding(c)' <=> task'[t].pc = "unbind" /\ Head(task'[t].todo).p = c
      /\ \A c, i : Dropping(c, i)' <=> /\ task'[t].pc = "drop" /\ task'[t].old = i
                                       /\ c \in ToSet(task'[t].left)
  BY <1>1 DEF Unbinding, Dropping
<1>4. CASE task'[t].pc \in {"load", "undo"}
  BY <1>1, <1>3, <1>4 DEF Leaving, Besides
<1>5. CASE task'[t].pc = "retire"
  BY <1>1, <1>3, <1>5 DEF Leaving, Besides
<1>6. CASE task'[t].pc = "unbind"
  BY <1>1, <1>3, <1>6 DEF Leaving, Besides
<1>7. CASE task'[t].pc \notin {"load", "undo", "retire", "unbind"}
  BY <1>1, <1>3, <1>7 DEF Leaving, Besides
<1> QED BY <1>3, <1>4, <1>5, <1>6, <1>7

(* Nothing is on its way out.                                              *)
Quiet ==
  /\ Leaving = {} /\ Besides = {}
  /\ \A c \in Contexts : ~Unbinding(c)
  /\ \A c \in Contexts, i \in Instances : ~Dropping(c, i)

(* The holder of the lock is unloading nothing.                             *)
LEMMA QuietNow ==
  ASSUME PluginHostAssumption, NEW t \in Tasks,
         \/ lock = None
         \/ lock = t /\ task[t].pc \notin {"load", "undo", "retire", "drop", "unbind"}
  PROVE  Quiet
<1>1. CASE lock = None
  BY <1>1 DEF Quiet, Leaving, Besides, Unbinding, Dropping
<1>2. CASE lock = t /\ task[t].pc \notin {"load", "undo", "retire", "drop", "unbind"}
  BY <1>2, HolderNow DEF Quiet
<1> QED BY <1>1, <1>2

(* After the step, the holder of the lock is unloading nothing.             *)
LEMMA QuietNext ==
  ASSUME PluginHostAssumption, NEW t \in Tasks,
         \/ lock' = None
         \/ lock' = t /\ task'[t].pc \notin {"load", "undo", "retire", "drop", "unbind"}
  PROVE  Quiet'
<1>1. CASE lock' = None
  BY <1>1 DEF Quiet, Leaving, Besides, Unbinding, Dropping
<1>2. CASE lock' = t /\ task'[t].pc \notin {"load", "undo", "retire", "drop", "unbind"}
  BY <1>2, HolderNext DEF Quiet
<1> QED BY <1>1, <1>2

(* A quiet step accounts for everything.                                   *)
LEMMA AccountedQuiet ==
  ASSUME TypeOK, Accounted, Quiet, Quiet', UNCHANGED <<states, alive, loaded, bind>>,
         ToSet(attached) \subseteq ToSet(attached')
  PROVE  Accounted'
<1>1. ToSet(attached)' = ToSet(attached') /\ \A c \in Contexts : Bound(c)' = Bound(c)
  BY DEF Bound
<1>2. /\ loaded \subseteq Instances \X Contexts
      /\ \A l \in loaded : l[2] \in Contexts /\ l[1] \in Instances
      /\ \A c \in Contexts : bind[c] \in Seq(Bindings)
  BY DEF TypeOK
<1>3. \A c \in Contexts : \A b \in Bound(c) : b.inst \in Instances
  <2>1. \A c \in Contexts : Bound(c) \subseteq Bindings
    BY <1>2, SeqFacts DEF Bound
  <2> QED BY <2>1 DEF Bindings
<1>4. \A c \in Contexts : bind'[c] = <<>> \/ c \in ToSet(attached')
  BY DEF Accounted, Quiet
<1>5. \A c \in Contexts : \A b \in Bound(c) : b.inst = states[b.p]
  BY <1>3 DEF Accounted, Quiet
<1>6. \A l \in loaded : \E b \in Bound(l[2]) : b.inst = l[1]
  BY <1>2 DEF Accounted, Quiet
<1>7. alive' = {states'[p] : p \in Plugins} \ {None}
  BY DEF Accounted, Quiet
<1> QED BY <1>1, <1>2, <1>4, <1>5, <1>6, <1>7 DEF Accounted, Quiet

(* A step of another task does not change what is accounted for.           *)
LEMMA AccountedSame ==
  ASSUME Accounted, lock' = lock, lock # None => task'[lock] = task[lock],
         UNCHANGED <<states, alive, loaded, attached, bind>>
  PROVE  Accounted'
<1>1. Leaving' = Leaving /\ Besides' = Besides
  BY DEF Leaving, Besides
<1>2. \A c, i : (Unbinding(c)' <=> Unbinding(c)) /\ (Dropping(c, i)' <=> Dropping(c, i))
  BY DEF Unbinding, Dropping
<1>3. \A c : Bound(c)' = Bound(c)
  BY DEF Bound
<1> QED BY <1>1, <1>2, <1>3 DEF Accounted

(* What an operation was told, and whom it is to serve.                    *)
Told(t) ==
  /\ \A i \in ToSet(task[t].todo) : i.do = "replace" /\ i.p \notin overlap => i.cfg = file[i.p]
  /\ task[t].pc \in {"init", "load", "undo"} /\ task[t].cand.p \notin overlap =>
       /\ task[t].cand.p \in installed /\ Enabled(task[t].cand.cfg)
       /\ task[t].cand.cfg = file[task[t].cand.p]
  /\ task[t].op = "update" => task[t].prev \in Configs
  /\ task[t].op = "uninstall" /\ task[t].pc # "wait" =>
       task[t].pc \in {"drop", "next"} /\ states[task[t].p] = None

(* What an operation that holds no lock was told stays.                    *)
LEMMA ToldOther ==
  ASSUME Matching, NEW u \in Tasks, Working(u), lock # u, task'[u] = task[u],
         overlap \subseteq overlap', file' = file
  PROVE  Told(u)'
<1>1. task[u].pc \in {"idle", "wait"} /\ (task[u].pc = "idle" => task[u].op = "idle")
  BY DEF Working
<1>2. ToSet(task[u].todo)' = ToSet(task[u].todo)
  OBVIOUS
<1>3. \A i \in ToSet(task[u].todo) : i.do = "replace" /\ i.p \notin overlap => i.cfg = file[i.p]
  BY DEF Matching
<1>4. task[u].op = "update" => task[u].prev \in Configs
  BY DEF Matching
<1> QED BY <1>1, <1>2, <1>3, <1>4 DEF Told

(* The same for the holder of the lock when no plugin is touched.          *)
LEMMA ToldSame ==
  ASSUME Matching, NEW u \in Tasks, task'[u] = task[u],
         overlap \subseteq overlap', file' = file, states' = states, installed' = installed
  PROVE  Told(u)'
<1>2. ToSet(task[u].todo)' = ToSet(task[u].todo)
  OBVIOUS
<1>3. \A i \in ToSet(task[u].todo) : i.do = "replace" /\ i.p \notin overlap => i.cfg = file[i.p]
  BY DEF Matching
<1>4. /\ task[u].op = "update" => task[u].prev \in Configs
      /\ task[u].op = "uninstall" /\ task[u].pc # "wait" =>
           task[u].pc \in {"drop", "next"} /\ states[task[u].p] = None
      /\ task[u].pc \in {"init", "load", "undo"} /\ task[u].cand.p \notin overlap =>
         /\ task[u].cand.p \in installed /\ Enabled(task[u].cand.cfg)
         /\ task[u].cand.cfg = file[task[u].cand.p]
  BY DEF Matching
<1> QED BY <1>2, <1>3, <1>4 DEF Told

(* Whether p runs what its file says, or said.                             *)
Faithful(p) ==
  /\ (\A t \in Tasks : ~(Updates(t, p) /\ Earlier(t))) => Runs(p, file[p])
  /\ \A t \in Tasks : Updates(t, p) /\ Earlier(t) => Runs(p, task[t].prev)
Alone(p) == \A t, u \in Tasks : Updates(t, p) /\ u # t => p \notin Concerned(u)

(* The parts of Matching, by plugin and by task.                            *)
LEMMA MatchingParts ==
  /\ Matching <=> /\ \A p \in Plugins \ overlap : Faithful(p) /\ Alone(p)
                  /\ \A t \in Tasks : Told(t)
  /\ Matching' <=> /\ \A p \in Plugins \ overlap' : Faithful(p)' /\ Alone(p)'
                   /\ \A t \in Tasks : Told(t)'
  BY DEF Matching, Faithful, Alone, Told

(* A step of t that changes nothing about p.                               *)
LEMMA FaithfulSame ==
  ASSUME NEW p \in Plugins, Faithful(p), NEW t \in Tasks,
         \A u \in Tasks : u # t => task'[u] = task[u],
         states'[p] = states[p], file'[p] = file[p], p \in installed => p \in installed',
         Updates(t, p)' /\ Earlier(t)' => Updates(t, p) /\ Earlier(t) /\ task'[t].prev = task[t].prev,
         Updates(t, p) /\ Earlier(t) => Updates(t, p)' /\ Earlier(t)'
  PROVE  Faithful(p)'
<1>1. \A u \in Tasks : u # t => /\ Updates(u, p)' <=> Updates(u, p)
                                /\ Earlier(u)' <=> Earlier(u)
  BY DEF Updates, Earlier
<1>2. \A c : Runs(p, c) => Runs(p, c)'
  BY DEF Runs
<1>3. \A u \in Tasks : (Updates(u, p) /\ Earlier(u))' <=> (Updates(u, p) /\ Earlier(u))
  BY <1>1
<1>4. ASSUME \A u \in Tasks : ~(Updates(u, p) /\ Earlier(u))' PROVE Runs(p, file[p])'
  BY <1>2, <1>3, <1>4 DEF Faithful
<1>5. ASSUME NEW u \in Tasks, (Updates(u, p) /\ Earlier(u))' PROVE Runs(p, task[u].prev)'
  <2>1. task'[u].prev = task[u].prev
    BY <1>5
  <2>2. Runs(p, task[u].prev)
    BY <1>3, <1>5 DEF Faithful
  <2> QED BY <1>2, <2>1, <2>2
<1> QED BY <1>4, <1>5 DEF Faithful

(* An update stays alone when no task becomes concerned with more.          *)
LEMMA AloneSame ==
  ASSUME NEW p \in Plugins, Alone(p), NEW t \in Tasks,
         \A u \in Tasks : u # t => task'[u] = task[u],
         Updates(t, p)' => Updates(t, p),
         p \in Concerned(t)' => p \in Concerned(t) \/ \A u \in Tasks : ~Updates(u, p)
  PROVE  Alone(p)'
<1>1. \A u \in Tasks : u # t => /\ Updates(u, p)' <=> Updates(u, p)
                                /\ Concerned(u)' = Concerned(u)
  BY DEF Updates, Concerned
<1> QED BY <1>1 DEF Alone

(* A step of t that leaves plugins, files and instances as they are.       *)
LEMMA MatchingStep ==
  ASSUME Matching, Roles, NEW t \in Tasks,
         \A u \in Tasks : u # t => task'[u] = task[u],
         states' = states, file' = file, installed' = installed, overlap \subseteq overlap',
         \A p \in Plugins \ overlap' :
           /\ Updates(t, p)' => Updates(t, p) /\ task'[t].prev = task[t].prev
           /\ Updates(t, p) /\ Earlier(t) <=> Updates(t, p)' /\ Earlier(t)'
           /\ p \in Concerned(t)' => p \in Concerned(t) \/ \A u \in Tasks : ~Updates(u, p),
         Told(t)'
  PROVE  Matching'
<1>1. ASSUME NEW p \in Plugins \ overlap' PROVE Faithful(p)' /\ Alone(p)'
  <2>1. Faithful(p) /\ Alone(p) /\ p \in Plugins
    BY MatchingParts
  <2>2. Faithful(p)'
    BY <2>1, FaithfulSame
  <2>3. Alone(p)'
    BY <2>1, AloneSame
  <2> QED BY <2>2, <2>3
<1>2. ASSUME NEW u \in Tasks PROVE Told(u)'
  BY ToldSame
<1> QED BY <1>1, <1>2, MatchingParts

(* The holder goes on, with what is left of its items.                     *)
LEMMA MatchingHeld ==
  ASSUME Matching, Roles, NEW t \in Tasks,
         \A u \in Tasks : u # t => task'[u] = task[u],
         states' = states, file' = file, installed' = installed, overlap' = overlap,
         task'[t].op = task[t].op, task'[t].p = task[t].p, task'[t].prev = task[t].prev,
         ToSet(task'[t].todo) \subseteq ToSet(task[t].todo),
         Earlier(t) <=> Earlier(t)',
         task'[t].pc \in {"init", "load", "undo"} =>
           task[t].pc \in {"init", "load", "undo"} /\ task'[t].cand = task[t].cand,
         task[t].op = "uninstall" /\ task[t].pc \in {"drop", "next"} => task'[t].pc \in {"drop", "next"},
         task[t].op = "uninstall" => task[t].pc # "wait"
  PROVE  Matching'
<1>1. Told(t)
  BY MatchingParts
<1>2. ToSet(task[t].todo)' = ToSet(task'[t].todo)
  OBVIOUS
<1>3. Told(t)'
  BY <1>1, <1>2 DEF Told
<1>4. Concerned(t)' \subseteq Concerned(t)
  <2>1. Concerned(t) = {i.p : i \in ToSet(task[t].todo)} \cup {task[t].p}
    BY ConcernedFacts
  <2>2. Concerned(t)' = {i.p : i \in ToSet(task'[t].todo)} \cup {task'[t].p}
    BY DEF Concerned, ToSet
  <2> QED BY <2>1, <2>2
<1>5. \A p : Updates(t, p)' <=> Updates(t, p)
  BY DEF Updates
<1> QED BY <1>3, <1>4, <1>5, MatchingStep

----------------------------------------------------------------------------
(* Every action keeps the invariant                                        *)

(* The invariant but for the types.                                        *)
Sound ==
  /\ Roles /\ Attached /\ Binding /\ Matching
  /\ \A t \in Tasks : Changing(t)
  /\ ~torn => Accounted

(* What is left to show of the invariant once the types are.                *)
LEMMA SoundParts ==
  PluginInv <=> TypeOK /\ Sound
  BY DEF PluginInv, Sound

(* A step under the lock changes what its holder does alone.               *)
LEMMA ChangingStep ==
  ASSUME PluginHostAssumption, Roles, NEW t \in Tasks, lock \in {t, None},
         \A u \in Tasks : u # t => task'[u] = task[u], Changing(t)'
  PROVE  \A u \in Tasks : Changing(u)'
<1>1. ASSUME NEW u \in Tasks, u # t PROVE Changing(u)'
  <2>1. lock # u
    BY <1>1 DEF PluginHostAssumption, Tasks
  <2>2. Working(u) /\ task'[u] = task[u]
    BY <1>1 DEF Roles
  <2> QED BY <2>1, <2>2, ChangingOther
<1> QED BY <1>1

(* A step that attaches nothing leaves Attaching to the tasks that keep     *)
(* their place.                                                             *)
LEMMA AttachingStep ==
  ASSUME NEW t \in Tasks, \A u \in Tasks : u # t => task'[u] = task[u],
         \/ task'[t].op = task[t].op /\ task[t].pc # "wait" /\ task'[t].pc # "wait"
         \/ task'[t].op # "attach" /\ task[t].op # "attach"
  PROVE  \A c \in Contexts : Attaching(c)' <=> Attaching(c)
<1>1. \A c \in Contexts : c \in Tasks
  BY DEF Tasks
<1> QED BY <1>1 DEF Attaching

(* The holder's own sentences, by name.                                    *)
LEMMA InvFacts ==
  ASSUME PluginInv, NEW t \in Tasks
  PROVE  /\ TypeOK /\ Roles /\ Attached /\ Binding /\ Matching /\ (~torn => Accounted)
         /\ Working(t) /\ Changing(t) /\ Told(t)
         /\ task[t] \in Tasking /\ task[t].todo \in Seq(Items) /\ task[t].back \in Seq(Contexts)
         /\ task[t].pc # "idle" => task[t].op # "idle"
<1>1. TypeOK /\ Roles /\ Attached /\ Binding /\ Matching /\ (~torn => Accounted) /\ Changing(t)
  BY DEF PluginInv
<1>2. Working(t) /\ Told(t)
  BY <1>1, MatchingParts DEF Roles
<1>3. task[t].pc # "idle" => task[t].op # "idle"
  BY <1>2 DEF Working
<1> QED BY <1>1, <1>2, <1>3, TaskTypes

(* The end of on_initialize keeps the invariant.                            *)
LEMMA SoundInitialised ==
  ASSUME PluginHostAssumption, PluginInv, TypeOK', NEW t \in Tasks, NEW ok \in BOOLEAN,
         Initialised(t, ok)
  PROVE  Sound'
<1>1. /\ TypeOK /\ Roles /\ Attached /\ Binding /\ Matching /\ (~torn => Accounted)
      /\ Working(t) /\ Changing(t) /\ Told(t) /\ task[t].todo \in Seq(Items)
  BY InvFacts
<1>2. /\ lock = t /\ lock' = t /\ task[t].pc = "init" /\ rt' = rt
      /\ UNCHANGED <<installed, file, states, born, loaded, attached, bind, rt, worker,
                     breaker, ops, calls, overlap, torn>>
      /\ \A u \in Tasks : u # t => task'[u] = task[u]
      /\ task'[t].op = task[t].op /\ task'[t].todo = task[t].todo /\ task'[t].p = task[t].p
      /\ task'[t].prev = task[t].prev /\ task'[t].cand = task[t].cand /\ task'[t].back = task[t].back
      /\ \/ task'[t].pc = "load" /\ task'[t].left = attached /\ alive' = alive \cup {task[t].cand}
         \/ task'[t].pc = "failed" /\ alive' = alive
  BY <1>1, InitialisedFacts DEF Held, Moved
<1>3. task[t].back = <<>> /\ ToSet(<<>>) = {}
  BY <1>1, <1>2 DEF Working, ToSet
<1>4. Roles'
  <2>1. Working(t)'
    BY <1>1, <1>2, WorkingOn DEF Swapping
  <2> QED BY <1>1, <1>2, <2>1, RolesHeld
<1>5. Attached'
  <2>1. \A c \in Contexts : Attaching(c)' <=> Attaching(c)
    BY <1>2, AttachingStep
  <2> QED BY <1>1, <1>2, <2>1, AttachedSame
<1>6. Binding'
  BY <1>1, <1>2 DEF Binding, Numbered, OnePerPlugin, Bound
<1>7. Matching'
  BY <1>1, <1>2, MatchingHeld DEF Earlier, Told
<1>8. Changing(t)'
  <2>1. task[t].cand # None /\ task[t].cand.p = Head(task[t].todo).p
        /\ task[t].cand.n = born[Head(task[t].todo).p] /\ Unused(task[t].cand)
    BY <1>1, <1>2 DEF Changing
  <2>2. Unused(task[t].cand)'
    BY <1>2, <2>1 DEF Unused, Bound
  <2>3. ToSet(task[t].back)' = {} /\ ToSet(task[t].left)' = ToSet(task'[t].left) /\ ToSet(attached)' = ToSet(attached)
    BY <1>2, <1>3
  <2>4. attached \in Seq(Contexts)
    BY <1>1 DEF TypeOK
  <2> QED BY <1>2, <2>1, <2>2, <2>3, <2>4 DEF Changing
<1>9. \A u \in Tasks : Changing(u)'
  BY <1>1, <1>2, <1>8, ChangingStep
<1>10. ASSUME ~torn' PROVE Accounted'
  <2>1. Accounted /\ Quiet
    BY <1>1, <1>2, <1>10, QuietNow
  <2>2. CASE task'[t].pc = "failed"
    <3>1. Quiet'
      BY <1>2, <2>2, QuietNext
    <3> QED BY <1>1, <1>2, <2>1, <2>2, <3>1, AccountedQuiet
  <2>3. CASE task'[t].pc = "load"
    <3>1. /\ Leaving' = {<<task'[t].cand, c>> : c \in ToSet(task'[t].back)} /\ Besides' = {task[t].cand}
          /\ \A c : ~Unbinding(c)' /\ \A i : ~Dropping(c, i)'
      BY <1>2, <2>3, HolderNext
    <3>2. Leaving' = {}
      BY <1>2, <1>3, <3>1
    <3>3. /\ ToSet(attached)' = ToSet(attached) /\ \A c \in Contexts : Bound(c)' = Bound(c)
          /\ \A l \in loaded : l[2] \in Contexts
      BY <1>1, <1>2 DEF Bound, TypeOK
    <3>4. \A c \in Contexts : bind'[c] = <<>> \/ c \in ToSet(attached)
      BY <1>2, <2>1 DEF Accounted, Quiet
    <3>5. \A c \in Contexts : \A b \in Bound(c) : b.inst = states[b.p]
      BY <1>1, <2>1, BoundFacts DEF Accounted, Quiet
    <3>6. \A l \in loaded : \E b \in Bound(l[2]) : b.inst = l[1]
      BY <2>1, <3>3 DEF Accounted, Quiet
    <3>7. alive' = ({states[p] : p \in Plugins} \ {None}) \cup Besides'
      BY <1>2, <2>1, <2>3, <3>1 DEF Accounted, Quiet
    <3> QED BY <1>2, <3>1, <3>2, <3>3, <3>4, <3>5, <3>6, <3>7 DEF Accounted
  <2> QED BY <1>2, <2>2, <2>3
<1> QED BY <1>4, <1>5, <1>6, <1>7, <1>9, <1>10 DEF Sound

(* When nothing is on its way out.                                         *)
LEMMA QuietFacts ==
  ASSUME PluginHostAssumption, TypeOK, Binding, Accounted, Quiet
  PROVE  /\ \A c \in Contexts : bind[c] = <<>> \/ c \in ToSet(attached)
         /\ \A c \in Contexts : \A b \in Bound(c) : b.inst = states[b.p]
         /\ \A l \in loaded : \E b \in Bound(l[2]) : b.inst = l[1]
         /\ alive = {states[p] : p \in Plugins} \ {None}
<1>1. \A c \in Contexts : \A b \in Bound(c) : b.inst = states[b.p]
  BY BoundFacts DEF Accounted, Quiet
<1>2. \A l \in loaded : l[2] \in Contexts
  BY DEF TypeOK
<1>3. \A l \in loaded : \E b \in Bound(l[2]) : b.inst = l[1]
  BY <1>2 DEF Accounted, Quiet
<1>4. /\ \A c \in Contexts : bind[c] = <<>> \/ c \in ToSet(attached)
      /\ alive = {states[p] : p \in Plugins} \ {None}
  BY DEF Accounted, Quiet
<1> QED BY <1>1, <1>3, <1>4

(* The first element and the others.                                      *)
LEMMA HeadTail ==
  ASSUME NEW T, NEW s \in Seq(T), s # <<>>
  PROVE  /\ Head(s) \in T /\ Head(s) \in ToSet(s) /\ Tail(s) \in Seq(T)
         /\ ToSet(s) = ToSet(Tail(s)) \cup {Head(s)}
         /\ \A x \in ToSet(s) : x \in T
<1>1. /\ ToSet(s) \subseteq T /\ Head(s) \in ToSet(s) /\ Tail(s) \in Seq(T)
      /\ ToSet(s) = ToSet(Tail(s)) \cup {Head(s)}
  BY SeqFacts
<1> QED BY <1>1

(* What is loaded is an instance on a bot.                                  *)
LEMMA LoadedFacts ==
  ASSUME TypeOK, NEW l \in loaded
  PROVE  l[1] \in Instances /\ l[2] \in Contexts /\ l = <<l[1], l[2]>>
<1>1. l \in Instances \X Contexts
  BY DEF TypeOK
<1> QED BY <1>1

(* A candidate's on_load keeps the invariant: what it loaded is on the way  *)
(* back.                                                                    *)
LEMMA SoundCandidateLoad ==
  ASSUME PluginHostAssumption, PluginInv, TypeOK', NEW t \in Tasks, NEW ok \in BOOLEAN,
         CandidateLoad(t, ok)
  PROVE  Sound'
<1>0. PICK i, c : i = task[t].cand /\ c = Head(task[t].left)
  OBVIOUS
<1>1. /\ TypeOK /\ Roles /\ Attached /\ Binding /\ Matching /\ (~torn => Accounted)
      /\ Working(t) /\ Changing(t) /\ Told(t) /\ task[t].todo \in Seq(Items)
      /\ task[t].back \in Seq(Contexts)
  BY InvFacts
<1>2. /\ lock = t /\ lock' = t /\ task[t].pc = "load" /\ rt' = rt
      /\ UNCHANGED <<installed, file, states, born, alive, attached, bind, rt, worker,
                     breaker, ops, calls, overlap, torn>>
      /\ \A u \in Tasks : u # t => task'[u] = task[u]
      /\ task'[t].op = task[t].op /\ task'[t].todo = task[t].todo /\ task'[t].p = task[t].p
      /\ task'[t].prev = task[t].prev /\ task'[t].cand = i
      /\ task[t].left # <<>> /\ c \in Contexts
      /\ \/ /\ task'[t].pc = "load" /\ loaded' = loaded \cup {<<i, c>>}
            /\ task'[t].left = Tail(task[t].left) /\ task'[t].back = <<c>> \o task[t].back
         \/ /\ task'[t].pc = "undo" /\ loaded' = loaded
            /\ task'[t].left = task[t].left /\ task'[t].back = task[t].back
  BY <1>0, <1>1, CandidateLoadFacts DEF Held, Moved
<1>3. /\ i # None /\ i.p = Head(task[t].todo).p /\ i.n = born[Head(task[t].todo).p] /\ Unused(i)
      /\ task[t].left \in Seq(Contexts)
      /\ ToSet(attached) = ToSet(task[t].left) \cup ToSet(task[t].back)
      /\ \A d \in ToSet(task[t].back) : <<i, d>> \in loaded
  BY <1>0, <1>1, <1>2 DEF Changing
<1>4. /\ Tail(task[t].left) \in Seq(Contexts)
      /\ ToSet(task[t].left) = ToSet(Tail(task[t].left)) \cup {c}
      /\ ToSet(<<c>> \o task[t].back) = ToSet(task[t].back) \cup {c}
  <2>1. /\ Tail(task[t].left) \in Seq(Contexts)
        /\ ToSet(task[t].left) = ToSet(Tail(task[t].left)) \cup {c}
    <3>1. task[t].left \in Seq(Contexts) /\ task[t].left # <<>>
      BY <1>2, <1>3
    <3> QED BY <1>0, <3>1, HeadTail
  <2>2. ToSet(<<c>> \o task[t].back) = ToSet(task[t].back) \cup {c}
    <3>1. task[t].back \in Seq(Contexts) /\ c \in Contexts
      BY <1>1, <1>2
    <3> QED BY <3>1, PushedFront
  <2> QED BY <2>1, <2>2
<1>5. Roles'
  <2>1. Working(t)'
    BY <1>1, <1>2, WorkingOn DEF Swapping
  <2> QED BY <1>1, <1>2, <2>1, RolesHeld
<1>6. Attached'
  <2>1. \A d \in Contexts : Attaching(d)' <=> Attaching(d)
    BY <1>2, AttachingStep
  <2> QED BY <1>1, <1>2, <2>1, AttachedSame
<1>7. Binding'
  <2>1. loaded \subseteq loaded'
    BY <1>2
  <2> QED BY <1>1, <1>2, <2>1 DEF Binding, Numbered, OnePerPlugin, Bound
<1>8. Matching'
  BY <1>0, <1>1, <1>2, MatchingHeld DEF Earlier, Told
<1>9. Changing(t)'
  <2>1. Unused(i)'
    BY <1>2, <1>3 DEF Unused, Bound
  <2>2. ToSet(task[t].left)' = ToSet(task'[t].left) /\ ToSet(attached)' = ToSet(attached)
        /\ ToSet(task[t].back)' = ToSet(task'[t].back)
    BY <1>2
  <2>3. CASE task'[t].pc = "undo"
    BY <1>2, <1>3, <2>1, <2>3 DEF Changing
  <2>4. CASE task'[t].pc = "load"
    <3>1. /\ ToSet(task'[t].left) \cup ToSet(task'[t].back) = ToSet(attached)
          /\ task'[t].left \in Seq(Contexts)
          /\ \A d \in ToSet(task'[t].back) : <<i, d>> \in loaded'
      BY <1>2, <1>3, <1>4, <2>4
    <3> QED BY <1>2, <1>3, <2>1, <2>2, <2>4, <3>1 DEF Changing
  <2> QED BY <1>2, <2>3, <2>4
<1>10. \A u \in Tasks : Changing(u)'
  BY <1>1, <1>2, <1>9, ChangingStep
<1>11. ASSUME ~torn' PROVE Accounted'
  <2>1. Accounted
    BY <1>1, <1>2, <1>11
  <2>2. /\ Leaving = {<<i, d>> : d \in ToSet(task[t].back)} /\ Besides = {i}
        /\ \A d : ~Unbinding(d) /\ \A j : ~Dropping(d, j)
    BY <1>0, <1>2, HolderNow
  <2>3. /\ Leaving' = {<<i, d>> : d \in ToSet(task'[t].back)} /\ Besides' = {i}
        /\ \A d : ~Unbinding(d)' /\ \A j : ~Dropping(d, j)'
    BY <1>2, HolderNext
  <2>4. /\ ToSet(task[t].back) \subseteq ToSet(task'[t].back)
        /\ \A l \in loaded' : l \in loaded \/ (l = <<i, c>> /\ c \in ToSet(task'[t].back))
    BY <1>2, <1>4
  <2>5. /\ ToSet(attached)' = ToSet(attached) /\ \A d \in Contexts : Bound(d)' = Bound(d)
        /\ \A l \in loaded : l[2] \in Contexts
    BY <1>1, <1>2 DEF Bound, TypeOK
  <2>6. \A l \in loaded' : l \in Leaving' \/ \E b \in Bound(l[2])' : b.inst = l[1]
    <3>1. \A l \in loaded : l \in Leaving \/ \E b \in Bound(l[2]) : b.inst = l[1]
      BY <2>1 DEF Accounted
    <3>2. \A l \in loaded : l \in Leaving => l \in Leaving'
      BY <2>2, <2>3, <2>4
    <3>3. \A l \in loaded' : l \in loaded \/ l \in Leaving'
      BY <2>3, <2>4
    <3>4. \A l \in loaded : Bound(l[2])' = Bound(l[2])
      BY <2>5
    <3> QED BY <3>1, <3>2, <3>3, <3>4
  <2>7. \A d \in Contexts : bind'[d] = <<>> \/ d \in ToSet(attached)
    BY <1>2, <2>1, <2>2 DEF Accounted
  <2>8. \A d \in Contexts : \A b \in Bound(d) : b.inst = states[b.p]
    BY <2>1, <2>2 DEF Accounted
  <2>9. alive' = ({states[p] : p \in Plugins} \ {None}) \cup Besides'
    BY <1>2, <2>1, <2>2, <2>3 DEF Accounted
  <2> QED BY <1>2, <2>3, <2>5, <2>6, <2>7, <2>8, <2>9 DEF Accounted
<1> QED BY <1>5, <1>6, <1>7, <1>8, <1>10, <1>11 DEF Sound

(* The way back keeps the invariant: each on_unload takes one pair out of   *)
(* `back`.                                                                  *)
LEMMA SoundUndo ==
  ASSUME PluginHostAssumption, PluginInv, TypeOK', NEW t \in Tasks, UndoCandidate(t)
  PROVE  Sound'
<1>0. PICK i, c : i = task[t].cand /\ c = Head(task[t].back)
  OBVIOUS
<1>1. /\ TypeOK /\ Roles /\ Attached /\ Binding /\ Matching /\ (~torn => Accounted)
      /\ Working(t) /\ Changing(t) /\ Told(t) /\ task[t].todo \in Seq(Items)
      /\ task[t].back \in Seq(Contexts)
  BY InvFacts
<1>2. /\ lock = t /\ lock' = t /\ task[t].pc = "undo" /\ rt' = rt
      /\ UNCHANGED <<installed, file, states, born, attached, bind, rt, worker,
                     breaker, ops, calls, overlap, torn>>
      /\ \A u \in Tasks : u # t => task'[u] = task[u]
      /\ task'[t].op = task[t].op /\ task'[t].todo = task[t].todo /\ task'[t].p = task[t].p
      /\ task'[t].prev = task[t].prev /\ task'[t].cand = i
      /\ \/ /\ task[t].back # <<>> /\ task'[t].pc = "undo" /\ alive' = alive
            /\ loaded' = loaded \ {<<i, c>>} /\ task'[t].back = Tail(task[t].back)
         \/ /\ task[t].back = <<>> /\ task'[t].pc = "failed" /\ alive' = alive \ {i}
            /\ loaded' = loaded
  BY <1>0, <1>1, UndoFacts DEF Held, Moved
<1>3. /\ i # None /\ i.p = Head(task[t].todo).p /\ i.n = born[Head(task[t].todo).p] /\ Unused(i)
  BY <1>0, <1>1, <1>2 DEF Changing
<1>4. task[t].back # <<>> => ToSet(task[t].back) = ToSet(Tail(task[t].back)) \cup {c}
  <2>1. task[t].back \in Seq(Contexts)
    BY <1>1
  <2> QED BY <1>0, <2>1, HeadTail
<1>5. Roles'
  <2>1. Working(t)'
    BY <1>1, <1>2, WorkingOn DEF Swapping
  <2> QED BY <1>1, <1>2, <2>1, RolesHeld
<1>6. Attached'
  <2>1. \A d \in Contexts : Attaching(d)' <=> Attaching(d)
    BY <1>2, AttachingStep
  <2> QED BY <1>1, <1>2, <2>1, AttachedSame
<1>7. Binding'
  <2>1. \A d \in Contexts : \A b \in Bound(d) : d \in ToSet(attached) => <<b.inst, d>> \in loaded'
    <3>1. \A d \in Contexts : \A b \in Bound(d) : b.inst # i
      BY <1>3 DEF Unused
    <3>2. \A d \in Contexts : \A b \in Bound(d) : d \in ToSet(attached) => <<b.inst, d>> \in loaded
      BY <1>1 DEF Binding
    <3> QED BY <1>2, <3>1, <3>2
  <2>2. \A p \in Plugins : born[p] <= born'[p]
    BY <1>1, <1>2 DEF TypeOK
  <2> QED BY <1>1, <1>2, <2>1, <2>2, BindingSame
<1>8. Matching'
  BY <1>0, <1>1, <1>2, MatchingHeld DEF Earlier, Told
<1>9. Changing(t)'
  <2>1. Unused(i)'
    BY <1>2, <1>3 DEF Unused, Bound
  <2> QED BY <1>2, <1>3, <2>1 DEF Changing
<1>10. \A u \in Tasks : Changing(u)'
  BY <1>1, <1>2, <1>9, ChangingStep
<1>11. ASSUME ~torn' PROVE Accounted'
  <2>1. Accounted
    BY <1>1, <1>2, <1>11
  <2>2. /\ Leaving = {<<i, d>> : d \in ToSet(task[t].back)} /\ Besides = {i}
        /\ \A d : ~Unbinding(d) /\ \A j : ~Dropping(d, j)
    BY <1>0, <1>2, HolderNow
  <2>3. /\ ToSet(attached)' = ToSet(attached) /\ \A d \in Contexts : Bound(d)' = Bound(d)
        /\ \A l \in loaded : l[2] \in Contexts
    BY <1>1, <1>2 DEF Bound, TypeOK
  <2>4. \A d \in Contexts : bind'[d] = <<>> \/ d \in ToSet(attached)
    BY <1>2, <2>1, <2>2 DEF Accounted
  <2>5. \A d \in Contexts : \A b \in Bound(d) : b.inst = states[b.p]
    BY <2>1, <2>2 DEF Accounted
  <2>6. \A l \in loaded : l \in Leaving \/ \E b \in Bound(l[2]) : b.inst = l[1]
    BY <2>1 DEF Accounted
  <2>7. alive = ({states[p] : p \in Plugins} \ {None}) \cup {i}
    BY <2>1, <2>2 DEF Accounted
  <2>8. \A l \in loaded : Bound(l[2])' = Bound(l[2])
    BY <2>3
  <2>9. CASE task[t].back # <<>>
    <3>1. /\ Leaving' = {<<i, d>> : d \in ToSet(task'[t].back)} /\ Besides' = {i}
          /\ \A d : ~Unbinding(d)' /\ \A j : ~Dropping(d, j)'
      BY <1>2, <2>9, HolderNext
    <3>2. \A l \in loaded' : l \in loaded /\ l # <<i, c>>
      BY <1>2, <2>9
    <3>3. \A l \in loaded' : l \in Leaving => l \in Leaving'
      BY <1>2, <1>4, <2>2, <2>9, <3>1, <3>2
    <3>4. \A l \in loaded' : l \in Leaving' \/ \E b \in Bound(l[2])' : b.inst = l[1]
      BY <2>6, <2>8, <3>2, <3>3
    <3>5. alive' = ({states[p] : p \in Plugins} \ {None}) \cup Besides'
      BY <1>2, <2>7, <2>9, <3>1
    <3> QED BY <1>2, <2>3, <2>4, <2>5, <3>1, <3>4, <3>5 DEF Accounted
  <2>10. CASE task[t].back = <<>>
    <3>1. Quiet'
      BY <1>2, <2>10, QuietNext
    <3>2. ToSet(<<>>) = {}
      BY DEF ToSet
    <3>3. Leaving = {}
      BY <2>2, <2>10, <3>2
    <3>4. \A l \in loaded' : \E b \in Bound(l[2])' : b.inst = l[1]
      BY <1>2, <2>6, <2>8, <2>10, <3>3
    <3>5. alive' = {states[p] : p \in Plugins} \ {None}
      BY <1>2, <1>3, <2>7, <2>10 DEF Unused
    <3>6. \A l \in loaded' : l[2] \in Contexts
      BY <1>2, <2>3, <2>10
    <3> QED BY <1>2, <2>3, <2>4, <2>5, <3>1, <3>4, <3>5, <3>6 DEF Accounted, Quiet
  <2> QED BY <2>9, <2>10
<1> QED BY <1>5, <1>6, <1>7, <1>8, <1>10, <1>11 DEF Sound

(* The holder is through with its first item.                              *)
LEMMA PassedOn ==
  ASSUME PluginHostAssumption, PluginInv, NEW t \in Tasks, task[t].todo # <<>>,
         Passed(t, task[t].todo), lock = t, lock' = t, rt' = rt
  PROVE  /\ Roles' /\ Changing(t)' /\ Quiet'
         /\ \A u \in Tasks : u # t => task'[u] = task[u]
         /\ task'[t].op = task[t].op /\ task'[t].p = task[t].p /\ task'[t].prev = task[t].prev
         /\ task'[t].pc = "next" /\ ToSet(task'[t].todo) \subseteq ToSet(task[t].todo)
         /\ \A c \in Contexts : Attaching(c)' <=> Attaching(c)
<1>1. /\ TypeOK /\ Roles /\ Working(t) /\ task[t].todo \in Seq(Items)
      /\ task[t].pc # "idle" => task[t].op # "idle"
  BY InvFacts
<1>2. /\ \A u \in Tasks : u # t => task'[u] = task[u]
      /\ task'[t].op = task[t].op /\ task'[t].p = task[t].p /\ task'[t].prev = task[t].prev
      /\ task'[t].pc = "next" /\ task'[t].todo = Tail(task[t].todo)
  BY DEF Passed, Moved
<1>3. task[t].pc \notin {"idle", "wait"} /\ task[t].op # "idle"
  BY <1>1 DEF Working
<1>4. Working(t)'
  BY <1>1, <1>3, WorkingPassed
<1>5. Roles'
  BY <1>1, <1>2, <1>4, RolesHeld
<1>6. Changing(t)'
  BY <1>2 DEF Changing
<1>7. Quiet'
  BY <1>2, QuietNext
<1>8. ToSet(task'[t].todo) \subseteq ToSet(task[t].todo)
  BY <1>1, <1>2, HeadTail
<1>9. \A c \in Contexts : Attaching(c)' <=> Attaching(c)
  BY <1>2, <1>3, AttachingStep
<1> QED BY <1>2, <1>5, <1>6, <1>7, <1>8, <1>9

(* The hooks of the replaced instance keep the invariant: nothing is bound  *)
(* to it.                                                                   *)
LEMMA SoundRetire ==
  ASSUME PluginHostAssumption, PluginInv, TypeOK', NEW t \in Tasks, RetireOld(t)
  PROVE  Sound'
<1>0. PICK i, c : i = task[t].old /\ c = Head(task[t].left)
  OBVIOUS
<1>1. /\ TypeOK /\ Roles /\ Attached /\ Binding /\ Matching /\ (~torn => Accounted)
      /\ Working(t) /\ Changing(t) /\ Told(t) /\ task[t].todo \in Seq(Items)
  BY InvFacts
<1>2. /\ lock = t /\ lock' = t /\ task[t].pc = "retire" /\ task[t].todo # <<>>
      /\ UNCHANGED <<installed, file, states, born, attached, bind, rt, worker,
                     breaker, ops, calls, overlap, torn>>
      /\ \/ /\ task[t].left # <<>> /\ alive' = alive /\ loaded' = loaded \ {<<i, c>>}
            /\ \A u \in Tasks : u # t => task'[u] = task[u]
            /\ task'[t].op = task[t].op /\ task'[t].todo = task[t].todo /\ task'[t].p = task[t].p
            /\ task'[t].prev = task[t].prev /\ task'[t].old = i
            /\ task'[t].pc = "retire" /\ task'[t].left = Tail(task[t].left)
         \/ /\ task[t].left = <<>> /\ alive' = alive \ {i} /\ loaded' = loaded
            /\ Passed(t, task[t].todo)
  BY <1>0, <1>1, RetireFacts DEF Held, Moved
<1>3. /\ i # None /\ i.p = Head(task[t].todo).p /\ \A p \in Plugins : states[p] # i
      /\ task[t].left \in Seq(Contexts)
      /\ \A d \in ToSet(attached) : \A b \in Bound(d) : b.inst # i
      /\ task[t].op # "uninstall"
  <2>1. task[t].op # "uninstall"
    BY <1>1, <1>2 DEF Told
  <2> QED BY <1>0, <1>1, <1>2, <2>1 DEF Changing
<1>4. Binding'
  <2>1. \A d \in Contexts : \A b \in Bound(d) : d \in ToSet(attached) => <<b.inst, d>> \in loaded'
    <3>1. \A d \in Contexts : \A b \in Bound(d) : d \in ToSet(attached) => <<b.inst, d>> \in loaded
      BY <1>1 DEF Binding
    <3> QED BY <1>2, <1>3, <3>1
  <2>2. \A p \in Plugins : born[p] <= born'[p]
    BY <1>1, <1>2 DEF TypeOK
  <2> QED BY <1>1, <1>2, <2>1, <2>2, BindingSame
<1>5. ASSUME ~torn
      PROVE  /\ Accounted /\ Leaving = {<<i, d>> : d \in ToSet(task[t].left)} /\ Besides = {i}
             /\ \A d : ~Unbinding(d) /\ \A j : ~Dropping(d, j)
             /\ \A d \in Contexts : bind'[d] = <<>> \/ d \in ToSet(attached)
             /\ \A d \in Contexts : \A b \in Bound(d) : b.inst = states[b.p]
             /\ \A l \in loaded : l \in Leaving \/ \E b \in Bound(l[2]) : b.inst = l[1]
             /\ alive = ({states[p] : p \in Plugins} \ {None}) \cup {i}
  <2>1. Accounted
    BY <1>1, <1>5
  <2>2. /\ Leaving = {<<i, d>> : d \in ToSet(task[t].left)} /\ Besides = {i}
        /\ \A d : ~Unbinding(d) /\ \A j : ~Dropping(d, j)
    BY <1>0, <1>2, HolderNow
  <2>3. \A d \in Contexts : bind'[d] = <<>> \/ d \in ToSet(attached)
    BY <1>2, <2>1, <2>2 DEF Accounted
  <2>4. \A d \in Contexts : \A b \in Bound(d) : b.inst = states[b.p]
    BY <2>1, <2>2 DEF Accounted
  <2>5. \A l \in loaded : l \in Leaving \/ \E b \in Bound(l[2]) : b.inst = l[1]
    BY <2>1 DEF Accounted
  <2>6. alive = ({states[p] : p \in Plugins} \ {None}) \cup {i}
    BY <2>1, <2>2 DEF Accounted
  <2> QED BY <2>1, <2>2, <2>3, <2>4, <2>5, <2>6
<1>6. /\ ToSet(attached)' = ToSet(attached) /\ \A d \in Contexts : Bound(d)' = Bound(d)
      /\ \A l \in loaded : l[2] \in Contexts /\ Bound(l[2])' = Bound(l[2])
  BY <1>1, <1>2 DEF Bound, TypeOK
<1>7. CASE task[t].left # <<>>
  <2>1. /\ alive' = alive /\ loaded' = loaded \ {<<i, c>>}
        /\ \A u \in Tasks : u # t => task'[u] = task[u]
        /\ task'[t].op = task[t].op /\ task'[t].todo = task[t].todo /\ task'[t].p = task[t].p
        /\ task'[t].prev = task[t].prev /\ task'[t].old = i
        /\ task'[t].pc = "retire" /\ task'[t].left = Tail(task[t].left)
    BY <1>2, <1>7
  <2>2. ToSet(task[t].left) = ToSet(Tail(task[t].left)) \cup {c} /\ Tail(task[t].left) \in Seq(Contexts)
    BY <1>0, <1>3, <1>7, HeadTail
  <2>3. Roles'
    <3>1. Working(t)'
      BY <1>1, <1>2, <2>1, WorkingOn DEF Swapping
    <3> QED BY <1>1, <1>2, <2>1, <3>1, RolesHeld
  <2>4. Attached'
    <3>1. \A d \in Contexts : Attaching(d)' <=> Attaching(d)
      BY <1>2, <2>1, AttachingStep
    <3> QED BY <1>1, <1>2, <3>1, AttachedSame
  <2>5. Matching'
    BY <1>1, <1>2, <1>3, <2>1, MatchingHeld DEF Earlier
  <2>6. \A u \in Tasks : Changing(u)'
    <3>1. Changing(t)'
      <4>1. /\ task'[t].left \in Seq(Contexts) /\ task'[t].old = i /\ Head(task'[t].todo).p = i.p
            /\ i # None /\ task'[t].pc = "retire" /\ \A p \in Plugins : states'[p] # i
        BY <1>2, <1>3, <2>1, <2>2
      <4>2. attached \in Seq(Contexts) /\ ToSet(attached) \subseteq Contexts
        BY <1>1, SeqFacts DEF TypeOK
      <4>3. \A d \in ToSet(attached)' : \A b \in Bound(d)' : b.inst # i
        BY <1>3, <1>6, <4>2
      <4> QED BY <4>1, <4>3 DEF Changing
    <3> QED BY <1>1, <1>2, <2>1, <3>1, ChangingStep
  <2>7. ASSUME ~torn' PROVE Accounted'
    <3>1. /\ Leaving' = {<<i, d>> : d \in ToSet(task'[t].left)} /\ Besides' = {i}
          /\ \A d : ~Unbinding(d)' /\ \A j : ~Dropping(d, j)'
      BY <1>2, <2>1, HolderNext
    <3>2. \A l \in loaded' : l \in loaded /\ l # <<i, c>>
      BY <2>1
    <3>3. \A l \in loaded' : l \in Leaving => l \in Leaving'
      BY <1>2, <1>5, <2>1, <2>2, <2>7, <3>1, <3>2
    <3>4. \A l \in loaded' : l \in Leaving' \/ \E b \in Bound(l[2])' : b.inst = l[1]
      BY <1>2, <1>5, <1>6, <2>7, <3>2, <3>3
    <3>5. alive' = ({states[p] : p \in Plugins} \ {None}) \cup Besides'
      BY <1>2, <1>5, <2>1, <2>7, <3>1
    <3> QED BY <1>2, <1>5, <1>6, <2>7, <3>1, <3>4, <3>5 DEF Accounted
  <2> QED BY <1>4, <2>3, <2>4, <2>5, <2>6, <2>7 DEF Sound
<1>8. CASE task[t].left = <<>>
  <2>1. alive' = alive \ {i} /\ loaded' = loaded /\ Passed(t, task[t].todo)
    BY <1>2, <1>8
  <2>2. /\ Roles' /\ Changing(t)' /\ Quiet'
        /\ \A u \in Tasks : u # t => task'[u] = task[u]
        /\ task'[t].op = task[t].op /\ task'[t].p = task[t].p /\ task'[t].prev = task[t].prev
        /\ task'[t].pc = "next" /\ ToSet(task'[t].todo) \subseteq ToSet(task[t].todo)
        /\ \A d \in Contexts : Attaching(d)' <=> Attaching(d)
    BY <1>2, <2>1, PassedOn
  <2>3. Attached'
    BY <1>1, <1>2, <2>2, AttachedSame
  <2>4. Matching'
    BY <1>1, <1>2, <1>3, <2>2, MatchingHeld DEF Earlier
  <2>5. \A u \in Tasks : Changing(u)'
    BY <1>1, <1>2, <2>2, ChangingStep
  <2>6. ASSUME ~torn' PROVE Accounted'
    <3>1. ToSet(<<>>) = {}
      BY DEF ToSet
    <3>2. Leaving = {}
      BY <1>2, <1>5, <1>8, <2>6, <3>1
    <3>3. \A l \in loaded' : \E b \in Bound(l[2])' : b.inst = l[1]
      BY <1>2, <1>5, <1>6, <2>1, <2>6, <3>2
    <3>4. alive' = {states[p] : p \in Plugins} \ {None}
      BY <1>2, <1>3, <1>5, <2>1, <2>6
    <3>5. \A l \in loaded' : l[2] \in Contexts
      BY <1>6, <2>1
    <3> QED BY <1>2, <1>5, <1>6, <2>2, <2>6, <3>3, <3>4, <3>5 DEF Accounted, Quiet
  <2> QED BY <1>4, <2>2, <2>3, <2>4, <2>5, <2>6 DEF Sound
<1> QED BY <1>7, <1>8

(* The hooks of a deactivated instance keep the invariant: unbound, then    *)
(* unloaded.                                                                *)
LEMMA SoundDrop ==
  ASSUME PluginHostAssumption, PluginInv, TypeOK', NEW t \in Tasks, DropInstance(t)
  PROVE  Sound'
<1>0. PICK i, c : i = task[t].old /\ c = Head(task[t].left)
  OBVIOUS
<1>1. /\ TypeOK /\ Roles /\ Attached /\ Binding /\ Matching /\ (~torn => Accounted)
      /\ Working(t) /\ Changing(t) /\ Told(t) /\ task[t].todo \in Seq(Items)
  BY InvFacts
<1>2. /\ lock = t /\ lock' = t /\ task[t].pc = "drop" /\ task[t].todo # <<>>
      /\ UNCHANGED <<installed, file, states, born, attached, rt, worker,
                     breaker, ops, calls, overlap, torn>>
      /\ \/ /\ task[t].left # <<>> /\ c \in Contexts /\ alive' = alive /\ loaded' = loaded \ {<<i, c>>}
            /\ bind' = [bind EXCEPT ![c] = Kept(bind[c], {b \in Bound(c) : b.p # i.p})]
            /\ \A u \in Tasks : u # t => task'[u] = task[u]
            /\ task'[t].op = task[t].op /\ task'[t].todo = task[t].todo /\ task'[t].p = task[t].p
            /\ task'[t].prev = task[t].prev /\ task'[t].old = i
            /\ task'[t].pc = "drop" /\ task'[t].left = Tail(task[t].left)
         \/ /\ task[t].left = <<>> /\ alive' = alive \ {i} /\ loaded' = loaded /\ bind' = bind
            /\ Passed(t, task[t].todo)
  <2>1. /\ lock = t /\ lock' = t /\ task[t].pc = "drop" /\ task[t].todo # <<>>
        /\ UNCHANGED <<installed, file, states, born, attached, rt, worker,
                       breaker, ops, calls, overlap, torn>>
    BY <1>1, DropFacts DEF Held
  <2> DEFINE S == {b \in Bound(Head(task[t].left)) : b.p # task[t].old.p}
  <2>2. S = {b \in Bound(c) : b.p # i.p}
    BY <1>0
  <2>3. \/ /\ task[t].left # <<>> /\ Head(task[t].left) \in Contexts /\ alive' = alive
           /\ loaded' = loaded \ {<<task[t].old, Head(task[t].left)>>}
           /\ bind' = [bind EXCEPT ![Head(task[t].left)] = Kept(bind[Head(task[t].left)], S)]
           /\ Moved(t, task[t].op, "drop", task[t].todo, task[t].p, task[t].prev,
                    task[t].cand, task[t].old, Tail(task[t].left), task[t].back)
        \/ /\ task[t].left = <<>> /\ alive' = alive \ {task[t].old} /\ loaded' = loaded /\ bind' = bind
           /\ Passed(t, task[t].todo)
    BY <1>1, DropFacts
  <2> HIDE DEF S
  <2> QED BY <1>0, <2>1, <2>2, <2>3 DEF Moved
<1>3. /\ i # None /\ i.p = Head(task[t].todo).p /\ \A p \in Plugins : states[p] # i
      /\ task[t].left \in Seq(Contexts) /\ states[i.p] = None
  BY <1>0, <1>1, <1>2 DEF Changing
<1>4. ASSUME ~torn
      PROVE  /\ Leaving = {} /\ Besides = {i}
             /\ \A d : ~Unbinding(d) /\ \A j : Dropping(d, j) <=> j = i /\ d \in ToSet(task[t].left)
             /\ \A d \in Contexts : bind[d] = <<>> \/ d \in ToSet(attached)
             /\ \A d \in Contexts : \A b \in Bound(d) :
                  b.inst = states[b.p] \/ (b.inst = i /\ d \in ToSet(task[t].left))
             /\ \A l \in loaded : \E b \in Bound(l[2]) : b.inst = l[1]
             /\ alive = ({states[p] : p \in Plugins} \ {None}) \cup {i}
  <2>1. Accounted
    BY <1>1, <1>4
  <2>2. /\ Leaving = {} /\ Besides = {i}
        /\ \A d : ~Unbinding(d) /\ \A j : Dropping(d, j) <=> j = i /\ d \in ToSet(task[t].left)
    BY <1>0, <1>2, HolderNow
  <2>3. \A d \in Contexts : bind[d] = <<>> \/ d \in ToSet(attached)
    BY <2>1, <2>2 DEF Accounted
  <2>4. \A d \in Contexts : \A b \in Bound(d) :
          b.inst = states[b.p] \/ (b.inst = i /\ d \in ToSet(task[t].left))
    BY <2>1, <2>2 DEF Accounted
  <2>5. \A l \in loaded : \E b \in Bound(l[2]) : b.inst = l[1]
    BY <2>1, <2>2 DEF Accounted
  <2>6. alive = ({states[p] : p \in Plugins} \ {None}) \cup {i}
    BY <2>1, <2>2 DEF Accounted
  <2> QED BY <2>2, <2>3, <2>4, <2>5, <2>6
<1>5. ToSet(attached)' = ToSet(attached)
  BY <1>2
<1>6. \A p \in Plugins : born[p] <= born'[p]
  BY <1>1, <1>2 DEF TypeOK
<1>7. CASE task[t].left # <<>>
  <2>1. /\ alive' = alive /\ loaded' = loaded \ {<<i, c>>} /\ c \in Contexts
        /\ bind' = [bind EXCEPT ![c] = Kept(bind[c], {b \in Bound(c) : b.p # i.p})]
        /\ \A u \in Tasks : u # t => task'[u] = task[u]
        /\ task'[t].op = task[t].op /\ task'[t].todo = task[t].todo /\ task'[t].p = task[t].p
        /\ task'[t].prev = task[t].prev /\ task'[t].old = i
        /\ task'[t].pc = "drop" /\ task'[t].left = Tail(task[t].left)
    BY <1>2, <1>7
  <2>2. ToSet(task[t].left) = ToSet(Tail(task[t].left)) \cup {c} /\ Tail(task[t].left) \in Seq(Contexts)
    BY <1>0, <1>3, <1>7, HeadTail
  <2>3. /\ bind[c] \in Seq(Bindings) /\ bind \in [Contexts -> Seq(Bindings)]
    BY <1>1, <2>1 DEF TypeOK
  <2> DEFINE S == {b \in Bound(c) : b.p # i.p}
  <2>4. /\ ToSet(Kept(bind[c], S)) = {b \in Bound(c) : b.p # i.p}
        /\ \A j, k \in DOMAIN Kept(bind[c], S) : j # k =>
             \E l, m \in DOMAIN bind[c] : l # m /\ Kept(bind[c], S)[j] = bind[c][l]
                                                /\ Kept(bind[c], S)[k] = bind[c][m]
    <3>1. ToSet(bind[c]) = Bound(c)
      BY DEF Bound
    <3> HIDE DEF S
    <3>2. /\ ToSet(Kept(bind[c], S)) = ToSet(bind[c]) \cap S
          /\ \A j, k \in DOMAIN Kept(bind[c], S) : j # k =>
               \E l, m \in DOMAIN bind[c] : l # m /\ Kept(bind[c], S)[j] = bind[c][l]
                                                  /\ Kept(bind[c], S)[k] = bind[c][m]
      <4>1. PICK s \in Seq(Bindings) : s = bind[c]
        BY ONLY <2>3
      <4>2. ToSet(Kept(s, S)) = ToSet(s) \cap S
        BY ONLY s \in Seq(Bindings), KeptFacts
      <4>3. \A j, k \in DOMAIN Kept(s, S) : j # k =>
              \E l, m \in DOMAIN s : l # m /\ Kept(s, S)[j] = s[l] /\ Kept(s, S)[k] = s[m]
        BY ONLY s \in Seq(Bindings), KeptFacts
      <4> QED BY ONLY <4>1, <4>2, <4>3
    <3>3. ToSet(bind[c]) \cap S = {b \in Bound(c) : b.p # i.p}
      BY <3>1 DEF S
    <3> QED BY <3>2, <3>3
  <2>5. bind'[c] = Kept(bind[c], S) /\ \A d \in Contexts : d # c => bind'[d] = bind[d]
    BY <2>1, <2>3
  <2> HIDE DEF S
  <2>6. /\ Bound(c)' = {b \in Bound(c) : b.p # i.p}
        /\ \A d \in Contexts : d # c => Bound(d)' = Bound(d)
    <3>1. \A d \in Contexts : Bound(d)' = ToSet(bind'[d]) /\ Bound(d) = ToSet(bind[d])
      BY DEF Bound
    <3> QED BY <2>1, <2>4, <2>5, <3>1
  <2>7. \A d \in Contexts : Bound(d)' \subseteq Bound(d)
    BY <2>6
  <2>8. Roles'
    <3>1. Working(t)'
      BY <1>1, <1>2, <2>1, WorkingOn DEF Swapping
    <3> QED BY <1>1, <1>2, <2>1, <3>1, RolesHeld
  <2>9. \A d \in Contexts : bind[d] = <<>> => bind'[d] = <<>>
    <3>1. ASSUME bind[c] = <<>> PROVE bind'[c] = <<>>
      <4>1. Bound(c) = {}
        BY <3>1 DEF Bound, ToSet
      <4>2. ToSet(bind'[c]) = {} /\ bind'[c] \in Seq(Bindings)
        <5>1. bind'[c] \in Seq(Bindings)
          BY <2>1 DEF TypeOK
        <5> QED BY <2>4, <2>5, <4>1, <5>1
      <4>3. bind'[c] # <<>> => Head(bind'[c]) \in ToSet(bind'[c])
        BY <4>2, HeadTail
      <4> QED BY <4>2, <4>3
    <3> QED BY <2>5, <3>1
  <2>10. Attached'
    <3>1. \A d \in Contexts : Attaching(d)' <=> Attaching(d)
      BY <1>2, <2>1, AttachingStep
    <3> QED BY <1>1, <1>2, <2>9, <3>1, AttachedSame
  <2>11. Matching'
    BY <1>1, <1>2, <2>1, MatchingHeld DEF Earlier
  <2>12. \A u \in Tasks : Changing(u)'
    <3>1. Changing(t)'
      <4>1. /\ task'[t].left \in Seq(Contexts) /\ task'[t].old = i /\ Head(task'[t].todo).p = i.p
            /\ i # None /\ task'[t].pc = "drop" /\ \A p \in Plugins : states'[p] # i
            /\ states'[i.p] = None
        BY <1>2, <1>3, <2>1, <2>2
      <4> QED BY <4>1 DEF Changing
    <3> QED BY <1>1, <1>2, <2>1, <3>1, ChangingStep
  <2>13. Binding'
    <3>1. ASSUME NEW p \in Plugins, states'[p] # None PROVE Numbered(states[p], p)'
      BY <1>1, <1>2, <3>1 DEF Binding, Numbered
    <3>2. ASSUME NEW d \in Contexts PROVE OnePerPlugin(d)'
      <4>1. OnePerPlugin(d)
        BY <1>1 DEF Binding
      <4>2. CASE d # c
        BY <2>5, <4>1, <4>2 DEF OnePerPlugin
      <4>3. CASE d = c
        <5>1. ASSUME NEW j \in DOMAIN bind'[c], NEW k \in DOMAIN bind'[c],
                     bind'[c][j].p = bind'[c][k].p, j # k
              PROVE  FALSE
          <6>1. PICK l, m \in DOMAIN bind[c] : l # m /\ bind'[c][j] = bind[c][l]
                                                     /\ bind'[c][k] = bind[c][m]
            BY <2>4, <2>5, <5>1
          <6> QED BY <4>1, <4>3, <5>1, <6>1 DEF OnePerPlugin
        <5> QED BY <4>3, <5>1 DEF OnePerPlugin
      <4> QED BY <4>2, <4>3
    <3>3. ASSUME NEW d \in Contexts, NEW b \in Bound(d)'
          PROVE  Numbered(b.inst, b.p)' /\ (d \in ToSet(attached') => <<b.inst, d>> \in loaded')
      <4>1. b \in Bound(d)
        BY <2>7
      <4>2. Numbered(b.inst, b.p) /\ b.inst.p = b.p /\ (d \in ToSet(attached) => <<b.inst, d>> \in loaded)
        BY <1>1, <4>1, BoundFacts
      <4>3. Numbered(b.inst, b.p)'
        BY <1>2, <4>2 DEF Numbered
      <4>4. d = c => b.inst # i
        BY <2>6, <4>2
      <4> QED BY <1>2, <2>1, <4>2, <4>3, <4>4
    <3> QED BY <1>5, <3>1, <3>2, <3>3 DEF Binding
  <2>14. ASSUME ~torn' PROVE Accounted'
    <3>1. /\ Leaving' = {} /\ Besides' = {i}
          /\ \A d : ~Unbinding(d)' /\ \A j : Dropping(d, j)' <=> j = i /\ d \in ToSet(task'[t].left)
      BY <1>2, <2>1, HolderNext
    <3>2. \A d \in Contexts : bind'[d] = <<>> \/ d \in ToSet(attached)
      BY <1>2, <1>4, <2>9, <2>14
    <3>3. ASSUME NEW d \in Contexts, NEW b \in Bound(d)'
          PROVE  b.inst = states[b.p] \/ Dropping(d, b.inst)'
      <4>1. b \in Bound(d)
        BY <2>7
      <4>2. b.inst.p = b.p
        BY <1>1, <4>1, BoundFacts
      <4>3. b.inst = states[b.p] \/ (b.inst = i /\ d \in ToSet(task[t].left))
        BY <1>2, <1>4, <2>14, <4>1
      <4>4. d = c => b.inst # i
        BY <2>6, <4>2
      <4>5. b.inst = i /\ d \in ToSet(task[t].left) => d \in ToSet(task'[t].left)
        BY <2>1, <2>2, <4>4
      <4> QED BY <3>1, <4>3, <4>5
    <3>4. ASSUME NEW l \in loaded' PROVE l[2] \in Contexts /\ \E b \in Bound(l[2])' : b.inst = l[1]
      <4>1. l \in loaded /\ l # <<i, c>>
        BY <2>1
      <4>2. l[2] \in Contexts /\ l[1] \in Instances /\ l = <<l[1], l[2]>>
        BY <1>1, <4>1, LoadedFacts
      <4>3. PICK b \in Bound(l[2]) : b.inst = l[1]
        BY <1>2, <1>4, <2>14, <4>1
      <4>4. b.inst # None /\ b.inst.p = b.p
        BY <1>1, <4>2, BoundFacts
      <4>5. b.inst = states[b.p] \/ b.inst = i
        BY <1>2, <1>4, <2>14, <4>2
      <4>6. l[2] = c => b.p # i.p
        <5>1. l[2] = c => b.inst # i
          BY <4>1, <4>2, <4>3
        <5> QED BY <1>3, <4>4, <4>5, <5>1
      <4>7. b \in Bound(l[2])'
        BY <2>6, <4>2, <4>6
      <4> QED BY <4>2, <4>3, <4>7
    <3>5. alive' = ({states[p] : p \in Plugins} \ {None}) \cup Besides'
      BY <1>2, <1>4, <2>1, <2>14, <3>1
    <3> QED BY <1>2, <1>5, <3>1, <3>2, <3>3, <3>4, <3>5 DEF Accounted
  <2> QED BY <2>8, <2>10, <2>11, <2>12, <2>13, <2>14 DEF Sound
<1>8. CASE task[t].left = <<>>
  <2>1. alive' = alive \ {i} /\ loaded' = loaded /\ bind' = bind /\ Passed(t, task[t].todo)
    BY <1>2, <1>8
  <2>2. /\ Roles' /\ Changing(t)' /\ Quiet'
        /\ \A u \in Tasks : u # t => task'[u] = task[u]
        /\ task'[t].op = task[t].op /\ task'[t].p = task[t].p /\ task'[t].prev = task[t].prev
        /\ task'[t].pc = "next" /\ ToSet(task'[t].todo) \subseteq ToSet(task[t].todo)
        /\ \A d \in Contexts : Attaching(d)' <=> Attaching(d)
    BY <1>2, <2>1, PassedOn
  <2>3. Attached'
    BY <1>1, <1>2, <2>1, <2>2, AttachedSame
  <2>4. Matching'
    BY <1>1, <1>2, <2>2, MatchingHeld DEF Earlier
  <2>5. \A u \in Tasks : Changing(u)'
    BY <1>1, <1>2, <2>2, ChangingStep
  <2>6. Binding'
    BY <1>1, <1>2, <2>1 DEF Binding, Numbered, OnePerPlugin, Bound
  <2>7. ASSUME ~torn' PROVE Accounted'
    <3>1. ToSet(<<>>) = {}
      BY DEF ToSet
    <3>2. \A d \in Contexts : Bound(d)' = Bound(d)
      BY <2>1 DEF Bound
    <3>3. \A d \in Contexts : \A b \in Bound(d) : b.inst = states[b.p]
      BY <1>2, <1>4, <1>8, <2>7, <3>1
    <3>4. \A l \in loaded' : l[2] \in Contexts /\ \E b \in Bound(l[2])' : b.inst = l[1]
      <4>1. \A l \in loaded : l[2] \in Contexts
        BY <1>1, LoadedFacts
      <4> QED BY <1>2, <1>4, <2>1, <2>7, <3>2, <4>1
    <3>5. alive' = {states[p] : p \in Plugins} \ {None}
      BY <1>2, <1>3, <1>4, <2>1, <2>7
    <3>6. \A d \in Contexts : bind'[d] = <<>> \/ d \in ToSet(attached)
      BY <1>2, <1>4, <2>1, <2>7
    <3> QED BY <1>2, <1>5, <2>2, <3>2, <3>3, <3>4, <3>5, <3>6 DEF Accounted, Quiet
  <2> QED BY <2>2, <2>3, <2>4, <2>5, <2>6, <2>7 DEF Sound
<1> QED BY <1>7, <1>8

(* The bindings of a bot after the swap.                                   *)
LEMMA SwappedFacts ==
  ASSUME TypeOK, Binding, NEW c \in Contexts, NEW i \in Instances, i.p \in Plugins,
         bind'[c] = SwappedIn(i, c)
  PROVE  /\ c \notin ToSet(attached) => bind'[c] = bind[c]
         /\ c \in ToSet(attached) =>
              Bound(c)' = {b \in Bound(c) : b.p # i.p} \cup {[p |-> i.p, inst |-> i]}
         /\ OnePerPlugin(c)'
<1>0. PICK new : new = [p |-> i.p, inst |-> i]
  OBVIOUS
<1>1. /\ bind[c] \in Seq(Bindings) /\ DOMAIN bind[c] = 1 .. Len(bind[c]) /\ Len(bind[c]) \in Nat
      /\ new \in Bindings /\ new.p = i.p /\ new.inst = i
      /\ OnePerPlugin(c)
  <2>1. bind[c] \in Seq(Bindings)
    BY DEF TypeOK
  <2>2. DOMAIN bind[c] = 1 .. Len(bind[c]) /\ Len(bind[c]) \in Nat
    BY <2>1
  <2>3. new \in Bindings /\ new.p = i.p /\ new.inst = i
    BY <1>0 DEF Bindings
  <2>4. OnePerPlugin(c)
    BY DEF Binding
  <2> QED BY <2>1, <2>2, <2>3, <2>4
<1>2. Bound(c) = {bind[c][k] : k \in DOMAIN bind[c]} /\ Bound(c)' = ToSet(bind'[c])
  BY DEF Bound, ToSet
<1>3. PositionOf(c, i.p) = {k \in DOMAIN bind[c] : bind[c][k].p = i.p}
  BY DEF PositionOf
<1>4. CASE c \notin ToSet(attached)
  <2>1. bind'[c] = bind[c]
    BY <1>4 DEF SwappedIn
  <2> QED BY <1>1, <1>4, <2>1 DEF OnePerPlugin
<1>5. CASE c \in ToSet(attached) /\ PositionOf(c, i.p) = {}
  <2>1. bind'[c] = Append(bind[c], new)
    BY <1>0, <1>5 DEF SwappedIn
  <2>2. \A k \in DOMAIN bind[c] : bind[c][k].p # i.p
    BY <1>3, <1>5
  <2>3. ToSet(bind'[c]) = ToSet(bind[c]) \cup {new}
    BY <1>1, <2>1, Pushed
  <2>4. \A b \in Bound(c) : b.p # i.p
    BY <1>2, <2>2
  <2>5. Bound(c)' = {b \in Bound(c) : b.p # i.p} \cup {new}
    BY <1>2, <2>3, <2>4 DEF Bound
  <2>6. /\ DOMAIN bind'[c] = DOMAIN bind[c] \cup {Len(bind[c]) + 1} /\ bind'[c][Len(bind[c]) + 1] = new
        /\ \A k \in DOMAIN bind[c] : bind'[c][k] = bind[c][k]
    BY <1>1, <2>1
  <2>7. ASSUME NEW j \in DOMAIN bind'[c], NEW k \in DOMAIN bind'[c], bind'[c][j].p = bind'[c][k].p
        PROVE  j = k
    <3>1. CASE j \in DOMAIN bind[c] /\ k \in DOMAIN bind[c]
      BY <1>1, <2>6, <2>7, <3>1 DEF OnePerPlugin
    <3>2. CASE j = Len(bind[c]) + 1 /\ k \in DOMAIN bind[c]
      BY <1>1, <2>2, <2>6, <2>7, <3>2
    <3>3. CASE k = Len(bind[c]) + 1 /\ j \in DOMAIN bind[c]
      BY <1>1, <2>2, <2>6, <2>7, <3>3
    <3> QED BY <2>6, <3>1, <3>2, <3>3
  <2>8. OnePerPlugin(c)'
    BY <2>7 DEF OnePerPlugin
  <2> QED BY <1>0, <1>5, <2>5, <2>8
<1>6. CASE c \in ToSet(attached) /\ PositionOf(c, i.p) # {}
  <2>1. bind'[c] = [k \in DOMAIN bind[c] |-> IF k \in PositionOf(c, i.p) THEN new ELSE bind[c][k]]
    BY <1>0, <1>6 DEF SwappedIn
  <2>2. /\ DOMAIN bind'[c] = DOMAIN bind[c]
        /\ \A k \in DOMAIN bind[c] :
             /\ bind[c][k].p = i.p => bind'[c][k] = new
             /\ bind[c][k].p # i.p => bind'[c][k] = bind[c][k]
    BY <1>3, <2>1
  <2>3. \A k \in DOMAIN bind[c] : bind'[c][k].p = bind[c][k].p
    BY <1>1, <2>2
  <2>4. OnePerPlugin(c)'
    BY <1>1, <2>2, <2>3 DEF OnePerPlugin
  <2>5. Bound(c)' = {bind'[c][k] : k \in DOMAIN bind[c]}
    BY <1>2, <2>2 DEF ToSet
  <2>6. PICK m \in DOMAIN bind[c] : bind[c][m].p = i.p
    BY <1>3, <1>6
  <2>7. {bind'[c][k] : k \in DOMAIN bind[c]} = {b \in Bound(c) : b.p # i.p} \cup {new}
    <3>1. ASSUME NEW k \in DOMAIN bind[c] PROVE bind'[c][k] \in {b \in Bound(c) : b.p # i.p} \cup {new}
      BY <1>2, <2>2
    <3>2. new \in {bind'[c][k] : k \in DOMAIN bind[c]}
      BY <2>2, <2>6
    <3>3. ASSUME NEW b \in Bound(c), b.p # i.p PROVE b \in {bind'[c][k] : k \in DOMAIN bind[c]}
      BY <1>2, <2>2, <3>3
    <3> QED BY <3>1, <3>2, <3>3
  <2> QED BY <1>0, <1>6, <2>4, <2>5, <2>7
<1> QED BY <1>4, <1>5, <1>6

(* The swap keeps the invariant: every binding of the old instance is one   *)
(* of the candidate.                                                        *)
LEMMA SoundSwap ==
  ASSUME PluginHostAssumption, PluginInv, TypeOK', NEW t \in Tasks, SwapInstances(t)
  PROVE  Sound'
<1>0. PICK i, h, w : i = task[t].cand /\ h = Head(task[t].todo) /\ w = states[task[t].cand.p]
  OBVIOUS
<1>1. /\ TypeOK /\ Roles /\ Attached /\ Binding /\ Matching /\ (~torn => Accounted)
      /\ Working(t) /\ Changing(t) /\ Told(t) /\ task[t].todo \in Seq(Items)
  BY InvFacts
<1>2. /\ lock = t /\ lock' = t /\ task[t].pc = "load" /\ task[t].todo # <<>> /\ task[t].left = <<>>
      /\ i \in Instances /\ i.p \in Plugins
      /\ bind' = [c \in Contexts |-> SwappedIn(i, c)]
      /\ states' = [states EXCEPT ![i.p] = i]
      /\ UNCHANGED <<installed, file, born, alive, loaded, attached, rt, worker,
                     breaker, ops, calls, overlap, torn>>
      /\ \/ w = None /\ Passed(t, task[t].todo)
         \/ /\ w # None
            /\ \A u \in Tasks : u # t => task'[u] = task[u]
            /\ task'[t].op = task[t].op /\ task'[t].todo = task[t].todo /\ task'[t].p = task[t].p
            /\ task'[t].prev = task[t].prev /\ task'[t].old = w
            /\ task'[t].pc = "retire" /\ task'[t].left = Reverse(ContextsWith(i.p))
            /\ Reverse(ContextsWith(i.p)) \in Seq(Contexts)
  BY <1>0, <1>1, SwapFacts DEF Held, Moved
<1>3. /\ i # None /\ i.p = h.p /\ i.n = born[h.p] /\ Unused(i)
      /\ ToSet(attached) = ToSet(task[t].left) \cup ToSet(task[t].back)
      /\ \A d \in ToSet(task[t].back) : <<i, d>> \in loaded
      /\ task[t].op # "uninstall" /\ h \in ToSet(task[t].todo)
      /\ task[t].op = "update" => task[t].p = h.p
      /\ i.p \notin overlap => i.p \in installed /\ Enabled(i.cfg) /\ i.cfg = file[i.p]
      /\ w = states[i.p]
  <2>1. task[t].op # "uninstall"
    BY <1>1, <1>2 DEF Told
  <2>2. h \in ToSet(task[t].todo)
    BY <1>0, <1>1, <1>2, HeadTail
  <2>3. task[t].op = "update" => task[t].p = h.p
    BY <1>0, <1>1, <1>2 DEF Working
  <2>4. i.p \notin overlap => i.p \in installed /\ Enabled(i.cfg) /\ i.cfg = file[i.p]
    BY <1>0, <1>1, <1>2 DEF Told
  <2> QED BY <1>0, <1>1, <1>2, <2>1, <2>2, <2>3, <2>4 DEF Changing
<1>4. /\ ToSet(task[t].left) = {} /\ ToSet(attached)' = ToSet(attached)
      /\ \A d \in ToSet(attached) : <<i, d>> \in loaded
      /\ ToSet(attached) = ToSet(task[t].back)
  <2>1. ToSet(<<>>) = {}
    BY DEF ToSet
  <2> QED BY <1>2, <1>3, <2>1
<1>5. \A c \in Contexts :
        /\ c \notin ToSet(attached) => bind'[c] = bind[c]
        /\ c \in ToSet(attached) =>
             Bound(c)' = {b \in Bound(c) : b.p # i.p} \cup {[p |-> i.p, inst |-> i]}
        /\ OnePerPlugin(c)'
  BY <1>1, <1>2, SwappedFacts
<1>6. /\ \A u \in Tasks : u # t => task'[u] = task[u]
      /\ task'[t].op = task[t].op /\ task'[t].p = task[t].p /\ task'[t].prev = task[t].prev
      /\ task'[t].pc \in {"next", "retire"} /\ ToSet(task'[t].todo) \subseteq ToSet(task[t].todo)
      /\ Roles'
  <2>1. CASE w = None
    BY <1>2, <2>1, PassedOn
  <2>2. CASE w # None
    <3>1. Working(t)'
      BY <1>1, <1>2, <2>2, WorkingOn DEF Swapping
    <3>2. Roles'
      BY <1>1, <1>2, <2>2, <3>1, RolesHeld
    <3> QED BY <1>2, <2>2, <3>2
  <2> QED BY <2>1, <2>2
<1>7. Attached'
  <2>1. \A c \in Contexts : Attaching(c)' <=> Attaching(c)
    BY <1>2, <1>6, AttachingStep
  <2>2. \A c \in Contexts : bind[c] = <<>> /\ c \notin ToSet(attached) => bind'[c] = <<>>
    BY <1>5
  <2> QED BY <1>1, <1>2, <2>1, <2>2, AttachedSame
<1>8. /\ states'[i.p] = i /\ \A p \in Plugins : p # i.p => states'[p] = states[p]
      /\ \A p \in Plugins : states[p] # i
  BY <1>1, <1>2, <1>3 DEF TypeOK, Unused
<1>9. Binding'
  <2>1. ASSUME NEW p \in Plugins, states'[p] # None PROVE Numbered(states[p], p)'
    <3>1. CASE p = i.p
      <4>1. born[i.p] \in Nat
        BY <1>1, <1>2 DEF TypeOK
      <4> QED BY <1>2, <1>3, <1>8, <3>1, <4>1 DEF Numbered
    <3>2. CASE p # i.p
      BY <1>1, <1>2, <1>8, <2>1, <3>2 DEF Binding, Numbered
    <3> QED BY <3>1, <3>2
  <2>2. ASSUME NEW c \in Contexts, NEW b \in Bound(c)'
        PROVE  Numbered(b.inst, b.p)' /\ (c \in ToSet(attached) => <<b.inst, c>> \in loaded')
    <3>1. CASE b \in Bound(c)
      <4>1. Numbered(b.inst, b.p) /\ (c \in ToSet(attached) => <<b.inst, c>> \in loaded)
        BY <1>1, <3>1, BoundFacts
      <4> QED BY <1>2, <4>1 DEF Numbered
    <3>2. CASE b \notin Bound(c)
      <4>1. Bound(c)' = ToSet(bind'[c]) /\ Bound(c) = ToSet(bind[c])
        BY DEF Bound
      <4>2. c \in ToSet(attached) /\ b = [p |-> i.p, inst |-> i]
        BY <1>5, <3>2, <4>1
      <4>3. b.p = i.p /\ b.inst = i /\ born[i.p] \in Nat
        BY <1>1, <1>2, <4>2 DEF TypeOK
      <4> QED BY <1>2, <1>3, <1>4, <4>2, <4>3 DEF Numbered
    <3> QED BY <3>1, <3>2
  <2> QED BY <1>4, <1>5, <2>1, <2>2 DEF Binding
<1>10. Matching'
  <2>1. ASSUME NEW p \in Plugins \ overlap' PROVE Faithful(p)' /\ Alone(p)'
    <3>1. Faithful(p) /\ Alone(p) /\ p \in Plugins
      BY <1>1, <1>2, MatchingParts
    <3>2. Concerned(t)' \subseteq Concerned(t) /\ h.p \in Concerned(t)
      <4>1. Concerned(t) = {j.p : j \in ToSet(task[t].todo)} \cup {task[t].p}
        BY ConcernedFacts
      <4>2. Concerned(t)' = {j.p : j \in ToSet(task'[t].todo)} \cup {task'[t].p}
        BY DEF Concerned, ToSet
      <4> QED BY <1>3, <1>6, <4>1, <4>2
    <3>3. Updates(t, p)' <=> Updates(t, p)
      BY <1>6 DEF Updates
    <3>4. Alone(p)'
      BY <1>6, <3>1, <3>2, <3>3, AloneSame
    <3>5. CASE p = i.p
      <4>1. \A u \in Tasks : ~(Updates(u, p)' /\ Earlier(u)')
        <5>1. ASSUME NEW u \in Tasks, Updates(u, p)', u # t PROVE FALSE
          <6>1. Updates(u, p)
            BY <1>6, <5>1 DEF Updates
          <6> QED BY <1>3, <3>1, <3>2, <3>5, <5>1, <6>1 DEF Alone
        <5>2. ~Earlier(t)'
          BY <1>6 DEF Earlier
        <5> QED BY <5>1, <5>2
      <4>2. Runs(p, file[p])'
        BY <1>2, <1>3, <1>8, <3>5 DEF Runs
      <4>3. \A u \in Tasks : Updates(u, p)' /\ Earlier(u)' => Runs(p, task[u].prev)'
        BY <4>1
      <4>4. (\A u \in Tasks : ~(Updates(u, p)' /\ Earlier(u)')) => Runs(p, file[p])'
        BY <4>2
      <4> QED BY <3>4, <4>3, <4>4 DEF Faithful
    <3>6. CASE p # i.p
      <4>1. ~Updates(t, p)
        BY <1>3, <3>6 DEF Updates
      <4>2. ~Updates(t, p)'
        BY <3>3, <4>1
      <4>3. states'[p] = states[p] /\ file'[p] = file[p] /\ installed' = installed
        BY <1>2, <1>8, <3>1, <3>6
      <4>4. Faithful(p)'
        BY <1>6, <3>1, <4>1, <4>2, <4>3, FaithfulSame
      <4> QED BY <3>4, <4>4
    <3> QED BY <3>4, <3>5, <3>6
  <2>2. ASSUME NEW u \in Tasks PROVE Told(u)'
    <3>1. CASE u # t
      <4>1. lock # u /\ Working(u) /\ task'[u] = task[u]
        BY <1>1, <1>2, <1>6, <3>1 DEF Roles
      <4> QED BY <1>1, <1>2, <4>1, ToldOther
    <3>2. CASE u = t
      <4>1. ToSet(task[t].todo)' = ToSet(task'[t].todo)
        OBVIOUS
      <4> QED BY <1>1, <1>2, <1>3, <1>6, <3>2, <4>1 DEF Told
    <3> QED BY <3>1, <3>2
  <2> QED BY <2>1, <2>2, MatchingParts
<1>11. w # None =>
         /\ \A d : d \in ToSet(Reverse(ContextsWith(i.p))) <=>
                     d \in ToSet(attached) /\ d \in Contexts /\ \E b \in Bound(d) : b.p = i.p
  <2>1. attached \in Seq(Contexts)
    BY <1>1 DEF TypeOK
  <2> DEFINE S == {d \in Contexts : PositionOf(d, i.p) # {}}
  <2>2. ContextsWith(i.p) = Kept(attached, S)
    BY DEF ContextsWith
  <2>3. \A d \in Contexts : PositionOf(d, i.p) # {} <=> \E b \in Bound(d) : b.p = i.p
    BY DEF PositionOf, Bound, ToSet
  <2>4. \A d : d \in S <=> d \in Contexts /\ \E b \in Bound(d) : b.p = i.p
    BY <2>3
  <2> HIDE DEF S
  <2>5. Kept(attached, S) \in Seq(Contexts) /\ ToSet(Kept(attached, S)) = ToSet(attached) \cap S
    BY <2>1, KeptFacts
  <2>6. ToSet(Reverse(Kept(attached, S))) = ToSet(Kept(attached, S))
    BY <2>5, SeqFacts
  <2> QED BY <2>2, <2>4, <2>5, <2>6
<1>12. \A u \in Tasks : Changing(u)'
  <2>1. Changing(t)'
    <3>1. CASE w = None
      BY <1>2, <3>1, PassedOn
    <3>2. CASE w # None
      <4>1. /\ task'[t].left \in Seq(Contexts) /\ task'[t].old = w /\ task'[t].pc = "retire"
            /\ Head(task'[t].todo).p = i.p
        BY <1>0, <1>2, <1>3, <3>2
      <4>2. Numbered(w, i.p)
        BY <1>1, <1>2, <1>3, <3>2 DEF Binding
      <4>3. ASSUME NEW p \in Plugins PROVE states'[p] # w
        <5>1. CASE p = i.p
          BY <1>2, <1>3, <1>8, <5>1
        <5>2. CASE p # i.p
          <6>1. states[p] # None => Numbered(states[p], p)
            BY <1>1 DEF Binding
          <6> QED BY <1>8, <3>2, <4>2, <5>2, <6>1 DEF Numbered
        <5> QED BY <5>1, <5>2
      <4>4. ASSUME NEW d \in ToSet(attached), NEW b \in Bound(d)' PROVE b.inst # w
        <5>1. d \in Contexts
          BY <1>1, SeqFacts DEF TypeOK
        <5>2. CASE b = [p |-> i.p, inst |-> i]
          BY <1>2, <1>3, <1>8, <5>2
        <5>3. CASE b \in Bound(d) /\ b.p # i.p
          BY <1>1, <4>2, <5>1, <5>3, BoundFacts DEF Numbered
        <5> QED BY <1>5, <5>1, <5>2, <5>3
      <4>5. w.p = i.p
        BY <4>2 DEF Numbered
      <4> QED BY <1>4, <3>2, <4>1, <4>3, <4>4, <4>5 DEF Changing
    <3> QED BY <3>1, <3>2
  <2> QED BY <1>1, <1>2, <1>6, <2>1, ChangingStep
<1>13. ASSUME ~torn' PROVE Accounted'
  <2>1. Accounted
    BY <1>1, <1>2, <1>13
  <2>2. /\ Leaving = {<<i, d>> : d \in ToSet(task[t].back)} /\ Besides = {i}
        /\ \A d : ~Unbinding(d) /\ \A j : ~Dropping(d, j)
    BY <1>0, <1>2, HolderNow
  <2>3. \A d \in Contexts : bind[d] = <<>> \/ d \in ToSet(attached)
    BY <2>1, <2>2 DEF Accounted
  <2>4. \A d \in Contexts : \A b \in Bound(d) : b.inst = states[b.p]
    BY <2>1, <2>2 DEF Accounted
  <2>5. \A l \in loaded : l \in Leaving \/ \E b \in Bound(l[2]) : b.inst = l[1]
    BY <2>1 DEF Accounted
  <2>6. alive = ({states[p] : p \in Plugins} \ {None}) \cup {i}
    BY <2>1, <2>2 DEF Accounted
  <2>7. \A d \in Contexts : bind'[d] = <<>> \/ d \in ToSet(attached)
    BY <1>5, <2>3
  <2>8. ASSUME NEW d \in Contexts, NEW b \in Bound(d)' PROVE b.inst = states'[b.p]
    <3>1. CASE d \notin ToSet(attached)
      <4>1. bind'[d] = <<>> /\ ToSet(<<>>) = {}
        BY <1>5, <2>3, <3>1 DEF ToSet
      <4>2. Bound(d)' = ToSet(bind'[d])
        BY DEF Bound
      <4> QED BY <4>1, <4>2
    <3>2. CASE b = [p |-> i.p, inst |-> i]
      BY <1>8, <3>2
    <3>3. CASE b \in Bound(d) /\ b.p # i.p
      <4>1. b.p \in Plugins
        BY <1>1, <3>3, BoundFacts
      <4> QED BY <1>8, <2>4, <3>3, <4>1
    <3> QED BY <1>5, <3>1, <3>2, <3>3
  <2>9. ASSUME NEW l \in loaded
        PROVE  \/ w # None /\ l[1] = w /\ l[2] \in ToSet(Reverse(ContextsWith(i.p)))
               \/ \E b \in Bound(l[2])' : b.inst = l[1]
    <3>1. l[1] \in Instances /\ l[2] \in Contexts
      BY <1>1, LoadedFacts
    <3>2. CASE l \in Leaving
      <4>1. PICK d \in ToSet(task[t].back) : l = <<i, d>>
        BY <2>2, <3>2
      <4>2. l[1] = i /\ l[2] = d /\ d \in ToSet(attached)
        <5>1. l[1] = i /\ l[2] = d
          BY <4>1
        <5>2. d \in ToSet(attached)
          BY <1>4, <4>1
        <5> QED BY <5>1, <5>2
      <4>3. [p |-> i.p, inst |-> i] \in Bound(l[2])'
        BY <1>5, <3>1, <4>2
      <4> QED BY <4>2, <4>3
    <3>3. CASE \E b \in Bound(l[2]) : b.inst = l[1]
      <4>1. PICK b \in Bound(l[2]) : b.inst = l[1]
        BY <3>3
      <4>2. bind[l[2]] # <<>> /\ b.inst # None
        BY <1>1, <3>1, <4>1, BoundFacts
      <4>3. l[2] \in ToSet(attached)
        BY <2>3, <3>1, <4>2
      <4>4. CASE b.p # i.p
        <5>1. b \in Bound(l[2])'
          BY <1>5, <3>1, <4>1, <4>3, <4>4
        <5> QED BY <4>1, <5>1
      <4>5. CASE b.p = i.p
        <5>1. l[1] = w /\ w # None
          BY <1>3, <2>4, <3>1, <4>1, <4>2, <4>5
        <5> QED BY <1>11, <3>1, <4>1, <4>3, <4>5, <5>1
      <4> QED BY <4>4, <4>5
    <3> QED BY <2>5, <3>2, <3>3
  <2>10. {states'[q] : q \in Plugins} \ {None}
           = ((({states[q] : q \in Plugins} \ {None}) \cup {i}) \ {w})
    <3>1. ASSUME NEW p \in Plugins, states'[p] # None
          PROVE  states'[p] \in ((({states[q] : q \in Plugins} \ {None}) \cup {i}) \ {w})
      <4>1. CASE p = i.p
        BY <1>2, <1>3, <1>8, <4>1
      <4>2. CASE p # i.p
        <5>1. states'[p] = states[p] /\ Numbered(states[p], p)
          BY <1>1, <1>8, <3>1, <4>2 DEF Binding
        <5>2. w # None => Numbered(w, i.p)
          BY <1>1, <1>2, <1>3 DEF Binding
        <5> QED BY <3>1, <4>2, <5>1, <5>2 DEF Numbered
      <4> QED BY <4>1, <4>2
    <3>2. ASSUME NEW p \in Plugins, states[p] # None, states[p] # w
          PROVE  states[p] \in {states'[q] : q \in Plugins} \ {None}
      <4>1. p # i.p
        BY <1>3, <3>2
      <4> QED BY <1>8, <3>2, <4>1
    <3>3. i \in {states'[q] : q \in Plugins} \ {None}
      BY <1>2, <1>3, <1>8
    <3> QED BY <3>1, <3>2, <3>3
  <2>11. CASE w = None
    <3>1. Quiet'
      BY <1>2, <2>11, PassedOn
    <3>2. alive' = {states'[p] : p \in Plugins} \ {None}
      <4>1. None \notin (({states[p] : p \in Plugins} \ {None}) \cup {i})
        BY <1>3
      <4> QED BY <1>2, <2>6, <2>10, <2>11, <4>1
    <3>3. \A l \in loaded : l[2] \in Contexts /\ \E b \in Bound(l[2])' : b.inst = l[1]
      BY <1>1, <2>9, <2>11, LoadedFacts
    <3> QED BY <1>2, <1>4, <2>7, <2>8, <3>1, <3>2, <3>3 DEF Accounted, Quiet
  <2>12. CASE w # None
    <3>1. /\ task'[t].old = w /\ task'[t].pc = "retire" /\ task'[t].left = Reverse(ContextsWith(i.p))
      BY <1>2, <2>12
    <3>2. /\ Leaving' = {<<w, d>> : d \in ToSet(task'[t].left)} /\ Besides' = {w}
          /\ \A d : ~Unbinding(d)' /\ \A j : ~Dropping(d, j)'
      BY <1>2, <3>1, HolderNext
    <3>3. alive' = ({states'[p] : p \in Plugins} \ {None}) \cup Besides'
      <4>1. w \in ({states[p] : p \in Plugins} \ {None}) \cup {i}
        BY <1>2, <1>3, <2>12
      <4> QED BY <1>2, <2>6, <2>10, <3>2, <4>1
    <3>4. ASSUME NEW l \in loaded PROVE l \in Leaving' \/ \E b \in Bound(l[2])' : b.inst = l[1]
      <4>1. l = <<l[1], l[2]>>
        BY <1>1, LoadedFacts
      <4> QED BY <2>9, <3>1, <3>2, <4>1
    <3> QED BY <1>2, <1>4, <2>7, <2>8, <3>2, <3>3, <3>4 DEF Accounted
  <2> QED BY <2>11, <2>12
<1> QED BY <1>6, <1>7, <1>9, <1>10, <1>12, <1>13 DEF Sound

(* The attached bots where p is bound.                                     *)
LEMMA ContextsWithFacts ==
  ASSUME TypeOK, NEW p \in Plugins
  PROVE  /\ ContextsWith(p) \in Seq(Contexts)
         /\ \A d : d \in ToSet(ContextsWith(p)) <=>
                     d \in ToSet(attached) /\ d \in Contexts /\ \E b \in Bound(d) : b.p = p
<1>1. attached \in Seq(Contexts)
  BY DEF TypeOK
<1> DEFINE S == {d \in Contexts : PositionOf(d, p) # {}}
<1>2. ContextsWith(p) = Kept(attached, S)
  BY DEF ContextsWith
<1>3. \A d \in Contexts : PositionOf(d, p) # {} <=> \E b \in Bound(d) : b.p = p
  BY DEF PositionOf, Bound, ToSet
<1>4. \A d : d \in S <=> d \in Contexts /\ \E b \in Bound(d) : b.p = p
  BY <1>3
<1> HIDE DEF S
<1>5. Kept(attached, S) \in Seq(Contexts) /\ ToSet(Kept(attached, S)) = ToSet(attached) \cap S
  BY <1>1, KeptFacts
<1> QED BY <1>2, <1>4, <1>5

(* The instance of a plugin leaves _states, whoever asked for it.          *)
LEMMA SoundDeactivated ==
  ASSUME PluginHostAssumption, PluginInv, TypeOK', NEW t \in Tasks, NEW p \in Plugins,
         NEW todo \in Seq(Items), todo # <<>>, Deactivated(t, p, todo),
         Head(todo).p = p, Head(todo).do \in {"replace", "drop", "sync", "force"},
         ToSet(todo) \subseteq ToSet(task[t].todo),
         Len(task[t].todo) <= 1 => todo = task[t].todo,
         lock' = t,
         (lock = None /\ task[t].pc = "wait") \/ (lock = t /\ task[t].pc \in {"next", "failed"}),
         UNCHANGED <<installed, file, born, alive, loaded, attached, bind, rt, worker,
                     breaker, ops, calls, overlap, torn>>
  PROVE  Sound'
<1>0. PICK w : w = states[p]
  OBVIOUS
<1>1. /\ TypeOK /\ Roles /\ Attached /\ Binding /\ Matching /\ (~torn => Accounted)
      /\ Working(t) /\ Changing(t) /\ Told(t) /\ task[t].todo \in Seq(Items)
      /\ task[t].op # "idle"
  BY InvFacts
<1>2. /\ \A u \in Tasks : u # t => task'[u] = task[u]
      /\ task'[t].op = task[t].op /\ task'[t].p = task[t].p /\ task'[t].prev = task[t].prev
      /\ states'[p] = None /\ \A q \in Plugins : q # p => states'[q] = states[q]
      /\ \/ w = None /\ Passed(t, todo) /\ task'[t].pc = "next" /\ task'[t].todo = Tail(todo)
         \/ /\ w # None /\ task'[t].pc = "drop" /\ task'[t].todo = todo /\ task'[t].old = w
            /\ task'[t].left = ContextsWith(p)
  BY <1>0, <1>1 DEF Deactivated, Dropped, Passed, Moved, TypeOK
<1>3. /\ task[t].op \in {"update", "reload", "uninstall"} => task[t].p = p
      /\ task[t].op \notin {"attach", "detach"}
      /\ Head(todo) \in ToSet(task[t].todo)
      /\ ToSet(task'[t].todo) \subseteq ToSet(task[t].todo)
  <2>1. Head(todo) \in ToSet(task[t].todo)
    BY HeadTail
  <2>2. task[t].todo # <<>>
    BY <2>1 DEF ToSet
  <2>3. ASSUME task[t].op \in {"update", "reload", "uninstall"} PROVE task[t].p = p
    BY <1>1, <2>2, <2>3 DEF Working
  <2>4. Head(todo).do \in ItemsOf(task[t].op)
    BY <1>1, <2>1 DEF Working
  <2>5. task[t].op \notin {"attach", "detach"}
    BY <2>4 DEF ItemsOf
  <2>6. ToSet(task'[t].todo) \subseteq ToSet(task[t].todo)
    <3>1. ToSet(Tail(todo)) \subseteq ToSet(todo)
      BY HeadTail
    <3> QED BY <1>2, <3>1
  <2> QED BY <2>1, <2>3, <2>5, <2>6
<1>4. Roles'
  <2>1. Working(t)'
    <3>1. CASE w = None
      BY <1>1, <1>2, <3>1, WorkingPassed
    <3>2. CASE w # None
      BY <1>1, <1>2, <3>2, WorkingTaken DEF Swapping
    <3> QED BY <3>1, <3>2
  <2> QED BY <1>1, <1>2, <2>1, RolesHeld
<1>5. Attached'
  <2>1. \A d \in Contexts : Attaching(d)' <=> Attaching(d)
    BY <1>2, <1>3, AttachingStep
  <2> QED BY <1>1, <2>1, AttachedSame
<1>6. Binding'
  <2>1. \A d \in Contexts : \A b \in Bound(d) : d \in ToSet(attached) => <<b.inst, d>> \in loaded'
    BY <1>1 DEF Binding
  <2>2. \A q \in Plugins : born[q] <= born'[q]
    BY <1>1 DEF TypeOK
  <2>3. \A q \in Plugins : states'[q] \in {states[q], None}
    BY <1>2
  <2> QED BY <1>1, <2>1, <2>2, <2>3, BindingSame
<1>7. Matching'
  <2>1. ASSUME NEW q \in Plugins \ overlap' PROVE Faithful(q)' /\ Alone(q)'
    <3>1. Faithful(q) /\ Alone(q) /\ q \in Plugins
      BY <1>1, MatchingParts
    <3>2. Concerned(t)' \subseteq Concerned(t)
      <4>1. Concerned(t) = {j.p : j \in ToSet(task[t].todo)} \cup {task[t].p}
        BY ConcernedFacts
      <4>2. Concerned(t)' = {j.p : j \in ToSet(task'[t].todo)} \cup {task'[t].p}
        BY DEF Concerned, ToSet
      <4> QED BY <1>2, <1>3, <4>1, <4>2
    <3>3. Updates(t, q)' <=> Updates(t, q)
      BY <1>2 DEF Updates
    <3>4. Alone(q)'
      BY <1>2, <3>1, <3>2, <3>3, AloneSame
    <3>5. CASE q = p
      <4>1. \A c : Runs(q, c)'
        BY <1>2, <3>5 DEF Runs
      <4>2. Runs(q, file[q])' /\ \A u \in Tasks : Runs(q, task[u].prev)'
        BY <4>1
      <4> QED BY <3>4, <4>2 DEF Faithful
    <3>6. CASE q # p
      <4>1. ~Updates(t, q)
        BY <1>3, <3>6 DEF Updates
      <4>2. ~Updates(t, q)'
        BY <3>3, <4>1
      <4>3. states'[q] = states[q] /\ file'[q] = file[q] /\ installed' = installed
        BY <1>2, <3>1, <3>6
      <4>4. Faithful(q)'
        BY <1>2, <3>1, <4>1, <4>2, <4>3, FaithfulSame
      <4> QED BY <3>4, <4>4
    <3> QED BY <3>5, <3>6
  <2>2. ASSUME NEW u \in Tasks PROVE Told(u)'
    <3>1. CASE u # t
      <4>1. lock # u /\ Working(u) /\ task'[u] = task[u]
        BY <1>1, <1>2, <3>1, PluginHostAssumption DEF Roles, Tasks
      <4> QED BY <1>1, <4>1, ToldOther
    <3>2. CASE u = t
      <4>1. ToSet(task[t].todo)' = ToSet(task'[t].todo)
        OBVIOUS
      <4> QED BY <1>1, <1>2, <1>3, <3>2, <4>1 DEF Told
    <3> QED BY <3>1, <3>2
  <2> QED BY <2>1, <2>2, MatchingParts
<1>8. w # None => Numbered(w, p) /\ \A q \in Plugins : q # p => states[q] # w
  <2>1. \A q \in Plugins : states[q] # None => Numbered(states[q], q)
    BY <1>1 DEF Binding
  <2> QED BY <1>0, <2>1 DEF Numbered
<1>9. \A u \in Tasks : Changing(u)'
  <2>1. Changing(t)'
    <3>1. CASE w = None
      BY <1>2, <3>1 DEF Changing
    <3>2. CASE w # None
      <4>1. /\ task'[t].pc = "drop" /\ task'[t].old = w /\ task'[t].left \in Seq(Contexts)
            /\ Head(task'[t].todo).p = p
        BY <1>1, <1>2, <3>2, ContextsWithFacts
      <4>2. w.p = p /\ \A q \in Plugins : states'[q] # w
        BY <1>2, <1>8, <3>2 DEF Numbered
      <4> QED BY <1>2, <3>2, <4>1, <4>2 DEF Changing
    <3> QED BY <3>1, <3>2
  <2> QED BY <1>1, <1>2, <2>1, ChangingStep
<1>10. ASSUME ~torn' PROVE Accounted'
  <2>1. Accounted /\ Quiet
    BY <1>1, <1>10, QuietNow
  <2>2. /\ \A d \in Contexts : bind[d] = <<>> \/ d \in ToSet(attached)
        /\ \A d \in Contexts : \A b \in Bound(d) : b.inst = states[b.p]
        /\ \A l \in loaded : \E b \in Bound(l[2]) : b.inst = l[1]
        /\ alive = {states[q] : q \in Plugins} \ {None}
    BY <1>1, <2>1, QuietFacts
  <2>3. CASE w = None
    <3>1. Quiet'
      BY <1>2, <2>3, QuietNext
    <3>2. states' = states
      <4>1. states \in [Plugins -> Instances \cup {None}]
        BY <1>1 DEF TypeOK
      <4>2. states' = [states EXCEPT ![p] = None]
        BY DEF Deactivated
      <4> QED BY <1>0, <2>3, <4>1, <4>2
    <3> QED BY <1>1, <2>1, <3>1, <3>2, AccountedQuiet
  <2>4. CASE w # None
    <3>1. /\ Leaving' = {} /\ Besides' = {w}
          /\ \A c : ~Unbinding(c)'
          /\ \A c, i : Dropping(c, i)' <=> i = w /\ c \in ToSet(task'[t].left)
      BY <1>2, <2>4, HolderNext
    <3>2. \A d \in Contexts : Bound(d)' = Bound(d)
      BY DEF Bound
    <3>3. ASSUME NEW d \in Contexts, NEW b \in Bound(d)
          PROVE  b.inst = states'[b.p] \/ Dropping(d, b.inst)'
      <4>1. b.p \in Plugins /\ bind[d] # <<>>
        BY <1>1, BoundFacts
      <4>2. CASE b.p # p
        BY <1>2, <2>2, <4>1, <4>2
      <4>3. CASE b.p = p
        <5>1. b.inst = w /\ d \in ToSet(attached)
          BY <1>0, <2>2, <4>1, <4>3
        <5>2. d \in ToSet(ContextsWith(p))
          BY <1>1, <4>3, <5>1, ContextsWithFacts
        <5> QED BY <1>2, <2>4, <3>1, <5>1, <5>2
      <4> QED BY <4>2, <4>3
    <3>4. alive' = ({states'[q] : q \in Plugins} \ {None}) \cup Besides'
      <4>1. ASSUME NEW q \in Plugins, states'[q] # None PROVE states'[q] \in alive
        BY <1>2, <2>2, <4>1
      <4>2. ASSUME NEW q \in Plugins, states[q] # None
            PROVE  states[q] \in ({states'[r] : r \in Plugins} \ {None}) \cup {w}
        BY <1>0, <1>2, <4>2
      <4>3. w \in alive
        BY <1>0, <2>2, <2>4
      <4> QED BY <2>2, <3>1, <4>1, <4>2, <4>3
    <3>5. \A l \in loaded : l[2] \in Contexts /\ \E b \in Bound(l[2]) : b.inst = l[1]
      BY <1>1, <2>2, LoadedFacts
    <3> QED BY <2>2, <3>1, <3>2, <3>3, <3>4, <3>5 DEF Accounted
  <2> QED BY <2>3, <2>4
<1> QED BY <1>4, <1>5, <1>6, <1>7, <1>9, <1>10 DEF Sound

(* A candidate is made, or its module cannot be loaded.                    *)
LEMMA SoundTaken ==
  ASSUME PluginHostAssumption, PluginInv, TypeOK', NEW t \in Tasks,
         NEW todo \in Seq(Items), todo # <<>>, NEW h \in Items, h = Head(todo), h.p \in Plugins,
         h.do \in {"replace", "sync", "force"},
         ToSet(todo) \subseteq ToSet(task[t].todo),
         Len(task[t].todo) <= 1 => todo = task[t].todo,
         Taking(t),
         \/ \E c \in Configs :
              /\ Replacing(t, h.p, c, todo)
              /\ c = IF h.do = "replace" THEN h.cfg ELSE file[h.p]
         \/ born' = born /\ Unloadable(t, todo),
         UNCHANGED <<installed, file, alive, loaded, attached, bind, rt, worker, breaker,
                     ops, calls, overlap, torn>>
  PROVE  Sound'
<1>1. /\ TypeOK /\ Roles /\ Attached /\ Binding /\ Matching /\ (~torn => Accounted)
      /\ Working(t) /\ Told(t) /\ task[t].todo \in Seq(Items)
      /\ task[t].op # "idle" /\ task[t].back \in Seq(Contexts)
  <2>1. task[t].pc # "idle"
    BY DEF Taking
  <2> QED BY <2>1, InvFacts
<1>2. /\ lock' = t /\ lock \in {t, None} /\ task[t].pc \in {"wait", "next"} /\ states' = states
      /\ \A u \in Tasks : u # t => task'[u] = task[u]
      /\ task'[t].op = task[t].op /\ task'[t].p = task[t].p /\ task'[t].prev = task[t].prev
      /\ task'[t].todo = todo /\ task'[t].back = task[t].back
      /\ \/ task'[t].pc = "init" /\ \E c \in Configs :
              /\ h.p \in installed /\ Enabled(c) /\ born' = [born EXCEPT ![h.p] = @ + 1]
              /\ task'[t].cand = InstanceOf(h.p, born[h.p] + 1, c)
              /\ InstanceOf(h.p, born[h.p] + 1, c) \in Instances
              /\ c = IF h.do = "replace" THEN h.cfg ELSE file[h.p]
         \/ task'[t].pc = "failed" /\ born' = born
  BY DEF Taking, Replacing, Unloadable, Moved
<1>3. /\ task[t].op \notin {"attach", "detach", "uninstall"}
      /\ task[t].op = "update" => task[t].pc = "wait"
      /\ task[t].back = <<>> /\ h \in ToSet(task[t].todo)
  <2>1. h \in ToSet(task[t].todo)
    BY HeadTail
  <2>2. task[t].todo # <<>>
    BY <2>1 DEF ToSet
  <2>3. h.do \in ItemsOf(task[t].op)
    BY <1>1, <2>1 DEF Working
  <2>4. task[t].op \notin {"attach", "detach", "uninstall"}
    BY <2>3 DEF ItemsOf
  <2>5. task[t].op = "update" => task[t].pc = "wait"
    BY <1>1, <1>2, <2>2 DEF Working
  <2>6. task[t].back = <<>>
    BY <1>1, <1>2 DEF Working
  <2> QED BY <2>1, <2>4, <2>5, <2>6
<1>4. Roles'
  <2>1. Working(t)'
    BY <1>1, <1>2, <1>3, WorkingTaken DEF Swapping
  <2> QED BY <1>1, <1>2, <2>1, RolesHeld
<1>5. Attached'
  <2>1. \A d \in Contexts : Attaching(d)' <=> Attaching(d)
    BY <1>2, <1>3, AttachingStep
  <2> QED BY <1>1, <2>1, AttachedSame
<1>6. \A q \in Plugins : born[q] <= born'[q]
  <2>1. born \in [Plugins -> Nat]
    BY <1>1 DEF TypeOK
  <2>2. born' = born \/ born' = [born EXCEPT ![h.p] = @ + 1]
    BY <1>2
  <2> QED BY <2>1, <2>2
<1>7. Binding'
  <2>1. \A d \in Contexts : \A b \in Bound(d) : d \in ToSet(attached) => <<b.inst, d>> \in loaded'
    BY <1>1 DEF Binding
  <2>2. \A q \in Plugins : states'[q] \in {states[q], None}
    BY <1>2
  <2> QED BY <1>1, <1>6, <2>1, <2>2, BindingSame
<1>8. Matching'
  <2>1. ASSUME NEW q \in Plugins \ overlap'
        PROVE  /\ Updates(t, q)' => Updates(t, q) /\ task'[t].prev = task[t].prev
               /\ Updates(t, q) /\ Earlier(t) <=> Updates(t, q)' /\ Earlier(t)'
               /\ q \in Concerned(t)' => q \in Concerned(t) \/ \A u \in Tasks : ~Updates(u, q)
    <3>1. Updates(t, q)' <=> Updates(t, q)
      BY <1>2 DEF Updates
    <3>2. Updates(t, q) => Earlier(t) /\ Earlier(t)'
      BY <1>2, <1>3 DEF Updates, Earlier
    <3>3. Concerned(t)' \subseteq Concerned(t)
      <4>1. Concerned(t) = {j.p : j \in ToSet(task[t].todo)} \cup {task[t].p}
        BY ConcernedFacts
      <4>2. Concerned(t)' = {j.p : j \in ToSet(task'[t].todo)} \cup {task'[t].p}
        BY DEF Concerned, ToSet
      <4> QED BY <1>2, <4>1, <4>2
    <3> QED BY <1>2, <3>1, <3>2, <3>3
  <2>2. Told(t)'
    <3>1. ToSet(task[t].todo)' = ToSet(todo)
      BY <1>2
    <3>2. \A i \in ToSet(todo) : i.do = "replace" /\ i.p \notin overlap => i.cfg = file[i.p]
      BY <1>1 DEF Told
    <3>3. ASSUME task'[t].pc \in {"init", "load", "undo"}, task'[t].cand.p \notin overlap
          PROVE  /\ task'[t].cand.p \in installed /\ Enabled(task'[t].cand.cfg)
                 /\ task'[t].cand.cfg = file[task'[t].cand.p]
      <4>1. PICK c \in Configs :
              /\ h.p \in installed /\ Enabled(c)
              /\ task'[t].cand = InstanceOf(h.p, born[h.p] + 1, c)
              /\ c = IF h.do = "replace" THEN h.cfg ELSE file[h.p]
        BY <1>2, <3>3
      <4>2. task'[t].cand.p = h.p /\ task'[t].cand.cfg = c
        BY <4>1 DEF InstanceOf
      <4>3. h.do = "replace" => h.cfg = file[h.p]
        BY <1>1, <1>3, <3>3, <4>2 DEF Told
      <4> QED BY <4>1, <4>2, <4>3
    <3>4. task[t].op = "update" => task[t].prev \in Configs
      BY <1>1 DEF Told
    <3> QED BY <1>2, <1>3, <3>1, <3>2, <3>3, <3>4 DEF Told
  <2> QED BY <1>1, <1>2, <2>1, <2>2, MatchingStep
<1>9. \A u \in Tasks : Changing(u)'
  <2>1. Changing(t)'
    <3>1. CASE task'[t].pc = "failed"
      BY <3>1 DEF Changing
    <3>2. CASE task'[t].pc = "init"
      <4>1. PICK c \in Configs : /\ born' = [born EXCEPT ![h.p] = @ + 1]
                                 /\ task'[t].cand = InstanceOf(h.p, born[h.p] + 1, c)
                                 /\ InstanceOf(h.p, born[h.p] + 1, c) \in Instances
        BY <1>2, <3>2
      <4>2. /\ task'[t].cand.p = h.p /\ task'[t].cand.n = born[h.p] + 1
            /\ born'[h.p] = born[h.p] + 1 /\ born[h.p] \in Nat /\ task'[t].cand \in Instances
        BY <1>1, <4>1 DEF InstanceOf, TypeOK
      <4>3. \A q \in Plugins : states[q] # task'[t].cand
        BY <1>1, <4>2, PluginHostAssumption DEF Binding, Numbered, Instances
      <4>4. ASSUME NEW d \in Contexts, NEW b \in Bound(d) PROVE b.inst # task'[t].cand
        <5>1. b.inst.p = b.p /\ b.inst.n <= born[b.p] /\ b.inst.n \in Nat
          BY <1>1, BoundFacts DEF Numbered
        <5> QED BY <4>2, <5>1
      <4>5. Unused(task[t].cand)'
        <5>1. \A d \in Contexts : Bound(d)' = Bound(d)
          BY DEF Bound
        <5> QED BY <1>2, <4>3, <4>4, <5>1 DEF Unused
      <4>6. task'[t].cand # None
        BY <4>2, PluginHostAssumption DEF Instances
      <4> QED BY <1>2, <3>2, <4>2, <4>5, <4>6 DEF Changing
    <3> QED BY <1>2, <3>1, <3>2
  <2> QED BY <1>1, <1>2, <2>1, ChangingStep
<1>10. ASSUME ~torn' PROVE Accounted'
  <2>1. Accounted /\ Quiet /\ Quiet'
    BY <1>1, <1>2, <1>10, QuietNow, QuietNext DEF Taking
  <2> QED BY <1>1, <1>2, <2>1, AccountedQuiet
<1> QED BY <1>4, <1>5, <1>7, <1>8, <1>9, <1>10 DEF Sound

(* Taking an item keeps the invariant, whatever it asks for.                *)
LEMMA SoundTakeItem ==
  ASSUME PluginHostAssumption, PluginInv, TypeOK', NEW t \in Tasks, TakeItem(t)
  PROVE  Sound'
<1>0. PICK todo, h : todo = Pending(t) /\ h = Head(Pending(t))
  OBVIOUS
<1>1. TypeOK /\ Working(t)
  BY InvFacts
<1>2. /\ Taking(t) /\ todo # <<>> /\ todo \in Seq(Items) /\ h \in Items /\ h = Head(todo)
      /\ h.p \in Plugins /\ h.do \in {"replace", "drop", "sync", "force"}
      /\ \/ \E c \in Configs :
              /\ Replacing(t, h.p, c, todo)
              /\ c = IF h.do = "replace" THEN h.cfg ELSE file[h.p]
              /\ h.do # "drop"
         \/ born' = born /\ Unloadable(t, todo) /\ h.do # "drop"
         \/ born' = born /\ Deactivated(t, h.p, todo)
      /\ UNCHANGED <<installed, file, alive, loaded, attached, bind, rt, worker, breaker,
                     ops, calls, overlap, torn>>
  BY <1>0, <1>1, TakeItemFacts
<1>3. /\ ToSet(todo) \subseteq ToSet(task[t].todo)
      /\ Len(task[t].todo) <= 1 => todo = task[t].todo
  BY <1>0, <1>1, <1>2, PendingFacts
<1>4. CASE born' = born /\ Deactivated(t, h.p, todo)
  BY <1>2, <1>3, <1>4, SoundDeactivated DEF Taking
<1>5. CASE ~(born' = born /\ Deactivated(t, h.p, todo))
  BY <1>2, <1>3, <1>5, SoundTaken
<1> QED BY <1>2, <1>4, <1>5

(* Whether a bot is being attached depends on its own task alone.           *)
LEMMA AttachingSame ==
  ASSUME NEW t \in Tasks, \A u \in Tasks : u # t => task'[u] = task[u]
  PROVE  \A d \in Contexts : d # t => (Attaching(d)' <=> Attaching(d))
BY DEF Attaching, Tasks

(* A bot is attached: what was not attached had no binding.                *)
LEMMA SoundStartAttach ==
  ASSUME PluginHostAssumption, PluginInv, TypeOK', NEW c \in Contexts, StartAttach(c)
  PROVE  Sound'
<1>0. c \in Tasks
  BY DEF Tasks
<1>1. /\ TypeOK /\ Roles /\ Attached /\ Binding /\ Matching /\ (~torn => Accounted)
      /\ Working(c) /\ Told(c) /\ task[c].todo \in Seq(Items)
  BY <1>0, InvFacts
<1>2. PICK s \in Seq(Plugins) :
        /\ IsInjective(s) /\ \A p \in ToSet(s) : states[p] # None
        /\ Moved(c, "attach", "bind", task[c].todo, task[c].p, task[c].prev,
                 task[c].cand, task[c].old, s, task[c].back)
  BY <1>1, StartAttachFacts
<1>3. /\ Taking(c) /\ task[c].op = "attach" /\ task[c].todo # <<>>
      /\ attached' = Append(attached, c)
      /\ UNCHANGED <<installed, file, states, born, alive, loaded, bind, rt, worker,
                     breaker, ops, calls, overlap, torn>>
  BY <1>1, StartAttachFacts
<1>4. /\ \A u \in Tasks : u # c => task'[u] = task[u]
      /\ task'[c].op = task[c].op /\ task'[c].pc = "bind" /\ task'[c].todo = task[c].todo
      /\ task'[c].p = task[c].p /\ task'[c].prev = task[c].prev /\ task'[c].left = s
      /\ lock' = c /\ lock \in {c, None}
  BY <1>2, <1>3 DEF Moved, Taking
<1>5. /\ task[c].pc = "wait" /\ lock = None /\ Head(task[c].todo).do = "attach"
      /\ rt[c] = "starting" /\ ~Attaching(c) /\ bind[c] = <<>> /\ c \notin ToSet(attached)
  <2>1. task[c].pc = "wait" /\ lock = None
    BY <1>1, <1>3 DEF Working, Taking
  <2>2. Head(task[c].todo) \in ToSet(task[c].todo)
    BY <1>1, <1>3, HeadTail
  <2>3. Head(task[c].todo).do \in ItemsOf("attach")
    BY <1>1, <1>3, <2>2 DEF Working
  <2>4. Head(task[c].todo).do = "attach"
    BY <2>3 DEF ItemsOf
  <2>5. task[c].op \in RoleOf(c)
    BY <1>1 DEF Roles
  <2>6. rt[c] = "starting"
    BY <1>3, <2>5 DEF RoleOf
  <2>7. ~Attaching(c)
    BY <2>1 DEF Attaching
  <2>8. bind[c] = <<>> /\ c \notin ToSet(attached)
    BY <1>1, <2>6, <2>7 DEF Attached
  <2> QED BY <2>1, <2>4, <2>6, <2>7, <2>8
<1>6. ToSet(attached)' = ToSet(attached) \cup {c} /\ Bound(c) = {}
  <2>1. attached \in Seq(Contexts)
    BY <1>1 DEF TypeOK
  <2>2. ToSet(attached') = ToSet(attached) \cup {c}
    BY <1>3, <2>1, Pushed
  <2>3. ToSet(<<>>) = {}
    BY DEF ToSet
  <2> QED BY <1>5, <2>2, <2>3 DEF Bound, ToSet
<1>7. Roles'
  <2>1. Working(c)'
    BY <1>0, <1>1, <1>3, <1>4, <1>5, WorkingTaken DEF Swapping
  <2> QED BY <1>0, <1>1, <1>3, <1>4, <2>1, RolesHeld
<1>8. Attached'
  <2>1. \A d \in Contexts : d # c => (Attaching(d)' <=> Attaching(d))
    BY <1>0, <1>4, AttachingSame
  <2>2. Attaching(c)'
    BY <1>3, <1>4 DEF Attaching
  <2>3. ASSUME NEW d \in Contexts, rt'[d] = "up" \/ Attaching(d)' PROVE d \in ToSet(attached)'
    <3>1. CASE d = c
      BY <1>6, <3>1
    <3>2. CASE d # c
      BY <1>1, <1>3, <1>6, <2>1, <2>3, <3>2 DEF Attached
    <3> QED BY <3>1, <3>2
  <2>4. ASSUME NEW d \in Contexts, rt'[d] = "fresh" \/ (rt'[d] = "starting" /\ ~Attaching(d)')
        PROVE  bind'[d] = <<>> /\ d \notin ToSet(attached)'
    <3>1. d # c
      BY <1>3, <1>5, <2>2, <2>4
    <3> QED BY <1>1, <1>3, <1>6, <2>1, <2>4, <3>1 DEF Attached
  <2>5. \A w \in Workers : worker'[w].inst # None =>
          worker'[w].c \in Contexts /\ rt'[worker'[w].c] = "up"
    BY <1>1, <1>3 DEF Attached
  <2> QED BY <2>3, <2>4, <2>5 DEF Attached
<1>9. Binding'
  <2>1. \A d \in Contexts : \A b \in Bound(d) : d \in ToSet(attached)' => <<b.inst, d>> \in loaded
    BY <1>1, <1>6 DEF Binding
  <2>2. \A d \in Contexts : Bound(d)' = Bound(d)
    BY <1>3 DEF Bound
  <2> QED BY <1>1, <1>3, <2>1, <2>2 DEF Binding, Numbered, OnePerPlugin
<1>10. Matching'
  <2>1. Earlier(c) => task[c].op # "update"
    BY <1>3
  <2>2. ~(\E q \in Plugins : Updates(c, q)) /\ ~(\E q \in Plugins : Updates(c, q)')
    BY <1>3, <1>4 DEF Updates
  <2>3. Concerned(c)' = Concerned(c)
    BY <1>4 DEF Concerned
  <2>4. Told(c)'
    BY <1>1, <1>3, <1>4 DEF Told
  <2> QED BY <1>0, <1>1, <1>3, <1>4, <2>2, <2>3, <2>4, MatchingStep
<1>11. \A u \in Tasks : Changing(u)'
  <2>1. Changing(c)'
    <3>1. \A p \in ToSet(s) : states[p] # None /\ \A b \in Bound(c) : b.p # p
      BY <1>2, <1>6
    <3>2. Bound(c)' = Bound(c)
      BY <1>3 DEF Bound
    <3>3. ToSet(task'[c].left) = ToSet(s)
      BY <1>4
    <3> QED BY <1>2, <1>3, <1>4, <3>1, <3>2, <3>3 DEF Changing
  <2> QED BY <1>0, <1>1, <1>4, <2>1, ChangingStep
<1>12. ASSUME ~torn' PROVE Accounted'
  <2>1. Accounted /\ Quiet /\ Quiet'
    BY <1>0, <1>1, <1>3, <1>4, <1>5, <1>12, QuietNow, QuietNext
  <2> QED BY <1>1, <1>3, <1>6, <2>1, AccountedQuiet
<1> QED BY <1>7, <1>8, <1>9, <1>10, <1>11, <1>12 DEF Sound

(* The tail of a sequence without repetition does not hold its head.        *)
LEMMA TailInjective ==
  ASSUME NEW T, NEW s \in Seq(T), s # <<>>, IsInjective(s)
  PROVE  IsInjective(Tail(s)) /\ Head(s) \notin ToSet(Tail(s))
<1> DEFINE r == Tail(s)
<1>1. /\ DOMAIN s = 1 .. Len(s) /\ Len(s) \in Nat /\ Head(s) = s[1] /\ 1 \in DOMAIN s
      /\ DOMAIN r = 1 .. (Len(s) - 1)
      /\ \A k \in DOMAIN r : k \in Int /\ r[k] = s[k + 1] /\ k + 1 \in DOMAIN s /\ k + 1 # 1
  OBVIOUS
<1>2. \A j, k \in DOMAIN s : s[j] = s[k] => j = k
  BY DEF IsInjective
<1>3. ToSet(r) = {r[k] : k \in DOMAIN r}
  BY DEF ToSet
<1> HIDE DEF r
<1>4. ASSUME NEW j \in DOMAIN r, NEW k \in DOMAIN r, r[j] = r[k] PROVE j = k
  <2>1. j + 1 = k + 1
    BY <1>1, <1>2, <1>4
  <2> QED BY <1>1, <2>1
<1>5. IsInjective(r)
  BY <1>4 DEF IsInjective
<1>6. Head(s) \notin ToSet(r)
  BY <1>1, <1>2, <1>3
<1> QED BY <1>5, <1>6 DEF r

(* A bot gets its bindings one after the other, while it is attached.      *)
LEMMA SoundBindNext ==
  ASSUME PluginHostAssumption, PluginInv, TypeOK', NEW c \in Contexts, NEW ok \in BOOLEAN,
         BindNext(c, ok)
  PROVE  Sound'
<1>0. c \in Tasks
  BY DEF Tasks
<1>a. PICK p, i : p = Head(task[c].left) /\ i = states[Head(task[c].left)]
  OBVIOUS
<1>1. /\ TypeOK /\ Roles /\ Attached /\ Binding /\ Matching /\ (~torn => Accounted)
      /\ Working(c) /\ Changing(c) /\ Told(c) /\ task[c].todo \in Seq(Items)
  BY <1>0, InvFacts
<1>2. /\ lock = c /\ lock' = c /\ task[c].pc = "bind" /\ task[c].todo # <<>>
      /\ UNCHANGED <<installed, file, states, born, alive, attached, rt, worker,
                     breaker, ops, calls, overlap, torn>>
      /\ \/ task[c].left = <<>> /\ loaded' = loaded /\ bind' = bind /\ Passed(c, task[c].todo)
         \/ /\ task[c].left # <<>> /\ p \in Plugins /\ i \in Instances
            /\ \A u \in Tasks : u # c => task'[u] = task[u]
            /\ task'[c].op = task[c].op /\ task'[c].todo = task[c].todo /\ task'[c].p = task[c].p
            /\ task'[c].prev = task[c].prev /\ task'[c].pc = "bind"
            /\ task'[c].left = Tail(task[c].left)
            /\ \/ loaded' = loaded /\ bind' = bind
               \/ /\ loaded' = loaded \cup {<<i, c>>}
                  /\ bind' = [bind EXCEPT ![c] = Append(@, [p |-> p, inst |-> i])]
  BY <1>a, <1>1, BindFacts DEF Held, Moved
<1>3. /\ task[c].left \in Seq(Plugins) /\ IsInjective(task[c].left)
      /\ \A q \in ToSet(task[c].left) : states[q] # None /\ \A b \in Bound(c) : b.p # q
  BY <1>1, <1>2 DEF Changing
<1>4. task[c].op = "attach" /\ Attaching(c) /\ c \in ToSet(attached)
  <2>1. Head(task[c].todo) \in ToSet(task[c].todo)
    BY <1>1, <1>2, HeadTail
  <2>2. Head(task[c].todo).do = "attach" /\ Head(task[c].todo).do \in ItemsOf(task[c].op)
    BY <1>1, <1>2, <2>1 DEF Working
  <2>3. task[c].op = "attach"
    BY <2>2 DEF ItemsOf
  <2>4. Attaching(c)
    BY <1>2, <2>3 DEF Attaching
  <2> QED BY <1>1, <2>3, <2>4 DEF Attached
<1>5. CASE task[c].left = <<>>
  <2>1. loaded' = loaded /\ bind' = bind /\ Passed(c, task[c].todo)
    BY <1>2, <1>5
  <2>2. /\ Roles' /\ Changing(c)' /\ Quiet'
        /\ \A u \in Tasks : u # c => task'[u] = task[u]
        /\ task'[c].op = task[c].op /\ task'[c].p = task[c].p /\ task'[c].prev = task[c].prev
        /\ task'[c].pc = "next" /\ ToSet(task'[c].todo) \subseteq ToSet(task[c].todo)
        /\ \A d \in Contexts : Attaching(d)' <=> Attaching(d)
    BY <1>0, <1>2, <2>1, PassedOn
  <2>3. Attached'
    BY <1>1, <1>2, <2>1, <2>2, AttachedSame
  <2>4. Matching'
    BY <1>0, <1>1, <1>2, <1>4, <2>2, MatchingHeld DEF Earlier
  <2>5. \A u \in Tasks : Changing(u)'
    BY <1>0, <1>1, <1>2, <2>2, ChangingStep
  <2>6. Binding'
    BY <1>1, <1>2, <2>1 DEF Binding, Numbered, OnePerPlugin, Bound
  <2>7. ASSUME ~torn' PROVE Accounted'
    <3>1. Accounted /\ Quiet
      BY <1>0, <1>1, <1>2, <2>7, QuietNow
    <3> QED BY <1>1, <1>2, <2>1, <2>2, <3>1, AccountedQuiet
  <2> QED BY <2>2, <2>3, <2>4, <2>5, <2>6, <2>7 DEF Sound
<1>6. CASE task[c].left # <<>>
  <2>1. /\ p \in Plugins /\ i \in Instances /\ i = states[p] /\ i # None
        /\ \A u \in Tasks : u # c => task'[u] = task[u]
        /\ task'[c].op = task[c].op /\ task'[c].todo = task[c].todo /\ task'[c].p = task[c].p
        /\ task'[c].prev = task[c].prev /\ task'[c].pc = "bind"
        /\ task'[c].left = Tail(task[c].left)
        /\ \/ loaded' = loaded /\ bind' = bind
           \/ /\ loaded' = loaded \cup {<<i, c>>}
              /\ bind' = [bind EXCEPT ![c] = Append(@, [p |-> p, inst |-> i])]
    BY <1>a, <1>2, <1>6, PluginHostAssumption DEF Instances
  <2>2. /\ p \in ToSet(task[c].left) /\ p \notin ToSet(Tail(task[c].left))
        /\ ToSet(Tail(task[c].left)) \subseteq ToSet(task[c].left)
        /\ Tail(task[c].left) \in Seq(Plugins) /\ IsInjective(Tail(task[c].left))
        /\ \A b \in Bound(c) : b.p # p
    BY <1>a, <1>3, <1>6, HeadTail, TailInjective
  <2>3. i.p = p /\ Numbered(i, p)
    BY <1>1, <2>1 DEF Binding, Numbered
  <2>4. /\ \A d \in Contexts : d # c => bind'[d] = bind[d] /\ Bound(d)' = Bound(d)
        /\ \/ loaded' = loaded /\ bind' = bind /\ Bound(c)' = Bound(c) /\ OnePerPlugin(c)'
           \/ /\ loaded' = loaded \cup {<<i, c>>} /\ bind'[c] = Append(bind[c], [p |-> p, inst |-> i])
              /\ Bound(c)' = Bound(c) \cup {[p |-> p, inst |-> i]} /\ OnePerPlugin(c)'
    <3>1. bind \in [Contexts -> Seq(Bindings)]
      BY <1>1 DEF TypeOK
    <3>2. CASE loaded' = loaded /\ bind' = bind
      BY <1>1, <3>2 DEF Bound, Binding, OnePerPlugin
    <3>3. CASE /\ loaded' = loaded \cup {<<i, c>>}
               /\ bind' = [bind EXCEPT ![c] = Append(@, [p |-> p, inst |-> i])]
      <4>1. /\ \A d \in Contexts : d # c => bind'[d] = bind[d]
            /\ bind'[c] = Append(bind[c], [p |-> p, inst |-> i])
        BY <3>1, <3>3
      <4>2. \A d \in Contexts : d # c => Bound(d)' = Bound(d)
        BY <4>1 DEF Bound
      <4>3. PositionOf(c, i.p) = {}
        BY <2>2, <2>3 DEF PositionOf, Bound, ToSet
      <4>4. bind'[c] = SwappedIn(i, c)
        BY <1>4, <2>3, <4>1, <4>3 DEF SwappedIn
      <4>5. Bound(c)' = {b \in Bound(c) : b.p # i.p} \cup {[p |-> i.p, inst |-> i]} /\ OnePerPlugin(c)'
        BY <1>1, <1>4, <2>1, <2>3, <4>4, SwappedFacts
      <4>6. {b \in Bound(c) : b.p # i.p} = Bound(c)
        BY <2>2, <2>3
      <4> QED BY <2>3, <3>3, <4>1, <4>2, <4>5, <4>6
    <3> QED BY <2>1, <3>2, <3>3
  <2>5. Roles'
    <3>1. Working(c)'
      BY <1>0, <1>1, <1>2, <2>1, WorkingOn
    <3> QED BY <1>0, <1>1, <1>2, <2>1, <3>1, RolesHeld
  <2>6. Attached'
    <3>1. \A d \in Contexts : Attaching(d)' <=> Attaching(d)
      BY <1>0, <1>2, <2>1, AttachingStep
    <3>2. \A d \in Contexts : bind[d] = <<>> /\ d \notin ToSet(attached) => bind'[d] = <<>>
      BY <1>4, <2>4
    <3> QED BY <1>1, <1>2, <3>1, <3>2, AttachedSame
  <2>7. Binding'
    <3>1. ToSet(attached)' = ToSet(attached) /\ \A q \in Plugins : states'[q] # None => Numbered(states[q], q)'
      BY <1>1, <1>2 DEF Binding, Numbered
    <3>2. ASSUME NEW d \in Contexts
          PROVE  /\ OnePerPlugin(d)'
                 /\ \A b \in Bound(d)' : /\ Numbered(b.inst, b.p)
                                         /\ d \in ToSet(attached) => <<b.inst, d>> \in loaded'
      <4>1. /\ OnePerPlugin(d)
            /\ \A b \in Bound(d) : /\ Numbered(b.inst, b.p)
                                   /\ d \in ToSet(attached) => <<b.inst, d>> \in loaded
        BY <1>1 DEF Binding
      <4>2. loaded \subseteq loaded'
        BY <2>1
      <4>3. CASE d # c
        BY <2>4, <4>1, <4>2, <4>3 DEF OnePerPlugin
      <4>4. CASE d = c
        BY <2>3, <2>4, <4>1, <4>2, <4>4
      <4> QED BY <4>3, <4>4
    <3>3. \A j, q : Numbered(j, q) => Numbered(j, q)'
      BY <1>2 DEF Numbered
    <3> QED BY <3>1, <3>2, <3>3 DEF Binding
  <2>8. Matching'
    BY <1>0, <1>1, <1>2, <1>4, <2>1, MatchingHeld DEF Earlier
  <2>9. \A u \in Tasks : Changing(u)'
    <3>1. Changing(c)'
      <4>1. \A q \in ToSet(task'[c].left) : states'[q] # None /\ \A b \in Bound(c)' : b.p # q
        BY <1>2, <1>3, <2>1, <2>2, <2>4
      <4> QED BY <2>1, <2>2, <4>1 DEF Changing
    <3> QED BY <1>0, <1>1, <1>2, <2>1, <3>1, ChangingStep
  <2>10. ASSUME ~torn' PROVE Accounted'
    <3>1. Accounted /\ Quiet /\ Quiet'
      BY <1>0, <1>1, <1>2, <2>1, <2>10, QuietNow, QuietNext
    <3>2. /\ \A d \in Contexts : bind[d] = <<>> \/ d \in ToSet(attached)
          /\ \A d \in Contexts : \A b \in Bound(d) : b.inst = states[b.p]
          /\ \A l \in loaded : \E b \in Bound(l[2]) : b.inst = l[1]
          /\ alive = {states[q] : q \in Plugins} \ {None}
      BY <1>1, <3>1, QuietFacts
    <3>3. \A d \in Contexts : bind'[d] = <<>> \/ d \in ToSet(attached)
      BY <1>4, <2>4, <3>2
    <3>4. \A d \in Contexts : \A b \in Bound(d)' : b.inst = states[b.p]
      BY <2>1, <2>4, <3>2
    <3>5. ASSUME NEW l \in loaded' PROVE l[2] \in Contexts /\ \E b \in Bound(l[2])' : b.inst = l[1]
      <4>1. CASE l \in loaded
        <5>1. l[2] \in Contexts
          BY <1>1, <4>1, LoadedFacts
        <5>2. Bound(l[2]) \subseteq Bound(l[2])'
          BY <2>4, <5>1
        <5> QED BY <3>2, <4>1, <5>1, <5>2
      <4>2. CASE l \notin loaded
        <5>1. l = <<i, c>> /\ [p |-> p, inst |-> i] \in Bound(c)'
          BY <2>4, <4>2
        <5> QED BY <5>1
      <4> QED BY <4>1, <4>2
    <3> QED BY <1>2, <3>1, <3>2, <3>3, <3>4, <3>5 DEF Accounted, Quiet
  <2> QED BY <2>5, <2>6, <2>7, <2>8, <2>9, <2>10 DEF Sound
<1> QED BY <1>5, <1>6

(* The task that detaches a bot belongs to a bot that stopped, or to the    *)
(* shutdown when all have.                                                  *)
LEMMA DetachFacts ==
  ASSUME PluginHostAssumption, PluginInv, NEW t \in Tasks, task[t].todo # <<>>,
         Head(task[t].todo).do = "detach", NEW c \in Contexts, c = Head(task[t].todo).p
  PROVE  /\ task[t].op \in {"detach", "shutdown"}
         /\ rt[c] \notin {"fresh", "starting", "up"} /\ ~Attaching(c)
<1>1. Roles /\ Working(t) /\ task[t].todo \in Seq(Items)
  BY InvFacts
<1>2. Head(task[t].todo) \in ToSet(task[t].todo)
  BY <1>1, HeadTail
<1>3. Head(task[t].todo).do \in ItemsOf(task[t].op) /\ rt[c] \in {"stopping", "gone"}
  BY <1>1, <1>2 DEF Working
<1>4. task[t].op \in {"detach", "shutdown"}
  <2>1. TypeOK
    BY InvFacts
  <2>2. task[t].op \in {"idle", "update", "reload", "uninstall", "reconcile", "shutdown",
                        "prepare", "attach", "detach"}
    BY <2>1, TaskTypes
  <2> QED BY <1>3, <2>2 DEF ItemsOf
<1>5. task[c].op \in RoleOf(c)
  BY <1>1 DEF Roles
<1>6. ~Attaching(c)
  BY <1>3, <1>5 DEF RoleOf, Attaching
<1> QED BY <1>3, <1>4, <1>6

(* Detaching keeps the invariant: the bindings left are the pairs still     *)
(* loaded.                                                                  *)
LEMMA SoundStartDetach ==
  ASSUME PluginHostAssumption, PluginInv, TypeOK', NEW t \in Tasks, StartDetach(t)
  PROVE  Sound'
<1>0. PICK c : c = Head(task[t].todo).p
  OBVIOUS
<1>1. /\ TypeOK /\ Roles /\ Attached /\ Binding /\ Matching /\ (~torn => Accounted)
      /\ Working(t) /\ Told(t) /\ task[t].todo \in Seq(Items)
  BY InvFacts
<1>2. /\ Taking(t) /\ task[t].todo # <<>> /\ Head(task[t].todo).do = "detach"
      /\ Head(task[t].todo) \in ToSet(task[t].todo) /\ c \in Contexts
      /\ attached' = Kept(attached, Contexts \ {c})
      /\ Reverse(bind[c]) \in Seq(Bindings)
      /\ Moved(t, task[t].op, "unbind", task[t].todo, task[t].p, task[t].prev,
               task[t].cand, task[t].old, Reverse(bind[c]), task[t].back)
      /\ UNCHANGED <<installed, file, states, born, alive, loaded, bind, rt, worker,
                     breaker, ops, calls, overlap, torn>>
  BY <1>0, <1>1, StartDetachFacts
<1>3. /\ \A u \in Tasks : u # t => task'[u] = task[u]
      /\ task'[t].op = task[t].op /\ task'[t].pc = "unbind" /\ task'[t].todo = task[t].todo
      /\ task'[t].p = task[t].p /\ task'[t].prev = task[t].prev /\ task'[t].left = Reverse(bind[c])
      /\ lock' = t /\ lock \in {t, None}
  BY <1>2 DEF Moved, Taking
<1>4. /\ task[t].op \in {"detach", "shutdown"}
      /\ rt[c] \notin {"fresh", "starting", "up"} /\ ~Attaching(c)
  BY <1>0, <1>2, DetachFacts
<1>5. /\ ToSet(attached)' = ToSet(attached) \ {c}
      /\ ToSet(Reverse(bind[c])) = Bound(c) /\ \A d \in Contexts : Bound(d)' = Bound(d)
  <2>1. attached \in Seq(Contexts) /\ bind[c] \in Seq(Bindings)
    BY <1>1, <1>2 DEF TypeOK
  <2>2. ToSet(attached) \subseteq Contexts
    BY <2>1, SeqFacts
  <2>3. ToSet(attached') = ToSet(attached) \cap (Contexts \ {c})
    BY <1>2, <2>1, KeptFacts
  <2>4. ToSet(Reverse(bind[c])) = Bound(c)
    BY <2>1, SeqFacts DEF Bound
  <2>5. \A d \in Contexts : Bound(d)' = Bound(d)
    BY <1>2 DEF Bound
  <2>6. ToSet(attached)' = ToSet(attached')
    OBVIOUS
  <2> QED BY <2>2, <2>3, <2>4, <2>5, <2>6
<1>6. Roles'
  <2>1. task[t].pc = "idle" => task[t].op = "idle"
    BY <1>1 DEF Working
  <2>2. Working(t)'
    BY <1>1, <1>2, <1>3, <1>4, WorkingTaken DEF Swapping
  <2> QED BY <1>1, <1>2, <1>3, <2>2, RolesHeld
<1>7. Attached'
  <2>1. \A d \in Contexts : Attaching(d)' <=> Attaching(d)
    BY <1>3, <1>4, AttachingStep
  <2> QED BY <1>1, <1>2, <1>4, <1>5, <2>1 DEF Attached
<1>8. Binding'
  <2>1. \A d \in Contexts : \A b \in Bound(d) : d \in ToSet(attached) => <<b.inst, d>> \in loaded'
    BY <1>1, <1>2 DEF Binding
  <2>2. \A q \in Plugins : born[q] <= born'[q] /\ states'[q] \in {states[q], None}
    BY <1>1, <1>2 DEF TypeOK
  <2>3. ToSet(attached') \subseteq ToSet(attached)
    BY <1>5
  <2> QED BY <1>1, <1>2, <2>1, <2>2, <2>3, BindingSame
<1>9. Matching'
  <2>1. ~(\E q \in Plugins : Updates(t, q)) /\ ~(\E q \in Plugins : Updates(t, q)')
    BY <1>3, <1>4 DEF Updates
  <2>2. Concerned(t)' = Concerned(t)
    BY <1>3 DEF Concerned
  <2>3. Told(t)'
    BY <1>1, <1>2, <1>3, <1>4 DEF Told
  <2> QED BY <1>1, <1>2, <1>3, <2>1, <2>2, <2>3, MatchingStep
<1>10. \A u \in Tasks : Changing(u)'
  <2>1. Changing(t)'
    BY <1>0, <1>2, <1>3, <1>5 DEF Changing
  <2> QED BY <1>1, <1>3, <2>1, ChangingStep
<1>11. ASSUME ~torn' PROVE Accounted'
  <2>1. Accounted /\ Quiet
    BY <1>1, <1>2, <1>11, QuietNow DEF Taking
  <2>2. /\ \A d \in Contexts : bind[d] = <<>> \/ d \in ToSet(attached)
        /\ \A d \in Contexts : \A b \in Bound(d) : b.inst = states[b.p]
        /\ \A l \in loaded : \E b \in Bound(l[2]) : b.inst = l[1]
        /\ alive = {states[q] : q \in Plugins} \ {None}
    BY <1>1, <2>1, QuietFacts
  <2>3. /\ Leaving' = {<<b.inst, c>> : b \in Bound(c)} /\ Besides' = {}
        /\ \A d : Unbinding(d)' <=> d = c
        /\ \A d, i : ~Dropping(d, i)'
    <3>1. /\ Leaving' = {<<b.inst, c>> : b \in ToSet(task'[t].left)} /\ Besides' = {}
          /\ \A d : Unbinding(d)' <=> c = d
          /\ \A d, i : ~Dropping(d, i)'
      BY <1>0, <1>3, HolderNext
    <3> QED BY <1>3, <1>5, <3>1
  <2>4. ASSUME NEW l \in loaded
        PROVE  l \in Leaving' \/ (~Unbinding(l[2])' /\ \E b \in Bound(l[2])' : b.inst = l[1])
    <3>1. l[2] \in Contexts /\ l = <<l[1], l[2]>>
      BY <1>1, LoadedFacts
    <3>2. PICK b \in Bound(l[2]) : b.inst = l[1]
      BY <2>2
    <3>3. CASE l[2] = c
      BY <2>3, <3>1, <3>2, <3>3
    <3>4. CASE l[2] # c
      BY <1>5, <2>3, <3>1, <3>2, <3>4
    <3> QED BY <3>3, <3>4
  <2>5. \A d \in Contexts : bind'[d] = <<>> \/ d \in ToSet(attached)' \/ Unbinding(d)'
    BY <1>2, <1>5, <2>2, <2>3
  <2>6. \A d \in Contexts : \A b \in Bound(d)' : b.inst = states'[b.p]
    BY <1>2, <1>5, <2>2
  <2>7. alive' = ({states'[q] : q \in Plugins} \ {None}) \cup Besides'
    BY <1>2, <2>2, <2>3
  <2> QED BY <1>2, <2>4, <2>5, <2>6, <2>7 DEF Accounted
<1> QED BY <1>6, <1>7, <1>8, <1>9, <1>10, <1>11 DEF Sound

(* Each on_unload of a detached bot keeps the invariant.                    *)
LEMMA SoundUnbind ==
  ASSUME PluginHostAssumption, PluginInv, TypeOK', NEW t \in Tasks, UnbindNext(t)
  PROVE  Sound'
<1>0. PICK c, x : c = Head(task[t].todo).p /\ x = Head(task[t].left)
  OBVIOUS
<1>1. /\ TypeOK /\ Roles /\ Attached /\ Binding /\ Matching /\ (~torn => Accounted)
      /\ Working(t) /\ Changing(t) /\ Told(t) /\ task[t].todo \in Seq(Items)
  BY InvFacts
<1>2. /\ lock = t /\ lock' = t /\ task[t].pc = "unbind" /\ task[t].todo # <<>> /\ c \in Contexts
      /\ task[t].left \in Seq(Bindings)
      /\ UNCHANGED <<installed, file, states, born, alive, attached, rt, worker,
                     breaker, ops, calls, overlap, torn>>
      /\ \/ /\ task[t].left # <<>> /\ loaded' = loaded \ {<<x.inst, c>>} /\ bind' = bind
            /\ \A u \in Tasks : u # t => task'[u] = task[u]
            /\ task'[t].op = task[t].op /\ task'[t].todo = task[t].todo /\ task'[t].p = task[t].p
            /\ task'[t].prev = task[t].prev /\ task'[t].pc = "unbind"
            /\ task'[t].left = Tail(task[t].left)
         \/ /\ task[t].left = <<>> /\ loaded' = loaded
            /\ bind' = [bind EXCEPT ![c] = <<>>]
            /\ Passed(t, task[t].todo)
  BY <1>0, <1>1, UnbindFacts DEF Held, Moved
<1>3. c \notin ToSet(attached)
  BY <1>0, <1>1, <1>2 DEF Changing
<1>4. task[t].op \in {"detach", "shutdown"}
  <2>1. Head(task[t].todo).do = "detach"
    BY <1>1, <1>2 DEF Working
  <2> QED BY <1>0, <1>2, <2>1, DetachFacts
<1>5. ASSUME ~torn
      PROVE  /\ Accounted /\ Leaving = {<<b.inst, c>> : b \in ToSet(task[t].left)} /\ Besides = {}
             /\ \A d : Unbinding(d) <=> d = c
             /\ \A d \in Contexts : bind[d] = <<>> \/ d \in ToSet(attached) \/ d = c
             /\ \A d \in Contexts : \A b \in Bound(d) : b.inst = states[b.p]
             /\ \A l \in loaded : \/ l \in Leaving
                                  \/ l[2] # c /\ \E b \in Bound(l[2]) : b.inst = l[1]
             /\ alive = {states[p] : p \in Plugins} \ {None}
  <2>1. Accounted
    BY <1>1, <1>5
  <2>2. /\ Leaving = {<<b.inst, c>> : b \in ToSet(task[t].left)} /\ Besides = {}
        /\ \A d : Unbinding(d) <=> c = d
        /\ \A d, i : ~Dropping(d, i)
    BY <1>0, <1>2, HolderNow
  <2>3. \A d \in Contexts : bind[d] = <<>> \/ d \in ToSet(attached) \/ d = c
    BY <2>1, <2>2 DEF Accounted
  <2>4. \A d \in Contexts : \A b \in Bound(d) : b.inst = states[b.p]
    BY <2>1, <2>2 DEF Accounted
  <2>5. \A l \in loaded : \/ l \in Leaving
                          \/ l[2] # c /\ \E b \in Bound(l[2]) : b.inst = l[1]
    BY <2>1, <2>2 DEF Accounted
  <2>6. alive = {states[p] : p \in Plugins} \ {None}
    BY <2>1, <2>2 DEF Accounted
  <2> QED BY <2>1, <2>2, <2>3, <2>4, <2>5, <2>6
<1>6. CASE task[t].left # <<>>
  <2>1. /\ loaded' = loaded \ {<<x.inst, c>>} /\ bind' = bind
        /\ \A u \in Tasks : u # t => task'[u] = task[u]
        /\ task'[t].op = task[t].op /\ task'[t].todo = task[t].todo /\ task'[t].p = task[t].p
        /\ task'[t].prev = task[t].prev /\ task'[t].pc = "unbind"
        /\ task'[t].left = Tail(task[t].left)
    BY <1>2, <1>6
  <2>2. ToSet(task[t].left) = ToSet(Tail(task[t].left)) \cup {x} /\ Tail(task[t].left) \in Seq(Bindings)
    BY <1>0, <1>2, <1>6, HeadTail
  <2>3. Roles'
    <3>1. Working(t)'
      BY <1>1, <1>2, <2>1, WorkingOn
    <3> QED BY <1>1, <1>2, <2>1, <3>1, RolesHeld
  <2>4. Attached'
    <3>1. \A d \in Contexts : Attaching(d)' <=> Attaching(d)
      BY <1>4, <2>1, AttachingStep
    <3> QED BY <1>1, <1>2, <2>1, <3>1, AttachedSame
  <2>5. Binding'
    <3>1. ASSUME NEW d \in Contexts, NEW b \in Bound(d), d \in ToSet(attached)
          PROVE  <<b.inst, d>> \in loaded'
      <4>1. <<b.inst, d>> \in loaded
        BY <1>1, <3>1 DEF Binding
      <4> QED BY <1>3, <2>1, <3>1, <4>1
    <3>2. \A q \in Plugins : born[q] <= born'[q] /\ states'[q] \in {states[q], None}
      BY <1>1, <1>2 DEF TypeOK
    <3> QED BY <1>1, <1>2, <2>1, <3>1, <3>2, BindingSame
  <2>6. Matching'
    BY <1>1, <1>2, <1>4, <2>1, MatchingHeld DEF Earlier
  <2>7. \A u \in Tasks : Changing(u)'
    <3>1. Changing(t)'
      BY <1>0, <1>2, <1>3, <2>1, <2>2 DEF Changing
    <3> QED BY <1>1, <1>2, <2>1, <3>1, ChangingStep
  <2>8. ASSUME ~torn' PROVE Accounted'
    <3>1. /\ Accounted /\ Leaving = {<<b.inst, c>> : b \in ToSet(task[t].left)}
          /\ \A d \in Contexts : bind[d] = <<>> \/ d \in ToSet(attached) \/ d = c
          /\ \A d \in Contexts : \A b \in Bound(d) : b.inst = states[b.p]
          /\ \A l \in loaded : \/ l \in Leaving
                               \/ l[2] # c /\ \E b \in Bound(l[2]) : b.inst = l[1]
          /\ alive = {states[p] : p \in Plugins} \ {None}
      BY <1>2, <1>5, <2>8
    <3>2. /\ Leaving' = {<<b.inst, c>> : b \in ToSet(Tail(task[t].left))} /\ Besides' = {}
          /\ \A d : Unbinding(d)' <=> d = c
      <4>1. /\ Leaving' = {<<b.inst, Head(task'[t].todo).p>> : b \in ToSet(task'[t].left)} /\ Besides' = {}
            /\ \A d : Unbinding(d)' <=> Head(task'[t].todo).p = d
        BY <1>2, <2>1, HolderNext
      <4> QED BY <1>0, <2>1, <4>1
    <3>3. ASSUME NEW l \in loaded'
          PROVE  l \in Leaving' \/ (~Unbinding(l[2])' /\ \E b \in Bound(l[2]) : b.inst = l[1])
      <4>1. l \in loaded /\ l # <<x.inst, c>>
        BY <2>1
      <4>2. CASE l \in Leaving
        <5>1. PICK b \in ToSet(task[t].left) : l = <<b.inst, c>>
          BY <3>1, <4>2
        <5>2. b \in ToSet(Tail(task[t].left))
          BY <2>2, <4>1, <5>1
        <5> QED BY <3>2, <5>1, <5>2
      <4>3. CASE l \notin Leaving
        BY <3>1, <3>2, <4>1, <4>3
      <4> QED BY <4>2, <4>3
    <3>4. \A d \in Contexts : Bound(d)' = Bound(d)
      BY <2>1 DEF Bound
    <3>5. \A l \in loaded' : l[2] \in Contexts
      BY <1>1, <2>1, LoadedFacts
    <3>6. \A d \in Contexts : bind'[d] = <<>> \/ d \in ToSet(attached)' \/ Unbinding(d)'
      BY <1>2, <2>1, <3>1, <3>2
    <3>7. \A d \in Contexts : \A b \in Bound(d)' : b.inst = states'[b.p]
      BY <1>2, <3>1, <3>4
    <3>8. alive' = ({states'[p] : p \in Plugins} \ {None}) \cup Besides'
      BY <1>2, <3>1, <3>2
    <3>9. \A l \in loaded' : l \in Leaving' \/ (~Unbinding(l[2])' /\ \E b \in Bound(l[2])' : b.inst = l[1])
      BY <3>3, <3>4, <3>5
    <3> QED BY <3>6, <3>7, <3>8, <3>9 DEF Accounted
  <2> QED BY <2>3, <2>4, <2>5, <2>6, <2>7, <2>8 DEF Sound
<1>7. CASE task[t].left = <<>>
  <2>1. loaded' = loaded /\ bind' = [bind EXCEPT ![c] = <<>>] /\ Passed(t, task[t].todo)
    BY <1>2, <1>7
  <2>2. /\ Roles' /\ Changing(t)' /\ Quiet'
        /\ \A u \in Tasks : u # t => task'[u] = task[u]
        /\ task'[t].op = task[t].op /\ task'[t].p = task[t].p /\ task'[t].prev = task[t].prev
        /\ task'[t].pc = "next" /\ ToSet(task'[t].todo) \subseteq ToSet(task[t].todo)
        /\ \A d \in Contexts : Attaching(d)' <=> Attaching(d)
    BY <1>2, <2>1, PassedOn
  <2>3. /\ bind'[c] = <<>> /\ Bound(c)' = {} /\ DOMAIN bind'[c] = {}
        /\ \A d \in Contexts : d # c => bind'[d] = bind[d] /\ Bound(d)' = Bound(d)
    <3>1. bind'[c] = <<>> /\ \A d \in Contexts : d # c => bind'[d] = bind[d]
      BY <1>1, <1>2, <2>1 DEF TypeOK
    <3> QED BY <3>1 DEF Bound, ToSet
  <2>4. Attached'
    <3>1. \A d \in Contexts : bind[d] = <<>> /\ d \notin ToSet(attached) => bind'[d] = <<>>
      BY <2>3
    <3> QED BY <1>1, <1>2, <2>2, <3>1, AttachedSame
  <2>5. Matching'
    BY <1>1, <1>2, <1>4, <2>2, MatchingHeld DEF Earlier
  <2>6. \A u \in Tasks : Changing(u)'
    BY <1>1, <1>2, <2>2, ChangingStep
  <2>7. Binding'
    <3>1. \A j, q : Numbered(j, q)' <=> Numbered(j, q)
      BY <1>2 DEF Numbered
    <3>2. ASSUME NEW d \in Contexts
          PROVE  /\ OnePerPlugin(d)'
                 /\ \A b \in Bound(d)' : /\ Numbered(b.inst, b.p)
                                         /\ d \in ToSet(attached) => <<b.inst, d>> \in loaded'
      <4>1. CASE d = c
        BY <2>3, <4>1 DEF OnePerPlugin
      <4>2. CASE d # c
        BY <1>1, <2>1, <2>3, <4>2 DEF Binding, OnePerPlugin
      <4> QED BY <4>1, <4>2
    <3>3. ToSet(attached)' = ToSet(attached) /\ \A p \in Plugins : states'[p] # None => Numbered(states'[p], p)
      BY <1>1, <1>2 DEF Binding
    <3> QED BY <3>1, <3>2, <3>3 DEF Binding
  <2>8. ASSUME ~torn' PROVE Accounted'
    <3>1. /\ Leaving = {<<b.inst, c>> : b \in ToSet(task[t].left)}
          /\ \A d \in Contexts : bind[d] = <<>> \/ d \in ToSet(attached) \/ d = c
          /\ \A d \in Contexts : \A b \in Bound(d) : b.inst = states[b.p]
          /\ \A l \in loaded : \/ l \in Leaving
                               \/ l[2] # c /\ \E b \in Bound(l[2]) : b.inst = l[1]
          /\ alive = {states[p] : p \in Plugins} \ {None}
      BY <1>2, <1>5, <2>8
    <3>2. ToSet(<<>>) = {}
      BY DEF ToSet
    <3>3. \A l \in loaded : l[2] \in Contexts /\ \E b \in Bound(l[2])' : b.inst = l[1]
      <4>1. \A l \in loaded : l[2] \in Contexts /\ l \notin Leaving
        BY <1>1, <1>7, <3>1, <3>2, LoadedFacts
      <4> QED BY <2>3, <3>1, <4>1
    <3>4. \A d \in Contexts : bind'[d] = <<>> \/ d \in ToSet(attached)'
      BY <1>2, <2>3, <3>1
    <3>5. \A d \in Contexts : \A b \in Bound(d)' : b.inst = states'[b.p]
      BY <1>2, <2>3, <3>1
    <3> QED BY <1>2, <2>1, <2>2, <3>1, <3>3, <3>4, <3>5 DEF Accounted, Quiet
  <2> QED BY <2>2, <2>4, <2>5, <2>6, <2>7, <2>8 DEF Sound
<1> QED BY <1>6, <1>7

(* A task that has ended is idle and about nothing.                         *)
LEMMA IdlesFacts ==
  ASSUME PluginHostAssumption, NEW t \in Tasks, Idles(t)
  PROVE  /\ \A u \in Tasks : u # t => task'[u] = task[u]
         /\ task'[t] = Idle /\ task'[t].op = "idle" /\ task'[t].pc = "idle" /\ task'[t].todo = <<>>
         /\ task'[t].p = None /\ Changing(t)' /\ ~Attaching(t)' /\ Told(t)'
         /\ \A q \in Plugins : q \notin Concerned(t)' /\ ~Updates(t, q)'
<1>1. /\ \A u \in Tasks : u # t => task'[u] = task[u]
      /\ task'[t] = Idle /\ task'[t].op = "idle" /\ task'[t].pc = "idle" /\ task'[t].todo = <<>>
      /\ task'[t].p = None
  BY DEF Idles, Moved
<1>2. Changing(t)' /\ ~Attaching(t)'
  BY <1>1 DEF Changing, Attaching
<1>3. ToSet(<<>>) = {}
  BY DEF ToSet
<1>4. Told(t)'
  BY <1>1, <1>3 DEF Told
<1>5. Concerned(t)' = {None}
  BY <1>1 DEF Concerned
<1>6. \A q \in Plugins : q \notin Concerned(t)' /\ ~Updates(t, q)'
  BY <1>1, <1>5, PluginHostAssumption DEF Updates
<1> QED BY <1>1, <1>2, <1>4, <1>6

(* The way back of an update: what runs is what the file said before.      *)
LEMMA SoundFail ==
  ASSUME PluginHostAssumption, PluginInv, TypeOK', NEW t \in Tasks, FailItem(t)
  PROVE  Sound'
<1>0. PICK p : p = Head(task[t].todo).p
  OBVIOUS
<1>1. /\ TypeOK /\ Roles /\ Attached /\ Binding /\ Matching /\ (~torn => Accounted)
      /\ Working(t) /\ Told(t) /\ task[t].todo \in Seq(Items)
  BY InvFacts
<1>2. /\ lock = t /\ task[t].pc = "failed" /\ task[t].todo # <<>> /\ p \in Plugins
      /\ \/ /\ task[t].op \in {"update", "reload"}
            /\ file' = IF task[t].op = "update" THEN [file EXCEPT ![p] = task[t].prev] ELSE file
            /\ lock' = None /\ states' = states /\ Idles(t)
         \/ /\ task[t].op \in {"reconcile", "prepare"}
            /\ file' = file /\ lock' = lock
            /\ Deactivated(t, p, task[t].todo)
      /\ UNCHANGED <<installed, born, alive, loaded, attached, bind, rt, worker,
                     breaker, ops, calls, overlap, torn>>
  BY <1>0, <1>1, FailFacts
<1>3. CASE file' = file /\ lock' = lock /\ Deactivated(t, p, task[t].todo)
  <2>1. Head(task[t].todo).do \in {"replace", "drop", "sync", "force"}
    BY <1>1, <1>2 DEF Working, Swapping
  <2> QED BY <1>0, <1>1, <1>2, <1>3, <2>1, SoundDeactivated
<1>4. CASE /\ task[t].op \in {"update", "reload"}
           /\ file' = IF task[t].op = "update" THEN [file EXCEPT ![p] = task[t].prev] ELSE file
           /\ lock' = None /\ states' = states /\ Idles(t)
  <2>1. /\ \A u \in Tasks : u # t => task'[u] = task[u]
        /\ task'[t].op = "idle" /\ Changing(t)' /\ ~Attaching(t)' /\ Told(t)'
        /\ \A q \in Plugins : q \notin Concerned(t)' /\ ~Updates(t, q)'
    BY <1>4, IdlesFacts
  <2>2. /\ \A q \in Plugins : q # p => file'[q] = file[q]
        /\ task[t].op = "update" => file'[p] = task[t].prev
        /\ task[t].op = "reload" => file'[p] = file[p]
    BY <1>1, <1>2, <1>4 DEF TypeOK
  <2>3. task[t].p = p /\ p \in Concerned(t) /\ \A q \in Plugins : Updates(t, q) <=> q = p /\ task[t].op = "update"
    <3>1. task[t].p = p
      BY <1>0, <1>1, <1>2, <1>4 DEF Working
    <3> QED BY <3>1 DEF Concerned, Updates
  <2>4. Roles'
    <3>1. t # None /\ None \notin Tasks
      BY PluginHostAssumption DEF Tasks
    <3>2. Working(t)'
      BY <1>4, <3>1, WorkingIdle
    <3>3. t \notin Contexts
      BY <1>1, <1>4 DEF Roles, RoleOf
    <3> QED BY <1>1, <1>2, <1>4, <2>1, <3>1, <3>2, <3>3, RolesStep
  <2>5. Attached'
    <3>1. \A d \in Contexts : Attaching(d)' <=> Attaching(d)
      BY <1>4, <2>1, AttachingStep
    <3> QED BY <1>1, <1>2, <3>1, AttachedSame
  <2>6. Binding'
    BY <1>1, <1>2, <1>4 DEF Binding, Numbered, OnePerPlugin, Bound
  <2>7. Matching'
    <3>1. ASSUME NEW q \in Plugins \ overlap' PROVE Faithful(q)' /\ Alone(q)'
      <4>1. Faithful(q) /\ Alone(q) /\ q \in Plugins
        BY <1>1, <1>2, <3>1, MatchingParts
      <4>2. Alone(q)'
        BY <2>1, <4>1, AloneSame
      <4>3. CASE q = p /\ task[t].op = "update"
        <5>1. Updates(t, p) /\ Earlier(t)
          BY <1>2, <2>3, <4>3 DEF Earlier
        <5>2. Runs(q, task[t].prev)
          BY <4>1, <4>3, <5>1 DEF Faithful
        <5>3. Runs(q, file[q])'
          BY <1>2, <1>4, <2>2, <4>3, <5>2 DEF Runs
        <5>4. ASSUME NEW u \in Tasks PROVE ~Updates(u, q)'
          <6>1. CASE u = t
            BY <2>1, <4>1, <6>1
          <6>2. CASE u # t
            <7>1. ~Updates(u, q)
              BY <2>3, <4>1, <4>3, <6>2 DEF Alone
            <7> QED BY <2>1, <6>2, <7>1 DEF Updates
          <6> QED BY <6>1, <6>2
        <5>5. \A u \in Tasks : Updates(u, q)' /\ Earlier(u)' => Runs(q, task[u].prev)'
          BY <5>4
        <5> QED BY <4>2, <5>3, <5>5 DEF Faithful
      <4>4. CASE ~(q = p /\ task[t].op = "update")
        <5>1. ~Updates(t, q) /\ ~Updates(t, q)' /\ file'[q] = file[q] /\ states'[q] = states[q]
          BY <1>4, <2>1, <2>2, <2>3, <4>1, <4>4
        <5>2. Faithful(q)'
          BY <1>2, <2>1, <4>1, <5>1, FaithfulSame
        <5> QED BY <4>2, <5>2
      <4> QED BY <4>3, <4>4
    <3>2. ASSUME NEW u \in Tasks, u # t PROVE Told(u)'
      <4>1. /\ lock # u /\ Working(u) /\ task'[u] = task[u] /\ Told(u)
        BY <1>1, <1>2, <2>1, <3>2, MatchingParts DEF Roles
      <4>2. task[u].pc \in {"idle", "wait"} /\ (task[u].pc = "idle" => task[u].op = "idle")
        BY <4>1 DEF Working
      <4>3. ASSUME NEW i \in ToSet(task[u].todo), i.do = "replace", i.p \notin overlap
            PROVE  i.cfg = file'[i.p]
        <5>1. i.cfg = file[i.p]
          BY <4>1, <4>3 DEF Told
        <5>2. i.p \in Plugins /\ i.p \in Concerned(u)
          <6>1. task[u].todo \in Seq(Items)
            BY InvFacts
          <6>2. i \in Items
            BY <6>1, SeqFacts
          <6>3. i.p \in Plugins
            BY <4>3, <6>2, ItemTypes
          <6> QED BY <6>3, ConcernedFacts
        <5>3. i.p = p => task[t].op # "update"
          <6>1. Alone(i.p)
            BY <1>1, <4>3, <5>2, MatchingParts
          <6> QED BY <2>3, <3>2, <5>2, <6>1 DEF Alone
        <5> QED BY <1>4, <2>2, <5>1, <5>2, <5>3
      <4> QED BY <1>2, <4>1, <4>2, <4>3 DEF Told
    <3> QED BY <2>1, <3>1, <3>2, MatchingParts
  <2>8. \A u \in Tasks : Changing(u)'
    BY <1>1, <1>2, <2>1, ChangingStep
  <2>9. ASSUME ~torn' PROVE Accounted'
    <3>1. Accounted /\ Quiet /\ Quiet'
      BY <1>1, <1>2, <1>4, <2>9, QuietNow, QuietNext
    <3> QED BY <1>1, <1>2, <1>4, <3>1, AccountedQuiet
  <2> QED BY <2>4, <2>5, <2>6, <2>7, <2>8, <2>9 DEF Sound
<1> QED BY <1>2, <1>3, <1>4

(* An operation on one plugin or one bot is not over before its turn.      *)
LEMMA FinishedNext ==
  ASSUME PluginInv, NEW t \in Tasks, task[t].pc \in {"wait", "next"}, Pending(t) = <<>>,
         task[t].op \in {"update", "reload", "uninstall", "attach", "detach"}
  PROVE  task[t].pc = "next"
<1>1. TypeOK /\ Working(t) /\ task[t].todo \in Seq(Items)
  BY InvFacts
<1>2. SUFFICES ASSUME task[t].pc = "wait" PROVE FALSE
  OBVIOUS
<1>3. task[t].todo # <<>>
  BY <1>1, <1>2 DEF Working
<1>4. Head(task[t].todo) \in ToSet(task[t].todo)
  BY <1>1, <1>3, HeadTail
<1>5. Head(task[t].todo).do \in ItemsOf(task[t].op)
  BY <1>1, <1>4 DEF Working
<1>6. Due(Head(task[t].todo))
  BY <1>5 DEF Due, ItemsOf
<1> QED BY <1>1, <1>4, <1>6, PendingFacts

(* The end of an operation keeps the invariant.                             *)
LEMMA SoundFinish ==
  ASSUME PluginHostAssumption, PluginInv, TypeOK', NEW t \in Tasks, Finish(t)
  PROVE  Sound'
<1>1. /\ TypeOK /\ Roles /\ Attached /\ Binding /\ Matching /\ (~torn => Accounted)
      /\ Working(t) /\ Told(t) /\ task[t].todo \in Seq(Items)
  BY InvFacts
<1>2. /\ (lock = t /\ task[t].pc = "next") \/ (lock = None /\ task[t].pc = "wait")
      /\ Pending(t) = <<>> /\ lock' = None
      /\ installed' = IF task[t].op = "uninstall" THEN installed \ {task[t].p} ELSE installed
      /\ \/ /\ task[t].op = "prepare" /\ t \in Contexts /\ rt' = rt
            /\ Moved(t, "attach", "wait", <<Item("attach", t, None)>>, None, None,
                     None, None, <<>>, <<>>)
            /\ <<Item("attach", t, None)>> \in Seq(Items)
         \/ task[t].op = "attach" /\ t \in Contexts /\ rt' = [rt EXCEPT ![t] = "up"] /\ Idles(t)
         \/ task[t].op = "detach" /\ t \in Contexts /\ rt' = [rt EXCEPT ![t] = "gone"] /\ Idles(t)
         \/ task[t].op \notin {"prepare", "attach", "detach"} /\ rt' = rt /\ Idles(t)
      /\ UNCHANGED <<file, states, born, alive, loaded, attached, bind, worker,
                     breaker, ops, calls, overlap, torn>>
  BY <1>1, FinishFacts
<1>3. /\ lock \in {t, None} /\ t # None /\ None \notin Tasks /\ task[t].op # "idle"
      /\ task[t].pc \in {"wait", "next"}
      /\ task[t].op \in {"update", "reload", "uninstall", "attach", "detach"} => task[t].pc = "next"
  <2>1. t # None /\ None \notin Tasks
    BY PluginHostAssumption DEF Tasks
  <2>2. task[t].op # "idle"
    BY <1>1, <1>2 DEF Working
  <2>3. task[t].op \in {"update", "reload", "uninstall", "attach", "detach"} => task[t].pc = "next"
    BY <1>2, FinishedNext
  <2> QED BY <1>2, <2>1, <2>2, <2>3
<1>4. task[t].op = "prepare" =>
        /\ \A u \in Tasks : u # t => task'[u] = task[u]
        /\ task'[t].op = "attach" /\ task'[t].pc = "wait" /\ Changing(t)' /\ ~Attaching(t)' /\ Told(t)'
        /\ \A q \in Plugins : q \notin Concerned(t)' /\ ~Updates(t, q)'
        /\ Working(t)'
  <2>0. SUFFICES ASSUME task[t].op = "prepare"
                 PROVE  /\ \A u \in Tasks : u # t => task'[u] = task[u]
                        /\ task'[t].op = "attach" /\ task'[t].pc = "wait"
                        /\ Changing(t)' /\ ~Attaching(t)' /\ Told(t)'
                        /\ \A q \in Plugins : q \notin Concerned(t)' /\ ~Updates(t, q)'
                        /\ Working(t)'
    OBVIOUS
  <2> DEFINE todo == <<Item("attach", t, None)>>
  <2>1. /\ t \in Contexts /\ todo \in Seq(Items)
        /\ Moved(t, "attach", "wait", todo, None, None, None, None, <<>>, <<>>)
    BY <1>2, <2>0
  <2>2. \A i \in ToSet(todo) : i.do = "attach" /\ i.p = t
    BY DEF ToSet, Item
  <2>3. \E i : todo = <<i>>
    OBVIOUS
  <2> HIDE DEF todo
  <2>4. /\ \A u \in Tasks : u # t => task'[u] = task[u]
        /\ task'[t].op = "attach" /\ task'[t].pc = "wait" /\ task'[t].todo = todo /\ task'[t].p = None
    BY <2>1 DEF Moved
  <2>5. Changing(t)' /\ ~Attaching(t)'
    BY <2>4 DEF Changing, Attaching
  <2>6. Told(t)'
    BY <2>2, <2>4 DEF Told
  <2>7. Concerned(t)' = {i.p : i \in ToSet(todo)} \cup {None}
    BY <2>4 DEF Concerned, ToSet
  <2>8. \A q \in Plugins : q \notin Concerned(t)' /\ ~Updates(t, q)'
    BY <2>1, <2>2, <2>4, <2>7, PluginHostAssumption DEF Updates
  <2>9. lock' # t /\ \A i \in ToSet(todo) :
          /\ i.do \in ItemsOf("attach")
          /\ i.do = "attach" => i.p = t
          /\ i.do = "detach" => rt'[i.p] \in {"stopping", "gone"}
    BY <1>2, <1>3, <2>2 DEF ItemsOf
  <2>10. Working(t)'
    BY <2>1, <2>3, <2>9, WorkingWaits
  <2> QED BY <2>4, <2>5, <2>6, <2>8, <2>10
<1>5. task[t].op # "prepare" =>
        /\ \A u \in Tasks : u # t => task'[u] = task[u]
        /\ task'[t].op = "idle" /\ task'[t].pc = "idle" /\ Changing(t)' /\ ~Attaching(t)' /\ Told(t)'
        /\ \A q \in Plugins : q \notin Concerned(t)' /\ ~Updates(t, q)'
        /\ Working(t)'
  <2>0. SUFFICES ASSUME task[t].op # "prepare" PROVE Idles(t) /\ Working(t)'
    BY IdlesFacts
  <2>1. Idles(t)
    BY <1>2, <2>0
  <2> QED BY <1>2, <1>3, <2>1, WorkingIdle
<1>6. /\ \A u \in Tasks : u # t => task'[u] = task[u]
      /\ Changing(t)' /\ ~Attaching(t)' /\ Told(t)' /\ Working(t)'
      /\ \A q \in Plugins : q \notin Concerned(t)' /\ ~Updates(t, q)'
      /\ task[t].op = "prepare" => task'[t].op = "attach"
      /\ task[t].op # "prepare" => task'[t].op = "idle"
  BY <1>4, <1>5
<1>7. /\ t \in Contexts => /\ task[t].op \in {"prepare", "attach", "detach"}
                           /\ task[t].op \in {"prepare", "attach"} => rt[t] = "starting"
                           /\ task[t].op = "detach" => rt[t] = "stopping"
      /\ t \in Admins => task[t].op \notin {"prepare", "attach", "detach"} /\ t \notin Contexts
  <2>1. t \in Contexts => task[t].op \in RoleOf(t)
    BY <1>1 DEF Roles
  <2> QED BY <1>1, <1>3, <2>1, PluginHostAssumption DEF RoleOf, Roles
<1>8. /\ \A d \in Contexts : d # t => rt'[d] = rt[d]
      /\ task[t].op = "attach" => t \in Contexts /\ rt'[t] = "up"
      /\ task[t].op = "detach" => t \in Contexts /\ rt'[t] = "gone"
      /\ task[t].op \notin {"attach", "detach"} => rt' = rt
  BY <1>1, <1>2 DEF TypeOK
<1>9. Roles'
  <2>1. t \in Contexts => task'[t].op \in RoleOf(t)'
    BY <1>6, <1>7, <1>8 DEF RoleOf
  <2>2. \A d \in Contexts : rt[d] \in {"stopping", "gone"} => rt'[d] \in {"stopping", "gone"}
    BY <1>7, <1>8
  <2>3. t \in Admins => task'[t].op \notin {"prepare", "attach", "detach"}
    BY <1>6, <1>7
  <2>4. \A u \in Tasks : u # t => task'[u] = task[u] /\ (lock' = u <=> lock = u)
    BY <1>2, <1>3, <1>6
  <2> QED BY <1>1, <1>6, <1>8, <2>1, <2>2, <2>3, <2>4, RolesStep
<1>10. Attached'
  <2>1. \A d \in Contexts : d # t => (Attaching(d)' <=> Attaching(d))
    BY <1>6, AttachingSame
  <2>2. ASSUME NEW d \in Contexts, rt'[d] = "up" \/ Attaching(d)' PROVE d \in ToSet(attached)
    <3>1. CASE d # t
      BY <1>1, <1>8, <2>1, <2>2, <3>1 DEF Attached
    <3>2. CASE d = t
      <4>1. task[t].op = "attach"
        BY <1>6, <1>7, <1>8, <2>2, <3>2
      <4>2. Attaching(t)
        BY <1>3, <4>1 DEF Attaching
      <4> QED BY <1>1, <2>2, <3>2, <4>2 DEF Attached
    <3> QED BY <3>1, <3>2
  <2>3. ASSUME NEW d \in Contexts, rt'[d] = "fresh" \/ (rt'[d] = "starting" /\ ~Attaching(d)')
        PROVE  bind[d] = <<>> /\ d \notin ToSet(attached)
    <3>1. CASE d # t
      BY <1>1, <1>8, <2>1, <2>3, <3>1 DEF Attached
    <3>2. CASE d = t
      <4>1. task[t].op = "prepare"
        BY <1>7, <1>8, <2>3, <3>2
      <4>2. ~Attaching(t) /\ rt[t] = "starting"
        BY <1>7, <2>3, <3>2, <4>1 DEF Attaching
      <4> QED BY <1>1, <2>3, <3>2, <4>2 DEF Attached
    <3> QED BY <3>1, <3>2
  <2>4. \A w \in Workers : worker'[w].inst # None =>
          worker'[w].c \in Contexts /\ rt'[worker'[w].c] = "up"
    BY <1>1, <1>2, <1>7, <1>8 DEF Attached
  <2> QED BY <1>2, <2>2, <2>3, <2>4 DEF Attached
<1>11. Binding'
  BY <1>1, <1>2 DEF Binding, Numbered, OnePerPlugin, Bound
<1>12. Matching'
  <2>1. ASSUME NEW q \in Plugins \ overlap' PROVE Faithful(q)' /\ Alone(q)'
    <3>1. Faithful(q) /\ Alone(q) /\ q \in Plugins
      BY <1>1, <1>2, <2>1, MatchingParts
    <3>2. Alone(q)'
      BY <1>6, <3>1, AloneSame
    <3>3. ~(Updates(t, q) /\ Earlier(t)) /\ ~Updates(t, q)'
      BY <1>3, <1>6, <3>1 DEF Updates, Earlier
    <3>4. CASE q \in installed => q \in installed'
      <4>1. Faithful(q)'
        BY <1>2, <1>6, <3>1, <3>3, <3>4, FaithfulSame
      <4> QED BY <3>2, <4>1
    <3>5. CASE ~(q \in installed => q \in installed')
      <4>1. task[t].op = "uninstall" /\ q = task[t].p
        BY <1>2, <3>5
      <4>2. states[q] = None
        BY <1>1, <1>3, <4>1 DEF Told
      <4>3. \A c : Runs(q, c)'
        BY <1>2, <4>2 DEF Runs
      <4>4. Runs(q, file[q])' /\ \A u \in Tasks : Runs(q, task[u].prev)'
        BY <4>3
      <4> QED BY <3>2, <4>4 DEF Faithful
    <3> QED BY <3>4, <3>5
  <2>2. ASSUME NEW u \in Tasks, u # t PROVE Told(u)'
    <3>1. lock # u /\ Working(u) /\ task'[u] = task[u]
      BY <1>1, <1>3, <1>6, <2>2 DEF Roles
    <3> QED BY <1>1, <1>2, <3>1, ToldOther
  <2> QED BY <1>6, <2>1, <2>2, MatchingParts
<1>13. \A u \in Tasks : Changing(u)'
  BY <1>1, <1>3, <1>6, ChangingStep
<1>14. ASSUME ~torn' PROVE Accounted'
  <2>1. Accounted /\ Quiet /\ Quiet'
    BY <1>1, <1>2, <1>14, QuietNow, QuietNext
  <2> QED BY <1>1, <1>2, <2>1, AccountedQuiet
<1> QED BY <1>9, <1>10, <1>11, <1>12, <1>13, <1>14 DEF Sound

(* A start is cut off.  If it held the lock, the accounts are open.        *)
LEMMA SoundCancel ==
  ASSUME PluginHostAssumption, PluginInv, TypeOK', NEW c \in Contexts, CancelStart(c)
  PROVE  Sound'
<1>0. c \in Tasks /\ c # None /\ None \notin Tasks
  BY PluginHostAssumption DEF Tasks
<1>1. /\ TypeOK /\ Roles /\ Attached /\ Binding /\ Matching /\ (~torn => Accounted)
      /\ Working(c) /\ \A u \in Tasks : Changing(u)
  BY <1>0, InvFacts
<1>2. /\ rt[c] = "starting" /\ rt' = [rt EXCEPT ![c] = "gone"] /\ Idles(c)
      /\ lock' = IF lock = c THEN None ELSE lock
      /\ torn' = (torn \/ lock = c)
      /\ UNCHANGED <<installed, file, states, born, alive, loaded, attached, bind,
                     worker, breaker, ops, calls, overlap>>
  BY <1>1, CancelFacts
<1>3. /\ \A u \in Tasks : u # c => task'[u] = task[u]
      /\ task'[c].op = "idle" /\ Changing(c)' /\ ~Attaching(c)' /\ Told(c)'
      /\ \A q \in Plugins : q \notin Concerned(c)' /\ ~Updates(c, q)'
  BY <1>0, <1>2, IdlesFacts
<1>4. rt'[c] = "gone" /\ \A d \in Contexts : d # c => rt'[d] = rt[d]
  BY <1>1, <1>2 DEF TypeOK
<1>5. Roles'
  <2>1. Working(c)'
    BY <1>0, <1>2, WorkingIdle
  <2>2. c \notin Admins
    BY PluginHostAssumption
  <2>3. task'[c].op \in RoleOf(c)'
    BY <1>3, <1>4 DEF RoleOf
  <2> QED BY <1>0, <1>1, <1>2, <1>3, <1>4, <2>1, <2>2, <2>3, RolesStep
<1>6. Attached'
  <2>1. \A d \in Contexts : d # c => (Attaching(d)' <=> Attaching(d))
    BY <1>0, <1>3, AttachingSame
  <2>2. \A w \in Workers : worker'[w].inst # None =>
          worker'[w].c \in Contexts /\ rt'[worker'[w].c] = "up"
    BY <1>1, <1>2, <1>4 DEF Attached
  <2> QED BY <1>1, <1>2, <1>3, <1>4, <2>1, <2>2 DEF Attached
<1>7. Binding'
  BY <1>1, <1>2 DEF Binding, Numbered, OnePerPlugin, Bound
<1>8. Matching'
  <2>1. \A q \in Plugins : ~Updates(c, q)
    BY <1>1, <1>2 DEF Updates, Roles, RoleOf
  <2> QED BY <1>0, <1>1, <1>2, <1>3, <2>1, MatchingStep
<1>9. \A u \in Tasks : Changing(u)'
  <2>1. ASSUME NEW u \in Tasks, u # c PROVE Changing(u)'
    BY <1>1, <1>2, <1>3, <2>1, ChangingSame
  <2> QED BY <1>3, <2>1
<1>10. ASSUME ~torn' PROVE Accounted'
  <2>1. Accounted /\ lock # c /\ lock' = lock
    BY <1>1, <1>2, <1>10
  <2>2. lock # None => task'[lock] = task[lock]
    BY <1>1, <1>3, <2>1 DEF TypeOK
  <2> QED BY <1>2, <2>1, <2>2, AccountedSame
<1> QED BY <1>5, <1>6, <1>7, <1>8, <1>9, <1>10 DEF Sound

(* An idle task asks for the lock; nothing that is held changes.           *)
LEMMA AskFacts ==
  ASSUME PluginHostAssumption, PluginInv, NEW t \in Tasks, task[t].op = "idle",
         NEW op \in {"update", "reload", "uninstall", "reconcile", "shutdown", "prepare",
                     "attach", "detach"},
         NEW todo \in Seq(Items), NEW p, NEW prev,
         Moved(t, op, "wait", todo, p, prev, None, None, <<>>, <<>>),
         lock' = lock, UNCHANGED <<states, born, alive, loaded, attached, bind, torn>>
  PROVE  /\ \A u \in Tasks : u # t => task'[u] = task[u]
         /\ task'[t].op = op /\ task'[t].pc = "wait" /\ task'[t].todo = todo
         /\ task'[t].p = p /\ task'[t].prev = prev
         /\ lock # t /\ lock' # t /\ ~Attaching(t) /\ ~Attaching(t)' /\ Concerned(t) = {None} /\ task[t].pc = "idle"
         /\ Concerned(t)' = {i.p : i \in ToSet(todo)} \cup {p}
         /\ \A u \in Tasks : Changing(u)'
         /\ Binding' /\ (~torn' => Accounted')
<1>1. /\ TypeOK /\ Roles /\ Binding /\ (~torn => Accounted) /\ Working(t)
      /\ \A u \in Tasks : Changing(u)
  BY InvFacts
<1>2. /\ \A u \in Tasks : u # t => task'[u] = task[u]
      /\ task'[t].op = op /\ task'[t].pc = "wait" /\ task'[t].todo = todo
      /\ task'[t].p = p /\ task'[t].prev = prev
  BY DEF Moved
<1>3. task[t] = Idle /\ task[t].pc = "idle" /\ task[t].todo = <<>> /\ task[t].p = None
  BY <1>1 DEF Working, Idle
<1>4. lock # t
  BY <1>1, <1>3 DEF Working
<1>5. ~Attaching(t) /\ ~Attaching(t)'
  BY <1>2, <1>3 DEF Attaching
<1>6. Concerned(t) = {None} /\ Concerned(t)' = {i.p : i \in ToSet(todo)} \cup {p}
  <2>1. Concerned(t) = {None}
    BY <1>3 DEF Concerned
  <2>2. Concerned(t)' = {i.p : i \in ToSet(todo)} \cup {p}
    BY <1>2 DEF Concerned, ToSet
  <2> QED BY <2>1, <2>2
<1>7. \A u \in Tasks : Changing(u)'
  <2>1. Changing(t)'
    BY <1>2 DEF Changing
  <2>2. ASSUME NEW u \in Tasks, u # t PROVE Changing(u)'
    BY <1>1, <1>2, <2>2, ChangingSame
  <2> QED BY <2>1, <2>2
<1>8. Binding'
  BY <1>1 DEF Binding, Numbered, OnePerPlugin, Bound
<1>9. ASSUME ~torn' PROVE Accounted'
  <2>1. lock # None => task'[lock] = task[lock]
    BY <1>1, <1>2, <1>4 DEF TypeOK
  <2> QED BY <1>1, <1>9, <2>1, AccountedSame
<1> QED BY <1>2, <1>3, <1>4, <1>5, <1>6, <1>7, <1>8, <1>9

(* The start of a bot keeps the invariant.                                  *)
LEMMA SoundStartBot ==
  ASSUME PluginHostAssumption, PluginInv, TypeOK', NEW c \in Contexts, StartBot(c)
  PROVE  Sound'
<1>0. c \in Tasks /\ c \notin Admins
  BY PluginHostAssumption DEF Tasks
<1>1. /\ TypeOK /\ Roles /\ Attached /\ Binding /\ Matching /\ (~torn => Accounted)
      /\ Working(c)
  BY <1>0, InvFacts
<1>2. /\ rt[c] = "fresh" /\ rt' = [rt EXCEPT ![c] = "starting"]
      /\ overlap' = overlap \cup Overlapping(Plugins, FALSE)
      /\ UNCHANGED <<installed, file, states, born, alive, loaded, attached, bind, lock,
                     worker, breaker, ops, calls, torn>>
  BY <1>1, StartBotFacts
<1>3. PICK todo \in Seq(Items) :
        /\ Moved(c, "prepare", "wait", todo, None, None, None, None, <<>>, <<>>)
        /\ \A i \in ToSet(todo) : i.do = "sync" /\ i.p \in Plugins
  BY <1>1, StartBotFacts
<1>4. task[c].op = "idle"
  BY <1>1, <1>2 DEF Roles, RoleOf
<1>5. /\ \A u \in Tasks : u # c => task'[u] = task[u]
      /\ task'[c].op = "prepare" /\ task'[c].pc = "wait" /\ task'[c].todo = todo
      /\ task'[c].p = None
      /\ lock # c /\ lock' # c /\ ~Attaching(c) /\ ~Attaching(c)'
      /\ \A u \in Tasks : Changing(u)'
      /\ Binding' /\ (~torn' => Accounted')
  BY <1>0, <1>2, <1>3, <1>4, AskFacts
<1>6. rt'[c] = "starting" /\ \A d \in Contexts : d # c => rt'[d] = rt[d]
  BY <1>1, <1>2 DEF TypeOK
<1>7. Roles'
  <2>1. \A i \in ToSet(todo) : /\ i.do \in ItemsOf("prepare")
                               /\ i.do = "attach" => i.p = c
                               /\ i.do = "detach" => rt'[i.p] \in {"stopping", "gone"}
    BY <1>3 DEF ItemsOf
  <2>2. Working(c)'
    BY <1>0, <1>3, <1>5, <2>1, WorkingWaits
  <2>3. task'[c].op \in RoleOf(c)'
    BY <1>5, <1>6 DEF RoleOf
  <2> QED BY <1>0, <1>1, <1>2, <1>5, <1>6, <2>2, <2>3, RolesStep
<1>8. Attached'
  <2>1. \A d \in Contexts : Attaching(d)' <=> Attaching(d)
    BY <1>0, <1>5, AttachingSame
  <2>2. \A w \in Workers : worker'[w].inst # None =>
          worker'[w].c \in Contexts /\ rt'[worker'[w].c] = "up"
    BY <1>1, <1>2, <1>6 DEF Attached
  <2> QED BY <1>1, <1>2, <1>5, <1>6, <2>1, <2>2 DEF Attached
<1>9. Matching'
  <2>1. ASSUME NEW q \in Plugins \ overlap' PROVE \A u \in Tasks : ~Updates(u, q)
    <3>1. \A u \in Tasks : Updates(u, q) => q \in Concerned(u) /\ task[u].op = "update"
      BY DEF Updates, Concerned
    <3>2. q \notin Overlapping(Plugins, FALSE)
      BY <1>2, <2>1
    <3> QED BY <2>1, <3>1, <3>2 DEF Overlapping
  <2>2. \A q \in Plugins : ~Updates(c, q)'
    BY <1>5 DEF Updates
  <2>3. Told(c)'
    <3>1. ToSet(task[c].todo)' = ToSet(todo)
      BY <1>5
    <3> QED BY <1>3, <1>5, <3>1 DEF Told
  <2> QED BY <1>0, <1>1, <1>2, <1>5, <2>1, <2>2, <2>3, MatchingStep
<1> QED BY <1>5, <1>7, <1>8, <1>9 DEF Sound

(* The stop of a bot keeps the invariant: its workers rest.                 *)
LEMMA SoundStopBot ==
  ASSUME PluginHostAssumption, PluginInv, TypeOK', NEW c \in Contexts, StopBot(c)
  PROVE  Sound'
<1>0. c \in Tasks /\ c \notin Admins
  BY PluginHostAssumption DEF Tasks
<1>1. /\ TypeOK /\ Roles /\ Attached /\ Binding /\ Matching /\ (~torn => Accounted)
      /\ Working(c) /\ Told(c) /\ \A u \in Tasks : Changing(u)
  BY <1>0, InvFacts
<1>2. /\ rt[c] = "up"
      /\ worker' = [w \in Workers |-> IF worker[w].c = c THEN Resting ELSE worker[w]]
      /\ \/ rt' = [rt EXCEPT ![c] = "gone"] /\ task' = task
         \/ /\ rt' = [rt EXCEPT ![c] = "stopping"]
            /\ \E i \in Items :
                 /\ i.do = "detach" /\ i.p = c
                 /\ Moved(c, "detach", "wait", <<i>>, None, None, None, None, <<>>, <<>>)
      /\ UNCHANGED <<installed, file, states, born, alive, loaded, attached, bind, lock,
                     ops, calls, overlap, torn>>
  BY <1>1, StopFacts
<1>3. task[c].op = "idle"
  BY <1>1, <1>2 DEF Roles, RoleOf
<1>4. /\ \A d \in Contexts : d # c => rt'[d] = rt[d]
      /\ rt'[c] \in {"stopping", "gone"}
      /\ \A w \in Workers : worker'[w].inst # None => worker'[w] = worker[w] /\ worker[w].c # c
  BY <1>1, <1>2 DEF TypeOK, Resting
<1>5. ASSUME \A u \in Tasks : u # c => task'[u] = task[u], ~Attaching(c)'
      PROVE  Attached'
  <2>1. \A d \in Contexts : d # c => (Attaching(d)' <=> Attaching(d))
    BY <1>0, <1>5, AttachingSame
  <2>2. \A w \in Workers : worker'[w].inst # None =>
          worker'[w].c \in Contexts /\ rt'[worker'[w].c] = "up"
    BY <1>1, <1>4 DEF Attached
  <2> QED BY <1>1, <1>2, <1>4, <1>5, <2>1, <2>2 DEF Attached
<1>6. CASE rt' = [rt EXCEPT ![c] = "gone"] /\ task' = task
  <2>1. rt'[c] = "gone"
    BY <1>1, <1>6 DEF TypeOK
  <2>2. Roles'
    <3>1. \A d \in Contexts : rt[d] \in {"stopping", "gone"} => rt'[d] \in {"stopping", "gone"}
      BY <1>2, <1>4
    <3>2. Working(c)'
      BY <1>0, <1>1, <1>2, <1>6, <3>1, WorkingOther
    <3>3. task'[c].op \in RoleOf(c)'
      BY <1>3, <1>6, <2>1 DEF RoleOf
    <3> QED BY <1>0, <1>1, <1>2, <1>4, <1>6, <3>1, <3>2, <3>3, RolesStep
  <2>3. Attached'
    BY <1>3, <1>5, <1>6 DEF Attaching
  <2>4. Binding'
    BY <1>1, <1>2 DEF Binding, Numbered, OnePerPlugin, Bound
  <2>5. Matching'
    <3>1. Concerned(c)' = Concerned(c) /\ Earlier(c)' = Earlier(c) /\ \A q \in Plugins : Updates(c, q)' = Updates(c, q)
      BY <1>6 DEF Concerned, Earlier, Updates
    <3>2. Told(c)'
      BY <1>0, <1>1, <1>2, <1>6, ToldSame
    <3> QED BY <1>0, <1>1, <1>2, <1>6, <3>1, <3>2, MatchingStep
  <2>6. \A u \in Tasks : Changing(u)'
    BY <1>1, <1>2, <1>6, ChangingSame
  <2>7. ~torn' => Accounted'
    BY <1>1, <1>2, <1>6, AccountedSame
  <2> QED BY <2>2, <2>3, <2>4, <2>5, <2>6, <2>7 DEF Sound
<1>7. CASE /\ rt' = [rt EXCEPT ![c] = "stopping"]
           /\ \E i \in Items :
                /\ i.do = "detach" /\ i.p = c
                /\ Moved(c, "detach", "wait", <<i>>, None, None, None, None, <<>>, <<>>)
  <2>1. PICK i \in Items :
          /\ i.do = "detach" /\ i.p = c
          /\ Moved(c, "detach", "wait", <<i>>, None, None, None, None, <<>>, <<>>)
    BY <1>7
  <2> DEFINE todo == <<i>>
  <2>2. /\ todo \in Seq(Items) /\ ToSet(todo) = {i} /\ \E j : todo = <<j>>
        /\ Moved(c, "detach", "wait", todo, None, None, None, None, <<>>, <<>>)
    BY <2>1 DEF ToSet
  <2> HIDE DEF todo
  <2>3. rt'[c] = "stopping"
    BY <1>1, <1>7 DEF TypeOK
  <2>4. /\ \A u \in Tasks : u # c => task'[u] = task[u]
        /\ task'[c].op = "detach" /\ task'[c].pc = "wait" /\ task'[c].todo = todo
        /\ task'[c].p = None /\ Concerned(c)' = {j.p : j \in ToSet(todo)} \cup {None}
        /\ lock # c /\ lock' # c /\ ~Attaching(c) /\ ~Attaching(c)'
        /\ \A u \in Tasks : Changing(u)'
        /\ Binding' /\ (~torn' => Accounted')
    BY <1>0, <1>2, <1>3, <2>2, AskFacts
  <2>5. Roles'
    <3>1. \A j \in ToSet(todo) : /\ j.do \in ItemsOf("detach")
                                 /\ j.do = "attach" => j.p = c
                                 /\ j.do = "detach" => rt'[j.p] \in {"stopping", "gone"}
      BY <2>1, <2>2, <2>3 DEF ItemsOf
    <3>2. Working(c)'
      BY <1>0, <2>2, <2>4, <3>1, WorkingWaits
    <3>3. task'[c].op \in RoleOf(c)'
      BY <2>3, <2>4 DEF RoleOf
    <3> QED BY <1>0, <1>1, <1>2, <1>4, <2>4, <3>2, <3>3, RolesStep
  <2>6. Attached'
    BY <1>5, <2>4
  <2>7. Matching'
    <3>1. \A q \in Plugins : q \notin Concerned(c)'
      BY <2>1, <2>2, <2>4, PluginHostAssumption
    <3>2. \A q \in Plugins : ~Updates(c, q) /\ ~Updates(c, q)'
      BY <1>3, <2>4 DEF Updates
    <3>3. Told(c)'
      <4>1. ToSet(task[c].todo)' = {i}
        BY <2>2, <2>4
      <4> QED BY <2>1, <2>4, <4>1 DEF Told
    <3> QED BY <1>0, <1>1, <1>2, <2>4, <3>1, <3>2, <3>3, MatchingStep
  <2> QED BY <2>4, <2>5, <2>6, <2>7 DEF Sound
<1> QED BY <1>2, <1>6, <1>7

(* What a request of the WebUI has in common with the others.              *)
About(todo, p) == {i.p : i \in ToSet(todo)} \cup {p}
AboutOnly(todo, p) == (\E i : todo = <<i>>) /\ p \in Plugins /\ Head(todo).p = p

(* A request gives its task a role.                                         *)
LEMMA RequestRoles ==
  ASSUME PluginHostAssumption, PluginInv, TypeOK', NEW a \in Admins,
         NEW op \in {"update", "reload", "uninstall", "reconcile", "shutdown"},
         NEW todo \in Seq(Items), NEW p, NEW prev, NewRequest(a, op, todo, p, prev),
         \A i \in ToSet(todo) : /\ i.do \in ItemsOf(op)
                                /\ i.do = "detach" => rt[i.p] \in {"stopping", "gone"},
         op \in {"update", "reload", "uninstall"} => AboutOnly(todo, p)
  PROVE  /\ Roles' /\ Attached' /\ Binding' /\ (~torn' => Accounted')
         /\ \A u \in Tasks : Changing(u)'
         /\ a \in Tasks /\ lock # a /\ task[a].op = "idle" /\ task[a].pc = "idle"
         /\ \A u \in Tasks : u # a => task'[u] = task[u]
         /\ task'[a].op = op /\ task'[a].pc = "wait" /\ task'[a].todo = todo
         /\ task'[a].p = p /\ task'[a].prev = prev
         /\ Concerned(a)' = About(todo, p)
         /\ \A q \in Plugins : ~Updates(a, q)
<1>0. a \in Tasks /\ a \notin Contexts
  BY PluginHostAssumption DEF Tasks
<1>1. TypeOK /\ Roles /\ Attached
  BY <1>0, InvFacts
<1>2. /\ task[a] = Idle
      /\ Moved(a, op, "wait", todo, p, prev, None, None, <<>>, <<>>)
      /\ UNCHANGED <<installed, states, born, alive, loaded, attached, bind, rt, lock,
                     worker, breaker, calls, torn>>
  BY DEF NewRequest
<1>3. task[a].op = "idle" /\ task[a].pc = "idle"
  BY <1>2 DEF Idle
<1>4. /\ \A u \in Tasks : u # a => task'[u] = task[u]
      /\ task'[a].op = op /\ task'[a].pc = "wait" /\ task'[a].todo = todo
      /\ task'[a].p = p /\ task'[a].prev = prev
      /\ lock # a /\ lock' # a /\ ~Attaching(a) /\ ~Attaching(a)'
      /\ Concerned(a)' = About(todo, p)
      /\ \A u \in Tasks : Changing(u)'
      /\ Binding' /\ (~torn' => Accounted')
  BY <1>0, <1>2, <1>3, AskFacts DEF About
<1>5. Roles'
  <2>1. \A i \in ToSet(todo) : i.do # "attach"
    BY DEF ItemsOf
  <2>2. Working(a)'
    BY <1>0, <1>2, <1>4, <2>1, WorkingWaits DEF AboutOnly
  <2> QED BY <1>0, <1>1, <1>2, <1>4, <2>2, RolesStep
<1>6. Attached'
  <2>1. \A d \in Contexts : Attaching(d)' <=> Attaching(d)
    BY <1>0, <1>4, AttachingSame
  <2> QED BY <1>1, <1>2, <2>1, AttachedSame
<1>7. \A q \in Plugins : ~Updates(a, q)
  BY <1>3 DEF Updates
<1> QED BY <1>0, <1>3, <1>4, <1>5, <1>6, <1>7

(* A request about one plugin keeps the invariant.                          *)
LEMMA SoundRequestOne ==
  ASSUME PluginHostAssumption, PluginInv, TypeOK', NEW a \in Admins,
         NEW op \in {"update", "reload", "uninstall"}, NEW i \in Items, NEW p \in installed,
         NEW prev \in Configs \cup {None},
         NewRequest(a, op, <<i>>, p, prev), AboutOne(op, i, p, prev)
  PROVE  Sound'
<1>0. PICK todo : todo = <<i>>
  OBVIOUS
<1>1. /\ todo \in Seq(Items) /\ ToSet(todo) = {i} /\ (\E j : todo = <<j>>) /\ Head(todo) = i
      /\ NewRequest(a, op, todo, p, prev)
  BY <1>0 DEF ToSet
<1>2. /\ i.p = p /\ i.do = (IF op = "uninstall" THEN "drop" ELSE "replace")
      /\ op = "reload" => i.cfg = file[p]
      /\ op = "update" => prev = file[p] /\ file' = [file EXCEPT ![p] = i.cfg]
      /\ op # "update" => file' = file
      /\ overlap' = overlap \cup Overlapping({p}, op = "update")
  BY DEF AboutOne
<1>3. /\ TypeOK /\ Roles /\ Matching /\ p \in Plugins
      /\ UNCHANGED <<installed, states, born, rt, lock>>
  BY DEF PluginInv, TypeOK, NewRequest
<1>4. /\ Roles' /\ Attached' /\ Binding' /\ (~torn' => Accounted')
      /\ \A u \in Tasks : Changing(u)'
      /\ a \in Tasks /\ lock # a /\ task[a].op = "idle" /\ task[a].pc = "idle"
      /\ \A u \in Tasks : u # a => task'[u] = task[u]
      /\ task'[a].op = op /\ task'[a].pc = "wait" /\ task'[a].todo = todo
      /\ task'[a].p = p /\ task'[a].prev = prev
      /\ Concerned(a)' = About(todo, p)
      /\ \A q \in Plugins : ~Updates(a, q)
  <2>1. \A j \in ToSet(todo) : j.do \in ItemsOf(op) /\ j.do # "detach"
    BY <1>1, <1>2 DEF ItemsOf
  <2>2. op \in {"update", "reload", "uninstall", "reconcile", "shutdown"}
    OBVIOUS
  <2>3. AboutOnly(todo, p)
    BY <1>1, <1>2, <1>3 DEF AboutOnly
  <2>4. NewRequest(a, op, todo, p, prev) /\ todo \in Seq(Items)
    BY <1>1
  <2>5. \A j \in ToSet(todo) : /\ j.do \in ItemsOf(op)
                               /\ j.do = "detach" => rt[j.p] \in {"stopping", "gone"}
    BY <2>1
  <2> QED BY <2>2, <2>3, <2>4, <2>5, RequestRoles
<1>5. Concerned(a)' = {p} /\ ToSet(task[a].todo)' = {i}
  BY <1>1, <1>2, <1>4 DEF About
<1>6. \A u \in Tasks, q \in Plugins : Updates(u, q) => q \in Concerned(u) /\ task[u].op = "update"
  BY DEF Updates, Concerned
<1>7. CASE op # "update"
  <2>1. p \notin overlap' => \A u \in Tasks : ~Updates(u, p)
    BY <1>2, <1>3, <1>6 DEF Overlapping
  <2>2. Told(a)'
    BY <1>2, <1>4, <1>5, <1>7 DEF Told
  <2>3. \A q \in Plugins : ~Updates(a, q)'
    BY <1>4, <1>7 DEF Updates
  <2>4. Matching'
    <3>1. file' = file /\ overlap \subseteq overlap'
      BY <1>2, <1>7
    <3>2. \A q \in Plugins \ overlap' :
            q \in Concerned(a)' => \A u \in Tasks : ~Updates(u, q)
      BY <1>5, <2>1
    <3> QED BY <1>3, <1>4, <2>2, <2>3, <3>1, <3>2, MatchingStep
  <2> QED BY <1>4, <2>4 DEF Sound
<1>8. CASE op = "update"
  <2>1. p \notin overlap' => \A u \in Tasks : p \notin Concerned(u)
    BY <1>2, <1>3, <1>8 DEF Overlapping
  <2>2. /\ prev = file[p] /\ prev \in Configs /\ file'[p] = i.cfg
        /\ \A q \in Plugins : q # p => file'[q] = file[q]
    BY <1>2, <1>3, <1>8 DEF TypeOK
  <2>3. ASSUME NEW q \in Plugins \ overlap' PROVE Faithful(q)' /\ Alone(q)'
    <3>1. Faithful(q) /\ Alone(q) /\ q \in Plugins
      BY <1>2, <1>3, <2>3, MatchingParts
    <3>2. CASE q # p
      <4>1. ~Updates(a, q) /\ ~Updates(a, q)' /\ q \notin Concerned(a)'
        BY <1>4, <1>5, <3>1, <3>2 DEF Updates
      <4>2. Alone(q)'
        BY <1>4, <3>1, <4>1, AloneSame
      <4>3. Faithful(q)'
        BY <1>3, <1>4, <2>2, <3>1, <3>2, <4>1, FaithfulSame
      <4> QED BY <4>2, <4>3
    <3>3. CASE q = p
      <4>1. \A u \in Tasks : q \notin Concerned(u)
        BY <2>1, <2>3, <3>3
      <4>2. \A u \in Tasks : u # a => ~Updates(u, q)' /\ q \notin Concerned(u)'
        <5>1. \A u \in Tasks : u # a => (Updates(u, q)' <=> Updates(u, q)) /\ Concerned(u)' = Concerned(u)
          BY <1>4 DEF Updates, Concerned
        <5> QED BY <1>6, <3>1, <4>1, <5>1
      <4>3. Runs(q, prev)
        BY <1>6, <2>2, <3>1, <3>3, <4>1 DEF Faithful
      <4>4. Runs(q, task[a].prev)'
        BY <1>3, <1>4, <4>3 DEF Runs
      <4>5. Updates(a, q)' /\ Earlier(a)'
        BY <1>4, <1>8, <3>3 DEF Updates, Earlier
      <4>6. Faithful(q)'
        BY <1>4, <4>2, <4>4, <4>5 DEF Faithful
      <4>7. Alone(q)'
        BY <1>4, <4>2 DEF Alone
      <4> QED BY <4>6, <4>7
    <3> QED BY <3>2, <3>3
  <2>4. Told(a)'
    BY <1>2, <1>4, <1>5, <1>8, <2>2 DEF Told
  <2>5. ASSUME NEW u \in Tasks, u # a PROVE Told(u)'
    <3>1. task'[u] = task[u] /\ overlap \subseteq overlap'
      BY <1>2, <1>4, <2>5
    <3>2. /\ Told(u) /\ Changing(u) /\ Working(u) /\ task[u].todo \in Seq(Items)
      BY InvFacts
    <3>3. \A q \in Plugins : q \in Concerned(u) /\ q \notin overlap' => file'[q] = file[q]
      BY <2>1, <2>2
    <3>4. ASSUME NEW j \in ToSet(task[u].todo), j.do = "replace", j.p \notin overlap'
          PROVE  j.cfg = file'[j.p]
      <4>1. j \in Items
        BY <3>2, SeqFacts
      <4>2. j.p \in Plugins /\ j.p \in Concerned(u)
        BY <3>4, <4>1, ItemTypes, ConcernedFacts
      <4>3. j.cfg = file[j.p]
        BY <3>1, <3>2, <3>4 DEF Told
      <4> QED BY <3>3, <3>4, <4>2, <4>3
    <3>5. ASSUME task[u].pc \in {"init", "load", "undo"}, task[u].cand.p \notin overlap'
          PROVE  /\ task[u].cand.p \in installed /\ Enabled(task[u].cand.cfg)
                 /\ task[u].cand.cfg = file'[task[u].cand.p]
      <4>1. task[u].cand.p = Head(task[u].todo).p
        BY <3>2, <3>5 DEF Changing
      <4>2. /\ Head(task[u].todo) \in ToSet(task[u].todo) /\ Head(task[u].todo).p \in Plugins
        BY <1>3, <3>2, <3>5, HeldItem DEF Swapping
      <4>3. task[u].cand.p \in Concerned(u) /\ task[u].cand.p \in Plugins
        BY <4>1, <4>2, ConcernedFacts
      <4>4. /\ task[u].cand.p \in installed /\ Enabled(task[u].cand.cfg)
            /\ task[u].cand.cfg = file[task[u].cand.p]
        BY <3>1, <3>2, <3>5 DEF Told
      <4> QED BY <3>3, <3>5, <4>3, <4>4
    <3>6. task[u].op = "update" => task[u].prev \in Configs
      BY <3>2 DEF Told
    <3>7. task[u].op = "uninstall" /\ task[u].pc # "wait" =>
            task[u].pc \in {"drop", "next"} /\ states[task[u].p] = None
      BY <3>2 DEF Told
    <3> QED BY <1>3, <3>1, <3>4, <3>5, <3>6, <3>7 DEF Told
  <2>6. Matching'
    BY <2>3, <2>4, <2>5, MatchingParts
  <2> QED BY <1>4, <2>6 DEF Sound
<1> QED BY <1>7, <1>8

(* A request about every plugin keeps the invariant.                        *)
LEMMA SoundRequestAll ==
  ASSUME PluginHostAssumption, PluginInv, TypeOK', NEW a \in Admins, NEW todo \in Seq(Items),
         \/ NewRequest(a, "reconcile", todo, None, None) /\ AboutAll(todo)
         \/ NewRequest(a, "shutdown", todo, None, None) /\ AboutTheEnd(todo)
  PROVE  Sound'
<1>1. PICK op \in {"reconcile", "shutdown"} :
        /\ NewRequest(a, op, todo, None, None)
        /\ op = "reconcile" => AboutAll(todo)
        /\ op = "shutdown" => AboutTheEnd(todo)
  OBVIOUS
<1>2. /\ TypeOK /\ Roles /\ Matching
      /\ UNCHANGED <<installed, states, born, rt, lock>>
  BY <1>1 DEF PluginInv, NewRequest
<1>3. /\ file' = file /\ overlap \subseteq overlap'
      /\ \A j \in ToSet(todo) : /\ j.do \in ItemsOf(op) /\ j.do # "replace"
                                /\ j.do = "detach" => rt[j.p] \in {"stopping", "gone"}
  <2>1. CASE op = "reconcile"
    BY <1>1, <2>1 DEF AboutAll, ItemsOf
  <2>2. CASE op = "shutdown"
    BY <1>1, <2>2 DEF AboutTheEnd, ItemsOf
  <2> QED BY <2>1, <2>2
<1>4. /\ Roles' /\ Attached' /\ Binding' /\ (~torn' => Accounted')
      /\ \A u \in Tasks : Changing(u)'
      /\ a \in Tasks /\ lock # a /\ task[a].op = "idle" /\ task[a].pc = "idle"
      /\ \A u \in Tasks : u # a => task'[u] = task[u]
      /\ task'[a].op = op /\ task'[a].pc = "wait" /\ task'[a].todo = todo
      /\ task'[a].p = None /\ task'[a].prev = None
      /\ Concerned(a)' = About(todo, None)
      /\ \A q \in Plugins : ~Updates(a, q)
  BY <1>1, <1>3, RequestRoles
<1>5. ASSUME NEW q \in Plugins \ overlap', q \in Concerned(a)', NEW u \in Tasks, Updates(u, q)
      PROVE  FALSE
  <2>1. q \in Concerned(u) /\ task[u].op = "update"
    BY <1>5 DEF Updates, Concerned
  <2>2. CASE op = "reconcile"
    <3>1. q \in {j.p : j \in ToSet(todo)}
      BY <1>4, <1>5, PluginHostAssumption DEF About
    <3>2. q \in Overlapping({j.p : j \in ToSet(todo)}, FALSE)
      BY <2>1, <3>1 DEF Overlapping
    <3> QED BY <1>1, <1>5, <2>2, <3>2 DEF AboutAll
  <2>3. CASE op = "shutdown"
    BY <1>1, <2>1, <2>3 DEF AboutTheEnd, Idle
  <2> QED BY <2>2, <2>3
<1>6. Told(a)'
  <2>1. ToSet(task[a].todo)' = ToSet(todo)
    BY <1>4
  <2> QED BY <1>3, <1>4, <2>1 DEF Told
<1>7. \A q \in Plugins : ~Updates(a, q)'
  BY <1>4 DEF Updates
<1>8. Matching'
  BY <1>2, <1>3, <1>4, <1>5, <1>6, <1>7, MatchingStep
<1> QED BY <1>4, <1>8 DEF Sound

(* Every request keeps the invariant.                                       *)
LEMMA SoundRequests ==
  ASSUME PluginHostAssumption, PluginInv, TypeOK', NEW a \in Admins, Requests(a)
  PROVE  Sound'
<1>1. TypeOK
  BY DEF PluginInv
<1> QED BY <1>1, RequestsFacts, SoundRequestOne, SoundRequestAll

(* What only the workers and the breakers change.                          *)
LEMMA SoundCalls ==
  ASSUME PluginHostAssumption, PluginInv, TypeOK',
         UNCHANGED <<installed, file, states, born, alive, loaded, attached, bind, rt, lock,
                     task, overlap, torn>>,
         \A w \in Workers : worker'[w].inst # None =>
           worker'[w].c \in Contexts /\ rt[worker'[w].c] = "up"
  PROVE  Sound'
<1>1. /\ Roles /\ Attached /\ Binding /\ Matching /\ (~torn => Accounted)
      /\ \A u \in Tasks : Changing(u)
  BY DEF PluginInv
<1>2. Roles'
  BY <1>1 DEF Roles, Working, RoleOf, ToSet
<1>3. Attached'
  BY <1>1 DEF Attached, Attaching
<1>4. Binding'
  BY <1>1 DEF Binding, Numbered, OnePerPlugin, Bound
<1>5. Matching'
  BY <1>1 DEF Matching, Updates, Earlier, Runs, Concerned
<1>6. \A u \in Tasks : Changing(u)'
  BY <1>1, ChangingSame
<1>7. ~torn' => Accounted'
  BY <1>1, AccountedSame
<1> QED BY <1>2, <1>3, <1>4, <1>5, <1>6, <1>7 DEF Sound

(* Messages keep the invariant: workers only walk bots that run.            *)
LEMMA SoundInbound ==
  ASSUME PluginHostAssumption, PluginInv, TypeOK', NEW w \in Workers, Inbound(w)
  PROVE  Sound'
<1>1. TypeOK /\ \A v \in Workers : worker[v].inst # None => worker[v].c \in Contexts /\ rt[worker[v].c] = "up"
  BY DEF PluginInv, Attached
<1>2. /\ \/ \E c \in Contexts : rt[c] = "up" /\ Calls(w, c)
         \/ worker' = [worker EXCEPT ![w] = Resting]
      /\ UNCHANGED <<installed, file, states, born, alive, loaded, attached, bind, rt, lock,
                     task, ops, overlap, torn>>
  BY <1>1, InboundFacts
<1>3. ASSUME NEW v \in Workers, worker'[v].inst # None
      PROVE  worker'[v].c \in Contexts /\ rt[worker'[v].c] = "up"
  <2>1. CASE \E c \in Contexts : rt[c] = "up" /\ Calls(w, c)
    BY <1>1, <1>3, <2>1 DEF Calls
  <2>2. CASE worker' = [worker EXCEPT ![w] = Resting]
    <3>1. worker'[w] = Resting /\ (v # w => worker'[v] = worker[v])
      BY <1>1, <2>2 DEF TypeOK
    <3> QED BY <1>1, <1>3, <3>1 DEF Resting
  <2> QED BY <1>2, <2>1, <2>2
<1> QED BY <1>2, <1>3, SoundCalls

(* The invariant holds when initialize has run.                             *)
LEMMA PluginInit ==
  ASSUME PluginHostAssumption, Init
  PROVE  PluginInv
<1>1. /\ installed = Plugins /\ file \in [Plugins -> Configs]
      /\ states = [p \in Plugins |-> IF Enabled(file[p]) THEN InstanceOf(p, 1, file[p]) ELSE None]
      /\ born = [p \in Plugins |-> IF Enabled(file[p]) THEN 1 ELSE 0]
      /\ alive = {states[p] : p \in Plugins} \ {None} /\ loaded = {} /\ attached = <<>>
      /\ bind = [c \in Contexts |-> <<>>] /\ rt = [c \in Contexts |-> "fresh"]
      /\ lock = None /\ task = [t \in Tasks |-> Idle]
      /\ worker = [w \in Workers |-> Resting]
      /\ breaker = [c \in Contexts |-> [p \in Plugins |-> Closed]]
      /\ ops = 0 /\ calls = 0 /\ overlap = {} /\ torn = FALSE
  BY DEF Init
<1>2. /\ \A t \in Tasks : task[t] = Idle /\ task[t].op = "idle" /\ task[t].pc = "idle" /\ task[t].todo = <<>>
      /\ ToSet(<<>>) = {} /\ None \notin Tasks
      /\ \A c \in Contexts : bind[c] = <<>> /\ rt[c] = "fresh" /\ Bound(c) = {}
      /\ \A w \in Workers : worker[w] = Resting
  BY <1>1, PluginHostAssumption DEF Idle, ToSet, Tasks, Bound
<1>3. \A p \in Plugins : /\ InstanceOf(p, 1, file[p]) \in Instances
                         /\ InstanceOf(p, 1, file[p]).p = p /\ InstanceOf(p, 1, file[p]).n = 1
                         /\ InstanceOf(p, 1, file[p]).cfg = file[p]
                         /\ states[p] = IF Enabled(file[p]) THEN InstanceOf(p, 1, file[p]) ELSE None
                         /\ born[p] = IF Enabled(file[p]) THEN 1 ELSE 0
  BY <1>1 DEF InstanceOf, Instances
<1>4. TypeOK
  <2>1. states \in [Plugins -> Instances \cup {None}] /\ born \in [Plugins -> Nat]
    BY <1>1, <1>3
  <2>2. alive \subseteq Instances
    BY <1>1, <1>3
  <2>3. Idle \in Tasking
    <3>1. \A T : <<>> \in Seq(T)
      OBVIOUS
    <3>2. <<>> \in Seq(Items) /\ <<>> \in Seq(Contexts)
      BY <3>1
    <3> QED BY <3>2 DEF Idle, Tasking
  <2>4. task \in [Tasks -> Tasking]
    BY <1>1, <2>3
  <2>5. worker \in [Workers -> [c : Contexts \cup {None}, pos : Nat,
                                inst : Instances \cup {None}, probe : BOOLEAN]]
    BY <1>1 DEF Resting
  <2>6. Closed \in [n : 0 .. Trip, probe : BOOLEAN, st : {"closed", "open", "expired"}]
    BY PluginHostAssumption DEF Closed
  <2>7. breaker \in [Contexts -> [Plugins -> [n : 0 .. Trip, probe : BOOLEAN,
                                             st : {"closed", "open", "expired"}]]]
    BY <1>1, <2>6
  <2>8. attached \in Seq(Contexts) /\ bind \in [Contexts -> Seq(Bindings)]
    <3>1. <<>> \in Seq(Contexts) /\ <<>> \in Seq(Bindings)
      OBVIOUS
    <3> QED BY <1>1, <3>1
  <2>9. rt \in [Contexts -> {"fresh", "starting", "up", "stopping", "gone"}]
    BY <1>1
  <2>10. /\ installed \subseteq Plugins /\ file \in [Plugins -> Configs]
         /\ loaded \subseteq Instances \X Contexts /\ lock \in Tasks \cup {None}
         /\ ops \in Nat /\ calls \in Nat /\ overlap \subseteq Plugins /\ torn \in BOOLEAN
    BY <1>1
  <2> QED BY <2>1, <2>2, <2>4, <2>5, <2>7, <2>8, <2>9, <2>10 DEF TypeOK
<1>5. Roles
  <2>1. ASSUME NEW t \in Tasks PROVE Working(t)
    <3>1. lock # t
      BY <1>1, <1>2
    <3>2. task[t].back = <<>>
      BY <1>2 DEF Idle
    <3> QED BY <1>2, <3>1, <3>2 DEF Working, Swapping
  <2> QED BY <1>2, <2>1 DEF Roles, RoleOf, Tasks
<1>6. Attached
  BY <1>1, <1>2 DEF Attached, Attaching, Tasks, Resting
<1>7. Binding
  <2>1. \A c \in Contexts : DOMAIN bind[c] = {}
    BY <1>2
  <2>2. \A p \in Plugins : states[p] # None => Numbered(states[p], p)
    BY <1>3 DEF Numbered
  <2> QED BY <1>2, <2>1, <2>2 DEF Binding, OnePerPlugin
<1>8. Matching
  <2>1. \A t \in Tasks, p \in Plugins : ~Updates(t, p)
    BY <1>2 DEF Updates
  <2>2. \A p \in Plugins : Runs(p, file[p])
    BY <1>1, <1>3 DEF Runs
  <2> QED BY <1>2, <2>1, <2>2 DEF Matching
<1>9. \A t \in Tasks : Changing(t)
  BY <1>2 DEF Changing
<1>10. Accounted
  BY <1>1, <1>2 DEF Accounted, Leaving, Besides
<1> QED BY <1>4, <1>5, <1>6, <1>7, <1>8, <1>9, <1>10 DEF PluginInv

(* Every step keeps the invariant.                                          *)
LEMMA PluginStep ==
  ASSUME PluginHostAssumption, PluginInv, [Next]_vars
  PROVE  PluginInv'
<1>1. CASE UNCHANGED vars
  <2>1. UNCHANGED <<installed, file, states, born, alive, loaded, attached, bind, rt, lock, task,
                    worker, breaker, ops, calls, overlap, torn>>
    BY <1>1 DEF vars, host
  <2>2. TypeOK'
    BY <2>1 DEF PluginInv, TypeOK
  <2>3. Sound'
    BY <2>1, <2>2, SoundCalls DEF PluginInv, Attached
  <2> QED BY <2>2, <2>3 DEF PluginInv, Sound
<1>2. CASE \E a \in Admins : Requests(a)
  <2>1. TypeOK'
    BY <1>2, TypeRest
  <2>2. Sound'
    BY <1>2, <2>1, SoundRequests
  <2> QED BY <2>1, <2>2 DEF PluginInv, Sound
<1>3. CASE \E c \in Contexts : Bots(c)
  <2>1. PICK c \in Contexts : Bots(c)
    BY <1>3
  <2>2. TypeOK'
    BY <2>1, TypeBots
  <2>3. Sound'
    BY <2>1, <2>2, SoundStartBot, SoundCancel, SoundStopBot, SoundStartAttach, SoundBindNext DEF Bots
  <2> QED BY <2>2, <2>3 DEF PluginInv, Sound
<1>4. CASE \E t \in Tasks : Locked(t)
  <2>1. PICK t \in Tasks : Locked(t)
    BY <1>4
  <2>2. TypeOK'
    BY <2>1, TypeLocked
  <2>3. Sound'
    BY <2>1, <2>2, SoundTakeItem, SoundUndo, SoundSwap, SoundInitialised, SoundCandidateLoad,
       SoundRetire, SoundDrop, SoundStartDetach, SoundUnbind, SoundFail, SoundFinish DEF Locked
  <2> QED BY <2>2, <2>3 DEF PluginInv, Sound
<1>5. CASE \E w \in Workers : Inbound(w)
  <2>1. TypeOK'
    BY <1>5, TypeRest
  <2>2. Sound'
    BY <1>5, <2>1, SoundInbound
  <2> QED BY <2>1, <2>2 DEF PluginInv, Sound
<1>6. CASE \E c \in Contexts, p \in Plugins : BreakerExpires(c, p)
  <2>1. TypeOK'
    BY <1>6, TypeRest
  <2>2. UNCHANGED <<installed, file, states, born, alive, loaded, attached, bind, rt, lock,
                    task, worker, ops, calls, overlap, torn>>
    BY <1>6, ExpiryFacts DEF PluginInv
  <2>3. Sound'
    BY <2>1, <2>2, SoundCalls DEF PluginInv, Attached
  <2> QED BY <2>1, <2>3 DEF PluginInv, Sound
<1> QED BY <1>1, <1>2, <1>3, <1>4, <1>5, <1>6 DEF Next

(* With the lock free nothing is being unloaded, so everything is accounted *)
(* for.                                                                     *)
LEMMA LeftOverFollows ==
  ASSUME PluginHostAssumption, PluginInv
  PROVE  NothingLeftOver
<1>1. SUFFICES ASSUME lock = None, ~torn
               PROVE  /\ \A c \in Contexts : \A k \in DOMAIN bind[c] :
                            /\ bind[c][k].inst = states[bind[c][k].p]
                            /\ PositionOf(c, bind[c][k].p) = {k}
                      /\ loaded = UNION {{<<b.inst, c>> : b \in Bound(c)} : c \in Contexts}
                      /\ alive = {states[p] : p \in Plugins} \ {None}
  BY DEF NothingLeftOver
<1>2. TypeOK /\ Binding /\ Accounted /\ Quiet
  BY <1>1 DEF PluginInv, Quiet, Leaving, Besides, Unbinding, Dropping
<1>3. /\ \A c \in Contexts : bind[c] = <<>> \/ c \in ToSet(attached)
      /\ \A c \in Contexts : \A b \in Bound(c) : b.inst = states[b.p]
      /\ \A l \in loaded : \E b \in Bound(l[2]) : b.inst = l[1]
      /\ alive = {states[p] : p \in Plugins} \ {None}
  BY <1>2, QuietFacts
<1>4. ASSUME NEW c \in Contexts, NEW k \in DOMAIN bind[c]
      PROVE  /\ bind[c][k].inst = states[bind[c][k].p]
             /\ PositionOf(c, bind[c][k].p) = {k}
  <2>1. bind[c][k] \in Bound(c)
    BY DEF Bound, ToSet
  <2>2. OnePerPlugin(c)
    BY <1>2 DEF Binding
  <2> QED BY <1>3, <2>1, <2>2 DEF OnePerPlugin, PositionOf
<1>5. ASSUME NEW l \in loaded
      PROVE  l \in UNION {{<<b.inst, c>> : b \in Bound(c)} : c \in Contexts}
  <2>1. l[2] \in Contexts /\ l = <<l[1], l[2]>>
    BY <1>2, LoadedFacts
  <2>2. PICK b \in Bound(l[2]) : b.inst = l[1]
    BY <1>3
  <2> QED BY <2>1, <2>2
<1>6. ASSUME NEW c \in Contexts, NEW b \in Bound(c) PROVE <<b.inst, c>> \in loaded
  <2>1. bind[c] # <<>> /\ (c \in ToSet(attached) => <<b.inst, c>> \in loaded)
    BY <1>2, BoundFacts
  <2> QED BY <1>3, <2>1
<1> QED BY <1>3, <1>4, <1>5, <1>6

(* With nothing under way no update is, so what runs is what the file says. *)
LEMMA FileFollows ==
  ASSUME PluginHostAssumption, PluginInv
  PROVE  RunningMatchesFile
<1>1. SUFFICES ASSUME NEW p \in Plugins, \A t \in Tasks : task[t] = Idle, ~torn, p \notin overlap,
                      states[p] # None
               PROVE  p \in installed /\ Enabled(file[p]) /\ states[p].cfg = file[p]
  BY DEF RunningMatchesFile
<1>2. \A t \in Tasks : ~Updates(t, p)
  BY <1>1 DEF Updates, Idle
<1>3. Runs(p, file[p])
  BY <1>1, <1>2 DEF PluginInv, Matching
<1> QED BY <1>1, <1>3 DEF Runs

(* Only a message calls a plugin: every other step leaves the workers as     *)
(* they are, or lets them rest.                                              *)
LEMMA OthersCallNobody ==
  ASSUME TypeOK, Next, ~\E w \in Workers : Inbound(w)
  PROVE  \A w \in Workers : worker'[w] = worker[w] \/ worker'[w] = Resting
<1>1. CASE \E a \in Admins : Requests(a)
  <2>1. worker' = worker
    BY <1>1 DEF Requests, UpdateConfig, ReloadPlugin, Uninstall, ReconcileForced, Shutdown
  <2> QED BY <2>1
<1>2. CASE \E c \in Contexts : Bots(c)
  <2>1. PICK c \in Contexts : Bots(c)
    BY <1>2
  <2>2. CASE StopBot(c)
    BY <2>2, StopFacts
  <2>3. CASE ~StopBot(c)
    <3>1. worker' = worker
      BY <2>1, <2>3 DEF Bots, StartBot, CancelStart, StartAttach, BindNext, Outside
    <3> QED BY <3>1
  <2> QED BY <2>2, <2>3
<1>3. CASE \E t \in Tasks : Locked(t)
  <2>1. PICK t \in Tasks : Locked(t)
    BY <1>3
  <2>2. UNCHANGED worker
    <3>1. CASE TakeItem(t) \/ UndoCandidate(t) \/ SwapInstances(t) \/ RetireOld(t)
      BY <3>1 DEF TakeItem, UndoCandidate, SwapInstances, RetireOld, Outside
    <3>2. CASE \E ok \in BOOLEAN : Initialised(t, ok) \/ CandidateLoad(t, ok)
      BY <3>2 DEF Initialised, CandidateLoad, Outside
    <3>3. CASE DropInstance(t) \/ StartDetach(t) \/ UnbindNext(t)
      BY <3>3 DEF DropInstance, StartDetach, UnbindNext, Outside
    <3>4. CASE FailItem(t) \/ Finish(t)
      BY <3>4 DEF FailItem, Finish, Outside
    <3> QED BY <2>1, <3>1, <3>2, <3>3, <3>4 DEF Locked
  <2> QED BY <2>2
<1>4. CASE \E c \in Contexts, p \in Plugins : BreakerExpires(c, p)
  BY <1>4 DEF BreakerExpires
<1> QED BY <1>1, <1>2, <1>3, <1>4 DEF Next

(* A plugin that a message calls is bound to the bot, and so loaded there.   *)
LEMMA CallsStep ==
  ASSUME PluginHostAssumption, PluginInv, Next, NEW v \in Workers,
         worker'[v] # worker[v], worker'[v].inst # None
  PROVE  <<worker'[v].inst, worker'[v].c>> \in loaded
<1>1. /\ TypeOK /\ Attached /\ Binding
      /\ \A w \in Workers : worker[w].inst # None => worker[w].c \in Contexts /\ rt[worker[w].c] = "up"
  BY DEF PluginInv, Attached
<1>2. Resting.inst = None
  BY DEF Resting
<1>3. PICK w \in Workers : Inbound(w)
  BY <1>1, <1>2, OthersCallNobody
<1>4. CASE \E c \in Contexts : rt[c] = "up" /\ Calls(w, c)
  <2>1. PICK c \in Contexts : rt[c] = "up" /\ Calls(w, c)
    BY <1>4
  <2>2. PICK b \in Bound(c) : worker'[w].c = c /\ worker'[w].inst = b.inst
    BY <2>1 DEF Calls
  <2>3. v = w
    BY <2>1 DEF Calls
  <2>4. <<b.inst, c>> \in loaded
    BY <1>1, <2>1, BoundFacts DEF Attached
  <2> QED BY <2>2, <2>3, <2>4
<1>5. CASE worker' = [worker EXCEPT ![w] = Resting]
  <2>1. worker'[v] = worker[v] \/ worker'[v] = Resting
    BY <1>1, <1>5 DEF TypeOK
  <2> QED BY <1>2, <2>1
<1> QED BY <1>1, <1>3, <1>4, <1>5, InboundFacts

(* The inductive invariant holds in every execution.                        *)
THEOREM PluginInvariant == Spec => []PluginInv
<1>1. Init => PluginInv
  BY PluginInit, PluginHostAssumption
<1>2. PluginInv /\ [Next]_vars => PluginInv'
  BY PluginStep, PluginHostAssumption
<1> QED BY <1>1, <1>2, PTL DEF Spec

(* The tables of the manager, what each operation holds while it awaits a   *)
(* hook, and the breakers keep their types.                                 *)
THEOREM PluginTypes == Spec => []TypeOK
<1>1. PluginInv => TypeOK
  BY DEF PluginInv
<1> QED BY <1>1, PluginInvariant, PTL

(* Whenever the manager's lock is free, hooks, bindings and instances have  *)
(* been paired, whichever hooks raised in replace, attach, deactivate and   *)
(* detach: nothing is left loaded, bound or running that should not be.     *)
THEOREM HooksArePaired == Spec => []NothingLeftOver
<1>1. PluginInv => NothingLeftOver
  BY LeftOverFollows, PluginHostAssumption
<1> QED BY <1>1, PluginInvariant, PTL

(* An update whose replacement failed has put the file back, and one that   *)
(* came through runs what it wrote (update_plugin_config): apart from       *)
(* overlapping updates, what runs is what the file says.                    *)
THEOREM FileIsRun == Spec => []RunningMatchesFile
<1>1. PluginInv => RunningMatchesFile
  BY FileFollows, PluginHostAssumption
<1> QED BY <1>1, PluginInvariant, PTL

(* _dispatch_inbound_message_plugins takes no lock, and yet calls only what *)
(* is loaded on its bot: replacements swap before they unload, removals     *)
(* unbind before they unload, attachments bind after they load.             *)
THEOREM WorkersCallLoaded == Spec => CallsEnterLoaded
<1>1. PluginInv /\ [Next]_vars =>
        [\A w \in Workers :
           worker'[w] # worker[w] /\ worker'[w].inst # None =>
               <<worker'[w].inst, worker'[w].c>> \in loaded]_vars
  BY CallsStep, PluginHostAssumption
<1> QED BY <1>1, PluginInvariant, PTL DEF Spec, CallsEnterLoaded
=============================================================================
