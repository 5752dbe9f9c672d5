---------------------------- MODULE FoldTheorems ----------------------------
(* What FoldLeft computes, for any operation. The theorems are about the     *)
(* constant operators op and P, so that a module that folds an operation of  *)
(* its own takes them with INSTANCE FoldTheorems WITH op <- ..., P <- ...:   *)
(* no prover has then to find an operator.                                   *)
EXTENDS Integers, Sequences, SequencesExt, WellFoundedInduction, TLAPS

CONSTANTS
  op(_, _),       (* the operation: the result so far, the next item         *)
  P(_, _, _, _)   (* of a base, a sequence, a number of items and a result   *)

Folded(base, seq) == FoldLeft(op, base, seq)

(* The function that FoldLeft applies to the set of all places: it folds    *)
(* the items whose places are in a set, the last of them last.              *)
Folds(f, base, seq, n) ==
  f = [s \in SUBSET (1 .. n) |->
         IF s = {} THEN base
         ELSE op(f[s \ {Max(s)}], seq[Max(s)])]

(* A set of naturals that is not empty has a smallest member.               *)
LEMMA Smallest ==
  ASSUME NEW T, T \subseteq Nat, T # {}
  PROVE  \E n \in T : \A m \in T : ~(m < n)
<1>1. PICK x \in T : \A y \in T : ~(<<y, x>> \in OpToRel(<, Nat))
  BY NatLessThanWellFounded, WFMin
<1> QED BY <1>1 DEF OpToRel

(* The largest member of a set of places that contains the last one.        *)
LEMMA LargestIs ==
  ASSUME NEW n \in Nat, NEW s \in SUBSET (1 .. n), n \in s
  PROVE  Max(s) = n
<1>1. \E x \in s : \A y \in s : x >= y
  OBVIOUS
<1>2. Max(s) \in s /\ \A y \in s : Max(s) >= y
  BY <1>1 DEF Max
<1>3. PICK x \in s : x = Max(s) /\ \A y \in s : x >= y
  BY <1>2
<1>4. x \in 1 .. n /\ x >= n
  BY <1>3
<1> QED BY <1>3, <1>4

(* What such a function has for the first k places.                         *)
LEMMA FoldsStep ==
  ASSUME NEW f, NEW base, NEW seq, NEW n \in Nat, Folds(f, base, seq, n)
  PROVE  /\ f[1 .. 0] = base
         /\ \A k \in 1 .. n : f[1 .. k] = op(f[1 .. k - 1], seq[k])
<1>1. \A s \in SUBSET (1 .. n) :
        f[s] = IF s = {} THEN base ELSE op(f[s \ {Max(s)}], seq[Max(s)])
  BY DEF Folds
<1>2. f[1 .. 0] = base
  <2>1. 1 .. 0 = {} /\ 1 .. 0 \in SUBSET (1 .. n)
    OBVIOUS
  <2> QED BY <1>1, <2>1
<1>3. ASSUME NEW k \in 1 .. n
      PROVE  f[1 .. k] = op(f[1 .. k - 1], seq[k])
  <2>1. k \in Nat /\ k \in 1 .. k /\ 1 .. k \in SUBSET (1 .. k) /\ 1 .. k \in SUBSET (1 .. n)
    OBVIOUS
  <2>2. Max(1 .. k) = k
    BY <2>1, LargestIs
  <2>3. (1 .. k) \ {k} = 1 .. k - 1 /\ 1 .. k # {}
    <3>1. \A i \in 1 .. k : i # k => i \in 1 .. k - 1
      BY <2>1
    <3>2. \A i \in 1 .. k - 1 : i \in 1 .. k /\ i # k
      BY <2>1
    <3> QED BY <2>1, <3>1, <3>2
  <2> QED BY <1>1, <2>1, <2>2, <2>3
<1> QED BY <1>2, <1>3

(* The recursive definition determines a function.                          *)
LEMMA FoldsExist ==
  ASSUME NEW base, NEW seq, NEW len \in Nat
  PROVE  \E f : Folds(f, base, seq, len)
<1> DEFINE Bad == {n \in Nat : ~\E f : Folds(f, base, seq, n)}
<1>1. SUFFICES ASSUME Bad # {} PROVE FALSE
  OBVIOUS
<1>2. PICK n \in Bad : \A m \in Bad : ~(m < n)
  <2>1. Bad \subseteq Nat
    OBVIOUS
  <2> HIDE DEF Bad
  <2> QED BY <1>1, <2>1, Smallest
<1>3. n # 0
  <2> SUFFICES ASSUME n = 0 PROVE FALSE
    OBVIOUS
  <2> DEFINE f == [s \in SUBSET (1 .. 0) |-> base]
  <2>1. \A s \in SUBSET (1 .. 0) : s = {}
    OBVIOUS
  <2>2. f = [s \in SUBSET (1 .. 0) |->
               IF s = {} THEN base ELSE op(f[s \ {Max(s)}], seq[Max(s)])]
    BY <2>1
  <2>3. Folds(f, base, seq, 0)
    BY <2>2 DEF Folds
  <2> QED BY <2>3
<1>4. n \in Nat /\ n - 1 \in Nat /\ n - 1 \notin Bad
  BY <1>2, <1>3
<1>5. PICK f : Folds(f, base, seq, n - 1)
  BY <1>4
<1> DEFINE g == [s \in SUBSET (1 .. n) |->
                   IF n \in s THEN op(f[s \ {n}], seq[n]) ELSE f[s]]
<1>6. \A s \in SUBSET (1 .. n - 1) : s \in SUBSET (1 .. n) /\ g[s] = f[s]
  <2> SUFFICES ASSUME NEW s \in SUBSET (1 .. n - 1)
               PROVE  s \in SUBSET (1 .. n) /\ g[s] = f[s]
    OBVIOUS
  <2>1. s \in SUBSET (1 .. n) /\ n \notin s
    BY <1>4
  <2> QED BY <2>1
<1>7. ASSUME NEW s \in SUBSET (1 .. n)
      PROVE  g[s] = IF s = {} THEN base ELSE op(g[s \ {Max(s)}], seq[Max(s)])
  <2>1. CASE n \in s
    <3>1. Max(s) = n
      BY <1>4, <2>1, LargestIs
    <3>2. s \ {n} \in SUBSET (1 .. n - 1)
      BY <1>4
    <3>3. g[s \ {n}] = f[s \ {n}]
      BY <1>6, <3>2
    <3> QED BY <2>1, <3>1, <3>3
  <2>2. CASE n \notin s
    <3>1. s \in SUBSET (1 .. n - 1) /\ s \ {Max(s)} \in SUBSET (1 .. n - 1)
      <4>1. \A i \in s : i \in 1 .. n - 1
        <5> SUFFICES ASSUME NEW i \in s PROVE i \in 1 .. n - 1
          OBVIOUS
        <5>1. i \in 1 .. n /\ i # n
          BY <2>2
        <5> QED BY <1>4, <5>1
      <4> QED BY <4>1
    <3>2. f[s] = IF s = {} THEN base ELSE op(f[s \ {Max(s)}], seq[Max(s)])
      BY <1>5, <3>1 DEF Folds
    <3>3. g[s] = f[s] /\ g[s \ {Max(s)}] = f[s \ {Max(s)}]
      BY <1>6, <3>1
    <3> HIDE DEF g
    <3> QED BY <3>2, <3>3
  <2> QED BY <2>1, <2>2
<1>8. g = [s \in SUBSET (1 .. n) |->
             IF s = {} THEN base ELSE op(g[s \ {Max(s)}], seq[Max(s)])]
  BY <1>7
<1>9. Folds(g, base, seq, n)
  <2> HIDE DEF g
  <2> QED BY <1>8 DEF Folds
<1> QED BY <1>9

(* FoldLeft is what such a function has for all places.                     *)
LEMMA FoldedIs ==
  ASSUME NEW S, NEW base, NEW seq \in Seq(S)
  PROVE  \E f : Folds(f, base, seq, Len(seq)) /\ Folded(base, seq) = f[1 .. Len(seq)]
<1>1. \E f : Folds(f, base, seq, Len(seq))
  BY FoldsExist
<1>2. DOMAIN seq = 1 .. Len(seq)
  OBVIOUS
<1> QED BY <1>1, <1>2 DEF Folded, FoldLeft, MapThenFoldSet, Folds

(* Folding nothing changes nothing.                                         *)
THEOREM FoldOfNothing == ASSUME NEW base PROVE Folded(base, <<>>) = base
<1>1. <<>> \in Seq({}) /\ Len(<<>>) = 0
  OBVIOUS
<1>2. PICK f : Folds(f, base, <<>>, Len(<<>>)) /\ Folded(base, <<>>) = f[1 .. Len(<<>>)]
  BY <1>1, FoldedIs
<1>3. Folds(f, base, <<>>, 0) /\ Folded(base, <<>>) = f[1 .. 0]
  BY <1>1, <1>2
<1> QED BY <1>3, FoldsStep

(* What holds of the base and is preserved from one item to the next holds   *)
(* of the result.                                                           *)
THEOREM FoldInduction ==
  ASSUME NEW S, NEW base, NEW seq \in Seq(S),
         P(base, seq, 0, base),
         \A i \in 1 .. Len(seq) : \A v :
           P(base, seq, i - 1, v) => P(base, seq, i, op(v, seq[i]))
  PROVE  P(base, seq, Len(seq), Folded(base, seq))
<1>1. PICK f : Folds(f, base, seq, Len(seq)) /\ Folded(base, seq) = f[1 .. Len(seq)]
  BY FoldedIs
<1>2. /\ f[1 .. 0] = base
      /\ \A k \in 1 .. Len(seq) : f[1 .. k] = op(f[1 .. k - 1], seq[k])
  BY <1>1, FoldsStep
<1> DEFINE Bad == {i \in 0 .. Len(seq) : ~P(base, seq, i, f[1 .. i])}
<1>3. SUFFICES ASSUME Bad # {} PROVE FALSE
  <2>1. Len(seq) \in 0 .. Len(seq)
    OBVIOUS
  <2> QED BY <1>1, <2>1
<1>4. PICK n \in Bad : \A m \in Bad : ~(m < n)
  <2>1. Bad \subseteq Nat
    OBVIOUS
  <2> HIDE DEF Bad
  <2> QED BY <1>3, <2>1, Smallest
<1>5. n # 0
  BY <1>2
<1>6. n \in 1 .. Len(seq) /\ n - 1 \in 0 .. Len(seq) /\ n - 1 < n
  BY <1>5
<1>7. P(base, seq, n - 1, f[1 .. n - 1])
  BY <1>4, <1>6
<1>8. P(base, seq, n, op(f[1 .. n - 1], seq[n]))
  BY <1>6, <1>7
<1>9. f[1 .. n] = op(f[1 .. n - 1], seq[n])
  BY <1>2, <1>6
<1> QED BY <1>8, <1>9

(* The last item is applied to the result of the others.                    *)
THEOREM FoldOfAppend ==
  ASSUME NEW S, NEW base, NEW seq \in Seq(S), NEW x \in S
  PROVE  Folded(base, Append(seq, x)) = op(Folded(base, seq), x)
<1>1. PICK all : all = Append(seq, x)
  OBVIOUS
<1>2. /\ all \in Seq(S) /\ Len(all) = Len(seq) + 1 /\ all[Len(all)] = x
      /\ \A i \in 1 .. Len(seq) : all[i] = seq[i]
  BY <1>1
<1>3. PICK f : Folds(f, base, seq, Len(seq)) /\ Folded(base, seq) = f[1 .. Len(seq)]
  BY FoldedIs
<1>4. PICK g : Folds(g, base, all, Len(all)) /\ Folded(base, all) = g[1 .. Len(all)]
  BY <1>2, FoldedIs
<1>5. /\ f[1 .. 0] = base
      /\ \A k \in 1 .. Len(seq) : f[1 .. k] = op(f[1 .. k - 1], seq[k])
  BY <1>3, FoldsStep
<1>6. /\ g[1 .. 0] = base
      /\ \A k \in 1 .. Len(all) : g[1 .. k] = op(g[1 .. k - 1], all[k])
  BY <1>2, <1>4, FoldsStep
<1>7. f[1 .. Len(seq)] = g[1 .. Len(seq)]
  <2> DEFINE Bad == {i \in 0 .. Len(seq) : f[1 .. i] # g[1 .. i]}
  <2>1. SUFFICES ASSUME Bad # {} PROVE FALSE
    <3>1. Len(seq) \in 0 .. Len(seq)
      OBVIOUS
    <3> QED BY <3>1
  <2>2. PICK n \in Bad : \A m \in Bad : ~(m < n)
    <3>1. Bad \subseteq Nat
      OBVIOUS
    <3> HIDE DEF Bad
    <3> QED BY <2>1, <3>1, Smallest
  <2>3. n # 0
    BY <1>5, <1>6
  <2>4. n \in 1 .. Len(seq) /\ n \in 1 .. Len(all) /\ n - 1 \in 0 .. Len(seq) /\ n - 1 < n
    BY <1>2, <2>3
  <2>5. f[1 .. n - 1] = g[1 .. n - 1] /\ all[n] = seq[n]
    BY <1>2, <2>2, <2>4
  <2> QED BY <1>5, <1>6, <2>4, <2>5
<1>8. g[1 .. Len(all)] = op(g[1 .. Len(seq)], x)
  <2>1. Len(all) \in 1 .. Len(all) /\ Len(all) - 1 = Len(seq)
    BY <1>2
  <2> QED BY <1>2, <1>6, <2>1
<1> QED BY <1>1, <1>3, <1>4, <1>7, <1>8
=============================================================================
