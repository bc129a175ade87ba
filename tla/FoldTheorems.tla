---------------------------- MODULE FoldTheorems ----------------------------
(***************************************************************************)
(* What a fold keeps, for any operator: the induction that the proofs      *)
(* about loops over queues rest on. The operator has two parameters of its *)
(* own beside the accumulator and the element. Op is a constant, for a     *)
(* theorem cannot be instantiated with an operator. The module extends     *)
(* little, for it is instantiated with every loop there is: Fold is        *)
(* FoldLeft of SequencesExt, spelled out.                                  *)
(***************************************************************************)
EXTENDS Naturals, Sequences, Folds, WellFoundedInduction, TLAPS

CONSTANT Op(_, _, _, _)

Greatest(S) == CHOOSE x \in S : \A y \in S : x >= y

Fold(base, seq, p, q) ==
  MapThenFoldSet(LAMBDA y, x : Op(x, y, p, q), base,
                 LAMBDA i : seq[i], LAMBDA S : Greatest(S), DOMAIN seq)

LEMMA LeastNumber ==
  ASSUME NEW T \in SUBSET Nat, T # {}
  PROVE  \E n \in T : \A m \in T : ~(m < n)
<1>1. T \subseteq Nat
  OBVIOUS
<1>2. PICK n \in T : \A m \in T : ~ (<<m, n>> \in OpToRel(<, Nat))
  BY <1>1, NatLessThanWellFounded, WFMin, Zenon
<1>3. ASSUME NEW m \in T, m < n PROVE FALSE
  <2>1. <<m, n>> \in Nat \X Nat
    OBVIOUS
  <2>2. <<m, n>>[1] < <<m, n>>[2]
    BY <1>3
  <2>3. <<m, n>> \in OpToRel(<, Nat)
    BY <2>1, <2>2, Zenon DEF OpToRel
  <2> QED BY <1>2, <2>3, Zenon
<1> QED BY <1>3

LEMMA EveryNumber ==
  ASSUME NEW T \in SUBSET Nat, 0 \in T, \A n \in T : n + 1 \in T
  PROVE  \A n \in Nat : n \in T
<1> SUFFICES ASSUME Nat \ T # {} PROVE FALSE
  OBVIOUS
<1>1. Nat \ T \in SUBSET Nat
  OBVIOUS
<1>2. PICK n \in Nat \ T : \A m \in Nat \ T : ~(m < n)
  BY <1>1, LeastNumber
<1>3. n # 0 /\ n - 1 \in Nat /\ n - 1 < n
  OBVIOUS
<1>4. n - 1 \in T
  BY <1>2, <1>3
<1> QED BY <1>3, <1>4

LEMMA GreatestIs ==
  ASSUME NEW S \in SUBSET Nat, NEW m \in S, \A x \in S : x <= m
  PROVE  Greatest(S) = m
<1>1. \E x \in S : \A y \in S : x >= y
  OBVIOUS
<1>2. Greatest(S) \in S /\ \A y \in S : Greatest(S) >= y
  BY <1>1 DEF Greatest
<1>3. Greatest(S) \in Nat /\ m \in Nat /\ Greatest(S) <= m /\ m <= Greatest(S)
  BY <1>2
<1> HIDE DEF Greatest
<1> QED BY <1>3

\* The fold over the elements at the places of a set, the last one at last.
Law(f, m, base, seq, p, q) ==
  f = [s \in SUBSET (1 .. m) |->
         IF s = {} THEN base ELSE Op(f[s \ {Greatest(s)}], seq[Greatest(s)], p, q)]

LEMMA LawHolds ==
  ASSUME NEW base, NEW seq, NEW p, NEW q
  PROVE  \A m \in Nat : \E f : Law(f, m, base, seq, p, q)
<1> DEFINE T == {m \in Nat : \E f : Law(f, m, base, seq, p, q)}
<1>1. 0 \in T
  <2> DEFINE f == [s \in SUBSET (1 .. 0) |-> base]
  <2>1. (1 .. 0) = {} /\ \A s \in SUBSET (1 .. 0) : s = {}
    OBVIOUS
  <2>2. Law(f, 0, base, seq, p, q)
    BY <2>1 DEF Law
  <2> HIDE DEF f
  <2> QED BY <2>2
<1>2. ASSUME NEW m \in T PROVE m + 1 \in T
  <2>1. m \in Nat
    OBVIOUS
  <2>2. PICK f : Law(f, m, base, seq, p, q)
    OBVIOUS
  <2> DEFINE g == [s \in SUBSET (1 .. m + 1) |->
                     IF m + 1 \in s THEN Op(f[s \ {m + 1}], seq[m + 1], p, q) ELSE f[s]]
  <2>3. ASSUME NEW s \in SUBSET (1 .. m + 1)
        PROVE  g[s] = IF s = {} THEN base ELSE Op(g[s \ {Greatest(s)}], seq[Greatest(s)], p, q)
    <3>1. g[s] = IF m + 1 \in s THEN Op(f[s \ {m + 1}], seq[m + 1], p, q) ELSE f[s]
      OBVIOUS
    <3>2. CASE m + 1 \in s
      <4>1. s \in SUBSET Nat /\ \A x \in s : x <= m + 1
        BY <2>1
      <4>2. Greatest(s) = m + 1
        BY <3>2, <4>1, GreatestIs
      <4>3. s \ {m + 1} \in SUBSET (1 .. m + 1) /\ m + 1 \notin s \ {m + 1} /\ s # {}
        BY <3>2
      <4>4. g[s \ {m + 1}] = f[s \ {m + 1}]
        BY <4>3
      <4> QED BY <3>1, <3>2, <4>2, <4>3, <4>4
    <3>3. CASE m + 1 \notin s
      <4>1. s \in SUBSET (1 .. m)
        BY <2>1, <3>3
      <4>2. f[s] = IF s = {} THEN base ELSE Op(f[s \ {Greatest(s)}], seq[Greatest(s)], p, q)
        BY <2>2, <4>1 DEF Law
      <4>3. s \ {Greatest(s)} \in SUBSET (1 .. m + 1) /\ m + 1 \notin s \ {Greatest(s)}
        BY <3>3
      <4>4. g[s \ {Greatest(s)}] = f[s \ {Greatest(s)}]
        BY <4>3
      <4> QED BY <3>1, <3>3, <4>2, <4>4
    <3> QED BY <3>2, <3>3
  <2>4. g = [s \in SUBSET (1 .. m + 1) |-> g[s]]
    OBVIOUS
  <2> HIDE DEF g
  <2>5. Law(g, m + 1, base, seq, p, q)
    BY <2>3, <2>4 DEF Law
  <2> QED BY <2>1, <2>5
<1> HIDE DEF T
<1>3. T \in SUBSET Nat
  BY DEF T
<1>4. Nat \subseteq T
  BY <1>1, <1>2, <1>3, EveryNumber
<1> QED BY <1>4 DEF T

\* A fold over a sequence ends among the values G of its length, if its steps lead
\* from those of each length to those of the next.
LEMMA FoldReaches ==
  ASSUME NEW p, NEW q, NEW V, NEW seq \in Seq(V), NEW base, NEW G, base \in G[0],
         \A i \in 1 .. Len(seq) : \A x \in G[i - 1] : Op(x, seq[i], p, q) \in G[i]
  PROVE  Fold(base, seq, p, q) \in G[Len(seq)]
<1> DEFINE n == Len(seq)
           f == CHOOSE f : Law(f, n, base, seq, p, q)
           T == {m \in Nat : m <= n => f[1 .. m] \in G[m]}
<1>1. n \in Nat /\ DOMAIN seq = 1 .. n
  OBVIOUS
<1>2. Law(f, n, base, seq, p, q)
  BY <1>1, LawHolds
<1>3. Fold(base, seq, p, q) = f[1 .. n]
  BY <1>1 DEF Fold, MapThenFoldSet, Law
<1> HIDE DEF f, n
<1>4. 0 \in T
  <2>1. (1 .. 0) = {} /\ (1 .. 0) \in SUBSET (1 .. n)
    OBVIOUS
  <2>2. f[1 .. 0] = base
    BY <1>2, <2>1 DEF Law
  <2> QED BY <2>2
<1>5. ASSUME NEW m \in T PROVE m + 1 \in T
  <2> SUFFICES ASSUME m + 1 <= n PROVE f[1 .. m + 1] \in G[m + 1]
    OBVIOUS
  <2>1. m \in Nat /\ m + 1 \in 1 .. n /\ (m + 1) - 1 = m /\ m <= n
    BY <1>1
  <2>2. f[1 .. m] \in G[m]
    BY <2>1
  <2>3. Greatest(1 .. m + 1) = m + 1
    <3>1. (1 .. m + 1) \in SUBSET Nat /\ m + 1 \in 1 .. m + 1 /\ \A x \in 1 .. m + 1 : x <= m + 1
      BY <2>1
    <3> QED BY <3>1, GreatestIs
  <2>4. (1 .. m + 1) \in SUBSET (1 .. n) /\ (1 .. m + 1) # {} /\ (1 .. m + 1) \ {m + 1} = 1 .. m
    <3>1. \A x \in 1 .. m + 1 : x \in 1 .. n
      BY <1>1, <2>1
    <3>2. m + 1 \in 1 .. m + 1
      BY <2>1
    <3>3. \A x : x \in (1 .. m + 1) \ {m + 1} <=> x \in 1 .. m
      BY <2>1
    <3> QED BY <3>1, <3>2, <3>3
  <2>5. f[1 .. m + 1] = Op(f[1 .. m], seq[m + 1], p, q)
    BY <1>2, <2>3, <2>4 DEF Law
  <2>6. Op(f[1 .. m], seq[m + 1], p, q) \in G[m + 1]
    BY <2>1, <2>2 DEF n
  <2> QED BY <2>5, <2>6
<1> HIDE DEF T
<1>6. T \in SUBSET Nat
  BY DEF T
<1>7. n \in T
  BY <1>1, <1>4, <1>5, <1>6, EveryNumber
<1>8. f[1 .. n] \in G[n]
  BY <1>1, <1>7 DEF T
<1> QED BY <1>3, <1>8 DEF n

\* A fold keeps what each of its steps keeps.
LEMMA FoldKeeps ==
  ASSUME NEW p, NEW q, NEW V, NEW seq \in Seq(V), NEW U, NEW base \in U,
         \A x \in U, y \in V : Op(x, y, p, q) \in U
  PROVE  Fold(base, seq, p, q) \in U
<1> DEFINE G == [i \in Nat |-> U]
<1>1. Len(seq) \in Nat /\ \A i \in 1 .. Len(seq) : i \in Nat /\ i - 1 \in Nat /\ seq[i] \in V
  OBVIOUS
<1>2. base \in G[0]
  OBVIOUS
<1>3. \A i \in 1 .. Len(seq) : \A x \in G[i - 1] : Op(x, seq[i], p, q) \in G[i]
  BY <1>1
<1>4. G[Len(seq)] = U
  BY <1>1
<1> HIDE DEF G
<1>5. Fold(base, seq, p, q) \in G[Len(seq)]
  BY <1>2, <1>3, FoldReaches
<1> QED BY <1>4, <1>5
=============================================================================
