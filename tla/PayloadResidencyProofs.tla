----------------------- MODULE PayloadResidencyProofs -----------------------
(***************************************************************************)
(* The residency of cached payloads, for any payloads, sizes, budgets and  *)
(* capacities.                                                             *)
(***************************************************************************)
EXTENDS PayloadResidency, SequenceTheorems, FiniteSetTheorems, TLAPS

(***************************************************************************)
(* The loops, each as a fold of an operator.                               *)
(***************************************************************************)

EnsureStep(b, w, cpu, gpu) ==
  IF Fits(b, cpu, gpu) \/ b.warm = <<>> THEN b ELSE EvictOldestWarm(b)
Ensures == INSTANCE FoldTheorems WITH Op <- EnsureStep

(***************************************************************************)
(* The bytes of a set of payloads.                                         *)
(***************************************************************************)

Some(S) == CHOOSE x \in S : TRUE

Totals(f, S) ==
  f = [s \in SUBSET S |-> IF s = {} THEN 0 ELSE Decoded[Some(s)] + f[s \ {Some(s)}]]

LEMMA Sizes ==
  /\ NumKeys \in Nat /\ IsFiniteSet(Keys) /\ Keys \subseteq Nat
  /\ Decoded \in [Keys -> Nat] /\ Geometry \in [Keys -> Nat] /\ Animation \in [Keys -> Nat]
  /\ CpuBudget \in Nat /\ GpuBudget \in Nat /\ UploadBudget \in Nat
  /\ LoaderCapacity \in Nat /\ WorkerCapacity \in Nat /\ RepairCapacity \in Nat
  /\ PersistenceCapacity \in Nat /\ Animated \subseteq Keys
  /\ None \notin Nat /\ None \notin [key : Keys, generation : Nat, bytes : Nat]
<1>1. NumKeys \in Nat
  BY ResidencyAssumption
<1>2. IsFiniteSet(Keys) /\ Keys \subseteq Nat
  BY <1>1, FS_Interval DEF Keys
<1> QED BY <1>1, <1>2, ResidencyAssumption

\* The sets of payloads of at most some number, as induction on it takes them.
Few(n) == {s \in SUBSET Keys : Cardinality(s) <= n}

LEMMA FewOnes ==
  /\ Few(0) = {{}} /\ \E n \in Nat : Few(n) = SUBSET Keys
  /\ \A n \in Nat : \A s \in Few(n + 1) : \A x \in s : s \ {x} \in Few(n)
  /\ \A n \in Nat : Few(n) \subseteq Few(n + 1)
<1>1. \A s \in SUBSET Keys : IsFiniteSet(s) /\ Cardinality(s) \in Nat
                               /\ Cardinality(s) <= Cardinality(Keys)
  BY Sizes, FS_Subset, FS_CardinalityType
<1>2. Few(0) = {{}}
  <2>1. \A s \in SUBSET Keys : Cardinality(s) <= 0 <=> s = {}
    BY <1>1, FS_EmptySet
  <2> QED BY <2>1 DEF Few
<1>3. Cardinality(Keys) \in Nat /\ Few(Cardinality(Keys)) = SUBSET Keys
  BY <1>1, FS_CardinalityType, Sizes DEF Few
<1>4. ASSUME NEW n \in Nat, NEW s \in Few(n + 1), NEW x \in s PROVE s \ {x} \in Few(n)
  <2>1. s \in SUBSET Keys /\ IsFiniteSet(s) /\ Cardinality(s) <= n + 1 /\ Cardinality(s) \in Nat
    BY <1>1 DEF Few
  <2>2. Cardinality(s \ {x}) = Cardinality(s) - 1
    BY <2>1, FS_RemoveElement
  <2> QED BY <2>1, <2>2 DEF Few
<1>5. ASSUME NEW n \in Nat, NEW s \in Few(n) PROVE s \in Few(n + 1)
  BY <1>1 DEF Few
<1> QED BY <1>2, <1>3, <1>4, <1>5

LEMMA SomeIn == ASSUME NEW S, S # {} PROVE Some(S) \in S
  BY DEF Some

LEMMA TotalsExist == \E f : Totals(f, Keys)
<1> DEFINE Below(f, n) ==
             f = [s \in Few(n) |-> IF s = {} THEN 0 ELSE Decoded[Some(s)] + f[s \ {Some(s)}]]
           T == {n \in Nat : \E f : Below(f, n)}
<1>1. 0 \in T
  <2> DEFINE f == [s \in Few(0) |-> 0]
  <2>1. \A s \in Few(0) : s = {}
    BY FewOnes
  <2>2. Below(f, 0)
    BY <2>1
  <2> HIDE DEF f
  <2> QED BY <2>2
<1>2. ASSUME NEW n \in T PROVE n + 1 \in T
  <2>1. n \in Nat /\ n + 1 \in Nat
    OBVIOUS
  <2>2. PICK f : Below(f, n)
    OBVIOUS
  <2> DEFINE g == [s \in Few(n + 1) |->
                     IF s = {} THEN 0 ELSE Decoded[Some(s)] + f[s \ {Some(s)}]]
  <2>3. ASSUME NEW s \in Few(n + 1), s # {}
        PROVE  g[s \ {Some(s)}] = f[s \ {Some(s)}]
    <3>1. s \ {Some(s)} \in Few(n) /\ s \ {Some(s)} \in Few(n + 1)
      BY <2>1, <2>3, SomeIn, FewOnes
    <3> DEFINE t == s \ {Some(s)}
    <3> HIDE DEF t
    <3>2. t \in Few(n) /\ t \in Few(n + 1)
      BY <3>1 DEF t
    <3>3. g[t] = f[t]
      BY <2>2, <3>2
    <3> QED BY <3>3 DEF t
  <2>4. Below(g, n + 1)
    BY <2>3
  <2> HIDE DEF g
  <2> QED BY <2>1, <2>4
<1> HIDE DEF T
<1>3. T \in SUBSET Nat
  BY DEF T
<1>4. Nat \subseteq T
  BY <1>1, <1>2, <1>3, Ensures!EveryNumber
<1>5. PICK n \in Nat : Few(n) = SUBSET Keys
  BY FewOnes
<1>6. n \in T
  BY <1>4
<1> QED BY <1>5, <1>6 DEF T, Totals

Total == CHOOSE f : Totals(f, Keys)

LEMMA TotalOf ==
  ASSUME NEW s \in SUBSET Keys
  PROVE  Total[s] = IF s = {} THEN 0 ELSE Decoded[Some(s)] + Total[s \ {Some(s)}]
<1>1. Totals(Total, Keys)
  BY TotalsExist DEF Total
<1> HIDE DEF Total
<1> QED BY <1>1 DEF Totals

\* Whatever its sums are taken from, a set has one sum.
LEMMA OneTotal ==
  ASSUME NEW S \in SUBSET Keys, NEW f, Totals(f, S)
  PROVE  f[S] = Total[S]
<1> DEFINE T == {n \in Nat : \A s \in Few(n) : s \subseteq S => f[s] = Total[s]}
<1>1. 0 \in T
  <2>1. \A s \in Few(0) : s = {}
    BY FewOnes
  <2>2. f[{}] = 0 /\ Total[{}] = 0
    BY TotalOf DEF Totals
  <2> QED BY <2>1, <2>2
<1>2. ASSUME NEW n \in T PROVE n + 1 \in T
  <2> SUFFICES ASSUME NEW s \in Few(n + 1), s \subseteq S, s # {} PROVE f[s] = Total[s]
    <3>1. f[{}] = 0 /\ Total[{}] = 0
      BY TotalOf DEF Totals
    <3> QED BY <3>1
  <2>1. n \in Nat /\ Some(s) \in s
    BY SomeIn
  <2>2. s \ {Some(s)} \in Few(n) /\ s \ {Some(s)} \subseteq S
    BY <2>1, FewOnes
  <2>3. f[s \ {Some(s)}] = Total[s \ {Some(s)}]
    BY <2>2
  <2>4. f[s] = Decoded[Some(s)] + f[s \ {Some(s)}]
    BY DEF Totals
  <2>5. s \in SUBSET Keys
    OBVIOUS
  <2> QED BY <2>3, <2>4, <2>5, TotalOf
<1> HIDE DEF T
<1>3. T \in SUBSET Nat
  BY DEF T
<1>4. Nat \subseteq T
  BY <1>1, <1>2, <1>3, Ensures!EveryNumber
<1>5. PICK n \in Nat : Few(n) = SUBSET Keys
  BY FewOnes
<1>6. n \in T
  BY <1>4
<1> QED BY <1>5, <1>6 DEF T

LEMMA BytesIsTotal ==
  ASSUME NEW S \in SUBSET Keys
  PROVE  Bytes(S) = Total[S]
<1> DEFINE g == [s \in SUBSET S |-> Total[s]]
           f == CHOOSE f : Totals(f, S)
<1>1. Totals(g, S)
  <2>1. ASSUME NEW s \in SUBSET S
        PROVE  g[s] = IF s = {} THEN 0 ELSE Decoded[Some(s)] + g[s \ {Some(s)}]
    <3>1. s \in SUBSET Keys /\ s \ {Some(s)} \in SUBSET S
      OBVIOUS
    <3>2. g[s] = Total[s] /\ g[s \ {Some(s)}] = Total[s \ {Some(s)}]
      BY <3>1
    <3> QED BY <3>1, <3>2, TotalOf
  <2>2. g = [s \in SUBSET S |-> g[s]]
    OBVIOUS
  <2> HIDE DEF g
  <2> QED BY <2>1, <2>2 DEF Totals
<1>2. Totals(f, S)
  <2> HIDE DEF g
  <2> QED BY <1>1
<1>3. Bytes(S) = f[S]
  BY DEF Bytes, SumFunctionOnSet, FoldFunctionOnSet, MapThenFoldSet, Totals, Some
<1> HIDE DEF f
<1> QED BY <1>2, <1>3, OneTotal

LEMMA TotalNat == \A S \in SUBSET Keys : Total[S] \in Nat
<1> DEFINE T == {n \in Nat : \A s \in Few(n) : Total[s] \in Nat}
<1>0. Total[{}] = 0
  <2>1. {} \in SUBSET Keys
    OBVIOUS
  <2> QED BY <2>1, TotalOf, Zenon
<1>1. 0 \in T
  <2>1. \A s \in Few(0) : s = {}
    BY FewOnes
  <2> QED BY <1>0, <2>1
<1>2. ASSUME NEW n \in T PROVE n + 1 \in T
  <2> SUFFICES ASSUME NEW s \in Few(n + 1) PROVE Total[s] \in Nat
    OBVIOUS
  <2>1. s \in SUBSET Keys
    BY DEF Few
  <2>2. CASE s = {}
    BY <1>0, <2>2
  <2>3. CASE s # {}
    <3>1. Some(s) \in s /\ Some(s) \in Keys
      BY <2>1, <2>3, SomeIn
    <3>2. Total[s \ {Some(s)}] \in Nat
      BY <3>1, FewOnes
    <3>3. Total[s] = Decoded[Some(s)] + Total[s \ {Some(s)}]
      BY <2>1, <2>3, TotalOf
    <3>4. Decoded[Some(s)] \in Nat
      BY <3>1, Sizes
    <3> QED BY <3>2, <3>3, <3>4
  <2> QED BY <2>2, <2>3
<1> HIDE DEF T
<1>3. T \in SUBSET Nat
  BY DEF T
<1>4. Nat \subseteq T
  BY <1>1, <1>2, <1>3, Ensures!EveryNumber
<1>5. PICK n \in Nat : Few(n) = SUBSET Keys
  BY FewOnes
<1>6. n \in T
  BY <1>4
<1> QED BY <1>5, <1>6 DEF T

LEMMA TotalWithout ==
  \A S \in SUBSET Keys : \A x \in S : Total[S] = Decoded[x] + Total[S \ {x}]
<1> DEFINE T == {n \in Nat : \A s \in Few(n) : \A x \in s :
                   Total[s] = Decoded[x] + Total[s \ {x}]}
<1>1. 0 \in T
  <2>1. \A s \in Few(0) : s = {}
    BY FewOnes
  <2> QED BY <2>1
<1>2. ASSUME NEW n \in T PROVE n + 1 \in T
  <2> SUFFICES ASSUME NEW s \in Few(n + 1), NEW x \in s
               PROVE  Total[s] = Decoded[x] + Total[s \ {x}]
    OBVIOUS
  <2> DEFINE y == Some(s)
  <2>1. s \in SUBSET Keys /\ s \ {x} \in SUBSET Keys /\ s \ {y} \in SUBSET Keys
    BY DEF Few
  <2>2. y \in s /\ Total[s] = Decoded[y] + Total[s \ {y}]
    BY <2>1, SomeIn, TotalOf
  <2> HIDE DEF y
  <2>3. CASE x = y
    BY <2>2, <2>3
  <2>4. CASE x # y
    <3> DEFINE rest == s \ {x, y}
    <3>1. s \ {x} \in Few(n) /\ s \ {y} \in Few(n) /\ x \in s \ {y} /\ y \in s \ {x}
      BY <2>2, <2>4, FewOnes
    <3>2. (s \ {x}) \ {y} = rest /\ (s \ {y}) \ {x} = rest /\ rest \in SUBSET Keys
      BY <2>1
    <3>3. Total[s \ {x}] = Decoded[y] + Total[rest] /\ Total[s \ {y}] = Decoded[x] + Total[rest]
      BY <3>1, <3>2
    <3>4. Total[rest] \in Nat /\ Decoded[x] \in Nat /\ Decoded[y] \in Nat
      BY <2>1, <2>2, <3>2, TotalNat, Sizes
    <3> QED BY <2>2, <3>3, <3>4
  <2> QED BY <2>3, <2>4
<1> HIDE DEF T
<1>3. T \in SUBSET Nat
  BY DEF T
<1>4. Nat \subseteq T
  BY <1>1, <1>2, <1>3, Ensures!EveryNumber
<1>5. PICK n \in Nat : Few(n) = SUBSET Keys
  BY FewOnes
<1>6. n \in T
  BY <1>4
<1> QED BY <1>5, <1>6 DEF T

\* One payload more or less is its bytes more or less.
LEMMA BytesOf ==
  /\ Bytes({}) = 0
  /\ \A S \in SUBSET Keys : Bytes(S) \in Nat
  /\ \A S \in SUBSET Keys, x \in Keys :
       /\ x \in S => Bytes(S \ {x}) = Bytes(S) - Decoded[x] /\ Decoded[x] <= Bytes(S)
       /\ x \notin S => Bytes(S \cup {x}) = Bytes(S) + Decoded[x]
<1>1. \A S \in SUBSET Keys : Bytes(S) \in Nat /\ Bytes(S) = Total[S]
  BY BytesIsTotal, TotalNat
<1>2. Bytes({}) = 0
  BY <1>1, TotalOf
<1>3. ASSUME NEW S \in SUBSET Keys, NEW x \in Keys, x \in S
      PROVE  Bytes(S \ {x}) = Bytes(S) - Decoded[x] /\ Decoded[x] <= Bytes(S)
  <2>1. S \ {x} \in SUBSET Keys /\ Total[S] = Decoded[x] + Total[S \ {x}]
    BY <1>3, TotalWithout
  <2>2. Bytes(S) = Total[S] /\ Bytes(S \ {x}) = Total[S \ {x}] /\ Bytes(S \ {x}) \in Nat
    BY <1>1, <2>1
  <2> QED BY <2>1, <2>2, Sizes
<1>4. ASSUME NEW S \in SUBSET Keys, NEW x \in Keys, x \notin S
      PROVE  Bytes(S \cup {x}) = Bytes(S) + Decoded[x]
  <2>1. S \cup {x} \in SUBSET Keys /\ x \in S \cup {x} /\ (S \cup {x}) \ {x} = S
    BY <1>4
  <2>2. Bytes(S) = Bytes(S \cup {x}) - Decoded[x] /\ Bytes(S \cup {x}) \in Nat
    BY <1>1, <1>3, <2>1
  <2> QED BY <1>1, <2>2, Sizes
<1> QED BY <1>1, <1>2, <1>3, <1>4

LEMMA BytesGrow ==
  ASSUME NEW S \in SUBSET Keys, NEW R \in SUBSET S
  PROVE  Bytes(R) <= Bytes(S)
<1> DEFINE T == {n \in Nat : \A s \in Few(n) : Bytes(R) <= Bytes(R \cup s)}
<1>1. 0 \in T
  <2>1. ASSUME NEW s \in Few(0) PROVE Bytes(R) <= Bytes(R \cup s)
    <3>1. R \cup s = R
      BY FewOnes
    <3>2. Bytes(R \cup s) = Bytes(R)
      BY <3>1, Zenon
    <3> QED BY <3>2, BytesOf
  <2> QED BY <2>1
<1>2. ASSUME NEW n \in T PROVE n + 1 \in T
  <2> SUFFICES ASSUME NEW s \in Few(n + 1) PROVE Bytes(R) <= Bytes(R \cup s)
    OBVIOUS
  <2>1. s \in SUBSET Keys /\ R \in SUBSET Keys /\ Bytes(R) \in Nat
    BY BytesOf DEF Few
  <2>2. CASE s = {}
    <3>1. R \cup s = R
      BY <2>2
    <3>2. Bytes(R \cup s) = Bytes(R)
      BY <3>1, Zenon
    <3> QED BY <2>1, <3>2
  <2>3. CASE s # {}
    <3>1. PICK x \in s : TRUE
      BY <2>3
    <3>2. s \ {x} \in Few(n) /\ R \cup (s \ {x}) \in SUBSET Keys /\ x \in Keys
      BY <2>1, <3>1, FewOnes
    <3>3. Bytes(R) <= Bytes(R \cup (s \ {x})) /\ Bytes(R \cup (s \ {x})) \in Nat
      BY <3>2, BytesOf
    <3>4. CASE x \in R
      <4>1. R \cup s = R \cup (s \ {x})
        BY <3>4
      <4> QED BY <3>3, <4>1
    <3>5. CASE x \notin R
      <4>1. R \cup s = (R \cup (s \ {x})) \cup {x} /\ x \notin R \cup (s \ {x})
        BY <3>1, <3>5
      <4>2. Bytes(R \cup s) = Bytes(R \cup (s \ {x})) + Decoded[x]
        BY <3>2, <4>1, BytesOf
      <4> QED BY <2>1, <3>2, <3>3, <4>2, Sizes
    <3> QED BY <3>4, <3>5
  <2> QED BY <2>2, <2>3
<1> HIDE DEF T
<1>3. T \in SUBSET Nat
  BY DEF T
<1>4. Nat \subseteq T
  BY <1>1, <1>2, <1>3, Ensures!EveryNumber
<1>5. PICK n \in Nat : Few(n) = SUBSET Keys
  BY FewOnes
<1>6. n \in T /\ S \in Few(n) /\ R \cup S = S
  BY <1>4, <1>5
<1> QED BY <1>6 DEF T

States == {"Unloaded", "Queued", "Loading", "RepairWaiting", "CpuReady", "GpuResident", "Warm"}
Reasons == {"CameraNear", "Selected", "AnimationRequired"}
RepairPhases == {"NeedScenePayload", "NeedProjectLookup", "CacheReady"}
Held == {"CpuReady", "GpuResident", "Warm"}

Records ==
  [state : States, reasons : SUBSET Reasons, satisfied : SUBSET Parts,
   queued : SUBSET Parts, flight : SUBSET Parts, bytes : Nat,
   payload : BOOLEAN, handle : BOOLEAN]

Jobs == [key : Keys, generation : Nat, bytes : Nat]
JobsOf(gen) == {job \in Jobs : job.generation = gen}
WarmOnes == [key : Keys, cpu : Nat, gpu : Nat]

Authorities ==
  [records : [Keys -> Records], loader : Seq(Jobs), phases : [Keys -> RepairPhases],
   failed : SUBSET Keys, ready : Seq(Keys), warm : Seq(WarmOnes),
   pending : SUBSET Keys, retry : SUBSET Keys, mislaid : SUBSET Keys,
   lost : SUBSET Keys, cpuUsed : Nat, cpuReserved : Nat, gpuUsed : Nat]

Names(seq) == {seq[i].key : i \in DOMAIN seq}
Distinct(seq) == \A i, j \in DOMAIN seq : seq[i].key = seq[j].key => i = j

OnCard(a) == {k \in Keys : a.records[k].handle}
Counted(a) == {k \in Keys : a.records[k].handle \/ a.records[k].payload} \cup a.lost

\* The counters, and the warm payloads, which are what eviction knows of them.
Stored(a) ==
  /\ a.cpuUsed = Bytes(Counted(a)) /\ a.gpuUsed = Bytes(OnCard(a))
  /\ a.cpuUsed + a.cpuReserved <= CpuBudget /\ a.gpuUsed <= GpuBudget
  /\ Distinct(a.warm)
  /\ \A w \in Range(a.warm) :
       /\ w.key \in Counted(a) /\ w.cpu = Decoded[w.key]
       /\ w.gpu = IF a.records[w.key].handle THEN Decoded[w.key] ELSE 0

\* A payload nothing of which was ever held.
Unheld(a, k) ==
  LET r == a.records[k]
  IN  /\ k \notin a.mislaid /\ ~r.payload /\ ~r.handle /\ r.state \notin Held
      /\ r.state = "Loading" <=> r.flight # {}
      /\ r.flight # {} => r.queued = {}
      /\ r.state = "Queued" => r.queued # {}

\* One of which something was.
OnceHeld(a, k) ==
  LET r == a.records[k]
  IN  /\ {"geometry", "material"} \subseteq r.satisfied
      /\ "material" \notin r.queued \cup r.flight
      /\ r.state # "Loading"
      /\ r.state = "RepairWaiting" => k \in a.mislaid

\* Where a payload that was not mislaid is.
Placed(a, k) ==
  LET r == a.records[k]
  IN  /\ r.payload \/ r.handle => r.state \in Held
      /\ r.flight # {} => r.queued = {}
      /\ r.queued # {} <=> k \in Names(a.loader)
      /\ r.state = "CpuReady" <=> k \in Range(a.ready)
      /\ k \in Names(a.warm) => r.state = "Warm"
      /\ k \notin a.lost

Sound(a, k) ==
  LET r == a.records[k]
  IN  /\ IF r.satisfied = {} THEN Unheld(a, k) ELSE OnceHeld(a, k)
      /\ k \notin a.mislaid => Placed(a, k)
      /\ ~(r.payload /\ r.handle)
      /\ r.state = "CpuReady" => r.payload
      /\ r.state = "GpuResident" => r.handle
      /\ r.state = "Warm" => r.payload \/ r.handle
      /\ r.state \in Held => r.bytes = Decoded[k] /\ k \notin a.mislaid
      /\ k \in a.lost => ~r.payload /\ ~r.handle

\* What is queued of a payload of which nothing was held is all that is wanted of it.
Covered(a, k) ==
  LET r == a.records[k]
  IN  r.satisfied = {} /\ k \notin a.failed /\ r.queued # {} =>
        Requested(r) \subseteq r.queued /\ (r.reasons = {} => r.queued = {"geometry"})

Fine(a, k) == Sound(a, k) /\ Covered(a, k)

Lists(a, gen) ==
  /\ Distinct(a.loader) /\ IsInjective(a.ready)
  /\ a.loader \in Seq(JobsOf(gen))

Good(a, gen) ==
  /\ a \in Authorities /\ Stored(a) /\ Lists(a, gen)
  /\ \A k \in Keys : Fine(a, k)

Loads == [job : Jobs, mask : {{}, {"geometry", "material"}, Parts}]
Repairs == [job : Jobs, phase : RepairPhases]

Wants == [near : SUBSET Keys, moved : BOOLEAN, selected : SUBSET Keys, playing : BOOLEAN]

ResidencyTyped ==
  /\ generation \in Nat \cup {None}
  /\ phase # "demand" => generation \in Nat
  /\ wants \in Wants
  /\ loads \in Seq(Loads) /\ loaded \in Seq(Loads)
  /\ repairs \in Seq(Repairs) /\ works \in Seq(Repairs) /\ persisted \in Seq(Repairs)

Awaited(r, k, gen) == r.job.key = k /\ r.job.generation = gen

RepairsHeld(a, gen, set) ==
  \A k \in Keys : a.records[k].state = "RepairWaiting" =>
    \E r \in set : Awaited(r, k, gen)

LoadsHeld(a, gen, set) ==
  \A k \in Keys \ a.failed : a.records[k].state = "Loading" =>
    \/ a.records[k].flight = {"geometry"}
    \/ \E r \in set : /\ Awaited(r, k, gen) /\ r.mask \subseteq a.records[k].flight
                      /\ r.mask # {}

IInv ==
  /\ ResidencyTyped /\ Good(auth, generation)
  /\ RepairsHeld(auth, generation, Range(repairs) \cup Range(works) \cup Range(persisted))
  /\ LoadsHeld(auth, generation, Range(loads) \cup Range(loaded))
(***************************************************************************)
(* The lists: of jobs and of warm payloads, one for a payload each, and of *)
(* the payloads that are ready, each once.                                 *)
(***************************************************************************)

\* What is left of a list without the entry at a place.
Thinned(seq, rest, i) ==
  \E from \in [DOMAIN rest -> DOMAIN seq] :
    /\ \A a, b \in DOMAIN rest : from[a] = from[b] => a = b
    /\ \A j \in DOMAIN seq : j # i <=> \E a \in DOMAIN rest : from[a] = j
    /\ \A a \in DOMAIN rest : rest[a] = seq[from[a]]

LEMMA NamesOf == \A seq : Names(seq) = {w.key : w \in Range(seq)}
  BY DEF Names, Range

LEMMA ThinnedKeys ==
  ASSUME NEW seq, NEW rest, NEW i \in DOMAIN seq, Thinned(seq, rest, i), Distinct(seq)
  PROVE  /\ Distinct(rest)
         /\ Range(rest) = {w \in Range(seq) : w.key # seq[i].key}
         /\ Names(rest) = Names(seq) \ {seq[i].key}
<1>1. PICK from \in [DOMAIN rest -> DOMAIN seq] :
        /\ \A a, b \in DOMAIN rest : from[a] = from[b] => a = b
        /\ \A j \in DOMAIN seq : j # i <=> \E a \in DOMAIN rest : from[a] = j
        /\ \A a \in DOMAIN rest : rest[a] = seq[from[a]]
  BY DEF Thinned
<1>2. Distinct(rest)
  BY <1>1 DEF Distinct
<1>3. Range(rest) = {w \in Range(seq) : w.key # seq[i].key}
  <2>1. ASSUME NEW w \in Range(rest) PROVE w \in Range(seq) /\ w.key # seq[i].key
    BY <1>1 DEF Range, Distinct
  <2>2. ASSUME NEW w \in Range(seq), w.key # seq[i].key PROVE w \in Range(rest)
    BY <1>1, <2>2 DEF Range
  <2> QED BY <2>1, <2>2
<1> QED BY <1>2, <1>3, NamesOf

LEMMA ThinnedValues ==
  ASSUME NEW seq, NEW rest, NEW i \in DOMAIN seq, Thinned(seq, rest, i), IsInjective(seq)
  PROVE  IsInjective(rest) /\ Range(rest) = Range(seq) \ {seq[i]}
<1>1. PICK from \in [DOMAIN rest -> DOMAIN seq] :
        /\ \A a, b \in DOMAIN rest : from[a] = from[b] => a = b
        /\ \A j \in DOMAIN seq : j # i <=> \E a \in DOMAIN rest : from[a] = j
        /\ \A a \in DOMAIN rest : rest[a] = seq[from[a]]
  BY DEF Thinned
<1>2. IsInjective(rest)
  BY <1>1 DEF IsInjective
<1>3. ASSUME NEW w \in Range(rest) PROVE w \in Range(seq) /\ w # seq[i]
  BY <1>1 DEF Range, IsInjective
<1>4. ASSUME NEW w \in Range(seq), w # seq[i] PROVE w \in Range(rest)
  BY <1>1, <1>4 DEF Range
<1> QED BY <1>2, <1>3, <1>4

LEMMA RemoveAtThins ==
  ASSUME NEW V, NEW seq \in Seq(V), NEW i \in 1 .. Len(seq)
  PROVE  RemoveAt(seq, i) \in Seq(V) /\ Thinned(seq, RemoveAt(seq, i), i)
<1> DEFINE n == Len(seq)
           s == SubSeq(seq, 1, i - 1)
           t == SubSeq(seq, i + 1, n)
           rest == RemoveAt(seq, i)
           from == [a \in 1 .. n - 1 |-> IF a < i THEN a ELSE a + 1]
<1>1. n \in Nat /\ DOMAIN seq = 1 .. n /\ \A j \in 1 .. n : seq[j] \in V
  BY LenProperties, ElementOfSeq
<1>2. s \in Seq(V) /\ Len(s) = i - 1 /\ \A a \in 1 .. i - 1 : s[a] = seq[a]
  <2>1. 1 \in Int /\ i - 1 \in Int /\ \A j \in 1 .. i - 1 : seq[j] \in V
    BY <1>1
  <2> QED BY <1>1, <2>1, SubSeqProperties
<1>3. t \in Seq(V) /\ Len(t) = n - i /\ \A a \in 1 .. n - i : t[a] = seq[i + a]
  <2>1. i + 1 \in Int /\ n \in Int /\ i <= n /\ \A j \in i + 1 .. n : seq[j] \in V
    BY <1>1
  <2> HIDE DEF n
  <2>2. /\ t \in Seq(V) /\ Len(t) = IF i + 1 <= n THEN n - (i + 1) + 1 ELSE 0
        /\ \A a \in 1 .. n - (i + 1) + 1 : t[a] = seq[(i + 1) + a - 1]
    BY <2>1, SubSeqProperties
  <2> HIDE DEF t
  <2>3. n - (i + 1) + 1 = n - i /\ \A a \in 1 .. n - i : (i + 1) + a - 1 = i + a
    BY <2>1
  <2> QED BY <2>1, <2>2, <2>3
<1>4. rest = s \o t
  BY DEF RemoveAt
<1> HIDE DEF s, t, n, rest
<1>5. rest \in Seq(V) /\ Len(rest) = n - 1
        /\ \A a \in 1 .. n - 1 : rest[a] = IF a <= i - 1 THEN s[a] ELSE t[a - (i - 1)]
  <2>1. /\ s \o t \in Seq(V) /\ Len(s \o t) = Len(s) + Len(t)
        /\ \A a \in 1 .. Len(s) + Len(t) : (s \o t)[a] =
             IF a <= Len(s) THEN s[a] ELSE t[a - Len(s)]
    BY <1>2, <1>3, ConcatProperties
  <2>2. n \in Nat /\ i \in 1 .. n
    BY <1>1 DEF n
  <2>3. Len(s) + Len(t) = n - 1
    BY <1>2, <1>3, <2>2
  <2> QED BY <1>2, <1>4, <2>1, <2>3
<1>6. DOMAIN rest = 1 .. n - 1
  BY <1>5, LenProperties
<1>7. \A a \in 1 .. n - 1 : rest[a] = seq[from[a]]
  BY <1>1, <1>2, <1>3, <1>5 DEF n
<1>8. from \in [DOMAIN rest -> DOMAIN seq]
  BY <1>1, <1>6 DEF n
<1>9. \A j \in DOMAIN seq : j # i <=> \E a \in DOMAIN rest : from[a] = j
  <2> SUFFICES ASSUME NEW j \in 1 .. n PROVE j # i <=> \E a \in 1 .. n - 1 : from[a] = j
    BY <1>1, <1>6
  <2>1. CASE j < i
    <3>1. j \in 1 .. n - 1 /\ from[j] = j
      BY <1>1, <2>1 DEF n
    <3> QED BY <1>1, <2>1, <3>1 DEF n
  <2>2. CASE j = i
    BY <1>1, <2>2 DEF n
  <2>3. CASE j > i
    <3>1. j - 1 \in 1 .. n - 1 /\ from[j - 1] = j
      BY <1>1, <2>3 DEF n
    <3> QED BY <1>1, <2>3, <3>1 DEF n
  <2> QED BY <1>1, <2>1, <2>2, <2>3 DEF n
<1>10. \A a, b \in DOMAIN rest : from[a] = from[b] => a = b
  BY <1>1, <1>6 DEF n
<1> HIDE DEF from
<1>11. Thinned(seq, rest, i)
  BY <1>6, <1>7, <1>8, <1>9, <1>10 DEF Thinned
<1> QED BY <1>5, <1>11 DEF rest

LEMMA TailThins ==
  ASSUME NEW V, NEW seq \in Seq(V), seq # <<>>
  PROVE  /\ Tail(seq) \in Seq(V) /\ Head(seq) \in V /\ Head(seq) = seq[1]
         /\ 1 \in DOMAIN seq /\ Thinned(seq, Tail(seq), 1)
<1> DEFINE from == [a \in 1 .. Len(seq) - 1 |-> a + 1]
           rest == Tail(seq)
<1>1. Len(seq) \in Nat /\ DOMAIN seq = 1 .. Len(seq) /\ 1 \in DOMAIN seq
  BY LenProperties, EmptySeq
<1>2. Head(seq) \in V /\ rest \in Seq(V) /\ Len(rest) = Len(seq) - 1
        /\ \A i \in 1 .. Len(seq) - 1 : rest[i] = seq[i + 1]
  BY HeadTailProperties
<1>3. Head(seq) = seq[1]
  BY <1>1
<1>4. DOMAIN rest = 1 .. Len(seq) - 1
  BY <1>2, LenProperties
<1> HIDE DEF rest
<1>5. from \in [DOMAIN rest -> DOMAIN seq] /\ \A a \in DOMAIN rest : rest[a] = seq[from[a]]
  BY <1>1, <1>2, <1>4
<1>6. \A a, b \in DOMAIN rest : from[a] = from[b] => a = b
  BY <1>1, <1>4
<1>7. ASSUME NEW j \in DOMAIN seq PROVE j # 1 <=> \E a \in DOMAIN rest : from[a] = j
  <2>1. CASE j = 1
    BY <1>1, <1>4, <2>1
  <2>2. CASE j # 1
    <3>1. j - 1 \in DOMAIN rest /\ from[j - 1] = j
      BY <1>1, <1>4, <2>2
    <3> QED BY <2>2, <3>1
  <2> QED BY <2>1, <2>2
<1> HIDE DEF from
<1>8. Thinned(seq, rest, 1)
  BY <1>5, <1>6, <1>7 DEF Thinned
<1> QED BY <1>1, <1>2, <1>3, <1>8 DEF rest

LEMMA LeastPlace ==
  ASSUME NEW n \in Nat, NEW S \in SUBSET (1 .. n), S # {}
  PROVE  Min(S) \in S
<1>1. S \in SUBSET Nat
  OBVIOUS
<1>2. PICK m \in S : \A x \in S : ~(x < m)
  BY <1>1, Ensures!LeastNumber
<1>3. \E x \in S : \A y \in S : x =< y
  BY <1>1, <1>2
<1> QED BY <1>3 DEF Min

LEMMA WithoutEffect ==
  ASSUME NEW V, NEW seq \in Seq(V), NEW k, Distinct(seq)
  PROVE  /\ Without(seq, k) \in Seq(V) /\ Distinct(Without(seq, k))
         /\ Range(Without(seq, k)) = {w \in Range(seq) : w.key # k}
         /\ Names(Without(seq, k)) = Names(seq) \ {k}
<1> DEFINE places == {i \in 1 .. Len(seq) : seq[i].key = k}
<1>1. Len(seq) \in Nat /\ DOMAIN seq = 1 .. Len(seq)
  BY LenProperties
<1>2. Without(seq, k) = IF places # {} THEN RemoveAt(seq, Min(places)) ELSE seq
  BY DEF Without, RemoveFirstMatch, SelectInSeq
<1> HIDE DEF places
<1>3. CASE places = {}
  <2>1. \A w \in Range(seq) : w.key # k
    BY <1>1, <1>3 DEF places, Range
  <2>2. Without(seq, k) = seq
    BY <1>2, <1>3
  <2>3. k \notin Names(seq)
    BY <2>1, NamesOf
  <2> QED BY <2>1, <2>2, <2>3
<1>4. CASE places # {}
  <2>1. Min(places) \in places
    BY <1>1, <1>4, LeastPlace DEF places
  <2>2. Min(places) \in 1 .. Len(seq) /\ seq[Min(places)].key = k
    BY <2>1 DEF places
  <2> DEFINE i == Min(places)
  <2>3. i \in 1 .. Len(seq) /\ i \in DOMAIN seq /\ seq[i].key = k
    BY <1>1, <2>2
  <2> HIDE DEF i
  <2>4. RemoveAt(seq, i) \in Seq(V) /\ Thinned(seq, RemoveAt(seq, i), i)
    BY <2>3, RemoveAtThins
  <2>5. Without(seq, k) = RemoveAt(seq, i)
    BY <1>2, <1>4 DEF i
  <2> QED BY <2>3, <2>4, <2>5, ThinnedKeys
<1> QED BY <1>3, <1>4

LEMMA RemoveFirstEffect ==
  ASSUME NEW V, NEW seq \in Seq(V), NEW k, IsInjective(seq)
  PROVE  /\ RemoveFirst(seq, k) \in Seq(V) /\ IsInjective(RemoveFirst(seq, k))
         /\ Range(RemoveFirst(seq, k)) = Range(seq) \ {k}
<1> DEFINE places == {i \in 1 .. Len(seq) : seq[i] = k}
<1>1. Len(seq) \in Nat /\ DOMAIN seq = 1 .. Len(seq)
  BY LenProperties
<1>2. RemoveFirst(seq, k) = IF places # {} THEN RemoveAt(seq, Min(places)) ELSE seq
  BY DEF RemoveFirst, SelectInSeq
<1> HIDE DEF places
<1>3. CASE places = {}
  <2>1. k \notin Range(seq)
    BY <1>1, <1>3 DEF places, Range
  <2>2. RemoveFirst(seq, k) = seq
    BY <1>2, <1>3
  <2> QED BY <2>1, <2>2
<1>4. CASE places # {}
  <2>1. Min(places) \in places
    BY <1>1, <1>4, LeastPlace DEF places
  <2>2. Min(places) \in 1 .. Len(seq) /\ seq[Min(places)] = k
    BY <2>1 DEF places
  <2> DEFINE i == Min(places)
  <2>3. i \in 1 .. Len(seq) /\ i \in DOMAIN seq /\ seq[i] = k
    BY <1>1, <2>2
  <2> HIDE DEF i
  <2>4. RemoveAt(seq, i) \in Seq(V) /\ Thinned(seq, RemoveAt(seq, i), i)
    BY <2>3, RemoveAtThins
  <2>5. RemoveFirst(seq, k) = RemoveAt(seq, i)
    BY <1>2, <1>4 DEF i
  <2> QED BY <2>3, <2>4, <2>5, ThinnedValues
<1> QED BY <1>3, <1>4

LEMMA AppendEffect ==
  ASSUME NEW V, NEW seq \in Seq(V), NEW e \in V
  PROVE  /\ Append(seq, e) \in Seq(V) /\ Range(Append(seq, e)) = Range(seq) \cup {e}
         /\ Names(Append(seq, e)) = Names(seq) \cup {e.key}
         /\ e.key \notin Names(seq) /\ Distinct(seq) => Distinct(Append(seq, e))
         /\ e \notin Range(seq) /\ IsInjective(seq) => IsInjective(Append(seq, e))
<1> DEFINE t == Append(seq, e)
           n == Len(seq)
<1>1. n \in Nat /\ DOMAIN seq = 1 .. n
  BY LenProperties
<1>2. t \in Seq(V) /\ Len(t) = n + 1 /\ t[n + 1] = e /\ \A i \in 1 .. n : t[i] = seq[i]
  BY AppendProperties
<1>3. DOMAIN t = 1 .. n + 1
  BY <1>2, LenProperties
<1> HIDE DEF t, n
<1>4. Range(t) = Range(seq) \cup {e}
  BY <1>1, <1>2, <1>3 DEF Range
<1>5. Names(t) = Names(seq) \cup {e.key}
  BY <1>4, NamesOf
<1>6. ASSUME e.key \notin Names(seq), Distinct(seq) PROVE Distinct(t)
  BY <1>1, <1>2, <1>3, <1>6 DEF Distinct, Names
<1>7. ASSUME e \notin Range(seq), IsInjective(seq) PROVE IsInjective(t)
  BY <1>1, <1>2, <1>3, <1>7 DEF IsInjective, Range
<1> QED BY <1>2, <1>4, <1>5, <1>6, <1>7 DEF t

(***************************************************************************)
(* What a change leaves alone.                                             *)
(***************************************************************************)

Same(a, b, j) ==
  /\ b.records[j] = a.records[j]
  /\ j \in b.failed <=> j \in a.failed
  /\ j \in b.mislaid <=> j \in a.mislaid
  /\ j \in b.lost <=> j \in a.lost
  /\ j \in Names(b.loader) <=> j \in Names(a.loader)
  /\ j \in Range(b.ready) <=> j \in Range(a.ready)
  /\ j \in Names(b.warm) <=> j \in Names(a.warm)

LEMMA InRange == ASSUME NEW V, NEW seq \in Seq(V) PROVE \A w \in Range(seq) : w \in V
  BY LenProperties, ElementOfSeq DEF Range

LEMMA FineSame ==
  ASSUME NEW a, NEW b, NEW j \in Keys, Same(a, b, j), Fine(a, j)
  PROVE  Fine(b, j)
  BY DEF Same, Fine, Sound, Covered, Unheld, OnceHeld, Placed

SameStore(a, b) ==
  /\ Distinct(b.warm) /\ Range(b.warm) \subseteq Range(a.warm) /\ b.lost = a.lost /\ b.cpuUsed = a.cpuUsed /\ b.gpuUsed = a.gpuUsed
  /\ b.cpuReserved <= a.cpuReserved
  /\ \A j \in Keys : /\ b.records[j].payload = a.records[j].payload
                     /\ b.records[j].handle = a.records[j].handle

LEMMA StoredSame ==
  ASSUME NEW a \in Authorities, NEW b \in Authorities, Stored(a), SameStore(a, b)
  PROVE  Stored(b)
<1>1. Counted(b) = Counted(a) /\ OnCard(b) = OnCard(a)
  BY DEF SameStore, Counted, OnCard
<1>2. \A w \in Range(a.warm) : w.key \in Keys
  <2>1. a.warm \in Seq(WarmOnes)
    BY DEF Authorities
  <2>2. \A w \in Range(a.warm) : w \in WarmOnes
    BY <2>1, InRange
  <2> QED BY <2>2 DEF WarmOnes
<1>3. a.cpuUsed + b.cpuReserved <= CpuBudget
  BY Sizes DEF Authorities, SameStore, Stored
<1> QED BY <1>1, <1>2, <1>3 DEF Stored, SameStore

(***************************************************************************)
(* Eviction.                                                               *)
(***************************************************************************)

Emptied(r) == [r EXCEPT !.state = "Unloaded", !.payload = FALSE, !.handle = FALSE]

Kept(a, b, j) ==
  /\ b.records[j] = a.records[j] /\ (j \in b.lost <=> j \in a.lost)
  /\ j \in Names(b.warm) => j \in Names(a.warm)

Gone(a, b, j) ==
  /\ b.records[j] = Emptied(a.records[j]) /\ j \notin b.lost
  /\ j \in Names(a.warm) /\ j \notin Names(b.warm)

Evicted(a, b) ==
  /\ b \in Authorities /\ Stored(b)
  /\ b.loader = a.loader /\ b.phases = a.phases /\ b.failed = a.failed /\ b.ready = a.ready
  /\ b.pending = a.pending /\ b.retry = a.retry /\ b.mislaid = a.mislaid
  /\ b.cpuReserved = a.cpuReserved
  /\ \A j \in Keys : Kept(a, b, j) \/ Gone(a, b, j)

LEMMA EvictEffect ==
  ASSUME NEW a \in Authorities, Stored(a), a.warm # <<>>
  PROVE  Evicted(a, EvictOldestWarm(a))
<1> DEFINE w == Head(a.warm)
           k == w.key
           b == EvictOldestWarm(a)
<1>1. a.warm \in Seq(WarmOnes) /\ Distinct(a.warm)
  BY DEF Authorities, Stored
<1>2. /\ Tail(a.warm) \in Seq(WarmOnes) /\ w \in WarmOnes /\ w = a.warm[1]
      /\ 1 \in DOMAIN a.warm /\ Thinned(a.warm, Tail(a.warm), 1)
  BY <1>1, TailThins
<1>3. /\ Distinct(Tail(a.warm)) /\ Range(Tail(a.warm)) = {v \in Range(a.warm) : v.key # k}
      /\ Names(Tail(a.warm)) = Names(a.warm) \ {k}
  BY <1>1, <1>2, ThinnedKeys
<1>4. w \in Range(a.warm) /\ k \in Names(a.warm) /\ k \in Keys
  BY <1>2 DEF Range, Names, WarmOnes
<1>5. /\ k \in Counted(a) /\ w.cpu = Decoded[k]
      /\ w.gpu = IF a.records[k].handle THEN Decoded[k] ELSE 0
  BY <1>4 DEF Stored
<1>6. /\ b.warm = Tail(a.warm) /\ b.lost = a.lost \ {k}
      /\ b.cpuUsed = Minus(a.cpuUsed, w.cpu) /\ b.gpuUsed = Minus(a.gpuUsed, w.gpu)
      /\ b.loader = a.loader /\ b.phases = a.phases /\ b.failed = a.failed
      /\ b.ready = a.ready /\ b.pending = a.pending /\ b.retry = a.retry
      /\ b.mislaid = a.mislaid /\ b.cpuReserved = a.cpuReserved
      /\ b.records[k] = Emptied(a.records[k])
      /\ \A j \in Keys \ {k} : b.records[j] = a.records[j]
  BY <1>4 DEF EvictOldestWarm, Emptied, Authorities, Records
<1>7. b \in Authorities
  <2>1. Minus(a.cpuUsed, w.cpu) \in Nat /\ Minus(a.gpuUsed, w.gpu) \in Nat
    BY <1>2 DEF Minus, Authorities, WarmOnes
  <2> DEFINE R == [a.records EXCEPT ![k].state = "Unloaded", ![k].payload = FALSE,
                                    ![k].handle = FALSE]
  <2>2. R \in [Keys -> Records]
    <3> HIDE DEF k, w, b
    <3>1. a.records \in [Keys -> Records] /\ k \in Keys
      BY <1>4 DEF Authorities
    <3>2. Emptied(a.records[k]) \in Records
      BY <3>1 DEF Emptied, Records, States
    <3>3. R = [a.records EXCEPT ![k] = Emptied(a.records[k])]
      BY <3>1, Zenon DEF Emptied
    <3> HIDE DEF R
    <3> QED BY <3>1, <3>2, <3>3
  <2>3. b = [a EXCEPT !.warm = Tail(a.warm), !.cpuUsed = Minus(@, w.cpu),
                      !.gpuUsed = Minus(@, w.gpu), !.records = R, !.lost = @ \ {k}]
    BY <1>4 DEF EvictOldestWarm, Authorities
  <2> HIDE DEF R, b
  <2> QED BY <1>2, <2>1, <2>2, <2>3 DEF Authorities
<1> HIDE DEF b, w, k
<1>8. Counted(b) = Counted(a) \ {k} /\ OnCard(b) = OnCard(a) \ {k}
  <2>1. ~b.records[k].payload /\ ~b.records[k].handle
    BY <1>4, <1>6 DEF Emptied, Authorities, Records
  <2> QED BY <1>4, <1>6, <2>1 DEF Counted, OnCard
<1>9. Counted(a) \in SUBSET Keys /\ OnCard(a) \in SUBSET Keys
  BY DEF Counted, OnCard, Authorities
<1>10. b.cpuUsed = Bytes(Counted(b)) /\ b.cpuUsed <= a.cpuUsed
  <2>1. /\ Bytes(Counted(a)) \in Nat /\ Decoded[k] \in Nat
        /\ Bytes(Counted(a) \ {k}) = Bytes(Counted(a)) - Decoded[k]
        /\ Decoded[k] <= Bytes(Counted(a))
    BY <1>4, <1>5, <1>9, BytesOf, Sizes
  <2>2. a.cpuUsed = Bytes(Counted(a)) /\ b.cpuUsed = Minus(a.cpuUsed, Decoded[k])
    BY <1>5, <1>6 DEF Stored
  <2> QED BY <1>8, <2>1, <2>2 DEF Minus
<1>11. b.gpuUsed = Bytes(OnCard(b)) /\ b.gpuUsed <= a.gpuUsed
  <2>1. a.gpuUsed = Bytes(OnCard(a)) /\ Bytes(OnCard(a)) \in Nat
    BY <1>9, BytesOf DEF Stored
  <2>2. CASE a.records[k].handle
    <3>1. k \in OnCard(a)
      BY <1>4, <2>2 DEF OnCard
    <3>2. /\ Decoded[k] \in Nat
          /\ Bytes(OnCard(a) \ {k}) = Bytes(OnCard(a)) - Decoded[k]
          /\ Decoded[k] <= Bytes(OnCard(a))
      BY <1>4, <1>9, <3>1, BytesOf, Sizes
    <3>3. b.gpuUsed = Minus(a.gpuUsed, Decoded[k])
      BY <1>5, <1>6, <2>2
    <3> QED BY <1>8, <2>1, <3>2, <3>3 DEF Minus
  <2>3. CASE ~a.records[k].handle
    <3>1. OnCard(b) = OnCard(a)
      BY <1>8, <2>3 DEF OnCard
    <3> QED BY <1>5, <1>6, <2>1, <2>3, <3>1 DEF Minus
  <2> QED BY <2>2, <2>3
<1>12. b.cpuUsed + b.cpuReserved <= CpuBudget /\ b.gpuUsed <= GpuBudget
  BY <1>6, <1>7, <1>10, <1>11, Sizes DEF Stored, Authorities
<1>13. ASSUME NEW v \in Range(b.warm)
       PROVE  /\ v.key \in Counted(b) /\ v.cpu = Decoded[v.key]
              /\ v.gpu = IF b.records[v.key].handle THEN Decoded[v.key] ELSE 0
  <2>1. v \in Range(a.warm) /\ v.key # k
    BY <1>3, <1>6
  <2>2. v.key \in Counted(a) /\ v.key \in Keys
    BY <1>9, <2>1 DEF Stored
  <2> QED BY <1>6, <1>8, <2>1, <2>2 DEF Stored
<1>14. Stored(b)
  BY <1>3, <1>6, <1>10, <1>11, <1>12, <1>13 DEF Stored
<1>15. ASSUME NEW j \in Keys PROVE Kept(a, b, j) \/ Gone(a, b, j)
  <2>1. CASE j = k
    BY <1>3, <1>4, <1>6, <2>1 DEF Gone
  <2>2. CASE j # k
    BY <1>3, <1>6, <2>2 DEF Kept
  <2> QED BY <2>1, <2>2
<1> QED BY <1>6, <1>7, <1>14, <1>15 DEF Evicted, b

LEMMA EvictedTwice ==
  ASSUME NEW a \in Authorities, NEW b \in Authorities, NEW c, Evicted(a, b), Evicted(b, c)
  PROVE  Evicted(a, c)
<1>1. ASSUME NEW j \in Keys PROVE Kept(a, c, j) \/ Gone(a, c, j)
  <2>1. (Kept(a, b, j) \/ Gone(a, b, j)) /\ (Kept(b, c, j) \/ Gone(b, c, j))
    BY DEF Evicted
  <2>2. CASE Kept(a, b, j) /\ Kept(b, c, j)
    BY <2>2 DEF Kept
  <2>3. CASE Gone(a, b, j) /\ Kept(b, c, j)
    BY <2>3 DEF Kept, Gone
  <2>4. CASE Kept(a, b, j) /\ Gone(b, c, j)
    BY <2>4 DEF Kept, Gone
  <2>5. CASE Gone(a, b, j) /\ Gone(b, c, j)
    BY <2>5 DEF Gone
  <2> QED BY <2>1, <2>2, <2>3, <2>4, <2>5
<1> QED BY <1>1 DEF Evicted

LEMMA EvictedSame == ASSUME NEW a \in Authorities, Stored(a) PROVE Evicted(a, a)
  BY DEF Evicted, Kept

LEMMA FineEvicted ==
  ASSUME NEW a \in Authorities, NEW b, Stored(a), Evicted(a, b), NEW k \in Keys, Fine(a, k)
  PROVE  Fine(b, k)
<1>1. a.records[k] \in Records /\ b.records[k] \in Records
  BY DEF Authorities, Evicted
<1>2. CASE Kept(a, b, k)
  BY <1>1, <1>2 DEF Evicted, Kept, Fine, Sound, Covered, Unheld, OnceHeld, Placed
<1>3. CASE Gone(a, b, k)
  <2>1. PICK w \in Range(a.warm) : w.key = k
    BY <1>3, NamesOf DEF Gone
  <2>2. k \in Counted(a)
    BY <2>1 DEF Stored
  <2>3. a.records[k].satisfied # {}
    BY <2>2 DEF Counted, Fine, Sound, Unheld, Placed
  <2>4. k \notin a.mislaid => a.records[k].state = "Warm"
    BY <1>3 DEF Gone, Fine, Sound, Placed
  <2>5. /\ b.records[k].state = "Unloaded" /\ ~b.records[k].payload /\ ~b.records[k].handle
        /\ b.records[k].satisfied = a.records[k].satisfied
        /\ b.records[k].queued = a.records[k].queued
        /\ b.records[k].flight = a.records[k].flight
    BY <1>1, <1>3 DEF Gone, Emptied, Records
  <2>6. OnceHeld(b, k)
    BY <2>3, <2>5 DEF Evicted, Fine, Sound, OnceHeld
  <2>7. k \notin b.mislaid => Placed(b, k)
    BY <1>3, <2>4, <2>5 DEF Evicted, Gone, Fine, Sound, Placed, Held
  <2> QED BY <2>3, <2>5, <2>6, <2>7 DEF Fine, Sound, Covered, Held
<1> QED BY <1>2, <1>3 DEF Evicted

ToBudget(b, w, p, q) ==
  IF \/ b.cpuUsed <= CpuBudget /\ b.gpuUsed <= GpuBudget
     \/ b.warm = <<>>
    THEN b ELSE EvictOldestWarm(b)
Budgets == INSTANCE FoldTheorems WITH Op <- ToBudget

LEMMA EnsureEffect ==
  ASSUME NEW a \in Authorities, Stored(a), NEW cpu, NEW gpu
  PROVE  Evicted(a, EnsureCapacity(a, cpu, gpu))
<1> DEFINE U == {b \in Authorities : Evicted(a, b)}
<1>1. a \in U /\ a.warm \in Seq(WarmOnes)
  BY EvictedSame DEF Authorities
<1>2. ASSUME NEW b \in U, NEW w \in WarmOnes PROVE EnsureStep(b, w, cpu, gpu) \in U
  <2>1. CASE Fits(b, cpu, gpu) \/ b.warm = <<>>
    BY <2>1 DEF EnsureStep
  <2>2. CASE ~(Fits(b, cpu, gpu) \/ b.warm = <<>>)
    <3>1. Evicted(b, EvictOldestWarm(b))
      BY <2>2, EvictEffect DEF Evicted
    <3>2. Evicted(a, EvictOldestWarm(b)) /\ EvictOldestWarm(b) \in Authorities
      BY <3>1, EvictedTwice DEF Evicted
    <3> QED BY <2>2, <3>2 DEF EnsureStep
  <2> QED BY <2>1, <2>2
<1> HIDE DEF U
<1>3. Ensures!Fold(a, a.warm, cpu, gpu) \in U
  BY <1>1, <1>2, Ensures!FoldKeeps
<1>4. EnsureCapacity(a, cpu, gpu) =
        IF cpu > CpuBudget \/ gpu > GpuBudget THEN a ELSE Ensures!Fold(a, a.warm, cpu, gpu)
  BY DEF EnsureCapacity, FoldLeft, MapThenFoldSet, Max, EnsureStep,
         Ensures!Fold, Ensures!MapThenFoldSet, Ensures!Greatest
<1> QED BY <1>1, <1>3, <1>4 DEF U

LEMMA BudgetEffect ==
  ASSUME NEW a \in Authorities, Stored(a)
  PROVE  Evicted(a, EvictToBudget(a))
<1> DEFINE U == {b \in Authorities : Evicted(a, b)}
<1>1. a \in U /\ a.warm \in Seq(WarmOnes)
  BY EvictedSame DEF Authorities
<1>2. ASSUME NEW b \in U, NEW w \in WarmOnes PROVE ToBudget(b, w, 0, 0) \in U
  <2>1. CASE b.warm = <<>>
    BY <2>1 DEF ToBudget
  <2>2. CASE b.warm # <<>>
    <3>1. Evicted(b, EvictOldestWarm(b))
      BY <2>2, EvictEffect DEF Evicted
    <3>2. Evicted(a, EvictOldestWarm(b)) /\ EvictOldestWarm(b) \in Authorities
      BY <3>1, EvictedTwice DEF Evicted
    <3> QED BY <3>2 DEF ToBudget
  <2> QED BY <2>1, <2>2
<1> HIDE DEF U
<1>3. Budgets!Fold(a, a.warm, 0, 0) \in U
  BY <1>1, <1>2, Budgets!FoldKeeps
<1>4. EvictToBudget(a) = Budgets!Fold(a, a.warm, 0, 0)
  BY DEF EvictToBudget, FoldLeft, MapThenFoldSet, Max, ToBudget,
         Budgets!Fold, Budgets!MapThenFoldSet, Budgets!Greatest
<1> QED BY <1>3, <1>4 DEF U

(***************************************************************************)
(* The methods of the authority. Each leaves it Good, and of a payload     *)
(* that it does not start to load or let wait, what it was waiting for.    *)
(***************************************************************************)

LaterOf(a, b, j) ==
  /\ j \in a.failed => j \in b.failed
  /\ b.records[j].state = "Loading" =>
       a.records[j].state = "Loading" /\ b.records[j].flight = a.records[j].flight
  /\ b.records[j].state = "RepairWaiting" => a.records[j].state = "RepairWaiting"

Later(a, b) == \A j \in Keys : LaterOf(a, b, j)

LEMMA LaterSame == \A a, b : \A j \in Keys : Same(a, b, j) => LaterOf(a, b, j)
  BY DEF Same, LaterOf

LEMMA LaterTwice ==
  ASSUME NEW a, NEW b, NEW c, Later(a, b), Later(b, c)
  PROVE  Later(a, c)
  BY DEF Later, LaterOf

LEMMA LaterEvicted ==
  ASSUME NEW a \in Authorities, NEW b, Evicted(a, b)
  PROVE  Later(a, b)
<1> SUFFICES ASSUME NEW j \in Keys PROVE LaterOf(a, b, j)
  BY DEF Later
<1>1. a.records[j] \in Records
  BY DEF Authorities
<1>2. CASE Kept(a, b, j)
  BY <1>2 DEF Evicted, Kept, LaterOf
<1>3. CASE Gone(a, b, j)
  <2>1. b.records[j].state = "Unloaded"
    BY <1>1, <1>3 DEF Gone, Emptied, Records
  <2> QED BY <2>1 DEF Evicted, LaterOf
<1> QED BY <1>2, <1>3 DEF Evicted

LEMMA GoodEvicted ==
  ASSUME NEW a, NEW b, NEW gen, Good(a, gen), Evicted(a, b)
  PROVE  Good(b, gen) /\ Later(a, b)
  BY FineEvicted, LaterEvicted DEF Good, Evicted, Lists

\* All but one payload as they were.
LEMMA Assemble ==
  ASSUME NEW a, NEW b \in Authorities, NEW gen, NEW k \in Keys, Good(a, gen),
         \A j \in Keys \ {k} : Same(a, b, j),
         Stored(b), Lists(b, gen), Fine(b, k), LaterOf(a, b, k)
  PROVE  Good(b, gen) /\ Later(a, b)
<1>1. ASSUME NEW j \in Keys PROVE Fine(b, j) /\ LaterOf(a, b, j)
  BY FineSame, LaterSame DEF Good
<1> QED BY <1>1 DEF Good, Later

Wanted(gen, a, b, k, reason) ==
  /\ b \in Authorities /\ Stored(b) /\ Lists(b, gen)
  /\ \A j \in Keys \ {k} : Same(a, b, j)
  /\ b.records[k] = [a.records[k] EXCEPT !.reasons = @ \cup {reason},
                                         !.bytes = b.records[k].bytes]
  /\ a.records[k].state \in Held => b.records[k].bytes = a.records[k].bytes
  /\ b.loader = a.loader /\ b.ready = a.ready /\ b.failed = a.failed
  /\ b.mislaid = a.mislaid /\ b.lost = a.lost
  /\ Names(b.warm) = IF a.records[k].state = "Warm" THEN Names(a.warm) \ {k}
                     ELSE Names(a.warm)

LEMMA WithReasonEffect ==
  ASSUME NEW gen, NEW a, Good(a, gen), NEW k \in Keys, NEW reason \in Reasons,
         NEW bytes \in Nat, NEW b, b = WithReason(a, k, reason, bytes)
  PROVE  Wanted(gen, a, b, k, reason)
<1> DEFINE r == a.records[k]
           warm == IF r.state = "Warm" THEN Without(a.warm, k) ELSE a.warm
           size == IF r.state \in {"Unloaded", "Queued", "Loading", "RepairWaiting"}
                     THEN bytes ELSE r.bytes
           R == [a.records EXCEPT ![k].reasons = @ \cup {reason}, ![k].bytes = size]
           s == [r EXCEPT !.reasons = @ \cup {reason}, !.bytes = size]
<1>1. a \in Authorities /\ r \in Records
  BY DEF Good, Authorities
<1>2. b = [a EXCEPT !.records = R, !.warm = warm]
  BY <1>1 DEF WithReason, Authorities
<1>3. R \in [Keys -> Records] /\ R[k] = s /\ \A j \in Keys \ {k} : R[j] = a.records[j]
  <2>1. s \in Records
    BY <1>1 DEF Records
  <2>2. R = [a.records EXCEPT ![k] = s]
    BY <1>1, Zenon DEF Authorities
  <2> HIDE DEF R, s
  <2> QED BY <1>1, <2>1, <2>2 DEF Authorities
<1>4. a.warm \in Seq(WarmOnes) /\ Distinct(a.warm)
  BY <1>1 DEF Authorities, Good, Stored
<1>5. /\ Without(a.warm, k) \in Seq(WarmOnes) /\ Distinct(Without(a.warm, k))
      /\ Range(Without(a.warm, k)) \subseteq Range(a.warm)
      /\ Names(Without(a.warm, k)) = Names(a.warm) \ {k}
  BY <1>4, WithoutEffect
<1>6. /\ warm \in Seq(WarmOnes) /\ Distinct(warm) /\ Range(warm) \subseteq Range(a.warm)
      /\ Names(warm) = IF r.state = "Warm" THEN Names(a.warm) \ {k} ELSE Names(a.warm)
  BY <1>4, <1>5
<1>7. /\ R[k] = [r EXCEPT !.reasons = @ \cup {reason}, !.bytes = R[k].bytes]
      /\ R[k].payload = r.payload /\ R[k].handle = r.handle
      /\ r.state \in Held => R[k].bytes = r.bytes
      /\ \A j \in Keys \ {k} : R[j] = a.records[j]
  <2> HIDE DEF R
  <2> QED BY <1>1, <1>3 DEF Records, Held
<1> HIDE DEF R, warm
<1>8. /\ b.records = R /\ b.warm = warm /\ b.loader = a.loader /\ b.ready = a.ready
      /\ b.failed = a.failed /\ b.mislaid = a.mislaid /\ b.lost = a.lost
      /\ b.cpuUsed = a.cpuUsed /\ b.gpuUsed = a.gpuUsed /\ b.cpuReserved = a.cpuReserved
  BY <1>1, <1>2 DEF Authorities
<1>9. b \in Authorities
  BY <1>1, <1>2, <1>3, <1>6 DEF Authorities
<1>10. SameStore(a, b)
  <2>1. \A j \in Keys : /\ b.records[j].payload = a.records[j].payload
                        /\ b.records[j].handle = a.records[j].handle
    BY <1>7, <1>8
  <2>2. b.cpuReserved <= a.cpuReserved
    BY <1>1, <1>8 DEF Authorities
  <2> QED BY <1>6, <1>8, <2>1, <2>2 DEF SameStore
<1>11. Stored(b)
  BY <1>1, <1>9, <1>10, StoredSame DEF Good
<1>12. \A j \in Keys \ {k} : Same(a, b, j)
  BY <1>6, <1>7, <1>8 DEF Same
<1>13. Lists(b, gen)
  BY <1>8 DEF Lists, Good
<1>14. b.records[k] = [r EXCEPT !.reasons = @ \cup {reason}, !.bytes = b.records[k].bytes]
  BY <1>7, <1>8
<1> QED BY <1>6, <1>7, <1>8, <1>9, <1>11, <1>12, <1>13, <1>14 DEF Wanted

LEMMA RewarmedEffect ==
  ASSUME NEW gen, NEW a, Good(a, gen), NEW k \in Keys, NEW reason \in Reasons,
         NEW bytes \in Nat, NEW b, b = WithReason(a, k, reason, bytes),
         NEW c, c = Rewarmed(b, k)
  PROVE  /\ c \in Authorities /\ Stored(c) /\ Lists(c, gen)
         /\ \A j \in Keys \ {k} : Same(a, c, j)
         /\ Sound(c, k) /\ c.records[k].reasons # {} /\ LaterOf(a, c, k)
<1>1. Wanted(gen, a, b, k, reason)
  BY WithReasonEffect
<1> USE DEF Wanted
<1>2. a.records[k] \in Records /\ b.records[k] \in Records
  BY <1>1 DEF Good, Authorities
<1>3. /\ b.records[k].reasons # {}
      /\ b.records[k].state = a.records[k].state
      /\ b.records[k].satisfied = a.records[k].satisfied
      /\ b.records[k].queued = a.records[k].queued
      /\ b.records[k].flight = a.records[k].flight
      /\ b.records[k].payload = a.records[k].payload
      /\ b.records[k].handle = a.records[k].handle
  BY <1>1, <1>2 DEF Records
<1>4. Sound(a, k)
  BY DEF Good, Fine
<1>5. CASE b.records[k].state # "Warm"
  <2>1. c = b
    BY <1>5 DEF Rewarmed
  <2>2. Sound(b, k)
    BY <1>1, <1>3, <1>4, <1>5 DEF Sound, Unheld, OnceHeld, Placed
  <2>3. LaterOf(a, b, k)
    BY <1>1, <1>3 DEF LaterOf
  <2> QED BY <1>1, <1>3, <2>1, <2>2, <2>3
<1>6. CASE b.records[k].state = "Warm"
  <2>1. /\ a.records[k].satisfied # {} /\ k \notin a.mislaid /\ k \notin Range(a.ready)
        /\ a.records[k].bytes = Decoded[k] /\ k \notin Names(b.warm) /\ k \notin a.lost
    BY <1>1, <1>3, <1>4, <1>6 DEF Sound, Unheld, Placed, Held
  <2> DEFINE to == IF b.records[k].handle THEN "GpuResident" ELSE "CpuReady"
             list == IF b.records[k].handle THEN b.ready ELSE Append(b.ready, k)
             R == [b.records EXCEPT ![k].state = to]
  <2>2. c = [b EXCEPT !.records = R, !.ready = list]
    BY <1>1, <1>2, <1>6, <2>1 DEF Rewarmed, EnqueueReady, Authorities, Records
  <2>3. b.ready \in Seq(Keys) /\ IsInjective(b.ready)
    BY <1>1 DEF Authorities, Lists
  <2>4. /\ Append(b.ready, k) \in Seq(Keys) /\ IsInjective(Append(b.ready, k))
        /\ Range(Append(b.ready, k)) = Range(b.ready) \cup {k}
    BY <1>1, <2>1, <2>3, AppendEffect
  <2>5. /\ list \in Seq(Keys) /\ IsInjective(list)
        /\ k \in Range(list) <=> ~b.records[k].handle
        /\ \A j \in Keys \ {k} : j \in Range(list) <=> j \in Range(b.ready)
    BY <1>1, <2>1, <2>3, <2>4
  <2>6. /\ R \in [Keys -> Records] /\ R[k] = [b.records[k] EXCEPT !.state = to]
        /\ \A j \in Keys \ {k} : R[j] = b.records[j]
    BY <1>1, <1>2 DEF Authorities, Records, States
  <2>7. /\ R[k].state = to /\ R[k].reasons = b.records[k].reasons
        /\ R[k].satisfied = b.records[k].satisfied /\ R[k].queued = b.records[k].queued
        /\ R[k].flight = b.records[k].flight /\ R[k].payload = b.records[k].payload
        /\ R[k].handle = b.records[k].handle /\ R[k].bytes = b.records[k].bytes
    BY <1>2, <2>6 DEF Records
  <2>8. to \in {"GpuResident", "CpuReady"} /\ (to = "GpuResident" <=> b.records[k].handle)
    OBVIOUS
  <2> HIDE DEF list, R, to
  <2>9. /\ c.records = R /\ c.ready = list /\ c.warm = b.warm /\ c.loader = b.loader
        /\ c.failed = b.failed /\ c.mislaid = b.mislaid /\ c.lost = b.lost
        /\ c.cpuUsed = b.cpuUsed /\ c.gpuUsed = b.gpuUsed /\ c.cpuReserved = b.cpuReserved
    BY <1>1, <2>2 DEF Authorities
  <2>10. c \in Authorities
    BY <1>1, <2>2, <2>5, <2>6 DEF Authorities
  <2>11. SameStore(b, c)
    <3>1. \A j \in Keys : /\ c.records[j].payload = b.records[j].payload
                          /\ c.records[j].handle = b.records[j].handle
      BY <2>6, <2>7, <2>9
    <3>2. c.cpuReserved <= b.cpuReserved
      BY <1>1, <2>9 DEF Authorities
    <3> QED BY <1>1, <2>9, <3>1, <3>2 DEF SameStore, Stored
  <2>12. Stored(c)
    BY <1>1, <2>10, <2>11, StoredSame
  <2>13. \A j \in Keys \ {k} : Same(a, c, j)
    BY <1>1, <2>5, <2>6, <2>9 DEF Same
  <2>14. Sound(c, k)
    BY <1>1, <1>3, <1>4, <1>6, <2>1, <2>5, <2>7, <2>8, <2>9
       DEF Sound, OnceHeld, Placed, Held
  <2>15. Lists(c, gen)
    BY <1>1, <2>5, <2>9 DEF Lists
  <2>16. LaterOf(a, c, k)
    BY <1>1, <2>7, <2>8, <2>9 DEF LaterOf
  <2> QED BY <1>3, <2>7, <2>9, <2>10, <2>12, <2>13, <2>14, <2>15, <2>16
<1> QED BY <1>5, <1>6


\* The loaders that differ from one at most in the job of a payload.
LoadersBut(gen, a, k) ==
  {loader \in Seq(JobsOf(gen)) :
     /\ Distinct(loader)
     /\ \A j \in Keys \ {k} : j \in Names(loader) <=> j \in Names(a.loader)}

LEMMA JobSeqs == \A gen, list : list \in Seq(JobsOf(gen)) => list \in Seq(Jobs)
<1> SUFFICES ASSUME NEW gen, NEW list \in Seq(JobsOf(gen)) PROVE list \in Seq(Jobs)
  OBVIOUS
<1>1. Len(list) \in Nat /\ list = [i \in 1 .. Len(list) |-> list[i]]
        /\ \A i \in 1 .. Len(list) : list[i] \in Jobs
  BY LenProperties, ElementOfSeq DEF JobsOf
<1> QED BY <1>1

LEMMA EnqueueEffect ==
  ASSUME NEW gen, NEW a \in Authorities, Lists(a, gen), NEW job \in JobsOf(gen)
  PROVE  \E loader \in LoadersBut(gen, a, job.key) :
           /\ Enqueue(a, job) = [a EXCEPT !.loader = loader]
           /\ job.key \in Names(loader)
<1> DEFINE k == job.key
<1>1. /\ a.loader \in Seq(JobsOf(gen)) /\ DOMAIN a.loader = 1 .. Len(a.loader)
      /\ Len(a.loader) \in Nat /\ Distinct(a.loader)
  BY LenProperties DEF Lists
<1>2. Queued(a, k) <=> k \in Names(a.loader)
  BY DEF Queued, Names
<1>3. CASE Queued(a, k)
  <2> DEFINE loader == [i \in DOMAIN a.loader |-> IF a.loader[i].key = k THEN job
                                                  ELSE a.loader[i]]
  <2>1. Enqueue(a, job) = [a EXCEPT !.loader = loader]
    BY <1>3 DEF Enqueue
  <2>2. loader \in Seq(JobsOf(gen))
    <3>1. \A i \in 1 .. Len(a.loader) : loader[i] \in JobsOf(gen)
      BY <1>1, ElementOfSeq
    <3> QED BY <1>1, <3>1
  <2>3. \A i \in DOMAIN loader : loader[i].key = a.loader[i].key
    BY <1>1
  <2>4. DOMAIN loader = DOMAIN a.loader
    OBVIOUS
  <2> HIDE DEF loader
  <2>5. Distinct(loader) /\ Names(loader) = Names(a.loader)
    BY <1>1, <2>3, <2>4 DEF Distinct, Names
  <2> QED BY <1>2, <1>3, <2>1, <2>2, <2>5 DEF LoadersBut
<1>4. CASE ~Queued(a, k)
  <2> DEFINE loader == Append(a.loader, job)
  <2>1. Enqueue(a, job) = [a EXCEPT !.loader = loader]
    BY <1>4 DEF Enqueue
  <2>2. loader \in Seq(JobsOf(gen)) /\ Distinct(loader) /\ Names(loader) = Names(a.loader) \cup {k}
    BY <1>1, <1>2, <1>4, AppendEffect
  <2> HIDE DEF loader
  <2> QED BY <2>1, <2>2 DEF LoadersBut
<1> QED BY <1>3, <1>4

\* What a method on one payload makes of an authority that is Good but for it.
Settled(gen, a, b, k) ==
  /\ b \in Authorities /\ Stored(b) /\ Lists(b, gen)
  /\ \A j \in Keys \ {k} : Same(a, b, j)
  /\ Fine(b, k) /\ LaterOf(a, b, k)

LEMMA GoodSettled ==
  ASSUME NEW gen, NEW a, NEW b, NEW k \in Keys, Good(a, gen), Settled(gen, a, b, k)
  PROVE  Good(b, gen) /\ Later(a, b)
  BY Assemble DEF Settled

LEMMA SettledAfter ==
  ASSUME NEW gen, NEW a, NEW b, NEW c, NEW k \in Keys,
         \A j \in Keys \ {k} : Same(a, b, j), LaterOf(a, b, k), Settled(gen, b, c, k)
  PROVE  Settled(gen, a, c, k)
  BY DEF Settled, Same, LaterOf

LEMMA SettledEvicted ==
  ASSUME NEW gen, NEW a, NEW b, NEW c, NEW k \in Keys,
         Good(a, gen), Settled(gen, a, b, k), Evicted(b, c)
  PROVE  Good(c, gen) /\ Later(a, c)
  BY GoodSettled, GoodEvicted, LaterTwice

\* One record and the loader's jobs changed.
Changed(a, k, r, loader, pending, phases, retry, reserved) ==
  [a EXCEPT !.records = [a.records EXCEPT ![k] = r], !.loader = loader, !.pending = pending,
            !.phases = phases, !.retry = retry, !.cpuReserved = reserved]

ChangedTo(gen, a, b, k, r, loader) ==
  /\ b \in Authorities /\ Stored(b) /\ Lists(b, gen)
  /\ \A j \in Keys \ {k} : Same(a, b, j)
  /\ b.records[k] = r /\ b.loader = loader /\ b.ready = a.ready /\ b.warm = a.warm
  /\ b.failed = a.failed /\ b.mislaid = a.mislaid /\ b.lost = a.lost

LEMMA RecordChange ==
  ASSUME NEW gen, NEW a \in Authorities, Stored(a), Lists(a, gen), NEW k \in Keys,
         NEW r \in Records, r.payload = a.records[k].payload, r.handle = a.records[k].handle,
         NEW loader \in LoadersBut(gen, a, k),
         NEW pending \in SUBSET Keys, NEW phases \in [Keys -> RepairPhases],
         NEW retry \in SUBSET Keys, NEW reserved \in Nat, reserved <= a.cpuReserved,
         NEW b, b = Changed(a, k, r, loader, pending, phases, retry, reserved)
  PROVE  ChangedTo(gen, a, b, k, r, loader)
<1> DEFINE R == [a.records EXCEPT ![k] = r]
<1>0. /\ loader \in Seq(Jobs) /\ loader \in Seq(JobsOf(gen)) /\ Distinct(loader)
      /\ \A j \in Keys \ {k} : j \in Names(loader) <=> j \in Names(a.loader)
  BY JobSeqs DEF LoadersBut
<1>1. R \in [Keys -> Records] /\ R[k] = r /\ \A j \in Keys \ {k} : R[j] = a.records[j]
  BY DEF Authorities
<1>2. b = [a EXCEPT !.records = R, !.loader = loader, !.pending = pending,
                    !.phases = phases, !.retry = retry, !.cpuReserved = reserved]
  BY DEF Changed
<1> HIDE DEF R
<1>3. /\ b.records = R /\ b.loader = loader /\ b.ready = a.ready /\ b.warm = a.warm
      /\ b.failed = a.failed /\ b.mislaid = a.mislaid /\ b.lost = a.lost
      /\ b.cpuUsed = a.cpuUsed /\ b.gpuUsed = a.gpuUsed /\ b.cpuReserved = reserved
  BY <1>2 DEF Authorities
<1>4. b \in Authorities
  BY <1>0, <1>1, <1>2 DEF Authorities
<1>5. SameStore(a, b)
  <2>1. \A j \in Keys : /\ b.records[j].payload = a.records[j].payload
                        /\ b.records[j].handle = a.records[j].handle
    BY <1>1, <1>3
  <2> QED BY <1>3, <2>1 DEF SameStore, Stored
<1>6. Stored(b)
  BY <1>4, <1>5, StoredSame
<1>7. \A j \in Keys \ {k} : Same(a, b, j)
  BY <1>0, <1>1, <1>3 DEF Same
<1>8. Lists(b, gen)
  BY <1>0, <1>3 DEF Lists
<1> QED BY <1>1, <1>3, <1>4, <1>6, <1>7, <1>8 DEF ChangedTo


\* What no lookup of the authority reads.
Aside(a, b) ==
  /\ b.records = a.records /\ b.loader = a.loader /\ b.failed = a.failed /\ b.ready = a.ready
  /\ b.warm = a.warm /\ b.mislaid = a.mislaid /\ b.lost = a.lost /\ b.cpuUsed = a.cpuUsed
  /\ b.cpuReserved = a.cpuReserved /\ b.gpuUsed = a.gpuUsed

LEMMA AsideEffect ==
  ASSUME NEW gen, NEW a \in Authorities, Stored(a), Lists(a, gen), NEW b \in Authorities,
         Aside(a, b)
  PROVE  Stored(b) /\ Lists(b, gen) /\ \A j \in Keys : Same(a, b, j) /\ LaterOf(a, b, j)
<1>1. SameStore(a, b)
  BY DEF Aside, SameStore, Stored, Authorities
<1>2. Lists(b, gen)
  BY DEF Aside, Lists
<1>3. \A j \in Keys : Same(a, b, j)
  BY DEF Aside, Same
<1> QED BY <1>1, <1>2, <1>3, StoredSame, LaterSame

LEMMA PendingEffect ==
  ASSUME NEW gen, NEW a \in Authorities, Stored(a), Lists(a, gen), NEW k \in Keys, Fine(a, k),
         NEW pending \in SUBSET Keys
  PROVE  Settled(gen, a, [a EXCEPT !.pending = pending], k)
<1> DEFINE b == [a EXCEPT !.pending = pending]
<1>1. b \in Authorities
  BY DEF Authorities
<1>2. Aside(a, b)
  BY DEF Aside, Authorities
<1> HIDE DEF b
<1>3. Stored(b) /\ Lists(b, gen) /\ \A j \in Keys : Same(a, b, j) /\ LaterOf(a, b, j)
  BY <1>1, <1>2, AsideEffect
<1>4. Fine(b, k)
  BY <1>3, FineSame
<1> QED BY <1>1, <1>3, <1>4 DEF Settled, b

LEMMA RequestedOf ==
  ASSUME NEW r \in Records
  PROVE  /\ Requested(r) \in SUBSET Parts
         /\ Requested(r) \in {{}, {"geometry", "material"}, Parts}
         /\ r.reasons = {} <=> Requested(r) = {}
         /\ r.reasons # {} => {"geometry", "material"} \subseteq Requested(r)
<1>1. r.reasons \in SUBSET Reasons
  BY DEF Records
<1>2. \A s \in r.reasons : MaskFor(s) \in {{"geometry", "material"}, Parts}
  BY DEF MaskFor
<1>3. CASE r.reasons = {}
  BY <1>3 DEF Requested
<1>4. CASE r.reasons # {} /\ "AnimationRequired" \in r.reasons
  <2>1. Requested(r) = Parts
    BY <1>2, <1>4 DEF Requested, MaskFor, Parts
  <2> QED BY <1>4, <2>1 DEF Parts
<1>5. CASE r.reasons # {} /\ "AnimationRequired" \notin r.reasons
  <2>1. \A s \in r.reasons : MaskFor(s) = {"geometry", "material"}
    BY <1>5 DEF MaskFor
  <2>2. PICK s \in r.reasons : TRUE
    BY <1>5
  <2>3. Requested(r) = {"geometry", "material"}
    BY <2>1, <2>2 DEF Requested
  <2> QED BY <1>5, <2>3 DEF Parts
<1> QED BY <1>3, <1>4, <1>5

LEMMA EnqueueMissingEffect ==
  ASSUME NEW gen \in Nat, gen = generation, NEW a \in Authorities, Stored(a), Lists(a, gen),
         NEW k \in Keys, Sound(a, k), a.records[k].reasons = {} => Covered(a, k)
  PROVE  Settled(gen, a, EnqueueMissing(a, k), k)
<1> DEFINE r == a.records[k]
           m == Missing(r)
<1>1. r \in Records /\ a.pending \in SUBSET Keys /\ a.phases \in [Keys -> RepairPhases]
        /\ a.retry \in SUBSET Keys /\ a.cpuReserved \in Nat /\ a.loader \in Seq(Jobs)
  BY DEF Authorities
<1>2. /\ Requested(r) \in SUBSET Parts
      /\ r.reasons = {} <=> Requested(r) = {}
      /\ r.reasons # {} => {"geometry", "material"} \subseteq Requested(r)
  BY <1>1, RequestedOf
<1>3. m = Requested(r) \ (r.satisfied \cup r.queued \cup r.flight) /\ m \in SUBSET Parts
  BY <1>2 DEF Missing
<1> HIDE DEF m
<1>4. r.satisfied = {} /\ r.queued # {} => r.flight = {}
  BY DEF Sound, Unheld
<1>5. ASSUME m = {} \/ r.flight # {} \/ r.queued = {}
      PROVE  /\ Fine(a, k) /\ Settled(gen, a, a, k)
             /\ Settled(gen, a, [a EXCEPT !.pending = @ \ {k}], k)
             /\ Settled(gen, a, [a EXCEPT !.pending = @ \cup {k}], k)
  <2>1. Covered(a, k)
    BY <1>2, <1>3, <1>4, <1>5 DEF Covered
  <2>2. Fine(a, k)
    BY <2>1 DEF Fine
  <2>3. /\ Settled(gen, a, [a EXCEPT !.pending = @ \ {k}], k)
        /\ Settled(gen, a, [a EXCEPT !.pending = @ \cup {k}], k)
    BY <1>1, <2>2, PendingEffect
  <2> QED BY <2>2, <2>3 DEF Settled, Same, LaterOf
<1>6. CASE m = {}
  BY <1>5, <1>6 DEF EnqueueMissing, m
<1>7. CASE m # {} /\ r.flight # {}
  BY <1>5, <1>7 DEF EnqueueMissing, m
<1>8. CASE m # {} /\ r.flight = {} /\ r.queued # {}
  <2> DEFINE b == [a EXCEPT !.records[k].queued = @ \cup m]
             q == [r EXCEPT !.queued = @ \cup m]
  <2>1. EnqueueMissing(a, k) = b
    BY <1>8 DEF EnqueueMissing, m
  <2>2. /\ q \in Records /\ q.queued = r.queued \cup m /\ q.state = r.state
        /\ q.reasons = r.reasons /\ q.satisfied = r.satisfied /\ q.flight = r.flight
        /\ q.bytes = r.bytes /\ q.payload = r.payload /\ q.handle = r.handle
    BY <1>1, <1>3 DEF Records
  <2>3. b = Changed(a, k, q, a.loader, a.pending, a.phases, a.retry, a.cpuReserved)
    BY DEF Authorities, Changed
  <2> HIDE DEF b, q
  <2>4. /\ b \in Authorities /\ Stored(b) /\ Lists(b, gen)
        /\ \A j \in Keys \ {k} : Same(a, b, j)
        /\ b.records[k] = q /\ b.loader = a.loader /\ b.ready = a.ready /\ b.warm = a.warm
        /\ b.failed = a.failed /\ b.mislaid = a.mislaid /\ b.lost = a.lost
    <3>1. a.loader \in LoadersBut(gen, a, k) /\ a.cpuReserved <= a.cpuReserved
      BY <1>1 DEF Lists, LoadersBut
    <3>2. ChangedTo(gen, a, b, k, q, a.loader)
      BY <1>1, <2>2, <2>3, <3>1, RecordChange
    <3> QED BY <3>2 DEF ChangedTo
  <2>5. Sound(b, k)
    BY <1>3, <1>8, <2>2, <2>4 DEF Sound, Unheld, OnceHeld, Placed
  <2>6. Covered(b, k)
    BY <1>2, <1>3, <1>8, <2>2, <2>4, RequestedOf DEF Covered, Requested
  <2>7. LaterOf(a, b, k)
    BY <2>2, <2>4 DEF LaterOf
  <2> QED BY <2>1, <2>4, <2>5, <2>6, <2>7 DEF Settled, Fine
<1>9. CASE m # {} /\ r.flight = {} /\ r.queued = {}
  <2> DEFINE job == [key |-> k, generation |-> gen, bytes |-> r.bytes]
             q == [r EXCEPT !.queued = m,
                            !.state = IF @ = "Unloaded" THEN "Queued" ELSE @]
  <2>1. CASE k \in a.failed \/ ~CanEnqueue(a, k)
    BY <1>5, <1>9, <2>1 DEF EnqueueMissing, m
  <2>2. CASE ~(k \in a.failed \/ ~CanEnqueue(a, k))
    <3> DEFINE b == [Enqueue(a, job) EXCEPT !.pending = @ \ {k}, !.records[k].queued = m,
                                 !.records[k].state = IF @ = "Unloaded" THEN "Queued" ELSE @]
    <3>1. EnqueueMissing(a, k) = b
      BY <1>9, <2>2 DEF EnqueueMissing, m
    <3>2. job \in JobsOf(gen) /\ job.key = k
      BY <1>1 DEF Jobs, JobsOf, Records
    <3> HIDE DEF job
    <3>3. PICK loader \in LoadersBut(gen, a, k) :
            Enqueue(a, job) = [a EXCEPT !.loader = loader] /\ k \in Names(loader)
      BY <3>2, EnqueueEffect
    <3>4. /\ q \in Records /\ q.queued = m
          /\ q.state = IF r.state = "Unloaded" THEN "Queued" ELSE r.state
          /\ q.reasons = r.reasons /\ q.satisfied = r.satisfied /\ q.flight = r.flight
          /\ q.bytes = r.bytes /\ q.payload = r.payload /\ q.handle = r.handle
      BY <1>1, <1>3 DEF Records, States
    <3>5. b = Changed(a, k, q, loader, a.pending \ {k}, a.phases, a.retry, a.cpuReserved)
      <4> DEFINE R == [a.records EXCEPT ![k].queued = m,
                                        ![k].state = IF @ = "Unloaded" THEN "Queued" ELSE @]
      <4>1. b = [a EXCEPT !.loader = loader, !.pending = @ \ {k}, !.records = R]
        BY <3>3 DEF Authorities
      <4>2. R = [a.records EXCEPT ![k] = q]
        BY <1>1, Zenon DEF Authorities
      <4> HIDE DEF R, b, q
      <4> QED BY <4>1, <4>2 DEF Changed, Authorities
    <3>6. a.pending \ {k} \in SUBSET Keys /\ a.cpuReserved <= a.cpuReserved
      BY <1>1
    <3> HIDE DEF b, q
    <3>7. /\ b \in Authorities /\ Stored(b) /\ Lists(b, gen)
          /\ \A j \in Keys \ {k} : Same(a, b, j)
          /\ b.records[k] = q /\ b.loader = loader /\ b.ready = a.ready /\ b.warm = a.warm
          /\ b.failed = a.failed /\ b.mislaid = a.mislaid /\ b.lost = a.lost
      <4>1. ChangedTo(gen, a, b, k, q, loader)
        BY <1>1, <3>3, <3>4, <3>5, <3>6, RecordChange
      <4> QED BY <4>1 DEF ChangedTo
    <3>8. Sound(b, k)
      BY <1>3, <1>9, <3>2, <3>3, <3>4, <3>7 DEF Sound, Unheld, OnceHeld, Placed, Held
    <3>9. Covered(b, k)
      BY <1>2, <1>3, <1>9, <3>4, <3>7 DEF Covered, Requested
    <3>10. LaterOf(a, b, k)
      BY <3>4, <3>7 DEF LaterOf
    <3> QED BY <3>1, <3>7, <3>8, <3>9, <3>10 DEF Settled, Fine
  <2> QED BY <2>1, <2>2
<1> QED BY <1>6, <1>7, <1>8, <1>9

\* An authority that is Good, and from which the loads and repairs of another go on.
Onward(gen, a, b) == Good(b, gen) /\ Later(a, b)

LEMMA OnwardTwice ==
  ASSUME NEW gen, NEW a, NEW b, NEW c, Onward(gen, a, b), Onward(gen, b, c)
  PROVE  Onward(gen, a, c)
  BY LaterTwice DEF Onward

LEMMA OnwardSame == ASSUME NEW gen, NEW a, Good(a, gen) PROVE Onward(gen, a, a)
  BY DEF Onward, Later, LaterOf

LEMMA OnwardAside ==
  ASSUME NEW gen, NEW a, Good(a, gen), NEW b \in Authorities, Aside(a, b)
  PROVE  Onward(gen, a, b)
<1>1. Stored(b) /\ Lists(b, gen) /\ \A j \in Keys : Same(a, b, j) /\ LaterOf(a, b, j)
  BY AsideEffect DEF Good
<1>2. \A j \in Keys : Fine(b, j)
  BY <1>1, FineSame DEF Good
<1> QED BY <1>1, <1>2 DEF Onward, Good, Later

LEMMA RetryEffect ==
  ASSUME NEW gen, NEW a, Good(a, gen), NEW retry \in SUBSET Keys
  PROVE  Onward(gen, a, [a EXCEPT !.retry = retry])
<1> DEFINE b == [a EXCEPT !.retry = retry]
<1>1. b \in Authorities
  BY DEF Good, Authorities
<1>2. Aside(a, b)
  BY DEF Aside, Good, Authorities
<1> HIDE DEF b
<1>3. Onward(gen, a, b)
  BY <1>1, <1>2, OnwardAside
<1> QED BY <1>3 DEF b

LEMMA RequestEffect ==
  ASSUME NEW gen \in Nat, gen = generation, NEW a, Good(a, gen), NEW k \in Keys,
         NEW reason \in Reasons, NEW bytes \in Nat
  PROVE  Onward(gen, a, RequestReason(a, k, reason, bytes).auth)
<1> DEFINE b == WithReason(a, k, reason, bytes)
           c == Rewarmed(b, k)
           d == RequestReason(a, k, reason, bytes).auth
<1>1. CASE k \in a.failed
  <2>1. d = b
    BY <1>1 DEF RequestReason
  <2> HIDE DEF b, c, d
  <2>2. Wanted(gen, a, b, k, reason)
    BY WithReasonEffect DEF b
  <2> USE DEF Wanted
  <2>3. a.records[k] \in Records /\ b.records[k] \in Records
    BY <2>2 DEF Good, Authorities
  <2>4. /\ b.records[k].state = a.records[k].state
        /\ b.records[k].satisfied = a.records[k].satisfied
        /\ b.records[k].queued = a.records[k].queued
        /\ b.records[k].flight = a.records[k].flight
        /\ b.records[k].payload = a.records[k].payload
        /\ b.records[k].handle = a.records[k].handle
    BY <2>2, <2>3 DEF Records
  <2>5. Fine(b, k)
    <3>1. Sound(a, k)
      BY DEF Good, Fine
    <3>2. Sound(b, k)
      BY <2>2, <2>4, <3>1 DEF Sound, Unheld, OnceHeld, Placed
    <3> QED BY <1>1, <2>2, <3>2 DEF Fine, Covered
  <2>6. LaterOf(a, b, k)
    BY <2>2, <2>4 DEF LaterOf
  <2>7. Settled(gen, a, b, k)
    BY <2>2, <2>5, <2>6 DEF Settled
  <2> QED BY <2>1, <2>7, GoodSettled DEF Onward, d
<1>2. CASE k \notin a.failed
  <2>1. d = EnqueueMissing(c, k)
    BY <1>2 DEF RequestReason
  <2> HIDE DEF b, c, d
  <2>2. /\ c \in Authorities /\ Stored(c) /\ Lists(c, gen)
        /\ \A j \in Keys \ {k} : Same(a, c, j)
        /\ Sound(c, k) /\ c.records[k].reasons # {} /\ LaterOf(a, c, k)
    BY RewarmedEffect DEF b, c
  <2>3. Settled(gen, c, d, k)
    BY <2>1, <2>2, EnqueueMissingEffect
  <2>4. Settled(gen, a, d, k)
    BY <2>2, <2>3, SettledAfter
  <2> QED BY <2>4, GoodSettled DEF Onward, d
<1> QED BY <1>1, <1>2

LEMMA RequestCameraNearEffect ==
  ASSUME NEW gen \in Nat, gen = generation, NEW a, Good(a, gen), NEW k \in Keys, NEW bytes \in Nat
  PROVE  Onward(gen, a, RequestCameraNear(a, k, bytes))
<1> DEFINE b == RequestReason(a, k, "CameraNear", bytes).auth
<1>1. Onward(gen, a, b)
  BY RequestEffect DEF Reasons
<1>2. PICK retry \in SUBSET Keys :
        RequestCameraNear(a, k, bytes) = [b EXCEPT !.retry = retry]
  <2> DEFINE ok == RequestReason(a, k, "CameraNear", bytes).ok
             eligible == k \notin b.failed /\ b.records[k].state = "Unloaded"
             retry == IF ok THEN b.retry \ {k}
                      ELSE IF eligible THEN b.retry \cup {k} ELSE b.retry
  <2>1. RequestCameraNear(a, k, bytes) = [b EXCEPT !.retry = retry]
    BY DEF RequestCameraNear
  <2>2. b.retry \in SUBSET Keys
    BY <1>1 DEF Onward, Good, Authorities
  <2>3. retry \in SUBSET Keys
    BY <2>2
  <2> QED BY <2>1, <2>3
<1> HIDE DEF b
<1> QED BY <1>1, <1>2, RetryEffect, OnwardTwice DEF Onward

(***************************************************************************)
(* Changes of all that is kept about one payload.                          *)
(***************************************************************************)

ReadyBut(a, k) ==
  {ready \in Seq(Keys) :
     IsInjective(ready) /\ \A j \in Keys \ {k} : j \in Range(ready) <=> j \in Range(a.ready)}

\* What eviction has to know of a payload.
WarmRight(a, w) ==
  /\ w.key \in Counted(a) /\ w.cpu = Decoded[w.key]
  /\ w.gpu = IF a.records[w.key].handle THEN Decoded[w.key] ELSE 0

WarmBut(a, k) ==
  {warm \in Seq(WarmOnes) :
     /\ Distinct(warm)
     /\ \A j \in Keys \ {k} : j \in Names(warm) <=> j \in Names(a.warm)
     /\ \A w \in Range(warm) : w \in Range(a.warm) \/ (w.key = k /\ WarmRight(a, w))}

Differs(gen, a, b, k) ==
  /\ b \in Authorities /\ b.cpuUsed = a.cpuUsed /\ b.gpuUsed = a.gpuUsed
  /\ b.cpuUsed + b.cpuReserved <= CpuBudget
  /\ b.loader \in LoadersBut(gen, a, k) /\ b.ready \in ReadyBut(a, k) /\ b.warm \in WarmBut(a, k)
  /\ \A j \in Keys \ {k} :
       /\ b.records[j] = a.records[j]
       /\ j \in b.failed <=> j \in a.failed
       /\ j \in b.mislaid <=> j \in a.mislaid
       /\ j \in b.lost <=> j \in a.lost
  /\ b.records[k].handle = a.records[k].handle
  /\ k \in Counted(b) <=> k \in Counted(a)

LEMMA DiffersEffect ==
  ASSUME NEW gen, NEW a \in Authorities, Stored(a), NEW k \in Keys, NEW b, Differs(gen, a, b, k)
  PROVE  /\ b \in Authorities /\ Stored(b) /\ Lists(b, gen)
         /\ \A j \in Keys \ {k} : Same(a, b, j)
<1>1. \A j \in Keys : b.records[j].handle = a.records[j].handle
  BY DEF Differs
<1>2. OnCard(b) = OnCard(a)
  BY <1>1 DEF OnCard
<1>3. Counted(b) = Counted(a)
  <2>1. a.lost \in SUBSET Keys /\ b.lost \in SUBSET Keys
    BY DEF Differs, Authorities
  <2>2. \A j \in Keys : j \in Counted(b) <=> j \in Counted(a)
    BY DEF Differs, Counted
  <2> QED BY <2>1, <2>2 DEF Counted
<1>4. ASSUME NEW w \in Range(b.warm) PROVE WarmRight(b, w)
  <2>1. w \in WarmOnes
    BY InRange DEF Differs, WarmBut
  <2>2. WarmRight(a, w)
    BY DEF Differs, WarmBut, Stored, WarmRight
  <2> QED BY <1>1, <1>3, <2>1, <2>2 DEF WarmRight, WarmOnes
<1>6. Stored(b)
  BY <1>2, <1>3, <1>4 DEF Stored, Differs, WarmBut, WarmRight
<1>7. Lists(b, gen)
  BY DEF Lists, Differs, LoadersBut, ReadyBut
<1>8. \A j \in Keys \ {k} : Same(a, b, j)
  BY DEF Same, Differs, LoadersBut, ReadyBut, WarmBut
<1> QED BY <1>6, <1>7, <1>8 DEF Differs

LEMMA LoaderBut ==
  ASSUME NEW gen, NEW a, Lists(a, gen), NEW k \in Keys
  PROVE  /\ a.loader \in LoadersBut(gen, a, k)
         /\ Without(a.loader, k) \in LoadersBut(gen, a, k)
         /\ k \notin Names(Without(a.loader, k))
  BY WithoutEffect DEF Lists, LoadersBut

LEMMA ReadyLists ==
  ASSUME NEW gen, NEW a \in Authorities, Lists(a, gen), NEW k \in Keys
  PROVE  /\ a.ready \in ReadyBut(a, k)
         /\ RemoveFirst(a.ready, k) \in ReadyBut(a, k) /\ k \notin Range(RemoveFirst(a.ready, k))
         /\ k \notin Range(a.ready) =>
              Append(a.ready, k) \in ReadyBut(a, k) /\ k \in Range(Append(a.ready, k))
<1>1. a.ready \in Seq(Keys) /\ IsInjective(a.ready)
  BY DEF Authorities, Lists
<1>2. a.ready \in ReadyBut(a, k)
  BY <1>1 DEF ReadyBut
<1>3. RemoveFirst(a.ready, k) \in ReadyBut(a, k) /\ k \notin Range(RemoveFirst(a.ready, k))
  BY <1>1, RemoveFirstEffect DEF ReadyBut
<1>4. ASSUME k \notin Range(a.ready)
      PROVE  Append(a.ready, k) \in ReadyBut(a, k) /\ k \in Range(Append(a.ready, k))
  BY <1>1, <1>4, AppendEffect DEF ReadyBut
<1> QED BY <1>2, <1>3, <1>4

LEMMA WarmLists ==
  ASSUME NEW a \in Authorities, Stored(a), NEW k \in Keys
  PROVE  /\ a.warm \in WarmBut(a, k)
         /\ Without(a.warm, k) \in WarmBut(a, k) /\ k \notin Names(Without(a.warm, k))
         /\ \A w \in WarmOnes : w.key = k /\ WarmRight(a, w) =>
              Append(Without(a.warm, k), w) \in WarmBut(a, k)
<1>1. a.warm \in Seq(WarmOnes) /\ Distinct(a.warm)
  BY DEF Authorities, Stored
<1>2. a.warm \in WarmBut(a, k)
  BY <1>1 DEF WarmBut
<1> DEFINE rest == Without(a.warm, k)
<1>3. /\ rest \in Seq(WarmOnes) /\ Distinct(rest) /\ Names(rest) = Names(a.warm) \ {k}
      /\ Range(rest) = {w \in Range(a.warm) : w.key # k}
  BY <1>1, WithoutEffect
<1> HIDE DEF rest
<1>4. rest \in WarmBut(a, k) /\ k \notin Names(rest)
  BY <1>3 DEF WarmBut
<1>5. ASSUME NEW w \in WarmOnes, w.key = k, WarmRight(a, w)
      PROVE  Append(rest, w) \in WarmBut(a, k)
  <2>1. /\ Append(rest, w) \in Seq(WarmOnes) /\ Range(Append(rest, w)) = Range(rest) \cup {w}
        /\ Names(Append(rest, w)) = Names(rest) \cup {k} /\ Distinct(Append(rest, w))
    BY <1>3, <1>5, AppendEffect
  <2> QED BY <1>3, <1>5, <2>1 DEF WarmBut
<1> QED BY <1>2, <1>4, <1>5 DEF rest

LEMMA SettledDiffers ==
  ASSUME NEW gen, NEW a, Good(a, gen), NEW k \in Keys, NEW b, Differs(gen, a, b, k),
         Fine(b, k), LaterOf(a, b, k)
  PROVE  Settled(gen, a, b, k)
  BY DiffersEffect DEF Good, Settled

LEMMA RemoveEffect ==
  ASSUME NEW gen, NEW a, Good(a, gen), NEW k \in Keys, NEW reason
  PROVE  Onward(gen, a, RemoveReason(a, k, reason))
<1> DEFINE r == a.records[k]
           retry == IF reason = "CameraNear" THEN a.retry \ {k} ELSE a.retry
           first == [a EXCEPT !.records[k].reasons = @ \ {reason},
                              !.retry = IF reason = "CameraNear" THEN @ \ {k} ELSE @]
           q == [r EXCEPT !.reasons = @ \ {reason}]
<1>1. a \in Authorities /\ Stored(a) /\ Lists(a, gen) /\ r \in Records
  BY DEF Good, Authorities
<1>2. retry \in SUBSET Keys
  BY <1>1 DEF Authorities
<1>3. /\ q \in Records /\ q.reasons = r.reasons \ {reason} /\ q.state = r.state
      /\ q.satisfied = r.satisfied /\ q.queued = r.queued /\ q.flight = r.flight
      /\ q.bytes = r.bytes /\ q.payload = r.payload /\ q.handle = r.handle
  BY <1>1 DEF Records
<1>4. first = [a EXCEPT !.records = [a.records EXCEPT ![k] = q], !.retry = retry]
  BY <1>1 DEF Authorities
<1>5. Sound(a, k) /\ Covered(a, k)
  BY DEF Good, Fine
<1> HIDE DEF q, retry
<1>6. CASE q.reasons # {}
  <2>1. /\ first.records = [a.records EXCEPT ![k] = q] /\ first.loader = a.loader
        /\ first.ready = a.ready /\ first.warm = a.warm /\ first.failed = a.failed
        /\ first.mislaid = a.mislaid /\ first.lost = a.lost /\ first.cpuUsed = a.cpuUsed
        /\ first.gpuUsed = a.gpuUsed /\ first.cpuReserved = a.cpuReserved
        /\ first \in Authorities
    BY <1>1, <1>2, <1>3, <1>4 DEF Authorities
  <2>2. RemoveReason(a, k, reason) = first
    <3>1. first.records[k] = q
      BY <1>1, <2>1 DEF Authorities
    <3> HIDE DEF first
    <3> QED BY <1>6, <3>1 DEF RemoveReason, first
  <2> HIDE DEF first
  <2>3. first.records[k] = q /\ \A j \in Keys \ {k} : first.records[j] = a.records[j]
    BY <1>1, <2>1 DEF Authorities
  <2>4. Differs(gen, a, first, k)
    <3>1. k \in Counted(first) <=> k \in Counted(a)
      BY <1>3, <2>1, <2>3 DEF Counted
    <3>2. first.cpuUsed + first.cpuReserved <= CpuBudget
      BY <1>1, <2>1 DEF Stored
    <3>3. a.loader \in LoadersBut(gen, a, k) /\ a.ready \in ReadyBut(a, k) /\ a.warm \in WarmBut(a, k)
      BY <1>1, LoaderBut, ReadyLists, WarmLists
    <3> QED BY <1>3, <2>1, <2>3, <3>1, <3>2, <3>3 DEF Differs
  <2>5. Sound(first, k)
    BY <1>3, <1>5, <2>1, <2>3 DEF Sound, Unheld, OnceHeld, Placed
  <2>6. Covered(first, k)
    BY <1>3, <1>5, <1>6, <2>1, <2>3 DEF Covered, Requested
  <2>7. LaterOf(a, first, k)
    BY <1>3, <2>1, <2>3 DEF LaterOf
  <2>8. Settled(gen, a, first, k)
    BY <2>4, <2>5, <2>6, <2>7, SettledDiffers DEF Fine
  <2> QED BY <2>2, <2>8, GoodSettled DEF Onward
<1>7. CASE q.reasons = {}
  <2> DEFINE loader == IF r.queued = {} THEN a.loader ELSE Without(a.loader, k)
             ready == IF r.state = "CpuReady" THEN RemoveFirst(a.ready, k) ELSE a.ready
             gpu == IF r.state = "GpuResident" THEN r.bytes ELSE 0
             w == [key |-> k, cpu |-> r.bytes, gpu |-> gpu]
             held == r.state \in {"GpuResident", "CpuReady"}
             warm == IF held THEN Append(Without(a.warm, k), w) ELSE a.warm
             to == IF held THEN "Warm"
                   ELSE IF r.state \in {"Queued", "RepairWaiting"} THEN "Unloaded" ELSE r.state
             s == [q EXCEPT !.queued = {}, !.state = to]
             phases == [a.phases EXCEPT ![k] = "NeedScenePayload"]
             pending == a.pending \ {k}
             S == [a.records EXCEPT ![k] = s]
             b == [a EXCEPT !.records = S, !.retry = retry,
                            !.phases = phases, !.pending = pending, !.loader = loader,
                            !.ready = ready, !.warm = warm]
  <2>1. RemoveReason(a, k, reason) = EvictToBudget(b)
    <3> DEFINE R == [[a.records EXCEPT ![k] = q] EXCEPT ![k].queued = {}]
               c == [a EXCEPT !.records = R, !.retry = retry, !.phases = phases,
                              !.pending = pending, !.loader = loader, !.ready = ready]
               d == CASE r.state = "GpuResident" -> Warmed(c, k, r.bytes)
                      [] r.state = "CpuReady"    -> Warmed(c, k, 0)
                      [] r.state \in {"Queued", "RepairWaiting"} ->
                           [c EXCEPT !.records[k].state = "Unloaded"]
                      [] OTHER -> c
    <3>1. first.records[k] = q
      BY <1>1, <1>4 DEF Authorities
    <3>2. RemoveReason(a, k, reason) = Released(first, k)
      <4> HIDE DEF first
      <4> QED BY <1>7, <3>1 DEF RemoveReason, first
    <3>3. Released(first, k) = EvictToBudget(d)
      <4> DEFINE F == [a.records EXCEPT ![k] = q]
      <4>1. /\ first.records = F /\ first.loader = a.loader
            /\ first.ready = a.ready /\ first.warm = a.warm /\ first.phases = a.phases
            /\ first.pending = a.pending /\ first.retry = retry
        BY <1>1, <1>4 DEF Authorities
      <4>2. /\ R = [first.records EXCEPT ![k].queued = {}]
            /\ phases = [first.phases EXCEPT ![k] = "NeedScenePayload"]
            /\ pending = first.pending \ {k}
            /\ loader = IF q.queued = {} THEN first.loader ELSE Without(first.loader, k)
            /\ ready = IF q.state = "CpuReady" THEN RemoveFirst(first.ready, k) ELSE first.ready
        BY <1>3, <4>1
      <4> HIDE DEF R, phases, pending, loader, ready
      <4>3. c = [first EXCEPT !.records = R, !.phases = phases, !.pending = pending,
                              !.loader = loader, !.ready = ready]
        BY <1>1, <1>4 DEF Authorities
      <4>4. c = [first EXCEPT !.phases[k] = "NeedScenePayload", !.pending = @ \ {k},
                              !.loader = IF q.queued = {} THEN @ ELSE Without(@, k),
                              !.records[k].queued = {},
                              !.ready = IF q.state = "CpuReady" THEN RemoveFirst(@, k) ELSE @]
        <5> HIDE DEF first, c
        <5> QED BY <4>2, <4>3
      <4> HIDE DEF first, c
      <4> QED BY <1>3, <3>1, <4>4 DEF Released
    <3>4. d = b
      <4>1. R = [a.records EXCEPT ![k] = [q EXCEPT !.queued = {}]] /\ c.records = R
              /\ c.warm = a.warm /\ R[k] = [q EXCEPT !.queued = {}] /\ R[k].bytes = r.bytes
        BY <1>1, <1>3 DEF Authorities, Records
      <4>2. [R EXCEPT ![k].state = to] = [a.records EXCEPT ![k] = s]
        BY <1>1, <1>3, <4>1 DEF Authorities, Records
      <4> DEFINE e == [c EXCEPT !.records[k].state = to, !.warm = warm]
      <4>3. e = b
        <5>1. e = [c EXCEPT !.records = [R EXCEPT ![k].state = to], !.warm = warm]
          <6> HIDE DEF R, c, warm, to
          <6> QED BY <4>1
        <5>2. e = [c EXCEPT !.records = S, !.warm = warm]
          BY <4>2, <5>1
        <5> HIDE DEF S, R, warm, ready, loader, pending, phases, e
        <5> QED BY <1>1, <5>2 DEF Authorities
      <4>4. d = e
        <5>1. CASE r.state = "GpuResident"
          <6>1. Warmed(c, k, r.bytes) = e
            <7>1. w = [key |-> k, cpu |-> c.records[k].bytes, gpu |-> r.bytes] /\ to = "Warm"
                    /\ warm = Append(Without(c.warm, k), w)
              BY <4>1, <5>1
            <7> HIDE DEF c, w, warm, to
            <7> QED BY <7>1 DEF Warmed
          <6> QED BY <5>1, <6>1
        <5>2. CASE r.state = "CpuReady"
          <6>1. Warmed(c, k, 0) = e
            <7>1. w = [key |-> k, cpu |-> c.records[k].bytes, gpu |-> 0] /\ to = "Warm"
                    /\ warm = Append(Without(c.warm, k), w)
              BY <4>1, <5>2
            <7> HIDE DEF c, w, warm, to
            <7> QED BY <7>1 DEF Warmed
          <6> QED BY <5>2, <6>1
        <5>3. CASE r.state \in {"Queued", "RepairWaiting"}
          BY <1>1, <4>1, <5>3 DEF Authorities
        <5>4. CASE r.state \notin {"GpuResident", "CpuReady", "Queued", "RepairWaiting"}
          <6>1. to = R[k].state /\ warm = c.warm
            BY <1>1, <1>3, <4>1, <5>4 DEF Records
          <6>2. d = c
            BY <5>4
          <6>3. [R EXCEPT ![k].state = to] = R
            <7>1. R[k] \in Records /\ R \in [Keys -> Records]
              BY <1>1, <1>3, <4>1 DEF Authorities, Records
            <7> HIDE DEF R, to
            <7>2. [R[k] EXCEPT !.state = R[k].state] = R[k]
              BY <7>1 DEF Records
            <7>3. [R EXCEPT ![k] = R[k]] = R
              BY <7>1
            <7> QED BY <6>1, <7>2, <7>3
          <6>4. e = [c EXCEPT !.records = R, !.warm = c.warm]
            <7> HIDE DEF R, c, warm, to
            <7> QED BY <4>1, <6>1, <6>3
          <6>5. e = c
            <7> HIDE DEF R, ready, loader, pending, phases, e
            <7> QED BY <1>1, <4>1, <6>4 DEF Authorities
          <6> QED BY <6>2, <6>5
        <5> QED BY <5>1, <5>2, <5>3, <5>4
      <4> QED BY <4>3, <4>4
    <3> QED BY <3>2, <3>3, <3>4
  <2>2. /\ s \in Records /\ s.reasons = {} /\ s.state = to /\ s.satisfied = r.satisfied
        /\ s.queued = {} /\ s.flight = r.flight /\ s.bytes = r.bytes
        /\ s.payload = r.payload /\ s.handle = r.handle
    BY <1>1, <1>3, <1>7 DEF Records, States
  <2>3. S \in [Keys -> Records] /\ S[k] = s /\ \A j \in Keys \ {k} : S[j] = a.records[j]
    <3> HIDE DEF s
    <3> QED BY <1>1, <2>2 DEF Authorities
  <2>4. held => /\ r.satisfied # {} /\ k \notin a.mislaid /\ r.bytes = Decoded[k]
                /\ (r.state = "GpuResident" <=> r.handle) /\ w \in WarmOnes
                /\ w.key = k /\ WarmRight(a, w) /\ k \notin a.lost
    <3>1. ASSUME held
          PROVE  /\ r.satisfied # {} /\ k \notin a.mislaid /\ r.bytes = Decoded[k]
                 /\ (r.state = "GpuResident" <=> r.handle) /\ (r.handle \/ r.payload)
                 /\ k \notin a.lost
      BY <1>1, <1>5, <3>1 DEF Sound, Unheld, Held, Placed, Records
    <3>2. ASSUME held PROVE w \in WarmOnes /\ w.key = k /\ w.cpu = Decoded[k]
                              /\ w.gpu = IF r.handle THEN Decoded[k] ELSE 0
      BY <1>1, <3>1, <3>2 DEF WarmOnes, Records
    <3>3. ASSUME held PROVE WarmRight(a, w)
      <4>1. k \in Counted(a)
        BY <3>1, <3>3 DEF Counted
      <4> HIDE DEF w
      <4> QED BY <3>2, <3>3, <4>1 DEF WarmRight
    <3> QED BY <3>1, <3>2, <3>3
  <2>5. loader \in LoadersBut(gen, a, k) /\ loader \in Seq(Jobs)
          /\ (k \in Names(loader) => r.queued = {} /\ k \in Names(a.loader))
    BY <1>1, LoaderBut, JobSeqs DEF LoadersBut
  <2>6. ready \in ReadyBut(a, k) /\ ready \in Seq(Keys)
          /\ (k \in Range(ready) => r.state # "CpuReady" /\ k \in Range(a.ready))
    BY <1>1, ReadyLists DEF ReadyBut
  <2>7. warm \in WarmBut(a, k) /\ warm \in Seq(WarmOnes)
          /\ (k \in Names(warm) => held \/ k \in Names(a.warm))
    BY <1>1, <2>4, WarmLists DEF WarmBut
  <2>8. to = IF held THEN "Warm"
             ELSE IF r.state \in {"Queued", "RepairWaiting"} THEN "Unloaded" ELSE r.state
    OBVIOUS
  <2>9. phases \in [Keys -> RepairPhases] /\ pending \in SUBSET Keys
    BY <1>1 DEF Authorities, RepairPhases
  <2> HIDE DEF s, S, loader, ready, warm, w, phases, pending, to
  <2>10. /\ b.records = S /\ b.loader = loader /\ b.ready = ready /\ b.warm = warm
         /\ b.failed = a.failed /\ b.mislaid = a.mislaid /\ b.lost = a.lost
         /\ b.cpuUsed = a.cpuUsed /\ b.gpuUsed = a.gpuUsed /\ b.cpuReserved = a.cpuReserved
    BY <1>1 DEF Authorities
  <2>11. b \in Authorities
    BY <1>1, <1>2, <2>3, <2>5, <2>6, <2>7, <2>9 DEF Authorities
  <2> HIDE DEF b
  <2>12. Differs(gen, a, b, k)
    <3>1. k \in Counted(b) <=> k \in Counted(a)
      BY <2>2, <2>3, <2>10 DEF Counted
    <3>2. b.cpuUsed + b.cpuReserved <= CpuBudget
      BY <1>1, <2>10 DEF Stored
    <3> QED BY <2>2, <2>3, <2>5, <2>6, <2>7, <2>10, <2>11, <3>1, <3>2 DEF Differs
  <2>13. Sound(b, k)
    <3>1. b.records[k] = s
      BY <2>3, <2>10
    <3>2. CASE r.satisfied = {}
      BY <1>5, <2>2, <2>4, <2>5, <2>6, <2>7, <2>8, <2>10, <3>1, <3>2 DEF Sound, Unheld, Placed, Held
    <3>3. CASE r.satisfied # {} /\ held
      BY <1>5, <2>2, <2>4, <2>5, <2>6, <2>7, <2>8, <2>10, <3>1, <3>3 DEF Sound, OnceHeld,
         Placed, Held
    <3>4. CASE r.satisfied # {} /\ ~held
      BY <1>5, <2>2, <2>4, <2>5, <2>6, <2>7, <2>8, <2>10, <3>1, <3>4 DEF Sound, OnceHeld,
         Placed, Held
    <3> QED BY <3>2, <3>3, <3>4
  <2>14. Covered(b, k)
    BY <2>2, <2>3, <2>10 DEF Covered
  <2>15. LaterOf(a, b, k)
    BY <2>2, <2>3, <2>8, <2>10 DEF LaterOf
  <2>16. Settled(gen, a, b, k)
    BY <2>12, <2>13, <2>14, <2>15, SettledDiffers DEF Fine
  <2>17. Evicted(b, EvictToBudget(b))
    BY <2>16, BudgetEffect DEF Settled
  <2> QED BY <2>1, <2>16, <2>17, SettledEvicted DEF Onward
<1> QED BY <1>6, <1>7

(***************************************************************************)
(* The demands of a frame.                                                 *)
(***************************************************************************)

InOrderStep(s, k, set, q) == IF k \in set THEN Append(s, k) ELSE s
Orders == INSTANCE FoldTheorems WITH Op <- InOrderStep

RemoveStep(b, k, reason, q) == RemoveReason(b, k, reason)
Removes == INSTANCE FoldTheorems WITH Op <- RemoveStep

AnimateStep(b, k, p, q) ==
  RequestReason(b, k, "AnimationRequired", Estimate(k, "AnimationRequired")).auth
Animates == INSTANCE FoldTheorems WITH Op <- AnimateStep

SelectStep(b, k, p, q) ==
  IF RequestReason(b, k, "Selected", Estimate(k, "Selected")).ok
    THEN RequestReason(b, k, "Selected", Estimate(k, "Selected")).auth
    ELSE RemoveReason(RequestReason(b, k, "Selected", Estimate(k, "Selected")).auth, k, "Selected")
Selects == INSTANCE FoldTheorems WITH Op <- SelectStep

LEMMA InOrderEffect == ASSUME NEW set PROVE InOrder(set) \in Seq(Keys)
<1> DEFINE all == [k \in Keys |-> k]
<1>1. all \in Seq(Keys)
  BY Sizes DEF Keys
<1>2. ASSUME NEW s \in Seq(Keys), NEW k \in Keys PROVE InOrderStep(s, k, set, 0) \in Seq(Keys)
  BY DEF InOrderStep
<1>3. <<>> \in Seq(Keys)
  OBVIOUS
<1> HIDE DEF all
<1>4. Orders!Fold(<<>>, all, set, 0) \in Seq(Keys)
  BY <1>1, <1>2, <1>3, Orders!FoldKeeps
<1>5. InOrder(set) = Orders!Fold(<<>>, all, set, 0)
  BY DEF InOrder, all, FoldLeft, MapThenFoldSet, Max, InOrderStep,
         Orders!Fold, Orders!MapThenFoldSet, Orders!Greatest
<1> QED BY <1>4, <1>5

LEMMA RemoveAllEffect ==
  ASSUME NEW gen, NEW a, Good(a, gen), NEW set, NEW reason
  PROVE  Onward(gen, a, RemoveAll(a, set, reason))
<1> DEFINE U == {b \in Authorities : Onward(gen, a, b)}
<1>1. a \in U
  BY OnwardSame DEF Good
<1>2. ASSUME NEW b \in U, NEW k \in Keys PROVE RemoveStep(b, k, reason, 0) \in U
  <2>1. Onward(gen, b, RemoveStep(b, k, reason, 0))
    BY RemoveEffect DEF RemoveStep, Onward
  <2> QED BY <2>1, OnwardTwice DEF Onward, Good
<1> HIDE DEF U
<1>3. Removes!Fold(a, InOrder(set), reason, 0) \in U
  BY <1>1, <1>2, InOrderEffect, Removes!FoldKeeps
<1>4. RemoveAll(a, set, reason) = Removes!Fold(a, InOrder(set), reason, 0)
  BY DEF RemoveAll, FoldLeft, MapThenFoldSet, Max, RemoveStep,
         Removes!Fold, Removes!MapThenFoldSet, Removes!Greatest
<1> QED BY <1>3, <1>4 DEF U

LEMMA EstimateType == \A k \in Keys, reason \in Reasons : Estimate(k, reason) \in Nat
  BY Sizes DEF Estimate

LEMMA SyncAnimationEffect ==
  ASSUME NEW gen \in Nat, gen = generation, NEW a, Good(a, gen)
  PROVE  Onward(gen, a, SyncAnimation(a))
<1> DEFINE U == {b \in Authorities : Onward(gen, a, b)}
           some == InOrder(Animated \ Holding(a, "AnimationRequired"))
<1>1. a \in U
  BY OnwardSame DEF Good
<1>2. ASSUME NEW b \in U, NEW k \in Keys PROVE AnimateStep(b, k, 0, 0) \in U
  <2>1. Good(b, gen) /\ Estimate(k, "AnimationRequired") \in Nat
    BY EstimateType DEF Onward, Reasons
  <2>2. Onward(gen, b, AnimateStep(b, k, 0, 0))
    BY <2>1, RequestEffect DEF AnimateStep, Reasons
  <2> QED BY <2>2, OnwardTwice DEF Onward, Good
<1> HIDE DEF U
<1>3. some \in Seq(Keys)
  BY InOrderEffect
<1> HIDE DEF some
<1>4. Animates!Fold(a, some, 0, 0) \in U
  BY <1>1, <1>2, <1>3, Animates!FoldKeeps
<1>5. SyncAnimation(a) =
        IF ~wants.playing
          THEN RemoveAll(a, Holding(a, "AnimationRequired"), "AnimationRequired")
          ELSE Animates!Fold(a, some, 0, 0)
  BY DEF SyncAnimation, some, FoldLeft, MapThenFoldSet, Max, AnimateStep,
         Animates!Fold, Animates!MapThenFoldSet, Animates!Greatest
<1>6. Onward(gen, a, RemoveAll(a, Holding(a, "AnimationRequired"), "AnimationRequired"))
  BY RemoveAllEffect
<1> QED BY <1>4, <1>5, <1>6 DEF U

LEMMA SyncSelectedEffect ==
  ASSUME NEW gen \in Nat, gen = generation, NEW a, Good(a, gen)
  PROVE  Onward(gen, a, SyncSelected(a))
<1> DEFINE kept == RemoveAll(a, Holding(a, "Selected") \ wants.selected, "Selected")
           U == {b \in Authorities : Onward(gen, a, b)}
           some == InOrder(wants.selected \ Holding(kept, "Selected"))
<1>1. kept \in U
  BY RemoveAllEffect DEF Onward, Good
<1>2. ASSUME NEW b \in U, NEW k \in Keys PROVE SelectStep(b, k, 0, 0) \in U
  <2> DEFINE c == RequestReason(b, k, "Selected", Estimate(k, "Selected")).auth
             d == RemoveReason(c, k, "Selected")
  <2>1. Onward(gen, a, b) /\ Good(b, gen) /\ Estimate(k, "Selected") \in Nat
    BY EstimateType DEF Onward, Reasons
  <2>2. Onward(gen, b, c)
    BY <2>1, RequestEffect DEF Reasons
  <2> HIDE DEF c
  <2>3. Onward(gen, c, d)
    BY <2>2, RemoveEffect DEF Onward
  <2>4. SelectStep(b, k, 0, 0) \in {c, d}
    BY DEF SelectStep, c
  <2> HIDE DEF d
  <2>5. Onward(gen, a, c) /\ Onward(gen, a, d)
    BY <2>1, <2>2, <2>3, OnwardTwice
  <2> QED BY <2>4, <2>5 DEF Onward, Good
<1>3. some \in Seq(Keys)
  BY InOrderEffect
<1>4. SyncSelected(a) = Selects!Fold(kept, some, 0, 0)
  BY DEF SyncSelected, FoldLeft, MapThenFoldSet, Max, SelectStep,
         Selects!Fold, Selects!MapThenFoldSet, Selects!Greatest
<1> HIDE DEF U, some, kept
<1>5. Selects!Fold(kept, some, 0, 0) \in U
  BY <1>1, <1>2, <1>3, Selects!FoldKeeps
<1> QED BY <1>4, <1>5 DEF U

RetryStep(b, k, p, q) ==
  LET c == [b EXCEPT !.retry = @ \ {k}]
  IN  IF c.records[k].state = "Unloaded" /\ "CameraNear" \in c.records[k].reasons
        THEN RequestCameraNear(c, k, c.records[k].bytes) ELSE c
Retries == INSTANCE FoldTheorems WITH Op <- RetryStep

NearStep(b, k, p, q) == RequestCameraNear(b, k, Estimate(k, "CameraNear"))
Nears == INSTANCE FoldTheorems WITH Op <- NearStep

PendingStep(b, k, p, q) == EnqueueMissing(b, k)
Pendings == INSTANCE FoldTheorems WITH Op <- PendingStep

LEMMA RetryCameraDemandEffect ==
  ASSUME NEW gen \in Nat, gen = generation, NEW a, Good(a, gen)
  PROVE  Onward(gen, a, RetryCameraDemand(a))
<1> DEFINE sorted == InOrder(a.retry)
           room == Minus(LoaderCapacity, Len(a.loader))
           n == IF Len(sorted) < room THEN Len(sorted) ELSE room
           some == SubSeq(sorted, 1, n)
           U == {b \in Authorities : Onward(gen, a, b)}
<1>1. a \in U
  BY OnwardSame DEF Good
<1>2. ASSUME NEW b \in U, NEW k \in Keys PROVE RetryStep(b, k, 0, 0) \in U
  <2> DEFINE c == [b EXCEPT !.retry = @ \ {k}]
             d == RequestCameraNear(c, k, c.records[k].bytes)
  <2>1. Onward(gen, a, b) /\ Good(b, gen) /\ b.retry \ {k} \in SUBSET Keys
    BY DEF Onward, Good, Authorities
  <2>2. Onward(gen, b, c)
    BY <2>1, RetryEffect
  <2>3. RetryStep(b, k, 0, 0) \in {c, d}
    BY DEF RetryStep
  <2> HIDE DEF c
  <2>4. c.records[k].bytes \in Nat
    BY <2>2 DEF Onward, Good, Authorities, Records
  <2>5. Onward(gen, c, d)
    BY <2>2, <2>4, RequestCameraNearEffect DEF Onward
  <2> HIDE DEF d
  <2>6. Onward(gen, a, c) /\ Onward(gen, a, d)
    BY <2>1, <2>2, <2>5, OnwardTwice
  <2> QED BY <2>3, <2>6 DEF Onward, Good
<1>3. some \in Seq(Keys)
  <2>1. sorted \in Seq(Keys) /\ Len(sorted) \in Nat
    BY InOrderEffect
  <2>2. Len(a.loader) \in Nat
    BY LenProperties DEF Good, Authorities
  <2>3. room \in Nat
    BY <2>2, Sizes DEF Minus
  <2> HIDE DEF room, sorted
  <2>4. n \in Nat /\ n <= Len(sorted)
    BY <2>1, <2>3
  <2> HIDE DEF n
  <2>5. \A i \in 1 .. n : sorted[i] \in Keys
    BY <2>1, <2>4, ElementOfSeq
  <2> QED BY <2>1, <2>4, <2>5, SubSeqProperties
<1>4. RetryCameraDemand(a) = Retries!Fold(a, some, 0, 0)
  BY DEF RetryCameraDemand, FoldLeft, MapThenFoldSet, Max, RetryStep,
         Retries!Fold, Retries!MapThenFoldSet, Retries!Greatest
<1> HIDE DEF U, some
<1>5. Retries!Fold(a, some, 0, 0) \in U
  BY <1>1, <1>2, <1>3, Retries!FoldKeeps
<1> QED BY <1>4, <1>5 DEF U

LEMMA UpdateCameraNearEffect ==
  ASSUME NEW gen \in Nat, gen = generation, NEW a, Good(a, gen)
  PROVE  Onward(gen, a, UpdateCameraNear(a))
<1> DEFINE kept == RemoveAll(a, Holding(a, "CameraNear") \ wants.near, "CameraNear")
           U == {b \in Authorities : Onward(gen, a, b)}
           some == InOrder(wants.near)
<1>1. kept \in U
  BY RemoveAllEffect DEF Onward, Good
<1>2. ASSUME NEW b \in U, NEW k \in Keys PROVE NearStep(b, k, 0, 0) \in U
  <2>1. Onward(gen, a, b) /\ Good(b, gen) /\ Estimate(k, "CameraNear") \in Nat
    BY EstimateType DEF Onward, Reasons
  <2>2. Onward(gen, b, NearStep(b, k, 0, 0))
    BY <2>1, RequestCameraNearEffect DEF NearStep
  <2> QED BY <2>1, <2>2, OnwardTwice DEF Onward, Good
<1>3. some \in Seq(Keys)
  BY InOrderEffect
<1>4. UpdateCameraNear(a) =
        IF ~wants.moved THEN RetryCameraDemand(a) ELSE Nears!Fold(kept, some, 0, 0)
  BY DEF UpdateCameraNear, FoldLeft, MapThenFoldSet, Max, NearStep,
         Nears!Fold, Nears!MapThenFoldSet, Nears!Greatest
<1> HIDE DEF U, some, kept
<1>5. Nears!Fold(kept, some, 0, 0) \in U
  BY <1>1, <1>2, <1>3, Nears!FoldKeeps
<1> QED BY <1>4, <1>5, RetryCameraDemandEffect DEF U

LEMMA RetryPendingEffect ==
  ASSUME NEW gen \in Nat, gen = generation, NEW a, Good(a, gen)
  PROVE  Onward(gen, a, RetryPendingLoads(a))
<1> DEFINE U == {b \in Authorities : Onward(gen, a, b)}
           some == InOrder(a.pending)
<1>1. a \in U
  BY OnwardSame DEF Good
<1>2. ASSUME NEW b \in U, NEW k \in Keys PROVE PendingStep(b, k, 0, 0) \in U
  <2>1. Onward(gen, a, b) /\ Good(b, gen)
    BY DEF Onward
  <2>2. /\ b \in Authorities /\ Stored(b) /\ Lists(b, gen)
        /\ Sound(b, k) /\ (b.records[k].reasons = {} => Covered(b, k))
    BY <2>1 DEF Good, Fine
  <2>3. Settled(gen, b, PendingStep(b, k, 0, 0), k)
    BY <2>2, EnqueueMissingEffect DEF PendingStep
  <2>4. Onward(gen, b, PendingStep(b, k, 0, 0))
    BY <2>1, <2>3, GoodSettled DEF Onward
  <2> QED BY <2>1, <2>4, OnwardTwice DEF Onward, Good
<1>3. some \in Seq(Keys)
  BY InOrderEffect
<1>4. RetryPendingLoads(a) = Pendings!Fold(a, some, 0, 0)
  BY DEF RetryPendingLoads, FoldLeft, MapThenFoldSet, Max, PendingStep,
         Pendings!Fold, Pendings!MapThenFoldSet, Pendings!Greatest
<1> HIDE DEF U, some
<1>5. Pendings!Fold(a, some, 0, 0) \in U
  BY <1>1, <1>2, <1>3, Pendings!FoldKeeps
<1> QED BY <1>4, <1>5 DEF U

(***************************************************************************)
(* The search of the loader for a job to begin.                            *)
(***************************************************************************)

\* The head of the second of two joined lists, moved to the first or left out.
TailJoined(V, D, L) ==
  /\ D \o L \in Seq(V) /\ D \o Tail(L) \in Seq(V) /\ Head(L) \in V /\ Tail(L) \in Seq(V)
  /\ Append(D, Head(L)) \in Seq(V) /\ Append(D, Head(L)) \o Tail(L) = D \o L
  /\ \E i \in DOMAIN (D \o L) : /\ (D \o L)[i] = Head(L)
                                /\ Thinned(D \o L, D \o Tail(L), i)

LEMMA JoinedTail ==
  ASSUME NEW V, NEW D \in Seq(V), NEW L \in Seq(V), L # <<>>
  PROVE  TailJoined(V, D, L)
<1> DEFINE d == Len(D)
           n == Len(L)
           T == Tail(L)
           h == Head(L)
<1>1. d \in Nat /\ n \in Nat \ {0} /\ DOMAIN D = 1 .. d /\ DOMAIN L = 1 .. n
  BY LenProperties, EmptySeq
<1>2. /\ h \in V /\ h = L[1] /\ T \in Seq(V) /\ Len(T) = n - 1
      /\ \A i \in 1 .. n - 1 : T[i] = L[i + 1]
  BY <1>1, HeadTailProperties
<1> HIDE DEF T, h
<1> DEFINE A == Append(D, h)
<1>5. /\ A \in Seq(V) /\ Len(A) = d + 1 /\ A[d + 1] = h
      /\ \A i \in 1 .. d : A[i] = D[i]
  BY <1>2, AppendProperties
<1>0. Len(T) = n - 1 /\ Len(A) = d + 1
  BY <1>2, <1>5
<1> HIDE DEF A
<1>3. /\ D \o L \in Seq(V) /\ Len(D \o L) = d + n
      /\ \A i \in 1 .. d + n : (D \o L)[i] = IF i <= d THEN D[i] ELSE L[i - d]
  BY ConcatProperties
<1>4. /\ D \o T \in Seq(V) /\ Len(D \o T) = d + (n - 1)
      /\ \A i \in 1 .. d + (n - 1) : (D \o T)[i] = IF i <= d THEN D[i] ELSE T[i - d]
  <2>1. /\ D \o T \in Seq(V) /\ Len(D \o T) = Len(D) + Len(T)
        /\ \A i \in 1 .. Len(D) + Len(T) : (D \o T)[i] = IF i <= Len(D) THEN D[i] ELSE T[i - Len(D)]
    BY <1>2, ConcatProperties
  <2>2. Len(D) = d
    OBVIOUS
  <2> HIDE DEF d, n
  <2> QED BY <1>0, <2>1, <2>2
<1>6. /\ A \o T \in Seq(V) /\ Len(A \o T) = (d + 1) + (n - 1)
      /\ \A i \in 1 .. (d + 1) + (n - 1) : (A \o T)[i] = IF i <= d + 1 THEN A[i] ELSE T[i - (d + 1)]
  <2>1. /\ A \o T \in Seq(V) /\ Len(A \o T) = Len(A) + Len(T)
        /\ \A i \in 1 .. Len(A) + Len(T) : (A \o T)[i] = IF i <= Len(A) THEN A[i] ELSE T[i - Len(A)]
    BY <1>2, <1>5, ConcatProperties
  <2> HIDE DEF d, n
  <2> QED BY <1>0, <2>1
<1> DEFINE J == D \o L
           K == D \o T
           M == A \o T
<1> HIDE DEF J, K, M, A, d, n
<1>7. M = J
  <2>1. Len(M) = d + n /\ Len(J) = d + n
    BY <1>1, <1>3, <1>6 DEF J, M
  <2>2. ASSUME NEW i \in 1 .. d + n PROVE M[i] = J[i]
    <3>1. i \in 1 .. (d + 1) + (n - 1)
      BY <1>1
    <3>2. M[i] = IF i <= d + 1 THEN A[i] ELSE T[i - (d + 1)]
      BY <1>6, <3>1 DEF M
    <3>3. J[i] = IF i <= d THEN D[i] ELSE L[i - d]
      BY <1>3 DEF J
    <3>4. CASE i <= d
      BY <1>1, <1>5, <3>2, <3>3, <3>4
    <3>5. CASE i = d + 1
      <4>1. M[i] = h
        BY <1>1, <1>5, <3>2, <3>5
      <4>2. J[i] = L[1]
        BY <1>1, <3>3, <3>5
      <4> QED BY <1>2, <4>1, <4>2
    <3>6. CASE i > d + 1
      <4>1. i - (d + 1) \in 1 .. n - 1 /\ (i - (d + 1)) + 1 = i - d
        BY <1>1, <3>6
      <4>2. T[i - (d + 1)] = L[i - d]
        BY <1>2, <4>1
      <4> QED BY <1>1, <3>2, <3>3, <3>6, <4>2
    <3> QED BY <1>1, <3>4, <3>5, <3>6
  <2>3. M \in Seq(V) /\ J \in Seq(V)
    BY <1>3, <1>6 DEF M, J
  <2> QED BY <2>1, <2>2, <2>3, SeqEqual
<1>8. d + 1 \in DOMAIN J /\ J[d + 1] = h
  <2>1. DOMAIN J = 1 .. d + n
    BY <1>3, LenProperties DEF J
  <2>2. d + 1 \in 1 .. d + n /\ ~(d + 1 <= d) /\ (d + 1) - d = 1
    BY <1>1
  <2> QED BY <1>2, <1>3, <2>1, <2>2 DEF J
<1>9. Thinned(J, K, d + 1)
  <2> DEFINE from == [a \in 1 .. d + (n - 1) |-> IF a <= d THEN a ELSE a + 1]
  <2>1. DOMAIN J = 1 .. d + n /\ DOMAIN K = 1 .. d + (n - 1)
    BY <1>3, <1>4, LenProperties DEF J, K
  <2>2. \A a \in 1 .. d + (n - 1) : from[a] \in 1 .. d + n
    BY <1>1
  <2>3. \A a, b \in 1 .. d + (n - 1) : from[a] = from[b] => a = b
    BY <1>1
  <2>4. ASSUME NEW a \in 1 .. d + (n - 1) PROVE K[a] = J[from[a]]
    <3>1. K[a] = IF a <= d THEN D[a] ELSE T[a - d]
      BY <1>4 DEF K
    <3>2. J[from[a]] = IF from[a] <= d THEN D[from[a]] ELSE L[from[a] - d]
      BY <1>3, <2>2 DEF J
    <3>3. CASE a <= d
      BY <3>1, <3>2, <3>3
    <3>4. CASE a > d
      <4>1. a - d \in 1 .. n - 1 /\ from[a] = a + 1 /\ ~(a + 1 <= d) /\ (a + 1) - d = (a - d) + 1
        BY <1>1, <3>4
      <4>2. T[a - d] = L[(a - d) + 1]
        BY <1>2, <4>1
      <4> QED BY <1>1, <3>1, <3>2, <3>4, <4>1, <4>2
    <3> QED BY <1>1, <3>3, <3>4
  <2>5. ASSUME NEW j \in 1 .. d + n
        PROVE  j # d + 1 <=> \E a \in 1 .. d + (n - 1) : from[a] = j
    <3>1. CASE j <= d
      <4>1. j \in 1 .. d + (n - 1) /\ from[j] = j
        BY <1>1, <3>1
      <4>2. j # d + 1
        BY <1>1, <3>1
      <4> HIDE DEF from
      <4> QED BY <4>1, <4>2
    <3>2. CASE j = d + 1
      BY <1>1, <3>2
    <3>3. CASE j > d + 1
      <4>1. j - 1 \in 1 .. d + (n - 1) /\ from[j - 1] = j
        BY <1>1, <3>3
      <4> QED BY <1>1, <3>3, <4>1
    <3> QED BY <1>1, <3>1, <3>2, <3>3
  <2>6. from \in [DOMAIN K -> DOMAIN J]
    BY <2>1, <2>2
  <2> HIDE DEF from
  <2>7. /\ \A a, b \in DOMAIN K : from[a] = from[b] => a = b
        /\ \A j \in DOMAIN J : j # d + 1 <=> \E a \in DOMAIN K : from[a] = j
        /\ \A a \in DOMAIN K : K[a] = J[from[a]]
    BY <2>1, <2>3, <2>4, <2>5
  <2> QED BY <2>6, <2>7 DEF Thinned
<1>10. \E i \in DOMAIN J : J[i] = h /\ Thinned(J, K, i)
  BY <1>8, <1>9
<1> QED BY <1>2, <1>3, <1>4, <1>5, <1>7, <1>10 DEF J, K, M, A, T, h, TailJoined

JoinedBut(gen, a, D, L) ==
  /\ D \o Tail(L) \in LoadersBut(gen, a, Head(L).key)
  /\ Head(L).key \notin Names(D \o Tail(L)) /\ Head(L).key \in Names(D \o L)
  /\ Head(L) \in JobsOf(gen) /\ Tail(L) \in Seq(JobsOf(gen))
  /\ Append(D, Head(L)) \in Seq(JobsOf(gen)) /\ Append(D, Head(L)) \o Tail(L) = D \o L

LEMMA JoinedWithout ==
  ASSUME NEW gen, NEW a, NEW D \in Seq(JobsOf(gen)), NEW L \in Seq(JobsOf(gen)), L # <<>>,
         Distinct(D \o L), a.loader = D \o L
  PROVE  JoinedBut(gen, a, D, L)
<1> DEFINE J == D \o L
           K == D \o Tail(L)
<1>0. TailJoined(JobsOf(gen), D, L)
  BY JoinedTail
<1>1. /\ J \in Seq(JobsOf(gen)) /\ K \in Seq(JobsOf(gen)) /\ Head(L) \in JobsOf(gen)
      /\ Tail(L) \in Seq(JobsOf(gen))
      /\ Append(D, Head(L)) \in Seq(JobsOf(gen)) /\ Append(D, Head(L)) \o Tail(L) = J
      /\ \E i \in DOMAIN J : J[i] = Head(L) /\ Thinned(J, K, i)
  BY <1>0 DEF TailJoined
<1>2. PICK i \in DOMAIN J : J[i] = Head(L) /\ Thinned(J, K, i)
  BY <1>1
<1>3. Distinct(J) /\ a.loader = J
  OBVIOUS
<1> HIDE DEF J, K
<1>4. Distinct(K) /\ Names(K) = Names(J) \ {Head(L).key}
  BY <1>2, <1>3, ThinnedKeys
<1>5. Head(L).key \in Names(J)
  BY <1>2 DEF Names
<1>6. K \in LoadersBut(gen, a, Head(L).key)
  BY <1>1, <1>3, <1>4 DEF LoadersBut
<1> QED BY <1>1, <1>4, <1>5, <1>6 DEF J, K, JoinedBut

\* Of a load that is begun: what came of its payload, and what it takes.
Started(a, b, job) ==
  LET k == job.key
      r == b.records[k]
  IN  /\ \A j \in Keys \ {k} : LaterOf(a, b, j)
      /\ k \in a.failed => k \in b.failed
      /\ r.state = "RepairWaiting" => a.records[k].state = "RepairWaiting"
      /\ r.flight # {}
      /\ r.satisfied = {} /\ k \notin b.failed =>
           Requested(r) \subseteq r.flight /\ (r.reasons = {} => r.flight = {"geometry"})

Drop(r) ==
  [r EXCEPT !.queued = {},
            !.state = IF r.queued = {} \/ "geometry" \in r.satisfied THEN r.state ELSE "Unloaded"]

Begin(r) ==
  [r EXCEPT !.flight = r.queued, !.queued = {},
            !.state = IF "geometry" \in r.satisfied THEN r.state ELSE "Loading"]

LEMMA DroppedForm ==
  ASSUME NEW a \in Authorities, NEW k \in Keys
  PROVE  Dropped(a, k) = [a EXCEPT !.records = [a.records EXCEPT ![k] = Drop(a.records[k])]]
<1> DEFINE r == a.records[k]
           s == Drop(r)
           S == [a.records EXCEPT ![k] = s]
<1>1. r \in Records
  BY DEF Authorities
<1>2. CASE r.queued = {}
  <2>1. s = r
    BY <1>1, <1>2 DEF Records, Drop
  <2>2. S = a.records
    <3> HIDE DEF s, r
    <3> QED BY <1>1, <2>1 DEF r, Authorities
  <2>3. Dropped(a, k) = a
    BY <1>2 DEF Dropped
  <2> HIDE DEF S
  <2>4. Dropped(a, k) = [a EXCEPT !.records = S]
    BY <1>1, <2>2, <2>3 DEF Authorities
  <2> QED BY <2>4 DEF S
<1>3. CASE r.queued # {}
  <2> DEFINE Q == [a.records EXCEPT ![k].queued = {}]
             T == [Q EXCEPT ![k].state = IF "geometry" \in Q[k].satisfied THEN @ ELSE "Unloaded"]
  <2>1. Q[k] = [r EXCEPT !.queued = {}] /\ Q[k].satisfied = r.satisfied /\ Q[k].state = r.state
    BY <1>1 DEF Authorities, Records
  <2>2. T = [Q EXCEPT ![k] = s]
    BY <1>1, <1>3, <2>1 DEF Authorities, Records, Drop
  <2>3. T = S
    <3> HIDE DEF s
    <3> QED BY <1>1, <2>2 DEF Authorities
  <2> DEFINE c == [a EXCEPT !.records = Q]
  <2>4. Dropped(a, k) = Becomes(c, k, "Unloaded")
    BY <1>3 DEF Dropped
  <2>5. c.records = Q
    BY <1>1 DEF Authorities
  <2>6. Becomes(c, k, "Unloaded") = [c EXCEPT !.records = T]
    <3> HIDE DEF c, Q
    <3> QED BY <2>5 DEF Becomes
  <2>7. Dropped(a, k) = [a EXCEPT !.records = S]
    <3> HIDE DEF T, S, Q
    <3> QED BY <1>1, <2>3, <2>4, <2>6 DEF Authorities
  <2> QED BY <2>7
<1> QED BY <1>2, <1>3

LEMMA BegunForm ==
  ASSUME NEW a \in Authorities, NEW job \in Jobs
  PROVE  Begun(a, job) =
           [a EXCEPT !.records = [a.records EXCEPT ![job.key] = Begin(a.records[job.key])],
                     !.cpuReserved = a.cpuReserved + job.bytes]
<1> DEFINE k == job.key
           r == a.records[k]
           s == Begin(r)
           S == [a.records EXCEPT ![k] = s]
           reserved == a.cpuReserved + job.bytes
           Q == [[a.records EXCEPT ![k].flight = r.queued] EXCEPT ![k].queued = {}]
           T == [Q EXCEPT ![k].state = IF "geometry" \in Q[k].satisfied THEN @ ELSE "Loading"]
           d == [a EXCEPT !.records = Q, !.cpuReserved = reserved]
<1>0. k \in Keys /\ r \in Records
  BY DEF Jobs, Authorities
<1>1. /\ Q = [a.records EXCEPT ![k] = [r EXCEPT !.flight = r.queued, !.queued = {}]]
      /\ Q[k] = [r EXCEPT !.flight = r.queued, !.queued = {}]
      /\ Q[k].satisfied = r.satisfied /\ Q[k].state = r.state
  BY <1>0 DEF Authorities, Records
<1>2. T = S
  <2>1. T = [Q EXCEPT ![k] = s]
    BY <1>0, <1>1 DEF Authorities, Records, Begin
  <2> HIDE DEF s, Q, T
  <2> QED BY <1>0, <1>1, <2>1 DEF Authorities
<1>3. Begun(a, job) = Becomes(d, k, "Loading")
  <2>1. d = [a EXCEPT !.records[job.key].flight = a.records[job.key].queued,
                      !.records[job.key].queued = {}, !.cpuReserved = @ + job.bytes]
    <3> DEFINE P == [a.records EXCEPT ![k].flight = r.queued]
    <3>1. Q = [P EXCEPT ![k].queued = {}]
      OBVIOUS
    <3> HIDE DEF Q
    <3>2. [a EXCEPT !.records[job.key].flight = a.records[job.key].queued,
                    !.records[job.key].queued = {}]
            = [[a EXCEPT !.records = P] EXCEPT !.records[k].queued = {}]
      OBVIOUS
    <3>3. [[a EXCEPT !.records = P] EXCEPT !.records[k].queued = {}] = [a EXCEPT !.records = Q]
      <4> HIDE DEF P
      <4> QED BY <3>1 DEF Authorities
    <3> QED BY <3>2, <3>3 DEF Authorities
  <2> HIDE DEF d
  <2> QED BY <2>1 DEF Begun
<1>4. d.records = Q
  BY DEF Authorities
<1>5. Becomes(d, k, "Loading") = [d EXCEPT !.records = T]
  <2> HIDE DEF d, Q
  <2> QED BY <1>4 DEF Becomes
<1>6. Begun(a, job) = [a EXCEPT !.records = S, !.cpuReserved = reserved]
  <2> HIDE DEF T, S, Q, reserved
  <2> QED BY <1>2, <1>3, <1>5 DEF Authorities
<1> QED BY <1>6

LEMMA DropEffect ==
  ASSUME NEW gen, NEW a, Good(a, gen), NEW k \in Names(a.loader), NEW loader \in LoadersBut(gen, a, k),
         k \notin Names(loader), k \in Keys
  PROVE  Onward(gen, a, [Dropped(a, k) EXCEPT !.loader = loader])
<1> DEFINE r == a.records[k]
           to == IF r.queued = {} \/ "geometry" \in r.satisfied THEN r.state ELSE "Unloaded"
           s == [r EXCEPT !.queued = {}, !.state = to]
           S == [a.records EXCEPT ![k] = s]
           b == [a EXCEPT !.records = S, !.loader = loader]
<1>1. a \in Authorities /\ Stored(a) /\ Lists(a, gen) /\ r \in Records /\ Sound(a, k)
  BY DEF Good, Authorities, Fine
<1>2. [Dropped(a, k) EXCEPT !.loader = loader] = b
  <2>1. Dropped(a, k) = [a EXCEPT !.records = S]
    BY <1>1, DroppedForm DEF Drop
  <2> HIDE DEF S
  <2> QED BY <1>1, <2>1 DEF Authorities
<1>3. /\ s \in Records /\ s.reasons = r.reasons /\ s.state = to /\ s.satisfied = r.satisfied
      /\ s.queued = {} /\ s.flight = r.flight /\ s.bytes = r.bytes
      /\ s.payload = r.payload /\ s.handle = r.handle
  BY <1>1 DEF Records, States
<1>4. S \in [Keys -> Records] /\ S[k] = s /\ \A j \in Keys \ {k} : S[j] = a.records[j]
  <2> HIDE DEF s
  <2> QED BY <1>1, <1>3 DEF Authorities
<1>5. to = IF r.queued = {} \/ "geometry" \in r.satisfied THEN r.state ELSE "Unloaded"
  OBVIOUS
<1>6. loader \in Seq(Jobs)
  BY JobSeqs DEF LoadersBut
<1> HIDE DEF S, s, to
<1>7. /\ b.records = S /\ b.loader = loader /\ b.ready = a.ready /\ b.warm = a.warm
      /\ b.failed = a.failed /\ b.mislaid = a.mislaid /\ b.lost = a.lost
      /\ b.cpuUsed = a.cpuUsed /\ b.gpuUsed = a.gpuUsed /\ b.cpuReserved = a.cpuReserved
  BY <1>1 DEF Authorities
<1>8. b \in Authorities
  BY <1>1, <1>4, <1>6 DEF Authorities
<1> HIDE DEF b
<1>9. Differs(gen, a, b, k)
  <2>1. k \in Counted(b) <=> k \in Counted(a)
    BY <1>3, <1>4, <1>7 DEF Counted
  <2>2. b.cpuUsed + b.cpuReserved <= CpuBudget
    BY <1>1, <1>7 DEF Stored
  <2>3. a.ready \in ReadyBut(a, k) /\ a.warm \in WarmBut(a, k)
    BY <1>1, ReadyLists, WarmLists
  <2> QED BY <1>3, <1>4, <1>7, <1>8, <2>1, <2>2, <2>3 DEF Differs
<1>10. b.records[k] = s
  BY <1>4, <1>7
<1>11. Sound(b, k)
  <2>1. CASE r.satisfied = {}
    BY <1>1, <1>3, <1>5, <1>7, <1>10, <2>1 DEF Sound, Unheld, Placed, Held
  <2>2. CASE r.satisfied # {}
    BY <1>1, <1>3, <1>5, <1>7, <1>10, <2>2 DEF Sound, OnceHeld, Placed, Held
  <2> QED BY <2>1, <2>2
<1>12. Covered(b, k)
  BY <1>3, <1>10 DEF Covered
<1>13. LaterOf(a, b, k)
  BY <1>3, <1>5, <1>7, <1>10 DEF LaterOf
<1>14. Settled(gen, a, b, k)
  BY <1>9, <1>11, <1>12, <1>13, SettledDiffers DEF Fine
<1> QED BY <1>2, <1>14, GoodSettled DEF Onward

LEMMA ForgetEffect ==
  ASSUME NEW gen, NEW a, Good(a, gen), NEW k \in Names(a.loader), NEW loader \in LoadersBut(gen, a, k),
         k \notin Names(loader), k \in Keys,
         a.records[k].queued = {} \/ a.records[k].flight # {}
  PROVE  Onward(gen, a, [a EXCEPT !.loader = loader])
<1> DEFINE r == a.records[k]
           b == [a EXCEPT !.loader = loader]
<1>1. a \in Authorities /\ Stored(a) /\ Lists(a, gen) /\ r \in Records /\ Sound(a, k) /\ Covered(a, k)
  BY DEF Good, Authorities, Fine
<1>2. loader \in Seq(Jobs)
  BY JobSeqs DEF LoadersBut
<1>3. /\ b.records = a.records /\ b.loader = loader /\ b.ready = a.ready /\ b.warm = a.warm
      /\ b.failed = a.failed /\ b.mislaid = a.mislaid /\ b.lost = a.lost
      /\ b.cpuUsed = a.cpuUsed /\ b.gpuUsed = a.gpuUsed /\ b.cpuReserved = a.cpuReserved
      /\ b \in Authorities
  BY <1>1, <1>2 DEF Authorities
<1> HIDE DEF b
<1>4. Differs(gen, a, b, k)
  <2>1. k \in Counted(b) <=> k \in Counted(a)
    BY <1>3 DEF Counted
  <2>2. b.cpuUsed + b.cpuReserved <= CpuBudget
    BY <1>1, <1>3 DEF Stored
  <2>3. a.ready \in ReadyBut(a, k) /\ a.warm \in WarmBut(a, k)
    BY <1>1, ReadyLists, WarmLists
  <2> QED BY <1>3, <2>1, <2>2, <2>3 DEF Differs
<1>5. Sound(b, k)
  <2>1. k \in a.mislaid
    BY <1>1 DEF Sound, Unheld, Placed
  <2> QED BY <1>1, <1>3, <2>1 DEF Sound, Unheld, OnceHeld
<1>6. Covered(b, k) /\ LaterOf(a, b, k)
  BY <1>1, <1>3 DEF Covered, LaterOf
<1>7. Settled(gen, a, b, k)
  BY <1>4, <1>5, <1>6, SettledDiffers DEF Fine
<1> QED BY <1>7, GoodSettled DEF Onward, b

LEMMA BeginEffect ==
  ASSUME NEW gen, NEW a, Good(a, gen), NEW job \in Jobs, NEW k \in Names(a.loader), k = job.key,
         NEW loader \in LoadersBut(gen, a, k), k \notin Names(loader),
         a.records[k].queued # {}, a.records[k].flight = {}, Fits(a, job.bytes, 0)
  PROVE  /\ Good([Begun(a, job) EXCEPT !.loader = loader], gen)
         /\ Started(a, [Begun(a, job) EXCEPT !.loader = loader], job)
<1> DEFINE r == a.records[k]
           to == IF "geometry" \in r.satisfied THEN r.state ELSE "Loading"
           s == [r EXCEPT !.flight = r.queued, !.queued = {}, !.state = to]
           S == [a.records EXCEPT ![k] = s]
           reserved == a.cpuReserved + job.bytes
           b == [Begun(a, job) EXCEPT !.loader = loader]
           c == [a EXCEPT !.records = S, !.loader = loader, !.cpuReserved = reserved]
<1>1. a \in Authorities /\ Stored(a) /\ Lists(a, gen) /\ r \in Records /\ Sound(a, k) /\ Covered(a, k)
        /\ k \in Keys
  BY DEF Good, Authorities, Fine, Jobs
<1>2. b = c
  <2>1. Begun(a, job) = [a EXCEPT !.records = S, !.cpuReserved = reserved]
    BY <1>1, BegunForm DEF Begin
  <2> HIDE DEF S, reserved
  <2> QED BY <1>1, <2>1 DEF Authorities
<1>3. /\ s \in Records /\ s.reasons = r.reasons /\ s.state = to /\ s.satisfied = r.satisfied
      /\ s.queued = {} /\ s.flight = r.queued /\ s.bytes = r.bytes
      /\ s.payload = r.payload /\ s.handle = r.handle
  BY <1>1 DEF Records, States
<1>4. S \in [Keys -> Records] /\ S[k] = s /\ \A j \in Keys \ {k} : S[j] = a.records[j]
  <2> HIDE DEF s
  <2> QED BY <1>1, <1>3 DEF Authorities
<1>5. to = IF "geometry" \in r.satisfied THEN r.state ELSE "Loading"
  OBVIOUS
<1>6. loader \in Seq(Jobs) /\ reserved \in Nat /\ a.cpuUsed + reserved <= CpuBudget
  <2>1. loader \in Seq(Jobs)
    BY JobSeqs DEF LoadersBut
  <2>2. job.bytes \in Nat /\ a.cpuUsed \in Nat /\ a.cpuReserved \in Nat
    BY <1>1 DEF Jobs, Authorities
  <2>3. a.cpuUsed + a.cpuReserved + job.bytes <= CpuBudget
    BY DEF Fits
  <2> QED BY <2>1, <2>2, <2>3, Sizes
<1> HIDE DEF S, s, to, reserved, b
<1>7. /\ b.records = S /\ b.loader = loader /\ b.ready = a.ready /\ b.warm = a.warm
      /\ b.failed = a.failed /\ b.mislaid = a.mislaid /\ b.lost = a.lost
      /\ b.cpuUsed = a.cpuUsed /\ b.gpuUsed = a.gpuUsed /\ b.cpuReserved = reserved
  BY <1>1, <1>2 DEF Authorities
<1>8. b \in Authorities
  BY <1>1, <1>2, <1>4, <1>6 DEF Authorities
<1>9. Differs(gen, a, b, k)
  <2>1. k \in Counted(b) <=> k \in Counted(a)
    BY <1>3, <1>4, <1>7 DEF Counted
  <2>2. a.ready \in ReadyBut(a, k) /\ a.warm \in WarmBut(a, k)
    BY <1>1, ReadyLists, WarmLists
  <2> QED BY <1>3, <1>4, <1>6, <1>7, <1>8, <2>1, <2>2 DEF Differs
<1>10. b.records[k] = s
  BY <1>4, <1>7
<1>11. Sound(b, k)
  <2>1. CASE r.satisfied = {}
    BY <1>1, <1>3, <1>5, <1>7, <1>10, <2>1 DEF Sound, Unheld, Placed, Held
  <2>2. CASE r.satisfied # {}
    BY <1>1, <1>3, <1>5, <1>7, <1>10, <2>2 DEF Sound, OnceHeld, Placed, Held
  <2> QED BY <2>1, <2>2
<1>12. Fine(b, k)
  BY <1>3, <1>10, <1>11 DEF Covered, Fine
<1>13. b \in Authorities /\ Stored(b) /\ Lists(b, gen) /\ \A j \in Keys \ {k} : Same(a, b, j)
  BY <1>1, <1>9, DiffersEffect
<1>14. Good(b, gen)
  <2>1. \A j \in Keys : Fine(b, j)
    BY <1>12, <1>13, FineSame DEF Good
  <2> QED BY <1>13, <2>1 DEF Good
<1>15. Started(a, b, job)
  <2>1. \A j \in Keys \ {k} : LaterOf(a, b, j)
    BY <1>13, LaterSame
  <2>2. s.satisfied = {} /\ k \notin b.failed =>
          Requested(s) \subseteq s.flight /\ (s.reasons = {} => s.flight = {"geometry"})
    BY <1>1, <1>3, <1>7 DEF Covered, Requested
  <2>3. s.state = "RepairWaiting" => r.state = "RepairWaiting"
    BY <1>3, <1>5
  <2> QED BY <1>3, <1>7, <1>10, <2>1, <2>2, <2>3 DEF Started
<1> QED BY <1>14, <1>15 DEF b
Rejoined(found) == [found.auth EXCEPT !.loader = found.deferred \o @]

Founds(gen) ==
  [auth : Authorities, deferred : Seq(JobsOf(gen)), job : JobsOf(gen) \cup {None}]

\* The search keeps the authority with the deferred jobs back in the loader Good.
Searched(gen, a, found) ==
  /\ found \in Founds(gen) /\ found.auth.loader \in Seq(JobsOf(gen))
  /\ Good(Rejoined(found), gen)
  /\ found.job = None => Later(a, Rejoined(found))
  /\ found.job # None => Started(a, Rejoined(found), found.job)

SearchStep(found, turn, p, q) == Search(found, turn)
Searches == INSTANCE FoldTheorems WITH Op <- SearchStep

LEMMA EvictedReloaded ==
  ASSUME NEW a \in Authorities, NEW b, Evicted(a, b), NEW loader \in Seq(Jobs)
  PROVE  Evicted([a EXCEPT !.loader = loader], [b EXCEPT !.loader = loader])
<1> DEFINE c == [a EXCEPT !.loader = loader]
           d == [b EXCEPT !.loader = loader]
<1>1. b \in Authorities /\ Stored(b)
  BY DEF Evicted
<1>2. /\ c.records = a.records /\ c.phases = a.phases /\ c.failed = a.failed
      /\ c.ready = a.ready /\ c.pending = a.pending /\ c.retry = a.retry
      /\ c.mislaid = a.mislaid /\ c.cpuReserved = a.cpuReserved /\ c.loader = loader
      /\ c.warm = a.warm /\ c.lost = a.lost
  BY DEF Authorities
<1>3. /\ d.records = b.records /\ d.phases = b.phases /\ d.failed = b.failed
      /\ d.ready = b.ready /\ d.pending = b.pending /\ d.retry = b.retry
      /\ d.mislaid = b.mislaid /\ d.cpuReserved = b.cpuReserved /\ d.loader = loader
      /\ d.warm = b.warm /\ d.lost = b.lost /\ d.cpuUsed = b.cpuUsed /\ d.gpuUsed = b.gpuUsed
      /\ d \in Authorities
  BY <1>1 DEF Authorities
<1> HIDE DEF c, d
<1>4. Stored(d)
  <2>1. Counted(d) = Counted(b) /\ OnCard(d) = OnCard(b)
    BY <1>3 DEF Counted, OnCard
  <2> QED BY <1>1, <1>3, <2>1 DEF Stored
<1>5. \A j \in Keys : Kept(c, d, j) \/ Gone(c, d, j)
  BY <1>2, <1>3 DEF Evicted, Kept, Gone
<1>6. Evicted(c, d)
  BY <1>2, <1>3, <1>4, <1>5 DEF Evicted
<1> QED BY <1>6 DEF c, d

LEMMA StartedLater ==
  ASSUME NEW a, NEW b, NEW c, NEW job \in Jobs, Later(a, b), Started(b, c, job)
  PROVE  Started(a, c, job)
  BY DEF Later, LaterOf, Started, Jobs

\* The loader alone is another.
LEMMA StoredLoader ==
  ASSUME NEW a \in Authorities, Stored(a), NEW loader \in Seq(Jobs)
  PROVE  [a EXCEPT !.loader = loader] \in Authorities /\ Stored([a EXCEPT !.loader = loader])
<1> DEFINE b == [a EXCEPT !.loader = loader]
<1>1. b \in Authorities
  BY DEF Authorities
<1>2. SameStore(a, b)
  BY DEF SameStore, Stored, Authorities
<1> HIDE DEF b
<1>3. Stored(b)
  BY <1>1, <1>2, StoredSame
<1> QED BY <1>1, <1>3 DEF b

\* A turn of the search that begins nothing.
LEMMA SearchedOn ==
  ASSUME NEW gen, NEW a, NEW found \in Founds(gen), found.job = None, Later(a, Rejoined(found)),
         NEW y \in Authorities, y.loader \in Seq(JobsOf(gen)), NEW D \in Seq(JobsOf(gen)),
         Onward(gen, Rejoined(found), [y EXCEPT !.loader = D \o y.loader])
  PROVE  Searched(gen, a, [found EXCEPT !.auth = y, !.deferred = D])
<1> DEFINE next == [found EXCEPT !.auth = y, !.deferred = D]
           z == [y EXCEPT !.loader = D \o y.loader]
<1>1. next \in Founds(gen) /\ next.auth = y /\ next.deferred = D /\ next.job = None
  BY DEF Founds
<1> HIDE DEF next
<1>2. Rejoined(next) = z
  BY <1>1 DEF Rejoined
<1> HIDE DEF z
<1>3. Later(a, z)
  BY LaterTwice DEF Onward, z
<1>4. Searched(gen, a, next)
  BY <1>1, <1>2, <1>3 DEF Searched, Onward, z
<1> QED BY <1>4 DEF next

LEMMA SearchEffect ==
  ASSUME NEW gen, NEW a, NEW found, Searched(gen, a, found), NEW turn
  PROVE  Searched(gen, a, Search(found, turn))
<1> DEFINE list == found.auth.loader
           D == found.deferred
           rest == D \o Tail(list)
           job == Head(list)
           k == job.key
           before == Rejoined(found)
           x == [found.auth EXCEPT !.loader = Tail(@)]
           made == EnsureCapacity(x, job.bytes, 0)
<1>1. CASE found.job # None \/ list = <<>>
  BY <1>1 DEF Search
<1>2. CASE ~(found.job # None \/ list = <<>>)
  <2>1. /\ found.auth \in Authorities /\ D \in Seq(JobsOf(gen)) /\ found.job = None /\ list # <<>>
        /\ found \in Founds(gen) /\ list \in Seq(JobsOf(gen))
    BY <1>2 DEF Searched, Founds
  <2>2. Good(before, gen) /\ Later(a, before)
    BY <2>1 DEF Searched
  <2>3. before = [found.auth EXCEPT !.loader = D \o list]
    BY DEF Rejoined
  <2>4. /\ before.loader = D \o list /\ before.records = found.auth.records
        /\ before \in Authorities /\ Stored(before)
    <3> HIDE DEF before
    <3>1. before \in Authorities /\ Stored(before)
      BY <2>2 DEF Good
    <3> QED BY <2>1, <2>3, <3>1 DEF Authorities
  <2>5. Distinct(D \o list)
    BY <2>2, <2>4 DEF Good, Lists
  <2>6. /\ rest \in LoadersBut(gen, before, k) /\ k \notin Names(rest) /\ k \in Names(D \o list)
        /\ job \in JobsOf(gen) /\ Tail(list) \in Seq(JobsOf(gen))
        /\ Append(D, job) \in Seq(JobsOf(gen)) /\ Append(D, job) \o Tail(list) = D \o list
    <3> HIDE DEF before, list, D
    <3>1. JoinedBut(gen, before, D, list)
      BY <2>1, <2>4, <2>5, JoinedWithout
    <3> QED BY <3>1 DEF JoinedBut
  <2>7. /\ job \in Jobs /\ k \in Keys /\ k \in Names(before.loader)
        /\ rest \in Seq(Jobs) /\ D \o list \in Seq(Jobs) /\ Tail(list) \in Seq(Jobs)
    <3> HIDE DEF before, list, D
    <3> QED BY <2>4, <2>6, JobSeqs DEF JobsOf, Jobs, LoadersBut, Authorities
  <2>8. x = [before EXCEPT !.loader = Tail(list)] /\ before = [x EXCEPT !.loader = D \o list]
    <3> HIDE DEF before
    <3> QED BY <2>1, <2>3 DEF Authorities
  <2>9. x \in Authorities /\ Stored(x)
    <3> HIDE DEF x, before, list, D
    <3> QED BY <2>4, <2>7, <2>8, StoredLoader
  <2>10. x.loader = Tail(list) /\ x.records = before.records
    BY <2>1, <2>4 DEF Authorities
  <2>11. Evicted(x, made)
    <3> HIDE DEF x
    <3> QED BY <2>9, EnsureEffect
  <2>12. Search(found, turn) =
           IF job.bytes > CpuBudget \/ job.bytes > GpuBudget
             THEN [found EXCEPT !.auth = Dropped(x, k)]
           ELSE IF x.records[k].queued = {} \/ x.records[k].flight # {}
             THEN [found EXCEPT !.auth = x]
           ELSE IF ~Fits(made, job.bytes, 0)
             THEN [found EXCEPT !.auth = made, !.deferred = Append(@, job)]
           ELSE [found EXCEPT !.auth = Begun(made, job), !.job = job]
    BY <1>2 DEF Search
  <2> HIDE DEF before, list, D, x, made, job, rest
  <2>13. D = found.deferred
    BY DEF D
  <2>14. rest = D \o Tail(list)
    BY DEF rest
  <2>15. CASE job.bytes > CpuBudget \/ job.bytes > GpuBudget
    <3> DEFINE y == Dropped(x, k)
    <3>1. y = [x EXCEPT !.records = [x.records EXCEPT ![k] = Drop(x.records[k])]]
      BY <2>7, <2>9, DroppedForm
    <3>2. Dropped(before, k) =
            [before EXCEPT !.records = [before.records EXCEPT ![k] = Drop(before.records[k])]]
      BY <2>4, <2>7, DroppedForm
    <3>3. y = [Dropped(before, k) EXCEPT !.loader = Tail(list)]
      <4> DEFINE R == [before.records EXCEPT ![k] = Drop(before.records[k])]
      <4> HIDE DEF y, R
      <4> QED BY <2>4, <2>8, <2>10, <3>1, <3>2 DEF Authorities, R
    <3>4. y.loader = Tail(list) /\ [y EXCEPT !.loader = rest] = [Dropped(before, k) EXCEPT !.loader = rest]
      <4> DEFINE R == [before.records EXCEPT ![k] = Drop(before.records[k])]
      <4> HIDE DEF y, R
      <4> QED BY <2>4, <3>2, <3>3 DEF Authorities, R
    <3>5. Onward(gen, before, [y EXCEPT !.loader = rest])
      BY <2>2, <2>6, <2>7, <3>4, DropEffect
    <3>6. y \in Authorities
      <4> HIDE DEF y
      <4>1. [y EXCEPT !.loader = rest] \in Authorities
        BY <3>5 DEF Onward, Good
      <4> DEFINE z == [y EXCEPT !.loader = rest]
      <4>2. y = [z EXCEPT !.loader = Tail(list)]
        <5> DEFINE R == [before.records EXCEPT ![k] = Drop(before.records[k])]
        <5> HIDE DEF R
        <5> QED BY <2>4, <3>2, <3>3 DEF Authorities, R
      <4> HIDE DEF z
      <4> QED BY <2>7, <4>1, <4>2 DEF Authorities, z
    <3> HIDE DEF y
    <3>7. Searched(gen, a, [found EXCEPT !.auth = y, !.deferred = D])
      BY <2>1, <2>2, <2>6, <2>14, <3>4, <3>5, <3>6, SearchedOn DEF before
    <3>8. Search(found, turn) = [found EXCEPT !.auth = y]
      BY <2>12, <2>15 DEF y
    <3>9. [found EXCEPT !.auth = y] = [found EXCEPT !.auth = y, !.deferred = D]
      BY <2>1, <2>13 DEF Founds
    <3> QED BY <3>7, <3>8, <3>9
  <2>16. CASE /\ ~(job.bytes > CpuBudget \/ job.bytes > GpuBudget)
              /\ x.records[k].queued = {} \/ x.records[k].flight # {}
    <3>1. [x EXCEPT !.loader = rest] = [before EXCEPT !.loader = rest]
      BY <2>4, <2>8 DEF Authorities
    <3>2. Onward(gen, before, [x EXCEPT !.loader = rest])
      <4>1. before.records[k].queued = {} \/ before.records[k].flight # {}
        BY <2>10, <2>16
      <4>2. Onward(gen, before, [before EXCEPT !.loader = rest])
        BY <2>2, <2>6, <2>7, <4>1, ForgetEffect
      <4> QED BY <3>1, <4>2
    <3>3. Searched(gen, a, [found EXCEPT !.auth = x, !.deferred = D])
      BY <2>1, <2>2, <2>6, <2>9, <2>10, <2>14, <3>2, SearchedOn DEF before
    <3>4. Search(found, turn) = [found EXCEPT !.auth = x]
      BY <2>12, <2>16
    <3>5. [found EXCEPT !.auth = x] = [found EXCEPT !.auth = x, !.deferred = D]
      BY <2>1, <2>13 DEF Founds
    <3> QED BY <3>3, <3>4, <3>5
  <2> DEFINE mk == [made EXCEPT !.loader = D \o list]
  <2>17. /\ Evicted(before, mk) /\ made \in Authorities /\ made.loader = Tail(list)
    <3>1. Evicted([x EXCEPT !.loader = D \o list], mk)
      BY <2>7, <2>9, <2>11, EvictedReloaded
    <3> QED BY <2>8, <2>10, <2>11, <3>1 DEF Evicted
  <2>18. Onward(gen, before, mk)
    <3> HIDE DEF mk
    <3> QED BY <2>2, <2>17, GoodEvicted DEF Onward
  <2>19. CASE /\ ~(job.bytes > CpuBudget \/ job.bytes > GpuBudget)
              /\ ~(x.records[k].queued = {} \/ x.records[k].flight # {})
              /\ ~Fits(made, job.bytes, 0)
    <3>1. [made EXCEPT !.loader = Append(D, job) \o made.loader] = mk
      BY <2>6, <2>17
    <3>2. Searched(gen, a, [found EXCEPT !.auth = made, !.deferred = Append(D, job)])
      <4>1. Onward(gen, Rejoined(found), [made EXCEPT !.loader = Append(D, job) \o made.loader])
        BY <2>18, <3>1 DEF before
      <4> HIDE DEF mk
      <4> QED BY <2>1, <2>2, <2>6, <2>17, <4>1, SearchedOn DEF before
    <3>3. Search(found, turn) = [found EXCEPT !.auth = made, !.deferred = Append(D, job)]
      BY <2>12, <2>13, <2>19
    <3> QED BY <3>2, <3>3
  <2>20. CASE /\ ~(job.bytes > CpuBudget \/ job.bytes > GpuBudget)
              /\ ~(x.records[k].queued = {} \/ x.records[k].flight # {})
              /\ Fits(made, job.bytes, 0)
    <3> DEFINE y == Begun(made, job)
               z == [Begun(mk, job) EXCEPT !.loader = rest]
               R == [made.records EXCEPT ![k] = Begin(made.records[k])]
               reserved == made.cpuReserved + job.bytes
    <3>1. y = [made EXCEPT !.records = R, !.cpuReserved = reserved]
      BY <2>7, <2>17, BegunForm
    <3>2. /\ mk \in Authorities /\ mk.records = made.records /\ mk.cpuReserved = made.cpuReserved
          /\ mk.cpuUsed = made.cpuUsed /\ mk.gpuUsed = made.gpuUsed /\ mk.loader = D \o list
      BY <2>17, <2>18 DEF Onward, Good, Authorities
    <3>3. Begun(mk, job) = [mk EXCEPT !.records = R, !.cpuReserved = reserved]
      <4> HIDE DEF mk
      <4> QED BY <2>7, <3>2, BegunForm
    <3>4. z = [y EXCEPT !.loader = rest]
      <4> HIDE DEF R, reserved, y
      <4> QED BY <2>17, <3>1, <3>3 DEF Authorities
    <3>5. mk.records[k].queued # {} /\ mk.records[k].flight = {} /\ Fits(mk, job.bytes, 0)
      <4>1. Kept(before, mk, k) \/ Gone(before, mk, k)
        BY <2>7, <2>17 DEF Evicted
      <4>2. before.records[k].queued # {} /\ before.records[k].flight = {}
              /\ before.records[k] \in Records
        BY <2>4, <2>7, <2>10, <2>20 DEF Authorities
      <4>3. mk.records[k].queued # {} /\ mk.records[k].flight = {}
        <5> HIDE DEF mk
        <5> QED BY <4>1, <4>2 DEF Kept, Gone, Emptied, Records
      <4> HIDE DEF mk
      <4> QED BY <2>20, <3>2, <4>3 DEF Fits
    <3>6. Good(mk, gen) /\ Later(before, mk)
      BY <2>18 DEF Onward
    <3>7. rest \in LoadersBut(gen, mk, k)
      BY <2>4, <2>6, <3>2 DEF LoadersBut
    <3>8. Good(z, gen) /\ Started(mk, z, job)
      <4> HIDE DEF mk
      <4> QED BY <2>4, <2>6, <2>7, <3>2, <3>5, <3>6, <3>7, BeginEffect
    <3>9. Started(a, z, job)
      <4> HIDE DEF mk, z
      <4>1. Later(a, mk)
        BY <2>2, <3>6, LaterTwice
      <4> QED BY <2>7, <3>8, <4>1, StartedLater
    <3>10. y \in Authorities /\ y.loader = Tail(list)
      <4> HIDE DEF R, reserved, z
      <4>1. y.loader = Tail(list)
        BY <2>17, <3>1 DEF Authorities
      <4>2. y = [z EXCEPT !.loader = Tail(list)]
        BY <2>17, <3>1, <3>4 DEF Authorities
      <4>3. z \in Authorities
        BY <3>8 DEF Good
      <4> HIDE DEF y
      <4> QED BY <2>7, <4>1, <4>2, <4>3 DEF Authorities
    <3> HIDE DEF y, z, R, reserved, mk
    <3> DEFINE next == [found EXCEPT !.auth = y, !.job = job]
    <3>11. next \in Founds(gen) /\ next.auth = y /\ next.deferred = D /\ next.job = job
      BY <2>1, <2>6, <2>13, <3>10 DEF Founds
    <3>12. job # None
      BY <2>7, Sizes DEF Jobs
    <3> HIDE DEF next
    <3>13. Rejoined(next) = z
      BY <2>14, <3>4, <3>10, <3>11 DEF Rejoined
    <3>14. Searched(gen, a, next)
      BY <2>6, <3>8, <3>9, <3>10, <3>11, <3>12, <3>13 DEF Searched
    <3>15. Search(found, turn) = next
      BY <2>12, <2>20 DEF next, y
    <3> QED BY <3>14, <3>15
  <2> QED BY <2>15, <2>16, <2>19, <2>20
<1> QED BY <1>1, <1>2

\* What begin_next_load makes of an authority.
Begins(gen, a, next) ==
  /\ next.job \in JobsOf(gen) \cup {None}
  /\ next.job = None => Onward(gen, a, next.auth)
  /\ next.job # None => Good(next.auth, gen) /\ Started(a, next.auth, next.job)

LEMMA BeginNextLoadEffect ==
  ASSUME NEW gen, NEW a, Good(a, gen)
  PROVE  Begins(gen, a, BeginNextLoad(a))
<1> DEFINE first == [auth |-> a, deferred |-> <<>>, job |-> None]
           U == {found \in Founds(gen) : Searched(gen, a, found)}
           found == Searches!Fold(first, a.loader, 0, 0)
<1>1. a \in Authorities /\ a.loader \in Seq(JobsOf(gen))
  BY DEF Good, Lists
<1>2. first \in U
  <2>1. first \in Founds(gen)
    BY <1>1 DEF Founds
  <2>2. Rejoined(first) = a
    <3>1. <<>> \o a.loader = a.loader
      BY <1>1
    <3>2. Rejoined(first) = [a EXCEPT !.loader = <<>> \o a.loader]
      BY DEF Rejoined
    <3> HIDE DEF first
    <3> QED BY <1>1, <3>1, <3>2 DEF Authorities
  <2>3. Later(a, a)
    BY DEF Later, LaterOf
  <2>4. first.job = None /\ first.auth = a
    OBVIOUS
  <2> HIDE DEF first
  <2> QED BY <1>1, <2>1, <2>2, <2>3, <2>4 DEF Searched
<1>3. ASSUME NEW x \in U, NEW y \in JobsOf(gen) PROVE SearchStep(x, y, 0, 0) \in U
  <2>1. Searched(gen, a, SearchStep(x, y, 0, 0))
    BY SearchEffect DEF SearchStep
  <2> QED BY <2>1 DEF Searched
<1> HIDE DEF U
<1>4. found \in U
  <2> HIDE DEF first
  <2> QED BY <1>1, <1>2, <1>3, Searches!FoldKeeps
<1>5. BeginNextLoad(a) = [found EXCEPT !.auth.loader = found.deferred \o @]
  BY DEF BeginNextLoad, FoldLeft, MapThenFoldSet, Max, SearchStep,
         Searches!Fold, Searches!MapThenFoldSet, Searches!Greatest
<1> HIDE DEF found, first
<1>6. Searched(gen, a, found) /\ found \in Founds(gen)
  BY <1>4 DEF U
<1>7. BeginNextLoad(a).auth = Rejoined(found) /\ BeginNextLoad(a).job = found.job
  BY <1>5, <1>6 DEF Rejoined, Founds
<1>8. found.job \in JobsOf(gen) \cup {None}
  BY <1>6 DEF Founds
<1> QED BY <1>6, <1>7, <1>8 DEF Searched, Begins, Onward

\* A load that the worker has no room for is put back.
LEMMA DeferEffect ==
  ASSUME NEW gen, NEW a, NEW b, NEW job \in JobsOf(gen), Good(b, gen), Started(a, b, job)
  PROVE  Onward(gen, a, DeferLoad(b, job))
<1> DEFINE k == job.key
           r == b.records[k]
           to == IF r.state = "Loading" THEN "Queued" ELSE r.state
           s == [r EXCEPT !.flight = {}, !.queued = r.flight, !.state = to]
           reserved == Minus(b.cpuReserved, job.bytes)
           landed == Landed(b, k, job.bytes)
           c == DeferLoad(b, job)
<1>1. /\ b \in Authorities /\ Stored(b) /\ Lists(b, gen) /\ job \in Jobs /\ k \in Keys
      /\ r \in Records /\ Sound(b, k) /\ job.bytes \in Nat /\ b.cpuReserved \in Nat
  BY DEF Good, Fine, JobsOf, Jobs, Authorities
<1>2. /\ s \in Records /\ s.reasons = r.reasons /\ s.satisfied = r.satisfied
      /\ s.queued = r.flight /\ s.flight = {} /\ s.state = to /\ s.bytes = r.bytes
      /\ s.payload = r.payload /\ s.handle = r.handle
  BY <1>1 DEF Records, States
<1>3. reserved \in Nat /\ reserved <= b.cpuReserved
  BY <1>1 DEF Minus
<1> DEFINE R == [b.records EXCEPT ![k].flight = {}]
<1>4. landed = [b EXCEPT !.records = R, !.cpuReserved = reserved]
  BY <1>1 DEF Landed, Authorities
<1>5. R[k] = [r EXCEPT !.flight = {}] /\ R \in [Keys -> Records]
  BY <1>1 DEF Authorities, Records
<1>6. /\ landed.loader = b.loader /\ landed.records = R /\ landed.ready = b.ready
      /\ landed \in Authorities
  <2> HIDE DEF R, reserved
  <2> QED BY <1>1, <1>3, <1>4, <1>5 DEF Authorities
<1>7. PICK loader \in LoadersBut(gen, b, k) :
        Enqueue(landed, job) = [landed EXCEPT !.loader = loader] /\ k \in Names(loader)
  <2> HIDE DEF landed, R
  <2>1. Lists(landed, gen)
    BY <1>1, <1>6 DEF Lists
  <2>2. PICK loader \in LoadersBut(gen, landed, k) :
          Enqueue(landed, job) = [landed EXCEPT !.loader = loader] /\ k \in Names(loader)
    BY <1>6, <2>1, EnqueueEffect
  <2>3. loader \in LoadersBut(gen, b, k)
    BY <1>6, <2>2 DEF LoadersBut
  <2> QED BY <2>2, <2>3
<1>8. c = Changed(b, k, s, loader, b.pending, b.phases, b.retry, reserved)
  <2> DEFINE T == [R EXCEPT ![k].queued = r.flight,
                            ![k].state = IF @ = "Loading" THEN "Queued" ELSE @]
             S == [b.records EXCEPT ![k] = s]
             e == [landed EXCEPT !.loader = loader]
  <2>1. T = S
    BY <1>1, <1>5 DEF Authorities, Records
  <2>2. e.records = R
    BY <1>6 DEF Authorities
  <2>3. c = [e EXCEPT !.records = T]
    <3>1. c = [e EXCEPT !.records[k].queued = r.flight,
                        !.records[k].state = IF @ = "Loading" THEN "Queued" ELSE @]
      <4> HIDE DEF e, R
      <4> QED BY <1>7 DEF DeferLoad, e
    <3> HIDE DEF e, R, c
    <3> QED BY <2>2, <3>1
  <2> HIDE DEF T, S, R, landed, reserved, c
  <2>4. c = [e EXCEPT !.records = S]
    BY <2>1, <2>3
  <2>5. c = [b EXCEPT !.records = S, !.loader = loader, !.cpuReserved = reserved]
    BY <1>1, <1>4, <2>4 DEF Authorities
  <2> QED BY <1>1, <2>5 DEF Changed, Authorities, S
<1>9. to # "Loading" /\ (to = "RepairWaiting" <=> r.state = "RepairWaiting")
        /\ (to \in Held <=> r.state \in Held) /\ (r.state # "Loading" => to = r.state)
        /\ (r.state = "Loading" => to = "Queued")
  BY DEF Held
<1> HIDE DEF c, s, to, R, reserved, landed
<1>10. ChangedTo(gen, b, c, k, s, loader)
  <2>1. b.pending \in SUBSET Keys /\ b.phases \in [Keys -> RepairPhases] /\ b.retry \in SUBSET Keys
    BY <1>1 DEF Authorities
  <2> QED BY <1>1, <1>2, <1>3, <1>7, <1>8, <2>1, RecordChange
<1> USE DEF ChangedTo
<1>11. r.flight # {}
  BY DEF Started
<1>12. Sound(c, k)
  <2>1. CASE r.satisfied = {}
    BY <1>1, <1>2, <1>7, <1>9, <1>10, <1>11, <2>1 DEF Sound, Unheld, Placed, Held
  <2>2. CASE r.satisfied # {}
    BY <1>1, <1>2, <1>7, <1>9, <1>10, <1>11, <2>2 DEF Sound, OnceHeld, Placed, Held
  <2> QED BY <2>1, <2>2
<1>13. Covered(c, k)
  BY <1>2, <1>10 DEF Covered, Started, Requested
<1>14. LaterOf(b, c, k) /\ c.records[k].state # "Loading"
  BY <1>2, <1>9, <1>10 DEF LaterOf
<1>15. Good(c, gen) /\ Later(b, c)
  <2>1. Settled(gen, b, c, k)
    BY <1>10, <1>12, <1>13, <1>14 DEF Settled, Fine
  <2> QED BY <1>1, <2>1, GoodSettled
<1>16. Later(a, c)
  BY <1>14, <1>15 DEF Later, LaterOf, Started
<1> QED BY <1>15, <1>16 DEF Onward, c

(***************************************************************************)
(* What the workers have, and dispatch_cached_residency_loads.             *)
(***************************************************************************)

LEMMA LoadsLater ==
  ASSUME NEW a, NEW b, Later(a, b), NEW gen, NEW S, LoadsHeld(a, gen, S), NEW T, S \subseteq T
  PROVE  LoadsHeld(b, gen, T)
  BY DEF LoadsHeld, Later, LaterOf

LEMMA RepairsLater ==
  ASSUME NEW a, NEW b, Later(a, b), NEW gen, NEW S, RepairsHeld(a, gen, S), NEW T, S \subseteq T
  PROVE  RepairsHeld(b, gen, T)
  BY DEF RepairsHeld, Later, LaterOf

DispatchStep(sent, queued, p, q) == DispatchNext(sent, queued)
Dispatches == INSTANCE FoldTheorems WITH Op <- DispatchStep

Sents == [auth : Authorities, loads : Seq(Loads), done : BOOLEAN]

\* What the dispatch keeps, with what the worker has finished.
Dispatched(gen, finished, waiting, sent) ==
  /\ sent \in Sents /\ Good(sent.auth, gen)
  /\ LoadsHeld(sent.auth, gen, Range(sent.loads) \cup finished)
  /\ RepairsHeld(sent.auth, gen, waiting)

LEMMA DispatchNextEffect ==
  ASSUME NEW gen, NEW finished, NEW waiting, NEW sent, Dispatched(gen, finished, waiting, sent),
         NEW queued
  PROVE  Dispatched(gen, finished, waiting, DispatchNext(sent, queued))
<1> DEFINE next == BeginNextLoad(sent.auth)
           request == [job |-> next.job, mask |-> Requested(next.auth.records[next.job.key])]
           after == DispatchNext(sent, queued)
<1>1. Begins(gen, sent.auth, next)
  BY BeginNextLoadEffect DEF Dispatched
<1>2. /\ sent \in Sents /\ sent.auth \in Authorities /\ sent.loads \in Seq(Loads)
      /\ sent.done \in BOOLEAN /\ Good(sent.auth, gen)
      /\ LoadsHeld(sent.auth, gen, Range(sent.loads) \cup finished)
      /\ RepairsHeld(sent.auth, gen, waiting)
  BY DEF Dispatched, Sents
<1>3. after =
        IF sent.done THEN sent
        ELSE IF next.job = None THEN [sent EXCEPT !.auth = next.auth, !.done = TRUE]
        ELSE IF Len(sent.loads) < WorkerCapacity
          THEN [sent EXCEPT !.auth = next.auth, !.loads = Append(sent.loads, request)]
        ELSE [sent EXCEPT !.auth = DeferLoad(next.auth, next.job), !.done = TRUE]
  BY <1>2 DEF DispatchNext
<1> HIDE DEF next, after
<1>4. ASSUME NEW b, Onward(gen, sent.auth, b)
      PROVE  Dispatched(gen, finished, waiting, [sent EXCEPT !.auth = b, !.done = TRUE])
  <2>1. b \in Authorities /\ Good(b, gen) /\ Later(sent.auth, b)
    BY <1>4 DEF Onward, Good
  <2> DEFINE c == [sent EXCEPT !.auth = b, !.done = TRUE]
  <2>2. c \in Sents /\ c.auth = b /\ c.loads = sent.loads
    BY <1>2, <2>1 DEF Sents
  <2> HIDE DEF c
  <2>3. /\ LoadsHeld(b, gen, Range(c.loads) \cup finished)
        /\ RepairsHeld(b, gen, waiting)
    BY <1>2, <2>1, <2>2, LoadsLater, RepairsLater
  <2>4. Dispatched(gen, finished, waiting, c)
    BY <2>1, <2>2, <2>3 DEF Dispatched
  <2> QED BY <2>4 DEF c
<1>5. CASE sent.done
  BY <1>3, <1>5 DEF after
<1>6. CASE ~sent.done /\ next.job = None
  <2>1. Onward(gen, sent.auth, next.auth)
    BY <1>1, <1>6 DEF Begins
  <2> QED BY <1>3, <1>4, <1>6, <2>1 DEF after
<1>7. CASE ~sent.done /\ next.job # None
  <2> DEFINE b == next.auth
             job == next.job
             k == job.key
             r == b.records[k]
  <2>1. job \in JobsOf(gen) /\ Good(b, gen) /\ Started(sent.auth, b, job)
    BY <1>1, <1>7 DEF Begins
  <2>2. job \in Jobs /\ k \in Keys /\ job.generation = gen /\ b \in Authorities /\ r \in Records
          /\ Sound(b, k)
    BY <2>1 DEF JobsOf, Jobs, Good, Authorities, Fine
  <2>3. CASE Len(sent.loads) < WorkerCapacity
    <3> DEFINE list == Append(sent.loads, request)
               c == [sent EXCEPT !.auth = next.auth, !.loads = list]
    <3>1. request \in Loads /\ request.job = job /\ request.mask = Requested(r)
      BY <2>2, RequestedOf DEF Loads
    <3> HIDE DEF request
    <3>2. list \in Seq(Loads) /\ Range(list) = Range(sent.loads) \cup {request}
      BY <1>2, <3>1, AppendEffect
    <3> HIDE DEF list
    <3>3. c \in Sents /\ c.auth = b /\ c.loads = list
      BY <1>2, <2>2, <3>2 DEF Sents
    <3> HIDE DEF b, c
    <3>4. ASSUME NEW j \in Keys \ b.failed, b.records[j].state = "Loading"
          PROVE  \/ b.records[j].flight = {"geometry"}
                 \/ \E q \in Range(list) \cup finished :
                      /\ Awaited(q, j, gen) /\ q.mask \subseteq b.records[j].flight
                      /\ q.mask # {}
      <4>1. CASE j = k
        <5>1. r.satisfied = {}
          BY <2>2, <3>4, <4>1 DEF Sound, OnceHeld
        <5>2. Requested(r) \subseteq r.flight /\ (r.reasons = {} => r.flight = {"geometry"})
          BY <2>1, <3>4, <4>1, <5>1 DEF Started
        <5>3. r.reasons # {} => Requested(r) # {}
          BY <2>2, RequestedOf
        <5>4. Awaited(request, k, gen)
          BY <2>2, <3>1 DEF Awaited
        <5> QED BY <3>1, <3>2, <4>1, <5>2, <5>3, <5>4
      <4>2. CASE j # k
        <5>1. LaterOf(sent.auth, b, j)
          BY <2>1, <4>2 DEF Started
        <5> QED BY <1>2, <3>2, <3>4, <5>1 DEF LaterOf, LoadsHeld
      <4> QED BY <4>1, <4>2
    <3>5. LoadsHeld(b, gen, Range(list) \cup finished)
      BY <3>4 DEF LoadsHeld
    <3>6. RepairsHeld(b, gen, waiting)
      <4> SUFFICES ASSUME NEW j \in Keys, b.records[j].state = "RepairWaiting"
                   PROVE  \E q \in waiting : Awaited(q, j, gen)
        BY DEF RepairsHeld
      <4>1. sent.auth.records[j].state = "RepairWaiting"
        BY <2>1 DEF Started, LaterOf
      <4> QED BY <1>2, <4>1 DEF RepairsHeld
    <3>7. Dispatched(gen, finished, waiting, c)
      BY <2>1, <3>3, <3>5, <3>6 DEF Dispatched
    <3>8. after = c
      BY <1>3, <1>7, <2>3 DEF c, list
    <3> QED BY <3>7, <3>8 DEF after
  <2>4. CASE ~(Len(sent.loads) < WorkerCapacity)
    <3>1. Onward(gen, sent.auth, DeferLoad(b, job))
      BY <2>1, DeferEffect
    <3> QED BY <1>3, <1>4, <1>7, <2>4, <3>1 DEF after
  <2> QED BY <2>3, <2>4
<1> QED BY <1>2, <1>3, <1>5, <1>6, <1>7 DEF after

LEMMA DispatchEffect ==
  ASSUME NEW gen, NEW a, Good(a, gen), loads \in Seq(Loads), NEW finished, NEW waiting,
         LoadsHeld(a, gen, Range(loads) \cup finished), RepairsHeld(a, gen, waiting)
  PROVE  Dispatched(gen, finished, waiting, Dispatch(a))
<1> DEFINE first == [auth |-> a, loads |-> loads, done |-> FALSE]
           U == {sent \in Sents : Dispatched(gen, finished, waiting, sent)}
<1>1. a \in Authorities /\ a.loader \in Seq(JobsOf(gen))
  BY DEF Good, Lists
<1>2. first \in U
  <2>1. first \in Sents /\ first.auth = a /\ first.loads = loads
    BY <1>1 DEF Sents
  <2> HIDE DEF first
  <2> QED BY <2>1 DEF Dispatched
<1>3. ASSUME NEW x \in U, NEW y \in JobsOf(gen) PROVE DispatchStep(x, y, 0, 0) \in U
  <2>1. Dispatched(gen, finished, waiting, DispatchStep(x, y, 0, 0))
    BY DispatchNextEffect DEF DispatchStep
  <2> QED BY <2>1 DEF Dispatched
<1> HIDE DEF U
<1>4. Dispatches!Fold(first, a.loader, 0, 0) \in U
  <2> HIDE DEF first
  <2> QED BY <1>1, <1>2, <1>3, Dispatches!FoldKeeps
<1>5. Dispatch(a) = Dispatches!Fold(first, a.loader, 0, 0)
  BY DEF Dispatch, FoldLeft, MapThenFoldSet, Max, DispatchStep,
         Dispatches!Fold, Dispatches!MapThenFoldSet, Dispatches!Greatest
<1> QED BY <1>4, <1>5 DEF U

(***************************************************************************)
(* The results of the workers.                                             *)
(***************************************************************************)

\* One record, and what sets and counters say of its payload.
Rewritten(a, k, r, loader, phases, failed, mislaid, lost, retry, reserved) ==
  [a EXCEPT !.records = [a.records EXCEPT ![k] = r], !.loader = loader, !.phases = phases,
            !.failed = failed, !.mislaid = mislaid, !.lost = lost, !.retry = retry,
            !.cpuReserved = reserved]

Rewrites(gen, a, b, k, r, loader) ==
  /\ b \in Authorities /\ Stored(b) /\ Lists(b, gen)
  /\ \A j \in Keys \ {k} : Same(a, b, j)
  /\ b.records[k] = r /\ b.loader = loader /\ b.ready = a.ready /\ b.warm = a.warm

RewritesTo(gen, a, b, k, r, loader, failed, mislaid, lost) ==
  /\ Rewrites(gen, a, b, k, r, loader)
  /\ b.failed = failed /\ b.mislaid = mislaid /\ b.lost = lost

\* The sets that differ from one at most by a payload more.
With(set, k) == {set, set \cup {k}}

LEMMA RewrittenEffect ==
  ASSUME NEW gen, NEW a \in Authorities, Stored(a), Lists(a, gen), NEW k \in Keys,
         NEW r \in Records, r.handle = a.records[k].handle,
         NEW loader \in LoadersBut(gen, a, k), NEW phases \in [Keys -> RepairPhases],
         NEW failed \in With(a.failed, k), NEW mislaid \in With(a.mislaid, k),
         NEW lost \in With(a.lost, k),
         NEW retry \in SUBSET Keys, NEW reserved \in Nat, reserved <= a.cpuReserved,
         r.payload \/ k \in lost <=> a.records[k].payload \/ k \in a.lost
  PROVE  RewritesTo(gen, a,
                    Rewritten(a, k, r, loader, phases, failed, mislaid, lost, retry, reserved),
                    k, r, loader, failed, mislaid, lost)
<1> USE DEF With
<1> DEFINE b == Rewritten(a, k, r, loader, phases, failed, mislaid, lost, retry, reserved)
           R == [a.records EXCEPT ![k] = r]
<1>1. R \in [Keys -> Records] /\ R[k] = r /\ \A j \in Keys \ {k} : R[j] = a.records[j]
  BY DEF Authorities
<1>2. b = [a EXCEPT !.records = R, !.loader = loader, !.phases = phases, !.failed = failed,
                    !.mislaid = mislaid, !.lost = lost, !.retry = retry,
                    !.cpuReserved = reserved]
  BY DEF Rewritten
<1> HIDE DEF R, b
<1>3. /\ b.records = R /\ b.loader = loader /\ b.ready = a.ready /\ b.warm = a.warm
      /\ b.failed = failed /\ b.mislaid = mislaid /\ b.lost = lost
      /\ b.cpuUsed = a.cpuUsed /\ b.gpuUsed = a.gpuUsed /\ b.cpuReserved = reserved
  BY <1>2 DEF Authorities
<1>4. loader \in Seq(Jobs) /\ failed \in SUBSET Keys /\ mislaid \in SUBSET Keys /\ lost \in SUBSET Keys
  BY JobSeqs DEF LoadersBut, Authorities
<1>5. b \in Authorities
  BY <1>1, <1>2, <1>4 DEF Authorities
<1>6. Differs(gen, a, b, k)
  <2>1. a.ready \in ReadyBut(a, k) /\ a.warm \in WarmBut(a, k)
    BY ReadyLists, WarmLists
  <2>2. k \in Counted(b) <=> k \in Counted(a)
    BY <1>1, <1>3 DEF Counted
  <2>3. b.cpuUsed + b.cpuReserved <= CpuBudget
    <3>1. a.cpuUsed \in Nat /\ a.cpuReserved \in Nat /\ a.cpuUsed + a.cpuReserved <= CpuBudget
      BY DEF Authorities, Stored
    <3> QED BY <1>3, <3>1, Sizes
  <2>4. ASSUME NEW j \in Keys \ {k}
        PROVE  /\ b.records[j] = a.records[j]
               /\ j \in b.failed <=> j \in a.failed
               /\ j \in b.mislaid <=> j \in a.mislaid
               /\ j \in b.lost <=> j \in a.lost
    BY <1>1, <1>3
  <2>5. b.records[k].handle = a.records[k].handle
    BY <1>1, <1>3
  <2> QED BY <1>3, <1>5, <2>1, <2>2, <2>3, <2>4, <2>5 DEF Differs
<1>7. b \in Authorities /\ Stored(b) /\ Lists(b, gen) /\ \A j \in Keys \ {k} : Same(a, b, j)
  BY <1>6, DiffersEffect
<1> QED BY <1>1, <1>3, <1>7 DEF Rewrites, RewritesTo, b

\* What becomes of a payload whose load, or whose repair, has come back.
Resolved(gen, a, b, k) ==
  /\ Good(b, gen) /\ \A j \in Keys \ {k} : LaterOf(a, b, j)
  /\ b.records[k].state # "Loading"

LEMMA ResolvedBy ==
  ASSUME NEW gen, NEW a, Good(a, gen), NEW k \in Keys, NEW r, NEW loader, NEW b,
         Rewrites(gen, a, b, k, r, loader), Fine(b, k), r.state # "Loading"
  PROVE  Resolved(gen, a, b, k)
<1>1. \A j \in Keys : Fine(b, j)
  BY FineSame DEF Rewrites, Good
<1>2. \A j \in Keys \ {k} : LaterOf(a, b, j)
  BY LaterSame DEF Rewrites
<1> QED BY <1>1, <1>2 DEF Rewrites, Resolved, Good

LEMMA ResolvedOnward ==
  ASSUME NEW gen, NEW a, NEW b, NEW c, NEW k \in Keys, Resolved(gen, a, b, k), Onward(gen, b, c)
  PROVE  Resolved(gen, a, c, k)
  BY DEF Resolved, Onward, Later, LaterOf

LEMMA OnwardResolved ==
  ASSUME NEW gen, NEW a, NEW b, NEW c, NEW k \in Keys, Onward(gen, a, b), Resolved(gen, b, c, k)
  PROVE  Resolved(gen, a, c, k)
  BY DEF Resolved, Onward, Later, LaterOf

LEMMA ResolvedTwice ==
  ASSUME NEW gen, NEW a, NEW b, NEW c, NEW k \in Keys, Resolved(gen, a, b, k),
         Resolved(gen, b, c, k)
  PROVE  Resolved(gen, a, c, k)
  BY DEF Resolved, LaterOf

LEMMA PhaseEffect ==
  ASSUME NEW gen, NEW a, Good(a, gen), NEW k \in Keys, NEW to \in RepairPhases
  PROVE  Onward(gen, a, [a EXCEPT !.phases[k] = to])
<1> DEFINE b == [a EXCEPT !.phases[k] = to]
<1>1. b \in Authorities /\ Aside(a, b)
  BY DEF Good, Authorities, Aside
<1> HIDE DEF b
<1>2. Onward(gen, a, b)
  BY <1>1, OnwardAside
<1> QED BY <1>2 DEF b

LEMMA LandedForm ==
  ASSUME NEW a \in Authorities, NEW k \in Keys, NEW bytes \in Nat
  PROVE  /\ Landed(a, k, bytes) =
              [a EXCEPT !.records = [a.records EXCEPT ![k] = [a.records[k] EXCEPT !.flight = {}]],
                        !.cpuReserved = Minus(a.cpuReserved, bytes)]
         /\ Landed(a, k, bytes) \in Authorities
         /\ Minus(a.cpuReserved, bytes) \in Nat /\ Minus(a.cpuReserved, bytes) <= a.cpuReserved
<1> DEFINE r == a.records[k]
           R == [a.records EXCEPT ![k] = [r EXCEPT !.flight = {}]]
           Q == [a.records EXCEPT ![k].flight = {}]
           reserved == Minus(a.cpuReserved, bytes)
<1>1. r \in Records /\ a.cpuReserved \in Nat /\ reserved \in Nat /\ reserved <= a.cpuReserved
  BY DEF Authorities, Minus
<1>2. Q = R /\ R \in [Keys -> Records]
  BY <1>1 DEF Authorities, Records
<1>3. Landed(a, k, bytes) = [a EXCEPT !.records = Q, !.cpuReserved = reserved]
  BY DEF Landed
<1> HIDE DEF Q, R, reserved
<1>4. Landed(a, k, bytes) \in Authorities
  BY <1>1, <1>2, <1>3 DEF Authorities
<1> QED BY <1>1, <1>2, <1>3, <1>4 DEF R, reserved

LEMMA SuppressFailedLoadEffect ==
  ASSUME NEW gen, NEW a, Good(a, gen), NEW job \in Jobs, a.records[job.key].flight # {}
  PROVE  /\ Resolved(gen, a, SuppressFailedLoad(a, job), job.key)
         /\ LaterOf(a, SuppressFailedLoad(a, job), job.key)
<1> DEFINE k == job.key
           r == a.records[k]
           to == IF "geometry" \in r.satisfied THEN r.state ELSE "Unloaded"
           s == [r EXCEPT !.flight = {}, !.state = to]
           S == [a.records EXCEPT ![k] = s]
           reserved == Minus(a.cpuReserved, job.bytes)
           b == SuppressFailedLoad(a, job)
           failed == a.failed \cup {k}
           retry == a.retry \ {k}
<1>1. /\ a \in Authorities /\ Stored(a) /\ Lists(a, gen) /\ k \in Keys /\ job.bytes \in Nat
      /\ r \in Records /\ Sound(a, k) /\ Covered(a, k)
  BY DEF Good, Fine, Jobs, Authorities
<1>2. /\ s \in Records /\ s.reasons = r.reasons /\ s.satisfied = r.satisfied
      /\ s.queued = r.queued /\ s.flight = {} /\ s.state = to /\ s.bytes = r.bytes
      /\ s.payload = r.payload /\ s.handle = r.handle
  BY <1>1 DEF Records, States
<1> DEFINE R == [a.records EXCEPT ![k] = [r EXCEPT !.flight = {}]]
           T == [R EXCEPT ![k].state = IF "geometry" \in R[k].satisfied THEN @ ELSE "Unloaded"]
           c == [a EXCEPT !.records = R, !.cpuReserved = reserved, !.failed = failed,
                          !.retry = retry]
<1>3. T = S
  <2>1. R[k] = [r EXCEPT !.flight = {}] /\ R[k].satisfied = r.satisfied /\ R[k].state = r.state
    BY <1>1 DEF Authorities, Records
  <2>2. T = [R EXCEPT ![k] = s]
    BY <1>1, <2>1 DEF Authorities, Records
  <2> HIDE DEF s, T
  <2> QED BY <1>1, <2>2 DEF Authorities
<1>4. Landed(a, k, job.bytes) = [a EXCEPT !.records = R, !.cpuReserved = reserved]
        /\ reserved \in Nat /\ reserved <= a.cpuReserved
  BY <1>1, LandedForm
<1>5. b = Becomes(c, k, "Unloaded")
  <2> DEFINE L == Landed(a, k, job.bytes)
  <2>1. [L EXCEPT !.failed = @ \cup {k}, !.retry = @ \ {k}] = c
    <3> HIDE DEF R, reserved, L
    <3>1. L = [a EXCEPT !.records = R, !.cpuReserved = reserved]
      BY <1>4 DEF L
    <3> QED BY <1>1, <3>1 DEF Authorities
  <2>2. b = Becomes([L EXCEPT !.failed = @ \cup {k}, !.retry = @ \ {k}], k, "Unloaded")
    BY DEF SuppressFailedLoad
  <2> HIDE DEF L, c, b
  <2> QED BY <2>1, <2>2
<1>6. Becomes(c, k, "Unloaded") = [c EXCEPT !.records = T]
  <2>1. c.records = R
    BY <1>1 DEF Authorities
  <2> HIDE DEF c, R
  <2> QED BY <2>1 DEF Becomes
<1>7. b = Rewritten(a, k, s, a.loader, a.phases, failed, a.mislaid, a.lost, retry, reserved)
  <2>1. b = [c EXCEPT !.records = S]
    BY <1>3, <1>5, <1>6
  <2> HIDE DEF b, S, T, R, reserved, failed, retry
  <2>2. b = [a EXCEPT !.records = S, !.cpuReserved = reserved, !.failed = failed, !.retry = retry]
    BY <1>1, <2>1 DEF Authorities
  <2> QED BY <1>1, <2>2 DEF Rewritten, Authorities, S
<1>8. to = IF "geometry" \in r.satisfied THEN r.state ELSE "Unloaded"
  OBVIOUS
<1> HIDE DEF b, s, to, reserved
<1>9. /\ Rewrites(gen, a, b, k, s, a.loader)
      /\ b.failed = failed /\ b.mislaid = a.mislaid /\ b.lost = a.lost
  <2>1. a.loader \in LoadersBut(gen, a, k) /\ a.phases \in [Keys -> RepairPhases]
          /\ retry \in SUBSET Keys
    BY <1>1, LoaderBut DEF Authorities
  <2>2. failed \in With(a.failed, k) /\ a.mislaid \in With(a.mislaid, k)
          /\ a.lost \in With(a.lost, k)
    BY DEF With
  <2>3. s.handle = r.handle /\ (s.payload \/ k \in a.lost <=> r.payload \/ k \in a.lost)
    BY <1>2
  <2> HIDE DEF failed, retry, k
  <2>4. RewritesTo(gen, a, b, k, s, a.loader, failed, a.mislaid, a.lost)
    BY <1>1, <1>2, <1>4, <1>7, <2>1, <2>2, <2>3, RewrittenEffect
  <2> QED BY <2>4 DEF RewritesTo
<1>10. Sound(b, k) /\ s.state # "Loading"
  <2> USE <1>9 DEF Rewrites
  <2>1. CASE r.satisfied = {}
    BY <1>1, <1>2, <1>8, <2>1 DEF Sound, Unheld, Placed, Held
  <2>2. CASE r.satisfied # {}
    BY <1>1, <1>2, <1>8, <2>2 DEF Sound, OnceHeld, Placed, Held
  <2> QED BY <2>1, <2>2
<1>11. Fine(b, k)
  BY <1>9, <1>10 DEF Fine, Covered
<1>12. Resolved(gen, a, b, k)
  BY <1>1, <1>9, <1>10, <1>11, ResolvedBy
<1>13. LaterOf(a, b, k)
  BY <1>2, <1>8, <1>9, <1>10 DEF LaterOf, Rewrites
<1> QED BY <1>12, <1>13 DEF b

LEMMA WaitForRepairEffect ==
  ASSUME NEW gen, NEW a, Good(a, gen), NEW job \in Jobs, a.records[job.key].flight # {}
  PROVE  /\ Resolved(gen, a, WaitForRepair(a, job), job.key)
         /\ WaitForRepair(a, job).records[job.key].state = "RepairWaiting"
<1> DEFINE k == job.key
           r == a.records[k]
           s == [r EXCEPT !.flight = {}, !.state = "RepairWaiting"]
           S == [a.records EXCEPT ![k] = s]
           R == [a.records EXCEPT ![k] = [r EXCEPT !.flight = {}]]
           T == [R EXCEPT ![k].state = "RepairWaiting"]
           reserved == Minus(a.cpuReserved, job.bytes)
           b == WaitForRepair(a, job)
           mislaid == IF r.satisfied = {} THEN a.mislaid ELSE a.mislaid \cup {k}
           L == Landed(a, k, job.bytes)
<1>1. /\ a \in Authorities /\ Stored(a) /\ Lists(a, gen) /\ k \in Keys /\ job.bytes \in Nat
      /\ r \in Records /\ Sound(a, k) /\ Covered(a, k)
  BY DEF Good, Fine, Jobs, Authorities
<1>2. /\ s \in Records /\ s.reasons = r.reasons /\ s.satisfied = r.satisfied
      /\ s.queued = r.queued /\ s.flight = {} /\ s.state = "RepairWaiting" /\ s.bytes = r.bytes
      /\ s.payload = r.payload /\ s.handle = r.handle
  BY <1>1 DEF Records, States
<1>3. T = S
  <2>1. R[k] = [r EXCEPT !.flight = {}]
    BY <1>1 DEF Authorities
  <2>2. T = [R EXCEPT ![k] = s]
    BY <1>1, <2>1 DEF Authorities, Records
  <2> HIDE DEF s, T
  <2> QED BY <1>1, <2>2 DEF Authorities
<1>4. L = [a EXCEPT !.records = R, !.cpuReserved = reserved]
        /\ reserved \in Nat /\ reserved <= a.cpuReserved
  BY <1>1, LandedForm
<1>5. b = [L EXCEPT !.records = T, !.mislaid = mislaid]
  <2>1. L.records = R /\ L.mislaid = a.mislaid
    <3> HIDE DEF R, reserved, L
    <3> QED BY <1>1, <1>4 DEF Authorities
  <2>2. b = [L EXCEPT !.records[k].state = "RepairWaiting",
                      !.mislaid = IF r.satisfied = {} THEN @ ELSE @ \cup {k}]
    BY DEF WaitForRepair
  <2> HIDE DEF L, R, b
  <2> QED BY <2>1, <2>2
<1>6. b = Rewritten(a, k, s, a.loader, a.phases, a.failed, mislaid, a.lost, a.retry, reserved)
  <2> HIDE DEF b, S, T, R, reserved, mislaid, L
  <2>1. b = [L EXCEPT !.records = S, !.mislaid = mislaid]
    BY <1>3, <1>5
  <2>2. b = [a EXCEPT !.records = S, !.cpuReserved = reserved, !.mislaid = mislaid]
    BY <1>1, <1>4, <2>1 DEF Authorities
  <2> QED BY <1>1, <2>2 DEF Rewritten, Authorities, S
<1>7. mislaid \in {a.mislaid, a.mislaid \cup {k}} /\ (k \in mislaid <=> r.satisfied # {} \/ k \in a.mislaid)
  OBVIOUS
<1> HIDE DEF b, s, reserved, mislaid, L
<1>9. /\ Rewrites(gen, a, b, k, s, a.loader)
      /\ b.failed = a.failed /\ b.mislaid = mislaid /\ b.lost = a.lost
  <2>1. a.loader \in LoadersBut(gen, a, k) /\ a.phases \in [Keys -> RepairPhases]
          /\ a.retry \in SUBSET Keys
    BY <1>1, LoaderBut DEF Authorities
  <2>2. mislaid \in With(a.mislaid, k) /\ a.failed \in With(a.failed, k)
          /\ a.lost \in With(a.lost, k)
    BY <1>7 DEF With
  <2>3. s.handle = r.handle /\ (s.payload \/ k \in a.lost <=> r.payload \/ k \in a.lost)
    BY <1>2
  <2> HIDE DEF k
  <2>4. RewritesTo(gen, a, b, k, s, a.loader, a.failed, mislaid, a.lost)
    BY <1>1, <1>2, <1>4, <1>6, <2>1, <2>2, <2>3, RewrittenEffect
  <2> QED BY <2>4 DEF RewritesTo
<1>10. Sound(b, k)
  <2> USE <1>9 DEF Rewrites
  <2>1. CASE r.satisfied = {}
    BY <1>1, <1>2, <1>7, <2>1 DEF Sound, Unheld, Placed, Held
  <2>2. CASE r.satisfied # {}
    BY <1>1, <1>2, <1>7, <2>2 DEF Sound, OnceHeld, Placed, Held
  <2> QED BY <2>1, <2>2
<1>11. Covered(b, k)
  BY <1>1, <1>2, <1>9 DEF Rewrites, Covered, Requested
<1>12. Resolved(gen, a, b, k)
  BY <1>1, <1>2, <1>9, <1>10, <1>11, ResolvedBy DEF Fine
<1> QED BY <1>2, <1>9, <1>12 DEF b, Rewrites

\* The wait of a payload is over.
Ended(gen, a, b, k) ==
  Onward(gen, a, b) /\ b.records[k].state \notin {"RepairWaiting", "Loading"}

LEMMA EndedBy ==
  ASSUME NEW gen, NEW a, Good(a, gen), NEW k \in Keys, NEW r, NEW loader, NEW b,
         Rewrites(gen, a, b, k, r, loader), Fine(b, k),
         r.state \notin {"RepairWaiting", "Loading"}, k \in a.failed => k \in b.failed
  PROVE  Ended(gen, a, b, k)
<1>1. Resolved(gen, a, b, k)
  BY ResolvedBy
<1>2. LaterOf(a, b, k) /\ b.records[k].state \notin {"RepairWaiting", "Loading"}
  BY DEF LaterOf, Rewrites
<1> QED BY <1>1, <1>2 DEF Resolved, Ended, Onward, Later

LEMMA EndedOnward ==
  ASSUME NEW gen, NEW a, NEW b, NEW c, NEW k \in Keys, Ended(gen, a, b, k), Onward(gen, b, c)
  PROVE  Ended(gen, a, c, k)
  BY OnwardTwice DEF Ended, Onward, Later, LaterOf

LEMMA AbandonedEffect ==
  ASSUME NEW gen, NEW a, Good(a, gen), NEW k \in Keys, a.records[k].state = "RepairWaiting"
  PROVE  Ended(gen, a, Abandoned(a, k), k)
<1> DEFINE r == a.records[k]
           s == [r EXCEPT !.flight = {}, !.state = "Unloaded", !.payload = FALSE]
           S == [a.records EXCEPT ![k] = s]
           T == [[[a.records EXCEPT ![k].flight = {}] EXCEPT ![k].state = "Unloaded"]
                   EXCEPT ![k].payload = FALSE]
           phases == [a.phases EXCEPT ![k] = "NeedScenePayload"]
           lost == IF r.payload THEN a.lost \cup {k} ELSE a.lost
           b == Abandoned(a, k)
<1>1. /\ a \in Authorities /\ Stored(a) /\ Lists(a, gen) /\ r \in Records
      /\ Sound(a, k) /\ Covered(a, k) /\ a.cpuReserved \in Nat /\ a.retry \in SUBSET Keys
  BY DEF Good, Fine, Authorities
<1>2. /\ s \in Records /\ s.reasons = r.reasons /\ s.satisfied = r.satisfied
      /\ s.queued = r.queued /\ s.flight = {} /\ s.state = "Unloaded" /\ s.bytes = r.bytes
      /\ ~s.payload /\ s.handle = r.handle
  BY <1>1 DEF Records, States
<1>3. T = S
  BY <1>1 DEF Authorities, Records
<1>4. b = [a EXCEPT !.records = T, !.phases = phases, !.lost = lost]
  <2>1. b = [a EXCEPT !.phases = phases, !.records[k].flight = {},
                      !.records[k].state = "Unloaded", !.records[k].payload = FALSE,
                      !.lost = lost]
    BY DEF Abandoned
  <2> DEFINE P == [a.records EXCEPT ![k].flight = {}]
             Q == [P EXCEPT ![k].state = "Unloaded"]
             c == [a EXCEPT !.phases = phases]
  <2>2. T = [Q EXCEPT ![k].payload = FALSE]
    OBVIOUS
  <2>3. c.records = a.records
    BY <1>1 DEF Authorities
  <2>4. b = [[[[c EXCEPT !.records[k].flight = {}] EXCEPT !.records[k].state = "Unloaded"]
                 EXCEPT !.records[k].payload = FALSE] EXCEPT !.lost = lost]
    BY <2>1
  <2> HIDE DEF c, b, T, lost
  <2>5. [c EXCEPT !.records[k].flight = {}] = [c EXCEPT !.records = P]
    BY <2>3
  <2> HIDE DEF P
  <2>6. [[c EXCEPT !.records = P] EXCEPT !.records[k].state = "Unloaded"] = [c EXCEPT !.records = Q]
    BY <1>1 DEF Authorities, c
  <2> HIDE DEF Q
  <2>7. [[c EXCEPT !.records = Q] EXCEPT !.records[k].payload = FALSE] = [c EXCEPT !.records = T]
    BY <1>1, <2>2 DEF Authorities, c
  <2>8. b = [[c EXCEPT !.records = T] EXCEPT !.lost = lost]
    BY <2>4, <2>5, <2>6, <2>7
  <2> HIDE DEF phases
  <2> QED BY <1>1, <2>8 DEF Authorities, c
<1>5. b = Rewritten(a, k, s, a.loader, phases, a.failed, a.mislaid, lost, a.retry, a.cpuReserved)
  <2> HIDE DEF b, S, T, phases, lost
  <2> QED BY <1>1, <1>3, <1>4 DEF Rewritten, Authorities, S
<1>6. /\ lost \in With(a.lost, k) /\ (k \in lost <=> r.payload \/ k \in a.lost)
      /\ phases \in [Keys -> RepairPhases]
  BY <1>1 DEF With, Authorities, RepairPhases
<1> HIDE DEF b, s, phases, lost
<1>7. /\ Rewrites(gen, a, b, k, s, a.loader)
      /\ b.failed = a.failed /\ b.mislaid = a.mislaid /\ b.lost = lost
  <2>1. a.loader \in LoadersBut(gen, a, k)
    BY <1>1, LoaderBut
  <2>2. a.failed \in With(a.failed, k) /\ a.mislaid \in With(a.mislaid, k)
    BY DEF With
  <2>3. s.handle = r.handle /\ (s.payload \/ k \in lost <=> r.payload \/ k \in a.lost)
    BY <1>2, <1>6
  <2>4. a.cpuReserved <= a.cpuReserved
    BY <1>1
  <2>5. RewritesTo(gen, a, b, k, s, a.loader, a.failed, a.mislaid, lost)
    BY <1>1, <1>2, <1>5, <1>6, <2>1, <2>2, <2>3, <2>4, RewrittenEffect
  <2> QED BY <2>5 DEF RewritesTo
<1>8. Sound(b, k)
  <2> USE <1>7 DEF Rewrites
  <2>1. CASE r.satisfied = {}
    BY <1>1, <1>2, <1>6, <2>1 DEF Sound, Unheld, Placed, Held
  <2>2. CASE r.satisfied # {}
    BY <1>1, <1>2, <1>6, <2>2 DEF Sound, OnceHeld, Placed, Held
  <2> QED BY <2>1, <2>2
<1>9. Covered(b, k)
  BY <1>1, <1>2, <1>7 DEF Rewrites, Covered, Requested
<1>10. Ended(gen, a, b, k)
  BY <1>2, <1>7, <1>8, <1>9, EndedBy DEF Fine
<1> QED BY <1>10 DEF b

LEMMA FailEffect ==
  ASSUME NEW gen, NEW a, Good(a, gen), NEW k \in Keys, NEW retry \in SUBSET Keys
  PROVE  Onward(gen, a, [a EXCEPT !.failed = @ \cup {k}, !.retry = retry])
<1> DEFINE failed == a.failed \cup {k}
           b == [a EXCEPT !.failed = failed, !.retry = retry]
           r == a.records[k]
<1>1. /\ a \in Authorities /\ Stored(a) /\ Lists(a, gen) /\ r \in Records
      /\ Sound(a, k) /\ a.cpuReserved \in Nat /\ a.phases \in [Keys -> RepairPhases]
  BY DEF Good, Fine, Authorities
<1>2. b = Rewritten(a, k, r, a.loader, a.phases, failed, a.mislaid, a.lost, retry, a.cpuReserved)
  <2>1. [a.records EXCEPT ![k] = r] = a.records
    BY <1>1 DEF Authorities
  <2> QED BY <1>1, <2>1 DEF Rewritten, Authorities
<1>3. /\ failed \in With(a.failed, k) /\ a.mislaid \in With(a.mislaid, k)
      /\ a.lost \in With(a.lost, k) /\ k \in failed
  BY DEF With
<1>4. a.loader \in LoadersBut(gen, a, k) /\ a.cpuReserved <= a.cpuReserved
  BY <1>1, LoaderBut
<1> HIDE DEF b, failed
<1>5. RewritesTo(gen, a, b, k, r, a.loader, failed, a.mislaid, a.lost)
  BY <1>1, <1>2, <1>3, <1>4, RewrittenEffect
<1> USE DEF RewritesTo, Rewrites
<1>6. Sound(b, k)
  BY <1>1, <1>5 DEF Sound, Unheld, OnceHeld, Placed
<1>7. Fine(b, k) /\ LaterOf(a, b, k)
  BY <1>3, <1>5, <1>6 DEF Fine, Covered, LaterOf
<1>8. Settled(gen, a, b, k)
  BY <1>5, <1>7 DEF Settled
<1>9. Onward(gen, a, b)
  BY <1>8, GoodSettled DEF Onward
<1> QED BY <1>9 DEF b, failed

LEMMA RejectRepairEffect ==
  ASSUME NEW gen, NEW a, Good(a, gen), NEW job \in Jobs,
         a.records[job.key].state = "RepairWaiting"
  PROVE  Ended(gen, a, RejectRepair(a, job), job.key)
<1> DEFINE k == job.key
           b == Abandoned(a, k)
           retry == IF "CameraNear" \in a.records[k].reasons THEN b.retry \cup {k} ELSE b.retry
<1>1. k \in Keys
  BY DEF Jobs
<1>2. Ended(gen, a, b, k)
  BY <1>1, AbandonedEffect
<1>3. retry \in SUBSET Keys /\ Good(b, gen)
  BY <1>1, <1>2 DEF Ended, Onward, Good, Authorities
<1>4. RejectRepair(a, job) = [b EXCEPT !.retry = retry]
  BY DEF RejectRepair
<1> HIDE DEF b, retry
<1>5. Onward(gen, b, [b EXCEPT !.retry = retry])
  BY <1>3, RetryEffect
<1> QED BY <1>1, <1>2, <1>4, <1>5, EndedOnward

LEMMA SuppressRepairEffect ==
  ASSUME NEW gen, NEW a, Good(a, gen), NEW job \in Jobs,
         a.records[job.key].state = "RepairWaiting"
  PROVE  Ended(gen, a, SuppressRepair(a, job), job.key)
<1> DEFINE k == job.key
           b == Abandoned(a, k)
           retry == b.retry \ {k}
<1>1. k \in Keys
  BY DEF Jobs
<1>2. Ended(gen, a, b, k)
  BY <1>1, AbandonedEffect
<1>3. retry \in SUBSET Keys /\ Good(b, gen)
  BY <1>1, <1>2 DEF Ended, Onward, Good, Authorities
<1>4. SuppressRepair(a, job) = [b EXCEPT !.failed = @ \cup {k}, !.retry = retry]
  BY DEF SuppressRepair
<1> HIDE DEF b, retry
<1>5. Onward(gen, b, [b EXCEPT !.failed = @ \cup {k}, !.retry = retry])
  BY <1>1, <1>3, FailEffect
<1> QED BY <1>1, <1>2, <1>4, <1>5, EndedOnward

LEMMA RequeueEffect ==
  ASSUME NEW gen, NEW a, Good(a, gen), NEW job \in JobsOf(gen), NEW repairPhase \in RepairPhases,
         a.records[job.key].state = "RepairWaiting"
  PROVE  Ended(gen, a, RequeueRepairWaiting(a, job, repairPhase), job.key)
<1> DEFINE k == job.key
           r == a.records[k]
           wanted == Requested(r) \ r.satisfied
           queued == IF wanted = {} THEN {"geometry"} ELSE wanted
           s == [r EXCEPT !.queued = queued, !.state = "Queued"]
           S == [a.records EXCEPT ![k] = s]
           T == [[a.records EXCEPT ![k].state = "Queued"] EXCEPT ![k].queued = queued]
           phases == [a.phases EXCEPT ![k] = repairPhase]
           b == RequeueRepairWaiting(a, job, repairPhase)
<1>1. /\ a \in Authorities /\ Stored(a) /\ Lists(a, gen) /\ r \in Records /\ k \in Keys
      /\ Sound(a, k) /\ Covered(a, k) /\ a.cpuReserved \in Nat /\ a.retry \in SUBSET Keys
  BY DEF Good, Fine, Authorities, JobsOf, Jobs
<1>2. /\ queued \in SUBSET Parts /\ queued # {}
      /\ r.satisfied = {} => Requested(r) \subseteq queued
      /\ r.satisfied = {} /\ r.reasons = {} => queued = {"geometry"}
      /\ {"geometry", "material"} \subseteq r.satisfied => "material" \notin queued
  BY <1>1, RequestedOf DEF Parts
<1>3. /\ s \in Records /\ s.reasons = r.reasons /\ s.satisfied = r.satisfied
      /\ s.queued = queued /\ s.flight = r.flight /\ s.state = "Queued" /\ s.bytes = r.bytes
      /\ s.payload = r.payload /\ s.handle = r.handle
  <2> HIDE DEF queued
  <2> QED BY <1>1, <1>2 DEF Records, States
<1>4. T = S
  <2> HIDE DEF queued
  <2> QED BY <1>1 DEF Authorities, Records
<1>5. PICK loader \in LoadersBut(gen, a, k) :
        Enqueue(a, job) = [a EXCEPT !.loader = loader] /\ k \in Names(loader)
  BY <1>1, EnqueueEffect
<1>6. b = [a EXCEPT !.loader = loader, !.phases = phases, !.records = T]
  <2> DEFINE e == [a EXCEPT !.loader = loader]
             P == [a.records EXCEPT ![k].state = "Queued"]
             c == [e EXCEPT !.phases = phases]
  <2>1. e.phases = a.phases /\ c.records = a.records
    BY <1>1 DEF Authorities
  <2>2. b = [[c EXCEPT !.records[k].state = "Queued"] EXCEPT !.records[k].queued = queued]
    <3>1. b = [Enqueue(a, job) EXCEPT !.phases[k] = repairPhase, !.records[k].state = "Queued",
                                      !.records[k].queued = queued]
      BY DEF RequeueRepairWaiting
    <3>2. [e EXCEPT !.phases[k] = repairPhase] = c
      <4> HIDE DEF e
      <4> QED BY <2>1
    <3> HIDE DEF b, queued, e, c
    <3>3. b = [[[e EXCEPT !.phases[k] = repairPhase] EXCEPT !.records[k].state = "Queued"]
                 EXCEPT !.records[k].queued = queued]
      BY <1>5, <3>1 DEF e
    <3> QED BY <3>2, <3>3
  <2> HIDE DEF b, queued
  <2>3. [c EXCEPT !.records[k].state = "Queued"] = [c EXCEPT !.records = P]
    <3> HIDE DEF c
    <3> QED BY <2>1
  <2>4. [[c EXCEPT !.records = P] EXCEPT !.records[k].queued = queued] = [c EXCEPT !.records = T]
    <3>1. [P EXCEPT ![k].queued = queued] = T
      OBVIOUS
    <3> HIDE DEF P, T, phases
    <3> QED BY <1>1, <3>1 DEF Authorities
  <2> HIDE DEF P, T, phases
  <2>5. b = [c EXCEPT !.records = T]
    BY <2>2, <2>3, <2>4
  <2> QED BY <1>1, <2>5 DEF Authorities
<1>7. b = Rewritten(a, k, s, loader, phases, a.failed, a.mislaid, a.lost, a.retry, a.cpuReserved)
  <2> HIDE DEF b, S, T, phases
  <2> QED BY <1>1, <1>4, <1>6 DEF Rewritten, Authorities, S
<1>8. phases \in [Keys -> RepairPhases]
  BY <1>1 DEF Authorities
<1> HIDE DEF b, s, phases, queued
<1>9. /\ Rewrites(gen, a, b, k, s, loader)
      /\ b.failed = a.failed /\ b.mislaid = a.mislaid /\ b.lost = a.lost
  <2>1. a.failed \in With(a.failed, k) /\ a.mislaid \in With(a.mislaid, k)
          /\ a.lost \in With(a.lost, k)
    BY DEF With
  <2>2. s.handle = r.handle /\ (s.payload \/ k \in a.lost <=> r.payload \/ k \in a.lost)
    BY <1>3
  <2>3. a.cpuReserved <= a.cpuReserved
    BY <1>1
  <2> HIDE DEF k
  <2>4. RewritesTo(gen, a, b, k, s, loader, a.failed, a.mislaid, a.lost)
    BY <1>1, <1>3, <1>5, <1>7, <1>8, <2>1, <2>2, <2>3, RewrittenEffect
  <2> QED BY <2>4 DEF RewritesTo
<1>10. Sound(b, k)
  <2> USE <1>9 DEF Rewrites
  <2>1. CASE r.satisfied = {}
    BY <1>1, <1>2, <1>3, <1>5, <2>1 DEF Sound, Unheld, Placed, Held
  <2>2. CASE r.satisfied # {}
    BY <1>1, <1>2, <1>3, <1>5, <2>2 DEF Sound, OnceHeld, Placed, Held
  <2> QED BY <2>1, <2>2
<1>11. Covered(b, k)
  BY <1>1, <1>2, <1>3, <1>9 DEF Rewrites, Covered, Requested
<1>12. Ended(gen, a, b, k)
  BY <1>1, <1>3, <1>9, <1>10, <1>11, EndedBy DEF Fine
<1> QED BY <1>12 DEF b

(***************************************************************************)
(* complete_cached_cpu_with_mask.                                          *)
(***************************************************************************)

\* Room is made for a payload whose load has come back.
RoomMade(gen, a, b, k) ==
  /\ b \in Authorities /\ Stored(b) /\ Lists(b, gen)
  /\ \A j \in Keys \ {k} : Fine(b, j) /\ LaterOf(a, b, j)
  /\ b.records[k] = [a.records[k] EXCEPT !.flight = {}]
  /\ k \notin b.mislaid /\ k \notin b.lost
  /\ k \notin Names(b.loader) /\ k \notin Range(b.ready) /\ k \notin Names(b.warm)

LEMMA RoomMadeEffect ==
  ASSUME NEW gen, NEW a, Good(a, gen), NEW k \in Keys, NEW cpu,
         a.records[k].flight # {}, a.records[k].satisfied = {}
  PROVE  RoomMade(gen, a, EnsureCapacity(Landed(a, k, a.records[k].bytes), cpu, 0), k)
<1> DEFINE r == a.records[k]
           s == [r EXCEPT !.flight = {}]
           R == [a.records EXCEPT ![k] = s]
           reserved == Minus(a.cpuReserved, r.bytes)
           L == Landed(a, k, r.bytes)
           b == EnsureCapacity(L, cpu, 0)
<1>1. /\ a \in Authorities /\ Stored(a) /\ Lists(a, gen) /\ r \in Records /\ r.bytes \in Nat
      /\ Sound(a, k) /\ a.phases \in [Keys -> RepairPhases] /\ a.retry \in SUBSET Keys
  BY DEF Good, Fine, Authorities, Records
<1>2. /\ k \notin a.mislaid /\ ~r.payload /\ ~r.handle /\ k \notin a.lost /\ r.queued = {}
      /\ k \notin Names(a.loader) /\ k \notin Range(a.ready) /\ k \notin Names(a.warm)
  BY <1>1 DEF Sound, Unheld, Placed, Held
<1>3. L = [a EXCEPT !.records = R, !.cpuReserved = reserved]
        /\ reserved \in Nat /\ reserved <= a.cpuReserved /\ L \in Authorities
  BY <1>1, LandedForm
<1>4. s \in Records /\ s.handle = r.handle /\ s.payload = r.payload
  BY <1>1 DEF Records
<1>5. L = Rewritten(a, k, s, a.loader, a.phases, a.failed, a.mislaid, a.lost, a.retry, reserved)
  <2> HIDE DEF L, reserved, R
  <2> QED BY <1>1, <1>3 DEF Rewritten, Authorities, R
<1> HIDE DEF L, reserved, s
<1>6. RewritesTo(gen, a, L, k, s, a.loader, a.failed, a.mislaid, a.lost)
  <2>1. a.failed \in With(a.failed, k) /\ a.mislaid \in With(a.mislaid, k)
          /\ a.lost \in With(a.lost, k)
    BY DEF With
  <2>2. a.loader \in LoadersBut(gen, a, k)
    BY <1>1, LoaderBut
  <2> QED BY <1>1, <1>3, <1>4, <1>5, <2>1, <2>2, RewrittenEffect
<1>7. /\ L \in Authorities /\ Stored(L) /\ Lists(L, gen)
      /\ \A j \in Keys \ {k} : Same(a, L, j)
      /\ L.records[k] = s /\ L.loader = a.loader /\ L.ready = a.ready /\ L.warm = a.warm
      /\ L.mislaid = a.mislaid /\ L.lost = a.lost
  BY <1>6 DEF RewritesTo, Rewrites
<1>8. Evicted(L, b)
  BY <1>7, EnsureEffect
<1> HIDE DEF b
<1>9. Kept(L, b, k)
  <2>1. k \notin Names(L.warm)
    BY <1>2, <1>7
  <2>2. ~Gone(L, b, k)
    BY <2>1 DEF Gone
  <2>3. Kept(L, b, k) \/ Gone(L, b, k)
    BY <1>8 DEF Evicted
  <2> QED BY <2>2, <2>3
<1>10. ASSUME NEW j \in Keys \ {k} PROVE Fine(b, j) /\ LaterOf(a, b, j)
  <2>1. Fine(L, j) /\ LaterOf(a, L, j)
    BY <1>7, FineSame, LaterSame DEF Good
  <2>2. Fine(b, j)
    BY <1>7, <1>8, <2>1, FineEvicted
  <2>3. LaterOf(L, b, j)
    BY <1>7, <1>8, LaterEvicted DEF Later
  <2> QED BY <2>1, <2>2, <2>3 DEF LaterOf
<1>11. b \in Authorities /\ Stored(b) /\ Lists(b, gen)
  BY <1>7, <1>8 DEF Evicted, Lists
<1>12. /\ b.mislaid = a.mislaid /\ b.loader = a.loader /\ b.ready = a.ready
       /\ b.records[k] = s /\ (k \in b.lost <=> k \in a.lost)
       /\ k \in Names(b.warm) => k \in Names(a.warm)
  BY <1>7, <1>8, <1>9 DEF Evicted, Kept
<1>13. s = [a.records[k] EXCEPT !.flight = {}]
  BY DEF s
<1> HIDE DEF r
<1>14. /\ k \notin b.mislaid /\ k \notin b.lost
       /\ k \notin Names(b.loader) /\ k \notin Range(b.ready) /\ k \notin Names(b.warm)
  BY <1>2, <1>12
<1>15. RoomMade(gen, a, b, k)
  BY <1>10, <1>11, <1>12, <1>13, <1>14 DEF RoomMade
<1> QED BY <1>15 DEF b, L, r

LEMMA ResolvedFrom ==
  ASSUME NEW gen, NEW a, NEW b, NEW c \in Authorities, NEW k \in Keys, RoomMade(gen, a, b, k),
         Stored(c), Lists(c, gen), \A j \in Keys \ {k} : Same(b, c, j), Fine(c, k),
         c.records[k].state # "Loading"
  PROVE  Resolved(gen, a, c, k)
<1>1. ASSUME NEW j \in Keys \ {k} PROVE Fine(c, j) /\ LaterOf(a, c, j)
  <2>1. Fine(b, j) /\ LaterOf(a, b, j)
    BY DEF RoomMade
  <2> QED BY <2>1, FineSame DEF Same, LaterOf
<1> QED BY <1>1 DEF Resolved, Good

\* A mesh that does not fit is not kept.
LEMMA RefusedEffect ==
  ASSUME NEW gen, NEW a \in Authorities, NEW b, NEW k \in Keys, RoomMade(gen, a, b, k), Sound(a, k),
         a.records[k].satisfied = {}, a.records[k].flight # {}
  PROVE  /\ Resolved(gen, a, Becomes(b, k, "Unloaded"), k)
         /\ Becomes(b, k, "Unloaded").records[k].state # "RepairWaiting"
<1> DEFINE r == a.records[k]
           q == b.records[k]
           s == [q EXCEPT !.state = "Unloaded"]
           c == Becomes(b, k, "Unloaded")
<1>1. r \in Records /\ b \in Authorities /\ Stored(b) /\ Lists(b, gen) /\ q = [r EXCEPT !.flight = {}]
        /\ b.phases \in [Keys -> RepairPhases] /\ b.retry \in SUBSET Keys /\ b.cpuReserved \in Nat
  BY DEF RoomMade, Authorities
<1>2. /\ q.satisfied = {} /\ q.queued = r.queued /\ q.flight = {} /\ q.payload = r.payload
      /\ q.handle = r.handle /\ q \in Records
  BY <1>1 DEF Records
<1>3. r.queued = {} /\ ~r.payload /\ ~r.handle
  BY DEF Sound, Unheld
<1>4. /\ s \in Records /\ s.state = "Unloaded" /\ s.satisfied = {} /\ s.queued = {} /\ s.flight = {}
      /\ ~s.payload /\ ~s.handle /\ s.handle = q.handle /\ s.payload = q.payload
  BY <1>1, <1>2, <1>3 DEF Records, States
<1>5. c = Rewritten(b, k, s, b.loader, b.phases, b.failed, b.mislaid, b.lost, b.retry, b.cpuReserved)
  <2>1. c = [b EXCEPT !.records[k].state = "Unloaded"]
    BY <1>2 DEF Becomes
  <2> HIDE DEF c
  <2> QED BY <1>1, <2>1 DEF Rewritten, Authorities
<1> HIDE DEF c, s, q
<1>6. RewritesTo(gen, b, c, k, s, b.loader, b.failed, b.mislaid, b.lost)
  <2>1. b.failed \in With(b.failed, k) /\ b.mislaid \in With(b.mislaid, k)
          /\ b.lost \in With(b.lost, k)
    BY DEF With
  <2>2. b.loader \in LoadersBut(gen, b, k) /\ b.cpuReserved <= b.cpuReserved
    BY <1>1, LoaderBut
  <2> QED BY <1>1, <1>4, <1>5, <2>1, <2>2, RewrittenEffect DEF q
<1> USE DEF RewritesTo, Rewrites
<1>7. Fine(c, k)
  BY <1>4, <1>6 DEF RoomMade, Fine, Sound, Unheld, Placed, Covered, Held
<1>8. Resolved(gen, a, c, k)
  BY <1>4, <1>6, <1>7, ResolvedFrom
<1> QED BY <1>4, <1>6, <1>8 DEF c

\* The mesh is kept, warm if nobody wants it any more.
KeptRecord(r, k) ==
  [r EXCEPT !.satisfied = r.flight, !.flight = {}, !.bytes = Decoded[k], !.payload = TRUE,
            !.state = IF r.reasons = {} THEN "Warm" ELSE "CpuReady"]

KeptMesh(b, k, r) ==
  [b EXCEPT !.records = [b.records EXCEPT ![k] = KeptRecord(r, k)],
            !.cpuUsed = @ + Decoded[k],
            !.warm = IF r.reasons = {}
                       THEN Append(Without(b.warm, k), [key |-> k, cpu |-> Decoded[k], gpu |-> 0])
                       ELSE b.warm,
            !.ready = IF r.reasons = {} THEN b.ready ELSE Append(b.ready, k)]

LEMMA KeptMeshEffect ==
  ASSUME NEW gen, NEW a \in Authorities, NEW b, NEW k \in Keys, RoomMade(gen, a, b, k), Sound(a, k),
         a.records[k].satisfied = {}, {"geometry", "material"} \subseteq a.records[k].flight,
         Fits(b, Decoded[k], 0)
  PROVE  LET c == KeptMesh(b, k, a.records[k]) IN
           /\ c \in Authorities /\ Stored(c) /\ Lists(c, gen) /\ Sound(c, k) /\ Covered(c, k)
           /\ \A j \in Keys \ {k} : Same(b, c, j)
           /\ c.records[k].state \notin {"Loading", "RepairWaiting"}
<1> DEFINE r == a.records[k]
           s == KeptRecord(r, k)
           S == [b.records EXCEPT ![k] = s]
           idle == r.reasons = {}
           w == [key |-> k, cpu |-> Decoded[k], gpu |-> 0]
           warm == IF idle THEN Append(Without(b.warm, k), w) ELSE b.warm
           ready == IF idle THEN b.ready ELSE Append(b.ready, k)
           used == b.cpuUsed + Decoded[k]
           c == [b EXCEPT !.records = S, !.cpuUsed = used, !.warm = warm, !.ready = ready]
<1>1. /\ r \in Records /\ b \in Authorities /\ Stored(b) /\ Lists(b, gen) /\ Decoded[k] \in Nat
      /\ k \notin b.mislaid /\ k \notin b.lost /\ k \notin Names(b.loader)
      /\ k \notin Range(b.ready) /\ k \notin Names(b.warm)
      /\ b.records[k] = [r EXCEPT !.flight = {}] /\ b.lost \in SUBSET Keys
      /\ b.cpuUsed \in Nat /\ b.gpuUsed \in Nat /\ b.cpuReserved \in Nat
  BY Sizes DEF RoomMade, Authorities
<1>2. r.queued = {} /\ ~r.payload /\ ~r.handle
  BY DEF Sound, Unheld
<1>3. /\ s \in Records /\ s.satisfied = r.flight /\ s.flight = {} /\ s.queued = {}
      /\ s.bytes = Decoded[k] /\ s.payload /\ ~s.handle
      /\ s.state = IF idle THEN "Warm" ELSE "CpuReady"
  BY <1>1, <1>2 DEF Records, States, KeptRecord
<1>4. S \in [Keys -> Records] /\ S[k] = s /\ \A j \in Keys \ {k} : S[j] = b.records[j]
  <2> HIDE DEF s
  <2> QED BY <1>1, <1>3 DEF Authorities
<1>5. /\ ready \in Seq(Keys) /\ IsInjective(ready)
      /\ (k \in Range(ready) <=> ~idle)
      /\ \A j \in Keys \ {k} : j \in Range(ready) <=> j \in Range(b.ready)
  <2>1. b.ready \in Seq(Keys) /\ IsInjective(b.ready)
    BY <1>1 DEF Authorities, Lists
  <2>2. /\ Append(b.ready, k) \in Seq(Keys) /\ IsInjective(Append(b.ready, k))
        /\ Range(Append(b.ready, k)) = Range(b.ready) \cup {k}
    BY <1>1, <2>1, AppendEffect
  <2> HIDE DEF idle
  <2> QED BY <1>1, <2>1, <2>2
<1>6. /\ warm \in Seq(WarmOnes) /\ Distinct(warm)
      /\ \A v \in Range(warm) : v \in Range(b.warm) \/ (v = w /\ idle)
      /\ \A j \in Keys \ {k} : j \in Names(warm) <=> j \in Names(b.warm)
      /\ (k \in Names(warm) => idle)
  <2>1. b.warm \in Seq(WarmOnes) /\ Distinct(b.warm)
    BY <1>1 DEF Authorities, Stored
  <2> DEFINE rest == Without(b.warm, k)
  <2>2. /\ rest \in Seq(WarmOnes) /\ Distinct(rest) /\ Names(rest) = Names(b.warm) \ {k}
        /\ Range(rest) = {v \in Range(b.warm) : v.key # k}
    BY <2>1, WithoutEffect
  <2>3. w \in WarmOnes /\ w.key = k
    BY <1>1 DEF WarmOnes
  <2> HIDE DEF rest, w
  <2>4. /\ Append(rest, w) \in Seq(WarmOnes) /\ Range(Append(rest, w)) = Range(rest) \cup {w}
        /\ Names(Append(rest, w)) = Names(rest) \cup {k} /\ Distinct(Append(rest, w))
    BY <2>2, <2>3, AppendEffect
  <2>5. CASE idle
    <3>1. warm = Append(rest, w)
      BY <2>5 DEF rest
    <3> HIDE DEF warm
    <3> QED BY <2>2, <2>4, <2>5, <3>1
  <2>6. CASE ~idle
    <3>1. warm = b.warm
      BY <2>6
    <3> HIDE DEF warm
    <3> QED BY <1>1, <2>1, <3>1
  <2> QED BY <2>5, <2>6
<1>7. used \in Nat /\ used + b.cpuReserved <= CpuBudget
  <2>1. b.cpuUsed + b.cpuReserved + Decoded[k] <= CpuBudget
    BY DEF Fits
  <2> QED BY <1>1, <2>1, Sizes
<1>8. KeptMesh(b, k, r) = c
  BY DEF KeptMesh
<1>9. w.key = k /\ w.cpu = Decoded[k] /\ w.gpu = 0
  OBVIOUS
<1>10. used = b.cpuUsed + Decoded[k]
  OBVIOUS
<1> HIDE DEF S, s, w, warm, ready, used
<1>11. /\ c.records = S /\ c.cpuUsed = used /\ c.warm = warm /\ c.ready = ready
       /\ c.loader = b.loader /\ c.failed = b.failed /\ c.mislaid = b.mislaid
       /\ c.lost = b.lost /\ c.gpuUsed = b.gpuUsed /\ c.cpuReserved = b.cpuReserved
  BY <1>1 DEF Authorities
<1>12. c \in Authorities
  BY <1>1, <1>4, <1>5, <1>6, <1>7 DEF Authorities
<1> HIDE DEF c
<1>13. b.records[k].handle = r.handle /\ b.records[k].payload = r.payload
  BY <1>1 DEF Records
<1>14. Counted(c) = Counted(b) \cup {k} /\ OnCard(c) = OnCard(b) /\ k \notin Counted(b)
         /\ Counted(b) \in SUBSET Keys
  <2>1. Counted(c) \subseteq Keys /\ Counted(b) \subseteq Keys
    BY <1>1, <1>11 DEF Counted
  <2>2. k \in Counted(c) /\ k \notin Counted(b)
    BY <1>1, <1>2, <1>3, <1>4, <1>11, <1>13 DEF Counted
  <2>3. \A j \in Keys \ {k} : j \in Counted(c) <=> j \in Counted(b)
    BY <1>4, <1>11 DEF Counted
  <2>4. \A j \in Keys : c.records[j].handle <=> b.records[j].handle
    BY <1>2, <1>3, <1>4, <1>11, <1>13
  <2>5. OnCard(c) = OnCard(b)
    BY <2>4 DEF OnCard
  <2> QED BY <2>1, <2>2, <2>3, <2>5
<1>15. c.cpuUsed = Bytes(Counted(c)) /\ c.gpuUsed = Bytes(OnCard(c))
  <2>1. Bytes(Counted(b) \cup {k}) = Bytes(Counted(b)) + Decoded[k]
    BY <1>14, BytesOf
  <2>2. b.cpuUsed = Bytes(Counted(b)) /\ b.gpuUsed = Bytes(OnCard(b))
    BY <1>1 DEF Stored
  <2> QED BY <1>10, <1>11, <1>14, <2>1, <2>2
<1>16. ASSUME NEW v \in Range(c.warm) PROVE WarmRight(c, v)
  <2>1. CASE v \in Range(b.warm)
    <3>1. v.key \in Keys
      <4>1. v \in WarmOnes
        BY <1>1, <2>1, InRange DEF Authorities
      <4> QED BY <4>1 DEF WarmOnes
    <3>2. v.key # k
      BY <1>1, <2>1, NamesOf
    <3>3. WarmRight(b, v)
      BY <1>1, <2>1 DEF Stored, WarmRight
    <3> QED BY <1>4, <1>11, <1>14, <3>1, <3>2, <3>3 DEF WarmRight
  <2>2. CASE v = w
    BY <1>3, <1>4, <1>9, <1>11, <1>14, <2>2 DEF WarmRight
  <2> QED BY <1>6, <1>11, <2>1, <2>2
<1>17. Stored(c)
  BY <1>1, <1>6, <1>7, <1>11, <1>15, <1>16 DEF Stored, WarmRight
<1>18. Lists(c, gen)
  BY <1>1, <1>5, <1>11 DEF Lists
<1>19. \A j \in Keys \ {k} : Same(b, c, j)
  BY <1>4, <1>5, <1>6, <1>11 DEF Same
<1>20. c.records[k] = s /\ s.satisfied # {}
  BY <1>3, <1>4, <1>11
<1>21. Sound(c, k)
  BY <1>1, <1>3, <1>5, <1>6, <1>11, <1>20 DEF Sound, OnceHeld, Placed, Held
<1>22. Covered(c, k)
  BY <1>20 DEF Covered
<1>23. c.records[k].state \notin {"Loading", "RepairWaiting"}
  BY <1>3, <1>20
<1> QED BY <1>8, <1>12, <1>17, <1>18, <1>19, <1>21, <1>22, <1>23

PlacedMesh(b, k, r) ==
  LET held == [b EXCEPT !.records[k].bytes = Decoded[k], !.records[k].payload = TRUE,
                        !.records[k].satisfied = @ \cup r.flight,
                        !.cpuUsed = @ + Decoded[k]]
  IN  IF r.reasons = {} THEN Warmed(held, k, 0)
      ELSE EnqueueReady([held EXCEPT !.records[k].state = "CpuReady"], k)

LEMMA KeptForm ==
  ASSUME NEW b \in Authorities, NEW k \in Keys, NEW r \in Records, r.satisfied = {},
         b.records[k] = [r EXCEPT !.flight = {}], k \notin Range(b.ready)
  PROVE  PlacedMesh(b, k, r) = KeptMesh(b, k, r)
<1> DEFINE held == [b EXCEPT !.records[k].bytes = Decoded[k], !.records[k].payload = TRUE,
                             !.records[k].satisfied = @ \cup r.flight,
                             !.cpuUsed = @ + Decoded[k]]
           P == [b.records EXCEPT ![k].bytes = Decoded[k]]
           Q == [P EXCEPT ![k].payload = TRUE]
           R == [Q EXCEPT ![k].satisfied = @ \cup r.flight]
           used == b.cpuUsed + Decoded[k]
           h == [r EXCEPT !.satisfied = r.flight, !.flight = {}, !.bytes = Decoded[k],
                          !.payload = TRUE]
           T == [b.records EXCEPT ![k] = h]
           S == [b.records EXCEPT ![k] = KeptRecord(r, k)]
           w == [key |-> k, cpu |-> Decoded[k], gpu |-> 0]
<1>1. h.bytes = Decoded[k] /\ h.flight = {} /\ h.reasons = r.reasons
  BY DEF Records
<1>0. Q[k].satisfied = b.records[k].satisfied
  BY DEF Authorities, Records
<1>2. R = T
  <2> DEFINE q == b.records[k]
             u == [[[q EXCEPT !.bytes = Decoded[k]] EXCEPT !.payload = TRUE]
                     EXCEPT !.satisfied = @ \cup r.flight]
  <2>1. u = h
    BY DEF Records
  <2>2. R = [b.records EXCEPT ![k] = u]
    <3>1. P = [b.records EXCEPT ![k] = [q EXCEPT !.bytes = Decoded[k]]]
      BY DEF Authorities
    <3>2. Q = [b.records EXCEPT ![k] = [[q EXCEPT !.bytes = Decoded[k]] EXCEPT !.payload = TRUE]]
      <4> HIDE DEF P
      <4> QED BY <3>1 DEF Authorities
    <3> DEFINE z == [[q EXCEPT !.bytes = Decoded[k]] EXCEPT !.payload = TRUE]
    <3>3. Q = [b.records EXCEPT ![k] = z] /\ k \in DOMAIN b.records
      BY <3>2 DEF Authorities
    <3> HIDE DEF Q, z
    <3>4. R = [b.records EXCEPT ![k] = [z EXCEPT !.satisfied = @ \cup r.flight]]
      BY <3>3
    <3> QED BY <3>4 DEF z
  <2> QED BY <2>1, <2>2
<1>3. T[k] = h /\ DOMAIN T = Keys /\ \A j \in Keys \ {k} : T[j] = b.records[j]
  BY DEF Authorities
<1>4. KeptRecord(r, k) = [h EXCEPT !.state = IF r.reasons = {} THEN "Warm" ELSE "CpuReady"]
  BY DEF KeptRecord, Records
<1>5. held = [b EXCEPT !.records = R, !.cpuUsed = used]
  <2>1. [b EXCEPT !.records[k].bytes = Decoded[k]] = [b EXCEPT !.records = P]
    OBVIOUS
  <2> HIDE DEF P
  <2>2. [[b EXCEPT !.records = P] EXCEPT !.records[k].payload = TRUE] = [b EXCEPT !.records = Q]
    BY DEF Authorities
  <2>3. [[b EXCEPT !.records = Q] EXCEPT !.records[k].satisfied = b.records[k].satisfied \cup r.flight]
          = [b EXCEPT !.records = R]
    <3>1. Q[k].satisfied = b.records[k].satisfied
      BY <1>0
    <3> HIDE DEF Q
    <3> QED BY <3>1 DEF Authorities
  <2>4. held = [[[[b EXCEPT !.records[k].bytes = Decoded[k]] EXCEPT !.records[k].payload = TRUE]
                   EXCEPT !.records[k].satisfied = b.records[k].satisfied \cup r.flight]
                  EXCEPT !.cpuUsed = b.cpuUsed + Decoded[k]]
    OBVIOUS
  <2> HIDE DEF held, R
  <2>5. held = [[b EXCEPT !.records = R] EXCEPT !.cpuUsed = b.cpuUsed + Decoded[k]]
    BY <2>1, <2>2, <2>3, <2>4
  <2> QED BY <2>5 DEF Authorities
<1>6. KeptRecord(r, k) = [h EXCEPT !.state = IF r.reasons = {} THEN "Warm" ELSE "CpuReady"]
        /\ KeptRecord(r, k).reasons = r.reasons
  BY <1>4 DEF KeptRecord, Records
<1> HIDE DEF held, P, Q, R, h
<1>7. held = [b EXCEPT !.records = T, !.cpuUsed = used]
  BY <1>2, <1>5
<1> HIDE DEF T, used
<1>8. held.records = T /\ held.warm = b.warm /\ held.ready = b.ready
  BY <1>7 DEF Authorities
<1>9. ASSUME r.reasons = {}
      PROVE  Warmed(held, k, 0) = KeptMesh(b, k, r)
  <2>1. [T EXCEPT ![k].state = "Warm"] = S
    BY <1>3, <1>6, <1>9 DEF T, Authorities
  <2>2. Warmed(held, k, 0)
          = [held EXCEPT !.records = S, !.warm = Append(Without(b.warm, k), w)]
    <3>1. Warmed(held, k, 0)
            = [held EXCEPT !.records = [T EXCEPT ![k].state = "Warm"],
                           !.warm = Append(Without(b.warm, k), w)]
      BY <1>1, <1>3, <1>7, <1>8 DEF Warmed, Authorities
    <3> QED BY <2>1, <3>1
  <2> HIDE DEF S, w
  <2> DEFINE warm == Append(Without(b.warm, k), w)
  <2>3. KeptMesh(b, k, r) = [b EXCEPT !.records = S, !.cpuUsed = used, !.warm = warm,
                                      !.ready = b.ready]
    BY <1>9 DEF KeptMesh, S, w, used, Authorities
  <2>4. Warmed(held, k, 0)
          = [[b EXCEPT !.records = T, !.cpuUsed = used] EXCEPT !.records = S, !.warm = warm]
    BY <1>7, <2>2
  <2> HIDE DEF warm
  <2> QED BY <2>3, <2>4 DEF Authorities
<1>10. ASSUME r.reasons # {}
       PROVE  EnqueueReady([held EXCEPT !.records[k].state = "CpuReady"], k) = KeptMesh(b, k, r)
  <2> DEFINE c == [held EXCEPT !.records[k].state = "CpuReady"]
             ready == Append(b.ready, k)
  <2>1. [T EXCEPT ![k].state = "CpuReady"] = S
    BY <1>3, <1>6, <1>10 DEF T, Authorities
  <2>2. c = [held EXCEPT !.records = S]
    BY <1>8, <2>1
  <2> HIDE DEF S
  <2>3. c.ready = b.ready
    BY <1>8, <2>2
  <2> HIDE DEF c
  <2>4. EnqueueReady(c, k) = [c EXCEPT !.ready = ready]
    BY <2>3 DEF EnqueueReady
  <2>5. KeptMesh(b, k, r) = [b EXCEPT !.records = S, !.cpuUsed = used, !.warm = b.warm,
                                      !.ready = ready]
    BY <1>10 DEF KeptMesh, S, used, Authorities
  <2>6. EnqueueReady(c, k)
          = [[[b EXCEPT !.records = T, !.cpuUsed = used] EXCEPT !.records = S] EXCEPT !.ready = ready]
    BY <1>7, <2>2, <2>4
  <2> HIDE DEF ready
  <2>7. EnqueueReady(c, k) = KeptMesh(b, k, r)
    BY <2>5, <2>6 DEF Authorities
  <2> QED BY <2>7 DEF c
<1>11. PlacedMesh(b, k, r) = IF r.reasons = {} THEN Warmed(held, k, 0)
                             ELSE EnqueueReady([held EXCEPT !.records[k].state = "CpuReady"], k)
  BY DEF PlacedMesh, held
<1> QED BY <1>9, <1>10, <1>11

\* A load that has come back has ended, or asks for more than was begun.
LEMMA CompleteCpuEffect ==
  ASSUME NEW gen \in Nat, gen = generation, NEW a, Good(a, gen), NEW done \in Loads,
         a.records[done.job.key].flight # {}, done.mask # {},
         done.mask \subseteq a.records[done.job.key].flight
  PROVE  /\ Resolved(gen, a, CompleteCpu(a, done), done.job.key)
         /\ CompleteCpu(a, done).records[done.job.key].state # "RepairWaiting"
<1> DEFINE k == done.job.key
           r == a.records[k]
           landed == Landed(a, k, r.bytes)
           made == EnsureCapacity(landed, Decoded[k], 0)
           placed == PlacedMesh(made, k, r)
           c == CompleteCpu(a, done)
<1>1. k \in Keys /\ done.mask \in {{}, {"geometry", "material"}, Parts}
  BY DEF Loads, Jobs
<1>2. a \in Authorities /\ Sound(a, k) /\ r \in Records
  BY <1>1 DEF Good, Fine, Authorities
<1>3. {"geometry", "material"} \subseteq r.flight
  BY <1>1 DEF Parts
<1>4. r.satisfied = {}
  BY <1>2, <1>3 DEF Sound, OnceHeld
<1>5. RoomMade(gen, a, made, k)
  BY <1>1, <1>4, RoomMadeEffect
<1>6. c = IF ~Fits(made, Decoded[k], 0) \/ Decoded[k] > GpuBudget THEN Becomes(made, k, "Unloaded")
          ELSE EvictToBudget(EnqueueMissing(placed, k))
  BY DEF CompleteCpu, PlacedMesh
<1> HIDE DEF c, made
<1>7. CASE ~Fits(made, Decoded[k], 0) \/ Decoded[k] > GpuBudget
  <2>1. c = Becomes(made, k, "Unloaded")
    BY <1>6, <1>7
  <2> QED BY <1>1, <1>2, <1>4, <1>5, <2>1, RefusedEffect DEF c
<1>8. CASE ~(~Fits(made, Decoded[k], 0) \/ Decoded[k] > GpuBudget)
  <2> DEFINE p == KeptMesh(made, k, r)
             d == EnqueueMissing(p, k)
  <2>1. placed = p
    <3>1. /\ made \in Authorities /\ made.records[k] = [r EXCEPT !.flight = {}]
          /\ k \notin Range(made.ready)
      BY <1>5 DEF RoomMade
    <3> HIDE DEF r, p
    <3>2. placed = KeptMesh(made, k, r)
      BY <1>1, <1>2, <1>4, <3>1, KeptForm
    <3> QED BY <3>2 DEF p
  <2>2. c = EvictToBudget(d)
    BY <1>6, <1>8, <2>1
  <2>3. /\ p \in Authorities /\ Stored(p) /\ Lists(p, gen) /\ Sound(p, k) /\ Covered(p, k)
        /\ p.records[k].state \notin {"Loading", "RepairWaiting"}
        /\ \A j \in Keys \ {k} : Same(made, p, j)
    BY <1>1, <1>2, <1>3, <1>4, <1>5, <1>8, KeptMeshEffect
  <2> HIDE DEF p
  <2>4. Settled(gen, p, d, k)
    BY <1>1, <2>3, EnqueueMissingEffect
  <2> HIDE DEF d
  <2>5. d \in Authorities /\ Stored(d) /\ Lists(d, gen) /\ Fine(d, k)
    BY <2>4 DEF Settled
  <2>6. d.records[k].state \notin {"Loading", "RepairWaiting"}
    BY <2>3, <2>4 DEF Settled, LaterOf
  <2>7. \A j \in Keys \ {k} : Same(made, d, j)
    BY <2>3, <2>4 DEF Settled, Same
  <2>8. Resolved(gen, a, d, k)
    BY <1>1, <1>5, <2>5, <2>6, <2>7, ResolvedFrom
  <2>9. Onward(gen, d, c)
    <3>1. Evicted(d, c)
      BY <2>2, <2>5, BudgetEffect
    <3>2. Good(d, gen)
      BY <2>8 DEF Resolved
    <3> QED BY <3>1, <3>2, GoodEvicted DEF Onward
  <2>10. Resolved(gen, a, c, k)
    BY <1>1, <2>8, <2>9, ResolvedOnward
  <2>11. c.records[k].state # "RepairWaiting"
    BY <1>1, <2>6, <2>9 DEF Onward, Later, LaterOf
  <2> QED BY <2>10, <2>11 DEF c
<1> QED BY <1>7, <1>8

(***************************************************************************)
(* The pump: a payload leaves the line, room is made, and it is uploaded,  *)
(* put back, or dropped.                                                   *)
(***************************************************************************)

Relined(gen, a, b, k) ==
  /\ b \in Authorities /\ Stored(b) /\ Lists(b, gen)
  /\ \A j \in Keys \ {k} : Same(a, b, j)
  /\ b.records = a.records /\ b.loader = a.loader /\ b.warm = a.warm /\ b.failed = a.failed
  /\ b.mislaid = a.mislaid /\ b.lost = a.lost

LEMMA RelinedEffect ==
  ASSUME NEW gen, NEW a \in Authorities, Stored(a), Lists(a, gen), NEW k \in Keys,
         NEW ready \in ReadyBut(a, k)
  PROVE  /\ Relined(gen, a, [a EXCEPT !.ready = ready], k)
         /\ [a EXCEPT !.ready = ready].ready = ready
<1> DEFINE b == [a EXCEPT !.ready = ready]
<1>1. ready \in Seq(Keys) /\ IsInjective(ready)
        /\ \A j \in Keys \ {k} : j \in Range(ready) <=> j \in Range(a.ready)
  BY DEF ReadyBut
<1>2. /\ b.records = a.records /\ b.loader = a.loader /\ b.warm = a.warm /\ b.failed = a.failed
      /\ b.mislaid = a.mislaid /\ b.lost = a.lost /\ b.ready = ready /\ b.cpuUsed = a.cpuUsed
      /\ b.gpuUsed = a.gpuUsed /\ b.cpuReserved = a.cpuReserved
  BY DEF Authorities
<1>3. b \in Authorities
  BY <1>1 DEF Authorities
<1> HIDE DEF b
<1>4. SameStore(a, b)
  BY <1>2 DEF SameStore, Stored, Authorities
<1>5. Stored(b)
  BY <1>3, <1>4, StoredSame
<1>6. Lists(b, gen)
  BY <1>1, <1>2 DEF Lists
<1>7. \A j \in Keys \ {k} : Same(a, b, j)
  BY <1>1, <1>2 DEF Same
<1>8. Relined(gen, a, b, k) /\ b.ready = ready
  BY <1>2, <1>3, <1>5, <1>6, <1>7 DEF Relined
<1> QED BY <1>8 DEF b

\* A payload that waits for its upload, out of the line, and room made for it.
Lifted(gen, a, b, k) ==
  /\ b \in Authorities /\ Stored(b) /\ Lists(b, gen)
  /\ \A j \in Keys \ {k} : Fine(b, j) /\ LaterOf(a, b, j)
  /\ b.records[k] = a.records[k] /\ b.failed = a.failed
  /\ b.loader = a.loader /\ k \notin b.mislaid /\ k \notin b.lost
  /\ k \notin Range(b.ready) /\ k \notin Names(b.warm)

LEMMA HeadEffect ==
  ASSUME NEW gen, NEW a, Good(a, gen), a.ready # <<>>
  PROVE  /\ Head(a.ready) \in Keys /\ Head(a.ready) \in Range(a.ready)
         /\ Relined(gen, a, [a EXCEPT !.ready = Tail(@)], Head(a.ready))
         /\ Head(a.ready) \notin Range([a EXCEPT !.ready = Tail(@)].ready)
<1> DEFINE k == Head(a.ready)
           tail == Tail(a.ready)
<1>1. a \in Authorities /\ Stored(a) /\ Lists(a, gen) /\ a.ready \in Seq(Keys)
  BY DEF Good, Authorities
<1>2. /\ tail \in Seq(Keys) /\ k \in Keys /\ k = a.ready[1] /\ 1 \in DOMAIN a.ready
      /\ Thinned(a.ready, tail, 1)
  BY <1>1, TailThins
<1>3. IsInjective(tail) /\ Range(tail) = Range(a.ready) \ {k}
  BY <1>1, <1>2, ThinnedValues DEF Lists
<1>4. k \in Range(a.ready)
  BY <1>2 DEF Range
<1> HIDE DEF k, tail
<1>5. tail \in ReadyBut(a, k)
  BY <1>2, <1>3 DEF ReadyBut
<1>6. Relined(gen, a, [a EXCEPT !.ready = tail], k) /\ [a EXCEPT !.ready = tail].ready = tail
  BY <1>1, <1>2, <1>5, RelinedEffect
<1>7. [a EXCEPT !.ready = Tail(@)] = [a EXCEPT !.ready = tail]
  BY DEF tail
<1> QED BY <1>2, <1>3, <1>4, <1>6, <1>7 DEF k

\* What is known of a payload in line that may still be uploaded.
InLine(r, k) ==
  /\ r \in Records /\ r.state = "CpuReady" /\ r.payload /\ ~r.handle /\ r.bytes = Decoded[k]
  /\ {"geometry", "material"} \subseteq r.satisfied /\ "material" \notin r.queued \cup r.flight
  /\ r.flight # {} => r.queued = {}

LEMMA LiftedEffect ==
  ASSUME NEW gen, NEW a, Good(a, gen), a.ready # <<>>, NEW bytes,
         a.records[Head(a.ready)].state = "CpuReady"
  PROVE  LET k == Head(a.ready) IN
           /\ InLine(a.records[k], k)
           /\ a.records[k].queued # {} <=> k \in Names(a.loader)
           /\ Lifted(gen, a, EnsureCapacity([a EXCEPT !.ready = Tail(@)], 0, bytes), k)
<1> DEFINE k == Head(a.ready)
           p == [a EXCEPT !.ready = Tail(@)]
           b == EnsureCapacity(p, 0, bytes)
           r == a.records[k]
<1>1. k \in Keys /\ Relined(gen, a, p, k) /\ k \notin Range(p.ready)
  BY HeadEffect
<1> HIDE DEF p, k
<1>2. a \in Authorities /\ Sound(a, k) /\ r \in Records /\ r.state = "CpuReady"
  BY <1>1 DEF Good, Fine, Authorities, k
<1>3. r.satisfied # {} /\ k \notin a.mislaid
  BY <1>2 DEF Sound, Unheld, Held
<1>4. OnceHeld(a, k) /\ Placed(a, k) /\ r.payload /\ ~r.handle /\ r.bytes = Decoded[k]
  BY <1>2, <1>3 DEF Sound, Held
<1>5. InLine(r, k) /\ (r.queued # {} <=> k \in Names(a.loader))
  BY <1>2, <1>4 DEF InLine, OnceHeld, Placed
<1>6. k \notin a.lost /\ k \notin Names(a.warm)
  BY <1>2, <1>4 DEF Placed
<1>7. /\ p \in Authorities /\ Stored(p) /\ Lists(p, gen)
      /\ p.records = a.records /\ p.loader = a.loader /\ p.warm = a.warm /\ p.failed = a.failed
      /\ p.mislaid = a.mislaid /\ p.lost = a.lost
  BY <1>1 DEF Relined
<1>8. Evicted(p, b)
  BY <1>7, EnsureEffect
<1> HIDE DEF b
<1>9. /\ b \in Authorities /\ Stored(b) /\ b.loader = a.loader /\ b.failed = a.failed
      /\ b.ready = p.ready /\ b.mislaid = a.mislaid
  BY <1>7, <1>8 DEF Evicted
<1>10. Lists(b, gen)
  BY <1>7, <1>9 DEF Lists
<1>11. Kept(p, b, k)
  <2>1. ~Gone(p, b, k)
    BY <1>6, <1>7 DEF Gone
  <2> QED BY <1>1, <1>8, <2>1 DEF Evicted
<1>12. ASSUME NEW j \in Keys \ {k} PROVE Fine(b, j) /\ LaterOf(a, b, j)
  <2>1. Same(a, p, j) /\ Fine(a, j)
    BY <1>1 DEF Relined, Good
  <2>2. Fine(p, j) /\ LaterOf(a, p, j)
    BY <2>1, FineSame, LaterSame
  <2>3. Fine(b, j)
    BY <1>7, <1>8, <2>2, FineEvicted
  <2>4. LaterOf(p, b, j)
    BY <1>7, <1>8, LaterEvicted DEF Later
  <2> QED BY <2>2, <2>3, <2>4 DEF LaterOf
<1>13. /\ b.records[k] = a.records[k] /\ k \notin b.lost /\ k \notin Names(b.warm)
       /\ k \notin Range(b.ready) /\ k \notin b.mislaid
  BY <1>1, <1>3, <1>6, <1>7, <1>9, <1>11 DEF Kept
<1>14. Lifted(gen, a, b, k)
  BY <1>9, <1>10, <1>12, <1>13 DEF Lifted
<1> QED BY <1>5, <1>14 DEF b, p, k

LEMMA OnwardFrom ==
  ASSUME NEW gen, NEW a, NEW b, NEW k \in Keys, Lifted(gen, a, b, k), NEW c \in Authorities,
         Stored(c), Lists(c, gen), \A j \in Keys \ {k} : Same(b, c, j), Fine(c, k),
         c.failed = b.failed, c.records[k].state \notin {"Loading", "RepairWaiting"}
  PROVE  Onward(gen, a, c)
<1>1. ASSUME NEW j \in Keys \ {k} PROVE Fine(c, j) /\ LaterOf(a, c, j)
  <2>1. Fine(b, j) /\ LaterOf(a, b, j) /\ Same(b, c, j)
    BY DEF Lifted
  <2> QED BY <2>1, FineSame DEF Same, LaterOf
<1>2. LaterOf(a, c, k)
  BY DEF LaterOf, Lifted
<1> QED BY <1>1, <1>2 DEF Onward, Good, Later

LEMMA PutBackEffect ==
  ASSUME NEW gen, NEW a, NEW b, NEW k \in Keys, Lifted(gen, a, b, k), InLine(b.records[k], k),
         b.records[k].queued # {} <=> k \in Names(b.loader)
  PROVE  Onward(gen, a, EnqueueReady(b, k))
<1> DEFINE ready == Append(b.ready, k)
           c == [b EXCEPT !.ready = ready]
           r == b.records[k]
<1>1. b \in Authorities /\ Stored(b) /\ Lists(b, gen) /\ k \notin Range(b.ready)
  BY DEF Lifted
<1>2. ready \in ReadyBut(b, k) /\ k \in Range(ready)
  BY <1>1, ReadyLists
<1> HIDE DEF ready
<1>3. Relined(gen, b, c, k) /\ c.ready = ready
  BY <1>1, <1>2, RelinedEffect
<1>4. EnqueueReady(b, k) = c
  BY <1>1 DEF EnqueueReady, ready
<1> HIDE DEF c
<1>5. /\ c \in Authorities /\ Stored(c) /\ Lists(c, gen)
      /\ \A j \in Keys \ {k} : Same(b, c, j)
      /\ c.records[k] = r /\ c.failed = b.failed
      /\ c.loader = b.loader /\ c.warm = b.warm /\ c.mislaid = b.mislaid /\ c.lost = b.lost
  BY <1>3 DEF Relined
<1>6. k \notin c.mislaid /\ k \notin c.lost /\ k \notin Names(c.warm) /\ k \in Range(c.ready)
  BY <1>2, <1>3, <1>5 DEF Lifted
<1>7. Sound(c, k)
  BY <1>5, <1>6 DEF InLine, Sound, OnceHeld, Placed, Held
<1>8. Covered(c, k)
  BY <1>5 DEF InLine, Covered
<1>9. c.records[k].state \notin {"Loading", "RepairWaiting"}
  BY <1>5 DEF InLine
<1>10. Onward(gen, a, c)
  BY <1>5, <1>7, <1>8, <1>9, OnwardFrom DEF Fine
<1> QED BY <1>4, <1>10

\* The mesh of a payload leaves the memory, for the device or for nowhere.
OnGpu(k) == [key |-> k, cpu |-> Decoded[k], gpu |-> Decoded[k]]

MeshLeaves(b, k, s, warm, cpu, gpu) ==
  LET r == b.records[k]
  IN  /\ s \in Records /\ s.satisfied = r.satisfied /\ s.queued = r.queued
      /\ s.flight = r.flight /\ s.bytes = r.bytes /\ ~s.payload
      /\ \/ /\ s.handle /\ s.state \in {"GpuResident", "Warm"}
            /\ cpu = b.cpuUsed /\ gpu = b.gpuUsed + Decoded[k] /\ gpu <= GpuBudget
            /\ warm = b.warm \/ (s.state = "Warm" /\ warm = Append(Without(b.warm, k), OnGpu(k)))
         \/ /\ ~s.handle /\ s.state = "Unloaded"
            /\ cpu = Minus(b.cpuUsed, Decoded[k]) /\ gpu = b.gpuUsed /\ warm = b.warm

MeshLeft(b, k, s, warm, cpu, gpu) ==
  [b EXCEPT !.records = [b.records EXCEPT ![k] = s], !.warm = warm, !.cpuUsed = cpu,
            !.gpuUsed = gpu]

LEMMA MeshLeavesEffect ==
  ASSUME NEW gen, NEW a, NEW b, NEW k \in Keys, Lifted(gen, a, b, k), InLine(b.records[k], k),
         b.records[k].queued # {} <=> k \in Names(b.loader),
         NEW s, NEW warm, NEW cpu, NEW gpu, MeshLeaves(b, k, s, warm, cpu, gpu)
  PROVE  Onward(gen, a, MeshLeft(b, k, s, warm, cpu, gpu))
<1> DEFINE r == b.records[k]
           S == [b.records EXCEPT ![k] = s]
           c == MeshLeft(b, k, s, warm, cpu, gpu)
<1>1. /\ b \in Authorities /\ Stored(b) /\ Lists(b, gen) /\ Decoded[k] \in Nat
      /\ k \notin b.mislaid /\ k \notin b.lost /\ k \notin Range(b.ready) /\ k \notin Names(b.warm)
      /\ b.cpuUsed \in Nat /\ b.gpuUsed \in Nat /\ b.cpuReserved \in Nat /\ b.lost \in SUBSET Keys
  BY Sizes DEF Lifted, Authorities
<1>2. /\ s \in Records /\ s.satisfied = r.satisfied /\ s.queued = r.queued
      /\ s.flight = r.flight /\ s.bytes = r.bytes /\ ~s.payload
  BY DEF MeshLeaves
<1>3. \/ s.handle /\ s.state \in {"GpuResident", "Warm"}
      \/ ~s.handle /\ s.state = "Unloaded"
  BY DEF MeshLeaves
<1>4. S \in [Keys -> Records] /\ S[k] = s /\ \A j \in Keys \ {k} : S[j] = b.records[j]
  BY <1>1, <1>2 DEF Authorities
<1>5. /\ warm \in Seq(WarmOnes) /\ Distinct(warm)
      /\ \A v \in Range(warm) :
           v \in Range(b.warm) \/ (v = OnGpu(k) /\ s.handle)
      /\ \A j \in Keys \ {k} : j \in Names(warm) <=> j \in Names(b.warm)
      /\ k \in Names(warm) => s.state = "Warm"
  <2>1. b.warm \in Seq(WarmOnes) /\ Distinct(b.warm)
    BY <1>1 DEF Authorities, Stored
  <2> DEFINE rest == Without(b.warm, k)
             w == OnGpu(k)
  <2>2. /\ rest \in Seq(WarmOnes) /\ Distinct(rest) /\ Names(rest) = Names(b.warm) \ {k}
        /\ Range(rest) = {v \in Range(b.warm) : v.key # k}
    BY <2>1, WithoutEffect
  <2>3. w \in WarmOnes /\ w.key = k
    BY <1>1 DEF WarmOnes, OnGpu
  <2> HIDE DEF rest, w
  <2>4. /\ Append(rest, w) \in Seq(WarmOnes) /\ Range(Append(rest, w)) = Range(rest) \cup {w}
        /\ Names(Append(rest, w)) = Names(rest) \cup {k} /\ Distinct(Append(rest, w))
    BY <2>2, <2>3, AppendEffect
  <2>5. CASE warm = b.warm
    BY <1>1, <2>1, <2>5
  <2>6. CASE s.handle /\ s.state = "Warm" /\ warm = Append(rest, w)
    BY <2>2, <2>4, <2>6 DEF w
  <2>7. warm = b.warm \/ (s.handle /\ s.state = "Warm" /\ warm = Append(rest, w))
    BY DEF MeshLeaves, rest, w
  <2> QED BY <2>5, <2>6, <2>7
<1>6. cpu \in Nat /\ gpu \in Nat /\ cpu <= b.cpuUsed /\ gpu <= GpuBudget
  <2>1. b.gpuUsed <= GpuBudget
    BY <1>1 DEF Stored
  <2>2. \/ cpu = b.cpuUsed /\ gpu = b.gpuUsed + Decoded[k] /\ gpu <= GpuBudget
        \/ cpu = Minus(b.cpuUsed, Decoded[k]) /\ gpu = b.gpuUsed
    BY DEF MeshLeaves
  <2> QED BY <1>1, <2>1, <2>2 DEF Minus
<1> HIDE DEF S
<1>7. /\ c.records = S /\ c.cpuUsed = cpu /\ c.gpuUsed = gpu /\ c.warm = warm
      /\ c.ready = b.ready /\ c.loader = b.loader /\ c.failed = b.failed
      /\ c.mislaid = b.mislaid /\ c.lost = b.lost /\ c.cpuReserved = b.cpuReserved
  BY <1>1 DEF Authorities, MeshLeft, S
<1>8. c \in Authorities
  BY <1>1, <1>4, <1>5, <1>6 DEF Authorities, MeshLeft, S
<1> HIDE DEF c
<1>9. /\ Counted(b) \in SUBSET Keys /\ OnCard(b) \in SUBSET Keys
      /\ k \in Counted(b) /\ k \notin OnCard(b)
  BY <1>1 DEF Counted, OnCard, InLine
<1>10. /\ \A j \in Keys \ {k} : j \in Counted(c) <=> j \in Counted(b)
       /\ \A j \in Keys \ {k} : j \in OnCard(c) <=> j \in OnCard(b)
       /\ Counted(c) \in SUBSET Keys /\ OnCard(c) \in SUBSET Keys
       /\ k \in Counted(c) <=> s.handle
       /\ k \in OnCard(c) <=> s.handle
  BY <1>1, <1>2, <1>4, <1>7 DEF Counted, OnCard
<1>11. cpu = Bytes(Counted(c)) /\ gpu = Bytes(OnCard(c))
  <2>1. b.cpuUsed = Bytes(Counted(b)) /\ b.gpuUsed = Bytes(OnCard(b))
    BY <1>1 DEF Stored
  <2>2. CASE s.handle
    <3>1. Counted(c) = Counted(b) /\ OnCard(c) = OnCard(b) \cup {k}
      BY <1>9, <1>10, <2>2
    <3>2. Bytes(OnCard(b) \cup {k}) = Bytes(OnCard(b)) + Decoded[k]
      BY <1>9, BytesOf
    <3>3. cpu = b.cpuUsed /\ gpu = b.gpuUsed + Decoded[k]
      BY <2>2 DEF MeshLeaves
    <3> QED BY <2>1, <3>1, <3>2, <3>3
  <2>3. CASE ~s.handle
    <3>1. Counted(c) = Counted(b) \ {k} /\ OnCard(c) = OnCard(b)
      BY <1>9, <1>10, <2>3
    <3>2. Bytes(Counted(b) \ {k}) = Bytes(Counted(b)) - Decoded[k] /\ Decoded[k] <= Bytes(Counted(b))
      BY <1>9, BytesOf
    <3>3. cpu = Minus(b.cpuUsed, Decoded[k]) /\ gpu = b.gpuUsed
      BY <2>3 DEF MeshLeaves
    <3> QED BY <1>1, <2>1, <3>1, <3>2, <3>3 DEF Minus
  <2> QED BY <2>2, <2>3
<1>12. ASSUME NEW v \in Range(c.warm) PROVE WarmRight(c, v)
  <2>1. CASE v \in Range(b.warm)
    <3>1. v.key \in Keys
      <4>1. v \in WarmOnes
        BY <1>1, <2>1, InRange DEF Authorities
      <4> QED BY <4>1 DEF WarmOnes
    <3>2. v.key # k
      BY <1>1, <2>1, NamesOf
    <3>3. WarmRight(b, v)
      BY <1>1, <2>1 DEF Stored, WarmRight
    <3> QED BY <1>4, <1>7, <1>10, <3>1, <3>2, <3>3 DEF WarmRight
  <2>2. CASE v = OnGpu(k) /\ s.handle
    <3>1. v.key = k /\ v.cpu = Decoded[k] /\ v.gpu = Decoded[k]
      BY <2>2 DEF OnGpu
    <3> QED BY <1>4, <1>7, <1>10, <2>2, <3>1 DEF WarmRight
  <2> QED BY <1>5, <1>7, <2>1, <2>2
<1>13. cpu + b.cpuReserved <= CpuBudget
  <2>1. b.cpuUsed + b.cpuReserved <= CpuBudget
    BY <1>1 DEF Stored
  <2> QED BY <1>1, <1>6, <2>1, Sizes
<1>14. Stored(c)
  BY <1>5, <1>6, <1>7, <1>11, <1>12, <1>13 DEF Stored, WarmRight
<1>15. Lists(c, gen)
  BY <1>1, <1>7 DEF Lists
<1>16. \A j \in Keys \ {k} : Same(b, c, j)
  BY <1>4, <1>5, <1>7 DEF Same
<1>17. c.records[k] = s
  BY <1>4, <1>7
<1>18. Sound(c, k)
  BY <1>1, <1>2, <1>3, <1>5, <1>7, <1>17 DEF InLine, Sound, OnceHeld, Placed, Held
<1>19. Covered(c, k)
  BY <1>2, <1>17 DEF Covered, InLine
<1>20. c.records[k].state \notin {"Loading", "RepairWaiting"}
  BY <1>3, <1>17
<1>21. Onward(gen, a, c)
  BY <1>7, <1>8, <1>14, <1>15, <1>16, <1>18, <1>19, <1>20, OnwardFrom DEF Fine
<1> QED BY <1>21 DEF c

Refused(b, k, bytes) ==
  [b EXCEPT !.cpuUsed = Minus(@, bytes), !.records[k].state = "Unloaded",
            !.records[k].payload = FALSE]

RefusedRecord(r) == [r EXCEPT !.state = "Unloaded", !.payload = FALSE]

LEMMA RefusedForm ==
  ASSUME NEW b \in Authorities, NEW k \in Keys, NEW bytes
  PROVE  Refused(b, k, bytes)
           = MeshLeft(b, k, RefusedRecord(b.records[k]), b.warm, Minus(b.cpuUsed, bytes), b.gpuUsed)
<1> DEFINE r == b.records[k]
           s == RefusedRecord(r)
           P == [b.records EXCEPT ![k].state = "Unloaded"]
           Q == [P EXCEPT ![k].payload = FALSE]
           S == [b.records EXCEPT ![k] = s]
           cpu == Minus(b.cpuUsed, bytes)
           c == [b EXCEPT !.cpuUsed = cpu]
<1>1. Q = S
  BY DEF Authorities, Records, RefusedRecord
<1>2. Refused(b, k, bytes)
        = [[c EXCEPT !.records[k].state = "Unloaded"] EXCEPT !.records[k].payload = FALSE]
  BY DEF Refused
<1>3. c.records = b.records
  BY DEF Authorities
<1> HIDE DEF c, S, s
<1>4. [c EXCEPT !.records[k].state = "Unloaded"] = [c EXCEPT !.records = P]
  BY <1>3
<1> HIDE DEF P
<1>5. [[c EXCEPT !.records = P] EXCEPT !.records[k].payload = FALSE] = [c EXCEPT !.records = Q]
  BY DEF c, Authorities
<1>6. Refused(b, k, bytes) = [c EXCEPT !.records = S]
  BY <1>1, <1>2, <1>4, <1>5
<1> HIDE DEF cpu
<1>7. MeshLeft(b, k, s, b.warm, cpu, b.gpuUsed) = [c EXCEPT !.records = S]
  BY DEF MeshLeft, c, S, Authorities
<1> QED BY <1>6, <1>7 DEF s, cpu

UploadedRecord(r) ==
  [r EXCEPT !.payload = FALSE, !.handle = TRUE,
            !.state = IF r.reasons = {} THEN "Warm" ELSE "GpuResident"]

LEMMA UploadedForm ==
  ASSUME NEW b \in Authorities, NEW k \in Keys, b.records[k].bytes = Decoded[k]
  PROVE  Uploaded(b, k)
           = MeshLeft(b, k, UploadedRecord(b.records[k]),
                      IF b.records[k].reasons = {} THEN Append(Without(b.warm, k), OnGpu(k))
                      ELSE b.warm,
                      b.cpuUsed, b.gpuUsed + Decoded[k])
<1> DEFINE r == b.records[k]
           s == UploadedRecord(r)
           P == [b.records EXCEPT ![k].payload = FALSE]
           Q == [P EXCEPT ![k].handle = TRUE]
           R == [Q EXCEPT ![k].state = "GpuResident"]
           h == [r EXCEPT !.payload = FALSE, !.handle = TRUE, !.state = "GpuResident"]
           T == [b.records EXCEPT ![k] = h]
           S == [b.records EXCEPT ![k] = s]
           gpu == b.gpuUsed + Decoded[k]
           c == [b EXCEPT !.records[k].payload = FALSE, !.records[k].handle = TRUE,
                          !.records[k].state = "GpuResident", !.gpuUsed = @ + b.records[k].bytes]
           w == OnGpu(k)
           warm == Append(Without(b.warm, k), w)
<1>1. /\ h.bytes = Decoded[k] /\ h.reasons = r.reasons
      /\ s = [h EXCEPT !.state = IF r.reasons = {} THEN "Warm" ELSE "GpuResident"]
      /\ r.reasons # {} => s = h
  BY DEF Authorities, Records, UploadedRecord
<1>2. R = T
  BY DEF Authorities, Records
<1>3. c = [b EXCEPT !.records = R, !.gpuUsed = gpu]
  <2>1. c = [[[[b EXCEPT !.records[k].payload = FALSE] EXCEPT !.records[k].handle = TRUE]
                EXCEPT !.records[k].state = "GpuResident"] EXCEPT !.gpuUsed = b.gpuUsed + Decoded[k]]
    OBVIOUS
  <2>2. [b EXCEPT !.records[k].payload = FALSE] = [b EXCEPT !.records = P]
    OBVIOUS
  <2> HIDE DEF c, P
  <2>3. [[b EXCEPT !.records = P] EXCEPT !.records[k].handle = TRUE] = [b EXCEPT !.records = Q]
    BY DEF Authorities
  <2> HIDE DEF Q
  <2>4. [[b EXCEPT !.records = Q] EXCEPT !.records[k].state = "GpuResident"]
          = [b EXCEPT !.records = R]
    BY DEF Authorities
  <2> HIDE DEF R
  <2>5. c = [[b EXCEPT !.records = R] EXCEPT !.gpuUsed = b.gpuUsed + Decoded[k]]
    BY <2>1, <2>2, <2>3, <2>4
  <2> QED BY <2>5 DEF Authorities
<1>4. Uploaded(b, k) = IF r.reasons = {} THEN Warmed(c, k, c.records[k].bytes) ELSE c
  BY DEF Uploaded
<1> HIDE DEF c, P, Q, R, gpu, h, s
<1>5. c = [b EXCEPT !.records = T, !.gpuUsed = gpu]
  BY <1>2, <1>3
<1>6. T[k] = h /\ k \in DOMAIN T
  BY DEF Authorities
<1> HIDE DEF T
<1>7. c.records = T /\ c.warm = b.warm
  BY <1>5 DEF Authorities
<1>8. CASE r.reasons # {}
  <2>1. T = S
    BY <1>1, <1>8 DEF T, S
  <2>2. MeshLeft(b, k, s, b.warm, b.cpuUsed, gpu) = [b EXCEPT !.records = S, !.gpuUsed = gpu]
    BY DEF MeshLeft, Authorities
  <2>3. Uploaded(b, k) = MeshLeft(b, k, s, b.warm, b.cpuUsed, gpu)
    BY <1>4, <1>5, <1>8, <2>1, <2>2
  <2> QED BY <1>8, <2>3 DEF s, gpu
<1>9. CASE r.reasons = {}
  <2>1. [T EXCEPT ![k].state = "Warm"] = S
    BY <1>1, <1>6, <1>9 DEF T, Authorities
  <2>2. w = [key |-> k, cpu |-> Decoded[k], gpu |-> Decoded[k]]
    BY DEF OnGpu
  <2>3. Uploaded(b, k) = [c EXCEPT !.records = S, !.warm = warm]
    <3>1. Uploaded(b, k) = [c EXCEPT !.records = [T EXCEPT ![k].state = "Warm"], !.warm = warm]
      BY <1>1, <1>4, <1>6, <1>7, <1>9, <2>2 DEF Warmed
    <3> QED BY <2>1, <3>1
  <2> HIDE DEF S, warm
  <2>4. Uploaded(b, k)
          = [[b EXCEPT !.records = T, !.gpuUsed = gpu] EXCEPT !.records = S, !.warm = warm]
    BY <1>5, <2>3
  <2>5. MeshLeft(b, k, s, warm, b.cpuUsed, gpu)
          = [b EXCEPT !.records = S, !.warm = warm, !.gpuUsed = gpu]
    BY DEF MeshLeft, S, Authorities
  <2>6. Uploaded(b, k) = MeshLeft(b, k, s, warm, b.cpuUsed, gpu)
    BY <2>4, <2>5 DEF Authorities
  <2> QED BY <1>9, <2>6 DEF s, gpu, warm
<1> QED BY <1>8, <1>9

Pumps == [auth : Authorities, left : Nat, first : BOOLEAN, done : BOOLEAN]

Pumped(gen, a, s) == s \in Pumps /\ Onward(gen, a, s.auth)

UploadStep(s, turn, p, q) == Upload(s, turn)
Uploads == INSTANCE FoldTheorems WITH Op <- UploadStep

\* One that was mislaid since it came into the line leaves it.
LEMMA SkippedEffect ==
  ASSUME NEW gen, NEW a, Good(a, gen), a.ready # <<>>,
         a.records[Head(a.ready)].state # "CpuReady"
  PROVE  Onward(gen, a, [a EXCEPT !.ready = Tail(@)])
<1> DEFINE k == Head(a.ready)
           p == [a EXCEPT !.ready = Tail(@)]
<1>1. k \in Keys /\ k \in Range(a.ready) /\ Relined(gen, a, p, k)
  BY HeadEffect
<1> HIDE DEF p, k
<1>2. Sound(a, k) /\ Covered(a, k)
  BY <1>1 DEF Good, Fine
<1>3. k \in a.mislaid
  BY <1>1, <1>2 DEF Sound, Placed, k
<1>4. /\ p \in Authorities /\ Stored(p) /\ Lists(p, gen)
      /\ p.records = a.records /\ p.failed = a.failed /\ p.mislaid = a.mislaid
      /\ p.lost = a.lost
  BY <1>1 DEF Relined
<1>5. Sound(p, k)
  BY <1>2, <1>3, <1>4 DEF Sound, Unheld, OnceHeld
<1>6. Covered(p, k) /\ LaterOf(a, p, k)
  BY <1>2, <1>4 DEF Covered, LaterOf
<1>7. Onward(gen, a, p)
  <2>1. \A j \in Keys \ {k} : Same(a, p, j)
    BY <1>1 DEF Relined
  <2> QED BY <1>1, <1>4, <1>5, <1>6, <2>1, Assemble DEF Onward, Fine
<1> QED BY <1>7 DEF p

LEMMA UploadEffect ==
  ASSUME NEW gen, NEW a, NEW s, Pumped(gen, a, s), NEW turn
  PROVE  Pumped(gen, a, Upload(s, turn))
<1> DEFINE b == s.auth
           k == Head(b.ready)
           p == [b EXCEPT !.ready = Tail(@)]
           bytes == p.records[k].bytes
           made == EnsureCapacity(p, 0, bytes)
           after == Upload(s, turn)
<1>1. s \in Pumps /\ b \in Authorities /\ Good(b, gen) /\ Onward(gen, a, b)
  BY DEF Pumped, Pumps, Onward
<1> DEFINE tooBig == [made EXCEPT !.cpuUsed = Minus(@, bytes), !.records[k].state = "Unloaded",
                                  !.records[k].payload = FALSE]
           next == IF bytes > s.left /\ ~s.first THEN [s EXCEPT !.done = TRUE]
                   ELSE IF ~Fits(made, 0, bytes)
                     THEN [s EXCEPT !.auth = IF bytes > GpuBudget THEN tooBig
                                             ELSE EnqueueReady(made, k)]
                   ELSE IF ~p.records[k].payload
                     THEN [s EXCEPT !.auth = made, !.left = Minus(@, bytes)]
                   ELSE [s EXCEPT !.auth = Uploaded(made, k), !.left = Minus(@, bytes),
                                  !.first = FALSE]
<1>2. after = CASE s.done \/ b.ready = <<>> -> s
                [] ~(s.done \/ b.ready = <<>>) /\ p.records[k].state # "CpuReady" ->
                     [s EXCEPT !.auth = p]
                [] OTHER -> next
  BY DEF Upload
<1>10. tooBig = Refused(made, k, bytes)
  BY DEF Refused
<1> HIDE DEF tooBig
<1>3. p.records = b.records
  BY <1>1 DEF Authorities
<1> HIDE DEF after
<1>4. ASSUME NEW c, Onward(gen, b, c), NEW left \in Nat, NEW first \in BOOLEAN,
             after = [s EXCEPT !.auth = c, !.left = left, !.first = first]
      PROVE  Pumped(gen, a, after)
  <2>1. Onward(gen, a, c) /\ c \in Authorities
    BY <1>1, <1>4, OnwardTwice DEF Onward, Good
  <2>2. after \in Pumps /\ after.auth = c
    BY <1>1, <1>4, <2>1 DEF Pumps
  <2> QED BY <2>1, <2>2 DEF Pumped
<1>5. CASE s.done \/ b.ready = <<>>
  <2> HIDE DEF next, p
  <2>1. after = s
    BY <1>2, <1>5
  <2> QED BY <2>1 DEF after
<1>6. CASE ~(s.done \/ b.ready = <<>>) /\ b.records[k].state # "CpuReady"
  <2>1. after = [s EXCEPT !.auth = p]
    <3> HIDE DEF next, p
    <3> QED BY <1>2, <1>3, <1>6
  <2>2. Onward(gen, b, p)
    BY <1>1, <1>6, SkippedEffect
  <2> HIDE DEF p
  <2>3. after = [s EXCEPT !.auth = p, !.left = s.left, !.first = s.first]
    BY <1>1, <2>1 DEF Pumps
  <2>4. s.left \in Nat /\ s.first \in BOOLEAN
    BY <1>1 DEF Pumps
  <2>5. Pumped(gen, a, after)
    BY <1>4, <2>2, <2>3, <2>4
  <2> QED BY <2>5 DEF after
<1>7. CASE ~(s.done \/ b.ready = <<>>) /\ b.records[k].state = "CpuReady"
  <2> DEFINE r == b.records[k]
  <2>1. /\ InLine(r, k) /\ Lifted(gen, b, made, k) /\ k \in Keys
        /\ r.queued # {} <=> k \in Names(b.loader)
    BY <1>1, <1>7, LiftedEffect, HeadEffect
  <2>2. bytes = Decoded[k] /\ Decoded[k] \in Nat
    BY <1>3, <2>1, Sizes DEF InLine
  <2>3. r.payload
    BY <2>1 DEF InLine
  <2>4. made \in Authorities /\ made.records[k] = r /\ made.loader = b.loader
    BY <2>1 DEF Lifted
  <2>5. s.left \in Nat /\ s.first \in BOOLEAN /\ Minus(s.left, bytes) \in Nat
    BY <1>1, <2>2 DEF Pumps, Minus
  <2>6. after =
          IF bytes > s.left /\ ~s.first THEN [s EXCEPT !.done = TRUE]
          ELSE IF ~Fits(made, 0, bytes)
            THEN [s EXCEPT !.auth = IF bytes > GpuBudget THEN Refused(made, k, bytes)
                                    ELSE EnqueueReady(made, k)]
          ELSE [s EXCEPT !.auth = Uploaded(made, k), !.left = Minus(@, bytes), !.first = FALSE]
    <3>1. after = next
      <4> HIDE DEF next, p
      <4> QED BY <1>2, <1>3, <1>7
    <3> HIDE DEF made, bytes, p, k
    <3> QED BY <1>3, <1>10, <2>3, <3>1
  <2> HIDE DEF made, bytes, p, k
  <2>7. made.records[k].queued # {} <=> k \in Names(made.loader)
    BY <2>1, <2>4
  <2>8. InLine(made.records[k], k)
    BY <2>1, <2>4
  <2>9. Onward(gen, b, EnqueueReady(made, k))
    BY <2>1, <2>7, <2>8, PutBackEffect
  <2>10. Onward(gen, b, Refused(made, k, bytes))
    <3> DEFINE u == RefusedRecord(r)
    <3>1. MeshLeaves(made, k, u, made.warm, Minus(made.cpuUsed, bytes), made.gpuUsed)
      <4>1. /\ u \in Records /\ u.satisfied = r.satisfied /\ u.queued = r.queued
            /\ u.flight = r.flight /\ u.bytes = r.bytes /\ ~u.payload /\ ~u.handle
            /\ u.state = "Unloaded"
        BY <2>1 DEF InLine, Records, RefusedRecord, States
      <4> HIDE DEF u
      <4> QED BY <2>2, <2>4, <4>1 DEF MeshLeaves
    <3>2. Refused(made, k, bytes)
            = MeshLeft(made, k, u, made.warm, Minus(made.cpuUsed, bytes), made.gpuUsed)
      BY <2>1, <2>4, RefusedForm
    <3> HIDE DEF u
    <3> QED BY <2>1, <2>7, <2>8, <3>1, <3>2, MeshLeavesEffect
  <2>11. ASSUME Fits(made, 0, bytes)
         PROVE  Onward(gen, b, Uploaded(made, k))
    <3> DEFINE u == UploadedRecord(r)
               warm == IF r.reasons = {} THEN Append(Without(made.warm, k), OnGpu(k)) ELSE made.warm
               gpu == made.gpuUsed + Decoded[k]
    <3>1. MeshLeaves(made, k, u, warm, made.cpuUsed, gpu)
      <4>1. /\ u \in Records /\ u.satisfied = r.satisfied /\ u.queued = r.queued
            /\ u.flight = r.flight /\ u.bytes = r.bytes /\ ~u.payload /\ u.handle
            /\ u.state = IF r.reasons = {} THEN "Warm" ELSE "GpuResident"
        BY <2>1 DEF InLine, Records, UploadedRecord, States
      <4> HIDE DEF u
      <4>2. gpu <= GpuBudget
        BY <2>2, <2>11 DEF Fits
      <4>3. warm = made.warm \/ (u.state = "Warm" /\ warm = Append(Without(made.warm, k), OnGpu(k)))
        BY <4>1
      <4>4. u.state \in {"GpuResident", "Warm"}
        BY <4>1
      <4> HIDE DEF warm
      <4> QED BY <2>4, <4>1, <4>2, <4>3, <4>4 DEF MeshLeaves
    <3>2. Uploaded(made, k) = MeshLeft(made, k, u, warm, made.cpuUsed, gpu)
      <4>1. made.records[k].bytes = Decoded[k]
        BY <2>8 DEF InLine
      <4> QED BY <2>1, <2>4, <4>1, UploadedForm
    <3> HIDE DEF u, warm, gpu
    <3> QED BY <2>1, <2>7, <2>8, <3>1, <3>2, MeshLeavesEffect
  <2>12. CASE bytes > s.left /\ ~s.first
    <3>1. after = [s EXCEPT !.done = TRUE]
      BY <2>6, <2>12
    <3>2. after \in Pumps /\ after.auth = b
      BY <1>1, <3>1 DEF Pumps
    <3> QED BY <1>1, <3>2 DEF Pumped, after
  <2>13. CASE ~(bytes > s.left /\ ~s.first) /\ ~Fits(made, 0, bytes)
    <3> DEFINE c == IF bytes > GpuBudget THEN Refused(made, k, bytes) ELSE EnqueueReady(made, k)
    <3>1. after = [s EXCEPT !.auth = c]
      BY <2>6, <2>13
    <3>2. Onward(gen, b, c)
      BY <2>9, <2>10
    <3> HIDE DEF c
    <3>3. after = [s EXCEPT !.auth = c, !.left = s.left, !.first = s.first]
      BY <1>1, <3>1 DEF Pumps
    <3>4. Pumped(gen, a, after)
      BY <1>4, <2>5, <3>2, <3>3
    <3> QED BY <3>4 DEF after
  <2>14. CASE ~(bytes > s.left /\ ~s.first) /\ Fits(made, 0, bytes)
    <3> DEFINE c == Uploaded(made, k)
               left == Minus(s.left, bytes)
    <3>1. after = [s EXCEPT !.auth = c, !.left = left, !.first = FALSE]
      BY <1>1, <2>6, <2>14
    <3>2. Onward(gen, b, c)
      BY <2>11, <2>14
    <3> HIDE DEF c, left
    <3>3. Pumped(gen, a, after)
      <4>1. left \in Nat
        BY <2>5 DEF left
      <4> QED BY <1>4, <3>1, <3>2, <4>1
    <3> QED BY <3>3 DEF after
  <2> QED BY <2>12, <2>13, <2>14
<1> QED BY <1>5, <1>6, <1>7

LEMMA PumpUploadsEffect ==
  ASSUME NEW gen, NEW a, Good(a, gen)
  PROVE  Onward(gen, a, PumpUploads(a))
<1> DEFINE first == [auth |-> a, left |-> UploadBudget, first |-> TRUE, done |-> FALSE]
           U == {s \in Pumps : Pumped(gen, a, s)}
           last == Uploads!Fold(first, a.ready, 0, 0)
<1>1. a \in Authorities /\ a.ready \in Seq(Keys)
  BY DEF Good, Authorities
<1>2. first \in U
  <2>1. first \in Pumps /\ first.auth = a
    BY <1>1, Sizes DEF Pumps
  <2> HIDE DEF first
  <2> QED BY <2>1, OnwardSame DEF Pumped
<1>3. ASSUME NEW x \in U, NEW y \in Keys PROVE UploadStep(x, y, 0, 0) \in U
  <2>1. Pumped(gen, a, UploadStep(x, y, 0, 0))
    BY UploadEffect DEF UploadStep
  <2> QED BY <2>1 DEF Pumped
<1> HIDE DEF U
<1>4. last \in U
  <2> HIDE DEF first
  <2> QED BY <1>1, <1>2, <1>3, Uploads!FoldKeeps
<1>5. PumpUploads(a) = EvictToBudget(last.auth)
  BY DEF PumpUploads, FoldLeft, MapThenFoldSet, Max, UploadStep,
         Uploads!Fold, Uploads!MapThenFoldSet, Uploads!Greatest
<1> HIDE DEF last
<1>6. Onward(gen, a, last.auth)
  BY <1>4 DEF U, Pumped
<1> DEFINE b == last.auth
<1>7. Good(b, gen) /\ b \in Authorities /\ Stored(b)
  BY <1>6 DEF Onward, Good
<1> HIDE DEF b
<1>8. Onward(gen, b, EvictToBudget(b))
  BY <1>7, BudgetEffect, GoodEvicted DEF Onward
<1> QED BY <1>5, <1>6, <1>8, OnwardTwice DEF b

(***************************************************************************)
(* The answers of the workers.                                             *)
(***************************************************************************)

Answers == [auth : Authorities, repairs : Seq(Repairs)]

\* Every payload but one that waits for its repair is awaited.
OthersHeld(a, gen, set, k) ==
  \A j \in Keys \ {k} : a.records[j].state = "RepairWaiting" =>
    \E r \in set : Awaited(r, j, gen)

Handled(gen, others, s, t) ==
  /\ t \in Answers /\ Onward(gen, s.auth, t.auth)
  /\ RepairsHeld(t.auth, gen, Range(t.repairs) \cup others)

LEMMA AppendRange ==
  ASSUME NEW V, NEW seq \in Seq(V), NEW e \in V
  PROVE  Append(seq, e) \in Seq(V) /\ Range(Append(seq, e)) = Range(seq) \cup {e}
<1>1. /\ Len(seq) \in Nat /\ DOMAIN seq = 1 .. Len(seq)
      /\ Append(seq, e) \in Seq(V) /\ Len(Append(seq, e)) = Len(seq) + 1
      /\ DOMAIN Append(seq, e) = 1 .. Len(seq) + 1
      /\ \A i \in 1 .. Len(seq) : Append(seq, e)[i] = seq[i]
      /\ Append(seq, e)[Len(seq) + 1] = e
  BY LenProperties, AppendProperties
<1> QED BY <1>1 DEF Range

\* The wait that is ended leaves the others held.
LEMMA HandledEnded ==
  ASSUME NEW gen, NEW others, NEW s \in Answers, NEW k \in Keys, NEW b,
         Ended(gen, s.auth, b, k), OthersHeld(s.auth, gen, Range(s.repairs) \cup others, k)
  PROVE  Handled(gen, others, s, [s EXCEPT !.auth = b])
<1> DEFINE t == [s EXCEPT !.auth = b]
<1>1. Onward(gen, s.auth, b) /\ b \in Authorities /\ b.records[k].state # "RepairWaiting"
  BY DEF Ended, Onward, Good
<1>2. t \in Answers /\ t.auth = b /\ t.repairs = s.repairs
  BY <1>1 DEF Answers
<1> HIDE DEF t
<1>3. RepairsHeld(b, gen, Range(s.repairs) \cup others)
  BY <1>1 DEF Onward, Later, LaterOf, RepairsHeld, OthersHeld
<1>4. Handled(gen, others, s, t)
  BY <1>1, <1>2, <1>3 DEF Handled
<1> QED BY <1>4 DEF t

LEMMA EnqueueRepairEffect ==
  ASSUME NEW gen, NEW others, NEW s \in Answers, Good(s.auth, gen), NEW request \in Repairs,
         request.job.generation = gen, s.auth.records[request.job.key].state = "RepairWaiting",
         OthersHeld(s.auth, gen, Range(s.repairs) \cup others, request.job.key)
  PROVE  Handled(gen, others, s, EnqueueRepair(s, request))
<1> DEFINE k == request.job.key
           a == s.auth
           list == s.repairs
           t == EnqueueRepair(s, request)
<1>1. /\ k \in Keys /\ request.job \in Jobs /\ request.phase \in RepairPhases
      /\ request.job \in JobsOf(gen)
  BY DEF Repairs, Jobs, JobsOf
<1>2. a \in Authorities /\ list \in Seq(Repairs) /\ Onward(gen, a, a)
  BY OnwardSame DEF Answers
<1>3. Len(list) \in Nat /\ DOMAIN list = 1 .. Len(list) /\ \A i \in 1 .. Len(list) : list[i] \in Repairs
  BY <1>2, LenProperties, ElementOfSeq
<1>4. ASSUME NEW rest \in Seq(Repairs), request \in Range(rest),
             \A q \in Range(list) : SameRepair(q, request) \/ q \in Range(rest)
      PROVE  Handled(gen, others, s, [s EXCEPT !.repairs = rest])
  <2> DEFINE u == [s EXCEPT !.repairs = rest]
  <2>1. u \in Answers /\ u.auth = a /\ u.repairs = rest
    BY <1>4 DEF Answers
  <2> HIDE DEF u
  <2>2. Awaited(request, k, gen)
    BY DEF Awaited
  <2>3. ASSUME NEW j \in Keys, a.records[j].state = "RepairWaiting"
        PROVE  \E r \in Range(rest) \cup others : Awaited(r, j, gen)
    <3>1. CASE j = k
      BY <1>4, <2>2, <3>1
    <3>2. CASE j # k
      <4>1. PICK r \in Range(list) \cup others : Awaited(r, j, gen)
        BY <2>3, <3>2 DEF OthersHeld
      <4>2. ~SameRepair(r, request)
        BY <3>2, <4>1 DEF Awaited, SameRepair
      <4>3. r \in Range(rest) \cup others
        BY <1>4, <4>1, <4>2
      <4> QED BY <4>1, <4>3
    <3> QED BY <3>1, <3>2
  <2>4. RepairsHeld(a, gen, Range(rest) \cup others)
    BY <2>3 DEF RepairsHeld
  <2>5. Handled(gen, others, s, u)
    BY <1>2, <2>1, <2>4 DEF Handled
  <2> QED BY <2>5 DEF u
<1>5. CASE \E q \in Range(list) : SameRepair(q, request)
  <2> DEFINE rest == [i \in DOMAIN list |-> IF SameRepair(list[i], request) THEN request ELSE list[i]]
  <2>1. t = [s EXCEPT !.repairs = rest]
    BY <1>5 DEF EnqueueRepair
  <2>2. rest \in Seq(Repairs)
    BY <1>3
  <2>3. DOMAIN rest = DOMAIN list
    OBVIOUS
  <2>4. \A i \in DOMAIN list : rest[i] = IF SameRepair(list[i], request) THEN request ELSE list[i]
    OBVIOUS
  <2> HIDE DEF rest, t
  <2>5. request \in Range(rest) /\ \A q \in Range(list) : SameRepair(q, request) \/ q \in Range(rest)
    BY <1>5, <2>3, <2>4 DEF Range
  <2>6. Handled(gen, others, s, t)
    BY <1>4, <2>1, <2>2, <2>5
  <2> QED BY <2>6 DEF t
<1>6. CASE /\ \A q \in Range(list) : ~SameRepair(q, request)
           /\ Len(list) < RepairCapacity
  <2> DEFINE rest == Append(list, request)
  <2>1. t = [s EXCEPT !.repairs = rest]
    BY <1>6 DEF EnqueueRepair
  <2>2. rest \in Seq(Repairs) /\ Range(rest) = Range(list) \cup {request}
    BY <1>2, AppendRange
  <2> HIDE DEF rest, t
  <2>3. Handled(gen, others, s, t)
    BY <1>4, <2>1, <2>2
  <2> QED BY <2>3 DEF t
<1>7. CASE /\ \A q \in Range(list) : ~SameRepair(q, request)
           /\ ~(Len(list) < RepairCapacity)
  <2> DEFINE b == IF CanEnqueue(a, k) THEN RequeueRepairWaiting(a, request.job, request.phase)
                  ELSE RejectRepair(a, request.job)
  <2>1. t = [s EXCEPT !.auth = b]
    BY <1>7 DEF EnqueueRepair
  <2>2. Ended(gen, a, b, k)
    BY <1>1, RequeueEffect, RejectRepairEffect
  <2> HIDE DEF b, t
  <2>3. Handled(gen, others, s, t)
    BY <1>1, <2>1, <2>2, HandledEnded
  <2> QED BY <2>3 DEF t
<1> QED BY <1>5, <1>6, <1>7

LEMMA RetryCachedLoadEffect ==
  ASSUME NEW gen, NEW others, NEW s \in Answers, Good(s.auth, gen), NEW job \in JobsOf(gen),
         s.auth.records[job.key].state = "RepairWaiting",
         OthersHeld(s.auth, gen, Range(s.repairs) \cup others, job.key)
  PROVE  Handled(gen, others, s, RetryCachedLoad(s, job))
<1> DEFINE k == job.key
           request == [job |-> job, phase |-> "CacheReady"]
           t == RetryCachedLoad(s, job)
<1>1. /\ k \in Keys /\ job \in Jobs /\ job.generation = gen /\ "CacheReady" \in RepairPhases
      /\ request \in Repairs /\ request.job = job
  BY DEF Jobs, JobsOf, Repairs, RepairPhases
<1>2. CASE CanEnqueue(s.auth, k)
  <2> DEFINE b == RequeueRepairWaiting(s.auth, job, "CacheReady")
  <2>1. t = [s EXCEPT !.auth = b]
    BY <1>2 DEF RetryCachedLoad
  <2>2. Ended(gen, s.auth, b, k)
    BY <1>1, RequeueEffect
  <2> HIDE DEF b, t
  <2>3. Handled(gen, others, s, t)
    BY <1>1, <2>1, <2>2, HandledEnded
  <2> QED BY <2>3 DEF t
<1>3. CASE ~CanEnqueue(s.auth, k)
  <2>1. t = EnqueueRepair(s, request)
    BY <1>3 DEF RetryCachedLoad
  <2> HIDE DEF request, t
  <2>2. Handled(gen, others, s, t)
    BY <1>1, <2>1, EnqueueRepairEffect
  <2> QED BY <2>2 DEF t
<1> QED BY <1>2, <1>3

LEMMA RepairedEffect ==
  ASSUME NEW gen \in Nat, gen = generation, NEW others, NEW s \in Answers, Good(s.auth, gen),
         NEW done \in Repairs, NEW result \in Outcomes,
         RepairsHeld(s.auth, gen, Range(s.repairs) \cup (others \cup {done}))
  PROVE  Handled(gen, others, s, Repaired(s, done, result))
<1> DEFINE job == done.job
           k == job.key
           a == s.auth
           t == Repaired(s, done, result)
           lookup == [job |-> job, phase |-> "NeedProjectLookup"]
           scene == [lookup EXCEPT !.phase = "NeedScenePayload"]
           again == [lookup EXCEPT !.phase = done.phase]
<1>1. k \in Keys /\ job \in Jobs /\ done.phase \in RepairPhases
  BY DEF Repairs, Jobs
<1>2. CASE ~RepairWaitingIsCurrent(a, job)
  <2>1. t = s
    BY <1>2 DEF Repaired
  <2> HIDE DEF t
  <2>2. RepairsHeld(a, gen, Range(s.repairs) \cup others)
    <3> SUFFICES ASSUME NEW j \in Keys, a.records[j].state = "RepairWaiting"
                 PROVE  \E r \in Range(s.repairs) \cup others : Awaited(r, j, gen)
      BY DEF RepairsHeld
    <3>1. PICK r \in Range(s.repairs) \cup (others \cup {done}) : Awaited(r, j, gen)
      BY DEF RepairsHeld
    <3>2. r # done
      BY <1>2, <3>1 DEF Awaited, RepairWaitingIsCurrent
    <3> QED BY <3>1, <3>2
  <2>3. Handled(gen, others, s, t)
    BY <2>1, <2>2, OnwardSame DEF Handled
  <2> QED BY <2>3 DEF t
<1>3. CASE RepairWaitingIsCurrent(a, job)
  <2>1. job.generation = gen /\ a.records[k].state = "RepairWaiting" /\ job \in JobsOf(gen)
    BY <1>1, <1>3 DEF RepairWaitingIsCurrent, JobsOf
  <2>2. /\ lookup \in Repairs /\ lookup.job = job
        /\ scene \in Repairs /\ scene.job = job
        /\ again \in Repairs /\ again.job = job
    BY <1>1 DEF Repairs, RepairPhases
  <2>3. OthersHeld(a, gen, Range(s.repairs) \cup others, k)
    <3> SUFFICES ASSUME NEW j \in Keys \ {k}, a.records[j].state = "RepairWaiting"
                 PROVE  \E r \in Range(s.repairs) \cup others : Awaited(r, j, gen)
      BY DEF OthersHeld
    <3>1. PICK r \in Range(s.repairs) \cup (others \cup {done}) : Awaited(r, j, gen)
      BY DEF RepairsHeld
    <3>2. r # done
      BY <3>1 DEF Awaited
    <3> QED BY <3>1, <3>2
  <2>4. t = CASE result = "Repaired" -> RetryCachedLoad(s, job)
              [] result = "Pending"  -> EnqueueRepair(s, lookup)
              [] result = "Missing"  -> EnqueueRepair(s, scene)
              [] result = "NotOwned" -> [s EXCEPT !.auth = SuppressRepair(@, job)]
              [] result = "Waiting"  -> EnqueueRepair(s, again)
              [] result = "Error"    -> [s EXCEPT !.auth = RejectRepair(@, job)]
    BY <1>3 DEF Repaired
  <2> HIDE DEF t, lookup, scene, again, k, job
  <2> DEFINE b == SuppressRepair(a, job)
             c == RejectRepair(a, job)
  <2>5. Ended(gen, a, b, k) /\ Ended(gen, a, c, k)
    BY <1>1, <2>1, SuppressRepairEffect, RejectRepairEffect DEF k
  <2> HIDE DEF b, c
  <2>6. Handled(gen, others, s, [s EXCEPT !.auth = b]) /\ Handled(gen, others, s, [s EXCEPT !.auth = c])
    BY <1>1, <2>3, <2>5, HandledEnded
  <2>7. /\ Handled(gen, others, s, EnqueueRepair(s, lookup))
        /\ Handled(gen, others, s, EnqueueRepair(s, scene))
        /\ Handled(gen, others, s, EnqueueRepair(s, again))
    BY <2>1, <2>2, <2>3, EnqueueRepairEffect DEF k
  <2>8. Handled(gen, others, s, RetryCachedLoad(s, job))
    BY <2>1, <2>3, RetryCachedLoadEffect DEF k
  <2>9. \/ t = RetryCachedLoad(s, job) \/ t = EnqueueRepair(s, lookup)
        \/ t = EnqueueRepair(s, scene) \/ t = EnqueueRepair(s, again)
        \/ t = [s EXCEPT !.auth = b] \/ t = [s EXCEPT !.auth = c]
    BY <2>4 DEF Outcomes, b, c
  <2>10. Handled(gen, others, s, t)
    BY <2>6, <2>7, <2>8, <2>9
  <2> QED BY <2>10 DEF t, k, job
<1> QED BY <1>2, <1>3

\* The elements of a sequence after a place.
After(seq, i) == {seq[j] : j \in {j \in DOMAIN seq : j > i}}

LEMMA AfterOf ==
  ASSUME NEW V, NEW seq \in Seq(V)
  PROVE  /\ Len(seq) \in Nat /\ DOMAIN seq = 1 .. Len(seq)
         /\ After(seq, 0) = Range(seq) /\ After(seq, Len(seq)) = {}
         /\ \A i \in 1 .. Len(seq) : seq[i] \in V /\ After(seq, i - 1) = After(seq, i) \cup {seq[i]}
<1>1. /\ Len(seq) \in Nat /\ DOMAIN seq = 1 .. Len(seq)
      /\ \A i \in 1 .. Len(seq) : seq[i] \in V
  BY LenProperties, ElementOfSeq
<1>2. After(seq, 0) = Range(seq) /\ After(seq, Len(seq)) = {}
  <2>1. {j \in DOMAIN seq : j > 0} = DOMAIN seq /\ {j \in DOMAIN seq : j > Len(seq)} = {}
    BY <1>1
  <2> QED BY <2>1 DEF After, Range
<1>3. ASSUME NEW i \in 1 .. Len(seq)
      PROVE  After(seq, i - 1) = After(seq, i) \cup {seq[i]}
  <2>1. {j \in DOMAIN seq : j > i - 1} = {j \in DOMAIN seq : j > i} \cup {i}
    BY <1>1
  <2> QED BY <2>1 DEF After
<1> QED BY <1>1, <1>2, <1>3

LEMMA PlacesOf ==
  ASSUME NEW V, NEW seq \in Seq(V)
  PROVE  LET places == [i \in DOMAIN seq |-> i] IN
           /\ places \in Seq(Nat) /\ Len(places) = Len(seq)
           /\ \A i \in 1 .. Len(seq) : places[i] = i
<1>1. Len(seq) \in Nat /\ DOMAIN seq = 1 .. Len(seq)
  BY LenProperties
<1> DEFINE places == [i \in 1 .. Len(seq) |-> i]
<1>2. places \in Seq(Nat) /\ Len(places) = Len(seq)
  BY <1>1
<1> QED BY <1>1, <1>2

RepairedStep(s, i, results, q) == Repaired(s, persisted[i], results[i])
Repairings == INSTANCE FoldTheorems WITH Op <- RepairedStep

DrainedPersisted(results) ==
  FoldLeft(LAMBDA b, i : Repaired(b, persisted[i], results[i]),
           [auth |-> auth, repairs |-> repairs], [i \in DOMAIN persisted |-> i])

LEMMA DrainPersistedEffect ==
  ASSUME NEW gen \in Nat, gen = generation, Good(auth, gen), repairs \in Seq(Repairs),
         persisted \in Seq(Repairs), NEW others,
         RepairsHeld(auth, gen, Range(repairs) \cup (others \cup Range(persisted))),
         NEW results \in [DOMAIN persisted -> Outcomes]
  PROVE  Handled(gen, others, [auth |-> auth, repairs |-> repairs], DrainedPersisted(results))
<1> DEFINE first == [auth |-> auth, repairs |-> repairs]
           places == [i \in DOMAIN persisted |-> i]
           n == Len(persisted)
           G == [i \in 0 .. n |-> {s \in Answers : Handled(gen, others \cup After(persisted, i), first, s)}]
           last == Repairings!Fold(first, places, results, 0)
<1>1. /\ n \in Nat /\ DOMAIN persisted = 1 .. n
      /\ After(persisted, 0) = Range(persisted) /\ After(persisted, n) = {}
      /\ \A i \in 1 .. n : /\ persisted[i] \in Repairs
                           /\ After(persisted, i - 1) = After(persisted, i) \cup {persisted[i]}
  BY AfterOf
<1>2. first \in Answers /\ first.auth = auth /\ first.repairs = repairs
  BY DEF Good, Answers
<1>3. places \in Seq(Nat) /\ Len(places) = n /\ \A i \in 1 .. n : places[i] = i
  BY PlacesOf
<1> HIDE DEF first, places, n
<1>4. first \in G[0]
  <2>1. Handled(gen, others \cup After(persisted, 0), first, first)
    BY <1>1, <1>2, OnwardSame DEF Handled
  <2> QED BY <1>1, <1>2, <2>1
<1>5. ASSUME NEW i \in 1 .. n, NEW s \in G[i - 1]
      PROVE  RepairedStep(s, places[i], results, 0) \in G[i]
  <2> DEFINE t == RepairedStep(s, places[i], results, 0)
             rest == others \cup After(persisted, i)
  <2>1. i \in 0 .. n /\ i - 1 \in 0 .. n /\ places[i] = i
    BY <1>1, <1>3
  <2>2. s \in Answers /\ Handled(gen, others \cup After(persisted, i - 1), first, s)
    BY <2>1
  <2>3. Onward(gen, first.auth, s.auth) /\ Good(s.auth, gen)
    BY <2>2 DEF Handled, Onward
  <2>4. RepairsHeld(s.auth, gen, Range(s.repairs) \cup (rest \cup {persisted[i]}))
    <3>1. others \cup After(persisted, i - 1) = rest \cup {persisted[i]}
      BY <1>1
    <3> HIDE DEF rest
    <3> QED BY <2>2, <3>1 DEF Handled
  <2>5. persisted[i] \in Repairs /\ results[i] \in Outcomes
    BY <1>1
  <2> HIDE DEF rest
  <2>6. Handled(gen, rest, s, t)
    BY <2>1, <2>2, <2>3, <2>4, <2>5, RepairedEffect DEF RepairedStep
  <2> HIDE DEF t
  <2>7. Handled(gen, rest, first, t)
    BY <2>3, <2>6, OnwardTwice DEF Handled
  <2>8. t \in Answers
    BY <2>6 DEF Handled
  <2> QED BY <2>1, <2>7, <2>8 DEF rest, t
<1>6. last \in G[n]
  <2> HIDE DEF G
  <2> QED BY <1>3, <1>4, <1>5, Repairings!FoldReaches
<1>7. DrainedPersisted(results) = last
  BY DEF DrainedPersisted, FoldLeft, MapThenFoldSet, Max, RepairedStep, first, places,
         Repairings!Fold, Repairings!MapThenFoldSet, Repairings!Greatest
<1> HIDE DEF last
<1>8. Handled(gen, others \cup After(persisted, n), first, last)
  <2>1. n \in 0 .. n
    BY <1>1
  <2>2. G[n] = {s \in Answers : Handled(gen, others \cup After(persisted, n), first, s)}
    BY <2>1
  <2> HIDE DEF G
  <2> QED BY <1>6, <2>2
<1>9. others \cup After(persisted, n) = others
  BY <1>1
<1> QED BY <1>7, <1>8, <1>9 DEF first

(***************************************************************************)
(* The requests for repairs.                                               *)
(***************************************************************************)

LEMMA HeadTailRange ==
  ASSUME NEW V, NEW seq \in Seq(V), seq # <<>>
  PROVE  /\ Head(seq) \in V /\ Tail(seq) \in Seq(V) /\ Head(seq) \in Range(seq)
         /\ Range(seq) = Range(Tail(seq)) \cup {Head(seq)}
<1>1. /\ Len(seq) \in Nat /\ Len(seq) >= 1 /\ DOMAIN seq = 1 .. Len(seq)
      /\ \A i \in 1 .. Len(seq) : seq[i] \in V
  BY LenProperties, ElementOfSeq, EmptySeq
<1>2. Head(seq) = seq[1] /\ Head(seq) \in V
  BY TailThins
<1>3. /\ Tail(seq) \in Seq(V) /\ Len(Tail(seq)) = Len(seq) - 1
      /\ \A i \in 1 .. Len(Tail(seq)) : Tail(seq)[i] = seq[i + 1]
  BY HeadTailProperties
<1>4. DOMAIN Tail(seq) = 1 .. Len(seq) - 1
  BY <1>3, LenProperties
<1>5. \A i \in 2 .. Len(seq) : i - 1 \in DOMAIN Tail(seq) /\ Tail(seq)[i - 1] = seq[i]
  BY <1>1, <1>3, <1>4
<1>6. \A i \in DOMAIN Tail(seq) : i + 1 \in DOMAIN seq /\ Tail(seq)[i] = seq[i + 1]
  BY <1>1, <1>3, <1>4
<1>7. \A i \in DOMAIN seq : i = 1 \/ i \in 2 .. Len(seq)
  BY <1>1
<1>8. 1 \in DOMAIN seq
  BY <1>1
<1> DEFINE tail == Tail(seq)
           h == Head(seq)
<1> HIDE DEF tail, h
<1>9. Range(seq) \subseteq Range(tail) \cup {h}
  <2> SUFFICES ASSUME NEW i \in DOMAIN seq PROVE seq[i] \in Range(tail) \cup {h}
    BY DEF Range
  <2>1. CASE i = 1
    BY <1>2, <2>1 DEF h
  <2>2. CASE i \in 2 .. Len(seq)
    <3>1. i - 1 \in DOMAIN tail /\ tail[i - 1] = seq[i]
      BY <1>5, <2>2 DEF tail
    <3> QED BY <3>1 DEF Range
  <2> QED BY <1>7, <2>1, <2>2
<1>10. Range(tail) \cup {h} \subseteq Range(seq)
  <2>1. h \in Range(seq)
    BY <1>2, <1>8 DEF Range, h
  <2>2. \A i \in DOMAIN tail : tail[i] \in Range(seq)
    BY <1>6 DEF Range, tail
  <2> QED BY <2>1, <2>2 DEF Range
<1> QED BY <1>2, <1>3, <1>9, <1>10 DEF tail, h

Processes == [auth : Authorities, repairs : Seq(Repairs), works : Seq(Repairs), done : BOOLEAN]

Processed(gen, others, a, s) ==
  /\ s \in Processes /\ Onward(gen, a, s.auth) /\ Range(s.repairs) \subseteq Range(repairs)
  /\ RepairsHeld(s.auth, gen, Range(s.repairs) \cup Range(s.works) \cup others)

LEMMA ProcessEffect ==
  ASSUME NEW gen \in Nat, gen = generation, repairs \in Seq(Repairs), NEW others, NEW a, NEW s,
         Processed(gen, others, a, s), NEW path \in Paths(repairs), NEW turn
  PROVE  Processed(gen, others, a, Process(s, turn, path))
<1> DEFINE request == Head(s.repairs)
           job == request.job
           k == job.key
           tail == Tail(s.repairs)
           b == s.auth
           rest == [s EXCEPT !.repairs = tail]
           back == [rest EXCEPT !.repairs = Append(@, request)]
           sent == IF Len(s.works) < PersistenceCapacity
                     THEN [rest EXCEPT !.works = Append(@, request), !.done = TRUE]
                     ELSE [back EXCEPT !.done = TRUE]
           t == Process(s, turn, path)
<1>1. /\ s \in Processes /\ b \in Authorities /\ s.repairs \in Seq(Repairs)
      /\ s.works \in Seq(Repairs) /\ s.done \in BOOLEAN
      /\ Onward(gen, a, b) /\ Good(b, gen) /\ Range(s.repairs) \subseteq Range(repairs)
      /\ RepairsHeld(b, gen, Range(s.repairs) \cup Range(s.works) \cup others)
  BY DEF Processed, Processes, Onward
<1>2. CASE s.done \/ s.repairs = <<>>
  <2>1. t = s
    BY <1>2 DEF Process
  <2> QED BY <2>1
<1>3. CASE ~(s.done \/ s.repairs = <<>>)
  <2>1. /\ request \in Repairs /\ tail \in Seq(Repairs) /\ request \in Range(s.repairs)
        /\ Range(s.repairs) = Range(tail) \cup {request}
    BY <1>1, <1>3, HeadTailRange
  <2>2. k \in Keys /\ job \in Jobs
    BY <2>1 DEF Repairs, Jobs
  <2>3. path[k] \in {"Ready", "Waiting", "Rejected", "Error"}
    BY <1>1, <2>1 DEF Paths
  <2>4. t = CASE ~RepairWaitingIsCurrent(b, job) -> rest
              [] OTHER ->
                   IF request.phase # "NeedScenePayload" \/ path[k] = "Ready" THEN sent
                   ELSE CASE path[k] = "Waiting"  -> back
                          [] path[k] = "Rejected" ->
                               [rest EXCEPT !.auth = SuppressRepair(@, job)]
                          [] path[k] = "Error"    -> [rest EXCEPT !.auth = RejectRepair(@, job)]
    <3> DEFINE then == IF request.phase # "NeedScenePayload" \/ path[k] = "Ready" THEN sent
                       ELSE CASE path[k] = "Waiting"  -> back
                              [] path[k] = "Rejected" ->
                                   [rest EXCEPT !.auth = SuppressRepair(@, job)]
                              [] path[k] = "Error"    -> [rest EXCEPT !.auth = RejectRepair(@, job)]
               over == s.done \/ s.repairs = <<>>
    <3>1. t = CASE over -> s
                [] ~over /\ ~RepairWaitingIsCurrent(b, job) -> rest
                [] OTHER -> then
      BY DEF Process
    <3> HIDE DEF then, t, rest
    <3>2. t = CASE ~RepairWaitingIsCurrent(b, job) -> rest [] OTHER -> then
      BY <1>3, <3>1
    <3> QED BY <3>2 DEF then, rest, t
  <2> HIDE DEF request, tail, t
  <2>5. /\ rest \in Processes /\ rest.auth = b /\ rest.repairs = tail /\ rest.works = s.works
        /\ rest.done = s.done
    BY <1>1, <2>1 DEF Processes
  <2>6. /\ Append(tail, request) \in Seq(Repairs)
        /\ Range(Append(tail, request)) = Range(s.repairs)
        /\ Append(s.works, request) \in Seq(Repairs)
        /\ Range(Append(s.works, request)) = Range(s.works) \cup {request}
    BY <1>1, <2>1, AppendRange
  <2> HIDE DEF rest
  <2> DEFINE more == Append(tail, request)
             works1 == Append(s.works, request)
  <2> HIDE DEF more, works1
  <2>7. ASSUME NEW u \in Processes, u.auth = b, Range(u.repairs) \subseteq Range(s.repairs),
               Range(s.repairs) \cup Range(s.works) \subseteq Range(u.repairs) \cup Range(u.works)
        PROVE  Processed(gen, others, a, u)
    <3>1. RepairsHeld(b, gen, Range(u.repairs) \cup Range(u.works) \cup others)
      <4> DEFINE old == Range(s.repairs) \cup Range(s.works) \cup others
                 new == Range(u.repairs) \cup Range(u.works) \cup others
      <4>1. old \subseteq new
        BY <2>7
      <4>2. RepairsHeld(b, gen, old)
        BY <1>1
      <4> HIDE DEF old, new
      <4>3. RepairsHeld(b, gen, new)
        BY <4>1, <4>2 DEF RepairsHeld
      <4> QED BY <4>3 DEF new
    <3> QED BY <1>1, <2>7, <3>1 DEF Processed
  <2>8. /\ back \in Processes /\ back.auth = b /\ back.repairs = more /\ back.works = s.works
    BY <2>5, <2>6 DEF Processes, more
  <2>9. sent \in Processes /\ sent.auth = b
          /\ \/ sent.repairs = tail /\ sent.works = works1
             \/ sent.repairs = more /\ sent.works = s.works
    <3>1. CASE Len(s.works) < PersistenceCapacity
      <4>1. sent = [rest EXCEPT !.works = works1, !.done = TRUE]
        BY <2>5, <3>1 DEF works1
      <4>2. works1 \in Seq(Repairs)
        BY <2>6 DEF works1
      <4> HIDE DEF sent
      <4> QED BY <2>5, <4>1, <4>2 DEF Processes
    <3>2. CASE ~(Len(s.works) < PersistenceCapacity)
      <4>1. sent = [back EXCEPT !.done = TRUE]
        BY <3>2
      <4> HIDE DEF sent, back
      <4> QED BY <2>8, <4>1 DEF Processes
    <3> QED BY <3>1, <3>2
  <2>10. Range(more) = Range(s.repairs) /\ Range(works1) = Range(s.works) \cup {request}
    BY <2>6 DEF more, works1
  <2> HIDE DEF back, sent
  <2>11. CASE ~RepairWaitingIsCurrent(b, job)
    <3>1. t = rest
      BY <2>4, <2>11
    <3>2. RepairsHeld(b, gen, Range(tail) \cup Range(s.works) \cup others)
      <4> SUFFICES ASSUME NEW j \in Keys, b.records[j].state = "RepairWaiting"
                   PROVE  \E r \in Range(tail) \cup Range(s.works) \cup others : Awaited(r, j, gen)
        BY DEF RepairsHeld
      <4>1. PICK r \in Range(s.repairs) \cup Range(s.works) \cup others : Awaited(r, j, gen)
        BY <1>1 DEF RepairsHeld
      <4>2. r # request
        BY <2>11, <4>1 DEF Awaited, RepairWaitingIsCurrent
      <4> QED BY <2>1, <4>1, <4>2
    <3>3. Processed(gen, others, a, rest)
      BY <1>1, <2>1, <2>5, <3>2 DEF Processed
    <3> QED BY <3>1, <3>3 DEF t
  <2>12. CASE /\ RepairWaitingIsCurrent(b, job)
              /\ request.phase # "NeedScenePayload" \/ path[k] = "Ready"
    <3>1. t = sent
      BY <2>4, <2>12
    <3>2. Processed(gen, others, a, sent)
      BY <2>1, <2>7, <2>9, <2>10
    <3> QED BY <3>1, <3>2 DEF t
  <2>13. CASE /\ RepairWaitingIsCurrent(b, job)
              /\ ~(request.phase # "NeedScenePayload" \/ path[k] = "Ready")
    <3> DEFINE c == SuppressRepair(b, job)
               d == RejectRepair(b, job)
    <3>1. b.records[k].state = "RepairWaiting" /\ job.generation = gen
      BY <2>13 DEF RepairWaitingIsCurrent
    <3>2. Ended(gen, b, c, k) /\ Ended(gen, b, d, k)
      BY <1>1, <2>2, <3>1, SuppressRepairEffect, RejectRepairEffect
    <3>3. t = back \/ t = [rest EXCEPT !.auth = c] \/ t = [rest EXCEPT !.auth = d]
      BY <2>3, <2>4, <2>5, <2>13
    <3> HIDE DEF c, d, k, job
    <3>4. ASSUME NEW e, Ended(gen, b, e, k)
          PROVE  Processed(gen, others, a, [rest EXCEPT !.auth = e])
      <4> DEFINE u == [rest EXCEPT !.auth = e]
      <4>1. Onward(gen, b, e) /\ e.records[k].state # "RepairWaiting" /\ e \in Authorities
        BY <3>4 DEF Ended, Onward, Good
      <4>2. u \in Processes /\ u.auth = e /\ u.repairs = tail /\ u.works = s.works
        BY <2>5, <4>1 DEF Processes
      <4> HIDE DEF u
      <4>3. RepairsHeld(e, gen, Range(tail) \cup Range(s.works) \cup others)
        <5> SUFFICES ASSUME NEW j \in Keys, e.records[j].state = "RepairWaiting"
                     PROVE  \E r \in Range(tail) \cup Range(s.works) \cup others : Awaited(r, j, gen)
          BY DEF RepairsHeld
        <5>1. j # k /\ b.records[j].state = "RepairWaiting"
          BY <4>1 DEF Onward, Later, LaterOf
        <5>2. PICK r \in Range(s.repairs) \cup Range(s.works) \cup others : Awaited(r, j, gen)
          BY <1>1, <5>1 DEF RepairsHeld
        <5>3. r # request
          BY <5>1, <5>2 DEF Awaited, k, job
        <5> QED BY <2>1, <5>2, <5>3
      <4>4. Onward(gen, a, e)
        BY <1>1, <4>1, OnwardTwice
      <4>5. Processed(gen, others, a, u)
        BY <1>1, <2>1, <4>2, <4>3, <4>4 DEF Processed
      <4> QED BY <4>5 DEF u
    <3>5. Processed(gen, others, a, back)
      BY <2>7, <2>8, <2>10
    <3>6. Processed(gen, others, a, t)
      <4>1. CASE t = back
        BY <3>5, <4>1
      <4>2. CASE t = [rest EXCEPT !.auth = c]
        <5>1. Processed(gen, others, a, [rest EXCEPT !.auth = c])
          BY <3>2, <3>4
        <5> QED BY <4>2, <5>1
      <4>3. CASE t = [rest EXCEPT !.auth = d]
        <5>1. Processed(gen, others, a, [rest EXCEPT !.auth = d])
          BY <3>2, <3>4
        <5> QED BY <4>3, <5>1
      <4> QED BY <3>3, <4>1, <4>2, <4>3
    <3> QED BY <3>6 DEF t
  <2> QED BY <2>11, <2>12, <2>13
<1> QED BY <1>2, <1>3

ProcessStep(s, turn, path, q) == Process(s, turn, path)
Processings == INSTANCE FoldTheorems WITH Op <- ProcessStep

ProcessedRepairs(path) ==
  FoldLeft(LAMBDA b, turn : Process(b, turn, path),
           [auth |-> auth, repairs |-> repairs, works |-> works, done |-> FALSE], repairs)

LEMMA ProcessRepairsEffect ==
  ASSUME NEW gen \in Nat, gen = generation, Good(auth, gen), repairs \in Seq(Repairs),
         works \in Seq(Repairs), NEW others,
         RepairsHeld(auth, gen, Range(repairs) \cup Range(works) \cup others),
         NEW path \in Paths(repairs)
  PROVE  Processed(gen, others, auth, ProcessedRepairs(path))
<1> DEFINE first == [auth |-> auth, repairs |-> repairs, works |-> works, done |-> FALSE]
           U == {s \in Processes : Processed(gen, others, auth, s)}
           last == Processings!Fold(first, repairs, path, 0)
<1>1. first \in Processes /\ first.auth = auth /\ first.repairs = repairs /\ first.works = works
  BY DEF Good, Processes
<1>2. first \in U
  <2> HIDE DEF first
  <2> QED BY <1>1, OnwardSame DEF Processed
<1>3. ASSUME NEW x \in U, NEW y \in Repairs PROVE ProcessStep(x, y, path, 0) \in U
  <2>1. Processed(gen, others, auth, ProcessStep(x, y, path, 0))
    BY ProcessEffect DEF ProcessStep
  <2> QED BY <2>1 DEF Processed
<1> HIDE DEF U
<1>4. last \in U
  <2> HIDE DEF first
  <2> QED BY <1>2, <1>3, Processings!FoldKeeps
<1>5. ProcessedRepairs(path) = last
  BY DEF ProcessedRepairs, FoldLeft, MapThenFoldSet, Max, ProcessStep,
         Processings!Fold, Processings!MapThenFoldSet, Processings!Greatest
<1> HIDE DEF last
<1> QED BY <1>4, <1>5 DEF U

(***************************************************************************)
(* The completions of the loads.                                           *)
(***************************************************************************)

Answered(gen, others, k, s, t) ==
  /\ t \in Answers /\ Resolved(gen, s.auth, t.auth, k)
  /\ RepairsHeld(t.auth, gen, Range(t.repairs) \cup others)

LEMMA EnqueueMissingRepairEffect ==
  ASSUME NEW gen, NEW others, NEW s \in Answers, Good(s.auth, gen), NEW job \in JobsOf(gen),
         s.auth.records[job.key].flight # {}, NEW path,
         RepairsHeld(s.auth, gen, Range(s.repairs) \cup others)
  PROVE  Answered(gen, others, job.key, s, EnqueueMissingRepair(s, job, path))
<1> DEFINE a == s.auth
           k == job.key
           v == WaitForRepair(a, job)
           w == [v EXCEPT !.phases[k] = "NeedScenePayload"]
           waits == [s EXCEPT !.auth = w]
           scene == [job |-> job, phase |-> "NeedScenePayload"]
           lookup == [job |-> job, phase |-> "NeedProjectLookup"]
           t == EnqueueMissingRepair(s, job, path)
<1>1. /\ k \in Keys /\ job \in Jobs /\ job.generation = gen
      /\ scene \in Repairs /\ scene.job = job /\ lookup \in Repairs /\ lookup.job = job
  BY DEF Jobs, JobsOf, Repairs, RepairPhases
<1>2. Resolved(gen, a, v, k) /\ v.records[k].state = "RepairWaiting"
  BY <1>1, WaitForRepairEffect
<1>3. t \in {[waits EXCEPT !.auth = SuppressRepair(w, job)],
             [waits EXCEPT !.auth = RejectRepair(w, job)],
             EnqueueRepair(waits, scene), EnqueueRepair(waits, lookup)}
  <2> DEFINE before == s.auth.phases[k]
  <2>1. t = CASE before = "NeedScenePayload" /\ path[k] = "Rejected" ->
                   [waits EXCEPT !.auth = SuppressRepair(@, job)]
              [] before = "NeedScenePayload" /\ path[k] = "Error" ->
                   [waits EXCEPT !.auth = RejectRepair(@, job)]
              [] before = "NeedScenePayload" /\ path[k] \in {"Ready", "Waiting"} ->
                   EnqueueRepair(waits, scene)
              [] OTHER -> EnqueueRepair(waits, lookup)
    BY DEF EnqueueMissingRepair
  <2>2. waits.auth = w
    BY DEF Answers
  <2> HIDE DEF t, waits, w, v, k, scene, lookup
  <2>3. CASE before = "NeedScenePayload" /\ path[k] = "Rejected"
    BY <2>1, <2>2, <2>3
  <2>4. CASE before = "NeedScenePayload" /\ path[k] = "Error"
    BY <2>1, <2>2, <2>4
  <2>5. CASE before = "NeedScenePayload" /\ path[k] \in {"Ready", "Waiting"}
    BY <2>1, <2>5
  <2>6. CASE ~(before = "NeedScenePayload" /\ path[k] \in {"Ready", "Waiting", "Rejected", "Error"})
    BY <2>1, <2>6
  <2> QED BY <2>3, <2>4, <2>5, <2>6
<1> HIDE DEF v, t, scene, lookup
<1>4. Good(v, gen) /\ v \in Authorities
  BY <1>2 DEF Resolved, Good
<1>5. Onward(gen, v, w) /\ w.records = v.records
  <2>1. w.records = v.records
    BY <1>4 DEF Authorities
  <2> QED BY <1>1, <1>4, <2>1, PhaseEffect DEF RepairPhases
<1> HIDE DEF w, k
<1>6. Resolved(gen, a, w, k) /\ w.records[k].state = "RepairWaiting" /\ w \in Authorities
        /\ Good(w, gen)
  BY <1>1, <1>2, <1>5, ResolvedOnward DEF Onward, Good
<1>7. waits \in Answers /\ waits.auth = w /\ waits.repairs = s.repairs
  BY <1>6 DEF Answers
<1> HIDE DEF waits
<1>8. OthersHeld(w, gen, Range(waits.repairs) \cup others, k)
  <2> SUFFICES ASSUME NEW j \in Keys \ {k}, w.records[j].state = "RepairWaiting"
               PROVE  \E r \in Range(s.repairs) \cup others : Awaited(r, j, gen)
    BY <1>7 DEF OthersHeld
  <2>1. a.records[j].state = "RepairWaiting"
    BY <1>6 DEF Resolved, LaterOf
  <2> QED BY <2>1 DEF RepairsHeld
<1>9. Handled(gen, others, waits, t)
  <2>1. Ended(gen, w, SuppressRepair(w, job), k) /\ Ended(gen, w, RejectRepair(w, job), k)
    BY <1>1, <1>6, SuppressRepairEffect, RejectRepairEffect DEF k
  <2>2. Handled(gen, others, waits, [waits EXCEPT !.auth = SuppressRepair(w, job)])
    BY <1>1, <1>7, <1>8, <2>1, HandledEnded
  <2>3. Handled(gen, others, waits, [waits EXCEPT !.auth = RejectRepair(w, job)])
    BY <1>1, <1>7, <1>8, <2>1, HandledEnded
  <2>4. Handled(gen, others, waits, EnqueueRepair(waits, scene))
    BY <1>1, <1>6, <1>7, <1>8, EnqueueRepairEffect DEF k
  <2>5. Handled(gen, others, waits, EnqueueRepair(waits, lookup))
    BY <1>1, <1>6, <1>7, <1>8, EnqueueRepairEffect DEF k
  <2> QED BY <1>3, <2>2, <2>3, <2>4, <2>5
<1>10. Answered(gen, others, k, s, t)
  <2>1. Onward(gen, w, t.auth) /\ t \in Answers
          /\ RepairsHeld(t.auth, gen, Range(t.repairs) \cup others)
    BY <1>7, <1>9 DEF Handled
  <2>2. Resolved(gen, a, t.auth, k)
    BY <1>1, <1>6, <2>1, ResolvedOnward
  <2> QED BY <2>1, <2>2 DEF Answered
<1> QED BY <1>10 DEF t, k

Completed(gen, others, coming, t) ==
  /\ t \in Answers /\ Good(t.auth, gen)
  /\ RepairsHeld(t.auth, gen, Range(t.repairs) \cup others)
  /\ LoadsHeld(t.auth, gen, coming)

LEMMA CompletionEffect ==
  ASSUME NEW gen \in Nat, gen = generation, NEW others, NEW coming, NEW done \in Loads, NEW s,
         Completed(gen, others, coming \cup {done}, s), NEW result \in Results, NEW path
  PROVE  Completed(gen, others, coming, Completion(s, done, result, path))
<1> DEFINE job == done.job
           k == job.key
           a == s.auth
           b == [a EXCEPT !.phases[k] = "NeedScenePayload"]
           t == Completion(s, done, result, path)
<1>1. /\ k \in Keys /\ job \in Jobs /\ s \in Answers /\ Good(a, gen) /\ a \in Authorities
      /\ RepairsHeld(a, gen, Range(s.repairs) \cup others)
      /\ LoadsHeld(a, gen, coming \cup {done})
  BY DEF Loads, Jobs, Completed, Good
<1> HIDE DEF t
<1>2. ASSUME NEW c, Onward(gen, a, c),
             ~(/\ job.generation = gen /\ done.mask # {}
               /\ done.mask \subseteq a.records[k].flight),
             t = [s EXCEPT !.auth = c]
      PROVE  Completed(gen, others, coming, t)
  <2>1. t \in Answers /\ t.auth = c /\ t.repairs = s.repairs /\ Good(c, gen) /\ Later(a, c)
    BY <1>1, <1>2 DEF Answers, Onward, Good
  <2>2. LoadsHeld(a, gen, coming)
    <3> SUFFICES ASSUME NEW j \in Keys \ a.failed, a.records[j].state = "Loading",
                        a.records[j].flight # {"geometry"}
                 PROVE  \E r \in coming : /\ Awaited(r, j, gen) /\ r.mask \subseteq a.records[j].flight
                                          /\ r.mask # {}
      BY DEF LoadsHeld
    <3>1. PICK r \in coming \cup {done} :
            Awaited(r, j, gen) /\ r.mask \subseteq a.records[j].flight /\ r.mask # {}
      BY <1>1 DEF LoadsHeld
    <3>2. r # done
      BY <1>2, <3>1 DEF Awaited
    <3> QED BY <3>1, <3>2
  <2>3. LoadsHeld(c, gen, coming)
    BY <2>1, <2>2, LoadsLater
  <2>4. RepairsHeld(c, gen, Range(s.repairs) \cup others)
    BY <1>1, <2>1, RepairsLater
  <2> QED BY <2>1, <2>3, <2>4 DEF Completed
<1>3. ASSUME Answered(gen, others, k, s, t)
      PROVE  Completed(gen, others, coming, t)
  <2>1. /\ t \in Answers /\ Good(t.auth, gen) /\ t.auth.records[k].state # "Loading"
        /\ \A j \in Keys \ {k} : LaterOf(a, t.auth, j)
        /\ RepairsHeld(t.auth, gen, Range(t.repairs) \cup others)
    BY <1>3 DEF Answered, Resolved
  <2>2. LoadsHeld(t.auth, gen, coming)
    <3> SUFFICES ASSUME NEW j \in Keys \ t.auth.failed, t.auth.records[j].state = "Loading",
                        t.auth.records[j].flight # {"geometry"}
                 PROVE  \E r \in coming : /\ Awaited(r, j, gen) /\ r.mask # {}
                                          /\ r.mask \subseteq t.auth.records[j].flight
      BY DEF LoadsHeld
    <3>1. j # k
      BY <2>1
    <3>2. /\ a.records[j].state = "Loading" /\ t.auth.records[j].flight = a.records[j].flight
          /\ j \notin a.failed
      BY <2>1, <3>1 DEF LaterOf
    <3>3. PICK r \in coming \cup {done} :
            Awaited(r, j, gen) /\ r.mask \subseteq a.records[j].flight /\ r.mask # {}
      BY <1>1, <3>2 DEF LoadsHeld
    <3>4. r # done
      BY <3>1, <3>3 DEF Awaited
    <3> QED BY <3>2, <3>3, <3>4
  <2> QED BY <2>1, <2>2 DEF Completed
<1>4. CASE ~LoadIsCurrent(a, job)
  <2>1. t = s
    BY <1>4 DEF Completion, t
  <2>2. t = [s EXCEPT !.auth = a]
    BY <1>1, <2>1 DEF Answers
  <2>3. ~(/\ job.generation = gen /\ done.mask # {} /\ done.mask \subseteq a.records[k].flight)
    BY <1>4 DEF LoadIsCurrent
  <2>4. Completed(gen, others, coming, t)
    BY <1>1, <1>2, <2>2, <2>3, OnwardSame
  <2> QED BY <2>4 DEF t
<1>5. CASE LoadIsCurrent(a, job)
  <2>1. job.generation = gen /\ a.records[k].flight # {} /\ job \in JobsOf(gen)
    BY <1>1, <1>5 DEF LoadIsCurrent, JobsOf
  <2>2. t = CASE result = "Error"   -> [s EXCEPT !.auth = SuppressFailedLoad(b, job)]
              [] result # "Error" /\ done.mask = {} -> s
              [] result = "Mesh" /\ done.mask # {} -> [s EXCEPT !.auth = CompleteCpu(b, done)]
              [] result = "Missing" /\ done.mask # {} ->
                   EnqueueMissingRepair(s, job, path)
    BY <1>5 DEF Completion, t
  <2>3. b.records = a.records
    BY <1>1 DEF Authorities
  <2>4. Onward(gen, a, b) /\ Good(b, gen)
    BY <1>1, PhaseEffect DEF RepairPhases, Onward
  <2> HIDE DEF b
  <2>5. ASSUME NEW c, Resolved(gen, b, c, k), c.records[k].state # "RepairWaiting" \/ LaterOf(b, c, k),
               t = [s EXCEPT !.auth = c]
        PROVE  Answered(gen, others, k, s, t)
    <3>1. Resolved(gen, a, c, k)
      BY <1>1, <2>4, <2>5, OnwardResolved
    <3>2. t \in Answers /\ t.auth = c /\ t.repairs = s.repairs
      BY <1>1, <2>5, <3>1 DEF Answers, Resolved, Good
    <3>3. RepairsHeld(c, gen, Range(s.repairs) \cup others)
      <4> SUFFICES ASSUME NEW j \in Keys, c.records[j].state = "RepairWaiting"
                   PROVE  a.records[j].state = "RepairWaiting"
        BY <1>1 DEF RepairsHeld
      <4>1. CASE j = k
        BY <2>3, <2>5, <4>1 DEF LaterOf
      <4>2. CASE j # k
        BY <3>1, <4>2 DEF Resolved, LaterOf
      <4> QED BY <4>1, <4>2
    <3> QED BY <3>1, <3>2, <3>3 DEF Answered
  <2>6. CASE result = "Error"
    <3> DEFINE c == SuppressFailedLoad(b, job)
    <3>1. t = [s EXCEPT !.auth = c]
      BY <2>2, <2>6
    <3>2. Resolved(gen, b, c, k) /\ LaterOf(b, c, k)
      BY <1>1, <2>1, <2>3, <2>4, SuppressFailedLoadEffect
    <3> HIDE DEF c
    <3>3. Completed(gen, others, coming, t)
      BY <1>3, <2>5, <3>1, <3>2
    <3> QED BY <3>3 DEF t
  <2>7. CASE result # "Error" /\ done.mask = {}
    <3>1. t = s
      BY <2>2, <2>7
    <3>2. t = [s EXCEPT !.auth = a]
      BY <1>1, <3>1 DEF Answers
    <3>3. Completed(gen, others, coming, t)
      BY <1>1, <1>2, <2>7, <3>2, OnwardSame
    <3> QED BY <3>3 DEF t
  <2>8. CASE result = "Mesh" /\ done.mask # {}
    <3> DEFINE c == CompleteCpu(b, done)
    <3>1. t = [s EXCEPT !.auth = c]
      BY <2>2, <2>8
    <3>2. CASE ~(done.mask \subseteq a.records[k].flight)
      <4>1. c = b
        BY <2>3, <3>2 DEF CompleteCpu
      <4> HIDE DEF c
      <4>2. Completed(gen, others, coming, t)
        BY <1>2, <2>4, <3>1, <3>2, <4>1
      <4> QED BY <4>2 DEF t
    <3>3. CASE done.mask \subseteq a.records[k].flight
      <4>1. Resolved(gen, b, c, k) /\ c.records[k].state # "RepairWaiting"
        BY <2>1, <2>3, <2>4, <2>8, <3>3, CompleteCpuEffect
      <4> HIDE DEF c
      <4>2. Completed(gen, others, coming, t)
        BY <1>3, <2>5, <3>1, <4>1
      <4> QED BY <4>2 DEF t
    <3> QED BY <3>2, <3>3
  <2>9. CASE result = "Missing" /\ done.mask # {}
    <3>1. t = EnqueueMissingRepair(s, job, path)
      BY <2>2, <2>9
    <3>2. Answered(gen, others, k, s, EnqueueMissingRepair(s, job, path))
      BY <1>1, <2>1, EnqueueMissingRepairEffect
    <3>3. Completed(gen, others, coming, t)
      BY <1>3, <3>1, <3>2
    <3> QED BY <3>3 DEF t
  <2> QED BY <2>6, <2>7, <2>8, <2>9 DEF Results
<1> QED BY <1>4, <1>5

CompletionStep(s, i, results, path) == Completion(s, loaded[i], results[i], path)
Completions == INSTANCE FoldTheorems WITH Op <- CompletionStep

DrainedCompletions(path, results) ==
  FoldLeft(LAMBDA b, i : Completion(b, loaded[i], results[i], path),
           [auth |-> auth, repairs |-> repairs], [i \in DOMAIN loaded |-> i])

LEMMA DrainCompletionsEffect ==
  ASSUME NEW gen \in Nat, gen = generation, Good(auth, gen), repairs \in Seq(Repairs),
         loaded \in Seq(Loads), NEW others, NEW coming,
         RepairsHeld(auth, gen, Range(repairs) \cup others),
         LoadsHeld(auth, gen, coming \cup Range(loaded)),
         NEW path, NEW results \in [DOMAIN loaded -> Results]
  PROVE  Completed(gen, others, coming, DrainedCompletions(path, results))
<1> DEFINE first == [auth |-> auth, repairs |-> repairs]
           places == [i \in DOMAIN loaded |-> i]
           n == Len(loaded)
           G == [i \in 0 .. n |-> {s \in Answers : Completed(gen, others, coming \cup After(loaded, i), s)}]
           last == Completions!Fold(first, places, results, path)
<1>1. /\ n \in Nat /\ DOMAIN loaded = 1 .. n
      /\ After(loaded, 0) = Range(loaded) /\ After(loaded, n) = {}
      /\ \A i \in 1 .. n : /\ loaded[i] \in Loads
                           /\ After(loaded, i - 1) = After(loaded, i) \cup {loaded[i]}
  BY AfterOf
<1>2. first \in Answers /\ first.auth = auth /\ first.repairs = repairs
  BY DEF Good, Answers
<1>3. places \in Seq(Nat) /\ Len(places) = n /\ \A i \in 1 .. n : places[i] = i
  BY PlacesOf
<1> HIDE DEF first, places, n
<1>4. first \in G[0]
  <2>1. Completed(gen, others, coming \cup After(loaded, 0), first)
    BY <1>1, <1>2 DEF Completed
  <2> QED BY <1>1, <1>2, <2>1
<1>5. ASSUME NEW i \in 1 .. n, NEW s \in G[i - 1]
      PROVE  CompletionStep(s, places[i], results, path) \in G[i]
  <2> DEFINE t == CompletionStep(s, places[i], results, path)
             rest == coming \cup After(loaded, i)
  <2>1. i \in 0 .. n /\ i - 1 \in 0 .. n /\ places[i] = i
    BY <1>1, <1>3
  <2>2. s \in Answers /\ Completed(gen, others, coming \cup After(loaded, i - 1), s)
    BY <2>1
  <2>3. coming \cup After(loaded, i - 1) = rest \cup {loaded[i]}
    BY <1>1
  <2>4. loaded[i] \in Loads /\ results[i] \in Results
    BY <1>1
  <2> HIDE DEF rest
  <2>5. Completed(gen, others, rest, t)
    BY <2>1, <2>2, <2>3, <2>4, CompletionEffect DEF CompletionStep
  <2> HIDE DEF t
  <2>6. t \in Answers
    BY <2>5 DEF Completed
  <2> QED BY <2>1, <2>5, <2>6 DEF rest, t
<1>6. last \in G[n]
  <2> HIDE DEF G
  <2> QED BY <1>3, <1>4, <1>5, Completions!FoldReaches
<1>7. DrainedCompletions(path, results) = last
  BY DEF DrainedCompletions, FoldLeft, MapThenFoldSet, Max, CompletionStep, first, places,
         Completions!Fold, Completions!MapThenFoldSet, Completions!Greatest
<1> HIDE DEF last
<1>8. Completed(gen, others, coming \cup After(loaded, n), last)
  <2>1. n \in 0 .. n
    BY <1>1
  <2>2. G[n] = {s \in Answers : Completed(gen, others, coming \cup After(loaded, n), s)}
    BY <2>1
  <2> HIDE DEF G
  <2> QED BY <1>6, <2>2
<1>9. coming \cup After(loaded, n) = coming
  BY <1>1
<1> QED BY <1>7, <1>8, <1>9

(***************************************************************************)
(* The steps of the Scene.                                                 *)
(***************************************************************************)

LEMMA NoAuthorityGood ==
  ASSUME NEW gen
  PROVE  /\ Good(NoAuthority, gen)
         /\ \A set : RepairsHeld(NoAuthority, gen, set) /\ LoadsHeld(NoAuthority, gen, set)
<1> DEFINE a == NoAuthority
<1>1. NoRecord \in Records
  BY DEF NoRecord, Records, States, Reasons, Parts
<1>2. /\ a.records = [k \in Keys |-> NoRecord] /\ a.loader = <<>>
      /\ a.phases = [k \in Keys |-> "NeedScenePayload"] /\ a.failed = {} /\ a.ready = <<>>
      /\ a.warm = <<>> /\ a.pending = {} /\ a.retry = {} /\ a.mislaid = {} /\ a.lost = {}
      /\ a.cpuUsed = 0 /\ a.cpuReserved = 0 /\ a.gpuUsed = 0
  BY DEF NoAuthority
<1>3. \A k \in Keys : /\ a.records[k] = NoRecord
                      /\ a.records[k].state = "Unloaded" /\ a.records[k].reasons = {}
                      /\ a.records[k].satisfied = {} /\ a.records[k].queued = {}
                      /\ a.records[k].flight = {} /\ ~a.records[k].payload
                      /\ ~a.records[k].handle
  BY <1>2 DEF NoRecord
<1>4. a \in Authorities
  <2>1. [k \in Keys |-> NoRecord] \in [Keys -> Records]
    BY <1>1
  <2>2. [k \in Keys |-> "NeedScenePayload"] \in [Keys -> RepairPhases]
    BY DEF RepairPhases
  <2>3. <<>> \in Seq(Jobs) /\ <<>> \in Seq(Keys) /\ <<>> \in Seq(WarmOnes)
    OBVIOUS
  <2> QED BY <2>1, <2>2, <2>3 DEF NoAuthority, Authorities
<1> HIDE DEF a
<1>5. Names(<<>>) = {} /\ Range(<<>>) = {} /\ Distinct(<<>>) /\ IsInjective(<<>>)
        /\ <<>> \in Seq(JobsOf(gen))
  BY DEF Names, Range, Distinct, IsInjective
<1>6. Counted(a) = {} /\ OnCard(a) = {} /\ Bytes({}) = 0
  BY <1>2, <1>3, BytesOf DEF Counted, OnCard
<1>7. Stored(a)
  BY <1>2, <1>5, <1>6, Sizes DEF Stored
<1>8. Lists(a, gen)
  BY <1>2, <1>5 DEF Lists
<1>9. ASSUME NEW k \in Keys PROVE Fine(a, k)
  BY <1>2, <1>3, <1>5 DEF Fine, Sound, Unheld, Placed, Covered, Held
<1>10. Good(a, gen)
  BY <1>4, <1>7, <1>8, <1>9 DEF Good
<1>11. ASSUME NEW set PROVE RepairsHeld(a, gen, set) /\ LoadsHeld(a, gen, set)
  BY <1>3 DEF RepairsHeld, LoadsHeld
<1> QED BY <1>10, <1>11 DEF a

(***************************************************************************)
(* The invariant: the authority is Good, what waits for its repair has a   *)
(* request, and what is loading has its load.                              *)
(***************************************************************************)

Requests == Range(repairs) \cup Range(works) \cup Range(persisted)

\* The type invariant and the rest hold at the start.
LEMMA InitIInv == Init => IInv
<1> SUFFICES ASSUME Init PROVE IInv
  OBVIOUS
<1>1. wants \in Wants
  BY ResidencyAssumption DEF Init, Wants
<1>2. ResidencyTyped
  BY <1>1 DEF Init, ResidencyTyped
<1>3. Good(auth, generation)
  BY NoAuthorityGood DEF Init
<1>4. \A set : RepairsHeld(auth, generation, set) /\ LoadsHeld(auth, generation, set)
  BY NoAuthorityGood DEF Init
<1> QED BY <1>2, <1>3, <1>4 DEF IInv

LEMMA DemandKeeps == ASSUME IInv, NEW next \in Wants, Demand(next) PROVE IInv'
<1>1. ResidencyTyped'
  BY DEF Demand, IInv, ResidencyTyped, channels
<1>2. /\ auth' = auth /\ generation' = generation /\ repairs' = repairs /\ works' = works
      /\ persisted' = persisted /\ loads' = loads /\ loaded' = loaded
  BY DEF Demand, channels
<1> QED BY <1>1, <1>2 DEF IInv

\* Without a Scene, and with a new one, nothing waits.
LEMMA AnewKeeps ==
  ASSUME IInv, auth' = NoAuthority, ResidencyTyped'
  PROVE  IInv'
<1>1. /\ Good(NoAuthority, generation')
      /\ \A set : /\ RepairsHeld(NoAuthority, generation', set)
                  /\ LoadsHeld(NoAuthority, generation', set)
  BY NoAuthorityGood
<1> QED BY <1>1 DEF IInv

LEMMA InstallSceneKeeps ==
  ASSUME IInv, NEW next \in 1 .. MaxGeneration, InstallScene(next) PROVE IInv'
<1>1. next \in Nat
  BY ResidencyAssumption
<1>2. ResidencyTyped'
  <2>1. wants' \in Wants
    BY DEF InstallScene, IInv, ResidencyTyped, Wants
  <2> QED BY <1>1, <2>1 DEF InstallScene, IInv, ResidencyTyped, channels
<1> QED BY <1>2, AnewKeeps DEF InstallScene

LEMMA RetireKeeps == ASSUME IInv, Retire PROVE IInv'
<1>1. ResidencyTyped'
  BY DEF Retire, IInv, ResidencyTyped, channels
<1> QED BY <1>1, AnewKeeps DEF Retire

\* Steps on the authority alone.
LEMMA OnwardKeeps ==
  ASSUME IInv, Onward(generation, auth, auth'), generation' = generation, ResidencyTyped',
         repairs' = repairs, works' = works, persisted' = persisted,
         loads' = loads, loaded' = loaded
  PROVE  IInv'
<1>1. Good(auth', generation) /\ Later(auth, auth')
  BY DEF Onward
<1>2. RepairsHeld(auth', generation, Range(repairs) \cup Range(works) \cup Range(persisted))
  BY <1>1, RepairsLater DEF IInv
<1>3. LoadsHeld(auth', generation, Range(loads) \cup Range(loaded))
  BY <1>1, LoadsLater DEF IInv
<1> QED BY <1>1, <1>2, <1>3 DEF IInv

LEMMA SyncDemandKeeps == ASSUME IInv, SyncDemand PROVE IInv'
<1> DEFINE b == SyncAnimation(auth)
           c == SyncSelected(b)
           d == UpdateCameraNear(c)
<1>1. generation \in Nat /\ Good(auth, generation)
  <2>1. generation # None
    BY ZenonT(30) DEF SyncDemand
  <2> QED BY <2>1 DEF IInv, ResidencyTyped
<1>2. Onward(generation, auth, b)
  BY <1>1, SyncAnimationEffect
<1> HIDE DEF b
<1>3. Onward(generation, b, c)
  BY <1>1, <1>2, SyncSelectedEffect DEF Onward
<1> HIDE DEF c
<1>4. Onward(generation, c, d)
  BY <1>1, <1>3, UpdateCameraNearEffect DEF Onward
<1>5. auth' = d
  BY DEF SyncDemand, b, c
<1> HIDE DEF d
<1>6. Onward(generation, auth, auth')
  BY <1>2, <1>3, <1>4, <1>5, OnwardTwice
<1>7. ResidencyTyped'
  <2>1. wants' \in Wants
    BY DEF SyncDemand, IInv, ResidencyTyped, Wants
  <2> QED BY <1>1, <2>1 DEF SyncDemand, IInv, ResidencyTyped, channels
<1> QED BY <1>6, <1>7, OnwardKeeps DEF SyncDemand, channels

LEMMA PumpKeeps == ASSUME IInv, Pump PROVE IInv'
<1>1. Onward(generation, auth, auth')
  BY PumpUploadsEffect DEF IInv, Pump
<1>2. ResidencyTyped'
  BY DEF Pump, IInv, ResidencyTyped, channels
<1> QED BY <1>1, <1>2, OnwardKeeps DEF Pump, channels

LEMMA DispatchLoadsKeeps == ASSUME IInv, DispatchLoads PROVE IInv'
<1> DEFINE a == RetryPendingLoads(auth)
           sent == Dispatch(a)
           finished == Range(loaded)
<1>1. /\ generation \in Nat /\ Good(auth, generation) /\ loads \in Seq(Loads)
  <2>1. phase # "demand"
    <3>1. phase = "dispatch"
      BY ZenonT(30) DEF DispatchLoads
    <3> QED BY <3>1
  <2> QED BY <2>1 DEF IInv, ResidencyTyped
<1>2. Onward(generation, auth, a)
  BY <1>1, RetryPendingEffect
<1>3. auth' = sent.auth /\ loads' = sent.loads
  BY DEF DispatchLoads
<1> HIDE DEF a
<1>4. Good(a, generation) /\ Later(auth, a)
  BY <1>2 DEF Onward
<1>5. RepairsHeld(a, generation, Requests)
  BY <1>4, RepairsLater DEF IInv, Requests
<1>6. LoadsHeld(a, generation, Range(loads) \cup finished)
  BY <1>4, LoadsLater DEF IInv
<1>7. Dispatched(generation, finished, Requests, sent)
  <2> HIDE DEF finished
  <2> QED BY <1>1, <1>4, <1>5, <1>6, DispatchEffect
<1> HIDE DEF sent
<1>8. /\ sent.loads \in Seq(Loads) /\ Good(sent.auth, generation)
      /\ LoadsHeld(sent.auth, generation, Range(sent.loads) \cup finished)
      /\ RepairsHeld(sent.auth, generation, Requests)
  BY <1>7 DEF Dispatched, Sents
<1>9. ResidencyTyped'
  BY <1>3, <1>8 DEF DispatchLoads, IInv, ResidencyTyped
<1>10. /\ generation' = generation /\ repairs' = repairs /\ works' = works
       /\ persisted' = persisted /\ loaded' = loaded
  BY DEF DispatchLoads
<1> QED BY <1>3, <1>8, <1>9, <1>10 DEF IInv, Requests

LEMMA DrainCompletionsKeeps ==
  ASSUME IInv, NEW path \in Paths(loaded), NEW results \in [DOMAIN loaded -> Results],
         DrainCompletions(path, results)
  PROVE  IInv'
<1> DEFINE s == DrainedCompletions(path, results)
           others == Range(works) \cup Range(persisted)
<1>1. /\ generation \in Nat /\ Good(auth, generation) /\ loaded \in Seq(Loads)
      /\ repairs \in Seq(Repairs)
  <2>1. phase # "demand"
    <3>1. phase = "loads"
      BY ZenonT(30) DEF DrainCompletions
    <3> QED BY <3>1
  <2> QED BY <2>1 DEF IInv, ResidencyTyped
<1>2. RepairsHeld(auth, generation, Range(repairs) \cup others)
  <2>1. Range(repairs) \cup Range(works) \cup Range(persisted) = Range(repairs) \cup others
    OBVIOUS
  <2> HIDE DEF others
  <2> QED BY <2>1 DEF IInv
<1>3. LoadsHeld(auth, generation, Range(loads) \cup Range(loaded))
  BY DEF IInv
<1>4. Completed(generation, others, Range(loads), s)
  <2> HIDE DEF others
  <2> QED BY <1>1, <1>2, <1>3, DrainCompletionsEffect
<1>5. auth' = s.auth /\ repairs' = s.repairs
  BY DEF DrainCompletions, DrainedCompletions
<1> HIDE DEF s
<1>6. /\ s.repairs \in Seq(Repairs) /\ Good(s.auth, generation)
      /\ RepairsHeld(s.auth, generation, Range(s.repairs) \cup others)
      /\ LoadsHeld(s.auth, generation, Range(loads))
  BY <1>4 DEF Completed, Answers
<1>7. /\ generation' = generation /\ works' = works /\ persisted' = persisted /\ loads' = loads
      /\ loaded' = <<>> /\ wants' = wants
  BY DEF DrainCompletions
<1>8. ResidencyTyped'
  BY <1>1, <1>5, <1>6, <1>7 DEF IInv, ResidencyTyped
<1>9. RepairsHeld(auth, generation, Range(repairs) \cup Range(works) \cup Range(persisted))'
  <2>1. Range(s.repairs) \cup Range(works) \cup Range(persisted) = Range(s.repairs) \cup others
    OBVIOUS
  <2> HIDE DEF others
  <2> QED BY <1>5, <1>6, <1>7, <2>1
<1>10. LoadsHeld(auth, generation, Range(loads) \cup Range(loaded))'
  <2>1. Range(<<>>) = {}
    BY DEF Range
  <2>2. Range(loads) \cup {} = Range(loads)
    OBVIOUS
  <2> QED BY <1>5, <1>6, <1>7, <2>1, <2>2
<1> QED BY <1>5, <1>6, <1>7, <1>8, <1>9, <1>10 DEF IInv

LEMMA DrainPersistedKeeps ==
  ASSUME IInv, NEW results \in [DOMAIN persisted -> Outcomes], DrainPersisted(results)
  PROVE  IInv'
<1> DEFINE s == DrainedPersisted(results)
           others == Range(works)
           first == [auth |-> auth, repairs |-> repairs]
<1>1. /\ generation \in Nat /\ Good(auth, generation) /\ persisted \in Seq(Repairs)
      /\ repairs \in Seq(Repairs)
  <2>1. phase # "demand"
    <3>1. phase = "persisted"
      BY ZenonT(30) DEF DrainPersisted
    <3> QED BY <3>1
  <2> QED BY <2>1 DEF IInv, ResidencyTyped
<1>2. RepairsHeld(auth, generation, Range(repairs) \cup (others \cup Range(persisted)))
  <2>1. Range(repairs) \cup Range(works) \cup Range(persisted)
          = Range(repairs) \cup (others \cup Range(persisted))
    OBVIOUS
  <2> HIDE DEF others
  <2> QED BY <2>1 DEF IInv
<1>3. Handled(generation, others, first, s)
  <2> HIDE DEF others
  <2> QED BY <1>1, <1>2, DrainPersistedEffect
<1>4. auth' = s.auth /\ repairs' = s.repairs
  BY DEF DrainPersisted, DrainedPersisted
<1>5. first.auth = auth
  OBVIOUS
<1> HIDE DEF s, first
<1>6. /\ s.repairs \in Seq(Repairs) /\ Good(s.auth, generation) /\ Later(auth, s.auth)
      /\ RepairsHeld(s.auth, generation, Range(s.repairs) \cup others)
  BY <1>3, <1>5 DEF Handled, Onward, Answers
<1>7. /\ generation' = generation /\ works' = works /\ persisted' = <<>> /\ loads' = loads
      /\ loaded' = loaded /\ wants' = wants
  BY DEF DrainPersisted
<1>8. ResidencyTyped'
  BY <1>1, <1>4, <1>6, <1>7 DEF IInv, ResidencyTyped
<1>9. RepairsHeld(auth, generation, Range(repairs) \cup Range(works) \cup Range(persisted))'
  <2>1. Range(s.repairs) \cup Range(works) \cup Range(<<>>) = Range(s.repairs) \cup others
    BY DEF Range
  <2> HIDE DEF others
  <2> QED BY <1>4, <1>6, <1>7, <2>1
<1>10. LoadsHeld(s.auth, generation, Range(loads) \cup Range(loaded))
  BY <1>6, LoadsLater DEF IInv
<1> QED BY <1>4, <1>6, <1>7, <1>8, <1>9, <1>10 DEF IInv

LEMMA ProcessRepairsKeeps ==
  ASSUME IInv, NEW path \in Paths(repairs), ProcessRepairs(path) PROVE IInv'
<1> DEFINE s == ProcessedRepairs(path)
           others == Range(persisted)
<1>1. /\ generation \in Nat /\ Good(auth, generation) /\ works \in Seq(Repairs)
      /\ repairs \in Seq(Repairs)
  <2>1. phase # "demand"
    <3>1. phase = "repairs"
      BY ZenonT(30) DEF ProcessRepairs
    <3> QED BY <3>1
  <2> QED BY <2>1 DEF IInv, ResidencyTyped
<1>2. RepairsHeld(auth, generation, Range(repairs) \cup Range(works) \cup others)
  BY DEF IInv
<1>3. Processed(generation, others, auth, s)
  <2> HIDE DEF others
  <2> QED BY <1>1, <1>2, ProcessRepairsEffect
<1>4. auth' = s.auth /\ repairs' = s.repairs /\ works' = s.works
  BY DEF ProcessRepairs, ProcessedRepairs
<1> HIDE DEF s
<1>5. /\ s.repairs \in Seq(Repairs) /\ s.works \in Seq(Repairs) /\ Good(s.auth, generation)
      /\ Later(auth, s.auth)
      /\ RepairsHeld(s.auth, generation, Range(s.repairs) \cup Range(s.works) \cup others)
  BY <1>3 DEF Processed, Processes, Onward
<1>6. /\ generation' = generation /\ persisted' = persisted /\ loads' = loads
      /\ loaded' = loaded /\ wants' = wants
  BY DEF ProcessRepairs
<1>7. ResidencyTyped'
  BY <1>1, <1>4, <1>5, <1>6 DEF IInv, ResidencyTyped
<1>8. LoadsHeld(s.auth, generation, Range(loads) \cup Range(loaded))
  BY <1>5, LoadsLater DEF IInv
<1> QED BY <1>4, <1>5, <1>6, <1>7, <1>8 DEF IInv

\* A worker moves what it has done from one channel to the other.
LEMMA LoadKeeps == ASSUME IInv, Load PROVE IInv'
<1>1. loads \in Seq(Loads) /\ loaded \in Seq(Loads) /\ loads # <<>>
  BY DEF IInv, ResidencyTyped, Load
<1>2. /\ Head(loads) \in Loads /\ Tail(loads) \in Seq(Loads)
      /\ Range(loads) = Range(Tail(loads)) \cup {Head(loads)}
  BY <1>1, HeadTailRange
<1>3. /\ Append(loaded, Head(loads)) \in Seq(Loads)
      /\ Range(Append(loaded, Head(loads))) = Range(loaded) \cup {Head(loads)}
  BY <1>1, <1>2, AppendRange
<1>4. loads' = Tail(loads) /\ loaded' = Append(loaded, Head(loads))
  BY DEF Load
<1>5. /\ auth' = auth /\ generation' = generation /\ repairs' = repairs /\ works' = works
      /\ persisted' = persisted /\ wants' = wants /\ phase' = phase
  BY DEF Load
<1>6. ResidencyTyped'
  BY <1>2, <1>3, <1>4, <1>5 DEF IInv, ResidencyTyped
<1>7. (Range(loads) \cup Range(loaded))' = Range(loads) \cup Range(loaded)
  BY <1>2, <1>3, <1>4
<1>8. LoadsHeld(auth, generation, Range(loads) \cup Range(loaded))'
  BY <1>5, <1>7 DEF IInv
<1> QED BY <1>5, <1>6, <1>8 DEF IInv

LEMMA PersistKeeps == ASSUME IInv, Persist PROVE IInv'
<1>1. works \in Seq(Repairs) /\ persisted \in Seq(Repairs) /\ works # <<>>
  BY DEF IInv, ResidencyTyped, Persist
<1>2. /\ Head(works) \in Repairs /\ Tail(works) \in Seq(Repairs)
      /\ Range(works) = Range(Tail(works)) \cup {Head(works)}
  BY <1>1, HeadTailRange
<1>3. /\ Append(persisted, Head(works)) \in Seq(Repairs)
      /\ Range(Append(persisted, Head(works))) = Range(persisted) \cup {Head(works)}
  BY <1>1, <1>2, AppendRange
<1>4. works' = Tail(works) /\ persisted' = Append(persisted, Head(works))
  BY DEF Persist
<1>5. /\ auth' = auth /\ generation' = generation /\ repairs' = repairs /\ loads' = loads
      /\ loaded' = loaded /\ wants' = wants /\ phase' = phase
  BY DEF Persist
<1>6. ResidencyTyped'
  BY <1>2, <1>3, <1>4, <1>5 DEF IInv, ResidencyTyped
<1>7. (Range(repairs) \cup Range(works) \cup Range(persisted))'
        = Range(repairs) \cup Range(works) \cup Range(persisted)
  BY <1>2, <1>3, <1>4, <1>5
<1>8. RepairsHeld(auth, generation, Range(repairs) \cup Range(works) \cup Range(persisted))'
  BY <1>5, <1>7 DEF IInv
<1> QED BY <1>5, <1>6, <1>8 DEF IInv

LEMMA StepKeeps == IInv /\ [Next]_vars => IInv'
<1> SUFFICES ASSUME IInv, [Next]_vars PROVE IInv'
  OBVIOUS
<1>1. wants \in Wants
  BY DEF IInv, ResidencyTyped
<1>2. ASSUME NEW keys \in Cameras, MoveCamera(keys) PROVE IInv'
  <2>1. [wants EXCEPT !.near = keys, !.moved = TRUE] \in Wants
    BY <1>1, ResidencyAssumption DEF Wants
  <2> QED BY <1>2, <2>1, DemandKeeps DEF MoveCamera
<1>3. ASSUME NEW keys \in Selections, Select(keys) PROVE IInv'
  <2>1. [wants EXCEPT !.selected = keys] \in Wants
    BY <1>1, ResidencyAssumption DEF Wants
  <2> QED BY <1>3, <2>1, DemandKeeps DEF Select
<1>4. CASE PlayOrPause
  <2>1. [wants EXCEPT !.playing = ~wants.playing] \in Wants
    BY <1>1 DEF Wants
  <2> QED BY <1>4, <2>1, DemandKeeps DEF PlayOrPause
<1>5. ASSUME NEW next \in 1 .. MaxGeneration, InstallScene(next) PROVE IInv'
  BY <1>5, InstallSceneKeeps
<1>6. CASE Retire
  BY <1>6, RetireKeeps
<1>7. CASE Frame
  <2>1. CASE SyncDemand
    BY <2>1, SyncDemandKeeps
  <2>2. ASSUME NEW path \in Paths(loaded), NEW results \in [DOMAIN loaded -> Results],
               DrainCompletions(path, results)
        PROVE  IInv'
    BY <2>2, DrainCompletionsKeeps
  <2>3. ASSUME NEW results \in [DOMAIN persisted -> Outcomes], DrainPersisted(results)
        PROVE  IInv'
    BY <2>3, DrainPersistedKeeps
  <2>4. ASSUME NEW path \in Paths(repairs), ProcessRepairs(path) PROVE IInv'
    BY <2>4, ProcessRepairsKeeps
  <2>5. CASE DispatchLoads
    BY <2>5, DispatchLoadsKeeps
  <2>6. CASE Pump
    BY <2>6, PumpKeeps
  <2> QED BY <1>7, <2>1, <2>2, <2>3, <2>4, <2>5, <2>6 DEF Frame
<1>8. CASE Load
  BY <1>8, LoadKeeps
<1>9. CASE Persist
  BY <1>9, PersistKeeps
<1>10. CASE UNCHANGED vars
  BY <1>10 DEF vars, channels, IInv, ResidencyTyped
<1> QED BY <1>2, <1>3, <1>4, <1>5, <1>6, <1>7, <1>8, <1>9, <1>10 DEF Next

(***************************************************************************)
(* The theorems.                                                           *)
(***************************************************************************)

\* After every step of a frame and of the workers the records, the queues and
\* the counters of what is cached fit each other, and what waits for a repair or
\* for a load has it under way.
THEOREM InductiveInvariant == Spec => []IInv
<1> QED BY InitIInv, StepKeeps, PTL DEF Spec

LEMMA MemoryCounted ==
  ASSUME Good(auth, generation)
  PROVE  /\ InMemory \in SUBSET Counted(auth) /\ InMemory \cup auth.lost = Counted(auth)
         /\ OnDevice = OnCard(auth) /\ Counted(auth) \in SUBSET Keys /\ OnCard(auth) \in SUBSET Keys
<1>1. auth.lost \in SUBSET Keys
  BY DEF Good, Authorities
<1> QED BY <1>1 DEF InMemory, OnDevice, Counted, OnCard

\* Meshes are kept, and room for loads reserved, within the budgets: what
\* ensure_capacity makes room for by evicting is what there is room for.
THEOREM BudgetsHold == Spec => []HeldWithinBudget
<1>1. ASSUME IInv PROVE HeldWithinBudget
  <2>1. Good(auth, generation)
    BY <1>1 DEF IInv
  <2>2. /\ auth.cpuUsed = Bytes(Counted(auth)) /\ auth.gpuUsed = Bytes(OnCard(auth))
        /\ auth.cpuUsed + auth.cpuReserved <= CpuBudget /\ auth.gpuUsed <= GpuBudget
    BY <2>1 DEF Good, Stored
  <2>3. /\ auth.cpuUsed \in Nat /\ auth.cpuReserved \in Nat
    BY <2>1 DEF Good, Authorities
  <2>4. Bytes(InMemory) <= Bytes(Counted(auth)) /\ Bytes(InMemory) \in Nat
    BY <2>1, MemoryCounted, BytesGrow, BytesOf
  <2>5. Bytes(OnDevice) = Bytes(OnCard(auth))
    <3>1. OnDevice = OnCard(auth)
      BY <2>1, MemoryCounted
    <3> QED BY <3>1, Zenon
  <2> QED BY <2>2, <2>3, <2>4, <2>5, Sizes DEF HeldWithinBudget
<1> QED BY <1>1, InductiveInvariant, PTL

\* The counters of the residency budget are the meshes that are held and those
\* that a repair given up has dropped without giving their bytes back.
THEOREM CountersAreExact == Spec => []Accounted
<1>1. ASSUME IInv PROVE Accounted
  <2>1. Good(auth, generation)
    BY <1>1 DEF IInv
  <2>2. InMemory \cup auth.lost = Counted(auth) /\ OnDevice = OnCard(auth)
    BY <2>1, MemoryCounted
  <2>3. auth.cpuUsed = Bytes(Counted(auth)) /\ auth.gpuUsed = Bytes(OnCard(auth))
    BY <2>1 DEF Good, Stored
  <2> QED BY <2>2, <2>3, Zenon DEF Accounted
<1> QED BY <1>1, InductiveInvariant, PTL

\* Of the payloads that were never mislaid those that wait for their upload are
\* those in the queue of uploads, in which none is twice.
THEOREM ReadyIsQueued == Spec => []ReadyExactly
<1>1. ASSUME IInv PROVE ReadyExactly
  <2>1. Good(auth, generation)
    BY <1>1 DEF IInv
  <2>2. IsInjective(auth.ready) /\ Range(auth.ready) \subseteq Keys
    <3>1. auth.ready \in Seq(Keys)
      BY <2>1 DEF Good, Authorities
    <3> QED BY <2>1, <3>1, InRange DEF Good, Lists
  <2>3. \A k \in Keys : auth.records[k].state = "CpuReady" => k \notin auth.mislaid
    BY <2>1 DEF Good, Fine, Sound, Held
  <2>4. \A k \in Keys \ auth.mislaid :
          auth.records[k].state = "CpuReady" <=> k \in Range(auth.ready)
    BY <2>1 DEF Good, Fine, Sound, Placed
  <2> QED BY <2>2, <2>3, <2>4 DEF ReadyExactly
<1> QED BY <1>1, InductiveInvariant, PTL

\* A payload that waits for a repair has a request for it, and so does one that
\* is queued or loading for the first time have its job, or its load, which asks
\* for no more than the payload will take unless it failed or is in vain.
THEOREM FirstLoadsAreUnderWay == Spec => []FirstLoadIsUnderWay
<1>1. ASSUME IInv PROVE FirstLoadIsUnderWay
  <2>1. Good(auth, generation)
    BY <1>1 DEF IInv
  <2>2. \A k : Queued(auth, k) <=> k \in Names(auth.loader)
    BY DEF Queued, Names
  <2>3. \A k \in Keys \ auth.mislaid :
          auth.records[k].queued # {} <=> k \in Names(auth.loader)
    BY <2>1 DEF Good, Fine, Sound, Placed
  <2>4. QueuedHasJob
    BY <2>2, <2>3 DEF QueuedHasJob
  <2>5. RepairHeld
    BY <1>1 DEF IInv, RepairsHeld, Awaited, RepairHeld
  <2>6. ASSUME NEW k \in Fresh
        PROVE  /\ k \in Keys \ auth.mislaid
               /\ auth.records[k].state = "Loading" <=> auth.records[k].flight # {}
               /\ auth.records[k].state = "Queued" => auth.records[k].queued # {}
    BY <2>1, <2>6 DEF Good, Fine, Sound, Unheld, Fresh
  <2>7. FreshQueued
    BY <2>2, <2>3, <2>6 DEF FreshQueued
  <2>8. FreshLoading
    <3>1. \A k \in Fresh : k \in Keys
      BY DEF Fresh
    <3> QED BY <1>1, <2>6, <3>1 DEF IInv, LoadsHeld, Awaited, FreshLoading, LoadedInVain
  <2> QED BY <2>4, <2>5, <2>7, <2>8 DEF FirstLoadIsUnderWay
<1> QED BY <1>1, InductiveInvariant, PTL
=============================================================================
