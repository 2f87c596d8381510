------------------------ MODULE NodeResources_proofs ------------------------
(***************************************************************************)
(* What is assigned on a node has one owner and the books of the managers  *)
(* add up, for any devices, containers, CPUs, NUMA nodes and pods, and     *)
(* through any sequence of allocations, failures and releases.             *)
(***************************************************************************)
EXTENDS NodeResources, FiniteSetTheorems, WellFoundedInduction, TLAPS

(***************************************************************************)
(* Folds over a finite set, and the sums made of them.                     *)
(***************************************************************************)
\* Every set of numbers has a least element.
LEMMA LeastNumber ==
  ASSUME NEW S \in SUBSET Nat, S # {}
  PROVE  \E n \in S : \A m \in S : n =< m
  <1>1. PICK n \in S : \A m \in S : ~ (<<m, n>> \in OpToRel(<, Nat))
    BY NatLessThanWellFounded, WFMin
  <1>2. \A m \in S : ~ (m < n)
    BY <1>1 DEF OpToRel
  <1> QED
    BY <1>2

\* A set of subsets of a finite set has a member that contains no other one.
LEMMA SmallestSet ==
  ASSUME NEW S, IsFiniteSet(S), NEW B \in SUBSET (SUBSET S), B # {}
  PROVE  \E s \in B : \A t \in SUBSET s : t # s => t \notin B
  <1> DEFINE sizes == {Cardinality(s) : s \in B}
  <1>1. \A s \in SUBSET S : IsFiniteSet(s) /\ Cardinality(s) \in Nat
    BY FS_Subset, FS_CardinalityType
  <1>2. sizes \in SUBSET Nat /\ sizes # {}
    BY <1>1
  <1>3. PICK n \in sizes : \A m \in sizes : n =< m
    <2> HIDE DEF sizes
    <2> QED
      BY <1>2, LeastNumber
  <1>4. PICK s \in B : Cardinality(s) = n
    OBVIOUS
  <1>5. ASSUME NEW t \in SUBSET s, t # s, t \in B
        PROVE  FALSE
    <2>1. Cardinality(t) < Cardinality(s)
      BY <1>1, <1>5, FS_Subset
    <2>2. Cardinality(s) =< Cardinality(t)
      BY <1>3, <1>4, <1>5
    <2> QED
      BY <1>1, <2>1, <2>2
  <1> QED
    BY <1>5

\* A fold over the subsets of S: each is reduced by the element that ch takes.
Folds(g, S, base, G, ch) ==
  \A s \in SUBSET S : g[s] = IF s = {} THEN base ELSE G[s][g[s \ {ch[s]}]]

\* There is one, ...
LEMMA FoldExists ==
  ASSUME NEW S, IsFiniteSet(S), NEW Acc, NEW base \in Acc, NEW G \in [SUBSET S -> [Acc -> Acc]],
         NEW ch, \A s \in SUBSET S : s # {} => ch[s] \in s
  PROVE  \E g \in [SUBSET S -> Acc] : Folds(g, S, base, G, ch)
  <1> DEFINE D(n) == {s \in SUBSET S : Cardinality(s) =< n}
             Good(n, g) == \A s \in D(n) : g[s] = IF s = {} THEN base ELSE G[s][g[s \ {ch[s]}]]
             Able(n) == \E g \in [D(n) -> Acc] : Good(n, g)
  <1>1. \A s \in SUBSET S : IsFiniteSet(s) /\ Cardinality(s) \in Nat /\ (Cardinality(s) = 0 <=> s = {})
    BY FS_Subset, FS_CardinalityType, FS_EmptySet
  <1>2. \A s \in SUBSET S : s # {} => s \ {ch[s]} \in SUBSET S /\ Cardinality(s \ {ch[s]}) = Cardinality(s) - 1
    <2> SUFFICES ASSUME NEW s \in SUBSET S, s # {}
                 PROVE  Cardinality(s \ {ch[s]}) = Cardinality(s) - 1
      OBVIOUS
    <2> QED
      BY <1>1, FS_RemoveElement
  <1>3. Able(0)
    <2>1. \A s \in D(0) : s = {}
      BY <1>1
    <2>2. [s \in D(0) |-> base] \in [D(0) -> Acc] /\ Good(0, [s \in D(0) |-> base])
      BY <2>1
    <2> QED
      BY <2>2
  <1>4. ASSUME NEW n \in Nat, Able(n)
        PROVE  Able(n + 1)
    <2>0. PICK g \in [D(n) -> Acc] : Good(n, g)
      BY <1>4
    <2> DEFINE h == [s \in D(n + 1) |-> IF s \in D(n) THEN g[s] ELSE G[s][g[s \ {ch[s]}]]]
    <2>1. \A s \in D(n + 1) : s # {} => s \ {ch[s]} \in D(n)
      BY <1>1, <1>2
    <2>2. {} \in D(n) /\ \A s \in D(n) : s \in D(n + 1)
      BY <1>1
    <2>3. h \in [D(n + 1) -> Acc]
      <3> SUFFICES ASSUME NEW s \in D(n + 1), s \notin D(n)
                   PROVE  G[s][g[s \ {ch[s]}]] \in Acc
        OBVIOUS
      <3>1. g[s \ {ch[s]}] \in Acc
        BY <2>1, <2>2
      <3>2. G[s] \in [Acc -> Acc]
        OBVIOUS
      <3> QED
        BY <3>1, <3>2
    <2>4. Good(n + 1, h)
      <3> SUFFICES ASSUME NEW s \in D(n + 1)
                   PROVE  h[s] = IF s = {} THEN base ELSE G[s][h[s \ {ch[s]}]]
        OBVIOUS
      <3>1. s # {} => s \ {ch[s]} \in D(n) /\ s \ {ch[s]} \in D(n + 1)
        BY <2>1, <2>2
      <3>2. CASE s \in D(n)
        BY <3>1, <3>2, <2>0
      <3>3. CASE s \notin D(n)
        BY <3>1, <3>3, <2>2
      <3> QED
        BY <3>2, <3>3
    <2> QED
      BY <2>3, <2>4
  <1>5. ASSUME NEW m \in Nat
        PROVE  Able(m)
    <2> HIDE DEF Able
    <2>1. \A n \in Nat : Able(n) => Able(n + 1)
      BY <1>4
    <2> DEFINE bad == {n \in Nat : ~ Able(n)}
    <2> SUFFICES ASSUME bad # {} PROVE FALSE
      OBVIOUS
    <2>2. PICK n \in bad : \A k \in bad : n =< k
      BY LeastNumber
    <2>3. n \in Nat /\ n # 0
      BY <1>3
    <2>4. n - 1 \in Nat /\ (n - 1) + 1 = n /\ n - 1 \notin bad
      BY <2>2, <2>3
    <2> QED
      BY <2>1, <2>4
  <1>6. Cardinality(S) \in Nat /\ D(Cardinality(S)) = SUBSET S
    <2>1. Cardinality(S) \in Nat
      BY FS_CardinalityType
    <2>2. \A s \in SUBSET S : Cardinality(s) =< Cardinality(S)
      BY FS_Subset
    <2> QED
      BY <2>1, <2>2
  <1>7. PICK g \in [D(Cardinality(S)) -> Acc] : Good(Cardinality(S), g)
    BY <1>5, <1>6
  <1> QED
    BY <1>6, <1>7 DEF Folds

\* ... and what it gives is an accumulator.
LEMMA FoldTyped ==
  ASSUME NEW S, IsFiniteSet(S), NEW Acc, NEW base \in Acc, NEW G \in [SUBSET S -> [Acc -> Acc]],
         NEW ch, \A s \in SUBSET S : s # {} => ch[s] \in s,
         NEW g, Folds(g, S, base, G, ch)
  PROVE  \A s \in SUBSET S : g[s] \in Acc
  <1> DEFINE bad == {s \in SUBSET S : g[s] \notin Acc}
  <1> SUFFICES ASSUME bad # {} PROVE FALSE
    OBVIOUS
  <1>1. PICK s \in bad : \A t \in SUBSET s : t # s => t \notin bad
    <2>1. bad \in SUBSET (SUBSET S)
      OBVIOUS
    <2> HIDE DEF bad
    <2> QED
      BY <2>1, SmallestSet
  <1>2. CASE s = {}
    BY <1>2 DEF Folds
  <1>3. CASE s # {}
    <2>1. g[s \ {ch[s]}] \in Acc
      BY <1>1, <1>3
    <2>2. g[s] = G[s][g[s \ {ch[s]}]] /\ G[s] \in [Acc -> Acc]
      BY <1>3 DEF Folds
    <2> QED
      BY <2>1, <2>2
  <1> QED
    BY <1>2, <1>3

\* The fold that a sum over s is: it takes one element after the other.
Adds(g, f, S) ==
  \A s \in SUBSET S : g[s] \in Nat /\ g[s] = IF s = {} THEN 0 ELSE f[CHOOSE x \in s : TRUE] + g[s \ {CHOOSE x \in s : TRUE}]

\* What SumFunctionOnSet gives is made by such a fold.
LEMMA SumAdds ==
  ASSUME NEW S, IsFiniteSet(S), NEW f, \A x \in S : f[x] \in Nat
  PROVE  \E g : Adds(g, f, S) /\ SumFunctionOnSet(f, S) = g[S]
  <1> DEFINE ch == [s \in SUBSET S |-> CHOOSE x \in s : TRUE]
             G == [s \in SUBSET S |-> [a \in Nat |-> IF s = {} THEN 0 ELSE f[ch[s]] + a]]
             Sums(g) == g = [s \in SUBSET S |-> IF s = {} THEN 0 ELSE f[CHOOSE x \in s : TRUE] + g[s \ {CHOOSE x \in s : TRUE}]]
             it == CHOOSE g : Sums(g)
  <1>1. \A s \in SUBSET S : s # {} => ch[s] \in s /\ ch[s] = CHOOSE x \in s : TRUE
    OBVIOUS
  <1>2. G \in [SUBSET S -> [Nat -> Nat]]
    <2>1. ASSUME NEW s \in SUBSET S, NEW a \in Nat
          PROVE  (IF s = {} THEN 0 ELSE f[ch[s]] + a) \in Nat
      <3>1. CASE s = {}
        BY <3>1
      <3>2. CASE s # {}
        <4>1. f[ch[s]] \in Nat
          BY <1>1, <3>2
        <4> QED
          BY <3>2, <4>1
      <3> QED
        BY <3>1, <3>2
    <2> QED
      BY <2>1
  <1>3. \E g : Sums(g)
    <2> HIDE DEF G, ch
    <2>1. PICK g \in [SUBSET S -> Nat] : Folds(g, S, 0, G, ch)
      <3>1. 0 \in Nat
        OBVIOUS
      <3> QED
        BY <1>1, <1>2, <3>1, FoldExists
    <2>2. ASSUME NEW s \in SUBSET S, s # {}
          PROVE  g[s] = f[ch[s]] + g[s \ {ch[s]}]
      <3>1. s \ {ch[s]} \in SUBSET S /\ g[s \ {ch[s]}] \in Nat
        BY <2>1
      <3> QED
        BY <2>1, <2>2, <3>1 DEF Folds, G
    <2>3. \A s \in SUBSET S : g[s] = IF s = {} THEN 0 ELSE f[CHOOSE x \in s : TRUE] + g[s \ {CHOOSE x \in s : TRUE}]
      BY <1>1, <2>1, <2>2 DEF Folds
    <2>4. Sums(g)
      BY <2>1, <2>3
    <2> QED
      BY <2>4
  <1>4. Sums(it)
    BY <1>3
  <1>5. SumFunctionOnSet(f, S) = it[S]
    BY DEF SumFunctionOnSet, FoldFunctionOnSet, MapThenFoldSet
  <1> HIDE DEF it
  <1>6. \A s \in SUBSET S : it[s] \in Nat
    <2> HIDE DEF G, ch
    <2> DEFINE bad == {s \in SUBSET S : it[s] \notin Nat}
    <2> SUFFICES ASSUME bad # {} PROVE FALSE
      OBVIOUS
    <2>1. PICK s \in bad : \A t \in SUBSET s : t # s => t \notin bad
      <3>1. bad \in SUBSET (SUBSET S)
        OBVIOUS
      <3> HIDE DEF bad
      <3> QED
        BY <3>1, SmallestSet
    <2>2. CASE s = {}
      BY <1>4, <2>2
    <2>3. CASE s # {}
      <3>1. ch[s] \in s /\ it[s] = f[ch[s]] + it[s \ {ch[s]}]
        BY <1>1, <1>4, <2>3
      <3>2. it[s \ {ch[s]}] \in Nat /\ f[ch[s]] \in Nat
        BY <2>1, <3>1
      <3> QED
        BY <3>1, <3>2
    <2> QED
      BY <2>2, <2>3
  <1>7. Adds(it, f, S)
    BY <1>4, <1>6 DEF Adds
  <1> QED
    BY <1>5, <1>7

\* Two such folds agree where their functions do.
LEMMA AddsAgree ==
  ASSUME NEW S, NEW T, NEW f, NEW e, NEW g, NEW h, Adds(g, f, S), Adds(h, e, T),
         NEW u, u \subseteq S, u \subseteq T, IsFiniteSet(u), \A x \in u : f[x] = e[x]
  PROVE  g[u] = h[u]
  <1> DEFINE bad == {s \in SUBSET u : g[s] # h[s]}
  <1> SUFFICES ASSUME bad # {} PROVE FALSE
    OBVIOUS
  <1>1. PICK s \in bad : \A t \in SUBSET s : t # s => t \notin bad
    <2>1. bad \in SUBSET (SUBSET u)
      OBVIOUS
    <2> HIDE DEF bad
    <2> QED
      BY <2>1, SmallestSet
  <1>2. CASE s = {}
    BY <1>2 DEF Adds
  <1>3. CASE s # {}
    <2> DEFINE c == CHOOSE x \in s : TRUE
    <2>1. c \in s
      BY <1>3
    <2>2. g[s] = f[c] + g[s \ {c}] /\ h[s] = e[c] + h[s \ {c}]
      BY <1>3 DEF Adds
    <2> HIDE DEF c
    <2>3. g[s \ {c}] = h[s \ {c}] /\ f[c] = e[c]
      BY <1>1, <2>1
    <2> QED
      BY <2>2, <2>3
  <1> QED
    BY <1>2, <1>3

\* The order does not matter.
LEMMA AddsAny ==
  ASSUME NEW S, IsFiniteSet(S), NEW f, \A x \in S : f[x] \in Nat, NEW g, Adds(g, f, S)
  PROVE  \A s \in SUBSET S : \A x \in s : g[s] = f[x] + g[s \ {x}]
  <1> DEFINE AnyWay(t) == \A y \in t : g[t] = f[y] + g[t \ {y}]
             bad == {s \in SUBSET S : ~ AnyWay(s)}
  <1> SUFFICES ASSUME bad # {} PROVE FALSE
    OBVIOUS
  <1>1. PICK s \in bad : \A t \in SUBSET s : t # s => t \notin bad
    <2>1. bad \in SUBSET (SUBSET S)
      OBVIOUS
    <2> HIDE DEF bad
    <2> QED
      BY <2>1, SmallestSet
  <1>2. PICK x \in s : g[s] # f[x] + g[s \ {x}]
    OBVIOUS
  <1> DEFINE c == CHOOSE y \in s : TRUE
  <1>3. c \in s /\ g[s] = f[c] + g[s \ {c}]
    BY <1>2 DEF Adds
  <1> HIDE DEF c
  <1>4. x # c
    BY <1>2, <1>3
  <1>5. AnyWay(s \ {c}) /\ AnyWay(s \ {x})
    BY <1>1, <1>2, <1>3
  <1>6. x \in s \ {c} /\ c \in s \ {x} /\ (s \ {c}) \ {x} = (s \ {x}) \ {c}
    BY <1>2, <1>3, <1>4
  <1>7. g[s \ {c}] = f[x] + g[(s \ {c}) \ {x}] /\ g[s \ {x}] = f[c] + g[(s \ {c}) \ {x}]
    BY <1>5, <1>6
  <1>8. f[x] \in Nat /\ f[c] \in Nat /\ g[(s \ {c}) \ {x}] \in Nat
    BY <1>2, <1>3 DEF Adds
  <1> QED
    BY <1>2, <1>3, <1>7, <1>8

\* A sum, one element taken out of it.
LEMMA SumTakes ==
  ASSUME NEW S, IsFiniteSet(S), NEW f, \A x \in S : f[x] \in Nat
  PROVE  /\ SumFunctionOnSet(f, S) \in Nat
         /\ S = {} => SumFunctionOnSet(f, S) = 0
         /\ \A x \in S : SumFunctionOnSet(f, S) = f[x] + SumFunctionOnSet(f, S \ {x})
  <1>1. PICK g : Adds(g, f, S) /\ SumFunctionOnSet(f, S) = g[S]
    BY SumAdds
  <1>2. ASSUME NEW x \in S
        PROVE  SumFunctionOnSet(f, S) = f[x] + SumFunctionOnSet(f, S \ {x})
    <2>1. IsFiniteSet(S \ {x})
      BY FS_Subset
    <2>2. PICK h : Adds(h, f, S \ {x}) /\ SumFunctionOnSet(f, S \ {x}) = h[S \ {x}]
      BY <2>1, SumAdds
    <2>3. g[S \ {x}] = h[S \ {x}]
      BY <1>1, <2>1, <2>2, AddsAgree
    <2> QED
      BY <1>1, <2>2, <2>3, AddsAny
  <1> QED
    BY <1>1, <1>2 DEF Adds

\* A sum depends on the values of its elements alone.
LEMMA SumLike ==
  ASSUME NEW S, IsFiniteSet(S), NEW f, NEW e, \A x \in S : f[x] \in Nat /\ f[x] = e[x]
  PROVE  SumFunctionOnSet(f, S) = SumFunctionOnSet(e, S)
  <1>1. PICK g : Adds(g, f, S) /\ SumFunctionOnSet(f, S) = g[S]
    BY SumAdds
  <1>2. PICK h : Adds(h, e, S) /\ SumFunctionOnSet(e, S) = h[S]
    BY SumAdds
  <1> QED
    BY <1>1, <1>2, AddsAgree

\* The sum of sums.
LEMMA SumBoth ==
  ASSUME NEW S, IsFiniteSet(S), NEW f, NEW e, NEW h,
         \A x \in S : f[x] \in Nat /\ e[x] \in Nat /\ h[x] = f[x] + e[x]
  PROVE  SumFunctionOnSet(h, S) = SumFunctionOnSet(f, S) + SumFunctionOnSet(e, S)
  <1> DEFINE Both(t) == SumFunctionOnSet(h, t) = SumFunctionOnSet(f, t) + SumFunctionOnSet(e, t)
             bad == {s \in SUBSET S : ~ Both(s)}
  <1> SUFFICES ASSUME bad # {} PROVE FALSE
    OBVIOUS
  <1>1. PICK s \in bad : \A t \in SUBSET s : t # s => t \notin bad
    <2>1. bad \in SUBSET (SUBSET S)
      OBVIOUS
    <2> HIDE DEF bad
    <2> QED
      BY <2>1, SmallestSet
  <1>2. IsFiniteSet(s) /\ \A x \in s : f[x] \in Nat /\ e[x] \in Nat /\ h[x] \in Nat /\ h[x] = f[x] + e[x]
    BY FS_Subset
  <1>3. CASE s = {}
    BY <1>2, <1>3, SumTakes
  <1>4. CASE s # {}
    <2>1. PICK x \in s : TRUE
      BY <1>4
    <2>2. Both(s \ {x})
      BY <1>1
    <2>3. IsFiniteSet(s \ {x})
      BY <1>2, FS_Subset
    <2>4. SumFunctionOnSet(f, s \ {x}) \in Nat /\ SumFunctionOnSet(e, s \ {x}) \in Nat
      BY <1>2, <2>3, SumTakes
    <2>5. /\ SumFunctionOnSet(h, s) = h[x] + SumFunctionOnSet(h, s \ {x})
          /\ SumFunctionOnSet(f, s) = f[x] + SumFunctionOnSet(f, s \ {x})
          /\ SumFunctionOnSet(e, s) = e[x] + SumFunctionOnSet(e, s \ {x})
      BY <1>2, SumTakes
    <2>6. Both(s)
      BY <1>2, <2>2, <2>4, <2>5
    <2> QED
      BY <2>6
  <1> QED
    BY <1>3, <1>4

(***************************************************************************)
(* Devices.                                                                *)
(***************************************************************************)
\* What the calls that are out have taken for container k.
Awaited(k) == UNION {c.ids : c \in {d \in calls : d.key = k}}

DeviceTypes ==
  /\ endpoint \in [known : BOOLEAN, healthy : SUBSET Devices, allocations : [Keys -> SUBSET Devices]]
  /\ podAllocations \in [Keys -> SUBSET Devices]
  /\ calls \subseteq [key : Keys, ids : SUBSET Devices]
  /\ plugin \in [up : BOOLEAN, sock : BOOLEAN, healthy : SUBSET Devices]

\* The inductive invariant: what a container holds is recorded or awaited.
DeviceInv ==
  /\ DeviceTypes
  /\ DevicesExclusive
  /\ \A k \in Keys : endpoint.allocations[k] \subseteq podAllocations[k] \cup Awaited(k)

\* It says what a run shows of the books.
LEMMA DeviceInvBooks ==
  ASSUME DeviceInv
  PROVE  DeviceBooks
  <1> SUFFICES ASSUME NEW k \in Keys, \A c \in calls : c.key # k
               PROVE  endpoint.allocations[k] \subseteq podAllocations[k]
    BY DEF DeviceBooks
  <1>1. Awaited(k) = {}
    BY DEF Awaited
  <1> QED
    BY <1>1 DEF DeviceInv

\* An endpoint without allocations, and what is recorded either kept or forgotten.
FreshEndpoint ==
  /\ endpoint' \in {NewEndpoint, NoEndpoint}
  /\ \/ UNCHANGED <<podAllocations, calls>>
     \/ podAllocations' = NoAllocations /\ calls' = {}

\* A new endpoint has no allocations.
LEMMA FreshKeepsDevices ==
  ASSUME DeviceInv, FreshEndpoint, plugin' = plugin
  PROVE  DeviceInv'
  <1>0. NoAllocations \in [Keys -> SUBSET Devices] /\ \A k \in Keys : NoAllocations[k] = {}
    BY DEF NoAllocations
  <1>1. /\ endpoint' \in [known : BOOLEAN, healthy : SUBSET Devices, allocations : [Keys -> SUBSET Devices]]
        /\ endpoint'.allocations = NoAllocations
    <2> HIDE DEF NoAllocations
    <2>1. CASE endpoint' = NewEndpoint
      BY <1>0, <2>1 DEF NewEndpoint
    <2>2. CASE endpoint' = NoEndpoint
      BY <1>0, <2>2 DEF NoEndpoint
    <2> QED
      BY <2>1, <2>2 DEF FreshEndpoint
  <1>2. \A k \in Keys : endpoint'.allocations[k] = {}
    BY <1>0, <1>1
  <1>3. podAllocations' \in [Keys -> SUBSET Devices] /\ calls' \subseteq [key : Keys, ids : SUBSET Devices]
    BY <1>0 DEF FreshEndpoint, DeviceInv, DeviceTypes
  <1>4. DeviceTypes'
    BY <1>1, <1>3 DEF DeviceInv, DeviceTypes
  <1> QED
    BY <1>2, <1>4 DEF DeviceInv, DevicesExclusive

\* Devices that no container has are taken for one.
LEMMA BeginKeepsDevices ==
  ASSUME DeviceInv, NEW k \in Keys, AllocateBegin(k)
  PROVE  DeviceInv'
  <1>1. PICK ids \in AllocateDevices(Demand[k]) :
               /\ endpoint' = [endpoint EXCEPT !.allocations[k] = ids]
               /\ calls' = calls \cup {[key |-> k, ids |-> ids]}
    BY DEF AllocateBegin
  <1>2. podAllocations' = podAllocations /\ plugin' = plugin
    BY DEF AllocateBegin
  <1>3. ids \subseteq endpoint.healthy /\ \A l \in Keys : ids \cap endpoint.allocations[l] = {}
    BY DEF AllocateDevices, Allocated
  <1>4. ids \in SUBSET Devices
    BY <1>3 DEF DeviceInv, DeviceTypes
  <1>5. DeviceTypes'
    BY <1>1, <1>2, <1>4 DEF DeviceInv, DeviceTypes
  <1>6. endpoint'.allocations[k] = ids /\ \A l \in Keys : l # k => endpoint'.allocations[l] = endpoint.allocations[l]
    BY <1>1 DEF DeviceInv, DeviceTypes
  <1>7. DevicesExclusive'
    BY <1>3, <1>6 DEF DeviceInv, DevicesExclusive
  <1>8. \A l \in Keys : Awaited(l) \subseteq Awaited(l)'
    BY <1>1 DEF Awaited
  <1>9. ids \subseteq Awaited(k)'
    BY <1>1 DEF Awaited
  <1> QED
    BY <1>2, <1>5, <1>6, <1>7, <1>8, <1>9 DEF DeviceInv

\* The answer records what was awaited.
LEMMA DoneKeepsDevices ==
  ASSUME DeviceInv, NEW c \in calls, AllocateDone(c)
  PROVE  DeviceInv'
  <1>1. /\ calls' = calls \ {c} /\ podAllocations' = [podAllocations EXCEPT ![c.key] = @ \cup c.ids]
        /\ UNCHANGED <<endpoint, plugin>>
    BY DEF AllocateDone
  <1>2. c.key \in Keys /\ c.ids \in SUBSET Devices
    BY DEF DeviceInv, DeviceTypes
  <1>3. DeviceTypes'
    BY <1>1, <1>2 DEF DeviceInv, DeviceTypes
  <1>4. ASSUME NEW k \in Keys
        PROVE  podAllocations[k] \cup Awaited(k) \subseteq podAllocations'[k] \cup Awaited(k)'
    <2>1. podAllocations[k] \subseteq podAllocations'[k] /\ (k = c.key => c.ids \subseteq podAllocations'[k])
      BY <1>1, <1>2 DEF DeviceInv, DeviceTypes
    <2>2. ASSUME NEW d \in calls, d.key = k
          PROVE  d.ids \subseteq podAllocations'[k] \cup Awaited(k)'
      BY <1>1, <2>1, <2>2 DEF Awaited
    <2> QED
      BY <2>1, <2>2 DEF Awaited
  <1> QED
    BY <1>1, <1>3, <1>4 DEF DeviceInv, DevicesExclusive

\* A failure takes them back.
LEMMA FailedKeepsDevices ==
  ASSUME DeviceInv, NEW c \in calls, AllocateFailed(c)
  PROVE  DeviceInv'
  <1>1. /\ calls' = calls \ {c} /\ endpoint' = [endpoint EXCEPT !.allocations[c.key] = {}]
        /\ UNCHANGED <<podAllocations, plugin>>
    BY DEF AllocateFailed
  <1>2. c.key \in Keys
    BY DEF DeviceInv, DeviceTypes
  <1>3. DeviceTypes'
    BY <1>1, <1>2 DEF DeviceInv, DeviceTypes
  <1>4. endpoint'.allocations[c.key] = {} /\ \A l \in Keys : l # c.key => endpoint'.allocations[l] = endpoint.allocations[l]
    BY <1>1, <1>2 DEF DeviceInv, DeviceTypes
  <1>5. \A l \in Keys : l # c.key => Awaited(l) \subseteq Awaited(l)'
    BY <1>1 DEF Awaited
  <1> QED
    BY <1>1, <1>3, <1>4, <1>5 DEF DeviceInv, DevicesExclusive

\* A release takes what is recorded, from both maps.
LEMMA DeallocateKeepsDevices ==
  ASSUME DeviceInv, NEW p, DeallocatePod(p)
  PROVE  DeviceInv'
  <1>1. /\ endpoint' = [endpoint EXCEPT !.allocations = [k \in Keys |-> @[k] \ Released(p)[k]]]
        /\ podAllocations' = [k \in Keys |-> IF PodOfKey(k) = p THEN {} ELSE podAllocations[k]]
        /\ UNCHANGED <<calls, plugin>>
    BY DEF DeallocatePod
  <1>2. \A k \in Keys : endpoint'.allocations[k] = endpoint.allocations[k] \ Released(p)[k]
    BY <1>1 DEF DeviceInv, DeviceTypes
  <1>3. DeviceTypes'
    BY <1>1 DEF DeviceInv, DeviceTypes
  <1>4. \A k \in Keys : endpoint'.allocations[k] \subseteq endpoint.allocations[k]
    BY <1>2
  <1>5. \A k \in Keys : Awaited(k)' = Awaited(k)
    BY <1>1 DEF Awaited
  <1>6. ASSUME NEW k \in Keys
        PROVE  endpoint'.allocations[k] \subseteq podAllocations'[k] \cup Awaited(k)'
    <2>1. CASE PodOfKey(k) = p
      BY <1>2, <1>5, <2>1 DEF Released, DeviceInv
    <2>2. CASE PodOfKey(k) # p
      BY <1>1, <1>4, <1>5, <2>2 DEF DeviceInv
    <2> QED
      BY <2>1, <2>2
  <1> QED
    BY <1>3, <1>4, <1>6 DEF DeviceInv, DevicesExclusive

\* A device list replaces the one before.
LEMMA HealthKeepsDevices ==
  ASSUME DeviceInv, NEW h \in SUBSET Devices, endpoint' = [endpoint EXCEPT !.healthy = h],
         UNCHANGED <<podAllocations, calls, plugin>>
  PROVE  DeviceInv'
  <1>1. DeviceTypes' /\ endpoint'.allocations = endpoint.allocations
    BY DEF DeviceInv, DeviceTypes
  <1>2. \A k \in Keys : Awaited(k)' = Awaited(k)
    BY DEF Awaited
  <1> QED
    BY <1>1, <1>2 DEF DeviceInv, DevicesExclusive

\* The plugin comes, goes and changes its list.
LEMMA PluginKeepsDevices ==
  ASSUME DeviceInv, UNCHANGED <<endpoint, podAllocations, calls>>,
         plugin' \in [up : BOOLEAN, sock : BOOLEAN, healthy : SUBSET Devices]
  PROVE  DeviceInv'
  <1>1. DeviceTypes'
    BY DEF DeviceInv, DeviceTypes
  <1>2. \A k \in Keys : Awaited(k)' = Awaited(k)
    BY DEF Awaited
  <1> QED
    BY <1>1, <1>2 DEF DeviceInv, DevicesExclusive

\* Every step of the worker, the plugin and the kubelet keeps the invariant.
LEMMA DeviceStep ==
  ASSUME DeviceInv, DeviceSteps \/ WatchUpdate \/ DeviceWorld \/ AllocationSteps
  PROVE  DeviceInv'
  <1>0. plugin \in [up : BOOLEAN, sock : BOOLEAN, healthy : SUBSET Devices]
    BY DEF DeviceInv, DeviceTypes
  <1>1. CASE Serve \/ Register
    BY <1>0, <1>1, PluginKeepsDevices DEF Serve, Register
  <1>2. CASE RegisterTask \/ ScanAndRegister
    <2>1. endpoint' = NewEndpoint /\ podAllocations' = podAllocations /\ calls' = calls /\ plugin' = plugin
      BY <1>2 DEF RegisterTask, ScanAndRegister, RegisterPlugin
    <2>2. FreshEndpoint
      BY <2>1 DEF FreshEndpoint
    <2> QED
      BY <2>1, <2>2, FreshKeepsDevices
  <1>3. CASE RediscoverPlugins
    <2>1. CASE registryFile /\ plugin.sock
      <3>1. endpoint' = NewEndpoint /\ podAllocations' = podAllocations /\ calls' = calls /\ plugin' = plugin
        BY <1>3, <2>1 DEF RediscoverPlugins, RegisterPlugin
      <3>2. FreshEndpoint
        BY <3>1 DEF FreshEndpoint
      <3> QED
        BY <3>1, <3>2, FreshKeepsDevices
    <2>2. CASE ~ (registryFile /\ plugin.sock)
      BY <1>0, <1>3, <2>2, PluginKeepsDevices DEF RediscoverPlugins
    <2> QED
      BY <2>1, <2>2
  <1>4. CASE WatchEnds \/ PluginStarts \/ PluginStops
    BY <1>0, <1>4, PluginKeepsDevices DEF WatchEnds, PluginStarts, PluginStops
  <1>5. CASE WatchUpdate \/ RefreshPluginDevices
    <2>1. plugin.healthy \in SUBSET Devices
      BY <1>0
    <2> QED
      BY <1>5, <2>1, HealthKeepsDevices DEF WatchUpdate, RefreshPluginDevices
  <1>6. CASE HealthChanges
    <2>1. PICK h \in SUBSET Devices : plugin' = [plugin EXCEPT !.healthy = h]
      BY <1>6, DeviceAssumption DEF HealthChanges
    <2> QED
      BY <1>0, <1>6, <2>1, PluginKeepsDevices DEF HealthChanges
  <1>7. CASE KubeletStops
    <2>1. FreshEndpoint /\ plugin' = plugin
      BY <1>7 DEF KubeletStops, FreshEndpoint
    <2> QED
      BY <2>1, FreshKeepsDevices
  <1>8. CASE AllocationSteps
    BY <1>8, BeginKeepsDevices, DoneKeepsDevices, FailedKeepsDevices, DeallocateKeepsDevices DEF AllocationSteps
  <1> QED
    BY <1>1, <1>2, <1>3, <1>4, <1>5, <1>6, <1>7, <1>8 DEF DeviceSteps, DeviceWorld

\* So does every step of the resource manager.
LEMMA DeviceStepOfManager ==
  ASSUME DeviceInv, ResourceNext
  PROVE  DeviceInv'
  <1>0. plugin \in [up : BOOLEAN, sock : BOOLEAN, healthy : SUBSET Devices]
    BY DEF DeviceInv, DeviceTypes
  <1>1. CASE UNCHANGED deviceVars
    BY <1>0, <1>1, PluginKeepsDevices DEF deviceVars
  <1>2. ASSUME NEW k \in Keys, DevicesBegin(k)
        PROVE  DeviceInv'
    BY <1>1, <1>2, BeginKeepsDevices DEF DevicesBegin
  <1>3. ASSUME NEW c \in calls, DevicesEnd(c)
        PROVE  DeviceInv'
    BY <1>3, DoneKeepsDevices, FailedKeepsDevices DEF DevicesEnd
  <1>4. ASSUME NEW p, ReleasePod(p)
        PROVE  DeviceInv'
    BY <1>4, DeallocateKeepsDevices DEF ReleasePod
  <1> QED
    BY <1>1, <1>2, <1>3, <1>4 DEF ResourceNext

(***************************************************************************)
(* Exclusive CPUs.                                                         *)
(***************************************************************************)
Assigned == UNION {cpuAssignments[k] : k \in DOMAIN cpuAssignments}

\* The inductive invariant: pool and assignments part the CPUs that are not
\* kept for the system.
CpuInv ==
  /\ \A k \in DOMAIN cpuAssignments : cpuAssignments[k] \cap availableCpus = {}
  /\ \A k, l \in DOMAIN cpuAssignments : k # l => cpuAssignments[k] \cap cpuAssignments[l] = {}
  /\ availableCpus \cup Assigned = Cpus \ Reserved

\* A finite set of numbers has a greatest element, ...
LEMMA GreatestNumber ==
  ASSUME NEW S \in SUBSET Nat, IsFiniteSet(S), S # {}
  PROVE  \E n \in S : \A m \in S : n >= m
  <1> DEFINE Topped(t) == \E n \in t : \A m \in t : n >= m
             bad == {s \in SUBSET S : s # {} /\ ~ Topped(s)}
  <1> SUFFICES ASSUME bad # {} PROVE FALSE
    OBVIOUS
  <1>1. PICK s \in bad : \A t \in SUBSET s : t # s => t \notin bad
    <2>1. bad \in SUBSET (SUBSET S)
      OBVIOUS
    <2> HIDE DEF bad
    <2> QED
      BY <2>1, SmallestSet
  <1>2. PICK x \in s : TRUE
    OBVIOUS
  <1>3. CASE s = {x}
    BY <1>3
  <1>4. CASE s # {x}
    <2>1. PICK n \in s \ {x} : \A m \in s \ {x} : n >= m
      <3>1. s \ {x} \in SUBSET s /\ s \ {x} # s /\ s \ {x} # {}
        BY <1>2, <1>4
      <3> QED
        BY <1>1, <3>1
    <2>2. x \in Nat /\ n \in Nat /\ \A m \in s : m \in Nat
      BY <1>2, <2>1
    <2>3. CASE n >= x
      BY <2>1, <2>2, <2>3
    <2>4. CASE x >= n
      BY <1>2, <2>1, <2>2, <2>4
    <2> QED
      BY <2>2, <2>3, <2>4
  <1> QED
    BY <1>3, <1>4

\* ... and so has the library's name for it, and for the least one.
LEMMA MaxAndMin ==
  ASSUME NEW S \in SUBSET Nat, IsFiniteSet(S), S # {}
  PROVE  Max(S) \in S /\ Min(S) \in S
  BY GreatestNumber, LeastNumber DEF Max, Min

\* What a cpuset file names is in the set it was written from.
LEMMA CpusetNames ==
  ASSUME NEW S \in SUBSET Nat, IsFiniteSet(S)
  PROVE  ParseCpuset(ToCpusetString(S)) \subseteq S
  <1>1. CASE S = {}
    BY <1>1 DEF ToCpusetString, ParseCpuset
  <1>2. CASE S # {}
    <2> DEFINE first == Min(S)
               R == S \ {first}
               base == [parts |-> <<>>, start |-> first, end |-> first]
               Acc == {a \in [parts : Seq(Nat \X Nat), start : Nat, end : Nat] :
                         /\ a.start .. a.end \subseteq S
                         /\ \A i \in DOMAIN a.parts : a.parts[i][1] .. a.parts[i][2] \subseteq S}
               ch == [s \in SUBSET R |-> Max(s)]
               G == [s \in SUBSET R |-> [a \in Acc |-> IF s = {} THEN a ELSE AddToRanges(ch[s], a)]]
               Names(g) == g = [s \in SUBSET R |-> IF s = {} THEN base ELSE AddToRanges(Max(s), g[s \ {Max(s)}])]
               it == CHOOSE g : Names(g)
    <2>1. first \in S /\ IsFiniteSet(R) /\ R \in SUBSET Nat
      BY <1>2, MaxAndMin, FS_Subset
    <2>2. \A s \in SUBSET R : s # {} => Max(s) \in s /\ ch[s] = Max(s)
      BY <2>1, MaxAndMin, FS_Subset
    <2>3. base \in Acc
      <3>0. first \in Nat
        BY <2>1
      <3>1. <<>> \in Seq(Nat \X Nat) /\ first \in Nat /\ first .. first = {first}
        <4> HIDE DEF first
        <4> QED
          BY <3>0
      <3>2. base.parts = <<>> /\ base.start = first /\ base.end = first /\ DOMAIN <<>> = {}
        OBVIOUS
      <3>3. base \in [parts : Seq(Nat \X Nat), start : Nat, end : Nat]
        BY <3>1
      <3> HIDE DEF base
      <3> QED
        BY <2>1, <3>1, <3>2, <3>3
    <2>4. ASSUME NEW cpu \in S, NEW a \in Acc
          PROVE  AddToRanges(cpu, a) \in Acc
      <3>0. cpu \in Nat /\ a.start \in Nat /\ a.end \in Nat /\ a.parts \in Seq(Nat \X Nat)
        OBVIOUS
      <3>1. CASE cpu = a.end + 1
        <4>1. AddToRanges(cpu, a) = [parts |-> a.parts, start |-> a.start, end |-> cpu]
          BY <3>1 DEF AddToRanges
        <4>2. a.start .. cpu \subseteq (a.start .. a.end) \cup {cpu}
          BY <3>0, <3>1
        <4> QED
          BY <3>0, <4>1, <4>2
      <3>2. CASE cpu # a.end + 1
        <4> DEFINE q == Append(a.parts, <<a.start, a.end>>)
        <4>1. AddToRanges(cpu, a) = [parts |-> q, start |-> cpu, end |-> cpu]
          BY <3>2 DEF AddToRanges
        <4>2. q \in Seq(Nat \X Nat)
          BY <3>0
        <4>3. \A i \in DOMAIN q : q[i] = <<a.start, a.end>> \/ (i \in DOMAIN a.parts /\ q[i] = a.parts[i])
          BY <3>0
        <4>4. cpu .. cpu = {cpu}
          BY <3>0
        <4>5. \A i \in DOMAIN q : q[i][1] .. q[i][2] \subseteq S
          BY <4>3
        <4> HIDE DEF q
        <4> QED
          BY <3>0, <4>1, <4>2, <4>4, <4>5
      <3> QED
        BY <3>1, <3>2
    <2>5. G \in [SUBSET R -> [Acc -> Acc]]
      <3>1. ASSUME NEW s \in SUBSET R, NEW a \in Acc
            PROVE  (IF s = {} THEN a ELSE AddToRanges(ch[s], a)) \in Acc
        <4>1. s # {} => ch[s] \in S
          BY <2>2
        <4> HIDE DEF Acc, ch
        <4> QED
          BY <2>4, <4>1
      <3> HIDE DEF Acc, ch
      <3> QED
        BY <3>1
    <2>6. \E g \in [SUBSET R -> Acc] : Folds(g, R, base, G, ch)
      <3>1. \A s \in SUBSET R : s # {} => ch[s] \in s
        BY <2>2
      <3> HIDE DEF R, base, G, ch, Acc
      <3> QED
        BY <2>1, <2>3, <2>5, <3>1, FoldExists
    <2>7. ASSUME NEW g \in [SUBSET R -> Acc], Folds(g, R, base, G, ch)
          PROVE  Names(g)
      <3>1. ASSUME NEW s \in SUBSET R, s # {}
            PROVE  g[s] = AddToRanges(Max(s), g[s \ {Max(s)}])
        <4>1. s \ {Max(s)} \in SUBSET R /\ g[s \ {Max(s)}] \in Acc
          BY <2>7
        <4> HIDE DEF Acc, R, base
        <4>2. ch[s] = Max(s)
          BY <2>2, <3>1
        <4>3. G[s][g[s \ {Max(s)}]] = AddToRanges(ch[s], g[s \ {Max(s)}])
          BY <3>1, <4>1
        <4> HIDE DEF G, ch
        <4> QED
          BY <2>7, <3>1, <4>2, <4>3 DEF Folds
      <3> HIDE DEF Acc, R, base, G, ch
      <3>2. \A s \in SUBSET R : g[s] = IF s = {} THEN base ELSE AddToRanges(Max(s), g[s \ {Max(s)}])
        BY <2>7, <3>1 DEF Folds
      <3> QED
        BY <2>7, <3>2
    <2>8. Names(it)
      <3> HIDE DEF Acc, R, base, G, ch, Names
      <3> QED
        BY <2>6, <2>7 DEF Names
    <2>9. \A s \in SUBSET R : it[s] \in Acc
      <3> DEFINE bad == {s \in SUBSET R : it[s] \notin Acc}
      <3> SUFFICES ASSUME bad # {} PROVE FALSE
        OBVIOUS
      <3>1. PICK s \in bad : \A t \in SUBSET s : t # s => t \notin bad
        <4>1. bad \in SUBSET (SUBSET R)
          OBVIOUS
        <4> HIDE DEF bad, R
        <4> QED
          BY <2>1, <4>1, SmallestSet
      <3> HIDE DEF Acc, base, it
      <3>2. CASE s = {}
        BY <2>3, <2>8, <3>1, <3>2
      <3>3. CASE s # {}
        <4>1. Max(s) \in s /\ it[s] = AddToRanges(Max(s), it[s \ {Max(s)}])
          BY <2>2, <2>8, <3>1, <3>3
        <4>2. it[s \ {Max(s)}] \in Acc /\ Max(s) \in S
          BY <3>1, <4>1
        <4> QED
          BY <2>4, <3>1, <4>1, <4>2
      <3> QED
        BY <3>2, <3>3
    <2> DEFINE last == it[R]
    <2>10. ToCpusetString(S) = Append(last.parts, <<last.start, last.end>>)
      BY <1>2 DEF ToCpusetString, MapThenFoldSet
    <2>11. last \in Acc
      BY <2>9
    <2> HIDE DEF last
    <2> DEFINE q == Append(last.parts, <<last.start, last.end>>)
    <2>12. \A i \in DOMAIN q : q[i] = <<last.start, last.end>> \/ (i \in DOMAIN last.parts /\ q[i] = last.parts[i])
      BY <2>11
    <2>13. \A i \in DOMAIN q : q[i][1] .. q[i][2] \subseteq S
      BY <2>11, <2>12
    <2> QED
      BY <2>10, <2>13 DEF ParseCpuset
  <1> QED
    BY <1>1, <1>2

\* CPUs move between the pool and a container.
LEMMA CpuStep ==
  ASSUME CpuInv, ResourceNext
  PROVE  CpuInv'
  <1>1. CASE UNCHANGED <<availableCpus, cpuAssignments>>
    BY <1>1 DEF CpuInv, Assigned
  <1>2. ASSUME NEW k \in Keys, NEW T \in SUBSET availableCpus, k \notin DOMAIN cpuAssignments,
               availableCpus' = availableCpus \ T, cpuAssignments' = With(cpuAssignments, k, T)
        PROVE  CpuInv'
    <2>1. /\ DOMAIN cpuAssignments' = DOMAIN cpuAssignments \cup {k} /\ cpuAssignments'[k] = T
          /\ \A x \in DOMAIN cpuAssignments : cpuAssignments'[x] = cpuAssignments[x]
      BY <1>2 DEF With
    <2>2. Assigned' = Assigned \cup T
      BY <2>1 DEF Assigned
    <2> QED
      BY <1>2, <2>1, <2>2 DEF CpuInv
  <1>3. ASSUME NEW K, availableCpus' = availableCpus \cup UNION {cpuAssignments[k] : k \in K \cap DOMAIN cpuAssignments},
               cpuAssignments' = Without(cpuAssignments, K)
        PROVE  CpuInv'
    <2>1. /\ DOMAIN cpuAssignments' = DOMAIN cpuAssignments \ K
          /\ \A x \in DOMAIN cpuAssignments \ K : cpuAssignments'[x] = cpuAssignments[x]
      BY <1>3 DEF Without
    <2>2. availableCpus' \cup Assigned' = availableCpus \cup Assigned
      BY <1>3, <2>1 DEF Assigned
    <2> QED
      BY <1>3, <2>1, <2>2 DEF CpuInv
  <1>4. ASSUME NEW k \in Keys, CpuAssign(k)
        PROVE  CpuInv'
    <2>1. \A T \in Take(availableCpus, CtrSpec[k].cpu \div 1000) : T \in SUBSET availableCpus
      BY DEF Take
    <2> QED
      BY <1>1, <1>2, <1>4, <2>1 DEF CpuAssign, NeedsCpus
  <1>5. ASSUME NEW k \in Keys, AdmitContainer(k) \/ MemoryAssign(k) \/ DevicesBegin(k)
        PROVE  CpuInv'
    BY <1>1, <1>5 DEF AdmitContainer, MemoryAssign, DevicesBegin
  <1>6. ASSUME NEW c \in calls, DevicesEnd(c)
        PROVE  CpuInv'
    BY <1>1, <1>6 DEF DevicesEnd
  <1>7. ASSUME NEW p, ReleasePod(p)
        PROVE  CpuInv'
    BY <1>3, <1>7 DEF ReleasePod
  <1> QED
    BY <1>4, <1>5, <1>6, <1>7 DEF ResourceNext

\* The invariant says what a run shows of the CPUs.
LEMMA CpuInvExclusive ==
  ASSUME CpuInv
  PROVE  CpusExclusive
  <1>1. SharedPool \in SUBSET Nat /\ IsFiniteSet(SharedPool)
    BY ResourceAssumption, FS_Subset DEF SharedPool
  <1>2. ParseCpuset(ToCpusetString(SharedPool)) \subseteq SharedPool
    BY <1>1, CpusetNames
  <1>3. SharedPool \cap UNION {cpuAssignments[k] : k \in DOMAIN cpuAssignments} = {}
    BY DEF SharedPool
  <1>4. \A k \in DOMAIN cpuAssignments : cpuAssignments[k] \cap (Reserved \cup availableCpus) = {}
    BY DEF CpuInv, Assigned
  <1> QED
    BY <1>2, <1>3, <1>4 DEF CpusExclusive, CpuInv

(***************************************************************************)
(* Memory by NUMA node.                                                    *)
(***************************************************************************)
\* A sum, split in two by a set.
LEMMA SumSplit ==
  ASSUME NEW S, IsFiniteSet(S), NEW f, \A x \in S : f[x] \in Nat, NEW K
  PROVE  SumFunctionOnSet(f, S) = SumFunctionOnSet(f, S \cap K) + SumFunctionOnSet(f, S \ K)
  <1> DEFINE Parts(t) == SumFunctionOnSet(f, t) = SumFunctionOnSet(f, t \cap K) + SumFunctionOnSet(f, t \ K)
             bad == {s \in SUBSET S : ~ Parts(s)}
  <1> SUFFICES ASSUME bad # {} PROVE FALSE
    OBVIOUS
  <1>1. PICK s \in bad : \A t \in SUBSET s : t # s => t \notin bad
    <2>1. bad \in SUBSET (SUBSET S)
      OBVIOUS
    <2> HIDE DEF bad
    <2> QED
      BY <2>1, SmallestSet
  <1>2. \A t \in SUBSET s : IsFiniteSet(t) /\ \A x \in t : f[x] \in Nat
    BY FS_Subset
  <1>3. \A t \in SUBSET s : /\ SumFunctionOnSet(f, t) \in Nat /\ (t = {} => SumFunctionOnSet(f, t) = 0)
                            /\ \A x \in t : SumFunctionOnSet(f, t) = f[x] + SumFunctionOnSet(f, t \ {x})
    BY <1>2, SumTakes
  <1>4. s \cap K \in SUBSET s /\ s \ K \in SUBSET s
    OBVIOUS
  <1>5. CASE s = {}
    <2>1. s \cap K = {} /\ s \ K = {}
      BY <1>5
    <2>2. Parts(s)
      BY <1>3, <1>5, <2>1
    <2> QED
      BY <2>2
  <1>6. CASE s # {}
    <2>1. PICK x \in s : TRUE
      BY <1>6
    <2>2. s \ {x} \in SUBSET s /\ s \ {x} # s /\ Parts(s \ {x})
      BY <1>1
    <2>3. SumFunctionOnSet(f, s) = f[x] + SumFunctionOnSet(f, s \ {x}) /\ f[x] \in Nat
      BY <1>2, <1>3
    <2>4. SumFunctionOnSet(f, (s \ {x}) \cap K) \in Nat /\ SumFunctionOnSet(f, (s \ {x}) \ K) \in Nat
      BY <1>3
    <2>5. CASE x \in K
      <3>1. (s \ {x}) \cap K = (s \cap K) \ {x} /\ (s \ {x}) \ K = s \ K /\ x \in s \cap K
        BY <2>5
      <3>2. SumFunctionOnSet(f, s \cap K) = f[x] + SumFunctionOnSet(f, (s \cap K) \ {x})
        BY <1>3, <1>4, <3>1
      <3>3. /\ SumFunctionOnSet(f, (s \cap K) \ {x}) = SumFunctionOnSet(f, (s \ {x}) \cap K)
            /\ SumFunctionOnSet(f, s \ K) = SumFunctionOnSet(f, (s \ {x}) \ K)
        BY <3>1
      <3>4. SumFunctionOnSet(f, s \ {x}) = SumFunctionOnSet(f, (s \ {x}) \cap K) + SumFunctionOnSet(f, (s \ {x}) \ K)
        BY <2>2
      <3>5. Parts(s)
        BY <2>3, <2>4, <3>2, <3>3, <3>4
      <3> QED
        BY <3>5
    <2>6. CASE x \notin K
      <3>1. (s \ {x}) \cap K = s \cap K /\ (s \ {x}) \ K = (s \ K) \ {x} /\ x \in s \ K
        BY <2>6
      <3>2. SumFunctionOnSet(f, s \ K) = f[x] + SumFunctionOnSet(f, (s \ K) \ {x})
        BY <1>3, <1>4, <3>1
      <3>3. /\ SumFunctionOnSet(f, s \cap K) = SumFunctionOnSet(f, (s \ {x}) \cap K)
            /\ SumFunctionOnSet(f, (s \ K) \ {x}) = SumFunctionOnSet(f, (s \ {x}) \ K)
        BY <3>1
      <3>4. SumFunctionOnSet(f, s \ {x}) = SumFunctionOnSet(f, (s \ {x}) \cap K) + SumFunctionOnSet(f, (s \ {x}) \ K)
        BY <2>2
      <3>5. Parts(s)
        BY <2>3, <2>4, <3>2, <3>3, <3>4
      <3> QED
        BY <3>5
    <2> QED
      BY <2>5, <2>6
  <1> QED
    BY <1>5, <1>6

\* The bytes of the entries of a map m, and the containers of K on node n.
Bytes(m)       == [k \in DOMAIN m |-> m[k].bytes]
OnNode(m, n, K) == {k \in K \cap DOMAIN m : m[k].node = n}

MemTyped(m) == IsFiniteSet(DOMAIN m) /\ DOMAIN m \subseteq Keys /\ \A k \in DOMAIN m : m[k].bytes \in Nat

\* The inductive invariant: what is free and what is pinned make up the node.
MemInv ==
  /\ MemTyped(memAssignments)
  /\ numaFree \in [NumaNodes -> Nat]
  /\ \A n \in NumaNodes : numaFree[n] + SumFunctionOnSet(Bytes(memAssignments), OnNode(memAssignments, n, Keys)) = NumaTotal[n]

\* What is pinned is a number, whatever the containers.
LEMMA PinnedNat ==
  ASSUME NEW m, MemTyped(m), NEW n, NEW K
  PROVE  /\ IsFiniteSet(OnNode(m, n, K)) /\ \A k \in OnNode(m, n, K) : Bytes(m)[k] \in Nat
         /\ SumFunctionOnSet(Bytes(m), OnNode(m, n, K)) \in Nat
  <1>1. IsFiniteSet(OnNode(m, n, K))
    BY FS_Subset DEF MemTyped, OnNode
  <1>2. \A k \in OnNode(m, n, K) : Bytes(m)[k] \in Nat
    BY DEF MemTyped, OnNode, Bytes
  <1> QED
    BY <1>1, <1>2, SumTakes

\* A container is pinned to a node that has room for it.
LEMMA PinKeepsMemory ==
  ASSUME MemInv, NEW k \in Keys, k \notin DOMAIN memAssignments, NEW n \in NumaNodes, NEW b \in Nat, numaFree[n] >= b,
         numaFree' = [numaFree EXCEPT ![n] = @ - b],
         memAssignments' = With(memAssignments, k, [node |-> n, bytes |-> b])
  PROVE  MemInv'
  <1> DEFINE m == memAssignments
             w == With(memAssignments, k, [node |-> n, bytes |-> b])
  <1>1. DOMAIN w = DOMAIN m \cup {k} /\ w[k].node = n /\ w[k].bytes = b /\ \A x \in DOMAIN m : w[x] = m[x]
    BY DEF With
  <1>2. MemTyped(m)
    BY DEF MemInv
  <1> HIDE DEF w
  <1>3. MemTyped(w)
    <2>1. IsFiniteSet(DOMAIN w)
      BY <1>1, <1>2, FS_AddElement DEF MemTyped
    <2> QED
      BY <1>1, <1>2, <2>1 DEF MemTyped
  <1>4. numaFree' \in [NumaNodes -> Nat]
    BY DEF MemInv
  <1>5. \A x \in DOMAIN m : Bytes(w)[x] = Bytes(m)[x]
    BY <1>1 DEF Bytes
  <1>6. ASSUME NEW x \in NumaNodes
        PROVE  numaFree'[x] + SumFunctionOnSet(Bytes(w), OnNode(w, x, Keys)) = NumaTotal[x]
    <2>1. SumFunctionOnSet(Bytes(m), OnNode(m, x, Keys)) = SumFunctionOnSet(Bytes(w), OnNode(m, x, Keys))
      <3>1. \A y \in OnNode(m, x, Keys) : Bytes(m)[y] \in Nat /\ Bytes(m)[y] = Bytes(w)[y]
        BY <1>2, <1>5, PinnedNat DEF OnNode
      <3> QED
        BY <1>2, <3>1, PinnedNat, SumLike
    <2>2. numaFree[x] \in Nat /\ numaFree[x] + SumFunctionOnSet(Bytes(m), OnNode(m, x, Keys)) = NumaTotal[x]
      BY DEF MemInv
    <2>3. CASE x # n
      <3>1. OnNode(w, x, Keys) = OnNode(m, x, Keys)
        BY <1>1, <2>3 DEF OnNode
      <3>2. numaFree'[x] = numaFree[x]
        BY <2>3 DEF MemInv
      <3> QED
        BY <2>1, <2>2, <3>1, <3>2
    <2>4. CASE x = n
      <3>1. k \in OnNode(w, x, Keys) /\ OnNode(w, x, Keys) \ {k} = OnNode(m, x, Keys)
        BY <1>1, <2>4 DEF OnNode
      <3>2. SumFunctionOnSet(Bytes(w), OnNode(w, x, Keys)) = Bytes(w)[k] + SumFunctionOnSet(Bytes(w), OnNode(m, x, Keys))
        BY <1>3, <3>1, PinnedNat, SumTakes
      <3>3. Bytes(w)[k] = b
        BY <1>1 DEF Bytes
      <3>4. numaFree'[x] = numaFree[x] - b
        BY <2>4 DEF MemInv
      <3>5. SumFunctionOnSet(Bytes(m), OnNode(m, x, Keys)) \in Nat
        BY <1>2, PinnedNat
      <3> QED
        BY <2>1, <2>2, <3>2, <3>3, <3>4, <3>5
    <2> QED
      BY <2>3, <2>4
  <1> QED
    BY <1>3, <1>4, <1>6 DEF MemInv, w

\* A release gives back what the containers of the pod had.
LEMMA ReleaseKeepsMemory ==
  ASSUME MemInv, NEW K \in SUBSET Keys,
         numaFree' = [n \in NumaNodes |-> numaFree[n] + Pinned(n, K)],
         memAssignments' = Without(memAssignments, K)
  PROVE  MemInv'
  <1> DEFINE m == memAssignments
             w == Without(memAssignments, K)
  <1>1. DOMAIN w = (DOMAIN m) \ K /\ \A x \in (DOMAIN m) \ K : w[x] = m[x]
    BY DEF Without
  <1>2. MemTyped(m)
    BY DEF MemInv
  <1>0. \A n \in NumaNodes : Pinned(n, K) = SumFunctionOnSet(Bytes(m), OnNode(m, n, K))
    BY DEF Pinned, Bytes, OnNode
  <1> HIDE DEF w
  <1>3. MemTyped(w)
    BY <1>1, <1>2, FS_Subset DEF MemTyped
  <1>4. \A n \in NumaNodes : Pinned(n, K) \in Nat
    BY <1>0, <1>2, PinnedNat
  <1>5. numaFree' \in [NumaNodes -> Nat] /\ \A n \in NumaNodes : numaFree'[n] = numaFree[n] + Pinned(n, K)
    BY <1>4 DEF MemInv
  <1>6. ASSUME NEW x \in NumaNodes
        PROVE  numaFree'[x] + SumFunctionOnSet(Bytes(w), OnNode(w, x, Keys)) = NumaTotal[x]
    <2>1. OnNode(w, x, Keys) = OnNode(m, x, Keys) \ K /\ OnNode(m, x, K) = OnNode(m, x, Keys) \cap K
      BY <1>1 DEF OnNode
    <2>2. SumFunctionOnSet(Bytes(w), OnNode(w, x, Keys)) = SumFunctionOnSet(Bytes(m), OnNode(w, x, Keys))
      <3>1. \A y \in OnNode(w, x, Keys) : Bytes(w)[y] \in Nat /\ Bytes(w)[y] = Bytes(m)[y]
        BY <1>1, <1>3, PinnedNat DEF OnNode, Bytes
      <3> QED
        BY <1>3, <3>1, PinnedNat, SumLike
    <2>3. SumFunctionOnSet(Bytes(m), OnNode(m, x, Keys))
            = SumFunctionOnSet(Bytes(m), OnNode(m, x, K)) + SumFunctionOnSet(Bytes(m), OnNode(w, x, Keys))
      <3>1. SumFunctionOnSet(Bytes(m), OnNode(m, x, Keys))
              = SumFunctionOnSet(Bytes(m), OnNode(m, x, Keys) \cap K) + SumFunctionOnSet(Bytes(m), OnNode(m, x, Keys) \ K)
        <4>1. IsFiniteSet(OnNode(m, x, Keys)) /\ \A y \in OnNode(m, x, Keys) : Bytes(m)[y] \in Nat
          BY <1>2, PinnedNat
        <4> HIDE DEF m
        <4> QED
          BY <4>1, SumSplit
      <3> QED
        BY <2>1, <3>1
    <2>4. numaFree[x] \in Nat /\ numaFree[x] + SumFunctionOnSet(Bytes(m), OnNode(m, x, Keys)) = NumaTotal[x]
      BY DEF MemInv
    <2>5. SumFunctionOnSet(Bytes(m), OnNode(m, x, K)) \in Nat /\ SumFunctionOnSet(Bytes(w), OnNode(w, x, Keys)) \in Nat
      BY <1>2, <1>3, PinnedNat
    <2> QED
      BY <1>0, <1>5, <2>2, <2>3, <2>4, <2>5
  <1> QED
    BY <1>3, <1>5, <1>6 DEF MemInv, w

\* The other steps leave memory alone.
LEMMA MemoryStep ==
  ASSUME MemInv, ResourceNext
  PROVE  MemInv'
  <1>1. CASE UNCHANGED <<numaFree, memAssignments>>
    BY <1>1 DEF MemInv
  <1>2. ASSUME NEW k \in Keys, MemoryAssign(k)
        PROVE  MemInv'
    <2>1. CtrSpec[k].memory \in Nat
      BY ResourceAssumption
    <2>2. \A n \in BestNumaNode(CtrSpec[k].memory) : n \in NumaNodes /\ numaFree[n] >= CtrSpec[k].memory
      BY DEF BestNumaNode
    <2> QED
      BY <1>1, <1>2, <2>1, <2>2, PinKeepsMemory DEF MemoryAssign
  <1>3. ASSUME NEW k \in Keys, AdmitContainer(k) \/ CpuAssign(k) \/ DevicesBegin(k)
        PROVE  MemInv'
    BY <1>1, <1>3 DEF AdmitContainer, CpuAssign, DevicesBegin
  <1>4. ASSUME NEW c \in calls, DevicesEnd(c)
        PROVE  MemInv'
    BY <1>1, <1>4 DEF DevicesEnd
  <1>5. ASSUME NEW p, ReleasePod(p)
        PROVE  MemInv'
    BY <1>5, ReleaseKeepsMemory DEF ReleasePod
  <1> QED
    BY <1>2, <1>3, <1>4, <1>5 DEF ResourceNext

(***************************************************************************)
(* Admission.                                                              *)
(***************************************************************************)
\* What a pod asks for is a number, whatever signs its containers are written with.
LEMMA AskedNat ==
  ASSUME NEW p \in AdmPods
  PROVE  PodCpu(p) \in Nat /\ PodMemory(p) \in Nat /\ OverheadOf(p).cpu \in Nat /\ OverheadOf(p).memory \in Nat
  <1> DEFINE cs == AdmSpec[p].containers
  <1>1. cs \in Seq([cpu : Int, memory : Int, ports : SUBSET Int])
    BY AdmissionAssumption
  <1> HIDE DEF cs
  <1>2. IsFiniteSet(DOMAIN cs)
    <2>1. DOMAIN cs = 1 .. Len(cs) /\ Len(cs) \in Int /\ 1 \in Int
      BY <1>1
    <2>2. IsFiniteSet(1 .. Len(cs))
      <3> DEFINE n == Len(cs)
      <3> HIDE DEF n
      <3>1. n \in Int
        BY <2>1 DEF n
      <3>2. IsFiniteSet(1 .. n)
        BY <3>1, FS_Interval
      <3> QED
        BY <3>2 DEF n
    <2> QED
      BY <2>1, <2>2
  <1>3. \A i \in DOMAIN cs : AtLeastZero(cs[i].cpu) \in Nat /\ AtLeastZero(cs[i].memory) \in Nat
    <2>1. \A i \in DOMAIN cs : cs[i].cpu \in Int /\ cs[i].memory \in Int
      <3>1. \A i \in DOMAIN cs : cs[i] \in [cpu : Int, memory : Int, ports : SUBSET Int]
        <4> DEFINE C == [cpu : Int, memory : Int, ports : SUBSET Int]
        <4> HIDE DEF C
        <4>1. cs \in Seq(C)
          BY <1>1 DEF C
        <4>2. \A i \in DOMAIN cs : cs[i] \in C
          BY <4>1
        <4> QED
          BY <4>2 DEF C
      <3> QED
        BY <3>1
    <2>2. \A n \in Int : AtLeastZero(n) \in Nat
      BY DEF AtLeastZero
    <2> QED
      BY <2>1, <2>2
  <1>4. SumFunctionOnSet([i \in DOMAIN cs |-> AtLeastZero(cs[i].cpu)], DOMAIN cs) \in Nat
    BY <1>2, <1>3, SumTakes
  <1>5. SumFunctionOnSet([i \in DOMAIN cs |-> AtLeastZero(cs[i].memory)], DOMAIN cs) \in Nat
    BY <1>2, <1>3, SumTakes
  <1>6. PodCpu(p) \in Nat /\ PodMemory(p) \in Nat
    BY <1>4, <1>5 DEF PodCpu, PodMemory, SumFunction, cs
  <1>7. OverheadOf(p).cpu \in Nat /\ OverheadOf(p).memory \in Nat
    BY AdmissionAssumption DEF OverheadOf
  <1> QED
    BY <1>6, <1>7

\* What each pod adds to the four amounts of a usage.
Asked ==
  [cpu |-> [p \in AdmPods |-> PodCpu(p)], memory |-> [p \in AdmPods |-> PodMemory(p)],
   ovCpu |-> [p \in AdmPods |-> OverheadOf(p).cpu], ovMemory |-> [p \in AdmPods |-> OverheadOf(p).memory]]

\* The inductive invariant: each amount is a sum over the admitted pods, which
\* fit on the node.
AdmInv ==
  /\ admitted \subseteq AdmPods /\ IsFiniteSet(admitted)
  /\ usage.cpu = SumFunctionOnSet(Asked.cpu, admitted) /\ usage.memory = SumFunctionOnSet(Asked.memory, admitted)
  /\ usage.ovCpu = SumFunctionOnSet(Asked.ovCpu, admitted) /\ usage.ovMemory = SumFunctionOnSet(Asked.ovMemory, admitted)
  /\ usage.pods = Cardinality(admitted)
  /\ usage.ports = UNION {PodPorts(p) \X {p} : p \in admitted}
  /\ usage.cpu + usage.ovCpu =< Allocatable.cpu /\ usage.memory + usage.ovMemory =< Allocatable.memory
  /\ \A p, q \in admitted : p # q => PodPorts(p) \cap PodPorts(q) = {}

\* The sums of the four amounts, over any pods.
LEMMA AskedSums ==
  ASSUME NEW A \in SUBSET AdmPods, IsFiniteSet(A), NEW f \in {"cpu", "memory", "ovCpu", "ovMemory"}
  PROVE  /\ \A p \in AdmPods : Asked[f][p] \in Nat
         /\ SumFunctionOnSet(Asked[f], A) \in Nat
         /\ \A p \in AdmPods \ A : SumFunctionOnSet(Asked[f], A \cup {p}) = SumFunctionOnSet(Asked[f], A) + Asked[f][p]
         /\ \A p \in A : SumFunctionOnSet(Asked[f], A \ {p}) = SaturatingSub(SumFunctionOnSet(Asked[f], A), Asked[f][p])
  <1>1. \A p \in AdmPods : Asked[f][p] \in Nat
    BY AskedNat DEF Asked
  <1> DEFINE g == Asked[f]
  <1> HIDE DEF g
  <1>2. \A p \in AdmPods : g[p] \in Nat
    BY <1>1 DEF g
  <1>3. SumFunctionOnSet(g, A) \in Nat
    BY <1>2, SumTakes
  <1>4. ASSUME NEW p \in AdmPods \ A
        PROVE  SumFunctionOnSet(g, A \cup {p}) = SumFunctionOnSet(g, A) + g[p]
    <2>1. IsFiniteSet(A \cup {p}) /\ (A \cup {p}) \ {p} = A
      BY FS_AddElement
    <2>2. \A x \in A \cup {p} : g[x] \in Nat
      BY <1>2
    <2> DEFINE B == A \cup {p}
    <2>3. p \in B
      OBVIOUS
    <2>4. SumFunctionOnSet(g, B) = g[p] + SumFunctionOnSet(g, B \ {p})
      <3>1. IsFiniteSet(B) /\ \A x \in B : g[x] \in Nat
        BY <2>1, <2>2
      <3> HIDE DEF B
      <3> QED
        BY <2>3, <3>1, SumTakes
    <2> QED
      <3>1. g[p] \in Nat /\ B \ {p} = A
        BY <1>2, <2>1
      <3> HIDE DEF B
      <3>2. SumFunctionOnSet(g, B \ {p}) = SumFunctionOnSet(g, A)
        BY <3>1, Zenon
      <3>3. SumFunctionOnSet(g, B) = SumFunctionOnSet(g, A) + g[p]
        BY <1>3, <2>4, <3>1, <3>2
      <3> QED
        BY <3>3 DEF B
  <1>5. ASSUME NEW p \in A
        PROVE  SumFunctionOnSet(g, A \ {p}) = SaturatingSub(SumFunctionOnSet(g, A), g[p])
    <2>1. IsFiniteSet(A \ {p})
      BY FS_Subset
    <2>2. SumFunctionOnSet(g, A) = g[p] + SumFunctionOnSet(g, A \ {p}) /\ SumFunctionOnSet(g, A \ {p}) \in Nat
      BY <1>2, <2>1, SumTakes
    <2>3. g[p] \in Nat
      BY <1>2
    <2> QED
      BY <2>2, <2>3 DEF SaturatingSub, AtLeastZero
  <1> QED
    BY <1>1, <1>3, <1>4, <1>5 DEF g

\* A pod is admitted: it fits, and its ports are free.
LEMMA AddKeepsUsage ==
  ASSUME AdmInv, NEW p \in AdmPods, AddPod(p)
  PROVE  AdmInv'
  <1>1. p \notin admitted /\ admitted' = admitted \cup {p} /\ Admits(p)
    BY DEF AddPod
  <1>2. /\ usage'.cpu = usage.cpu + PodCpu(p) /\ usage'.memory = usage.memory + PodMemory(p)
        /\ usage'.ovCpu = usage.ovCpu + OverheadOf(p).cpu /\ usage'.ovMemory = usage.ovMemory + OverheadOf(p).memory
        /\ usage'.pods = usage.pods + 1
        /\ usage'.ports = {e \in usage.ports : e[1] \notin PodPorts(p)} \cup (PodPorts(p) \X {p})
    BY DEF AddPod
  <1>3. admitted' \subseteq AdmPods /\ IsFiniteSet(admitted') /\ Cardinality(admitted') = Cardinality(admitted) + 1
    BY <1>1, FS_AddElement DEF AdmInv
  <1>4. \A f \in {"cpu", "memory", "ovCpu", "ovMemory"} :
           /\ SumFunctionOnSet(Asked[f], admitted) \in Nat
           /\ SumFunctionOnSet(Asked[f], admitted \cup {p}) = SumFunctionOnSet(Asked[f], admitted) + Asked[f][p]
    BY <1>1, AskedSums DEF AdmInv
  <1>5. /\ Asked["cpu"][p] = PodCpu(p) /\ Asked["memory"][p] = PodMemory(p)
        /\ Asked["ovCpu"][p] = OverheadOf(p).cpu /\ Asked["ovMemory"][p] = OverheadOf(p).memory
    BY DEF Asked
  <1>6. /\ usage'.cpu = SumFunctionOnSet(Asked.cpu, admitted') /\ usage'.memory = SumFunctionOnSet(Asked.memory, admitted')
        /\ usage'.ovCpu = SumFunctionOnSet(Asked.ovCpu, admitted') /\ usage'.ovMemory = SumFunctionOnSet(Asked.ovMemory, admitted')
    BY <1>1, <1>2, <1>4, <1>5 DEF AdmInv
  <1>7. usage'.cpu + usage'.ovCpu =< Allocatable.cpu
    <2>1. usage.cpu \in Nat /\ usage.ovCpu \in Nat /\ PodCpu(p) \in Nat /\ OverheadOf(p).cpu \in Nat /\ Allocatable.cpu \in Nat
      BY <1>4, AskedNat, AdmissionAssumption DEF AdmInv
    <2>2. PodCpu(p) + OverheadOf(p).cpu =< SaturatingSub(Allocatable.cpu, usage.cpu + usage.ovCpu)
      BY <1>1 DEF Admits
    <2>3. usage.cpu + usage.ovCpu =< Allocatable.cpu
      BY DEF AdmInv
    <2> QED
      BY <1>2, <2>1, <2>2, <2>3 DEF SaturatingSub, AtLeastZero
  <1>8. usage'.memory + usage'.ovMemory =< Allocatable.memory
    <2>1. usage.memory \in Nat /\ usage.ovMemory \in Nat /\ PodMemory(p) \in Nat /\ OverheadOf(p).memory \in Nat /\ Allocatable.memory \in Nat
      BY <1>4, AskedNat, AdmissionAssumption DEF AdmInv
    <2>2. PodMemory(p) + OverheadOf(p).memory =< SaturatingSub(Allocatable.memory, usage.memory + usage.ovMemory)
      BY <1>1 DEF Admits
    <2>3. usage.memory + usage.ovMemory =< Allocatable.memory
      BY DEF AdmInv
    <2> QED
      BY <1>2, <2>1, <2>2, <2>3 DEF SaturatingSub, AtLeastZero
  <1>9. \A e \in usage.ports : e[1] \notin PodPorts(p)
    BY <1>1 DEF Admits
  <1>10. usage'.ports = UNION {PodPorts(q) \X {q} : q \in admitted'}
    <2>1. usage'.ports = usage.ports \cup (PodPorts(p) \X {p})
      BY <1>2, <1>9
    <2> QED
      BY <1>1, <2>1 DEF AdmInv
  <1>11. \A q \in admitted : PodPorts(q) \cap PodPorts(p) = {}
    <2> SUFFICES ASSUME NEW q \in admitted, NEW x \in PodPorts(q), x \in PodPorts(p)
                 PROVE  FALSE
      OBVIOUS
    <2>1. <<x, q>> \in usage.ports
      BY DEF AdmInv
    <2> QED
      BY <1>9, <2>1
  <1>12. \A q, r \in admitted' : q # r => PodPorts(q) \cap PodPorts(r) = {}
    BY <1>1, <1>11 DEF AdmInv
  <1>13. usage'.pods = Cardinality(admitted')
    BY <1>2, <1>3 DEF AdmInv
  <1> QED
    BY <1>3, <1>6, <1>7, <1>8, <1>10, <1>12, <1>13 DEF AdmInv

\* A pod is taken out: nothing is subtracted that was not added.
LEMMA RemoveKeepsUsage ==
  ASSUME AdmInv, NEW p \in AdmPods, RemovePod(p)
  PROVE  AdmInv'
  <1>1. p \in admitted /\ admitted' = admitted \ {p}
    BY DEF RemovePod
  <1>2. /\ usage'.cpu = SaturatingSub(usage.cpu, PodCpu(p)) /\ usage'.memory = SaturatingSub(usage.memory, PodMemory(p))
        /\ usage'.ovCpu = SaturatingSub(usage.ovCpu, OverheadOf(p).cpu)
        /\ usage'.ovMemory = SaturatingSub(usage.ovMemory, OverheadOf(p).memory)
        /\ usage'.pods = SaturatingSub(usage.pods, 1)
        /\ usage'.ports = {e \in usage.ports : e[1] \notin PodPorts(p)}
    BY DEF RemovePod
  <1>3. /\ admitted' \subseteq AdmPods /\ IsFiniteSet(admitted')
        /\ Cardinality(admitted') = Cardinality(admitted) - 1 /\ Cardinality(admitted') \in Nat /\ Cardinality(admitted) \in Nat
    BY <1>1, FS_RemoveElement, FS_CardinalityType DEF AdmInv
  <1>4. \A f \in {"cpu", "memory", "ovCpu", "ovMemory"} :
           /\ Asked[f][p] \in Nat /\ SumFunctionOnSet(Asked[f], admitted) \in Nat
           /\ SumFunctionOnSet(Asked[f], admitted \ {p}) = SaturatingSub(SumFunctionOnSet(Asked[f], admitted), Asked[f][p])
    BY <1>1, AskedSums DEF AdmInv
  <1>5. /\ Asked["cpu"][p] = PodCpu(p) /\ Asked["memory"][p] = PodMemory(p)
        /\ Asked["ovCpu"][p] = OverheadOf(p).cpu /\ Asked["ovMemory"][p] = OverheadOf(p).memory
    BY DEF Asked
  <1>6. /\ usage'.cpu = SumFunctionOnSet(Asked.cpu, admitted') /\ usage'.memory = SumFunctionOnSet(Asked.memory, admitted')
        /\ usage'.ovCpu = SumFunctionOnSet(Asked.ovCpu, admitted') /\ usage'.ovMemory = SumFunctionOnSet(Asked.ovMemory, admitted')
    BY <1>1, <1>2, <1>4, <1>5 DEF AdmInv
  <1>7. \A a, b \in Nat : SaturatingSub(a, b) \in Nat /\ SaturatingSub(a, b) =< a
    BY DEF SaturatingSub, AtLeastZero
  <1>8. /\ usage.cpu \in Nat /\ usage.ovCpu \in Nat /\ usage.memory \in Nat /\ usage.ovMemory \in Nat
        /\ Allocatable.cpu \in Nat /\ Allocatable.memory \in Nat
    BY <1>4, AdmissionAssumption DEF AdmInv
  <1>9. /\ usage'.cpu \in Nat /\ usage'.cpu =< usage.cpu /\ usage'.ovCpu \in Nat /\ usage'.ovCpu =< usage.ovCpu
        /\ usage'.memory \in Nat /\ usage'.memory =< usage.memory /\ usage'.ovMemory \in Nat /\ usage'.ovMemory =< usage.ovMemory
    BY <1>2, <1>7, <1>8, AskedNat
  <1>10. usage'.cpu + usage'.ovCpu =< Allocatable.cpu /\ usage'.memory + usage'.ovMemory =< Allocatable.memory
    <2>1. usage.cpu + usage.ovCpu =< Allocatable.cpu /\ usage.memory + usage.ovMemory =< Allocatable.memory
      BY DEF AdmInv
    <2> QED
      BY <1>8, <1>9, <2>1
  <1>11. usage'.ports = UNION {PodPorts(q) \X {q} : q \in admitted'}
    <2>1. ASSUME NEW q \in admitted, NEW x \in PodPorts(q)
          PROVE  x \notin PodPorts(p) <=> q # p
      BY <1>1, <2>1 DEF AdmInv
    <2>2. \A e \in usage.ports : e[1] \notin PodPorts(p) <=> e \in UNION {PodPorts(q) \X {q} : q \in admitted'}
      <3> SUFFICES ASSUME NEW q \in admitted, NEW x \in PodPorts(q)
                   PROVE  x \notin PodPorts(p) <=> <<x, q>> \in UNION {PodPorts(r) \X {r} : r \in admitted'}
        BY DEF AdmInv
      <3> QED
        BY <1>1, <2>1
    <2>3. UNION {PodPorts(q) \X {q} : q \in admitted'} \subseteq usage.ports
      BY <1>1 DEF AdmInv
    <2> QED
      BY <1>2, <2>2, <2>3
  <1>12. usage'.pods = Cardinality(admitted')
    BY <1>2, <1>3 DEF AdmInv, SaturatingSub, AtLeastZero
  <1>13. \A q, r \in admitted' : q # r => PodPorts(q) \cap PodPorts(r) = {}
    BY <1>1 DEF AdmInv
  <1> QED
    BY <1>3, <1>6, <1>10, <1>11, <1>12, <1>13 DEF AdmInv

\* The invariant says what a run shows of admission.
LEMMA AdmInvBooks ==
  ASSUME AdmInv
  PROVE  NotOvercommitted /\ UsageBooks
  <1>1. \A p \in admitted : /\ Asked.cpu[p] \in Nat /\ Asked.ovCpu[p] \in Nat /\ CpuOf[p] = Asked.cpu[p] + Asked.ovCpu[p]
                            /\ Asked.memory[p] \in Nat /\ Asked.ovMemory[p] \in Nat /\ MemoryOf[p] = Asked.memory[p] + Asked.ovMemory[p]
    BY AskedNat DEF AdmInv, Asked, CpuOf, MemoryOf
  <1>2. SumFunctionOnSet(CpuOf, admitted) = SumFunctionOnSet(Asked.cpu, admitted) + SumFunctionOnSet(Asked.ovCpu, admitted)
    BY <1>1, SumBoth DEF AdmInv
  <1>3. SumFunctionOnSet(MemoryOf, admitted) = SumFunctionOnSet(Asked.memory, admitted) + SumFunctionOnSet(Asked.ovMemory, admitted)
    BY <1>1, SumBoth DEF AdmInv
  <1>4. usage.cpu + usage.ovCpu = Total(CpuOf) /\ usage.memory + usage.ovMemory = Total(MemoryOf)
    BY <1>2, <1>3 DEF AdmInv, Total
  <1> QED
    BY <1>4 DEF NotOvercommitted, UsageBooks, AdmInv

(***************************************************************************)
(* The theorems.                                                           *)
(***************************************************************************)
NodeInv == DeviceInv /\ CpuInv /\ MemInv /\ AdmInv

\* The inductive invariant says what a run shows.
LEMMA NodeInvShows ==
  ASSUME NodeInv
  PROVE  OneOwner /\ BooksBalance
  <1>1. \A n \in NumaNodes : Pinned(n, Keys) = SumFunctionOnSet(Bytes(memAssignments), OnNode(memAssignments, n, Keys))
    BY DEF Pinned, Bytes, OnNode
  <1>2. ResourceBooks
    BY <1>1 DEF NodeInv, CpuInv, Assigned, MemInv, ResourceBooks
  <1>3. DevicesExclusive
    BY DEF NodeInv, DeviceInv
  <1> QED
    BY <1>2, <1>3, DeviceInvBooks, CpuInvExclusive, AdmInvBooks DEF NodeInv, OneOwner, BooksBalance

\* It holds when the kubelet starts.
LEMMA NodeInit ==
  ASSUME Init
  PROVE  NodeInv
  <1>1. DeviceInv
    <2>0. NoAllocations \in [Keys -> SUBSET Devices] /\ \A k \in Keys : NoAllocations[k] = {}
      BY DEF NoAllocations
    <2>1. /\ endpoint \in [known : BOOLEAN, healthy : SUBSET Devices, allocations : [Keys -> SUBSET Devices]]
          /\ endpoint.allocations = NoAllocations
      <3> HIDE DEF NoAllocations
      <3>1. CASE endpoint = NoEndpoint
        BY <2>0, <3>1 DEF NoEndpoint
      <3>2. CASE endpoint = [NewEndpoint EXCEPT !.healthy = Devices]
        BY <2>0, <3>2 DEF NewEndpoint
      <3> QED
        BY <3>1, <3>2 DEF Init, DeviceInit
    <2>2. podAllocations = NoAllocations /\ calls = {}
      BY DEF Init, DeviceInit
    <2>3. plugin \in [up : BOOLEAN, sock : BOOLEAN, healthy : SUBSET Devices]
      <3>1. plugin = [up |-> TRUE, sock |-> FALSE, healthy |-> Devices] \/ plugin = [up |-> TRUE, sock |-> TRUE, healthy |-> Devices]
        BY DEF Init, DeviceInit
      <3>2. TRUE \in BOOLEAN /\ FALSE \in BOOLEAN /\ Devices \in SUBSET Devices
        OBVIOUS
      <3>3. CASE plugin = [up |-> TRUE, sock |-> FALSE, healthy |-> Devices]
        BY <3>2, <3>3
      <3>4. CASE plugin = [up |-> TRUE, sock |-> TRUE, healthy |-> Devices]
        BY <3>2, <3>4
      <3> QED
        BY <3>1, <3>3, <3>4
    <2>4. DeviceTypes
      BY <2>0, <2>1, <2>2, <2>3 DEF DeviceTypes
    <2> QED
      BY <2>0, <2>1, <2>4 DEF DeviceInv, DevicesExclusive
  <1>2. CpuInv
    BY DEF Init, ResourceInit, CpuInv, Assigned
  <1>3. MemInv
    <2>1. memAssignments = <<>> /\ numaFree = NumaTotal
      BY DEF Init, ResourceInit
    <2>2. NumaTotal \in [NumaNodes -> Nat]
      BY ResourceAssumption DEF NumaNodes
    <2>3. MemTyped(memAssignments) /\ \A n : OnNode(memAssignments, n, Keys) = {}
      BY <2>1, FS_EmptySet DEF MemTyped, OnNode
    <2>4. SumFunctionOnSet(Bytes(memAssignments), {}) = 0
      BY FS_EmptySet, SumTakes
    <2> QED
      BY <2>1, <2>2, <2>3, <2>4 DEF MemInv
  <1>4. AdmInv
    <2>1. \A f : SumFunctionOnSet(f, {}) = 0
      BY FS_EmptySet, SumTakes
    <2>2. usage = EmptyUsage /\ admitted = {}
      BY DEF Init, AdmissionInit
    <2> QED
      BY <2>1, <2>2, FS_EmptySet, AdmissionAssumption DEF AdmInv, EmptyUsage
  <1> QED
    BY <1>1, <1>2, <1>3, <1>4 DEF NodeInv

\* Every step keeps it.
LEMMA NodeStep ==
  ASSUME NodeInv, [Next]_vars
  PROVE  NodeInv'
  <1>1. ASSUME UNCHANGED deviceVars
        PROVE  DeviceInv'
    BY <1>1, PluginKeepsDevices DEF NodeInv, DeviceInv, DeviceTypes, deviceVars
  <1>2. ASSUME UNCHANGED resourceVars
        PROVE  CpuInv' /\ MemInv'
    BY <1>2 DEF NodeInv, CpuInv, Assigned, MemInv, resourceVars
  <1>3. ASSUME UNCHANGED admissionVars
        PROVE  AdmInv'
    BY <1>3 DEF NodeInv, AdmInv, admissionVars
  <1>4. CASE Worker(DeviceSteps) \/ Worker(WatchUpdate) \/ Worker(DeviceWorld) \/ Worker(AllocationSteps)
    BY <1>2, <1>3, <1>4, DeviceStep DEF NodeInv, Worker
  <1>5. CASE Manager(ResourceNext)
    BY <1>3, <1>5, DeviceStepOfManager, CpuStep, MemoryStep DEF NodeInv, Manager
  <1>6. CASE Admitter(AdmissionNext)
    BY <1>1, <1>2, <1>6, AddKeepsUsage, RemoveKeepsUsage DEF NodeInv, Admitter, AdmissionNext
  <1>7. CASE UNCHANGED vars
    BY <1>1, <1>2, <1>3, <1>7 DEF NodeInv, vars
  <1> QED
    BY <1>4, <1>5, <1>6, <1>7 DEF Next

\* A device, a CPU, a host port and the node's capacity have one owner, after any
\* interleaving of allocations, failures and releases.
THEOREM NothingIsSharedTwice == Spec => []OneOwner
  <1>1. Init => NodeInv
    BY NodeInit
  <1>2. NodeInv /\ [Next]_vars => NodeInv'
    BY NodeStep
  <1>3. NodeInv => OneOwner
    BY NodeInvShows
  <1> QED
    BY <1>1, <1>2, <1>3, PTL DEF Spec

\* The books of the device manager, the CPU and memory managers and of admission
\* add up wherever an allocation stopped half way.
THEOREM BooksAlwaysBalance == Spec => []BooksBalance
  <1>1. Init => NodeInv
    BY NodeInit
  <1>2. NodeInv /\ [Next]_vars => NodeInv'
    BY NodeStep
  <1>3. NodeInv => BooksBalance
    BY NodeInvShows
  <1> QED
    BY <1>1, <1>2, <1>3, PTL DEF Spec

=============================================================================
