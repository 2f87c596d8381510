--------------------------- MODULE ResourceManager ---------------------------
(***************************************************************************)
(* The resource manager: a container is admitted by the topology manager   *)
(* and then given CPUs, a NUMA node and devices, one manager after the     *)
(* other, each under a lock of its own.                                    *)
(***************************************************************************)
EXTENDS DeviceManager, SequencesExt, FiniteSetsExt

CONSTANTS
  Cpus, Reserved,     \* logical CPUs, and the ones kept for the system
  NumaTotal,          \* the memory of each NUMA node, 0 .. n - 1
  CtrSpec,            \* per container: guaranteed, cpu (millicores), memory
  Policies            \* the policies of the three managers, as they may be configured

ASSUME ResourceAssumption ==
  /\ Reserved \subseteq Cpus /\ Cpus \subseteq Nat /\ IsFiniteSet(Cpus)
  /\ NumaTotal \in [DOMAIN NumaTotal -> Nat]
  /\ \A k \in Keys : CtrSpec[k].memory \in Nat

VARIABLES
  policy,          \* the policies of the three managers
  stage,           \* how far each container is
  availableCpus,   \* the pool for exclusive CPUs
  cpuAssignments,  \* exclusive CPUs by container, where there is an entry
  numaFree,        \* free memory by NUMA node
  memAssignments,  \* [node, bytes] by container, where there is an entry
  acceptedHints    \* the NUMA nodes recorded by container, where there is an entry

resourceVars == <<policy, stage, availableCpus, cpuAssignments, numaFree, memAssignments, acceptedHints>>

NumaNodes == DOMAIN NumaTotal
Stages == {"new", "admitted", "cpu", "memory", "calling", "done", "failed"}
Without(f, K) == [k \in DOMAIN f \ K |-> f[k]]
With(f, k, v) == [x \in DOMAIN f \cup {k} |-> IF x = k THEN v ELSE f[x]]

ResourceTypeOK ==
  /\ policy \in Policies
  /\ stage \in [Keys -> Stages]
  /\ availableCpus \subseteq Cpus
  /\ DOMAIN cpuAssignments \subseteq Keys /\ \A k \in DOMAIN cpuAssignments : cpuAssignments[k] \subseteq Cpus
  /\ DOMAIN numaFree = NumaNodes /\ \A n \in NumaNodes : numaFree[n] \in Nat
  /\ DOMAIN memAssignments \subseteq Keys
  /\ DOMAIN acceptedHints \subseteq Keys

ResourceInit ==
  /\ policy \in Policies
  /\ stage = [k \in Keys |-> "new"]
  /\ availableCpus = Cpus \ Reserved
  /\ cpuAssignments = <<>>
  /\ numaFree = NumaTotal
  /\ memAssignments = <<>>
  /\ acceptedHints = <<>>

GoStage(k, s) == stage' = [stage EXCEPT ![k] = s]

----------------------------------------------------------------------------
\* CpuSet: what it is written as, and read from, in the cgroup files.

\* to_cpuset_string: the ascending list of maximal ranges; a CPU makes the
\* range longer or starts one.
AddToRanges(cpu, acc) ==
  IF cpu = acc.end + 1 THEN [acc EXCEPT !.end = cpu]
  ELSE [parts |-> Append(acc.parts, <<acc.start, acc.end>>), start |-> cpu, end |-> cpu]

ToCpusetString(S) ==
  IF S = {} THEN <<>>
  ELSE LET first == Min(S)
           last == MapThenFoldSet(AddToRanges, [parts |-> <<>>, start |-> first, end |-> first], LAMBDA cpu : cpu, Max, S \ {first})
       IN Append(last.parts, <<last.start, last.end>>)

\* CpuSet::parse
ParseCpuset(parts) == UNION {parts[i][1] .. parts[i][2] : i \in DOMAIN parts}

\* CpuSet::take: the lowest ones, none when there are too few.
Take(S, count) ==
  IF Cardinality(S) < count THEN {}
  ELSE {T \in SUBSET S : Cardinality(T) = count /\ \A t \in T, s \in S \ T : t < s}

----------------------------------------------------------------------------
\* TopologyManager.  A hint is [nodes, preferred], any is the hint that names none.

NoPreference == [any |-> TRUE, nodes |-> {}, preferred |-> TRUE]
WithNumaNodes(S, p) == [any |-> FALSE, nodes |-> S, preferred |-> p]

\* TopologyHint::intersect
Intersect(a, b) ==
  LET p == a.preferred /\ b.preferred
  IN IF a.any /\ b.any THEN NoPreference
     ELSE IF b.any THEN WithNumaNodes(a.nodes, p)
     ELSE IF a.any THEN WithNumaNodes(b.nodes, p)
     ELSE WithNumaNodes(a.nodes \cap b.nodes, p)

\* merge_hints
MergeHints(hints) == IF hints = <<>> THEN NoPreference ELSE FoldLeft(Intersect, hints[1], Tail(hints))

\* is_empty_affinity
IsEmptyAffinity(h) == ~h.any /\ h.nodes = {}

\* single_numa_hint: the hint with the lowest node, none when there is no node.
SingleNumaHint(h) ==
  IF h.any \/ h.nodes = {} THEN {}
  ELSE {WithNumaNodes({CHOOSE n \in h.nodes : \A m \in h.nodes : n <= m}, TRUE)}

\* TopologyManager::admit: the hints it may answer with and record, none is a rejection.
TopologyAdmits(hints) ==
  LET merged == MergeHints(hints)
  IN CASE policy.topology = "best-effort" -> {IF IsEmptyAffinity(merged) THEN NoPreference ELSE merged}
       [] policy.topology = "restricted" -> IF IsEmptyAffinity(merged) THEN {} ELSE {merged}
       [] policy.topology = "single-numa-node" -> SingleNumaHint(merged)

\* admit_container: the CPU manager has no preference and the memory manager
\* names every node.
AdmitContainer(k) ==
  /\ stage[k] = "new"
  /\ LET hints == <<NoPreference, WithNumaNodes(NumaNodes, TRUE)>>
     IN IF policy.topology = "none" THEN GoStage(k, "admitted") /\ UNCHANGED acceptedHints
        ELSE \/ \E h \in TopologyAdmits(hints) : GoStage(k, "admitted") /\ acceptedHints' = With(acceptedHints, k, h)
             \/ TopologyAdmits(hints) = {} /\ GoStage(k, "failed") /\ UNCHANGED acceptedHints
  /\ UNCHANGED <<policy, availableCpus, cpuAssignments, numaFree, memAssignments>>

----------------------------------------------------------------------------
\* ResourceManager::allocate

IsExclusive(k) == CtrSpec[k].guaranteed /\ CtrSpec[k].cpu % 1000 = 0

\* shared_pool
SharedPool == Cpus \ UNION {cpuAssignments[k] : k \in DOMAIN cpuAssignments}

\* CpuManager::assign up to the allocation: a container that is started again
\* keeps what it has; one that is not exclusive is told the shared pool, and
\* nothing is recorded.
NeedsCpus(k) == policy.cpu = "static" /\ k \notin DOMAIN cpuAssignments /\ IsExclusive(k)

CpuAssign(k) ==
  LET taken == Take(availableCpus, CtrSpec[k].cpu \div 1000)
  IN /\ stage[k] \in {"admitted", "done"}
     /\ \/ ~NeedsCpus(k) /\ GoStage(k, "cpu") /\ UNCHANGED <<availableCpus, cpuAssignments>>
        \/ NeedsCpus(k) /\ taken = {} /\ GoStage(k, "failed") /\ UNCHANGED <<availableCpus, cpuAssignments>>
        \/ /\ NeedsCpus(k)
           /\ \E T \in taken : /\ availableCpus' = availableCpus \ T
                               /\ cpuAssignments' = With(cpuAssignments, k, T)
           /\ GoStage(k, "cpu")
     /\ UNCHANGED <<policy, numaFree, memAssignments, acceptedHints>>

\* utilization() as u64: a fraction is cut off, so only a full node counts.
UtilizationKey(n) == IF NumaTotal[n] # 0 /\ numaFree[n] = 0 THEN 1 ELSE 0

\* best_numa_node: the first of the smallest, none when no node has room.
BestNumaNode(bytes) ==
  LET fits == {n \in NumaNodes : numaFree[n] >= bytes}
      least == {n \in fits : \A m \in fits : UtilizationKey(n) <= UtilizationKey(m)}
  IN {n \in least : \A m \in least : n <= m}

\* MemoryManager::assign.  A failure leaves the CPUs where they are.
MemoryAssign(k) ==
  /\ stage[k] = "cpu"
  /\ IF policy.memory = "Static" /\ k \notin DOMAIN memAssignments /\ CtrSpec[k].guaranteed
     THEN \/ \E n \in BestNumaNode(CtrSpec[k].memory) :
                /\ GoStage(k, "memory")
                /\ numaFree' = [numaFree EXCEPT ![n] = @ - CtrSpec[k].memory]
                /\ memAssignments' = With(memAssignments, k, [node |-> n, bytes |-> CtrSpec[k].memory])
          \/ BestNumaNode(CtrSpec[k].memory) = {} /\ GoStage(k, "failed") /\ UNCHANGED <<numaFree, memAssignments>>
     ELSE GoStage(k, "memory") /\ UNCHANGED <<numaFree, memAssignments>>
  /\ UNCHANGED <<policy, availableCpus, cpuAssignments, acceptedHints>>

\* The devices, which fail the container when there are too few.
DevicesBegin(k) ==
  /\ stage[k] = "memory"
  /\ \/ Demand[k] > 0 /\ AllocateBegin(k) /\ GoStage(k, "calling")
     \/ Demand[k] > 0 /\ AllocateDevices(Demand[k]) = {} /\ GoStage(k, "failed") /\ UNCHANGED deviceVars
     \/ Demand[k] = 0 /\ GoStage(k, "done") /\ UNCHANGED deviceVars
  /\ UNCHANGED <<policy, availableCpus, cpuAssignments, numaFree, memAssignments, acceptedHints>>

DevicesEnd(c) ==
  /\ stage[c.key] = "calling"
  /\ \/ AllocateDone(c) /\ GoStage(c.key, "done")
     \/ AllocateFailed(c) /\ GoStage(c.key, "failed")
  /\ UNCHANGED <<policy, availableCpus, cpuAssignments, numaFree, memAssignments, acceptedHints>>

\* The memory that the containers of K have on node n.
Pinned(n, K) ==
  SumFunctionOnSet([k \in DOMAIN memAssignments |-> memAssignments[k].bytes], {k \in K \cap DOMAIN memAssignments : memAssignments[k].node = n})

\* release_pod for all containers of the pod, with the three locks held.  An
\* allocation that is under way for one of them goes on.
ReleasePod(p) ==
  LET K == {k \in Keys : PodOfKey(k) = p}
  IN /\ availableCpus' = availableCpus \cup UNION {cpuAssignments[k] : k \in K \cap DOMAIN cpuAssignments}
     /\ cpuAssignments' = Without(cpuAssignments, K)
     /\ numaFree' = [n \in NumaNodes |-> numaFree[n] + Pinned(n, K)]
     /\ memAssignments' = Without(memAssignments, K)
     /\ acceptedHints' = Without(acceptedHints, K)
     /\ stage' = [k \in Keys |-> IF k \in K /\ stage[k] \in {"done", "failed"} THEN "new" ELSE stage[k]]
     /\ DeallocatePod(p)
     /\ UNCHANGED policy

ResourceNext ==
  \/ \E k \in Keys : (AdmitContainer(k) \/ CpuAssign(k) \/ MemoryAssign(k)) /\ UNCHANGED deviceVars
  \/ \E k \in Keys : DevicesBegin(k)
  \/ \E c \in calls : DevicesEnd(c)
  \/ \E k \in Keys : ReleasePod(PodOfKey(k))

----------------------------------------------------------------------------
\* Exclusive CPUs belong to one container, never to the system and never to the
\* pool, and what is told to the others keeps clear of them.
CpusExclusive ==
  /\ \A k, l \in DOMAIN cpuAssignments : k # l => cpuAssignments[k] \cap cpuAssignments[l] = {}
  /\ \A k \in DOMAIN cpuAssignments : cpuAssignments[k] \cap (Reserved \cup availableCpus) = {}
  /\ ParseCpuset(ToCpusetString(SharedPool)) \cap UNION {cpuAssignments[k] : k \in DOMAIN cpuAssignments} = {}

\* The free memory of a NUMA node and what is pinned to it make up the node,
\* and the CPUs of the pool and of the containers make up what is not reserved,
\* wherever an allocation stopped half way.
ResourceBooks ==
  /\ availableCpus \cup UNION {cpuAssignments[k] : k \in DOMAIN cpuAssignments} = Cpus \ Reserved
  /\ \A n \in NumaNodes : numaFree[n] + Pinned(n, Keys) = NumaTotal[n]
=============================================================================
