------------------------------ MODULE Eviction ------------------------------
(***************************************************************************)
(* Node pressure: the signals, the thresholds of the configuration, the    *)
(* node conditions derived from them, and the eviction loop with its       *)
(* choice of a victim.  What evict_pod does to the pod is modelled in      *)
(* RuntimeManager; here it ends with the pod gone from the desired ones or *)
(* with a force-delete that failed.                                        *)
(***************************************************************************)
EXTENDS Integers, Sequences, FiniteSets

CONSTANTS
  Absent,        \* no quantity
  NodePods,      \* pods that may be desired
  PodSpec,       \* the restart policy and the containers of each
  Thresholds,    \* the configurations of evictionHard
  SignalSets,    \* the readings of the node's signals
  MaxArrivals    \* bound: pods that become desired

ASSUME EvictionAssumption ==
  /\ \A sig \in SignalSets : {sig.memory, sig.nodefs, sig.nodefsTotal} \subseteq Nat
  /\ \A hard \in Thresholds : \A s \in DOMAIN hard : hard[s].n \in Nat

----------------------------------------------------------------------------
(***************************************************************************)
(* Quality of service classes and the order of eviction they give.  A      *)
(* quantity is what is written in the manifest: quantities are compared as *)
(* strings, so 1 and 1000m differ.                                         *)
(***************************************************************************)
Guaranteed == "Guaranteed"
Burstable  == "Burstable"
BestEffort == "BestEffort"

\* The resources of a container: requests and limits for CPU and memory, and
\* whether it asks for anything else.
HasResources(c) == c.other \/ \E r \in {c.cpuReq, c.cpuLim, c.memReq, c.memLim} : r # Absent

RequestsAreLimits(c) ==
  /\ Absent \notin {c.cpuReq, c.cpuLim, c.memReq, c.memLim}
  /\ c.cpuReq = c.cpuLim
  /\ c.memReq = c.memLim

\* compute_qos_class, over the containers and init containers of a pod.
QosClass(containers) ==
  IF \A c \in containers : ~HasResources(c) THEN BestEffort
  ELSE IF \A c \in containers : RequestsAreLimits(c) THEN Guaranteed
  ELSE Burstable

\* qos_eviction_priority: the lower, the sooner.
EvictionPriority(qos) == CASE qos = BestEffort -> 0 [] qos = Burstable -> 1 [] OTHER -> 2

----------------------------------------------------------------------------
\* A tick of the loop is 10 s, min_eviction_reclaim_period is 30 s.
ReclaimTicks == 3

MemoryPressure == "MemoryPressure"
DiskPressure   == "DiskPressure"

VARIABLES
  evictionHard,  \* the configured thresholds, by signal
  signals,       \* what collect_signals reads
  evDesired,     \* the pods of the pod manager
  arrivals,      \* pods that have become desired
  lastEviction,  \* ticks since the pod was last picked, ReclaimTicks + 1 for long ago
  decisions,     \* decisions that evict_pod has not been called with yet
  evicting,      \* pods with an eviction task
  conditions     \* the node conditions that were last reported

evictionVars == <<evictionHard, signals, evDesired, arrivals, lastEviction, decisions, evicting, conditions>>

Never == ReclaimTicks + 1
Class(p) == QosClass(PodSpec[p].containers)

EvictionTypeOK ==
  /\ evictionHard \in Thresholds
  /\ signals \in SignalSets
  /\ evDesired \subseteq NodePods
  /\ arrivals \in 0 .. MaxArrivals
  /\ lastEviction \in [NodePods -> 0 .. Never]
  /\ decisions \in Seq([pod : NodePods, reason : {MemoryPressure, DiskPressure}])
  /\ Len(decisions) <= 2
  /\ evicting \subseteq NodePods
  /\ conditions \subseteq {MemoryPressure, DiskPressure, "PIDPressure"}

EvictionInit ==
  /\ evictionHard \in Thresholds
  /\ signals \in SignalSets
  /\ evDesired = {}
  /\ arrivals = 0
  /\ lastEviction = [p \in NodePods |-> Never]
  /\ decisions = <<>>
  /\ evicting = {}
  /\ conditions = {}

----------------------------------------------------------------------------
\* Two readers of the same thresholds.  A threshold is a number of bytes in one
\* of the notations, or a percentage.

\* parse_quantity and EvictionThreshold::parse, used by the eviction manager.
Parses(t) == t.form # "garbled"

\* EvictionThreshold::is_exceeded
IsExceeded(t, current, capacity) ==
  current < (IF t.form = "percent" THEN (capacity * t.n) \div 100 ELSE t.n)

\* NodeResources as run_eviction_loop fills it: the capacity of memory is
\* taken to be what is available plus the size of the root file system.
Resource(s, sig) ==
  CASE s = "memory.available" -> <<sig.memory, sig.memory + sig.nodefsTotal>>
    [] s = "nodefs.available" -> <<sig.nodefs, sig.nodefsTotal>>
    [] s = "pid.available"    -> <<sig.pids, sig.pids>>

\* EvictionEvaluator::evaluate for one signal; soft thresholds are not looked at.
Evaluated == {"memory.available", "nodefs.available", "pid.available"}
Exceeded(s, hard, sig) ==
  /\ s \in DOMAIN hard \cap Evaluated
  /\ Parses(hard[s])
  /\ IsExceeded(hard[s], Resource(s, sig)[1], Resource(s, sig)[2])

\* parse_bytes of pressure.rs: what it does not know is 0.
ParseBytes(t) == IF t.form \in {"plain", "binary"} THEN t.n ELSE 0

\* threshold_exceeded, used for the node conditions.
ThresholdExceeded(value, total, t) ==
  IF t.form = "percent" THEN total # 0 /\ value < (total * t.n) \div 100
  ELSE value < ParseBytes(t)

\* evaluate_pressure for one signal.
SignalExceeded(s, t, sig) ==
  CASE s = "memory.available"  -> ThresholdExceeded(sig.memory, sig.memory + sig.nodefsTotal, t)
    [] s = "nodefs.available"  -> ThresholdExceeded(sig.nodefs, sig.nodefsTotal, t)
    [] s = "nodefs.inodesFree" -> ThresholdExceeded(sig.inodes, 1000000, t)
    [] s = "imagefs.available" -> ThresholdExceeded(sig.imagefs, sig.imagefsTotal, t)
    [] s = "pid.available"     -> sig.pids < (IF t.form = "plain" THEN t.n ELSE 1000)
    [] OTHER -> FALSE

ConditionOf(s) ==
  CASE s = "memory.available" -> MemoryPressure
    [] s = "pid.available" -> "PIDPressure"
    [] OTHER -> DiskPressure

EvaluatePressure(hard, sig) ==
  {ConditionOf(s) : s \in {x \in DOMAIN hard : SignalExceeded(x, hard[x], sig)}}

\* The node status task: a fresh reading replaces the three conditions.
ReportConditions ==
  /\ conditions' = EvaluatePressure(evictionHard, signals)
  /\ UNCHANGED <<evictionHard, signals, evDesired, arrivals, lastEviction, decisions, evicting>>

----------------------------------------------------------------------------
\* The eviction manager.  The usage map of the loop is empty, so pods of one
\* class keep the order in which the pod manager's map yields them: any order.

\* rank_for_memory passes over pods that are not restarted.
Considered(reason, pods) ==
  IF reason = MemoryPressure THEN {p \in pods : PodSpec[p].restart # "Never"} ELSE pods

\* Mutant of Candidates: the ranking forgets the classes.
CandidatesUnranked(reason, pods, last) == {p \in Considered(reason, pods) : last[p] > ReclaimTicks}

\* pick_candidate: the first pod of the ranking that was not picked within the
\* reclaim period, as last says.
Candidates(reason, pods, last) ==
  LET free == {p \in Considered(reason, pods) : last[p] > ReclaimTicks}
  IN {p \in free : \A q \in free : EvictionPriority(Class(p)) <= EvictionPriority(Class(q))}

\* The outcomes of one pick: no decision when there is no candidate.
Pick(pressed, reason, pods, last) ==
  IF ~pressed \/ Candidates(reason, pods, last) = {} THEN {<<>>}
  ELSE {<<[pod |-> p, reason |-> reason]>> : p \in Candidates(reason, pods, last)}

Picked(last, ds) == [p \in NodePods |-> IF \E i \in DOMAIN ds : ds[i].pod = p THEN 0 ELSE last[p]]

\* A tick: read the signals, list the pods, pick for memory and then for disk.
\* Ticks are 30 s apart only roughly, so a pick three ticks ago may or may not
\* be within the reclaim period.
EvictionTick ==
  /\ decisions = <<>>
  /\ \E due \in SUBSET {p \in NodePods : lastEviction[p] + 1 = ReclaimTicks} :
       LET aged == [p \in NodePods |-> IF p \in due \/ lastEviction[p] >= ReclaimTicks THEN Never
                                       ELSE lastEviction[p] + 1]
       IN \E m \in Pick(Exceeded("memory.available", evictionHard, signals), MemoryPressure, evDesired, aged) :
            \E d \in Pick(Exceeded("nodefs.available", evictionHard, signals), DiskPressure, evDesired, Picked(aged, m)) :
               /\ decisions' = m \o d
               /\ lastEviction' = Picked(aged, m \o d)
  /\ UNCHANGED <<evictionHard, signals, evDesired, arrivals, evicting, conditions>>

\* evict_pod: a pod that is gone by now is left alone, though it was picked.
EvictPod ==
  /\ decisions # <<>>
  /\ decisions' = Tail(decisions)
  /\ evicting' = IF Head(decisions).pod \in evDesired THEN evicting \cup {Head(decisions).pod} ELSE evicting
  /\ UNCHANGED <<evictionHard, signals, evDesired, arrivals, lastEviction, conditions>>

\* The eviction task is done: the API server has deleted the pod and its source
\* removes it, or the force-delete failed and the pod stays desired.
EvictionDone(p) ==
  /\ p \in evicting
  /\ evicting' = evicting \ {p}
  /\ evDesired' \in {evDesired, evDesired \ {p}}
  /\ UNCHANGED <<evictionHard, signals, arrivals, lastEviction, decisions, conditions>>

\* The node and the other users of the pod manager.
SignalsChange ==
  /\ signals' \in SignalSets \ {signals}
  /\ UNCHANGED <<evictionHard, evDesired, arrivals, lastEviction, decisions, evicting, conditions>>

PodComes(p) ==
  /\ p \notin evDesired /\ arrivals < MaxArrivals
  /\ evDesired' = evDesired \cup {p}
  /\ arrivals' = arrivals + 1
  /\ UNCHANGED <<evictionHard, signals, lastEviction, decisions, evicting, conditions>>

PodGoes(p) ==
  /\ p \in evDesired
  /\ evDesired' = evDesired \ {p}
  /\ UNCHANGED <<evictionHard, signals, arrivals, lastEviction, decisions, evicting, conditions>>

EvictionNext ==
  \/ EvictionTick \/ EvictPod \/ ReportConditions \/ SignalsChange
  \/ \E p \in NodePods : EvictionDone(p) \/ PodComes(p) \/ PodGoes(p)

----------------------------------------------------------------------------
\* A threshold that both readers understand: whole numbers of bytes, Ki, Mi or
\* Gi, and percentages.
Plain(t) == t.form \in {"plain", "binary", "percent"}

\* Pods are never evicted for a pressure that the node does not report: where
\* the eviction manager sees memory or disk pressure, the conditions computed
\* from the same signals have it too, for thresholds in the common notations.
\* The two computations are written twice, in eviction/mod.rs and pressure.rs.
EvictionIsReported ==
  \A s \in {"memory.available", "nodefs.available"} :
     s \in DOMAIN evictionHard /\ Plain(evictionHard[s]) /\ Exceeded(s, evictionHard, signals)
        => ConditionOf(s) \in EvaluatePressure(evictionHard, signals)

\* A pod is picked only when every desired pod of a lower class that may be
\* picked for the same pressure was itself picked within the reclaim period,
\* the memory pick of the same tick included.
LowestClassFirst ==
  [][\A i \in DOMAIN decisions' : decisions = <<>> =>
        \A q \in Considered(decisions'[i].reason, evDesired) :
           EvictionPriority(Class(q)) < EvictionPriority(Class(decisions'[i].pod))
             => lastEviction'[q] <= ReclaimTicks]_evictionVars

\* The two together: what the eviction loop decides is what the node reports,
\* and it falls on the pods that have least claim to stay.
EvictionSound == []EvictionIsReported /\ LowestClassFirst
=============================================================================
