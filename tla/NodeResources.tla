---------------------------- MODULE NodeResources ----------------------------
(***************************************************************************)
(* What is assigned on a node: devices as the pod worker allocates them,   *)
(* CPUs, memory and devices as the resource manager does, and the node's   *)
(* capacity as admission keeps account of it, by adding and subtracting    *)
(* pods.  Which of the three is followed is chosen at the start.           *)
(***************************************************************************)
EXTENDS ResourceManager

CONSTANTS
  AdmPods,        \* pods that ask to be admitted
  AdmSpec,        \* per pod: containers (cpu, memory, ports), runtimeClass, selector, tolerations, claims
  Allocatable,    \* cpu, memory, maxPods of the node
  NodeLabels, NodeTaints, KnownClasses,
  Overhead,       \* per runtime class: cpu and memory, where there is one
  NoClass

\* Quantities in the notation of the code are u64 once they are parsed, those
\* of a container may be written with a sign.
ASSUME AdmissionAssumption ==
  /\ \A p \in AdmPods : AdmSpec[p].containers \in Seq([cpu : Int, memory : Int, ports : SUBSET Int])
  /\ \A c \in DOMAIN Overhead : Overhead[c].cpu \in Nat /\ Overhead[c].memory \in Nat
  /\ {Allocatable.cpu, Allocatable.memory, Allocatable.maxPods} \subseteq Nat

VARIABLES
  usage,      \* ResourceUsage
  admitted    \* pods that were added to it

admissionVars == <<usage, admitted>>

EmptyUsage == [cpu |-> 0, memory |-> 0, ovCpu |-> 0, ovMemory |-> 0, pods |-> 0, ports |-> {}]

AdmissionTypeOK ==
  /\ usage \in [cpu : Nat, memory : Nat, ovCpu : Nat, ovMemory : Nat, pods : Nat, ports : SUBSET (Int \X AdmPods)]
  /\ admitted \subseteq AdmPods

AdmissionInit == usage = EmptyUsage /\ admitted = {}

----------------------------------------------------------------------------
(***************************************************************************)
(* Admission, over containers and init containers alike.                   *)
(***************************************************************************)
\* parse_cpu_millis, parse_memory_bytes: what is negative counts as nothing.
AtLeastZero(n) == IF n < 0 THEN 0 ELSE n

\* pod_cpu_millis, pod_memory_bytes
PodCpu(p)    == SumFunction([i \in DOMAIN AdmSpec[p].containers |-> AtLeastZero(AdmSpec[p].containers[i].cpu)])
PodMemory(p) == SumFunction([i \in DOMAIN AdmSpec[p].containers |-> AtLeastZero(AdmSpec[p].containers[i].memory)])

\* (hostPort, protocol) of the pod, a number each
PodPorts(p)  == UNION {AdmSpec[p].containers[i].ports : i \in DOMAIN AdmSpec[p].containers}

\* pod_runtime_overhead with parse_cpu_overhead_millis and parse_memory_overhead_bytes:
\* the notations m, Ki, Mi and Gi, and nothing for what is not a number.
OverheadOf(p) == IF AdmSpec[p].runtimeClass \in DOMAIN Overhead THEN Overhead[AdmSpec[p].runtimeClass] ELSE [cpu |-> 0, memory |-> 0]

\* pod_tolerates_taint: the effect of a toleration is not looked at.
Tolerates(p, t) ==
  \E l \in AdmSpec[p].tolerations :
     /\ l.key \in {t.key, "any"}
     /\ l.operator = "Exists" \/ l.value = t.value

SaturatingSub(a, b) == AtLeastZero(a - b)

\* admit_with_runtime_overhead, its checks in their order.
Admits(p) ==
  /\ usage.pods < Allocatable.maxPods
  /\ PodCpu(p) + OverheadOf(p).cpu <= SaturatingSub(Allocatable.cpu, usage.cpu + usage.ovCpu)
  /\ PodMemory(p) + OverheadOf(p).memory <= SaturatingSub(Allocatable.memory, usage.memory + usage.ovMemory)
  /\ \A e \in usage.ports : e[1] \notin PodPorts(p)
  /\ AdmSpec[p].runtimeClass \in KnownClasses \cup {NoClass}
  /\ AdmSpec[p].selector \subseteq NodeLabels
  /\ \A t \in NodeTaints : t.effect \in {"NoSchedule", "NoExecute"} => Tolerates(p, t)
  /\ \A c \in AdmSpec[p].claims : c.allocated /\ c.prepared

\* add_pod_with_overhead
AddPod(p) ==
  /\ p \notin admitted /\ Admits(p)
  /\ admitted' = admitted \cup {p}
  /\ usage' = [cpu |-> usage.cpu + PodCpu(p), memory |-> usage.memory + PodMemory(p),
               ovCpu |-> usage.ovCpu + OverheadOf(p).cpu, ovMemory |-> usage.ovMemory + OverheadOf(p).memory,
               pods |-> usage.pods + 1,
               ports |-> {e \in usage.ports : e[1] \notin PodPorts(p)} \cup (PodPorts(p) \X {p})]

\* remove_pod_with_overhead
RemovePod(p) ==
  /\ p \in admitted
  /\ admitted' = admitted \ {p}
  /\ usage' = [cpu |-> SaturatingSub(usage.cpu, PodCpu(p)), memory |-> SaturatingSub(usage.memory, PodMemory(p)),
               ovCpu |-> SaturatingSub(usage.ovCpu, OverheadOf(p).cpu),
               ovMemory |-> SaturatingSub(usage.ovMemory, OverheadOf(p).memory),
               pods |-> SaturatingSub(usage.pods, 1),
               ports |-> {e \in usage.ports : e[1] \notin PodPorts(p)}]

AdmissionNext == \E p \in AdmPods : AddPod(p) \/ RemovePod(p)

----------------------------------------------------------------------------
VARIABLE who

vars == <<who, deviceVars, resourceVars, admissionVars>>

TypeOK ==
  /\ who \in {"worker", "manager", "admission"}
  /\ DeviceTypeOK
  /\ ResourceTypeOK
  /\ AdmissionTypeOK

\* The resource manager finds a plugin that is registered; the pod worker sees
\* plugins and the kubelet come and go.
Init ==
  /\ who \in {"worker", "manager", "admission"}
  /\ ResourceInit
  /\ AdmissionInit
  /\ IF who = "worker" THEN DeviceInit
     ELSE /\ kubeletUp = TRUE
          /\ rediscoverDue = FALSE
          /\ registering = FALSE
          /\ endpoint = [NewEndpoint EXCEPT !.healthy = Devices]
          /\ podAllocations = NoAllocations
          /\ calls = {}
          /\ watching = TRUE
          /\ registryFile = TRUE
          /\ plugin = [up |-> TRUE, sock |-> TRUE, healthy |-> Devices]
          /\ restarts = [x \in {"plugin", "kubelet"} |-> MaxRestarts]
  /\ who # "manager" => policy = CHOOSE p \in Policies : TRUE

\* allocate_device_resources: a container whose devices cannot be had is started
\* without them, so an allocation that is refused changes nothing.
Worker(A)   == who = "worker" /\ A /\ UNCHANGED <<who, resourceVars, admissionVars>>
Manager(A)  == who = "manager" /\ A /\ UNCHANGED <<who, admissionVars>>
Admitter(A) == who = "admission" /\ A /\ UNCHANGED <<who, deviceVars, resourceVars>>

Next ==
  \/ Worker(DeviceSteps) \/ Worker(WatchUpdate) \/ Worker(DeviceWorld) \/ Worker(AllocationSteps)
  \/ Manager(ResourceNext)
  \/ Admitter(AdmissionNext)

\* The start of the server, the tasks it spawns and the plugin's own reaction to
\* a socket that is gone happen; a message of an open stream arrives.
Spec ==
  /\ Init /\ [][Next]_vars
  /\ WF_vars(Worker(DeviceSteps))
  /\ WF_vars(Worker(WatchUpdate))

----------------------------------------------------------------------------
CpuOf    == [p \in AdmPods |-> PodCpu(p) + OverheadOf(p).cpu]
MemoryOf == [p \in AdmPods |-> PodMemory(p) + OverheadOf(p).memory]
Total(of) == SumFunctionOnSet(of, admitted)

\* The usage is that of the admitted pods, after any sequence of pods that came
\* and went: the saturating subtraction never hides a difference.
UsageBooks ==
  /\ usage.cpu + usage.ovCpu = Total(CpuOf)
  /\ usage.memory + usage.ovMemory = Total(MemoryOf)
  /\ usage.pods = Cardinality(admitted)
  /\ usage.ports = UNION {PodPorts(p) \X {p} : p \in admitted}

\* The admitted pods fit on the node and no two of them have a port of it.
NotOvercommitted ==
  /\ Total(CpuOf) <= Allocatable.cpu
  /\ Total(MemoryOf) <= Allocatable.memory
  /\ \A p, q \in admitted : p # q => PodPorts(p) \cap PodPorts(q) = {}

\* What is handed out exclusively has one owner: a device, a CPU, a host port
\* and the node's own capacity, after any interleaving of allocations, failures
\* and releases.
OneOwner == DevicesExclusive /\ CpusExclusive /\ NotOvercommitted

\* Nothing is lost or given twice by an allocation that stops half way or by a
\* release: the books of the four managers add up.
BooksBalance == DeviceBooks /\ ResourceBooks /\ UsageBooks
=============================================================================
