------------------------------ MODULE Reporting -------------------------------
(***************************************************************************)
(* What the API server is told: the status of a pod, put together by the   *)
(* pod worker (update_pod_status) in the course of its syncs and sent by   *)
(* the reporter, and the node object, which the kubelet registers by       *)
(* itself and keeps patching. The pod has one init container, which may be *)
(* a sidecar, and one app container. How the worker walks over more of     *)
(* them, and what it does when the runtime's calls of the walk fail, is    *)
(* the subject of PodWorker; here only the calls that update_pod_status    *)
(* makes may fail, and those to the API server.                            *)
(*                                                                         *)
(* The module also composes the conversion of manifests (PodSpecs) with    *)
(* the requests to the runtime (CriRequest); part is the question asked.   *)
(***************************************************************************)
EXTENDS CriRequest, PodPhase

CONSTANTS
  Shapes,      \* the pods: [policy, init, probes]
  MaxStarts,   \* bound at which starts of a container are no longer told apart
  MaxFaults,   \* bound: failed calls and restarts
  MaxNodeFaults \* bound: failed calls, and deletions and creations of the node by others

VARIABLES
  part,
  shape,    \* the pod's restart policy, its init container's kind and the containers with a readiness probe
  rt,       \* the runtime: the state of each container
  count,    \* restart_counts
  snap,     \* last_terminated_states
  recent,   \* containers started less than 800 ms ago: nobody asks about others than the app
  backoff,  \* crash_loop_backoff
  ready,    \* containers whose readiness probe has succeeded last
  pc,       \* where the sync is
  ls,       \* the PodLifecycleState in the status store
  api,      \* <<>>, or the status the API server holds
  forgot,   \* the kubelet has been restarted
  node,     \* <<>>, or the node object of the API server
  npc,      \* where report_node_status is
  faults    \* number of faults

podVars == <<shape, rt, count, snap, recent, backoff, ready, pc, ls, api, forgot>>
nodeVars == <<node, npc>>
vars == <<part, specVars, criVars, podVars, nodeVars, faults>>

Containers == {"init", "app"}

ASSUME ReportingAssumption ==
          /\ Shapes \subseteq [policy : Policy, init : {"none", "plain", "sidecar"}, probes : SUBSET Containers]
          /\ MaxStarts \in Nat

HasInit == shape.init # "none"
Sidecar == shape.init = "sidecar"
Fault == faults < (IF part = "node" THEN MaxNodeFaults ELSE MaxFaults) /\ faults' = faults + 1

----------------------------------------------------------------------------
(* The status of the pod. *)

Waiting == {"creating", "initializing", "unknown", "pullError"}
Kind(s) == IF s \in Waiting THEN "waiting" ELSE s
Terminated == {"ok", "err"}

\* status.initialize of the status store.
Fresh(state) == [state |-> state, last |-> "none", ready |-> FALSE, restarts |-> 0]
Initialize ==
  [phase |-> "Pending", init |-> Fresh("initializing"), app |-> Fresh("creating"), scheduled |-> TRUE,
   initialized |-> ~ HasInit, containersReady |-> FALSE, ready |-> FALSE]

\* container_status of the CRI client; those in U cannot be had.
ContainerStatus(c, U) == IF rt[c] # "none" /\ c \in U THEN "unknown" ELSE rt[c]

InitState(U) ==
  LET s == ContainerStatus("init", U)
  IN CASE s = "none" -> "creating"
       [] s \in Terminated /\ "init" \in backoff -> "crashloop"
       [] OTHER -> s

InitDone(s) == s = "ok" \/ (Sidecar /\ s = "running")

\* Mutant of JustStarted: a container that was ever started counts.
JustStartedEver == count["app"] > 0

\* "report it as Running for this one update cycle": 800 ms from its start.
JustStarted == "app" \in recent

AppState(U, init) ==
  LET s == ContainerStatus("app", U)
  IN CASE s = "none" -> IF HasInit /\ ~ InitDone(init) THEN "initializing" ELSE "creating"
       [] s \in Terminated /\ JustStarted -> "running"
       [] s \in Terminated /\ ~ JustStarted /\ "app" \in backoff -> "crashloop"
       [] OTHER -> s

\* Mutant of LastState: the snapshot is not looked at.
LastStateSeen(c, state, prev) ==
  IF count[c] > 0 /\ (prev \in Terminated \/ (prev = "running" /\ state # "running")) THEN prev ELSE "none"

\* The last state of a container: the snapshot taken before its restart, or
\* else what the status store says, a container that was running included.
LastState(c, state, prev) ==
  CASE count[c] = 0 -> "none"
    [] count[c] > 0 /\ snap[c] # "none" -> snap[c]
    [] OTHER -> IF prev \in Terminated \/ (prev = "running" /\ state # "running") THEN prev ELSE "none"

\* The readiness of a container that the runtime says is running.
Probed(c) == c \in shape.probes => c \in ready
InitReady(s) == s = "ok" \/ (Sidecar /\ s = "running" /\ Probed("init"))
AppReady(U) == ContainerStatus("app", U) = "running" /\ Probed("app")

Shown(c, state, prev, isReady) ==
  [state |-> state, last |-> LastState(c, state, prev.state), ready |-> isReady,
   restarts |-> IF count[c] = 0 THEN 0 ELSE count[c] - 1]

\* update_pod_status. A sidecar counts for the readiness of the pod only
\* while it is running.
Assembled(U) ==
  LET i == InitState(U)
      a == AppState(U, i)
      initialized == ls.initialized \/ (HasInit /\ i = "ok")
      allReady == AppReady(U) /\ ~ (Sidecar /\ i = "running" /\ ~ InitReady(i))
  IN [phase |-> ComputePodPhase(IF HasInit THEN <<Kind(i)>> ELSE <<>>, <<Kind(a)>>, shape.policy),
      init |-> IF HasInit THEN Shown("init", i, ls.init, InitReady(i)) ELSE ls.init,
      app |-> Shown("app", a, ls.app, AppReady(U)),
      scheduled |-> ls.scheduled, initialized |-> initialized,
      containersReady |-> allReady, ready |-> allReady /\ initialized]

UpdatePodStatus ==
  \/ ls' = Assembled({}) /\ UNCHANGED faults
  \/ Fault /\ \E U \in SUBSET {c \in Containers : rt[c] # "none"} \ {{}} : ls' = Assembled(U)

\* container_state_to_k8s, and the last state, which there may be none of.
StateToK8s(state) ==
  CASE state \in Terminated -> [terminated |-> state]
    [] state = "running" -> [running |-> TRUE]
    [] OTHER -> [waiting |-> state]
LastToK8s(state) == IF state = "none" THEN <<>> ELSE <<StateToK8s(state)>>

\* lifecycle_container_status_to_k8s: a container that is running is ready.
ToK8s(c) ==
  [state |-> StateToK8s(c.state), last |-> LastToK8s(c.last), ready |-> c.ready \/ c.state = "running", restarts |-> c.restarts]

\* pod_condition_to_k8s, for each of the conditions.
ConditionToK8s(holds) == IF holds THEN "True" ELSE "False"

\* build_pod_status_json: the status with all its parts.
BuildPodStatus(state) ==
  [phase |-> state.phase, app |-> ToK8s(state.app), init |-> IF HasInit THEN <<ToK8s(state.init)>> ELSE <<>>,
   conditions |-> [PodScheduled |-> ConditionToK8s(state.scheduled), Initialized |-> ConditionToK8s(state.initialized),
                   ContainersReady |-> ConditionToK8s(state.containersReady), Ready |-> ConditionToK8s(state.ready)]]

\* report_pod_status: the whole status is applied, or the patch fails.
ReportPodStatus(state) ==
  \/ api' = <<BuildPodStatus(state)>> /\ UNCHANGED faults
  \/ Fault /\ UNCHANGED api

----------------------------------------------------------------------------
(* The syncs that give rise to it. *)

\* start_container, with the container it replaces removed.
Start(c) ==
  /\ rt' = [rt EXCEPT ![c] = "running"]
  /\ count' = [count EXCEPT ![c] = IF @ < MaxStarts THEN @ + 1 ELSE @]
  /\ recent' = recent \cup ({c} \cap {"app"})
  /\ backoff' = backoff \ {c}
  /\ ready' = ready \ {c}

\* Volumes cannot be mounted, or the image of the app cannot be pulled.
PrepareFails ==
  /\ pc = "idle"
  /\ Fault
  /\ \E image \in BOOLEAN :
       ls' = [ls EXCEPT !.phase = "Pending", !.scheduled = FALSE, !.app.state = IF image THEN "pullError" ELSE @]
  /\ pc' = "report"
  /\ UNCHANGED <<shape, rt, count, snap, recent, backoff, ready, api, forgot>>

\* The init container runs: NeedsRetry after an update.
InitRunning ==
  /\ pc = "idle" /\ shape.init = "plain" /\ rt["init"] = "running"
  /\ pc' = "end"
  /\ UNCHANGED <<shape, rt, count, snap, recent, backoff, ready, ls, api, forgot, faults>>

\* It has failed for good: the pod is terminated and its state dropped.
InitFailed ==
  /\ pc = "idle" /\ shape.init = "plain" /\ rt["init"] = "err" /\ shape.policy = "Never"
  /\ ls' = [Assembled({}) EXCEPT !.phase = "Failed"]
  /\ rt' = [c \in Containers |-> "none"]
  /\ count' = [c \in Containers |-> 0]
  /\ snap' = [c \in Containers |-> "none"]
  /\ recent' = {} /\ backoff' = {} /\ ready' = {}
  /\ pc' = "report"
  /\ UNCHANGED <<shape, api, forgot, faults>>

InitNeedsStart == HasInit /\ rt["init"] \in (IF Sidecar THEN {"none", "ok", "err"} ELSE {"none", "err"})

\* A failed init container is remembered, but not a sidecar. A container that
\* was started before sleeps first, with CrashLoopBackOff reported.
InitBacksOff ==
  /\ pc = "idle" /\ InitNeedsStart /\ count["init"] > 0 /\ "init" \notin backoff
  /\ ~ (shape.init = "plain" /\ rt["init"] = "err" /\ shape.policy = "Never")
  /\ snap' = IF ~ Sidecar /\ rt["init"] = "err" THEN [snap EXCEPT !["init"] = "err"] ELSE snap
  /\ backoff' = backoff \cup {"init"}
  /\ pc' = "initUpdate"
  /\ UNCHANGED <<shape, rt, count, recent, ready, ls, api, forgot, faults>>

InitStarts ==
  /\ InitNeedsStart
  /\ \/ pc = "idle" /\ count["init"] = 0
     \/ pc = "initSleep"
  /\ Start("init")
  /\ pc' = IF Sidecar THEN "mark" ELSE "end"
  /\ UNCHANGED <<shape, snap, ls, api, forgot, faults>>

InitPassed ==
  /\ pc = "idle" /\ (HasInit => InitDone(rt["init"]))
  /\ pc' = "mark"
  /\ UNCHANGED <<shape, rt, count, snap, recent, backoff, ready, ls, api, forgot, faults>>

\* "All init containers completed: mark pod as Initialized."
MarkInitialized ==
  /\ pc = "mark"
  /\ ls' = [ls EXCEPT !.initialized = TRUE]
  /\ pc' = "app"
  /\ UNCHANGED <<shape, rt, count, snap, recent, backoff, ready, api, forgot, faults>>

Restarts(s) == shape.policy = "Always" \/ (shape.policy = "OnFailure" /\ s = "err")
Snapshot == snap' = IF rt["app"] \in Terminated THEN [snap EXCEPT !["app"] = rt["app"]] ELSE snap

\* stop_sidecar_init_containers: it exits with a code of its own.
StopSidecar ==
  \/ (\E s \in Terminated : rt' = [rt EXCEPT !["init"] = s]) /\ UNCHANGED faults
  \/ Fault /\ UNCHANGED rt

\* The app runs or is not to be restarted. A sidecar is stopped once the app
\* has terminated.
AppSettled ==
  /\ pc = "app" /\ rt["app"] # "none" /\ ~ (rt["app"] \in Terminated /\ Restarts(rt["app"]))
  /\ Snapshot
  /\ \/ rt["app"] \in Terminated /\ Sidecar /\ rt["init"] = "running" /\ StopSidecar
     \/ ~ (rt["app"] \in Terminated /\ Sidecar /\ rt["init"] = "running") /\ UNCHANGED <<rt, faults>>
  /\ pc' = "end"
  /\ UNCHANGED <<shape, count, recent, backoff, ready, ls, api, forgot>>

AppBacksOff ==
  /\ pc = "app" /\ rt["app"] \in Terminated /\ Restarts(rt["app"])
  /\ Snapshot
  /\ backoff' = backoff \cup {"app"}
  /\ pc' = "appUpdate"
  /\ UNCHANGED <<shape, rt, count, recent, ready, ls, api, forgot, faults>>

AppStarts ==
  /\ \/ pc = "app" /\ rt["app"] = "none"
     \/ pc = "appSleep"
  /\ Start("app")
  /\ pc' = "end"
  /\ UNCHANGED <<shape, snap, ls, api, forgot, faults>>

\* The updates in a back-off, and at the end of a sync,
Update ==
  /\ pc \in {"initUpdate", "appUpdate", "end"}
  /\ UpdatePodStatus
  /\ pc' = CASE pc = "initUpdate" -> "initReport" [] pc = "appUpdate" -> "appReport" [] OTHER -> "report"
  /\ UNCHANGED <<shape, rt, count, snap, recent, backoff, ready, api, forgot>>

\* and the reports that follow.
Report ==
  /\ pc \in {"initReport", "appReport", "report"}
  /\ ReportPodStatus(ls)
  /\ pc' = CASE pc = "initReport" -> "initSleep" [] pc = "appReport" -> "appSleep" [] OTHER -> "idle"
  /\ UNCHANGED <<shape, rt, count, snap, recent, backoff, ready, ls, forgot>>

SyncSteps ==
  \/ InitRunning \/ InitFailed \/ InitBacksOff \/ InitStarts \/ InitPassed \/ MarkInitialized
  \/ AppSettled \/ AppBacksOff \/ AppStarts \/ Update \/ Report

\* The world around: containers exit, probes have results, time passes, and
\* the kubelet is restarted. What it takes over then are running containers
\* and init containers.
Exits(c) ==
  /\ rt[c] = "running" /\ \E s \in Terminated : rt' = [rt EXCEPT ![c] = s]
  /\ UNCHANGED <<shape, count, snap, recent, backoff, ready, pc, ls, api, forgot, faults>>

ProbeResult(c) ==
  /\ c \in shape.probes /\ rt[c] = "running"
  /\ ready' = IF c \in ready THEN ready \ {c} ELSE ready \cup {c}
  /\ UNCHANGED <<shape, rt, count, snap, recent, backoff, pc, ls, api, forgot, faults>>

Ages == recent # {} /\ recent' = {} /\ UNCHANGED <<shape, rt, count, snap, backoff, ready, pc, ls, api, forgot, faults>>

\* list_containers of the CRI client: the containers there are, with the number
\* of the attempt that started them.
ListContainers == [c \in {x \in Containers : rt[x] # "none"} |-> [state |-> rt[c], attempt |-> count[c] - 1]]

Recovered(c) == c \in DOMAIN ListContainers /\ (ListContainers[c].state = "running" \/ c = "init")

Restarted ==
  /\ Fault
  /\ rt' = [c \in Containers |-> IF Recovered(c) THEN rt[c] ELSE "none"]
  /\ count' = [c \in Containers |-> IF c \in DOMAIN ListContainers THEN ListContainers[c].attempt + 1 ELSE 0]
  /\ snap' = [c \in Containers |-> "none"]
  /\ recent' = {} /\ backoff' = {} /\ ready' = {}
  /\ ls' = Initialize
  /\ pc' = "idle"
  /\ forgot' = TRUE
  /\ UNCHANGED <<shape, api>>

PodSteps == SyncSteps \/ PrepareFails \/ Restarted \/ Ages \/ \E c \in Containers : Exits(c) \/ ProbeResult(c)

----------------------------------------------------------------------------
(* The node. *)

\* Mutant of IsNotFound: the absence of the node is an error like any other.
IsNotFoundNever == FALSE

\* The answer 404 to a patch of the node's status.
IsNotFound == node = <<>>

\* build_node_apply_patch and build_node_status_patch: what they set.
ApplyPatch == [labels |-> TRUE, status |-> FALSE]
StatusPatch == [node[1] EXCEPT !.status = TRUE]

\* report_node_status, call by call: the status is patched, and a node that
\* is not there is created first. The next tick comes whatever happens.
PatchNodeStatus ==
  /\ npc \in {"idle", "retry"}
  /\ \/ node # <<>> /\ node' = <<StatusPatch>> /\ npc' = "idle" /\ UNCHANGED faults
     \/ node = <<>> /\ npc' = (IF npc = "idle" /\ IsNotFound THEN "create" ELSE "idle") /\ UNCHANGED <<node, faults>>
     \/ Fault /\ npc' = "idle" /\ UNCHANGED node

CreateNode ==
  /\ npc = "create"
  /\ \/ node' = (IF node = <<>> THEN <<ApplyPatch>> ELSE <<[node[1] EXCEPT !.labels = TRUE]>>) /\ npc' = "retry" /\ UNCHANGED faults
     \/ Fault /\ npc' = "idle" /\ UNCHANGED node

\* Somebody else deletes the node, or creates it without the labels.
NodeDeleted == node # <<>> /\ node' = <<>> /\ Fault /\ UNCHANGED npc
NodeCreated == node = <<>> /\ node' = <<[labels |-> FALSE, status |-> FALSE]>> /\ Fault /\ UNCHANGED npc

NodeSteps == PatchNodeStatus \/ CreateNode

----------------------------------------------------------------------------
(* Resources in a status. *)

\* resource_quantity_to_string.
FormatQuantity(q) ==
  LET unit == IF q.value % Units("Gi") = 0 THEN "Gi" ELSE IF q.value % Units("Mi") = 0 THEN "Mi" ELSE IF q.value % Ki = 0 THEN "Ki" ELSE ""
  IN CASE q.unit = "millicores" ->
            IF q.value % 1000 = 0 THEN [num |-> q.value \div 1000, suffix |-> ""] ELSE [num |-> q.value, suffix |-> "m"]
       [] q.unit = "bytes" -> [num |-> q.value \div Units(unit), suffix |-> unit]
       [] OTHER -> [num |-> q.value, suffix |-> ""]

\* resource_requirements_to_k8s: the resources a status shows.
ReportedResources == [k \in DOMAIN ContainerOf["resources"] |-> FormatQuantity(ContainerOf["resources"][k])]

----------------------------------------------------------------------------
CONSTANTS
  SpecCases,   \* the manifests whose conversion is looked at
  CriCases     \* those that are run, too

ASSUME CasesAssumption ==
          /\ \A m \in CriCases : Admitted(m)
          /\ \A m \in SpecCases \cup CriCases : SpecAdmitted(m)
          /\ \A r \in Resizes : AmountsAdmitted(r)

Init ==
  /\ part \in {"spec", "cri", "resize", "pod", "node"}
  /\ SpecInit(IF part = "spec" THEN Sources ELSE {"api", "url"}, IF part = "spec" THEN SpecCases ELSE CriCases)
  /\ part \in {"resize", "pod", "node"} => source = "api" /\ manifest = CHOOSE m \in CriCases : TRUE
  /\ CriInit
  /\ shape \in Shapes
  /\ part # "pod" => shape = CHOOSE s \in Shapes : TRUE
  /\ rt = [c \in Containers |-> "none"]
  /\ count = [c \in Containers |-> 0]
  /\ snap = [c \in Containers |-> "none"]
  /\ recent = {} /\ backoff = {} /\ ready = {}
  /\ pc = "idle"
  /\ ls = Initialize
  /\ api = <<>>
  /\ forgot = FALSE
  /\ node = <<>> /\ npc = "idle"
  /\ faults = 0

SpecPart == part \in {"spec", "cri", "resize"} /\ Receive /\ UNCHANGED <<part, criVars, podVars, nodeVars, faults>>
CriPart ==
  /\ \/ part \in {"cri", "resize"} /\ CriSteps /\ UNCHANGED specVars
     \/ part = "resize" /\ \E r \in Resizes : NewResources(r)
  /\ UNCHANGED <<part, podVars, nodeVars, faults>>
OfPod(A) == part = "pod" /\ A /\ UNCHANGED <<part, specVars, criVars, nodeVars>>
OfNode(A) == part = "node" /\ A /\ UNCHANGED <<part, specVars, criVars, podVars>>

Next == SpecPart \/ CriPart \/ OfPod(PodSteps) \/ OfNode(NodeSteps \/ NodeDeleted \/ NodeCreated)

\* A sync is not left in the middle and the reconcile loop starts the next
\* one; the status loop of the node keeps ticking; time passes.
Spec ==
  /\ Init /\ [][Next]_vars
  /\ WF_vars(OfPod(SyncSteps)) /\ WF_vars(OfPod(Ages)) /\ WF_vars(OfNode(NodeSteps))

----------------------------------------------------------------------------
\* The parts of one report of a pod agree. Ready means that the containers
\* are ready and the pod is initialized; unless the last sync has failed
\* before it looked at the containers, a pod whose containers are ready has
\* its app running and so has its phase; a pod that has succeeded has an app
\* that has; and an app that was restarted shows how it ended before, as far
\* as this kubelet has seen it.
StatusAgrees ==
  api # <<>> =>
    LET s == api[1]
        is(condition) == s.conditions[condition] = "True"
    IN /\ is("Ready") => is("ContainersReady") /\ is("Initialized")
       /\ is("PodScheduled") /\ is("ContainersReady") => "running" \in DOMAIN s.app.state /\ s.app.ready /\ s.phase = "Running"
       /\ s.phase = "Succeeded" => s.app.state = [terminated |-> "ok"]
       /\ s.app.restarts > 0 => forgot \/ (s.app.last # <<>> /\ "terminated" \in DOMAIN s.app.last[1])

\* The end of a pod reaches the API server: when the app of a pod that is not
\* restarted has exited, a terminal phase is reported, whatever patch and
\* status call fails before, unless a restarted kubelet starts it anew.
EndIsTold ==
  (part = "pod" /\ shape.policy = "Never" /\ rt["app"] \in Terminated)
    ~> ((api # <<>> /\ api[1].phase \in {"Succeeded", "Failed"}) \/ rt["app"] = "none")

\* "Upstream node e2e expects kubelet to self-register a Node object": the
\* node is there with its status again and again, though it is deleted and
\* calls fail at any point of the registration.
NodeIsReported == []<>(part = "node" => node # <<>> /\ node[1].status)

\* The resources a status shows are those of the spec: a quantity that is
\* written out reads back as the same amount.
QuantityKept ==
  spec # <<>> =>
    \A k \in DOMAIN ReportedResources :
      LET key == IF k \in {"requests.cpu", "limits.cpu"} THEN "cpu" ELSE "memory"
          back == ForKey(key, ParseQuantity(ReportedResources[k]))
      IN back # <<>> /\ back[1].value = ContainerOf["resources"][k].value

\* The two together: a pod reads alike from every source, and its quantities
\* survive the way back into a status.
SpecsKept == SourcesAgree /\ QuantityKept
=============================================================================
