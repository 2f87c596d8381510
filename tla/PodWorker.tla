------------------------------ MODULE PodWorker ------------------------------
(***************************************************************************)
(* The pod worker (crates/kubelet-app/src/pod_worker/mod.rs): sync_pod of  *)
(* one pod against the container runtime, step by step, with containers    *)
(* that exit, a sandbox that dies, calls that fail, and a kubelet that     *)
(* crashes between any two steps and has only the runtime's records to     *)
(* find out what it had done.                                              *)
(*                                                                         *)
(* Syncs of one pod are taken not to overlap; when they do is the subject  *)
(* of SyncSlots.  Records of containers are numbered: record n of a        *)
(* container is the one created with attempt n - 1, and the runtime's name *)
(* for it is free as long as it holds no record of that number.            *)
(***************************************************************************)
EXTENDS PodPhase, FiniteSetsExt

CONSTANTS PodShapes,   \* the pods and fault models to choose from
          Apps,        \* the containers, in order
          OwnPolicy,   \* restartPolicy of a container, "pod" if it has none
          MaxRecords,  \* bound: records a container may get
          MaxCrashes   \* bound: crashes of the kubelet

SeqSet(s) == {s[k] : k \in 1..Len(s)}

\* The calls that may fail: pulling and mounting, those of create_sandbox,
\* container_status, create_container, start_container, the PostStart hook,
\* list_containers, and the stops and removals that clean up.
FaultKinds == {"prepare", "sandbox", "status", "create", "start", "hook",
               "list", "cleanup"}

ContainersOf(shape) == shape.init \o Apps \o shape.ephemeral

ASSUME WorkerAssumption ==
          /\ Apps # <<>> /\ Apps \in Seq(SeqSet(Apps))
          /\ OwnPolicy \in [SeqSet(Apps) -> Policy \cup {"pod"}]
          /\ \A shape \in PodShapes :
               LET order == ContainersOf(shape)
               IN  /\ shape.init \in Seq(SeqSet(shape.init))
                   /\ shape.ephemeral \in Seq(SeqSet(shape.ephemeral))
                   /\ shape.sidecars \subseteq SeqSet(shape.init)
                   /\ shape.faults \subseteq FaultKinds
                   /\ \A j, k \in 1..Len(order) : order[j] = order[k] => j = k
          /\ MaxRecords \in Nat \ {0}
          /\ MaxCrashes \in Nat

VARIABLES
  pod,      \* the pod: its init and ephemeral containers, what may fail
  policy,   \* the pod's restartPolicy
  pc, at,   \* where the sync is, and the container of Order it is at
  sbx,      \* PodRuntimeState.sandbox_id is set
  known,    \* container_ids: the record tracked for a container, 0 if none
  counts,   \* restart_counts
  phase,    \* the phase in the status store
  sandbox,  \* the runtime: the pod's sandbox
  ctrs,     \* the runtime: the records of each container
  crashes,  \* crashes so far
  late      \* activeDeadlineSeconds has been found exceeded

given     == <<pod, policy>>
stateVars == <<sbx, known, counts>>
criVars   == <<sandbox, ctrs>>
vars == <<given, pc, at, stateVars, phase, criVars, crashes, late>>

----------------------------------------------------------------------------
Init_ == pod.init            \* the init containers, in order
Sidecars == pod.sidecars     \* those of them with restartPolicy Always
Ephemeral == pod.ephemeral   \* the ephemeral containers, in order
Faults == pod.faults         \* the kinds of call that may fail

Order == ContainersOf(pod)
Names == SeqSet(Order)
Regular == SeqSet(Init_) \ Sidecars   \* init containers that must complete

Records == 1..MaxRecords
RecordState == {"none", "created", "running", "ok", "err"}

TypeOK ==
  /\ pod \in PodShapes
  /\ policy \in Policy
  /\ pc \in {"down", "idle", "sandbox", "walk", "start", "create", "run", "hook", "sidecars"}
  /\ at \in 1..Len(Order) + 1
  /\ pc \in {"start", "create", "run", "hook"} => at =< Len(Order)
  /\ sbx \in BOOLEAN
  /\ known \in [Names -> 0..MaxRecords]
  /\ counts \in [Names -> 0..MaxRecords]
  /\ phase \in Phase
  /\ sandbox \in {"none", "ready", "notready"}
  /\ ctrs \in [Names -> [Records -> RecordState]]
  /\ crashes \in 0..MaxCrashes
  /\ late \in BOOLEAN

NoRecords == [c \in Names |-> [n \in Records |-> "none"]]
Nothing == [c \in Names |-> 0]

Init ==
  /\ pod \in PodShapes
  /\ policy \in Policy
  /\ pc = "idle"
  /\ at = 1
  /\ sbx = FALSE
  /\ known = Nothing
  /\ counts = Nothing
  /\ phase = "Pending"
  /\ sandbox = "none"
  /\ ctrs = NoRecords
  /\ crashes = 0
  /\ late = FALSE

----------------------------------------------------------------------------
(***************************************************************************)
(* What the worker sees of a container, and reports.                       *)
(***************************************************************************)
\* The state of the record k tracks for c, among the records r.
StateIn(k, r, c) == IF k[c] = 0 THEN "none" ELSE r[c][k[c]]
Status(c) == StateIn(known, ctrs, c)

Exited(s) == s \in {"ok", "err"}

\* What container_status may say: the call can fail.
Seen(c) == {Status(c)} \cup (IF "status" \in Faults /\ known[c] # 0
                             THEN {"unknown"} ELSE {})

\* The containers in S sleep in their back-off.
Reported(s, c, S) ==
  CASE s = "running" -> "running"
    [] Exited(s) /\ c \in S -> "crashloop"
    [] Exited(s) /\ c \notin S -> s
    [] OTHER -> "waiting"

\* update_pod_status with container_ids k: the phase the statuses give.  A
\* container whose status cannot be had, in U, is shown waiting, and one that
\* exited within 800 ms of its start, in R, running.
UpdatePodStatus(k, r, S) ==
  LET status(c, U, R) == IF c \in U THEN "waiting"
                         ELSE IF c \in R THEN "running"
                         ELSE Reported(StateIn(k, r, c), c, S)
      shown(q, U, R) == [j \in 1..Len(q) |-> status(q[j], U, R)]
  IN  \E U \in SUBSET {c \in Names : "status" \in Faults /\ k[c] # 0},
         R \in SUBSET {c \in SeqSet(Apps) : Exited(StateIn(k, r, c))} :
        phase' = ComputePodPhase(shown(Init_, U, R), shown(Apps, U, R), policy)

----------------------------------------------------------------------------
(***************************************************************************)
(* Steps of sync_pod.                                                      *)
(***************************************************************************)
Goto(p, k) == pc' = p /\ at' = k /\ UNCHANGED <<given, crashes, late>>
Stay(p) == Goto(p, at)

\* The sync ends; NeedsRetry and Synced keep the state.
Return == Goto("idle", 1)

\* On to the next container; after the last of Apps come the sidecars.
Advance == Goto(IF at = Len(Init_ \o Apps) THEN "sidecars" ELSE "walk", at + 1)

Begin ==
  /\ pc = "idle"
  /\ ~ late
  /\ Stay("sandbox")
  /\ UNCHANGED <<stateVars, phase, criVars>>

\* Volumes cannot be mounted or an image cannot be pulled: the phase goes to
\* Pending whatever runs.
PrepareFails ==
  /\ pc = "idle"
  /\ ~ late
  /\ "prepare" \in Faults
  /\ phase' = "Pending"
  /\ Return
  /\ UNCHANGED <<stateVars, criVars>>

\* terminate_pod on the state at hand: the sandbox it names is removed, and
\* with it every container of the pod.  The phase goes to Failed, and
\* Terminated makes the runtime manager drop the state.
TerminatePod ==
  /\ \/ sbx /\ sandbox' = "none" /\ ctrs' = NoRecords
     \/ (sbx => "cleanup" \in Faults) /\ UNCHANGED criVars
  /\ sbx' = FALSE
  /\ known' = Nothing
  /\ counts' = Nothing
  /\ phase' = "Failed"
  /\ pc' = "idle"
  /\ at' = 1

\* The pod has been active for longer than activeDeadlineSeconds.  start_time
\* comes back from the API server after a restart: the deadline stays passed.
DeadlineExceeded ==
  /\ pc = "idle"
  /\ late' = TRUE
  /\ TerminatePod
  /\ UNCHANGED <<given, crashes>>

\* Mutant: running containers are not taken over.
RecoverableInitOnly(c) ==
  {n \in Records : c \in SeqSet(Init_) /\ Exited(ctrs[c][n])}

\* The records of c that create_sandbox's caller takes over: running ones,
\* and those of init containers that have exited.
Recoverable(c) ==
  {n \in Records : \/ ctrs[c][n] = "running"
                   \/ c \in SeqSet(Init_) /\ Exited(ctrs[c][n])}

\* list_containers comes in any order: the first recoverable record n of c
\* is taken, and of the others only those listed before it, S, count for
\* restart_counts.
Recovery(c) ==
  LET rest == {n \in Records : ctrs[c][n] # "none"} \ Recoverable(c)
  IN  IF Recoverable(c) = {} THEN {<<0, Max({counts[c]} \cup rest)>>}
      ELSE {<<n, Max({counts[c], n} \cup S)>> : n \in Recoverable(c), S \in SUBSET rest}

SandboxKnown ==
  /\ pc = "sandbox"
  /\ sbx
  /\ Goto("walk", 1)
  /\ UNCHANGED <<stateVars, phase, criVars>>

\* create_sandbox reuses a sandbox that is ready; the containers in it can be
\* taken over if they can be listed ...
SandboxReused ==
  /\ pc = "sandbox"
  /\ ~ sbx
  /\ sandbox = "ready"
  /\ \E f \in [Names -> UNION {Recovery(c) : c \in Names}] :
       /\ \A c \in Names : f[c] \in Recovery(c)
       /\ known' = [c \in Names |-> f[c][1]]
       /\ counts' = [c \in Names |-> f[c][2]]
  /\ sbx' = TRUE
  /\ Goto("walk", 1)
  /\ UNCHANGED <<phase, criVars>>

SandboxUnlisted ==
  /\ pc = "sandbox"
  /\ ~ sbx
  /\ sandbox = "ready"
  /\ "list" \in Faults
  /\ sbx' = TRUE
  /\ Goto("walk", 1)
  /\ UNCHANGED <<known, counts, phase, criVars>>

\* ... and removes one that is not, with its containers, before it runs a new
\* one.
SandboxCreated ==
  /\ pc = "sandbox"
  /\ ~ sbx
  /\ sandbox # "ready"
  /\ sandbox' = "ready"
  /\ ctrs' = NoRecords
  /\ sbx' = TRUE
  /\ Goto("walk", 1)
  /\ UNCHANGED <<known, counts, phase>>

\* A call of create_sandbox fails, before or after the new sandbox is there.
SandboxFails ==
  /\ pc = "sandbox"
  /\ ~ sbx
  /\ "sandbox" \in Faults
  /\ phase' = "Pending"
  /\ \/ UNCHANGED criVars
     \/ /\ sandbox # "ready"
        /\ sandbox' \in {"none", "ready"}
        /\ ctrs' = NoRecords
  /\ Return
  /\ UNCHANGED stateVars

----------------------------------------------------------------------------
(***************************************************************************)
(* The walk over the containers.                                           *)
(***************************************************************************)
Walking(c) == pc = "walk" /\ at =< Len(Order) /\ c = Order[at]

ContainerRestartPolicy(c) == IF OwnPolicy[c] = "pod" THEN policy ELSE OwnPolicy[c]

\* Mutant: an init container that has exited is done, whatever its exit code.
SettledWhenExited(c, s) ==
  IF c \in Regular THEN Exited(s)
  ELSE IF c \in SeqSet(Ephemeral) THEN known[c] # 0 ELSE s = "running"

\* The container needs nothing, given its status s.
Settled(c, s) ==
  \/ c \in Sidecars /\ s = "running"
  \/ c \in Regular /\ s = "ok"
  \/ c \in SeqSet(Apps) /\ \/ s = "running"
                           \/ Exited(s) /\ ContainerRestartPolicy(c) = "Never"
                           \/ s = "ok" /\ ContainerRestartPolicy(c) = "OnFailure"
  \/ c \in SeqSet(Ephemeral) /\ known[c] # 0

WalkPast(c) ==
  /\ Walking(c)
  /\ \E s \in Seen(c) : Settled(c, s)
  /\ Advance
  /\ UNCHANGED <<stateVars, phase, criVars>>

\* A regular init container is still running: NeedsRetry.
InitRunning(c) ==
  /\ Walking(c)
  /\ c \in Regular
  /\ Status(c) = "running"
  /\ UpdatePodStatus(known, ctrs, {})
  /\ Return
  /\ UNCHANGED <<stateVars, criVars>>

\* "Init container failed and pod must not restart: fail the pod."
InitFailsPod(c) ==
  /\ Walking(c)
  /\ c \in Regular
  /\ Status(c) = "err"
  /\ policy = "Never"
  /\ TerminatePod
  /\ UNCHANGED <<given, crashes, late>>

\* An init container that was created before and a container that has exited
\* are started after a back-off.
BacksOff(c, s) == \/ c \in SeqSet(Init_) /\ counts[c] > 0
                  \/ c \in SeqSet(Apps) /\ Exited(s)

\* The container has to be started.  An init container also backs off when it
\* could not be created before, which the model does not keep.
WalkStart(c) ==
  /\ Walking(c)
  /\ \E s \in Seen(c) :
       /\ ~ Settled(c, s)
       /\ c \in Regular => s # "running" /\ ~ (s = "err" /\ policy = "Never")
       /\ \/ /\ BacksOff(c, s) \/ c \in SeqSet(Init_)
             /\ UpdatePodStatus(known, ctrs, {c})
          \/ ~ BacksOff(c, s) /\ UNCHANGED phase
  /\ Stay("start")
  /\ UNCHANGED <<stateVars, criVars>>

----------------------------------------------------------------------------
(***************************************************************************)
(* start_container.                                                        *)
(***************************************************************************)
Starting(p, c) == pc = p /\ c = Order[at]

\* It has returned an error: an init container makes the sync return
\* NeedsRetry, the others are passed over.  r is what the runtime holds then.
StartFails(c, r) ==
  /\ IF c \in SeqSet(Init_) THEN Return /\ UpdatePodStatus(known, r, {})
     ELSE Advance /\ UNCHANGED phase
  /\ UNCHANGED stateVars

\* Image, volumes or environment are not to be had.
StartUnprepared(c) ==
  /\ Starting("start", c)
  /\ "prepare" \in Faults
  /\ StartFails(c, ctrs)
  /\ UNCHANGED criVars

\* Record n of c is stopped or removed, and is in state st then, if the call
\* succeeds.
CleanUp(c, n, st) ==
  \/ n # 0 /\ ctrs' = [ctrs EXCEPT ![c][n] = st]
  \/ (n # 0 => "cleanup" \in Faults) /\ UNCHANGED ctrs

\* The old record is removed, if it can be, and no longer tracked.
RemoveOld(c) ==
  /\ Starting("start", c)
  /\ CleanUp(c, known[c], "none")
  /\ Stay("create")
  /\ known' = [known EXCEPT ![c] = 0]
  /\ UNCHANGED <<sbx, counts, phase, sandbox>>

\* The name of the next attempt is taken, and every record of the container
\* is removed before create_container is tried again.
NameReserved(c) == ctrs[c][counts[c] + 1] # "none"

\* create_container with the next attempt.
Create(c) ==
  /\ Starting("create", c)
  /\ sandbox = "ready"
  /\ counts[c] < MaxRecords
  /\ ctrs' = [ctrs EXCEPT ![c] = [n \in Records |->
                 IF n = counts[c] + 1 THEN "created"
                 ELSE IF NameReserved(c) THEN "none" ELSE @[n]]]
  /\ counts' = [counts EXCEPT ![c] = @ + 1]
  /\ Stay("run")
  /\ UNCHANGED <<sbx, known, phase, sandbox>>

\* The runtime does not know the sandbox: forget it, and every container.
SandboxGone(c) ==
  /\ Starting("create", c)
  /\ sandbox = "none"
  /\ c \notin SeqSet(Ephemeral)
  /\ sbx' = FALSE
  /\ known' = Nothing
  /\ Return
  /\ UNCHANGED <<counts, phase, criVars>>

\* Any other failure; a sandbox that is not ready takes no container.
CreateFails(c) ==
  /\ Starting("create", c)
  /\ \/ sandbox = "ready" /\ "create" \in Faults
     \/ sandbox = "notready"
     \/ sandbox = "none" /\ c \in SeqSet(Ephemeral)
  /\ StartFails(c, ctrs)
  /\ UNCHANGED criVars

\* runtime.start_container
Run(c) ==
  /\ Starting("run", c)
  /\ ctrs[c][counts[c]] = "created"
  /\ sandbox = "ready"
  /\ ctrs' = [ctrs EXCEPT ![c][counts[c]] = "running"]
  /\ Stay("hook")
  /\ UNCHANGED <<stateVars, phase, sandbox>>

\* It fails, and the record is removed again if it can be.
RunFails(c) ==
  /\ Starting("run", c)
  /\ "start" \in Faults \/ ctrs[c][counts[c]] # "created" \/ sandbox # "ready"
  /\ CleanUp(c, counts[c], "none")
  /\ StartFails(c, ctrs')
  /\ UNCHANGED sandbox

\* The PostStart hook is through, and the record is tracked.  A regular init
\* container is waited for.
Started(c) ==
  /\ Starting("hook", c)
  /\ known' = [known EXCEPT ![c] = counts[c]]
  /\ IF c \in Regular THEN Return /\ UpdatePodStatus(known', ctrs, {})
     ELSE Advance /\ UNCHANGED phase
  /\ UNCHANGED <<sbx, counts, criVars>>

\* The hook fails: the container is stopped, if it can be, and its record is
\* left behind.
HookFails(c) ==
  /\ Starting("hook", c)
  /\ "hook" \in Faults
  /\ IF ctrs[c][counts[c]] = "running" THEN CleanUp(c, counts[c], "err")
     ELSE UNCHANGED ctrs
  /\ StartFails(c, ctrs')
  /\ UNCHANGED sandbox

----------------------------------------------------------------------------
\* When every app container has terminated, the tracked sidecars are stopped;
\* they end with exit code 0 or are killed.
AppsDone == \A c \in SeqSet(Apps) : Exited(Status(c))

StopSidecars ==
  /\ pc = "sidecars"
  /\ \/ /\ AppsDone
        /\ \E res \in {"ok", "err"} :
             ctrs' = [c \in Names |-> [n \in Records |->
                        IF c \in Sidecars /\ n = known[c] /\ ctrs[c][n] = "running"
                        THEN res ELSE ctrs[c][n]]]
     \/ (AppsDone => "status" \in Faults) /\ UNCHANGED ctrs
  /\ Stay("walk")
  /\ UNCHANGED <<stateVars, phase, sandbox>>

\* The last step: the status is updated and the pod is Synced.
Finish ==
  /\ pc = "walk"
  /\ at = Len(Order) + 1
  /\ UpdatePodStatus(known, ctrs, {})
  /\ Return
  /\ UNCHANGED <<stateVars, criVars>>

----------------------------------------------------------------------------
(***************************************************************************)
(* The runtime and the process.                                            *)
(***************************************************************************)
\* A container exits.  Bound: the last record a container may get stays.
Exit(c, n) ==
  /\ ctrs[c][n] = "running"
  /\ n < MaxRecords
  /\ \E res \in {"ok", "err"} : ctrs' = [ctrs EXCEPT ![c][n] = res]
  /\ UNCHANGED <<given, pc, at, stateVars, phase, sandbox, crashes, late>>

\* The sandbox stops, with what runs in it, ...
SandboxStops ==
  /\ sandbox = "ready"
  /\ sandbox' = "notready"
  /\ ctrs' = [c \in Names |-> [n \in Records |->
                IF ctrs[c][n] = "running" THEN "err" ELSE ctrs[c][n]]]
  /\ UNCHANGED <<given, pc, at, stateVars, phase, crashes, late>>

\* ... or is removed from outside, with its containers.
SandboxRemoved ==
  /\ sandbox # "none"
  /\ sandbox' = "none"
  /\ ctrs' = NoRecords
  /\ UNCHANGED <<given, pc, at, stateVars, phase, crashes, late>>

\* The kubelet crashes: the runtime states and the status store are lost.
Crash ==
  /\ pc # "down"
  /\ crashes < MaxCrashes
  /\ crashes' = crashes + 1
  /\ pc' = "down"
  /\ at' = 1
  /\ sbx' = FALSE
  /\ known' = Nothing
  /\ counts' = Nothing
  /\ phase' = "Pending"
  /\ UNCHANGED <<given, criVars, late>>

Restart ==
  /\ pc = "down"
  /\ Stay("idle")
  /\ UNCHANGED <<stateVars, phase, criVars>>

----------------------------------------------------------------------------
Container(c) ==
  \/ WalkPast(c) \/ InitRunning(c) \/ InitFailsPod(c) \/ WalkStart(c)
  \/ StartUnprepared(c) \/ RemoveOld(c) \/ Create(c) \/ SandboxGone(c)
  \/ CreateFails(c) \/ Run(c) \/ RunFails(c) \/ Started(c) \/ HookFails(c)

Sandbox ==
  SandboxKnown \/ SandboxReused \/ SandboxUnlisted \/ SandboxCreated \/ SandboxFails

SyncPod ==
  \/ Begin \/ PrepareFails \/ DeadlineExceeded
  \/ Sandbox \/ StopSidecars \/ Finish
  \/ \E c \in Names : Container(c)

Environment ==
  \/ \E c \in Names, n \in Records : Exit(c, n)
  \/ SandboxStops \/ SandboxRemoved
  \/ Crash

Next == SyncPod \/ Environment \/ Restart

Spec == Init /\ [][Next]_vars

----------------------------------------------------------------------------
\* No app container runs twice, wherever the kubelet crashed and whatever it
\* had to take over, if containers can be listed, stopped and removed:
\* start_container is reached only when no other record of its name runs.
OneRunning ==
  Faults \cap {"list", "cleanup"} = {} =>
    \A c \in SeqSet(Apps), m, n \in Records :
       ctrs[c][m] = "running" /\ ctrs[c][n] = "running" => m = n

\* An app container is started only when each regular init container has
\* completed, also after a crash, in a new sandbox, or when nothing can be
\* listed.
InitBeforeApps ==
  [][\A c \in SeqSet(Apps), n \in Records :
        ctrs[c][n] # "running" /\ ctrs'[c][n] = "running" =>
           \A i \in Regular : \E m \in Records : ctrs[i][m] = "ok"]_vars
=============================================================================
