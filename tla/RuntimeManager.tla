--------------------------- MODULE RuntimeManager ---------------------------
(***************************************************************************)
(* The pod runtime manager of the kubelet                                  *)
(* (crates/kubelet-app/src/runtime_manager/mod.rs): the sync tasks of      *)
(* SyncSlots together with what they do - runtime states taken from and    *)
(* put back into pod_states, pods created in the container runtime, phases *)
(* stored - and the tasks that delete and evict pods.                      *)
(*                                                                         *)
(* Each action is an action of SyncSlots, or leaves its variables alone,   *)
(* conjoined with the rest of the step.  A task's critical section on      *)
(* pod_states and its call of the pod worker are single actions.           *)
(***************************************************************************)
EXTENDS SyncSlots

CONSTANTS Reapers,    \* delete and evict tasks that may exist at the same time
          CriFaults   \* whether removals from the container runtime may fail

ASSUME CriAssumption == CriFaults \in BOOLEAN

VARIABLES
  phase,      \* PodManager.status: the phase stored for a pod
  podStates,  \* pod_states: the PodRuntimeState kept for a pod
  syncState,  \* the PodRuntimeState a sync task works on
  deleting,   \* deleting_pods
  reapPc, reapPod, reapKind, reapState, \* tasks of delete_pod and evict_pod
  live        \* pods with a sandbox or containers in the container runtime

reapVars == <<reapPc, reapPod, reapKind, reapState>>

vars == <<syncSlotVars, phase, podStates, syncState, deleting, reapVars, live>>

----------------------------------------------------------------------------
Phase == {"Pending", "Running", "Succeeded", "Failed"}

\* A pod's PodRuntimeState: no entry in the map, an entry that names no
\* sandbox, or an entry that names the pod's sandbox and containers.
RuntimeState == {"none", "empty", "tracked"}

\* remove(uid).unwrap_or_default()
OrDefault(s) == IF s = "none" THEN "empty" ELSE s

ReapPc == {"idle", "take", "terminate", "drain", "cleanup", "report"}

TypeOK ==
  /\ SlotTypeOK
  /\ phase \in [Pods -> Phase]
  /\ podStates \in [Pods -> RuntimeState]
  /\ syncState \in [Tasks -> RuntimeState]
  /\ deleting \subseteq Pods
  /\ reapPc \in [Reapers -> ReapPc]
  /\ reapPod \in [Reapers -> Pods \cup {NoPod}]
  /\ reapKind \in [Reapers -> {"delete", "evict"}]
  /\ reapState \in [Reapers -> RuntimeState]
  /\ \A r \in Reapers : reapPc[r] # "idle" => reapPod[r] \in Pods
  /\ live \subseteq Pods

Init ==
  /\ SlotInit
  /\ phase = [p \in Pods |-> "Pending"]
  /\ podStates = [p \in Pods |-> "none"]
  /\ syncState = [t \in Tasks |-> "none"]
  /\ deleting = {}
  /\ reapPc = [r \in Reapers |-> "idle"]
  /\ reapPod = [r \in Reapers |-> NoPod]
  /\ reapKind = [r \in Reapers |-> "delete"]
  /\ reapState = [r \in Reapers |-> "none"]
  /\ live \in SUBSET Pods   \* a restarted kubelet finds earlier pods running

----------------------------------------------------------------------------
\* upsert initialises the status of a pod it did not know.
Upsert(p, v) ==
  /\ SendUpsert(p, v)
  /\ phase' = IF desired[p] = 0 THEN [phase EXCEPT ![p] = "Pending"] ELSE phase
  /\ UNCHANGED <<podStates, syncState, deleting, reapVars, live>>

\* remove leaves the status behind.
Remove(p, v) ==
  /\ SendRemove(p, v)
  /\ UNCHANGED <<phase, podStates, syncState, deleting, reapVars, live>>

Reconcile(p) ==
  /\ SendReconcile(p)
  /\ UNCHANGED <<phase, podStates, syncState, deleting, reapVars, live>>

----------------------------------------------------------------------------
\* check_host_port_conflict: some other desired pod that has not ended asks
\* for a host port of p.
HostPortConflict(p) ==
  \E q \in Pods : PortRival(p, q) /\ phase[q] \notin {"Failed", "Succeeded"}

\* handle_update of a pod that is admitted.
AdmitUpdate ==
  /\ ReceiveUpsert
  /\ ~ HostPortConflict(Head(updates).pod)
  /\ UNCHANGED <<phase, podStates, syncState, deleting, reapVars, live>>

\* handle_update of a pod that is not: reject_pod_admission.
RejectUpdate ==
  /\ ReceiveRejected
  /\ HostPortConflict(Head(updates).pod)
  /\ phase' = [phase EXCEPT ![Head(updates).pod] = "Failed"]
  /\ UNCHANGED <<podStates, syncState, deleting, reapVars, live>>

\* The task spawned by delete_pod and evict_pod.
SpawnReaper(p, kind) ==
  \E r \in Reapers :
    /\ reapPc[r] = "idle"
    /\ reapPc' = [reapPc EXCEPT ![r] = "take"]
    /\ reapPod' = [reapPod EXCEPT ![r] = p]
    /\ reapKind' = [reapKind EXCEPT ![r] = kind]
    /\ UNCHANGED reapState

\* handle_update of a Remove: delete_pod.
DeletePod ==
  /\ ReceiveRemove
  /\ deleting' = deleting \cup {Head(updates).pod}
  /\ SpawnReaper(Head(updates).pod, "delete")
  /\ UNCHANGED <<phase, podStates, syncState, live>>

\* evict_pod: mark the pod Failed, then spawn the task that tears it down.
EvictPod(p) ==
  /\ desired[p] # 0
  /\ phase' = [phase EXCEPT ![p] = "Failed"]
  /\ SpawnReaper(p, "evict")
  /\ UNCHANGED <<syncSlotVars, podStates, syncState, deleting, live>>

PollPleg ==
  /\ Pleg
  /\ UNCHANGED <<phase, podStates, syncState, deleting, reapVars, live>>

----------------------------------------------------------------------------
(***************************************************************************)
(* The task spawned by sync_pod.                                           *)
(***************************************************************************)
\* The head of the loop: take the pod's runtime state out of the map.
TakeState(t) ==
  /\ Begin(t)
  /\ syncState' = [syncState EXCEPT ![t] = OrDefault(podStates[syncPod[t]])]
  /\ podStates' = [podStates EXCEPT ![syncPod[t]] = "none"]
  /\ UNCHANGED <<phase, deleting, reapVars, live>>

\* worker.sync_pod on a state that names no sandbox: create the pod's sandbox
\* and containers, or recover the ones the runtime still has.
WorkerCreate(t) ==
  /\ syncPc[t] = "work"
  /\ syncVer[t] \notin Invalid
  /\ syncState[t] = "empty"
  /\ live' = live \cup {syncPod[t]}
  /\ syncState' = [syncState EXCEPT ![t] = "tracked"]
  /\ UNCHANGED <<syncSlotVars, phase, podStates, deleting, reapVars>>

\* The task's state, now s, goes back into the map.
PutState(t, s) ==
  /\ podStates' = [podStates EXCEPT ![syncPod[t]] = s]
  /\ syncState' = [syncState EXCEPT ![t] = "none"]
  /\ UNCHANGED <<deleting, reapVars>>

\* Synced: update_pod_status has computed the phase from the containers alone.
WorkerSynced(t) ==
  /\ Synced(t)
  /\ syncState[t] = "tracked"
  /\ \E ph \in Phase : phase' = [phase EXCEPT ![syncPod[t]] = ph]
  /\ PutState(t, "tracked")
  /\ UNCHANGED live

\* NeedsRetry: before the sandbox exists (volumes, images, sandbox creation),
\* or after it (init containers), or because the sandbox is found to have
\* vanished, which makes the state forget it.
WorkerNeedsRetry(t) ==
  /\ NeedsRetry(t)
  /\ \E ph \in {"Pending", "Running", phase[syncPod[t]]} :
       phase' = [phase EXCEPT ![syncPod[t]] = ph]
  /\ \/ PutState(t, syncState[t])
     \/ syncPod[t] \notin live /\ PutState(t, "empty")
  /\ UNCHANGED live

\* Failed: validation comes first, so nothing was touched.
WorkerFailed(t) ==
  /\ FailedSync(t)
  /\ PutState(t, syncState[t])
  /\ UNCHANGED <<phase, live>>

\* What the runtime may hold after a teardown of pod p with state s.
Terminate(p, s) ==
  IF s # "tracked" THEN {live}
  ELSE {live \ {p}} \cup (IF CriFaults THEN {live} ELSE {})

\* Terminated: the worker tore the pod down itself (deadline exceeded, failed
\* init container); the entry is removed from the map.
WorkerTerminated(t) ==
  /\ Terminated(t)
  /\ phase' = [phase EXCEPT ![syncPod[t]] = "Failed"]
  /\ live' \in Terminate(syncPod[t], syncState[t])
  /\ PutState(t, "none")

\* The slot checks of the loop.
SlotStep(t) ==
  /\ RetryWake(t) \/ TrailingSync(t) \/ PodGone(t) \/ ReleaseSlot(t) \/ Exit(t)
  /\ UNCHANGED <<phase, podStates, syncState, deleting, reapVars, live>>

----------------------------------------------------------------------------
(***************************************************************************)
(* The tasks of delete_pod and evict_pod.                                  *)
(***************************************************************************)
ReapStep(r, from, to) ==
  /\ reapPc[r] = from
  /\ reapPc' = [reapPc EXCEPT ![r] = to]
  /\ UNCHANGED <<syncSlotVars, phase, syncState, reapKind>>

ReapTake(r) ==
  /\ ReapStep(r, "take", "terminate")
  /\ reapState' = [reapState EXCEPT ![r] = OrDefault(podStates[reapPod[r]])]
  /\ podStates' = [podStates EXCEPT ![reapPod[r]] = "none"]
  /\ UNCHANGED <<deleting, reapPod, live>>

\* worker.terminate_pod removes what the state names; errors are logged.
ReapTerminate(r) ==
  /\ ReapStep(r, "terminate", "drain")
  /\ live' \in Terminate(reapPod[r], reapState[r])
  /\ reapState' = [reapState EXCEPT ![r] = "none"]
  /\ UNCHANGED <<podStates, deleting, reapPod>>

\* Mutant of DrainDone: the drain loop does not look at the slot.
DrainDoneAtOnce(r) ==
  /\ ReapStep(r, "drain", "cleanup")
  /\ UNCHANGED <<podStates, deleting, reapPod, reapState, live>>

\* The drain loop ends because the slot is free ...
DrainDone(r) ==
  /\ reapPod[r] \notin running
  /\ ReapStep(r, "drain", "cleanup")
  /\ UNCHANGED <<podStates, deleting, reapPod, reapState, live>>

\* Mutant of DrainExpired: there is no deadline.
DrainNoDeadline(r) ==
  /\ reapPod[r] \notin running
  /\ ReapStep(r, "drain", "cleanup")
  /\ UNCHANGED <<podStates, deleting, reapPod, reapState, live>>

\* ... or because 30 seconds have passed.
DrainExpired(r) ==
  /\ reapPod[r] \in running
  /\ ReapStep(r, "drain", "cleanup")
  /\ UNCHANGED <<podStates, deleting, reapPod, reapState, live>>

\* worker.cleanup_pod_containerd_by_uid: everything of the pod the runtime lists.
ReapCleanup(r) ==
  /\ ReapStep(r, "cleanup", "report")
  /\ live' \in Terminate(reapPod[r], "tracked")
  /\ UNCHANGED <<podStates, deleting, reapPod, reapState>>

\* Mutant of ReapReport: the pod stays in the deleting set.
ReapReportKeepsMark(r) ==
  /\ ReapStep(r, "report", "idle")
  /\ reapPod' = [reapPod EXCEPT ![r] = NoPod]
  /\ UNCHANGED <<podStates, deleting, reapState, live>>

\* The final report and the force-delete in the API server; a deletion then
\* leaves the deleting set.
ReapReport(r) ==
  /\ ReapStep(r, "report", "idle")
  /\ deleting' = IF reapKind[r] = "delete" THEN deleting \ {reapPod[r]}
                 ELSE deleting
  /\ reapPod' = [reapPod EXCEPT ![r] = NoPod]
  /\ UNCHANGED <<podStates, reapState, live>>

----------------------------------------------------------------------------
Worker(t) ==
  \/ TakeState(t)
  \/ WorkerCreate(t)
  \/ WorkerSynced(t)
  \/ WorkerNeedsRetry(t)
  \/ WorkerFailed(t)
  \/ WorkerTerminated(t)
  \/ SlotStep(t)

Reaper(r) ==
  \/ ReapTake(r)
  \/ ReapTerminate(r)
  \/ DrainDone(r)
  \/ DrainExpired(r)
  \/ ReapCleanup(r)
  \/ ReapReport(r)

Next ==
  \/ \E p \in Pods, v \in Versions : Upsert(p, v) \/ Remove(p, v)
  \/ \E p \in Pods : Reconcile(p) \/ EvictPod(p)
  \/ AdmitUpdate \/ RejectUpdate \/ DeletePod
  \/ PollPleg
  \/ \E t \in Tasks : Worker(t)
  \/ \E r \in Reapers : Reaper(r)

Spec == Init /\ [][Next]_vars

\* A delete or evict task runs its own steps, and its deadline expires; of
\* the sync tasks nothing is assumed.
ReaperSpec == Spec /\ \A r \in Reapers : WF_vars(Reaper(r))

----------------------------------------------------------------------------
\* When the drain loop of a deletion or eviction ends because the slot is
\* free, the only syncs of the pod still at work are ones whose slot was
\* removed under them.
DrainWaitsForOwner ==
  [][\A r \in Reapers : DrainDone(r) =>
        \A t \in Tasks : syncPod[t] = reapPod[r] => ~ Owner(t)]_vars

\* A pod excluded from active_pod_count has a delete task that will clear
\* the mark, also when a Remove is delivered twice or races an eviction.
DeletingHasReaper ==
  \A p \in deleting : \E r \in Reapers :
     reapPc[r] # "idle" /\ reapPod[r] = p /\ reapKind[r] = "delete"

\* A deletion or eviction completes whatever the pod's sync task does, even
\* if that task never returns from the worker: the drain deadline sees to it.
ReapingCompletes == \A r \in Reapers : reapPc[r] # "idle" ~> reapPc[r] = "idle"


----------------------------------------------------------------------------
(***************************************************************************)
(* The bound of the model checker's instance: one pod is followed with all *)
(* its tasks as long as there is no trace of another ...                   *)
(***************************************************************************)
FirstPod == CHOOSE p \in Pods : TRUE
Rivals == Pods \ {FirstPod}

WithoutRivals ==
  \A q \in Rivals :
    /\ desired[q] = 0
    /\ q \notin live \cup running \cup deleting
    /\ phase[q] = "Pending"
    /\ plegPod # q
    /\ \A k \in 1..Len(updates) : updates[k].pod # q
    /\ \A t \in Tasks : syncPod[t] # q

\* ... and the others with one sync task while the first only claims the host
\* port.
WithRivals ==
  /\ \A r \in Reapers : reapPc[r] = "idle"
  /\ \E t \in Tasks : \A u \in Tasks \ {t} : syncPc[u] = "idle"
  /\ \A t \in Tasks : syncPod[t] # FirstPod
  /\ FirstPod \notin live

\* An invalid spec is followed for the others alone.
FirstIsValid ==
  /\ desired[FirstPod] \notin Invalid
  /\ \A k \in 1..Len(updates) : updates[k].pod = FirstPod => updates[k].ver \notin Invalid

ReaperBound == (WithoutRivals \/ WithRivals) /\ FirstIsValid
=============================================================================
