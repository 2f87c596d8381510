------------------------ MODULE RuntimeManager_proofs ------------------------
(***************************************************************************)
(* Proofs about the sync slots (typing, no slot without a task, and the    *)
(* exclusive ownership of a slot by a task that was not robbed of it) and  *)
(* about the runtime manager.  Every step of the manager is a step of the  *)
(* sync slots or leaves them alone, so the theorems about the slots hold   *)
(* of it, and the properties of deletions rest on them.                    *)
(***************************************************************************)
EXTENDS RuntimeManager, TLAPS

----------------------------------------------------------------------------
(***************************************************************************)
(* The sync slots.                                                         *)
(***************************************************************************)
\* What sync_pod does to the variables it may change, whichever trigger
\* calls it.
LEMMA SyncPodType ==
  ASSUME SlotTypeOK, NEW p \in Pods, NEW v \in Versions, SyncPod(p, v)
  PROVE  /\ running' \subseteq Pods /\ pending' \subseteq Pods
         /\ syncPc' \in [Tasks -> SyncPc]
         /\ syncPod' \in [Tasks -> Pods \cup {NoPod}]
         /\ syncVer' \in [Tasks -> Versions \cup {0}]
         /\ \A t \in Tasks : syncPc'[t] # "idle" => /\ syncPod'[t] \in Pods
                                                    /\ syncVer'[t] \in Versions
         /\ robbed' \subseteq Tasks
  BY DEF SlotTypeOK, SyncPod, SyncPc, taskVars

\* The channel stays well typed and within its capacity when a message is
\* appended, and its head is a message when it is not empty.
LEMMA QueueType ==
  ASSUME SlotTypeOK
  PROVE  /\ \A op \in {"Upsert", "Remove"}, p \in Pods, v \in Versions :
               Send(op, p, v) => updates' \in Seq(Message) /\ Len(updates') =< QueueBound
         /\ \A op \in {"Upsert", "Remove"} : Receive(op) =>
               /\ updates' \in Seq(Message) /\ Len(updates') =< QueueBound
               /\ Head(updates) \in Message
  <1>1. ASSUME NEW op \in {"Upsert", "Remove"}, NEW p \in Pods, NEW v \in Versions,
               Send(op, p, v)
        PROVE  updates' \in Seq(Message) /\ Len(updates') =< QueueBound
    <2> DEFINE m == [op |-> op, pod |-> p, ver |-> v]
    <2>1. m \in Message
      BY DEF Message
    <2>2. updates' = Append(updates, m) /\ Len(updates) < QueueBound
      BY <1>1 DEF Send
    <2> HIDE DEF m
    <2> QED
      BY <2>1, <2>2, SlotAssumption DEF SlotTypeOK
  <1>2. ASSUME NEW op \in {"Upsert", "Remove"}, Receive(op)
        PROVE  /\ updates' \in Seq(Message) /\ Len(updates') =< QueueBound
               /\ Head(updates) \in Message
    BY <1>2, SlotAssumption DEF SlotTypeOK, Receive
  <1> QED
    BY <1>1, <1>2

\* Typing of every step of the sync slots.
LEMMA SlotTypeStep == SlotTypeOK /\ [SlotNext]_syncSlotVars => SlotTypeOK'
  <1> SUFFICES ASSUME SlotTypeOK, [SlotNext]_syncSlotVars
               PROVE  SlotTypeOK'
    OBVIOUS
  <1> USE SlotAssumption
  <1>1. ASSUME NEW p \in Pods, NEW v \in Versions, SendUpsert(p, v) \/ SendRemove(p, v)
        PROVE  SlotTypeOK'
    <2>1. updates' \in Seq(Message) /\ Len(updates') =< QueueBound
      BY <1>1, QueueType DEF SendUpsert, SendRemove
    <2> QED
      BY <1>1, <2>1 DEF SlotTypeOK, SendUpsert, SendRemove, slotVars, taskVars, plegVars
  <1>2. ASSUME NEW p \in Pods, SendReconcile(p)
        PROVE  SlotTypeOK'
    <2>1. desired[p] \in Versions
      BY <1>2 DEF SlotTypeOK, SendReconcile
    <2>2. updates' \in Seq(Message) /\ Len(updates') =< QueueBound
      BY <1>2, <2>1, QueueType DEF SendReconcile
    <2> QED
      BY <1>2, <2>2 DEF SlotTypeOK, SendReconcile, slotVars, taskVars, plegVars
  <1>3. CASE ReceiveUpsert
    <2>1. /\ updates' \in Seq(Message) /\ Len(updates') =< QueueBound
          /\ Head(updates).pod \in Pods /\ Head(updates).ver \in Versions
      BY <1>3, QueueType DEF ReceiveUpsert, Message
    <2>2. SyncPod(Head(updates).pod, Head(updates).ver)
      BY <1>3 DEF ReceiveUpsert
    <2>3. UNCHANGED <<desired, plegVars, synced>>
      BY <1>3 DEF ReceiveUpsert
    <2>4. /\ running' \subseteq Pods /\ pending' \subseteq Pods
          /\ syncPc' \in [Tasks -> SyncPc]
          /\ syncPod' \in [Tasks -> Pods \cup {NoPod}]
          /\ syncVer' \in [Tasks -> Versions \cup {0}]
          /\ \A t \in Tasks : syncPc'[t] # "idle" => syncPod'[t] \in Pods /\ syncVer'[t] \in Versions
          /\ robbed' \subseteq Tasks
      BY <2>1, <2>2, SyncPodType
    <2> QED
      BY <2>1, <2>3, <2>4 DEF SlotTypeOK, plegVars
  <1>4. CASE ReceiveRejected \/ ReceiveRemove
    <2>1. updates' \in Seq(Message) /\ Len(updates') =< QueueBound
      BY <1>4, QueueType DEF ReceiveRejected, ReceiveRemove
    <2> QED
      BY <1>4, <2>1 DEF SlotTypeOK, ReceiveRejected, ReceiveRemove, slotVars,
                        taskVars, plegVars
  <1>5. ASSUME NEW p \in Pods, PlegRead(p)
        PROVE  SlotTypeOK'
    BY <1>5 DEF SlotTypeOK, PlegRead, feedVars, slotVars, taskVars
  <1>6. CASE PlegSync
    <2>1. plegPod \in Pods /\ plegVer \in Versions
      BY <1>6 DEF SlotTypeOK, PlegSync
    <2> QED
      BY <1>6, <2>1, SyncPodType DEF SlotTypeOK, PlegSync, feedVars
  <1>7. ASSUME NEW t \in Tasks, SyncTask(t)
        PROVE  SlotTypeOK'
    <2> USE DEF SlotTypeOK, TaskStep, feedVars, slotVars, plegVars
    <2>1. CASE Begin(t)
      BY <2>1 DEF Begin, SyncPc
    <2>2. CASE Synced(t)
      BY <2>2 DEF Synced, SyncPc
    <2>3. CASE NeedsRetry(t)
      BY <2>3 DEF NeedsRetry, SyncPc
    <2>4. CASE FailedSync(t)
      BY <2>4 DEF FailedSync, SyncPc
    <2>5. CASE Terminated(t)
      BY <2>5 DEF Terminated, SyncPc
    <2>6. CASE RetryWake(t)
      BY <2>6 DEF RetryWake, SyncPc
    <2>7. CASE TrailingSync(t)
      BY <2>7 DEF TrailingSync, SyncPc
    <2>8. CASE PodGone(t)
      BY <2>8 DEF PodGone, SyncPc
    <2>9. CASE ReleaseSlot(t)
      BY <2>9 DEF ReleaseSlot, OtherLoops, SyncPc
    <2>10. CASE Exit(t)
      BY <2>10 DEF Exit, OtherLoops, SyncPc
    <2> QED
      BY <1>7, <2>1, <2>2, <2>3, <2>4, <2>5, <2>6, <2>7, <2>8, <2>9, <2>10 DEF SyncTask
  <1>8. CASE UNCHANGED syncSlotVars
    BY <1>8 DEF SlotTypeOK, syncSlotVars, feedVars, slotVars, taskVars, plegVars
  <1> QED
    BY <1>1, <1>2, <1>3, <1>4, <1>5, <1>6, <1>7, <1>8
    DEF SlotNext, Feed, HandleUpdate, Pleg

\* The sync slots are well typed in every reachable state.
THEOREM SlotTyping == SlotSpec => []SlotTypeOK
  <1>1. SlotInit => SlotTypeOK
    BY SlotAssumption DEF SlotInit, SlotTypeOK, SyncPc
  <1> QED
    BY <1>1, SlotTypeStep, PTL DEF SlotSpec

----------------------------------------------------------------------------
(***************************************************************************)
(* SlotHasTask is inductive given the types: a slot is marked running in   *)
(* the step that spawns its task, and a task that goes idle removes the    *)
(* slot its pod has at that moment.                                        *)
(***************************************************************************)
\* A pod's task that is active stays so across sync_pod.
LEMMA SyncPodSlotHasTask ==
  ASSUME SlotTypeOK, SlotHasTask, NEW p \in Pods, NEW v \in Versions, SyncPod(p, v)
  PROVE  SlotHasTask'
  <1>1. CASE p \in running
    BY <1>1 DEF SyncPod, SlotHasTask, taskVars
  <1>2. CASE p \notin running
    <2>1. PICK t \in Tasks :
             /\ syncPc[t] = "idle"
             /\ syncPc' = [syncPc EXCEPT ![t] = "take"]
             /\ syncPod' = [syncPod EXCEPT ![t] = p]
      BY <1>2 DEF SyncPod
    <2>2. running' = running \cup {p} /\ pending' = pending
      BY <1>2 DEF SyncPod
    <2>3. syncPod'[t] = p /\ syncPc'[t] # "idle"
      BY <2>1 DEF SlotTypeOK
    <2>4. \A q \in running : \E u \in Tasks : syncPod'[u] = q /\ syncPc'[u] # "idle"
      BY <2>1 DEF SlotHasTask, SlotTypeOK
    <2> QED
      BY <2>2, <2>3, <2>4 DEF SlotHasTask
  <1> QED
    BY <1>1, <1>2

\* No step takes the task from a slot that runs.
LEMMA SlotHasTaskStep ==
  SlotTypeOK /\ SlotHasTask /\ [SlotNext]_syncSlotVars => SlotHasTask'
  <1> SUFFICES ASSUME SlotTypeOK, SlotHasTask, [SlotNext]_syncSlotVars
               PROVE  SlotHasTask'
    OBVIOUS
  <1>1. CASE Feed
    BY <1>1 DEF Feed, SendUpsert, SendRemove, SendReconcile, slotVars, taskVars,
                SlotHasTask
  <1>2. CASE ReceiveUpsert
    <2>1. Head(updates).pod \in Pods /\ Head(updates).ver \in Versions
      BY <1>2, QueueType DEF ReceiveUpsert, Message
    <2> QED
      BY <1>2, <2>1, SyncPodSlotHasTask DEF ReceiveUpsert
  <1>3. CASE ReceiveRejected \/ ReceiveRemove
    BY <1>3 DEF ReceiveRejected, ReceiveRemove, slotVars, taskVars, SlotHasTask
  <1>4. ASSUME NEW p \in Pods, PlegRead(p)
        PROVE  SlotHasTask'
    BY <1>4 DEF PlegRead, slotVars, taskVars, SlotHasTask
  <1>5. CASE PlegSync
    <2>1. plegPod \in Pods /\ plegVer \in Versions
      BY <1>5 DEF SlotTypeOK, PlegSync
    <2> QED
      BY <1>5, <2>1, SyncPodSlotHasTask DEF PlegSync
  <1>6. ASSUME NEW t \in Tasks, SyncTask(t)
        PROVE  SlotHasTask'
    <2> USE DEF SlotTypeOK, SlotHasTask
    <2>1. CASE Exit(t)
      \* Another pod's task is not t; t's own pod loses its slot.
      BY <2>1 DEF Exit
    <2>2. CASE ~ Exit(t)
      <3>1. /\ syncPod' = syncPod
            /\ \E pc \in SyncPc \ {"idle"} : syncPc' = [syncPc EXCEPT ![t] = pc]
            /\ syncPc[t] # "idle"
            /\ running' \subseteq running
        BY <1>6, <2>2 DEF SyncTask, TaskStep, Begin, Synced, NeedsRetry, FailedSync,
                          Terminated, RetryWake, TrailingSync, PodGone, ReleaseSlot,
                          slotVars, SyncPc
      <3>2. pending' \subseteq running'
        BY <1>6, <2>2 DEF SyncTask, TaskStep, Begin, Synced, NeedsRetry, FailedSync,
                          Terminated, RetryWake, TrailingSync, PodGone, ReleaseSlot,
                          slotVars
      <3> QED
        BY <3>1, <3>2
    <2> QED
      BY <2>1, <2>2
  <1>7. CASE UNCHANGED syncSlotVars
    BY <1>7 DEF syncSlotVars, slotVars, taskVars, SlotHasTask
  <1> QED
    BY <1>1, <1>2, <1>3, <1>4, <1>5, <1>6, <1>7 DEF SlotNext, HandleUpdate, Pleg

\* No slot is ever left running without a task, so no pod is silenced.
THEOREM SlotNeverOrphaned == SlotSpec => []SlotHasTask
  <1>1. SlotInit => SlotHasTask
    BY DEF SlotInit, SlotHasTask
  <1> QED
    BY <1>1, SlotTyping, SlotHasTaskStep, PTL DEF SlotSpec

----------------------------------------------------------------------------
(***************************************************************************)
(* OwnerHoldsSlot: a new owner appears only when its pod's slot is not     *)
(* running, when by the invariant the pod has no owner; and whoever clears *)
(* a running slot robs every other task in the loop of that pod.           *)
(***************************************************************************)
LEMMA SyncPodOwner ==
  ASSUME SlotTypeOK, OwnerHoldsSlot, NEW p \in Pods, NEW v \in Versions, SyncPod(p, v)
  PROVE  OwnerHoldsSlot'
  <1> USE DEF OwnerHoldsSlot, Owner, InLoop
  <1>1. CASE p \in running
    BY <1>1 DEF SyncPod, taskVars
  <1>2. CASE p \notin running
    <2>1. PICK t \in Tasks :
             /\ syncPc[t] = "idle"
             /\ syncPc' = [syncPc EXCEPT ![t] = "take"]
             /\ syncPod' = [syncPod EXCEPT ![t] = p]
             /\ robbed' = robbed \ {t}
      BY <1>2 DEF SyncPod
    <2>2. running' = running \cup {p}
      BY <1>2 DEF SyncPod
    <2>3. \A u \in Tasks \ {t} : /\ Owner(u)' <=> Owner(u)
                                 /\ syncPod'[u] = syncPod[u]
      BY <2>1 DEF SlotTypeOK
    <2>4. \A u \in Tasks \ {t} : Owner(u)' => syncPod'[u] # p
      BY <1>2, <2>3
    <2>5. syncPod'[t] = p
      BY <2>1 DEF SlotTypeOK
    <2> HIDE DEF Owner
    <2> QED
      BY <2>2, <2>3, <2>4, <2>5
  <1> QED
    BY <1>1, <1>2

\* No step takes the slot from its owner.
LEMMA OwnerStep ==
  SlotTypeOK /\ OwnerHoldsSlot /\ [SlotNext]_syncSlotVars => OwnerHoldsSlot'
  <1> SUFFICES ASSUME SlotTypeOK, OwnerHoldsSlot, [SlotNext]_syncSlotVars
               PROVE  OwnerHoldsSlot'
    OBVIOUS
  <1> USE DEF OwnerHoldsSlot, Owner, InLoop
  <1>1. CASE Feed
    BY <1>1 DEF Feed, SendUpsert, SendRemove, SendReconcile, slotVars, taskVars
  <1>2. CASE ReceiveUpsert
    <2>1. Head(updates).pod \in Pods /\ Head(updates).ver \in Versions
      BY <1>2, QueueType DEF ReceiveUpsert, Message
    <2> QED
      BY <1>2, <2>1, SyncPodOwner DEF ReceiveUpsert
  <1>3. CASE ReceiveRejected \/ ReceiveRemove
    BY <1>3 DEF ReceiveRejected, ReceiveRemove, slotVars, taskVars
  <1>4. ASSUME NEW p \in Pods, PlegRead(p)
        PROVE  OwnerHoldsSlot'
    BY <1>4 DEF PlegRead, slotVars, taskVars
  <1>5. CASE PlegSync
    <2>1. plegPod \in Pods /\ plegVer \in Versions
      BY <1>5 DEF SlotTypeOK, PlegSync
    <2> QED
      BY <1>5, <2>1, SyncPodOwner DEF PlegSync
  <1>6. ASSUME NEW t \in Tasks, SyncTask(t)
        PROVE  OwnerHoldsSlot'
    <2> USE DEF SlotTypeOK
    <2>1. CASE Exit(t)
      BY <2>1 DEF Exit, OtherLoops, LoopPc
    <2>2. CASE ReleaseSlot(t)
      BY <2>2 DEF ReleaseSlot, TaskStep, OtherLoops, LoopPc
    <2>3. CASE ~ Exit(t) /\ ~ ReleaseSlot(t)
      \* The other steps leave running and robbed alone and bring no task
      \* into the loop that was not there.
      <3>1. /\ syncPod' = syncPod /\ running' = running /\ robbed' = robbed
            /\ \E pc \in LoopPc \cup {"exit"} : syncPc' = [syncPc EXCEPT ![t] = pc]
            /\ syncPc[t] \in LoopPc
        BY <1>6, <2>3 DEF SyncTask, TaskStep, Begin, Synced, NeedsRetry, FailedSync,
                          Terminated, RetryWake, TrailingSync, PodGone, slotVars, LoopPc
      <3>2. \A u \in Tasks : Owner(u)' => Owner(u)
        BY <3>1
      <3> QED
        BY <3>1, <3>2
    <2> QED
      BY <2>1, <2>2, <2>3
  <1>7. CASE UNCHANGED syncSlotVars
    BY <1>7 DEF syncSlotVars, slotVars, taskVars
  <1> QED
    BY <1>1, <1>2, <1>3, <1>4, <1>5, <1>6, <1>7 DEF SlotNext, HandleUpdate, Pleg

\* Of the sync tasks of a pod at most one was not robbed of its slot, and it
\* holds the slot: overlapping syncs come from the stray removal alone.
THEOREM SoleOwner == SlotSpec => []OwnerHoldsSlot
  <1>1. SlotInit => OwnerHoldsSlot
    BY DEF SlotInit, OwnerHoldsSlot, Owner, InLoop, LoopPc
  <1> QED
    BY <1>1, SlotTyping, OwnerStep, PTL DEF SlotSpec

\* Both invariants of the slots, for any number of pods and tasks.
THEOREM SlotsAreSound == SlotSpec => []SlotsSound
  <1>1. SlotHasTask /\ OwnerHoldsSlot => SlotsSound
    BY DEF SlotsSound
  <1> QED
    BY <1>1, SlotNeverOrphaned, SoleOwner, PTL

----------------------------------------------------------------------------
(***************************************************************************)
(* The runtime manager.                                                    *)
(***************************************************************************)
\* The steps of the runtime manager seen by the sync slots.
LEMMA StepIsSlotStep == [Next]_vars => [SlotNext]_syncSlotVars
  <1> SUFFICES ASSUME [Next]_vars
               PROVE  [SlotNext]_syncSlotVars
    OBVIOUS
  <1>1. ASSUME NEW p \in Pods, NEW v \in Versions, Upsert(p, v) \/ Remove(p, v)
        PROVE  SlotNext
    BY <1>1 DEF Upsert, Remove, SlotNext, Feed
  <1>2. ASSUME NEW p \in Pods, Reconcile(p) \/ EvictPod(p)
        PROVE  [SlotNext]_syncSlotVars
    BY <1>2 DEF Reconcile, EvictPod, SlotNext, Feed
  <1>3. CASE AdmitUpdate \/ RejectUpdate \/ DeletePod \/ PollPleg
    BY <1>3 DEF AdmitUpdate, RejectUpdate, DeletePod, PollPleg, SlotNext, HandleUpdate
  <1>4. ASSUME NEW t \in Tasks, Worker(t)
        PROVE  [SlotNext]_syncSlotVars
    <2>1. SyncTask(t) \/ UNCHANGED syncSlotVars
      BY <1>4 DEF Worker, TakeState, WorkerCreate, WorkerSynced, WorkerNeedsRetry,
                  WorkerFailed, WorkerTerminated, SlotStep, SyncTask
    <2> QED
      BY <2>1 DEF SlotNext
  <1>5. ASSUME NEW r \in Reapers, Reaper(r)
        PROVE  UNCHANGED syncSlotVars
    BY <1>5 DEF Reaper, ReapTake, ReapTerminate, DrainDone, DrainExpired,
                ReapCleanup, ReapReport, ReapStep
  <1>6. CASE UNCHANGED vars
    BY <1>6 DEF vars
  <1> QED
    BY <1>1, <1>2, <1>3, <1>4, <1>5, <1>6 DEF Next

\* The runtime manager implements the sync slots.
THEOREM ImplementsSyncSlots == Spec => SlotSpec
  <1>1. Init => SlotInit
    BY DEF Init
  <1> QED
    BY <1>1, StepIsSlotStep, PTL DEF Spec, SlotSpec

----------------------------------------------------------------------------
\* Everything TypeOK says beyond the sync slots.
OwnTypes == 
  /\ phase \in [Pods -> Phase]
  /\ podStates \in [Pods -> RuntimeState]
  /\ syncState \in [Tasks -> RuntimeState]
  /\ deleting \subseteq Pods
  /\ reapPc \in [Reapers -> ReapPc]
  /\ reapPod \in [Reapers -> Pods \cup {NoPod}]
  /\ reapKind \in [Reapers -> {"delete", "evict"}]
  /\ reapState \in [Reapers -> RuntimeState]
  /\ \A r \in Reapers : reapPc[r] # "idle" => reapPod[r] \in Pods
  /\ live \subseteq Pods

\* Every step keeps the manager's own types.
LEMMA OwnTypesStep ==
  SlotTypeOK /\ OwnTypes /\ [Next]_vars => OwnTypes'
  <1> SUFFICES ASSUME SlotTypeOK, OwnTypes, [Next]_vars
               PROVE  OwnTypes'
    OBVIOUS
  <1> USE DEF OwnTypes, reapVars
  <1>1. ASSUME NEW p \in Pods, NEW v \in Versions, Upsert(p, v) \/ Remove(p, v)
        PROVE  OwnTypes'
    BY <1>1 DEF Upsert, Remove, Phase
  <1>2. ASSUME NEW p \in Pods, Reconcile(p) \/ EvictPod(p)
        PROVE  OwnTypes'
    BY <1>2 DEF Reconcile, EvictPod, SpawnReaper, Phase, ReapPc
  <1>3. CASE AdmitUpdate \/ PollPleg
    BY <1>3 DEF AdmitUpdate, PollPleg
  <1>4. CASE RejectUpdate
    BY <1>4 DEF RejectUpdate, Phase
  <1>5. CASE DeletePod
    <2>1. Head(updates).pod \in Pods
      BY <1>5, QueueType DEF DeletePod, ReceiveRemove, Message
    <2> QED
      BY <1>5, <2>1 DEF DeletePod, SpawnReaper, ReapPc
  <1>6. ASSUME NEW t \in Tasks, Worker(t)
        PROVE  OwnTypes'
    <2> USE DEF PutState, RuntimeState
    <2>1. CASE TakeState(t)
      <3>1. syncPod[t] \in Pods
        BY <2>1 DEF TakeState, Begin, TaskStep, SlotTypeOK
      <3> QED
        BY <2>1, <3>1 DEF TakeState, OrDefault
    <2>2. CASE WorkerCreate(t)
      <3>1. syncPod[t] \in Pods
        BY <2>2 DEF WorkerCreate, SlotTypeOK
      <3> QED
        BY <2>2, <3>1 DEF WorkerCreate
    <2>3. CASE WorkerSynced(t)
      BY <2>3 DEF WorkerSynced
    <2>4. CASE WorkerNeedsRetry(t)
      <3>1. syncPod[t] \in Pods
        BY <2>4 DEF WorkerNeedsRetry, NeedsRetry, TaskStep, SlotTypeOK
      <3> QED
        BY <2>4, <3>1 DEF WorkerNeedsRetry, Phase
    <2>5. CASE WorkerFailed(t)
      BY <2>5 DEF WorkerFailed
    <2>6. CASE WorkerTerminated(t)
      BY <2>6 DEF WorkerTerminated, Terminate, Phase
    <2>7. CASE SlotStep(t)
      BY <2>7 DEF SlotStep
    <2> QED
      BY <1>6, <2>1, <2>2, <2>3, <2>4, <2>5, <2>6, <2>7 DEF Worker
  <1>7. ASSUME NEW r \in Reapers, Reaper(r)
        PROVE  OwnTypes'
    <2> USE DEF ReapStep, ReapPc, RuntimeState
    <2>1. CASE ReapTake(r)
      BY <2>1 DEF ReapTake, OrDefault
    <2>2. CASE ReapTerminate(r)
      BY <2>2 DEF ReapTerminate, Terminate
    <2>3. CASE DrainDone(r) \/ DrainExpired(r)
      BY <2>3 DEF DrainDone, DrainExpired
    <2>4. CASE ReapCleanup(r)
      BY <2>4 DEF ReapCleanup, Terminate
    <2>5. CASE ReapReport(r)
      BY <2>5 DEF ReapReport
    <2> QED
      BY <1>7, <2>1, <2>2, <2>3, <2>4, <2>5 DEF Reaper
  <1>8. CASE UNCHANGED vars
    BY <1>8 DEF vars
  <1> QED
    BY <1>1, <1>2, <1>3, <1>4, <1>5, <1>6, <1>7, <1>8 DEF Next

\* The runtime manager is well typed in every reachable state.
THEOREM Typing == Spec => []TypeOK
  <1>1. Init => OwnTypes
    BY DEF Init, OwnTypes, Phase, RuntimeState, ReapPc
  <1>2. TypeOK <=> SlotTypeOK /\ OwnTypes
    BY DEF TypeOK, OwnTypes
  <1> QED
    BY <1>1, <1>2, ImplementsSyncSlots, SlotTyping, OwnTypesStep, PTL DEF Spec

----------------------------------------------------------------------------
\* A reaper that is at work keeps its pod and its kind until it reports.
LEMMA DeletingStep ==
  TypeOK /\ DeletingHasReaper /\ [Next]_vars => DeletingHasReaper'
  <1> SUFFICES ASSUME TypeOK, DeletingHasReaper, [Next]_vars
               PROVE  DeletingHasReaper'
    OBVIOUS
  <1> USE DEF DeletingHasReaper, TypeOK
  <1>1. ASSUME NEW p \in Pods, EvictPod(p)
        PROVE  DeletingHasReaper'
    BY <1>1 DEF EvictPod, SpawnReaper
  <1>2. CASE DeletePod
    <2>1. PICK r \in Reapers :
             /\ reapPc[r] = "idle"
             /\ reapPc' = [reapPc EXCEPT ![r] = "take"]
             /\ reapPod' = [reapPod EXCEPT ![r] = Head(updates).pod]
             /\ reapKind' = [reapKind EXCEPT ![r] = "delete"]
      BY <1>2 DEF DeletePod, SpawnReaper
    <2>2. deleting' = deleting \cup {Head(updates).pod}
      BY <1>2 DEF DeletePod
    <2>3. reapPc'[r] # "idle" /\ reapPod'[r] = Head(updates).pod
          /\ reapKind'[r] = "delete"
      BY <2>1
    <2>4. \A p \in deleting : \E s \in Reapers :
             reapPc'[s] # "idle" /\ reapPod'[s] = p /\ reapKind'[s] = "delete"
      BY <2>1
    <2> QED
      BY <2>2, <2>3, <2>4
  <1>3. ASSUME NEW r \in Reapers, Reaper(r)
        PROVE  DeletingHasReaper'
    <2>1. CASE ReapReport(r)
      BY <2>1 DEF ReapReport, ReapStep
    <2>2. CASE ~ ReapReport(r)
      <3>1. /\ deleting' = deleting /\ reapPod' = reapPod /\ reapKind' = reapKind
            /\ reapPc[r] # "idle"
            /\ \E pc \in ReapPc \ {"idle"} : reapPc' = [reapPc EXCEPT ![r] = pc]
        BY <1>3, <2>2 DEF Reaper, ReapTake, ReapTerminate, DrainDone, DrainExpired,
                          ReapCleanup, ReapStep, ReapPc
      <3> QED
        BY <3>1
    <2> QED
      BY <2>1, <2>2
  <1>4. CASE UNCHANGED <<deleting, reapVars>>
    BY <1>4 DEF reapVars
  <1>5. \/ UNCHANGED <<deleting, reapVars>>
        \/ DeletePod
        \/ \E p \in Pods : EvictPod(p)
        \/ \E r \in Reapers : Reaper(r)
    BY DEF Next, vars, Upsert, Remove, Reconcile, AdmitUpdate, RejectUpdate, PollPleg,
           Worker, TakeState, WorkerCreate, WorkerSynced, WorkerNeedsRetry,
           WorkerFailed, WorkerTerminated, SlotStep, PutState
  <1> QED
    BY <1>1, <1>2, <1>3, <1>4, <1>5

\* A pod marked as being deleted always has a delete task at work.
THEOREM DeletingIsReaped == Spec => []DeletingHasReaper
  <1>1. Init => DeletingHasReaper
    BY DEF Init, DeletingHasReaper
  <1> QED
    BY <1>1, Typing, DeletingStep, PTL DEF Spec

----------------------------------------------------------------------------
\* A drain that ends with the slot free leaves at work no sync of the pod
\* that still owns its slot.
THEOREM DrainIsSound == Spec => DrainWaitsForOwner
  <1>1. OwnerHoldsSlot =>
          (\A r \in Reapers : DrainDone(r) =>
              \A t \in Tasks : syncPod[t] = reapPod[r] => ~ Owner(t))
    BY DEF OwnerHoldsSlot, DrainDone
  <1>2. Spec => []OwnerHoldsSlot
    BY ImplementsSyncSlots, SoleOwner, PTL
  <1> QED
    BY <1>1, <1>2, PTL DEF DrainWaitsForOwner
=============================================================================
