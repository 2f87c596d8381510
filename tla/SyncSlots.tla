------------------------------ MODULE SyncSlots ------------------------------
(***************************************************************************)
(* The sync slots of the runtime manager                                   *)
(* (crates/kubelet-app/src/runtime_manager/mod.rs): how triggers of one    *)
(* pod - pod updates, reconcile ticks, PLEG events - become sync tasks,    *)
(* and how triggers that arrive during a sync are coalesced.               *)
(*                                                                         *)
(* Every tokio task is a process, and what a task does under one           *)
(* acquisition of the slot mutex is one action.  What a sync does to the   *)
(* container runtime, and how pods are torn down, is RuntimeManager, which *)
(* extends this module and takes its steps.                                *)
(***************************************************************************)
EXTENDS Naturals, Sequences

CONSTANTS Pods,       \* pod UIDs
          NoPod,      \* the pod of an idle task
          Versions,   \* the contents a pod's spec may have, positive numbers
          Invalid,    \* the contents that validate_pod refuses
          PortClash,  \* sets of pods that ask for one host port
          Tasks,      \* sync tasks that may exist at the same time
          QueueBound  \* capacity of the pod update channel (512 in the code)

ASSUME SlotAssumption ==
          /\ NoPod \notin Pods
          /\ Versions \subseteq Nat \ {0}
          /\ Invalid \subseteq Versions
          /\ PortClash \subseteq SUBSET Pods
          /\ QueueBound \in Nat \ {0}

VARIABLES
  desired,   \* PodManager.desired: the spec wanted for a pod, 0 if none
  updates,   \* the mpsc channel of PodUpdates
  running,   \* pods whose sync slot has running = true
  pending,   \* pods whose sync slot has pending = true
  syncPc, syncPod, syncVer,  \* the tasks spawned by sync_pod
  plegPod, plegVer,          \* the PLEG loop, between get and sync_pod
  synced,    \* the spec the last successful sync of a pod was run with
  robbed     \* history: sync tasks whose slot another task has removed

feedVars == <<desired, updates>>
slotVars == <<running, pending>>
taskVars == <<syncPc, syncPod, syncVer>>
plegVars == <<plegPod, plegVer>>

syncSlotVars == <<feedVars, slotVars, taskVars, plegVars, synced, robbed>>

----------------------------------------------------------------------------
\* Where a sync task is: at the head of its loop, inside worker.sync_pod,
\* in the back-off sleep, before the check of its slot, and before the last
\* removal of the slot.
SyncPc == {"idle", "take", "work", "sleep", "settle", "exit"}
LoopPc == {"take", "work", "sleep", "settle"}

\* Add, Update and Reconcile are handled alike.
Message == [op : {"Upsert", "Remove"}, pod : Pods, ver : Versions]

SlotTypeOK ==
  /\ desired \in [Pods -> Versions \cup {0}]
  /\ updates \in Seq(Message)
  /\ Len(updates) =< QueueBound
  /\ running \subseteq Pods
  /\ pending \subseteq Pods
  /\ syncPc \in [Tasks -> SyncPc]
  /\ syncPod \in [Tasks -> Pods \cup {NoPod}]
  /\ syncVer \in [Tasks -> Versions \cup {0}]
  /\ \A t \in Tasks : syncPc[t] # "idle" => /\ syncPod[t] \in Pods
                                            /\ syncVer[t] \in Versions
  /\ plegPod \in Pods \cup {NoPod}
  /\ plegVer \in Versions \cup {0}
  /\ plegPod # NoPod => plegVer \in Versions
  /\ synced \in [Pods -> Versions \cup {0}]
  /\ robbed \subseteq Tasks

SlotInit ==
  /\ desired = [p \in Pods |-> 0]
  /\ updates = <<>>
  /\ running = {}
  /\ pending = {}
  /\ syncPc = [t \in Tasks |-> "idle"]
  /\ syncPod = [t \in Tasks |-> NoPod]
  /\ syncVer = [t \in Tasks |-> 0]
  /\ plegPod = NoPod
  /\ plegVer = 0
  /\ synced = [p \in Pods |-> 0]
  /\ robbed = {}

----------------------------------------------------------------------------
(***************************************************************************)
(* The pod manager's side of the channel: the source dispatcher and the    *)
(* reconcile ticks.                                                        *)
(***************************************************************************)
\* update_tx.send: waits while the channel is full.
Send(op, p, v) ==
  /\ Len(updates) < QueueBound
  /\ updates' = Append(updates, [op |-> op, pod |-> p, ver |-> v])

\* PodManager::upsert
SendUpsert(p, v) ==
  /\ Send("Upsert", p, v)
  /\ desired' = [desired EXCEPT ![p] = v]
  /\ UNCHANGED <<slotVars, taskVars, plegVars, synced, robbed>>

\* PodManager::remove: a pod that is not tracked is forwarded with the spec
\* the source supplied.
SendRemove(p, v) ==
  /\ desired[p] \in {v, 0}
  /\ Send("Remove", p, v)
  /\ desired' = [desired EXCEPT ![p] = 0]
  /\ UNCHANGED <<slotVars, taskVars, plegVars, synced, robbed>>

\* PodManager::reconcile_all, one entry of it.
SendReconcile(p) ==
  /\ desired[p] # 0
  /\ Send("Upsert", p, desired[p])
  /\ UNCHANGED <<desired, slotVars, taskVars, plegVars, synced, robbed>>

----------------------------------------------------------------------------
(***************************************************************************)
(* The triggers.  A slot that is absent from sync_slots and a slot that is *)
(* present with running = false act alike (or_default, unwrap_or(false)),  *)
(* so the slots are given by the two sets running and pending.             *)
(***************************************************************************)
\* RuntimeManager::sync_pod: coalesce the trigger or spawn a task for it.
SyncPod(p, v) ==
  \/ /\ p \in running
     /\ pending' = pending \cup {p}
     /\ UNCHANGED <<running, taskVars, robbed>>
  \/ /\ p \notin running
     /\ running' = running \cup {p}
     /\ \E t \in Tasks :
          /\ syncPc[t] = "idle"
          /\ syncPc' = [syncPc EXCEPT ![t] = "take"]
          /\ syncPod' = [syncPod EXCEPT ![t] = p]
          /\ syncVer' = [syncVer EXCEPT ![t] = v]
          /\ robbed' = robbed \ {t}
     /\ UNCHANGED pending

Receive(op) == /\ updates # <<>>
               /\ Head(updates).op = op
               /\ updates' = Tail(updates)

\* handle_update of an Add, Update or Reconcile that is admitted.
ReceiveUpsert ==
  /\ Receive("Upsert")
  /\ SyncPod(Head(updates).pod, Head(updates).ver)
  /\ UNCHANGED <<desired, plegVars, synced>>

\* Another desired pod asks for a host port of p.
PortRival(p, q) == q \in Pods \ {p} /\ {p, q} \in PortClash /\ desired[q] # 0

\* handle_update of a pod rejected for its host ports; whether a rival counts
\* depends on its phase, which RuntimeManager adds.
ReceiveRejected ==
  /\ Receive("Upsert")
  /\ \E q \in Pods : PortRival(Head(updates).pod, q)
  /\ UNCHANGED <<desired, slotVars, taskVars, plegVars, synced, robbed>>

\* handle_update of a Remove: the slots are left alone.
ReceiveRemove ==
  /\ Receive("Remove")
  /\ UNCHANGED <<desired, slotVars, taskVars, plegVars, synced, robbed>>

\* poll_pleg, first half: an event about a container of p; the pod is read
\* from the pod manager, and the event ignored when it is not desired.
PlegRead(p) ==
  /\ plegPod = NoPod
  /\ desired[p] # 0
  /\ plegPod' = p
  /\ plegVer' = desired[p]
  /\ UNCHANGED <<feedVars, slotVars, taskVars, synced, robbed>>

\* poll_pleg, second half: sync_pod once the slot mutex is obtained.
PlegSync ==
  /\ plegPod # NoPod
  /\ SyncPod(plegPod, plegVer)
  /\ plegPod' = NoPod
  /\ plegVer' = 0
  /\ UNCHANGED <<feedVars, synced>>

----------------------------------------------------------------------------
(***************************************************************************)
(* The task spawned by sync_pod.                                           *)
(***************************************************************************)
TaskStep(t, from, to) ==
  /\ syncPc[t] = from
  /\ syncPc' = [syncPc EXCEPT ![t] = to]
  /\ UNCHANGED <<feedVars, syncPod, plegVars>>

\* The head of the loop: worker.sync_pod is called.
Begin(t) ==
  /\ TaskStep(t, "take", "work")
  /\ UNCHANGED <<slotVars, syncVer, synced, robbed>>

\* PodSyncResult::Synced
Synced(t) ==
  /\ syncVer[t] \notin Invalid
  /\ TaskStep(t, "work", "settle")
  /\ synced' = [synced EXCEPT ![syncPod[t]] = syncVer[t]]
  /\ UNCHANGED <<slotVars, syncVer, robbed>>

\* PodSyncResult::NeedsRetry, up to the back-off sleep.
NeedsRetry(t) ==
  /\ syncVer[t] \notin Invalid
  /\ TaskStep(t, "work", "sleep")
  /\ UNCHANGED <<slotVars, syncVer, synced, robbed>>

\* PodSyncResult::Failed, of a spec that is invalid.
FailedSync(t) ==
  /\ syncVer[t] \in Invalid
  /\ TaskStep(t, "work", "settle")
  /\ UNCHANGED <<slotVars, syncVer, synced, robbed>>

\* PodSyncResult::Terminated
Terminated(t) ==
  /\ syncVer[t] \notin Invalid
  /\ TaskStep(t, "work", "settle")
  /\ UNCHANGED <<slotVars, syncVer, synced, robbed>>

\* After the back-off sleep: a trigger that arrived meanwhile brings the
\* fresh spec if the pod is still desired; otherwise the old spec is used.
RetryWake(t) ==
  LET p == syncPod[t]
  IN  /\ TaskStep(t, "sleep", "take")
      /\ syncVer' = IF p \in pending /\ desired[p] # 0
                    THEN [syncVer EXCEPT ![t] = desired[p]] ELSE syncVer
      /\ pending' = pending \ {p}
      /\ UNCHANGED <<running, synced, robbed>>

\* The tasks, other than t, that are in the sync loop of the same pod.
OtherLoops(t) ==
  {u \in Tasks \ {t} : syncPod[u] = syncPod[t] /\ syncPc[u] \in LoopPc}

\* Mutant of TrailingSync: the trailing sync runs with the old spec.
TrailingSyncStale(t) ==
  /\ syncPod[t] \in pending
  /\ desired[syncPod[t]] # 0
  /\ TaskStep(t, "settle", "take")
  /\ pending' = pending \ {syncPod[t]}
  /\ UNCHANGED <<running, syncVer, synced, robbed>>

\* The slot check that ends an iteration.  A pending trigger makes the task
\* run the trailing sync with the pod's current spec, ...
TrailingSync(t) ==
  LET p == syncPod[t]
  IN  /\ p \in pending
      /\ desired[p] # 0
      /\ TaskStep(t, "settle", "take")
      /\ pending' = pending \ {p}
      /\ syncVer' = [syncVer EXCEPT ![t] = desired[p]]
      /\ UNCHANGED <<running, synced, robbed>>

\* ... or leave with the slot still marked running if the pod is gone, ...
PodGone(t) ==
  LET p == syncPod[t]
  IN  /\ p \in pending
      /\ desired[p] = 0
      /\ TaskStep(t, "settle", "exit")
      /\ pending' = pending \ {p}
      /\ UNCHANGED <<running, syncVer, synced, robbed>>

\* ... and without a pending trigger the slot is removed.
ReleaseSlot(t) ==
  /\ syncPod[t] \notin pending
  /\ TaskStep(t, "settle", "exit")
  /\ running' = running \ {syncPod[t]}
  /\ robbed' = robbed \cup OtherLoops(t)
  /\ UNCHANGED <<pending, syncVer, synced>>

\* Mutant of Exit: the slot is not cleared when the task ends.
ExitKeepsSlot(t) ==
  /\ syncPc[t] = "exit"
  /\ robbed' = robbed \ {t}
  /\ syncPc' = [syncPc EXCEPT ![t] = "idle"]
  /\ syncPod' = [syncPod EXCEPT ![t] = NoPod]
  /\ syncVer' = [syncVer EXCEPT ![t] = 0]
  /\ UNCHANGED <<feedVars, slotVars, plegVars, synced>>

\* "Best effort: clear stale slot": whatever slot the pod has now is removed.
Exit(t) ==
  /\ syncPc[t] = "exit"
  /\ running' = running \ {syncPod[t]}
  /\ pending' = pending \ {syncPod[t]}
  /\ robbed' = (robbed \cup OtherLoops(t)) \ {t}
  /\ syncPc' = [syncPc EXCEPT ![t] = "idle"]
  /\ syncPod' = [syncPod EXCEPT ![t] = NoPod]
  /\ syncVer' = [syncVer EXCEPT ![t] = 0]
  /\ UNCHANGED <<feedVars, plegVars, synced>>

----------------------------------------------------------------------------
Feed ==
  \/ \E p \in Pods, v \in Versions : SendUpsert(p, v) \/ SendRemove(p, v)
  \/ \E p \in Pods : SendReconcile(p)

HandleUpdate == ReceiveUpsert \/ ReceiveRejected \/ ReceiveRemove

Pleg == PlegSync \/ \E p \in Pods : PlegRead(p)

SyncTask(t) ==
  \/ Begin(t)
  \/ Synced(t)
  \/ NeedsRetry(t)
  \/ FailedSync(t)
  \/ Terminated(t)
  \/ RetryWake(t)
  \/ TrailingSync(t)
  \/ PodGone(t)
  \/ ReleaseSlot(t)
  \/ Exit(t)

SlotNext == Feed \/ HandleUpdate \/ Pleg \/ \E t \in Tasks : SyncTask(t)

SlotSpec == SlotInit /\ [][SlotNext]_syncSlotVars

(***************************************************************************)
(* Fairness.  tokio runs every ready task, so a task's own steps are       *)
(* weakly fair.  The channel serves waiting senders in order and the       *)
(* runtime loop can always spawn (the bound on Tasks is the model's, not   *)
(* the code's): sending a reconcile and receiving are strongly fair.  That *)
(* a sync that is retried again and again succeeds at some point is the    *)
(* assumption under which a pod can be expected to come up at all.         *)
(***************************************************************************)
SlotFairness ==
  /\ SF_syncSlotVars(HandleUpdate)
  /\ \A p \in Pods : SF_syncSlotVars(SendReconcile(p))
  /\ \A t \in Tasks : /\ WF_syncSlotVars(SyncTask(t))
                      /\ SF_syncSlotVars(Synced(t))

FairSlotSpec == SlotSpec /\ SlotFairness

----------------------------------------------------------------------------
InLoop(t) == syncPc[t] \in LoopPc

\* A sync task in its loop that still owns the slot it was spawned with.
Owner(t) == InLoop(t) /\ t \notin robbed

\* Every running slot belongs to a task that is still there to clear it, and
\* a pending trigger is only ever recorded in a running slot: a slot left
\* running without a task would silence its pod for good, since sync_pod
\* would coalesce every later trigger into it.
SlotHasTask ==
  /\ \A p \in running : \E t \in Tasks : syncPod[t] = p /\ syncPc[t] # "idle"
  /\ pending \subseteq running

\* Coalescing works up to the removal of a slot by a task that does not own
\* it: a task that was not robbed holds its pod's slot, and is the only such
\* task of the pod.
OwnerHoldsSlot ==
  \A t \in Tasks : Owner(t) =>
     /\ syncPod[t] \in running
     /\ \A u \in Tasks : Owner(u) /\ syncPod[u] = syncPod[t] => u = t

\* If a pod's desired spec stops changing, is valid and its host ports have no
\* rival, that spec is synced again and again, whatever triggers were
\* coalesced, rejected or lost on the way.
DesiredIsSynced ==
  \A p \in Pods, v \in Versions \ Invalid :
     <>[](/\ desired[p] = v
          /\ \A q \in Pods \ {p} : {p, q} \in PortClash => desired[q] = 0)
       => []<>(synced[p] = v)

\* Once a pod stays removed, its sync tasks come to an end: the retry loop,
\* which never looks at whether the pod is still wanted, does not keep them.
SyncsOfRemovedPodsEnd ==
  \A p \in Pods : <>[](desired[p] = 0) => <>[](\A t \in Tasks : syncPod[t] # p)

\* The two invariants together: the flags of SyncSlot say which pods have a
\* task, and a task that still holds its slot syncs its pod alone.
SlotsSound == SlotHasTask /\ OwnerHoldsSlot

\* The two temporal properties together: coalesced and trailing syncs serve
\* every pod that is wanted, and let go of every pod that is not.
SlotsServe == DesiredIsSynced /\ SyncsOfRemovedPodsEnd

----------------------------------------------------------------------------
\* What the comment on SyncSlot states and the code does not do.
\* "Ensures one active sync per pod": no two tasks are in the sync loop of
\* one pod.
OneActiveSync ==
  \A t, u \in Tasks : InLoop(t) /\ InLoop(u) /\ syncPod[t] = syncPod[u] => t = u

----------------------------------------------------------------------------
(***************************************************************************)
(* The bound of the model checker's instances: one pod is followed with    *)
(* all tasks as long as there is no trace of another ...                   *)
(***************************************************************************)
LonePod ==
  \E p \in Pods : \A q \in Pods \ {p} :
    /\ desired[q] = 0 /\ synced[q] = 0
    /\ q \notin running /\ plegPod # q
    /\ \A k \in 1..Len(updates) : updates[k].pod # q
    /\ \A t \in Tasks : syncPod[t] # q

\* ... and all of them, with one spec each, while a single task is at work.
LoneTask ==
  /\ \E t \in Tasks : \A u \in Tasks \ {t} : syncPc[u] = "idle"
  /\ \A p \in Pods : desired[p] =< 1 /\ synced[p] =< 1
  /\ \A k \in 1..Len(updates) : updates[k].ver =< 1

SlotBound == LonePod \/ LoneTask
=============================================================================
