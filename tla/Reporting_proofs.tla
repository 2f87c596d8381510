--------------------------- MODULE Reporting_proofs ---------------------------
(***************************************************************************)
(* Proofs about what is reported and converted: the parts of a pod's       *)
(* status agree, for any pods, faults and restarts; the runtime is asked   *)
(* for what the manifest declares; and the converters agree on every       *)
(* admitted manifest.                                                      *)
(***************************************************************************)
EXTENDS Reporting, SequenceTheorems, WellFoundedInduction, TLAPS

----------------------------------------------------------------------------
(***************************************************************************)
(* The status of a pod.                                                    *)
(***************************************************************************)
RuntimeState == {"none", "running", "ok", "err"}
State == Waiting \cup {"crashloop", "running", "ok", "err"}
ContainerState == [state : State, last : RuntimeState, ready : BOOLEAN, restarts : Nat]
LifecycleState ==
  [phase : Phase, init : ContainerState, app : ContainerState, scheduled : BOOLEAN,
   initialized : BOOLEAN, containersReady : BOOLEAN, ready : BOOLEAN]

InApp == {"app", "appUpdate", "appReport", "appSleep"}
InBackOff == {"appUpdate", "appReport", "appSleep"}
SyncPc == {"idle", "report", "end", "mark", "initUpdate", "initReport", "initSleep"} \cup InApp

StatusTypes ==
  /\ shape \in Shapes
  /\ rt \in [Containers -> RuntimeState]
  /\ count \in [Containers -> Nat]
  /\ snap \in [Containers -> {"none", "ok", "err"}]
  /\ pc \in SyncPc
  /\ ls \in LifecycleState
  /\ forgot \in BOOLEAN

\* A plain init container has completed where the app is looked at or was made.
InitBeforeApp ==
  shape.init = "plain" /\ (pc \in InApp \cup {"mark"} \/ rt["app"] # "none") => rt["init"] = "ok"

\* A kubelet that has not been restarted has seen the end of every app it
\* replaces.
EndIsSeen ==
  ~ forgot =>
    /\ rt["app"] = "none" => count["app"] = 0
    /\ pc \in InBackOff => snap["app"] \in Terminated
    /\ count["app"] > 1 => snap["app"] \in Terminated

\* The parts of a status agree in the status store, ...
Agrees(s) ==
  /\ s.ready => s.containersReady /\ s.initialized
  /\ s.scheduled /\ s.containersReady => s.app.state = "running" /\ s.phase = "Running"
  /\ s.phase = "Succeeded" => s.app.state = "ok"

LastIsTold(s) == s.app.restarts > 0 => s.app.last \in Terminated

\* ... and so they do in the API server.
StatusInv ==
  /\ StatusTypes
  /\ InitBeforeApp
  /\ EndIsSeen
  /\ Agrees(ls)
  /\ forgot \/ LastIsTold(ls)
  /\ StatusAgrees

\* What the phase says of the app of a pod with one.
LEMMA PhaseOf ==
  ASSUME NEW init, NEW k \in CtrStatus, NEW policy
  PROVE  /\ ComputePodPhase(init, <<k>>, policy) \in Phase
         /\ k = "running" => ComputePodPhase(init, <<k>>, policy) = "Running"
         /\ ComputePodPhase(init, <<k>>, policy) = "Succeeded" => k = "ok"
  <1> DEFINE apps == <<k>>
             some(S) == \E x \in DOMAIN apps : apps[x] \in S
  <1>1. \A S : some(S) <=> k \in S
    OBVIOUS
  <1>2. apps # <<>>
    OBVIOUS
  <1>3. InitPhase(init, policy) \in {"Failed", "Pending"}
    BY DEF InitPhase
  <1>4. CASE k \in {"running", "crashloop"}
    <2>1. ComputePodPhase(init, apps, policy) = "Running"
      BY <1>1, <1>4 DEF ComputePodPhase
    <2> QED
      BY <2>1 DEF Phase
  <1>5. CASE k \notin {"running", "crashloop"} /\ \E x \in DOMAIN init : init[x] # "ok"
    <2>1. ComputePodPhase(init, apps, policy) = InitPhase(init, policy)
      BY <1>1, <1>5 DEF ComputePodPhase
    <2> QED
      BY <2>1, <1>3, <1>5 DEF Phase
  <1>6. CASE k \notin {"running", "crashloop"} /\ ~ \E x \in DOMAIN init : init[x] # "ok"
    <2>1. ComputePodPhase(init, apps, policy) =
            IF apps # <<>> /\ ~ some({"waiting", "err"})
            THEN IF policy = "Always" THEN "Running" ELSE "Succeeded"
            ELSE IF some({"err"}) THEN IF policy = "Never" THEN "Failed" ELSE "Running" ELSE "Pending"
      BY <1>1, <1>6 DEF ComputePodPhase
    <2> QED
      BY <2>1, <1>1, <1>6 DEF Phase, CtrStatus
  <1> QED
    BY <1>4, <1>5, <1>6

\* What a container is shown to be, and how it ended before.
LEMMA ShownIs ==
  ASSUME StatusTypes, NEW c \in Containers, NEW s \in State, NEW p \in ContainerState, NEW r \in BOOLEAN
  PROVE  /\ Shown(c, s, p, r) \in ContainerState
         /\ Shown(c, s, p, r).state = s
         /\ count[c] > 1 /\ snap[c] \in Terminated => Shown(c, s, p, r).last \in Terminated
         /\ Shown(c, s, p, r).restarts > 0 => count[c] > 1
  <1>1. count[c] \in Nat /\ snap[c] \in {"none", "ok", "err"}
    BY DEF StatusTypes
  <1>2. LastState(c, s, p.state) \in RuntimeState
    BY <1>1 DEF LastState, RuntimeState, Terminated
  <1>3. count[c] > 1 /\ snap[c] \in Terminated => LastState(c, s, p.state) \in Terminated
    BY <1>1 DEF LastState, Terminated
  <1>4. count[c] = 0 \/ count[c] - 1 \in Nat
    BY <1>1
  <1> DEFINE restarts == IF count[c] = 0 THEN 0 ELSE count[c] - 1
  <1>5. restarts \in Nat /\ (restarts > 0 => count[c] > 1)
    BY <1>1, <1>4
  <1>6. Shown(c, s, p, r) = [state |-> s, last |-> LastState(c, s, p.state), ready |-> r, restarts |-> restarts]
    BY DEF Shown
  <1> HIDE DEF restarts
  <1> QED
    BY <1>2, <1>3, <1>5, <1>6 DEF ContainerState

\* A status is put together of parts that agree, whatever calls fail.
LEMMA AssembledAgrees ==
  ASSUME StatusTypes, EndIsSeen, NEW U
  PROVE  /\ Assembled(U) \in LifecycleState
         /\ Agrees(Assembled(U))
         /\ forgot \/ LastIsTold(Assembled(U))
         /\ Assembled(U).containersReady => rt["app"] = "running"
  <1> DEFINE i == InitState(U)
             a == AppState(U, i)
             initialized == ls.initialized \/ (HasInit /\ i = "ok")
             allReady == AppReady(U) /\ ~ (Sidecar /\ i = "running" /\ ~ InitReady(i))
             phase == ComputePodPhase(IF HasInit THEN <<Kind(i)>> ELSE <<>>, <<Kind(a)>>, shape.policy)
             init == IF HasInit THEN Shown("init", i, ls.init, InitReady(i)) ELSE ls.init
             app == Shown("app", a, ls.app, AppReady(U))
  <1>1. /\ \A c \in Containers : ContainerStatus(c, U) \in RuntimeState \cup {"unknown"}
        /\ ContainerStatus("app", U) = "running" => rt["app"] = "running"
    BY DEF StatusTypes, ContainerStatus, RuntimeState, Containers
  <1>2. i \in State
    BY <1>1 DEF InitState, State, Waiting, RuntimeState, Terminated, Containers
  <1>3. a \in State /\ (AppReady(U) => a = "running")
    BY <1>1 DEF AppState, AppReady, State, Waiting, RuntimeState, Terminated, Containers
  <1>4. Kind(a) \in CtrStatus /\ (Kind(a) = "ok" => a = "ok") /\ (a = "running" => Kind(a) = "running")
    BY <1>3 DEF Kind, State, Waiting, CtrStatus
  <1>5. /\ phase \in Phase
        /\ a = "running" => phase = "Running"
        /\ phase = "Succeeded" => a = "ok"
    BY <1>4, PhaseOf
  <1>6. AppReady(U) \in BOOLEAN /\ InitReady(i) \in BOOLEAN
    BY DEF AppReady, InitReady
  <1>7. /\ ls \in LifecycleState
        /\ ls.init \in ContainerState /\ ls.app \in ContainerState
        /\ ls.init.state \in State /\ ls.app.state \in State
        /\ ls.scheduled \in BOOLEAN /\ ls.initialized \in BOOLEAN
    BY DEF StatusTypes, LifecycleState, ContainerState
  <1>8. init \in ContainerState
    BY <1>2, <1>6, <1>7, ShownIs DEF Containers
  <1>9. /\ app \in ContainerState
        /\ app.state = a
        /\ count["app"] > 1 /\ snap["app"] \in Terminated => app.last \in Terminated
        /\ app.restarts > 0 => count["app"] > 1
    <2>1. "app" \in Containers
      BY DEF Containers
    <2>2. a \in State /\ AppReady(U) \in BOOLEAN /\ ls.app \in ContainerState
      BY <1>3, <1>6, <1>7
    <2> HIDE DEF a
    <2> QED
      BY <2>1, <2>2, ShownIs
  <1>10. forgot \/ (app.restarts > 0 => app.last \in Terminated)
    BY <1>9 DEF EndIsSeen
  <1>11. initialized \in BOOLEAN /\ allReady \in BOOLEAN
    BY <1>6, <1>7 DEF HasInit
  <1>12. Assembled(U) = [phase |-> phase, init |-> init, app |-> app, scheduled |-> ls.scheduled,
                         initialized |-> initialized, containersReady |-> allReady, ready |-> allReady /\ initialized]
    BY DEF Assembled
  <1>13. allReady => a = "running" /\ rt["app"] = "running"
    BY <1>1, <1>3 DEF AppReady
  <1> HIDE DEF i, a, initialized, allReady, phase, init, app
  <1>14. Assembled(U) \in LifecycleState
    BY <1>5, <1>7, <1>8, <1>9, <1>11, <1>12 DEF LifecycleState
  <1>15. Agrees(Assembled(U))
    BY <1>5, <1>9, <1>11, <1>12, <1>13 DEF Agrees
  <1>16. forgot \/ LastIsTold(Assembled(U))
    BY <1>10, <1>12 DEF LastIsTold
  <1> QED
    BY <1>12, <1>13, <1>14, <1>15, <1>16

\* The status starts with nothing to tell.
LEMMA StatusInit == Init => StatusInv
  <1> SUFFICES ASSUME Init PROVE StatusInv
    OBVIOUS
  <1>1. Initialize \in LifecycleState
    BY DEF Initialize, Fresh, HasInit, LifecycleState, ContainerState, State, Waiting, RuntimeState, Phase
  <1>2. StatusTypes
    BY <1>1 DEF Init, StatusTypes, RuntimeState, SyncPc
  <1>3. Agrees(Initialize) /\ LastIsTold(Initialize)
    BY DEF Initialize, Fresh, Agrees, LastIsTold
  <1> QED
    BY <1>2, <1>3 DEF Init, StatusInv, InitBeforeApp, EndIsSeen, StatusAgrees, InApp, InBackOff, Containers

\* Where the worker alone moves, or the world around it, and the status store
\* and the API server stay, the two keep agreeing.
LEMMA StoreKept ==
  ASSUME StatusInv, UNCHANGED <<ls, api, shape>>, forgot' = forgot, StatusTypes', InitBeforeApp', EndIsSeen'
  PROVE  StatusInv'
  BY DEF StatusInv, Agrees, LastIsTold, StatusAgrees

\* A sync moves on, and the containers with it.
LEMMA WorkerStep ==
  ASSUME StatusInv,
         \/ InitRunning \/ InitBacksOff \/ InitStarts \/ InitPassed
         \/ AppSettled \/ AppBacksOff \/ AppStarts
  PROVE  StatusInv'
  <1>0. StatusTypes /\ InitBeforeApp /\ EndIsSeen
    BY DEF StatusInv
  <1>00. MaxStarts \in Nat /\ shape.init \in {"none", "plain", "sidecar"}
    BY <1>0, ReportingAssumption DEF StatusTypes
  <1>1. CASE InitRunning
    <2>1. UNCHANGED <<ls, api, shape, forgot>>
      BY <1>1 DEF InitRunning
    <2>2. StatusTypes'
      BY <1>1, <1>0 DEF StatusTypes, InitRunning, SyncPc, InApp, RuntimeState, Terminated, Containers
    <2>3. InitBeforeApp'
      BY <1>1, <1>0 DEF StatusTypes, InitBeforeApp, InitRunning, InApp, RuntimeState, Containers, Sidecar, HasInit, Terminated
    <2>4. EndIsSeen'
      BY <1>1, <1>0 DEF StatusTypes, EndIsSeen, InitRunning, InBackOff, RuntimeState, Containers, Terminated
    <2> QED
      BY <2>1, <2>2, <2>3, <2>4, StoreKept
  <1>2. CASE InitBacksOff
    <2>1. UNCHANGED <<ls, api, shape, forgot>>
      BY <1>2 DEF InitBacksOff
    <2>2. StatusTypes'
      BY <1>2, <1>0 DEF StatusTypes, InitBacksOff, SyncPc, InApp, RuntimeState, Terminated, Containers
    <2>3. InitBeforeApp'
      BY <1>2, <1>0 DEF StatusTypes, InitBeforeApp, InitBacksOff, InApp, RuntimeState, Containers, Sidecar, HasInit, Terminated
    <2>4. EndIsSeen'
      BY <1>2, <1>0 DEF StatusTypes, EndIsSeen, InitBacksOff, InBackOff, RuntimeState, Containers, Terminated
    <2> QED
      BY <2>1, <2>2, <2>3, <2>4, StoreKept
  <1>3. CASE InitStarts
    <2>1. UNCHANGED <<ls, api, shape, forgot>>
      BY <1>3 DEF InitStarts, Start, InitNeedsStart
    <2>2. StatusTypes'
      BY <1>3, <1>0 DEF StatusTypes, InitStarts, Start, InitNeedsStart, SyncPc, InApp, RuntimeState, Terminated, Containers
    <2>3. InitBeforeApp'
      BY <1>3, <1>0 DEF StatusTypes, InitBeforeApp, InitStarts, Start, InitNeedsStart, InApp, RuntimeState, Containers, Sidecar, HasInit, Terminated
    <2>4. EndIsSeen'
      BY <1>3, <1>0 DEF StatusTypes, EndIsSeen, InitStarts, Start, InitNeedsStart, InBackOff, RuntimeState, Containers, Terminated
    <2> QED
      BY <2>1, <2>2, <2>3, <2>4, StoreKept
  <1>4. CASE InitPassed
    <2>1. UNCHANGED <<ls, api, shape, forgot>>
      BY <1>4 DEF InitPassed, InitDone
    <2>2. StatusTypes'
      BY <1>4, <1>0 DEF StatusTypes, InitPassed, InitDone, SyncPc, InApp, RuntimeState, Terminated, Containers
    <2>3. InitBeforeApp'
      BY <1>4, <1>0 DEF StatusTypes, InitBeforeApp, InitPassed, InitDone, InApp, RuntimeState, Containers, Sidecar, HasInit, Terminated
    <2>4. EndIsSeen'
      BY <1>4, <1>0 DEF StatusTypes, EndIsSeen, InitPassed, InitDone, InBackOff, RuntimeState, Containers, Terminated
    <2> QED
      BY <2>1, <2>2, <2>3, <2>4, StoreKept
  <1>5. CASE AppSettled
    <2>1. UNCHANGED <<ls, api, shape, forgot>>
      BY <1>5 DEF AppSettled, Snapshot, StopSidecar
    <2>2. StatusTypes'
      BY <1>5, <1>0 DEF StatusTypes, AppSettled, Snapshot, StopSidecar, SyncPc, InApp, RuntimeState, Terminated, Containers
    <2>3. InitBeforeApp'
      BY <1>5, <1>0 DEF StatusTypes, InitBeforeApp, AppSettled, Snapshot, StopSidecar, InApp, RuntimeState, Containers, Sidecar, HasInit, Terminated
    <2>4. EndIsSeen'
      BY <1>5, <1>0 DEF StatusTypes, EndIsSeen, AppSettled, Snapshot, StopSidecar, InBackOff, RuntimeState, Containers, Terminated
    <2> QED
      BY <2>1, <2>2, <2>3, <2>4, StoreKept
  <1>6. CASE AppBacksOff
    <2>1. UNCHANGED <<ls, api, shape, forgot>>
      BY <1>6 DEF AppBacksOff, Snapshot
    <2>2. StatusTypes'
      BY <1>6, <1>0 DEF StatusTypes, AppBacksOff, Snapshot, SyncPc, InApp, RuntimeState, Terminated, Containers
    <2>3. InitBeforeApp'
      BY <1>6, <1>0 DEF StatusTypes, InitBeforeApp, AppBacksOff, Snapshot, InApp, RuntimeState, Containers, Sidecar, HasInit, Terminated
    <2>4. EndIsSeen'
      BY <1>6, <1>0 DEF StatusTypes, EndIsSeen, AppBacksOff, Snapshot, InBackOff, RuntimeState, Containers, Terminated
    <2> QED
      BY <2>1, <2>2, <2>3, <2>4, StoreKept
  <1>7. CASE AppStarts
    <2>1. UNCHANGED <<ls, api, shape, forgot>>
      BY <1>7 DEF AppStarts, Start
    <2>2. StatusTypes'
      BY <1>7, <1>0 DEF StatusTypes, AppStarts, Start, SyncPc, InApp, RuntimeState, Terminated, Containers
    <2>3. InitBeforeApp'
      BY <1>7, <1>0 DEF StatusTypes, InitBeforeApp, AppStarts, Start, InApp, RuntimeState, Containers, Sidecar, HasInit, Terminated
    <2>4. EndIsSeen'
      BY <1>7, <1>0 DEF StatusTypes, EndIsSeen, AppStarts, Start, InBackOff, RuntimeState, Containers, Terminated
    <2> QED
      BY <2>1, <2>2, <2>3, <2>4, StoreKept
  <1> QED
    BY <1>1, <1>2, <1>3, <1>4, <1>5, <1>6, <1>7

\* Containers exit, probes have results and time passes.
LEMMA WorldStep ==
  ASSUME StatusInv, Ages \/ \E c \in Containers : Exits(c) \/ ProbeResult(c)
  PROVE  StatusInv'
  <1>0. StatusTypes /\ InitBeforeApp /\ EndIsSeen
    BY DEF StatusInv
  <1>1. CASE Ages
    <2>1. UNCHANGED <<ls, api, shape, forgot>>
      BY <1>1 DEF Ages
    <2>2. StatusTypes'
      BY <1>1, <1>0 DEF StatusTypes, Ages, SyncPc, InApp, RuntimeState, Terminated, Containers
    <2>3. InitBeforeApp'
      BY <1>1, <1>0 DEF StatusTypes, InitBeforeApp, Ages, InApp, RuntimeState, Containers, Sidecar, HasInit, Terminated
    <2>4. EndIsSeen'
      BY <1>1, <1>0 DEF StatusTypes, EndIsSeen, Ages, InBackOff, RuntimeState, Containers, Terminated
    <2> QED
      BY <2>1, <2>2, <2>3, <2>4, StoreKept
  <1>2. CASE \E c \in Containers : ProbeResult(c)
    <2>1. UNCHANGED <<ls, api, shape, forgot>>
      BY <1>2 DEF ProbeResult
    <2>2. StatusTypes'
      BY <1>2, <1>0 DEF StatusTypes, ProbeResult, SyncPc, InApp, RuntimeState, Terminated, Containers
    <2>3. InitBeforeApp'
      BY <1>2, <1>0 DEF StatusTypes, InitBeforeApp, ProbeResult, InApp, RuntimeState, Containers, Sidecar, HasInit, Terminated
    <2>4. EndIsSeen'
      BY <1>2, <1>0 DEF StatusTypes, EndIsSeen, ProbeResult, InBackOff, RuntimeState, Containers, Terminated
    <2> QED
      BY <2>1, <2>2, <2>3, <2>4, StoreKept
  <1>3. CASE \E c \in Containers : Exits(c)
    <2>1. UNCHANGED <<ls, api, shape, forgot>>
      BY <1>3 DEF Exits
    <2>2. StatusTypes'
      BY <1>3, <1>0 DEF StatusTypes, Exits, SyncPc, InApp, RuntimeState, Terminated, Containers
    <2>3. InitBeforeApp'
      BY <1>3, <1>0 DEF StatusTypes, InitBeforeApp, Exits, InApp, RuntimeState, Containers, Sidecar, HasInit, Terminated
    <2>4. EndIsSeen'
      BY <1>3, <1>0 DEF StatusTypes, EndIsSeen, Exits, InBackOff, RuntimeState, Containers, Terminated
    <2> QED
      BY <2>1, <2>2, <2>3, <2>4, StoreKept
  <1> QED
    BY <1>1, <1>2, <1>3

\* A sync that fails at once: the containers are not looked at, and PodScheduled
\* is withdrawn.
LEMMA PrepareFailsStep ==
  ASSUME StatusInv, PrepareFails
  PROVE  StatusInv'
  <1>1. PICK image \in BOOLEAN :
          ls' = [ls EXCEPT !.phase = "Pending", !.scheduled = FALSE, !.app.state = IF image THEN "pullError" ELSE @]
    BY DEF PrepareFails
  <1>2. ls \in LifecycleState /\ ls.app \in ContainerState
    BY DEF StatusInv, StatusTypes, LifecycleState
  <1> DEFINE state == IF image THEN "pullError" ELSE ls.app.state
             app == [ls.app EXCEPT !.state = state]
  <1>3. state \in State
    BY <1>2 DEF ContainerState, State, Waiting
  <1>4. app \in ContainerState /\ app.restarts = ls.app.restarts /\ app.last = ls.app.last
    BY <1>2, <1>3 DEF ContainerState
  <1>5. ls' = [ls EXCEPT !.phase = "Pending", !.scheduled = FALSE, !.app = app]
    BY <1>1, <1>2 DEF LifecycleState, ContainerState
  <1> HIDE DEF app
  <1>6. ls' \in LifecycleState
    BY <1>2, <1>4, <1>5 DEF LifecycleState, Phase
  <1>7. Agrees(ls') /\ (forgot \/ LastIsTold(ls'))
    BY <1>2, <1>4, <1>5 DEF LifecycleState, Agrees, LastIsTold, StatusInv
  <1>8. UNCHANGED <<shape, rt, count, snap, api, forgot>> /\ pc' = "report" /\ pc = "idle"
    BY DEF PrepareFails
  <1>9. StatusTypes' /\ InitBeforeApp' /\ EndIsSeen'
    BY <1>6, <1>8 DEF StatusInv, StatusTypes, SyncPc, InitBeforeApp, EndIsSeen, InApp, InBackOff
  <1>10. StatusAgrees'
    BY <1>8 DEF StatusInv, StatusAgrees
  <1> QED
    BY <1>7, <1>8, <1>9, <1>10 DEF StatusInv

\* A pod that fails with its init container: the app was never made, so that
\* nothing is called ready in the phase Failed.
LEMMA InitFailedStep ==
  ASSUME StatusInv, InitFailed
  PROVE  StatusInv'
  <1> DEFINE s == Assembled({})
  <1>1. StatusTypes /\ InitBeforeApp /\ EndIsSeen
    BY DEF StatusInv
  <1>2. /\ s \in LifecycleState /\ Agrees(s)
        /\ forgot \/ LastIsTold(s)
        /\ s.containersReady => rt["app"] = "running"
    BY <1>1, AssembledAgrees
  <1>3. ls' = [s EXCEPT !.phase = "Failed"]
    BY DEF InitFailed
  <1>4. rt["app"] = "none"
    BY <1>1 DEF InitFailed, InitBeforeApp
  <1> HIDE DEF s
  <1>5. ls' \in LifecycleState
    BY <1>2, <1>3 DEF LifecycleState, Phase
  <1>6. ~ ls'.containersReady /\ Agrees(ls') /\ (forgot \/ LastIsTold(ls'))
    BY <1>2, <1>3, <1>4 DEF LifecycleState, Agrees, LastIsTold
  <1>7. /\ UNCHANGED <<shape, api, forgot>> /\ pc' = "report"
        /\ rt' = [c \in Containers |-> "none"]
        /\ count' = [c \in Containers |-> 0]
        /\ snap' = [c \in Containers |-> "none"]
    BY DEF InitFailed
  <1>8. StatusTypes'
    BY <1>1, <1>5, <1>7 DEF StatusTypes, SyncPc, RuntimeState
  <1>9. InitBeforeApp' /\ EndIsSeen'
    BY <1>7 DEF InitBeforeApp, EndIsSeen, InApp, InBackOff, Containers
  <1>10. StatusAgrees'
    BY <1>7 DEF StatusInv, StatusAgrees
  <1> QED
    BY <1>6, <1>7, <1>8, <1>9, <1>10 DEF StatusInv

\* The pod is initialized from here on.
LEMMA MarkStep ==
  ASSUME StatusInv, MarkInitialized
  PROVE  StatusInv'
  <1>1. ls \in LifecycleState
    BY DEF StatusInv, StatusTypes
  <1>2. ls' = [ls EXCEPT !.initialized = TRUE]
    BY DEF MarkInitialized
  <1>3. ls' \in LifecycleState
    BY <1>1, <1>2 DEF LifecycleState
  <1>4. Agrees(ls') /\ (forgot \/ LastIsTold(ls'))
    BY <1>1, <1>2 DEF LifecycleState, Agrees, LastIsTold, StatusInv
  <1>5. UNCHANGED <<shape, rt, count, snap, api, forgot>> /\ pc' = "app" /\ pc = "mark"
    BY DEF MarkInitialized
  <1>6. StatusTypes' /\ InitBeforeApp' /\ EndIsSeen'
    BY <1>3, <1>5 DEF StatusInv, StatusTypes, SyncPc, InitBeforeApp, EndIsSeen, InApp, InBackOff
  <1>7. StatusAgrees'
    BY <1>5 DEF StatusInv, StatusAgrees
  <1> QED
    BY <1>4, <1>5, <1>6, <1>7 DEF StatusInv

\* An update of the status store.
LEMMA UpdateStep ==
  ASSUME StatusInv, Update
  PROVE  StatusInv'
  <1>1. StatusTypes /\ InitBeforeApp /\ EndIsSeen
    BY DEF StatusInv
  <1>2. PICK U : ls' = Assembled(U)
    BY DEF Update, UpdatePodStatus
  <1>3. ls' \in LifecycleState /\ Agrees(ls') /\ (forgot \/ LastIsTold(ls'))
    BY <1>1, <1>2, AssembledAgrees
  <1>4. /\ UNCHANGED <<shape, rt, count, snap, api, forgot>>
        /\ pc \in {"initUpdate", "appUpdate", "end"}
        /\ pc' = CASE pc = "initUpdate" -> "initReport" [] pc = "appUpdate" -> "appReport" [] OTHER -> "report"
    BY DEF Update
  <1>5. StatusTypes' /\ InitBeforeApp' /\ EndIsSeen'
    BY <1>1, <1>3, <1>4 DEF StatusTypes, SyncPc, InitBeforeApp, EndIsSeen, InApp, InBackOff
  <1>6. StatusAgrees'
    BY <1>4 DEF StatusInv, StatusAgrees
  <1> QED
    BY <1>3, <1>4, <1>5, <1>6 DEF StatusInv

\* What the API server is sent agrees where the status store does.
LEMMA ReportStep ==
  ASSUME StatusInv, Report
  PROVE  StatusInv'
  <1>1. StatusTypes /\ InitBeforeApp /\ EndIsSeen /\ Agrees(ls) /\ (forgot \/ LastIsTold(ls))
    BY DEF StatusInv
  <1>2. /\ UNCHANGED <<shape, rt, count, snap, ls, forgot>>
        /\ pc \in {"initReport", "appReport", "report"}
        /\ pc' = CASE pc = "initReport" -> "initSleep" [] pc = "appReport" -> "appSleep" [] OTHER -> "idle"
    BY DEF Report
  <1>3. StatusTypes' /\ InitBeforeApp' /\ EndIsSeen'
    BY <1>1, <1>2 DEF StatusTypes, SyncPc, InitBeforeApp, EndIsSeen, InApp, InBackOff
  <1>4. CASE UNCHANGED api
    BY <1>1, <1>2, <1>3, <1>4 DEF StatusInv, StatusAgrees
  <1>5. CASE api' = <<BuildPodStatus(ls)>>
    <2> DEFINE s == BuildPodStatus(ls)
    <2>1. /\ s.phase = ls.phase
          /\ s.app = ToK8s(ls.app)
          /\ \A b \in BOOLEAN : ConditionToK8s(b) = "True" <=> b
          /\ s.conditions["PodScheduled"] = ConditionToK8s(ls.scheduled)
          /\ s.conditions["Initialized"] = ConditionToK8s(ls.initialized)
          /\ s.conditions["ContainersReady"] = ConditionToK8s(ls.containersReady)
          /\ s.conditions["Ready"] = ConditionToK8s(ls.ready)
      BY DEF BuildPodStatus, ConditionToK8s
    <2>2. /\ ls.scheduled \in BOOLEAN /\ ls.initialized \in BOOLEAN
          /\ ls.containersReady \in BOOLEAN /\ ls.ready \in BOOLEAN
          /\ ls.app \in ContainerState /\ ls.phase \in Phase
      BY <1>1 DEF StatusTypes, LifecycleState
    <2>3. /\ s.app.state = StateToK8s(ls.app.state)
          /\ s.app.last = LastToK8s(ls.app.last)
          /\ s.app.ready = (ls.app.ready \/ ls.app.state = "running")
          /\ s.app.restarts = ls.app.restarts
      BY <2>1 DEF ToK8s
    <2>4. ls.app.state = "running" => "running" \in DOMAIN s.app.state /\ s.app.ready
      <3>1. ls.app.state = "running" => s.app.state = [running |-> TRUE]
        BY <2>3 DEF StateToK8s, Terminated
      <3>2. ls.app.state = "running" => "running" \in DOMAIN s.app.state
        BY <3>1
      <3>3. ls.app.state = "running" => s.app.ready
        BY <2>3
      <3> QED
        BY <3>2, <3>3
    <2>5. ls.app.state = "ok" => s.app.state = [terminated |-> "ok"]
      BY <2>3 DEF StateToK8s, Terminated
    <2>6. ls.app.last \in Terminated => s.app.last # <<>> /\ "terminated" \in DOMAIN s.app.last[1]
      BY <2>3 DEF LastToK8s, StateToK8s, Terminated
    <2>7. api'[1] = s
      BY <1>5
    <2> HIDE DEF s
    <2>8. StatusAgrees'
      BY <1>1, <1>2, <2>1, <2>2, <2>3, <2>4, <2>5, <2>6, <2>7 DEF StatusAgrees, Agrees, LastIsTold
    <2> QED
      BY <1>1, <1>2, <1>3, <2>8 DEF StatusInv
  <1> QED
    BY <1>4, <1>5 DEF Report, ReportPodStatus

\* A restart forgets the ends it has seen and keeps the init container.
LEMMA RestartedStep ==
  ASSUME StatusInv, Restarted
  PROVE  StatusInv'
  <1>1. StatusTypes /\ InitBeforeApp /\ StatusAgrees
    BY DEF StatusInv
  <1>2. Initialize \in LifecycleState /\ Agrees(Initialize)
    BY DEF Initialize, Fresh, HasInit, LifecycleState, ContainerState, State, Waiting, RuntimeState, Phase, Agrees
  <1>3. /\ rt' = [c \in Containers |-> IF Recovered(c) THEN rt[c] ELSE "none"]
        /\ count' = [c \in Containers |-> IF c \in DOMAIN ListContainers THEN ListContainers[c].attempt + 1 ELSE 0]
        /\ snap' = [c \in Containers |-> "none"]
        /\ ls' = Initialize /\ pc' = "idle" /\ forgot' = TRUE /\ UNCHANGED <<shape, api>>
    BY DEF Restarted
  <1>4. rt' \in [Containers -> RuntimeState]
    BY <1>1, <1>3 DEF StatusTypes, RuntimeState
  <1>5. count' \in [Containers -> Nat]
    <2>1. ASSUME NEW c \in Containers PROVE count'[c] \in Nat
      BY <1>1, <1>3 DEF StatusTypes, ListContainers
    <2> QED
      BY <1>3, <2>1
  <1>6. rt'["app"] # "none" => rt["app"] # "none"
    BY <1>3 DEF Recovered, Containers
  <1>7. rt["init"] = "ok" => rt'["init"] = "ok"
    BY <1>3 DEF Recovered, ListContainers, Containers
  <1>8. StatusTypes'
    BY <1>1, <1>2, <1>3, <1>4, <1>5 DEF StatusTypes, SyncPc
  <1>9. InitBeforeApp' /\ EndIsSeen'
    BY <1>1, <1>3, <1>6, <1>7 DEF InitBeforeApp, EndIsSeen, InApp
  <1>10. StatusAgrees'
    BY <1>1, <1>3 DEF StatusAgrees
  <1> QED
    BY <1>2, <1>3, <1>8, <1>9, <1>10 DEF StatusInv

\* Every step keeps the invariant.
LEMMA StatusStep ==
  ASSUME StatusInv, [Next]_vars
  PROVE  StatusInv'
  <1>1. CASE OfPod(PodSteps)
    BY <1>1, WorkerStep, WorldStep, PrepareFailsStep, InitFailedStep, MarkStep, UpdateStep, ReportStep, RestartedStep
       DEF OfPod, PodSteps, SyncSteps
  <1>2. CASE UNCHANGED podVars
    BY <1>2 DEF podVars, StatusInv, StatusTypes, InitBeforeApp, EndIsSeen, Agrees, LastIsTold, StatusAgrees
  <1> QED
    BY <1>1, <1>2 DEF Next, SpecPart, CriPart, OfNode, vars

\* The parts of one report of a pod agree: Ready with its conditions, readiness
\* with the app and the phase, success with its end, and a restart with the end
\* that was seen, for any pod, sync, failed call and restart of the kubelet.
THEOREM ReportsAgree == Spec => []StatusAgrees
  <1>1. StatusInv /\ [Next]_vars => StatusInv'
    BY StatusStep
  <1>2. StatusInv => StatusAgrees
    BY DEF StatusInv
  <1> QED
    BY StatusInit, <1>1, <1>2, PTL DEF Spec

----------------------------------------------------------------------------
(***************************************************************************)
(* The requests to the runtime.                                            *)
(***************************************************************************)
PodSettings == {"pod.runAsUser", "pod.runAsGroup", "pod.fsGroup", "pod.groups", "pod.seccomp", "shareProcessNamespace"}
ContainerSettings ==
  {"runAsUser", "runAsGroup", "privileged", "readOnlyRootFilesystem", "allowPrivilegeEscalation", "capAdd", "capDrop",
   "seccomp", "volumeMounts"}

\* A converter takes a setting of the pod over if it reads it.
Taken(m, R, f) == IF f \in R THEN Get(m, f) ELSE <<>>

\* A pod's spec has the setting if the converter reads it; a flag that is not set is off.
LEMMA PodTaken ==
  ASSUME NEW m, NEW R, NEW account, NEW f \in PodSettings \cup Flags
  PROVE  Pod(m, R, account)[f] = IF f \in Flags THEN Or(Taken(m, R, f), FALSE) ELSE Taken(m, R, f)
  <1>1. f \in PodFields
    BY DEF PodFields, PodSettings, PodSecurity, Flags
  <1>2. f \notin {"restartPolicy", "dnsPolicy", "nodeName", "serviceAccountName", "terminationGracePeriodSeconds",
                 "hostname", "subdomain"}
    BY DEF PodSettings, Flags
  <1>3. \A o : PodField(f, o, account) = IF f \in Flags THEN Or(o, FALSE) ELSE o
    BY <1>2 DEF PodField, Flags
  <1>4. Pod(m, R, account)[f] = PodField(f, Taken(m, R, f), account)
    BY <1>1 DEF Pod, Taken
  <1> QED
    BY <1>3, <1>4

\* So it does with a setting of the container.
LEMMA ContainerTaken ==
  ASSUME NEW m, NEW f \in ContainerSettings
  PROVE  /\ ApiContainer(m)[f] = Get(m, f)
         /\ MapContainer(m)[f] = IF f \in MapContainerReads THEN Get(m, f) ELSE <<>>
         /\ FileContainer(m)[f] = IF f \in FileContainerReads THEN Get(m, f) ELSE <<>>
         /\ UrlContainer(m)[f] = IF f \in UrlContainerReads THEN Get(m, f) ELSE <<>>
         /\ f \in ContainerFields \ {"stdinOnce"}
  <1>1. f \in ContainerFields
    BY DEF ContainerFields, ContainerSettings, Security, Profiles
  <1>2. f \notin {"imagePullPolicy", "resources", "container.restartPolicy", "env", "probe", "hook", "stdinOnce"}
    BY DEF ContainerSettings
  <1>3. ApiContainer(m)[f] = Get(m, f)
    BY <1>1, <1>2 DEF ApiContainer
  <1>4. MapContainer(m)[f] = IF f \in MapContainerReads THEN Get(m, f) ELSE <<>>
    BY <1>1, <1>2 DEF MapContainer
  <1>5. FileContainer(m)[f] = IF f \in FileContainerReads THEN Get(m, f) ELSE <<>>
    BY <1>1, <1>2 DEF FileContainer
  <1>6. UrlContainer(m)[f] = IF f \in UrlContainerReads THEN Get(m, f) ELSE <<>>
    BY <1>1, <1>2 DEF UrlContainer
  <1> QED
    BY <1>1, <1>2, <1>3, <1>4, <1>5, <1>6

\* The spec has the settings that the manifest declares, as far as its source
\* reads them.
SpecDeclared ==
  spec # <<>> =>
    /\ \A f \in Flags : PodOf[f] = Or(DeclaredPod(f), FALSE)
    /\ \A f \in PodSettings : PodOf[f] = DeclaredPod(f)
    /\ \A f \in ContainerSettings : ContainerOf[f] = DeclaredContainer(f)

\* A converter that takes over what it reads gives a spec that declares it.
LEMMA Declares ==
  ASSUME NEW account,
         \A f \in PodSettings \cup Flags : PodOf[f] = Pod(manifest, PodReads(source), account)[f],
         \A f \in ContainerSettings : ContainerOf[f] = IF f \in ContainerReads(source) THEN Get(manifest, f) ELSE <<>>
  PROVE  SpecDeclared
  <1>0. ASSUME NEW f \in PodSettings \cup Flags
        PROVE  PodOf[f] = IF f \in Flags THEN Or(DeclaredPod(f), FALSE) ELSE DeclaredPod(f)
    <2>1. Pod(manifest, PodReads(source), account)[f] =
            IF f \in Flags THEN Or(Taken(manifest, PodReads(source), f), FALSE) ELSE Taken(manifest, PodReads(source), f)
      BY PodTaken
    <2>2. DeclaredPod(f) = Taken(manifest, PodReads(source), f)
      BY DEF DeclaredPod, Taken
    <2> QED
      BY <2>1, <2>2
  <1>1. ASSUME NEW f \in Flags PROVE PodOf[f] = Or(DeclaredPod(f), FALSE)
    BY <1>0
  <1>2. ASSUME NEW f \in PodSettings PROVE PodOf[f] = DeclaredPod(f)
    <2>1. f \notin Flags
      BY DEF PodSettings, Flags
    <2> QED
      BY <2>1, <1>0
  <1>3. ASSUME NEW f \in ContainerSettings PROVE ContainerOf[f] = DeclaredContainer(f)
    BY DEF DeclaredContainer
  <1> QED
    BY <1>1, <1>2, <1>3 DEF SpecDeclared

\* Each of the four converters does.
LEMMA ConvertDeclares ==
  ASSUME source \in Sources, spec = Convert(source, manifest)
  PROVE  SpecDeclared
  <1> SUFFICES ASSUME spec # <<>> PROVE SpecDeclared
    BY DEF SpecDeclared
  <1>1. CASE source = "api"
    <2>1. PodOf = Pod(manifest, ApiPodReads, "") /\ ContainerOf = ApiContainer(manifest)
      BY <1>1 DEF Convert, ApiSpec, PodOf, ContainerOf
    <2>2. PodReads(source) = ApiPodReads /\ ContainerReads(source) = ContainerFields \ {"stdinOnce"}
      BY <1>1 DEF PodReads, ContainerReads
    <2> QED
      BY <2>1, <2>2, ContainerTaken, Declares
  <1>2. CASE source = "map"
    <2>1. PodOf = MapPod(manifest) /\ ContainerOf = MapContainer(manifest)
      BY <1>2 DEF Convert, MapSpec, PodOf, ContainerOf
    <2>2. PodReads(source) = MapPodReads /\ ContainerReads(source) = MapContainerReads
      BY <1>2 DEF PodReads, ContainerReads
    <2>3. \A f \in PodSettings \cup Flags : MapPod(manifest)[f] = Pod(manifest, MapPodReads, "default")[f]
      <3>1. \A f \in PodSettings \cup Flags : f \in PodFields /\ f # "dnsConfig"
        BY DEF PodFields, PodSettings, PodSecurity, Flags
      <3> QED
        BY <3>1 DEF MapPod, Pod
    <2> QED
      BY <2>1, <2>2, <2>3, ContainerTaken, Declares
  <1>3. CASE source = "file"
    <2>1. PodOf = Pod(manifest, FilePodReads, "default") /\ ContainerOf = FileContainer(manifest)
      BY <1>3 DEF Convert, FileSpec, PodOf, ContainerOf
    <2>2. PodReads(source) = FilePodReads /\ ContainerReads(source) = FileContainerReads
      BY <1>3 DEF PodReads, ContainerReads
    <2> QED
      BY <2>1, <2>2, ContainerTaken, Declares
  <1>4. CASE source = "url"
    <2>1. PodOf = Pod(manifest, UrlPodReads, "default") /\ ContainerOf = UrlContainer(manifest)
      BY <1>4 DEF Convert, UrlSpec, PodOf, ContainerOf
    <2>2. PodReads(source) = UrlPodReads /\ ContainerReads(source) = UrlContainerReads
      BY <1>4 DEF PodReads, ContainerReads
    <2> QED
      BY <2>1, <2>2, ContainerTaken, Declares
  <1> QED
    BY <1>1, <1>2, <1>3, <1>4 DEF Sources

\* A path is made of the mount point that it lies inside and the rest of it.
LEMMA PathParts ==
  ASSUME NEW p \in Seq(STRING), NEW c \in Seq(STRING), Inside(p, c)
  PROVE  p \o From(c, Len(p)) = c
  <1>2. p = SubSeq(c, 1, Len(p)) /\ Len(p) \in Nat /\ Len(c) \in Nat /\ Len(p) < Len(c)
    BY DEF Inside
  <1>3. SubSeq(c, 1, Len(p)) \o SubSeq(c, Len(p) + 1, Len(c)) = SubSeq(c, 1, Len(c))
    <2>1. /\ 1 \in 1..Len(c) + 1 /\ Len(p) \in (1 - 1)..Len(c) /\ Len(c) \in Len(p)..Len(c)
      BY <1>2
    <2> QED
      BY <2>1, ConcatAdjacentSubSeq
  <1>4. SubSeq(c, 1, Len(c)) = c
    BY SubSeqFull
  <1> QED
    BY <1>2, <1>3, <1>4 DEF From

\* What the settings that are declared may be.
LEMMA DeclaredValues ==
  ASSUME Admitted(manifest)
  PROVE  /\ \A f \in Flags \cup {"shareProcessNamespace"} : DeclaredPod(f) \in {<<>>, <<TRUE>>, <<FALSE>>}
         /\ \A f \in {"privileged", "readOnlyRootFilesystem", "allowPrivilegeEscalation"} :
              DeclaredContainer(f) \in {<<>>, <<TRUE>>, <<FALSE>>}
         /\ DeclaredPod("pod.seccomp") \in {<<>>} \cup {<<p>> : p \in Profile}
         /\ DeclaredContainer("seccomp") \in {<<>>} \cup {<<p>> : p \in Profile}
         /\ DeclaredPod("pod.fsGroup") # <<>> => DeclaredPod("pod.fsGroup")[1] \in Nat
         /\ Or(DeclaredContainer("volumeMounts"), <<>>) \in Seq(Mount)
  <1>1. \A f : Get(manifest, f) = <<>> \/ (f \in DOMAIN manifest /\ Get(manifest, f) = <<manifest[f]>>)
    BY DEF Get
  <1>2. \A f : DeclaredPod(f) = <<>> \/ (f \in DOMAIN manifest /\ DeclaredPod(f) = <<manifest[f]>>)
    BY <1>1 DEF DeclaredPod
  <1>3. \A f : DeclaredContainer(f) = <<>> \/ (f \in DOMAIN manifest /\ DeclaredContainer(f) = <<manifest[f]>>)
    BY <1>1 DEF DeclaredContainer
  <1>4. \A f \in Flags \cup {"shareProcessNamespace"} : DeclaredPod(f) \in {<<>>, <<TRUE>>, <<FALSE>>}
    BY <1>2 DEF Admitted
  <1>5. \A f \in {"privileged", "readOnlyRootFilesystem", "allowPrivilegeEscalation"} :
          DeclaredContainer(f) \in {<<>>, <<TRUE>>, <<FALSE>>}
    BY <1>3 DEF Admitted
  <1>6. DeclaredPod("pod.seccomp") \in {<<>>} \cup {<<p>> : p \in Profile}
    BY <1>2 DEF Admitted
  <1>7. DeclaredContainer("seccomp") \in {<<>>} \cup {<<p>> : p \in Profile}
    BY <1>3 DEF Admitted
  <1>8. DeclaredPod("pod.fsGroup") # <<>> => DeclaredPod("pod.fsGroup")[1] \in Nat
    BY <1>2 DEF Admitted
  <1>9. Or(DeclaredContainer("volumeMounts"), <<>>) \in Seq(Mount)
    BY <1>3 DEF Admitted, Or
  <1> QED
    BY <1>4, <1>5, <1>6, <1>7, <1>8, <1>9

\* A switch that is not set is off.
LEMMA OrFalse == \A b \in {<<>>, <<TRUE>>, <<FALSE>>} : Or(b, FALSE) = (b = <<TRUE>>)
  <1>1. <<TRUE>> # <<>> /\ <<FALSE>> # <<>> /\ <<TRUE>>[1] = TRUE /\ <<FALSE>>[1] = FALSE
    OBVIOUS
  <1>2. Or(<<>>, FALSE) = FALSE /\ Or(<<TRUE>>, FALSE) = TRUE /\ Or(<<FALSE>>, FALSE) = FALSE
    BY <1>1 DEF Or
  <1>3. (<<TRUE>> = <<TRUE>>) = TRUE /\ (<<>> = <<TRUE>>) = FALSE /\ (<<FALSE>> = <<TRUE>>) = FALSE
    BY <1>1
  <1> QED
    BY <1>2, <1>3

\* The context that is sent has what is declared, also where it is thought to
\* have nothing to send.
ContextDeclared(c) ==
  /\ c.user = OrElse(DeclaredContainer("runAsUser"), DeclaredPod("pod.runAsUser"))
  /\ c.group = OrElse(DeclaredContainer("runAsGroup"), DeclaredPod("pod.runAsGroup"))
  /\ \A g \in Or(DeclaredPod("pod.groups"), {}) : g \in c.groups
  /\ DeclaredPod("pod.fsGroup") # <<>> => DeclaredPod("pod.fsGroup")[1] \in c.groups
  /\ c.privileged = (DeclaredContainer("privileged") = <<TRUE>>)
  /\ c.readonly = (DeclaredContainer("readOnlyRootFilesystem") = <<TRUE>>)
  /\ c.noNewPrivs = (DeclaredContainer("allowPrivilegeEscalation") = <<FALSE>>)
  /\ c.add = Or(DeclaredContainer("capAdd"), {}) /\ c.drop = Or(DeclaredContainer("capDrop"), {})
  /\ c.seccomp = OrElse(DeclaredContainer("seccomp"), DeclaredPod("pod.seccomp"))
  /\ c.pid = IF DeclaredPod("shareProcessNamespace") = <<TRUE>> THEN "pod" ELSE "container"

\* The security context of the request, setting by setting: the container's goes before
\* the pod's, and privileged implies what it implies.
LEMMA SentIsDeclared ==
  ASSUME spec # <<>>, SpecDeclared, Admitted(manifest)
  PROVE  ContextDeclared(SentContext)
  <1> DEFINE s == ContainerSecurity
             user == OrElse(DeclaredContainer("runAsUser"), DeclaredPod("pod.runAsUser"))
             group == OrElse(DeclaredContainer("runAsGroup"), DeclaredPod("pod.runAsGroup"))
             fs == {g \in {Or(DeclaredPod("pod.fsGroup"), -1)} : g # -1}
             groups == fs \cup Or(DeclaredPod("pod.groups"), {})
             seccomp == OrElse(DeclaredContainer("seccomp"), DeclaredPod("pod.seccomp"))
             escalation == DeclaredContainer("allowPrivilegeEscalation")
             privileged == DeclaredContainer("privileged") = <<TRUE>>
             readonly == DeclaredContainer("readOnlyRootFilesystem") = <<TRUE>>
             add == Or(DeclaredContainer("capAdd"), {})
             drop == Or(DeclaredContainer("capDrop"), {})
             pid == IF DeclaredPod("shareProcessNamespace") = <<TRUE>> THEN "pod" ELSE "container"
  <1>1. /\ \A f \in PodSettings : PodOf[f] = DeclaredPod(f)
        /\ \A f \in ContainerSettings : ContainerOf[f] = DeclaredContainer(f)
    BY DEF SpecDeclared
  <1>2. /\ PodOf["pod.runAsUser"] = DeclaredPod("pod.runAsUser")
        /\ PodOf["pod.runAsGroup"] = DeclaredPod("pod.runAsGroup")
        /\ PodOf["pod.fsGroup"] = DeclaredPod("pod.fsGroup")
        /\ PodOf["pod.groups"] = DeclaredPod("pod.groups")
        /\ PodOf["pod.seccomp"] = DeclaredPod("pod.seccomp")
        /\ PodOf["shareProcessNamespace"] = DeclaredPod("shareProcessNamespace")
    BY <1>1 DEF PodSettings
  <1>3. /\ ContainerOf["runAsUser"] = DeclaredContainer("runAsUser")
        /\ ContainerOf["runAsGroup"] = DeclaredContainer("runAsGroup")
        /\ ContainerOf["privileged"] = DeclaredContainer("privileged")
        /\ ContainerOf["readOnlyRootFilesystem"] = DeclaredContainer("readOnlyRootFilesystem")
        /\ ContainerOf["allowPrivilegeEscalation"] = DeclaredContainer("allowPrivilegeEscalation")
        /\ ContainerOf["capAdd"] = DeclaredContainer("capAdd")
        /\ ContainerOf["capDrop"] = DeclaredContainer("capDrop")
        /\ ContainerOf["seccomp"] = DeclaredContainer("seccomp")
    BY <1>1 DEF ContainerSettings
  <1>4. \A b \in {<<>>, <<TRUE>>, <<FALSE>>} : Or(b, FALSE) = (b = <<TRUE>>)
    BY OrFalse
  <1>5. s.user = user /\ s.group = group /\ s.seccomp = seccomp /\ s.escalation = escalation
    BY <1>2, <1>3 DEF ContainerSecurity
  <1>6. s.groups = groups /\ s.add = add /\ s.drop = drop
    BY <1>2, <1>3 DEF ContainerSecurity
  <1>7. s.privileged = privileged
    BY <1>3, <1>4, DeclaredValues DEF ContainerSecurity
  <1>8. s.readonly = readonly
    BY <1>3, <1>4, DeclaredValues DEF ContainerSecurity
  <1>9. PidMode = pid
    BY <1>2 DEF PidMode, Shared
  <1>10. DeclaredPod("pod.fsGroup") # <<>> => DeclaredPod("pod.fsGroup")[1] \in groups
    BY DeclaredValues DEF Or
  <1>11. \A g \in Or(DeclaredPod("pod.groups"), {}) : g \in groups
    OBVIOUS
  <1>12. seccomp # <<>> /\ seccomp[1] \notin {"Unconfined", "Localhost"} => seccomp = <<"RuntimeDefault">>
    BY DeclaredValues DEF OrElse, Profile
  <1> HIDE DEF s, user, group, groups, seccomp, escalation, privileged, readonly, add, drop, pid
  <1>13. CASE HasSettings(s)
    <2>1. SentContext = SecurityContext(s)
      BY <1>13 DEF SentContext, s
    <2>2. SecurityContext(s) =
            [user |-> user, group |-> group, groups |-> groups, privileged |-> privileged, readonly |-> readonly,
             noNewPrivs |-> escalation = <<FALSE>>, add |-> add, drop |-> drop, seccomp |-> seccomp, pid |-> pid]
      BY <1>5, <1>6, <1>7, <1>8, <1>9, <1>12 DEF SecurityContext
    <2> QED
      BY <2>1, <2>2, <1>10, <1>11 DEF ContextDeclared, user, group, privileged, readonly, escalation, add, drop, seccomp, pid
  <1>14. CASE ~ HasSettings(s)
    <2>1. SentContext = NoSettings
      BY <1>14 DEF SentContext, s
    <2>2. /\ user = <<>> /\ group = <<>> /\ groups = {} /\ ~ privileged /\ ~ readonly /\ escalation = <<>>
          /\ add = {} /\ drop = {} /\ seccomp = <<>>
      BY <1>5, <1>6, <1>7, <1>8, <1>14 DEF HasSettings
    <2>3. privileged = FALSE /\ readonly = FALSE /\ (escalation = <<FALSE>>) = FALSE
      BY <2>2 DEF privileged, readonly
    <2>4. NoSettings =
            [user |-> user, group |-> group, groups |-> groups, privileged |-> privileged, readonly |-> readonly,
             noNewPrivs |-> escalation = <<FALSE>>, add |-> add, drop |-> drop, seccomp |-> seccomp, pid |-> pid]
      BY <2>2, <2>3, <1>9 DEF NoSettings
    <2> QED
      BY <2>1, <2>4, <1>10, <1>11 DEF ContextDeclared, user, group, privileged, readonly, escalation, add, drop, seccomp, pid
  <1> QED
    BY <1>13, <1>14

\* The mount points inside other mounts are there.
MountsMade(ms, made) ==
  \A i, j \in DOMAIN ms :
    Inside(ms[i].path, ms[j].path) => \E x \in made : x[1] = ms[i].host /\ ms[i].path \o x[2] = ms[j].path

DeclaredMounts == Or(DeclaredContainer("volumeMounts"), <<>>)

\* Every mount point inside another mount is made in the directory that is mounted there.
LEMMA MountsAreMade ==
  ASSUME NEW ms \in Seq(Mount)
  PROVE  MountsMade(ms, CriMounts(ms).made)
  <1> DEFINE pairs == {x \in (DOMAIN ms) \X (DOMAIN ms) : x[1] # x[2]}
             within == {y \in pairs : Inside(ms[y[1]].path, ms[y[2]].path)}
             made == {<<ms[x[1]].host, From(ms[x[2]].path, Len(ms[x[1]].path))>> : x \in within}
  <1>2. CriMounts(ms).made = made
    BY DEF CriMounts
  <1>3. ASSUME NEW i \in DOMAIN ms, NEW j \in DOMAIN ms, Inside(ms[i].path, ms[j].path)
        PROVE  \E x \in made : x[1] = ms[i].host /\ ms[i].path \o x[2] = ms[j].path
    <2>1. ms[i] \in Mount /\ ms[j] \in Mount
      OBVIOUS
    <2>2. ms[i].path \in Seq(STRING) /\ ms[j].path \in Seq(STRING)
      BY <2>1 DEF Mount
    <2>3. i # j
      BY <1>3, <2>2 DEF Inside
    <2> DEFINE y == <<i, j>>
               x == <<ms[i].host, From(ms[j].path, Len(ms[i].path))>>
    <2>4. y \in within
      <3>1. y[1] = i /\ y[2] = j
        OBVIOUS
      <3>2. y \in (DOMAIN ms) \X (DOMAIN ms)
        OBVIOUS
      <3> HIDE DEF y
      <3>3. y \in pairs
        BY <3>1, <3>2, <2>3
      <3> QED
        BY <3>1, <3>3, <1>3
    <2>5. x \in made
      BY <2>4
    <2>6. ms[i].path \o From(ms[j].path, Len(ms[i].path)) = ms[j].path
      BY <1>3, <2>2, PathParts
    <2> QED
      BY <2>5, <2>6
  <1> HIDE DEF made
  <1> QED
    BY <1>2, <1>3 DEF MountsMade

\* The namespaces of the sandbox are those that are declared.
NamespacesDeclared(ns) ==
  /\ ns.network = IF DeclaredPod("hostNetwork") = <<TRUE>> THEN "node" ELSE "pod"
  /\ ns.ipc = IF DeclaredPod("hostIPC") = <<TRUE>> THEN "node" ELSE "pod"
  /\ ns.pid = IF DeclaredPod("hostPID") = <<TRUE>> THEN "node"
              ELSE IF DeclaredPod("shareProcessNamespace") = <<TRUE>> THEN "pod" ELSE "container"

\* What was asked for is what is declared, whatever resources the pod is given
\* later.
CriInv ==
  /\ source \in Sources
  /\ part \in {"cri", "resize"} => Admitted(manifest)
  /\ part \notin {"cri", "resize"} => sandbox = <<>> /\ container = <<>>
  /\ spec # <<>> => spec = Convert(source, manifest)
  /\ sandbox # <<>> => spec # <<>> /\ NamespacesDeclared(sandbox[1].ns)
  /\ container # <<>> =>
       /\ sandbox # <<>>
       /\ ContextDeclared(container[1].context)
       /\ MountsMade(DeclaredMounts, container[1].mounts.made)

\* Nothing has been asked of the runtime at the start.
LEMMA CriInvInit == Init => CriInv
  BY CasesAssumption DEF Init, SpecInit, CriInit, CriInv, Sources

\* It says all that a run shows.
LEMMA CriInvRuns ==
  ASSUME CriInv
  PROVE  RunsAsDeclared
  <1> SUFFICES ASSUME container # <<>> PROVE RunsAsDeclared
    BY DEF RunsAsDeclared
  <1>1. ContextDeclared(container[1].context) /\ MountsMade(DeclaredMounts, container[1].mounts.made) /\ NamespacesDeclared(sandbox[1].ns)
    BY DEF CriInv
  <1> DEFINE c == container[1].context
  <1>2. DeclaredPod("hostPID") # <<TRUE>> =>
          (Effective(c.pid, sandbox[1].ns.pid) = "pod" <=> DeclaredPod("shareProcessNamespace") = <<TRUE>>)
    BY <1>1 DEF ContextDeclared, NamespacesDeclared, Effective
  <1> QED
    BY <1>1, <1>2 DEF RunsAsDeclared, ContextDeclared, NamespacesDeclared, MountsMade, DeclaredMounts

\* What it says depends on nothing else.
LEMMA CriInvKept ==
  ASSUME CriInv, UNCHANGED <<part, source, manifest, spec, sandbox, container>>
  PROVE  CriInv'
  BY DEF CriInv, ContextDeclared, NamespacesDeclared, DeclaredMounts, DeclaredPod, DeclaredContainer

\* A sandbox is asked for.
LEMMA SandboxStep ==
  ASSUME CriInv, part \in {"cri", "resize"}, RunPodSandbox, UNCHANGED <<part, specVars>>
  PROVE  CriInv'
  <1>1. SpecDeclared /\ spec # <<>> /\ Admitted(manifest)
    BY ConvertDeclares DEF CriInv, RunPodSandbox
  <1>2. /\ PodOf["hostNetwork"] = Or(DeclaredPod("hostNetwork"), FALSE)
        /\ PodOf["hostPID"] = Or(DeclaredPod("hostPID"), FALSE)
        /\ PodOf["hostIPC"] = Or(DeclaredPod("hostIPC"), FALSE)
        /\ PodOf["shareProcessNamespace"] = DeclaredPod("shareProcessNamespace")
    BY <1>1 DEF SpecDeclared, Flags, PodSettings
  <1>3. \A b \in {<<>>, <<TRUE>>, <<FALSE>>} : Or(b, FALSE) = (b = <<TRUE>>)
    BY OrFalse
  <1>4. /\ DeclaredPod("hostNetwork") \in {<<>>, <<TRUE>>, <<FALSE>>}
        /\ DeclaredPod("hostPID") \in {<<>>, <<TRUE>>, <<FALSE>>}
        /\ DeclaredPod("hostIPC") \in {<<>>, <<TRUE>>, <<FALSE>>}
    BY <1>1, DeclaredValues DEF Flags
  <1>5. NamespacesDeclared(NamespaceOptions)
    BY <1>2, <1>3, <1>4 DEF NamespacesDeclared, NamespaceOptions, Shared
  <1>6. sandbox' # <<>> /\ sandbox'[1].ns = NamespaceOptions
    BY DEF RunPodSandbox
  <1>7. UNCHANGED <<part, source, manifest, spec, container>>
    BY DEF RunPodSandbox, specVars
  <1>8. NamespacesDeclared(sandbox[1].ns)'
    BY <1>5, <1>6, <1>7 DEF NamespacesDeclared, DeclaredPod
  <1>9. container = <<>>
    BY DEF CriInv, RunPodSandbox
  <1> QED
    BY <1>1, <1>6, <1>7, <1>8, <1>9 DEF CriInv

\* A container is asked for.
LEMMA CreateStep ==
  ASSUME CriInv, part \in {"cri", "resize"}, CreateContainer, UNCHANGED <<part, specVars>>
  PROVE  CriInv'
  <1>1. SpecDeclared /\ spec # <<>> /\ Admitted(manifest)
    BY ConvertDeclares DEF CriInv, CreateContainer
  <1>2. ContextDeclared(SentContext)
    BY <1>1, SentIsDeclared
  <1>3. ContainerOf["volumeMounts"] = DeclaredContainer("volumeMounts")
    BY <1>1 DEF SpecDeclared, ContainerSettings
  <1>4. MountsMade(DeclaredMounts, CriMounts(DeclaredMounts).made)
    BY <1>1, DeclaredValues, MountsAreMade DEF DeclaredMounts
  <1>5. /\ container' # <<>>
        /\ container'[1].context = SentContext
        /\ container'[1].mounts = CriMounts(DeclaredMounts)
    BY <1>3 DEF CreateContainer, DeclaredMounts
  <1>6. UNCHANGED <<part, source, manifest, spec, sandbox>> /\ sandbox # <<>>
    BY DEF CreateContainer, specVars
  <1> DEFINE c == SentContext
  <1>a. \A f : DeclaredPod(f)' = DeclaredPod(f) /\ DeclaredContainer(f)' = DeclaredContainer(f)
    BY <1>6 DEF DeclaredPod, DeclaredContainer
  <1> HIDE DEF c
  <1>b. container'[1].context = c /\ ContextDeclared(c)
    BY <1>2, <1>5 DEF c
  <1>c. ContextDeclared(container[1].context)'
    BY <1>a, <1>b DEF ContextDeclared
  <1>d. DeclaredMounts' = DeclaredMounts
    BY <1>a DEF DeclaredMounts
  <1>e. MountsMade(DeclaredMounts, container[1].mounts.made)'
    BY <1>4, <1>5, <1>d
  <1>7. ContextDeclared(container[1].context)' /\ MountsMade(DeclaredMounts, container[1].mounts.made)'
    BY <1>c, <1>e
  <1> QED
    BY <1>1, <1>5, <1>6, <1>7 DEF CriInv, NamespacesDeclared, DeclaredPod

\* Other resources change nothing that is declared besides them.
LEMMA ResourcesStep ==
  ASSUME CriInv, part \in {"cri", "resize"}, NEW r, NewResources(r), UNCHANGED part
  PROVE  CriInv'
  <1>1. /\ manifest' = [f \in DOMAIN manifest \cup {"resources"} |-> IF f = "resources" THEN r ELSE manifest[f]]
        /\ UNCHANGED <<source, sandbox, container, part>>
        /\ source = "api" /\ container # <<>>
        /\ spec' = Convert(source, manifest')
    BY DEF NewResources
  <1>2. \A f : f # "resources" =>
          /\ f \in DOMAIN manifest' <=> f \in DOMAIN manifest
          /\ f \in DOMAIN manifest => manifest'[f] = manifest[f]
    BY <1>1
  <1>3. Admitted(manifest')
    BY <1>2 DEF CriInv, Admitted, Flags
  <1>4. \A f : f # "resources" => DeclaredPod(f)' = DeclaredPod(f) /\ DeclaredContainer(f)' = DeclaredContainer(f)
    BY <1>1, <1>2 DEF DeclaredPod, DeclaredContainer, Get
  <1>5. spec # <<>> /\ spec = Convert(source, manifest)
    BY <1>1 DEF CriInv
  <1>6. spec' # <<>>
    BY <1>1, <1>2, <1>5 DEF Convert, ApiSpec
  <1>7. ContextDeclared(container[1].context)'
    BY <1>1, <1>4 DEF CriInv, ContextDeclared
  <1>8. MountsMade(DeclaredMounts, container[1].mounts.made)'
    <2>1. DeclaredMounts' = DeclaredMounts
      BY <1>4 DEF DeclaredMounts
    <2> QED
      BY <1>1, <2>1 DEF CriInv
  <1>9. NamespacesDeclared(sandbox[1].ns)'
    BY <1>1, <1>4 DEF CriInv, NamespacesDeclared
  <1> QED
    BY <1>1, <1>3, <1>6, <1>7, <1>8, <1>9 DEF CriInv

\* A step of the kubelet, of the API server or of the container, or none.
LEMMA CriStep ==
  ASSUME CriInv, [Next]_vars
  PROVE  CriInv'
  <1>1. CASE SpecPart
    <2>1. UNCHANGED <<part, sandbox, container>> /\ Receive
      BY <1>1 DEF SpecPart, criVars
    <2>2. spec = <<>> /\ spec' = Convert(source, manifest) /\ UNCHANGED <<source, manifest>>
      BY <2>1 DEF Receive
    <2>3. sandbox = <<>> /\ container = <<>>
      BY <2>2 DEF CriInv
    <2> QED
      BY <2>1, <2>2, <2>3 DEF CriInv
  <1>2. CASE part \in {"cri", "resize"} /\ CriSteps /\ UNCHANGED <<part, specVars>>
    <2>1. CASE RunPodSandbox
      BY <1>2, <2>1, SandboxStep
    <2>2. CASE CreateContainer
      BY <1>2, <2>2, CreateStep
    <2>3. CASE SkipResize \/ Resize \/ ContainerExits \/ KubeletRestarts
      <3>1. UNCHANGED <<part, source, manifest, spec, sandbox, container>>
        BY <1>2, <2>3 DEF SkipResize, Resize, ContainerExits, KubeletRestarts, specVars
      <3> QED
        BY <3>1, CriInvKept
    <2> QED
      BY <1>2, <2>1, <2>2, <2>3 DEF CriSteps
  <1>3. CASE part = "resize" /\ (\E r \in Resizes : NewResources(r)) /\ UNCHANGED part
    BY <1>3, ResourcesStep
  <1>4. CASE OfPod(PodSteps) \/ OfNode(NodeSteps \/ NodeDeleted \/ NodeCreated) \/ UNCHANGED vars
    <2>1. UNCHANGED <<part, source, manifest, spec, sandbox, container>>
      BY <1>4 DEF OfPod, OfNode, specVars, criVars, vars
    <2> QED
      BY <2>1, CriInvKept
  <1> QED
    BY <1>1, <1>2, <1>3, <1>4 DEF Next, CriPart

\* The container runs with what its manifest declares, from whatever source
\* and with whatever manifest that the API server admits, however often the
\* container exits, its resources change and the kubelet restarts
\* (build_container_security, build_security_context, build_namespace_options
\* and spec_to_cri_mounts).
THEOREM RunsWithDeclared == Spec => []RunsAsDeclared
  <1>1. Init => CriInv
    BY CriInvInit
  <1>2. CriInv /\ [Next]_vars => CriInv'
    BY CriStep
  <1>3. CriInv => RunsAsDeclared
    BY CriInvRuns
  <1> QED
    BY <1>1, <1>2, <1>3, PTL DEF Spec


----------------------------------------------------------------------------
(***************************************************************************)
(* The conversion of manifests.                                            *)
(***************************************************************************)
\* Every set of numbers has a least element.
LEMMA LeastNumber ==
  ASSUME NEW S \in SUBSET Nat, S # {}
  PROVE  \E n \in S : \A m \in S : n =< m
  <1>1. PICK n \in S : \A m \in S : ~ (<<m, n>> \in OpToRel(<, Nat))
    BY NatLessThanWellFounded, WFMin
  <1>2. \A m \in S : ~ (m < n)
    BY <1>1 DEF OpToRel
  <1> QED
    BY <1>2

\* The first member of a sequence that is in S is one of them, if there are any.
LEMMA FirstIsIn ==
  ASSUME NEW s, DOMAIN s \subseteq Nat, NEW S
  PROVE  \/ First(s, S) = <<>> /\ \A i \in DOMAIN s : s[i] \notin S
         \/ \E i \in DOMAIN s : s[i] \in S /\ First(s, S) = <<s[i]>>
  <1> DEFINE at == {i \in DOMAIN s : s[i] \in S}
             i == CHOOSE i \in at : \A j \in at : i <= j
  <1>1. CASE at = {}
    <2>1. First(s, S) = <<>>
      BY <1>1 DEF First
    <2> QED
      BY <1>1, <2>1
  <1>2. CASE at # {}
    <2>1. \E n \in at : \A m \in at : n =< m
      <3>1. at \in SUBSET Nat
        OBVIOUS
      <3> HIDE DEF at
      <3> QED
        BY <1>2, <3>1, LeastNumber
    <2>2. i \in at
      <3> HIDE DEF at
      <3> QED
        BY <2>1
    <2>3. First(s, S) = <<s[i]>>
      BY <1>2 DEF First
    <2>4. i \in DOMAIN s /\ s[i] \in S
      <3> HIDE DEF i
      <3> QED
        BY <2>2
    <2> HIDE DEF i, at
    <2> QED
      BY <2>3, <2>4
  <1> QED
    BY <1>1, <1>2

\* Two orders of the same members find the same, where S has but one of them.
LEMMA FirstsAgree ==
  ASSUME NEW H, NEW S, \A k, l \in S \cap H : k = l,
         NEW s, DOMAIN s \subseteq Nat, \A i \in DOMAIN s : s[i] \in H, \A h \in H : \E i \in DOMAIN s : s[i] = h,
         NEW t, DOMAIN t \subseteq Nat, \A i \in DOMAIN t : t[i] \in H, \A h \in H : \E i \in DOMAIN t : t[i] = h
  PROVE  First(s, S) = First(t, S)
  <1>1. CASE S \cap H = {}
    <2>1. First(s, S) = <<>> /\ First(t, S) = <<>>
      BY <1>1, FirstIsIn
    <2> QED
      BY <2>1
  <1>2. ASSUME NEW h \in S \cap H
        PROVE  First(s, S) = First(t, S)
    <2>1. First(s, S) = <<h>>
      BY <1>2, FirstIsIn
    <2>2. First(t, S) = <<h>>
      BY <1>2, FirstIsIn
    <2> QED
      BY <2>1, <2>2
  <1> QED
    BY <1>1, <1>2

\* Where v sets but one of what they look for, two that find something find the
\* same.
LEMMA FirstOfOne ==
  ASSUME NEW v, NEW s, NEW t, DOMAIN s \subseteq Nat, DOMAIN t \subseteq Nat,
         \A k, l \in DOMAIN v : k = l, FirstOf(s, v) # <<>>, FirstOf(t, v) # <<>>
  PROVE  FirstOf(s, v) = FirstOf(t, v)
  <1>1. PICK i \in DOMAIN s : s[i] \in DOMAIN v /\ First(s, DOMAIN v) = <<s[i]>>
    BY FirstIsIn DEF FirstOf
  <1>2. PICK j \in DOMAIN t : t[j] \in DOMAIN v /\ First(t, DOMAIN v) = <<t[j]>>
    BY FirstIsIn DEF FirstOf
  <1>3. s[i] = t[j]
    BY <1>1, <1>2
  <1> QED
    BY <1>1, <1>2, <1>3 DEF FirstOf

\* What two converters read of a pod they read alike, but for what they take
\* for an absent service account.
LEMMA PodsAgree ==
  ASSUME NEW m, NEW R, NEW T, NEW a, NEW b, NEW f \in PodFields, f \in R, f \in T
  PROVE  \/ Pod(m, R, a)[f] = Pod(m, T, b)[f]
         \/ f = "serviceAccountName" /\ f \notin DOMAIN m
  <1>1. Pod(m, R, a)[f] = PodField(f, Get(m, f), a) /\ Pod(m, T, b)[f] = PodField(f, Get(m, f), b)
    BY DEF Pod
  <1>2. CASE f # "serviceAccountName"
    <2>1. \A o : PodField(f, o, a) = PodField(f, o, b)
      BY <1>2 DEF PodField
    <2> QED
      BY <1>1, <2>1
  <1>3. CASE f = "serviceAccountName" /\ f \in DOMAIN m
    <2>1. Or(Get(m, f), a) = m[f] /\ Or(Get(m, f), b) = m[f]
      BY <1>3 DEF Or, Get
    <2>2. \A o, c : PodField(f, o, c) = Or(o, c)
      BY <1>3 DEF PodField, Flags
    <2> QED
      BY <1>1, <2>1, <2>2
  <1> QED
    BY <1>2, <1>3


\* The two readers of resources know the same quantities.
LEMMA ResourcesAgree ==
  ASSUME NEW o
  PROVE  ApiResources(o) = MapResources(o)
  <1> SUFFICES ASSUME o # <<>> PROVE ApiResources(o) = MapResources(o)
    BY DEF ApiResources, MapResources
  <1> DEFINE r == o[1]
             key(k) == IF k \in {"requests.cpu", "limits.cpu"} THEN "cpu" ELSE "memory"
             parsed == [k \in DOMAIN r |-> ForKey(key(k), ParseQuantity(r[k]))]
             kept == {k \in DOMAIN r : ParseQuantity(r[k]) # <<>>}
  <1>1. ApiResources(o) = [k \in {x \in DOMAIN r : parsed[x] # <<>>} |-> parsed[k][1]]
    BY DEF ApiResources, Amounts
  <1>2. MapResources(o) = [k \in kept |-> ForKey(key(k), ParseQuantity(r[k]))[1]]
    BY DEF MapResources, MapQuantity
  <1>3. \A k, q : ForKey(k, q) # <<>> <=> q # <<>>
    BY DEF ForKey
  <1>4. {x \in DOMAIN r : parsed[x] # <<>>} = kept
    <2> HIDE DEF r, key
    <2> QED
      BY <1>3
  <1>5. \A k \in kept : parsed[k] = ForKey(key(k), ParseQuantity(r[k]))
    <2> HIDE DEF r, key
    <2> QED
      OBVIOUS
  <1> HIDE DEF parsed, kept, key, r
  <1> QED
    BY <1>1, <1>2, <1>4, <1>5

\* The two readers of probes find the same handler and the same port, where the
\* port is declared.
LEMMA ProbesAgree ==
  ASSUME NEW p, \A k, l \in DOMAIN p \cap {"exec", "httpGet", "tcpSocket", "grpc"} : k = l, NEW ports
  PROVE  \/ ApiProbe(p, ports) = MapProbe(p, ports)
         \/ ApiProbe(p, ports) # <<>> /\ MapProbe(p, ports) = <<>> /\ ApiProbe(p, ports)[1].port = 0
  <1> DEFINE handlers == {"exec", "httpGet", "tcpSocket", "grpc"}
             a == FirstOf(ApiHandlers, p)
             b == FirstOf(MapHandlers, p)
  <1>1. a = b
    <2>1. /\ DOMAIN ApiHandlers = 1 .. 4
          /\ ApiHandlers[1] = "exec" /\ ApiHandlers[2] = "httpGet" /\ ApiHandlers[3] = "tcpSocket" /\ ApiHandlers[4] = "grpc"
      BY DEF ApiHandlers
    <2>2. /\ DOMAIN MapHandlers = 1 .. 4
          /\ MapHandlers[1] = "httpGet" /\ MapHandlers[2] = "tcpSocket" /\ MapHandlers[3] = "exec" /\ MapHandlers[4] = "grpc"
      BY DEF MapHandlers
    <2>3. \A i \in 1 .. 4 : i = 1 \/ i = 2 \/ i = 3 \/ i = 4
      OBVIOUS
    <2>4. /\ \A i \in DOMAIN ApiHandlers : ApiHandlers[i] \in handlers
          /\ \A h \in handlers : \E i \in DOMAIN ApiHandlers : ApiHandlers[i] = h
      BY <2>1, <2>3
    <2>5. /\ \A i \in DOMAIN MapHandlers : MapHandlers[i] \in handlers
          /\ \A h \in handlers : \E i \in DOMAIN MapHandlers : MapHandlers[i] = h
      BY <2>2, <2>3
    <2>6. DOMAIN ApiHandlers \subseteq Nat /\ DOMAIN MapHandlers \subseteq Nat
      BY <2>1, <2>2
    <2> HIDE DEF handlers
    <2>7. First(ApiHandlers, DOMAIN p) = First(MapHandlers, DOMAIN p)
      <3>1. \A k, l \in DOMAIN p \cap handlers : k = l
        BY DEF handlers
      <3> QED
        BY <2>4, <2>5, <2>6, <3>1, FirstsAgree
    <2> QED
      BY <2>7 DEF FirstOf
  <1> HIDE DEF a, b
  <1>2. CASE a = <<>>
    BY <1>1, <1>2 DEF ApiProbe, MapProbe, a, b
  <1>3. CASE a # <<>> /\ a[1] = "exec"
    <2>1. ApiProbe(p, ports) = <<[kind |-> a[1], port |-> 0, timing |-> Timing(p)]>>
      BY <1>3 DEF ApiProbe, a
    <2>2. MapProbe(p, ports) = <<[kind |-> a[1], port |-> 0, timing |-> Timing(p)]>>
      BY <1>1, <1>3 DEF MapProbe, b
    <2> QED
      BY <2>1, <2>2
  <1>4. CASE a # <<>> /\ a[1] # "exec"
    <2> DEFINE at == p[a[1]]
               named == Declared(ports, at.name)
    <2>1. ApiProbe(p, ports) = <<[kind |-> a[1], port |-> ApiPort(at, ports), timing |-> Timing(p)]>>
      BY <1>4 DEF ApiProbe, a
    <2>2. MapProbe(p, ports) = IF MapPort(at, ports) = <<>> THEN <<>>
                               ELSE <<[kind |-> a[1], port |-> MapPort(at, ports)[1], timing |-> Timing(p)]>>
      BY <1>1, <1>4 DEF MapProbe, b
    <2>3. \/ MapPort(at, ports) = <<ApiPort(at, ports)>>
          \/ MapPort(at, ports) = <<>> /\ ApiPort(at, ports) = 0
      <3> HIDE DEF at
      <3> QED
        BY DEF MapPort, ApiPort
    <2> HIDE DEF at
    <2> QED
      BY <2>1, <2>2, <2>3
  <1> QED
    BY <1>2, <1>3, <1>4


\* What the JSON watcher reads of a container it reads as the watcher of typed
\* objects does, but for the probe of a port that nobody declares.
ProbeLeftOut(a, b, f) == f = "probe" /\ a[f] # <<>> /\ b[f] = <<>> /\ a[f][1].port = 0

LEMMA MapContainerAgrees ==
  ASSUME NEW m, SpecAdmitted(m), NEW f \in MapContainerReads
  PROVE  MapContainer(m)[f] = ApiContainer(m)[f] \/ ProbeLeftOut(ApiContainer(m), MapContainer(m), f)
  <1> DEFINE o == Get(m, f)
             Special == {"imagePullPolicy", "resources", "container.restartPolicy", "env", "probe"}
  <1>1. f \in ContainerFields /\ f \notin {"hook", "stdinOnce"}
    BY DEF MapContainerReads, MapSecurityReads, ContainerFields, Security, Profiles
  <1>2. CASE f \notin Special
    <2>1. ApiContainer(m)[f] = o
      BY <1>1, <1>2 DEF ApiContainer
    <2>2. MapContainer(m)[f] = o
      BY <1>1, <1>2 DEF MapContainer
    <2> QED
      BY <2>1, <2>2
  <1>3. CASE f = "imagePullPolicy"
    <2>1. ApiContainer(m)[f] = PullPolicy(o)
      BY <1>1, <1>3 DEF ApiContainer
    <2>2. MapContainer(m)[f] = PullPolicy(o)
      BY <1>1, <1>3 DEF MapContainer
    <2> QED
      BY <2>1, <2>2
  <1>4. CASE f = "resources"
    <2>1. ApiContainer(m)[f] = ApiResources(o)
      BY <1>1, <1>4 DEF ApiContainer
    <2>2. MapContainer(m)[f] = MapResources(o)
      BY <1>1, <1>4 DEF MapContainer
    <2> QED
      BY <2>1, <2>2, ResourcesAgree
  <1>5. CASE f = "container.restartPolicy"
    <2>1. ApiContainer(m)[f] = ApiRestart(o)
      BY <1>1, <1>5 DEF ApiContainer
    <2>2. MapContainer(m)[f] = MapRestart(o)
      BY <1>1, <1>5 DEF MapContainer
    <2>3. o = <<>> \/ o \in {<<"Never">>, <<"OnFailure">>, <<"Always">>}
      BY <1>5 DEF Get, SpecAdmitted
    <2>4. MapRestart(o) = ApiRestart(o)
      <3> HIDE DEF o
      <3> QED
        BY <2>3 DEF MapRestart, ApiRestart, RestartPolicy
    <2> QED
      BY <2>1, <2>2, <2>4
  <1>6. CASE f = "env"
    <2>1. ApiContainer(m)[f] = IF o = <<>> THEN <<>> ELSE ApiEnv(o[1])
      BY <1>1, <1>6 DEF ApiContainer
    <2>2. MapContainer(m)[f] = IF o = <<>> THEN <<>> ELSE MapEnv(o[1])
      BY <1>1, <1>6 DEF MapContainer
    <2> QED
      BY <2>1, <2>2 DEF ApiEnv, MapEnv
  <1>7. CASE f = "probe"
    <2>1. ApiContainer(m)[f] = IF o = <<>> THEN <<>> ELSE ApiProbe(o[1], Ports(m))
      BY <1>1, <1>7 DEF ApiContainer
    <2>2. MapContainer(m)[f] = IF o = <<>> THEN <<>> ELSE MapProbe(o[1], Ports(m))
      BY <1>1, <1>7 DEF MapContainer
    <2>3. o # <<>> => \A k, l \in DOMAIN o[1] \cap {"exec", "httpGet", "tcpSocket", "grpc"} : k = l
      BY <1>7 DEF Get, SpecAdmitted
    <2> HIDE DEF o
    <2>4. CASE o = <<>>
      BY <2>1, <2>2, <2>4
    <2>5. CASE o # <<>>
      <3>1. \/ ApiProbe(o[1], Ports(m)) = MapProbe(o[1], Ports(m))
            \/ /\ ApiProbe(o[1], Ports(m)) # <<>>
               /\ MapProbe(o[1], Ports(m)) = <<>>
               /\ ApiProbe(o[1], Ports(m))[1].port = 0
        BY <2>3, <2>5, ProbesAgree
      <3> QED
        BY <1>7, <2>1, <2>2, <2>5, <3>1 DEF ProbeLeftOut
    <2> QED
      BY <2>4, <2>5
  <1> QED
    BY <1>2, <1>3, <1>4, <1>5, <1>6, <1>7

\* The readers of files and of an endpoint read their part as the watcher does.
LEMMA OthersAgree ==
  ASSUME NEW m
  PROVE  /\ \A f \in FileContainerReads : FileContainer(m)[f] = ApiContainer(m)[f]
         /\ \A f \in UrlContainerReads : UrlContainer(m)[f] = ApiContainer(m)[f]
  <1>1. ASSUME NEW f \in FileContainerReads
        PROVE  FileContainer(m)[f] = ApiContainer(m)[f]
    <2>1. f \in ContainerFields /\ f \notin {"resources", "container.restartPolicy", "env", "probe", "hook", "stdinOnce"}
      BY DEF FileContainerReads, ContainerFields
    <2>2. ApiContainer(m)[f] = IF f = "imagePullPolicy" THEN PullPolicy(Get(m, f)) ELSE Get(m, f)
      BY <2>1 DEF ApiContainer
    <2>3. FileContainer(m)[f] = IF f = "imagePullPolicy" THEN PullPolicy(Get(m, f)) ELSE Get(m, f)
      BY <2>1 DEF FileContainer
    <2> QED
      BY <2>2, <2>3
  <1>2. ASSUME NEW f \in UrlContainerReads
        PROVE  UrlContainer(m)[f] = ApiContainer(m)[f]
    <2> DEFINE o == Get(m, f)
    <2>1. f \in ContainerFields /\ f \notin {"resources", "container.restartPolicy", "probe", "hook", "stdinOnce"}
      BY DEF UrlContainerReads, ContainerFields, Security
    <2>2. CASE f = "imagePullPolicy"
      <3>1. ApiContainer(m)[f] = PullPolicy(o)
        BY <2>1, <2>2 DEF ApiContainer
      <3>2. UrlContainer(m)[f] = PullPolicy(o)
        BY <2>1, <2>2 DEF UrlContainer
      <3> QED
        BY <3>1, <3>2
    <2>3. CASE f = "env"
      <3>1. ApiContainer(m)[f] = IF o = <<>> THEN <<>> ELSE ApiEnv(o[1])
        BY <2>1, <2>3 DEF ApiContainer
      <3>2. UrlContainer(m)[f] = IF o = <<>> THEN <<>> ELSE ApiEnv(o[1])
        BY <2>1, <2>3 DEF UrlContainer
      <3> QED
        BY <3>1, <3>2
    <2>4. CASE f \notin {"imagePullPolicy", "env"}
      <3>1. ApiContainer(m)[f] = o
        BY <2>1, <2>4 DEF ApiContainer
      <3>2. UrlContainer(m)[f] = o
        BY <2>1, <2>4 DEF UrlContainer
      <3> QED
        BY <3>1, <3>2
    <2> QED
      BY <2>2, <2>3, <2>4
  <1> QED
    BY <1>1, <1>2

\* A volume that two know is the same volume.
LEMMA VolumesAgree ==
  ASSUME NEW v, \A k, l \in DOMAIN v : k = l, NEW s, NEW t, DOMAIN s \subseteq Nat, DOMAIN t \subseteq Nat, NEW p, NEW q,
         Volume(v, s, p) # <<>>, Volume(v, t, q) # <<>>
  PROVE  [Volume(v, s, p)[1] EXCEPT !.parts = <<>>] = [Volume(v, t, q)[1] EXCEPT !.parts = <<>>]
  <1> DEFINE kind == FirstOf(s, v)[1]
             object == kind \in {"configMap", "secret"}
             name == IF object THEN Or(Get(v[kind], "name"), "") ELSE ""
             optional == object /\ Or(Get(v[kind], "optional"), FALSE)
             readOnly == kind = "persistentVolumeClaim" /\ Or(Get(v[kind], "readOnly"), FALSE)
             items == IF object THEN Get(v[kind], "items") ELSE <<>>
             mode == IF kind \in {"configMap", "secret", "projected", "downwardAPI"} THEN Get(v[kind], "defaultMode") ELSE <<>>
             of(x) == [kind |-> kind, name |-> name, optional |-> optional, readOnly |-> readOnly, items |-> items,
                       mode |-> mode, parts |-> x]
             parts(x) == IF kind = "projected" THEN FirstOf(x, v["projected"]) ELSE <<>>
  <1>1. FirstOf(s, v) # <<>> /\ FirstOf(t, v) # <<>>
    BY DEF Volume
  <1>2. FirstOf(t, v) = FirstOf(s, v)
    BY <1>1, FirstOfOne
  <1>3. Volume(v, s, p) = <<of(parts(p))>>
    BY <1>1 DEF Volume
  <1>4. Volume(v, t, q) = <<of(parts(q))>>
    <2>1. Volume(v, t, q) = Volume(v, s, q)
      BY <1>2 DEF Volume
    <2>2. Volume(v, s, q) = <<of(parts(q))>>
      BY <1>1 DEF Volume
    <2> QED
      BY <2>1, <2>2
  <1> HIDE DEF kind, name, optional, readOnly, items, mode, parts
  <1>5. \A x, y : [of(x) EXCEPT !.parts = <<>>] = [of(y) EXCEPT !.parts = <<>>]
    OBVIOUS
  <1> HIDE DEF of
  <1> QED
    BY <1>3, <1>4, <1>5


\* What a converter s makes of manifest m, as far as others do so, too.
PodOfManifest(c, s, m) ==
  \E account : \A f \in PodReads(s) :
    \/ c.pod[f] = Pod(m, PodReads(s), account)[f]
    \/ s = "map" /\ f = "dnsConfig" /\ DnsPolicy(Get(m, "dnsPolicy")) = "ClusterFirst"
ContainerOfManifest(c, s, m) ==
  \A f \in ContainerReads(s) :
    \/ c.container[f] = ApiContainer(m)[f]
    \/ s = "map" /\ ProbeLeftOut(ApiContainer(m), c.container, f)
VolumeOfManifest(c, m) ==
  \/ c.volumes = <<>>
  \/ "volume" \in DOMAIN m /\ \E order, parts : DOMAIN order \subseteq Nat /\ c.volumes = Volume(m["volume"], order, parts)
NamesOfManifest(c, m) ==
  /\ "uid" \in DOMAIN m => c.uid = m["uid"]
  /\ "namespace" \in DOMAIN m => c.namespace = m["namespace"]
  /\ "name" \in DOMAIN m => c.name[1] = m["name"]

\* Each of the four does.
LEMMA ApiConverts ==
  ASSUME NEW m, ApiSpec(m) # <<>>
  PROVE  LET c == ApiSpec(m)[1]
         IN  NamesOfManifest(c, m) /\ PodOfManifest(c, "api", m) /\ ContainerOfManifest(c, "api", m) /\ VolumeOfManifest(c, m)
  <1> DEFINE c == ApiSpec(m)[1]
  <1>1. /\ {"uid", "name"} \subseteq DOMAIN m /\ c.uid = m["uid"] /\ c.name = <<m["name"]>>
        /\ c.namespace = Or(Get(m, "namespace"), "default")
        /\ c.pod = Pod(m, ApiPodReads, "") /\ c.container = ApiContainer(m) /\ c.volumes = Volumes(m, ApiVolume)
    BY DEF ApiSpec
  <1> HIDE DEF c
  <1>2. NamesOfManifest(c, m)
    <2>1. "uid" \in DOMAIN m => c.uid = m["uid"]
      BY <1>1 DEF Or, Get
    <2>2. "namespace" \in DOMAIN m => c.namespace = m["namespace"]
      <3>1. c.namespace = Or(Get(m, "namespace"), "default")
        BY <1>1
      <3> QED
        BY <3>1 DEF Or, Get
    <2>3. "name" \in DOMAIN m => c.name[1] = m["name"]
      <3>1. c.name = <<m["name"]>>
        BY <1>1
      <3> QED
        BY <3>1 DEF Or, Get
    <2> QED
      BY <2>1, <2>2, <2>3 DEF NamesOfManifest
  <1>3. PodOfManifest(c, "api", m)
    <2>1. PodReads("api") = ApiPodReads
      BY DEF PodReads
    <2>2. \A f \in ApiPodReads : c.pod[f] = Pod(m, ApiPodReads, "")[f]
      BY <1>1
    <2> QED
      BY <2>1, <2>2 DEF PodOfManifest
  <1>4. ContainerOfManifest(c, "api", m)
    BY <1>1 DEF ContainerOfManifest
  <1>5. VolumeOfManifest(c, m)
    <2> DEFINE order == <<"hostPath", "emptyDir", "configMap", "secret", "persistentVolumeClaim", "projected", "downwardAPI">>
    <2>1. DOMAIN order \subseteq Nat
      OBVIOUS
    <2>2. c.volumes = IF "volume" \in DOMAIN m THEN Volume(m["volume"], order, ApiParts) ELSE <<>>
      BY <1>1 DEF Volumes, ApiVolume
    <2> HIDE DEF order
    <2> QED
      BY <2>1, <2>2 DEF VolumeOfManifest
  <1> QED
    BY <1>2, <1>3, <1>4, <1>5 DEF c

LEMMA MapConverts ==
  ASSUME NEW m, SpecAdmitted(m), MapSpec(m) # <<>>
  PROVE  LET c == MapSpec(m)[1]
         IN  NamesOfManifest(c, m) /\ PodOfManifest(c, "map", m) /\ ContainerOfManifest(c, "map", m) /\ VolumeOfManifest(c, m)
  <1> DEFINE c == MapSpec(m)[1]
  <1>1. /\ {"uid", "name"} \subseteq DOMAIN m /\ c.uid = m["uid"] /\ c.name = <<m["name"]>>
        /\ c.namespace = Or(Get(m, "namespace"), "default")
        /\ c.pod = MapPod(m) /\ c.container = MapContainer(m) /\ c.volumes = Volumes(m, MapVolume)
    BY DEF MapSpec
  <1> HIDE DEF c
  <1>2. NamesOfManifest(c, m)
    <2>1. "uid" \in DOMAIN m => c.uid = m["uid"]
      BY <1>1 DEF Or, Get
    <2>2. "namespace" \in DOMAIN m => c.namespace = m["namespace"]
      <3>1. c.namespace = Or(Get(m, "namespace"), "default")
        BY <1>1
      <3> QED
        BY <3>1 DEF Or, Get
    <2>3. "name" \in DOMAIN m => c.name[1] = m["name"]
      <3>1. c.name = <<m["name"]>>
        BY <1>1
      <3> QED
        BY <3>1 DEF Or, Get
    <2> QED
      BY <2>1, <2>2, <2>3 DEF NamesOfManifest
  <1>3. PodOfManifest(c, "map", m)
    <2>1. PodReads("map") = MapPodReads
      BY DEF PodReads
    <2>2. ASSUME NEW f \in MapPodReads
          PROVE  \/ c.pod[f] = Pod(m, MapPodReads, "default")[f]
                 \/ f = "dnsConfig" /\ DnsPolicy(Get(m, "dnsPolicy")) = "ClusterFirst"
      <3>1. DOMAIN Pod(m, MapPodReads, "default") = PodFields
        BY DEF Pod
      <3>2. f \in PodFields
        BY DEF MapPodReads, MapPodSecurityReads, PodSecurity, PodFields
      <3> QED
        BY <1>1, <3>1, <3>2 DEF MapPod
    <2> QED
      BY <2>1, <2>2 DEF PodOfManifest
  <1>4. ContainerOfManifest(c, "map", m)
    <2>1. ContainerReads("map") = MapContainerReads
      BY DEF ContainerReads
    <2> QED
      BY <1>1, <2>1, MapContainerAgrees DEF ContainerOfManifest
  <1>5. VolumeOfManifest(c, m)
    <2> DEFINE order == <<"hostPath", "emptyDir", "configMap", "secret", "persistentVolumeClaim", "projected", "downwardAPI", "nfs">>
    <2>1. DOMAIN order \subseteq Nat
      OBVIOUS
    <2>2. c.volumes = IF "volume" \in DOMAIN m THEN Volume(m["volume"], order, MapParts) ELSE <<>>
      BY <1>1 DEF Volumes, MapVolume
    <2> HIDE DEF order
    <2> QED
      BY <2>1, <2>2 DEF VolumeOfManifest
  <1> QED
    BY <1>2, <1>3, <1>4, <1>5 DEF c

LEMMA FileConverts ==
  ASSUME NEW m
  PROVE  LET c == FileSpec(m)[1]
         IN  NamesOfManifest(c, m) /\ PodOfManifest(c, "file", m) /\ ContainerOfManifest(c, "file", m) /\ VolumeOfManifest(c, m)
  <1> DEFINE c == FileSpec(m)[1]
  <1>1. /\ c.uid = Or(Get(m, "uid"), "of the path") /\ c.name = <<Or(Get(m, "name"), "of the file"), Node>>
        /\ c.namespace = Or(Get(m, "namespace"), "default")
        /\ c.pod = Pod(m, FilePodReads, "default") /\ c.container = FileContainer(m) /\ c.volumes = Volumes(m, FileVolume)
    BY DEF FileSpec
  <1> HIDE DEF c
  <1>2. NamesOfManifest(c, m)
    <2>1. "uid" \in DOMAIN m => c.uid = m["uid"]
      BY <1>1 DEF Or, Get
    <2>2. "namespace" \in DOMAIN m => c.namespace = m["namespace"]
      <3>1. c.namespace = Or(Get(m, "namespace"), "default")
        BY <1>1
      <3> QED
        BY <3>1 DEF Or, Get
    <2>3. "name" \in DOMAIN m => c.name[1] = m["name"]
      <3>1. c.name = <<Or(Get(m, "name"), "of the file"), Node>>
        BY <1>1
      <3> QED
        BY <3>1 DEF Or, Get
    <2> QED
      BY <2>1, <2>2, <2>3 DEF NamesOfManifest
  <1>3. PodOfManifest(c, "file", m)
    <2>1. PodReads("file") = FilePodReads
      BY DEF PodReads
    <2>2. \A f \in FilePodReads : c.pod[f] = Pod(m, FilePodReads, "default")[f]
      BY <1>1
    <2> QED
      BY <2>1, <2>2 DEF PodOfManifest
  <1>4. ContainerOfManifest(c, "file", m)
    <2>1. ContainerReads("file") = FileContainerReads
      BY DEF ContainerReads
    <2> QED
      BY <1>1, <2>1, OthersAgree DEF ContainerOfManifest
  <1>5. VolumeOfManifest(c, m)
    <2>1. DOMAIN FileKinds \subseteq Nat
      BY DEF FileKinds
    <2>2. c.volumes = IF "volume" \in DOMAIN m THEN Volume(m["volume"], FileKinds, <<"serviceAccountToken", "configMap", "secret">>)
                      ELSE <<>>
      BY <1>1 DEF Volumes, FileVolume
    <2> QED
      BY <2>1, <2>2 DEF VolumeOfManifest
  <1> QED
    BY <1>2, <1>3, <1>4, <1>5 DEF c

LEMMA UrlConverts ==
  ASSUME NEW m
  PROVE  LET c == UrlSpec(m)[1]
         IN  NamesOfManifest(c, m) /\ PodOfManifest(c, "url", m) /\ ContainerOfManifest(c, "url", m) /\ VolumeOfManifest(c, m)
  <1> DEFINE c == UrlSpec(m)[1]
  <1>1. /\ c.uid = Or(Get(m, "uid"), "of the name") /\ c.name = <<Or(Get(m, "name"), "unknown"), Node>>
        /\ c.namespace = Or(Get(m, "namespace"), "kube-system")
        /\ c.pod = Pod(m, UrlPodReads, "default") /\ c.container = UrlContainer(m) /\ c.volumes = Volumes(m, UrlVolume)
    BY DEF UrlSpec
  <1> HIDE DEF c
  <1>2. NamesOfManifest(c, m)
    <2>1. "uid" \in DOMAIN m => c.uid = m["uid"]
      BY <1>1 DEF Or, Get
    <2>2. "namespace" \in DOMAIN m => c.namespace = m["namespace"]
      <3>1. c.namespace = Or(Get(m, "namespace"), "kube-system")
        BY <1>1
      <3> QED
        BY <3>1 DEF Or, Get
    <2>3. "name" \in DOMAIN m => c.name[1] = m["name"]
      <3>1. c.name = <<Or(Get(m, "name"), "unknown"), Node>>
        BY <1>1
      <3> QED
        BY <3>1 DEF Or, Get
    <2> QED
      BY <2>1, <2>2, <2>3 DEF NamesOfManifest
  <1>3. PodOfManifest(c, "url", m)
    <2>1. PodReads("url") = UrlPodReads
      BY DEF PodReads
    <2>2. \A f \in UrlPodReads : c.pod[f] = Pod(m, UrlPodReads, "default")[f]
      BY <1>1
    <2> QED
      BY <2>1, <2>2 DEF PodOfManifest
  <1>4. ContainerOfManifest(c, "url", m)
    <2>1. ContainerReads("url") = UrlContainerReads
      BY DEF ContainerReads
    <2> QED
      BY <1>1, <2>1, OthersAgree DEF ContainerOfManifest
  <1>5. VolumeOfManifest(c, m)
    <2>1. DOMAIN UrlKinds \subseteq Nat
      BY DEF UrlKinds
    <2>2. c.volumes = IF "volume" \in DOMAIN m THEN Volume(m["volume"], UrlKinds, <<"serviceAccountToken", "configMap", "secret">>)
                      ELSE <<>>
      BY <1>1 DEF Volumes, UrlVolume
    <2> QED
      BY <2>1, <2>2 DEF VolumeOfManifest
  <1> QED
    BY <1>2, <1>3, <1>4, <1>5 DEF c

LEMMA Converts ==
  ASSUME NEW m, SpecAdmitted(m), NEW s \in Sources, Convert(s, m) # <<>>
  PROVE  LET c == Convert(s, m)[1]
         IN  NamesOfManifest(c, m) /\ PodOfManifest(c, s, m) /\ ContainerOfManifest(c, s, m) /\ VolumeOfManifest(c, m)
  <1>1. CASE s = "api"
    <2>1. Convert(s, m) = ApiSpec(m)
      BY <1>1 DEF Convert
    <2> QED
      BY <1>1, <2>1, ApiConverts
  <1>2. CASE s = "map"
    <2>1. Convert(s, m) = MapSpec(m)
      BY <1>2 DEF Convert
    <2> QED
      BY <1>2, <2>1, MapConverts
  <1>3. CASE s = "file"
    <2>1. Convert(s, m) = FileSpec(m)
      BY <1>3 DEF Convert
    <2> QED
      BY <1>3, <2>1, FileConverts
  <1>4. CASE s = "url"
    <2>1. Convert(s, m) = UrlSpec(m)
      BY <1>4 DEF Convert
    <2> QED
      BY <1>4, <2>1, UrlConverts
  <1> QED
    BY <1>1, <1>2, <1>3, <1>4 DEF Sources

\* What converters s and t make of manifest m is the same pod.
Alike(a, b, s, t, m) ==
  /\ {"uid", "namespace"} \subseteq DOMAIN m => a.uid = b.uid /\ a.namespace = b.namespace
  /\ "name" \in DOMAIN m => a.name[1] = b.name[1]
  /\ \A f \in PodReads(s) \cap PodReads(t) :
       \/ a.pod[f] = b.pod[f]
       \/ f = "serviceAccountName" /\ f \notin DOMAIN m
       \/ f = "dnsConfig" /\ "map" \in {s, t} /\ a.pod["dnsPolicy"] = "ClusterFirst"
  /\ \A f \in ContainerReads(s) \cap ContainerReads(t) :
       a.container[f] = b.container[f] \/ (f = "probe" /\ a.container[f] # <<>> /\ b.container[f] = <<>> /\ a.container[f][1].port = 0)
  /\ (a.volumes # <<>> /\ b.volumes # <<>>) => [a.volumes[1] EXCEPT !.parts = <<>>] = [b.volumes[1] EXCEPT !.parts = <<>>]

LEMMA ReadsAreFields ==
  ASSUME NEW s \in Sources
  PROVE  /\ PodReads(s) \subseteq PodFields
         /\ "dnsConfig" \in PodReads(s) => "dnsPolicy" \in PodReads(s)
  BY DEF Sources, PodReads, ApiPodReads, MapPodReads, MapPodSecurityReads, FilePodReads, UrlPodReads, PodFields, PodSecurity, Flags

LEMMA ConvertAlike ==
  ASSUME NEW m, NEW s \in Sources \ {"map"}, NEW t \in Sources, NEW a, NEW b, SpecAdmitted(m),
         NamesOfManifest(a, m), PodOfManifest(a, s, m), ContainerOfManifest(a, s, m), VolumeOfManifest(a, m),
         NamesOfManifest(b, m), PodOfManifest(b, t, m), ContainerOfManifest(b, t, m), VolumeOfManifest(b, m)
  PROVE  Alike(a, b, s, t, m)
  <1>1. /\ {"uid", "namespace"} \subseteq DOMAIN m => a.uid = b.uid /\ a.namespace = b.namespace
        /\ "name" \in DOMAIN m => a.name[1] = b.name[1]
    BY DEF NamesOfManifest
  <1>2. ASSUME NEW f \in PodReads(s), f \in PodReads(t)
        PROVE  \/ a.pod[f] = b.pod[f]
               \/ f = "serviceAccountName" /\ f \notin DOMAIN m
               \/ f = "dnsConfig" /\ "map" \in {s, t} /\ a.pod["dnsPolicy"] = "ClusterFirst"
    <2>1. PICK account : \A g \in PodReads(s) : a.pod[g] = Pod(m, PodReads(s), account)[g]
      BY DEF PodOfManifest
    <2>2. PICK other : \A g \in PodReads(t) :
                         \/ b.pod[g] = Pod(m, PodReads(t), other)[g]
                         \/ t = "map" /\ g = "dnsConfig" /\ DnsPolicy(Get(m, "dnsPolicy")) = "ClusterFirst"
      BY DEF PodOfManifest
    <2>3. f \in PodFields /\ PodReads(s) \subseteq PodFields
      BY ReadsAreFields
    <2>4. CASE b.pod[f] = Pod(m, PodReads(t), other)[f]
      <3>1. a.pod[f] = Pod(m, PodReads(s), account)[f]
        BY <2>1
      <3>2. \/ Pod(m, PodReads(s), account)[f] = Pod(m, PodReads(t), other)[f]
            \/ f = "serviceAccountName" /\ f \notin DOMAIN m
        BY <1>2, <2>3, PodsAgree
      <3> QED
        BY <2>4, <3>1, <3>2
    <2>5. CASE t = "map" /\ f = "dnsConfig" /\ DnsPolicy(Get(m, "dnsPolicy")) = "ClusterFirst"
      <3>1. "dnsPolicy" \in PodReads(s)
        BY <1>2, <2>5, ReadsAreFields
      <3>2. a.pod["dnsPolicy"] = Pod(m, PodReads(s), account)["dnsPolicy"]
        BY <2>1, <3>1
      <3>3. Pod(m, PodReads(s), account)["dnsPolicy"] = PodField("dnsPolicy", Get(m, "dnsPolicy"), account)
        BY <2>3, <3>1 DEF Pod
      <3>4. PodField("dnsPolicy", Get(m, "dnsPolicy"), account) = DnsPolicy(Get(m, "dnsPolicy"))
        <4>1. ASSUME NEW g, g = "dnsPolicy"
              PROVE  \A o : PodField(g, o, account) = DnsPolicy(o)
          BY <4>1 DEF PodField, Flags
        <4> QED
          BY <4>1
      <3>5. a.pod["dnsPolicy"] = "ClusterFirst"
        BY <2>5, <3>2, <3>3, <3>4
      <3> QED
        BY <2>5, <3>5
    <2> QED
      BY <1>2, <2>2, <2>4, <2>5
  <1>3. ASSUME NEW f \in ContainerReads(s), f \in ContainerReads(t)
        PROVE  \/ a.container[f] = b.container[f]
               \/ f = "probe" /\ a.container[f] # <<>> /\ b.container[f] = <<>> /\ a.container[f][1].port = 0
    <2>1. a.container[f] = ApiContainer(m)[f]
      BY <1>3 DEF ContainerOfManifest
    <2>2. b.container[f] = ApiContainer(m)[f] \/ ProbeLeftOut(ApiContainer(m), b.container, f)
      BY <1>3 DEF ContainerOfManifest
    <2> QED
      BY <2>1, <2>2 DEF ProbeLeftOut
  <1>4. ASSUME a.volumes # <<>>, b.volumes # <<>>
        PROVE  [a.volumes[1] EXCEPT !.parts = <<>>] = [b.volumes[1] EXCEPT !.parts = <<>>]
    <2>1. PICK o, p : "volume" \in DOMAIN m /\ DOMAIN o \subseteq Nat /\ a.volumes = Volume(m["volume"], o, p)
      BY <1>4 DEF VolumeOfManifest
    <2>2. PICK q, r : DOMAIN q \subseteq Nat /\ b.volumes = Volume(m["volume"], q, r)
      BY <1>4 DEF VolumeOfManifest
    <2>3. \A k, l \in DOMAIN m["volume"] : k = l
      BY <2>1 DEF SpecAdmitted
    <2> DEFINE v == m["volume"]
    <2>4. [Volume(v, o, p)[1] EXCEPT !.parts = <<>>] = [Volume(v, q, r)[1] EXCEPT !.parts = <<>>]
      <3>1. Volume(v, o, p) # <<>> /\ Volume(v, q, r) # <<>> /\ DOMAIN o \subseteq Nat /\ DOMAIN q \subseteq Nat
        BY <1>4, <2>1, <2>2
      <3>2. \A k, l \in DOMAIN v : k = l
        BY <2>3
      <3> HIDE DEF v
      <3> QED
        BY <3>1, <3>2, VolumesAgree
    <2> QED
      BY <2>1, <2>2, <2>4
  <1> QED
    BY <1>1, <1>2, <1>3, <1>4 DEF Alike

LEMMA AdmittedAlike ==
  ASSUME NEW m, SpecAdmitted(m), NEW s \in Sources \ {"map"}, NEW t \in Sources, Convert(s, m) # <<>>, Convert(t, m) # <<>>
  PROVE  Alike(Convert(s, m)[1], Convert(t, m)[1], s, t, m)
  <1> DEFINE a == Convert(s, m)[1]
             b == Convert(t, m)[1]
  <1>1. NamesOfManifest(a, m) /\ PodOfManifest(a, s, m) /\ ContainerOfManifest(a, s, m) /\ VolumeOfManifest(a, m)
    BY Converts
  <1>2. NamesOfManifest(b, m) /\ PodOfManifest(b, t, m) /\ ContainerOfManifest(b, t, m) /\ VolumeOfManifest(b, m)
    BY Converts
  <1> HIDE DEF a, b
  <1>3. Alike(a, b, s, t, m)
    BY <1>1, <1>2, ConvertAlike
  <1> QED
    BY <1>3 DEF a, b


\* Division without a rest is undone by the product.
LEMMA Divided ==
  ASSUME NEW n \in Nat, NEW u \in Nat \ {0}, n % u = 0
  PROVE  n \div u \in Nat /\ (n \div u) * u = n
  <1>1. n = u * (n \div u) + (n % u) /\ n \div u \in Int
    OBVIOUS
  <1>2. n \div u >= 0
    OBVIOUS
  <1> QED
    BY <1>1, <1>2

LEMMA UnitsPositive ==
  ASSUME NEW suffix
  PROVE  Units(suffix) \in Nat \ {0}
  <1>1. \A a, b \in Nat \ {0} : a * b \in Nat \ {0}
    OBVIOUS
  <1>2. Ki \in Nat \ {0} /\ Kilo \in Nat \ {0}
    BY UnitsAssumption
  <1>3. Ki * Ki \in Nat \ {0} /\ Kilo * Kilo \in Nat \ {0}
    BY <1>1, <1>2
  <1>4. Ki * Ki * Ki \in Nat \ {0} /\ Kilo * Kilo * Kilo \in Nat \ {0}
    BY <1>1, <1>2, <1>3
  <1>5. Ki * Ki * Ki * Ki \in Nat \ {0}
    BY <1>1, <1>2, <1>4
  <1> QED
    BY <1>2, <1>3, <1>4, <1>5 DEF Units

LEMMA BoundedIs ==
  ASSUME NEW n \in Nat
  PROVE  Bounded(n) \in 0 .. MaxLong /\ (n =< MaxLong => Bounded(n) = n)
  BY UnitsAssumption DEF Bounded

\* What an amount is written as is read as the amount.
LEMMA ThousandthsAreKept ==
  ASSUME NEW n \in 0 .. MaxLong
  PROVE  LET back == ForKey("cpu", ParseQuantity(FormatQuantity([value |-> n, unit |-> "millicores"])))
         IN  back # <<>> /\ back[1].value = n
  <1> DEFINE q == [value |-> n, unit |-> "millicores"]
  <1>0. n \in Nat /\ MaxLong \in Nat
    BY UnitsAssumption
  <1>1. CASE n % 1000 = 0
    <2>1. n \div 1000 \in Nat /\ (n \div 1000) * 1000 = n
      BY <1>0, <1>1, Divided
    <2>2. FormatQuantity(q) = [num |-> n \div 1000, suffix |-> ""]
      BY <1>1 DEF FormatQuantity
    <2> DEFINE d == n \div 1000
    <2>3. d \in Nat /\ d * 1000 = n
      BY <2>1
    <2>4. FormatQuantity(q) = [num |-> d, suffix |-> ""]
      BY <2>2
    <2> HIDE DEF d, q
    <2>5. ParseQuantity([num |-> d, suffix |-> ""]) = <<[value |-> d, unit |-> "count"]>>
      BY DEF ParseQuantity, ByteSuffixes
    <2>6. ForKey("cpu", <<[value |-> d, unit |-> "count"]>>) = <<[value |-> Bounded(d * 1000), unit |-> "millicores"]>>
      BY DEF ForKey
    <2>7. Bounded(d * 1000) = n
      BY <1>0, <2>3, BoundedIs
    <2>8. ForKey("cpu", <<[value |-> d, unit |-> "count"]>>) = <<[value |-> n, unit |-> "millicores"]>>
      BY <2>6, <2>7, Zenon
    <2>9. ParseQuantity(FormatQuantity(q)) = <<[value |-> d, unit |-> "count"]>>
      BY <2>4, <2>5, Zenon
    <2>10. ForKey("cpu", ParseQuantity(FormatQuantity(q))) = <<[value |-> n, unit |-> "millicores"]>>
      BY <2>8, <2>9, Zenon
    <2> QED
      BY <2>10 DEF q
  <1>2. CASE n % 1000 # 0
    <2>1. FormatQuantity(q) = [num |-> n, suffix |-> "m"]
      BY <1>2 DEF FormatQuantity
    <2>2. ParseQuantity([num |-> n, suffix |-> "m"]) = <<[value |-> n, unit |-> "millicores"]>>
      BY DEF ParseQuantity, ByteSuffixes
    <2>3. ForKey("cpu", <<[value |-> n, unit |-> "millicores"]>>) = <<[value |-> n, unit |-> "millicores"]>>
      BY DEF ForKey
    <2> QED
      BY <2>1, <2>2, <2>3
  <1> QED
    BY <1>1, <1>2

LEMMA BytesAreKept ==
  ASSUME NEW n \in 0 .. MaxLong
  PROVE  LET back == ForKey("memory", ParseQuantity(FormatQuantity([value |-> n, unit |-> "bytes"])))
         IN  back # <<>> /\ back[1].value = n
  <1> DEFINE q == [value |-> n, unit |-> "bytes"]
  <1>0. n \in Nat /\ MaxLong \in Nat
    BY UnitsAssumption
  <1>1. ASSUME NEW unit \in {"Gi", "Mi", "Ki"}, n % Units(unit) = 0, FormatQuantity(q) = [num |-> n \div Units(unit), suffix |-> unit]
        PROVE  LET back == ForKey("memory", ParseQuantity(FormatQuantity(q))) IN back # <<>> /\ back[1].value = n
    <2> DEFINE u == Units(unit)
               d == n \div u
    <2>1. d \in Nat /\ d * u = n
      BY <1>0, <1>1, Divided, UnitsPositive
    <2>2. ParseQuantity([num |-> d, suffix |-> unit]) = <<[value |-> Bounded(d * u), unit |-> "bytes"]>>
      BY <1>1 DEF ParseQuantity, ByteSuffixes
    <2>3. FormatQuantity(q) = [num |-> d, suffix |-> unit]
      BY <1>1
    <2> HIDE DEF d, u, q
    <2>4. Bounded(d * u) = n
      BY <1>0, <2>1, BoundedIs
    <2>5. ForKey("memory", <<[value |-> n, unit |-> "bytes"]>>) = <<[value |-> n, unit |-> "bytes"]>>
      BY DEF ForKey
    <2> QED
      BY <2>2, <2>3, <2>4, <2>5
  <1>2. ASSUME FormatQuantity(q) = [num |-> n, suffix |-> ""]
        PROVE  LET back == ForKey("memory", ParseQuantity(FormatQuantity(q))) IN back # <<>> /\ back[1].value = n
    <2>1. ParseQuantity([num |-> n, suffix |-> ""]) = <<[value |-> n, unit |-> "count"]>>
      BY DEF ParseQuantity, ByteSuffixes
    <2>2. ForKey("memory", <<[value |-> n, unit |-> "count"]>>) = <<[value |-> n, unit |-> "count"]>>
      BY DEF ForKey
    <2> HIDE DEF q
    <2>3. ForKey("memory", ParseQuantity(FormatQuantity(q))) = <<[value |-> n, unit |-> "count"]>>
      BY <1>2, <2>1, <2>2
    <2> QED
      BY <2>3
  <1>3. CASE n % Units("Gi") = 0
    <2>1. FormatQuantity(q) = [num |-> n \div Units("Gi"), suffix |-> "Gi"]
      BY <1>3 DEF FormatQuantity
    <2> QED
      BY <1>1, <1>3, <2>1
  <1>4. CASE n % Units("Gi") # 0 /\ n % Units("Mi") = 0
    <2>1. FormatQuantity(q) = [num |-> n \div Units("Mi"), suffix |-> "Mi"]
      BY <1>4 DEF FormatQuantity
    <2> QED
      BY <1>1, <1>4, <2>1
  <1>5. CASE n % Units("Gi") # 0 /\ n % Units("Mi") # 0 /\ n % Ki = 0
    <2>1. FormatQuantity(q) = [num |-> n \div Units("Ki"), suffix |-> "Ki"]
      BY <1>5 DEF FormatQuantity
    <2>2. Units("Ki") = Ki
      BY DEF Units
    <2> QED
      BY <1>1, <1>5, <2>1, <2>2
  <1>6. CASE n % Units("Gi") # 0 /\ n % Units("Mi") # 0 /\ n % Ki # 0
    <2>1. FormatQuantity(q) = [num |-> n \div Units(""), suffix |-> ""]
      BY <1>6 DEF FormatQuantity
    <2>2. Units("") = 1
      BY DEF Units
    <2>3. n \div 1 = n
      BY <1>0
    <2> QED
      BY <1>2, <2>1, <2>2, <2>3
  <1> QED
    BY <1>3, <1>4, <1>5, <1>6


LEMMA CountsAreKept ==
  ASSUME NEW n
  PROVE  LET back == ForKey("memory", ParseQuantity(FormatQuantity([value |-> n, unit |-> "count"])))
         IN  back # <<>> /\ back[1].value = n
  <1> DEFINE q == [value |-> n, unit |-> "count"]
  <1>1. FormatQuantity(q) = [num |-> n, suffix |-> ""]
    BY DEF FormatQuantity
  <1>2. ParseQuantity([num |-> n, suffix |-> ""]) = <<[value |-> n, unit |-> "count"]>>
    BY DEF ParseQuantity, ByteSuffixes
  <1>3. ForKey("memory", <<q>>) = <<q>>
    BY DEF ForKey
  <1>4. ForKey("memory", ParseQuantity(FormatQuantity(q))) = <<[value |-> n, unit |-> "count"]>>
    BY <1>1, <1>2, <1>3
  <1> QED
    BY <1>4

\* The key under which the value of k is read.
KeyOf(k) == IF k \in {"requests.cpu", "limits.cpu"} THEN "cpu" ELSE "memory"
\* An amount of key that reads back as it is.
ReadsBack(key, a) ==
  LET back == ForKey(key, ParseQuantity(FormatQuantity(a)))
  IN  back # <<>> /\ back[1].value = a.value

LEMMA CpusReadBack ==
  ASSUME NEW q, q.num \in 0 .. MaxLong, q.suffix \notin ByteSuffixes, ParseQuantity(q) # <<>>
  PROVE  ReadsBack("cpu", ForKey("cpu", ParseQuantity(q))[1])
  <1>0. q.num \in Nat
    BY UnitsAssumption
  <1>1. CASE q.suffix = "m"
    <2>1. ParseQuantity(q) = <<[value |-> q.num, unit |-> "millicores"]>>
      BY <1>1 DEF ParseQuantity, ByteSuffixes
    <2>2. ForKey("cpu", <<[value |-> q.num, unit |-> "millicores"]>>) = <<[value |-> q.num, unit |-> "millicores"]>>
      BY DEF ForKey
    <2>3. ReadsBack("cpu", [value |-> q.num, unit |-> "millicores"])
      BY ThousandthsAreKept DEF ReadsBack
    <2> QED
      BY <2>1, <2>2, <2>3
  <1>2. CASE q.suffix = ""
    <2>1. ParseQuantity(q) = <<[value |-> q.num, unit |-> "count"]>>
      BY <1>2 DEF ParseQuantity, ByteSuffixes
    <2>2. ForKey("cpu", <<[value |-> q.num, unit |-> "count"]>>) = <<[value |-> Bounded(q.num * 1000), unit |-> "millicores"]>>
      BY DEF ForKey
    <2>3. Bounded(q.num * 1000) \in 0 .. MaxLong
      BY <1>0, BoundedIs
    <2>4. ReadsBack("cpu", [value |-> Bounded(q.num * 1000), unit |-> "millicores"])
      BY <2>3, ThousandthsAreKept DEF ReadsBack
    <2> QED
      BY <2>1, <2>2, <2>4
  <1> QED
    BY <1>1, <1>2 DEF ParseQuantity

LEMMA BytesReadBack ==
  ASSUME NEW q, q.num \in 0 .. MaxLong, q.suffix # "m", ParseQuantity(q) # <<>>
  PROVE  ReadsBack("memory", ForKey("memory", ParseQuantity(q))[1])
  <1>0. q.num \in Nat
    BY UnitsAssumption
  <1>1. ForKey("memory", ParseQuantity(q)) = ParseQuantity(q)
    BY DEF ForKey
  <1>2. CASE q.suffix \in ByteSuffixes
    <2> DEFINE n == Bounded(q.num * Units(q.suffix))
    <2>1. ParseQuantity(q) = <<[value |-> n, unit |-> "bytes"]>>
      BY <1>2 DEF ParseQuantity, ByteSuffixes
    <2>2. n \in 0 .. MaxLong
      <3>1. q.num * Units(q.suffix) \in Nat
        BY <1>0, UnitsPositive
      <3> QED
        BY <3>1, BoundedIs
    <2> HIDE DEF n
    <2>3. ReadsBack("memory", [value |-> n, unit |-> "bytes"])
      BY <2>2, BytesAreKept DEF ReadsBack
    <2> QED
      BY <1>1, <2>1, <2>3
  <1>3. CASE q.suffix = ""
    <2>1. ParseQuantity(q) = <<[value |-> q.num, unit |-> "count"]>>
      BY <1>3 DEF ParseQuantity, ByteSuffixes
    <2>2. ReadsBack("memory", [value |-> q.num, unit |-> "count"])
      BY CountsAreKept DEF ReadsBack
    <2> QED
      BY <1>1, <2>1, <2>2
  <1> QED
    BY <1>2, <1>3 DEF ParseQuantity

\* The amounts that manifest m gives the converter s.
LEMMA ResourcesReadBack ==
  ASSUME NEW r, AmountsAdmitted(r), NEW k \in DOMAIN Amounts(r)
  PROVE  ReadsBack(KeyOf(k), Amounts(r)[k])
  <1>1. k \in DOMAIN r /\ ForKey(KeyOf(k), ParseQuantity(r[k])) # <<>>
        /\ Amounts(r)[k] = ForKey(KeyOf(k), ParseQuantity(r[k]))[1]
    BY DEF Amounts, KeyOf
  <1>2. ParseQuantity(r[k]) # <<>>
    BY <1>1 DEF ForKey
  <1>3. r[k].num \in 0 .. MaxLong
    BY <1>1 DEF AmountsAdmitted
  <1>4. CASE k \in {"requests.cpu", "limits.cpu"}
    <2>1. KeyOf(k) = "cpu" /\ r[k].suffix \notin ByteSuffixes
      BY <1>1, <1>4 DEF AmountsAdmitted, KeyOf
    <2> QED
      BY <1>1, <1>2, <1>3, <2>1, CpusReadBack
  <1>5. CASE k \notin {"requests.cpu", "limits.cpu"}
    <2>1. KeyOf(k) = "memory" /\ r[k].suffix # "m"
      BY <1>1, <1>5 DEF AmountsAdmitted, KeyOf
    <2> QED
      BY <1>1, <1>2, <1>3, <2>1, BytesReadBack
  <1> QED
    BY <1>4, <1>5


\* The resources of a spec: those of the manifest, or none.
LEMMA ConvertedResources ==
  ASSUME NEW s \in Sources, NEW m, Convert(s, m) # <<>>
  PROVE  LET given == Convert(s, m)[1].container["resources"]
         IN  given = <<>> \/ ("resources" \in DOMAIN m /\ given = Amounts(m["resources"]))
  <1>0. "resources" \in ContainerFields /\ "resources" \in MapContainerReads /\ "resources" \notin FileContainerReads \cup UrlContainerReads
    BY DEF ContainerFields, MapContainerReads, MapSecurityReads, Security, Profiles, FileContainerReads, UrlContainerReads
  <1>1. ApiContainer(m)["resources"] = ApiResources(Get(m, "resources"))
    <2>1. ASSUME NEW f \in ContainerFields, f = "resources"
          PROVE  ApiContainer(m)[f] = ApiResources(Get(m, f))
      BY <2>1 DEF ApiContainer
    <2> QED
      BY <1>0, <2>1
  <1>2. MapContainer(m)["resources"] = MapResources(Get(m, "resources"))
    <2>1. ASSUME NEW f \in ContainerFields, f = "resources"
          PROVE  MapContainer(m)[f] = MapResources(Get(m, f))
      BY <1>0, <2>1 DEF MapContainer
    <2> QED
      BY <1>0, <2>1
  <1>3. FileContainer(m)["resources"] = <<>>
    BY <1>0 DEF FileContainer
  <1>4. UrlContainer(m)["resources"] = <<>>
    <2>1. ASSUME NEW f \in ContainerFields, f = "resources"
          PROVE  UrlContainer(m)[f] = <<>>
      BY <1>0, <2>1 DEF UrlContainer
    <2> QED
      BY <1>0, <2>1
  <1>5. ApiResources(Get(m, "resources")) = <<>> \/ ("resources" \in DOMAIN m /\ ApiResources(Get(m, "resources")) = Amounts(m["resources"]))
    BY DEF ApiResources, Get
  <1>6. CASE s = "api"
    <2>1. Convert(s, m) = ApiSpec(m)
      BY <1>6 DEF Convert
    <2>2. ApiSpec(m)[1].container = ApiContainer(m)
      BY <2>1 DEF ApiSpec
    <2> QED
      BY <1>1, <1>5, <2>1, <2>2
  <1>7. CASE s = "map"
    <2>1. Convert(s, m) = MapSpec(m)
      BY <1>7 DEF Convert
    <2>2. MapSpec(m)[1].container = MapContainer(m)
      BY <2>1 DEF MapSpec
    <2> QED
      BY <1>2, <1>5, <2>1, <2>2, ResourcesAgree
  <1>8. CASE s = "file"
    <2>1. Convert(s, m) = FileSpec(m)
      BY <1>8 DEF Convert
    <2>2. FileSpec(m)[1].container = FileContainer(m)
      BY DEF FileSpec
    <2> QED
      BY <1>3, <2>1, <2>2
  <1>9. CASE s = "url"
    <2>1. Convert(s, m) = UrlSpec(m)
      BY <1>9 DEF Convert
    <2>2. UrlSpec(m)[1].container = UrlContainer(m)
      BY DEF UrlSpec
    <2> QED
      BY <1>4, <2>1, <2>2
  <1> QED
    BY <1>6, <1>7, <1>8, <1>9 DEF Sources

\* The spec is what its source makes of the manifest, which is as admitted.
SpecInv ==
  /\ source \in Sources
  /\ SpecAdmitted(manifest)
  /\ spec # <<>> => spec = Convert(source, manifest)

LEMMA SpecInvHolds == SpecInv => SpecsKept
  <1> SUFFICES ASSUME SpecInv PROVE SpecsKept
    OBVIOUS
  <1>1. SourcesAgree
    <2>1. ASSUME NEW t \in Sources, source # "map", spec # <<>>, Convert(t, manifest) # <<>>
          PROVE  Alike(spec[1], Convert(t, manifest)[1], source, t, manifest)
      <3>1. spec = Convert(source, manifest) /\ source \in Sources \ {"map"} /\ SpecAdmitted(manifest)
        BY <2>1 DEF SpecInv
      <3>2. Alike(Convert(source, manifest)[1], Convert(t, manifest)[1], source, t, manifest)
        BY <2>1, <3>1, AdmittedAlike
      <3> QED
        BY <3>1, <3>2
    <2> QED
      BY <2>1 DEF SourcesAgree, Alike
  <1>2. QuantityKept
    <2> SUFFICES ASSUME spec # <<>>, NEW k \in DOMAIN ReportedResources
                 PROVE  ReadsBack(KeyOf(k), ContainerOf["resources"][k])
                        /\ ReportedResources[k] = FormatQuantity(ContainerOf["resources"][k])
      BY DEF QuantityKept, ReadsBack, KeyOf
    <2> DEFINE r == ContainerOf["resources"]
    <2>1. k \in DOMAIN r /\ ReportedResources[k] = FormatQuantity(r[k])
      BY DEF ReportedResources
    <2>2. r = <<>> \/ ("resources" \in DOMAIN manifest /\ r = Amounts(manifest["resources"]))
      <3>1. spec = Convert(source, manifest) /\ source \in Sources
        BY DEF SpecInv
      <3> QED
        BY <3>1, ConvertedResources DEF ContainerOf
    <2>3. "resources" \in DOMAIN manifest => AmountsAdmitted(manifest["resources"])
      BY DEF SpecInv, SpecAdmitted
    <2> HIDE DEF r
    <2>4. r # <<>>
      BY <2>1
    <2>5. ReadsBack(KeyOf(k), r[k])
      BY <2>1, <2>2, <2>3, <2>4, ResourcesReadBack
    <2> QED
      BY <2>1, <2>5 DEF r
  <1> QED
    BY <1>1, <1>2 DEF SpecsKept

LEMMA SpecInvInit == Init => SpecInv
  <1> SUFFICES ASSUME Init PROVE SpecInv
    OBVIOUS
  <1>1. source \in Sources /\ manifest \in SpecCases \cup CriCases /\ spec = <<>>
    BY DEF Init, SpecInit, Sources
  <1> QED
    BY <1>1, CasesAssumption DEF SpecInv

LEMMA SpecInvStep == SpecInv /\ [Next]_vars => SpecInv'
  <1> SUFFICES ASSUME SpecInv, [Next]_vars PROVE SpecInv'
    OBVIOUS
  <1>1. ASSUME UNCHANGED specVars
        PROVE  SpecInv'
    BY <1>1 DEF SpecInv, specVars
  <1>2. CASE Receive
    BY <1>2 DEF SpecInv, Receive
  <1>3. ASSUME NEW r \in Resizes, NewResources(r)
        PROVE  SpecInv'
    <2>1. /\ source' = source
          /\ manifest' = [f \in DOMAIN manifest \cup {"resources"} |-> IF f = "resources" THEN r ELSE manifest[f]]
          /\ spec' = Convert(source, manifest')
      BY <1>3 DEF NewResources
    <2>2. AmountsAdmitted(r)
      BY CasesAssumption
    <2>3. SpecAdmitted(manifest)
      BY DEF SpecInv
    <2>4. SpecAdmitted(manifest')
      <3>1. "resources" \in DOMAIN manifest' /\ manifest'["resources"] = r
        BY <2>1
      <3>2. \A f : f # "resources" /\ f \in DOMAIN manifest' => f \in DOMAIN manifest /\ manifest'[f] = manifest[f]
        BY <2>1
      <3> QED
        BY <2>2, <2>3, <3>1, <3>2 DEF SpecAdmitted
    <2> QED
      BY <2>1, <2>4 DEF SpecInv
  <1>4. CASE UNCHANGED vars
    BY <1>1, <1>4 DEF vars
  <1> QED
    <2>1. SpecPart => Receive
      BY DEF SpecPart
    <2>2. CriPart => UNCHANGED specVars \/ \E r \in Resizes : NewResources(r)
      BY DEF CriPart
    <2>3. OfPod(PodSteps) \/ OfNode(NodeSteps \/ NodeDeleted \/ NodeCreated) => UNCHANGED specVars
      BY DEF OfPod, OfNode
    <2> QED
      BY <1>1, <1>2, <1>3, <1>4, <2>1, <2>2, <2>3 DEF Next

\* SpecsKept: a pod is the same pod whatever source converts its manifest, and
\* what its status shows of its resources reads back as the amounts of the spec.
THEOREM SpecsAreKept == Spec => []SpecsKept
  <1>1. Init => SpecInv
    BY SpecInvInit
  <1>2. SpecInv /\ [Next]_vars => SpecInv'
    BY SpecInvStep
  <1>3. SpecInv => SpecsKept
    BY SpecInvHolds
  <1> QED
    BY <1>1, <1>2, <1>3, PTL DEF Spec

===============================================================================
