------------------------------ MODULE Pods_proofs ------------------------------
(***************************************************************************)
(* Proofs about the two ends of a pod's way through the kubelet: the       *)
(* worker that runs it, for any pod, any number of containers, records and *)
(* crashes and any set of calls that may fail; and the sources it comes    *)
(* from, for any configuration of them, any pods, manifests and items and  *)
(* any capacity of the channel.                                            *)
(***************************************************************************)
EXTENDS PodWorker, PodSources, WellFoundedInduction, TLAPS

----------------------------------------------------------------------------
(***************************************************************************)
(* The pod worker: the inductive invariant.                                *)
(***************************************************************************)
\* The sync is at a container or past one, and has a sandbox.
InWalk == pc \in {"walk", "start", "create", "run", "hook", "sidecars"}

\* What start_container has done when it gets to create and run a container:
\* the sandbox is known, nothing is tracked under the container's name, and the
\* attempt is counted.
StartInv ==
  /\ InWalk => sbx
  /\ pc \in {"create", "run", "hook"} => known[Order[at]] = 0
  /\ pc \in {"run", "hook"} => counts[Order[at]] \in Records

\* The regular init containers before the one the sync is at have completed in
\* this sandbox.
InitInv ==
  InWalk /\ sandbox = "ready" =>
    \A k \in 1..Len(Init_) : k < at /\ Init_[k] \in Regular =>
       \E m \in Records : ctrs[Init_[k]][m] = "ok"

\* An app container that runs is the one tracked, or is being started right
\* now, as long as the worker knows the sandbox.
Reliable == Faults \cap {"list", "cleanup"} = {}
RunInv ==
  Reliable /\ sbx =>
    \A c \in SeqSet(Apps), n \in Records :
       ctrs[c][n] = "running" => n = known[c] \/ (pc = "hook" /\ c = Order[at] /\ n = counts[c])

Inv == TypeOK /\ StartInv /\ InitInv /\ RunInv /\ OneRunning

----------------------------------------------------------------------------
(***************************************************************************)
(* The containers of a pod.                                                *)
(***************************************************************************)
\* Where the containers of a pod stand in its order, and that no container is
\* of two kinds.
LEMMA Positions ==
  ASSUME pod \in PodShapes
  PROVE  /\ Len(Init_) \in Nat /\ Len(Order) \in Nat
         /\ Len(Init_ \o Apps) \in Nat /\ Len(Init_ \o Apps) =< Len(Order)
         /\ \A k \in 1..Len(Init_) : k \in 1..Len(Order) /\ Order[k] = Init_[k]
         /\ \A k \in 1..Len(Order) : Order[k] \in SeqSet(Init_) => k =< Len(Init_)
         /\ \A k \in 1..Len(Order) : Order[k] \in Names
         /\ \A j, k \in 1..Len(Order) : Order[j] = Order[k] => j = k
         /\ Sidecars \subseteq SeqSet(Init_)
         /\ SeqSet(Init_) \subseteq Names /\ SeqSet(Apps) \subseteq Names
         /\ SeqSet(Apps) \cap SeqSet(Init_) = {}
         /\ SeqSet(Ephemeral) \cap SeqSet(Init_) = {}
  <1> DEFINE I == pod.init
             E == pod.ephemeral
             O == (I \o Apps) \o E
  <1>1. /\ I \in Seq(SeqSet(I)) /\ E \in Seq(SeqSet(E)) /\ Apps \in Seq(SeqSet(Apps))
        /\ pod.sidecars \subseteq SeqSet(I)
        /\ \A j, k \in 1..Len(O) : O[j] = O[k] => j = k
    BY WorkerAssumption DEF ContainersOf
  <1> HIDE DEF I, E
  <1>2. /\ Len(I) \in Nat /\ Len(E) \in Nat /\ Len(Apps) \in Nat
        /\ Len(I \o Apps) = Len(I) + Len(Apps)
        /\ Len(O) = Len(I) + Len(Apps) + Len(E)
        /\ \A k \in 1..Len(I) : O[k] = I[k]
        /\ \A k \in 1..Len(Apps) : O[Len(I) + k] = Apps[k]
        /\ \A k \in 1..Len(E) : O[Len(I) + Len(Apps) + k] = E[k]
    BY <1>1
  <1> HIDE DEF O
  <1>3. \A k \in 1..Len(O) : O[k] \in SeqSet(I) => k =< Len(I)
    <2> SUFFICES ASSUME NEW k \in 1..Len(O), NEW j \in 1..Len(I), O[k] = I[j]
                 PROVE  k =< Len(I)
      BY DEF SeqSet
    <2>1. j \in 1..Len(O) /\ O[j] = O[k]
      BY <1>2
    <2> QED
      BY <2>1, <1>1, <1>2
  <1>4. SeqSet(I) \subseteq SeqSet(O) /\ SeqSet(Apps) \subseteq SeqSet(O)
    <2>1. \A k \in 1..Len(I) : k \in 1..Len(O)
      BY <1>2
    <2>2. \A k \in 1..Len(Apps) : Len(I) + k \in 1..Len(O)
      BY <1>2
    <2> QED
      BY <2>1, <2>2, <1>2 DEF SeqSet
  <1>5. SeqSet(Apps) \cap SeqSet(I) = {}
    <2> SUFFICES ASSUME NEW j \in 1..Len(Apps), Apps[j] \in SeqSet(I)
                 PROVE  FALSE
      BY DEF SeqSet
    <2>1. Len(I) + j \in 1..Len(O) /\ O[Len(I) + j] \in SeqSet(I)
      BY <1>2
    <2> QED
      BY <2>1, <1>2, <1>3
  <1>6. SeqSet(E) \cap SeqSet(I) = {}
    <2> SUFFICES ASSUME NEW j \in 1..Len(E), E[j] \in SeqSet(I)
                 PROVE  FALSE
      BY DEF SeqSet
    <2>1. Len(I) + Len(Apps) + j \in 1..Len(O) /\ O[Len(I) + Len(Apps) + j] \in SeqSet(I)
      BY <1>2
    <2> QED
      BY <2>1, <1>2, <1>3
  <1>7. /\ Init_ = I /\ Ephemeral = E /\ Order = O /\ Names = SeqSet(O)
        /\ Sidecars = pod.sidecars
    BY DEF Init_, Ephemeral, Order, Names, ContainersOf, Sidecars, I, E, O
  <1>8. \A k \in 1..Len(O) : O[k] \in SeqSet(O)
    BY DEF SeqSet
  <1>9. /\ Len(O) \in Nat /\ Len(I \o Apps) \in Nat /\ Len(I \o Apps) =< Len(O)
        /\ \A k \in 1..Len(I) : k \in 1..Len(O)
    BY <1>2
  <1> QED
    BY <1>1, <1>2, <1>3, <1>4, <1>5, <1>6, <1>7, <1>8, <1>9

(***************************************************************************)
(* Numbers.                                                                *)
(***************************************************************************)
\* Every set of numbers has a least element ...
LEMMA LeastNat ==
  ASSUME NEW S \in SUBSET Nat, S # {}
  PROVE  \E n \in S : \A m \in S : n =< m
  <1>1. PICK n \in S : \A m \in S : ~ (<<m, n>> \in OpToRel(<, Nat))
    BY NatLessThanWellFounded, WFMin
  <1>2. \A m \in S : ~ (m < n)
    BY <1>1 DEF OpToRel
  <1> QED
    BY <1>2

\* ... and one that is bounded a greatest, which Max picks.
LEMMA MaxInSet ==
  ASSUME NEW b \in Nat, NEW S \in SUBSET (0..b), S # {}
  PROVE  Max(S) \in S
  <1> DEFINE T == {n \in Nat : \A y \in S : y =< n}
  <1>1. PICK n \in T : \A m \in T : n =< m
    <2>1. b \in T
      OBVIOUS
    <2> QED
      BY <2>1, LeastNat
  <1>2. n \in S
    <2> SUFFICES ASSUME n \notin S PROVE FALSE
      OBVIOUS
    <2>1. PICK y \in S : TRUE
      OBVIOUS
    <2>2. n \in Nat /\ \A z \in S : z \in Nat /\ z < n
      OBVIOUS
    <2>3. n - 1 \in Nat /\ \A z \in S : z =< n - 1
      BY <2>1, <2>2
    <2>4. n - 1 \in T
      BY <2>3
    <2> QED
      BY <2>2, <2>4, <1>1
  <1>3. \A y \in S : n >= y
    OBVIOUS
  <1> QED
    BY <1>2, <1>3 DEF Max

----------------------------------------------------------------------------
(***************************************************************************)
(* Types.                                                                  *)
(***************************************************************************)
\* Whatever the statuses are, compute_pod_phase gives a phase.
LEMMA PhaseType ==
  ASSUME NEW k, NEW r, NEW S, UpdatePodStatus(k, r, S)
  PROVE  phase' \in Phase
  <1>1. \A i, a, p : ComputePodPhase(i, a, p) \in Phase
    <2> SUFFICES ASSUME NEW i, NEW a, NEW p
                 PROVE  ComputePodPhase(i, a, p) \in Phase
      OBVIOUS
    <2>1. InitPhase(i, p) \in Phase
      BY DEF InitPhase, Phase
    <2> QED
      BY <2>1 DEF ComputePodPhase, Phase
  <1> QED
    BY <1>1 DEF UpdatePodStatus

\* What is taken over after a restart are records the runtime has, and if an
\* app container runs, the record taken over runs.
LEMMA RecoveryType ==
  ASSUME TypeOK, NEW c \in Names, NEW f \in Recovery(c)
  PROVE  /\ f[1] \in 0..MaxRecords /\ f[2] \in 0..MaxRecords
         /\ c \in SeqSet(Apps) => \A n \in Records : ctrs[c][n] = "running" =>
                                    f[1] \in Records /\ ctrs[c][f[1]] = "running"
  <1> DEFINE rest == {n \in Records : ctrs[c][n] # "none"} \ Recoverable(c)
  <1>1. MaxRecords \in Nat /\ counts[c] \in 0..MaxRecords
    BY WorkerAssumption DEF TypeOK
  <1>2. rest \subseteq 0..MaxRecords /\ Recoverable(c) \subseteq Records
    BY <1>1 DEF Recoverable, Records
  <1> HIDE DEF rest
  <1>3. CASE Recoverable(c) = {}
    <2>1. f = <<0, Max({counts[c]} \cup rest)>>
      BY <1>3 DEF Recovery, rest
    <2>2. Max({counts[c]} \cup rest) \in 0..MaxRecords
      BY <1>1, <1>2, MaxInSet
    <2> QED
      BY <1>1, <1>3, <2>1, <2>2 DEF Recoverable
  <1>4. CASE Recoverable(c) # {}
    <2> DEFINE taken == {<<n, Max({counts[c], n} \cup S)>> : n \in Recoverable(c), S \in SUBSET rest}
    <2>1. Recovery(c) = IF Recoverable(c) = {} THEN {<<0, Max({counts[c]} \cup rest)>>} ELSE taken
      BY DEF Recovery, rest
    <2> HIDE DEF taken
    <2>2. f \in taken
      BY <1>4, <2>1
    <2>3. PICK n \in Recoverable(c), S \in SUBSET rest : f = <<n, Max({counts[c], n} \cup S)>>
      BY <2>2 DEF taken
    <2>4. n \in Records /\ n \in 0..MaxRecords
      BY <1>1, <1>2 DEF Records
    <2>5. {counts[c], n} \cup S \in SUBSET (0..MaxRecords)
      BY <1>1, <1>2, <2>4
    <2>6. Max({counts[c], n} \cup S) \in 0..MaxRecords
      BY <1>1, <2>5, MaxInSet
    <2>7. c \in SeqSet(Apps) => ctrs[c][n] = "running"
      BY Positions DEF Recoverable, TypeOK
    <2> QED
      BY <2>3, <2>4, <2>6, <2>7
  <1> QED
    BY <1>3, <1>4

\* The pod does not change.
LEMMA SamePod ==
  ASSUME [Next]_vars
  PROVE  /\ pod' = pod /\ policy' = policy
         /\ Init_' = Init_ /\ Sidecars' = Sidecars /\ Ephemeral' = Ephemeral
         /\ Faults' = Faults /\ Order' = Order /\ Names' = Names /\ Regular' = Regular
  <1>1. pod' = pod /\ policy' = policy
    BY DEF Next, SyncPod, Environment, Sandbox, Container, vars, given, Goto, Stay, Return,
           Advance, Begin, PrepareFails, DeadlineExceeded, StopSidecars, Finish, SandboxKnown,
           SandboxReused, SandboxUnlisted, SandboxCreated, SandboxFails, WalkPast, InitRunning,
           InitFailsPod, WalkStart, StartUnprepared, RemoveOld, Create, SandboxGone, CreateFails,
           Run, RunFails, Started, HookFails, StartFails, Exit, SandboxStops, SandboxRemoved,
           Crash, Restart
  <1> QED
    BY <1>1 DEF Init_, Sidecars, Ephemeral, Faults, Order, Names, Regular

\* Stopping or removing a record leaves records.
LEMMA CleanUpType ==
  ASSUME ctrs \in [Names -> [Records -> RecordState]], NEW c \in Names, NEW n, NEW st \in RecordState,
         CleanUp(c, n, st)
  PROVE  ctrs' \in [Names -> [Records -> RecordState]]
  <1>1. CASE ctrs' = [ctrs EXCEPT ![c][n] = st]
    <2>1. [ctrs[c] EXCEPT ![n] = st] \in [Records -> RecordState]
      OBVIOUS
    <2> QED
      BY <1>1, <2>1
  <1> QED
    BY <1>1 DEF CleanUp

\* Every step keeps the types.
LEMMA TypeStep ==
  ASSUME TypeOK, [Next]_vars
  PROVE  TypeOK'
  <1> USE DEF TypeOK, Goto, Stay, Return, given, stateVars, criVars, Phase
  <1>1. /\ pod' = pod /\ policy' = policy /\ Order' = Order /\ Names' = Names
        /\ Len(Order) \in Nat /\ Nothing \in [Names -> 0..MaxRecords]
        /\ NoRecords \in [Names -> [Records -> RecordState]]
        /\ MaxRecords \in Nat /\ MaxCrashes \in Nat
    BY SamePod, Positions, WorkerAssumption DEF Nothing, NoRecords, RecordState
  <1>2. CASE Begin
    BY <1>2, <1>1 DEF Begin
  <1>3. CASE PrepareFails
    BY <1>3, <1>1 DEF PrepareFails
  <1>4. CASE DeadlineExceeded
    <2>1. known' \in [Names -> 0..MaxRecords]
      BY <1>4, <1>1 DEF DeadlineExceeded, TerminatePod
    <2>2. counts' \in [Names -> 0..MaxRecords]
      BY <1>4, <1>1 DEF DeadlineExceeded, TerminatePod
    <2>3. ctrs' \in [Names -> [Records -> RecordState]]
      BY <1>4, <1>1 DEF DeadlineExceeded, TerminatePod
    <2>4. sbx' \in BOOLEAN /\ late' \in BOOLEAN
      BY <1>4 DEF DeadlineExceeded, TerminatePod
    <2>5. /\ pc' \in {"idle", "down"} /\ at' = 1 /\ phase' \in Phase /\ crashes' \in 0..MaxCrashes
          /\ sandbox' \in {"none", "ready", "notready"}
      BY <1>4, <1>1 DEF DeadlineExceeded, TerminatePod
    <2> QED
      BY <1>1, <2>1, <2>2, <2>3, <2>4, <2>5
  <1>5. CASE SandboxKnown
    BY <1>5, <1>1 DEF SandboxKnown
  <1>6. CASE SandboxReused
    <2>1. PICK f \in [Names -> UNION {Recovery(c) : c \in Names}] :
             /\ \A c \in Names : f[c] \in Recovery(c)
             /\ known' = [c \in Names |-> f[c][1]]
             /\ counts' = [c \in Names |-> f[c][2]]
      BY <1>6 DEF SandboxReused
    <2>2. \A c \in Names : f[c][1] \in 0..MaxRecords /\ f[c][2] \in 0..MaxRecords
      BY <2>1, RecoveryType
    <2>3. known' \in [Names -> 0..MaxRecords] /\ counts' \in [Names -> 0..MaxRecords]
      BY <2>1, <2>2
    <2> QED
      BY <1>6, <1>1, <2>3 DEF SandboxReused
  <1>7. CASE SandboxUnlisted
    BY <1>7, <1>1 DEF SandboxUnlisted
  <1>8. CASE SandboxCreated
    BY <1>8, <1>1 DEF SandboxCreated
  <1>9. CASE SandboxFails
    BY <1>9, <1>1 DEF SandboxFails
  <1>10. CASE StopSidecars
    <2>1. ctrs' \in [Names -> [Records -> RecordState]]
      BY <1>10 DEF StopSidecars, RecordState
    <2> QED
      BY <1>10, <1>1, <2>1 DEF StopSidecars
  <1>11. CASE Finish
    <2>1. phase' \in Phase
      BY <1>11, PhaseType DEF Finish
    <2> QED
      BY <1>11, <1>1, <2>1 DEF Finish
  <1>12. CASE SandboxStops
    <2>1. ctrs' \in [Names -> [Records -> RecordState]]
      BY <1>12 DEF SandboxStops, RecordState
    <2> QED
      BY <1>12, <1>1, <2>1 DEF SandboxStops
  <1>13. CASE SandboxRemoved
    BY <1>13, <1>1 DEF SandboxRemoved
  <1>14. CASE Crash
    <2>1. known' \in [Names -> 0..MaxRecords]
      BY <1>14, <1>1 DEF Crash
    <2>2. counts' \in [Names -> 0..MaxRecords]
      BY <1>14, <1>1 DEF Crash
    <2>3. ctrs' \in [Names -> [Records -> RecordState]]
      BY <1>14, <1>1 DEF Crash
    <2>4. sbx' \in BOOLEAN /\ late' \in BOOLEAN
      BY <1>14 DEF Crash
    <2>5. /\ pc' \in {"idle", "down"} /\ at' = 1 /\ phase' \in Phase /\ crashes' \in 0..MaxCrashes
          /\ sandbox' \in {"none", "ready", "notready"}
      BY <1>14, <1>1 DEF Crash
    <2> QED
      BY <1>1, <2>1, <2>2, <2>3, <2>4, <2>5
  <1>15. CASE Restart
    BY <1>15, <1>1 DEF Restart
  <1>16. ASSUME NEW c \in Names, WalkPast(c)
        PROVE  TypeOK'
    BY <1>16, <1>1 DEF WalkPast, Walking, Advance
  <1>17. ASSUME NEW c \in Names, InitRunning(c)
        PROVE  TypeOK'
    <2>1. phase' \in Phase
      BY <1>17, PhaseType DEF InitRunning
    <2> QED
      BY <1>17, <1>1, <2>1 DEF InitRunning
  <1>18. ASSUME NEW c \in Names, InitFailsPod(c)
        PROVE  TypeOK'
    <2>1. known' \in [Names -> 0..MaxRecords]
      BY <1>18, <1>1 DEF InitFailsPod, TerminatePod
    <2>2. counts' \in [Names -> 0..MaxRecords]
      BY <1>18, <1>1 DEF InitFailsPod, TerminatePod
    <2>3. ctrs' \in [Names -> [Records -> RecordState]]
      BY <1>18, <1>1 DEF InitFailsPod, TerminatePod
    <2>4. sbx' \in BOOLEAN /\ late' \in BOOLEAN
      BY <1>18 DEF InitFailsPod, TerminatePod
    <2>5. /\ pc' \in {"idle", "down"} /\ at' = 1 /\ phase' \in Phase /\ crashes' \in 0..MaxCrashes
          /\ sandbox' \in {"none", "ready", "notready"}
      BY <1>18, <1>1 DEF InitFailsPod, TerminatePod
    <2> QED
      BY <1>1, <2>1, <2>2, <2>3, <2>4, <2>5
  <1>19. ASSUME NEW c \in Names, WalkStart(c)
        PROVE  TypeOK'
    <2>1. phase' \in Phase
      BY <1>19, PhaseType DEF WalkStart
    <2> QED
      BY <1>19, <1>1, <2>1 DEF WalkStart, Walking
  <1>20. ASSUME NEW c \in Names, StartUnprepared(c)
        PROVE  TypeOK'
    <2>1. phase' \in Phase
      BY <1>20, PhaseType DEF StartUnprepared, StartFails
    <2> QED
      BY <1>20, <1>1, <2>1 DEF StartUnprepared, Starting, StartFails, Advance
  <1>21. ASSUME NEW c \in Names, RemoveOld(c)
        PROVE  TypeOK'
    <2>1. ctrs' \in [Names -> [Records -> RecordState]]
      BY <1>21, CleanUpType DEF RemoveOld, RecordState
    <2>2. known' \in [Names -> 0..MaxRecords]
      BY <1>21, <1>1 DEF RemoveOld
    <2> QED
      BY <1>21, <1>1, <2>1, <2>2 DEF RemoveOld, Starting
  <1>22. ASSUME NEW c \in Names, Create(c)
        PROVE  TypeOK'
    <2>1. ctrs' \in [Names -> [Records -> RecordState]]
      BY <1>22 DEF Create, RecordState
    <2>2. counts' \in [Names -> 0..MaxRecords]
      BY <1>22, <1>1 DEF Create
    <2> QED
      BY <1>22, <1>1, <2>1, <2>2 DEF Create, Starting
  <1>23. ASSUME NEW c \in Names, SandboxGone(c)
        PROVE  TypeOK'
    <2>1. known' \in [Names -> 0..MaxRecords]
      BY <1>23, <1>1 DEF SandboxGone
    <2>2. counts' \in [Names -> 0..MaxRecords]
      BY <1>23, <1>1 DEF SandboxGone
    <2>3. ctrs' \in [Names -> [Records -> RecordState]]
      BY <1>23, <1>1 DEF SandboxGone
    <2>4. sbx' \in BOOLEAN /\ late' \in BOOLEAN
      BY <1>23 DEF SandboxGone
    <2>5. /\ pc' \in {"idle", "down"} /\ at' = 1 /\ phase' \in Phase /\ crashes' \in 0..MaxCrashes
          /\ sandbox' \in {"none", "ready", "notready"}
      BY <1>23, <1>1 DEF SandboxGone
    <2> QED
      BY <1>1, <2>1, <2>2, <2>3, <2>4, <2>5
  <1>24. ASSUME NEW c \in Names, CreateFails(c)
        PROVE  TypeOK'
    <2>1. phase' \in Phase
      BY <1>24, PhaseType DEF CreateFails, StartFails
    <2> QED
      BY <1>24, <1>1, <2>1 DEF CreateFails, Starting, StartFails, Advance
  <1>25. ASSUME NEW c \in Names, Run(c)
        PROVE  TypeOK'
    <2>1. ctrs' \in [Names -> [Records -> RecordState]]
      BY <1>25 DEF Run, RecordState
    <2> QED
      BY <1>25, <1>1, <2>1 DEF Run, Starting
  <1>26. ASSUME NEW c \in Names, RunFails(c)
        PROVE  TypeOK'
    <2>1. phase' \in Phase
      BY <1>26, PhaseType DEF RunFails, StartFails
    <2>2. ctrs' \in [Names -> [Records -> RecordState]]
      BY <1>26, CleanUpType DEF RunFails, RecordState
    <2> QED
      BY <1>26, <1>1, <2>1, <2>2 DEF RunFails, Starting, StartFails, Advance
  <1>27. ASSUME NEW c \in Names, Started(c)
        PROVE  TypeOK'
    <2>1. phase' \in Phase
      BY <1>27, PhaseType DEF Started
    <2>2. known' \in [Names -> 0..MaxRecords]
      BY <1>27 DEF Started
    <2> QED
      BY <1>27, <1>1, <2>1, <2>2 DEF Started, Starting, Advance
  <1>28. ASSUME NEW c \in Names, HookFails(c)
        PROVE  TypeOK'
    <2>1. phase' \in Phase
      BY <1>28, PhaseType DEF HookFails, StartFails
    <2>2. ctrs' \in [Names -> [Records -> RecordState]]
      BY <1>28, CleanUpType DEF HookFails, RecordState
    <2>3. /\ pc' \in {"idle", "walk", "sidecars"} /\ at' \in 1..Len(Order) + 1
          /\ UNCHANGED <<given, stateVars, sandbox, crashes, late>>
      BY <1>28, <1>1 DEF HookFails, Starting, StartFails, Advance
    <2> QED
      BY <1>28, <1>1, <2>1, <2>2, <2>3
  <1>29. ASSUME NEW c \in Names, NEW n \in Records, Exit(c, n)
        PROVE  TypeOK'
    <2>1. ctrs' \in [Names -> [Records -> RecordState]]
      BY <1>29 DEF Exit, RecordState
    <2> QED
      BY <1>29, <1>1, <2>1 DEF Exit
  <1>30. CASE UNCHANGED vars
    BY <1>30, <1>1 DEF vars
  <1> QED
    BY <1>2, <1>3, <1>4, <1>5, <1>6, <1>7, <1>8, <1>9, <1>10, <1>11, <1>12, <1>13, <1>14, <1>15, <1>16, <1>17, <1>18, <1>19, <1>20, <1>21, <1>22, <1>23, <1>24, <1>25, <1>26, <1>27, <1>28, <1>29, <1>30
       DEF Next, SyncPod, Environment, Sandbox, Container

\* Every step keeps what start_container relies on.
LEMMA StartStep ==
  ASSUME TypeOK, StartInv, [Next]_vars
  PROVE  StartInv'
  <1> USE DEF StartInv, InWalk, Goto, Stay, Return, given, stateVars, criVars
  <1>1. /\ Order' = Order /\ Names' = Names /\ MaxRecords \in Nat
        /\ Len(Order) \in Nat /\ \A k \in 1..Len(Order) : Order[k] \in Names
        /\ known \in [Names -> 0..MaxRecords] /\ counts \in [Names -> 0..MaxRecords]
    BY SamePod, Positions, WorkerAssumption DEF TypeOK
  <1>2. CASE Begin
    BY <1>2 DEF Begin
  <1>3. CASE PrepareFails
    BY <1>3, <1>1 DEF PrepareFails
  <1>4. CASE DeadlineExceeded
    BY <1>4 DEF DeadlineExceeded, TerminatePod
  <1>5. CASE SandboxKnown
    BY <1>5, <1>1 DEF SandboxKnown
  <1>6. CASE SandboxReused
    BY <1>6, <1>1 DEF SandboxReused
  <1>7. CASE SandboxUnlisted
    BY <1>7, <1>1 DEF SandboxUnlisted
  <1>8. CASE SandboxCreated
    BY <1>8, <1>1 DEF SandboxCreated
  <1>9. CASE SandboxFails
    BY <1>9, <1>1 DEF SandboxFails
  <1>10. CASE StopSidecars
    BY <1>10, <1>1 DEF StopSidecars
  <1>11. CASE Finish
    BY <1>11, <1>1 DEF Finish
  <1>12. CASE SandboxStops
    BY <1>12, <1>1 DEF SandboxStops
  <1>13. CASE SandboxRemoved
    BY <1>13, <1>1 DEF SandboxRemoved
  <1>14. CASE Crash
    BY <1>14, <1>1 DEF Crash
  <1>15. CASE Restart
    BY <1>15, <1>1 DEF Restart
  <1>16. ASSUME NEW c \in Names, WalkPast(c)
        PROVE  StartInv'
    BY <1>16 DEF WalkPast, Walking, Advance
  <1>17. ASSUME NEW c \in Names, InitRunning(c)
        PROVE  StartInv'
    BY <1>17, <1>1 DEF InitRunning
  <1>18. ASSUME NEW c \in Names, InitFailsPod(c)
        PROVE  StartInv'
    BY <1>18 DEF InitFailsPod, TerminatePod
  <1>19. ASSUME NEW c \in Names, WalkStart(c)
        PROVE  StartInv'
    BY <1>19, <1>1 DEF WalkStart, Walking
  <1>20. ASSUME NEW c \in Names, StartUnprepared(c)
        PROVE  StartInv'
    BY <1>20 DEF StartUnprepared, Starting, StartFails, Advance
  <1>21. ASSUME NEW c \in Names, RemoveOld(c)
        PROVE  StartInv'
    BY <1>21, <1>1 DEF RemoveOld, Starting
  <1>22. ASSUME NEW c \in Names, Create(c)
        PROVE  StartInv'
    BY <1>22, <1>1 DEF Create, Starting, Records
  <1>23. ASSUME NEW c \in Names, SandboxGone(c)
        PROVE  StartInv'
    BY <1>23, <1>1 DEF SandboxGone
  <1>24. ASSUME NEW c \in Names, CreateFails(c)
        PROVE  StartInv'
    BY <1>24 DEF CreateFails, Starting, StartFails, Advance
  <1>25. ASSUME NEW c \in Names, Run(c)
        PROVE  StartInv'
    BY <1>25, <1>1 DEF Run, Starting
  <1>26. ASSUME NEW c \in Names, RunFails(c)
        PROVE  StartInv'
    BY <1>26 DEF RunFails, Starting, StartFails, Advance
  <1>27. ASSUME NEW c \in Names, Started(c)
        PROVE  StartInv'
    BY <1>27 DEF Started, Starting, Advance
  <1>28. ASSUME NEW c \in Names, HookFails(c)
        PROVE  StartInv'
    BY <1>28 DEF HookFails, Starting, StartFails, Advance
  <1>29. ASSUME NEW c \in Names, NEW n \in Records, Exit(c, n)
        PROVE  StartInv'
    BY <1>29, <1>1 DEF Exit
  <1>30. CASE UNCHANGED vars
    BY <1>30, <1>1 DEF vars
  <1> QED
    BY <1>2, <1>3, <1>4, <1>5, <1>6, <1>7, <1>8, <1>9, <1>10, <1>11, <1>12, <1>13, <1>14, <1>15, <1>16, <1>17, <1>18, <1>19, <1>20, <1>21, <1>22, <1>23, <1>24, <1>25, <1>26, <1>27, <1>28, <1>29, <1>30
       DEF Next, SyncPod, Environment, Sandbox, Container

\* Nothing but start_container makes a record run.
LEMMA NewlyRunning ==
  ASSUME TypeOK, [Next]_vars, NEW d \in Names, NEW n \in Records,
         ctrs[d][n] # "running", ctrs'[d][n] = "running"
  PROVE  Run(d) /\ n = counts[d]
  <1> USE DEF given, stateVars, criVars
  <1>1. /\ ctrs \in [Names -> [Records -> RecordState]] /\ NoRecords[d][n] = "none"
        /\ known \in [Names -> 0..MaxRecords] /\ counts \in [Names -> 0..MaxRecords]
    BY DEF TypeOK, NoRecords
  <1>2. CASE Begin
    BY <1>2, <1>1 DEF Begin
  <1>3. CASE PrepareFails
    BY <1>3, <1>1 DEF PrepareFails
  <1>4. CASE DeadlineExceeded
    BY <1>4, <1>1 DEF DeadlineExceeded, TerminatePod
  <1>5. CASE SandboxKnown
    BY <1>5, <1>1 DEF SandboxKnown
  <1>6. CASE SandboxReused
    BY <1>6, <1>1 DEF SandboxReused
  <1>7. CASE SandboxUnlisted
    BY <1>7, <1>1 DEF SandboxUnlisted
  <1>8. CASE SandboxCreated
    BY <1>8, <1>1 DEF SandboxCreated
  <1>9. CASE SandboxFails
    BY <1>9, <1>1 DEF SandboxFails
  <1>10. CASE StopSidecars
    BY <1>10, <1>1 DEF StopSidecars
  <1>11. CASE Finish
    BY <1>11, <1>1 DEF Finish
  <1>12. CASE SandboxStops
    BY <1>12, <1>1 DEF SandboxStops
  <1>13. CASE SandboxRemoved
    BY <1>13, <1>1 DEF SandboxRemoved
  <1>14. CASE Crash
    BY <1>14, <1>1 DEF Crash
  <1>15. CASE Restart
    BY <1>15, <1>1 DEF Restart
  <1>16. ASSUME NEW c \in Names, WalkPast(c)
        PROVE  Run(d) /\ n = counts[d]
    BY <1>16, <1>1 DEF WalkPast
  <1>17. ASSUME NEW c \in Names, InitRunning(c)
        PROVE  Run(d) /\ n = counts[d]
    BY <1>17, <1>1 DEF InitRunning
  <1>18. ASSUME NEW c \in Names, InitFailsPod(c)
        PROVE  Run(d) /\ n = counts[d]
    BY <1>18, <1>1 DEF InitFailsPod, TerminatePod
  <1>19. ASSUME NEW c \in Names, WalkStart(c)
        PROVE  Run(d) /\ n = counts[d]
    BY <1>19, <1>1 DEF WalkStart
  <1>20. ASSUME NEW c \in Names, StartUnprepared(c)
        PROVE  Run(d) /\ n = counts[d]
    BY <1>20, <1>1 DEF StartUnprepared
  <1>21. ASSUME NEW c \in Names, RemoveOld(c)
        PROVE  Run(d) /\ n = counts[d]
    BY <1>21, <1>1 DEF RemoveOld, CleanUp
  <1>22. ASSUME NEW c \in Names, Create(c)
        PROVE  Run(d) /\ n = counts[d]
    BY <1>22, <1>1 DEF Create
  <1>23. ASSUME NEW c \in Names, SandboxGone(c)
        PROVE  Run(d) /\ n = counts[d]
    BY <1>23, <1>1 DEF SandboxGone
  <1>24. ASSUME NEW c \in Names, CreateFails(c)
        PROVE  Run(d) /\ n = counts[d]
    BY <1>24, <1>1 DEF CreateFails
  <1>25. ASSUME NEW c \in Names, Run(c)
        PROVE  Run(d) /\ n = counts[d]
    BY <1>25, <1>1 DEF Run
  <1>26. ASSUME NEW c \in Names, RunFails(c)
        PROVE  Run(d) /\ n = counts[d]
    BY <1>26, <1>1 DEF RunFails, CleanUp
  <1>27. ASSUME NEW c \in Names, Started(c)
        PROVE  Run(d) /\ n = counts[d]
    BY <1>27, <1>1 DEF Started
  <1>28. ASSUME NEW c \in Names, HookFails(c)
        PROVE  Run(d) /\ n = counts[d]
    BY <1>28, <1>1 DEF HookFails, CleanUp
  <1>29. ASSUME NEW c \in Names, NEW m \in Records, Exit(c, m)
        PROVE  Run(d) /\ n = counts[d]
    BY <1>29, <1>1 DEF Exit
  <1>30. CASE UNCHANGED vars
    BY <1>30, <1>1 DEF vars
  <1> QED
    BY <1>2, <1>3, <1>4, <1>5, <1>6, <1>7, <1>8, <1>9, <1>10, <1>11, <1>12, <1>13, <1>14, <1>15, <1>16, <1>17, <1>18, <1>19, <1>20, <1>21, <1>22, <1>23, <1>24, <1>25, <1>26, <1>27, <1>28, <1>29, <1>30
       DEF Next, SyncPod, Environment, Sandbox, Container

\* At most one record of an app container runs after a step, if so before it.
LEMMA OneStep ==
  ASSUME Inv, [Next]_vars
  PROVE  OneRunning'
  <1> SUFFICES ASSUME Faults \cap {"list", "cleanup"} = {},
                      NEW c \in SeqSet(Apps), NEW m \in Records, NEW n \in Records,
                      ctrs'[c][m] = "running", ctrs'[c][n] = "running"
               PROVE  m = n
    BY SamePod DEF OneRunning
  <1>1. c \in Names
    BY Positions DEF Inv, TypeOK
  <1>2. CASE Run(c)
    <2>1. \A k \in Records : ctrs[c][k] # "running"
      BY <1>1, <1>2, WorkerAssumption
         DEF Inv, TypeOK, Run, Starting, StartInv, InWalk, RunInv, Reliable, Records
    <2> QED
      BY <1>1, <2>1, NewlyRunning DEF Inv
  <1>3. CASE ~ Run(c)
    <2>1. ctrs[c][m] = "running" /\ ctrs[c][n] = "running"
      BY <1>1, <1>3, NewlyRunning DEF Inv
    <2> QED
      BY <2>1 DEF Inv, OneRunning
  <1> QED
    BY <1>2, <1>3

\* Every step keeps track of the app containers that run.
LEMMA RunStep ==
  ASSUME Inv, [Next]_vars
  PROVE  RunInv'
  <1> SUFFICES ASSUME Faults \cap {"list", "cleanup"} = {}, sbx',
                      NEW d \in SeqSet(Apps), NEW n \in Records, ctrs'[d][n] = "running"
               PROVE  n = known'[d] \/ (pc' = "hook" /\ d = Order[at'] /\ n = counts'[d])
    BY SamePod DEF RunInv, Reliable
  <1> DEFINE InHook == pc' = "hook" /\ d = Order[at'] /\ n = counts'[d]
  <1> USE DEF Goto, Stay, Return, given, stateVars, criVars
  <1>1. /\ d \in Names /\ n # 0 /\ NoRecords[d][n] = "none" /\ n \in Nat
        /\ known \in [Names -> 0..MaxRecords] /\ counts \in [Names -> 0..MaxRecords]
        /\ ctrs \in [Names -> [Records -> RecordState]]
        /\ \A k \in 1..Len(Order) : Order[k] \in Names
    BY Positions, WorkerAssumption DEF Inv, TypeOK, NoRecords, Records
  <1>2. Run(d) => n = counts[d]
    <2> SUFFICES ASSUME Run(d) PROVE n = counts[d]
      OBVIOUS
    <2>1. ctrs[d][n] # "running"
      BY <1>1 DEF Inv, Run, Starting, StartInv, InWalk, RunInv, Reliable
    <2> QED
      BY <1>1, <2>1, NewlyRunning DEF Inv
  <1>3. ~ Run(d) => ctrs[d][n] = "running"
    BY <1>1, NewlyRunning DEF Inv
  <1>4. sbx /\ ctrs[d][n] = "running" =>
           n = known[d] \/ (pc = "hook" /\ d = Order[at] /\ n = counts[d])
    BY DEF Inv, RunInv, Reliable
  <1>5. /\ pc \in {"create", "run", "hook"} => known[Order[at]] = 0
        /\ InWalk => sbx
    BY DEF Inv, StartInv
  <1> HIDE DEF InHook
  <1>6. CASE Begin
    BY <1>6, <1>3, <1>4 DEF Begin, Run, Starting, InHook
  <1>7. CASE PrepareFails
    BY <1>7, <1>3, <1>4 DEF PrepareFails, Run, Starting, InHook
  <1>8. CASE DeadlineExceeded
    BY <1>8 DEF DeadlineExceeded, TerminatePod
  <1>9. CASE SandboxKnown
    BY <1>9, <1>3, <1>4 DEF SandboxKnown, Run, Starting, InHook
  <1>10. CASE SandboxReused
    <2>1. PICK f \in [Names -> UNION {Recovery(c) : c \in Names}] :
             /\ \A c \in Names : f[c] \in Recovery(c)
             /\ known' = [c \in Names |-> f[c][1]]
      BY <1>10 DEF SandboxReused
    <2>2. ctrs[d][n] = "running"
      BY <1>10, <1>3 DEF SandboxReused, Run, Starting
    <2>3. f[d][1] \in Records /\ ctrs[d][f[d][1]] = "running"
      BY <2>1, <2>2, <1>1, RecoveryType DEF Inv
    <2>4. f[d][1] = n
      BY <2>2, <2>3 DEF Inv, OneRunning
    <2> QED
      BY <2>1, <2>4, <1>1
  <1>11. CASE SandboxUnlisted
    BY <1>11 DEF SandboxUnlisted
  <1>12. CASE SandboxCreated
    BY <1>12, <1>1 DEF SandboxCreated
  <1>13. CASE SandboxFails
    BY <1>13, <1>3, <1>4 DEF SandboxFails, Run, Starting, InHook
  <1>14. CASE StopSidecars
    BY <1>14, <1>3, <1>4, <1>5 DEF StopSidecars, Run, Starting, Walking, InHook, InWalk, StartFails, Advance
  <1>15. CASE Finish
    BY <1>15, <1>3, <1>4, <1>5 DEF Finish, Run, Starting, Walking, InHook, InWalk, StartFails, Advance
  <1>16. CASE SandboxStops
    BY <1>16, <1>3, <1>4 DEF SandboxStops, Run, Starting, InHook
  <1>17. CASE SandboxRemoved
    BY <1>17, <1>3, <1>4 DEF SandboxRemoved, Run, Starting, InHook
  <1>18. CASE Crash
    BY <1>18 DEF Crash
  <1>19. CASE Restart
    BY <1>19, <1>3, <1>4 DEF Restart, Run, Starting, InHook
  <1>20. ASSUME NEW c \in Names, WalkPast(c)
        PROVE  n = known'[d] \/ InHook
    BY <1>20, <1>3, <1>4, <1>5 DEF WalkPast, Run, Starting, Walking, InHook, InWalk, StartFails, Advance
  <1>21. ASSUME NEW c \in Names, InitRunning(c)
        PROVE  n = known'[d] \/ InHook
    BY <1>21, <1>3, <1>4, <1>5 DEF InitRunning, Run, Starting, Walking, InHook, InWalk, StartFails, Advance
  <1>22. ASSUME NEW c \in Names, InitFailsPod(c)
        PROVE  n = known'[d] \/ InHook
    BY <1>22 DEF InitFailsPod, TerminatePod
  <1>23. ASSUME NEW c \in Names, WalkStart(c)
        PROVE  n = known'[d] \/ InHook
    BY <1>23, <1>3, <1>4, <1>5 DEF WalkStart, Run, Starting, Walking, InHook, InWalk, StartFails, Advance
  <1>24. ASSUME NEW c \in Names, StartUnprepared(c)
        PROVE  n = known'[d] \/ InHook
    BY <1>24, <1>3, <1>4, <1>5 DEF StartUnprepared, Run, Starting, Walking, InHook, InWalk, StartFails, Advance
  <1>25. ASSUME NEW c \in Names, RemoveOld(c)
        PROVE  n = known'[d] \/ InHook
    <2>1. sbx /\ ctrs[d][n] = "running" /\ n = known[d]
      BY <1>25, <1>3, <1>4, <1>5 DEF RemoveOld, Starting, Run, InWalk
    <2>2. c # d
      BY <1>25, <1>1, <2>1 DEF RemoveOld, CleanUp
    <2> QED
      BY <1>25, <1>1, <2>1, <2>2 DEF RemoveOld
  <1>26. ASSUME NEW c \in Names, Create(c)
        PROVE  n = known'[d] \/ InHook
    BY <1>26, <1>3, <1>4, <1>5 DEF Create, Run, Starting, Walking, InHook, InWalk, StartFails, Advance
  <1>27. ASSUME NEW c \in Names, SandboxGone(c)
        PROVE  n = known'[d] \/ InHook
    BY <1>27 DEF SandboxGone
  <1>28. ASSUME NEW c \in Names, CreateFails(c)
        PROVE  n = known'[d] \/ InHook
    BY <1>28, <1>3, <1>4, <1>5 DEF CreateFails, Run, Starting, Walking, InHook, InWalk, StartFails, Advance
  <1>29. ASSUME NEW c \in Names, Run(c)
        PROVE  n = known'[d] \/ InHook
    <2>1. CASE c = d
      BY <1>29, <2>1, <1>2 DEF Run, Starting, InHook
    <2>2. CASE c # d
      BY <1>29, <2>2, <1>3, <1>4, <1>5 DEF Run, Starting, InWalk
    <2> QED
      BY <2>1, <2>2
  <1>30. ASSUME NEW c \in Names, RunFails(c)
        PROVE  n = known'[d] \/ InHook
    BY <1>30, <1>3, <1>4, <1>5 DEF RunFails, Run, Starting, Walking, InHook, InWalk, StartFails, Advance
  <1>31. ASSUME NEW c \in Names, Started(c)
        PROVE  n = known'[d] \/ InHook
    <2>1. sbx /\ ctrs[d][n] = "running"
      BY <1>31, <1>3, <1>4, <1>5 DEF Started, Starting, Run, InWalk
    <2> QED
      BY <1>31, <1>1, <1>4, <1>5, <2>1 DEF Started, Starting
  <1>32. ASSUME NEW c \in Names, HookFails(c)
        PROVE  n = known'[d] \/ InHook
    <2>1. sbx /\ ctrs[d][n] = "running"
      BY <1>32, <1>3, <1>4, <1>5 DEF HookFails, Starting, Run, InWalk
    <2>2. c # d
      BY <1>32, <1>1, <1>4, <1>5, <2>1 DEF HookFails, CleanUp, Starting
    <2> QED
      BY <1>32, <1>1, <1>4, <2>1, <2>2 DEF HookFails, Starting, StartFails
  <1>33. ASSUME NEW c \in Names, NEW m \in Records, Exit(c, m)
        PROVE  n = known'[d] \/ InHook
    BY <1>33, <1>3, <1>4 DEF Exit, Run, Starting, InHook
  <1>34. CASE UNCHANGED vars
    BY <1>34, <1>3, <1>4 DEF vars, Run, Starting, InHook
  <1> QED
    BY <1>6, <1>7, <1>8, <1>9, <1>10, <1>11, <1>12, <1>13, <1>14, <1>15, <1>16, <1>17, <1>18, <1>19, <1>20, <1>21, <1>22, <1>23, <1>24, <1>25, <1>26, <1>27, <1>28, <1>29, <1>30, <1>31, <1>32, <1>33, <1>34
       DEF InHook, Next, SyncPod, Environment, Sandbox, Container

\* Every step keeps that the init containers passed have completed.
LEMMA InitStep ==
  ASSUME Inv, [Next]_vars
  PROVE  InitInv'
  <1> SUFFICES ASSUME InWalk', sandbox' = "ready", NEW k \in 1..Len(Init_), k < at', Init_[k] \in Regular
               PROVE  \E m \in Records : ctrs'[Init_[k]][m] = "ok"
    BY SamePod DEF InitInv
  <1> DEFINE i == Init_[k]
             Done == \E m \in Records : ctrs'[i][m] = "ok"
  <1> USE DEF InWalk, Goto, Stay, Return, given, stateVars, criVars
  <1>0. i \in SeqSet(Init_)
    BY DEF SeqSet
  <1>1. /\ i \in Names /\ i \in SeqSet(Init_) /\ i \in Regular
        /\ i \notin Sidecars /\ i \notin SeqSet(Apps) /\ i \notin SeqSet(Ephemeral)
        /\ at \in Nat /\ k \in Nat /\ Len(Order) \in Nat
        /\ known \in [Names -> 0..MaxRecords] /\ counts \in [Names -> 0..MaxRecords]
        /\ ctrs \in [Names -> [Records -> RecordState]]
        /\ pc \in {"start", "create", "run", "hook"} => at \in 1..Len(Order)
    BY <1>0, Positions DEF Inv, TypeOK, Regular
  <1>2. at \in 1..Len(Order) => (Order[at] = i <=> at = k)
    BY Positions DEF Inv, TypeOK
  <1>3. InWalk /\ sandbox = "ready" /\ k < at => \E m \in Records : ctrs[i][m] = "ok"
    BY DEF Inv, InitInv
  <1> HIDE DEF i, Done
  <1>4. CASE Begin
    BY <1>4, <1>1, <1>3 DEF Begin, Done, i
  <1>5. CASE PrepareFails
    BY <1>5, <1>1, <1>3 DEF PrepareFails, Done, i
  <1>6. CASE DeadlineExceeded
    BY <1>6 DEF DeadlineExceeded, TerminatePod
  <1>7. CASE SandboxKnown
    BY <1>7, <1>1 DEF SandboxKnown
  <1>8. CASE SandboxReused
    BY <1>8, <1>1 DEF SandboxReused
  <1>9. CASE SandboxUnlisted
    BY <1>9, <1>1 DEF SandboxUnlisted
  <1>10. CASE SandboxCreated
    BY <1>10, <1>1 DEF SandboxCreated
  <1>11. CASE SandboxFails
    BY <1>11, <1>1, <1>3 DEF SandboxFails, Done, i
  <1>12. CASE StopSidecars
    <2>1. PICK m \in Records : ctrs[i][m] = "ok"
      BY <1>12, <1>3 DEF StopSidecars
    <2>2. ctrs'[i][m] = "ok"
      BY <1>12, <1>1, <2>1 DEF StopSidecars
    <2> QED
      BY <2>2 DEF Done, i
  <1>13. CASE Finish
    BY <1>13 DEF Finish
  <1>14. CASE SandboxStops
    BY <1>14, <1>1, <1>3 DEF SandboxStops, Done, i
  <1>15. CASE SandboxRemoved
    BY <1>15, <1>1, <1>3 DEF SandboxRemoved, Done, i
  <1>16. CASE Crash
    BY <1>16, <1>1, <1>3 DEF Crash, Done, i
  <1>17. CASE Restart
    BY <1>17, <1>1, <1>3 DEF Restart, Done, i
  <1>18. ASSUME NEW c \in Names, WalkPast(c)
        PROVE  Done
    <2>1. CASE k < at
      BY <1>18, <1>3, <2>1 DEF WalkPast, Walking, Done
    <2>2. CASE ~ (k < at)
      <3>1. c = i
        BY <1>18, <1>1, <1>2, <2>2 DEF WalkPast, Walking, Advance
      <3>2. Status(i) = "ok"
        BY <1>18, <1>1, <3>1 DEF WalkPast, Settled, Seen
      <3>3. known[i] \in Records /\ ctrs[i][known[i]] = "ok"
        BY <1>1, <3>2, WorkerAssumption DEF Status, StateIn, Records
      <3> QED
        BY <1>18, <3>3 DEF WalkPast, Done
    <2> QED
      BY <2>1, <2>2
  <1>19. ASSUME NEW c \in Names, InitRunning(c)
        PROVE  Done
    BY <1>19, <1>1, <1>3 DEF InitRunning, Done, i
  <1>20. ASSUME NEW c \in Names, InitFailsPod(c)
        PROVE  Done
    BY <1>20 DEF InitFailsPod, TerminatePod
  <1>21. ASSUME NEW c \in Names, WalkStart(c)
        PROVE  Done
    BY <1>21, <1>3 DEF WalkStart, Walking, Done
  <1>22. ASSUME NEW c \in Names, StartUnprepared(c)
        PROVE  Done
    <2>1. k < at
      BY <1>22, <1>1, <1>2 DEF StartUnprepared, Starting, StartFails, Advance
    <2>2. PICK m \in Records : ctrs[i][m] = "ok"
      BY <1>22, <2>1, <1>3 DEF StartUnprepared, Starting, StartFails, Advance
    <2>3. c # i
      BY <1>22, <2>1, <1>1, <1>2 DEF StartUnprepared, Starting
    <2>4. ctrs'[i][m] = "ok"
      BY <1>22, <1>1, <2>2, <2>3 DEF StartUnprepared, CleanUp
    <2> QED
      BY <2>4 DEF Done
  <1>23. ASSUME NEW c \in Names, RemoveOld(c)
        PROVE  Done
    <2>1. k < at
      BY <1>23, <1>1, <1>2 DEF RemoveOld, Starting, StartFails, Advance
    <2>2. PICK m \in Records : ctrs[i][m] = "ok"
      BY <1>23, <2>1, <1>3 DEF RemoveOld, Starting, StartFails, Advance
    <2>3. c # i
      BY <1>23, <2>1, <1>1, <1>2 DEF RemoveOld, Starting
    <2>4. ctrs'[i][m] = "ok"
      BY <1>23, <1>1, <2>2, <2>3 DEF RemoveOld, CleanUp
    <2> QED
      BY <2>4 DEF Done
  <1>24. ASSUME NEW c \in Names, Create(c)
        PROVE  Done
    <2>1. k < at
      BY <1>24, <1>1, <1>2 DEF Create, Starting, StartFails, Advance
    <2>2. PICK m \in Records : ctrs[i][m] = "ok"
      BY <1>24, <2>1, <1>3 DEF Create, Starting, StartFails, Advance
    <2>3. c # i
      BY <1>24, <2>1, <1>1, <1>2 DEF Create, Starting
    <2>4. ctrs'[i][m] = "ok"
      BY <1>24, <1>1, <2>2, <2>3 DEF Create, CleanUp
    <2> QED
      BY <2>4 DEF Done
  <1>25. ASSUME NEW c \in Names, SandboxGone(c)
        PROVE  Done
    BY <1>25, <1>1, <1>3 DEF SandboxGone, Done, i
  <1>26. ASSUME NEW c \in Names, CreateFails(c)
        PROVE  Done
    <2>1. k < at
      BY <1>26, <1>1, <1>2 DEF CreateFails, Starting, StartFails, Advance
    <2>2. PICK m \in Records : ctrs[i][m] = "ok"
      BY <1>26, <2>1, <1>3 DEF CreateFails, Starting, StartFails, Advance
    <2>3. c # i
      BY <1>26, <2>1, <1>1, <1>2 DEF CreateFails, Starting
    <2>4. ctrs'[i][m] = "ok"
      BY <1>26, <1>1, <2>2, <2>3 DEF CreateFails, CleanUp
    <2> QED
      BY <2>4 DEF Done
  <1>27. ASSUME NEW c \in Names, Run(c)
        PROVE  Done
    <2>1. PICK m \in Records : ctrs[i][m] = "ok"
      BY <1>27, <1>3 DEF Run, Starting
    <2>2. ctrs'[i][m] = "ok"
      BY <1>27, <1>1, <2>1 DEF Run
    <2> QED
      BY <2>2 DEF Done
  <1>28. ASSUME NEW c \in Names, RunFails(c)
        PROVE  Done
    <2>1. k < at
      BY <1>28, <1>1, <1>2 DEF RunFails, Starting, StartFails, Advance
    <2>2. PICK m \in Records : ctrs[i][m] = "ok"
      BY <1>28, <2>1, <1>3 DEF RunFails, Starting, StartFails, Advance
    <2>3. c # i
      BY <1>28, <2>1, <1>1, <1>2 DEF RunFails, Starting
    <2>4. ctrs'[i][m] = "ok"
      BY <1>28, <1>1, <2>2, <2>3 DEF RunFails, CleanUp
    <2> QED
      BY <2>4 DEF Done
  <1>29. ASSUME NEW c \in Names, Started(c)
        PROVE  Done
    <2>1. k < at
      BY <1>29, <1>1, <1>2 DEF Started, Starting, Advance
    <2>2. PICK m \in Records : ctrs[i][m] = "ok"
      BY <1>29, <2>1, <1>3 DEF Started, Starting, Advance
    <2>3. c # i
      BY <1>29, <2>1, <1>1, <1>2 DEF Started, Starting
    <2>4. ctrs'[i][m] = "ok"
      BY <1>29, <1>1, <2>2, <2>3 DEF Started
    <2> QED
      BY <2>4 DEF Done
  <1>30. ASSUME NEW c \in Names, HookFails(c)
        PROVE  Done
    <2>1. k < at
      BY <1>30, <1>1, <1>2 DEF HookFails, Starting, StartFails, Advance
    <2>2. PICK m \in Records : ctrs[i][m] = "ok"
      BY <1>30, <2>1, <1>3 DEF HookFails, Starting, StartFails, Advance
    <2>3. c # i
      BY <1>30, <2>1, <1>1, <1>2 DEF HookFails, Starting
    <2>4. ctrs'[i][m] = "ok"
      BY <1>30, <1>1, <2>2, <2>3 DEF HookFails, CleanUp
    <2> QED
      BY <2>4 DEF Done
  <1>31. ASSUME NEW c \in Names, NEW n \in Records, Exit(c, n)
        PROVE  Done
    <2>1. PICK m \in Records : ctrs[i][m] = "ok"
      BY <1>31, <1>3 DEF Exit
    <2>2. ctrs'[i][m] = "ok"
      BY <1>31, <1>1, <2>1 DEF Exit
    <2> QED
      BY <2>2 DEF Done
  <1>32. CASE UNCHANGED vars
    BY <1>32, <1>1, <1>3 DEF vars, Done, i
  <1> QED
    BY <1>4, <1>5, <1>6, <1>7, <1>8, <1>9, <1>10, <1>11, <1>12, <1>13, <1>14, <1>15, <1>16, <1>17, <1>18, <1>19, <1>20, <1>21, <1>22, <1>23, <1>24, <1>25, <1>26, <1>27, <1>28, <1>29, <1>30, <1>31, <1>32
       DEF Done, i, Next, SyncPod, Environment, Sandbox, Container

----------------------------------------------------------------------------
(***************************************************************************)
(* The theorems.                                                           *)
(***************************************************************************)
\* The worker starts in the invariant.
LEMMA InvInit == Init => Inv
  <1> SUFFICES ASSUME Init PROVE Inv
    OBVIOUS
  <1>1. TypeOK
    <2>1. Nothing \in [Names -> 0..MaxRecords] /\ NoRecords \in [Names -> [Records -> RecordState]]
      BY WorkerAssumption DEF Nothing, NoRecords, RecordState
    <2>2. Len(Order) \in Nat /\ MaxCrashes \in Nat
      BY Positions, WorkerAssumption DEF Init
    <2>3. sbx \in BOOLEAN /\ late \in BOOLEAN
      BY DEF Init
    <2> QED
      BY <2>1, <2>2, <2>3 DEF Init, TypeOK, Phase
  <1>2. StartInv /\ InitInv /\ RunInv
    BY DEF Init, StartInv, InitInv, RunInv, InWalk
  <1>3. OneRunning
    BY Positions DEF Init, OneRunning, NoRecords
  <1> QED
    BY <1>1, <1>2, <1>3 DEF Inv

\* The invariant holds throughout.
LEMMA Invariance == Spec => []Inv
  <1>1. Inv /\ [Next]_vars => Inv'
    BY TypeStep, StartStep, InitStep, RunStep, OneStep DEF Inv
  <1> QED
    BY InvInit, <1>1, PTL DEF Spec

\* The types of the worker's memory and of the runtime's records hold, also
\* for the attempts that restart_counts is brought back to after a crash.
THEOREM Typing == Spec => []TypeOK
  <1>1. Inv => TypeOK
    BY DEF Inv
  <1> QED
    BY <1>1, Invariance, PTL

\* No app container runs twice, for any pod, wherever the kubelet crashes and
\* whatever else fails, if containers can be listed, stopped and removed: a
\* container that runs is tracked in container_ids or about to be, and is
\* removed before start_container makes the next one.
THEOREM AppsRunOnce == Spec => []OneRunning
  <1>1. Inv => OneRunning
    BY DEF Inv
  <1> QED
    BY <1>1, Invariance, PTL

\* sync_pod starts an app container only when the runtime holds a completed
\* record of every regular init container, whatever failed or was lost before:
\* the walk cannot be past an init container without having seen it complete
\* in the sandbox that is there now.
THEOREM InitContainersFirst == Spec => InitBeforeApps
  <1> DEFINE Started_ == \A c \in SeqSet(Apps), n \in Records :
                            ctrs[c][n] # "running" /\ ctrs'[c][n] = "running" =>
                               \A i \in Regular : \E m \in Records : ctrs[i][m] = "ok"
  <1>1. Inv /\ [Next]_vars => Started_
    <2> SUFFICES ASSUME Inv, [Next]_vars, NEW c \in SeqSet(Apps), NEW n \in Records,
                        ctrs[c][n] # "running", ctrs'[c][n] = "running", NEW i \in Regular
                 PROVE  \E m \in Records : ctrs[i][m] = "ok"
      OBVIOUS
    <2>1. Run(c)
      BY Positions, NewlyRunning DEF Inv, TypeOK
    <2>2. PICK k \in 1..Len(Init_) : i = Init_[k]
      BY DEF Regular, SeqSet
    <2>3. at \in 1..Len(Order) /\ Order[at] \notin SeqSet(Init_)
      BY <2>1, Positions DEF Inv, TypeOK, Run, Starting
    <2>4. k < at
      <3> SUFFICES ASSUME ~ (k < at) PROVE FALSE
        OBVIOUS
      <3>1. at \in 1..Len(Init_) /\ Order[at] = Init_[at]
        BY <2>3, Positions DEF Inv, TypeOK
      <3> QED
        BY <2>3, <3>1 DEF SeqSet
    <2> QED
      BY <2>1, <2>2, <2>4 DEF Inv, InitInv, InWalk, Run, Starting
  <1> HIDE DEF Started_
  <1>2. Inv /\ [Next]_vars => [Started_]_vars
    BY <1>1
  <1>3. Spec => [][Started_]_vars
    BY <1>2, Invariance, PTL DEF Spec
  <1> QED
    BY <1>3 DEF InitBeforeApps, Started_

----------------------------------------------------------------------------
(***************************************************************************)
(* The pod sources: types.                                                 *)
(***************************************************************************)
\* An update is put into the channel.
LEMMA PutTyped ==
  ASSUME FeedTypeOK, NEW m \in Update, Put(m)
  PROVE  FeedTypeOK'
  <1>1. Cap \in Nat
    BY FeedAssumption
  <1> QED
    BY <1>1 DEF FeedTypeOK, Put

LEMMA DispatchTyped ==
  ASSUME FeedTypeOK, Dispatch
  PROVE  FeedTypeOK'
  <1>0. Cap \in Nat
    BY FeedAssumption
  <1>1. chan # <<>> /\ Head(chan) \in Update /\ chan' = Tail(chan) /\ Tail(chan) \in Seq(Update) /\ Len(Tail(chan)) =< Len(chan)
    BY DEF FeedTypeOK, Dispatch
  <1>2. Head(chan).uid \in Uids /\ Head(chan).ver \in Versions \cup {0}
    BY <1>1 DEF Update
  <1>3. Len(chan') =< Cap
    BY <1>0, <1>1 DEF FeedTypeOK
  <1>4. desired' \in [Uids -> Versions \cup {0}]
    BY <1>2 DEF FeedTypeOK, Dispatch
  <1>5. reaping' \subseteq Uids /\ removed' \subseteq ApiPods
    BY <1>2 DEF FeedTypeOK, Dispatch
  <1> QED
    BY <1>1, <1>3, <1>4, <1>5 DEF FeedTypeOK

\* An object's event.
LEMMA OneEvent ==
  ASSUME NEW p \in ApiPods, NEW o \in Object
  PROVE  [q \in {p} |-> o] \in Event
  <1>1. {p} \in SUBSET ApiPods /\ [q \in {p} |-> o] \in [{p} -> Object]
    OBVIOUS
  <1> QED
    BY <1>1 DEF Event

LEMMA EventOf ==
  ASSUME NEW e \in Event, NEW p \in DOMAIN e
  PROVE  p \in ApiPods /\ e[p] \in Object
  BY DEF Event

LEMMA WriteTyped ==
  ASSUME KubeTypeOK, NEW p \in ApiPods, NEW o \in Object, Write(p, o)
  PROVE  KubeTypeOK'
  <1>1. api' \in [ApiPods -> Object]
    BY DEF KubeTypeOK, Write
  <1>2. stream' \in Seq(Event)
    <2> DEFINE e == [q \in {p} |-> o]
    <2>1. e \in Event
      BY OneEvent
    <2>2. stream' = IF listed THEN Append(stream, e) ELSE stream
      BY DEF Write
    <2> HIDE DEF e
    <2> QED
      BY <2>1, <2>2 DEF KubeTypeOK
  <1>3. missed' \subseteq ApiPods
    BY DEF KubeTypeOK, Write
  <1> QED
    BY <1>1, <1>2, <1>3 DEF KubeTypeOK, Write

LEMMA UpdatesTyped ==
  ASSUME KubeTypeOK, FeedTypeOK
  PROVE  /\ RelistUpdates \subseteq Update
         /\ \A e \in Event : EventUpdates(e) \subseteq Update
  <1>0. ApiPods \subseteq Uids
    BY FeedAssumption
  <1>1. ASSUME NEW o \in Object, o.st = "live"
        PROVE  o.ver \in Versions
    BY <1>1 DEF Object
  <1>2. RelistUpdates \subseteq Update
    <2> SUFFICES ASSUME NEW p \in ApiPods, api[p].st = "live"
                 PROVE  PodToSpec(p, api[p]) \in Update
      BY DEF RelistUpdates
    <2>1. api[p].ver \in Versions
      BY <1>1 DEF KubeTypeOK
    <2> QED
      BY <1>0, <2>1 DEF PodToSpec, Upsert, Update
  <1>3. ASSUME NEW e \in Event, NEW p \in DOMAIN e
        PROVE  (IF e[p].st = "live" THEN PodToSpec(p, e[p]) ELSE Remove(p)) \in Update
    <2>1. p \in Uids /\ (e[p].st = "live" => e[p].ver \in Versions)
      BY <1>0, <1>1, EventOf
    <2> QED
      BY <2>1 DEF PodToSpec, Upsert, Remove, Update
  <1> QED
    BY <1>2, <1>3 DEF EventUpdates

LEMMA ApiTyped ==
  ASSUME FeedTypeOK, KubeTypeOK, Api
  PROVE  FeedTypeOK' /\ KubeTypeOK'
  <1>1. Deleting \in Object /\ Gone \in Object /\ \A v \in Versions : [st |-> "live", ver |-> v] \in Object
    BY DEF Object, Deleting, Gone
  <1>2. PICK p \in ApiPods : (\E v \in Versions : ApiApply(p, v)) \/ ApiDelete(p) \/ ApiErase(p)
    BY DEF Api
  <1>3. /\ \E o \in Object : Write(p, o)
        /\ UNCHANGED feedVars
    BY <1>1, <1>2 DEF ApiApply, ApiDelete, ApiErase
  <1>4. KubeTypeOK'
    BY <1>3, WriteTyped
  <1>5. FeedTypeOK'
    BY <1>3 DEF FeedTypeOK, feedVars
  <1> QED
    BY <1>4, <1>5

LEMMA RuntimeTyped ==
  ASSUME FeedTypeOK, KubeTypeOK, Runtime
  PROVE  FeedTypeOK' /\ KubeTypeOK'
  <1>0. Gone \in Object
    BY DEF Object, Gone
  <1>1. CASE Dispatch /\ UNCHANGED kubeVars
    <2>1. FeedTypeOK'
      BY <1>1, DispatchTyped
    <2> QED
      BY <1>1, <2>1 DEF KubeTypeOK, kubeVars, sourceVars
  <1>2. ASSUME NEW u \in Uids, Reaped(u)
        PROVE  FeedTypeOK' /\ KubeTypeOK'
    <2>1. FeedTypeOK'
      BY <1>2 DEF FeedTypeOK, Reaped
    <2>2. (\E q \in ApiPods : Write(q, Gone)) \/ UNCHANGED kubeVars
      BY <1>2 DEF Reaped
    <2>3. KubeTypeOK'
      BY <1>0, <2>2, WriteTyped DEF KubeTypeOK, kubeVars, sourceVars
    <2> QED
      BY <2>1, <2>3
  <1>3. ASSUME NEW u \in Uids, ReapFails(u)
        PROVE  FeedTypeOK' /\ KubeTypeOK'
    BY <1>3 DEF FeedTypeOK, KubeTypeOK, ReapFails, sourceVars
  <1> QED
    BY <1>1, <1>2, <1>3 DEF Runtime

LEMMA KubeTyped ==
  ASSUME FeedTypeOK, KubeTypeOK, KubeSource
  PROVE  FeedTypeOK' /\ KubeTypeOK'
  <1>0. ASSUME UNCHANGED feedVars
        PROVE  FeedTypeOK'
    BY <1>0 DEF FeedTypeOK, feedVars
  <1>1. CASE WatchList
    <2> DEFINE there == {q \in ApiPods : There(api[q])}
               e == [p \in there |-> api[p]]
    <2>1. e \in Event
      <3>1. there \in SUBSET ApiPods
        OBVIOUS
      <3>2. e \in [there -> Object]
        BY DEF KubeTypeOK
      <3> QED
        BY <3>1, <3>2 DEF Event
    <2>2. stream' = <<e>> /\ listed' = TRUE /\ UNCHANGED <<api, undeleted, kubePc, batch, missed, feedVars>>
      BY <1>1 DEF WatchList
    <2> HIDE DEF e
    <2>3. stream' \in Seq(Event)
      BY <2>1, <2>2
    <2> QED
      BY <1>0, <2>2, <2>3 DEF KubeTypeOK
  <1>2. CASE Relist
    BY <1>0, <1>2, UpdatesTyped DEF Relist, KubeTypeOK
  <1>3. CASE NextEvent
    <2>1. Head(stream) \in Event /\ Tail(stream) \in Seq(Event)
      BY <1>3 DEF NextEvent, KubeTypeOK
    <2>2. EventUpdates(Head(stream)) \subseteq Update
      BY <2>1, UpdatesTyped
    <2> QED
      BY <1>0, <1>3, <2>1, <2>2 DEF NextEvent, KubeTypeOK
  <1>4. CASE KubeSend
    <2>1. PICK m \in batch : Put(m) /\ batch' = batch \ {m}
      BY <1>4 DEF KubeSend
    <2>2. FeedTypeOK'
      BY <2>1, PutTyped DEF KubeTypeOK
    <2> QED
      BY <1>4, <2>1, <2>2 DEF KubeSend, KubeTypeOK
  <1>5. CASE KubeSent
    BY <1>0, <1>5 DEF KubeSent, KubeTypeOK
  <1>6. CASE Break
    <2>1. missed' \subseteq ApiPods
      BY <1>6 DEF Break, KubeTypeOK
    <2>2. /\ kubePc' = "sleep" /\ listed' = FALSE /\ stream' = <<>>
          /\ UNCHANGED <<api, undeleted, batch, feedVars>>
      BY <1>6 DEF Break
    <2>3. FeedTypeOK'
      BY <1>0, <2>2
    <2>4. stream' \in Seq(Event)
      BY <2>2
    <2> QED
      BY <2>1, <2>2, <2>3, <2>4 DEF KubeTypeOK
  <1>7. CASE Reconnect
    BY <1>0, <1>7 DEF Reconnect, KubeTypeOK
  <1> QED
    BY <1>1, <1>2, <1>3, <1>4, <1>5, <1>6, <1>7 DEF KubeSource

LEMMA DirectoryTyped ==
  ASSUME FeedTypeOK, FileTypeOK, Directory
  PROVE  FeedTypeOK' /\ FileTypeOK'
  <1>0. MaxEdits \in Nat
    BY FileAssumption
  <1>1. FeedTypeOK'
    BY DEF FeedTypeOK, feedVars, Directory, FileEdit, DiskChange
  <1>2. ASSUME NEW f \in Files, NEW c \in Manifests \cup {Missing, Garbled}, FileEdit(f, c)
        PROVE  FileTypeOK'
    BY <1>0, <1>2 DEF FileTypeOK, FileEdit, pollVars
  <1>3. CASE DiskChange
    BY <1>0, <1>1, <1>3 DEF FileTypeOK, DiskChange, pollVars
  <1> QED
    BY <1>1, <1>2, <1>3 DEF Directory

LEMMA FileTyped ==
  ASSUME FeedTypeOK, FileTypeOK, FileSource
  PROVE  FeedTypeOK' /\ FileTypeOK'
  <1>0. ASSUME UNCHANGED feedVars
        PROVE  FeedTypeOK'
    BY <1>0 DEF FeedTypeOK, feedVars
  <1>1. ASSUME NEW f \in Files, NextEntry(f)
        PROVE  FeedTypeOK' /\ FileTypeOK'
    BY <1>0, <1>1 DEF FileTypeOK, NextEntry, dirVars
  <1>2. ASSUME NEW f \in Files, ReadManifest(f)
        PROVE  FeedTypeOK' /\ FileTypeOK'
    <2>1. files[f] \in Manifests /\ files[f].uid \in Uids /\ files[f].ver \in Versions
      BY <1>2, FileAssumption DEF ReadManifest
    <2>2. ParseManifest(files[f]) \in Update
      BY <2>1 DEF ParseManifest, Upsert, Update
    <2>3. fileKnown' \in [Files -> Uids \cup {NoUid}] /\ replaced' \subseteq Uids
      BY <1>2, <2>1 DEF FileTypeOK, ReadManifest, Insert
    <2> QED
      BY <1>0, <1>2, <2>2, <2>3 DEF FileTypeOK, ReadManifest, dirVars
  <1>3. ASSUME NEW f \in Files, ReadFails(f)
        PROVE  FeedTypeOK' /\ FileTypeOK'
    BY <1>0, <1>3 DEF FileTypeOK, ReadFails, dirVars
  <1>4. ASSUME NEW f \in Files, FileRemove(f)
        PROVE  FeedTypeOK' /\ FileTypeOK'
    <2>1. fileKnown[f] \in Uids
      BY <1>4 DEF FileTypeOK, FileRemove, GonePaths
    <2>2. Remove(fileKnown[f]) \in Update
      BY <2>1 DEF Remove, Update
    <2>3. FeedTypeOK'
      BY <1>4, <2>2, PutTyped DEF FileRemove
    <2> QED
      BY <1>4, <2>3 DEF FileTypeOK, FileRemove, dirVars
  <1>5. CASE ReadDir
    BY <1>0, <1>5 DEF FileTypeOK, ReadDir, dirVars
  <1>6. CASE SkipPoll
    BY <1>0, <1>6 DEF FileTypeOK, SkipPoll, fileVars, dirVars, pollVars
  <1>7. CASE FileSend
    <2>1. FeedTypeOK'
      BY <1>7, PutTyped DEF FileSend, FileTypeOK
    <2> QED
      BY <1>7, <2>1 DEF FileTypeOK, FileSend, dirVars
  <1>8. CASE ScanEnd
    BY <1>0, <1>8 DEF FileTypeOK, ScanEnd, dirVars
  <1>9. CASE FileSleep
    BY <1>0, <1>9 DEF FileTypeOK, FileSleep, dirVars
  <1> QED
    BY <1>1, <1>2, <1>3, <1>4, <1>5, <1>6, <1>7, <1>8, <1>9 DEF FileSource

\* What an item may be given is a UID.
LEMMA ItemUidTyped ==
  ASSUME UrlTypeOK, NEW i \in Items, fetched[i] # NoItem, NEW found \in LookUp(i)
  PROVE  /\ fetched[i].uid \in ItemUids \cup {NoUid} /\ fetched[i].ver \in Versions
         /\ found \in Mirror[i] \cup {NoUid}
         /\ ItemUid(i, found) \in Uids
  <1>1. fetched[i] \in Item
    BY DEF UrlTypeOK
  <1>2. fetched[i].uid \in ItemUids \cup {NoUid} /\ fetched[i].ver \in Versions
    BY <1>1 DEF Item
  <1>3. found \in Mirror[i] \cup {NoUid} /\ Mirror[i] \subseteq Uids
    BY UrlAssumption, FeedAssumption DEF LookUp
  <1>4. Synthetic[i] \in Uids /\ ItemUids \subseteq Uids
    BY UrlAssumption
  <1>5. committed[i] \in Uids \cup {NoUid}
    BY DEF UrlTypeOK
  <1> QED
    BY <1>2, <1>3, <1>4, <1>5 DEF ItemUid

LEMMA UrlTyped ==
  ASSUME FeedTypeOK, UrlTypeOK, UrlSource
  PROVE  FeedTypeOK' /\ UrlTypeOK'
  <1>0. ASSUME UNCHANGED feedVars
        PROVE  FeedTypeOK'
    BY <1>0 DEF FeedTypeOK, feedVars
  <1>1. ASSUME NEW i \in Items, Resolve(i)
        PROVE  FeedTypeOK' /\ UrlTypeOK'
    <2>1. PICK found \in LookUp(i) :
            /\ committed' = [committed EXCEPT ![i] = IF @ = NoUid THEN ItemUid(i, found) ELSE @]
            /\ urlCurrent' = urlCurrent \cup {ItemUid(i, found)}
            /\ urlKnown' = urlKnown \cup {ItemUid(i, found)}
            /\ urlOut' = {ParsePod(ItemUid(i, found), fetched[i])}
      BY <1>1 DEF Resolve
    <2>2. fetched[i] # NoItem
      BY <1>1 DEF Resolve
    <2>3. ItemUid(i, found) \in Uids /\ fetched[i].ver \in Versions
      BY <2>2, ItemUidTyped
    <2>4. ParsePod(ItemUid(i, found), fetched[i]) \in Update
      BY <2>3 DEF ParsePod, Upsert, Update
    <2>5. /\ committed' \in [Items -> Uids \cup {NoUid}] /\ urlCurrent' \subseteq Uids /\ urlKnown' \subseteq Uids
          /\ urlOut' \subseteq Update
      BY <2>1, <2>3, <2>4 DEF UrlTypeOK
    <2> QED
      BY <1>0, <1>1, <2>5 DEF UrlTypeOK, Resolve
  <1>2. ASSUME NEW u \in Uids, UrlRemove(u)
        PROVE  FeedTypeOK' /\ UrlTypeOK'
    <2>1. Remove(u) \in Update
      BY DEF Remove, Update
    <2>2. FeedTypeOK'
      BY <1>2, <2>1, PutTyped DEF UrlRemove
    <2> QED
      BY <1>2, <2>2 DEF UrlTypeOK, UrlRemove
  <1>3. CASE Fetch
    BY <1>0, <1>3 DEF UrlTypeOK, Fetch
  <1>4. CASE UrlSend
    <2>1. FeedTypeOK'
      BY <1>4, PutTyped DEF UrlSend, UrlTypeOK
    <2> QED
      BY <1>4, <2>1 DEF UrlTypeOK, UrlSend
  <1>5. CASE ItemsEnd
    BY <1>0, <1>5 DEF UrlTypeOK, ItemsEnd, Retained
  <1>6. CASE UrlSleep
    BY <1>0, <1>6 DEF UrlTypeOK, UrlSleep
  <1> QED
    BY <1>1, <1>2, <1>3, <1>4, <1>5, <1>6 DEF UrlSource

LEMMA EndpointTyped ==
  ASSUME FeedTypeOK, UrlTypeOK, Endpoint
  PROVE  FeedTypeOK' /\ UrlTypeOK'
  <1>0. MaxPages \in Nat
    BY UrlAssumption
  <1>1. PICK i \in Items, c \in Item \cup {NoItem} : Publish(i, c)
    BY DEF Endpoint
  <1>2. FeedTypeOK'
    BY <1>1 DEF FeedTypeOK, feedVars, Publish
  <1> QED
    BY <1>0, <1>1, <1>2 DEF UrlTypeOK, Publish, pollUrlVars

LEMMA SourcesTypeStep == SourcesTypeOK /\ [SourcesNext]_allVars => SourcesTypeOK'
  <1> SUFFICES ASSUME SourcesTypeOK, [SourcesNext]_allVars PROVE SourcesTypeOK'
    OBVIOUS
  <1>0. FeedTypeOK /\ KubeTypeOK /\ FileTypeOK /\ UrlTypeOK
    BY DEF SourcesTypeOK
  <1>1. UNCHANGED conf => conf' \in Configurations
    BY DEF SourcesTypeOK
  <1>2. UNCHANGED feedVars => FeedTypeOK'
    BY <1>0 DEF FeedTypeOK, feedVars
  <1>3. UNCHANGED kubeVars => KubeTypeOK'
    BY <1>0 DEF KubeTypeOK, kubeVars, sourceVars
  <1>4. UNCHANGED fileVars => FileTypeOK'
    BY <1>0 DEF FileTypeOK, fileVars, dirVars, pollVars
  <1>5. UNCHANGED urlVars => UrlTypeOK'
    BY <1>0 DEF UrlTypeOK, urlVars, pollUrlVars
  <1>6. CASE Runtime /\ UNCHANGED <<conf, fileVars, urlVars>>
    BY <1>0, <1>1, <1>4, <1>5, <1>6, RuntimeTyped DEF SourcesTypeOK
  <1>7. CASE Api /\ UNCHANGED <<conf, fileVars, urlVars>>
    BY <1>0, <1>1, <1>4, <1>5, <1>7, ApiTyped DEF SourcesTypeOK
  <1>8. CASE KubeSource /\ UNCHANGED <<conf, fileVars, urlVars>>
    BY <1>0, <1>1, <1>4, <1>5, <1>8, KubeTyped DEF SourcesTypeOK
  <1>9. CASE (FileSource \/ Directory) /\ UNCHANGED <<conf, kubeVars, urlVars>>
    BY <1>0, <1>1, <1>3, <1>5, <1>9, FileTyped, DirectoryTyped DEF SourcesTypeOK
  <1>10. CASE (UrlSource \/ Endpoint) /\ UNCHANGED <<conf, fileVars>>
    <2>1. UNCHANGED kubeVars
      BY <1>10 DEF UrlSource, Endpoint, Resolve, UrlRemove, Fetch, UrlSend, ItemsEnd, UrlSleep, Publish
    <2> QED
      BY <1>0, <1>1, <1>3, <1>4, <1>10, <2>1, UrlTyped, EndpointTyped DEF SourcesTypeOK
  <1>11. CASE UNCHANGED allVars
    BY <1>1, <1>2, <1>3, <1>4, <1>5, <1>11 DEF allVars, SourcesTypeOK
  <1> QED
    BY <1>6, <1>7, <1>8, <1>9, <1>10, <1>11 DEF SourcesNext

(***************************************************************************)
(* The pod sources: an item of the URL source is known under one UID.      *)
(***************************************************************************)
\* What an item without a UID of its own is known by is committed, or will be
\* removed before the next fetch.
UrlInv ==
  /\ \A i \in Items : committed[i] \in Candidates(i) \cup ItemUids \cup {NoUid}
  /\ \A i \in Items : \A u \in urlKnown \cap Candidates(i) : committed[i] = u \/ (urlPc = "removed" /\ u \notin urlCurrent)
  /\ OneUidPerItem

LEMMA ResolveOne ==
  ASSUME UrlTypeOK, UrlInv, NEW i \in Items, Resolve(i)
  PROVE  UrlInv'
  <1>0. \A j \in Items : Candidates(j) \subseteq Uids /\ NoUid \notin Candidates(j) /\ Candidates(j) \cap ItemUids = {}
    BY UrlAssumption, FeedAssumption DEF Candidates
  <1>1. PICK found \in LookUp(i) :
          /\ committed' = [committed EXCEPT ![i] = IF @ = NoUid THEN ItemUid(i, found) ELSE @]
          /\ urlKnown' = urlKnown \cup {ItemUid(i, found)}
    BY DEF Resolve
  <1>2. fetched[i] # NoItem /\ urlPc = "items" /\ urlPc' = "send"
    BY DEF Resolve
  <1> DEFINE u == ItemUid(i, found)
  <1>3. /\ fetched[i].uid \in ItemUids \cup {NoUid}
        /\ found \in Mirror[i] \cup {NoUid}
        /\ u \in Uids
    BY <1>2, ItemUidTyped
  <1>4. committed \in [Items -> Uids \cup {NoUid}]
    BY DEF UrlTypeOK
  <1>5. u \in Candidates(i) \cup ItemUids
    BY <1>3 DEF ItemUid, Candidates, UrlInv
  <1>6. u \in Candidates(i) => committed[i] \in {NoUid, u}
    BY <1>0, <1>3 DEF ItemUid, Candidates, UrlInv
  <1>7. /\ committed'[i] = IF committed[i] = NoUid THEN u ELSE committed[i]
        /\ \A j \in Items \ {i} : committed'[j] = committed[j]
    BY <1>1, <1>4
  <1>8. \A j \in Items : \A v \in urlKnown \cap Candidates(j) : committed[j] = v
    BY <1>2 DEF UrlInv
  <1>9. \A j \in Items \ {i} : u \notin Candidates(j)
    BY <1>0, <1>5, UrlAssumption
  <1> HIDE DEF u
  <1>10. \A j \in Items : committed'[j] \in Candidates(j) \cup ItemUids \cup {NoUid}
    BY <1>5, <1>7 DEF UrlInv
  <1>11. ASSUME NEW j \in Items, NEW v \in urlKnown' \cap Candidates(j)
         PROVE  committed'[j] = v
    <2>1. CASE j = i /\ v = u
      BY <1>6, <1>7, <1>11, <2>1
    <2>2. CASE v # u
      <3>1. v \in urlKnown /\ committed[j] = v
        BY <1>1, <1>8, <1>11, <2>2 DEF u
      <3>2. v # NoUid
        BY <1>0, <1>11
      <3> QED
        BY <1>7, <3>1, <3>2
    <2> QED
      BY <1>9, <1>11, <2>1, <2>2
  <1>12. \A j \in Items : Candidates(j)' = Candidates(j)
    BY DEF Candidates
  <1> QED
    BY <1>10, <1>11, <1>12 DEF UrlInv, OneUidPerItem

LEMMA UrlInvStep ==
  ASSUME UrlTypeOK, UrlInv, [SourcesNext]_allVars
  PROVE  UrlInv'
  <1>0. \A j \in Items : Candidates(j)' = Candidates(j)
    BY DEF Candidates
  <1>1. ASSUME UNCHANGED <<committed, urlKnown, urlCurrent, urlPc>>
        PROVE  UrlInv'
    BY <1>1 DEF UrlInv, OneUidPerItem, Candidates
  <1>2. ASSUME UNCHANGED <<committed, urlKnown, urlCurrent>>, urlPc # "removed"
        PROVE  UrlInv'
    BY <1>0, <1>2 DEF UrlInv, OneUidPerItem
  <1>3. ASSUME NEW i \in Items, Resolve(i)
        PROVE  UrlInv'
    BY <1>3, ResolveOne
  <1>4. ASSUME NEW u \in Uids, UrlRemove(u)
        PROVE  UrlInv'
    BY <1>0, <1>4 DEF UrlInv, OneUidPerItem, UrlRemove
  <1>5. CASE Fetch
    BY <1>2, <1>5 DEF Fetch
  <1>6. CASE UrlSend
    BY <1>2, <1>6 DEF UrlSend
  <1>7. CASE ItemsEnd
    <2>1. /\ committed' = Retained /\ urlPc = "items" /\ urlPc' = "removed"
          /\ urlKnown' = urlKnown /\ urlCurrent' = urlCurrent
      BY <1>7 DEF ItemsEnd
    <2>2. \A j \in Items : committed'[j] = IF committed[j] \in urlCurrent THEN committed[j] ELSE NoUid
      BY <2>1 DEF Retained
    <2> QED
      BY <1>0, <2>1, <2>2 DEF UrlInv, OneUidPerItem
  <1>8. CASE UrlSleep
    <2>1. /\ urlPc = "removed" /\ urlKnown \subseteq urlCurrent
          /\ UNCHANGED <<committed, urlKnown>>
      BY <1>8 DEF UrlSleep, UrlGone
    <2> QED
      BY <1>0, <2>1 DEF UrlInv, OneUidPerItem
  <1>9. CASE UNCHANGED urlVars
    BY <1>1, <1>9 DEF urlVars, pollUrlVars
  <1>10. CASE Endpoint
    BY <1>1, <1>10 DEF Endpoint, Publish, pollUrlVars
  <1> QED
    BY <1>3, <1>4, <1>5, <1>6, <1>7, <1>8, <1>9, <1>10 DEF SourcesNext, allVars, UrlSource

(***************************************************************************)
(* The pod sources: the file source has pods of its own.                   *)
(***************************************************************************)
FileInv ==
  /\ \A m \in fileOut : m.uid \notin ApiPods
  /\ \A f \in Files : fileKnown[f] \notin ApiPods

LEMMA FileInvStep ==
  ASSUME FileTypeOK, FileInv, [SourcesNext]_allVars
  PROVE  FileInv'
  <1>0. NoUid \notin ApiPods
    BY FeedAssumption
  <1>1. ASSUME UNCHANGED <<fileOut, fileKnown>>
        PROVE  FileInv'
    BY <1>1 DEF FileInv
  <1>2. ASSUME NEW f \in Files, ReadManifest(f)
        PROVE  FileInv'
    <2>1. files[f].uid \notin ApiPods
      BY <1>2, FileAssumption DEF ReadManifest
    <2>2. fileOut' = {ParseManifest(files[f])} /\ ParseManifest(files[f]).uid = files[f].uid
      BY <1>2 DEF ReadManifest, ParseManifest, Upsert
    <2>3. fileKnown' = [fileKnown EXCEPT ![f] = files[f].uid]
      BY <1>2 DEF ReadManifest, Insert
    <2> QED
      BY <2>1, <2>2, <2>3 DEF FileInv, FileTypeOK
  <1>3. ASSUME NEW f \in Files, FileRemove(f)
        PROVE  FileInv'
    BY <1>0, <1>3 DEF FileRemove, FileInv, FileTypeOK
  <1>4. CASE FileSend
    BY <1>4 DEF FileSend, FileInv
  <1>5. ASSUME NEW f \in Files, NextEntry(f) \/ ReadFails(f)
        PROVE  FileInv'
    BY <1>1, <1>5 DEF NextEntry, ReadFails
  <1>6. CASE ReadDir \/ SkipPoll \/ ScanEnd \/ FileSleep
    BY <1>1, <1>6 DEF ReadDir, SkipPoll, ScanEnd, FileSleep, fileVars, pollVars
  <1>7. CASE Directory
    BY <1>1, <1>7 DEF Directory, FileEdit, DiskChange, pollVars
  <1>8. CASE UNCHANGED fileVars
    BY <1>1, <1>8 DEF fileVars, pollVars
  <1> QED
    BY <1>2, <1>3, <1>4, <1>5, <1>6, <1>7, <1>8 DEF SourcesNext, FileSource, allVars

(***************************************************************************)
(* The pod sources: the API source alone.                                  *)
(***************************************************************************)
\* p has been marked for deletion or erased, for good.
Dying(o) == o.st \in {"deleting", "gone"}
\* Of p, the updates M, the channel c and the stream s hold no spec.
NoneIn(M, p) == \A m \in M : m.uid = p => m.ver = 0
NoneSent(c, p) == \A k \in 1 .. Len(c) : c[k].uid = p => c[k].ver = 0
NoneLive(s, p) == \A k \in 1 .. Len(s) : p \in DOMAIN s[k] => s[k][p].st # "live"
\* The stream s tells that p, which is o by now, goes.
Told(s, p) == \E k \in 1 .. Len(s) : p \in DOMAIN s[k] /\ s[k][p].st # "live"

\* What the stream s tells of p, which is o by now: once that it goes, nothing
\* else any more, and of a pod that is gone all up to its end.
EndsIn(s, p, o) ==
  \A k \in 1 .. Len(s) : p \in DOMAIN s[k] =>
    /\ s[k][p].st # "live" =>
         /\ Dying(o)
         /\ \A l \in k .. Len(s) : p \in DOMAIN s[l] => s[l][p].st # "live"
    /\ o = Gone => \E l \in k .. Len(s) : p \in DOMAIN s[l] /\ s[l][p] = Gone

WatcherInv ==
  /\ ~ listed => stream = <<>>
  /\ kubePc # "send" => batch = {}
  /\ \A m, n \in batch : m.uid = n.uid => m = n

\* A removal of p is sent or done.
Removing(p) == InChan(Remove(p)) \/ Remove(p) \in batch \/ p \in removed

\* Nothing that follows the removal of p brings it back.
RemovalIsLast(p) ==
  /\ Removing(p) => Dying(api[p]) /\ NoneLive(stream, p)
  /\ InChan(Remove(p)) \/ p \in removed => NoneIn(batch, p)
  /\ \A k, l \in 1 .. Len(chan) : k < l /\ chan[k] = Remove(p) /\ chan[l].uid = p => chan[l].ver = 0
  /\ p \in removed => desired[p] = 0 /\ NoneSent(chan, p)

\* p is not desired, nor is it going to be.
Quiet(p) == desired[p] = 0 /\ NoneSent(chan, p) /\ NoneIn(batch, p) /\ NoneLive(stream, p)
Underway(p) == InChan(Remove(p)) \/ Remove(p) \in batch \/ Told(stream, p)
GoneIsTold(p) == api[p] = Gone /\ p \notin missed => Underway(p) \/ Quiet(p)

PodInv(p) == EndsIn(stream, p, api[p]) /\ RemovalIsLast(p) /\ GoneIsTold(p)
KubeInv == WatcherInv /\ \A p \in ApiPods : PodInv(p)

\* The updates of an event.
LEMMA EventTells ==
  ASSUME NEW e \in Event, NEW p \in ApiPods
  PROVE  /\ Remove(p) \in EventUpdates(e) <=> p \in DOMAIN e /\ e[p].st # "live"
         /\ \A m \in EventUpdates(e) : m.uid = p => p \in DOMAIN e /\ (m.ver = 0 \/ e[p].st = "live")
         /\ \A m, n \in EventUpdates(e) : m.uid = n.uid => m = n
  <1>1. ASSUME NEW q \in DOMAIN e
        PROVE  LET m == IF e[q].st = "live" THEN PodToSpec(q, e[q]) ELSE Remove(q)
               IN  m.uid = q /\ (e[q].st = "live" => m.ver # 0) /\ (e[q].st # "live" => m = Remove(q) /\ m.ver = 0)
    <2>1. e[q].st = "live" => e[q].ver # 0
      BY EventOf, FeedAssumption DEF Object
    <2> QED
      BY <2>1 DEF PodToSpec, Upsert, Remove
  <1>2. Remove(p).uid = p /\ Remove(p).ver = 0
    BY DEF Remove
  <1> DEFINE of(q) == IF e[q].st = "live" THEN PodToSpec(q, e[q]) ELSE Remove(q)
  <1>3. EventUpdates(e) = {of(q) : q \in DOMAIN e}
    BY DEF EventUpdates
  <1>4. \A q \in DOMAIN e : of(q).uid = q /\ (e[q].st = "live" => of(q).ver # 0) /\ (e[q].st # "live" => of(q) = Remove(q) /\ of(q).ver = 0)
    BY <1>1
  <1> HIDE DEF of
  <1> QED
    BY <1>2, <1>3, <1>4

LEMMA UnderwayIs ==
  ASSUME KubeTypeOK, NEW p \in ApiPods
  PROVE  RemovalUnderway(p) <=> Underway(p)
  <1>1. \A k \in 1 .. Len(stream) : stream[k] \in Event
    BY DEF KubeTypeOK
  <1> QED
    BY <1>1, EventTells DEF RemovalUnderway, Underway, Told

\* A write of an object that goes on: what is dying can only be erased.
LEMMA WriteKept ==
  ASSUME FeedTypeOK, KubeTypeOK, KubeInv, NEW q \in ApiPods, NEW o \in Object, Write(q, o),
         o.st # "none", Dying(api[q]) => o = Gone, UNCHANGED <<chan, desired, removed>>
  PROVE  KubeInv'
  <1> DEFINE e == [x \in {q} |-> o]
  <1>1. /\ api' = [api EXCEPT ![q] = o]
        /\ stream' = IF listed THEN Append(stream, e) ELSE stream
        /\ missed' = IF o = Gone /\ ~ listed THEN missed \cup {q} ELSE missed
        /\ UNCHANGED <<kubePc, listed, batch>>
    BY DEF Write
  <1>2. DOMAIN e = {q} /\ e[q] = o
    OBVIOUS
  <1>3. o.st = "live" \/ Dying(o)
    BY DEF Object, Dying
  <1>4. Gone.st # "live" /\ Dying(Gone)
    BY DEF Gone, Dying
  <1> HIDE DEF e
  <1>5. WatcherInv'
    BY <1>1 DEF WatcherInv, KubeInv
  <1>6. stream \in Seq(Event) /\ (~ listed => stream = <<>>)
    BY DEF KubeTypeOK, KubeInv, WatcherInv
  <1>7. /\ Len(stream') = IF listed THEN Len(stream) + 1 ELSE Len(stream)
        /\ \A k \in 1 .. Len(stream) : stream'[k] = stream[k]
        /\ listed => stream'[Len(stream) + 1] = e
    <2>1. e \in Event
      BY OneEvent DEF e
    <2> QED
      BY <1>1, <1>6, <2>1
  <1>8. ASSUME NEW p \in ApiPods
        PROVE  PodInv(p)'
    <2>1. PodInv(p)
      BY DEF KubeInv
    <2>2. CASE p # q
      <3>1. api'[p] = api[p]
        BY <1>1, <2>2 DEF KubeTypeOK
      <3>2. \A k \in 1 .. Len(stream') : p \in DOMAIN stream'[k] => k \in 1 .. Len(stream) /\ stream'[k] = stream[k]
        BY <1>2, <1>6, <1>7, <2>2
      <3>3. EndsIn(stream', p, api'[p])
        <4> SUFFICES ASSUME NEW k \in 1 .. Len(stream'), p \in DOMAIN stream'[k]
                     PROVE  /\ stream'[k][p].st # "live" =>
                                /\ Dying(api[p])
                                /\ \A l \in k .. Len(stream') : p \in DOMAIN stream'[l] => stream'[l][p].st # "live"
                            /\ api[p] = Gone => \E l \in k .. Len(stream') : p \in DOMAIN stream'[l] /\ stream'[l][p] = Gone
          BY <3>1 DEF EndsIn
        <4>1. k \in 1 .. Len(stream) /\ stream'[k] = stream[k] /\ p \in DOMAIN stream[k]
          BY <3>2
        <4>2. Len(stream) \in Nat /\ Len(stream') \in Nat /\ Len(stream) =< Len(stream')
          BY <1>6, <1>7
        <4>3. \A l \in k .. Len(stream') : p \in DOMAIN stream'[l] => l \in k .. Len(stream) /\ stream'[l] = stream[l]
          BY <3>2, <4>1, <4>2
        <4>4. /\ stream[k][p].st # "live" =>
                  /\ Dying(api[p])
                  /\ \A l \in k .. Len(stream) : p \in DOMAIN stream[l] => stream[l][p].st # "live"
              /\ api[p] = Gone => \E l \in k .. Len(stream) : p \in DOMAIN stream[l] /\ stream[l][p] = Gone
          BY <2>1, <4>1 DEF PodInv, EndsIn
        <4>5. \A l \in k .. Len(stream) : l \in k .. Len(stream') /\ stream'[l] = stream[l]
          BY <1>7, <4>1, <4>2
        <4> QED
          BY <4>1, <4>3, <4>4, <4>5
      <3>4. NoneLive(stream', p) <=> NoneLive(stream, p)
        BY <1>6, <1>7, <3>2 DEF NoneLive
      <3>5. Told(stream', p) <=> Told(stream, p)
        BY <1>6, <1>7, <3>2 DEF Told
      <3>6. RemovalIsLast(p)'
        BY <1>1, <2>1, <3>1, <3>4 DEF PodInv, RemovalIsLast, Removing, InChan
      <3>7. GoneIsTold(p)'
        BY <1>1, <2>1, <2>2, <3>1, <3>4, <3>5 DEF PodInv, GoneIsTold, Underway, Quiet, InChan
      <3> QED
        BY <3>3, <3>6, <3>7 DEF PodInv
    <2>3. CASE p = q
      <3>1. api'[p] = o
        BY <1>1, <2>3 DEF KubeTypeOK
      <3>2. listed => p \in DOMAIN stream'[Len(stream')] /\ stream'[Len(stream')][p] = o /\ Len(stream') \in 1 .. Len(stream')
        BY <1>2, <1>6, <1>7, <2>3
      <3>3. ~ listed => Len(stream') = 0
        BY <1>6, <1>7
      <3>4. EndsIn(stream', p, o)
        <4> SUFFICES ASSUME NEW k \in 1 .. Len(stream'), p \in DOMAIN stream'[k]
                     PROVE  /\ stream'[k][p].st # "live" =>
                                 /\ Dying(o)
                                 /\ \A l \in k .. Len(stream') : p \in DOMAIN stream'[l] => stream'[l][p].st # "live"
                            /\ o = Gone => \E l \in k .. Len(stream') : p \in DOMAIN stream'[l] /\ stream'[l][p] = Gone
          BY DEF EndsIn
        <4>1. listed /\ Len(stream') = Len(stream) + 1 /\ Len(stream) \in Nat
          BY <1>6, <1>7, <3>3
        <4>2. CASE k = Len(stream')
          BY <1>3, <3>2, <4>1, <4>2
        <4>3. CASE k \in 1 .. Len(stream)
          <5>1. p \in DOMAIN stream[k] /\ stream'[k] = stream[k]
            BY <1>7, <4>3
          <5>2. stream[k][p].st # "live" =>
                  Dying(api[p]) /\ \A l \in k .. Len(stream) : p \in DOMAIN stream[l] => stream[l][p].st # "live"
            BY <2>1, <4>3, <5>1 DEF PodInv, EndsIn
          <5>3. stream[k][p].st # "live" => o = Gone
            BY <2>3, <5>2
          <5> QED
            BY <1>4, <1>7, <3>2, <4>1, <4>3, <5>1, <5>2, <5>3
        <4> QED
          BY <4>1, <4>2, <4>3
      <3>5. ASSUME Removing(p)
            PROVE  Dying(o) /\ NoneLive(stream', p)
        <4>1. Dying(api[p]) /\ NoneLive(stream, p)
          BY <2>1, <3>5 DEF PodInv, RemovalIsLast
        <4>2. o = Gone
          BY <2>3, <4>1
        <4> QED
          BY <1>4, <1>6, <1>7, <3>2, <4>1, <4>2 DEF NoneLive
      <3>6. RemovalIsLast(p)'
        <4>1. Removing(p)' <=> Removing(p)
          BY <1>1 DEF Removing, InChan
        <4> QED
          BY <1>1, <2>1, <3>1, <3>5, <4>1 DEF PodInv, RemovalIsLast, InChan
      <3>7. GoneIsTold(p)'
        BY <1>1, <1>4, <2>3, <3>1, <3>2 DEF GoneIsTold, Underway, Told
      <3> QED
        BY <3>1, <3>4, <3>6, <3>7 DEF PodInv
    <2> QED
      BY <2>2, <2>3
  <1> QED
    BY <1>5, <1>8 DEF KubeInv

LEMMA WatchListKept ==
  ASSUME FeedTypeOK, KubeTypeOK, KubeInv, WatchList
  PROVE  KubeInv'
  <1> DEFINE e == [p \in {q \in ApiPods : There(api[q])} |-> api[p]]
  <1>1. ~ listed /\ listed' = TRUE /\ stream' = <<e>> /\ UNCHANGED <<api, kubePc, batch, missed, chan, desired, removed>>
    BY DEF WatchList, feedVars
  <1>2. \A p \in ApiPods : p \in DOMAIN e => There(api[p]) /\ e[p] = api[p]
    OBVIOUS
  <1>3. stream = <<>>
    BY <1>1 DEF KubeInv, WatcherInv
  <1> HIDE DEF e
  <1>4. Len(stream') = 1 /\ stream'[1] = e
    BY <1>1
  <1>5. WatcherInv'
    BY <1>1 DEF WatcherInv, KubeInv
  <1>6. ASSUME NEW p \in ApiPods
        PROVE  PodInv(p)'
    <2>1. PodInv(p)
      BY DEF KubeInv
    <2>2. There(api[p]) => api[p] # Gone /\ (api[p].st # "live" => Dying(api[p]))
      BY DEF There, Gone, Dying
    <2>3. EndsIn(stream', p, api'[p])
      BY <1>1, <1>2, <1>4, <2>2 DEF EndsIn
    <2>4. Dying(api[p]) => NoneLive(stream', p)
      BY <1>2, <1>4 DEF NoneLive, Dying
    <2>5. RemovalIsLast(p)'
      BY <1>1, <2>1, <2>4 DEF PodInv, RemovalIsLast, Removing, InChan
    <2>6. GoneIsTold(p)'
      <3>1. Underway(p) => Underway(p)'
        BY <1>1, <1>3 DEF Underway, Told, InChan
      <3>2. Dying(Gone)
        BY DEF Dying, Gone
      <3> QED
        BY <1>1, <2>1, <2>4, <3>1, <3>2 DEF PodInv, GoneIsTold, Quiet
    <2> QED
      BY <1>1, <2>3, <2>5, <2>6 DEF PodInv
  <1> QED
    BY <1>5, <1>6 DEF KubeInv

LEMMA RelistKept ==
  ASSUME FeedTypeOK, KubeTypeOK, KubeInv, Relist
  PROVE  KubeInv'
  <1>1. /\ kubePc' = "send" /\ batch' = RelistUpdates
        /\ UNCHANGED <<api, listed, stream, missed, chan, desired, removed>>
    BY DEF Relist, feedVars
  <1>2. batch = {}
    BY DEF Relist, KubeInv, WatcherInv
  <1>3. \A m \in RelistUpdates : m.uid \in ApiPods /\ api[m.uid].st = "live" /\ m = PodToSpec(m.uid, api[m.uid]) /\ m.ver # 0
    <2> SUFFICES ASSUME NEW q \in ApiPods, api[q].st = "live"
                 PROVE  PodToSpec(q, api[q]).uid = q /\ PodToSpec(q, api[q]).ver # 0
      BY DEF RelistUpdates
    <2>1. api[q].ver # 0
      BY FeedAssumption DEF KubeTypeOK, Object
    <2> QED
      BY <2>1 DEF PodToSpec, Upsert
  <1>4. WatcherInv'
    BY <1>1, <1>3 DEF WatcherInv, KubeInv
  <1>5. ASSUME NEW p \in ApiPods
        PROVE  PodInv(p)'
    <2>1. PodInv(p)
      BY DEF KubeInv
    <2>2. Dying(api[p]) => NoneIn(batch', p)
      BY <1>1, <1>3 DEF NoneIn, Dying
    <2>3. Remove(p) \notin batch'
      BY <1>1, <1>3 DEF Remove
    <2>4. Removing(p)' => Removing(p)
      BY <1>1, <2>3 DEF Removing, InChan
    <2>5. Underway(p) => Underway(p)'
      BY <1>1, <1>2 DEF Underway, InChan
    <2>6. Dying(Gone)
      BY DEF Dying, Gone
    <2>7. RemovalIsLast(p)'
      BY <1>1, <2>1, <2>2, <2>4 DEF PodInv, RemovalIsLast, Removing, InChan
    <2>8. GoneIsTold(p)'
      BY <1>1, <2>1, <2>2, <2>5, <2>6 DEF PodInv, GoneIsTold, Quiet
    <2> QED
      BY <1>1, <2>1, <2>7, <2>8 DEF PodInv
  <1> QED
    BY <1>4, <1>5 DEF KubeInv

LEMMA NextEventKept ==
  ASSUME FeedTypeOK, KubeTypeOK, KubeInv, NextEvent
  PROVE  KubeInv'
  <1> DEFINE e == Head(stream)
  <1>1. /\ kubePc' = "send" /\ batch' = EventUpdates(e) /\ stream # <<>> /\ stream' = Tail(stream)
        /\ UNCHANGED <<api, listed, missed, chan, desired, removed>>
    BY DEF NextEvent, feedVars
  <1>2. batch = {}
    BY DEF NextEvent, KubeInv, WatcherInv
  <1>3. stream \in Seq(Event)
    BY DEF KubeTypeOK
  <1>4. e \in Event /\ e = stream[1] /\ Len(stream) >= 1 /\ Len(stream') = Len(stream) - 1
        /\ \A k \in 1 .. Len(stream') : stream'[k] = stream[k + 1]
    BY <1>1, <1>3
  <1>5. Len(stream) \in Nat
    BY <1>3
  <1> HIDE DEF e
  <1>6. \A p \in ApiPods :
          /\ Remove(p) \in batch' <=> p \in DOMAIN e /\ e[p].st # "live"
          /\ \A m \in batch' : m.uid = p => p \in DOMAIN e /\ (m.ver = 0 \/ e[p].st = "live")
    BY <1>1, <1>4, EventTells
  <1>7. WatcherInv'
    <2>1. \A m, n \in batch' : m.uid = n.uid => m = n
      <3>1. CASE ApiPods = {}
        BY <1>1, <1>4, <3>1, EventOf DEF EventUpdates
      <3>2. CASE ApiPods # {}
        BY <1>1, <1>4, <3>2, EventTells
      <3> QED
        BY <3>1, <3>2
    <2>2. listed
      BY <1>1 DEF KubeInv, WatcherInv
    <2> QED
      BY <1>1, <2>1, <2>2 DEF WatcherInv
  <1>8. ASSUME NEW p \in ApiPods
        PROVE  PodInv(p)'
    <2>1. PodInv(p)
      BY DEF KubeInv
    <2>2. EndsIn(stream', p, api'[p])
      <3> SUFFICES ASSUME NEW k \in 1 .. Len(stream'), p \in DOMAIN stream'[k]
                   PROVE  /\ stream'[k][p].st # "live" =>
                               /\ Dying(api[p])
                               /\ \A l \in k .. Len(stream') : p \in DOMAIN stream'[l] => stream'[l][p].st # "live"
                          /\ api[p] = Gone => \E l \in k .. Len(stream') : p \in DOMAIN stream'[l] /\ stream'[l][p] = Gone
        BY <1>1 DEF EndsIn
      <3>1. k + 1 \in 1 .. Len(stream) /\ stream'[k] = stream[k + 1]
        BY <1>4, <1>5
      <3>2. /\ stream[k + 1][p].st # "live" =>
                 /\ Dying(api[p])
                 /\ \A l \in k + 1 .. Len(stream) : p \in DOMAIN stream[l] => stream[l][p].st # "live"
            /\ api[p] = Gone => \E l \in k + 1 .. Len(stream) : p \in DOMAIN stream[l] /\ stream[l][p] = Gone
        BY <2>1, <3>1 DEF PodInv, EndsIn
      <3>3. ASSUME stream'[k][p].st # "live"
            PROVE  Dying(api[p]) /\ \A l \in k .. Len(stream') : p \in DOMAIN stream'[l] => stream'[l][p].st # "live"
        BY <1>4, <1>5, <3>1, <3>2, <3>3
      <3>4. ASSUME api[p] = Gone
            PROVE  \E l \in k .. Len(stream') : p \in DOMAIN stream'[l] /\ stream'[l][p] = Gone
        <4>1. PICK l \in k + 1 .. Len(stream) : p \in DOMAIN stream[l] /\ stream[l][p] = Gone
          BY <3>2, <3>4
        <4>2. l - 1 \in k .. Len(stream') /\ stream'[l - 1] = stream[l]
          BY <1>4, <1>5
        <4> QED
          BY <4>1, <4>2
      <3> QED
        BY <3>3, <3>4
    <2>3. NoneLive(stream, p) => NoneLive(stream', p)
      BY <1>4, <1>5 DEF NoneLive
    <2>4. ASSUME p \in DOMAIN e, e[p].st # "live"
          PROVE  Dying(api[p]) /\ NoneLive(stream', p)
      <3>1. 1 \in 1 .. Len(stream) /\ p \in DOMAIN stream[1] /\ stream[1][p].st # "live"
        BY <1>4, <1>5, <2>4
      <3>2. Dying(api[p]) /\ \A l \in 1 .. Len(stream) : p \in DOMAIN stream[l] => stream[l][p].st # "live"
        BY <2>1, <3>1 DEF PodInv, EndsIn
      <3> QED
        BY <2>3, <3>2 DEF NoneLive
    <2>5. NoneLive(stream, p) => NoneIn(batch', p)
      BY <1>4, <1>5, <1>6 DEF NoneLive, NoneIn
    <2>6. RemovalIsLast(p)'
      <3>1. Removing(p)' => Dying(api[p]) /\ NoneLive(stream', p)
        BY <1>1, <1>6, <2>1, <2>3, <2>4 DEF PodInv, RemovalIsLast, Removing, InChan
      <3>2. InChan(Remove(p)) \/ p \in removed => NoneIn(batch', p)
        BY <2>1, <2>5 DEF PodInv, RemovalIsLast, Removing
      <3> QED
        BY <1>1, <2>1, <3>1, <3>2 DEF PodInv, RemovalIsLast, InChan
    <2>7. GoneIsTold(p)'
      <3>1. Told(stream, p) => Remove(p) \in batch' \/ Told(stream', p)
        <4> SUFFICES ASSUME NEW k \in 1 .. Len(stream), p \in DOMAIN stream[k], stream[k][p].st # "live"
                     PROVE  Remove(p) \in batch' \/ Told(stream', p)
          BY DEF Told
        <4>1. CASE k = 1
          BY <1>4, <1>6, <4>1
        <4>2. CASE k # 1
          <5>1. k - 1 \in 1 .. Len(stream') /\ stream'[k - 1] = stream[k]
            BY <1>4, <1>5, <4>2
          <5> QED
            BY <5>1 DEF Told
        <4> QED
          BY <4>1, <4>2
      <3>2. Underway(p) => Underway(p)'
        BY <1>1, <1>2, <3>1 DEF Underway, InChan
      <3>3. Quiet(p) => Quiet(p)'
        BY <1>1, <2>3, <2>5 DEF Quiet
      <3> QED
        BY <1>1, <2>1, <3>2, <3>3 DEF PodInv, GoneIsTold
    <2> QED
      BY <2>2, <2>6, <2>7 DEF PodInv
  <1> QED
    BY <1>7, <1>8 DEF KubeInv

LEMMA BreakKept ==
  ASSUME FeedTypeOK, KubeTypeOK, KubeInv, Break
  PROVE  KubeInv'
  <1>1. /\ kubePc = "select" /\ kubePc' = "sleep" /\ listed' = FALSE /\ stream' = <<>>
        /\ missed' = missed \cup {p \in ApiPods : \E k \in 1 .. Len(stream) : p \in DOMAIN stream[k] /\ stream[k][p] = Gone}
        /\ UNCHANGED <<api, batch, chan, desired, removed>>
    BY DEF Break, feedVars
  <1>2. WatcherInv'
    BY <1>1 DEF WatcherInv, KubeInv
  <1>3. ASSUME NEW p \in ApiPods
        PROVE  PodInv(p)'
    <2>1. PodInv(p)
      BY DEF KubeInv
    <2>2. EndsIn(stream', p, api'[p]) /\ NoneLive(stream', p)
      BY <1>1 DEF EndsIn, NoneLive
    <2>3. RemovalIsLast(p)'
      BY <1>1, <2>1, <2>2 DEF PodInv, RemovalIsLast, Removing, InChan
    <2>4. ASSUME api[p] = Gone, p \notin missed'
          PROVE  ~ Told(stream, p)
      <3> SUFFICES ASSUME NEW k \in 1 .. Len(stream), p \in DOMAIN stream[k]
                   PROVE  FALSE
        BY DEF Told
      <3>1. \E l \in k .. Len(stream) : p \in DOMAIN stream[l] /\ stream[l][p] = Gone
        BY <2>1, <2>4 DEF PodInv, EndsIn
      <3>2. k .. Len(stream) \subseteq 1 .. Len(stream)
        BY DEF KubeTypeOK
      <3>3. p \in missed'
        BY <1>1, <3>1, <3>2
      <3> QED
        BY <2>4, <3>3
    <2>5. GoneIsTold(p)'
      <3>1. p \notin missed' => p \notin missed
        BY <1>1
      <3>2. Quiet(p) => Quiet(p)'
        BY <1>1, <2>2 DEF Quiet
      <3>3. Underway(p) => Told(stream, p) \/ Underway(p)'
        BY <1>1 DEF Underway, InChan
      <3> QED
        BY <1>1, <2>1, <2>4, <3>1, <3>2, <3>3 DEF PodInv, GoneIsTold
    <2> QED
      BY <2>2, <2>3, <2>5 DEF PodInv
  <1> QED
    BY <1>2, <1>3 DEF KubeInv

LEMMA KubeSendKept ==
  ASSUME FeedTypeOK, KubeTypeOK, KubeInv, KubeSend
  PROVE  KubeInv'
  <1>1. PICK m \in batch : Put(m) /\ batch' = batch \ {m}
    BY DEF KubeSend
  <1>2. /\ chan' = Append(chan, m) /\ UNCHANGED <<api, kubePc, listed, stream, missed, desired, removed>> /\ kubePc = "send"
    BY <1>1 DEF KubeSend, Put
  <1>3. m \in Update /\ chan \in Seq(Update) /\ \A n \in batch : n.uid = m.uid => n = m
    BY DEF KubeTypeOK, FeedTypeOK, KubeInv, WatcherInv
  <1>4. /\ Len(chan) \in Nat /\ Len(chan') = Len(chan) + 1 /\ chan'[Len(chan) + 1] = m
        /\ \A k \in 1 .. Len(chan) : chan'[k] = chan[k]
    BY <1>2, <1>3
  <1>5. WatcherInv'
    BY <1>1, <1>2 DEF WatcherInv, KubeInv
  <1>6. ASSUME NEW p \in ApiPods
        PROVE  PodInv(p)'
    <2>1. PodInv(p)
      BY DEF KubeInv
    <2>2. Remove(p).uid = p /\ Remove(p).ver = 0 /\ (m.uid = p /\ m.ver = 0 => m = Remove(p))
      BY <1>3 DEF Update, Remove
    <2>3. InChan(Remove(p))' <=> InChan(Remove(p)) \/ m = Remove(p)
      BY <1>4 DEF InChan
    <2>4. NoneSent(chan', p) <=> NoneSent(chan, p) /\ (m.uid = p => m.ver = 0)
      BY <1>4 DEF NoneSent
    <2>5. NoneIn(batch, p) => NoneIn(batch', p) /\ (m.uid = p => m.ver = 0)
      BY <1>1 DEF NoneIn
    <2>6. Removing(p)' => Removing(p)
      BY <1>1, <1>2, <2>3 DEF Removing
    <2>7. RemovalIsLast(p)'
      <3>1. InChan(Remove(p))' \/ p \in removed => NoneIn(batch', p)
        <4>1. CASE InChan(Remove(p)) \/ p \in removed
          BY <2>1, <2>5, <4>1 DEF PodInv, RemovalIsLast
        <4>2. CASE m = Remove(p)
          BY <1>1, <1>3, <2>2, <4>2 DEF NoneIn
        <4> QED
          BY <2>3, <4>1, <4>2
      <3>2. ASSUME NEW k \in 1 .. Len(chan'), NEW l \in 1 .. Len(chan'), k < l, chan'[k] = Remove(p), chan'[l].uid = p
            PROVE  chan'[l].ver = 0
        <4>1. k \in 1 .. Len(chan) /\ chan[k] = Remove(p)
          BY <1>4, <3>2
        <4>2. InChan(Remove(p))
          BY <4>1 DEF InChan
        <4>3. m.uid = p => m.ver = 0
          BY <2>1, <2>5, <4>2 DEF PodInv, RemovalIsLast
        <4>4. CASE l = Len(chan) + 1
          BY <1>4, <3>2, <4>3, <4>4
        <4>5. CASE l \in 1 .. Len(chan)
          BY <1>4, <2>1, <3>2, <4>1, <4>5 DEF PodInv, RemovalIsLast
        <4> QED
          BY <1>4, <4>4, <4>5
      <3>3. p \in removed => desired[p] = 0 /\ NoneSent(chan', p)
        BY <2>1, <2>4, <2>5 DEF PodInv, RemovalIsLast
      <3>4. Removing(p)' => Dying(api[p]) /\ NoneLive(stream, p)
        BY <2>1, <2>6 DEF PodInv, RemovalIsLast
      <3> QED
        BY <1>2, <3>1, <3>2, <3>3, <3>4 DEF RemovalIsLast
    <2>8. GoneIsTold(p)'
      <3>1. Underway(p) => Underway(p)'
        BY <1>1, <1>2, <2>3 DEF Underway
      <3>2. Quiet(p) => Quiet(p)'
        BY <1>2, <2>4, <2>5 DEF Quiet
      <3> QED
        BY <1>2, <2>1, <3>1, <3>2 DEF PodInv, GoneIsTold
    <2> QED
      BY <1>2, <2>1, <2>7, <2>8 DEF PodInv
  <1> QED
    BY <1>5, <1>6 DEF KubeInv

\* What other sources send is about other pods.
LEMMA OthersPut ==
  ASSUME FeedTypeOK, KubeTypeOK, KubeInv, NEW m \in Update, m.uid \notin ApiPods, Put(m), UNCHANGED kubeVars
  PROVE  KubeInv'
  <1>2. /\ chan' = Append(chan, m) /\ UNCHANGED <<api, batch, kubePc, listed, stream, missed, desired, removed>>
    BY DEF Put, kubeVars, sourceVars
  <1>3. m \in Update /\ chan \in Seq(Update)
    BY DEF FeedTypeOK
  <1>4. /\ Len(chan) \in Nat /\ Len(chan') = Len(chan) + 1 /\ chan'[Len(chan) + 1] = m
        /\ \A k \in 1 .. Len(chan) : chan'[k] = chan[k]
    BY <1>2, <1>3
  <1>5. WatcherInv'
    BY <1>2 DEF WatcherInv, KubeInv
  <1>6. ASSUME NEW p \in ApiPods
        PROVE  PodInv(p)'
    <2>1. PodInv(p)
      BY DEF KubeInv
    <2>2. Remove(p).uid = p /\ m.uid # p
      BY DEF Remove
    <2>3. InChan(Remove(p))' <=> InChan(Remove(p))
      BY <1>4, <2>2 DEF InChan
    <2>4. NoneSent(chan', p) <=> NoneSent(chan, p)
      BY <1>4, <2>2 DEF NoneSent
    <2>5. \A k, l \in 1 .. Len(chan') : k < l /\ chan'[k] = Remove(p) /\ chan'[l].uid = p => chan'[l].ver = 0
      <3> SUFFICES ASSUME NEW k \in 1 .. Len(chan'), NEW l \in 1 .. Len(chan'), k < l, chan'[k] = Remove(p), chan'[l].uid = p
                   PROVE  chan'[l].ver = 0
        OBVIOUS
      <3>1. k \in 1 .. Len(chan) /\ l \in 1 .. Len(chan)
        BY <1>4, <2>2
      <3> QED
        BY <1>4, <2>1, <3>1 DEF PodInv, RemovalIsLast
    <2>6. Removing(p)' <=> Removing(p)
      BY <1>2, <2>3 DEF Removing
    <2>7. RemovalIsLast(p)'
      BY <1>2, <2>1, <2>3, <2>4, <2>5, <2>6 DEF PodInv, RemovalIsLast
    <2>8. GoneIsTold(p)'
      BY <1>2, <2>1, <2>3, <2>4 DEF PodInv, GoneIsTold, Underway, Quiet
    <2> QED
      BY <1>2, <2>1, <2>7, <2>8 DEF PodInv
  <1> QED
    BY <1>5, <1>6 DEF KubeInv

LEMMA DispatchKept ==
  ASSUME FeedTypeOK, KubeTypeOK, KubeInv, Dispatch, UNCHANGED kubeVars
  PROVE  KubeInv'
  <1> DEFINE m == Head(chan)
  <1>1. /\ chan # <<>> /\ chan' = Tail(chan)
        /\ desired' = [desired EXCEPT ![m.uid] = m.ver]
        /\ removed' = IF m.ver = 0 THEN removed \cup ({m.uid} \cap ApiPods) ELSE removed
        /\ UNCHANGED <<api, batch, kubePc, listed, stream, missed>>
    BY DEF Dispatch, kubeVars, sourceVars
  <1>2. chan \in Seq(Update) /\ desired \in [Uids -> Versions \cup {0}] /\ ApiPods \subseteq Uids
    BY FeedAssumption DEF FeedTypeOK
  <1>3. /\ Len(chan) \in Nat /\ Len(chan) >= 1 /\ m = chan[1] /\ m \in Update /\ Len(chan') = Len(chan) - 1
        /\ \A k \in 1 .. Len(chan') : chan'[k] = chan[k + 1]
    BY <1>1, <1>2
  <1> HIDE DEF m
  <1>4. WatcherInv'
    BY <1>1 DEF WatcherInv, KubeInv
  <1>5. ASSUME NEW p \in ApiPods
        PROVE  PodInv(p)'
    <2>1. PodInv(p)
      BY DEF KubeInv
    <2>2. Remove(p).uid = p /\ Remove(p).ver = 0 /\ (m.uid = p /\ m.ver = 0 => m = Remove(p))
      BY <1>3 DEF Update, Remove
    <2>3. desired'[p] = IF m.uid = p THEN m.ver ELSE desired[p]
      BY <1>1, <1>2
    <2>4. \A k \in 1 .. Len(chan) : k = 1 \/ (k - 1 \in 1 .. Len(chan') /\ chan'[k - 1] = chan[k])
      BY <1>3
    <2>5. InChan(Remove(p))' => InChan(Remove(p))
      <3> SUFFICES ASSUME NEW k \in 1 .. Len(chan'), chan'[k] = Remove(p)'
                   PROVE  \E l \in 1 .. Len(chan) : chan[l] = Remove(p)
        BY DEF InChan
      <3>1. Remove(p)' = Remove(p)
        BY DEF Remove
      <3>2. k + 1 \in 1 .. Len(chan) /\ chan[k + 1] = chan'[k]
        BY <1>3
      <3> QED
        BY <3>1, <3>2
    <2>6. InChan(Remove(p)) => InChan(Remove(p))' \/ m = Remove(p)
      <3> SUFFICES ASSUME NEW k \in 1 .. Len(chan), chan[k] = Remove(p), m # Remove(p)
                   PROVE  \E l \in 1 .. Len(chan') : chan'[l] = Remove(p)'
        BY DEF InChan
      <3>1. Remove(p)' = Remove(p)
        BY DEF Remove
      <3>2. k # 1
        BY <1>3
      <3> QED
        BY <2>4, <3>1, <3>2
    <2>7. m = Remove(p) => InChan(Remove(p))
      <3>1. 1 \in 1 .. Len(chan) /\ m = chan[1]
        BY <1>3
      <3> QED
        BY <3>1 DEF InChan
    <2>8. NoneSent(chan, p) => NoneSent(chan', p) /\ (m.uid = p => m.ver = 0)
      BY <1>3 DEF NoneSent
    <2>9. p \in removed' => p \in removed \/ m = Remove(p)
      BY <1>1, <2>2
    <2>10. m = Remove(p) => NoneSent(chan', p)
      <3> SUFFICES ASSUME m = Remove(p), NEW k \in 1 .. Len(chan'), chan'[k].uid = p
                   PROVE  chan'[k].ver = 0
        BY DEF NoneSent
      <3>1. 1 \in 1 .. Len(chan) /\ k + 1 \in 1 .. Len(chan) /\ 1 < k + 1 /\ chan'[k] = chan[k + 1]
        BY <1>3
      <3> QED
        BY <1>3, <2>1, <3>1 DEF PodInv, RemovalIsLast
    <2>11. ASSUME p \in removed'
           PROVE  desired'[p] = 0 /\ NoneSent(chan', p)
      <3>1. CASE m = Remove(p)
        BY <2>2, <2>3, <2>10, <3>1
      <3>2. CASE p \in removed
        <4>1. desired[p] = 0 /\ NoneSent(chan, p)
          BY <2>1, <3>2 DEF PodInv, RemovalIsLast
        <4> QED
          BY <2>3, <2>8, <4>1
      <3> QED
        BY <2>9, <2>11, <3>1, <3>2
    <2>12. Removing(p)' => Removing(p)
      BY <1>1, <2>5, <2>7, <2>9 DEF Removing
    <2>13. RemovalIsLast(p)'
      <3>1. InChan(Remove(p))' \/ p \in removed' => NoneIn(batch, p)
        BY <2>1, <2>5, <2>7, <2>9 DEF PodInv, RemovalIsLast
      <3>2. \A k, l \in 1 .. Len(chan') : k < l /\ chan'[k] = Remove(p) /\ chan'[l].uid = p => chan'[l].ver = 0
        <4> SUFFICES ASSUME NEW k \in 1 .. Len(chan'), NEW l \in 1 .. Len(chan'), k < l, chan'[k] = Remove(p), chan'[l].uid = p
                     PROVE  chan'[l].ver = 0
          OBVIOUS
        <4>1. k + 1 \in 1 .. Len(chan) /\ l + 1 \in 1 .. Len(chan) /\ k + 1 < l + 1
              /\ chan'[k] = chan[k + 1] /\ chan'[l] = chan[l + 1]
          BY <1>3
        <4> QED
          BY <2>1, <4>1 DEF PodInv, RemovalIsLast
      <3>3. Removing(p)' => Dying(api[p]) /\ NoneLive(stream, p)
        BY <2>1, <2>12 DEF PodInv, RemovalIsLast
      <3> QED
        BY <1>1, <2>11, <3>1, <3>2, <3>3 DEF RemovalIsLast
    <2>14. GoneIsTold(p)'
      <3>1. CASE m = Remove(p)
        <4>1. desired'[p] = 0 /\ NoneSent(chan', p)
          BY <2>2, <2>3, <2>10, <3>1
        <4>2. NoneIn(batch, p) /\ NoneLive(stream, p)
          BY <2>1, <2>7, <3>1 DEF PodInv, RemovalIsLast, Removing
        <4> QED
          BY <1>1, <4>1, <4>2 DEF GoneIsTold, Quiet
      <3>2. CASE m # Remove(p)
        <4>1. Underway(p) => Underway(p)'
          BY <1>1, <2>6, <3>2 DEF Underway
        <4>2. Quiet(p) => Quiet(p)'
          BY <1>1, <2>3, <2>8 DEF Quiet
        <4> QED
          BY <1>1, <2>1, <4>1, <4>2 DEF PodInv, GoneIsTold
      <3> QED
        BY <3>1, <3>2
    <2> QED
      BY <1>1, <2>1, <2>13, <2>14 DEF PodInv
  <1> QED
    BY <1>4, <1>5 DEF KubeInv

LEMMA KubeUnchanged ==
  ASSUME KubeInv, UNCHANGED <<api, batch, listed, stream, missed, chan, desired, removed>>,
         kubePc' = kubePc \/ batch = {}
  PROVE  KubeInv'
  <1>1. WatcherInv'
    BY DEF WatcherInv, KubeInv
  <1>2. ASSUME NEW p \in ApiPods
        PROVE  PodInv(p)'
    <2>1. PodInv(p)
      BY DEF KubeInv
    <2>2. RemovalIsLast(p)'
      BY <2>1 DEF PodInv, RemovalIsLast, Removing, InChan
    <2>3. GoneIsTold(p)'
      BY <2>1 DEF PodInv, GoneIsTold, Underway, Quiet, InChan
    <2> QED
      BY <2>1, <2>2, <2>3 DEF PodInv
  <1> QED
    BY <1>1, <1>2 DEF KubeInv

\* Alone with the API server, or with manifest files beside it.
LEMMA KubeInvStep ==
  ASSUME SourcesTypeOK, FileInv, "url" \notin conf, KubeInv, [SourcesNext]_allVars
  PROVE  KubeInv'
  <1>0. FeedTypeOK /\ KubeTypeOK /\ FileTypeOK
    BY DEF SourcesTypeOK
  <1>1. Deleting \in Object /\ Gone \in Object /\ Deleting.st # "none" /\ Gone.st # "none"
        /\ \A v \in Versions : [st |-> "live", ver |-> v] \in Object
    BY DEF Object, Deleting, Gone
  <1>2. CASE Api
    <2>1. PICK p \in ApiPods : (\E v \in Versions : ApiApply(p, v)) \/ ApiDelete(p) \/ ApiErase(p)
      BY <1>2 DEF Api
    <2>2. UNCHANGED <<chan, desired, removed>>
      BY <2>1 DEF ApiApply, ApiDelete, ApiErase, feedVars
    <2>3. CASE \E v \in Versions : ApiApply(p, v)
      <3>1. PICK v \in Versions : ApiApply(p, v)
        BY <2>3
      <3> DEFINE o == [st |-> "live", ver |-> v]
      <3>2. Write(p, o) /\ ~ Dying(api[p])
        BY <3>1 DEF ApiApply, Dying, None
      <3>3. o \in Object /\ o.st # "none"
        BY <1>1
      <3> HIDE DEF o
      <3> QED
        BY <1>0, <2>2, <3>2, <3>3, WriteKept
    <2>4. CASE ApiDelete(p)
      BY <1>0, <1>1, <2>2, <2>4, WriteKept DEF ApiDelete, Dying
    <2>5. CASE ApiErase(p)
      BY <1>0, <1>1, <2>2, <2>5, WriteKept DEF ApiErase
    <2> QED
      BY <2>1, <2>3, <2>4, <2>5
  <1>3. CASE Runtime
    <2>1. CASE Dispatch /\ UNCHANGED kubeVars
      BY <1>0, <2>1, DispatchKept
    <2>2. ASSUME NEW u \in Uids, Reaped(u)
          PROVE  KubeInv'
      <3>1. (\E q \in ApiPods : Write(q, Gone)) \/ UNCHANGED kubeVars
        BY <2>2 DEF Reaped
      <3>2. UNCHANGED <<chan, desired, removed>>
        BY <2>2 DEF Reaped
      <3>3. CASE \E q \in ApiPods : Write(q, Gone)
        BY <1>0, <1>1, <3>2, <3>3, WriteKept
      <3>4. CASE UNCHANGED kubeVars
        BY <3>2, <3>4, KubeUnchanged DEF kubeVars, sourceVars
      <3> QED
        BY <3>1, <3>3, <3>4
    <2>3. ASSUME NEW u \in Uids, ReapFails(u)
          PROVE  KubeInv'
      BY <2>3, KubeUnchanged DEF ReapFails, sourceVars
    <2> QED
      BY <1>3, <2>1, <2>2, <2>3 DEF Runtime
  <1>4. CASE KubeSource
    <2>1. CASE KubeSent
      BY <2>1, KubeUnchanged DEF KubeSent, feedVars
    <2>2. CASE Reconnect
      <3>1. batch = {}
        BY <2>2 DEF Reconnect, KubeInv, WatcherInv
      <3> QED
        BY <2>2, <3>1, KubeUnchanged DEF Reconnect, feedVars
    <2> QED
      BY <1>0, <1>4, <2>1, <2>2, WatchListKept, RelistKept, NextEventKept, KubeSendKept, BreakKept DEF KubeSource
  <1>5. CASE (FileSource \/ Directory) /\ UNCHANGED kubeVars
    <2>1. CASE UNCHANGED feedVars
      BY <1>5, <2>1, KubeUnchanged DEF feedVars, kubeVars, sourceVars
    <2>2. CASE FileSend
      <3>1. PICK m \in fileOut : Put(m)
        BY <2>2 DEF FileSend
      <3>2. m \in Update /\ m.uid \notin ApiPods
        BY <1>0 DEF FileInv, FileTypeOK
      <3> QED
        BY <1>0, <1>5, <3>1, <3>2, OthersPut
    <2>3. ASSUME NEW f \in Files, FileRemove(f)
          PROVE  KubeInv'
      <3>1. Put(Remove(fileKnown[f])) /\ fileKnown[f] \in Uids /\ fileKnown[f] \notin ApiPods
        BY <1>0, <2>3 DEF FileRemove, GonePaths, FileTypeOK, FileInv
      <3>2. Remove(fileKnown[f]) \in Update /\ Remove(fileKnown[f]).uid = fileKnown[f]
        BY <3>1 DEF Remove, Update
      <3> QED
        BY <1>0, <1>5, <3>1, <3>2, OthersPut
    <2>4. FileSource \/ Directory => UNCHANGED feedVars \/ FileSend \/ \E f \in Files : FileRemove(f)
      BY DEF FileSource, Directory, NextEntry, ReadManifest, ReadFails, ReadDir, SkipPoll, ScanEnd, FileSleep, FileEdit, DiskChange
    <2> QED
      BY <1>5, <2>1, <2>2, <2>3, <2>4
  <1>6. CASE UNCHANGED allVars
    BY <1>6, KubeUnchanged DEF allVars, feedVars, kubeVars, sourceVars
  <1> QED
    BY <1>2, <1>3, <1>4, <1>5, <1>6 DEF SourcesNext

(***************************************************************************)
(* The pod sources: the whole invariant, and what it gives.                *)
(***************************************************************************)
SourcesInv == SourcesTypeOK /\ FileInv /\ UrlInv /\ (ApiAlone => KubeInv)

LEMMA SourcesInvInit == SourcesInit => SourcesInv
  <1> SUFFICES ASSUME SourcesInit PROVE SourcesInv
    OBVIOUS
  <1>1. FeedTypeOK
    BY FeedAssumption DEF SourcesInit, FeedInit, FeedTypeOK
  <1>2. KubeTypeOK
    <2>1. None \in Object
      BY DEF None, Object
    <2>2. api \in [ApiPods -> Object] /\ kubePc = "select" /\ listed = FALSE
      BY <2>1 DEF SourcesInit, KubeInit
    <2>3. stream \in Seq(Event) /\ batch \subseteq Update /\ missed \subseteq ApiPods /\ undeleted \subseteq ApiPods
      BY DEF SourcesInit, KubeInit
    <2> QED
      BY <2>1, <2>2, <2>3 DEF KubeTypeOK
  <1>3. FileTypeOK
    BY FileAssumption DEF SourcesInit, FileInit, FileTypeOK
  <1>4. UrlTypeOK
    BY UrlAssumption DEF SourcesInit, UrlInit, UrlTypeOK, NoItem
  <1>5. FileInv
    BY FeedAssumption DEF SourcesInit, FileInit, FileInv
  <1>6. UrlInv
    BY DEF SourcesInit, UrlInit, UrlInv, OneUidPerItem
  <1>7. KubeInv
    <2>1. /\ chan = <<>> /\ stream = <<>> /\ batch = {} /\ removed = {} /\ kubePc = "select"
          /\ \A p \in ApiPods : api[p] = None
      BY DEF SourcesInit, FeedInit, KubeInit
    <2>2. None # Gone
      BY DEF None, Gone
    <2>3. WatcherInv
      BY <2>1 DEF WatcherInv
    <2>4. ASSUME NEW p \in ApiPods
          PROVE  PodInv(p)
      BY <2>1, <2>2 DEF PodInv, EndsIn, RemovalIsLast, Removing, InChan, NoneIn, NoneSent, NoneLive, GoneIsTold
    <2> QED
      BY <2>3, <2>4 DEF KubeInv
  <1> QED
    BY <1>1, <1>2, <1>3, <1>4, <1>5, <1>6, <1>7 DEF SourcesInv, SourcesTypeOK, SourcesInit

LEMMA SourcesInvStep == SourcesInv /\ [SourcesNext]_allVars => SourcesInv'
  <1> SUFFICES ASSUME SourcesInv, [SourcesNext]_allVars PROVE SourcesInv'
    OBVIOUS
  <1>1. SourcesTypeOK /\ FileInv /\ UrlInv /\ FileTypeOK /\ UrlTypeOK
    BY DEF SourcesInv, SourcesTypeOK
  <1>2. SourcesTypeOK' /\ FileInv' /\ UrlInv'
    BY <1>1, SourcesTypeStep, FileInvStep, UrlInvStep
  <1>3. ApiAlone' => ApiAlone
    BY DEF SourcesNext, allVars, ApiAlone
  <1>4. ApiAlone => KubeInv'
    BY <1>1, KubeInvStep DEF SourcesInv, ApiAlone
  <1> QED
    BY <1>2, <1>3, <1>4 DEF SourcesInv

\* A removal is never taken back.
LEMMA RemovedGrows == [SourcesNext]_allVars => removed \subseteq removed'
  <1> SUFFICES ASSUME [SourcesNext]_allVars PROVE removed \subseteq removed'
    OBVIOUS
  <1>1. CASE UNCHANGED removed
    BY <1>1
  <1>2. CASE Runtime
    BY <1>2 DEF Runtime, Dispatch, Reaped, ReapFails
  <1>3. CASE Api
    BY <1>3 DEF Api, ApiApply, ApiDelete, ApiErase, feedVars
  <1>4. CASE KubeSource
    BY <1>4 DEF KubeSource, WatchList, Relist, NextEvent, KubeSend, KubeSent, Break, Reconnect, Put, feedVars
  <1>5. CASE FileSource \/ Directory
    BY <1>5 DEF FileSource, Directory, NextEntry, ReadManifest, ReadFails, FileRemove, ReadDir, SkipPoll, FileSend,
                ScanEnd, FileSleep, FileEdit, DiskChange, Put, feedVars
  <1>6. CASE UrlSource \/ Endpoint
    BY <1>6 DEF UrlSource, Endpoint, Resolve, UrlRemove, Fetch, UrlSend, ItemsEnd, UrlSleep, Publish, Put, feedVars
  <1> QED
    BY <1>1, <1>2, <1>3, <1>4, <1>5, <1>6 DEF SourcesNext, allVars, feedVars

LEMMA SourcesInvariance == SourcesSpec => []SourcesInv
  BY SourcesInvInit, SourcesInvStep, PTL DEF SourcesSpec

\* The types of the channel, the sources' and the API server's state hold,
\* whatever sources are configured.
THEOREM SourcesTyping == SourcesSpec => []SourcesTypeOK
  <1>1. SourcesInv => SourcesTypeOK
    BY DEF SourcesInv
  <1> QED
    BY <1>1, SourcesInvariance, PTL

\* What the dispatcher removed stays removed, whatever a relist, a late event
\* or a watch that starts again still sends (KubePodSource::run); what the API
\* server erased is not desired once what is on the way has come, unless the
\* watch was down when it went; and UrlPodSource knows an item under one UID.
THEOREM SourcesAreSound == SourcesSpec => SourcesSound
  <1> DEFINE Stays_ == ApiAlone => \A p \in removed : desired'[p] = 0
  <1>1. SourcesInv => GhostOnlyIfMissed
    <2> SUFFICES ASSUME SourcesInv, ApiAlone, NEW p \in ApiPods, desired[p] # 0, api[p] = Gone, p \notin missed
                 PROVE  RemovalUnderway(p)
      BY DEF GhostOnlyIfMissed
    <2>1. GoneIsTold(p) /\ KubeTypeOK
      BY DEF SourcesInv, SourcesTypeOK, KubeInv, PodInv
    <2> QED
      BY <2>1, UnderwayIs DEF GoneIsTold, Quiet
  <1>2. SourcesInv => OneUidPerItem
    BY DEF SourcesInv, UrlInv
  <1>3. SourcesInv /\ SourcesInv' /\ [SourcesNext]_allVars => Stays_
    <2> SUFFICES ASSUME SourcesInv, SourcesInv', [SourcesNext]_allVars, ApiAlone, NEW p \in removed
                 PROVE  desired'[p] = 0
      OBVIOUS
    <2>1. ApiAlone'
      BY DEF SourcesNext, allVars, ApiAlone
    <2>2. p \in removed' /\ p \in ApiPods
      BY RemovedGrows DEF SourcesInv, SourcesTypeOK, FeedTypeOK
    <2>3. RemovalIsLast(p)'
      BY <2>1, <2>2 DEF SourcesInv, KubeInv, PodInv
    <2> QED
      BY <2>2, <2>3 DEF RemovalIsLast
  <1> HIDE DEF Stays_
  <1>4. SourcesInv /\ SourcesInv' /\ [SourcesNext]_allVars => [Stays_]_allVars
    BY <1>3
  <1>5. SourcesSpec => [][Stays_]_allVars
    BY <1>4, SourcesInvariance, PTL DEF SourcesSpec
  <1>6. SourcesSpec => NoResurrection
    BY <1>5 DEF NoResurrection, Stays_
  <1> QED
    BY <1>1, <1>2, <1>6, SourcesInvariance, PTL DEF SourcesSound
===============================================================================
