--------------------------- MODULE NodeAgents_proofs ---------------------------
(***************************************************************************)
(* Proofs about the tasks of the node: image garbage collection, log       *)
(* rotation, eviction and the files a process leaves to the next one, for  *)
(* any number of images, names, log files, pods and starts.                *)
(***************************************************************************)
EXTENDS NodeAgents, FiniteSetTheorems, WellFoundedInduction, TLAPS

----------------------------------------------------------------------------
\* A set of numbers that is bounded has a greatest element.
LEMMA BoundedMax ==
  ASSUME NEW b \in Nat, NEW S \in SUBSET (0 .. b), S # {}
  PROVE  \E n \in S : \A m \in S : m =< n
  <1> DEFINE T == {n \in Nat : \A y \in S : y =< n}
  <1>1. PICK n \in T : \A m \in T : ~ (<<m, n>> \in OpToRel(<, Nat))
    <2>1. b \in T
      OBVIOUS
    <2>2. T \subseteq Nat /\ T # {}
      BY <2>1
    <2> QED
      BY <2>2, NatLessThanWellFounded, WFMin, Zenon
  <1>2. \A m \in T : ~ (m < n)
    BY <1>1 DEF OpToRel
  <1>3. n \in S
    <2> SUFFICES ASSUME n \notin S PROVE FALSE
      OBVIOUS
    <2>1. PICK y \in S : TRUE
      OBVIOUS
    <2>2. n \in Nat /\ \A z \in S : z \in Nat /\ z < n
      OBVIOUS
    <2>3. n - 1 \in Nat /\ \A z \in S : z =< n - 1
      BY <2>1, <2>2
    <2>4. n - 1 \in T /\ n - 1 < n
      BY <2>2, <2>3
    <2> QED
      BY <2>4, <1>2
  <1> QED
    BY <1>3

(***************************************************************************)
(* Image garbage collection.                                               *)
(***************************************************************************)
\* There is a plan only while images are being deleted.  Until the plan is
\* made, an image that has been wanted since the round read the names is one
\* the second listing finds in use.
GcInv ==
  /\ tag \in [Refs -> Images \cup {NoImage}]
  /\ disk \subseteq Images
  /\ plan \in Seq(Images)
  /\ gcPc \in {"sleep", "pin", "delete"}
  /\ gcPc # "delete" <=> plan = <<>>
  /\ gcRound \in 0 .. MaxRounds
  /\ wanted \subseteq Refs
  /\ kept \subseteq Refs \X Images
  /\ \A k \in kept : tag[k[1]] = k[2]
  /\ gcPc = "pin" => \A k \in kept : k[1] \in desiredImages /\ k[2] \in disk
  /\ GcSparesWanted

\* It holds before the first round.
LEMMA GcInit == ImageGcInit => GcInv
  BY ImageGcAssumption DEF ImageGcInit, GcInv, GcSparesWanted

\* What gc_candidates picks is eligible.
LEMMA CandidatesEligible ==
  ASSUME NEW used \in Int, NEW seen, NEW pins, NEW now, NEW slow,
         NEW p \in GcCandidates(used, seen, pins, now, slow)
  PROVE  /\ p \in Seq(Images)
         /\ ToSet(p) \subseteq Eligible(seen, pins, now, slow)
  <1> DEFINE E == Eligible(seen, pins, now, slow)
             free == used - Low
             count == IF free < Cardinality(E) THEN free ELSE Cardinality(E)
  <1>1. E \subseteq Images /\ IsFiniteSet(E)
    BY ImageGcAssumption, FS_Subset DEF Eligible
  <1>2. Cardinality(E) \in Nat /\ Low \in Nat
    BY <1>1, FS_CardinalityType, ImageGcAssumption
  <1> HIDE DEF E
  <1>3. CASE p = <<>>
    BY <1>3 DEF ToSet
  <1>4. CASE p # <<>>
    <2>1. PICK s \in SetToSeqs(E) : p = SubSeq(s, 1, count)
      BY <1>4 DEF GcCandidates, E
    <2>2. s \in [1..Cardinality(E) -> E]
      BY <2>1 DEF SetToSeqs
    <2>3. s \in Seq(E) /\ Len(s) = Cardinality(E)
      BY <1>2, <2>2
    <2>4. count \in Int /\ count =< Len(s)
      BY <1>2, <2>3
    <2>5. p \in Seq(E)
      BY <2>1, <2>3, <2>4
    <2> QED
      BY <1>1, <2>5 DEF ToSet, E
  <1> QED
    BY <1>3, <1>4

\* Every step of a round, a pod that comes or goes and a pull preserve it.
LEMMA GcStep ==
  ASSUME GcInv, ImageGcNext \/ UNCHANGED gcVars
  PROVE  GcInv'
  <1> USE DEF GcInv, GcSparesWanted
  <1>1. CASE GcList
    <2>1. ToSet(plan) = {}
      BY <1>1 DEF GcList, ToSet
    <2> QED
      BY <1>1, <2>1, ImageGcAssumption DEF GcList
  <1>2. CASE GcListFails
    BY <1>2, ImageGcAssumption DEF GcListFails
  <1>3. CASE GcPlan
    <2>1. plan' \in Seq(Images) /\ ToSet(plan') \cap pinned' = {}
      <3>1. CASE plan' = <<>>
        BY <3>1 DEF ToSet
      <3>2. CASE plan' # <<>>
        <4>1. PICK used \in Cardinality(disk) .. DiskTotal, slow \in BOOLEAN :
                 plan' \in GcCandidates(used, tracked', pinned', gcRound, slow)
          BY <1>3, <3>2 DEF GcPlan
        <4>2. used \in Int
          OBVIOUS
        <4>3. plan' \in Seq(Images) /\ ToSet(plan') \subseteq Eligible(tracked', pinned', gcRound, slow)
          BY <4>1, <4>2, CandidatesEligible
        <4> QED
          BY <4>3 DEF Eligible
      <3> QED
        BY <3>1, <3>2
    <2>2. \A k \in kept : k[2] \in pinned'
      BY <1>3 DEF GcPlan, Pins, InUse
    <2>3. GcSparesWanted'
      BY <1>3, <2>1, <2>2 DEF GcPlan
    <2> QED
      BY <1>3, <2>1, <2>3 DEF GcPlan
  <1>4. ASSUME gcPc = "delete"
        PROVE  /\ Tail(plan) \in Seq(Images) /\ ToSet(Tail(plan)) \subseteq ToSet(plan)
               /\ Head(plan) \in Images
    <2>1. plan \in Seq(Images) /\ plan # <<>>
      BY <1>4
    <2> QED
      BY <2>1 DEF ToSet
  <1>5. CASE GcDelete
    <2>1. /\ plan' = Tail(plan) /\ kept' \subseteq kept /\ \A k \in kept' : tag'[k[1]] = k[2]
          /\ tag' \in [Refs -> Images \cup {NoImage}] /\ disk' \subseteq disk
      BY <1>5 DEF GcDelete, Kept
    <2>2. GcSparesWanted'
      BY <1>4, <1>5, <2>1 DEF GcDelete
    <2> QED
      BY <1>4, <1>5, <2>1, <2>2 DEF GcDelete
  <1>6. CASE GcDeleteFails
    <2>1. GcSparesWanted'
      BY <1>4, <1>6 DEF GcDeleteFails
    <2> QED
      BY <1>4, <1>6, <2>1 DEF GcDeleteFails
  <1>7. ASSUME NEW r \in Refs, WantImage(r)
        PROVE  GcInv'
    BY <1>7 DEF WantImage, Kept
  <1>8. ASSUME NEW r \in Refs, NEW i \in Images, PullImage(i, r)
        PROVE  GcInv'
    BY <1>8 DEF PullImage, Kept
  <1>9. CASE UNCHANGED gcVars
    BY <1>9 DEF gcVars
  <1> QED
    BY <1>1, <1>2, <1>3, <1>5, <1>6, <1>7, <1>8, <1>9 DEF ImageGcNext

\* An image that a desired pod has named since the round read the names is
\* never on the list of images to delete, however pulls move the names and
\* whatever was listed in between.
THEOREM WantedIsSpared == Spec => []GcSparesWanted
  <1>1. Init => GcInv
    BY GcInit DEF Init
  <1>2. GcInv /\ [Next]_vars => GcInv'
    BY GcStep DEF Next, vars, TheKubelet, TheEviction, TheImageGc, ThePleg, TheLogs
  <1>3. GcInv => GcSparesWanted
    BY DEF GcInv
  <1> QED
    BY <1>1, <1>2, <1>3, PTL DEF Spec

----------------------------------------------------------------------------
(***************************************************************************)
(* Log rotation.                                                           *)
(***************************************************************************)
\* The files of a container lie in a window of MaxFiles numbers that ends at
\* current_index, also after the manager has gone; only what could not be
\* removed lies below it.
LogInv ==
  /\ logIndex \in Nat
  /\ DOMAIN logFiles \subseteq 0 .. logIndex
  /\ \A n \in DOMAIN logFiles \ leftOver : n > logIndex - MaxFiles

\* It holds of the empty directory.
LEMMA LogInvInit == LogInit => LogInv
  BY LogAssumption DEF LogInit, LogInv

\* find_current_index gives the number of a file, or 0, and none is higher.
LEMMA HighestIndexType ==
  ASSUME LogInv
  PROVE  /\ HighestIndex \in Nat /\ HighestIndex =< logIndex
         /\ \A n \in DOMAIN logFiles : n =< HighestIndex
  <1> DEFINE D == DOMAIN logFiles
  <1>1. CASE D = {}
    BY <1>1 DEF HighestIndex, LogInv
  <1>2. CASE D # {}
    <2>1. D \in SUBSET (0 .. logIndex) /\ logIndex \in Nat
      BY DEF LogInv
    <2>2. \E n \in D : \A k \in D : k =< n
      BY <1>2, <2>1, BoundedMax
    <2> QED
      BY <1>2, <2>1, <2>2 DEF HighestIndex
  <1> QED
    BY <1>1, <1>2

\* A rotation moves the window by one and drops the file that falls out of it;
\* a manager that starts again moves it back to the highest file.
LEMMA LogStep ==
  ASSUME LogInv, LogNext \/ UNCHANGED logVars
  PROVE  LogInv'
  <1> USE LogAssumption DEF LogInv
  <1>1. CASE NewLogManager
    <2> DEFINE h == HighestIndex
    <2>1. h \in Nat /\ h =< logIndex /\ \A n \in DOMAIN logFiles : n =< h
      BY HighestIndexType
    <2>2. /\ logIndex' = h /\ leftOver' = leftOver
          /\ DOMAIN logFiles' = DOMAIN logFiles \cup {h}
      BY <1>1 DEF NewLogManager, With
    <2> HIDE DEF h
    <2> QED
      BY <2>1, <2>2
  <1>2. ASSUME NEW len \in LineSizes, WriteLine(len)
        PROVE  LogInv'
    <2>1. CASE logSize + len > MaxSize
      <3>1. logIndex' = logIndex + 1
        BY <1>2, <2>1 DEF WriteLine
      <3>2. PICK opened \in BOOLEAN, removed \in BOOLEAN :
              /\ logFiles' = IF opened THEN With(Rotated(logIndex', logFiles, opened, removed), logIndex', len)
                             ELSE Rotated(logIndex', logFiles, opened, removed)
              /\ leftOver' = IF ~removed /\ Oldest(logIndex') \in DOMAIN logFiles
                             THEN leftOver \cup {Oldest(logIndex')} ELSE leftOver
        BY <1>2, <2>1 DEF WriteLine
      <3>3. DOMAIN Rotated(logIndex', logFiles, opened, removed)
              = (DOMAIN logFiles \ (IF removed THEN {Oldest(logIndex')} ELSE {}))
                  \cup (IF opened THEN {logIndex'} ELSE {})
        BY DEF Rotated, With, Without
      <3>4. DOMAIN logFiles' = DOMAIN Rotated(logIndex', logFiles, opened, removed)
        BY <3>2, <3>3 DEF With
      <3>5. \A n \in DOMAIN logFiles' \ leftOver' :
              n = logIndex' \/ (n \in DOMAIN logFiles \ leftOver /\ n # Oldest(logIndex'))
        BY <3>2, <3>3, <3>4
      <3>6. \A n \in DOMAIN logFiles' : n = logIndex' \/ n \in DOMAIN logFiles
        BY <3>3, <3>4
      <3> QED
        BY <3>1, <3>5, <3>6 DEF Oldest
    <2>2. CASE ~ (logSize + len > MaxSize)
      <3>1. logIndex' = logIndex /\ leftOver' = leftOver /\ DOMAIN logFiles' = DOMAIN logFiles
        BY <1>2, <2>2 DEF WriteLine, With
      <3> QED
        BY <3>1
    <2> QED
      BY <2>1, <2>2
  <1>3. CASE LogManagerGone
    BY <1>3 DEF LogManagerGone
  <1>4. CASE RemovePodLogs
    BY <1>4 DEF RemovePodLogs
  <1>5. CASE UNCHANGED logVars
    BY <1>5 DEF logVars
  <1> QED
    BY <1>1, <1>2, <1>3, <1>4, <1>5 DEF LogNext

\* A window of MaxFiles numbers holds no more than MaxFiles files.
LEMMA LogWindow ==
  ASSUME LogInv
  PROVE  LogFilesBounded
  <1> DEFINE W == logIndex - MaxFiles + 1 .. logIndex
             D == DOMAIN logFiles \ leftOver
  <1>1. logIndex \in Int /\ MaxFiles \in Nat \ {0} /\ logIndex - MaxFiles + 1 \in Int
    BY LogAssumption DEF LogInv
  <1>2. IsFiniteSet(W) /\ Cardinality(W) = MaxFiles
    BY <1>1, FS_Interval
  <1>3. D \in SUBSET W
    BY <1>1 DEF LogInv
  <1> HIDE DEF W, D
  <1>4. Cardinality(D) =< MaxFiles
    BY <1>2, <1>3, FS_Subset
  <1> QED
    BY <1>4 DEF LogFilesBounded, D

\* Rotation leaves at most containerLogMaxFiles files besides those whose
\* removal failed, through any number of restarts, removals of the directory
\* and files that could not be opened.
THEOREM LogsAreBounded == Spec => []LogFilesBounded
  <1>1. Init => LogInv
    BY LogInvInit DEF Init
  <1>2. LogInv /\ [Next]_vars => LogInv'
    BY LogStep DEF Next, vars, TheKubelet, TheEviction, TheImageGc, ThePleg, TheLogs
  <1>3. LogInv => LogFilesBounded
    BY LogWindow
  <1> QED
    BY <1>1, <1>2, <1>3, PTL DEF Spec

----------------------------------------------------------------------------
(***************************************************************************)
(* The files of the process.                                               *)
(***************************************************************************)
\* A client certificate is written only where there is no kubeconfig, and a
\* serving key only after the certificate made with it; a certificate that is
\* missing or was not written has no key beside it.
FilesInv ==
  /\ starts \in Nat
  /\ kubeconfig \in Nat /\ clientPem \in Nat
  /\ servingCert \in Int /\ servingKey \in Int
  /\ step = "csr" /\ csr # "none" => kubeconfig = None
  /\ step \in {"pem", "kubeconfig"} => kubeconfig = None
  /\ step = "kubeconfig" => clientPem = starts
  /\ servingCert \in {None, Torn} => servingKey = None
  /\ step = "key" => servingCert = starts /\ servingKey \in {None, Torn}
  /\ step # "down" => starts > 0
  /\ step \in {"socket", "connect"} => csr = "none"
  /\ CredentialsMatch

\* Every step of the process, a crash between two of them and a start after it
\* preserve this.
LEMMA FilesStep ==
  ASSUME FilesInv, KubeletNext \/ UNCHANGED kubeletVars
  PROVE  FilesInv'
  <1> USE DEF FilesInv, CredentialsMatch, None, Torn, GoTo, durable
  <1>1. CASE Start
    BY <1>1 DEF Start
  <1>2. CASE AwaitSocket
    BY <1>2 DEF AwaitSocket
  <1>3. CASE Connect
    BY <1>3 DEF Connect
  <1>4. CASE SubmitCsr
    BY <1>4 DEF SubmitCsr
  <1>5. CASE PollCsr
    BY <1>5 DEF PollCsr
  <1>6. CASE WriteClientPem
    BY <1>6 DEF WriteClientPem
  <1>7. CASE WriteKubeconfig
    BY <1>7 DEF WriteKubeconfig
  <1>8. CASE MakeClient
    BY <1>8 DEF MakeClient
  <1>9. CASE CheckConfig
    BY <1>9 DEF CheckConfig
  <1>10. CASE InitializeNetwork
    BY <1>10 DEF InitializeNetwork
  <1>11. CASE WriteServingCert
    BY <1>11 DEF WriteServingCert, MustGenerate
  <1>12. CASE WriteServingKey
    BY <1>12 DEF WriteServingKey
  <1>13. CASE SpawnTasks
    BY <1>13 DEF SpawnTasks
  <1>14. CASE Leave
    BY <1>14 DEF Leave
  <1>15. CASE Exit
    BY <1>15 DEF Exit
  <1>16. CASE Crash
    BY <1>16 DEF Crash
  <1>17. CASE CsrDecided
    BY <1>17 DEF CsrDecided
  <1>18. ASSUME NEW t \in TaskNames, TaskEnds(t)
         PROVE  FilesInv'
    BY <1>18 DEF TaskEnds
  <1>19. CASE UNCHANGED kubeletVars
    BY <1>19 DEF kubeletVars
  <1> QED
    BY <1>1, <1>2, <1>3, <1>4, <1>5, <1>6, <1>7, <1>8, <1>9, <1>10, <1>11, <1>12, <1>13, <1>14,
       <1>15, <1>16, <1>17, <1>18, <1>19 DEF KubeletNext, KubeletSteps, LeaveNoticed

\* Wherever a process is interrupted between the writes of its credentials, and
\* however often, the next one finds a kubeconfig that goes with its client
\* certificate and a complete serving pair only if the two belong together.
THEOREM CredentialsFit == Spec => []CredentialsMatch
  <1>1. Init => FilesInv
    BY DEF Init, KubeletInit, FilesInv, CredentialsMatch, None, Torn
  <1>2. FilesInv /\ [Next]_vars => FilesInv'
    BY FilesStep DEF Next, vars, TheKubelet, TheEviction, TheImageGc, ThePleg, TheLogs
  <1>3. FilesInv => CredentialsMatch
    BY DEF FilesInv
  <1> QED
    BY <1>1, <1>2, <1>3, PTL DEF Spec

----------------------------------------------------------------------------
(***************************************************************************)
(* Eviction.                                                               *)
(***************************************************************************)
\* The configuration and the readings are ones the node can have, and every pod
\* has a time since it was last picked.
EvictionInv ==
  /\ evictionHard \in Thresholds
  /\ signals \in SignalSets
  /\ lastEviction \in [NodePods -> 0 .. Never]
  /\ evDesired \subseteq NodePods

\* The two readers agree on a threshold in the common notations: what
\* is_exceeded finds, threshold_exceeded finds.  Where there is no capacity the
\* second says no, and so does the first.
LEMMA ReadersAgree ==
  ASSUME NEW t, t.n \in Nat, Plain(t), NEW value \in Nat, NEW total \in Nat,
         IsExceeded(t, value, total)
  PROVE  ThresholdExceeded(value, total, t)
  <1>1. CASE t.form = "percent"
    <2>1. CASE total = 0
      <3>1. (total * t.n) \div 100 = 0
        BY <2>1
      <3> QED
        BY <1>1, <3>1 DEF IsExceeded
    <2>2. CASE total # 0
      BY <1>1, <2>2 DEF IsExceeded, ThresholdExceeded
    <2> QED
      BY <2>1, <2>2
  <1>2. CASE t.form # "percent"
    BY <1>2 DEF IsExceeded, ThresholdExceeded, ParseBytes, Plain
  <1> QED
    BY <1>1, <1>2

\* What the eviction loop acts on, the node reports.
LEMMA Reported ==
  ASSUME EvictionInv
  PROVE  EvictionIsReported
  <1> SUFFICES ASSUME NEW s \in {"memory.available", "nodefs.available"},
                      s \in DOMAIN evictionHard, Plain(evictionHard[s]),
                      Exceeded(s, evictionHard, signals)
               PROVE  ConditionOf(s) \in EvaluatePressure(evictionHard, signals)
    BY DEF EvictionIsReported
  <1>1. /\ signals.memory \in Nat /\ signals.nodefs \in Nat /\ signals.nodefsTotal \in Nat
        /\ evictionHard[s].n \in Nat
    BY EvictionAssumption DEF EvictionInv
  <1>2. SignalExceeded(s, evictionHard[s], signals)
    <2>1. CASE s = "memory.available"
      <3>1. IsExceeded(evictionHard[s], signals.memory, signals.memory + signals.nodefsTotal)
        BY <2>1 DEF Exceeded, Resource
      <3>2. ThresholdExceeded(signals.memory, signals.memory + signals.nodefsTotal, evictionHard[s])
        BY <1>1, <3>1, ReadersAgree
      <3> QED
        BY <2>1, <3>2 DEF SignalExceeded
    <2>2. CASE s = "nodefs.available"
      <3>1. IsExceeded(evictionHard[s], signals.nodefs, signals.nodefsTotal)
        BY <2>2 DEF Exceeded, Resource
      <3>2. ThresholdExceeded(signals.nodefs, signals.nodefsTotal, evictionHard[s])
        BY <1>1, <3>1, ReadersAgree
      <3> QED
        BY <2>2, <3>2 DEF SignalExceeded
    <2> QED
      BY <2>1, <2>2
  <1> QED
    BY <1>2 DEF EvaluatePressure

\* One pick falls on a candidate, or on nobody.
LEMMA PickShape ==
  ASSUME NEW b, NEW reason, NEW pods, NEW last, NEW m \in Pick(b, reason, pods, last)
  PROVE  m = <<>> \/ \E p \in Candidates(reason, pods, last) : m = <<[pod |-> p, reason |-> reason]>>
  BY DEF Pick

\* A candidate has been passed over by nobody of a lower class but the pods
\* picked within the reclaim period.
LEMMA CandidateRank ==
  ASSUME NEW reason, NEW pods \in SUBSET NodePods, NEW last \in [NodePods -> 0 .. Never],
         NEW p \in Candidates(reason, pods, last), NEW q \in Considered(reason, pods),
         EvictionPriority(Class(q)) < EvictionPriority(Class(p))
  PROVE  q \in NodePods /\ last[q] =< ReclaimTicks
  <1>1. q \in NodePods /\ p \in NodePods
    BY DEF Considered, Candidates
  <1>2. EvictionPriority(Class(p)) \in Nat /\ EvictionPriority(Class(q)) \in Nat
    BY DEF EvictionPriority
  <1>3. last[q] \in Nat /\ ReclaimTicks \in Nat
    BY <1>1 DEF Never, ReclaimTicks
  <1> QED
    BY <1>1, <1>2, <1>3 DEF Candidates

\* A pod that is picked was last picked just now; the others keep their time.
LEMMA PickedType ==
  ASSUME NEW last \in [NodePods -> 0 .. Never], NEW ds
  PROVE  /\ Picked(last, ds) \in [NodePods -> 0 .. Never]
         /\ \A q \in NodePods : Picked(last, ds)[q] =< last[q]
  <1>1. 0 \in 0 .. Never /\ \A q \in NodePods : last[q] \in 0 .. Never
    BY DEF Never, ReclaimTicks
  <1>2. \A x \in 0 .. Never : x =< x /\ 0 =< x
    BY DEF Never, ReclaimTicks
  <1> QED
    BY <1>1, <1>2 DEF Picked

\* What the second pick of a tick adds does not take back the first.
LEMMA PickedMore ==
  ASSUME NEW last \in [NodePods -> 0 .. Never],
         NEW R, NEW m \in Seq([pod : NodePods, reason : R]), NEW d \in Seq([pod : NodePods, reason : R])
  PROVE  \A q \in NodePods : Picked(last, m \o d)[q] =< Picked(last, m)[q]
  <1> SUFFICES ASSUME NEW q \in NodePods
               PROVE  Picked(last, m \o d)[q] =< Picked(last, m)[q]
    OBVIOUS
  <1>1. Picked(last, m)[q] \in Nat /\ Picked(last, m \o d)[q] \in Nat
    BY PickedType DEF Never, ReclaimTicks
  <1>2. CASE \E i \in DOMAIN m : m[i].pod = q
    <2>1. PICK i \in DOMAIN m : m[i].pod = q
      BY <1>2
    <2>2. i \in DOMAIN (m \o d) /\ (m \o d)[i] = m[i]
      BY <2>1
    <2>3. Picked(last, m \o d)[q] = 0
      BY <2>1, <2>2 DEF Picked
    <2> QED
      BY <1>1, <2>3
  <1>3. CASE ~ \E i \in DOMAIN m : m[i].pod = q
    <2>1. Picked(last, m)[q] = last[q]
      BY <1>3 DEF Picked
    <2> QED
      BY <2>1, PickedType
  <1> QED
    BY <1>2, <1>3

\* The typing of the loop's variables, and the order of the classes, for one step.
LEMMA EvictionStep ==
  ASSUME EvictionInv, EvictionNext \/ UNCHANGED evictionVars
  PROVE  /\ EvictionInv'
         /\ \A i \in DOMAIN decisions' : decisions = <<>> =>
               \A q \in Considered(decisions'[i].reason, evDesired) :
                  EvictionPriority(Class(q)) < EvictionPriority(Class(decisions'[i].pod))
                     => lastEviction'[q] =< ReclaimTicks
  <1> USE DEF EvictionInv
  <1> DEFINE Lowest == \A i \in DOMAIN decisions' : decisions = <<>> =>
                         \A q \in Considered(decisions'[i].reason, evDesired) :
                            EvictionPriority(Class(q)) < EvictionPriority(Class(decisions'[i].pod))
                               => lastEviction'[q] =< ReclaimTicks
  <1> SUFFICES EvictionInv' /\ Lowest
    OBVIOUS
  <1>0. ASSUME decisions' = decisions
        PROVE  Lowest
    BY <1>0
  <1>1. CASE EvictionTick
    <2> DEFINE aged(due) == [p \in NodePods |-> IF p \in due \/ lastEviction[p] >= ReclaimTicks THEN Never
                                               ELSE lastEviction[p] + 1]
    <2>1. PICK due \in SUBSET {p \in NodePods : lastEviction[p] + 1 = ReclaimTicks} :
             \E m \in Pick(Exceeded("memory.available", evictionHard, signals), MemoryPressure, evDesired, aged(due)) :
             \E d \in Pick(Exceeded("nodefs.available", evictionHard, signals), DiskPressure, evDesired, Picked(aged(due), m)) :
               /\ decisions' = m \o d
               /\ lastEviction' = Picked(aged(due), m \o d)
      BY <1>1 DEF EvictionTick
    <2>2. aged(due) \in [NodePods -> 0 .. Never]
      BY DEF Never, ReclaimTicks
    <2> DEFINE a == aged(due)
    <2>3. a \in [NodePods -> 0 .. Never]
      BY <2>2
    <2> HIDE DEF aged, a
    <2>4. PICK m \in Pick(Exceeded("memory.available", evictionHard, signals), MemoryPressure, evDesired, a) :
             \E d \in Pick(Exceeded("nodefs.available", evictionHard, signals), DiskPressure, evDesired, Picked(a, m)) :
               /\ decisions' = m \o d
               /\ lastEviction' = Picked(a, m \o d)
      BY <2>1 DEF a
    <2>5. PICK d \in Pick(Exceeded("nodefs.available", evictionHard, signals), DiskPressure, evDesired, Picked(a, m)) :
               /\ decisions' = m \o d
               /\ lastEviction' = Picked(a, m \o d)
      BY <2>4
    <2> DEFINE am == Picked(a, m)
               R == {MemoryPressure, DiskPressure}
    <2>6. am \in [NodePods -> 0 .. Never] /\ \A q \in NodePods : am[q] =< a[q]
      BY <2>3, PickedType
    <2>7. m = <<>> \/ \E p \in Candidates(MemoryPressure, evDesired, a) : m = <<[pod |-> p, reason |-> MemoryPressure]>>
      BY PickShape
    <2>8. d = <<>> \/ \E p \in Candidates(DiskPressure, evDesired, am) : d = <<[pod |-> p, reason |-> DiskPressure]>>
      BY PickShape
    <2>9. m \in Seq([pod : NodePods, reason : R]) /\ d \in Seq([pod : NodePods, reason : R])
      <3>1. Candidates(MemoryPressure, evDesired, a) \subseteq NodePods
        BY DEF Candidates, Considered
      <3>2. Candidates(DiskPressure, evDesired, am) \subseteq NodePods
        BY DEF Candidates, Considered
      <3>3. \A p \in NodePods, r \in R : <<[pod |-> p, reason |-> r]>> \in Seq([pod : NodePods, reason : R])
        OBVIOUS
      <3>4. MemoryPressure \in R /\ DiskPressure \in R
        OBVIOUS
      <3> HIDE DEF R, am
      <3>5. m \in Seq([pod : NodePods, reason : R])
        <4>1. CASE m = <<>>
          BY <4>1
        <4>2. CASE m # <<>>
          <5>1. PICK p \in Candidates(MemoryPressure, evDesired, a) : m = <<[pod |-> p, reason |-> MemoryPressure]>>
            BY <2>7, <4>2
          <5> QED
            BY <5>1, <3>1, <3>3, <3>4, Zenon
        <4> QED
          BY <4>1, <4>2
      <3>6. d \in Seq([pod : NodePods, reason : R])
        <4>1. CASE d = <<>>
          BY <4>1
        <4>2. CASE d # <<>>
          <5>1. PICK p \in Candidates(DiskPressure, evDesired, am) : d = <<[pod |-> p, reason |-> DiskPressure]>>
            BY <2>8, <4>2
          <5> QED
            BY <5>1, <3>2, <3>3, <3>4, Zenon
        <4> QED
          BY <4>1, <4>2
      <3> QED
        BY <3>5, <3>6
    <2>10. lastEviction' \in [NodePods -> 0 .. Never] /\ \A q \in NodePods : lastEviction'[q] =< am[q]
      BY <2>3, <2>5, <2>9, PickedType, PickedMore
    <2> HIDE DEF am, R
    <2>11. ASSUME NEW i \in DOMAIN decisions', NEW q \in Considered(decisions'[i].reason, evDesired),
                  EvictionPriority(Class(q)) < EvictionPriority(Class(decisions'[i].pod))
           PROVE  lastEviction'[q] =< ReclaimTicks
      <3>1. CASE i \in DOMAIN m
        <4>1. decisions'[i] = m[i]
          BY <2>5, <2>9, <3>1
        <4>2. PICK p \in Candidates(MemoryPressure, evDesired, a) : m = <<[pod |-> p, reason |-> MemoryPressure]>>
          BY <2>7, <3>1
        <4>3. m[i].pod = p /\ m[i].reason = MemoryPressure
          BY <3>1, <4>2
        <4>4. q \in NodePods /\ a[q] =< ReclaimTicks
          BY <2>3, <2>11, <4>1, <4>2, <4>3, CandidateRank
        <4>5. a[q] \in Nat /\ am[q] \in Nat /\ lastEviction'[q] \in Nat /\ ReclaimTicks \in Nat
          BY <2>3, <2>6, <2>10, <4>4 DEF Never, ReclaimTicks
        <4> QED
          BY <2>6, <2>10, <4>4, <4>5
      <3>2. CASE i \notin DOMAIN m
        <4>1. \E j \in DOMAIN d : decisions'[i] = d[j]
          <5>1. i - Len(m) \in DOMAIN d /\ decisions'[i] = d[i - Len(m)]
            BY <2>5, <2>9, <3>2
          <5> QED
            BY <5>1
        <4>2. PICK j \in DOMAIN d : decisions'[i] = d[j]
          BY <4>1
        <4>3. PICK p \in Candidates(DiskPressure, evDesired, am) : d = <<[pod |-> p, reason |-> DiskPressure]>>
          BY <2>8, <4>2
        <4>4. d[j].pod = p /\ d[j].reason = DiskPressure
          BY <4>2, <4>3
        <4>5. q \in NodePods /\ am[q] =< ReclaimTicks
          BY <2>6, <2>11, <4>2, <4>3, <4>4, CandidateRank
        <4>6. am[q] \in Nat /\ lastEviction'[q] \in Nat /\ ReclaimTicks \in Nat
          BY <2>6, <2>10, <4>5 DEF Never, ReclaimTicks
        <4> QED
          BY <2>10, <4>5, <4>6
      <3> QED
        BY <3>1, <3>2
    <2>12. EvictionInv'
      BY <1>1, <2>10 DEF EvictionTick
    <2>13. Lowest
      BY <2>11, Zenon DEF Lowest
    <2> QED
      BY <2>12, <2>13
  <1>2. CASE EvictPod
    BY <1>2 DEF EvictPod
  <1>3. CASE ReportConditions
    BY <1>3, <1>0 DEF ReportConditions
  <1>4. CASE SignalsChange
    BY <1>4, <1>0 DEF SignalsChange
  <1>5. ASSUME NEW p \in NodePods, EvictionDone(p) \/ PodComes(p) \/ PodGoes(p)
        PROVE  EvictionInv' /\ Lowest
    BY <1>5, <1>0 DEF EvictionDone, PodComes, PodGoes
  <1>6. CASE UNCHANGED evictionVars
    BY <1>6, <1>0 DEF evictionVars
  <1> QED
    BY <1>1, <1>2, <1>3, <1>4, <1>5, <1>6 DEF EvictionNext

\* The eviction loop acts on a pressure that the node conditions show for the
\* same signals, whatever the thresholds in the common notations, and a pod of
\* a higher class is never taken while one of a lower class may be.
THEOREM EvictionIsSound == Spec => EvictionSound
  <1>1. Init => EvictionInv
    BY DEF Init, EvictionInit, EvictionInv, Never, ReclaimTicks
  <1>2. EvictionInv /\ [Next]_vars => EvictionInv'
    BY EvictionStep DEF Next, vars, TheKubelet, TheEviction, TheImageGc, ThePleg, TheLogs
  <1>3. EvictionInv => EvictionIsReported
    BY Reported
  <1>4. EvictionInv /\ [Next]_vars
          => [\A i \in DOMAIN decisions' : decisions = <<>> =>
                \A q \in Considered(decisions'[i].reason, evDesired) :
                   EvictionPriority(Class(q)) < EvictionPriority(Class(decisions'[i].pod))
                     => lastEviction'[q] <= ReclaimTicks]_evictionVars
    BY EvictionStep DEF Next, vars, TheKubelet, TheEviction, TheImageGc, ThePleg, TheLogs
  <1> QED
    BY <1>1, <1>2, <1>3, <1>4, PTL DEF Spec, EvictionSound, LowestClassFirst
=============================================================================
