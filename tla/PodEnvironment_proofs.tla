------------------------ MODULE PodEnvironment_proofs ------------------------
(***************************************************************************)
(* Proofs about what a pod worker keeps up around containers: the order of *)
(* the probes, the volumes, the credentials of image pulls and the         *)
(* environment, for any probes, containers, volumes, objects and secrets.  *)
(***************************************************************************)
EXTENDS PodEnvironment, SequenceTheorems, WellFoundedInduction, TLAPS

----------------------------------------------------------------------------
(***************************************************************************)
(* Probes.                                                                 *)
(***************************************************************************)
Task == [kind : AllKinds, cid : Cids, pc : {"start", "check", "probe"}, passes : Nat, fails : Nat]

\* What the maps and the tasks say of a container that has not passed its
\* startup probe: that of container_startup_done is what the worker goes by.
ProbeInv ==
  /\ tracked \in Cids \cup {NoCid}
  /\ tasks \subseteq Task
  /\ startupDone \in [Cids -> Entry]
  /\ readiness \in [Cids -> Entry]
  /\ "startup" \in ProbeKinds => \A c \in Cids : startupDone[c] = "true" => c \in passed
  /\ StartupFirst

\* It holds before the first container.
LEMMA ProbeInvInit == ProbeInit => ProbeInv
  BY DEF ProbeInit, ProbeInv, StartupFirst, Entry

\* A result changes the counters of a task and nothing else of it.
LEMMA EvaluateType ==
  ASSUME NEW t \in Task, NEW ok \in BOOLEAN
  PROVE  /\ Evaluate(t, ok).task \in Task
         /\ Evaluate(t, ok).task.kind = t.kind
         /\ Evaluate(t, ok).task.cid = t.cid
         /\ Evaluate(t, ok).decision \in {"Pass", "Fail", "Pending"}
  <1> DEFINE cap(n) == IF n > SuccessThreshold THEN SuccessThreshold ELSE n
             u == IF ok THEN [t EXCEPT !.fails = 0, !.passes = cap(@ + 1)]
                  ELSE [t EXCEPT !.passes = 0, !.fails = @ + 1]
  <1>1. Evaluate(t, ok).task = u
    BY DEF Evaluate
  <1>2. Evaluate(t, ok).decision \in {"Pass", "Fail", "Pending"}
    BY DEF Evaluate
  <1>3. cap(t.passes + 1) \in Nat /\ t.fails + 1 \in Nat
    BY ProbeAssumption DEF Task
  <1> HIDE DEF cap
  <1>4. u \in Task /\ u.kind = t.kind /\ u.cid = t.cid
    BY <1>3 DEF Task
  <1> QED
    BY <1>1, <1>2, <1>4

\* A task that is replaced by one of its kind for its container, or ends, takes
\* nothing away from what is known of the others.
LEMMA TaskKept ==
  ASSUME ProbeInv, NEW t \in tasks, NEW u \in Task, u.kind = t.kind, u.cid = t.cid,
         Replace(t, u) \/ TaskEnds(t)
  PROVE  /\ tasks' \subseteq Task
         /\ "startup" \in ProbeKinds => \A x \in tasks' : x.kind # "startup" => x.cid \in passed
  BY DEF ProbeInv, StartupFirst, Replace, TaskEnds

\* Every step of the worker, of a task, late ones of earlier containers included,
\* and of the container preserves it.
LEMMA ProbeStep ==
  ASSUME ProbeInv, ProbeNext \/ UNCHANGED probeVars
  PROVE  ProbeInv'
  <1> USE DEF ProbeInv, StartupFirst, Entry
  <1>1. CASE ArmProbes
    <2>1. tracked \in Cids
      BY <1>1 DEF ArmProbes
    <2>2. \A k \in AllKinds : NewTask(k, tracked) \in Task /\ NewTask(k, tracked).kind = k
                              /\ NewTask(k, tracked).cid = tracked
      BY <2>1 DEF NewTask, Task
    <2>3. \A k \in AllKinds : Due(k) /\ k # "startup" /\ "startup" \in ProbeKinds => tracked \in passed
      BY <2>1 DEF Due
    <2>4. /\ tasks' = tasks \cup {NewTask(k, tracked) : k \in {j \in AllKinds : Due(j)}}
          /\ UNCHANGED <<tracked, startupDone, readiness, passed>>
      BY <1>1 DEF ArmProbes
    <2> QED
      BY <2>2, <2>3, <2>4
  <1>2. CASE StartContainer
    <2>1. tracked' \in Cids \cup {NoCid}
      BY <1>2, ProbeAssumption DEF StartContainer, Cids, NoCid
    <2> QED
      BY <1>2, <2>1 DEF StartContainer
  <1>3. ASSUME NEW t \in tasks, TaskStarts(t)
        PROVE  ProbeInv'
    <2> DEFINE u == [t EXCEPT !.pc = "check"]
    <2>1. t \in Task /\ t.cid \in Cids
      BY DEF Task
    <2>2. u \in Task /\ u.kind = t.kind /\ u.cid = t.cid
      BY <2>1 DEF Task
    <2>3. Replace(t, u) /\ UNCHANGED <<tracked, startupDone, passed>>
      BY <1>3 DEF TaskStarts
    <2> HIDE DEF u
    <2>4. /\ tasks' \subseteq Task
          /\ "startup" \in ProbeKinds => \A x \in tasks' : x.kind # "startup" => x.cid \in passed
      BY <2>2, <2>3, TaskKept
    <2>5. /\ readiness' \in [Cids -> Entry]
          /\ \A c \in Cids : readiness'[c] = "true" => readiness[c] = "true"
      BY <1>3, <2>1 DEF TaskStarts, Set
    <2> QED
      BY <2>3, <2>4, <2>5
  <1>4. ASSUME NEW t \in tasks, TaskChecks(t)
        PROVE  ProbeInv'
    <2> DEFINE u == [t EXCEPT !.pc = "probe"]
               w == [t EXCEPT !.passes = 0, !.fails = 0]
    <2>1. t \in Task /\ t.cid \in Cids
      BY DEF Task
    <2>2. u \in Task /\ u.kind = t.kind /\ u.cid = t.cid /\ w \in Task /\ w.kind = t.kind /\ w.cid = t.cid
      BY <2>1 DEF Task
    <2>3. (Replace(t, u) \/ Replace(t, w) \/ TaskEnds(t)) /\ UNCHANGED <<tracked, passed>>
      BY <1>4, Zenon DEF TaskChecks
    <2>4. /\ readiness' \in [Cids -> Entry] /\ startupDone' \in [Cids -> Entry]
          /\ \A c \in Cids : readiness'[c] = "true" => readiness[c] = "true"
          /\ \A c \in Cids : startupDone'[c] = "true" => startupDone[c] = "true"
      BY <1>4, <2>1 DEF TaskChecks, Set
    <2> HIDE DEF u, w
    <2>5. /\ tasks' \subseteq Task
          /\ "startup" \in ProbeKinds => \A x \in tasks' : x.kind # "startup" => x.cid \in passed
      BY <2>2, <2>3, TaskKept
    <2> QED
      BY <2>3, <2>4, <2>5
  <1>5. ASSUME NEW t \in tasks, TaskProbes(t)
        PROVE  ProbeInv'
    <2>1. t \in Task /\ t.cid \in Cids /\ t.kind \in AllKinds
      BY DEF Task
    <2>2. PICK ok \in Results(t.cid) :
            LET e    == Evaluate(t, ok)
                next == [e.task EXCEPT !.pc = "check"]
            IN  CASE t.kind = "liveness" ->
                       /\ (TaskEnds(t) \/ Replace(t, next))
                       /\ UNCHANGED <<startupDone, readiness, passed>>
                  [] t.kind = "startup" ->
                       /\ (TaskEnds(t) \/ Replace(t, next))
                       /\ startupDone' = IF e.decision = "Pending" THEN startupDone
                                         ELSE Set(startupDone, t.cid, IF e.decision = "Pass" THEN "true" ELSE "false")
                       /\ passed' = IF e.decision = "Pass" THEN passed \cup {t.cid} ELSE passed
                       /\ UNCHANGED readiness
                  [] t.kind = "readiness" ->
                       /\ Replace(t, IF e.decision = "Fail" THEN [next EXCEPT !.passes = 0, !.fails = 0] ELSE next)
                       /\ readiness' = IF e.decision = "Pending" THEN readiness
                                       ELSE Set(readiness, t.cid, IF e.decision = "Pass" THEN "true" ELSE "false")
                       /\ UNCHANGED <<startupDone, passed>>
      BY <1>5, <2>1 DEF TaskProbes, AllKinds
    <2> DEFINE e == Evaluate(t, ok)
               u == [e.task EXCEPT !.pc = "check"]
               w == [u EXCEPT !.passes = 0, !.fails = 0]
    <2>3. ok \in BOOLEAN
      BY DEF Results
    <2>4. /\ e.task \in Task /\ e.task.kind = t.kind /\ e.task.cid = t.cid
          /\ e.decision \in {"Pass", "Fail", "Pending"}
      BY <2>1, <2>3, EvaluateType
    <2>5. UNCHANGED tracked
      BY <1>5 DEF TaskProbes
    <2> HIDE DEF e
    <2>6. u \in Task /\ u.kind = t.kind /\ u.cid = t.cid
      BY <2>4 DEF Task
    <2>7. w \in Task /\ w.kind = t.kind /\ w.cid = t.cid
      BY <2>6 DEF Task
    <2>8. CASE t.kind = "liveness"
      <3>1. (TaskEnds(t) \/ Replace(t, u)) /\ UNCHANGED <<startupDone, readiness, passed>>
        BY <2>2, <2>8 DEF e
      <3> HIDE DEF u
      <3>2. /\ tasks' \subseteq Task
            /\ "startup" \in ProbeKinds => \A x \in tasks' : x.kind # "startup" => x.cid \in passed
        BY <2>6, <3>1, TaskKept
      <3> QED
        BY <2>5, <3>1, <3>2
    <2>9. CASE t.kind = "startup"
      <3>1. /\ TaskEnds(t) \/ Replace(t, u)
            /\ startupDone' = IF e.decision = "Pending" THEN startupDone
                              ELSE Set(startupDone, t.cid, IF e.decision = "Pass" THEN "true" ELSE "false")
            /\ passed' = IF e.decision = "Pass" THEN passed \cup {t.cid} ELSE passed
            /\ UNCHANGED readiness
        BY <2>2, <2>9 DEF e
      <3> HIDE DEF u
      <3>2. /\ tasks' \subseteq Task
            /\ "startup" \in ProbeKinds => \A x \in tasks' : x.kind # "startup" => x.cid \in passed
        BY <2>6, <3>1, TaskKept
      <3>3. /\ startupDone' \in [Cids -> Entry] /\ passed \subseteq passed'
            /\ "startup" \in ProbeKinds => \A c \in Cids : startupDone'[c] = "true" => c \in passed'
        BY <2>1, <3>1 DEF Set
      <3> QED
        BY <2>5, <3>1, <3>2, <3>3
    <2>10. CASE t.kind = "readiness"
      <3>1. /\ Replace(t, w) \/ Replace(t, u)
            /\ readiness' = IF e.decision = "Pending" THEN readiness
                            ELSE Set(readiness, t.cid, IF e.decision = "Pass" THEN "true" ELSE "false")
            /\ UNCHANGED <<startupDone, passed>>
        BY <2>2, <2>10 DEF e
      <3> HIDE DEF u, w
      <3>2. /\ tasks' \subseteq Task
            /\ "startup" \in ProbeKinds => \A x \in tasks' : x.kind # "startup" => x.cid \in passed
        BY <2>6, <2>7, <3>1, TaskKept
      <3>3. /\ readiness' \in [Cids -> Entry]
            /\ "startup" \in ProbeKinds => \A c \in Cids : readiness'[c] = "true" => c \in passed
        BY <2>1, <2>10, <3>1 DEF Set
      <3> QED
        BY <2>5, <3>1, <3>2, <3>3
    <2> QED
      BY <2>1, <2>8, <2>9, <2>10 DEF AllKinds
  <1>6. ASSUME NEW c \in Cids, Hangs(c) \/ Exits(c)
        PROVE  ProbeInv'
    BY <1>6 DEF Hangs, Exits
  <1>7. CASE UNCHANGED probeVars
    BY <1>7 DEF probeVars
  <1> QED
    BY <1>1, <1>2, <1>3, <1>4, <1>5, <1>6, <1>7 DEF ProbeNext, TaskOf

\* No liveness or readiness task of a container runs, and it is not called
\* ready, before its startup probe has passed, though tasks of the containers
\* before it still run and write to the same maps.
THEOREM StartupProbeFirst == Spec => []StartupFirst
  <1>1. Init => ProbeInv
    BY ProbeInvInit DEF Init
  <1>2. ProbeInv /\ [Next]_vars => ProbeInv'
    BY ProbeStep DEF Next, vars, Volume, Probe, Pull, Env
  <1>3. ProbeInv => StartupFirst
    BY DEF ProbeInv
  <1> QED
    BY <1>1, <1>2, <1>3, PTL DEF Spec

----------------------------------------------------------------------------
(***************************************************************************)
(* Volumes.                                                                *)
(***************************************************************************)
\* Until everything is mounted, what is not is on one of the two lists of
\* requests, and nothing on them is mounted.  A tmpfs has one mount more than
\* the restarts before it at most, and then the manager knows of it.
MountInv ==
  /\ volPc \in {"down", "idle", "mount", "local", "write", "ready"}
  /\ declared \subseteq Volumes
  /\ todo \subseteq Volumes /\ localTodo \subseteq Volumes
  /\ stops \in Nat
  /\ tmpfsPaths \subseteq localMounted
  /\ tmpfsMounts \in [Volumes -> Nat]
  /\ \A v \in Volumes : /\ v \notin tmpfsPaths => tmpfsMounts[v] =< stops
                        /\ v \in tmpfsPaths => tmpfsMounts[v] =< stops + 1 /\ tmpfsMounts[v] > 0
  /\ volPc \in {"mount", "local"} => localTodo \cap localMounted = {}
  /\ volPc = "mount" => /\ todo \cap localMounted = {}
                        /\ todo \cap localTodo = {}
                        /\ declared \subseteq ListMountedVolumes \cup todo \cup localTodo
  /\ volPc = "local" => declared \subseteq ListMountedVolumes \cup localTodo
  /\ volPc \in {"write", "ready"} => declared \subseteq ListMountedVolumes

\* It holds before the first sync.
LEMMA MountInvInit == VolumeInit => MountInv
  BY VolumeAssumption DEF VolumeInit, MountInv

\* Every step of a sync preserves it, where mounting stops half-way, after a
\* restart and when the spec gets a volume more too.
LEMMA MountStep ==
  ASSUME MountInv, VolumeNext \/ UNCHANGED volumeVars
  PROVE  MountInv'
  <1> USE DEF MountInv, ListMountedVolumes, mountVars, outside, VolumeError
  <1>1. CASE EnsurePodVolumes
    BY <1>1 DEF EnsurePodVolumes, Requests
  <1>2. CASE PassOn
    BY <1>2 DEF PassOn
  <1>3. CASE AllMounted
    BY <1>3 DEF AllMounted
  <1>4. CASE VolumesReady
    BY <1>4 DEF VolumesReady
  <1>5. CASE NextSync
    BY <1>5 DEF NextSync
  <1>6. CASE UnmountPodVolumes
    <2>1. tmpfsMounts' \in [Volumes -> Nat]
      BY <1>6 DEF UnmountPodVolumes
    <2> QED
      BY <1>6, <2>1 DEF UnmountPodVolumes
  <1>7. ASSUME NEW v \in Volumes, MountClaim(v)
        PROVE  MountInv'
    BY <1>7 DEF MountClaim, MountCsiPvc
  <1>8. ASSUME NEW v \in Volumes, MountLocal(v)
        PROVE  MountInv'
    BY <1>8 DEF MountLocal
  <1>9. ASSUME NEW v \in Volumes, WriteDownward(v)
        PROVE  MountInv'
    BY <1>9 DEF WriteDownward, AtWrite, WriteDone
  <1>10. ASSUME NEW v \in Volumes, WriteProjected(v)
        PROVE  MountInv'
    <2>1. VolumeError \/ WriteDone(v)
      BY <1>10, Zenon DEF WriteProjected
    <2> QED
      BY <1>10, <2>1 DEF WriteProjected, AtWrite, WriteDone
  <1>11. ASSUME NEW v \in Volumes, WriteObject(v)
        PROVE  MountInv'
    <2>1. VolumeError \/ WriteDone(v)
      BY <1>11, Zenon DEF WriteObject
    <2> QED
      BY <1>11, <2>1 DEF WriteObject, AtWrite, WriteDone
  <1>12. CASE ObjectChanges
    BY <1>12 DEF ObjectChanges
  <1>13. CASE SpecChanges
    BY <1>13, VolumeAssumption DEF SpecChanges
  <1>14. CASE KubeletDies
    BY <1>14 DEF KubeletDies
  <1>15. CASE KubeletBack
    BY <1>15 DEF KubeletBack
  <1>16. CASE UNCHANGED volumeVars
    BY <1>16 DEF volumeVars
  <1> QED
    BY <1>1, <1>2, <1>3, <1>4, <1>5, <1>6, <1>7, <1>8, <1>9, <1>10, <1>11, <1>12, <1>13, <1>14, <1>15, <1>16
       DEF VolumeNext

----------------------------------------------------------------------------
\* A file of the volume v that has contents, in f, belongs to something that was
\* fetched for the last complete write, d, or items names its path.
NoneStale(v, f, d) ==
  \A p \in Paths : f[p] # 0 =>
    \E s \in SourceSet(v) :
      \/ p \in DOMAIN Written(s, d, 1, 1)
      \/ IsFetched(s) /\ d[s.object] # NoData /\ p \in DOMAIN s.items

Clean(v) == Kind[v] = "projected" => NoneStale(v, files[v], got[v])

\* While the volumes are written, those that are done are clean; a volume with
\* no sources has never had a file.
FileInv ==
  /\ DOMAIN files = Volumes
  /\ DOMAIN got = Volumes
  /\ declared \subseteq Volumes
  /\ \A v \in Volumes : Sources[v] = <<>> => \A p \in Paths : files[v][p] = 0
  /\ volPc = "write" => \A v \in todo : Sources[v] # <<>>
  /\ client /\ volPc = "write" => \A v \in declared \ todo : Clean(v)
  /\ client /\ volPc = "ready" => \A v \in declared : Clean(v)

\* It holds of the empty directories.
LEMMA FileInvInit == VolumeInit => FileInv
  BY VolumeAssumption DEF VolumeInit, FileInv, NoFiles

\* A source never writes an empty value, and what it writes it would also write
\* when the token and the label can be had.
LEMMA WrittenValue ==
  ASSUME NEW s, s.type \in {"configMap", "secret", "token", "downward"}, NEW d,
         NEW token \in 0 .. 1, NEW label \in 0 .. 1, NEW p \in DOMAIN Written(s, d, token, label)
  PROVE  /\ Written(s, d, token, label)[p] # 0
         /\ p \in DOMAIN Written(s, d, 1, 1)
  <1>1. CASE IsFetched(s)
    <2>1. /\ Written(s, d, token, label) = IF d[s.object] = NoData THEN <<>> ELSE WriteFiles(s, d[s.object])
          /\ Written(s, d, 1, 1) = Written(s, d, token, label)
      BY <1>1 DEF Written, IsFetched
    <2>2. d[s.object] # NoData
      BY <2>1
    <2>3. WriteFiles(s, d[s.object])[p] # 0
      <3> DEFINE data == d[s.object]
                 item == IF s.items = <<>> THEN [k \in KeysOf(data) |-> k] ELSE s.items
      <3>1. WriteFiles(s, data) = [q \in {q \in DOMAIN item : item[q] \in KeysOf(data)} |-> data[item[q]]]
        BY DEF WriteFiles
      <3>2. p \in DOMAIN WriteFiles(s, data)
        BY <2>1, <2>2
      <3> HIDE DEF data, item
      <3>3. item[p] \in KeysOf(data) /\ WriteFiles(s, data)[p] = data[item[p]]
        BY <3>1, <3>2
      <3>4. data[item[p]] # 0
        BY <3>3 DEF KeysOf
      <3> QED
        BY <3>3, <3>4 DEF data
    <2> QED
      BY <2>1, <2>2, <2>3
  <1>2. CASE s.type = "token"
    <2>1. /\ Written(s, d, token, label) = IF token = 0 THEN <<>> ELSE [q \in {s.path} |-> token]
          /\ Written(s, d, 1, 1) = [q \in {s.path} |-> 1]
      BY <1>2 DEF Written, IsFetched
    <2> QED
      BY <2>1
  <1>3. CASE s.type = "downward"
    <2>1. /\ Written(s, d, token, label) = IF label = 0 THEN <<>> ELSE [q \in {s.path} |-> label]
          /\ Written(s, d, 1, 1) = [q \in {s.path} |-> 1]
      BY <1>3 DEF Written, IsFetched
    <2> QED
      BY <2>1
  <1> QED
    BY <1>1, <1>2, <1>3 DEF IsFetched

\* A path that cleanup_stale_volume_files leaves alone is one that a source of
\* the volume writes, or that its items name.
LEMMA ExpectedIsOurs ==
  ASSUME NEW s, s.type \in {"configMap", "secret", "token", "downward"}, NEW d, NEW token,
         NEW p \in Expected(s, d, token)
  PROVE  \/ p \in DOMAIN Written(s, d, 1, 1)
         \/ IsFetched(s) /\ d[s.object] # NoData /\ p \in DOMAIN s.items
  <1>1. CASE IsFetched(s)
    <2>1. d[s.object] # NoData /\ p \in ExpectedPaths(s, d[s.object])
      BY <1>1 DEF Expected
    <2>2. CASE s.items = <<>>
      <3> DEFINE data == d[s.object]
      <3>1. p \in KeysOf(data)
        BY <2>1, <2>2 DEF ExpectedPaths
      <3>2. Written(s, d, 1, 1) = WriteFiles(s, data)
        BY <1>1, <2>1 DEF Written, IsFetched
      <3> HIDE DEF data
      <3>3. p \in DOMAIN WriteFiles(s, data)
        BY <2>2, <3>1 DEF WriteFiles
      <3> QED
        BY <3>2, <3>3
    <2>3. CASE s.items # <<>>
      BY <1>1, <2>1, <2>3 DEF ExpectedPaths
    <2> QED
      BY <2>2, <2>3
  <1>2. CASE ~ IsFetched(s)
    <2>1. p = s.path /\ s.type \in {"token", "downward"}
      BY <1>2 DEF Expected, IsFetched
    <2>2. Written(s, d, 1, 1) = [q \in {s.path} |-> 1]
      BY <1>2, <2>1 DEF Written
    <2> QED
      BY <2>1, <2>2
  <1> QED
    BY <1>1, <1>2

\* What a complete write leaves at a path: a value of one of the sources,
\* nothing, or what was there where the clean-up leaves the path alone.
LEMMA WriteAllOutcome ==
  ASSUME DOMAIN files = Volumes, NEW v \in Volumes, NEW d, NEW token \in 0 .. 1, NEW label \in 0 .. 1,
         WriteAll(v, d, token, label)
  PROVE  /\ DOMAIN files' = Volumes
         /\ \A w \in Volumes \ {v} : files'[w] = files[w]
         /\ \A p \in Paths :
              \/ /\ \E s \in SourceSet(v) : p \in DOMAIN Written(s, d, 1, 1)
                 /\ files'[v][p] # 0
              \/ files'[v][p] = 0 /\ Cleaned(v, p, d, token)
              \/ files'[v][p] = files[v][p] /\ ~ Cleaned(v, p, d, token)
  <1> DEFINE LW(p) == LastWriter(v, p, d, token, label)
             val(p) == Written(Sources[v][CHOOSE i \in LW(p) : TRUE], d, token, label)[p]
             new == [p \in Paths |-> IF LW(p) # {} THEN val(p)
                                     ELSE IF Cleaned(v, p, d, token) THEN 0 ELSE files[v][p]]
  <1>1. files' = [files EXCEPT ![v] = new]
    BY DEF WriteAll
  <1>2. ASSUME NEW p \in Paths, LW(p) # {}
        PROVE  (\E s \in SourceSet(v) : p \in DOMAIN Written(s, d, 1, 1)) /\ val(p) # 0
    <2> DEFINE i == CHOOSE i \in LW(p) : TRUE
    <2>1. i \in LW(p)
      BY <1>2
    <2> HIDE DEF i
    <2>2. i \in 1 .. Len(Sources[v]) /\ p \in DOMAIN Written(Sources[v][i], d, token, label)
      BY <2>1 DEF LastWriter
    <2>3. Sources[v][i].type \in {"configMap", "secret", "token", "downward"} /\ Sources[v][i] \in SourceSet(v)
      BY <2>2, VolumeAssumption DEF SourceSet
    <2>4. Written(Sources[v][i], d, token, label)[p] # 0 /\ p \in DOMAIN Written(Sources[v][i], d, 1, 1)
      BY <2>2, <2>3, WrittenValue
    <2> QED
      BY <2>3, <2>4 DEF i
  <1> HIDE DEF LW, val
  <1>3. DOMAIN files' = Volumes /\ files'[v] = new /\ \A w \in Volumes \ {v} : files'[w] = files[w]
    BY <1>1
  <1> QED
    BY <1>2, <1>3

\* A write that stopped half-way changes some paths to a value of one of the
\* sources.
LEMMA WriteSomeOutcome ==
  ASSUME DOMAIN files = Volumes, NEW v \in Volumes, NEW d, WriteSome(v, d)
  PROVE  /\ DOMAIN files' = Volumes
         /\ \A w \in Volumes \ {v} : files'[w] = files[w]
         /\ \A p \in Paths : files'[v][p] # 0 \/ files'[v][p] = files[v][p]
  <1> DEFINE LW(p) == LastWriter(v, p, d, 0, 0)
             val(p) == Written(Sources[v][CHOOSE i \in LW(p) : TRUE], d, 0, 0)[p]
             new(P) == [p \in Paths |-> IF p \in P /\ LW(p) # {} THEN val(p) ELSE files[v][p]]
  <1>1. PICK P \in SUBSET Paths : files' = [files EXCEPT ![v] = new(P)]
    BY DEF WriteSome
  <1>2. ASSUME NEW p \in Paths, LW(p) # {}
        PROVE  val(p) # 0
    <2> DEFINE i == CHOOSE i \in LW(p) : TRUE
    <2>1. i \in LW(p)
      BY <1>2
    <2> HIDE DEF i
    <2>2. i \in 1 .. Len(Sources[v]) /\ p \in DOMAIN Written(Sources[v][i], d, 0, 0)
      BY <2>1 DEF LastWriter
    <2>3. Sources[v][i].type \in {"configMap", "secret", "token", "downward"}
      BY <2>2, VolumeAssumption
    <2>4. 0 \in 0 .. 1
      OBVIOUS
    <2>5. Written(Sources[v][i], d, 0, 0)[p] # 0
      BY <2>2, <2>3, <2>4, WrittenValue
    <2> QED
      BY <2>5 DEF i
  <1> HIDE DEF LW, val
  <1>3. DOMAIN files' = Volumes /\ files'[v] = new(P) /\ \A w \in Volumes \ {v} : files'[w] = files[w]
    BY <1>1
  <1> QED
    BY <1>2, <1>3

\* A complete write of a projected volume leaves it clean.
LEMMA WriteAllCleans ==
  ASSUME FileInv, NEW v \in Volumes, NEW d, NEW token \in 0 .. 1, NEW label \in 0 .. 1,
         WriteAll(v, d, token, label)
  PROVE  Clean(v)'
  <1> SUFFICES ASSUME Kind[v] = "projected", NEW p \in Paths, files'[v][p] # 0
               PROVE  \E s \in SourceSet(v) :
                        \/ p \in DOMAIN Written(s, got'[v], 1, 1)
                        \/ IsFetched(s) /\ got'[v][s.object] # NoData /\ p \in DOMAIN s.items
    BY Zenon DEF Clean, NoneStale
  <1>1. got'[v] = d
    BY DEF WriteAll, FileInv
  <1>2. DOMAIN files = Volumes
    BY DEF FileInv
  <1>3. (\E s \in SourceSet(v) : p \in DOMAIN Written(s, d, 1, 1)) \/ ~ Cleaned(v, p, d, token)
    BY <1>2, WriteAllOutcome
  <1>4. CASE \E s \in SourceSet(v) : p \in DOMAIN Written(s, d, 1, 1)
    BY <1>1, <1>4
  <1>5. CASE ~ Cleaned(v, p, d, token)
    <2>1. PICK s \in SourceSet(v) : p \in Expected(s, d, token)
      BY <1>5 DEF Cleaned
    <2>2. s.type \in {"configMap", "secret", "token", "downward"}
      BY <2>1, VolumeAssumption DEF SourceSet
    <2>3. \/ p \in DOMAIN Written(s, d, 1, 1)
          \/ IsFetched(s) /\ d[s.object] # NoData /\ p \in DOMAIN s.items
      BY <2>1, <2>2, ExpectedIsOurs
    <2> QED
      BY <1>1, <2>1, <2>3
  <1> QED
    BY <1>3, <1>4, <1>5

\* What a write does to the directories: the volume that is written is one that
\* has sources, the others stay, and where the write completes under a client
\* a projected volume is clean.
LEMMA WriteStep ==
  ASSUME FileInv, NEW v \in Volumes, WriteDownward(v) \/ WriteProjected(v) \/ WriteObject(v)
  PROVE  /\ DOMAIN files' = Volumes /\ DOMAIN got' = Volumes
         /\ v \in todo /\ volPc = "write"
         /\ \A w \in Volumes \ {v} : files'[w] = files[w] /\ got'[w] = got[w]
         /\ VolumeError \/ WriteDone(v)
         /\ client /\ WriteDone(v) => VolumeError \/ Clean(v)'
         /\ UNCHANGED <<declared, client>>
  <1> USE DEF outside
  <1>0. DOMAIN files = Volumes /\ DOMAIN got = Volumes
    BY DEF FileInv
  <1>1. CASE WriteDownward(v)
    <2>1. Kind[v] # "projected"
      BY <1>1 DEF WriteDownward
    <2>2. Clean(v)'
      BY <2>1 DEF Clean
    <2>3. DOMAIN files' = Volumes /\ \A w \in Volumes \ {v} : files'[w] = files[w]
      BY <1>0, <1>1 DEF WriteDownward
    <2> QED
      BY <1>0, <1>1, <2>2, <2>3 DEF WriteDownward, AtWrite
  <1>2. CASE WriteProjected(v)
    <2> USE DEF WriteProjected, AtWrite
    <2>1. PICK F \in SUBSET Objects, token \in RequestServiceAccountToken, label \in 0 .. 1 :
             LET d == IF client THEN Fetched(v, F) ELSE Nothing_
                 fetches == \E s \in SourceSet(v) : IsFetched(s)
             IN  \/ Lacks(v, d) /\ VolumeError /\ UNCHANGED <<files, got>>
                 \/ ~Lacks(v, d) /\ ~client /\ fetches /\ WriteDone(v) /\ UNCHANGED <<files, got>>
                 \/ /\ ~Lacks(v, d) /\ (client \/ ~fetches)
                    /\ WriteAll(v, d, token, label)
                    /\ WriteDone(v)
                 \/ ~Lacks(v, d) /\ client /\ WriteSome(v, d) /\ VolumeError /\ UNCHANGED got
      BY <1>2
    <2> DEFINE d == IF client THEN Fetched(v, F) ELSE Nothing_
    <2>2. token \in 0 .. 1
      BY DEF RequestServiceAccountToken
    <2>3. \/ VolumeError /\ UNCHANGED <<files, got>>
          \/ ~client /\ WriteDone(v) /\ UNCHANGED <<files, got>>
          \/ WriteAll(v, d, token, label) /\ WriteDone(v)
          \/ WriteSome(v, d) /\ VolumeError /\ UNCHANGED got
      BY <2>1
    <2> HIDE DEF d
    <2>4. CASE WriteAll(v, d, token, label) /\ WriteDone(v)
      <3>1. DOMAIN files' = Volumes /\ \A w \in Volumes \ {v} : files'[w] = files[w]
        BY <1>0, <2>2, <2>4, WriteAllOutcome
      <3>2. Clean(v)'
        BY <2>2, <2>4, WriteAllCleans
      <3>3. DOMAIN got' = Volumes /\ \A w \in Volumes \ {v} : got'[w] = got[w]
        BY <1>0, <2>4 DEF WriteAll
      <3> QED
        BY <1>2, <2>4, <3>1, <3>2, <3>3
    <2>5. CASE WriteSome(v, d) /\ VolumeError /\ UNCHANGED got
      <3>1. DOMAIN files' = Volumes /\ \A w \in Volumes \ {v} : files'[w] = files[w]
        BY <1>0, <2>5, WriteSomeOutcome
      <3> QED
        BY <1>0, <1>2, <2>5, <3>1
    <2> QED
      BY <1>0, <1>2, <2>3, <2>4, <2>5
  <1>3. CASE WriteObject(v)
    <2> USE DEF WriteObject, AtWrite
    <2>1. Kind[v] # "projected"
      BY <1>3
    <2>2. Clean(v)'
      BY <2>1 DEF Clean
    <2>3. PICK F \in SUBSET Objects :
             \/ WriteAll(v, Fetched(v, F), 0, 0) /\ WriteDone(v)
             \/ WriteSome(v, Fetched(v, F)) /\ WriteDone(v) /\ UNCHANGED got
             \/ (VolumeError \/ WriteDone(v)) /\ UNCHANGED <<files, got>>
      BY <1>3, Zenon
    <2>4. CASE WriteAll(v, Fetched(v, F), 0, 0) /\ WriteDone(v)
      <3>0. 0 \in 0 .. 1
        OBVIOUS
      <3>1. DOMAIN files' = Volumes /\ \A w \in Volumes \ {v} : files'[w] = files[w]
        BY <1>0, <2>4, <3>0, WriteAllOutcome
      <3>2. UNCHANGED got
        BY <2>1, <2>4 DEF WriteAll
      <3> QED
        BY <1>0, <1>3, <2>2, <2>4, <3>1, <3>2
    <2>5. CASE WriteSome(v, Fetched(v, F)) /\ WriteDone(v) /\ UNCHANGED got
      <3>1. DOMAIN files' = Volumes /\ \A w \in Volumes \ {v} : files'[w] = files[w]
        BY <1>0, <2>5, WriteSomeOutcome
      <3> QED
        BY <1>0, <1>3, <2>2, <2>5, <3>1
    <2> QED
      BY <1>0, <1>3, <2>2, <2>3, <2>4, <2>5
  <1> QED
    BY <1>1, <1>2, <1>3

\* A volume whose files and last write are as they were is as clean as it was.
LEMMA CleanKept ==
  ASSUME NEW w, files'[w] = files[w], got'[w] = got[w], Clean(w)
  PROVE  Clean(w)'
  BY DEF Clean

\* Every step preserves this: objects that change, writes that stop half-way and
\* restarts too.
LEMMA FileStep ==
  ASSUME MountInv, FileInv, VolumeNext \/ UNCHANGED volumeVars
  PROVE  FileInv'
  <1>1. ASSUME NEW v \in Volumes, WriteDownward(v) \/ WriteProjected(v) \/ WriteObject(v)
        PROVE  FileInv'
    <2>1. /\ DOMAIN files' = Volumes /\ DOMAIN got' = Volumes
          /\ v \in todo /\ volPc = "write"
          /\ \A w \in Volumes \ {v} : files'[w] = files[w] /\ got'[w] = got[w]
          /\ VolumeError \/ WriteDone(v)
          /\ client /\ WriteDone(v) => VolumeError \/ Clean(v)'
          /\ UNCHANGED <<declared, client>>
      BY <1>1, WriteStep
    <2>2. CASE VolumeError
      BY <2>1, <2>2 DEF FileInv, VolumeError
    <2>3. CASE ~ VolumeError
      <3>1. volPc' = "write" /\ todo' = todo \ {v}
        BY <2>1, <2>3 DEF WriteDone
      <3>2. ASSUME client, NEW w \in declared \ todo'
            PROVE  Clean(w)'
        <4>1. CASE w = v
          BY <2>1, <2>3, <3>2, <4>1
        <4>2. CASE w # v
          <5>1. w \in declared \ todo /\ w \in Volumes \ {v}
            BY <3>1, <3>2, <4>2 DEF FileInv
          <5>2. Clean(w) /\ files'[w] = files[w] /\ got'[w] = got[w]
            BY <2>1, <3>2, <5>1 DEF FileInv
          <5> QED
            BY <5>2, CleanKept
        <4> QED
          BY <4>1, <4>2
      <3> QED
        BY <2>1, <3>1, <3>2 DEF FileInv
    <2> QED
      BY <2>2, <2>3
  <1>2. ASSUME UNCHANGED <<files, got>>
        PROVE  \A w : Clean(w)' <=> Clean(w)
    BY <1>2 DEF Clean
  <1> USE DEF FileInv, mountVars, outside, VolumeError
  <1>3. CASE EnsurePodVolumes \/ PassOn \/ NextSync \/ UnmountPodVolumes \/ KubeletBack \/ SpecChanges \/ KubeletDies
    BY <1>2, <1>3, VolumeAssumption
       DEF EnsurePodVolumes, PassOn, NextSync, UnmountPodVolumes, KubeletBack, SpecChanges, KubeletDies
  <1>4. CASE AllMounted
    <2>1. \A v \in Volumes : Sources[v] = <<>> => Clean(v)
      BY DEF Clean, NoneStale
    <2>2. volPc' = "write" /\ todo' = {v \in declared : Sources[v] # <<>>} /\ UNCHANGED <<files, got, declared, client>>
      BY <1>4 DEF AllMounted
    <2> QED
      BY <1>2, <2>1, <2>2
  <1>5. CASE VolumesReady
    BY <1>2, <1>5 DEF VolumesReady
  <1>6. ASSUME NEW v \in Volumes, MountClaim(v) \/ MountLocal(v)
        PROVE  FileInv'
    <2>1. volPc \in {"mount", "local"} /\ volPc' \in {volPc, "idle"} /\ UNCHANGED <<files, got, declared, client>>
      BY <1>6 DEF MountClaim, MountCsiPvc, MountLocal
    <2> QED
      BY <2>1
  <1>7. CASE ObjectChanges
    BY <1>2, <1>7 DEF ObjectChanges
  <1>8. CASE UNCHANGED volumeVars
    BY <1>2, <1>8 DEF volumeVars
  <1> QED
    BY <1>1, <1>3, <1>4, <1>5, <1>6, <1>7, <1>8 DEF VolumeNext

\* What the two say when containers are started.
LEMMA SoundWhenReady == MountInv /\ FileInv => VolumesSound
  <1> SUFFICES ASSUME MountInv, FileInv
               PROVE  VolumesMounted /\ NoStaleFiles
    BY DEF VolumesSound
  <1>1. VolumesMounted
    BY DEF MountInv, VolumesMounted
  <1>2. NoStaleFiles
    BY Zenon DEF FileInv, NoStaleFiles, Clean, NoneStale
  <1> QED
    BY <1>1, <1>2

\* When containers are started every declared volume is mounted and no tmpfs is
\* mounted twice in one life of the kubelet, and a projected volume has no file
\* of something that was gone when it was written: for any volumes, sources and
\* objects, whatever failed before and whenever the kubelet was restarted.
THEOREM VolumesAreSound == Spec => []VolumesSound
  <1>1. Init => MountInv /\ FileInv
    BY MountInvInit, FileInvInit DEF Init
  <1>2. MountInv /\ FileInv /\ [Next]_vars => (MountInv /\ FileInv)'
    BY MountStep, FileStep DEF Next, vars, Volume, Probe, Pull, Env
  <1> QED
    BY <1>1, <1>2, SoundWhenReady, PTL DEF Spec

----------------------------------------------------------------------------
\* A token that is there is still there after any step.
LEMMA TokenStep ==
  ASSUME FileInv, VolumeNext \/ UNCHANGED volumeVars, NEW v \in Volumes, NEW s \in SourceSet(v),
         s.type = "token", files[v][s.path] # 0
  PROVE  files'[v][s.path] # 0
  <1>0. DOMAIN files = Volumes
    BY DEF FileInv
  <1>1. s.path \in Paths
    BY VolumeAssumption DEF SourceSet
  <1>2. ASSUME NEW d, NEW token, Cleaned(v, s.path, d, token)
        PROVE  FALSE
    BY <1>2 DEF Cleaned, Expected, IsFetched
  <1>3. ASSUME NEW w \in Volumes, NEW d, NEW token \in 0 .. 1, NEW label \in 0 .. 1, WriteAll(w, d, token, label)
        PROVE  files'[v][s.path] # 0
    <2>1. /\ \A x \in Volumes \ {w} : files'[x] = files[x]
          /\ \A p \in Paths :
              \/ files'[w][p] # 0
              \/ files'[w][p] = 0 /\ Cleaned(w, p, d, token)
              \/ files'[w][p] = files[w][p]
      BY <1>0, <1>3, WriteAllOutcome
    <2>2. CASE w = v
      BY <1>1, <1>2, <2>1, <2>2
    <2>3. CASE w # v
      BY <2>1, <2>3
    <2> QED
      BY <2>2, <2>3
  <1>4. ASSUME NEW w \in Volumes, NEW d, WriteSome(w, d)
        PROVE  files'[v][s.path] # 0
    <2>1. /\ \A x \in Volumes \ {w} : files'[x] = files[x]
          /\ \A p \in Paths : files'[w][p] # 0 \/ files'[w][p] = files[w][p]
      BY <1>0, <1>4, WriteSomeOutcome
    <2> QED
      BY <1>1, <2>1
  <1>5. ASSUME NEW w \in Volumes, WriteDownward(w)
        PROVE  files'[v][s.path] # 0
    BY <1>0, <1>1, <1>5 DEF WriteDownward
  <1>6. ASSUME NEW w \in Volumes, WriteProjected(w)
        PROVE  files'[v][s.path] # 0
    <2>1. PICK F \in SUBSET Objects, token \in RequestServiceAccountToken, label \in 0 .. 1 :
             LET d == IF client THEN Fetched(w, F) ELSE Nothing_
             IN  UNCHANGED files \/ WriteAll(w, d, token, label) \/ WriteSome(w, d)
      BY <1>6, Zenon DEF WriteProjected
    <2>2. token \in 0 .. 1
      BY DEF RequestServiceAccountToken
    <2> QED
      BY <1>3, <1>4, <2>1, <2>2
  <1>7. ASSUME NEW w \in Volumes, WriteObject(w)
        PROVE  files'[v][s.path] # 0
    <2>1. PICK F \in SUBSET Objects :
             UNCHANGED files \/ WriteAll(w, Fetched(w, F), 0, 0) \/ WriteSome(w, Fetched(w, F))
      BY <1>7, Zenon DEF WriteObject
    <2>2. 0 \in 0 .. 1
      OBVIOUS
    <2> QED
      BY <1>3, <1>4, <2>1, <2>2
  <1>8. CASE UNCHANGED files
    BY <1>8
  <1>9. ASSUME NEW w \in Volumes, MountClaim(w) \/ MountLocal(w)
        PROVE  UNCHANGED files
    BY <1>9 DEF MountClaim, MountLocal
  <1>10. CASE EnsurePodVolumes \/ PassOn \/ AllMounted \/ VolumesReady \/ NextSync \/ UnmountPodVolumes
              \/ ObjectChanges \/ SpecChanges \/ KubeletDies \/ KubeletBack \/ UNCHANGED volumeVars
    BY <1>8, <1>10 DEF EnsurePodVolumes, PassOn, AllMounted, VolumesReady, NextSync, UnmountPodVolumes,
                       ObjectChanges, SpecChanges, KubeletDies, KubeletBack, volumeVars
  <1> QED
    BY <1>5, <1>6, <1>7, <1>8, <1>9, <1>10 DEF VolumeNext

\* A service account token that was written once stays, whatever the API server
\* answers later, also where another source has its path or a write stops
\* half-way.
THEOREM TokenIsKept == Spec => TokenKept
  <1>1. Init => MountInv /\ FileInv
    BY MountInvInit, FileInvInit DEF Init
  <1>2. MountInv /\ FileInv /\ [Next]_vars => (MountInv /\ FileInv)'
    BY MountStep, FileStep DEF Next, vars, Volume, Probe, Pull, Env
  <1>3. MountInv /\ FileInv /\ [Next]_vars
          => [\A v \in Volumes, s \in UNION {SourceSet(w) : w \in Volumes} :
                s \in SourceSet(v) /\ s.type = "token" /\ files[v][s.path] # 0
                  => files'[v][s.path] # 0]_volumeVars
    BY TokenStep DEF Next, vars, Volume, Probe, Pull, Env
  <1> QED
    BY <1>1, <1>2, <1>3, PTL DEF Spec, TokenKept

----------------------------------------------------------------------------
(***************************************************************************)
(* Sequences made step by step.                                            *)
(***************************************************************************)
\* Every set of numbers has a least element.
LEMMA LeastNumber ==
  ASSUME NEW S \in SUBSET Nat, S # {}
  PROVE  \E n \in S : \A m \in S : n =< m
  <1>1. PICK n \in S : \A m \in S : ~ (<<m, n>> \in OpToRel(<, Nat))
    BY NatLessThanWellFounded, WFMin
  <1>2. \A m \in S : ~ (m < n)
    BY <1>1 DEF OpToRel
  <1> QED
    BY <1>2

\* f begins with base and goes on by steps, on k..m.
Iterates(f, k, m, base, step) ==
  \A n \in k .. m : f[n] = IF n = k THEN base ELSE step[n][f[n - 1]]

\* g does so too, where the steps are defined.
Follows(g, k, N, X, base, step) ==
  g[k] = base /\ \A n \in k + 1 .. N : g[n - 1] \in X => g[n] = step[n][g[n - 1]]

\* Such steps, and that there is such a function and only one.
Steps(k, N, X, base, step) ==
  k \in Nat /\ N \in Nat /\ k =< N /\ base \in X /\ step \in [k + 1 .. N -> [X -> X]]

Iterated(k, N, X, base, step) ==
  \E f \in [k .. N -> X] :
    /\ Iterates(f, k, N, base, step)
    /\ \A g : Follows(g, k, N, X, base, step) => \A n \in k .. N : g[n] = f[n]

\* There always is.
LEMMA Iteration ==
  ASSUME NEW k, NEW N, NEW X, NEW base, NEW step, Steps(k, N, X, base, step)
  PROVE  Iterated(k, N, X, base, step)
  <1> USE DEF Steps
  <1> DEFINE Able(m) == \E f \in [k .. m -> X] : Iterates(f, k, m, base, step)
             bad == {n \in k .. N : ~ Able(n)}
  <1>1. Able(k)
    <2> DEFINE f == [n \in k .. k |-> base]
    <2>1. f \in [k .. k -> X] /\ Iterates(f, k, k, base, step)
      BY DEF Iterates
    <2> QED
      BY <2>1
  <1>2. ASSUME NEW m \in k .. N, m + 1 \in k .. N, Able(m)
        PROVE  Able(m + 1)
    <2>1. PICK f \in [k .. m -> X] : Iterates(f, k, m, base, step)
      BY <1>2
    <2> DEFINE x == step[m + 1][f[m]]
               g == [n \in k .. m + 1 |-> IF n = m + 1 THEN x ELSE f[n]]
    <2>2. m + 1 \in k + 1 .. N /\ m \in k .. m
      BY <1>2
    <2>3. step[m + 1] \in [X -> X] /\ f[m] \in X
      BY <2>2
    <2>4. x \in X
      BY <2>3
    <2> HIDE DEF x
    <2>5. g \in [k .. m + 1 -> X]
      BY <2>4
    <2>6. Iterates(g, k, m + 1, base, step)
      <3> SUFFICES ASSUME NEW n \in k .. m + 1
                   PROVE  g[n] = IF n = k THEN base ELSE step[n][g[n - 1]]
        BY DEF Iterates
      <3>1. CASE n = m + 1
        <4>1. g[n] = x /\ n # k /\ g[n - 1] = f[m]
          BY <3>1, <2>2
        <4> QED
          BY <3>1, <4>1 DEF x
      <3>2. CASE n # m + 1
        <4>1. n \in k .. m /\ g[n] = f[n] /\ (n # k => g[n - 1] = f[n - 1])
          BY <3>2
        <4> QED
          BY <2>1, <4>1 DEF Iterates
      <3> QED
        BY <3>1, <3>2
    <2> QED
      BY <2>5, <2>6
  <1>3. Able(N)
    <2> HIDE DEF Able
    <2>1. bad = {}
      <3> SUFFICES ASSUME bad # {} PROVE FALSE
        OBVIOUS
      <3>1. PICK n \in bad : \A m \in bad : n =< m
        <4>1. bad \in SUBSET Nat
          OBVIOUS
        <4> HIDE DEF bad
        <4> QED
          BY <4>1, LeastNumber
      <3>2. n \in k .. N /\ ~ Able(n)
        BY <3>1
      <3>3. n # k
        BY <1>1, <3>2
      <3>4. n - 1 \in k .. N /\ n - 1 < n /\ (n - 1) + 1 = n
        BY <3>2, <3>3
      <3>5. n - 1 \notin bad
        <4> HIDE DEF bad
        <4> QED
          BY <3>1, <3>2, <3>4
      <3>6. Able(n - 1)
        BY <3>4, <3>5
      <3> QED
        BY <1>2, <3>2, <3>4, <3>6
    <2>2. N \in k .. N
      OBVIOUS
    <2> QED
      BY <2>1, <2>2
  <1>4. PICK f \in [k .. N -> X] : Iterates(f, k, N, base, step)
    BY <1>3
  <1>5. ASSUME NEW g, Follows(g, k, N, X, base, step)
        PROVE  \A n \in k .. N : g[n] = f[n]
    <2> DEFINE off == {n \in k .. N : g[n] # f[n]}
    <2> SUFFICES ASSUME off # {} PROVE FALSE
      OBVIOUS
    <2>1. PICK n \in off : \A m \in off : n =< m
      <3>1. off \in SUBSET Nat
        OBVIOUS
      <3> HIDE DEF off
      <3> QED
        BY <3>1, LeastNumber
    <2>2. n \in k .. N /\ g[n] # f[n]
      BY <2>1
    <2>3. n # k
      BY <1>4, <1>5, <2>2 DEF Iterates, Follows
    <2>4. n - 1 \in k .. N /\ n - 1 < n /\ n \in k + 1 .. N
      BY <2>2, <2>3
    <2>5. n - 1 \notin off
      <3> HIDE DEF off
      <3> QED
        BY <2>1, <2>2, <2>4
    <2>6. g[n - 1] = f[n - 1] /\ f[n - 1] \in X
      BY <2>4, <2>5
    <2>7. g[n] = step[n][g[n - 1]]
      BY <1>5, <2>4, <2>6 DEF Follows
    <2>8. f[n] = step[n][f[n - 1]]
      BY <1>4, <2>2, <2>3 DEF Iterates
    <2> QED
      BY <2>2, <2>6, <2>7, <2>8
  <1> QED
    BY <1>4, <1>5 DEF Iterated

\* The members of a sequence that are in S: a sequence of members of S.
LEMMA AmongType ==
  ASSUME NEW T, NEW s \in Seq(T), NEW S
  PROVE  Among(s, S) \in Seq(S \cap T)
  <1> DEFINE N == Len(s)
             X == Seq(S \cap T)
             step == [n \in 1 .. N |-> [x \in X |-> IF s[n] \in S THEN Append(x, s[n]) ELSE x]]
             body(f) == [n \in 0 .. N |-> IF n = 0 THEN <<>>
                                        ELSE IF s[n] \in S THEN Append(f[n - 1], s[n]) ELSE f[n - 1]]
             it == CHOOSE f : f = body(f)
  <1>1. N \in Nat /\ <<>> \in X /\ \A n \in 1 .. N : s[n] \in T
    OBVIOUS
  <1>2. step \in [0 + 1 .. N -> [X -> X]]
    <2>1. ASSUME NEW n \in 1 .. N, NEW x \in X
          PROVE  (IF s[n] \in S THEN Append(x, s[n]) ELSE x) \in X
      <3>1. CASE s[n] \in S
        <4>1. s[n] \in S \cap T
          BY <1>1, <3>1
        <4> QED
          BY <3>1, <4>1
      <3>2. CASE s[n] \notin S
        BY <3>2
      <3> QED
        BY <3>1, <3>2
    <2> HIDE DEF X, N
    <2>2. step \in [1 .. N -> [X -> X]]
      BY <2>1
    <2> QED
      BY <2>2
  <1>3. Among(s, S) = it[N]
    BY DEF Among
  <1> HIDE DEF X, N, step
  <1>4. PICK f \in [0 .. N -> X] :
           /\ Iterates(f, 0, N, <<>>, step)
           /\ \A g : Follows(g, 0, N, X, <<>>, step) => \A n \in 0 .. N : g[n] = f[n]
    <2>1. Steps(0, N, X, <<>>, step)
      BY <1>1, <1>2 DEF Steps
    <2>2. Iterated(0, N, X, <<>>, step)
      BY <2>1, Iteration
    <2> QED
      BY <2>2 DEF Iterated
  <1>5. f = body(f)
    <2>1. ASSUME NEW n \in 0 .. N
          PROVE  f[n] = IF n = 0 THEN <<>>
                        ELSE IF s[n] \in S THEN Append(f[n - 1], s[n]) ELSE f[n - 1]
      <3>1. CASE n = 0
        BY <1>4, <3>1 DEF Iterates
      <3>2. CASE n # 0
        <4>1. n \in 1 .. N /\ n - 1 \in 0 .. N
          BY <1>1, <3>2
        <4>2. f[n] = step[n][f[n - 1]] /\ f[n - 1] \in X
          BY <1>4, <3>2, <4>1 DEF Iterates
        <4> QED
          BY <3>2, <4>1, <4>2 DEF step
      <3> QED
        BY <3>1, <3>2
    <2> QED
      BY <2>1
  <1>6. it = body(it)
    BY <1>5
  <1> HIDE DEF it
  <1>7. Follows(it, 0, N, X, <<>>, step)
    <2>1. it[0] = <<>>
      BY <1>1, <1>6
    <2>2. ASSUME NEW n \in 0 + 1 .. N, it[n - 1] \in X
          PROVE  it[n] = step[n][it[n - 1]]
      <3>1. n \in 0 .. N /\ n # 0 /\ n \in 1 .. N
        BY <1>1, <2>2
      <3>2. it[n] = IF s[n] \in S THEN Append(it[n - 1], s[n]) ELSE it[n - 1]
        BY <1>6, <3>1
      <3> QED
        BY <2>2, <3>1, <3>2 DEF step
    <2> QED
      BY <2>1, <2>2 DEF Follows
  <1>8. N \in 0 .. N
    BY <1>1
  <1>9. it[N] = f[N] /\ f[N] \in X
    BY <1>4, <1>7, <1>8
  <1> QED
    BY <1>3, <1>9 DEF X

\* Sequences joined, one after the other.
LEMMA FlattenSteps ==
  ASSUME NEW T, NEW ss \in Seq(Seq(T)), ss # <<>>
  PROVE  \E f \in [1 .. Len(ss) -> Seq(T)] :
            /\ f[1] = ss[1]
            /\ \A n \in 2 .. Len(ss) : f[n] = f[n - 1] \o ss[n]
            /\ FlattenSeq(ss) = f[Len(ss)]
  <1> DEFINE N == Len(ss)
             X == Seq(T)
             step == [n \in 2 .. N |-> [x \in X |-> x \o ss[n]]]
             body(f) == [n \in 1 .. N |-> IF n = 1 THEN ss[n] ELSE f[n - 1] \o ss[n]]
             it == CHOOSE f : f = body(f)
  <1>1. N \in Nat /\ \A n \in 1 .. N : ss[n] \in X
    OBVIOUS
  <1>2. N # 0
    BY <1>1
  <1>3. FlattenSeq(ss) = it[N]
    BY <1>2 DEF FlattenSeq
  <1>4. step \in [1 + 1 .. N -> [X -> X]]
    <2>1. ASSUME NEW n \in 1 .. N, NEW x \in X
          PROVE  x \o ss[n] \in X
      <3>1. ss[n] \in X
        BY <1>1
      <3> QED
        BY <3>1
    <2>2. \A n \in 2 .. N : n \in 1 .. N
      BY <1>1
    <2> HIDE DEF X, N
    <2> QED
      BY <2>1, <2>2
  <1> HIDE DEF X, N, step
  <1>5. PICK f \in [1 .. N -> X] :
           /\ Iterates(f, 1, N, ss[1], step)
           /\ \A g : Follows(g, 1, N, X, ss[1], step) => \A n \in 1 .. N : g[n] = f[n]
    <2>1. 1 \in Nat /\ N \in Nat /\ 1 =< N /\ 1 \in 1 .. N
      BY <1>1, <1>2
    <2>2. ss[1] \in X
      BY <1>1, <2>1
    <2>3. Steps(1, N, X, ss[1], step)
      BY <1>4, <2>1, <2>2 DEF Steps
    <2>4. Iterated(1, N, X, ss[1], step)
      BY <2>3, Iteration
    <2> QED
      BY <2>4 DEF Iterated
  <1>6. f = body(f)
    <2>1. ASSUME NEW n \in 1 .. N
          PROVE  f[n] = IF n = 1 THEN ss[n] ELSE f[n - 1] \o ss[n]
      <3>1. CASE n = 1
        BY <1>5, <3>1 DEF Iterates
      <3>2. CASE n # 1
        <4>1. n \in 2 .. N /\ n - 1 \in 1 .. N
          BY <1>1, <3>2
        <4>2. f[n] = step[n][f[n - 1]] /\ f[n - 1] \in X
          BY <1>5, <3>2, <4>1 DEF Iterates
        <4> QED
          BY <3>2, <4>1, <4>2 DEF step
      <3> QED
        BY <3>1, <3>2
    <2> QED
      BY <2>1
  <1>7. it = body(it)
    BY <1>6
  <1> HIDE DEF it
  <1>8. Follows(it, 1, N, X, ss[1], step)
    <2>1. it[1] = ss[1]
      <3>1. 1 \in 1 .. N
        BY <1>1, <1>2
      <3> QED
        BY <1>7, <3>1
    <2>2. ASSUME NEW n \in 1 + 1 .. N, it[n - 1] \in X
          PROVE  it[n] = step[n][it[n - 1]]
      <3>1. n \in 1 .. N /\ n # 1 /\ n \in 2 .. N
        BY <1>1, <2>2
      <3>2. it[n] = it[n - 1] \o ss[n]
        BY <1>7, <3>1
      <3> QED
        BY <2>2, <3>1, <3>2 DEF step
    <2> QED
      BY <2>1, <2>2 DEF Follows
  <1>9. N \in 1 .. N
    BY <1>1, <1>2
  <1>10. it[N] = f[N]
    BY <1>5, <1>8, <1>9
  <1>11. \A n \in 2 .. N : f[n] = f[n - 1] \o ss[n]
    <2>1. \A n \in 2 .. N : n \in 1 .. N /\ n # 1
      OBVIOUS
    <2> QED
      BY <1>6, <2>1
  <1>12. f[1] = ss[1]
    <2>1. 1 \in 1 .. N
      BY <1>1, <1>2
    <2> QED
      BY <1>6, <2>1
  <1> QED
    BY <1>3, <1>5, <1>10, <1>11, <1>12 DEF X, N

\* What they make up has the elements they have.
LEMMA FlattenType ==
  ASSUME NEW T, NEW ss \in Seq(Seq(T))
  PROVE  FlattenSeq(ss) \in Seq(T)
  <1>1. CASE ss = <<>>
    BY <1>1 DEF FlattenSeq
  <1>2. CASE ss # <<>>
    <2>1. Len(ss) \in 1 .. Len(ss)
      <3> DEFINE X == Seq(T)
      <3>1. ss \in Seq(X) /\ ss # <<>>
        BY <1>2
      <3> HIDE DEF X
      <3>2. Len(ss) \in Nat /\ Len(ss) # 0
        BY <3>1
      <3> QED
        BY <3>2
    <2>2. \E f \in [1 .. Len(ss) -> Seq(T)] : FlattenSeq(ss) = f[Len(ss)]
      BY <1>2, FlattenSteps
    <2> DEFINE X == Seq(T)
               n == Len(ss)
    <2> HIDE DEF X, n
    <2>3. n \in 1 .. n /\ \E f \in [1 .. n -> X] : FlattenSeq(ss) = f[n]
      BY <2>1, <2>2 DEF X, n
    <2>4. FlattenSeq(ss) \in X
      BY <2>3
    <2> QED
      BY <2>4 DEF X
  <1> QED
    BY <1>1, <1>2

----------------------------------------------------------------------------
(***************************************************************************)
(* Image pulls.                                                            *)
(***************************************************************************)
Credential == [host : STRING, user : STRING, parses : BOOLEAN, valid : BOOLEAN]

\* Credentials for the registry of the image.
Home == {c \in Credential : Own(c)}

\* What is resolved is for the registry of the image, whichever of the secrets
\* and the service account could be had.
LEMMA ResolvedOwn ==
  ASSUME NEW saFetched \in BOOLEAN, NEW F
  PROVE  ResolveImagePullSecrets(saFetched, F) \in Seq(Home)
  <1> DEFINE D == DOMAIN Auths
             names == Among(SecretNames(saFetched), D \ F)
             lists == [i \in DOMAIN names |-> DockerAuths(names[i])]
             entries == FlattenSeq(lists)
             good == {a \in ToSet(entries) : HostMatchesRegistry(a.host)}
  <1>1. SecretNames(saFetched) \in Seq(D)
    <2>1. PodSecrets \in Seq(D) /\ SaSecrets \in Seq(D)
      BY PullAssumption
    <2> DEFINE more == Among(SaSecrets, ToSet(SaSecrets) \ ToSet(PodSecrets))
               R == ToSet(SaSecrets) \ ToSet(PodSecrets)
    <2> HIDE DEF D
    <2>2. more \in Seq(R \cap D)
      <3> HIDE DEF R
      <3>1. Among(SaSecrets, R) \in Seq(R \cap D)
        BY <2>1, AmongType
      <3> QED
        BY <3>1 DEF R
    <2>3. more \in Seq(D)
      <3> HIDE DEF more, R
      <3> QED
        BY <2>2, SeqMonotonic
    <2>4. SecretNames(saFetched) = PodSecrets \o (IF saFetched THEN more ELSE <<>>)
      BY DEF SecretNames
    <2> HIDE DEF more
    <2> QED
      BY <2>1, <2>3, <2>4
  <1>2. names \in Seq(D)
    <2> DEFINE E == D \ F
               all == SecretNames(saFetched)
    <2>1. all \in Seq(D)
      BY <1>1
    <2> HIDE DEF D, E, all
    <2>2. Among(all, E) \in Seq(E \cap D)
      BY <2>1, AmongType
    <2>3. Among(all, E) \in Seq(D)
      BY <2>2, SeqMonotonic
    <2> QED
      BY <2>3 DEF E, all
  <1> HIDE DEF names
  <1>3. \A n \in D : DockerAuths(n) \in Seq(Credential)
    <2> SUFFICES ASSUME NEW n \in D PROVE DockerAuths(n) \in Seq(Credential)
      OBVIOUS
    <2> DEFINE P == {a \in ToSet(Auths[n]) : a.parses}
               s == Auths[n]
    <2>1. s \in Seq(Credential)
      BY PullAssumption DEF Credential
    <2> HIDE DEF P, s
    <2>2. Among(s, P) \in Seq(P \cap Credential)
      BY <2>1, AmongType
    <2>3. Among(s, P) \in Seq(Credential)
      BY <2>2, SeqMonotonic
    <2> QED
      BY <2>3 DEF DockerAuths, P, s
  <1>4. lists \in Seq(Seq(Credential))
    <2> DEFINE Q == Seq(Credential)
    <2>1. \A n \in D : DockerAuths(n) \in Q
      BY <1>3
    <2>2. Len(names) \in Nat /\ DOMAIN names = 1 .. Len(names) /\ \A i \in DOMAIN names : names[i] \in D
      BY <1>2
    <2> HIDE DEF Q
    <2>3. lists \in Seq(Q)
      BY <2>1, <2>2
    <2> QED
      BY <2>3 DEF Q
  <1> HIDE DEF lists
  <1>5. entries \in Seq(Credential)
    BY <1>4, FlattenType
  <1> HIDE DEF entries
  <1>6. Among(entries, good) \in Seq(good \cap Credential)
    <2> HIDE DEF good
    <2> QED
      BY <1>5, AmongType
  <1>7. good \cap Credential \subseteq Home
    BY DEF Home, HostMatchesRegistry, Own
  <1>8. Among(entries, good) \in Seq(Home)
    <2> DEFINE r == Among(entries, good)
               G == good \cap Credential
    <2>1. r \in Seq(G) /\ G \subseteq Home
      BY <1>6, <1>7
    <2> HIDE DEF r, G
    <2>2. r \in Seq(Home)
      BY <2>1, SeqMonotonic
    <2> QED
      BY <2>2 DEF r
  <1>9. ResolveImagePullSecrets(saFetched, F) = Among(entries, good)
    BY DEF ResolveImagePullSecrets, entries, lists, names
  <1> QED
    BY <1>8, <1>9

\* A token is for the registry its key was for.
LEMMA ExchangedOwn ==
  ASSUME NEW s \in Seq(Home), NEW answers
  PROVE  \A c \in ToSet(ExchangeGcpCredentials(s, answers)) : Own(c)
  <1> DEFINE x == ExchangeGcpCredentials(s, answers)
  <1>1. ASSUME NEW i \in DOMAIN s
        PROVE  Own(x[i])
    <2>1. s[i] \in Home
      OBVIOUS
    <2>2. x[i].host = s[i].host
      BY <2>1 DEF ExchangeGcpCredentials, Home, Credential
    <2> HIDE DEF x
    <2> QED
      BY <2>1, <2>2 DEF Home, Own
  <1>2. DOMAIN x = DOMAIN s
    BY DEF ExchangeGcpCredentials
  <1> HIDE DEF x
  <1>3. \A c \in ToSet(x) : Own(c)
    BY <1>1, <1>2 DEF ToSet
  <1> QED
    BY <1>3 DEF x

\* Every step of an image pull, those that fail included, leaves the worker
\* with credentials of the registry alone.
LEMMA PullStep ==
  ASSUME SecretsStayHome, PullNext \/ UNCHANGED pullVars
  PROVE  SecretsStayHome'
  <1>1. UNCHANGED registry
    BY DEF PullNext, PullSteps, Resolve, ImageStatus, PullImage, CallFails, NextPull, pullVars
  <1>2. CASE Resolve
    <2>1. PICK client_ \in BOOLEAN, saFetched \in BOOLEAN, answers \in [1 .. 3 -> {"none", "refused", "token"}],
              F \in SUBSET ToSet(SecretNames(TRUE)) :
             pullSecrets' = IF client_ THEN ExchangeGcpCredentials(ResolveImagePullSecrets(saFetched, F), answers)
                            ELSE <<>>
      BY <1>2 DEF Resolve
    <2>2. \A c \in ToSet(pullSecrets') : Own(c)
      <3>1. CASE client_
        BY <2>1, <3>1, ResolvedOwn, ExchangedOwn
      <3>2. CASE ~ client_
        BY <2>1, <3>2 DEF ToSet
      <3> QED
        BY <3>1, <3>2
    <2> QED
      BY <1>1, <2>2 DEF SecretsStayHome, Own
  <1>3. CASE ~ Resolve
    <2>1. UNCHANGED pullSecrets
      BY <1>3 DEF PullNext, PullSteps, ImageStatus, PullImage, CallFails, NextPull, pullVars
    <2> QED
      BY <1>1, <2>1 DEF SecretsStayHome, Own
  <1> QED
    BY <1>2, <1>3

\* Credentials are sent to no registry but the one they are for, whatever the
\* secrets hold and whichever lookups and exchanges fail.
THEOREM SecretsAreKept == Spec => []SecretsStayHome
  <1>1. Init => SecretsStayHome
    BY DEF Init, PullInit, SecretsStayHome, ToSet
  <1>2. SecretsStayHome /\ [Next]_vars => SecretsStayHome'
    BY PullStep DEF Next, vars, Volume, Probe, Pull, Env
  <1> QED
    BY <1>1, <1>2, PTL DEF Spec

----------------------------------------------------------------------------
(***************************************************************************)
(* The environment of a container: variables laid over each other.         *)
(***************************************************************************)
\* Values are texts, with a number for what is written of a quantity.
EnvValues == Seq(Chars \cup Nat)

\* Variables with names and values of their kind.
IsEnv(f) == DOMAIN f \subseteq EnvNames /\ \A n \in DOMAIN f : f[n] \in EnvValues

\* f[i] is base with the first i of s over it.
Layers(f, base, s, N) == f[0] = base /\ \A i \in 1 .. N : f[i] = Over(f[i - 1], s[i])

\* The recursion of OverAll has a solution.
LEMMA OverAllIs ==
  ASSUME NEW base, NEW s, Len(s) \in Nat
  PROVE  \E f : Layers(f, base, s, Len(s)) /\ OverAll(base, s) = f[Len(s)]
  <1> DEFINE N == Len(s)
             body(g, m) == [i \in 0 .. m |-> IF i = 0 THEN base ELSE Over(g[i - 1], s[i])]
             Able(m) == \E f : f = body(f, m)
             bad == {n \in 0 .. N : ~ Able(n)}
             it == CHOOSE f : f = body(f, N)
  <1>1. Able(0)
    <2> DEFINE f == [i \in 0 .. 0 |-> base]
    <2>1. f = body(f, 0)
      OBVIOUS
    <2> QED
      BY <2>1
  <1>2. ASSUME NEW m \in 0 .. N, m + 1 \in 0 .. N, Able(m)
        PROVE  Able(m + 1)
    <2>1. PICK f : f = body(f, m)
      BY <1>2
    <2> DEFINE x == Over(f[m], s[m + 1])
               g == [i \in 0 .. m + 1 |-> IF i = m + 1 THEN x ELSE f[i]]
    <2>2. \A i \in 0 .. m : f[i] = IF i = 0 THEN base ELSE Over(f[i - 1], s[i])
      BY <2>1
    <2>3. ASSUME NEW i \in 0 .. m + 1
          PROVE  g[i] = IF i = 0 THEN base ELSE Over(g[i - 1], s[i])
      <3>1. CASE i = m + 1
        <4>1. g[i] = x /\ i # 0 /\ i - 1 = m /\ g[i - 1] = f[m]
          BY <3>1
        <4> QED
          BY <3>1, <4>1
      <3>2. CASE i # m + 1
        <4>1. i \in 0 .. m /\ g[i] = f[i] /\ (i # 0 => g[i - 1] = f[i - 1])
          BY <3>2
        <4> QED
          BY <2>2, <4>1
      <3> QED
        BY <3>1, <3>2
    <2>4. g = body(g, m + 1)
      BY <2>3
    <2> QED
      BY <2>4
  <1>3. Able(N)
    <2> HIDE DEF Able
    <2> SUFFICES ASSUME ~ Able(N) PROVE FALSE
      OBVIOUS
    <2>1. bad # {} /\ bad \in SUBSET Nat
      OBVIOUS
    <2>2. PICK n \in bad : \A k \in bad : n =< k
      BY <2>1, LeastNumber
    <2>3. n # 0 /\ n - 1 \in 0 .. N /\ (n - 1) + 1 = n /\ n \in 0 .. N
      BY <1>1, <2>2
    <2>4. Able(n - 1)
      BY <2>2, <2>3
    <2> QED
      BY <1>2, <2>2, <2>3, <2>4
  <1>4. it = body(it, N)
    BY <1>3
  <1>5. OverAll(base, s) = it[N]
    BY DEF OverAll
  <1> HIDE DEF it
  <1>6. it[0] = base /\ \A i \in 1 .. N : it[i] = Over(it[i - 1], s[i])
    BY <1>4
  <1> QED
    BY <1>5, <1>6 DEF Layers

\* The last variable of a name counts.
LastCounts(r, base, s, N) ==
  /\ \A n : n \in DOMAIN r <=> n \in DOMAIN base \/ \E i \in 1 .. N : n \in DOMAIN s[i]
  /\ \A n : (\E i \in 1 .. N : n \in DOMAIN s[i]) =>
       \E i \in 1 .. N : /\ n \in DOMAIN s[i] /\ r[n] = s[i][n]
                         /\ \A j \in 1 .. N : n \in DOMAIN s[j] => j =< i
  /\ \A n \in DOMAIN base : (\A i \in 1 .. N : n \notin DOMAIN s[i]) => r[n] = base[n]

LEMMA LastLayer ==
  ASSUME NEW base, NEW s, NEW N \in Nat, NEW f, Layers(f, base, s, N)
  PROVE  LastCounts(f[N], base, s, N)
  <1>1. f[0] = base /\ \A i \in 1 .. N : f[i] = Over(f[i - 1], s[i])
    BY DEF Layers
  <1> DEFINE Has(m) == \A n : n \in DOMAIN f[m] <=> n \in DOMAIN base \/ \E i \in 1 .. m : n \in DOMAIN s[i]
             Latest(m) == \A n : (\E i \in 1 .. m : n \in DOMAIN s[i]) =>
                            \E i \in 1 .. m : /\ n \in DOMAIN s[i] /\ f[m][n] = s[i][n]
                                              /\ \A j \in 1 .. m : n \in DOMAIN s[j] => j =< i
             Kept(m) == \A n \in DOMAIN base : (\A i \in 1 .. m : n \notin DOMAIN s[i]) => f[m][n] = base[n]
             Good(m) == Has(m) /\ Latest(m) /\ Kept(m)
             bad == {n \in 0 .. N : ~ Good(n)}
  <1>2. Good(0)
    BY <1>1
  <1>3. ASSUME NEW m \in 0 .. N, m + 1 \in 0 .. N, Good(m)
        PROVE  Good(m + 1)
    <2>1. f[m + 1] = Over(f[m], s[m + 1])
      BY <1>1, <1>3
    <2>2. /\ DOMAIN f[m + 1] = DOMAIN f[m] \cup DOMAIN s[m + 1]
          /\ \A n \in DOMAIN f[m + 1] : f[m + 1][n] = IF n \in DOMAIN s[m + 1] THEN s[m + 1][n] ELSE f[m][n]
      BY <2>1 DEF Over
    <2>3. \A i : i \in 1 .. m + 1 <=> i \in 1 .. m \/ i = m + 1
      BY <1>3
    <2>4. Has(m + 1)
      BY <1>3, <2>2, <2>3
    <2>5. Latest(m + 1)
      <3> SUFFICES ASSUME NEW n, NEW k \in 1 .. m + 1, n \in DOMAIN s[k]
                   PROVE  \E i \in 1 .. m + 1 : /\ n \in DOMAIN s[i] /\ f[m + 1][n] = s[i][n]
                                                /\ \A j \in 1 .. m + 1 : n \in DOMAIN s[j] => j =< i
        OBVIOUS
      <3>1. CASE n \in DOMAIN s[m + 1]
        <4>1. m + 1 \in 1 .. m + 1 /\ \A j \in 1 .. m + 1 : j =< m + 1
          BY <1>3
        <4>2. f[m + 1][n] = s[m + 1][n]
          BY <2>2, <3>1
        <4> QED
          BY <3>1, <4>1, <4>2
      <3>2. CASE n \notin DOMAIN s[m + 1]
        <4>1. k \in 1 .. m
          BY <2>3, <3>2
        <4>2. PICK i \in 1 .. m : n \in DOMAIN s[i] /\ f[m][n] = s[i][n] /\ \A j \in 1 .. m : n \in DOMAIN s[j] => j =< i
          BY <1>3, <4>1
        <4>3. n \in DOMAIN f[m]
          BY <1>3, <4>1
        <4>4. f[m + 1][n] = f[m][n]
          BY <2>2, <3>2, <4>3
        <4> QED
          BY <2>3, <3>2, <4>2, <4>4
      <3> QED
        BY <3>1, <3>2
    <2>6. Kept(m + 1)
      BY <1>3, <2>2, <2>3
    <2> QED
      BY <2>4, <2>5, <2>6
  <1>4. Good(N)
    <2> HIDE DEF Good
    <2> SUFFICES ASSUME ~ Good(N) PROVE FALSE
      OBVIOUS
    <2>1. bad # {} /\ bad \in SUBSET Nat
      OBVIOUS
    <2>2. PICK n \in bad : \A k \in bad : n =< k
      BY <2>1, LeastNumber
    <2>3. n # 0 /\ n - 1 \in 0 .. N /\ (n - 1) + 1 = n /\ n \in 0 .. N
      BY <1>2, <2>2
    <2>4. Good(n - 1)
      BY <2>2, <2>3
    <2> QED
      BY <1>3, <2>2, <2>3, <2>4
  <1> QED
    BY <1>1, <1>4 DEF LastCounts

LEMMA OverAllLast ==
  ASSUME NEW base, NEW s, Len(s) \in Nat
  PROVE  LastCounts(OverAll(base, s), base, s, Len(s))
  <1>1. PICK f : Layers(f, base, s, Len(s)) /\ OverAll(base, s) = f[Len(s)]
    BY OverAllIs
  <1> QED
    BY <1>1, LastLayer

\* Variables of their kind stay so.
LEMMA OverAllTyped ==
  ASSUME NEW base, NEW s, Len(s) \in Nat, IsEnv(base), \A i \in 1 .. Len(s) : IsEnv(s[i])
  PROVE  IsEnv(OverAll(base, s))
  <1> DEFINE r == OverAll(base, s)
  <1>1. /\ \A n : n \in DOMAIN r <=> n \in DOMAIN base \/ \E i \in 1 .. Len(s) : n \in DOMAIN s[i]
        /\ \A n : (\E i \in 1 .. Len(s) : n \in DOMAIN s[i]) =>
             \E i \in 1 .. Len(s) : n \in DOMAIN s[i] /\ r[n] = s[i][n]
        /\ \A n \in DOMAIN base : (\A i \in 1 .. Len(s) : n \notin DOMAIN s[i]) => r[n] = base[n]
    BY OverAllLast DEF LastCounts
  <1> HIDE DEF r
  <1>2. IsEnv(r)
    BY <1>1 DEF IsEnv
  <1> QED
    BY <1>2 DEF r

\* One variable, and none.
LEMMA OneTyped ==
  /\ IsEnv(<<>>)
  /\ \A n \in EnvNames, v \in EnvValues : IsEnv(One(n, v))
  BY DEF IsEnv, One

\* Texts are values, names can be joined.
LEMMA Texts ==
  /\ Seq(Chars) \subseteq EnvValues
  /\ \A a, b \in EnvNames : a \o b \in EnvNames
  /\ \A c \in Letter : <<c>> \in EnvNames
  <1>1. Chars \subseteq Chars \cup Nat
    OBVIOUS
  <1>2. Seq(Chars) \subseteq EnvValues
    BY <1>1, SeqMonotonic DEF EnvValues
  <1>3. \A a, b \in EnvNames : a \o b \in EnvNames
    <2> HIDE DEF Letter
    <2> QED
      BY DEF EnvNames
  <1> QED
    BY <1>2, <1>3 DEF EnvNames

\* A service gives variables of their kind.
LEMMA ServiceTyped ==
  ASSUME NEW svc \in Service
  PROVE  IsEnv(ServiceEnvVars(svc))
  <1> DEFINE prefix == ServicePrefix(svc)
             Port == [port : Letter, proto : DOMAIN Upper, name : Seq(DOMAIN Upper)]
  <1>1. svc.ip \in Seq(Chars) /\ svc.name \in Seq(DOMAIN Upper) /\ svc.ports \in Seq(Port)
    BY DEF Service
  <1>2. ASSUME NEW name \in Seq(DOMAIN Upper)
        PROVE  ToServiceEnvName(name) \in EnvNames
    <2>1. \A x \in DOMAIN Upper : Upper[x] \in Letter
      BY EnvAssumption
    <2> HIDE DEF Letter
    <2> QED
      BY <2>1 DEF ToServiceEnvName, EnvNames
  <1>3. prefix \in EnvNames
    BY <1>1, <1>2 DEF ServicePrefix
  <1> HIDE DEF prefix
  <1>4. /\ <<"_SERVICE_HOST">> \in EnvNames /\ <<"_SERVICE_PORT">> \in EnvNames /\ <<"_PORT">> \in EnvNames
        /\ <<"_PROTO">> \in EnvNames /\ <<"_ADDR">> \in EnvNames /\ <<"_SERVICE_PORT_">> \in EnvNames
    <2>1. \A c \in {"_SERVICE_HOST", "_SERVICE_PORT", "_PORT", "_PROTO", "_ADDR", "_SERVICE_PORT_"} : c \in Letter
      BY EnvAssumption DEF Letter
    <2> QED
      BY <2>1, Texts
  <1>5. svc.ip \in EnvValues
    BY <1>1, Texts
  <1>6. ASSUME NEW x \in Port
        PROVE  /\ PortUrl(svc, x) \in EnvValues
               /\ <<x.port>> \in EnvValues /\ <<x.proto>> \in EnvValues
               /\ <<"_PORT_", x.port, "_", Upper[x.proto]>> \in EnvNames
    <2>1. x.port \in Letter /\ x.proto \in DOMAIN Upper
      OBVIOUS
    <2>2. x.proto \in Chars /\ Upper[x.proto] \in Letter /\ x.port \in Chars
      BY <2>1, EnvAssumption DEF Letter
    <2> DEFINE a == x.port
               b == x.proto
               c == Upper[x.proto]
               ip == svc.ip
    <2>3. a \in Chars /\ b \in Chars /\ c \in Letter /\ a \in Letter /\ ip \in Seq(Chars)
      BY <1>1, <2>1, <2>2
    <2> HIDE DEF a, b, c, ip
    <2>9. ":" \in Chars /\ "://" \in Chars
      BY EnvAssumption
    <2>6. <<b, "://">> \o ip \o <<":", a>> \in Seq(Chars)
      BY <2>3, <2>9
    <2>7. PortUrl(svc, x) \in Seq(Chars)
      BY <2>6 DEF PortUrl, a, b, ip
    <2>8. <<a>> \in Seq(Chars) /\ <<b>> \in Seq(Chars)
      BY <2>3
    <2>4. "_PORT_" \in Letter /\ "_" \in Letter
      BY EnvAssumption DEF Letter
    <2>5. <<"_PORT_", a, "_", c>> \in EnvNames
      <3> DEFINE u == "_PORT_"
                 v == "_"
      <3>1. u \in Letter /\ v \in Letter
        BY <2>4
      <3> HIDE DEF u, v
      <3>2. <<u, a, v, c>> \in Seq(Letter)
        BY <2>3, <3>1
      <3> QED
        BY <3>2 DEF EnvNames, u, v
    <2> QED
      BY <2>5, <2>7, <2>8, Texts DEF a, b, c
  <1>7. ASSUME NEW x \in Port
        PROVE  IsEnv(PortEnv(svc, x))
    <2> DEFINE p == prefix \o <<"_PORT_", x.port, "_", Upper[x.proto]>>
               q == prefix \o <<"_SERVICE_PORT_">> \o ToServiceEnvName(x.name)
               s == <<One(p \o <<"_PROTO">>, <<x.proto>>), One(p \o <<"_PORT">>, <<x.port>>), One(p \o <<"_ADDR">>, svc.ip),
                      IF x.name = <<>> THEN <<>> ELSE One(q, <<x.port>>)>>
    <2>1. p \in EnvNames
      BY <1>3, <1>6, Texts
    <2>2. q \in EnvNames
      BY <1>2, <1>3, <1>4, Texts
    <2>3. IsEnv(One(p, PortUrl(svc, x)))
      BY <1>6, <2>1, OneTyped
    <2>4. IsEnv(One(p \o <<"_PROTO">>, <<x.proto>>)) /\ IsEnv(One(p \o <<"_PORT">>, <<x.port>>)) /\ IsEnv(One(p \o <<"_ADDR">>, svc.ip))
      BY <1>4, <1>5, <1>6, <2>1, OneTyped, Texts
    <2>5. IsEnv(IF x.name = <<>> THEN <<>> ELSE One(q, <<x.port>>))
      BY <1>6, <2>2, OneTyped
    <2>6. PortEnv(svc, x) = OverAll(One(p, PortUrl(svc, x)), s)
      BY DEF PortEnv, prefix
    <2> HIDE DEF p, q
    <2>7. Len(s) = 4 /\ s[1] = One(p \o <<"_PROTO">>, <<x.proto>>) /\ s[2] = One(p \o <<"_PORT">>, <<x.port>>)
          /\ s[3] = One(p \o <<"_ADDR">>, svc.ip) /\ s[4] = IF x.name = <<>> THEN <<>> ELSE One(q, <<x.port>>)
      OBVIOUS
    <2> HIDE DEF s
    <2>8. \A i \in 1 .. Len(s) : IsEnv(s[i])
      <3> SUFFICES ASSUME NEW i \in 1 .. 4 PROVE IsEnv(s[i])
        BY <2>7
      <3>1. i = 1 \/ i = 2 \/ i = 3 \/ i = 4
        OBVIOUS
      <3> QED
        BY <2>4, <2>5, <2>7, <3>1
    <2>9. Len(s) \in Nat
      BY <2>7
    <2> QED
      BY <2>3, <2>6, <2>8, <2>9, OverAllTyped
  <1>8. ASSUME NEW x \in Port
        PROVE  IsEnv(One(prefix \o <<"_SERVICE_PORT">>, <<x.port>>)) /\ IsEnv(One(prefix \o <<"_PORT">>, PortUrl(svc, x)))
    BY <1>3, <1>4, <1>6, OneTyped, Texts
  <1> DEFINE first == IF svc.ports = <<>> THEN <<>> ELSE MainPort(svc, svc.ports[1])
             rest == [i \in DOMAIN svc.ports |-> PortEnv(svc, svc.ports[i])]
             base == One(prefix \o <<"_SERVICE_HOST">>, svc.ip)
  <1>9. Len(first) \in Nat /\ first \in Seq({first[i] : i \in 1 .. Len(first)}) /\ \A i \in 1 .. Len(first) : IsEnv(first[i])
    <2>1. CASE svc.ports = <<>>
      BY <2>1
    <2>2. CASE svc.ports # <<>>
      <3>1. svc.ports[1] \in Port
        <4> HIDE DEF Port
        <4> QED
          BY <1>1, <2>2
      <3> DEFINE a == One(prefix \o <<"_SERVICE_PORT">>, <<svc.ports[1].port>>)
                 b == One(prefix \o <<"_PORT">>, PortUrl(svc, svc.ports[1]))
      <3>2. IsEnv(a) /\ IsEnv(b)
        BY <1>8, <3>1
      <3>3. first = <<a, b>>
        BY <2>2 DEF MainPort, prefix
      <3> HIDE DEF a, b, first
      <3> QED
        BY <3>2, <3>3
    <2> QED
      BY <2>1, <2>2
  <1>10. rest \in Seq({rest[i] : i \in DOMAIN rest}) /\ Len(rest) \in Nat /\ \A i \in 1 .. Len(rest) : IsEnv(rest[i])
    <2>1. Len(svc.ports) \in Nat /\ DOMAIN svc.ports = 1 .. Len(svc.ports)
      BY <1>1
    <2>2. \A i \in DOMAIN svc.ports : svc.ports[i] \in Port
      <3> HIDE DEF Port
      <3> QED
        BY <1>1
    <2>3. \A i \in DOMAIN svc.ports : IsEnv(PortEnv(svc, svc.ports[i]))
      BY <1>7, <2>2
    <2> QED
      BY <2>1, <2>3
  <1> HIDE DEF first, rest
  <1>11. IsEnv(base)
    BY <1>3, <1>4, <1>5, OneTyped, Texts
  <1>12. Len(first \o rest) \in Nat /\ \A i \in 1 .. Len(first \o rest) : IsEnv((first \o rest)[i])
    <2>1. /\ Len(first \o rest) = Len(first) + Len(rest)
          /\ \A i \in 1 .. Len(first) + Len(rest) : (first \o rest)[i] = IF i =< Len(first) THEN first[i] ELSE rest[i - Len(first)]
      BY <1>9, <1>10
    <2> QED
      BY <1>9, <1>10, <2>1
  <1>13. IsEnv(OverAll(base, first \o rest))
    BY <1>11, <1>12, OverAllTyped
  <1>14. ServiceEnvVars(svc) = IF svc.ip \in {<<>>, <<"None">>} THEN <<>> ELSE OverAll(base, first \o rest)
    BY DEF ServiceEnvVars, first, rest, prefix
  <1> QED
    BY <1>13, <1>14, OneTyped

\* So do the services of the namespace.
LEMMA NamespaceTyped == IsEnv(NamespaceEnv)
  <1> DEFINE N == Len(Services)
             s == [i \in DOMAIN Services |-> ServiceEnvVars(Services[N + 1 - i])]
  <1>1. N \in Nat /\ DOMAIN Services = 1 .. N /\ \A i \in 1 .. N : Services[i] \in Service
    <2>1. Services \in Seq(Service)
      BY EnvAssumption
    <2> HIDE DEF Service
    <2> QED
      BY <2>1
  <1> HIDE DEF N
  <1>2. \A i \in 1 .. N : N + 1 - i \in 1 .. N
    BY <1>1
  <1>3. Len(s) = N /\ \A i \in 1 .. N : s[i] = ServiceEnvVars(Services[N + 1 - i])
    BY <1>1
  <1>4. NamespaceEnv = OverAll(<<>>, s)
    BY DEF NamespaceEnv, N
  <1> HIDE DEF s
  <1>5. \A i \in 1 .. Len(s) : IsEnv(s[i])
    BY <1>1, <1>2, <1>3, ServiceTyped
  <1>6. IsEnv(OverAll(<<>>, s))
    BY <1>1, <1>3, <1>5, OverAllTyped, OneTyped
  <1> QED
    BY <1>4, <1>6

\* What lies over variables of their kind.
LEMMA OverTyped ==
  ASSUME NEW f, NEW g, IsEnv(f), IsEnv(g)
  PROVE  IsEnv(Over(f, g))
  BY DEF IsEnv, Over

(***************************************************************************)
(* The environment of a container: expansion.                              *)
(***************************************************************************)
\* What is read behind a "$" lies in the text, and the reading gets on.
LEMMA TryReadTyped ==
  ASSUME NEW s \in Seq(Chars), NEW i \in 2 .. Len(s)
  PROVE  LET r == TryReadVariableName(s, i)
         IN  r.read \in Seq(Chars) /\ r.next \in i + 1 .. Len(s) + 1
  <1> DEFINE close == {j \in i + 1 .. Len(s) : s[j] = ")"}
             r == TryReadVariableName(s, i)
             first == CHOOSE j \in close : \A k \in close : j <= k
  <1>0. "$" \in Chars /\ "(" \in Chars
    BY EnvAssumption
  <1>1. Len(s) \in Nat /\ i \in Nat /\ i =< Len(s) /\ i >= 2 /\ s[i] \in Chars
    OBVIOUS
  <1>2. CASE s[i] = "$"
    <2>1. r = [read |-> <<"$">>, isVar |-> FALSE, next |-> i + 1]
      BY <1>2 DEF TryReadVariableName
    <2> QED
      BY <1>0, <1>1, <2>1
  <1>3. CASE s[i] = "(" /\ close # {}
    <2>0. close \in SUBSET Nat
      BY <1>1
    <2>1. \E j \in close : \A k \in close : j <= k
      <3> HIDE DEF close
      <3> QED
        BY <1>3, <2>0, LeastNumber
    <2>2. first \in close
      BY <2>1
    <2>3. r = [read |-> SubSeq(s, i + 1, first - 1), isVar |-> TRUE, next |-> first + 1]
      BY <1>3 DEF TryReadVariableName
    <2>4. first \in i + 1 .. Len(s)
      BY <2>2
    <2> HIDE DEF first, r
    <2>5. SubSeq(s, i + 1, first - 1) \in Seq(Chars)
      BY <1>1, <2>4
    <2>6. first + 1 \in i + 1 .. Len(s) + 1
      BY <1>1, <2>4
    <2> QED
      BY <2>3, <2>5, <2>6 DEF r
  <1>4. CASE s[i] = "(" /\ close = {}
    <2>1. r = [read |-> <<"$", "$", "(">>, isVar |-> FALSE, next |-> i + 1]
      BY <1>4 DEF TryReadVariableName
    <2> QED
      BY <1>0, <1>1, <2>1
  <1>5. CASE s[i] # "$" /\ s[i] # "("
    <2>1. r = [read |-> <<"$", s[i]>>, isVar |-> FALSE, next |-> i + 1]
      BY <1>5 DEF TryReadVariableName
    <2> QED
      BY <1>0, <1>1, <2>1
  <1> QED
    BY <1>2, <1>3, <1>4, <1>5

\* So does what comes out.
LEMMA PieceTyped ==
  ASSUME NEW s \in Seq(Chars), NEW env, IsEnv(env), NEW i \in 1 .. Len(s)
  PROVE  Piece(s, i, env).text \in EnvValues /\ Piece(s, i, env).next \in i + 1 .. Len(s) + 1
  <1>0. "$" \in Chars /\ "(" \in Chars /\ ")" \in Chars
    BY EnvAssumption
  <1>1. s[i] \in Chars /\ Len(s) \in Nat /\ i \in Nat
    OBVIOUS
  <1>2. CASE s[i] # "$" \/ i = Len(s)
    <2>1. Piece(s, i, env) = [text |-> <<s[i]>>, next |-> i + 1]
      BY <1>2 DEF Piece
    <2>2. <<s[i]>> \in EnvValues
      BY <1>1 DEF EnvValues
    <2> QED
      BY <1>1, <2>1, <2>2
  <1>3. CASE s[i] = "$" /\ i # Len(s)
    <2> DEFINE r == TryReadVariableName(s, i + 1)
               text == CASE ~ r.isVar -> r.read
                         [] r.isVar /\ r.read \in DOMAIN env -> env[r.read]
                         [] OTHER -> VarRef(r.read)
    <2>1. i + 1 \in 2 .. Len(s)
      BY <1>1, <1>3
    <2>2. r.read \in Seq(Chars) /\ r.next \in i + 2 .. Len(s) + 1
      BY <1>1, <2>1, TryReadTyped
    <2>3. Piece(s, i, env) = [text |-> text, next |-> r.next]
      BY <1>3 DEF Piece
    <2> HIDE DEF r
    <2>4. VarRef(r.read) \in Seq(Chars)
      <3> DEFINE a == "$"
                 b == "("
                 c == ")"
                 x == r.read
      <3>1. a \in Chars /\ b \in Chars /\ c \in Chars /\ x \in Seq(Chars)
        BY <1>0, <2>2
      <3> HIDE DEF a, b, c, x
      <3>2. <<a, b>> \o x \o <<c>> \in Seq(Chars)
        BY <3>1
      <3> QED
        BY <3>2 DEF VarRef, a, b, c, x
    <2>5. text \in EnvValues
      BY <2>2, <2>4, Texts DEF IsEnv
    <2> HIDE DEF text
    <2> QED
      BY <1>1, <2>2, <2>3, <2>5
  <1> QED
    BY <1>2, <1>3

\* The recursion of Expand has a solution: each piece is followed by what comes
\* out for the rest.
Solves(f, s, env) ==
  /\ f[Len(s) + 1] = <<>>
  /\ \A i \in 1 .. Len(s) : f[i] = Piece(s, i, env).text \o f[Piece(s, i, env).next]

LEMMA ExpandIs ==
  ASSUME NEW s \in Seq(Chars), NEW env, IsEnv(env)
  PROVE  \E f : Solves(f, s, env) /\ Expand(s, env) = f[1]
  <1> DEFINE N == Len(s)
             text(i) == Piece(s, i, env).text
             next(i) == Piece(s, i, env).next
             at(g, i) == IF i > N THEN <<>> ELSE text(i) \o g[next(i)]
             Able(m) == \E f : f = [i \in N + 1 - m .. N + 1 |-> at(f, i)]
             bad == {m \in 0 .. N : ~ Able(m)}
             it == CHOOSE f : f = [i \in 1 .. N + 1 |-> at(f, i)]
  <1>1. N \in Nat
    OBVIOUS
  <1>2. \A i \in 1 .. N : next(i) \in i + 1 .. N + 1
    BY PieceTyped
  <1>3. Expand(s, env) = it[1]
    BY DEF Expand
  <1> HIDE DEF N, text, next
  <1>4. Able(0)
    <2> DEFINE f == [i \in N + 1 - 0 .. N + 1 |-> <<>>]
    <2>1. \A i \in N + 1 - 0 .. N + 1 : i > N /\ f[i] = <<>>
      BY <1>1
    <2>2. \A i \in N + 1 - 0 .. N + 1 : f[i] = at(f, i)
      BY <2>1
    <2>3. f = [i \in N + 1 - 0 .. N + 1 |-> at(f, i)]
      BY <2>2
    <2> QED
      BY <2>3
  <1>5. ASSUME NEW m \in 0 .. N, m + 1 \in 0 .. N, Able(m)
        PROVE  Able(m + 1)
    <2>1. PICK f : f = [i \in N + 1 - m .. N + 1 |-> at(f, i)]
      BY <1>5
    <2> DEFINE k == N - m
               x == text(k) \o f[next(k)]
               g == [i \in k .. N + 1 |-> IF i = k THEN x ELSE f[i]]
    <2>2. k \in 1 .. N /\ k = N + 1 - (m + 1) /\ k + 1 = N + 1 - m
      BY <1>1, <1>5
    <2>3. \A i \in k + 1 .. N + 1 : f[i] = at(f, i)
      BY <2>1, <2>2
    <2> HIDE DEF k
    <2>4. ASSUME NEW i \in k .. N + 1
          PROVE  g[i] = at(g, i)
      <3>1. CASE i = k
        <4>1. next(k) \in k + 1 .. N + 1
          BY <1>2, <2>2
        <4>2. k \in k .. N + 1 /\ next(k) \in k .. N + 1 /\ next(k) # k
          BY <1>1, <2>2, <4>1
        <4>4. g[next(k)] = f[next(k)] /\ g[k] = x
          BY <4>2
        <4>3. ~ (k > N)
          BY <1>1, <2>2
        <4> QED
          BY <3>1, <4>3, <4>4
      <3>2. CASE i # k /\ i =< N
        <4>1. i \in k + 1 .. N + 1 /\ i \in 1 .. N /\ ~ (i > N)
          BY <1>1, <2>2, <3>2
        <4>2. next(i) \in i + 1 .. N + 1
          BY <1>2, <4>1
        <4>3. next(i) \in k .. N + 1 /\ next(i) # k
          BY <1>1, <2>2, <4>1, <4>2
        <4>4. g[next(i)] = f[next(i)] /\ g[i] = f[i]
          BY <3>2, <4>3
        <4>5. f[i] = at(f, i)
          BY <2>3, <4>1
        <4> QED
          BY <4>1, <4>4, <4>5
      <3>3. CASE i # k /\ i > N
        <4>1. i \in k + 1 .. N + 1 /\ g[i] = f[i]
          BY <1>1, <2>2, <3>3
        <4> QED
          BY <2>3, <3>3, <4>1
      <3> QED
        BY <1>1, <2>2, <3>1, <3>2, <3>3
    <2>5. g = [i \in k .. N + 1 |-> at(g, i)]
      BY <2>4
    <2> QED
      BY <2>2, <2>5
  <1>6. Able(N)
    <2> HIDE DEF Able
    <2> SUFFICES ASSUME ~ Able(N) PROVE FALSE
      OBVIOUS
    <2>1. bad # {} /\ bad \in SUBSET Nat
      BY <1>1
    <2>2. PICK n \in bad : \A k \in bad : n =< k
      BY <2>1, LeastNumber
    <2>3. n # 0 /\ n - 1 \in 0 .. N /\ (n - 1) + 1 = n /\ n \in 0 .. N
      BY <1>1, <1>4, <2>2
    <2>4. Able(n - 1)
      BY <2>2, <2>3
    <2> QED
      BY <1>5, <2>2, <2>3, <2>4
  <1>7. it = [i \in 1 .. N + 1 |-> at(it, i)]
    <2>1. N + 1 - N = 1
      BY <1>1
    <2> QED
      BY <1>6, <2>1
  <1> HIDE DEF it
  <1>8. \A i \in 1 .. N + 1 : it[i] = at(it, i)
    BY <1>7
  <1>9. it[N + 1] = <<>>
    <2>1. N + 1 \in 1 .. N + 1 /\ N + 1 > N
      BY <1>1
    <2> QED
      BY <1>8, <2>1
  <1>10. \A i \in 1 .. N : it[i] = text(i) \o it[next(i)]
    <2>1. \A i \in 1 .. N : i \in 1 .. N + 1 /\ ~ (i > N)
      BY <1>1
    <2> QED
      BY <1>8, <2>1
  <1> QED
    BY <1>3, <1>9, <1>10 DEF N, text, next, Solves

\* What comes out is a value, for the whole of a text and for the rest of it.
LEMMA RestTyped ==
  ASSUME NEW s \in Seq(Chars), NEW env, IsEnv(env), NEW f, Solves(f, s, env)
  PROVE  \A i \in 1 .. Len(s) + 1 : f[i] \in EnvValues
  <1>0. /\ f[Len(s) + 1] = <<>>
        /\ \A i \in 1 .. Len(s) : f[i] = Piece(s, i, env).text \o f[Piece(s, i, env).next]
    BY DEF Solves
  <1> DEFINE N == Len(s)
             bad == {m \in 0 .. N : f[N + 1 - m] \notin EnvValues}
  <1>1. N \in Nat
    OBVIOUS
  <1>2. \A i \in 1 .. N : Piece(s, i, env).text \in EnvValues /\ Piece(s, i, env).next \in i + 1 .. N + 1
    BY PieceTyped
  <1>3. bad = {}
    <2> SUFFICES ASSUME bad # {} PROVE FALSE
      OBVIOUS
    <2>1. bad \in SUBSET Nat
      BY <1>1
    <2>2. PICK m \in bad : \A k \in bad : m =< k
      BY <2>1, LeastNumber
    <2>3. m # 0
      <3>1. <<>> \in EnvValues
        BY DEF EnvValues
      <3> QED
        BY <1>0, <1>1, <2>2, <3>1
    <2> DEFINE i == N + 1 - m
               j == Piece(s, i, env).next
    <2>4. i \in 1 .. N
      BY <1>1, <2>2, <2>3
    <2>5. Piece(s, i, env).text \in EnvValues /\ j \in i + 1 .. N + 1 /\ f[i] = Piece(s, i, env).text \o f[j]
      BY <1>0, <1>2, <2>4
    <2> HIDE DEF j
    <2>6. N + 1 - j \in 0 .. N /\ N + 1 - j < m /\ N + 1 - (N + 1 - j) = j
      BY <1>1, <2>2, <2>4, <2>5
    <2>7. f[j] \in EnvValues
      BY <2>2, <2>6
    <2>8. f[i] \in EnvValues
      <3> HIDE DEF i
      <3> QED
        BY <2>5, <2>7 DEF EnvValues
    <2> QED
      BY <2>2, <2>8
  <1>4. ASSUME NEW i \in 1 .. N + 1
        PROVE  f[i] \in EnvValues
    <2>1. N + 1 - i \in 0 .. N /\ N + 1 - (N + 1 - i) = i
      BY <1>1
    <2> QED
      BY <1>3, <2>1
  <1> QED
    BY <1>4

LEMMA ExpandTyped ==
  ASSUME NEW s \in Seq(Chars), NEW env, IsEnv(env)
  PROVE  Expand(s, env) \in EnvValues
  <1>1. PICK f : Solves(f, s, env) /\ Expand(s, env) = f[1]
    BY ExpandIs
  <1>2. \A i \in 1 .. Len(s) + 1 : f[i] \in EnvValues
    BY <1>1, RestTyped
  <1>3. 1 \in 1 .. Len(s) + 1
    OBVIOUS
  <1> QED
    BY <1>1, <1>2, <1>3

\* Escaping doubles the dollar signs, one character after the other.
LEMMA EscapeIs ==
  ASSUME NEW a \in Seq(Chars)
  PROVE  \E e \in [0 .. Len(a) -> Seq(Chars)] :
            /\ e[0] = <<>>
            /\ \A i \in 1 .. Len(a) : e[i] = e[i - 1] \o (IF a[i] = "$" THEN <<"$", "$">> ELSE <<a[i]>>)
            /\ Escape(a) = e[Len(a)]
  <1> DEFINE N == Len(a)
             X == Seq(Chars)
             esc(c) == IF c = "$" THEN <<"$", "$">> ELSE <<c>>
             ss == [i \in 1 .. N |-> esc(a[i])]
  <1>1. N \in Nat /\ \A i \in 1 .. N : a[i] \in Chars
    OBVIOUS
  <1>2. \A c \in Chars : esc(c) \in X
    <2> DEFINE d == "$"
    <2>1. d \in Chars
      BY EnvAssumption
    <2> HIDE DEF d
    <2>2. <<d, d>> \in X /\ \A c \in Chars : <<c>> \in X
      BY <2>1
    <2> QED
      BY <2>2 DEF d
  <1>3. Escape(a) = FlattenSeq(ss)
    BY DEF Escape
  <1>4. <<>> \in X
    OBVIOUS
  <1>5. \A x, y \in X : x \o y \in X
    OBVIOUS
  <1>6. \A x \in X : <<>> \o x = x
    OBVIOUS
  <1> SUFFICES \E e \in [0 .. N -> X] :
                  e[0] = <<>> /\ (\A i \in 1 .. N : e[i] = e[i - 1] \o esc(a[i])) /\ Escape(a) = e[N]
    OBVIOUS
  <1> HIDE DEF esc, N
  <1>7. ss \in Seq(X) /\ Len(ss) = N /\ \A i \in 1 .. N : ss[i] = esc(a[i])
    <2> HIDE DEF X
    <2> QED
      BY <1>1, <1>2
  <1>8. CASE N = 0
    <2> DEFINE e == [i \in 0 .. N |-> <<>>]
    <2>1. ss = <<>>
      BY <1>7, <1>8
    <2>2. FlattenSeq(<<>>) = <<>>
      BY DEF FlattenSeq
    <2>3. e \in [0 .. N -> X] /\ e[0] = <<>> /\ e[N] = <<>>
      BY <1>4, <1>8
    <2> HIDE DEF ss, e
    <2> QED
      BY <1>3, <1>8, <2>1, <2>2, <2>3
  <1>9. CASE N # 0
    <2>1. PICK f \in [1 .. N -> X] :
            f[1] = ss[1] /\ (\A n \in 2 .. N : f[n] = f[n - 1] \o ss[n]) /\ FlattenSeq(ss) = f[N]
      <3>1. ss # <<>>
        BY <1>7, <1>9
      <3> HIDE DEF ss
      <3> QED
        BY <1>7, <3>1, FlattenSteps
    <2> HIDE DEF ss, X
    <2> DEFINE e == [i \in 0 .. N |-> IF i = 0 THEN <<>> ELSE f[i]]
    <2>2. e \in [0 .. N -> X] /\ e[0] = <<>> /\ \A i \in 1 .. N : e[i] = f[i]
      BY <1>1, <1>4
    <2>3. \A i \in 1 .. N : e[i] = e[i - 1] \o esc(a[i])
      <3> SUFFICES ASSUME NEW i \in 1 .. N PROVE e[i] = e[i - 1] \o esc(a[i])
        OBVIOUS
      <3>1. CASE i = 1
        <4>1. f[1] = esc(a[1]) /\ 1 \in 1 .. N /\ esc(a[1]) \in X
          BY <1>1, <1>2, <1>7, <2>1, <3>1
        <4>2. <<>> \o esc(a[1]) = esc(a[1])
          BY <1>6, <4>1 DEF X
        <4>3. e[i] = esc(a[1]) /\ e[i - 1] = <<>>
          <5> HIDE DEF e
          <5> QED
            BY <2>2, <3>1, <4>1
        <4> HIDE DEF e
        <4> QED
          BY <3>1, <4>2, <4>3
      <3>2. CASE i # 1
        <4>1. i \in 2 .. N /\ i - 1 \in 1 .. N
          BY <1>1, <3>2
        <4>2. f[i] = f[i - 1] \o ss[i] /\ ss[i] = esc(a[i])
          BY <1>7, <2>1, <4>1
        <4> HIDE DEF e
        <4> QED
          BY <2>2, <4>1, <4>2
      <3> QED
        BY <3>1, <3>2
    <2>4. Escape(a) = e[N]
      <3>1. N \in 1 .. N
        BY <1>1, <1>9
      <3> HIDE DEF e
      <3> QED
        BY <1>3, <2>1, <2>2, <3>1
    <2> QED
      BY <2>2, <2>3, <2>4
  <1> QED
    BY <1>8, <1>9

\* What is escaped first stays first.
Grows(N, T, e, x) ==
  /\ N \in Nat /\ e \in [0 .. N -> Seq(T)] /\ x \in [1 .. N -> Seq(T)]
  /\ \A i \in 1 .. N : e[i] = e[i - 1] \o x[i]
StaysFirst(N, e) ==
  \A i \in 0 .. N : Len(e[i]) =< Len(e[N]) /\ \A k \in 1 .. Len(e[i]) : e[N][k] = e[i][k]

LEMMA EscapedFirst ==
  ASSUME NEW N, NEW T, NEW e, NEW x, Grows(N, T, e, x)
  PROVE  StaysFirst(N, e)
  <1> DEFINE Good(i) == Len(e[i]) =< Len(e[N]) /\ \A k \in 1 .. Len(e[i]) : e[N][k] = e[i][k]
             bad == {m \in 0 .. N : ~ Good(N - m)}
             X == Seq(T)
  <1>0. N \in Nat /\ e \in [0 .. N -> Seq(T)] /\ x \in [1 .. N -> Seq(T)] /\ \A i \in 1 .. N : e[i] = e[i - 1] \o x[i]
    BY DEF Grows
  <1>1. \A y \in X : Len(y) \in Nat
    OBVIOUS
  <1>2. \A y, z \in X : Len(y) =< Len(y \o z) /\ \A k \in 1 .. Len(y) : (y \o z)[k] = y[k]
    OBVIOUS
  <1> HIDE DEF X
  <1>3. e \in [0 .. N -> X] /\ x \in [1 .. N -> X]
    BY <1>0 DEF X
  <1>4. Good(N)
    <2>1. N \in 0 .. N
      BY <1>0
    <2> DEFINE m == Len(e[N])
    <2>2. m \in Nat
      BY <1>1, <1>3, <2>1
    <2> HIDE DEF m
    <2>3. m =< m
      BY <2>2
    <2> QED
      BY <2>3 DEF m
  <1>5. ASSUME NEW i \in 1 .. N, Good(i)
        PROVE  Good(i - 1)
    <2>1. i - 1 \in 0 .. N /\ i \in 0 .. N /\ e[i] = e[i - 1] \o x[i] /\ e[i - 1] \in X /\ x[i] \in X /\ e[i] \in X /\ e[N] \in X
      BY <1>0, <1>3
    <2>2. Len(e[i - 1]) =< Len(e[i]) /\ \A k \in 1 .. Len(e[i - 1]) : e[i][k] = e[i - 1][k]
      <3> DEFINE y == e[i - 1]
                 z == x[i]
      <3>1. y \in X /\ z \in X /\ e[i] = y \o z
        BY <2>1
      <3> HIDE DEF y, z
      <3> QED
        BY <1>2, <3>1 DEF y
    <2>3. Len(e[i - 1]) \in Nat /\ Len(e[i]) \in Nat /\ Len(e[N]) \in Nat
      BY <1>1, <2>1
    <2> QED
      BY <1>5, <2>2, <2>3
  <1>6. bad = {}
    <2> SUFFICES ASSUME bad # {} PROVE FALSE
      OBVIOUS
    <2> HIDE DEF Good
    <2>1. bad \in SUBSET Nat
      BY <1>0
    <2>2. PICK m \in bad : \A k \in bad : m =< k
      BY <2>1, LeastNumber
    <2>3. m # 0
      <3>1. N - 0 = N
        BY <1>0
      <3> QED
        BY <1>4, <2>2, <3>1
    <2>4. m - 1 \in 0 .. N /\ N - (m - 1) \in 1 .. N /\ N - (m - 1) - 1 = N - m
      BY <1>0, <2>2, <2>3
    <2>5. Good(N - (m - 1))
      <3>1. m - 1 \notin bad
        <4> HIDE DEF bad
        <4> QED
          BY <2>1, <2>2
      <3> QED
        BY <2>4, <3>1
    <2>6. Good(N - (m - 1) - 1)
      BY <1>5, <2>4, <2>5
    <2>7. Good(N - m)
      BY <2>4, <2>6
    <2> QED
      BY <2>2, <2>7
  <1>7. ASSUME NEW i \in 0 .. N
        PROVE  Good(i)
    <2> HIDE DEF Good
    <2>1. N - i \in 0 .. N /\ N - (N - i) = i
      BY <1>0
    <2> QED
      BY <1>6, <2>1
  <1> QED
    BY <1>7 DEF StaysFirst

\* What stands behind something else.
LEMMA BehindIt ==
  ASSUME NEW S, NEW x \in Seq(S), NEW y \in Seq(S)
  PROVE  /\ x \o y \in Seq(S) /\ Len(x) \in Nat /\ Len(y) \in Nat /\ Len(x \o y) = Len(x) + Len(y)
         /\ \A k \in 1 .. Len(x) : (x \o y)[k] = x[k]
         /\ \A k \in 1 .. Len(y) : (x \o y)[Len(x) + k] = y[k]
  OBVIOUS

LEMMA Regroup ==
  ASSUME NEW S, NEW x \in Seq(S), NEW y \in Seq(S), NEW z \in Seq(S)
  PROVE  (x \o y) \o z = x \o (y \o z)
  BY ConcatAssociative

\* A beginning of a and its next element make up the next beginning.
LEMMA OneMore ==
  ASSUME NEW S, NEW a \in Seq(S), NEW i \in 0 .. Len(a) - 1, NEW x \in Seq(S)
  PROVE  SubSeq(a, 1, i) \o (<<a[i + 1]>> \o x) = SubSeq(a, 1, i + 1) \o x
  <1>1. i + 1 \in 1 .. Len(a) /\ 1 \in 1 .. Len(a) /\ i + 1 \in 1 .. Len(a) /\ (i + 1) - 1 = i
    OBVIOUS
  <1>2. SubSeq(a, 1, i + 1) = SubSeq(a, 1, i) \o <<a[i + 1]>>
    BY <1>1, SubSeqRecursiveSecond
  <1>3. SubSeq(a, 1, i) \in Seq(S)
    <2>1. 1 \in Int /\ i \in Int /\ \A k \in 1 .. i : a[k] \in S
      OBVIOUS
    <2> QED
      BY <2>1, SubSeqProperties
  <1>4. <<a[i + 1]>> \in Seq(S)
    <2> DEFINE y == a[i + 1]
    <2>1. y \in S
      BY <1>1
    <2> HIDE DEF y
    <2>2. <<y>> \in Seq(S)
      BY <2>1
    <2> QED
      BY <2>2 DEF y
  <1> DEFINE u == SubSeq(a, 1, i)
             v == <<a[i + 1]>>
  <1>5. u \in Seq(S) /\ v \in Seq(S) /\ SubSeq(a, 1, i + 1) = u \o v
    BY <1>2, <1>3, <1>4
  <1> HIDE DEF u, v
  <1>6. (u \o v) \o x = u \o (v \o x)
    <2>1. u \in Seq(S) /\ v \in Seq(S)
      BY <1>5
    <2> QED
      BY <2>1, Regroup
  <1> QED
    BY <1>5, <1>6 DEF u, v

\* The pieces of an escaped text are the characters of the text.
LEMMA EscapedPiece ==
  ASSUME NEW t \in Seq(Chars), NEW env, NEW c \in Chars, NEW p \in 1 .. Len(t),
         c # "$" => t[p] = c,
         c = "$" => p + 1 =< Len(t) /\ t[p] = "$" /\ t[p + 1] = "$"
  PROVE  Piece(t, p, env) = [text |-> <<c>>, next |-> IF c = "$" THEN p + 2 ELSE p + 1]
  <1>1. CASE c # "$"
    BY <1>1 DEF Piece
  <1>2. CASE c = "$"
    <2>1. p # Len(t) /\ t[p] = "$" /\ t[p + 1] = "$"
      BY <1>2
    <2>2. TryReadVariableName(t, p + 1) = [read |-> <<"$">>, isVar |-> FALSE, next |-> p + 1 + 1]
      BY <2>1 DEF TryReadVariableName
    <2>3. Piece(t, p, env) = [text |-> <<"$">>, next |-> p + 1 + 1]
      BY <2>1, <2>2 DEF Piece
    <2>4. p + 1 + 1 = p + 2
      OBVIOUS
    <2> QED
      BY <1>2, <2>3, <2>4
  <1> QED
    BY <1>1, <1>2

\* Expanding what was escaped gives it back, and goes on behind it.
LEMMA EscapedBack ==
  ASSUME NEW a \in Seq(Chars), NEW rest \in Seq(Chars), NEW env, IsEnv(env), NEW f, Solves(f, Escape(a) \o rest, env)
  PROVE  /\ Escape(a) \in Seq(Chars)
         /\ f[1] = a \o f[Len(Escape(a)) + 1]
  <1> DEFINE t == Escape(a) \o rest
  <1>0. /\ f[Len(t) + 1] = <<>>
        /\ \A i \in 1 .. Len(t) : f[i] = Piece(t, i, env).text \o f[Piece(t, i, env).next]
    BY DEF Solves
  <1> DEFINE N == Len(a)
             V == Chars \cup Nat
             esc(c) == IF c = "$" THEN <<"$", "$">> ELSE <<c>>
  <1>1. PICK e \in [0 .. N -> Seq(Chars)] :
          e[0] = <<>> /\ (\A i \in 1 .. N : e[i] = e[i - 1] \o esc(a[i])) /\ Escape(a) = e[N]
    BY EscapeIs
  <1>2. N \in Nat /\ (\A i \in 1 .. N : a[i] \in Chars) /\ a \in Seq(V)
    <2>1. a \in Seq(V)
      BY SeqMonotonic
    <2> QED
      BY <2>1
  <1> DEFINE d == "$"
  <1>3. \A c \in Chars : esc(c) \in Seq(Chars) /\ Len(esc(c)) = IF c = d THEN 2 ELSE 1
    <2>1. d \in Chars
      BY EnvAssumption
    <2> SUFFICES ASSUME NEW c \in Chars
                 PROVE  esc(c) \in Seq(Chars) /\ Len(esc(c)) = IF c = d THEN 2 ELSE 1
      OBVIOUS
    <2>2. <<c>> \in Seq(Chars) /\ Len(<<c>>) = 1
      OBVIOUS
    <2>3. esc(c) = IF c = d THEN <<d, d>> ELSE <<c>>
      OBVIOUS
    <2> HIDE DEF d, esc
    <2>4. <<d, d>> \in Seq(Chars) /\ Len(<<d, d>>) = 2
      BY <2>1
    <2> QED
      BY <2>2, <2>3, <2>4
  <1>4. Escape(a) \in Seq(Chars) /\ e[N] \in Seq(Chars) /\ t \in Seq(Chars)
    <2>1. e[N] \in Seq(Chars)
      <3>1. N \in 0 .. N
        BY <1>2
      <3> HIDE DEF N
      <3> QED
        BY <3>1
    <2> DEFINE y == e[N]
    <2>2. y \in Seq(Chars) /\ t = y \o rest
      BY <1>1, <2>1
    <2> HIDE DEF y
    <2>3. t \in Seq(Chars)
      BY <2>2
    <2> QED
      BY <1>1, <2>1, <2>3
  <1>5. StaysFirst(N, e)
    <2> DEFINE x == [i \in 1 .. N |-> esc(a[i])]
    <2>1. x \in [1 .. N -> Seq(Chars)] /\ \A i \in 1 .. N : x[i] = esc(a[i])
      BY <1>2, <1>3
    <2> HIDE DEF x, esc
    <2>2. \A i \in 1 .. N : e[i] = e[i - 1] \o x[i]
      BY <1>1, <2>1
    <2> QED
      <3> HIDE DEF N
      <3>1. N \in Nat
        BY <1>2
      <3>2. e \in [0 .. N -> Seq(Chars)]
        BY <1>1
      <3>3. x \in [1 .. N -> Seq(Chars)]
        BY <2>1
      <3> QED
        <4>1. Grows(N, Chars, e, x)
          BY <2>2, <3>1, <3>2, <3>3 DEF Grows
        <4> QED
          BY ONLY <4>1, EscapedFirst
  <1>6. Len(e[N]) \in Nat /\ Len(t) \in Nat /\ Len(e[N]) =< Len(t) /\ \A k \in 1 .. Len(e[N]) : t[k] = e[N][k]
    BY <1>1, <1>4
  <1>7. \A i \in 1 .. Len(t) + 1 : f[i] \in Seq(V)
    BY <1>4, RestTyped DEF EnvValues
  <1> DEFINE Good(i) == f[1] = SubSeq(a, 1, i) \o f[Len(e[i]) + 1]
             bad == {i \in 0 .. N : ~ Good(i)}
  <1>8. Good(0)
    <2>1. f[1] \in Seq(V)
      <3>1. 1 \in 1 .. Len(t) + 1
        BY <1>6
      <3> QED
        BY <1>7, <3>1
    <2>2. SubSeq(a, 1, 0) = <<>> /\ Len(e[0]) + 1 = 1
      BY <1>1
    <2>3. <<>> \o f[1] = f[1]
      BY <2>1
    <2> QED
      BY <2>2, <2>3
  <1>9. ASSUME NEW i \in 0 .. N - 1, Good(i)
        PROVE  Good(i + 1)
    <2> DEFINE p == Len(e[i]) + 1
               c == a[i + 1]
               q == IF c = "$" THEN p + 2 ELSE p + 1
    <2>1. i \in 0 .. N /\ i + 1 \in 1 .. N /\ i + 1 \in 0 .. N /\ c \in Chars
      BY <1>2
    <2>2. e[i + 1] = e[i] \o esc(c) /\ e[i] \in Seq(Chars) /\ e[i + 1] \in Seq(Chars)
      <3>1. e[i + 1] = e[(i + 1) - 1] \o esc(a[i + 1])
        BY <1>1, <2>1
      <3>2. (i + 1) - 1 = i
        BY <2>1
      <3> HIDE DEF esc
      <3> QED
        BY <2>1, <3>1, <3>2
    <2>3. Len(e[i]) \in Nat /\ Len(e[i + 1]) = Len(e[i]) + Len(esc(c)) /\ Len(e[i + 1]) + 1 = q
          /\ \A k \in 1 .. Len(esc(c)) : e[i + 1][Len(e[i]) + k] = esc(c)[k]
      <3> HIDE DEF c
      <3>1. esc(c) \in Seq(Chars) /\ Len(esc(c)) = IF c = "$" THEN 2 ELSE 1
        BY <1>3, <2>1
      <3> DEFINE x == esc(c)
      <3>2. e[i + 1] = e[i] \o x /\ x \in Seq(Chars) /\ Len(x) = IF c = "$" THEN 2 ELSE 1
        BY <2>2, <3>1
      <3> HIDE DEF x, esc
      <3>3. Len(e[i]) \in Nat /\ Len(e[i + 1]) = Len(e[i]) + Len(x)
            /\ \A k \in 1 .. Len(x) : e[i + 1][Len(e[i]) + k] = x[k]
        <4> DEFINE y == e[i]
        <4>1. y \in Seq(Chars) /\ e[i + 1] = y \o x
          BY <2>2, <3>2
        <4> HIDE DEF y
        <4>2. /\ Len(y) \in Nat /\ Len(y \o x) = Len(y) + Len(x)
              /\ \A k \in 1 .. Len(x) : (y \o x)[Len(y) + k] = x[k]
          <5>1. x \in Seq(Chars)
            BY <3>2
          <5> QED
            BY <4>1, <5>1, BehindIt
        <4> QED
          BY <4>1, <4>2 DEF y
      <3>4. Len(e[i + 1]) + 1 = q
        <4> DEFINE l == Len(e[i])
                   m == Len(e[i + 1])
        <4>1. l \in Nat /\ m = l + (IF c = "$" THEN 2 ELSE 1) /\ q = IF c = "$" THEN l + 1 + 2 ELSE l + 1 + 1
          BY <3>2, <3>3
        <4> HIDE DEF l, m, q
        <4> QED
          BY <4>1 DEF m
      <3> QED
        BY <3>3, <3>4 DEF x
    <2>4. \A k \in 1 .. Len(esc(c)) : Len(e[i]) + k \in 1 .. Len(t) /\ t[Len(e[i]) + k] = esc(c)[k]
      <3> DEFINE l == Len(esc(c))
      <3>1. l \in Nat
        BY <1>3, <2>1
      <3>2. Len(e[i + 1]) =< Len(e[N]) /\ \A k \in 1 .. Len(e[i + 1]) : e[N][k] = e[i + 1][k]
        BY <1>5, <2>1 DEF StaysFirst
      <3> SUFFICES ASSUME NEW k \in 1 .. l
                   PROVE  Len(e[i]) + k \in 1 .. Len(t) /\ t[Len(e[i]) + k] = esc(c)[k]
        OBVIOUS
      <3>3. e[i + 1][Len(e[i]) + k] = esc(c)[k] /\ Len(e[i + 1]) = Len(e[i]) + l
        BY <2>3
      <3> HIDE DEF l
      <3>4. Len(e[i]) + k \in 1 .. Len(e[i + 1]) /\ Len(e[i]) + k \in 1 .. Len(e[N]) /\ Len(e[i]) + k \in 1 .. Len(t)
        <4> DEFINE m == Len(e[i])
                   m1 == Len(e[i + 1])
                   mN == Len(e[N])
                   mt == Len(t)
        <4>1. m \in Nat /\ m1 = m + l /\ m1 =< mN /\ mN \in Nat /\ mt \in Nat /\ mN =< mt
          BY <1>6, <2>3, <3>2, <3>3
        <4> HIDE DEF m, m1, mN, mt
        <4>2. m + k \in 1 .. m1 /\ m + k \in 1 .. mN /\ m + k \in 1 .. mt
          BY <3>1, <4>1
        <4> QED
          BY <4>2 DEF m, m1, mN, mt
      <3> HIDE DEF esc, c
      <3> QED
        BY <1>6, <3>2, <3>3, <3>4
    <2>5. p \in 1 .. Len(t) /\ (c # "$" => t[p] = c) /\ (c = "$" => p + 1 =< Len(t) /\ t[p] = "$" /\ t[p + 1] = "$")
      <3> HIDE DEF c
      <3>1. CASE c = "$"
        <4>1. Len(esc(c)) = 2 /\ esc(c)[1] = "$" /\ esc(c)[2] = "$"
          BY <3>1
        <4>2. 1 \in 1 .. Len(esc(c)) /\ 2 \in 1 .. Len(esc(c))
          BY <4>1
        <4>3. Len(e[i]) + 2 \in 1 .. Len(t) /\ t[Len(e[i]) + 1] = "$" /\ t[Len(e[i]) + 2] = "$" /\ Len(e[i]) + 1 \in 1 .. Len(t)
          BY <2>4, <4>1, <4>2
        <4>4. p + 1 = Len(e[i]) + 2
          BY <2>3
        <4> QED
          BY <1>6, <3>1, <4>3, <4>4
      <3>2. CASE c # "$"
        <4>1. Len(esc(c)) = 1 /\ esc(c)[1] = c
          BY <3>2
        <4>2. 1 \in 1 .. Len(esc(c))
          BY <4>1
        <4> QED
          BY <2>4, <3>2, <4>1, <4>2
      <3> QED
        BY <3>1, <3>2
    <2> HIDE DEF p, c, esc
    <2>6. Piece(t, p, env) = [text |-> <<c>>, next |-> q]
      <3>1. Piece(t, p, env) = [text |-> <<c>>, next |-> IF c = "$" THEN p + 2 ELSE p + 1]
        <4>1. c \in Chars /\ t \in Seq(Chars) /\ p \in 1 .. Len(t)
          BY <1>4, <2>1, <2>5
        <4>2. (c # "$" => t[p] = c) /\ (c = "$" => p + 1 =< Len(t) /\ t[p] = "$" /\ t[p + 1] = "$")
          BY <2>5
        <4> QED
          BY ONLY <4>1, <4>2, EscapedPiece
      <3> QED
        BY <3>1
    <2>7. f[p] = <<c>> \o f[q]
      <3> DEFINE pc == Piece(t, p, env)
                 w == <<c>>
      <3>1. f[p] = pc.text \o f[pc.next]
        BY <1>0, <2>5
      <3>2. pc = [text |-> w, next |-> q]
        BY <2>6
      <3> HIDE DEF pc, w, q
      <3>3. pc.text = w /\ pc.next = q
        BY <3>2
      <3>4. f[p] = w \o f[q]
        BY <3>1, <3>3
      <3> QED
        BY <3>4 DEF w
    <2>8. q \in 1 .. Len(t) + 1
      <3>1. Len(e[i + 1]) \in Nat /\ Len(e[i + 1]) =< Len(t)
        BY <1>5, <1>6, <2>1, <2>2 DEF StaysFirst
      <3> QED
        BY <1>6, <2>3, <3>1
    <2>9. SubSeq(a, 1, i) \o (<<a[i + 1]>> \o f[q]) = SubSeq(a, 1, i + 1) \o f[q]
      <3>1. f[q] \in Seq(V) /\ a \in Seq(V) /\ i \in 0 .. Len(a) - 1
        BY <1>2, <1>7, <2>8
      <3> DEFINE y == f[q]
      <3>2. y \in Seq(V)
        BY <3>1
      <3>3. a \in Seq(V)
        BY <3>1
      <3>4. i \in 0 .. Len(a) - 1
        BY <3>1
      <3> HIDE DEF V, y
      <3>5. SubSeq(a, 1, i) \o (<<a[i + 1]>> \o y) = SubSeq(a, 1, i + 1) \o y
        BY ONLY <3>2, <3>3, <3>4, OneMore, Zenon
      <3> QED
        BY <3>5 DEF y
    <2>10. f[1] = SubSeq(a, 1, i) \o f[p]
      BY <1>9 DEF p
    <2>11. f[1] = SubSeq(a, 1, i + 1) \o f[q]
      BY <2>7, <2>9, <2>10 DEF c
    <2> QED
      BY <2>3, <2>11
  <1>10. Good(N)
    <2> HIDE DEF Good
    <2> SUFFICES ASSUME ~ Good(N) PROVE FALSE
      OBVIOUS
    <2>1. bad # {} /\ bad \in SUBSET Nat
      BY <1>2
    <2>2. PICK n \in bad : \A k \in bad : n =< k
      BY <2>1, LeastNumber
    <2>3. n # 0 /\ n - 1 \in 0 .. N - 1 /\ (n - 1) + 1 = n /\ n \in 0 .. N
      BY <1>2, <1>8, <2>2
    <2>4. Good(n - 1)
      BY <1>2, <2>2, <2>3
    <2>5. Good((n - 1) + 1)
      BY <1>9, <2>3, <2>4
    <2> QED
      BY <2>2, <2>3, <2>5
  <1>11. SubSeq(a, 1, N) = a
    BY SubSeqFull
  <1> QED
    BY <1>0, <1>1, <1>4, <1>10, <1>11

\* A reference is a "$", an opening bracket, the name and a closing bracket.
LEMMA VarRefIs ==
  ASSUME NEW n \in EnvNames
  PROVE  /\ VarRef(n) \in Seq(Chars) /\ Len(n) \in Nat /\ Len(VarRef(n)) = Len(n) + 3
         /\ VarRef(n)[1] = "$" /\ VarRef(n)[2] = "(" /\ VarRef(n)[Len(n) + 3] = ")"
         /\ \A k \in 1 .. Len(n) : VarRef(n)[2 + k] = n[k] /\ n[k] # ")"
  <1> DEFINE a == "$"
             b == "("
             c == ")"
             x == <<a, b>>
             y == <<c>>
  <1>1. a \in Chars /\ b \in Chars /\ c \in Chars
    BY EnvAssumption
  <1>2. n \in Seq(Chars) /\ \A k \in 1 .. Len(n) : n[k] # c
    <2>1. n \in Seq(Letter) /\ Letter \subseteq Chars
      BY DEF EnvNames, Letter
    <2>2. \A k \in 1 .. Len(n) : n[k] \in Letter
      BY <2>1
    <2>3. n \in Seq(Chars)
      BY <2>1, SeqMonotonic
    <2> QED
      BY <2>2, <2>3 DEF Letter
  <1>3. VarRef(n) = x \o n \o y
    BY DEF VarRef
  <1> HIDE DEF a, b, c
  <1>4. x \in Seq(Chars) /\ Len(x) = 2 /\ x[1] = a /\ x[2] = b
    BY <1>1
  <1>5. y \in Seq(Chars) /\ Len(y) = 1 /\ y[1] = c
    BY <1>1
  <1> HIDE DEF x, y
  <1>6. /\ x \o n \in Seq(Chars) /\ Len(n) \in Nat /\ Len(x \o n) = 2 + Len(n)
        /\ (x \o n)[1] = a /\ (x \o n)[2] = b
        /\ \A k \in 1 .. Len(n) : (x \o n)[2 + k] = n[k]
    <2>1. /\ x \o n \in Seq(Chars) /\ Len(n) \in Nat /\ Len(x \o n) = Len(x) + Len(n)
          /\ \A k \in 1 .. Len(x) : (x \o n)[k] = x[k]
          /\ \A k \in 1 .. Len(n) : (x \o n)[Len(x) + k] = n[k]
      <3>1. x \in Seq(Chars) /\ n \in Seq(Chars)
        BY <1>2, <1>4
      <3> QED
        BY ONLY <3>1, BehindIt
    <2>2. 1 \in 1 .. Len(x) /\ 2 \in 1 .. Len(x)
      BY <1>4
    <2> QED
      BY <1>4, <2>1, <2>2
  <1> DEFINE z == x \o n
  <1>7. z \in Seq(Chars) /\ Len(z) = 2 + Len(n) /\ VarRef(n) = z \o y
    BY <1>3, <1>6
  <1>8. \A k \in 1 .. Len(n) : 2 + k \in 1 .. Len(z) /\ z[2 + k] = n[k]
    BY <1>6, <1>7
  <1>9. 1 \in 1 .. Len(z) /\ 2 \in 1 .. Len(z) /\ z[1] = a /\ z[2] = b
    BY <1>6, <1>7
  <1> HIDE DEF z
  <1>10. /\ z \o y \in Seq(Chars) /\ Len(z \o y) = Len(z) + 1 /\ (z \o y)[Len(z) + 1] = c
         /\ \A k \in 1 .. Len(z) : (z \o y)[k] = z[k]
    <2>1. 1 \in 1 .. Len(y)
      BY <1>5
    <2>2. z \in Seq(Chars) /\ y \in Seq(Chars)
      BY <1>5, <1>7
    <2>3. /\ z \o y \in Seq(Chars) /\ Len(z \o y) = Len(z) + Len(y)
          /\ \A k \in 1 .. Len(z) : (z \o y)[k] = z[k]
          /\ \A k \in 1 .. Len(y) : (z \o y)[Len(z) + k] = y[k]
      BY ONLY <2>2, BehindIt
    <2> QED
      BY <1>5, <2>1, <2>3
  <1>11. Len(z) + 1 = Len(n) + 3
    BY <1>6, <1>7
  <1>12. VarRef(n) \in Seq(Chars) /\ Len(VarRef(n)) = Len(n) + 3 /\ VarRef(n)[Len(n) + 3] = c
    BY <1>7, <1>10, <1>11
  <1>13. VarRef(n)[1] = a /\ VarRef(n)[2] = b /\ \A k \in 1 .. Len(n) : VarRef(n)[2 + k] = n[k]
    BY <1>7, <1>8, <1>9, <1>10
  <1> QED
    BY <1>2, <1>6, <1>12, <1>13 DEF a, b, c

\* What comes out for a reference: the value, or the reference as it stands.
LEMMA ReferencePiece ==
  ASSUME NEW t \in Seq(Chars), NEW env, NEW n \in EnvNames, NEW l \in Nat, Len(t) = l + (Len(n) + 3),
         \A k \in 1 .. Len(n) + 3 : t[l + k] = VarRef(n)[k]
  PROVE  Piece(t, l + 1, env) = [text |-> IF n \in DOMAIN env THEN env[n] ELSE VarRef(n), next |-> Len(t) + 1]
  <1> DEFINE close == {j \in l + 1 + 1 + 1 .. Len(t) : t[j] = ")"}
             first == CHOOSE j \in close : \A k \in close : j <= k
             r == TryReadVariableName(t, l + 1 + 1)
  <1>1. Len(n) \in Nat /\ n \in Seq(Letter)
    BY VarRefIs DEF EnvNames
  <1>2. t[l + 1] = "$" /\ t[l + 2] = "(" /\ t[Len(t)] = ")"
    <2>1. 1 \in 1 .. Len(n) + 3 /\ 2 \in 1 .. Len(n) + 3 /\ Len(n) + 3 \in 1 .. Len(n) + 3
      BY <1>1
    <2> QED
      BY <2>1, VarRefIs
  <1>3. \A k \in 1 .. Len(n) : t[l + 2 + k] = n[k] /\ n[k] # ")"
    <2> SUFFICES ASSUME NEW k \in 1 .. Len(n) PROVE t[l + 2 + k] = n[k] /\ n[k] # ")"
      OBVIOUS
    <2>1. 2 + k \in 1 .. Len(n) + 3 /\ l + (2 + k) = l + 2 + k
      BY <1>1
    <2>2. t[l + (2 + k)] = VarRef(n)[2 + k]
      BY <2>1
    <2>3. VarRef(n)[2 + k] = n[k] /\ n[k] # ")"
      BY VarRefIs
    <2> QED
      BY <2>1, <2>2, <2>3
  <1>4. close = {Len(t)}
    <2>1. Len(t) \in close
      BY <1>1, <1>2
    <2>2. ASSUME NEW j \in close PROVE j = Len(t)
      <3>1. CASE j \in l + 3 .. Len(t) - 1
        <4> DEFINE k == j - l - 2
        <4>1. k \in 1 .. Len(n) /\ l + 2 + k = j
          <5> DEFINE m == Len(n)
                     mt == Len(t)
          <5>1. m \in Nat /\ mt = l + (m + 3) /\ j \in l + 3 .. mt - 1
            BY <1>1, <3>1
          <5> HIDE DEF m, mt, close
          <5>2. k \in 1 .. m /\ l + 2 + k = j
            BY <5>1
          <5> QED
            BY <5>2 DEF m
        <4> HIDE DEF k
        <4>2. t[j] # ")"
          BY <1>3, <4>1
        <4> QED
          BY <2>2, <4>2
      <3>2. CASE ~ (j \in l + 3 .. Len(t) - 1)
        <4> DEFINE mt == Len(t)
        <4>1. j \in l + 3 .. mt /\ mt \in Int /\ ~ (j \in l + 3 .. mt - 1)
          BY <1>1, <2>2, <3>2
        <4> HIDE DEF mt, close
        <4>2. j = mt
          BY <4>1
        <4> QED
          BY <4>2 DEF mt
      <3> QED
        BY <3>1, <3>2
    <2> QED
      BY <2>1, <2>2
  <1>5. first = Len(t)
    <2> HIDE DEF close
    <2>1. \E j \in close : \A k \in close : j <= k
      BY <1>4
    <2>2. first \in close
      BY <2>1
    <2> QED
      BY <1>4, <2>2
  <1>6. r = [read |-> SubSeq(t, l + 1 + 1 + 1, first - 1), isVar |-> TRUE, next |-> first + 1]
    <2>1. t[l + 1 + 1] = "(" /\ t[l + 1 + 1] # "$" /\ close # {}
      <3>1. l + 1 + 1 = l + 2
        OBVIOUS
      <3>2. close # {}
        <4> HIDE DEF close
        <4> QED
          BY <1>4
      <3> QED
        BY <1>2, <3>1, <3>2
    <2> QED
      BY <2>1 DEF TryReadVariableName
  <1> HIDE DEF first, r
  <1>7. SubSeq(t, l + 1 + 1 + 1, first - 1) = n
    <2> DEFINE w == SubSeq(t, l + 3, Len(t) - 1)
    <2>1. /\ w \in Seq(Chars) /\ Len(w) = Len(n)
          /\ \A k \in 1 .. Len(n) : w[k] = t[l + 2 + k]
      <3>1. l + 3 \in Int /\ Len(t) - 1 \in Int /\ \A k \in l + 3 .. Len(t) - 1 : t[k] \in Chars
        BY <1>1
      <3>2. /\ w \in Seq(Chars)
            /\ Len(w) = IF l + 3 <= Len(t) - 1 THEN (Len(t) - 1) - (l + 3) + 1 ELSE 0
            /\ \A k \in 1 .. (Len(t) - 1) - (l + 3) + 1 : w[k] = t[l + 3 + k - 1]
        BY <3>1, SubSeqProperties
      <3> HIDE DEF w
      <3>3. (Len(t) - 1) - (l + 3) + 1 = Len(n) /\ \A k \in 1 .. Len(n) : l + 3 + k - 1 = l + 2 + k
        BY <1>1
      <3>4. Len(w) = Len(n)
        BY <1>1, <3>2
      <3> QED
        BY <3>2, <3>3, <3>4
    <2> HIDE DEF w
    <2>2. n \in Seq(Chars)
      BY <1>1, SeqMonotonic DEF Letter
    <2>3. w = n
      BY <1>3, <2>1, <2>2, SeqEqual
    <2>4. l + 1 + 1 + 1 = l + 3
      OBVIOUS
    <2> QED
      BY <1>5, <2>3, <2>4 DEF w
  <1>8. r.read = n /\ r.isVar = TRUE /\ r.next = Len(t) + 1
    BY <1>5, <1>6, <1>7
  <1>9. l + 1 # Len(t)
    BY <1>1
  <1>10. Piece(t, l + 1, env) = [text |-> CASE ~ r.isVar -> r.read
                                          [] r.isVar /\ r.read \in DOMAIN env -> env[r.read]
                                          [] OTHER -> VarRef(r.read),
                                 next |-> r.next]
    BY <1>2, <1>9 DEF Piece, r
  <1> QED
    BY <1>8, <1>10

LEMMA EscapeTyped ==
  ASSUME NEW a \in Seq(Chars)
  PROVE  Escape(a) \in Seq(Chars)
  <1>1. PICK e \in [0 .. Len(a) -> Seq(Chars)] : Escape(a) = e[Len(a)]
    BY EscapeIs
  <1>2. Len(a) \in 0 .. Len(a)
    OBVIOUS
  <1> QED
    BY <1>1, <1>2

\* Escaped text comes out as it was meant, ...
LEMMA ExpandEscaped ==
  ASSUME NEW a \in Seq(Chars), NEW env, IsEnv(env)
  PROVE  Expand(Escape(a), env) = a
  <1> DEFINE x == Escape(a)
  <1>1. x \in Seq(Chars)
    BY EscapeTyped
  <1>2. <<>> \in Seq(Chars) /\ x \o <<>> = x
    BY <1>1
  <1>3. PICK f : Solves(f, x, env) /\ Expand(x, env) = f[1]
    BY <1>1, ExpandIs
  <1>4. f[1] = a \o f[Len(x) + 1]
    <2>1. x = Escape(a) \o <<>>
      BY <1>2
    <2> QED
      <3>1. <<>> \in Seq(Chars)
        BY <1>2
      <3> HIDE DEF x
      <3>2. Solves(f, Escape(a) \o <<>>, env)
        BY <1>3, <2>1
      <3>3. f[1] = a \o f[Len(Escape(a)) + 1]
        BY <3>1, <3>2, EscapedBack
      <3> QED
        BY <3>3 DEF x
  <1>5. a \o <<>> = a
    OBVIOUS
  <1> QED
    BY <1>3, <1>4, <1>5 DEF Solves

\* ... and so does a reference behind it.
LEMMA ExpandReference ==
  ASSUME NEW a \in Seq(Chars), NEW env, IsEnv(env), NEW n \in EnvNames
  PROVE  Expand(Escape(a) \o VarRef(n), env) = a \o (IF n \in DOMAIN env THEN env[n] ELSE VarRef(n))
  <1> DEFINE x == Escape(a)
             r == VarRef(n)
             t == x \o r
             v == IF n \in DOMAIN env THEN env[n] ELSE VarRef(n)
             l == Len(x)
  <1>1. x \in Seq(Chars) /\ r \in Seq(Chars) /\ Len(n) \in Nat /\ Len(r) = Len(n) + 3
    BY EscapeTyped, VarRefIs
  <1>2. v \in EnvValues
    BY <1>1, Texts DEF IsEnv
  <1> HIDE DEF x, r
  <1>3. t \in Seq(Chars) /\ l \in Nat /\ Len(t) = l + (Len(n) + 3) /\ \A k \in 1 .. Len(n) + 3 : t[l + k] = r[k]
    BY <1>1, BehindIt
  <1> HIDE DEF t
  <1>4. PICK f : Solves(f, t, env) /\ Expand(t, env) = f[1]
    BY <1>3, ExpandIs
  <1>5. f[1] = a \o f[l + 1]
    <2>1. t = Escape(a) \o r
      BY DEF t, x
    <2>2. f[1] = a \o f[Len(Escape(a)) + 1]
      <3>1. r \in Seq(Chars)
        BY <1>1
      <3>2. Solves(f, Escape(a) \o r, env)
        BY <1>4, <2>1
      <3> QED
        BY <3>1, <3>2, EscapedBack
    <2> QED
      BY <2>2 DEF x
  <1>6. Piece(t, l + 1, env) = [text |-> v, next |-> Len(t) + 1]
    <2>1. \A k \in 1 .. Len(n) + 3 : t[l + k] = VarRef(n)[k]
      BY <1>3 DEF r
    <2> QED
      BY <1>3, <2>1, ReferencePiece
  <1> HIDE DEF v, l
  <1>7. f[l + 1] = v \o <<>>
    <2>1. l + 1 \in 1 .. Len(t)
      BY <1>1, <1>3
    <2>2. Piece(t, l + 1, env).text = v /\ Piece(t, l + 1, env).next = Len(t) + 1
      BY <1>6
    <2> QED
      BY <1>4, <2>1, <2>2 DEF Solves
  <1>8. v \o <<>> = v
    BY <1>2, ConcatEmptySeq DEF EnvValues
  <1> QED
    BY <1>4, <1>5, <1>7, <1>8 DEF t, x, r, v

(***************************************************************************)
(* The environment of a container: assembling it.                          *)
(***************************************************************************)
\* The state the environment is assembled from.
Gathered ==
  /\ spec \in EnvSpecs
  /\ podIp \in {<<>>, <<"9">>}
  /\ loaded \in [EnvObjects -> EnvContents \cup {Absent}]
  /\ IsEnv(services)

\* A key behind a prefix is found again.
LEMMA Behind ==
  ASSUME NEW p \in EnvNames, NEW k \in EnvNames
  PROVE  SubSeq(p \o k, Len(p) + 1, Len(p \o k)) = k
  <1> DEFINE n == p \o k
             w == SubSeq(n, Len(p) + 1, Len(n))
             L == Letter
  <1>1. p \in Seq(L) /\ k \in Seq(L)
    BY DEF EnvNames
  <1> HIDE DEF L
  <1>2. n \in Seq(L) /\ Len(p) \in Nat /\ Len(k) \in Nat /\ Len(n) = Len(p) + Len(k) /\ \A i \in 1 .. Len(k) : n[Len(p) + i] = k[i]
    BY <1>1, BehindIt
  <1> HIDE DEF n
  <1>3. Len(p) + 1 \in Int /\ Len(n) \in Int /\ \A i \in Len(p) + 1 .. Len(n) : n[i] \in L
    BY <1>2
  <1>4. /\ w \in Seq(L)
        /\ Len(w) = IF Len(p) + 1 <= Len(n) THEN Len(n) - (Len(p) + 1) + 1 ELSE 0
        /\ \A i \in 1 .. Len(n) - (Len(p) + 1) + 1 : w[i] = n[Len(p) + 1 + i - 1]
    BY <1>3, SubSeqProperties
  <1> HIDE DEF w
  <1>5. Len(n) - (Len(p) + 1) + 1 = Len(k) /\ \A i \in 1 .. Len(k) : Len(p) + 1 + i - 1 = Len(p) + i
    BY <1>2
  <1>6. Len(w) = Len(k)
    BY <1>2, <1>4
  <1>7. \A i \in 1 .. Len(k) : w[i] = k[i]
    BY <1>2, <1>4, <1>5
  <1>8. w = k
    BY <1>1, <1>4, <1>6, <1>7, SeqEqual
  <1> QED
    BY <1>8 DEF w, n

\* An entry of envFrom gives variables of their kind.
LEMMA FromObjectTyped ==
  ASSUME Gathered, NEW f \in FromRef
  PROVE  IsEnv(FromObject(f))
  <1> DEFINE c == loaded[f.object]
  <1>1. f.object \in EnvObjects /\ f.prefix \in EnvNames
    BY DEF FromRef
  <1>2. c \in EnvContents \cup {Absent}
    BY <1>1 DEF Gathered
  <1>3. CASE c = Absent
    BY <1>3, OneTyped DEF FromObject
  <1>4. CASE c # Absent
    <2> DEFINE names == {f.prefix \o k : k \in DOMAIN c}
               val(n) == c[SubSeq(n, Len(f.prefix) + 1, Len(n))]
    <2>1. DOMAIN c \subseteq EnvNames /\ \A k \in DOMAIN c : c[k] \in Seq(Chars)
      BY <1>2, <1>4, EnvAssumption
    <2>2. FromObject(f) = [n \in names |-> val(n)]
      BY <1>4 DEF FromObject
    <2>3. \A n \in names : n \in EnvNames /\ val(n) \in EnvValues
      <3> SUFFICES ASSUME NEW k \in DOMAIN c
                   PROVE  f.prefix \o k \in EnvNames /\ val(f.prefix \o k) \in EnvValues
        OBVIOUS
      <3>1. k \in EnvNames /\ c[k] \in EnvValues
        BY <2>1, Texts
      <3> HIDE DEF c
      <3>2. SubSeq(f.prefix \o k, Len(f.prefix) + 1, Len(f.prefix \o k)) = k
        BY <1>1, <3>1, Behind
      <3> QED
        BY <1>1, <3>1, <3>2, Texts
    <2> HIDE DEF names, val
    <2> QED
      BY <2>2, <2>3 DEF IsEnv
  <1> QED
    BY <1>3, <1>4

\* So do the variables of a container before its own.
LEMMA EnvFromIs ==
  ASSUME Gathered
  PROVE  /\ spec.envFrom \in Seq(FromRef)
         /\ IsEnv(EnvFrom)
         /\ LastCounts(EnvFrom, services, [i \in DOMAIN spec.envFrom |-> FromObject(spec.envFrom[i])], Len(spec.envFrom))
  <1> DEFINE ef == spec.envFrom
             N == Len(ef)
             s == [i \in DOMAIN ef |-> FromObject(ef[i])]
  <1>1. ef \in Seq(FromRef)
    BY EnvAssumption DEF Gathered
  <1>2. EnvFrom = OverAll(services, s)
    BY DEF EnvFrom
  <1> HIDE DEF ef
  <1>3. N \in Nat /\ DOMAIN ef = 1 .. N /\ \A i \in 1 .. N : ef[i] \in FromRef
    BY <1>1
  <1>4. s = [i \in 1 .. N |-> FromObject(ef[i])]
    BY <1>3
  <1>5. Len(s) = N /\ \A i \in 1 .. N : s[i] = FromObject(ef[i])
    BY <1>3, <1>4
  <1> HIDE DEF s, N
  <1>6. \A i \in 1 .. Len(s) : IsEnv(s[i])
    BY <1>3, <1>5, FromObjectTyped
  <1>7. IsEnv(services)
    BY DEF Gathered
  <1>8. IsEnv(OverAll(services, s))
    BY <1>3, <1>5, <1>6, <1>7, OverAllTyped
  <1>9. LastCounts(OverAll(services, s), services, s, N)
    BY <1>3, <1>5, OverAllLast
  <1> QED
    BY <1>1, <1>2, <1>8, <1>9 DEF N, s, ef

\* The value of a variable of the container is a value.
LEMMA EnvValueTyped ==
  ASSUME Gathered, NEW i \in 1 .. Len(spec.env), NEW env, IsEnv(env)
  PROVE  spec.env[i].name \in EnvNames /\ EnvValue(spec.env[i], env) \in EnvValues
  <1> DEFINE v == spec.env[i]
  <1>1. spec.env \in Seq(EnvVar)
    BY EnvAssumption DEF Gathered
  <1>2. v \in EnvVar /\ i \in DOMAIN spec.env
    BY <1>1
  <1>3. v.name \in EnvNames /\ v.raw \in Seq(Chars) /\ v.object \in EnvObjects /\ v.from \in {"value", "podIP", "cpu", "field", "key"}
    BY <1>2 DEF EnvVar
  <1>4. <<>> \in EnvValues
    BY DEF EnvValues
  <1>5. CASE v.from = "value"
    <2>1. EnvValue(v, env) = Expand(v.raw, env)
      BY <1>5 DEF EnvValue
    <2> QED
      BY <1>3, <2>1, ExpandTyped
  <1>6. CASE v.from = "podIP"
    <2>1. EnvValue(v, env) = PodIpValue
      BY <1>6 DEF EnvValue
    <2>2. <<"9">> \in EnvValues
      <3> DEFINE d == "9"
      <3>1. d \in Chars
        BY EnvAssumption
      <3> HIDE DEF d
      <3>2. <<d>> \in Seq(Chars)
        BY <3>1
      <3> QED
        BY <3>2, Texts DEF d
    <2>3. NodeIp \in EnvValues
      BY EnvAssumption, Texts
    <2>4. PodIpValue \in EnvValues
      BY <1>4, <2>2, <2>3 DEF PodIpValue, Gathered
    <2> QED
      BY <1>3, <2>1, <2>4
  <1>7. CASE v.from = "cpu"
    <2> DEFINE m == Fields[v.field]
    <2>1. EnvValue(v, env) = <<Cores(m)>>
      BY <1>7 DEF EnvValue
    <2>2. m \in Nat
      BY <1>2, <1>7, EnvAssumption DEF Gathered
    <2> HIDE DEF m
    <2>3. Cores(m) \in Nat
      BY <2>2 DEF Cores
    <2>4. <<Cores(m)>> \in EnvValues
      <3> DEFINE k == Cores(m)
      <3>1. k \in Chars \cup Nat
        BY <2>3
      <3> HIDE DEF k
      <3>2. <<k>> \in Seq(Chars \cup Nat)
        BY <3>1
      <3> QED
        BY <3>2 DEF k, EnvValues
    <2> QED
      BY <1>3, <2>1, <2>4
  <1>8. CASE v.from = "field"
    <2>1. EnvValue(v, env) = ResolveFieldRef(v.field)
      BY <1>8 DEF EnvValue
    <2>2. v.field \in DOMAIN Fields => Fields[v.field] \in Seq(Chars)
      BY <1>2, <1>8, EnvAssumption DEF Gathered
    <2>3. ResolveFieldRef(v.field) \in EnvValues
      BY <1>4, <2>2, Texts DEF ResolveFieldRef
    <2> QED
      BY <1>3, <2>1, <2>3
  <1>9. CASE v.from = "key"
    <2>1. EnvValue(v, env) = IF Missing(v) THEN <<>> ELSE loaded[v.object][v.key]
      BY <1>9 DEF EnvValue
    <2>2. ~ Missing(v) => loaded[v.object] # Absent /\ v.key \in DOMAIN loaded[v.object]
      BY <1>9 DEF Missing
    <2>3. loaded[v.object] \in EnvContents \cup {Absent}
      BY <1>3 DEF Gathered
    <2>4. ~ Missing(v) => loaded[v.object][v.key] \in EnvValues
      BY <2>2, <2>3, EnvAssumption, Texts
    <2> QED
      BY <1>3, <1>4, <2>1, <2>4
  <1> QED
    BY <1>3, <1>5, <1>6, <1>7, <1>8, <1>9

\* The container's own variables come one by one: f[i] is what there is after
\* the first i of them.
OwnLayer(f, i) == One(spec.env[i].name, EnvValue(spec.env[i], f[i - 1]))
OwnLayers(f) == f[0] = EnvFrom /\ \A i \in 1 .. Len(spec.env) : f[i] = Over(f[i - 1], OwnLayer(f, i))

LEMMA OwnIs ==
  ASSUME Len(spec.env) \in Nat
  PROVE  \E f : OwnLayers(f) /\ AssembleContainerEnv = Over(One(HOSTNAME, Hostname), f[Len(spec.env)])
  <1> DEFINE N == Len(spec.env)
             at(g, i) == IF i = 0 THEN EnvFrom ELSE Over(g[i - 1], OwnLayer(g, i))
             body(g, m) == [i \in 0 .. m |-> at(g, i)]
             Able(m) == \E f : f = body(f, m)
             bad == {n \in 0 .. N : ~ Able(n)}
             it == CHOOSE f : f = body(f, N)
  <1>0. N \in Nat
    OBVIOUS
  <1>1. Able(0)
    <2> DEFINE f == [i \in 0 .. 0 |-> EnvFrom]
    <2>1. f = body(f, 0)
      OBVIOUS
    <2> QED
      BY <2>1
  <1>2. ASSUME NEW m \in 0 .. N, m + 1 \in 0 .. N, Able(m)
        PROVE  Able(m + 1)
    <2>1. PICK f : f = body(f, m)
      BY <1>2
    <2> DEFINE x == Over(f[m], OwnLayer(f, m + 1))
               g == [i \in 0 .. m + 1 |-> IF i = m + 1 THEN x ELSE f[i]]
    <2>2. \A i \in 0 .. m : f[i] = at(f, i)
      BY <2>1
    <2> HIDE DEF x
    <2>3. ASSUME NEW i \in 0 .. m + 1
          PROVE  g[i] = at(g, i)
      <3>1. CASE i = m + 1
        <4>1. g[i] = x /\ i # 0 /\ i - 1 = m /\ g[i - 1] = f[m]
          BY <1>0, <1>2, <3>1
        <4> HIDE DEF g
        <4>2. OwnLayer(g, i) = OwnLayer(f, m + 1)
          <5>1. (m + 1) - 1 = m
            BY <1>2
          <5> QED
            BY <3>1, <4>1, <5>1 DEF OwnLayer
        <4> QED
          BY <4>1, <4>2 DEF x
      <3>2. CASE i # m + 1
        <4>1. i \in 0 .. m /\ g[i] = f[i] /\ (i # 0 => g[i - 1] = f[i - 1])
          BY <1>0, <1>2, <3>2
        <4> HIDE DEF g
        <4>2. i # 0 => OwnLayer(g, i) = OwnLayer(f, i)
          BY <4>1 DEF OwnLayer
        <4> QED
          BY <2>2, <4>1, <4>2
      <3> QED
        BY <3>1, <3>2
    <2>4. g = body(g, m + 1)
      BY <2>3
    <2> QED
      BY <2>4
  <1>3. Able(N)
    <2> HIDE DEF Able, N
    <2> SUFFICES ASSUME ~ Able(N) PROVE FALSE
      OBVIOUS
    <2>1. bad # {} /\ bad \in SUBSET Nat
      BY <1>0
    <2>2. PICK n \in bad : \A k \in bad : n =< k
      BY <2>1, LeastNumber
    <2>3. n # 0 /\ n - 1 \in 0 .. N /\ (n - 1) + 1 = n /\ n \in 0 .. N
      BY <1>0, <1>1, <2>2
    <2>4. Able(n - 1)
      BY <1>0, <2>2, <2>3
    <2> QED
      BY <1>2, <2>2, <2>3, <2>4
  <1>4. it = body(it, N)
    BY <1>3
  <1>5. AssembleContainerEnv = Over(One(HOSTNAME, Hostname), it[N])
    BY DEF AssembleContainerEnv, OwnLayer
  <1> HIDE DEF it
  <1>6. it[0] = EnvFrom /\ \A i \in 1 .. N : it[i] = Over(it[i - 1], OwnLayer(it, i))
    BY <1>0, <1>4
  <1> QED
    BY <1>5, <1>6 DEF OwnLayers

\* Each of them has names and values of their kind.
LEMMA OwnTyped ==
  ASSUME Gathered, NEW f, OwnLayers(f), Len(spec.env) \in Nat
  PROVE  \A i \in 0 .. Len(spec.env) : IsEnv(f[i])
  <1> DEFINE N == Len(spec.env)
             bad == {i \in 0 .. N : ~ IsEnv(f[i])}
  <1>1. N \in Nat
    OBVIOUS
  <1>2. IsEnv(f[0])
    BY EnvFromIs DEF OwnLayers
  <1>3. ASSUME NEW i \in 1 .. N, IsEnv(f[i - 1])
        PROVE  IsEnv(f[i])
    <2>1. spec.env[i].name \in EnvNames /\ EnvValue(spec.env[i], f[i - 1]) \in EnvValues
      BY <1>3, EnvValueTyped
    <2>2. IsEnv(OwnLayer(f, i))
      BY <2>1, OneTyped DEF OwnLayer
    <2>3. f[i] = Over(f[i - 1], OwnLayer(f, i))
      BY DEF OwnLayers
    <2> QED
      BY <1>3, <2>2, <2>3, OverTyped
  <1> HIDE DEF N
  <1>4. bad = {}
    <2> SUFFICES ASSUME bad # {} PROVE FALSE
      OBVIOUS
    <2>1. bad \in SUBSET Nat
      BY <1>1
    <2>2. PICK i \in bad : \A k \in bad : i =< k
      BY <2>1, LeastNumber
    <2>3. i \in 1 .. N /\ i - 1 \in 0 .. N
      BY <1>1, <1>2, <2>2
    <2>4. i - 1 \notin bad
      <3>1. ~ (i =< i - 1)
        BY <2>3
      <3> HIDE DEF bad
      <3> QED
        BY <2>2, <3>1
    <2>5. IsEnv(f[i - 1])
      BY <2>3, <2>4
    <2> QED
      BY <1>3, <2>2, <2>3, <2>5
  <1> QED
    BY <1>4 DEF N

\* What a container is created with: EnvIsAsSpecified of what Assemble lays out.
AsSpecified(out) ==
  /\ \A n \in DOMAIN services \cup {spec.env[i].name : i \in DOMAIN spec.env} \cup {HOSTNAME} : n \in DOMAIN out
  /\ \A n \in DOMAIN out :
       LET v == spec.env[LastOf(OwnAt(n))]
       IN  CASE OwnAt(n) # {} -> v.from = "key" /\ ~Missing(v) => out[n] = loaded[v.object][v.key]
             [] OwnAt(n) = {} /\ FromAt(n) # {} -> out[n] = FromObject(spec.envFrom[LastOf(FromAt(n))])[n]
             [] OwnAt(n) = {} /\ FromAt(n) = {} /\ n \in DOMAIN services -> out[n] = services[n]
             [] OTHER -> n = HOSTNAME /\ out[n] = Hostname

LEMMA LastOne ==
  ASSUME NEW S \in SUBSET Nat, NEW i \in S, \A j \in S : j =< i
  PROVE  LastOf(S) = i
  <1>1. \A k \in S : (\A j \in S : j =< k) => k = i
    OBVIOUS
  <1> QED
    BY <1>1 DEF LastOf

LEMMA AssembledIs ==
  ASSUME Gathered
  PROVE  IsEnv(AssembleContainerEnv) /\ AsSpecified(AssembleContainerEnv)
  <1> DEFINE N == Len(spec.env)
             M == Len(spec.envFrom)
             out == AssembleContainerEnv
             host == One(HOSTNAME, Hostname)
             from == [i \in DOMAIN spec.envFrom |-> FromObject(spec.envFrom[i])]
  <1>1. spec.env \in Seq(EnvVar) /\ N \in Nat /\ DOMAIN spec.env = 1 .. N
    <2>1. spec.env \in Seq(EnvVar)
      BY EnvAssumption DEF Gathered
    <2> QED
      BY <2>1
  <1>2. M \in Nat /\ DOMAIN spec.envFrom = 1 .. M /\ IsEnv(EnvFrom) /\ LastCounts(EnvFrom, services, from, M)
    <2>1. spec.envFrom \in Seq(FromRef) /\ IsEnv(EnvFrom) /\ LastCounts(EnvFrom, services, from, M)
      BY EnvFromIs
    <2> HIDE DEF from
    <2> QED
      BY <2>1
  <1>3. PICK f : OwnLayers(f) /\ out = Over(host, f[N])
    BY <1>1, OwnIs
  <1> DEFINE own == [i \in 1 .. N |-> OwnLayer(f, i)]
             r == f[N]
  <1>4. LastCounts(r, EnvFrom, own, N)
    <2>1. \A i \in 1 .. N : own[i] = OwnLayer(f, i)
      OBVIOUS
    <2> HIDE DEF own
    <2>2. Layers(f, EnvFrom, own, N)
      BY <1>3, <2>1 DEF Layers, OwnLayers
    <2> QED
      BY <1>1, <2>2, LastLayer
  <1>5. IsEnv(r)
    BY <1>1, <1>3, OwnTyped
  <1> HIDE DEF out, host
  <1>6. IsEnv(out)
    <2>1. HOSTNAME \in EnvNames /\ Hostname \in EnvValues
      BY EnvAssumption, Texts
    <2>2. IsEnv(host)
      BY <2>1, OneTyped DEF host
    <2> QED
      BY <1>3, <1>5, <2>2, OverTyped
  <1>7. /\ DOMAIN out = {HOSTNAME} \cup DOMAIN r
        /\ \A n \in DOMAIN r : out[n] = r[n]
        /\ HOSTNAME \notin DOMAIN r => out[HOSTNAME] = Hostname
    BY <1>3 DEF Over, One, host
  <1> HIDE DEF r
  <1>8. \A i \in 1 .. N : own[i] = OwnLayer(f, i) /\ DOMAIN own[i] = {spec.env[i].name}
    BY DEF OwnLayer, One
  <1>9. \A i \in 1 .. M : from[i] = FromObject(spec.envFrom[i])
    BY <1>2
  <1> HIDE DEF own, from, N, M
  <1>10. ASSUME NEW n
         PROVE  OwnAt(n) = {i \in 1 .. N : n \in DOMAIN own[i]} /\ FromAt(n) = {i \in 1 .. M : n \in DOMAIN from[i]}
    BY <1>1, <1>2, <1>8, <1>9 DEF OwnAt, FromAt
  <1>11. \A n : n \in DOMAIN EnvFrom <=> n \in DOMAIN services \/ FromAt(n) # {}
    BY <1>2, <1>10 DEF LastCounts
  <1>12. \A n : n \in DOMAIN r <=> n \in DOMAIN EnvFrom \/ OwnAt(n) # {}
    BY <1>4, <1>10 DEF LastCounts
  <1>13. ASSUME NEW n \in DOMAIN out, OwnAt(n) # {}
         PROVE  LET v == spec.env[LastOf(OwnAt(n))] IN v.from = "key" /\ ~Missing(v) => out[n] = loaded[v.object][v.key]
    <2>1. PICK i \in 1 .. N : n \in DOMAIN own[i] /\ r[n] = own[i][n] /\ \A j \in 1 .. N : n \in DOMAIN own[j] => j =< i
      BY <1>4, <1>10, <1>13 DEF LastCounts
    <2>2. LastOf(OwnAt(n)) = i
      <3>1. OwnAt(n) \in SUBSET Nat /\ i \in OwnAt(n) /\ \A j \in OwnAt(n) : j =< i
        BY <1>1, <1>10, <2>1
      <3> QED
        BY <3>1, LastOne
    <2> DEFINE v == spec.env[i]
    <2>3. own[i][n] = EnvValue(v, f[i - 1])
      BY <1>8, <2>1 DEF OwnLayer, One
    <2>4. v.from = "key" /\ ~ Missing(v) => EnvValue(v, f[i - 1]) = loaded[v.object][v.key]
      BY DEF EnvValue
    <2>5. out[n] = r[n]
      BY <1>7, <1>12, <1>13
    <2> QED
      BY <2>1, <2>2, <2>3, <2>4, <2>5
  <1>14. ASSUME NEW n, OwnAt(n) = {}, n \in DOMAIN EnvFrom
         PROVE  out[n] = EnvFrom[n]
    <2>1. r[n] = EnvFrom[n]
      BY <1>4, <1>10, <1>14 DEF LastCounts
    <2> QED
      BY <1>7, <1>12, <1>14, <2>1
  <1>15. ASSUME NEW n, OwnAt(n) = {}, FromAt(n) # {}
         PROVE  out[n] = FromObject(spec.envFrom[LastOf(FromAt(n))])[n]
    <2>1. PICK i \in 1 .. M : n \in DOMAIN from[i] /\ EnvFrom[n] = from[i][n] /\ \A j \in 1 .. M : n \in DOMAIN from[j] => j =< i
      BY <1>2, <1>10, <1>15 DEF LastCounts
    <2>2. LastOf(FromAt(n)) = i
      <3>1. FromAt(n) \in SUBSET Nat /\ i \in FromAt(n) /\ \A j \in FromAt(n) : j =< i
        BY <1>2, <1>10, <2>1
      <3> QED
        BY <3>1, LastOne
    <2> QED
      BY <1>9, <1>11, <1>14, <1>15, <2>1, <2>2
  <1>16. ASSUME NEW n, OwnAt(n) = {}, FromAt(n) = {}, n \in DOMAIN services
         PROVE  out[n] = services[n]
    <2>1. EnvFrom[n] = services[n]
      BY <1>2, <1>10, <1>16 DEF LastCounts
    <2> QED
      BY <1>11, <1>14, <1>16, <2>1
  <1>17. ASSUME NEW n \in DOMAIN out, OwnAt(n) = {}, FromAt(n) = {}, n \notin DOMAIN services
         PROVE  n = HOSTNAME /\ out[n] = Hostname
    BY <1>7, <1>11, <1>12, <1>17
  <1>18. \A n \in DOMAIN services \cup {spec.env[i].name : i \in DOMAIN spec.env} \cup {HOSTNAME} : n \in DOMAIN out
    BY <1>7, <1>11, <1>12 DEF OwnAt
  <1>19. AsSpecified(out)
    BY <1>13, <1>15, <1>16, <1>17, <1>18 DEF AsSpecified
  <1> QED
    BY <1>6, <1>19 DEF out

\* What is fetched is of its kind at every moment, and a container that was
\* created was created with what its spec says, from what was fetched.
EnvInv ==
  /\ Gathered
  /\ store \in [EnvObjects -> EnvContents \cup {Absent}]
  /\ envPc = "created" => IsEnv(envOut) /\ arg \in Seq(Chars)
  /\ EnvIsAsSpecified

LEMMA EnvInvInit == EnvInit => EnvInv
  <1> SUFFICES ASSUME EnvInit PROVE EnvInv
    OBVIOUS
  <1>1. Gathered
    BY OneTyped DEF EnvInit, Gathered
  <1>2. store \in [EnvObjects -> EnvContents \cup {Absent}]
    BY DEF EnvInit
  <1>3. envPc # "created"
    BY DEF EnvInit
  <1> QED
    BY <1>1, <1>2, <1>3 DEF EnvInv, EnvIsAsSpecified

\* A step before the end keeps the state of its kind.
LEMMA GatherStep ==
  ASSUME EnvInv, EnvNext
  PROVE  Gathered' /\ store' \in [EnvObjects -> EnvContents \cup {Absent}]
  <1> USE DEF EnvInv, Gathered
  <1>1. CASE Begin
    BY <1>1 DEF Begin
  <1>2. CASE Load
    <2>1. UNCHANGED <<spec, store, services, podIp>>
      BY <1>2 DEF Load
    <2>2. loaded' \in [EnvObjects -> EnvContents \cup {Absent}]
      <3> DEFINE o == Head(loads).object
      <3>1. loaded' = loaded \/ loaded' = [loaded EXCEPT ![o] = store[o]]
        BY <1>2 DEF Load, LoadSingle
      <3> HIDE DEF o
      <3> QED
        BY <3>1
    <2> QED
      BY <2>1, <2>2
  <1>3. CASE Loaded
    BY <1>3 DEF Loaded
  <1>4. CASE LoadServices
    <2>1. UNCHANGED <<spec, store, loaded, podIp>>
      BY <1>4 DEF LoadServices
    <2>2. PICK master \in {ServiceEnvVars(Kubernetes), <<>>}, own \in {NamespaceEnv, <<>>} :
            services' = Over(IF spec.links THEN own ELSE <<>>, master)
      BY <1>4 DEF LoadServices
    <2>3. Kubernetes \in Service
      BY EnvAssumption
    <2>4. IsEnv(master) /\ IsEnv(own) /\ IsEnv(<<>>)
      BY <2>3, ServiceTyped, NamespaceTyped, OneTyped
    <2>5. IsEnv(IF spec.links THEN own ELSE <<>>)
      BY <2>4
    <2>6. IsEnv(services')
      BY <2>2, <2>4, <2>5, OverTyped
    <2> QED
      BY <2>1, <2>6 DEF IsEnv
  <1>5. CASE Assemble
    BY <1>5 DEF Assemble
  <1>6. CASE TryAgain
    <2>1. UNCHANGED <<spec, store, podIp>> /\ loaded' = [o \in EnvObjects |-> Absent] /\ services' = <<>>
      BY <1>6 DEF TryAgain
    <2>2. IsEnv(services')
      BY <2>1, OneTyped
    <2> QED
      BY <2>1, <2>2 DEF IsEnv
  <1>7. CASE StoreChanges
    <2>1. UNCHANGED <<spec, loaded, services, podIp>>
      BY <1>7 DEF StoreChanges
    <2>2. store' \in [EnvObjects -> EnvContents \cup {Absent}]
      BY <1>7 DEF StoreChanges
    <2> QED
      BY <2>1, <2>2
  <1> QED
    BY <1>1, <1>2, <1>3, <1>4, <1>5, <1>6, <1>7 DEF EnvNext

\* Only Assemble creates a container.
LEMMA CreatedStep ==
  ASSUME EnvInv, EnvNext
  PROVE  (envPc = "created" => IsEnv(envOut) /\ arg \in Seq(Chars))' /\ EnvIsAsSpecified'
  <1>1. CASE ~ Assemble
    <2>1. envPc' # "created"
      BY <1>1 DEF EnvNext, Begin, Load, LoadSingle, Loaded, LoadServices, TryAgain, StoreChanges
    <2> QED
      BY <2>1 DEF EnvIsAsSpecified
  <1>2. CASE Assemble /\ envPc' # "created"
    BY <1>2 DEF EnvIsAsSpecified
  <1>3. CASE Assemble /\ envPc' = "created"
    <2>1. Gathered
      BY DEF EnvInv
    <2>2. /\ ~ \E i \in DOMAIN spec.envFrom : loaded[spec.envFrom[i].object] = Absent /\ ~spec.envFrom[i].optional
          /\ ~ \E i \in DOMAIN spec.env : Missing(spec.env[i]) /\ ~spec.env[i].optional
          /\ envOut' = AssembleContainerEnv /\ arg' \in Inputs
          /\ UNCHANGED <<spec, loaded, services>>
      BY <1>3 DEF Assemble
    <2>3. IsEnv(envOut') /\ AsSpecified(envOut')
      BY <2>1, <2>2, AssembledIs
    <2>4. arg' \in Seq(Chars)
      <3>1. Inputs \subseteq Seq(Chars)
        BY EnvAssumption
      <3> QED
        BY <2>2, <3>1
    <2>5. ASSUME NEW i \in DOMAIN spec.env, spec.env[i].from = "key", ~ spec.env[i].optional
          PROVE  loaded[spec.env[i].object] # Absent
      BY <2>2, <2>5 DEF Missing
    <2>6. \A n : OwnAt(n)' = OwnAt(n) /\ FromAt(n)' = FromAt(n)
      BY <2>2 DEF OwnAt, FromAt, FromObject
    <2>7. \A f : FromObject(f)' = FromObject(f)
      BY <2>2 DEF FromObject
    <2>8. \A v : Missing(v)' <=> Missing(v)
      BY <2>2 DEF Missing
    <2>9. EnvIsAsSpecified'
      <3>1. \A n \in DOMAIN services' \cup {spec'.env[i].name : i \in DOMAIN spec'.env} \cup {HOSTNAME} : n \in DOMAIN envOut'
        BY <2>2, <2>3 DEF AsSpecified
      <3>2. \A i \in DOMAIN spec'.envFrom : ~spec'.envFrom[i].optional => loaded'[spec'.envFrom[i].object] # Absent
        BY <2>2
      <3>3. \A i \in DOMAIN spec'.env : spec'.env[i].from = "key" /\ ~spec'.env[i].optional => loaded'[spec'.env[i].object] # Absent
        BY <2>2, <2>5
      <3>4. ASSUME NEW n \in DOMAIN envOut'
            PROVE  (LET v == spec.env[LastOf(OwnAt(n))]
                    IN  CASE OwnAt(n) # {} -> v.from = "key" /\ ~Missing(v) => envOut[n] = loaded[v.object][v.key]
                          [] OwnAt(n) = {} /\ FromAt(n) # {} -> envOut[n] = FromObject(spec.envFrom[LastOf(FromAt(n))])[n]
                          [] OwnAt(n) = {} /\ FromAt(n) = {} /\ n \in DOMAIN services -> envOut[n] = services[n]
                          [] OTHER -> n = HOSTNAME /\ envOut[n] = Hostname)'
        BY <2>2, <2>3, <2>6, <2>7, <2>8 DEF AsSpecified
      <3> QED
        BY <3>1, <3>2, <3>3, <3>4 DEF EnvIsAsSpecified
    <2> QED
      BY <2>3, <2>4, <2>9 DEF IsEnv
  <1> QED
    BY <1>1, <1>2, <1>3

LEMMA EnvInvStep == EnvInv /\ [EnvNext]_envVars => EnvInv'
  <1> SUFFICES ASSUME EnvInv, [EnvNext]_envVars PROVE EnvInv'
    OBVIOUS
  <1>1. CASE EnvNext
    <2>1. Gathered' /\ store' \in [EnvObjects -> EnvContents \cup {Absent}]
      BY <1>1, GatherStep
    <2>2. (envPc = "created" => IsEnv(envOut) /\ arg \in Seq(Chars))' /\ EnvIsAsSpecified'
      BY <1>1, CreatedStep
    <2> QED
      BY <2>1, <2>2 DEF EnvInv
  <1>2. CASE UNCHANGED envVars
    <2>1. UNCHANGED <<envPc, spec, store, loaded, services, podIp, envOut, arg>>
      BY <1>2 DEF envVars
    <2>2. Gathered' /\ store' \in [EnvObjects -> EnvContents \cup {Absent}]
      BY <2>1 DEF EnvInv, Gathered
    <2>3. (envPc = "created" => IsEnv(envOut) /\ arg \in Seq(Chars))'
      BY <2>1 DEF EnvInv
    <2>4. (\A n : OwnAt(n)' = OwnAt(n) /\ FromAt(n)' = FromAt(n)) /\ (\A f : FromObject(f)' = FromObject(f))
          /\ \A v : Missing(v)' <=> Missing(v)
      BY <2>1 DEF OwnAt, FromAt, FromObject, Missing
    <2>5. EnvIsAsSpecified'
      BY <2>1, <2>4 DEF EnvInv, EnvIsAsSpecified
    <2> QED
      BY <2>2, <2>3, <2>5 DEF EnvInv
  <1> QED
    BY <1>1, <1>2

\* Expansion is exact in any environment of its kind.
LEMMA ExactExpansion == EnvInv => ExpansionIsExact
  <1> SUFFICES ASSUME EnvInv, envPc = "created" PROVE ExpansionIsExact
    BY DEF ExpansionIsExact
  <1>1. IsEnv(envOut) /\ arg \in Seq(Chars)
    BY DEF EnvInv
  <1>2. Expand(Escape(arg), envOut) = arg
    BY <1>1, ExpandEscaped
  <1>3. \A n \in DOMAIN envOut : Expand(Escape(arg) \o VarRef(n), envOut) = arg \o envOut[n]
    BY <1>1, ExpandReference DEF IsEnv
  <1>4. <<"?">> \in EnvNames
    <2> DEFINE q == "?"
               L == Letter
    <2>1. q \in L
      BY EnvAssumption DEF Letter
    <2> HIDE DEF q, L
    <2>2. <<q>> \in Seq(L)
      BY <2>1
    <2> QED
      BY <2>2 DEF q, L, EnvNames
  <1>5. <<"?">> \notin DOMAIN envOut => Expand(Escape(arg) \o VarRef(<<"?">>), envOut) = arg \o VarRef(<<"?">>)
    BY <1>1, <1>4, ExpandReference
  <1> QED
    BY <1>2, <1>3, <1>5 DEF ExpansionIsExact

\* A container is created with the environment its spec says, whatever happens
\* to the objects it refers to while they are fetched; and any text can be passed
\* to it, with the value of any variable behind it.
THEOREM EnvironmentIsSound == Spec => []EnvSound
  <1>1. Init => EnvInv
    BY EnvInvInit DEF Init
  <1>2. EnvInv /\ [Next]_vars => EnvInv'
    <2> SUFFICES ASSUME EnvInv, [Next]_vars PROVE EnvInv'
      OBVIOUS
    <2>1. [EnvNext]_envVars
      BY DEF Next, vars, Volume, Probe, Pull, Env
    <2> QED
      BY <2>1, EnvInvStep
  <1>3. EnvInv => EnvSound
    BY ExactExpansion DEF EnvInv, EnvSound
  <1> QED
    BY <1>1, <1>2, <1>3, PTL DEF Spec

=============================================================================
