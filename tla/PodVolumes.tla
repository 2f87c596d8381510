----------------------------- MODULE PodVolumes -----------------------------
(***************************************************************************)
(* The volumes of one pod: what ensure_pod_volumes mounts and writes in    *)
(* each sync, the two volume managers behind it, and unmount_pod_volumes.  *)
(* What is mounted is kept in memory alone.  The objects of the API server *)
(* change meanwhile, its calls fail, and the pod's spec may get a volume   *)
(* more.  Syncs of one pod are taken not to overlap.                       *)
(***************************************************************************)
EXTENDS Naturals, Sequences, FiniteSets

CONSTANTS
  Volumes,      \* the volumes the pod may declare
  Pods,         \* the sets of volumes a pod may begin with
  Later,        \* the volume it declares later
  Kind,         \* "tmpfs", "dir", "pvc", "downward", "projected", "configMap" or "secret"
  PvKind,       \* what backs each claim: "local", "csi" or "hostPath"
  Sources,      \* for each volume the sequence of its sources
  Objects,      \* the ConfigMaps and Secrets
  Contents,     \* what an object may hold: [keys -> values], 0 for no such key
  NoData,       \* the object does not exist, or could not be had
  Paths,        \* the files of a volume
  DefaultDriver, \* KUBELET_CSI_DEFAULT_DRIVER is set
  MaxStops      \* bound: restarts of the kubelet

ASSUME VolumeAssumption ==
  /\ Pods \subseteq SUBSET Volumes
  /\ Later \in Volumes
  /\ \A v \in Volumes : \A i \in 1 .. Len(Sources[v]) :
        /\ Sources[v][i].type \in {"configMap", "secret", "token", "downward"}
        /\ Sources[v][i].type = "token" => Sources[v][i].path \in Paths
  /\ MaxStops \in Nat

VARIABLES
  volPc,        \* "down", "idle", "mount", "local", "write" or "ready"
  todo,         \* the requests that are left: of this step of mount_volumes, or to write
  localTodo,    \* those passed on to the local manager
  declared,     \* pod.volumes
  localMounted, csiMounted,   \* the maps of the two managers
  tmpfsPaths,   \* LocalVolumeManager.tmpfs_paths
  tmpfsMounts,  \* the node: tmpfs mounts on the directory of each volume
  object,       \* the API server: what each object holds
  client,       \* there is a kube client
  files,        \* the node: the files of each volume
  got,          \* what the last complete write of each projected volume was given
  stops         \* restarts so far

volumeVars == <<volPc, todo, localTodo, declared, localMounted, csiMounted, tmpfsPaths, tmpfsMounts, object, client, files, got, stops>>
mountVars  == <<localMounted, csiMounted, tmpfsPaths, tmpfsMounts>>
outside    == <<declared, object, client, stops>>

NoFiles  == [p \in Paths |-> 0]
Nothing_ == [o \in Objects |-> NoData]

VolumeTypeOK ==
  /\ volPc \in {"down", "idle", "mount", "local", "write", "ready"}
  /\ todo \cup localTodo \subseteq Volumes
  /\ declared \subseteq Volumes
  /\ localMounted \cup csiMounted \cup tmpfsPaths \subseteq Volumes
  /\ tmpfsMounts \in [Volumes -> 0 .. MaxStops + 1]
  /\ object \in [Objects -> Contents \cup {NoData}]
  /\ client \in BOOLEAN
  /\ files \in [Volumes -> [Paths -> Nat]]
  /\ got \in [Volumes -> [Objects -> Contents \cup {NoData}]]

VolumeInit ==
  /\ volPc = "idle"
  /\ todo = {} /\ localTodo = {}
  /\ declared \in Pods
  /\ localMounted = {} /\ csiMounted = {} /\ tmpfsPaths = {}
  /\ tmpfsMounts = [v \in Volumes |-> 0]
  /\ object \in [Objects -> Contents \cup {NoData}]
  /\ client \in BOOLEAN
  /\ files = [v \in Volumes |-> NoFiles]
  /\ got = [v \in Volumes |-> Nothing_]
  /\ stops = 0

----------------------------------------------------------------------------
\* Mounting

ListMountedVolumes == localMounted \cup csiMounted

\* The declared volumes that are not mounted yet.
Requests == declared \ ListMountedVolumes

EnsurePodVolumes ==
  /\ volPc = "idle" /\ declared # {}
  /\ volPc' = "mount"
  /\ todo' = Requests
  /\ localTodo' = {}
  /\ UNCHANGED <<mountVars, files, got, outside>>

\* An error ends the sync, which is tried again; what was done stays.
VolumeError ==
  /\ volPc' = "idle"
  /\ todo' = {} /\ localTodo' = {}

\* CompositeVolumeManager::mount_volumes takes the claims itself.  One with a
\* CSI volume is staged, published and recorded; so is, under the default
\* driver, one whose PersistentVolume could not be had.  The others become
\* requests of the local manager.
MountCsiPvc(v) ==
  /\ csiMounted' = csiMounted \cup {v}
  /\ todo' = todo \ {v}
  /\ UNCHANGED <<volPc, localTodo, localMounted, tmpfsPaths, tmpfsMounts>>

MountClaim(v) ==
  /\ volPc = "mount" /\ v \in todo /\ Kind[v] = "pvc"
  /\ \/ client /\ PvKind[v] = "csi" /\ MountCsiPvc(v)
     \/ DefaultDriver /\ MountCsiPvc(v)
     \/ /\ client /\ PvKind[v] # "csi"
        /\ localTodo' = localTodo \cup {v}
        /\ todo' = todo \ {v}
        /\ UNCHANGED <<volPc, mountVars>>
     \/ VolumeError /\ UNCHANGED mountVars
  /\ UNCHANGED <<files, got, outside>>

\* The rest of the requests goes to the local manager, after the claims.
PassOn ==
  /\ volPc = "mount" /\ \A v \in todo : Kind[v] # "pvc"
  /\ volPc' = "local"
  /\ localTodo' = localTodo \cup todo
  /\ todo' = {}
  /\ UNCHANGED <<mountVars, files, got, outside>>

\* LocalVolumeManager::mount_volumes, one request: a directory, a host path or
\* a tmpfs, which is mounted on top of whatever is there.
MountLocal(v) ==
  /\ volPc = "local" /\ v \in localTodo
  /\ \/ /\ localMounted' = localMounted \cup {v}
        /\ IF Kind[v] = "tmpfs"
           THEN /\ tmpfsMounts' = [tmpfsMounts EXCEPT ![v] = @ + 1]
                /\ tmpfsPaths' = tmpfsPaths \cup {v}
           ELSE UNCHANGED <<tmpfsMounts, tmpfsPaths>>
        /\ localTodo' = localTodo \ {v}
        /\ UNCHANGED <<volPc, todo, csiMounted>>
     \/ VolumeError /\ UNCHANGED mountVars
  /\ UNCHANGED <<files, got, outside>>

AllMounted ==
  /\ volPc = "local" /\ localTodo = {}
  /\ volPc' = "write"
  /\ todo' = {v \in declared : Sources[v] # <<>>}
  /\ UNCHANGED <<localTodo, mountVars, files, got, outside>>

----------------------------------------------------------------------------
\* Writing.  A source is [type, object, optional, items, path]; items maps
\* paths to keys, and is empty when every key is wanted.

SourceSet(v)  == {Sources[v][i] : i \in 1 .. Len(Sources[v])}
IsFetched(s)  == s.type \in {"configMap", "secret"}
KeysOf(data)  == {k \in DOMAIN data : data[k] # 0}

\* write_projected_configmap_files and write_projected_secret_files: the value
\* each path gets.
WriteFiles(s, data) ==
  LET item == IF s.items = <<>> THEN [k \in KeysOf(data) |-> k] ELSE s.items
  IN  [p \in {q \in DOMAIN item : item[q] \in KeysOf(data)} |-> data[item[p]]]

\* expected_configmap_paths, expected_secret_paths: with items, also the path
\* of a key that is not there.
ExpectedPaths(s, data) == IF s.items = <<>> THEN KeysOf(data) ELSE DOMAIN s.items

\* What one source writes, given the fetched objects and the answer to the
\* TokenRequest; resolve_downward_api_value of a field may be empty, which is
\* not written.
Written(s, d, token, label) ==
  CASE IsFetched(s)         -> IF d[s.object] = NoData THEN <<>> ELSE WriteFiles(s, d[s.object])
    [] s.type = "token"    -> IF token = 0 THEN <<>> ELSE [p \in {s.path} |-> token]
    [] s.type = "downward" -> IF label = 0 THEN <<>> ELSE [p \in {s.path} |-> label]

\* Mutant of Expected: what was not written now is not expected.
ExpectedWritten(s, d, token) ==
  CASE IsFetched(s)        -> IF d[s.object] = NoData THEN {} ELSE ExpectedPaths(s, d[s.object])
    [] s.type = "token"    -> IF token = 0 THEN {} ELSE {s.path}
    [] s.type = "downward" -> {s.path}

\* The paths that cleanup_stale_volume_files leaves alone.
Expected(s, d, token) ==
  IF IsFetched(s) THEN (IF d[s.object] = NoData THEN {} ELSE ExpectedPaths(s, d[s.object]))
  ELSE {s.path}

\* The sources in their order: a later one overwrites.
LastWriter(v, p, d, token, label) ==
  {i \in 1 .. Len(Sources[v]) :
     /\ p \in DOMAIN Written(Sources[v][i], d, token, label)
     /\ \A j \in i + 1 .. Len(Sources[v]) : p \notin DOMAIN Written(Sources[v][j], d, token, label)}

\* Mutant of Cleaned: nothing is removed.
CleanedNever(v, p, d, token) == FALSE

\* cleanup_stale_volume_files
Cleaned(v, p, d, token) == \A s \in SourceSet(v) : p \notin Expected(s, d, token)

WriteAll(v, d, token, label) ==
  /\ files' = [files EXCEPT ![v] = [p \in Paths |->
        IF LastWriter(v, p, d, token, label) # {}
        THEN LET i == CHOOSE i \in LastWriter(v, p, d, token, label) : TRUE
             IN  Written(Sources[v][i], d, token, label)[p]
        ELSE IF Cleaned(v, p, d, token) THEN 0 ELSE files[v][p]]]
  /\ got' = IF Kind[v] = "projected" THEN [got EXCEPT ![v] = d] ELSE got

\* Some of the files were written and then one could not be.
WriteSome(v, d) ==
  \E P \in SUBSET Paths : files' = [files EXCEPT ![v] = [p \in Paths |->
     IF p \in P /\ LastWriter(v, p, d, 0, 0) # {}
     THEN LET i == CHOOSE i \in LastWriter(v, p, d, 0, 0) : TRUE
          IN  Written(Sources[v][i], d, 0, 0)[p]
     ELSE files[v][p]]]

\* The objects of v that can be had, when the calls for those in F fail.
Fetched(v, F) == [o \in Objects |-> IF o \in F \/ \A s \in SourceSet(v) : s.object # o THEN NoData ELSE object[o]]

Lacks(v, d) == \E s \in SourceSet(v) : IsFetched(s) /\ ~s.optional /\ d[s.object] = NoData

Rank(v) == CASE Kind[v] = "downward" -> 1 [] Kind[v] = "projected" -> 2
             [] Kind[v] = "configMap" -> 3 [] OTHER -> 4
AtWrite(v) == volPc = "write" /\ v \in todo /\ \A w \in todo : Rank(v) <= Rank(w)
WriteDone(v) == todo' = todo \ {v} /\ UNCHANGED <<volPc, localTodo>>

\* request_service_account_token: 0 for none, which is what there is without a
\* client, when the call fails, and when the answer holds no token.
RequestServiceAccountToken == IF client THEN {0, 1} ELSE {0}

\* A DownwardAPI volume: written as far as it can be, whatever fails.
WriteDownward(v) ==
  /\ AtWrite(v) /\ Kind[v] = "downward"
  /\ \E label \in 0 .. 1 : files' = [files EXCEPT ![v] = [p \in Paths |->
        IF label # 0 /\ (\E s \in SourceSet(v) : p = s.path) THEN label ELSE @[p]]]
  /\ WriteDone(v)
  /\ UNCHANGED <<mountVars, got, outside>>

\* write_projected_volume: everything is fetched first, and what is required
\* must be there; then every source is written and the rest removed.  Without a
\* client a volume whose objects are all optional is left as it is.
WriteProjected(v) ==
  /\ AtWrite(v) /\ Kind[v] = "projected"
  /\ \E F \in SUBSET Objects, token \in RequestServiceAccountToken, label \in 0 .. 1 :
       LET d == IF client THEN Fetched(v, F) ELSE Nothing_
           fetches == \E s \in SourceSet(v) : IsFetched(s)
       IN  \/ Lacks(v, d) /\ VolumeError /\ UNCHANGED <<files, got>>
           \/ ~Lacks(v, d) /\ ~client /\ fetches /\ WriteDone(v) /\ UNCHANGED <<files, got>>
           \/ /\ ~Lacks(v, d) /\ (client \/ ~fetches)
              /\ WriteAll(v, d, token, label)
              /\ WriteDone(v)
           \/ ~Lacks(v, d) /\ client /\ WriteSome(v, d) /\ VolumeError /\ UNCHANGED got
  /\ UNCHANGED <<mountVars, outside>>

\* A ConfigMap or Secret volume: any failure of an optional one clears its
\* directory.  A write that fails is logged, and nothing is removed then.
WriteObject(v) ==
  /\ AtWrite(v) /\ Kind[v] \in {"configMap", "secret"}
  /\ \E F \in SUBSET Objects :
       LET d == Fetched(v, F) IN
         \/ /\ client /\ ~Lacks(v, d) /\ WriteAll(v, d, 0, 0) /\ WriteDone(v)
         \/ client /\ ~Lacks(v, d) /\ WriteSome(v, d) /\ WriteDone(v) /\ UNCHANGED got
         \/ client /\ Lacks(v, d) /\ VolumeError /\ UNCHANGED <<files, got>>
         \/ /\ ~client /\ UNCHANGED <<files, got>>
            /\ IF Kind[v] = "configMap" /\ ~Lacks(v, Nothing_) THEN WriteDone(v) ELSE VolumeError
  /\ UNCHANGED <<mountVars, outside>>

\* ensure_pod_volumes returns Ok, and containers are started ...
VolumesReady ==
  /\ volPc = "write" /\ todo = {}
  /\ volPc' = "ready"
  /\ UNCHANGED <<todo, localTodo, mountVars, files, got, outside>>

\* ... until the next sync, or the end of the pod: unmount_volumes of both
\* managers.  One tmpfs is unmounted.
NextSync ==
  /\ volPc = "ready"
  /\ volPc' = "idle"
  /\ UNCHANGED <<todo, localTodo, mountVars, files, got, outside>>

UnmountPodVolumes ==
  /\ volPc = "ready"
  /\ volPc' = "idle"
  /\ csiMounted' = csiMounted \ declared
  /\ localMounted' = localMounted \ (declared \ csiMounted)
  /\ tmpfsPaths' = tmpfsPaths \ declared
  /\ tmpfsMounts' = [v \in Volumes |-> IF v \in tmpfsPaths \cap declared THEN tmpfsMounts[v] - 1 ELSE tmpfsMounts[v]]
  /\ UNCHANGED <<todo, localTodo, files, got, outside>>

----------------------------------------------------------------------------
\* The outside

ObjectChanges ==
  /\ volPc \in {"idle", "write"}
  /\ \E o \in Objects, c \in Contents \cup {NoData} : object' = [object EXCEPT ![o] = c]
  /\ UNCHANGED <<volPc, todo, localTodo, declared, mountVars, client, files, got, stops>>

\* The spec of a static pod is corrected: a volume more.
SpecChanges ==
  /\ volPc = "idle" /\ Later \notin declared
  /\ declared' = declared \cup {Later}
  /\ UNCHANGED <<volPc, todo, localTodo, mountVars, object, client, files, got, stops>>

KubeletDies ==
  /\ volPc # "down" /\ stops < MaxStops
  /\ volPc' = "down"
  /\ stops' = stops + 1
  /\ todo' = {} /\ localTodo' = {}
  /\ localMounted' = {} /\ csiMounted' = {} /\ tmpfsPaths' = {}
  /\ UNCHANGED <<declared, tmpfsMounts, object, client, files, got>>

KubeletBack ==
  /\ volPc = "down"
  /\ volPc' = "idle"
  /\ UNCHANGED <<todo, localTodo, mountVars, files, got, outside>>

VolumeNext ==
  \/ EnsurePodVolumes \/ PassOn \/ AllMounted \/ VolumesReady \/ NextSync \/ UnmountPodVolumes
  \/ \E v \in Volumes : MountClaim(v) \/ MountLocal(v) \/ WriteDownward(v) \/ WriteProjected(v) \/ WriteObject(v)
  \/ ObjectChanges \/ SpecChanges \/ KubeletDies \/ KubeletBack

----------------------------------------------------------------------------
\* When containers are started every declared volume is mounted, one that was
\* declared later too; and in one life of the kubelet none is mounted twice,
\* however often mounting stopped half-way and was tried again.
VolumesMounted ==
  /\ volPc = "ready" => declared \subseteq ListMountedVolumes
  /\ \A v \in Volumes : tmpfsMounts[v] <= stops + 1

\* When containers are started, a projected volume has no file left of a key or
\* an object that was gone when it was written, though objects came and went and
\* writes stopped half-way; except a path that items names, which stays when its
\* key is removed.
NoStaleFiles ==
  volPc = "ready" /\ client =>
    \A v \in declared, p \in Paths :
      Kind[v] = "projected" /\ files[v][p] # 0 =>
        \E s \in SourceSet(v) :
          \/ p \in DOMAIN Written(s, got[v], 1, 1)
          \/ IsFetched(s) /\ got[v][s.object] # NoData /\ p \in DOMAIN s.items

\* A running pod never loses its service account token: the file is there until
\* the pod's directory goes, also when the API server does not answer.
TokenKept ==
  [][\A v \in Volumes, s \in UNION {SourceSet(w) : w \in Volumes} :
       s \in SourceSet(v) /\ s.type = "token" /\ files[v][s.path] # 0 => files'[v][s.path] # 0]_volumeVars

\* The two together: what volume preparation leaves for start_container is what
\* the spec and the objects fetched last say.
VolumesSound == VolumesMounted /\ NoStaleFiles
=============================================================================
