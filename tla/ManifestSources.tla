--------------------------- MODULE ManifestSources ---------------------------
(***************************************************************************)
(* The sources of static pods: FilePodSource                               *)
(* (crates/kubelet-adapters/src/file_config/mod.rs), a task that polls a   *)
(* directory of manifests while somebody edits it, and UrlPodSource        *)
(* (crates/kubelet-adapters/src/url_config/mod.rs), a task that polls an   *)
(* endpoint for a PodList.  An item without a UID gets the UID of its      *)
(* mirror pod, if the API server answers and has one, and a UID made from  *)
(* its name if not; what it got first is committed.                        *)
(***************************************************************************)
EXTENDS KubePodSource

CONSTANTS Files,      \* manifest paths
          Manifests,  \* what a manifest may parse to, a set of Upserts
          Missing,    \* no such file
          Garbled,    \* a file that does not parse
          MaxEdits    \* bound: changes to the directory

ASSUME FileAssumption ==
          /\ Manifests \subseteq [uid : Uids \ ApiPods, ver : Versions]
          /\ Missing \notin Manifests \cup {Garbled}
          /\ Garbled \notin Manifests
          /\ MaxEdits \in Nat

VARIABLES
  files,      \* the directory's files
  disk,       \* the directory: fine, failing or not there
  edits,      \* changes to it so far
  filePc,     \* the poll
  fileKnown,  \* known: the UID last parsed at a path
  paths,      \* current_paths
  unlisted,   \* files there since read_dir that next_entry has yet to give
  reading,    \* the file that is being read, if any
  fileOut,    \* the update to send, if any
  replaced    \* history: UIDs that gave way to another UID at their path

dirVars == <<files, disk, edits>>
pollVars == <<filePc, fileKnown, paths, reading, fileOut, replaced>>
fileVars == <<dirVars, unlisted, pollVars>>

FileTypeOK ==
  /\ files \in [Files -> Manifests \cup {Missing, Garbled}]
  /\ disk \in {"ok", "failing", "missing"}
  /\ edits \in 0..MaxEdits
  /\ filePc \in {"sleep", "scan", "read", "send", "removed"}
  /\ fileKnown \in [Files -> Uids \cup {NoUid}]
  /\ paths \subseteq Files
  /\ unlisted \subseteq Files
  /\ reading \subseteq Files
  /\ fileOut \subseteq Update
  /\ replaced \subseteq Uids

FileInit ==
  /\ files = [f \in Files |-> Missing]
  /\ disk = "ok"
  /\ edits = 0
  /\ filePc = "sleep"
  /\ fileKnown = [f \in Files |-> NoUid]
  /\ paths = {}
  /\ unlisted = {}
  /\ reading = {}
  /\ fileOut = {}
  /\ replaced = {}

----------------------------------------------------------------------------
(***************************************************************************)
(* The directory.                                                          *)
(***************************************************************************)
FileEdit(f, c) ==
  /\ edits < MaxEdits
  /\ edits' = edits + 1
  /\ files[f] # c
  /\ files' = [files EXCEPT ![f] = c]
  /\ unlisted' = IF c = Missing THEN unlisted \ {f} ELSE unlisted
  /\ UNCHANGED <<disk, pollVars, feedVars>>

DiskChange ==
  /\ edits < MaxEdits
  /\ edits' = edits + 1
  /\ disk' \in {"ok", "failing", "missing"} \ {disk}
  /\ UNCHANGED <<files, unlisted, pollVars, feedVars>>

----------------------------------------------------------------------------
(***************************************************************************)
(* FilePodSource::run.                                                     *)
(***************************************************************************)
\* path.exists() and read_dir.
ReadDir ==
  /\ filePc = "sleep"
  /\ disk # "missing"
  /\ filePc' = "scan"
  /\ unlisted' = {f \in Files : files[f] # Missing}
  /\ UNCHANGED <<dirVars, fileKnown, paths, reading, fileOut, replaced, feedVars>>

\* The directory is not there: nothing is read and nothing removed.
SkipPoll ==
  /\ filePc = "sleep"
  /\ disk = "missing"
  /\ UNCHANGED <<fileVars, feedVars>>

\* dir.next_entry(): a file that came during the scan may be given or not.
NextEntry(f) ==
  /\ filePc = "scan"
  /\ f \notin paths
  /\ files[f] # Missing
  /\ paths' = paths \cup {f}
  /\ unlisted' = unlisted \ {f}
  /\ reading' = {f}
  /\ filePc' = "read"
  /\ UNCHANGED <<dirVars, fileKnown, fileOut, replaced, feedVars>>

\* known.insert
Insert(f, u) == [fileKnown EXCEPT ![f] = u]

\* parse_manifest, of a manifest that has a UID or is given one for its path.
ParseManifest(c) == Upsert(c.uid, c.ver)

\* read_to_string and parse_manifest.
ReadManifest(f) ==
  LET c == files[f]
  IN  /\ f \in reading
      /\ c \in Manifests
      /\ fileKnown' = Insert(f, c.uid)
      /\ replaced' = replaced \cup ({fileKnown[f]} \ {NoUid, c.uid})
      /\ fileOut' = {ParseManifest(c)}
      /\ reading' = {}
      /\ filePc' = "send"
      /\ UNCHANGED <<dirVars, unlisted, paths, feedVars>>

\* The file cannot be read or parsed: it still counts as there.
ReadFails(f) ==
  /\ f \in reading
  /\ files[f] \notin Manifests \/ disk # "ok"
  /\ reading' = {}
  /\ filePc' = "scan"
  /\ UNCHANGED <<dirVars, unlisted, fileKnown, paths, fileOut, replaced, feedVars>>

FileSend ==
  /\ filePc = "send"
  /\ \E m \in fileOut : Put(m)
  /\ fileOut' = {}
  /\ filePc' = "scan"
  /\ UNCHANGED <<dirVars, unlisted, fileKnown, paths, reading, replaced>>

\* The scan ends with the last entry, or at the first error of read_dir or
\* next_entry.
ScanEnd ==
  /\ filePc = "scan"
  /\ unlisted = {} \/ disk # "ok"
  /\ unlisted' = {}
  /\ filePc' = "removed"
  /\ UNCHANGED <<dirVars, fileKnown, paths, reading, fileOut, replaced, feedVars>>

\* The known files that the scan did not find.
GonePaths == {f \in Files : fileKnown[f] # NoUid /\ f \notin paths}

\* Detect removed files: each is forgotten, and a Remove sent.
FileRemove(f) ==
  /\ filePc = "removed"
  /\ f \in GonePaths
  /\ Put(Remove(fileKnown[f]))
  /\ fileKnown' = [fileKnown EXCEPT ![f] = NoUid]
  /\ UNCHANGED <<dirVars, unlisted, filePc, paths, reading, fileOut, replaced>>

FileSleep ==
  /\ filePc = "removed"
  /\ GonePaths = {}
  /\ filePc' = "sleep"
  /\ paths' = {}
  /\ UNCHANGED <<dirVars, unlisted, fileKnown, reading, fileOut, replaced, feedVars>>

----------------------------------------------------------------------------
Directory ==
  \/ \E f \in Files, c \in Manifests \cup {Missing, Garbled} : FileEdit(f, c)
  \/ DiskChange

FileSource ==
  \/ \E f \in Files : NextEntry(f) \/ ReadManifest(f) \/ ReadFails(f) \/ FileRemove(f)
  \/ ReadDir \/ SkipPoll \/ FileSend \/ ScanEnd \/ FileSleep

----------------------------------------------------------------------------
\* The file f has the UID u.
Holds(f, u) == files[f] \in Manifests /\ files[f].uid = u

\* A manifest that stays, and whose UID no other file keeps, becomes and stays
\* desired, whatever scans failed, and whatever a removal of another path that
\* once had its UID still sends.
FileIsDesired ==
  \A f \in Files, c \in Manifests :
     <>[](disk = "ok" /\ files[f] = c /\ \A g \in Files \ {f} : ~ Holds(g, c.uid))
       => <>[](desired[c.uid] = c.ver)

\* A static pod whose manifests are all deleted is removed for good, unless an
\* edit put another UID in its place: known holds one UID a path, and the old
\* one is forgotten with its pod still desired.
FileRemovalCompletes ==
  \A u \in {c.uid : c \in Manifests} :
     <>[](/\ disk = "ok"
          /\ \A f \in Files : files[f] # Garbled /\ ~ Holds(f, u))
       => <>[](desired[u] = 0 \/ u \in replaced)

----------------------------------------------------------------------------
CONSTANTS Items,      \* the items of the PodList, by namespace and name
          ItemUids,   \* UIDs an item may give itself
          Synthetic,  \* the UID made from an item's name
          Mirror,     \* the API pods that have the name of an item's mirror pod
          MaxPages    \* bound: changes to what the endpoint serves

\* The UIDs that an item without one may get.
Candidates(i) == {Synthetic[i]} \cup Mirror[i]

\* UIDs are unique, whoever makes them.
ASSUME UrlAssumption ==
          /\ ItemUids \subseteq Uids
          /\ Synthetic \in [Items -> Uids]
          /\ Mirror \in [Items -> SUBSET ApiPods]
          /\ \A i \in Items : Candidates(i) \cap ItemUids = {}
          /\ \A i, j \in Items : i # j => Candidates(i) \cap Candidates(j) = {}
          /\ MaxPages \in Nat

VARIABLES
  page,       \* what the endpoint serves
  pages,      \* changes to it so far
  urlPc,      \* the poll
  fetched,    \* the items of the PodList that are not handled yet
  urlKnown,   \* known
  committed,  \* committed_uids
  urlCurrent, \* current_uids
  urlOut      \* the update to send, if any

pollUrlVars == <<urlPc, fetched, urlKnown, committed, urlCurrent, urlOut>>
urlVars == <<page, pages, pollUrlVars>>

\* An item: not there (ver 0), or with a spec, and a UID or none.
Item == [uid : ItemUids \cup {NoUid}, ver : Versions]
NoItem == [uid |-> NoUid, ver |-> 0]

UrlTypeOK ==
  /\ page \in [Items -> Item \cup {NoItem}]
  /\ pages \in 0..MaxPages
  /\ urlPc \in {"sleep", "items", "send", "removed"}
  /\ fetched \in [Items -> Item \cup {NoItem}]
  /\ urlKnown \subseteq Uids
  /\ committed \in [Items -> Uids \cup {NoUid}]
  /\ urlCurrent \subseteq Uids
  /\ urlOut \subseteq Update

UrlInit ==
  /\ page = [i \in Items |-> NoItem]
  /\ pages = 0
  /\ urlPc = "sleep"
  /\ fetched = page
  /\ urlKnown = {}
  /\ committed = [i \in Items |-> NoUid]
  /\ urlCurrent = {}
  /\ urlOut = {}

----------------------------------------------------------------------------
\* The endpoint serves another list.
Publish(i, c) ==
  /\ pages < MaxPages
  /\ pages' = pages + 1
  /\ page[i] # c
  /\ page' = [page EXCEPT ![i] = c]
  /\ UNCHANGED <<pollUrlVars, kubeVars, feedVars>>

(***************************************************************************)
(* UrlPodSource::run.  A fetch that fails leaves everything as it is.      *)
(***************************************************************************)
Fetch ==
  /\ urlPc = "sleep"
  /\ urlPc' = "items"
  /\ fetched' = page
  /\ UNCHANGED <<page, pages, urlKnown, committed, urlCurrent, urlOut, kubeVars, feedVars>>

\* What get_opt may say of an item's mirror pod: its UID, or nothing when there
\* is none or the API server does not answer.
LookUp(i) == {p \in Mirror[i] : There(api[p])} \cup {NoUid}

\* The UID of an item: its own, the committed one, the one the API server
\* found, the synthetic one.
ItemUid(i, found) ==
  CASE fetched[i].uid # NoUid -> fetched[i].uid
    [] fetched[i].uid = NoUid /\ committed[i] # NoUid -> committed[i]
    [] fetched[i].uid = NoUid /\ committed[i] = NoUid /\ found # NoUid -> found
    [] OTHER -> Synthetic[i]

\* parse_pod, of an item that has been given the UID u.
ParsePod(u, c) == Upsert(u, c.ver)

\* An item is given its UID, which is committed if none is, and parsed.
Resolve(i) ==
  /\ urlPc = "items"
  /\ fetched[i] # NoItem
  /\ \E found \in LookUp(i) :
       LET u == ItemUid(i, found)
       IN  /\ committed' = [committed EXCEPT ![i] = IF @ = NoUid THEN u ELSE @]
           /\ urlCurrent' = urlCurrent \cup {u}
           /\ urlKnown' = urlKnown \cup {u}
           /\ urlOut' = {ParsePod(u, fetched[i])}
  /\ fetched' = [fetched EXCEPT ![i] = NoItem]
  /\ urlPc' = "send"
  /\ UNCHANGED <<page, pages, kubeVars, feedVars>>

UrlSend ==
  /\ urlPc = "send"
  /\ \E m \in urlOut : Put(m)
  /\ urlOut' = {}
  /\ urlPc' = "items"
  /\ UNCHANGED <<page, pages, fetched, urlKnown, committed, urlCurrent, kubeVars>>

\* committed_uids.retain
Retained == [i \in Items |-> IF committed[i] \in urlCurrent THEN committed[i] ELSE NoUid]

\* The list is done: commitments to UIDs that it did not have are dropped.
ItemsEnd ==
  /\ urlPc = "items"
  /\ \A i \in Items : fetched[i] = NoItem
  /\ committed' = Retained
  /\ urlPc' = "removed"
  /\ UNCHANGED <<page, pages, fetched, urlKnown, urlCurrent, urlOut, kubeVars, feedVars>>

\* The known pods that the list did not have.
UrlGone == urlKnown \ urlCurrent

UrlRemove(u) ==
  /\ urlPc = "removed"
  /\ u \in UrlGone
  /\ Put(Remove(u))
  /\ urlKnown' = urlKnown \ {u}
  /\ UNCHANGED <<page, pages, urlPc, fetched, committed, urlCurrent, urlOut, kubeVars>>

UrlSleep ==
  /\ urlPc = "removed"
  /\ UrlGone = {}
  /\ urlPc' = "sleep"
  /\ urlCurrent' = {}
  /\ UNCHANGED <<page, pages, fetched, urlKnown, committed, urlOut, kubeVars, feedVars>>

----------------------------------------------------------------------------
Endpoint == \E i \in Items, c \in Item \cup {NoItem} : Publish(i, c)

UrlSource ==
  \/ \E i \in Items : Resolve(i)
  \/ \E u \in Uids : UrlRemove(u)
  \/ Fetch \/ UrlSend \/ ItemsEnd \/ UrlSleep

----------------------------------------------------------------------------
\* An item is known under one of the UIDs it may be given and never under two,
\* although its mirror pod comes, goes and is replaced between the polls, and
\* lookups fail.
OneUidPerItem ==
  \A i \in Items : \A u, v \in urlKnown \cap Candidates(i) : u = v

\* An item that stays becomes and stays desired, under its own UID or else under
\* the one that was committed, which may be one it had before.
UrlIsDesired ==
  \A i \in Items, c \in Item :
     <>[](page[i] = c) =>
        \E u \in (IF c.uid = NoUid THEN Candidates(i) \cup ItemUids ELSE {c.uid}) : <>[](desired[u] = c.ver)
==============================================================================
