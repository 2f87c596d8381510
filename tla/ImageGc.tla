------------------------------ MODULE ImageGc ------------------------------
(***************************************************************************)
(* Image garbage collection: ImageGcManager and the loop that drives it.   *)
(* The loop lists the images, reads which images the desired pods name,    *)
(* lists again to pin the images that carry those names, and then removes  *)
(* the least recently used of the others, one call after the other.  All   *)
(* images have size 1.                                                     *)
(***************************************************************************)
EXTENDS Integers, Sequences, FiniteSets, SequencesExt

CONSTANTS
  Images,       \* image ids
  Refs,         \* the tags and digests pods name images by
  NoImage,      \* a name that no image has
  DiskTotal,    \* size of the image file system
  High, Low,    \* thresholds, as bytes of DiskTotal
  MaxRounds     \* bound: rounds of the loop

ASSUME ImageGcAssumption ==
  /\ IsFiniteSet(Images)
  /\ {DiskTotal, High, Low, MaxRounds} \subseteq Nat

VARIABLES
  tag,          \* the image that has a name, as the container runtime keeps it
  disk,         \* the images the runtime has
  wanted,       \* the names in the specs of the desired pods
  tracked,      \* images: the round in which an image was last used, 0 if not tracked
  pinned,       \* ids of images in use
  gcPc,         \* where the loop is: "sleep", "pin" or "delete"
  gcRound,      \* rounds of the loop so far
  desiredImages,\* the names that the round has read
  plan,         \* the images that are still to be deleted
  kept          \* history: the names and images that belonged together, wanted, ever since the round read them

gcVars == <<tag, disk, wanted, tracked, pinned, gcPc, gcRound, desiredImages, plan, kept>>

ImageGcTypeOK ==
  /\ tag \in [Refs -> Images \cup {NoImage}]
  /\ disk \subseteq Images
  /\ wanted \subseteq Refs
  /\ tracked \in [Images -> 0 .. MaxRounds]
  /\ pinned \subseteq Images
  /\ gcPc \in {"sleep", "pin", "delete"}
  /\ gcRound \in 0 .. MaxRounds
  /\ desiredImages \subseteq Refs
  /\ plan \in Seq(Images)
  /\ kept \subseteq Refs \X Images

ImageGcInit ==
  /\ tag = [r \in Refs |-> NoImage]
  /\ disk = {}
  /\ wanted = {}
  /\ tracked = [i \in Images |-> 0]
  /\ pinned = {}
  /\ gcPc = "sleep"
  /\ gcRound = 0
  /\ desiredImages = {}
  /\ plan = <<>>
  /\ kept = {}

Kept(t, w) == {k \in kept : k[1] \in w /\ t[k[1]] = k[2]}

----------------------------------------------------------------------------
\* The container runtime and the pods.

\* An image is pulled under a name; another one may lose the name.
PullImage(i, r) ==
  /\ tag[r] # i
  /\ disk' = disk \cup {i}
  /\ tag' = [tag EXCEPT ![r] = i]
  /\ kept' = Kept(tag', wanted)
  /\ UNCHANGED <<wanted, tracked, pinned, gcPc, gcRound, desiredImages, plan>>

\* A pod that names an image becomes desired or goes.
WantImage(r) ==
  /\ wanted' = IF r \in wanted THEN wanted \ {r} ELSE wanted \cup {r}
  /\ kept' = Kept(tag, wanted')
  /\ UNCHANGED <<tag, disk, tracked, pinned, gcPc, gcRound, desiredImages, plan>>

----------------------------------------------------------------------------
\* ImageGcManager

\* sync: forget what is gone, track what is new from now on.
Sync(listed, now) ==
  [i \in Images |-> IF i \notin listed THEN 0 ELSE IF tracked[i] = 0 THEN now ELSE tracked[i]]

\* Mutant of InUse: only images that are tracked from earlier rounds are matched.
InUseIfOld(i, names) == tracked[i] < gcRound /\ \E r \in names : tag[r] = i

\* The test of the pin pass: one of the image's names is named by a pod.
InUse(i, names) == \E r \in names : tag[r] = i

\* mark_in_use and mark_not_in_use, for the images that are listed.
Pins(listed, names) == (pinned \ listed) \cup {i \in listed : InUse(i, names)}
Uses(listed, names, now) ==
  [i \in Images |-> IF i \in listed /\ InUse(i, names) /\ tracked[i] # 0 THEN now ELSE tracked[i]]

\* The images that gc_candidates may take: tracked, not pinned, and last used
\* more than min_age (2 min) ago.  Rounds are 5 min apart, so that is one used
\* in an earlier round, or in this one if the second listing took long.
Eligible(seen, pins, now, slow) ==
  {i \in Images : seen[i] # 0 /\ i \notin pins /\ (slow \/ seen[i] < now)}

\* gc_candidates: nothing up to the high threshold; above it, the least recently
\* used images until the use would be down to the low one.  Images of one age
\* come in any order.
GcCandidates(used, seen, pins, now, slow) ==
  LET eligible == Eligible(seen, pins, now, slow)
      free == used - Low
      count == IF free < Cardinality(eligible) THEN free ELSE Cardinality(eligible)
      Lru(s) == \A j, k \in DOMAIN s : j < k => seen[s[j]] <= seen[s[k]]
  IN IF used <= High THEN {<<>>}
     ELSE {SubSeq(s, 1, count) : s \in {x \in SetToSeqs(eligible) : Lru(x)}}

----------------------------------------------------------------------------
\* run_image_gc_loop

\* A tick: the images are listed and the desired pods read right after it.
GcList ==
  /\ gcPc = "sleep"
  /\ gcRound < MaxRounds
  /\ gcRound' = gcRound + 1
  /\ gcPc' = "pin"
  /\ tracked' = Sync(disk, gcRound')
  /\ desiredImages' = wanted
  /\ kept' = {k \in wanted \X disk : tag[k[1]] = k[2]}
  /\ UNCHANGED <<tag, disk, wanted, pinned, plan>>

\* list_images fails, at the first or the second call: the round is over.
GcListFails ==
  /\ \/ gcPc = "sleep" /\ gcRound < MaxRounds /\ gcRound' = gcRound + 1
     \/ gcPc = "pin" /\ gcRound' = gcRound
  /\ gcPc' = "sleep"
  /\ UNCHANGED <<tag, disk, wanted, tracked, pinned, desiredImages, plan, kept>>

\* The second list: pin, read the use of the file system, which other files
\* have a part in, and make the plan.  A file system that cannot be read has
\* size 0 and ends the round.
GcPlan ==
  /\ gcPc = "pin"
  /\ pinned' = Pins(disk, desiredImages)
  /\ tracked' = Uses(disk, desiredImages, gcRound)
  /\ \/ plan' = <<>>
     \/ \E used \in Cardinality(disk) .. DiskTotal, slow \in BOOLEAN :
           plan' \in GcCandidates(used, tracked', pinned', gcRound, slow)
  /\ gcPc' = IF plan' = <<>> THEN "sleep" ELSE "delete"
  /\ UNCHANGED <<tag, disk, wanted, gcRound, desiredImages, kept>>

\* remove_image of the next image, also one that pods have come to name since;
\* its names go with it.
GcDelete ==
  /\ gcPc = "delete"
  /\ LET i == Head(plan) IN
       /\ disk' = disk \ {i}
       /\ tag' = [r \in Refs |-> IF tag[r] = i THEN NoImage ELSE tag[r]]
       /\ tracked' = [tracked EXCEPT ![i] = 0]
       /\ pinned' = pinned \ {i}
       /\ kept' = Kept(tag', wanted)
  /\ plan' = Tail(plan)
  /\ gcPc' = IF plan' = <<>> THEN "sleep" ELSE "delete"
  /\ UNCHANGED <<wanted, gcRound, desiredImages>>

\* A removal that fails is logged; the image stays tracked.
GcDeleteFails ==
  /\ gcPc = "delete"
  /\ plan' = Tail(plan)
  /\ gcPc' = IF plan' = <<>> THEN "sleep" ELSE "delete"
  /\ UNCHANGED <<tag, disk, wanted, tracked, pinned, gcRound, desiredImages, kept>>

ImageGcNext ==
  \/ GcList \/ GcListFails \/ GcPlan \/ GcDelete \/ GcDeleteFails
  \/ \E r \in Refs : WantImage(r) \/ \E i \in Images : PullImage(i, r)

----------------------------------------------------------------------------
\* An image that a desired pod has named throughout the round is not planned
\* for removal, though the loop reads the names between two listings and pulls
\* move them.
GcSparesWanted == \A i \in ToSet(plan), r \in Refs : <<r, i>> \notin kept
=============================================================================
