---------------------------- MODULE MCPodSources ----------------------------
(***************************************************************************)
(* Instance of PodSources for TLC.                                         *)
(***************************************************************************)
EXTENDS PodSources, TLC

CONSTANTS p1, p2,         \* API pods
          s, x,           \* a synthetic UID and one that an item gives itself
          u1, u2,         \* UIDs of manifest files
          f1, f2,         \* manifest files
          i1,             \* an item of the PodList
          name            \* the name that all pods have

MCNameOf == [u \in Uids |-> name]
MCManifests == {Upsert(u1, 1), Upsert(u2, 1)}
MCSynthetic == i1 :> s
MCMirror == i1 :> {p1, p2}
MCConfigurations == {{"kube"}, {"file"}, {"url"}}
=============================================================================
