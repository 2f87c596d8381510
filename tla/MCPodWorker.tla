----------------------------- MODULE MCPodWorker -----------------------------
(***************************************************************************)
(* Instances of PodWorker for TLC.                                         *)
(***************************************************************************)
EXTENDS PodWorker

CONSTANTS i, s, a, e

AppSeq == <<a>>
Inherited == [c \in {a} |-> "pod"]

\* An init container, a sidecar and an app container, where every call but
\* listing and cleaning up may fail, and an init, an app and an ephemeral
\* container where listings and clean-ups fail.
Shapes ==
  {[init |-> <<i, s>>, sidecars |-> {s}, ephemeral |-> <<>>,
    faults |-> {"prepare", "sandbox", "status", "create", "start", "hook"}],
   [init |-> <<i>>, sidecars |-> {}, ephemeral |-> <<e>>,
    faults |-> {"status", "hook", "list", "cleanup"}]}

\* phase guards no step and no property of the run reads it.
WithoutPhase == <<given, pc, at, stateVars, criVars, crashes, late>>
==============================================================================
