----------------------------- MODULE NodeAgents -----------------------------
(***************************************************************************)
(* The tasks of the node that share no state with one another: the process *)
(* itself, eviction, image garbage collection, PLEG and log rotation.  The *)
(* agent that is followed is chosen at the start, so that the states of    *)
(* the agents add up and do not multiply.                                  *)
(***************************************************************************)
EXTENDS Eviction, ImageGc, Pleg, ContainerLogs, Kubelet

VARIABLE agent

Agents == {"kubelet", "eviction", "imageGc", "pleg", "logs"}

vars == <<agent, kubeletVars, evictionVars, gcVars, plegVars, logVars>>

TypeOK ==
  /\ agent \in Agents
  /\ KubeletTypeOK
  /\ EvictionTypeOK
  /\ ImageGcTypeOK
  /\ PlegTypeOK
  /\ LogTypeOK

Init ==
  /\ agent \in Agents
  /\ KubeletInit
  /\ EvictionInit
  /\ ImageGcInit
  /\ PlegInit
  /\ LogInit
  \* one configuration for the agents that have none
  /\ agent # "eviction" => /\ evictionHard = CHOOSE t \in Thresholds : TRUE
                           /\ signals = CHOOSE s \in SignalSets : TRUE

TheKubelet(A)  == agent = "kubelet" /\ A /\ UNCHANGED <<agent, evictionVars, gcVars, plegVars, logVars>>
TheEviction(A) == agent = "eviction" /\ A /\ UNCHANGED <<agent, kubeletVars, gcVars, plegVars, logVars>>
TheImageGc(A)  == agent = "imageGc" /\ A /\ UNCHANGED <<agent, kubeletVars, evictionVars, plegVars, logVars>>
ThePleg(A)     == agent = "pleg" /\ A /\ UNCHANGED <<agent, kubeletVars, evictionVars, gcVars, logVars>>
TheLogs(A)     == agent = "logs" /\ A /\ UNCHANGED <<agent, kubeletVars, evictionVars, gcVars, plegVars>>

Next ==
  \/ TheKubelet(KubeletNext)
  \/ TheEviction(EvictionNext)
  \/ TheImageGc(ImageGcNext)
  \/ ThePleg(PlegNext)
  \/ TheLogs(LogNext)

\* The process takes its steps, a branch of select! that is ready is taken, the
\* PLEG loop handles its events and relists, and a listing that is repeated
\* every second succeeds in the end.
Spec ==
  /\ Init /\ [][Next]_vars
  /\ WF_vars(TheKubelet(KubeletSteps))
  /\ WF_vars(ThePleg(HandleEvent))
  /\ WF_vars(ThePleg(Relist))
=============================================================================
