------------------------------ MODULE PodPhase ------------------------------
(***************************************************************************)
(* compute_pod_phase (crates/kubelet-core/src/pod/lifecycle.rs).  Of a     *)
(* ContainerStatus only what the function looks at is kept: the container  *)
(* waits, waits in a crash loop, runs, or has terminated with exit code 0  *)
(* or with another one.                                                    *)
(***************************************************************************)
EXTENDS Naturals, Sequences

Policy == {"Always", "OnFailure", "Never"}
Phase == {"Pending", "Running", "Succeeded", "Failed"}
CtrStatus == {"waiting", "crashloop", "running", "ok", "err"}

\* The first init container that has not completed decides: it was refused a
\* restart, or the pod is still initialising.
InitPhase(init, policy) ==
  LET k == CHOOSE k \in DOMAIN init :
             init[k] # "ok" /\ \A j \in 1..k-1 : init[j] = "ok"
  IN  IF init[k] = "err" /\ policy = "Never" THEN "Failed" ELSE "Pending"

\* init is the sequence of the statuses of the init containers, sidecars
\* included, and apps that of the statuses of the containers.
ComputePodPhase(init, apps, policy) ==
  LET some(S) == \E k \in DOMAIN apps : apps[k] \in S
      restarted == IF policy = "Never" THEN "Failed" ELSE "Running"
      completed == IF policy = "Always" THEN "Running" ELSE "Succeeded"
  IN  CASE some({"running", "crashloop"}) -> "Running"
        [] ~ some({"running", "crashloop"})
           /\ \E k \in DOMAIN init : init[k] # "ok" -> InitPhase(init, policy)
        [] OTHER -> IF apps # <<>> /\ ~ some({"waiting", "err"}) THEN completed
                    ELSE IF some({"err"}) THEN restarted ELSE "Pending"
=============================================================================
