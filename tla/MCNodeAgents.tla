---------------------------- MODULE MCNodeAgents ----------------------------
(***************************************************************************)
(* Instance of NodeAgents for TLC.                                         *)
(***************************************************************************)
EXTENDS NodeAgents

CONSTANTS be, bu, job,   \* pods: best effort, burstable, and one that is guaranteed and not restarted
          c1, c2         \* containers

Container(req, lim) == [cpuReq |-> req, cpuLim |-> lim, memReq |-> req, memLim |-> lim, other |-> FALSE]

MCPodSpec ==
  be :> [restart |-> "Always", containers |-> {Container(Absent, Absent)}] @@
  bu :> [restart |-> "OnFailure", containers |-> {Container("1", "1"), Container("1", "1000m")}] @@
  job :> [restart |-> "Never", containers |-> {Container("1", "1")}]

T(f, m) == [form |-> f, n |-> m]
MCThresholds ==
  {("memory.available" :> T("binary", 3)) @@ ("nodefs.available" :> T("percent", 50)) @@ ("pid.available" :> T("percent", 50)),
   ("memory.available" :> T("percent", 30)) @@ ("imagefs.available" :> T("decimal", 3)) @@ ("nodefs.inodesFree" :> T("percent", 1)),
   ("memory.available" :> T("garbled", 3)) @@ ("nodefs.available" :> T("plain", 3)) @@ ("pid.available" :> T("plain", 3))}

Reading(m, n) == [memory |-> m, nodefs |-> n, nodefsTotal |-> 6, inodes |-> 9000, imagefs |-> n, imagefsTotal |-> 6, pids |-> m]
MCSignalSets == {Reading(5, 5), Reading(2, 5), Reading(2, 2)}

MCPodOf == c1 :> "p" @@ c2 :> "q"
=============================================================================
