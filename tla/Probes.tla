-------------------------------- MODULE Probes --------------------------------
(***************************************************************************)
(* The probes of one container: the tasks that sync_pod arms for the       *)
(* container it tracks, one per kind, and the maps they share with the     *)
(* worker.  Containers are numbered in the order of their creation.        *)
(***************************************************************************)
EXTENDS Naturals, FiniteSets

CONSTANTS
  ProbeKinds,        \* the probes of the container: "startup", "liveness", "readiness"
  SuccessThreshold, FailureThreshold,
  MaxContainers      \* bound: containers one after the other

ASSUME ProbeAssumption == {SuccessThreshold, FailureThreshold, MaxContainers} \subseteq Nat

Cids  == 1 .. MaxContainers
NoCid == 0

VARIABLES
  tracked,      \* container_ids: the container, NoCid if none
  ctrState,     \* the runtime: "none", "running", "exited" or "gone"
  registered,   \* startup_, probe_ and readiness_probe_registered
  tasks,        \* the probe tasks: [kind, cid, pc, passes, fails]
  startupDone,  \* container_startup_done
  readiness,    \* container_readiness
  hung,         \* containers whose probes fail from now on
  passed,       \* containers that have passed their startup probe
  lost          \* containers whose liveness or startup task ended without success

probeVars == <<tracked, ctrState, registered, tasks, startupDone, readiness, hung, passed, lost>>

AllKinds == {"startup", "liveness", "readiness"}
Entry    == {"none", "true", "false"}

ProbeTypeOK ==
  /\ tracked \in Cids \cup {NoCid}
  /\ ctrState \in [Cids -> {"none", "running", "exited", "gone"}]
  /\ registered \in [AllKinds -> Cids \cup {NoCid}]
  /\ tasks \subseteq [kind : AllKinds, cid : Cids, pc : {"start", "check", "probe"},
                      passes : 0 .. SuccessThreshold, fails : 0 .. FailureThreshold]
  /\ startupDone \in [Cids -> Entry] /\ readiness \in [Cids -> Entry]
  /\ hung \cup lost \subseteq Cids /\ passed \subseteq Cids

ProbeInit ==
  /\ tracked = NoCid
  /\ ctrState = [c \in Cids |-> "none"]
  /\ registered = [k \in AllKinds |-> NoCid]
  /\ tasks = {}
  /\ startupDone = [c \in Cids |-> "none"]
  /\ readiness = [c \in Cids |-> "none"]
  /\ hung = {} /\ passed = {} /\ lost = {}

----------------------------------------------------------------------------
\* The worker

NewTask(k, c) == [kind |-> k, cid |-> c, pc |-> "start", passes |-> 0, fails |-> 0]

\* Mutant of Due: liveness and readiness do not wait for the startup probe.
DueAtOnce(k) == k \in ProbeKinds /\ registered[k] # tracked

\* The kinds a sync arms: not yet registered for this container, and after the
\* startup probe when there is one.
Due(k) ==
  /\ k \in ProbeKinds
  /\ registered[k] # tracked
  /\ k # "startup" /\ "startup" \in ProbeKinds => startupDone[tracked] = "true"

\* sync_pod finds the container running.
ArmProbes ==
  /\ tracked # NoCid /\ ctrState[tracked] = "running"
  /\ \E k \in AllKinds : Due(k)
  /\ tasks' = tasks \cup {NewTask(k, tracked) : k \in {j \in AllKinds : Due(j)}}
  /\ registered' = [k \in AllKinds |-> IF Due(k) THEN tracked ELSE registered[k]]
  /\ UNCHANGED <<tracked, ctrState, startupDone, readiness, hung, passed, lost>>

\* start_container: the old container is removed with what is kept of it, and a
\* new one takes its place.
StartContainer ==
  /\ tracked # MaxContainers
  /\ tracked # NoCid => ctrState[tracked] # "running"
  /\ tracked' = tracked + 1
  /\ ctrState' = [c \in Cids |-> IF c = tracked + 1 THEN "running" ELSE IF c = tracked THEN "gone" ELSE ctrState[c]]
  /\ registered' = [k \in AllKinds |-> NoCid]
  /\ startupDone' = [c \in Cids |-> IF c = tracked THEN "none" ELSE startupDone[c]]
  /\ readiness' = [c \in Cids |-> IF c = tracked THEN "none" ELSE readiness[c]]
  /\ UNCHANGED <<tasks, hung, passed, lost>>

----------------------------------------------------------------------------
\* The tasks

Replace(t, u) == tasks' = (tasks \ {t}) \cup {u}
TaskEnds(t)   == tasks' = tasks \ {t}
Set(map, c, v) == [map EXCEPT ![c] = v]

\* The initial delay is over.  A readiness task has first entered "not ready".
TaskStarts(t) ==
  /\ t \in tasks /\ t.pc = "start"
  /\ Replace(t, [t EXCEPT !.pc = "check"])
  /\ readiness' = IF t.kind = "readiness" THEN Set(readiness, t.cid, "false") ELSE readiness
  /\ UNCHANGED <<tracked, ctrState, registered, startupDone, hung, passed, lost>>

\* What container_status may say.
Seen_(c) == {ctrState[c], "error"}

\* The container is looked at before each probe.  A liveness or startup task
\* ends unless it is seen running; a readiness task goes on after an error.
TaskChecks(t) ==
  /\ t \in tasks /\ t.pc = "check"
  /\ \E s \in Seen_(t.cid) :
       /\ CASE s = "running" ->
                 Replace(t, [t EXCEPT !.pc = "probe"]) /\ UNCHANGED <<startupDone, readiness>>
            [] s # "running" /\ t.kind = "liveness" ->
                 TaskEnds(t) /\ UNCHANGED <<startupDone, readiness>>
            [] s # "running" /\ t.kind = "startup" ->
                 TaskEnds(t) /\ startupDone' = Set(startupDone, t.cid, "false") /\ UNCHANGED readiness
            [] s \in {"exited", "gone"} /\ t.kind = "readiness" ->
                 /\ TaskEnds(t)
                 /\ readiness' = Set(readiness, t.cid, IF s = "gone" THEN "none" ELSE "false")
                 /\ UNCHANGED startupDone
            [] OTHER ->
                 /\ Replace(t, [t EXCEPT !.passes = 0, !.fails = 0])
                 /\ readiness' = Set(readiness, t.cid, "false")
                 /\ UNCHANGED startupDone
       /\ lost' = IF s = "error" /\ t.kind # "readiness" THEN lost \cup {t.cid} ELSE lost
  /\ UNCHANGED <<tracked, ctrState, registered, hung, passed>>

\* run_probe: a container that hangs or does not run fails every probe.
Results(c) == IF c \in hung \/ ctrState[c] # "running" THEN {FALSE} ELSE {TRUE, FALSE}

\* Mutant of Evaluate: a failure more than the threshold is needed to fail.
EvaluateLate(t, ok) ==
  LET u == IF ok THEN [t EXCEPT !.fails = 0, !.passes = 1] ELSE [t EXCEPT !.passes = 0, !.fails = FailureThreshold]
  IN  [task |-> u, decision |-> IF ok THEN "Pass" ELSE IF t.fails > FailureThreshold THEN "Fail" ELSE "Pending"]

\* evaluate_probe_result
Evaluate(t, ok) ==
  LET cap(n) == IF n > SuccessThreshold THEN SuccessThreshold ELSE n
      u == IF ok THEN [t EXCEPT !.fails = 0, !.passes = cap(@ + 1)] ELSE [t EXCEPT !.passes = 0, !.fails = @ + 1]
  IN  [task |-> u, decision |-> IF ok THEN (IF u.passes >= SuccessThreshold THEN "Pass" ELSE "Pending")
                                ELSE IF u.fails >= FailureThreshold THEN "Fail" ELSE "Pending"]

\* stop_container with no grace: what still runs is stopped, or the error is
\* dropped.
StopContainer(c) ==
  \/ /\ ctrState' = IF ctrState[c] = "running" THEN [ctrState EXCEPT ![c] = "exited"] ELSE ctrState
     /\ UNCHANGED lost
  \/ lost' = lost \cup {c} /\ UNCHANGED ctrState

TaskProbes(t) ==
  /\ t \in tasks /\ t.pc = "probe"
  /\ \E ok \in Results(t.cid) :
       LET e    == Evaluate(t, ok)
           next == [e.task EXCEPT !.pc = "check"]
       IN  CASE t.kind = "liveness" ->
                  /\ IF e.decision = "Fail" THEN TaskEnds(t) /\ StopContainer(t.cid)
                     ELSE Replace(t, next) /\ UNCHANGED <<ctrState, lost>>
                  /\ UNCHANGED <<startupDone, readiness, passed>>
             [] t.kind = "startup" ->
                  /\ IF e.decision = "Pending" THEN Replace(t, next) ELSE TaskEnds(t)
                  /\ IF e.decision = "Fail" THEN StopContainer(t.cid) ELSE UNCHANGED <<ctrState, lost>>
                  /\ startupDone' = IF e.decision = "Pending" THEN startupDone
                                    ELSE Set(startupDone, t.cid, IF e.decision = "Pass" THEN "true" ELSE "false")
                  /\ passed' = IF e.decision = "Pass" THEN passed \cup {t.cid} ELSE passed
                  /\ UNCHANGED readiness
             [] t.kind = "readiness" ->
                  /\ Replace(t, IF e.decision = "Fail" THEN [next EXCEPT !.passes = 0, !.fails = 0] ELSE next)
                  /\ readiness' = IF e.decision = "Pending" THEN readiness
                                  ELSE Set(readiness, t.cid, IF e.decision = "Pass" THEN "true" ELSE "false")
                  /\ UNCHANGED <<ctrState, startupDone, passed, lost>>
  /\ UNCHANGED <<tracked, registered, hung>>

----------------------------------------------------------------------------
\* The outside: a container hangs, or exits.

Hangs(c) ==
  /\ ctrState[c] = "running" /\ c \notin hung
  /\ hung' = hung \cup {c}
  /\ UNCHANGED <<tracked, ctrState, registered, tasks, startupDone, readiness, passed, lost>>

Exits(c) ==
  /\ ctrState[c] = "running"
  /\ ctrState' = [ctrState EXCEPT ![c] = "exited"]
  /\ UNCHANGED <<tracked, registered, tasks, startupDone, readiness, hung, passed, lost>>

\* The steps of the tasks of one kind for one container, and of the worker.
TaskOf(k, c) == \E t \in tasks : t.kind = k /\ t.cid = c /\ (TaskStarts(t) \/ TaskChecks(t) \/ TaskProbes(t))

ProbeNext ==
  \/ ArmProbes \/ StartContainer
  \/ \E k \in AllKinds, c \in Cids : TaskOf(k, c)
  \/ \E c \in Cids : Hangs(c) \/ Exits(c)

----------------------------------------------------------------------------
\* Nothing but its own startup probe touches a container before that has
\* passed: no liveness task kills it and no readiness task calls it ready.
StartupFirst ==
  "startup" \in ProbeKinds =>
    /\ \A t \in tasks : t.kind # "startup" => t.cid \in passed
    /\ \A c \in Cids : readiness[c] = "true" => c \in passed

\* A container with a liveness probe that hangs does not go on running, unless
\* the task that watched it (or its startup) has ended because the runtime once
\* did not answer for its status or did not stop it: nothing starts that task
\* again.
HungIsKilled ==
  \A c \in Cids : c \in hung /\ "liveness" \in ProbeKinds ~> ctrState[c] # "running" \/ c \in lost
=============================================================================
