-------------------------------- MODULE Pleg --------------------------------
(***************************************************************************)
(* The pod lifecycle event generator: relist compares the containers of    *)
(* the runtime with those of the last relist and has the pods of the ones  *)
(* that changed synced.  A container has an id of its own for every start. *)
(***************************************************************************)
EXTENDS FiniteSets

CONSTANTS
  PlegContainers,  \* container ids
  PlegPods,        \* pods
  PodOf            \* the pod of a container

ContainerStates == {"none", "created", "running", "exited"}
EventTypes == {"ContainerStarted", "ContainerDied", "ContainerRemoved", "ContainerChanged"}

VARIABLES
  containers,   \* the runtime: the state of each container, "none" if there is none
  cache,        \* what the last successful relist has seen
  plegEvents,   \* events of that relist that have not been acted on yet
  plegDesired,  \* the pods of the pod manager
  untold        \* history: containers that changed since their pod was last synced

plegVars == <<containers, cache, plegEvents, plegDesired, untold>>

PlegTypeOK ==
  /\ containers \in [PlegContainers -> ContainerStates]
  /\ cache \in [PlegContainers -> ContainerStates]
  /\ plegEvents \subseteq [container : PlegContainers, type : EventTypes]
  /\ plegDesired \subseteq PlegPods
  /\ untold \subseteq PlegContainers

PlegInit ==
  /\ containers = [c \in PlegContainers |-> "none"]
  /\ cache = [c \in PlegContainers |-> "none"]
  /\ plegEvents = {}
  /\ plegDesired = PlegPods
  /\ untold = {}

\* The runtime: a container is created, runs, exits and is removed, once.
ContainerMoves(c) ==
  /\ \/ containers[c] = "none" /\ c \notin untold /\ cache[c] = "none" /\ containers' = [containers EXCEPT ![c] = "created"]
     \/ containers[c] = "created" /\ containers' = [containers EXCEPT ![c] = "running"]
     \/ containers[c] = "running" /\ containers' = [containers EXCEPT ![c] = "exited"]
     \/ containers[c] \in {"created", "exited"} /\ containers' = [containers EXCEPT ![c] = "none"]
  /\ untold' = untold \cup {c}
  /\ UNCHANGED <<cache, plegEvents, plegDesired>>

PodLeaves(p) ==
  /\ p \in plegDesired
  /\ plegDesired' = plegDesired \ {p}
  /\ UNCHANGED <<containers, cache, plegEvents, untold>>

----------------------------------------------------------------------------
\* Mutant of EventType: a container that is gone makes no event.
EventTypeListed(old, new) ==
  CASE old = new \/ new = "none" -> {}
    [] old = "running" /\ new = "exited" -> {"ContainerDied"}
    [] new = "running" -> {"ContainerStarted"}
    [] OTHER -> {"ContainerChanged"}

\* The event for a container that was old at the last relist and is new now.
EventType(old, new) ==
  CASE old = new -> {}
    [] new = "none" -> {"ContainerRemoved"}
    [] old = "running" /\ new = "exited" -> {"ContainerDied"}
    [] new = "running" -> {"ContainerStarted"}
    [] OTHER -> {"ContainerChanged"}

\* relist: the whole list at once; the events are acted on after it.
Relist ==
  /\ plegEvents = {}
  /\ plegEvents' = UNION {[container : {c}, type : EventType(cache[c], containers[c])] : c \in PlegContainers}
  /\ cache' = containers
  /\ UNCHANGED <<containers, plegDesired, untold>>

\* list_containers fails: the cache stays, nothing is told.
RelistFails ==
  /\ plegEvents = {}
  /\ UNCHANGED plegVars

\* poll_pleg, one event: the pod, if it is still desired, is synced; the sync
\* looks at all its containers.
HandleEvent ==
  \E e \in plegEvents :
    /\ plegEvents' = plegEvents \ {e}
    /\ untold' = IF PodOf[e.container] \in plegDesired
                 THEN {c \in untold : PodOf[c] # PodOf[e.container]} ELSE untold
    /\ UNCHANGED <<containers, cache, plegDesired>>

PlegNext ==
  \/ Relist \/ RelistFails \/ HandleEvent
  \/ \E c \in PlegContainers : ContainerMoves(c)
  \/ \E p \in PlegPods : PodLeaves(p)

----------------------------------------------------------------------------
\* A container that changes is told to its pod's sync unless the pod has left,
\* though relists may fail and the list is older than the sync; and the end of
\* one that a relist has seen is told, too: only a container that comes and goes
\* between two relists is not.
ChangeIsTold ==
  \A c \in PlegContainers :
    LET told == c \notin untold \/ PodOf[c] \notin plegDesired
    IN  /\ c \in untold ~> told \/ (containers[c] = "none" /\ cache[c] = "none")
        /\ c \in untold /\ cache[c] # "none" ~> told
=============================================================================
