---------------------------- MODULE DeviceManager ----------------------------
(***************************************************************************)
(* The device manager for one extended resource and the registration of    *)
(* its plugin: the entries of the plugin map do not touch one another.     *)
(* The plugin process and its socket are external.                         *)
(***************************************************************************)
EXTENDS Integers, FiniteSets

CONSTANTS
  Devices,       \* the devices of the plugin
  HealthSets,    \* the sets of them that may be healthy
  Keys,          \* containers, <<pod, name>> each
  Demand,        \* devices that each container asks for
  MaxCalls,      \* bound: allocations in flight
  MaxRestarts    \* bound: restarts of the plugin and of the kubelet, each

ASSUME DeviceAssumption ==
  IsFiniteSet(Devices) /\ HealthSets \subseteq SUBSET Devices /\ Demand \in [Keys -> Nat]

VARIABLES
  kubeletUp,       \* the registration server and the device manager are there
  rediscoverDue,   \* rediscover_plugins is still to run
  registering,     \* a task of the on_register callback has not run yet
  endpoint,        \* the PluginEndpoint: known, healthy devices, allocations by key
  podAllocations,  \* pod_allocations, by key
  calls,           \* allocations whose Allocate RPC is out
  watching,        \* a ListAndWatch stream is open
  registryFile,    \* the plugin is in device_plugin_registry.json
  plugin,          \* the plugin process: up, its socket, its healthy devices
  restarts         \* restarts so far: of the plugin, of the kubelet

deviceVars == <<kubeletUp, rediscoverDue, registering, endpoint, podAllocations, calls, watching, registryFile, plugin, restarts>>

NoAllocations == [k \in Keys |-> {}]
NewEndpoint   == [known |-> TRUE, healthy |-> {}, allocations |-> NoAllocations]
NoEndpoint    == [known |-> FALSE, healthy |-> {}, allocations |-> NoAllocations]
PodOfKey(k)   == k[1]

DeviceTypeOK ==
  /\ {kubeletUp, rediscoverDue, registering, watching, registryFile} \subseteq BOOLEAN
  /\ endpoint \in [known : BOOLEAN, healthy : SUBSET Devices, allocations : [Keys -> SUBSET Devices]]
  /\ podAllocations \in [Keys -> SUBSET Devices]
  /\ calls \subseteq [key : Keys, ids : SUBSET Devices]
  /\ plugin \in [up : BOOLEAN, sock : BOOLEAN, healthy : SUBSET Devices]
  /\ restarts \in [{"plugin", "kubelet"} -> 0 .. MaxRestarts]

DeviceInit ==
  /\ kubeletUp = FALSE
  /\ rediscoverDue = FALSE
  /\ registering = FALSE
  /\ endpoint = NoEndpoint
  /\ podAllocations = NoAllocations
  /\ calls = {}
  /\ watching = FALSE
  /\ registryFile = FALSE
  /\ plugin = [up |-> TRUE, sock |-> FALSE, healthy |-> Devices]
  /\ restarts = [x \in {"plugin", "kubelet"} |-> 0]

----------------------------------------------------------------------------
\* Registration

\* Mutant of Serve: the sockets of the plugins are left alone.
ServeKeepsSockets ==
  /\ ~kubeletUp
  /\ kubeletUp' = TRUE
  /\ rediscoverDue' = TRUE
  /\ UNCHANGED <<registering, endpoint, podAllocations, calls, watching, registryFile, plugin, restarts>>

\* PluginRegistrationServer::serve: every socket in the directory is removed, so
\* that the plugins notice and register again.
Serve ==
  /\ ~kubeletUp
  /\ kubeletUp' = TRUE
  /\ rediscoverDue' = TRUE
  /\ plugin' = [plugin EXCEPT !.sock = FALSE]
  /\ UNCHANGED <<registering, endpoint, podAllocations, calls, watching, registryFile, restarts>>

\* The plugin (re)creates its socket and calls Register, which is accepted
\* whether or not the socket is there; the callback spawns a task.
Register ==
  /\ kubeletUp /\ plugin.up /\ ~plugin.sock
  /\ plugin' = [plugin EXCEPT !.sock = TRUE]
  /\ registering' = TRUE
  /\ UNCHANGED <<kubeletUp, rediscoverDue, endpoint, podAllocations, calls, watching, registryFile, restarts>>

\* register_plugin: a new endpoint replaces the one there was, with its device
\* list and its allocations; the registry file is written and a watch started,
\* which is over at once when nobody answers at the socket.
RegisterPlugin ==
  /\ endpoint' = NewEndpoint
  /\ registryFile' = TRUE
  /\ watching' = (watching \/ (plugin.up /\ plugin.sock))

RegisterTask ==
  /\ kubeletUp /\ registering
  /\ registering' = FALSE
  /\ RegisterPlugin
  /\ UNCHANGED <<kubeletUp, rediscoverDue, podAllocations, calls, plugin, restarts>>

\* rediscover_plugins, once and 2 s after the start.
RediscoverPlugins ==
  /\ kubeletUp /\ rediscoverDue
  /\ rediscoverDue' = FALSE
  /\ IF registryFile /\ plugin.sock THEN RegisterPlugin ELSE UNCHANGED <<endpoint, registryFile, watching>>
  /\ UNCHANGED <<kubeletUp, registering, podAllocations, calls, plugin, restarts>>

\* scan_and_register, for a caller that does not wait for the plugin.
ScanAndRegister ==
  /\ kubeletUp /\ plugin.sock
  /\ RegisterPlugin
  /\ UNCHANGED <<kubeletUp, rediscoverDue, registering, podAllocations, calls, plugin, restarts>>

----------------------------------------------------------------------------
\* The device list

\* spawn_plugin_watch: a message of the stream replaces the list of whatever
\* endpoint the resource has now.
WatchUpdate ==
  /\ kubeletUp /\ watching /\ plugin.up /\ endpoint.known
  /\ endpoint' = [endpoint EXCEPT !.healthy = plugin.healthy]
  /\ UNCHANGED <<kubeletUp, rediscoverDue, registering, podAllocations, calls, watching, registryFile, plugin, restarts>>

\* The stream ends or fails: the endpoint keeps its list.
WatchEnds ==
  /\ watching /\ ~plugin.up
  /\ watching' = FALSE
  /\ UNCHANGED <<kubeletUp, rediscoverDue, registering, endpoint, podAllocations, calls, registryFile, plugin, restarts>>

\* refresh_plugin_devices: one message of a stream of its own.
RefreshPluginDevices ==
  /\ kubeletUp /\ endpoint.known /\ plugin.up /\ plugin.sock
  /\ endpoint' = [endpoint EXCEPT !.healthy = plugin.healthy]
  /\ UNCHANGED <<kubeletUp, rediscoverDue, registering, podAllocations, calls, watching, registryFile, plugin, restarts>>

----------------------------------------------------------------------------
\* Allocation

Allocated == UNION {endpoint.allocations[k] : k \in Keys}

\* Mutant of AllocateDevices: what is in use is not left out.
AllocateDevicesAny(count) == {ids \in SUBSET endpoint.healthy : Cardinality(ids) = count}

\* allocate_devices: the first ones of the list that are healthy and not in use;
\* the order is the plugin's.  Empty when there are too few.
AllocateDevices(count) == {ids \in SUBSET (endpoint.healthy \ Allocated) : Cardinality(ids) = count}

\* allocate, up to the RPC: the devices are taken under the lock, in place of
\* what the container had, and the lock is let go.
AllocateBegin(k) ==
  /\ kubeletUp /\ endpoint.known
  /\ Cardinality(calls) < MaxCalls
  /\ \E ids \in AllocateDevices(Demand[k]) :
       /\ endpoint' = [endpoint EXCEPT !.allocations[k] = ids]
       /\ calls' = calls \cup {[key |-> k, ids |-> ids]}
  /\ UNCHANGED <<kubeletUp, rediscoverDue, registering, podAllocations, watching, registryFile, plugin, restarts>>

\* call_allocate was answered: the devices are recorded for the release.
AllocateDone(c) ==
  /\ c \in calls /\ plugin.up
  /\ calls' = calls \ {c}
  /\ podAllocations' = [podAllocations EXCEPT ![c.key] = @ \cup c.ids]
  /\ UNCHANGED <<kubeletUp, rediscoverDue, registering, endpoint, watching, registryFile, plugin, restarts>>

\* Mutant of AllocateFailed: the devices stay taken.
AllocateFailedKept(c) ==
  /\ c \in calls
  /\ calls' = calls \ {c}
  /\ UNCHANGED <<kubeletUp, rediscoverDue, registering, endpoint, podAllocations, watching, registryFile, plugin, restarts>>

\* The RPC failed: the allocation is removed from the endpoint there is now.
AllocateFailed(c) ==
  /\ c \in calls
  /\ calls' = calls \ {c}
  /\ endpoint' = [endpoint EXCEPT !.allocations[c.key] = {}]
  /\ UNCHANGED <<kubeletUp, rediscoverDue, registering, podAllocations, watching, registryFile, plugin, restarts>>

\* What deallocate_pod leaves of the two maps.
Released(p) == [k \in Keys |-> IF PodOfKey(k) = p THEN podAllocations[k] ELSE {}]

DeallocatePod(p) ==
  /\ endpoint' = [endpoint EXCEPT !.allocations = [k \in Keys |-> @[k] \ Released(p)[k]]]
  /\ podAllocations' = [k \in Keys |-> IF PodOfKey(k) = p THEN {} ELSE podAllocations[k]]
  /\ UNCHANGED <<kubeletUp, rediscoverDue, registering, calls, watching, registryFile, plugin, restarts>>

----------------------------------------------------------------------------
\* The outside: the plugin stops, starts, or finds a device broken or well; the
\* kubelet stops and its memory is gone.

PluginStops ==
  /\ plugin.up /\ restarts["plugin"] < MaxRestarts
  /\ plugin' = [plugin EXCEPT !.up = FALSE]
  /\ restarts' = [restarts EXCEPT !["plugin"] = @ + 1]
  /\ UNCHANGED <<kubeletUp, rediscoverDue, registering, endpoint, podAllocations, calls, watching, registryFile>>

PluginStarts ==
  /\ ~plugin.up
  /\ plugin' = [plugin EXCEPT !.up = TRUE, !.sock = FALSE]
  /\ UNCHANGED <<kubeletUp, rediscoverDue, registering, endpoint, podAllocations, calls, watching, registryFile, restarts>>

HealthChanges ==
  /\ plugin.up
  /\ plugin' \in {[plugin EXCEPT !.healthy = h] : h \in HealthSets}
  /\ UNCHANGED <<kubeletUp, rediscoverDue, registering, endpoint, podAllocations, calls, watching, registryFile, restarts>>

KubeletStops ==
  /\ kubeletUp /\ restarts["kubelet"] < MaxRestarts
  /\ kubeletUp' = FALSE
  /\ rediscoverDue' = FALSE
  /\ registering' = FALSE
  /\ endpoint' = NoEndpoint
  /\ podAllocations' = NoAllocations
  /\ calls' = {}
  /\ watching' = FALSE
  /\ restarts' = [restarts EXCEPT !["kubelet"] = @ + 1]
  /\ UNCHANGED <<registryFile, plugin>>

\* What nobody waits for: it is left out of the fairness.
DeviceWorld == PluginStops \/ HealthChanges \/ KubeletStops \/ RefreshPluginDevices \/ ScanAndRegister

DeviceSteps == Serve \/ Register \/ RegisterTask \/ RediscoverPlugins \/ WatchEnds \/ PluginStarts

AllocationSteps ==
  \/ \E k \in Keys : Demand[k] > 0 /\ AllocateBegin(k)
  \/ \E c \in calls : AllocateDone(c) \/ AllocateFailed(c)
  \/ \E k \in Keys : kubeletUp /\ DeallocatePod(PodOfKey(k))

----------------------------------------------------------------------------
\* No device is handed to two containers of one registration of the plugin,
\* however the calls of concurrent syncs overlap, fail and are released.
DevicesExclusive == \A k, l \in Keys : k # l => endpoint.allocations[k] \cap endpoint.allocations[l] = {}

\* What a container holds is recorded where the release of its pod finds it,
\* unless the answer to its call is still out: nothing can be taken for good.
DeviceBooks ==
  \A k \in Keys : (\A c \in calls : c.key # k) => endpoint.allocations[k] \subseteq podAllocations[k]

\* A plugin that stays up is known, with the devices it has, again after every
\* restart of its own or of the kubelet, though rediscover_plugins finds no
\* socket left: the removal of the sockets makes the plugins come back.
PluginIsKnown ==
  kubeletUp /\ plugin.up ~> (endpoint.known /\ endpoint.healthy = plugin.healthy) \/ ~kubeletUp \/ ~plugin.up
=============================================================================
