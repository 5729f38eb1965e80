------------------------------ MODULE Backends ------------------------------
(***************************************************************************)
(* How the targets of a balancer's listeners follow the nodes:             *)
(* ensureLoadBalancerBackends (tencentcloud_loadbalancer.go), called for   *)
(* one Service by the service controller's worker (EnsureLoadBalancer) and *)
(* by its node sync (UpdateLoadBalancer).  Both may be in it at once.      *)
(*                                                                         *)
(* The balancer exists and has a listener for every port of the Service    *)
(* (module LoadBalancer).  A node stands for its name, which is the        *)
(* address of its machine; a replaced machine is a new generation at the   *)
(* same address.  "nodes" are those that are ready and carry the label of  *)
(* the Service; all machines are in the VPC of the configuration.          *)
(*                                                                         *)
(* A "Slip" is a plausible mistake, not part of the specification.         *)
(***************************************************************************)
EXTENDS Integers, FiniteSets

CONSTANTS
    Ports,          \* ports of the Service
    NodePorts,      \* ports it may get on the nodes
    Nodes,
    BatchSize,      \* targets per call: 20 in the code
    Changes,        \* what changes: subset of ChangeKinds
    Faults,         \* what fails: subset of FaultKinds
    MaxChanges,     \* bound on the number of changes
    MaxFaults       \* bound on the number of faults

ChangeKinds == {"nodes",     \* nodes join and leave
                "ports",     \* the Service gets other node ports
                "machines",  \* machines end or are replaced, unless the node
                             \* or the last node sync still counts on them
                "suddenly"}  \* ... or at any time
FaultKinds  == {"api", "wait", "taskFail", "crash"}

ASSUME BackendsAssumption ==
    /\ BatchSize \in Nat \ {0}
    /\ Changes \subseteq ChangeKinds /\ Faults \subseteq FaultKinds
    /\ MaxChanges \in Nat /\ MaxFaults \in Nat
    /\ IsFiniteSet(Ports) /\ IsFiniteSet(NodePorts) /\ IsFiniteSet(Nodes)

Callers  == {"worker", "nodeSync"}
Gens     == 0 .. MaxChanges
Machine  == [node : Nodes, gen : Gens]
Target   == [port : Ports, node : Nodes, gen : Gens, nodePort : NodePorts]
PortMaps == [Ports -> NodePorts]
Task     == [op : {"register", "deregister"}, targets : SUBSET Target, by : Callers]

VARIABLES
    nodes,          \* ready nodes that carry the label
    gen, gone,      \* generation of the machine at a node's address; is there one?
    nodePort,       \* the Service: the node port of each port
    targets,        \* what the listeners forward to
    running,        \* tasks of the load balancer service
    queued,         \* is the Service in the worker's queue?
    cached,         \* the Service as the worker saw it last: {} or {ports}
    known, retry,   \* node sync: nodes of the last round; the Service to retry
    vmCache,        \* cache "vm_ip_<name>": {} or {generation}
    step,           \* where a caller is
    seenNodes, seenPorts,           \* the Service and the nodes it was given
    wanted, remove, add, task,      \* its locals
    alone,          \* history: callers nobody ran beside so far
    changes, faults

world  == <<nodes, gen, gone, nodePort, changes>>
kube   == <<queued, cached, known, retry>>
seen   == <<seenNodes, seenPorts>>
locals == <<wanted, remove, add, task>>
vars   == <<world, targets, running, kube, vmCache, step, seen, locals, alone, faults>>

TypeOK ==
    /\ nodes \subseteq Nodes /\ gone \subseteq Nodes
    /\ changes \in 0 .. MaxChanges /\ faults \in 0 .. MaxFaults
    /\ gen \in [Nodes -> 0 .. changes]
    /\ nodePort \in PortMaps
    /\ targets \subseteq Target /\ running \subseteq Task
    /\ queued \in BOOLEAN
    /\ cached \subseteq PortMaps /\ retry \subseteq PortMaps
    /\ known \subseteq Nodes
    /\ vmCache \in [Nodes -> SUBSET Gens]
    /\ step \in [Callers -> {"idle", "lookup", "describe", "apply", "wait", "done"}]
    /\ seenNodes \in [Callers -> SUBSET Nodes]
    /\ seenPorts \in [Callers -> SUBSET PortMaps]
    /\ wanted \in [Callers -> SUBSET Target]
    /\ remove \in [Callers -> SUBSET Target] /\ add \in [Callers -> SUBSET Target]
    /\ task \in [Callers -> SUBSET Task]
    /\ alone \subseteq Callers

Living(t) == t.node \notin gone /\ t.gen = gen[t.node]

TargetsOf(found, ports) ==
    {[port |-> p, node |-> m.node, gen |-> m.gen, nodePort |-> ports[p]] :
        p \in Ports, m \in found}

Nothing == [c \in Callers |-> {}]

\* A Service that is in step with its nodes.
Init ==
    /\ nodes \in SUBSET Nodes \ {{}} /\ nodePort \in PortMaps
    /\ gen = [n \in Nodes |-> 0] /\ gone = {}
    /\ targets = TargetsOf([node : nodes, gen : {0}], nodePort)
    /\ running = {}
    /\ queued = FALSE /\ cached = {nodePort}
    /\ known = nodes /\ retry = {}
    /\ vmCache = [n \in Nodes |-> {}]
    /\ step = [c \in Callers |-> "idle"]
    /\ seenNodes = Nothing /\ seenPorts = Nothing
    /\ wanted = Nothing /\ remove = Nothing /\ add = Nothing /\ task = Nothing
    /\ alone = {}
    /\ changes = 0 /\ faults = 0

-----------------------------------------------------------------------------
\* What the code runs in: nodes, machines, users.

Change(kind) ==
    /\ kind \in Changes /\ changes < MaxChanges
    /\ changes' = changes + 1

NodeJoins(n) ==
    /\ Change("nodes") /\ n \notin nodes \cup gone
    /\ nodes' = nodes \cup {n}
    /\ UNCHANGED <<gen, gone, nodePort, targets, running, kube, vmCache, step,
                   seen, locals, alone, faults>>

NodeLeaves(n) ==
    /\ Change("nodes") /\ n \in nodes
    /\ nodes' = nodes \ {n}
    /\ UNCHANGED <<gen, gone, nodePort, targets, running, kube, vmCache, step,
                   seen, locals, alone, faults>>

\* The machine at an address ends, the next one may follow at once.  The
\* load balancer service drops the targets of a machine that ended.
MachineEnds(n) ==
    /\ Change("suddenly") \/ (n \notin nodes \cup known /\ Change("machines"))
    /\ \/ n \notin gone /\ gone' = gone \cup {n} /\ UNCHANGED gen
       \/ gen' = [gen EXCEPT ![n] = @ + 1] /\ gone' = gone \ {n}
    /\ targets' = {t \in targets : t.node # n}
    /\ UNCHANGED <<nodes, nodePort, running, kube, vmCache, step, seen, locals,
                   alone, faults>>

PortsChange ==
    /\ Change("ports")
    /\ nodePort' \in PortMaps \ {nodePort}
    /\ queued' = TRUE
    /\ UNCHANGED <<nodes, gen, gone, targets, running, cached, known, retry,
                   vmCache, step, seen, locals, alone, faults>>

\* An accepted task ends, well ...
TaskSucceeds ==
    /\ \E t \in running :
          /\ running' = running \ {t}
          /\ targets' = IF t.op = "deregister" THEN targets \ t.targets
                        ELSE targets \cup {u \in t.targets : Living(u)}
    /\ UNCHANGED <<world, kube, vmCache, step, seen, locals, alone, faults>>

Fault(kind) ==
    /\ kind \in Faults /\ faults < MaxFaults
    /\ faults' = faults + 1

\* ... or badly.
TaskFails ==
    /\ Fault("taskFail")
    /\ \E t \in running : running' = running \ {t}
    /\ UNCHANGED <<world, targets, kube, vmCache, step, seen, locals, alone>>

Expire(n) ==
    /\ vmCache[n] # {}
    /\ vmCache' = [vmCache EXCEPT ![n] = {}]
    /\ UNCHANGED <<world, targets, running, kube, step, seen, locals, alone, faults>>

\* The process dies and starts again: every Service is queued, and the node
\* sync knows no nodes.
Crash ==
    /\ Fault("crash")
    /\ queued' = TRUE /\ cached' = {} /\ known' = {} /\ retry' = {}
    /\ vmCache' = [n \in Nodes |-> {}]
    /\ step' = [c \in Callers |-> "idle"]
    /\ seenNodes' = Nothing /\ seenPorts' = Nothing
    /\ wanted' = Nothing /\ remove' = Nothing /\ add' = Nothing /\ task' = Nothing
    /\ alone' = {}
    /\ UNCHANGED <<world, targets, running>>

-----------------------------------------------------------------------------
\* The two callers (Kubernetes 1.18, external).

Begin(c, ports) ==
    /\ step[c] = "idle"
    /\ step' = [step EXCEPT ![c] = "lookup"]
    /\ seenNodes' = [seenNodes EXCEPT ![c] = nodes]
    /\ seenPorts' = [seenPorts EXCEPT ![c] = {ports}]
    /\ alone' = IF running = {} /\ \A d \in Callers : step[d] = "idle" THEN {c} ELSE {}
    /\ UNCHANGED <<world, targets, running, vmCache, locals, faults>>

\* The worker takes the Service from its queue and remembers it.
WorkerBegins ==
    /\ queued /\ queued' = FALSE
    /\ cached' = {nodePort}
    /\ Begin("worker", nodePort)
    /\ UNCHANGED <<known, retry>>

\* A round of the node sync: other nodes than last time are told to every
\* remembered Service, otherwise those that failed are tried again, as they
\* were read then.
NodeSyncBegins ==
    /\ IF nodes = known
         THEN \E ports \in retry : Begin("nodeSync", ports)
         ELSE \E ports \in cached : Begin("nodeSync", ports)
    /\ known' = nodes /\ retry' = {}
    /\ UNCHANGED <<queued, cached>>

\* The call returns, its locals are gone.
Return(c) ==
    /\ step' = [step EXCEPT ![c] = "idle"]
    /\ wanted' = [wanted EXCEPT ![c] = {}]
    /\ remove' = [remove EXCEPT ![c] = {}]
    /\ add' = [add EXCEPT ![c] = {}]
    /\ task' = [task EXCEPT ![c] = {}]
    /\ seenNodes' = [seenNodes EXCEPT ![c] = {}]
    /\ seenPorts' = [seenPorts EXCEPT ![c] = {}]
    /\ UNCHANGED alone

\* With an error: the worker queues the Service again, the node sync retries
\* it in its next round.
Error(c) ==
    /\ Return(c)
    /\ queued' = (queued \/ c = "worker")
    /\ retry' = IF c = "nodeSync" THEN seenPorts[c] ELSE retry
    /\ UNCHANGED <<cached, known>>

Goto(c, label) ==
    /\ step' = [step EXCEPT ![c] = label]
    /\ UNCHANGED <<kube, seen, alone>>

Success(c) ==
    /\ step[c] = "done"
    /\ Return(c)
    /\ UNCHANGED <<world, targets, running, kube, vmCache, faults>>

-----------------------------------------------------------------------------
\* Slip: an address without machine yields a nil instance.
MachinesOrNil(n) ==
    IF vmCache[n] # {} THEN vmCache[n]
    ELSE IF n \in gone THEN {-1} ELSE {gen[n]}

\* getInstanceByInstancePrivateIps for one address: the cached machine, else
\* the one that is there now; an address without machine is skipped.
Machines(n) ==
    IF vmCache[n] # {} THEN vmCache[n]
    ELSE IF n \in gone THEN {} ELSE {gen[n]}

\* The cache when the addresses ns have been looked up.
LookedUp(ns) == [n \in Nodes |-> IF n \in ns THEN Machines(n) ELSE vmCache[n]]

WantedOf(c, ns) ==
    UNION {TargetsOf({m \in Machine : m.node \in ns /\ m.gen \in Machines(m.node)}, ports) :
             ports \in seenPorts[c]}

\* Slip: a query that fails counts as one that finds nothing.
QueryErrorIgnored(c) ==
    /\ step[c] = "lookup"
    /\ \/ /\ seenNodes[c] = {}
          /\ Error(c) /\ UNCHANGED <<vmCache, faults>>
       \/ /\ seenNodes[c] # {}
          /\ \E ns \in SUBSET seenNodes[c] :
                /\ vmCache' = LookedUp(ns)
                /\ wanted' = [wanted EXCEPT ![c] = WantedOf(c, ns)]
                /\ Fault("api") \/ (ns = seenNodes[c] /\ UNCHANGED faults)
          /\ Goto(c, "describe") /\ UNCHANGED <<remove, add, task>>
    /\ UNCHANGED <<world, targets, running>>

\* ensureLoadBalancerBackends: no node with the label is an error, otherwise
\* all are looked up; when a query fails those before it stay cached.
ensureLoadBalancerBackends(c) ==
    /\ step[c] = "lookup"
    /\ \/ /\ seenNodes[c] = {}
          /\ Error(c) /\ UNCHANGED <<vmCache, faults>>
       \/ /\ seenNodes[c] # {} /\ Fault("api")
          /\ \E ns \in SUBSET seenNodes[c] : vmCache' = LookedUp(ns)
          /\ Error(c)
       \/ /\ seenNodes[c] # {}
          /\ vmCache' = LookedUp(seenNodes[c])
          /\ wanted' = [wanted EXCEPT ![c] = WantedOf(c, seenNodes[c])]
          /\ Goto(c, "describe") /\ UNCHANGED <<remove, add, task, faults>>
    /\ UNCHANGED <<world, targets, running>>

\* Slip: all targets go before the wanted ones come.
ClearsTargets(c) == targets

SameMachine(t, u) == <<t.port, t.node, t.gen>> = <<u.port, u.node, u.gen>>

\* Slip: machines are compared, node ports are not.
MachineUnwanted(c)  == {t \in targets : \A u \in wanted[c] : ~SameMachine(t, u)}
MachineMissing(c)   == {t \in wanted[c] : \A u \in targets : ~SameMachine(t, u)}

\* The targets nobody wants any more ...
backendsToDelete(c) == targets \ wanted[c]

\* ... and those that are missing.
backendsToAdd(c) == wanted[c] \ targets

\* DescribeTargets, and what to do about the answer.  That a port has no
\* listener, which the code finds between the removals, does not happen here.
describeTargets(c) ==
    /\ step[c] = "describe"
    /\ \/ Fault("api") /\ Error(c)
       \/ /\ remove' = [remove EXCEPT ![c] = backendsToDelete(c)]
          /\ add' = [add EXCEPT ![c] = backendsToAdd(c)]
          /\ Goto(c, "apply") /\ UNCHANGED <<wanted, task, faults>>
    /\ UNCHANGED <<world, targets, running, vmCache>>

\* The batches one may take from a list next: targets of one listener, as
\* many as a call takes or all there are.
Batch(list) ==
    {b \in SUBSET list :
        \E p \in Ports :
           LET ofPort == {t \in list : t.port = p} IN
           /\ b # {} /\ b \subseteq ofPort
           /\ Cardinality(b) = BatchSize \/ (b = ofPort /\ Cardinality(b) < BatchSize)}

\* Of a call on targets that are gone already, or there already, nobody
\* knows whether the service refuses it; it does for a machine that ended.
MayRefuse(op, b) == IF op = "deregister" THEN ~(b \subseteq targets)
                    ELSE (b \cap targets # {}) \/ (\E t \in b : ~Living(t))
Accepts(op, b)   == op = "register" => \A t \in b : Living(t)

Send(c, op, b) ==
    \/ /\ Accepts(op, b)
       /\ LET t == [op |-> op, targets |-> b, by |-> c] IN
             running' = running \cup {t} /\ task' = [task EXCEPT ![c] = {t}]
       /\ remove' = [remove EXCEPT ![c] = @ \ b]
       /\ add' = [add EXCEPT ![c] = @ \ b]
       /\ Goto(c, "wait") /\ UNCHANGED <<wanted, faults>>
    \/ MayRefuse(op, b) /\ Error(c) /\ UNCHANGED <<running, faults>>
    \/ Fault("api") /\ Error(c) /\ UNCHANGED running

\* First all that is to go, of every port, a batch a call ...
deleteLoadBalancerBackends(c) ==
    /\ step[c] = "apply" /\ remove[c] # {}
    /\ \E b \in Batch(remove[c]) : Send(c, "deregister", b)
    /\ UNCHANGED <<world, targets, vmCache>>

\* ... then all that is to come.
addLoadBalancerBackends(c) ==
    /\ step[c] = "apply" /\ remove[c] = {} /\ add[c] # {}
    /\ \E b \in Batch(add[c]) : Send(c, "register", b)
    /\ UNCHANGED <<world, targets, vmCache>>

backendsEnsured(c) ==
    /\ step[c] = "apply" /\ remove[c] = {} /\ add[c] = {}
    /\ Goto(c, "done")
    /\ UNCHANGED <<world, targets, running, vmCache, locals, faults>>

\* Slip: nobody waits.
NotAwaited(t) == TRUE

TaskEnded(t) == t \notin running

\* waitApiTaskDone returns nil once the task has ended, well or badly.
waitApiTaskDone(c) ==
    /\ step[c] = "wait"
    /\ \A t \in task[c] : TaskEnded(t)
    /\ task' = [task EXCEPT ![c] = {}]
    /\ Goto(c, "apply")
    /\ UNCHANGED <<world, targets, running, vmCache, wanted, remove, add, faults>>

\* It gives up, after 30 polls or a failed one; the task runs on.
waitApiTaskFails(c) ==
    /\ step[c] = "wait" /\ Fault("wait")
    /\ Error(c)
    /\ UNCHANGED <<world, targets, running, vmCache>>

-----------------------------------------------------------------------------
Sync(c) ==
    \/ ensureLoadBalancerBackends(c) \/ describeTargets(c)
    \/ deleteLoadBalancerBackends(c) \/ addLoadBalancerBackends(c)
    \/ waitApiTaskDone(c) \/ waitApiTaskFails(c)
    \/ backendsEnsured(c) \/ Success(c)

Environment ==
    \/ \E n \in Nodes : NodeJoins(n) \/ NodeLeaves(n) \/ MachineEnds(n) \/ Expire(n)
    \/ PortsChange
    \/ TaskSucceeds \/ TaskFails \/ Crash

\* Nothing is under way, nothing will be tried again.
Resting ==
    /\ \A c \in Callers : step[c] = "idle"
    /\ ~queued /\ nodes = known /\ retry = {} /\ running = {}

AtRest == Resting /\ UNCHANGED vars

Next ==
    \/ WorkerBegins \/ NodeSyncBegins
    \/ \E c \in Callers : Sync(c)
    \/ Environment
    \/ AtRest

Spec == Init /\ [][Next]_vars

\* Worker and node sync keep working, tasks end, cache entries expire.
Fairness ==
    /\ WF_vars(WorkerBegins) /\ WF_vars(NodeSyncBegins)
    /\ \A c \in Callers : WF_vars(Sync(c))
    /\ WF_vars(TaskSucceeds)
    /\ \A n \in Nodes : WF_vars(Expire(n))

FairSpec == Spec /\ Fairness

-----------------------------------------------------------------------------
\* When a call that ran by itself returns without error, the listeners
\* forward to the machines of the nodes it was given and to nothing else
\* ("the same as the service nodes", ensureLoadBalancerBackends), whatever
\* failed or died before it, and whatever machines end on the way.
AloneIsExact ==
    \A c \in alone : step[c] = "done" => targets = {t \in wanted[c] : Living(t)}

\* A target of a living machine is only taken out of service while a call that
\* does not want it awaits a task (a removal that a call gave up on could come
\* after it, and take out what the next one wants).
TrafficKept ==
    [][\A t \in targets \ targets' :
          Living(t)' => \E c \in Callers : step[c] = "wait" /\ t \notin wanted[c]]_vars

\* What carries the proof of TrafficKept: the one running removal of a caller
\* is the one it awaits, and neither it nor what is left touches what it wants.
RemovalsOwned ==
    /\ \A c \in Callers : /\ remove[c] \cap wanted[c] = {}
                          /\ task[c] # {} => step[c] = "wait"
    /\ \A t \in running : /\ task[t.by] = {t}
                          /\ t.op = "deregister" => t.targets \cap wanted[t.by] = {}

\* What carries the proof of AloneIsExact: of a call by itself, no task but
\* its own is running, what is listed is wanted or about to go, and what is
\* wanted and alive is listed or about to come.
Going(c)  == remove[c] \cup UNION {t.targets : t \in {u \in running : u.op = "deregister"}}
Coming(c) == add[c] \cup UNION {t.targets : t \in {u \in running : u.op = "register"}}
Converging ==
    /\ \A t \in targets : Living(t)
    /\ \A c \in alone :
          /\ step[c] # "idle" => running \subseteq task[c]
          /\ task[c] # {} => step[c] = "wait"
          /\ remove[c] \cap wanted[c] = {} /\ add[c] \subseteq wanted[c]
          /\ \A t \in task[c] : IF t.op = "register" THEN t.targets \subseteq wanted[c]
                                ELSE t.targets \cap wanted[c] = {}
          /\ step[c] \in {"apply", "wait", "done"} =>
                /\ targets \subseteq wanted[c] \cup Going(c)
                /\ {t \in wanted[c] : Living(t)} \subseteq targets \cup Coming(c)
          /\ step[c] = "done" => remove[c] = {} /\ add[c] = {} /\ running = {}

\* The listeners forward to exactly the machines of the nodes there are.
InStep == targets = TargetsOf({m \in Machine : m.node \in nodes /\ Living(m)}, nodePort)

\* When nothing is left to do the listeners are in step with the nodes,
\* unless there is none.
RestsInStep == Resting /\ nodes # {} => InStep

\* Once changes and faults are over they get in step, and stay so.
Converges == <>[](nodes # {} => InStep)
=============================================================================
