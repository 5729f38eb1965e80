--------------------------- MODULE BackendsProofs ---------------------------
(***************************************************************************)
(* Proofs about Backends, for any Ports, Nodes and batch size, and for any *)
(* number of changes and faults of the kinds a theorem names.              *)
(***************************************************************************)
EXTENDS BackendsOneSide, TLAPS

USE BackendsAssumption

\* TypeOK in parts, which the actions touch one at a time.
Labels == {"idle", "lookup", "describe", "apply", "wait", "done"}
WorldOK ==
    /\ nodes \subseteq Nodes /\ gone \subseteq Nodes
    /\ changes \in 0 .. MaxChanges
    /\ gen \in [Nodes -> 0 .. changes]
    /\ nodePort \in PortMaps
CloudOK == targets \subseteq Target /\ running \subseteq Task
KubeOK ==
    /\ queued \in BOOLEAN
    /\ cached \subseteq PortMaps /\ retry \subseteq PortMaps
    /\ known \subseteq Nodes
CacheOK == vmCache \in [Nodes -> SUBSET Gens]
CallOK ==
    /\ step \in [Callers -> Labels]
    /\ seenNodes \in [Callers -> SUBSET Nodes]
    /\ seenPorts \in [Callers -> SUBSET PortMaps]
    /\ alone \subseteq Callers
LocalsOK ==
    /\ wanted \in [Callers -> SUBSET Target]
    /\ remove \in [Callers -> SUBSET Target] /\ add \in [Callers -> SUBSET Target]
    /\ task \in [Callers -> SUBSET Task]
FaultsOK == faults \in 0 .. MaxFaults

LEMMA TypeInParts ==
  TypeOK <=> WorldOK /\ CloudOK /\ KubeOK /\ CacheOK /\ CallOK /\ LocalsOK /\ FaultsOK
BY DEF TypeOK, WorldOK, CloudOK, KubeOK, CacheOK, CallOK, LocalsOK, FaultsOK, Labels

LEMMA TypeInPartsNext ==
  TypeOK' <=> WorldOK' /\ CloudOK' /\ KubeOK' /\ CacheOK' /\ CallOK' /\ LocalsOK' /\ FaultsOK'
BY TypeInParts, PTL

LEMMA Kept ==
  ASSUME TypeOK
  PROVE  /\ UNCHANGED world => WorldOK'
         /\ UNCHANGED <<targets, running>> => CloudOK'
         /\ UNCHANGED kube => KubeOK'
         /\ UNCHANGED vmCache => CacheOK'
         /\ UNCHANGED <<step, seen, alone>> => CallOK'
         /\ UNCHANGED locals => LocalsOK'
         /\ UNCHANGED faults => FaultsOK'
BY DEF TypeOK, WorldOK, CloudOK, KubeOK, CacheOK, CallOK, LocalsOK, FaultsOK, Labels,
       world, kube, seen, locals

LEMMA FaultType == ASSUME TypeOK, NEW kind, Fault(kind) PROVE FaultsOK'
BY DEF TypeOK, Fault, FaultsOK

\* The targets of a lookup are targets.
LEMMA MachinesType == ASSUME TypeOK, NEW n \in Nodes PROVE Machines(n) \in SUBSET Gens
BY DEF TypeOK, Machines, Gens

LEMMA TargetsType ==
  ASSUME NEW found \in SUBSET Machine, NEW ports \in PortMaps
  PROVE  TargetsOf(found, ports) \subseteq Target
BY DEF TargetsOf, Target, Machine, PortMaps

LEMMA WantedType ==
  ASSUME TypeOK, NEW c \in Callers, NEW ns
  PROVE  WantedOf(c, ns) \subseteq Target
<1> DEFINE found == {m \in Machine : m.node \in ns /\ m.gen \in Machines(m.node)}
<1>1. found \in SUBSET Machine
  OBVIOUS
<1> HIDE DEF found
<1>2. \A ports \in seenPorts[c] : TargetsOf(found, ports) \subseteq Target
  BY <1>1, TargetsType DEF TypeOK
<1>3. WantedOf(c, ns) = UNION {TargetsOf(found, ports) : ports \in seenPorts[c]}
  BY DEF WantedOf, found
<1>4. UNION {TargetsOf(found, ports) : ports \in seenPorts[c]} \subseteq Target
  BY <1>2, Zenon
<1> QED
  BY <1>3, <1>4

LEMMA LookedUpType ==
  ASSUME TypeOK, NEW ns PROVE LookedUp(ns) \in [Nodes -> SUBSET Gens]
BY MachinesType DEF LookedUp, TypeOK

\* A call returns, well or with an error; it moves on.
LEMMA ReturnType ==
  ASSUME TypeOK, NEW c \in Callers, Return(c)
  PROVE  CallOK' /\ LocalsOK'
BY DEF Return, TypeOK, CallOK, LocalsOK, Labels

LEMMA ErrorType ==
  ASSUME TypeOK, NEW c \in Callers, Error(c)
  PROVE  CallOK' /\ LocalsOK' /\ KubeOK'
<1>1. CallOK' /\ LocalsOK'
  BY ReturnType DEF Error
<1>2. queued' \in BOOLEAN
  BY DEF Error, TypeOK
<1> QED
  BY <1>1, <1>2 DEF Error, TypeOK, KubeOK

LEMMA GotoType ==
  ASSUME TypeOK, NEW c \in Callers, NEW label \in Labels, Goto(c, label)
  PROVE  CallOK' /\ KubeOK'
BY DEF Goto, TypeOK, CallOK, KubeOK, Labels, kube, seen

LEMMA InitTyped == Init => TypeOK
<1> SUFFICES ASSUME Init PROVE TypeOK
  OBVIOUS
<1>1. targets \subseteq Target
  <2>1. [node : nodes, gen : {0}] \in SUBSET Machine
    BY DEF Init, Machine, Gens
  <2> QED
    BY <2>1, TargetsType DEF Init
<1>2. WorldOK
  <2>1. gen \in [Nodes -> 0 .. changes] /\ changes \in 0 .. MaxChanges
    BY DEF Init
  <2> QED
    BY <2>1 DEF Init, WorldOK
<1>3. KubeOK /\ CacheOK /\ FaultsOK
  <2>1. nodePort \in PortMaps /\ {nodePort} \subseteq PortMaps
    BY DEF Init
  <2>2. vmCache \in [Nodes -> SUBSET Gens]
    BY DEF Init
  <2>3. faults \in 0 .. MaxFaults
    BY DEF Init
  <2> QED
    BY <2>1, <2>2, <2>3 DEF Init, KubeOK, CacheOK, FaultsOK
<1>4. CallOK /\ LocalsOK
  <2>1. \A s : Nothing \in [Callers -> SUBSET s]
    BY DEF Nothing
  <2>2. step \in [Callers -> Labels]
    BY DEF Init, Labels
  <2> QED
    BY <2>1, <2>2 DEF Init, CallOK, LocalsOK
<1>5. CloudOK
  BY <1>1 DEF Init, CloudOK
<1> QED
  BY <1>2, <1>3, <1>4, <1>5, TypeInParts

\* Nodes, machines and users.
LEMMA EnvironmentTyped == ASSUME TypeOK, Environment PROVE TypeOK'
<1>1. ASSUME NEW n \in Nodes, NodeJoins(n) \/ NodeLeaves(n) PROVE TypeOK'
  <2>1. WorldOK'
    BY <1>1 DEF NodeJoins, NodeLeaves, Change, TypeOK, WorldOK
  <2> QED
    BY <1>1, <2>1, Kept, TypeInPartsNext DEF NodeJoins, NodeLeaves
<1>2. ASSUME NEW n \in Nodes, MachineEnds(n) PROVE TypeOK'
  <2>1. changes' = changes + 1 /\ changes' \in 0 .. MaxChanges
    BY <1>2 DEF MachineEnds, Change, TypeOK
  <2>2. gen' = gen \/ gen' = [gen EXCEPT ![n] = gen[n] + 1]
    BY <1>2 DEF MachineEnds
  <2>3. gen' \in [Nodes -> 0 .. changes']
    BY <2>1, <2>2 DEF TypeOK
  <2>4. gone' \subseteq Nodes /\ targets' \subseteq Target
    BY <1>2 DEF MachineEnds, TypeOK
  <2>5. WorldOK' /\ CloudOK'
    BY <1>2, <2>1, <2>3, <2>4 DEF MachineEnds, TypeOK, WorldOK, CloudOK
  <2> QED
    BY <1>2, <2>5, Kept, TypeInPartsNext DEF MachineEnds
<1>3. CASE PortsChange
  <2>1. WorldOK' /\ KubeOK'
    BY <1>3 DEF PortsChange, Change, TypeOK, WorldOK, KubeOK
  <2> QED
    BY <1>3, <2>1, Kept, TypeInPartsNext DEF PortsChange
<1>4. CASE TaskSucceeds
  <2>1. PICK t \in running :
          /\ running' = running \ {t}
          /\ targets' = IF t.op = "deregister" THEN targets \ t.targets
                        ELSE targets \cup {u \in t.targets : Living(u)}
    BY <1>4 DEF TaskSucceeds
  <2>2. t.targets \subseteq Target
    BY DEF TypeOK, Task
  <2>3. CloudOK'
    BY <2>1, <2>2 DEF TypeOK, CloudOK
  <2> QED
    BY <1>4, <2>3, Kept, TypeInPartsNext DEF TaskSucceeds
<1>5. CASE TaskFails
  <2>1. CloudOK' /\ FaultsOK'
    BY <1>5, FaultType DEF TaskFails, TypeOK, CloudOK
  <2> QED
    BY <1>5, <2>1, Kept, TypeInPartsNext DEF TaskFails
<1>6. ASSUME NEW n \in Nodes, Expire(n) PROVE TypeOK'
  <2>1. CacheOK'
    BY <1>6 DEF Expire, TypeOK, CacheOK
  <2> QED
    BY <1>6, <2>1, Kept, TypeInPartsNext DEF Expire
<1>7. CASE Crash
  <2>1. KubeOK' /\ CacheOK' /\ CallOK' /\ LocalsOK' /\ FaultsOK'
    BY <1>7, FaultType DEF Crash, KubeOK, CacheOK, CallOK, LocalsOK, Nothing, Labels
  <2> QED
    BY <1>7, <2>1, Kept, TypeInPartsNext DEF Crash
<1> QED
  BY <1>1, <1>2, <1>3, <1>4, <1>5, <1>6, <1>7 DEF Environment

\* A call of the worker, or of the node sync, begins.
LEMMA BeginTyped ==
  ASSUME TypeOK, NEW c \in Callers, NEW ports \in PortMaps, Begin(c, ports)
  PROVE  CallOK'
<1>1. {ports} \in SUBSET PortMaps /\ nodes \in SUBSET Nodes
  BY DEF TypeOK
<1> QED
  BY <1>1 DEF Begin, TypeOK, CallOK, Labels

LEMMA BeginsTyped == ASSUME TypeOK, WorkerBegins \/ NodeSyncBegins PROVE TypeOK'
<1>1. CASE WorkerBegins
  <2>1. Begin("worker", nodePort) /\ nodePort \in PortMaps /\ "worker" \in Callers
    BY <1>1 DEF WorkerBegins, TypeOK, Callers
  <2>2. CallOK'
    BY <2>1, BeginTyped
  <2>3. KubeOK'
    BY <1>1 DEF WorkerBegins, TypeOK, KubeOK
  <2> QED
    BY <2>1, <2>2, <2>3, Kept, TypeInPartsNext DEF Begin
<1>2. CASE NodeSyncBegins
  <2>1. PICK ports \in PortMaps : Begin("nodeSync", ports)
    BY <1>2 DEF NodeSyncBegins, TypeOK
  <2>2. CallOK'
    BY <2>1, BeginTyped DEF Callers
  <2>3. KubeOK'
    BY <1>2 DEF NodeSyncBegins, TypeOK, KubeOK
  <2> QED
    BY <2>1, <2>2, <2>3, Kept, TypeInPartsNext DEF Begin
<1> QED
  BY <1>1, <1>2

LEMMA LookupTyped ==
  ASSUME TypeOK, NEW c \in Callers, ensureLoadBalancerBackends(c) PROVE TypeOK'
<1>1. WorldOK' /\ CloudOK'
  BY Kept DEF ensureLoadBalancerBackends
<1>2. CacheOK' /\ FaultsOK'
  BY LookedUpType, FaultType, Kept DEF ensureLoadBalancerBackends, CacheOK
<1>3. CallOK' /\ KubeOK' /\ LocalsOK'
  <2>1. CASE Error(c)
    BY <2>1, ErrorType
  <2>2. CASE /\ wanted' = [wanted EXCEPT ![c] = WantedOf(c, seenNodes[c])]
             /\ Goto(c, "describe") /\ UNCHANGED <<remove, add, task>>
    BY <2>2, WantedType, GotoType DEF TypeOK, LocalsOK, Labels
  <2> QED
    BY <2>1, <2>2 DEF ensureLoadBalancerBackends
<1> QED
  BY <1>1, <1>2, <1>3, TypeInPartsNext

LEMMA DescribeTyped ==
  ASSUME TypeOK, NEW c \in Callers, describeTargets(c) PROVE TypeOK'
<1>1. WorldOK' /\ CloudOK' /\ CacheOK'
  BY Kept DEF describeTargets
<1>2. FaultsOK'
  BY FaultType, Kept DEF describeTargets
<1>3. CallOK' /\ KubeOK' /\ LocalsOK'
  <2>1. CASE Error(c)
    BY <2>1, ErrorType
  <2>2. CASE /\ remove' = [remove EXCEPT ![c] = backendsToDelete(c)]
             /\ add' = [add EXCEPT ![c] = backendsToAdd(c)]
             /\ Goto(c, "apply") /\ UNCHANGED <<wanted, task>>
    <3>1. backendsToDelete(c) \subseteq Target /\ backendsToAdd(c) \subseteq Target
      BY DEF backendsToDelete, backendsToAdd, TypeOK
    <3> QED
      BY <2>2, <3>1, GotoType DEF TypeOK, LocalsOK, Labels
  <2> QED
    BY <2>1, <2>2 DEF describeTargets
<1> QED
  BY <1>1, <1>2, <1>3, TypeInPartsNext

\* A batch of a list is a part of it.
LEMMA BatchPart == ASSUME NEW list, NEW b \in Batch(list) PROVE b \subseteq list
BY DEF Batch

LEMMA SendTyped ==
  ASSUME TypeOK, NEW c \in Callers, NEW op \in {"register", "deregister"},
         NEW b \in SUBSET Target, Send(c, op, b), UNCHANGED <<world, targets, vmCache>>
  PROVE  TypeOK'
<1>1. WorldOK' /\ CacheOK'
  BY Kept
<1>2. FaultsOK'
  BY FaultType, Kept DEF Send
<1>3. CloudOK' /\ CallOK' /\ KubeOK' /\ LocalsOK'
  <2>1. CASE Error(c) /\ UNCHANGED running
    BY <2>1, ErrorType, Kept
  <2>2. ASSUME NEW t, t = [op |-> op, targets |-> b, by |-> c],
               running' = running \cup {t}, task' = [task EXCEPT ![c] = {t}],
               remove' = [remove EXCEPT ![c] = @ \ b], add' = [add EXCEPT ![c] = @ \ b],
               Goto(c, "wait"), UNCHANGED <<wanted, faults>>
        PROVE  CloudOK' /\ CallOK' /\ KubeOK' /\ LocalsOK'
    <3>1. t \in Task
      BY <2>2 DEF Task
    <3>2. CloudOK' /\ LocalsOK'
      BY <2>2, <3>1 DEF TypeOK, CloudOK, LocalsOK
    <3> QED
      BY <2>2, <3>2, GotoType DEF Labels
  <2> QED
    BY <2>1, <2>2 DEF Send
<1> QED
  BY <1>1, <1>2, <1>3, TypeInPartsNext

LEMMA SyncTyped == ASSUME TypeOK, NEW c \in Callers, Sync(c) PROVE TypeOK'
<1>1. CASE deleteLoadBalancerBackends(c)
  <2>1. PICK b \in Batch(remove[c]) : Send(c, "deregister", b)
    BY <1>1 DEF deleteLoadBalancerBackends
  <2>2. b \in SUBSET Target
    BY BatchPart DEF TypeOK
  <2> QED
    BY <1>1, <2>1, <2>2, SendTyped DEF deleteLoadBalancerBackends
<1>2. CASE addLoadBalancerBackends(c)
  <2>1. PICK b \in Batch(add[c]) : Send(c, "register", b)
    BY <1>2 DEF addLoadBalancerBackends
  <2>2. b \in SUBSET Target
    BY BatchPart DEF TypeOK
  <2> QED
    BY <1>2, <2>1, <2>2, SendTyped DEF addLoadBalancerBackends
<1>3. CASE waitApiTaskDone(c)
  <2>1. LocalsOK'
    BY <1>3 DEF waitApiTaskDone, TypeOK, LocalsOK
  <2> QED
    BY <1>3, <2>1, GotoType, Kept, TypeInPartsNext DEF waitApiTaskDone, Labels
<1>4. CASE waitApiTaskFails(c)
  BY <1>4, ErrorType, FaultType, Kept, TypeInPartsNext DEF waitApiTaskFails
<1>5. CASE backendsEnsured(c)
  BY <1>5, GotoType, Kept, TypeInPartsNext DEF backendsEnsured, Labels
<1>6. CASE Success(c)
  BY <1>6, ReturnType, Kept, TypeInPartsNext DEF Success
<1> QED
  BY <1>1, <1>2, <1>3, <1>4, <1>5, <1>6, LookupTyped, DescribeTyped DEF Sync

\* Every variable keeps its type, whatever fails.
THEOREM TypeCorrect == Spec => []TypeOK
<1>1. TypeOK /\ [Next]_vars => TypeOK'
  <2>1. UNCHANGED vars => UNCHANGED <<world, targets, running, kube, vmCache, step, seen,
                                      locals, alone, faults>>
    BY DEF vars
  <2> QED
    BY <2>1, BeginsTyped, SyncTyped, EnvironmentTyped, Kept, TypeInPartsNext DEF Next, AtRest
<1> QED
  BY <1>1, InitTyped, PTL DEF Spec

-----------------------------------------------------------------------------
(***************************************************************************)
(* Traffic is kept.  RemovalsOwned is inductive with two more facts: a     *)
(* call that has not looked at the targets yet has nothing to remove, and  *)
(* what is listed is alive.  No caller gives up on a task or dies, so the  *)
(* running task of a caller is the one it awaits.                          *)
(***************************************************************************)
TargetsLive == \A t \in targets : Living(t)
NothingYet  == \A c \in Callers : step[c] \in {"idle", "lookup"} => remove[c] = {}
Owned       == TypeOK /\ RemovalsOwned /\ NothingYet

\* A caller whose task is over, or never was, owns no running one.
LEMMA NoTaskOfMine ==
  ASSUME Owned, NEW c \in Callers, step[c] # "wait", NEW t \in running
  PROVE  t.by # c
BY DEF Owned, RemovalsOwned

LEMMA OwnerIsCaller == ASSUME TypeOK, NEW t \in running PROVE t.by \in Callers
BY DEF TypeOK, Task

LEMMA OwnedKept ==
  ASSUME Owned, TypeOK', UNCHANGED <<wanted, remove, task, step>>, running' \subseteq running
  PROVE  Owned'
BY DEF Owned, RemovalsOwned, NothingYet

\* A call that ends leaves nothing behind.
LEMMA OwnedReturn ==
  ASSUME Owned, TypeOK', NEW c \in Callers, Return(c), step[c] # "wait", UNCHANGED running
  PROVE  Owned'
<1>1. \A d \in Callers \ {c} : /\ step'[d] = step[d] /\ wanted'[d] = wanted[d]
                               /\ remove'[d] = remove[d] /\ task'[d] = task[d]
  BY DEF Return, Owned, TypeOK
<1>2. /\ step'[c] = "idle" /\ wanted'[c] = {} /\ remove'[c] = {} /\ task'[c] = {}
  BY DEF Return, Owned, TypeOK
<1>3. \A t \in running : t.by \in Callers \ {c}
  BY NoTaskOfMine, OwnerIsCaller DEF Owned
<1> QED
  BY <1>1, <1>2, <1>3 DEF Owned, RemovalsOwned, NothingYet

LEMMA OwnedLookup ==
  ASSUME Owned, TypeOK', NEW c \in Callers, ensureLoadBalancerBackends(c)
  PROVE  Owned'
<1>1. step[c] = "lookup" /\ UNCHANGED running
  BY DEF ensureLoadBalancerBackends
<1>2. CASE Error(c)
  BY <1>1, <1>2, OwnedReturn DEF Error
<1>3. CASE /\ wanted' = [wanted EXCEPT ![c] = WantedOf(c, seenNodes[c])]
           /\ Goto(c, "describe") /\ UNCHANGED <<remove, add, task>>
  <2>1. /\ remove[c] = {} /\ task[c] = {}
    BY <1>1 DEF Owned, RemovalsOwned, NothingYet
  <2>2. \A d \in Callers \ {c} : step'[d] = step[d] /\ wanted'[d] = wanted[d]
    BY <1>3 DEF Goto, Owned, TypeOK
  <2>3. \A t \in running : t.by \in Callers \ {c}
    BY <1>1, NoTaskOfMine, OwnerIsCaller DEF Owned
  <2>4. step'[c] = "describe"
    BY <1>3 DEF Goto, Owned, TypeOK
  <2> QED
    BY <1>1, <1>3, <2>1, <2>2, <2>3, <2>4 DEF Owned, RemovalsOwned, NothingYet
<1> QED
  BY <1>2, <1>3 DEF ensureLoadBalancerBackends

LEMMA OwnedDescribe ==
  ASSUME Owned, TypeOK', NEW c \in Callers, describeTargets(c)
  PROVE  Owned'
<1>1. step[c] = "describe" /\ UNCHANGED running
  BY DEF describeTargets
<1>2. CASE Error(c)
  BY <1>1, <1>2, OwnedReturn DEF Error
<1>3. CASE /\ remove' = [remove EXCEPT ![c] = backendsToDelete(c)]
           /\ Goto(c, "apply") /\ UNCHANGED <<wanted, task>>
  <2>1. /\ task[c] = {} /\ remove'[c] \cap wanted[c] = {}
    BY <1>1, <1>3 DEF Owned, RemovalsOwned, TypeOK, backendsToDelete
  <2>2. \A d \in Callers \ {c} : step'[d] = step[d] /\ remove'[d] = remove[d]
    BY <1>3 DEF Goto, Owned, TypeOK
  <2>3. step'[c] = "apply"
    BY <1>3 DEF Goto, Owned, TypeOK
  <2> QED
    BY <1>1, <1>3, <2>1, <2>2, <2>3 DEF Owned, RemovalsOwned, NothingYet
<1> QED
  BY <1>2, <1>3 DEF describeTargets

LEMMA OwnedSend ==
  ASSUME Owned, TypeOK', NEW c \in Callers, NEW op, NEW b,
         op = "deregister" => b \subseteq remove[c],
         step[c] = "apply", Send(c, op, b)
  PROVE  Owned'
<1>1. CASE Error(c) /\ UNCHANGED running
  BY <1>1, OwnedReturn DEF Error
<1>2. ASSUME NEW t, t = [op |-> op, targets |-> b, by |-> c],
             running' = running \cup {t}, task' = [task EXCEPT ![c] = {t}],
             remove' = [remove EXCEPT ![c] = @ \ b], Goto(c, "wait"), UNCHANGED wanted
      PROVE  Owned'
  <2>1. \A d \in Callers \ {c} : /\ step'[d] = step[d] /\ task'[d] = task[d]
                                 /\ remove'[d] = remove[d]
    BY <1>2 DEF Goto, Owned, TypeOK
  <2>2. step'[c] = "wait" /\ task'[c] = {t} /\ remove'[c] = remove[c] \ b
    BY <1>2 DEF Goto, Owned, TypeOK
  <2>3. t.by = c /\ t.op = op /\ t.targets = b
    BY <1>2
  <2>4. \A u \in running : u.by \in Callers \ {c}
    BY NoTaskOfMine, OwnerIsCaller DEF Owned
  <2>5. NothingYet'
    BY <2>1, <2>2 DEF Owned, NothingYet
  <2>6. \A d \in Callers : /\ remove'[d] \cap wanted'[d] = {}
                           /\ task'[d] # {} => step'[d] = "wait"
    BY <1>2, <2>1, <2>2 DEF Owned, RemovalsOwned
  <2>7. op = "deregister" => b \cap wanted[c] = {}
    BY DEF Owned, RemovalsOwned
  <2>8. \A u \in running' :
           /\ task'[u.by] = {u}
           /\ u.op = "deregister" => u.targets \cap wanted'[u.by] = {}
    <3>1. ASSUME NEW u \in running
          PROVE  /\ task'[u.by] = {u}
                 /\ u.op = "deregister" => u.targets \cap wanted'[u.by] = {}
      BY <1>2, <2>1, <2>4 DEF Owned, RemovalsOwned
    <3> QED
      BY <1>2, <2>2, <2>3, <2>7, <3>1
  <2> QED
    BY <2>5, <2>6, <2>8 DEF Owned, RemovalsOwned
<1> QED
  BY <1>1, <1>2 DEF Send

LEMMA OwnedStep ==
  ASSUME Faults \subseteq {"api", "taskFail"}, Owned, TypeOK', [Next]_vars
  PROVE  Owned'
<1>1. CASE UNCHANGED vars \/ AtRest
  BY <1>1, OwnedKept DEF vars, AtRest, locals
<1>2. ASSUME NEW c \in Callers, NEW ports, Begin(c, ports) PROVE Owned'
  <2>1. step[c] = "idle" /\ step' = [step EXCEPT ![c] = "lookup"] /\ UNCHANGED <<running, locals>>
    BY <1>2 DEF Begin
  <2>2. /\ step'[c] = "lookup" /\ task[c] = {} /\ remove[c] = {}
        /\ \A d \in Callers \ {c} : step'[d] = step[d]
    BY <2>1 DEF Owned, RemovalsOwned, NothingYet, TypeOK
  <2> QED
    BY <2>1, <2>2 DEF Owned, RemovalsOwned, NothingYet, locals
<1>3. ASSUME NEW c \in Callers, Sync(c) PROVE Owned'
  <2>1. CASE deleteLoadBalancerBackends(c)
    BY <2>1, OwnedSend, BatchPart DEF deleteLoadBalancerBackends
  <2>2. CASE addLoadBalancerBackends(c)
    BY <2>2, OwnedSend DEF addLoadBalancerBackends
  <2>3. CASE waitApiTaskDone(c)
    <3>1. /\ \A d \in Callers \ {c} : step'[d] = step[d] /\ task'[d] = task[d]
          /\ task'[c] = {} /\ step'[c] = "apply"
      BY <2>3 DEF waitApiTaskDone, Goto, Owned, TypeOK
    <3>2. \A t \in running : t.by \in Callers \ {c}
      BY <2>3, OwnerIsCaller DEF waitApiTaskDone, TaskEnded, Owned, RemovalsOwned
    <3>3. UNCHANGED <<running, wanted, remove>>
      BY <2>3 DEF waitApiTaskDone
    <3> QED
      BY <3>1, <3>2, <3>3 DEF Owned, RemovalsOwned, NothingYet
  <2>4. CASE waitApiTaskFails(c)
    BY <2>4 DEF waitApiTaskFails, Fault
  <2>5. CASE backendsEnsured(c)
    <3>1. /\ step[c] = "apply" /\ step' = [step EXCEPT ![c] = "done"]
          /\ UNCHANGED <<running, wanted, remove, task>>
      BY <2>5 DEF backendsEnsured, Goto, locals
    <3>2. /\ step'[c] = "done" /\ task[c] = {}
          /\ \A d \in Callers \ {c} : step'[d] = step[d]
      BY <3>1 DEF Owned, RemovalsOwned, TypeOK
    <3> QED
      BY <3>1, <3>2 DEF Owned, RemovalsOwned, NothingYet
  <2>6. CASE Success(c)
    BY <2>6, OwnedReturn DEF Success
  <2> QED
    BY <1>3, <2>1, <2>2, <2>3, <2>4, <2>5, <2>6, OwnedLookup, OwnedDescribe DEF Sync
<1>4. CASE Environment
  <2>1. ~Crash
    BY DEF Crash, Fault
  <2>2. UNCHANGED <<wanted, remove, task, step>> /\ running' \subseteq running
    BY <1>4, <2>1 DEF Environment, NodeJoins, NodeLeaves, MachineEnds, Expire, PortsChange,
                      TaskSucceeds, TaskFails, locals
  <2> QED
    BY <2>2, OwnedKept
<1> QED
  BY <1>1, <1>2, <1>3, <1>4 DEF Next, WorkerBegins, NodeSyncBegins, Callers

LEMMA OwnedInit == Init => Owned
<1> SUFFICES ASSUME Init PROVE Owned
  OBVIOUS
<1>1. \A c \in Callers : remove[c] = {} /\ wanted[c] = {} /\ task[c] = {}
  BY DEF Init, Nothing
<1>2. running = {}
  BY DEF Init
<1> QED
  BY <1>1, <1>2, InitTyped DEF Owned, RemovalsOwned, NothingYet

\* While no call gives up on a task or dies, a running removal is the one its
\* caller awaits, and spares what that caller wants.
THEOREM RemovalsAreOwned ==
  Faults \subseteq {"api", "taskFail"} => (Spec => []RemovalsOwned)
<1> SUFFICES ASSUME Faults \subseteq {"api", "taskFail"} PROVE Spec => []RemovalsOwned
  OBVIOUS
<1>1. Owned /\ TypeOK' /\ [Next]_vars => Owned'
  BY OwnedStep
<1>2. Owned => RemovalsOwned
  BY DEF Owned
<1> QED
  BY <1>1, <1>2, OwnedInit, TypeCorrect, PTL DEF Spec

\* What the listeners forward to is alive, whatever fails.
LEMMA OnlyLiveTargets == Spec => []TargetsLive
<1>1. Init => TargetsLive
  BY DEF Init, TargetsLive, TargetsOf, Living
<1>2. TypeOK /\ TargetsLive /\ [Next]_vars => TargetsLive'
  <2> SUFFICES ASSUME TypeOK, TargetsLive, [Next]_vars PROVE TargetsLive'
    OBVIOUS
  <2>1. CASE UNCHANGED <<targets, gen, gone>>
    BY <2>1 DEF TargetsLive, Living
  <2>2. ASSUME NEW n \in Nodes, MachineEnds(n) PROVE TargetsLive'
    <3>1. \A t \in targets' : t \in targets /\ t.node # n /\ t.node \in Nodes
      BY <2>2 DEF MachineEnds, TypeOK, Target
    <3>2. \A m \in Nodes \ {n} : gen'[m] = gen[m] /\ (m \in gone' => m \in gone)
      BY <2>2 DEF MachineEnds, TypeOK
    <3> QED
      BY <3>1, <3>2 DEF TargetsLive, Living
  <2>3. CASE TaskSucceeds
    BY <2>3 DEF TaskSucceeds, TargetsLive, Living, world
  <2>4. ASSUME NEW c \in Callers, Sync(c) PROVE UNCHANGED <<targets, world>>
    BY <2>4 DEF Sync, ensureLoadBalancerBackends, describeTargets, deleteLoadBalancerBackends,
        addLoadBalancerBackends, waitApiTaskDone, waitApiTaskFails, backendsEnsured, Success
  <2>5. Environment /\ ~TaskSucceeds /\ ~(\E n \in Nodes : MachineEnds(n))
          => UNCHANGED <<targets, gen, gone>>
    BY DEF Environment, NodeJoins, NodeLeaves, Expire, PortsChange, TaskFails, Crash, world
  <2>6. WorkerBegins \/ NodeSyncBegins => UNCHANGED <<targets, world>>
    BY DEF WorkerBegins, NodeSyncBegins, Begin
  <2> QED
    BY <2>1, <2>2, <2>3, <2>4, <2>5, <2>6 DEF Next, AtRest, vars, world
<1> QED
  BY <1>1, <1>2, TypeCorrect, PTL DEF Spec

\* A living target is only taken out of service while a call that does not want
\* it awaits a task, however many nodes, ports and changes there are.
THEOREM TrafficIsKept ==
  Faults \subseteq {"api", "taskFail"} => (Spec => TrafficKept)
<1> SUFFICES ASSUME Faults \subseteq {"api", "taskFail"} PROVE Spec => TrafficKept
  OBVIOUS
<1> DEFINE Kind == \A t \in targets \ targets' :
          Living(t)' => \E c \in Callers : step[c] = "wait" /\ t \notin wanted[c]
<1>1. TypeOK /\ TargetsLive /\ RemovalsOwned /\ [Next]_vars => [Kind]_vars
  <2> SUFFICES ASSUME TypeOK, TargetsLive, RemovalsOwned, [Next]_vars,
                      NEW t \in targets, t \notin targets', Living(t)'
               PROVE  \E c \in Callers : step[c] = "wait" /\ t \notin wanted[c]
    BY DEF Kind
  <2>1. CASE TaskSucceeds
    <3>1. PICK u \in running : u.op = "deregister" /\ t \in u.targets
      BY <2>1 DEF TaskSucceeds
    <3>2. u.by \in Callers /\ step[u.by] = "wait" /\ t \notin wanted[u.by]
      BY <3>1, OwnerIsCaller DEF RemovalsOwned
    <3> QED
      BY <3>2
  <2>2. ASSUME NEW n \in Nodes, MachineEnds(n) PROVE FALSE
    <3>1. t.node = n /\ t.gen = gen[n] /\ gen[n] \in Int
      BY <2>2 DEF MachineEnds, TypeOK, TargetsLive, Living
    <3>2. n \notin gone' /\ t.gen = gen'[n]
      BY <3>1 DEF Living
    <3>3. gen' = [gen EXCEPT ![n] = @ + 1]
      BY <2>2, <3>2 DEF MachineEnds
    <3> QED
      BY <3>1, <3>2, <3>3 DEF TypeOK
  <2>3. ASSUME NEW c \in Callers, Sync(c) PROVE UNCHANGED targets
    BY <2>3 DEF Sync, ensureLoadBalancerBackends, describeTargets, deleteLoadBalancerBackends,
        addLoadBalancerBackends, waitApiTaskDone, waitApiTaskFails, backendsEnsured, Success
  <2>4. Environment /\ ~TaskSucceeds /\ ~(\E n \in Nodes : MachineEnds(n)) => UNCHANGED targets
    BY DEF Environment, NodeJoins, NodeLeaves, Expire, PortsChange, TaskFails, Crash
  <2>5. WorkerBegins \/ NodeSyncBegins => UNCHANGED targets
    BY DEF WorkerBegins, NodeSyncBegins, Begin
  <2> QED
    BY <2>1, <2>2, <2>3, <2>4, <2>5 DEF Next, AtRest, vars
<1> QED
  BY <1>1, TypeCorrect, OnlyLiveTargets, RemovalsAreOwned, PTL DEF Spec, TrafficKept

-----------------------------------------------------------------------------
(***************************************************************************)
(* A call by itself is exact.  Converging is stated element by element     *)
(* (Mine) and becomes inductive with four more facts: a call that has not  *)
(* compared yet has empty lists, only a caller that waits has a task, the  *)
(* others are idle beside a call that is alone, and no machine is cached   *)
(* or wanted before it exists.  Tasks may be given up on, the process may  *)
(* die; tasks do not fail.                                                 *)
(***************************************************************************)
Mine(c) ==
    /\ step[c] # "idle" => running \subseteq task[c]
    /\ remove[c] \cap wanted[c] = {} /\ add[c] \subseteq wanted[c]
    /\ \A t \in task[c] : /\ t.op = "register" => t.targets \subseteq wanted[c]
                          /\ t.op = "deregister" => t.targets \cap wanted[c] = {}
    /\ step[c] \in {"apply", "wait", "done"} =>
          /\ \A x \in targets : \/ x \in wanted[c] \cup remove[c]
                                \/ \E u \in running : u.op = "deregister" /\ x \in u.targets
          /\ \A x \in wanted[c] : Living(x) =>
                \/ x \in targets \cup add[c]
                \/ \E u \in running : u.op = "register" /\ x \in u.targets
    /\ step[c] = "done" => remove[c] = {} /\ add[c] = {} /\ running = {}

Fresh == \A c \in Callers :
            /\ step[c] # "wait" => task[c] = {}
            /\ step[c] \in {"idle", "lookup", "describe"} => remove[c] = {} /\ add[c] = {}
OthersIdle == \A c \in alone : \A d \in Callers \ {c} : step[d] = "idle"
PastCached == \A n \in Nodes : \A g \in vmCache[n] : g <= gen[n]
PastWanted == \A c \in Callers : \A t \in wanted[c] : t.gen <= gen[t.node]
AllMine    == \A c \in alone : Mine(c)

LEMMA MineConverges == TargetsLive /\ Fresh /\ AllMine /\ TypeOK => Converging
<1> SUFFICES ASSUME TargetsLive, Fresh, AllMine, TypeOK PROVE Converging
  OBVIOUS
<1> SUFFICES ASSUME NEW c \in alone
             PROVE  /\ step[c] # "idle" => running \subseteq task[c]
                    /\ task[c] # {} => step[c] = "wait"
                    /\ remove[c] \cap wanted[c] = {} /\ add[c] \subseteq wanted[c]
                    /\ \A t \in task[c] :
                          IF t.op = "register" THEN t.targets \subseteq wanted[c]
                          ELSE t.targets \cap wanted[c] = {}
                    /\ step[c] \in {"apply", "wait", "done"} =>
                          /\ targets \subseteq wanted[c] \cup Going(c)
                          /\ {t \in wanted[c] : Living(t)} \subseteq targets \cup Coming(c)
                    /\ step[c] = "done" => remove[c] = {} /\ add[c] = {} /\ running = {}
  BY DEF Converging, TargetsLive
<1>1. Mine(c) /\ c \in Callers
  BY DEF AllMine, TypeOK
<1>2. \A x : x \in Going(c) <=> \/ x \in remove[c]
                                \/ \E u \in running : u.op = "deregister" /\ x \in u.targets
  BY Zenon DEF Going
<1>3. \A x : x \in Coming(c) <=> \/ x \in add[c]
                                 \/ \E u \in running : u.op = "register" /\ x \in u.targets
  BY Zenon DEF Coming
<1>4. \A t \in task[c] : t.op = "register" \/ t.op = "deregister"
  BY <1>1 DEF TypeOK, Task
<1>5. task[c] # {} => step[c] = "wait"
  BY <1>1 DEF Fresh
<1>6. step[c] \in {"apply", "wait", "done"} =>
          /\ targets \subseteq wanted[c] \cup Going(c)
          /\ {t \in wanted[c] : Living(t)} \subseteq targets \cup Coming(c)
  BY <1>1, <1>2, <1>3 DEF Mine
<1> QED
  BY <1>1, <1>4, <1>5, <1>6 DEF Mine

\* Of the machine at an address no later one is cached or found.
LEMMA MachinesPast ==
  ASSUME TypeOK, PastCached, NEW n \in Nodes PROVE \A g \in Machines(n) : g <= gen[n]
BY DEF TypeOK, PastCached, Machines

LEMMA WantedPast ==
  ASSUME TypeOK, PastCached, NEW c \in Callers, NEW ns
  PROVE  \A t \in WantedOf(c, ns) : t.gen <= gen[t.node]
<1> DEFINE found == {m \in Machine : m.node \in ns /\ m.gen \in Machines(m.node)}
<1>1. \A m \in found : m.gen <= gen[m.node]
  BY MachinesPast DEF Machine
<1> HIDE DEF found
<1>2. \A ports : \A t \in TargetsOf(found, ports) : t.gen <= gen[t.node]
  BY <1>1 DEF TargetsOf
<1>3. WantedOf(c, ns) = UNION {TargetsOf(found, ports) : ports \in seenPorts[c]}
  BY DEF WantedOf, found
<1>4. \A t \in WantedOf(c, ns) : \E ports : t \in TargetsOf(found, ports)
  BY <1>3, Zenon
<1> QED
  BY <1>2, <1>4

LEMMA PastStep ==
  ASSUME TypeOK, TypeOK', PastCached, PastWanted, [Next]_vars
  PROVE  PastCached' /\ PastWanted'
<1>1. CASE UNCHANGED <<gen, vmCache, wanted>>
  BY <1>1 DEF PastCached, PastWanted
<1>2. ASSUME NEW n \in Nodes, MachineEnds(n) PROVE PastCached' /\ PastWanted'
  <2>1. \A m \in Nodes : gen[m] \in Int /\ gen'[m] \in Int /\ gen[m] <= gen'[m]
    BY <1>2 DEF MachineEnds, TypeOK
  <2>2. UNCHANGED <<vmCache, wanted>>
    BY <1>2 DEF MachineEnds, locals
  <2>3. /\ \A m \in Nodes : \A g \in vmCache[m] : g \in Int
        /\ \A c \in Callers : \A t \in wanted[c] : t.node \in Nodes /\ t.gen \in Int
    BY DEF TypeOK, Target, Gens
  <2>4. PastCached'
    BY <2>1, <2>2, <2>3 DEF PastCached
  <2>5. PastWanted'
    BY <2>1, <2>2, <2>3 DEF PastWanted
  <2> QED
    BY <2>4, <2>5
<1>3. ASSUME NEW n \in Nodes, Expire(n) PROVE PastCached' /\ PastWanted'
  BY <1>3 DEF Expire, TypeOK, PastCached, PastWanted, world, locals
<1>4. CASE Crash
  BY <1>4 DEF Crash, PastCached, PastWanted, Nothing
<1>5. ASSUME NEW c \in Callers, Return(c), UNCHANGED gen PROVE PastWanted'
  BY <1>5 DEF Return, TypeOK, PastWanted
<1>6. ASSUME NEW c \in Callers, Sync(c) PROVE PastCached' /\ PastWanted'
  <2>1. UNCHANGED gen
    BY <1>6 DEF Sync, ensureLoadBalancerBackends, describeTargets, deleteLoadBalancerBackends,
        addLoadBalancerBackends, waitApiTaskDone, waitApiTaskFails, backendsEnsured, Success, world
  <2>2. CASE ensureLoadBalancerBackends(c)
    <3>1. UNCHANGED vmCache \/ \E ns : vmCache' = LookedUp(ns)
      BY <2>2 DEF ensureLoadBalancerBackends
    <3>2. PastCached'
      BY <2>1, <3>1, MachinesPast DEF LookedUp, PastCached
    <3>3. CASE Error(c)
      BY <2>1, <3>2, <3>3, <1>5 DEF Error
    <3>4. CASE wanted' = [wanted EXCEPT ![c] = WantedOf(c, seenNodes[c])]
      BY <2>1, <3>2, <3>4, WantedPast DEF PastWanted, TypeOK
    <3> QED
      BY <2>2, <3>3, <3>4 DEF ensureLoadBalancerBackends
  <2>3. ~ensureLoadBalancerBackends(c) => UNCHANGED vmCache /\ (UNCHANGED wanted \/ Return(c))
    BY <1>6 DEF Sync, describeTargets, deleteLoadBalancerBackends, addLoadBalancerBackends,
        waitApiTaskDone, waitApiTaskFails, backendsEnsured, Success, Send, Error, locals
  <2>4. UNCHANGED vmCache => PastCached'
    BY <2>1 DEF PastCached
  <2>5. UNCHANGED wanted => PastWanted'
    BY <2>1 DEF PastWanted
  <2> QED
    BY <2>1, <2>2, <2>3, <2>4, <2>5, <1>5
<1>7. Environment /\ ~Crash /\ ~(\E n \in Nodes : MachineEnds(n) \/ Expire(n))
        => UNCHANGED <<gen, vmCache, wanted>>
  BY DEF Environment, NodeJoins, NodeLeaves, PortsChange, TaskSucceeds, TaskFails, world, locals
<1>8. WorkerBegins \/ NodeSyncBegins => UNCHANGED <<gen, vmCache, wanted>>
  BY DEF WorkerBegins, NodeSyncBegins, Begin, world, locals
<1> QED
  BY <1>1, <1>2, <1>3, <1>4, <1>6, <1>7, <1>8 DEF Next, AtRest, vars, world, locals

Steady == Fresh /\ OthersIdle /\ AllMine /\ TargetsLive
Exact  == TypeOK /\ PastCached /\ PastWanted /\ Steady

\* What a step of one caller leaves alone, and how it shows that it is steady.
LEMMA SyncFrame ==
  ASSUME TypeOK, OthersIdle, NEW c \in Callers, Sync(c)
  PROVE  /\ step[c] # "idle" /\ alone \subseteq {c} /\ UNCHANGED <<targets, world, alone>>
         /\ \A d \in Callers \ {c} : step'[d] = step[d] /\ task'[d] = task[d]
                                     /\ remove'[d] = remove[d] /\ add'[d] = add[d]
<1>1. step[c] # "idle" /\ UNCHANGED <<targets, world, alone>>
  BY DEF Sync, ensureLoadBalancerBackends, describeTargets, deleteLoadBalancerBackends,
      addLoadBalancerBackends, waitApiTaskDone, waitApiTaskFails, backendsEnsured, Success,
      Send, Error, Goto, Return
<1>2. \A d \in alone : d = c
  BY <1>1 DEF OthersIdle, TypeOK
<1>3. \/ step' = step \/ \E l : step' = [step EXCEPT ![c] = l]
  BY DEF Sync, ensureLoadBalancerBackends, describeTargets, deleteLoadBalancerBackends,
      addLoadBalancerBackends, waitApiTaskDone, waitApiTaskFails, backendsEnsured, Success,
      Send, Error, Goto, Return
<1>4. /\ \E l : task' = [task EXCEPT ![c] = l] \/ task' = task
      /\ \E l : remove' = [remove EXCEPT ![c] = l] \/ remove' = remove
      /\ \E l : add' = [add EXCEPT ![c] = l] \/ add' = add
  BY DEF Sync, ensureLoadBalancerBackends, describeTargets, deleteLoadBalancerBackends,
      addLoadBalancerBackends, waitApiTaskDone, waitApiTaskFails, backendsEnsured, Success,
      Send, Error, Goto, Return, locals
<1> QED
  BY <1>1, <1>2, <1>3, <1>4 DEF TypeOK

LEMMA SteadyBySync ==
  ASSUME TypeOK, Steady, NEW c \in Callers, Sync(c),
         step'[c] # "wait" => task'[c] = {},
         step'[c] \in {"idle", "lookup", "describe"} => remove'[c] = {} /\ add'[c] = {},
         Mine(c) => Mine(c)'
  PROVE  Steady'
<1>1. /\ step[c] # "idle" /\ alone \subseteq {c} /\ UNCHANGED <<targets, world, alone>>
      /\ \A d \in Callers \ {c} : step'[d] = step[d] /\ task'[d] = task[d]
                                  /\ remove'[d] = remove[d] /\ add'[d] = add[d]
  BY SyncFrame DEF Steady
<1>2. Fresh'
  BY <1>1 DEF Steady, Fresh
<1>3. OthersIdle'
  BY <1>1 DEF Steady, OthersIdle
<1>4. AllMine'
  BY <1>1 DEF Steady, AllMine
<1>5. TargetsLive'
  BY <1>1 DEF Steady, TargetsLive, Living, world
<1> QED
  BY <1>2, <1>3, <1>4, <1>5 DEF Steady

\* A call that returns has nothing left to go wrong.
LEMMA SteadyReturn ==
  ASSUME TypeOK, Steady, NEW c \in Callers, Sync(c), Return(c)
  PROVE  Steady'
<1>1. step'[c] = "idle" /\ wanted'[c] = {} /\ remove'[c] = {} /\ add'[c] = {} /\ task'[c] = {}
  BY DEF Return, TypeOK
<1>2. Mine(c)'
  BY <1>1 DEF Mine
<1> QED
  BY <1>1, <1>2, SteadyBySync

LEMMA SteadyCompare ==
  ASSUME TypeOK, Steady, NEW c \in Callers, Sync(c),
         ensureLoadBalancerBackends(c) \/ describeTargets(c)
  PROVE  Steady'
<1>1. CASE Error(c)
  BY <1>1, SteadyReturn DEF Error
<1>2. CASE /\ step[c] = "lookup" /\ Goto(c, "describe")
           /\ UNCHANGED <<remove, add, task, running, targets>>
  <2>1. step'[c] = "describe" /\ remove[c] = {} /\ add[c] = {} /\ task[c] = {}
    BY <1>2 DEF Goto, TypeOK, Steady, Fresh
  <2>2. Mine(c) => Mine(c)'
    BY <1>2, <2>1 DEF Mine
  <2> QED
    BY <1>2, <2>1, <2>2, SteadyBySync
<1>3. CASE /\ step[c] = "describe" /\ Goto(c, "apply")
           /\ remove' = [remove EXCEPT ![c] = backendsToDelete(c)]
           /\ add' = [add EXCEPT ![c] = backendsToAdd(c)]
           /\ UNCHANGED <<wanted, task, running, targets>>
  <2>1. /\ step'[c] = "apply" /\ task[c] = {}
        /\ remove'[c] = targets \ wanted[c] /\ add'[c] = wanted[c] \ targets
    BY <1>3 DEF Goto, TypeOK, Steady, Fresh, backendsToDelete, backendsToAdd
  <2>2. Mine(c) => Mine(c)'
    BY <1>3, <2>1 DEF Mine
  <2> QED
    BY <1>3, <2>1, <2>2, SteadyBySync
<1> QED
  BY <1>1, <1>2, <1>3 DEF ensureLoadBalancerBackends, describeTargets

LEMMA SteadySend ==
  ASSUME TypeOK, Steady, NEW c \in Callers, Sync(c), step[c] = "apply",
         UNCHANGED <<targets, world>>,
         NEW op \in {"register", "deregister"}, NEW b, Send(c, op, b),
         op = "deregister" => b \subseteq remove[c],
         op = "register" => b \subseteq add[c]
  PROVE  Steady'
<1>1. CASE Error(c)
  BY <1>1, SteadyReturn DEF Error
<1>2. ASSUME NEW t, t = [op |-> op, targets |-> b, by |-> c],
             running' = running \cup {t}, task' = [task EXCEPT ![c] = {t}],
             remove' = [remove EXCEPT ![c] = @ \ b], add' = [add EXCEPT ![c] = @ \ b],
             Goto(c, "wait"), UNCHANGED wanted
      PROVE  Steady'
  <2>1. /\ step'[c] = "wait" /\ task'[c] = {t} /\ task[c] = {}
        /\ remove'[c] = remove[c] \ b /\ add'[c] = add[c] \ b
    BY <1>2 DEF Goto, TypeOK, Steady, Fresh
  <2>2. t.op = op /\ t.targets = b
    BY <1>2
  <2>3. ASSUME Mine(c) PROVE Mine(c)'
    <3>1. running' = {t} /\ running = {}
      BY <1>2, <2>1, <2>3 DEF Mine
    <3>2. /\ remove[c] \cap wanted[c] = {} /\ add[c] \subseteq wanted[c]
          /\ op = "register" => b \subseteq wanted[c]
          /\ op = "deregister" => b \cap wanted[c] = {}
      BY <2>3 DEF Mine
    <3>3. /\ \A x \in targets : x \in wanted[c] \cup remove[c]
          /\ \A x \in wanted[c] : Living(x) => x \in targets \cup add[c]
      BY <2>3, <3>1 DEF Mine
    <3>4. \A x \in targets : \/ x \in wanted[c] \cup remove'[c]
                             \/ op = "deregister" /\ x \in b
      BY <2>1, <3>2, <3>3
    <3>5. \A x \in wanted[c] : Living(x) => \/ x \in targets \cup add'[c]
                                            \/ op = "register" /\ x \in b
      BY <2>1, <3>2, <3>3
    <3>6. \A x : Living(x)' <=> Living(x)
      BY DEF Living, world
    <3> QED
      BY <1>2, <2>1, <2>2, <3>1, <3>2, <3>4, <3>5, <3>6 DEF Mine
  <2> QED
    BY <2>1, <2>3, SteadyBySync
<1> QED
  BY <1>1, <1>2 DEF Send

LEMMA SteadySync == ASSUME TypeOK, Steady, NEW c \in Callers, Sync(c) PROVE Steady'
<1>1. CASE deleteLoadBalancerBackends(c)
  BY <1>1, SteadySend, BatchPart DEF deleteLoadBalancerBackends
<1>2. CASE addLoadBalancerBackends(c)
  BY <1>2, SteadySend, BatchPart DEF addLoadBalancerBackends
<1>3. CASE waitApiTaskDone(c)
  <2>1. /\ step[c] = "wait" /\ step'[c] = "apply" /\ task'[c] = {}
        /\ UNCHANGED <<running, wanted, remove, add, targets, world>>
        /\ \A t \in task[c] : t \notin running
    BY <1>3 DEF waitApiTaskDone, TaskEnded, Goto, TypeOK
  <2>2. \A x : Living(x)' <=> Living(x)
    BY <2>1 DEF Living, world
  <2>3. Mine(c) => Mine(c)'
    BY <2>1, <2>2 DEF Mine
  <2> QED
    BY <2>1, <2>3, SteadyBySync
<1>4. CASE waitApiTaskFails(c)
  BY <1>4, SteadyReturn DEF waitApiTaskFails, Error
<1>5. CASE backendsEnsured(c)
  <2>1. /\ step[c] = "apply" /\ step'[c] = "done" /\ remove[c] = {} /\ add[c] = {} /\ task[c] = {}
        /\ UNCHANGED <<running, wanted, remove, add, task, targets, world>>
    BY <1>5 DEF backendsEnsured, Goto, TypeOK, Steady, Fresh, locals
  <2>2. \A x : Living(x)' <=> Living(x)
    BY <2>1 DEF Living, world
  <2>3. Mine(c) => Mine(c)'
    BY <2>1, <2>2 DEF Mine
  <2> QED
    BY <2>1, <2>3, SteadyBySync
<1>6. CASE Success(c)
  BY <1>6, SteadyReturn DEF Success
<1> QED
  BY <1>1, <1>2, <1>3, <1>4, <1>5, <1>6, SteadyCompare DEF Sync

LEMMA SteadyBegin ==
  ASSUME TypeOK, Steady, NEW c \in Callers, NEW ports, Begin(c, ports)
  PROVE  Steady'
<1>1. /\ step[c] = "idle" /\ step' = [step EXCEPT ![c] = "lookup"]
      /\ UNCHANGED <<world, targets, running, remove, add, task, wanted>>
      /\ alone' = IF running = {} /\ \A d \in Callers : step[d] = "idle" THEN {c} ELSE {}
  BY DEF Begin, locals
<1>2. /\ step'[c] = "lookup" /\ \A d \in Callers \ {c} : step'[d] = step[d]
      /\ task[c] = {} /\ remove[c] = {} /\ add[c] = {}
  BY <1>1 DEF TypeOK, Steady, Fresh
<1>3. Fresh'
  BY <1>1, <1>2 DEF Steady, Fresh
<1>4. OthersIdle'
  BY <1>1, <1>2 DEF Steady, OthersIdle
<1>5. AllMine'
  <2>1. SUFFICES ASSUME running = {}, alone' = {c} PROVE Mine(c)'
    BY <1>1 DEF AllMine
  <2> QED
    BY <1>1, <1>2, <2>1 DEF Mine
<1>6. TargetsLive'
  BY <1>1 DEF Steady, TargetsLive, Living, world
<1> QED
  BY <1>3, <1>4, <1>5, <1>6 DEF Steady

\* Tasks that end and machines that end: what a call by itself has counted on
\* happens, or is not wanted any more.
LEMMA SteadyTask ==
  ASSUME TypeOK, Steady, TaskSucceeds PROVE Steady'
<1>1. PICK t \in running :
          /\ running' = running \ {t}
          /\ targets' = IF t.op = "deregister" THEN targets \ t.targets
                        ELSE targets \cup {u \in t.targets : Living(u)}
  BY DEF TaskSucceeds
<1>2. UNCHANGED <<world, step, remove, add, task, wanted, alone>>
  BY DEF TaskSucceeds, locals
<1>3. \A x : Living(x)' <=> Living(x)
  BY <1>2 DEF Living, world
<1>4. t.op = "register" \/ t.op = "deregister"
  BY DEF TypeOK, Task
<1>5. ASSUME NEW c \in alone, Mine(c) PROVE Mine(c)'
  <2>1. CASE step[c] \in {"idle", "lookup", "describe"}
    <3>1. running' \subseteq running
      BY <1>1
    <3> QED
      BY <1>2, <1>5, <2>1, <3>1 DEF Mine
  <2>2. CASE step[c] \in {"apply", "wait", "done"}
    <3>1. /\ t \in task[c]
          /\ t.op = "register" => t.targets \subseteq wanted[c]
          /\ t.op = "deregister" => t.targets \cap wanted[c] = {}
      BY <1>5, <2>2 DEF Mine
    <3>2. \A x \in targets' : \/ x \in wanted[c] \cup remove[c]
                              \/ \E u \in running' : u.op = "deregister" /\ x \in u.targets
      <4>1. CASE t.op = "deregister"
        BY <1>1, <1>5, <2>2, <4>1 DEF Mine
      <4>2. CASE t.op = "register"
        BY <1>1, <1>5, <2>2, <3>1, <4>2 DEF Mine
      <4> QED
        BY <1>4, <4>1, <4>2
    <3>3. \A x \in wanted[c] : Living(x) =>
                \/ x \in targets' \cup add[c]
                \/ \E u \in running' : u.op = "register" /\ x \in u.targets
      <4>1. CASE t.op = "deregister"
        BY <1>1, <1>5, <2>2, <3>1, <4>1 DEF Mine
      <4>2. CASE t.op = "register"
        BY <1>1, <1>5, <2>2, <4>2 DEF Mine
      <4> QED
        BY <1>4, <4>1, <4>2
    <3>4. /\ step[c] # "idle" => running' \subseteq task[c]
          /\ step[c] = "done" => remove[c] = {} /\ add[c] = {} /\ running' = {}
      BY <1>1, <1>5 DEF Mine
    <3> QED
      BY <1>2, <1>3, <1>5, <3>2, <3>3, <3>4 DEF Mine
  <2> QED
    BY <2>1, <2>2 DEF TypeOK
<1>6. AllMine'
  BY <1>2, <1>5 DEF Steady, AllMine
<1>7. Fresh' /\ OthersIdle'
  BY <1>2 DEF Steady, Fresh, OthersIdle
<1>8. TargetsLive'
  BY <1>1, <1>3 DEF Steady, TargetsLive
<1> QED
  BY <1>6, <1>7, <1>8 DEF Steady

LEMMA SteadyMachine ==
  ASSUME TypeOK, PastWanted, Steady, NEW n \in Nodes, MachineEnds(n) PROVE Steady'
<1>1. /\ UNCHANGED <<running, step, remove, add, task, wanted, alone>>
      /\ targets' = {t \in targets : t.node # n}
  BY DEF MachineEnds, locals
<1>2. \A t : t.node \in Nodes /\ Living(t)' /\ t.node # n => Living(t)
  BY DEF MachineEnds, TypeOK, Living
<1>3. \A t : t.node = n /\ t.gen \in Int /\ t.gen <= gen[n] => ~Living(t)'
  <2>1. n \in gone' \/ gen'[n] = gen[n] + 1
    BY DEF MachineEnds, TypeOK
  <2>2. gen[n] \in Int
    BY DEF TypeOK
  <2> QED
    BY <2>1, <2>2 DEF Living
<1>4. \A m \in Nodes \ {n} : gen'[m] = gen[m] /\ (m \in gone' => m \in gone)
  BY DEF MachineEnds, TypeOK
<1>5. \A t \in targets' : t \in targets /\ t.node \in Nodes \ {n}
  BY <1>1 DEF TypeOK, Target
<1>6. TargetsLive'
  BY <1>4, <1>5 DEF Steady, TargetsLive, Living
<1>7. ASSUME NEW c \in alone, Mine(c) PROVE Mine(c)'
  <2>1. c \in Callers
    BY DEF TypeOK
  <2>2. \A x \in wanted[c] : x.node \in Nodes /\ x.gen \in Int /\ x.gen <= gen[x.node]
    BY <2>1 DEF TypeOK, Target, Gens, PastWanted
  <2>3. \A x \in wanted[c] : Living(x)' => Living(x) /\ x.node # n
    BY <1>2, <1>3, <2>2
  <2> QED
    BY <1>1, <1>7, <2>3 DEF Mine
<1>8. AllMine'
  BY <1>1, <1>7 DEF Steady, AllMine
<1>9. Fresh' /\ OthersIdle'
  BY <1>1 DEF Steady, Fresh, OthersIdle
<1> QED
  BY <1>6, <1>8, <1>9 DEF Steady

LEMMA SteadyKept ==
  ASSUME Steady, UNCHANGED <<running, step, remove, add, task, wanted, alone, targets, gen, gone>>
  PROVE  Steady'
BY DEF Steady, Fresh, OthersIdle, AllMine, TargetsLive, Mine, Living

LEMMA ExactStep ==
  ASSUME Faults \subseteq {"api", "wait", "crash"}, Exact, TypeOK', [Next]_vars
  PROVE  Exact'
<1>1. PastCached' /\ PastWanted'
  BY PastStep DEF Exact
<1>2. Steady'
  <2>1. CASE UNCHANGED vars \/ AtRest
    BY <2>1, SteadyKept DEF vars, AtRest, world, locals, Exact
  <2>2. CASE Crash
    <3>1. /\ step' = [c \in Callers |-> "idle"] /\ alone' = {} /\ UNCHANGED <<world, targets>>
          /\ remove' = Nothing /\ add' = Nothing /\ task' = Nothing
      BY <2>2 DEF Crash
    <3>2. Fresh' /\ OthersIdle' /\ AllMine'
      BY <3>1 DEF Fresh, OthersIdle, AllMine, Nothing
    <3> QED
      BY <3>1, <3>2 DEF Exact, Steady, TargetsLive, Living, world
  <2>3. ~TaskFails
    BY DEF TaskFails, Fault
  <2>4. CASE Environment /\ ~Crash /\ ~TaskSucceeds /\ ~(\E n \in Nodes : MachineEnds(n))
    <3>1. UNCHANGED <<running, step, remove, add, task, wanted, alone, targets, gen, gone>>
      BY <2>3, <2>4 DEF Environment, NodeJoins, NodeLeaves, Expire, PortsChange, world, locals
    <3> QED
      BY <3>1, SteadyKept DEF Exact
  <2>5. WorkerBegins \/ NodeSyncBegins => Steady'
    BY SteadyBegin DEF WorkerBegins, NodeSyncBegins, Exact, Callers
  <2> QED
    BY <2>1, <2>2, <2>4, <2>5, SteadySync, SteadyTask, SteadyMachine DEF Next, Exact
<1> QED
  BY <1>1, <1>2 DEF Exact

LEMMA ExactInit == Init => Exact
<1> SUFFICES ASSUME Init PROVE Exact
  OBVIOUS
<1>1. Fresh /\ OthersIdle /\ AllMine /\ PastWanted
  BY DEF Init, Fresh, OthersIdle, AllMine, PastWanted, Nothing
<1>2. TargetsLive
  BY DEF Init, TargetsLive, TargetsOf, Living
<1>3. PastCached
  BY DEF Init, PastCached
<1> QED
  BY <1>1, <1>2, <1>3, InitTyped DEF Exact, Steady

\* What carries both: Exact is inductive.
THEOREM AlwaysExact == Faults \subseteq {"api", "wait", "crash"} => (Spec => []Exact)
<1> SUFFICES ASSUME Faults \subseteq {"api", "wait", "crash"} PROVE Spec => []Exact
  OBVIOUS
<1>1. Exact /\ TypeOK' /\ [Next]_vars => Exact'
  BY ExactStep
<1> QED
  BY <1>1, ExactInit, TypeCorrect, PTL DEF Spec

\* Unless a task fails unnoticed, a call by itself converges at every point of
\* its way, whatever failed, was given up on or died before.
THEOREM AloneConverges ==
  Faults \subseteq {"api", "wait", "crash"} => (Spec => []Converging)
<1>1. Exact => Converging
  BY MineConverges DEF Exact, Steady
<1> QED
  BY <1>1, AlwaysExact, PTL

\* ... and when it returns without error the listeners are exactly as wanted.
THEOREM AloneExact ==
  Faults \subseteq {"api", "wait", "crash"} => (Spec => []AloneIsExact)
<1>1. Exact => AloneIsExact
  <2> SUFFICES ASSUME Exact, NEW c \in alone, step[c] = "done"
               PROVE  targets = {t \in wanted[c] : Living(t)}
    BY DEF AloneIsExact
  <2>1. Mine(c) /\ \A t \in targets : Living(t)
    BY DEF Exact, Steady, AllMine, TargetsLive
  <2>2. \A x \in targets : x \in wanted[c]
    BY <2>1 DEF Mine
  <2>3. \A x \in wanted[c] : Living(x) => x \in targets
    BY <2>1 DEF Mine
  <2> QED
    BY <2>1, <2>2, <2>3
<1> QED
  BY <1>1, AlwaysExact, PTL

-----------------------------------------------------------------------------
(***************************************************************************)
(* At rest the listeners are in step with the nodes, where only the nodes  *)
(* or only the node ports change and calls fail at worst.  OneSided is     *)
(* inductive beside Exact and RemovalsOwned.                               *)
(***************************************************************************)

LEMMA RunnerIsCaller == Runner \in Callers
BY DEF Runner, Callers

LEMMA IdleRunsNothing ==
  ASSUME TypeOK, RemovalsOwned, \A c \in Callers : step[c] = "idle"
  PROVE  running = {}
BY OwnerIsCaller DEF RemovalsOwned

\* A lookup of nodes that all have a machine finds one for each, be it the
\* cached one.
LEMMA WantedOfEach ==
  ASSUME TypeOK, NEW c \in Callers, NEW ns \in SUBSET Nodes, ns \cap gone = {}
  PROVE  /\ \A t \in WantedOf(c, ns) : /\ t.node \in ns
                                      /\ \E ports \in seenPorts[c] : t.nodePort = ports[t.port]
         /\ \A n \in ns, p \in Ports, ports \in seenPorts[c] :
               \E t \in WantedOf(c, ns) : t.port = p /\ t.node = n /\ t.nodePort = ports[p]
<1> DEFINE found == {m \in Machine : m.node \in ns /\ m.gen \in Machines(m.node)}
<1>1. \A m \in found : m.node \in ns
  OBVIOUS
<1>2. ASSUME NEW n \in ns PROVE \E m \in found : m.node = n
  <2>1. Machines(n) # {} /\ Machines(n) \subseteq Gens
    BY MachinesType DEF Machines
  <2>2. PICK g \in Gens : g \in Machines(n)
    BY <2>1
  <2>3. [node |-> n, gen |-> g] \in found
    BY <2>2 DEF Machine
  <2> QED
    BY <2>3
<1>3. WantedOf(c, ns) = UNION {TargetsOf(found, ports) : ports \in seenPorts[c]}
  BY DEF WantedOf
<1> HIDE DEF found
<1>4. ASSUME NEW t \in WantedOf(c, ns)
      PROVE  /\ t.node \in ns
             /\ \E ports \in seenPorts[c] : t.nodePort = ports[t.port]
  <2>1. PICK ports \in seenPorts[c] : t \in TargetsOf(found, ports)
    BY <1>3, Zenon
  <2> QED
    BY <1>1, <2>1 DEF TargetsOf
<1>5. ASSUME NEW n \in ns, NEW p \in Ports, NEW ports \in seenPorts[c]
      PROVE  \E t \in WantedOf(c, ns) : t.port = p /\ t.node = n /\ t.nodePort = ports[p]
  <2>1. PICK m \in found : m.node = n
    BY <1>2
  <2> DEFINE t == [port |-> p, node |-> m.node, gen |-> m.gen, nodePort |-> ports[p]]
  <2>2. t \in TargetsOf(found, ports)
    BY DEF TargetsOf
  <2>3. TargetsOf(found, ports) \subseteq WantedOf(c, ns)
    BY <1>3, Zenon
  <2> QED
    BY <2>1, <2>2, <2>3
<1> QED
  BY <1>4, <1>5

\* What a call changes beside its own state.
LEMMA SyncWorld ==
  ASSUME TypeOK, Exact, OneSided, OneSide, NEW c \in Callers, Sync(c)
  PROVE  /\ c = Runner /\ Runner' = Runner /\ step[c] # "idle"
         /\ UNCHANGED <<world, known, cached, targets, alone, changing>>
         /\ \A d \in Callers \ {Runner} : step'[d] = "idle"
<1>1. /\ step[c] # "idle" /\ UNCHANGED <<targets, world, alone>>
      /\ \A d \in Callers \ {c} : step'[d] = step[d]
  BY SyncFrame DEF Exact, Steady
<1>2. c = Runner /\ Runner' = Runner /\ changing' = changing
  BY <1>1 DEF OneSided, OneSide, Runner
<1>3. UNCHANGED <<known, cached>>
  BY DEF Sync, ensureLoadBalancerBackends, describeTargets, deleteLoadBalancerBackends,
      addLoadBalancerBackends, waitApiTaskDone, waitApiTaskFails, backendsEnsured, Success,
      Send, Error, Goto, kube
<1> QED
  BY <1>1, <1>2, <1>3 DEF OneSided

\* A call that fails is tried again.
LEMMA OneSidedError ==
  ASSUME TypeOK, Exact, OneSided, OneSide, NEW c \in Callers, Sync(c), Error(c)
  PROVE  OneSided'
<1>1. /\ c = Runner /\ Runner' = Runner /\ step[c] # "idle"
      /\ UNCHANGED <<world, known, cached, alone, changing>>
      /\ \A d \in Callers \ {Runner} : step'[d] = "idle"
  BY SyncWorld
<1>2. step'[c] = "idle"
  BY DEF Error, Return, TypeOK
<1>3. UNCHANGED <<nodes, gone, nodePort>>
  BY <1>1 DEF world
<1>4. CASE changing = "ports"
  <2>1. c = "worker" /\ queued' = TRUE /\ UNCHANGED retry /\ Due'
    BY <1>1, <1>4 DEF Error, Due, Runner
  <2> QED
    BY <1>1, <1>2, <1>3, <1>4, <2>1 DEF OneSided
<1>5. CASE changing # "ports"
  <2>1. c = "nodeSync" /\ seenPorts[c] = {nodePort}
    BY <1>1, <1>5 DEF OneSided, Runner
  <2>2. retry' = {nodePort} /\ queued' = queued /\ Due'
    BY <1>1, <1>5, <2>1 DEF Error, Due, TypeOK
  <2> QED
    BY <1>1, <1>2, <1>3, <1>5, <2>2 DEF OneSided
<1> QED
  BY <1>4, <1>5

\* A call that goes on.
LEMMA OneSidedGoes ==
  ASSUME TypeOK, Exact, OneSided, OneSide, NEW c \in Callers, Sync(c),
         NEW label \in {"describe", "apply", "wait", "done"}, Goto(c, label),
         WantsEachNode(c)', label # "describe" => DeadStay(c)'
  PROVE  OneSided'
<1>1. /\ c = Runner /\ Runner' = Runner /\ step[c] # "idle"
      /\ UNCHANGED <<world, known, cached, alone, changing>>
      /\ \A d \in Callers \ {Runner} : step'[d] = "idle"
  BY SyncWorld
<1>2. step'[c] = label /\ UNCHANGED <<queued, retry, seenNodes, seenPorts>>
  BY DEF Goto, TypeOK, kube, seen
<1>3. UNCHANGED <<nodes, gone, nodePort>>
  BY <1>1 DEF world
<1> QED
  BY <1>1, <1>2, <1>3 DEF OneSided

\* A call that succeeds leaves the listeners right.
LEMMA OneSidedSuccess ==
  ASSUME TypeOK, Exact, OneSided, OneSide, NEW c \in Callers, Success(c)
  PROVE  OneSided'
<1>1. /\ c = Runner /\ Runner' = Runner /\ step[c] = "done"
      /\ UNCHANGED <<world, known, cached, targets, alone, changing, queued, retry>>
      /\ \A d \in Callers \ {Runner} : step'[d] = "idle"
  BY SyncWorld DEF Sync, Success, kube
<1>2. step'[c] = "idle"
  BY DEF Success, Return, TypeOK
<1>3. UNCHANGED <<nodes, gone, nodePort, gen>>
  BY <1>1 DEF world
<1>4. Due' = Due
  BY <1>1 DEF Due
<1>5. ~Due => KnownServed
  <2> SUFFICES ASSUME ~Due PROVE KnownServed
    OBVIOUS
  <2>1. seenPorts[c] = {nodePort} /\ seenNodes[c] = known /\ c \in alone
    BY <1>1 DEF OneSided, Due
  <2>2. /\ add[c] = {} /\ \A t \in targets : Living(t)
        /\ \A x \in targets : x \in wanted[c]
        /\ \A x \in wanted[c] : Living(x) => x \in targets
    BY <1>1, <2>1 DEF Exact, Steady, AllMine, Mine, TargetsLive
  <2>3. WantsEachNode(c) /\ DeadStay(c)
    BY <1>1 DEF OneSided
  <2>4. \A t \in wanted[c] : Living(t)
    BY <2>2, <2>3 DEF DeadStay
  <2>5. targets = wanted[c]
    BY <2>2, <2>4
  <2> DEFINE found == {m \in Machine : m.node \in known /\ Living(m)}
  <2>6. ASSUME NEW t \in wanted[c] PROVE t \in TargetsOf(found, nodePort)
    <3>1. t \in Target /\ t.node \in known /\ t.nodePort = nodePort[t.port] /\ Living(t)
      BY <2>1, <2>3, <2>4 DEF WantsEachNode, TypeOK
    <3> DEFINE m == [node |-> t.node, gen |-> t.gen]
    <3>2. m \in found
      BY <3>1 DEF Target, Machine, Living
    <3>3. t = [port |-> t.port, node |-> m.node, gen |-> m.gen, nodePort |-> nodePort[t.port]]
          /\ t.port \in Ports
      BY <3>1 DEF Target
    <3> HIDE DEF m, found
    <3> QED
      BY <3>2, <3>3 DEF TargetsOf
  <2>7. ASSUME NEW t \in TargetsOf(found, nodePort) PROVE t \in wanted[c]
    <3>1. PICK p \in Ports, m \in found :
             t = [port |-> p, node |-> m.node, gen |-> m.gen, nodePort |-> nodePort[p]]
      BY DEF TargetsOf
    <3>2. m.node \in known /\ m.gen = gen[m.node]
      BY DEF Living
    <3>3. PICK u \in wanted[c] : u.port = p /\ u.node = m.node /\ u.nodePort = nodePort[p]
      BY <2>1, <2>3, <3>2 DEF WantsEachNode
    <3>4. u.gen = gen[m.node] /\ u \in Target
      BY <2>4, <3>3 DEF Living, TypeOK
    <3> QED
      BY <3>1, <3>2, <3>3, <3>4 DEF Target
  <2> QED
    BY <2>5, <2>6, <2>7 DEF KnownServed
<1>6. KnownServed' <=> KnownServed
  BY <1>1, <1>3 DEF KnownServed, Living
<1> QED
  BY <1>1, <1>2, <1>3, <1>4, <1>5, <1>6 DEF OneSided

\* A batch is sent.
LEMMA OneSidedSend ==
  ASSUME TypeOK, Exact, OneSided, OneSide, NEW c \in Callers, Sync(c), step[c] = "apply",
         NEW op \in {"register", "deregister"}, NEW b, Send(c, op, b),
         op = "deregister" => b \subseteq remove[c],
         op = "register" => b \subseteq add[c]
  PROVE  OneSided'
<1>1. CASE Error(c)
  BY <1>1, OneSidedError
<1>2. CASE Accepts(op, b) /\ add' = [add EXCEPT ![c] = @ \ b]
           /\ Goto(c, "wait") /\ UNCHANGED wanted
  <2>1. /\ c = Runner /\ UNCHANGED <<gen, gone>>
        /\ add'[c] = add[c] \ b /\ wanted'[c] = wanted[c]
        /\ UNCHANGED <<seenNodes, seenPorts>>
    BY <1>2, SyncWorld DEF world, Goto, seen, TypeOK
  <2>2. WantsEachNode(c) /\ DeadStay(c) /\ c \in alone
    BY <2>1 DEF OneSided
  <2>3. remove[c] \cap wanted[c] = {}
    BY <2>2 DEF Exact, Steady, AllMine, Mine
  <2>4. WantsEachNode(c)'
    BY <2>1, <2>2 DEF WantsEachNode
  <2>5. \A t \in wanted[c] : ~Living(t) => t \notin b
    BY <1>2, <2>3 DEF Accepts
  <2>6. DeadStay(c)'
    BY <2>1, <2>2, <2>5 DEF DeadStay, Living
  <2> QED
    BY <1>2, <2>4, <2>6, OneSidedGoes
<1> QED
  BY <1>1, <1>2 DEF Send

LEMMA OneSidedSync ==
  ASSUME Faults \subseteq {"api"}, TypeOK, Exact, OneSided, OneSide, NEW c \in Callers, Sync(c)
  PROVE  OneSided'
<1>1. /\ c = Runner /\ step[c] # "idle"
      /\ UNCHANGED <<nodes, gen, gone, nodePort, known>>
  BY SyncWorld DEF world
<1>2. c \in alone /\ seenNodes[c] = known
  BY <1>1 DEF OneSided
<1>3. step[c] \in {"describe", "apply", "wait", "done"} => WantsEachNode(c)
  BY <1>1 DEF OneSided
<1>4. step[c] \in {"apply", "wait", "done"} => DeadStay(c)
  BY <1>1 DEF OneSided
<1>5. CASE ensureLoadBalancerBackends(c)
  <2>1. CASE Error(c)
    BY <2>1, OneSidedError
  <2>2. CASE /\ wanted' = [wanted EXCEPT ![c] = WantedOf(c, seenNodes[c])]
             /\ Goto(c, "describe")
    <3>1. wanted'[c] = WantedOf(c, known) /\ UNCHANGED <<seenNodes, seenPorts>>
      BY <1>2, <2>2 DEF TypeOK, Goto, seen
    <3>2. known \in SUBSET Nodes /\ known \cap gone = {}
      BY DEF TypeOK, OneSided
    <3>3. WantsEachNode(c)'
      BY <1>2, <3>1, <3>2, WantedOfEach DEF WantsEachNode
    <3> QED
      BY <2>2, <3>3, OneSidedGoes
  <2> QED
    BY <1>5, <2>1, <2>2 DEF ensureLoadBalancerBackends
<1>6. CASE describeTargets(c)
  <2>1. CASE Error(c)
    BY <2>1, OneSidedError
  <2>2. CASE /\ step[c] = "describe" /\ Goto(c, "apply") /\ UNCHANGED wanted
             /\ add' = [add EXCEPT ![c] = backendsToAdd(c)]
    <3>1. add'[c] = wanted[c] \ targets /\ UNCHANGED <<seenNodes, seenPorts>>
      BY <2>2 DEF TypeOK, Goto, seen, backendsToAdd
    <3>2. \A t \in targets : Living(t)
      BY DEF Exact, Steady, TargetsLive
    <3>3. DeadStay(c)'
      BY <1>1, <2>2, <3>1, <3>2 DEF DeadStay, Living
    <3>4. WantsEachNode(c)'
      BY <1>3, <2>2, <3>1 DEF WantsEachNode
    <3> QED
      BY <2>2, <3>3, <3>4, OneSidedGoes
  <2> QED
    BY <1>6, <2>1, <2>2 DEF describeTargets
<1>7. CASE deleteLoadBalancerBackends(c)
  BY <1>7, OneSidedSend, BatchPart DEF deleteLoadBalancerBackends
<1>8. CASE addLoadBalancerBackends(c)
  BY <1>8, OneSidedSend, BatchPart DEF addLoadBalancerBackends
<1>9. CASE waitApiTaskDone(c) \/ backendsEnsured(c)
  <2>1. /\ step[c] \in {"apply", "wait"} /\ UNCHANGED <<wanted, add, seenNodes, seenPorts>>
        /\ Goto(c, "apply") \/ Goto(c, "done")
    BY <1>9 DEF waitApiTaskDone, backendsEnsured, Goto, seen, locals
  <2>2. WantsEachNode(c)' /\ DeadStay(c)'
    BY <1>1, <1>3, <1>4, <2>1 DEF WantsEachNode, DeadStay, Living
  <2> QED
    BY <2>1, <2>2, OneSidedGoes
<1>10. ~waitApiTaskFails(c)
  BY DEF waitApiTaskFails, Fault
<1>11. CASE Success(c)
  BY <1>11, OneSidedSuccess
<1> QED
  BY <1>5, <1>6, <1>7, <1>8, <1>9, <1>10, <1>11 DEF Sync

\* The caller whose turn it is begins a call, the other one never does.
LEMMA OneSidedBegins ==
  ASSUME TypeOK, TypeOK', RemovalsOwned, OneSided, OneSide, WorkerBegins \/ NodeSyncBegins
  PROVE  OneSided'
<1>1. UNCHANGED <<nodes, gone, nodePort, changing>> /\ Runner' = Runner
  BY DEF WorkerBegins, NodeSyncBegins, Begin, world, OneSide, Runner
<1>2. ASSUME NEW c \in Callers, c = Runner, Begin(c, nodePort), known' = nodes
      PROVE  /\ step'[c] = "lookup" /\ c \in alone'
             /\ seenNodes'[c] = known' /\ seenPorts'[c] = {nodePort}
             /\ \A d \in Callers \ {Runner} : step'[d] = "idle"
  <2>1. \A d \in Callers : step[d] = "idle"
    BY <1>2 DEF OneSided, Begin
  <2>2. running = {}
    BY <2>1, IdleRunsNothing
  <2> QED
    BY <1>2, <2>1, <2>2 DEF Begin, TypeOK
<1>3. CASE WorkerBegins
  <2>1. changing = "ports" /\ Runner = "worker" /\ known' = nodes /\ retry' = {}
    BY <1>3 DEF WorkerBegins, OneSided, Runner
  <2>2. Begin("worker", nodePort) /\ "worker" \in Callers
    BY <1>3 DEF WorkerBegins, Callers
  <2> QED
    BY <1>1, <1>2, <2>1, <2>2 DEF OneSided
<1>4. CASE NodeSyncBegins
  <2>1. changing = "nodes" /\ Runner = "nodeSync" /\ known' = nodes /\ retry' = {}
        /\ UNCHANGED <<queued, cached>>
    BY <1>4 DEF NodeSyncBegins, OneSided, Runner
  <2>2. Begin("nodeSync", nodePort) /\ "nodeSync" \in Callers
    BY <1>4, <2>1 DEF NodeSyncBegins, OneSided, Callers
  <2> QED
    BY <1>1, <1>2, <2>1, <2>2 DEF OneSided
<1> QED
  BY <1>3, <1>4

\* Nodes and machines, node ports, tasks.
LEMMA OneSidedEnvironment ==
  ASSUME Faults \subseteq {"api"}, "suddenly" \notin Changes,
         TypeOK, TypeOK', RemovalsOwned, OneSided, OneSide, Environment
  PROVE  OneSided'
<1>1. changing' = changing /\ Runner' = Runner
  BY DEF OneSide, Runner
<1>2. ASSUME NEW n \in Nodes, NodeJoins(n) \/ NodeLeaves(n) PROVE OneSided'
  <2>1. nodes' # nodes /\ nodes' \cap gone = {} /\ UNCHANGED <<gen, gone, nodePort>>
    BY <1>2 DEF NodeJoins, NodeLeaves, OneSided
  <2>2. changing = "nodes"
    BY <2>1 DEF OneSide
  <2>3. UNCHANGED <<kube, targets, step, seen, locals, alone>>
    BY <1>2 DEF NodeJoins, NodeLeaves
  <2>4. WantsEachNode(Runner)' <=> WantsEachNode(Runner)
    BY <1>1, <2>3 DEF WantsEachNode, seen, locals
  <2>5. DeadStay(Runner)' <=> DeadStay(Runner)
    BY <1>1, <2>1, <2>3 DEF DeadStay, Living, locals
  <2>6. (Due \/ KnownServed)' <=> (Due \/ KnownServed)
    BY <1>1, <2>1, <2>3 DEF Due, KnownServed, Living, kube
  <2> QED
    BY <1>1, <2>1, <2>2, <2>3, <2>4, <2>5, <2>6 DEF OneSided, kube, seen
<1>3. ASSUME NEW n \in Nodes, MachineEnds(n) PROVE OneSided'
  <2>1. n \notin nodes \cup known
    BY <1>3 DEF MachineEnds, Change
  <2>2. /\ gone' \subseteq gone \cup {n} /\ gone \subseteq gone' \cup {n}
        /\ \A m \in Nodes \ {n} : gen'[m] = gen[m]
        /\ UNCHANGED <<nodes, nodePort, kube, step, seen, locals, alone>>
        /\ targets' = {t \in targets : t.node # n}
    BY <1>3 DEF MachineEnds, TypeOK
  <2>3. changing = "nodes"
    <3>1. gen' # gen \/ gone' # gone
      BY <1>3 DEF MachineEnds, TypeOK
    <3> QED
      BY <3>1 DEF OneSide
  <2>4. \A x : x.node \in known => (Living(x)' <=> Living(x))
    BY <2>1, <2>2 DEF Living, TypeOK
  <2>5. WantsEachNode(Runner)' <=> WantsEachNode(Runner)
    BY <1>1, <2>2 DEF WantsEachNode, seen, locals
  <2>6. (Due \/ KnownServed) => (Due \/ KnownServed)'
    <3>1. Due' <=> Due
      BY <1>1, <2>2 DEF Due, kube
    <3>2. ASSUME KnownServed PROVE KnownServed'
      <4>1. {m \in Machine : m.node \in known /\ Living(m)}' =
            {m \in Machine : m.node \in known /\ Living(m)}
        BY <2>2, <2>4 DEF kube
      <4>2. \A t \in targets : t.node \in known
        BY <3>2 DEF KnownServed, TargetsOf
      <4>3. targets' = targets
        BY <2>1, <2>2, <4>2
      <4> QED
        BY <2>2, <3>2, <4>1, <4>3 DEF KnownServed, TargetsOf
    <3> QED
      BY <3>1, <3>2
  <2>7. ASSUME step[Runner] # "idle", WantsEachNode(Runner), DeadStay(Runner)
        PROVE  DeadStay(Runner)'
    <3>1. \A t \in wanted[Runner] : t.node \in known
      BY <2>7 DEF OneSided, WantsEachNode
    <3> QED
      BY <1>1, <2>2, <2>4, <2>7, <3>1 DEF DeadStay, locals
  <2>8. (nodes' \cup known') \cap gone' = {}
    BY <2>1, <2>2 DEF OneSided, kube
  <2> QED
    BY <1>1, <2>2, <2>3, <2>5, <2>6, <2>7, <2>8 DEF OneSided, kube, seen
<1>4. CASE PortsChange
  <2>1. changing = "ports"
    BY <1>4 DEF PortsChange, OneSide
  <2>2. /\ queued' = TRUE
        /\ UNCHANGED <<nodes, gen, gone, known, retry, step, seen, locals, alone>>
    BY <1>4 DEF PortsChange
  <2>3. WantsEachNode(Runner)' <=> WantsEachNode(Runner)
    BY <1>1, <2>2 DEF WantsEachNode, seen, locals
  <2>4. DeadStay(Runner)' <=> DeadStay(Runner)
    BY <1>1, <2>2 DEF DeadStay, Living, locals
  <2>5. Due'
    BY <1>1, <2>1, <2>2 DEF Due
  <2> QED
    BY <1>1, <2>1, <2>2, <2>3, <2>4, <2>5 DEF OneSided, seen
<1>5. CASE TaskSucceeds \/ \E n \in Nodes : Expire(n)
  <2>1. UNCHANGED <<world, kube, step, seen, locals, alone>>
    BY <1>5 DEF TaskSucceeds, Expire
  <2>2. (\A c \in Callers : step[c] = "idle") => UNCHANGED targets
    <3>1. CASE TaskSucceeds
      BY <3>1, IdleRunsNothing DEF TaskSucceeds
    <3>2. CASE \E n \in Nodes : Expire(n)
      BY <3>2 DEF Expire
    <3> QED
      BY <1>5, <3>1, <3>2
  <2>3. WantsEachNode(Runner)' <=> WantsEachNode(Runner)
    BY <1>1, <2>1 DEF WantsEachNode, seen, locals
  <2>4. DeadStay(Runner)' <=> DeadStay(Runner)
    BY <1>1, <2>1 DEF DeadStay, Living, locals, world
  <2>5. step[Runner] = "idle" => (Due \/ KnownServed)'
    <3> SUFFICES ASSUME step[Runner] = "idle" PROVE (Due \/ KnownServed)'
      OBVIOUS
    <3>1. UNCHANGED targets /\ (Due \/ KnownServed)
      BY <2>2 DEF OneSided
    <3> QED
      BY <1>1, <2>1, <3>1 DEF Due, KnownServed, Living, kube, world
  <2> QED
    BY <1>1, <2>1, <2>3, <2>4, <2>5 DEF OneSided, world, kube, seen
<1>6. ~TaskFails /\ ~Crash
  BY DEF TaskFails, Crash, Fault
<1> QED
  BY <1>2, <1>3, <1>4, <1>5, <1>6 DEF Environment

LEMMA OneSidedStutter ==
  ASSUME TypeOK, OneSided, UNCHANGED <<vars, changing>>
  PROVE  OneSided'
<1>1. /\ UNCHANGED <<nodes, gen, gone, nodePort, targets, queued, cached, known, retry>>
      /\ UNCHANGED <<step, seenNodes, seenPorts, wanted, add, alone>> /\ Runner' = Runner
  BY DEF vars, world, kube, seen, locals, Runner
<1>2. /\ WantsEachNode(Runner)' <=> WantsEachNode(Runner)
      /\ DeadStay(Runner)' <=> DeadStay(Runner)
      /\ (Due \/ KnownServed)' <=> (Due \/ KnownServed)
  BY <1>1 DEF WantsEachNode, DeadStay, Living, Due, KnownServed
<1> QED
  BY <1>1, <1>2 DEF OneSided

LEMMA OneSidedInit == Init /\ changing \in {"ports", "nodes"} => OneSided
<1> SUFFICES ASSUME Init, changing \in {"ports", "nodes"} PROVE OneSided
  OBVIOUS
<1>1. Runner \in Callers /\ step[Runner] = "idle"
  BY RunnerIsCaller DEF Init
<1>2. KnownServed
  <2>1. known = nodes /\ nodes \subseteq Nodes /\ gone = {} /\ gen = [n \in Nodes |-> 0]
    BY DEF Init
  <2>2. 0 \in Gens
    BY BackendsAssumption DEF Gens
  <2>3. ASSUME NEW m \in [node : nodes, gen : {0}]
        PROVE  m \in Machine /\ m.node \in known /\ Living(m)
    BY <2>1, <2>2 DEF Machine, Living
  <2>4. ASSUME NEW m \in Machine, m.node \in known, Living(m)
        PROVE  m \in [node : nodes, gen : {0}]
    BY <2>1, <2>4 DEF Machine, Living
  <2>5. [node : nodes, gen : {0}] = {m \in Machine : m.node \in known /\ Living(m)}
    BY <2>3, <2>4
  <2>6. targets = TargetsOf([node : nodes, gen : {0}], nodePort)
    BY DEF Init
  <2> QED
    BY <2>5, <2>6 DEF KnownServed
<1> QED
  BY <1>1, <1>2 DEF Init, OneSided

\* The invariant behind it: one of the two callers does all the work, by
\* itself, and wants a machine at each of its nodes.
THEOREM AlwaysOneSided ==
  Faults \subseteq {"api"} /\ "suddenly" \notin Changes => (OneSideSpec => []OneSided)
<1> SUFFICES ASSUME Faults \subseteq {"api"}, "suddenly" \notin Changes
             PROVE  OneSideSpec => []OneSided
  OBVIOUS
<1>1. OneSideSpec => Spec
  <2>1. [Next /\ OneSide]_<<vars, changing>> => [Next]_vars
    OBVIOUS
  <2> QED
    BY <2>1, PTL DEF OneSideSpec, Spec
<1>2. /\ TypeOK /\ TypeOK' /\ Exact /\ RemovalsOwned /\ OneSided
      /\ [Next /\ OneSide]_<<vars, changing>>
      => OneSided'
  BY OneSidedStutter, OneSidedBegins, OneSidedSync, OneSidedEnvironment DEF Next, AtRest, OneSide
<1>3. Spec => [](TypeOK /\ Exact /\ RemovalsOwned)
  <2>1. Spec => []Exact
    BY AlwaysExact
  <2>2. Spec => []RemovalsOwned
    BY RemovalsAreOwned
  <2> QED
    BY <2>1, <2>2, TypeCorrect, PTL
<1> QED
  BY <1>1, <1>2, <1>3, OneSidedInit, PTL DEF OneSideSpec

\* Where only the nodes and their machines, or only the node ports, change:
\* when nothing is left to do the listeners forward to just the machines of
\* the nodes there are, whatever calls failed and whatever was cached
\* (ensureLoadBalancerBackends, called by EnsureLoadBalancer or
\* UpdateLoadBalancer).
THEOREM AtRestInStep ==
  Faults \subseteq {"api"} /\ "suddenly" \notin Changes => (OneSideSpec => []RestsInStep)
<1>1. OneSided => RestsInStep
  <2> SUFFICES ASSUME OneSided, Resting PROVE InStep
    BY DEF RestsInStep
  <2>1. step[Runner] = "idle" /\ ~Due
    BY RunnerIsCaller DEF Resting, Due
  <2>2. KnownServed /\ known = nodes
    BY <2>1 DEF OneSided, Resting
  <2> QED
    BY <2>2 DEF KnownServed, InStep
<1> QED
  BY <1>1, AlwaysOneSided, PTL
=============================================================================
