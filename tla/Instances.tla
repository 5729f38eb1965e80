----------------------------- MODULE Instances -----------------------------
(***************************************************************************)
(* What Kubernetes learns about the machines behind its nodes through      *)
(* pkg/tencentcloud/instances.go, and when: the provider answers from its  *)
(* caches by address ("vm_ip_") and by instance id ("vm_id_"), which it    *)
(* fills after a miss with what the cloud tells it.                        *)
(*                                                                         *)
(* A node's name is the address of its machine; a new machine at the same  *)
(* address is a new generation.  Two controllers of Kubernetes 1.18        *)
(* (external) ask: the cloud node controller when it initialises a node,   *)
(* the node lifecycle controller as long as a node is not ready.  Time is  *)
(* counted in ticks; the code between two calls takes none.                *)
(*                                                                         *)
(* A "Slip" is a plausible mistake, not part of the specification.         *)
(***************************************************************************)
EXTENDS Integers

CONSTANTS
    Nodes,
    Ttl,            \* life of a cache entry: 60 s in the code
    Latency,        \* most ticks a query takes: ReqTimeout, 10 s in the code
    MaxGen,         \* bound on the machines at one address
    MaxChanges,     \* bound on what happens to machines and Node objects
    MaxFaults       \* bound on the number of failing queries

ASSUME InstancesAssumption ==
    Ttl \in Nat /\ Latency \in Nat /\ MaxGen \in Nat /\ MaxChanges \in Nat /\ MaxFaults \in Nat

VARIABLES
    gen, state,     \* the machine at a node's address, and its state
    since,          \* history: ticks since that changed, up to Longest + 1
    exists, ready, tainted,  \* Node objects; are they ready? tainted as shut down?
    fresh,          \* those that wait for the cloud node controller
    provider,       \* their provider id: {} or {generation}
    cache,          \* both caches: {} is a miss, {entry} a hit
    phase,          \* which answer a controller needs next about a node
    asked,          \* lifecycle: the provider id it read, or was told
    got,            \* initialiser: the provider id it was told
    reply,          \* the answer under way: {} or {reply}
    changes, faults

machines == <<gen, state, since>>
objects  == <<exists, ready, tainted, fresh, provider>>
control  == <<phase, asked, got, reply>>
vars     == <<machines, objects, cache, control, changes, faults>>

Bound   == Ttl + Latency
Longest == Bound + Latency
Callers == {"lifecycle", "initialiser"}
Gens    == 0 .. MaxGen
States  == {"running", "stopped", "gone"}
Phases  == {"idle", "name", "named", "exists", "shutdown", "id", "addresses"}

\* A query is by address, or by instance id.
Key   == [node : Nodes, id : SUBSET Gens]
ByAddress(n)  == [node |-> n, id |-> {}]
ById(n, g)    == [node |-> n, id |-> {g}]
Found == [gen : Gens, state : States]

TypeOK ==
    /\ gen \in [Nodes -> Gens] /\ state \in [Nodes -> States]
    /\ since \in [Nodes -> 0 .. Longest + 1]
    /\ exists \subseteq Nodes /\ ready \subseteq exists
    /\ tainted \subseteq exists /\ fresh \subseteq exists
    /\ provider \in [Nodes -> SUBSET Gens]
    /\ cache \in [Key -> SUBSET [found : Found, age : 0 .. Ttl]]
    /\ phase \in [Callers -> [Nodes -> Phases]]
    /\ asked \in [Nodes -> SUBSET Gens] /\ got \in [Nodes -> SUBSET Gens]
    /\ reply \in [Callers -> [Nodes -> SUBSET [found : SUBSET Found, age : 0 .. Latency]]]
    /\ changes \in 0 .. MaxChanges /\ faults \in 0 .. MaxFaults

\* Every address has a running machine, none has joined the cluster.
Init ==
    /\ gen = [n \in Nodes |-> 0] /\ state = [n \in Nodes |-> "running"]
    /\ since = [n \in Nodes |-> 0]
    /\ exists = {} /\ ready = {} /\ tainted = {} /\ fresh = {}
    /\ provider = [n \in Nodes |-> {}]
    /\ cache = [k \in Key |-> {}]
    /\ phase = [c \in Callers |-> [n \in Nodes |-> "idle"]]
    /\ asked = [n \in Nodes |-> {}] /\ got = [n \in Nodes |-> {}]
    /\ reply = [c \in Callers |-> [n \in Nodes |-> {}]]
    /\ changes = 0 /\ faults = 0

-----------------------------------------------------------------------------
\* Machines and Node objects (external).

Change == changes < MaxChanges /\ changes' = changes + 1

\* A machine stops, starts again or ends; another one gets its address.
MachineChanges(n) ==
    /\ Change
    /\ \/ /\ state[n] # "gone"
          /\ \E s \in States \ {state[n]} : state' = [state EXCEPT ![n] = s]
          /\ UNCHANGED gen
       \/ /\ gen[n] < MaxGen
          /\ gen' = [gen EXCEPT ![n] = @ + 1]
          /\ state' = [state EXCEPT ![n] = "running"]
    /\ since' = [since EXCEPT ![n] = 0]
    /\ UNCHANGED <<objects, cache, control, faults>>

\* The kubelet of a running machine creates the Node object; without it the
\* node is not ready, with it it is.
Register(n) ==
    /\ n \notin exists /\ state[n] = "running"
    /\ exists' = exists \cup {n} /\ ready' = ready \cup {n} /\ fresh' = fresh \cup {n}
    /\ UNCHANGED <<machines, tainted, provider, cache, control, changes, faults>>

Heartbeat(n) ==
    /\ n \in exists
    /\ \/ n \in ready /\ state[n] # "running" /\ ready' = ready \ {n}
       \/ n \notin ready /\ state[n] = "running" /\ ready' = ready \cup {n}
    /\ UNCHANGED <<machines, exists, tainted, fresh, provider, cache, control, changes, faults>>

RemoveNode(n) ==
    /\ exists' = exists \ {n} /\ ready' = ready \ {n}
    /\ tainted' = tainted \ {n} /\ fresh' = fresh \ {n}
    /\ provider' = [provider EXCEPT ![n] = {}]

\* Somebody deletes the Node object.
UserRemovesNode(n) ==
    /\ Change /\ n \in exists /\ RemoveNode(n)
    /\ UNCHANGED <<machines, cache, control, faults>>

-----------------------------------------------------------------------------
\* The provider: how an answer is found.

\* Slip: only a running machine counts.
OnlyRunning(k) ==
    IF state[k.node] = "running" /\ (k.id = {} \/ k.id = {gen[k.node]})
      THEN {[gen |-> gen[k.node], state |-> state[k.node]]} ELSE {}

\* DescribeInstances by address or id, what is not asked for filtered out.
InCloud(k) ==
    IF state[k.node] # "gone" /\ (k.id = {} \/ k.id = {gen[k.node]})
      THEN {[gen |-> gen[k.node], state |-> state[k.node]]} ELSE {}

\* InstanceID, NodeAddresses and InstanceType look the node up by its name,
\* InstanceExistsByProviderID and InstanceShutdownByProviderID by the id in
\* its provider id.  A node without one is asked about by its name first.
KeyOf(c, n) == [node |-> n, id |-> IF c = "lifecycle" THEN asked[n] ELSE {}]

Waiting(c, n) == phase[c][n] # "idle"

\* A query fails: the controller gives up, and tries again later.
QueryFails(c, n) ==
    /\ Waiting(c, n) /\ (reply[c][n] # {} \/ cache[KeyOf(c, n)] = {})
    /\ faults < MaxFaults /\ faults' = faults + 1
    /\ phase' = [phase EXCEPT ![c][n] = "idle"]
    /\ reply' = [reply EXCEPT ![c][n] = {}]
    /\ UNCHANGED <<machines, objects, cache, asked, got, changes>>

\* A miss: DescribeInstances is called, and answers with what it sees now.
Query(c, n) ==
    /\ Waiting(c, n) /\ reply[c][n] = {} /\ cache[KeyOf(c, n)] = {}
    /\ reply' = [reply EXCEPT ![c][n] = {[found |-> InCloud(KeyOf(c, n)), age |-> 0]}]
    /\ UNCHANGED <<machines, objects, cache, phase, asked, got, changes, faults>>

-----------------------------------------------------------------------------
\* The controllers (external): what they do with an answer.

Then(c, n, next) ==
    /\ phase' = [phase EXCEPT ![c][n] = next]
    /\ reply' = [reply EXCEPT ![c][n] = {}]

\* The lifecycle controller asks for the id of a node without one, with
\* InstanceID: if there is no machine, the node goes.
NameReturns(n, found) ==
    /\ IF found = {} /\ n \in exists THEN RemoveNode(n) ELSE UNCHANGED objects
    /\ asked' = [asked EXCEPT ![n] = {m.gen : m \in found}]
    /\ Then("lifecycle", n, IF found # {} THEN "named" ELSE "idle")
    /\ UNCHANGED got

\* It asks whether the machine exists.  A missing one is an error,
\* "InstanceNotFound" (InstanceExistsByProviderID returns it beside the
\* false).  The next question is about the id of the Node object, which a node
\* asked about by name has not: "invalid format", without a query.
ExistsReturns(n, found) ==
    /\ Then("lifecycle", n,
            IF phase["lifecycle"][n] = "exists" /\ found # {} THEN "shutdown" ELSE "idle")
    /\ UNCHANGED <<objects, asked, got>>

\* Slip: the node may have been removed meanwhile.
TaintsTheRemoved(n, found) ==
    /\ tainted' = IF \E m \in found : m.state # "running" THEN tainted \cup {n} ELSE tainted
    /\ Then("lifecycle", n, "idle")
    /\ UNCHANGED <<exists, ready, fresh, provider, asked, got>>

\* Then whether it is shut down, in any state but RUNNING.
ShutdownReturns(n, found) ==
    /\ tainted' = IF n \in exists /\ (\E m \in found : m.state # "running")
                    THEN tainted \cup {n} ELSE tainted
    /\ Then("lifecycle", n, "idle")
    /\ UNCHANGED <<exists, ready, fresh, provider, asked, got>>

\* The initialiser asks for the provider id, and can do without; then for
\* addresses and type, and cannot.  It writes all at once.
IdReturns(n, found) ==
    /\ got' = [got EXCEPT ![n] = {m.gen : m \in found}]
    /\ Then("initialiser", n, "addresses")
    /\ UNCHANGED <<objects, asked>>

AddressesReturn(n, found) ==
    /\ IF found # {} /\ n \in fresh
         THEN /\ provider' = [provider EXCEPT ![n] = got[n]]
              /\ fresh' = fresh \ {n}
         ELSE UNCHANGED <<provider, fresh>>
    /\ got' = [got EXCEPT ![n] = {}]
    /\ Then("initialiser", n, "idle")
    /\ UNCHANGED <<exists, ready, tainted, asked>>

Returns(c, n, found) ==
    \/ phase[c][n] = "name" /\ NameReturns(n, found)
    \/ phase[c][n] \in {"named", "exists"} /\ ExistsReturns(n, found)
    \/ phase[c][n] = "shutdown" /\ ShutdownReturns(n, found)
    \/ phase[c][n] = "id" /\ IdReturns(n, found)
    \/ phase[c][n] = "addresses" /\ AddressesReturn(n, found)

\* Slip: a hit is Set again, which renews its time.
HitRenews(c, n) ==
    /\ Waiting(c, n) /\ reply[c][n] = {}
    /\ \E e \in cache[KeyOf(c, n)] :
          /\ Returns(c, n, {e.found})
          /\ cache' = [cache EXCEPT ![KeyOf(c, n)] = {[found |-> e.found, age |-> 0]}]
    /\ UNCHANGED <<machines, changes, faults>>

\* The answer is in the cache.
Hit(c, n) ==
    /\ Waiting(c, n) /\ reply[c][n] = {}
    /\ \E e \in cache[KeyOf(c, n)] : Returns(c, n, {e.found})
    /\ UNCHANGED <<machines, cache, changes, faults>>

\* The answer arrives; a machine is cached, the lack of one is not.
Arrive(c, n) ==
    /\ Waiting(c, n)
    /\ \E r \in reply[c][n] :
          /\ Returns(c, n, r.found)
          /\ cache' = IF r.found = {} THEN cache
                      ELSE [cache EXCEPT ![KeyOf(c, n)] = {[found |-> m, age |-> 0] : m \in r.found}]
    /\ UNCHANGED <<machines, changes, faults>>

\* MonitorNodes: a ready node loses its taint, another one is asked about.
MonitorNode(n) ==
    /\ n \in exists /\ phase["lifecycle"][n] = "idle"
    /\ \/ /\ n \in ready /\ n \in tainted
          /\ tainted' = tainted \ {n}
          /\ UNCHANGED <<phase, asked>>
       \/ /\ n \notin ready
          /\ phase' = [phase EXCEPT !["lifecycle"][n] =
                          IF provider[n] = {} THEN "name" ELSE "exists"]
          /\ asked' = [asked EXCEPT ![n] = provider[n]]
          /\ UNCHANGED tainted
    /\ UNCHANGED <<machines, exists, ready, fresh, provider, cache, got, reply, changes, faults>>

InitializeNode(n) ==
    /\ n \in fresh /\ phase["initialiser"][n] = "idle"
    /\ phase' = [phase EXCEPT !["initialiser"][n] = "id"]
    /\ UNCHANGED <<machines, objects, cache, asked, got, reply, changes, faults>>

\* Time passes, unless somebody has something to do first.
Tick ==
    /\ \A c \in Callers, n \in Nodes :
          Waiting(c, n) => \E r \in reply[c][n] : r.age < Latency
    /\ since' = [n \in Nodes |-> IF since[n] <= Longest THEN since[n] + 1 ELSE since[n]]
    /\ cache' = [k \in Key |-> {[e EXCEPT !.age = @ + 1] : e \in {f \in cache[k] : f.age < Ttl}}]
    /\ reply' = [c \in Callers |-> [n \in Nodes |->
                    {[r EXCEPT !.age = @ + 1] : r \in reply[c][n]}]]
    /\ UNCHANGED <<gen, state, objects, phase, asked, got, changes, faults>>

-----------------------------------------------------------------------------
Act(c, n) == Hit(c, n) \/ Query(c, n) \/ Arrive(c, n) \/ QueryFails(c, n)

World(n) == MachineChanges(n) \/ UserRemovesNode(n) \/ Register(n) \/ Heartbeat(n)

Next ==
    \/ \E n \in Nodes :
          \/ World(n)
          \/ MonitorNode(n) \/ InitializeNode(n)
          \/ \E c \in Callers : Act(c, n)
    \/ Tick

Spec == Init /\ [][Next]_vars

\* Kubelets and controllers keep going.  The clock does not stop: a tick may
\* have to wait for the controllers, but they pause between two rounds.
Fairness ==
    /\ \A n \in Nodes : /\ WF_vars(Register(n)) /\ WF_vars(Heartbeat(n))
                        /\ WF_vars(MonitorNode(n)) /\ WF_vars(InitializeNode(n))
                        /\ \A c \in Callers : WF_vars(Act(c, n))
    /\ SF_vars(Tick)

FairSpec == Spec /\ Fairness

-----------------------------------------------------------------------------
\* No node is tainted as shut down whose machine has been running for longer
\* than an answer may be cached and under way (getInstanceByInstanceID,
\* InstanceShutdownByProviderID).
NoStaleTaint ==
    [][\A n \in tainted' \ tainted : state[n] = "running" => since[n] <= Bound]_vars

\* No controller removes a node whose machine has been there for longer than
\* a query takes: that there is no machine is never cached.
RemovesOnlyAbsent ==
    [][\A n \in exists \ exists' :
          changes' = changes /\ state[n] # "gone" => since[n] <= Latency]_vars

\* The provider id a node gets is that of the machine at its address, or of
\* one that was there until lately.
InitialisedRecently ==
    [][\A n \in Nodes : \A g \in provider'[n] \ provider[n] :
          g # gen[n] => since[n] <= Longest]_vars

\* ... or, as InstanceID has it, "the cloud provider ID of the node with the
\* specified NodeName", as far as a query can tell.
InitialisedWithLive ==
    [][\A n \in Nodes : \A g \in provider'[n] \ provider[n] :
          g # gen[n] => since[n] <= 2 * Latency]_vars

\* What carries the proof of NoStaleTaint: a cached answer is true, or was
\* until as long ago as it is in the cache and a query takes; one under way
\* is true, or was when it was given.
StillTrue(n, m, age) == since[n] > age => gen[n] = m.gen /\ state[n] = m.state
Recent ==
    /\ \A k \in Key : \A e \in cache[k] : StillTrue(k.node, e.found, e.age + Latency)
    /\ \A c \in Callers, n \in Nodes : \A r \in reply[c][n] :
          /\ \A m \in r.found : StillTrue(n, m, r.age)
          /\ r.found = {} /\ since[n] > r.age =>
                state[n] = "gone" \/ KeyOf(c, n).id \notin {{}, {gen[n]}}

\* When machines change no more, a node is tainted if and only if its machine
\* is shut down, whatever the caches said before.
TaintsConverge ==
    \A n \in Nodes :
       <>[](n \in exists /\ provider[n] = {gen[n]} =>
              /\ state[n] = "stopped" => n \in tainted
              /\ state[n] = "running" => n \notin tainted)

\* "If false is returned with no error, the instance will be immediately
\* deleted": the node of a machine that is gone does not stay.
GoneIsRemoved == \A n \in Nodes : <>[](state[n] = "gone" => n \notin exists)
=============================================================================
