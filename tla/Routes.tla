------------------------------- MODULE Routes -------------------------------
(***************************************************************************)
(* ListRoutes, CreateRoute and DeleteRoute (pkg/tencentcloud/routes.go) on *)
(* the cluster's route table, and the route controller of Kubernetes 1.18  *)
(* (external) that calls them: round after round it lists the routes, then *)
(* reads the nodes, and sends all creations and deletions at once.         *)
(*                                                                         *)
(* A route leads the pods' CIDR of a node to a gateway, which is the       *)
(* node's address and, in this provider, the node's name.                  *)
(*                                                                         *)
(* A "Slip" is a plausible mistake, not part of the specification.         *)
(***************************************************************************)
EXTENDS Naturals

CONSTANTS
    Nodes,
    Cidrs,          \* CIDRs of pods that nodes may get
    Foreign,        \* routes somebody else keeps in the table
    MaxChanges,     \* bound on the changes of the cluster
    MaxFaults       \* bound on the calls that fail

Route == [node : Nodes, cidr : Cidrs]

ASSUME RoutesAssumption ==
    /\ MaxChanges \in Nat /\ MaxFaults \in Nat
    /\ \A r \in Foreign : r.cidr \notin Cidrs

VARIABLES
    cidrOf,         \* the CIDR of each node of the cluster: {} or {c}
    table,          \* the route table
    pc,             \* the controller: "idle", "listed" or "calling"
    listed,         \* what ListRoutes returned in this round
    toCreate, toDelete,     \* the calls of this round still under way
    steady,         \* history: routes wanted without a break since the nodes were read
    clean,          \* history: since then no node changed, no call failed
    changes, faults

vars == <<cidrOf, table, pc, listed, toCreate, toDelete, steady, clean, changes, faults>>

TypeOK ==
    /\ cidrOf \in [Nodes -> SUBSET Cidrs]
    /\ table \subseteq Route \cup Foreign
    /\ listed \subseteq Route \cup Foreign
    /\ pc \in {"idle", "listed", "calling"}
    /\ toCreate \subseteq Route /\ toDelete \subseteq Route
    /\ steady \subseteq Route /\ clean \in BOOLEAN
    /\ changes \in 0 .. MaxChanges /\ faults \in 0 .. MaxFaults

Wanted == {r \in Route : r.cidr \in cidrOf[r.node]}

Init ==
    /\ cidrOf = [n \in Nodes |-> {}]
    /\ table = Foreign
    /\ pc = "idle" /\ listed = {} /\ toCreate = {} /\ toDelete = {}
    /\ steady = {} /\ clean = FALSE
    /\ changes = 0 /\ faults = 0

-----------------------------------------------------------------------------
\* A node joins with a CIDR nobody has, or leaves.
NodeChanges(n) ==
    /\ changes < MaxChanges /\ changes' = changes + 1
    /\ \/ /\ cidrOf[n] = {}
          /\ \E c \in Cidrs : /\ \A m \in Nodes : c \notin cidrOf[m]
                              /\ cidrOf' = [cidrOf EXCEPT ![n] = {c}]
       \/ cidrOf[n] # {} /\ cidrOf' = [cidrOf EXCEPT ![n] = {}]
    /\ steady' = {r \in steady : r.cidr \in cidrOf'[r.node]} /\ clean' = FALSE
    /\ UNCHANGED <<table, pc, listed, toCreate, toDelete, faults>>

Fault == faults < MaxFaults /\ faults' = faults + 1

\* Slip: routes through gateways that are no nodes any more are left out.
ListsNodesOnly == {r \in table : r \in Foreign \/ cidrOf[r.node] # {}}

\* Slip: gateway and CIDR are mixed up.
MixedUp == {[node |-> r.cidr, cidr |-> r.node] : r \in table}

\* The answer of DescribeClusterRoutes, gateways taken for node names.
Listed == table

\* An error ends the round.
ListRoutes ==
    /\ pc = "idle"
    /\ \/ Fault /\ UNCHANGED <<pc, listed>>
       \/ listed' = Listed /\ pc' = "listed" /\ UNCHANGED faults
    /\ UNCHANGED <<cidrOf, table, toCreate, toDelete, steady, clean, changes>>

\* The controller is only responsible for CIDRs of the cluster (external).
Responsible(r) == r \notin Foreign

\* It reads the nodes and calls for what is missing and what is too much.
Reconcile ==
    /\ pc = "listed" /\ pc' = "calling"
    /\ toCreate' = Wanted \ listed
    /\ toDelete' = {r \in listed : Responsible(r)} \ Wanted
    /\ listed' = {} /\ steady' = Wanted /\ clean' = TRUE
    /\ UNCHANGED <<cidrOf, table, changes, faults>>

\* A creation takes effect or not: it may fail, or be refused because the
\* CIDR has another gateway yet.  An error is only logged.
CreateRoute(r) ==
    /\ r \in toCreate /\ toCreate' = toCreate \ {r}
    /\ \/ table' = table \cup {r} /\ UNCHANGED <<clean, faults>>
       \/ UNCHANGED table /\ clean' = FALSE /\ Fault
       \/ /\ \E s \in table : s.cidr = r.cidr /\ s # r
          /\ clean' = FALSE /\ UNCHANGED <<table, faults>>
    /\ UNCHANGED <<cidrOf, pc, listed, toDelete, steady, changes>>

\* Slip: only the CIDR is sent.
DeletedByCidr(r) == {s \in table : s.cidr = r.cidr}

\* What a deletion by gateway and CIDR deletes.
Deleted(r) == {r}

DeleteRoute(r) ==
    /\ r \in toDelete /\ toDelete' = toDelete \ {r}
    /\ \/ table' = table \ Deleted(r) /\ UNCHANGED <<clean, faults>>
       \/ UNCHANGED table /\ clean' = FALSE /\ Fault
    /\ UNCHANGED <<cidrOf, pc, listed, toCreate, steady, changes>>

RoundEnds ==
    /\ pc = "calling" /\ toCreate = {} /\ toDelete = {}
    /\ pc' = "idle" /\ steady' = {} /\ clean' = FALSE
    /\ UNCHANGED <<cidrOf, table, listed, toCreate, toDelete, changes, faults>>

-----------------------------------------------------------------------------
Calls == \E r \in Route \cup Foreign : CreateRoute(r) \/ DeleteRoute(r)

Next ==
    \/ \E n \in Nodes : NodeChanges(n)
    \/ ListRoutes \/ Reconcile \/ Calls \/ RoundEnds

Spec == Init /\ [][Next]_vars

\* The controller begins round after round, and calls return.
FairSpec == Spec /\ WF_vars(ListRoutes \/ Reconcile \/ Calls \/ RoundEnds)

-----------------------------------------------------------------------------
\* A route to a node that has kept its CIDR since the nodes were read stays:
\* not even while its CIDR's former gateway is being removed at the same time
\* do its pods lose their route.
RouteKept == [][\A r \in table \ table' : r \notin steady]_vars

\* What carries the proofs: a deletion under way is none of a wanted route,
\* and none of somebody else's.
CallsRight ==
    /\ toDelete \cap steady = {}
    /\ toDelete \cap Foreign = {}
    /\ pc # "calling" => toCreate = {} /\ toDelete = {} /\ steady = {}

\* A round that nothing comes in the way of, after however many that failed,
\* puts the table right: when its calls have returned, every node has its
\* route, and beside those there are only the routes of somebody else.
RoundSettles ==
    pc = "calling" /\ clean /\ toCreate = {} /\ toDelete = {} => table = Wanted \cup Foreign

\* What carries its proof: what was listed is still there, and the calls under
\* way are for just what is missing and what is too much.
Settling ==
    /\ Foreign \subseteq table
    /\ pc = "listed" => listed = table
    /\ pc = "calling" /\ clean =>
          toCreate = Wanted \ table /\ toDelete = table \ (Wanted \cup Foreign)

\* Once the cluster stays as it is, every node gets its route and no other
\* route of the cluster remains.
RoutesConverge == <>[](table = Wanted \cup Foreign)
=============================================================================
