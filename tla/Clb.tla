-------------------------------- MODULE Clb --------------------------------
(***************************************************************************)
(* The Tencent Cloud load balancer service (CLB) as the provider sees it   *)
(* through its API.  It is not part of the repository; this module states  *)
(* what pkg/tencentcloud/tencentcloud_loadbalancer.go relies on.           *)
(*                                                                         *)
(* A balancer carries the tag k8s-service-id = uid of the Service it was   *)
(* created for, and a kind, which stands for its type, VPC and subnet;     *)
(* both never change.  Its name is left out: it is a function of the       *)
(* Service, and a query that filters by tag needs nothing else.  A         *)
(* listener is identified by its (port, protocol) pair.                    *)
(*                                                                         *)
(* Every changing call is asynchronous: the service accepts it, returns a  *)
(* request id, and carries it out later, or fails to.                      *)
(***************************************************************************)
EXTENDS Naturals

CONSTANTS
    MaxIds,         \* bound on the ids handed out
    Kinds,          \* (type, VPC, subnet) combinations
    NoKind,         \* the kind of an id that is not in use yet
    Ports,          \* (port, protocol) pairs
    MaxUid,         \* incarnations of the Service: bound on its uid
    PendingVisible  \* does a query return a balancer still being created?

ASSUME ClbAssumption ==
    /\ MaxIds \in Nat /\ MaxUid \in Nat \ {0}
    /\ NoKind \notin Kinds
    /\ PendingVisible \in BOOLEAN

VARIABLES
    balancers,      \* balancers[i]: tag, kind and life-cycle state of id i
    listeners,      \* listeners[i]: the listeners of balancer i
    running         \* accepted calls whose task has not ended

cloud == <<balancers, listeners, running>>

LbIds == 1 .. MaxIds
Uids  == 1 .. MaxUid

Untouched == [uid |-> 0, kind |-> NoKind, state |-> "none"]
Balancer  == {Untouched} \cup [uid : Uids, kind : Kinds, state : {"pending", "live", "gone"}]

BalancerCall == [call : {"CreateLoadBalancer", "DeleteLoadBalancer"}, id : LbIds]
ListenerCall == [call : {"CreateListener", "DeleteListener"}, id : LbIds, port : Ports]
Call == BalancerCall \cup ListenerCall

ClbTypeOK ==
    /\ balancers \in [LbIds -> Balancer]
    /\ listeners \in [LbIds -> SUBSET Ports]
    /\ running \subseteq {c \in Call : balancers[c.id] # Untouched}

ClbInit ==
    /\ balancers = [i \in LbIds |-> Untouched]
    /\ listeners = [i \in LbIds |-> {}]
    /\ running = {}

Live(i) == balancers[i].state = "live"

\* A balancer that exists or is about to.
Alive(i) == balancers[i].state \in {"pending", "live"}

\* DescribeLoadBalancers, filtered by the tag of the Service.
Described(uid) ==
    {i \in LbIds : /\ balancers[i].uid = uid
                   /\ Live(i) \/ (PendingVisible /\ Alive(i))}

\* The id CreateLoadBalancer gives out next.  No id is used twice; nobody
\* compares ids, so handing them out in order loses nothing.  There is none
\* once MaxIds are used, and the call is refused, as it is without quota.
Fresh == {i \in LbIds : \A j \in LbIds : balancers[j] = Untouched <=> j >= i}

\* CreateLoadBalancer, accepted: a new id, not usable yet.
StartCreate(i, uid, kind) ==
    /\ balancers' = [balancers EXCEPT ![i] = [uid |-> uid, kind |-> kind, state |-> "pending"]]
    /\ running' = running \cup {[call |-> "CreateLoadBalancer", id |-> i]}
    /\ UNCHANGED listeners

\* The other changing calls are refused unless their target is there.
Accepts(c) ==
    /\ Live(c.id)
    /\ c.call = "CreateListener" => c.port \notin listeners[c.id]
    /\ c.call = "DeleteListener" => c.port \in listeners[c.id]

Start(c) ==
    /\ Accepts(c)
    /\ running' = running \cup {c}
    /\ UNCHANGED <<balancers, listeners>>

\* The task of call c ends, and has done what was asked.
TaskSucceeds(c) ==
    /\ c \in running
    /\ running' = running \ {c}
    /\ \/ /\ c.call = "CreateLoadBalancer"
          /\ balancers' = [balancers EXCEPT ![c.id].state = "live"]
          /\ UNCHANGED listeners
       \/ /\ c.call = "DeleteLoadBalancer"
          /\ balancers' = [balancers EXCEPT ![c.id].state = "gone"]
          /\ listeners' = [listeners EXCEPT ![c.id] = {}]
       \/ /\ c.call = "CreateListener"
          /\ listeners' = [listeners EXCEPT ![c.id] =
                               IF Live(c.id) THEN @ \cup {c.port} ELSE @]
          /\ UNCHANGED balancers
       \/ /\ c.call = "DeleteListener"
          /\ listeners' = [listeners EXCEPT ![c.id] = @ \ {c.port}]
          /\ UNCHANGED balancers

\* The task of call c ends in failure: a balancer that was being created
\* never comes to life, anything else stays as it was.
TaskFails(c) ==
    /\ c \in running
    /\ running' = running \ {c}
    /\ balancers' = IF c.call = "CreateLoadBalancer"
                      THEN [balancers EXCEPT ![c.id].state = "gone"]
                      ELSE balancers
    /\ UNCHANGED listeners
=============================================================================
