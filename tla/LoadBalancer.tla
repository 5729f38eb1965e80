---------------------------- MODULE LoadBalancer ----------------------------
(***************************************************************************)
(* How the provider keeps one Service of type LoadBalancer and its CLB in  *)
(* step: EnsureLoadBalancer, GetLoadBalancer and EnsureLoadBalancerDeleted *)
(* (pkg/tencentcloud/loadbalancer.go) with everything they call in         *)
(* tencentcloud_loadbalancer.go, down to one action per API call.          *)
(*                                                                         *)
(* The service controller (Kubernetes 1.18, external) never runs two syncs *)
(* of one Service at a time, so there is one worker, whose position in the *)
(* code is pc.  Beside it runs the controller's node sync, whose           *)
(* UpdateLoadBalancer fills the same TTL cache: its query and its write to *)
(* the cache are two actions, the worker's are one.  Users change, drop    *)
(* and recreate the Service at any time; the CLB ends its tasks at any     *)
(* time (module Clb).                                                      *)
(*                                                                         *)
(* A definition introduced as "Slip" is not part of the specification: it  *)
(* is what a plausible mistake would make of the definition after it, and  *)
(* some property below is false with it.                                   *)
(***************************************************************************)
EXTENDS Clb

CONSTANTS
    Specs,          \* Service specs a user may ask for
    Subnetless,     \* kinds "private" without the subnet annotation
    LongName,       \* is the balancer's name cut, and completed with the uid?
    Faults,         \* which faults happen: subset of FaultKinds
    MaxFaults,      \* bound on the number of faults
    MaxChanges      \* bound on the number of user changes

FaultKinds == {"api",       \* a call fails without effect
               "lost",      \* a call is accepted, its answer lost
               "wait",      \* waiting for a task times out or fails
               "taskFail",  \* a task ends in failure
               "crash"}     \* the process dies and starts again

SpecSet == [kind : Kinds, ports : SUBSET Ports, affinity : BOOLEAN]

ASSUME LoadBalancerAssumption ==
    /\ Specs \subseteq SpecSet
    /\ Subnetless \subseteq Kinds
    /\ LongName \in BOOLEAN
    /\ Faults \subseteq FaultKinds
    /\ MaxFaults \in Nat
    /\ MaxChanges \in Nat

VARIABLES
    svc,            \* the Service object: uid, wanted (a balancer), spec
    held,           \* does the Service carry the load-balancer finalizer?
    queued,         \* is its key in the work queue?
    clbCache,       \* cache "clb_id_<name>": {} is a miss, {i} a hit
    listenerCache,  \* cache "clb_listener_id_<id>": {} a miss, {ports} a hit
    pc,             \* where the worker is
    snap,           \* the Service as the worker read it
    lb,             \* the balancer in hand: {} or {i}
    task,           \* the call whose task the worker awaits: {} or {c}
    toCreate,       \* listenersToCreate, those left
    toDelete,       \* listenersToDelete, those left
    peer,           \* the balancer UpdateLoadBalancer was told: {} or {i}
    faults,         \* faults so far
    changes         \* user changes so far

others == <<svc, held, changes, peer>>
cache  == <<clbCache, listenerCache>>
frame  == <<snap, lb, task, toCreate, toDelete>>
vars   == <<cloud, others, queued, cache, pc, frame, faults>>

Service == [uid : Uids, wanted : BOOLEAN, spec : Specs]
Labels  == {"idle", "ensure", "instance", "create", "delete", "wait", "listeners",
            "describe", "apply", "backends", "targets", "status", "ensured",
            "exists", "ensureDeleted", "deleted"}
Names   == 0 .. MaxUid

TypeOK ==
    /\ ClbTypeOK
    /\ svc \in Service /\ snap \in Service
    /\ held \in BOOLEAN /\ queued \in BOOLEAN
    /\ clbCache \in [Names -> SUBSET LbIds]
    /\ listenerCache \in [LbIds -> SUBSET SUBSET Ports]
    /\ pc \in Labels
    /\ lb \subseteq LbIds
    /\ task \subseteq Call
    /\ toCreate \subseteq Ports /\ toDelete \subseteq Ports
    /\ peer \subseteq LbIds
    /\ faults \in Nat /\ changes \in Nat

Init ==
    /\ ClbInit
    /\ svc \in [uid : {1}, wanted : {TRUE}, spec : Specs]
    /\ snap = svc
    /\ held = FALSE /\ queued = TRUE
    /\ clbCache = [n \in Names |-> {}]
    /\ listenerCache = [i \in LbIds |-> {}]
    /\ pc = "idle"
    /\ lb = {} /\ task = {} /\ toCreate = {} /\ toDelete = {}
    /\ peer = {}
    /\ faults = 0 /\ changes = 0

-----------------------------------------------------------------------------
\* How a call goes on and how it ends.

Fault(f) ==
    /\ f \in Faults /\ faults < MaxFaults
    /\ faults' = faults + 1

Goto(label) == pc' = label /\ UNCHANGED queued

\* The call returns to the service controller; its locals are gone.
Return ==
    /\ pc' = "idle"
    /\ lb' = {} /\ task' = {} /\ toCreate' = {} /\ toDelete' = {}
    /\ UNCHANGED snap

\* Slip: the error is logged, and nil returned.
SwallowsErrors == Return /\ UNCHANGED queued

\* It returns an error: the controller puts the key back into the queue.
Error == Return /\ queued' = TRUE

\* A changing call is sent: accepted, accepted with its answer lost,
\* refused, or failed.  Once accepted, its caller has create and delete left.
Submit(c, create, delete) ==
    \/ /\ Start(c)
       /\ Goto("wait") /\ task' = {c}
       /\ toCreate' = create /\ toDelete' = delete
       /\ UNCHANGED <<snap, lb, faults>>
    \/ Start(c) /\ Fault("lost") /\ Error
    \/ ~Accepts(c) /\ Error /\ UNCHANGED <<cloud, faults>>
    \/ Fault("api") /\ Error /\ UNCHANGED cloud

-----------------------------------------------------------------------------
\* Slip: a long name is cut, but the uid is left out.
NameWithoutUid(uid) == 0

\* getLoadBalancerName: prefix_namespace_name, one for all incarnations of
\* the Service; longer than 60 it is cut and takes in the uid.
getLoadBalancerName(uid) == IF LongName THEN uid ELSE 0

\* getLoadBalancer: the cached balancer, else the only one that carries the
\* Service's tag; none and several both count as not found.
Found ==
    LET hit  == clbCache[getLoadBalancerName(snap.uid)]
        seen == Described(snap.uid)
    IN  IF hit # {} THEN hit
        ELSE IF \E i \in LbIds : seen = {i} THEN seen ELSE {}

\* Its effect on the cache.
Remember == clbCache' = [clbCache EXCEPT ![getLoadBalancerName(snap.uid)] = Found]

\* Its other outcome: a miss, and DescribeLoadBalancers fails.
LookupFails ==
    /\ clbCache[getLoadBalancerName(snap.uid)] = {}
    /\ Fault("api")
    /\ UNCHANGED clbCache

-----------------------------------------------------------------------------
\* EnsureLoadBalancer refuses session affinity before anything else.
EnsureLoadBalancer ==
    /\ pc = "ensure"
    /\ \/ snap.spec.affinity /\ Error
       \/ ~snap.spec.affinity /\ Goto("instance") /\ UNCHANGED frame
    /\ UNCHANGED <<cloud, others, cache, faults>>

\* Is balancer i of the type, VPC and subnet the Service asks for?
KindMatches(i) == balancers[i].kind = snap.spec.kind

\* ensureLoadBalancerInstance: create the balancer if there is none, replace
\* one of the wrong kind, leave the right one alone.
ensureLoadBalancerInstance ==
    /\ pc = "instance"
    /\ \/ LookupFails /\ Error
       \/ /\ Remember /\ UNCHANGED faults
          /\ \/ /\ Found = {}
                /\ Goto("create") /\ UNCHANGED frame
             \/ /\ Found # {} /\ snap.spec.kind \in Subnetless
                /\ Error
             \/ /\ snap.spec.kind \notin Subnetless
                /\ \E i \in Found :
                      Goto(IF KindMatches(i) THEN "listeners" ELSE "delete")
                /\ UNCHANGED frame
    /\ UNCHANGED <<cloud, others, listenerCache>>

\* Slip: the balancer is created without the tag.
NoTag == 0

\* getLBTags: the tag that ties the balancer to the Service.
getLBTags == snap.uid

createLoadBalancer ==
    /\ pc = "create"
    /\ \/ /\ snap.spec.kind \in Subnetless \/ Fresh = {}
          /\ Error /\ UNCHANGED <<cloud, faults>>
       \/ Fault("api") /\ Error /\ UNCHANGED cloud
       \/ /\ snap.spec.kind \notin Subnetless
          /\ \E i \in Fresh :
                /\ StartCreate(i, getLBTags, snap.spec.kind)
                /\ \/ /\ Goto("wait")
                      /\ task' = {[call |-> "CreateLoadBalancer", id |-> i]}
                      /\ UNCHANGED <<snap, lb, toCreate, toDelete, faults>>
                   \/ Fault("lost") /\ Error
    /\ UNCHANGED <<others, cache>>

\* Slip: whoever deletes a balancer wants a new one.
AlwaysRecreates == "create"

\* deleteLoadBalancer returned nil: its caller goes on.
AfterDelete == IF snap.wanted THEN "create" ELSE "deleted"

deleteLoadBalancer ==
    /\ pc = "delete"
    /\ \/ LookupFails /\ Error /\ UNCHANGED cloud
       \/ /\ Remember
          /\ \/ /\ Found = {}
                /\ Goto(AfterDelete) /\ UNCHANGED <<cloud, frame, faults>>
             \/ \E i \in Found :
                   Submit([call |-> "DeleteLoadBalancer", id |-> i], {}, {})
    /\ UNCHANGED <<others, listenerCache>>

\* Slip: nobody waits for the task.
TaskNotAwaited(c) == TRUE

\* waitApiTaskDone returns nil once the task has ended, well or badly.
TaskEnded(c) == c \notin running

waitApiTaskDone ==
    /\ pc = "wait"
    /\ \E c \in task :
          /\ TaskEnded(c)
          /\ Goto(CASE c.call = "CreateLoadBalancer" -> "listeners"
                    [] c.call = "DeleteLoadBalancer" -> AfterDelete
                    [] OTHER -> "apply")
    /\ task' = {}
    /\ UNCHANGED <<cloud, others, cache, snap, lb, toCreate, toDelete, faults>>

\* Slip: deleteLoadBalancer logs that waiting failed, and returns nil.
waitFailureIgnored ==
    /\ pc = "wait"
    /\ Fault("wait")
    /\ \/ (\A c \in task : c.call # "DeleteLoadBalancer") /\ Error
       \/ /\ \E c \in task : c.call = "DeleteLoadBalancer"
          /\ Goto(AfterDelete) /\ task' = {} /\ UNCHANGED <<snap, lb, toCreate, toDelete>>
    /\ UNCHANGED <<cloud, others, cache>>

\* A new process starts with an empty cache, and no call in progress.
ForgetAll ==
    /\ clbCache' = [n \in Names |-> {}]
    /\ listenerCache' = [i \in LbIds |-> {}]
    /\ peer' = {}

\* It gives up, after 30 polls or a failed one, and its caller returns the
\* error.  Only deleteLoadBalancer first means to evict the balancer from
\* the cache, by a Delete that panics (module TTLCache): the process dies.
waitApiTaskFails ==
    /\ pc = "wait"
    /\ Fault("wait")
    /\ Error
    /\ IF \E c \in task : c.call = "DeleteLoadBalancer"
         THEN ForgetAll
         ELSE UNCHANGED <<cache, peer>>
    /\ UNCHANGED <<cloud, svc, held, changes>>

-----------------------------------------------------------------------------
\* A stage that only needs a balancer in hand: look it up, fail without one.
TakeBalancer(from, to) ==
    /\ pc = from
    /\ \/ LookupFails /\ Error
       \/ /\ Remember /\ UNCHANGED faults
          /\ \/ Found = {} /\ Error
             \/ /\ Found # {} /\ lb' = Found
                /\ Goto(to) /\ UNCHANGED <<snap, task, toCreate, toDelete>>
    /\ UNCHANGED <<cloud, others, listenerCache>>

\* ensureLoadBalancerListeners, up to its first API call.
ensureLoadBalancerListeners == TakeBalancer("listeners", "describe")

\* Slip: no listener ever goes.
OnlyMissing(known) == toCreate' = snap.spec.ports \ known /\ toDelete' = {}

\* Listeners of ports the Service lacks in the list go, missing ones come.
Plan(known) ==
    /\ toCreate' = snap.spec.ports \ known
    /\ toDelete' = known \ snap.spec.ports

\* getLoadBalancerListeners: the cached list, else DescribeListeners, which
\* fails when the balancer is not there; and what to do about the list.
getLoadBalancerListeners ==
    /\ pc = "describe"
    /\ \E i \in lb :
         \/ /\ \E known \in listenerCache[i] : Plan(known)
            /\ Goto("apply") /\ UNCHANGED <<snap, lb, task, listenerCache, faults>>
         \/ /\ listenerCache[i] = {} /\ Live(i)
            /\ Plan(listeners[i])
            /\ listenerCache' = [listenerCache EXCEPT ![i] = {listeners[i]}]
            /\ Goto("apply") /\ UNCHANGED <<snap, lb, task, faults>>
         \/ /\ listenerCache[i] = {}
            /\ Fault("api") \/ (~Live(i) /\ UNCHANGED faults)
            /\ Error /\ UNCHANGED listenerCache
    /\ UNCHANGED <<cloud, others, clbCache>>

\* First every listener to create, one call at a time.
createListener ==
    /\ pc = "apply"
    /\ \E i \in lb, p \in toCreate :
          Submit([call |-> "CreateListener", id |-> i, port |-> p], toCreate \ {p}, toDelete)
    /\ UNCHANGED <<others, cache>>

\* Then every one to delete.
deleteListener ==
    /\ pc = "apply" /\ toCreate = {}
    /\ \E i \in lb, p \in toDelete :
          Submit([call |-> "DeleteListener", id |-> i, port |-> p], {}, toDelete \ {p})
    /\ UNCHANGED <<others, cache>>

listenersEnsured ==
    /\ pc = "apply" /\ toCreate = {} /\ toDelete = {}
    /\ lb' = {} /\ Goto("backends")
    /\ UNCHANGED <<cloud, others, cache, snap, task, toCreate, toDelete, faults>>

-----------------------------------------------------------------------------
\* ensureLoadBalancerBackends, up to DescribeTargets.
ensureLoadBalancerBackends == TakeBalancer("backends", "targets")

\* Slip: a port without listener is skipped.
SkipsPortWithoutListener(i) == Live(i)

\* DescribeTargets finds a listener for each port of the Service.
EveryPortHasListener(i) == Live(i) /\ snap.spec.ports \subseteq listeners[i]

\* The rest of it: a balancer that is gone or a port without listener is an
\* error.  The targets themselves are left out, and with them that the code
\* meets such a port only after it has removed targets of the ports before
\* it; a node list without the label, or a failing lookup or
\* (de)registration, is the fault "api".
describeTargets ==
    /\ pc = "targets"
    /\ \E i \in lb :
         \/ /\ EveryPortHasListener(i)
            /\ lb' = {} /\ Goto("status")
            /\ UNCHANGED <<snap, task, toCreate, toDelete, faults>>
         \/ ~EveryPortHasListener(i) /\ Error /\ UNCHANGED faults
         \/ Fault("api") /\ Error
    /\ UNCHANGED <<cloud, others, cache>>

\* EnsureLoadBalancer reports the addresses of the balancer it finds now.
reportStatus == TakeBalancer("status", "ensured")

-----------------------------------------------------------------------------
\* Slip: GetLoadBalancer reports a failed lookup as "does not exist".
GetLoadBalancerHidesErrors ==
    /\ pc = "exists"
    /\ \/ LookupFails /\ Goto("deleted")
       \/ /\ Remember /\ UNCHANGED faults
          /\ Goto(IF Found = {} THEN "deleted" ELSE "ensureDeleted")
    /\ UNCHANGED <<cloud, others, frame, listenerCache>>

\* The controller asks GetLoadBalancer before it asks for a deletion.
GetLoadBalancer ==
    /\ pc = "exists"
    /\ \/ LookupFails /\ Error
       \/ /\ Remember /\ UNCHANGED <<frame, faults>>
          /\ Goto(IF Found = {} THEN "deleted" ELSE "ensureDeleted")
    /\ UNCHANGED <<cloud, others, listenerCache>>

\* Slip: EnsureLoadBalancerDeleted takes any failed lookup for "not found".
EnsureDeletedHidesErrors ==
    /\ pc = "ensureDeleted"
    /\ \/ LookupFails /\ Goto("deleted")
       \/ /\ Remember /\ UNCHANGED faults
          /\ Goto(IF Found = {} THEN "deleted" ELSE "delete")
    /\ UNCHANGED <<cloud, others, listenerCache, frame>>

\* EnsureLoadBalancerDeleted: not found is success; any other outcome of
\* the lookup, an error too, goes on to deleteLoadBalancer.
EnsureLoadBalancerDeleted ==
    /\ pc = "ensureDeleted"
    /\ \/ LookupFails /\ Goto("delete")
       \/ /\ Remember /\ UNCHANGED faults
          /\ Goto(IF Found = {} THEN "deleted" ELSE "delete")
    /\ UNCHANGED <<cloud, others, listenerCache, frame>>

-----------------------------------------------------------------------------
\* UpdateLoadBalancer, as far as it shares the cache: it looks up the balancer
\* of the Service last synced.  After a miss it asks the CLB ...
UpdateLoadBalancer ==
    /\ snap.wanted /\ held /\ peer = {}
    /\ clbCache[getLoadBalancerName(snap.uid)] = {}
    /\ \E i \in LbIds : Described(snap.uid) = {i} /\ peer' = {i}
    /\ UNCHANGED <<cloud, svc, held, changes, queued, cache, pc, frame, faults>>

\* Slip: the answer is cached under the name the Service has by now.
RemembersUnderNewName ==
    /\ \E i \in peer : clbCache' = [clbCache EXCEPT ![getLoadBalancerName(snap.uid)] = {i}]
    /\ peer' = {}
    /\ UNCHANGED <<cloud, svc, held, changes, queued, listenerCache, pc, frame, faults>>

\* ... and caches the answer, which by then may be history.
updateRemembers ==
    /\ \E i \in peer :
          clbCache' = [clbCache EXCEPT ![getLoadBalancerName(balancers[i].uid)] = {i}]
    /\ peer' = {}
    /\ UNCHANGED <<cloud, svc, held, changes, queued, listenerCache, pc, frame, faults>>

-----------------------------------------------------------------------------
\* The service controller (external).  It takes the key, reads the Service,
\* and sets the finalizer before it first asks for a balancer.
Dequeue ==
    /\ pc = "idle" /\ queued
    /\ queued' = FALSE
    /\ snap' = svc
    /\ held' = (held \/ svc.wanted)
    /\ pc' = IF svc.wanted THEN "ensure" ELSE "exists"
    /\ UNCHANGED <<cloud, svc, changes, peer, cache, lb, task, toCreate, toDelete, faults>>

\* EnsureLoadBalancer returned nil.
SyncEnsured ==
    /\ pc = "ensured"
    /\ Return
    /\ UNCHANGED <<cloud, others, queued, cache, faults>>

\* The balancer counts as deleted: the finalizer comes off.
SyncDeleted ==
    /\ pc = "deleted"
    /\ Return
    /\ held' = (held /\ svc.uid # snap.uid)
    /\ UNCHANGED <<cloud, svc, changes, peer, queued, cache, faults>>

-----------------------------------------------------------------------------
\* Users (external).  Each change puts the key into the queue.
Change(new) ==
    /\ changes < MaxChanges /\ changes' = changes + 1
    /\ svc' = new
    /\ queued' = TRUE
    /\ UNCHANGED <<held, cloud, cache, pc, frame, peer, faults>>

\* The spec is edited.
EditSpec == \E s \in Specs :
    svc.wanted /\ s # svc.spec /\ Change([svc EXCEPT !.spec = s])

\* The Service is deleted or changes to another type ...
DropBalancer == svc.wanted /\ Change([svc EXCEPT !.wanted = FALSE])

\* ... and back: the same object, the same uid.
WantAgain == ~svc.wanted /\ Change([svc EXCEPT !.wanted = TRUE])

\* A Service of the same name is created once the old one is gone, which
\* the finalizer delays until its balancer counts as deleted.
Recreate == \E s \in Specs :
    /\ ~svc.wanted /\ ~held /\ svc.uid < MaxUid
    /\ Change([uid |-> svc.uid + 1, wanted |-> TRUE, spec |-> s])

-----------------------------------------------------------------------------
\* Slip: cached balancers never expire.
NeverExpires == FALSE

\* Cache entries vanish when their 60 s are over; when that is, relative to
\* the steps of a sync that may wait 30 s per task, is left open.
ExpireBalancer ==
    \E n \in Names :
       /\ clbCache[n] # {}
       /\ clbCache' = [clbCache EXCEPT ![n] = {}]
       /\ UNCHANGED <<cloud, others, queued, listenerCache, pc, frame, faults>>

ExpireListeners ==
    \E i \in LbIds :
       /\ listenerCache[i] # {}
       /\ listenerCache' = [listenerCache EXCEPT ![i] = {}]
       /\ UNCHANGED <<cloud, others, queued, clbCache, pc, frame, faults>>

\* The process dies: its cache and the call in progress are lost, and the
\* next one starts by queueing every Service.
Crash ==
    /\ Fault("crash")
    /\ Error
    /\ ForgetAll
    /\ UNCHANGED <<cloud, svc, held, changes>>

\* The CLB ends a task.
CloudSucceeds == \E c \in running :
    TaskSucceeds(c) /\ UNCHANGED <<others, queued, cache, pc, frame, faults>>
CloudFails == \E c \in running :
    /\ TaskFails(c) /\ Fault("taskFail")
    /\ UNCHANGED <<others, queued, cache, pc, frame>>

\* Nothing left to do, within the bound on changes: not a deadlock.
AtRest ==
    /\ pc = "idle" /\ ~queued
    /\ UNCHANGED vars

-----------------------------------------------------------------------------
Worker ==
    \/ Dequeue \/ EnsureLoadBalancer \/ ensureLoadBalancerInstance
    \/ createLoadBalancer \/ deleteLoadBalancer
    \/ waitApiTaskDone \/ waitApiTaskFails
    \/ ensureLoadBalancerListeners \/ getLoadBalancerListeners
    \/ createListener \/ deleteListener \/ listenersEnsured
    \/ ensureLoadBalancerBackends \/ describeTargets \/ reportStatus
    \/ GetLoadBalancer \/ EnsureLoadBalancerDeleted
    \/ SyncEnsured \/ SyncDeleted

NodeSync == UpdateLoadBalancer \/ updateRemembers
User == EditSpec \/ DropBalancer \/ WantAgain \/ Recreate

Environment ==
    \/ ExpireBalancer \/ ExpireListeners \/ Crash
    \/ CloudSucceeds \/ CloudFails

Next == Worker \/ NodeSync \/ User \/ Environment \/ AtRest

Spec == Init /\ [][Next]_vars

\* The worker keeps working, accepted tasks end, cache entries expire.
Fairness ==
    /\ WF_vars(Worker)
    /\ WF_vars(CloudSucceeds)
    /\ WF_vars(ExpireBalancer)
    /\ WF_vars(ExpireListeners)

FairSpec == Spec /\ Fairness

-----------------------------------------------------------------------------
\* A Service never owns two balancers, and none is left over from an earlier
\* incarnation: creations (createLoadBalancer) are preceded by a lookup that
\* stays valid.
AtMostOneBalancer == \A i, j \in LbIds : Alive(i) /\ Alive(j) => i = j

\* When the deletion of the balancer is reported done, no balancer of that
\* Service exists or is about to (EnsureLoadBalancerDeleted returned nil, or
\* GetLoadBalancer said there is none).
DeletedLeavesNothing ==
    pc = "deleted" => \A i \in LbIds : Alive(i) => balancers[i].uid # snap.uid

\* Every balancer belongs to a Service object that is still there and that
\* the finalizer keeps there, so that somebody will delete the balancer.
NoOrphan == \A i \in LbIds : Alive(i) => held /\ balancers[i].uid = svc.uid

Served ==
    \E i \in LbIds : /\ Live(i) /\ balancers[i].uid = snap.uid
                     /\ snap.spec.ports \subseteq listeners[i]

\* When EnsureLoadBalancer returns without error, the Service it was asked
\* about has a balancer, with a listener for each of its ports, whatever was
\* in the caches on the way.
EnsuredServesEveryPort ==
    pc = "ensured" => Served

\* And the address it returns is the address of a balancer that exists.
EnsuredReportsLive == pc = "ensured" => \A i \in lb : Live(i)

\* ... of a balancer of the type, VPC and subnet the Service asks for.
EnsuredKindIsRight == pc = "ensured" => \A i \in lb : KindMatches(i)

\* ... and of a balancer with the listeners of the Service and no other.
EnsuredListenersMatch ==
    pc = "ensured" => \A i \in lb : listeners[i] = snap.spec.ports

\* Whatever the cache says, a changing call only ever reaches a balancer
\* that carries the tag of the Service being synced.
TouchesOnlyOwn ==
    [][\A c \in running' \ running : balancers'[c.id].uid = snap.uid]_vars

\* While the Service wants a balancer, none is deleted that already is what
\* the Service wants.
ReplacesOnlyTheWrong ==
    [][\A c \in running' \ running :
          c.call = "DeleteLoadBalancer" /\ snap.wanted => ~KindMatches(c.id)]_vars

-----------------------------------------------------------------------------
\* What holds between the steps as long as no accepted call is lost sight of
\* (Faults \subseteq {"api"}); the invariants above follow from it.

NoneAlive == \A i \in LbIds : ~Alive(i)

\* A sync works on the current incarnation: the finalizer it relies on, or
\* that made it necessary, keeps the Service in place.
SyncIsCurrent ==
    /\ pc \in {"ensure", "instance", "create", "listeners", "describe", "apply",
               "backends", "targets", "status", "ensured"} => snap.wanted
    /\ pc \in {"exists", "ensureDeleted", "deleted"} => ~snap.wanted
    /\ pc # "idle" /\ snap.wanted => held
    /\ pc # "idle" /\ held => snap.uid = svc.uid

\* The only call whose task may be running is the one the worker awaits, and
\* once a deletion has ended nothing is left.
OneCallAtATime ==
    /\ task # {} => pc = "wait"
    /\ \A c, d \in task : c = d
    /\ running \subseteq task
    /\ \A i \in LbIds : balancers[i].state = "pending" <=>
          [call |-> "CreateLoadBalancer", id |-> i] \in running
    /\ \A c \in task :
          IF c.call = "DeleteLoadBalancer"
            THEN IF c \in running THEN Live(c.id) ELSE NoneAlive
            ELSE snap.wanted

\* The only places where a balancer may be created, or counts as deleted.
NothingThere == pc \in {"create", "deleted"} => NoneAlive

\* The inductive invariant (with TypeOK).  What describeTargets has checked
\* stays so for the rest of the sync.
Consistent ==
    /\ AtMostOneBalancer /\ NoOrphan
    /\ SyncIsCurrent /\ OneCallAtATime /\ NothingThere
    /\ pc \in {"status", "ensured"} => Served

-----------------------------------------------------------------------------
\* Under every fault: a cached balancer, or one in hand, is one that was
\* created for an incarnation of the Service with that very name.
CachedByName ==
    /\ \A n \in Names : \A i \in clbCache[n] :
          balancers[i] # Untouched /\ getLoadBalancerName(balancers[i].uid) = n
    /\ \A i \in peer : balancers[i] # Untouched
    /\ \A i \in lb : /\ balancers[i] # Untouched
                    /\ getLoadBalancerName(balancers[i].uid) = getLoadBalancerName(snap.uid)
    /\ pc = "idle" => lb = {}

-----------------------------------------------------------------------------
\* Of what the Service asks for: a live balancer of its own, with a listener
\* for each of its ports, or none where it wants none.  Not whether that
\* balancer is of the kind asked for and has no other listeners: after two
\* edits it may be neither, for good (LoadBalancerCalm says when it is).
Reachable ==
    IF svc.wanted
      THEN \E i \in LbIds : /\ Live(i) /\ balancers[i].uid = svc.uid
                            /\ svc.spec.ports \subseteq listeners[i]
      ELSE \A i \in LbIds : ~Alive(i)

\* A Service whose key nobody has queued, and that is not being synced, can
\* be reached on each of its ports, or has no balancer if it wants none,
\* whatever it went through: no error (EnsureLoadBalancer,
\* EnsureLoadBalancerDeleted) is swallowed on the way.
RestsReachable == pc = "idle" /\ ~queued => Reachable

\* What carries its proof: a change after the Service was read is queued.
NothingMissed == (~queued => snap = svc) /\ RestsReachable

-----------------------------------------------------------------------------
\* What is left of all this when only the Service, its finalizer, the call
\* under way and the balancer itself are looked at.
Request(s)   == [uid |-> s.uid, wanted |-> s.wanted, ports |-> s.spec.ports]
CallUnderWay == IF pc = "idle" THEN {} ELSE {Request(snap)}
Visible(i)   == [id |-> i, uid |-> balancers[i].uid, up |-> Live(i), ports |-> listeners[i]]
Existing     == {Visible(i) : i \in {j \in LbIds : Alive(j)}}
UsedIds      == {i \in LbIds : balancers[i] # Untouched}

Promise == INSTANCE ServiceBalancer WITH
    Reliable <- Faults \subseteq {"api"},
    service  <- Request(svc), guarded <- held,
    call     <- CallUnderWay, balancer <- Existing, used <- UsedIds

\* What the provider promises Kubernetes holds step by step, whatever is in
\* its cache and whoever changes the Service meanwhile (EnsureLoadBalancer,
\* GetLoadBalancer, EnsureLoadBalancerDeleted).
KeepsPromise == Promise!Spec
=============================================================================
