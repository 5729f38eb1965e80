# Verification of the Tencent Cloud provider

TLA+ models of the cloud provider in this repository (`src/`), TLC runs that
check them on small instances, and theorems that TLAPS proves for all values of
their constants. File names below are relative to `src/pkg/`; `TL` is
`tencentcloud/tencentcloud_loadbalancer.go`, `LB` is `tencentcloud/loadbalancer.go`.

## 1. The system

A Kubernetes 1.18 cloud controller manager process. Kubernetes' controllers
(external code) call the provider, the provider calls the Tencent Cloud API.

| part | code | state | operations |
|---|---|---|---|
| Load balancer synchronisation | `LB`, `TL` | none of its own; it reads and writes the TTL cache and the CLB | EnsureLoadBalancer (instance, listeners, backends, status), UpdateLoadBalancer (backends), GetLoadBalancer, EnsureLoadBalancerDeleted |
| TTL cache | `cache/cache.go` | entries with the time they were set, life 60 s (`cloud.go:26`) | Get, Set, Delete |
| Load balancer targets | `TL` 413-649 | targets of each listener (in the CLB) | delete the surplus, add the missing, batches of 20 |
| Health check | `TL` 721-760 | none | five annotations to a request |
| Instances | `tencentcloud/instances.go` | TTL cache entries by address and id | addresses, ids, type, existence, shutdown |
| Routes | `tencentcloud/routes.go` | cluster route table (in the cloud) | list, create, delete |
| isExist | `tencentcloud/common.go` | none | binary search |
| Configuration, start | `tencentcloud/cloud.go`, `cmd/.../main.go` | the configuration | read, check, create clients and cache |
| CLB (external) | not here | balancers, listeners, tasks | asynchronous calls |
| Service controller, node sync, node lifecycle controller, route controller, users (external) | not here | work queue, Service objects with finalizer, nodes | they decide what is called when |

**Interaction.** The service controller takes one key at a time per Service and
calls EnsureLoadBalancer, or GetLoadBalancer and then EnsureLoadBalancerDeleted;
an error puts the key back. Its node sync runs in another goroutine and calls
UpdateLoadBalancer for the same Services. All share one TTL cache: balancers
under `clb_id_<name>`, listener lists under `clb_listener_id_<id>`, instances.
Every changing CLB call returns a request id; the provider polls its task up to
30 times.

**Hard behaviour.** Cached balancers and listener lists outlive what they
describe (a successful deletion evicts nothing, a created listener is not
added); entries expire in the middle of a sync, so two lookups of one sync see
different balancers; the node sync writes the cache in between; a task that
failed counts as done; waiting gives up while the task runs on; an answer is
lost or the process dies after the call was accepted; the Service is edited,
deleted or created anew under the same name during all of that. Worker and node
sync change the targets of one listener from lists read before the other's
changes. Machines are replaced behind cached addresses. `TTLCache.Delete` panics,
on the path where waiting for a deletion has failed.

**What makes each part correct.**
Balancers: never two per Service, none left after a deletion or without a
Service, success means that every port is served, calls reach only the Service's
own balancer, a Service at rest can be reached on its ports, and has exactly what
it asks for when its last change met no cache entry and no sync. Cache: a Get returns
the value Set last or nothing, and no value for ever. Targets: after success
exactly the wanted ones, no batch over 20, traffic kept where two callers race.
Instances: an answer is at most as old as the cache and a query make it, the
addresses asked for are all looked up, a gone machine is reported gone. Routes:
the table converges to the nodes. isExist: membership in a sorted list.

## 2. Modules

| module | models | uses |
|---|---|---|
| `Clb` | the load balancer service, as `TL` relies on it (external) | |
| `LoadBalancer` | one Service and its balancer: the provider's side, the cache, the service controller, the users, the faults | `Clb`, refines `ServiceBalancer` |
| `LoadBalancerCalm` | the same with a history variable: did the last change come quietly? When the balancer ends up exactly as asked, and the invariant for that | EXTENDS `LoadBalancer` |
| `ServiceBalancer` | abstract specification: what Kubernetes may rely on when it leaves the balancer of a Service to the provider | |
| `LossyCache` | abstract specification of the cache: it may forget | |
| `TTLCache` | `cache/cache.go` with its clock, and how the provider uses it | refines `LossyCache` |
| `Backends` | the targets of a balancer, changed by worker and node sync | |
| `BackendsOneSide` | the same where only the nodes or only the node ports change, and the invariant for that | EXTENDS `Backends` |
| `Batches` | the loop that splits a list into calls (three places in the code) | |
| `SortedSearch` | `isExist` and Go's binary search | |
| `Lookup` | `getInstanceByInstancePrivateIps`: loop, searches and cache together | EXTENDS `Batches`, INSTANCE `SortedSearch` |
| `Instances` | what two controllers of Kubernetes learn about machines, and when | |
| `Routes` | the cluster's route table and the route controller | |
| `MCLoadBalancer`, `MCLoadBalancerCalm`, `MCLookup`, `MCBackends`, `MCRoutes` | constants and symmetry of TLC's runs | |
| `LoadBalancerProofs`, `TTLCacheProofs`, `BackendsProofs`, `BatchesProofs`, `SortedSearchProofs`, `LookupProofs`, `InstancesProofs`, `RoutesProofs` | the theorems and their proofs | the module they name |

How the parts fit. `LoadBalancer` and `Backends` use the cache as `LossyCache`
describes it, entries that may vanish at any step, and assume that they do
vanish some time; `TTLCache` is shown to be such a cache. `LoadBalancer` keeps of
ensureLoadBalancerBackends only whether the stage fails; `Backends` is that stage,
for a balancer that has its listeners. Both `Backends` and `Instances` use one
lookup as a unit; `Lookup` is its inside, and a lookup is shown to be a run of
the batch loop with something going on in between.

Definitions introduced as "Slip" are not part of a specification. Each is a
plausible mistake in the definition that follows it; with it in place, a
property of some run fails, which shows that the property can.

### LoadBalancer and Clb

`pc` is where the one worker is; `snap` the Service it was given; `lb`, `task`,
`toCreate`, `toDelete` are the locals `loadBalancer`, the request awaited,
`listenersToCreate` and `listenersToDelete`. `clbCache` and `listenerCache` are
the two families of cache entries, `{}` for a miss and a singleton for a hit.
`peer` is the answer UpdateLoadBalancer holds between its query and its write to
the cache. `svc`, `held` (finalizer) and `queued` are Kubernetes' part.

One action is one API call with the code that leads to it and the code that
acts on its answer. The stages of EnsureLoadBalancer, as values of `pc`:

    ensure -> instance -> [delete -> wait] -> [create -> wait]
           -> listeners -> describe -> apply (-> wait -> apply)*
           -> backends -> targets -> status -> ensured

and of a deletion: `exists -> ensureDeleted -> delete -> wait -> deleted`.
Any stage may return an error, which ends the sync (`Error`). Every stage looks
the balancer up anew, as every function of the code does (`Found`, `Remember`,
`LookupFails` are getLoadBalancer: the cache, else the query, of which one
answer counts and none and several count as not found).

Abstractions, and why they lose nothing:

- A *kind* stands for type, VPC and subnet; the code only compares them for
  equality with what the Service asks for. `Subnetless` kinds are private
  without the subnet annotation, which two places refuse.
- A listener is its (port, protocol). The code matches listeners to ports that
  way and deletes by listener id. An id in a stale list can not be that of a
  newer listener of the same port, because a listed port is not created again.
- Port names are unique in a Service (Kubernetes demands it), so
  `createdServicePortNames` is the set of ports that have a listener.
- Ids are handed out in order. The provider never compares them.
- The lookup of the worker and its write to the cache are one action. The
  write of the node sync is an action of its own, so a late write by either of
  the two goroutines over the other's is covered from that side.
- A cache entry may expire at any moment. The code's waits (30 polls of a
  second and a call each, per task) and the 60 s give no order between them.

Faults (`Faults`, at most `MaxFaults` of them): `api`, a call fails without
effect; `lost`, it is accepted and the answer lost; `wait`, waiting times out,
or a poll fails; `taskFail`, the task ends with status 1; `crash`. When waiting
for a deletion fails, deleteLoadBalancer calls `TTLCache.Delete`, which panics:
`waitApiTaskFails` empties the cache there, as `Crash` does.

Left out: the code meets a port without listener inside the loop that removes
targets (`TL` 467-482), so after removals for earlier ports. `describeTargets` fails
without effect there, since targets are not in this module; in `Backends` every
port has its listener.

The CLB, as assumed: a call to a balancer that is not there is refused, its
effect comes when its task ends, a tag query is exact, an id is not used twice.
Whether a balancer whose creation runs is already listed is left open
(`PendingVisible`).

### LoadBalancerCalm

A sync that works with a cache entry, or with a list it read before it waited, may
succeed and leave the balancer of the wrong kind or with listeners too many, and
then nothing calls the provider again (`EnsuredKindIsRight` and
`EnsuredListenersMatch` in section 4). So of a Service at rest `RestsReachable` only
says that it has a live balancer of its own with a listener for each port. `calm`
records whether the last change of the Service was `Quiet`: no sync under way, no
answer in the hands of the node sync, no entry in the cache, as when nothing has
been done about the Service for 60 s. Then `Exact` is reached: the kind asked for, the
listeners of its ports, no other listener and no other balancer, whatever is
cached, expires, fails or is retried from then on.

### ServiceBalancer

What is left of `LoadBalancer` when only the Service, its finalizer (`guarded`),
the queue, the call under way and the balancer are looked at. The balancer's kind is
left out, and success allows listeners too many: the code keeps no promise about
either (section 4). `Create`, `Serve` and `Remove` are what the tasks of the CLB do
to the balancer, `CallBegins`, `CallFails`, `Ensured` and `Deleted` the begin of a
call and its three ends. In the refinement
(`Promise` in `LoadBalancer`) a call is under way when `pc` is not "idle", and the
balancer is the set of those alive, so that a second one would have no place in
it. `Reliable` says that no accepted call is lost sight of. It is substituted by
`Faults \subseteq {"api"}`: where answers get lost or processes die, a balancer may
change although no call is under way, and one that was checked may be gone by the
time the call returns.

### LossyCache and TTLCache

`store[k]` is the item of client-go's expiring store under `k`, with its age in
ticks up to `Ttl + 1` instead of a time stamp. `Get`, `Set` and `Delete` are the
methods of `TTLCache`; `asking` is the key a caller has missed and asks the cloud
for, after which it may `Set` an answer of any age, or give up. `Delete` hands a
string to the store, `cacheKeyFunc` asserts a `*TencentCloudCacheEntry`, so the
process ends (`up`). The refinement mapping hides expired entries (`Visible`).

### Backends

`nodes` are the nodes that are ready and carry the label; a node is the address
of its machine, and `gen` counts the machines at that address. `targets` is what
the listeners forward to. `step[c]` is where a caller, the worker or the node
sync, is in ensureLoadBalancerBackends:

    lookup -> describe -> apply (-> wait -> apply)* -> done

`remove` and `add` are the surplus and the missing targets not sent yet, computed
from the one DescribeTargets (`backendsToDelete`, `backendsToAdd`), removed first.
`Batch` takes what a call takes of one listener; the code goes through the ports
in the order of the Service, the model allows any order. `cached`, `known` and `retry` are the service
controller's memory: the Service as last synced, the nodes of the last node sync,
the Services to try again there. A task registers a target only if its machine
still lives, and the service drops the targets of a machine that ends.
Whether registering a target twice, or deregistering one that is gone, is refused
is not in the repository: either may happen (`MayRefuse`). Two running tasks of
one caller with the same targets count as one. Labels of nodes stay as they are.

### Batches, SortedSearch, Lookup

A step of `Batches` is an iteration of the loop at `TL` 510 and 567 (20 a call) and
`tencentcloud/instances.go` 229 (5 a call); items are numbered. A step of
`SortedSearch` is a turn of `sort.Search`. `Lookup` runs both: after each call the
addresses of the machines in the answer are searched for one by one (`isExist`,
`SearchStep`, `Take`), and what is found is cached and joins the result. Addresses
are numbers, machines may have several, another VPC may have the same ones; within
the VPC an address belongs to one machine, and there are finitely many. Two nodes
are never on one machine.

### Instances

A tick of the clock is the unit; a query takes up to `Latency` ticks, a cache
entry lives `Ttl`. `cache` holds both families (by address, by id). The node
lifecycle controller asks about a node that is not ready, first whether the
machine exists (`ExistsReturns`) and then whether it is shut down. Of a node without
provider id it asks for the id first (`NameReturns`), by name; only there is a
missing machine an answer, and the node goes. With the id it was told it asks
whether the machine exists, and the question after that, with the Node's empty id,
is refused for its format without a query. The cloud node controller asks
for id, addresses and type of a new node and writes all at once. `phase` says
which answer is needed next, `reply` is the answer under way, so that a machine
may change between the moment the cloud answers and the moment the provider
caches the answer. `since` is history: how long a machine has been as it is.

### Routes

Round after round the controller lists the table (`ListRoutes`), reads the nodes,
and sends all creations and deletions at once (`Reconcile`); they end in any order
(`CreateRoute`, `DeleteRoute`), an error is only logged. `Foreign` are routes
outside the CIDRs of the cluster. `steady` and `clean` are history: the routes
wanted without a break since the nodes were read, and whether no node has changed
and no call failed since then.

## 3. Properties and runs

| run | module, instance | shows |
|---|---|---|
| `lb_reliable` | `MCLoadBalancerCalm`: 2 kinds, one with two port sets, 2 incarnations, 2 changes by users, 1 failing call, 4 ids | `RestsReachable`: a Service that is neither queued nor being synced has a live balancer of its own with a listener for each port, or none if it wants none. `RestsExact`: if its last change came quietly, exactly the kind and the listeners it asks for. `DeletedLeavesNothing`: a deletion is reported done only when nothing is left. `EnsuredServesEveryPort`: success means a live balancer of the Service with a listener for each port. `TouchesOnlyOwn`: a call reaches only the Service's own balancer. `KeepsPromise`: the refinement of `ServiceBalancer`. `Consistent`: the inductive invariant, with `AtMostOneBalancer` and `NoOrphan` in it |
| `lb_env` | 4 specs, two of them refused; two of lost answer, failed wait, crash, failed call; 2 changes; 3 ids, so that the quota runs out; a running creation is listed | `AtMostOneBalancer`: a Service never has two balancers, nor one beside that of an earlier incarnation. `NoOrphan`: a balancer has its Service, held by the finalizer. `KeepsPromise` under these faults, a deletion reported done included |
| `lb_long` | names that take in the uid, every fault, 2 of them | `TouchesOnlyOwn`, `CachedByName` (a cache entry is a balancer of that name) whatever fails |
| `lb_live` | as `lb_reliable`, 8 ids, with fairness | `ConvergesExactly`: once users stop, the queue drains and the Service stays reachable, or without balancer; with exactly what it asks for, if the last change came quietly |
| `ttl_cache` | 2 keys, 2 values, 2 callers, TTL 2 | `IsLossyCache`: the refinement. `EntriesExpire`: no key stays visible for ever, though callers that missed it Set it one after the other |
| `lookup` | up to 9 addresses, 5 a call, three clouds | `FindsExactly`: an error-free lookup has found each machine once and nothing else, and cached it. `CachesRight`: also half way. `IsExistRight`, `WithinLimit` (no call too long or empty), `NothingDropped` |
| `backends_alone` | 3 nodes, 1 port, 2 targets a call, 2 changes, one of failing call, failed wait, crash; machines end at any time | `AloneIsExact`: a call nobody runs beside returns success only with exactly the living machines it wanted. `Converging`: its invariant |
| `backends_kept` | 2 nodes, 2 ports, both callers; one of failing call, failed task | `TrafficKept`: a target of a living machine goes only while a call that does not want it awaits a task. `RemovalsOwned`: its invariant |
| `backends_live` | 2 nodes, 2 ports, 1 target a call, 3 changes, 1 failing call; either nodes and machines change, or node ports | `RestsInStep`: when nothing is left to do or to retry, the listeners forward to exactly the machines of the nodes. `Converges`: it comes to that and stays so |
| `instances` | 1 node, TTL 2, latency 1, 2 generations, 4 changes, 1 failing query | `NoStaleTaint`, `InitialisedRecently`, `RemovesOnlyAbsent`: what a controller does was right not longer ago than an answer is cached and under way (a query, where an absence is acted on: it is never cached). `Recent`: the invariant. `TaintsConverge`: in the end a node is tainted iff its machine is shut down |
| `instances_gone` | the same, 3 changes | finds a violation of `GoneIsRemoved`, see below |
| `routes` | 3 nodes, 2 CIDRs, a foreign route, 6 changes, 2 failing calls | `RouteKept`: the route of a node that keeps its CIDR stays while that CIDR's former route is deleted. `RoundSettles`: a round without failing call or change leaves exactly the wanted and the foreign routes. `RoutesConverge`: so it is in the end |

Bounds.
*LoadBalancer*: two kinds are needed for a replacement, two port sets of one kind
for listeners too many, and two changes for one that is taken back or for a
deletion and a new beginning (`lb_reliable` also passes with three, in a few
minutes); two incarnations for a cache entry of an earlier one; two
ports for a plan with one creation or deletion more. Three ids per two changes
leave room for the replacements of a good balancer that a stale entry causes. In
`lb_live` no behaviour uses all 8 ids: with 6 ids one does, the quota is
exhausted and nothing converges, which is the quota's doing and not the code's.
*Backends*: two targets a call and three nodes give a full batch and a short one;
two callers and two changes give each of them a list that the other has made
stale. *Lookup*: nine addresses at five a call are a full call and a short one,
and every length below has each address at every position, hence at both ends of
the list and of a batch; the clouds have a machine with two addresses, the same
addresses in another VPC, and gaps. The loop with 20 is only in the proofs, which
hold for both sizes and any length. *Instances*: nodes share nothing (keys of the
cache contain the node), so one node is enough; 2 ticks of TTL and 1 of latency
let an answer be cached late and used at the end of its life, with two more
changes meanwhile. *Routes*: three nodes for two CIDRs make a CIDR move twice.
*TTLCache*: two callers that have missed the same key.

Fairness, and why the code justifies it. `LoadBalancer`: the worker goes on (its
goroutine and the rate-limited queue retry for ever), accepted tasks end, and a
cache entry expires if it is still there (60 s; `EntriesExpire`). `Backends`: the
same, and the node sync runs periodically. `TTLCache`, `Instances`: the clock does
not stop; in `Instances` strongly, since a tick waits for the controllers, which
pause between rounds; kubelets and controllers keep going. `Routes`: the
controller runs round after round and calls return. Nothing is assumed of users, nodes, machines or faults.

What liveness does not claim.
`ConvergesExactly` is not claimed for `lost`, `wait` and `crash`: a deletion
nobody waits for any more may take effect after a later sync has succeeded, and
nothing calls the provider again. `Converges` and `RestsInStep` (`Backends`) are
checked where only the nodes or only the node ports change (`BackendsOneSide`),
where machines end only once neither the node nor the last node sync counts on
them, and with failing calls only. The reasons are in the next section.
Nodes that leave and come back between two rounds of the node sync
are the same to it; the model has that, and machines replaced meanwhile are why
"suddenly" is left out. With no node at all nothing is claimed: the sync fails
(`TL` 432) and the targets stay.

## 4. What does not hold

`instances_gone`: `tencentcloud/instances.go` 141 says "If false is returned with
no error, the instance will be immediately deleted by the cloud controller
manager", but for a missing instance line 148 returns false together with
InstanceNotFound. The node lifecycle controller takes that for a failed query, and
the node stays for ever.

Further statements that fail. None is a run of its own; each can be reproduced
with the configuration named, the property put in place of its properties and
the constants changed as said. After the first two nothing is queued any more, so the
Service rests on a balancer of the wrong kind, or with a listener too many, until
somebody changes it: `RestsExact` fails with `calm` left out.

| statement | configuration | what happens |
|---|---|---|
| `EnsuredKindIsRight`; `TL` 117 "ensureLoadBalancerInstance will ensure the kind is right" | `lb_reliable` | the kind is checked on a deleted balancer in the cache; the sync succeeds on a live one of the other kind |
| `EnsuredListenersMatch`; `TL` 232 "ensure the ... Listeners is the same as the service ports" | `lb_reliable` | a listener made after the list was cached outlives its port |
| `EnsuredReportsLive`; `LB` 54 "Returns the status of the balancer" | `lb_reliable` | the node sync puts a deleted balancer back into the cache and its address is returned |
| `ReplacesOnlyTheWrong` (PROPERTY); `TL` 162 "ensure the ... Instance is the same as the service" | `lb_reliable` | decision on a cached balancer, deletion of a fresh one: the right one goes |
| `DeletedLeavesNothing`; `LB` 111-113 "returning nil if ... didn't exist or was successfully deleted" | `lb_reliable`, `Faults = {"taskFail"}` | a task that failed counts as done (`TL` 355-357) |
| `AtMostOneBalancer`; `LB` 54 "creates a new load balancer 'name', or updates the existing one" | `lb_reliable`, `Faults = {"taskFail"}`, or `{"lost"}` | after a failed deletion a second balancer is created; so it is after a lost answer while a running creation is not listed |
| `RestsReachable` and `EnsuredServesEveryPort`; `LB` 54 "creates a new load balancer 'name', or updates the existing one" | `lb_env`, `Faults = {"wait"}` | a deletion given up on ends after a later sync has found the balancer in place; what is left is `RestLeavesNothing` (section 5) |
| `DeleteReturns`; the comment of `Delete` in `cache/cache.go` | `ttl_cache` | `Delete` panics whatever it is given |
| `InitialisedWithLive`; InstanceID returns "the cloud provider ID of the node" | `instances` | the id of the former machine at the address, from the cache |
| `AloneIsExact` | `backends_alone`, `Faults = {"taskFail"}` | a registration that failed counts as done |
| `RestsInStep` | `backends_kept`, `Faults = {}`, `BatchSize = 1` | nodes and node ports change at once, worker and node sync each read the list before the other's changes: both succeed, and the listeners stay wrong until something changes |
| `RestsInStep` | `backends_kept`, `Faults = {"wait"}`, `Changes = {"nodes"}` | a registration given up on ends after a later sync has read the list |
| `TrafficKept` | `backends_kept`, `Faults = {"wait"}` | a removal given up on ends after the node is wanted again |

The listener health check is not modelled, but was read: the switch is on unless
the annotation turns it off (`TL` 722) where `src/README.md` line 130 gives 0 as
the default, an annotation that is no number counts as 0 (`TL` 731), and the
annotations are read only when a listener is created, so that edits never reach
an existing one (`TL` 287).

## 5. Proofs

All theorems hold for every value of the constants that satisfies the ASSUMEs of
the modules. These only say of what sort the constants are, `Lookup`'s also that
no two machines of the VPC share an address; further hypotheses are part of the
theorems. The bounds of the runs play no part. Every inductive invariant named
below was first checked by TLC as an invariant of the run whose properties it
carries.

**LoadBalancer.** `TypeCorrect`: `TypeOK` is inductive by itself.

With `Faults \subseteq {"api"}`, `Consistent` with `TypeOK` is inductive
(`ReliableConsistent`), and from it follow `NeverTwo`, `DeletedIsDeleted`,
`NeverOrphaned`, `EnsuredIsServed` and `ReliableTouchesOwn`. So does
`RestIsReachable`, with the little that is to add (`NothingMissed`: a Service
that is not queued is the one last read; only two ends of a sync leave the queue
empty, and by `Consistent` the Service is reachable, or without balancer, at
both). `AtMostOneBalancer` is
not inductive by itself: to create a balancer safely there must be none when `pc`
is "create" (`NothingThere`). That holds because a lookup that finds nothing is
right: the cache was empty, no task runs outside of waitApiTaskDone
(`OneCallAtATime`), so every balancer shows in the query, and any balancer has the
tag queried, since the finalizer keeps the Service from being replaced while one
exists (`NoOrphan`, `SyncIsCurrent`). It also holds after a deletion, because the
balancer whose task ended was the only one.

With lost answers, abandoned waits and crashes, but without failing tasks and
where a running creation is listed (`WatchedFaults`), tasks run that nobody waits
for, so `OneCallAtATime` is false. `Watched` replaces it by what is known of any
running task (`TasksKnown`): a pending balancer is one whose creation runs, a
running deletion still has its balancer, and a deletion that is awaited either
runs or has left nothing. From `AlwaysWatched` follow `RetriedNeverTwo`,
`RetriedDeletionHolds`, `RetriedNeverOrphaned` and `RetriedTouchesOwn`. Of
`RestsReachable` only the half about a Service that wants no balancer is left
(section 4); `RetriedRestLeavesNothing` proves it with `RestsUnguarded`, which says
that at rest such a Service has lost its finalizer, and `NoOrphan`. Both
hypotheses are necessary: section 4 has the violations without them.

`RestIsExact` is for `CalmSpec`, also with `Faults \subseteq {"api"}`. Its invariant is
`Attended`: from a quiet change on, the Service the sync works for is the current
one; and as long as the balancer is of the wrong kind or has listeners too many, no
other balancer is known to cache, node sync or worker, every cached list of its
listeners has all that are too many (`OnlyKnown`), and the sync either is not past
the stage that puts it right, or has the rest of the work in its lists and its call
under way (`ToBeRighted`), and any listener call is one the Service wants (`Pointed`).
A rest then finds nothing wrong, as nothing is left to be put right; without `calm`
an entry from before the change may break `OnlyKnown`.

`PromiseKept`: under either of the two hypotheses `Spec => KeepsPromise`, step by
step. `Ground` is what `Consistent` and `Watched` have in common and the steps need.
All of the worker's steps but a creation and the begin and ends of a call either
fail, which is `CallFails`, or change nothing that can be seen (`WorkerGoesOn`);
a creation finds nothing there (`PromiseCreates`); a task that ends concerns the
one balancer there is (`PromiseServes`); users, node sync and expiry are simple.

Under every fault: `CacheIsByName` (tags never change, an entry is written under
the name of the Service that was queried) and, for long names, `LongTouchesOwn`.
With short names an entry of an earlier incarnation may be used; what protects
its balancer is that it is gone, hence the hypotheses of the other two theorems.

**TTLCache.** `ForgettingCache`: `Spec => IsLossyCache`, step by step: a tick
forgets what it expires, a Get or Set drops only what is invisible, a panic
restarts.

**Backends.** `TypeCorrect` under every fault. With
`Faults \subseteq {"api", "taskFail"}`: no caller leaves a running task behind, so
each running removal is the one its caller awaits and spares what it wants
(`RemovalsAreOwned`), whence `TrafficIsKept`. With
`Faults \subseteq {"api", "wait", "crash"}`: `AloneConverges` and from it
`AloneExact`. The invariant (`Exact`) adds to `Converging` that no call is half way
beside the one that is alone, that nothing is left over in an idle call's locals,
and that cached and wanted generations are not later than those there are, so
that a machine once ended never lives again (`AlwaysExact`).

`AtRestInStep` is for the specification of `backends_live`, with
`Faults \subseteq {"api"}` and without sudden ends of machines. By itself
`RestsInStep` says nothing of the states between two rests. `OneSided` does: where
only one side changes, one of the callers (`Runner`) does all the work and the other
sleeps; between its calls it either has something to do yet (`Due`), or the
listeners forward to the machines of the last round's nodes (`KnownServed`); and in
a call it is alone, works for those nodes, wants a machine at each of them, and has
what it wants of machines that ended since on its list to the end, so that it can
not succeed with a stale cache entry. With `Exact` this gives `KnownServed` at the
end of a call. Section 4 shows what happens when both sides change.

**Batches, SortedSearch, Lookup.** `AlwaysInHand`: what is sent are intervals of
at most `size` items that end where the items in hand begin, and those start at a
multiple of `size`; `CallsWithinLimit`, `EverythingSent` and `NeverTwice` follow,
for lists of every length. `SearchNarrows`: left of `i` all is smaller than the
target, from `j` on nothing is; `IsExistCorrect` follows. `LookupIsBatches`: the
lookup implements the batch loop, and inherits `LookupWithinLimit` and
`LookupAsksForAll`. `LookupAlwaysInv` puts loop, search and cache together: what was
answered for so far is accounted for (`Accounted`), the list searched is the sorted
list of addresses asked for (`ListRight`), and the search under way is right about
it (`SearchRight`). From it `IsExistRightHere`, `OnlyRightCached` and
`LookupFindsExactly`: an error-free lookup has found each machine asked for once,
and no other, and cached it. It takes the assumption about addresses: with two
machines at one address, which is found depends on the order of the answer.

**Instances.** `RecentHolds` is inductive: a cached answer is true, or was until
as long ago as its age and a query; one under way, until as long ago as its age.
The three action properties follow (`NoStaleTaints`, `OnlyAbsentRemoved`,
`RecentlyInitialised`), the last with an invariant about the id held while the
second question is asked (`GotRecent`).

**Routes.** `WantedRoutesStay`: no deletion under way is of a wanted route
(`CallsRight`, which is about the external controller), and DeleteRoute deletes the
route it is given and no other of that CIDR. `AlwaysSettling`: while nothing comes in the
way of a round, its calls under way are just those for what is missing and what is
too much; `QuietRoundSettles` follows, the safety half of `RoutesConverge`.

Only model-checked: liveness, which is beyond the prover as ENABLED is
(`ConvergesExactly`, `Converges`, `EntriesExpire`, `TaintsConverge`, `RoutesConverge`).
Every other property of a passing run is stated by a theorem, some under the
hypotheses given above.

## 6. Not modelled

- The listener health check (`TL` 721-760): five annotations become numbers,
  without state. What the service makes of numbers out of range is not in the
  repository.
- Reading and checking the configuration (`tencentcloud/cloud.go`), flag parsing
  and start of the process (`cmd/.../main.go`): straight-line code without state.
  What they set up, an empty cache, is in `Init` and `Crash`.
- Logging, and AddSSHKeyToAllInstances and CurrentNodeName, which only return
  NotImplemented.

Hazards no property covers:

- `TL` 781, a deletion given up on that takes effect after a later sync has
  succeeded: it happens in the model, and no property could hold; nothing calls
  the provider again.
- `TL` 610, the same for a registration or a removal of targets.
- `TL` 722, 287, 731: the health check, see above.
- `TL` 432: the last node with the label leaves and the sync fails for ever. What
  a balancer without nodes should forward to is nowhere said.
- `tencentcloud/instances.go` 238: the query by address is not limited to the VPC
  and names no page size, so an answer might be truncated. The default page size
  of the service is not in the repository.

External code, modelled from how `src/` uses it: the CLB and VPC services,
client-go's store, Go's `sort.Search`, and the service, node lifecycle, cloud node
and route controllers of Kubernetes 1.18.
