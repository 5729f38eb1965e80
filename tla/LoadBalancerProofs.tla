------------------------- MODULE LoadBalancerProofs -------------------------
(***************************************************************************)
(* What TLAPS proves of LoadBalancer and LoadBalancerCalm, for all values  *)
(* of their constants.                                                     *)
(***************************************************************************)
EXTENDS LoadBalancerCalm, TLAPS

-----------------------------------------------------------------------------
\* Type correctness.

\* A call names a balancer, and the calls of the provider are calls.
LEMMA CallFacts ==
    /\ \A c \in Call : c.id \in LbIds
    /\ \A i \in LbIds : /\ [call |-> "CreateLoadBalancer", id |-> i] \in Call
                        /\ [call |-> "DeleteLoadBalancer", id |-> i] \in Call
    /\ \A i \in LbIds, p \in Ports :
          /\ [call |-> "CreateListener", id |-> i, port |-> p] \in Call
          /\ [call |-> "DeleteListener", id |-> i, port |-> p] \in Call
BY DEF Call, BalancerCall, ListenerCall

LEMMA NameInNames == ASSUME NEW uid \in Uids PROVE getLoadBalancerName(uid) \in Names
BY ClbAssumption DEF getLoadBalancerName, Uids, Names

\* What a lookup finds and remembers is a set of ids.
LEMMA FoundType ==
    ASSUME TypeOK
    PROVE  /\ Found \subseteq LbIds
           /\ Remember => clbCache' \in [Names -> SUBSET LbIds]
           /\ LookupFails => clbCache' \in [Names -> SUBSET LbIds] /\ faults' \in Nat
<1>1. snap.uid \in Uids
  BY DEF TypeOK, Service
<1>2. getLoadBalancerName(snap.uid) \in Names
  BY <1>1, NameInNames
<1>3. Found \subseteq LbIds
  BY <1>2 DEF TypeOK, Found, Described
<1>4. Remember => clbCache' \in [Names -> SUBSET LbIds]
  BY <1>3 DEF TypeOK, Remember
<1>5. LookupFails => clbCache' \in [Names -> SUBSET LbIds] /\ faults' \in Nat
  BY DEF TypeOK, LookupFails, Fault
<1>6. QED
  BY <1>3, <1>4, <1>5

\* A call the CLB accepts keeps the state of the CLB well typed.
LEMMA StartType ==
    ASSUME TypeOK, NEW c \in Call, Start(c)
    PROVE  ClbTypeOK'
<1>1. balancers[c.id] # Untouched
  BY DEF Start, Accepts, Live, Untouched
<1>2. QED
  BY <1>1 DEF TypeOK, ClbTypeOK, Start

\* Sending a call leaves everything it changes well typed.
LEMMA SubmitType ==
    ASSUME TypeOK, NEW c \in Call, NEW create \in SUBSET Ports, NEW delete \in SUBSET Ports,
           Submit(c, create, delete)
    PROVE  /\ ClbTypeOK' /\ pc' \in Labels /\ queued' \in BOOLEAN
           /\ snap' \in Service /\ lb' \subseteq LbIds /\ task' \subseteq Call
           /\ toCreate' \subseteq Ports /\ toDelete' \subseteq Ports /\ faults' \in Nat
<1>1. CASE Start(c) /\ Goto("wait") /\ task' = {c} /\ toCreate' = create /\ toDelete' = delete
             /\ UNCHANGED <<snap, lb, faults>>
  BY <1>1, StartType DEF TypeOK, Goto, Labels
<1>2. CASE Start(c) /\ Fault("lost") /\ Error
  BY <1>2, StartType DEF TypeOK, Fault, Error, Return, Labels
<1>3. CASE Error /\ UNCHANGED cloud /\ (UNCHANGED faults \/ Fault("api"))
  BY <1>3 DEF TypeOK, ClbTypeOK, cloud, Fault, Error, Return, Labels
<1>4. QED
  BY <1>1, <1>2, <1>3 DEF Submit

LEMMA InitType == Init => TypeOK
<1> SUFFICES ASSUME Init PROVE TypeOK
  OBVIOUS
<1>1. ClbTypeOK
  BY DEF Init, ClbInit, ClbTypeOK, Balancer
<1>2. svc \in Service /\ snap \in Service
  <2>1. 1 \in Uids
    BY ClbAssumption DEF Uids
  <2>2. QED
    BY <2>1 DEF Init, Service
<1>3. QED
  BY <1>1, <1>2 DEF Init, TypeOK, Labels

\* Where the provider does not change the CLB or the other actors' state.
LEMMA QuietType ==
    ASSUME TypeOK
    PROVE  /\ UNCHANGED cloud => ClbTypeOK'
           /\ UNCHANGED others => /\ svc' \in Service /\ held' \in BOOLEAN
                                 /\ changes' \in Nat /\ peer' \subseteq LbIds
           /\ UNCHANGED faults => faults' \in Nat
           /\ \A f : Fault(f) => faults' \in Nat
           /\ UNCHANGED listenerCache => listenerCache' \in [LbIds -> SUBSET SUBSET Ports]
           /\ UNCHANGED clbCache => clbCache' \in [Names -> SUBSET LbIds]
           /\ UNCHANGED cache => /\ listenerCache' \in [LbIds -> SUBSET SUBSET Ports]
                                /\ clbCache' \in [Names -> SUBSET LbIds]
BY DEF TypeOK, ClbTypeOK, cloud, others, cache, Fault

\* ... or the state of the call.
LEMMA FrameType ==
    ASSUME TypeOK
    PROVE  /\ UNCHANGED frame => /\ snap' \in Service /\ lb' \subseteq LbIds
                                /\ task' \subseteq Call
                                /\ toCreate' \subseteq Ports /\ toDelete' \subseteq Ports
           /\ Error => /\ snap' \in Service /\ lb' \subseteq LbIds
                      /\ task' \subseteq Call
                      /\ toCreate' \subseteq Ports /\ toDelete' \subseteq Ports
                      /\ pc' \in Labels /\ queued' \in BOOLEAN
           /\ \A label \in Labels : Goto(label) => pc' \in Labels /\ queued' \in BOOLEAN
BY DEF TypeOK, frame, Error, Return, Goto, Labels

LEMMA SnapFacts ==
    ASSUME TypeOK
    PROVE  /\ snap.uid \in Uids /\ snap.wanted \in BOOLEAN
           /\ snap.spec.kind \in Kinds /\ snap.spec.ports \subseteq Ports
BY LoadBalancerAssumption DEF TypeOK, Service, SpecSet

LEMMA StartCreateType ==
    ASSUME TypeOK, NEW i \in LbIds, NEW uid \in Uids, NEW kind \in Kinds,
           StartCreate(i, uid, kind)
    PROVE  ClbTypeOK'
<1> DEFINE new == [uid |-> uid, kind |-> kind, state |-> "pending"]
<1>1. new \in Balancer /\ new # Untouched
  BY DEF Balancer, Untouched
<1>2. balancers' \in [LbIds -> Balancer]
  BY <1>1 DEF StartCreate, TypeOK, ClbTypeOK
<1>3. running' \subseteq {c \in Call : balancers'[c.id] # Untouched}
  <2>1. [call |-> "CreateLoadBalancer", id |-> i] \in Call
    BY CallFacts
  <2>2. \A c \in running : c.id \in LbIds /\ balancers'[c.id] # Untouched
    BY CallFacts, <1>1 DEF StartCreate, TypeOK, ClbTypeOK
  <2>3. balancers'[i] # Untouched
    BY <1>1 DEF StartCreate, TypeOK, ClbTypeOK
  <2>4. QED
    BY <2>1, <2>2, <2>3 DEF StartCreate, TypeOK, ClbTypeOK
<1>4. QED
  BY <1>2, <1>3 DEF StartCreate, TypeOK, ClbTypeOK

LEMMA WorkerType == ASSUME TypeOK, Worker PROVE TypeOK'
<1> USE QuietType, FrameType
<1>1. CASE EnsureLoadBalancer
  BY <1>1 DEF EnsureLoadBalancer, TypeOK, Labels
<1>2. CASE ensureLoadBalancerInstance
  BY <1>2, FoundType DEF ensureLoadBalancerInstance, TypeOK, Labels
<1>3. CASE createLoadBalancer
  <2>1. CASE Error /\ UNCHANGED cloud /\ (UNCHANGED faults \/ Fault("api"))
    BY <1>3, <2>1 DEF createLoadBalancer, TypeOK
  <2>2. ASSUME NEW i \in Fresh, StartCreate(i, getLBTags, snap.spec.kind)
        PROVE  ClbTypeOK'
    BY <2>2, StartCreateType, SnapFacts DEF getLBTags, Fresh
  <2>3. ASSUME NEW i \in Fresh, StartCreate(i, getLBTags, snap.spec.kind),
               Goto("wait"), task' = {[call |-> "CreateLoadBalancer", id |-> i]},
               UNCHANGED <<snap, lb, toCreate, toDelete, faults>>
        PROVE  TypeOK'
    <3>1. task' \subseteq Call
      BY <2>3, CallFacts DEF Fresh
    <3>2. QED
      BY <1>3, <2>2, <2>3, <3>1 DEF createLoadBalancer, TypeOK, Labels
  <2>4. ASSUME NEW i \in Fresh, StartCreate(i, getLBTags, snap.spec.kind), Fault("lost"), Error
        PROVE  TypeOK'
    BY <1>3, <2>2, <2>4 DEF createLoadBalancer, TypeOK
  <2>5. QED
    BY <1>3, <2>1, <2>3, <2>4 DEF createLoadBalancer
<1>4. CASE deleteLoadBalancer
  <2>1. CASE LookupFails /\ Error /\ UNCHANGED cloud
    BY <1>4, <2>1, FoundType DEF deleteLoadBalancer, TypeOK
  <2>2. CASE Remember /\ Goto(AfterDelete) /\ UNCHANGED <<cloud, frame, faults>>
    BY <1>4, <2>2, FoundType DEF deleteLoadBalancer, TypeOK, Labels, AfterDelete
  <2>3. ASSUME Remember, NEW i \in Found,
               Submit([call |-> "DeleteLoadBalancer", id |-> i], {}, {})
        PROVE  TypeOK'
    <3>1. [call |-> "DeleteLoadBalancer", id |-> i] \in Call
      BY FoundType, CallFacts
    <3>2. QED
      BY <1>4, <2>3, <3>1, FoundType, SubmitType DEF deleteLoadBalancer, TypeOK
  <2>4. QED
    BY <1>4, <2>1, <2>2, <2>3 DEF deleteLoadBalancer
<1>5. CASE waitApiTaskDone
  BY <1>5 DEF waitApiTaskDone, TypeOK, Labels, AfterDelete
<1>6. CASE waitApiTaskFails
  BY <1>6 DEF waitApiTaskFails, ForgetAll, TypeOK, Labels
<1>7. ASSUME NEW from, NEW to \in Labels, TakeBalancer(from, to) PROVE TypeOK'
  BY <1>7, FoundType DEF TakeBalancer, TypeOK
<1>8. CASE ensureLoadBalancerListeners \/ ensureLoadBalancerBackends \/ reportStatus
  BY <1>7, <1>8 DEF ensureLoadBalancerListeners, ensureLoadBalancerBackends, reportStatus, Labels
<1>9. CASE getLoadBalancerListeners
  <2>1. PICK i \in lb :
          \/ /\ \E known \in listenerCache[i] : Plan(known)
             /\ Goto("apply") /\ UNCHANGED <<snap, lb, task, listenerCache, faults>>
          \/ /\ listenerCache[i] = {} /\ Live(i)
             /\ Plan(listeners[i])
             /\ listenerCache' = [listenerCache EXCEPT ![i] = {listeners[i]}]
             /\ Goto("apply") /\ UNCHANGED <<snap, lb, task, faults>>
          \/ /\ Fault("api") \/ UNCHANGED faults
             /\ Error /\ UNCHANGED listenerCache
    BY <1>9 DEF getLoadBalancerListeners
  <2>2. i \in LbIds /\ listeners[i] \subseteq Ports /\ listenerCache[i] \subseteq SUBSET Ports
    BY <2>1 DEF TypeOK, ClbTypeOK
  <2>3. ASSUME NEW known \in SUBSET Ports, Plan(known)
        PROVE  toCreate' \subseteq Ports /\ toDelete' \subseteq Ports
    BY <2>3, SnapFacts DEF Plan
  <2>4. UNCHANGED <<cloud, others, clbCache>>
    BY <1>9 DEF getLoadBalancerListeners
  <2>5. CASE \E known \in listenerCache[i] : Plan(known)
             /\ Goto("apply") /\ UNCHANGED <<snap, lb, task, listenerCache, faults>>
    BY <2>2, <2>3, <2>4, <2>5 DEF TypeOK, Labels
  <2>6. CASE /\ Plan(listeners[i])
             /\ listenerCache' = [listenerCache EXCEPT ![i] = {listeners[i]}]
             /\ Goto("apply") /\ UNCHANGED <<snap, lb, task, faults>>
    BY <2>2, <2>3, <2>4, <2>6 DEF TypeOK, Labels
  <2>7. CASE (Fault("api") \/ UNCHANGED faults) /\ Error /\ UNCHANGED listenerCache
    BY <2>4, <2>7 DEF TypeOK
  <2>8. QED
    BY <2>1, <2>5, <2>6, <2>7
<1>10. CASE createListener
  BY <1>10, SubmitType, CallFacts DEF createListener, TypeOK, Labels
<1>11. CASE deleteListener
  <2>1. PICK i \in lb, p \in toDelete :
          Submit([call |-> "DeleteListener", id |-> i, port |-> p], {}, toDelete \ {p})
    BY <1>11 DEF deleteListener
  <2>2. [call |-> "DeleteListener", id |-> i, port |-> p] \in Call
    BY CallFacts DEF TypeOK
  <2>3. toDelete \ {p} \in SUBSET Ports /\ {} \in SUBSET Ports
    BY DEF TypeOK
  <2>4. QED
    BY <1>11, <2>1, <2>2, <2>3, SubmitType DEF deleteListener, TypeOK
<1>12. CASE listenersEnsured
  BY <1>12 DEF listenersEnsured, TypeOK, Labels
<1>13. CASE describeTargets
  BY <1>13 DEF describeTargets, TypeOK, Labels
<1>14. CASE GetLoadBalancer
  BY <1>14, FoundType DEF GetLoadBalancer, TypeOK, Labels
<1>15. CASE EnsureLoadBalancerDeleted
  BY <1>15, FoundType DEF EnsureLoadBalancerDeleted, TypeOK, Labels
<1>16. CASE Dequeue
  BY <1>16 DEF Dequeue, TypeOK, Labels
<1>17. CASE SyncEnsured
  BY <1>17 DEF SyncEnsured, TypeOK, Labels, Return
<1>18. CASE SyncDeleted
  BY <1>18 DEF SyncDeleted, TypeOK, Labels, Return
<1>19. QED
  BY <1>1, <1>2, <1>3, <1>4, <1>5, <1>6, <1>8, <1>9, <1>10, <1>11, <1>12, <1>13, <1>14,
     <1>15, <1>16, <1>17, <1>18 DEF Worker

\* A task that ends only moves a balancer that is there through its states.
LEMMA TaskType ==
    ASSUME TypeOK, NEW c \in running, TaskSucceeds(c) \/ TaskFails(c)
    PROVE  ClbTypeOK'
<1>1. c \in Call /\ c.id \in LbIds /\ balancers[c.id] # Untouched
  BY CallFacts DEF TypeOK, ClbTypeOK
<1>2. balancers[c.id] \in [uid : Uids, kind : Kinds, state : {"pending", "live", "gone"}]
  BY <1>1 DEF TypeOK, ClbTypeOK, Balancer
<1>3. ASSUME NEW end \in {"live", "gone"}, balancers' = [balancers EXCEPT ![c.id].state = end]
      PROVE  /\ balancers' \in [LbIds -> Balancer]
             /\ \A i \in LbIds : balancers[i] # Untouched => balancers'[i] # Untouched
  <2>1. [balancers[c.id] EXCEPT !.state = end] \in Balancer \ {Untouched}
    BY <1>2 DEF Balancer, Untouched
  <2>2. QED
    BY <1>1, <1>3, <2>1 DEF TypeOK, ClbTypeOK
<1>4. /\ balancers' \in [LbIds -> Balancer]
      /\ \A i \in LbIds : balancers[i] # Untouched => balancers'[i] # Untouched
  <2>1. CASE UNCHANGED balancers
    BY <2>1 DEF TypeOK, ClbTypeOK
  <2>2. QED
    BY <1>3, <2>1 DEF TaskSucceeds, TaskFails
<1>5. listeners' \in [LbIds -> SUBSET Ports]
  <2>1. CASE c \in ListenerCall
    BY <1>1, <2>1 DEF TypeOK, ClbTypeOK, TaskSucceeds, TaskFails, ListenerCall
  <2>2. CASE c \in BalancerCall
    BY <1>1, <2>2 DEF TypeOK, ClbTypeOK, TaskSucceeds, TaskFails, BalancerCall
  <2>3. QED
    BY <1>1, <2>1, <2>2 DEF Call
<1>6. running' \subseteq {d \in Call : balancers'[d.id] # Untouched}
  <2>1. running' \subseteq running
    BY DEF TaskSucceeds, TaskFails
  <2>2. \A d \in running : d \in Call /\ d.id \in LbIds /\ balancers[d.id] # Untouched
    BY CallFacts DEF TypeOK, ClbTypeOK
  <2>3. QED
    BY <1>4, <2>1, <2>2
<1>7. QED
  BY <1>4, <1>5, <1>6 DEF ClbTypeOK

LEMMA NodeSyncType == ASSUME TypeOK, NodeSync PROVE TypeOK'
<1>1. CASE UpdateLoadBalancer
  BY <1>1, QuietType, FrameType DEF UpdateLoadBalancer, TypeOK
<1>2. CASE updateRemembers
  BY <1>2, QuietType, FrameType DEF updateRemembers, TypeOK
<1>3. QED
  BY <1>1, <1>2 DEF NodeSync

LEMMA UserType == ASSUME TypeOK, User PROVE TypeOK'
<1>1. ASSUME NEW new \in Service, Change(new) PROVE TypeOK'
  BY <1>1, QuietType, FrameType DEF Change, TypeOK
<1>2. ASSUME NEW s \in Specs, EditSpec \/ DropBalancer \/ WantAgain
      PROVE  /\ [svc EXCEPT !.spec = s] \in Service
             /\ [svc EXCEPT !.wanted = TRUE] \in Service
             /\ [svc EXCEPT !.wanted = FALSE] \in Service
  BY DEF TypeOK, Service
<1>3. ASSUME NEW s \in Specs, svc.uid < MaxUid
      PROVE  [uid |-> svc.uid + 1, wanted |-> TRUE, spec |-> s] \in Service
  BY <1>3, ClbAssumption DEF TypeOK, Service, Uids
<1>4. svc.spec \in Specs
  BY DEF TypeOK, Service
<1>5. QED
  BY <1>1, <1>2, <1>3, <1>4 DEF User, EditSpec, DropBalancer, WantAgain, Recreate

LEMMA EnvironmentType == ASSUME TypeOK, Environment PROVE TypeOK'
<1> USE QuietType, FrameType
<1>1. CASE ExpireBalancer
  BY <1>1 DEF ExpireBalancer, TypeOK
<1>2. CASE ExpireListeners
  BY <1>2 DEF ExpireListeners, TypeOK
<1>3. CASE Crash
  BY <1>3 DEF Crash, ForgetAll, TypeOK
<1>4. CASE CloudSucceeds
  BY <1>4, TaskType DEF CloudSucceeds, TypeOK
<1>5. CASE CloudFails
  BY <1>5, TaskType DEF CloudFails, TypeOK
<1>6. QED
  BY <1>1, <1>2, <1>3, <1>4, <1>5 DEF Environment

LEMMA NextType == ASSUME TypeOK, [Next]_vars PROVE TypeOK'
<1>1. CASE UNCHANGED vars
  BY <1>1, QuietType, FrameType DEF vars, TypeOK
<1>2. QED
  BY <1>1, WorkerType, NodeSyncType, UserType, EnvironmentType DEF Next, AtRest

\* Every variable keeps its type; in particular every accepted call is aimed
\* at a balancer that was really created (getLBTags, StartCreate).
THEOREM TypeCorrect == Spec => []TypeOK
<1>1. Init => TypeOK
  BY InitType
<1>2. TypeOK /\ [Next]_vars => TypeOK'
  BY NextType
<1>3. QED
  BY <1>1, <1>2, PTL DEF Spec

-----------------------------------------------------------------------------
\* The reliable cloud: calls may fail, but none is lost, none fails after it
\* was accepted, and the process does not die while one runs.

\* Outside of waitApiTaskDone no task is running.
LEMMA NoTask ==
    ASSUME TypeOK, Consistent, pc # "wait"
    PROVE  /\ task = {} /\ running = {}
           /\ \A i \in LbIds : Alive(i) => Live(i)
BY DEF Consistent, OneCallAtATime, Alive, Live

\* A lookup that finds nothing is right: the Service has no balancer.
LEMMA FoundNothing ==
    ASSUME TypeOK, Consistent, pc \notin {"idle", "wait"}, Found = {}
    PROVE  NoneAlive
<1> SUFFICES ASSUME NEW i \in LbIds, Alive(i) PROVE FALSE
  BY DEF NoneAlive
<1>1. Live(i)
  BY NoTask
<1>2. balancers[i].uid = snap.uid
  BY DEF Consistent, NoOrphan, SyncIsCurrent
<1>3. \A j \in Described(snap.uid) : j = i
  BY DEF Described, Alive, Live, Consistent, AtMostOneBalancer
<1>4. Described(snap.uid) = {i}
  BY <1>1, <1>2, <1>3 DEF Described
<1>5. QED
  BY <1>4 DEF Found

\* A step that sends no call and leaves the Service alone.
LEMMA QuietStep ==
    ASSUME TypeOK, Consistent, pc # "wait",
           UNCHANGED <<cloud, svc, held, snap>>, task' = {},
           SyncIsCurrent', NothingThere', pc' \in {"status", "ensured"} => Served
    PROVE  Consistent'
BY NoTask DEF Consistent, AtMostOneBalancer, NoOrphan, OneCallAtATime, Served,
   Alive, Live, NoneAlive, cloud

\* A sync that ends in an error before it sends a call.
LEMMA ErrorStep ==
    ASSUME TypeOK, Consistent, pc # "wait", Error, UNCHANGED <<cloud, svc, held>>
    PROVE  Consistent'
BY QuietStep DEF Error, Return, SyncIsCurrent, NothingThere

\* A call that is accepted.
LEMMA StartStep ==
    ASSUME TypeOK, Consistent, pc # "wait", NEW c \in Call, Start(c),
           pc' = "wait", task' = {c}, UNCHANGED <<svc, held, snap>>,
           snap.wanted \/ c.call = "DeleteLoadBalancer",
           c.call # "CreateLoadBalancer", pc # "idle"
    PROVE  Consistent'
<1>1. running' = {c} /\ UNCHANGED <<balancers, listeners>> /\ Live(c.id)
  BY NoTask DEF Start, Accepts
<1>2. OneCallAtATime'
  <2>1. \A i \in LbIds : balancers[i].state # "pending"
    BY NoTask DEF Alive, Live
  <2>2. QED
    BY <1>1, <2>1 DEF OneCallAtATime, Live, NoneAlive
<1>3. AtMostOneBalancer' /\ NoOrphan' /\ SyncIsCurrent' /\ NothingThere'
  BY <1>1 DEF Consistent, AtMostOneBalancer, NoOrphan, SyncIsCurrent, NothingThere, Alive
<1>4. QED
  BY <1>2, <1>3 DEF Consistent

\* Submit, as long as no answer is lost.
LEMMA SubmitStep ==
    ASSUME Faults \subseteq {"api"}, TypeOK, Consistent, pc \notin {"idle", "wait"},
           NEW c \in Call, NEW create, NEW delete, Submit(c, create, delete),
           UNCHANGED <<svc, held>>,
           snap.wanted \/ c.call = "DeleteLoadBalancer",
           c.call # "CreateLoadBalancer"
    PROVE  Consistent'
<1>1. CASE Start(c) /\ Goto("wait") /\ task' = {c} /\ UNCHANGED <<snap, lb, faults>>
  BY <1>1, StartStep DEF Goto
<1>2. CASE Error /\ UNCHANGED cloud
  BY <1>2, ErrorStep
<1>3. ~Fault("lost")
  BY DEF Fault
<1>4. QED
  BY <1>1, <1>2, <1>3 DEF Submit

\* The balancer that was asked for is the only one, until its task ends and after.
LEMMA CreateStep ==
    ASSUME Faults \subseteq {"api"}, TypeOK, Consistent, createLoadBalancer
    PROVE  Consistent'
<1>1. /\ pc = "create" /\ NoneAlive /\ snap.wanted /\ held /\ snap.uid = svc.uid
      /\ UNCHANGED <<svc, held>>
  BY DEF createLoadBalancer, others, Consistent, SyncIsCurrent, NothingThere
<1>2. CASE Error /\ UNCHANGED cloud
  BY <1>1, <1>2, ErrorStep
<1>3. ASSUME NEW i \in LbIds, StartCreate(i, getLBTags, snap.spec.kind), Goto("wait"),
             task' = {[call |-> "CreateLoadBalancer", id |-> i]}, UNCHANGED snap
      PROVE  Consistent'
  <2>1. /\ balancers' \in [LbIds -> Balancer]
        /\ balancers'[i].uid = snap.uid /\ balancers'[i].state = "pending"
        /\ \A j \in LbIds : j # i => balancers'[j] = balancers[j]
        /\ running' = task'
    BY <1>1, <1>3, NoTask, StartCreateType, SnapFacts
       DEF StartCreate, getLBTags, ClbTypeOK, TypeOK
  <2>2. \A j \in LbIds : Alive(j)' <=> j = i
    BY <1>1, <2>1 DEF Alive, NoneAlive
  <2>3. AtMostOneBalancer' /\ NoOrphan' /\ SyncIsCurrent' /\ NothingThere'
    BY <1>1, <1>3, <2>1, <2>2 DEF AtMostOneBalancer, NoOrphan, SyncIsCurrent, NothingThere, Goto
  <2>4. OneCallAtATime'
    <3>1. \A j \in LbIds : balancers'[j].state = "pending" => j = i
      BY <2>2 DEF Alive
    <3>2. QED
      BY <1>1, <1>3, <2>1, <3>1 DEF OneCallAtATime, Goto
  <2>5. QED
    BY <1>3, <2>3, <2>4 DEF Consistent, Goto
<1>4. ~Fault("lost")
  BY DEF Fault
<1>5. QED
  BY <1>2, <1>3, <1>4 DEF createLoadBalancer, Fresh

\* The awaited task has ended: created, deleted or changed, and nothing runs.
LEMMA WaitStep ==
    ASSUME TypeOK, Consistent, waitApiTaskDone
    PROVE  Consistent'
<1>1. PICK c \in task :
        /\ c \notin running
        /\ Goto(CASE c.call = "CreateLoadBalancer" -> "listeners"
                  [] c.call = "DeleteLoadBalancer" -> AfterDelete
                  [] OTHER -> "apply")
  BY DEF waitApiTaskDone, TaskEnded
<1>2. /\ pc = "wait" /\ task' = {}
      /\ UNCHANGED <<balancers, listeners, running, svc, held, snap>>
  BY DEF waitApiTaskDone, cloud, others
<1>3. running = {}
  BY <1>1 DEF Consistent, OneCallAtATime
<1>4. IF c.call = "DeleteLoadBalancer" THEN NoneAlive ELSE snap.wanted
  BY <1>1 DEF Consistent, OneCallAtATime
<1>5. \/ pc' \in {"listeners", "apply"} /\ snap.wanted
      \/ pc' = "create" /\ snap.wanted /\ NoneAlive
      \/ pc' = "deleted" /\ ~snap.wanted /\ NoneAlive
  BY <1>1, <1>4 DEF Goto, AfterDelete
<1>6. AtMostOneBalancer' /\ NoOrphan'
  BY <1>2 DEF Consistent, AtMostOneBalancer, NoOrphan, Alive
<1>7. SyncIsCurrent'
  BY <1>2, <1>5 DEF Consistent, SyncIsCurrent
<1>8. NothingThere'
  BY <1>2, <1>5 DEF NothingThere, NoneAlive, Alive
<1>9. OneCallAtATime'
  BY <1>2, <1>3 DEF Consistent, OneCallAtATime
<1>10. QED
  BY <1>5, <1>6, <1>7, <1>8, <1>9 DEF Consistent

LEMMA WorkerConsistent ==
    ASSUME Faults \subseteq {"api"}, TypeOK, Consistent, Worker
    PROVE  Consistent'
<1>1. CASE EnsureLoadBalancer
  BY <1>1, ErrorStep, QuietStep, NoTask
     DEF EnsureLoadBalancer, Goto, frame, others, Consistent, SyncIsCurrent, NothingThere
<1>2. CASE ensureLoadBalancerInstance
  <2>1. pc = "instance" /\ UNCHANGED <<cloud, svc, held>>
    BY <1>2 DEF ensureLoadBalancerInstance, others
  <2>2. CASE Error
    BY <2>1, <2>2, ErrorStep
  <2>3. CASE Goto("create") /\ UNCHANGED frame /\ Found = {}
    <3>1. NoneAlive
      BY <2>1, <2>3, FoundNothing
    <3>2. QED
      BY <2>1, <2>3, <3>1, QuietStep, NoTask
         DEF Goto, frame, cloud, Consistent, SyncIsCurrent, NothingThere, NoneAlive, Alive
  <2>4. ASSUME NEW to \in {"listeners", "delete"}, Goto(to), UNCHANGED frame
        PROVE  Consistent'
    BY <2>1, <2>4, QuietStep, NoTask DEF Goto, frame, Consistent, SyncIsCurrent, NothingThere
  <2>5. QED
    BY <1>2, <2>2, <2>3, <2>4 DEF ensureLoadBalancerInstance
<1>3. CASE createLoadBalancer
  BY <1>3, CreateStep
<1>4. CASE deleteLoadBalancer
  <2>1. pc = "delete" /\ UNCHANGED <<svc, held>>
    BY <1>4 DEF deleteLoadBalancer, others
  <2>2. CASE Error /\ UNCHANGED cloud
    BY <2>1, <2>2, ErrorStep
  <2>3. CASE Found = {} /\ Goto(AfterDelete) /\ UNCHANGED <<cloud, frame, faults>>
    <3>1. NoneAlive
      BY <2>1, <2>3, FoundNothing
    <3>2. SyncIsCurrent' /\ NothingThere'
      BY <2>1, <2>3, <3>1 DEF Goto, AfterDelete, frame, cloud, Consistent, SyncIsCurrent,
         NothingThere, NoneAlive, Alive
    <3>3. QED
      BY <2>1, <2>3, <3>2, QuietStep, NoTask DEF Goto, AfterDelete, frame
  <2>4. ASSUME NEW i \in Found, Submit([call |-> "DeleteLoadBalancer", id |-> i], {}, {})
        PROVE  Consistent'
    <3>1. [call |-> "DeleteLoadBalancer", id |-> i] \in Call
      BY FoundType, CallFacts
    <3>2. QED
      BY <2>1, <2>4, <3>1, SubmitStep
  <2>5. QED
    BY <1>4, <2>2, <2>3, <2>4 DEF deleteLoadBalancer
<1>5. CASE waitApiTaskDone
  BY <1>5, WaitStep
<1>6. CASE waitApiTaskFails
  BY <1>6 DEF waitApiTaskFails, Fault
<1>7. ASSUME NEW from, NEW to, TakeBalancer(from, to),
             <<from, to>> \in {<<"listeners", "describe">>, <<"backends", "targets">>,
                              <<"status", "ensured">>}
      PROVE  Consistent'
  <2>1. pc = from /\ from # "wait" /\ UNCHANGED <<cloud, svc, held>>
    BY <1>7 DEF TakeBalancer, others
  <2>2. CASE Error
    BY <2>1, <2>2, ErrorStep
  <2>3. CASE Goto(to) /\ UNCHANGED <<snap, task, toCreate, toDelete>>
    BY <1>7, <2>1, <2>3, QuietStep, NoTask DEF Goto, Consistent, SyncIsCurrent, NothingThere
  <2>4. QED
    BY <1>7, <2>2, <2>3 DEF TakeBalancer
<1>8. CASE ensureLoadBalancerListeners \/ ensureLoadBalancerBackends \/ reportStatus
  BY <1>7, <1>8 DEF ensureLoadBalancerListeners, ensureLoadBalancerBackends, reportStatus
<1>9. CASE getLoadBalancerListeners
  BY <1>9, ErrorStep, QuietStep, NoTask
     DEF getLoadBalancerListeners, Goto, others, Consistent, SyncIsCurrent, NothingThere
<1>10. CASE createListener
  <2>1. PICK i \in lb, p \in toCreate :
          Submit([call |-> "CreateListener", id |-> i, port |-> p], toCreate \ {p}, toDelete)
    BY <1>10 DEF createListener
  <2>2. [call |-> "CreateListener", id |-> i, port |-> p] \in Call
    BY CallFacts DEF TypeOK
  <2>3. pc = "apply" /\ snap.wanted /\ UNCHANGED <<svc, held>>
    BY <1>10 DEF createListener, others, Consistent, SyncIsCurrent
  <2>4. QED
    BY <2>1, <2>2, <2>3, SubmitStep
<1>11. CASE deleteListener
  <2>1. PICK i \in lb, p \in toDelete :
          Submit([call |-> "DeleteListener", id |-> i, port |-> p], {}, toDelete \ {p})
    BY <1>11 DEF deleteListener
  <2>2. [call |-> "DeleteListener", id |-> i, port |-> p] \in Call
    BY CallFacts DEF TypeOK
  <2>3. pc = "apply" /\ snap.wanted /\ UNCHANGED <<svc, held>>
    BY <1>11 DEF deleteListener, others, Consistent, SyncIsCurrent
  <2>4. QED
    BY <2>1, <2>2, <2>3, SubmitStep
<1>12. CASE listenersEnsured
  BY <1>12, QuietStep, NoTask
     DEF listenersEnsured, Goto, others, Consistent, SyncIsCurrent, NothingThere
<1>13. CASE describeTargets
  <2>1. pc = "targets" /\ UNCHANGED <<cloud, svc, held>>
    BY <1>13 DEF describeTargets, others
  <2>2. CASE Error
    BY <2>1, <2>2, ErrorStep
  <2>3. ASSUME NEW i \in lb, EveryPortHasListener(i), Goto("status"), UNCHANGED <<snap, task>>
        PROVE  Consistent'
    <3>1. i \in LbIds /\ Live(i) /\ snap.spec.ports \subseteq listeners[i]
      BY <2>3 DEF TypeOK, EveryPortHasListener
    <3>2. balancers[i].uid = snap.uid
      BY <2>1, <3>1 DEF Consistent, NoOrphan, SyncIsCurrent, Alive, Live
    <3>3. Served
      BY <3>1, <3>2 DEF Served
    <3>4. QED
      BY <2>1, <2>3, <3>3, QuietStep, NoTask DEF Goto, Consistent, SyncIsCurrent, NothingThere
  <2>4. QED
    BY <1>13, <2>2, <2>3 DEF describeTargets
<1>14. CASE GetLoadBalancer \/ EnsureLoadBalancerDeleted
  <2>1. pc \in {"exists", "ensureDeleted"} /\ UNCHANGED <<cloud, svc, held>>
    BY <1>14 DEF GetLoadBalancer, EnsureLoadBalancerDeleted, others
  <2>2. CASE Error
    BY <2>1, <2>2, ErrorStep
  <2>3. CASE Goto("deleted") /\ UNCHANGED frame /\ Found = {}
    <3>1. NoneAlive
      BY <2>1, <2>3, FoundNothing
    <3>2. QED
      BY <2>1, <2>3, <3>1, QuietStep, NoTask
         DEF Goto, frame, cloud, Consistent, SyncIsCurrent, NothingThere, NoneAlive, Alive
  <2>4. ASSUME NEW to \in {"ensureDeleted", "delete"}, Goto(to), UNCHANGED frame
        PROVE  Consistent'
    BY <2>1, <2>4, QuietStep, NoTask DEF Goto, frame, Consistent, SyncIsCurrent, NothingThere
  <2>5. QED
    BY <1>14, <2>2, <2>3, <2>4 DEF GetLoadBalancer, EnsureLoadBalancerDeleted
<1>15. CASE Dequeue
  <2>1. task = {} /\ running = {} /\ \A i \in LbIds : balancers[i].state # "pending"
    BY <1>15, NoTask DEF Dequeue, Alive, Live
  <2>2. svc.wanted \in BOOLEAN
    BY DEF TypeOK, Service
  <2>3. QED
    BY <1>15, <2>1, <2>2 DEF Dequeue, Consistent, AtMostOneBalancer, NoOrphan, SyncIsCurrent,
       OneCallAtATime, NothingThere, Alive, Live, NoneAlive, cloud
<1>16. CASE SyncEnsured
  BY <1>16, QuietStep DEF SyncEnsured, Return, others, SyncIsCurrent, NothingThere
<1>17. CASE SyncDeleted
  <2>1. pc = "deleted" /\ NoneAlive /\ running = {}
    BY <1>17, NoTask DEF SyncDeleted, Consistent, NothingThere
  <2>2. pc' = "idle" /\ task' = {} /\ UNCHANGED <<cloud, svc>>
    BY <1>17 DEF SyncDeleted, Return
  <2>3. QED
    BY <2>1, <2>2 DEF Consistent, AtMostOneBalancer, NoOrphan, SyncIsCurrent, OneCallAtATime,
       NothingThere, Alive, NoneAlive, cloud
<1>18. QED
  BY <1>1, <1>2, <1>3, <1>4, <1>5, <1>6, <1>8, <1>9, <1>10, <1>11, <1>12, <1>13, <1>14,
     <1>15, <1>16, <1>17 DEF Worker

\* The steps of others that leave the CLB, the Service and the worker alone.
LEMMA AsideStep ==
    ASSUME Consistent, UNCHANGED <<cloud, svc, held, pc, snap, task>>
    PROVE  Consistent'
BY DEF Consistent, AtMostOneBalancer, NoOrphan, SyncIsCurrent, OneCallAtATime,
   NothingThere, Served, Alive, Live, NoneAlive, cloud

\* Users cannot replace the Service while the finalizer is on it.
LEMMA UserConsistent == ASSUME TypeOK, Consistent, User PROVE Consistent'
<1>1. UNCHANGED <<cloud, held, pc, snap, task>>
  BY DEF User, EditSpec, DropBalancer, WantAgain, Recreate, Change, frame
<1>2. held => svc'.uid = svc.uid
  BY DEF User, EditSpec, DropBalancer, WantAgain, Recreate, Change, TypeOK, Service
<1>3. NoOrphan'
  BY <1>1, <1>2 DEF Consistent, NoOrphan, Alive, cloud
<1>4. SyncIsCurrent'
  BY <1>1, <1>2 DEF Consistent, SyncIsCurrent
<1>5. QED
  BY <1>1, <1>3, <1>4 DEF Consistent, AtMostOneBalancer, OneCallAtATime, NothingThere, Served,
     Alive, Live, NoneAlive, cloud

\* The task that ends is the awaited one.
LEMMA CloudConsistent == ASSUME TypeOK, Consistent, CloudSucceeds PROVE Consistent'
<1>1. PICK c \in running : TaskSucceeds(c)
  BY DEF CloudSucceeds
<1>2. UNCHANGED <<svc, held, pc, snap, task>>
  BY DEF CloudSucceeds, others, frame
<1>3. /\ running = {c} /\ task = {c} /\ pc = "wait" /\ running' = {}
      /\ c \in Call /\ c.id \in LbIds /\ balancers[c.id] # Untouched
  BY <1>1, CallFacts DEF Consistent, OneCallAtATime, TaskSucceeds, TypeOK, ClbTypeOK
<1>4. balancers \in [LbIds -> Balancer]
  BY DEF TypeOK, ClbTypeOK
<1>5. CASE c.call = "CreateLoadBalancer"
  <2>1. balancers' = [balancers EXCEPT ![c.id].state = "live"]
    BY <1>1, <1>5 DEF TaskSucceeds
  <2>2. \A i \in LbIds : Alive(i)' => Alive(i) \/ i = c.id
    BY <1>3, <1>4, <2>1 DEF Alive
  <2>3. QED
    <3>1. snap.wanted
      BY <1>3, <1>5 DEF Consistent, OneCallAtATime
    <3>2. \A i \in LbIds : balancers'[i].uid = balancers[i].uid
      BY <1>3, <1>4, <2>1 DEF Balancer, Untouched
    <3>3. \A i \in LbIds : balancers'[i].state # "pending"
      <4>1. \A i \in LbIds : balancers[i].state = "pending" => i = c.id
        BY <1>3 DEF Consistent, OneCallAtATime
      <4>2. balancers'[c.id].state = "live"
        BY <1>3, <1>4, <2>1 DEF Balancer, Untouched
      <4>3. \A i \in LbIds : i # c.id => balancers'[i] = balancers[i]
        BY <1>3, <1>4, <2>1
      <4>4. QED
        BY <4>1, <4>2, <4>3
    <3>4. OneCallAtATime'
      BY <1>2, <1>3, <1>5, <3>1, <3>3 DEF OneCallAtATime
    <3>5. Alive(c.id)
      <4>1. c = [call |-> "CreateLoadBalancer", id |-> c.id]
        BY <1>3, <1>5 DEF Call, BalancerCall, ListenerCall
      <4>2. QED
        BY <1>3, <4>1 DEF Consistent, OneCallAtATime, Alive
    <3>6. QED
      BY <1>2, <1>3, <2>2, <3>2, <3>4, <3>5
         DEF Consistent, AtMostOneBalancer, NoOrphan, SyncIsCurrent, NothingThere
<1>6. CASE c.call = "DeleteLoadBalancer"
  <2>1. balancers' = [balancers EXCEPT ![c.id].state = "gone"]
    BY <1>1, <1>6 DEF TaskSucceeds
  <2>2. Live(c.id)
    BY <1>3, <1>6 DEF Consistent, OneCallAtATime
  <2>3. NoneAlive'
    <3>1. ~Alive(c.id)'
      BY <1>3, <1>4, <2>1 DEF Alive, Balancer, Untouched
    <3>2. \A i \in LbIds : i # c.id => ~Alive(i) /\ balancers'[i] = balancers[i]
      BY <1>3, <1>4, <2>1, <2>2 DEF Consistent, AtMostOneBalancer, Alive, Live
    <3>3. QED
      BY <3>1, <3>2 DEF NoneAlive, Alive
  <2>4. \A i \in LbIds : balancers'[i].state # "pending"
    BY <2>3 DEF NoneAlive, Alive
  <2>5. OneCallAtATime'
    BY <1>2, <1>3, <1>6, <2>3, <2>4 DEF OneCallAtATime
  <2>6. QED
    BY <1>2, <1>3, <2>3, <2>5
       DEF Consistent, AtMostOneBalancer, NoOrphan, SyncIsCurrent, NothingThere, NoneAlive
<1>7. CASE c.call \in {"CreateListener", "DeleteListener"}
  <2>1. UNCHANGED balancers
    BY <1>1, <1>7 DEF TaskSucceeds
  <2>2. QED
    BY <1>2, <1>3, <1>7, <2>1 DEF Consistent, AtMostOneBalancer, NoOrphan, SyncIsCurrent,
       OneCallAtATime, NothingThere, Alive, Live, NoneAlive
<1>8. QED
  BY <1>1, <1>5, <1>6, <1>7 DEF TaskSucceeds

LEMMA NextConsistent ==
    ASSUME Faults \subseteq {"api"}, TypeOK, Consistent, [Next]_vars
    PROVE  Consistent'
<1>1. CASE NodeSync
  BY <1>1, AsideStep DEF NodeSync, UpdateLoadBalancer, updateRemembers, frame
<1>2. CASE Environment
  <2>1. CASE ExpireBalancer \/ ExpireListeners
    BY <2>1, AsideStep DEF ExpireBalancer, ExpireListeners, others, frame
  <2>2. ~Crash /\ ~CloudFails
    BY DEF Crash, CloudFails, Fault
  <2>3. QED
    BY <1>2, <2>1, <2>2, CloudConsistent DEF Environment
<1>3. CASE UNCHANGED vars
  BY <1>3, AsideStep DEF vars, others, frame
<1>4. QED
  BY <1>1, <1>2, <1>3, WorkerConsistent, UserConsistent DEF Next, AtRest

LEMMA InitConsistent == Init => Consistent
BY DEF Init, ClbInit, Untouched, Consistent, AtMostOneBalancer, NoOrphan, SyncIsCurrent,
   OneCallAtATime, NothingThere, Alive

\* On a reliable cloud, whatever users, the node sync and the expiry of the
\* cache do: a sync works on the current Service, one call runs at a time, and
\* a balancer is created, or counts as deleted, only where there is none
\* (ensureLoadBalancerInstance, EnsureLoadBalancerDeleted).
THEOREM ReliableConsistent == Faults \subseteq {"api"} => (Spec => []Consistent)
<1> SUFFICES ASSUME Faults \subseteq {"api"} PROVE Spec => []Consistent
  OBVIOUS
<1>1. Init => TypeOK /\ Consistent
  BY InitType, InitConsistent
<1>2. (TypeOK /\ Consistent) /\ [Next]_vars => (TypeOK /\ Consistent)'
  BY NextType, NextConsistent
<1>3. QED
  BY <1>1, <1>2, PTL DEF Spec

\* On a reliable cloud a Service never owns two balancers (createLoadBalancer
\* is reached only when a lookup that cannot err found none).
THEOREM NeverTwo == Faults \subseteq {"api"} => (Spec => []AtMostOneBalancer)
<1>1. Consistent => AtMostOneBalancer
  BY DEF Consistent
<1>2. QED
  BY <1>1, ReliableConsistent, PTL

\* On a reliable cloud EnsureLoadBalancerDeleted returns nil only when no
\* balancer of the Service is left.
THEOREM DeletedIsDeleted == Faults \subseteq {"api"} => (Spec => []DeletedLeavesNothing)
<1>1. Consistent => DeletedLeavesNothing
  BY DEF Consistent, NothingThere, NoneAlive, DeletedLeavesNothing
<1>2. QED
  BY <1>1, ReliableConsistent, PTL

\* On a reliable cloud every balancer belongs to the Service that is there,
\* and the finalizer keeps it there.
THEOREM NeverOrphaned == Faults \subseteq {"api"} => (Spec => []NoOrphan)
<1>1. Consistent => NoOrphan
  BY DEF Consistent
<1>2. QED
  BY <1>1, ReliableConsistent, PTL

\* On a reliable cloud EnsureLoadBalancer succeeds only if a balancer of the
\* Service serves all its ports, stale caches or not (describeTargets).
THEOREM EnsuredIsServed == Faults \subseteq {"api"} => (Spec => []EnsuredServesEveryPort)
<1>1. Consistent => EnsuredServesEveryPort
  BY DEF Consistent, EnsuredServesEveryPort
<1>2. QED
  BY <1>1, ReliableConsistent, PTL

\* A step of a sync that is none of its ends, nor a creation, fails or goes on.
LEMMA WorkerGoesOn ==
    ASSUME Worker
    PROVE  \/ Dequeue \/ SyncEnsured \/ SyncDeleted \/ createLoadBalancer
           \/ Error /\ UNCHANGED <<svc, held, balancers, listeners>>
           \/ /\ UNCHANGED <<svc, held, snap, queued, balancers, listeners>>
              /\ pc # "idle" /\ pc' # "idle"
<1> DEFINE Fails == Error /\ UNCHANGED <<svc, held, balancers, listeners>>
           GoesOn == /\ UNCHANGED <<svc, held, snap, queued, balancers, listeners>>
                     /\ pc # "idle" /\ pc' # "idle"
<1>1. ASSUME NEW c, NEW create, NEW delete, Submit(c, create, delete),
             UNCHANGED <<svc, held>>, pc # "idle"
      PROVE  Fails \/ GoesOn
  BY <1>1 DEF Submit, Start, Goto, cloud
<1>2. ASSUME NEW from, NEW to, TakeBalancer(from, to), from # "idle", to # "idle"
      PROVE  Fails \/ GoesOn
  BY <1>2 DEF TakeBalancer, Goto, others, cloud
<1>3. CASE ensureLoadBalancerListeners \/ ensureLoadBalancerBackends \/ reportStatus
  BY <1>2, <1>3 DEF ensureLoadBalancerListeners, ensureLoadBalancerBackends, reportStatus
<1>4. CASE createListener \/ deleteListener
  BY <1>1, <1>4 DEF createListener, deleteListener, others
<1>5. CASE deleteLoadBalancer
  BY <1>1, <1>5 DEF deleteLoadBalancer, AfterDelete, Goto, others, frame, cloud
<1>6. CASE ensureLoadBalancerInstance \/ EnsureLoadBalancer
  BY <1>6 DEF ensureLoadBalancerInstance, EnsureLoadBalancer, Goto, others, frame, cloud
<1>7. CASE waitApiTaskDone \/ waitApiTaskFails \/ listenersEnsured
  BY <1>7 DEF waitApiTaskDone, waitApiTaskFails, listenersEnsured, AfterDelete, Goto, others, cloud
<1>8. CASE getLoadBalancerListeners \/ describeTargets
  BY <1>8 DEF getLoadBalancerListeners, describeTargets, Goto, others, cloud
<1>9. CASE GetLoadBalancer \/ EnsureLoadBalancerDeleted
  BY <1>9 DEF GetLoadBalancer, EnsureLoadBalancerDeleted, Goto, others, frame, cloud
<1>10. QED
  BY <1>3, <1>4, <1>5, <1>6, <1>7, <1>8, <1>9 DEF Worker

LEMMA NextNothingMissed ==
    ASSUME Faults \subseteq {"api"}, TypeOK, Consistent, NothingMissed, [Next]_vars
    PROVE  NothingMissed'
<1> USE DEF NothingMissed
<1>1. CASE queued'
  BY <1>1 DEF RestsReachable
<1>2. CASE UNCHANGED <<svc, snap, queued>> /\ pc' # "idle"
  BY <1>2 DEF RestsReachable
<1>3. CASE UNCHANGED <<svc, snap, queued, pc, balancers, listeners>>
  BY <1>3 DEF RestsReachable, Reachable, Live, Alive
<1>4. CASE Dequeue
  BY <1>4 DEF Dequeue, RestsReachable
<1>5. CASE SyncEnsured
  <2>1. /\ UNCHANGED <<svc, snap, queued, balancers, listeners>>
        /\ Served /\ snap.wanted
    BY <1>5 DEF SyncEnsured, Return, others, cloud, Consistent, SyncIsCurrent
  <2>2. ~queued => Reachable'
    BY <2>1 DEF Served, Reachable, Live
  <2>3. QED
    BY <2>1, <2>2 DEF RestsReachable
<1>6. CASE SyncDeleted
  <2>1. /\ UNCHANGED <<svc, snap, queued, balancers, listeners>>
        /\ NoneAlive /\ ~snap.wanted
    BY <1>6 DEF SyncDeleted, Return, cloud, Consistent, SyncIsCurrent, NothingThere
  <2>2. ~queued => Reachable'
    BY <2>1 DEF NoneAlive, Reachable, Alive
  <2>3. QED
    BY <2>1, <2>2 DEF RestsReachable
<1>7. CASE Worker
  <2>1. CASE createLoadBalancer
    BY <1>1, <1>2, <2>1 DEF createLoadBalancer, Error, Goto, others
  <2>2. CASE Error
    BY <1>1, <2>2 DEF Error
  <2>3. QED
    BY <1>2, <1>4, <1>5, <1>6, <1>7, <2>1, <2>2, WorkerGoesOn
<1>8. CASE NodeSync
  BY <1>3, <1>8 DEF NodeSync, UpdateLoadBalancer, updateRemembers, cloud, frame
<1>9. CASE User
  BY <1>1, <1>9 DEF User, EditSpec, DropBalancer, WantAgain, Recreate, Change
<1>10. CASE Environment
  <2>1. CASE ExpireBalancer \/ ExpireListeners
    BY <1>3, <2>1 DEF ExpireBalancer, ExpireListeners, cloud, others, frame
  <2>2. ~Crash /\ ~CloudFails
    BY DEF Crash, CloudFails, Fault
  <2>3. CASE CloudSucceeds
    <3>1. pc # "idle"
      BY <2>3 DEF CloudSucceeds, Consistent, OneCallAtATime
    <3>2. QED
      BY <1>2, <2>3, <3>1 DEF CloudSucceeds, others, frame
  <2>4. QED
    BY <1>10, <2>1, <2>2, <2>3 DEF Environment
<1>11. CASE UNCHANGED vars
  BY <1>3, <1>11 DEF vars, cloud, others, frame
<1>12. QED
  BY <1>7, <1>8, <1>9, <1>10, <1>11 DEF Next, AtRest

\* On a reliable cloud a Service that is neither queued nor being synced can be
\* reached on each of its ports, or has no balancer if it wants none: the errors
\* of EnsureLoadBalancer and EnsureLoadBalancerDeleted all get back to the
\* controller.  RestIsExact says when kind and listeners are right too.
THEOREM RestIsReachable == Faults \subseteq {"api"} => (Spec => []RestsReachable)
<1> SUFFICES ASSUME Faults \subseteq {"api"} PROVE Spec => []RestsReachable
  OBVIOUS
<1>1. Init => NothingMissed
  BY DEF Init, NothingMissed, RestsReachable
<1>2. TypeOK /\ Consistent /\ NothingMissed /\ [Next]_vars => NothingMissed'
  BY NextNothingMissed
<1>3. NothingMissed => RestsReachable
  BY DEF NothingMissed
<1>4. QED
  BY <1>1, <1>2, <1>3, TypeCorrect, ReliableConsistent, PTL DEF Spec

\* A new call is the creation of a balancer with the tag of the Service, or
\* one to a balancer that was looked up and is there.
LEMMA NewCall ==
    ASSUME TypeOK, Next, NEW c \in running' \ running
    PROVE  /\ c.id \in LbIds /\ pc \notin {"idle", "wait"}
           /\ \/ balancers'[c.id].uid = snap.uid
              \/ c.id \in lb \cup Found /\ Live(c.id) /\ UNCHANGED balancers
<1>1. c.id \in LbIds
  BY NextType, CallFacts DEF TypeOK, ClbTypeOK
<1>2. ASSUME NEW d, NEW create, NEW delete, Submit(d, create, delete), d.id \in lb \cup Found
      PROVE  c.id \in lb \cup Found /\ Live(c.id) /\ UNCHANGED balancers
  BY <1>2 DEF Submit, Start, Accepts, cloud
<1>3. CASE createLoadBalancer
  <2>1. PICK i \in LbIds : StartCreate(i, getLBTags, snap.spec.kind)
    BY <1>3 DEF createLoadBalancer, cloud, Fresh
  <2>2. c.id = i /\ balancers'[i].uid = snap.uid
    BY <2>1 DEF StartCreate, getLBTags, TypeOK, ClbTypeOK
  <2>3. QED
    BY <1>1, <1>3, <2>2 DEF createLoadBalancer
<1>4. CASE deleteLoadBalancer \/ createListener \/ deleteListener
  BY <1>1, <1>2, <1>4 DEF deleteLoadBalancer, createListener, deleteListener, cloud
<1>5. running' \subseteq running \/ createLoadBalancer \/ deleteLoadBalancer
         \/ createListener \/ deleteListener
  BY DEF Next, Worker, NodeSync, User, Environment, AtRest, vars, cloud,
     EnsureLoadBalancer, ensureLoadBalancerInstance, waitApiTaskDone, waitApiTaskFails,
     ensureLoadBalancerListeners, ensureLoadBalancerBackends, reportStatus, TakeBalancer,
     getLoadBalancerListeners, listenersEnsured, describeTargets, GetLoadBalancer,
     EnsureLoadBalancerDeleted, Dequeue, SyncEnsured, SyncDeleted, UpdateLoadBalancer,
     updateRemembers, EditSpec, DropBalancer, WantAgain, Recreate, Change, ExpireBalancer,
     ExpireListeners, Crash, CloudSucceeds, CloudFails, TaskSucceeds, TaskFails
<1>6. QED
  BY <1>3, <1>4, <1>5

\* On a reliable cloud a changing call only reaches a balancer of the Service
\* being synced, though a cached one may be of an earlier incarnation: that one
\* is gone, and the call is refused.
THEOREM ReliableTouchesOwn == Faults \subseteq {"api"} => (Spec => TouchesOnlyOwn)
<1> SUFFICES ASSUME Faults \subseteq {"api"} PROVE Spec => TouchesOnlyOwn
  OBVIOUS
<1>1. ASSUME TypeOK, Consistent, Next, NEW c \in running' \ running
      PROVE  balancers'[c.id].uid = snap.uid
  <2>1. CASE c.id \in LbIds /\ Live(c.id) /\ UNCHANGED balancers /\ pc # "idle"
    BY <1>1, <2>1 DEF Consistent, NoOrphan, SyncIsCurrent, Alive, Live
  <2>2. QED
    BY <1>1, <2>1, NewCall
<1>2. TypeOK /\ Consistent /\ [Next]_vars =>
        [\A c \in running' \ running : balancers'[c.id].uid = snap.uid]_vars
  BY <1>1
<1>3. QED
  BY <1>2, TypeCorrect, ReliableConsistent, PTL DEF Spec, TouchesOnlyOwn

-----------------------------------------------------------------------------
\* The cloud that loses answers, the wait that is given up, the process that
\* dies: everything but a task that fails.  Calls nobody waits for may run
\* then, but where a running creation is listed a lookup still cannot err.

\* What is known of running tasks and of the one the worker awaits: a running
\* creation is a pending balancer, a running deletion has its balancer yet,
\* and an awaited deletion runs, or has left nothing.
TasksKnown ==
    /\ task # {} => pc = "wait"
    /\ \A c, d \in task : c = d
    /\ \A i \in LbIds : balancers[i].state = "pending" <=>
          [call |-> "CreateLoadBalancer", id |-> i] \in running
    /\ \A c \in running : c.call = "DeleteLoadBalancer" => Live(c.id)
    /\ \A c \in task : IF c.call = "DeleteLoadBalancer" THEN c \in running \/ NoneAlive
                       ELSE snap.wanted

Watched ==
    /\ AtMostOneBalancer /\ NoOrphan
    /\ SyncIsCurrent /\ TasksKnown /\ NothingThere

WatchedFaults == PendingVisible /\ "taskFail" \notin Faults

\* A lookup that finds nothing is right, even beside a running creation.
LEMMA NothingFound ==
    ASSUME PendingVisible, TypeOK, Watched, pc # "idle", Found = {}
    PROVE  NoneAlive
<1> SUFFICES ASSUME NEW i \in LbIds, Alive(i) PROVE FALSE
  BY DEF NoneAlive
<1>1. balancers[i].uid = snap.uid
  BY DEF Watched, NoOrphan, SyncIsCurrent
<1>2. \A j \in Described(snap.uid) : j = i
  BY DEF Described, Alive, Live, Watched, AtMostOneBalancer
<1>3. Described(snap.uid) = {i}
  BY <1>1, <1>2 DEF Described
<1>4. QED
  BY <1>3 DEF Found

\* A step that sends no call and leaves the Service alone.
LEMMA QuietWatched ==
    ASSUME Watched, UNCHANGED <<cloud, svc, held, snap>>, task' = {},
           SyncIsCurrent', NothingThere'
    PROVE  Watched'
BY DEF Watched, AtMostOneBalancer, NoOrphan, TasksKnown, Alive, Live, NoneAlive, cloud

\* ... that moves on to a label where nothing more is known.
LEMMA GotoWatched ==
    ASSUME Watched, pc # "wait", UNCHANGED <<cloud, svc, held, snap, task>>, NEW to, pc' = to,
           SyncIsCurrent', to \in {"create", "deleted"} => NoneAlive
    PROVE  Watched'
<1>1. task' = {}
  BY DEF Watched, TasksKnown
<1>2. NothingThere'
  BY DEF NothingThere, NoneAlive, Alive, cloud
<1>3. QED
  BY <1>1, <1>2, QuietWatched

\* A sync that ends in an error, an awaited task and a lost one included.
LEMMA ErrorWatched ==
    ASSUME Watched, Error, UNCHANGED <<cloud, svc, held>>
    PROVE  Watched'
BY QuietWatched DEF Error, Return, SyncIsCurrent, NothingThere

\* A call to a balancer, accepted, whether the answer arrives or not.
LEMMA SubmitWatched ==
    ASSUME Watched, pc \notin {"idle", "wait"}, NEW c \in Call,
           NEW create, NEW delete, Submit(c, create, delete), UNCHANGED <<svc, held>>,
           snap.wanted \/ c.call = "DeleteLoadBalancer", c.call # "CreateLoadBalancer"
    PROVE  Watched'
<1>1. CASE Error /\ UNCHANGED cloud
  BY <1>1, ErrorWatched
<1>2. CASE Start(c) /\ (Error \/ (Goto("wait") /\ task' = {c} /\ UNCHANGED snap))
  <2>1. /\ running' = running \cup {c} /\ UNCHANGED <<balancers, listeners, snap>> /\ Live(c.id)
        /\ \/ pc' = "idle" /\ task' = {}
           \/ pc' = "wait" /\ task' = {c}
    BY <1>2 DEF Start, Accepts, Error, Return, Goto
  <2>2. AtMostOneBalancer' /\ NoOrphan' /\ SyncIsCurrent' /\ NothingThere'
    BY <2>1 DEF Watched, AtMostOneBalancer, NoOrphan, SyncIsCurrent, NothingThere, Alive
  <2>3. \A i \in LbIds : balancers'[i].state = "pending" <=>
          [call |-> "CreateLoadBalancer", id |-> i] \in running'
    <3>1. \A i : [call |-> "CreateLoadBalancer", id |-> i].call # c.call
      OBVIOUS
    <3>2. \A i : [call |-> "CreateLoadBalancer", id |-> i] # c
      BY <3>1
    <3>3. QED
      BY <2>1, <3>2 DEF Watched, TasksKnown
  <2>4. \A d \in running' : d.call = "DeleteLoadBalancer" => Live(d.id)'
    BY <2>1 DEF Watched, TasksKnown, Live
  <2>5. QED
    BY <2>1, <2>2, <2>3, <2>4 DEF Watched, TasksKnown
<1>3. QED
  BY <1>1, <1>2 DEF Submit

\* A creation, accepted, whether the answer arrives or not: there was nothing.
LEMMA CreateWatched ==
    ASSUME TypeOK, Watched, createLoadBalancer
    PROVE  Watched'
<1>1. /\ pc = "create" /\ NoneAlive /\ snap.wanted /\ held /\ snap.uid = svc.uid
      /\ UNCHANGED <<svc, held>>
  BY DEF createLoadBalancer, others, Watched, SyncIsCurrent, NothingThere
<1>2. CASE Error /\ UNCHANGED cloud
  BY <1>1, <1>2, ErrorWatched
<1>3. ASSUME NEW i \in LbIds, StartCreate(i, getLBTags, snap.spec.kind),
             \/ Error
             \/ /\ Goto("wait") /\ UNCHANGED snap
                /\ task' = {[call |-> "CreateLoadBalancer", id |-> i]}
      PROVE  Watched'
  <2>1. /\ balancers'[i].uid = snap.uid /\ balancers'[i].state = "pending"
        /\ \A j \in LbIds : j # i => balancers'[j] = balancers[j]
        /\ running' = running \cup {[call |-> "CreateLoadBalancer", id |-> i]}
    BY <1>1, <1>3, StartCreateType, SnapFacts DEF StartCreate, getLBTags, ClbTypeOK, TypeOK
  <2>2. \A j \in LbIds : Alive(j)' <=> j = i
    BY <1>1, <2>1 DEF Alive, NoneAlive
  <2>3. /\ UNCHANGED snap
        /\ \/ pc' = "idle" /\ task' = {}
           \/ pc' = "wait" /\ task' = {[call |-> "CreateLoadBalancer", id |-> i]}
    BY <1>3 DEF Error, Return, Goto
  <2>4. AtMostOneBalancer' /\ NoOrphan' /\ SyncIsCurrent' /\ NothingThere'
    BY <1>1, <2>1, <2>2, <2>3 DEF AtMostOneBalancer, NoOrphan, SyncIsCurrent, NothingThere
  <2>5. \A j \in LbIds : balancers'[j].state = "pending" <=>
          [call |-> "CreateLoadBalancer", id |-> j] \in running'
    <3>1. \A j \in LbIds : [call |-> "CreateLoadBalancer", id |-> j] \notin running
      BY <1>1 DEF Watched, TasksKnown, NoneAlive, Alive
    <3>2. \A j \in LbIds : balancers'[j].state = "pending" <=> j = i
      BY <2>1, <2>2 DEF Alive
    <3>3. QED
      BY <2>1, <3>1, <3>2
  <2>6. \A c \in running' : c.call # "DeleteLoadBalancer"
    <3>1. \A c \in running : c.call = "DeleteLoadBalancer" => c.id \in LbIds /\ Live(c.id)
      BY CallFacts DEF TypeOK, ClbTypeOK, Watched, TasksKnown
    <3>2. QED
      BY <1>1, <2>1, <3>1 DEF NoneAlive, Alive, Live
  <2>7. QED
    BY <1>1, <2>3, <2>4, <2>5, <2>6 DEF Watched, TasksKnown
<1>4. QED
  BY <1>2, <1>3 DEF createLoadBalancer, Fresh

\* The awaited task has ended; others may still run.
LEMMA WaitWatched ==
    ASSUME Watched, waitApiTaskDone
    PROVE  Watched'
<1>1. PICK c \in task :
        /\ c \notin running
        /\ Goto(CASE c.call = "CreateLoadBalancer" -> "listeners"
                  [] c.call = "DeleteLoadBalancer" -> AfterDelete
                  [] OTHER -> "apply")
  BY DEF waitApiTaskDone, TaskEnded
<1>2. pc = "wait" /\ task' = {} /\ UNCHANGED <<cloud, svc, held, snap>>
  BY DEF waitApiTaskDone, others
<1>3. IF c.call = "DeleteLoadBalancer" THEN NoneAlive ELSE snap.wanted
  BY <1>1 DEF Watched, TasksKnown
<1>4. \/ pc' \in {"listeners", "apply"} /\ snap.wanted
      \/ pc' = "create" /\ snap.wanted /\ NoneAlive
      \/ pc' = "deleted" /\ ~snap.wanted /\ NoneAlive
  BY <1>1, <1>3 DEF Goto, AfterDelete
<1>5. SyncIsCurrent'
  BY <1>2, <1>4 DEF Watched, SyncIsCurrent
<1>6. NothingThere'
  BY <1>2, <1>4 DEF NothingThere, NoneAlive, Alive, cloud
<1>7. QED
  BY <1>2, <1>5, <1>6, QuietWatched

LEMMA WorkerWatched ==
    ASSUME PendingVisible, TypeOK, Watched, Worker
    PROVE  Watched'
<1>1. CASE EnsureLoadBalancer
  BY <1>1, ErrorWatched, GotoWatched
     DEF EnsureLoadBalancer, Goto, frame, others, Watched, SyncIsCurrent
<1>2. CASE ensureLoadBalancerInstance
  <2>1. pc = "instance" /\ UNCHANGED <<cloud, svc, held>>
    BY <1>2 DEF ensureLoadBalancerInstance, others
  <2>2. CASE Error
    BY <2>1, <2>2, ErrorWatched
  <2>3. CASE Goto("create") /\ UNCHANGED frame /\ Found = {}
    <3>1. NoneAlive
      BY <2>1, <2>3, NothingFound
    <3>2. QED
      BY <2>1, <2>3, <3>1, GotoWatched DEF Goto, frame, Watched, SyncIsCurrent
  <2>4. ASSUME NEW to \in {"listeners", "delete"}, Goto(to), UNCHANGED frame
        PROVE  Watched'
    BY <2>1, <2>4, GotoWatched DEF Goto, frame, Watched, SyncIsCurrent
  <2>5. QED
    BY <1>2, <2>2, <2>3, <2>4 DEF ensureLoadBalancerInstance
<1>3. CASE createLoadBalancer
  BY <1>3, CreateWatched
<1>4. CASE deleteLoadBalancer
  <2>1. pc = "delete" /\ UNCHANGED <<svc, held>>
    BY <1>4 DEF deleteLoadBalancer, others
  <2>2. CASE Error /\ UNCHANGED cloud
    BY <2>1, <2>2, ErrorWatched
  <2>3. CASE Found = {} /\ Goto(AfterDelete) /\ UNCHANGED <<cloud, frame, faults>>
    <3>1. NoneAlive
      BY <2>1, <2>3, NothingFound
    <3>2. SyncIsCurrent'
      BY <2>1, <2>3 DEF Goto, AfterDelete, frame, Watched, SyncIsCurrent
    <3>3. QED
      BY <2>1, <2>3, <3>1, <3>2, GotoWatched DEF Goto, frame
  <2>4. ASSUME NEW i \in Found, Submit([call |-> "DeleteLoadBalancer", id |-> i], {}, {})
        PROVE  Watched'
    <3>1. [call |-> "DeleteLoadBalancer", id |-> i] \in Call
      BY FoundType, CallFacts
    <3>2. QED
      BY <2>1, <2>4, <3>1, SubmitWatched
  <2>5. QED
    BY <1>4, <2>2, <2>3, <2>4 DEF deleteLoadBalancer
<1>5. CASE waitApiTaskDone
  BY <1>5, WaitWatched
<1>6. CASE waitApiTaskFails
  BY <1>6, ErrorWatched DEF waitApiTaskFails
<1>7. ASSUME NEW from, NEW to, TakeBalancer(from, to),
             <<from, to>> \in {<<"listeners", "describe">>, <<"backends", "targets">>,
                              <<"status", "ensured">>}
      PROVE  Watched'
  <2>1. pc = from /\ from # "wait" /\ UNCHANGED <<cloud, svc, held>>
    BY <1>7 DEF TakeBalancer, others
  <2>2. CASE Error
    BY <2>1, <2>2, ErrorWatched
  <2>3. CASE Goto(to) /\ UNCHANGED <<snap, task, toCreate, toDelete>>
    BY <1>7, <2>1, <2>3, GotoWatched DEF Goto, Watched, SyncIsCurrent
  <2>4. QED
    BY <1>7, <2>2, <2>3 DEF TakeBalancer
<1>8. CASE ensureLoadBalancerListeners \/ ensureLoadBalancerBackends \/ reportStatus
  BY <1>7, <1>8 DEF ensureLoadBalancerListeners, ensureLoadBalancerBackends, reportStatus
<1>9. CASE getLoadBalancerListeners
  BY <1>9, ErrorWatched, GotoWatched
     DEF getLoadBalancerListeners, Goto, others, Watched, SyncIsCurrent
<1>10. CASE createListener
  <2>1. PICK i \in lb, p \in toCreate :
          Submit([call |-> "CreateListener", id |-> i, port |-> p], toCreate \ {p}, toDelete)
    BY <1>10 DEF createListener
  <2>2. [call |-> "CreateListener", id |-> i, port |-> p] \in Call
    BY CallFacts DEF TypeOK
  <2>3. pc = "apply" /\ snap.wanted /\ UNCHANGED <<svc, held>>
    BY <1>10 DEF createListener, others, Watched, SyncIsCurrent
  <2>4. QED
    BY <2>1, <2>2, <2>3, SubmitWatched
<1>11. CASE deleteListener
  <2>1. PICK i \in lb, p \in toDelete :
          Submit([call |-> "DeleteListener", id |-> i, port |-> p], {}, toDelete \ {p})
    BY <1>11 DEF deleteListener
  <2>2. [call |-> "DeleteListener", id |-> i, port |-> p] \in Call
    BY CallFacts DEF TypeOK
  <2>3. pc = "apply" /\ snap.wanted /\ UNCHANGED <<svc, held>>
    BY <1>11 DEF deleteListener, others, Watched, SyncIsCurrent
  <2>4. QED
    BY <2>1, <2>2, <2>3, SubmitWatched
<1>12. CASE listenersEnsured
  BY <1>12, GotoWatched DEF listenersEnsured, Goto, others, Watched, SyncIsCurrent
<1>13. CASE describeTargets
  BY <1>13, ErrorWatched, GotoWatched DEF describeTargets, Goto, others, Watched, SyncIsCurrent
<1>14. CASE GetLoadBalancer \/ EnsureLoadBalancerDeleted
  <2>1. pc \in {"exists", "ensureDeleted"} /\ UNCHANGED <<cloud, svc, held>>
    BY <1>14 DEF GetLoadBalancer, EnsureLoadBalancerDeleted, others
  <2>2. CASE Error
    BY <2>1, <2>2, ErrorWatched
  <2>3. CASE Goto("deleted") /\ UNCHANGED frame /\ Found = {}
    <3>1. NoneAlive
      BY <2>1, <2>3, NothingFound
    <3>2. QED
      BY <2>1, <2>3, <3>1, GotoWatched DEF Goto, frame, Watched, SyncIsCurrent
  <2>4. ASSUME NEW to \in {"ensureDeleted", "delete"}, Goto(to), UNCHANGED frame
        PROVE  Watched'
    BY <2>1, <2>4, GotoWatched DEF Goto, frame, Watched, SyncIsCurrent
  <2>5. QED
    BY <1>14, <2>2, <2>3, <2>4 DEF GetLoadBalancer, EnsureLoadBalancerDeleted
<1>15. CASE Dequeue
  <2>1. task = {} /\ task' = {} /\ UNCHANGED <<cloud, svc>>
    BY <1>15 DEF Dequeue, Watched, TasksKnown
  <2>2. svc.wanted \in BOOLEAN
    BY DEF TypeOK, Service
  <2>3. AtMostOneBalancer' /\ NoOrphan' /\ SyncIsCurrent' /\ NothingThere'
    BY <1>15, <2>1, <2>2 DEF Dequeue, Watched, AtMostOneBalancer, NoOrphan, SyncIsCurrent,
       NothingThere, Alive, cloud
  <2>4. QED
    BY <2>1, <2>3 DEF Watched, TasksKnown, Live, cloud
<1>16. CASE SyncEnsured
  BY <1>16, QuietWatched DEF SyncEnsured, Return, others, SyncIsCurrent, NothingThere
<1>17. CASE SyncDeleted
  <2>1. pc = "deleted" /\ NoneAlive
    BY <1>17 DEF SyncDeleted, Watched, NothingThere
  <2>2. pc' = "idle" /\ task' = {} /\ UNCHANGED <<cloud, svc>>
    BY <1>17 DEF SyncDeleted, Return
  <2>3. AtMostOneBalancer' /\ NoOrphan' /\ SyncIsCurrent' /\ NothingThere'
    BY <2>1, <2>2 DEF AtMostOneBalancer, NoOrphan, SyncIsCurrent, NothingThere, Alive,
       NoneAlive, cloud
  <2>4. QED
    BY <2>2, <2>3 DEF Watched, TasksKnown, Live, cloud
<1>18. QED
  BY <1>1, <1>2, <1>3, <1>4, <1>5, <1>6, <1>8, <1>9, <1>10, <1>11, <1>12, <1>13, <1>14,
     <1>15, <1>16, <1>17 DEF Worker

\* Users, as before, cannot replace the Service while the finalizer is on it.
LEMMA UserWatched == ASSUME TypeOK, Watched, User PROVE Watched'
<1>1. UNCHANGED <<cloud, held, pc, snap, task>>
  BY DEF User, EditSpec, DropBalancer, WantAgain, Recreate, Change, frame
<1>2. held => svc'.uid = svc.uid
  BY DEF User, EditSpec, DropBalancer, WantAgain, Recreate, Change, TypeOK, Service
<1>3. NoOrphan'
  BY <1>1, <1>2 DEF Watched, NoOrphan, Alive, cloud
<1>4. SyncIsCurrent'
  BY <1>1, <1>2 DEF Watched, SyncIsCurrent
<1>5. QED
  BY <1>1, <1>3, <1>4 DEF Watched, AtMostOneBalancer, TasksKnown, NothingThere,
     Alive, Live, NoneAlive, cloud

LEMMA AsideWatched ==
    ASSUME Watched, UNCHANGED <<cloud, svc, held, pc, snap, task>>
    PROVE  Watched'
BY DEF Watched, AtMostOneBalancer, NoOrphan, SyncIsCurrent, TasksKnown,
   NothingThere, Alive, Live, NoneAlive, cloud

\* A task ends, awaited or not.
LEMMA CloudWatched == ASSUME TypeOK, Watched, CloudSucceeds PROVE Watched'
<1>1. PICK c \in running : TaskSucceeds(c)
  BY DEF CloudSucceeds
<1>2. UNCHANGED <<svc, held, pc, snap, task>> /\ running' = running \ {c}
  BY <1>1 DEF CloudSucceeds, TaskSucceeds, others, frame
<1>3. c \in Call /\ c.id \in LbIds /\ balancers \in [LbIds -> Balancer]
  BY CallFacts DEF TypeOK, ClbTypeOK
<1>4. \A d \in Call :
        /\ d.call = "CreateLoadBalancer" => d = [call |-> "CreateLoadBalancer", id |-> d.id]
        /\ d.call = "DeleteLoadBalancer" => d = [call |-> "DeleteLoadBalancer", id |-> d.id]
  BY DEF Call, BalancerCall, ListenerCall
<1>5. running \subseteq Call /\ task \subseteq Call
  BY DEF TypeOK, ClbTypeOK
<1>6. CASE c.call = "CreateLoadBalancer"
  <2>1. balancers' = [balancers EXCEPT ![c.id].state = "live"]
    BY <1>1, <1>6 DEF TaskSucceeds
  <2>2. balancers[c.id].state = "pending"
    BY <1>3, <1>4, <1>6 DEF Watched, TasksKnown
  <2>3. /\ balancers'[c.id].state = "live" /\ balancers'[c.id].uid = balancers[c.id].uid
        /\ \A i \in LbIds : i # c.id => balancers'[i] = balancers[i]
    BY <1>3, <2>1 DEF Balancer, Untouched
  <2>4. \A i \in LbIds : /\ Alive(i)' <=> Alive(i)
                         /\ Live(i) => Live(i)'
                         /\ balancers'[i].uid = balancers[i].uid
    BY <2>2, <2>3 DEF Alive, Live
  <2>5. AtMostOneBalancer' /\ NoOrphan' /\ SyncIsCurrent'
    BY <1>2, <2>4 DEF Watched, AtMostOneBalancer, NoOrphan, SyncIsCurrent
  <2>6. NoneAlive' <=> NoneAlive
    BY <2>4 DEF NoneAlive
  <2>7. \A i \in LbIds : balancers'[i].state = "pending" <=>
          [call |-> "CreateLoadBalancer", id |-> i] \in running'
    <3>1. \A i \in LbIds : i # c.id => [call |-> "CreateLoadBalancer", id |-> i] # c
      <4>1. \A i : [call |-> "CreateLoadBalancer", id |-> i].id = i
        OBVIOUS
      <4>2. QED
        BY <4>1
    <3>2. [call |-> "CreateLoadBalancer", id |-> c.id] \notin running'
      BY <1>2, <1>3, <1>4, <1>6
    <3>3. QED
      BY <1>2, <2>3, <3>1, <3>2 DEF Watched, TasksKnown
  <2>8. \A d \in running' : d.call = "DeleteLoadBalancer" => Live(d.id)'
    BY <1>2, <1>5, <2>4, CallFacts DEF Watched, TasksKnown
  <2>9. \A d \in task : IF d.call = "DeleteLoadBalancer" THEN d \in running' \/ NoneAlive'
                        ELSE snap.wanted
    BY <1>2, <1>6, <2>6 DEF Watched, TasksKnown
  <2>10. NothingThere'
    BY <1>2, <2>6 DEF Watched, NothingThere
  <2>11. QED
    BY <1>2, <2>5, <2>7, <2>8, <2>9, <2>10 DEF Watched, TasksKnown
<1>7. CASE c.call = "DeleteLoadBalancer"
  <2>1. balancers' = [balancers EXCEPT ![c.id].state = "gone"]
    BY <1>1, <1>7 DEF TaskSucceeds
  <2>2. Live(c.id) /\ Alive(c.id)
    BY <1>7 DEF Watched, TasksKnown, Alive, Live
  <2>3. NoneAlive'
    <3>1. ~Alive(c.id)'
      BY <1>3, <2>1 DEF Alive, Balancer, Untouched
    <3>2. \A i \in LbIds : i # c.id => ~Alive(i) /\ balancers'[i] = balancers[i]
      BY <1>3, <2>1, <2>2 DEF Watched, AtMostOneBalancer
    <3>3. QED
      BY <3>1, <3>2 DEF NoneAlive, Alive
  <2>4. \A i \in LbIds : /\ balancers'[i].state # "pending"
                         /\ [call |-> "CreateLoadBalancer", id |-> i] \notin running'
    <3>1. \A i \in LbIds : balancers[i].state # "pending"
      BY <1>3, <2>2 DEF Watched, AtMostOneBalancer, Alive, Live
    <3>2. QED
      BY <1>2, <2>3, <3>1 DEF Watched, TasksKnown, NoneAlive, Alive
  <2>5. \A d \in running' : d.call # "DeleteLoadBalancer"
    <3>1. ASSUME NEW d \in running, d.call = "DeleteLoadBalancer" PROVE d = c
      <4>1. d.id \in LbIds /\ Alive(d.id)
        BY <1>5, <3>1, CallFacts DEF Watched, TasksKnown, Alive, Live
      <4>2. d.id = c.id
        BY <1>3, <2>2, <4>1 DEF Watched, AtMostOneBalancer
      <4>3. QED
        BY <1>3, <1>4, <1>5, <1>7, <3>1, <4>2
    <3>2. QED
      BY <1>2, <3>1
  <2>6. QED
    BY <1>2, <2>3, <2>4, <2>5 DEF Watched, AtMostOneBalancer, NoOrphan, SyncIsCurrent,
       TasksKnown, NothingThere, NoneAlive
<1>8. CASE c.call \in {"CreateListener", "DeleteListener"}
  <2>1. UNCHANGED balancers
    BY <1>1, <1>8 DEF TaskSucceeds
  <2>2. \A d \in running : d.call \in {"CreateLoadBalancer", "DeleteLoadBalancer"} => d \in running'
    BY <1>2, <1>8
  <2>3. \A i : [call |-> "CreateLoadBalancer", id |-> i].call = "CreateLoadBalancer"
    OBVIOUS
  <2>4. \A i \in LbIds : [call |-> "CreateLoadBalancer", id |-> i] \in running' <=>
                         [call |-> "CreateLoadBalancer", id |-> i] \in running
    BY <1>2, <2>2, <2>3
  <2>5. TasksKnown'
    BY <1>2, <2>1, <2>2, <2>4 DEF Watched, TasksKnown, Live, NoneAlive, Alive
  <2>6. QED
    BY <1>2, <2>1, <2>5 DEF Watched, AtMostOneBalancer, NoOrphan, SyncIsCurrent,
       NothingThere, Alive, NoneAlive
<1>9. QED
  BY <1>1, <1>6, <1>7, <1>8 DEF TaskSucceeds

LEMMA NextWatched ==
    ASSUME WatchedFaults, TypeOK, Watched, [Next]_vars
    PROVE  Watched'
<1>1. CASE NodeSync
  BY <1>1, AsideWatched DEF NodeSync, UpdateLoadBalancer, updateRemembers, frame
<1>2. CASE Environment
  <2>1. CASE ExpireBalancer \/ ExpireListeners
    BY <2>1, AsideWatched DEF ExpireBalancer, ExpireListeners, others, frame
  <2>2. CASE Crash
    BY <2>2, ErrorWatched DEF Crash
  <2>3. ~CloudFails
    BY DEF CloudFails, Fault, WatchedFaults
  <2>4. QED
    BY <1>2, <2>1, <2>2, <2>3, CloudWatched DEF Environment
<1>3. CASE UNCHANGED vars
  BY <1>3, AsideWatched DEF vars, others, frame
<1>4. QED
  BY <1>1, <1>2, <1>3, WorkerWatched, UserWatched DEF Next, AtRest, WatchedFaults

LEMMA InitWatched == Init => Watched
BY DEF Init, ClbInit, Untouched, Watched, AtMostOneBalancer, NoOrphan, SyncIsCurrent,
   TasksKnown, NothingThere, Alive

\* Answers may be lost, waiting given up and the process die: as long as a
\* running creation is listed and no task fails, a balancer is created, or
\* counts as deleted, only where there is none.
THEOREM AlwaysWatched == WatchedFaults => (Spec => []Watched)
<1> SUFFICES ASSUME WatchedFaults PROVE Spec => []Watched
  OBVIOUS
<1>1. Init => TypeOK /\ Watched
  BY InitType, InitWatched
<1>2. (TypeOK /\ Watched) /\ [Next]_vars => (TypeOK /\ Watched)'
  BY NextType, NextWatched
<1>3. QED
  BY <1>1, <1>2, PTL DEF Spec

\* ... and so no retry of createLoadBalancer makes a second balancer ...
THEOREM RetriedNeverTwo == WatchedFaults => (Spec => []AtMostOneBalancer)
<1>1. Watched => AtMostOneBalancer
  BY DEF Watched
<1>2. QED
  BY <1>1, AlwaysWatched, PTL

\* ... no deletion is reported done too early (EnsureLoadBalancerDeleted) ...
THEOREM RetriedDeletionHolds == WatchedFaults => (Spec => []DeletedLeavesNothing)
<1>1. Watched => DeletedLeavesNothing
  BY DEF Watched, NothingThere, NoneAlive, DeletedLeavesNothing
<1>2. QED
  BY <1>1, AlwaysWatched, PTL

\* ... no balancer outlives its Service ...
THEOREM RetriedNeverOrphaned == WatchedFaults => (Spec => []NoOrphan)
<1>1. Watched => NoOrphan
  BY DEF Watched
<1>2. QED
  BY <1>1, AlwaysWatched, PTL

\* ... and no call reaches the balancer of another incarnation, under a short
\* name either.
THEOREM RetriedTouchesOwn == WatchedFaults => (Spec => TouchesOnlyOwn)
<1> SUFFICES ASSUME WatchedFaults PROVE Spec => TouchesOnlyOwn
  OBVIOUS
<1>1. ASSUME TypeOK, Watched, Next, NEW c \in running' \ running
      PROVE  balancers'[c.id].uid = snap.uid
  <2>1. CASE c.id \in LbIds /\ Live(c.id) /\ UNCHANGED balancers /\ pc # "idle"
    BY <1>1, <2>1 DEF Watched, NoOrphan, SyncIsCurrent, Alive, Live
  <2>2. QED
    BY <1>1, <2>1, NewCall
<1>2. TypeOK /\ Watched /\ [Next]_vars =>
        [\A c \in running' \ running : balancers'[c.id].uid = snap.uid]_vars
  BY <1>1
<1>3. QED
  BY <1>2, TypeCorrect, AlwaysWatched, PTL DEF Spec, TouchesOnlyOwn

\* What is left of RestsReachable then: a Service at rest that wants no
\* balancer has none, so that the calls nobody waited for (waitApiTaskDone
\* giving up, a lost answer, a crash) leave no balancer to be paid for.  Of one
\* that wants a balancer nothing can be said: a deletion left behind may take it.
RestLeavesNothing == pc = "idle" /\ ~queued /\ ~svc.wanted => NoneAlive

\* What carries it: the finalizer comes off at the end of the last sync.
RestsUnguarded ==
    /\ ~queued => snap = svc
    /\ pc = "idle" /\ ~queued /\ ~svc.wanted => ~held

LEMMA NextRestsUnguarded ==
    ASSUME SyncIsCurrent, RestsUnguarded, [Next]_vars
    PROVE  RestsUnguarded'
<1> USE DEF RestsUnguarded
<1>1. CASE queued'
  BY <1>1
<1>2. CASE UNCHANGED <<svc, snap, queued>> /\ pc' # "idle"
  BY <1>2
<1>3. CASE UNCHANGED <<svc, held, snap, queued, pc>>
  BY <1>3
<1>4. CASE Worker
  <2>1. CASE Dequeue
    BY <2>1 DEF Dequeue
  <2>2. CASE SyncEnsured
    BY <2>2 DEF SyncEnsured, Return, others, SyncIsCurrent
  <2>3. CASE SyncDeleted
    BY <2>3 DEF SyncDeleted, Return
  <2>4. CASE createLoadBalancer
    BY <1>1, <1>2, <2>4 DEF createLoadBalancer, Error, Goto, others
  <2>5. CASE Error
    BY <1>1, <2>5 DEF Error
  <2>6. QED
    BY <1>2, <1>4, <2>1, <2>2, <2>3, <2>4, <2>5, WorkerGoesOn
<1>5. CASE NodeSync
  BY <1>3, <1>5 DEF NodeSync, UpdateLoadBalancer, updateRemembers, frame
<1>6. CASE User
  BY <1>1, <1>6 DEF User, EditSpec, DropBalancer, WantAgain, Recreate, Change
<1>7. CASE Environment
  <2>1. CASE Crash
    BY <1>1, <2>1 DEF Crash, Error
  <2>2. CASE ~Crash
    BY <1>3, <1>7, <2>2 DEF Environment, ExpireBalancer, ExpireListeners, CloudSucceeds,
       CloudFails, others, frame
  <2>3. QED
    BY <2>1, <2>2
<1>8. CASE UNCHANGED vars
  BY <1>3, <1>8 DEF vars, others, frame
<1>9. QED
  BY <1>4, <1>5, <1>6, <1>7, <1>8 DEF Next, AtRest

\* A Service that wants no balancer, whose key nobody has queued and that is
\* not being synced, has no balancer: the finalizer, which outlives any balancer
\* (NoOrphan), came off at the end of EnsureLoadBalancerDeleted.
THEOREM RetriedRestLeavesNothing == WatchedFaults => (Spec => []RestLeavesNothing)
<1> SUFFICES ASSUME WatchedFaults PROVE Spec => []RestLeavesNothing
  OBVIOUS
<1>1. Init => RestsUnguarded
  BY DEF Init, RestsUnguarded
<1>2. Watched /\ RestsUnguarded /\ [Next]_vars => RestsUnguarded'
  BY NextRestsUnguarded DEF Watched
<1>3. Watched /\ RestsUnguarded => RestLeavesNothing
  BY DEF Watched, NoOrphan, NoneAlive, RestsUnguarded, RestLeavesNothing
<1>4. QED
  BY <1>1, <1>2, <1>3, AlwaysWatched, PTL DEF Spec

-----------------------------------------------------------------------------
\* The promise of ServiceBalancer, step by step.  What it needs is known both
\* on a reliable cloud and where calls are lost sight of but no task fails.
Ground ==
    /\ AtMostOneBalancer /\ NoOrphan /\ SyncIsCurrent /\ NothingThere
    /\ \A i \in LbIds : [call |-> "CreateLoadBalancer", id |-> i] \in running =>
          balancers[i].state = "pending"
    /\ \A c \in running : c.call = "DeleteLoadBalancer" => Live(c.id)
    /\ Faults \subseteq {"api"} =>
          (running # {} => pc # "idle") /\ (pc = "ensured" => Served)

LEMMA ReliableGround == ASSUME Consistent PROVE Ground
BY DEF Consistent, Ground, OneCallAtATime

LEMMA WatchedGround == ASSUME Watched, ~(Faults \subseteq {"api"}) PROVE Ground
BY DEF Watched, Ground, TasksKnown

\* The one balancer that exists is all there is to see.
LEMMA ExistingOne ==
    ASSUME AtMostOneBalancer, NEW i \in LbIds, Alive(i)
    PROVE  Existing = {Visible(i)}
BY DEF AtMostOneBalancer, Existing

LEMMA ExistingNone == ASSUME NoneAlive PROVE Existing = {}
BY DEF NoneAlive, Existing

LEMMA ExistingStays ==
    ASSUME UNCHANGED <<balancers, listeners>>
    PROVE  Existing' = Existing /\ UsedIds' = UsedIds
BY DEF Existing, Visible, UsedIds, Alive, Live

LEMMA PromiseStutters ==
    ASSUME UNCHANGED <<svc, held, queued, snap, balancers, listeners>>,
           pc' = "idle" <=> pc = "idle"
    PROVE  UNCHANGED Promise!vars
BY ExistingStays DEF Promise!vars, CallUnderWay, Request

LEMMA PromiseFails ==
    ASSUME Error, UNCHANGED <<svc, held, balancers, listeners>>
    PROVE  Promise!CallFails
BY ExistingStays DEF Promise!CallFails, Promise!Unsettled, Error, Return, CallUnderWay, Request

\* A creation, accepted, whether the answer arrives or not.
LEMMA PromiseCreates ==
    ASSUME TypeOK, Ground, NEW i \in Fresh, StartCreate(i, getLBTags, snap.spec.kind),
           pc = "create", UNCHANGED <<svc, held, snap>>, Error \/ Goto("wait")
    PROVE  Promise!Create
<1>1. i \in LbIds /\ balancers[i] = Untouched /\ NoneAlive /\ snap.wanted
  <2>1. i \in LbIds /\ balancers[i] = Untouched
    BY ClbAssumption DEF Fresh, LbIds
  <2>2. NoneAlive /\ snap.wanted
    BY DEF Ground, NothingThere, SyncIsCurrent
  <2> QED
    BY <2>1, <2>2
<1>2. /\ balancers' = [balancers EXCEPT
             ![i] = [uid |-> snap.uid, kind |-> snap.spec.kind, state |-> "pending"]]
      /\ balancers \in [LbIds -> Balancer]
  BY DEF StartCreate, getLBTags, TypeOK, ClbTypeOK
<1>3. Existing = {}
  BY <1>1, ExistingNone
<1>4. Existing' = {Visible(i)'}
  <2>1. \A j \in LbIds : Alive(j)' <=> j = i
    BY <1>1, <1>2 DEF Alive, NoneAlive
  <2> QED
    BY <1>1, <2>1 DEF Existing
<1>5. Visible(i)'.id = i /\ Visible(i)'.uid = snap.uid /\ Visible(i)'.up = FALSE
  BY <1>1, <1>2 DEF Visible, Live
<1>6. i \notin UsedIds /\ UsedIds' = UsedIds \cup {i}
  BY <1>1, <1>2 DEF UsedIds, Untouched
<1>7. CallUnderWay = {Request(snap)} /\ Request(snap).wanted /\ Request(snap).uid = snap.uid
  BY <1>1 DEF CallUnderWay, Request
<1>8. Promise!Unsettled \/ UNCHANGED <<CallUnderWay, queued>>
  BY DEF Promise!Unsettled, Error, Return, Goto, CallUnderWay, Request
<1>9. UNCHANGED <<Request(svc), held>>
  BY DEF Request
<1> QED
  BY <1>3, <1>4, <1>5, <1>6, <1>7, <1>8, <1>9 DEF Promise!Create

\* A task ends well.
LEMMA PromiseServes ==
    ASSUME TypeOK, Ground, AtMostOneBalancer', CloudSucceeds
    PROVE  Promise!Serve \/ Promise!Remove \/ UNCHANGED Promise!vars
<1> PICK c \in running : TaskSucceeds(c)
  BY DEF CloudSucceeds
<1>1. /\ c.id \in LbIds /\ balancers[c.id] # Untouched /\ balancers[c.id] \in Balancer
      /\ balancers \in [LbIds -> Balancer]
  BY CallFacts DEF TypeOK, ClbTypeOK
<1>2. UNCHANGED <<svc, held, queued, pc, snap>>
  BY DEF CloudSucceeds, others, frame
<1>3. UNCHANGED <<Request(svc), held, queued, CallUnderWay>>
  BY <1>2 DEF CallUnderWay, Request
<1>4. Promise!UnderItsCall
  <2> SUFFICES ASSUME Faults \subseteq {"api"}
               PROVE  \E s \in CallUnderWay : \A b \in Existing : b.uid = s.uid
    BY DEF Promise!UnderItsCall
  <2>1. Request(snap) \in CallUnderWay /\ pc # "idle"
    BY DEF Ground, CallUnderWay
  <2>2. ASSUME NEW b \in Existing PROVE b.uid = Request(snap).uid
    BY <2>1, <2>2 DEF Existing, Visible, Request, Ground, NoOrphan, SyncIsCurrent
  <2> QED
    BY <2>1, <2>2
<1>5. ASSUME NEW i \in LbIds, Alive(i), Alive(i)', UsedIds' = UsedIds, Live(i) => Live(i)',
             balancers'[i].uid = balancers[i].uid
      PROVE  Promise!Serve
  <2>1. Existing = {Visible(i)} /\ Existing' = {Visible(i)'}
    <3>1. Existing = {Visible(i)}
      BY <1>5, ExistingOne DEF Ground
    <3>2. Existing' = {Visible(i)'}
      BY <1>5 DEF AtMostOneBalancer, Existing
    <3> QED
      BY <3>1, <3>2
  <2>2. <<Visible(i).id, Visible(i).uid>>' = <<Visible(i).id, Visible(i).uid>>
    BY <1>5 DEF Visible
  <2>3. Visible(i).up => Visible(i)'.up
    BY <1>5 DEF Visible
  <2> QED
    BY <1>3, <1>4, <1>5, <2>1, <2>2, <2>3 DEF Promise!Serve
<1>6. CASE c.call = "CreateLoadBalancer"
  <2>1. balancers[c.id].state = "pending"
    <3>1. c = [call |-> "CreateLoadBalancer", id |-> c.id]
      BY <1>6 DEF TypeOK, ClbTypeOK, Call, BalancerCall, ListenerCall
    <3> QED
      BY <1>1, <3>1 DEF Ground
  <2>2. balancers' = [balancers EXCEPT ![c.id].state = "live"]
    BY <1>6 DEF TaskSucceeds
  <2>3. Alive(c.id) /\ Alive(c.id)' /\ Live(c.id)' /\ balancers'[c.id].uid = balancers[c.id].uid
    BY <1>1, <2>1, <2>2 DEF Alive, Live, Balancer, Untouched
  <2>4. UsedIds' = UsedIds
    BY <1>1, <2>2 DEF UsedIds, Balancer, Untouched
  <2> QED
    BY <1>1, <1>5, <2>3, <2>4
<1>7. CASE c.call = "DeleteLoadBalancer"
  <2>1. Live(c.id) /\ balancers' = [balancers EXCEPT ![c.id].state = "gone"]
    BY <1>7 DEF Ground, TaskSucceeds
  <2>2. Alive(c.id) /\ NoneAlive'
    BY <1>1, <2>1 DEF Alive, Live, NoneAlive, Ground, AtMostOneBalancer, Balancer, Untouched
  <2>3. Existing # {} /\ Existing' = {}
    BY <1>1, <2>2 DEF Existing, NoneAlive
  <2>4. UsedIds' = UsedIds
    BY <1>1, <2>1 DEF UsedIds, Balancer, Untouched
  <2> QED
    BY <1>3, <1>4, <2>3, <2>4 DEF Promise!Remove
<1>8. CASE UNCHANGED balancers
  <2>1. UsedIds' = UsedIds
    BY <1>8 DEF UsedIds
  <2>2. CASE NoneAlive
    <3>1. Existing = {} /\ Existing' = {}
      BY <1>8, <2>2 DEF Existing, NoneAlive, Alive
    <3> QED
      BY <1>3, <2>1, <3>1 DEF Promise!vars
  <2>3. CASE \E i \in LbIds : Alive(i)
    BY <1>5, <1>8, <2>1, <2>3 DEF Alive, Live
  <2> QED
    BY <2>2, <2>3 DEF NoneAlive
<1> QED
  BY <1>6, <1>7, <1>8 DEF TaskSucceeds

\* The ends of a call, and its begin.
LEMMA PromiseTurns ==
    ASSUME TypeOK, Ground, Dequeue \/ SyncEnsured \/ SyncDeleted
    PROVE  Promise!CallBegins \/ Promise!Ensured \/ Promise!Deleted
<1>1. UNCHANGED <<svc, balancers, listeners>> /\ UNCHANGED Request(svc)
  BY DEF Dequeue, SyncEnsured, SyncDeleted, cloud, others, Request
<1>2. Existing' = Existing /\ UsedIds' = UsedIds
  BY <1>1, ExistingStays
<1>3. CASE Dequeue
  BY <1>1, <1>2, <1>3 DEF Dequeue, Promise!CallBegins, CallUnderWay, Request
<1>4. CASE SyncEnsured
  <2>1. /\ CallUnderWay = {Request(snap)} /\ CallUnderWay' = {}
        /\ snap.wanted /\ UNCHANGED <<held, queued>>
    BY <1>4 DEF SyncEnsured, Return, CallUnderWay, others, Ground, SyncIsCurrent
  <2>2. ASSUME Faults \subseteq {"api"}
        PROVE  \E b \in Existing : b.up /\ b.uid = Request(snap).uid
                                   /\ Request(snap).ports \subseteq b.ports
    <3>1. PICK i \in LbIds : /\ Live(i) /\ balancers[i].uid = snap.uid
                             /\ snap.spec.ports \subseteq listeners[i]
      BY <1>4, <2>2 DEF SyncEnsured, Ground, Served
    <3>2. Visible(i) \in Existing
      BY <3>1 DEF Existing, Alive, Live
    <3> QED
      BY <3>1, <3>2 DEF Visible, Request
  <2>3. Request(snap).wanted
    BY <2>1 DEF Request
  <2> QED
    BY <1>1, <1>2, <2>1, <2>2, <2>3 DEF Promise!Ensured
<1>5. CASE SyncDeleted
  <2>1. /\ CallUnderWay = {Request(snap)} /\ CallUnderWay' = {} /\ UNCHANGED queued
        /\ ~snap.wanted /\ NoneAlive /\ held' = (held /\ svc.uid # snap.uid)
    BY <1>5 DEF SyncDeleted, Return, CallUnderWay, Ground, SyncIsCurrent, NothingThere
  <2>2. Existing = {}
    BY <2>1, ExistingNone
  <2>3. ~Request(snap).wanted /\ Request(snap).uid = snap.uid /\ Request(svc).uid = svc.uid
    BY <2>1 DEF Request
  <2> QED
    BY <1>1, <1>2, <2>1, <2>2, <2>3 DEF Promise!Deleted
<1> QED
  BY <1>3, <1>4, <1>5

LEMMA PromiseUser == ASSUME TypeOK, User PROVE Promise!ServiceChanges
<1>1. /\ UNCHANGED <<held, pc, snap, balancers, listeners>> /\ queued'
      /\ svc'.uid = svc.uid \/ (svc'.uid = svc.uid + 1 /\ ~svc.wanted /\ ~held)
  BY DEF User, EditSpec, DropBalancer, WantAgain, Recreate, Change, cloud, frame, TypeOK, Service
<1>2. Existing' = Existing /\ UsedIds' = UsedIds
  BY <1>1, ExistingStays
<1>3. UNCHANGED CallUnderWay
  BY <1>1 DEF CallUnderWay, Request
<1> QED
  BY <1>1, <1>2, <1>3 DEF Promise!ServiceChanges, Request

LEMMA NextPromise ==
    ASSUME TypeOK, Ground, AtMostOneBalancer', "taskFail" \notin Faults, [Next]_vars
    PROVE  [Promise!Next]_(Promise!vars)
<1>1. CASE createLoadBalancer
  <2>1. UNCHANGED <<svc, held>> /\ pc = "create"
    BY <1>1 DEF createLoadBalancer, others
  <2>2. CASE Error /\ UNCHANGED cloud
    BY <2>1, <2>2, PromiseFails DEF cloud, Promise!Next
  <2>3. ASSUME NEW i \in Fresh, StartCreate(i, getLBTags, snap.spec.kind),
               UNCHANGED snap, Error \/ Goto("wait")
        PROVE  Promise!Next
    BY <2>1, <2>3, PromiseCreates DEF Promise!Next
  <2>4. \/ Error /\ UNCHANGED cloud
        \/ \E i \in Fresh : /\ StartCreate(i, getLBTags, snap.spec.kind)
                            /\ UNCHANGED snap /\ (Error \/ Goto("wait"))
    BY <1>1 DEF createLoadBalancer, Error, Return
  <2> QED
    BY <2>2, <2>3, <2>4
<1>2. CASE Worker
  BY <1>1, <1>2, WorkerGoesOn, PromiseTurns, PromiseFails, PromiseStutters DEF Promise!Next
<1>3. CASE NodeSync
  BY <1>3, PromiseStutters DEF NodeSync, UpdateLoadBalancer, updateRemembers, cloud, frame
<1>4. CASE User
  BY <1>4, PromiseUser DEF Promise!Next
<1>5. CASE Environment
  <2>1. CASE ExpireBalancer \/ ExpireListeners
    BY <2>1, PromiseStutters DEF ExpireBalancer, ExpireListeners, cloud, others, frame
  <2>2. CASE Crash
    BY <2>2, PromiseFails DEF Crash, cloud, Promise!Next
  <2>3. CASE CloudSucceeds
    BY <2>3, PromiseServes DEF Promise!Next
  <2>4. ~CloudFails
    BY DEF CloudFails, Fault
  <2> QED
    BY <1>5, <2>1, <2>2, <2>3, <2>4 DEF Environment
<1>6. CASE UNCHANGED vars
  BY <1>6, PromiseStutters DEF vars, cloud, others, frame
<1> QED
  BY <1>2, <1>3, <1>4, <1>5, <1>6 DEF Next, AtRest

\* The provider keeps its promise to Kubernetes on a reliable cloud and, but
\* for what a call that returns nil has achieved, also where answers are lost,
\* waiting is given up and the process dies: EnsureLoadBalancer,
\* GetLoadBalancer and EnsureLoadBalancerDeleted implement ServiceBalancer.
THEOREM PromiseKept ==
  Faults \subseteq {"api"} \/ WatchedFaults => (Spec => KeepsPromise)
<1> SUFFICES ASSUME Faults \subseteq {"api"} \/ WatchedFaults PROVE Spec => KeepsPromise
  OBVIOUS
<1>1. Init => Promise!Init
  <2> SUFFICES ASSUME Init PROVE Promise!Init
    OBVIOUS
  <2>1. Existing = {} /\ UsedIds = {}
    BY DEF Init, ClbInit, Existing, UsedIds, Alive, Untouched
  <2> QED
    BY <2>1 DEF Init, Promise!Init, Request, CallUnderWay
<1>2. "taskFail" \notin Faults
  BY DEF WatchedFaults
<1>3. Spec => []Ground
  <2>1. CASE Faults \subseteq {"api"}
    <3>1. Spec => []Consistent
      BY <2>1, ReliableConsistent
    <3> QED
      BY <3>1, ReliableGround, PTL
  <2>2. CASE ~(Faults \subseteq {"api"})
    <3>1. Spec => []Watched
      BY <2>2, AlwaysWatched
    <3>2. Watched => Ground
      BY <2>2, WatchedGround
    <3> QED
      BY <3>1, <3>2, PTL
  <2> QED
    BY <2>1, <2>2
<1>4. Ground => AtMostOneBalancer
  BY DEF Ground
<1>5. TypeOK /\ Ground /\ AtMostOneBalancer' /\ [Next]_vars => [Promise!Next]_(Promise!vars)
  BY <1>2, NextPromise
<1> QED
  BY <1>1, <1>3, <1>4, <1>5, TypeCorrect, PTL DEF Spec, KeepsPromise, Promise!Spec

-----------------------------------------------------------------------------
\* Every fault allowed.

\* Once created, a balancer keeps its tag.
LEMMA TagsStay ==
    ASSUME TypeOK, Next, NEW i \in LbIds, balancers[i] # Untouched
    PROVE  balancers'[i] # Untouched /\ balancers'[i].uid = balancers[i].uid
<1>1. CASE UNCHANGED balancers
  BY <1>1
<1>2. ASSUME NEW j \in Fresh, StartCreate(j, getLBTags, snap.spec.kind)
      PROVE  balancers'[i] = balancers[i]
  BY <1>2 DEF StartCreate, Fresh, TypeOK, ClbTypeOK, LbIds
<1>3. ASSUME NEW c \in running, TaskSucceeds(c) \/ TaskFails(c)
      PROVE  balancers'[i] # Untouched /\ balancers'[i].uid = balancers[i].uid
  <2>1. balancers[i].uid \in Uids
    BY DEF TypeOK, ClbTypeOK, Balancer
  <2>2. balancers[i] \in [uid : Uids, kind : Kinds, state : {"pending", "live", "gone"}]
    BY DEF TypeOK, ClbTypeOK, Balancer
  <2>3. \/ UNCHANGED balancers
        \/ \E end \in {"live", "gone"} : balancers' = [balancers EXCEPT ![c.id].state = end]
    BY <1>3 DEF TaskSucceeds, TaskFails
  <2>4. QED
    BY <2>2, <2>3 DEF TypeOK, ClbTypeOK, Untouched
<1>4. \/ UNCHANGED balancers
      \/ \E j \in Fresh : StartCreate(j, getLBTags, snap.spec.kind)
      \/ \E c \in running : TaskSucceeds(c) \/ TaskFails(c)
  BY DEF Next, Worker, NodeSync, User, Environment, AtRest, vars, cloud,
     EnsureLoadBalancer, ensureLoadBalancerInstance, waitApiTaskDone, waitApiTaskFails,
     ensureLoadBalancerListeners, ensureLoadBalancerBackends, reportStatus, TakeBalancer,
     getLoadBalancerListeners, listenersEnsured, describeTargets, GetLoadBalancer,
     EnsureLoadBalancerDeleted, Dequeue, SyncEnsured, SyncDeleted, UpdateLoadBalancer,
     updateRemembers, EditSpec, DropBalancer, WantAgain, Recreate, Change, ExpireBalancer,
     ExpireListeners, Crash, CloudSucceeds, CloudFails, createLoadBalancer,
     deleteLoadBalancer, createListener, deleteListener, Submit, Start
<1>5. QED
  BY <1>1, <1>2, <1>3, <1>4

\* What a lookup finds carries the name of the Service being synced.
LEMMA FoundByName ==
    ASSUME TypeOK, CachedByName, NEW i \in Found
    PROVE  /\ i \in LbIds /\ balancers[i] # Untouched
           /\ getLoadBalancerName(balancers[i].uid) = getLoadBalancerName(snap.uid)
<1>1. i \in LbIds
  BY FoundType
<1>2. getLoadBalancerName(snap.uid) \in Names
  BY SnapFacts, NameInNames
<1>3. CASE i \in clbCache[getLoadBalancerName(snap.uid)]
  BY <1>1, <1>2, <1>3 DEF CachedByName
<1>4. CASE i \in Described(snap.uid)
  BY <1>1, <1>4 DEF Described, Alive, Live, Untouched
<1>5. QED
  BY <1>3, <1>4 DEF Found

\* Where cached balancers, the node sync's and the worker's come from.
KnownCache == \A n \in Names : \A i \in clbCache'[n] :
    \/ i \in clbCache[n]
    \/ i \in Found /\ n = getLoadBalancerName(snap.uid)
    \/ i \in peer /\ n = getLoadBalancerName(balancers[i].uid)
KnownPeer == peer' \subseteq peer \cup Described(snap.uid)
KnownLb ==
    /\ \A i \in lb' : snap' = snap /\ i \in lb \cup Found
    /\ pc' = "idle" => lb' = {}

LEMMA ByNameStep ==
    ASSUME TypeOK, CachedByName, Next, KnownCache, KnownPeer, KnownLb
    PROVE  CachedByName'
<1>1. /\ lb \subseteq LbIds /\ peer \subseteq LbIds /\ Found \subseteq LbIds
      /\ \A n \in Names : clbCache[n] \subseteq LbIds
  BY FoundType DEF TypeOK
<1>2. \A n \in Names : \A i \in clbCache'[n] :
         balancers'[i] # Untouched /\ getLoadBalancerName(balancers'[i].uid) = n
  BY <1>1, FoundByName, TagsStay DEF KnownCache, CachedByName
<1>3. \A i \in peer' : balancers'[i] # Untouched
  <2>1. \A i \in Described(snap.uid) : i \in LbIds /\ balancers[i] # Untouched
    BY DEF Described, Alive, Live, Untouched
  <2>2. QED
    BY <1>1, <2>1, TagsStay DEF KnownPeer, CachedByName
<1>4. \A i \in lb' : /\ balancers'[i] # Untouched
                    /\ getLoadBalancerName(balancers'[i].uid) = getLoadBalancerName(snap'.uid)
  BY <1>1, FoundByName, TagsStay DEF KnownLb, CachedByName
<1>5. QED
  BY <1>2, <1>3, <1>4 DEF CachedByName, KnownLb

LEMMA KnownSources ==
    ASSUME TypeOK, CachedByName
    PROVE  /\ Remember => KnownCache
           /\ LookupFails => KnownCache
           /\ UNCHANGED clbCache => KnownCache
           /\ UNCHANGED cache => KnownCache
           /\ UNCHANGED others => KnownPeer
           /\ Error => KnownLb
           /\ Return => KnownLb
           /\ \A label : Goto(label) /\ UNCHANGED <<snap, lb>> /\ label # "idle" => KnownLb
           /\ \A c, create, delete : Submit(c, create, delete) => KnownLb
<1>1. Remember => KnownCache
  BY SnapFacts, NameInNames DEF Remember, KnownCache, TypeOK
<1>2. LookupFails \/ UNCHANGED clbCache \/ UNCHANGED cache => KnownCache
  BY DEF LookupFails, cache, KnownCache
<1>3. UNCHANGED others => KnownPeer
  BY DEF others, KnownPeer
<1>4. Error \/ Return => KnownLb
  BY DEF Error, Return, KnownLb
<1>5. \A label : Goto(label) /\ UNCHANGED <<snap, lb>> /\ label # "idle" => KnownLb
  BY DEF Goto, KnownLb
<1>6. \A c, create, delete : Submit(c, create, delete) => KnownLb
  BY <1>4, <1>5 DEF Submit
<1>7. QED
  BY <1>1, <1>2, <1>3, <1>4, <1>5, <1>6

LEMMA WorkerKnown ==
    ASSUME TypeOK, CachedByName, Worker
    PROVE  KnownCache /\ KnownPeer /\ KnownLb
<1> USE KnownSources
<1>1. CASE EnsureLoadBalancer
  BY <1>1 DEF EnsureLoadBalancer, frame
<1>2. CASE ensureLoadBalancerInstance
  BY <1>2 DEF ensureLoadBalancerInstance, frame
<1>3. CASE createLoadBalancer
  BY <1>3 DEF createLoadBalancer
<1>4. CASE deleteLoadBalancer
  BY <1>4 DEF deleteLoadBalancer, AfterDelete, frame
<1>5. CASE waitApiTaskDone
  BY <1>5 DEF waitApiTaskDone, AfterDelete
<1>6. CASE waitApiTaskFails
  BY <1>6 DEF waitApiTaskFails, ForgetAll, KnownCache, KnownPeer
<1>7. ASSUME NEW from, NEW to, TakeBalancer(from, to), to # "idle"
      PROVE  KnownCache /\ KnownPeer /\ KnownLb
  BY <1>7 DEF TakeBalancer, Goto, KnownLb
<1>8. CASE ensureLoadBalancerListeners \/ ensureLoadBalancerBackends \/ reportStatus
  BY <1>7, <1>8 DEF ensureLoadBalancerListeners, ensureLoadBalancerBackends, reportStatus
<1>9. CASE getLoadBalancerListeners
  BY <1>9 DEF getLoadBalancerListeners
<1>10. CASE createListener \/ deleteListener
  BY <1>10 DEF createListener, deleteListener
<1>11. CASE listenersEnsured
  BY <1>11 DEF listenersEnsured, KnownLb, Goto
<1>12. CASE describeTargets
  BY <1>12 DEF describeTargets, KnownLb, Goto
<1>13. CASE GetLoadBalancer \/ EnsureLoadBalancerDeleted
  BY <1>13 DEF GetLoadBalancer, EnsureLoadBalancerDeleted, frame
<1>14. CASE Dequeue
  BY <1>14 DEF Dequeue, CachedByName, KnownPeer, KnownLb
<1>15. CASE SyncEnsured
  BY <1>15 DEF SyncEnsured
<1>16. CASE SyncDeleted
  BY <1>16 DEF SyncDeleted, KnownPeer
<1>17. QED
  BY <1>1, <1>2, <1>3, <1>4, <1>5, <1>6, <1>8, <1>9, <1>10, <1>11, <1>12, <1>13, <1>14,
     <1>15, <1>16 DEF Worker

LEMMA NextKnown ==
    ASSUME TypeOK, CachedByName, Next
    PROVE  KnownCache /\ KnownPeer /\ KnownLb
<1> USE KnownSources
<1>1. UNCHANGED <<pc, frame>> => KnownLb
  BY DEF frame, KnownLb, CachedByName
<1>2. CASE NodeSync
  <2>1. CASE UpdateLoadBalancer
    BY <1>1, <2>1 DEF UpdateLoadBalancer, KnownPeer
  <2>2. CASE updateRemembers
    <3>1. \A i \in peer : i \in LbIds /\ balancers[i] # Untouched
      BY DEF TypeOK, CachedByName
    <3>2. \A i \in peer : getLoadBalancerName(balancers[i].uid) \in Names
      <4>1. \A i \in peer : balancers[i].uid \in Uids
        BY <3>1 DEF TypeOK, ClbTypeOK, Balancer
      <4>2. QED
        BY <4>1, NameInNames
    <3>3. KnownCache
      BY <2>2, <3>2 DEF updateRemembers, KnownCache, TypeOK
    <3>4. QED
      BY <1>1, <2>2, <3>3 DEF updateRemembers, KnownPeer
  <2>3. QED
    BY <1>2, <2>1, <2>2 DEF NodeSync
<1>3. CASE User
  BY <1>1, <1>3 DEF User, EditSpec, DropBalancer, WantAgain, Recreate, Change, KnownPeer
<1>4. CASE Environment
  <2>1. CASE ExpireBalancer
    <3>1. KnownCache
      BY <2>1 DEF ExpireBalancer, KnownCache, TypeOK
    <3>2. QED
      BY <1>1, <2>1, <3>1 DEF ExpireBalancer
  <2>2. CASE ExpireListeners
    BY <1>1, <2>2 DEF ExpireListeners
  <2>3. CASE Crash
    BY <2>3 DEF Crash, ForgetAll, KnownCache, KnownPeer
  <2>4. CASE CloudSucceeds \/ CloudFails
    BY <1>1, <2>4 DEF CloudSucceeds, CloudFails
  <2>5. QED
    BY <1>4, <2>1, <2>2, <2>3, <2>4 DEF Environment
<1>5. CASE AtRest
  BY <1>1, <1>5 DEF AtRest, vars
<1>6. QED
  BY <1>2, <1>3, <1>4, <1>5, WorkerKnown DEF Next

\* Whatever fails, the cache under a name holds only balancers created for a
\* Service of that name (getLoadBalancer).
THEOREM CacheIsByName == Spec => []CachedByName
<1>1. Init => CachedByName
  BY DEF Init, CachedByName
<1>2. TypeOK /\ CachedByName /\ [Next]_vars => CachedByName'
  <2>1. ASSUME TypeOK, CachedByName, Next PROVE CachedByName'
    BY <2>1, ByNameStep, NextKnown
  <2>2. ASSUME CachedByName, UNCHANGED vars PROVE CachedByName'
    BY <2>2 DEF vars, cloud, others, cache, frame, CachedByName
  <2>3. QED
    BY <2>1, <2>2
<1>3. QED
  BY <1>1, <1>2, TypeCorrect, PTL DEF Spec

\* Whatever fails, a changing call only reaches a balancer of the Service being
\* synced, if the Service has a long name: then the name differs from one
\* incarnation to the next (getLoadBalancerName).
THEOREM LongTouchesOwn == LongName => (Spec => TouchesOnlyOwn)
<1> SUFFICES ASSUME LongName PROVE Spec => TouchesOnlyOwn
  OBVIOUS
<1>1. ASSUME TypeOK, CachedByName, Next, NEW c \in running' \ running
      PROVE  balancers'[c.id].uid = snap.uid
  <2>1. ASSUME c.id \in lb \cup Found
        PROVE  balancers[c.id].uid = snap.uid
    BY <1>1, <2>1, FoundByName DEF CachedByName, getLoadBalancerName
  <2>2. QED
    BY <1>1, <2>1, NewCall
<1>2. TypeOK /\ CachedByName /\ [Next]_vars =>
        [\A c \in running' \ running : balancers'[c.id].uid = snap.uid]_vars
  BY <1>1
<1>3. QED
  BY <1>2, TypeCorrect, CacheIsByName, PTL DEF Spec, TouchesOnlyOwn

-----------------------------------------------------------------------------
\* A reliable cloud, and a last change that met nobody at work and nothing in
\* the cache (LoadBalancerCalm).

Steady == TypeOK /\ Consistent /\ NothingMissed /\ CachedByName /\ Attended

\* The state of the CLB changes in three ways.
LEMMA CloudChanges ==
    ASSUME Faults \subseteq {"api"}, Next
    PROVE  \/ UNCHANGED <<balancers, listeners>>
           \/ /\ createLoadBalancer
              /\ \E i \in Fresh : StartCreate(i, getLBTags, snap.spec.kind)
           \/ CloudSucceeds
<1>1. ~CloudFails
  BY DEF CloudFails, Fault
<1>2. QED
  BY <1>1 DEF Next, Worker, NodeSync, User, Environment, AtRest, vars, cloud,
     EnsureLoadBalancer, ensureLoadBalancerInstance, waitApiTaskDone, waitApiTaskFails,
     ensureLoadBalancerListeners, ensureLoadBalancerBackends, reportStatus, TakeBalancer,
     getLoadBalancerListeners, listenersEnsured, describeTargets, GetLoadBalancer,
     EnsureLoadBalancerDeleted, Dequeue, SyncEnsured, SyncDeleted, UpdateLoadBalancer,
     updateRemembers, EditSpec, DropBalancer, WantAgain, Recreate, Change, ExpireBalancer,
     ExpireListeners, Crash, createLoadBalancer,
     deleteLoadBalancer, createListener, deleteListener, Submit, Start

\* A balancer keeps its kind and its listeners until a task ends, and is
\* created with the kind asked for; only a listener asked for is added.
LEMMA NoneGoesAstray ==
    ASSUME Faults \subseteq {"api"}, Steady, Next, NEW i \in LbIds
    PROVE  /\ balancers'[i] = Untouched => listeners'[i] = {}
           /\ calm /\ svc' = svc /\ Alive(i)' /\ (WrongKind(i) \/ Crowded(i))' =>
                 /\ Alive(i) /\ Surplus(i)' \subseteq Surplus(i)
                 /\ WrongKind(i)' => WrongKind(i)
                 /\ Crowded(i)' => Crowded(i)
<1> USE DEF Steady
<1>1. CASE UNCHANGED <<balancers, listeners>>
  BY <1>1 DEF Attended, WrongKind, Crowded, Surplus, Alive
<1>2. ASSUME createLoadBalancer, NEW j \in Fresh, StartCreate(j, getLBTags, snap.spec.kind)
      PROVE  /\ balancers'[i] = Untouched => listeners'[i] = {}
             /\ i # j => balancers'[i] = balancers[i] /\ listeners'[i] = listeners[i]
             /\ i = j => balancers'[i].kind = snap.spec.kind /\ listeners'[i] = {}
  <2>1. j \in LbIds /\ balancers[j] = Untouched
    BY <1>2 DEF Fresh, LbIds
  <2>2. balancers' = [balancers EXCEPT ![j] = [uid |-> getLBTags, kind |-> snap.spec.kind,
                                              state |-> "pending"]]
        /\ listeners' = listeners
    BY <1>2 DEF StartCreate
  <2>3. balancers \in [LbIds -> Balancer]
    BY DEF TypeOK, ClbTypeOK
  <2>4. listeners[j] = {}
    BY <2>1 DEF Attended
  <2>5. QED
    BY <2>1, <2>2, <2>3, <2>4 DEF Attended
<1>3. CASE createLoadBalancer /\ \E j \in Fresh : StartCreate(j, getLBTags, snap.spec.kind)
  <2>1. PICK j \in Fresh : StartCreate(j, getLBTags, snap.spec.kind)
    BY <1>3
  <2>2. calm => snap = svc
    BY <1>3 DEF createLoadBalancer, Attended
  <2>3. QED
    BY <1>2, <1>3, <2>1, <2>2 DEF WrongKind, Crowded, Surplus, Alive
<1>4. CASE CloudSucceeds
  <2>1. PICK c \in running : TaskSucceeds(c)
    BY <1>4 DEF CloudSucceeds
  <2>2. c \in task /\ c.id \in LbIds /\ balancers[c.id] # Untouched
    BY CallFacts DEF TypeOK, ClbTypeOK, Consistent, OneCallAtATime
  <2>3. balancers \in [LbIds -> Balancer] /\ listeners \in [LbIds -> SUBSET Ports]
    BY DEF TypeOK, ClbTypeOK
  <2>4. CASE c.call = "CreateLoadBalancer"
    <3>1. balancers' = [balancers EXCEPT ![c.id].state = "live"] /\ listeners' = listeners
      BY <2>1, <2>4 DEF TaskSucceeds
    <3>2. balancers'[i].kind = balancers[i].kind /\ (balancers'[i] = Untouched => i # c.id)
      BY <2>2, <2>3, <3>1 DEF Balancer, Untouched
    <3>3. c = [call |-> "CreateLoadBalancer", id |-> c.id]
      BY <2>1, <2>4 DEF Call, BalancerCall, ListenerCall, TypeOK, ClbTypeOK
    <3>4. Alive(c.id)
      BY <2>1, <2>2, <3>3 DEF Consistent, OneCallAtATime, Alive
    <3>5. i # c.id => balancers'[i] = balancers[i]
      BY <2>3, <3>1
    <3>6. QED
      BY <3>1, <3>2, <3>4, <3>5 DEF Attended, WrongKind, Crowded, Surplus, Alive
  <2>5. CASE c.call = "DeleteLoadBalancer"
    <3>1. /\ balancers' = [balancers EXCEPT ![c.id].state = "gone"]
          /\ listeners' = [listeners EXCEPT ![c.id] = {}]
      BY <2>1, <2>5 DEF TaskSucceeds
    <3>2. ~Alive(c.id)' /\ listeners'[c.id] = {}
      BY <2>2, <2>3, <3>1 DEF Balancer, Untouched, Alive
    <3>3. i # c.id => balancers'[i] = balancers[i] /\ listeners'[i] = listeners[i]
      BY <2>3, <3>1
    <3>4. QED
      BY <3>2, <3>3 DEF Attended, WrongKind, Crowded, Surplus, Alive
  <2>6. CASE c.call \in ListenerCalls
    <3>1. balancers' = balancers
      BY <2>1, <2>6 DEF TaskSucceeds, ListenerCalls
    <3>2. i # c.id => listeners'[i] = listeners[i]
      BY <2>1, <2>2, <2>3, <2>6 DEF TaskSucceeds, ListenerCalls
    <3>3. /\ c.call = "CreateListener" => listeners'[c.id] \subseteq listeners[c.id] \cup {c.port}
          /\ c.call = "DeleteListener" => listeners'[c.id] \subseteq listeners[c.id]
      BY <2>1, <2>2, <2>3, <2>6 DEF TaskSucceeds, ListenerCalls
    <3>4. calm /\ c.call = "CreateListener" => c.port \in svc.spec.ports
      BY <2>2, <2>6 DEF Attended, Pointed
    <3>5. calm /\ svc' = svc => Surplus(i)' \subseteq Surplus(i)
      BY <2>6, <3>2, <3>3, <3>4 DEF Surplus, ListenerCalls
    <3>6. QED
      BY <2>2, <3>1, <3>2, <3>5 DEF Attended, WrongKind, Crowded, Alive
  <2>7. QED
    BY <2>1, <2>4, <2>5, <2>6 DEF TaskSucceeds, ListenerCalls
<1>5. QED
  BY <1>1, <1>3, <1>4, CloudChanges

\* While it is the only balancer there is and the only one cached, a lookup
\* finds nothing else.
LEMMA FoundOnly ==
    ASSUME Steady, NEW i \in LbIds, Alive(i), OnlyKnown(i)
    PROVE  Found \subseteq {i} /\ Described(snap.uid) \subseteq {i}
<1>1. Described(snap.uid) \subseteq {i}
  BY DEF Steady, Consistent, AtMostOneBalancer, Described, Alive, Live
<1>2. clbCache[getLoadBalancerName(snap.uid)] \subseteq {i}
  BY SnapFacts, NameInNames DEF Steady, OnlyKnown
<1>3. QED
  BY <1>1, <1>2 DEF Found

\* A list of listeners is cached as it is when asked for.
LEMMA ListsAreTaken ==
    ASSUME TypeOK, Next, NEW i \in LbIds, NEW known \in listenerCache'[i]
    PROVE  known \in listenerCache[i] \/ known = listeners[i]
<1>1. CASE getLoadBalancerListeners
  BY <1>1 DEF getLoadBalancerListeners, TypeOK
<1>2. CASE ExpireListeners
  BY <1>2 DEF ExpireListeners, TypeOK
<1>3. CASE Crash \/ waitApiTaskFails
  BY <1>3 DEF Crash, waitApiTaskFails, ForgetAll, cache
<1>4. CASE UNCHANGED listenerCache
  BY <1>4
<1>5. QED
  BY <1>1, <1>2, <1>3, <1>4
     DEF Next, Worker, NodeSync, User, Environment, AtRest, vars, cache,
     EnsureLoadBalancer, ensureLoadBalancerInstance, waitApiTaskDone,
     ensureLoadBalancerListeners, ensureLoadBalancerBackends, reportStatus, TakeBalancer,
     listenersEnsured, describeTargets, GetLoadBalancer,
     EnsureLoadBalancerDeleted, Dequeue, SyncEnsured, SyncDeleted, UpdateLoadBalancer,
     updateRemembers, EditSpec, DropBalancer, WantAgain, Recreate, Change, ExpireBalancer,
     CloudSucceeds, CloudFails, createLoadBalancer, deleteLoadBalancer, createListener,
     deleteListener

LEMMA OnlyKnownStays ==
    ASSUME Steady, Next, NEW i \in LbIds, Alive(i), OnlyKnown(i),
           Surplus(i)' \subseteq Surplus(i)
    PROVE  OnlyKnown(i)'
<1>1. KnownCache /\ KnownPeer /\ KnownLb
  BY NextKnown DEF Steady
<1>2. Found \subseteq {i} /\ Described(snap.uid) \subseteq {i}
  BY FoundOnly
<1>3. \A n \in Names : clbCache'[n] \subseteq {i}
  BY <1>1, <1>2 DEF KnownCache, OnlyKnown
<1>4. peer' \subseteq {i} /\ lb' \subseteq {i}
  BY <1>1, <1>2 DEF KnownPeer, KnownLb, OnlyKnown
<1>5. \A known \in listenerCache'[i] : Surplus(i)' \subseteq known
  <2>1. Surplus(i) \subseteq listeners[i]
    BY DEF Surplus
  <2>2. QED
    BY <2>1, ListsAreTaken DEF Steady, OnlyKnown
<1>6. QED
  BY <1>3, <1>4, <1>5 DEF OnlyKnown

\* The worker goes on with the Service as it is.
LEMMA WorksOnCurrent ==
    ASSUME Faults \subseteq {"api"}, Steady, Next, svc' = svc, pc # "idle" => snap = svc
    PROVE  pc' # "idle" => snap' = svc
<1>1. CASE Worker
  <2>1. CASE Dequeue
    BY <2>1 DEF Dequeue
  <2>2. CASE SyncEnsured \/ SyncDeleted \/ Error
    BY <2>2 DEF SyncEnsured, SyncDeleted, Error, Return
  <2>3. CASE createLoadBalancer
    BY <2>2, <2>3 DEF createLoadBalancer, Goto
  <2>4. QED
    BY <1>1, <2>1, <2>2, <2>3, WorkerGoesOn
<1>2. CASE ~Worker
  BY <1>2 DEF Next, NodeSync, UpdateLoadBalancer, updateRemembers, User, EditSpec, DropBalancer,
     WantAgain, Recreate, Change, Environment, ExpireBalancer, ExpireListeners, Crash, Error,
     Return, CloudSucceeds, CloudFails, AtRest, vars, frame
<1>3. QED
  BY <1>1, <1>2

\* What it is about to do, and the call it then waits for, is to the point.
LEMMA WorkerPoints ==
    ASSUME Steady, calm, Worker, svc' = svc
    PROVE  /\ pc' = "apply" => ToThePoint'
           /\ \A c \in task' : c.call \in ListenerCalls => Pointed(c)'
<1> DEFINE AtApply  == pc' = "apply" => ToThePoint'
           InCall   == \A c \in task' : c.call \in ListenerCalls => Pointed(c)'
           Nothing  == pc' # "apply" /\ task' = {}
<1>1. pc # "wait" => task = {}
  BY DEF Steady, Consistent, OneCallAtATime
<1>2. pc # "idle" => snap = svc
  BY DEF Steady, Attended
<1>3. Nothing => AtApply /\ InCall
  OBVIOUS
<1>4. Error => Nothing
  BY DEF Error, Return
<1>5. CASE waitApiTaskDone
  <2>1. PICK c \in task :
          /\ TaskEnded(c)
          /\ Goto(CASE c.call = "CreateLoadBalancer" -> "listeners"
                    [] c.call = "DeleteLoadBalancer" -> AfterDelete
                    [] OTHER -> "apply")
    BY <1>5 DEF waitApiTaskDone
  <2>2. task' = {} /\ UNCHANGED <<toCreate, toDelete>>
    BY <1>5 DEF waitApiTaskDone
  <2>3. c.call \in ListenerCalls => ToThePoint
    BY DEF Steady, Attended, Pointed
  <2>4. c \in Call
    BY DEF Steady, TypeOK
  <2>5. c.call \notin ListenerCalls => pc' # "apply"
    BY <2>1, <2>4 DEF Goto, AfterDelete, ListenerCalls, Call, BalancerCall, ListenerCall
  <2>6. QED
    BY <2>2, <2>3, <2>5 DEF ToThePoint
<1>6. CASE getLoadBalancerListeners
  <2>1. UNCHANGED task \/ Error
    BY <1>6 DEF getLoadBalancerListeners
  <2>2. snap = svc /\ task = {}
    BY <1>1, <1>2, <1>6 DEF getLoadBalancerListeners
  <2>3. CASE Error
    BY <1>3, <1>4, <2>3
  <2>4. ASSUME NEW known, Plan(known) PROVE ToThePoint'
    BY <2>2, <2>4 DEF Plan, ToThePoint
  <2>5. Error \/ \E known : Plan(known)
    BY <1>6 DEF getLoadBalancerListeners
  <2>6. QED
    BY <2>1, <2>2, <2>3, <2>4, <2>5
<1>7. CASE createListener
  <2>1. PICK i \in lb, p \in toCreate :
          Submit([call |-> "CreateListener", id |-> i, port |-> p], toCreate \ {p}, toDelete)
    BY <1>7 DEF createListener
  <2>2. ToThePoint
    BY <1>7 DEF createListener, Steady, Attended
  <2>3. CASE Error
    BY <1>3, <1>4, <2>3
  <2>4. CASE /\ Goto("wait") /\ task' = {[call |-> "CreateListener", id |-> i, port |-> p]}
             /\ toCreate' = toCreate \ {p} /\ toDelete' = toDelete
             /\ UNCHANGED <<snap, lb, faults>>
    BY <2>1, <2>2, <2>4 DEF Goto, Pointed, ToThePoint
  <2>5. QED
    BY <2>1, <2>3, <2>4 DEF Submit
<1>8. CASE deleteListener
  <2>1. PICK i \in lb, p \in toDelete :
          Submit([call |-> "DeleteListener", id |-> i, port |-> p], {}, toDelete \ {p})
    BY <1>8 DEF deleteListener
  <2>2. ToThePoint
    BY <1>8 DEF deleteListener, Steady, Attended
  <2>3. CASE Error
    BY <1>3, <1>4, <2>3
  <2>4. CASE /\ Start([call |-> "DeleteListener", id |-> i, port |-> p])
             /\ Goto("wait") /\ task' = {[call |-> "DeleteListener", id |-> i, port |-> p]}
             /\ toCreate' = {} /\ toDelete' = toDelete \ {p}
             /\ UNCHANGED <<snap, lb, faults>>
    BY <2>1, <2>2, <2>4 DEF Start, Goto, Pointed, ToThePoint
  <2>5. QED
    BY <2>1, <2>3, <2>4 DEF Submit
<1>9. CASE createLoadBalancer
  <2>1. InCall
    BY <1>3, <1>4, <1>9 DEF createLoadBalancer, ListenerCalls
  <2>2. AtApply
    BY <1>3, <1>4, <1>9 DEF createLoadBalancer, Goto
  <2>3. QED
    BY <2>1, <2>2
<1>10. CASE deleteLoadBalancer
  <2>1. \/ Error
        \/ Goto(AfterDelete) /\ UNCHANGED frame
        \/ \E i \in Found : /\ Goto("wait")
                            /\ task' = {[call |-> "DeleteLoadBalancer", id |-> i]}
    BY <1>10 DEF deleteLoadBalancer, Submit
  <2>2. CASE Goto(AfterDelete) /\ UNCHANGED frame
    BY <1>1, <1>3, <1>10, <2>2 DEF deleteLoadBalancer, Goto, AfterDelete, frame
  <2>3. CASE \E i \in Found : /\ Goto("wait")
                              /\ task' = {[call |-> "DeleteLoadBalancer", id |-> i]}
    BY <2>3 DEF Goto, ListenerCalls
  <2>4. QED
    BY <1>3, <1>4, <2>1, <2>2, <2>3
<1>11. CASE SyncEnsured \/ SyncDeleted
  BY <1>3, <1>11 DEF SyncEnsured, SyncDeleted, Return
<1>12. CASE Dequeue
  BY <1>1, <1>3, <1>12 DEF Dequeue
<1>13. CASE ensureLoadBalancerListeners \/ ensureLoadBalancerBackends \/ reportStatus
  BY <1>1, <1>3, <1>4, <1>13 DEF ensureLoadBalancerListeners, ensureLoadBalancerBackends,
     reportStatus, TakeBalancer, Goto
<1>14. CASE EnsureLoadBalancer \/ ensureLoadBalancerInstance \/ GetLoadBalancer
            \/ EnsureLoadBalancerDeleted
  BY <1>1, <1>3, <1>4, <1>14 DEF EnsureLoadBalancer, ensureLoadBalancerInstance,
     GetLoadBalancer, EnsureLoadBalancerDeleted, Goto, frame
<1>15. CASE listenersEnsured \/ describeTargets \/ waitApiTaskFails
  BY <1>1, <1>3, <1>4, <1>15 DEF listenersEnsured, describeTargets, waitApiTaskFails, Goto
<1>16. QED
  BY <1>5, <1>6, <1>7, <1>8, <1>9, <1>10, <1>11, <1>12, <1>13, <1>14, <1>15 DEF Worker

\* A sync does not get past a balancer that is to be put right, nor to its end.
LEMMA WorkerRights ==
    ASSUME Steady, calm, Worker, svc' = svc, svc.wanted,
           NEW i \in LbIds, Alive(i), OnlyKnown(i), ToBeRighted(i),
           Surplus(i)' \subseteq Surplus(i), WrongKind(i)' => WrongKind(i),
           (WrongKind(i) \/ Crowded(i))'
    PROVE  ToBeRighted(i)'
<1> DEFINE OnTheWay == /\ pc' \notin {"idle", "backends", "targets", "status", "ensured", "apply"}
                       /\ task' = {}
<1>1. pc # "wait" => task = {}
  BY DEF Steady, Consistent, OneCallAtATime
<1>2. pc # "idle" => snap = svc
  BY DEF Steady, Attended
<1>3. Found \subseteq {i}
  BY FoundOnly
<1>4. OnTheWay /\ (WrongKind(i) => pc' \notin {"listeners", "describe"}) => ToBeRighted(i)'
  BY DEF ToBeRighted
<1>5. Error => ToBeRighted(i)'
  BY DEF Error, Return, ToBeRighted
<1>6. ~NoneAlive
  BY DEF NoneAlive
<1>7. pc \notin {"idle", "wait"} => Found # {}
  BY <1>6, FoundNothing DEF Steady
<1>8. CASE EnsureLoadBalancer
  BY <1>1, <1>4, <1>5, <1>8 DEF EnsureLoadBalancer, Goto, frame
<1>9. CASE ensureLoadBalancerInstance
  <2>1. pc = "instance" /\ snap = svc /\ Found = {i}
    BY <1>2, <1>3, <1>7, <1>9 DEF ensureLoadBalancerInstance
  <2>2. KindMatches(i) => ~WrongKind(i)
    BY <2>1 DEF KindMatches, WrongKind
  <2>3. CASE Error
    BY <1>5, <2>3
  <2>4. CASE Goto(IF KindMatches(i) THEN "listeners" ELSE "delete") /\ UNCHANGED frame
    BY <1>1, <1>4, <2>1, <2>2, <2>4 DEF Goto, frame
  <2>5. QED
    BY <1>9, <2>1, <2>3, <2>4 DEF ensureLoadBalancerInstance
<1>10. CASE createLoadBalancer
  BY <1>6, <1>10 DEF createLoadBalancer, Steady, Consistent, NothingThere
<1>11. CASE deleteLoadBalancer
  <2>1. pc = "delete" /\ Found # {}
    BY <1>7, <1>11 DEF deleteLoadBalancer
  <2>2. CASE Error
    BY <1>5, <2>2
  <2>3. ASSUME NEW j, Goto("wait"), task' = {[call |-> "DeleteLoadBalancer", id |-> j]}
        PROVE  ToBeRighted(i)'
    BY <2>3 DEF ToBeRighted, Goto, ListenerCalls
  <2>4. QED
    BY <1>11, <2>1, <2>2, <2>3 DEF deleteLoadBalancer, Submit
<1>12. CASE waitApiTaskDone
  <2>1. PICK c \in task :
          /\ TaskEnded(c)
          /\ Goto(CASE c.call = "CreateLoadBalancer" -> "listeners"
                    [] c.call = "DeleteLoadBalancer" -> AfterDelete
                    [] OTHER -> "apply")
    BY <1>12 DEF waitApiTaskDone
  <2>2. task' = {} /\ UNCHANGED <<toDelete, listeners>> /\ c \in Call
    BY <1>12 DEF waitApiTaskDone, cloud, Steady, TypeOK
  <2>3. c.call # "DeleteLoadBalancer"
    BY <1>6, <2>1 DEF TaskEnded, Steady, Consistent, OneCallAtATime
  <2>4. ~WrongKind(i)
    BY <2>3 DEF ToBeRighted
  <2>5. CASE c.call = "CreateLoadBalancer"
    BY <1>4, <2>1, <2>2, <2>4, <2>5 DEF Goto
  <2>6. CASE c.call \in ListenerCalls
    <3>1. pc' = "apply"
      BY <2>1, <2>6 DEF Goto, ListenerCalls
    <3>2. Surplus(i) \subseteq toDelete \cup {c.port} /\ Pointed(c)
      BY <2>6 DEF ToBeRighted, Steady, Attended
    <3>3. c.id = i /\ c \notin running
      BY <2>1, <3>2 DEF Pointed, OnlyKnown, TaskEnded
    <3>4. c.port \notin Surplus(i)
      BY <2>6, <3>2, <3>3 DEF Pointed, Surplus, ListenerCalls
    <3>5. Surplus(i)' \subseteq toDelete'
      BY <2>2, <3>2, <3>4
    <3>6. QED
      BY <2>2, <2>4, <3>1, <3>5 DEF ToBeRighted
  <2>7. QED
    BY <2>2, <2>3, <2>5, <2>6 DEF Call, BalancerCall, ListenerCall, ListenerCalls
<1>13. CASE waitApiTaskFails
  BY <1>5, <1>13 DEF waitApiTaskFails
<1>14. CASE ensureLoadBalancerListeners
  <2>1. ~WrongKind(i)
    BY <1>14 DEF ensureLoadBalancerListeners, TakeBalancer, ToBeRighted
  <2>2. QED
    BY <1>1, <1>4, <1>5, <1>14, <2>1 DEF ensureLoadBalancerListeners, TakeBalancer, Goto
<1>15. CASE getLoadBalancerListeners
  <2>1. pc = "describe" /\ snap = svc /\ task = {}
    BY <1>1, <1>2, <1>15 DEF getLoadBalancerListeners
  <2>2. ~WrongKind(i)
    BY <2>1 DEF ToBeRighted
  <2>3. CASE Error
    BY <1>5, <2>3
  <2>4. ASSUME NEW known, Surplus(i) \subseteq known, Plan(known), Goto("apply"), UNCHANGED task
        PROVE  ToBeRighted(i)'
    <3>1. Surplus(i) \subseteq toDelete'
      BY <2>1, <2>4 DEF Plan, Surplus
    <3>2. QED
      BY <2>1, <2>2, <2>4, <3>1 DEF ToBeRighted, Goto
  <2>5. \A known \in listenerCache[i] \cup {listeners[i]} : Surplus(i) \subseteq known
    BY DEF OnlyKnown, Surplus
  <2>6. \A j \in lb : j = i
    BY DEF OnlyKnown
  <2>7. QED
    BY <1>15, <2>3, <2>4, <2>5, <2>6 DEF getLoadBalancerListeners
<1>16. CASE createListener
  <2>1. PICK j \in lb, p \in toCreate :
          Submit([call |-> "CreateListener", id |-> j, port |-> p], toCreate \ {p}, toDelete)
    BY <1>16 DEF createListener
  <2>2. Surplus(i) \subseteq toDelete /\ ~WrongKind(i)
    BY <1>16 DEF createListener, ToBeRighted
  <2>3. CASE Error
    BY <1>5, <2>3
  <2>4. CASE /\ Goto("wait") /\ toDelete' = toDelete
             /\ task' = {[call |-> "CreateListener", id |-> j, port |-> p]}
    BY <2>2, <2>4 DEF ToBeRighted, Goto
  <2>5. QED
    BY <2>1, <2>3, <2>4 DEF Submit
<1>17. CASE deleteListener
  <2>1. PICK j \in lb, p \in toDelete :
          Submit([call |-> "DeleteListener", id |-> j, port |-> p], {}, toDelete \ {p})
    BY <1>17 DEF deleteListener
  <2>2. Surplus(i) \subseteq toDelete /\ ~WrongKind(i)
    BY <1>17 DEF deleteListener, ToBeRighted
  <2>3. CASE Error
    BY <1>5, <2>3
  <2>4. CASE /\ Goto("wait") /\ toDelete' = toDelete \ {p}
             /\ task' = {[call |-> "DeleteListener", id |-> j, port |-> p]}
    BY <2>2, <2>4 DEF ToBeRighted, Goto
  <2>5. QED
    BY <2>1, <2>3, <2>4 DEF Submit
<1>18. CASE listenersEnsured
  <2>1. ~WrongKind(i) /\ Surplus(i) = {}
    BY <1>18 DEF listenersEnsured, ToBeRighted
  <2>2. QED
    BY <2>1 DEF Crowded
<1>19. CASE ensureLoadBalancerBackends \/ describeTargets \/ reportStatus \/ SyncEnsured
  BY <1>19 DEF ensureLoadBalancerBackends, describeTargets, reportStatus, SyncEnsured,
     TakeBalancer, ToBeRighted
<1>20. CASE GetLoadBalancer \/ EnsureLoadBalancerDeleted \/ SyncDeleted
  BY <1>2, <1>20 DEF GetLoadBalancer, EnsureLoadBalancerDeleted, SyncDeleted, Steady, Consistent,
     SyncIsCurrent
<1>21. CASE Dequeue
  BY <1>1, <1>4, <1>21 DEF Dequeue
<1>22. QED
  BY <1>8, <1>9, <1>10, <1>11, <1>12, <1>13, <1>14, <1>15, <1>16, <1>17, <1>18, <1>19, <1>20,
     <1>21 DEF Worker

\* The task that ends is the awaited one, and has done what was asked.
LEMMA CloudPoints ==
    ASSUME Steady, calm, CloudSucceeds, NEW c \in task, c.call \in ListenerCalls
    PROVE  Pointed(c)'
<1>1. PICK d \in running : TaskSucceeds(d)
  BY DEF CloudSucceeds
<1>2. d = c
  BY DEF Steady, Consistent, OneCallAtATime
<1>3. UNCHANGED <<svc, lb, toCreate, toDelete>>
  BY DEF CloudSucceeds, others, frame
<1>4. Pointed(c)
  BY DEF Steady, Attended
<1>5. c.call = "DeleteListener" => c.port \notin listeners'[c.id]
  <2>1. c.id \in LbIds /\ listeners \in [LbIds -> SUBSET Ports]
    BY CallFacts DEF Steady, TypeOK, ClbTypeOK
  <2>2. QED
    BY <1>1, <1>2, <2>1 DEF TaskSucceeds
<1>6. QED
  BY <1>3, <1>4, <1>5 DEF Pointed, ToThePoint

LEMMA NextAttended ==
    ASSUME Faults \subseteq {"api"}, Steady, Next, Watch
    PROVE  Attended'
<1>1. \A i \in LbIds : balancers'[i] = Untouched => listeners'[i] = {}
  BY NoneGoesAstray
<1> SUFFICES ASSUME calm'
             PROVE  /\ pc' # "idle" => snap' = svc'
                    /\ pc' = "apply" => ToThePoint'
                    /\ \A c \in task' : c.call \in ListenerCalls => Pointed(c)'
                    /\ svc'.wanted => \A i \in LbIds :
                          (WrongKind(i) \/ Crowded(i))' => OnlyKnown(i)' /\ ToBeRighted(i)'
  BY <1>1 DEF Attended
<1>2. CASE svc' # svc
  <2>1. Quiet /\ User
    BY <1>2 DEF Watch, Next, Worker, NodeSync, Environment, AtRest, vars, others,
       EnsureLoadBalancer, ensureLoadBalancerInstance, waitApiTaskDone, waitApiTaskFails,
       ensureLoadBalancerListeners, ensureLoadBalancerBackends, reportStatus, TakeBalancer,
       getLoadBalancerListeners, listenersEnsured, describeTargets, GetLoadBalancer,
       EnsureLoadBalancerDeleted, Dequeue, SyncEnsured, SyncDeleted, UpdateLoadBalancer,
       updateRemembers, ExpireBalancer, ExpireListeners, Crash, CloudSucceeds, CloudFails,
       createLoadBalancer, deleteLoadBalancer, createListener, deleteListener
  <2>2. queued' /\ UNCHANGED <<cache, pc, frame, peer>>
    BY <2>1 DEF User, EditSpec, DropBalancer, WantAgain, Recreate, Change
  <2>3. pc' = "idle" /\ task' = {} /\ lb' = {}
    BY <2>1, <2>2 DEF Quiet, frame, Steady, Consistent, OneCallAtATime, CachedByName
  <2>4. \A i \in LbIds : OnlyKnown(i)'
    BY <2>1, <2>2, <2>3 DEF Quiet, OnlyKnown, cache
  <2>5. QED
    BY <2>2, <2>3, <2>4 DEF ToBeRighted
<1>3. CASE svc' = svc
  <2>1. calm /\ (pc # "idle" => snap = svc)
    BY <1>3 DEF Watch, Steady, Attended
  <2>2. pc' # "idle" => snap' = svc'
    BY <1>3, <2>1, WorksOnCurrent
  <2>3. ASSUME NEW i \in LbIds, svc'.wanted, (WrongKind(i) \/ Crowded(i))'
        PROVE  /\ Alive(i) /\ OnlyKnown(i) /\ ToBeRighted(i)
               /\ Surplus(i)' \subseteq Surplus(i) /\ (WrongKind(i)' => WrongKind(i))
               /\ OnlyKnown(i)'
    <3>1. /\ Alive(i) /\ Surplus(i)' \subseteq Surplus(i)
          /\ WrongKind(i)' => WrongKind(i)
          /\ Crowded(i)' => Crowded(i)
      BY <1>3, <2>1, <2>3, NoneGoesAstray DEF WrongKind, Crowded
    <3>2. OnlyKnown(i) /\ ToBeRighted(i)
      BY <1>3, <2>1, <2>3, <3>1 DEF Steady, Attended
    <3>3. QED
      BY <3>1, <3>2, OnlyKnownStays
  <2>4. CASE Worker
    BY <1>3, <2>1, <2>2, <2>3, <2>4, WorkerPoints, WorkerRights
  <2>5. CASE CloudSucceeds
    <3>1. UNCHANGED <<pc, queued, task, toCreate, toDelete>>
      BY <2>5 DEF CloudSucceeds, frame
    <3>2. \A c \in task' : c.call \in ListenerCalls => Pointed(c)'
      BY <2>1, <2>5, <3>1, CloudPoints
    <3>3. pc' = "apply" => ToThePoint'
      BY <1>3, <2>1, <3>1 DEF Steady, Attended, ToThePoint
    <3>4. \A i \in LbIds : svc'.wanted /\ (WrongKind(i) \/ Crowded(i))' => ToBeRighted(i)'
      BY <2>3, <3>1 DEF ToBeRighted
    <3>5. QED
      BY <2>2, <2>3, <3>2, <3>3, <3>4
  <2>6. CASE UNCHANGED <<cloud, pc, frame, queued>>
    <3>1. UNCHANGED <<running, listeners, pc, queued, lb, task, toCreate, toDelete>>
      BY <2>6 DEF cloud, frame
    <3>2. \A c \in task' : c.call \in ListenerCalls => Pointed(c)'
      BY <1>3, <2>1, <3>1 DEF Steady, Attended, Pointed, ToThePoint
    <3>3. pc' = "apply" => ToThePoint'
      BY <1>3, <2>1, <3>1 DEF Steady, Attended, ToThePoint
    <3>4. \A i \in LbIds : svc'.wanted /\ (WrongKind(i) \/ Crowded(i))' => ToBeRighted(i)'
      BY <2>3, <3>1 DEF ToBeRighted
    <3>5. QED
      BY <2>2, <2>3, <3>2, <3>3, <3>4
  <2>7. NodeSync \/ AtRest \/ ExpireBalancer \/ ExpireListeners
           => UNCHANGED <<cloud, pc, frame, queued>>
    BY DEF NodeSync, UpdateLoadBalancer, updateRemembers, AtRest, vars, ExpireBalancer,
       ExpireListeners
  <2>8. ~Crash /\ ~CloudFails
    BY DEF Crash, CloudFails, Fault
  <2>9. ~User
    <3>1. svc \in Service
      BY DEF Steady, TypeOK
    <3>2. QED
      BY <1>3, <3>1 DEF User, EditSpec, DropBalancer, WantAgain, Recreate, Change, Service, Uids
  <2>10. QED
    BY <2>4, <2>5, <2>6, <2>7, <2>8, <2>9 DEF Next, Environment
<1>4. QED
  BY <1>2, <1>3

\* A history variable takes nothing away.
LEMMA CalmIsSpec == CalmSpec => Spec
<1>1. [Next /\ Watch]_<<vars, calm>> => [Next]_vars
  OBVIOUS
<1>2. QED
  BY <1>1, PTL DEF CalmSpec, Spec

\* On a reliable cloud a Service that is neither queued nor being synced has
\* exactly what it asks for, if its last change came quietly: no answer cached
\* since, and no list read before a call that was waited for, makes
\* ensureLoadBalancerInstance or ensureLoadBalancerListeners leave a balancer
\* of the wrong kind or a listener too many.
THEOREM RestIsExact == Faults \subseteq {"api"} => (CalmSpec => []RestsExact)
<1> SUFFICES ASSUME Faults \subseteq {"api"} PROVE CalmSpec => []RestsExact
  OBVIOUS
<1>1. Init => Attended
  <2>1. Init => \A i \in LbIds : balancers[i] = Untouched /\ listeners[i] = {}
    BY DEF Init, ClbInit
  <2>2. Init => \A i \in LbIds : ~Alive(i)
    BY <2>1 DEF Alive, Untouched
  <2>3. Init => pc = "idle" /\ task = {}
    BY DEF Init
  <2>4. QED
    BY <2>1, <2>2, <2>3 DEF Attended, WrongKind, Crowded
<1>2. Init => NothingMissed
  BY DEF Init, NothingMissed, RestsReachable
<1>3. TypeOK /\ Consistent /\ NothingMissed /\ [Next]_vars => NothingMissed'
  BY NextNothingMissed
<1>4. TypeOK /\ Consistent /\ NothingMissed /\ CachedByName /\ Attended
         /\ [Next /\ Watch]_<<vars, calm>> => Attended'
  <2>1. ASSUME Steady, UNCHANGED <<vars, calm>> PROVE Attended'
    BY <2>1 DEF Steady, Attended, vars, cloud, others, cache, frame, ToThePoint, Pointed,
       WrongKind, Crowded, Surplus, Alive, OnlyKnown, ToBeRighted
  <2>2. QED
    BY <2>1, NextAttended DEF Steady
<1>5. Consistent /\ NothingMissed /\ Attended => RestsExact
  <2> SUFFICES ASSUME Consistent, NothingMissed, Attended, calm, pc = "idle", ~queued
               PROVE  Exact
    BY DEF RestsExact
  <2>1. Reachable
    BY DEF NothingMissed, RestsReachable
  <2>2. ASSUME svc.wanted, NEW i \in LbIds, Alive(i)
        PROVE  balancers[i].kind = svc.spec.kind /\ listeners[i] = svc.spec.ports
    <3>1. ~WrongKind(i) /\ ~Crowded(i)
      BY <2>2 DEF Attended, ToBeRighted
    <3>2. svc.spec.ports \subseteq listeners[i]
      BY <2>1, <2>2 DEF Reachable, Consistent, AtMostOneBalancer, Alive, Live
    <3>3. QED
      BY <2>2, <3>1, <3>2 DEF WrongKind, Crowded, Surplus
  <2>3. QED
    BY <2>1, <2>2 DEF Exact
<1>6. QED
  BY <1>1, <1>2, <1>3, <1>4, <1>5, CalmIsSpec, TypeCorrect, ReliableConsistent, CacheIsByName,
     PTL DEF CalmSpec, Spec

=============================================================================
