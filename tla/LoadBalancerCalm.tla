-------------------------- MODULE LoadBalancerCalm --------------------------
(***************************************************************************)
(* When the balancer of a Service ends up exactly as the Service asks:     *)
(* LoadBalancer with a history variable that only the properties read.     *)
(* A change that meets a warm cache or a sync at work may leave the        *)
(* balancer with the wrong kind or with listeners too many (see            *)
(* EnsuredKindIsRight and EnsuredListenersMatch in the README); this is    *)
(* about the changes that meet neither.                                    *)
(***************************************************************************)
EXTENDS LoadBalancer

VARIABLE calm           \* did the last change of the Service come quietly?

\* Nobody is at work on the Service, and nothing of it is cached: the last
\* sync and the last node sync are at least 60 s ago.
Quiet ==
    /\ pc = "idle" /\ peer = {}
    /\ \A n \in Names : clbCache[n] = {}
    /\ \A i \in LbIds : listenerCache[i] = {}

Watch == calm' = IF svc' = svc THEN calm ELSE Quiet

CalmSpec     == Init /\ calm = TRUE /\ [][Next /\ Watch]_<<vars, calm>>
CalmFairSpec == CalmSpec /\ Fairness

-----------------------------------------------------------------------------
\* The only balancer there is, of the type, VPC and subnet the Service asks
\* for, with the listeners of its ports and no other; or none at all.
Exact ==
    /\ Reachable
    /\ svc.wanted => \A i \in LbIds : Alive(i) =>
          balancers[i].kind = svc.spec.kind /\ listeners[i] = svc.spec.ports

\* A Service that nobody has queued and that is not being synced has exactly
\* what it asks for, if its last change came quietly: nothing the syncs since
\* then cached, or read before a task they waited for, makes them leave a
\* balancer of the wrong kind or a listener too many
\* (ensureLoadBalancerInstance, ensureLoadBalancerListeners).
RestsExact == calm /\ pc = "idle" /\ ~queued => Exact

\* Once users stop, the queue drains and stays empty: the Service can be
\* reached on each of its ports, or its balancer is gone, for good, and it
\* has exactly what it asks for if the last change came quietly.
ConvergesExactly ==
    <>[](pc = "idle" /\ ~queued /\ Reachable /\ (calm => Exact))

-----------------------------------------------------------------------------
\* What carries the proof of RestsExact: how far the sync may have got with a
\* balancer that is not, or no longer, what the Service asks for.

Surplus(i)   == listeners[i] \ svc.spec.ports
WrongKind(i) == Alive(i) /\ balancers[i].kind # svc.spec.kind
Crowded(i)   == Alive(i) /\ Surplus(i) # {}

ListenerCalls == {"CreateListener", "DeleteListener"}

\* No other balancer is known, and each known list of its listeners has all
\* that are too many.
OnlyKnown(i) ==
    /\ \A n \in Names : clbCache[n] \subseteq {i}
    /\ peer \subseteq {i} /\ lb \subseteq {i}
    /\ \A known \in listenerCache[i] : Surplus(i) \subseteq known

\* The sync is not past the stage that puts it right.
ToBeRighted(i) ==
    /\ pc # "idle" \/ queued
    /\ pc \notin {"backends", "targets", "status", "ensured"}
    /\ pc = "apply" => Surplus(i) \subseteq toDelete
    /\ \A c \in task : c.call \in ListenerCalls =>
          Surplus(i) \subseteq toDelete \cup {c.port}
    /\ WrongKind(i) => /\ pc \notin {"listeners", "describe", "apply"}
                       /\ \A c \in task : c.call = "DeleteLoadBalancer"

\* What the worker is about to do to the listeners is what the Service wants.
ToThePoint == toCreate \subseteq svc.spec.ports /\ toDelete \cap svc.spec.ports = {}

\* So is the call it awaits, which is carried out once it has ended.
Pointed(c) ==
    /\ c.id \in lb /\ ToThePoint
    /\ c.call = "CreateListener" => c.port \in svc.spec.ports
    /\ c.call = "DeleteListener" =>
          c.port \notin svc.spec.ports /\ (c \in running \/ c.port \notin listeners[c.id])

\* The inductive invariant, with TypeOK, Consistent, NothingMissed and
\* CachedByName.
Attended ==
    /\ \A i \in LbIds : balancers[i] = Untouched => listeners[i] = {}
    /\ calm =>
          /\ pc # "idle" => snap = svc
          /\ pc = "apply" => ToThePoint
          /\ \A c \in task : c.call \in ListenerCalls => Pointed(c)
          /\ svc.wanted => \A i \in LbIds :
                WrongKind(i) \/ Crowded(i) => OnlyKnown(i) /\ ToBeRighted(i)
=============================================================================
