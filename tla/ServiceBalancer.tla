-------------------------- MODULE ServiceBalancer --------------------------
(***************************************************************************)
(* What Kubernetes may rely on when it leaves the balancer of a Service to *)
(* the provider, through EnsureLoadBalancer, GetLoadBalancer and           *)
(* EnsureLoadBalancerDeleted (pkg/tencentcloud/loadbalancer.go).  There is *)
(* one balancer or none; it is made for the Service a call was given; a    *)
(* call that returns nil has left one that serves each of its ports, or    *)
(* none, any other call is made again; and the finalizer only comes off    *)
(* where no balancer is left.  Of which type the balancer is, and whether  *)
(* it serves more, is not promised (README, section 4).                    *)
(* Module LoadBalancer is shown to keep this promise, with its API calls,  *)
(* tasks, caches and the node sync left out here.                          *)
(***************************************************************************)
EXTENDS Naturals

CONSTANT
    Reliable        \* is no accepted call ever lost sight of?

VARIABLES
    service,        \* the Service object: uid, wanted (a balancer), ports
    guarded,        \* does it carry the finalizer?
    queued,         \* is a call due?
    call,           \* the Service as the call under way was given it, or {}
    balancer,       \* {} or its one balancer: id, uid, up, ports
    used            \* ids of all balancers so far

vars == <<service, guarded, queued, call, balancer, used>>

Init ==
    /\ service.uid = 1 /\ guarded = FALSE /\ queued = TRUE
    /\ call = {} /\ balancer = {} /\ used = {}

\* Users edit the Service; it makes place for another one of its name when it
\* needs no balancer and the finalizer does not hold it.
ServiceChanges ==
    /\ \/ service'.uid = service.uid
       \/ service'.uid = service.uid + 1 /\ ~service.wanted /\ ~guarded
    /\ queued' = TRUE
    /\ UNCHANGED <<guarded, call, balancer, used>>

CallBegins ==
    /\ call = {} /\ queued
    /\ call' = {service} /\ queued' = FALSE
    /\ guarded' = (guarded \/ service.wanted)
    /\ UNCHANGED <<service, balancer, used>>

Unsettled == call' = {} /\ queued' = TRUE

\* The call has failed, or its process has: it will be made again.
CallFails == Unsettled /\ UNCHANGED <<service, guarded, balancer, used>>

\* A balancer is only made where there is none, and for the Service of the
\* call, which may fail for all that.
Create ==
    /\ \E s \in call, b \in balancer' :
          /\ s.wanted /\ balancer = {}
          /\ balancer' = {b} /\ b.uid = s.uid /\ ~b.up
          /\ b.id \notin used /\ used' = used \cup {b.id}
    /\ Unsettled \/ UNCHANGED <<call, queued>>
    /\ UNCHANGED <<service, guarded>>

\* Unless calls are lost sight of, a balancer changes only under a call for
\* its own Service.
UnderItsCall == Reliable => \E s \in call : \A b \in balancer : b.uid = s.uid

\* It comes up, or gets other listeners, and remains the one it is.
Serve ==
    /\ UnderItsCall
    /\ \E b \in balancer, c \in balancer' :
          balancer' = {c} /\ <<c.id, c.uid>> = <<b.id, b.uid>> /\ (b.up => c.up)
    /\ UNCHANGED <<service, guarded, queued, call, used>>

Remove ==
    /\ UnderItsCall
    /\ balancer # {} /\ balancer' = {}
    /\ UNCHANGED <<service, guarded, queued, call, used>>

\* EnsureLoadBalancer returns nil: every port is served by then.
Ensured ==
    /\ \E s \in call :
          /\ s.wanted
          /\ Reliable => \E b \in balancer : b.up /\ b.uid = s.uid /\ s.ports \subseteq b.ports
    /\ call' = {}
    /\ UNCHANGED <<service, guarded, queued, balancer, used>>

\* EnsureLoadBalancerDeleted returns nil, or GetLoadBalancer found nothing:
\* nothing is left, and the finalizer comes off.
Deleted ==
    /\ \E s \in call : ~s.wanted /\ guarded' = (guarded /\ service.uid # s.uid)
    /\ balancer = {}
    /\ call' = {}
    /\ UNCHANGED <<service, queued, balancer, used>>

Next ==
    \/ ServiceChanges
    \/ CallBegins \/ CallFails \/ Ensured \/ Deleted
    \/ Create \/ Serve \/ Remove

Spec == Init /\ [][Next]_vars
=============================================================================
