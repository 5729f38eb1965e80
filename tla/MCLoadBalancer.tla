--------------------------- MODULE MCLoadBalancer ---------------------------
(***************************************************************************)
(* Constants of the TLC runs of LoadBalancer.                              *)
(***************************************************************************)
EXTENDS LoadBalancer

Spec_(k, p, a) == [kind |-> k, ports |-> p, affinity |-> a]

\* Two kinds and two port sets.
TwoKinds == {Spec_("public", {"http"}, FALSE), Spec_("private", {"http", "https"}, FALSE)}

\* A second port set of one kind.
TwoPorts == TwoKinds \cup {Spec_("public", {"https"}, FALSE)}

\* With specs the provider refuses: session affinity, and a private balancer
\* without a subnet.
WithRefused == TwoKinds \cup {Spec_("public", {"https"}, TRUE),
                              Spec_("subnetless", {"http"}, FALSE)}
=============================================================================
