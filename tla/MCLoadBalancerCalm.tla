------------------------- MODULE MCLoadBalancerCalm -------------------------
(***************************************************************************)
(* The same constants for the TLC runs of LoadBalancerCalm.                *)
(***************************************************************************)
EXTENDS MCLoadBalancer, LoadBalancerCalm
=============================================================================
