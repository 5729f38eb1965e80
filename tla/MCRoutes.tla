------------------------------ MODULE MCRoutes ------------------------------
(***************************************************************************)
(* The constants of the TLC runs of Routes.                                *)
(***************************************************************************)
EXTENDS Routes

\* A route of a neighbour, outside the CIDRs of the cluster.
OneForeign == {[node |-> "neighbour", cidr |-> "10.0.0.0/24"]}
=============================================================================
