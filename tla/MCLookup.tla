------------------------------ MODULE MCLookup ------------------------------
(***************************************************************************)
(* The clouds of the TLC run of Lookup.                                    *)
(***************************************************************************)
EXTENDS Lookup

At_(as)    == [addresses |-> as, inVpc |-> TRUE]
Other_(as) == [addresses |-> as, inVpc |-> FALSE]

\* A machine with two addresses, neighbours in the order; the same addresses
\* in another VPC; addresses without machine, at both ends and in between.
SomeClouds == {{At_({2, 7}), At_({3}), Other_({3}), At_({8})},
               {At_({1}), At_({5}), At_({6, 9}), Other_({7, 8})},
               {}}
=============================================================================
