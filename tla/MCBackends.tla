----------------------------- MODULE MCBackends -----------------------------
(***************************************************************************)
(* The TLC instances of Backends for safety.                               *)
(***************************************************************************)
EXTENDS Backends, TLC

\* Nodes are interchangeable, so are ports, so are node ports.
Symmetry == Permutations(Nodes) \cup Permutations(Ports) \cup Permutations(NodePorts)
=============================================================================
