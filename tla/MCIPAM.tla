------------------------------- MODULE MCIPAM -------------------------------
(* Instances of IPAM for TLC                                                *)
EXTENDS IPAM, TLC
CONSTANTS n1, n2

OneNamespace == [n \in Names |-> "ns1"]
Symmetry == Permutations(Names)
=============================================================================
