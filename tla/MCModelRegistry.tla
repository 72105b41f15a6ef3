-------------------------- MODULE MCModelRegistry --------------------------
(* A registry of two live paths and two clients, at the smallest cap at    *)
(* which a sweep has both a version to keep and one to delete.             *)
EXTENDS ModelRegistry, TLC

CONSTANTS c1, c2

MCClients == {c1, c2}
Symmetry == Permutations(MCClients)
=============================================================================
