-------------------------- MODULE MCUpdateInstall --------------------------
(* A small instance of UpdateInstall: an offer and a newer one. *)
EXTENDS UpdateInstall, TLC

CONSTANTS v1, v2

MCVersions == {v1, v2}
Symmetry == Permutations(MCVersions)

=============================================================================
