-------------------------- MODULE MCSignalingSession --------------------------
(* Small instances of SignalingSession. *)
EXTENDS SignalingSession, TLC

CONSTANTS r1, r2

MCRooms == {r1, r2}
MCSessions == {1}
MCSlots == 1..2
Symmetry == Permutations(MCRooms)

=============================================================================
