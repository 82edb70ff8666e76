--------------------------- MODULE MCMessagePoller ---------------------------
(* Small instances of MessagePoller. *)
EXTENDS MessagePoller

CONSTANTS r1, r2

MCRooms == {r1, r2}
MCSlots == 1..3

=============================================================================
