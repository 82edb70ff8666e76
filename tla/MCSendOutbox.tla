---------------------------- MODULE MCSendOutbox ----------------------------
(* Small instances of SendOutbox: one room, one or two accounts. *)
EXTENDS SendOutbox

CONSTANTS r1, a1, a2

MCRooms == {r1}
MCAccounts == {a1}
MCTwoAccounts == {a1, a2}

=============================================================================
