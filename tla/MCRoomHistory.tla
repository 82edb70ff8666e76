---------------------------- MODULE MCRoomHistory ----------------------------
(* Small instances of RoomHistory. *)
EXTENDS RoomHistory

CONSTANTS r1, r2

MCRooms == {r1, r2}
MCOneRoom == {r1}
MCPlain == {"plain"}
MCAll == AllKinds
MCControl == {"plain", "control"}
MCHidden == {"plain", "hidden"}

=============================================================================
