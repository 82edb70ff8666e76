----------------------------- MODULE MCCallJoin -----------------------------
(* Small instances of CallJoin: a one-to-one room and a group room. *)
EXTENDS CallJoin

CONSTANTS pair, group

MCOneRoom == {pair}
MCRooms == {pair, group}
MCPairs == {pair}

(* Runs are followed up to the first excused cause, and with few requests  *)
(* at a time.                                                              *)
Few ==
  /\ seen = {}
  /\ Cardinality(posts) <= 2 /\ Cardinality(leaves) <= 1
  /\ Cardinality(todo) + Cardinality(posts) + Cardinality(leaves) <= 3

=============================================================================
