----------------------------- MODULE PollStream -----------------------------
(***************************************************************************)
(* What a room view may expect of the long-poll: while it is live, the     *)
(* messages of its room arrive in order of id, none left out and none      *)
(* twice, from the id it was started at.  There is one way to lose some:   *)
(* an answer is thrown away half read and the cursor stays past it.        *)
(***************************************************************************)
EXTENDS Integers

CONSTANTS StreamRooms, NoStream

VARIABLES
    live,     \* the stream is running
    room,     \* its room
    cursor,   \* everything up to here was handed out, or is not asked for
    lost,     \* messages passed over by a half-read answer
    handed,   \* messages handed out since the start
    written   \* newest message per room

stream == <<live, room, cursor, lost, handed, written>>

StreamInit ==
    /\ ~live /\ room = NoStream /\ cursor = 0
    /\ lost = {} /\ handed = {}
    /\ written = [r \in StreamRooms |-> 0]

\* A restart in the same room never goes back behind the cursor.
Open(r, from) ==
    /\ live' = TRUE /\ room' = r /\ cursor' = from
    /\ room = r => from >= cursor
    /\ lost' = {} /\ handed' = {}
    /\ UNCHANGED written

Close == /\ live' = FALSE /\ UNCHANGED <<room, cursor, lost, handed, written>>

HandOut(upto) ==
    /\ live /\ upto \in cursor + 1 .. written[room]
    /\ cursor' = upto /\ handed' = handed \cup (cursor + 1 .. upto)
    /\ UNCHANGED <<live, room, lost, written>>

PassOver(upto) ==
    /\ live /\ upto \in cursor + 1 .. written[room]
    /\ cursor' = upto /\ lost' = lost \cup (cursor + 1 .. upto)
    /\ UNCHANGED <<live, room, handed, written>>

Written(r) ==
    /\ written' = [written EXCEPT ![r] = @ + 1]
    /\ UNCHANGED <<live, room, cursor, lost, handed>>

StreamNext ==
    \/ \E r \in StreamRooms : Written(r) \/ \E from \in 1..written[r] : Open(r, from)
    \/ Close
    \/ room # NoStream /\ \E upto \in cursor + 1 .. written[room] :
                              HandOut(upto) \/ PassOver(upto)

StreamSpec == StreamInit /\ [][StreamNext]_stream

=============================================================================
