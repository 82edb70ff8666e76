------------------------------ MODULE CallJoin ------------------------------
(***************************************************************************)
(* Getting into a call and out of it again (src/core/CallManager.cpp and   *)
(* CallJoinPolicy.h).  One device, one user; the server is external.       *)
(*                                                                         *)
(* POST call/{token} may answer long before or after the server writes the *)
(* membership, or not at all, so the client works with what it can infer:  *)
(* a ledger of its join POSTs, the HPB's participants updates, a reconcile *)
(* GET, a leave at the end of every call and one more check when the       *)
(* server can no longer be holding a POST.  Every continuation (a reply, a *)
(* timer, a signal listener) is a record of `todo` or of `posts`, tagged   *)
(* with the call generation that created it, and may run at any moment.    *)
(*                                                                         *)
(* Bounds: MaxCalls calls, MaxFaults lost exchanges and session resets.      *)
(***************************************************************************)
EXTENDS Integers, FiniteSets

CONSTANTS Rooms,        \* conversation tokens
          NoRoom,
          Pairs,        \* the rooms whose calls are one-to-one
          MaxAttempts,  \* kMaxCallJoinAttempts
          MaxRejoins,   \* kMaxCallRoomRejoins
          MaxLeaves,    \* kMaxAttempts of ApiClient::delMustComplete
          MaxCalls,
          MaxFaults

ASSUME RoomsAssumption == NoRoom \notin Rooms /\ Pairs \subseteq Rooms
ASSUME LimitsAssumption == /\ MaxAttempts \in Nat /\ MaxRejoins \in Nat
                           /\ MaxLeaves \in Nat \ {0}
                           /\ MaxCalls \in Nat /\ MaxFaults \in Nat

VARIABLES
  call,    \* the members of CallManager that belong to the current call
  todo,    \* continuations waiting to run: listeners, timers, replies
  posts,   \* join POSTs, until answered and settled on the server
  leaves,  \* DELETE call/{token} requests not yet done
  sig,     \* the room of the signaling client and whether it is acknowledged
  listed,  \* the room in whose call the server lists this device's session
  hpb,     \* rooms with an undelivered "you are in the call" update
  faults,  \* failures used up
  seen     \* what happened that the properties excuse by name

vars == <<call, todo, posts, leaves, sig, listed, hpb, faults, seen>>

Phases == {"Idle", "Outgoing", "Incoming", "Connecting", "Active",
           "Reconnecting", "Ending"}
Live == {"Outgoing", "Connecting", "Active", "Reconnecting"}

NoCall == [gen |-> 0, phase |-> "Idle", room |-> NoRoom, outgoing |-> FALSE,
           posted |-> 0, flying |-> 0, unresolved |-> FALSE,
           confirmed |-> FALSE, attempts |-> 0, rejoins |-> 0,
           remote |-> "none"]

Todo(kind, gen, room) == [kind |-> kind, gen |-> gen, room |-> room]

-----------------------------------------------------------------------------
(* Decisions of the policy header. *)

IsStillJoining(c) == \/ c.phase \in {"Outgoing", "Connecting", "Incoming"}
                     \/ c.phase = "Reconnecting" /\ ~c.confirmed

(* A continuation of generation g still serves the call it was made for. *)
StillWanted(g) == g = call.gen /\ IsStillJoining(call)

(* ... or drops it although it is not in the call yet. *)
Drops(g) == g = call.gen /\ ~call.confirmed /\ ~IsStillJoining(call)
Noticed(g) == IF Drops(g) THEN seen \cup {"ignored"} ELSE seen

(* "This device is back in that call." *)
Rejoined(r) == call.room = r /\ call.phase \notin {"Idle", "Incoming"}

(* A new generation with an empty ledger. *)
Reset(c, outgoing) ==
  [c EXCEPT !.gen = @ + 1, !.outgoing = outgoing, !.posted = 0, !.flying = 0,
            !.unresolved = FALSE, !.confirmed = FALSE, !.rejoins = 0]

\* (fault) Counts the reply twice.
NotedTwice(c, status) ==
  [c EXCEPT !.flying = @ - 2, !.unresolved = @ \/ status = "transient"]

(* The ledger after the reply to one of the call's own POSTs. *)
Noted(c, status) ==
  [c EXCEPT !.flying = IF @ > 0 THEN @ - 1 ELSE 0,
            !.unresolved = @ \/ status = "transient"]

Confirmed(c) == [c EXCEPT !.confirmed = TRUE, !.attempts = 0]

NewPost(c, n, silent) == [gen |-> c.gen, room |-> c.room, n |-> n,
                          silent |-> silent, ans |-> FALSE,
                          srv |-> IF sig.room = c.room THEN "open" ELSE "no"]

(* k join POSTs sent in one go. *)
Sent(c, k) == [c EXCEPT !.posted = @ + k, !.flying = @ + k]
NewPosts(c, k) == {NewPost(c, c.posted + i, FALSE) : i \in 1 .. k}

-----------------------------------------------------------------------------
(* The end of a call. *)

\* (fault) Gates the leave on a confirmed join only.
LeaveOnlyIfJoined(c) ==
  IF c.confirmed /\ c.room # NoRoom
  THEN {[gen |-> c.gen, room |-> c.room, why |-> "end", left |-> MaxLeaves]}
  ELSE {}

PlanLeave(c) ==
  IF (c.confirmed \/ c.posted > 0) /\ c.room # NoRoom
  THEN {[gen |-> c.gen, room |-> c.room, why |-> "end", left |-> MaxLeaves]}
  ELSE {}

PlanCheck(c) ==
  IF (c.flying > 0 \/ c.unresolved) /\ c.room # NoRoom
  THEN {Todo("check", c.gen, c.room)}
  ELSE {}

(* Teardown of the call c, begun by a continuation of generation g; rest   *)
(* is what stays to do.                                                    *)
Teardown(c, g, rest) ==
  /\ call' = [Reset(c, FALSE) EXCEPT !.phase = "Idle", !.room = NoRoom,
                                     !.remote = "none"]
  /\ todo' = rest \cup PlanCheck(c)
  /\ leaves' = leaves \cup PlanLeave(c)
  /\ seen' = IF g # c.gen /\ c.phase # "Idle" THEN seen \cup {"foreign"} ELSE seen

-----------------------------------------------------------------------------
(* The room of the signaling client.  Entering or leaving a room gives the *)
(* device a new server session: what the old one held is gone.             *)

Retired(ps) == {[p EXCEPT !.srv = IF @ = "open" THEN "no" ELSE @] : p \in ps}
Settled(ps) == {p \in ps : ~(p.ans /\ p.srv # "open")}

MoveTo(r) ==
  /\ sig' = [room |-> r, acked |-> FALSE]
  /\ listed' = NoRoom
  /\ posts' = Settled(Retired(posts))

StayPut == UNCHANGED <<sig, listed, posts>>

(* restoreRoom of the 404 retry: back into the call's room unless there.   *)
RestoreRoom(r) == IF sig = [room |-> r, acked |-> TRUE] THEN StayPut ELSE MoveTo(r)

(* ensureSignalingRoomJoined, called with the members of the call in c.    *)
EnsureRoom(c) ==
  IF sig = [room |-> c.room, acked |-> TRUE]
  THEN /\ call' = Sent(c, 1)
       /\ posts' = posts \cup NewPosts(c, 1)
       /\ UNCHANGED <<todo, sig, listed>>
  ELSE /\ call' = c
       /\ todo' = todo \cup {Todo(IF c.outgoing THEN "waitOut" ELSE "waitIn", c.gen, c.room)}
       /\ \/ sig.room = c.room /\ StayPut      \* a join of it is in flight
          \/ MoveTo(c.room)

-----------------------------------------------------------------------------
(* The user and the other side. *)

Init ==
  /\ call = NoCall
  /\ todo = {} /\ posts = {} /\ leaves = {}
  /\ sig = [room |-> NoRoom, acked |-> FALSE]
  /\ listed = NoRoom /\ hpb = {}
  /\ faults = 0 /\ seen = {}

(* The HPB speaks of the room it has let the client into. *)
Hears(r) == sig = [room |-> r, acked |-> TRUE]

(* Causes that concern one call are forgotten when the next one begins. *)
Lasting == seen \cap {"giveUp", "skipped", "forgotten", "foreign", "declined"}

StartCall(r) ==
  /\ call.phase = "Idle" /\ call.gen < 2 * MaxCalls
  /\ EnsureRoom([Reset(call, TRUE) EXCEPT !.phase = "Outgoing", !.room = r,
                                          !.attempts = 0])
  /\ seen' = Lasting
  /\ UNCHANGED <<leaves, hpb, faults>>

(* detectIncomingCall ends in a ring.  A ring detected by the HPB knows the *)
(* caller's session, one detected by the conversation list does not.        *)
Ring(r, remote) ==
  /\ call.phase = "Idle" /\ call.gen < 2 * MaxCalls
  /\ remote = "here" => Hears(r)
  /\ call' = [call EXCEPT !.phase = "Incoming", !.room = r, !.remote = remote]
  /\ seen' = Lasting
  /\ UNCHANGED <<todo, posts, leaves, sig, listed, hpb, faults>>

AcceptCall ==
  /\ call.phase = "Incoming"
  /\ EnsureRoom([Reset(call, FALSE) EXCEPT !.phase = "Connecting", !.attempts = 0,
                   !.remote = IF @ = "grace" THEN "none" ELSE @])
  /\ seen' = IF call.posted > 0 THEN seen \cup {"forgotten"} ELSE seen
  /\ UNCHANGED <<leaves, hpb, faults>>

(* The room is left by a DELETE; its reply tears the call down. *)
DeclineCall ==
  /\ call.phase = "Incoming"
  /\ call' = [call EXCEPT !.phase = "Ending"]
  /\ leaves' = IF call.confirmed
               THEN leaves \cup {[gen |-> call.gen, room |-> call.room,
                                  why |-> "decline", left |-> 1]}
               ELSE leaves
  /\ todo' = todo \cup {Todo("declined", call.gen, call.room)}
  /\ UNCHANGED <<posts, sig, listed, hpb, faults, seen>>

(* Hang-up, the peer's hang-up hint, the ring timeout and the peer-grace   *)
(* timeout all end the call they belong to.                                *)
EndCall ==
  /\ call.phase # "Idle"
  /\ Teardown(call, call.gen, todo)
  /\ UNCHANGED <<posts, sig, listed, hpb, faults>>

(* onParticipantJoinedCall adopts the peer of a call that has none, or     *)
(* takes the one that went missing back.                                   *)
PeerJoins ==
  /\ Hears(call.room)
  /\ call.phase \in {"Outgoing", "Connecting"} /\ call.remote = "none"
  /\ call' = [call EXCEPT !.remote = "here", !.phase = "Connecting"]
  /\ UNCHANGED <<todo, posts, leaves, sig, listed, hpb, faults, seen>>

(* The publisher's recovery is not modelled here: it may be running or not. *)
PeerReturns ==
  /\ Hears(call.room) /\ call.remote = "grace"
  /\ \E recovering \in BOOLEAN :
       call' = [call EXCEPT !.remote = "here",
                  !.phase = IF @ = "Reconnecting" /\ ~recovering THEN "Active" ELSE @]
  /\ UNCHANGED <<todo, posts, leaves, sig, listed, hpb, faults, seen>>

PeerLeaves ==
  /\ Hears(call.room) /\ call.remote = "here"
  /\ IF call.room \in Pairs
     THEN /\ call' = [call EXCEPT !.remote = "grace",
                        !.phase = IF @ \in {"Active", "Connecting"}
                                  THEN "Reconnecting" ELSE @]
          /\ UNCHANGED <<todo, leaves, seen>>
     ELSE Teardown(call, call.gen, todo)
  /\ UNCHANGED <<posts, sig, listed, hpb, faults>>

(* The publisher, built once the join is confirmed, connects or fails. *)
MediaUp ==
  /\ call.confirmed
  /\ \/ call.phase = "Connecting"
     \/ call.phase = "Reconnecting" /\ call.remote # "grace"
  /\ call' = [call EXCEPT !.phase = "Active"]
  /\ UNCHANGED <<todo, posts, leaves, sig, listed, hpb, faults, seen>>

MediaDown ==
  /\ call.confirmed /\ call.phase \in {"Active", "Connecting"}
  /\ call' = [call EXCEPT !.phase = "Reconnecting"]
  /\ UNCHANGED <<todo, posts, leaves, sig, listed, hpb, faults, seen>>

\* (fault) Does not register while the media is not up yet.
MediaPhases == {"Active", "Reconnecting"}

RegisterPhases == {"Connecting", "Active", "Reconnecting"}

(* The signaling session was replaced.  SignalingClient re-enters its room  *)
(* and the call registers the new session with one silent POST.             *)
SessionReset ==
  /\ faults < MaxFaults /\ faults' = faults + 1
  /\ sig.room # NoRoom
  /\ sig' = [sig EXCEPT !.acked = FALSE] /\ listed' = NoRoom
  /\ IF call.phase \in RegisterPhases
     THEN /\ call' = [Sent(call, 1) EXCEPT !.phase = "Reconnecting"]
          /\ posts' = Settled(Retired(posts))
                        \cup {NewPost(call, call.posted + 1, TRUE)}
     ELSE posts' = Settled(Retired(posts)) /\ UNCHANGED call
  /\ seen' = IF call.phase = "Outgoing" THEN seen \cup {"resetRinging"} ELSE seen
  /\ UNCHANGED <<todo, leaves, hpb>>

-----------------------------------------------------------------------------
(* Joining the room before the call. *)

\* (fault) Forgets that accepting has already left the ringing phase.
FiresRinging(w) ==
  \/ w.kind = "waitOut" /\ call.phase \in {"Outgoing", "Connecting"}
  \/ w.kind = "waitIn" /\ call.phase = "Incoming"
  \/ w.kind = "rejoining" /\ StillWanted(w.gen)

(* roomJoined: listeners of the first join look at the phase only, the one *)
(* of the 404 retry at its generation too.                                 *)
Fires(w) ==
  \/ w.kind = "waitOut" /\ call.phase \in {"Outgoing", "Connecting"}
  \/ w.kind = "waitIn" /\ call.phase \in {"Incoming", "Connecting"}
  \/ w.kind = "rejoining" /\ StillWanted(w.gen)

Listeners == {w \in todo : w.kind \in {"waitOut", "waitIn", "rejoining"}}

RoomAcked ==
  /\ sig.room # NoRoom /\ ~sig.acked
  /\ sig' = [sig EXCEPT !.acked = TRUE]
  /\ LET k == Cardinality({w \in Listeners : Fires(w)})
     IN  /\ call' = Sent(call, k)
         /\ posts' = posts \cup NewPosts(call, k)
  /\ todo' = todo \ Listeners
  /\ seen' = seen \cup (UNION {Noticed(w.gen) : w \in Listeners})
                  \cup IF call.phase = "Reconnecting"
                          /\ \E w \in Listeners : w.kind # "rejoining" /\ w.gen = call.gen
                       THEN {"noRoom"} ELSE {}
  /\ UNCHANGED <<leaves, listed, hpb, faults>>

(* The listener of the first join gives up after 15 s, and says nothing. *)
WaitTimeout(w) ==
  /\ w \in todo /\ w.kind \in {"waitOut", "waitIn"}
  /\ todo' = todo \ {w}
  /\ seen' = IF w.gen = call.gen THEN seen \cup {"noRoom"} ELSE seen
  /\ UNCHANGED <<call, posts, leaves, sig, listed, hpb, faults>>

(* The retry moves the socket while a call is on: out of the room of another *)
(* call, or out of its own with a join POST under way or a join confirmed.   *)
Disturbed(w) ==
  Noticed(w.gen) \cup
    IF call.phase \notin Live THEN {}
    ELSE IF call.room # w.room
         THEN IF sig.room = call.room THEN {"stolen"} ELSE {}
         ELSE IF call.flying > 0 \/ call.confirmed THEN {"leftRoom"} ELSE {}

(* The 404 retry, first step: the conversation list is back. *)
RejoinListed(w) ==
  /\ w \in todo /\ w.kind = "list"
  /\ IF StillWanted(w.gen)
     THEN /\ todo' = (todo \ {w}) \cup {Todo("leaving", w.gen, w.room)}
          /\ sig' = [sig EXCEPT !.acked = FALSE] /\ listed' = NoRoom
          /\ posts' = Settled(Retired(posts))
     ELSE todo' = todo \ {w} /\ StayPut
  /\ seen' = Disturbed(w)
  /\ UNCHANGED <<call, leaves, hpb, faults>>

(* Second step: the leave is acknowledged, or 3 s are over. *)
RejoinProceeds(w) ==
  /\ w \in todo /\ w.kind = "leaving"
  /\ IF StillWanted(w.gen)
     THEN /\ todo' = (todo \ {w}) \cup {Todo("rejoining", w.gen, w.room)}
          /\ MoveTo(w.room)
     ELSE todo' = todo \ {w} /\ RestoreRoom(w.room)
  /\ seen' = Disturbed(w)
  /\ UNCHANGED <<call, leaves, hpb, faults>>

(* The retry's join is refused, or 15 s are over: the room is restored and  *)
(* the join fails with the 404.                                             *)
RejoinFails(w) ==
  /\ w \in todo /\ w.kind \in {"list", "leaving", "rejoining"}
  /\ faults < MaxFaults /\ faults' = faults + 1
  /\ IF w.kind = "list" THEN StayPut ELSE RestoreRoom(w.room)
  /\ IF StillWanted(w.gen)
     THEN Teardown([call EXCEPT !.attempts = 0], w.gen, todo \ {w})
     ELSE /\ todo' = todo \ {w} /\ UNCHANGED <<call, leaves>>
          /\ seen' = Disturbed(w)
  /\ UNCHANGED hpb

-----------------------------------------------------------------------------
(* The replies to join POSTs. *)

\* (fault) Asks only whether a call is on.
LateIfIdle(g) == call.phase = "Idle"

Late(g) == g # call.gen

(* A reply whose call has ended: leave once more if the POST may have been  *)
(* written, unless the device is back in that call.                         *)
LateReply(p, status) ==
  /\ IF status \in {"ok", "transient"} /\ ~Rejoined(p.room)
     THEN leaves' = leaves \cup {[gen |-> p.gen, room |-> p.room,
                                  why |-> "late", left |-> 1]}
     ELSE UNCHANGED leaves
  /\ seen' = IF status = "transient" /\ Rejoined(p.room) THEN seen \cup {"skipped"} ELSE seen
  /\ UNCHANGED <<call, todo>>

(* Ask the server before posting again. *)
Ask(c) ==
  /\ call' = [c EXCEPT !.attempts = @ + 1]
  /\ todo' = todo \cup {Todo("ask", c.gen, c.room)}
  /\ UNCHANGED <<leaves, seen>>

(* decideJoinFailure, and what onCallJoinPostResult does about it. *)
JoinFailed(p, c, status) ==
  \/ /\ c.confirmed /\ status = "transient"
     /\ call' = c /\ UNCHANGED <<todo, leaves, seen>>
  \/ /\ c.confirmed /\ status # "transient"
     /\ call' = c /\ todo' = todo \cup {Todo("verify", c.gen, c.room)}
     /\ UNCHANGED <<leaves, seen>>
  \/ /\ ~c.confirmed /\ ~IsStillJoining(c)
     /\ call' = c /\ seen' = seen \cup {"ignored"}
     /\ UNCHANGED <<todo, leaves>>
  \/ /\ ~c.confirmed /\ IsStillJoining(c)
     /\ status = "transient" /\ c.attempts < MaxAttempts
     /\ Ask(c)
  \/ /\ ~c.confirmed /\ IsStillJoining(c)
     /\ status = "notFound" /\ c.rejoins < MaxRejoins
     /\ call' = [c EXCEPT !.rejoins = @ + 1]
     /\ todo' = todo \cup {Todo("list", c.gen, c.room)}
     /\ UNCHANGED <<leaves, seen>>
  \/ /\ ~c.confirmed /\ IsStillJoining(c)
     /\ ~(status = "transient" /\ c.attempts < MaxAttempts)
     /\ ~(status = "notFound" /\ c.rejoins < MaxRejoins)
     /\ Teardown([c EXCEPT !.attempts = 0], p.gen, todo)

OwnReply(p, status) ==
  LET c == Noted(call, status)
  IN  \/ /\ status = "ok"
         /\ call' = Confirmed(c) /\ UNCHANGED <<todo, leaves, seen>>
      \/ /\ status # "ok" /\ p.silent        \* the register POST of a reset
         /\ call' = c /\ seen' = seen \cup {"unregistered"}
         /\ UNCHANGED <<todo, leaves>>
      \/ /\ status # "ok" /\ ~p.silent
         /\ JoinFailed(p, c, status)

(* "transient" is no answer at all or a 5xx: the write may have happened,  *)
(* or happen yet.  Another 4xx excludes it; a 404 says that the session is *)
(* in no room, and so excludes the other POSTs of the session too.         *)
Answered(p, status) ==
  /\ p \in posts /\ ~p.ans
  /\ \/ status = "ok" /\ p.srv = "in"
     \/ status = "transient"
     \/ status = "refused" /\ p.srv # "in"
     \/ status = "notFound" /\ p.srv # "in" /\ listed # p.room
  /\ IF status # "transient" THEN UNCHANGED faults
     ELSE faults < MaxFaults /\ faults' = faults + 1
  /\ LET others == posts \ {p}
     IN  posts' = Settled(
           (IF status = "notFound" THEN {q \in others : q.room # p.room} \cup
                 Retired({q \in others : q.room = p.room}) ELSE others) \cup
           {[p EXCEPT !.ans = TRUE,
                      !.srv = IF status \in {"notFound", "refused"} THEN "no" ELSE @]})
  /\ IF Late(p.gen) THEN LateReply(p, status) ELSE OwnReply(p, status)
  /\ UNCHANGED <<sig, listed, hpb>>

-----------------------------------------------------------------------------
(* The reconcile GET, the re-POST and the late-commit check. *)

(* Rows carry Nextcloud sessions, mapped by what the room told us. *)
SelfListed(r) == listed = r /\ sig.room = r

(* GET call/{token}.  others says what its rows show of the other side, and *)
(* known whether the HPB has said anything of this room since it was joined. *)
Reconciled(w, ok, others, known) ==
  /\ w \in todo /\ w.kind = "ask"
  /\ IF ok THEN UNCHANGED faults ELSE faults < MaxFaults /\ faults' = faults + 1
  /\ IF w.gen # call.gen
     THEN todo' = todo \ {w} /\ UNCHANGED <<call, leaves, seen>>
     ELSE \/ /\ call.confirmed \/ (ok /\ SelfListed(w.room))
             /\ call' = Confirmed(call) /\ todo' = todo \ {w}
             /\ UNCHANGED <<leaves, seen>>
          \/ /\ ~call.confirmed /\ ~(ok /\ SelfListed(w.room))
             /\ ok /\ ~call.outgoing /\ ~others
             /\ known /\ Hears(w.room)
             /\ call.remote # "here"
             /\ Teardown(call, w.gen, todo \ {w})
          \/ /\ ~call.confirmed /\ ~(ok /\ SelfListed(w.room))
             /\ \/ ~ok \/ call.outgoing \/ others \/ ~known
                \/ ~Hears(w.room)
                \/ call.remote = "here"
             /\ todo' = (todo \ {w}) \cup {Todo("repost", w.gen, w.room)}
             /\ UNCHANGED <<call, leaves, seen>>
  /\ UNCHANGED <<posts, sig, listed, hpb>>

(* The same GET after a 4xx that followed a confirmation. *)
Verified(w, ok) ==
  /\ w \in todo /\ w.kind = "verify"
  /\ IF ok THEN UNCHANGED faults ELSE faults < MaxFaults /\ faults' = faults + 1
  /\ IF w.gen = call.gen /\ ok /\ ~SelfListed(w.room)
     THEN Teardown([call EXCEPT !.attempts = 0], w.gen, todo \ {w})
     ELSE todo' = todo \ {w} /\ UNCHANGED <<call, leaves, seen>>
  /\ UNCHANGED <<posts, sig, listed, hpb>>

Repost(w) ==
  /\ w \in todo /\ w.kind = "repost"
  /\ todo' = todo \ {w}
  /\ IF w.gen = call.gen /\ ~call.confirmed /\ IsStillJoining(call)
     THEN call' = Sent(call, 1) /\ posts' = posts \cup NewPosts(call, 1)
     ELSE UNCHANGED <<call, posts>>
  /\ seen' = Noticed(w.gen)
  /\ UNCHANGED <<leaves, sig, listed, hpb, faults>>

(* 95 s after the last POST of the ended call: none is held any more. *)
HoldIsOver(g) == \A p \in posts : p.gen = g => p.srv # "open"

Checked(w, ok) ==
  /\ w \in todo /\ w.kind = "check" /\ HoldIsOver(w.gen)
  /\ IF ok THEN UNCHANGED faults ELSE faults < MaxFaults /\ faults' = faults + 1
  /\ IF Rejoined(w.room)
     THEN /\ UNCHANGED leaves
          /\ seen' = IF call.posted = 0 THEN seen \cup {"skipped"} ELSE seen
     ELSE /\ leaves' = IF ~ok \/ SelfListed(w.room)
                       THEN leaves \cup {[gen |-> w.gen, room |-> w.room,
                                          why |-> "check", left |-> MaxLeaves]}
                       ELSE leaves
          /\ UNCHANGED seen
  /\ todo' = todo \ {w}
  /\ UNCHANGED <<call, posts, sig, listed, hpb>>

(* The reply to the DELETE of a declined ring, which took the session out of *)
(* the room, ends whatever call there is.                                    *)
DeclineAnswered(w) ==
  /\ w \in todo /\ w.kind = "declined"
  /\ call' = [Reset(call, FALSE) EXCEPT !.phase = "Idle", !.room = NoRoom, !.remote = "none"]
  /\ todo' = (todo \ {w}) \cup PlanCheck(call)
  /\ leaves' = leaves \cup PlanLeave(call)
  /\ listed' = IF listed = w.room THEN NoRoom ELSE listed
  /\ posts' = Settled({p \in posts : p.room # w.room} \cup
                       Retired({p \in posts : p.room = w.room}))
  /\ seen' = IF w.gen # call.gen /\ call.phase # "Idle" THEN seen \cup {"declined"} ELSE seen
  /\ UNCHANGED <<sig, hpb, faults>>

(* The HPB lists this session in the call of the room it is in. *)
SelfInCall(r) ==
  /\ r \in hpb /\ hpb' = hpb \ {r}
  /\ IF call.posted > 0 /\ r = call.room /\ call.phase \in Live
     THEN /\ call' = Confirmed(call)
          /\ seen' = IF listed # r THEN seen \cup {"staleUpdate"} ELSE seen
     ELSE UNCHANGED <<call, seen>>
  /\ UNCHANGED <<todo, posts, leaves, sig, listed, faults>>

-----------------------------------------------------------------------------
(* The server. *)

(* It writes the membership of a POST, or gives the POST up. *)
Commit(p) ==
  /\ p \in posts /\ p.srv = "open"
  /\ posts' = Settled((posts \ {p}) \cup {[p EXCEPT !.srv = "in"]})
  /\ listed' = p.room /\ hpb' = hpb \cup {p.room}
  /\ UNCHANGED <<call, todo, leaves, sig, faults, seen>>

GiveUp(p) ==
  /\ p \in posts /\ p.srv = "open"
  /\ posts' = Settled((posts \ {p}) \cup {[p EXCEPT !.srv = "no"]})
  /\ UNCHANGED <<call, todo, leaves, sig, listed, hpb, faults, seen>>

HitsNewCall(l) == l.room = call.room /\ l.gen # call.gen /\ call.phase \in Live

(* DELETE call/{token}: done, done without the reply getting back, or not. *)
LeaveDone(l) ==
  /\ l \in leaves /\ leaves' = leaves \ {l}
  /\ listed' = IF listed = l.room THEN NoRoom ELSE listed
  /\ seen' = IF HitsNewCall(l) THEN seen \cup {"oldLeave"} ELSE seen
  /\ UNCHANGED <<call, todo, posts, sig, hpb, faults>>

LeaveLost(l, done) ==
  /\ l \in leaves /\ faults < MaxFaults /\ faults' = faults + 1
  /\ leaves' = (leaves \ {l}) \cup
       IF l.left > 1 THEN {[l EXCEPT !.left = @ - 1]} ELSE {}
  /\ listed' = IF done /\ listed = l.room THEN NoRoom ELSE listed
  /\ seen' = seen \cup (IF done /\ HitsNewCall(l) THEN {"oldLeave"} ELSE {})
                  \cup (IF ~done /\ l.left = 1 THEN {"giveUp"} ELSE {})
  /\ UNCHANGED <<call, todo, posts, sig, hpb>>

-----------------------------------------------------------------------------
Next ==
  \/ \E r \in Rooms : StartCall(r) \/ SelfInCall(r)
  \/ \E r \in Rooms : \E remote \in {"none", "here"} : Ring(r, remote)
  \/ AcceptCall \/ DeclineCall \/ EndCall
  \/ PeerJoins \/ PeerReturns \/ PeerLeaves \/ MediaUp \/ MediaDown
  \/ SessionReset \/ RoomAcked
  \/ \E w \in todo : \/ WaitTimeout(w) \/ RejoinListed(w) \/ RejoinProceeds(w)
                     \/ RejoinFails(w) \/ Repost(w) \/ DeclineAnswered(w)
                     \/ \E ok \in BOOLEAN : Verified(w, ok) \/ Checked(w, ok)
                     \/ \E ok, others, known \in BOOLEAN : Reconciled(w, ok, others, known)
  \/ \E p \in posts : \/ Commit(p) \/ GiveUp(p)
                      \/ \E status \in {"ok", "transient", "notFound", "refused"} :
                           Answered(p, status)
  \/ \E l \in leaves : LeaveDone(l) \/ \E done \in BOOLEAN : LeaveLost(l, done)

Spec == Init /\ [][Next]_vars

-----------------------------------------------------------------------------
(* Properties. *)

TodoKinds == {"waitOut", "waitIn", "list", "leaving", "rejoining", "ask",
              "verify", "repost", "check", "declined"}

(* The call's members, its continuations and requests have their types. *)
TypeOK ==
  /\ call \in [gen : Nat, phase : Phases, room : Rooms \cup {NoRoom},
               outgoing : BOOLEAN, posted : Nat, flying : Nat,
               unresolved : BOOLEAN, confirmed : BOOLEAN, attempts : Nat,
               rejoins : Nat, remote : {"none", "here", "grace"}]
  /\ todo \subseteq [kind : TodoKinds, gen : Nat, room : Rooms \cup {NoRoom}]
  /\ posts \subseteq [gen : Nat, room : Rooms \cup {NoRoom}, n : Nat, silent : BOOLEAN,
                      srv : {"open", "in", "no"}, ans : BOOLEAN]
  /\ leaves \subseteq [gen : Nat, room : Rooms, why : {"end", "late", "check", "decline"}, left : Nat]
  /\ sig \in [room : Rooms \cup {NoRoom}, acked : BOOLEAN]
  /\ listed \in Rooms \cup {NoRoom} /\ hpb \subseteq Rooms \cup {NoRoom}
  /\ faults \in 0 .. MaxFaults

(* What will still take the device out of the call of a room. *)
Undoing(r) == \/ \E l \in leaves : l.room = r
              \/ \E w \in todo : w.kind = "check" /\ w.room = r

(* No ghost member: the server never goes on listing the device in a call  *)
(* other than the present one, which has posted a join, whatever POST was  *)
(* written late, unless a leave or the late-commit check to come undoes it. *)
(* Excused: all retries of a leave were lost; the check or a late reply    *)
(* stood back for a new call of the same room that then posted nothing or  *)
(* failed; a ring that had been joined (NoJoinWhileRinging) was accepted.  *)
NoGhost ==
  listed # NoRoom /\ ~(call.room = listed /\ call.phase # "Idle" /\ call.posted > 0)
    => Undoing(listed) \/ seen \cap {"giveUp", "skipped", "forgotten"} # {}

(* A call the user takes for joined is one the server lists, or one that   *)
(* registers the session that replaced its own.  Excused: an old leave hit *)
(* the new call of its room; the confirming update was about an earlier    *)
(* membership; the 404 retry of this or another call moved the socket; the *)
(* session was replaced while the call rang out; registering the new       *)
(* session failed.                                                         *)
ConfirmedIsListed ==
  call.phase \in Live /\ call.confirmed
    => \/ listed = call.room
       \/ \E p \in posts : p.gen = call.gen /\ p.silent /\ ~p.ans /\ p.srv # "in"
       \/ seen \cap {"oldLeave", "staleUpdate", "stolen", "leftRoom",
                     "resetRinging", "unregistered"} # {}

(* A call is never stuck in "Connecting": while it is not confirmed, the   *)
(* reply to a join POST of its own, or another step of its own joining, is *)
(* still to come.  Excused: the room was not acknowledged while the phase  *)
(* allowed a POST; a failure was ignored because the returning peer had    *)
(* made the call Active.                                                   *)
JoinHasANextStep ==
  call.phase \in Live /\ ~call.confirmed
    => \/ \E w \in todo : w.gen = call.gen /\ w.kind # "verify"
       \/ \E p \in posts : p.gen = call.gen /\ ~p.silent /\ ~p.ans
       \/ seen \cap {"noRoom", "ignored"} # {}

(* No reply, timer or listener of an earlier call ends the present one; the *)
(* reply to the DELETE of a declined ring is not covered: it does.          *)
NoForeignEnd == "foreign" \notin seen

(* A call that only rings is not joined: acceptCall's listener, left over  *)
(* from a call hung up while its room was being joined, must not post for  *)
(* the next one ("call may have been hung up while waiting for room join", *)
(* CallManager.cpp 3599).                                                  *)
NoJoinWhileRinging == call.phase = "Incoming" => call.posted = 0

=============================================================================
