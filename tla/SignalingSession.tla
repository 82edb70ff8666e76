--------------------------- MODULE SignalingSession ---------------------------
(***************************************************************************)
(* The client's session with the signaling server                          *)
(* (src/core/SignalingClient.cpp): connect, hello, resume, joining and     *)
(* leaving rooms, drops and reconnects.                                     *)
(*                                                                         *)
(* A room is joined in two steps over two channels: a POST mints a         *)
(* Nextcloud session (and retires the one before), then a frame on the     *)
(* socket binds it.  Replies of POSTs outlive the socket, the room and the *)
(* session they were meant for.                                            *)
(*                                                                         *)
(* The cluster of signaling servers is one server.  A session is a number  *)
(* that is used again once nobody knows it.  `live' says that a Nextcloud  *)
(* session is the one minted last.                                         *)
(***************************************************************************)
EXTENDS Integers, Sequences, FiniteSets

CONSTANTS
    Rooms,      \* conversations
    NoRoom,
    Sessions,   \* numbers of sessions the server can keep at once
    Slots,      \* bound: join POSTs that are not done with
    MaxFrames,  \* bound: frames of the client the server has not read
    MaxCommands,\* bound: joins and leaves asked by the user and by calls
    MaxMoves    \* bound: moves by the server

ASSUME SessionAssumption ==
    /\ NoRoom \notin Rooms
    /\ Sessions \subseteq Nat \ {0} /\ Slots \subseteq Nat /\ MaxFrames \in Nat
    /\ MaxCommands \in Nat /\ MaxMoves \in Nat

VARIABLES
    sock,      \* m_ws
    auth,      \* m_authenticated
    resume,    \* m_resumeId, m_resuming, m_fastResumePending, m_resumeViaSettings
    next,      \* what leads to the next connect: m_reconnectTimer, settings fetch
    room,      \* m_currentRoom and what is known of its join
    post,      \* the POSTs participants/active
    up, down,  \* frames under way on the socket
    alive,     \* server: sessions it keeps
    attached,  \* server: the session of the socket, or NoSession
    member,    \* server: the room each session is in
    ticketed,  \* history: this connect follows a settings fetch
    excused,   \* history: something has happened that may leave the room unjoined
    left       \* bounds: commands and moves that may still come

connection == <<sock, auth, resume, next, ticketed>>
server == <<alive, attached, member>>
vars == <<connection, room, post, up, down, server, excused, left>>

NoSession == 0
Free == [to |-> NoRoom, phase |-> "free", live |-> FALSE, last |-> FALSE]

RoomFrame(r, live) == [type |-> "room", to |-> r, live |-> live]
HelloFrame(s) == [type |-> "hello", session |-> s]
ErrorFrame == [type |-> "error"]
JoinedFrame(r, moved) == [type |-> "room", to |-> r, moved |-> moved]
WelcomeFrame == [type |-> "welcome"]

TypeOK ==
    /\ sock \in {"closed", "connecting", "open", "closing"}
    /\ auth \in BOOLEAN
    /\ auth => sock \in {"open", "closing"}
    /\ resume \in [id : Sessions \cup {NoSession}, asked : BOOLEAN, fast : BOOLEAN,
                   viaSettings : BOOLEAN]
    /\ next \in {"none", "timer", "settings"}
    /\ room \in [want : Rooms \cup {NoRoom}, acked : BOOLEAN,
                 pending : {"none", "young", "old"}, waiting : BOOLEAN,
                 leaving : BOOLEAN, snapshot : Rooms \cup {NoRoom}]
    /\ post \in [Slots -> [to : Rooms \cup {NoRoom}, live : BOOLEAN, last : BOOLEAN,
                           phase : {"free", "sent", "minted", "orphan"}]]
    /\ attached \in alive \cup {NoSession} /\ alive \subseteq Sessions
    /\ member \in [Sessions -> Rooms \cup {NoRoom}]
    /\ ticketed \in BOOLEAN /\ excused \in BOOLEAN
    /\ left \in [commands : 0..MaxCommands, moves : 0..MaxMoves]

Init ==
    /\ sock = "closed" /\ auth = FALSE /\ next = "settings" /\ ticketed = FALSE
    /\ resume = [id |-> NoSession, asked |-> FALSE, fast |-> FALSE, viaSettings |-> FALSE]
    /\ room = [want |-> NoRoom, acked |-> FALSE, pending |-> "none", waiting |-> FALSE,
               leaving |-> FALSE, snapshot |-> NoRoom]
    /\ post = [s \in Slots |-> Free]
    /\ up = <<>> /\ down = <<>>
    /\ alive = {} /\ attached = NoSession /\ member = [s \in Sessions |-> NoRoom]
    /\ excused = FALSE /\ left = [commands |-> MaxCommands, moves |-> MaxMoves]

-----------------------------------------------------------------------------
(* Rooms.                                                                  *)

\* A frame goes out only on an open socket.
Send(f) == IF sock = "open" THEN Len(up) < MaxFrames /\ up' = Append(up, f) ELSE up' = up

\* Another POST participants/active, among these.
Posted(posts, r) ==
    \E s \in Slots :
        /\ posts[s] = Free /\ \A q \in Slots : posts[q] = Free => s <= q
        /\ post' = [q \in Slots |->
              IF q = s THEN [to |-> r, phase |-> "sent", live |-> FALSE, last |-> TRUE]
              ELSE [posts[q] EXCEPT !.last = FALSE]]

\* What joinRoom() leaves behind when it sends a POST.
Joining(rm, r) == [rm EXCEPT !.want = r, !.acked = FALSE, !.pending = "young",
                             !.waiting = FALSE, !.snapshot = NoRoom]

\* coalesceRoomJoin()
Coalesced(r) == r = room.want /\ auth /\ ~room.acked /\ room.pending = "young"

Spend(what) == left[what] > 0 /\ left' = [left EXCEPT ![what] = @ - 1]

\* joinRoom(): the user opens a conversation, or a call starts or ends.
JoinRoom(r) ==
    /\ Spend("commands")
    /\ ~(r = room.want /\ auth /\ room.acked)
    /\ IF Coalesced(r)
       THEN room' = [room EXCEPT !.waiting = TRUE] /\ UNCHANGED <<post, excused>>
       ELSE /\ room' = Joining(room, r) /\ Posted(post, r)
            /\ excused' = FALSE
    /\ UNCHANGED <<connection, up, down, server>>

\* joinRoom(token, force), from CallManager.
RejoinRoom ==
    /\ Spend("commands")
    /\ room.want # NoRoom
    /\ room' = Joining(room, room.want) /\ Posted(post, room.want)
    /\ excused' = FALSE
    /\ UNCHANGED <<connection, up, down, server>>

\* leaveRoom()
LeaveRoom ==
    /\ Spend("commands")
    /\ auth /\ sock = "open" /\ room.want # NoRoom
    /\ room' = [room EXCEPT !.leaving = TRUE, !.acked = FALSE, !.pending = "none",
                            !.waiting = FALSE]
    /\ Send(RoomFrame(NoRoom, FALSE))
    /\ excused' = TRUE
    /\ UNCHANGED <<connection, post, down, server>>

\* kRoomJoinCoalesceMs have passed.
PendingAges ==
    /\ room.pending = "young" /\ room' = [room EXCEPT !.pending = "old"]
    /\ UNCHANGED <<connection, post, up, down, server, excused, left>>

\* The reply of a POST; it goes on only with the room still wanted and a session.
JoinReplied(s) ==
    /\ post[s].phase = "minted"
    /\ post' = [post EXCEPT ![s] = Free]
    /\ IF post[s].to = room.want /\ auth
       THEN Send(RoomFrame(post[s].to, post[s].live)) /\ UNCHANGED excused
       ELSE /\ excused' = (excused \/ post[s].to = room.want)
            /\ UNCHANGED up
    /\ UNCHANGED <<connection, room, down, server, left>>

\* The POST failed, though Nextcloud may have carried it out or still will.  The
\* callers that wait for this join get one more try.
JoinFailed(s) ==
    /\ post[s].phase \in {"sent", "minted"}
    /\ LET done == [post EXCEPT ![s] = IF @.phase = "sent" THEN [@ EXCEPT !.phase = "orphan"]
                                       ELSE Free]
       IN IF post[s].to # room.want
          THEN post' = done /\ UNCHANGED <<room, excused>>
          ELSE IF room.waiting /\ auth
          THEN /\ room' = Joining(room, room.want) /\ Posted(done, room.want)
               /\ UNCHANGED excused
          ELSE /\ room' = [room EXCEPT !.pending = "none", !.waiting = FALSE]
               /\ post' = done /\ excused' = TRUE
    /\ UNCHANGED <<connection, up, down, server, left>>

-----------------------------------------------------------------------------
(* Connecting.                                                             *)

\* onAttemptFailedBeforeHello(), resumeAfterFailedAttempt(): a resume id survives a
\* failed fast attempt for one attempt through the settings.
AfterFailure(rs) ==
    [rs EXCEPT !.fast = FALSE,
               !.viaSettings = IF rs.id = NoSession THEN @ ELSE rs.fast,
               !.id = IF rs.viaSettings /\ ~rs.fast THEN NoSession ELSE @]

\* m_reconnectTimer: start()
TimerFires ==
    /\ next = "timer"
    /\ IF resume.id # NoSession /\ ~resume.viaSettings
       THEN /\ next' = "none" /\ sock' = "connecting" /\ ticketed' = FALSE
            /\ resume' = [resume EXCEPT !.fast = TRUE]
       ELSE next' = "settings" /\ UNCHANGED <<sock, resume, ticketed>>
    /\ UNCHANGED <<auth, room, post, up, down, server, excused, left>>

\* onSettingsFetched()
SettingsFetched ==
    /\ next = "settings" /\ next' = "none" /\ sock' = "connecting" /\ ticketed' = TRUE
    /\ UNCHANGED <<auth, resume, room, post, up, down, server, excused, left>>

\* (fault) no reconnect().
SettingsFailedIdle ==
    /\ next = "settings" /\ next' = "none" /\ resume' = AfterFailure(resume)
    /\ UNCHANGED <<sock, auth, ticketed, room, post, up, down, server, excused, left>>

SettingsFailed ==
    /\ next = "settings" /\ next' = "timer" /\ resume' = AfterFailure(resume)
    /\ UNCHANGED <<sock, auth, ticketed, room, post, up, down, server, excused, left>>

\* onConnected(); the server says welcome.
Connected ==
    /\ sock = "connecting" /\ sock' = "open" /\ down' = <<WelcomeFrame>>
    /\ UNCHANGED <<auth, resume, next, ticketed, room, post, up, server, excused, left>>

\* The frames of a socket that is gone: the server's view of the room may have
\* changed by them, or have been about to.
RoomFrameLost == \/ \E i \in 1..Len(up) : up[i].type = "room"
                 \/ \E i \in 1..Len(down) : down[i].type = "room"

\* (fault) the callers that wait are not forgotten.
DisconnectedKeepsWaiters ==
    /\ sock # "closed" /\ sock' = "closed" /\ auth' = FALSE /\ next' = "timer"
    /\ resume' = IF auth THEN resume ELSE AfterFailure(resume)
    /\ room' = [room EXCEPT !.acked = FALSE, !.pending = "none", !.leaving = FALSE]
    /\ up' = <<>> /\ down' = <<>> /\ attached' = NoSession
    /\ UNCHANGED <<ticketed, post, alive, member, excused, left>>

\* (fault) the session still counts as authenticated.
DisconnectedStillAuth ==
    /\ sock # "closed" /\ sock' = "closed" /\ next' = "timer"
    /\ room' = [room EXCEPT !.acked = FALSE, !.pending = "none", !.waiting = FALSE]
    /\ up' = <<>> /\ down' = <<>> /\ attached' = NoSession
    /\ UNCHANGED <<auth, resume, ticketed, post, alive, member, excused, left>>

\* onDisconnected(), also from the connect timer, the pong watchdog and close().
Disconnected ==
    /\ sock # "closed" /\ sock' = "closed" /\ auth' = FALSE /\ next' = "timer"
    /\ resume' = IF auth THEN resume ELSE AfterFailure(resume)
    /\ room' = [room EXCEPT !.snapshot = IF ~auth THEN @
                                         ELSE IF room.acked THEN room.want ELSE NoRoom,
                            !.acked = FALSE, !.pending = "none", !.waiting = FALSE,
                            !.leaving = FALSE]
    /\ up' = <<>> /\ down' = <<>> /\ attached' = NoSession
    /\ excused' = (excused \/ RoomFrameLost)
    /\ UNCHANGED <<ticketed, post, alive, member, left>>

\* switchHpbTo(): an idle session moves to another server.  The bye may not arrive.
Rehome ==
    /\ auth /\ sock = "open" /\ ~resume.asked /\ ~resume.fast
    /\ room.want = NoRoom \/ room.acked
    /\ sock' = "closing"
    /\ resume' = [id |-> NoSession, asked |-> FALSE, fast |-> FALSE, viaSettings |-> FALSE]
    /\ UNCHANGED <<auth, next, ticketed, room, post, up, down, server, excused, left>>

-----------------------------------------------------------------------------
(* onTextMessage()                                                         *)

Received(type) == sock \in {"open", "closing"} /\ down # <<>> /\ Head(down).type = type

\* sendHello(), with this resume id
SendHello(id) == Send(HelloFrame(id))

Welcome ==
    /\ Received("welcome") /\ down' = Tail(down)
    /\ SendHello(resume.id) /\ resume' = [resume EXCEPT !.asked = resume.id # NoSession]
    /\ UNCHANGED <<sock, auth, next, ticketed, room, post, server, excused, left>>

\* A resumed session is still in its room: nothing is joined again.
HelloResumed ==
    /\ Received("hello") /\ resume.asked /\ down' = Tail(down)
    /\ auth' = TRUE
    /\ resume' = [resume EXCEPT !.asked = FALSE, !.fast = FALSE, !.viaSettings = FALSE]
    /\ room' = [room EXCEPT !.snapshot = NoRoom,
                            !.acked = @ \/ (room.snapshot # NoRoom /\ room.snapshot = room.want)]
    /\ UNCHANGED <<sock, next, ticketed, post, up, server, excused, left>>

\* (fault) the room is not joined again.
HelloFreshIdle ==
    /\ Received("hello") /\ ~resume.asked /\ down' = Tail(down)
    /\ auth' = TRUE /\ room' = [room EXCEPT !.snapshot = NoRoom]
    /\ resume' = [id |-> Head(down).session, asked |-> FALSE, fast |-> FALSE,
                  viaSettings |-> FALSE]
    /\ UNCHANGED <<sock, next, ticketed, post, up, server, excused, left>>

HelloFresh ==
    /\ Received("hello") /\ ~resume.asked /\ down' = Tail(down)
    /\ auth' = TRUE
    /\ resume' = [id |-> Head(down).session, asked |-> FALSE, fast |-> FALSE,
                  viaSettings |-> FALSE]
    /\ IF room.want = NoRoom
       THEN room' = [room EXCEPT !.snapshot = NoRoom] /\ UNCHANGED <<post, excused>>
       ELSE room' = Joining(room, room.want) /\ Posted(post, room.want) /\ excused' = FALSE
    /\ UNCHANGED <<sock, next, ticketed, up, server, left>>

\* (fault) a fresh hello on the socket of a fast resume.
ResumeRefusedSameSocket ==
    /\ Received("error") /\ resume.asked /\ down' = Tail(down)
    /\ resume' = [id |-> NoSession, asked |-> FALSE, fast |-> FALSE, viaSettings |-> FALSE]
    /\ SendHello(NoSession)
    /\ UNCHANGED <<sock, auth, next, ticketed, room, post, server, excused, left>>

\* The resume is refused: a fresh hello, on a new socket if there is no fresh ticket.
ResumeRefused ==
    /\ Received("error") /\ resume.asked /\ down' = Tail(down)
    /\ resume' = [id |-> NoSession, asked |-> FALSE, fast |-> FALSE, viaSettings |-> FALSE]
    /\ IF resume.fast THEN sock' = "closing" /\ UNCHANGED up
                      ELSE SendHello(NoSession) /\ UNCHANGED sock
    /\ UNCHANGED <<auth, next, ticketed, room, post, server, excused, left>>

\* A join was refused; nobody is told.
JoinRefused ==
    /\ Received("error") /\ ~resume.asked /\ down' = Tail(down)
    /\ UNCHANGED <<connection, room, post, up, server, excused, left>>

\* The answer to leaveRoom()
LeftReceived ==
    /\ Received("room") /\ Head(down).to = NoRoom /\ room.leaving
    /\ down' = Tail(down) /\ room' = [room EXCEPT !.leaving = FALSE]
    /\ UNCHANGED <<connection, post, up, server, excused, left>>

\* Any other "room": the join is acknowledged; another room than the one wanted is
\* taken for a move by the server.
RoomReceived ==
    /\ Received("room") /\ ~(Head(down).to = NoRoom /\ room.leaving)
    /\ down' = Tail(down) /\ UNCHANGED <<connection, post, up, server, left>>
    /\ LET to == Head(down).to
       IN /\ room' = [room EXCEPT !.leaving = FALSE, !.acked = TRUE, !.pending = "none",
                                  !.waiting = FALSE,
                                  !.want = IF to # NoRoom /\ @ # NoRoom THEN to ELSE @]
          /\ excused' = (excused \/ (to # room.want /\ ~Head(down).moved))

-----------------------------------------------------------------------------
(* The servers.                                                            *)

Reply(f) == down' = Append(down, f)

\* A POST is carried out after a later one, and retires the session of that one.
Overtaken(s) ==
    /\ ~post[s].last
    /\ \/ \E q \in Slots : post[q].last /\ post[q].live
       \/ \E i \in 1..Len(up) : up[i].type = "room" /\ up[i].live

\* Nextcloud carries out a POST: its session retires all others.
Mint(s) ==
    /\ post[s].phase \in {"sent", "orphan"}
    /\ post' = [q \in Slots |->
          IF q # s THEN [post[q] EXCEPT !.live = FALSE]
          ELSE IF post[s].phase = "orphan" THEN Free
          ELSE [post[s] EXCEPT !.phase = "minted", !.live = TRUE]]
    /\ up' = [i \in 1..Len(up) |->
          IF up[i].type = "room" THEN [up[i] EXCEPT !.live = FALSE] ELSE up[i]]
    /\ excused' = (excused \/ Overtaken(s))
    /\ UNCHANGED <<connection, room, down, server, left>>

\* A POST that failed is never carried out.
Vanish(s) ==
    /\ post[s].phase = "orphan" /\ post' = [post EXCEPT ![s] = Free]
    /\ UNCHANGED <<connection, room, up, down, server, excused, left>>

Reads(type) == sock = "open" /\ up # <<>> /\ Head(up).type = type /\ up' = Tail(up)

ServeResume ==
    /\ Reads("hello") /\ Head(up).session # NoSession
    /\ IF Head(up).session \in alive
       THEN attached' = Head(up).session /\ Reply(HelloFrame(attached'))
       ELSE Reply(ErrorFrame) /\ UNCHANGED attached
    /\ UNCHANGED <<connection, room, post, alive, member, excused, left>>

ServeHello ==
    /\ Reads("hello") /\ Head(up).session = NoSession
    /\ \E s \in Sessions \ alive :
          /\ alive' = alive \cup {s} /\ attached' = s
          /\ member' = [member EXCEPT ![s] = NoRoom] /\ Reply(HelloFrame(s))
    /\ UNCHANGED <<connection, room, post, excused, left>>

\* A join under a retired session, or of the room the socket is in, is refused.
ServeRoom ==
    /\ Reads("room")
    /\ LET f == Head(up)
       IN IF f.to = NoRoom \/ (f.live /\ member[attached] # f.to)
          THEN /\ member' = [member EXCEPT ![attached] = f.to]
               /\ Reply(JoinedFrame(f.to, FALSE)) /\ UNCHANGED excused
          ELSE /\ Reply(ErrorFrame) /\ excused' = (excused \/ f.live)
               /\ UNCHANGED member
    /\ UNCHANGED <<connection, room, post, alive, attached, left>>

\* A moderator starts breakout rooms.
ServerMoves(r) ==
    /\ Spend("moves")
    /\ sock = "open" /\ attached # NoSession /\ member[attached] \notin {NoRoom, r}
    /\ Len(down) < MaxFrames
    /\ member' = [member EXCEPT ![attached] = r] /\ Reply(JoinedFrame(r, TRUE))
    /\ UNCHANGED <<connection, room, post, up, alive, attached, excused>>

\* The grace of a session without a socket is over.
Lapse(s) ==
    /\ s \in alive /\ s # attached /\ alive' = alive \ {s}
    /\ UNCHANGED <<connection, room, post, up, down, attached, member, excused, left>>

Next ==
    \/ \E r \in Rooms : JoinRoom(r) \/ ServerMoves(r)
    \/ RejoinRoom \/ LeaveRoom \/ PendingAges
    \/ \E s \in Slots : JoinReplied(s) \/ JoinFailed(s) \/ Mint(s) \/ Vanish(s)
    \/ TimerFires \/ SettingsFetched \/ SettingsFailed \/ Connected \/ Disconnected \/ Rehome
    \/ Welcome \/ HelloResumed \/ HelloFresh \/ ResumeRefused \/ JoinRefused
    \/ LeftReceived \/ RoomReceived
    \/ ServeResume \/ ServeHello \/ ServeRoom \/ \E s \in Sessions : Lapse(s)

Spec == Init /\ [][Next]_vars

-----------------------------------------------------------------------------

\* Signaling never stops trying: there is a session, or something that leads to one
\* ("without a pending retry, signaling would stay dead until restart", line 105).
NeverDead == auth \/ sock # "closed" \/ next # "none"

\* A fresh hello goes out only on a connect that fetched a ticket ("we have no FRESH
\* ticket for a clean re-auth", line 853).
HelloHasTicket ==
    \A i \in 1..Len(up) : up[i].type = "hello" /\ up[i].session = NoSession => ticketed

\* Nothing is under way for the room that is wanted.
Settled ==
    /\ auth /\ sock = "open" /\ up = <<>> /\ down = <<>>
    /\ ~\E s \in Slots : post[s].to = room.want /\ post[s].phase \in {"sent", "minted"}

\* When everything has been answered the server has the client in the room it wants,
\* and the client knows: but for the causes recorded in `excused'.
SettledInRoom ==
    Settled /\ room.want # NoRoom /\ ~excused =>
        member[attached] = room.want /\ room.acked

\* Who is counted as waiting waits for a join of this connection that nothing has
\* answered yet: the count decides whether a failed join is tried again (line 1376).
WaitersBelong ==
    room.waiting => auth /\ ~room.acked /\ room.pending # "none" /\ room.want # NoRoom

\* "a token that is not the one we asked for IS the move" (line 883): the room wanted
\* changes to another one the server names only if the server has moved the client.
SwitchIsAMove ==
    [][RoomReceived /\ room'.want # room.want => Head(down).moved]_vars

=============================================================================
