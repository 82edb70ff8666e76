------------------------ MODULE SignalingSessionProofs ------------------------
(***************************************************************************)
(* The signaling session for any rooms, sessions, slots and bounds: it is  *)
(* well-typed, it never stops trying, it authenticates only with a fresh   *)
(* ticket, those counted as waiting wait for a join of this connection, and*)
(* when everything is answered the server has the client in its room.      *)
(***************************************************************************)
EXTENDS SignalingSession, TLAPS

UpFrame == [type : {"room"}, to : Rooms \cup {NoRoom}, live : BOOLEAN]
             \cup [type : {"hello"}, session : Sessions \cup {NoSession}]

\* What the server says once it has said welcome.
Answer == [type : {"hello"}, session : Sessions] \cup [type : {"error"}]
            \cup [type : {"room"}, to : Rooms \cup {NoRoom}, moved : {FALSE}]
            \cup [type : {"room"}, to : Rooms, moved : {TRUE}]

\* The welcome comes first, and alone: nothing goes out before it is read.
Greeting ==
    /\ up \in Seq(UpFrame)
    /\ \/ down \in Seq(Answer)
       \/ down = <<WelcomeFrame>> /\ up = <<>> /\ ~auth /\ attached = NoSession

\* A socket that is not up carries nothing, and only when there is none does
\* anything lead to the next.
SocketInv ==
    /\ sock \in {"closed", "connecting"} =>
          up = <<>> /\ down = <<>> /\ ~auth /\ attached = NoSession
    /\ next # "none" => sock = "closed"

\* A connect without a ticket is one that resumes.
TicketInv ==
    /\ resume.asked => ~auth
    /\ ~auth /\ ~ticketed /\ sock \in {"connecting", "open"} =>
          resume.fast /\ resume.id # NoSession

IInv ==
    /\ TypeOK /\ Greeting /\ SocketInv /\ TicketInv
    /\ NeverDead /\ HelloHasTicket /\ WaitersBelong

-----------------------------------------------------------------------------
(* Frames.                                                                 *)

\* No room and no session is one of a frame of another kind.
LEMMA RoomFrameIsUp ==
    ASSUME NEW r \in Rooms \cup {NoRoom}, NEW live \in BOOLEAN
    PROVE  RoomFrame(r, live) \in UpFrame /\ RoomFrame(r, live).type = "room"
PROOF
BY DEF RoomFrame, UpFrame

LEMMA HelloFrameIsUp ==
    ASSUME NEW s \in Sessions \cup {NoSession}
    PROVE  /\ HelloFrame(s) \in UpFrame /\ HelloFrame(s).type = "hello"
           /\ HelloFrame(s).session = s
PROOF
BY DEF HelloFrame, UpFrame

LEMMA AnswersTyped ==
    /\ \A s \in Sessions : HelloFrame(s) \in Answer
    /\ ErrorFrame \in Answer
    /\ \A r \in Rooms \cup {NoRoom} : JoinedFrame(r, FALSE) \in Answer
    /\ \A r \in Rooms : JoinedFrame(r, TRUE) \in Answer
PROOF
BY DEF HelloFrame, ErrorFrame, JoinedFrame, Answer

\* What is read of an answer.
LEMMA AnswerRead ==
    ASSUME NEW f \in Answer
    PROVE  /\ f.type \in {"hello", "error", "room"}
           /\ f.type = "hello" => f.session \in Sessions
           /\ f.type = "room" => f.to \in Rooms \cup {NoRoom} /\ (f.to = NoRoom => ~f.moved)
PROOF
BY SessionAssumption DEF Answer

LEMMA UpRead ==
    ASSUME NEW f \in UpFrame
    PROVE  /\ f.type \in {"hello", "room"}
           /\ f.type = "hello" => f.session \in Sessions \cup {NoSession}
           /\ f.type = "room" => f.to \in Rooms \cup {NoRoom} /\ f.live \in BOOLEAN
PROOF
BY DEF UpFrame

\* An answer is read: the rest are answers, and it is no welcome.
LEMMA Read ==
    ASSUME IInv, NEW type \in {"hello", "error", "room"}, Received(type)
    PROVE  /\ down \in Seq(Answer) /\ Tail(down) \in Seq(Answer)
           /\ Head(down) \in Answer /\ Head(down).type = type
           /\ sock \in {"open", "closing"}
PROOF
<1>1. down # <<WelcomeFrame>>
  BY DEF Received, WelcomeFrame
<1>2. down \in Seq(Answer) /\ down # <<>>
  BY <1>1 DEF IInv, Greeting, Received
<1> QED
  BY <1>2 DEF Received

\* The tickets of a hello that goes out, or of any other frame.
LEMMA SendKeeps ==
    ASSUME IInv, NEW f \in UpFrame, Send(f), UNCHANGED ticketed,
           sock = "open" /\ f.type = "hello" /\ f.session = NoSession => ticketed
    PROVE  up' \in Seq(UpFrame) /\ HelloHasTicket' /\ (sock # "open" => up' = up)
PROOF
<1>1. up \in Seq(UpFrame)
  BY DEF IInv, Greeting
<1>2. CASE sock # "open"
  BY <1>1, <1>2 DEF Send, IInv, HelloHasTicket
<1>3. CASE sock = "open"
  <2>1. up' = Append(up, f)
    BY <1>3 DEF Send
  <2>2. \A i \in 1..Len(up') : up'[i] = f \/ (i \in 1..Len(up) /\ up'[i] = up[i])
    BY <1>1, <2>1
  <2>3. HelloHasTicket'
    BY <1>3, <2>2 DEF IInv, HelloHasTicket
  <2> QED
    BY <1>1, <1>3, <2>1, <2>3
<1> QED
  BY <1>2, <1>3

\* The server reads a frame and answers.
LEMMA ServeKeeps ==
    ASSUME IInv, NEW type, Reads(type), NEW f \in Answer, Reply(f), UNCHANGED ticketed
    PROVE  up' \in Seq(UpFrame) /\ down' \in Seq(Answer) /\ HelloHasTicket'
PROOF
<1>1. up \in Seq(UpFrame) /\ up # <<>> /\ up' = Tail(up)
  BY DEF IInv, Greeting, Reads
<1>2. down \in Seq(Answer)
  BY <1>1 DEF IInv, Greeting
<1>3. down' \in Seq(Answer)
  BY <1>2 DEF Reply
<1>4. \A i \in 1..Len(up') : i + 1 \in 1..Len(up) /\ up'[i] = up[i + 1]
  BY <1>1
<1> QED
  BY <1>1, <1>3, <1>4 DEF IInv, HelloHasTicket

Request == [to : Rooms \cup {NoRoom}, live : BOOLEAN, last : BOOLEAN,
            phase : {"free", "sent", "minted", "orphan"}]

\* Another POST takes one of the slots.
LEMMA PostedTyped ==
    ASSUME NEW posts \in [Slots -> Request], NEW r \in Rooms \cup {NoRoom}, Posted(posts, r)
    PROVE  post' \in [Slots -> Request]
PROOF
<1>1. PICK s \in Slots :
          post' = [q \in Slots |->
              IF q = s THEN [to |-> r, phase |-> "sent", live |-> FALSE, last |-> TRUE]
              ELSE [posts[q] EXCEPT !.last = FALSE]]
  BY DEF Posted
<1>2. [to |-> r, phase |-> "sent", live |-> FALSE, last |-> TRUE] \in Request
  BY DEF Request
<1>3. ASSUME NEW q \in Slots PROVE [posts[q] EXCEPT !.last = FALSE] \in Request
  <2>1. posts[q] \in Request
    OBVIOUS
  <2> QED
    BY <2>1 DEF Request
<1> QED
  BY <1>1, <1>2, <1>3
-----------------------------------------------------------------------------
(* Initially.                                                              *)

LEMMA InitInv == Init => IInv
PROOF
<1> SUFFICES ASSUME Init PROVE IInv
  OBVIOUS
<1> USE SessionAssumption DEF Init
<1>1. TypeOK
  <2>1. Free \in Request
    BY DEF Free, Request
  <2>2. post \in [Slots -> Request] /\ member \in [Sessions -> Rooms \cup {NoRoom}]
    BY <2>1
  <2>3. left \in [commands : 0..MaxCommands, moves : 0..MaxMoves]
    OBVIOUS
  <2> QED
    BY <2>2, <2>3 DEF TypeOK, Request
<1>2. Greeting /\ HelloHasTicket
  BY DEF Greeting, HelloHasTicket
<1>3. SocketInv /\ TicketInv /\ NeverDead /\ WaitersBelong
  BY DEF SocketInv, TicketInv, NeverDead, WaitersBelong
<1> QED
  BY <1>1, <1>2, <1>3 DEF IInv

-----------------------------------------------------------------------------
(* Rooms.                                                                  *)

\* A step of the room and its POSTs that leaves the connection and the server
\* alone, and sends at most a frame about a room.
LEMMA RoomStep ==
    ASSUME IInv,
           \/ UNCHANGED up
           \/ auth /\ \E f \in UpFrame : f.type = "room" /\ Send(f),
           UNCHANGED <<connection, down, server>>,
           TypeOK', WaitersBelong'
    PROVE  IInv'
PROOF
<1>1. up' \in Seq(UpFrame) /\ HelloHasTicket' /\ (up' # up => auth /\ sock = "open")
  <2>1. CASE UNCHANGED up
    BY <2>1 DEF IInv, Greeting, HelloHasTicket, connection
  <2>2. ASSUME auth, NEW f \in UpFrame, f.type = "room", Send(f)
        PROVE  up' \in Seq(UpFrame) /\ HelloHasTicket' /\ (up' # up => auth /\ sock = "open")
    BY <2>2, SendKeeps DEF connection
  <2> QED
    BY <2>1, <2>2
<1>2. Greeting' /\ SocketInv' /\ TicketInv' /\ NeverDead'
  BY <1>1 DEF IInv, Greeting, SocketInv, TicketInv, NeverDead, connection, server
<1> QED
  BY <1>1, <1>2 DEF IInv

\* What joinRoom() leaves behind is well-typed, and nobody waits.
LEMMA AuthStays ==
    ASSUME IInv, UNCHANGED connection
    PROVE  auth' \in BOOLEAN /\ (auth' => sock' \in {"open", "closing"})
PROOF
BY Zenon DEF IInv, TypeOK, connection

LEMMA JoiningTyped ==
    ASSUME IInv, NEW r \in Rooms, room' = Joining(room, r)
    PROVE  /\ room' \in [want : Rooms \cup {NoRoom}, acked : BOOLEAN,
                         pending : {"none", "young", "old"}, waiting : BOOLEAN,
                         leaving : BOOLEAN, snapshot : Rooms \cup {NoRoom}]
           /\ ~room'.waiting /\ WaitersBelong'
PROOF
<1>1. room' = [room EXCEPT !.want = r, !.acked = FALSE, !.pending = "young",
                           !.waiting = FALSE, !.snapshot = NoRoom]
  BY DEF Joining
<1> QED
  BY <1>1 DEF IInv, TypeOK, WaitersBelong

LEMMA SpendTyped ==
    ASSUME IInv, NEW what \in {"commands", "moves"}, Spend(what)
    PROVE  left' \in [commands : 0..MaxCommands, moves : 0..MaxMoves]
PROOF
<1>1. left \in [commands : 0..MaxCommands, moves : 0..MaxMoves]
  BY DEF IInv, TypeOK
<1>2. left[what] - 1 \in 0..(IF what = "commands" THEN MaxCommands ELSE MaxMoves)
  BY <1>1, SessionAssumption DEF Spend
<1> QED
  BY <1>1, <1>2 DEF Spend

LEMMA PostTyped == IInv => post \in [Slots -> Request]
PROOF
BY DEF IInv, TypeOK, Request

LEMMA JoinRoomInv == ASSUME IInv, NEW r \in Rooms, JoinRoom(r) PROVE IInv'
PROOF
<1>1. left' \in [commands : 0..MaxCommands, moves : 0..MaxMoves]
  BY SpendTyped DEF JoinRoom
<1>2. CASE Coalesced(r) /\ room' = [room EXCEPT !.waiting = TRUE] /\ UNCHANGED <<post, excused>>
  <2>1. WaitersBelong'
    BY <1>2, SessionAssumption DEF Coalesced, WaitersBelong, IInv, TypeOK, JoinRoom, connection
  <2>2. TypeOK'
    BY <1>1, <1>2 DEF IInv, TypeOK, JoinRoom, connection, server
  <2> QED
    BY <2>1, <2>2, RoomStep DEF JoinRoom
<1>3. CASE room' = Joining(room, r) /\ Posted(post, r) /\ excused' = FALSE
  <2>1. post' \in [Slots -> Request]
    BY <1>3, PostTyped, PostedTyped
  <2>2. auth' \in BOOLEAN /\ (auth' => sock' \in {"open", "closing"})
    BY AuthStays DEF JoinRoom
  <2>3. TypeOK' /\ WaitersBelong'
    BY <1>1, <1>3, <2>1, <2>2, JoiningTyped
       DEF IInv, TypeOK, JoinRoom, connection, server, Request
  <2> QED
    BY <2>3, RoomStep DEF JoinRoom
<1> QED
  BY <1>2, <1>3 DEF JoinRoom

LEMMA RejoinRoomInv == ASSUME IInv, RejoinRoom PROVE IInv'
PROOF
<1>1. left' \in [commands : 0..MaxCommands, moves : 0..MaxMoves]
  BY SpendTyped DEF RejoinRoom
<1>2. room.want \in Rooms
  BY DEF IInv, TypeOK, RejoinRoom
<1>3. post' \in [Slots -> Request]
  BY <1>2, PostTyped, PostedTyped DEF RejoinRoom
<1>4. auth' \in BOOLEAN /\ (auth' => sock' \in {"open", "closing"})
  BY AuthStays DEF RejoinRoom
<1>5. TypeOK' /\ WaitersBelong'
  BY <1>1, <1>2, <1>3, <1>4, JoiningTyped
     DEF IInv, TypeOK, RejoinRoom, connection, server, Request
<1> QED
  BY <1>5, RoomStep DEF RejoinRoom

LEMMA LeaveRoomInv == ASSUME IInv, LeaveRoom PROVE IInv'
PROOF
<1>1. left' \in [commands : 0..MaxCommands, moves : 0..MaxMoves]
  BY SpendTyped DEF LeaveRoom
<1>2. TypeOK' /\ WaitersBelong'
  BY <1>1 DEF IInv, TypeOK, LeaveRoom, connection, server, WaitersBelong
<1>3. auth /\ \E f \in UpFrame : f.type = "room" /\ Send(f)
  BY RoomFrameIsUp DEF LeaveRoom
<1> QED
  BY <1>2, <1>3, RoomStep DEF LeaveRoom

LEMMA PendingAgesInv == ASSUME IInv, PendingAges PROVE IInv'
PROOF
<1>1. TypeOK' /\ WaitersBelong'
  BY DEF IInv, TypeOK, PendingAges, connection, server, WaitersBelong
<1> QED
  BY <1>1, RoomStep DEF PendingAges

LEMMA JoinRepliedInv == ASSUME IInv, NEW s \in Slots, JoinReplied(s) PROVE IInv'
PROOF
<1>1. post \in [Slots -> Request] /\ post' = [post EXCEPT ![s] = Free]
  BY PostTyped DEF JoinReplied
<1>2. Free \in Request
  BY DEF Free, Request
<1>3. post' \in [Slots -> Request]
  BY <1>1, <1>2
<1>4. post[s].to \in Rooms \cup {NoRoom} /\ post[s].live \in BOOLEAN
  BY <1>1 DEF Request
<1>5. excused' \in BOOLEAN
  BY DEF IInv, TypeOK, JoinReplied
<1>6. TypeOK' /\ WaitersBelong'
  BY <1>3, <1>5 DEF IInv, TypeOK, JoinReplied, connection, server, WaitersBelong, Request
<1>7. UNCHANGED up \/ (auth /\ \E f \in UpFrame : f.type = "room" /\ Send(f))
  BY <1>4, RoomFrameIsUp DEF JoinReplied
<1> QED
  BY <1>6, <1>7, RoomStep DEF JoinReplied

LEMMA JoinFailedInv == ASSUME IInv, NEW s \in Slots, JoinFailed(s) PROVE IInv'
PROOF
<1> DEFINE done == [post EXCEPT ![s] = IF @.phase = "sent" THEN [@ EXCEPT !.phase = "orphan"]
                                       ELSE Free]
<1>1. post \in [Slots -> Request]
  BY PostTyped
<1>2. Free \in Request /\ [post[s] EXCEPT !.phase = "orphan"] \in Request
  BY <1>1 DEF Free, Request
<1>3. done \in [Slots -> Request]
  BY <1>1, <1>2
<1> HIDE DEF done
<1>4. CASE post' = done /\ UNCHANGED <<room, excused>>
  <2>1. TypeOK' /\ WaitersBelong'
    BY <1>3, <1>4 DEF IInv, TypeOK, JoinFailed, connection, server, WaitersBelong, Request
  <2> QED
    BY <2>1, RoomStep DEF JoinFailed
<1>5. CASE /\ room.waiting /\ auth
           /\ room' = Joining(room, room.want) /\ Posted(done, room.want) /\ UNCHANGED excused
  <2>1. room.want \in Rooms
    BY <1>5 DEF IInv, TypeOK, WaitersBelong
  <2>2. post' \in [Slots -> Request]
    BY <1>3, <1>5, <2>1, PostedTyped
  <2>3. TypeOK' /\ WaitersBelong'
    BY <1>5, <2>1, <2>2, JoiningTyped DEF IInv, TypeOK, JoinFailed, connection, server, Request
  <2> QED
    BY <2>3, RoomStep DEF JoinFailed
<1>6. CASE /\ room' = [room EXCEPT !.pending = "none", !.waiting = FALSE]
           /\ post' = done /\ excused' = TRUE
  <2>1. room' \in [want : Rooms \cup {NoRoom}, acked : BOOLEAN,
                   pending : {"none", "young", "old"}, waiting : BOOLEAN,
                   leaving : BOOLEAN, snapshot : Rooms \cup {NoRoom}]
        /\ ~room'.waiting
    BY <1>6 DEF IInv, TypeOK
  <2>2. UNCHANGED <<connection, up, down, server, left>>
    BY DEF JoinFailed
  <2>3. auth' \in BOOLEAN /\ (auth' => sock' \in {"open", "closing"})
    BY <2>2, AuthStays
  <2>4. TypeOK'
    BY <1>3, <1>6, <2>1, <2>2, <2>3 DEF IInv, TypeOK, connection, server, Request
  <2>5. WaitersBelong'
    BY <2>1 DEF WaitersBelong
  <2> QED
    BY <2>4, <2>5, RoomStep DEF JoinFailed
<1> QED
  BY <1>4, <1>5, <1>6 DEF JoinFailed, done
-----------------------------------------------------------------------------
(* Connecting.                                                             *)

Resume == [id : Sessions \cup {NoSession}, asked : BOOLEAN, fast : BOOLEAN,
           viaSettings : BOOLEAN]

LEMMA AfterFailureTyped ==
    ASSUME NEW rs \in Resume
    PROVE  AfterFailure(rs) \in Resume /\ AfterFailure(rs).asked = rs.asked
PROOF
BY DEF AfterFailure, Resume

LEMMA ResumeTyped == IInv => resume \in Resume
PROOF
BY DEF IInv, TypeOK, Resume

LEMMA TimerFiresInv == ASSUME IInv, TimerFires PROVE IInv'
PROOF
<1>1. sock = "closed" /\ ~auth /\ up = <<>> /\ down = <<>>
  BY DEF TimerFires, IInv, SocketInv
<1>2. TypeOK'
  <2>2. resume' \in Resume
    <3>1. resume \in Resume /\ TRUE \in BOOLEAN
      BY ResumeTyped
    <3> QED
      BY <3>1 DEF TimerFires, Resume
  <2>3. sock' \in {"closed", "connecting"}
    BY <1>1 DEF TimerFires
  <2>4. ticketed' \in BOOLEAN
    BY Zenon DEF TimerFires, IInv, TypeOK
  <2>1. resume' \in Resume /\ sock' \in {"closed", "connecting"} /\ ticketed' \in BOOLEAN
    BY <2>2, <2>3, <2>4
  <2> QED
    BY <1>1, <2>1 DEF TimerFires, IInv, TypeOK, Resume, server
<1>3. Greeting' /\ HelloHasTicket' /\ WaitersBelong'
  BY <1>1 DEF TimerFires, IInv, Greeting, HelloHasTicket, WaitersBelong, server
<1>4. TicketInv'
  BY <1>1 DEF TimerFires, IInv, TicketInv, TypeOK
<1>5. SocketInv' /\ NeverDead'
  BY <1>1 DEF TimerFires, IInv, SocketInv, NeverDead, server
<1> QED
  BY <1>2, <1>3, <1>4, <1>5 DEF IInv

LEMMA SettingsFetchedInv == ASSUME IInv, SettingsFetched PROVE IInv'
PROOF
<1>1. sock = "closed" /\ ~auth /\ up = <<>> /\ down = <<>>
  BY DEF SettingsFetched, IInv, SocketInv
<1>2. TypeOK'
  BY <1>1 DEF SettingsFetched, IInv, TypeOK, server
<1>3. Greeting' /\ HelloHasTicket' /\ WaitersBelong'
  BY <1>1 DEF SettingsFetched, IInv, Greeting, HelloHasTicket, WaitersBelong, server
<1>4. SocketInv' /\ NeverDead' /\ TicketInv'
  BY <1>1 DEF SettingsFetched, IInv, SocketInv, NeverDead, TicketInv, server
<1> QED
  BY <1>2, <1>3, <1>4 DEF IInv

LEMMA SettingsFailedInv == ASSUME IInv, SettingsFailed PROVE IInv'
PROOF
<1>1. sock = "closed" /\ ~auth
  BY DEF SettingsFailed, IInv, SocketInv
<1>2. resume' \in Resume
  BY ResumeTyped, AfterFailureTyped DEF SettingsFailed
<1>3. TypeOK'
  BY <1>2 DEF SettingsFailed, IInv, TypeOK, server, Resume
<1>4. Greeting' /\ HelloHasTicket' /\ WaitersBelong'
  BY DEF SettingsFailed, IInv, Greeting, HelloHasTicket, WaitersBelong, server
<1>5. SocketInv' /\ NeverDead' /\ TicketInv'
  BY <1>1 DEF SettingsFailed, IInv, SocketInv, NeverDead, TicketInv, server
<1> QED
  BY <1>3, <1>4, <1>5 DEF IInv

LEMMA ConnectedInv == ASSUME IInv, Connected PROVE IInv'
PROOF
<1>1. ~auth /\ up = <<>> /\ attached = NoSession /\ next = "none"
  BY DEF Connected, IInv, SocketInv, TypeOK
<1>2. TypeOK'
  BY DEF Connected, IInv, TypeOK, server
<1>3. Greeting' /\ HelloHasTicket' /\ WaitersBelong'
  BY <1>1 DEF Connected, IInv, Greeting, HelloHasTicket, WaitersBelong, server
<1>4. SocketInv' /\ NeverDead' /\ TicketInv'
  BY <1>1 DEF Connected, IInv, SocketInv, NeverDead, TicketInv
<1> QED
  BY <1>2, <1>3, <1>4 DEF IInv

LEMMA DisconnectedInv == ASSUME IInv, Disconnected PROVE IInv'
PROOF
<1>1. resume' \in Resume
  BY ResumeTyped, AfterFailureTyped DEF Disconnected
<1>2. TypeOK'
  BY <1>1 DEF Disconnected, IInv, TypeOK, Resume
<1>3. Greeting' /\ HelloHasTicket' /\ WaitersBelong'
  BY DEF Disconnected, IInv, Greeting, HelloHasTicket, WaitersBelong, TypeOK
<1>4. SocketInv' /\ NeverDead' /\ TicketInv'
  BY DEF Disconnected, SocketInv, NeverDead, TicketInv
<1> QED
  BY <1>2, <1>3, <1>4 DEF IInv

LEMMA RehomeInv == ASSUME IInv, Rehome PROVE IInv'
PROOF
<1>1. TypeOK'
  BY DEF Rehome, IInv, TypeOK, server
<1>2. Greeting' /\ HelloHasTicket' /\ WaitersBelong'
  BY DEF Rehome, IInv, Greeting, HelloHasTicket, WaitersBelong, server
<1>3. SocketInv' /\ NeverDead' /\ TicketInv'
  BY DEF Rehome, IInv, SocketInv, NeverDead, TicketInv
<1> QED
  BY <1>1, <1>2, <1>3 DEF IInv

-----------------------------------------------------------------------------
(* onTextMessage().                                                        *)

\* A frame is read while the welcome has been: what is left of the invariant.
LEMMA ReadStep ==
    ASSUME IInv, NEW type \in {"hello", "error", "room"}, Received(type), down' = Tail(down),
           up' \in Seq(UpFrame), HelloHasTicket',
           TypeOK', WaitersBelong', TicketInv',
           sock' \in {"open", "closing"}, UNCHANGED next
    PROVE  IInv'
PROOF
<1>1. Greeting'
  BY Read DEF Greeting
<1>2. SocketInv' /\ NeverDead'
  BY DEF Received, IInv, SocketInv, NeverDead
<1> QED
  BY <1>1, <1>2 DEF IInv

\* Nothing is sent.
LEMMA SameUp ==
    ASSUME IInv, UNCHANGED <<up, ticketed>>
    PROVE  up' \in Seq(UpFrame) /\ HelloHasTicket'
PROOF
BY DEF IInv, Greeting, HelloHasTicket

\* The session that is resumed, or opened, is that of the hello sent.
LEMMA WelcomeInv == ASSUME IInv, Welcome PROVE IInv'
PROOF
<1>1. down = <<WelcomeFrame>> /\ up = <<>> /\ ~auth /\ attached = NoSession
  <2>1. ASSUME down \in Seq(Answer) PROVE FALSE
    BY <2>1, AnswerRead DEF Welcome, Received
  <2> QED
    BY <2>1 DEF IInv, Greeting
<1>2. sock \in {"open", "closing"} /\ resume \in Resume
  BY ResumeTyped DEF Welcome, Received
<1>3. HelloFrame(resume.id) \in UpFrame /\ HelloFrame(resume.id).session = resume.id
  BY <1>2, HelloFrameIsUp DEF Resume
<1>4. sock = "open" /\ resume.id = NoSession => ticketed
  BY <1>1 DEF IInv, TicketInv
<1>5. up' \in Seq(UpFrame) /\ HelloHasTicket'
  BY <1>3, <1>4, SendKeeps DEF Welcome, SendHello
<1>6. down' \in Seq(Answer)
  BY <1>1 DEF Welcome
<1>7. TypeOK'
  <2>1. resume' \in Resume
    BY <1>2 DEF Welcome, Resume
  <2> QED
    BY <1>1, <2>1 DEF Welcome, IInv, TypeOK, Resume, server
<1>8. TicketInv'
  BY <1>1, <1>2 DEF Welcome, IInv, TicketInv, Resume
<1>9. SocketInv' /\ NeverDead' /\ WaitersBelong' /\ Greeting'
  BY <1>2, <1>5, <1>6 DEF Welcome, IInv, SocketInv, NeverDead, WaitersBelong, Greeting
<1> QED
  BY <1>5, <1>7, <1>8, <1>9 DEF IInv

LEMMA HelloResumedInv == ASSUME IInv, HelloResumed PROVE IInv'
PROOF
<1>1. ~auth /\ sock \in {"open", "closing"}
  BY DEF HelloResumed, Received, IInv, TicketInv
<1>2. TypeOK' /\ WaitersBelong' /\ TicketInv'
  BY <1>1 DEF HelloResumed, IInv, TypeOK, WaitersBelong, TicketInv, server
<1> QED
  BY <1>1, <1>2, SameUp, ReadStep DEF HelloResumed

LEMMA HelloFreshInv == ASSUME IInv, HelloFresh PROVE IInv'
PROOF
<1>1. sock \in {"open", "closing"} /\ Head(down).session \in Sessions
  BY Read, AnswerRead DEF HelloFresh
<1>2. TicketInv'
  BY <1>1 DEF HelloFresh, TicketInv
<1>3. resume' \in Resume
  BY <1>1 DEF HelloFresh, Resume
<1>4. CASE /\ room.want = NoRoom
           /\ room' = [room EXCEPT !.snapshot = NoRoom] /\ UNCHANGED <<post, excused>>
  <2>1. TypeOK'
    BY <1>1, <1>3, <1>4 DEF HelloFresh, IInv, TypeOK, Resume, server
  <2>2. WaitersBelong'
    BY <1>4 DEF IInv, TypeOK, WaitersBelong
  <2> QED
    BY <1>1, <1>2, <2>1, <2>2, SameUp, ReadStep DEF HelloFresh
<1>5. CASE /\ room.want # NoRoom
           /\ room' = Joining(room, room.want) /\ Posted(post, room.want) /\ excused' = FALSE
  <2>1. room.want \in Rooms
    BY <1>5 DEF IInv, TypeOK
  <2>2. post' \in [Slots -> Request]
    BY <1>5, <2>1, PostTyped, PostedTyped
  <2>3. TypeOK' /\ WaitersBelong'
    BY <1>1, <1>3, <1>5, <2>1, <2>2, JoiningTyped
    DEF HelloFresh, IInv, TypeOK, Resume, Request, server
  <2> QED
    BY <1>1, <1>2, <2>3, SameUp, ReadStep DEF HelloFresh
<1> QED
  BY <1>4, <1>5 DEF HelloFresh

LEMMA ResumeRefusedInv == ASSUME IInv, ResumeRefused PROVE IInv'
PROOF
<1>1. ~auth /\ sock \in {"open", "closing"}
  BY DEF ResumeRefused, Received, IInv, TicketInv
<1>2. sock = "open" /\ ~resume.fast => ticketed
  BY <1>1 DEF IInv, TicketInv
<1>3. up' \in Seq(UpFrame) /\ HelloHasTicket'
  <2>1. CASE resume.fast
    BY <2>1, SameUp DEF ResumeRefused
  <2>2. CASE ~resume.fast
    <3>1. HelloFrame(NoSession) \in UpFrame
      BY HelloFrameIsUp
    <3> QED
      BY <1>2, <2>2, <3>1, SendKeeps DEF ResumeRefused, SendHello
  <2> QED
    BY <2>1, <2>2
<1>4. TypeOK'
  BY <1>1 DEF ResumeRefused, IInv, TypeOK, server
<1>5. TicketInv' /\ WaitersBelong' /\ sock' \in {"open", "closing"}
  BY <1>1, <1>2 DEF ResumeRefused, IInv, TicketInv, WaitersBelong
<1> QED
  BY <1>3, <1>4, <1>5, ReadStep DEF ResumeRefused

LEMMA JoinRefusedInv == ASSUME IInv, JoinRefused PROVE IInv'
PROOF
<1>1. TypeOK' /\ WaitersBelong' /\ TicketInv' /\ sock' \in {"open", "closing"}
  BY DEF JoinRefused, Received, IInv, TypeOK, WaitersBelong, TicketInv, connection, server
<1> QED
  BY <1>1, SameUp, ReadStep DEF JoinRefused, connection

LEMMA LeftReceivedInv == ASSUME IInv, LeftReceived PROVE IInv'
PROOF
<1>1. TypeOK'
  <2>1. auth' \in BOOLEAN /\ (auth' => sock' \in {"open", "closing"})
    BY AuthStays DEF LeftReceived
  <2>2. room' \in [want : Rooms \cup {NoRoom}, acked : BOOLEAN,
                   pending : {"none", "young", "old"}, waiting : BOOLEAN,
                   leaving : BOOLEAN, snapshot : Rooms \cup {NoRoom}]
    BY DEF LeftReceived, IInv, TypeOK
  <2>3. UNCHANGED <<connection, post, up, server, excused, left>>
    BY DEF LeftReceived
  <2> QED
    BY <2>1, <2>2, <2>3 DEF IInv, TypeOK, connection, server
<1>2. WaitersBelong' /\ TicketInv' /\ sock' \in {"open", "closing"}
  BY DEF LeftReceived, Received, IInv, TypeOK, WaitersBelong, TicketInv, connection
<1> QED
  BY <1>1, <1>2, SameUp, ReadStep DEF LeftReceived, connection

LEMMA RoomReceivedInv == ASSUME IInv, RoomReceived PROVE IInv'
PROOF
<1>1. Head(down).to \in Rooms \cup {NoRoom}
  BY Read, AnswerRead DEF RoomReceived
<1>2. excused' \in BOOLEAN
  BY Zenon DEF RoomReceived, IInv, TypeOK
<1>3. PICK want \in Rooms \cup {NoRoom} :
          room' = [room EXCEPT !.leaving = FALSE, !.acked = TRUE, !.pending = "none",
                               !.waiting = FALSE, !.want = want]
  BY <1>1 DEF RoomReceived, IInv, TypeOK
<1>4. TypeOK'
  <2>1. room' \in [want : Rooms \cup {NoRoom}, acked : BOOLEAN,
                   pending : {"none", "young", "old"}, waiting : BOOLEAN,
                   leaving : BOOLEAN, snapshot : Rooms \cup {NoRoom}]
    BY <1>3 DEF IInv, TypeOK
  <2> QED
    BY <1>2, <2>1 DEF RoomReceived, IInv, TypeOK, connection, server
<1>5. WaitersBelong' /\ TicketInv' /\ sock' \in {"open", "closing"}
  BY <1>3 DEF RoomReceived, Received, IInv, TypeOK, WaitersBelong, TicketInv, connection
<1> QED
  BY <1>4, <1>5, SameUp, ReadStep DEF RoomReceived, connection

-----------------------------------------------------------------------------
(* The servers.                                                            *)

\* The servers leave the client's own variables alone.
LEMMA ServerStep ==
    ASSUME IInv, Greeting', HelloHasTicket', TypeOK', SocketInv',
           UNCHANGED <<connection, room>>
    PROVE  IInv'
PROOF
BY DEF IInv, TicketInv, NeverDead, WaitersBelong, connection

\* Retiring a session changes no frame of another kind.
LEMMA MintInv == ASSUME IInv, NEW s \in Slots, Mint(s) PROVE IInv'
PROOF
<1>1. up \in Seq(UpFrame)
  BY DEF IInv, Greeting
<1> DEFINE after == [i \in 1..Len(up) |->
          IF up[i].type = "room" THEN [up[i] EXCEPT !.live = FALSE] ELSE up[i]]
<1>2. ASSUME NEW i \in 1..Len(up) PROVE after[i] \in UpFrame
  <2>1. up[i] \in UpFrame
    BY <1>1
  <2>2. CASE up[i].type = "room"
    <3>1. up[i] \in [type : {"room"}, to : Rooms \cup {NoRoom}, live : BOOLEAN]
      BY <2>1, <2>2 DEF UpFrame
    <3> QED
      BY <2>2, <3>1 DEF UpFrame
  <2>3. CASE up[i].type # "room"
    BY <2>1, <2>3
  <2> QED
    BY <2>2, <2>3
<1>3. ASSUME NEW i \in 1..Len(up), after[i].type = "hello" PROVE after[i] = up[i]
  <2>1. up[i] \in UpFrame
    BY <1>1
  <2>2. CASE up[i].type = "room"
    <3>1. up[i] \in [type : {"room"}, to : Rooms \cup {NoRoom}, live : BOOLEAN]
      BY <2>1, <2>2 DEF UpFrame
    <3> QED
      BY <1>3, <2>2, <3>1
  <2>3. CASE up[i].type # "room"
    BY <2>3
  <2> QED
    BY <2>2, <2>3
<1>4. up' = after
  BY DEF Mint
<1>5. Len(up) \in Nat /\ DOMAIN after = 1..Len(up)
  BY <1>1
<1> HIDE DEF after
<1>6. after \in Seq(UpFrame) /\ Len(after) = Len(up)
  <2>1. after \in [1..Len(up) -> UpFrame]
    BY <1>2, <1>5 DEF after
  <2> QED
    BY <1>5, <2>1
<1>7. up = <<>> => after = <<>>
  BY <1>1, <1>6
<1>8. Greeting' /\ SocketInv'
  BY <1>4, <1>6, <1>7 DEF Mint, IInv, Greeting, SocketInv, connection, server
<1>9. HelloHasTicket'
  BY <1>3, <1>4, <1>6 DEF Mint, IInv, HelloHasTicket, connection
<1>10. post' \in [Slots -> Request]
  <2>1. ASSUME NEW q \in Slots
        PROVE  /\ [post[q] EXCEPT !.live = FALSE] \in Request
               /\ [post[q] EXCEPT !.phase = "minted", !.live = TRUE] \in Request
    <3>1. post[q] \in Request
      BY PostTyped
    <3> QED
      BY <3>1 DEF Request
  <2>2. Free \in Request
    BY DEF Free, Request
  <2> QED
    BY <2>1, <2>2 DEF Mint
<1>11. excused' \in BOOLEAN
  BY DEF Mint, IInv, TypeOK, Overtaken
<1>12. TypeOK'
  BY <1>10, <1>11 DEF Mint, IInv, TypeOK, Request, connection, server
<1> QED
  BY <1>8, <1>9, <1>12, ServerStep DEF Mint

LEMMA VanishInv == ASSUME IInv, NEW s \in Slots, Vanish(s) PROVE IInv'
PROOF
<1>1. Free \in Request /\ post \in [Slots -> Request]
  BY PostTyped DEF Free, Request
<1>2. post' \in [Slots -> Request]
  BY <1>1 DEF Vanish
<1>3. TypeOK'
  BY <1>2 DEF Vanish, IInv, TypeOK, Request, connection, server
<1>4. Greeting' /\ HelloHasTicket' /\ SocketInv'
  BY DEF Vanish, IInv, Greeting, HelloHasTicket, SocketInv, connection, server
<1> QED
  BY <1>3, <1>4, ServerStep DEF Vanish

\* The server reads a frame and answers it: the client's side stays as it is.
LEMMA ServeStep ==
    ASSUME IInv, NEW type, Reads(type), NEW f \in Answer, Reply(f), TypeOK',
           UNCHANGED <<connection, room>>
    PROVE  IInv'
PROOF
<1>1. up' \in Seq(UpFrame) /\ down' \in Seq(Answer) /\ HelloHasTicket'
  BY ServeKeeps DEF connection
<1>2. Greeting' /\ SocketInv'
  BY <1>1 DEF IInv, Greeting, SocketInv, Reads, connection
<1> QED
  BY <1>1, <1>2, ServerStep

\* The frame the server reads.
LEMMA FrameRead ==
    ASSUME IInv, NEW type, Reads(type)
    PROVE  Head(up) \in UpFrame /\ Head(up).type = type
PROOF
<1>1. up \in Seq(UpFrame) /\ up # <<>>
  BY DEF IInv, Greeting, Reads
<1> QED
  BY <1>1 DEF Reads

LEMMA ServeResumeInv == ASSUME IInv, ServeResume PROVE IInv'
PROOF
<1>1. CASE /\ Head(up).session \in alive
           /\ attached' = Head(up).session /\ Reply(HelloFrame(attached'))
  <2>1. attached' \in Sessions
    BY <1>1 DEF IInv, TypeOK
  <2>2. TypeOK'
    BY <1>1 DEF ServeResume, IInv, TypeOK, connection
  <2> QED
    BY <1>1, <2>1, <2>2, AnswersTyped, ServeStep DEF ServeResume
<1>2. CASE Reply(ErrorFrame) /\ UNCHANGED attached
  <2>1. TypeOK'
    BY <1>2 DEF ServeResume, IInv, TypeOK, connection
  <2> QED
    BY <1>2, <2>1, AnswersTyped, ServeStep DEF ServeResume
<1> QED
  BY <1>1, <1>2 DEF ServeResume

LEMMA ServeHelloInv == ASSUME IInv, ServeHello PROVE IInv'
PROOF
<1>1. PICK s \in Sessions \ alive :
          /\ alive' = alive \cup {s} /\ attached' = s
          /\ member' = [member EXCEPT ![s] = NoRoom] /\ Reply(HelloFrame(s))
  BY DEF ServeHello
<1>2. TypeOK'
  BY <1>1 DEF ServeHello, IInv, TypeOK, connection
<1> QED
  BY <1>1, <1>2, AnswersTyped, ServeStep DEF ServeHello

LEMMA ServeRoomInv == ASSUME IInv, ServeRoom PROVE IInv'
PROOF
<1>1. Head(up).to \in Rooms \cup {NoRoom} /\ Head(up).live \in BOOLEAN
  BY FrameRead, UpRead DEF ServeRoom
<1>2. CASE /\ member' = [member EXCEPT ![attached] = Head(up).to]
           /\ Reply(JoinedFrame(Head(up).to, FALSE)) /\ UNCHANGED excused
  <2>1. member' \in [Sessions -> Rooms \cup {NoRoom}]
    BY <1>1, <1>2 DEF IInv, TypeOK
  <2>2. TypeOK'
    BY <1>2, <2>1 DEF ServeRoom, IInv, TypeOK, connection
  <2> QED
    BY <1>1, <1>2, <2>2, AnswersTyped, ServeStep DEF ServeRoom
<1>3. CASE /\ Reply(ErrorFrame) /\ excused' = (excused \/ Head(up).live)
           /\ UNCHANGED member
  <2>1. TypeOK'
    BY <1>1, <1>3 DEF ServeRoom, IInv, TypeOK, connection
  <2> QED
    BY <1>3, <2>1, AnswersTyped, ServeStep DEF ServeRoom
<1> QED
  BY <1>2, <1>3 DEF ServeRoom

LEMMA ServerMovesInv == ASSUME IInv, NEW r \in Rooms, ServerMoves(r) PROVE IInv'
PROOF
<1>1. left' \in [commands : 0..MaxCommands, moves : 0..MaxMoves]
  BY SpendTyped DEF ServerMoves
<1>2. TypeOK'
  BY <1>1 DEF ServerMoves, IInv, TypeOK, connection
<1>3. down \in Seq(Answer) /\ JoinedFrame(r, TRUE) \in Answer
  BY AnswersTyped DEF ServerMoves, IInv, Greeting
<1>4. down' \in Seq(Answer)
  <2>1. PICK f \in Answer : down' = Append(down, f)
    BY <1>3 DEF ServerMoves, Reply
  <2> QED
    BY <1>3, <2>1
<1>5. Greeting' /\ HelloHasTicket' /\ SocketInv'
  BY <1>4 DEF ServerMoves, IInv, Greeting, HelloHasTicket, SocketInv, connection
<1> QED
  BY <1>2, <1>5, ServerStep DEF ServerMoves

LEMMA LapseInv == ASSUME IInv, NEW s \in Sessions, Lapse(s) PROVE IInv'
PROOF
<1>1. TypeOK'
  BY DEF Lapse, IInv, TypeOK, connection
<1>2. Greeting' /\ HelloHasTicket' /\ SocketInv'
  BY DEF Lapse, IInv, Greeting, HelloHasTicket, SocketInv, connection
<1> QED
  BY <1>1, <1>2, ServerStep DEF Lapse

-----------------------------------------------------------------------------

LEMMA StepInv == IInv /\ [Next]_vars => IInv'
PROOF
<1> SUFFICES ASSUME IInv, [Next]_vars PROVE IInv'
  OBVIOUS
<1>1. CASE UNCHANGED vars
  BY <1>1 DEF vars, connection, server, IInv, TypeOK, Greeting, SocketInv, TicketInv,
              NeverDead, HelloHasTicket, WaitersBelong
<1>2. CASE \/ \E r \in Rooms : JoinRoom(r) \/ ServerMoves(r)
           \/ RejoinRoom \/ LeaveRoom \/ PendingAges
           \/ \E s \in Slots : JoinReplied(s) \/ JoinFailed(s) \/ Mint(s) \/ Vanish(s)
  BY <1>2, JoinRoomInv, ServerMovesInv, RejoinRoomInv, LeaveRoomInv, PendingAgesInv,
     JoinRepliedInv, JoinFailedInv, MintInv, VanishInv
<1>3. CASE \/ TimerFires \/ SettingsFetched \/ SettingsFailed \/ Connected \/ Disconnected
           \/ Rehome \/ Welcome \/ HelloResumed \/ HelloFresh \/ ResumeRefused \/ JoinRefused
           \/ LeftReceived \/ RoomReceived
  BY <1>3, TimerFiresInv, SettingsFetchedInv, SettingsFailedInv, ConnectedInv,
     DisconnectedInv, RehomeInv, WelcomeInv, HelloResumedInv, HelloFreshInv,
     ResumeRefusedInv, JoinRefusedInv, LeftReceivedInv, RoomReceivedInv
<1>4. CASE ServeResume \/ ServeHello \/ ServeRoom \/ \E s \in Sessions : Lapse(s)
  BY <1>4, ServeResumeInv, ServeHelloInv, ServeRoomInv, LapseInv
<1> QED
  BY <1>1, <1>2, <1>3, <1>4 DEF Next

LEMMA SpecInv == Spec => []IInv
PROOF
BY InitInv, StepInv, PTL DEF Spec

\* The session is well-typed, whatever replies, drops and moves arrive when.
THEOREM SpecTypeOK == Spec => []TypeOK
PROOF
BY SpecInv, PTL DEF IInv

\* Signaling never stops trying: there is a session, a socket, or something that
\* leads to the next connect, after every failure there is.
THEOREM SpecNeverDead == Spec => []NeverDead
PROOF
BY SpecInv, PTL DEF IInv

\* A fresh hello goes out only on a connect that fetched a ticket: a refused resume
\* on a connect without one closes the socket first.
THEOREM SpecHelloHasTicket == Spec => []HelloHasTicket
PROOF
BY SpecInv, PTL DEF IInv

\* Those counted as waiting wait for a join of this connection that nothing has
\* answered yet: no count outlives the join, the room or the session it was for.
THEOREM SpecWaitersBelong == Spec => []WaitersBelong
PROOF
BY SpecInv, PTL DEF IInv

-----------------------------------------------------------------------------
(* The server has the client in the room it wants.                         *)

\* A session is opened or resumed by one hello and its answer; no room is joined before.
Handshake ==
    \/ auth /\ attached # NoSession /\ (sock = "open" => attached = resume.id)
       /\ (sock = "closing" => resume.id = NoSession)
       /\ (\A i \in 1..Len(up) : up[i].type = "room")
       /\ (\A i \in 1..Len(down) : down[i].type # "hello")
    \/ ~auth /\ up = <<>> /\ attached = NoSession
       /\ (down = <<>> \/ (sock = "open" /\ down \in {<<WelcomeFrame>>, <<ErrorFrame>>}))
    \/ ~auth /\ sock = "open" /\ up = <<HelloFrame(resume.id)>> /\ down = <<>>
       /\ attached = NoSession /\ (resume.asked <=> resume.id # NoSession)
    \/ ~auth /\ sock = "open" /\ up = <<>> /\ attached # NoSession
       /\ down # <<>> /\ Head(down) = HelloFrame(attached)
       /\ (\A i \in 2..Len(down) : down[i].type = "room")
       /\ (resume.asked <=> resume.id # NoSession)
       /\ (resume.id # NoSession => attached = resume.id)

\* What the server has announced last is the room the session is in.
Announced == \E i \in 1..Len(down) : down[i].type = "room"
LastAnnounced ==
    Announced =>
        /\ attached # NoSession
        /\ \E i \in 1..Len(down) :
               /\ down[i].type = "room" /\ down[i].to = member[attached]
               /\ \A j \in i + 1 .. Len(down) : down[j].type # "room"

OneLast == \A s, q \in Slots : post[s].last /\ post[q].last => s = q

\* The POST sent last, or its frame, with no leave behind it, is to join the room wanted.
PostJoins ==
    \E s \in Slots :
        /\ post[s].last /\ post[s].to = room.want
        /\ post[s].phase = "sent" \/ (post[s].phase = "minted" /\ post[s].live)
FrameJoins ==
    /\ \A s \in Slots : ~post[s].last
    /\ \E i \in 1..Len(up) :
           /\ up[i].type = "room" /\ up[i].to = room.want /\ up[i].live
           /\ \A j \in i + 1 .. Len(up) : up[j].type = "room" => up[j].to # NoRoom

\* The session is in a room: the one wanted, or one the client is still to learn of; a
\* leave the client waits for is over.
Leaves == \E i \in 1..Len(up) : up[i].type = "room" /\ up[i].to = NoRoom
InRoom ==
    /\ member[attached] # NoRoom
    /\ Announced \/ (member[attached] = room.want /\ room.acked)
    /\ room.leaving => Announced /\ ~Leaves

\* A leave will be announced to a client that does not wait for it any more.
LeaveSurprises ==
    ~room.leaving /\ \E i \in 1..Len(down) : down[i].type = "room" /\ down[i].to = NoRoom

Online ==
    auth /\ sock = "open" /\ ~excused /\ room.want # NoRoom =>
        PostJoins \/ FrameJoins \/ InRoom \/ LeaveSurprises

\* A session that can be resumed is in the room the client will believe it is in.
Offline ==
    ~auth =>
        /\ ~room.leaving
        /\ ~excused /\ room.want # NoRoom /\ resume.id # NoSession =>
              \/ PostJoins
              \/ /\ member[resume.id] # NoRoom
                 /\ Announced \/ (room.snapshot = room.want /\ member[resume.id] = room.want)

JoinInv == Handshake /\ LastAnnounced /\ OneLast /\ Online /\ Offline

LEMMA JoinInvInit == ASSUME Init PROVE JoinInv
PROOF
<1> USE DEF Init
<1>1. ~auth /\ up = <<>> /\ down = <<>> /\ attached = NoSession /\ Len(down) = 0
  OBVIOUS
<1>2. Handshake
  BY <1>1 DEF Handshake
<1>3. LastAnnounced
  BY <1>1 DEF LastAnnounced, Announced
<1>4. OneLast
  BY DEF OneLast, Free
<1>5. Online /\ Offline
  BY DEF Online, Offline
<1> QED
  BY <1>2, <1>3, <1>4, <1>5 DEF JoinInv

-----------------------------------------------------------------------------
(* Hello and its answer.                                                   *)

\* Nothing but frames about rooms is sent.
LEMMA HandshakeStays ==
    ASSUME Handshake, UNCHANGED <<connection, down, server>>,
           up' = up \/ (auth /\ \A i \in 1..Len(up') : up'[i].type = "room")
    PROVE  Handshake'
PROOF
<1>1. /\ sock' = sock /\ auth' = auth /\ resume' = resume /\ down' = down
      /\ attached' = attached
  BY DEF connection, server
<1>2. CASE up' = up
  BY <1>1, <1>2 DEF Handshake
<1>3. CASE auth /\ \A i \in 1..Len(up') : up'[i].type = "room"
  BY <1>1, <1>3 DEF Handshake
<1> QED
  BY <1>2, <1>3

LEMMA Sends ==
    ASSUME IInv, NEW f, Send(f)
    PROVE  /\ sock # "open" => up' = up
           /\ sock = "open" => up' = Append(up, f)
           /\ \A i \in 1..Len(up') :
                  \/ i \in 1..Len(up) /\ up'[i] = up[i]
                  \/ sock = "open" /\ i = Len(up) + 1 /\ up'[i] = f
           /\ Len(up) \in Nat
           /\ sock = "open" => Len(up') = Len(up) + 1 /\ up'[Len(up) + 1] = f
PROOF
<1>1. up \in Seq(UpFrame)
  BY DEF IInv, Greeting
<1>2. PICK new : new = up'
  OBVIOUS
<1>3. CASE sock # "open"
  BY <1>1, <1>3 DEF Send
<1>4. CASE sock = "open"
  <2>1. new = Append(up, f)
    BY <1>2, <1>4 DEF Send
  <2>2. Len(new) = Len(up) + 1 /\ new[Len(up) + 1] = f
        /\ \A i \in 1..Len(up) : new[i] = up[i]
    BY <1>1, <2>1
  <2>3. \A i \in 1..Len(new) : i \in 1..Len(up) \/ i = Len(up) + 1
    BY <1>1, <2>2
  <2> QED
    BY <1>1, <1>2, <1>4, <2>1, <2>2, <2>3
<1> QED
  BY <1>3, <1>4

LEMMA RoomFrameSent ==
    ASSUME IInv, Handshake, auth, UNCHANGED <<connection, down, server>>,
           NEW r, NEW live, Send(RoomFrame(r, live))
    PROVE  Handshake'
PROOF
<1>1. RoomFrame(r, live).type = "room"
  BY DEF RoomFrame
<1>2. \A i \in 1..Len(up) : up[i].type = "room"
  BY DEF Handshake
<1>3. \A i \in 1..Len(up') : up'[i].type = "room"
  BY <1>1, <1>2, Sends
<1> QED
  BY <1>3, HandshakeStays

\* The frames about rooms as Mint() leaves them.
LEMMA Minted ==
    ASSUME IInv, NEW s, Mint(s)
    PROVE  /\ Len(up') = Len(up) /\ Len(up) \in Nat
           /\ \A i \in 1..Len(up) : IF up[i].type = "room"
                  THEN up'[i].type = "room" /\ up'[i].to = up[i].to /\ ~up'[i].live
                  ELSE up'[i] = up[i]
           /\ (\A i \in 1..Len(up) : up[i].type # "room") => up' = up
PROOF
<1>1. up \in Seq(UpFrame)
  BY DEF IInv, Greeting
<1>2. up' = [i \in 1..Len(up) |->
                IF up[i].type = "room" THEN [up[i] EXCEPT !.live = FALSE] ELSE up[i]]
  BY DEF Mint
<1>3. PICK new : new = up'
  OBVIOUS
<1>4. Len(new) = Len(up) /\ Len(up) \in Nat
  BY <1>1, <1>2, <1>3
<1>5. ASSUME NEW i \in 1..Len(up), up[i].type = "room"
      PROVE  new[i].type = "room" /\ new[i].to = up[i].to /\ ~new[i].live
  <2>1. up[i] \in [type : {"room"}, to : Rooms \cup {NoRoom}, live : BOOLEAN]
    BY <1>1, <1>5 DEF UpFrame
  <2>2. new[i] = [up[i] EXCEPT !.live = FALSE]
    BY <1>2, <1>3, <1>5
  <2> QED
    BY <2>1, <2>2
<1>6. ASSUME \A i \in 1..Len(up) : up[i].type # "room" PROVE new = up
  <2>1. new = [i \in 1..Len(up) |-> up[i]]
    BY <1>2, <1>3, <1>6
  <2> QED
    BY <1>1, <2>1
<1>7. ASSUME NEW i \in 1..Len(up), up[i].type # "room" PROVE new[i] = up[i]
  BY <1>2, <1>3, <1>7
<1> QED
  BY <1>3, <1>4, <1>5, <1>6, <1>7

LEMMA MintHandshake == ASSUME IInv, Handshake, NEW s, Mint(s) PROVE Handshake'
PROOF
<1>1. UNCHANGED <<connection, down, server>>
  BY DEF Mint
<1>2. CASE auth
  <2>1. \A i \in 1..Len(up) : up[i].type = "room"
    BY <1>2 DEF Handshake
  <2>2. \A i \in 1..Len(up') : up'[i].type = "room"
    BY <2>1, Minted
  <2> QED
    BY <1>1, <1>2, <2>2, HandshakeStays
<1>3. CASE ~auth
  <2>1. \A i \in 1..Len(up) : up[i].type # "room"
    BY <1>3 DEF Handshake, HelloFrame
  <2> QED
    BY <1>1, <2>1, Minted, HandshakeStays
<1> QED
  BY <1>2, <1>3

LEMMA HelloApart ==
    /\ \A s : HelloFrame(s).type = "hello" /\ HelloFrame(s).session = s
    /\ ErrorFrame.type = "error" /\ WelcomeFrame.type = "welcome"
    /\ \A r, x : RoomFrame(r, x).type = "room" /\ RoomFrame(r, x).to = r
                 /\ RoomFrame(r, x).live = x
    /\ \A r, x : JoinedFrame(r, x).type = "room" /\ JoinedFrame(r, x).to = r
                 /\ JoinedFrame(r, x).moved = x
PROOF
BY DEF HelloFrame, ErrorFrame, WelcomeFrame, RoomFrame, JoinedFrame

\* An answer is taken off the socket.
LEMMA Popped ==
    ASSUME IInv, NEW type \in {"hello", "error", "room"}, Received(type), down' = Tail(down)
    PROVE  /\ Len(down) \in Nat \ {0} /\ Len(down') = Len(down) - 1
           /\ \A i \in 1..Len(down') : i + 1 \in 1..Len(down) /\ down'[i] = down[i + 1]
           /\ down[1] = Head(down) /\ Head(down).type = type
           /\ \A i \in 2..Len(down) : i - 1 \in 1..Len(down') /\ down'[i - 1] = down[i]
           /\ down # <<WelcomeFrame>> /\ down # <<>> /\ sock \in {"open", "closing"}
PROOF
<1>1. down \in Seq(Answer) /\ down # <<>> /\ Head(down).type = type /\ sock \in {"open", "closing"}
  BY Read DEF Received
<1>2. PICK new : new = down'
  OBVIOUS
<1>3. new = Tail(down)
  BY <1>2
<1>4. /\ Len(down) \in Nat \ {0} /\ Len(new) = Len(down) - 1
      /\ \A i \in 1..Len(new) : i + 1 \in 1..Len(down) /\ new[i] = down[i + 1]
      /\ down[1] = Head(down)
  BY <1>1, <1>3
<1>5. \A i \in 2..Len(down) : i - 1 \in 1..Len(new) /\ new[i - 1] = down[i]
  BY <1>1, <1>3, <1>4
<1>6. down # <<WelcomeFrame>>
  BY HelloApart DEF Received
<1> QED
  BY <1>1, <1>2, <1>4, <1>5, <1>6

\* An answer is added.
LEMMA Pushed ==
    ASSUME NEW f, down \in Seq(Answer), Reply(f)
    PROVE  /\ Len(down) \in Nat /\ Len(down') = Len(down) + 1
           /\ down'[Len(down) + 1] = f /\ \A i \in 1..Len(down) : down'[i] = down[i]
           /\ down = <<>> => down' = <<f>>
PROOF
<1>1. PICK new : new = down'
  OBVIOUS
<1>2. new = Append(down, f)
  BY <1>1 DEF Reply
<1>3. /\ Len(down) \in Nat /\ Len(new) = Len(down) + 1 /\ new[Len(down) + 1] = f
      /\ \A i \in 1..Len(down) : new[i] = down[i]
  BY <1>2
<1>4. down = <<>> => new = <<f>>
  BY <1>2
<1> QED
  BY <1>1, <1>3, <1>4

LEMMA ConnectHandshake ==
    ASSUME IInv, Handshake,
           TimerFires \/ SettingsFetched \/ SettingsFailed \/ Connected \/ Disconnected \/ Rehome
    PROVE  Handshake'
PROOF
<1>1. CASE TimerFires \/ SettingsFetched \/ SettingsFailed
  <2>1. up = <<>> /\ down = <<>> /\ ~auth /\ attached = NoSession
    BY <1>1 DEF TimerFires, SettingsFetched, SettingsFailed, IInv, SocketInv
  <2>2. up' = up /\ down' = down /\ auth' = auth /\ attached' = attached
    BY <1>1 DEF TimerFires, SettingsFetched, SettingsFailed, server
  <2> QED
    BY <2>1, <2>2 DEF Handshake
<1>2. CASE Connected
  <2>1. up = <<>> /\ ~auth /\ attached = NoSession
    BY <1>2 DEF Connected, IInv, SocketInv
  <2> QED
    BY <1>2, <2>1 DEF Connected, Handshake, server
<1>3. CASE Disconnected
  BY <1>3 DEF Disconnected, Handshake
<1>4. CASE Rehome
  <2>1. /\ auth' = auth /\ auth /\ attached' = attached /\ sock' = "closing"
        /\ resume'.id = NoSession /\ up' = up /\ down' = down
    BY <1>4 DEF Rehome, server
  <2>2. /\ \A i \in 1..Len(up) : up[i].type = "room"
        /\ \A i \in 1..Len(down) : down[i].type # "hello"
        /\ attached # NoSession
    BY <2>1 DEF Handshake
  <2> QED
    BY <2>1, <2>2 DEF Handshake
<1> QED
  BY <1>1, <1>2, <1>3, <1>4

LEMMA WelcomeHandshake == ASSUME IInv, Handshake, Welcome PROVE Handshake'
PROOF
<1>1. down = <<WelcomeFrame>> /\ up = <<>> /\ ~auth /\ attached = NoSession
  <2>1. ASSUME down \in Seq(Answer) PROVE FALSE
    BY <2>1, AnswerRead DEF Welcome, Received
  <2> QED
    BY <2>1 DEF IInv, Greeting
<1>2. sock = "open"
  BY <1>1 DEF Handshake
<1>3. up' = <<HelloFrame(resume.id)>>
  BY <1>1, <1>2 DEF Welcome, SendHello, Send
<1>4. down' = <<>> /\ sock' = sock /\ auth' = auth /\ attached' = attached
      /\ resume'.id = resume.id
  BY <1>1, ResumeTyped DEF Welcome, server, Resume
<1>5. resume'.asked <=> resume.id # NoSession
  <2>1. resume \in [id : Sessions \cup {NoSession}, asked : BOOLEAN, fast : BOOLEAN,
                    viaSettings : BOOLEAN]
    BY ResumeTyped DEF Resume
  <2>2. resume' = [resume EXCEPT !.asked = resume.id # NoSession]
    BY DEF Welcome
  <2> QED
    BY <2>1, <2>2
<1> QED
  BY <1>1, <1>2, <1>3, <1>4, <1>5 DEF Handshake

\* The session of a hello that arrives.
LEMMA HelloComes ==
    ASSUME IInv, Handshake, Received("hello"), down' = Tail(down)
    PROVE  /\ ~auth /\ sock = "open" /\ up = <<>> /\ attached # NoSession
           /\ Head(down) = HelloFrame(attached)
           /\ resume.asked <=> resume.id # NoSession
           /\ resume.id # NoSession => attached = resume.id
           /\ \A i \in 1..Len(down') : down'[i].type = "room"
PROOF
<1>1. /\ Len(down) \in Nat \ {0} /\ down[1] = Head(down) /\ Head(down).type = "hello"
      /\ down # <<>> /\ down # <<WelcomeFrame>>
      /\ \A i \in 1..Len(down') : i + 1 \in 1..Len(down) /\ down'[i] = down[i + 1]
      /\ Len(down') = Len(down) - 1
  BY Popped
<1>2. down # <<ErrorFrame>>
  BY <1>1, HelloApart
<1>3. ~auth
  BY <1>1 DEF Handshake
<1>4. /\ sock = "open" /\ up = <<>> /\ attached # NoSession
      /\ Head(down) = HelloFrame(attached)
      /\ resume.asked <=> resume.id # NoSession
      /\ resume.id # NoSession => attached = resume.id
      /\ \A i \in 2..Len(down) : down[i].type = "room"
  BY <1>1, <1>2, <1>3 DEF Handshake
<1>5. ASSUME NEW i \in 1..Len(down') PROVE down'[i].type = "room"
  <2>1. i + 1 \in 2..Len(down) /\ down'[i] = down[i + 1]
    BY <1>1
  <2> QED
    BY <1>4, <2>1
<1> QED
  BY <1>3, <1>4, <1>5

LEMMA HelloHandshake ==
    ASSUME IInv, Handshake, HelloResumed \/ HelloFresh
    PROVE  Handshake'
PROOF
<1>1. Received("hello") /\ down' = Tail(down) /\ up' = up /\ auth' = TRUE /\ sock' = sock
      /\ attached' = attached
  BY DEF HelloResumed, HelloFresh, server
<1>2. /\ ~auth /\ sock = "open" /\ up = <<>> /\ attached # NoSession
      /\ Head(down) = HelloFrame(attached)
      /\ resume.asked <=> resume.id # NoSession
      /\ resume.id # NoSession => attached = resume.id
      /\ \A i \in 1..Len(down') : down'[i].type = "room"
  BY <1>1, HelloComes
<1>3. resume'.id = attached
  <2>1. CASE HelloResumed
    <3>1. resume.id # NoSession
      BY <2>1, <1>2 DEF HelloResumed
    <3> QED
      BY <1>2, <2>1, <3>1, ResumeTyped DEF HelloResumed, Resume
  <2>2. CASE HelloFresh
    BY <1>2, <2>2, HelloApart DEF HelloFresh
  <2> QED
    BY <2>1, <2>2
<1>4. \A i \in 1..Len(up') : up'[i].type = "room"
  BY <1>1, <1>2
<1> QED
  BY <1>1, <1>2, <1>3, <1>4 DEF Handshake

LEMMA RefusedHandshake == ASSUME IInv, Handshake, ResumeRefused PROVE Handshake'
PROOF
<1>1. /\ down[1] = Head(down) /\ Head(down).type = "error" /\ down # <<WelcomeFrame>>
      /\ down # <<>> /\ Len(down) \in Nat \ {0} /\ ~auth
  BY Popped DEF ResumeRefused, IInv, TicketInv
<1>2. sock = "open" /\ up = <<>> /\ attached = NoSession /\ down = <<ErrorFrame>>
  BY <1>1, HelloApart DEF Handshake
<1>3. /\ down' = <<>> /\ auth' = auth /\ attached' = attached
      /\ resume'.id = NoSession /\ resume'.asked = FALSE
  BY <1>2 DEF ResumeRefused, server
<1>4. CASE resume.fast
  BY <1>1, <1>2, <1>3, <1>4 DEF ResumeRefused, Handshake
<1>5. CASE ~resume.fast
  <2>1. up' = <<HelloFrame(NoSession)>> /\ sock' = "open"
    BY <1>2, <1>5 DEF ResumeRefused, SendHello, Send
  <2> QED
    BY <1>1, <1>2, <1>3, <2>1 DEF Handshake
<1> QED
  BY <1>4, <1>5

\* A frame about a room, or the refusal of a join, is read.
LEMMA ReadHandshake ==
    ASSUME IInv, Handshake, NEW type \in {"error", "room"}, Received(type), down' = Tail(down),
           UNCHANGED <<connection, up, server>>
    PROVE  Handshake'
PROOF
<1>1. /\ down[1] = Head(down) /\ Head(down).type = type /\ down # <<WelcomeFrame>>
      /\ down # <<>> /\ Len(down) \in Nat \ {0}
      /\ \A i \in 1..Len(down') : i + 1 \in 1..Len(down) /\ down'[i] = down[i + 1]
  BY Popped
<1>2. /\ sock' = sock /\ auth' = auth /\ resume' = resume /\ up' = up /\ attached' = attached
  BY DEF connection, server
<1>3. CASE auth
  <2>1. \A i \in 1..Len(down') : down'[i].type # "hello"
    BY <1>1, <1>3 DEF Handshake
  <2> QED
    BY <1>2, <1>3, <2>1 DEF Handshake
<1>4. CASE ~auth
  <2>1. down = <<ErrorFrame>> /\ up = <<>> /\ attached = NoSession
    BY <1>1, <1>4, HelloApart DEF Handshake
  <2>2. down' = <<>>
    BY <2>1
  <2> QED
    BY <1>2, <1>4, <2>1, <2>2 DEF Handshake
<1> QED
  BY <1>3, <1>4

LEMMA ServeHandshake ==
    ASSUME IInv, Handshake, ServeResume \/ ServeHello
    PROVE  Handshake'
PROOF
<1>1. sock = "open" /\ up # <<>> /\ up' = Tail(up) /\ up \in Seq(UpFrame)
      /\ Head(up).type = "hello"
  BY DEF ServeResume, ServeHello, Reads, IInv, Greeting
<1>2. ~auth
  <2>1. 1 \in 1..Len(up) /\ up[1].type = "hello"
    BY <1>1
  <2> QED
    BY <2>1 DEF Handshake
<1>3. /\ up = <<HelloFrame(resume.id)>> /\ down = <<>> /\ attached = NoSession
      /\ (resume.asked <=> resume.id # NoSession)
  BY <1>1, <1>2 DEF Handshake
<1>4. /\ up' = <<>> /\ sock' = sock /\ auth' = auth /\ resume' = resume
      /\ Head(up).session = resume.id /\ down \in Seq(Answer)
  BY <1>1, <1>3, HelloApart DEF ServeResume, ServeHello, connection
<1>5. ASSUME NEW s \in Sessions, attached' = s, Reply(HelloFrame(s)),
             resume.id # NoSession => s = resume.id
      PROVE  Handshake'
  <2>1. down' = <<HelloFrame(s)>>
    BY <1>3, <1>4, <1>5, Pushed
  <2>2. s # NoSession
    BY SessionAssumption DEF NoSession
  <2>3. down' # <<>> /\ Head(down') = HelloFrame(s) /\ Len(down') = 1
    BY <2>1
  <2> QED
    BY <1>1, <1>2, <1>3, <1>4, <1>5, <2>2, <2>3 DEF Handshake
<1>6. CASE ServeResume
  <2>1. CASE Head(up).session \in alive
             /\ attached' = Head(up).session /\ Reply(HelloFrame(attached'))
    <3>1. Head(up).session \in Sessions
      BY <2>1 DEF IInv, TypeOK
    <3> QED
      BY <1>4, <1>5, <2>1, <3>1
  <2>2. CASE Reply(ErrorFrame) /\ UNCHANGED attached
    <3>1. down' = <<ErrorFrame>>
      BY <1>3, <1>4, <2>2, Pushed
    <3> QED
      BY <1>1, <1>2, <1>3, <1>4, <2>2, <3>1 DEF Handshake
  <2> QED
    BY <1>6, <2>1, <2>2 DEF ServeResume
<1>7. CASE ServeHello
  <2>1. PICK s \in Sessions \ alive : attached' = s /\ Reply(HelloFrame(s))
    BY <1>7 DEF ServeHello
  <2>2. resume.id = NoSession
    BY <1>4, <1>7 DEF ServeHello
  <2> QED
    BY <1>5, <2>1, <2>2
<1> QED
  BY <1>6, <1>7

\* A frame about a room is answered, or a move announced.
LEMMA AnnounceHandshake ==
    ASSUME IInv, Handshake, attached # NoSession, sock = "open",
           UNCHANGED <<connection, attached>>,
           \/ UNCHANGED up
           \/ auth /\ up' = Tail(up) /\ up \in Seq(UpFrame) /\ up # <<>>,
           NEW f, f.type = "room" \/ (auth /\ f.type = "error"),
           down \in Seq(Answer), Reply(f)
    PROVE  Handshake'
PROOF
<1>1. /\ sock' = sock /\ auth' = auth /\ resume' = resume
  BY DEF connection
<1>2. PICK new : new = down'
  OBVIOUS
<1>3. /\ Len(down) \in Nat /\ Len(new) = Len(down) + 1
      /\ new[Len(down) + 1] = f /\ \A i \in 1..Len(down) : new[i] = down[i]
  BY <1>2, Pushed
<1>4. \A i \in 1..Len(new) : i \in 1..Len(down) \/ i = Len(down) + 1
  BY <1>3
<1>5. CASE auth
  <2>1. \A i \in 1..Len(new) : new[i].type # "hello"
    BY <1>3, <1>4, <1>5 DEF Handshake
  <2>2. \A i \in 1..Len(up') : up'[i].type = "room"
    <3>1. CASE UNCHANGED up
      BY <1>5, <3>1 DEF Handshake
    <3>2. CASE up' = Tail(up) /\ up \in Seq(UpFrame) /\ up # <<>>
      <4>1. \A i \in 1..Len(Tail(up)) : i + 1 \in 1..Len(up) /\ Tail(up)[i] = up[i + 1]
        BY <3>2
      <4> QED
        BY <1>5, <3>2, <4>1 DEF Handshake
    <3> QED
      BY <3>1, <3>2
  <2> QED
    BY <1>1, <1>2, <1>5, <2>1, <2>2 DEF Handshake
<1>6. CASE ~auth
  <2>1. /\ sock = "open" /\ up = <<>> /\ down # <<>> /\ Head(down) = HelloFrame(attached)
        /\ (resume.asked <=> resume.id # NoSession)
        /\ (resume.id # NoSession => attached = resume.id)
        /\ \A i \in 2..Len(down) : down[i].type = "room"
    BY <1>6 DEF Handshake
  <2>2. Len(down) >= 1 /\ new[1] = Head(down)
    BY <1>3, <2>1
  <2>3. new # <<>> /\ Head(new) = HelloFrame(attached)
    <3>1. new = Append(down, f)
      BY <1>2 DEF Reply
    <3> QED
      BY <1>3, <2>1, <2>2, <3>1
  <2>4. \A i \in 2..Len(new) : new[i].type = "room"
    BY <1>3, <1>4, <1>6, <2>1, <2>2
  <2> QED
    BY <1>1, <1>2, <1>6, <2>1, <2>3, <2>4 DEF Handshake
<1> QED
  BY <1>5, <1>6

-----------------------------------------------------------------------------
(* What is announced.                                                      *)

LEMMA SameAnnounced ==
    ASSUME LastAnnounced, UNCHANGED <<down, attached, member>>
    PROVE  LastAnnounced' /\ (Announced' <=> Announced)
PROOF
BY DEF LastAnnounced, Announced

LEMMA NoneAnnounced ==
    ASSUME \A i \in 1..Len(down') : down'[i].type # "room"
    PROVE  LastAnnounced' /\ ~Announced'
PROOF
BY DEF LastAnnounced, Announced

LEMMA PopAnnounces ==
    ASSUME IInv, LastAnnounced, NEW type \in {"hello", "error", "room"}, Received(type),
           down' = Tail(down), UNCHANGED <<attached, member>>
    PROVE  /\ LastAnnounced'
           /\ type # "room" => (Announced' <=> Announced)
           /\ type = "room" => Announced'
                  \/ (attached # NoSession /\ Head(down).to = member[attached])
           /\ Announced' => \E i \in 1..Len(down') :
                  down'[i].type = "room" /\ down'[i].to = member[attached]
           /\ Announced /\ (type = "room" => Head(down).to # member[attached]) => Announced'
PROOF
<1>1. /\ Len(down) \in Nat \ {0} /\ Len(down') = Len(down) - 1
      /\ \A i \in 1..Len(down') : i + 1 \in 1..Len(down) /\ down'[i] = down[i + 1]
      /\ down[1] = Head(down) /\ Head(down).type = type
      /\ \A i \in 2..Len(down) : i - 1 \in 1..Len(down') /\ down'[i - 1] = down[i]
  BY Popped
<1>2. Announced' => Announced
  BY <1>1 DEF Announced
<1>3. CASE ~Announced
  <2>1. ~Announced' /\ type # "room"
    BY <1>1, <1>2, <1>3 DEF Announced
  <2> QED
    BY <1>3, <2>1 DEF LastAnnounced
<1>4. CASE Announced
  <2>1. PICK i \in 1..Len(down) :
            /\ down[i].type = "room" /\ down[i].to = member[attached]
            /\ \A j \in i + 1 .. Len(down) : down[j].type # "room"
    BY <1>4 DEF LastAnnounced
  <2>2. attached # NoSession
    BY <1>4 DEF LastAnnounced
  <2>3. CASE i = 1
    <3>1. \A j \in 1..Len(down') : down'[j].type # "room"
      BY <1>1, <2>1, <2>3
    <3> QED
      BY <1>1, <2>1, <2>2, <2>3, <3>1, NoneAnnounced
  <2>4. CASE i \in 2..Len(down)
    <3>1. /\ i - 1 \in 1..Len(down')
          /\ down'[i - 1].type = "room" /\ down'[i - 1].to = member[attached]
      BY <1>1, <2>1, <2>4
    <3>2. ASSUME NEW j \in (i - 1) + 1 .. Len(down') PROVE down'[j].type # "room"
      <4>1. j \in 1..Len(down') /\ j + 1 \in i + 1 .. Len(down)
        BY <1>1, <2>4, <3>2
      <4> QED
        BY <1>1, <2>1, <4>1
    <3>3. Announced'
      BY <3>1 DEF Announced
    <3>4. LastAnnounced'
      BY <2>2, <3>1, <3>2 DEF LastAnnounced
    <3> QED
      BY <1>4, <3>1, <3>3, <3>4
  <2> QED
    BY <2>1, <2>3, <2>4
<1> QED
  BY <1>3, <1>4

LEMMA PushAnnounces ==
    ASSUME LastAnnounced, NEW f, down \in Seq(Answer), Reply(f), attached' = attached,
           \/ f.type = "room" /\ attached # NoSession /\ f.to = member'[attached]
           \/ f.type # "room" /\ member' = member
    PROVE  /\ LastAnnounced' /\ (f.type = "room" => Announced')
           /\ (Announced => Announced')
PROOF
<1>1. /\ Len(down) \in Nat /\ Len(down') = Len(down) + 1
      /\ down'[Len(down) + 1] = f /\ \A i \in 1..Len(down) : down'[i] = down[i]
  BY Pushed
<1>2. 1..Len(down') = 1..Len(down) \cup {Len(down) + 1}
  BY <1>1
<1>3. Announced => Announced'
  BY <1>1, <1>2 DEF Announced
<1>4. CASE f.type = "room" /\ attached # NoSession /\ f.to = member'[attached]
  <2>1. Len(down') \in 1..Len(down') /\ down'[Len(down')] = f
        /\ \A j \in Len(down') + 1 .. Len(down') : FALSE
    BY <1>1
  <2>2. Announced'
    BY <1>4, <2>1 DEF Announced
  <2> QED
    BY <1>3, <1>4, <2>1, <2>2 DEF LastAnnounced
<1>5. CASE f.type # "room" /\ member' = member
  <2>1. Announced' => Announced
    BY <1>1, <1>2, <1>5 DEF Announced
  <2>2. ASSUME Announced PROVE LastAnnounced'
    <3>1. PICK i \in 1..Len(down) :
              /\ down[i].type = "room" /\ down[i].to = member[attached]
              /\ \A j \in i + 1 .. Len(down) : down[j].type # "room"
      BY <2>2 DEF LastAnnounced
    <3>2. i \in 1..Len(down') /\ down'[i] = down[i]
      BY <1>1
    <3>3. ASSUME NEW j \in i + 1 .. Len(down') PROVE down'[j].type # "room"
      <4>1. j \in i + 1 .. Len(down) \/ j = Len(down) + 1
        BY <1>1
      <4>2. ASSUME j \in i + 1 .. Len(down) PROVE j \in 1..Len(down)
        BY <1>1, <4>2
      <4> QED
        BY <1>1, <1>5, <3>1, <4>1, <4>2
    <3> QED
      BY <1>5, <2>2, <3>1, <3>2, <3>3 DEF LastAnnounced
  <2> QED
    BY <1>3, <1>5, <2>1, <2>2 DEF LastAnnounced
<1> QED
  BY <1>4, <1>5

-----------------------------------------------------------------------------
(* The POST sent last.                                                     *)

LEMMA FreeIsNotLast == ~Free.last /\ Free.phase = "free"
PROOF
BY DEF Free

LEMMA PostedLast ==
    ASSUME NEW posts \in [Slots -> Request], NEW r, Posted(posts, r), room'.want = r
    PROVE  OneLast' /\ PostJoins'
PROOF
<1>1. PICK s \in Slots :
          post' = [q \in Slots |->
              IF q = s THEN [to |-> r, phase |-> "sent", live |-> FALSE, last |-> TRUE]
              ELSE [posts[q] EXCEPT !.last = FALSE]]
  BY DEF Posted
<1>2. ASSUME NEW q \in Slots, q # s PROVE ~post'[q].last
  <2>1. posts[q] \in Request /\ post'[q] = [posts[q] EXCEPT !.last = FALSE]
    BY <1>1, <1>2
  <2> QED
    BY <2>1 DEF Request
<1>3. post'[s].last /\ post'[s].to = r /\ post'[s].phase = "sent"
  BY <1>1
<1> QED
  BY <1>2, <1>3 DEF OneLast, PostJoins

\* A POST is over: the one sent last may be, the others are not concerned.
LEMMA PostOver ==
    ASSUME IInv, OneLast, NEW s \in Slots,
           post' = [post EXCEPT ![s] = Free] \/ post' = [post EXCEPT ![s].phase = "orphan"]
    PROVE  /\ OneLast'
           /\ \A q \in Slots : /\ q # s => post'[q] = post[q]
                               /\ post'[q].last => post[q].last
                               /\ post'[q].to = post[q].to \/ ~post'[q].last
           /\ room'.want = room.want /\ post[s].to # room.want =>
                  /\ PostJoins => PostJoins'
           /\ (\A q \in Slots : ~post[q].last) => \A q \in Slots : ~post'[q].last
PROOF
<1>1. \A q \in Slots : post[q] \in Request
  BY PostTyped
<1>2. ASSUME NEW q \in Slots
      PROVE  /\ q # s => post'[q] = post[q]
             /\ post'[q].last => post[q].last
             /\ post'[q].to = post[q].to \/ ~post'[q].last
  <2>0. post \in [Slots -> Request]
    BY PostTyped
  <2>1. CASE q # s
    BY <2>0, <2>1
  <2>2. CASE q = s /\ post' = [post EXCEPT ![s] = Free]
    <3>1. post'[q] = Free
      BY <2>0, <2>2
    <3> QED
      BY <2>2, <3>1, FreeIsNotLast
  <2>3. CASE q = s /\ post' = [post EXCEPT ![s].phase = "orphan"]
    <3>1. post'[q] = [post[q] EXCEPT !.phase = "orphan"]
      BY <2>0, <2>3
    <3> QED
      BY <1>1, <2>3, <3>1 DEF Request
  <2> QED
    BY <2>1, <2>2, <2>3
<1>3. OneLast'
  BY <1>2 DEF OneLast
<1>4. ASSUME room'.want = room.want, post[s].to # room.want, PostJoins PROVE PostJoins'
  BY <1>2, <1>4 DEF PostJoins
<1> QED
  BY <1>2, <1>3, <1>4

LEMMA MintLast ==
    ASSUME IInv, OneLast, NEW s \in Slots, Mint(s)
    PROVE  /\ OneLast'
           /\ PostJoins => PostJoins' \/ excused'
           /\ FrameJoins => excused'
PROOF
<1>1. \A q \in Slots : post[q] \in Request
  BY PostTyped
<1>2. UNCHANGED room /\ excused' = (excused \/ Overtaken(s))
  BY DEF Mint
<1>3. ASSUME NEW q \in Slots
      PROVE  /\ post'[q].last => post[q].last /\ post'[q].to = post[q].to
             /\ q # s => /\ post'[q].last = post[q].last /\ post'[q].phase = post[q].phase
                         /\ post'[q].to = post[q].to /\ ~post'[q].live
             /\ q = s => \/ post[s].phase = "orphan" /\ ~post'[q].last
                         \/ /\ post'[q].phase = "minted" /\ post'[q].live
                            /\ post'[q].last = post[q].last /\ post'[q].to = post[q].to
                            /\ post[s].phase = "sent"
  <2>1. CASE q # s
    <3>1. post'[q] = [post[q] EXCEPT !.live = FALSE]
      BY <2>1 DEF Mint
    <3> QED
      BY <1>1, <2>1, <3>1 DEF Request
  <2>2. CASE q = s /\ post[s].phase = "orphan"
    <3>1. post'[q] = Free
      BY <2>2 DEF Mint
    <3> QED
      BY <2>2, <3>1, FreeIsNotLast
  <2>3. CASE q = s /\ post[s].phase # "orphan"
    <3>1. post'[q] = [post[s] EXCEPT !.phase = "minted", !.live = TRUE] /\ post[s].phase = "sent"
      BY <2>3 DEF Mint
    <3> QED
      BY <1>1, <2>3, <3>1 DEF Request
  <2> QED
    BY <2>1, <2>2, <2>3
<1>4. OneLast'
  BY <1>3 DEF OneLast
<1>5. ASSUME PostJoins, ~excused' PROVE PostJoins'
  <2>1. PICK q \in Slots :
            /\ post[q].last /\ post[q].to = room.want
            /\ post[q].phase = "sent" \/ (post[q].phase = "minted" /\ post[q].live)
    BY <1>5 DEF PostJoins
  <2>2. CASE q = s
    <3>1. post'[q].last /\ post'[q].to = room.want /\ post'[q].phase = "minted" /\ post'[q].live
      BY <1>3, <2>1, <2>2
    <3> QED
      BY <1>2, <3>1 DEF PostJoins
  <2>3. CASE q # s
    <3>1. ~post[s].last
      BY <2>1, <2>3 DEF OneLast
    <3>2. post[q].phase = "sent"
      BY <1>2, <1>5, <2>1, <3>1 DEF Overtaken
    <3>3. post'[q].last /\ post'[q].to = room.want /\ post'[q].phase = "sent"
      BY <1>3, <2>1, <2>3, <3>2
    <3> QED
      BY <1>2, <3>3 DEF PostJoins
  <2> QED
    BY <2>2, <2>3
<1>6. FrameJoins => excused'
  BY <1>2 DEF FrameJoins, Overtaken
<1> QED
  BY <1>4, <1>5, <1>6

-----------------------------------------------------------------------------
(* Rooms.                                                                  *)

LEMMA NothingAmiss ==
    ASSUME excused' \/ PostJoins', ~auth' => ~room'.leaving
    PROVE  Online' /\ Offline'
PROOF
BY DEF Online, Offline

\* A step of the room and its POSTs that keeps the joins under way.
LEMMA CalmStep ==
    ASSUME IInv, JoinInv, UNCHANGED <<connection, down, server>>,
           excused' \/ ~excused,
           room'.want = room.want, room'.acked = room.acked,
           room'.snapshot = room.snapshot, room'.leaving = room.leaving,
           PostJoins => PostJoins' \/ FrameJoins' \/ excused',
           ~auth /\ PostJoins => PostJoins' \/ excused',
           FrameJoins => FrameJoins' \/ excused',
           Leaves' => Leaves
    PROVE  Online' /\ Offline'
PROOF
<1>1. /\ sock' = sock /\ auth' = auth /\ resume' = resume /\ down' = down
      /\ attached' = attached /\ member' = member
  BY DEF connection, server
<1>2. Announced' <=> Announced
  BY <1>1 DEF Announced
<1>3. InRoom => InRoom'
  BY <1>1, <1>2 DEF InRoom
<1>4. LeaveSurprises => LeaveSurprises'
  BY <1>1 DEF LeaveSurprises
<1>5. Online'
  BY <1>1, <1>3, <1>4 DEF JoinInv, Online
<1>6. Offline'
  BY <1>1, <1>2 DEF JoinInv, Offline
<1> QED
  BY <1>5, <1>6

LEMMA JoinedAgain ==
    ASSUME IInv, JoinInv, NEW r, room' = Joining(room, r)
    PROVE  room'.want = r /\ room'.leaving = room.leaving
PROOF
BY DEF Joining, IInv, TypeOK

LEMMA AuthOrNotLeaving == ASSUME JoinInv PROVE auth \/ ~room.leaving
PROOF
BY DEF JoinInv, Offline

LEMMA JoinRoomKeeps == ASSUME IInv, JoinInv, NEW r \in Rooms, JoinRoom(r) PROVE JoinInv'
PROOF
<1>1. UNCHANGED <<connection, down, server>> /\ up' = up
      /\ UNCHANGED <<down, attached, member>> /\ auth' = auth
  BY DEF JoinRoom, connection, server
<1>2. Handshake' /\ LastAnnounced'
  BY <1>1, HandshakeStays, SameAnnounced DEF JoinInv
<1>3. CASE room' = [room EXCEPT !.waiting = TRUE] /\ UNCHANGED <<post, excused>>
  <2>1. /\ room'.want = room.want /\ room'.acked = room.acked
        /\ room'.snapshot = room.snapshot /\ room'.leaving = room.leaving
    BY <1>3 DEF IInv, TypeOK
  <2>2. OneLast' /\ (PostJoins => PostJoins') /\ (FrameJoins => FrameJoins') /\ (Leaves' => Leaves)
    BY <1>1, <1>3, <2>1 DEF JoinInv, OneLast, PostJoins, FrameJoins, Leaves
  <2>3. Online' /\ Offline'
    BY <1>1, <1>3, <2>1, <2>2, CalmStep
  <2> QED
    BY <1>2, <2>2, <2>3 DEF JoinInv
<1>4. CASE room' = Joining(room, r) /\ Posted(post, r)
  <2>1. OneLast' /\ PostJoins'
    BY <1>4, PostTyped, JoinedAgain, PostedLast
  <2>2. Online' /\ Offline'
    BY <1>1, <1>4, <2>1, JoinedAgain, AuthOrNotLeaving, NothingAmiss
  <2> QED
    BY <1>2, <2>1, <2>2 DEF JoinInv
<1> QED
  BY <1>3, <1>4 DEF JoinRoom

LEMMA RejoinRoomKeeps == ASSUME IInv, JoinInv, RejoinRoom PROVE JoinInv'
PROOF
<1>1. UNCHANGED <<connection, down, server>> /\ up' = up
      /\ UNCHANGED <<down, attached, member>> /\ auth' = auth
  BY DEF RejoinRoom, connection, server
<1>2. Handshake' /\ LastAnnounced'
  BY <1>1, HandshakeStays, SameAnnounced DEF JoinInv
<1>3. room' = Joining(room, room.want) /\ Posted(post, room.want)
  BY DEF RejoinRoom
<1>4. OneLast' /\ PostJoins'
  BY <1>3, PostTyped, JoinedAgain, PostedLast
<1>5. Online' /\ Offline'
  BY <1>1, <1>3, <1>4, JoinedAgain, AuthOrNotLeaving, NothingAmiss
<1> QED
  BY <1>2, <1>4, <1>5 DEF JoinInv

LEMMA LeaveRoomKeeps == ASSUME IInv, JoinInv, LeaveRoom PROVE JoinInv'
PROOF
<1>1. UNCHANGED <<connection, down, server>> /\ UNCHANGED <<down, attached, member>>
      /\ auth' = auth /\ auth /\ post' = post /\ excused' = TRUE
      /\ Send(RoomFrame(NoRoom, FALSE))
  BY DEF LeaveRoom, connection, server
<1>2. Handshake' /\ LastAnnounced'
  BY <1>1, RoomFrameSent, SameAnnounced DEF JoinInv
<1>3. OneLast'
  BY <1>1 DEF JoinInv, OneLast
<1>4. Online' /\ Offline'
  BY <1>1, NothingAmiss
<1> QED
  BY <1>2, <1>3, <1>4 DEF JoinInv

LEMMA PendingAgesKeeps == ASSUME IInv, JoinInv, PendingAges PROVE JoinInv'
PROOF
<1>1. UNCHANGED <<connection, down, server>> /\ up' = up /\ post' = post /\ excused' = excused
      /\ UNCHANGED <<down, attached, member>>
  BY DEF PendingAges, connection, server
<1>2. Handshake' /\ LastAnnounced'
  BY <1>1, HandshakeStays, SameAnnounced DEF JoinInv
<1>3. /\ room'.want = room.want /\ room'.acked = room.acked
      /\ room'.snapshot = room.snapshot /\ room'.leaving = room.leaving
  BY DEF PendingAges, IInv, TypeOK
<1>4. OneLast' /\ (PostJoins => PostJoins') /\ (FrameJoins => FrameJoins') /\ (Leaves' => Leaves)
  BY <1>1, <1>3 DEF JoinInv, OneLast, PostJoins, FrameJoins, Leaves
<1>5. Online' /\ Offline'
  BY <1>1, <1>3, <1>4, CalmStep
<1> QED
  BY <1>2, <1>4, <1>5 DEF JoinInv

LEMMA JoinRepliedKeeps == ASSUME IInv, JoinInv, NEW s \in Slots, JoinReplied(s) PROVE JoinInv'
PROOF
<1>1. UNCHANGED <<connection, down, server>> /\ UNCHANGED <<down, attached, member>>
      /\ room' = room /\ post' = [post EXCEPT ![s] = Free] /\ post[s].phase = "minted"
      /\ auth' = auth /\ sock' = sock
  BY DEF JoinReplied, connection, server
<1>2. LastAnnounced' /\ Handshake /\ OneLast
  BY <1>1, SameAnnounced DEF JoinInv
<1>3. /\ OneLast'
      /\ \A q \in Slots : (q # s => post'[q] = post[q]) /\ (post'[q].last => post[q].last)
      /\ post[s].to # room.want /\ PostJoins => PostJoins'
      /\ (\A q \in Slots : ~post[q].last) => \A q \in Slots : ~post'[q].last
  BY <1>1, <1>2, PostOver
<1>4. CASE ~(post[s].to = room.want /\ auth)
  <2>1. up' = up /\ excused' = (excused \/ post[s].to = room.want)
    BY <1>4 DEF JoinReplied
  <2>2. Handshake'
    BY <1>1, <1>2, <2>1, HandshakeStays
  <2>3. FrameJoins => FrameJoins'
    BY <1>1, <1>3, <2>1 DEF FrameJoins
  <2>4. Leaves' => Leaves
    BY <2>1 DEF Leaves
  <2>5. PostJoins => PostJoins' \/ excused'
    BY <1>3, <2>1
  <2>6. Online' /\ Offline'
    BY <1>1, <2>1, <2>3, <2>4, <2>5, CalmStep
  <2> QED
    BY <1>2, <1>3, <2>2, <2>6 DEF JoinInv
<1>5. CASE post[s].to = room.want /\ auth /\ sock # "open"
  <2>1. up' = up
    BY <1>5 DEF JoinReplied, Send
  <2>2. Handshake'
    BY <1>1, <1>2, <2>1, HandshakeStays
  <2>3. Online' /\ Offline'
    BY <1>1, <1>5 DEF Online, Offline
  <2> QED
    BY <1>2, <1>3, <2>2, <2>3 DEF JoinInv
<1>6. CASE post[s].to = room.want /\ auth /\ sock = "open"
  <2> DEFINE f == RoomFrame(post[s].to, post[s].live)
  <2>1. Send(f) /\ excused' = excused
    BY <1>6 DEF JoinReplied
  <2>2. Handshake'
    BY <1>1, <1>2, <1>6, <2>1, RoomFrameSent
  <2>3. f.type = "room" /\ f.to = room.want /\ f.live = post[s].live
    BY <1>6, HelloApart
  <2> HIDE DEF f
  <2>4. /\ Len(up) \in Nat /\ Len(up') = Len(up) + 1 /\ up'[Len(up) + 1] = f
        /\ \A i \in 1..Len(up') : \/ i \in 1..Len(up) /\ up'[i] = up[i]
                                  \/ i = Len(up) + 1 /\ up'[i] = f
    BY <1>6, <2>1, Sends
  <2>5. \A i \in 1..Len(up) : up'[i] = up[i]
    BY <2>4
  <2>6. Online'
    <3> SUFFICES ASSUME ~excused, room.want # NoRoom
                 PROVE  PostJoins' \/ FrameJoins' \/ InRoom' \/ LeaveSurprises'
      BY <1>1, <2>1 DEF Online
    <3>1. CASE PostJoins
      <4>1. PICK q \in Slots :
                /\ post[q].last /\ post[q].to = room.want
                /\ post[q].phase = "sent" \/ (post[q].phase = "minted" /\ post[q].live)
        BY <3>1 DEF PostJoins
      <4>2. CASE q # s
        BY <1>1, <1>3, <4>1, <4>2 DEF PostJoins
      <4>3. CASE q = s
        <5>1. \A p \in Slots : ~post'[p].last
          <6>1. ASSUME NEW p \in Slots, post'[p].last PROVE FALSE
            <7>1. p = s
              BY <1>2, <1>3, <4>1, <4>3, <6>1 DEF OneLast
            <7>2. post'[p] = Free
              BY <1>1, <7>1, PostTyped
            <7> QED
              BY <6>1, <7>2, FreeIsNotLast
          <6> QED
            BY <6>1
        <5>2. post[s].live
          BY <1>1, <4>1, <4>3
        <5>3. \A j \in Len(up) + 1 + 1 .. Len(up') : FALSE
          BY <2>4
        <5>4. Len(up) + 1 \in 1..Len(up')
          BY <2>4
        <5> QED
          BY <1>1, <2>3, <2>4, <5>1, <5>2, <5>3, <5>4 DEF FrameJoins
      <4> QED
        BY <4>2, <4>3
    <3>2. CASE FrameJoins
      <4>1. PICK i \in 1..Len(up) :
                /\ up[i].type = "room" /\ up[i].to = room.want /\ up[i].live
                /\ \A j \in i + 1 .. Len(up) : up[j].type = "room" => up[j].to # NoRoom
        BY <3>2 DEF FrameJoins
      <4>2. i \in 1..Len(up') /\ up'[i] = up[i]
        BY <2>4, <2>5
      <4>3. ASSUME NEW j \in i + 1 .. Len(up'), up'[j].type = "room" PROVE up'[j].to # NoRoom
        <5>1. j \in 1..Len(up')
          BY <2>4, <4>3
        <5>2. CASE j \in 1..Len(up)
          <6>1. j \in i + 1 .. Len(up) /\ up'[j] = up[j]
            BY <2>4, <2>5, <4>3, <5>2
          <6> QED
            BY <4>1, <4>3, <6>1
        <5>3. CASE j = Len(up) + 1
          BY <2>3, <2>4, <5>3
        <5> QED
          BY <2>4, <5>1, <5>2, <5>3
      <4>4. \A q \in Slots : ~post'[q].last
        BY <1>3, <3>2 DEF FrameJoins
      <4> QED
        BY <1>1, <4>1, <4>2, <4>3, <4>4 DEF FrameJoins
    <3>3. CASE InRoom
      <4>1. Leaves' => Leaves
        BY <2>3, <2>4 DEF Leaves
      <4> QED
        BY <1>1, <3>3, <4>1 DEF InRoom, Announced
    <3>4. CASE LeaveSurprises
      BY <1>1, <3>4 DEF LeaveSurprises
    <3> QED
      BY <1>6, <3>1, <3>2, <3>3, <3>4 DEF JoinInv, Online
  <2>7. Offline'
    BY <1>1, <1>6 DEF Offline
  <2> QED
    BY <1>2, <1>3, <2>2, <2>6, <2>7 DEF JoinInv
<1> QED
  BY <1>4, <1>5, <1>6

LEMMA JoinFailedKeeps == ASSUME IInv, JoinInv, NEW s \in Slots, JoinFailed(s) PROVE JoinInv'
PROOF
<1>1. UNCHANGED <<connection, down, server>> /\ UNCHANGED <<down, attached, member>>
      /\ up' = up /\ auth' = auth
  BY DEF JoinFailed, connection, server
<1>2. LastAnnounced' /\ Handshake' /\ OneLast
  BY <1>1, SameAnnounced, HandshakeStays DEF JoinInv
<1> DEFINE done == [post EXCEPT ![s] = IF @.phase = "sent" THEN [@ EXCEPT !.phase = "orphan"]
                                       ELSE Free]
<1>3. /\ done \in [Slots -> Request]
      /\ done = [post EXCEPT ![s] = Free] \/ done = [post EXCEPT ![s].phase = "orphan"]
  <2>1. post \in [Slots -> Request] /\ Free \in Request
        /\ [post[s] EXCEPT !.phase = "orphan"] \in Request
    BY PostTyped DEF Free, Request
  <2> QED
    BY <2>1
<1>4. \/ post' = done /\ room' = room /\ excused' = excused /\ post[s].to # room.want
      \/ room' = Joining(room, room.want) /\ Posted(done, room.want)
      \/ /\ room' = [room EXCEPT !.pending = "none", !.waiting = FALSE]
         /\ post' = done /\ excused' = TRUE
  BY DEF JoinFailed
<1> HIDE DEF done
<1>5. CASE post' = done /\ room' = room /\ excused' = excused /\ post[s].to # room.want
  <2>1. /\ OneLast' /\ (PostJoins => PostJoins')
        /\ (\A q \in Slots : ~post[q].last) => \A q \in Slots : ~post'[q].last
    BY <1>2, <1>3, <1>5, PostOver
  <2>2. (FrameJoins => FrameJoins') /\ (Leaves' => Leaves)
    BY <1>1, <1>5, <2>1 DEF FrameJoins, Leaves
  <2>3. Online' /\ Offline'
    BY <1>1, <1>5, <2>1, <2>2, CalmStep
  <2> QED
    BY <1>2, <2>1, <2>3 DEF JoinInv
<1>6. CASE room' = Joining(room, room.want) /\ Posted(done, room.want)
  <2>1. OneLast' /\ PostJoins'
    BY <1>3, <1>6, JoinedAgain, PostedLast
  <2>2. Online' /\ Offline'
    BY <1>1, <1>6, <2>1, JoinedAgain, AuthOrNotLeaving, NothingAmiss
  <2> QED
    BY <1>2, <2>1, <2>2 DEF JoinInv
<1>7. CASE /\ room' = [room EXCEPT !.pending = "none", !.waiting = FALSE]
           /\ post' = done /\ excused' = TRUE
  <2>1. OneLast'
    BY <1>2, <1>3, <1>7, PostOver
  <2>2. room'.leaving = room.leaving
    BY <1>7 DEF IInv, TypeOK
  <2>3. Online' /\ Offline'
    BY <1>1, <1>7, <2>2, AuthOrNotLeaving, NothingAmiss
  <2> QED
    BY <1>2, <2>1, <2>3 DEF JoinInv
<1> QED
  BY <1>4, <1>5, <1>6, <1>7

LEMMA MintKeeps == ASSUME IInv, JoinInv, NEW s \in Slots, Mint(s) PROVE JoinInv'
PROOF
<1>1. UNCHANGED <<connection, down, server>> /\ UNCHANGED <<down, attached, member>>
      /\ room' = room /\ excused' = (excused \/ Overtaken(s))
  BY DEF Mint, connection, server
<1>2. LastAnnounced' /\ Handshake'
  BY <1>1, SameAnnounced, MintHandshake DEF JoinInv
<1>3. OneLast' /\ (PostJoins => PostJoins' \/ excused') /\ (FrameJoins => excused')
  BY MintLast DEF JoinInv
<1>4. Leaves' => Leaves
  <2>1. ASSUME NEW i \in 1..Len(up'), up'[i].type = "room", up'[i].to = NoRoom
        PROVE  i \in 1..Len(up) /\ up[i].type = "room" /\ up[i].to = NoRoom
    BY <2>1, Minted
  <2> QED
    BY <2>1 DEF Leaves
<1>5. Online' /\ Offline'
  BY <1>1, <1>3, <1>4, CalmStep
<1> QED
  BY <1>2, <1>3, <1>5 DEF JoinInv

LEMMA VanishKeeps == ASSUME IInv, JoinInv, NEW s \in Slots, Vanish(s) PROVE JoinInv'
PROOF
<1>1. UNCHANGED <<connection, down, server>> /\ UNCHANGED <<down, attached, member>>
      /\ up' = up /\ room' = room /\ excused' = excused /\ post[s].phase = "orphan"
      /\ post' = [post EXCEPT ![s] = Free]
  BY DEF Vanish, connection, server
<1>2. LastAnnounced' /\ Handshake' /\ OneLast
  BY <1>1, SameAnnounced, HandshakeStays DEF JoinInv
<1>3. /\ OneLast' /\ \A q \in Slots : q # s => post'[q] = post[q]
      /\ (\A q \in Slots : ~post[q].last) => \A q \in Slots : ~post'[q].last
  BY <1>1, <1>2, PostOver
<1>4. PostJoins => PostJoins'
  BY <1>1, <1>3 DEF PostJoins
<1>5. (FrameJoins => FrameJoins') /\ (Leaves' => Leaves)
  BY <1>1, <1>3 DEF FrameJoins, Leaves
<1>6. Online' /\ Offline'
  BY <1>1, <1>4, <1>5, CalmStep
<1> QED
  BY <1>2, <1>3, <1>6 DEF JoinInv

-----------------------------------------------------------------------------
(* Connecting.                                                             *)

\* No session yet, and still none: what can be resumed stays where it is.
LEMMA OfflineStep ==
    ASSUME IInv, JoinInv, ~auth, ~auth', UNCHANGED <<room, post, excused>>,
           resume'.id = resume.id \/ resume'.id = NoSession,
           resume'.id # NoSession => member' = member /\ (Announced => Announced')
    PROVE  OneLast' /\ Online' /\ Offline'
PROOF
<1>1. OneLast' /\ (PostJoins => PostJoins')
  BY DEF JoinInv, OneLast, PostJoins
<1>2. Online'
  BY DEF Online
<1>3. Offline'
  BY <1>1 DEF JoinInv, Offline
<1> QED
  BY <1>1, <1>2, <1>3

LEMMA ConnectKeeps ==
    ASSUME IInv, JoinInv,
           TimerFires \/ SettingsFetched \/ SettingsFailed \/ Connected \/ Rehome
    PROVE  JoinInv'
PROOF
<1>1. Handshake'
  BY ConnectHandshake DEF JoinInv
<1>2. CASE TimerFires \/ SettingsFetched \/ SettingsFailed
  <2>1. up = <<>> /\ down = <<>> /\ ~auth /\ attached = NoSession
    BY <1>2 DEF TimerFires, SettingsFetched, SettingsFailed, IInv, SocketInv
  <2>2. /\ down' = down /\ auth' = auth /\ UNCHANGED <<down, attached, member>>
        /\ UNCHANGED <<room, post, excused>>
    BY <1>2 DEF TimerFires, SettingsFetched, SettingsFailed, server
  <2>3. resume'.id = resume.id \/ resume'.id = NoSession
    BY <1>2, ResumeTyped
       DEF TimerFires, SettingsFetched, SettingsFailed, AfterFailure, Resume
  <2>4. LastAnnounced' /\ (Announced => Announced')
    BY <2>2, SameAnnounced DEF JoinInv
  <2> QED
    BY <1>1, <2>1, <2>2, <2>3, <2>4, OfflineStep DEF JoinInv
<1>3. CASE Connected
  <2>1. down = <<>> /\ ~auth
    BY <1>3 DEF Connected, IInv, SocketInv
  <2>2. /\ auth' = auth /\ resume' = resume /\ member' = member /\ down' = <<WelcomeFrame>>
        /\ UNCHANGED <<room, post, excused>>
    BY <1>3 DEF Connected, server
  <2>3. LastAnnounced' /\ ~Announced
    <3>1. \A i \in 1..Len(down') : down'[i].type # "room"
      BY <2>2, HelloApart
    <3> QED
      BY <2>1, <3>1, NoneAnnounced DEF Announced
  <2> QED
    BY <1>1, <2>1, <2>2, <2>3, OfflineStep DEF JoinInv
<1>4. CASE Rehome
  <2>1. /\ auth' /\ sock' = "closing" /\ UNCHANGED <<down, attached, member>> /\ post' = post
    BY <1>4 DEF Rehome, server
  <2>2. LastAnnounced' /\ OneLast'
    BY <2>1, SameAnnounced DEF JoinInv, OneLast
  <2>3. Online' /\ Offline'
    BY <2>1 DEF Online, Offline
  <2> QED
    BY <1>1, <2>2, <2>3 DEF JoinInv
<1> QED
  BY <1>2, <1>3, <1>4

LEMMA DisconnectedKeeps == ASSUME IInv, JoinInv, Disconnected PROVE JoinInv'
PROOF
<1>1. /\ sock' = "closed" /\ auth' = FALSE /\ up' = <<>> /\ down' = <<>>
      /\ post' = post /\ member' = member /\ excused' = (excused \/ RoomFrameLost)
      /\ resume' = IF auth THEN resume ELSE AfterFailure(resume)
  BY DEF Disconnected
<1>2. Handshake'
  BY ConnectHandshake DEF JoinInv
<1>3. LastAnnounced'
  BY <1>1, NoneAnnounced
<1>4. OneLast'
  BY <1>1 DEF JoinInv, OneLast
<1>5. Online'
  BY <1>1 DEF Online
<1>6. /\ ~room'.leaving /\ room'.want = room.want
      /\ room'.snapshot = IF ~auth THEN room.snapshot
                          ELSE IF room.acked THEN room.want ELSE NoRoom
  BY DEF Disconnected, IInv, TypeOK
<1>7. PostJoins => PostJoins'
  BY <1>1, <1>6 DEF PostJoins
<1>8. Offline'
  <2> SUFFICES ASSUME ~excused', room.want # NoRoom, resume'.id # NoSession
               PROVE  PostJoins' \/ (/\ member[resume'.id] # NoRoom
                                     /\ room'.snapshot = room.want
                                     /\ member[resume'.id] = room.want)
    BY <1>1, <1>6 DEF Offline
  <2>1. ~excused /\ ~Announced /\ \A i \in 1..Len(up) : up[i].type # "room"
    BY <1>1 DEF RoomFrameLost, Announced
  <2>2. resume'.id = resume.id
    BY <1>1, ResumeTyped DEF AfterFailure, Resume
  <2>3. CASE ~auth
    BY <1>6, <1>7, <2>1, <2>2, <2>3 DEF JoinInv, Offline
  <2>4. CASE auth
    <3>1. sock = "open" /\ attached = resume.id
      BY <2>2, <2>4 DEF JoinInv, Handshake, IInv, TypeOK
    <3>2. ~FrameJoins /\ ~LeaveSurprises
      BY <2>1 DEF FrameJoins, LeaveSurprises, Announced
    <3>3. PostJoins \/ InRoom
      BY <2>1, <2>4, <3>1, <3>2 DEF JoinInv, Online
    <3>4. InRoom => member[attached] # NoRoom /\ member[attached] = room.want /\ room.acked
      BY <2>1 DEF InRoom
    <3> QED
      BY <1>6, <1>7, <2>2, <2>4, <3>1, <3>3, <3>4
  <2> QED
    BY <2>3, <2>4
<1> QED
  BY <1>2, <1>3, <1>4, <1>5, <1>8 DEF JoinInv

-----------------------------------------------------------------------------
(* onTextMessage().                                                        *)

LEMMA WelcomeKeeps == ASSUME IInv, JoinInv, Welcome PROVE JoinInv'
PROOF
<1>1. ~auth /\ down = <<WelcomeFrame>>
  <2>1. ASSUME down \in Seq(Answer) PROVE FALSE
    BY <2>1, AnswerRead DEF Welcome, Received
  <2> QED
    BY <2>1 DEF IInv, Greeting
<1>2. /\ auth' = auth /\ down' = <<>> /\ member' = member /\ UNCHANGED <<room, post, excused>>
  BY <1>1 DEF Welcome, server
<1>3. resume'.id = resume.id
  BY ResumeTyped DEF Welcome, Resume
<1>4. ~Announced /\ LastAnnounced'
  <2>1. \A i \in 1..Len(down) : down[i].type # "room"
    BY <1>1, HelloApart
  <2> QED
    BY <1>2, <2>1, NoneAnnounced DEF Announced
<1>5. Handshake'
  BY WelcomeHandshake DEF JoinInv
<1> QED
  BY <1>1, <1>2, <1>3, <1>4, <1>5, OfflineStep DEF JoinInv

LEMMA HelloResumedKeeps == ASSUME IInv, JoinInv, HelloResumed PROVE JoinInv'
PROOF
<1>1. /\ Received("hello") /\ down' = Tail(down) /\ auth' = TRUE /\ resume.asked
      /\ UNCHANGED <<attached, member>> /\ UNCHANGED <<post, excused>> /\ sock' = sock
  BY DEF HelloResumed, server
<1>2. /\ ~auth /\ attached = resume.id /\ resume.id # NoSession
  BY <1>1, HelloComes DEF JoinInv
<1>3. LastAnnounced' /\ (Announced' <=> Announced)
  BY <1>1, PopAnnounces DEF JoinInv
<1>4. Handshake'
  BY HelloHandshake DEF JoinInv
<1>5. OneLast'
  BY <1>1 DEF JoinInv, OneLast
<1>6. /\ room'.want = room.want /\ room'.leaving = room.leaving
      /\ room.snapshot = room.want /\ room.want # NoRoom => room'.acked
  BY DEF HelloResumed, IInv, TypeOK
<1>7. ~room.leaving
  BY <1>2, AuthOrNotLeaving
<1>8. PostJoins => PostJoins'
  BY <1>1, <1>6 DEF PostJoins
<1>9. Online'
  <2> SUFFICES ASSUME ~excused, room.want # NoRoom PROVE PostJoins' \/ InRoom'
    BY <1>1, <1>6 DEF Online
  <2>1. CASE PostJoins
    BY <1>8, <2>1
  <2>2. CASE /\ member[resume.id] # NoRoom
             /\ Announced \/ (room.snapshot = room.want /\ member[resume.id] = room.want)
    BY <1>1, <1>2, <1>3, <1>6, <1>7, <2>2 DEF InRoom
  <2> QED
    BY <1>2, <2>1, <2>2 DEF JoinInv, Offline
<1>10. Offline'
  BY <1>1 DEF Offline
<1> QED
  BY <1>3, <1>4, <1>5, <1>9, <1>10 DEF JoinInv

LEMMA HelloFreshKeeps == ASSUME IInv, JoinInv, HelloFresh PROVE JoinInv'
PROOF
<1>1. /\ Received("hello") /\ down' = Tail(down) /\ auth' = TRUE
      /\ UNCHANGED <<attached, member>>
  BY DEF HelloFresh, server
<1>2. LastAnnounced' /\ Handshake'
  BY <1>1, PopAnnounces, HelloHandshake DEF JoinInv
<1>3. CASE room.want = NoRoom /\ room' = [room EXCEPT !.snapshot = NoRoom] /\ post' = post
  <2>1. room'.want = NoRoom
    BY <1>3 DEF IInv, TypeOK
  <2>2. Online' /\ Offline' /\ OneLast'
    BY <1>1, <1>3, <2>1 DEF Online, Offline, OneLast, JoinInv
  <2> QED
    BY <1>2, <2>2 DEF JoinInv
<1>4. CASE room' = Joining(room, room.want) /\ Posted(post, room.want)
  <2>1. OneLast' /\ PostJoins'
    BY <1>4, PostTyped, JoinedAgain, PostedLast
  <2>2. Online' /\ Offline'
    BY <1>1, <2>1, NothingAmiss
  <2> QED
    BY <1>2, <2>1, <2>2 DEF JoinInv
<1> QED
  BY <1>3, <1>4 DEF HelloFresh

LEMMA ResumeRefusedKeeps == ASSUME IInv, JoinInv, ResumeRefused PROVE JoinInv'
PROOF
<1>1. /\ Received("error") /\ down' = Tail(down) /\ auth' = auth /\ ~auth
      /\ UNCHANGED <<attached, member>> /\ UNCHANGED <<room, post, excused>>
      /\ resume'.id = NoSession
  BY DEF ResumeRefused, server, IInv, TicketInv
<1>2. LastAnnounced' /\ Handshake'
  BY <1>1, PopAnnounces, RefusedHandshake DEF JoinInv
<1>3. OneLast' /\ Online' /\ Offline'
  BY <1>1, OfflineStep
<1> QED
  BY <1>2, <1>3 DEF JoinInv

LEMMA JoinRefusedKeeps == ASSUME IInv, JoinInv, JoinRefused PROVE JoinInv'
PROOF
<1>1. /\ Received("error") /\ down' = Tail(down) /\ auth' = auth /\ sock' = sock
      /\ UNCHANGED <<attached, member>> /\ UNCHANGED <<room, post, excused>>
      /\ resume' = resume /\ up' = up /\ UNCHANGED <<connection, up, server>>
  BY DEF JoinRefused, server, connection
<1>2. LastAnnounced' /\ (Announced' <=> Announced) /\ Handshake'
  BY <1>1, PopAnnounces, ReadHandshake DEF JoinInv
<1>3. CASE ~auth
  <2>1. OneLast' /\ Online' /\ Offline'
    BY <1>1, <1>2, <1>3, OfflineStep
  <2> QED
    BY <1>2, <2>1 DEF JoinInv
<1>4. CASE auth
  <2>1. OneLast' /\ (PostJoins => PostJoins') /\ (FrameJoins => FrameJoins')
        /\ (InRoom => InRoom')
    BY <1>1, <1>2 DEF JoinInv, OneLast, PostJoins, FrameJoins, InRoom, Leaves
  <2>2. LeaveSurprises => LeaveSurprises'
    <3> SUFFICES ASSUME LeaveSurprises PROVE LeaveSurprises'
      OBVIOUS
    <3>1. PICK i \in 1..Len(down) : down[i].type = "room" /\ down[i].to = NoRoom
      BY DEF LeaveSurprises
    <3>2. /\ down[1].type = "error" /\ Len(down) \in Nat
          /\ \A j \in 2..Len(down) : j - 1 \in 1..Len(down') /\ down'[j - 1] = down[j]
      BY <1>1, Popped
    <3>3. i \in 2..Len(down)
      BY <3>1, <3>2
    <3> QED
      BY <1>1, <3>1, <3>2, <3>3 DEF LeaveSurprises
  <2>3. Online' /\ Offline'
    BY <1>1, <1>4, <2>1, <2>2 DEF JoinInv, Online, Offline
  <2> QED
    BY <1>2, <2>1, <2>3 DEF JoinInv
<1> QED
  BY <1>3, <1>4

\* A frame about a room comes to a session.
LEMMA RoomComes ==
    ASSUME IInv, JoinInv, Received("room")
    PROVE  auth
PROOF
<1>1. down # <<>> /\ Head(down).type = "room"
  BY DEF Received
<1>2. down # <<WelcomeFrame>> /\ down # <<ErrorFrame>> /\ Head(down) # HelloFrame(attached)
  BY <1>1, HelloApart
<1> QED
  BY <1>1, <1>2 DEF JoinInv, Handshake

LEMMA LeftReceivedKeeps == ASSUME IInv, JoinInv, LeftReceived PROVE JoinInv'
PROOF
<1>1. /\ Received("room") /\ Head(down).to = NoRoom /\ room.leaving /\ down' = Tail(down)
      /\ UNCHANGED <<attached, member>> /\ UNCHANGED <<post, excused>>
      /\ up' = up /\ UNCHANGED <<connection, up, server>> /\ auth' = auth /\ sock' = sock
  BY DEF LeftReceived, server, connection
<1>2. /\ room'.want = room.want /\ room'.acked = room.acked /\ ~room'.leaving
  BY DEF LeftReceived, IInv, TypeOK
<1>3. auth
  BY <1>1, RoomComes
<1>4. /\ LastAnnounced' /\ Handshake'
      /\ Announced /\ Head(down).to # member[attached] => Announced'
  BY <1>1, PopAnnounces, ReadHandshake DEF JoinInv
<1>5. OneLast' /\ (PostJoins => PostJoins') /\ (FrameJoins => FrameJoins')
  BY <1>1, <1>2 DEF JoinInv, OneLast, PostJoins, FrameJoins
<1>6. InRoom => InRoom'
  BY <1>1, <1>2, <1>4 DEF InRoom
<1>7. ~LeaveSurprises
  BY <1>1 DEF LeaveSurprises
<1>8. Online' /\ Offline'
  BY <1>1, <1>2, <1>3, <1>5, <1>6, <1>7 DEF JoinInv, Online, Offline
<1> QED
  BY <1>4, <1>5, <1>8 DEF JoinInv

\* Once an announcement is taken for what it says, the client believes the last one.
LEMMA RoomReceivedKeeps == ASSUME IInv, JoinInv, RoomReceived PROVE JoinInv'
PROOF
<1>1. /\ Received("room") /\ down' = Tail(down)
      /\ UNCHANGED <<attached, member>> /\ post' = post
      /\ up' = up /\ UNCHANGED <<connection, up, server>> /\ auth' = auth /\ sock' = sock
      /\ excused' = (excused \/ (Head(down).to # room.want /\ ~Head(down).moved))
  BY DEF RoomReceived, server, connection
<1>2. Head(down).to = NoRoom => ~Head(down).moved
  BY <1>1, Read, AnswerRead
<1>3. /\ room'.acked /\ ~room'.leaving
      /\ room'.want = IF Head(down).to # NoRoom /\ room.want # NoRoom THEN Head(down).to
                      ELSE room.want
  BY DEF RoomReceived, IInv, TypeOK
<1>4. auth
  BY <1>1, RoomComes
<1>5. /\ LastAnnounced' /\ Handshake'
      /\ Announced' \/ (attached # NoSession /\ Head(down).to = member[attached])
      /\ Announced' => \E i \in 1..Len(down') :
             down'[i].type = "room" /\ down'[i].to = member[attached]
  BY <1>1, PopAnnounces, ReadHandshake DEF JoinInv
<1>6. OneLast'
  BY <1>1 DEF JoinInv, OneLast
<1>7. Online'
  <2> SUFFICES ASSUME sock = "open", ~excused', room'.want # NoRoom
               PROVE  InRoom' \/ LeaveSurprises'
    BY <1>1 DEF Online
  <2>1. CASE Announced' /\ member[attached] # NoRoom
    BY <1>1, <1>3, <2>1 DEF InRoom
  <2>2. CASE Announced' /\ member[attached] = NoRoom
    BY <1>3, <1>5, <2>2 DEF LeaveSurprises
  <2>3. CASE ~Announced'
    <3>1. Head(down).to = member[attached]
      BY <1>5, <2>3
    <3>2. Head(down).to # NoRoom
      BY <1>1, <1>2, <1>3
    <3> QED
      BY <1>1, <1>3, <3>1, <3>2 DEF InRoom
  <2> QED
    BY <2>1, <2>2, <2>3
<1>8. Offline'
  BY <1>1, <1>4 DEF Offline
<1> QED
  BY <1>5, <1>6, <1>7, <1>8 DEF JoinInv

-----------------------------------------------------------------------------
(* The servers.                                                            *)

LEMMA AnswersOnly == ASSUME IInv, attached # NoSession \/ up # <<>> PROVE down \in Seq(Answer)
PROOF
BY DEF IInv, Greeting

LEMMA ServeHelloKeeps ==
    ASSUME IInv, JoinInv, ServeResume \/ ServeHello
    PROVE  JoinInv'
PROOF
<1>1. sock = "open" /\ up # <<>> /\ up \in Seq(UpFrame) /\ Head(up).type = "hello"
  BY DEF ServeResume, ServeHello, Reads, IInv, Greeting
<1>2. ~auth
  <2>1. 1 \in 1..Len(up) /\ up[1].type = "hello"
    BY <1>1
  <2> QED
    BY <2>1 DEF JoinInv, Handshake
<1>3. up = <<HelloFrame(resume.id)>> /\ down = <<>>
  BY <1>1, <1>2 DEF JoinInv, Handshake
<1>4. /\ Head(up).session = resume.id /\ down \in Seq(Answer)
      /\ auth' = auth /\ resume' = resume /\ UNCHANGED <<room, post, excused>>
  BY <1>3, HelloApart DEF ServeResume, ServeHello, connection
<1>5. Handshake'
  BY ServeHandshake DEF JoinInv
<1>6. ~Announced /\ LastAnnounced'
  <2>1. \E f : f.type # "room" /\ Reply(f)
    BY HelloApart DEF ServeResume, ServeHello
  <2>2. PICK f : f.type # "room" /\ Reply(f)
    BY <2>1
  <2>3. down' = <<f>>
    BY <1>3, <1>4, <2>2, Pushed
  <2>4. \A i \in 1..Len(down') : down'[i].type # "room"
    BY <2>2, <2>3
  <2> QED
    BY <1>3, <2>4, NoneAnnounced DEF Announced
<1>7. resume.id # NoSession => member' = member
  BY <1>4 DEF ServeResume, ServeHello
<1> QED
  BY <1>2, <1>4, <1>5, <1>6, <1>7, OfflineStep DEF JoinInv

LEMMA ServeRoomKeeps == ASSUME IInv, JoinInv, ServeRoom PROVE JoinInv'
PROOF
<1>1. PICK f : f = Head(up)
  OBVIOUS
<1>2. /\ sock = "open" /\ up # <<>> /\ up' = Tail(up) /\ up \in Seq(UpFrame)
      /\ f.type = "room" /\ f.to \in Rooms \cup {NoRoom} /\ f.live \in BOOLEAN
      /\ down \in Seq(Answer)
  BY <1>1, FrameRead, UpRead, AnswersOnly DEF ServeRoom, Reads, IInv, Greeting
<1>3. /\ Len(up) \in Nat \ {0} /\ up[1] = f /\ Len(up') = Len(up) - 1
      /\ \A i \in 1..Len(up') : i + 1 \in 1..Len(up) /\ up'[i] = up[i + 1]
      /\ \A i \in 2..Len(up) : i - 1 \in 1..Len(up') /\ up'[i - 1] = up[i]
  <2>1. PICK new : new = up'
    OBVIOUS
  <2>2. new = Tail(up)
    BY <1>2, <2>1
  <2>3. /\ Len(up) \in Nat \ {0} /\ up[1] = f /\ Len(new) = Len(up) - 1
        /\ \A i \in 1..Len(new) : i + 1 \in 1..Len(up) /\ new[i] = up[i + 1]
    BY <1>1, <1>2, <2>2
  <2>4. \A i \in 2..Len(up) : i - 1 \in 1..Len(new) /\ new[i - 1] = up[i]
    BY <1>2, <2>2, <2>3
  <2> QED
    BY <2>1, <2>3, <2>4
<1>4. auth
  <2>1. 1 \in 1..Len(up) /\ up[1].type = "room"
    BY <1>2, <1>3
  <2> QED
    BY <2>1, HelloApart DEF JoinInv, Handshake
<1>5. /\ attached \in Sessions /\ attached # NoSession /\ attached' = attached
      /\ UNCHANGED <<connection, attached>> /\ UNCHANGED <<room, post>>
      /\ auth' = auth /\ sock' = sock
  BY <1>4 DEF JoinInv, Handshake, IInv, TypeOK, ServeRoom, connection
<1>6. OneLast' /\ (PostJoins => PostJoins') /\ Offline'
  BY <1>4, <1>5 DEF JoinInv, OneLast, PostJoins, Offline
<1>7. \A s \in Slots : post'[s] = post[s]
  BY <1>5
<1>8. Leaves' => Leaves
  BY <1>3 DEF Leaves
\* A frame that joins and is not the one that is read.
<1>9. ASSUME NEW i \in 2..Len(up), up[i].type = "room", up[i].to = room.want, up[i].live,
             \A j \in i + 1 .. Len(up) : up[j].type = "room" => up[j].to # NoRoom,
             \A s \in Slots : ~post[s].last
      PROVE  FrameJoins'
  <2>1. /\ i - 1 \in 1..Len(up') /\ up'[i - 1] = up[i]
    BY <1>3, <1>9
  <2>2. ASSUME NEW j \in (i - 1) + 1 .. Len(up'), up'[j].type = "room" PROVE up'[j].to # NoRoom
    <3>1. j \in 1..Len(up') /\ j + 1 \in i + 1 .. Len(up)
      BY <1>3, <1>9, <2>2
    <3> QED
      BY <1>3, <1>9, <2>2, <3>1
  <2> QED
    BY <1>5, <1>7, <1>9, <2>1, <2>2 DEF FrameJoins
<1>10. ASSUME FrameJoins, f.to = room.want /\ f.live => FALSE PROVE FrameJoins'
  <2>1. PICK i \in 1..Len(up) :
            /\ up[i].type = "room" /\ up[i].to = room.want /\ up[i].live
            /\ \A j \in i + 1 .. Len(up) : up[j].type = "room" => up[j].to # NoRoom
    BY <1>10 DEF FrameJoins
  <2>2. i \in 2..Len(up)
    BY <1>3, <1>10, <2>1
  <2>3. \A s \in Slots : ~post[s].last
    BY <1>10 DEF FrameJoins
  <2> QED
    BY <1>9, <2>1, <2>2, <2>3
<1>11. CASE /\ f.to = NoRoom \/ (f.live /\ member[attached] # f.to)
            /\ member' = [member EXCEPT ![attached] = f.to]
            /\ Reply(JoinedFrame(f.to, FALSE)) /\ UNCHANGED excused
  <2> DEFINE g == JoinedFrame(f.to, FALSE)
  <2>1. g.type = "room" /\ g.to = f.to
    BY DEF JoinedFrame
  <2>2. Reply(g)
    BY <1>11
  <2> HIDE DEF g
  <2>3. member'[attached] = f.to
    BY <1>5, <1>11 DEF IInv, TypeOK
  <2>4. LastAnnounced' /\ Announced'
    BY <1>2, <1>5, <2>1, <2>2, <2>3, PushAnnounces DEF JoinInv
  <2>5. Handshake'
    BY <1>2, <1>4, <1>5, <2>1, <2>2, AnnounceHandshake DEF JoinInv
  <2>6. Len(down) + 1 \in 1..Len(down') /\ down'[Len(down) + 1] = g
        /\ \A i \in 1..Len(down) : i \in 1..Len(down') /\ down'[i] = down[i]
    BY <1>2, <2>2, Pushed
  <2>7. LeaveSurprises => LeaveSurprises'
    BY <1>5, <2>6 DEF LeaveSurprises
  <2>8. Online'
    <3> SUFFICES ASSUME ~excused, room.want # NoRoom
                 PROVE  PostJoins' \/ FrameJoins' \/ InRoom' \/ LeaveSurprises'
      BY <1>5, <1>11 DEF Online
    <3>1. CASE f.to = NoRoom
      <4>1. FrameJoins => FrameJoins'
        BY <1>10, <3>1
      <4>2. InRoom => LeaveSurprises'
        <5>1. Leaves
          BY <1>2, <1>3, <3>1 DEF Leaves
        <5>2. InRoom => ~room.leaving
          BY <5>1 DEF InRoom
        <5> QED
          BY <1>5, <2>1, <2>6, <3>1, <5>2 DEF LeaveSurprises
      <4> QED
        BY <1>2, <1>4, <1>6, <2>7, <4>1, <4>2 DEF JoinInv, Online
    <3>2. CASE f.to # NoRoom /\ ~room.leaving
      BY <1>5, <2>3, <2>4, <3>2 DEF InRoom
    <3>3. CASE f.to # NoRoom /\ room.leaving
      <4>1. CASE PostJoins
        BY <1>6, <4>1
      <4>2. CASE InRoom
        BY <1>5, <1>8, <2>3, <2>4, <3>3, <4>2 DEF InRoom
      <4>3. CASE FrameJoins /\ ~(f.to = room.want /\ f.live)
        BY <1>10, <4>3
      <4>4. CASE FrameJoins /\ f.to = room.want
        <5>1. PICK i \in 1..Len(up) :
                  /\ up[i].type = "room" /\ up[i].to = room.want /\ up[i].live
                  /\ \A j \in i + 1 .. Len(up) : up[j].type = "room" => up[j].to # NoRoom
          BY <4>4 DEF FrameJoins
        <5>2. CASE i = 1
          <6>1. ~Leaves'
            <7>1. ASSUME NEW j \in 1..Len(up'), up'[j].type = "room" PROVE up'[j].to # NoRoom
              <8>1. j + 1 \in i + 1 .. Len(up) /\ up'[j] = up[j + 1]
                BY <1>3, <5>2
              <8> QED
                BY <5>1, <7>1, <8>1
            <7> QED
              BY <7>1 DEF Leaves
          <6> QED
            BY <1>5, <2>3, <2>4, <3>3, <6>1 DEF InRoom
        <5>3. CASE i # 1
          <6>1. i \in 2..Len(up) /\ \A s \in Slots : ~post[s].last
            BY <1>3, <4>4, <5>3 DEF FrameJoins
          <6> QED
            BY <1>9, <5>1, <6>1
        <5> QED
          BY <5>2, <5>3
      <4>5. ~LeaveSurprises
        BY <3>3 DEF LeaveSurprises
      <4> QED
        BY <1>2, <1>4, <4>1, <4>2, <4>3, <4>4, <4>5 DEF JoinInv, Online
    <3> QED
      BY <3>1, <3>2, <3>3
  <2> QED
    BY <1>6, <2>4, <2>5, <2>8 DEF JoinInv
<1>12. CASE /\ ~(f.to = NoRoom \/ (f.live /\ member[attached] # f.to))
            /\ Reply(ErrorFrame) /\ excused' = (excused \/ f.live) /\ UNCHANGED member
  <2>1. LastAnnounced' /\ (Announced => Announced')
    BY <1>2, <1>5, <1>12, HelloApart, PushAnnounces DEF JoinInv
  <2>2. Handshake'
    BY <1>2, <1>4, <1>5, <1>12, HelloApart, AnnounceHandshake DEF JoinInv
  <2>3. \A i \in 1..Len(down) : i \in 1..Len(down') /\ down'[i] = down[i]
    BY <1>2, <1>12, Pushed
  <2>4. LeaveSurprises => LeaveSurprises'
    BY <1>5, <2>3 DEF LeaveSurprises
  <2>5. InRoom => InRoom'
    BY <1>5, <1>8, <1>12, <2>1 DEF InRoom
  <2>6. ~excused' /\ FrameJoins => FrameJoins'
    BY <1>10, <1>12
  <2>7. Online'
    BY <1>5, <1>6, <1>12, <2>4, <2>5, <2>6 DEF JoinInv, Online
  <2> QED
    BY <1>6, <2>1, <2>2, <2>7 DEF JoinInv
<1> QED
  BY <1>1, <1>11, <1>12 DEF ServeRoom

\* A move is announced: no frame says any more which room is wanted, but the session is
\* in a room.
LEMMA ServerMovesKeeps == ASSUME IInv, JoinInv, NEW r \in Rooms, ServerMoves(r) PROVE JoinInv'
PROOF
<1>1. /\ sock = "open" /\ attached # NoSession /\ member[attached] # NoRoom
      /\ member' = [member EXCEPT ![attached] = r] /\ Reply(JoinedFrame(r, TRUE))
      /\ UNCHANGED <<connection, attached>> /\ UNCHANGED <<room, post, up, excused>>
      /\ auth' = auth /\ resume' = resume /\ sock' = sock /\ attached' = attached
  BY DEF ServerMoves, connection
<1>2. attached \in Sessions /\ member'[attached] = r /\ r # NoRoom
  BY <1>1, SessionAssumption DEF IInv, TypeOK
<1>3. down \in Seq(Answer)
  BY <1>1, AnswersOnly
<1> DEFINE g == JoinedFrame(r, TRUE)
<1>4. g.type = "room" /\ g.to = r
  BY DEF JoinedFrame
<1>5. Reply(g)
  BY <1>1
<1> HIDE DEF g
<1>6. LastAnnounced' /\ Announced'
  BY <1>1, <1>2, <1>3, <1>4, <1>5, PushAnnounces DEF JoinInv
<1>7. Handshake'
  BY <1>1, <1>3, <1>4, <1>5, AnnounceHandshake DEF JoinInv
<1>8. \A i \in 1..Len(down) : i \in 1..Len(down') /\ down'[i] = down[i]
  BY <1>3, <1>5, Pushed
<1>9. OneLast' /\ (PostJoins => PostJoins') /\ (FrameJoins => FrameJoins')
  BY <1>1 DEF JoinInv, OneLast, PostJoins, FrameJoins
<1>10. LeaveSurprises => LeaveSurprises'
  BY <1>1, <1>8 DEF LeaveSurprises
<1>11. InRoom => InRoom'
  BY <1>1, <1>2, <1>6 DEF InRoom, Leaves
<1>12. Online'
  BY <1>1, <1>9, <1>10, <1>11 DEF JoinInv, Online
<1>13. Offline'
  <2> SUFFICES ASSUME ~auth PROVE Offline'
    BY <1>1 DEF Offline
  <2>1. resume.id # NoSession => attached = resume.id
    <3>1. ~Announced \/ attached # NoSession
      BY <1>1
    <3> QED
      BY <1>1 DEF JoinInv, Handshake
  <2>2. resume.id # NoSession => member'[resume.id] # NoRoom
    BY <1>2, <2>1
  <2> QED
    BY <1>1, <1>6, <1>9, <2>2 DEF JoinInv, Offline
<1> QED
  BY <1>6, <1>7, <1>9, <1>12, <1>13 DEF JoinInv

LEMMA LapseKeeps == ASSUME IInv, JoinInv, NEW s \in Sessions, Lapse(s) PROVE JoinInv'
PROOF
<1>1. /\ UNCHANGED <<connection, room, post, up, down, attached, member, excused>>
      /\ auth' = auth /\ sock' = sock /\ resume' = resume
  BY DEF Lapse, connection
<1>2. Handshake'
  BY <1>1 DEF JoinInv, Handshake
<1>3. LastAnnounced' /\ (Announced' <=> Announced) /\ OneLast'
  BY <1>1, SameAnnounced DEF JoinInv, OneLast
<1>4. PostJoins' = PostJoins /\ FrameJoins' = FrameJoins /\ LeaveSurprises' = LeaveSurprises
  BY <1>1 DEF PostJoins, FrameJoins, LeaveSurprises
<1>5. InRoom => InRoom'
  BY <1>1, <1>3 DEF InRoom, Leaves
<1>6. Online' /\ Offline'
  BY <1>1, <1>3, <1>4, <1>5 DEF JoinInv, Online, Offline
<1> QED
  BY <1>2, <1>3, <1>6 DEF JoinInv

-----------------------------------------------------------------------------

LEMMA JoinInvNext == IInv /\ JoinInv /\ [Next]_vars => JoinInv'
PROOF
<1> SUFFICES ASSUME IInv, JoinInv, [Next]_vars PROVE JoinInv'
  OBVIOUS
<1>1. CASE UNCHANGED vars
  BY <1>1 DEF vars, connection, server, JoinInv, Handshake, LastAnnounced, Announced, OneLast,
              Online, Offline, PostJoins, FrameJoins, InRoom, Leaves, LeaveSurprises
<1>2. CASE \/ \E r \in Rooms : JoinRoom(r) \/ ServerMoves(r)
           \/ RejoinRoom \/ LeaveRoom \/ PendingAges
           \/ \E s \in Slots : JoinReplied(s) \/ JoinFailed(s) \/ Mint(s) \/ Vanish(s)
  BY <1>2, JoinRoomKeeps, ServerMovesKeeps, RejoinRoomKeeps, LeaveRoomKeeps, PendingAgesKeeps,
     JoinRepliedKeeps, JoinFailedKeeps, MintKeeps, VanishKeeps
<1>3. CASE \/ TimerFires \/ SettingsFetched \/ SettingsFailed \/ Connected \/ Disconnected
           \/ Rehome \/ Welcome \/ HelloResumed \/ HelloFresh \/ ResumeRefused \/ JoinRefused
           \/ LeftReceived \/ RoomReceived
  BY <1>3, ConnectKeeps, DisconnectedKeeps, WelcomeKeeps, HelloResumedKeeps, HelloFreshKeeps,
     ResumeRefusedKeeps, JoinRefusedKeeps, LeftReceivedKeeps, RoomReceivedKeeps
<1>4. CASE ServeResume \/ ServeHello \/ ServeRoom \/ \E s \in Sessions : Lapse(s)
  BY <1>4, ServeHelloKeeps, ServeRoomKeeps, LapseKeeps
<1> QED
  BY <1>1, <1>2, <1>3, <1>4 DEF Next

LEMMA SpecJoinInv == Spec => [](IInv /\ JoinInv)
PROOF
<1>1. Init => IInv /\ JoinInv
  BY InitInv, JoinInvInit
<1>2. (IInv /\ JoinInv) /\ [Next]_vars => (IInv /\ JoinInv)'
  BY StepInv, JoinInvNext
<1> QED
  BY <1>1, <1>2, PTL DEF Spec

\* With nothing under way, only a session in the room wanted is left of what the
\* invariant allows.
LEMMA NothingLeft == IInv /\ JoinInv => SettledInRoom
PROOF
<1> SUFFICES ASSUME IInv, JoinInv, Settled, room.want # NoRoom, ~excused
             PROVE  member[attached] = room.want /\ room.acked
  BY DEF SettledInRoom
<1>1. /\ auth /\ sock = "open" /\ up = <<>> /\ down = <<>>
      /\ ~\E s \in Slots : post[s].to = room.want /\ post[s].phase \in {"sent", "minted"}
  BY DEF Settled
<1>2. Len(up) = 0 /\ Len(down) = 0
  BY <1>1
<1>3. ~PostJoins
  BY <1>1 DEF PostJoins
<1>4. ~FrameJoins /\ ~Announced /\ ~LeaveSurprises
  BY <1>2 DEF FrameJoins, Announced, LeaveSurprises
<1> QED
  BY <1>1, <1>3, <1>4 DEF JoinInv, Online, InRoom

\* When everything has been answered the server has the client in the room it wants, and
\* the client knows it: whatever joins, leaves, moves, late replies, drops and resumes come
\* before, but for the causes in `excused'.
THEOREM SpecSettledInRoom == Spec => []SettledInRoom
PROOF
BY SpecJoinInv, NothingLeft, PTL

===============================================================================
