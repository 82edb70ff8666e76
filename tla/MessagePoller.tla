---------------------------- MODULE MessagePoller ----------------------------
(***************************************************************************)
(* The long-poll of the open room (src/core/MessagePoller.cpp).            *)
(*                                                                         *)
(* The poller keeps one request, m_currentReply, and one cursor.  Two      *)
(* things make it more than a loop: the 2 s retry timer is not cancelled   *)
(* by stop(), so that it can start a second request beside the one of a    *)
(* restart; and the handler always looks at m_currentReply, whichever      *)
(* request it was that finished.                                           *)
(*                                                                         *)
(* A request is a slot: what it asked for, and how much of its answer has  *)
(* reached the client.  The server is external: it answers a long-poll     *)
(* with the oldest PollLimit messages after lastKnownMessageId, or with    *)
(* 304 when there are none for 15 s.                                       *)
(***************************************************************************)
EXTENDS Integers

CONSTANTS
    Rooms,      \* conversations
    NoRoom,
    PollLimit,  \* messages in one answer
    Slots,      \* bound: requests that can be open at once, a set of numbers
    MaxTimers,  \* bound: retry timers running at once
    MaxId       \* bound: the newest message of a room

ASSUME PollerAssumption ==
    /\ NoRoom \notin Rooms
    /\ PollLimit \in Nat \ {0} /\ MaxTimers \in Nat /\ MaxId \in Nat
    /\ Slots \subseteq Nat \ {0}

VARIABLES
    polling,     \* m_polling
    token,       \* m_token
    lastKnown,   \* m_lastKnownMessageId
    current,     \* m_currentReply, a slot, or None
    request,     \* the requests whose finished() is connected to this poller
    timers,      \* QTimer::singleShot(2000, poll) still running
    newest,      \* server: the newest message of each room
    emitted,     \* history: messages emitted since the start
    passed       \* history: messages the cursor passed without emitting them

poller == <<polling, token, lastKnown, current, timers, emitted, passed>>
vars == <<poller, request, newest>>

None == 0
Free == [room |-> NoRoom, known |-> 0, upto |-> 0]

\* `upto': the newest message of its answer, once the headers are in; 0 before.
Request == [room : Rooms \cup {NoRoom}, known : Nat, upto : Nat]

Open == {s \in Slots : request[s] # Free}

TypeOK ==
    /\ polling \in BOOLEAN
    /\ token \in Rooms \cup {NoRoom}
    /\ lastKnown \in Nat
    /\ request \in [Slots -> Request]
    /\ current \in Open \cup {None}
    /\ timers \in 0..MaxTimers
    /\ newest \in [Rooms -> Nat]
    /\ emitted \subseteq Nat /\ passed \subseteq Nat

Init ==
    /\ polling = FALSE /\ token = NoRoom /\ lastKnown = 0 /\ current = None
    /\ request = [s \in Slots |-> Free] /\ timers = 0
    /\ newest = [r \in Rooms |-> 0]
    /\ emitted = {} /\ passed = {}

-----------------------------------------------------------------------------

\* poll(): a new request, from whatever cursor the caller has set.  A request
\* that was current is no longer tracked, but stays connected.
Poll(reqs, r, known) ==
    \E s \in Slots :
        /\ reqs[s] = Free /\ \A q \in Slots : reqs[q] = Free => s <= q
        /\ current' = s
        /\ request' = [reqs EXCEPT ![s] = [room |-> r, known |-> known, upto |-> 0]]

\* stop() disconnects and aborts the current request; timers and requests that
\* are no longer current are left alone.
Stopped(reqs) == [s \in Slots |-> IF s = current THEN Free ELSE reqs[s]]

\* (fault) the cursor a restart asks for is taken as it is.
SeedAsAsked(r, from) == from

\* startPoller(): never back behind the cursor already reached in this room.
Seed(r, from) == IF token = r /\ lastKnown > from THEN lastKnown ELSE from

\* start(), as startPoller() calls it: from the newest message the view has.
Start(r, from) ==
    /\ from \in 1..newest[r]
    /\ polling' = TRUE /\ token' = r /\ lastKnown' = Seed(r, from)
    /\ Poll(Stopped(request), r, lastKnown')
    /\ emitted' = {} /\ passed' = {}
    /\ UNCHANGED <<timers, newest>>

Stop ==
    /\ polling' = FALSE /\ current' = None /\ request' = Stopped(request)
    /\ UNCHANGED <<token, lastKnown, timers, newest, emitted, passed>>

TimerFires ==
    /\ timers > 0 /\ timers' = timers - 1
    /\ IF polling THEN Poll(request, token, lastKnown)
                  ELSE UNCHANGED <<current, request>>
    /\ UNCHANGED <<polling, token, lastKnown, newest, emitted, passed>>

-----------------------------------------------------------------------------
(* handlePollResponse().  `s' is the request that finished; the handler    *)
(* reads and drops m_currentReply, and does nothing if there is none.      *)
(* (m_stopping adds nothing: stop() leaves no current request.)            *)

Done(s) == [q \in Slots |-> IF q \in {s, current} THEN Free ELSE request[q]]

\* finished() of a request nobody tracks, after stop().
FinishedUntracked(s) ==
    /\ s \in Open /\ current = None
    /\ request' = Done(s)
    /\ UNCHANGED <<polling, token, lastKnown, current, timers, newest, emitted, passed>>

\* (fault) an aborted request is taken for the poller's own stop().
RetryNever == UNCHANGED timers

RetryLater == timers < MaxTimers /\ timers' = timers + 1

\* (fault) m_currentReply keeps pointing at the request that is deleted.
FinishedBrokenDangling(s) ==
    /\ s \in Open /\ s = current
    /\ request' = Done(s)
    /\ RetryLater
    /\ UNCHANGED <<polling, token, lastKnown, current, newest, emitted, passed>>

\* The connection failed, or the request was cancelled by somebody else.
FinishedBroken(s) ==
    /\ s \in Open /\ s = current
    /\ current' = None /\ request' = Done(s)
    /\ RetryLater
    /\ UNCHANGED <<polling, token, lastKnown, newest, emitted, passed>>

\* The server answered with an error status.
FinishedRefused(s) ==
    /\ s \in Open /\ s = current /\ request[s].upto = 0
    /\ Poll(Done(s), token, lastKnown)
    /\ UNCHANGED <<polling, token, lastKnown, timers, newest, emitted, passed>>

\* 304: nothing new for as long as the server waits.
FinishedIdle(s) ==
    /\ s \in Open /\ s = current /\ request[s].upto = 0
    /\ Poll(Done(s), token, lastKnown)
    /\ UNCHANGED <<polling, token, lastKnown, timers, newest, emitted, passed>>

\* (fault) the next request goes out before the cursor has moved.
FinishedNewPollsFirst(s) ==
    /\ s \in Open /\ s = current /\ request[s].upto > 0
    /\ lastKnown' = request[s].upto
    /\ emitted' = emitted \cup (request[s].known + 1 .. request[s].upto)
    /\ Poll(Done(s), token, lastKnown)
    /\ UNCHANGED <<polling, token, timers, newest, passed>>

\* 200: the cursor moves to X-Chat-Last-Given, the messages are emitted.
FinishedNew(s) ==
    /\ s \in Open /\ s = current /\ request[s].upto > 0
    /\ lastKnown' = request[s].upto
    /\ emitted' = emitted \cup (request[s].known + 1 .. request[s].upto)
    /\ Poll(Done(s), token, lastKnown')
    /\ UNCHANGED <<polling, token, timers, newest, passed>>

\* 200, but the connection broke in the body: the status decides (line 123 asks for
\* status 0), the cursor moves, and the body does not parse.
FinishedTorn(s) ==
    /\ s \in Open /\ s = current /\ request[s].upto > 0
    /\ lastKnown' = request[s].upto
    /\ passed' = passed \cup (request[s].known + 1 .. request[s].upto)
    /\ Poll(Done(s), token, lastKnown')
    /\ UNCHANGED <<polling, token, timers, newest, emitted>>

\* A request that is not the current one finished: the handler takes the current
\* one, of which no header has arrived (neither status nor error), for its answer.
FinishedOtherEarly(s) ==
    /\ s \in Open /\ current # None /\ s # current /\ request[current].upto = 0
    /\ Poll(Done(s), token, lastKnown)
    /\ UNCHANGED <<polling, token, lastKnown, timers, newest, emitted, passed>>

\* The same, with the headers of the current one in: the cursor moves, and its
\* messages are emitted only if the whole body is there.
FinishedOtherLate(s, whole) ==
    /\ s \in Open /\ current # None /\ s # current /\ request[current].upto > 0
    /\ LET ids == request[current].known + 1 .. request[current].upto
       IN /\ lastKnown' = request[current].upto
          /\ IF whole THEN emitted' = emitted \cup ids /\ UNCHANGED passed
                      ELSE passed' = passed \cup ids /\ UNCHANGED emitted
    /\ Poll(Done(s), token, lastKnown')
    /\ UNCHANGED <<polling, token, timers, newest>>

-----------------------------------------------------------------------------
(* The server.                                                             *)

\* The headers of an answer reach the client.
Answered(s) ==
    /\ s \in Open /\ request[s].upto = 0
    /\ newest[request[s].room] > request[s].known
    /\ request' = [request EXCEPT ![s].upto =
           IF newest[request[s].room] > request[s].known + PollLimit
           THEN request[s].known + PollLimit ELSE newest[request[s].room]]
    /\ UNCHANGED <<polling, token, lastKnown, current, timers, emitted, passed, newest>>

Write(r) ==
    /\ newest[r] < MaxId
    /\ newest' = [newest EXCEPT ![r] = @ + 1]
    /\ UNCHANGED <<polling, token, lastKnown, current, timers, emitted, passed, request>>

Finished(s) ==
    \/ FinishedUntracked(s) \/ FinishedBroken(s) \/ FinishedRefused(s)
    \/ FinishedIdle(s) \/ FinishedNew(s) \/ FinishedTorn(s) \/ FinishedOtherEarly(s)
    \/ \E whole \in BOOLEAN : FinishedOtherLate(s, whole)

Next ==
    \/ \E r \in Rooms : Write(r) \/ \E from \in 1..newest[r] : Start(r, from)
    \/ Stop \/ TimerFires
    \/ \E s \in Slots : Answered(s) \/ Finished(s)

Spec == Init /\ [][Next]_vars

-----------------------------------------------------------------------------

\* The live-update path of the open room never dies silently: while the poller
\* polls, a request is out or a retry is coming (handlePollResponse, bug 1).
NeverDead == polling => current # None \/ timers > 0

\* A request carries the cursor of the room being polled, so no answer is handed to
\* the wrong room or repeats what was emitted, whatever requests overlap.
CurrentFits ==
    current # None =>
        /\ request[current].room = token
        /\ request[current].known = lastKnown
        /\ \A i \in emitted \cup passed : i <= lastKnown

\* What makes these hold: an inductive invariant.
PollerInv ==
    /\ current # None => polling
    /\ polling => token \in Rooms
    /\ \A i \in emitted \cup passed : i <= lastKnown
    /\ \A s \in Open :
          /\ request[s].room \in Rooms
          /\ request[s].upto # 0 =>
                request[s].upto \in request[s].known + 1 .. newest[request[s].room]

-----------------------------------------------------------------------------
(* Liveness: every request finishes (transfer timeout of 20 s), timers     *)
(* fire, and a server that is polled again and again answers in full now   *)
(* and then.                                                               *)

Fairness ==
    /\ WF_vars(TimerFires)
    /\ \A s \in Slots : WF_vars(Finished(s)) /\ SF_vars(Answered(s)) /\ SF_vars(FinishedNew(s))

FairSpec == Spec /\ Fairness

\* Whatever fails, overlaps or is thrown away, a message of the room is passed to the
\* view, unless the view leaves the room or starts over (or the answer was torn).
EventuallyEmitted ==
    \A r \in Rooms, i \in 1..MaxId :
        (polling /\ token = r /\ lastKnown < i /\ i <= newest[r])
            ~> (~polling \/ token # r \/ lastKnown >= i)

Stream == INSTANCE PollStream WITH
    StreamRooms <- Rooms, NoStream <- NoRoom,
    live <- polling, room <- token, cursor <- lastKnown,
    lost <- passed, handed <- emitted, written <- newest

ImplementsStream == Stream!StreamSpec

=============================================================================
