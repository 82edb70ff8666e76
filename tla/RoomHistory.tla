----------------------------- MODULE RoomHistory -----------------------------
(***************************************************************************)
(* The messages of the open room (src/models/MessageListModel.cpp).        *)
(*                                                                         *)
(* Five sources feed one list: the SQLite cache, the newest page           *)
(* (refreshLatest), older pages (loadHistory), the gap fill and the        *)
(* long-poll.  Their replies arrive in any order, and some of them after   *)
(* the user has gone to another room or topic.                             *)
(*                                                                         *)
(* A message is its room and its id; what it is (a plain message, one of   *)
(* the topic, a control row that is absorbed, a comment the server counts  *)
(* but does not send) is its kind.  A request carries what it asked for;   *)
(* the server answers it from any state it was in since.  The long-poll is *)
(* the stream of PollStream: in order, nothing twice, nothing left out but  *)
(* what a half-read answer loses.                                          *)
(***************************************************************************)
EXTENDS Integers, Sequences, FiniteSets

CONSTANTS
    Rooms,      \* conversations
    NoRoom,
    Kinds,      \* what is written: a subset of AllKinds
    Threads,    \* the server has topics: the main view hides their messages
    PageLimit,  \* kChatPageLimit
    GapLimit,   \* messages in a page of the gap fill
    GapPages,   \* kMaxGapFillPages
    MaxShown,   \* MAX_MESSAGES
    MaxId,      \* bound: messages per room
    MaxLoads,   \* bound: cache reads under way
    MaxRefresh  \* bound: refreshes under way

AllKinds == {"plain", "topic", "control", "hidden"}

ASSUME HistoryAssumption ==
    /\ NoRoom \notin Rooms /\ Kinds \subseteq AllKinds /\ Threads \in BOOLEAN
    /\ {PageLimit, GapLimit, GapPages, MaxShown} \subseteq Nat \ {0}
    /\ {MaxId, MaxLoads, MaxRefresh} \subseteq Nat

VARIABLES
    token,      \* m_token
    topic,      \* m_threadId > 0 (one topic is enough)
    view,       \* m_messages, m_oldestMessageId, m_hasMoreHistory
    history,    \* m_historyReply and m_loading
    refreshes,  \* requests of refreshLatest() that were not answered
    gapReplies, \* requests of runGapFillStep() that were not answered
    gap,        \* m_gapFillCursor, m_gapFillTargetId, m_gapFillPagesRemaining
    poll,       \* the poller: running, its room, its cursor
    loads,      \* cache reads under way, and what they have read
    cache,      \* the ids saved per room
    kinds,      \* server: the kinds of a room's messages, oldest first
    excused     \* history: rooms in which a gap has been let in knowingly

vars == <<token, topic, view, history, refreshes, gapReplies, gap, poll,
          loads, cache, kinds, excused>>

NoRequest == [room |-> NoRoom, topic |-> FALSE, before |-> 0, target |-> 0,
              since |-> 0, fresh |-> FALSE]
NoGap == [cursor |-> 0, target |-> 0, left |-> 0]
Request == [room : Rooms \cup {NoRoom}, topic : BOOLEAN, before : Nat, target : Nat,
            since : Nat, fresh : BOOLEAN]

TypeOK ==
    /\ token \in Rooms \cup {NoRoom} /\ topic \in BOOLEAN
    /\ view \in [shown : SUBSET (Rooms \X (Nat \ {0})), oldest : Nat, more : BOOLEAN]
    /\ history \in Request
    /\ history # NoRequest => history.room = token
    /\ refreshes \subseteq Request /\ gapReplies \subseteq Request
    /\ gap \in [cursor : Nat, target : Nat, left : 0..GapPages]
    /\ poll \in [on : BOOLEAN, room : Rooms \cup {NoRoom}, cursor : Nat]
    /\ loads \in Seq([room : Rooms, page : SUBSET Nat])
    /\ cache \in [Rooms -> SUBSET (Nat \ {0})]
    /\ kinds \in [Rooms -> Seq(Kinds)]
    /\ excused \subseteq Rooms

-----------------------------------------------------------------------------

MaxOf(S) == IF S = {} THEN 0 ELSE CHOOSE i \in S : \A j \in S : i >= j
MinOf(S) == IF S = {} THEN 0 ELSE CHOOSE i \in S : \A j \in S : i <= j
Top(S, k) == {i \in S : Cardinality({j \in S : j > i}) < k}

Ids(messages) == {m[2] : m \in messages}
Of(r, ids) == {<<r, i>> : i \in ids}

\* passesThreadFilter(); the main view hides topics wherever there are any.
Passes(r, i) == IF topic THEN kinds[r][i] = "topic"
                ELSE ~(Threads /\ kinds[r][i] = "topic")

\* (fault) one path forgets the topic filter.
RowsOfAnyTopic(r, data) == {i \in data : kinds[r][i] # "control"}

\* The rows a page adds to the open view: control messages are absorbed.
Rows(r, data) == {i \in data : kinds[r][i] # "control" /\ Passes(r, i)}

\* What the server sends for q when its room ends at n: it limits first and leaves
\* out afterwards what the user may not see.
Page(q, limit, n) ==
    LET asked == {i \in 1..n : /\ q.before = 0 \/ i < q.before
                               /\ q.topic => kinds[q.room][i] = "topic"}
    IN {i \in Top(asked, limit) : kinds[q.room][i] # "hidden"}

Ask(r, t, before, target) ==
    [room |-> r, topic |-> t, before |-> before, target |-> target,
     since |-> Len(kinds[r]), fresh |-> TRUE]

Init ==
    /\ token = NoRoom /\ topic = FALSE
    /\ view = [shown |-> {}, oldest |-> 0, more |-> TRUE]
    /\ history = NoRequest /\ refreshes = {} /\ gapReplies = {} /\ gap = NoGap
    /\ poll = [on |-> FALSE, room |-> NoRoom, cursor |-> 0]
    /\ loads = <<>> /\ cache = [r \in Rooms |-> {}]
    /\ kinds = [r \in Rooms |-> <<>>] /\ excused = {}

\* startPoller() of a view that shows these messages.
Started(p, shown) ==
    LET newest == MaxOf(Ids(shown))
    IN IF newest = 0 THEN p
       ELSE [on |-> TRUE, room |-> token,
             cursor |-> IF p.room = token /\ p.cursor > newest THEN p.cursor ELSE newest]

StoppedPoller == [poll EXCEPT !.on = FALSE]

(* The ways in which the code lets a gap into the list, recorded in `excused'.     *)

Excuse(cause) == excused' = IF cause THEN excused \cup {token} ELSE excused

\* Message i of the open room belongs to the open view; one does that lies between a and b.
Visible(i) == kinds[token][i] \in {"plain", "topic"} /\ Passes(token, i)
Between(a, b) == \E i \in a + 1 .. b - 1 : Visible(i)

\* A gap fill is at work in the open room.
Filling == \E q \in gapReplies : q.fresh

\* The long-poll starts where it got to in an earlier view of the room, beyond a message
\* that this list lacks.
Skips(shown) ==
    /\ shown # {} /\ ~poll.on /\ poll.room = token
    /\ Between(MaxOf(Ids(shown)), poll.cursor + 1)

\* A page put into an empty list leaves out a message after what the cache ends with.
Detached(rows) ==
    LET cached == Rows(token, cache[token])
    IN view.shown = {} /\ cached # {} /\ rows # {} /\ Between(MaxOf(cached), MinOf(rows))

\* New rows of a newest page that is older than the list, or leaves out a message after it.
Older(page, new) == new # {} /\ MaxOf(page) < MaxOf(Ids(view.shown))
Apart(new) ==
    view.shown # {} /\ new # {} /\ Between(MaxOf(Ids(view.shown)), MinOf(new))

\* The topic is switched while something asked for before is still to come.
Pending(r) ==
    \/ history # NoRequest \/ Filling
    \/ \E q \in refreshes : q.fresh
    \/ \E i \in 1..Len(loads) : loads[i].room = r

-----------------------------------------------------------------------------
(* Opening rooms and topics (MainWindow drives them).                      *)

Stale(requests) == {[q EXCEPT !.fresh = FALSE] : q \in requests}

\* (fault) the page that is loading is not aborted.
OpenRoomKeepsReply(r) ==
    /\ r # token /\ Len(loads) < MaxLoads
    /\ token' = r /\ topic' = FALSE
    /\ view' = [shown |-> {}, oldest |-> 0, more |-> TRUE]
    /\ refreshes' = Stale(refreshes) /\ gapReplies' = Stale(gapReplies)
    /\ poll' = StoppedPoller
    /\ loads' = IF r = NoRoom THEN loads
                ELSE Append(loads, [room |-> r, page |-> Top(cache[r], PageLimit)])
    /\ UNCHANGED <<history, gap, cache, kinds, excused>>

\* setConversationToken() of another room; with topics the main view is set up by
\* setHideThreadMessages(), which loads the newest page beside the cache.
OpenRoom(r) ==
    /\ r # token /\ Len(loads) < MaxLoads
    /\ token' = r /\ topic' = FALSE
    /\ view' = [shown |-> {}, oldest |-> 0, more |-> TRUE]
    /\ history' = IF Threads /\ r # NoRoom THEN Ask(r, FALSE, 0, 0) ELSE NoRequest
    /\ refreshes' = Stale(refreshes) /\ gapReplies' = Stale(gapReplies)
    /\ poll' = StoppedPoller
    /\ loads' = IF r = NoRoom THEN loads
                ELSE Append(loads, [room |-> r, page |-> Top(cache[r], PageLimit)])
    /\ excused' = excused \cup {q.room : q \in {g \in gapReplies : g.fresh}}
    /\ UNCHANGED <<gap, cache, kinds>>

\* The view is emptied and loaded again; loadHistory() does nothing while a page is
\* still loading.
Reload(t) ==
    /\ topic' = t
    /\ view' = [view EXCEPT !.shown = {}, !.oldest = 0]
    /\ history' = IF history = NoRequest THEN Ask(token, t, 0, 0) ELSE history
    /\ poll' = StoppedPoller
    /\ Excuse(Pending(token))

\* openThread(), closeThread(): setThreadId() and setHideThreadMessages().
SwitchTopic ==
    /\ Threads /\ token # NoRoom
    /\ Reload(~topic)
    /\ UNCHANGED <<token, refreshes, gapReplies, gap, loads, cache, kinds>>

\* refreshLatest() is asked for by a push, a signaling hint or the window.
Refresh ==
    /\ token # NoRoom /\ Cardinality(refreshes) < MaxRefresh
    /\ refreshes' = refreshes \cup {Ask(token, topic, 0, 0)}
    /\ UNCHANGED <<token, topic, view, history, gapReplies, gap, poll, loads, cache,
                   kinds, excused>>

\* The open room is selected again.
Reselect ==
    /\ token # NoRoom /\ Cardinality(refreshes) < MaxRefresh
    /\ refreshes' = refreshes \cup {Ask(token, FALSE, 0, 0)}
    /\ IF Threads THEN Reload(FALSE)
       ELSE UNCHANGED <<topic, view, history, poll, excused>>
    /\ UNCHANGED <<token, gapReplies, gap, loads, cache, kinds>>

\* loadHistory(), as the user scrolls to the end.
ScrollUp ==
    /\ token # NoRoom /\ history = NoRequest
    /\ view.more \/ view.oldest = 0
    /\ history' = Ask(token, topic, view.oldest, 0)
    /\ UNCHANGED <<token, topic, view, refreshes, gapReplies, gap, poll, loads, cache,
                   kinds, excused>>

-----------------------------------------------------------------------------
(* The cache has been read.                                                *)

CacheLoaded ==
    /\ loads # <<>> /\ Cardinality(refreshes) < MaxRefresh
    /\ loads' = Tail(loads)
    /\ LET load == Head(loads)
           shown == Of(load.room, Rows(load.room, load.page))
       IN IF load.room # token THEN UNCHANGED <<view, refreshes>>
          ELSE /\ view' = IF view.shown = {} /\ shown # {}
                          THEN [view EXCEPT !.shown = shown, !.oldest = MinOf(Ids(shown))]
                          ELSE view
               /\ refreshes' = refreshes \cup {Ask(token, topic, 0, 0)}
    /\ UNCHANGED <<token, topic, history, gapReplies, gap, poll, cache, kinds, excused>>

-----------------------------------------------------------------------------
(* refreshLatest(): the reply.                                             *)

RefreshDropped(q) ==
    /\ q \in refreshes /\ ~q.fresh
    /\ refreshes' = refreshes \ {q}
    /\ UNCHANGED <<token, topic, view, history, gapReplies, gap, poll, loads, cache,
                   kinds, excused>>

\* (fault) an error returns before startPoller().
RefreshEmptyIdle(q) ==
    /\ q \in refreshes /\ q.fresh
    /\ refreshes' = refreshes \ {q}
    /\ UNCHANGED <<token, topic, view, history, gapReplies, gap, poll, loads, cache,
                   kinds, excused>>

\* An error, or a page without messages.
RefreshEmpty(q) ==
    /\ q \in refreshes /\ q.fresh
    /\ refreshes' = refreshes \ {q}
    /\ poll' = Started(poll, view.shown)
    /\ Excuse(Skips(view.shown))
    /\ UNCHANGED <<token, topic, view, history, gapReplies, gap, loads, cache,
                   kinds>>

\* (fault) the last page of the budget is not fetched.
GapStepShort(cursor, target, left, replies) ==
    IF cursor <= 0 \/ left <= 1
    THEN gap' = NoGap /\ gapReplies' = replies
    ELSE /\ gap' = [cursor |-> cursor, target |-> target, left |-> left]
         /\ gapReplies' = replies \cup {Ask(token, topic, cursor, target)}

\* runGapFillStep(), with these values in the members.
GapStep(cursor, target, left, replies) ==
    IF cursor <= 0 \/ left <= 0
    THEN gap' = NoGap /\ gapReplies' = replies
    ELSE /\ gap' = [cursor |-> cursor, target |-> target, left |-> left]
         /\ gapReplies' = replies \cup {Ask(token, topic, cursor, target)}

\* (fault) one off: a hole of one message is not seen.
HoledByTwo(newest, missing) ==
    newest > 0 /\ missing # {} /\ MinOf(missing) > newest + 2

\* The gap detection: the rows of the page do not meet the newest one shown before.
Holed(newest, missing) ==
    newest > 0 /\ missing # {} /\ MinOf(missing) > newest + 1

RefreshMerged(q, n) ==
    /\ q \in refreshes /\ q.fresh /\ Page(q, PageLimit, n) # {}
    /\ refreshes' = refreshes \ {q}
    /\ LET data == Page(q, PageLimit, n)
           missing == Rows(q.room, data) \ Ids(view.shown)
           shown == view.shown \cup Of(q.room, missing)
           newestBefore == MaxOf(Ids(view.shown))
           holed == Holed(newestBefore, missing)
       IN /\ view' = [view EXCEPT !.shown = shown,
                                  !.oldest = IF missing = {} THEN @ ELSE MinOf(Ids(shown))]
          /\ cache' = IF missing = {} THEN cache
                      ELSE [cache EXCEPT ![token] = @ \cup Ids(shown)]
          /\ IF holed THEN GapStep(MinOf(missing), newestBefore, GapPages, gapReplies)
                      ELSE UNCHANGED <<gap, gapReplies>>
          /\ poll' = Started(StoppedPoller, shown)
          /\ Excuse(\/ holed /\ Filling
                    \/ Older(data, missing) \/ Skips(shown) \/ Detached(missing))
    /\ UNCHANGED <<token, topic, history, loads, kinds>>

-----------------------------------------------------------------------------
(* loadHistory(): the reply.  (The reply of another room was aborted.)     *)

HistoryFailed ==
    /\ history # NoRequest /\ history' = NoRequest
    /\ poll' = Started(poll, view.shown)
    /\ Excuse(Skips(view.shown))
    /\ UNCHANGED <<token, topic, view, refreshes, gapReplies, gap, loads, cache, kinds>>

HistoryEnd(n) ==
    /\ history # NoRequest /\ Page(history, PageLimit, n) = {} /\ history' = NoRequest
    /\ view' = [view EXCEPT !.more = FALSE]
    /\ poll' = Started(poll, view.shown)
    /\ Excuse(Skips(view.shown))
    /\ UNCHANGED <<token, topic, refreshes, gapReplies, gap, loads, cache, kinds>>

HistoryMerged(n) ==
    /\ history # NoRequest /\ Page(history, PageLimit, n) # {} /\ history' = NoRequest
    /\ LET data == Page(history, PageLimit, n)
           older == Rows(token, data) \ Ids(view.shown)
           shown == view.shown \cup Of(token, older)
       IN /\ view' = [shown |-> shown,
                      oldest |-> IF shown = {} THEN view.oldest ELSE MinOf(Ids(shown)),
                      more |-> view.more /\ Cardinality(data) >= PageLimit]
          /\ cache' = [cache EXCEPT ![token] = @ \cup older]
          /\ poll' = Started(poll, shown)
          /\ Excuse(\/ history.before = 0 /\ (Older(data, older) \/ Apart(older))
                    \/ Skips(shown) \/ Detached(older))
    /\ UNCHANGED <<token, topic, refreshes, gapReplies, gap, loads, kinds>>

-----------------------------------------------------------------------------
(* runGapFillStep(): the reply.                                            *)

\* The reply of another room, an error, or a page without messages: given up.
GapGivenUp(q) ==
    /\ q \in gapReplies
    /\ gapReplies' = gapReplies \ {q} /\ gap' = NoGap
    /\ excused' = excused \cup {q.room}
    /\ UNCHANGED <<token, topic, view, history, refreshes, poll, loads, cache, kinds>>

GapMerged(q, n) ==
    /\ q \in gapReplies /\ q.fresh /\ Page(q, GapLimit, n) # {}
    /\ LET rows == Rows(q.room, Page(q, GapLimit, n))
           filled == rows \ Ids(view.shown)
           shown == view.shown \cup Of(q.room, filled)
           onward == rows # {} /\ MinOf(rows) > q.target + 1
       IN /\ view' = [view EXCEPT !.shown = shown,
                                  !.oldest = IF filled = {} THEN @ ELSE MinOf(Ids(shown))]
          /\ cache' = IF filled = {} THEN cache
                      ELSE [cache EXCEPT ![token] = @ \cup Ids(shown)]
          /\ IF onward THEN GapStep(MinOf(rows), gap.target, gap.left - 1, gapReplies \ {q})
                       ELSE gap' = NoGap /\ gapReplies' = gapReplies \ {q}
          /\ Excuse(rows = {} \/ (onward /\ gap.left <= 1))
    /\ UNCHANGED <<token, topic, history, refreshes, poll, loads, kinds>>

-----------------------------------------------------------------------------
(* onMessagesReceived(): the long-poll hands out the messages up to n.     *)

\* trimOldMessages()
Trimmed(shown) ==
    LET kept == Top(Ids(shown), MaxShown) IN {m \in shown : m[2] \in kept}

Polled(n) ==
    /\ poll.on /\ n \in poll.cursor + 1 .. Len(kinds[poll.room])
    /\ poll' = [poll EXCEPT !.cursor = n]
    /\ LET data == {i \in poll.cursor + 1 .. n : kinds[poll.room][i] # "hidden"}
           new == Rows(poll.room, data) \ Ids(view.shown)
           shown == view.shown \cup Of(poll.room, new)
           trims == new # {} /\ Cardinality(shown) > MaxShown
       IN /\ view' = IF trims
                     THEN [shown |-> Trimmed(shown), oldest |-> MinOf(Ids(Trimmed(shown))),
                           more |-> TRUE]
                     ELSE [view EXCEPT !.shown = shown]
          /\ cache' = [cache EXCEPT ![token] = @ \cup new]
          /\ Excuse(trims /\ (history # NoRequest \/ Filling))
    /\ UNCHANGED <<token, topic, history, refreshes, gapReplies, gap, loads, kinds>>

\* An answer whose body broke off: the cursor moves, the messages are lost.
PollTorn(n) ==
    /\ poll.on /\ n \in poll.cursor + 1 .. Len(kinds[poll.room])
    /\ poll' = [poll EXCEPT !.cursor = n]
    /\ Excuse(TRUE)
    /\ UNCHANGED <<token, topic, view, history, refreshes, gapReplies, gap, loads, cache,
                   kinds>>

-----------------------------------------------------------------------------
(* Messages are written.                                                   *)

\* By others, or by the user from elsewhere.
Write(r, kind) ==
    /\ Len(kinds[r]) < MaxId
    /\ kinds' = [kinds EXCEPT ![r] = Append(@, kind)]
    /\ UNCHANGED <<token, topic, view, history, refreshes, gapReplies, gap, poll, loads,
                   cache, excused>>

Replies ==
    \/ CacheLoaded
    \/ \E q \in refreshes : \/ RefreshDropped(q) \/ RefreshEmpty(q)
                            \/ \E n \in q.since..Len(kinds[q.room]) : RefreshMerged(q, n)
    \/ HistoryFailed
    \/ history # NoRequest /\ \E n \in history.since..Len(kinds[history.room]) :
                                  HistoryEnd(n) \/ HistoryMerged(n)
    \/ \E q \in gapReplies : \/ GapGivenUp(q)
                             \/ \E n \in q.since..Len(kinds[q.room]) : GapMerged(q, n)

Next ==
    \/ \E r \in Rooms \cup {NoRoom} : OpenRoom(r)
    \/ SwitchTopic \/ Refresh \/ Reselect \/ ScrollUp
    \/ Replies
    \/ poll.on /\ \E n \in poll.cursor + 1 .. Len(kinds[poll.room]) : Polled(n) \/ PollTorn(n)
    \/ \E r \in Rooms, kind \in Kinds : Write(r, kind)

Spec == Init /\ [][Next]_vars

-----------------------------------------------------------------------------

\* The list holds messages of the open room and topic only, whatever answers arrive
\* late (setConversationToken: "invalidate all in-flight async callbacks").
ShowsOpenView ==
    \A m \in view.shown : m[1] = token /\ Passes(m[1], m[2]) /\ kinds[token][m[2]] # "control"

\* A message of the view that no source will bring any more: newer than the scroll-up
\* cursor, not newer than the newest message shown or the long-poll has passed it.
Unreachable ==
    {i \in view.oldest .. MaxOf(Ids(view.shown) \cup (IF poll.on THEN {poll.cursor} ELSE {})) :
        view.oldest # 0 /\ i \notin Ids(view.shown) /\ Visible(i)}

\* "there is a HOLE between them that no scroll-up will ever reach. Kick off the
\* gap-fill loop" (MessageListModel.cpp:1055): between the messages shown none is
\* missing, unless a gap fill is still at work.
NoSilentGap == token # NoRoom /\ ~Filling => Unreachable = {}

\* The same, but for the ways in which a gap is let in (see `excused').
NoUnexplainedGap == token \notin excused => NoSilentGap

\* A list with messages is never left without the long-poll: it runs unless an answer
\* that will start it is still to come.
PollsWhenSettled ==
    \/ view.shown = {} \/ poll.on
    \/ history # NoRequest \/ \E q \in refreshes : q.fresh

=============================================================================
