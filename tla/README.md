# TLA+ models of talq-desktop

talq-desktop is a Qt client for Nextcloud Talk: chat over REST and a long-poll,
presence and call signaling over a WebSocket to a high-performance backend (HPB),
media through GStreamer.  The client is one event loop with a few worker threads;
nearly everything that is hard about it is in the order in which replies, timers,
socket events and user actions reach that loop.  These modules model that order.

Paths below are relative to the repository root.

## 1. The system

| Component | Source | State it keeps | Operations | What is hard | What makes it correct |
|---|---|---|---|---|---|
| Send outbox | `src/models/MessageListModel.cpp` 1495-2270, `src/core/SendRetryPolicy.h` | `m_outbox`, `m_sendQueue`, `m_probing`, attempt counters, deadlines | send, POST reply, 20 s slow flag, 2 s tick, history probe, echo, retry, discard, kick, logout | a POST's outcome is unknown after most failures and the server does not deduplicate | stored once; never lost; oldest first; bounded POSTs; only under its own account; always decided |
| Long-poll | `src/core/MessagePoller.cpp` | current request, room, cursor, retry timers | start, stop, poll, finished, retry | a restart does not cancel the retry timer, so requests overlap | never dies; hands every message out once and in order |
| Room history | `MessageListModel.cpp` 83-1434, `src/core/MessageCache.cpp` | list of the open room, dedup index, oldest id, gap-fill cursor, SQLite cache | open room, switch topic, cache read, refresh, scroll up, gap fill, arrival, trim, delete, clear history | replies of five sources, some of an earlier room or topic, arrive in any order | no message between those shown is missing for good; nothing of another room shows; a list is never left without the long-poll |
| Read markers | `MessageListModel.cpp` 3421-3480, `src/models/ConversationListModel.cpp` | last read id per room, server marker, unread count | mark read on focus, on arrival; mark unread; list refresh | several devices, a server that stores what it is told | the marker moves forward only |
| Signaling session | `src/core/SignalingClient.cpp`, `SignalingWatchdogPolicy.h`, `RoomJoinPolicy.h` | session, resume id, current room, join/leave pending, back-off | connect, hello, resume, join, leave, drop, reconnect, pong watchdog | replies of superseded joins; resume against fresh session; suspended machine | the room joined at the server is the one the client wants |
| HPB re-homing | `SignalingClient.cpp` 1825-2040, `HpbRehomePolicy.h` | probe samples, hold-offs, host health | probe, verify, switch, return | switching during a call or a reconnect | never switches while busy, never flaps |
| Call lifecycle | `src/core/CallManager.cpp`, `CallJoinPolicy.h`, `CallRecoveryPolicy.h`, `SecondDeviceRingPolicy.h`, `ShareStartPolicy.h` | call state, generation, join ledger, peers, share state | start, accept, join POST, reconcile, re-join, end, publisher rebuild | a join may be committed although its POST failed; replies of an earlier call | the server's idea of "in call" ends up equal to the user's |
| Media policies | `src/core/*StallPolicy.h`, `MediaLoadController.h`, `BweAutoCap.h`, `BweLayerGate.h` | counters and hysteresis | timer ticks | flapping | bounded recovery attempts |
| Frame hand-off gate | `src/core/FrameHandoff.h` | two atomics | tryAcquire, release | several streaming threads | at most two frames in flight, never closed for good |
| Background blur mailbox | `src/core/BackgroundEngine.cpp`, `BackgroundWorker.cpp` | in slot, out slot, epoch | submit, process, reset | two producers and a worker thread | no frame of an earlier session is shown |
| Updates | `src/core/UpdateChecker.cpp`, `UpdateInstallGatePolicy.h`, `src/ui/MainWindow.cpp` | pending installer, its kind, gates | download, install, cancel, call end | an install may be triggered by several events | never restarts during a call or over unsent text |
| REST client | `src/core/ApiClient.cpp`, `PendingReplyDrain.h` | pending replies | request, abort all | abort runs callbacks that change the list | every pending reply is aborted once |
| Chunked upload | `MessageListModel.cpp` 2943-3075 | offset, index | MKCOL, PUT, MOVE | failure between chunks | assembled once or cleaned up |
| Others | login, user status, lists, notifications, telephony, echo cancellation, devices, look-up services, UI, generated tables, capture helper | | | | |

Interactions: MessageListModel owns the outbox, the history and the poller and calls
ApiClient; SignalingClient's `chatRefreshNeeded` and PushClient's events call
`MessageListModel::refresh`; AuthManager's logout calls `clearOutbox`; the reachability
edge of the REST client calls `kickOutbox`; CallManager drives SignalingClient's
`joinRoom` and ApiClient's call endpoints; MainWindow reads the call state and the
outbox before it installs an update.

## 2. Plan

Order of work, most important behaviour first:

1. `SendOutbox` with the abstract `Mailbox` it implements, and its proofs
   `SendOutboxProofs` (done).
2. `MessagePoller` with the abstract `PollStream` it implements, and
   `MessagePollerProofs` (done).
3. `RoomHistory` over the stream that `PollStream` promises, and `RoomHistoryProofs` (done
   but for the placeholder rows of own messages, deletes, clear history and jump to a
   message).
4. `SignalingSession` (hello, resume, join, leave, drop, reconnect) and
   `SignalingSessionProofs` (done).
5. `CallJoin` (join, reconcile, re-join, leave) and `CallJoinProofs` (done).
6. `BackgroundMailbox` with `BackgroundMailboxProofs`, and `FrameHandoff` with
   `FrameHandoffProofs` (done).
7. `UpdateInstall` and `UpdateInstallProofs` (done).
8. `PublisherRecovery`, `PongWatchdog`, `ReadMarker`, `HpbRehome`, `PendingReplyDrain`,
   the chunked upload.

## 3. SendOutbox

`SendOutbox.tla` models every composer message from the moment the user presses Enter
until the server has confirmed it, the user has dropped it, or the session ends.

| TLA+ | Code |
|---|---|
| `outbox`, `entry` | `m_outbox` and its `OutboxEntry` records; message *n* is the *n*-th sent, so order in the vector is order of numbers |
| `entry[m].wait` | `nextTryMs` against the clock: "due", a "short" wait, or the 120 s "settle" after a POST that hung |
| `entry[m].quiet` | `lastActivityMs <= probeStart` of the probe in flight, the only thing the timestamp is compared with |
| `attemptSeq` | `OutboxEntry::attemptSeq` |
| `sendQueue`, `probing` | `m_sendQueue`, `m_probing` |
| `page` | what the probe in flight was served: the newest id of the room then |
| `posts` | requests the network or the server still holds: stored or not, already given up by the client or not |
| `newest`, `copies` | the server's comments: newest id per room, ids under which a message is stored |
| `forced`, `dropped`, `retries` | history and bound of the model |

One handler is one action, with the calls it makes: `ReplyDelivered` drops the entry
*and* starts the next queued attempt, `OutboxTick` drops foreign entries, releases
expired attempts *and* starts probes, `ProbeAnswered` decides all entries of the room
*and* sends the first of those that must be sent.  The server is external: it stores
every POST it processes (no deduplication on `referenceId`), may store it before or
without an answer, and serves history pages of `Limit` comments.

Abstracted: texts and bodies, the exact milliseconds of the back-off, bubble wording,
the connection pool reset, the rows on screen.

`Mailbox.tla` is what the outbox promises: written messages are held until confirmed,
confirmed only if stored, stored once unless the user forced one out.

### Runs

| Run | Instance | Shows |
|---|---|---|
| `outbox_one` | 1 message, 3 POSTs (2 after a 400), a page of 1, other people writing up to id 3, one manual retry | stored once, budget kept, refines `Mailbox` |
| `outbox_pair` | 2 messages, 2 accounts, 2 POSTs, nobody else writing, fairness | nothing lost, own account only, what is left of oldest-first, every message is decided |

A page of one comment is the smallest that can fail to cover a send; one stranger's
comment is enough to push a copy off it.  The code's budgets (5 and
2) differ only in their number from 3 and 2.

`MaxMsgs`, `MaxId` and `MaxRetries` are bounds of the model.  `LateSave` is a switch:
FALSE assumes that the server stores nothing of a request after the client was told, or
concluded after 120 s, that it failed.  The code names the opposite case "the remaining
hole" (`SendRetryPolicy.h` 148-149); with `LateSave` TRUE `NoDuplicate` is not claimed.

### Fairness

`FairSpec` assumes: a POST is answered (ApiClient's transfer timeout of 30 s makes its
callback fire); deadlines pass; the 2 s timer fires while an entry is active; a server
that is asked again and again answers some probe (strong fairness on serving and
answering: probes fail and are repeated).  Nothing is assumed of the user, of the echo,
or of the 20 s slow flag.

### Proofs

`SendOutboxProofs.tla` proves, for every number of messages, rooms, accounts, page size
and budget, and for `~LateSave`: type correctness (`SpecTypeOK`), the inductive
invariant (`SpecOutboxInv`) and that no message is stored twice unless forced
(`SpecNoDuplicate`).  `NoDuplicate` alone is not inductive: a re-send is safe only
because of what the probe's page is known to hold.  `OutboxInv` says so: a live POST
belongs to an entry in flight (`PostsInv`), whatever is queued or live is not stored
(`AbsentInv`), copies have ids later than `knownNewestId` (`CopiesInv`), and a page that
will be judged holds every copy of the entries judged by it (`PageInv`).  It is proved and
in no run.  Each action has its lemma; the helpers (`StartAttempt`, `SendNextQueued`,
`Drop`, `Kicked`) have lemmas about the intermediate state they are handed, because
handlers call them after having changed the outbox.

The second part of the module proves what holds whatever the server does with a late POST, so
without `~LateSave`: `TypeOK`, `NothingLost`, `BudgetKept` and `OwnAccount`.  The
invariant `PInv` adds to the types that every entry is the signed-in account's, that one
that waits has an attempt left of its budget, that a queue holds entries of its own room,
and that a POST the server has carried out has left a copy.  The second is why the budget
holds although four places start attempts.

Its second half proves, for `~LateSave`, that the outbox implements `Mailbox`
(`SpecImplementsMailbox`).  The step simulation needs both invariants and `Extra`: copies
are finite sets no id of which is above the newest of their room, all POSTs of a message
go to one room, and a message that was given up is not in flight; without the second an
attempt of a message that has left the outbox might be stored under an id it already has.

The last part proves the order of a room's messages (`SpecPassesOnlyTheSkipped`), again
whatever the server does with a late POST.  A message has come before an older waiting
one of its room once it is cleared to POST while the other is not (`Ahead`), or as its POST
goes out (`Passes`): the theorem says of every step that this begins only with the
verdict of a probe that skips the older message.  It needs `PInv` alone; `CalmOrder`
deals with the steps that POST nothing, `SendNextOrder` with those that take the next
message off a queue.  The run has two messages, and an earlier form of the property that
left out `Ahead` holds there but not with three: a message that the skipping verdict has
queued is POSTed only with the reply of the one before it, when no probe is judged.  With
three messages TLC visited 3.9 million states of one room without a violation of the
present form and did not finish; that instance is no run.

Only model-checked: liveness, which is out of the prover's reach.

### Disagreements with the documentation

* Not a run: the header promises that "a retry never overtakes an older message that
  is still waiting" (`MessageListModel.h` 349).  The reply of a probe skips an entry whose
  own attempt failed after the probe was started (line 2009) and still sends the younger
  ones (three messages are needed: one whose probe is out, one that fails meanwhile, one
  behind it).  `PassesOnlyTheSkipped` states, and its theorem proves, what does hold.
* Not a run: "The first check after a slow failure therefore waits long enough for the
  original to have run" (`SendRetryPolicy.h` 145).  `kickOutbox` moves that deadline to
  three seconds after the failure; it runs on every room switch, window activation,
  reachability edge and on a send behind an older message.  With `LateSave` the model has
  the server store such a POST.

## 4. MessagePoller

`MessagePoller.tla` models `src/core/MessagePoller.cpp` with the part of
`MessageListModel::startPoller` that chooses its cursor.

| TLA+ | Code |
|---|---|
| `polling`, `token`, `lastKnown`, `current` | `m_polling`, `m_token`, `m_lastKnownMessageId`, `m_currentReply` |
| `timers` | retry timers (`QTimer::singleShot`, 2 s) that nothing cancels |
| `request` | the slots of requests whose `finished` is connected, with what they asked for and how the server answered |
| `newest` | the server: newest id per room |
| `emitted`, `passed`, `failed` | history: the ids handed out since the start, the ids the cursor passed without handing them out, whether this step handled a failed request |

`handlePollResponse` is not told which request finished: it takes the current one.  The
four `Finished...` actions are its branches for a broken connection, 304, 200 and any
other status; `FinishedOther...` are the same code when a request that is not current
finishes, which a stray timer makes possible; `FinishedTorn` is an answer with status 200
whose body broke off.  Abstracted: the common-read header, logging, and
`m_stopping` (`stop` leaves no current request, so the flag decides nothing).  The page
limit is the constant `PollLimit`.

`PollStream.tla` is what the poller promises the list: after a start, the ids above the
cursor, in order, once, and none left out but those of an answer that broke off.

### Runs

| Run | Instance | Shows |
|---|---|---|
| `poller` | 2 rooms, 3 request slots, 2 timers, ids to 2 | the loop never dies, the current request fits room and cursor, the cursor reaches every message, `PollStream` is refined |

Overlap needs a request and a timer from before a restart: three slots and two timers
let that happen twice.  Two rooms are enough because only the current and a former one
are told apart.

Fairness: a timer fires; a finished reply is handled; a request is answered again and
again if asked again and again, and some of those answers are whole (strong fairness).
The code's grounds are the transfer timeout and the 2 s timer; that the server is
reachable often enough is an assumption of liveness only.

### Proofs

`MessagePollerProofs.tla` proves for any number of rooms, slots and timers: `TypeOK`, that
the loop never dies (`SpecNeverDead`), that the current request fits (`SpecCurrentFits`)
and that the loop implements `PollStream` (`SpecImplementsStream`).  `NeverDead` is not
inductive alone: a step that drops the current request must know that it belongs to the
room being polled, that nothing handed out lies above the cursor, and that an answer never
ends before the cursor it was asked with or after the room's newest message.  `PollerInv`
says so; the inductive invariant is its conjunction with the three properties.  The
refinement needs besides that the cursor stays within the room (`CursorInv`).  Liveness is
only model-checked.

### Not claimed

The change log (`CHANGELOG.md` 8055) says that 401, 403 and 404 stop the polling and that
5xx are retried with back-off.  `handlePollResponse` treats every status but 304 and 200
as a reason to ask again at once (line 194), and so does the model.

## 5. RoomHistory

`RoomHistory.tla` models the list of the open room.  The long-poll is taken as the stream
that `MessagePoller` is shown to implement.

| TLA+ | Code |
|---|---|
| `token`, `topic` | `m_token`; `m_threadId` (one topic) |
| `view` | `m_messages` with its index `m_messageIds`, `m_oldestMessageId`, `m_hasMoreHistory` |
| `history` | `m_loading` and `m_historyReply` |
| `refreshes`, `gapReplies` | unanswered requests of `refreshLatest` and `runGapFillStep`; `fresh` is "generation and token are still those captured" |
| `gap` | `m_gapFillCursor`, `m_gapFillTargetId`, `m_gapFillPagesRemaining` |
| `poll` | the poller's running flag, room and cursor |
| `loads`, `cache` | reads queued for the cache worker with what they will return; the rows of the SQLite table |
| `kinds` | the server: per room, what each message is |
| `excused` | history: rooms in which a gap was let in by one of the causes below |

Each reply is one action per branch, with everything the branch does: merge, oldest id,
cache save, gap detection, start of the poller.  The server answers a request from any
state between the request and the reply, limits first and leaves out afterwards what the
user may not see.  A refresh, the cache read and the cache write are bounded by
`MaxRefresh` and `MaxLoads`, messages per room by `MaxId`.

Abstracted or left out: the placeholder rows of own messages and their echo, deletes,
edits, clear history, jump to a message, unread markers and search; the index
`m_messageIds` is taken to equal the list (`onMessagesReceived` rebuilds it).  Message
bodies are reduced to a kind: plain, of the topic, a control row that is absorbed, or a
comment the server counts but does not send.

### What is claimed of gaps

A visible message between the scroll-up cursor and the newest one shown (or the long-poll
cursor) that is not in the list is out of reach of every source.  `NoUnexplainedGap` says
that there is none, unless a gap fill is at work or one of these happened in the room:

1. a gap fill was given up: the room was left, a page failed, was empty or held only rows
   of another topic, or the budget was used up;
2. a second gap fill was started while one was running, and overwrote its target;
3. a newest page arrived after, and is older than, what is already shown;
4. `loadHistory` without a cursor put a newest page beside cached rows that is older than
   they are, or leaves out a message after them: only `refreshLatest` looks for gaps;
5. a newest page was put into an empty list and leaves out a message after the last row of
   this view in the cache, which had not been read yet: the hole is in the cache;
6. the list was trimmed while an older page or a gap page was loading;
7. the long-poll resumed from the cursor of an earlier view of the room, past a message
   the list lacks: after a failed refresh, or after a newest page without a row for the
   view, with the cached rows of an earlier opening in the list (two cache reads under
   way);
8. the topic was switched while something was loading;
9. an answer of the long-poll broke off in its body (`FinishedTorn` of `MessagePoller`): the
   cursor moves and the messages are not handed out.

Removing one of these from the model's `Excuse` gives a counterexample for it in one of the
two runs, so the list is also a list of the ways in which the code loses messages from view
until the room is reloaded.  The second is the exception: it needs a gap of two pages and
seven messages, more than the runs have, and was seen on an instance of its own (plain
messages, pages of one, two gap pages, a list of 7, ids to 7).

### Runs

| Run | Instance | Shows |
|---|---|---|
| `history` | 1 room, plain and control rows, pages of 2, gap pages of 1, list of 2, ids to 5 | gap and poll properties without topics |
| `history_topics` | 1 room, all kinds, topics on, pages of 1, 2 gap pages, ids to 3 | type, view and gap properties with topic switches |

One room is enough for the gap property because leaving a room and coming back goes
through `NoRoom` as through any other room: replies of an earlier visit stay in flight
either way.  Ids to 5 with a list of 2 let a trim, a gap and a page older than both happen
in one behaviour.  Two cache reads are under way in `history`, so that the rows of an earlier
opening come in late.  `PollsWhenSettled` is claimed without topics only: with topics, a gap
page of the main view can fill a topic view whose own load failed.

### Disagreements with the documentation

Both are excused causes or outside the claims, so no run shows them.

* "Trimmed rows are re-fetchable on scroll" (`MessageListModel.cpp` 778).  When a live
  message trims the list while an older page is loading, that page is put below the hole
  and the scroll-up cursor moves below it (cause 6).
* "Less than requested = no more pages" (line 584).  The same file knows better at line
  1989: the server limits first and drops comments afterwards, so a short page may have
  older ones behind it.

### Proofs

`RoomHistoryProofs.tla` proves, for any rooms, page sizes, list size, bounds and server
contents: `TypeOK`, `ShowsOpenView` (`SpecShowsOpenView`) and, without topics,
`PollsWhenSettled` (`SpecPollsWhenSettled`).  `HInv` strengthens them: a request that the
generation check would let through is one of the open room (`Fresh`), the long-poll is
that of the open room, a cached or loading page holds rows of its room only, and, without
topics, the list is not empty while a gap fill is at work: a gap fill that runs out starts
the long-poll only in a list that shows something.

The last third of the module proves `NoUnexplainedGap` (`SpecNoUnexplainedGap`).  What a
reply may not break must be said of everything the reply can meet, so `GapInv` speaks of
every source at once, for rooms in which none of the causes has happened:

* `ListInv`, `ReachInv`: between the oldest row and the newest nothing visible is missing
  but what a gap fill at work is to bring (`Holes`); the long-poll has not gone past a
  message later than the newest row.
* `HistoryAsked`, `RefreshAsked`, `GapAsked`: what each request under way will bring meets
  the list.  A request with a cursor asked at or above the oldest row and not above the
  newest; one for the newest page was asked of a server that already had every cached
  message, as long as the list is empty; a gap fill that goes on has the target that is in
  the members.
* `CachesWhole`, `LoadsWhole`: the cache has no hole in either view of a room, and the page
  read from it, which is still to come, is a part of the cache without one.
* `KindsInv` holds in every room: lists and caches hold what may be shown and saved.

`GapInv` was checked with TLC before it was proved.  The attempt found the second half of
cause 7, which an instance with one cache read does not reach, and the exact forms of
causes 4 and 5.

## 6. SignalingSession

A room is joined over two channels: the POST `participants/active` mints a Nextcloud
session and retires the one before; a `room` frame on the socket then binds it; a `room`
message acknowledges it.  Neither reply names the attempt it belongs to.

| Variable | Code | Notes |
|---|---|---|
| `sock`, `auth` | `m_ws`, `m_authenticated` | |
| `resume` | `m_resumeId`, `m_resuming`, `m_fastResumePending`, `m_resumeViaSettings` | |
| `next` | `m_reconnectTimer`, the settings fetch | what leads to the next connect |
| `room` | `m_currentRoom`, `m_roomJoinAcked`, `m_roomJoinPending`, `m_roomJoinWaiters`, `m_roomLeavePending`, `m_roomAckedBeforeDrop`, `m_roomAckedTokenBeforeDrop` | the age of a pending join is "young" or "old" (8 s) |
| `post` | the POSTs and what their callbacks captured | `orphan`: failed for the client, may still be carried out |
| `up`, `down` | frames under way | lost with the socket |
| `alive`, `attached`, `member` | external: the signaling server | |

Each action is one handler: `JoinRoom`, `RejoinRoom`, `LeaveRoom`, `JoinReplied`,
`JoinFailed`, `TimerFires` (`start`), `SettingsFetched`, `SettingsFailed`, `Connected`,
`Disconnected`, `Rehome` (`switchHpbTo`), and the branches of `onTextMessage`: `Welcome`,
`HelloResumed`, `HelloFresh`, `ResumeRefused`, `JoinRefused`, `LeftReceived`,
`RoomReceived`.  The servers are external: Nextcloud carries POSTs out in any order, also
those that failed for the client; the signaling server refuses a join under a retired
session and a join of the room the socket is in (`already_joined`,
`CallManager.cpp` 5256), resumes a session until it lapses, and moves a client when
breakout rooms start.

Abstracted or left out: the several signaling servers and the choice among them, back-off
times, typing and call signaling, a settings answer without server or ticket (the code
returns and does not try again), `stop`, the pong watchdog (its effect, a drop at any
moment, is there), and errors that `QWebSocket` reports besides a drop.

### What is claimed

* `SettledInRoom`: once the socket and the POST for the wanted room are quiet, the server
  has the client in that room and the client knows it, unless, since the room was last
  asked for,
  1. the POST failed, or its reply came while there was no session;
  2. the socket dropped with a `room` frame under way, and the session was resumed: a
     resumed session joins nothing again;
  3. Nextcloud carried out POSTs in another order than they were sent;
  4. the join was refused because the server still had the client in that room;
  5. `leaveRoom` was called;
  6. the acknowledgement of a room no longer wanted arrived.

  Taking any one of these out of the model's `excused` gives a counterexample.
* `HelloHasTicket`: a fresh hello never follows the fast reconnect that skipped the
  settings, where the ticket at hand is old.
* `WaitersBelong`: the callers counted as waiting belong to an unanswered join of this
  connection, across drops, resumes and moves.
* `NeverDead`: a drop, a failed fetch or a refused resume always leaves a next attempt.

### Runs

| Run | Instance | Shows |
|---|---|---|
| `session` | 2 rooms, 2 POSTs at once, frames to 2, 3 joins or leaves, 2 moves | the invariants above |
| `session_switch` | the same | violation: a late acknowledgement is taken for a move |

Drops, resumes and refusals are not bounded; only commands and moves are.  Three commands
allow a join, a second one that overtakes it, and a leave or a forced join on top; the
rejoin after each fresh hello adds POSTs of its own.  The number of a session may be used
again once the server has forgotten it, so one number is enough.  Rooms are symmetric.

### Disagreement with the code's comments

* `SwitchIsAMove`: "a token that is not the one we asked for IS the move"
  (`SignalingClient.cpp` 883).  The user joins A, then B before A is acknowledged; the
  acknowledgement of A is taken for a move to A, and the reply of B's POST is dropped.

### Proofs

`SignalingSessionProofs.tla` proves, for any rooms and any number of frames, commands and
moves: `TypeOK`, `NeverDead`, `HelloHasTicket` and `WaitersBelong`.  They are inductive
together with three more facts: the welcome comes alone, before anything is sent
(`Greeting`); a socket that is not up carries nothing, and the reconnect timer and the
settings fetch run only without one (`SocketInv`); a connect without a ticket is one that
resumes and has something to resume (`TicketInv`), which is what a fresh hello after a
refused resume relies on.

The second part of the module proves `SettledInRoom` (`SpecSettledInRoom`), with `JoinInv`,
checked with TLC on the run's instance first.  While the client is online and nothing is
excused (`Online`), one of four things holds of the room it wants: the POST sent last asks
for it (`PostJoins`); its frame is on the way with no leave behind it (`FrameJoins`); the
session is in a room that is the one wanted and acknowledged, or that the client will still
be told (`InRoom`); or an announcement that the session has left comes to a client that
does not wait for one, and will then be taken for a join (`LeaveSurprises`).  Once
everything is answered only the third is left, and it says that the room is the one wanted.
The other parts carry this from step to step: a hello and its answer are alone on the
socket, and a resumed session is the one whose id is kept (`Handshake`); the room announced
last is the room the session is in (`LastAnnounced`); one POST is the last (`OneLast`); and
a session that can be resumed is in the room the client will believe it is in (`Offline`),
which is what makes it sound that a resumed session joins nothing again.

## 7. CallJoin

`CallJoin.tla` models how this device gets into a call and out of it again: the part of
`CallManager.cpp` that posts joins, interprets what comes back, and cleans up after the
call, with the decisions of `CallJoinPolicy.h`.

| TLA+ | Code |
|---|---|
| `call.gen`, `phase`, `room`, `outgoing` | `m_callGen`, `m_state`, `m_callToken`, `m_joinIsOutgoing` |
| `call.posted`, `flying`, `unresolved` | `m_joinPosts`, a `JoinPostLedger` |
| `call.confirmed`, `attempts`, `rejoins` | `m_joinedCall`, `m_callJoinAttempts`, `m_callRoomRejoins` |
| `call.remote` | the peer: unknown, here, or within its grace after leaving |
| `todo` | what waits to run: `roomJoined` listeners, the steps of the 404 retry, the reconcile GET, the delayed re-POST, the late-commit check, the reply to a decline |
| `posts`, `leaves` | POST and DELETE requests that the network or the server still holds |
| `sig` | the signaling client's room, and whether it is acknowledged |
| `listed`, `hpb` | external: the room in whose call the server lists this device; updates under way |
| `faults`, `seen` | bound of the model; the recorded causes below |

Every continuation carries the generation it was made for, and may run at any moment or
not at all before the call ends.  One handler is one action with all it calls: `Answered`
is `onCallJoinPostResult` with `decideJoinFailure` and the late branch, `Reconciled` is
the GET with `decideJoinReconcile`, `Teardown` is `teardown` with `planCallEnd`.
`HoldIsOver` stands for the 95 s that the late-commit check waits.

The server is external: it writes a POST's membership at any time up to the hold, answers
before, after or never; entering or leaving a room gives the device a new server session,
which retires what the old one had; a POST for a room the session is not in is not
written; a 404 says that the session is in no room.

Not modelled: the leave sent when the program quits (`leaveCallBeacon`), joining on the
word of the REST list (`noteRestPeerEvidence`), the pre-check of a ring, media start, the ICE
server fetch, screen sharing.

### What is claimed

* `NoGhost`: the server does not go on listing the device in a call other than the present
  one, which must have posted a join, unless a leave or the late-commit check that undoes
  it is still to come.
* `ConfirmedIsListed`: a call the user takes for joined is one the server lists, or one
  whose silent POST for a replaced session is still unanswered.
* `JoinHasANextStep`: a call that is not joined always has the reply to a join POST of its
  own, or another step of its own joining, to come.
* `NoForeignEnd`: no continuation of one call ends another; the reply to the DELETE of a
  declined ring is not covered, since it does (`declined` below).

The first three hold up to the first of these, each recorded in `seen` by the step that
does it.  All of them are behaviours of the code:

| Cause | What happens |
|---|---|
| `giveUp` | every retry of a leave was lost |
| `skipped` | the check, or a late reply, stands back because the device is back in that call; that call then posts nothing, or fails |
| `forgotten` | a ring that had been joined (see `NoJoinWhileRinging`) is accepted: `resetCallJoinState` forgets the POST |
| `declined` | the reply to a declined ring's DELETE tears down whatever call there is by then (3625-3630) |
| `oldLeave` | a leave of the previous call of the room arrives after the new join was written |
| `staleUpdate` | an update about the previous membership confirms the new join |
| `ignored` | the peer comes back within its grace, the phase becomes Active, and the failed join is taken for a stale reply |
| `noRoom` | the room was not acknowledged within 15 s, or while the phase allowed a POST; nothing is tried again |
| `stolen` | the 404 retry of an ended call moves the socket out of the room of a new call |
| `leftRoom` | the same retry leaves its own room while a POST is out or after a join was confirmed |
| `resetRinging` | the signaling session is replaced while the call rings out: only Connecting, Active and Reconnecting register again (663) |
| `unregistered` | the one silent POST after a replaced session failed |

Taking any one of them out of a property gives TLC a counterexample for it.

### Runs

| Run | Instance | Shows |
|---|---|---|
| `call_join` | a one-to-one and a group room, 2 calls, 1 retry of each kind, 1 fault | the invariants above |
| `call_unanswered` | one room, no faults | violation: a hung-up call's listener joins a call that only rings |

A call gets its own generation when it starts and another when it ends, so `2 * MaxCalls`
generations are two calls: one whose leftovers are under way and one they could hit.
`MaxFaults` counts lost exchanges, session resets and failed retries; definite refusals
(404, other 4xx) are free.  The constraint `Few` stops a behaviour at its first recorded
cause, and keeps three continuations, POSTs and leaves together, of them at most two POSTs
and one leave.  The code's limits
(`kMaxCallJoinAttempts`, `kMaxCallRoomRejoins`, the tries of `delMustComplete`) are
constants.

### Disagreement with the code's comments

* `NoJoinWhileRinging`: "Guard: call may have been hung up while waiting for room join"
  (`CallManager.cpp` 3599).  The guard looks at the phase only, and Incoming passes it.

### Proofs

`CallJoinProofs.tla` proves the four invariants and the types for any rooms, limits and
number of calls.  None is inductive; each has an invariant of its own:

| Theorem | Invariant | What it adds |
|---|---|---|
| `SpecTypeOK`, `SpecNoForeignEnd` | `BaseInv` | whose each continuation, POST and leave is: of the present call and then for its room, or of an earlier one; which continuations a phase may have; the ledger (`flying`, `unresolved`) counts exactly the call's unanswered POSTs, each with its own number; the server can still write only POSTs for the room the session is in |
| `SpecNoGhost` | `GhostInv` | a POST that may still be written is of the present call or has a late-commit check in its room; a listing is of the present call or has a leave or a check |
| `SpecConfirmedIsListed` | `KeptInv` | the same from the moment the server wrote a POST of the call, before the call is told |
| `SpecJoinHasANextStep` | `PursuedInv` | exactly what may come next |

The helpers are handed a call already changed (`teardown` runs inside six handlers), so
their lemmas, like `Base` and `Ghost`, take the parts of the state as parameters; each
action has one lemma per invariant.  The TLC run stops at the first recorded cause; the
theorems hold for behaviours that go on after it, whatever their number of faults.

Some excuses look necessary and are not, so the properties do not make them: a reply still
to come does not excuse a ghost, a lost acknowledgement of the room does not excuse a call
that is not listed, and neither an outgoing call nor a peer in its grace excuses a call
with nothing to come.

## 8. BackgroundMailbox

`BackgroundMailbox.tla` models the background effect of the camera: three kinds of threads
around a mailbox with one input slot, one output slot and an epoch.

| TLA+ | Code |
|---|---|
| `engine` | `m_modeAtomic`, `m_imagePath`, `m_imagePathEmpty`; with the mode and the path, the number of the change that set them |
| `ui` | what the user interface thread still has to do of `setImagePath`, `setMode`, `resetMailbox`, `prewarm`, one shared access at a time |
| `box` | `BgFrameMailbox`: epoch, input slot, output slot |
| `queue` | events posted to the worker: a `processMailbox` kick, the `applyMode` calls in order |
| `worker` | compositor and segmenter up or not, `m_lastSeenEpoch`, the composite parked in the read-back, `m_lastMask`, failure streak and latch, the compose under way |
| `calls` | `processFrame` calls under way, one per camera session |
| `camera` | whether the camera runs, and its session |
| `wanted`, `settled`, `strays`, and of a call `mayRaw`, `bared`, `since` | history, for the properties |

A picture is what it was made of: the session of the frame, the settings it was composed
under, the session of its mask.  A read-back returns the composite before
(`takeReadback`), or its own when nothing is parked, and then returns it once more.
`processFrame` reads mode, flag, path and epoch in that order and at different moments;
the input slot is locked from the path to the epoch, and only that lock makes other
threads wait.  The end of a call does not wait for the camera thread (the pipeline is put
to NULL by a detached thread), so a call of the old session may go on under the new one.

Abstracted: how old a picture is (1 s, 30 frames, its size) refuses it or not, freely; the
rate cap may skip any frame it is allowed to skip; a pause of the camera (`gap`) is free;
the order between kicks and `applyMode` calls in the worker's event queue is left open,
and kicks that wait are one, since a second finds the slot empty.  Not modelled: blur
strength and plate cache, the pass-through of `onBgSample` when caps or a buffer cannot be
read, the Settings preview as a second producer, the notices, the shutdown of the worker.

### What is claimed

* `NeverRaw`: the frame goes out as the camera gave it only if the settings allowed it at
  some moment of the `processFrame` call, or the image was removed during that call.  Path,
  flag and mode are three stores and two loads on another thread; the order of the stores
  is what `applyBackgroundSettings` calls "order matters".  Settings are any mode with any
  path, the empty one included: the picker has a "(None)" tile (`SettingsDialog.cpp`
  1064-1091).  The exception is a window that the code has (see below).
* `NothingFromBefore`: a picture handed out was made since the mailbox was reset before the
  call began, with its frame, its mask and its settings; a picture can survive in the
  output slot, in the worker's compose under way, in the read-back, and its mask in
  `m_lastMask`.  Epochs into which a call that straddled a reset submitted its frame are
  excepted (`strays`, see below): there a picture of before does outlive the reset.
* `EngineMatchesMode`: once posted events are handled, the engine is up exactly if the
  effect is on; a late frame does not bring it up again.
* `LatchIsOfThisEpoch`: the effect is given up only for failures of this epoch.

### Run

| Run | Instance | Shows |
|---|---|---|
| `background` | one image, three changes (settings, camera starts, camera stops), a latch of two failures; the effect off at the start, or on with an image | the invariants above |

Three changes let the camera start, stop and start with the effect on, or start and see
the settings change twice, or let settings change between a stop and what the old camera
thread still does.  The code's latch counts more failures; two are the fewest that make a
row.

### Proofs

`BackgroundMailboxProofs.tla` proves, for any settings, number of changes and latch, all
five: `TypeOK`, `NeverRaw`, `EngineMatchesMode`, `LatchIsOfThisEpoch` and
`NothingFromBefore`.  The inductive
invariant `BInv` says in which order the steps the user interface thread has left to do
stand (`UiInv`), how far the settings asked for are in force (`SettingsInv`: an empty
path is on its way only if the image is being removed, and while the mode is still to be
stored a raw frame was allowed before, or the image is being removed), that a call which
finds the flag set may go out raw or began or went on while the image was being removed
(`CallsInv`), that the mode posted last is the mode in
force (`QueueInv`), and that the streak and the latch belong to the epoch the worker saw
last (`Sound`).

`NothingFromBefore` (`SpecNothingFromBefore`) needs to know where a picture of an epoch can
be: in the two slots, in the compose under way, and in the composite and the mask the worker
keeps, which are of the epoch it saw last (`HoldersInv`: no holder is of a future epoch, a
worker that is down keeps nothing).  `SinceInv` says of all of them at once that what
carries the present epoch was made since the last reset, and what carries the epoch of a
call that waits, since the reset before that call; `OrderInv`, that what is in force only
gets newer, carries the one over to the other when a call begins.

### Disagreements with the code's comments

* Not a run: `setMode` says that setting the path before the mode rules out that a user is
  seen with the mode Image and no path and has the raw frame sent
  (`BackgroundEngine.cpp` 304-311), `processFrame` that its two loads close that window
  (463-467) and that from there on the raw frame is not returned (488-492).  This holds
  while an image is being chosen.  When the image is removed and another effect stays
  wanted, the empty path is stored first, while Image is in force or has just been read:
  with (Image, plate) to (Blur, none) in one apply every frame until `setMode` goes out
  raw; if the combo goes to Blur first and the tile to "(None)" next, a camera thread that
  read Image before the former and the flag after the latter sends one.  In the dialog each
  click applies one key, so the first takes a store that changed by other means, the second
  a camera thread that is held up between its two loads.  Without `bared` in `NeverRaw` TLC
  shows it.
* Not a run: `setMode` says that a compose under way under the old mode is discarded at
  publish (`BackgroundEngine.cpp` 315-322), and `processFrame` that the epoch makes "this
  composite belongs to the current producer session" structural (570-574).  The camera
  thread reads the mode, and the frame is that of its session, before it reads the epoch:
  a call that straddles a reset stamps a frame of before with the epoch of after, and its
  composite is served.  `strays` holds the epochs into which that happened, and
  `NothingFromBefore` is claimed of the others; without it TLC shows the case.

## 9. FrameHandoff

`FrameHandoff.tla` models the gate through which decoded frames reach the main thread:
`tryAcquire` with its compare-exchange loop, `release`, and the callback between them as
all five users write it (`PublishPipeline.cpp` 4277-4296, `CallManager.cpp` 3492-3509,
`SubscribeWebrtcSrc.cpp` 1373-1393, `SubscribePipeline.cpp` 633-654,
`ScreenSharePipeline.cpp` 1046-1065).  `inFlight` is the counter, `cur` and `pc` what each
streaming thread has read and where it is, `queue` the frames posted, `feeding` whether
the main thread shows one.  A weak exchange may fail for no reason.  The counter of dropped
frames and its log policy are left out.  If the owner is destroyed, the gate goes with it.

Run `gate` (three threads, two places) checks that the counter stays in its bounds, that
the places taken are exactly the frames held (`Paired`), and that a full gate opens again
(`Reopens`).  Fairness: the main thread's event loop goes on, and a thread that has a
place posts its frame; nothing is assumed of a thread that tries.

`FrameHandoffProofs.tla` proves the bounds (`SpecTypeOK`), `Paired` (`SpecPaired`) and that
no more than `kMaxInFlight` frames are held (`SpecBounded`) for any set of threads, an
infinite one included, and any bound.  The invariant is `Paired` with the types and the
finiteness of the set of posting threads: without `Paired` a release could make the
counter negative, and without the re-test after a failed exchange the counter could pass
the bound.  `Reopens` is liveness and only model-checked.

## 10. UpdateInstall

`UpdateInstall.tla` models what happens to a new version from its offer to the restart:
the handlers of `MainWindow` (`updateAvailable` 2286, `downloadFailed` 2385, the banner's
three buttons 2411-2470, `onUpdateReadyToLaunch` 4698, `onUpdateAutoInstallTick` 4840,
`maybeLaunchPendingInstaller` 5145, Update now 6054, the call handlers 2085-2132), the
download state of `UpdateChecker`, and every decision of `UpdateInstallGatePolicy.h` about
an installer.  The policy header is tested by its authors one decision at a time; what the
model adds is their order, over the members that outlive a decision.

`win` is the members: the manifest on offer (`manifest`, `pending`), the `download`, the
installer that waits (`waiting`) and what it is (`install`), what a download replaces
(`replaced`), a launch deferred by a call (`callWait`) or by the grace (`graceTimer`), the
countdown (`counting`), Update now (`wants`, `checking`), the banner (`shown`, `active`,
`final` for its "Installing in", `buttons`), and the three moments everything is measured
from, kept as ages: `sinceInput`, `sinceReady`, `sinceCall`.  `world` is what the handlers
read: the call, unsent work of any kind (one flag for drafts, staged files, recordings,
uploads, held buttons and unconfirmed messages), the setting.  Handlers call one another
after having changed something, so they are operators from a state to the set of states
they may leave: opening the download's file and starting the installer may fail.

A unit of time is longer than the 1 s tick and the 9 s of Update now: the countdown looks
at the state after every event and before time passes, and what it resets every second
while it is blocked stays reset.  Histories: `asked` (the user asked
for what is under way and has neither taken it back nor been told that it failed), `seen`
(for how long the final countdown has stood on screen with its cancel button), `excused`.

Left out: fetching and parsing the manifest (an offer comes or not, the same version, a
newer or a pinned older one), the hash check (a download lands or fails), the desktop
notification, a changed idle setting, and what else the program may do in the half second between the launch and the quit.

### What is claimed

* `NoSurpriseRestart`: never two installers, never during a call; and a restart nobody
  asked for never over unsent work or after Cancel auto-install in this session, and no
  sooner after a call than the idle wait or the grace, whichever is shorter, through failed
  launches, silent re-downloads, newer offers and requests given up half-way.  If the call
  had its heartbeat, it is the grace.  The grace is measured from the last stamp, and a
  call is stamped by its state changes and by `durationChanged`, each second of
  `m_durationTimer`; that timer starts only when Connecting becomes Active
  (`CallManager.cpp` 2021, 2562, 6816) and stops only at the end (6069).  So `world.call`
  tells a call with the heartbeat (`talking`) from one without (`silent`: it rings, dials,
  connects, or was Reconnecting before it was ever Active, 663-668, and came back by 2220
  or 2570); a `silent` stretch may have any length.  What still keeps a restart away after
  a silent call is the idle time, which every tick in the call resets; a call shorter than
  a tick leaves the idle time alone, but then it was stamped.
* `CountdownSeen`: before such a restart the final countdown was on screen, with its
  cancel button, for all its time.  It needs the anchor that moves during the grace: with
  an idle wait no longer than the grace, an idle user would otherwise see none.
* The distance from calls and `CountdownSeen` except what follows a sleep of the machine in
  a call or in a countdown (`Sleeps`, `excused` has `slept`; below), when the clock goes on
  without tick and heartbeat.
* `WaitingHasANextStep`: a waiting installer is counted down, waits for a call that is in
  progress, for an armed grace timer, or for the user after a cancel; none of these is
  armed without one; nothing downloads beside it; a replaced request lives as long as its
  download; and what the user asked for is under way.
* `TypeOK`, among others: an automatic install never carries the explicit flag.

### Run

| Run | Instance | Shows |
|---|---|---|
| `update` | 2 versions, idle wait 2, countdown 1, grace 3, preview 1 units | all four properties, 2.2 million states |

Two versions are enough: an offer is new or it is not, and at most one installer waits and
one download runs.  The idle wait is shorter than the grace, the case in which the anchor
has to move and in which a call without heartbeat lets a restart come sooner than the
grace (seen by asking for `quiet = Grace` always); calls, their silent stretches, sleeps,
offers and failures are not bounded.  The same properties were also checked with the idle
wait equal to and longer than the grace, equal to the countdown, and without preview.

### Proofs

`UpdateInstallProofs.tla` proves all four properties, for any versions and any times with
`Final <= IdleWait` (`SpecTypeOK`, `SpecWaitingHasANextStep`, `SpecNoSurpriseRestart`,
`SpecCountdownSeen`); nothing is assumed of the length of a call or of how the grace
compares with the idle wait.  The invariant `IInv` has two parts because a handler calls
the next one in the middle of its work.  `Core` holds there too: what kind of install goes
with what the user asked for, what may be armed or counted, and that a download nobody
asked for was started by the setting.  `Settled` holds once the handler has returned: a
waiting installer has its next step.  `Stamped` compares what the gates measure with the
time without a call: while the countdown runs, its idle time or the age of the stamp is
not ahead of it, and after a call with a heartbeat the stamp never is.

Every operator has a lemma from `Core` to `Core`, `Settled` and `Near` (no moment moves
away from now, nothing but an open gate launches); an action's lemma then only shows
`Core` of the window it hands to its first operator.  `Counted` is the invariant of the
countdown: the idle time is never further than the end of the countdown plus what was
`seen` of it, and a tick leaves the screen such that the next unit of time keeps it so
(`Painted`: reset while blocked, held back during the grace, or shown).  `IInv` and
`Counted` were checked with TLC on the run's instance before they were proved.

### Disagreements with the code's comments

These are excused or left out of the run; each was seen as a counterexample when its
excuse was taken away.

* Auto-install switched off while an automatic download runs (`excused` has
  `switchedOff`): the download lands as accepted and restarts at once, whatever is unsent.
  `UpdateInstallGatePolicy.h` 222-225 says "the download did not come from the automatic
  download (it does not run in either case) but from the user", and `CHANGELOG.md` 942 "An
  automatic update now only ever installs from the idle countdown".  The download that runs
  already is neither stopped nor remembered as automatic; only a replacement is.
* The banner closed, or Later, while an installer waits or downloads (`deferred`):
  `deferUpdate` clears the pending manifest, so a launch that then fails asks for a
  re-download that does nothing, and `m_replacedInstall` stays.  `MainWindow.h` 436 says
  "It lives exactly as long as that download".  It attaches itself to the next download
  the user starts, and the banner says "re-downloading" until the next offer.
* "A waiting installer is always for the version the banner offers"
  (`MainWindow.cpp` 2420-2422) does not hold when the older version's download was still
  running when the newer one was offered and auto-install is off: nothing restarts the
  download, and the older one lands.  No property claims it.
* A call that never started its heartbeat (above).  `CHANGELOG.md` 945 says "After a call,
  an automatic update waits for whichever is longer: your idle setting, or about four
  minutes", and `MainWindow.h` 466-470 that the stamp is "refreshed every ~1 s during a
  call via durationChanged" and an update "NEVER restarts TalQ the instant a call ends".
  A call that lost its publisher before it was connected is stamped last when it became
  Active; when it ends, the grace may have run out already.  With an idle setting of one to
  three minutes an automatic update then waits only for that, and an install whose download
  the user accepted (`UserAccepted`, not explicit) starts the moment the call ends.
* A machine that sleeps: the ages are differences of wall-clock times.  After a sleep in
  the countdown the first tick restarts the program, although "The last minute is always
  shown as a countdown you can cancel" (`CHANGELOG.md` 946); after a sleep in a call that
  ends before the next tick, so does that tick.
