----------------------------- MODULE SendOutbox -----------------------------
(***************************************************************************)
(* The send outbox of MessageListModel: every composer message the server  *)
(* has not yet confirmed, and the check-then-resend protocol that brings   *)
(* it there (src/models/MessageListModel.cpp, core/SendRetryPolicy.h).     *)
(*                                                                         *)
(* Everything on the client runs on Qt's event loop, so one handler is one *)
(* action.  The server is external: it stores a comment under the next id  *)
(* of the room, answers a POST before or after that (or never has to store *)
(* it at all), never deduplicates, and serves history pages.               *)
(*                                                                         *)
(* Abstractions.  Message n is the n-th one sent (the code's tempId is -n; *)
(* QVector m_outbox holds them in send order, so order is number order).   *)
(* A deadline nextTryMs is what is left of it: "due", a "short" wait of at *)
(* most a few minutes, or the 120 s "settle" of a slow failure.  The       *)
(* timestamp lastActivityMs is only ever compared with the start of the    *)
(* running probe: `quiet' says that it is not later.                       *)
(***************************************************************************)
EXTENDS Integers, FiniteSets

CONSTANTS
    MaxMsgs,        \* messages the user writes
    Rooms,          \* conversations
    NoRoom,         \* no conversation open
    Accounts,       \* users who sign in on this machine
    Nobody,         \* signed out
    Limit,          \* comments in one history page (kChatPageLimit)
    PostBudget,     \* POSTs before giving up, and the tighter number
    PostBudget400,  \*   after a 400 (postAttemptBudget)
    MaxId,          \* bound: other people stop writing at this comment id
    MaxRetries,     \* bound: clicks on "Retry now"
    LateSave        \* may the server store a message after its POST failed?

ASSUME OutboxAssumption ==
    /\ MaxMsgs \in Nat /\ Limit \in Nat \ {0} /\ MaxId \in Nat /\ MaxRetries \in Nat
    /\ PostBudget \in Nat \ {0} /\ PostBudget400 \in 1..PostBudget
    /\ NoRoom \notin Rooms /\ Nobody \notin Accounts
    /\ LateSave \in BOOLEAN

VARIABLES
    sent,        \* messages written so far (tempIdCounter)
    outbox,      \* the messages m_outbox holds
    entry,       \* their OutboxEntry
    attemptSeq,  \* OutboxEntry::attemptSeq: names the current attempt
    sendQueue,   \* m_sendQueue: per room, the messages cleared to POST
    probing,     \* m_probing: rooms with a history probe in flight
    page,        \* what that probe was served: the newest id then, or Unserved
    token,       \* m_token, the open conversation
    account,     \* who is signed in
    posts,       \* POSTs the network or the server still holds
    newest,      \* server: newest comment id per room
    copies,      \* server: the ids under which a message is stored
    retries,     \* clicks on Retry so far
    forced,      \* history: messages the user forced past an unclear window
    dropped      \* history: messages discarded by the user or at logout

client == <<sent, outbox, entry, attemptSeq, sendQueue, probing, token, account>>
vars == <<client, page, posts, newest, copies, retries, forced, dropped>>

Msgs == 1..MaxMsgs
Unserved == -1

Entry == [token : Rooms \cup {NoRoom}, owner : Accounts \cup {Nobody},
          knownNewestId : Nat, postAttempts : Nat, everPosted : BOOLEAN,
          inFlight : BOOLEAN, slow : BOOLEAN, permanent : BOOLEAN, manual : BOOLEAN,
          wait : {"due", "short", "settle"}, quiet : BOOLEAN]

Blank == [token |-> NoRoom, owner |-> Nobody, knownNewestId |-> 0, postAttempts |-> 0,
          everPosted |-> FALSE, inFlight |-> FALSE, slow |-> FALSE, permanent |-> FALSE,
          manual |-> FALSE, wait |-> "due", quiet |-> FALSE]

Post == [msg : Msgs, seq : Nat, token : Rooms, by : Accounts \cup {Nobody},
         saved : BOOLEAN, answered : BOOLEAN]

TypeOK ==
    /\ sent \in 0..MaxMsgs
    /\ outbox \subseteq 1..sent
    /\ entry \in [Msgs -> Entry] /\ \A m \in Msgs \ outbox : entry[m] = Blank
    /\ attemptSeq \in [Msgs -> Nat]
    /\ sendQueue \in [Rooms -> SUBSET outbox]
    /\ probing \subseteq Rooms
    /\ page \in [Rooms -> Nat \cup {Unserved}]
    /\ token \in Rooms \cup {NoRoom}
    /\ account \in Accounts \cup {Nobody}
    /\ posts \subseteq Post
    /\ newest \in [Rooms -> Nat]
    /\ copies \in [Msgs -> SUBSET Nat]
    /\ retries \in 0..MaxRetries
    /\ forced \subseteq Msgs /\ dropped \subseteq Msgs

Init ==
    /\ sent = 0 /\ outbox = {} /\ entry = [m \in Msgs |-> Blank]
    /\ attemptSeq = [m \in Msgs |-> 0]
    /\ sendQueue = [r \in Rooms |-> {}]
    /\ probing = {} /\ page = [r \in Rooms |-> Unserved]
    /\ token = NoRoom /\ account \in Accounts
    /\ posts = {} /\ newest = [r \in Rooms |-> 0] /\ copies = [m \in Msgs |-> {}]
    /\ retries = 0 /\ forced = {} /\ dropped = {}

-----------------------------------------------------------------------------
(* The policy: core/SendRetryPolicy.h.                                     *)

\* HTTP outcomes by what the policy tells apart: "unknown" is a transport
\* failure, 5xx, 408, 429 or an unusable 2xx; "refused" is 401, 403, 404, 412...
Failures == {"unknown", "bad400", "refused"}

postAttemptBudget(status) == IF status = "bad400" THEN PostBudget400 ELSE PostBudget

\* (fault) one attempt too many.
givesUpLate(status, attempts) ==
    status = "refused" \/ attempts > postAttemptBudget(status)

givesUp(status, attempts) == status = "refused" \/ attempts >= postAttemptBudget(status)

\* An entry whose attempt failed.  `hung': it was out for kSlowFailureMs.
PostFailed(e, status, hung) ==
    [e EXCEPT !.inFlight = FALSE, !.slow = FALSE, !.quiet = FALSE,
              !.permanent = givesUp(status, e.postAttempts),
              !.wait = IF givesUp(status, e.postAttempts) THEN @
                       ELSE IF hung THEN "settle" ELSE "short"]

\* An entry that is neither given up nor in flight: it waits, holds back newer
\* sends (blocksNewSend) and is what a probe decides about.
Waiting(e) == ~e.inFlight /\ ~e.permanent

headReady(e) == Waiting(e) /\ e.wait = "due"

\* The comment ids on the newest page of a room whose newest id is n, and the
\* oldest raw id in it (X-Chat-Last-Given; 0 when the room has no comments).
Window(n) == {i \in 1..n : i > n - Limit}

\* (fault) the page is taken to reach one comment further back than it does.
lastGivenTooOld(n) == IF n > Limit THEN n - Limit ELSE IF n > 0 THEN 1 ELSE 0

lastGiven(n) == IF n > Limit THEN n - Limit + 1 ELSE IF n > 0 THEN 1 ELSE 0

\* The page reaches back to every id the server can have given a message that
\* was sent when `known' was the newest id.
CoversOneTooFew(n, known) == known > 0 /\ lastGiven(n) <= known + 2   \* (fault)

Covers(n, known) == known > 0 /\ lastGiven(n) <= known + 1

probeVerdict(m, n) ==
    CASE copies[m] \cap Window(n) # {} -> "Delivered"
      [] copies[m] \cap Window(n) = {} /\ n = 0 -> "Absent"
      [] copies[m] \cap Window(n) = {} /\ n > 0 ->
            IF Covers(n, entry[m].knownNewestId) THEN "Absent" ELSE "Inconclusive"

\* (fault) an unclear window counts as delivered.
afterProbeOptimist(m, n) ==
    CASE probeVerdict(m, n) = "Delivered" -> "MarkDelivered"
      [] probeVerdict(m, n) = "Absent" -> "Resend"
      [] probeVerdict(m, n) = "Inconclusive" ->
            IF entry[m].everPosted THEN "MarkDelivered" ELSE "Resend"

afterProbe(m, n) ==
    CASE probeVerdict(m, n) = "Delivered" -> "MarkDelivered"
      [] probeVerdict(m, n) = "Absent" -> "Resend"
      [] probeVerdict(m, n) = "Inconclusive" ->
            IF entry[m].everPosted /\ ~entry[m].manual THEN "GiveUp" ELSE "Resend"

-----------------------------------------------------------------------------
(* Helpers of the handlers.  They take the outbox, the entries, the POSTs  *)
(* and the queue as the caller has left them so far.                       *)

\* startAttempt: the body of a POST going out.
Posted(e) ==
    [e EXCEPT !.postAttempts = @ + 1, !.everPosted = TRUE, !.manual = FALSE,
              !.inFlight = TRUE, !.slow = FALSE, !.quiet = FALSE]

StartAttempt(m, en, ps) ==
    /\ attemptSeq' = [attemptSeq EXCEPT ![m] = @ + 1]
    /\ entry' = [en EXCEPT ![m] = Posted(@)]
    /\ posts' = ps \cup {[msg |-> m, seq |-> attemptSeq[m] + 1, token |-> en[m].token,
                          by |-> account, saved |-> FALSE, answered |-> FALSE]}

Sendable(m, ob, en) == m \in ob /\ Waiting(en[m])

\* sendNextQueued: take messages off the queue until one can be sent.
SendNextQueued(r, queue, ob, en, ps) ==
    \/ /\ \A m \in queue : ~Sendable(m, ob, en)
       /\ sendQueue' = [sendQueue EXCEPT ![r] = {}]
       /\ entry' = en /\ posts' = ps /\ UNCHANGED attemptSeq
    \/ \E m \in queue :
          /\ Sendable(m, ob, en)
          /\ \A k \in queue : k < m => ~Sendable(k, ob, en)
          /\ sendQueue' = [sendQueue EXCEPT ![r] = {k \in queue : k > m}]
          /\ StartAttempt(m, en, ps)

\* dropOutboxEntry.
Without(m) == [entry EXCEPT ![m] = Blank]

\* (fault) the queue keeps the message.
DropUnqueued(m) ==
    /\ outbox' = outbox \ {m} /\ entry' = Without(m) /\ UNCHANGED sendQueue

Drop(m) ==
    /\ outbox' = outbox \ {m}
    /\ entry' = Without(m)
    /\ sendQueue' = [r \in Rooms |-> sendQueue[r] \ {m}]

\* kickOutbox: pull every waiting entry's deadline forward to kMinSpacingMs
\* after its last activity.
Waits(e, w) == [e EXCEPT !.wait = w]
Kicked(en) ==
    [m \in Msgs |-> IF Waiting(en[m]) /\ en[m].wait = "settle"
                    THEN Waits(en[m], "short") ELSE en[m]]

-----------------------------------------------------------------------------
(* The user.                                                               *)

\* An older message of the room waits: blocksNewSend of any of its entries.
BehindInFlightOnly(r) ==                                     \* (fault)
    \E o \in outbox : entry[o].token = r /\ entry[o].inFlight

behindOlder(r) == \E o \in outbox : entry[o].token = r /\ Waiting(entry[o])

Composed(known) ==
    [Blank EXCEPT !.token = token, !.owner = account, !.knownNewestId = known]

SendMessage(m) ==
    /\ account # Nobody /\ token # NoRoom
    /\ m = sent + 1
    /\ sent' = m
    /\ outbox' = outbox \cup {m}
    /\ \E known \in 0..newest[token] :
          LET en == [entry EXCEPT ![m] = Composed(known)]
          IN IF behindOlder(token)
             THEN /\ entry' = Kicked(en)
                  /\ UNCHANGED <<attemptSeq, posts>>
             ELSE StartAttempt(m, en, posts)
    /\ UNCHANGED <<sendQueue, probing, page, token, account, newest, copies,
                   retries, forced, dropped>>

Retried(e) ==
    [e EXCEPT !.permanent = FALSE, !.manual = TRUE, !.postAttempts = 0, !.wait = "due",
              !.quiet = FALSE]

RetryMessage(m) ==
    /\ m \in outbox /\ ~entry[m].inFlight
    /\ retries < MaxRetries
    /\ retries' = retries + 1
    /\ entry' = [k \in Msgs |->
          IF k = m
          THEN Retried(entry[k])
          ELSE IF k \in outbox /\ entry[k].token = entry[m].token /\ Waiting(entry[k])
          THEN Waits(entry[k], "due")
          ELSE entry[k]]
    /\ UNCHANGED <<sent, outbox, attemptSeq, sendQueue, probing, page, token, account,
                   posts, newest, copies, forced, dropped>>

DiscardFailed(m) ==
    /\ m \in outbox
    /\ Drop(m)
    /\ dropped' = dropped \cup {m}
    /\ UNCHANGED <<sent, attemptSeq, probing, page, token, account, posts, newest,
                   copies, retries, forced>>

\* A reachability edge or the window coming to the front.
KickOutbox ==
    /\ entry' = Kicked(entry)
    /\ UNCHANGED <<sent, outbox, attemptSeq, sendQueue, probing, page, token, account,
                   posts, newest, copies, retries, forced, dropped>>

\* setConversationToken: opening a room is a kick as well.
OpenRoom(r) ==
    /\ token # r /\ token' = r
    /\ entry' = IF r = NoRoom THEN entry ELSE Kicked(entry)
    /\ UNCHANGED <<sent, outbox, attemptSeq, sendQueue, probing, page, account,
                   posts, newest, copies, retries, forced, dropped>>

\* (fault) the outbox survives the session.
LogoutOnly ==
    /\ account # Nobody /\ account' = Nobody
    /\ UNCHANGED <<sent, outbox, entry, attemptSeq, sendQueue, probing, token, page,
                   posts, newest, copies, retries, forced, dropped>>

\* clearOutbox, at logout.  A probe in flight is left to its reply.
Logout ==
    /\ account # Nobody /\ account' = Nobody
    /\ dropped' = dropped \cup outbox
    /\ outbox' = {} /\ entry' = [m \in Msgs |-> Blank]
    /\ sendQueue' = [r \in Rooms |-> {}]
    /\ UNCHANGED <<sent, attemptSeq, probing, page, token, posts, newest, copies,
                   retries, forced>>

Login(a) ==
    /\ account = Nobody /\ account' = a
    /\ UNCHANGED <<sent, outbox, entry, attemptSeq, sendQueue, probing, token, page,
                   posts, newest, copies, retries, forced, dropped>>

-----------------------------------------------------------------------------
(* The POST and its reply.                                                 *)

Slowed(e) == [e EXCEPT !.slow = TRUE]

\* onAttemptSlow: 20 s without an answer.
AttemptSlow(m) ==
    /\ m \in outbox /\ entry[m].inFlight /\ ~entry[m].slow
    /\ entry' = [entry EXCEPT ![m] = Slowed(@)]
    /\ UNCHANGED <<sent, outbox, attemptSeq, sendQueue, probing, page, token, account,
                   posts, newest, copies, retries, forced, dropped>>

\* Server: the comment is stored, under the next id.  It runs while the client
\* still waits for this attempt or, with LateSave, also after it was told
\* (or concluded) that the attempt failed.
ServerSave(p) ==
    /\ p \in posts /\ ~p.saved
    /\ LateSave \/ (~p.answered /\ p.seq = attemptSeq[p.msg])
    /\ newest' = [newest EXCEPT ![p.token] = @ + 1]
    /\ copies' = [copies EXCEPT ![p.msg] = @ \cup {newest[p.token] + 1}]
    /\ posts' = (posts \ {p}) \cup (IF p.answered THEN {} ELSE {[p EXCEPT !.saved = TRUE]})
    /\ UNCHANGED <<client, page, retries, forced, dropped>>

\* What is left of a POST once its reply is in: a request that hung may still
\* sit in the server's queue.
Leftover(p, hung) ==
    IF LateSave /\ hung /\ ~p.saved THEN {[p EXCEPT !.answered = TRUE]} ELSE {}

\* onAttemptFinished, no entry: echoed, discarded or cleared meanwhile.
ReplyUntracked(p, hung) ==
    /\ p \in posts /\ ~p.answered /\ p.msg \notin outbox
    /\ SendNextQueued(p.token, sendQueue[p.token], outbox, entry,
                      (posts \ {p}) \cup Leftover(p, hung))
    /\ UNCHANGED <<sent, outbox, probing, page, token, account, newest, copies,
                   retries, forced, dropped>>

\* onAttemptFinished, success: of whichever attempt, the message exists.
ReplyDelivered(p) ==
    /\ p \in posts /\ ~p.answered /\ p.msg \in outbox /\ p.saved
    /\ outbox' = outbox \ {p.msg}
    /\ SendNextQueued(p.token, sendQueue[p.token] \ {p.msg}, outbox', Without(p.msg),
                      posts \ {p})
    /\ UNCHANGED <<sent, probing, page, token, account, newest, copies,
                   retries, forced, dropped>>

\* onAttemptFinished, failure of an attempt that is no longer the current one.
ReplyStale(p, hung) ==
    /\ p \in posts /\ ~p.answered /\ p.msg \in outbox /\ p.seq # attemptSeq[p.msg]
    /\ posts' = (posts \ {p}) \cup Leftover(p, hung)
    /\ UNCHANGED <<client, page, newest, copies, retries, forced, dropped>>

\* onAttemptFinished, failure of the current attempt, stored or not.  It hung
\* for 25 s only if it was slow at 20 s; a refusal comes before the save.
ReplyFailed(p, status, hung) ==
    /\ p \in posts /\ ~p.answered /\ p.msg \in outbox /\ p.seq = attemptSeq[p.msg]
    /\ status = "refused" => ~p.saved /\ ~hung
    /\ hung => entry[p.msg].slow
    /\ entry' = [entry EXCEPT ![p.msg] = PostFailed(@, status, hung)]
    /\ posts' = (posts \ {p}) \cup Leftover(p, hung)
    /\ sendQueue' = [sendQueue EXCEPT ![p.token] = {}]
    /\ UNCHANGED <<sent, outbox, attemptSeq, probing, page, token, account, newest,
                   copies, retries, forced, dropped>>

\* replaceTempByReferenceId: the poller or a refresh of the open room delivers
\* the stored message first.
Echo(m) ==
    /\ m \in outbox /\ entry[m].token = token /\ copies[m] # {}
    /\ Drop(m)
    /\ UNCHANGED <<sent, attemptSeq, probing, page, token, account, posts, newest,
                   copies, retries, forced, dropped>>

\* Somebody else writes in the room.
OthersWrite(r) ==
    /\ newest[r] < MaxId
    /\ newest' = [newest EXCEPT ![r] = @ + 1]
    /\ UNCHANGED <<client, page, posts, copies, retries, forced, dropped>>

-----------------------------------------------------------------------------
(* The timer and the history probe.                                        *)

\* The clock reaches nextTryMs.  A settled request has run by then.
DeadlinePasses(m) ==
    /\ m \in outbox /\ Waiting(entry[m]) /\ entry[m].wait # "due"
    /\ entry[m].wait = "settle" => \A p \in posts : p.msg = m => ~p.answered
    /\ entry' = [entry EXCEPT ![m] = Waits(@, "due")]
    /\ UNCHANGED <<sent, outbox, attemptSeq, sendQueue, probing, page, token, account,
                   posts, newest, copies, retries, forced, dropped>>

\* (fault) a message that was given up still counts.
IsHeadOfAll(m, ob, en) ==
    /\ m \in ob /\ ~en[m].permanent
    /\ \A o \in ob : en[o].token = en[m].token => m <= o

Quiet(e, b) == [e EXCEPT !.quiet = b]
GivenUp(e) == [e EXCEPT !.permanent = TRUE]

\* The oldest entry of its room that is not given up.
IsHead(m, ob, en) ==
    /\ m \in ob /\ ~en[m].permanent
    /\ \A o \in ob : en[o].token = en[m].token /\ ~en[o].permanent => m <= o

\* outboxTick and the head of probeToken.  The timer runs while an entry is
\* active (syncOutboxTimer).  `expired': in flight for kInFlightWatchdogMs.
OutboxTick ==
    /\ \E m \in outbox : ~entry[m].permanent
    /\ \E expired \in SUBSET {m \in outbox : entry[m].inFlight /\ entry[m].slow
                                              /\ entry[m].owner = account} :
          LET mine == {m \in outbox : entry[m].owner = account}
              en == [m \in Msgs |-> IF m \notin mine THEN Blank
                                    ELSE IF m \in expired
                                    THEN PostFailed(entry[m], "unknown", TRUE)
                                    ELSE entry[m]]
              started == {r \in Rooms \ probing :
                             \E m \in mine : /\ en[m].token = r /\ headReady(en[m])
                                             /\ IsHead(m, mine, en)}
          IN /\ outbox' = mine
             /\ attemptSeq' = [m \in Msgs |-> IF m \in expired THEN attemptSeq[m] + 1
                                              ELSE attemptSeq[m]]
             /\ sendQueue' = [r \in Rooms |-> IF \E m \in expired : entry[m].token = r
                                              THEN {} ELSE sendQueue[r] \cap mine]
             /\ probing' = probing \cup started
             /\ entry' = [m \in Msgs |-> IF m \in mine /\ en[m].token \in started
                                         THEN Quiet(en[m], TRUE) ELSE en[m]]
             /\ dropped' = dropped \cup (outbox \ mine)
    /\ UNCHANGED <<sent, page, token, account, posts, newest, copies, retries, forced>>

\* Server: it reads the newest page.
ProbeServed(r) ==
    /\ r \in probing /\ page[r] = Unserved
    /\ page' = [page EXCEPT ![r] = newest[r]]
    /\ UNCHANGED <<client, posts, newest, copies, retries, forced, dropped>>

\* Every entry of the room as its probe ends: nothing is compared any more.
Unquiet(r, en) ==
    [m \in Msgs |-> IF en[m].token = r THEN Quiet(en[m], FALSE) ELSE en[m]]

\* probeToken, the reply does not answer: no connection, or the server says no.
ProbeFailed(r, denied) ==
    /\ r \in probing /\ probing' = probing \ {r}
    /\ page' = [page EXCEPT ![r] = Unserved]
    /\ entry' = Unquiet(r, [m \in Msgs |->
          IF m \in outbox /\ entry[m].token = r /\ Waiting(entry[m])
          THEN IF denied THEN GivenUp(entry[m]) ELSE Waits(entry[m], "short")
          ELSE entry[m]])
    /\ UNCHANGED <<sent, outbox, attemptSeq, sendQueue, token, account, posts, newest,
                   copies, retries, forced, dropped>>

\* probeToken, the reply holds a page.
ProbeAnswered(r) ==
    /\ r \in probing /\ page[r] # Unserved
    /\ probing' = probing \ {r}
    /\ page' = [page EXCEPT ![r] = Unserved]
    /\ LET judged == {m \in outbox : /\ entry[m].token = r /\ Waiting(entry[m])
                                     /\ entry[m].quiet}
           delivered == {m \in judged : afterProbe(m, page[r]) = "MarkDelivered"}
           toSend == {m \in judged : afterProbe(m, page[r]) = "Resend"}
           giveUp == {m \in judged : afterProbe(m, page[r]) = "GiveUp"}
           left == outbox \ delivered
           en == Unquiet(r, [m \in Msgs |->
                    IF m \in delivered THEN Blank
                    ELSE IF m \in giveUp THEN GivenUp(entry[m])
                    ELSE entry[m]])
       IN /\ outbox' = left
          /\ forced' = forced \cup {m \in toSend : /\ entry[m].everPosted
                                      /\ probeVerdict(m, page[r]) = "Inconclusive"}
          /\ IF toSend # {}
             THEN SendNextQueued(r, toSend, left, en, posts)
             ELSE /\ entry' = en
                  /\ sendQueue' = [sendQueue EXCEPT ![r] = @ \ delivered]
                  /\ UNCHANGED <<attemptSeq, posts>>
    /\ UNCHANGED <<sent, token, account, newest, copies, retries, dropped>>

-----------------------------------------------------------------------------

User ==
    \/ \E m \in Msgs : SendMessage(m) \/ RetryMessage(m) \/ DiscardFailed(m)
    \/ \E r \in Rooms \cup {NoRoom} : OpenRoom(r)
    \/ KickOutbox \/ Logout
    \/ \E a \in Accounts : Login(a)

Reply(p) ==
    \/ \E hung \in BOOLEAN : ReplyUntracked(p, hung) \/ ReplyStale(p, hung)
    \/ ReplyDelivered(p)
    \/ \E status \in Failures, hung \in BOOLEAN : ReplyFailed(p, status, hung)

Network ==
    \/ \E p \in posts : ServerSave(p) \/ Reply(p)
    \/ \E m \in Msgs : Echo(m)
    \/ \E r \in Rooms : \/ OthersWrite(r) \/ ProbeServed(r) \/ ProbeAnswered(r)
                        \/ \E denied \in BOOLEAN : ProbeFailed(r, denied)

Timers ==
    \/ \E m \in Msgs : AttemptSlow(m) \/ DeadlinePasses(m)
    \/ OutboxTick

Next == User \/ Network \/ Timers

Spec == Init /\ [][Next]_vars

-----------------------------------------------------------------------------

\* A message is stored once at most: no re-send repeats what the server already
\* holds, unless the user pressed Retry and the history window could not tell
\* (the point of probeToken; Talk stores every POST it gets).
NoDuplicate ==
    \A m \in Msgs \ forced : \A i, j \in copies[m] : i = j

\* What the user wrote is on the server, still in the outbox, or was dropped by
\* the user's own act: no reply, echo, probe verdict or tick loses it.
NothingLost ==
    \A m \in 1..sent : m \in outbox \/ m \in dropped \/ copies[m] # {}

\* The automatic POSTs of a message stay within its budget (postAttemptBudget),
\* and one that has used it up is given up or on its last attempt.
BudgetKept ==
    \A m \in outbox : /\ entry[m].postAttempts <= PostBudget
                      /\ entry[m].postAttempts = PostBudget => ~Waiting(entry[m])

\* A message is POSTed with the credentials of the account that wrote it, through
\* logout and login with requests, probes and queues outstanding (clearOutbox).
OwnAccount ==
    \A p \in posts : p.msg \in outbox => p.by = entry[p.msg].owner

-----------------------------------------------------------------------------
(* Why NoDuplicate holds, when no message is stored after its POST failed: *)
(* an inductive invariant.                                                 *)

\* Its parts take the outbox, the entries, the attempt numbers, the queue, the
\* POSTs and the forced messages, so that they can be said of a handler's
\* intermediate results as well as of a state.

\* The server may still store the message of this POST.
Live(p, seq) == ~p.saved /\ p.seq = seq[p.msg]

Shape(ob, en, seq, queue, ps) ==
    /\ ob \subseteq Msgs
    /\ en \in [Msgs -> Entry]
    /\ \A m \in Msgs \ ob : en[m] = Blank
    /\ \A m \in ob : en[m].token \in Rooms
    /\ seq \in [Msgs -> Nat]
    /\ queue \in [Rooms -> SUBSET ob]
    /\ ps \subseteq Post
    /\ \A p \in ps : p.seq <= seq[p.msg]

\* A message that waits has no live POST; one that was never POSTed has none at all.
PostsInv(ob, en, seq, ps) ==
    /\ \A p \in ps : ~p.answered
    /\ \A p, q \in ps : p.msg = q.msg /\ p.seq = q.seq => p = q
    /\ \A p \in ps : p.msg \in ob =>
          /\ p.token = en[p.msg].token
          /\ en[p.msg].everPosted
          /\ Live(p, seq) => en[p.msg].inFlight

\* Copies have ids the room has given out, later than what the sender knew of it.
CopiesInv(ob, en) ==
    \A m \in ob : /\ copies[m] # {} => en[m].everPosted
                  /\ en[m].knownNewestId <= newest[en[m].token]
                  /\ \A i \in copies[m] : /\ i <= newest[en[m].token]
                                          /\ i > en[m].knownNewestId

\* What is about to be POSTed, or is POSTed and may be stored, is not stored yet.
AbsentInv(en, seq, queue, ps, free) ==
    /\ \A p \in ps : Live(p, seq) /\ p.msg \notin free => copies[p.msg] = {}
    /\ \A r \in Rooms : \A m \in queue[r] :
          /\ en[m].token = r /\ ~en[m].inFlight
          /\ m \notin free => copies[m] = {}

\* A page that will be judged holds all there is of the messages judged by it.
PageInv(ob, en, pg) ==
    \A m \in ob : en[m].quiet /\ Waiting(en[m]) /\ pg[en[m].token] # Unserved
                    => \A i \in copies[m] : i <= pg[en[m].token]

\* Nothing is known of messages that are not written yet.
UnsentInv ==
    /\ \A m \in Msgs : m > sent => m \notin outbox /\ copies[m] = {}
    /\ \A p \in posts : p.msg <= sent

OutboxInv ==
    /\ Shape(outbox, entry, attemptSeq, sendQueue, posts)
    /\ PostsInv(outbox, entry, attemptSeq, posts)
    /\ CopiesInv(outbox, entry)
    /\ AbsentInv(entry, attemptSeq, sendQueue, posts, forced)
    /\ PageInv(outbox, entry, page)
    /\ \A r \in Rooms \ probing : page[r] = Unserved
    /\ UnsentInv
    /\ NoDuplicate

-----------------------------------------------------------------------------
(* Ordering and timing.                                                    *)

\* A POST of m goes out in this step.
Posts(m) == attemptSeq'[m] # attemptSeq[m] /\ entry'[m].inFlight

\* m is cleared to POST, and o, an older message of its room that waits, is not.
Ahead(m, o) ==
    /\ o < m /\ {m, o} \subseteq outbox /\ entry[o].token = entry[m].token
    /\ Waiting(entry[o]) /\ ~entry[o].manual
    /\ \E r \in Rooms : m \in sendQueue[r] /\ o \notin sendQueue[r]

\* A POST of m goes out past o.
Passes(m, o) ==
    /\ o < m /\ entry'[o].token = entry'[m].token
    /\ Waiting(entry'[o]) /\ ~entry'[o].manual /\ Posts(m)

\* "strictly oldest-first per room, so a retry never overtakes an older message
\* that is still waiting" (MessageListModel.h:349-350), as far as the code keeps it:
\* a message comes before an older waiting one of its room only as a probe of the room
\* is judged that skips the older one, because something has happened to it meanwhile;
\* one the user has just retried does not count.
PassesOnlyTheSkipped ==
    [][\A m, o \in outbox' :
          Ahead(m, o)' \/ Passes(m, o) =>
              Ahead(m, o) \/ (entry[o].token \in probing \ probing' /\ ~entry[o].quiet)]_vars

-----------------------------------------------------------------------------
(* Liveness.  ApiClient gives every request a transfer timeout of 30 s, so *)
(* a POST is answered; deadlines pass and the 2 s timer runs while there   *)
(* is an active entry; the server can be reached again and again, so one   *)
(* of ever more probes is answered.                                        *)

Fairness ==
    /\ \A m \in Msgs : /\ WF_vars(\E p \in posts : p.msg = m /\ Reply(p))
                       /\ WF_vars(DeadlinePasses(m))
    /\ WF_vars(OutboxTick)
    /\ \A r \in Rooms : SF_vars(ProbeServed(r)) /\ SF_vars(ProbeAnswered(r))

FairSpec == Spec /\ Fairness

\* No message is left "sending" for ever: it is confirmed, or dropped, or given up
\* so that the user is asked, whatever is queued around it.
EventuallyDecided ==
    \A m \in Msgs : (m \in outbox /\ ~entry[m].permanent)
                       ~> (m \notin outbox \/ entry[m].permanent)

-----------------------------------------------------------------------------
(* The outbox implements the mailbox.                                      *)

Box == INSTANCE Mailbox WITH
    Messages <- Msgs,
    written <- sent,
    held <- outbox,
    failed <- {m \in outbox : entry[m].permanent},
    stored <- [m \in Msgs |-> Cardinality(copies[m])]

\* Every step of the outbox is a step of the mailbox, or invisible to its user.
ImplementsMailbox == Box!MailboxSpec

=============================================================================
