-------------------------- MODULE SendOutboxProofs --------------------------
(***************************************************************************)
(* Two families of theorems about SendOutbox.  The first assumes that the  *)
(* server stores nothing once a POST has failed, and proves what the       *)
(* recovery of the outbox relies on.  The second does not: nothing is      *)
(* lost, no budget is overrun and nothing is sent under another account    *)
(* whatever the server does; it ends with the refinement of Mailbox.       *)
(***************************************************************************)
EXTENDS SendOutbox, FiniteSetTheorems, TLAPS

-----------------------------------------------------------------------------
(* What the handlers do to one entry.                                      *)

\* f is a later state of the entry e: not newly in flight, and not judged where
\* e was not.  It stays in flight, unless its attempt ended.
Follows(e, f) ==
    /\ f \in Entry
    /\ f.token = e.token /\ f.knownNewestId = e.knownNewestId
    /\ f.everPosted = e.everPosted /\ (f.inFlight => e.inFlight)
    /\ f.quiet /\ Waiting(f) => e.quiet /\ Waiting(e)

Stays(e, f) == Follows(e, f) /\ (e.inFlight => f.inFlight)

LEMMA BlankEntry == Blank \in Entry /\ ~Blank.inFlight /\ ~Blank.quiet /\ Blank.token = NoRoom
  BY DEF Blank, Entry

LEMMA SlowedFollows == \A e \in Entry : Stays(e, Slowed(e))
  BY DEF Stays, Slowed, Follows, Entry, Waiting

LEMMA WaitsFollows == \A e \in Entry, w \in {"due", "short", "settle"} : Stays(e, Waits(e, w))
  BY DEF Stays, Waits, Follows, Entry, Waiting

LEMMA RetriedFollows == \A e \in Entry : Stays(e, Retried(e))
  BY DEF Stays, Retried, Follows, Entry, Waiting

LEMMA GivenUpFollows == \A e \in Entry : Stays(e, GivenUp(e))
  BY DEF Stays, GivenUp, Follows, Entry, Waiting

LEMMA UnquietFollows == \A e \in Entry : Stays(e, Quiet(e, FALSE)) /\ ~Quiet(e, FALSE).quiet
  BY DEF Stays, Quiet, Follows, Entry, Waiting

LEMMA QuietEntry ==
  \A e \in Entry : LET f == Quiet(e, TRUE) IN
    /\ f \in Entry /\ f.token = e.token /\ f.knownNewestId = e.knownNewestId
    /\ f.everPosted = e.everPosted /\ f.inFlight = e.inFlight /\ f.permanent = e.permanent
  BY DEF Quiet, Entry

LEMMA PostedEntry ==
  \A e \in Entry : LET f == Posted(e) IN
    /\ f \in Entry /\ f.token = e.token /\ f.knownNewestId = e.knownNewestId
    /\ f.everPosted /\ f.inFlight /\ ~f.quiet /\ f.owner = e.owner
<1> TAKE e \in Entry
<1>1. e.postAttempts + 1 \in Nat
  BY DEF Entry
<1> DEFINE n == e.postAttempts + 1
<1> HIDE DEF n
<1>2. Posted(e) = [e EXCEPT !.postAttempts = n, !.everPosted = TRUE, !.manual = FALSE,
                            !.inFlight = TRUE, !.slow = FALSE, !.quiet = FALSE]
  BY DEF Posted, n
<1> QED BY <1>1, <1>2 DEF Entry, n

LEMMA PostFailedEntry ==
  \A e \in Entry, status \in Failures, hung \in BOOLEAN :
    LET f == PostFailed(e, status, hung) IN
    /\ f \in Entry /\ f.token = e.token /\ f.knownNewestId = e.knownNewestId
    /\ f.everPosted = e.everPosted /\ ~f.inFlight /\ ~f.quiet /\ f.owner = e.owner
<1> TAKE e \in Entry, status \in Failures, hung \in BOOLEAN
<1>1. givesUp(status, e.postAttempts) \in BOOLEAN
  BY DEF givesUp
<1>2. (IF givesUp(status, e.postAttempts) THEN e.wait
       ELSE IF hung THEN "settle" ELSE "short") \in {"due", "short", "settle"}
  BY DEF Entry
<1> QED BY <1>1, <1>2 DEF PostFailed, Entry

LEMMA ComposedEntry ==
  ASSUME token \in Rooms, account \in Accounts, NEW known \in Nat
  PROVE  LET f == Composed(known) IN
    /\ f \in Entry /\ f.token = token /\ f.knownNewestId = known
    /\ f.everPosted = FALSE /\ ~f.inFlight /\ ~f.quiet /\ Waiting(f)
  BY DEF Composed, Blank, Entry, Waiting

-----------------------------------------------------------------------------
(* A POST going out, from any intermediate result of a handler.            *)

ClientInv(ob, en, seq, queue, ps, free) ==
    /\ Shape(ob, en, seq, queue, ps)
    /\ PostsInv(ob, en, seq, ps)
    /\ CopiesInv(ob, en)
    /\ AbsentInv(en, seq, queue, ps, free)

LEMMA StartKeepsShape ==
  ASSUME NEW ob, NEW en, NEW ps, NEW queue, NEW m \in ob,
         Shape(ob, en, attemptSeq, queue, ps), account \in Accounts \cup {Nobody},
         StartAttempt(m, en, ps)
  PROVE  /\ Shape(ob, entry', attemptSeq', queue, posts')
         /\ \A k \in Msgs : k # m => entry'[k] = en[k] /\ attemptSeq'[k] = attemptSeq[k]
         /\ entry'[m] = Posted(en[m]) /\ attemptSeq'[m] = attemptSeq[m] + 1
<1>1. m \in Msgs /\ en[m] \in Entry /\ en[m].token \in Rooms /\ attemptSeq[m] \in Nat
  BY DEF Shape
<1>2. Posted(en[m]) \in Entry /\ Posted(en[m]).token = en[m].token
  BY <1>1, PostedEntry
<1>3. /\ entry' \in [Msgs -> Entry]
      /\ \A k \in Msgs : k # m => entry'[k] = en[k] /\ attemptSeq'[k] = attemptSeq[k]
      /\ entry'[m] = Posted(en[m]) /\ attemptSeq'[m] = attemptSeq[m] + 1
      /\ attemptSeq' \in [Msgs -> Nat]
  BY <1>1, <1>2 DEF StartAttempt, Shape
<1>4. posts' \subseteq Post
  <2>1. [msg |-> m, seq |-> attemptSeq[m] + 1, token |-> en[m].token,
       by |-> account, saved |-> FALSE, answered |-> FALSE] \in Post
    BY <1>1 DEF Post
  <2> QED BY <2>1 DEF StartAttempt, Shape
<1>5. \A p \in posts' : p.seq <= attemptSeq'[p.msg]
  BY <1>1, <1>3 DEF StartAttempt, Shape, Post
<1> QED BY <1>1, <1>2, <1>3, <1>4, <1>5 DEF Shape

LEMMA StartKeepsInv ==
  ASSUME NEW ob, NEW en, NEW ps, NEW queue, NEW free, NEW m \in ob,
         ClientInv(ob, en, attemptSeq, queue, ps, free), account \in Accounts \cup {Nobody},
         \A r \in Rooms : m \notin queue[r],
         m \notin free => copies[m] = {},
         StartAttempt(m, en, ps)
  PROVE  ClientInv(ob, entry', attemptSeq', queue, posts', free)
<1> DEFINE new == [msg |-> m, seq |-> attemptSeq[m] + 1, token |-> en[m].token,
                   by |-> account, saved |-> FALSE, answered |-> FALSE]
<1>1. /\ Shape(ob, entry', attemptSeq', queue, posts')
      /\ \A k \in Msgs : k # m => entry'[k] = en[k] /\ attemptSeq'[k] = attemptSeq[k]
      /\ entry'[m] = Posted(en[m]) /\ attemptSeq'[m] = attemptSeq[m] + 1
  BY StartKeepsShape DEF ClientInv
<1>2. m \in Msgs /\ en[m] \in Entry /\ ps \subseteq Post /\ attemptSeq \in [Msgs -> Nat]
      /\ ob \subseteq Msgs
  BY DEF ClientInv, Shape
<1>3. /\ entry'[m].token = en[m].token /\ entry'[m].knownNewestId = en[m].knownNewestId
      /\ entry'[m].everPosted /\ entry'[m].inFlight
  BY <1>1, <1>2, PostedEntry
<1>4. posts' = ps \cup {new}
  BY DEF StartAttempt
<1>5. \A p \in ps : p.seq <= attemptSeq[p.msg] /\ p.seq \in Nat /\ p.msg \in Msgs
  BY <1>2 DEF ClientInv, Shape, Post
<1>6. \A p \in ps : Live(p, attemptSeq') => p.msg # m /\ Live(p, attemptSeq)
  BY <1>1, <1>2, <1>5 DEF Live
<1>7. PostsInv(ob, entry', attemptSeq', posts')
  <2>1. PostsInv(ob, en, attemptSeq, ps)
    BY DEF ClientInv
  <2>2. \A p \in ps : p.msg = m => p.seq # new.seq
    BY <1>2, <1>5
  <2>3. ASSUME NEW p \in posts', NEW q \in posts', p.msg = q.msg, p.seq = q.seq
        PROVE  p = q
    <3>1. new.msg = m
      OBVIOUS
    <3>2. CASE p \in ps /\ q \in ps
      BY <3>2, <2>1, <2>3 DEF PostsInv
    <3>3. CASE p = new \/ q = new
      BY <3>1, <3>3, <2>2, <2>3, <1>4
    <3> QED BY <3>2, <3>3, <1>4
  <2>4. ASSUME NEW p \in posts', p.msg \in ob
        PROVE  /\ p.token = entry'[p.msg].token /\ entry'[p.msg].everPosted
               /\ Live(p, attemptSeq') => entry'[p.msg].inFlight
    <3>1. CASE p = new
      BY <3>1, <1>3
    <3>2. CASE p \in ps /\ p.msg = m
      BY <3>2, <2>1, <1>3, <1>5, <2>4 DEF PostsInv
    <3>3. CASE p \in ps /\ p.msg # m
      BY <3>3, <2>1, <1>1, <1>5, <1>6, <2>4 DEF PostsInv
    <3> QED BY <3>1, <3>2, <3>3, <1>4
  <2> QED BY <2>1, <2>3, <2>4, <1>4 DEF PostsInv
<1>8. CopiesInv(ob, entry')
  BY <1>1, <1>2, <1>3 DEF CopiesInv, ClientInv
<1>9. AbsentInv(entry', attemptSeq', queue, posts', free)
  <2>1. \A r \in Rooms : queue[r] \subseteq Msgs \ {m}
    BY <1>2 DEF ClientInv, Shape
  <2>2. AbsentInv(en, attemptSeq, queue, ps, free)
    BY DEF ClientInv
  <2>3. ASSUME NEW p \in posts', Live(p, attemptSeq'), p.msg \notin free
        PROVE  copies[p.msg] = {}
    BY <2>2, <2>3, <1>4, <1>6 DEF AbsentInv
  <2>4. ASSUME NEW r \in Rooms, NEW k \in queue[r]
        PROVE  /\ entry'[k].token = r /\ ~entry'[k].inFlight
               /\ k \notin free => copies[k] = {}
    BY <2>1, <2>2, <1>1 DEF AbsentInv
  <2> QED BY <2>3, <2>4 DEF AbsentInv
<1> QED BY <1>1, <1>7, <1>8, <1>9 DEF ClientInv

LEMMA SendNextKeepsInv ==
  ASSUME NEW r \in Rooms, NEW queue, NEW ob, NEW en, NEW ps, NEW free,
         sendQueue \in [Rooms -> SUBSET Msgs],
         ClientInv(ob, en, attemptSeq, [sendQueue EXCEPT ![r] = queue], ps, free),
         account \in Accounts \cup {Nobody},
         SendNextQueued(r, queue, ob, en, ps)
  PROVE  /\ ClientInv(ob, entry', attemptSeq', sendQueue', posts', free)
         /\ \A pg : PageInv(ob, en, pg) => PageInv(ob, entry', pg)
         /\ \A p \in posts' : p \in ps \/ p.msg \in ob
<1> DEFINE before == [sendQueue EXCEPT ![r] = queue]
<1>0. queue \subseteq ob /\ ob \subseteq Msgs
  BY DEF ClientInv, Shape
<1>1. CASE sendQueue' = [sendQueue EXCEPT ![r] = {}] /\ entry' = en /\ posts' = ps
           /\ attemptSeq' = attemptSeq
  <2>1. \A x \in Rooms : sendQueue'[x] \subseteq before[x]
    BY <1>1
  <2>2. Shape(ob, en, attemptSeq, sendQueue', ps)
    BY <1>1, <2>1 DEF ClientInv, Shape
  <2>3. AbsentInv(en, attemptSeq, sendQueue', ps, free)
    BY <2>1 DEF ClientInv, AbsentInv
  <2> QED BY <1>1, <2>2, <2>3 DEF ClientInv
<1>2. ASSUME NEW m \in queue, Sendable(m, ob, en),
             sendQueue' = [sendQueue EXCEPT ![r] = {k \in queue : k > m}],
             StartAttempt(m, en, ps)
      PROVE  /\ ClientInv(ob, entry', attemptSeq', sendQueue', posts', free)
             /\ \A pg : PageInv(ob, en, pg) => PageInv(ob, entry', pg)
             /\ \A p \in posts' : p \in ps \/ p.msg \in ob
  <2>1. m \in ob /\ m \in Msgs /\ m \in Int
    BY <1>0 DEF Msgs
  <2>2. \A x \in Rooms : sendQueue'[x] \subseteq before[x] /\ m \notin sendQueue'[x]
    <3>1. \A x \in Rooms \ {r} : m \notin sendQueue[x]
      BY <1>0, <2>1 DEF ClientInv, AbsentInv
    <3> QED BY <1>2, <2>1, <3>1
  <2>3. Shape(ob, en, attemptSeq, sendQueue', ps)
    BY <1>2, <2>2 DEF ClientInv, Shape
  <2>4. AbsentInv(en, attemptSeq, sendQueue', ps, free)
    BY <2>2 DEF ClientInv, AbsentInv
  <2>5. ClientInv(ob, en, attemptSeq, sendQueue', ps, free)
    BY <2>3, <2>4 DEF ClientInv
  <2>6. m \notin free => copies[m] = {}
    BY <1>0 DEF ClientInv, AbsentInv
  <2>7. ClientInv(ob, entry', attemptSeq', sendQueue', posts', free)
    BY <1>2, <2>1, <2>2, <2>5, <2>6, StartKeepsInv
  <2>8. /\ \A k \in Msgs : k # m => entry'[k] = en[k]
        /\ entry'[m] = Posted(en[m])
    BY <1>2, <2>1, <2>3, StartKeepsShape
  <2>9. ASSUME NEW pg, PageInv(ob, en, pg) PROVE PageInv(ob, entry', pg)
    <3>1. en \in [Msgs -> Entry]
      BY <2>3 DEF Shape
    <3> QED BY <2>1, <2>8, <2>9, <3>1, <1>0, PostedEntry DEF PageInv
  <2>10. \A p \in posts' : p \in ps \/ p.msg \in ob
    BY <1>2, <2>1 DEF StartAttempt
  <2> QED BY <2>7, <2>9, <2>10
<1> QED BY <1>1, <1>2 DEF SendNextQueued

-----------------------------------------------------------------------------
(* A handler that starts no POST.                                          *)

Moved(ob, en, seq, queue, ps, free, ob2, en2, seq2, queue2, ps2, free2) ==
    /\ ob2 \subseteq ob /\ ps2 \subseteq ps /\ free \subseteq free2
    /\ en2 \in [Msgs -> Entry]
    /\ \A k \in Msgs \ ob2 : en2[k] = Blank
    /\ \A k \in ob2 : Follows(en[k], en2[k])
    /\ seq2 \in [Msgs -> Nat]
    /\ \A k \in Msgs : seq[k] <= seq2[k]
    /\ queue2 \in [Rooms -> SUBSET ob2]
    /\ \A r \in Rooms : queue2[r] \subseteq queue[r]
    /\ \A p \in ps2 : p.msg \in ob2 /\ Live(p, seq2) /\ en[p.msg].inFlight
                          => en2[p.msg].inFlight

LEMMA FollowKeepsInv ==
  ASSUME NEW ob, NEW en, NEW seq, NEW queue, NEW ps, NEW free,
         NEW ob2, NEW en2, NEW seq2, NEW queue2, NEW ps2, NEW free2,
         ClientInv(ob, en, seq, queue, ps, free),
         Moved(ob, en, seq, queue, ps, free, ob2, en2, seq2, queue2, ps2, free2)
  PROVE  /\ ClientInv(ob2, en2, seq2, queue2, ps2, free2)
         /\ \A pg : PageInv(ob, en, pg) => PageInv(ob2, en2, pg)
<1> USE DEF Moved
<1>1. /\ ob \subseteq Msgs /\ ps \subseteq Post /\ seq \in [Msgs -> Nat]
      /\ \A p \in ps : p.msg \in Msgs /\ p.seq \in Nat /\ p.seq <= seq[p.msg]
  BY DEF ClientInv, Shape, Post
<1>2. \A p \in ps2 : Live(p, seq2) => Live(p, seq)
  BY <1>1 DEF Live
<1>3. \A k \in ob2 : /\ en2[k].token = en[k].token /\ en2[k].everPosted = en[k].everPosted
                     /\ en2[k].knownNewestId = en[k].knownNewestId
                     /\ (en2[k].inFlight => en[k].inFlight)
                     /\ (en2[k].quiet /\ Waiting(en2[k]) => en[k].quiet /\ Waiting(en[k]))
  BY DEF Follows
<1>4. Shape(ob2, en2, seq2, queue2, ps2)
  <2>1. ASSUME NEW p \in ps2 PROVE p.seq <= seq2[p.msg]
    <3>1. p.seq \in Nat /\ seq[p.msg] \in Nat /\ seq2[p.msg] \in Nat
      BY <1>1
    <3>2. p.seq <= seq[p.msg] /\ seq[p.msg] <= seq2[p.msg]
      BY <1>1
    <3> QED BY <3>1, <3>2
  <2>2. \A k \in ob2 : en2[k].token \in Rooms
    BY <1>3 DEF ClientInv, Shape
  <2> QED BY <1>1, <2>1, <2>2 DEF Shape
<1>5. PostsInv(ob2, en2, seq2, ps2)
  BY <1>1, <1>2, <1>3 DEF ClientInv, PostsInv
<1>6. CopiesInv(ob2, en2)
  BY <1>3 DEF ClientInv, CopiesInv
<1>7. AbsentInv(en2, seq2, queue2, ps2, free2)
  <2>1. AbsentInv(en, seq, queue, ps, free)
    BY DEF ClientInv
  <2>2. \A p \in ps2 : Live(p, seq2) /\ p.msg \notin free2 => copies[p.msg] = {}
    BY <1>2, <2>1 DEF AbsentInv
  <2>3. ASSUME NEW r \in Rooms, NEW k \in queue2[r]
        PROVE  /\ en2[k].token = r /\ ~en2[k].inFlight
               /\ k \notin free2 => copies[k] = {}
    BY <1>3, <2>1 DEF AbsentInv
  <2> QED BY <2>2, <2>3 DEF AbsentInv
<1>8. ASSUME NEW pg, PageInv(ob, en, pg) PROVE PageInv(ob2, en2, pg)
  BY <1>3, <1>8 DEF PageInv
<1> QED BY <1>4, <1>5, <1>6, <1>7, <1>8 DEF ClientInv

-----------------------------------------------------------------------------
(* The actions.                                                            *)

IInv == TypeOK /\ OutboxInv

LEMMA IInvParts ==
  IInv <=> /\ TypeOK
           /\ ClientInv(outbox, entry, attemptSeq, sendQueue, posts, forced)
           /\ PageInv(outbox, entry, page)
           /\ \A r \in Rooms \ probing : page[r] = Unserved
           /\ UnsentInv
           /\ NoDuplicate
  BY DEF IInv, OutboxInv, ClientInv

LEMMA InitIInv == OutboxAssumption /\ Init => IInv
<1> SUFFICES ASSUME OutboxAssumption, Init PROVE IInv
  OBVIOUS
<1>1. /\ entry = [m \in Msgs |-> Blank] /\ outbox = {} /\ posts = {} /\ sent = 0
      /\ copies = [m \in Msgs |-> {}] /\ sendQueue = [r \in Rooms |-> {}]
      /\ attemptSeq = [m \in Msgs |-> 0] /\ page = [r \in Rooms |-> Unserved]
  BY DEF Init
<1>2. TypeOK
  BY <1>1, BlankEntry DEF Init, TypeOK, OutboxAssumption
<1>3. Shape(outbox, entry, attemptSeq, sendQueue, posts)
  BY <1>1, BlankEntry DEF Shape
<1>4. ClientInv(outbox, entry, attemptSeq, sendQueue, posts, forced)
  BY <1>1, <1>3 DEF ClientInv, PostsInv, CopiesInv, AbsentInv
<1>5. PageInv(outbox, entry, page) /\ (\A r \in Rooms \ probing : page[r] = Unserved)
      /\ UnsentInv /\ NoDuplicate
  BY <1>1 DEF PageInv, UnsentInv, NoDuplicate
<1> QED BY <1>2, <1>4, <1>5, IInvParts

\* A handler that only moves entries on.
LEMMA EntriesMove ==
  ASSUME IInv, entry' \in [Msgs -> Entry],
         \A k \in outbox : Stays(entry[k], entry'[k]),
         \A k \in Msgs \ outbox : entry'[k] = Blank,
         UNCHANGED <<sent, outbox, attemptSeq, sendQueue, probing, page, posts, newest,
                     copies, forced>>,
         token' \in Rooms \cup {NoRoom}, account' \in Accounts \cup {Nobody},
         retries' \in 0..MaxRetries, dropped' \subseteq Msgs
  PROVE  IInv'
<1>1. TypeOK'
  BY DEF IInv, TypeOK
<1>2. /\ ClientInv(outbox, entry', attemptSeq, sendQueue, posts, forced)
      /\ PageInv(outbox, entry', page)
  <2>1. /\ ClientInv(outbox, entry, attemptSeq, sendQueue, posts, forced)
        /\ PageInv(outbox, entry, page)
    BY IInvParts
  <2>2. /\ attemptSeq \in [Msgs -> Nat] /\ sendQueue \in [Rooms -> SUBSET outbox]
        /\ \A k \in Msgs : attemptSeq[k] <= attemptSeq[k]
    BY DEF IInv, TypeOK
  <2>3. Moved(outbox, entry, attemptSeq, sendQueue, posts, forced,
              outbox, entry', attemptSeq, sendQueue, posts, forced)
    BY <2>2 DEF Moved, Stays
  <2> QED BY <2>1, <2>3, FollowKeepsInv
<1>3. (\A r \in Rooms \ probing : page[r] = Unserved)' /\ UnsentInv' /\ NoDuplicate'
  BY DEF IInv, OutboxInv, UnsentInv, NoDuplicate
<1>4. /\ ClientInv(outbox, entry, attemptSeq, sendQueue, posts, forced)'
      /\ PageInv(outbox, entry, page)'
  BY <1>2 DEF ClientInv, Shape, PostsInv, CopiesInv, AbsentInv, PageInv, Live
<1> QED BY <1>1, <1>3, <1>4 DEF IInv, OutboxInv, ClientInv

LEMMA IdleEntries ==
  ASSUME IInv
  PROVE  /\ entry \in [Msgs -> Entry] /\ outbox \subseteq Msgs
         /\ \A k \in Msgs : Stays(entry[k], entry[k])
         /\ \A k \in Msgs \ outbox : entry[k] = Blank
         /\ token \in Rooms \cup {NoRoom} /\ account \in Accounts \cup {Nobody}
         /\ retries \in 0..MaxRetries /\ dropped \subseteq Msgs
  BY DEF IInv, TypeOK, OutboxInv, Shape, Stays, Follows

LEMMA AttemptSlowInv == ASSUME IInv, NEW m \in Msgs, AttemptSlow(m) PROVE IInv'
<1>1. /\ entry' \in [Msgs -> Entry] /\ \A k \in outbox : Stays(entry[k], entry'[k])
      /\ \A k \in Msgs \ outbox : entry'[k] = Blank
  BY IdleEntries, SlowedFollows DEF AttemptSlow, Stays, Follows
<1> QED BY <1>1, IdleEntries, EntriesMove DEF AttemptSlow

LEMMA DeadlinePassesInv == ASSUME IInv, NEW m \in Msgs, DeadlinePasses(m) PROVE IInv'
<1>1. /\ entry' \in [Msgs -> Entry] /\ \A k \in outbox : Stays(entry[k], entry'[k])
      /\ \A k \in Msgs \ outbox : entry'[k] = Blank
  BY IdleEntries, WaitsFollows DEF DeadlinePasses, Stays, Follows
<1> QED BY <1>1, IdleEntries, EntriesMove DEF DeadlinePasses

LEMMA KickedMoves ==
  ASSUME IInv
  PROVE  /\ Kicked(entry) \in [Msgs -> Entry]
         /\ \A k \in outbox : Stays(entry[k], Kicked(entry)[k])
         /\ \A k \in Msgs \ outbox : Kicked(entry)[k] = Blank
<1>1. \A k \in Msgs : Waits(entry[k], "short") \in Entry
                      /\ Stays(entry[k], Waits(entry[k], "short"))
  BY IdleEntries, WaitsFollows DEF Stays, Follows
<1>2. Blank.wait = "due"
  BY DEF Blank
<1> QED BY <1>1, <1>2, IdleEntries DEF Kicked

LEMMA KickOutboxInv == ASSUME IInv, KickOutbox PROVE IInv'
  BY KickedMoves, IdleEntries, EntriesMove DEF KickOutbox

LEMMA OpenRoomInv == ASSUME IInv, NEW r \in Rooms \cup {NoRoom}, OpenRoom(r) PROVE IInv'
  BY KickedMoves, IdleEntries, EntriesMove DEF OpenRoom

LEMMA LoginInv == ASSUME IInv, NEW a \in Accounts, Login(a) PROVE IInv'
  BY IdleEntries, EntriesMove DEF Login

LEMMA RetryMessageInv ==
  ASSUME OutboxAssumption, IInv, NEW m \in Msgs, RetryMessage(m) PROVE IInv'
<1>1. \A k \in Msgs : /\ Stays(entry[k], Waits(entry[k], "due")) /\ Waits(entry[k], "due") \in Entry
                      /\ Stays(entry[k], Retried(entry[k])) /\ Retried(entry[k]) \in Entry
  BY IdleEntries, WaitsFollows, RetriedFollows DEF Stays, Follows
<1>2. /\ entry' \in [Msgs -> Entry] /\ \A k \in outbox : Stays(entry[k], entry'[k])
      /\ \A k \in Msgs \ outbox : entry'[k] = Blank
  BY <1>1, IdleEntries DEF RetryMessage
<1>3. retries' \in 0..MaxRetries
  BY IdleEntries DEF RetryMessage, OutboxAssumption
<1> QED BY <1>2, <1>3, IdleEntries, EntriesMove DEF RetryMessage

\* A handler that leaves the server alone and writes no message.
ClientTypes ==
    /\ probing \subseteq Rooms /\ page \in [Rooms -> Nat \cup {Unserved}]
    /\ token \in Rooms \cup {NoRoom} /\ account \in Accounts \cup {Nobody}
    /\ retries \in 0..MaxRetries /\ forced \subseteq Msgs /\ dropped \subseteq Msgs

LEMMA ClientStep ==
  ASSUME IInv, UNCHANGED <<sent, newest, copies>>, ClientTypes',
         ClientInv(outbox', entry', attemptSeq', sendQueue', posts', forced'),
         PageInv(outbox', entry', page'),
         \A r \in Rooms \ probing' : page'[r] = Unserved,
         outbox' \subseteq outbox, forced \subseteq forced',
         \A p \in posts' : p.msg <= sent
  PROVE  IInv'
<1>1. Shape(outbox', entry', attemptSeq', sendQueue', posts')
  BY DEF ClientInv
<1>2. TypeOK'
  BY <1>1 DEF IInv, TypeOK, ClientTypes, Shape
<1>3. ClientInv(outbox, entry, attemptSeq, sendQueue, posts, forced)'
  BY DEF ClientInv, Shape, PostsInv, CopiesInv, AbsentInv, Live
<1>4. PageInv(outbox, entry, page)' /\ (\A r \in Rooms \ probing : page[r] = Unserved)'
  BY DEF PageInv
<1>5. UnsentInv' /\ NoDuplicate'
  BY DEF IInv, OutboxInv, UnsentInv, NoDuplicate
<1> QED BY <1>2, <1>3, <1>4, <1>5, IInvParts DEF IInv, OutboxInv, ClientInv

\* What every action may start from.
LEMMA Before ==
  ASSUME IInv
  PROVE  /\ ClientInv(outbox, entry, attemptSeq, sendQueue, posts, forced)
         /\ PageInv(outbox, entry, page) /\ ClientTypes
         /\ \A r \in Rooms \ probing : page[r] = Unserved
         /\ outbox \subseteq Msgs /\ \A k \in outbox : k <= sent
         /\ entry \in [Msgs -> Entry] /\ attemptSeq \in [Msgs -> Nat]
         /\ sendQueue \in [Rooms -> SUBSET outbox] /\ posts \subseteq Post
         /\ \A k \in Msgs \ outbox : entry[k] = Blank
         /\ \A p \in posts : p.msg \in Msgs /\ p.token \in Rooms /\ p.msg <= sent /\ ~p.answered
<1>1. \A k \in outbox : k <= sent
  BY DEF IInv, TypeOK
<1> QED BY <1>1
       DEF IInv, OutboxInv, ClientInv, TypeOK, ClientTypes, Shape, PostsInv, UnsentInv, Post

LEMMA Unmoved ==
  ASSUME IInv
  PROVE  \A k \in Msgs : Follows(entry[k], entry[k]) /\ attemptSeq[k] <= attemptSeq[k]
  BY Before DEF Follows

LEMMA DropMoved ==
  ASSUME IInv, NEW m \in outbox, NEW ps, ps \subseteq posts
  PROVE  LET queue == [r \in Rooms |-> sendQueue[r] \ {m}]
         IN /\ ClientInv(outbox \ {m}, Without(m), attemptSeq, queue, ps, forced)
            /\ PageInv(outbox \ {m}, Without(m), page)
<1> DEFINE queue == [r \in Rooms |-> sendQueue[r] \ {m}]
<1>1. /\ Without(m) \in [Msgs -> Entry]
      /\ \A k \in Msgs \ (outbox \ {m}) : Without(m)[k] = Blank
      /\ \A k \in outbox \ {m} : Without(m)[k] = entry[k]
  BY Before, BlankEntry DEF Without
<1>2. Moved(outbox, entry, attemptSeq, sendQueue, posts, forced,
            outbox \ {m}, Without(m), attemptSeq, queue, ps, forced)
  BY <1>1, Before, Unmoved DEF Moved
<1> QED BY <1>2, Before, FollowKeepsInv

LEMMA DiscardFailedInv == ASSUME IInv, NEW m \in Msgs, DiscardFailed(m) PROVE IInv'
<1>1. /\ m \in outbox /\ outbox' = outbox \ {m} /\ entry' = Without(m)
      /\ sendQueue' = [r \in Rooms |-> sendQueue[r] \ {m}]
  BY DEF DiscardFailed, Drop
<1>2. /\ ClientInv(outbox', entry', attemptSeq, sendQueue', posts, forced)
      /\ PageInv(outbox', entry', page)
  BY <1>1, DropMoved
<1>3. ClientTypes'
  BY Before DEF DiscardFailed, ClientTypes
<1> QED BY <1>1, <1>2, <1>3, Before, ClientStep DEF DiscardFailed

LEMMA EchoInv == ASSUME IInv, NEW m \in Msgs, Echo(m) PROVE IInv'
<1>1. /\ m \in outbox /\ outbox' = outbox \ {m} /\ entry' = Without(m)
      /\ sendQueue' = [r \in Rooms |-> sendQueue[r] \ {m}]
  BY DEF Echo, Drop
<1>2. /\ ClientInv(outbox', entry', attemptSeq, sendQueue', posts, forced)
      /\ PageInv(outbox', entry', page)
  BY <1>1, DropMoved
<1>3. ClientTypes'
  BY Before DEF Echo, ClientTypes
<1> QED BY <1>1, <1>2, <1>3, Before, ClientStep DEF Echo

LEMMA LogoutInv == ASSUME IInv, Logout PROVE IInv'
<1>1. Moved(outbox, entry, attemptSeq, sendQueue, posts, forced,
            outbox', entry', attemptSeq, sendQueue', posts, forced)
  BY Before, Unmoved, BlankEntry DEF Moved, Logout
<1>2. /\ ClientInv(outbox', entry', attemptSeq, sendQueue', posts, forced)
      /\ PageInv(outbox', entry', page)
  BY <1>1, Before, FollowKeepsInv
<1>3. ClientTypes'
  BY Before DEF Logout, ClientTypes
<1> QED BY <1>2, <1>3, Before, ClientStep DEF Logout

-----------------------------------------------------------------------------
(* The reply of a POST.                                                    *)

LEMMA NoLeftover == ASSUME ~LateSave, NEW p, NEW hung PROVE Leftover(p, hung) = {}
  BY DEF Leftover

LEMMA ReplyStaleInv ==
  ASSUME IInv, ~LateSave, NEW p \in posts, NEW hung \in BOOLEAN, ReplyStale(p, hung)
  PROVE  IInv'
<1>1. posts' \subseteq posts
  BY NoLeftover DEF ReplyStale
<1>2. Moved(outbox, entry, attemptSeq, sendQueue, posts, forced,
            outbox, entry, attemptSeq, sendQueue, posts', forced)
  BY <1>1, Before, Unmoved DEF Moved
<1>3. /\ ClientInv(outbox, entry, attemptSeq, sendQueue, posts', forced)
      /\ PageInv(outbox, entry, page)
  BY <1>2, Before, FollowKeepsInv
<1>4. ClientTypes'
  BY Before DEF ReplyStale, client, ClientTypes
<1> QED BY <1>1, <1>3, <1>4, Before, ClientStep DEF ReplyStale, client

LEMMA ReplyFailedInv ==
  ASSUME IInv, ~LateSave, NEW p \in posts, NEW status \in Failures, NEW hung \in BOOLEAN,
         ReplyFailed(p, status, hung)
  PROVE  IInv'
<1> DEFINE m == p.msg
<1>1. posts' = posts \ {p}
  BY NoLeftover DEF ReplyFailed
<1>2. /\ entry' \in [Msgs -> Entry] /\ m \in outbox /\ m \in Msgs
      /\ \A k \in Msgs : k # m => entry'[k] = entry[k]
      /\ Follows(entry[m], entry'[m]) /\ p.seq = attemptSeq[m]
  BY Before, PostFailedEntry DEF ReplyFailed, Follows
<1>3. \A q \in posts' : q.msg = m => ~Live(q, attemptSeq)
  BY <1>1, <1>2, Before DEF ClientInv, PostsInv, Live
<1>4. \A r \in Rooms : sendQueue'[r] \subseteq sendQueue[r]
  BY Before DEF ReplyFailed
<1>5. sendQueue' \in [Rooms -> SUBSET outbox]
  BY Before DEF ReplyFailed
<1>6. Moved(outbox, entry, attemptSeq, sendQueue, posts, forced,
            outbox, entry', attemptSeq, sendQueue', posts', forced)
  BY <1>1, <1>2, <1>3, <1>4, <1>5, Before, Unmoved DEF Moved
<1>7. /\ ClientInv(outbox, entry', attemptSeq, sendQueue', posts', forced)
      /\ PageInv(outbox, entry', page)
  BY <1>6, Before, FollowKeepsInv
<1>8. ClientTypes'
  BY Before DEF ReplyFailed, ClientTypes
<1> QED BY <1>1, <1>7, <1>8, Before, ClientStep DEF ReplyFailed

LEMMA ReplyUntrackedInv ==
  ASSUME IInv, ~LateSave, NEW p \in posts, NEW hung \in BOOLEAN, ReplyUntracked(p, hung)
  PROVE  IInv'
<1> DEFINE ps == (posts \ {p}) \cup Leftover(p, hung)
<1>1. ps \subseteq posts /\ p.token \in Rooms
  BY NoLeftover, Before
<1>2. Moved(outbox, entry, attemptSeq, sendQueue, posts, forced,
            outbox, entry, attemptSeq, sendQueue, ps, forced)
  BY <1>1, Before, Unmoved DEF Moved
<1>3. [sendQueue EXCEPT ![p.token] = sendQueue[p.token]] = sendQueue
  BY <1>1, Before
<1>4. /\ ClientInv(outbox, entry, attemptSeq,
                   [sendQueue EXCEPT ![p.token] = sendQueue[p.token]], ps, forced)
      /\ PageInv(outbox, entry, page)
  <2>1. /\ ClientInv(outbox, entry, attemptSeq, sendQueue, ps, forced)
        /\ PageInv(outbox, entry, page)
    BY <1>2, Before, FollowKeepsInv
  <2> QED BY <2>1, <1>3
<1>5. SendNextQueued(p.token, sendQueue[p.token], outbox, entry, ps)
  BY DEF ReplyUntracked
<1>6. sendQueue \in [Rooms -> SUBSET Msgs] /\ account \in Accounts \cup {Nobody}
  BY Before DEF ClientTypes
<1>7. /\ ClientInv(outbox, entry', attemptSeq', sendQueue', posts', forced)
      /\ PageInv(outbox, entry', page)
      /\ \A q \in posts' : q \in ps \/ q.msg \in outbox
  BY <1>1, <1>4, <1>5, <1>6, SendNextKeepsInv
<1>8. \A q \in posts' : q.msg <= sent
  BY <1>1, <1>7, Before
<1>9. ClientTypes'
  BY Before DEF ReplyUntracked, ClientTypes
<1> QED BY <1>7, <1>8, <1>9, Before, ClientStep DEF ReplyUntracked

LEMMA ReplyDeliveredInv ==
  ASSUME IInv, NEW p \in posts, ReplyDelivered(p) PROVE IInv'
<1> DEFINE m == p.msg
           r == p.token
           cleared == [x \in Rooms |-> sendQueue[x] \ {m}]
           queue == [sendQueue EXCEPT ![r] = sendQueue[r] \ {m}]
<1>1. m \in outbox /\ r \in Rooms /\ entry[m].token = r /\ outbox' = outbox \ {m}
  BY Before DEF ReplyDelivered, ClientInv, PostsInv
<1>2. /\ ClientInv(outbox', Without(m), attemptSeq, cleared, posts \ {p}, forced)
      /\ PageInv(outbox', Without(m), page)
  BY <1>1, DropMoved
<1>3. \A x \in Rooms : x # r => m \notin sendQueue[x]
  BY <1>1, Before DEF ClientInv, AbsentInv
<1>4. queue = cleared
  BY <1>1, <1>3, Before
<1>5. SendNextQueued(r, sendQueue[r] \ {m}, outbox', Without(m), posts \ {p})
  BY DEF ReplyDelivered
<1>6. sendQueue \in [Rooms -> SUBSET Msgs] /\ account \in Accounts \cup {Nobody}
  BY Before DEF ClientTypes
<1>7. ClientInv(outbox', Without(m), attemptSeq,
                [sendQueue EXCEPT ![r] = sendQueue[r] \ {m}], posts \ {p}, forced)
  BY <1>2, <1>4
<1>8. /\ ClientInv(outbox', entry', attemptSeq', sendQueue', posts', forced)
      /\ PageInv(outbox', entry', page)
      /\ \A q \in posts' : q \in posts \ {p} \/ q.msg \in outbox'
  <2> DEFINE en == Without(m)
             ps == posts \ {p}
             q == sendQueue[r] \ {m}
  <2>1. /\ ClientInv(outbox', en, attemptSeq, [sendQueue EXCEPT ![r] = q], ps, forced)
        /\ PageInv(outbox', en, page) /\ SendNextQueued(r, q, outbox', en, ps)
        /\ r \in Rooms
    BY <1>1, <1>2, <1>5, <1>7
  <2> HIDE DEF en, ps, q, r
  <2>2. /\ ClientInv(outbox', entry', attemptSeq', sendQueue', posts', forced)
        /\ PageInv(outbox', entry', page)
        /\ \A x \in posts' : x \in ps \/ x.msg \in outbox'
    BY <2>1, <1>6, SendNextKeepsInv
  <2> QED BY <2>2 DEF ps
<1>9. \A q \in posts' : q.msg <= sent
  BY <1>1, <1>8, Before
<1>10. ClientTypes'
  BY Before DEF ReplyDelivered, ClientTypes
<1> QED BY <1>1, <1>8, <1>9, <1>10, Before, ClientStep DEF ReplyDelivered

-----------------------------------------------------------------------------
(* The server.                                                             *)

LEMMA OthersWriteInv == ASSUME IInv, NEW r \in Rooms, OthersWrite(r) PROVE IInv'
<1>1. /\ newest \in [Rooms -> Nat] /\ newest' \in [Rooms -> Nat] /\ copies \in [Msgs -> SUBSET Nat]
      /\ \A x \in Rooms : newest[x] <= newest'[x]
  BY DEF IInv, TypeOK, OthersWrite
<1>2. TypeOK'
  BY <1>1 DEF IInv, TypeOK, OthersWrite, client
<1>3. \A m \in outbox : entry[m].token \in Rooms /\ m \in Msgs
  BY Before DEF ClientInv, Shape
<1>4. \A m \in outbox :
         /\ entry[m].knownNewestId <= newest'[entry[m].token]
         /\ \A i \in copies[m] :
               i <= newest'[entry[m].token] /\ i > entry[m].knownNewestId
  <2>0. ASSUME NEW m \in outbox PROVE entry[m].knownNewestId <= newest'[entry[m].token]
    <3>1. entry[m].knownNewestId <= newest[entry[m].token] /\ entry[m].knownNewestId \in Nat
      BY <1>3, Before DEF ClientInv, CopiesInv, Entry
    <3>2. newest[entry[m].token] \in Nat /\ newest'[entry[m].token] \in Nat
          /\ newest[entry[m].token] <= newest'[entry[m].token]
      BY <1>1, <1>3
    <3> QED BY <3>1, <3>2
  <2> SUFFICES ASSUME NEW m \in outbox, NEW i \in copies[m]
               PROVE  i <= newest'[entry[m].token] /\ i > entry[m].knownNewestId
    BY <2>0
  <2>1. i <= newest[entry[m].token] /\ i > entry[m].knownNewestId
    BY Before DEF ClientInv, CopiesInv
  <2>2. newest[entry[m].token] \in Nat /\ newest'[entry[m].token] \in Nat /\ i \in Nat
    BY <1>1, <1>3
  <2> QED BY <2>1, <2>2, <1>1, <1>3
<1>5. CopiesInv(outbox, entry)'
  BY <1>4, Before DEF OthersWrite, client, CopiesInv, ClientInv
<1>6. /\ Shape(outbox, entry, attemptSeq, sendQueue, posts)'
      /\ PostsInv(outbox, entry, attemptSeq, posts)'
      /\ AbsentInv(entry, attemptSeq, sendQueue, posts, forced)'
      /\ PageInv(outbox, entry, page)' /\ (\A x \in Rooms \ probing : page[x] = Unserved)'
      /\ UnsentInv' /\ NoDuplicate'
  BY DEF OthersWrite, client, IInv, OutboxInv, Shape, PostsInv, AbsentInv, PageInv,
         UnsentInv, NoDuplicate, Live
<1> QED BY <1>2, <1>5, <1>6 DEF IInv, OutboxInv

LEMMA ServerSaveInv ==
  ASSUME IInv, ~LateSave, NEW p \in posts, ServerSave(p) PROVE IInv'
<1> DEFINE m == p.msg
           r == p.token
           n == newest[r] + 1
           q == [p EXCEPT !.saved = TRUE]
<1>1. /\ newest \in [Rooms -> Nat] /\ copies \in [Msgs -> SUBSET Nat]
      /\ p \in Post /\ m \in Msgs /\ r \in Rooms /\ m <= sent /\ n \in Nat
      /\ Live(p, attemptSeq) /\ ~p.answered
  BY Before DEF IInv, TypeOK, ServerSave, Live
<1>2. /\ newest' = [newest EXCEPT ![r] = n] /\ copies' = [copies EXCEPT ![m] = @ \cup {n}]
      /\ posts' = (posts \ {p}) \cup {q} /\ UNCHANGED <<client, page, retries, forced, dropped>>
  BY <1>1 DEF ServerSave
<1>3. /\ q \in Post /\ q.msg = m /\ q.seq = p.seq /\ q.token = r /\ q.saved /\ ~q.answered
  BY <1>1 DEF Post
<1>4. /\ newest' \in [Rooms -> Nat] /\ copies' \in [Msgs -> SUBSET Nat]
      /\ \A x \in Rooms : newest[x] <= newest'[x]
      /\ newest'[r] = n
      /\ \A k \in Msgs : k # m => copies'[k] = copies[k]
      /\ copies'[m] = copies[m] \cup {n}
  BY <1>1, <1>2
<1> HIDE DEF m, r, n, q
<1>5. TypeOK'
  BY <1>2, <1>3, <1>4 DEF IInv, TypeOK, client
<1>6. Shape(outbox, entry, attemptSeq, sendQueue, posts)'
  BY <1>2, <1>3, Before DEF ClientInv, Shape, client, m
<1>7. PostsInv(outbox, entry, attemptSeq, posts)'
  BY <1>2, <1>3, Before DEF ClientInv, PostsInv, client, Live, m, r
<1>8. \A k \in posts' : Live(k, attemptSeq) => k \in posts /\ k.msg # m
  BY <1>1, <1>2, <1>3, Before DEF ClientInv, PostsInv, Live, m
<1>9. m \in outbox => entry[m].token = r /\ entry[m].everPosted /\ entry[m].inFlight
  BY <1>1, Before DEF ClientInv, PostsInv, m, r
<1>10. CopiesInv(outbox, entry)'
  <2>1. ASSUME NEW k \in outbox, NEW i \in copies'[k]
        PROVE  i <= newest'[entry[k].token] /\ i > entry[k].knownNewestId
    <3>1. entry[k].token \in Rooms /\ k \in Msgs /\ entry[k].knownNewestId \in Nat
      BY Before DEF ClientInv, Shape, Entry
    <3>2. newest[entry[k].token] \in Nat /\ newest'[entry[k].token] \in Nat /\ i \in Nat
      BY <1>1, <1>4, <3>1, <2>1
    <3>3. CASE i \in copies[k]
      <4>1. i <= newest[entry[k].token] /\ i > entry[k].knownNewestId
        BY <3>3, Before DEF ClientInv, CopiesInv
      <4> QED BY <4>1, <3>1, <3>2, <1>4
    <3>4. CASE i \notin copies[k]
      <4>1. k = m /\ i = n
        BY <3>4, <3>1, <2>1, <1>4
      <4>2. entry[k].knownNewestId <= newest[r]
        BY <4>1, <1>9, Before DEF ClientInv, CopiesInv
      <4> QED BY <4>1, <4>2, <1>1, <1>4, <1>9, <3>1 DEF n
    <3> QED BY <3>3, <3>4
  <2>2. \A k \in outbox : copies'[k] # {} => entry[k].everPosted
    BY <1>4, <1>9, Before DEF ClientInv, CopiesInv
  <2>3. ASSUME NEW k \in outbox PROVE entry[k].knownNewestId <= newest'[entry[k].token]
    <3>1. entry[k].token \in Rooms /\ entry[k].knownNewestId \in Nat
      BY Before DEF ClientInv, Shape, Entry
    <3>2. entry[k].knownNewestId <= newest[entry[k].token]
      BY Before DEF ClientInv, CopiesInv
    <3>3. /\ newest[entry[k].token] \in Nat /\ newest'[entry[k].token] \in Nat
          /\ newest[entry[k].token] <= newest'[entry[k].token]
      BY <1>1, <1>4, <3>1
    <3> QED BY <3>1, <3>2, <3>3
  <2> QED BY <2>1, <2>2, <2>3, <1>2 DEF CopiesInv, client
<1>11. m \notin forced => copies[m] = {}
  BY <1>1, Before DEF ClientInv, AbsentInv, m
<1>12. AbsentInv(entry, attemptSeq, sendQueue, posts, forced)'
  <2>1. \A k \in posts' : Live(k, attemptSeq) /\ k.msg \notin forced => copies'[k.msg] = {}
    BY <1>4, <1>8, Before DEF ClientInv, AbsentInv
  <2>2. ASSUME NEW x \in Rooms, NEW k \in sendQueue[x]
        PROVE  /\ entry[k].token = x /\ ~entry[k].inFlight
               /\ k \notin forced => copies'[k] = {}
    <3>1. /\ entry[k].token = x /\ ~entry[k].inFlight
          /\ k \notin forced => copies[k] = {}
      BY Before DEF ClientInv, AbsentInv
    <3>2. k \in outbox /\ k \in Msgs
      BY Before
    <3> QED BY <3>1, <3>2, <1>4, <1>9
  <2> QED BY <2>1, <2>2, <1>2 DEF AbsentInv, client, Live
<1>13. PageInv(outbox, entry, page)'
  <2>1. ASSUME NEW k \in outbox, entry[k].quiet, Waiting(entry[k]),
               page[entry[k].token] # Unserved
        PROVE  \A i \in copies'[k] : i <= page[entry[k].token]
    <3>1. k # m /\ k \in Msgs
      BY <1>9, <2>1, Before DEF Waiting
    <3> QED BY <3>1, <2>1, <1>4, Before DEF PageInv
  <2> QED BY <2>1, <1>2 DEF PageInv, client, Waiting
<1>14. (\A x \in Rooms \ probing : page[x] = Unserved)'
  BY <1>2, Before DEF client
<1>15. UnsentInv'
  <2>1. sent \in Int /\ m \in Int /\ sent' = sent /\ outbox' = outbox
    BY <1>1, <1>2 DEF IInv, TypeOK, Msgs, client
  <2>2. \A k \in Msgs : k > sent => k # m
    BY <1>1, <2>1
  <2>3. /\ \A k \in Msgs : k > sent => k \notin outbox /\ copies[k] = {}
        /\ \A x \in posts : x.msg <= sent
    BY DEF IInv, OutboxInv, UnsentInv
  <2>4. \A x \in posts' : x.msg <= sent
    BY <1>1, <1>2, <1>3, <2>3
  <2>5. \A k \in Msgs : k > sent => k \notin outbox /\ copies'[k] = {}
    BY <2>2, <2>3, <1>4
  <2> QED BY <2>1, <2>4, <2>5 DEF UnsentInv
<1>16. NoDuplicate'
  BY <1>2, <1>4, <1>11 DEF IInv, OutboxInv, NoDuplicate
<1> QED BY <1>5, <1>6, <1>7, <1>10, <1>12, <1>13, <1>14, <1>15, <1>16 DEF IInv, OutboxInv

-----------------------------------------------------------------------------
(* The timer and the probe.                                                *)

LEMMA ProbeServedInv == ASSUME IInv, NEW r \in Rooms, ProbeServed(r) PROVE IInv'
<1>1. newest \in [Rooms -> Nat] /\ page \in [Rooms -> Nat \cup {Unserved}]
  BY DEF IInv, TypeOK
<1>2. page' = [page EXCEPT ![r] = newest[r]] /\ r \in probing
  BY DEF ProbeServed
<1>3. page' \in [Rooms -> Nat \cup {Unserved}] /\ ClientTypes'
  BY <1>1, <1>2, Before DEF ProbeServed, client, ClientTypes
<1>4. PageInv(outbox, entry, page')
  <2>1. \A k \in outbox : entry[k].token \in Rooms
    BY Before DEF ClientInv, Shape
  <2>2. \A k \in outbox : \A i \in copies[k] : i <= newest[entry[k].token]
    BY Before DEF ClientInv, CopiesInv
  <2> QED BY <1>1, <1>2, <2>1, <2>2, Before DEF PageInv
<1>5. \A x \in Rooms \ probing : page'[x] = Unserved
  BY <1>1, <1>2, Before
<1> QED BY <1>3, <1>4, <1>5, Before, ClientStep DEF ProbeServed, client

LEMMA StaysTransitive ==
  ASSUME NEW e, NEW f, NEW g, Stays(e, f), Stays(f, g) PROVE Stays(e, g)
  BY DEF Stays, Follows

\* A probe that has ended is not judged any more.
LEMMA PageGone ==
  ASSUME NEW ob, NEW en, NEW r \in Rooms, page \in [Rooms -> Nat \cup {Unserved}],
         PageInv(ob, en, page), \A k \in ob : en[k].token \in Rooms
  PROVE  PageInv(ob, en, [page EXCEPT ![r] = Unserved])
  BY DEF PageInv

LEMMA UnquietMoves ==
  ASSUME OutboxAssumption, NEW r \in Rooms, NEW en, en \in [Msgs -> Entry]
  PROVE  /\ Unquiet(r, en) \in [Msgs -> Entry]
         /\ \A k \in Msgs : Stays(en[k], Unquiet(r, en)[k])
         /\ \A k \in Msgs : en[k] = Blank => Unquiet(r, en)[k] = Blank
<1>1. \A k \in Msgs : /\ Quiet(en[k], FALSE) \in Entry /\ Stays(en[k], Quiet(en[k], FALSE))
                      /\ Stays(en[k], en[k])
  BY UnquietFollows DEF Stays, Follows
<1>2. Blank.token # r
  BY BlankEntry DEF OutboxAssumption
<1> QED BY <1>1, <1>2 DEF Unquiet

LEMMA ProbeFailedInv ==
  ASSUME OutboxAssumption, IInv, NEW r \in Rooms, NEW denied \in BOOLEAN,
         ProbeFailed(r, denied)
  PROVE  IInv'
<1> DEFINE en == [m \in Msgs |->
                    IF m \in outbox /\ entry[m].token = r /\ Waiting(entry[m])
                    THEN IF denied THEN GivenUp(entry[m]) ELSE Waits(entry[m], "short")
                    ELSE entry[m]]
<1>1. /\ entry' = Unquiet(r, en) /\ page' = [page EXCEPT ![r] = Unserved]
      /\ probing' = probing \ {r}
  BY DEF ProbeFailed
<1>2. /\ en \in [Msgs -> Entry] /\ \A k \in Msgs : Stays(entry[k], en[k])
      /\ \A k \in Msgs \ outbox : en[k] = Blank
  <2>1. \A k \in Msgs : /\ Stays(entry[k], GivenUp(entry[k])) /\ GivenUp(entry[k]) \in Entry
                        /\ Stays(entry[k], Waits(entry[k], "short"))
                        /\ Waits(entry[k], "short") \in Entry
    BY Before, GivenUpFollows, WaitsFollows DEF Stays, Follows
  <2> QED BY <2>1, IdleEntries
<1> HIDE DEF en
<1>3. /\ entry' \in [Msgs -> Entry] /\ \A k \in Msgs : Stays(entry[k], entry'[k])
      /\ \A k \in Msgs \ outbox : entry'[k] = Blank
  BY <1>1, <1>2, UnquietMoves, StaysTransitive
<1>4. Moved(outbox, entry, attemptSeq, sendQueue, posts, forced,
            outbox, entry', attemptSeq, sendQueue, posts, forced)
  BY <1>3, Before, Unmoved DEF Moved, Stays
<1>5. /\ ClientInv(outbox, entry', attemptSeq, sendQueue, posts, forced)
      /\ PageInv(outbox, entry', page)
  BY <1>4, Before, FollowKeepsInv
<1>6. PageInv(outbox, entry', page')
  BY <1>1, <1>5, PageGone, Before DEF ClientTypes, ClientInv, Shape
<1>7. ClientTypes' /\ \A x \in Rooms \ probing' : page'[x] = Unserved
  BY <1>1, Before DEF ProbeFailed, ClientTypes
<1> QED BY <1>5, <1>6, <1>7, Before, ClientStep DEF ProbeFailed

\* Marking entries for a probe changes nothing but their `quiet'.
LEMMA RequietKeepsInv ==
  ASSUME NEW ob, NEW en, NEW en2, NEW seq, NEW queue, NEW ps, NEW free,
         ClientInv(ob, en, seq, queue, ps, free), en2 \in [Msgs -> Entry],
         \A k \in Msgs \ ob : en2[k] = Blank,
         \A k \in Msgs : /\ en2[k].token = en[k].token
                         /\ en2[k].knownNewestId = en[k].knownNewestId
                         /\ en2[k].everPosted = en[k].everPosted
                         /\ en2[k].inFlight = en[k].inFlight
  PROVE  ClientInv(ob, en2, seq, queue, ps, free)
<1>1. ob \subseteq Msgs /\ queue \in [Rooms -> SUBSET ob]
  BY DEF ClientInv, Shape
<1>2. Shape(ob, en2, seq, queue, ps)
  BY <1>1 DEF ClientInv, Shape
<1>3. PostsInv(ob, en2, seq, ps)
  BY <1>1 DEF ClientInv, PostsInv
<1>4. CopiesInv(ob, en2)
  BY <1>1 DEF ClientInv, CopiesInv
<1>5. AbsentInv(en2, seq, queue, ps, free)
  <2>1. \A x \in Rooms : queue[x] \subseteq Msgs
    BY <1>1
  <2> QED BY <2>1 DEF ClientInv, AbsentInv
<1> QED BY <1>2, <1>3, <1>4, <1>5 DEF ClientInv

LEMMA OutboxTickInv == ASSUME OutboxAssumption, IInv, OutboxTick PROVE IInv'
<1> DEFINE mine == {m \in outbox : entry[m].owner = account}
           hanging == {m \in outbox : entry[m].inFlight /\ entry[m].slow
                                       /\ entry[m].owner = account}
           After(x) == [m \in Msgs |-> IF m \notin mine THEN Blank
                                       ELSE IF m \in x
                                       THEN PostFailed(entry[m], "unknown", TRUE)
                                       ELSE entry[m]]
           Started(e) == {r \in Rooms \ probing :
                             \E m \in mine : /\ e[m].token = r /\ headReady(e[m])
                                             /\ IsHead(m, mine, e)}
           Tick(x, e, ts) ==
             /\ outbox' = mine
             /\ attemptSeq' = [m \in Msgs |-> IF m \in x THEN attemptSeq[m] + 1
                                              ELSE attemptSeq[m]]
             /\ sendQueue' = [r \in Rooms |-> IF \E m \in x : entry[m].token = r
                                              THEN {} ELSE sendQueue[r] \cap mine]
             /\ probing' = probing \cup ts
             /\ entry' = [m \in Msgs |-> IF m \in mine /\ e[m].token \in ts
                                         THEN Quiet(e[m], TRUE) ELSE e[m]]
             /\ dropped' = dropped \cup (outbox \ mine)
<1>0. PICK expired \in SUBSET hanging : Tick(expired, After(expired), Started(After(expired)))
  BY DEF OutboxTick
<1> DEFINE en == After(expired)
           started == Started(en)
<1>tick. Tick(expired, en, started) /\ started \subseteq Rooms \ probing
  BY <1>0
<1>1. mine \subseteq outbox /\ expired \subseteq mine /\ mine \subseteq Msgs
  BY <1>tick, Before
<1>2. /\ en \in [Msgs -> Entry] /\ \A k \in mine : Follows(entry[k], en[k])
      /\ \A k \in mine \ expired : en[k] = entry[k]
      /\ \A k \in Msgs \ mine : en[k] = Blank
  <2>1. \A k \in Msgs : LET f == PostFailed(entry[k], "unknown", TRUE) IN
                          f \in Entry /\ Follows(entry[k], f)
    BY Before, PostFailedEntry DEF Follows, Failures
  <2> QED BY <2>1, <1>1, Before, BlankEntry, Unmoved
<1>3. /\ attemptSeq' \in [Msgs -> Nat] /\ \A k \in Msgs : attemptSeq[k] <= attemptSeq'[k]
      /\ \A k \in expired : attemptSeq'[k] = attemptSeq[k] + 1
  BY <1>tick, <1>1, Before
<1>4. sendQueue' \in [Rooms -> SUBSET mine] /\ \A r \in Rooms : sendQueue'[r] \subseteq sendQueue[r]
  BY <1>tick
<1>5. \A p \in posts : p.msg \in expired => ~Live(p, attemptSeq')
  BY <1>1, <1>3, Before DEF Live, ClientInv, Shape, Post
<1> HIDE DEF mine, hanging, en, started
<1>6. Moved(outbox, entry, attemptSeq, sendQueue, posts, forced,
            mine, en, attemptSeq', sendQueue', posts, forced)
  BY <1>1, <1>2, <1>3, <1>4, <1>5, Before DEF Moved
<1>7. /\ ClientInv(mine, en, attemptSeq', sendQueue', posts, forced)
      /\ PageInv(mine, en, page)
  BY <1>6, Before, FollowKeepsInv
<1>8. /\ entry' \in [Msgs -> Entry] /\ \A k \in Msgs \ mine : entry'[k] = Blank
      /\ \A k \in Msgs : /\ entry'[k].token = en[k].token
                         /\ entry'[k].knownNewestId = en[k].knownNewestId
                         /\ entry'[k].everPosted = en[k].everPosted
                         /\ entry'[k].inFlight = en[k].inFlight
      /\ \A k \in Msgs : en[k].token \notin started => entry'[k] = en[k]
  BY <1>tick, <1>2, QuietEntry
<1>9. ClientInv(outbox', entry', attemptSeq', sendQueue', posts, forced)
  BY <1>tick, <1>7, <1>8, RequietKeepsInv
<1>10. PageInv(outbox', entry', page)
  <2> SUFFICES ASSUME NEW k \in mine, entry'[k].quiet, Waiting(entry'[k]),
                      page[entry'[k].token] # Unserved
               PROVE  \A i \in copies[k] : i <= page[entry'[k].token]
    BY <1>tick DEF PageInv
  <2>1. k \in Msgs /\ entry'[k].token = en[k].token
    BY <1>1, <1>8
  <2>2. en[k].token \notin started
    BY <1>tick, <2>1, Before
  <2>3. entry'[k] = en[k]
    BY <1>8, <2>1, <2>2
  <2> QED BY <1>7, <2>3 DEF PageInv
<1>11. ClientTypes' /\ UNCHANGED <<sent, newest, copies, posts, page, forced>>
  BY <1>tick, Before DEF OutboxTick, ClientTypes
<1> QED BY <1>tick, <1>1, <1>9, <1>10, <1>11, Before, ClientStep

LEMMA AbsentIsAbsent ==
  ASSUME OutboxAssumption, NEW m \in Msgs, NEW n \in Nat, copies[m] \subseteq Nat,
         entry[m].knownNewestId \in Nat,
         \A i \in copies[m] : i > entry[m].knownNewestId /\ i <= n,
         probeVerdict(m, n) = "Absent"
  PROVE  copies[m] = {}
<1>1. copies[m] \cap Window(n) = {} /\ (n = 0 \/ Covers(n, entry[m].knownNewestId))
  BY DEF probeVerdict
<1>2. ASSUME NEW i \in copies[m] PROVE FALSE
  <2>1. i \in Nat /\ i > entry[m].knownNewestId /\ i <= n /\ Limit \in Nat \ {0}
    BY <1>2 DEF OutboxAssumption
  <2>2. i \in Window(n)
    BY <1>1, <2>1 DEF Covers, lastGiven, Window
  <2> QED BY <1>1, <1>2, <2>2
<1> QED BY <1>2

LEMMA ProbeAnsweredInv ==
  ASSUME OutboxAssumption, IInv, NEW r \in Rooms, ProbeAnswered(r) PROVE IInv'
<1> DEFINE n == page[r]
           judged == {m \in outbox : /\ entry[m].token = r /\ Waiting(entry[m])
                                     /\ entry[m].quiet}
           delivered == {m \in judged : afterProbe(m, n) = "MarkDelivered"}
           toSend == {m \in judged : afterProbe(m, n) = "Resend"}
           giveUp == {m \in judged : afterProbe(m, n) = "GiveUp"}
           left == outbox \ delivered
           raw == [m \in Msgs |-> IF m \in delivered THEN Blank
                                  ELSE IF m \in giveUp THEN GivenUp(entry[m])
                                  ELSE entry[m]]
           en == Unquiet(r, raw)
           rest == [sendQueue EXCEPT ![r] = @ \ delivered]
<1>1. /\ n # Unserved /\ probing' = probing \ {r} /\ page' = [page EXCEPT ![r] = Unserved]
      /\ outbox' = left
      /\ forced' = forced \cup {m \in toSend : /\ entry[m].everPosted
                                               /\ probeVerdict(m, n) = "Inconclusive"}
      /\ IF toSend # {} THEN SendNextQueued(r, toSend, left, en, posts)
         ELSE entry' = en /\ sendQueue' = rest /\ UNCHANGED <<attemptSeq, posts>>
      /\ UNCHANGED <<sent, token, account, newest, copies, retries, dropped>>
  BY DEF ProbeAnswered
<1>2. /\ judged \subseteq outbox /\ judged \subseteq Msgs /\ left \subseteq outbox
      /\ delivered \subseteq judged /\ toSend \subseteq judged /\ toSend \subseteq left
      /\ \A m \in judged : entry[m].token = r /\ Waiting(entry[m]) /\ entry[m].quiet
  BY Before
<1>3. n \in Nat
  BY <1>1, Before DEF ClientTypes
<1>4. ASSUME NEW m \in toSend, m \notin forced' PROVE copies[m] = {}
  <2>1. probeVerdict(m, n) = "Absent" \/ ~entry[m].everPosted
    <3>1. afterProbe(m, n) = "Resend" /\ m \in toSend
      OBVIOUS
    <3>2. probeVerdict(m, n) \in {"Delivered", "Absent", "Inconclusive"}
      BY <1>3 DEF probeVerdict
    <3>3. probeVerdict(m, n) # "Delivered"
      BY <3>1 DEF afterProbe
    <3> QED BY <1>1, <1>4, <3>1, <3>2, <3>3
  <2>2. m \in outbox /\ m \in Msgs /\ copies[m] \subseteq Nat /\ entry[m].knownNewestId \in Nat
    BY <1>2, Before DEF IInv, TypeOK, Entry
  <2>3. /\ copies[m] # {} => entry[m].everPosted
        /\ \A i \in copies[m] : i > entry[m].knownNewestId
    BY <2>2, Before DEF ClientInv, CopiesInv
  <2>4. \A i \in copies[m] : i <= n
    BY <1>1, <1>2, <2>2, Before DEF PageInv
  <2> QED BY <1>3, <2>1, <2>2, <2>3, <2>4, AbsentIsAbsent
<1>5. /\ raw \in [Msgs -> Entry] /\ \A k \in left : Stays(entry[k], raw[k])
      /\ \A k \in Msgs \ left : raw[k] = Blank
  <2>1. \A k \in Msgs : /\ Stays(entry[k], GivenUp(entry[k])) /\ GivenUp(entry[k]) \in Entry
                        /\ Stays(entry[k], entry[k])
    BY Before, GivenUpFollows, IdleEntries DEF Stays, Follows
  <2> QED BY <2>1, <1>2, BlankEntry, Before
<1>6. /\ en \in [Msgs -> Entry] /\ \A k \in left : Stays(entry[k], en[k])
      /\ \A k \in Msgs \ left : en[k] = Blank
  <2> HIDE DEF raw, left
  <2>1. left \subseteq Msgs
    BY <1>2, Before
  <2> QED BY <1>5, <2>1, UnquietMoves, StaysTransitive
<1>7. /\ rest \in [Rooms -> SUBSET left] /\ \A x \in Rooms : rest[x] \subseteq sendQueue[x]
  <2>1. \A x \in Rooms : x # r => sendQueue[x] \cap delivered = {}
    BY <1>2, Before DEF ClientInv, AbsentInv
  <2>2. \A x \in Rooms : sendQueue[x] \subseteq outbox
    BY Before
  <2> HIDE DEF delivered
  <2> QED BY <2>1, <2>2, Before
<1>8. forced \subseteq forced' /\ forced' \subseteq Msgs
  BY <1>1, <1>2, Before DEF ClientTypes
<1> HIDE DEF n, judged, delivered, toSend, giveUp, left, raw, en, rest
<1>9. Moved(outbox, entry, attemptSeq, sendQueue, posts, forced,
            left, en, attemptSeq, rest, posts, forced')
  BY <1>2, <1>6, <1>7, <1>8, Before, Unmoved DEF Moved, Stays
<1>10. /\ ClientInv(left, en, attemptSeq, rest, posts, forced') /\ PageInv(left, en, page)
  BY <1>9, Before, FollowKeepsInv
<1>11. /\ ClientInv(outbox', entry', attemptSeq', sendQueue', posts', forced')
       /\ PageInv(outbox', entry', page)
       /\ \A p \in posts' : p \in posts \/ p.msg \in outbox
  <2>1. CASE toSend = {}
    BY <1>1, <1>10, <2>1
  <2>2. CASE toSend # {}
    <3> DEFINE queue == [sendQueue EXCEPT ![r] = toSend]
    <3>1. /\ queue \in [Rooms -> SUBSET left] /\ queue[r] = toSend
          /\ \A x \in Rooms : x # r => queue[x] = rest[x]
      BY <1>2, <1>7, Before DEF rest
    <3>2. Shape(left, en, attemptSeq, queue, posts)
      BY <1>10, <3>1 DEF ClientInv, Shape
    <3>3. \A k \in toSend : en[k].token = r /\ ~en[k].inFlight
      BY <1>2, <1>6 DEF Stays, Follows, Waiting
    <3>4. AbsentInv(en, attemptSeq, queue, posts, forced')
      BY <1>4, <1>10, <3>1, <3>3 DEF ClientInv, AbsentInv
    <3>5. ClientInv(left, en, attemptSeq, queue, posts, forced')
      BY <1>10, <3>2, <3>4 DEF ClientInv
    <3>6. SendNextQueued(r, toSend, left, en, posts)
      BY <1>1, <2>2
    <3>7. /\ ClientInv(left, entry', attemptSeq', sendQueue', posts', forced')
          /\ \A pg : PageInv(left, en, pg) => PageInv(left, entry', pg)
          /\ \A p \in posts' : p \in posts \/ p.msg \in left
      BY <3>5, <3>6, SendNextKeepsInv, Before DEF ClientTypes
    <3> QED BY <1>1, <1>2, <1>10, <3>7
  <2> QED BY <2>1, <2>2
<1>12. PageInv(outbox', entry', page')
  BY <1>1, <1>11, PageGone, Before DEF ClientTypes, ClientInv, Shape
<1>13. ClientTypes' /\ \A x \in Rooms \ probing' : page'[x] = Unserved
  BY <1>1, <1>8, Before DEF ClientTypes
<1>14. \A p \in posts' : p.msg <= sent
  BY <1>11, Before
<1> QED BY <1>1, <1>2, <1>8, <1>11, <1>12, <1>13, <1>14, ClientStep

-----------------------------------------------------------------------------
(* A new message.                                                          *)

LEMMA ComposedKeepsInv ==
  ASSUME OutboxAssumption, IInv, NEW m \in Msgs, m = sent + 1,
         token \in Rooms, account \in Accounts, NEW known \in 0..newest[token]
  PROVE  LET en == [entry EXCEPT ![m] = Composed(known)]
         IN /\ ClientInv(outbox \cup {m}, en, attemptSeq, sendQueue, posts, forced)
            /\ PageInv(outbox \cup {m}, en, page)
            /\ en \in [Msgs -> Entry] /\ en[m] = Composed(known)
            /\ \A r \in Rooms : m \notin sendQueue[r]
            /\ copies[m] = {}
<1> DEFINE en == [entry EXCEPT ![m] = Composed(known)]
           ob == outbox \cup {m}
<1>1. /\ newest \in [Rooms -> Nat] /\ sent \in Nat /\ m \in Nat /\ known \in Nat
      /\ known <= newest[token]
  BY DEF IInv, TypeOK, Msgs
<1>2. /\ m \notin outbox /\ copies[m] = {} /\ \A p \in posts : p.msg # m
      /\ \A r \in Rooms : m \notin sendQueue[r]
  <2>1. m > sent
    BY <1>1
  <2>2. m \notin outbox /\ copies[m] = {} /\ \A p \in posts : p.msg # m
    BY <1>1, <2>1 DEF IInv, OutboxInv, UnsentInv
  <2> QED BY <2>2, Before
<1>3. LET f == Composed(known) IN
        /\ f \in Entry /\ f.token = token /\ f.knownNewestId = known
        /\ f.everPosted = FALSE /\ ~f.inFlight /\ ~f.quiet
  BY <1>1, ComposedEntry
<1>4. /\ en \in [Msgs -> Entry] /\ en[m] = Composed(known)
      /\ \A k \in Msgs : k # m => en[k] = entry[k]
      /\ ob \subseteq Msgs /\ \A k \in ob : k = m \/ (k \in outbox /\ k # m)
  BY <1>2, <1>3, Before
<1> HIDE DEF en, ob
<1>5. Shape(ob, en, attemptSeq, sendQueue, posts)
  <2>1. \A k \in ob : en[k].token \in Rooms
    BY <1>3, <1>4, Before DEF ClientInv, Shape
  <2>2. sendQueue \in [Rooms -> SUBSET ob]
    BY Before DEF ob
  <2>3. \A k \in Msgs \ ob : en[k] = Blank
    BY <1>4, Before DEF ob
  <2> QED BY <1>4, <2>1, <2>2, <2>3, Before DEF ClientInv, Shape
<1>6. PostsInv(ob, en, attemptSeq, posts)
  BY <1>2, <1>4, Before DEF ClientInv, PostsInv
<1>7. CopiesInv(ob, en)
  BY <1>1, <1>2, <1>3, <1>4, Before DEF ClientInv, CopiesInv
<1>8. AbsentInv(en, attemptSeq, sendQueue, posts, forced)
  <2>1. \A r \in Rooms : \A k \in sendQueue[r] : en[k] = entry[k]
    BY <1>2, <1>4, Before
  <2> QED BY <2>1, Before DEF ClientInv, AbsentInv
<1>9. PageInv(ob, en, page)
  BY <1>3, <1>4, Before DEF PageInv
<1> QED BY <1>2, <1>4, <1>5, <1>6, <1>7, <1>8, <1>9 DEF ClientInv, en, ob

LEMMA SendMessageInv ==
  ASSUME OutboxAssumption, IInv, NEW m \in Msgs, SendMessage(m) PROVE IInv'
<1>1. PICK known \in 0..newest[token] :
         LET en == [entry EXCEPT ![m] = Composed(known)]
         IN IF behindOlder(token)
            THEN entry' = Kicked(en) /\ UNCHANGED <<attemptSeq, posts>>
            ELSE StartAttempt(m, en, posts)
  BY DEF SendMessage
<1> DEFINE en == [entry EXCEPT ![m] = Composed(known)]
           ob == outbox \cup {m}
<1>2. /\ token \in Rooms /\ account \in Accounts /\ m = sent + 1 /\ sent' = m /\ outbox' = ob
      /\ UNCHANGED <<sendQueue, probing, page, token, account, newest, copies,
                     retries, forced, dropped>>
  BY Before DEF SendMessage, ClientTypes
<1>3. /\ ClientInv(ob, en, attemptSeq, sendQueue, posts, forced) /\ PageInv(ob, en, page)
      /\ en \in [Msgs -> Entry] /\ \A r \in Rooms : m \notin sendQueue[r]
  BY <1>2, ComposedKeepsInv
<1>4. copies[m] = {}
  BY <1>2, ComposedKeepsInv
<1> HIDE DEF en
<1>5. /\ ClientInv(ob, entry', attemptSeq', sendQueue, posts', forced)
      /\ PageInv(ob, entry', page)
      /\ \A p \in posts' : p \in posts \/ p.msg = m
  <2>1. CASE behindOlder(token)
    <3>1. entry' = Kicked(en) /\ UNCHANGED <<attemptSeq, posts>>
      BY <1>1, <2>1 DEF en
    <3>2. \A k \in Msgs : /\ Stays(en[k], en[k]) /\ Stays(en[k], Waits(en[k], "short"))
                          /\ Waits(en[k], "short") \in Entry
      BY <1>3, WaitsFollows DEF Stays, Follows
    <3>3. \A k \in Msgs \ ob : en[k] = Blank
      BY <1>3 DEF ClientInv, Shape
    <3>4. Blank.wait = "due"
      BY DEF Blank
    <3>5. /\ entry' \in [Msgs -> Entry] /\ \A k \in Msgs : Stays(en[k], entry'[k])
          /\ \A k \in Msgs \ ob : entry'[k] = Blank
      BY <1>3, <3>1, <3>2, <3>3, <3>4 DEF Kicked
    <3>6. ob \subseteq Msgs /\ sendQueue \in [Rooms -> SUBSET ob]
      BY Before
    <3>7. Moved(ob, en, attemptSeq, sendQueue, posts, forced,
                ob, entry', attemptSeq, sendQueue, posts, forced)
      BY <3>5, <3>6, Before, Unmoved DEF Moved, Stays
    <3> HIDE DEF ob
    <3>8. /\ ClientInv(ob, entry', attemptSeq, sendQueue, posts, forced)
          /\ PageInv(ob, entry', page)
      BY <1>3, <3>7, FollowKeepsInv
    <3> QED BY <3>1, <3>8
  <2>2. CASE ~behindOlder(token)
    <3>1. StartAttempt(m, en, posts) /\ m \in ob
      BY <1>1, <2>2 DEF en
    <3> HIDE DEF ob
    <3>2. ClientInv(ob, entry', attemptSeq', sendQueue, posts', forced)
      BY <1>2, <1>3, <1>4, <3>1, StartKeepsInv
    <3>3. /\ \A k \in Msgs : k # m => entry'[k] = en[k]
          /\ entry'[m] = Posted(en[m])
      BY <1>2, <1>3, <3>1, StartKeepsShape DEF ClientInv
    <3>4. ob \subseteq Msgs
      BY Before DEF ob
    <3>5. PageInv(ob, entry', page)
      BY <1>3, <3>3, <3>4, PostedEntry DEF PageInv
    <3>6. \A p \in posts' : p \in posts \/ p.msg = m
      BY <3>1 DEF StartAttempt
    <3> QED BY <3>2, <3>5, <3>6
  <2> QED BY <2>1, <2>2
<1>6. /\ sent \in Nat /\ sent' \in 0..MaxMsgs /\ m \in Nat /\ sent < sent'
      /\ \A k \in Msgs : k \in Nat
  BY <1>2 DEF IInv, TypeOK, Msgs, OutboxAssumption
<1>7. Shape(outbox', entry', attemptSeq', sendQueue', posts')
  BY <1>2, <1>5 DEF ClientInv
<1>8. TypeOK'
  <2>1. outbox' \subseteq 1..sent'
    BY <1>2, <1>6 DEF IInv, TypeOK
  <2> QED BY <1>2, <1>6, <1>7, <2>1 DEF IInv, TypeOK, Shape
<1>9. ClientInv(outbox, entry, attemptSeq, sendQueue, posts, forced)'
  BY <1>2, <1>5 DEF ClientInv, Shape, PostsInv, CopiesInv, AbsentInv, Live
<1>10. PageInv(outbox, entry, page)' /\ (\A r \in Rooms \ probing : page[r] = Unserved)'
  BY <1>2, <1>5, Before DEF PageInv
<1>11. UnsentInv'
  <2>1. /\ \A k \in Msgs : k > sent => k \notin outbox /\ copies[k] = {}
        /\ \A p \in posts : p.msg <= sent /\ p.msg \in Msgs
    BY Before DEF IInv, OutboxInv, UnsentInv
  <2>2. \A k \in Msgs : k > sent' => k > sent /\ k # m
    BY <1>2, <1>6
  <2>3. \A p \in posts' : p.msg <= sent'
    <3>1. ASSUME NEW p \in posts PROVE p.msg <= sent'
      <4>1. p.msg \in Nat /\ p.msg <= sent
        BY <1>6, <2>1
      <4>2. sent \in Nat /\ sent' = sent + 1
        BY <1>2, <1>6
      <4> QED BY <4>1, <4>2
    <3>2. m <= sent'
      BY <1>2, <1>6
    <3> QED BY <1>5, <3>1, <3>2
  <2> QED BY <1>2, <2>1, <2>2, <2>3 DEF UnsentInv
<1>12. NoDuplicate'
  BY <1>2 DEF IInv, OutboxInv, NoDuplicate
<1> QED BY <1>8, <1>9, <1>10, <1>11, <1>12 DEF IInv, OutboxInv, ClientInv

-----------------------------------------------------------------------------
(* Every reachable state.                                                  *)

LEMMA StutterInv == ASSUME IInv, UNCHANGED vars PROVE IInv'
  BY DEF vars, client, IInv, TypeOK, OutboxInv, Shape, PostsInv, CopiesInv, AbsentInv,
         PageInv, UnsentInv, NoDuplicate, Live

LEMMA NextInv == ASSUME OutboxAssumption, ~LateSave, IInv, Next PROVE IInv'
<1>1. CASE User
  BY <1>1, SendMessageInv, RetryMessageInv, DiscardFailedInv, OpenRoomInv, KickOutboxInv,
     LogoutInv, LoginInv DEF User
<1>2. CASE Network
  <2>1. CASE \E p \in posts : ServerSave(p)
    BY <2>1, ServerSaveInv
  <2>2. CASE \E p \in posts : Reply(p)
    BY <2>2, ReplyUntrackedInv, ReplyStaleInv, ReplyDeliveredInv, ReplyFailedInv DEF Reply
  <2>3. CASE \E m \in Msgs : Echo(m)
    BY <2>3, EchoInv
  <2>4. CASE \E r \in Rooms : \/ OthersWrite(r) \/ ProbeServed(r) \/ ProbeAnswered(r)
                              \/ \E denied \in BOOLEAN : ProbeFailed(r, denied)
    BY <2>4, OthersWriteInv, ProbeServedInv, ProbeAnsweredInv, ProbeFailedInv
  <2> QED BY <1>2, <2>1, <2>2, <2>3, <2>4 DEF Network
<1>3. CASE Timers
  BY <1>3, AttemptSlowInv, DeadlinePassesInv, OutboxTickInv DEF Timers
<1> QED BY <1>1, <1>2, <1>3 DEF Next

\* IInv is inductive, as long as the server does not store a message whose POST
\* it has already failed.
THEOREM SpecIInv == ASSUME ~LateSave PROVE Spec => []IInv
<1>1. Init => IInv
  BY InitIInv, OutboxAssumption
<1>2. IInv /\ [Next]_vars => IInv'
  BY NextInv, StutterInv, OutboxAssumption
<1> QED BY <1>1, <1>2, PTL DEF Spec

\* Type correctness of the outbox, for any number of messages, rooms and accounts.
THEOREM SpecTypeOK == ASSUME ~LateSave PROVE Spec => []TypeOK
<1>1. IInv => TypeOK
  BY DEF IInv
<1> QED BY <1>1, SpecIInv, PTL

\* No message is stored twice unless the user forced it (NoDuplicate): the
\* check-then-resend protocol is safe whatever page size the server serves.
THEOREM SpecNoDuplicate == ASSUME ~LateSave PROVE Spec => []NoDuplicate
<1>1. IInv => NoDuplicate
  BY DEF IInv, OutboxInv
<1> QED BY <1>1, SpecIInv, PTL

\* The invariant behind it: what is known of every POST, queue and page.
THEOREM SpecOutboxInv == ASSUME ~LateSave PROVE Spec => []OutboxInv
<1>1. IInv => OutboxInv
  BY DEF IInv
<1> QED BY <1>1, SpecIInv, PTL

-----------------------------------------------------------------------------
(* What the outbox promises whether or not the server stores a message     *)
(* after its POST failed; and, when it stores nothing then, that it        *)
(* implements the mailbox.                                                 *)

Kept(e) == e.postAttempts <= PostBudget /\ (e.postAttempts = PostBudget => ~Waiting(e))

\* An entry of this account: somebody is signed in.
Mine(e, who) ==
    /\ e \in Entry /\ e.token \in Rooms /\ Kept(e)
    /\ e.owner = who /\ who \in Accounts

\* A later state of the entry e.
Still(e, f, who) == Mine(f, who) /\ f.token = e.token

\* A POST, if its message is among ob one of this account for the entry's room.
Known(n, p, ob, en, who) ==
    /\ p \in Post /\ p.msg <= n
    /\ p.msg \in ob => p.by = who /\ p.token = en[p.msg].token
    /\ p.saved => copies[p.msg] # {}

\* A handler's intermediate result, when n messages have been written.
Held(n, ob, en, queue, ps, who) ==
    /\ ob \subseteq 1..n /\ 1..n \subseteq Msgs
    /\ en \in [Msgs -> Entry]
    /\ \A m \in Msgs \ ob : en[m] = Blank
    /\ \A m \in ob : Mine(en[m], who)
    /\ queue \in [Rooms -> SUBSET ob]
    /\ \A r \in Rooms : \A m \in queue[r] : en[m].token = r
    /\ \A p \in ps : Known(n, p, ob, en, who)

PInv == TypeOK /\ Held(sent, outbox, entry, sendQueue, posts, account) /\ NothingLost

-----------------------------------------------------------------------------
(* What the handlers do to one entry.                                      *)

LEMMA SmallSteps ==
    ASSUME OutboxAssumption, NEW who, NEW e, Mine(e, who)
    PROVE  /\ Still(e, e, who) /\ Still(e, Slowed(e), who)
           /\ Still(e, Retried(e), who) /\ Still(e, GivenUp(e), who)
           /\ \A w \in {"due", "short", "settle"} : Still(e, Waits(e, w), who)
           /\ \A b \in BOOLEAN : Still(e, Quiet(e, b), who)
PROOF
<1> USE DEF Mine, Kept, Entry, Waiting, Still
<1>1. Still(e, e, who) /\ Still(e, Slowed(e), who) /\ Still(e, GivenUp(e), who)
  BY DEF Slowed, GivenUp
<1>2. Still(e, Retried(e), who)
  <2>1. Retried(e) \in Entry /\ Retried(e).token = e.token /\ Retried(e).owner = e.owner
    BY DEF Retried
  <2>2. Retried(e).postAttempts = 0
    BY DEF Retried
  <2>3. PostBudget \in Nat /\ PostBudget > 0
    BY DEF OutboxAssumption
  <2> QED
    BY <2>1, <2>2, <2>3
<1>3. \A w \in {"due", "short", "settle"} : Still(e, Waits(e, w), who)
  BY DEF Waits
<1>4. \A b \in BOOLEAN : Still(e, Quiet(e, b), who)
  BY DEF Quiet
<1> QED
  BY <1>1, <1>2, <1>3, <1>4

\* A message that waits has not used up its budget: it may be POSTed once more.
LEMMA PostedMine ==
    ASSUME OutboxAssumption, NEW who, NEW e, Mine(e, who), Waiting(e)
    PROVE  Still(e, Posted(e), who)
PROOF
<1>1. e \in Entry /\ e.postAttempts \in Nat /\ PostBudget \in Nat
  BY DEF Mine, Entry, OutboxAssumption
<1>2. e.postAttempts + 1 \in Nat /\ e.postAttempts + 1 <= PostBudget
  BY <1>1 DEF Mine, Kept
<1>3. Posted(e) \in Entry /\ Posted(e).token = e.token /\ Posted(e).owner = e.owner
      /\ Posted(e).inFlight
  BY <1>1, PostedEntry
<1>4. Posted(e).postAttempts = e.postAttempts + 1
  BY <1>1 DEF Posted, Entry
<1> QED
  BY <1>2, <1>3, <1>4 DEF Mine, Kept, Waiting, Still

\* The last attempt that failed is given up.
LEMMA PostFailedMine ==
    ASSUME OutboxAssumption, NEW who, NEW e, Mine(e, who),
           NEW status \in Failures, NEW hung \in BOOLEAN
    PROVE  Still(e, PostFailed(e, status, hung), who)
PROOF
<1> DEFINE f == PostFailed(e, status, hung)
<1>1. e \in Entry /\ e.postAttempts \in Nat
  BY DEF Mine, Entry
<1>2. f \in Entry /\ f.token = e.token /\ f.owner = e.owner
  BY <1>1, PostFailedEntry
<1>3. f.postAttempts = e.postAttempts /\ f.permanent = givesUp(status, e.postAttempts)
  BY <1>1 DEF PostFailed, Entry
<1>4. e.postAttempts = PostBudget => givesUp(status, e.postAttempts)
  BY DEF givesUp, postAttemptBudget, OutboxAssumption
<1> QED
  BY <1>2, <1>3, <1>4 DEF Mine, Kept, Waiting, Still

LEMMA ComposedMine ==
    ASSUME OutboxAssumption, token \in Rooms, account \in Accounts, NEW known \in Nat
    PROVE  Mine(Composed(known), account) /\ Waiting(Composed(known))
PROOF
<1>1. Composed(known) \in Entry /\ Composed(known).token = token /\ Waiting(Composed(known))
  BY ComposedEntry
<1>2. Composed(known).owner = account /\ Composed(known).postAttempts = 0
  BY DEF Composed, Blank
<1> QED
  BY <1>1, <1>2 DEF Mine, Kept, OutboxAssumption

LEMMA BlankWaits == Blank \in Entry /\ Blank.token = NoRoom /\ Blank.wait = "due"
PROOF
BY BlankEntry DEF Blank

-----------------------------------------------------------------------------
(* Steps.                                                                  *)

\* A POST goes out with the credentials of the account its message belongs to.
LEMMA StartHeld ==
    ASSUME OutboxAssumption, NEW n, NEW ob, NEW en, NEW queue, NEW ps, NEW m \in ob,
           Held(n, ob, en, queue, ps, account),
           attemptSeq \in [Msgs -> Nat], Waiting(en[m]), StartAttempt(m, en, ps)
    PROVE  /\ Held(n, ob, entry', queue, posts', account) /\ attemptSeq' \in [Msgs -> Nat]
           /\ \A p \in posts' : p \in ps \/ p.msg = m
PROOF
<1> DEFINE new == [msg |-> m, seq |-> attemptSeq[m] + 1, token |-> en[m].token,
                   by |-> account, saved |-> FALSE, answered |-> FALSE]
<1>1. m \in Msgs /\ m \in 1..n /\ Mine(en[m], account) /\ attemptSeq[m] + 1 \in Nat
      /\ ob \subseteq Msgs
  BY DEF Held
<1>2. Still(en[m], Posted(en[m]), account)
  BY <1>1, PostedMine
<1>3. Posted(en[m]) \in Entry /\ Posted(en[m]).token = en[m].token /\ en[m].token \in Rooms
  BY <1>1, <1>2 DEF Mine, Still
<1>4. /\ entry' \in [Msgs -> Entry] /\ entry'[m] = Posted(en[m])
      /\ \A k \in Msgs : k # m => entry'[k] = en[k]
      /\ \A k \in Msgs : entry'[k].token = en[k].token
  BY <1>1, <1>3 DEF Held, StartAttempt
<1>5. Known(n, new, ob, entry', account)
  <2>1. new \in Post
    BY <1>1, <1>3 DEF Post, Mine
  <2> QED
    BY <1>1, <1>4, <2>1 DEF Known
<1>6. \A p \in posts' : Known(n, p, ob, entry', account)
  <2>1. ASSUME NEW p \in ps PROVE Known(n, p, ob, entry', account)
    BY <1>1, <1>4 DEF Held, Known
  <2> QED
    BY <1>5, <2>1 DEF StartAttempt
<1>7. \A k \in ob : Mine(entry'[k], account)
  BY <1>1, <1>2, <1>4 DEF Held, Still
<1>8. \A k \in Msgs \ ob : entry'[k] = Blank
  BY <1>4 DEF Held
<1>9. \A r \in Rooms : \A k \in queue[r] : entry'[k].token = r
  BY <1>1, <1>4 DEF Held
<1>10. attemptSeq' \in [Msgs -> Nat]
  BY <1>1 DEF StartAttempt
<1>11. \A p \in posts' : p \in ps \/ p.msg = m
  BY DEF StartAttempt
<1> QED
  BY <1>4, <1>6, <1>7, <1>8, <1>9, <1>10, <1>11 DEF Held

LEMMA SendNextHeld ==
    ASSUME OutboxAssumption, NEW r \in Rooms, NEW queue, NEW n, NEW ob, NEW en, NEW ps,
           sendQueue \in [Rooms -> SUBSET Msgs],
           Held(n, ob, en, [sendQueue EXCEPT ![r] = queue], ps, account),
           attemptSeq \in [Msgs -> Nat], SendNextQueued(r, queue, ob, en, ps)
    PROVE  Held(n, ob, entry', sendQueue', posts', account) /\ attemptSeq' \in [Msgs -> Nat]
PROOF
<1> DEFINE before == [sendQueue EXCEPT ![r] = queue]
<1>1. queue \subseteq ob /\ before \in [Rooms -> SUBSET ob]
  BY DEF Held
<1>2. CASE sendQueue' = [sendQueue EXCEPT ![r] = {}] /\ entry' = en /\ posts' = ps
           /\ attemptSeq' = attemptSeq
  <2>1. sendQueue' \in [Rooms -> SUBSET ob] /\ \A x \in Rooms : sendQueue'[x] \subseteq before[x]
    BY <1>1, <1>2
  <2> QED
    BY <1>2, <2>1 DEF Held
<1>3. ASSUME NEW m \in queue, Sendable(m, ob, en),
             sendQueue' = [sendQueue EXCEPT ![r] = {k \in queue : k > m}],
             StartAttempt(m, en, ps)
      PROVE  Held(n, ob, entry', sendQueue', posts', account) /\ attemptSeq' \in [Msgs -> Nat]
  <2>1. m \in ob /\ Waiting(en[m])
    BY <1>3 DEF Sendable
  <2>2. sendQueue' \in [Rooms -> SUBSET ob] /\ \A x \in Rooms : sendQueue'[x] \subseteq before[x]
    BY <1>1, <1>3
  <2>3. Held(n, ob, en, sendQueue', ps, account)
    BY <2>2 DEF Held
  <2> QED
    BY <1>3, <2>1, <2>3, StartHeld
<1> QED
  BY <1>2, <1>3 DEF SendNextQueued

\* What keeps to the entries, the queue and the POSTs that were held is held.
LEMMA RestHeld ==
    ASSUME NEW n, NEW ob, NEW en, NEW queue, NEW ps, NEW who, Held(n, ob, en, queue, ps, who),
           NEW ob2, NEW en2, NEW queue2, NEW ps2,
           ob2 \subseteq ob, en2 \in [Msgs -> Entry],
           \A m \in ob2 : Still(en[m], en2[m], who), \A m \in Msgs \ ob2 : en2[m] = Blank,
           queue2 \in [Rooms -> SUBSET ob2], \A r \in Rooms : queue2[r] \subseteq queue[r],
           \A p \in ps2 : p \in ps \/ \E q \in ps : p = [q EXCEPT !.answered = TRUE]
    PROVE  Held(n, ob2, en2, queue2, ps2, who)
PROOF
<1>1. ASSUME NEW p \in ps2 PROVE Known(n, p, ob2, en2, who)
  <2>1. CASE p \in ps
    BY <2>1 DEF Held, Known, Still
  <2>2. ASSUME NEW q \in ps, p = [q EXCEPT !.answered = TRUE] PROVE Known(n, p, ob2, en2, who)
    <3>1. Known(n, q, ob, en, who) /\ q \in Post
      BY DEF Held, Known
    <3>2. p \in Post /\ p.msg = q.msg /\ p.by = q.by /\ p.saved = q.saved /\ p.token = q.token
      BY <2>2, <3>1 DEF Post
    <3> QED
      BY <3>1, <3>2 DEF Known, Still
  <2> QED
    BY <1>1, <2>1, <2>2
<1>2. \A r \in Rooms : \A m \in queue2[r] : en2[m].token = r
  BY DEF Held, Still
<1> QED
  BY <1>1, <1>2 DEF Held, Still

LEMMA LeftoverPosts ==
    ASSUME NEW p \in posts, NEW hung, NEW q \in (posts \ {p}) \cup Leftover(p, hung)
    PROVE  q \in posts \/ \E x \in posts : q = [x EXCEPT !.answered = TRUE]
PROOF
BY DEF Leftover

\* A handler's end: what it leaves is held, and what it let go is accounted for.
LEMMA Ends ==
    ASSUME PInv, UNCHANGED sent, Held(sent', outbox', entry', sendQueue', posts', account'),
           \A m \in Msgs : copies[m] # {} => copies'[m] # {},
           dropped \subseteq dropped',
           \A m \in outbox \ outbox' : m \in dropped' \/ copies'[m] # {},
           attemptSeq' \in [Msgs -> Nat],
           probing' \subseteq Rooms, page' \in [Rooms -> Nat \cup {Unserved}],
           token' \in Rooms \cup {NoRoom}, account' \in Accounts \cup {Nobody},
           newest' \in [Rooms -> Nat], copies' \in [Msgs -> SUBSET Nat],
           retries' \in 0..MaxRetries, forced' \subseteq Msgs, dropped' \subseteq Msgs
    PROVE  PInv'
PROOF
<1>1. /\ outbox' \subseteq 1..sent /\ 1..sent \subseteq Msgs /\ entry' \in [Msgs -> Entry]
      /\ \A m \in Msgs \ outbox' : entry'[m] = Blank
      /\ \A m \in outbox' : Mine(entry'[m], account')
      /\ sendQueue' \in [Rooms -> SUBSET outbox']
      /\ \A r \in Rooms : \A m \in sendQueue'[r] : entry'[m].token = r
      /\ \A p \in posts' : Known(sent, p, outbox', entry', account')
  BY DEF Held
<1>2. posts' \subseteq Post
  BY <1>1 DEF Known
<1>3. TypeOK'
  BY <1>1, <1>2 DEF PInv, TypeOK
<1>4. NothingLost'
  BY <1>1 DEF PInv, NothingLost
<1>5. \A p \in posts' : Known(sent, p, outbox, entry, account)'
  <2>1. ASSUME NEW p \in posts', p.saved PROVE copies'[p.msg] # {}
    <3>1. p.msg \in Msgs /\ copies[p.msg] # {}
      BY <1>1, <2>1 DEF Known, Post
    <3> QED
      BY <3>1
  <2> QED
    BY <1>1, <2>1 DEF Known
<1>6. Held(sent, outbox, entry, sendQueue, posts, account)'
  BY <1>1, <1>5 DEF Held, Mine, Kept
<1> QED
  BY <1>3, <1>4, <1>6 DEF PInv

\* What every action may start from.
LEMMA PBefore ==
    ASSUME PInv
    PROVE  /\ Held(sent, outbox, entry, sendQueue, posts, account) /\ TypeOK
           /\ outbox \subseteq 1..sent /\ outbox \subseteq Msgs
           /\ entry \in [Msgs -> Entry] /\ \A m \in Msgs \ outbox : entry[m] = Blank
           /\ \A m \in outbox : Mine(entry[m], account)
           /\ \A p \in posts : /\ Known(sent, p, outbox, entry, account) /\ p.msg \in Msgs
                               /\ p.token \in Rooms
           /\ sendQueue \in [Rooms -> SUBSET outbox] /\ sendQueue \in [Rooms -> SUBSET Msgs]
           /\ attemptSeq \in [Msgs -> Nat]
PROOF
BY DEF PInv, TypeOK, Held, Known, Post

\* A handler that lets nothing go and moves its entries on.
LEMMA EntriesHeld ==
    ASSUME PInv, UNCHANGED <<sent, outbox, attemptSeq, sendQueue, probing, page, account,
                             posts, newest, copies, forced, dropped>>,
           entry' \in [Msgs -> Entry], \A m \in outbox : Still(entry[m], entry'[m], account),
           \A m \in Msgs \ outbox : entry'[m] = Blank,
           token' \in Rooms \cup {NoRoom}, retries' \in 0..MaxRetries
    PROVE  PInv'
PROOF
<1>1. Held(sent, outbox, entry', sendQueue, posts, account)
  BY RestHeld, PBefore
<1> QED
  BY <1>1, Ends, PBefore DEF TypeOK

-----------------------------------------------------------------------------
(* Initially.                                                              *)

LEMMA PInit == OutboxAssumption /\ Init => PInv
PROOF
<1> SUFFICES ASSUME OutboxAssumption, Init PROVE PInv
  OBVIOUS
<1>1. TypeOK
  BY InitIInv DEF IInv
<1>2. 1..sent = {}
  BY DEF Init
<1>3. Held(sent, outbox, entry, sendQueue, posts, account) /\ NothingLost
  BY <1>2, BlankEntry DEF Init, Held, NothingLost
<1> QED
  BY <1>1, <1>3 DEF PInv

-----------------------------------------------------------------------------
(* The user, the clock and the window: entries change, nothing is let go.   *)

LEMMA PAttemptSlow == ASSUME OutboxAssumption, PInv, NEW m \in Msgs, AttemptSlow(m) PROVE PInv'
PROOF
<1>1. \A k \in outbox : Still(entry[k], entry[k], account)
                        /\ Still(entry[k], Slowed(entry[k]), account)
  BY PBefore, SmallSteps
<1>2. /\ entry' \in [Msgs -> Entry] /\ \A k \in outbox : Still(entry[k], entry'[k], account)
      /\ \A k \in Msgs \ outbox : entry'[k] = Blank
  BY <1>1, PBefore DEF AttemptSlow, Mine, Still
<1> QED
  BY <1>2, EntriesHeld, PBefore DEF AttemptSlow, TypeOK

LEMMA PDeadlinePasses ==
    ASSUME OutboxAssumption, PInv, NEW m \in Msgs, DeadlinePasses(m) PROVE PInv'
PROOF
<1>1. \A k \in outbox : Still(entry[k], entry[k], account)
                        /\ Still(entry[k], Waits(entry[k], "due"), account)
  BY PBefore, SmallSteps
<1>2. /\ entry' \in [Msgs -> Entry] /\ \A k \in outbox : Still(entry[k], entry'[k], account)
      /\ \A k \in Msgs \ outbox : entry'[k] = Blank
  BY <1>1, PBefore DEF DeadlinePasses, Mine, Still
<1> QED
  BY <1>2, EntriesHeld, PBefore DEF DeadlinePasses, TypeOK

\* A kick changes the deadlines of what is held.
LEMMA KickedHeld ==
    ASSUME OutboxAssumption, NEW n, NEW ob, NEW en, NEW queue, NEW ps, NEW who,
           Held(n, ob, en, queue, ps, who)
    PROVE  /\ Kicked(en) \in [Msgs -> Entry]
           /\ \A k \in ob : Still(en[k], Kicked(en)[k], who)
           /\ \A k \in Msgs \ ob : Kicked(en)[k] = Blank
           /\ Held(n, ob, Kicked(en), queue, ps, who)
PROOF
<1>1. \A k \in ob : k \in Msgs /\ Still(en[k], en[k], who)
                    /\ Still(en[k], Waits(en[k], "short"), who)
  BY SmallSteps DEF Held
<1>2. \A k \in Msgs \ ob : Kicked(en)[k] = Blank
  BY BlankWaits DEF Held, Kicked
<1>3. \A k \in ob : Still(en[k], Kicked(en)[k], who)
  BY <1>1 DEF Kicked
<1>4. \A k \in Msgs : Kicked(en)[k] \in Entry
  BY <1>2, <1>3, BlankWaits DEF Mine, Still
<1>5. Kicked(en) \in [Msgs -> Entry]
  BY <1>4 DEF Kicked
<1>6. queue \in [Rooms -> SUBSET ob]
  BY DEF Held
<1> QED
  BY <1>2, <1>3, <1>5, <1>6, RestHeld

LEMMA PKickOutbox == ASSUME OutboxAssumption, PInv, KickOutbox PROVE PInv'
PROOF
BY KickedHeld, EntriesHeld, PBefore DEF KickOutbox, TypeOK

LEMMA POpenRoom ==
    ASSUME OutboxAssumption, PInv, NEW r \in Rooms \cup {NoRoom}, OpenRoom(r) PROVE PInv'
PROOF
<1>1. \A k \in outbox : Still(entry[k], entry[k], account)
  BY PBefore, SmallSteps
<1> QED
  BY <1>1, KickedHeld, EntriesHeld, PBefore DEF OpenRoom, TypeOK

LEMMA PRetryMessage ==
    ASSUME OutboxAssumption, PInv, NEW m \in Msgs, RetryMessage(m) PROVE PInv'
PROOF
<1>1. \A k \in outbox : /\ Still(entry[k], entry[k], account)
                        /\ Still(entry[k], Retried(entry[k]), account)
                        /\ Still(entry[k], Waits(entry[k], "due"), account)
  BY PBefore, SmallSteps
<1>2. \A k \in Msgs \ outbox : k # m
  BY DEF RetryMessage
<1>3. /\ \A k \in outbox : Still(entry[k], entry'[k], account)
      /\ \A k \in Msgs \ outbox : entry'[k] = Blank
  BY <1>1, <1>2, PBefore DEF RetryMessage
<1>4. entry' \in [Msgs -> Entry]
  <2>1. \A k \in Msgs : entry'[k] \in Entry
    BY <1>3, BlankEntry DEF Mine, Still
  <2>2. entry' = [k \in Msgs |-> entry'[k]]
    BY DEF RetryMessage
  <2> QED
    BY <2>1, <2>2
<1>5. retries' \in 0..MaxRetries
  BY PBefore DEF RetryMessage, TypeOK, OutboxAssumption
<1> QED
  BY <1>3, <1>4, <1>5, EntriesHeld, PBefore DEF RetryMessage, TypeOK

\* Nobody signs in over the entries of another: there are none.
LEMMA PLogin == ASSUME OutboxAssumption, PInv, NEW a \in Accounts, Login(a) PROVE PInv'
PROOF
<1>1. outbox = {}
  BY PBefore DEF Login, Mine, OutboxAssumption
<1>2. \A p \in posts : Known(sent, p, {}, entry, a)
  BY PBefore DEF Known
<1>3. Held(sent, outbox, entry, sendQueue, posts, a)
  BY <1>1, <1>2, PBefore DEF Held
<1> QED
  BY <1>3, Ends, PBefore DEF Login, TypeOK

-----------------------------------------------------------------------------
(* Messages leave the outbox.                                              *)

LEMMA DropHeld ==
    ASSUME OutboxAssumption, PInv, NEW m \in outbox, NEW ps, ps \subseteq posts
    PROVE  Held(sent, outbox \ {m}, Without(m), [r \in Rooms |-> sendQueue[r] \ {m}], ps, account)
PROOF
<1> DEFINE queue == [r \in Rooms |-> sendQueue[r] \ {m}]
<1>1. /\ Without(m) \in [Msgs -> Entry] /\ Without(m)[m] = Blank /\ m \in Msgs
      /\ \A k \in Msgs : k # m => Without(m)[k] = entry[k]
  BY PBefore, BlankEntry DEF Without
<1>2. \A k \in outbox : Still(entry[k], entry[k], account)
  BY PBefore, SmallSteps
<1>3. /\ \A k \in outbox \ {m} : Still(entry[k], Without(m)[k], account)
      /\ \A k \in Msgs \ (outbox \ {m}) : Without(m)[k] = Blank
  BY <1>1, <1>2, PBefore
<1>4. queue \in [Rooms -> SUBSET (outbox \ {m})] /\ \A r \in Rooms : queue[r] \subseteq sendQueue[r]
  BY PBefore
<1> HIDE DEF queue
<1>5. Held(sent, outbox \ {m}, Without(m), queue, ps, account)
  BY <1>1, <1>3, <1>4, PBefore, RestHeld
<1> QED
  BY <1>5 DEF queue

LEMMA PDiscardFailed ==
    ASSUME OutboxAssumption, PInv, NEW m \in Msgs, DiscardFailed(m) PROVE PInv'
PROOF
<1>1. /\ m \in outbox /\ outbox' = outbox \ {m} /\ entry' = Without(m)
      /\ sendQueue' = [r \in Rooms |-> sendQueue[r] \ {m}] /\ dropped' = dropped \cup {m}
      /\ UNCHANGED <<sent, attemptSeq, probing, page, token, account, posts, newest,
                     copies, retries, forced>>
  BY DEF DiscardFailed, Drop
<1>2. Held(sent', outbox', entry', sendQueue', posts', account')
  BY <1>1, DropHeld
<1> QED
  BY <1>1, <1>2, Ends, PBefore DEF TypeOK

\* The server has what is echoed.
LEMMA PEcho == ASSUME OutboxAssumption, PInv, NEW m \in Msgs, Echo(m) PROVE PInv'
PROOF
<1>1. /\ m \in outbox /\ outbox' = outbox \ {m} /\ entry' = Without(m) /\ copies[m] # {}
      /\ sendQueue' = [r \in Rooms |-> sendQueue[r] \ {m}]
      /\ UNCHANGED <<sent, attemptSeq, probing, page, token, account, posts, newest,
                     copies, retries, forced, dropped>>
  BY DEF Echo, Drop
<1>2. Held(sent', outbox', entry', sendQueue', posts', account')
  BY <1>1, DropHeld
<1> QED
  BY <1>1, <1>2, Ends, PBefore DEF TypeOK

LEMMA PLogout == ASSUME PInv, Logout PROVE PInv'
PROOF
<1>1. \A p \in posts : Known(sent, p, {}, entry', Nobody)
  BY PBefore DEF Known
<1>2. Held(sent', outbox', entry', sendQueue', posts', account')
  <2>1. entry' \in [Msgs -> Entry] /\ \A m \in Msgs : entry'[m] = Blank
    BY BlankEntry DEF Logout
  <2>2. sendQueue' \in [Rooms -> SUBSET {}] /\ \A r \in Rooms : sendQueue'[r] = {}
    BY DEF Logout
  <2> QED
    BY <1>1, <2>1, <2>2, PBefore DEF Logout, Held
<1>3. dropped' \subseteq Msgs
  BY PBefore DEF Logout, TypeOK
<1> QED
  BY <1>2, <1>3, Ends, PBefore DEF Logout, TypeOK

-----------------------------------------------------------------------------
(* The reply of a POST.                                                    *)

\* The reply is in: what may be left of the request is not a new one.
LEMMA AnsweredHeld ==
    ASSUME OutboxAssumption, PInv, NEW p \in posts, NEW hung \in BOOLEAN
    PROVE  Held(sent, outbox, entry, sendQueue, (posts \ {p}) \cup Leftover(p, hung), account)
PROOF
<1>1. \A k \in outbox : Still(entry[k], entry[k], account)
  BY PBefore, SmallSteps
<1> DEFINE ps == (posts \ {p}) \cup Leftover(p, hung)
<1>2. \A q \in ps : q \in posts \/ \E x \in posts : q = [x EXCEPT !.answered = TRUE]
  BY LeftoverPosts
<1> HIDE DEF ps
<1>3. Held(sent, outbox, entry, sendQueue, ps, account)
  BY <1>1, <1>2, PBefore, RestHeld
<1> QED
  BY <1>3 DEF ps

LEMMA PReplyStale ==
    ASSUME OutboxAssumption, PInv, NEW p \in posts, NEW hung \in BOOLEAN, ReplyStale(p, hung)
    PROVE  PInv'
PROOF
<1>1. Held(sent, outbox, entry, sendQueue, posts', account)
  BY AnsweredHeld DEF ReplyStale
<1> QED
  BY <1>1, Ends, PBefore DEF ReplyStale, client, TypeOK

LEMMA PReplyFailed ==
    ASSUME OutboxAssumption, PInv, NEW p \in posts, NEW status \in Failures,
           NEW hung \in BOOLEAN, ReplyFailed(p, status, hung)
    PROVE  PInv'
PROOF
<1> DEFINE m == p.msg
<1>1. /\ m \in outbox /\ m \in Msgs
      /\ Still(entry[m], PostFailed(entry[m], status, hung), account)
  BY PBefore, PostFailedMine DEF ReplyFailed
<1>2. \A k \in outbox : Still(entry[k], entry[k], account)
  BY PBefore, SmallSteps
<1>3. /\ entry' \in [Msgs -> Entry] /\ entry'[m] = PostFailed(entry[m], status, hung)
      /\ \A k \in Msgs : k # m => entry'[k] = entry[k]
  BY <1>1, PBefore DEF ReplyFailed, Mine, Still
<1>4. /\ \A k \in outbox : Still(entry[k], entry'[k], account)
      /\ \A k \in Msgs \ outbox : entry'[k] = Blank
  BY <1>1, <1>2, <1>3, PBefore
<1>5. sendQueue' \in [Rooms -> SUBSET outbox] /\ \A r \in Rooms : sendQueue'[r] \subseteq sendQueue[r]
  BY PBefore DEF ReplyFailed
<1>6. \A q \in posts' : q \in posts \/ \E x \in posts : q = [x EXCEPT !.answered = TRUE]
  BY LeftoverPosts DEF ReplyFailed
<1>7. Held(sent, outbox, entry', sendQueue', posts', account)
  BY <1>3, <1>4, <1>5, <1>6, PBefore, RestHeld
<1> QED
  BY <1>7, Ends, PBefore DEF ReplyFailed, TypeOK

LEMMA PReplyUntracked ==
    ASSUME OutboxAssumption, PInv, NEW p \in posts, NEW hung \in BOOLEAN,
           ReplyUntracked(p, hung)
    PROVE  PInv'
PROOF
<1> DEFINE ps == (posts \ {p}) \cup Leftover(p, hung)
           r == p.token
<1>1. Held(sent, outbox, entry, sendQueue, ps, account) /\ r \in Rooms
  BY AnsweredHeld, PBefore
<1>2. [sendQueue EXCEPT ![r] = sendQueue[r]] = sendQueue
  BY <1>1, PBefore
<1>3. SendNextQueued(r, sendQueue[r], outbox, entry, ps)
  BY DEF ReplyUntracked
<1> HIDE DEF ps, r
<1>4. Held(sent, outbox, entry', sendQueue', posts', account) /\ attemptSeq' \in [Msgs -> Nat]
  BY <1>1, <1>2, <1>3, SendNextHeld, PBefore
<1> QED
  BY <1>4, Ends, PBefore DEF ReplyUntracked, TypeOK

\* A POST that is answered with success was stored.
LEMMA PReplyDelivered ==
    ASSUME OutboxAssumption, PInv, NEW p \in posts, ReplyDelivered(p) PROVE PInv'
PROOF
<1> DEFINE m == p.msg
           r == p.token
           ob == outbox \ {m}
           en == Without(m)
           ps == posts \ {p}
           cleared == [x \in Rooms |-> sendQueue[x] \ {m}]
           queue == sendQueue[r] \ {m}
<1>1. /\ r \in Rooms /\ m \in outbox /\ entry[m].token = r /\ outbox' = ob
      /\ copies[m] # {} /\ SendNextQueued(r, queue, ob, en, ps)
  BY PBefore DEF ReplyDelivered, Known
<1>2. Held(sent, ob, en, cleared, ps, account)
  BY <1>1, DropHeld
<1>3. \A x \in Rooms : x # r => m \notin sendQueue[x]
  BY <1>1, PBefore DEF Held
<1>4. [sendQueue EXCEPT ![r] = queue] = cleared
  BY <1>1, <1>3, PBefore
<1>5. /\ \A k \in outbox \ ob : copies[k] # {}
  BY <1>1
<1> HIDE DEF m, r, ob, en, ps, cleared, queue
<1>6. Held(sent, ob, entry', sendQueue', posts', account) /\ attemptSeq' \in [Msgs -> Nat]
  BY <1>1, <1>2, <1>4, SendNextHeld, PBefore
<1> QED
  BY <1>1, <1>5, <1>6, Ends, PBefore DEF ReplyDelivered, TypeOK
-----------------------------------------------------------------------------
(* The server.                                                             *)

LEMMA POthersWrite == ASSUME OutboxAssumption, PInv, NEW r \in Rooms, OthersWrite(r) PROVE PInv'
PROOF
<1>1. newest' \in [Rooms -> Nat]
  BY PBefore DEF OthersWrite, TypeOK
<1> QED
  BY <1>1, Ends, PBefore DEF OthersWrite, client, TypeOK

LEMMA PProbeServed == ASSUME OutboxAssumption, PInv, NEW r \in Rooms, ProbeServed(r) PROVE PInv'
PROOF
<1>1. page' \in [Rooms -> Nat \cup {Unserved}]
  BY PBefore DEF ProbeServed, TypeOK
<1> QED
  BY <1>1, Ends, PBefore DEF ProbeServed, client, TypeOK

\* What is stored has a copy from then on.
LEMMA PServerSave ==
    ASSUME OutboxAssumption, PInv, NEW p \in posts, ServerSave(p) PROVE PInv'
PROOF
<1> DEFINE m == p.msg
           r == p.token
           n == newest[r] + 1
           q == [p EXCEPT !.saved = TRUE]
<1>1. /\ p \in Post /\ m \in Msgs /\ r \in Rooms /\ n \in Nat
      /\ newest \in [Rooms -> Nat] /\ copies \in [Msgs -> SUBSET Nat]
      /\ Known(sent, p, outbox, entry, account)
  BY PBefore DEF Known, Post, TypeOK
<1>2. /\ newest' \in [Rooms -> Nat] /\ copies' \in [Msgs -> SUBSET Nat]
      /\ copies'[m] # {} /\ \A k \in Msgs : copies[k] # {} => copies'[k] # {}
  BY <1>1 DEF ServerSave
<1>3. q \in Post /\ q.msg = m /\ q.token = r /\ q.by = p.by
  BY <1>1 DEF Post
<1>4. ASSUME NEW x \in posts' PROVE Known(sent, x, outbox, entry, account)'
  <2>1. UNCHANGED <<sent, outbox, entry, account>>
    BY DEF ServerSave, client
  <2>2. CASE x \in posts
    <3>1. Known(sent, x, outbox, entry, account) /\ x.msg \in Msgs
      BY <2>2, PBefore
    <3> QED
      BY <1>2, <2>1, <3>1 DEF Known
  <2>3. CASE x = q
    BY <1>1, <1>2, <1>3, <2>1, <2>3 DEF Known
  <2> QED
    BY <1>4, <2>2, <2>3 DEF ServerSave
<1>5. TypeOK'
  <2>1. posts' \subseteq Post
    BY <1>4 DEF Known
  <2> QED
    BY <1>2, <2>1, PBefore DEF ServerSave, client, TypeOK
<1>6. Held(sent, outbox, entry, sendQueue, posts, account)'
  BY <1>4, PBefore DEF ServerSave, client, Held, Mine, Kept
<1>7. NothingLost'
  BY <1>2, PBefore DEF PInv, NothingLost, ServerSave, client, Held
<1> QED
  BY <1>5, <1>6, <1>7 DEF PInv

-----------------------------------------------------------------------------
(* The timer and the probe.                                                *)

LEMMA UnquietHeld ==
    ASSUME OutboxAssumption, NEW r \in Rooms, NEW n, NEW ob, NEW en, NEW queue, NEW ps, NEW who,
           Held(n, ob, en, queue, ps, who)
    PROVE  Held(n, ob, Unquiet(r, en), queue, ps, who)
PROOF
<1>1. \A k \in ob : k \in Msgs /\ Still(en[k], en[k], who)
                    /\ Still(en[k], Quiet(en[k], FALSE), who)
  BY SmallSteps DEF Held
<1>2. \A k \in Msgs \ ob : Unquiet(r, en)[k] = Blank
  BY BlankWaits DEF Held, Unquiet, OutboxAssumption
<1>3. \A k \in ob : Still(en[k], Unquiet(r, en)[k], who)
  BY <1>1 DEF Unquiet
<1>4. \A k \in Msgs : Unquiet(r, en)[k] \in Entry
  BY <1>2, <1>3, BlankWaits DEF Mine, Still
<1>5. Unquiet(r, en) \in [Msgs -> Entry]
  BY <1>4 DEF Unquiet
<1>6. queue \in [Rooms -> SUBSET ob]
  BY DEF Held
<1> QED
  BY <1>2, <1>3, <1>5, <1>6, RestHeld

LEMMA PProbeFailed ==
    ASSUME OutboxAssumption, PInv, NEW r \in Rooms, NEW denied \in BOOLEAN,
           ProbeFailed(r, denied)
    PROVE  PInv'
PROOF
<1> DEFINE en == [m \in Msgs |->
                    IF m \in outbox /\ entry[m].token = r /\ Waiting(entry[m])
                    THEN IF denied THEN GivenUp(entry[m]) ELSE Waits(entry[m], "short")
                    ELSE entry[m]]
<1>1. \A k \in outbox : /\ Still(entry[k], entry[k], account)
                        /\ Still(entry[k], GivenUp(entry[k]), account)
                        /\ Still(entry[k], Waits(entry[k], "short"), account)
  BY PBefore, SmallSteps
<1>2. /\ \A k \in outbox : Still(entry[k], en[k], account)
      /\ \A k \in Msgs \ outbox : en[k] = Blank
  BY <1>1, PBefore
<1>3. \A k \in Msgs : en[k] \in Entry
  BY <1>2, BlankEntry DEF Mine, Still
<1>4. en \in [Msgs -> Entry]
  BY <1>3
<1>5. entry' = Unquiet(r, en)
  BY DEF ProbeFailed
<1> HIDE DEF en
<1>6. Held(sent, outbox, en, sendQueue, posts, account)
  BY <1>2, <1>4, PBefore, RestHeld
<1>7. Held(sent, outbox, entry', sendQueue, posts, account)
  BY <1>5, <1>6, UnquietHeld
<1>8. page' \in [Rooms -> Nat \cup {Unserved}]
  BY PBefore DEF ProbeFailed, TypeOK
<1> QED
  BY <1>7, <1>8, Ends, PBefore DEF ProbeFailed, TypeOK

\* All entries are the account's own: the tick drops none of them.
LEMMA POutboxTick == ASSUME OutboxAssumption, PInv, OutboxTick PROVE PInv'
PROOF
<1> DEFINE mine == {m \in outbox : entry[m].owner = account}
           hanging == {m \in outbox : entry[m].inFlight /\ entry[m].slow
                                       /\ entry[m].owner = account}
           After(x) == [m \in Msgs |-> IF m \notin mine THEN Blank
                                       ELSE IF m \in x
                                       THEN PostFailed(entry[m], "unknown", TRUE)
                                       ELSE entry[m]]
           Started(e) == {r \in Rooms \ probing :
                             \E m \in mine : /\ e[m].token = r /\ headReady(e[m])
                                             /\ IsHead(m, mine, e)}
           Tick(x, e, ts) ==
             /\ outbox' = mine
             /\ attemptSeq' = [m \in Msgs |-> IF m \in x THEN attemptSeq[m] + 1
                                              ELSE attemptSeq[m]]
             /\ sendQueue' = [r \in Rooms |-> IF \E m \in x : entry[m].token = r
                                              THEN {} ELSE sendQueue[r] \cap mine]
             /\ probing' = probing \cup ts
             /\ entry' = [m \in Msgs |-> IF m \in mine /\ e[m].token \in ts
                                         THEN Quiet(e[m], TRUE) ELSE e[m]]
             /\ dropped' = dropped \cup (outbox \ mine)
<1>1. PICK expired \in SUBSET hanging : Tick(expired, After(expired), Started(After(expired)))
  BY DEF OutboxTick
<1> DEFINE en == After(expired)
           started == Started(en)
<1>2. Tick(expired, en, started) /\ started \subseteq Rooms
  BY <1>1
<1>3. mine = outbox /\ outbox \subseteq Msgs
  BY PBefore DEF Mine
<1>4. \A k \in outbox : /\ Still(entry[k], entry[k], account)
                        /\ Still(entry[k], PostFailed(entry[k], "unknown", TRUE), account)
  BY PBefore, SmallSteps, PostFailedMine DEF Failures
<1>5. /\ \A k \in outbox : Still(entry[k], en[k], account)
      /\ \A k \in Msgs \ outbox : en[k] = Blank
  BY <1>3, <1>4
<1>6. \A k \in outbox : Mine(en[k], account)
  BY <1>5 DEF Still
<1>7. attemptSeq' \in [Msgs -> Nat]
  BY <1>2, PBefore
<1>8. /\ sendQueue' \in [Rooms -> SUBSET outbox]
      /\ \A r \in Rooms : sendQueue'[r] \subseteq sendQueue[r]
  BY <1>2, PBefore
<1> HIDE DEF en, started, mine
<1>9. \A k \in outbox : Still(entry[k], entry'[k], account)
  <2>1. ASSUME NEW k \in outbox PROVE Still(entry[k], entry'[k], account)
    <3>1. Still(en[k], Quiet(en[k], TRUE), account)
      BY <1>6, SmallSteps
    <3>2. entry'[k] = Quiet(en[k], TRUE) \/ entry'[k] = en[k]
      BY <1>2, <1>3
    <3> QED
      BY <1>5, <3>1, <3>2 DEF Still
  <2> QED
    BY <2>1
<1>10. \A k \in Msgs \ outbox : entry'[k] = Blank
  BY <1>2, <1>3, <1>5
<1>11. entry' \in [Msgs -> Entry]
  <2>1. \A k \in Msgs : entry'[k] \in Entry
    BY <1>9, <1>10, BlankEntry DEF Mine, Still
  <2>2. entry' = [k \in Msgs |-> entry'[k]]
    BY <1>2
  <2> QED
    BY <2>1, <2>2
<1>12. Held(sent, outbox, entry', sendQueue', posts, account)
  BY <1>8, <1>9, <1>10, <1>11, PBefore, RestHeld
<1>13. /\ outbox' = outbox /\ dropped' = dropped /\ probing' \subseteq Rooms
       /\ UNCHANGED <<sent, page, token, account, posts, newest, copies, retries, forced>>
  <2>1. UNCHANGED <<sent, page, token, account, posts, newest, copies, retries, forced>>
    BY DEF OutboxTick
  <2>2. /\ outbox' = mine /\ dropped' = dropped \cup (outbox \ mine)
        /\ probing' = probing \cup started
    BY <1>2
  <2>3. probing \subseteq Rooms /\ started \subseteq Rooms
    BY <1>2, PBefore DEF TypeOK
  <2> QED
    BY <1>3, <2>1, <2>2, <2>3
<1> QED
  BY <1>7, <1>12, <1>13, Ends, PBefore DEF TypeOK

\* A probe lets go of what it has found on its page.
LEMMA PProbeAnswered ==
    ASSUME OutboxAssumption, PInv, NEW r \in Rooms, ProbeAnswered(r) PROVE PInv'
PROOF
<1> DEFINE n == page[r]
           judged == {m \in outbox : /\ entry[m].token = r /\ Waiting(entry[m])
                                     /\ entry[m].quiet}
           delivered == {m \in judged : afterProbe(m, n) = "MarkDelivered"}
           toSend == {m \in judged : afterProbe(m, n) = "Resend"}
           giveUp == {m \in judged : afterProbe(m, n) = "GiveUp"}
           left == outbox \ delivered
           raw == [m \in Msgs |-> IF m \in delivered THEN Blank
                                  ELSE IF m \in giveUp THEN GivenUp(entry[m])
                                  ELSE entry[m]]
           en == Unquiet(r, raw)
           rest == [sendQueue EXCEPT ![r] = @ \ delivered]
           queue == [sendQueue EXCEPT ![r] = toSend]
<1>1. /\ n # Unserved /\ probing' = probing \ {r} /\ page' = [page EXCEPT ![r] = Unserved]
      /\ outbox' = left
      /\ forced' = forced \cup {m \in toSend : /\ entry[m].everPosted
                                               /\ probeVerdict(m, n) = "Inconclusive"}
      /\ IF toSend # {} THEN SendNextQueued(r, toSend, left, en, posts)
         ELSE entry' = en /\ sendQueue' = rest /\ UNCHANGED <<attemptSeq, posts>>
      /\ UNCHANGED <<sent, token, account, newest, copies, retries, dropped>>
  BY DEF ProbeAnswered
<1>2. /\ judged \subseteq outbox /\ left \subseteq outbox /\ delivered \subseteq judged
      /\ toSend \subseteq left /\ outbox \subseteq Msgs
      /\ \A m \in judged : entry[m].token = r
      /\ delivered \cap giveUp = {}
  BY PBefore
<1>3. n \in Nat
  BY <1>1, PBefore DEF TypeOK
<1>4. \A m \in delivered : copies[m] # {}
  <2>1. ASSUME NEW m \in delivered, copies[m] = {} PROVE FALSE
    <3>1. probeVerdict(m, n) \in {"Absent", "Inconclusive"}
      BY <1>3, <2>1 DEF probeVerdict
    <3>2. afterProbe(m, n) \in {"Resend", "GiveUp"}
      BY <3>1 DEF afterProbe
    <3> QED
      BY <2>1, <3>2
  <2> QED
    BY <2>1
<1>5. \A k \in outbox : /\ Still(entry[k], entry[k], account)
                        /\ Still(entry[k], GivenUp(entry[k]), account)
  BY PBefore, SmallSteps
<1>6. /\ \A k \in left : Still(entry[k], raw[k], account)
      /\ \A k \in Msgs \ left : raw[k] = Blank
  BY <1>2, <1>5, PBefore
<1>7. \A k \in Msgs : raw[k] \in Entry
  BY <1>6, BlankEntry DEF Mine, Still
<1>8. raw \in [Msgs -> Entry]
  BY <1>7
<1>9. \A x \in Rooms : x # r => sendQueue[x] \cap judged = {}
  BY <1>2, PBefore DEF Held
<1>10. /\ rest \in [Rooms -> SUBSET left] /\ \A x \in Rooms : rest[x] \subseteq sendQueue[x]
  <2> HIDE DEF delivered
  <2> QED
    BY <1>2, <1>9, PBefore
<1> HIDE DEF raw, judged, delivered, toSend, giveUp, left, rest, n
<1>11. Held(sent, left, raw, rest, posts, account)
  BY <1>2, <1>6, <1>8, <1>10, PBefore, RestHeld
<1>12. Held(sent, left, raw, queue, posts, account)
  <2>1. /\ queue \in [Rooms -> SUBSET left] /\ queue[r] = toSend
        /\ \A x \in Rooms : x # r => queue[x] = rest[x]
    BY <1>2, <1>10, PBefore DEF rest
  <2>2. \A m \in toSend : raw[m].token = r
    <3>1. \A m \in toSend : m \in left /\ m \in judged
      BY <1>2 DEF toSend
    <3> QED
      BY <1>2, <1>6, <3>1 DEF Still
  <2> QED
    BY <1>11, <2>1, <2>2 DEF Held
<1>13. Held(sent, left, en, rest, posts, account) /\ Held(sent, left, en, queue, posts, account)
  <2>1. Held(sent, left, en, rest, posts, account)
    BY <1>11, UnquietHeld
  <2> HIDE DEF queue
  <2>2. Held(sent, left, en, queue, posts, account)
    BY <1>12, UnquietHeld
  <2> QED
    BY <2>1, <2>2
<1> HIDE DEF en
<1>14. Held(sent, left, entry', sendQueue', posts', account) /\ attemptSeq' \in [Msgs -> Nat]
  <2>1. CASE toSend = {}
    BY <1>1, <1>13, <2>1, PBefore
  <2>2. CASE toSend # {}
    BY <1>1, <1>13, <2>2, SendNextHeld, PBefore
  <2> QED
    BY <2>1, <2>2
<1>15. /\ forced' \subseteq Msgs /\ probing' \subseteq Rooms
       /\ page' \in [Rooms -> Nat \cup {Unserved}]
  <2>1. toSend \subseteq Msgs
    BY <1>2
  <2> QED
    BY <1>1, <2>1, PBefore DEF TypeOK
<1>16. \A m \in outbox \ left : copies[m] # {}
  BY <1>4 DEF left
<1> QED
  BY <1>1, <1>14, <1>15, <1>16, Ends, PBefore DEF TypeOK

-----------------------------------------------------------------------------
(* A new message.                                                          *)

LEMMA PSendMessage == ASSUME OutboxAssumption, PInv, NEW m \in Msgs, SendMessage(m) PROVE PInv'
PROOF
<1>1. PICK known \in 0..newest[token] :
         LET en == [entry EXCEPT ![m] = Composed(known)]
         IN IF behindOlder(token)
            THEN entry' = Kicked(en) /\ UNCHANGED <<attemptSeq, posts>>
            ELSE StartAttempt(m, en, posts)
  BY DEF SendMessage
<1> DEFINE en == [entry EXCEPT ![m] = Composed(known)]
           ob == outbox \cup {m}
<1>2. /\ token \in Rooms /\ account \in Accounts /\ m = sent + 1 /\ sent' = m /\ outbox' = ob
      /\ sent \in Nat /\ sent' \in 0..MaxMsgs /\ known \in Nat
      /\ UNCHANGED <<sendQueue, probing, page, token, account, newest, copies,
                     retries, forced, dropped>>
  BY PBefore DEF SendMessage, TypeOK, Msgs, OutboxAssumption
<1>3. Mine(Composed(known), account) /\ Waiting(Composed(known))
  BY <1>2, ComposedMine
<1>4. /\ en \in [Msgs -> Entry] /\ en[m] = Composed(known)
      /\ \A k \in Msgs : k # m => en[k] = entry[k]
  BY <1>3, PBefore DEF Mine
<1>5. /\ m \notin outbox /\ ob \subseteq 1..m /\ 1..m \subseteq Msgs /\ m \in Nat
  BY <1>2, PBefore DEF Msgs
<1>6. \A p \in posts : p.msg # m /\ p.msg <= m /\ p.msg \in Msgs
  BY <1>2, PBefore DEF Known, Msgs
<1>7. \A k \in ob : Mine(en[k], account)
  BY <1>3, <1>4, <1>5, PBefore
<1>8. \A k \in Msgs \ ob : en[k] = Blank
  BY <1>4, PBefore
<1>9. sendQueue \in [Rooms -> SUBSET ob] /\ \A r \in Rooms : \A k \in sendQueue[r] : en[k].token = r
  BY <1>4, <1>5, PBefore DEF Held
<1>10. \A p \in posts : Known(m, p, ob, en, account)
  <2>1. ASSUME NEW p \in posts PROVE Known(m, p, ob, en, account)
    <3>1. Known(sent, p, outbox, entry, account) /\ p.msg # m /\ p.msg <= m /\ p.msg \in Msgs
      BY <1>6, PBefore
    <3> QED
      BY <1>4, <3>1 DEF Known
  <2> QED
    BY <2>1
<1> HIDE DEF en
<1>11. Held(m, ob, en, sendQueue, posts, account)
  BY <1>4, <1>5, <1>7, <1>8, <1>9, <1>10 DEF Held
<1>12. Held(m, ob, entry', sendQueue', posts', account) /\ attemptSeq' \in [Msgs -> Nat]
  <2>1. CASE behindOlder(token)
    <3>1. entry' = Kicked(en) /\ UNCHANGED <<attemptSeq, posts>>
      BY <1>1, <2>1 DEF en
    <3> QED
      BY <1>2, <1>11, <3>1, KickedHeld, PBefore
  <2>2. CASE ~behindOlder(token)
    <3>1. StartAttempt(m, en, posts)
      BY <1>1, <2>2 DEF en
    <3>2. m \in ob /\ Waiting(en[m])
      BY <1>3, <1>4
    <3> HIDE DEF ob
    <3> QED
      BY <1>2, <1>11, <3>1, <3>2, StartHeld, PBefore
  <2> QED
    BY <2>1, <2>2
<1>13. \A k \in 1..sent' : k = m \/ k \in 1..sent
  BY <1>2
<1>14. NothingLost'
  BY <1>2, <1>13 DEF PInv, NothingLost
<1>15. posts' \subseteq Post
  BY <1>12 DEF Held, Known
<1>16. TypeOK'
  <2>1. outbox' \subseteq 1..sent'
    BY <1>2, <1>5
  <2> QED
    BY <1>2, <1>12, <1>15, <2>1, PBefore DEF TypeOK, Held
<1>17. Held(sent, outbox, entry, sendQueue, posts, account)'
  <2>1. Held(sent', outbox', entry', sendQueue', posts', account')
    BY <1>2, <1>12
  <2> QED
    BY <1>2, <2>1 DEF Held, Known, Mine, Kept
<1> QED
  BY <1>14, <1>16, <1>17 DEF PInv

-----------------------------------------------------------------------------
(* Every reachable state.                                                  *)

LEMMA PStutter == ASSUME PInv, UNCHANGED vars PROVE PInv'
PROOF
BY DEF vars, client, PInv, TypeOK, Held, Known, Mine, Kept, NothingLost

LEMMA PNext == ASSUME OutboxAssumption, PInv, Next PROVE PInv'
PROOF
<1>1. CASE User
  BY <1>1, PSendMessage, PRetryMessage, PDiscardFailed, POpenRoom, PKickOutbox, PLogout, PLogin
     DEF User
<1>2. CASE Network
  <2>1. CASE \E p \in posts : ServerSave(p)
    BY <2>1, PServerSave
  <2>2. CASE \E p \in posts : Reply(p)
    BY <2>2, PReplyUntracked, PReplyStale, PReplyDelivered, PReplyFailed DEF Reply
  <2>3. CASE \E m \in Msgs : Echo(m)
    BY <2>3, PEcho
  <2>4. CASE \E r \in Rooms : \/ OthersWrite(r) \/ ProbeServed(r) \/ ProbeAnswered(r)
                              \/ \E denied \in BOOLEAN : ProbeFailed(r, denied)
    BY <2>4, POthersWrite, PProbeServed, PProbeAnswered, PProbeFailed
  <2> QED
    BY <1>2, <2>1, <2>2, <2>3, <2>4 DEF Network
<1>3. CASE Timers
  BY <1>3, PAttemptSlow, PDeadlinePasses, POutboxTick DEF Timers
<1> QED
  BY <1>1, <1>2, <1>3 DEF Next

\* PInv is inductive, whether or not the server stores messages late.
THEOREM SpecPInv == Spec => []PInv
PROOF
<1>1. Init => PInv
  BY PInit, OutboxAssumption
<1>2. PInv /\ [Next]_vars => PInv'
  BY PNext, PStutter, OutboxAssumption
<1> QED
  BY <1>1, <1>2, PTL DEF Spec

\* Type correctness of the outbox, whatever the server does with a late POST.
THEOREM SpecTyped == Spec => []TypeOK
PROOF
<1>1. PInv => TypeOK
  BY DEF PInv
<1> QED
  BY <1>1, SpecPInv, PTL

\* No reply, echo, probe verdict or tick loses a message (NothingLost): it is on
\* the server, in the outbox, or the user let it go.
THEOREM SpecNothingLost == Spec => []NothingLost
PROOF
<1>1. PInv => NothingLost
  BY DEF PInv
<1> QED
  BY <1>1, SpecPInv, PTL

\* The automatic POSTs of a message stay within its budget (postAttemptBudget).
THEOREM SpecBudgetKept == Spec => []BudgetKept
PROOF
<1>1. PInv => BudgetKept
  BY PBefore DEF BudgetKept, Mine, Kept
<1> QED
  BY <1>1, SpecPInv, PTL

\* Every POST of a message the outbox holds carries the account that wrote it
\* (clearOutbox at logout lets no entry reach the next session).
THEOREM SpecOwnAccount == Spec => []OwnAccount
PROOF
<1>1. PInv => OwnAccount
  BY PBefore DEF OwnAccount, Mine, Known
<1> QED
  BY <1>1, SpecPInv, PTL

-----------------------------------------------------------------------------
(* The outbox implements the mailbox, when the server stores nothing after *)
(* a POST has failed.                                                      *)

\* A message that was given up is not in flight.
Calm(e) == ~(e.inFlight /\ e.permanent)

\* What the two invariants leave open: copies can be counted, a new id is new to
\* every message with a POST, also to one that has left the outbox.
Extra ==
    /\ \A m \in Msgs : IsFiniteSet(copies[m])
    /\ \A p, q \in posts : p.msg = q.msg => p.token = q.token
    /\ \A p \in posts : \A i \in copies[p.msg] : i <= newest[p.token]
    /\ \A m \in outbox : Calm(entry[m])

RInv == IInv /\ PInv /\ Extra

\* What a step has to do.
Implemented == Extra' /\ [Box!MailboxNext]_(Box!box)

-----------------------------------------------------------------------------
(* The invariant.                                                          *)

LEMMA RBefore ==
    ASSUME RInv
    PROVE  /\ outbox \subseteq Msgs /\ outbox \subseteq 1..sent
           /\ entry \in [Msgs -> Entry] /\ posts \subseteq Post
           /\ \A m \in outbox : Calm(entry[m]) /\ entry[m] \in Entry /\ m \in Msgs
           /\ newest \in [Rooms -> Nat] /\ copies \in [Msgs -> SUBSET Nat] /\ sent \in Nat
PROOF
<1>1. PInv /\ TypeOK /\ Extra
  BY DEF RInv, PInv
<1>2. /\ posts \subseteq Post /\ newest \in [Rooms -> Nat]
      /\ copies \in [Msgs -> SUBSET Nat] /\ sent \in Nat
  BY <1>1 DEF TypeOK
<1>3. /\ outbox \subseteq Msgs /\ outbox \subseteq 1..sent /\ entry \in [Msgs -> Entry]
  BY <1>1, PBefore
<1> QED
  BY <1>1, <1>2, <1>3 DEF Extra

\* The POSTs of a message the outbox holds are known to fit; the others are old.
LEMMA ExtraKept ==
    ASSUME RInv, IInv', copies' = copies, \A r \in Rooms : newest[r] <= newest'[r],
           \A p \in posts' : \/ p.msg \in outbox'
                             \/ \E q \in posts : q.msg = p.msg /\ q.token = p.token,
           \A m \in outbox' : Calm(entry'[m])
    PROVE  Extra'
PROOF
<1>1. \A p \in posts' : p.msg \in outbox' =>
         /\ p.token = entry'[p.msg].token
         /\ \A i \in copies'[p.msg] : i <= newest'[entry'[p.msg].token]
  BY DEF IInv, OutboxInv, PostsInv, CopiesInv
<1>2. \A p \in posts' : p.msg \notin outbox' =>
         \E q \in posts : q.msg = p.msg /\ q.token = p.token
  OBVIOUS
<1>3. \A p, q \in posts' : p.msg = q.msg => p.token = q.token
  BY <1>1, <1>2 DEF RInv, Extra
<1>4. ASSUME NEW p \in posts', NEW i \in copies'[p.msg] PROVE i <= newest'[p.token]
  <2>1. CASE p.msg \in outbox'
    BY <1>1, <1>4, <2>1
  <2>2. CASE p.msg \notin outbox'
    <3>1. PICK q \in posts : q.msg = p.msg /\ q.token = p.token
      BY <1>2, <2>2
    <3>2. i <= newest[q.token] /\ q.token \in Rooms /\ q.msg \in Msgs
      BY <1>4, <3>1, RBefore DEF RInv, Extra, Post
    <3>3. /\ i \in Nat /\ newest[q.token] \in Nat /\ newest'[q.token] \in Nat
          /\ newest[q.token] <= newest'[q.token]
      <4>1. newest' \in [Rooms -> Nat]
        BY DEF IInv, TypeOK
      <4> QED
        BY <1>4, <3>1, <3>2, <4>1, RBefore
    <3> QED
      BY <3>1, <3>2, <3>3
  <2> QED
    BY <2>1, <2>2
<1> QED
  BY <1>3, <1>4 DEF Extra, RInv

-----------------------------------------------------------------------------
(* Steps of the mailbox.                                                   *)

LEMMA BoxStutters ==
    ASSUME UNCHANGED <<sent, outbox, copies, forced, dropped>>,
           \A m \in outbox : entry'[m].permanent = entry[m].permanent
    PROVE  [Box!MailboxNext]_(Box!box)
PROOF
<1>1. {m \in outbox' : entry'[m].permanent} = {m \in outbox : entry[m].permanent}
  OBVIOUS
<1>2. [m \in Msgs |-> Cardinality(copies'[m])] = [m \in Msgs |-> Cardinality(copies[m])]
  OBVIOUS
<1> QED
  BY <1>1, <1>2 DEF Box!box

LEMMA BoxReconciles ==
    ASSUME RInv, NEW confirmed \in SUBSET outbox, NEW givenUp \in SUBSET outbox,
           NEW force \in SUBSET outbox,
           \A m \in confirmed : copies[m] # {},
           \A m \in givenUp : ~entry[m].permanent /\ m \notin confirmed,
           \A m \in force : ~entry[m].permanent,
           outbox' = outbox \ confirmed, forced' = forced \cup force,
           \A m \in outbox' : entry'[m].permanent <=> (entry[m].permanent \/ m \in givenUp),
           UNCHANGED <<sent, copies, dropped>>
    PROVE  [Box!MailboxNext]_(Box!box)
PROOF
<1> DEFINE failed == {m \in outbox : entry[m].permanent}
           stored == [m \in Msgs |-> Cardinality(copies[m])]
<1>1. {m \in outbox' : entry'[m].permanent} = (failed \ confirmed) \cup givenUp
  OBVIOUS
<1>2. confirmed \subseteq {m \in outbox : stored[m] > 0}
  <2>1. ASSUME NEW m \in confirmed PROVE Cardinality(copies[m]) > 0
    <3>1. m \in Msgs /\ IsFiniteSet(copies[m]) /\ copies[m] # {}
      BY <2>1, RBefore DEF RInv, Extra
    <3>2. Cardinality(copies[m]) \in Nat /\ Cardinality(copies[m]) # 0
      BY <3>1, FS_CardinalityType, FS_EmptySet
    <3> QED
      BY <3>2
  <2> QED
    BY <2>1, RBefore
<1>3. [m \in Msgs |-> Cardinality(copies'[m])] = stored
  OBVIOUS
<1>4. givenUp \subseteq outbox \ (failed \cup confirmed) /\ force \subseteq outbox \ failed
  OBVIOUS
<1>5. Box!Reconcile(confirmed, givenUp, force)
  BY <1>1, <1>2, <1>3, <1>4 DEF Box!Reconcile
<1> QED
  BY <1>5 DEF Box!MailboxNext

\* Messages are confirmed, nobody is given up.
LEMMA BoxConfirms ==
    ASSUME RInv, NEW m \in outbox, copies[m] # {}, outbox' = outbox \ {m},
           \A k \in outbox' : entry'[k].permanent = entry[k].permanent,
           UNCHANGED <<sent, copies, forced, dropped>>
    PROVE  [Box!MailboxNext]_(Box!box)
PROOF
<1> DEFINE none == {}
           confirmed == {m}
<1>1. /\ none \in SUBSET outbox /\ forced' = forced \cup none
      /\ \A k \in none : ~entry[k].permanent /\ k \notin confirmed
      /\ \A k \in outbox' : entry'[k].permanent <=> (entry[k].permanent \/ k \in none)
  OBVIOUS
<1>2. /\ confirmed \in SUBSET outbox /\ outbox' = outbox \ confirmed
      /\ \A k \in confirmed : copies[k] # {}
  OBVIOUS
<1> HIDE DEF none, confirmed
<1> QED
  BY <1>1, <1>2, BoxReconciles

\* Messages are given up, nobody is confirmed.
LEMMA BoxGivesUp ==
    ASSUME RInv, NEW givenUp \in SUBSET outbox, \A k \in givenUp : ~entry[k].permanent,
           \A k \in outbox : entry'[k].permanent <=> (entry[k].permanent \/ k \in givenUp),
           UNCHANGED <<sent, outbox, copies, forced, dropped>>
    PROVE  [Box!MailboxNext]_(Box!box)
PROOF
<1> DEFINE none == {}
<1>1. /\ none \in SUBSET outbox /\ forced' = forced \cup none /\ outbox' = outbox \ none
      /\ \A k \in none : copies[k] # {} /\ ~entry[k].permanent
      /\ \A k \in givenUp : k \notin none
  OBVIOUS
<1> HIDE DEF none
<1> QED
  BY <1>1, BoxReconciles

LEMMA BoxAbandons ==
    ASSUME NEW gone \in SUBSET outbox, outbox' = outbox \ gone, dropped' = dropped \cup gone,
           \A m \in outbox' : entry'[m].permanent = entry[m].permanent,
           UNCHANGED <<sent, copies, forced>>
    PROVE  [Box!MailboxNext]_(Box!box)
PROOF
<1>1. {m \in outbox' : entry'[m].permanent} = {m \in outbox : entry[m].permanent} \ gone
  OBVIOUS
<1>2. [m \in Msgs |-> Cardinality(copies'[m])] = [m \in Msgs |-> Cardinality(copies[m])]
  OBVIOUS
<1>3. Box!Abandon(gone)
  BY <1>1, <1>2 DEF Box!Abandon
<1> QED
  BY <1>3 DEF Box!MailboxNext

LEMMA BoxRevives ==
    ASSUME RInv, NEW m \in outbox, entry[m].permanent, ~entry'[m].permanent,
           \A k \in outbox : k # m => entry'[k].permanent = entry[k].permanent,
           UNCHANGED <<sent, outbox, copies, forced, dropped>>
    PROVE  [Box!MailboxNext]_(Box!box)
PROOF
<1>1. /\ m \in {k \in outbox : entry[k].permanent}
      /\ {k \in outbox' : entry'[k].permanent} = {k \in outbox : entry[k].permanent} \ {m}
  OBVIOUS
<1>2. [k \in Msgs |-> Cardinality(copies'[k])] = [k \in Msgs |-> Cardinality(copies[k])]
  OBVIOUS
<1>3. Box!Revive(m) /\ m \in Msgs
  BY <1>1, <1>2, RBefore DEF Box!Revive
<1> QED
  BY <1>3 DEF Box!MailboxNext

-----------------------------------------------------------------------------
(* Handlers whose effect on the mailbox is none.                           *)

\* Entries move on, nobody is given up or revived, no POST goes out.
LEMMA QuietlyImplemented ==
    ASSUME RInv, IInv', UNCHANGED <<sent, outbox, posts, newest, copies, forced, dropped>>,
           \A m \in outbox : /\ entry'[m].permanent = entry[m].permanent
                             /\ entry'[m].inFlight = entry[m].inFlight
    PROVE  Implemented
PROOF
<1>1. \A r \in Rooms : newest[r] <= newest'[r]
  BY RBefore
<1>2. \A m \in outbox' : Calm(entry'[m])
  BY RBefore DEF Calm
<1>3. Extra'
  BY <1>1, <1>2, ExtraKept
<1> QED
  BY <1>3, BoxStutters DEF Implemented

LEMMA WaitsCalm ==
    \A e \in Entry, w \in {"due", "short", "settle"} :
        Waits(e, w).permanent = e.permanent /\ Waits(e, w).inFlight = e.inFlight
PROOF
BY DEF Waits, Entry

LEMMA KickedCalm ==
    ASSUME NEW en \in [Msgs -> Entry], NEW m \in Msgs
    PROVE  /\ Kicked(en)[m].permanent = en[m].permanent
           /\ Kicked(en)[m].inFlight = en[m].inFlight
PROOF
BY WaitsCalm DEF Kicked

LEMMA RAttemptSlow == ASSUME RInv, IInv', NEW m \in Msgs, AttemptSlow(m) PROVE Implemented
PROOF
<1>1. \A k \in outbox : /\ entry'[k].permanent = entry[k].permanent
                        /\ entry'[k].inFlight = entry[k].inFlight
  BY RBefore DEF AttemptSlow, Slowed, Entry
<1> QED
  BY <1>1, QuietlyImplemented DEF AttemptSlow

LEMMA RDeadlinePasses == ASSUME RInv, IInv', NEW m \in Msgs, DeadlinePasses(m) PROVE Implemented
PROOF
<1>1. \A k \in outbox : /\ entry'[k].permanent = entry[k].permanent
                        /\ entry'[k].inFlight = entry[k].inFlight
  BY RBefore, WaitsCalm DEF DeadlinePasses
<1> QED
  BY <1>1, QuietlyImplemented DEF DeadlinePasses

LEMMA RKickOutbox == ASSUME RInv, IInv', KickOutbox PROVE Implemented
PROOF
<1>1. \A k \in outbox : /\ entry'[k].permanent = entry[k].permanent
                        /\ entry'[k].inFlight = entry[k].inFlight
  BY RBefore, KickedCalm DEF KickOutbox
<1> QED
  BY <1>1, QuietlyImplemented DEF KickOutbox

LEMMA ROpenRoom ==
    ASSUME RInv, IInv', NEW r \in Rooms \cup {NoRoom}, OpenRoom(r) PROVE Implemented
PROOF
<1>1. \A k \in outbox : /\ entry'[k].permanent = entry[k].permanent
                        /\ entry'[k].inFlight = entry[k].inFlight
  BY RBefore, KickedCalm DEF OpenRoom
<1> QED
  BY <1>1, QuietlyImplemented DEF OpenRoom

LEMMA RLogin == ASSUME RInv, IInv', NEW a \in Accounts, Login(a) PROVE Implemented
PROOF
BY QuietlyImplemented DEF Login

LEMMA RProbeServed == ASSUME RInv, IInv', NEW r \in Rooms, ProbeServed(r) PROVE Implemented
PROOF
BY QuietlyImplemented DEF ProbeServed, client

LEMMA ROthersWrite == ASSUME RInv, IInv', NEW r \in Rooms, OthersWrite(r) PROVE Implemented
PROOF
<1>1. \A x \in Rooms : newest[x] <= newest'[x]
  BY RBefore DEF OthersWrite
<1>2. Extra'
  BY <1>1, RBefore, ExtraKept DEF OthersWrite, client
<1> QED
  BY <1>2, BoxStutters DEF Implemented, OthersWrite, client

-----------------------------------------------------------------------------
(* The user.                                                               *)

LEMMA RRetryMessage ==
    ASSUME RInv, IInv', NEW m \in Msgs, RetryMessage(m) PROVE Implemented
PROOF
<1>1. \A k \in outbox : /\ k # m => /\ entry'[k].permanent = entry[k].permanent
                                    /\ entry'[k].inFlight = entry[k].inFlight
                        /\ k = m => entry'[k].permanent = FALSE
  <2>1. \A k \in outbox : Retried(entry[k]).permanent = FALSE
    BY RBefore DEF Retried, Entry
  <2>2. \A k \in outbox : /\ Waits(entry[k], "due").permanent = entry[k].permanent
                          /\ Waits(entry[k], "due").inFlight = entry[k].inFlight
    BY RBefore, WaitsCalm
  <2> QED
    BY <2>1, <2>2, RBefore DEF RetryMessage
<1>2. /\ m \in outbox /\ UNCHANGED <<sent, outbox, posts, newest, copies, forced, dropped>>
  BY DEF RetryMessage
<1>3. Extra'
  <2>1. \A k \in outbox' : Calm(entry'[k])
    BY <1>1, <1>2, RBefore DEF Calm
  <2>2. \A r \in Rooms : newest[r] <= newest'[r]
    BY <1>2, RBefore
  <2> QED
    BY <1>2, <2>1, <2>2, ExtraKept
<1>4. CASE entry[m].permanent
  BY <1>1, <1>2, <1>3, <1>4, BoxRevives DEF Implemented
<1>5. CASE ~entry[m].permanent
  <2>1. \A k \in outbox : entry'[k].permanent = entry[k].permanent
    <3>1. entry[m].permanent = FALSE
      BY <1>2, <1>5, RBefore DEF Entry
    <3> QED
      BY <1>1, <3>1
  <2> QED
    BY <1>2, <1>3, <2>1, BoxStutters DEF Implemented
<1> QED
  BY <1>4, <1>5

\* Nothing but that messages leave the outbox.
LEMMA ExtraLess ==
    ASSUME RInv, IInv', UNCHANGED <<posts, newest, copies>>, outbox' \subseteq outbox,
           \A k \in outbox' : entry'[k] = entry[k]
    PROVE  Extra'
PROOF
<1>1. \A r \in Rooms : newest[r] <= newest'[r]
  BY RBefore
<1>2. \A k \in outbox' : Calm(entry'[k])
  BY RBefore
<1> QED
  BY <1>1, <1>2, ExtraKept

LEMMA DropLeaves ==
    ASSUME RInv, NEW m \in outbox, Drop(m)
    PROVE  outbox' = outbox \ {m} /\ \A k \in outbox' : entry'[k] = entry[k]
PROOF
BY RBefore DEF Drop, Without

LEMMA RDiscardFailed ==
    ASSUME RInv, IInv', NEW m \in Msgs, DiscardFailed(m) PROVE Implemented
PROOF
<1>1. /\ m \in outbox /\ Drop(m) /\ dropped' = dropped \cup {m}
      /\ UNCHANGED <<sent, posts, newest, copies, forced>>
  BY DEF DiscardFailed
<1>2. outbox' = outbox \ {m} /\ \A k \in outbox' : entry'[k] = entry[k]
  BY <1>1, DropLeaves
<1>3. Extra'
  BY <1>1, <1>2, ExtraLess
<1> QED
  BY <1>1, <1>2, <1>3, BoxAbandons DEF Implemented

LEMMA RLogout == ASSUME RInv, IInv', Logout PROVE Implemented
PROOF
<1>1. /\ outbox' = {} /\ dropped' = dropped \cup outbox
      /\ UNCHANGED <<sent, posts, newest, copies, forced>>
  BY DEF Logout
<1>2. Extra'
  BY <1>1, ExtraLess
<1>3. outbox' = outbox \ outbox
  BY <1>1
<1> QED
  BY <1>1, <1>2, <1>3, BoxAbandons DEF Implemented

\* A POST goes out: it is of a message of the outbox, which is not given up.
LEMMA StartCalm ==
    ASSUME NEW ob, ob \subseteq Msgs, NEW en \in [Msgs -> Entry], NEW ps, NEW m \in ob,
           Waiting(en[m]), StartAttempt(m, en, ps)
    PROVE  /\ \A k \in ob : /\ entry'[k].permanent = en[k].permanent
                            /\ Calm(en[k]) => Calm(entry'[k])
           /\ \A p \in posts' : p \in ps \/ p.msg \in ob
PROOF
<1>1. entry' = [en EXCEPT ![m] = Posted(@)]
  BY DEF StartAttempt
<1>2. en[m] \in Entry
  OBVIOUS
<1>3. Posted(en[m]).permanent = en[m].permanent /\ ~en[m].permanent
  BY <1>2 DEF Posted, Entry, Waiting
<1>4. \A k \in ob : /\ entry'[k].permanent = en[k].permanent
                    /\ Calm(en[k]) => Calm(entry'[k])
  BY <1>1, <1>3 DEF Calm
<1>5. \A p \in posts' : p \in ps \/ p.msg \in ob
  BY DEF StartAttempt
<1> QED
  BY <1>4, <1>5

LEMMA SendNextCalm ==
    ASSUME NEW ob, ob \subseteq Msgs, NEW en \in [Msgs -> Entry], NEW ps, NEW r, NEW queue,
           SendNextQueued(r, queue, ob, en, ps)
    PROVE  /\ \A k \in ob : /\ entry'[k].permanent = en[k].permanent
                            /\ Calm(en[k]) => Calm(entry'[k])
           /\ \A p \in posts' : p \in ps \/ p.msg \in ob
PROOF
<1>1. CASE entry' = en /\ posts' = ps
  BY <1>1
<1>2. ASSUME NEW m \in queue, Sendable(m, ob, en), StartAttempt(m, en, ps)
      PROVE  /\ \A k \in ob : /\ entry'[k].permanent = en[k].permanent
                              /\ Calm(en[k]) => Calm(entry'[k])
             /\ \A p \in posts' : p \in ps \/ p.msg \in ob
  BY <1>2, StartCalm DEF Sendable
<1> QED
  BY <1>1, <1>2 DEF SendNextQueued

LEMMA RSendMessage ==
    ASSUME OutboxAssumption, RInv, IInv', NEW m \in Msgs, SendMessage(m) PROVE Implemented
PROOF
<1>1. PICK known \in 0..newest[token] :
         LET en == [entry EXCEPT ![m] = Composed(known)]
         IN IF behindOlder(token)
            THEN entry' = Kicked(en) /\ UNCHANGED <<attemptSeq, posts>>
            ELSE StartAttempt(m, en, posts)
  BY DEF SendMessage
<1> DEFINE en == [entry EXCEPT ![m] = Composed(known)]
           ob == outbox \cup {m}
<1>2. /\ token \in Rooms /\ account \in Accounts /\ m = sent + 1 /\ sent' = m
      /\ outbox' = ob /\ known \in Nat
      /\ UNCHANGED <<newest, copies, forced, dropped>>
  BY PBefore, RBefore DEF SendMessage, RInv, TypeOK, OutboxAssumption
<1>3. m \notin outbox /\ ob \subseteq Msgs
  BY <1>2, RBefore
<1>4. Composed(known) \in Entry /\ Waiting(Composed(known))
  BY <1>2, ComposedMine DEF Mine
<1>5. /\ en \in [Msgs -> Entry] /\ en[m] = Composed(known)
      /\ \A k \in outbox : en[k] = entry[k]
  BY <1>3, <1>4, RBefore
<1>6. \A k \in ob : Calm(en[k])
  BY <1>3, <1>4, <1>5, RBefore DEF Calm, Waiting
<1> HIDE DEF en
<1>7. /\ \A k \in ob : entry'[k].permanent = en[k].permanent /\ Calm(entry'[k])
      /\ \A p \in posts' : p \in posts \/ p.msg \in ob
  <2>1. CASE behindOlder(token)
    <3>1. entry' = Kicked(en) /\ posts' = posts
      BY <1>1, <2>1 DEF en
    <3> QED
      BY <1>3, <1>5, <1>6, <3>1, KickedCalm DEF Calm
  <2>2. CASE ~behindOlder(token)
    <3>1. StartAttempt(m, en, posts) /\ m \in ob /\ Waiting(en[m])
      BY <1>1, <1>4, <1>5, <2>2 DEF en
    <3> HIDE DEF ob
    <3> QED
      BY <1>3, <1>5, <1>6, <3>1, StartCalm
  <2> QED
    BY <2>1, <2>2
<1>8. Extra'
  <2>1. \A r \in Rooms : newest[r] <= newest'[r]
    BY <1>2, RBefore
  <2> QED
    BY <1>2, <1>7, <2>1, ExtraKept
<1>9. Box!Write(m)
  <2>1. {k \in outbox' : entry'[k].permanent} = {k \in outbox : entry[k].permanent}
    BY <1>2, <1>3, <1>4, <1>5, <1>7 DEF Waiting
  <2>2. [k \in Msgs |-> Cardinality(copies'[k])] = [k \in Msgs |-> Cardinality(copies[k])]
    BY <1>2
  <2> QED
    BY <1>2, <2>1, <2>2 DEF Box!Write
<1>10. Box!MailboxNext
  BY <1>9 DEF Box!MailboxNext
<1> QED
  BY <1>8, <1>10 DEF Implemented

-----------------------------------------------------------------------------
(* The server and its replies.                                             *)

LEMMA RServerSave ==
    ASSUME ~LateSave, RInv, IInv', NEW p \in posts, ServerSave(p) PROVE Implemented
PROOF
<1> DEFINE m == p.msg
           r == p.token
           n == newest[r] + 1
           q == [p EXCEPT !.saved = TRUE]
<1>1. /\ m \in Msgs /\ r \in Rooms /\ newest[r] \in Nat /\ n \in Nat /\ m \in 1..sent
      /\ copies[m] \in SUBSET Nat /\ IsFiniteSet(copies[m]) /\ sent \in Nat
  <2>1. p \in Post /\ copies \in [Msgs -> SUBSET Nat] /\ newest \in [Rooms -> Nat] /\ sent \in Nat
    BY RBefore
  <2>2. p.msg \in Msgs /\ p.token \in Rooms
    BY <2>1 DEF Post
  <2>3. p.msg <= sent
    BY DEF RInv, IInv, OutboxInv, UnsentInv
  <2>4. IsFiniteSet(copies[p.msg])
    BY <2>2 DEF RInv, Extra
  <2> QED
    BY <2>1, <2>2, <2>3, <2>4 DEF Msgs
<1>2. /\ ~p.saved /\ ~p.answered /\ p.seq = attemptSeq[m]
      /\ newest' = [newest EXCEPT ![r] = n] /\ copies' = [copies EXCEPT ![m] = @ \cup {n}]
      /\ posts' = (posts \ {p}) \cup {q}
      /\ UNCHANGED <<sent, outbox, entry, forced, dropped>>
  BY DEF ServerSave, client, RInv, IInv, OutboxInv, PostsInv
<1>3. q.msg = m /\ q.token = r
  BY RBefore DEF Post
<1>4. n \notin copies[m]
  <2>1. \A i \in copies[m] : i \in Nat /\ i <= newest[r]
    BY <1>1 DEF RInv, Extra
  <2> QED
    BY <1>1, <2>1
<1>5. IsFiniteSet(copies[m] \cup {n}) /\ Cardinality(copies[m] \cup {n}) = Cardinality(copies[m]) + 1
      /\ Cardinality(copies[m]) \in Nat
  BY <1>1, <1>4, FS_AddElement, FS_CardinalityType
<1>6. copies[m] = {} \/ m \in forced
  BY <1>2 DEF RInv, IInv, OutboxInv, AbsentInv, Live
<1>7. Box!Store(m)
  <2> DEFINE stored == [k \in Msgs |-> Cardinality(copies[k])]
  <2>1. stored[m] > 0 => m \in forced
    BY <1>1, <1>6, FS_EmptySet
  <2>2. [k \in Msgs |-> Cardinality(copies'[k])] = [stored EXCEPT ![m] = @ + 1]
    <3>1. ASSUME NEW k \in Msgs
          PROVE  Cardinality(copies'[k]) = [stored EXCEPT ![m] = @ + 1][k]
      <4>1. copies \in [Msgs -> SUBSET Nat]
        BY RBefore
      <4>2. CASE k = m
        BY <1>1, <1>2, <1>5, <4>1, <4>2
      <4>3. CASE k # m
        BY <1>1, <1>2, <4>1, <4>3
      <4> QED
        BY <4>2, <4>3
    <3> QED
      BY <3>1
  <2>3. {k \in outbox' : entry'[k].permanent} = {k \in outbox : entry[k].permanent}
    BY <1>2
  <2> QED
    BY <1>1, <1>2, <2>1, <2>2, <2>3 DEF Box!Store
<1>8. Box!MailboxNext
  BY <1>1, <1>7 DEF Box!MailboxNext
<1>9. Extra'
  <2>1. \A k \in Msgs : IsFiniteSet(copies'[k])
    BY <1>1, <1>2, <1>5, RBefore DEF RInv, Extra
  <2>2. \A x \in posts' : \E y \in posts : y.msg = x.msg /\ y.token = x.token
    BY <1>2, <1>3
  <2>3. \A x, y \in posts' : x.msg = y.msg => x.token = y.token
    BY <2>2 DEF RInv, Extra
  <2>4. ASSUME NEW x \in posts', NEW i \in copies'[x.msg] PROVE i <= newest'[x.token]
    <3>1. PICK y \in posts : y.msg = x.msg /\ y.token = x.token
      BY <2>2
    <3>2. /\ y.msg \in Msgs /\ y.token \in Rooms /\ newest[y.token] \in Nat
          /\ newest'[y.token] \in Nat /\ newest[y.token] <= newest'[y.token]
      BY <1>1, <1>2, RBefore DEF Post
    <3>3. CASE i \in copies[y.msg]
      <4>1. i <= newest[y.token] /\ i \in Nat
        BY <3>2, <3>3, RBefore DEF RInv, Extra
      <4> QED
        BY <3>1, <3>2, <4>1
    <3>4. CASE i \notin copies[y.msg]
      <4>1. y.msg = m /\ i = n
        BY <1>1, <1>2, <2>4, <3>1, <3>2, <3>4, RBefore
      <4>2. y.token = r
        BY <4>1 DEF RInv, Extra
      <4>3. newest'[r] = n
        BY <1>1, <1>2, RBefore
      <4> QED
        BY <1>1, <3>1, <4>1, <4>2, <4>3
    <3> QED
      BY <3>3, <3>4
  <2>5. \A k \in outbox' : Calm(entry'[k])
    BY <1>2, RBefore
  <2> QED
    BY <2>1, <2>3, <2>4, <2>5 DEF Extra
<1> QED
  BY <1>8, <1>9 DEF Implemented

LEMMA LeftoverFits ==
    ASSUME RInv, NEW p \in posts, NEW hung, NEW x \in (posts \ {p}) \cup Leftover(p, hung)
    PROVE  \E y \in posts : y.msg = x.msg /\ y.token = x.token
PROOF
<1>1. CASE x \in posts
  BY <1>1
<1>2. CASE x = [p EXCEPT !.answered = TRUE]
  <2>1. x.msg = p.msg /\ x.token = p.token
    BY <1>2, RBefore DEF Post
  <2> QED
    BY <2>1
<1> QED
  BY <1>1, <1>2 DEF Leftover

LEMMA RReplyUntracked ==
    ASSUME RInv, IInv', NEW p \in posts, NEW hung \in BOOLEAN, ReplyUntracked(p, hung)
    PROVE  Implemented
PROOF
<1> DEFINE ps == (posts \ {p}) \cup Leftover(p, hung)
<1>1. /\ SendNextQueued(p.token, sendQueue[p.token], outbox, entry, ps)
      /\ UNCHANGED <<sent, outbox, newest, copies, forced, dropped>>
  BY DEF ReplyUntracked
<1>2. \A x \in ps : \E y \in posts : y.msg = x.msg /\ y.token = x.token
  BY LeftoverFits
<1> HIDE DEF ps
<1>3. /\ \A k \in outbox : entry'[k].permanent = entry[k].permanent /\ Calm(entry'[k])
      /\ \A x \in posts' : x \in ps \/ x.msg \in outbox
  BY <1>1, SendNextCalm, RBefore
<1>4. Extra'
  <2>1. \A r \in Rooms : newest[r] <= newest'[r]
    BY <1>1, RBefore
  <2>2. \A x \in posts' : \/ x.msg \in outbox'
                          \/ \E y \in posts : y.msg = x.msg /\ y.token = x.token
    BY <1>1, <1>2, <1>3
  <2> QED
    BY <1>1, <1>3, <2>1, <2>2, ExtraKept
<1> QED
  BY <1>1, <1>3, <1>4, BoxStutters DEF Implemented

LEMMA RReplyStale ==
    ASSUME RInv, IInv', NEW p \in posts, NEW hung \in BOOLEAN, ReplyStale(p, hung)
    PROVE  Implemented
PROOF
<1>1. /\ posts' = (posts \ {p}) \cup Leftover(p, hung)
      /\ UNCHANGED <<sent, outbox, entry, newest, copies, forced, dropped>>
  BY DEF ReplyStale, client
<1>2. Extra'
  <2>1. \A r \in Rooms : newest[r] <= newest'[r]
    BY <1>1, RBefore
  <2>2. \A x \in posts' : \E y \in posts : y.msg = x.msg /\ y.token = x.token
    BY <1>1, LeftoverFits
  <2>3. \A k \in outbox' : Calm(entry'[k])
    BY <1>1, RBefore
  <2> QED
    BY <1>1, <2>1, <2>2, <2>3, ExtraKept
<1> QED
  BY <1>1, <1>2, BoxStutters DEF Implemented

LEMMA RReplyDelivered ==
    ASSUME RInv, IInv', NEW p \in posts, ReplyDelivered(p) PROVE Implemented
PROOF
<1> DEFINE m == p.msg
           ob == outbox \ {m}
           en == Without(m)
           ps == posts \ {p}
<1>1. /\ m \in outbox /\ p.saved /\ outbox' = ob
      /\ SendNextQueued(p.token, sendQueue[p.token] \ {m}, ob, en, ps)
      /\ UNCHANGED <<sent, newest, copies, forced, dropped>>
  BY DEF ReplyDelivered
<1>2. /\ en \in [Msgs -> Entry] /\ ob \subseteq Msgs /\ \A k \in ob : en[k] = entry[k]
  BY <1>1, BlankEntry, RBefore DEF Without
<1>3. copies[m] # {}
  BY <1>1, PBefore DEF RInv, Known
<1> HIDE DEF en, ob, ps
<1>5. \A k \in outbox' : /\ entry'[k].permanent = entry[k].permanent
                         /\ Calm(entry'[k])
  <2>1. \A k \in ob : k \in outbox
    BY DEF ob
  <2>2. \A k \in ob : entry'[k].permanent = en[k].permanent
    BY <1>1, <1>2, SendNextCalm
  <2>3. \A k \in ob : Calm(en[k]) => Calm(entry'[k])
    BY <1>1, <1>2, SendNextCalm
  <2> QED
    BY <1>1, <1>2, <2>1, <2>2, <2>3, RBefore
<1>6. Extra'
  <2>1. \A r \in Rooms : newest[r] <= newest'[r]
    BY <1>1, RBefore
  <2>2. \A x \in posts' : x.msg \in outbox' \/ x \in posts
    BY <1>1, <1>2, SendNextCalm DEF ps
  <2> QED
    BY <1>1, <1>5, <2>1, <2>2, ExtraKept
<1>7. outbox' = outbox \ {m}
  BY <1>1 DEF ob
<1> QED
  BY <1>1, <1>3, <1>5, <1>6, <1>7, BoxConfirms DEF Implemented

LEMMA REcho == ASSUME RInv, IInv', NEW m \in Msgs, Echo(m) PROVE Implemented
PROOF
<1>1. /\ m \in outbox /\ copies[m] # {} /\ Drop(m)
      /\ UNCHANGED <<sent, posts, newest, copies, forced, dropped>>
  BY DEF Echo
<1>2. outbox' = outbox \ {m} /\ \A k \in outbox' : entry'[k] = entry[k]
  BY <1>1, DropLeaves
<1>3. Extra'
  BY <1>1, <1>2, ExtraLess
<1>4. \A k \in outbox' : entry'[k].permanent = entry[k].permanent
  BY <1>2
<1> QED
  BY <1>1, <1>2, <1>3, <1>4, BoxConfirms DEF Implemented

\* The failure gives the message up, or a failure of another kind revives it.
LEMMA RReplyFailed ==
    ASSUME RInv, IInv', NEW p \in posts, NEW status \in Failures, NEW hung \in BOOLEAN,
           ReplyFailed(p, status, hung)
    PROVE  Implemented
PROOF
<1> DEFINE m == p.msg
           f == PostFailed(entry[m], status, hung)
<1>1. /\ m \in outbox /\ m \in Msgs /\ entry' = [entry EXCEPT ![m] = f]
      /\ posts' = (posts \ {p}) \cup Leftover(p, hung)
      /\ UNCHANGED <<sent, outbox, newest, copies, forced, dropped>>
  BY RBefore DEF ReplyFailed
<1>2. f.inFlight = FALSE /\ f.permanent = givesUp(status, entry[m].postAttempts)
  <2>1. entry[m] \in Entry
    BY <1>1, RBefore
  <2> QED
    BY <2>1 DEF PostFailed, Entry
<1> HIDE DEF f
<1>3. entry'[m] = f /\ \A k \in outbox : k # m => entry'[k] = entry[k]
  BY <1>1, RBefore
<1>4. Extra'
  <2>1. \A r \in Rooms : newest[r] <= newest'[r]
    BY <1>1, RBefore
  <2>2. \A x \in posts' : \E y \in posts : y.msg = x.msg /\ y.token = x.token
    BY <1>1, LeftoverFits
  <2>3. \A k \in outbox' : Calm(entry'[k])
    BY <1>1, <1>2, <1>3, RBefore DEF Calm
  <2> QED
    BY <1>1, <2>1, <2>2, <2>3, ExtraKept
<1>5. entry'[m].permanent \in BOOLEAN /\ entry[m].permanent \in BOOLEAN
  <2>1. entry[m] \in Entry
    BY <1>1, RBefore
  <2>2. f.permanent \in BOOLEAN
    BY <1>2 DEF givesUp
  <2> QED
    BY <1>3, <2>1, <2>2 DEF Entry
<1>6. CASE entry[m].permanent = entry'[m].permanent
  BY <1>1, <1>3, <1>4, <1>6, BoxStutters DEF Implemented
<1>7. CASE entry[m].permanent /\ ~entry'[m].permanent
  BY <1>1, <1>3, <1>4, <1>7, BoxRevives DEF Implemented
<1>8. CASE ~entry[m].permanent /\ entry'[m].permanent
  <2> DEFINE givenUp == {m}
  <2>1. givenUp \in SUBSET outbox /\ \A k \in givenUp : ~entry[k].permanent
    BY <1>1, <1>8
  <2>2. \A k \in outbox : entry'[k].permanent <=> (entry[k].permanent \/ k \in givenUp)
    BY <1>1, <1>3, <1>8
  <2> HIDE DEF givenUp
  <2> QED
    BY <1>1, <1>4, <2>1, <2>2, BoxGivesUp DEF Implemented
<1> QED
  BY <1>5, <1>6, <1>7, <1>8

-----------------------------------------------------------------------------
(* The timer and the probe.                                                *)

LEMMA QuietCalm ==
    \A e \in Entry, b \in BOOLEAN :
        Quiet(e, b).permanent = e.permanent /\ Quiet(e, b).inFlight = e.inFlight
PROOF
BY DEF Quiet, Entry

LEMMA UnquietCalm ==
    ASSUME NEW en \in [Msgs -> Entry], NEW r \in Rooms, NEW m \in Msgs
    PROVE  /\ Unquiet(r, en)[m].permanent = en[m].permanent
           /\ Unquiet(r, en)[m].inFlight = en[m].inFlight
PROOF
BY QuietCalm DEF Unquiet

LEMMA RProbeFailed ==
    ASSUME RInv, IInv', NEW r \in Rooms, NEW denied \in BOOLEAN, ProbeFailed(r, denied)
    PROVE  Implemented
PROOF
<1> DEFINE judged == {m \in outbox : entry[m].token = r /\ Waiting(entry[m])}
           en == [m \in Msgs |-> IF m \in judged
                                 THEN IF denied THEN GivenUp(entry[m])
                                      ELSE Waits(entry[m], "short")
                                 ELSE entry[m]]
           givenUp == IF denied THEN judged ELSE {}
<1>1. entry' = Unquiet(r, en)
  <2>1. en = [m \in Msgs |->
          IF m \in outbox /\ entry[m].token = r /\ Waiting(entry[m])
          THEN IF denied THEN GivenUp(entry[m]) ELSE Waits(entry[m], "short")
          ELSE entry[m]]
    OBVIOUS
  <2> QED
    BY <2>1 DEF ProbeFailed
<1>2. UNCHANGED <<sent, outbox, posts, newest, copies, forced, dropped>>
  BY DEF ProbeFailed
<1>3. judged \subseteq outbox /\ \A m \in judged : ~entry[m].inFlight /\ ~entry[m].permanent
  BY DEF Waiting
<1> HIDE DEF judged
<1>4. \A m \in outbox : /\ GivenUp(entry[m]) \in Entry /\ Waits(entry[m], "short") \in Entry
                        /\ GivenUp(entry[m]).permanent = TRUE
                        /\ GivenUp(entry[m]).inFlight = entry[m].inFlight
                        /\ Waits(entry[m], "short").permanent = entry[m].permanent
                        /\ Waits(entry[m], "short").inFlight = entry[m].inFlight
  BY RBefore DEF GivenUp, Waits, Entry
<1>5. en \in [Msgs -> Entry]
  <2>1. \A m \in Msgs : entry[m] \in Entry
    BY RBefore
  <2> QED
    BY <1>3, <1>4, <2>1
<1>6. \A m \in outbox : /\ en[m].inFlight = entry[m].inFlight
                        /\ en[m].permanent <=> (entry[m].permanent \/ m \in givenUp)
  BY <1>3, <1>4, RBefore
<1> HIDE DEF en
<1>7. \A m \in outbox : /\ entry'[m].inFlight = en[m].inFlight
                        /\ entry'[m].permanent = en[m].permanent
  BY <1>1, <1>5, RBefore, UnquietCalm
<1>8. \A m \in outbox : m \in givenUp => ~entry[m].inFlight /\ ~entry[m].permanent
  BY <1>3
<1>9. givenUp \in SUBSET outbox
  BY <1>3
<1> HIDE DEF givenUp
<1>10. Extra'
  <2>1. \A x \in Rooms : newest[x] <= newest'[x]
    BY <1>2, RBefore
  <2>2. \A m \in outbox' : Calm(entry'[m])
    BY <1>2, <1>6, <1>7, <1>8, RBefore DEF Calm
  <2> QED
    BY <1>2, <2>1, <2>2, ExtraKept
<1> QED
  BY <1>2, <1>6, <1>7, <1>8, <1>9, <1>10, BoxGivesUp DEF Implemented

LEMMA ROutboxTick == ASSUME RInv, IInv', OutboxTick PROVE Implemented
PROOF
<1> DEFINE mine == {m \in outbox : entry[m].owner = account}
           hanging == {m \in outbox : entry[m].inFlight /\ entry[m].slow
                                       /\ entry[m].owner = account}
           After(x) == [m \in Msgs |-> IF m \notin mine THEN Blank
                                       ELSE IF m \in x
                                       THEN PostFailed(entry[m], "unknown", TRUE)
                                       ELSE entry[m]]
           Started(e) == {r \in Rooms \ probing :
                             \E m \in mine : /\ e[m].token = r /\ headReady(e[m])
                                             /\ IsHead(m, mine, e)}
           Tick(e, ts) ==
             /\ outbox' = mine
             /\ entry' = [m \in Msgs |-> IF m \in mine /\ e[m].token \in ts
                                         THEN Quiet(e[m], TRUE) ELSE e[m]]
             /\ dropped' = dropped \cup (outbox \ mine)
<1>1. PICK expired \in SUBSET hanging : Tick(After(expired), Started(After(expired)))
  BY DEF OutboxTick
<1> DEFINE en == After(expired)
           givenUp == {m \in expired : givesUp("unknown", entry[m].postAttempts)}
<1>2. UNCHANGED <<sent, posts, newest, copies, forced>>
  BY DEF OutboxTick
<1>3. mine = outbox
  BY PBefore DEF RInv, Mine
<1>4. outbox' = outbox /\ dropped' = dropped
  BY <1>1, <1>3
<1>5. expired \subseteq outbox /\ \A m \in expired : entry[m].inFlight /\ ~entry[m].permanent
  BY RBefore DEF Calm
<1>6. \A m \in outbox : LET f == PostFailed(entry[m], "unknown", TRUE)
                        IN f \in Entry /\ f.inFlight = FALSE
                           /\ f.permanent = givesUp("unknown", entry[m].postAttempts)
  <2>1. ASSUME NEW m \in outbox
        PROVE  LET f == PostFailed(entry[m], "unknown", TRUE)
               IN f \in Entry /\ f.inFlight = FALSE
                  /\ f.permanent = givesUp("unknown", entry[m].postAttempts)
    <3>1. entry[m] \in Entry
      BY RBefore
    <3>2. givesUp("unknown", entry[m].postAttempts) \in BOOLEAN
      BY DEF givesUp
    <3> QED
      BY <3>1, <3>2 DEF PostFailed, Entry
  <2> QED
    BY <2>1
<1>7. \A m \in outbox : en[m] \in Entry /\ Calm(en[m])
                        /\ (en[m].permanent <=> (entry[m].permanent \/ m \in givenUp))
  BY <1>3, <1>5, <1>6, RBefore DEF Calm
<1>8. givenUp \in SUBSET outbox /\ \A m \in givenUp : ~entry[m].permanent
  BY <1>5
<1> DEFINE ts == Started(en)
<1>9. Tick(en, ts)
  BY <1>1
<1> HIDE DEF en, ts, givenUp, mine
<1>10. \A m \in outbox : entry'[m].inFlight = en[m].inFlight /\ entry'[m].permanent = en[m].permanent
  BY <1>3, <1>7, <1>9, RBefore, QuietCalm
<1>11. Extra'
  <2>1. \A x \in Rooms : newest[x] <= newest'[x]
    BY <1>2, RBefore
  <2>2. \A m \in outbox' : Calm(entry'[m])
    BY <1>4, <1>7, <1>10 DEF Calm
  <2> QED
    BY <1>2, <1>4, <2>1, <2>2, ExtraKept
<1> QED
  BY <1>2, <1>4, <1>7, <1>8, <1>10, <1>11, BoxGivesUp DEF Implemented

LEMMA RProbeAnswered == ASSUME RInv, IInv', NEW r \in Rooms, ProbeAnswered(r) PROVE Implemented
PROOF
<1> DEFINE n == page[r]
           judged == {m \in outbox : entry[m].token = r /\ Waiting(entry[m]) /\ entry[m].quiet}
           delivered == {m \in judged : afterProbe(m, n) = "MarkDelivered"}
           toSend == {m \in judged : afterProbe(m, n) = "Resend"}
           giveUp == {m \in judged : afterProbe(m, n) = "GiveUp"}
           left == outbox \ delivered
           force == {m \in toSend : entry[m].everPosted /\ probeVerdict(m, n) = "Inconclusive"}
           raw == [m \in Msgs |-> IF m \in delivered THEN Blank
                                  ELSE IF m \in giveUp THEN GivenUp(entry[m])
                                  ELSE entry[m]]
           en == Unquiet(r, raw)
<1>1. /\ n # Unserved /\ outbox' = left /\ forced' = forced \cup force
      /\ IF toSend # {} THEN SendNextQueued(r, toSend, left, en, posts)
         ELSE entry' = en /\ posts' = posts
      /\ UNCHANGED <<sent, newest, copies, dropped>>
  BY DEF ProbeAnswered
<1>2. /\ judged \subseteq outbox /\ delivered \subseteq judged /\ toSend \subseteq judged
      /\ giveUp \subseteq judged /\ delivered \cap giveUp = {} /\ force \subseteq toSend
      /\ \A m \in judged : ~entry[m].permanent /\ ~entry[m].inFlight
  BY DEF Waiting
<1>3. n \in Nat
  BY <1>1, PBefore DEF RInv, TypeOK
<1>4. \A m \in delivered : copies[m] # {}
  <2>1. ASSUME NEW m \in delivered, copies[m] = {} PROVE FALSE
    <3>1. probeVerdict(m, n) \in {"Absent", "Inconclusive"}
      BY <1>3, <2>1 DEF probeVerdict
    <3>2. afterProbe(m, n) \in {"Resend", "GiveUp"}
      BY <3>1 DEF afterProbe
    <3> QED
      BY <2>1, <3>2
  <2> QED
    BY <2>1
<1> HIDE DEF judged, delivered, toSend, giveUp, force, n
<1>5. \A m \in outbox : /\ GivenUp(entry[m]) \in Entry
                        /\ GivenUp(entry[m]).permanent = TRUE
                        /\ GivenUp(entry[m]).inFlight = entry[m].inFlight
  BY RBefore DEF GivenUp, Entry
<1>6. raw \in [Msgs -> Entry]
  <2>1. \A m \in Msgs : entry[m] \in Entry
    BY RBefore
  <2> QED
    BY <1>2, <1>5, <2>1, BlankEntry
<1>7. \A m \in left : /\ Calm(raw[m])
                      /\ raw[m].permanent <=> (entry[m].permanent \/ m \in giveUp)
  <2>1. ASSUME NEW m \in left
        PROVE Calm(raw[m]) /\ (raw[m].permanent <=> (entry[m].permanent \/ m \in giveUp))
    <3>1. m \in outbox /\ m \in Msgs /\ m \notin delivered
      BY RBefore
    <3>2. CASE m \in giveUp
      BY <1>2, <1>5, <3>1, <3>2 DEF Calm
    <3>3. CASE m \notin giveUp
      BY <3>1, <3>3, RBefore
    <3> QED
      BY <3>2, <3>3
  <2> QED
    BY <2>1
<1> HIDE DEF raw
<1>8. /\ en \in [Msgs -> Entry] /\ left \subseteq Msgs
      /\ \A m \in left : Calm(en[m]) /\ en[m].permanent = raw[m].permanent
  <2>1. left \subseteq Msgs
    BY RBefore
  <2>2. \A m \in Msgs : Quiet(raw[m], FALSE) \in Entry
    BY <1>6 DEF Quiet, Entry
  <2>3. en \in [Msgs -> Entry]
    BY <1>6, <2>2 DEF Unquiet
  <2> QED
    BY <1>6, <1>7, <2>1, <2>3, UnquietCalm DEF Calm
<1> HIDE DEF en
<1>9. /\ \A m \in left : entry'[m].permanent = en[m].permanent /\ Calm(entry'[m])
      /\ \A p \in posts' : p \in posts \/ p.msg \in left
  <2> HIDE DEF left
  <2>1. CASE toSend = {}
    BY <1>1, <1>8, <2>1
  <2>2. CASE toSend # {}
    BY <1>1, <1>8, <2>2, SendNextCalm
  <2> QED
    BY <2>1, <2>2
<1>10. Extra'
  <2>1. \A x \in Rooms : newest[x] <= newest'[x]
    BY <1>1, RBefore
  <2>2. /\ \A p \in posts' : p.msg \in outbox' \/ p \in posts
        /\ \A m \in outbox' : Calm(entry'[m])
    BY <1>1, <1>9
  <2> QED
    BY <1>1, <2>1, <2>2, ExtraKept
<1>11. \A m \in outbox' : entry'[m].permanent <=> (entry[m].permanent \/ m \in giveUp)
  BY <1>1, <1>7, <1>8, <1>9
<1>12. /\ delivered \in SUBSET outbox /\ giveUp \in SUBSET outbox /\ force \in SUBSET outbox
       /\ \A m \in giveUp : ~entry[m].permanent /\ m \notin delivered
       /\ \A m \in force : ~entry[m].permanent
  BY <1>2
<1>13. outbox' = outbox \ delivered /\ forced' = forced \cup force
       /\ UNCHANGED <<sent, copies, dropped>>
  BY <1>1
<1>14. [Box!MailboxNext]_(Box!box)
  BY <1>4, <1>11, <1>12, <1>13, BoxReconciles
<1> QED
  BY <1>10, <1>14 DEF Implemented

-----------------------------------------------------------------------------
(* Every step.                                                             *)

LEMMA RStutter == ASSUME RInv, IInv', UNCHANGED vars PROVE Implemented
PROOF
BY QuietlyImplemented DEF vars, client

LEMMA RNext ==
    ASSUME OutboxAssumption, ~LateSave, RInv, IInv', Next PROVE Implemented
PROOF
<1>1. CASE User
  BY <1>1, RSendMessage, RRetryMessage, RDiscardFailed, ROpenRoom, RKickOutbox, RLogout, RLogin
     DEF User
<1>2. CASE Network
  <2>1. CASE \E p \in posts : ServerSave(p)
    BY <2>1, RServerSave
  <2>2. CASE \E p \in posts : Reply(p)
    BY <2>2, RReplyUntracked, RReplyStale, RReplyDelivered, RReplyFailed DEF Reply
  <2>3. CASE \E m \in Msgs : Echo(m)
    BY <2>3, REcho
  <2>4. CASE \E r \in Rooms : \/ OthersWrite(r) \/ ProbeServed(r) \/ ProbeAnswered(r)
                              \/ \E denied \in BOOLEAN : ProbeFailed(r, denied)
    BY <2>4, ROthersWrite, RProbeServed, RProbeAnswered, RProbeFailed
  <2> QED
    BY <1>2, <2>1, <2>2, <2>3, <2>4 DEF Network
<1>3. CASE Timers
  BY <1>3, RAttemptSlow, RDeadlinePasses, ROutboxTick DEF Timers
<1> QED
  BY <1>1, <1>2, <1>3 DEF Next

LEMMA RInit == OutboxAssumption /\ Init => Extra /\ Box!MailboxInit
PROOF
<1> SUFFICES ASSUME OutboxAssumption, Init PROVE Extra /\ Box!MailboxInit
  OBVIOUS
<1>1. /\ sent = 0 /\ outbox = {} /\ posts = {} /\ forced = {} /\ dropped = {}
      /\ copies = [m \in Msgs |-> {}]
  BY DEF Init
<1>2. \A m \in Msgs : IsFiniteSet(copies[m]) /\ Cardinality(copies[m]) = 0
  BY <1>1, FS_EmptySet
<1>3. Extra
  BY <1>1, <1>2 DEF Extra
<1>4. Box!MailboxInit
  BY <1>1, <1>2 DEF Box!MailboxInit
<1> QED
  BY <1>3, <1>4

\* The outbox implements the mailbox, for any number of messages, rooms and
\* accounts: the probes, queues and timers of MessageListModel show to its user as
\* messages that are held, stored once, confirmed, given up or dropped.
THEOREM SpecImplementsMailbox == ASSUME ~LateSave PROVE Spec => ImplementsMailbox
PROOF
<1>1. Init => Extra /\ Box!MailboxInit
  BY RInit, OutboxAssumption
<1>2. IInv /\ PInv /\ Extra /\ IInv' /\ [Next]_vars => Extra' /\ [Box!MailboxNext]_(Box!box)
  BY RNext, RStutter, OutboxAssumption DEF RInv, Implemented
<1> QED
  BY <1>1, <1>2, SpecIInv, SpecPInv, PTL DEF Spec, ImplementsMailbox, Box!MailboxSpec

-----------------------------------------------------------------------------
(* The order of the messages of a room.                                    *)

\* m has come before o, an older message of its room that waits.
Overtakes(m, o) == Ahead(m, o)' \/ Passes(m, o)
Skips(m, o) == Ahead(m, o) \/ (entry[o].token \in probing \ probing' /\ ~entry[o].quiet)
Ordered == \A m, o \in outbox' : Overtakes(m, o) => Skips(m, o)

\* Whose turn the user has not changed, and that waits.
Yields(e) == Waiting(e) /\ ~e.manual

LEMMA QuietYields ==
    \A e \in Entry, b \in BOOLEAN :
        Yields(Quiet(e, b)) = Yields(e) /\ Quiet(e, b).token = e.token
PROOF
BY DEF Quiet, Yields, Waiting, Entry

\* f yields only if e does, in the same room.
Tamer(e, f) == f.token = e.token /\ (Yields(f) => Yields(e))

LEMMA SmallTamer ==
    \A e \in Entry : /\ Tamer(e, e) /\ Tamer(e, Slowed(e)) /\ Tamer(e, GivenUp(e))
                     /\ Tamer(e, Retried(e))
                     /\ \A w \in {"due", "short", "settle"} : Tamer(e, Waits(e, w))
PROOF
BY DEF Slowed, GivenUp, Retried, Waits, Yields, Waiting, Entry, Tamer

LEMMA GivenUpSettled == \A e \in Entry : ~Yields(GivenUp(e))
PROOF
BY DEF GivenUp, Yields, Waiting, Entry

\* What is said when m has come before o.
LEMMA OvertakesMeans ==
    ASSUME PInv', NEW m \in outbox', NEW o \in outbox', Overtakes(m, o)
    PROVE  /\ o < m /\ entry'[o].token = entry'[m].token /\ Yields(entry'[o])
           /\ \/ Posts(m)
              \/ \E r \in Rooms : /\ m \in sendQueue'[r] /\ o \notin sendQueue'[r]
                                  /\ entry'[m].token = r
PROOF
<1>1. CASE Passes(m, o)
  BY <1>1 DEF Passes, Yields
<1>2. CASE Ahead(m, o)'
  <2>1. PICK r \in Rooms : m \in sendQueue'[r] /\ o \notin sendQueue'[r]
    BY <1>2 DEF Ahead
  <2>2. entry'[m].token = r
    BY <2>1 DEF PInv, Held
  <2> QED
    BY <1>2, <2>1, <2>2 DEF Ahead, Yields
<1> QED
  BY <1>1, <1>2 DEF Overtakes

\* A step that POSTs nothing keeps to the order if no queue grows and what comes to wait
\* empties the queue of its room.
LEMMA CalmOrder ==
    ASSUME PInv, PInv',
           \A k \in outbox' : k \in outbox /\ entry'[k].token = entry[k].token,
           \A k \in outbox' : ~Posts(k),
           \A r \in Rooms :
               \/ sendQueue'[r] = {}
               \/ /\ sendQueue'[r] \subseteq sendQueue[r]
                  /\ \A k \in outbox' : k \in sendQueue[r] => k \in sendQueue'[r]
                  /\ \A k \in outbox' :
                        entry[k].token = r /\ Yields(entry'[k]) => Yields(entry[k])
    PROVE  Ordered
PROOF
<1> SUFFICES ASSUME NEW m \in outbox', NEW o \in outbox', Overtakes(m, o) PROVE Skips(m, o)
  BY DEF Ordered
<1>1. PICK r \in Rooms : /\ m \in sendQueue'[r] /\ o \notin sendQueue'[r]
                         /\ entry'[m].token = r
  BY OvertakesMeans
<1>2. o < m /\ entry'[o].token = entry'[m].token /\ Yields(entry'[o])
  BY OvertakesMeans
<1>3. m \in sendQueue[r] /\ o \notin sendQueue[r] /\ Yields(entry[o])
  BY <1>1, <1>2
<1> QED
  BY <1>1, <1>2, <1>3 DEF Skips, Ahead, Yields

\* What POSTs nothing: no attempt begins.
LEMMA NoAttempt ==
    ASSUME attemptSeq' = attemptSeq PROVE \A k \in outbox' : ~Posts(k)
PROOF
BY DEF Posts

\* A step of the entries only.
LEMMA EntriesOrder ==
    ASSUME PInv, PInv', UNCHANGED <<outbox, attemptSeq, sendQueue>>,
           \A k \in outbox : Tamer(entry[k], entry'[k])
    PROVE  Ordered
PROOF
BY CalmOrder, NoAttempt DEF Tamer

LEMMA SameOrder ==
    ASSUME PInv, PInv', UNCHANGED <<outbox, attemptSeq, sendQueue, entry>> PROVE Ordered
PROOF
BY EntriesOrder DEF Tamer

\* A message leaves.
LEMMA DropOrder == ASSUME PInv, PInv', NEW m, Drop(m), UNCHANGED attemptSeq PROVE Ordered
PROOF
<1>1. \A k \in outbox' : k \in outbox /\ k # m /\ entry'[k] = entry[k]
  BY PBefore DEF Drop, Without
<1>2. \A r \in Rooms : sendQueue'[r] = sendQueue[r] \ {m}
  BY DEF Drop
<1> QED
  BY <1>1, <1>2, CalmOrder, NoAttempt

LEMMA UserOrder ==
    ASSUME PInv, PInv',
           \/ \E m \in Msgs : RetryMessage(m) \/ DiscardFailed(m)
           \/ \E r \in Rooms \cup {NoRoom} : OpenRoom(r)
           \/ KickOutbox \/ Logout
           \/ \E a \in Accounts : Login(a)
    PROVE  Ordered
PROOF
<1>1. \A k \in outbox : k \in Msgs /\ entry[k] \in Entry
  BY PBefore DEF Mine
<1>2. \A k \in outbox : Tamer(entry[k], entry[k]) /\ Tamer(entry[k], Kicked(entry)[k])
  BY <1>1, SmallTamer DEF Kicked
<1>3. ASSUME NEW m \in Msgs, RetryMessage(m) PROVE Ordered
  <2>1. ASSUME NEW k \in outbox PROVE Tamer(entry[k], entry'[k])
    <3>1. entry'[k] = Retried(entry[k]) \/ entry'[k] = Waits(entry[k], "due")
          \/ entry'[k] = entry[k]
      BY <1>1, <1>3, <2>1 DEF RetryMessage
    <3> QED
      BY <1>1, <3>1, SmallTamer
  <2> QED
    BY <1>3, <2>1, EntriesOrder DEF RetryMessage
<1>4. CASE KickOutbox \/ \E r \in Rooms \cup {NoRoom} : OpenRoom(r)
  <2>1. UNCHANGED <<outbox, attemptSeq, sendQueue>>
        /\ (entry' = Kicked(entry) \/ entry' = entry)
    BY <1>4 DEF KickOutbox, OpenRoom
  <2> QED
    BY <1>2, <2>1, EntriesOrder
<1>5. CASE Logout
  BY <1>5 DEF Logout, Ordered
<1>6. CASE \E a \in Accounts : Login(a)
  BY <1>6, SameOrder DEF Login
<1>7. CASE \E m \in Msgs : DiscardFailed(m)
  BY <1>7, DropOrder DEF DiscardFailed
<1> QED
  BY <1>3, <1>4, <1>5, <1>6, <1>7

\* The clock, the server and replies that send nothing.
LEMMA QuietStepsOrder ==
    ASSUME PInv, PInv',
           \/ \E m \in Msgs : AttemptSlow(m) \/ DeadlinePasses(m) \/ Echo(m)
           \/ \E p \in posts : ServerSave(p) \/ \E hung \in BOOLEAN : ReplyStale(p, hung)
           \/ \E r \in Rooms : OthersWrite(r) \/ ProbeServed(r)
           \/ UNCHANGED vars
    PROVE  Ordered
PROOF
<1>1. \A k \in outbox : k \in Msgs /\ entry[k] \in Entry
  BY PBefore DEF Mine
<1>2. ASSUME NEW m \in Msgs, AttemptSlow(m) \/ DeadlinePasses(m) PROVE Ordered
  <2>1. ASSUME NEW k \in outbox PROVE Tamer(entry[k], entry'[k])
    <3>1. entry'[k] = Slowed(entry[k]) \/ entry'[k] = Waits(entry[k], "due")
          \/ entry'[k] = entry[k]
      BY <1>1, <1>2, PBefore DEF AttemptSlow, DeadlinePasses
    <3> QED
      BY <1>1, <3>1, SmallTamer
  <2> QED
    BY <1>2, <2>1, EntriesOrder DEF AttemptSlow, DeadlinePasses
<1>3. CASE \E m \in Msgs : Echo(m)
  BY <1>3, DropOrder DEF Echo
<1>4. CASE \E p \in posts : ServerSave(p) \/ \E hung \in BOOLEAN : ReplyStale(p, hung)
  BY <1>4, SameOrder DEF ServerSave, ReplyStale, client
<1>5. CASE \E r \in Rooms : OthersWrite(r) \/ ProbeServed(r)
  BY <1>5, SameOrder DEF OthersWrite, ProbeServed, client
<1>6. CASE UNCHANGED vars
  BY <1>6, SameOrder DEF vars, client
<1> QED
  BY <1>2, <1>3, <1>4, <1>5, <1>6

\* A message that failed waits again, with an empty queue.
LEMMA ReplyFailedOrder ==
    ASSUME PInv, PInv', NEW p \in posts, NEW status \in Failures, NEW hung \in BOOLEAN,
           ReplyFailed(p, status, hung)
    PROVE  Ordered
PROOF
<1>1. /\ outbox' = outbox /\ attemptSeq' = attemptSeq
      /\ p.msg \in outbox /\ p.token = entry[p.msg].token
      /\ \A k \in Msgs : k # p.msg => entry'[k] = entry[k]
      /\ sendQueue' = [sendQueue EXCEPT ![p.token] = {}]
      /\ outbox \subseteq Msgs
  BY PBefore DEF ReplyFailed, Known
<1>2. entry'[p.msg].token = entry[p.msg].token
  BY <1>1, PBefore DEF ReplyFailed, PostFailed, Mine, Entry
<1>3. \A k \in outbox' : k \in outbox /\ entry'[k].token = entry[k].token
  BY <1>1, <1>2
<1>4. ASSUME NEW r \in Rooms
      PROVE  \/ sendQueue'[r] = {}
             \/ /\ sendQueue'[r] \subseteq sendQueue[r]
                /\ \A k \in outbox' : k \in sendQueue[r] => k \in sendQueue'[r]
                /\ \A k \in outbox' :
                      entry[k].token = r /\ Yields(entry'[k]) => Yields(entry[k])
  <2>1. CASE r = p.token
    BY <1>1, <2>1, PBefore
  <2>2. CASE r # p.token
    <3>1. sendQueue'[r] = sendQueue[r]
      BY <1>1, <2>2, PBefore
    <3>2. \A k \in outbox' : entry[k].token = r => entry'[k] = entry[k]
      BY <1>1, <2>2
    <3> QED
      BY <3>1, <3>2
  <2> QED
    BY <2>1, <2>2
<1> QED
  BY <1>1, <1>3, <1>4, CalmOrder, NoAttempt

LEMMA ProbeFailedOrder ==
    ASSUME PInv, PInv', NEW r \in Rooms, NEW denied \in BOOLEAN, ProbeFailed(r, denied)
    PROVE  Ordered
PROOF
<1> DEFINE en == [m \in Msgs |->
                    IF m \in outbox /\ entry[m].token = r /\ Waiting(entry[m])
                    THEN IF denied THEN GivenUp(entry[m]) ELSE Waits(entry[m], "short")
                    ELSE entry[m]]
<1>1. entry' = Unquiet(r, en) /\ UNCHANGED <<outbox, attemptSeq, sendQueue>>
  BY DEF ProbeFailed
<1>2. ASSUME NEW k \in outbox PROVE Tamer(entry[k], entry'[k])
  <2>1. k \in Msgs /\ entry[k] \in Entry
    BY PBefore DEF Mine
  <2>2. en[k] \in {GivenUp(entry[k]), Waits(entry[k], "short"), entry[k]}
    BY <2>1
  <2>3. en[k] \in Entry /\ Tamer(entry[k], en[k])
    BY <2>1, <2>2, SmallTamer, WaitsFollows, GivenUpFollows DEF Stays, Follows
  <2>4. entry'[k] \in {Quiet(en[k], FALSE), en[k]}
    BY <1>1, <2>1 DEF Unquiet
  <2> QED
    BY <2>3, <2>4, QuietYields DEF Tamer
<1> QED
  BY <1>1, <1>2, EntriesOrder

\* An attempt that the tick gives up empties the queue of its room.
LEMMA TickOrder == ASSUME PInv, PInv', OutboxTick PROVE Ordered
PROOF
<1>1. PICK expired \in SUBSET {m \in outbox : entry[m].inFlight /\ entry[m].slow
                                               /\ entry[m].owner = account} :
        LET mine == {m \in outbox : entry[m].owner = account}
            en == [m \in Msgs |-> IF m \notin mine THEN Blank
                                  ELSE IF m \in expired
                                  THEN PostFailed(entry[m], "unknown", TRUE)
                                  ELSE entry[m]]
            started == {r \in Rooms \ probing :
                           \E m \in mine : /\ en[m].token = r /\ headReady(en[m])
                                           /\ IsHead(m, mine, en)}
        IN /\ outbox' = mine
           /\ attemptSeq' = [m \in Msgs |-> IF m \in expired THEN attemptSeq[m] + 1
                                            ELSE attemptSeq[m]]
           /\ sendQueue' = [r \in Rooms |-> IF \E m \in expired : entry[m].token = r
                                            THEN {} ELSE sendQueue[r] \cap mine]
           /\ entry' = [m \in Msgs |-> IF m \in mine /\ en[m].token \in started
                                       THEN Quiet(en[m], TRUE) ELSE en[m]]
  BY DEF OutboxTick
<1>2. ASSUME NEW k \in outbox'
      PROVE  /\ k \in outbox /\ k \in Msgs /\ entry[k] \in Entry
             /\ k \notin expired => attemptSeq'[k] = attemptSeq[k]
                   /\ (entry'[k] = Quiet(entry[k], TRUE) \/ entry'[k] = entry[k])
             /\ k \in expired =>
                   \/ entry'[k] = Quiet(PostFailed(entry[k], "unknown", TRUE), TRUE)
                   \/ entry'[k] = PostFailed(entry[k], "unknown", TRUE)
  <2>1. k \in outbox /\ k \in Msgs /\ entry[k].owner = account
    BY <1>1, PBefore
  <2>2. entry[k] \in Entry
    BY <2>1, PBefore DEF Mine
  <2> QED
    BY <1>1, <2>1, <2>2
<1>3. \A e \in Entry : LET f == PostFailed(e, "unknown", TRUE) IN
          f \in Entry /\ f.token = e.token /\ ~f.inFlight
  BY PostFailedEntry DEF Follows, Failures
<1>4. \A e \in Entry, b \in BOOLEAN : Quiet(e, b).inFlight = e.inFlight
  BY DEF Quiet, Entry
<1>5. ASSUME NEW k \in outbox'
      PROVE  entry'[k].token = entry[k].token /\ ~Posts(k)
  <2>1. CASE k \in expired
    <3>1. PICK f \in Entry : f = PostFailed(entry[k], "unknown", TRUE)
      BY <1>2, <1>3
    <3>2. f.token = entry[k].token /\ ~f.inFlight /\ entry'[k] \in {Quiet(f, TRUE), f}
      BY <1>2, <1>3, <2>1, <3>1
    <3>3. Quiet(f, TRUE).token = f.token /\ ~Quiet(f, TRUE).inFlight
      BY <1>4, <3>2, QuietYields
    <3> QED
      BY <3>2, <3>3 DEF Posts
  <2>2. CASE k \notin expired
    BY <1>2, <2>2, QuietYields DEF Posts
  <2> QED
    BY <2>1, <2>2
<1>6. ASSUME NEW r \in Rooms
      PROVE  \/ sendQueue'[r] = {}
             \/ /\ sendQueue'[r] \subseteq sendQueue[r]
                /\ \A k \in outbox' : k \in sendQueue[r] => k \in sendQueue'[r]
                /\ \A k \in outbox' :
                      entry[k].token = r /\ Yields(entry'[k]) => Yields(entry[k])
  <2>1. CASE \E m \in expired : entry[m].token = r
    BY <1>1, <2>1
  <2>2. CASE ~\E m \in expired : entry[m].token = r
    <3>1. sendQueue'[r] = sendQueue[r] \cap outbox'
      BY <1>1, <2>2
    <3>2. ASSUME NEW k \in outbox', entry[k].token = r, Yields(entry'[k]) PROVE Yields(entry[k])
      <4>1. k \notin expired
        BY <2>2, <3>2
      <4> QED
        BY <1>2, <3>2, <4>1, QuietYields
    <3> QED
      BY <3>1, <3>2
  <2> QED
    BY <2>1, <2>2
<1> QED
  BY <1>2, <1>5, <1>6, CalmOrder

\* What a queue leaves behind as it sends its first message: nothing that waits in it is
\* passed.
LEMMA SendNextOrder ==
    ASSUME PInv', NEW r \in Rooms, NEW queue, NEW en, NEW ps,
           queue \subseteq outbox', en \in [Msgs -> Entry],
           sendQueue \in [Rooms -> SUBSET Msgs], attemptSeq \in [Msgs -> Nat],
           SendNextQueued(r, queue, outbox', en, ps),
           NEW m \in outbox', NEW o \in outbox', Overtakes(m, o)
    PROVE  /\ o < m /\ en[o].token = en[m].token /\ Yields(en[o])
           /\ \/ m \in queue /\ o \notin queue
              \/ \E q \in Rooms : q # r /\ m \in sendQueue[q] /\ o \notin sendQueue[q]
PROOF
<1>1. /\ o < m /\ entry'[o].token = entry'[m].token /\ Yields(entry'[o])
      /\ \/ Posts(m)
         \/ \E q \in Rooms : m \in sendQueue'[q] /\ o \notin sendQueue'[q]
  BY OvertakesMeans
<1>2. outbox' \subseteq Msgs /\ m \in Msgs /\ o \in Msgs /\ m \in Int /\ o \in Int
  BY PBefore DEF PInv, Held, Msgs
<1>3. CASE /\ sendQueue' = [sendQueue EXCEPT ![r] = {}]
           /\ entry' = en /\ UNCHANGED attemptSeq
  <2>1. ~Posts(m)
    BY <1>3 DEF Posts
  <2>2. PICK q \in Rooms : m \in sendQueue'[q] /\ o \notin sendQueue'[q]
    BY <1>1, <2>1
  <2>3. q # r /\ sendQueue'[q] = sendQueue[q]
    BY <1>3, <2>2
  <2> QED
    BY <1>1, <1>3, <2>2, <2>3
<1>4. ASSUME NEW n \in queue, Sendable(n, outbox', en),
             \A k \in queue : k < n => ~Sendable(k, outbox', en),
             sendQueue' = [sendQueue EXCEPT ![r] = {k \in queue : k > n}],
             StartAttempt(n, en, ps)
      PROVE  /\ en[o].token = en[m].token /\ Yields(en[o])
             /\ \/ m \in queue /\ o \notin queue
                \/ \E q \in Rooms : q # r /\ m \in sendQueue[q] /\ o \notin sendQueue[q]
  <2>1. /\ n \in Msgs /\ n \in Int /\ attemptSeq' = [attemptSeq EXCEPT ![n] = @ + 1]
        /\ entry' = [en EXCEPT ![n] = Posted(@)]
    BY <1>2, <1>4 DEF StartAttempt, Msgs
  <2>2. entry'[n].inFlight /\ entry'[n].token = en[n].token
    <3>1. entry'[n] = Posted(en[n]) /\ en[n] \in Entry
      BY <2>1
    <3> QED
      BY <3>1, PostedEntry DEF Posted, Entry
  <2>3. o # n
    BY <1>1, <2>2 DEF Yields, Waiting
  <2>4. entry'[o] = en[o] /\ Yields(en[o]) /\ en[m].token = entry'[m].token
    BY <1>1, <1>2, <2>1, <2>2, <2>3
  <2>5. Sendable(o, outbox', en)
    BY <2>4 DEF Sendable, Yields
  <2>6. o \in queue => o > n
    BY <1>2, <1>4, <2>1, <2>3, <2>5
  <2>7. Posts(m) => m = n
    BY <1>2, <2>1 DEF Posts
  <2>8. CASE Posts(m)
    BY <1>1, <1>2, <1>4, <2>1, <2>4, <2>6, <2>7, <2>8
  <2>9. CASE \E q \in Rooms : m \in sendQueue'[q] /\ o \notin sendQueue'[q]
    <3>1. PICK q \in Rooms : m \in sendQueue'[q] /\ o \notin sendQueue'[q]
      BY <2>9
    <3>2. CASE q = r
      <4>1. m \in queue /\ ~(o \in queue /\ o > n)
        BY <1>4, <3>1, <3>2
      <4> QED
        BY <1>1, <2>4, <2>6, <4>1
    <3>3. CASE q # r
      <4>1. sendQueue'[q] = sendQueue[q]
        BY <1>4, <3>3
      <4> QED
        BY <1>1, <2>4, <3>1, <3>3, <4>1
    <3> QED
      BY <3>2, <3>3
  <2> QED
    BY <1>1, <2>8, <2>9
<1> QED
  BY <1>1, <1>3, <1>4 DEF SendNextQueued

LEMMA ReplyUntrackedOrder ==
    ASSUME PInv, PInv', NEW p \in posts, NEW hung \in BOOLEAN, ReplyUntracked(p, hung)
    PROVE  Ordered
PROOF
<1>1. /\ outbox' = outbox /\ p.token \in Rooms
      /\ SendNextQueued(p.token, sendQueue[p.token], outbox', entry,
                        (posts \ {p}) \cup Leftover(p, hung))
  BY PBefore DEF ReplyUntracked
<1>2. ASSUME NEW m \in outbox', NEW o \in outbox', Overtakes(m, o) PROVE Ahead(m, o)
  <2>1. /\ o < m /\ entry[o].token = entry[m].token /\ Yields(entry[o])
        /\ \/ m \in sendQueue[p.token] /\ o \notin sendQueue[p.token]
           \/ \E q \in Rooms : q # p.token /\ m \in sendQueue[q] /\ o \notin sendQueue[q]
    BY <1>1, <1>2, SendNextOrder, PBefore
  <2> QED
    BY <1>1, <2>1 DEF Ahead, Yields
<1> QED
  BY <1>2 DEF Ordered, Skips

LEMMA ReplyDeliveredOrder ==
    ASSUME PInv, PInv', NEW p \in posts, ReplyDelivered(p) PROVE Ordered
PROOF
<1>1. /\ outbox' = outbox \ {p.msg} /\ p.token \in Rooms /\ p.msg \in Msgs
      /\ SendNextQueued(p.token, sendQueue[p.token] \ {p.msg}, outbox', Without(p.msg),
                        posts \ {p})
  BY PBefore DEF ReplyDelivered
<1>2. Without(p.msg) \in [Msgs -> Entry] /\ \A k \in outbox' : Without(p.msg)[k] = entry[k]
  BY <1>1, BlankEntry, PBefore DEF Without
<1>3. ASSUME NEW m \in outbox', NEW o \in outbox', Overtakes(m, o) PROVE Ahead(m, o)
  <2>1. sendQueue[p.token] \ {p.msg} \subseteq outbox'
    BY <1>1, PBefore
  <2>2. PICK queue, en, ps : /\ queue = sendQueue[p.token] \ {p.msg} /\ en = Without(p.msg)
                           /\ ps = posts \ {p}
    OBVIOUS
  <2>3. /\ queue \subseteq outbox' /\ en \in [Msgs -> Entry]
        /\ SendNextQueued(p.token, queue, outbox', en, ps)
    BY <1>1, <1>2, <2>1, <2>2
  <2>4. sendQueue \in [Rooms -> SUBSET Msgs] /\ attemptSeq \in [Msgs -> Nat]
    BY PBefore
  <2>5. /\ o < m /\ en[o].token = en[m].token /\ Yields(en[o])
        /\ \/ m \in queue /\ o \notin queue
           \/ \E q \in Rooms : q # p.token /\ m \in sendQueue[q] /\ o \notin sendQueue[q]
    BY <1>1, <1>3, <2>3, <2>4, SMTT(60), SendNextOrder
  <2>6. en[o] = entry[o] /\ en[m] = entry[m] /\ o # p.msg
    BY <1>1, <1>2, <2>2
  <2>7. \E q \in Rooms : m \in sendQueue[q] /\ o \notin sendQueue[q]
    BY <1>1, <2>2, <2>5, <2>6
  <2>8. o < m /\ {m, o} \subseteq outbox /\ entry[o].token = entry[m].token /\ Yields(entry[o])
    BY <1>1, <2>5, <2>6
  <2> QED
    BY <2>7, <2>8 DEF Ahead, Yields
<1> QED
  BY <1>3 DEF Ordered, Skips

LEMMA ProbeAnsweredOrder ==
    ASSUME PInv, PInv', NEW r \in Rooms, ProbeAnswered(r) PROVE Ordered
PROOF
<1> DEFINE judged == {m \in outbox : /\ entry[m].token = r /\ Waiting(entry[m])
                                     /\ entry[m].quiet}
           delivered == {m \in judged : afterProbe(m, page[r]) = "MarkDelivered"}
           toSend == {m \in judged : afterProbe(m, page[r]) = "Resend"}
           giveUp == {m \in judged : afterProbe(m, page[r]) = "GiveUp"}
           en1 == [m \in Msgs |-> IF m \in delivered THEN Blank
                                  ELSE IF m \in giveUp THEN GivenUp(entry[m])
                                  ELSE entry[m]]
           en == Unquiet(r, en1)
<1>1. /\ outbox' = outbox \ delivered /\ r \in probing /\ probing' = probing \ {r}
      /\ IF toSend # {} THEN SendNextQueued(r, toSend, outbox', en, posts)
         ELSE /\ entry' = en /\ sendQueue' = [sendQueue EXCEPT ![r] = @ \ delivered]
              /\ UNCHANGED attemptSeq
  BY DEF ProbeAnswered
<1>2. \A k \in judged : k \in delivered \/ k \in toSend \/ k \in giveUp
  <2>1. page[r] \in Nat
    BY PBefore DEF ProbeAnswered, TypeOK
  <2>2. \A k \in judged : probeVerdict(k, page[r]) \in {"Delivered", "Absent", "Inconclusive"}
    BY <2>1 DEF probeVerdict
  <2>3. \A k \in judged : afterProbe(k, page[r]) \in {"MarkDelivered", "Resend", "GiveUp"}
    BY <2>2 DEF afterProbe
  <2> QED
    BY <2>3
<1>3. ASSUME NEW k \in outbox'
      PROVE  /\ k \in Msgs /\ k \notin delivered /\ entry[k] \in Entry
             /\ en[k].token = entry[k].token
             /\ Yields(en[k]) => Yields(entry[k]) /\ (k \in judged => k \in toSend)
  <2>1. k \in Msgs /\ k \in outbox /\ k \notin delivered /\ entry[k] \in Entry
    BY <1>1, PBefore DEF Mine
  <2>2. PICK f : f = en1[k]
    OBVIOUS
  <2>3. IF k \in giveUp THEN f = GivenUp(entry[k]) ELSE f = entry[k]
    BY <2>1, <2>2
  <2>4. f \in Entry /\ Tamer(entry[k], f) /\ (Yields(f) => k \notin giveUp)
    BY <2>1, <2>3, SmallTamer, GivenUpFollows, GivenUpSettled DEF Stays, Follows
  <2>5. en[k] = Quiet(f, FALSE) \/ en[k] = f
    BY <2>1, <2>2 DEF Unquiet
  <2>6. en[k].token = f.token /\ Yields(en[k]) = Yields(f)
    BY <2>4, <2>5, QuietYields
  <2> QED
    BY <1>2, <2>1, <2>4, <2>6 DEF Tamer
<1>4. en \in [Msgs -> Entry]
  <2>1. ASSUME NEW k \in Msgs PROVE en1[k] \in Entry
    <3>1. entry[k] \in Entry
      BY PBefore
    <3> QED
      BY <3>1, BlankEntry, GivenUpFollows DEF Stays, Follows
  <2>2. \A k \in Msgs : Quiet(en1[k], FALSE) \in Entry
    BY <2>1, UnquietFollows DEF Stays, Follows
  <2> QED
    BY <2>1, <2>2 DEF Unquiet
<1>5. toSend \subseteq outbox' /\ \A k \in toSend : entry[k].token = r
  BY <1>1
<1>6. \A k \in outbox' : entry[k].token = r /\ Yields(en[k]) /\ k \notin toSend => ~entry[k].quiet
  BY <1>1, <1>3 DEF Yields
<1> HIDE DEF toSend, delivered, en
<1>7. ASSUME NEW m \in outbox', NEW o \in outbox', Overtakes(m, o) PROVE Skips(m, o)
  <2>1. \A q \in Rooms : \A k \in sendQueue[q] : entry[k].token = q
    BY DEF PInv, Held
  <2>2. CASE toSend # {}
    <3> PICK queue, f : queue = toSend /\ f = en
      OBVIOUS
    <3>4. /\ queue \subseteq outbox' /\ f \in [Msgs -> Entry]
          /\ SendNextQueued(r, queue, outbox', f, posts)
      BY <1>1, <1>4, <1>5, <2>2
    <3>5. sendQueue \in [Rooms -> SUBSET Msgs] /\ attemptSeq \in [Msgs -> Nat]
      BY PBefore
    <3>6. /\ o < m /\ f[o].token = f[m].token /\ Yields(f[o])
          /\ \/ m \in queue /\ o \notin queue
             \/ \E q \in Rooms : q # r /\ m \in sendQueue[q] /\ o \notin sendQueue[q]
      BY <1>7, <3>4, <3>5, SendNextOrder
    <3>1. /\ o < m /\ entry[o].token = entry[m].token /\ Yields(en[o])
          /\ \/ m \in toSend /\ o \notin toSend
             \/ \E q \in Rooms : q # r /\ m \in sendQueue[q] /\ o \notin sendQueue[q]
      BY <1>3, <3>6
    <3>2. CASE m \in toSend /\ o \notin toSend
      BY <1>1, <1>5, <1>6, <3>1, <3>2 DEF Skips
    <3>3. CASE \E q \in Rooms : m \in sendQueue[q] /\ o \notin sendQueue[q]
      BY <1>1, <1>3, <3>1, <3>3 DEF Skips, Ahead, Yields
    <3> QED
      BY <3>1, <3>2, <3>3
  <2>3. CASE toSend = {}
    <3>1. /\ entry' = en /\ attemptSeq' = attemptSeq
          /\ sendQueue' = [sendQueue EXCEPT ![r] = @ \ delivered]
      BY <1>1, <2>3
    <3>2. /\ o < m /\ en[o].token = en[m].token /\ Yields(en[o])
          /\ \E q \in Rooms : m \in sendQueue'[q] /\ o \notin sendQueue'[q]
      BY <1>7, <3>1, OvertakesMeans, NoAttempt
    <3>3. PICK q \in Rooms : m \in sendQueue'[q] /\ o \notin sendQueue'[q]
      BY <3>2
    <3>4. m \in sendQueue[q] /\ o \notin sendQueue[q]
      BY <1>1, <1>3, <3>1, <3>3, PBefore
    <3> QED
      BY <1>1, <1>3, <3>2, <3>4 DEF Skips, Ahead, Yields
  <2> QED
    BY <2>2, <2>3
<1> QED
  BY <1>7 DEF Ordered

\* A new message comes after what waits in its room.
LEMMA SendMessageOrder ==
    ASSUME OutboxAssumption, PInv, PInv', NEW n \in Msgs, SendMessage(n) PROVE Ordered
PROOF
<1>1. PICK known \in 0..newest[token] :
         LET en == [entry EXCEPT ![n] = Composed(known)]
         IN IF behindOlder(token)
            THEN entry' = Kicked(en) /\ UNCHANGED <<attemptSeq, posts>>
            ELSE StartAttempt(n, en, posts)
  BY DEF SendMessage
<1> DEFINE en == [entry EXCEPT ![n] = Composed(known)]
<1>2. /\ token \in Rooms /\ account \in Accounts /\ n = sent + 1
      /\ outbox' = outbox \cup {n} /\ sendQueue' = sendQueue
      /\ sent \in Nat /\ known \in Nat
  BY PBefore DEF SendMessage, TypeOK, Msgs, OutboxAssumption
<1>3. Composed(known) \in Entry /\ Composed(known).token = token
  BY <1>2, ComposedMine DEF Mine, Composed, Blank
<1>4. /\ en[n] = Composed(known) /\ \A k \in Msgs : k # n => en[k] = entry[k]
      /\ en \in [Msgs -> Entry]
  BY <1>3, PBefore
<1>5. outbox \subseteq 1..sent /\ \A k \in outbox : k \in Msgs /\ k < n /\ entry[k] \in Entry
  BY <1>2, PBefore
<1> HIDE DEF en
<1>6. ASSUME NEW k \in outbox
      PROVE  /\ entry'[k].token = entry[k].token
             /\ Yields(entry'[k]) => Yields(entry[k])
             /\ k # n /\ ~Posts(k)
  <2>1. en[k] = entry[k] /\ entry[k] \in Entry /\ k \in Msgs /\ k # n
    BY <1>2, <1>4, <1>5
  <2>2. CASE behindOlder(token)
    <3>1. entry' = Kicked(en) /\ attemptSeq' = attemptSeq
      BY <1>1, <2>2 DEF en
    <3>2. entry'[k] \in {entry[k], Waits(entry[k], "short")}
      BY <2>1, <3>1 DEF Kicked
    <3> QED
      BY <2>1, <3>1, <3>2, SmallTamer DEF Tamer, Posts
  <2>3. CASE ~behindOlder(token)
    <3>1. StartAttempt(n, en, posts)
      BY <1>1, <2>3 DEF en
    <3>2. entry'[k] = entry[k] /\ attemptSeq'[k] = attemptSeq[k]
      BY <1>4, <2>1, <3>1, PBefore DEF StartAttempt
    <3> QED
      BY <2>1, <3>2 DEF Posts
  <2> QED
    BY <2>2, <2>3
<1>7. entry'[n].token = token /\ (behindOlder(token) => ~Posts(n))
  <2>1. CASE behindOlder(token)
    <3>1. entry' = Kicked(en) /\ attemptSeq' = attemptSeq
      BY <1>1, <2>1 DEF en
    <3>2. entry'[n] \in {Composed(known), Waits(Composed(known), "short")}
      BY <1>4, <3>1 DEF Kicked
    <3> QED
      BY <1>3, <3>1, <3>2, SmallTamer DEF Tamer, Posts
  <2>2. CASE ~behindOlder(token)
    <3>1. StartAttempt(n, en, posts)
      BY <1>1, <2>2 DEF en
    <3>2. entry'[n] = Posted(Composed(known))
      BY <1>4, <3>1 DEF StartAttempt
    <3> QED
      BY <1>3, <2>2, <3>2 DEF Posted, Entry
  <2> QED
    BY <2>1, <2>2
<1>8. ASSUME NEW m \in outbox', NEW o \in outbox', Overtakes(m, o) PROVE Skips(m, o)
  <2>1. /\ o < m /\ entry'[o].token = entry'[m].token /\ Yields(entry'[o])
        /\ \/ Posts(m)
           \/ \E r \in Rooms : /\ m \in sendQueue'[r] /\ o \notin sendQueue'[r]
                               /\ entry'[m].token = r
    BY <1>8, OvertakesMeans
  <2>2. o \in outbox
    BY <1>2, <1>5, <2>1
  <2>3. Yields(entry[o]) /\ entry'[o].token = entry[o].token
    BY <1>6, <2>1, <2>2
  <2>4. ~Posts(m)
    <3>1. CASE m = n
      <4>1. entry[o].token = token /\ Waiting(entry[o])
        BY <1>7, <2>1, <2>3, <3>1 DEF Yields
      <4>2. behindOlder(token)
        BY <2>2, <4>1 DEF behindOlder
      <4> QED
        BY <1>7, <3>1, <4>2
    <3>2. CASE m # n
      BY <1>2, <1>6, <3>2
    <3> QED
      BY <3>1, <3>2
  <2>5. PICK r \in Rooms : m \in sendQueue[r] /\ o \notin sendQueue[r]
    BY <1>2, <2>1, <2>4
  <2>6. m \in outbox /\ entry'[m].token = entry[m].token
    BY <1>6, <2>5, PBefore
  <2> QED
    BY <2>1, <2>2, <2>3, <2>5, <2>6 DEF Skips, Ahead, Yields
<1> QED
  BY <1>8 DEF Ordered

LEMMA OrderNext == ASSUME OutboxAssumption, PInv, PInv', [Next]_vars PROVE Ordered
PROOF
<1>1. CASE User
  BY <1>1, SendMessageOrder, UserOrder DEF User
<1>2. CASE Network
  <2>1. CASE \E p \in posts : ServerSave(p)
    BY <2>1, QuietStepsOrder
  <2>2. CASE \E p \in posts : Reply(p)
    BY <2>2, ReplyUntrackedOrder, QuietStepsOrder, ReplyDeliveredOrder, ReplyFailedOrder
       DEF Reply
  <2>3. CASE \E m \in Msgs : Echo(m)
    BY <2>3, QuietStepsOrder
  <2>4. CASE \E r \in Rooms : OthersWrite(r) \/ ProbeServed(r)
    BY <2>4, QuietStepsOrder
  <2>5. CASE \E r \in Rooms : ProbeAnswered(r) \/ \E denied \in BOOLEAN : ProbeFailed(r, denied)
    BY <2>5, ProbeAnsweredOrder, ProbeFailedOrder
  <2> QED
    BY <1>2, <2>1, <2>2, <2>3, <2>4, <2>5 DEF Network
<1>3. CASE Timers
  BY <1>3, QuietStepsOrder, TickOrder DEF Timers
<1>4. CASE UNCHANGED vars
  BY <1>4, QuietStepsOrder
<1> QED
  BY <1>1, <1>2, <1>3, <1>4 DEF Next

\* A message comes before an older waiting one of its room, in the queue or with a
\* POST, only as a probe is judged that skips the older one: no reply, failure, tick,
\* new message, login or late answer lets it pass, with any number of messages,
\* rooms and accounts (MessageListModel.h:349-350, sendNextQueued, probeToken).
THEOREM SpecPassesOnlyTheSkipped == Spec => PassesOnlyTheSkipped
PROOF
<1>1. ASSUME PInv, PInv', [Next]_vars PROVE Ordered
  BY <1>1, OrderNext, OutboxAssumption
<1>2. Ordered => \A m, o \in outbox' :
          Ahead(m, o)' \/ Passes(m, o) =>
              Ahead(m, o) \/ (entry[o].token \in probing \ probing' /\ ~entry[o].quiet)
  BY DEF Ordered, Overtakes, Skips
<1> QED
  BY <1>1, <1>2, SpecPInv, PTL DEF Spec, PassesOnlyTheSkipped

=============================================================================
