-------------------------- MODULE RoomHistoryProofs --------------------------
(***************************************************************************)
(* What the list of the open room keeps to, for any number of rooms,       *)
(* messages and requests: types, that it shows the open view only, that a  *)
(* list with messages is never left without the long-poll, and that no     *)
(* message is missing between its rows but where a gap was let in          *)
(* (`excused').                                                            *)
(***************************************************************************)
EXTENDS RoomHistory, FiniteSetTheorems, SequenceTheorems, WellFoundedInduction, TLAPS

\* The rows the open view may show.
All == IF token \in Rooms THEN Rows(token, 1..Len(kinds[token])) ELSE {}

ViewInv == view.shown \subseteq Of(token, All)

\* What is asked for and not dropped is asked for the open room.
Fresh(requests) == \A q \in requests : q.room \in Rooms /\ (q.fresh => q.room = token)

PollInv == poll.on => poll.room = token /\ token \in Rooms

CacheInv == \A r \in Rooms : cache[r] \subseteq 1..Len(kinds[r])

LoadsInv == \A i \in 1..Len(loads) : loads[i].page \subseteq 1..Len(kinds[loads[i].room])

HistoryInv == history # NoRequest => token \in Rooms

\* Without topics the list is not emptied while a gap fill is at work in it.
Settles == ~Threads => PollsWhenSettled /\ (Filling => view.shown # {})

HInv ==
    /\ TypeOK /\ ViewInv /\ Fresh(refreshes) /\ Fresh(gapReplies) /\ PollInv
    /\ HistoryInv /\ CacheInv /\ LoadsInv /\ Settles

Polls == [on : BOOLEAN, room : Rooms \cup {NoRoom}, cursor : Nat]
Gaps == [cursor : Nat, target : Nat, left : 0..GapPages]
Views == [shown : SUBSET (Rooms \X (Nat \ {0})), oldest : Nat, more : BOOLEAN]
Loads == [room : Rooms, page : SUBSET Nat]

-----------------------------------------------------------------------------
(* Newest and oldest.                                                      *)

LEMMA Smallest ==
    ASSUME NEW S, S \subseteq Nat, S # {}
    PROVE  \E i \in S : \A j \in S : i <= j
PROOF
<1>1. \E i \in S : \A j \in S : ~(<<j, i>> \in OpToRel(<, Nat))
  BY NatLessThanWellFounded, WFMin
<1>2. \A i, j \in S : j < i => <<j, i>> \in OpToRel(<, Nat)
  BY DEF OpToRel
<1>3. PICK i \in S : \A j \in S : ~(<<j, i>> \in OpToRel(<, Nat))
  BY <1>1
<1>4. \A j \in S : ~(j < i)
  BY <1>2, <1>3
<1> QED
  BY <1>4

LEMMA Largest ==
    ASSUME NEW n \in Nat, NEW S, S \subseteq 0..n, S # {}
    PROVE  \E i \in S : \A j \in S : i >= j
PROOF
<1> DEFINE T == {n - i : i \in S}
<1>1. T \subseteq Nat /\ T # {}
  <2>1. ASSUME NEW i \in S PROVE n - i \in Nat
    <3>1. i \in Int /\ i <= n
      BY <2>1
    <3> QED
      BY <3>1
  <2> QED
    BY <2>1
<1>2. PICK k \in T : \A j \in T : k <= j
  BY <1>1, Smallest
<1>3. PICK i \in S : k = n - i
  OBVIOUS
<1>4. \A j \in S : n - j \in T
  OBVIOUS
<1>5. \A j \in S : i >= j
  BY <1>2, <1>3, <1>4
<1> QED
  BY <1>5

LEMMA MinOfType ==
    ASSUME NEW S, S \subseteq Nat
    PROVE  MinOf(S) \in Nat /\ (S # {} => MinOf(S) \in S)
PROOF
BY Smallest DEF MinOf

LEMMA MaxOfType ==
    ASSUME NEW n \in Nat, NEW S, S \subseteq 0..n
    PROVE  MaxOf(S) \in 0..n /\ (S # {} => MaxOf(S) \in S)
PROOF
<1>1. CASE S = {}
  BY <1>1 DEF MaxOf
<1>2. CASE S # {}
  <2>1. \E i \in S : \A j \in S : i >= j
    BY <1>2, Largest
  <2>2. MaxOf(S) \in S
    BY <1>2, <2>1 DEF MaxOf
  <2> QED
    BY <2>2
<1> QED
  BY <1>1, <1>2

-----------------------------------------------------------------------------
(* Rows and pages.                                                         *)

LEMMA IdsOf == ASSUME NEW r, NEW S PROVE Ids(Of(r, S)) = S
PROOF
<1>1. ASSUME NEW i \in S PROVE i \in Ids(Of(r, S))
  <2>1. <<r, i>> \in Of(r, S) /\ <<r, i>>[2] = i
    BY DEF Of
  <2> QED
    BY <2>1 DEF Ids
<1>2. ASSUME NEW i \in Ids(Of(r, S)) PROVE i \in S
  <2>1. PICK m \in Of(r, S) : i = m[2]
    BY <1>2 DEF Ids
  <2>2. PICK j \in S : m = <<r, j>>
    BY DEF Of
  <2> QED
    BY <2>1, <2>2
<1> QED
  BY <1>1, <1>2

LEMMA IdsMonotone ==
    ASSUME NEW A, NEW B, A \subseteq B PROVE Ids(A) \subseteq Ids(B)
PROOF
BY DEF Ids

LEMMA OfMonotone ==
    ASSUME NEW r, NEW A, NEW B, A \subseteq B PROVE Of(r, A) \subseteq Of(r, B)
PROOF
BY DEF Of

LEMMA KindsType ==
    ASSUME TypeOK, NEW r \in Rooms
    PROVE  kinds[r] \in Seq(Kinds) /\ Len(kinds[r]) \in Nat
PROOF
BY DEF TypeOK

LEMMA AllType ==
    ASSUME TypeOK
    PROVE  \E n \in Nat : All \subseteq 1..n /\ (token \in Rooms => n = Len(kinds[token]))
PROOF
<1>1. CASE token \in Rooms
  BY <1>1, KindsType DEF All, Rows
<1>2. CASE token \notin Rooms
  BY <1>2 DEF All
<1> QED
  BY <1>1, <1>2

\* A list that shows the open view.
LEMMA ShownType ==
    ASSUME TypeOK, HistoryAssumption, NEW shown, shown \subseteq Of(token, All)
    PROVE  /\ shown \in SUBSET (Rooms \X (Nat \ {0}))
           /\ Ids(shown) \subseteq All /\ Ids(shown) \subseteq Nat \ {0}
           /\ MaxOf(Ids(shown)) \in Nat /\ MinOf(Ids(shown)) \in Nat
           /\ shown # {} => MaxOf(Ids(shown)) # 0 /\ token \in Rooms
           /\ shown = {} => MaxOf(Ids(shown)) = 0
PROOF
<1>1. PICK n \in Nat : All \subseteq 1..n
  BY AllType
<1>2. Ids(shown) \subseteq All
  BY IdsMonotone, IdsOf
<1>3. Ids(shown) \subseteq 0..n /\ Ids(shown) \subseteq Nat \ {0} /\ Ids(shown) \subseteq Nat
  <2>1. Ids(shown) \subseteq 1..n
    BY <1>1, <1>2
  <2> HIDE DEF Ids
  <2>2. \A i \in 1..n : i \in 0..n /\ i \in Nat \ {0}
    OBVIOUS
  <2> QED
    BY <2>1, <2>2
<1>4. MaxOf(Ids(shown)) \in Nat /\ MinOf(Ids(shown)) \in Nat
  BY <1>3, MaxOfType, MinOfType
<1>5. shown # {} => MaxOf(Ids(shown)) # 0
  <2>1. shown # {} => Ids(shown) # {}
    BY DEF Ids
  <2> QED
    BY <1>3, <2>1, MaxOfType
<1>6. shown # {} => token \in Rooms
  BY DEF All, Of
<1>7. shown = {} => MaxOf(Ids(shown)) = 0
  BY DEF Ids, MaxOf
<1>8. shown \in SUBSET (Rooms \X (Nat \ {0}))
  <2>1. ASSUME NEW m \in shown PROVE m \in Rooms \X (Nat \ {0})
    <3>1. PICK i \in All : m = <<token, i>>
      BY DEF Of
    <3>2. token \in Rooms /\ i \in Nat \ {0}
      BY <1>1, <1>6, <3>1
    <3> QED
      BY <3>1, <3>2
  <2> QED
    BY <2>1
<1> QED
  BY <1>2, <1>3, <1>4, <1>5, <1>6, <1>7, <1>8

\* A page holds messages of its room.
LEMMA PageHolds ==
    ASSUME TypeOK, NEW q, NEW limit, NEW n, token \in Rooms,
           n \in Nat, n <= Len(kinds[token])
    PROVE  /\ Page(q, limit, n) \subseteq 1..Len(kinds[token])
           /\ Rows(token, Page(q, limit, n)) \subseteq All
           /\ Rows(token, Page(q, limit, n)) \subseteq Nat \ {0}
PROOF
<1>1. Page(q, limit, n) \subseteq 1..n
  BY DEF Page, Top
<1>2. Len(kinds[token]) \in Nat
  BY KindsType
<1>3. Page(q, limit, n) \subseteq 1..Len(kinds[token])
  BY <1>1, <1>2
<1> QED
  BY <1>2, <1>3 DEF Rows, All

LEMMA TopicType == TypeOK => topic \in BOOLEAN
PROOF
BY DEF TypeOK

LEMMA AskType ==
    ASSUME TypeOK, NEW r \in Rooms, NEW t \in BOOLEAN, NEW before \in Nat, NEW target \in Nat
    PROVE  /\ Ask(r, t, before, target) \in Request
           /\ Ask(r, t, before, target).room = r /\ Ask(r, t, before, target).fresh
PROOF
BY KindsType DEF Ask, Request

LEMMA StaleType ==
    ASSUME NEW requests, requests \subseteq Request
    PROVE  Stale(requests) \subseteq Request /\ \A q \in Stale(requests) : ~q.fresh
PROOF
BY DEF Stale, Request

\* The long-poll is started if there is anything to start it from.
LEMMA StartedType ==
    ASSUME TypeOK, HistoryAssumption, NEW p \in Polls, p.on => p.room = token /\ token \in Rooms,
           NEW shown, shown \subseteq Of(token, All)
    PROVE  /\ Started(p, shown) \in Polls
           /\ Started(p, shown).on => Started(p, shown).room = token /\ token \in Rooms
           /\ shown # {} => Started(p, shown).on
PROOF
<1> DEFINE newest == MaxOf(Ids(shown))
<1>1. /\ newest \in Nat /\ (shown # {} => newest # 0 /\ token \in Rooms)
      /\ (shown = {} => newest = 0)
  BY ShownType
<1> HIDE DEF newest
<1>2. CASE newest = 0
  BY <1>1, <1>2 DEF Started, newest
<1>3. CASE newest # 0
  <2>1. Started(p, shown) =
          [on |-> TRUE, room |-> token,
           cursor |-> IF p.room = token /\ p.cursor > newest THEN p.cursor ELSE newest]
    BY <1>3 DEF Started, newest
  <2>2. p.cursor \in Nat /\ token \in Rooms
    BY <1>1, <1>3 DEF Polls
  <2> QED
    BY <1>1, <2>1, <2>2 DEF Polls
<1> QED
  BY <1>2, <1>3

LEMMA StoppedType == TypeOK => StoppedPoller \in Polls /\ ~StoppedPoller.on
PROOF
BY DEF TypeOK, StoppedPoller, Polls

LEMMA GapStepType ==
    ASSUME TypeOK, HistoryAssumption, token \in Rooms, NEW cursor \in Nat, NEW target \in Nat,
           NEW left \in Int, left <= GapPages, NEW replies, replies \subseteq Request,
           Fresh(replies), GapStep(cursor, target, left, replies)
    PROVE  gap' \in Gaps /\ gapReplies' \subseteq Request /\ Fresh(gapReplies')
PROOF
<1>1. CASE gap' = NoGap /\ gapReplies' = replies
  BY <1>1 DEF NoGap, Gaps, HistoryAssumption
<1>2. CASE /\ cursor > 0 /\ left > 0
           /\ gap' = [cursor |-> cursor, target |-> target, left |-> left]
           /\ gapReplies' = replies \cup {Ask(token, topic, cursor, target)}
  <2>1. Ask(token, topic, cursor, target) \in Request
        /\ Ask(token, topic, cursor, target).room = token
    BY AskType, TopicType
  <2>2. left \in 0..GapPages
    BY <1>2 DEF HistoryAssumption
  <2>3. gapReplies' \subseteq Request /\ gap' \in Gaps
    BY <1>2, <2>1, <2>2 DEF Gaps
  <2>4. Fresh(gapReplies')
    BY <1>2, <2>1 DEF Fresh
  <2> QED
    BY <2>3, <2>4
<1> QED
  BY <1>1, <1>2 DEF GapStep

-----------------------------------------------------------------------------
(* Steps that leave the open view and the server as they are.              *)

LEMMA SameView ==
    ASSUME token' = token, topic' = topic, kinds' = kinds
    PROVE  All' = All
PROOF
BY DEF All, Rows, Passes

LEMMA TypeNext ==
    ASSUME token' \in Rooms \cup {NoRoom}, topic' \in BOOLEAN, view' \in Views,
           history' \in Request, history' # NoRequest => history'.room = token',
           refreshes' \subseteq Request, gapReplies' \subseteq Request,
           gap' \in Gaps, poll' \in Polls, loads' \in Seq(Loads),
           cache' \in [Rooms -> SUBSET (Nat \ {0})], kinds' \in [Rooms -> Seq(Kinds)],
           excused' \subseteq Rooms
    PROVE  TypeOK'
PROOF
BY DEF TypeOK, Views, Gaps, Polls, Loads

LEMMA HInvType ==
    HInv => /\ token \in Rooms \cup {NoRoom} /\ topic \in BOOLEAN /\ view \in Views
            /\ history \in Request /\ (history # NoRequest => history.room = token)
            /\ refreshes \subseteq Request /\ gapReplies \subseteq Request
            /\ gap \in Gaps /\ poll \in Polls /\ loads \in Seq(Loads)
            /\ cache \in [Rooms -> SUBSET (Nat \ {0})] /\ kinds \in [Rooms -> Seq(Kinds)]
            /\ excused \subseteq Rooms /\ TypeOK
PROOF
BY DEF HInv, TypeOK, Views, Gaps, Polls, Loads

LEMMA NoRequestType == NoRequest \in Request /\ NoRequest.room = NoRoom /\ ~NoRequest.fresh
PROOF
BY DEF NoRequest, Request

\* A reply of the open view.
LEMMA ListNext ==
    ASSUME HistoryAssumption, HInv, token' = token, topic' = topic, kinds' = kinds,
           loads' = loads, view' \in Views, view'.shown \subseteq Of(token, All),
           history' = history \/ history' = NoRequest,
           refreshes' \subseteq refreshes, gapReplies' \subseteq Request, Fresh(gapReplies'),
           gap' \in Gaps, poll' \in Polls, poll'.on => poll'.room = token /\ token \in Rooms,
           cache' \in [Rooms -> SUBSET (Nat \ {0})],
           \A r \in Rooms : cache'[r] \subseteq 1..Len(kinds[r]),
           excused' \subseteq Rooms, Settles'
    PROVE  HInv'
PROOF
<1>1. TypeOK'
  <2>1. history' \in Request /\ (history' # NoRequest => history'.room = token')
    BY HInvType, NoRequestType
  <2> QED
    BY <2>1, HInvType, TypeNext
<1>2. ViewInv'
  <2>1. Of(token, All)' = Of(token, All)
    BY SameView DEF Of
  <2> QED
    BY <2>1 DEF ViewInv
<1>3. Fresh(refreshes)' /\ Fresh(gapReplies)'
  BY DEF Fresh, HInv
<1>4. PollInv' /\ HistoryInv' /\ CacheInv' /\ LoadsInv'
  BY DEF PollInv, HistoryInv, CacheInv, LoadsInv, HInv
<1> QED
  BY <1>1, <1>2, <1>3, <1>4 DEF HInv

\* The list is not emptied and no gap fill begins but in a list with messages.
LEMMA SettlesNext ==
    ASSUME HInv, view'.shown # {} => poll'.on,
           view.shown # {} => view'.shown # {},
           ~Threads /\ Filling' => Filling \/ view'.shown # {}
    PROVE  Settles'
PROOF
BY DEF HInv, Settles, PollsWhenSettled

\* Rows of the open view are added to the cache.
LEMMA CacheGrows ==
    ASSUME HInv, token \in Rooms, NEW ids, ids \subseteq All,
           cache' = [cache EXCEPT ![token] = @ \cup ids]
    PROVE  /\ cache' \in [Rooms -> SUBSET (Nat \ {0})]
           /\ \A r \in Rooms : cache'[r] \subseteq 1..Len(kinds[r])
PROOF
<1>1. PICK n \in Nat : All \subseteq 1..n /\ n = Len(kinds[token])
  BY AllType, HInvType
<1>2. ids \subseteq Nat \ {0} /\ ids \subseteq 1..Len(kinds[token])
  BY <1>1
<1>3. cache \in [Rooms -> SUBSET (Nat \ {0})]
  BY HInvType
<1>4. \A r \in Rooms : cache[r] \subseteq 1..Len(kinds[r])
  BY DEF HInv, CacheInv
<1> QED
  BY <1>2, <1>3, <1>4

LEMMA CacheStays ==
    ASSUME HInv, cache' = cache
    PROVE  /\ cache' \in [Rooms -> SUBSET (Nat \ {0})]
           /\ \A r \in Rooms : cache'[r] \subseteq 1..Len(kinds[r])
PROOF
BY HInvType DEF HInv, CacheInv

LEMMA ExcuseType ==
    ASSUME HInv, token \in Rooms, NEW cause, Excuse(cause)
    PROVE  excused' \subseteq Rooms
PROOF
BY HInvType DEF Excuse

-----------------------------------------------------------------------------
(* The replies.                                                            *)

\* Rows of an answer join the list.
LEMMA Joins ==
    ASSUME HistoryAssumption, HInv, NEW rows, rows \subseteq All
    PROVE  /\ view.shown \subseteq Of(token, All)
           /\ view.shown \cup Of(token, rows) \subseteq Of(token, All)
           /\ Ids(view.shown \cup Of(token, rows)) \subseteq All
           /\ MinOf(Ids(view.shown \cup Of(token, rows))) \in Nat
           /\ MaxOf(Ids(view.shown)) \in Nat
           /\ view.shown \cup Of(token, rows) \in SUBSET (Rooms \X (Nat \ {0}))
           /\ MinOf(rows) \in Nat
PROOF
<1>1. view.shown \subseteq Of(token, All)
  BY DEF HInv, ViewInv
<1>2. view.shown \cup Of(token, rows) \subseteq Of(token, All)
  BY <1>1, OfMonotone
<1>3. MinOf(rows) \in Nat
  <2>1. PICK n \in Nat : All \subseteq 1..n
    BY AllType, HInvType
  <2>2. rows \subseteq Nat
    BY <2>1
  <2>3. MinOf(rows) \in Nat
    BY <2>2, MinOfType
  <2> QED
    BY <2>3
<1> HIDE DEF HInv
<1> QED
  BY <1>1, <1>2, <1>3, ShownType, HInvType

LEMMA PollStarts ==
    ASSUME HistoryAssumption, HInv, NEW shown, shown \subseteq Of(token, All), NEW p,
           p = poll \/ p = StoppedPoller, poll' = Started(p, shown)
    PROVE  /\ poll' \in Polls /\ (poll'.on => poll'.room = token /\ token \in Rooms)
           /\ shown # {} => poll'.on
PROOF
<1>1. p \in Polls /\ (p.on => p.room = token /\ token \in Rooms)
  BY HInvType, StoppedType DEF HInv, PollInv
<1> QED
  BY <1>1, StartedType, HInvType

LEMMA SameGaps ==
    ASSUME HInv, gapReplies' \subseteq gapReplies
    PROVE  gapReplies' \subseteq Request /\ Fresh(gapReplies') /\ (Filling' => Filling)
PROOF
BY HInvType DEF HInv, Fresh, Filling

LEMMA SamePoll ==
    ASSUME HInv, poll' = poll
    PROVE  poll' \in Polls /\ (poll'.on => poll'.room = token /\ token \in Rooms)
PROOF
BY HInvType DEF HInv, PollInv

LEMMA FreshRequest ==
    ASSUME HInv, NEW q, q \in refreshes \/ q \in gapReplies, q.fresh
    PROVE  q.room = token /\ token \in Rooms
PROOF
BY DEF HInv, Fresh

LEMMA NoGapType == HistoryAssumption => NoGap \in Gaps
PROOF
BY DEF HistoryAssumption, NoGap, Gaps

LEMMA RefreshDroppedKeeps ==
    ASSUME HistoryAssumption, HInv, NEW q, RefreshDropped(q) PROVE HInv'
PROOF
<1> USE DEF RefreshDropped
<1>1. view' \in Views /\ view'.shown \subseteq Of(token, All) /\ gap' \in Gaps
      /\ excused' \subseteq Rooms
  BY HInvType DEF HInv, ViewInv
<1>2. Settles'
  BY DEF HInv, Settles, PollsWhenSettled, Filling
<1> QED
  BY <1>1, <1>2, SameGaps, SamePoll, CacheStays, ListNext

LEMMA RefreshEmptyKeeps ==
    ASSUME HistoryAssumption, HInv, NEW q, RefreshEmpty(q) PROVE HInv'
PROOF
<1> USE DEF RefreshEmpty
<1>1. view' \in Views /\ view'.shown \subseteq Of(token, All) /\ gap' \in Gaps
  BY HInvType DEF HInv, ViewInv
<1>2. token \in Rooms
  BY FreshRequest
<1>3. excused' \subseteq Rooms
  BY <1>2, ExcuseType
<1>4. Settles'
  BY <1>1, PollStarts, SettlesNext DEF Filling
<1> QED
  BY <1>1, <1>3, <1>4, SameGaps, PollStarts, CacheStays, ListNext

LEMMA RefreshMergedKeeps ==
    ASSUME HistoryAssumption, HInv, NEW q \in refreshes,
           NEW n \in q.since..Len(kinds[q.room]), RefreshMerged(q, n)
    PROVE  HInv'
PROOF
<1> DEFINE data == Page(q, PageLimit, n)
           missing == Rows(q.room, data) \ Ids(view.shown)
           shown == view.shown \cup Of(q.room, missing)
           newestBefore == MaxOf(Ids(view.shown))
<1>1. q.room = token /\ token \in Rooms
  BY FreshRequest DEF RefreshMerged
<1>2. n \in Nat /\ n <= Len(kinds[token])
  BY <1>1, HInvType, KindsType DEF Request
<1>3. missing \subseteq All
  BY <1>1, <1>2, PageHolds, HInvType
<1>4. /\ refreshes' = refreshes \ {q}
      /\ view' = [view EXCEPT !.shown = shown,
                              !.oldest = IF missing = {} THEN @ ELSE MinOf(Ids(shown))]
      /\ cache' = IF missing = {} THEN cache
                  ELSE [cache EXCEPT ![token] = @ \cup Ids(shown)]
      /\ \/ GapStep(MinOf(missing), newestBefore, GapPages, gapReplies) /\ missing # {}
         \/ UNCHANGED <<gap, gapReplies>>
      /\ poll' = Started(StoppedPoller, shown)
      /\ \E cause : Excuse(cause)
      /\ UNCHANGED <<token, topic, history, loads, kinds>>
  BY DEF RefreshMerged, Holed
<1> HIDE DEF data, missing, newestBefore
<1>5. /\ shown \subseteq Of(token, All) /\ Ids(shown) \subseteq All
      /\ MinOf(Ids(shown)) \in Nat /\ MinOf(missing) \in Nat
      /\ shown \in SUBSET (Rooms \X (Nat \ {0})) /\ newestBefore \in Nat
  BY <1>1, <1>3, Joins DEF newestBefore
<1>6. view' \in Views /\ view'.shown = shown
  <2>1. view \in Views
    BY HInvType
  <2> HIDE DEF shown
  <2> QED
    BY <1>4, <1>5, <2>1 DEF Views
<1>7. gap' \in Gaps /\ gapReplies' \subseteq Request /\ Fresh(gapReplies')
  <2>1. CASE GapStep(MinOf(missing), newestBefore, GapPages, gapReplies)
    <3>1. Fresh(gapReplies) /\ GapPages \in Int /\ GapPages <= GapPages
      BY DEF HInv, HistoryAssumption
    <3> QED
      BY <1>1, <1>5, <2>1, <3>1, GapStepType, HInvType
  <2>2. CASE UNCHANGED <<gap, gapReplies>>
    BY <2>2, HInvType DEF HInv
  <2> QED
    BY <1>4, <2>1, <2>2
<1>8. poll' \in Polls /\ (poll'.on => poll'.room = token /\ token \in Rooms)
      /\ (shown # {} => poll'.on)
  BY <1>4, <1>5, PollStarts
<1>9. /\ cache' \in [Rooms -> SUBSET (Nat \ {0})]
      /\ \A r \in Rooms : cache'[r] \subseteq 1..Len(kinds[r])
  BY <1>1, <1>4, <1>5, CacheGrows, CacheStays
<1>10. excused' \subseteq Rooms
  BY <1>1, <1>4, ExcuseType
<1>11. Settles'
  <2>1. missing # {} => shown # {}
    BY DEF Of
  <2>2. Filling' => Filling \/ shown # {}
    BY <1>4, <2>1 DEF Filling
  <2> QED
    BY <1>6, <1>8, <2>2, SettlesNext
<1> QED
  BY <1>4, <1>5, <1>6, <1>7, <1>8, <1>9, <1>10, <1>11, ListNext

LEMMA HistoryFailedKeeps ==
    ASSUME HistoryAssumption, HInv, HistoryFailed PROVE HInv'
PROOF
<1> USE DEF HistoryFailed
<1>1. view' \in Views /\ view'.shown \subseteq Of(token, All) /\ gap' \in Gaps
  BY HInvType DEF HInv, ViewInv
<1>2. token \in Rooms
  BY DEF HInv, HistoryInv
<1>3. excused' \subseteq Rooms
  BY <1>2, ExcuseType
<1>4. Settles'
  BY <1>1, PollStarts, SettlesNext DEF Filling
<1> QED
  BY <1>1, <1>3, <1>4, SameGaps, PollStarts, CacheStays, ListNext

LEMMA HistoryEndKeeps ==
    ASSUME HistoryAssumption, HInv, NEW n, HistoryEnd(n) PROVE HInv'
PROOF
<1> USE DEF HistoryEnd
<1>1. /\ view' \in Views /\ view'.shown = view.shown
      /\ view.shown \subseteq Of(token, All) /\ gap' \in Gaps
  <2>1. view \in Views /\ view.shown \subseteq Of(token, All) /\ gap' \in Gaps
    BY HInvType DEF HInv, ViewInv
  <2> QED
    BY <2>1 DEF Views
<1>2. token \in Rooms
  BY DEF HInv, HistoryInv
<1>3. excused' \subseteq Rooms
  BY <1>2, ExcuseType
<1>4. Settles'
  BY <1>1, PollStarts, SettlesNext DEF Filling
<1> QED
  BY <1>1, <1>3, <1>4, SameGaps, PollStarts, CacheStays, ListNext

LEMMA HistoryMergedKeeps ==
    ASSUME HistoryAssumption, HInv, NEW n \in history.since..Len(kinds[history.room]),
           HistoryMerged(n)
    PROVE  HInv'
PROOF
<1> DEFINE data == Page(history, PageLimit, n)
           older == Rows(token, data) \ Ids(view.shown)
           shown == view.shown \cup Of(token, older)
<1>1. token \in Rooms /\ history.room = token
  BY HInvType DEF HistoryMerged, HInv, HistoryInv
<1>2. n \in Nat /\ n <= Len(kinds[token])
  BY <1>1, HInvType, KindsType DEF Request
<1>3. older \subseteq All
  BY <1>1, <1>2, PageHolds, HInvType
<1>4. /\ history' = NoRequest
      /\ view' = [shown |-> shown,
                  oldest |-> IF shown = {} THEN view.oldest ELSE MinOf(Ids(shown)),
                  more |-> view.more /\ Cardinality(data) >= PageLimit]
      /\ cache' = [cache EXCEPT ![token] = @ \cup older]
      /\ poll' = Started(poll, shown)
      /\ \E cause : Excuse(cause)
      /\ UNCHANGED <<token, topic, refreshes, gapReplies, gap, loads, kinds>>
  BY DEF HistoryMerged
<1> HIDE DEF data, older
<1>5. /\ shown \subseteq Of(token, All) /\ MinOf(Ids(shown)) \in Nat
      /\ shown \in SUBSET (Rooms \X (Nat \ {0}))
  BY <1>1, <1>3, Joins
<1>6. view' \in Views /\ view'.shown = shown
  <2>1. view.oldest \in Nat
    BY HInvType DEF Views
  <2>2. (view.more /\ Cardinality(data) >= PageLimit) \in BOOLEAN
    OBVIOUS
  <2> HIDE DEF shown
  <2> QED
    BY <1>4, <1>5, <2>1, <2>2 DEF Views
<1>7. poll' \in Polls /\ (poll'.on => poll'.room = token /\ token \in Rooms)
      /\ (shown # {} => poll'.on)
  BY <1>4, <1>5, PollStarts
<1>8. /\ cache' \in [Rooms -> SUBSET (Nat \ {0})]
      /\ \A r \in Rooms : cache'[r] \subseteq 1..Len(kinds[r])
  BY <1>1, <1>3, <1>4, CacheGrows
<1>9. excused' \subseteq Rooms
  BY <1>1, <1>4, ExcuseType
<1>10. gap' \in Gaps
  BY <1>4, HInvType
<1>11. Settles'
  BY <1>4, <1>6, <1>7, SettlesNext DEF Filling
<1> QED
  BY <1>4, <1>5, <1>6, <1>7, <1>8, <1>9, <1>10, <1>11, SameGaps, ListNext

LEMMA GapGivenUpKeeps ==
    ASSUME HistoryAssumption, HInv, NEW q \in gapReplies, GapGivenUp(q) PROVE HInv'
PROOF
<1> USE DEF GapGivenUp
<1>1. view' \in Views /\ view'.shown \subseteq Of(token, All) /\ gap' \in Gaps
      /\ excused' \subseteq Rooms
  BY HInvType, NoGapType DEF HInv, ViewInv, Fresh
<1>2. Settles'
  BY DEF HInv, Settles, PollsWhenSettled, Filling
<1> QED
  BY <1>1, <1>2, SameGaps, SamePoll, CacheStays, ListNext

LEMMA GapMergedKeeps ==
    ASSUME HistoryAssumption, HInv, NEW q \in gapReplies,
           NEW n \in q.since..Len(kinds[q.room]), GapMerged(q, n)
    PROVE  HInv'
PROOF
<1> DEFINE rows == Rows(q.room, Page(q, GapLimit, n))
           filled == rows \ Ids(view.shown)
           shown == view.shown \cup Of(q.room, filled)
<1>1. q.room = token /\ token \in Rooms /\ q.fresh
  BY FreshRequest DEF GapMerged
<1>2. n \in Nat /\ n <= Len(kinds[token])
  BY <1>1, HInvType, KindsType DEF Request
<1>3. rows \subseteq All /\ filled \subseteq All
  BY <1>1, <1>2, PageHolds, HInvType
<1>4. /\ view' = [view EXCEPT !.shown = shown,
                              !.oldest = IF filled = {} THEN @ ELSE MinOf(Ids(shown))]
      /\ cache' = IF filled = {} THEN cache
                  ELSE [cache EXCEPT ![token] = @ \cup Ids(shown)]
      /\ \/ GapStep(MinOf(rows), gap.target, gap.left - 1, gapReplies \ {q})
         \/ gap' = NoGap /\ gapReplies' = gapReplies \ {q}
      /\ \E cause : Excuse(cause)
      /\ UNCHANGED <<token, topic, history, refreshes, poll, loads, kinds>>
  BY DEF GapMerged
<1> HIDE DEF rows, filled
<1>5. /\ shown \subseteq Of(token, All) /\ Ids(shown) \subseteq All
      /\ MinOf(Ids(shown)) \in Nat /\ shown \in SUBSET (Rooms \X (Nat \ {0}))
  BY <1>1, <1>3, Joins
<1>6. MinOf(rows) \in Nat
  BY <1>3, Joins
<1>7. view' \in Views /\ view'.shown = shown
  <2>1. view \in Views
    BY HInvType
  <2> HIDE DEF shown
  <2> QED
    BY <1>4, <1>5, <2>1 DEF Views
<1>8. gap' \in Gaps /\ gapReplies' \subseteq Request /\ Fresh(gapReplies')
  <2>1. gapReplies \ {q} \subseteq Request /\ Fresh(gapReplies \ {q})
    BY HInvType DEF HInv, Fresh
  <2>2. CASE GapStep(MinOf(rows), gap.target, gap.left - 1, gapReplies \ {q})
    <3>1. gap.target \in Nat /\ gap.left - 1 \in Int /\ gap.left - 1 <= GapPages
      BY HInvType DEF Gaps, HistoryAssumption
    <3> QED
      BY <1>1, <1>6, <2>1, <2>2, <3>1, GapStepType, HInvType
  <2>3. CASE gap' = NoGap /\ gapReplies' = gapReplies \ {q}
    BY <2>1, <2>3, NoGapType
  <2> QED
    BY <1>4, <2>2, <2>3
<1>9. /\ cache' \in [Rooms -> SUBSET (Nat \ {0})]
      /\ \A r \in Rooms : cache'[r] \subseteq 1..Len(kinds[r])
  BY <1>1, <1>4, <1>5, CacheGrows, CacheStays
<1>10. excused' \subseteq Rooms
  BY <1>1, <1>4, ExcuseType
<1>11. Settles'
  <2>1. Filling
    BY <1>1 DEF Filling
  <2>2. ~Threads => PollsWhenSettled /\ view.shown # {} /\ view'.shown # {}
    BY <1>7, <2>1 DEF HInv, Settles
  <2> QED
    BY <1>4, <2>2 DEF Settles, PollsWhenSettled
<1> QED
  BY <1>4, <1>5, <1>7, <1>8, <1>9, <1>10, <1>11, SamePoll, ListNext

-----------------------------------------------------------------------------
(* The long-poll.                                                          *)

\* trimOldMessages() keeps the newest message.
LEMMA TrimmedKeeps ==
    ASSUME HistoryAssumption, TypeOK, NEW shown, shown \subseteq Of(token, All), shown # {}
    PROVE  Trimmed(shown) \subseteq shown /\ Trimmed(shown) # {}
PROOF
<1>1. PICK n \in Nat : All \subseteq 1..n
  BY AllType
<1>2. Ids(shown) \subseteq 0..n /\ Ids(shown) # {}
  <2>1. Ids(shown) \subseteq 1..n
    BY <1>1, ShownType
  <2>2. Ids(shown) # {}
    BY DEF Ids
  <2> QED
    BY <2>1, <2>2
<1>3. PICK i \in Ids(shown) : \A j \in Ids(shown) : i >= j
  BY <1>2, Largest
<1>4. {j \in Ids(shown) : j > i} = {}
  BY <1>2, <1>3
<1>5. i \in Top(Ids(shown), MaxShown)
  <2>1. Cardinality({j \in Ids(shown) : j > i}) = 0
    BY <1>4, FS_EmptySet
  <2>2. MaxShown > 0
    BY DEF HistoryAssumption
  <2> QED
    BY <1>3, <2>1, <2>2 DEF Top
<1>6. PICK m \in shown : m[2] = i
  BY DEF Ids
<1> QED
  BY <1>5, <1>6 DEF Trimmed

LEMMA PolledKeeps ==
    ASSUME HistoryAssumption, HInv, NEW n, Polled(n) PROVE HInv'
PROOF
<1> DEFINE data == {i \in poll.cursor + 1 .. n : kinds[poll.room][i] # "hidden"}
           new == Rows(poll.room, data) \ Ids(view.shown)
           shown == view.shown \cup Of(poll.room, new)
           trims == new # {} /\ Cardinality(shown) > MaxShown
<1>1. poll.on /\ poll.room = token /\ token \in Rooms /\ poll.cursor \in Nat
  BY HInvType DEF Polled, HInv, PollInv, Polls
<1>2. n \in Nat /\ n <= Len(kinds[token])
  BY <1>1, HInvType, KindsType DEF Polled
<1>3. new \subseteq All
  <2>1. data \subseteq 1..Len(kinds[token])
    BY <1>1, <1>2, KindsType, HInvType
  <2> QED
    BY <1>1, <2>1 DEF Rows, All
<1>4. /\ poll' = [poll EXCEPT !.cursor = n]
      /\ view' = IF trims
                 THEN [shown |-> Trimmed(shown), oldest |-> MinOf(Ids(Trimmed(shown))),
                       more |-> TRUE]
                 ELSE [view EXCEPT !.shown = shown]
      /\ cache' = [cache EXCEPT ![token] = @ \cup new]
      /\ \E cause : Excuse(cause)
      /\ UNCHANGED <<token, topic, history, refreshes, gapReplies, gap, loads, kinds>>
  BY DEF Polled
<1> HIDE DEF new
<1>5. shown \subseteq Of(token, All) /\ shown \in SUBSET (Rooms \X (Nat \ {0}))
  BY <1>1, <1>3, Joins
<1>6. trims => shown # {}
  BY DEF Of
<1>7. shown # {} => Trimmed(shown) \subseteq shown /\ Trimmed(shown) # {}
  BY <1>5, TrimmedKeeps, HInvType
<1>8. shown # {} => MinOf(Ids(Trimmed(shown))) \in Nat
  BY <1>5, <1>7, ShownType, HInvType
<1>9. /\ view' \in Views /\ view'.shown \subseteq shown
      /\ shown # {} => view'.shown # {}
  <2>1. view \in Views
    BY HInvType
  <2> HIDE DEF shown, trims
  <2>2. CASE trims
    BY <1>4, <1>5, <1>6, <1>7, <1>8, <2>2 DEF Views
  <2>3. CASE ~trims
    BY <1>4, <1>5, <2>1, <2>3 DEF Views
  <2> QED
    BY <2>2, <2>3
<1>10. poll' \in Polls /\ poll'.on /\ poll'.room = token
  BY <1>1, <1>2, <1>4, HInvType DEF Polls
<1>11. /\ cache' \in [Rooms -> SUBSET (Nat \ {0})]
       /\ \A r \in Rooms : cache'[r] \subseteq 1..Len(kinds[r])
  BY <1>1, <1>3, <1>4, CacheGrows
<1>12. excused' \subseteq Rooms
  BY <1>1, <1>4, ExcuseType
<1>13. gap' \in Gaps
  BY <1>4, HInvType
<1>14. Settles'
  BY <1>4, <1>9, <1>10, SettlesNext DEF Filling
<1> QED
  BY <1>1, <1>4, <1>5, <1>9, <1>10, <1>11, <1>12, <1>13, <1>14, SameGaps, ListNext

LEMMA PollTornKeeps ==
    ASSUME HistoryAssumption, HInv, NEW n, PollTorn(n) PROVE HInv'
PROOF
<1> USE DEF PollTorn
<1>1. poll.on /\ poll.room = token /\ token \in Rooms /\ poll \in Polls
  BY HInvType DEF HInv, PollInv
<1>2. n \in Nat
  BY <1>1, HInvType, KindsType DEF Polls
<1>3. poll' \in Polls /\ poll'.on /\ poll'.room = token
  BY <1>1, <1>2 DEF Polls
<1>4. view' \in Views /\ view'.shown \subseteq Of(token, All) /\ gap' \in Gaps
  BY HInvType DEF HInv, ViewInv
<1>5. excused' \subseteq Rooms
  BY <1>1, ExcuseType
<1>6. Settles'
  BY <1>3, SettlesNext DEF Filling
<1> QED
  BY <1>1, <1>3, <1>4, <1>5, <1>6, SameGaps, CacheStays, ListNext

-----------------------------------------------------------------------------
(* Messages are written.                                                   *)

LEMMA WriteKeeps ==
    ASSUME HistoryAssumption, HInv, NEW r \in Rooms, NEW kind \in Kinds, Write(r, kind)
    PROVE  HInv'
PROOF
<1> USE DEF Write
<1>1. kinds' \in [Rooms -> Seq(Kinds)]
  BY HInvType
<1>2. \A s \in Rooms : /\ Len(kinds[s]) \in Nat /\ Len(kinds'[s]) \in Nat
                      /\ Len(kinds[s]) <= Len(kinds'[s])
                      /\ \A i \in 1..Len(kinds[s]) : kinds'[s][i] = kinds[s][i]
  BY HInvType
<1>3. \A s \in Rooms : 1..Len(kinds[s]) \subseteq 1..Len(kinds'[s])
  BY <1>2
<1>4. TypeOK'
  BY <1>1, HInvType, TypeNext
<1>5. All \subseteq All'
  BY <1>2, <1>3 DEF All, Rows, Passes
<1>6. ViewInv'
  <2>1. Of(token, All) \subseteq Of(token, All')
    BY <1>5, OfMonotone
  <2> QED
    BY <2>1 DEF HInv, ViewInv, Of
<1>7. CacheInv'
  BY <1>3 DEF HInv, CacheInv
<1>8. LoadsInv'
  <2>1. ASSUME NEW i \in 1..Len(loads)
        PROVE  loads[i].page \subseteq 1..Len(kinds'[loads[i].room])
    <3> HIDE DEF Loads
    <3>3. loads[i] \in Loads
      BY HInvType
    <3>1. loads[i].room \in Rooms
      BY <3>3 DEF Loads
    <3>2. loads[i].page \subseteq 1..Len(kinds[loads[i].room])
      BY DEF HInv, LoadsInv
    <3> QED
      BY <1>3, <3>1, <3>2
  <2> QED
    BY <2>1 DEF LoadsInv
<1> QED
  BY <1>4, <1>6, <1>7, <1>8 DEF HInv, Fresh, PollInv, HistoryInv, Settles, PollsWhenSettled, Filling

-----------------------------------------------------------------------------
(* The user.                                                               *)

LEMMA AsksMore ==
    ASSUME HInv, token \in Rooms, NEW t \in BOOLEAN, NEW before \in Nat,
           refreshes' = refreshes \cup {Ask(token, t, before, 0)}, token' = token
    PROVE  /\ refreshes' \subseteq Request /\ Fresh(refreshes)'
           /\ \E q \in refreshes' : q.fresh
PROOF
<1> DEFINE q == Ask(token, t, before, 0)
<1>1. q \in Request /\ q.room = token /\ q.fresh
  BY AskType, HInvType
<1> HIDE DEF q
<1> QED
  BY <1>1, HInvType DEF q, HInv, Fresh

LEMMA SameFresh ==
    ASSUME HInv, token' = token
    PROVE  /\ refreshes' = refreshes => refreshes' \subseteq Request /\ Fresh(refreshes)'
           /\ gapReplies' = gapReplies => gapReplies' \subseteq Request /\ Fresh(gapReplies)'
PROOF
BY HInvType DEF HInv, Fresh

LEMMA SameList ==
    ASSUME HInv, token' = token, topic' = topic, kinds' = kinds, view' = view
    PROVE  ViewInv'
PROOF
<1>1. Of(token, All)' = Of(token, All)
  BY SameView DEF Of
<1> QED
  BY <1>1 DEF HInv, ViewInv

LEMMA SameServer ==
    ASSUME HInv, kinds' = kinds
    PROVE  /\ kinds' \in [Rooms -> Seq(Kinds)]
           /\ cache' = cache => cache' \in [Rooms -> SUBSET (Nat \ {0})] /\ CacheInv'
           /\ loads' = loads => loads' \in Seq(Loads) /\ LoadsInv'
PROOF
BY HInvType DEF HInv, CacheInv, LoadsInv

LEMMA RefreshKeeps ==
    ASSUME HistoryAssumption, HInv, Refresh PROVE HInv'
PROOF
<1> USE DEF Refresh
<1>1. token \in Rooms
  BY HInvType
<1>2. refreshes' \subseteq Request /\ Fresh(refreshes)' /\ \E q \in refreshes' : q.fresh
  BY <1>1, AsksMore, HInvType
<1>3. TypeOK'
  BY <1>2, HInvType, TypeNext
<1>4. ViewInv' /\ Fresh(gapReplies)' /\ CacheInv' /\ LoadsInv'
  BY SameFresh, SameList, SameServer
<1>5. PollInv' /\ HistoryInv' /\ Settles'
  BY <1>2 DEF HInv, PollInv, HistoryInv, Settles, PollsWhenSettled, Filling
<1> QED
  BY <1>2, <1>3, <1>4, <1>5 DEF HInv

LEMMA ScrollUpKeeps ==
    ASSUME HistoryAssumption, HInv, ScrollUp PROVE HInv'
PROOF
<1> USE DEF ScrollUp
<1>1. token \in Rooms
  BY HInvType
<1>2. history' \in Request /\ history'.room = token /\ history'.fresh
  <2>1. TypeOK /\ topic \in BOOLEAN /\ 0 \in Nat
    BY HInvType
  <2>2. view.oldest \in Nat
    BY HInvType DEF Views
  <2>3. history' = Ask(token, topic, view.oldest, 0)
    OBVIOUS
  <2> HIDE DEF ScrollUp
  <2> QED
    BY <1>1, <2>1, <2>2, <2>3, AskType
<1>3. TypeOK'
  BY <1>2, HInvType, TypeNext
<1>4. ViewInv' /\ Fresh(refreshes)' /\ Fresh(gapReplies)' /\ CacheInv' /\ LoadsInv'
  BY SameFresh, SameList, SameServer
<1>5. history' # NoRequest
  BY <1>2, NoRequestType
<1>6. PollInv' /\ HistoryInv' /\ Settles'
  BY <1>1, <1>5 DEF HInv, PollInv, HistoryInv, Settles, PollsWhenSettled, Filling
<1> QED
  BY <1>3, <1>4, <1>6 DEF HInv

\* The view is emptied.
LEMMA ReloadType ==
    ASSUME HistoryAssumption, HInv, token \in Rooms, NEW t \in BOOLEAN, Reload(t),
           token' = token
    PROVE  /\ topic' \in BOOLEAN /\ view' \in Views /\ ViewInv'
           /\ history' \in Request /\ (history' # NoRequest => history'.room = token')
           /\ poll' \in Polls /\ PollInv' /\ HistoryInv' /\ excused' \subseteq Rooms
PROOF
<1>1. view' = [view EXCEPT !.shown = {}, !.oldest = 0] /\ topic' = t
      /\ poll' = StoppedPoller
  BY DEF Reload
<1>2. view' \in Views /\ view'.shown = {}
  BY <1>1, HInvType DEF Views
<1>3. ViewInv'
  BY <1>2 DEF ViewInv
<1>4. history' \in Request /\ (history' # NoRequest => history'.room = token')
  <2>1. Ask(token, t, 0, 0) \in Request /\ Ask(token, t, 0, 0).room = token
    BY AskType, HInvType
  <2> QED
    BY <2>1, HInvType DEF Reload
<1>5. poll' \in Polls /\ ~poll'.on
  BY <1>1, StoppedType, HInvType
<1>6. excused' \subseteq Rooms
  BY ExcuseType DEF Reload
<1> QED
  BY <1>1, <1>2, <1>3, <1>4, <1>5, <1>6 DEF PollInv, HistoryInv

LEMMA SwitchTopicKeeps ==
    ASSUME HistoryAssumption, HInv, SwitchTopic PROVE HInv'
PROOF
<1> USE DEF SwitchTopic
<1>1. token \in Rooms /\ (~topic) \in BOOLEAN /\ Threads
  BY HInvType
<1>2. /\ topic' \in BOOLEAN /\ view' \in Views /\ ViewInv'
      /\ history' \in Request /\ (history' # NoRequest => history'.room = token')
      /\ poll' \in Polls /\ PollInv' /\ HistoryInv' /\ excused' \subseteq Rooms
  BY <1>1, ReloadType
<1>3. TypeOK'
  BY <1>2, HInvType, TypeNext
<1>4. Fresh(refreshes)' /\ Fresh(gapReplies)' /\ CacheInv' /\ LoadsInv' /\ Settles'
  BY <1>1, SameFresh, SameServer DEF Settles
<1> QED
  BY <1>2, <1>3, <1>4 DEF HInv

LEMMA ReselectKeeps ==
    ASSUME HistoryAssumption, HInv, Reselect PROVE HInv'
PROOF
<1> USE DEF Reselect
<1>1. token \in Rooms
  BY HInvType
<1>2. refreshes' \subseteq Request /\ Fresh(refreshes)' /\ \E q \in refreshes' : q.fresh
  BY <1>1, AsksMore
<1>3. Fresh(gapReplies)' /\ CacheInv' /\ LoadsInv'
  BY SameFresh, SameServer
<1>4. CASE Threads
  <2>1. /\ topic' \in BOOLEAN /\ view' \in Views /\ ViewInv'
        /\ history' \in Request /\ (history' # NoRequest => history'.room = token')
        /\ poll' \in Polls /\ PollInv' /\ HistoryInv' /\ excused' \subseteq Rooms
    BY <1>1, <1>4, ReloadType
  <2>2. TypeOK'
    BY <1>2, <2>1, HInvType, TypeNext
  <2> QED
    BY <1>2, <1>3, <1>4, <2>1, <2>2 DEF HInv, Settles
<1>5. CASE ~Threads
  <2>1. UNCHANGED <<topic, view, history, poll, excused>>
    BY <1>5
  <2>2. TypeOK'
    BY <1>2, <2>1, HInvType, TypeNext
  <2>3. ViewInv' /\ PollInv' /\ HistoryInv'
    BY <2>1, SameList DEF HInv, PollInv, HistoryInv
  <2>4. Settles'
    BY <1>2, <2>1 DEF HInv, Settles, PollsWhenSettled, Filling
  <2> QED
    BY <1>2, <1>3, <2>2, <2>3, <2>4 DEF HInv
<1> QED
  BY <1>4, <1>5

LEMMA StalePart ==
    ASSUME HInv
    PROVE  /\ Stale(refreshes) \subseteq Request /\ Stale(gapReplies) \subseteq Request
           /\ \A q \in Stale(refreshes) \cup Stale(gapReplies) : q.room \in Rooms /\ ~q.fresh
PROOF
<1>1. \A q \in refreshes \cup gapReplies : q \in Request /\ q.room \in Rooms
  BY HInvType DEF HInv, Fresh
<1>2. ASSUME NEW q \in Request, q.room \in Rooms
      PROVE  LET p == [q EXCEPT !.fresh = FALSE]
             IN p \in Request /\ p.room \in Rooms /\ ~p.fresh
  BY <1>2 DEF Request
<1> QED
  BY <1>1, <1>2 DEF Stale

LEMMA OpenRoomKeeps ==
    ASSUME HistoryAssumption, HInv, NEW r \in Rooms \cup {NoRoom}, OpenRoom(r) PROVE HInv'
PROOF
<1> USE DEF OpenRoom
<1>1. view' \in Views /\ view'.shown = {}
  BY DEF Views
<1>2. history' \in Request /\ (history' # NoRequest => history'.room = r /\ r \in Rooms)
  <2>1. CASE Threads /\ r # NoRoom
    <3>1. Ask(r, FALSE, 0, 0) \in Request /\ Ask(r, FALSE, 0, 0).room = r
      <4>1. r \in Rooms /\ TypeOK /\ 0 \in Nat
        BY <2>1, HInvType
      <4>2. Len(kinds[r]) \in Nat
        BY <4>1, KindsType
      <4> QED
        BY <4>1, <4>2 DEF Ask, Request
    <3> QED
      BY <2>1, <3>1
  <2>2. CASE ~(Threads /\ r # NoRoom)
    BY <2>2, NoRequestType
  <2> QED
    BY <2>1, <2>2
<1>3. /\ refreshes' \subseteq Request /\ gapReplies' \subseteq Request
      /\ Fresh(refreshes)' /\ Fresh(gapReplies)' /\ ~Filling'
  BY StalePart DEF Fresh, Filling
<1>4. poll' \in Polls /\ ~poll'.on
  BY StoppedType, HInvType
<1>5. excused' \subseteq Rooms
  BY HInvType DEF HInv, Fresh
<1>6. loads' \in Seq(Loads) /\ LoadsInv'
  <2> DEFINE load == [room |-> r, page |-> Top(cache[r], PageLimit)]
  <2>1. CASE r = NoRoom
    BY <2>1, HInvType DEF HInv, LoadsInv
  <2>2. CASE r # NoRoom
    <3>1. Top(cache[r], PageLimit) \subseteq cache[r]
      BY DEF Top
    <3>2. cache[r] \subseteq 1..Len(kinds[r]) /\ cache[r] \subseteq Nat /\ r \in Rooms
      BY <2>2, HInvType DEF HInv, CacheInv
    <3>3. load \in Loads /\ load.page \subseteq 1..Len(kinds[load.room])
      BY <3>1, <3>2 DEF Loads
    <3> HIDE DEF load, Loads
    <3>4. loads' = Append(loads, load) /\ loads \in Seq(Loads)
      BY <2>2, HInvType DEF load
    <3>5. \A i \in 1..Len(loads') : loads'[i] = load \/ (i \in 1..Len(loads) /\ loads'[i] = loads[i])
      BY <3>3, <3>4
    <3>6. loads' \in Seq(Loads)
      BY <3>3, <3>4
    <3>7. \A i \in 1..Len(loads) : loads[i].page \subseteq 1..Len(kinds[loads[i].room])
      BY DEF HInv, LoadsInv
    <3>8. \A i \in 1..Len(loads') : loads'[i].page \subseteq 1..Len(kinds[loads'[i].room])
      BY <3>3, <3>5, <3>7
    <3> QED
      BY <3>6, <3>8 DEF LoadsInv
  <2> QED
    BY <2>1, <2>2
<1>7. TypeOK'
  BY <1>1, <1>2, <1>3, <1>4, <1>5, <1>6, HInvType, TypeNext
<1>8. ViewInv' /\ PollInv' /\ HistoryInv' /\ CacheInv' /\ Settles'
  BY <1>1, <1>2, <1>3, <1>4, SameServer
     DEF ViewInv, PollInv, HistoryInv, Settles, PollsWhenSettled
<1> QED
  BY <1>3, <1>6, <1>7, <1>8 DEF HInv

LEMMA CacheLoadedKeeps ==
    ASSUME HistoryAssumption, HInv, CacheLoaded PROVE HInv'
PROOF
<1> DEFINE load == Head(loads)
           shown == Of(load.room, Rows(load.room, load.page))
<1>1. loads \in Seq(Loads) /\ loads # <<>> /\ loads' = Tail(loads)
  BY HInvType DEF CacheLoaded
<1>2. loads' \in Seq(Loads) /\ LoadsInv'
  <2> HIDE DEF Loads
  <2>1. loads' \in Seq(Loads)
    BY <1>1
  <2>2. \A i \in 1..Len(loads') : i + 1 \in 1..Len(loads) /\ loads'[i] = loads[i + 1]
    BY <1>1
  <2>3. \A i \in 1..Len(loads) : loads[i].page \subseteq 1..Len(kinds[loads[i].room])
    BY DEF HInv, LoadsInv
  <2>4. kinds' = kinds
    BY DEF CacheLoaded
  <2> QED
    BY <2>1, <2>2, <2>3, <2>4 DEF LoadsInv
<1>3. load \in Loads /\ load.page \subseteq 1..Len(kinds[load.room])
  <2> HIDE DEF Loads
  <2>1. 1 \in 1..Len(loads) /\ load = loads[1] /\ loads[1] \in Loads
    BY <1>1
  <2> QED
    BY <2>1 DEF HInv, LoadsInv
<1>4. UNCHANGED <<token, topic, history, gapReplies, gap, poll, cache, kinds, excused>>
  BY DEF CacheLoaded
<1>5. Fresh(gapReplies)' /\ PollInv' /\ HistoryInv' /\ CacheInv'
  BY <1>4, SameFresh, SameServer DEF HInv, PollInv, HistoryInv
<1>6. CASE load.room # token
  <2>1. UNCHANGED <<view, refreshes>>
    BY <1>6 DEF CacheLoaded
  <2>2. TypeOK'
    BY <1>2, <1>4, <2>1, HInvType, TypeNext
  <2>3. ViewInv' /\ Fresh(refreshes)'
    BY <1>4, <2>1, SameList, SameFresh
  <2>4. Settles'
    BY <1>4, <2>1 DEF HInv, Settles, PollsWhenSettled, Filling
  <2> QED
    BY <1>2, <1>5, <2>2, <2>3, <2>4 DEF HInv
<1>7. CASE load.room = token
  <2>1. token \in Rooms
    BY <1>3, <1>7 DEF Loads
  <2>2. /\ \/ view' = view
           \/ view' = [view EXCEPT !.shown = shown, !.oldest = MinOf(Ids(shown))] /\ shown # {}
        /\ refreshes' = refreshes \cup {Ask(token, topic, 0, 0)}
    BY <1>7 DEF CacheLoaded
  <2>3. shown \subseteq Of(token, All)
    <3>1. Rows(token, load.page) \subseteq All
      BY <1>3, <1>7, <2>1 DEF All, Rows
    <3> QED
      BY <1>7, <3>1, OfMonotone
  <2>4. /\ shown \in SUBSET (Rooms \X (Nat \ {0})) /\ MinOf(Ids(shown)) \in Nat
    BY <2>3, ShownType, HInvType
  <2>5. /\ view' \in Views /\ view'.shown \subseteq Of(token, All)
        /\ view.shown # {} => view'.shown # {}
    <3>1. view \in Views /\ view.shown \subseteq Of(token, All)
      BY HInvType DEF HInv, ViewInv
    <3> HIDE DEF shown
    <3> QED
      BY <2>2, <2>3, <2>4, <3>1 DEF Views
  <2>6. refreshes' \subseteq Request /\ Fresh(refreshes)' /\ \E q \in refreshes' : q.fresh
    BY <1>4, <2>1, <2>2, AsksMore, HInvType
  <2>7. TypeOK'
    BY <1>2, <1>4, <2>5, <2>6, HInvType, TypeNext
  <2>8. ViewInv'
    <3>1. Of(token, All)' = Of(token, All)
      BY <1>4, SameView DEF Of
    <3> QED
      BY <2>5, <3>1 DEF ViewInv
  <2>9. Settles'
    BY <1>4, <2>5, <2>6 DEF HInv, Settles, PollsWhenSettled, Filling
  <2> QED
    BY <1>2, <1>5, <2>6, <2>7, <2>8, <2>9 DEF HInv
<1> QED
  BY <1>6, <1>7

-----------------------------------------------------------------------------
(* The invariant and what it implies.                                      *)

LEMMA HInvInit == ASSUME HistoryAssumption, Init PROVE HInv
PROOF
<1> USE DEF Init
<1>1. TypeOK
  <2>1. view \in Views /\ poll \in Polls /\ token \in Rooms \cup {NoRoom}
    BY DEF Views, Polls
  <2>2. topic \in BOOLEAN
    OBVIOUS
  <2>3. history \in Request /\ history = NoRequest /\ gap \in Gaps
    BY NoRequestType, NoGapType
  <2>4. refreshes \subseteq Request /\ gapReplies \subseteq Request /\ excused \subseteq Rooms
    OBVIOUS
  <2>5. cache \in [Rooms -> SUBSET (Nat \ {0})] /\ kinds \in [Rooms -> Seq(Kinds)]
        /\ loads \in Seq(Loads)
    OBVIOUS
  <2> QED
    BY <2>1, <2>2, <2>3, <2>4, <2>5 DEF TypeOK, Views, Polls, Gaps, Loads
<1>2. ViewInv /\ Fresh(refreshes) /\ Fresh(gapReplies) /\ PollInv /\ HistoryInv
      /\ CacheInv /\ LoadsInv /\ Settles
  BY DEF ViewInv, Fresh, PollInv, HistoryInv, CacheInv, LoadsInv, Settles, PollsWhenSettled,
         Filling
<1> QED
  BY <1>1, <1>2 DEF HInv

LEMMA HInvNext == ASSUME HistoryAssumption, HInv, [Next]_vars PROVE HInv'
PROOF
<1>1. CASE UNCHANGED vars
  <2>1. ViewInv'
    BY <1>1, SameList DEF vars
  <2> QED
    BY <1>1, <2>1 DEF vars, HInv, TypeOK, Fresh, PollInv, HistoryInv, CacheInv, LoadsInv,
                      Settles, PollsWhenSettled, Filling
<1>2. CASE Replies
  <2>1. CASE \E q \in refreshes : RefreshDropped(q) \/ RefreshEmpty(q)
    BY <2>1, RefreshDroppedKeeps, RefreshEmptyKeeps
  <2>2. CASE \E q \in refreshes : \E n \in q.since..Len(kinds[q.room]) : RefreshMerged(q, n)
    BY <2>2, RefreshMergedKeeps
  <2>3. CASE \E n \in history.since..Len(kinds[history.room]) :
                HistoryEnd(n) \/ HistoryMerged(n)
    BY <2>3, HistoryEndKeeps, HistoryMergedKeeps
  <2>4. CASE \E q \in gapReplies : GapGivenUp(q)
    BY <2>4, GapGivenUpKeeps
  <2>5. CASE \E q \in gapReplies : \E n \in q.since..Len(kinds[q.room]) : GapMerged(q, n)
    BY <2>5, GapMergedKeeps
  <2>6. CASE CacheLoaded \/ HistoryFailed
    BY <2>6, CacheLoadedKeeps, HistoryFailedKeeps
  <2> QED
    BY <1>2, <2>1, <2>2, <2>3, <2>4, <2>5, <2>6 DEF Replies
<1>3. CASE \E r \in Rooms \cup {NoRoom} : OpenRoom(r)
  BY <1>3, OpenRoomKeeps
<1>4. CASE SwitchTopic \/ Refresh \/ Reselect \/ ScrollUp
  BY <1>4, SwitchTopicKeeps, RefreshKeeps, ReselectKeeps, ScrollUpKeeps
<1>5. CASE \E n \in poll.cursor + 1 .. Len(kinds[poll.room]) : Polled(n) \/ PollTorn(n)
  BY <1>5, PolledKeeps, PollTornKeeps
<1>6. CASE \E r \in Rooms, kind \in Kinds : Write(r, kind)
  BY <1>6, WriteKeeps
<1> QED
  BY <1>1, <1>2, <1>3, <1>4, <1>5, <1>6 DEF Next

LEMMA SpecHInv == Spec => []HInv
PROOF
<1>1. Init => HInv
  BY HistoryAssumption, HInvInit
<1>2. HInv /\ [Next]_vars => HInv'
  BY HistoryAssumption, HInvNext
<1> QED
  BY <1>1, <1>2, PTL DEF Spec

\* The types: among them, that the page that is loading is one of the open room.
THEOREM SpecTypeOK == Spec => []TypeOK
PROOF
<1>1. HInv => TypeOK
  BY DEF HInv
<1> QED
  BY <1>1, SpecHInv, PTL

\* Whatever answers arrive after the user went to another room or topic, the list
\* holds rows of the open room and topic only.
THEOREM SpecShowsOpenView == Spec => []ShowsOpenView
PROOF
<1>1. HInv => ShowsOpenView
  <2> SUFFICES ASSUME HInv, NEW m \in view.shown
               PROVE  m[1] = token /\ Passes(m[1], m[2]) /\ kinds[token][m[2]] # "control"
    BY DEF ShowsOpenView
  <2>1. PICK i \in All : m = <<token, i>>
    BY DEF HInv, ViewInv, Of
  <2>2. m[1] = token /\ m[2] = i /\ Passes(token, i) /\ kinds[token][i] # "control"
    BY <2>1 DEF All, Rows
  <2> QED
    BY <2>2
<1> QED
  BY <1>1, SpecHInv, PTL

\* Without topics a list with messages is never left without the long-poll.
THEOREM SpecPollsWhenSettled ==
    ASSUME ~Threads
    PROVE  Spec => []PollsWhenSettled
PROOF
<1>1. HInv => PollsWhenSettled
  BY DEF HInv, Settles
<1> QED
  BY <1>1, SpecHInv, PTL

-----------------------------------------------------------------------------
(* Nothing is missing between the rows.                                    *)

\* The messages of a room that can be saved, and those that one of its views shows.
Saved(r) == {i \in 1..Len(kinds[r]) : kinds[r][i] \in {"plain", "topic"}}
InView(r, t) ==
    {i \in Saved(r) : IF t THEN kinds[r][i] = "topic" ELSE ~(Threads /\ kinds[r][i] = "topic")}
Sides == {t \in BOOLEAN : t => Threads}

Shown == Ids(view.shown)
Here == InView(token, topic)

\* What the gap fill at work in the open view is to bring.
Holes == {i \in Nat : \E q \in gapReplies : q.fresh /\ q.target < i /\ i < q.before}

\* Of the messages in V none is missing between those in X, but for the ones in H.
Whole(X, V, H) == \A a, b \in X \cap V, i \in V : a <= i /\ i <= b => i \in X \cup H

\* What holds whether or not a gap has been let in.
KindsInv ==
    /\ topic => Threads
    /\ poll.room \in Rooms => poll.cursor <= Len(kinds[poll.room])
    /\ token \in Rooms => Shown \subseteq Here
    /\ \A r \in Rooms : cache[r] \subseteq Saved(r)
    /\ \A k \in 1..Len(loads) : loads[k].page \subseteq Saved(loads[k].room)
    /\ \A q \in gapReplies : q.before <= q.since

\* The list: whole from its oldest row on, and in the cache.
ListInv ==
    /\ Shown \subseteq cache[token] /\ Whole(Shown, Here, Holes)
    /\ Shown = {} => view.oldest = 0 /\ ~poll.on /\ ~Filling
    /\ Shown # {} => view.oldest \in Shown /\ \A j \in Shown : view.oldest <= j

\* The long-poll has gone past no message but those up to the newest row.
ReachInv ==
    poll.on => /\ \A j \in Shown : j <= poll.cursor
               /\ \A i \in Here : i <= poll.cursor => \E j \in Shown : i <= j

\* A request for the newest page, and one for a page that meets the list.
Newest(q) == q.topic = topic /\ (Shown = {} => cache[token] \subseteq 1..q.since)
Anchored(q) ==
    q.topic = topic /\ view.oldest <= q.before /\ \E j \in Shown : q.before <= j

HistoryAsked ==
    history # NoRequest =>
        IF history.before = 0 THEN Newest(history)
        ELSE Anchored(history) /\ history.before <= history.since
RefreshAsked == \A q \in refreshes : q.fresh => q.before = 0 /\ Newest(q)
GapAsked ==
    \A q \in gapReplies : q.fresh =>
        q.before # 0 /\ Anchored(q) /\ (q.target = gap.target \/ gap.left <= 1)

OpenInv ==
    token \in Rooms \ excused =>
        ListInv /\ ReachInv /\ HistoryAsked /\ RefreshAsked /\ GapAsked

CachesWhole ==
    \A r \in Rooms \ excused, t \in Sides :
        Whole(cache[r], InView(r, t), IF r = token /\ t = topic THEN Holes ELSE {})

LoadsWhole ==
    \A k \in 1..Len(loads) : loads[k].room \notin excused =>
        /\ loads[k].page \subseteq cache[loads[k].room]
        /\ \A t \in Sides : Whole(loads[k].page, InView(loads[k].room, t), {})

GapInv == KindsInv /\ OpenInv /\ CachesWhole /\ LoadsWhole

-----------------------------------------------------------------------------
(* Sets without gaps.                                                      *)

LEMMA WholeNarrows ==
    ASSUME NEW V, NEW X, NEW G, NEW H, Whole(X, V, G), V \cap G \subseteq X \cup H
    PROVE  Whole(X, V, H)
PROOF
BY DEF Whole

\* Rows below b join a set that reaches above b, and takes in all there is between.
LEMMA JoinAnchored ==
    ASSUME NEW V, V \subseteq Nat, NEW X, NEW H, Whole(X, V, H), NEW b \in Nat,
           NEW R, R \subseteq V, \A a \in R : a < b,
           \A a \in R, i \in V : a <= i /\ i < b => i \in R,
           NEW j \in X \cap V, b <= j, \A i \in V : b <= i /\ i <= j => i \in X \cup H
    PROVE  Whole(X \cup R, V, H)
PROOF
<1> SUFFICES ASSUME NEW a \in (X \cup R) \cap V, NEW c \in (X \cup R) \cap V, NEW i \in V,
                    a <= i, i <= c
             PROVE  i \in X \cup R \cup H
  BY DEF Whole
<1>1. a \in Nat /\ c \in Nat /\ i \in Nat /\ j \in Nat
  OBVIOUS
<1>2. CASE i < b
  <2>1. CASE a \in R
    BY <1>2, <2>1
  <2>2. CASE a \in X
    BY <1>1, <1>2, <2>2 DEF Whole
  <2> QED
    BY <2>1, <2>2
<1>3. CASE b <= i /\ i <= j
  BY <1>3
<1>4. CASE j < i
  <2>1. c \in X
    BY <1>1, <1>4
  <2> QED
    BY <1>1, <1>4, <2>1 DEF Whole
<1> QED
  BY <1>1, <1>2, <1>3, <1>4

\* The newest rows up to n join a set that has nothing newer than n missing.
LEMMA JoinNewest ==
    ASSUME NEW V, V \subseteq Nat, NEW X, NEW H, Whole(X, V, H), NEW n \in Nat,
           NEW R, R \subseteq V, \A a \in R : a <= n,
           \A a \in R, i \in V : a <= i /\ i <= n => i \in R,
           NEW S, S \subseteq X \cap V, \A s \in S : s <= n,
           S = {} => \A x \in X : x <= n,
           NEW G, V \cap H \subseteq G,
           R # {} /\ X \cap V # {} =>
               \A i \in V : (\A s \in X \cap V : s < i) /\ (\A a \in R : i < a) => i \in G
    PROVE  Whole(X \cup R, V, G)
PROOF
<1> SUFFICES ASSUME NEW a \in (X \cup R) \cap V, NEW c \in (X \cup R) \cap V, NEW i \in V,
                    a <= i, i <= c
             PROVE  i \in X \cup R \cup G
  BY DEF Whole
<1>1. a \in Nat /\ c \in Nat /\ i \in Nat
  OBVIOUS
<1>2. CASE a \in X /\ c \in X
  BY <1>2 DEF Whole
<1>3. CASE \E s \in X \cap V : n < i /\ s <= n /\ c \in X
  <2>1. PICK s \in X \cap V : n < i /\ s <= n /\ c \in X
    BY <1>3
  <2>2. s <= i
    BY <1>1, <2>1
  <2> QED
    BY <2>1, <2>2 DEF Whole
<1>4. CASE i <= n /\ \E r \in R : r <= i
  BY <1>4
<1>5. CASE a \in X /\ c \in R /\ \A r \in R : i < r
  <2>1. CASE \E s \in X \cap V : i <= s
    BY <1>5, <2>1 DEF Whole
  <2>2. CASE \A s \in X \cap V : s < i
    <3>1. X \cap V # {} /\ R # {}
      BY <1>5
    <3> QED
      BY <1>5, <2>2, <3>1
  <2> QED
    BY <1>1, <2>1, <2>2
<1> QED
  <2>1. CASE c \in R
    <3>1. i <= n
      BY <1>1, <2>1
    <3>2. (\E r \in R : r <= i) \/ (a \in X /\ \A r \in R : i < r)
      <4>1. \A r \in R : r \in Nat
        OBVIOUS
      <4> QED
        BY <1>1, <4>1
    <3> QED
      BY <1>4, <1>5, <2>1, <3>1, <3>2
  <2>2. CASE c \in X /\ a \in R
    <3>1. CASE i <= n
      BY <1>4, <2>2, <3>1
    <3>2. CASE n < i
      <4>1. S # {}
        BY <1>1, <2>2, <3>2
      <4> QED
        BY <1>3, <2>2, <3>2, <4>1
    <3> QED
      BY <1>1, <3>1, <3>2
  <2> QED
    BY <1>2, <2>1, <2>2

\* Rows that end in the newest are whole.
LEMMA UpperWhole ==
    ASSUME NEW V, V \subseteq Nat, NEW X, NEW H, Whole(X, V, H), NEW T, T \subseteq X,
           \A a \in T, i \in X : a <= i => i \in T
    PROVE  Whole(T, V, H)
PROOF
<1> SUFFICES ASSUME NEW a \in T \cap V, NEW c \in T \cap V, NEW i \in V, a <= i, i <= c
             PROVE  i \in T \cup H
  BY DEF Whole
<1>1. i \in X \cup H
  BY DEF Whole
<1> QED
  BY <1>1

\* The first k of a set are the ones above some point of it.
LEMMA TopUpper ==
    ASSUME NEW n \in Nat, NEW X, X \subseteq 0..n, NEW k \in Nat
    PROVE  /\ Top(X, k) \subseteq X
           /\ \A a \in Top(X, k), i \in X : a <= i => i \in Top(X, k)
PROOF
<1>1. ASSUME NEW a \in Top(X, k), NEW i \in X, a <= i PROVE i \in Top(X, k)
  <2> DEFINE A == {j \in X : j > a}
             B == {j \in X : j > i}
  <2>1. B \subseteq A
    <3>1. a \in X /\ a \in Int /\ i \in Int
      BY <1>1 DEF Top
    <3>2. ASSUME NEW j \in X, j > i PROVE j > a
      <4>1. j \in Int
        OBVIOUS
      <4> QED
        BY <1>1, <3>1, <3>2, <4>1
    <3> QED
      BY <3>2
  <2>2. IsFiniteSet(A)
    <3>1. IsFiniteSet(0..n)
      BY FS_Interval
    <3> QED
      BY <3>1, FS_Subset
  <2>3. Cardinality(B) <= Cardinality(A) /\ Cardinality(A) \in Nat /\ Cardinality(B) \in Nat
    BY <2>1, <2>2, FS_Subset, FS_CardinalityType
  <2>4. Cardinality(A) < k
    BY <1>1 DEF Top
  <2>5. Cardinality(B) < k
    BY <2>3, <2>4
  <2> QED
    BY <2>5 DEF Top
<1> QED
  BY <1>1 DEF Top

\* The rows of a page of the open view: they are its newest ones below where the page ends.
LEMMA PageRows ==
    ASSUME HistoryAssumption, HInv, token \in Rooms, NEW q \in Request,
           q.room = token, NEW limit \in Nat,
           NEW n \in q.since..Len(kinds[token]), NEW R, R = Rows(token, Page(q, limit, n))
    PROVE  /\ R \subseteq Here /\ \A a \in R : a <= n /\ (q.before # 0 => a < q.before)
           /\ q.topic = topic => \A a \in R, i \in Here :
                  a <= i /\ i <= n /\ (q.before # 0 => i < q.before) => i \in R
           /\ Page(q, limit, n) \subseteq 1..n
PROOF
<1> DEFINE asked == {i \in 1..n : /\ q.before = 0 \/ i < q.before
                                  /\ q.topic => kinds[token][i] = "topic"}
<1>1. n \in Nat /\ n <= Len(kinds[token]) /\ q.before \in Nat /\ Len(kinds[token]) \in Nat
  BY HInvType, KindsType DEF Request
<1>2. Page(q, limit, n) = {i \in Top(asked, limit) : kinds[token][i] # "hidden"}
  BY DEF Page
<1>3. asked \subseteq 0..n /\ asked \subseteq 1..n
  BY <1>1
<1> HIDE DEF asked
<1>4. /\ Top(asked, limit) \subseteq asked
      /\ \A a \in Top(asked, limit), i \in asked : a <= i => i \in Top(asked, limit)
  BY <1>1, <1>3, TopUpper
<1>5. \A i \in 1..Len(kinds[token]) : kinds[token][i] \in AllKinds
  BY HInvType DEF HistoryAssumption
<1>6. Here = {i \in 1..Len(kinds[token]) : kinds[token][i] \in {"plain", "topic"}
                                           /\ Passes(token, i)}
  BY DEF Here, InView, Saved, Passes
<1>7. R = {i \in Page(q, limit, n) : kinds[token][i] # "control" /\ Passes(token, i)}
  BY DEF Rows
<1>8. ASSUME NEW a \in R PROVE a \in Here /\ a <= n /\ (q.before # 0 => a < q.before)
  <2>1. a \in asked /\ kinds[token][a] # "hidden"
    BY <1>2, <1>4, <1>7
  <2>2. a \in 1..Len(kinds[token])
    <3>1. a \in 1..n
      BY <1>3, <2>1
    <3> QED
      BY <1>1, <3>1
  <2>3. kinds[token][a] \in {"plain", "topic"}
    BY <1>5, <1>7, <2>1, <2>2 DEF AllKinds
  <2>4. a \in Here
    BY <1>6, <1>7, <2>2, <2>3
  <2> QED
    BY <1>1, <2>1, <2>4 DEF asked
<1>9. ASSUME q.topic = topic, NEW a \in R, NEW i \in Here, a <= i, i <= n,
             q.before # 0 => i < q.before
      PROVE  i \in R
  <2>1. i \in 1..n
    BY <1>1, <1>9 DEF Here, InView, Saved
  <2>2. i \in asked
    BY <1>9, <2>1 DEF asked, Here, InView
  <2>3. i \in Top(asked, limit)
    BY <1>2, <1>4, <1>7, <1>9, <2>2
  <2>4. kinds[token][i] \in {"plain", "topic"} /\ Passes(token, i)
    BY <1>6
  <2> QED
    BY <1>2, <1>7, <2>3, <2>4
<1>10. Page(q, limit, n) \subseteq 1..n
  BY <1>2, <1>3, <1>4
<1> QED
  BY <1>8, <1>9, <1>10

-----------------------------------------------------------------------------
(* The newest and the oldest row, and where the long-poll starts.          *)

LEMMA MaxOfUpper ==
    ASSUME NEW n \in Nat, NEW X, X \subseteq 0..n
    PROVE  \A i \in X : i <= MaxOf(X)
PROOF
<1>1. CASE X = {}
  BY <1>1
<1>2. CASE X # {}
  <2>1. \E i \in X : \A j \in X : i >= j
    BY <1>2, Largest
  <2> DEFINE m == MaxOf(X)
  <2>2. m \in X /\ \A j \in X : m >= j
    BY <1>2, <2>1 DEF MaxOf
  <2> HIDE DEF m
  <2>3. m \in Int /\ \A j \in X : j \in Int
    BY <2>2
  <2> QED
    BY <2>2, <2>3 DEF m
<1> QED
  BY <1>1, <1>2

LEMMA MinOfLower ==
    ASSUME NEW X, X \subseteq Nat
    PROVE  \A i \in X : MinOf(X) <= i
PROOF
<1>1. CASE X = {}
  BY <1>1
<1>2. CASE X # {}
  BY <1>2, Smallest DEF MinOf
<1> QED
  BY <1>1, <1>2

LEMMA HereType ==
    ASSUME HInv, token \in Rooms
    PROVE  /\ Here \subseteq 1..Len(kinds[token]) /\ Here \subseteq Nat \ {0}
           /\ Len(kinds[token]) \in Nat
           /\ Here = {i \in 1..Len(kinds[token]) : Visible(i)}
           /\ Here \subseteq All
PROOF
<1>1. Len(kinds[token]) \in Nat
  BY KindsType, HInvType
<1>2. Here = {i \in 1..Len(kinds[token]) : Visible(i)}
  BY DEF Here, InView, Saved, Visible, Passes
<1>3. Here \subseteq All
  BY <1>2 DEF All, Rows, Visible
<1>4. Here \subseteq 1..Len(kinds[token])
  BY <1>2
<1>5. Here \subseteq Nat \ {0}
  BY <1>1, <1>4
<1> QED
  BY <1>1, <1>2, <1>3, <1>4, <1>5

\* Nothing visible lies between a and b.
LEMMA NotBetween ==
    ASSUME HInv, token \in Rooms, NEW a \in Nat, NEW b \in Nat, ~Between(a, b),
           NEW i \in Here, a < i
    PROVE  b <= i
PROOF
<1>1. i \in Nat /\ Visible(i)
  BY HereType
<1> HIDE DEF Visible
<1> QED
  BY <1>1 DEF Between

LEMMA StartReaches ==
    ASSUME HistoryAssumption, HInv, KindsInv, token \in Rooms, NEW shown,
           shown \subseteq Of(token, All), NEW p, p = poll \/ p = StoppedPoller,
           poll' = Started(p, shown)
    PROVE  /\ poll'.room \in Rooms => poll'.cursor <= Len(kinds[poll'.room])
           /\ shown = {} => poll' = p
           /\ \A j \in Ids(shown) : j <= poll'.cursor
           /\ shown # {} /\ ~Skips(shown) =>
                \A i \in Here : i <= poll'.cursor =>
                    (\E j \in Ids(shown) : i <= j) \/ (poll.on /\ i <= poll.cursor)
PROOF
<1> DEFINE newest == MaxOf(Ids(shown))
<1>1. PICK n \in Nat : All \subseteq 1..n /\ n = Len(kinds[token])
  BY AllType, HInvType
<1>2. Ids(shown) \subseteq 0..n
  <2>1. Ids(shown) \subseteq 1..n
    BY <1>1, ShownType, HInvType
  <2> QED
    BY <1>1, <2>1
<1>3. newest \in 0..n /\ (Ids(shown) # {} => newest \in Ids(shown))
      /\ \A i \in Ids(shown) : i <= newest
  BY <1>2, MaxOfType, MaxOfUpper
<1>4. /\ shown # {} => newest # 0
      /\ shown = {} => newest = 0 /\ Ids(shown) = {}
      /\ shown # {} => Ids(shown) # {}
  <2>1. shown = {} => Ids(shown) = {}
    BY DEF Ids
  <2>2. shown # {} => Ids(shown) # {}
    BY DEF Ids
  <2> QED
    BY <2>1, <2>2, ShownType, HInvType
<1> HIDE DEF newest
<1>5. p.room = poll.room /\ p.cursor = poll.cursor /\ p.cursor \in Nat /\ (p.on => poll.on)
      /\ (poll.on => poll.room = token)
  BY HInvType DEF StoppedPoller, Polls, HInv, PollInv
<1>6. poll.room \in Rooms => poll.cursor <= Len(kinds[poll.room])
  BY DEF KindsInv
<1>7. CASE newest = 0
  <2>1. poll' = p /\ shown = {} /\ Ids(shown) = {}
    BY <1>4, <1>7 DEF Started, newest
  <2> QED
    BY <1>5, <1>6, <2>1
<1>8. CASE newest # 0
  <2>1. /\ poll'.room = token
        /\ poll'.cursor = IF p.room = token /\ p.cursor > newest THEN p.cursor ELSE newest
    BY <1>8 DEF Started, newest
  <2>2. shown # {} /\ newest \in Ids(shown)
    BY <1>3, <1>4, <1>8
  <2>3. poll'.cursor <= Len(kinds[poll'.room])
    BY <1>1, <1>3, <1>5, <1>6, <2>1
  <2>4. \A j \in Ids(shown) : j <= poll'.cursor
    <3>1. \A j \in Ids(shown) : j \in Nat
      BY <1>2
    <3> QED
      BY <1>1, <1>3, <1>5, <2>1, <3>1
  <2>5. ASSUME ~Skips(shown), NEW i \in Here, i <= poll'.cursor
        PROVE  (\E j \in Ids(shown) : i <= j) \/ (poll.on /\ i <= poll.cursor)
    <3>1. i \in Nat
      BY HereType
    <3>2. CASE poll'.cursor = newest
      BY <2>2, <2>5, <3>2
    <3>3. CASE poll'.cursor = p.cursor /\ p.cursor > newest /\ p.room = token
      <4>1. CASE poll.on
        BY <1>5, <2>5, <3>3, <4>1
      <4>2. CASE ~poll.on
        <5>1. ~Between(newest, poll.cursor + 1)
          BY <1>5, <2>2, <2>5, <3>3, <4>2 DEF Skips, newest
        <5>2. CASE newest < i
          <6>1. poll.cursor + 1 <= i
            BY <1>3, <1>5, <5>1, <5>2, NotBetween
          <6> QED
            BY <1>5, <2>5, <3>1, <3>3, <6>1
        <5>3. CASE i <= newest
          BY <2>2, <5>3
        <5> QED
          BY <1>3, <3>1, <5>2, <5>3
      <4> QED
        BY <4>1, <4>2
    <3> QED
      BY <2>1, <3>2, <3>3
  <2> QED
    BY <2>2, <2>3, <2>4, <2>5
<1> QED
  BY <1>7, <1>8

-----------------------------------------------------------------------------
(* Steps of the open view.                                                 *)

LEMMA SameKinds ==
    ASSUME kinds' = kinds
    PROVE  /\ \A r : Saved(r)' = Saved(r)
           /\ \A r, t : InView(r, t)' = InView(r, t)
           /\ token' = token /\ topic' = topic => Here' = Here
PROOF
BY DEF Saved, InView, Here

\* The list, the cache and the long-poll get rows of the open view.
LEMMA KindsNext ==
    ASSUME HInv, KindsInv, token \in Rooms, token' = token, topic' = topic, kinds' = kinds,
           loads' = loads,
           \A q \in gapReplies' : q \in gapReplies \/ q.before <= q.since,
           poll'.room \in Rooms => poll'.cursor <= Len(kinds[poll'.room]),
           Shown' \subseteq Here, NEW C, C \subseteq Here,
           cache' = [cache EXCEPT ![token] = @ \cup C]
    PROVE  KindsInv'
PROOF
<1>1. /\ \A r : Saved(r)' = Saved(r)
      /\ Here' = Here
  BY SameKinds
<1>2. Here \subseteq Saved(token)
  BY DEF Here, InView
<1>3. \A r \in Rooms : cache'[r] \subseteq Saved(r)
  BY <1>2, HInvType DEF KindsInv
<1>4. \A q \in gapReplies' : q.before <= q.since
  BY DEF KindsInv
<1> QED
  BY <1>1, <1>3, <1>4 DEF KindsInv

\* The caches that are not those of the open view stay whole.
LEMMA CachesNext ==
    ASSUME HInv, KindsInv, CachesWhole, token \in Rooms, token' = token, topic' = topic,
           kinds' = kinds, excused \subseteq excused', NEW C, C \subseteq Here,
           cache' = [cache EXCEPT ![token] = @ \cup C],
           token \notin excused' => Whole(cache[token] \cup C, Here, Holes')
    PROVE  CachesWhole'
PROOF
<1>1. \A r, t : InView(r, t)' = InView(r, t)
  BY SameKinds
<1>2. ASSUME NEW r \in Rooms \ excused', NEW t \in Sides
      PROVE  Whole(cache'[r], InView(r, t), IF r = token /\ t = topic THEN Holes' ELSE {})
  <2>1. Whole(cache[r], InView(r, t), IF r = token /\ t = topic THEN Holes ELSE {})
    BY <1>2 DEF CachesWhole
  <2>2. CASE r = token /\ t = topic
    <3>1. cache'[r] = cache[token] \cup C /\ InView(r, t) = Here
      BY <2>2, HInvType DEF Here
    <3>2. token \notin excused'
      BY <1>2, <2>2
    <3> QED
      BY <2>2, <3>1, <3>2
  <2>3. CASE r = token /\ t # topic
    <3>1. cache'[r] = cache[r] \cup C
      BY <2>3, HInvType
    <3>2. topic \in BOOLEAN /\ t \in BOOLEAN
      BY HInvType DEF Sides
    <3>3. \A i \in Here : i \notin InView(r, t)
      <4>1. (t /\ ~topic) \/ (~t /\ topic)
        BY <2>3, <3>2
      <4>2. t \/ topic => Threads
        BY <1>2 DEF Sides, KindsInv
      <4>3. CASE t /\ ~topic
        BY <2>3, <4>2, <4>3 DEF Here, InView
      <4>4. CASE ~t /\ topic
        BY <2>3, <4>2, <4>4 DEF Here, InView
      <4> QED
        BY <4>1, <4>3, <4>4
    <3> QED
      BY <2>1, <2>3, <3>1, <3>3 DEF Whole
  <2>4. CASE r # token
    <3>1. cache'[r] = cache[r]
      BY <2>4, HInvType
    <3> QED
      BY <2>1, <2>4, <3>1
  <2> QED
    BY <2>2, <2>3, <2>4
<1> QED
  BY <1>1, <1>2 DEF CachesWhole, Sides

LEMMA LoadsNext ==
    ASSUME HInv, LoadsWhole, kinds' = kinds, loads' = loads, excused \subseteq excused',
           \A r \in Rooms : cache[r] \subseteq cache'[r]
    PROVE  LoadsWhole'
PROOF
<1>1. \A r, t : InView(r, t)' = InView(r, t)
  BY SameKinds
<1>2. \A k \in 1..Len(loads) : loads[k].room \in Rooms
  <2>1. \A k \in 1..Len(loads) : loads[k] \in Loads
    <3> HIDE DEF Loads
    <3> QED
      BY HInvType
  <2> QED
    BY <2>1 DEF Loads
<1> QED
  BY <1>1, <1>2 DEF LoadsWhole, Sides

\* A request that met the list, meets the longer one.
LEMMA AskedNext ==
    ASSUME HInv, ListInv, HistoryAsked, RefreshAsked, token \in Rooms, token' = token,
           topic' = topic, Shown \subseteq Shown', Shown # {} => view'.oldest <= view.oldest,
           view'.oldest \in Nat,
           NEW C, C \subseteq Shown', cache' = [cache EXCEPT ![token] = @ \cup C],
           history' = history \/ history' = NoRequest, refreshes' \subseteq refreshes
    PROVE  /\ HistoryAsked' /\ RefreshAsked'
           /\ \A q \in Request : Anchored(q) => Anchored(q)'
PROOF
<1>1. \A q \in Request : Newest(q) => Newest(q)'
  <2>1. Shown' = {} => cache'[token'] = cache[token] /\ Shown = {}
    BY HInvType
  <2> QED
    BY <2>1 DEF Newest
<1>2. \A q \in Request : Anchored(q) => Anchored(q)'
  <2>1. ASSUME NEW q \in Request, Anchored(q) PROVE Anchored(q)'
    <3>1. Shown # {} /\ q.before \in Nat /\ view.oldest \in Nat
      BY <2>1, HInvType DEF Anchored, Request, Views
    <3>2. view'.oldest <= q.before
      BY <2>1, <3>1 DEF Anchored
    <3> QED
      BY <2>1, <3>2 DEF Anchored
  <2> QED
    BY <2>1
<1>3. history \in Request /\ \A q \in refreshes : q \in Request
  BY HInvType
<1> QED
  BY <1>1, <1>2, <1>3 DEF HistoryAsked, RefreshAsked

LEMMA ShownEmpty ==
    ASSUME NEW shown
    PROVE  Ids(shown) = {} <=> shown = {}
PROOF
BY DEF Ids

LEMMA SameCache ==
    ASSUME HInv, token \in Rooms, cache' = cache
    PROVE  \E C : C = {} /\ cache' = [cache EXCEPT ![token] = @ \cup C]
PROOF
<1>1. cache' = [cache EXCEPT ![token] = @ \cup {}]
  BY HInvType
<1> QED
  BY <1>1

LEMMA ExcuseGrows ==
    ASSUME NEW cause, Excuse(cause)
    PROVE  /\ excused \subseteq excused' /\ (cause => token \in excused')
           /\ token \notin excused' => ~cause /\ token \notin excused
PROOF
BY DEF Excuse

\* The gap fill goes on as it was.
LEMMA SameHoles ==
    ASSUME gapReplies' = gapReplies
    PROVE  Holes' = Holes /\ (Filling' <=> Filling)
PROOF
BY DEF Holes, Filling

LEMMA Opened ==
    ASSUME GapInv, token \in Rooms, token \notin excused
    PROVE  ListInv /\ ReachInv /\ HistoryAsked /\ RefreshAsked /\ GapAsked
PROOF
BY DEF GapInv, OpenInv

\* An answer that brings no rows: the long-poll is started.
LEMMA NoRowsKeeps ==
    ASSUME HistoryAssumption, HInv, GapInv, token \in Rooms, token' = token, topic' = topic,
           kinds' = kinds, loads' = loads, cache' = cache, gapReplies' = gapReplies,
           gap' = gap, view'.shown = view.shown, view'.oldest = view.oldest,
           history' = history \/ history' = NoRequest, refreshes' \subseteq refreshes,
           poll' = Started(poll, view.shown), Excuse(Skips(view.shown))
    PROVE  GapInv'
PROOF
<1>1. KindsInv /\ CachesWhole /\ LoadsWhole
  BY DEF GapInv
<1>2. Shown' = Shown /\ Here' = Here /\ Holes' = Holes /\ (Filling' <=> Filling)
  BY SameKinds, SameHoles DEF Shown
<1>3. view.shown \subseteq Of(token, All)
  BY DEF HInv, ViewInv
<1>4. /\ poll'.room \in Rooms => poll'.cursor <= Len(kinds[poll'.room])
      /\ view.shown = {} => poll' = poll
      /\ \A j \in Shown : j <= poll'.cursor
      /\ view.shown # {} /\ ~Skips(view.shown) =>
           \A i \in Here : i <= poll'.cursor =>
               (\E j \in Shown : i <= j) \/ (poll.on /\ i <= poll.cursor)
  BY <1>1, <1>3, StartReaches DEF Shown
<1>5. PICK C : C = {} /\ cache' = [cache EXCEPT ![token] = @ \cup C]
  BY SameCache
<1>6. excused \subseteq excused' /\ (token \notin excused' => ~Skips(view.shown) /\ token \notin excused)
  BY ExcuseGrows
<1>7. KindsInv'
  <2>1. Shown' \subseteq Here /\ C \subseteq Here
        /\ \A q \in gapReplies' : q \in gapReplies \/ q.before <= q.since
    BY <1>1, <1>2, <1>5 DEF KindsInv
  <2> QED
    BY <1>1, <1>4, <1>5, <2>1, KindsNext
<1>8. LoadsWhole'
  BY <1>1, <1>6, LoadsNext
<1>9. CachesWhole'
  <2>1. token \notin excused' => Whole(cache[token] \cup C, Here, Holes')
    <3>1. token \notin excused' => Whole(cache[token], Here, Holes)
      <4>1. topic \in Sides
        BY <1>1, HInvType DEF KindsInv, Sides
      <4> QED
        BY <1>1, <1>6, <4>1 DEF CachesWhole, Here
    <3>2. cache[token] \cup C = cache[token]
      BY <1>5
    <3> QED
      BY <1>2, <3>1, <3>2
  <2>2. C \subseteq Here
    BY <1>5
  <2> QED
    BY <1>1, <1>5, <1>6, <2>1, <2>2, CachesNext
<1>10. ASSUME token \notin excused'
       PROVE  ListInv' /\ ReachInv' /\ HistoryAsked' /\ RefreshAsked' /\ GapAsked'
  <2>1. ListInv /\ ReachInv /\ HistoryAsked /\ RefreshAsked /\ GapAsked
    BY <1>6, <1>10, Opened
  <2>2. Shown = {} <=> view.shown = {}
    BY ShownEmpty DEF Shown
  <2>3. ListInv'
    <3>1. Shown' \subseteq cache'[token'] /\ Whole(Shown', Here', Holes')
      BY <1>2, <2>1 DEF ListInv
    <3>2. Shown' = {} => view'.oldest = 0 /\ ~poll'.on /\ ~Filling'
      BY <1>2, <1>4, <2>1, <2>2 DEF ListInv
    <3>3. Shown' # {} => view'.oldest \in Shown' /\ \A j \in Shown' : view'.oldest <= j
      BY <1>2, <2>1 DEF ListInv
    <3> QED
      BY <3>1, <3>2, <3>3 DEF ListInv
  <2>4. ReachInv'
    <3>1. ASSUME poll'.on, NEW i \in Here, i <= poll'.cursor PROVE \E j \in Shown : i <= j
      <4>1. view.shown # {}
        BY <1>4, <2>1, <2>2, <3>1 DEF ListInv
      <4>2. (\E j \in Shown : i <= j) \/ (poll.on /\ i <= poll.cursor)
        BY <1>4, <1>6, <1>10, <3>1, <4>1
      <4> QED
        BY <2>1, <4>2 DEF ReachInv
    <3> QED
      BY <1>2, <1>4, <3>1 DEF ReachInv
  <2>5. view.oldest \in Nat /\ view'.oldest <= view.oldest
    BY HInvType DEF Views
  <2>6. /\ HistoryAsked' /\ RefreshAsked'
        /\ \A q \in Request : Anchored(q) => Anchored(q)'
    <3>1. C \subseteq Shown' /\ Shown \subseteq Shown'
      BY <1>2, <1>5
    <3> QED
      BY <1>5, <2>1, <2>5, <3>1, AskedNext
  <2>7. GapAsked'
    BY <2>1, <2>6, HInvType DEF GapAsked
  <2> QED
    BY <2>1, <2>3, <2>4, <2>6, <2>7
<1> QED
  BY <1>7, <1>8, <1>9, <1>10 DEF GapInv, OpenInv

\* The long-poll started after an answer that brought rows.
LEMMA StartKeepsReach ==
    ASSUME HistoryAssumption, HInv, KindsInv, ListInv, ReachInv, token \in Rooms,
           token' = token, topic' = topic, kinds' = kinds,
           view'.shown \subseteq Of(token, All), Shown \subseteq Shown',
           NEW p, p = poll \/ p = StoppedPoller, poll' = Started(p, view'.shown),
           ~Skips(view'.shown)
    PROVE  ReachInv' /\ (Shown' = {} => ~poll'.on)
PROOF
<1> DEFINE shown == view'.shown
<1>1. Here' = Here
  BY SameKinds
<1>2. Shown' = Ids(shown) /\ (Shown' = {} <=> shown = {})
  BY ShownEmpty DEF Shown
<1>3. /\ shown = {} => poll' = p
      /\ \A j \in Ids(shown) : j <= poll'.cursor
      /\ shown # {} /\ ~Skips(shown) =>
           \A i \in Here : i <= poll'.cursor =>
               (\E j \in Ids(shown) : i <= j) \/ (poll.on /\ i <= poll.cursor)
  <2> HIDE DEF shown
  <2>1. poll' = Started(p, shown) /\ shown \subseteq Of(token, All)
    BY DEF shown
  <2> QED
    BY <2>1, StartReaches
<1>4. Shown' = {} => ~poll'.on
  <2>1. Shown' = {} => Shown = {} /\ poll' = p
    BY <1>2, <1>3
  <2>2. ~StoppedPoller.on
    BY StoppedType, HInvType
  <2> QED
    BY <2>1, <2>2 DEF ListInv
<1>5. ASSUME poll'.on, NEW i \in Here, i <= poll'.cursor PROVE \E j \in Shown' : i <= j
  <2>1. shown # {}
    BY <1>2, <1>4, <1>5
  <2>2. (\E j \in Shown' : i <= j) \/ (poll.on /\ i <= poll.cursor)
    BY <1>2, <1>3, <1>5, <2>1
  <2> QED
    BY <2>2 DEF ReachInv
<1> QED
  BY <1>1, <1>2, <1>3, <1>4, <1>5 DEF ReachInv

\* Rows of an answer join the list and the cache.
LEMMA JoinKeeps ==
    ASSUME HistoryAssumption, HInv, HInv', GapInv, token \in Rooms, token' = token,
           topic' = topic, kinds' = kinds, loads' = loads,
           history' = history \/ history' = NoRequest, refreshes' \subseteq refreshes,
           \A q \in gapReplies' : q \in gapReplies \/ q.before <= q.since,
           poll'.room \in Rooms => poll'.cursor <= Len(kinds[poll'.room]),
           excused \subseteq excused',
           NEW R, R \subseteq Here, Shown' = Shown \cup R,
           NEW C, C \subseteq Shown \cup R, cache' = [cache EXCEPT ![token] = @ \cup C],
           token \notin excused' =>
               /\ cache[token] \cup C = cache[token] \cup R
               /\ Whole(Shown \cup R, Here, Holes')
               /\ Whole(cache[token] \cup R, Here, Holes')
               /\ Shown' = {} => view'.oldest = 0 /\ ~poll'.on /\ ~Filling'
               /\ Shown' # {} => view'.oldest \in Shown' /\ \A j \in Shown' : view'.oldest <= j
               /\ ReachInv' /\ GapAsked'
    PROVE  GapInv'
PROOF
<1>1. KindsInv /\ CachesWhole /\ LoadsWhole
  BY DEF GapInv
<1>2. Here' = Here
  BY SameKinds
<1>3. Shown' \subseteq Here /\ C \subseteq Here /\ C \subseteq Shown'
  BY <1>1 DEF KindsInv
<1>4. KindsInv'
  BY <1>1, <1>3, KindsNext
<1>5. LoadsWhole'
  <2>1. \A r \in Rooms : cache[r] \subseteq cache'[r]
    BY HInvType
  <2> QED
    BY <1>1, <2>1, LoadsNext
<1>6. CachesWhole'
  <2>1. token \notin excused' => Whole(cache[token] \cup C, Here, Holes')
    <3>1. token \notin excused' => cache[token] \cup C = cache[token] \cup R
                                   /\ Whole(cache[token] \cup R, Here, Holes')
      OBVIOUS
    <3> QED
      BY <3>1
  <2> QED
    BY <1>1, <1>3, <2>1, CachesNext
<1>7. ASSUME token \notin excused'
      PROVE  ListInv' /\ ReachInv' /\ HistoryAsked' /\ RefreshAsked' /\ GapAsked'
  <2>1. ListInv /\ ReachInv /\ HistoryAsked /\ RefreshAsked /\ GapAsked
    BY <1>7, Opened
  <2>2. ListInv'
    <3>1. Shown' \subseteq cache'[token']
      <4>1. cache'[token] = cache[token] \cup R
        BY <1>7, HInvType
      <4> QED
        BY <2>1, <4>1 DEF ListInv
    <3>2. Whole(Shown', Here', Holes')
      BY <1>2, <1>7
    <3>3. /\ Shown' = {} => view'.oldest = 0 /\ ~poll'.on /\ ~Filling'
          /\ Shown' # {} => view'.oldest \in Shown' /\ \A j \in Shown' : view'.oldest <= j
      BY <1>7
    <3> QED
      BY <3>1, <3>2, <3>3 DEF ListInv
  <2>3. HistoryAsked' /\ RefreshAsked'
    <3>1. view'.oldest \in Nat
      <4>1. view' \in Views
        BY DEF HInv, TypeOK, Views
      <4> QED
        BY <4>1 DEF Views
    <3>2. Shown # {} => view'.oldest <= view.oldest
      BY <1>7, <2>1 DEF ListInv
    <3>3. Shown \subseteq Shown'
      OBVIOUS
    <3> QED
      BY <1>3, <2>1, <3>1, <3>2, <3>3, AskedNext
  <2> QED
    BY <1>7, <2>2, <2>3
<1> QED
  BY <1>4, <1>5, <1>6, <1>7 DEF GapInv, OpenInv

-----------------------------------------------------------------------------
(* The newest page.                                                        *)

LEMMA CachedRows ==
    ASSUME HInv, token \in Rooms, NEW X, X \subseteq Saved(token)
    PROVE  Rows(token, X) = X \cap Here
PROOF
<1>1. Here = {i \in Saved(token) : Passes(token, i)}
  BY DEF Here, InView, Saved, Passes
<1>2. \A i \in X : kinds[token][i] # "control"
  BY DEF Saved
<1> QED
  BY <1>1, <1>2 DEF Rows

\* The newest and the oldest of some rows of the open view.
LEMMA Ends ==
    ASSUME HInv, token \in Rooms, NEW X, X \subseteq Here
    PROVE  /\ MaxOf(X) \in Nat /\ MinOf(X) \in Nat
           /\ X # {} => MaxOf(X) \in X /\ MinOf(X) \in X
           /\ \A i \in X : MinOf(X) <= i /\ i <= MaxOf(X)
           /\ X = {} => MaxOf(X) = 0
PROOF
<1>1. PICK n \in Nat : Here \subseteq 1..n
  BY HereType
<1>2. X \subseteq 0..n /\ X \subseteq Nat
  BY <1>1
<1>3. X = {} => MaxOf(X) = 0
  BY DEF MaxOf
<1>4. MaxOf(X) \in 0..n /\ (X # {} => MaxOf(X) \in X) /\ \A i \in X : i <= MaxOf(X)
  BY <1>2, MaxOfType, MaxOfUpper
<1>5. MinOf(X) \in Nat /\ (X # {} => MinOf(X) \in X) /\ \A i \in X : MinOf(X) <= i
  BY <1>2, MinOfType, MinOfLower
<1> QED
  BY <1>3, <1>4, <1>5

LEMMA NewestJoins ==
    ASSUME HistoryAssumption, HInv, KindsInv, token \in Rooms, NEW n \in Nat,
           NEW R, R \subseteq Here, \A a \in R : a <= n,
           \A a \in R, i \in Here : a <= i /\ i <= n => i \in R,
           NEW X, Shown \subseteq X, Whole(X, Here, Holes),
           R \ Shown # {} => MaxOf(Shown) <= n,
           Shown = {} => /\ \A x \in X : x <= n
                         /\ X \cap Here # {} /\ R # {} =>
                              ~Between(MaxOf(X \cap Here), MinOf(R)),
           NEW G, Here \cap Holes \subseteq G,
           Shown # {} /\ R \ Shown # {} =>
               \A i \in Here : MaxOf(Shown) < i /\ i < MinOf(R \ Shown) => i \in G
    PROVE  Whole(X \cup R, Here, G)
PROOF
<1>1. Shown \subseteq Here /\ Here \subseteq Nat
  BY HereType DEF KindsInv
<1>2. CASE R \subseteq Shown
  <2>1. X \cup R = X /\ Here \cap Holes \subseteq X \cup G
    BY <1>2
  <2> QED
    BY <2>1, WholeNarrows
<1>3. CASE ~(R \subseteq Shown)
  <2> DEFINE new == R \ Shown
  <2>1. new # {} /\ new \subseteq Here /\ R # {} /\ X \cap Here \subseteq Here
    BY <1>3
  <2> HIDE DEF new
  <2>2. /\ MaxOf(Shown) \in Nat /\ (Shown # {} => MaxOf(Shown) \in Shown)
        /\ \A s \in Shown : s <= MaxOf(Shown)
    BY <1>1, Ends
  <2>3. MinOf(new) \in Nat /\ MinOf(new) \in new
    BY <2>1, Ends
  <2>4. MinOf(R) \in Nat /\ MinOf(R) \in R
    BY <2>1, Ends
  <2>5. /\ MaxOf(X \cap Here) \in Nat
        /\ X \cap Here # {} => MaxOf(X \cap Here) \in X \cap Here
    BY <2>1, Ends
  <2>6. \A s \in Shown : s <= n
    <3>1. MaxOf(Shown) <= n
      BY <2>1 DEF new
    <3>2. \A s \in Shown : s \in Nat
      BY <1>1
    <3> QED
      BY <2>2, <3>1, <3>2
  <2>7. ASSUME X \cap Here # {}, NEW i \in Here, \A s \in X \cap Here : s < i,
               \A a \in R : i < a
        PROVE  i \in G
    <3>1. CASE Shown = {}
      <4>1. ~Between(MaxOf(X \cap Here), MinOf(R))
        BY <2>1, <2>7, <3>1
      <4>2. MaxOf(X \cap Here) < i
        BY <2>5, <2>7
      <4>3. MinOf(R) <= i
        BY <2>4, <2>5, <4>1, <4>2, NotBetween
      <4>4. i < MinOf(R) /\ i \in Nat
        BY <1>1, <2>4, <2>7
      <4> QED
        BY <2>4, <4>3, <4>4
    <3>2. CASE Shown # {}
      <4>1. MaxOf(Shown) < i
        BY <1>1, <2>2, <2>7, <3>2
      <4>2. i < MinOf(new)
        BY <2>3, <2>7 DEF new
      <4> QED
        BY <2>1, <3>2, <4>1, <4>2 DEF new
    <3> QED
      BY <3>1, <3>2
  <2>8. Shown \subseteq X \cap Here
    BY <1>1
  <2> QED
    BY <1>1, <2>6, <2>7, <2>8, JoinNewest
<1> QED
  BY <1>2, <1>3

LEMMA RowsJoin ==
    ASSUME HistoryAssumption, HInv, token \in Rooms, NEW R, R \subseteq Here,
           NEW shown, shown = view.shown \cup Of(token, R \ Shown)
    PROVE  /\ Ids(shown) = Shown \cup R /\ shown \subseteq Of(token, All)
           /\ (shown = {} <=> Shown \cup R = {})
PROOF
<1>1. Ids(shown) = Shown \cup R
  <2>1. Ids(Of(token, R \ Shown)) = R \ Shown
    BY IdsOf
  <2>2. Ids(shown) = Shown \cup Ids(Of(token, R \ Shown))
    BY DEF Ids, Shown
  <2> QED
    BY <2>1, <2>2
<1>2. R \ Shown \subseteq All
  BY HereType
<1> QED
  BY <1>1, <1>2, Joins, ShownEmpty

\* The list has an oldest row.
LEMMA OldestOf ==
    ASSUME HInv, KindsInv, token \in Rooms, NEW R, R \subseteq Here, Shown' = Shown \cup R,
           view'.oldest = MinOf(Shown') \/ (ListInv /\ R \subseteq Shown /\ view'.oldest = view.oldest)
    PROVE  Shown' # {} => view'.oldest \in Shown' /\ \A j \in Shown' : view'.oldest <= j
PROOF
<1>1. CASE view'.oldest = MinOf(Shown')
  <2>1. Shown \cup R \subseteq Here
    BY DEF KindsInv
  <2> QED
    BY <1>1, <2>1, Ends
<1>2. CASE ListInv /\ R \subseteq Shown /\ view'.oldest = view.oldest
  <2>1. Shown' = Shown
    BY <1>2
  <2> QED
    BY <1>2, <2>1 DEF ListInv
<1> QED
  BY <1>1, <1>2

LEMMA AnchoredNext ==
    ASSUME HInv, token' = token, topic' = topic, Shown \subseteq Shown',
           Shown # {} => view'.oldest <= view.oldest, view'.oldest \in Nat
    PROVE  \A q \in Request : Anchored(q) => Anchored(q)'
PROOF
<1>1. ASSUME NEW q \in Request, Anchored(q) PROVE Anchored(q)'
  <2>1. Shown # {} /\ q.before \in Nat /\ view.oldest \in Nat
    BY <1>1, HInvType DEF Anchored, Request, Views
  <2>2. view'.oldest <= q.before
    BY <1>1, <2>1 DEF Anchored
  <2> QED
    BY <1>1, <2>2 DEF Anchored
<1> QED
  BY <1>1

LEMMA OldestType == ASSUME HInv' PROVE view'.oldest \in Nat
PROOF
BY DEF HInv, TypeOK

\* The gap fill begins: the hole is between the newest row and what the page brought.
LEMMA FillBegins ==
    ASSUME HistoryAssumption, HInv, HInv', token \in Rooms, token' = token,
           topic' = topic, ~Filling, NEW cursor \in Shown', NEW target \in Nat,
           cursor \in Nat \ {0}, view'.oldest <= cursor,
           GapStep(cursor, target, GapPages, gapReplies)
    PROVE  /\ GapAsked'
           /\ \A i \in Nat : target < i /\ i < cursor => i \in Holes'
           /\ \A i \in Holes : i \in Holes'
           /\ \A p \in gapReplies' : p \in gapReplies \/ p = Ask(token, topic, cursor, target)
PROOF
<1>0. PICK ask : ask = Ask(token, topic, cursor, target)
  OBVIOUS
<1>1. /\ gap' = [cursor |-> cursor, target |-> target, left |-> GapPages]
      /\ gapReplies' = gapReplies \cup {ask}
  <2>1. GapPages > 0 /\ cursor > 0
    BY DEF HistoryAssumption
  <2> QED
    BY <1>0, <2>1 DEF GapStep
<1>2. ask.topic = topic /\ ask.before = cursor /\ ask.target = target /\ ask.fresh
  BY <1>0 DEF Ask
<1>3. GapAsked'
  <2>1. gap'.target = target
    BY <1>1
  <2>2. Anchored(ask)'
    <3>1. \E j \in Shown' : cursor <= j
      OBVIOUS
    <3> QED
      BY <1>2, <3>1 DEF Anchored
  <2>3. \A p \in gapReplies' : p.fresh => p = ask
    BY <1>1 DEF Filling
  <2> QED
    BY <1>2, <2>1, <2>2, <2>3 DEF GapAsked
<1>4. \A i \in Nat : target < i /\ i < cursor => i \in Holes'
  BY <1>1, <1>2 DEF Holes
<1>5. \A i \in Holes : i \in Holes'
  BY <1>1 DEF Holes
<1> QED
  BY <1>0, <1>1, <1>3, <1>4, <1>5

LEMMA RefreshMergedGap ==
    ASSUME HistoryAssumption, HInv, GapInv, NEW q \in refreshes,
           NEW n \in q.since..Len(kinds[q.room]), RefreshMerged(q, n)
    PROVE  GapInv'
PROOF
<1>1. q.room = token /\ token \in Rooms /\ q \in Request /\ q.fresh /\ KindsInv
  BY FreshRequest, HInvType DEF RefreshMerged, GapInv
<1>2. n \in Nat /\ n <= Len(kinds[token]) /\ q.since \in Nat /\ q.since <= n
  BY <1>1, HInvType, KindsType DEF Request
<1>3. HInv'
  BY RefreshMergedKeeps
<1>4. PICK data : data = Page(q, PageLimit, n)
  OBVIOUS
<1>5. PICK R : R = Rows(token, data)
  OBVIOUS
<1>6. PICK missing : missing = R \ Shown
  OBVIOUS
<1>7. PICK shown : shown = view.shown \cup Of(token, missing)
  OBVIOUS
<1>8. /\ refreshes' \subseteq refreshes
      /\ view' = [view EXCEPT !.shown = shown,
                              !.oldest = IF missing = {} THEN @ ELSE MinOf(Ids(shown))]
      /\ cache' = IF missing = {} THEN cache
                  ELSE [cache EXCEPT ![token] = @ \cup Ids(shown)]
      /\ IF Holed(MaxOf(Shown), missing)
         THEN GapStep(MinOf(missing), MaxOf(Shown), GapPages, gapReplies)
         ELSE gap' = gap /\ gapReplies' = gapReplies
      /\ poll' = Started(StoppedPoller, shown)
      /\ Excuse(\/ Holed(MaxOf(Shown), missing) /\ Filling
                \/ Older(data, missing) \/ Skips(shown) \/ Detached(missing))
      /\ token' = token /\ topic' = topic /\ history' = history /\ loads' = loads
      /\ kinds' = kinds
  BY <1>1, <1>4, <1>5, <1>6, <1>7 DEF RefreshMerged, Shown
<1>9. /\ R \subseteq Here /\ \A a \in R : a <= n
      /\ q.topic = topic /\ q.before = 0 =>
            \A a \in R, i \in Here : a <= i /\ i <= n => i \in R
      /\ data \subseteq 1..n
  <2>1. PageLimit \in Nat
    BY DEF HistoryAssumption
  <2> QED
    BY <1>1, <1>4, <1>5, <2>1, PageRows
<1>10. Ids(shown) = Shown \cup R /\ shown \subseteq Of(token, All)
  BY <1>1, <1>6, <1>7, <1>9, RowsJoin
<1>11. view'.shown = shown /\ view'.oldest = IF missing = {} THEN view.oldest
                                             ELSE MinOf(Ids(shown))
  BY <1>8, HInvType DEF Views
<1>12. Shown' = Shown \cup R
  BY <1>10, <1>11 DEF Shown
<1>13. /\ excused \subseteq excused'
       /\ token \notin excused' =>
            /\ token \notin excused /\ ~Older(data, missing) /\ ~Skips(shown)
            /\ ~Detached(missing) /\ ~(Holed(MaxOf(Shown), missing) /\ Filling)
  BY <1>8, ExcuseGrows
<1>14. PICK C : C \subseteq Shown \cup R /\ cache' = [cache EXCEPT ![token] = @ \cup C]
                /\ (missing # {} => C = Shown \cup R) /\ (missing = {} => C = {})
  <2>1. CASE missing = {}
    BY <1>1, <1>8, <2>1, SameCache
  <2>2. CASE missing # {}
    BY <1>8, <1>10, <2>2
  <2> QED
    BY <2>1, <2>2
<1>15. Shown \subseteq Here /\ Here \subseteq Nat \ {0} /\ missing \subseteq Here
  BY <1>1, <1>6, <1>9, HereType DEF KindsInv
<1>16. /\ MaxOf(Shown) \in Nat /\ (Shown # {} => MaxOf(Shown) \in Shown)
       /\ MinOf(missing) \in Nat /\ (missing # {} => MinOf(missing) \in missing)
       /\ (Shown = {} => MaxOf(Shown) = 0)
  BY <1>1, <1>15, Ends
<1>17. poll'.room \in Rooms => poll'.cursor <= Len(kinds[poll'.room])
  BY <1>1, <1>8, <1>10, StartReaches
<1>18. \A p \in gapReplies' : p \in gapReplies \/ p.before <= p.since
  <2>1. PICK ask : ask = Ask(token, topic, MinOf(missing), MaxOf(Shown))
    OBVIOUS
  <2>2. \A p \in gapReplies' : p \in gapReplies \/ (p = ask /\ missing # {})
    BY <1>8, <2>1 DEF GapStep, Holed
  <2>3. missing # {} => ask.before <= ask.since
    <3>1. missing # {} => MinOf(missing) \in 1..Len(kinds[token])
      BY <1>1, <1>15, <1>16, HereType
    <3> QED
      BY <1>1, <2>1, <3>1, HereType DEF Ask
  <2> QED
    BY <2>2, <2>3
<1>19. ASSUME token \notin excused'
       PROVE  /\ cache[token] \cup C = cache[token] \cup R
              /\ Whole(Shown \cup R, Here, Holes')
              /\ Whole(cache[token] \cup R, Here, Holes')
              /\ Shown' = {} => view'.oldest = 0 /\ ~poll'.on /\ ~Filling'
              /\ Shown' # {} => view'.oldest \in Shown' /\ \A j \in Shown' : view'.oldest <= j
              /\ ReachInv' /\ GapAsked'
  <2>1. /\ token \notin excused /\ ~Older(data, missing) /\ ~Skips(shown)
        /\ ~Detached(missing) /\ ~(Holed(MaxOf(Shown), missing) /\ Filling)
    BY <1>13, <1>19
  <2>2. ListInv /\ ReachInv /\ HistoryAsked /\ RefreshAsked /\ GapAsked
    BY <1>1, <2>1, Opened
  <2>3. q.topic = topic /\ q.before = 0 /\ (Shown = {} => cache[token] \subseteq 1..q.since)
    BY <1>1, <2>2 DEF RefreshAsked, Newest
  <2>4. Shown' # {} => view'.oldest \in Shown' /\ \A j \in Shown' : view'.oldest <= j
    <3>1. view'.oldest = MinOf(Shown') \/ (R \subseteq Shown /\ view'.oldest = view.oldest)
      BY <1>6, <1>10, <1>11, <1>12
    <3> QED
      BY <1>1, <1>9, <1>12, <2>2, <3>1, OldestOf
  <2>5. ReachInv' /\ (Shown' = {} => ~poll'.on)
    <3>1. Shown \subseteq Shown'
      BY <1>12
    <3> QED
      BY <1>1, <1>8, <1>10, <1>11, <2>1, <2>2, <3>1, StartKeepsReach
  <2>6. \A p \in Request : Anchored(p) => Anchored(p)'
    <3>1. Shown # {} => view'.oldest <= view.oldest
      BY <1>12, <2>2, <2>4 DEF ListInv
    <3> QED
      BY <1>3, <1>8, <1>12, <3>1, AnchoredNext, OldestType
  <2>7. /\ GapAsked' /\ Here \cap Holes \subseteq Holes'
        /\ Shown # {} /\ missing # {} =>
             \A i \in Here : MaxOf(Shown) < i /\ i < MinOf(missing) => i \in Holes'
        /\ Shown' = {} => ~Filling'
    <3>1. CASE Holed(MaxOf(Shown), missing)
      <4>1. ~Filling /\ missing # {} /\ MinOf(missing) \in Shown'
        BY <1>6, <1>12, <1>16, <2>1, <3>1 DEF Holed
      <4>2. MinOf(missing) \in Nat \ {0} /\ view'.oldest <= MinOf(missing)
        BY <1>15, <1>16, <2>4, <4>1
      <4>3. GapStep(MinOf(missing), MaxOf(Shown), GapPages, gapReplies)
        BY <1>8, <3>1
      <4>4. /\ GapAsked' /\ \A i \in Holes : i \in Holes'
            /\ \A i \in Nat : MaxOf(Shown) < i /\ i < MinOf(missing) => i \in Holes'
        BY <1>1, <1>3, <1>8, <1>16, <4>1, <4>2, <4>3, FillBegins
      <4> QED
        BY <1>15, <4>1, <4>4
    <3>2. CASE ~Holed(MaxOf(Shown), missing)
      <4>1. gap' = gap /\ gapReplies' = gapReplies
        BY <1>8, <3>2
      <4>2. Holes' = Holes /\ (Filling' <=> Filling)
        BY <4>1, SameHoles
      <4>3. GapAsked'
        BY <2>2, <2>6, <4>1, HInvType DEF GapAsked
      <4>4. ASSUME Shown # {}, missing # {}, NEW i \in Here, MaxOf(Shown) < i,
                   i < MinOf(missing)
            PROVE  FALSE
        <5>1. MaxOf(Shown) > 0 /\ i \in Nat
          BY <1>15, <1>16, <4>4
        <5>2. MinOf(missing) <= MaxOf(Shown) + 1
          BY <1>16, <3>2, <4>4, <5>1 DEF Holed
        <5> QED
          BY <1>16, <4>4, <5>1, <5>2
      <4>5. Shown' = {} => ~Filling
        BY <1>12, <2>2 DEF ListInv
      <4> QED
        BY <4>2, <4>3, <4>4, <4>5
    <3> QED
      BY <3>1, <3>2
  <2>8. cache[token] \cup C = cache[token] \cup R
    BY <1>6, <1>14, <2>2 DEF ListInv
  <2>9. R \ Shown # {} => MaxOf(Shown) <= n
    <3>1. MaxOf(data) \in 0..n
      <4>1. data \subseteq 0..n
        BY <1>9
      <4> QED
        BY <1>2, <4>1, MaxOfType
    <3>2. missing # {} => ~(MaxOf(data) < MaxOf(Shown))
      BY <2>1 DEF Older, Shown
    <3> QED
      BY <1>2, <1>6, <1>16, <3>1, <3>2
  <2>10. \A a \in R, i \in Here : a <= i /\ i <= n => i \in R
    BY <1>9, <2>3
  <2>11. Whole(Shown \cup R, Here, Holes')
    <3>1. Shown = {} => /\ \A x \in Shown : x <= n
                        /\ Shown \cap Here # {} /\ R # {} =>
                             ~Between(MaxOf(Shown \cap Here), MinOf(R))
      OBVIOUS
    <3>2. Whole(Shown, Here, Holes) /\ Shown \subseteq Shown
      BY <2>2 DEF ListInv
    <3> QED
      BY <1>1, <1>2, <1>6, <1>9, <2>7, <2>9, <2>10, <3>1, <3>2, NewestJoins
  <2>12. Whole(cache[token] \cup R, Here, Holes')
    <3>1. cache[token] \subseteq Saved(token)
      BY <1>1 DEF KindsInv
    <3>2. ASSUME Shown = {}
          PROVE  /\ \A x \in cache[token] : x <= n
                 /\ cache[token] \cap Here # {} /\ R # {} =>
                      ~Between(MaxOf(cache[token] \cap Here), MinOf(R))
      <4>1. \A x \in cache[token] : x <= n
        <5>1. \A x \in cache[token] : x \in 1..q.since
          BY <2>3, <3>2
        <5> QED
          BY <1>2, <5>1
      <4>2. Rows(token, cache[token]) = cache[token] \cap Here
        BY <1>1, <3>1, CachedRows
      <4>3. view.shown = {} /\ missing = R
        BY <1>6, <3>2, ShownEmpty DEF Shown
      <4> QED
        BY <2>1, <4>1, <4>2, <4>3 DEF Detached
    <3>3. Whole(cache[token], Here, Holes)
      <4>1. topic \in Sides
        BY <1>1, HInvType DEF KindsInv, Sides
      <4> QED
        BY <1>1, <2>1, <4>1 DEF GapInv, CachesWhole, Here
    <3>4. Shown \subseteq cache[token]
      BY <2>2 DEF ListInv
    <3> QED
      BY <1>1, <1>2, <1>6, <1>9, <2>7, <2>9, <2>10, <3>2, <3>3, <3>4, NewestJoins
  <2>13. Shown' = {} => view'.oldest = 0
    <3>1. Shown' = {} => Shown = {} /\ missing = {}
      BY <1>6, <1>12
    <3> QED
      BY <1>11, <2>2, <3>1 DEF ListInv
  <2> QED
    BY <2>4, <2>5, <2>7, <2>8, <2>11, <2>12, <2>13
<1> QED
  BY <1>1, <1>3, <1>8, <1>9, <1>12, <1>13, <1>14, <1>17, <1>18, <1>19, JoinKeeps

-----------------------------------------------------------------------------
(* Older pages.                                                            *)

\* A page that meets the list joins any set that holds the list.
LEMMA PageJoins ==
    ASSUME HInv, KindsInv, ListInv, token \in Rooms, NEW b \in Nat, view.oldest <= b,
           NEW j \in Shown, b <= j,
           NEW R, R \subseteq Here, \A a \in R : a < b,
           \A a \in R, i \in Here : a <= i /\ i < b => i \in R,
           NEW X, Shown \subseteq X, Whole(X, Here, Holes)
    PROVE  Whole(X \cup R, Here, Holes)
PROOF
<1>1. Shown \subseteq Here /\ Here \subseteq Nat
  BY HereType DEF KindsInv
<1>2. j \in X \cap Here
  BY <1>1
<1>3. ASSUME NEW i \in Here, b <= i, i <= j PROVE i \in X \cup Holes
  <2>1. PICK o : o = view.oldest
    OBVIOUS
  <2>2. o \in Shown \cap Here /\ j \in Shown \cap Here /\ o \in Nat /\ i \in Nat
    BY <1>1, <2>1 DEF ListInv
  <2>3. o <= i /\ i <= j
    BY <1>3, <2>1, <2>2
  <2>4. Whole(Shown, Here, Holes)
    BY DEF ListInv
  <2>5. i \in Shown \cup Holes
    BY <1>3, <2>2, <2>3, <2>4 DEF Whole
  <2> QED
    BY <2>5
<1> QED
  BY <1>1, <1>2, <1>3, JoinAnchored

LEMMA OpenCacheWhole ==
    ASSUME HInv, GapInv, token \in Rooms, token \notin excused
    PROVE  Whole(cache[token], Here, Holes)
PROOF
<1>1. topic \in Sides
  BY HInvType DEF GapInv, KindsInv, Sides
<1> QED
  BY <1>1 DEF GapInv, CachesWhole, Here

LEMMA HistoryMergedGap ==
    ASSUME HistoryAssumption, HInv, GapInv, NEW n \in history.since..Len(kinds[history.room]),
           HistoryMerged(n)
    PROVE  GapInv'
PROOF
<1>1. history.room = token /\ token \in Rooms /\ history \in Request /\ KindsInv
      /\ history # NoRequest
  BY HInvType DEF HistoryMerged, GapInv, HInv, HistoryInv
<1>2. n \in Nat /\ n <= Len(kinds[token]) /\ history.since \in Nat /\ history.since <= n
      /\ history.before \in Nat
  BY <1>1, HInvType, KindsType DEF Request
<1>3. HInv'
  BY HistoryMergedKeeps
<1>4. PICK data : data = Page(history, PageLimit, n)
  OBVIOUS
<1>5. PICK R : R = Rows(token, data)
  OBVIOUS
<1>6. PICK older : older = R \ Shown
  OBVIOUS
<1>7. PICK shown : shown = view.shown \cup Of(token, older)
  OBVIOUS
<1>8. /\ history' = NoRequest
      /\ view' = [shown |-> shown,
                  oldest |-> IF shown = {} THEN view.oldest ELSE MinOf(Ids(shown)),
                  more |-> view.more /\ Cardinality(data) >= PageLimit]
      /\ cache' = [cache EXCEPT ![token] = @ \cup older]
      /\ poll' = Started(poll, shown)
      /\ Excuse(\/ history.before = 0 /\ (Older(data, older) \/ Apart(older))
                \/ Skips(shown) \/ Detached(older))
      /\ token' = token /\ topic' = topic /\ refreshes' = refreshes /\ loads' = loads
      /\ gapReplies' = gapReplies /\ gap' = gap /\ kinds' = kinds
  BY <1>1, <1>4, <1>5, <1>6, <1>7 DEF HistoryMerged, Shown
<1>9. /\ R \subseteq Here /\ \A a \in R : a <= n /\ (history.before # 0 => a < history.before)
      /\ history.topic = topic =>
            \A a \in R, i \in Here : a <= i /\ i <= n
                /\ (history.before # 0 => i < history.before) => i \in R
      /\ data \subseteq 1..n
  <2>1. PageLimit \in Nat
    BY DEF HistoryAssumption
  <2> QED
    BY <1>1, <1>4, <1>5, <2>1, PageRows
<1>10. Ids(shown) = Shown \cup R /\ shown \subseteq Of(token, All)
       /\ (shown = {} <=> Shown \cup R = {})
  BY <1>1, <1>6, <1>7, <1>9, RowsJoin
<1>11. view'.shown = shown
       /\ view'.oldest = IF shown = {} THEN view.oldest ELSE MinOf(Ids(shown))
  BY <1>8
<1>12. Shown' = Shown \cup R
  BY <1>10, <1>11 DEF Shown
<1>13. /\ excused \subseteq excused'
       /\ token \notin excused' =>
            /\ token \notin excused /\ ~Skips(shown) /\ ~Detached(older)
            /\ history.before = 0 => ~Older(data, older) /\ ~Apart(older)
  BY <1>8, ExcuseGrows
<1>14. Shown \subseteq Here /\ Here \subseteq Nat \ {0} /\ older \subseteq Here
  BY <1>1, <1>6, <1>9, HereType DEF KindsInv
<1>15. /\ MaxOf(Shown) \in Nat /\ (Shown # {} => MaxOf(Shown) \in Shown)
       /\ MinOf(older) \in Nat /\ (older # {} => MinOf(older) \in older)
       /\ (Shown = {} => MaxOf(Shown) = 0)
  BY <1>1, <1>14, Ends
<1>16. poll'.room \in Rooms => poll'.cursor <= Len(kinds[poll'.room])
  BY <1>1, <1>8, <1>10, StartReaches
<1>17. Holes' = Holes /\ (Filling' <=> Filling)
  BY <1>8, SameHoles
<1>18. ASSUME token \notin excused'
       PROVE  /\ cache[token] \cup older = cache[token] \cup R
              /\ Whole(Shown \cup R, Here, Holes')
              /\ Whole(cache[token] \cup R, Here, Holes')
              /\ Shown' = {} => view'.oldest = 0 /\ ~poll'.on /\ ~Filling'
              /\ Shown' # {} => view'.oldest \in Shown' /\ \A j \in Shown' : view'.oldest <= j
              /\ ReachInv' /\ GapAsked'
  <2>1. /\ token \notin excused /\ ~Skips(shown) /\ ~Detached(older)
        /\ history.before = 0 => ~Older(data, older) /\ ~Apart(older)
    BY <1>13, <1>18
  <2>2. ListInv /\ ReachInv /\ HistoryAsked /\ RefreshAsked /\ GapAsked
    BY <1>1, <2>1, Opened
  <2>3. Shown' # {} => view'.oldest \in Shown' /\ \A j \in Shown' : view'.oldest <= j
    <3>1. CASE Shown' = {}
      BY <3>1
    <3>2. CASE Shown' # {}
      <4>1. view'.oldest = MinOf(Shown')
        BY <1>10, <1>11, <1>12, <3>2
      <4> QED
        BY <1>1, <1>9, <1>12, <4>1, OldestOf
    <3> QED
      BY <3>1, <3>2
  <2>4. ReachInv' /\ (Shown' = {} => ~poll'.on)
    <3>1. Shown \subseteq Shown'
      BY <1>12
    <3> QED
      BY <1>1, <1>8, <1>10, <1>11, <2>1, <2>2, <3>1, StartKeepsReach
  <2>5. \A p \in Request : Anchored(p) => Anchored(p)'
    <3>1. Shown # {} => view'.oldest <= view.oldest
      BY <1>12, <2>2, <2>3 DEF ListInv
    <3> QED
      BY <1>3, <1>8, <1>12, <3>1, AnchoredNext, OldestType
  <2>6. GapAsked'
    BY <1>8, <2>2, <2>5, HInvType DEF GapAsked
  <2>7. Shown' = {} => view'.oldest = 0 /\ ~Filling'
    <3>1. Shown' = {} => Shown = {} /\ shown = {}
      BY <1>10, <1>12
    <3> QED
      BY <1>11, <1>17, <2>2, <3>1 DEF ListInv
  <2>8. cache[token] \cup older = cache[token] \cup R
    BY <1>6, <2>2 DEF ListInv
  <2>9. /\ Whole(Shown, Here, Holes) /\ Shown \subseteq cache[token]
        /\ Whole(cache[token], Here, Holes)
    BY <1>1, <2>1, <2>2, OpenCacheWhole DEF ListInv
  <2>10. CASE history.before # 0
    <3>1. Anchored(history) /\ history.before <= history.since
      BY <1>1, <2>2, <2>10 DEF HistoryAsked
    <3>2. view.oldest <= history.before /\ history.topic = topic
      BY <3>1 DEF Anchored
    <3>3. PICK j \in Shown : history.before <= j
      BY <3>1 DEF Anchored
    <3>4. \A a \in R : a < history.before
      BY <1>9, <2>10
    <3>5. \A a \in R, i \in Here : a <= i /\ i < history.before => i \in R
      <4>1. \A i \in Here : i < history.before => i <= n
        BY <1>2, <1>14, <3>1
      <4> QED
        BY <1>9, <3>2, <4>1
    <3>6. Whole(Shown \cup R, Here, Holes)
      BY <1>1, <1>2, <1>9, <2>2, <2>9, <3>2, <3>3, <3>4, <3>5, PageJoins
    <3>7. Whole(cache[token] \cup R, Here, Holes)
      BY <1>1, <1>2, <1>9, <2>2, <2>9, <3>2, <3>3, <3>4, <3>5, PageJoins
    <3> QED
      BY <1>17, <2>3, <2>4, <2>6, <2>7, <2>8, <3>6, <3>7
  <2>11. CASE history.before = 0
    <3>1. Newest(history) /\ ~Older(data, older) /\ ~Apart(older)
      BY <1>1, <2>1, <2>2, <2>11 DEF HistoryAsked
    <3>2. history.topic = topic /\ (Shown = {} => cache[token] \subseteq 1..history.since)
      BY <3>1 DEF Newest
    <3>3. R \ Shown # {} => MaxOf(Shown) <= n
      <4>1. MaxOf(data) \in 0..n
        <5>1. data \subseteq 0..n
          BY <1>9
        <5> QED
          BY <1>2, <5>1, MaxOfType
      <4>2. older # {} => ~(MaxOf(data) < MaxOf(Shown))
        BY <3>1 DEF Older, Shown
      <4> QED
        BY <1>2, <1>6, <1>15, <4>1, <4>2
    <3>4. \A a \in R, i \in Here : a <= i /\ i <= n => i \in R
      BY <1>9, <2>11, <3>2
    <3>5. \A a \in R : a <= n
      BY <1>9
    <3>6. Shown # {} /\ R \ Shown # {} =>
            \A i \in Here : MaxOf(Shown) < i /\ i < MinOf(R \ Shown) => i \in Holes
      <4>1. ASSUME Shown # {}, older # {}, NEW i \in Here, MaxOf(Shown) < i, i < MinOf(older)
            PROVE  FALSE
        <5>1. ~Between(MaxOf(Shown), MinOf(older))
          BY <3>1, <4>1, ShownEmpty DEF Apart, Shown
        <5>2. MinOf(older) <= i
          BY <1>1, <1>15, <4>1, <5>1, NotBetween
        <5> QED
          BY <1>14, <1>15, <4>1, <5>2
      <4> QED
        BY <1>6, <4>1
    <3>7. Here \cap Holes \subseteq Holes
      OBVIOUS
    <3>8. Whole(Shown \cup R, Here, Holes)
      <4>1. Shown = {} => /\ \A x \in Shown : x <= n
                          /\ Shown \cap Here # {} /\ R # {} =>
                               ~Between(MaxOf(Shown \cap Here), MinOf(R))
        OBVIOUS
      <4> QED
        BY <1>1, <1>2, <1>9, <2>9, <3>3, <3>4, <3>5, <3>6, <3>7, <4>1, NewestJoins
    <3>9. Whole(cache[token] \cup R, Here, Holes)
      <4>1. cache[token] \subseteq Saved(token)
        BY <1>1 DEF KindsInv
      <4>2. ASSUME Shown = {}
            PROVE  /\ \A x \in cache[token] : x <= n
                   /\ cache[token] \cap Here # {} /\ R # {} =>
                        ~Between(MaxOf(cache[token] \cap Here), MinOf(R))
        <5>1. \A x \in cache[token] : x <= n
          <6>1. \A x \in cache[token] : x \in 1..history.since
            BY <3>2, <4>2
          <6> QED
            BY <1>2, <6>1
        <5>2. Rows(token, cache[token]) = cache[token] \cap Here
          BY <1>1, <4>1, CachedRows
        <5>3. view.shown = {} /\ older = R
          BY <1>6, <4>2, ShownEmpty DEF Shown
        <5> QED
          BY <2>1, <5>1, <5>2, <5>3 DEF Detached
      <4> QED
        BY <1>1, <1>2, <1>9, <2>9, <3>3, <3>4, <3>5, <3>6, <3>7, <4>2, NewestJoins
    <3> QED
      BY <1>17, <2>3, <2>4, <2>6, <2>7, <2>8, <3>8, <3>9
  <2> QED
    BY <2>10, <2>11
<1>19. older \subseteq Shown \cup R /\ refreshes' \subseteq refreshes
       /\ \A p \in gapReplies' : p \in gapReplies \/ p.before <= p.since
  BY <1>6, <1>8
<1> QED
  BY <1>1, <1>3, <1>8, <1>9, <1>12, <1>13, <1>16, <1>18, <1>19, JoinKeeps

-----------------------------------------------------------------------------
(* The gap fill.                                                           *)

LEMMA GapGivenUpGap ==
    ASSUME HistoryAssumption, HInv, GapInv, NEW q \in gapReplies, GapGivenUp(q)
    PROVE  GapInv'
PROOF
<1> USE DEF GapGivenUp
<1>1. q.room \in Rooms /\ (q.fresh => q.room = token) /\ KindsInv
  BY DEF HInv, Fresh, GapInv
<1>2. Shown' = Shown /\ Here' = Here /\ \A r, t : InView(r, t)' = InView(r, t)
  BY SameKinds DEF Shown
<1>3. KindsInv'
  <2>1. \A r : Saved(r)' = Saved(r)
    BY SameKinds
  <2> QED
    BY <1>1, <1>2, <2>1 DEF KindsInv
<1>4. LoadsWhole'
  <2>1. LoadsWhole /\ \A r \in Rooms : cache[r] \subseteq cache'[r]
    BY DEF GapInv
  <2> QED
    BY <2>1, LoadsNext
<1>5. token \in Rooms \ excused' => Holes' = Holes /\ (Filling' => Filling)
  <2>1. token \in Rooms \ excused' => ~q.fresh
    BY <1>1
  <2> QED
    BY <2>1 DEF Holes, Filling
<1>6. CachesWhole'
  <2>1. CachesWhole
    BY DEF GapInv
  <2>2. ASSUME NEW r \in Rooms \ excused', NEW t \in Sides
        PROVE  Whole(cache[r], InView(r, t), IF r = token /\ t = topic THEN Holes' ELSE {})
    BY <1>5, <2>1, <2>2 DEF CachesWhole
  <2> QED
    BY <1>2, <2>2 DEF CachesWhole, Sides
<1>7. ASSUME token \in Rooms \ excused'
      PROVE  ListInv' /\ ReachInv' /\ HistoryAsked' /\ RefreshAsked' /\ GapAsked'
  <2>1. ListInv /\ ReachInv /\ HistoryAsked /\ RefreshAsked /\ GapAsked
    BY <1>7, Opened
  <2>2. ListInv'
    BY <1>2, <1>5, <1>7, <2>1 DEF ListInv
  <2>3. ReachInv' /\ HistoryAsked' /\ RefreshAsked'
    BY <1>2, <2>1 DEF ReachInv, HistoryAsked, RefreshAsked, Newest, Anchored
  <2>4. gap'.left = 0
    BY DEF NoGap
  <2>5. GapAsked'
    BY <1>2, <2>1, <2>4 DEF GapAsked, Anchored
  <2> QED
    BY <2>2, <2>3, <2>5
<1> QED
  BY <1>3, <1>4, <1>6, <1>7 DEF GapInv, OpenInv

\* A page of the gap fill leaves of its hole what is still to come.
LEMMA FillNarrows ==
    ASSUME HistoryAssumption, HInv, HInv', GapAsked, token \in Rooms, token' = token,
           topic' = topic, NEW q \in gapReplies, q.fresh,
           NEW R, R \subseteq Here, R # {}, R \subseteq Shown', Shown \subseteq Shown',
           \A a \in R, i \in Here : a <= i /\ i < q.before => i \in R,
           Shown # {} => view'.oldest <= view.oldest,
           \A j \in Shown' : view'.oldest <= j,
           NEW onward \in BOOLEAN, onward <=> MinOf(R) > q.target + 1, ~(onward /\ gap.left <= 1),
           IF onward THEN GapStep(MinOf(R), gap.target, gap.left - 1, gapReplies \ {q})
                     ELSE gap' = NoGap /\ gapReplies' = gapReplies \ {q}
    PROVE  GapAsked' /\ Here \cap Holes \subseteq R \cup Holes'
PROOF
<1>1. q \in Request /\ q.target \in Nat /\ gap.left \in Nat /\ gap.target \in Nat
  BY HInvType DEF Request, Gaps
<1>2. MinOf(R) \in Nat \ {0} /\ MinOf(R) \in R
  <2>1. MinOf(R) \in R
    BY Ends
  <2> QED
    BY <2>1, HereType
<1>3. PICK low : low = MinOf(R)
  OBVIOUS
<1>4. PICK ask : ask = Ask(token, topic, low, gap.target)
  OBVIOUS
<1>5. ask.topic = topic /\ ask.before = low /\ ask.target = gap.target /\ ask.fresh
  BY <1>4 DEF Ask
<1>6. \A p \in Request : Anchored(p) => Anchored(p)'
  BY AnchoredNext, OldestType
<1>7. q.target = gap.target \/ gap.left <= 1
  BY DEF GapAsked
<1>8. CASE onward
  <2>1. ~(low <= 0 \/ gap.left - 1 <= 0)
    BY <1>1, <1>2, <1>3, <1>8
  <2> DEFINE replies == gapReplies \ {q}
             left == gap.left - 1
  <2>0. GapStep(low, gap.target, left, replies)
    BY <1>3, <1>8
  <2> HIDE DEF replies, left
  <2>2. /\ gap' = [cursor |-> low, target |-> gap.target, left |-> gap.left - 1]
        /\ gapReplies' = (gapReplies \ {q}) \cup {ask}
    <3>1. ~(low <= 0 \/ left <= 0)
      BY <2>1 DEF left
    <3>2. /\ gap' = [cursor |-> low, target |-> gap.target, left |-> left]
          /\ gapReplies' = replies \cup {ask}
      BY <1>4, <2>0, <3>1 DEF GapStep
    <3> QED
      BY <3>2 DEF replies, left
  <2>3. gap'.target = gap.target
    BY <2>2
  <2>4. ~(gap.left <= 1)
    BY <1>8
  <2>5. Anchored(ask)'
    <3>1. low \in Shown' /\ low <= low
      BY <1>2, <1>3
    <3>2. view'.oldest <= low
      BY <3>1
    <3> QED
      BY <1>5, <3>1, <3>2 DEF Anchored
  <2>6. GapAsked'
    <3>1. ASSUME NEW p \in gapReplies', p.fresh
          PROVE  p.before # 0 /\ Anchored(p)' /\ p.target = gap'.target
      <4>1. CASE p = ask
        BY <1>2, <1>3, <1>5, <2>3, <2>5, <4>1
      <4>2. CASE p # ask
        <5>1. p \in gapReplies /\ p \in Request
          BY <2>2, <4>2, HInvType
        <5> QED
          BY <1>6, <2>3, <2>4, <3>1, <5>1 DEF GapAsked
      <4> QED
        BY <4>1, <4>2
    <3> QED
      BY <3>1 DEF GapAsked
  <2>7. ASSUME NEW i \in Here, i \in Holes PROVE i \in R \cup Holes'
    <3>1. i \in Nat
      BY HereType
    <3>2. PICK p \in gapReplies : p.fresh /\ p.target < i /\ i < p.before
      BY <2>7 DEF Holes
    <3>3. CASE p # q
      BY <2>2, <3>1, <3>2, <3>3 DEF Holes
    <3>4. CASE p = q /\ i < low
      <4>1. ask \in gapReplies' /\ ask.target < i /\ i < ask.before
        BY <1>5, <1>7, <2>2, <2>4, <3>2, <3>4
      <4> QED
        BY <1>5, <3>1, <4>1 DEF Holes
    <3>5. CASE p = q /\ low <= i
      BY <1>2, <1>3, <3>2, <3>5
    <3> QED
      BY <1>2, <1>3, <3>1, <3>3, <3>4, <3>5
  <2> QED
    BY <2>6, <2>7
<1>9. CASE ~onward
  <2>1. gap'.left = 0 /\ gapReplies' = gapReplies \ {q}
    BY <1>9 DEF NoGap
  <2>2. GapAsked'
    <3>1. ASSUME NEW p \in gapReplies', p.fresh
          PROVE  p.before # 0 /\ Anchored(p)'
      <4>1. p \in gapReplies /\ p \in Request
        BY <2>1, HInvType
      <4> QED
        BY <1>6, <3>1, <4>1 DEF GapAsked
    <3> QED
      BY <2>1, <3>1 DEF GapAsked
  <2>3. ASSUME NEW i \in Here, i \in Holes PROVE i \in R \cup Holes'
    <3>1. i \in Nat
      BY HereType
    <3>2. PICK p \in gapReplies : p.fresh /\ p.target < i /\ i < p.before
      BY <2>3 DEF Holes
    <3>3. CASE p # q
      BY <2>1, <3>1, <3>2, <3>3 DEF Holes
    <3>4. CASE p = q
      <4>1. low <= i
        BY <1>1, <1>2, <1>3, <1>9, <3>1, <3>2, <3>4
      <4> QED
        BY <1>2, <1>3, <3>2, <3>4, <4>1
    <3> QED
      BY <3>3, <3>4
  <2> QED
    BY <2>2, <2>3
<1> QED
  BY <1>8, <1>9

LEMMA GapMergedGap ==
    ASSUME HistoryAssumption, HInv, GapInv, NEW q \in gapReplies,
           NEW n \in q.since..Len(kinds[q.room]), GapMerged(q, n)
    PROVE  GapInv'
PROOF
<1>1. q.room = token /\ token \in Rooms /\ q \in Request /\ q.fresh /\ KindsInv
  BY FreshRequest, HInvType DEF GapMerged, GapInv
<1>2. n \in Nat /\ n <= Len(kinds[token]) /\ q.since \in Nat /\ q.since <= n
      /\ q.before \in Nat /\ q.before <= q.since
  BY <1>1, HInvType, KindsType DEF Request, KindsInv
<1>3. HInv'
  BY GapMergedKeeps
<1>4. PICK R : R = Rows(token, Page(q, GapLimit, n))
  OBVIOUS
<1>5. PICK filled : filled = R \ Shown
  OBVIOUS
<1>6. PICK shown : shown = view.shown \cup Of(token, filled)
  OBVIOUS
<1>7. PICK onward \in BOOLEAN : onward <=> (R # {} /\ MinOf(R) > q.target + 1)
  OBVIOUS
<1>8. /\ view' = [view EXCEPT !.shown = shown,
                              !.oldest = IF filled = {} THEN @ ELSE MinOf(Ids(shown))]
      /\ cache' = IF filled = {} THEN cache
                  ELSE [cache EXCEPT ![token] = @ \cup Ids(shown)]
      /\ IF onward THEN GapStep(MinOf(R), gap.target, gap.left - 1, gapReplies \ {q})
                   ELSE gap' = NoGap /\ gapReplies' = gapReplies \ {q}
      /\ Excuse(R = {} \/ (onward /\ gap.left <= 1))
      /\ token' = token /\ topic' = topic /\ history' = history /\ loads' = loads
      /\ kinds' = kinds /\ refreshes' = refreshes /\ poll' = poll
  BY <1>1, <1>4, <1>5, <1>6, <1>7 DEF GapMerged, Shown
<1>9. /\ R \subseteq Here /\ \A a \in R : a <= n /\ (q.before # 0 => a < q.before)
      /\ q.topic = topic => \A a \in R, i \in Here :
            a <= i /\ i <= n /\ (q.before # 0 => i < q.before) => i \in R
  <2>1. GapLimit \in Nat
    BY DEF HistoryAssumption
  <2> QED
    BY <1>1, <1>4, <2>1, PageRows
<1>10. Ids(shown) = Shown \cup R
  BY <1>1, <1>5, <1>6, <1>9, RowsJoin
<1>11. view'.shown = shown /\ view'.oldest = IF filled = {} THEN view.oldest
                                             ELSE MinOf(Ids(shown))
  BY <1>8, HInvType DEF Views
<1>12. Shown' = Shown \cup R
  BY <1>10, <1>11 DEF Shown
<1>13. /\ excused \subseteq excused'
       /\ token \notin excused' =>
            token \notin excused /\ R # {} /\ ~(onward /\ gap.left <= 1)
  BY <1>8, ExcuseGrows
<1>14. PICK C : C \subseteq Shown \cup R /\ cache' = [cache EXCEPT ![token] = @ \cup C]
                /\ (filled # {} => C = Shown \cup R) /\ (filled = {} => C = {})
  <2>1. CASE filled = {}
    BY <1>1, <1>8, <2>1, SameCache
  <2>2. CASE filled # {}
    BY <1>8, <1>10, <2>2
  <2> QED
    BY <2>1, <2>2
<1>15. \A p \in gapReplies' : p \in gapReplies \/ p.before <= p.since
  <2>1. PICK ask : ask = Ask(token, topic, MinOf(R), gap.target)
    OBVIOUS
  <2>2. \A p \in gapReplies' : p \in gapReplies \/ (p = ask /\ R # {})
    BY <1>7, <1>8, <2>1 DEF GapStep
  <2>3. R # {} => ask.before <= ask.since
    <3>1. R # {} => MinOf(R) \in 1..Len(kinds[token])
      BY <1>1, <1>9, Ends, HereType
    <3> QED
      BY <1>1, <2>1, <3>1, HereType DEF Ask
  <2> QED
    BY <2>2, <2>3
<1>16. poll'.room \in Rooms => poll'.cursor <= Len(kinds[poll'.room])
  BY <1>1, <1>8 DEF KindsInv
<1>17. ASSUME token \notin excused'
       PROVE  /\ cache[token] \cup C = cache[token] \cup R
              /\ Whole(Shown \cup R, Here, Holes')
              /\ Whole(cache[token] \cup R, Here, Holes')
              /\ Shown' = {} => view'.oldest = 0 /\ ~poll'.on /\ ~Filling'
              /\ Shown' # {} => view'.oldest \in Shown' /\ \A j \in Shown' : view'.oldest <= j
              /\ ReachInv' /\ GapAsked'
  <2>1. token \notin excused /\ R # {} /\ ~(onward /\ gap.left <= 1)
    BY <1>13, <1>17
  <2>2. ListInv /\ ReachInv /\ HistoryAsked /\ RefreshAsked /\ GapAsked
    BY <1>1, <2>1, Opened
  <2>3. q.before # 0 /\ Anchored(q)
    BY <1>1, <2>2 DEF GapAsked
  <2>4. view.oldest <= q.before /\ q.topic = topic
    BY <2>3 DEF Anchored
  <2>5. PICK j \in Shown : q.before <= j
    BY <2>3 DEF Anchored
  <2>6. Shown' # {} => view'.oldest \in Shown' /\ \A k \in Shown' : view'.oldest <= k
    <3>1. view'.oldest = MinOf(Shown') \/ (R \subseteq Shown /\ view'.oldest = view.oldest)
      BY <1>5, <1>10, <1>11, <1>12
    <3> QED
      BY <1>1, <1>9, <1>12, <2>2, <3>1, OldestOf
  <2>7. /\ \A a \in R : a < q.before
        /\ \A a \in R, i \in Here : a <= i /\ i < q.before => i \in R
    <3>1. \A i \in Here : i < q.before => i <= n
      BY <1>1, <1>2, HereType
    <3> QED
      BY <1>9, <2>3, <2>4, <3>1
  <2>8. /\ Whole(Shown, Here, Holes) /\ Shown \subseteq cache[token]
        /\ Whole(cache[token], Here, Holes)
    BY <1>1, <2>1, <2>2, OpenCacheWhole DEF ListInv
  <2>9. Whole(Shown \cup R, Here, Holes)
    BY <1>1, <1>2, <1>9, <2>2, <2>4, <2>5, <2>7, <2>8, PageJoins
  <2>10. Whole(cache[token] \cup R, Here, Holes)
    BY <1>1, <1>2, <1>9, <2>2, <2>4, <2>5, <2>7, <2>8, PageJoins
  <2>11. GapAsked' /\ Here \cap Holes \subseteq R \cup Holes'
    <3>1. Shown # {} => view'.oldest <= view.oldest
      BY <1>12, <2>2, <2>6 DEF ListInv
    <3>2. R \subseteq Shown' /\ Shown \subseteq Shown' /\ \A k \in Shown' : view'.oldest <= k
      BY <1>12, <2>6
    <3>3. onward <=> MinOf(R) > q.target + 1
      BY <1>7, <2>1
    <3> QED
      BY <1>1, <1>3, <1>8, <1>9, <2>1, <2>2, <2>7, <3>1, <3>2, <3>3, FillNarrows
  <2>12. Whole(Shown \cup R, Here, Holes')
    <3>1. Here \cap Holes \subseteq (Shown \cup R) \cup Holes'
      BY <2>11
    <3> QED
      BY <2>9, <3>1, WholeNarrows
  <2>13. Whole(cache[token] \cup R, Here, Holes')
    <3>1. Here \cap Holes \subseteq (cache[token] \cup R) \cup Holes'
      BY <2>11
    <3> QED
      BY <2>10, <3>1, WholeNarrows
  <2>14. ReachInv'
    <3>1. Here' = Here
      BY <1>8, SameKinds
    <3>2. ASSUME poll.on, NEW k \in Shown' PROVE k <= poll.cursor
      <4>1. CASE k \in Shown
        BY <2>2, <3>2, <4>1 DEF ReachInv
      <4>2. CASE k \in R
        <5>1. k < q.before /\ j <= poll.cursor
          BY <2>2, <2>7, <3>2, <4>2 DEF ReachInv
        <5>2. k \in Nat /\ j \in Nat /\ poll.cursor \in Nat
          BY <1>1, <1>9, <4>2, HereType, HInvType DEF KindsInv, Polls
        <5> QED
          BY <1>2, <2>5, <5>1, <5>2
      <4> QED
        BY <1>12, <3>2, <4>1, <4>2
    <3> QED
      BY <1>8, <1>12, <2>2, <3>1, <3>2 DEF ReachInv
  <2>15. cache[token] \cup C = cache[token] \cup R
    BY <1>5, <1>14, <2>2 DEF ListInv
  <2>16. Shown' # {}
    BY <1>12, <2>1
  <2> QED
    BY <2>6, <2>11, <2>12, <2>13, <2>14, <2>15, <2>16
<1>18. refreshes' \subseteq refreshes
  BY <1>8
<1> QED
  BY <1>1, <1>3, <1>8, <1>9, <1>12, <1>13, <1>14, <1>15, <1>16, <1>17, <1>18, JoinKeeps

-----------------------------------------------------------------------------
(* The long-poll.                                                          *)

\* The messages the long-poll hands out join any set that holds the list.
LEMMA PollJoins ==
    ASSUME HInv, KindsInv, ListInv, ReachInv, poll.on, token \in Rooms, NEW n \in Nat,
           poll.cursor < n,
           NEW R, R = {i \in Here : poll.cursor < i /\ i <= n},
           NEW X, Shown \subseteq X, Whole(X, Here, Holes)
    PROVE  Whole(X \cup R, Here, Holes)
PROOF
<1>1. Shown \subseteq Here /\ Here \subseteq Nat /\ poll.cursor \in Nat /\ R \subseteq Here
  BY HereType, HInvType DEF KindsInv, Polls
<1>2. Shown # {} /\ \A s \in Shown : s <= poll.cursor /\ s \in Nat
  BY <1>1 DEF ListInv, ReachInv
<1>3. \A s \in Shown : s <= n
  BY <1>1, <1>2
<1>4. (\A a \in R : a <= n) /\ (\A a \in R, i \in Here : a <= i /\ i <= n => i \in R)
  BY <1>1
<1>5. ASSUME R # {}, NEW i \in Here, \A s \in X \cap Here : s < i, \A a \in R : i < a
      PROVE  i \in Holes
  <2>1. i \in Nat
    BY <1>1
  <2>2. PICK a \in R : TRUE
    BY <1>5
  <2>3. i < a /\ a <= n /\ a \in Nat
    BY <1>1, <1>4, <1>5
  <2>4. ~(i <= poll.cursor)
    <3>1. ASSUME NEW j \in Shown, i <= j PROVE FALSE
      <4>1. j \in X \cap Here /\ j \in Nat
        BY <1>1
      <4>2. j < i
        BY <1>5, <4>1
      <4> QED
        BY <2>1, <3>1, <4>1, <4>2
    <3> QED
      BY <3>1 DEF ReachInv
  <2>5. i \in R
    BY <1>1, <2>1, <2>3, <2>4
  <2>6. i < i
    BY <1>5, <2>5
  <2> QED
    BY <2>1, <2>6
<1>6. Shown \subseteq X \cap Here /\ Here \cap Holes \subseteq Holes
  BY <1>1
<1> QED
  BY <1>1, <1>2, <1>3, <1>4, <1>5, <1>6, JoinNewest

LEMMA TrimmedIds ==
    ASSUME HistoryAssumption, HInv, token \in Rooms, NEW shown, shown \subseteq Of(token, All),
           shown # {}
    PROVE  LET T == Ids(Trimmed(shown)) IN
           /\ T \subseteq Ids(shown) /\ T # {}
           /\ \A a \in T, i \in Ids(shown) : a <= i => i \in T
PROOF
<1>1. Trimmed(shown) # {}
  BY TrimmedKeeps, HInvType
<1>2. PICK kept : kept = Top(Ids(shown), MaxShown)
  OBVIOUS
<1>3. Trimmed(shown) = {m \in shown : m[2] \in kept}
  BY <1>2 DEF Trimmed
<1>4. PICK n \in Nat : All \subseteq 1..n
  BY AllType, HInvType
<1>5. Ids(shown) \subseteq 0..n
  <2>1. Ids(shown) \subseteq 1..n
    BY <1>4, ShownType, HInvType
  <2> QED
    BY <2>1
<1>6. kept \subseteq Ids(shown) /\ \A a \in kept, i \in Ids(shown) : a <= i => i \in kept
  <2>1. MaxShown \in Nat
    BY DEF HistoryAssumption
  <2> QED
    BY <1>2, <1>5, <2>1, TopUpper
<1>7. Ids(Trimmed(shown)) = kept
  <2>1. ASSUME NEW i \in kept PROVE i \in Ids(Trimmed(shown))
    <3>1. PICK m \in shown : i = m[2]
      BY <1>6 DEF Ids
    <3>2. m \in Trimmed(shown)
      BY <1>3, <3>1
    <3> QED
      BY <3>1, <3>2 DEF Ids
  <2>2. ASSUME NEW i \in Ids(Trimmed(shown)) PROVE i \in kept
    BY <1>3 DEF Ids
  <2> QED
    BY <2>1, <2>2
<1>8. Ids(Trimmed(shown)) # {}
  BY <1>1, ShownEmpty
<1> QED
  BY <1>6, <1>7, <1>8

LEMMA PolledGap ==
    ASSUME HistoryAssumption, HInv, GapInv, NEW n, Polled(n) PROVE GapInv'
PROOF
<1>1. poll.on /\ poll.room = token /\ token \in Rooms /\ poll.cursor \in Nat /\ KindsInv
  BY HInvType DEF Polled, HInv, PollInv, Polls, GapInv
<1>2. n \in Nat /\ n <= Len(kinds[token]) /\ poll.cursor < n
  BY <1>1, HInvType, KindsType DEF Polled
<1>3. HInv'
  BY PolledKeeps
<1>4. PICK data : data = {i \in poll.cursor + 1 .. n : kinds[token][i] # "hidden"}
  OBVIOUS
<1>5. PICK R : R = Rows(token, data)
  OBVIOUS
<1>6. PICK new : new = R \ Shown
  OBVIOUS
<1>7. PICK shown : shown = view.shown \cup Of(token, new)
  OBVIOUS
<1>8. PICK trims \in BOOLEAN : trims <=> (new # {} /\ Cardinality(shown) > MaxShown)
  OBVIOUS
<1>9. /\ poll' = [poll EXCEPT !.cursor = n]
      /\ view' = IF trims
                 THEN [shown |-> Trimmed(shown), oldest |-> MinOf(Ids(Trimmed(shown))),
                       more |-> TRUE]
                 ELSE [view EXCEPT !.shown = shown]
      /\ cache' = [cache EXCEPT ![token] = @ \cup new]
      /\ Excuse(trims /\ (history # NoRequest \/ Filling))
      /\ token' = token /\ topic' = topic /\ history' = history /\ refreshes' = refreshes
      /\ gapReplies' = gapReplies /\ gap' = gap /\ loads' = loads /\ kinds' = kinds
  BY <1>1, <1>4, <1>5, <1>6, <1>7, <1>8 DEF Polled, Shown
<1>10. /\ Here \subseteq 1..Len(kinds[token]) /\ Here \subseteq Nat \ {0}
       /\ Here = {i \in 1..Len(kinds[token]) : Visible(i)} /\ Len(kinds[token]) \in Nat
  BY <1>1, HereType
<1>11. R = {i \in Here : poll.cursor < i /\ i <= n}
  <2>1. ASSUME NEW i \in R PROVE i \in Here /\ poll.cursor < i /\ i <= n
    <3>1. /\ i \in poll.cursor + 1 .. n /\ kinds[token][i] # "hidden"
          /\ kinds[token][i] # "control" /\ Passes(token, i)
      BY <1>4, <1>5 DEF Rows
    <3>2. i \in 1..Len(kinds[token])
      BY <1>1, <1>2, <1>10, <3>1
    <3>3. kinds[token][i] \in AllKinds
      BY <1>1, <3>2, HInvType DEF HistoryAssumption
    <3>4. Visible(i)
      BY <3>1, <3>3 DEF Visible, AllKinds
    <3> QED
      BY <1>1, <1>2, <1>10, <3>1, <3>2, <3>4
  <2>2. ASSUME NEW i \in Here, poll.cursor < i, i <= n PROVE i \in R
    <3>1. i \in poll.cursor + 1 .. n
      BY <1>1, <1>2, <1>10, <2>2
    <3>2. kinds[token][i] \in {"plain", "topic"} /\ Passes(token, i)
      BY <1>10 DEF Visible
    <3> QED
      BY <1>4, <1>5, <3>1, <3>2 DEF Rows
  <2> QED
    BY <2>1, <2>2
<1>12. R \subseteq Here /\ new \subseteq Here /\ Shown \subseteq Here
  BY <1>1, <1>6, <1>11 DEF KindsInv
<1>13. Ids(shown) = Shown \cup R /\ shown \subseteq Of(token, All)
       /\ (shown = {} <=> Shown \cup R = {})
  BY <1>1, <1>6, <1>7, <1>12, RowsJoin
<1>14. /\ excused \subseteq excused'
       /\ token \notin excused' =>
            token \notin excused /\ ~(trims /\ (history # NoRequest \/ Filling))
  BY <1>9, ExcuseGrows
<1>15. poll'.on /\ poll'.cursor = n /\ poll'.room = token
  BY <1>1, <1>9, HInvType DEF Polls
<1>16. Holes' = Holes /\ (Filling' <=> Filling) /\ Here' = Here
  BY <1>9, SameHoles, SameKinds
<1>17. \A p \in gapReplies' : p \in gapReplies \/ p.before <= p.since
  BY <1>9
<1>18. ASSUME token \notin excused'
       PROVE  /\ ListInv /\ ReachInv /\ HistoryAsked /\ RefreshAsked /\ GapAsked
              /\ cache[token] \cup new = cache[token] \cup R
              /\ Whole(Shown \cup R, Here, Holes) /\ Whole(cache[token] \cup R, Here, Holes)
              /\ \A j \in Shown \cup R : j <= n
              /\ \A i \in Here : i <= n => \E j \in Shown \cup R : i <= j
              /\ Shown # {}
  <2>1. token \notin excused
    BY <1>14, <1>18
  <2>2. ListInv /\ ReachInv /\ HistoryAsked /\ RefreshAsked /\ GapAsked
    BY <1>1, <2>1, Opened
  <2>3. /\ Whole(Shown, Here, Holes) /\ Shown \subseteq cache[token]
        /\ Whole(cache[token], Here, Holes)
    BY <1>1, <2>1, <2>2, OpenCacheWhole DEF ListInv
  <2>4. Whole(Shown \cup R, Here, Holes)
    BY <1>1, <1>2, <1>11, <2>2, <2>3, PollJoins
  <2>5. Whole(cache[token] \cup R, Here, Holes)
    BY <1>1, <1>2, <1>11, <2>2, <2>3, PollJoins
  <2>6. \A j \in Shown \cup R : j <= n
    <3>1. \A j \in Shown : j <= poll.cursor /\ j \in Nat
      BY <1>1, <1>10, <1>12, <2>2 DEF ReachInv
    <3> QED
      BY <1>1, <1>2, <1>11, <3>1
  <2>7. ASSUME NEW i \in Here, i <= n PROVE \E j \in Shown \cup R : i <= j
    <3>1. CASE i <= poll.cursor
      BY <1>1, <2>2, <3>1 DEF ReachInv
    <3>2. CASE poll.cursor < i
      <4>1. i \in R /\ i <= i
        BY <1>10, <1>11, <2>7, <3>2
      <4> QED
        BY <4>1
    <3> QED
      BY <1>1, <1>10, <3>1, <3>2
  <2> QED
    BY <1>1, <1>6, <2>2, <2>3, <2>4, <2>5, <2>6, <2>7 DEF ListInv
<1>19. CASE ~trims
  <2>1. view'.shown = shown /\ view'.oldest = view.oldest
    BY <1>9, <1>19, HInvType DEF Views
  <2>2. Shown' = Shown \cup R
    BY <1>13, <2>1 DEF Shown
  <2>3. ASSUME token \notin excused'
        PROVE  /\ cache[token] \cup new = cache[token] \cup R
               /\ Whole(Shown \cup R, Here, Holes')
               /\ Whole(cache[token] \cup R, Here, Holes')
               /\ Shown' = {} => view'.oldest = 0 /\ ~poll'.on /\ ~Filling'
               /\ Shown' # {} => view'.oldest \in Shown' /\ \A j \in Shown' : view'.oldest <= j
               /\ ReachInv' /\ GapAsked'
    <3>1. /\ ListInv /\ ReachInv /\ GapAsked /\ Shown # {} 
          /\ cache[token] \cup new = cache[token] \cup R
          /\ Whole(Shown \cup R, Here, Holes) /\ Whole(cache[token] \cup R, Here, Holes)
          /\ \A j \in Shown \cup R : j <= n
          /\ \A i \in Here : i <= n => \E j \in Shown \cup R : i <= j
      BY <1>18, <2>3
    <3>2. view'.oldest \in Shown' /\ \A j \in Shown' : view'.oldest <= j
      <4>1. PICK o : o = view.oldest
        OBVIOUS
      <4>2. o \in Shown /\ (\A j \in Shown : o <= j) /\ o \in Nat /\ o <= poll.cursor
        BY <1>1, <1>10, <1>12, <3>1, <4>1 DEF ListInv, ReachInv
      <4>3. \A j \in R : o <= j
        BY <1>1, <1>10, <1>11, <4>2
      <4> QED
        BY <2>1, <2>2, <4>1, <4>2, <4>3
    <3>3. ReachInv'
      BY <1>15, <1>16, <2>2, <3>1 DEF ReachInv
    <3>4. GapAsked'
      <4>1. view.oldest \in Nat /\ view'.oldest <= view.oldest
        BY <2>1, HInvType DEF Views
      <4>2. \A p \in Request : Anchored(p) => Anchored(p)'
        BY <1>3, <1>9, <2>2, <4>1, AnchoredNext, OldestType
      <4> QED
        BY <1>9, <3>1, <4>2, HInvType DEF GapAsked
    <3>5. Shown' # {}
      BY <2>2, <3>1
    <3> QED
      BY <1>16, <3>1, <3>2, <3>3, <3>4, <3>5
  <2>4. new \subseteq Shown \cup R /\ refreshes' \subseteq refreshes
        /\ (poll'.room \in Rooms => poll'.cursor <= Len(kinds[poll'.room]))
    BY <1>2, <1>6, <1>9, <1>15
  <2> QED
    BY <1>1, <1>3, <1>9, <1>12, <1>14, <1>17, <2>2, <2>3, <2>4, JoinKeeps
<1>20. CASE trims
  <2>1. view'.shown = Trimmed(shown) /\ view'.oldest = MinOf(Ids(Trimmed(shown)))
    BY <1>9, <1>20
  <2>2. shown # {}
    BY <1>6, <1>8, <1>13, <1>20
  <2>3. /\ Shown' \subseteq Shown \cup R /\ Shown' # {}
        /\ \A a \in Shown', i \in Shown \cup R : a <= i => i \in Shown'
    BY <1>1, <1>13, <2>1, <2>2, TrimmedIds DEF Shown
  <2>4. KindsInv'
    <3>1. Shown' \subseteq Here /\ refreshes' \subseteq refreshes
          /\ (poll'.room \in Rooms => poll'.cursor <= Len(kinds[poll'.room]))
      BY <1>2, <1>9, <1>12, <1>15, <2>3
    <3> QED
      BY <1>1, <1>9, <1>12, <1>17, <3>1, KindsNext
  <2>5. LoadsWhole'
    <3>1. LoadsWhole /\ \A r \in Rooms : cache[r] \subseteq cache'[r]
      BY <1>9, HInvType DEF GapInv
    <3> QED
      BY <1>9, <1>14, <3>1, LoadsNext
  <2>6. CachesWhole'
    <3>1. token \notin excused' => Whole(cache[token] \cup new, Here, Holes')
      BY <1>16, <1>18
    <3>2. CachesWhole
      BY DEF GapInv
    <3> QED
      BY <1>1, <1>9, <1>12, <1>14, <3>1, <3>2, CachesNext
  <2>7. ASSUME token \notin excused'
        PROVE  ListInv' /\ ReachInv' /\ HistoryAsked' /\ RefreshAsked' /\ GapAsked'
    <3>1. /\ ListInv /\ ReachInv /\ HistoryAsked /\ RefreshAsked
          /\ cache[token] \cup new = cache[token] \cup R
          /\ Whole(Shown \cup R, Here, Holes)
          /\ \A j \in Shown \cup R : j <= n
          /\ \A i \in Here : i <= n => \E j \in Shown \cup R : i <= j
      BY <1>18, <2>7
    <3>2. history = NoRequest /\ ~Filling
      BY <1>14, <1>20, <2>7
    <3>3. Whole(Shown', Here, Holes)
      BY <1>10, <2>3, <3>1, UpperWhole
    <3>4. view'.oldest \in Shown' /\ \A j \in Shown' : view'.oldest <= j
      <4>1. view'.oldest = MinOf(Shown')
        BY <2>1 DEF Shown
      <4>2. Shown' \subseteq Here
        BY <1>12, <2>3
      <4> QED
        BY <1>1, <2>3, <4>1, <4>2, Ends
    <3>5. Shown' \subseteq cache'[token']
      <4>1. cache'[token] = cache[token] \cup R
        BY <1>1, <1>9, <3>1, HInvType
      <4> QED
        BY <1>9, <2>3, <3>1, <4>1 DEF ListInv
    <3>6. ListInv'
      BY <1>16, <2>3, <3>3, <3>4, <3>5 DEF ListInv
    <3>7. ReachInv'
      <4>1. ASSUME NEW i \in Here, i <= n PROVE \E k \in Shown' : i <= k
        <5>1. PICK j \in Shown \cup R : i <= j
          BY <3>1, <4>1
        <5>2. PICK a \in Shown' : TRUE
          BY <2>3
        <5>3. a \in Nat /\ j \in Nat /\ i \in Nat
          BY <1>10, <1>12, <2>3
        <5>4. CASE a <= j
          BY <2>3, <5>1, <5>4
        <5>5. CASE j < a
          BY <5>1, <5>3, <5>5
        <5> QED
          BY <5>3, <5>4, <5>5
      <4>2. \A j \in Shown' : j <= n
        BY <2>3, <3>1
      <4> QED
        BY <1>15, <1>16, <4>1, <4>2 DEF ReachInv
    <3>8. HistoryAsked' /\ RefreshAsked'
      BY <1>9, <2>3, <3>1, <3>2 DEF HistoryAsked, RefreshAsked, Newest
    <3>9. GapAsked'
      BY <1>9, <3>2 DEF GapAsked, Filling
    <3> QED
      BY <3>6, <3>7, <3>8, <3>9
  <2> QED
    BY <1>9, <2>4, <2>5, <2>6, <2>7 DEF GapInv, OpenInv
<1> QED
  BY <1>19, <1>20

LEMMA PollTornGap ==
    ASSUME HistoryAssumption, HInv, GapInv, NEW n, PollTorn(n) PROVE GapInv'
PROOF
<1> USE DEF PollTorn
<1>1. poll.on /\ poll.room = token /\ token \in Rooms /\ KindsInv
  BY HInvType DEF HInv, PollInv, GapInv
<1>2. n <= Len(kinds[token])
  BY <1>1, HInvType, KindsType DEF Polls
<1>3. poll'.room = token /\ poll'.cursor = n
  BY <1>1, HInvType DEF Polls
<1>4. PICK C : C = {} /\ cache' = [cache EXCEPT ![token] = @ \cup C]
  BY <1>1, SameCache
<1>5. Shown' = Shown \cup C /\ C \subseteq Here /\ C \subseteq Shown \cup C
  BY <1>4 DEF Shown
<1>6. excused \subseteq excused' /\ token \in excused'
  BY ExcuseGrows
<1>7. HInv'
  BY PollTornKeeps
<1>8. /\ refreshes' \subseteq refreshes
      /\ \A q \in gapReplies' : q \in gapReplies \/ q.before <= q.since
      /\ poll'.room \in Rooms => poll'.cursor <= Len(kinds[poll'.room])
  BY <1>2, <1>3
<1>9. /\ token' = token /\ topic' = topic /\ kinds' = kinds /\ loads' = loads
      /\ history' = history
  OBVIOUS
<1> HIDE DEF PollTorn
<1> QED
  BY <1>1, <1>4, <1>5, <1>6, <1>7, <1>8, <1>9, JoinKeeps

-----------------------------------------------------------------------------
(* Steps that leave the list as it is.                                     *)

LEMMA AskNewest ==
    ASSUME HInv, KindsInv, NEW r \in Rooms, NEW t
    PROVE  /\ Ask(r, t, 0, 0).before = 0 /\ Ask(r, t, 0, 0).topic = t
           /\ cache[r] \subseteq 1..Ask(r, t, 0, 0).since
PROOF
BY DEF Ask, KindsInv, Saved

LEMMA StillKeeps ==
    ASSUME HInv, GapInv, token' = token, topic' = topic, poll' = poll, gap' = gap,
           gapReplies' = gapReplies, cache' = cache, kinds' = kinds, excused' = excused,
           view' = view, history' = history \/ (token \in Rooms \ excused => HistoryAsked'),
           \A k \in 1..Len(loads') : \E l \in 1..Len(loads) : loads'[k] = loads[l],
           token \in Rooms => \A q \in refreshes' :
               q \in refreshes
               \/ (q.before = 0 /\ q.topic = topic /\ cache[token] \subseteq 1..q.since)
    PROVE  GapInv'
PROOF
<1>1. KindsInv /\ CachesWhole /\ LoadsWhole
  BY DEF GapInv
<1>2. /\ Shown' = Shown /\ Here' = Here /\ Holes' = Holes /\ (Filling' <=> Filling)
      /\ \A r : Saved(r)' = Saved(r)
      /\ \A r, t : InView(r, t)' = InView(r, t)
  BY SameKinds, SameHoles DEF Shown
<1>3. KindsInv'
  <2>1. \A k \in 1..Len(loads') : loads'[k].page \subseteq Saved(loads'[k].room)
    BY <1>1 DEF KindsInv
  <2> QED
    BY <1>1, <1>2, <2>1 DEF KindsInv
<1>4. CachesWhole'
  BY <1>1, <1>2 DEF CachesWhole, Sides
<1>5. LoadsWhole'
  <2>1. ASSUME NEW k \in 1..Len(loads'), loads'[k].room \notin excused
        PROVE  /\ loads'[k].page \subseteq cache[loads'[k].room]
               /\ \A t \in Sides : Whole(loads'[k].page, InView(loads'[k].room, t), {})
    BY <1>1, <2>1 DEF LoadsWhole
  <2> QED
    BY <1>2, <2>1 DEF LoadsWhole, Sides
<1>6. ASSUME token \in Rooms \ excused
      PROVE  ListInv' /\ ReachInv' /\ HistoryAsked' /\ RefreshAsked' /\ GapAsked'
  <2>1. ListInv /\ ReachInv /\ HistoryAsked /\ RefreshAsked /\ GapAsked
    BY <1>6, Opened
  <2>2. ListInv' /\ ReachInv' /\ GapAsked'
    BY <1>2, <2>1 DEF ListInv, ReachInv, GapAsked, Anchored
  <2>3. RefreshAsked'
    BY <1>2, <1>6, <2>1 DEF RefreshAsked, Newest
  <2>4. HistoryAsked'
    <3>1. CASE history' = history
      BY <1>2, <2>1, <3>1 DEF HistoryAsked, Newest, Anchored
    <3> QED
      BY <1>6, <3>1
  <2> QED
    BY <2>2, <2>3, <2>4
<1> QED
  BY <1>3, <1>4, <1>5, <1>6 DEF GapInv, OpenInv

LEMMA UnchangedGap ==
    ASSUME HInv, GapInv, UNCHANGED vars PROVE GapInv'
PROOF
<1>1. /\ token' = token /\ topic' = topic /\ poll' = poll /\ gap' = gap
      /\ gapReplies' = gapReplies /\ cache' = cache /\ kinds' = kinds /\ excused' = excused
      /\ view' = view /\ history' = history /\ loads' = loads /\ refreshes' = refreshes
  BY DEF vars
<1>2. \A k \in 1..Len(loads') : \E l \in 1..Len(loads) : loads'[k] = loads[l]
  BY <1>1
<1> QED
  BY <1>1, <1>2, StillKeeps

LEMMA RefreshDroppedGap ==
    ASSUME HInv, GapInv, NEW q, RefreshDropped(q) PROVE GapInv'
PROOF
<1>1. /\ token' = token /\ topic' = topic /\ poll' = poll /\ gap' = gap
      /\ gapReplies' = gapReplies /\ cache' = cache /\ kinds' = kinds /\ excused' = excused
      /\ view' = view /\ history' = history /\ loads' = loads /\ refreshes' \subseteq refreshes
  BY DEF RefreshDropped
<1>2. \A k \in 1..Len(loads') : \E l \in 1..Len(loads) : loads'[k] = loads[l]
  BY <1>1
<1>3. \A p \in refreshes' : p \in refreshes
  BY <1>1
<1> QED
  BY <1>1, <1>2, <1>3, StillKeeps

LEMMA RefreshEmptyGap ==
    ASSUME HistoryAssumption, HInv, GapInv, NEW q, RefreshEmpty(q) PROVE GapInv'
PROOF
<1>1. token \in Rooms
  BY FreshRequest DEF RefreshEmpty
<1>2. /\ token' = token /\ topic' = topic /\ kinds' = kinds /\ loads' = loads
      /\ cache' = cache /\ gapReplies' = gapReplies /\ gap' = gap /\ view' = view
      /\ history' = history /\ refreshes' \subseteq refreshes
      /\ poll' = Started(poll, view.shown) /\ Excuse(Skips(view.shown))
  BY DEF RefreshEmpty
<1> QED
  BY <1>1, <1>2, NoRowsKeeps

LEMMA HistoryFailedGap ==
    ASSUME HistoryAssumption, HInv, GapInv, HistoryFailed PROVE GapInv'
PROOF
<1>1. token \in Rooms
  BY DEF HistoryFailed, HInv, HistoryInv
<1>2. /\ token' = token /\ topic' = topic /\ kinds' = kinds /\ loads' = loads
      /\ cache' = cache /\ gapReplies' = gapReplies /\ gap' = gap /\ view' = view
      /\ history' = NoRequest /\ refreshes' \subseteq refreshes
      /\ poll' = Started(poll, view.shown) /\ Excuse(Skips(view.shown))
  BY DEF HistoryFailed
<1> QED
  BY <1>1, <1>2, NoRowsKeeps

LEMMA HistoryEndGap ==
    ASSUME HistoryAssumption, HInv, GapInv, NEW n, HistoryEnd(n) PROVE GapInv'
PROOF
<1>1. token \in Rooms
  BY DEF HistoryEnd, HInv, HistoryInv
<1>2. /\ token' = token /\ topic' = topic /\ kinds' = kinds /\ loads' = loads
      /\ cache' = cache /\ gapReplies' = gapReplies /\ gap' = gap
      /\ view'.shown = view.shown /\ view'.oldest = view.oldest
      /\ history' = NoRequest /\ refreshes' \subseteq refreshes
      /\ poll' = Started(poll, view.shown) /\ Excuse(Skips(view.shown))
  BY HInvType DEF HistoryEnd, Views
<1> QED
  BY <1>1, <1>2, NoRowsKeeps

LEMMA RefreshGap ==
    ASSUME HInv, GapInv, Refresh PROVE GapInv'
PROOF
<1>1. token \in Rooms /\ KindsInv
  BY HInvType DEF Refresh, GapInv
<1>2. PICK ask : ask = Ask(token, topic, 0, 0)
  OBVIOUS
<1>3. ask.before = 0 /\ ask.topic = topic /\ cache[token] \subseteq 1..ask.since
  BY <1>1, <1>2, AskNewest
<1>4. /\ token' = token /\ topic' = topic /\ poll' = poll /\ gap' = gap
      /\ gapReplies' = gapReplies /\ cache' = cache /\ kinds' = kinds /\ excused' = excused
      /\ view' = view /\ history' = history /\ loads' = loads
      /\ refreshes' = refreshes \cup {ask}
  BY <1>2 DEF Refresh
<1>5. \A k \in 1..Len(loads') : \E l \in 1..Len(loads) : loads'[k] = loads[l]
  BY <1>4
<1>6. \A q \in refreshes' : q \in refreshes
          \/ (q.before = 0 /\ q.topic = topic /\ cache[token] \subseteq 1..q.since)
  BY <1>3, <1>4
<1> QED
  BY <1>4, <1>5, <1>6, StillKeeps

LEMMA ScrollUpGap ==
    ASSUME HInv, GapInv, ScrollUp PROVE GapInv'
PROOF
<1>1. token \in Rooms /\ KindsInv
  BY HInvType DEF ScrollUp, GapInv
<1>2. PICK ask : ask = Ask(token, topic, view.oldest, 0)
  OBVIOUS
<1>3. ask.before = view.oldest /\ ask.topic = topic /\ ask.since = Len(kinds[token])
  BY <1>2 DEF Ask
<1>4. /\ token' = token /\ topic' = topic /\ poll' = poll /\ gap' = gap
      /\ gapReplies' = gapReplies /\ cache' = cache /\ kinds' = kinds /\ excused' = excused
      /\ view' = view /\ history' = ask /\ loads' = loads /\ refreshes' = refreshes
  BY <1>2 DEF ScrollUp
<1>5. \A k \in 1..Len(loads') : \E l \in 1..Len(loads) : loads'[k] = loads[l]
  BY <1>4
<1>6. ASSUME token \in Rooms \ excused PROVE HistoryAsked'
  <2>1. ListInv
    BY <1>6, Opened
  <2>2. Shown' = Shown
    BY <1>4 DEF Shown
  <2>3. CASE view.oldest = 0
    <3>1. cache[token] \subseteq 1..ask.since
      BY <1>1, <1>3 DEF KindsInv, Saved
    <3>2. Newest(ask)'
      BY <1>3, <1>4, <3>1 DEF Newest
    <3> QED
      BY <1>3, <1>4, <2>3, <3>2 DEF HistoryAsked
  <2>4. CASE view.oldest # 0
    <3>1. view.oldest \in Shown /\ view.oldest \in Here
      BY <1>1, <2>1, <2>4 DEF ListInv, KindsInv
    <3>2. view.oldest \in Nat /\ view.oldest <= Len(kinds[token])
      BY <1>1, <3>1, HereType
    <3>3. Anchored(ask)'
      BY <1>3, <1>4, <2>2, <3>1, <3>2 DEF Anchored
    <3> QED
      BY <1>3, <1>4, <2>4, <3>2, <3>3 DEF HistoryAsked
  <2> QED
    BY <2>3, <2>4
<1> QED
  BY <1>4, <1>5, <1>6, StillKeeps

\* The cache has been read; its page becomes the list if that is empty.
LEMMA CacheLoadedGap ==
    ASSUME HistoryAssumption, HInv, GapInv, CacheLoaded PROVE GapInv'
PROOF
<1>1. PICK load : load = Head(loads)
  OBVIOUS
<1>2. /\ token' = token /\ topic' = topic /\ history' = history /\ gapReplies' = gapReplies
      /\ gap' = gap /\ poll' = poll /\ cache' = cache /\ kinds' = kinds
      /\ excused' = excused /\ loads' = Tail(loads) /\ loads # <<>>
  BY DEF CacheLoaded
<1>3. loads \in Seq(Loads) /\ KindsInv /\ LoadsWhole /\ CachesWhole
  BY HInvType DEF GapInv
<1>4. \A k \in 1..Len(loads') : \E l \in 1..Len(loads) : loads'[k] = loads[l]
  <2> HIDE DEF Loads
  <2>1. \A k \in 1..Len(loads') : k + 1 \in 1..Len(loads) /\ loads'[k] = loads[k + 1]
    BY <1>2, <1>3
  <2> QED
    BY <2>1
<1>5. 1 \in 1..Len(loads) /\ load = loads[1] /\ load.room \in Rooms
  <2>1. 1 \in 1..Len(loads) /\ load = loads[1]
    <3> HIDE DEF Loads
    <3> QED
      BY <1>1, <1>2, <1>3
  <2>2. loads[1] \in Loads
    <3> HIDE DEF Loads
    <3> QED
      BY <1>3, <2>1
  <2> QED
    BY <2>1, <2>2 DEF Loads
<1>6. CASE load.room # token
  <2>1. view' = view /\ refreshes' = refreshes
    BY <1>1, <1>6 DEF CacheLoaded
  <2> QED
    BY <1>2, <1>4, <2>1, StillKeeps
<1>7. CASE load.room = token
  <2>1. PICK shown : shown = Of(token, Rows(token, load.page))
    OBVIOUS
  <2>2. PICK ask : ask = Ask(token, topic, 0, 0)
    OBVIOUS
  <2>3. /\ view' = IF view.shown = {} /\ shown # {}
                   THEN [view EXCEPT !.shown = shown, !.oldest = MinOf(Ids(shown))]
                   ELSE view
        /\ refreshes' = refreshes \cup {ask}
    BY <1>1, <1>7, <2>1, <2>2 DEF CacheLoaded
  <2>4. token \in Rooms
    BY <1>5, <1>7
  <2>5. ask.before = 0 /\ ask.topic = topic /\ cache[token] \subseteq 1..ask.since
    BY <1>3, <2>2, <2>4, AskNewest
  <2>6. CASE ~(view.shown = {} /\ shown # {})
    <3>1. view' = view
      BY <2>3, <2>6
    <3>2. \A q \in refreshes' : q \in refreshes
              \/ (q.before = 0 /\ q.topic = topic /\ cache[token] \subseteq 1..q.since)
      BY <2>3, <2>5
    <3> QED
      BY <1>2, <1>4, <3>1, <3>2, StillKeeps
  <2>7. CASE view.shown = {} /\ shown # {}
    <3>1. view'.shown = shown /\ view'.oldest = MinOf(Ids(shown))
      BY <2>3, <2>7, HInvType DEF Views
    <3>2. load.page \subseteq Saved(token)
      BY <1>3, <1>5, <1>7 DEF KindsInv
    <3>3. Shown' = load.page \cap Here /\ Shown = {}
      <4>1. Rows(token, load.page) = load.page \cap Here
        BY <2>4, <3>2, CachedRows
      <4>2. Ids(shown) = load.page \cap Here
        BY <2>1, <4>1, IdsOf
      <4> QED
        BY <2>7, <3>1, <4>2, ShownEmpty DEF Shown
    <3>4. Shown' # {}
      BY <2>7, <3>1, ShownEmpty DEF Shown
    <3>5. /\ Here' = Here /\ Holes' = Holes /\ (Filling' <=> Filling)
          /\ \A r : Saved(r)' = Saved(r)
          /\ \A r, t : InView(r, t)' = InView(r, t)
      BY <1>2, SameKinds, SameHoles
    <3>6. KindsInv'
      <4>1. \A k \in 1..Len(loads') : loads'[k].page \subseteq Saved(loads'[k].room)
        BY <1>3, <1>4 DEF KindsInv
      <4>2. Shown' \subseteq Here'
        BY <3>3, <3>5
      <4> QED
        BY <1>2, <1>3, <3>5, <4>1, <4>2 DEF KindsInv
    <3>7. CachesWhole'
      BY <1>2, <1>3, <3>5 DEF CachesWhole, Sides
    <3>8. LoadsWhole'
      <4>1. ASSUME NEW k \in 1..Len(loads'), loads'[k].room \notin excused
            PROVE  /\ loads'[k].page \subseteq cache[loads'[k].room]
                   /\ \A t \in Sides : Whole(loads'[k].page, InView(loads'[k].room, t), {})
        BY <1>3, <1>4, <4>1 DEF LoadsWhole
      <4> QED
        BY <1>2, <3>5, <4>1 DEF LoadsWhole, Sides
    <3>9. ASSUME token \in Rooms \ excused
          PROVE  ListInv' /\ ReachInv' /\ HistoryAsked' /\ RefreshAsked' /\ GapAsked'
      <4>1. ListInv /\ ReachInv /\ HistoryAsked /\ RefreshAsked /\ GapAsked
        BY <3>9, Opened
      <4>2. ~poll.on /\ ~Filling
        BY <3>3, <4>1 DEF ListInv
      <4>3. load.page \subseteq cache[token] /\ Whole(load.page, Here, {})
        <5>1. topic \in Sides
          BY <1>3, HInvType DEF KindsInv, Sides
        <5> QED
          BY <1>3, <1>5, <1>7, <3>9, <5>1 DEF LoadsWhole, Here
      <4>4. Whole(Shown', Here, Holes)
        BY <3>3, <4>3 DEF Whole
      <4>5. view'.oldest \in Shown' /\ \A j \in Shown' : view'.oldest <= j
        <5>1. Shown' \subseteq Here /\ view'.oldest = MinOf(Shown')
          BY <3>1, <3>3 DEF Shown
        <5> QED
          BY <2>4, <3>4, <5>1, Ends
      <4>6. ListInv'
        BY <1>2, <3>3, <3>4, <3>5, <4>3, <4>4, <4>5 DEF ListInv
      <4>7. ReachInv' /\ GapAsked'
        BY <1>2, <4>2 DEF ReachInv, GapAsked, Filling
      <4>8. RefreshAsked'
        BY <1>2, <2>3, <2>5, <3>4, <4>1 DEF RefreshAsked, Newest
      <4>9. HistoryAsked'
        BY <1>2, <3>3, <3>4, <4>1 DEF HistoryAsked, Newest, Anchored
      <4> QED
        BY <4>6, <4>7, <4>8, <4>9
    <3> QED
      BY <1>2, <3>6, <3>7, <3>8, <3>9 DEF GapInv, OpenInv
  <2> QED
    BY <2>6, <2>7
<1> QED
  BY <1>6, <1>7

-----------------------------------------------------------------------------
(* Opening rooms and topics.                                               *)

LEMMA NoHoles == ASSUME ~Filling PROVE Holes = {}
PROOF
BY DEF Filling, Holes

\* The view is emptied: no page asked for before is to come, or the room is excused.
LEMMA ReloadGap ==
    ASSUME HInv, GapInv, token \in Rooms, Threads, NEW t \in BOOLEAN, Reload(t),
           token' = token, gapReplies' = gapReplies, gap' = gap, loads' = loads,
           cache' = cache, kinds' = kinds,
           \A q \in refreshes' : q \in refreshes
               \/ (q.before = 0 /\ q.topic = t /\ cache[token] \subseteq 1..q.since)
    PROVE  GapInv'
PROOF
<1>1. KindsInv /\ CachesWhole /\ LoadsWhole
  BY DEF GapInv
<1>2. /\ topic' = t /\ poll' = StoppedPoller
      /\ view' = [view EXCEPT !.shown = {}, !.oldest = 0]
      /\ history' = IF history = NoRequest THEN Ask(token, t, 0, 0) ELSE history
  BY DEF Reload
<1>3. view'.shown = {} /\ view'.oldest = 0
  BY <1>2, HInvType DEF Views
<1>4. Shown' = {}
  BY <1>3, ShownEmpty DEF Shown
<1>5. ~poll'.on /\ poll'.room = poll.room /\ poll'.cursor = poll.cursor
  BY <1>2, HInvType DEF StoppedPoller, Polls
<1>6. excused \subseteq excused' /\ (token \notin excused' => ~Pending(token) /\ token \notin excused)
  BY ExcuseGrows DEF Reload
<1>7. token \notin excused' =>
        /\ history = NoRequest /\ ~Filling /\ Holes = {}
        /\ \A q \in refreshes : ~q.fresh
  BY <1>6, NoHoles DEF Pending
<1>8. Holes' = Holes /\ (Filling' <=> Filling)
  BY SameHoles
<1>9. \A r : Saved(r)' = Saved(r) /\ \A s : InView(r, s)' = InView(r, s)
  BY SameKinds
<1>10. KindsInv'
  BY <1>1, <1>4, <1>5, <1>9 DEF KindsInv
<1>11. LoadsWhole'
  <2>1. \A r \in Rooms : cache[r] \subseteq cache'[r]
    OBVIOUS
  <2> QED
    BY <1>1, <1>6, <2>1, LoadsNext
<1>12. CachesWhole'
  <2>1. ASSUME NEW r \in Rooms \ excused', NEW s \in Sides
        PROVE  Whole(cache[r], InView(r, s), {})
    <3>1. Whole(cache[r], InView(r, s), IF r = token /\ s = topic THEN Holes ELSE {})
      BY <1>1, <1>6 DEF CachesWhole
    <3>2. r = token => Holes = {}
      BY <1>7, <2>1
    <3> QED
      BY <3>1, <3>2
  <2>2. ASSUME NEW r \in Rooms \ excused', NEW s \in Sides
        PROVE  Whole(cache[r], InView(r, s), IF r = token /\ s = t THEN Holes' ELSE {})
    <3>1. r = token => Holes' = {}
      BY <1>7, <1>8, <2>2
    <3> QED
      BY <2>1, <3>1
  <2> QED
    BY <1>2, <1>9, <2>2 DEF CachesWhole, Sides
<1>13. ASSUME token \notin excused'
       PROVE  ListInv' /\ ReachInv' /\ HistoryAsked' /\ RefreshAsked' /\ GapAsked'
  <2>1. /\ history = NoRequest /\ ~Filling /\ Holes = {}
        /\ \A q \in refreshes : ~q.fresh
    BY <1>7, <1>13
  <2>2. ListInv' /\ ReachInv'
    BY <1>3, <1>4, <1>5, <1>8, <2>1 DEF ListInv, ReachInv, Whole
  <2>3. PICK ask : ask = Ask(token, t, 0, 0)
    OBVIOUS
  <2>4. ask.before = 0 /\ ask.topic = t /\ cache[token] \subseteq 1..ask.since
    BY <1>1, <2>3, AskNewest
  <2>5. HistoryAsked'
    <3>1. history' = ask
      BY <1>2, <2>1, <2>3
    <3> QED
      BY <1>2, <2>4, <3>1 DEF HistoryAsked, Newest
  <2>6. RefreshAsked'
    BY <1>2, <2>1 DEF RefreshAsked, Newest
  <2>7. GapAsked'
    BY <2>1 DEF GapAsked, Filling
  <2> QED
    BY <2>2, <2>5, <2>6, <2>7
<1> QED
  BY <1>10, <1>11, <1>12, <1>13 DEF GapInv, OpenInv

LEMMA SwitchTopicGap ==
    ASSUME HInv, GapInv, SwitchTopic PROVE GapInv'
PROOF
<1>1. token \in Rooms /\ (~topic) \in BOOLEAN /\ Threads
  BY HInvType DEF SwitchTopic
<1>2. /\ token' = token /\ gapReplies' = gapReplies /\ gap' = gap /\ loads' = loads
      /\ cache' = cache /\ kinds' = kinds /\ refreshes' = refreshes /\ Reload(~topic)
  BY DEF SwitchTopic
<1>3. PICK t \in BOOLEAN : t = ~topic
  BY <1>1
<1>4. Reload(t) /\ \A q \in refreshes' : q \in refreshes
  BY <1>2, <1>3
<1> QED
  BY <1>1, <1>2, <1>4, ReloadGap

LEMMA ReselectGap ==
    ASSUME HInv, GapInv, Reselect PROVE GapInv'
PROOF
<1>1. token \in Rooms /\ KindsInv
  BY HInvType DEF Reselect, GapInv
<1>2. PICK ask : ask = Ask(token, FALSE, 0, 0)
  OBVIOUS
<1>3. ask.before = 0 /\ ask.topic = FALSE /\ cache[token] \subseteq 1..ask.since
  BY <1>1, <1>2, AskNewest
<1>4. /\ token' = token /\ gapReplies' = gapReplies /\ gap' = gap /\ loads' = loads
      /\ cache' = cache /\ kinds' = kinds /\ refreshes' = refreshes \cup {ask}
  BY <1>2 DEF Reselect
<1>5. \A q \in refreshes' : q \in refreshes
          \/ (q.before = 0 /\ q.topic = FALSE /\ cache[token] \subseteq 1..q.since)
  BY <1>3, <1>4
<1>6. CASE Threads
  <2>1. Reload(FALSE)
    BY <1>6 DEF Reselect
  <2> QED
    BY <1>1, <1>4, <1>5, <1>6, <2>1, ReloadGap
<1>7. CASE ~Threads
  <2>1. /\ topic' = topic /\ view' = view /\ history' = history /\ poll' = poll
        /\ excused' = excused
    BY <1>7 DEF Reselect
  <2>2. topic = FALSE
    BY <1>1, <1>7, HInvType DEF KindsInv
  <2>3. \A k \in 1..Len(loads') : \E l \in 1..Len(loads) : loads'[k] = loads[l]
    BY <1>4
  <2> QED
    BY <1>4, <1>5, <2>1, <2>2, <2>3, StillKeeps
<1> QED
  BY <1>6, <1>7

LEMMA OpenRoomGap ==
    ASSUME HistoryAssumption, HInv, GapInv, NEW r \in Rooms \cup {NoRoom}, OpenRoom(r)
    PROVE  GapInv'
PROOF
<1>1. KindsInv /\ CachesWhole /\ LoadsWhole
  BY DEF GapInv
<1>2. PICK load : load = [room |-> r, page |-> Top(cache[r], PageLimit)]
  OBVIOUS
<1>3. PICK ask : ask = Ask(r, FALSE, 0, 0)
  OBVIOUS
<1>4. /\ r # token /\ token' = r /\ topic' = FALSE
      /\ view' = [shown |-> {}, oldest |-> 0, more |-> TRUE]
      /\ history' = IF Threads /\ r # NoRoom THEN ask ELSE NoRequest
      /\ refreshes' = Stale(refreshes) /\ gapReplies' = Stale(gapReplies)
      /\ poll' = StoppedPoller
      /\ loads' = IF r = NoRoom THEN loads ELSE Append(loads, load)
      /\ excused' = excused \cup {q.room : q \in {g \in gapReplies : g.fresh}}
      /\ gap' = gap /\ cache' = cache /\ kinds' = kinds
  BY <1>2, <1>3 DEF OpenRoom
<1>5. view'.shown = {} /\ view'.oldest = 0 /\ Shown' = {}
  BY <1>4, ShownEmpty DEF Shown
<1>6. ~poll'.on /\ poll'.room = poll.room /\ poll'.cursor = poll.cursor
  BY <1>4, HInvType DEF StoppedPoller, Polls
<1>7. ~Filling' /\ \A q \in refreshes' : ~q.fresh
  BY <1>4, StalePart, StaleType, HInvType DEF Filling
<1>8. Holes' = {}
  BY <1>7 DEF Holes, Filling
<1>9. excused \subseteq excused' /\ (token \notin excused' => Holes = {})
  <2>1. Filling => token \in excused'
    BY <1>4 DEF Filling, HInv, Fresh
  <2> QED
    BY <1>4, <2>1, NoHoles
<1>10. \A s : Saved(s)' = Saved(s) /\ \A t : InView(s, t)' = InView(s, t)
  BY <1>4, SameKinds
<1>11. ASSUME NEW s \in Rooms \ excused', NEW t \in Sides
       PROVE  Whole(cache[s], InView(s, t), {})
  <2>1. Whole(cache[s], InView(s, t), IF s = token /\ t = topic THEN Holes ELSE {})
    BY <1>1, <1>9 DEF CachesWhole
  <2>2. s = token => Holes = {}
    BY <1>9, <1>11
  <2> QED
    BY <2>1, <2>2
<1>12. \A k \in 1..Len(loads') :
          \/ \E l \in 1..Len(loads) : loads'[k] = loads[l]
          \/ r \in Rooms /\ loads'[k] = load
  <2>1. CASE r = NoRoom
    BY <1>4, <2>1
  <2>2. CASE r # NoRoom
    <3>1. load \in Loads /\ loads \in Seq(Loads)
      <4>1. r \in Rooms /\ cache[r] \subseteq Nat /\ Top(cache[r], PageLimit) \subseteq cache[r]
        BY <2>2, HInvType DEF Top
      <4> QED
        BY <1>2, <4>1, HInvType DEF Loads
    <3> HIDE DEF Loads
    <3>2. \A k \in 1..Len(Append(loads, load)) :
             Append(loads, load)[k] = load
             \/ (k \in 1..Len(loads) /\ Append(loads, load)[k] = loads[k])
      BY <3>1
    <3> QED
      BY <1>4, <2>2, <3>2
  <2> QED
    BY <2>1, <2>2
<1>13. r \in Rooms => /\ load.room = r /\ load.page \subseteq cache[r]
                      /\ \A a \in load.page, i \in cache[r] : a <= i => i \in load.page
  <2>1. ASSUME r \in Rooms
        PROVE  /\ load.page \subseteq cache[r]
               /\ \A a \in load.page, i \in cache[r] : a <= i => i \in load.page
    <3>1. PICK n \in Nat : n = Len(kinds[r])
      BY <2>1, KindsType, HInvType
    <3>2. cache[r] \subseteq 0..n
      <4>1. cache[r] \subseteq 1..n
        BY <2>1, <3>1 DEF HInv, CacheInv
      <4> QED
        BY <4>1
    <3>3. PageLimit \in Nat /\ load.page = Top(cache[r], PageLimit)
      BY <1>2 DEF HistoryAssumption
    <3> QED
      BY <3>2, <3>3, TopUpper
  <2> QED
    BY <1>2, <2>1
<1>14. KindsInv'
  <2>1. \A k \in 1..Len(loads') : loads'[k].page \subseteq Saved(loads'[k].room)
    <3>1. r \in Rooms => load.page \subseteq Saved(load.room)
      BY <1>1, <1>13 DEF KindsInv
    <3> QED
      BY <1>1, <1>12, <3>1 DEF KindsInv
  <2>2. ASSUME NEW q \in gapReplies' PROVE q.before <= q.since
    <3>1. PICK p \in gapReplies : q = [p EXCEPT !.fresh = FALSE]
      BY <1>4 DEF Stale
    <3>2. p \in Request /\ p.before <= p.since
      BY <1>1, HInvType DEF KindsInv
    <3> QED
      BY <3>1, <3>2 DEF Request
  <2> QED
    BY <1>1, <1>4, <1>5, <1>6, <1>10, <2>1, <2>2 DEF KindsInv
<1>15. CachesWhole'
  <2>1. ASSUME NEW s \in Rooms \ excused', NEW t \in Sides
        PROVE  Whole(cache[s], InView(s, t), IF s = r /\ t = FALSE THEN Holes' ELSE {})
    BY <1>8, <1>11
  <2> QED
    BY <1>4, <1>10, <2>1 DEF CachesWhole, Sides
<1>16. LoadsWhole'
  <2>1. ASSUME NEW k \in 1..Len(loads'), loads'[k].room \notin excused'
        PROVE  /\ loads'[k].page \subseteq cache[loads'[k].room]
               /\ \A t \in Sides : Whole(loads'[k].page, InView(loads'[k].room, t), {})
    <3>1. CASE \E l \in 1..Len(loads) : loads'[k] = loads[l]
      BY <1>1, <1>9, <2>1, <3>1 DEF LoadsWhole
    <3>2. CASE r \in Rooms /\ loads'[k] = load
      <4>1. r \in Rooms \ excused'
        BY <1>13, <2>1, <3>2
      <4>2. ASSUME NEW t \in Sides PROVE Whole(load.page, InView(r, t), {})
        <5>1. InView(r, t) \subseteq Nat
          BY <4>1, KindsType, HInvType DEF InView, Saved
        <5> QED
          BY <1>11, <1>13, <4>1, <5>1, UpperWhole
      <4> QED
        BY <1>13, <3>2, <4>2
    <3> QED
      BY <1>12, <3>1, <3>2
  <2> QED
    BY <1>4, <1>10, <2>1 DEF LoadsWhole, Sides
<1>17. ASSUME r \in Rooms \ excused'
       PROVE  ListInv' /\ ReachInv' /\ HistoryAsked' /\ RefreshAsked' /\ GapAsked'
  <2>1. ListInv' /\ ReachInv'
    BY <1>5, <1>6, <1>7 DEF ListInv, ReachInv, Whole
  <2>2. HistoryAsked'
    <3>1. ask.before = 0 /\ ask.topic = FALSE /\ cache[r] \subseteq 1..ask.since
      BY <1>1, <1>3, <1>17, AskNewest
    <3> QED
      BY <1>4, <3>1 DEF HistoryAsked, Newest
  <2>3. RefreshAsked' /\ GapAsked'
    BY <1>7 DEF RefreshAsked, GapAsked, Filling
  <2> QED
    BY <2>1, <2>2, <2>3
<1> QED
  BY <1>4, <1>14, <1>15, <1>16, <1>17 DEF GapInv, OpenInv

-----------------------------------------------------------------------------
(* Messages are written.                                                   *)

\* What is newer than all the rows of a set leaves it whole.
LEMMA WholeGrows ==
    ASSUME NEW n \in Nat, NEW X, X \subseteq 0..n, NEW V, NEW W, V \subseteq W, W \subseteq Nat,
           \A i \in W : i \in V \/ n < i, NEW H, Whole(X, V, H)
    PROVE  Whole(X, W, H)
PROOF
<1> SUFFICES ASSUME NEW a \in X \cap W, NEW c \in X \cap W, NEW i \in W, a <= i, i <= c
             PROVE  i \in X \cup H
  BY DEF Whole
<1>1. a \in 0..n /\ c \in 0..n /\ i \in Nat
  OBVIOUS
<1>2. a \in X \cap V /\ c \in X \cap V /\ i \in V
  BY <1>1
<1> QED
  BY <1>2 DEF Whole

LEMMA WriteGap ==
    ASSUME HistoryAssumption, HInv, GapInv, NEW r \in Rooms, NEW kind \in Kinds,
           Write(r, kind)
    PROVE  GapInv'
PROOF
<1>1. KindsInv /\ CachesWhole /\ LoadsWhole
  BY DEF GapInv
<1>2. /\ kinds' = [kinds EXCEPT ![r] = Append(@, kind)]
      /\ token' = token /\ topic' = topic /\ view' = view /\ history' = history
      /\ refreshes' = refreshes /\ gapReplies' = gapReplies /\ gap' = gap /\ poll' = poll
      /\ loads' = loads /\ cache' = cache /\ excused' = excused
  BY DEF Write
<1>3. \A s \in Rooms : /\ Len(kinds[s]) \in Nat /\ Len(kinds'[s]) \in Nat
                      /\ Len(kinds[s]) <= Len(kinds'[s])
                      /\ \A i \in 1..Len(kinds[s]) : kinds'[s][i] = kinds[s][i]
  BY <1>2, HInvType
<1>4. ASSUME NEW s \in Rooms
      PROVE  /\ Saved(s) \subseteq Saved(s)' /\ Saved(s)' \subseteq Nat
             /\ \A i \in Saved(s)' : i \in Saved(s) \/ Len(kinds[s]) < i
             /\ \A t : /\ InView(s, t) \subseteq InView(s, t)'
                       /\ \A i \in InView(s, t)' : i \in InView(s, t) \/ Len(kinds[s]) < i
  <2>1. \A i \in Saved(s) : i \in Saved(s)' /\ kinds'[s][i] = kinds[s][i]
    BY <1>3 DEF Saved
  <2>2. Saved(s)' \subseteq Nat
    BY <1>3 DEF Saved
  <2>3. ASSUME NEW i \in Saved(s)', ~(Len(kinds[s]) < i)
        PROVE  i \in Saved(s) /\ kinds'[s][i] = kinds[s][i]
    <3>1. i \in 1..Len(kinds[s])
      BY <1>3, <2>2, <2>3 DEF Saved
    <3>2. kinds'[s][i] = kinds[s][i]
      BY <1>3, <3>1
    <3> QED
      BY <3>1, <3>2 DEF Saved
  <2>4. ASSUME NEW t
        PROVE  /\ InView(s, t) \subseteq InView(s, t)'
               /\ \A i \in InView(s, t)' : i \in InView(s, t) \/ Len(kinds[s]) < i
    BY <2>1, <2>3 DEF InView
  <2> QED
    BY <2>1, <2>2, <2>3, <2>4
<1>5. Shown' = Shown /\ Holes' = Holes /\ (Filling' <=> Filling)
  BY <1>2, SameHoles DEF Shown
<1>6. ASSUME NEW s \in Rooms, NEW t, NEW X, NEW H, X \subseteq Saved(s), Whole(X, InView(s, t), H)
      PROVE  Whole(X, InView(s, t)', H)
  <2>1. X \subseteq 0..Len(kinds[s])
    <3>1. X \subseteq 1..Len(kinds[s]) /\ Len(kinds[s]) \in Nat
      BY <1>3, <1>6 DEF Saved
    <3> QED
      BY <3>1
  <2>2. InView(s, t)' \subseteq Nat
    BY <1>4 DEF InView
  <2> QED
    BY <1>3, <1>4, <1>6, <2>1, <2>2, WholeGrows
<1>7. token \in Rooms => Here' = InView(token, topic)' /\ Here = InView(token, topic)
  BY <1>2 DEF Here, InView, Saved
<1>8. \A k \in 1..Len(loads) : loads[k].room \in Rooms
  <2>1. \A k \in 1..Len(loads) : loads[k] \in Loads
    <3> HIDE DEF Loads
    <3> QED
      BY HInvType
  <2> QED
    BY <2>1 DEF Loads
<1>9. KindsInv'
  <2>1. token \in Rooms => Shown \subseteq Here'
    BY <1>1, <1>2, <1>4, <1>7 DEF KindsInv
  <2>2. poll.room \in Rooms => poll.cursor <= Len(kinds'[poll.room])
    BY <1>1, <1>3, HInvType DEF KindsInv, Polls
  <2>3. \A s \in Rooms : cache[s] \subseteq Saved(s)'
    BY <1>1, <1>4 DEF KindsInv
  <2>4. \A k \in 1..Len(loads) : loads[k].page \subseteq Saved(loads[k].room)'
    BY <1>1, <1>2, <1>4, <1>8 DEF KindsInv
  <2> QED
    BY <1>1, <1>2, <1>5, <2>1, <2>2, <2>3, <2>4 DEF KindsInv
<1>10. CachesWhole'
  <2>1. ASSUME NEW s \in Rooms \ excused, NEW t \in Sides
        PROVE  Whole(cache[s], InView(s, t)', IF s = token /\ t = topic THEN Holes ELSE {})
    <3>1. PICK H : H = IF s = token /\ t = topic THEN Holes ELSE {}
      OBVIOUS
    <3>2. Whole(cache[s], InView(s, t), H) /\ cache[s] \subseteq Saved(s)
      BY <1>1, <3>1 DEF CachesWhole, KindsInv
    <3> QED
      BY <1>6, <3>1, <3>2
  <2> QED
    BY <1>2, <1>5, <2>1 DEF CachesWhole, Sides
<1>11. LoadsWhole'
  <2>1. ASSUME NEW k \in 1..Len(loads), loads[k].room \notin excused
        PROVE  /\ loads[k].page \subseteq cache[loads[k].room]
               /\ \A t \in Sides : Whole(loads[k].page, InView(loads[k].room, t)', {})
    BY <1>1, <1>2, <1>6, <1>8, <2>1 DEF LoadsWhole, KindsInv
  <2> QED
    BY <1>2, <2>1 DEF LoadsWhole, Sides
<1>12. ASSUME token \in Rooms \ excused
       PROVE  ListInv' /\ ReachInv' /\ HistoryAsked' /\ RefreshAsked' /\ GapAsked'
  <2>1. ListInv /\ ReachInv /\ HistoryAsked /\ RefreshAsked /\ GapAsked
    BY <1>12, Opened
  <2>2. Shown \subseteq Saved(token) /\ token \in Rooms
    BY <1>1, <1>12 DEF KindsInv, Here, InView
  <2>3. Whole(Shown, Here', Holes)
    BY <1>2, <1>6, <1>7, <2>1, <2>2 DEF ListInv
  <2>4. ListInv'
    BY <1>2, <1>5, <2>1, <2>3 DEF ListInv
  <2>5. ReachInv'
    <3>1. ASSUME poll.on, NEW i \in Here', i <= poll.cursor PROVE i \in Here
      <4>1. poll.room = token /\ poll.cursor <= Len(kinds[token]) /\ poll.cursor \in Nat
        BY <1>1, <1>12, <3>1, HInvType DEF HInv, PollInv, KindsInv, Polls
      <4>2. i \in InView(token, topic)'
        BY <1>7, <1>12, <3>1
      <4>3. i \in InView(token, topic) \/ Len(kinds[token]) < i
        BY <1>2, <1>4, <1>12, <4>2
      <4>4. i \in Nat
        BY <1>2, <1>4, <1>12, <4>2 DEF InView
      <4> QED
        BY <1>3, <1>7, <1>12, <3>1, <4>1, <4>3, <4>4
    <3> QED
      BY <1>2, <1>5, <2>1, <3>1 DEF ReachInv
  <2>6. HistoryAsked' /\ RefreshAsked' /\ GapAsked'
    BY <1>2, <1>5, <2>1 DEF HistoryAsked, RefreshAsked, GapAsked, Newest, Anchored
  <2> QED
    BY <2>4, <2>5, <2>6
<1> QED
  BY <1>2, <1>9, <1>10, <1>11, <1>12 DEF GapInv, OpenInv

LEMMA GapInvInit == ASSUME HistoryAssumption, Init PROVE GapInv
PROOF
<1>1. /\ token = NoRoom /\ NoRoom \notin Rooms /\ topic = FALSE /\ poll.room = NoRoom
      /\ gapReplies = {} /\ loads = <<>> /\ Len(loads) = 0 /\ cache = [r \in Rooms |-> {}]
  BY DEF Init, HistoryAssumption
<1>2. KindsInv
  BY <1>1 DEF KindsInv
<1>3. OpenInv
  BY <1>1 DEF OpenInv
<1>4. CachesWhole
  BY <1>1 DEF CachesWhole, Whole
<1>5. LoadsWhole
  BY <1>1 DEF LoadsWhole
<1> QED
  BY <1>2, <1>3, <1>4, <1>5 DEF GapInv

LEMMA GapInvNext == ASSUME HistoryAssumption, HInv, GapInv, [Next]_vars PROVE GapInv'
PROOF
<1>1. CASE UNCHANGED vars
  BY <1>1, UnchangedGap
<1>2. CASE Replies
  <2>1. CASE \E q \in refreshes : RefreshDropped(q) \/ RefreshEmpty(q)
    BY <2>1, RefreshDroppedGap, RefreshEmptyGap
  <2>2. CASE \E q \in refreshes : \E n \in q.since..Len(kinds[q.room]) : RefreshMerged(q, n)
    BY <2>2, RefreshMergedGap
  <2>3. CASE \E n \in history.since..Len(kinds[history.room]) :
                HistoryEnd(n) \/ HistoryMerged(n)
    BY <2>3, HistoryEndGap, HistoryMergedGap
  <2>4. CASE \E q \in gapReplies : GapGivenUp(q)
    BY <2>4, GapGivenUpGap
  <2>5. CASE \E q \in gapReplies : \E n \in q.since..Len(kinds[q.room]) : GapMerged(q, n)
    BY <2>5, GapMergedGap
  <2>6. CASE CacheLoaded \/ HistoryFailed
    BY <2>6, CacheLoadedGap, HistoryFailedGap
  <2> QED
    BY <1>2, <2>1, <2>2, <2>3, <2>4, <2>5, <2>6 DEF Replies
<1>3. CASE \E r \in Rooms \cup {NoRoom} : OpenRoom(r)
  BY <1>3, OpenRoomGap
<1>4. CASE SwitchTopic \/ Refresh \/ Reselect \/ ScrollUp
  BY <1>4, SwitchTopicGap, RefreshGap, ReselectGap, ScrollUpGap
<1>5. CASE \E n \in poll.cursor + 1 .. Len(kinds[poll.room]) : Polled(n) \/ PollTorn(n)
  BY <1>5, PolledGap, PollTornGap
<1>6. CASE \E r \in Rooms, kind \in Kinds : Write(r, kind)
  BY <1>6, WriteGap
<1> QED
  BY <1>1, <1>2, <1>3, <1>4, <1>5, <1>6 DEF Next

LEMMA SpecGapInv == Spec => [](HInv /\ GapInv)
PROOF
<1>1. Init => HInv /\ GapInv
  BY HistoryAssumption, HInvInit, GapInvInit
<1>2. HInv /\ GapInv /\ [Next]_vars => HInv' /\ GapInv'
  BY HistoryAssumption, HInvNext, GapInvNext
<1> QED
  BY <1>1, <1>2, PTL DEF Spec

\* A list in which a gap has not been let in, with no gap fill at work, lacks no message
\* between its oldest row and the farther of its newest row and the long-poll.
LEMMA NoGapInList ==
    ASSUME HistoryAssumption, HInv, GapInv, token \in Rooms, token \notin excused, ~Filling
    PROVE  Unreachable = {}
PROOF
<1>1. ListInv /\ ReachInv /\ KindsInv
  BY Opened DEF GapInv
<1>2. Holes = {} /\ Here \subseteq 1..Len(kinds[token]) /\ Len(kinds[token]) \in Nat
  BY NoHoles, HereType
<1> DEFINE ends == Shown \cup (IF poll.on THEN {poll.cursor} ELSE {})
<1>3. ends \subseteq 0..Len(kinds[token])
  <2>1. ASSUME poll.on PROVE poll.cursor \in 0..Len(kinds[token])
    <3>1. poll.room = token /\ poll.cursor \in Nat
      BY <2>1, HInvType DEF HInv, PollInv, Polls
    <3>2. poll.cursor <= Len(kinds[token])
      BY <1>1, <3>1 DEF KindsInv
    <3> QED
      BY <1>2, <3>1, <3>2
  <2>2. ASSUME NEW j \in Shown PROVE j \in 0..Len(kinds[token])
    <3>1. j \in 1..Len(kinds[token])
      BY <1>1, <1>2 DEF KindsInv
    <3> QED
      BY <1>2, <3>1
  <2> QED
    BY <2>1, <2>2
<1> SUFFICES ASSUME NEW i \in Unreachable PROVE FALSE
  OBVIOUS
<1>4. /\ view.oldest # 0 /\ i \notin Shown /\ Visible(i) /\ i \in view.oldest..MaxOf(ends)
  BY DEF Unreachable, Shown
<1>5. Shown # {} /\ view.oldest \in Shown \cap Here
  BY <1>1, <1>4 DEF ListInv, KindsInv
<1>6. MaxOf(ends) \in ends /\ MaxOf(ends) \in 0..Len(kinds[token])
  BY <1>2, <1>3, <1>5, MaxOfType
<1>7. i \in Here /\ i \in Nat
  <2>1. view.oldest \in 1..Len(kinds[token])
    BY <1>2, <1>5
  <2>2. i \in 1..Len(kinds[token])
    BY <1>2, <1>4, <1>6, <2>1
  <2> QED
    BY <1>4, <2>2, HereType
<1>8. \E j \in Shown : i <= j
  <2>1. CASE MaxOf(ends) \in Shown
    BY <1>4, <2>1
  <2>2. CASE poll.on /\ MaxOf(ends) = poll.cursor
    BY <1>1, <1>4, <1>7, <2>2 DEF ReachInv
  <2> QED
    BY <1>6, <2>1, <2>2
<1>9. PICK j \in Shown : i <= j
  BY <1>8
<1>10. j \in Shown \cap Here
  BY <1>1, <1>9 DEF KindsInv
<1> QED
  BY <1>1, <1>2, <1>4, <1>5, <1>7, <1>9, <1>10 DEF ListInv, Whole

\* Between the messages shown none is missing that no source will bring, but for the
\* ways in which the code lets a gap in (`excused').
THEOREM SpecNoUnexplainedGap == Spec => []NoUnexplainedGap
PROOF
<1>1. HInv /\ GapInv => NoUnexplainedGap
  <2> SUFFICES ASSUME HInv, GapInv, token \notin excused, token # NoRoom, ~Filling
               PROVE  Unreachable = {}
    BY DEF NoUnexplainedGap, NoSilentGap
  <2> QED
    BY HistoryAssumption, HInvType, NoGapInList
<1> QED
  BY <1>1, SpecGapInv, PTL

=============================================================================
