--------------------------- MODULE CallJoinProofs ---------------------------
(***************************************************************************)
(* The invariants of CallJoin, for any rooms, limits and number of calls.  *)
(*                                                                         *)
(* BaseInv relates the call to its continuations, POSTs and leaves: whose  *)
(* they are, what may serve it in which phase, and that the ledger counts  *)
(* exactly the unanswered POSTs.  The three promises have an invariant of  *)
(* their own on top of it: GhostInv (what undoes a listing), KeptInv (what *)
(* keeps a joined call listed) and PursuedInv (what comes next).           *)
(* Helpers of the handlers, such as EnsureRoom and Teardown, are handed a  *)
(* call already changed; their lemmas are about that call and the parts of *)
(* the state that go with it, so Base and Ghost take them as parameters.   *)
(***************************************************************************)
EXTENDS CallJoin, FiniteSetTheorems, TLAPS

(* Types, without the values that do not occur. *)
CallRec == [gen : Nat, phase : Phases, room : Rooms \cup {NoRoom},
            outgoing : BOOLEAN, posted : Nat, flying : Nat,
            unresolved : BOOLEAN, confirmed : BOOLEAN, attempts : Nat,
            rejoins : Nat, remote : {"none", "here", "grace"}]
TodoRec == [kind : TodoKinds, gen : Nat, room : Rooms]
PostRec == [gen : Nat, room : Rooms, n : Nat, silent : BOOLEAN,
            ans : BOOLEAN, srv : {"open", "in", "no"}]
LeaveRec == [gen : Nat, room : Rooms, why : {"end", "late", "check", "decline"},
             left : Nat \ {0}]

(* Only an idle call has no room. *)
CallInv(c) == c \in CallRec /\ (c.phase = "Idle" <=> c.room = NoRoom)

(* A continuation is of the call c or of an earlier one.  The late-commit *)
(* check is only planned for a call that is over, and a declined ring has *)
(* no other phase until its DELETE is answered.                           *)
TodoOf(c, w) ==
  /\ w.gen <= c.gen
  /\ w.gen = c.gen => /\ c.phase # "Idle" /\ w.room = c.room /\ w.kind # "check"
                      /\ w.kind = "declined" => c.phase = "Ending"
                      /\ w.kind = "waitIn" => c.phase # "Outgoing"

TodoInv(c, t) ==
  /\ t \subseteq TodoRec /\ IsFiniteSet(t)
  /\ \A w \in t : TodoOf(c, w)

(* A POST is numbered within its call.  The server can still write only   *)
(* those of the room r the session is in; one that was answered while the *)
(* server could still write it has made the ledger unresolved.            *)
PostOf(c, p, r) ==
  /\ p.gen <= c.gen
  /\ p.gen = c.gen => /\ c.phase # "Idle" /\ p.room = c.room
                      /\ p.n \in 1 .. c.posted
                      /\ p.ans /\ p.srv = "open" => c.unresolved
  /\ p.srv = "open" => p.room = r
  /\ p.ans => p.srv = "open"

(* No two POSTs of the call have one number. *)
Alone(c, ps) == \A p, q \in ps : p.gen = c.gen /\ q.gen = c.gen /\ p.n = q.n => p = q

PostInv(c, ps, r) ==
  /\ ps \subseteq PostRec
  /\ \A p \in ps : PostOf(c, p, r)
  /\ Alone(c, ps)

(* The ledger counts the POSTs that have no answer. *)
Pending(c, ps) == {n \in 1 .. c.posted : \E p \in ps : p.gen = c.gen /\ p.n = n /\ ~p.ans}
LedgerInv(c, ps) == c.flying = Cardinality(Pending(c, ps))

(* A leave is of an earlier call, or of a ring that is being declined. *)
LeaveOf(c, l) == l.gen <= c.gen /\ (l.gen = c.gen => c.phase = "Ending")
LeaveInv(c, ls) == ls \subseteq LeaveRec /\ \A l \in ls : LeaveOf(c, l)

(* All of it for a call c, continuations t, POSTs ps, leaves ls, the room *)
(* r of the signaling client and the listing li: only that room's.        *)
Base(c, t, ps, ls, r, li) ==
  /\ CallInv(c) /\ TodoInv(c, t) /\ PostInv(c, ps, r) /\ LedgerInv(c, ps)
  /\ LeaveInv(c, ls) /\ r \in Rooms \cup {NoRoom} /\ li \in {NoRoom, r}

SigRec == [room : Rooms \cup {NoRoom}, acked : BOOLEAN]

BaseInv ==
  /\ Base(call, todo, posts, leaves, sig.room, listed)
  /\ sig \in SigRec
  /\ hpb \subseteq Rooms /\ faults \in 0 .. MaxFaults

-----------------------------------------------------------------------------
(* What the operators on the call's members change and what they keep. *)
LEMMA ResetIsCall ==
  ASSUME NEW c \in CallRec, NEW o \in BOOLEAN
  PROVE  /\ Reset(c, o) \in CallRec
         /\ Reset(c, o).gen = c.gen + 1 /\ Reset(c, o).posted = 0
         /\ Reset(c, o).flying = 0 /\ Reset(c, o).unresolved = FALSE
         /\ Reset(c, o).confirmed = FALSE /\ Reset(c, o).phase = c.phase
         /\ Reset(c, o).room = c.room /\ Reset(c, o).outgoing = o
         /\ Reset(c, o).remote = c.remote
<1> DEFINE g == c.gen + 1
<1>1. g \in Nat
  BY DEF CallRec
<1> HIDE DEF g
<1>2. [c EXCEPT !.gen = g, !.outgoing = o, !.posted = 0, !.flying = 0,
                !.unresolved = FALSE, !.confirmed = FALSE, !.rejoins = 0] \in CallRec
  BY <1>1 DEF CallRec
<1>3. Reset(c, o) = [c EXCEPT !.gen = g, !.outgoing = o, !.posted = 0, !.flying = 0,
                              !.unresolved = FALSE, !.confirmed = FALSE, !.rejoins = 0]
  BY DEF Reset, g
<1>4. QED
  BY <1>2, <1>3 DEF CallRec, g

LEMMA SentIsCall ==
  ASSUME NEW c \in CallRec, NEW k \in Nat
  PROVE  /\ Sent(c, k) \in CallRec
         /\ Sent(c, k).posted = c.posted + k /\ Sent(c, k).flying = c.flying + k
         /\ Sent(c, k).gen = c.gen /\ Sent(c, k).phase = c.phase
         /\ Sent(c, k).room = c.room /\ Sent(c, k).outgoing = c.outgoing
         /\ Sent(c, k).unresolved = c.unresolved /\ Sent(c, k).confirmed = c.confirmed
         /\ Sent(c, k).remote = c.remote
<1> DEFINE m == c.posted + k
           f == c.flying + k
<1>1. m \in Nat /\ f \in Nat
  BY DEF CallRec
<1> HIDE DEF m, f
<1>2. [c EXCEPT !.posted = m, !.flying = f] \in CallRec
  BY <1>1 DEF CallRec
<1>3. Sent(c, k) = [c EXCEPT !.posted = m, !.flying = f]
  BY DEF Sent, m, f
<1>4. QED
  BY <1>2, <1>3 DEF CallRec, m, f

LEMMA NotedIsCall ==
  ASSUME NEW c \in CallRec, NEW s
  PROVE  /\ Noted(c, s) \in CallRec
         /\ Noted(c, s).flying = IF c.flying > 0 THEN c.flying - 1 ELSE 0
         /\ c.unresolved \/ s = "transient" => Noted(c, s).unresolved
         /\ Noted(c, s).gen = c.gen /\ Noted(c, s).phase = c.phase
         /\ Noted(c, s).room = c.room /\ Noted(c, s).outgoing = c.outgoing
         /\ Noted(c, s).posted = c.posted /\ Noted(c, s).confirmed = c.confirmed
         /\ Noted(c, s).remote = c.remote
<1> DEFINE f == IF c.flying > 0 THEN c.flying - 1 ELSE 0
           u == c.unresolved \/ s = "transient"
<1>1. f \in Nat /\ u \in BOOLEAN
  BY DEF CallRec
<1> HIDE DEF f, u
<1>2. [c EXCEPT !.flying = f, !.unresolved = u] \in CallRec
  BY <1>1 DEF CallRec
<1>3. Noted(c, s) = [c EXCEPT !.flying = f, !.unresolved = u]
  BY DEF Noted, f, u
<1>4. QED
  BY <1>2, <1>3 DEF CallRec, f, u

LEMMA ConfirmedIsCall ==
  ASSUME NEW c \in CallRec
  PROVE  /\ Confirmed(c) \in CallRec
         /\ Confirmed(c).confirmed = TRUE
         /\ Confirmed(c).gen = c.gen /\ Confirmed(c).phase = c.phase
         /\ Confirmed(c).room = c.room /\ Confirmed(c).outgoing = c.outgoing
         /\ Confirmed(c).posted = c.posted /\ Confirmed(c).flying = c.flying
         /\ Confirmed(c).unresolved = c.unresolved
         /\ Confirmed(c).remote = c.remote
<1>1. Confirmed(c) \in CallRec
  BY ZenonT(60) DEF Confirmed, CallRec
<1>2. QED
  BY DEF Confirmed, CallRec
-----------------------------------------------------------------------------
(* d differs from c in what no continuation, POST or leave depends on. *)
Same(c, d) ==
  /\ d.gen = c.gen /\ d.room = c.room /\ d.posted = c.posted
  /\ d.flying = c.flying /\ d.unresolved = c.unresolved
  /\ d.phase = "Idle" <=> c.phase = "Idle"
  /\ c.phase = "Ending" => d.phase = "Ending"
  /\ d.phase = "Outgoing" => c.phase = "Outgoing"

LEMMA SameKeeps ==
  ASSUME NEW c, NEW d \in CallRec, NEW t, NEW ps, NEW ls, NEW r, NEW li,
         Base(c, t, ps, ls, r, li), Same(c, d)
  PROVE  Base(d, t, ps, ls, r, li)
<1>1. CallInv(d)
  BY DEF Base, CallInv, Same
<1>2. TodoInv(d, t)
  BY DEF Base, TodoInv, TodoOf, Same
<1>3. PostInv(d, ps, r)
  BY DEF Base, PostInv, PostOf, Alone, Same
<1>4. Pending(d, ps) = Pending(c, ps)
  BY DEF Pending, Same
<1>5. LeaveInv(d, ls)
  BY DEF Base, LeaveInv, LeaveOf, Same
<1>6. QED
  BY <1>1, <1>2, <1>3, <1>4, <1>5 DEF Base, LedgerInv, Same

(* d is a new call: nothing is of its generation yet. *)
Fresh(c, d) == d.gen = c.gen + 1 /\ d.posted = 0 /\ d.flying = 0

LEMMA FreshKeeps ==
  ASSUME NEW c, NEW d, NEW t, NEW ps, NEW ls, NEW r, NEW li,
         Base(c, t, ps, ls, r, li), Fresh(c, d), CallInv(d)
  PROVE  Base(d, t, ps, ls, r, li)
<1>1. c.gen \in Nat /\ d.gen \in Nat
  BY DEF Base, CallInv, CallRec
<1>2. \A w \in t : w.gen \in Nat /\ w.gen <= c.gen
  BY DEF Base, TodoInv, TodoOf, TodoRec
<1>3. TodoInv(d, t)
  BY <1>1, <1>2 DEF Base, TodoInv, TodoOf, Fresh
<1>4. \A p \in ps : p.gen \in Nat /\ p.gen <= c.gen
  BY DEF Base, PostInv, PostOf, PostRec
<1>5. PostInv(d, ps, r)
  BY <1>1, <1>4 DEF Base, PostInv, PostOf, Alone, Fresh
<1>6. Pending(d, ps) = {}
  BY DEF Pending, Fresh
<1>7. \A l \in ls : l.gen \in Nat /\ l.gen <= c.gen
  BY DEF Base, LeaveInv, LeaveOf, LeaveRec
<1>8. LeaveInv(d, ls)
  BY <1>1, <1>7 DEF Base, LeaveInv, LeaveOf, Fresh
<1>9. QED
  BY <1>3, <1>5, <1>6, <1>8, FS_EmptySet DEF Base, LedgerInv, Fresh

LEMMA TodoKeeps ==
  ASSUME NEW c, NEW t, NEW ps, NEW ls, NEW r, NEW li, NEW x, NEW y,
         Base(c, t, ps, ls, r, li), x \subseteq t, y \subseteq TodoRec,
         IsFiniteSet(y), \A w \in y : TodoOf(c, w)
  PROVE  Base(c, x \cup y, ps, ls, r, li)
<1>1. IsFiniteSet(x)
  BY FS_Subset DEF Base, TodoInv
<1>2. IsFiniteSet(x \cup y)
  BY <1>1, FS_Union
<1>3. TodoInv(c, x \cup y)
  BY <1>2 DEF Base, TodoInv
<1>4. QED
  BY <1>3 DEF Base

LEMMA LeavesKeep ==
  ASSUME NEW c, NEW t, NEW ps, NEW ls, NEW r, NEW li, NEW ls2,
         Base(c, t, ps, ls, r, li), ls2 \subseteq LeaveRec,
         \A l \in ls2 : l \in ls \/ LeaveOf(c, l)
  PROVE  Base(c, t, ps, ls2, r, li)
BY DEF Base, LeaveInv

LEMMA PendingIsFinite ==
  ASSUME NEW c \in CallRec, NEW ps
  PROVE  /\ IsFiniteSet(Pending(c, ps)) /\ Cardinality(Pending(c, ps)) \in Nat
         /\ Pending(c, ps) \subseteq 1 .. c.posted
<1>1. c.posted \in Nat
  BY DEF CallRec
<1>2. IsFiniteSet(1 .. c.posted) /\ Pending(c, ps) \in SUBSET (1 .. c.posted)
  BY <1>1, FS_Interval DEF Pending
<1>3. IsFiniteSet(Pending(c, ps))
  BY <1>2, FS_Subset
<1>4. QED
  BY <1>2, <1>3, FS_CardinalityType

(* Cardinalities of disjoint sets add up. *)
LEMMA DisjointUnion ==
  ASSUME NEW S, NEW T, IsFiniteSet(S), IsFiniteSet(T), S \cap T = {}
  PROVE  Cardinality(S \cup T) = Cardinality(S) + Cardinality(T)
<1>1. Cardinality(S) \in Nat /\ Cardinality(T) \in Nat /\ Cardinality(S \cap T) = 0
  BY FS_CardinalityType, FS_EmptySet
<1>2. Cardinality(S \cup T) = Cardinality(S) + Cardinality(T) - Cardinality(S \cap T)
  BY FS_Union
<1>3. QED
  BY <1>1, <1>2

(* Join POSTs sent by the call that has the room r of the signaling client. *)
LEMMA SentKeeps ==
  ASSUME NEW c, NEW t, NEW ps, NEW ls, NEW li, NEW k \in Nat, NEW silent \in BOOLEAN,
         Base(c, t, ps, ls, sig.room, li), c.phase # "Idle"
  PROVE  Base(Sent(c, k), t,
              ps \cup {NewPost(c, c.posted + i, silent) : i \in 1 .. k}, ls, sig.room, li)
<1> DEFINE d == Sent(c, k)
           qs == {NewPost(c, c.posted + i, silent) : i \in 1 .. k}
<1>1. /\ d \in CallRec /\ d.posted = c.posted + k /\ d.flying = c.flying + k
      /\ d.gen = c.gen /\ d.phase = c.phase /\ d.room = c.room
      /\ d.unresolved = c.unresolved
      /\ c \in CallRec /\ c.gen \in Nat /\ c.posted \in Nat /\ c.flying \in Nat
      /\ c.room \in Rooms
  <2>1. c \in CallRec /\ c.room # NoRoom
    BY DEF Base, CallInv
  <2>2. QED
    BY <2>1, SentIsCall DEF CallRec
<1>2. \A q \in qs : /\ q \in PostRec /\ q.gen = c.gen /\ q.room = c.room
                    /\ q.n \in c.posted + 1 .. c.posted + k /\ ~q.ans
                    /\ q.srv = "open" => q.room = sig.room
  <2>1. SUFFICES ASSUME NEW i \in 1 .. k
                 PROVE  LET q == NewPost(c, c.posted + i, silent)
                        IN  /\ q \in PostRec /\ q.gen = c.gen /\ q.room = c.room
                            /\ q.n \in c.posted + 1 .. c.posted + k /\ ~q.ans
                            /\ q.srv = "open" => q.room = sig.room
    OBVIOUS
  <2>2. c.posted + i \in Nat /\ c.posted + i \in c.posted + 1 .. c.posted + k
    BY <1>1
  <2>3. QED
    BY <1>1, <2>2 DEF NewPost, PostRec
<1>3. \A n \in c.posted + 1 .. c.posted + k : \E q \in qs : q.n = n
  <2>1. SUFFICES ASSUME NEW n \in c.posted + 1 .. c.posted + k
                 PROVE  \E q \in qs : q.n = n
    OBVIOUS
  <2>2. n - c.posted \in 1 .. k /\ c.posted + (n - c.posted) = n
    BY <1>1
  <2>3. NewPost(c, c.posted + (n - c.posted), silent) \in qs
    BY <2>2
  <2>4. QED
    BY <2>2, <2>3 DEF NewPost
<1>4. \A p, q \in qs : p.n = q.n => p = q
  <2>1. \A p \in qs : p = NewPost(c, p.n, silent)
    <3>1. \A i \in 1 .. k : NewPost(c, c.posted + i, silent).n = c.posted + i
      BY DEF NewPost
    <3>2. QED
      BY <3>1
  <2>2. QED
    BY <2>1
<1> HIDE DEF d, qs
<1>5. CallInv(d) /\ TodoInv(d, t) /\ LeaveInv(d, ls)
  BY <1>1 DEF Base, CallInv, TodoInv, TodoOf, LeaveInv, LeaveOf
<1>6. \A p \in ps : p \in PostRec /\ PostOf(c, p, sig.room)
  BY DEF Base, PostInv
<1>7. \A p \in ps \cup qs : p \in PostRec /\ PostOf(d, p, sig.room)
  BY <1>1, <1>2, <1>6 DEF PostOf
<1>8. \A p \in ps : p.gen = c.gen => p.n \in 1 .. c.posted
  BY <1>6 DEF PostOf
<1>9. Alone(d, ps \cup qs)
  BY <1>1, <1>2, <1>4, <1>8 DEF Base, PostInv, Alone
<1>10. PostInv(d, ps \cup qs, sig.room)
  BY <1>7, <1>9 DEF PostInv
<1>11. Pending(d, ps \cup qs) = Pending(c, ps) \cup (c.posted + 1 .. c.posted + k)
  BY <1>1, <1>2, <1>3, <1>8 DEF Pending
<1>12. LedgerInv(d, ps \cup qs)
  <2>1. /\ IsFiniteSet(c.posted + 1 .. c.posted + k)
        /\ Cardinality(c.posted + 1 .. c.posted + k) = k
    <3>1. c.posted + 1 \in Int /\ c.posted + k \in Int
      BY <1>1
    <3>2. (IF c.posted + 1 > c.posted + k THEN 0
           ELSE (c.posted + k) - (c.posted + 1) + 1) = k
      BY <1>1
    <3>3. QED
      BY <3>1, <3>2, FS_Interval
  <2>2. IsFiniteSet(Pending(c, ps)) /\ Cardinality(Pending(c, ps)) \in Nat
        /\ Pending(c, ps) \subseteq 1 .. c.posted
    BY <1>1, PendingIsFinite
  <2>3. Pending(c, ps) \cap (c.posted + 1 .. c.posted + k) = {}
    BY <1>1, <2>2
  <2>4. Cardinality(Pending(c, ps) \cup (c.posted + 1 .. c.posted + k))
          = Cardinality(Pending(c, ps)) + k
    BY <2>1, <2>2, <2>3, DisjointUnion
  <2>5. QED
    BY <1>1, <1>11, <2>4 DEF LedgerInv, Base
<1>13. QED
  BY <1>5, <1>10, <1>12 DEF Base, d, qs

-----------------------------------------------------------------------------
(* Every post p becomes f[p]; what is done with is dropped. *)
Mapping(ps, f) ==
  /\ f \in [ps -> PostRec]
  /\ \A p \in ps : /\ f[p].gen = p.gen /\ f[p].room = p.room /\ f[p].n = p.n
                   /\ f[p].silent = p.silent /\ (p.ans => f[p].ans)
Image(ps, f) == Settled({f[p] : p \in ps})

LEMMA ImageElements ==
  ASSUME NEW ps, NEW f, Mapping(ps, f)
  PROVE  /\ \A q \in Image(ps, f) : \E p \in ps : q = f[p] /\ (q.ans => q.srv = "open")
         /\ \A p \in ps : ~f[p].ans => f[p] \in Image(ps, f)
         /\ Image(ps, f) \subseteq PostRec
BY DEF Mapping, Image, Settled

LEMMA ImageKeeps ==
  ASSUME NEW c, NEW d, NEW ps, NEW f, NEW r, NEW r2,
         PostInv(c, ps, r), Mapping(ps, f),
         d.gen = c.gen, d.room = c.room, d.posted = c.posted,
         c.phase # "Idle" => d.phase # "Idle",
         \A p \in ps : f[p].srv = "open" => f[p].room = r2,
         \A p \in ps : p.gen = c.gen /\ f[p].ans /\ f[p].srv = "open" => d.unresolved
  PROVE  PostInv(d, Image(ps, f), r2)
<1> DEFINE qs == Image(ps, f)
<1>1. /\ \A q \in qs : \E p \in ps : q = f[p] /\ (q.ans => q.srv = "open")
      /\ qs \subseteq PostRec
  BY ImageElements
<1> HIDE DEF qs
<1>2. ASSUME NEW q \in qs
      PROVE  PostOf(d, q, r2)
  <2>1. PICK p \in ps : q = f[p] /\ (q.ans => q.srv = "open")
    BY <1>1
  <2>2. PostOf(c, p, r) /\ q.gen = p.gen /\ q.room = p.room /\ q.n = p.n
    BY <2>1 DEF Mapping, PostInv
  <2>3. QED
    BY <2>1, <2>2 DEF PostOf
<1>3. ASSUME NEW q1 \in qs, NEW q2 \in qs, q1.gen = d.gen, q2.gen = d.gen, q1.n = q2.n
      PROVE  q1 = q2
  <2>1. PICK p1 \in ps : q1 = f[p1]
    BY <1>1
  <2>2. PICK p2 \in ps : q2 = f[p2]
    BY <1>1
  <2>3. p1.gen = c.gen /\ p2.gen = c.gen /\ p1.n = p2.n
    BY <1>3, <2>1, <2>2 DEF Mapping
  <2>4. QED
    BY <2>1, <2>2, <2>3 DEF PostInv, Alone
<1>4. QED
  BY <1>1, <1>2, <1>3 DEF PostInv, Alone, qs

LEMMA ImagePending ==
  ASSUME NEW c, NEW d, NEW ps, NEW f, Mapping(ps, f),
         d.gen = c.gen, d.posted = c.posted, \A p \in ps : f[p].ans => p.ans
  PROVE  Pending(d, Image(ps, f)) = Pending(c, ps)
<1> DEFINE qs == Image(ps, f)
<1>1. /\ \A q \in qs : \E p \in ps : q = f[p]
      /\ \A p \in ps : ~f[p].ans => f[p] \in qs
  BY ImageElements
<1> HIDE DEF qs
<1>2. ASSUME NEW n \in 1 .. c.posted
      PROVE  (\E q \in qs : q.gen = c.gen /\ q.n = n /\ ~q.ans)
               <=> (\E p \in ps : p.gen = c.gen /\ p.n = n /\ ~p.ans)
  BY <1>1 DEF Mapping
<1>3. Pending(d, qs) = Pending(c, ps)
  BY <1>2 DEF Pending
<1>4. QED
  BY <1>3 DEF qs

LEMMA PostsKeep ==
  ASSUME NEW c, NEW t, NEW ps, NEW ls, NEW r, NEW li, NEW f, NEW r2, NEW li2,
         Base(c, t, ps, ls, r, li), Mapping(ps, f),
         \A p \in ps : f[p].srv = "open" => p.srv = "open" /\ p.room = r2,
         \A p \in ps : f[p].ans => p.ans,
         r2 \in Rooms \cup {NoRoom}, li2 \in {NoRoom, r2}
  PROVE  Base(c, t, Image(ps, f), ls, r2, li2)
<1>1. \A p \in ps : PostOf(c, p, r)
  BY DEF Base, PostInv
<1>2. \A p \in ps : p.gen = c.gen /\ f[p].ans /\ f[p].srv = "open" => c.unresolved
  BY <1>1 DEF PostOf
<1>3. \A p \in ps : f[p].srv = "open" => f[p].room = r2
  BY DEF Mapping
<1>4. PostInv(c, Image(ps, f), r2)
  BY <1>2, <1>3, ImageKeeps DEF Base
<1>5. Pending(c, Image(ps, f)) = Pending(c, ps)
  BY ImagePending
<1>6. QED
  BY <1>4, <1>5 DEF Base, LedgerInv

(* The posts of S lose their session at the server. *)
Retiring(ps, S) ==
  [p \in ps |-> IF p \in S THEN [p EXCEPT !.srv = IF @ = "open" THEN "no" ELSE @] ELSE p]

RetiringFields(ps, S) ==
  /\ Mapping(ps, Retiring(ps, S))
  /\ \A p \in ps : /\ Retiring(ps, S)[p].ans = p.ans
                   /\ Retiring(ps, S)[p].srv
                        = IF p \in S /\ p.srv = "open" THEN "no" ELSE p.srv

LEMMA RetiringMaps ==
  ASSUME NEW ps, NEW S, S \subseteq ps, ps \subseteq PostRec
  PROVE  /\ RetiringFields(ps, S)
         /\ Settled((ps \ S) \cup Retired(S)) = Image(ps, Retiring(ps, S))
<1> DEFINE f == Retiring(ps, S)
           g(p) == [p EXCEPT !.srv = IF @ = "open" THEN "no" ELSE @]
<1>1. ASSUME NEW p \in ps
      PROVE  /\ g(p) \in PostRec /\ g(p).gen = p.gen /\ g(p).room = p.room /\ g(p).n = p.n
             /\ g(p).silent = p.silent /\ g(p).ans = p.ans
             /\ g(p).srv = IF p.srv = "open" THEN "no" ELSE p.srv
  <2> DEFINE v == IF p.srv = "open" THEN "no" ELSE p.srv
  <2>1. p \in PostRec /\ v \in {"open", "in", "no"}
    BY DEF PostRec
  <2> HIDE DEF v
  <2>2. [p EXCEPT !.srv = v] \in PostRec
    BY <2>1 DEF PostRec
  <2>3. g(p) = [p EXCEPT !.srv = v]
    BY DEF v
  <2> HIDE DEF g
  <2>4. QED
    BY <2>1, <2>2, <2>3 DEF PostRec, v
<1>2. \A p \in ps : f[p] = IF p \in S THEN g(p) ELSE p
  BY DEF Retiring
<1>3. Retired(S) = {g(p) : p \in S}
  BY DEF Retired
<1>4. f \in [ps -> PostRec]
  BY <1>1 DEF Retiring
<1> HIDE DEF f, g
<1>5. {f[p] : p \in ps} = (ps \ S) \cup Retired(S)
  BY <1>2, <1>3
<1>6. Mapping(ps, f)
  BY <1>1, <1>2, <1>4 DEF Mapping
<1>7. QED
  BY <1>1, <1>2, <1>5, <1>6 DEF Image, f, RetiringFields

(* The server is done with the post p. *)
Landing(ps, p, v) == [q \in ps |-> IF q = p THEN [q EXCEPT !.srv = v] ELSE q]

LandingFields(ps, p, v) ==
  /\ Mapping(ps, Landing(ps, p, v))
  /\ \A q \in ps : /\ Landing(ps, p, v)[q].ans = q.ans
                   /\ Landing(ps, p, v)[q].srv = IF q = p THEN v ELSE q.srv

LEMMA LandingMaps ==
  ASSUME NEW ps, NEW p \in ps, NEW v \in {"in", "no"}, ps \subseteq PostRec
  PROVE  /\ LandingFields(ps, p, v)
         /\ Settled((ps \ {p}) \cup {[p EXCEPT !.srv = v]}) = Image(ps, Landing(ps, p, v))
<1> DEFINE f == Landing(ps, p, v)
           g == [p EXCEPT !.srv = v]
<1>1. /\ g \in PostRec /\ g.gen = p.gen /\ g.room = p.room /\ g.n = p.n
      /\ g.silent = p.silent /\ g.ans = p.ans /\ g.srv = v
  <2>1. p \in PostRec
    OBVIOUS
  <2>2. g \in PostRec
    BY <2>1 DEF PostRec
  <2>3. QED
    BY <2>1, <2>2 DEF PostRec
<1>2. \A q \in ps : f[q] = IF q = p THEN g ELSE q
  BY DEF Landing
<1>3. f \in [ps -> PostRec]
  BY <1>1 DEF Landing
<1> HIDE DEF f, g
<1>4. {f[q] : q \in ps} = (ps \ {p}) \cup {g}
  BY <1>2
<1>5. Mapping(ps, f)
  BY <1>1, <1>2, <1>3 DEF Mapping
<1>6. QED
  BY <1>1, <1>2, <1>4, <1>5 DEF Image, f, g, LandingFields

(* The posts after the answer to p. *)
AnsweredOne(p, status) ==
  [p EXCEPT !.ans = TRUE, !.srv = IF status \in {"notFound", "refused"} THEN "no" ELSE @]

AnsweredPosts(p, status) ==
  LET others == posts \ {p}
  IN  Settled(
        (IF status = "notFound" THEN {q \in others : q.room # p.room} \cup
              Retired({q \in others : q.room = p.room}) ELSE others) \cup
        {AnsweredOne(p, status)})

Answering(ps, p, status) ==
  [q \in ps |-> IF q = p THEN AnsweredOne(p, status)
                ELSE IF status = "notFound" /\ q.room = p.room
                THEN Retiring(ps, {x \in ps : x.room = p.room})[q] ELSE q]

LEMMA AnsweringMaps ==
  ASSUME NEW p \in posts, NEW status, posts \subseteq PostRec
  PROVE  /\ Mapping(posts, Answering(posts, p, status))
         /\ AnsweredPosts(p, status) = Image(posts, Answering(posts, p, status))
         /\ \A q \in posts :
              LET z == Answering(posts, p, status)[q]
              IN  /\ z.ans <=> (q.ans \/ q = p)
                  /\ z.srv = IF q = p /\ status \in {"notFound", "refused"} THEN "no"
                             ELSE IF q # p /\ status = "notFound" /\ q.room = p.room
                                     /\ q.srv = "open" THEN "no"
                             ELSE q.srv
<1> DEFINE S == {x \in posts : x.room = p.room}
           f == Answering(posts, p, status)
           h == Retiring(posts, S)
           g == AnsweredOne(p, status)
<1>1. /\ g \in PostRec /\ g.gen = p.gen /\ g.room = p.room /\ g.n = p.n
      /\ g.silent = p.silent /\ g.ans = TRUE
      /\ g.srv = IF status \in {"notFound", "refused"} THEN "no" ELSE p.srv
  <2> DEFINE v == IF status \in {"notFound", "refused"} THEN "no" ELSE p.srv
  <2>1. p \in PostRec /\ v \in {"open", "in", "no"}
    BY DEF PostRec
  <2> HIDE DEF v
  <2>2. [p EXCEPT !.ans = TRUE, !.srv = v] \in PostRec
    BY <2>1 DEF PostRec
  <2>3. g = [p EXCEPT !.ans = TRUE, !.srv = v]
    BY DEF v, AnsweredOne
  <2> HIDE DEF g
  <2>4. QED
    BY <2>1, <2>2, <2>3 DEF PostRec, v
<1>2. /\ Mapping(posts, h)
      /\ \A q \in posts : /\ h[q].ans = q.ans
                          /\ h[q].srv = IF q \in S /\ q.srv = "open" THEN "no" ELSE q.srv
  <2>1. S \subseteq posts
    OBVIOUS
  <2> HIDE DEF S
  <2>2. RetiringFields(posts, S)
    BY <2>1, RetiringMaps
  <2>3. QED
    BY <2>2 DEF h, RetiringFields
<1>3. \A q \in posts : f[q] = IF q = p THEN g
                              ELSE IF status = "notFound" /\ q.room = p.room THEN h[q] ELSE q
  BY DEF Answering
<1>4. f \in [posts -> PostRec]
  BY <1>1, <1>2 DEF Answering, Mapping
<1>5. Retired({q \in posts \ {p} : q.room = p.room}) = {h[q] : q \in {x \in posts \ {p} : x.room = p.room}}
  BY DEF Retired, Retiring
<1>6. AnsweredPosts(p, status)
        = Settled((IF status = "notFound"
                   THEN {q \in posts \ {p} : q.room # p.room} \cup
                        Retired({q \in posts \ {p} : q.room = p.room})
                   ELSE posts \ {p}) \cup {g})
  BY DEF AnsweredPosts
<1>7. \A q \in posts : q \in S <=> q.room = p.room
  OBVIOUS
<1> HIDE DEF f, g, h, S
<1>8. {f[q] : q \in posts}
        = (IF status = "notFound"
           THEN {q \in posts \ {p} : q.room # p.room} \cup
                Retired({q \in posts \ {p} : q.room = p.room})
           ELSE posts \ {p}) \cup {g}
  <2>1. CASE status = "notFound"
    BY <1>3, <1>5, <2>1
  <2>2. CASE status # "notFound"
    BY <1>3, <2>2
  <2>3. QED
    BY <2>1, <2>2
<1>9. Mapping(posts, f)
  BY <1>1, <1>2, <1>3, <1>4 DEF Mapping
<1>10. AnsweredPosts(p, status) = Image(posts, f)
  BY <1>6, <1>8 DEF Image
<1>11. ASSUME NEW q \in posts
       PROVE  /\ f[q].ans <=> (q.ans \/ q = p)
              /\ f[q].srv = IF q = p /\ status \in {"notFound", "refused"} THEN "no"
                           ELSE IF q # p /\ status = "notFound" /\ q.room = p.room
                                   /\ q.srv = "open" THEN "no"
                           ELSE q.srv
  <2>1. CASE q = p
    BY <1>1, <1>3, <2>1
  <2>2. CASE q # p
    <3>1. q \in PostRec /\ q.ans \in BOOLEAN
      BY DEF PostRec
    <3>2. QED
      BY <1>2, <1>3, <1>7, <2>2, <3>1
  <2>3. QED
    BY <2>1, <2>2
<1>12. QED
  BY <1>9, <1>10, <1>11 DEF f

(* The answer to p settles it in the ledger of its own call only. *)
LEMMA AnswerKeeps ==
  ASSUME NEW p \in posts, NEW status, NEW d, NEW t, NEW ls, NEW r, NEW li, ~p.ans,
         Base(call, t, posts, ls, r, li),
         status = "ok" => p.srv = "in",
         status \in {"ok", "transient", "notFound", "refused"},
         \/ p.gen # call.gen /\ d = call
         \/ p.gen = call.gen /\ d = Noted(call, status)
  PROVE  Base(d, t, AnsweredPosts(p, status), ls, r, li)
<1> DEFINE f == Answering(posts, p, status)
<1>1. posts \subseteq PostRec /\ call \in CallRec
  BY DEF Base, PostInv, CallInv
<1>2. /\ Mapping(posts, f) /\ AnsweredPosts(p, status) = Image(posts, f)
      /\ \A q \in posts :
           /\ f[q].ans <=> (q.ans \/ q = p)
           /\ f[q].srv = IF q = p /\ status \in {"notFound", "refused"} THEN "no"
                         ELSE IF q # p /\ status = "notFound" /\ q.room = p.room
                                 /\ q.srv = "open" THEN "no"
                         ELSE q.srv
  BY <1>1, AnsweringMaps
<1> HIDE DEF f
<1>3. /\ d \in CallRec /\ d.gen = call.gen /\ d.room = call.room /\ d.posted = call.posted
      /\ d.phase = call.phase /\ (call.unresolved => d.unresolved)
      /\ p.gen = call.gen /\ status = "transient" => d.unresolved
      /\ d.flying = IF p.gen # call.gen THEN call.flying
                    ELSE IF call.flying > 0 THEN call.flying - 1 ELSE 0
  <2>1. CASE p.gen # call.gen /\ d = call
    BY <1>1, <2>1
  <2>2. CASE p.gen = call.gen /\ d = Noted(call, status)
    BY <1>1, <2>2, NotedIsCall
  <2>3. QED
    BY <2>1, <2>2
<1>4. \A q \in posts : PostOf(call, q, r)
  BY DEF Base, PostInv
<1>5. \A q \in posts : f[q].srv = "open" => f[q].room = r
  BY <1>2, <1>4 DEF PostOf, Mapping
<1>6. \A q \in posts : q.gen = call.gen /\ f[q].ans /\ f[q].srv = "open" => d.unresolved
  BY <1>2, <1>3, <1>4 DEF PostOf
<1>7. PostInv(d, Image(posts, f), r)
  <2>1. PostInv(call, posts, r)
    BY DEF Base
  <2>2. QED
    BY <1>2, <1>3, <1>5, <1>6, <2>1, ImageKeeps
<1>8. LedgerInv(d, Image(posts, f))
  <2>1. /\ \A q \in Image(posts, f) : \E x \in posts : q = f[x]
        /\ \A x \in posts : ~f[x].ans => f[x] \in Image(posts, f)
    BY <1>2, ImageElements
  <2>2. CASE p.gen # call.gen
    <3>1. ASSUME NEW n \in 1 .. call.posted
          PROVE  (\E q \in Image(posts, f) : q.gen = call.gen /\ q.n = n /\ ~q.ans)
                   <=> (\E x \in posts : x.gen = call.gen /\ x.n = n /\ ~x.ans)
      BY <1>2, <2>1, <2>2 DEF Mapping
    <3>2. Pending(d, Image(posts, f)) = Pending(call, posts)
      BY <1>3, <3>1 DEF Pending
    <3>3. QED
      BY <1>3, <2>2, <3>2 DEF Base, LedgerInv
  <2>3. CASE p.gen = call.gen
    <3>1. \A x \in posts : x.gen = call.gen /\ x.n = p.n => x = p
      BY <2>3 DEF Base, PostInv, Alone
    <3>2. ASSUME NEW n \in 1 .. call.posted
          PROVE  (\E q \in Image(posts, f) : q.gen = call.gen /\ q.n = n /\ ~q.ans)
                   <=> (n # p.n /\ \E x \in posts : x.gen = call.gen /\ x.n = n /\ ~x.ans)
      BY <1>2, <2>1, <2>3, <3>1 DEF Mapping
    <3>3. Pending(d, Image(posts, f)) = Pending(call, posts) \ {p.n}
      BY <1>3, <3>2 DEF Pending
    <3>4. p.n \in Pending(call, posts)
      BY <1>4, <2>3 DEF Pending, PostOf
    <3>5. /\ IsFiniteSet(Pending(call, posts))
          /\ Cardinality(Pending(call, posts)) \in Nat
      BY <1>1, PendingIsFinite
    <3>6. Cardinality(Pending(call, posts) \ {p.n}) = Cardinality(Pending(call, posts)) - 1
      BY <3>4, <3>5, FS_RemoveElement
    <3>7. /\ IsFiniteSet(Pending(call, posts) \ {p.n})
          /\ Cardinality(Pending(call, posts) \ {p.n}) \in Nat
      BY <3>5, FS_RemoveElement, FS_CardinalityType
    <3>8. call.flying = Cardinality(Pending(call, posts))
      BY DEF Base, LedgerInv
    <3>9. d.flying = Cardinality(Pending(call, posts) \ {p.n})
      BY <1>3, <2>3, <3>5, <3>6, <3>7, <3>8
    <3>10. QED
      BY <3>3, <3>9 DEF LedgerInv
  <2>4. QED
    BY <2>2, <2>3
<1>9. CallInv(d) /\ TodoInv(d, t) /\ LeaveInv(d, ls)
  BY <1>3 DEF Base, CallInv, TodoInv, TodoOf, LeaveInv, LeaveOf
<1>10. QED
  BY <1>2, <1>7, <1>8, <1>9 DEF Base

-----------------------------------------------------------------------------
(* What the helpers of the signaling room and of the end of a call keep. *)
LEMMA RetiredKeeps ==
  ASSUME NEW c, NEW t, NEW ps, NEW ls, NEW r, NEW li, NEW r2 \in Rooms \cup {NoRoom},
         NEW li2 \in {NoRoom, r2}, Base(c, t, ps, ls, r, li)
  PROVE  Base(c, t, Settled(Retired(ps)), ls, r2, li2)
<1> DEFINE f == Retiring(ps, ps)
<1>1. ps \subseteq PostRec
  BY DEF Base, PostInv
<1>2. RetiringFields(ps, ps) /\ Settled((ps \ ps) \cup Retired(ps)) = Image(ps, f)
  BY <1>1, RetiringMaps
<1>3. (ps \ ps) \cup Retired(ps) = Retired(ps)
  OBVIOUS
<1>4. /\ Mapping(ps, f)
      /\ \A p \in ps : f[p].srv = "open" => p.srv = "open" /\ p.room = r2
      /\ \A p \in ps : f[p].ans => p.ans
  BY <1>2 DEF RetiringFields
<1> HIDE DEF f
<1>5. Base(c, t, Image(ps, f), ls, r2, li2)
  BY <1>4, PostsKeep
<1>6. QED
  BY <1>2, <1>3, <1>5

LEMMA MoveKeeps ==
  ASSUME NEW c, NEW t, NEW ls, NEW r \in Rooms \cup {NoRoom},
         Base(c, t, posts, ls, sig.room, listed), MoveTo(r)
  PROVE  Base(c, t, posts', ls, sig'.room, listed') /\ sig' \in SigRec
<1>1. sig'.room = r /\ listed' = NoRoom /\ posts' = Settled(Retired(posts)) /\ sig' \in SigRec
  BY DEF MoveTo, SigRec
<1>2. Base(c, t, Settled(Retired(posts)), ls, r, NoRoom)
  BY RetiredKeeps
<1>3. QED
  BY <1>1, <1>2

LEMMA StayKeeps ==
  ASSUME NEW c, NEW t, NEW ls, sig \in SigRec,
         Base(c, t, posts, ls, sig.room, listed), StayPut
  PROVE  Base(c, t, posts', ls, sig'.room, listed') /\ sig' \in SigRec
BY DEF StayPut

LEMMA RestoreKeeps ==
  ASSUME NEW c, NEW t, NEW ls, NEW r \in Rooms, sig \in SigRec,
         Base(c, t, posts, ls, sig.room, listed), RestoreRoom(r)
  PROVE  Base(c, t, posts', ls, sig'.room, listed') /\ sig' \in SigRec
BY MoveKeeps, StayKeeps DEF RestoreRoom

LEMMA EndKeeps ==
  ASSUME NEW c, NEW rest, NEW ps, NEW r, NEW li,
         Base(c, rest, ps, leaves, r, li),
         call' = [Reset(c, FALSE) EXCEPT !.phase = "Idle", !.room = NoRoom, !.remote = "none"],
         todo' = rest \cup PlanCheck(c), leaves' = leaves \cup PlanLeave(c)
  PROVE  Base(call', todo', ps, leaves', r, li)
<1> DEFINE d == [Reset(c, FALSE) EXCEPT !.phase = "Idle", !.room = NoRoom, !.remote = "none"]
<1>1. c \in CallRec
  BY DEF Base, CallInv
<1>2. /\ Reset(c, FALSE) \in CallRec /\ Reset(c, FALSE).gen = c.gen + 1
      /\ Reset(c, FALSE).posted = 0 /\ Reset(c, FALSE).flying = 0
  BY <1>1, ResetIsCall
<1>3. d \in CallRec
  BY <1>2 DEF CallRec, Phases
<1>4. CallInv(d) /\ Fresh(c, d)
  BY <1>2, <1>3 DEF CallInv, Fresh, CallRec
<1>5. call' = d /\ todo' = rest \cup PlanCheck(c) /\ leaves' = leaves \cup PlanLeave(c)
  OBVIOUS
<1>6. c.gen \in Nat /\ d.gen \in Nat /\ d.gen = c.gen + 1
  BY <1>1, <1>4 DEF CallRec, Fresh, CallInv
<1> HIDE DEF d
<1>7. Base(d, rest, ps, leaves, r, li)
  BY <1>4, FreshKeeps
<1>8. /\ PlanCheck(c) \subseteq TodoRec /\ IsFiniteSet(PlanCheck(c))
      /\ \A w \in PlanCheck(c) : TodoOf(d, w)
  <2>1. CASE PlanCheck(c) = {}
    BY <2>1, FS_EmptySet
  <2>2. CASE PlanCheck(c) = {Todo("check", c.gen, c.room)} /\ c.room # NoRoom
    <3>1. /\ Todo("check", c.gen, c.room) \in TodoRec
          /\ TodoOf(d, Todo("check", c.gen, c.room))
      BY <1>1, <1>6, <2>2 DEF Todo, TodoRec, TodoKinds, TodoOf, CallRec
    <3>2. QED
      BY <2>2, <3>1, FS_Singleton
  <2>3. QED
    BY <2>1, <2>2 DEF PlanCheck
<1>9. Base(d, rest \cup PlanCheck(c), ps, leaves, r, li)
  BY <1>7, <1>8, TodoKeeps
<1>10. /\ leaves \cup PlanLeave(c) \subseteq LeaveRec
       /\ \A l \in leaves \cup PlanLeave(c) : l \in leaves \/ LeaveOf(d, l)
  BY <1>1, <1>6, LimitsAssumption DEF PlanLeave, LeaveRec, LeaveOf, CallRec, Base, LeaveInv
<1>11. QED
  BY <1>5, <1>9, <1>10, LeavesKeep

LEMMA TeardownKeeps ==
  ASSUME NEW c, NEW g, NEW rest, NEW ps, NEW r, NEW li,
         Base(c, rest, ps, leaves, r, li), Teardown(c, g, rest)
  PROVE  Base(call', todo', ps, leaves', r, li)
BY EndKeeps DEF Teardown

LEMMA EnsureKeeps ==
  ASSUME NEW c, Base(c, todo, posts, leaves, sig.room, listed), sig \in SigRec,
         c.phase \in {"Outgoing", "Connecting"}, c.phase = "Outgoing" => c.outgoing,
         EnsureRoom(c)
  PROVE  Base(call', todo', posts', leaves, sig'.room, listed') /\ sig' \in SigRec
<1>1. CASE sig = [room |-> c.room, acked |-> TRUE]
  <2>1. /\ call' = Sent(c, 1) /\ posts' = posts \cup NewPosts(c, 1)
        /\ UNCHANGED <<todo, sig, listed>>
    BY <1>1 DEF EnsureRoom
  <2>2. Base(Sent(c, 1), todo, posts \cup NewPosts(c, 1), leaves, sig.room, listed)
    BY SentKeeps DEF NewPosts
  <2>3. QED
    BY <2>1, <2>2
<1>2. CASE sig # [room |-> c.room, acked |-> TRUE]
  <2> DEFINE w == Todo(IF c.outgoing THEN "waitOut" ELSE "waitIn", c.gen, c.room)
  <2>1. /\ call' = c /\ todo' = todo \cup {w}
        /\ (StayPut \/ MoveTo(c.room))
    BY <1>2 DEF EnsureRoom
  <2>2. w \in TodoRec /\ TodoOf(c, w)
    BY DEF Base, CallInv, CallRec, Todo, TodoRec, TodoKinds, TodoOf
  <2> HIDE DEF w
  <2>3. Base(c, todo \cup {w}, posts, leaves, sig.room, listed)
    <3>1. todo \subseteq todo /\ {w} \subseteq TodoRec /\ \A x \in {w} : TodoOf(c, x)
      BY <2>2
    <3>2. IsFiniteSet({w})
      BY FS_Singleton
    <3>3. QED
      BY <3>1, <3>2, TodoKeeps
  <2>4. c.room \in Rooms \cup {NoRoom}
    BY DEF Base, CallInv, CallRec
  <2>5. QED
    BY <2>1, <2>3, <2>4, StayKeeps, MoveKeeps
<1>3. QED
  BY <1>1, <1>2

-----------------------------------------------------------------------------
(* BaseInv of the next state, one lemma per handler. *)
BaseNext ==
  /\ Base(call', todo', posts', leaves', sig'.room, listed')
  /\ sig' \in SigRec /\ hpb' \subseteq Rooms /\ faults' \in 0 .. MaxFaults

LEMMA BaseNextIsInv == BaseNext => BaseInv'
BY DEF BaseNext, BaseInv

(* The call as it begins, before its room is seen to. *)
Beginning(d) ==
  /\ EnsureRoom(d) /\ CallInv(d) /\ Fresh(call, d) /\ ~d.confirmed
  /\ d.phase \in {"Outgoing", "Connecting"} /\ (d.phase = "Outgoing" => d.outgoing)
  /\ Base(d, todo, posts, leaves, sig.room, listed)

LEMMA StartBegins ==
  ASSUME BaseInv, NEW r \in Rooms, StartCall(r)
  PROVE  \E d : Beginning(d)
<1> DEFINE c == Reset(call, TRUE)
           d == [c EXCEPT !.phase = "Outgoing", !.room = r, !.attempts = 0]
<1>1. call \in CallRec
  BY DEF BaseInv, Base, CallInv
<1>2. c \in CallRec /\ Fresh(call, c) /\ c.outgoing = TRUE /\ c.confirmed = FALSE
  BY <1>1, ResetIsCall DEF Fresh
<1>3. EnsureRoom(d)
  BY DEF StartCall
<1> HIDE DEF c
<1>4. d \in CallRec
  BY <1>2 DEF CallRec, Phases
<1>5. CallInv(d) /\ Fresh(call, d) /\ d.phase = "Outgoing" /\ d.outgoing /\ ~d.confirmed
  BY <1>2, <1>4, RoomsAssumption DEF CallInv, CallRec, Fresh
<1> HIDE DEF d
<1>6. Base(d, todo, posts, leaves, sig.room, listed)
  BY <1>5, FreshKeeps DEF BaseInv
<1>7. QED
  BY <1>3, <1>5, <1>6 DEF Beginning

LEMMA AcceptBegins ==
  ASSUME BaseInv, AcceptCall
  PROVE  \E d : Beginning(d)
<1> DEFINE c == Reset(call, FALSE)
           m == IF c.remote = "grace" THEN "none" ELSE c.remote
           d == [c EXCEPT !.phase = "Connecting", !.attempts = 0, !.remote = m]
<1>1. call \in CallRec /\ call.room # NoRoom
  BY DEF BaseInv, Base, CallInv, AcceptCall
<1>2. c \in CallRec /\ Fresh(call, c) /\ c.room # NoRoom /\ c.confirmed = FALSE
  BY <1>1, ResetIsCall DEF Fresh
<1>3. EnsureRoom(d)
  BY DEF AcceptCall
<1> HIDE DEF c
<1>4. m \in {"none", "here", "grace"}
  BY <1>2 DEF CallRec
<1> HIDE DEF m
<1>5. d \in CallRec
  BY <1>2, <1>4 DEF CallRec, Phases
<1>6. CallInv(d) /\ Fresh(call, d) /\ d.phase = "Connecting" /\ ~d.confirmed
  BY <1>2, <1>5 DEF CallInv, CallRec, Fresh
<1> HIDE DEF d
<1>7. Base(d, todo, posts, leaves, sig.room, listed)
  BY <1>6, FreshKeeps DEF BaseInv
<1>8. QED
  BY <1>3, <1>6, <1>7 DEF Beginning

LEMMA BaseBegin ==
  ASSUME BaseInv, AcceptCall \/ \E r \in Rooms : StartCall(r)
  PROVE  BaseNext
<1>1. PICK d : Beginning(d)
  BY StartBegins, AcceptBegins
<1>2. Base(call', todo', posts', leaves, sig'.room, listed') /\ sig' \in SigRec
  BY <1>1, EnsureKeeps DEF BaseInv, Beginning
<1>3. UNCHANGED <<leaves, hpb, faults>>
  BY DEF StartCall, AcceptCall
<1>4. QED
  BY <1>2, <1>3 DEF BaseNext, BaseInv

LEMMA BaseRing ==
  ASSUME BaseInv, NEW r \in Rooms, NEW remote \in {"none", "here"}, Ring(r, remote)
  PROVE  BaseNext
<1> DEFINE d == [call EXCEPT !.phase = "Incoming", !.room = r, !.remote = remote]
<1>1. call \in CallRec /\ call.phase = "Idle" /\ call' = d
  BY DEF BaseInv, Base, CallInv, Ring
<1>2. d \in CallRec
  BY <1>1 DEF CallRec, Phases
<1>3. /\ CallInv(d) /\ d.gen = call.gen /\ d.posted = call.posted /\ d.flying = call.flying
      /\ d.phase = "Incoming"
  BY <1>1, <1>2, RoomsAssumption DEF CallInv, CallRec
<1> HIDE DEF d
<1>4. TodoInv(d, todo) /\ LeaveInv(d, leaves)
  BY <1>1, <1>3 DEF BaseInv, Base, TodoInv, TodoOf, LeaveInv, LeaveOf
<1>5. PostInv(d, posts, sig.room)
  BY <1>1, <1>3 DEF BaseInv, Base, PostInv, PostOf, Alone
<1>6. Pending(d, posts) = Pending(call, posts)
  BY <1>3 DEF Pending
<1>7. LedgerInv(d, posts)
  BY <1>3, <1>6 DEF BaseInv, Base, LedgerInv
<1>8. QED
  BY <1>1, <1>3, <1>4, <1>5, <1>7 DEF BaseNext, BaseInv, Base, Ring

(* The handlers that only move the phase and the peer's flag. *)
LEMMA BaseSame ==
  ASSUME BaseInv, NEW d \in CallRec, Same(call, d), call' = d,
         UNCHANGED <<todo, posts, leaves, sig, listed, hpb, faults>>
  PROVE  BaseNext
<1>1. Base(d, todo, posts, leaves, sig.room, listed)
  BY SameKeeps DEF BaseInv
<1>2. QED
  BY <1>1 DEF BaseNext, BaseInv

LEMMA BasePeer ==
  ASSUME BaseInv, PeerJoins \/ PeerReturns \/ MediaUp \/ MediaDown
  PROVE  BaseNext
<1>1. call \in CallRec
  BY DEF BaseInv, Base, CallInv
<1>2. CASE PeerJoins
  <2> DEFINE d == [call EXCEPT !.remote = "here", !.phase = "Connecting"]
  <2>1. d \in CallRec
    BY <1>1 DEF CallRec, Phases
  <2>2. Same(call, d)
    BY <1>1, <1>2 DEF CallRec, Same, PeerJoins
  <2>3. QED
    BY <1>2, <2>1, <2>2, BaseSame DEF PeerJoins
<1>3. CASE PeerReturns
  <2>1. PICK recovering \in BOOLEAN :
          call' = [call EXCEPT !.remote = "here",
                     !.phase = IF @ = "Reconnecting" /\ ~recovering THEN "Active" ELSE @]
    BY <1>3 DEF PeerReturns
  <2> DEFINE q == IF call.phase = "Reconnecting" /\ ~recovering THEN "Active" ELSE call.phase
             d == [call EXCEPT !.remote = "here", !.phase = q]
  <2>2. q \in Phases /\ call' = d
    BY <1>1, <2>1 DEF CallRec, Phases
  <2>3. q = call.phase \/ (call.phase = "Reconnecting" /\ q = "Active")
    OBVIOUS
  <2> HIDE DEF q
  <2>4. d \in CallRec
    BY <1>1, <2>2 DEF CallRec
  <2>5. Same(call, d)
    BY <1>1, <2>3, <2>4 DEF CallRec, Same
  <2>6. QED
    BY <1>3, <2>2, <2>4, <2>5, BaseSame DEF PeerReturns
<1>4. CASE MediaUp
  <2> DEFINE d == [call EXCEPT !.phase = "Active"]
  <2>1. d \in CallRec
    BY <1>1 DEF CallRec, Phases
  <2>2. Same(call, d)
    BY <1>1, <1>4 DEF CallRec, Same, MediaUp
  <2>3. QED
    BY <1>4, <2>1, <2>2, BaseSame DEF MediaUp
<1>5. CASE MediaDown
  <2> DEFINE d == [call EXCEPT !.phase = "Reconnecting"]
  <2>1. d \in CallRec
    BY <1>1 DEF CallRec, Phases
  <2>2. Same(call, d)
    BY <1>1, <1>5 DEF CallRec, Same, MediaDown
  <2>3. QED
    BY <1>5, <2>1, <2>2, BaseSame DEF MediaDown
<1>6. QED
  BY <1>2, <1>3, <1>4, <1>5

LEMMA BaseDecline ==
  ASSUME BaseInv, DeclineCall
  PROVE  BaseNext
<1> DEFINE d == [call EXCEPT !.phase = "Ending"]
           w == Todo("declined", call.gen, call.room)
<1>1. /\ call \in CallRec /\ call.phase = "Incoming" /\ call.room # NoRoom
      /\ call' = d /\ todo' = todo \cup {w}
  BY DEF BaseInv, Base, CallInv, DeclineCall
<1>2. d \in CallRec
  BY <1>1 DEF CallRec, Phases
<1>3. Same(call, d) /\ d.phase = "Ending" /\ d.gen = call.gen
  BY <1>1, <1>2 DEF CallRec, Same
<1> HIDE DEF d
<1>4. Base(d, todo, posts, leaves, sig.room, listed)
  BY <1>2, <1>3, SameKeeps DEF BaseInv
<1>5. w \in TodoRec /\ TodoOf(d, w)
  BY <1>1, <1>3 DEF CallRec, Todo, TodoRec, TodoKinds, TodoOf, Same
<1> HIDE DEF w
<1>6. todo \subseteq todo /\ {w} \subseteq TodoRec /\ \A x \in {w} : TodoOf(d, x)
  BY <1>5
<1>7. Base(d, todo \cup {w}, posts, leaves, sig.room, listed)
  BY <1>4, <1>6, TodoKeeps, FS_Singleton
<1>8. leaves' \subseteq LeaveRec /\ \A l \in leaves' : l \in leaves \/ LeaveOf(d, l)
  BY <1>1, <1>3 DEF CallRec, LeaveRec, LeaveOf, BaseInv, Base, LeaveInv, DeclineCall
<1>9. Base(d, todo \cup {w}, posts, leaves', sig.room, listed)
  BY <1>7, <1>8, LeavesKeep
<1>10. QED
  BY <1>1, <1>9 DEF BaseNext, BaseInv, DeclineCall

LEMMA BaseEnd ==
  ASSUME BaseInv, EndCall
  PROVE  BaseNext
<1>1. Base(call', todo', posts, leaves', sig.room, listed)
  BY TeardownKeeps DEF BaseInv, EndCall
<1>2. QED
  BY <1>1 DEF BaseNext, BaseInv, EndCall

LEMMA BasePeerLeaves ==
  ASSUME BaseInv, PeerLeaves
  PROVE  BaseNext
<1>1. call \in CallRec
  BY DEF BaseInv, Base, CallInv
<1>2. CASE call.room \in Pairs
  <2> DEFINE q == IF call.phase \in {"Active", "Connecting"} THEN "Reconnecting" ELSE call.phase
             d == [call EXCEPT !.remote = "grace", !.phase = q]
  <2>1. q \in Phases /\ call' = d
    BY <1>1, <1>2 DEF CallRec, Phases, PeerLeaves
  <2>2. q = call.phase \/ (call.phase \in {"Active", "Connecting"} /\ q = "Reconnecting")
    OBVIOUS
  <2> HIDE DEF q
  <2>3. d \in CallRec
    BY <1>1, <2>1 DEF CallRec
  <2>4. Same(call, d)
    BY <1>1, <2>2, <2>3 DEF CallRec, Same
  <2>5. QED
    BY <1>2, <2>1, <2>3, <2>4, BaseSame DEF PeerLeaves
<1>3. CASE call.room \notin Pairs
  <2>1. Base(call', todo', posts, leaves', sig.room, listed)
    BY <1>3, TeardownKeeps DEF BaseInv, PeerLeaves
  <2>2. QED
    BY <2>1 DEF BaseNext, BaseInv, PeerLeaves
<1>4. QED
  BY <1>2, <1>3

-----------------------------------------------------------------------------
LEMMA DropTodo ==
  ASSUME NEW c, NEW t, NEW ps, NEW ls, NEW r, NEW li, NEW x,
         Base(c, t, ps, ls, r, li), x \subseteq t
  PROVE  Base(c, x, ps, ls, r, li)
<1>1. /\ {} \subseteq TodoRec /\ IsFiniteSet({}) /\ \A w \in {} : TodoOf(c, w)
      /\ x \cup {} = x
  BY FS_EmptySet
<1>2. Base(c, x \cup {}, ps, ls, r, li)
  BY <1>1, TodoKeeps
<1>3. QED
  BY <1>1, <1>2

(* A continuation that serves the call c, or takes over from one that did. *)
Serves(c, g, rm) == /\ g \in Nat /\ rm \in Rooms /\ g <= c.gen
                    /\ g = c.gen => c.phase # "Idle" /\ rm = c.room

LEMMA AddTodo ==
  ASSUME NEW c, NEW t, NEW ps, NEW ls, NEW r, NEW li, NEW x, NEW g, NEW rm,
         NEW kind \in {"list", "leaving", "rejoining", "ask", "verify", "repost"},
         Base(c, t, ps, ls, r, li), x \subseteq t, Serves(c, g, rm)
  PROVE  Base(c, x \cup {Todo(kind, g, rm)}, ps, ls, r, li)
<1> DEFINE w == Todo(kind, g, rm)
<1>1. w \in TodoRec /\ TodoOf(c, w)
  BY DEF Todo, TodoRec, TodoKinds, TodoOf, Serves
<1> HIDE DEF w
<1>2. {w} \subseteq TodoRec /\ IsFiniteSet({w}) /\ \A y \in {w} : TodoOf(c, y)
  BY <1>1, FS_Singleton
<1>3. Base(c, x \cup {w}, ps, ls, r, li)
  BY <1>2, TodoKeeps
<1>4. QED
  BY <1>3 DEF w

LEMMA OwnServes ==
  ASSUME NEW c, NEW t, NEW ps, NEW ls, NEW r, NEW li, Base(c, t, ps, ls, r, li)
  PROVE  /\ c.phase # "Idle" => Serves(c, c.gen, c.room)
         /\ \A w \in t : Serves(c, w.gen, w.room)
BY DEF Base, CallInv, CallRec, TodoInv, TodoRec, TodoOf, Serves

LEMMA BaseReset ==
  ASSUME BaseInv, SessionReset
  PROVE  BaseNext
<1>1. /\ call \in CallRec /\ sig \in SigRec /\ sig.room \in Rooms \cup {NoRoom}
      /\ sig' \in SigRec /\ sig'.room = sig.room /\ listed' = NoRoom
      /\ faults' \in 0 .. MaxFaults /\ UNCHANGED <<todo, leaves, hpb>>
  <2>1. sig \in SigRec /\ call \in CallRec
    BY DEF BaseInv, Base, CallInv
  <2>2. [sig EXCEPT !.acked = FALSE] \in SigRec
    BY <2>1 DEF SigRec
  <2>3. sig' = [sig EXCEPT !.acked = FALSE] /\ listed' = NoRoom
        /\ UNCHANGED <<todo, leaves, hpb>> /\ faults < MaxFaults /\ faults' = faults + 1
    BY DEF SessionReset
  <2>4. faults' \in 0 .. MaxFaults
    BY <2>3, LimitsAssumption DEF BaseInv
  <2>5. QED
    BY <2>1, <2>2, <2>3, <2>4 DEF SigRec
<1>2. Base(call, todo, Settled(Retired(posts)), leaves, sig.room, NoRoom)
  BY <1>1, RetiredKeeps DEF BaseInv
<1>3. CASE call.phase \in RegisterPhases
  <2> DEFINE c == Sent(call, 1)
             ps == Settled(Retired(posts)) \cup {NewPost(call, call.posted + i, TRUE) : i \in 1 .. 1}
             d == [c EXCEPT !.phase = "Reconnecting"]
  <2>1. Base(c, todo, ps, leaves, sig.room, NoRoom)
    BY <1>2, <1>3, SentKeeps DEF RegisterPhases
  <2>2. {NewPost(call, call.posted + i, TRUE) : i \in 1 .. 1} = {NewPost(call, call.posted + 1, TRUE)}
    OBVIOUS
  <2>3. call' = d /\ posts' = ps
    BY <1>3, <2>2 DEF SessionReset
  <2>4. c \in CallRec /\ c.phase = call.phase
    BY <1>1, SentIsCall
  <2> HIDE DEF c, ps
  <2>5. d \in CallRec
    BY <2>4 DEF CallRec, Phases
  <2>6. Same(c, d)
    BY <1>3, <2>4, <2>5 DEF CallRec, Same, RegisterPhases
  <2> HIDE DEF d
  <2>7. Base(d, todo, ps, leaves, sig.room, NoRoom)
    BY <2>1, <2>5, <2>6, SameKeeps
  <2>8. QED
    BY <1>1, <2>3, <2>7 DEF BaseNext, BaseInv
<1>4. CASE call.phase \notin RegisterPhases
  BY <1>1, <1>2, <1>4 DEF BaseNext, BaseInv, SessionReset
<1>5. QED
  BY <1>3, <1>4

LEMMA BaseRoomAcked ==
  ASSUME BaseInv, RoomAcked
  PROVE  BaseNext
<1> DEFINE F == {w \in Listeners : Fires(w)}
           n == Cardinality(F)
<1>1. n \in Nat
  <2>1. F \in SUBSET todo /\ IsFiniteSet(todo)
    BY DEF Listeners, BaseInv, Base, TodoInv
  <2>2. QED
    BY <2>1, FS_Subset, FS_CardinalityType
<1>2. /\ call' = Sent(call, n) /\ posts' = posts \cup NewPosts(call, n)
      /\ todo' = todo \ Listeners
      /\ sig' = [sig EXCEPT !.acked = TRUE] /\ UNCHANGED <<leaves, listed, hpb, faults>>
  BY DEF RoomAcked
<1>3. call.phase = "Idle" => n = 0
  <2>1. call.phase = "Idle" => F = {}
    BY DEF Fires, StillWanted, IsStillJoining
  <2>2. QED
    BY <2>1, FS_EmptySet
<1> HIDE DEF n, F
<1>4. sig \in SigRec /\ call \in CallRec
  BY DEF BaseInv, Base, CallInv
<1>5. sig' \in SigRec /\ sig'.room = sig.room
  <2>1. [sig EXCEPT !.acked = TRUE] \in SigRec
    BY <1>4 DEF SigRec
  <2>2. QED
    BY <1>2, <1>4, <2>1 DEF SigRec
<1>6. Base(call', todo, posts', leaves, sig.room, listed)
  <2>1. CASE call.phase # "Idle"
    BY <1>1, <1>2, <2>1, SentKeeps DEF NewPosts, BaseInv
  <2>2. CASE call.phase = "Idle"
    <3>1. n = 0 /\ NewPosts(call, n) = {}
      <4>1. n = 0 /\ 1 .. 0 = {}
        BY <1>3, <2>2
      <4>2. NewPosts(call, 0) = {}
        BY <4>1 DEF NewPosts
      <4>3. QED
        BY <4>1, <4>2
    <3>2. /\ call' \in CallRec /\ call'.posted = call.posted + n
          /\ call'.flying = call.flying + n /\ call'.gen = call.gen
          /\ call'.phase = call.phase /\ call'.room = call.room
          /\ call'.unresolved = call.unresolved
      BY <1>1, <1>2, <1>4, SentIsCall
    <3>3. call.posted \in Nat /\ call.flying \in Nat
      BY <1>4 DEF CallRec
    <3>4. Same(call, call')
      BY <3>1, <3>2, <3>3 DEF Same
    <3>5. posts' = posts
      BY <1>2, <3>1
    <3>6. QED
      BY <3>2, <3>4, <3>5, SameKeeps DEF BaseInv
  <2>3. QED
    BY <2>1, <2>2
<1>7. Base(call', todo \ Listeners, posts', leaves, sig.room, listed)
  BY <1>6, DropTodo
<1>8. QED
  BY <1>2, <1>5, <1>7 DEF BaseNext, BaseInv

LEMMA BaseWaitTimeout ==
  ASSUME BaseInv, NEW w, WaitTimeout(w)
  PROVE  BaseNext
<1>1. Base(call, todo \ {w}, posts, leaves, sig.room, listed)
  BY DropTodo DEF BaseInv
<1>2. QED
  BY <1>1 DEF BaseNext, BaseInv, WaitTimeout

LEMMA BaseRejoinListed ==
  ASSUME BaseInv, NEW w \in todo, RejoinListed(w)
  PROVE  BaseNext
<1>1. sig \in SigRec /\ call \in CallRec /\ Serves(call, w.gen, w.room)
  BY OwnServes DEF BaseInv, Base, CallInv
<1>2. CASE StillWanted(w.gen)
  <2>1. /\ todo' = (todo \ {w}) \cup {Todo("leaving", w.gen, w.room)}
        /\ sig' = [sig EXCEPT !.acked = FALSE] /\ listed' = NoRoom
        /\ posts' = Settled(Retired(posts)) /\ UNCHANGED <<call, leaves, hpb, faults>>
    BY <1>2 DEF RejoinListed
  <2>2. [sig EXCEPT !.acked = FALSE] \in SigRec
    BY <1>1 DEF SigRec
  <2>3. sig' \in SigRec /\ sig'.room = sig.room /\ sig.room \in Rooms \cup {NoRoom}
    BY <1>1, <2>1, <2>2 DEF SigRec
  <2>4. Base(call, todo', posts, leaves, sig.room, listed)
    BY <1>1, <2>1, AddTodo DEF BaseInv
  <2>5. Base(call, todo', posts', leaves, sig.room, NoRoom)
    BY <2>1, <2>3, <2>4, RetiredKeeps
  <2>6. QED
    BY <2>1, <2>3, <2>5 DEF BaseNext, BaseInv
<1>3. CASE ~StillWanted(w.gen)
  <2>1. todo' = todo \ {w} /\ StayPut /\ UNCHANGED <<call, leaves, hpb, faults>>
    BY <1>3 DEF RejoinListed
  <2>2. Base(call, todo \ {w}, posts, leaves, sig.room, listed)
    BY DropTodo DEF BaseInv
  <2>3. QED
    BY <2>1, <2>2 DEF BaseNext, BaseInv, StayPut
<1>4. QED
  BY <1>2, <1>3

LEMMA BaseRejoinProceeds ==
  ASSUME BaseInv, NEW w \in todo, RejoinProceeds(w)
  PROVE  BaseNext
<1>1. sig \in SigRec /\ call \in CallRec /\ Serves(call, w.gen, w.room) /\ w.room \in Rooms
  BY OwnServes DEF BaseInv, Base, CallInv, Serves
<1>2. CASE StillWanted(w.gen)
  <2>1. /\ todo' = (todo \ {w}) \cup {Todo("rejoining", w.gen, w.room)}
        /\ MoveTo(w.room) /\ UNCHANGED <<call, leaves, hpb, faults>>
    BY <1>2 DEF RejoinProceeds
  <2>2. Base(call, todo', posts, leaves, sig.room, listed)
    BY <1>1, <2>1, AddTodo DEF BaseInv
  <2>3. Base(call, todo', posts', leaves, sig'.room, listed') /\ sig' \in SigRec
    BY <1>1, <2>1, <2>2, MoveKeeps
  <2>4. QED
    BY <2>1, <2>3 DEF BaseNext, BaseInv
<1>3. CASE ~StillWanted(w.gen)
  <2>1. todo' = todo \ {w} /\ RestoreRoom(w.room) /\ UNCHANGED <<call, leaves, hpb, faults>>
    BY <1>3 DEF RejoinProceeds
  <2>2. Base(call, todo', posts, leaves, sig.room, listed)
    BY <2>1, DropTodo DEF BaseInv
  <2>3. Base(call, todo', posts', leaves, sig'.room, listed') /\ sig' \in SigRec
    BY <1>1, <2>1, <2>2, RestoreKeeps
  <2>4. QED
    BY <2>1, <2>3 DEF BaseNext, BaseInv
<1>4. QED
  BY <1>2, <1>3

LEMMA AttemptsAreOwn ==
  ASSUME NEW c, NEW t, NEW ps, NEW ls, NEW r, NEW li, NEW n \in Nat,
         Base(c, t, ps, ls, r, li)
  PROVE  Base([c EXCEPT !.attempts = n], t, ps, ls, r, li)
<1> DEFINE d == [c EXCEPT !.attempts = n]
<1>1. c \in CallRec
  BY DEF Base, CallInv
<1>2. d \in CallRec
  BY <1>1 DEF CallRec
<1>3. Same(c, d)
  BY <1>1 DEF CallRec, Same
<1>4. QED
  BY <1>2, <1>3, SameKeeps

LEMMA BaseRejoinFails ==
  ASSUME BaseInv, NEW w \in todo, RejoinFails(w)
  PROVE  BaseNext
<1>1. sig \in SigRec /\ w.room \in Rooms
  BY OwnServes DEF BaseInv, Serves
<1>2. StayPut \/ RestoreRoom(w.room)
  BY DEF RejoinFails
<1>3. faults' \in 0 .. MaxFaults /\ UNCHANGED hpb
  BY LimitsAssumption DEF RejoinFails, BaseInv
<1>4. Base(call, todo, posts', leaves, sig'.room, listed') /\ sig' \in SigRec
  BY <1>1, <1>2, StayKeeps, RestoreKeeps DEF BaseInv
<1>5. Base(call, todo \ {w}, posts', leaves, sig'.room, listed')
  BY <1>4, DropTodo
<1>6. CASE StillWanted(w.gen)
  <2> DEFINE c == [call EXCEPT !.attempts = 0]
  <2>1. Base(c, todo \ {w}, posts', leaves, sig'.room, listed')
    BY <1>5, AttemptsAreOwn
  <2>2. Teardown(c, w.gen, todo \ {w})
    BY <1>6 DEF RejoinFails
  <2> HIDE DEF c
  <2>3. Base(call', todo', posts', leaves', sig'.room, listed')
    BY <2>1, <2>2, TeardownKeeps
  <2>4. QED
    BY <1>3, <1>4, <2>3 DEF BaseNext, BaseInv
<1>7. CASE ~StillWanted(w.gen)
  BY <1>3, <1>4, <1>5, <1>7 DEF BaseNext, BaseInv, RejoinFails
<1>8. QED
  BY <1>6, <1>7

LEMMA BaseJoinFailed ==
  ASSUME NEW p, NEW c, NEW status, NEW ps, NEW r, NEW li,
         Base(c, todo, ps, leaves, r, li), c.phase # "Idle", JoinFailed(p, c, status)
  PROVE  Base(call', todo', ps, leaves', r, li)
<1>1. c \in CallRec /\ Serves(c, c.gen, c.room) /\ todo \subseteq todo
  BY OwnServes DEF Base, CallInv
<1>2. CASE call' = c /\ UNCHANGED <<todo, leaves>>
  BY <1>2
<1>3. CASE call' = c /\ todo' = todo \cup {Todo("verify", c.gen, c.room)} /\ UNCHANGED leaves
  BY <1>1, <1>3, AddTodo
<1>4. CASE Ask(c)
  <2> DEFINE n == c.attempts + 1
             d == [c EXCEPT !.attempts = n]
  <2>1. n \in Nat
    BY <1>1 DEF CallRec
  <2>2. call' = d /\ todo' = todo \cup {Todo("ask", c.gen, c.room)} /\ UNCHANGED leaves
    BY <1>4 DEF Ask
  <2>3. Base(c, todo \cup {Todo("ask", c.gen, c.room)}, ps, leaves, r, li)
    BY <1>1, AddTodo
  <2> HIDE DEF n
  <2>4. Base(d, todo \cup {Todo("ask", c.gen, c.room)}, ps, leaves, r, li)
    BY <2>1, <2>3, AttemptsAreOwn
  <2>5. QED
    BY <2>2, <2>4
<1>5. CASE /\ call' = [c EXCEPT !.rejoins = @ + 1]
           /\ todo' = todo \cup {Todo("list", c.gen, c.room)} /\ UNCHANGED leaves
  <2> DEFINE n == c.rejoins + 1
             d == [c EXCEPT !.rejoins = n]
  <2>1. n \in Nat
    BY <1>1 DEF CallRec
  <2>2. call' = d
    BY <1>5
  <2>3. Base(c, todo \cup {Todo("list", c.gen, c.room)}, ps, leaves, r, li)
    BY <1>1, AddTodo
  <2> HIDE DEF n
  <2>4. d \in CallRec
    BY <1>1, <2>1 DEF CallRec
  <2>5. Same(c, d)
    BY <1>1 DEF CallRec, Same
  <2>6. Base(d, todo \cup {Todo("list", c.gen, c.room)}, ps, leaves, r, li)
    BY <2>3, <2>4, <2>5, SameKeeps
  <2>7. QED
    BY <1>5, <2>2, <2>6
<1>6. CASE Teardown([c EXCEPT !.attempts = 0], p.gen, todo)
  <2> DEFINE d == [c EXCEPT !.attempts = 0]
  <2>1. Base(d, todo, ps, leaves, r, li)
    BY AttemptsAreOwn
  <2> HIDE DEF d
  <2>2. QED
    BY <1>6, <2>1, TeardownKeeps DEF d
<1>7. QED
  BY <1>2, <1>3, <1>4, <1>5, <1>6 DEF JoinFailed

LEMMA ConfirmedKeeps ==
  ASSUME NEW c, NEW t, NEW ps, NEW ls, NEW r, NEW li, Base(c, t, ps, ls, r, li)
  PROVE  Base(Confirmed(c), t, ps, ls, r, li)
<1>1. c \in CallRec
  BY DEF Base, CallInv
<1>2. Confirmed(c) \in CallRec /\ Same(c, Confirmed(c))
  BY <1>1, ConfirmedIsCall DEF Same
<1>3. QED
  BY <1>2, SameKeeps

LEMMA AnsweredFrame ==
  ASSUME NEW p, NEW status, Answered(p, status)
  PROVE  /\ p \in posts /\ ~p.ans /\ posts' = AnsweredPosts(p, status)
         /\ UNCHANGED <<sig, listed, hpb>>
         /\ p.gen # call.gen => LateReply(p, status)
         /\ p.gen = call.gen => OwnReply(p, status)
         /\ status = "ok" => p.srv = "in"
         /\ status \in {"ok", "transient", "notFound", "refused"}
         /\ status \in {"refused", "notFound"} => p.srv # "in"
         /\ faults' = faults \/ (faults < MaxFaults /\ faults' = faults + 1)
BY DEF Answered, AnsweredPosts, AnsweredOne, Late

LEMMA BaseAnswered ==
  ASSUME BaseInv, NEW p, NEW status, Answered(p, status)
  PROVE  BaseNext
<1> DEFINE ps == AnsweredPosts(p, status)
<1>1. /\ p \in posts /\ ~p.ans /\ posts' = ps
      /\ UNCHANGED <<sig, listed, hpb>>
      /\ p.gen # call.gen => LateReply(p, status)
      /\ p.gen = call.gen => OwnReply(p, status)
      /\ status = "ok" => p.srv = "in"
      /\ status \in {"ok", "transient", "notFound", "refused"}
      /\ faults' = faults \/ (faults < MaxFaults /\ faults' = faults + 1)
  BY AnsweredFrame
<1>2. faults' \in 0 .. MaxFaults
  BY <1>1, LimitsAssumption DEF BaseInv
<1>3. p \in PostRec /\ PostOf(call, p, sig.room)
  BY <1>1 DEF BaseInv, Base, PostInv
<1> HIDE DEF ps
<1>4. CASE p.gen # call.gen
  <2>1. Base(call, todo, ps, leaves, sig.room, listed)
    BY <1>1, <1>4, AnswerKeeps DEF BaseInv, ps
  <2>2. UNCHANGED <<call, todo>> /\
        (UNCHANGED leaves \/ leaves' = leaves \cup {[gen |-> p.gen, room |-> p.room,
                                                     why |-> "late", left |-> 1]})
    BY <1>1, <1>4 DEF LateReply
  <2>3. leaves' \subseteq LeaveRec /\ \A l \in leaves' : l \in leaves \/ LeaveOf(call, l)
    BY <1>3, <1>4, <2>2 DEF BaseInv, Base, LeaveInv, LeaveRec, LeaveOf, PostRec, PostOf
  <2>4. Base(call, todo, ps, leaves', sig.room, listed)
    BY <2>1, <2>3, LeavesKeep
  <2>5. QED
    BY <1>1, <1>2, <2>2, <2>4 DEF BaseNext, BaseInv
<1>5. CASE p.gen = call.gen
  <2> DEFINE c == Noted(call, status)
  <2>1. Base(c, todo, ps, leaves, sig.room, listed)
    BY <1>1, <1>5, AnswerKeeps DEF BaseInv, ps
  <2>2. call \in CallRec /\ call.phase # "Idle" /\ c.phase = call.phase
    BY <1>3, <1>5, NotedIsCall DEF PostOf, BaseInv, Base, CallInv
  <2>3. \/ call' = Confirmed(c) /\ UNCHANGED <<todo, leaves>>
        \/ call' = c /\ UNCHANGED <<todo, leaves>>
        \/ JoinFailed(p, c, status)
    BY <1>1, <1>5 DEF OwnReply
  <2> HIDE DEF c
  <2>4. Base(call', todo', ps, leaves', sig.room, listed)
    BY <2>1, <2>2, <2>3, ConfirmedKeeps, BaseJoinFailed
  <2>5. QED
    BY <1>1, <1>2, <2>4 DEF BaseNext, BaseInv
<1>6. QED
  BY <1>4, <1>5

LEMMA BaseReconciled ==
  ASSUME BaseInv, NEW w \in todo, NEW ok, NEW others, NEW known,
         Reconciled(w, ok, others, known)
  PROVE  BaseNext
<1>1. /\ UNCHANGED <<posts, sig, listed, hpb>>
      /\ faults' = faults \/ (faults < MaxFaults /\ faults' = faults + 1)
      /\ \/ call' = call /\ todo' = todo \ {w} /\ UNCHANGED leaves
         \/ call' = Confirmed(call) /\ todo' = todo \ {w} /\ UNCHANGED leaves
         \/ Teardown(call, w.gen, todo \ {w})
         \/ /\ call' = call /\ todo' = (todo \ {w}) \cup {Todo("repost", w.gen, w.room)}
            /\ UNCHANGED leaves
  BY DEF Reconciled
<1>2. faults' \in 0 .. MaxFaults
  BY <1>1, LimitsAssumption DEF BaseInv
<1>3. Base(call, todo \ {w}, posts, leaves, sig.room, listed)
  BY DropTodo DEF BaseInv
<1>4. Serves(call, w.gen, w.room)
  BY OwnServes DEF BaseInv
<1>5. Base(call, (todo \ {w}) \cup {Todo("repost", w.gen, w.room)}, posts, leaves,
           sig.room, listed)
  BY <1>4, AddTodo DEF BaseInv
<1>6. Base(call', todo', posts, leaves', sig.room, listed)
  BY <1>1, <1>3, <1>5, ConfirmedKeeps, TeardownKeeps
<1>7. QED
  BY <1>1, <1>2, <1>6 DEF BaseNext, BaseInv

LEMMA BaseVerified ==
  ASSUME BaseInv, NEW w \in todo, NEW ok, Verified(w, ok)
  PROVE  BaseNext
<1> DEFINE c == [call EXCEPT !.attempts = 0]
<1>1. /\ UNCHANGED <<posts, sig, listed, hpb>>
      /\ faults' = faults \/ (faults < MaxFaults /\ faults' = faults + 1)
      /\ \/ call' = call /\ todo' = todo \ {w} /\ UNCHANGED leaves
         \/ Teardown(c, w.gen, todo \ {w})
  BY DEF Verified
<1>2. faults' \in 0 .. MaxFaults
  BY <1>1, LimitsAssumption DEF BaseInv
<1>3. Base(call, todo \ {w}, posts, leaves, sig.room, listed)
  BY DropTodo DEF BaseInv
<1>4. Base(c, todo \ {w}, posts, leaves, sig.room, listed)
  BY <1>3, AttemptsAreOwn
<1> HIDE DEF c
<1>5. Base(call', todo', posts, leaves', sig.room, listed)
  BY <1>1, <1>3, <1>4, TeardownKeeps
<1>6. QED
  BY <1>1, <1>2, <1>5 DEF BaseNext, BaseInv

LEMMA BaseRepost ==
  ASSUME BaseInv, NEW w \in todo, Repost(w)
  PROVE  BaseNext
<1>1. /\ todo' = todo \ {w} /\ UNCHANGED <<leaves, sig, listed, hpb, faults>>
      /\ \/ UNCHANGED <<call, posts>>
         \/ /\ IsStillJoining(call)
            /\ call' = Sent(call, 1) /\ posts' = posts \cup NewPosts(call, 1)
  BY DEF Repost
<1>2. Base(call, todo \ {w}, posts, leaves, sig.room, listed)
  BY DropTodo DEF BaseInv
<1>3. Base(call', todo', posts', leaves, sig.room, listed)
  <2>1. CASE UNCHANGED <<call, posts>>
    BY <1>1, <1>2, <2>1
  <2>2. CASE IsStillJoining(call) /\ call' = Sent(call, 1) /\ posts' = posts \cup NewPosts(call, 1)
    BY <1>1, <1>2, <2>2, SentKeeps DEF NewPosts, IsStillJoining
  <2>3. QED
    BY <1>1, <2>1, <2>2
<1>4. QED
  BY <1>1, <1>3 DEF BaseNext, BaseInv

LEMMA BaseChecked ==
  ASSUME BaseInv, NEW w \in todo, NEW ok, Checked(w, ok)
  PROVE  BaseNext
<1> DEFINE l == [gen |-> w.gen, room |-> w.room, why |-> "check", left |-> MaxLeaves]
<1>1. /\ UNCHANGED <<call, posts, sig, listed, hpb>> /\ todo' = todo \ {w}
      /\ faults' = faults \/ (faults < MaxFaults /\ faults' = faults + 1)
      /\ w.kind = "check" /\ (leaves' = leaves \/ leaves' = leaves \cup {l})
  BY DEF Checked
<1>2. faults' \in 0 .. MaxFaults
  BY <1>1, LimitsAssumption DEF BaseInv
<1>3. Base(call, todo \ {w}, posts, leaves, sig.room, listed)
  BY DropTodo DEF BaseInv
<1>4. w \in TodoRec /\ TodoOf(call, w)
  BY DEF BaseInv, Base, TodoInv
<1>5. l \in LeaveRec /\ LeaveOf(call, l)
  BY <1>1, <1>4, LimitsAssumption DEF TodoRec, TodoOf, LeaveRec, LeaveOf
<1> HIDE DEF l
<1>6. leaves' \subseteq LeaveRec /\ \A x \in leaves' : x \in leaves \/ LeaveOf(call, x)
  BY <1>1, <1>5 DEF BaseInv, Base, LeaveInv
<1>7. Base(call, todo \ {w}, posts, leaves', sig.room, listed)
  BY <1>3, <1>6, LeavesKeep
<1>8. QED
  BY <1>1, <1>2, <1>7 DEF BaseNext, BaseInv

LEMMA DeclinedPosts ==
  ASSUME BaseInv, NEW w \in todo, DeclineAnswered(w)
  PROVE  /\ Base(call, todo \ {w}, posts', leaves, sig.room, listed')
         /\ \A q \in posts' : q.srv = "open"
              => \E p \in posts : p.srv = "open" /\ p.gen = q.gen /\ p.room = q.room
<1> DEFINE S == {p \in posts : p.room = w.room}
           f == Retiring(posts, S)
<1>1. posts \subseteq PostRec /\ listed \in {NoRoom, sig.room}
  BY DEF BaseInv, Base, PostInv
<1>2. RetiringFields(posts, S) /\ Settled((posts \ S) \cup Retired(S)) = Image(posts, f)
  <2>1. S \subseteq posts
    OBVIOUS
  <2> HIDE DEF S
  <2>2. QED
    BY <1>1, <2>1, RetiringMaps
<1>3. /\ Mapping(posts, f)
      /\ \A p \in posts : f[p].srv = "open" => p.srv = "open"
      /\ \A p \in posts : f[p].ans => p.ans
  BY <1>2 DEF RetiringFields
<1>4. posts \ S = {p \in posts : p.room # w.room}
  OBVIOUS
<1>5. posts' = Image(posts, f)
  BY <1>2, <1>4 DEF DeclineAnswered
<1>6. listed' \in {NoRoom, sig.room}
  BY <1>1 DEF DeclineAnswered
<1> HIDE DEF f, S
<1>7. /\ sig.room \in Rooms \cup {NoRoom} /\ \A p \in posts : PostOf(call, p, sig.room)
  BY DEF BaseInv, Base, PostInv
<1>8. \A p \in posts : f[p].srv = "open" => p.srv = "open" /\ p.room = sig.room
  BY <1>3, <1>7 DEF PostOf
<1>9. Base(call, todo, posts', leaves, sig.room, listed')
  BY <1>3, <1>5, <1>6, <1>7, <1>8, PostsKeep DEF BaseInv
<1>10. Base(call, todo \ {w}, posts', leaves, sig.room, listed')
  BY <1>9, DropTodo
<1>11. \A q \in posts' : \E p \in posts : q = f[p]
  BY <1>3, <1>5, ImageElements
<1>12. QED
  BY <1>3, <1>10, <1>11 DEF Mapping

LEMMA BaseDeclineAnswered ==
  ASSUME BaseInv, NEW w \in todo, DeclineAnswered(w)
  PROVE  BaseNext
<1>1. Base(call, todo \ {w}, posts', leaves, sig.room, listed')
  BY DeclinedPosts
<1>2. /\ UNCHANGED <<sig, hpb, faults>>
      /\ call' = [Reset(call, FALSE) EXCEPT !.phase = "Idle", !.room = NoRoom, !.remote = "none"]
      /\ todo' = (todo \ {w}) \cup PlanCheck(call)
      /\ leaves' = leaves \cup PlanLeave(call)
  BY DEF DeclineAnswered
<1>3. Base(call', todo', posts', leaves', sig.room, listed')
  BY <1>1, <1>2, EndKeeps
<1>4. QED
  BY <1>2, <1>3 DEF BaseNext, BaseInv

LEMMA BaseSelfInCall ==
  ASSUME BaseInv, NEW r, SelfInCall(r)
  PROVE  BaseNext
<1>1. /\ hpb' = hpb \ {r} /\ UNCHANGED <<todo, posts, leaves, sig, listed, faults>>
      /\ call' = Confirmed(call) \/ call' = call
  BY DEF SelfInCall
<1>2. Base(call', todo, posts, leaves, sig.room, listed)
  BY <1>1, ConfirmedKeeps DEF BaseInv
<1>3. QED
  BY <1>1, <1>2 DEF BaseNext, BaseInv

LEMMA BaseServer ==
  ASSUME BaseInv, NEW p \in posts, Commit(p) \/ GiveUp(p)
  PROVE  BaseNext
<1>1. PICK v \in {"in", "no"} :
        /\ posts' = Settled((posts \ {p}) \cup {[p EXCEPT !.srv = v]}) /\ p.srv = "open"
        /\ listed' = (IF v = "in" THEN p.room ELSE listed)
        /\ hpb' = (IF v = "in" THEN hpb \cup {p.room} ELSE hpb)
        /\ UNCHANGED <<call, todo, leaves, sig, faults>>
  BY DEF Commit, GiveUp
<1> DEFINE f == Landing(posts, p, v)
<1>2. posts \subseteq PostRec /\ \A q \in posts : PostOf(call, q, sig.room)
  BY DEF BaseInv, Base, PostInv
<1>3. /\ Mapping(posts, f)
      /\ Settled((posts \ {p}) \cup {[p EXCEPT !.srv = v]}) = Image(posts, f)
      /\ \A q \in posts : f[q].ans = q.ans /\ f[q].srv = IF q = p THEN v ELSE q.srv
  <2>1. LandingFields(posts, p, v)
        /\ Settled((posts \ {p}) \cup {[p EXCEPT !.srv = v]}) = Image(posts, f)
    BY <1>2, LandingMaps
  <2>2. QED
    BY <2>1 DEF LandingFields
<1> HIDE DEF f
<1>4. /\ \A q \in posts : f[q].srv = "open" => q.srv = "open" /\ q.room = sig.room
      /\ \A q \in posts : f[q].ans => q.ans
  BY <1>2, <1>3 DEF PostOf
<1>5. /\ listed' \in {NoRoom, sig.room} /\ sig.room \in Rooms \cup {NoRoom}
      /\ hpb' \subseteq Rooms
  BY <1>1, <1>2 DEF BaseInv, Base, PostOf, PostRec
<1>6. Base(call, todo, posts', leaves, sig.room, listed')
  BY <1>1, <1>3, <1>4, <1>5, PostsKeep DEF BaseInv
<1>7. QED
  BY <1>1, <1>5, <1>6 DEF BaseNext, BaseInv

LEMMA BaseLeave ==
  ASSUME BaseInv, NEW l \in leaves, LeaveDone(l) \/ \E done \in BOOLEAN : LeaveLost(l, done)
  PROVE  BaseNext
<1>1. /\ listed' \in {NoRoom, listed} /\ UNCHANGED <<call, todo, posts, sig, hpb>>
      /\ faults' = faults \/ (faults < MaxFaults /\ faults' = faults + 1)
      /\ \/ leaves' = leaves \ {l}
         \/ leaves' = (leaves \ {l}) \cup {[l EXCEPT !.left = @ - 1]} /\ l.left > 1
  BY DEF LeaveDone, LeaveLost
<1>2. faults' \in 0 .. MaxFaults
  BY <1>1, LimitsAssumption DEF BaseInv
<1> DEFINE m == l.left - 1
           k == [l EXCEPT !.left = m]
<1>3. l \in LeaveRec /\ LeaveOf(call, l)
  BY DEF BaseInv, Base, LeaveInv
<1>4. l.left > 1 => m \in Nat \ {0}
  BY <1>3 DEF LeaveRec
<1> HIDE DEF m
<1>5. l.left > 1 => k \in LeaveRec /\ k.gen = l.gen
  BY <1>3, <1>4 DEF LeaveRec
<1>6. l.left > 1 => k \in LeaveRec /\ LeaveOf(call, k)
  BY <1>3, <1>5 DEF LeaveOf
<1>7. leaves' = leaves \ {l} \/ (leaves' = (leaves \ {l}) \cup {k} /\ l.left > 1)
  BY <1>1 DEF m
<1> HIDE DEF k
<1>8. leaves' \subseteq LeaveRec /\ \A x \in leaves' : x \in leaves \/ LeaveOf(call, x)
  BY <1>6, <1>7 DEF BaseInv, Base, LeaveInv
<1>9. Base(call, todo, posts, leaves', sig.room, listed)
  BY <1>8, LeavesKeep DEF BaseInv
<1>10. Base(call, todo, posts, leaves', sig.room, listed')
  BY <1>1, <1>9 DEF Base
<1>11. QED
  BY <1>1, <1>2, <1>10 DEF BaseNext, BaseInv

LEMMA BaseStep == BaseInv /\ [Next]_vars => BaseInv'
<1>1. SUFFICES ASSUME BaseInv, [Next]_vars
               PROVE  BaseNext
  BY BaseNextIsInv
<1>2. CASE UNCHANGED vars
  <2>1. /\ call' = call /\ todo' = todo /\ posts' = posts /\ leaves' = leaves /\ sig' = sig
        /\ listed' = listed /\ hpb' = hpb /\ faults' = faults
    BY <1>2 DEF vars
  <2>2. QED
    BY <1>1, <2>1 DEF BaseInv, BaseNext
<1>3. CASE \E r \in Rooms : StartCall(r) \/ SelfInCall(r)
  BY <1>1, <1>3, BaseBegin, BaseSelfInCall
<1>4. CASE \E r \in Rooms : \E remote \in {"none", "here"} : Ring(r, remote)
  BY <1>1, <1>4, BaseRing
<1>5. CASE AcceptCall \/ DeclineCall \/ EndCall
  BY <1>1, <1>5, BaseBegin, BaseDecline, BaseEnd
<1>6. CASE PeerJoins \/ PeerReturns \/ PeerLeaves \/ MediaUp \/ MediaDown
  BY <1>1, <1>6, BasePeer, BasePeerLeaves
<1>7. CASE SessionReset \/ RoomAcked
  BY <1>1, <1>7, BaseReset, BaseRoomAcked
<1>8. CASE \E w \in todo : WaitTimeout(w) \/ RejoinListed(w) \/ RejoinProceeds(w)
  BY <1>1, <1>8, BaseWaitTimeout, BaseRejoinListed, BaseRejoinProceeds
<1>9. CASE \E w \in todo : RejoinFails(w) \/ Repost(w) \/ DeclineAnswered(w)
  BY <1>1, <1>9, BaseRejoinFails, BaseRepost, BaseDeclineAnswered
<1>10. CASE \E w \in todo : \E ok \in BOOLEAN : Verified(w, ok) \/ Checked(w, ok)
  BY <1>1, <1>10, BaseVerified, BaseChecked
<1>11. CASE \E w \in todo : \E ok, others, known \in BOOLEAN : Reconciled(w, ok, others, known)
  BY <1>1, <1>11, BaseReconciled
<1>12. CASE \E p \in posts : Commit(p) \/ GiveUp(p)
  BY <1>1, <1>12, BaseServer
<1>13. CASE \E p \in posts : \E status \in {"ok", "transient", "notFound", "refused"} :
              Answered(p, status)
  BY <1>1, <1>13, BaseAnswered
<1>14. CASE \E l \in leaves : LeaveDone(l) \/ \E done \in BOOLEAN : LeaveLost(l, done)
  BY <1>1, <1>14, BaseLeave
<1>15. QED
  BY <1>1, <1>2, <1>3, <1>4, <1>5, <1>6, <1>7, <1>8, <1>9, <1>10, <1>11, <1>12,
     <1>13, <1>14 DEF Next

LEMMA BaseInit == Init => BaseInv
<1>1. SUFFICES ASSUME Init PROVE BaseInv
  OBVIOUS
<1>2. call = NoCall /\ todo = {} /\ posts = {} /\ leaves = {} /\ sig = [room |-> NoRoom, acked |-> FALSE]
      /\ listed = NoRoom /\ hpb = {} /\ faults = 0
  BY <1>1 DEF Init
<1>3. call \in CallRec /\ call.phase = "Idle" /\ call.room = NoRoom /\ call.flying = 0
      /\ call.posted = 0
  BY <1>2 DEF NoCall, CallRec, Phases
<1>4. Pending(call, posts) = {} /\ IsFiniteSet(todo)
  BY <1>2, <1>3, FS_EmptySet DEF Pending
<1>5. Base(call, todo, posts, leaves, sig.room, listed)
  BY <1>2, <1>3, <1>4, FS_EmptySet DEF Base, CallInv, TodoInv, PostInv, Alone, LedgerInv, LeaveInv
<1>6. QED
  BY <1>2, <1>5, LimitsAssumption DEF BaseInv, SigRec

LEMMA SpecBase == Spec => []BaseInv
BY BaseInit, BaseStep, PTL DEF Spec

(* TypeOK: the members of the call, its continuations, POSTs and leaves    *)
(* have their types; above all the count of POSTs under way (noteJoinReply *)
(* subtracts from it) never goes below zero.                               *)
THEOREM SpecTypeOK == Spec => []TypeOK
<1>1. BaseInv => TypeOK
  BY DEF BaseInv, Base, CallInv, CallRec, TodoInv, TodoRec, PostInv, PostRec, LeaveInv,
         LeaveRec, SigRec, TypeOK
<1>2. QED
  BY <1>1, SpecBase, PTL

-----------------------------------------------------------------------------
(* NoForeignEnd: every handler that ends the call has compared generations  *)
(* before, or is the call's own.                                           *)

LEMMA OwnTeardown ==
  ASSUME NEW c, NEW g, NEW rest, Teardown(c, g, rest), g = c.gen, NoForeignEnd
  PROVE  NoForeignEnd'
BY DEF Teardown, NoForeignEnd

LEMMA AttemptsGen ==
  ASSUME NEW c \in CallRec, NEW n
  PROVE  [c EXCEPT !.attempts = n].gen = c.gen
BY DEF CallRec

LEMMA AckedSeen ==
  ASSUME RoomAcked
  PROVE  /\ seen \subseteq seen' /\ seen' \subseteq seen \cup {"ignored", "noRoom"}
         /\ \A w \in Listeners : Noticed(w.gen) \subseteq seen'
         /\ call.phase = "Reconnecting"
              => \A w \in Listeners : w.kind # "rejoining" /\ w.gen = call.gen => "noRoom" \in seen'
<1> DEFINE U == UNION {Noticed(w.gen) : w \in Listeners}
           cut == /\ call.phase = "Reconnecting"
                  /\ \E w \in Listeners : w.kind # "rejoining" /\ w.gen = call.gen
           X == IF cut THEN {"noRoom"} ELSE {}
<1>1. seen' = seen \cup U \cup X
  BY DEF RoomAcked
<1>2. \A w \in Listeners : Noticed(w.gen) \subseteq seen \cup {"ignored"}
  BY DEF Noticed
<1>3. U \subseteq seen \cup {"ignored"} /\ \A w \in Listeners : Noticed(w.gen) \subseteq U
  BY <1>2
<1>4. X \subseteq {"noRoom"} /\ (cut => "noRoom" \in X)
  OBVIOUS
<1> HIDE DEF U, X
<1>5. seen \subseteq seen' /\ seen' \subseteq seen \cup {"ignored", "noRoom"}
  BY <1>1, <1>3, <1>4
<1>6. ASSUME NEW w \in Listeners
      PROVE  Noticed(w.gen) \subseteq seen'
  BY <1>1, <1>3
<1>7. ASSUME call.phase = "Reconnecting", NEW w \in Listeners,
             w.kind # "rejoining", w.gen = call.gen
      PROVE  "noRoom" \in seen'
  <2>1. cut
    BY <1>7
  <2> HIDE DEF cut
  <2>2. QED
    BY <1>1, <1>4, <2>1
<1>8. QED
  BY <1>5, <1>6, <1>7

LEMMA ForeignStep == BaseInv /\ NoForeignEnd /\ [Next]_vars => NoForeignEnd'
<1>1. SUFFICES ASSUME BaseInv, NoForeignEnd, [Next]_vars
               PROVE  NoForeignEnd'
  OBVIOUS
<1>2. call \in CallRec
  BY <1>1 DEF BaseInv, Base, CallInv
<1>3. CASE UNCHANGED vars
  BY <1>1, <1>3 DEF vars, NoForeignEnd
<1>4. CASE \E r \in Rooms : StartCall(r) \/ SelfInCall(r)
  BY <1>1, <1>4 DEF StartCall, SelfInCall, Lasting, NoForeignEnd
<1>5. CASE \E r \in Rooms : \E remote \in {"none", "here"} : Ring(r, remote)
  BY <1>1, <1>5 DEF Ring, Lasting, NoForeignEnd
<1>6. CASE AcceptCall \/ DeclineCall
  BY <1>1, <1>6 DEF AcceptCall, DeclineCall, NoForeignEnd
<1>7. CASE EndCall \/ PeerLeaves
  BY <1>1, <1>7, OwnTeardown DEF EndCall, PeerLeaves, NoForeignEnd
<1>8. CASE PeerJoins \/ PeerReturns \/ MediaUp \/ MediaDown
  BY <1>1, <1>8 DEF PeerJoins, PeerReturns, MediaUp, MediaDown, NoForeignEnd
<1>9. CASE SessionReset \/ RoomAcked
  <2>1. CASE SessionReset
    BY <1>1, <2>1 DEF SessionReset, NoForeignEnd
  <2>2. CASE RoomAcked
    <3>2. seen' \subseteq seen \cup {"ignored", "noRoom"}
      BY <2>2, AckedSeen
    <3>3. QED
      BY <1>1, <3>2 DEF NoForeignEnd
  <2>3. QED
    BY <1>9, <2>1, <2>2
<1>10. CASE \E w \in todo : WaitTimeout(w) \/ RejoinListed(w) \/ RejoinProceeds(w)
  BY <1>1, <1>10 DEF WaitTimeout, RejoinListed, RejoinProceeds, Disturbed, Noticed, NoForeignEnd
<1>11. CASE \E w \in todo : RejoinFails(w)
  <2>1. PICK w \in todo : RejoinFails(w)
    BY <1>11
  <2>2. CASE StillWanted(w.gen)
    BY <1>1, <1>2, <2>1, <2>2, OwnTeardown, AttemptsGen DEF RejoinFails, StillWanted
  <2>3. CASE ~StillWanted(w.gen)
    BY <1>1, <2>1, <2>3 DEF RejoinFails, Disturbed, Noticed, NoForeignEnd
  <2>4. QED
    BY <2>2, <2>3
<1>12. CASE \E w \in todo : Repost(w) \/ DeclineAnswered(w)
  BY <1>1, <1>12 DEF Repost, DeclineAnswered, Noticed, NoForeignEnd
<1>13. CASE \E w \in todo : \E ok \in BOOLEAN : Verified(w, ok) \/ Checked(w, ok)
  <2>1. PICK w \in todo, ok \in BOOLEAN : Verified(w, ok) \/ Checked(w, ok)
    BY <1>13
  <2>2. CASE Checked(w, ok)
    BY <1>1, <2>2 DEF Checked, NoForeignEnd
  <2>3. CASE Verified(w, ok)
    <3>1. CASE w.gen = call.gen /\ ok /\ ~SelfListed(w.room)
      BY <1>1, <1>2, <2>3, <3>1, OwnTeardown, AttemptsGen DEF Verified
    <3>2. CASE ~(w.gen = call.gen /\ ok /\ ~SelfListed(w.room))
      BY <1>1, <2>3, <3>2 DEF Verified, NoForeignEnd
    <3>3. QED
      BY <3>1, <3>2
  <2>4. QED
    BY <2>1, <2>2, <2>3
<1>14. CASE \E w \in todo : \E ok, others, known \in BOOLEAN : Reconciled(w, ok, others, known)
  <2>1. PICK w \in todo, ok \in BOOLEAN, others \in BOOLEAN, known \in BOOLEAN :
          Reconciled(w, ok, others, known)
    BY <1>14
  <2>2. \/ UNCHANGED seen
        \/ w.gen = call.gen /\ Teardown(call, w.gen, todo \ {w})
    BY <2>1 DEF Reconciled
  <2>3. QED
    BY <1>1, <2>2, OwnTeardown DEF NoForeignEnd
<1>15. CASE \E p \in posts : Commit(p) \/ GiveUp(p)
  BY <1>1, <1>15 DEF Commit, GiveUp, NoForeignEnd
<1>16. CASE \E p \in posts : \E status \in {"ok", "transient", "notFound", "refused"} :
              Answered(p, status)
  <2>1. PICK p \in posts, status \in {"ok", "transient", "notFound", "refused"} :
          Answered(p, status)
    BY <1>16
  <2>2. CASE p.gen # call.gen
    BY <1>1, <2>1, <2>2 DEF Answered, Late, LateReply, NoForeignEnd
  <2>3. CASE p.gen = call.gen
    <3> DEFINE c == Noted(call, status)
    <3>1. c \in CallRec /\ c.gen = call.gen
      BY <1>2, NotedIsCall
    <3>2. OwnReply(p, status)
      BY <2>1, <2>3 DEF Answered, Late
    <3>3. seen' \subseteq seen \cup {"ignored", "unregistered"}
          \/ Teardown([c EXCEPT !.attempts = 0], p.gen, todo)
      BY <3>2 DEF OwnReply, JoinFailed, Ask
    <3> HIDE DEF c
    <3>4. [c EXCEPT !.attempts = 0].gen = p.gen
      BY <2>3, <3>1, AttemptsGen
    <3>5. QED
      BY <1>1, <3>3, <3>4, OwnTeardown DEF NoForeignEnd
  <2>4. QED
    BY <2>2, <2>3
<1>17. CASE \E l \in leaves : LeaveDone(l) \/ \E done \in BOOLEAN : LeaveLost(l, done)
  BY <1>1, <1>17 DEF LeaveDone, LeaveLost, NoForeignEnd
<1>18. QED
  BY <1>1, <1>3, <1>4, <1>5, <1>6, <1>7, <1>8, <1>9, <1>10, <1>11, <1>12, <1>13,
     <1>14, <1>15, <1>16, <1>17 DEF Next

(* NoForeignEnd: no reply, timer or listener that an earlier call left     *)
(* behind ends the present call.                                           *)
THEOREM SpecNoForeignEnd == Spec => []NoForeignEnd
<1>1. Init => NoForeignEnd
  BY DEF Init, NoForeignEnd
<1>2. BaseInv /\ NoForeignEnd /\ [Next]_vars => NoForeignEnd'
  BY ForeignStep
<1>3. QED
  BY <1>1, <1>2, SpecBase, PTL DEF Spec

-----------------------------------------------------------------------------
(* NoGhost: a POST of an ended call that the server may still write has a  *)
(* late-commit check, and what the server has written is the present call's *)
(* or has a leave or a check.  Both are lost only by a recorded cause.     *)
Excuses == {"giveUp", "skipped", "forgotten"}

OpenIsChecked(c, t, ps) ==
  \A p \in ps : p.srv = "open" /\ p.gen # c.gen
     => \E w \in t : w.kind = "check" /\ w.gen = p.gen /\ w.room = p.room

ListedIsUndone(c, t, ls, li) ==
  li # NoRoom => \/ c.room = li /\ c.phase # "Idle" /\ c.posted > 0
                 \/ \E l \in ls : l.room = li
                 \/ \E w \in t : w.kind = "check" /\ w.room = li

Ghost(c, t, ps, ls, li, sn) ==
  \/ sn \cap Excuses # {}
  \/ OpenIsChecked(c, t, ps) /\ ListedIsUndone(c, t, ls, li)

GhostInv == Ghost(call, todo, posts, leaves, listed, seen)

(* The call c goes on as d. *)
GoesOn(c, d) == /\ d.gen = c.gen /\ (c.posted > 0 => d.posted > 0)
                /\ c.phase # "Idle" => d.phase # "Idle" /\ d.room = c.room

(* A POST that can be written in ps2 is one of d or was there before. *)
PostsFrom(d, ps, ps2) ==
  \A q \in ps2 : q.srv = "open"
    => q.gen = d.gen \/ \E p \in ps : p.srv = "open" /\ p.gen = q.gen /\ p.room = q.room

(* No check is lost. *)
ChecksKept(t, t2) == \A w \in t : w.kind = "check" => w \in t2

(* GhostInv depends on the checks, the leaves and the writable POSTs. *)
LEMMA GoesOnGhost ==
  ASSUME NEW c, NEW d, NEW t, NEW t2, NEW ps, NEW ps2, NEW ls, NEW ls2,
         NEW li, NEW li2, NEW sn, NEW sn2,
         Ghost(c, t, ps, ls, li, sn), GoesOn(c, d), ChecksKept(t, t2), PostsFrom(d, ps, ps2),
         ls \subseteq ls2, li2 \in {NoRoom, li}, sn \cap Excuses \subseteq sn2
  PROVE  Ghost(d, t2, ps2, ls2, li2, sn2)
<1>1. CASE sn \cap Excuses # {}
  BY <1>1 DEF Ghost
<1>2. CASE OpenIsChecked(c, t, ps) /\ ListedIsUndone(c, t, ls, li)
  <2>1. OpenIsChecked(d, t2, ps2)
    BY <1>2 DEF OpenIsChecked, PostsFrom, ChecksKept, GoesOn
  <2>2. ListedIsUndone(d, t2, ls2, li2)
    BY <1>2 DEF ListedIsUndone, ChecksKept, GoesOn
  <2>3. QED
    BY <2>1, <2>2 DEF Ghost
<1>3. QED
  BY <1>1, <1>2 DEF Ghost

(* The ledger knows of a POST of the call that is not answered. *)
LEMMA OwnIsFlying ==
  ASSUME NEW c, NEW t, NEW ps, NEW ls, NEW r, NEW li, Base(c, t, ps, ls, r, li),
         NEW p \in ps, p.gen = c.gen, ~p.ans
  PROVE  c.flying > 0
<1>1. p.n \in 1 .. c.posted /\ c \in CallRec
  BY DEF Base, CallInv, PostInv, PostOf
<1>2. p.n \in Pending(c, ps)
  BY <1>1 DEF Pending
<1>3. IsFiniteSet(Pending(c, ps)) /\ Cardinality(Pending(c, ps)) \in Nat
  BY <1>1, PendingIsFinite
<1>4. Cardinality(Pending(c, ps)) # 0
  BY <1>2, <1>3, FS_EmptySet
<1>5. c.flying = Cardinality(Pending(c, ps))
  BY DEF Base, LedgerInv
<1>6. QED
  BY <1>3, <1>4, <1>5

(* The call c ends and leaves what undoes it. *)
LEMMA EndGhost ==
  ASSUME NEW c, NEW d, NEW t, NEW ps, NEW ls, NEW r, NEW li, NEW sn, NEW sn2,
         Base(c, t, ps, ls, r, li), Ghost(c, t, ps, ls, li, sn),
         sn \cap Excuses \subseteq sn2
  PROVE  Ghost(d, t \cup PlanCheck(c), ps, ls \cup PlanLeave(c), li, sn2)
<1>1. CASE sn \cap Excuses # {}
  BY <1>1 DEF Ghost
<1>2. CASE OpenIsChecked(c, t, ps) /\ ListedIsUndone(c, t, ls, li)
  <2>1. ASSUME NEW p \in ps, p.srv = "open"
        PROVE  \E w \in t \cup PlanCheck(c) :
                 w.kind = "check" /\ w.gen = p.gen /\ w.room = p.room
    <3>1. CASE p.gen # c.gen
      BY <1>2, <2>1, <3>1 DEF OpenIsChecked
    <3>2. CASE p.gen = c.gen
      <4>1. /\ c.phase # "Idle" /\ c.room # NoRoom /\ p.room = c.room
            /\ p.n \in 1 .. c.posted /\ (p.ans => c.unresolved) /\ c \in CallRec
        BY <2>1, <3>2 DEF Base, CallInv, PostInv, PostOf
      <4>2. ASSUME ~p.ans PROVE c.flying > 0
        BY <3>2, <4>2, OwnIsFlying
      <4>3. PlanCheck(c) = {Todo("check", c.gen, c.room)}
        BY <4>1, <4>2 DEF PlanCheck
      <4>4. Todo("check", c.gen, c.room) \in t \cup PlanCheck(c)
        BY <4>3
      <4>5. /\ Todo("check", c.gen, c.room).kind = "check"
            /\ Todo("check", c.gen, c.room).gen = p.gen
            /\ Todo("check", c.gen, c.room).room = p.room
        BY <3>2, <4>1 DEF Todo
      <4>6. QED
        BY <4>4, <4>5
    <3>3. QED
      BY <3>1, <3>2
  <2>2. OpenIsChecked(d, t \cup PlanCheck(c), ps)
    BY <2>1 DEF OpenIsChecked
  <2>3. ListedIsUndone(d, t \cup PlanCheck(c), ls \cup PlanLeave(c), li)
    <3>1. c.posted > 0 /\ c.room # NoRoom => \E l \in PlanLeave(c) : l.room = c.room
      BY DEF PlanLeave
    <3>2. QED
      BY <1>2, <3>1 DEF ListedIsUndone
  <2>4. QED
    BY <2>2, <2>3 DEF Ghost
<1>3. QED
  BY <1>1, <1>2 DEF Ghost

LEMMA TeardownGhost ==
  ASSUME NEW c, NEW g, NEW rest, NEW ps, NEW r, NEW li,
         Base(c, rest, ps, leaves, r, li), Ghost(c, rest, ps, leaves, li, seen),
         Teardown(c, g, rest)
  PROVE  Ghost(call', todo', ps, leaves', li, seen')
<1>1. /\ todo' = rest \cup PlanCheck(c) /\ leaves' = leaves \cup PlanLeave(c)
      /\ seen \subseteq seen'
  BY DEF Teardown
<1>2. Ghost(call', rest \cup PlanCheck(c), ps, leaves \cup PlanLeave(c), li, seen')
  BY <1>1, EndGhost
<1>3. QED
  BY <1>1, <1>2

LEMMA SamePostsFrom ==
  ASSUME NEW d, NEW ps
  PROVE  PostsFrom(d, ps, ps)
BY DEF PostsFrom

LEMMA ImagePostsFrom ==
  ASSUME NEW d, NEW ps, NEW f, Mapping(ps, f),
         \A p \in ps : f[p].srv = "open" => p.srv = "open"
  PROVE  PostsFrom(d, ps, Image(ps, f))
<1>1. \A q \in Image(ps, f) : \E p \in ps : q = f[p]
  BY ImageElements
<1>2. QED
  BY <1>1 DEF PostsFrom, Mapping

LEMMA RetiredAreClosed ==
  ASSUME NEW ps, ps \subseteq PostRec
  PROVE  \A q \in Settled(Retired(ps)) : q.srv # "open"
<1>1. RetiringFields(ps, ps) /\ Settled((ps \ ps) \cup Retired(ps)) = Image(ps, Retiring(ps, ps))
  BY RetiringMaps
<1>2. (ps \ ps) \cup Retired(ps) = Retired(ps)
  OBVIOUS
<1>3. \A q \in Image(ps, Retiring(ps, ps)) : \E p \in ps : q = Retiring(ps, ps)[p]
  BY <1>1, ImageElements DEF RetiringFields
<1>4. \A p \in ps : Retiring(ps, ps)[p].srv # "open"
  BY <1>1 DEF RetiringFields
<1>5. Settled(Retired(ps)) = Image(ps, Retiring(ps, ps))
  BY <1>1, <1>2
<1>6. QED
  BY <1>3, <1>4, <1>5

(* What the helpers of the room do to the posts and to the listing. *)
LEMMA MoveGhost ==
  ASSUME NEW d, posts \subseteq PostRec, NEW r, MoveTo(r) \/ StayPut \/ RestoreRoom(r)
  PROVE  PostsFrom(d, posts, posts') /\ listed' \in {NoRoom, listed}
<1>1. CASE MoveTo(r)
  <2>1. posts' = Settled(Retired(posts)) /\ listed' = NoRoom
    BY <1>1 DEF MoveTo
  <2>2. \A q \in Settled(Retired(posts)) : q.srv # "open"
    BY RetiredAreClosed
  <2>3. QED
    BY <2>1, <2>2 DEF PostsFrom
<1>2. CASE StayPut
  BY <1>2, SamePostsFrom DEF StayPut
<1>3. MoveTo(r) \/ StayPut
  BY DEF RestoreRoom
<1>4. QED
  BY <1>1, <1>2, <1>3

LEMMA NextGhost ==
  ASSUME GhostInv, GoesOn(call, call'), ChecksKept(todo, todo'),
         PostsFrom(call', posts, posts'), leaves \subseteq leaves',
         listed' \in {NoRoom, listed}, seen \cap Excuses \subseteq seen'
  PROVE  GhostInv'
<1>1. Ghost(call', todo', posts', leaves', listed', seen')
  BY GoesOnGhost DEF GhostInv
<1>2. QED
  BY <1>1 DEF GhostInv

LEMMA SameGoesOn ==
  ASSUME NEW c, NEW d, Same(c, d)
  PROVE  GoesOn(c, d)
BY DEF Same, GoesOn

LEMMA SentGoesOn ==
  ASSUME NEW c \in CallRec, NEW k \in Nat
  PROVE  GoesOn(c, Sent(c, k)) /\ Sent(c, k).gen = c.gen
<1>1. /\ Sent(c, k).posted = c.posted + k /\ c.posted \in Nat /\ Sent(c, k).gen = c.gen
      /\ Sent(c, k).phase = c.phase /\ Sent(c, k).room = c.room
  BY SentIsCall DEF CallRec
<1>2. QED
  BY <1>1 DEF GoesOn

LEMMA SentPosts ==
  ASSUME NEW c \in CallRec, NEW k \in Nat
  PROVE  GoesOn(c, Sent(c, k)) /\ PostsFrom(Sent(c, k), posts, posts \cup NewPosts(c, k))
<1> DEFINE d == Sent(c, k)
<1>1. GoesOn(c, d) /\ d.gen = c.gen
  BY SentGoesOn
<1> HIDE DEF d
<1>2. \A q \in NewPosts(c, k) : q.gen = d.gen
  BY <1>1 DEF NewPosts, NewPost
<1>3. PostsFrom(d, posts, posts \cup NewPosts(c, k))
  BY <1>2 DEF PostsFrom
<1>4. QED
  BY <1>1, <1>3 DEF d

(* A call begins: the one before it had posted nothing, or is forgotten. *)
LEMMA BeginGhost ==
  ASSUME BaseInv, GhostInv, NEW d, d.gen = call.gen + 1, call.phase \in {"Idle", "Incoming"},
         NEW sn, seen \cap Excuses \subseteq sn,
         call.phase = "Incoming" /\ call.posted > 0 => "forgotten" \in sn
  PROVE  Ghost(d, todo, posts, leaves, listed, sn)
<1>1. CASE sn \cap Excuses # {}
  BY <1>1 DEF Ghost
<1>2. CASE sn \cap Excuses = {}
  <2>1. OpenIsChecked(call, todo, posts) /\ ListedIsUndone(call, todo, leaves, listed)
    BY <1>2 DEF GhostInv, Ghost
  <2>2. call.phase = "Idle" \/ ~(call.posted > 0)
    BY <1>2 DEF Excuses
  <2>3. \A p \in posts : p.gen # call.gen
    <3>1. \A p \in posts : p.gen = call.gen => call.phase # "Idle" /\ p.n \in 1 .. call.posted
      BY DEF BaseInv, Base, PostInv, PostOf
    <3>2. call.posted \in Nat
      BY DEF BaseInv, Base, CallInv, CallRec
    <3>3. QED
      BY <2>2, <3>1, <3>2
  <2>4. OpenIsChecked(d, todo, posts)
    BY <2>1, <2>3 DEF OpenIsChecked
  <2>5. ListedIsUndone(d, todo, leaves, listed)
    BY <2>1, <2>2 DEF ListedIsUndone
  <2>6. QED
    BY <2>4, <2>5 DEF Ghost
<1>3. QED
  BY <1>1, <1>2

LEMMA EnsureGhost ==
  ASSUME BaseInv, NEW c \in CallRec, NEW sn, Ghost(c, todo, posts, leaves, listed, sn),
         EnsureRoom(c), UNCHANGED leaves
  PROVE  Ghost(call', todo', posts', leaves', listed', sn)
<1>1. posts \subseteq PostRec
  BY DEF BaseInv, Base, PostInv
<1>2. CASE sig = [room |-> c.room, acked |-> TRUE]
  <2>1. /\ call' = Sent(c, 1) /\ posts' = posts \cup NewPosts(c, 1)
        /\ UNCHANGED <<todo, sig, listed>>
    BY <1>2 DEF EnsureRoom
  <2>2. GoesOn(c, Sent(c, 1)) /\ PostsFrom(Sent(c, 1), posts, posts \cup NewPosts(c, 1))
    BY SentPosts
  <2>3. ChecksKept(todo, todo)
    BY DEF ChecksKept
  <2>4. /\ leaves \subseteq leaves' /\ listed' \in {NoRoom, listed}
        /\ sn \cap Excuses \subseteq sn
    BY <2>1
  <2>5. QED
    BY <2>1, <2>2, <2>3, <2>4, GoesOnGhost
<1>3. CASE sig # [room |-> c.room, acked |-> TRUE]
  <2>1. /\ call' = c /\ todo \subseteq todo' /\ (StayPut \/ MoveTo(c.room))
    BY <1>3 DEF EnsureRoom
  <2>2. PostsFrom(c, posts, posts') /\ listed' \in {NoRoom, listed}
    BY <1>1, <2>1, MoveGhost
  <2>3. GoesOn(c, c) /\ ChecksKept(todo, todo')
    BY <2>1 DEF GoesOn, ChecksKept
  <2>4. QED
    BY <2>1, <2>2, <2>3, GoesOnGhost
<1>4. QED
  BY <1>2, <1>3

LEMMA GhostBegin ==
  ASSUME BaseInv, GhostInv, AcceptCall \/ \E r \in Rooms : StartCall(r)
  PROVE  GhostInv'
<1>1. PICK d : Beginning(d)
  BY StartBegins, AcceptBegins
<1>2. d \in CallRec /\ d.gen = call.gen + 1 /\ EnsureRoom(d)
  BY <1>1 DEF Beginning, CallInv, Fresh
<1>3. /\ call.phase \in {"Idle", "Incoming"} /\ UNCHANGED leaves
      /\ seen \cap Excuses \subseteq seen'
      /\ call.phase = "Incoming" /\ call.posted > 0 => "forgotten" \in seen'
  BY DEF StartCall, AcceptCall, Lasting, Excuses
<1>4. Ghost(d, todo, posts, leaves, listed, seen')
  BY <1>2, <1>3, BeginGhost
<1>5. QED
  BY <1>2, <1>3, <1>4, EnsureGhost DEF GhostInv

(* The handlers that leave the posts, the leaves and the listing alone. *)
LEMMA QuietGhost ==
  ASSUME GhostInv, GoesOn(call, call'), ChecksKept(todo, todo'), leaves \subseteq leaves',
         UNCHANGED <<posts, listed>>, seen \cap Excuses \subseteq seen'
  PROVE  GhostInv'
BY NextGhost, SamePostsFrom

LEMMA GhostPeer ==
  ASSUME BaseInv, GhostInv, PeerJoins \/ PeerReturns \/ MediaUp \/ MediaDown \/ DeclineCall
                            \/ \E r \in Rooms : \E remote \in {"none", "here"} : Ring(r, remote)
  PROVE  GhostInv'
<1>1. call \in CallRec
  BY DEF BaseInv, Base, CallInv
<1>2. GoesOn(call, call')
  <2>1. CASE PeerJoins
    BY <1>1, <2>1 DEF PeerJoins, GoesOn, CallRec
  <2>2. CASE PeerReturns
    BY <1>1, <2>2 DEF PeerReturns, GoesOn, CallRec
  <2>3. CASE MediaUp \/ MediaDown \/ DeclineCall
    BY <1>1, <2>3 DEF MediaUp, MediaDown, DeclineCall, GoesOn, CallRec
  <2>4. CASE \E r \in Rooms : \E remote \in {"none", "here"} : Ring(r, remote)
    BY <1>1, <2>4 DEF Ring, GoesOn, CallRec
  <2>5. QED
    BY <2>1, <2>2, <2>3, <2>4
<1>3. /\ todo \subseteq todo' /\ leaves \subseteq leaves' /\ UNCHANGED <<posts, listed>>
      /\ seen' = seen \/ seen' = Lasting
  BY DEF PeerJoins, PeerReturns, MediaUp, MediaDown, DeclineCall, Ring
<1>4. ChecksKept(todo, todo') /\ seen \cap Excuses \subseteq seen'
  BY <1>3 DEF ChecksKept, Excuses, Lasting
<1>5. QED
  BY <1>2, <1>3, <1>4, QuietGhost

LEMMA GhostEnd ==
  ASSUME BaseInv, GhostInv, EndCall
  PROVE  GhostInv'
<1>1. Ghost(call', todo', posts, leaves', listed, seen')
  BY TeardownGhost DEF BaseInv, GhostInv, EndCall
<1>2. QED
  BY <1>1 DEF GhostInv, EndCall

LEMMA GhostPeerLeaves ==
  ASSUME BaseInv, GhostInv, PeerLeaves
  PROVE  GhostInv'
<1>1. call \in CallRec
  BY DEF BaseInv, Base, CallInv
<1>2. CASE call.room \in Pairs
  <2>1. GoesOn(call, call')
    BY <1>1, <1>2 DEF PeerLeaves, GoesOn, CallRec
  <2>2. /\ todo' = todo /\ leaves' = leaves /\ UNCHANGED <<posts, listed, seen>>
    BY <1>2 DEF PeerLeaves
  <2>3. QED
    BY <2>1, <2>2, QuietGhost DEF ChecksKept
<1>3. CASE call.room \notin Pairs
  <2>1. Ghost(call', todo', posts, leaves', listed, seen')
    BY <1>3, TeardownGhost DEF BaseInv, GhostInv, PeerLeaves
  <2>2. QED
    BY <2>1 DEF GhostInv, PeerLeaves
<1>4. QED
  BY <1>2, <1>3

LEMMA GhostReset ==
  ASSUME BaseInv, GhostInv, SessionReset
  PROVE  GhostInv'
<1>1. call \in CallRec /\ posts \subseteq PostRec
  BY DEF BaseInv, Base, CallInv, PostInv
<1>2. /\ UNCHANGED <<todo, leaves>> /\ listed' = NoRoom /\ seen \subseteq seen'
  BY DEF SessionReset
<1>3. \A q \in Settled(Retired(posts)) : q.srv # "open"
  BY <1>1, RetiredAreClosed
<1>4. GoesOn(call, call') /\ PostsFrom(call', posts, posts')
  <2>1. CASE call.phase \in RegisterPhases
    <3> DEFINE c == Sent(call, 1)
               p == NewPost(call, call.posted + 1, TRUE)
    <3>1. c \in CallRec /\ GoesOn(call, c) /\ c.gen = call.gen
      BY <1>1, SentIsCall, SentGoesOn
    <3>2. p.gen = call.gen
      BY DEF NewPost
    <3>3. call' = [c EXCEPT !.phase = "Reconnecting"]
          /\ posts' = Settled(Retired(posts)) \cup {p}
      BY <2>1 DEF SessionReset
    <3> HIDE DEF c, p
    <3>4. call'.gen = call.gen /\ call'.posted = c.posted /\ call'.room = c.room
          /\ call'.phase = "Reconnecting"
      BY <3>1, <3>3 DEF CallRec
    <3>5. GoesOn(call, call')
      BY <3>1, <3>4, <2>1 DEF GoesOn, RegisterPhases
    <3>6. PostsFrom(call', posts, posts')
      BY <1>3, <3>2, <3>3, <3>4 DEF PostsFrom
    <3>7. QED
      BY <3>5, <3>6
  <2>2. CASE call.phase \notin RegisterPhases
    <3>1. call' = call /\ posts' = Settled(Retired(posts))
      BY <2>2 DEF SessionReset
    <3>2. QED
      BY <1>3, <3>1 DEF GoesOn, PostsFrom
  <2>3. QED
    BY <2>1, <2>2
<1>5. /\ ChecksKept(todo, todo') /\ leaves \subseteq leaves'
      /\ listed' \in {NoRoom, listed} /\ seen \cap Excuses \subseteq seen'
  BY <1>2 DEF ChecksKept
<1>6. QED
  BY <1>4, <1>5, NextGhost

LEMMA GhostRoomAcked ==
  ASSUME BaseInv, GhostInv, RoomAcked
  PROVE  GhostInv'
<1> DEFINE F == {w \in Listeners : Fires(w)}
           n == Cardinality(F)
<1>1. n \in Nat
  <2>1. F \in SUBSET todo /\ IsFiniteSet(todo)
    BY DEF Listeners, BaseInv, Base, TodoInv
  <2>2. QED
    BY <2>1, FS_Subset, FS_CardinalityType
<1>2. /\ call' = Sent(call, n) /\ posts' = posts \cup NewPosts(call, n)
      /\ todo' = todo \ Listeners /\ UNCHANGED <<leaves, listed>>
  BY DEF RoomAcked
<1> HIDE DEF n, F
<1>3. call \in CallRec
  BY DEF BaseInv, Base, CallInv
<1>4. GoesOn(call, call') /\ PostsFrom(call', posts, posts')
  BY <1>1, <1>2, <1>3, SentPosts
<1>5. ChecksKept(todo, todo')
  BY <1>2 DEF ChecksKept, Listeners
<1>6. seen \subseteq seen'
  BY AckedSeen
<1>7. QED
  BY <1>2, <1>4, <1>5, <1>6, NextGhost

LEMMA GhostWaitTimeout ==
  ASSUME GhostInv, NEW w \in todo, WaitTimeout(w)
  PROVE  GhostInv'
<1>1. /\ w.kind # "check" /\ todo' = todo \ {w} /\ seen \subseteq seen'
      /\ UNCHANGED <<call, posts, leaves, listed>>
  BY DEF WaitTimeout
<1>2. GoesOn(call, call') /\ ChecksKept(todo, todo')
  BY <1>1 DEF GoesOn, ChecksKept
<1>3. QED
  BY <1>1, <1>2, QuietGhost

LEMMA GhostRejoin ==
  ASSUME BaseInv, GhostInv, NEW w \in todo, RejoinListed(w) \/ RejoinProceeds(w)
  PROVE  GhostInv'
<1>1. posts \subseteq PostRec
  BY DEF BaseInv, Base, PostInv
<1>2. /\ w.kind # "check" /\ todo \ {w} \subseteq todo' /\ seen \subseteq seen'
      /\ UNCHANGED <<call, leaves>>
      /\ \/ MoveTo(w.room) \/ StayPut \/ RestoreRoom(w.room)
         \/ listed' = NoRoom /\ posts' = Settled(Retired(posts))
  BY DEF RejoinListed, RejoinProceeds, Disturbed, Noticed
<1>3. \A q \in Settled(Retired(posts)) : q.srv # "open"
  BY <1>1, RetiredAreClosed
<1>4. PostsFrom(call', posts, posts') /\ listed' \in {NoRoom, listed}
  <2>1. CASE listed' = NoRoom /\ posts' = Settled(Retired(posts))
    BY <1>3, <2>1 DEF PostsFrom
  <2>2. CASE MoveTo(w.room) \/ StayPut \/ RestoreRoom(w.room)
    BY <1>1, <2>2, MoveGhost
  <2>3. QED
    BY <1>2, <2>1, <2>2
<1>5. GoesOn(call, call') /\ ChecksKept(todo, todo')
  BY <1>2 DEF GoesOn, ChecksKept
<1>6. QED
  BY <1>2, <1>4, <1>5, NextGhost

LEMMA AttemptsGoOn ==
  ASSUME NEW c \in CallRec, NEW n
  PROVE  GoesOn(c, [c EXCEPT !.attempts = n])
BY DEF CallRec, GoesOn

LEMMA GhostRejoinFails ==
  ASSUME BaseInv, GhostInv, NEW w \in todo, RejoinFails(w)
  PROVE  GhostInv'
<1>1. posts \subseteq PostRec /\ call \in CallRec /\ sig \in SigRec /\ w.room \in Rooms
  BY OwnServes DEF BaseInv, Base, PostInv, CallInv, Serves
<1>2. w.kind # "check" /\ (StayPut \/ RestoreRoom(w.room))
  BY DEF RejoinFails
<1>3. \A d : PostsFrom(d, posts, posts') /\ listed' \in {NoRoom, listed}
  BY <1>1, <1>2, MoveGhost
<1>4. ChecksKept(todo, todo \ {w})
  BY <1>2 DEF ChecksKept
<1>5. CASE StillWanted(w.gen)
  <2> DEFINE c == [call EXCEPT !.attempts = 0]
  <2>1. Base(call, todo, posts', leaves, sig'.room, listed')
    BY <1>1, <1>2, StayKeeps, RestoreKeeps DEF BaseInv
  <2>2. Base(call, todo \ {w}, posts', leaves, sig'.room, listed')
    BY <2>1, DropTodo
  <2>3. Base(c, todo \ {w}, posts', leaves, sig'.room, listed')
    BY <2>2, AttemptsAreOwn
  <2>4. GoesOn(call, c)
    BY <1>1, AttemptsGoOn
  <2>5. Teardown(c, w.gen, todo \ {w})
    BY <1>5 DEF RejoinFails
  <2> HIDE DEF c
  <2>6. Ghost(c, todo \ {w}, posts', leaves, listed', seen)
    BY <1>3, <1>4, <2>4, GoesOnGhost DEF GhostInv
  <2>7. Ghost(call', todo', posts', leaves', listed', seen')
    BY <2>3, <2>5, <2>6, TeardownGhost
  <2>8. QED
    BY <2>7 DEF GhostInv
<1>6. CASE ~StillWanted(w.gen)
  <2>1. todo' = todo \ {w} /\ UNCHANGED <<call, leaves>> /\ seen \subseteq seen'
    BY <1>6 DEF RejoinFails, Disturbed, Noticed
  <2>2. GoesOn(call, call')
    BY <2>1 DEF GoesOn
  <2>3. QED
    BY <1>3, <1>4, <2>1, <2>2, NextGhost
<1>7. QED
  BY <1>5, <1>6

LEMMA ConfirmedGoesOn ==
  ASSUME NEW c \in CallRec
  PROVE  GoesOn(c, Confirmed(c))
BY ConfirmedIsCall DEF GoesOn

LEMMA AnsweredPostsFrom ==
  ASSUME BaseInv, NEW d, NEW p \in posts, NEW status
  PROVE  PostsFrom(d, posts, AnsweredPosts(p, status))
<1> DEFINE f == Answering(posts, p, status)
<1>1. posts \subseteq PostRec
  BY DEF BaseInv, Base, PostInv
<1>2. /\ Mapping(posts, f) /\ AnsweredPosts(p, status) = Image(posts, f)
      /\ \A q \in posts : f[q].srv = "open" => q.srv = "open"
  BY <1>1, AnsweringMaps
<1> HIDE DEF f
<1>3. PostsFrom(d, posts, Image(posts, f))
  BY <1>2, ImagePostsFrom
<1>4. QED
  BY <1>2, <1>3

(* What the reply to one of the call's own POSTs does to the call c, whose *)
(* ledger has it: the call goes on or ends.                                *)
LEMMA OwnReplyOutcome ==
  ASSUME NEW p, NEW status, call \in CallRec, OwnReply(p, status)
  PROVE  LET c == Noted(call, status)
         IN  \/ /\ GoesOn(c, call') /\ todo \subseteq todo' /\ UNCHANGED leaves
                /\ seen \subseteq seen'
             \/ Teardown([c EXCEPT !.attempts = 0], p.gen, todo)
<1> DEFINE c == Noted(call, status)
<1>1. c \in CallRec
  BY NotedIsCall
<1>2. \/ call' = Confirmed(c) /\ UNCHANGED <<todo, leaves, seen>>
      \/ call' = c /\ todo \subseteq todo' /\ UNCHANGED leaves /\ seen \subseteq seen'
      \/ JoinFailed(p, c, status)
  BY DEF OwnReply
<1> HIDE DEF c
<1>3. GoesOn(c, c) /\ GoesOn(c, Confirmed(c)) /\ GoesOn(c, [c EXCEPT !.attempts = @ + 1])
      /\ GoesOn(c, [c EXCEPT !.rejoins = @ + 1])
  BY <1>1, ConfirmedGoesOn DEF GoesOn, CallRec
<1>4. CASE JoinFailed(p, c, status)
  <2>1. \/ /\ \/ call' = c \/ call' = [c EXCEPT !.attempts = @ + 1]
               \/ call' = [c EXCEPT !.rejoins = @ + 1]
            /\ todo \subseteq todo' /\ UNCHANGED leaves /\ seen \subseteq seen'
        \/ Teardown([c EXCEPT !.attempts = 0], p.gen, todo)
    BY <1>4 DEF JoinFailed, Ask
  <2>2. QED
    BY <1>3, <2>1 DEF c
<1>5. QED
  BY <1>2, <1>3, <1>4 DEF c

LEMMA NotedGoesOn ==
  ASSUME NEW c \in CallRec, NEW status
  PROVE  GoesOn(c, Noted(c, status))
BY NotedIsCall DEF GoesOn

LEMMA GhostAnswered ==
  ASSUME BaseInv, GhostInv, NEW p, NEW status, Answered(p, status)
  PROVE  GhostInv'
<1>1. /\ p \in posts /\ ~p.ans /\ posts' = AnsweredPosts(p, status)
      /\ UNCHANGED <<sig, listed, hpb>>
      /\ p.gen # call.gen => LateReply(p, status)
      /\ p.gen = call.gen => OwnReply(p, status)
      /\ status = "ok" => p.srv = "in"
      /\ status \in {"ok", "transient", "notFound", "refused"}
  BY AnsweredFrame
<1>2. call \in CallRec
  BY DEF BaseInv, Base, CallInv
<1>3. \A d : PostsFrom(d, posts, posts')
  BY <1>1, AnsweredPostsFrom
<1>4. CASE p.gen # call.gen
  <2>1. UNCHANGED <<call, todo>> /\ leaves \subseteq leaves' /\ seen \subseteq seen'
    BY <1>1, <1>4 DEF LateReply
  <2>2. GoesOn(call, call') /\ ChecksKept(todo, todo')
    BY <2>1 DEF GoesOn, ChecksKept
  <2>3. QED
    BY <1>1, <1>3, <2>1, <2>2, NextGhost
<1>5. CASE p.gen = call.gen
  <2> DEFINE c == Noted(call, status)
             d == [c EXCEPT !.attempts = 0]
  <2>1. \/ /\ GoesOn(c, call') /\ todo \subseteq todo' /\ UNCHANGED leaves
            /\ seen \subseteq seen'
        \/ Teardown(d, p.gen, todo)
    BY <1>1, <1>2, <1>5, OwnReplyOutcome
  <2>2. c \in CallRec /\ GoesOn(call, c)
    BY <1>2, NotedIsCall, NotedGoesOn
  <2>3. Base(c, todo, posts', leaves, sig.room, listed)
    BY <1>1, <1>5, AnswerKeeps DEF BaseInv
  <2> HIDE DEF c
  <2>4. Base(d, todo, posts', leaves, sig.room, listed)
    BY <2>3, AttemptsAreOwn
  <2>5. GoesOn(c, d) /\ GoesOn(call, d)
    <3>1. GoesOn(c, d)
      BY <2>2, AttemptsGoOn
    <3>2. QED
      BY <2>2, <3>1 DEF GoesOn
  <2> HIDE DEF d
  <2>6. CASE Teardown(d, p.gen, todo)
    <3>1. ChecksKept(todo, todo)
      BY DEF ChecksKept
    <3>2. Ghost(d, todo, posts', leaves, listed, seen)
      BY <1>3, <2>5, <3>1, GoesOnGhost DEF GhostInv
    <3>3. Ghost(call', todo', posts', leaves', listed, seen')
      BY <2>4, <2>6, <3>2, TeardownGhost
    <3>4. QED
      BY <1>1, <3>3 DEF GhostInv
  <2>7. CASE GoesOn(c, call') /\ todo \subseteq todo' /\ UNCHANGED leaves /\ seen \subseteq seen'
    <3>1. GoesOn(call, call')
      BY <2>2, <2>7 DEF GoesOn
    <3>2. ChecksKept(todo, todo')
      BY <2>7 DEF ChecksKept
    <3>3. QED
      BY <1>1, <1>3, <2>7, <3>1, <3>2, NextGhost
  <2>8. QED
    BY <2>1, <2>6, <2>7
<1>6. QED
  BY <1>4, <1>5

(* A continuation w other than a check, done with: the call goes on or ends. *)
LEMMA GhostTodo ==
  ASSUME BaseInv, GhostInv, NEW w \in todo, w.kind # "check", UNCHANGED <<posts, listed>>,
         \/ /\ GoesOn(call, call') /\ todo \ {w} \subseteq todo' /\ UNCHANGED leaves
            /\ seen \subseteq seen'
         \/ \E c : /\ c = call \/ c = [call EXCEPT !.attempts = 0]
                   /\ Teardown(c, w.gen, todo \ {w})
  PROVE  GhostInv'
<1>1. call \in CallRec /\ ChecksKept(todo, todo \ {w})
  BY DEF BaseInv, Base, CallInv, ChecksKept
<1>2. CASE /\ GoesOn(call, call') /\ todo \ {w} \subseteq todo' /\ UNCHANGED leaves
           /\ seen \subseteq seen'
  <2>1. ChecksKept(todo, todo')
    BY <1>2 DEF ChecksKept
  <2>2. QED
    BY <1>2, <2>1, QuietGhost
<1>3. ASSUME NEW c, c = call \/ c = [call EXCEPT !.attempts = 0],
             Teardown(c, w.gen, todo \ {w})
      PROVE  GhostInv'
  <2>1. Base(call, todo \ {w}, posts, leaves, sig.room, listed)
    BY DropTodo DEF BaseInv
  <2>2. Base(c, todo \ {w}, posts, leaves, sig.room, listed)
    BY <1>3, <2>1, AttemptsAreOwn
  <2>3. GoesOn(call, call)
    BY DEF GoesOn
  <2>4. GoesOn(call, c)
    BY <1>1, <1>3, <2>3, AttemptsGoOn
  <2>5. PostsFrom(c, posts, posts)
    BY SamePostsFrom
  <2>6. Ghost(c, todo \ {w}, posts, leaves, listed, seen)
    BY <1>1, <2>4, <2>5, GoesOnGhost DEF GhostInv
  <2>7. Ghost(call', todo', posts, leaves', listed, seen')
    BY <1>3, <2>2, <2>6, TeardownGhost
  <2>8. QED
    BY <2>7 DEF GhostInv
<1>4. QED
  BY <1>2, <1>3

LEMMA GhostAsked ==
  ASSUME BaseInv, GhostInv, NEW w \in todo,
         \/ \E ok \in BOOLEAN : Verified(w, ok)
         \/ \E ok, others, known \in BOOLEAN : Reconciled(w, ok, others, known)
  PROVE  GhostInv'
<1>1. call \in CallRec
  BY DEF BaseInv, Base, CallInv
<1>2. GoesOn(call, call) /\ GoesOn(call, Confirmed(call))
  BY <1>1, ConfirmedGoesOn DEF GoesOn
<1>3. w.kind # "check" /\ UNCHANGED <<posts, listed>>
  BY DEF Verified, Reconciled
<1>4. \/ /\ call' = call \/ call' = Confirmed(call)
         /\ todo \ {w} \subseteq todo' /\ UNCHANGED leaves /\ seen \subseteq seen'
      \/ Teardown(call, w.gen, todo \ {w})
      \/ Teardown([call EXCEPT !.attempts = 0], w.gen, todo \ {w})
  BY DEF Verified, Reconciled
<1>5. QED
  BY <1>2, <1>3, <1>4, GhostTodo

LEMMA GhostRepost ==
  ASSUME BaseInv, GhostInv, NEW w \in todo, Repost(w)
  PROVE  GhostInv'
<1>1. /\ w.kind # "check" /\ todo' = todo \ {w} /\ UNCHANGED <<leaves, listed>>
      /\ seen \subseteq seen'
      /\ \/ UNCHANGED <<call, posts>>
         \/ call' = Sent(call, 1) /\ posts' = posts \cup NewPosts(call, 1)
  BY DEF Repost, Noticed
<1>2. call \in CallRec
  BY DEF BaseInv, Base, CallInv
<1>3. GoesOn(call, call') /\ PostsFrom(call', posts, posts')
  <2>1. CASE UNCHANGED <<call, posts>>
    BY <2>1, SamePostsFrom DEF GoesOn
  <2>2. CASE call' = Sent(call, 1) /\ posts' = posts \cup NewPosts(call, 1)
    BY <1>2, <2>2, SentPosts
  <2>3. QED
    BY <1>1, <2>1, <2>2
<1>4. ChecksKept(todo, todo')
  BY <1>1 DEF ChecksKept
<1>5. QED
  BY <1>1, <1>3, <1>4, NextGhost

LEMMA GhostChecked ==
  ASSUME BaseInv, GhostInv, NEW w \in todo, NEW ok, Checked(w, ok)
  PROVE  GhostInv'
<1>1. /\ UNCHANGED <<call, posts, listed>> /\ todo' = todo \ {w} /\ HoldIsOver(w.gen)
      /\ leaves \subseteq leaves' /\ seen \subseteq seen'
  BY DEF Checked
<1>2. CASE seen \cap Excuses # {}
  BY <1>1, <1>2 DEF GhostInv, Ghost
<1>3. CASE seen \cap Excuses = {}
  <2>1. OpenIsChecked(call, todo, posts) /\ ListedIsUndone(call, todo, leaves, listed)
    BY <1>3 DEF GhostInv, Ghost
  <2>2. OpenIsChecked(call, todo \ {w}, posts)
    BY <1>1, <2>1 DEF OpenIsChecked, HoldIsOver
  <2>3. ListedIsUndone(call, todo \ {w}, leaves', listed) \/ "skipped" \in seen'
    <3>1. CASE w.room # listed \/ listed = NoRoom
      BY <1>1, <2>1, <3>1 DEF ListedIsUndone
    <3>2. CASE w.room = listed /\ listed # NoRoom
      <4>1. listed = sig.room /\ call.posted \in Nat
        BY <3>2 DEF BaseInv, Base, CallInv, CallRec
      <4>2. CASE Rejoined(w.room)
        BY <3>2, <4>1, <4>2 DEF Checked, Rejoined, ListedIsUndone
      <4>3. CASE ~Rejoined(w.room)
        <5>1. SelfListed(w.room)
          BY <3>2, <4>1 DEF SelfListed
        <5> DEFINE l == [gen |-> w.gen, room |-> w.room, why |-> "check", left |-> MaxLeaves]
        <5>2. l \in leaves' /\ l.room = w.room
          BY <4>3, <5>1 DEF Checked
        <5>3. QED
          BY <3>2, <5>2 DEF ListedIsUndone
      <4>4. QED
        BY <4>2, <4>3
    <3>3. QED
      BY <3>1, <3>2
  <2>4. QED
    BY <1>1, <2>2, <2>3 DEF GhostInv, Ghost, Excuses
<1>4. QED
  BY <1>2, <1>3

LEMMA GhostDeclineAnswered ==
  ASSUME BaseInv, GhostInv, NEW w \in todo, DeclineAnswered(w)
  PROVE  GhostInv'
<1>1. /\ Base(call, todo \ {w}, posts', leaves, sig.room, listed')
      /\ \A q \in posts' : q.srv = "open"
           => \E p \in posts : p.srv = "open" /\ p.gen = q.gen /\ p.room = q.room
  BY DeclinedPosts
<1>2. /\ w.kind # "check" /\ todo' = (todo \ {w}) \cup PlanCheck(call)
      /\ leaves' = leaves \cup PlanLeave(call) /\ listed' \in {NoRoom, listed}
      /\ seen \subseteq seen'
  BY DEF DeclineAnswered
<1>3. GoesOn(call, call) /\ ChecksKept(todo, todo \ {w}) /\ PostsFrom(call, posts, posts')
  BY <1>1, <1>2 DEF GoesOn, ChecksKept, PostsFrom
<1>4. Ghost(call, todo \ {w}, posts', leaves, listed', seen)
  BY <1>2, <1>3, GoesOnGhost DEF GhostInv
<1>5. Ghost(call', (todo \ {w}) \cup PlanCheck(call), posts', leaves \cup PlanLeave(call),
            listed', seen')
  BY <1>1, <1>2, <1>4, EndGhost
<1>6. QED
  BY <1>2, <1>5 DEF GhostInv

LEMMA GhostSelfInCall ==
  ASSUME BaseInv, GhostInv, NEW r, SelfInCall(r)
  PROVE  GhostInv'
<1>1. call \in CallRec
  BY DEF BaseInv, Base, CallInv
<1>2. /\ UNCHANGED <<todo, posts, leaves, listed>> /\ seen \subseteq seen'
      /\ call' = Confirmed(call) \/ call' = call
  BY DEF SelfInCall
<1>3. GoesOn(call, call') /\ ChecksKept(todo, todo')
  BY <1>1, <1>2, ConfirmedGoesOn DEF GoesOn, ChecksKept
<1>4. QED
  BY <1>2, <1>3, QuietGhost

LEMMA GhostServer ==
  ASSUME BaseInv, GhostInv, NEW p \in posts, Commit(p) \/ GiveUp(p)
  PROVE  GhostInv'
<1>1. PICK v \in {"in", "no"} :
        /\ posts' = Settled((posts \ {p}) \cup {[p EXCEPT !.srv = v]}) /\ p.srv = "open"
        /\ listed' = p.room \/ listed' = listed
        /\ UNCHANGED <<call, todo, leaves, seen>>
  BY DEF Commit, GiveUp
<1> DEFINE f == Landing(posts, p, v)
<1>2. /\ posts \subseteq PostRec /\ PostOf(call, p, sig.room)
      /\ call.posted \in Nat
  BY DEF BaseInv, Base, PostInv, CallInv, CallRec
<1>3. LandingFields(posts, p, v) /\ posts' = Image(posts, f)
  BY <1>1, <1>2, LandingMaps
<1>4. Mapping(posts, f) /\ \A q \in posts : f[q].srv = "open" => q.srv = "open"
  BY <1>3 DEF LandingFields
<1> HIDE DEF f
<1>5. PostsFrom(call, posts, posts')
  BY <1>3, <1>4, ImagePostsFrom
<1>6. CASE seen \cap Excuses # {}
  BY <1>1, <1>6 DEF GhostInv, Ghost
<1>7. CASE OpenIsChecked(call, todo, posts) /\ ListedIsUndone(call, todo, leaves, listed)
  <2>1. OpenIsChecked(call, todo, posts')
    BY <1>5, <1>7 DEF OpenIsChecked, PostsFrom
  <2>2. ListedIsUndone(call, todo, leaves, p.room)
    BY <1>1, <1>2, <1>7 DEF PostOf, OpenIsChecked, ListedIsUndone
  <2>3. QED
    BY <1>1, <1>7, <2>1, <2>2 DEF GhostInv, Ghost
<1>8. QED
  BY <1>6, <1>7 DEF GhostInv, Ghost

LEMMA GhostLeave ==
  ASSUME BaseInv, GhostInv, NEW l \in leaves,
         LeaveDone(l) \/ \E done \in BOOLEAN : LeaveLost(l, done)
  PROVE  GhostInv'
<1>1. UNCHANGED <<call, todo, posts>> /\ seen \subseteq seen'
  BY DEF LeaveDone, LeaveLost
<1>2. l \in LeaveRec /\ leaves \subseteq LeaveRec
  BY DEF BaseInv, Base, LeaveInv
<1> DEFINE k == [l EXCEPT !.left = @ - 1]
<1>3. k.room = l.room
  BY <1>2 DEF LeaveRec
<1>4. /\ leaves \ {l} \subseteq leaves'
      /\ \/ listed' = NoRoom
         \/ listed' = listed /\ (listed = l.room => k \in leaves' \/ "giveUp" \in seen')
  <2>1. CASE LeaveDone(l)
    BY <2>1 DEF LeaveDone
  <2>2. ASSUME NEW done \in BOOLEAN, LeaveLost(l, done)
        PROVE  /\ leaves \ {l} \subseteq leaves'
               /\ \/ listed' = NoRoom
                  \/ listed' = listed /\ (listed = l.room => k \in leaves' \/ "giveUp" \in seen')
    <3>1. l.left > 1 \/ l.left = 1
      BY <1>2 DEF LeaveRec
    <3>2. leaves' = (leaves \ {l}) \cup IF l.left > 1 THEN {k} ELSE {}
      BY <2>2 DEF LeaveLost
    <3>3. /\ listed' = IF done /\ listed = l.room THEN NoRoom ELSE listed
          /\ ~done /\ l.left = 1 => "giveUp" \in seen'
      BY <2>2 DEF LeaveLost
    <3> HIDE DEF k
    <3>4. QED
      BY <3>1, <3>2, <3>3
  <2>3. QED
    BY <2>1, <2>2
<1> HIDE DEF k
<1>5. CASE seen \cap Excuses # {}
  BY <1>1, <1>5 DEF GhostInv, Ghost
<1>6. CASE OpenIsChecked(call, todo, posts) /\ ListedIsUndone(call, todo, leaves, listed)
  <2>1. ListedIsUndone(call, todo, leaves', listed') \/ "giveUp" \in seen'
    BY <1>3, <1>4, <1>6 DEF ListedIsUndone
  <2>2. QED
    BY <1>1, <1>6, <2>1 DEF GhostInv, Ghost, Excuses
<1>7. QED
  BY <1>5, <1>6 DEF GhostInv, Ghost

LEMMA GhostStep == BaseInv /\ GhostInv /\ [Next]_vars => GhostInv'
<1>1. SUFFICES ASSUME BaseInv, GhostInv, [Next]_vars
               PROVE  GhostInv'
  OBVIOUS
<1>2. CASE UNCHANGED vars
  BY <1>1, <1>2 DEF vars, GhostInv
<1>3. CASE \E r \in Rooms : StartCall(r) \/ SelfInCall(r)
  BY <1>1, <1>3, GhostBegin, GhostSelfInCall
<1>4. CASE AcceptCall \/ EndCall \/ PeerLeaves
  BY <1>1, <1>4, GhostBegin, GhostEnd, GhostPeerLeaves
<1>5. CASE PeerJoins \/ PeerReturns \/ MediaUp \/ MediaDown \/ DeclineCall
           \/ \E r \in Rooms : \E remote \in {"none", "here"} : Ring(r, remote)
  BY <1>1, <1>5, GhostPeer
<1>6. CASE SessionReset \/ RoomAcked
  BY <1>1, <1>6, GhostReset, GhostRoomAcked
<1>7. CASE \E w \in todo : WaitTimeout(w) \/ RejoinListed(w) \/ RejoinProceeds(w)
  BY <1>1, <1>7, GhostWaitTimeout, GhostRejoin
<1>8. CASE \E w \in todo : RejoinFails(w) \/ Repost(w) \/ DeclineAnswered(w)
  BY <1>1, <1>8, GhostRejoinFails, GhostRepost, GhostDeclineAnswered
<1>9. CASE \E w \in todo : \E ok \in BOOLEAN : Checked(w, ok)
  BY <1>1, <1>9, GhostChecked
<1>10. CASE \E w \in todo : \/ \E ok \in BOOLEAN : Verified(w, ok)
                            \/ \E ok, others, known \in BOOLEAN :
                                 Reconciled(w, ok, others, known)
  BY <1>1, <1>10, GhostAsked
<1>11. CASE \E p \in posts : Commit(p) \/ GiveUp(p)
  BY <1>1, <1>11, GhostServer
<1>12. CASE \E p \in posts : \E status \in {"ok", "transient", "notFound", "refused"} :
              Answered(p, status)
  BY <1>1, <1>12, GhostAnswered
<1>13. CASE \E l \in leaves : LeaveDone(l) \/ \E done \in BOOLEAN : LeaveLost(l, done)
  BY <1>1, <1>13, GhostLeave
<1>14. QED
  BY <1>1, <1>2, <1>3, <1>4, <1>5, <1>6, <1>7, <1>8, <1>9, <1>10, <1>11, <1>12,
     <1>13 DEF Next

LEMMA SpecGhost == Spec => []GhostInv
<1>1. Init => GhostInv
  <2>1. Init => posts = {} /\ listed = NoRoom
    BY DEF Init
  <2>2. QED
    BY <2>1 DEF GhostInv, Ghost, OpenIsChecked, ListedIsUndone
<1>2. QED
  BY <1>1, SpecBase, GhostStep, PTL DEF Spec

(* NoGhost: whatever POST is written late, the server goes on listing the  *)
(* device in an ended call only until a leave or the late-commit check, or *)
(* for one of the three recorded causes.                                   *)
THEOREM SpecNoGhost == Spec => []NoGhost
<1>1. GhostInv => NoGhost
  BY DEF GhostInv, Ghost, ListedIsUndone, NoGhost, Undoing, Excuses
<1>2. QED
  BY <1>1, SpecGhost, PTL

-----------------------------------------------------------------------------
(* ConfirmedIsListed: from the moment the server has written a POST of the *)
(* call, confirmed or not, it goes on listing the device in it.            *)
Disruptions == {"oldLeave", "staleUpdate", "stolen", "leftRoom", "resetRinging",
                "unregistered"}
Disrupted == seen \cap Disruptions # {}

(* The call c is confirmed, or its POST is written and the reply to come. *)
Joined(c, ps) == /\ c.phase \in Live
                 /\ c.confirmed \/ \E p \in ps : p.gen = c.gen /\ p.srv = "in"

(* p is to register a new session with the call of generation g. *)
Registers(p, g) == p.gen = g /\ p.silent /\ ~p.ans /\ p.srv # "in"
Registering(c, ps) == \E p \in ps : Registers(p, c.gen)

KeptInv == Joined(call, posts)
             => listed = call.room \/ Registering(call, posts) \/ Disrupted

(* No POST of generation g is newly written, and one that registers goes on. *)
PostsStay(g, ps, ps2) ==
  /\ \A q \in ps2 : q.gen = g /\ q.srv = "in" => \E p \in ps : p.gen = g /\ p.srv = "in"
  /\ \A p \in ps : Registers(p, g) => \E q \in ps2 : Registers(q, g)

LEMMA KeptStays ==
  ASSUME KeptInv, call'.gen = call.gen, call'.room = call.room,
         call'.phase \in Live => call.phase \in Live,
         call'.confirmed => call.confirmed, PostsStay(call.gen, posts, posts'),
         Joined(call, posts) /\ call'.phase \in Live /\ listed = call.room
           => listed' = call.room \/ Disrupted',
         seen \cap Disruptions \subseteq seen'
  PROVE  KeptInv'
<1>1. SUFFICES ASSUME Joined(call', posts')
               PROVE  listed' = call'.room \/ Registering(call', posts') \/ Disrupted'
  BY DEF KeptInv
<1>2. Joined(call, posts) /\ call'.phase \in Live
  BY <1>1 DEF Joined, PostsStay
<1>3. CASE listed = call.room
  BY <1>2, <1>3
<1>4. CASE Registering(call, posts)
  BY <1>4 DEF Registering, PostsStay
<1>5. CASE Disrupted
  BY <1>5 DEF Disrupted
<1>6. QED
  BY <1>2, <1>3, <1>4, <1>5 DEF KeptInv

LEMMA SameStay ==
  ASSUME NEW g, NEW ps
  PROVE  PostsStay(g, ps, ps)
BY DEF PostsStay

LEMMA NewPostsStay ==
  ASSUME NEW g, NEW c, NEW k
  PROVE  PostsStay(g, posts, posts \cup NewPosts(c, k))
<1>1. \A q \in NewPosts(c, k) : q.srv # "in"
  BY DEF NewPosts, NewPost
<1>2. QED
  BY <1>1 DEF PostsStay

LEMMA ImageStay ==
  ASSUME NEW g, NEW ps, NEW f, Mapping(ps, f),
         \A p \in ps : p.gen = g /\ f[p].srv = "in" => p.srv = "in",
         \A p \in ps : Registers(p, g) => ~f[p].ans /\ f[p].srv # "in"
  PROVE  PostsStay(g, ps, Image(ps, f))
<1>1. /\ \A q \in Image(ps, f) : \E p \in ps : q = f[p]
      /\ \A p \in ps : ~f[p].ans => f[p] \in Image(ps, f)
  BY ImageElements
<1>2. ASSUME NEW q \in Image(ps, f), q.gen = g, q.srv = "in"
      PROVE  \E p \in ps : p.gen = g /\ p.srv = "in"
  BY <1>1, <1>2 DEF Mapping
<1>3. ASSUME NEW p \in ps, Registers(p, g)
      PROVE  \E q \in Image(ps, f) : Registers(q, g)
  <2>1. f[p] \in Image(ps, f) /\ ~f[p].ans /\ f[p].srv # "in"
    BY <1>1, <1>3
  <2>2. f[p].gen = g /\ f[p].silent
    BY <1>3 DEF Mapping, Registers
  <2>3. QED
    BY <2>1, <2>2 DEF Registers
<1>4. QED
  BY <1>2, <1>3 DEF PostsStay

LEMMA RetiredStay ==
  ASSUME NEW g, NEW ps, ps \subseteq PostRec
  PROVE  PostsStay(g, ps, Settled(Retired(ps)))
<1> DEFINE f == Retiring(ps, ps)
<1>1. RetiringFields(ps, ps) /\ Settled((ps \ ps) \cup Retired(ps)) = Image(ps, f)
  BY RetiringMaps
<1>2. (ps \ ps) \cup Retired(ps) = Retired(ps)
  OBVIOUS
<1>3. /\ Mapping(ps, f)
      /\ \A p \in ps : p.gen = g /\ f[p].srv = "in" => p.srv = "in"
      /\ \A p \in ps : Registers(p, g) => ~f[p].ans /\ f[p].srv # "in"
  BY <1>1 DEF RetiringFields, Registers
<1> HIDE DEF f
<1>4. PostsStay(g, ps, Image(ps, f))
  BY <1>3, ImageStay
<1>5. QED
  BY <1>1, <1>2, <1>4

LEMMA RoomStay ==
  ASSUME BaseInv, NEW g, NEW r, MoveTo(r) \/ StayPut \/ RestoreRoom(r)
  PROVE  PostsStay(g, posts, posts')
<1>1. posts' = posts \/ posts' = Settled(Retired(posts))
  BY DEF MoveTo, StayPut, RestoreRoom
<1>2. posts \subseteq PostRec
  BY DEF BaseInv, Base, PostInv
<1>3. QED
  BY <1>1, <1>2, SameStay, RetiredStay

LEMMA AnsweredStay ==
  ASSUME BaseInv, NEW g, NEW p \in posts, NEW status, ~Registers(p, g)
  PROVE  PostsStay(g, posts, AnsweredPosts(p, status))
<1> DEFINE f == Answering(posts, p, status)
<1>1. posts \subseteq PostRec
  BY DEF BaseInv, Base, PostInv
<1>2. /\ Mapping(posts, f) /\ AnsweredPosts(p, status) = Image(posts, f)
      /\ \A q \in posts : f[q].srv = "in" => q.srv = "in"
      /\ \A q \in posts : q # p /\ ~q.ans => ~f[q].ans
      /\ \A q \in posts : q # p /\ q.srv # "in" => f[q].srv # "in"
  BY <1>1, AnsweringMaps
<1> HIDE DEF f
<1>3. \A q \in posts : Registers(q, g) => ~f[q].ans /\ f[q].srv # "in"
  BY <1>2 DEF Registers
<1>4. PostsStay(g, posts, Image(posts, f))
  BY <1>2, <1>3, ImageStay
<1>5. QED
  BY <1>2, <1>4

(* A call that has posted nothing yet has not joined. *)
LEMMA KeptBegin ==
  ASSUME BaseInv, AcceptCall \/ \E r \in Rooms : StartCall(r)
  PROVE  KeptInv'
<1>1. PICK c : Beginning(c)
  BY StartBegins, AcceptBegins
<1>2. c \in CallRec /\ \A p \in posts : p.gen # c.gen
  <2>1. /\ c \in CallRec /\ c.posted = 0
        /\ \A p \in posts : p.gen = c.gen => p.n \in 1 .. c.posted
    BY <1>1 DEF Beginning, Fresh, Base, CallInv, PostInv, PostOf
  <2>2. QED
    BY <2>1
<1>3. call'.gen = c.gen /\ ~call'.confirmed
  BY <1>1, <1>2, SentIsCall DEF EnsureRoom, Beginning
<1>4. PostsStay(c.gen, posts, posts')
  BY <1>1, NewPostsStay, RoomStay DEF EnsureRoom, Beginning
<1>5. ~Joined(call', posts')
  BY <1>2, <1>3, <1>4 DEF Joined, PostsStay
<1>6. QED
  BY <1>5 DEF KeptInv

(* No call is left that could have joined. *)
LEMMA KeptEnd ==
  ASSUME call'.phase \notin Live
  PROVE  KeptInv'
BY DEF KeptInv, Joined

LEMMA EndIsIdle ==
  ASSUME NEW c \in CallRec,
         call' = [Reset(c, FALSE) EXCEPT !.phase = "Idle", !.room = NoRoom, !.remote = "none"]
  PROVE  call'.phase = "Idle" /\ call'.phase \notin Live
<1>1. Reset(c, FALSE) \in CallRec
  BY ResetIsCall
<1>2. call'.phase = "Idle"
  BY <1>1 DEF CallRec
<1>3. QED
  BY <1>2 DEF Live

LEMMA TeardownIsIdle ==
  ASSUME NEW c, c = call \/ c = [call EXCEPT !.attempts = 0], call \in CallRec,
         NEW g, NEW rest, Teardown(c, g, rest)
  PROVE  call'.phase = "Idle" /\ call'.phase \notin Live
<1>1. c \in CallRec
  BY DEF CallRec
<1>2. QED
  BY <1>1, EndIsIdle DEF Teardown

LEMMA KeptQuiet ==
  ASSUME BaseInv, KeptInv,
         \/ PeerJoins \/ PeerReturns \/ PeerLeaves \/ MediaUp \/ MediaDown \/ DeclineCall
         \/ EndCall \/ \E r \in Rooms : \E remote \in {"none", "here"} : Ring(r, remote)
  PROVE  KeptInv'
<1>1. call \in CallRec
  BY DEF BaseInv, Base, CallInv
<1>2. CASE EndCall \/ (PeerLeaves /\ call.room \notin Pairs)
  BY <1>1, <1>2, TeardownIsIdle, KeptEnd DEF EndCall, PeerLeaves
<1>3. CASE DeclineCall \/ \E r \in Rooms : \E remote \in {"none", "here"} : Ring(r, remote)
  <2>1. call'.phase \in {"Ending", "Incoming"}
    BY <1>1, <1>3 DEF DeclineCall, Ring, CallRec
  <2>2. QED
    BY <2>1, KeptEnd DEF Live
<1>4. CASE PeerJoins \/ PeerReturns \/ MediaUp \/ MediaDown
           \/ (PeerLeaves /\ call.room \in Pairs)
  <2>1. /\ call'.gen = call.gen /\ call'.room = call.room /\ call'.confirmed = call.confirmed
        /\ call'.phase \in Live => call.phase \in Live
    <3>1. CASE PeerJoins
      BY <1>1, <3>1 DEF PeerJoins, CallRec, Live
    <3>2. CASE PeerReturns
      BY <1>1, <3>2 DEF PeerReturns, CallRec, Live
    <3>3. CASE MediaUp \/ MediaDown
      BY <1>1, <3>3 DEF MediaUp, MediaDown, CallRec, Live
    <3>4. CASE PeerLeaves /\ call.room \in Pairs
      BY <1>1, <3>4 DEF PeerLeaves, CallRec, Live
    <3>5. QED
      BY <1>4, <3>1, <3>2, <3>3, <3>4
  <2>2. UNCHANGED <<posts, listed, seen>>
    BY <1>4 DEF PeerJoins, PeerReturns, MediaUp, MediaDown, PeerLeaves
  <2>3. PostsStay(call.gen, posts, posts')
    BY <2>2, SameStay
  <2>4. QED
    BY <2>1, <2>2, <2>3, KeptStays
<1>5. QED
  BY <1>2, <1>3, <1>4

LEMMA KeptReset ==
  ASSUME BaseInv, KeptInv, SessionReset
  PROVE  KeptInv'
<1>1. call \in CallRec
  BY DEF BaseInv, Base, CallInv
<1>2. CASE call.phase \in RegisterPhases
  <2> DEFINE c == Sent(call, 1)
             p == NewPost(call, call.posted + 1, TRUE)
  <2>1. c \in CallRec /\ c.gen = call.gen
    BY <1>1, SentIsCall
  <2>2. call' = [c EXCEPT !.phase = "Reconnecting"] /\ p \in posts'
    BY <1>2 DEF SessionReset
  <2> HIDE DEF c
  <2>3. call'.gen = call.gen
    BY <2>1, <2>2 DEF CallRec
  <2>4. Registers(p, call'.gen)
    BY <2>3 DEF Registers, NewPost
  <2> HIDE DEF p
  <2>5. QED
    BY <2>2, <2>4 DEF KeptInv, Registering
<1>3. CASE call.phase \notin RegisterPhases
  <2>1. call' = call
    BY <1>3 DEF SessionReset
  <2>2. CASE call.phase = "Outgoing"
    BY <2>2 DEF SessionReset, KeptInv, Disrupted, Disruptions
  <2>3. CASE call.phase # "Outgoing"
    BY <1>3, <2>1, <2>3, KeptEnd DEF Live, RegisterPhases
  <2>4. QED
    BY <2>2, <2>3
<1>4. QED
  BY <1>2, <1>3

(* POSTs are sent. *)
LEMMA KeptSends ==
  ASSUME BaseInv, KeptInv, NEW k \in Nat,
         call' = Sent(call, k) /\ posts' = posts \cup NewPosts(call, k),
         UNCHANGED listed, seen \subseteq seen'
  PROVE  KeptInv'
<1>1. call \in CallRec
  BY DEF BaseInv, Base, CallInv
<1>2. /\ call'.gen = call.gen /\ call'.room = call.room /\ call'.phase = call.phase
      /\ call'.confirmed = call.confirmed
  BY <1>1, SentIsCall
<1>3. PostsStay(call.gen, posts, posts')
  BY NewPostsStay
<1>4. QED
  BY <1>2, <1>3, KeptStays

LEMMA KeptRoomAcked ==
  ASSUME BaseInv, KeptInv, RoomAcked
  PROVE  KeptInv'
<1> DEFINE F == {w \in Listeners : Fires(w)}
           n == Cardinality(F)
<1>1. n \in Nat
  <2>1. F \in SUBSET todo /\ IsFiniteSet(todo)
    BY DEF Listeners, BaseInv, Base, TodoInv
  <2>2. QED
    BY <2>1, FS_Subset, FS_CardinalityType
<1>2. call' = Sent(call, n) /\ posts' = posts \cup NewPosts(call, n) /\ UNCHANGED listed
  BY DEF RoomAcked
<1> HIDE DEF n, F
<1>3. seen \subseteq seen'
  BY AckedSeen
<1>4. QED
  BY <1>1, <1>2, <1>3, KeptSends

(* The handlers that leave the call, its POSTs and the listing alone. *)
LEMMA KeptAlone ==
  ASSUME KeptInv, UNCHANGED <<call, posts, listed>>, seen \subseteq seen'
  PROVE  KeptInv'
<1>1. PostsStay(call.gen, posts, posts')
  BY SameStay
<1>2. QED
  BY <1>1, KeptStays

(* The retry moves the socket: what that takes from the call has a name. *)
LEMMA MoveIsDisrupting ==
  ASSUME BaseInv, NEW w \in todo, Joined(call, posts), listed = call.room
  PROVE  Disturbed(w) \cap Disruptions # {}
<1>1. call.phase \in Live /\ call.room # NoRoom
  BY DEF Joined, Live, BaseInv, Base, CallInv
<1>2. CASE call.room # w.room
  <2>1. sig.room = call.room
    BY <1>1 DEF BaseInv, Base
  <2>2. "stolen" \in Disturbed(w)
    BY <1>1, <1>2, <2>1 DEF Disturbed
  <2>3. QED
    BY <2>2 DEF Disruptions
<1>3. CASE call.room = w.room
  <2>1. call.flying > 0 \/ call.confirmed
    <3>1. CASE call.confirmed
      BY <3>1
    <3>2. ASSUME NEW p \in posts, p.gen = call.gen, p.srv = "in"
          PROVE  call.flying > 0
      <4>1. ~p.ans
        BY <3>2 DEF BaseInv, Base, PostInv, PostOf
      <4>2. QED
        BY <3>2, <4>1, OwnIsFlying DEF BaseInv
    <3>3. QED
      BY <3>1, <3>2 DEF Joined
  <2>2. "leftRoom" \in Disturbed(w)
    BY <1>1, <1>3, <2>1 DEF Disturbed
  <2>3. QED
    BY <2>2 DEF Disruptions
<1>4. QED
  BY <1>2, <1>3

LEMMA KeptRejoin ==
  ASSUME BaseInv, KeptInv, NEW w \in todo,
         RejoinListed(w) \/ RejoinProceeds(w) \/ (RejoinFails(w) /\ ~StillWanted(w.gen))
  PROVE  KeptInv'
<1>1. /\ call' = call /\ seen' = Disturbed(w)
      /\ \/ MoveTo(w.room) \/ StayPut \/ RestoreRoom(w.room)
         \/ posts' = Settled(Retired(posts))
  BY DEF RejoinListed, RejoinProceeds, RejoinFails
<1>2. seen \subseteq seen'
  BY <1>1 DEF Disturbed, Noticed
<1>3. PostsStay(call.gen, posts, posts')
  <2>1. posts \subseteq PostRec
    BY DEF BaseInv, Base, PostInv
  <2>2. QED
    BY <1>1, <2>1, RoomStay, RetiredStay
<1>4. Joined(call, posts) /\ listed = call.room => Disrupted'
  BY <1>1, MoveIsDisrupting DEF Disrupted
<1>5. QED
  BY <1>1, <1>2, <1>3, <1>4, KeptStays

LEMMA KeptRejoinFails ==
  ASSUME BaseInv, KeptInv, NEW w \in todo, RejoinFails(w)
  PROVE  KeptInv'
<1>1. CASE StillWanted(w.gen)
  <2>1. Teardown([call EXCEPT !.attempts = 0], w.gen, todo \ {w}) /\ call \in CallRec
    BY <1>1 DEF RejoinFails, BaseInv, Base, CallInv
  <2>2. QED
    BY <2>1, TeardownIsIdle, KeptEnd
<1>2. QED
  BY <1>1, KeptRejoin

LEMMA KeptAnswered ==
  ASSUME BaseInv, KeptInv, NEW p, NEW status, Answered(p, status)
  PROVE  KeptInv'
<1>1. /\ p \in posts /\ ~p.ans /\ posts' = AnsweredPosts(p, status)
      /\ UNCHANGED <<sig, listed, hpb>>
      /\ p.gen # call.gen => LateReply(p, status)
      /\ p.gen = call.gen => OwnReply(p, status)
      /\ status = "ok" => p.srv = "in"
  BY AnsweredFrame
<1>2. call \in CallRec
  BY DEF BaseInv, Base, CallInv
<1>3. ~Registers(p, call.gen) => PostsStay(call.gen, posts, posts')
  BY <1>1, AnsweredStay
<1>4. CASE p.gen # call.gen
  <2>1. UNCHANGED call /\ seen \subseteq seen'
    BY <1>1, <1>4 DEF LateReply
  <2>2. PostsStay(call.gen, posts, posts')
    BY <1>3, <1>4 DEF Registers
  <2>3. QED
    BY <1>1, <2>1, <2>2, KeptStays
<1>5. CASE p.gen = call.gen
  <2> DEFINE c == Noted(call, status)
  <2>1. /\ c \in CallRec /\ c.gen = call.gen /\ c.room = call.room /\ c.phase = call.phase
        /\ c.confirmed = call.confirmed
    BY <1>2, NotedIsCall
  <2>2. \/ status = "ok" /\ call' = Confirmed(c) /\ UNCHANGED seen
        \/ "unregistered" \in seen'
        \/ ~p.silent /\ JoinFailed(p, c, status)
    BY <1>1, <1>5 DEF OwnReply
  <2>3. \A n : /\ [c EXCEPT !.attempts = n].gen = c.gen /\ [c EXCEPT !.attempts = n].room = c.room
               /\ [c EXCEPT !.attempts = n].phase = c.phase
               /\ [c EXCEPT !.attempts = n].confirmed = c.confirmed
               /\ [c EXCEPT !.rejoins = n].gen = c.gen /\ [c EXCEPT !.rejoins = n].room = c.room
               /\ [c EXCEPT !.rejoins = n].phase = c.phase
               /\ [c EXCEPT !.rejoins = n].confirmed = c.confirmed
    BY <2>1 DEF CallRec
  <2> HIDE DEF c
  <2>4. CASE "unregistered" \in seen'
    BY <2>4 DEF KeptInv, Disrupted, Disruptions
  <2>5. CASE ~p.silent /\ JoinFailed(p, c, status)
    <3>1. PostsStay(call.gen, posts, posts')
      BY <1>3, <2>5 DEF Registers
    <3>2. CASE Teardown([c EXCEPT !.attempts = 0], p.gen, todo)
      <4>1. [c EXCEPT !.attempts = 0] \in CallRec
        BY <2>1 DEF CallRec
      <4>2. call'.phase \notin Live
        BY <3>2, <4>1, EndIsIdle DEF Teardown
      <4>3. QED
        BY <4>2, KeptEnd
    <3>3. CASE /\ call' = c \/ call' = [c EXCEPT !.attempts = @ + 1]
                  \/ call' = [c EXCEPT !.rejoins = @ + 1]
               /\ seen \subseteq seen'
      <4>1. /\ call'.gen = call.gen /\ call'.room = call.room /\ call'.phase = call.phase
            /\ call'.confirmed = call.confirmed
        BY <2>1, <2>3, <3>3
      <4>2. QED
        BY <1>1, <3>1, <3>3, <4>1, KeptStays
    <3>4. QED
      BY <2>5, <3>2, <3>3 DEF JoinFailed, Ask
  <2>6. CASE status = "ok" /\ call' = Confirmed(c) /\ UNCHANGED seen
    <3>1. /\ call'.gen = call.gen /\ call'.room = call.room /\ call'.phase = call.phase
      BY <2>1, <2>6, ConfirmedIsCall
    <3>2. p.srv = "in" /\ PostsStay(call.gen, posts, posts')
      BY <1>1, <1>3, <2>6 DEF Registers
    <3>3. Joined(call', posts') => Joined(call, posts)
      BY <1>1, <1>5, <3>1, <3>2 DEF Joined
    <3>4. Registering(call, posts) => Registering(call', posts')
      BY <3>1, <3>2 DEF Registering, PostsStay
    <3>5. QED
      BY <1>1, <2>6, <3>1, <3>3, <3>4 DEF KeptInv, Disrupted
  <2>7. QED
    BY <2>2, <2>4, <2>5, <2>6
<1>6. QED
  BY <1>4, <1>5

(* A confirmation while the server lists the device. *)
LEMMA KeptConfirmed ==
  ASSUME BaseInv, KeptInv, call' = Confirmed(call), UNCHANGED <<posts, listed>>,
         seen \subseteq seen',
         call.phase \in Live => call.confirmed \/ listed = call.room \/ Disrupted'
  PROVE  KeptInv'
<1>1. call \in CallRec
  BY DEF BaseInv, Base, CallInv
<1>2. call'.gen = call.gen /\ call'.room = call.room /\ call'.phase = call.phase
  BY <1>1, ConfirmedIsCall
<1>3. Joined(call', posts') => Joined(call, posts) \/ listed = call.room \/ Disrupted'
  BY <1>2 DEF Joined
<1>4. Registering(call, posts) => Registering(call', posts')
  BY <1>2 DEF Registering
<1>5. Disrupted => Disrupted'
  BY DEF Disrupted
<1>6. QED
  BY <1>2, <1>3, <1>4, <1>5 DEF KeptInv

LEMMA KeptAsked ==
  ASSUME BaseInv, KeptInv, NEW w \in todo,
         \/ \E ok \in BOOLEAN : Verified(w, ok)
         \/ \E ok, others, known \in BOOLEAN : Reconciled(w, ok, others, known)
  PROVE  KeptInv'
<1>1. call \in CallRec /\ (w.gen = call.gen => w.room = call.room)
  BY DEF BaseInv, Base, CallInv, TodoInv, TodoOf
<1>2. UNCHANGED <<posts, listed>>
  BY DEF Verified, Reconciled
<1>3. \/ UNCHANGED <<call, seen>>
      \/ /\ call' = Confirmed(call) /\ UNCHANGED seen /\ w.gen = call.gen
         /\ call.confirmed \/ SelfListed(w.room)
      \/ Teardown(call, w.gen, todo \ {w})
      \/ Teardown([call EXCEPT !.attempts = 0], w.gen, todo \ {w})
  BY DEF Verified, Reconciled
<1>4. CASE UNCHANGED <<call, seen>>
  BY <1>2, <1>4, KeptAlone
<1>5. CASE /\ call' = Confirmed(call) /\ UNCHANGED seen /\ w.gen = call.gen
           /\ call.confirmed \/ SelfListed(w.room)
  BY <1>1, <1>2, <1>5, KeptConfirmed DEF SelfListed
<1>6. CASE \/ Teardown(call, w.gen, todo \ {w})
           \/ Teardown([call EXCEPT !.attempts = 0], w.gen, todo \ {w})
  BY <1>1, <1>6, TeardownIsIdle, KeptEnd
<1>7. QED
  BY <1>3, <1>4, <1>5, <1>6

LEMMA KeptRepost ==
  ASSUME BaseInv, KeptInv, NEW w \in todo, Repost(w)
  PROVE  KeptInv'
<1>1. UNCHANGED listed /\ seen \subseteq seen'
  BY DEF Repost, Noticed
<1>2. CASE UNCHANGED <<call, posts>>
  BY <1>1, <1>2, KeptAlone
<1>3. CASE call' = Sent(call, 1) /\ posts' = posts \cup NewPosts(call, 1)
  BY <1>1, <1>3, KeptSends
<1>4. QED
  BY <1>2, <1>3 DEF Repost

LEMMA KeptSelfInCall ==
  ASSUME BaseInv, KeptInv, NEW r, SelfInCall(r)
  PROVE  KeptInv'
<1>1. UNCHANGED <<posts, listed>> /\ seen \subseteq seen'
  BY DEF SelfInCall
<1>2. CASE UNCHANGED call
  BY <1>1, <1>2, KeptAlone
<1>3. CASE call' = Confirmed(call) /\ r = call.room /\ (listed # r => "staleUpdate" \in seen')
  BY <1>1, <1>3, KeptConfirmed DEF Disrupted, Disruptions
<1>4. QED
  BY <1>2, <1>3 DEF SelfInCall

LEMMA KeptServer ==
  ASSUME BaseInv, KeptInv, NEW p \in posts, Commit(p) \/ GiveUp(p)
  PROVE  KeptInv'
<1>1. PICK v \in {"in", "no"} :
        /\ posts' = Settled((posts \ {p}) \cup {[p EXCEPT !.srv = v]}) /\ p.srv = "open"
        /\ listed' = (IF v = "in" THEN p.room ELSE listed)
        /\ UNCHANGED <<call, seen>>
  BY DEF Commit, GiveUp
<1> DEFINE f == Landing(posts, p, v)
<1>2. /\ posts \subseteq PostRec /\ PostOf(call, p, sig.room)
  BY DEF BaseInv, Base, PostInv
<1>3. LandingFields(posts, p, v) /\ posts' = Image(posts, f)
  BY <1>1, <1>2, LandingMaps
<1>4. /\ Mapping(posts, f) /\ \A q \in posts : f[q].ans = q.ans
      /\ \A q \in posts : f[q].srv = IF q = p THEN v ELSE q.srv
  BY <1>3 DEF LandingFields
<1> HIDE DEF f
<1>5. CASE v = "in" /\ p.gen = call.gen
  <2>1. p.room = call.room
    BY <1>2, <1>5 DEF PostOf
  <2>2. QED
    BY <1>1, <1>5, <2>1 DEF KeptInv
<1>6. CASE v = "no" \/ p.gen # call.gen
  <2>1. \A q \in posts : q.gen = call.gen /\ f[q].srv = "in" => q.srv = "in"
    BY <1>4, <1>6
  <2>2. \A q \in posts : Registers(q, call.gen) => ~f[q].ans /\ f[q].srv # "in"
    BY <1>4, <1>6 DEF Registers
  <2>3. PostsStay(call.gen, posts, posts')
    BY <1>3, <1>4, <2>1, <2>2, ImageStay
  <2>4. call.phase \in Live /\ listed = call.room => listed' = call.room
    <3>1. call.phase \in Live /\ listed = call.room => call.room = sig.room
      BY DEF BaseInv, Base, CallInv, Live
    <3>2. p.room = sig.room
      BY <1>1, <1>2 DEF PostOf
    <3>3. QED
      BY <1>1, <3>1, <3>2
  <2>5. QED
    BY <1>1, <2>3, <2>4, KeptStays
<1>7. QED
  BY <1>5, <1>6

LEMMA KeptLeave ==
  ASSUME BaseInv, KeptInv, NEW l \in leaves,
         LeaveDone(l) \/ \E done \in BOOLEAN : LeaveLost(l, done)
  PROVE  KeptInv'
<1>1. UNCHANGED <<call, posts>> /\ seen \subseteq seen'
  BY DEF LeaveDone, LeaveLost
<1>2. l.gen = call.gen => call.phase = "Ending"
  BY DEF BaseInv, Base, LeaveInv, LeaveOf
<1>3. listed' = listed \/ (listed = l.room /\ (HitsNewCall(l) => "oldLeave" \in seen'))
  BY DEF LeaveDone, LeaveLost
<1>4. call.phase \in Live /\ listed = call.room => listed' = call.room \/ Disrupted'
  BY <1>2, <1>3 DEF HitsNewCall, Live, Disrupted, Disruptions
<1>5. PostsStay(call.gen, posts, posts')
  BY <1>1, SameStay
<1>6. QED
  BY <1>1, <1>4, <1>5, KeptStays

LEMMA KeptStep == BaseInv /\ KeptInv /\ [Next]_vars => KeptInv'
<1>1. SUFFICES ASSUME BaseInv, KeptInv, [Next]_vars
               PROVE  KeptInv'
  OBVIOUS
<1>2. CASE UNCHANGED vars
  BY <1>1, <1>2, KeptAlone DEF vars
<1>3. CASE AcceptCall \/ \E r \in Rooms : StartCall(r) \/ SelfInCall(r)
  BY <1>1, <1>3, KeptBegin, KeptSelfInCall
<1>4. CASE \/ PeerJoins \/ PeerReturns \/ PeerLeaves \/ MediaUp \/ MediaDown \/ DeclineCall
           \/ EndCall \/ \E r \in Rooms : \E remote \in {"none", "here"} : Ring(r, remote)
  BY <1>1, <1>4, KeptQuiet
<1>5. CASE SessionReset \/ RoomAcked
  BY <1>1, <1>5, KeptReset, KeptRoomAcked
<1>6. CASE \E w \in todo : RejoinListed(w) \/ RejoinProceeds(w) \/ RejoinFails(w)
  BY <1>1, <1>6, KeptRejoin, KeptRejoinFails
<1>7. CASE \E w \in todo : WaitTimeout(w) \/ \E ok \in BOOLEAN : Checked(w, ok)
  <2>1. UNCHANGED <<call, posts, listed>> /\ seen \subseteq seen'
    BY <1>7 DEF WaitTimeout, Checked
  <2>2. QED
    BY <1>1, <2>1, KeptAlone
<1>8. CASE \E w \in todo : Repost(w)
  BY <1>1, <1>8, KeptRepost
<1>9. CASE \E w \in todo : DeclineAnswered(w)
  <2>1. call \in CallRec
    BY <1>1 DEF BaseInv, Base, CallInv
  <2>2. QED
    BY <1>9, <2>1, EndIsIdle, KeptEnd DEF DeclineAnswered
<1>10. CASE \E w \in todo : \/ \E ok \in BOOLEAN : Verified(w, ok)
                            \/ \E ok, others, known \in BOOLEAN :
                                 Reconciled(w, ok, others, known)
  BY <1>1, <1>10, KeptAsked
<1>11. CASE \E p \in posts : Commit(p) \/ GiveUp(p)
  BY <1>1, <1>11, KeptServer
<1>12. CASE \E p \in posts : \E status \in {"ok", "transient", "notFound", "refused"} :
              Answered(p, status)
  BY <1>1, <1>12, KeptAnswered
<1>13. CASE \E l \in leaves : LeaveDone(l) \/ \E done \in BOOLEAN : LeaveLost(l, done)
  BY <1>1, <1>13, KeptLeave
<1>14. QED
  BY <1>1, <1>2, <1>3, <1>4, <1>5, <1>6, <1>7, <1>8, <1>9, <1>10, <1>11, <1>12,
     <1>13 DEF Next

LEMMA SpecKept == Spec => []KeptInv
<1>1. Init => KeptInv
  <2>1. Init => call.phase = "Idle"
    BY DEF Init, NoCall
  <2>2. QED
    BY <2>1 DEF KeptInv, Joined, Live
<1>2. QED
  BY <1>1, SpecBase, KeptStep, PTL DEF Spec

(* ConfirmedIsListed: a call the user takes for joined is one the server   *)
(* lists or is being registered with, but for the recorded causes.         *)
THEOREM SpecConfirmedIsListed == Spec => []ConfirmedIsListed
<1>1. KeptInv => ConfirmedIsListed
  BY DEF KeptInv, Joined, Registering, Registers, Disrupted, Disruptions, ConfirmedIsListed
<1>2. QED
  BY <1>1, SpecKept, PTL

-----------------------------------------------------------------------------
(* JoinHasANextStep: each step of a join hands over to the next one. *)
Lapses == {"noRoom", "ignored"}
Chases(w, g) == w.gen = g /\ w.kind # "verify"
Awaited(p, g) == p.gen = g /\ ~p.silent /\ ~p.ans

Pursued(g, t, ps, sn) == \/ \E w \in t : Chases(w, g)
                         \/ \E p \in ps : Awaited(p, g)
                         \/ sn \cap Lapses # {}

PursuedInv == call.phase \in Live /\ ~call.confirmed
                => Pursued(call.gen, todo, posts, seen)

AwaitedStay(g, ps, ps2) ==
  (\E p \in ps : Awaited(p, g)) => (\E q \in ps2 : Awaited(q, g))

(* Nothing that is to come for the call is lost, or it is by name. *)
LEMMA PursuedStays ==
  ASSUME PursuedInv, call'.gen = call.gen,
         call'.phase \in Live /\ ~call'.confirmed => call.phase \in Live /\ ~call.confirmed,
         AwaitedStay(call.gen, posts, posts'), seen \cap Lapses \subseteq seen',
         call'.phase \in Live /\ ~call'.confirmed
           => \A w \in todo : Chases(w, call.gen)
                => w \in todo' \/ Pursued(call.gen, todo', posts', seen')
  PROVE  PursuedInv'
<1>1. SUFFICES ASSUME call'.phase \in Live, ~call'.confirmed
               PROVE  Pursued(call.gen, todo', posts', seen')
  BY DEF PursuedInv
<1>2. Pursued(call.gen, todo, posts, seen)
  BY <1>1 DEF PursuedInv
<1>3. CASE \E w \in todo : Chases(w, call.gen)
  BY <1>1, <1>3 DEF Pursued
<1>4. CASE \E p \in posts : Awaited(p, call.gen)
  BY <1>4 DEF AwaitedStay, Pursued
<1>5. CASE seen \cap Lapses # {}
  BY <1>5 DEF Pursued
<1>6. QED
  BY <1>2, <1>3, <1>4, <1>5 DEF Pursued

LEMMA MoreAwaited ==
  ASSUME NEW g, NEW ps, NEW ps2, ps \subseteq ps2
  PROVE  AwaitedStay(g, ps, ps2)
BY DEF AwaitedStay

LEMMA ImageAwaited ==
  ASSUME NEW g, NEW ps, NEW f, Mapping(ps, f),
         \A p \in ps : Awaited(p, g) => ~f[p].ans
  PROVE  AwaitedStay(g, ps, Image(ps, f))
<1>1. \A p \in ps : ~f[p].ans => f[p] \in Image(ps, f)
  BY ImageElements
<1>2. ASSUME NEW p \in ps, Awaited(p, g)
      PROVE  \E q \in Image(ps, f) : Awaited(q, g)
  <2>1. f[p] \in Image(ps, f) /\ ~f[p].ans
    BY <1>1, <1>2
  <2>2. f[p].gen = g /\ ~f[p].silent
    BY <1>2 DEF Mapping, Awaited
  <2>3. QED
    BY <2>1, <2>2 DEF Awaited
<1>3. QED
  BY <1>2 DEF AwaitedStay

LEMMA RetiredAwaited ==
  ASSUME NEW g, NEW ps, ps \subseteq PostRec
  PROVE  AwaitedStay(g, ps, Settled(Retired(ps)))
<1> DEFINE f == Retiring(ps, ps)
<1>1. RetiringFields(ps, ps) /\ Settled((ps \ ps) \cup Retired(ps)) = Image(ps, f)
  BY RetiringMaps
<1>2. (ps \ ps) \cup Retired(ps) = Retired(ps)
  OBVIOUS
<1>3. Mapping(ps, f) /\ \A p \in ps : Awaited(p, g) => ~f[p].ans
  BY <1>1 DEF RetiringFields, Awaited
<1> HIDE DEF f
<1>4. AwaitedStay(g, ps, Image(ps, f))
  BY <1>3, ImageAwaited
<1>5. QED
  BY <1>1, <1>2, <1>4

LEMMA RoomAwaited ==
  ASSUME BaseInv, NEW g,
         \/ \E r : MoveTo(r) \/ StayPut \/ RestoreRoom(r)
         \/ posts' = Settled(Retired(posts))
  PROVE  AwaitedStay(g, posts, posts')
<1>1. posts' = posts \/ posts' = Settled(Retired(posts))
  BY DEF MoveTo, StayPut, RestoreRoom
<1>2. posts \subseteq PostRec
  BY DEF BaseInv, Base, PostInv
<1>3. QED
  BY <1>1, <1>2, MoreAwaited, RetiredAwaited

(* A POST sent is awaited. *)
LEMMA SentIsAwaited ==
  ASSUME NEW c, NEW k \in Nat, k > 0
  PROVE  \E p \in NewPosts(c, k) : Awaited(p, c.gen)
<1>1. 1 \in 1 .. k
  OBVIOUS
<1>2. NewPost(c, c.posted + 1, FALSE) \in NewPosts(c, k)
  BY <1>1 DEF NewPosts
<1>3. Awaited(NewPost(c, c.posted + 1, FALSE), c.gen)
  BY DEF Awaited, NewPost
<1>4. QED
  BY <1>2, <1>3

LEMMA PursuedBegin ==
  ASSUME BaseInv, AcceptCall \/ \E r \in Rooms : StartCall(r)
  PROVE  PursuedInv'
<1>1. PICK c : Beginning(c)
  BY StartBegins, AcceptBegins
<1>2. c \in CallRec
  BY <1>1 DEF Beginning, CallInv
<1>3. CASE call' = Sent(c, 1) /\ posts' = posts \cup NewPosts(c, 1)
  <2>1. call'.gen = c.gen
    BY <1>2, <1>3, SentIsCall
  <2>2. \E p \in posts' : Awaited(p, c.gen)
    BY <1>3, SentIsAwaited
  <2>3. QED
    BY <2>1, <2>2 DEF PursuedInv, Pursued
<1>4. CASE call' = c /\ todo' = todo \cup {Todo(IF c.outgoing THEN "waitOut" ELSE "waitIn",
                                               c.gen, c.room)}
  <2> DEFINE w == Todo(IF c.outgoing THEN "waitOut" ELSE "waitIn", c.gen, c.room)
  <2>1. w \in todo' /\ Chases(w, c.gen)
    BY <1>4 DEF Chases, Todo
  <2> HIDE DEF w
  <2>2. QED
    BY <1>4, <2>1 DEF PursuedInv, Pursued
<1>5. QED
  BY <1>1, <1>3, <1>4 DEF Beginning, EnsureRoom

LEMMA PursuedEnd ==
  ASSUME call'.phase \notin Live
  PROVE  PursuedInv'
BY DEF PursuedInv

LEMMA PursuedConfirmed ==
  ASSUME call'.confirmed
  PROVE  PursuedInv'
BY DEF PursuedInv

LEMMA PursuedQuiet ==
  ASSUME BaseInv, PursuedInv,
         \/ PeerJoins \/ PeerReturns \/ PeerLeaves \/ MediaUp \/ MediaDown \/ DeclineCall
         \/ EndCall \/ \E r \in Rooms : \E remote \in {"none", "here"} : Ring(r, remote)
  PROVE  PursuedInv'
<1>1. call \in CallRec
  BY DEF BaseInv, Base, CallInv
<1>2. CASE EndCall \/ (PeerLeaves /\ call.room \notin Pairs)
  BY <1>1, <1>2, TeardownIsIdle, PursuedEnd DEF EndCall, PeerLeaves
<1>3. CASE DeclineCall \/ \E r \in Rooms : \E remote \in {"none", "here"} : Ring(r, remote)
  <2>1. call'.phase \in {"Ending", "Incoming"}
    BY <1>1, <1>3 DEF DeclineCall, Ring, CallRec
  <2>2. QED
    BY <2>1, PursuedEnd DEF Live
<1>4. CASE PeerJoins \/ PeerReturns \/ MediaUp \/ MediaDown
           \/ (PeerLeaves /\ call.room \in Pairs)
  <2>1. /\ call'.gen = call.gen /\ call'.confirmed = call.confirmed
        /\ call'.phase \in Live => call.phase \in Live
    <3>1. CASE PeerJoins
      BY <1>1, <3>1 DEF PeerJoins, CallRec, Live
    <3>2. CASE PeerReturns
      BY <1>1, <3>2 DEF PeerReturns, CallRec, Live
    <3>3. CASE MediaUp \/ MediaDown
      BY <1>1, <3>3 DEF MediaUp, MediaDown, CallRec, Live
    <3>4. CASE PeerLeaves /\ call.room \in Pairs
      BY <1>1, <3>4 DEF PeerLeaves, CallRec, Live
    <3>5. QED
      BY <1>4, <3>1, <3>2, <3>3, <3>4
  <2>2. UNCHANGED <<todo, posts, seen>>
    BY <1>4 DEF PeerJoins, PeerReturns, MediaUp, MediaDown, PeerLeaves
  <2>3. AwaitedStay(call.gen, posts, posts')
    BY <2>2, MoreAwaited
  <2>4. QED
    BY <2>1, <2>2, <2>3, PursuedStays
<1>5. QED
  BY <1>2, <1>3, <1>4

LEMMA PursuedReset ==
  ASSUME BaseInv, PursuedInv, SessionReset
  PROVE  PursuedInv'
<1>1. call \in CallRec /\ posts \subseteq PostRec
  BY DEF BaseInv, Base, CallInv, PostInv
<1>2. /\ call'.gen = call.gen /\ call'.confirmed = call.confirmed
      /\ call'.phase \in Live => call.phase \in Live
  <2>1. CASE call.phase \in RegisterPhases
    <3> DEFINE c == Sent(call, 1)
    <3>1. c \in CallRec /\ c.gen = call.gen /\ c.confirmed = call.confirmed
      BY <1>1, SentIsCall
    <3>2. call' = [c EXCEPT !.phase = "Reconnecting"]
      BY <2>1 DEF SessionReset
    <3> HIDE DEF c
    <3>3. QED
      BY <2>1, <3>1, <3>2 DEF CallRec, RegisterPhases, Live
  <2>2. CASE call.phase \notin RegisterPhases
    BY <2>2 DEF SessionReset
  <2>3. QED
    BY <2>1, <2>2
<1>3. Settled(Retired(posts)) \subseteq posts' /\ UNCHANGED todo /\ seen \subseteq seen'
  BY DEF SessionReset
<1>4. AwaitedStay(call.gen, posts, posts')
  BY <1>1, <1>3, RetiredAwaited DEF AwaitedStay
<1>5. QED
  BY <1>2, <1>3, <1>4, PursuedStays

LEMMA PursuedRoomAcked ==
  ASSUME BaseInv, PursuedInv, RoomAcked
  PROVE  PursuedInv'
<1> DEFINE F == {w \in Listeners : Fires(w)}
           n == Cardinality(F)
<1>1. n \in Nat /\ (F # {} => n > 0)
  <2>1. F \in SUBSET todo /\ IsFiniteSet(todo)
    BY DEF Listeners, BaseInv, Base, TodoInv
  <2>2. IsFiniteSet(F) /\ Cardinality(F) \in Nat
    BY <2>1, FS_Subset, FS_CardinalityType
  <2>3. F # {} => Cardinality(F) # 0
    BY <2>2, FS_EmptySet
  <2>4. QED
    BY <2>2, <2>3
<1>2. /\ call' = Sent(call, n) /\ posts' = posts \cup NewPosts(call, n)
      /\ todo' = todo \ Listeners
  BY DEF RoomAcked
<1>3. \A w \in Listeners : Fires(w) => F # {}
  OBVIOUS
<1> HIDE DEF n, F
<1>4. call \in CallRec
  BY DEF BaseInv, Base, CallInv
<1>5. call'.gen = call.gen /\ call'.phase = call.phase /\ call'.confirmed = call.confirmed
  BY <1>1, <1>2, <1>4, SentIsCall
<1>6. /\ seen \subseteq seen' /\ \A w \in Listeners : Noticed(w.gen) \subseteq seen'
      /\ call.phase = "Reconnecting"
           => \A w \in Listeners : w.kind # "rejoining" /\ w.gen = call.gen => "noRoom" \in seen'
  BY AckedSeen
<1>7. ASSUME NEW w \in todo, Chases(w, call.gen), call.phase \in Live, ~call.confirmed
      PROVE  w \in todo' \/ Pursued(call.gen, todo', posts', seen')
  <2>1. CASE w \notin Listeners
    BY <1>2, <2>1
  <2>2. CASE w \in Listeners /\ Fires(w)
    <3>1. n > 0
      BY <1>1, <1>3, <2>2
    <3>2. \E p \in posts' : Awaited(p, call.gen)
      BY <1>1, <1>2, <3>1, SentIsAwaited
    <3>3. QED
      BY <3>2 DEF Pursued
  <2>3. CASE w \in Listeners /\ ~Fires(w)
    <3>1. w.gen = call.gen /\ (w.kind = "waitIn" => call.phase # "Outgoing")
      BY <1>7 DEF Chases, BaseInv, Base, TodoInv, TodoOf
    <3>2. w.kind \in {"waitOut", "waitIn", "rejoining"}
      BY <2>3 DEF Listeners
    <3>3. \/ call.phase = "Active"
          \/ call.phase = "Reconnecting" /\ w.kind # "rejoining"
      BY <1>7, <2>3, <3>1, <3>2 DEF Fires, Live, StillWanted, IsStillJoining
    <3>4. CASE call.phase = "Active"
      <4>1. "ignored" \in Noticed(w.gen)
        BY <1>7, <3>1, <3>4 DEF Noticed, Drops, IsStillJoining
      <4>2. QED
        BY <1>6, <2>3, <4>1 DEF Pursued, Lapses
    <3>5. CASE call.phase = "Reconnecting" /\ w.kind # "rejoining"
      <4>1. "noRoom" \in seen'
        BY <1>6, <2>3, <3>1, <3>5
      <4>2. QED
        BY <4>1 DEF Pursued, Lapses
    <3>6. QED
      BY <3>3, <3>4, <3>5
  <2>4. QED
    BY <2>1, <2>2, <2>3
<1>8. AwaitedStay(call.gen, posts, posts')
  BY <1>2, MoreAwaited
<1>9. QED
  BY <1>5, <1>6, <1>7, <1>8, PursuedStays

(* A continuation w of the call is replaced by another or dropped by name. *)
LEMMA PursuedTodo ==
  ASSUME PursuedInv, NEW w \in todo, UNCHANGED call, todo \ {w} \subseteq todo',
         AwaitedStay(call.gen, posts, posts'), seen \subseteq seen',
         \/ ~Chases(w, call.gen) \/ seen' \cap Lapses # {}
         \/ \E x \in todo' : Chases(x, call.gen)
         \/ call.phase \notin Live \/ call.confirmed
  PROVE  PursuedInv'
BY PursuedStays DEF Pursued

LEMMA PursuedRejoin ==
  ASSUME BaseInv, PursuedInv, NEW w \in todo,
         \/ WaitTimeout(w) \/ RejoinListed(w) \/ RejoinProceeds(w)
         \/ (RejoinFails(w) /\ ~StillWanted(w.gen))
  PROVE  PursuedInv'
<1>1. UNCHANGED call /\ todo \ {w} \subseteq todo' /\ seen \subseteq seen'
  BY DEF WaitTimeout, RejoinListed, RejoinProceeds, RejoinFails, Disturbed, Noticed
<1>2. AwaitedStay(call.gen, posts, posts')
  <2>1. \/ posts' = posts \/ MoveTo(w.room) \/ StayPut \/ RestoreRoom(w.room)
        \/ posts' = Settled(Retired(posts))
    BY DEF WaitTimeout, RejoinListed, RejoinProceeds, RejoinFails
  <2>2. QED
    BY <2>1, RoomAwaited, MoreAwaited
<1>3. CASE w.gen # call.gen \/ call.phase \notin Live \/ call.confirmed
  BY <1>1, <1>2, <1>3, PursuedTodo DEF Chases
<1>4. CASE w.gen = call.gen /\ call.phase \in Live /\ ~call.confirmed
  <2>1. CASE WaitTimeout(w)
    <3>1. "noRoom" \in seen'
      BY <1>4, <2>1 DEF WaitTimeout
    <3>2. QED
      BY <1>1, <1>2, <3>1, PursuedTodo DEF Lapses
  <2>2. CASE ~WaitTimeout(w) /\ StillWanted(w.gen)
    <3>1. \/ Todo("leaving", w.gen, w.room) \in todo'
          \/ Todo("rejoining", w.gen, w.room) \in todo'
      BY <2>2 DEF RejoinListed, RejoinProceeds
    <3>2. \E x \in todo' : Chases(x, call.gen)
      BY <1>4, <3>1 DEF Todo, Chases
    <3>3. QED
      BY <1>1, <1>2, <3>2, PursuedTodo
  <2>3. CASE ~WaitTimeout(w) /\ ~StillWanted(w.gen)
    <3>1. "ignored" \in Noticed(w.gen)
      BY <1>4, <2>3 DEF StillWanted, Noticed, Drops
    <3>2. "ignored" \in seen'
      BY <2>3, <3>1 DEF RejoinListed, RejoinProceeds, RejoinFails, Disturbed
    <3>3. QED
      BY <1>1, <1>2, <3>2, PursuedTodo DEF Lapses
  <2>4. QED
    BY <2>1, <2>2, <2>3
<1>5. QED
  BY <1>3, <1>4

LEMMA PursuedRejoinFails ==
  ASSUME BaseInv, PursuedInv, NEW w \in todo, RejoinFails(w)
  PROVE  PursuedInv'
<1>1. CASE StillWanted(w.gen)
  <2>1. Teardown([call EXCEPT !.attempts = 0], w.gen, todo \ {w}) /\ call \in CallRec
    BY <1>1 DEF RejoinFails, BaseInv, Base, CallInv
  <2>2. QED
    BY <2>1, TeardownIsIdle, PursuedEnd
<1>2. QED
  BY <1>1, PursuedRejoin

LEMMA AnsweredAwaited ==
  ASSUME BaseInv, NEW g, NEW p \in posts, NEW status, ~Awaited(p, g)
  PROVE  AwaitedStay(g, posts, AnsweredPosts(p, status))
<1> DEFINE f == Answering(posts, p, status)
<1>1. posts \subseteq PostRec
  BY DEF BaseInv, Base, PostInv
<1>2. /\ Mapping(posts, f) /\ AnsweredPosts(p, status) = Image(posts, f)
      /\ \A q \in posts : q # p /\ ~q.ans => ~f[q].ans
  BY <1>1, AnsweringMaps
<1> HIDE DEF f
<1>3. \A q \in posts : Awaited(q, g) => ~f[q].ans
  BY <1>2 DEF Awaited
<1>4. AwaitedStay(g, posts, Image(posts, f))
  BY <1>2, <1>3, ImageAwaited
<1>5. QED
  BY <1>2, <1>4

(* What decideJoinFailure leaves to come. *)
LEMMA PursuedFailure ==
  ASSUME NEW p, NEW c \in CallRec, NEW status, JoinFailed(p, c, status)
  PROVE  PursuedInv'
<1>1. CASE call' = c /\ (c.confirmed \/ "ignored" \in seen')
  BY <1>1 DEF PursuedInv, Pursued, Lapses
<1>2. CASE Ask(c)
  <2> DEFINE n == c.attempts + 1
             w == Todo("ask", c.gen, c.room)
  <2>1. call' = [c EXCEPT !.attempts = n] /\ w \in todo'
    BY <1>2 DEF Ask
  <2>2. call'.gen = c.gen /\ Chases(w, c.gen)
    BY <2>1 DEF CallRec, Chases, Todo
  <2> HIDE DEF w
  <2>3. QED
    BY <2>1, <2>2 DEF PursuedInv, Pursued
<1>3. CASE call' = [c EXCEPT !.rejoins = @ + 1] /\ Todo("list", c.gen, c.room) \in todo'
  <2> DEFINE w == Todo("list", c.gen, c.room)
  <2>1. call'.gen = c.gen /\ Chases(w, c.gen) /\ w \in todo'
    BY <1>3 DEF CallRec, Chases, Todo
  <2> HIDE DEF w
  <2>2. QED
    BY <2>1 DEF PursuedInv, Pursued
<1>4. CASE Teardown([c EXCEPT !.attempts = 0], p.gen, todo)
  <2>1. [c EXCEPT !.attempts = 0] \in CallRec
    BY DEF CallRec
  <2>2. call'.phase \notin Live
    BY <1>4, <2>1, EndIsIdle DEF Teardown
  <2>3. QED
    BY <2>2, PursuedEnd
<1>5. QED
  BY <1>1, <1>2, <1>3, <1>4 DEF JoinFailed

LEMMA PursuedAnswered ==
  ASSUME BaseInv, PursuedInv, NEW p, NEW status, Answered(p, status)
  PROVE  PursuedInv'
<1>1. /\ p \in posts /\ ~p.ans /\ posts' = AnsweredPosts(p, status)
      /\ UNCHANGED <<sig, listed, hpb>>
      /\ p.gen # call.gen => LateReply(p, status)
      /\ p.gen = call.gen => OwnReply(p, status)
  BY AnsweredFrame
<1>2. call \in CallRec
  BY DEF BaseInv, Base, CallInv
<1>3. ~Awaited(p, call.gen) => AwaitedStay(call.gen, posts, posts')
  BY <1>1, AnsweredAwaited
<1>4. CASE p.gen # call.gen
  <2>1. UNCHANGED <<call, todo>> /\ seen \subseteq seen'
    BY <1>1, <1>4 DEF LateReply
  <2>2. AwaitedStay(call.gen, posts, posts')
    BY <1>3, <1>4 DEF Awaited
  <2>3. QED
    BY <2>1, <2>2, PursuedStays
<1>5. CASE p.gen = call.gen
  <2> DEFINE c == Noted(call, status)
  <2>1. /\ c \in CallRec /\ c.gen = call.gen /\ c.phase = call.phase
        /\ c.confirmed = call.confirmed
    BY <1>2, NotedIsCall
  <2>2. \/ call' = Confirmed(c)
        \/ p.silent /\ call' = c /\ UNCHANGED todo /\ seen \subseteq seen'
        \/ JoinFailed(p, c, status)
    BY <1>1, <1>5 DEF OwnReply
  <2> HIDE DEF c
  <2>3. CASE call' = Confirmed(c)
    BY <2>1, <2>3, ConfirmedIsCall, PursuedConfirmed
  <2>4. CASE p.silent /\ call' = c /\ UNCHANGED todo /\ seen \subseteq seen'
    <3>1. AwaitedStay(call.gen, posts, posts')
      BY <1>3, <2>4 DEF Awaited
    <3>2. QED
      BY <2>1, <2>4, <3>1, PursuedStays
  <2>5. CASE JoinFailed(p, c, status)
    BY <2>1, <2>5, PursuedFailure
  <2>6. QED
    BY <2>2, <2>3, <2>4, <2>5
<1>6. QED
  BY <1>4, <1>5

LEMMA PursuedAsked ==
  ASSUME BaseInv, PursuedInv, NEW w \in todo,
         \/ \E ok \in BOOLEAN : Verified(w, ok)
         \/ \E ok, others, known \in BOOLEAN : Reconciled(w, ok, others, known)
  PROVE  PursuedInv'
<1>1. call \in CallRec
  BY DEF BaseInv, Base, CallInv
<1>2. AwaitedStay(call.gen, posts, posts')
  BY MoreAwaited DEF Verified, Reconciled
<1>3. \/ /\ UNCHANGED <<call, seen>> /\ todo \ {w} \subseteq todo'
         /\ \/ w.gen # call.gen \/ w.kind = "verify"
            \/ Todo("repost", w.gen, w.room) \in todo'
      \/ call' = Confirmed(call)
      \/ Teardown(call, w.gen, todo \ {w})
      \/ Teardown([call EXCEPT !.attempts = 0], w.gen, todo \ {w})
  BY DEF Verified, Reconciled
<1>4. CASE /\ UNCHANGED <<call, seen>> /\ todo \ {w} \subseteq todo'
           /\ \/ w.gen # call.gen \/ w.kind = "verify"
              \/ Todo("repost", w.gen, w.room) \in todo'
  <2>1. CASE w.gen # call.gen \/ w.kind = "verify"
    BY <1>2, <1>4, <2>1, PursuedTodo DEF Chases
  <2>2. CASE w.gen = call.gen /\ Todo("repost", w.gen, w.room) \in todo'
    <3>1. \E x \in todo' : Chases(x, call.gen)
      BY <2>2 DEF Todo, Chases
    <3>2. QED
      BY <1>2, <1>4, <3>1, PursuedTodo
  <2>3. QED
    BY <1>4, <2>1, <2>2
<1>5. CASE call' = Confirmed(call)
  BY <1>1, <1>5, ConfirmedIsCall, PursuedConfirmed
<1>6. CASE \/ Teardown(call, w.gen, todo \ {w})
           \/ Teardown([call EXCEPT !.attempts = 0], w.gen, todo \ {w})
  BY <1>1, <1>6, TeardownIsIdle, PursuedEnd
<1>7. QED
  BY <1>3, <1>4, <1>5, <1>6

LEMMA PursuedRepost ==
  ASSUME BaseInv, PursuedInv, NEW w \in todo, Repost(w)
  PROVE  PursuedInv'
<1>1. call \in CallRec
  BY DEF BaseInv, Base, CallInv
<1>2. /\ todo' = todo \ {w} /\ seen' = Noticed(w.gen) /\ seen \subseteq seen'
      /\ \/ ~(w.gen = call.gen /\ ~call.confirmed /\ IsStillJoining(call)) /\ UNCHANGED <<call, posts>>
         \/ call' = Sent(call, 1) /\ posts' = posts \cup NewPosts(call, 1)
  BY DEF Repost, Noticed
<1>3. CASE call' = Sent(call, 1) /\ posts' = posts \cup NewPosts(call, 1)
  <2>1. call'.gen = call.gen
    BY <1>1, <1>3, SentIsCall
  <2>2. \E p \in posts' : Awaited(p, call.gen)
    BY <1>3, SentIsAwaited
  <2>3. QED
    BY <2>1, <2>2 DEF PursuedInv, Pursued
<1>4. CASE /\ ~(w.gen = call.gen /\ ~call.confirmed /\ IsStillJoining(call))
           /\ UNCHANGED <<call, posts>>
  <2>1. AwaitedStay(call.gen, posts, posts')
    BY <1>4, MoreAwaited
  <2>2. CASE w.gen # call.gen \/ call.confirmed
    BY <1>2, <1>4, <2>1, <2>2, PursuedTodo DEF Chases
  <2>3. CASE w.gen = call.gen /\ ~call.confirmed /\ ~IsStillJoining(call)
    <3>1. "ignored" \in seen'
      BY <1>2, <2>3 DEF Noticed, Drops
    <3>2. seen' \cap Lapses # {}
      BY <3>1 DEF Lapses
    <3>3. QED
      BY <1>2, <1>4, <2>1, <3>2, PursuedTodo
  <2>4. QED
    BY <1>4, <2>2, <2>3
<1>5. QED
  BY <1>2, <1>3, <1>4

LEMMA PursuedServer ==
  ASSUME BaseInv, PursuedInv, NEW p \in posts, Commit(p) \/ GiveUp(p)
  PROVE  PursuedInv'
<1>1. PICK v \in {"in", "no"} :
        /\ posts' = Settled((posts \ {p}) \cup {[p EXCEPT !.srv = v]})
        /\ UNCHANGED <<call, todo, seen>>
  BY DEF Commit, GiveUp
<1> DEFINE f == Landing(posts, p, v)
<1>2. posts \subseteq PostRec
  BY DEF BaseInv, Base, PostInv
<1>3. LandingFields(posts, p, v) /\ posts' = Image(posts, f)
  BY <1>1, <1>2, LandingMaps
<1>4. Mapping(posts, f) /\ \A q \in posts : Awaited(q, call.gen) => ~f[q].ans
  BY <1>3 DEF LandingFields, Awaited
<1> HIDE DEF f
<1>5. AwaitedStay(call.gen, posts, posts')
  BY <1>3, <1>4, ImageAwaited
<1>6. QED
  BY <1>1, <1>5, PursuedStays

LEMMA PursuedStep == BaseInv /\ PursuedInv /\ [Next]_vars => PursuedInv'
<1>1. SUFFICES ASSUME BaseInv, PursuedInv, [Next]_vars
               PROVE  PursuedInv'
  OBVIOUS
<1>2. call \in CallRec
  BY <1>1 DEF BaseInv, Base, CallInv
<1>3. ASSUME UNCHANGED <<call, todo, posts>>, seen \subseteq seen'
      PROVE  PursuedInv'
  BY <1>1, <1>3, PursuedStays, MoreAwaited
<1>4. CASE UNCHANGED vars
  BY <1>3, <1>4 DEF vars
<1>5. CASE AcceptCall \/ \E r \in Rooms : StartCall(r)
  BY <1>1, <1>5, PursuedBegin
<1>6. CASE \E r \in Rooms : SelfInCall(r)
  <2>1. CASE call' = Confirmed(call)
    BY <1>2, <2>1, ConfirmedIsCall, PursuedConfirmed
  <2>2. CASE UNCHANGED <<call, todo, posts, seen>>
    BY <1>3, <2>2
  <2>3. QED
    BY <1>6, <2>1, <2>2 DEF SelfInCall
<1>7. CASE \/ PeerJoins \/ PeerReturns \/ PeerLeaves \/ MediaUp \/ MediaDown \/ DeclineCall
           \/ EndCall \/ \E r \in Rooms : \E remote \in {"none", "here"} : Ring(r, remote)
  BY <1>1, <1>7, PursuedQuiet
<1>8. CASE SessionReset \/ RoomAcked
  BY <1>1, <1>8, PursuedReset, PursuedRoomAcked
<1>9. CASE \E w \in todo : \/ WaitTimeout(w) \/ RejoinListed(w) \/ RejoinProceeds(w)
                           \/ RejoinFails(w)
  BY <1>1, <1>9, PursuedRejoin, PursuedRejoinFails
<1>10. CASE \E w \in todo : \E ok \in BOOLEAN : Checked(w, ok)
  <2>1. PICK w \in todo, ok \in BOOLEAN : Checked(w, ok)
    BY <1>10
  <2>2. UNCHANGED <<call, posts>> /\ todo' = todo \ {w} /\ seen \subseteq seen' /\ w.kind = "check"
    BY <2>1 DEF Checked
  <2>3. ~Chases(w, call.gen)
    BY <1>1, <2>2 DEF Chases, BaseInv, Base, TodoInv, TodoOf
  <2>4. AwaitedStay(call.gen, posts, posts')
    BY <2>2, MoreAwaited
  <2>5. QED
    BY <1>1, <2>2, <2>3, <2>4, PursuedTodo
<1>11. CASE \E w \in todo : Repost(w)
  BY <1>1, <1>11, PursuedRepost
<1>12. CASE \E w \in todo : DeclineAnswered(w)
  BY <1>2, <1>12, EndIsIdle, PursuedEnd DEF DeclineAnswered
<1>13. CASE \E w \in todo : \/ \E ok \in BOOLEAN : Verified(w, ok)
                            \/ \E ok, others, known \in BOOLEAN :
                                 Reconciled(w, ok, others, known)
  BY <1>1, <1>13, PursuedAsked
<1>14. CASE \E p \in posts : Commit(p) \/ GiveUp(p)
  BY <1>1, <1>14, PursuedServer
<1>15. CASE \E p \in posts : \E status \in {"ok", "transient", "notFound", "refused"} :
              Answered(p, status)
  BY <1>1, <1>15, PursuedAnswered
<1>16. CASE \E l \in leaves : LeaveDone(l) \/ \E done \in BOOLEAN : LeaveLost(l, done)
  BY <1>3, <1>16 DEF LeaveDone, LeaveLost
<1>17. QED
  BY <1>1, <1>4, <1>5, <1>6, <1>7, <1>8, <1>9, <1>10, <1>11, <1>12, <1>13, <1>14,
     <1>15, <1>16 DEF Next

LEMMA SpecPursued == Spec => []PursuedInv
<1>1. Init => PursuedInv
  <2>1. Init => call.phase = "Idle"
    BY DEF Init, NoCall
  <2>2. QED
    BY <2>1 DEF PursuedInv, Live
<1>2. QED
  BY <1>1, SpecBase, PursuedStep, PTL DEF Spec

(* JoinHasANextStep: a call that is not joined has a reply of its own to   *)
(* come or a step of its own joining, but for the recorded causes.         *)
THEOREM SpecJoinHasANextStep == Spec => []JoinHasANextStep
<1>1. PursuedInv => JoinHasANextStep
  BY DEF PursuedInv, Pursued, Chases, Awaited, Lapses, JoinHasANextStep
<1>2. QED
  BY <1>1, SpecPursued, PTL

=============================================================================
