------------------------- MODULE MessagePollerProofs -------------------------
(***************************************************************************)
(* The long-poll loop for any number of rooms, requests and timers: it is  *)
(* well-typed, it never dies, every request fits the cursor, and it is the *)
(* stream that PollStream describes.                                       *)
(***************************************************************************)
EXTENDS MessagePoller, TLAPS

IInv == TypeOK /\ NeverDead /\ CurrentFits /\ PollerInv

\* poll() leaves a fresh request that fits the cursor it was given; every other
\* request is one of those it was handed.
LEMMA PollFits ==
    ASSUME NEW reqs, reqs \in [Slots -> Request], NEW r \in Rooms, NEW known \in Nat,
           Poll(reqs, r, known)
    PROVE  /\ current' \in Slots /\ current' # None
           /\ request' \in [Slots -> Request]
           /\ request'[current'] = [room |-> r, known |-> known, upto |-> 0]
           /\ request'[current'] # Free
           /\ \A s \in Slots : s # current' => request'[s] = reqs[s]
PROOF
<1>1. PICK s \in Slots : /\ current' = s
                         /\ request' = [reqs EXCEPT ![s] = [room |-> r, known |-> known, upto |-> 0]]
  BY DEF Poll
<1>2. s # None
  BY PollerAssumption DEF None
<1>3. [room |-> r, known |-> known, upto |-> 0] \in Request
  BY DEF Request
<1>4. [room |-> r, known |-> known, upto |-> 0] # Free
  BY PollerAssumption DEF Free
<1> QED
  BY <1>1, <1>2, <1>3, <1>4

\* The parts of the invariant that speak of requests and cursor, of given values.
Fits(reqs, known, ids, new) ==
    /\ \A i \in ids : i <= known
    /\ \A s \in Slots : reqs[s] # Free =>
          /\ reqs[s].room \in Rooms
          /\ reqs[s].upto # 0 => reqs[s].upto \in reqs[s].known + 1 .. new[reqs[s].room]

\* A step that polls again keeps the invariant, if what it hands to poll() does.
LEMMA PollKeeps ==
    ASSUME NEW reqs, reqs \in [Slots -> Request], NEW r \in Rooms, NEW known \in Nat,
           Poll(reqs, r, known),
           polling', token' = r, lastKnown' = known,
           polling' \in BOOLEAN, timers' \in 0..MaxTimers,
           newest' \in [Rooms -> Nat], emitted' \subseteq Nat, passed' \subseteq Nat,
           Fits(reqs, known, emitted' \cup passed', newest')
    PROVE  IInv'
PROOF
<1>1. /\ current' \in Slots /\ current' # None
      /\ request' \in [Slots -> Request]
      /\ request'[current'] = [room |-> r, known |-> known, upto |-> 0]
      /\ request'[current'] # Free
      /\ \A s \in Slots : s # current' => request'[s] = reqs[s]
  BY PollFits
<1>2. TypeOK'
  BY <1>1 DEF TypeOK, Open
<1>3. NeverDead'
  BY <1>1 DEF NeverDead
<1>4. CurrentFits'
  BY <1>1 DEF CurrentFits, Fits
<1>5. PollerInv'
  <2>1. \A i \in emitted' \cup passed' : i <= lastKnown'
    BY DEF Fits
  <2>2. ASSUME NEW s \in Slots, request'[s] # Free
        PROVE  /\ request'[s].room \in Rooms
               /\ request'[s].upto # 0 =>
                     request'[s].upto \in request'[s].known + 1 .. newest'[request'[s].room]
    <3>1. CASE s = current'
      BY <1>1, <3>1
    <3>2. CASE s # current'
      <4>1. request'[s] = reqs[s]
        BY <1>1, <3>2
      <4>2. reqs[s] # Free
        BY <2>2, <4>1
      <4> QED
        BY <4>1, <4>2 DEF Fits
    <3> QED
      BY <3>1, <3>2
  <2>3. \A s \in Slots : request'[s] # Free =>
               /\ request'[s].room \in Rooms
               /\ request'[s].upto # 0 =>
                     request'[s].upto \in request'[s].known + 1 .. newest'[request'[s].room]
    BY <2>2
  <2> QED
    BY <1>1, <2>1, <2>3 DEF PollerInv, Open
<1> QED
  BY <1>2, <1>3, <1>4, <1>5 DEF IInv

\* What stop() and the handler leave of the requests is part of what there was.
LEMMA Freed ==
    ASSUME IInv, NEW reqs, NEW gone,
           reqs = [s \in Slots |-> IF s \in gone THEN Free ELSE request[s]]
    PROVE  /\ reqs \in [Slots -> Request]
           /\ \A s \in Slots : reqs[s] # Free => s \notin gone /\ reqs[s] = request[s]
PROOF
<1>1. Free \in Request
  BY DEF Free, Request
<1> QED
  BY <1>1 DEF IInv, TypeOK

\* The handler's case.
LEMMA DoneFreed ==
    ASSUME IInv, NEW s
    PROVE  /\ Done(s) \in [Slots -> Request]
           /\ \A q \in Slots : Done(s)[q] # Free => q \notin {s, current} /\ Done(s)[q] = request[q]
PROOF
<1>1. Done(s) = [q \in Slots |-> IF q \in {s, current} THEN Free ELSE request[q]]
  BY DEF Done
<1> QED
  BY <1>1, Freed

\* stop()'s case.
LEMMA StoppedFreed ==
    ASSUME IInv
    PROVE  /\ Stopped(request) \in [Slots -> Request]
           /\ \A q \in Slots : Stopped(request)[q] # Free =>
                 q # current /\ Stopped(request)[q] = request[q]
PROOF
<1>1. Stopped(request) = [s \in Slots |-> IF s \in {current} THEN Free ELSE request[s]]
  BY DEF Stopped
<1> QED
  BY <1>1, Freed

\* Nothing runs before the first room is opened.
LEMMA InitInv == Init => IInv
PROOF
<1> SUFFICES ASSUME Init PROVE IInv
  OBVIOUS
<1>1. Free \in Request
  BY DEF Free, Request
<1>2. request \in [Slots -> Request] /\ Open = {}
  BY <1>1 DEF Init, Open
<1>3. TypeOK
  <2>1. timers \in 0..MaxTimers
    BY PollerAssumption DEF Init
  <2>2. newest \in [Rooms -> Nat]
    BY DEF Init
  <2>3. current \in Open \cup {None}
    BY DEF Init
  <2> QED
    BY <1>2, <2>1, <2>2, <2>3 DEF Init, TypeOK
<1>4. NeverDead /\ CurrentFits /\ PollerInv
  BY <1>2 DEF Init, NeverDead, CurrentFits, PollerInv
<1> QED
  BY <1>3, <1>4 DEF IInv

\* A restart asks for no message it has passed already.
LEMMA SeedType ==
    ASSUME TypeOK, NEW r \in Rooms, NEW from \in 1..newest[r]
    PROVE  /\ Seed(r, from) \in Nat
           /\ token = r => Seed(r, from) >= lastKnown
           /\ Seed(r, from) >= from
PROOF
<1>1. newest[r] \in Nat /\ lastKnown \in Nat
  BY DEF TypeOK
<1>2. CASE token = r /\ lastKnown > from
  BY <1>1, <1>2 DEF Seed
<1>3. CASE ~(token = r /\ lastKnown > from)
  <2>1. Seed(r, from) = from
    BY <1>3 DEF Seed
  <2> QED
    BY <1>1, <1>3, <2>1
<1> QED
  BY <1>2, <1>3

\* start(): the request of a restart fits the cursor that was seeded.
LEMMA StartInv == ASSUME IInv, NEW r \in Rooms, NEW from \in 1..newest[r], Start(r, from)
                  PROVE  IInv'
PROOF
<1>1. TypeOK
  BY DEF IInv
<1>2. Seed(r, from) \in Nat
  BY <1>1, SeedType
<1>3. /\ Stopped(request) \in [Slots -> Request]
      /\ \A q \in Slots : Stopped(request)[q] # Free =>
            q # current /\ Stopped(request)[q] = request[q]
  BY StoppedFreed
<1>4. Fits(Stopped(request), lastKnown', emitted' \cup passed', newest')
  <2>1. emitted' \cup passed' = {} /\ newest' = newest
    BY DEF Start
  <2> QED
    BY <1>3, <2>1 DEF Fits, IInv, PollerInv, Open
<1>5. /\ Poll(Stopped(request), r, lastKnown') /\ polling' /\ token' = r
      /\ lastKnown' \in Nat /\ timers' = timers /\ newest' = newest
      /\ emitted' = {} /\ passed' = {}
  BY <1>2 DEF Start
<1> QED
  BY <1>1, <1>3, <1>4, <1>5, PollKeeps DEF TypeOK


\* stop().
LEMMA StopInv == ASSUME IInv, Stop PROVE IInv'
PROOF
<1>1. /\ Stopped(request) \in [Slots -> Request]
      /\ \A q \in Slots : Stopped(request)[q] # Free =>
            q # current /\ Stopped(request)[q] = request[q]
  BY StoppedFreed
<1>2. TypeOK'
  BY <1>1 DEF IInv, TypeOK, Stop, Open
<1>3. NeverDead' /\ CurrentFits'
  BY DEF Stop, NeverDead, CurrentFits
<1>4. PollerInv'
  BY <1>1 DEF IInv, PollerInv, Stop, Open
<1> QED
  BY <1>2, <1>3, <1>4 DEF IInv

\* Every step of the handler that polls again: the requests that are freed are gone,
\* and the cursor stands where the new request asks from.
LEMMA RepollInv ==
    ASSUME IInv, NEW reqs, reqs \in [Slots -> Request],
           \A q \in Slots : reqs[q] # Free => reqs[q] = request[q],
           polling, Poll(reqs, token, lastKnown'),
           polling' = polling, token' = token, newest' = newest, timers' \in 0..MaxTimers,
           lastKnown' \in Nat,
           emitted' \subseteq Nat, passed' \subseteq Nat,
           \A i \in emitted' \cup passed' : i <= lastKnown'
    PROVE  IInv'
PROOF
<1>1. token \in Rooms
  BY DEF IInv, PollerInv
<1>2. Fits(reqs, lastKnown', emitted' \cup passed', newest')
  BY DEF Fits, IInv, PollerInv, Open
<1>3. polling' \in BOOLEAN /\ newest' \in [Rooms -> Nat]
  BY DEF IInv, TypeOK
<1> QED
  BY <1>1, <1>2, <1>3, PollKeeps

\* The retry timer: it polls from the cursor, or finds the poller stopped.
LEMMA TimerInv == ASSUME IInv, TimerFires PROVE IInv'
PROOF
<1>1. timers' \in 0..MaxTimers
  <2>1. timers \in 0..MaxTimers /\ MaxTimers \in Nat
    BY PollerAssumption DEF IInv, TypeOK
  <2>2. timers > 0 /\ timers' = timers - 1
    BY DEF TimerFires
  <2> QED
    BY <2>1, <2>2
<1>2. CASE polling
  <2>1. Poll(request, token, lastKnown')
    BY <1>2 DEF TimerFires
  <2>2. request \in [Slots -> Request]
    BY DEF IInv, TypeOK
  <2>3. \A i \in emitted' \cup passed' : i <= lastKnown'
    BY DEF TimerFires, IInv, PollerInv
  <2>4. /\ polling' = polling /\ token' = token /\ newest' = newest
        /\ lastKnown' \in Nat
        /\ emitted' \subseteq Nat /\ passed' \subseteq Nat
    BY DEF TimerFires, IInv, TypeOK
  <2> QED
    BY <1>1, <1>2, <2>1, <2>2, <2>3, <2>4, RepollInv
<1>3. CASE ~polling
  <2>1. UNCHANGED <<current, request, polling, token, lastKnown, newest, emitted, passed>>
    BY <1>3 DEF TimerFires
  <2>2. TypeOK'
    BY <1>1, <2>1 DEF IInv, TypeOK, TimerFires, Open
  <2>3. NeverDead' /\ CurrentFits' /\ PollerInv'
    BY <1>3, <2>1 DEF IInv, NeverDead, CurrentFits, PollerInv, Open
  <2> QED
    BY <2>2, <2>3 DEF IInv
<1> QED
  BY <1>2, <1>3 DEF IInv, TypeOK

\* finished() of a request nobody tracks: it is deleted, and that is all.
LEMMA UntrackedInv == ASSUME IInv, NEW s \in Slots, FinishedUntracked(s) PROVE IInv'
PROOF
<1>1. /\ Done(s) \in [Slots -> Request]
      /\ \A q \in Slots : Done(s)[q] # Free => q \notin {s, current} /\ Done(s)[q] = request[q]
  BY DoneFreed
<1>2. /\ request' = Done(s) /\ current = None /\ current' = None
      /\ UNCHANGED <<polling, token, lastKnown, timers, newest, emitted, passed>>
  BY DEF FinishedUntracked
<1>3. TypeOK'
  BY <1>1, <1>2 DEF IInv, TypeOK, Open
<1>4. NeverDead' /\ CurrentFits'
  BY <1>2 DEF IInv, NeverDead, CurrentFits
<1>5. PollerInv'
  BY <1>1, <1>2 DEF IInv, PollerInv, Open
<1> QED
  BY <1>3, <1>4, <1>5 DEF IInv

\* A broken request leaves a retry timer behind.
LEMMA BrokenInv == ASSUME IInv, NEW s \in Slots, FinishedBroken(s) PROVE IInv'
PROOF
<1>1. /\ Done(s) \in [Slots -> Request]
      /\ \A q \in Slots : Done(s)[q] # Free => q \notin {s, current} /\ Done(s)[q] = request[q]
  BY DoneFreed
<1>2. /\ request' = Done(s) /\ current' = None
      /\ timers < MaxTimers /\ timers' = timers + 1
      /\ UNCHANGED <<polling, token, lastKnown, newest, emitted, passed>>
  BY DEF FinishedBroken, RetryLater
<1>3. timers \in 0..MaxTimers /\ MaxTimers \in Nat
  BY PollerAssumption DEF IInv, TypeOK
<1>4. timers' \in 0..MaxTimers /\ timers' > 0
  BY <1>2, <1>3
<1>5. TypeOK'
  BY <1>1, <1>2, <1>4 DEF IInv, TypeOK, Open
<1>6. NeverDead' /\ CurrentFits'
  BY <1>2, <1>4 DEF NeverDead, CurrentFits
<1>7. PollerInv'
  BY <1>1, <1>2 DEF IInv, PollerInv, Open
<1> QED
  BY <1>5, <1>6, <1>7 DEF IInv

\* The poller polls whenever it has a current request.
LEMMA CurrentPolls == ASSUME IInv, NEW s \in Slots, s = current PROVE polling
PROOF
<1>1. s # None
  BY PollerAssumption DEF None
<1> QED
  BY <1>1 DEF IInv, PollerInv

\* What the headers of a request say: its messages come after those handed out, and
\* the last of them is the new cursor.
LEMMA HeadersFit ==
    ASSUME IInv, current # None, request[current].upto > 0
    PROVE  /\ current \in Slots /\ token \in Rooms /\ polling
           /\ request[current].room = token /\ request[current].known = lastKnown
           /\ request[current].upto \in lastKnown + 1 .. newest[token]
           /\ lastKnown \in Nat /\ request[current].upto \in Nat /\ newest[token] \in Nat
PROOF
<1>1. current \in Open /\ current \in Slots /\ request[current] # Free
  BY DEF IInv, TypeOK, Open
<1>2. request[current].room = token /\ request[current].known = lastKnown
  BY DEF IInv, CurrentFits
<1>3. polling /\ token \in Rooms
  BY DEF IInv, PollerInv
<1>4. request[current].upto # 0
  OBVIOUS
<1>5. request[current].upto \in lastKnown + 1 .. newest[token]
  BY <1>1, <1>2, <1>4 DEF IInv, PollerInv
<1>6. lastKnown \in Nat /\ newest[token] \in Nat
  BY <1>3 DEF IInv, TypeOK
<1>7. request[current].upto \in Nat
  BY <1>5, <1>6
<1> QED
  BY <1>1, <1>2, <1>3, <1>5, <1>6, <1>7

\* The messages of an answer, joined to those handed out or passed over, stay behind
\* the cursor the answer sets.
LEMMA IdsBehind ==
    ASSUME IInv, NEW known \in Nat, known = lastKnown, NEW upto \in Nat, upto > known
    PROVE  /\ known + 1 .. upto \subseteq Nat
           /\ \A i \in (emitted \cup passed) \cup (known + 1 .. upto) : i <= upto
PROOF
<1>1. \A i \in emitted \cup passed : i <= lastKnown /\ i \in Nat
  BY DEF IInv, TypeOK, PollerInv
<1> QED
  BY <1>1

\* The three answers that carry nothing: an error status, a 304, and the answer of a
\* request that is not the current one while the current one has none.
LEMMA EmptyInv ==
    ASSUME IInv, NEW s \in Slots, polling, Poll(Done(s), token, lastKnown),
           UNCHANGED <<polling, token, lastKnown, timers, newest, emitted, passed>>
    PROVE  IInv'
PROOF
<1>1. /\ Done(s) \in [Slots -> Request]
      /\ \A q \in Slots : Done(s)[q] # Free => Done(s)[q] = request[q]
  BY DoneFreed
<1>2. /\ Poll(Done(s), token, lastKnown') /\ polling' = polling /\ token' = token
      /\ newest' = newest /\ timers' \in 0..MaxTimers /\ lastKnown' \in Nat
      /\ emitted' \subseteq Nat /\ passed' \subseteq Nat
      /\ \A i \in emitted' \cup passed' : i <= lastKnown'
  BY DEF IInv, TypeOK, PollerInv
<1> QED
  BY <1>1, <1>2, RepollInv

\* An answer, whole or torn, moves the cursor to its last message.
LEMMA AnswerInv ==
    ASSUME IInv, NEW s \in Slots, current # None, request[current].upto > 0,
           Poll(Done(s), token, lastKnown'), lastKnown' = request[current].upto,
           emitted' \cup passed' =
               (emitted \cup passed) \cup (request[current].known + 1 .. request[current].upto),
           UNCHANGED <<polling, token, timers, newest>>
    PROVE  IInv'
PROOF
<1>1. /\ polling /\ token \in Rooms /\ request[current].known = lastKnown
      /\ request[current].upto \in lastKnown + 1 .. newest[token]
      /\ lastKnown \in Nat /\ request[current].upto \in Nat /\ newest[token] \in Nat
  BY HeadersFit
<1>2. /\ Done(s) \in [Slots -> Request]
      /\ \A q \in Slots : Done(s)[q] # Free => Done(s)[q] = request[q]
  BY DoneFreed
<1> DEFINE known == request[current].known
           upto == request[current].upto
<1>3. known \in Nat /\ known = lastKnown /\ upto \in Nat /\ upto > known
  BY <1>1
<1>4. /\ known + 1 .. upto \subseteq Nat
      /\ \A i \in (emitted \cup passed) \cup (known + 1 .. upto) : i <= upto
  <2> HIDE DEF known, upto
  <2> QED
    BY <1>3, IdsBehind
<1>5. \A i \in emitted' \cup passed' : i <= lastKnown'
  BY <1>4
<1>6. emitted' \subseteq Nat /\ passed' \subseteq Nat
  BY <1>4 DEF IInv, TypeOK
<1>7. timers' \in 0..MaxTimers /\ lastKnown' \in Nat
  BY <1>1 DEF IInv, TypeOK
<1> HIDE DEF known, upto
<1> QED
  BY <1>1, <1>2, <1>5, <1>6, <1>7, RepollInv

\* finished() of any request, whichever way the handler goes.
LEMMA FinishedInv == ASSUME IInv, NEW s \in Slots, Finished(s) PROVE IInv'
PROOF
<1>1. CASE FinishedUntracked(s)
  BY <1>1, UntrackedInv
<1>2. CASE FinishedBroken(s)
  BY <1>2, BrokenInv
<1>3. CASE FinishedRefused(s)
  <2>1. polling
    BY <1>3, CurrentPolls DEF FinishedRefused
  <2> QED
    BY <1>3, <2>1, EmptyInv DEF FinishedRefused
<1>4. CASE FinishedIdle(s)
  <2>1. polling
    BY <1>4, CurrentPolls DEF FinishedIdle
  <2> QED
    BY <1>4, <2>1, EmptyInv DEF FinishedIdle
<1>5. CASE FinishedOtherEarly(s)
  <2>1. polling
    BY <1>5 DEF FinishedOtherEarly, IInv, PollerInv
  <2> QED
    BY <1>5, <2>1, EmptyInv DEF FinishedOtherEarly
<1>6. CASE FinishedNew(s)
  <2>1. current # None
    BY <1>6, PollerAssumption DEF FinishedNew, None
  <2>2. /\ s = current /\ request[current].upto > 0
        /\ Poll(Done(s), token, lastKnown') /\ lastKnown' = request[current].upto
        /\ emitted' = emitted \cup (request[current].known + 1 .. request[current].upto)
        /\ UNCHANGED <<polling, token, timers, newest, passed>>
    BY <1>6 DEF FinishedNew
  <2>3. emitted' \cup passed' =
            (emitted \cup passed) \cup (request[current].known + 1 .. request[current].upto)
    BY <2>2
  <2> QED
    BY <2>1, <2>2, <2>3, AnswerInv
<1>7. ASSUME NEW whole \in BOOLEAN, FinishedOtherLate(s, whole) PROVE IInv'
  <2> DEFINE ids == request[current].known + 1 .. request[current].upto
  <2>1. /\ current # None /\ request[current].upto > 0
        /\ Poll(Done(s), token, lastKnown') /\ lastKnown' = request[current].upto
        /\ UNCHANGED <<polling, token, timers, newest>>
    BY <1>7 DEF FinishedOtherLate
  <2>2. \/ emitted' = emitted \cup ids /\ passed' = passed
        \/ passed' = passed \cup ids /\ emitted' = emitted
    BY <1>7 DEF FinishedOtherLate
  <2>3. emitted' \cup passed' = (emitted \cup passed) \cup ids
    BY <2>2
  <2> QED
    BY <2>1, <2>3, AnswerInv
<1>8. CASE FinishedTorn(s)
  <2>1. current # None
    BY <1>8, PollerAssumption DEF FinishedTorn, None
  <2>2. /\ s = current /\ request[current].upto > 0
        /\ Poll(Done(s), token, lastKnown') /\ lastKnown' = request[current].upto
        /\ passed' = passed \cup (request[current].known + 1 .. request[current].upto)
        /\ UNCHANGED <<polling, token, timers, newest, emitted>>
    BY <1>8 DEF FinishedTorn
  <2>3. emitted' \cup passed' =
            (emitted \cup passed) \cup (request[current].known + 1 .. request[current].upto)
    BY <2>2
  <2> QED
    BY <2>1, <2>2, <2>3, AnswerInv
<1> QED
  BY <1>1, <1>2, <1>3, <1>4, <1>5, <1>6, <1>7, <1>8 DEF Finished

\* The headers of an answer reach the client.
LEMMA AnsweredInv == ASSUME IInv, NEW s \in Slots, Answered(s) PROVE IInv'
PROOF
<1> DEFINE known == request[s].known
           room == request[s].room
           upto == IF newest[room] > known + PollLimit THEN known + PollLimit ELSE newest[room]
<1>1. /\ request[s] # Free /\ request[s].upto = 0 /\ newest[room] > known
      /\ request' = [request EXCEPT ![s].upto = upto]
      /\ UNCHANGED <<polling, token, lastKnown, current, timers, emitted, passed, newest>>
  BY DEF Answered, Open
<1>2. room \in Rooms /\ request[s] \in Request /\ known \in Nat
  BY <1>1 DEF IInv, PollerInv, TypeOK, Open, Request
<1>3. newest[room] \in Nat
  BY <1>2 DEF IInv, TypeOK
<1>4. PollLimit \in Nat \ {0}
  BY PollerAssumption
<1>5. upto \in Nat /\ upto # 0 /\ upto \in known + 1 .. newest[room]
  <2> HIDE DEF known, room
  <2> QED
    BY <1>1, <1>2, <1>3, <1>4
<1> HIDE DEF upto
<1>6. /\ request' \in [Slots -> Request]
      /\ request'[s].room = room /\ request'[s].known = known /\ request'[s].upto = upto
      /\ request'[s] # Free
      /\ \A q \in Slots : q # s => request'[q] = request[q]
  <2>1. request \in [Slots -> Request]
    BY DEF IInv, TypeOK
  <2>2. /\ request'[s] = [request[s] EXCEPT !.upto = upto]
        /\ \A q \in Slots : q # s => request'[q] = request[q]
        /\ request' \in [Slots -> Request]
    BY <1>1, <1>2, <1>5, <2>1 DEF Request
  <2>3. [request[s] EXCEPT !.upto = upto].upto = upto
    BY <1>2 DEF Request
  <2>4. Free.upto = 0
    BY DEF Free
  <2>5. request'[s] # Free
    BY <1>5, <2>2, <2>3, <2>4
  <2>6. request'[s].room = room /\ request'[s].known = known
    BY <1>2, <2>2 DEF Request
  <2> QED
    BY <2>2, <2>3, <2>5, <2>6
<1>7. current \in Open \cup {None} => current' \in Open' \cup {None}
  BY <1>1, <1>6 DEF Open
<1>8. TypeOK'
  BY <1>1, <1>6, <1>7 DEF IInv, TypeOK
<1>9. NeverDead' /\ CurrentFits'
  <2>1. NeverDead'
    BY <1>1 DEF IInv, NeverDead
  <2>2. current # None => current \in Slots
    BY DEF IInv, TypeOK, Open
  <2>3. current # None => request'[current].room = token /\ request'[current].known = lastKnown
    <3>1. CASE current = s
      BY <1>6, <3>1 DEF IInv, CurrentFits
    <3>2. CASE current # s
      BY <1>6, <2>2, <3>2 DEF IInv, CurrentFits
    <3> QED
      BY <3>1, <3>2
  <2> QED
    BY <1>1, <2>1, <2>3 DEF IInv, CurrentFits
<1>10. PollerInv'
  <2>1. ASSUME NEW q \in Open'
        PROVE  /\ request'[q].room \in Rooms
               /\ request'[q].upto # 0 =>
                     request'[q].upto \in request'[q].known + 1 .. newest'[request'[q].room]
    <3>1. CASE q = s
      BY <1>1, <1>2, <1>5, <1>6, <3>1
    <3>2. CASE q # s
      <4>1. q \in Open /\ request'[q] = request[q]
        BY <1>6, <2>1, <3>2 DEF Open
      <4> QED
        BY <1>1, <4>1 DEF IInv, PollerInv
    <3> QED
      BY <3>1, <3>2
  <2> QED
    BY <1>1, <2>1 DEF IInv, PollerInv
<1> QED
  BY <1>8, <1>9, <1>10 DEF IInv

\* A message is written: the answers under way end at or before the newest message.
LEMMA WriteInv == ASSUME IInv, NEW r \in Rooms, Write(r) PROVE IInv'
PROOF
<1>1. /\ newest' = [newest EXCEPT ![r] = @ + 1]
      /\ UNCHANGED <<polling, token, lastKnown, current, timers, emitted, passed, request>>
  BY DEF Write
<1>2. newest \in [Rooms -> Nat]
  BY DEF IInv, TypeOK
<1>3. newest' \in [Rooms -> Nat] /\ \A q \in Rooms : newest[q] <= newest'[q]
  BY <1>1, <1>2
<1>4. TypeOK'
  BY <1>1, <1>3 DEF IInv, TypeOK, Open
<1>5. NeverDead' /\ CurrentFits'
  BY <1>1 DEF IInv, NeverDead, CurrentFits
<1>6. PollerInv'
  <2>1. ASSUME NEW s \in Open
        PROVE  /\ request[s].room \in Rooms
               /\ request[s].upto # 0 =>
                     request[s].upto \in request[s].known + 1 .. newest'[request[s].room]
    <3>1. request[s].room \in Rooms /\ request[s] \in Request
      BY <2>1 DEF IInv, PollerInv, TypeOK, Open
    <3>2. request[s].known \in Nat
      BY <3>1 DEF Request
    <3>3. request[s].upto # 0 =>
             request[s].upto \in request[s].known + 1 .. newest[request[s].room]
      BY <2>1 DEF IInv, PollerInv
    <3> QED
      BY <1>2, <1>3, <3>1, <3>2, <3>3
  <2> QED
    BY <1>1, <2>1 DEF IInv, PollerInv, Open
<1> QED
  BY <1>4, <1>5, <1>6 DEF IInv

\* IInv is inductive.
LEMMA StepInv == IInv /\ [Next]_vars => IInv'
PROOF
<1> SUFFICES ASSUME IInv, [Next]_vars PROVE IInv'
  OBVIOUS
<1>1. ASSUME NEW r \in Rooms, Write(r) PROVE IInv'
  BY <1>1, WriteInv
<1>2. ASSUME NEW r \in Rooms, NEW from \in 1..newest[r], Start(r, from) PROVE IInv'
  BY <1>2, StartInv
<1>3. CASE Stop
  BY <1>3, StopInv
<1>4. CASE TimerFires
  BY <1>4, TimerInv
<1>5. ASSUME NEW s \in Slots, Answered(s) PROVE IInv'
  BY <1>5, AnsweredInv
<1>6. ASSUME NEW s \in Slots, Finished(s) PROVE IInv'
  BY <1>6, FinishedInv
<1>7. CASE UNCHANGED vars
  BY <1>7 DEF IInv, TypeOK, NeverDead, CurrentFits, PollerInv, Open, vars, poller
<1> QED
  BY <1>1, <1>2, <1>3, <1>4, <1>5, <1>6, <1>7 DEF Next

\* The inductive invariant of the loop.
THEOREM SpecIInv == Spec => []IInv
PROOF
<1> QED
  BY InitInv, StepInv, PTL DEF Spec

\* Every reachable state is well-typed, for any rooms, slots and bounds.
THEOREM SpecTypeOK == Spec => []TypeOK
PROOF
<1>1. IInv => TypeOK
  BY DEF IInv
<1> QED
  BY <1>1, SpecIInv, PTL

\* While the poller polls, a request is out or a retry timer is running: no finish, in
\* whatever order requests overlap, leaves the loop dead (handlePollResponse).
THEOREM SpecNeverDead == Spec => []NeverDead
PROOF
<1>1. IInv => NeverDead
  BY DEF IInv
<1> QED
  BY <1>1, SpecIInv, PTL

\* The current request always asks the room that is polled from the cursor that is kept,
\* so that no answer repeats a message or reaches the wrong room.
THEOREM SpecCurrentFits == Spec => []CurrentFits
PROOF
<1>1. IInv => CurrentFits
  BY DEF IInv
<1> QED
  BY <1>1, SpecIInv, PTL

-----------------------------------------------------------------------------
(* The loop implements the stream.  One more fact: the cursor never runs   *)
(* ahead of the room it stands in.                                         *)

CursorInv == token # NoRoom => token \in Rooms /\ lastKnown <= newest[token]

\* An answer moves the cursor forward, to a message the room has.
LEMMA AnswerHands ==
    ASSUME IInv, current # None, request[current].upto > 0,
           lastKnown' = request[current].upto
    PROVE  /\ polling /\ token \in Rooms /\ token # NoRoom
           /\ lastKnown' \in lastKnown + 1 .. newest[token] /\ lastKnown' <= newest[token]
           /\ request[current].known = lastKnown
PROOF
<1>1. /\ polling /\ token \in Rooms /\ request[current].known = lastKnown
      /\ request[current].upto \in lastKnown + 1 .. newest[token]
      /\ lastKnown \in Nat /\ newest[token] \in Nat
  BY HeadersFit
<1>2. lastKnown' \in lastKnown + 1 .. newest[token] /\ lastKnown' <= newest[token]
  BY <1>1
<1> QED
  BY <1>1, <1>2, PollerAssumption

\* A start puts the cursor at a message the room has, and never back.
LEMMA StartOpens ==
    ASSUME IInv, CursorInv, NEW r \in Rooms, NEW from \in 1..newest[r], Start(r, from)
    PROVE  Stream!Open(r, lastKnown') /\ lastKnown' \in 1..newest[r] /\ token' = r
PROOF
<1>1. /\ polling' = TRUE /\ token' = r /\ lastKnown' = Seed(r, from)
      /\ emitted' = {} /\ passed' = {} /\ newest' = newest
  BY DEF Start
<1>2. /\ Seed(r, from) \in Nat
      /\ token = r => Seed(r, from) >= lastKnown
      /\ Seed(r, from) >= from
  BY SeedType DEF IInv
<1>3. newest[r] \in Nat /\ from \in Nat /\ from >= 1 /\ from <= newest[r] /\ lastKnown \in Nat
  BY DEF IInv, TypeOK
<1>4. Seed(r, from) <= newest[r]
  <2>1. CASE token = r /\ lastKnown > from
    <3>1. lastKnown <= newest[r]
      BY <2>1, PollerAssumption DEF CursorInv
    <3> QED
      BY <2>1, <3>1 DEF Seed
  <2>2. CASE ~(token = r /\ lastKnown > from)
    BY <1>3, <2>2 DEF Seed
  <2> QED
    BY <2>1, <2>2
<1>5. lastKnown' \in 1..newest[r]
  BY <1>1, <1>2, <1>3, <1>4
<1>6. token = r => lastKnown' >= lastKnown
  BY <1>1, <1>2
<1> QED
  BY <1>1, <1>5, <1>6 DEF Stream!Open

\* What the handler does is a stutter, or hands out an answer, or passes over one.
LEMMA FinishedHands ==
    ASSUME IInv, CursorInv, NEW s \in Slots, Finished(s)
    PROVE  [Stream!StreamNext]_(Stream!stream) /\ CursorInv'
PROOF
<1>1. CASE UNCHANGED <<polling, token, lastKnown, newest, emitted, passed>>
  BY <1>1 DEF Stream!stream, CursorInv
<1>2. CASE FinishedNew(s)
  <2>1. /\ current # None /\ request[current].upto > 0
        /\ lastKnown' = request[current].upto
        /\ emitted' = emitted \cup (request[current].known + 1 .. request[current].upto)
        /\ UNCHANGED <<polling, token, newest, passed>>
    BY <1>2, PollerAssumption DEF FinishedNew, None
  <2>2. /\ polling /\ token \in Rooms /\ token # NoRoom
        /\ lastKnown' \in lastKnown + 1 .. newest[token] /\ lastKnown' <= newest[token]
        /\ request[current].known = lastKnown
    BY <2>1, AnswerHands
  <2>3. Stream!HandOut(lastKnown')
    BY <2>1, <2>2 DEF Stream!HandOut
  <2>4. Stream!StreamNext
    BY <2>2, <2>3 DEF Stream!StreamNext
  <2> QED
    BY <2>1, <2>2, <2>4 DEF CursorInv
<1>3. ASSUME NEW whole \in BOOLEAN, FinishedOtherLate(s, whole)
      PROVE  [Stream!StreamNext]_(Stream!stream) /\ CursorInv'
  <2> DEFINE ids == request[current].known + 1 .. request[current].upto
  <2>1. /\ current # None /\ request[current].upto > 0
        /\ lastKnown' = request[current].upto
        /\ UNCHANGED <<polling, token, newest>>
    BY <1>3 DEF FinishedOtherLate
  <2>2. \/ emitted' = emitted \cup ids /\ passed' = passed
        \/ passed' = passed \cup ids /\ emitted' = emitted
    BY <1>3 DEF FinishedOtherLate
  <2>3. /\ polling /\ token \in Rooms /\ token # NoRoom
        /\ lastKnown' \in lastKnown + 1 .. newest[token] /\ lastKnown' <= newest[token]
        /\ request[current].known = lastKnown
    BY <2>1, AnswerHands
  <2>4. Stream!HandOut(lastKnown') \/ Stream!PassOver(lastKnown')
    BY <2>1, <2>2, <2>3 DEF Stream!HandOut, Stream!PassOver
  <2>5. Stream!StreamNext
    BY <2>3, <2>4 DEF Stream!StreamNext
  <2> QED
    BY <2>1, <2>3, <2>5 DEF CursorInv
<1>4. CASE FinishedTorn(s)
  <2>1. /\ current # None /\ request[current].upto > 0
        /\ lastKnown' = request[current].upto
        /\ passed' = passed \cup (request[current].known + 1 .. request[current].upto)
        /\ UNCHANGED <<polling, token, newest, emitted>>
    BY <1>4, PollerAssumption DEF FinishedTorn, None
  <2>2. /\ polling /\ token \in Rooms /\ token # NoRoom
        /\ lastKnown' \in lastKnown + 1 .. newest[token] /\ lastKnown' <= newest[token]
        /\ request[current].known = lastKnown
    BY <2>1, AnswerHands
  <2>3. Stream!PassOver(lastKnown')
    BY <2>1, <2>2 DEF Stream!PassOver
  <2>4. Stream!StreamNext
    BY <2>2, <2>3 DEF Stream!StreamNext
  <2> QED
    BY <2>1, <2>2, <2>4 DEF CursorInv
<1> QED
  BY <1>1, <1>2, <1>3, <1>4
     DEF Finished, FinishedUntracked, FinishedBroken, FinishedRefused, FinishedIdle,
         FinishedOtherEarly

\* Every step of the loop is a step of the stream, or leaves it alone.
LEMMA StepStreams ==
    IInv /\ CursorInv /\ [Next]_vars => [Stream!StreamNext]_(Stream!stream) /\ CursorInv'
PROOF
<1> SUFFICES ASSUME IInv, CursorInv, [Next]_vars
             PROVE  [Stream!StreamNext]_(Stream!stream) /\ CursorInv'
  OBVIOUS
<1> DEFINE Goal == [Stream!StreamNext]_(Stream!stream) /\ CursorInv'
<1>1. ASSUME NEW r \in Rooms, Write(r) PROVE Goal
  <2>1. /\ newest' = [newest EXCEPT ![r] = @ + 1]
        /\ UNCHANGED <<polling, token, lastKnown, emitted, passed>>
    BY <1>1 DEF Write
  <2>2. Stream!Written(r)
    BY <2>1 DEF Stream!Written
  <2>3. Stream!StreamNext
    BY <2>2 DEF Stream!StreamNext
  <2>4. newest \in [Rooms -> Nat] /\ lastKnown \in Nat
    BY DEF IInv, TypeOK
  <2>5. \A q \in Rooms : newest[q] \in Nat /\ newest'[q] \in Nat /\ newest[q] <= newest'[q]
    BY <2>1, <2>4
  <2>6. CursorInv'
    BY <2>1, <2>4, <2>5 DEF CursorInv
  <2> QED
    BY <2>3, <2>6
<1>2. ASSUME NEW r \in Rooms, NEW from \in 1..newest[r], Start(r, from) PROVE Goal
  <2>1. Stream!Open(r, lastKnown') /\ lastKnown' \in 1..newest[r] /\ token' = r
    BY <1>2, StartOpens
  <2>2. Stream!StreamNext
    BY <2>1 DEF Stream!StreamNext
  <2>3. newest' = newest /\ newest[r] \in Nat
    BY <1>2 DEF Start, IInv, TypeOK
  <2>4. CursorInv'
    BY <2>1, <2>3 DEF CursorInv
  <2> QED
    BY <2>2, <2>4
<1>3. CASE Stop
  <2>1. Stream!Close /\ UNCHANGED <<token, lastKnown, newest>>
    BY <1>3 DEF Stop, Stream!Close
  <2> QED
    BY <2>1 DEF Stream!StreamNext, CursorInv
<1>4. CASE TimerFires
  BY <1>4 DEF TimerFires, Stream!stream, CursorInv
<1>5. ASSUME NEW s \in Slots, Answered(s) PROVE Goal
  BY <1>5 DEF Answered, Stream!stream, CursorInv
<1>6. ASSUME NEW s \in Slots, Finished(s) PROVE Goal
  BY <1>6, FinishedHands
<1>7. CASE UNCHANGED vars
  BY <1>7 DEF vars, poller, Stream!stream, CursorInv
<1> QED
  BY <1>1, <1>2, <1>3, <1>4, <1>5, <1>6, <1>7 DEF Next

\* For any number of rooms, requests and timers, the loop is the stream its room view
\* relies on: ids in order, none twice, none left out but for a half-read answer.
THEOREM SpecImplementsStream == Spec => ImplementsStream
PROOF
<1>1. Init => Stream!StreamInit /\ CursorInv
  BY DEF Init, Stream!StreamInit, CursorInv
<1> QED
  BY <1>1, SpecIInv, StepStreams, PTL DEF Spec, ImplementsStream, Stream!StreamSpec

=============================================================================
