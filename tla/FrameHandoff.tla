---------------------------- MODULE FrameHandoff ----------------------------
(***************************************************************************)
(* The gate through which the streaming threads hand decoded frames to the *)
(* main thread (FrameHandoff.h and the five callbacks that use it).        *)
(*                                                                         *)
(* A streaming thread takes a place in the gate with a compare-exchange    *)
(* loop, then posts the frame to the main thread; the main thread shows    *)
(* the frame and gives the place back.  Every access to the counter is a   *)
(* step of its own.  A gate outlives the pipeline that feeds it (the self- *)
(* preview of CallManager), so more than one thread may be in it.          *)
(***************************************************************************)
EXTENDS Integers, FiniteSets

CONSTANTS Threads,      \* the streaming threads that ever use the gate
          kMaxInFlight

ASSUME MaxAssumption == kMaxInFlight \in Nat \ {0}

VARIABLES
  inFlight,   \* m_inFlight
  cur,        \* what each thread last read of it
  pc,         \* where each thread is: out, about to exchange, about to post
  queue,      \* frames posted to the main thread
  feeding     \* whether the main thread is showing one

vars == <<inFlight, cur, pc, queue, feeding>>

Init ==
  /\ inFlight = 0
  /\ cur = [t \in Threads |-> 0]
  /\ pc = [t \in Threads |-> "out"]
  /\ queue = 0 /\ feeding = FALSE

(* With the value seen, a thread tries the exchange or drops its frame. *)
Seen(t, seen) ==
  /\ cur' = [cur EXCEPT ![t] = seen]
  /\ pc' = [pc EXCEPT ![t] = IF seen < kMaxInFlight THEN "exchange" ELSE "out"]

Load(t) ==
  /\ pc[t] = "out"
  /\ Seen(t, inFlight)
  /\ UNCHANGED <<inFlight, queue, feeding>>

\* (fault) Stores without comparing.
ExchangeBlindly(t) ==
  /\ pc[t] = "exchange"
  /\ inFlight' = cur[t] + 1
  /\ pc' = [pc EXCEPT ![t] = "post"]
  /\ UNCHANGED <<cur, queue, feeding>>

\* (fault) Takes a place after a failed exchange without testing again.
ExchangeUntested(t) ==
  /\ pc[t] = "exchange"
  /\ inFlight' = inFlight + 1
  /\ pc' = [pc EXCEPT ![t] = "post"]
  /\ UNCHANGED <<cur, queue, feeding>>

(* compare_exchange_weak: it may fail for no reason, and then stays here. *)
Exchange(t) ==
  /\ pc[t] = "exchange"
  /\ \/ /\ inFlight = cur[t]
        /\ inFlight' = cur[t] + 1
        /\ pc' = [pc EXCEPT ![t] = "post"]
        /\ UNCHANGED cur
     \/ Seen(t, inFlight) /\ UNCHANGED inFlight
  /\ UNCHANGED <<queue, feeding>>

(* The event posted to the main thread owns the frame. *)
Post(t) ==
  /\ pc[t] = "post"
  /\ pc' = [pc EXCEPT ![t] = "out"]
  /\ queue' = queue + 1
  /\ UNCHANGED <<inFlight, cur, feeding>>

Feed ==
  /\ ~feeding /\ queue > 0
  /\ queue' = queue - 1 /\ feeding' = TRUE
  /\ UNCHANGED <<inFlight, cur, pc>>

\* (fault) Forgets to give the place back.
FeedOnly ==
  /\ feeding /\ feeding' = FALSE
  /\ UNCHANGED <<inFlight, cur, pc, queue>>

release ==
  /\ feeding /\ feeding' = FALSE
  /\ inFlight' = inFlight - 1
  /\ UNCHANGED <<cur, pc, queue>>

Next == \/ \E t \in Threads : Load(t) \/ Exchange(t) \/ Post(t)
        \/ Feed \/ release

(* The event loop of the main thread goes on, and so does a thread that has *)
(* a place; nothing makes a camera deliver frames.                          *)
Fairness == WF_vars(Feed \/ release) /\ \A t \in Threads : WF_vars(Post(t))

Spec == Init /\ [][Next]_vars /\ Fairness

-----------------------------------------------------------------------------
(* Properties. *)

(* The counter never exceeds its bound; a thread exchanges only what it saw *)
(* below it.                                                                *)
TypeOK ==
  /\ inFlight \in 0 .. kMaxInFlight
  /\ cur \in [Threads -> 0 .. kMaxInFlight]
  /\ pc \in [Threads -> {"out", "exchange", "post"}]
  /\ \A t \in Threads : pc[t] = "exchange" => cur[t] < kMaxInFlight
  /\ queue \in Nat /\ feeding \in BOOLEAN

Posting == {t \in Threads : pc[t] = "post"}

(* Frames that own memory beyond the callback that pulled them. *)
Held == Cardinality(Posting) + queue + (IF feeding THEN 1 ELSE 0)

(* Every place taken is a frame that is posted or shown, and the reverse:   *)
(* neither an unpaired release nor a lost one can open the gate further or  *)
(* close it for good, and never more than kMaxInFlight frames are held.     *)
Paired == Held = inFlight

(* A full gate opens again, whatever the threads do. *)
Reopens == inFlight = kMaxInFlight ~> inFlight < kMaxInFlight

=============================================================================
