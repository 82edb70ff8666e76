------------------------- MODULE BackgroundMailbox -------------------------
(***************************************************************************)
(* The background effect of the camera (BackgroundEngine, BackgroundWorker *)
(* and the read-back of BackgroundCompositor).                             *)
(*                                                                         *)
(* Three kinds of threads share a mailbox of two slots: the user interface *)
(* changes the settings and resets the mailbox, camera threads submit a    *)
(* frame and take whatever picture is ready, and a worker composes.  Every *)
(* access to an atomic or to a slot under its mutex is a step of its own.  *)
(* A picture is what it was made of: the camera session of its frame, the  *)
(* settings it was composed under and the session of its mask; settings    *)
(* carry the number of the change that made them.                          *)
(*                                                                         *)
(* Bound: MaxChanges settings changes, camera starts and stops.            *)
(***************************************************************************)
EXTENDS Integers, Sequences, FiniteSets

CONSTANTS Plates,       \* images that can be chosen
          NoPlate,      \* the empty path
          Nothing,      \* a null QImage
          Latch,        \* kComposeFailLatch
          Stored,       \* what the settings store may hold at the start
          MaxChanges

ASSUME PlatesAssumption == NoPlate \notin Plates
ASSUME StoredAssumption == Stored \subseteq {"None", "Blur", "Image"} \X (Plates \cup {NoPlate})
ASSUME BoundsAssumption == Latch \in Nat \ {0} /\ MaxChanges \in Nat

VARIABLES
  engine,   \* m_modeAtomic, m_imagePath and m_imagePathEmpty
  ui,       \* what the user interface thread still has to do
  box,      \* the mailbox: epoch and the two slots
  queue,    \* events posted to the worker: a kick, applyMode calls
  worker,   \* the members of the worker and of the compositor
  calls,    \* processFrame calls under way, one per camera session
  camera,   \* whether the camera runs, and the number of its session
  changes,  \* settings changes, starts and stops so far
  wanted,   \* history: the settings asked for, and those before
  settled,  \* history: what was in force when the mailbox was last reset
  strays    \* history: epochs into which a frame of before was submitted

vars == <<engine, ui, box, queue, worker, calls, camera, changes, wanted, settled, strays>>

Modes == {"None", "Blur", "Image"}

(* The states in which the real frame is the correct output. *)
RawAllowed(mode, path) == mode = "None" \/ (mode = "Image" /\ path = NoPlate)

Step(do, arg) == [do |-> do, arg |-> arg]

ResetSteps == <<Step("bump", ""), Step("clearIn", ""), Step("clearOut", "")>>

-----------------------------------------------------------------------------
(* The user interface thread. *)

(* The engine is built, and given the stored settings, before any camera. *)
Init ==
  /\ \E st \in Stored :
       /\ engine = [mode |-> st[1], modeAt |-> 0, path |-> st[2], pathAt |-> 0,
                    empty |-> st[2] = NoPlate]
       /\ wanted = [mode |-> st[1], path |-> st[2], rawBefore |-> TRUE, removes |-> FALSE]
       /\ queue = [kick |-> FALSE, modes |-> <<st[1]>>]
  /\ ui = <<>>
  /\ box = [epoch |-> 0, in |-> Nothing, out |-> Nothing]
  /\ worker = [up |-> FALSE, last |-> 0, parked |-> Nothing, mask |-> Nothing,
               streak |-> 0, latched |-> FALSE, since |-> 0, job |-> Nothing]
  /\ calls = {}
  /\ camera = [on |-> FALSE, session |-> 0]
  /\ changes = 0
  /\ settled = [mode |-> 0, path |-> 0, session |-> 0]
  /\ strays = {}

Free == ui = <<>> /\ changes < MaxChanges

\* (fault) Sets the mode before the path.
ModeFirst(mode, path) ==
  <<Step("mode", mode)>> \o
  IF path = engine.path THEN <<>>
  ELSE <<Step("path", path), Step("flag", "")>> \o ResetSteps

(* setImagePath, if the path is another one, and setMode. *)
SettingSteps(mode, path) ==
  (IF path = engine.path THEN <<>>
   ELSE <<Step("path", path), Step("flag", "")>> \o ResetSteps) \o <<Step("mode", mode)>>

(* The "(None)" tile. *)
Removes(path) == path = NoPlate /\ engine.path # NoPlate

(* Whatever the settings store holds is applied. *)
ApplyBackgroundSettings(mode, path) ==
  /\ Free /\ changes' = changes + 1
  /\ mode # engine.mode \/ path # engine.path
  /\ ui' = SettingSteps(mode, path)
  /\ wanted' = [mode |-> mode, path |-> path, rawBefore |-> RawAllowed(engine.mode, engine.path),
                removes |-> Removes(path)]
  /\ calls' = {[c EXCEPT !.mayRaw = @ \/ RawAllowed(mode, path), !.bared = @ \/ Removes(path)] :
               c \in calls}
  /\ UNCHANGED <<engine, box, queue, worker, camera, settled, strays>>

(* The end of a call.  The camera thread is not waited for. *)
Cleanup ==
  /\ Free /\ camera.on /\ changes' = changes + 1
  /\ camera' = [on |-> FALSE, session |-> camera.session + 1]
  /\ ui' = ResetSteps
  /\ UNCHANGED <<engine, box, queue, worker, calls, wanted, settled, strays>>

(* The mailbox is reset and the worker warmed up before the camera starts. *)
EnableCamera ==
  /\ Free /\ ~camera.on /\ changes' = changes + 1
  /\ ui' = ResetSteps \o <<Step("prewarm", ""), Step("start", "")>>
  /\ UNCHANGED <<engine, box, queue, worker, calls, camera, wanted, settled, strays>>

Posted(mode) == [queue EXCEPT !.modes = Append(@, mode)]

(* The input slot is locked while a camera thread is filling it. *)
InLocked == \E c \in calls : c.pc = "filling"

Now == [mode |-> engine.modeAt, path |-> engine.pathAt, session |-> camera.session]

Doing(do) == ui # <<>> /\ Head(ui).do = do

StorePath ==
  /\ Doing("path")
  /\ engine' = [engine EXCEPT !.path = Head(ui).arg, !.pathAt = changes]
  /\ ui' = Tail(ui)
  /\ UNCHANGED <<box, queue, worker, calls, camera, changes, wanted, settled, strays>>

StoreFlag ==
  /\ Doing("flag")
  /\ engine' = [engine EXCEPT !.empty = (engine.path = NoPlate)]
  /\ ui' = Tail(ui)
  /\ UNCHANGED <<box, queue, worker, calls, camera, changes, wanted, settled, strays>>

(* The exchange of setMode; the mailbox is reset if the mode is another one, *)
(* and applyMode is posted in any case.                                      *)
ExchangeMode ==
  /\ Doing("mode")
  /\ LET m == Head(ui).arg IN
     IF m # engine.mode
     THEN /\ engine' = [engine EXCEPT !.mode = m, !.modeAt = changes]
          /\ ui' = ResetSteps \o <<Step("prewarm", "")>> \o Tail(ui)
          /\ UNCHANGED queue
     ELSE ui' = Tail(ui) /\ queue' = Posted(m) /\ UNCHANGED engine
  /\ UNCHANGED <<box, worker, calls, camera, changes, wanted, settled, strays>>

PostMode ==
  /\ Doing("prewarm")
  /\ queue' = Posted(engine.mode)
  /\ ui' = Tail(ui)
  /\ UNCHANGED <<engine, box, worker, calls, camera, changes, wanted, settled, strays>>

BumpEpoch ==
  /\ Doing("bump")
  /\ box' = [box EXCEPT !.epoch = @ + 1]
  /\ settled' = Now
  /\ ui' = Tail(ui)
  /\ UNCHANGED <<engine, queue, worker, calls, camera, changes, wanted, strays>>

ClearIn ==
  /\ Doing("clearIn") /\ ~InLocked
  /\ box' = [box EXCEPT !.in = Nothing]
  /\ ui' = Tail(ui)
  /\ UNCHANGED <<engine, queue, worker, calls, camera, changes, wanted, settled, strays>>

ClearOut ==
  /\ Doing("clearOut")
  /\ box' = [box EXCEPT !.out = Nothing]
  /\ ui' = Tail(ui)
  /\ UNCHANGED <<engine, queue, worker, calls, camera, changes, wanted, settled, strays>>

StartSource ==
  /\ Doing("start")
  /\ camera' = [camera EXCEPT !.on = TRUE]
  /\ ui' = Tail(ui)
  /\ UNCHANGED <<engine, box, queue, worker, calls, changes, wanted, settled, strays>>

-----------------------------------------------------------------------------
(* A camera thread: processFrame. *)

Raw == [kind |-> "raw"]
Mosaic == [kind |-> "mosaic"]
Picture(frame, maskOf) == [kind |-> "composite", session |-> frame.session,
                           mode |-> frame.modeAt, path |-> frame.pathAt, mask |-> maskOf]

(* Settings are being applied: the mode is still to be stored. *)
Applying == \E i \in DOMAIN ui : ui[i].do = "mode"

(* What may go out raw now: by the settings asked for, or, while they are   *)
(* being applied, by those before.                                          *)
MayRaw == RawAllowed(wanted.mode, wanted.path) \/ (Applying /\ wanted.rawBefore)

(* The image is being removed. *)
Baring == Applying /\ wanted.removes

Becomes(c, d) == calls' = (calls \ {c}) \cup {d}

(* With the effect off the frame is returned at once. *)
LoadMode ==
  /\ camera.on /\ ~\E c \in calls : c.session = camera.session
  /\ engine.mode # "None"
  /\ calls' = calls \cup
       {[session |-> camera.session, mayRaw |-> MayRaw, bared |-> Baring, since |-> settled,
         mode |-> engine.mode, modeAt |-> engine.modeAt,
         path |-> NoPlate, pathAt |-> 0, epoch |-> 0,
         pc |-> IF engine.mode = "Image" THEN "flag" ELSE "submit"]}
  /\ UNCHANGED <<engine, ui, box, queue, worker, camera, changes, wanted, settled, strays>>

LoadFlag(c) ==
  /\ c \in calls /\ c.pc = "flag" /\ ~engine.empty
  /\ Becomes(c, [c EXCEPT !.pc = "submit"])
  /\ UNCHANGED <<engine, ui, box, queue, worker, camera, changes, wanted, settled, strays>>

(* Under the lock of the input slot: the path is read, then the epoch. *)
LoadPath(c) ==
  /\ c \in calls /\ c.pc = "submit" /\ ~InLocked
  /\ Becomes(c, [c EXCEPT !.pc = "filling", !.path = engine.path, !.pathAt = engine.pathAt])
  /\ UNCHANGED <<engine, ui, box, queue, worker, camera, changes, wanted, settled, strays>>

(* A submit that straddles a reset: its frame is of before, its epoch is not. *)
Straddles(c) == \/ c.modeAt < settled.mode \/ c.pathAt < settled.path
                \/ c.session < settled.session

Submit(c) ==
  /\ c \in calls /\ c.pc = "filling"
  /\ box' = [box EXCEPT !.in = [session |-> c.session, mode |-> c.mode, modeAt |-> c.modeAt,
                                path |-> c.path, pathAt |-> c.pathAt, epoch |-> box.epoch]]
  /\ queue' = [queue EXCEPT !.kick = TRUE]
  /\ strays' = IF Straddles(c) THEN strays \cup {box.epoch} ELSE strays
  /\ Becomes(c, [c EXCEPT !.pc = "take", !.epoch = box.epoch])
  /\ UNCHANGED <<engine, ui, worker, camera, changes, wanted, settled>>

\* (fault) Does not ask for the epoch of the picture.
UsableOfAnyEpoch(c) == box.out # Nothing

Usable(c) == box.out # Nothing /\ box.out.epoch = c.epoch

(* What the call can return now.  Age and size may refuse a picture too. *)
Answers(c) ==
  CASE c.pc = "flag" /\ engine.empty -> {Raw}
    [] c.pc = "take"                 -> {Mosaic} \cup IF Usable(c) THEN {box.out.picture} ELSE {}
    [] OTHER                         -> {}

Return(c) ==
  /\ c \in calls /\ Answers(c) # {}
  /\ calls' = calls \ {c}
  /\ UNCHANGED <<engine, ui, box, queue, worker, camera, changes, wanted, settled, strays>>

-----------------------------------------------------------------------------
(* The worker. *)

Idle == worker.job = Nothing

(* applyMode(None): everything is freed, and both slots are emptied. *)
Release ==
  /\ Idle /\ queue.modes # <<>> /\ Head(queue.modes) = "None"
  /\ queue' = [queue EXCEPT !.modes = Tail(@)]
  /\ IF worker.up
     THEN /\ ~InLocked
          /\ worker' = [worker EXCEPT !.up = FALSE, !.parked = Nothing, !.mask = Nothing,
                                      !.streak = 0, !.latched = FALSE]
          /\ box' = [box EXCEPT !.in = Nothing, !.out = Nothing]
     ELSE UNCHANGED <<worker, box>>
  /\ UNCHANGED <<engine, ui, calls, camera, changes, wanted, settled, strays>>

(* applyMode of another mode; the warm-up leaves nothing parked, if it runs. *)
BringUp ==
  /\ Idle /\ queue.modes # <<>> /\ Head(queue.modes) # "None"
  /\ queue' = [queue EXCEPT !.modes = Tail(@)]
  /\ worker' = [worker EXCEPT !.up = TRUE, !.parked = IF worker.up THEN @ ELSE Nothing]
  /\ UNCHANGED <<engine, ui, box, calls, camera, changes, wanted, settled, strays>>

\* (fault) A frame brings the engine up, whatever the mode is by now.
UpOnFrame(w, f, gap) ==
  [w EXCEPT !.up = TRUE, !.parked = Nothing, !.mask = Nothing, !.streak = 0,
            !.latched = FALSE, !.last = f.epoch]

\* (fault) A failing compositor stays latched.
StaysLatched(w, f, gap) ==
  LET v == IF w.up /\ (f.epoch # w.last \/ gap)
           THEN [w EXCEPT !.parked = Nothing, !.mask = Nothing] ELSE w
  IN  [v EXCEPT !.last = f.epoch]

(* A frame of another epoch, or one after a pause, finds nothing parked and *)
(* no mask; another epoch also lifts the latch.                             *)
AtBoundary(w, f, gap) ==
  LET v == IF w.up /\ (f.epoch # w.last \/ gap)
           THEN [w EXCEPT !.parked = Nothing, !.mask = Nothing] ELSE w
  IN  IF f.epoch # w.last
      THEN [v EXCEPT !.streak = 0, !.latched = FALSE, !.last = f.epoch]
      ELSE v

Job(f, result) == [epoch |-> f.epoch, result |-> result]

\* (fault) Counts without ever giving up.
NeverGivesUp(w, f) ==
  [w EXCEPT !.streak = @ + 1, !.since = IF w.streak = 0 THEN f.epoch ELSE @]

(* failCompose of a structural reason. *)
Failed(w, f) ==
  [w EXCEPT !.streak = IF w.latched THEN @ ELSE @ + 1,
            !.latched = @ \/ w.streak + 1 >= Latch,
            !.since = IF w.streak = 0 THEN f.epoch ELSE @]

Covered(w, f) == IF w.latched THEN Mosaic ELSE Nothing

(* compose with mask m. *)
Masked(w, f, m) ==
  LET masked == [w EXCEPT !.mask = m]
      kept == [masked EXCEPT !.parked = Picture(f, m)]
  IN  IF f.mode = "Image" /\ f.path = NoPlate
      THEN {[masked EXCEPT !.job = Job(f, Nothing)]}
      ELSE {[v EXCEPT !.job = Job(f, Covered(v, f))] : v \in {Failed(masked, f), Failed(kept, f)}}
           \cup {[kept EXCEPT !.streak = 0,
                    !.job = Job(f, IF w.parked # Nothing THEN w.parked ELSE Picture(f, m))]}

(* compose: what the worker becomes, with the picture to publish, if any.   *)
(* The mask is inferred, taken over from an earlier frame, or not there.    *)
Composed(w, f) ==
  IF w.latched THEN {[w EXCEPT !.job = Job(f, Mosaic)]}
  ELSE IF ~w.up
  THEN {LET v == Failed(w, f) IN [v EXCEPT !.job = Job(f, Covered(v, f))]}
  ELSE {[w EXCEPT !.job = Job(f, Nothing)]}
       \cup UNION {Masked(w, f, m) : m \in {f.session} \cup ({w.mask} \ {Nothing})}

Skipped(f) == box.out # Nothing /\ box.out.epoch = f.epoch

ProcessMailbox(gap) ==
  /\ Idle /\ queue.kick /\ ~InLocked
  /\ queue' = [queue EXCEPT !.kick = FALSE]
  /\ IF box.in = Nothing THEN UNCHANGED <<worker, box>>
     ELSE /\ box' = [box EXCEPT !.in = Nothing]
          /\ LET w == AtBoundary(worker, box.in, gap)
             IN  \/ Skipped(box.in) /\ worker' = w         \* the rate cap
                 \/ worker' \in Composed(w, box.in)
  /\ UNCHANGED <<engine, ui, calls, camera, changes, wanted, settled, strays>>

Publish ==
  /\ ~Idle
  /\ worker' = [worker EXCEPT !.job = Nothing]
  /\ box' = IF worker.job.result # Nothing /\ box.epoch = worker.job.epoch
            THEN [box EXCEPT !.out = [picture |-> worker.job.result, epoch |-> worker.job.epoch]]
            ELSE box
  /\ UNCHANGED <<engine, ui, queue, calls, camera, changes, wanted, settled, strays>>

-----------------------------------------------------------------------------
UiStep == \/ StorePath \/ StoreFlag \/ ExchangeMode \/ PostMode
          \/ BumpEpoch \/ ClearIn \/ ClearOut \/ StartSource

Next ==
  \/ \E mode \in Modes, path \in Plates \cup {NoPlate} : ApplyBackgroundSettings(mode, path)
  \/ Cleanup \/ EnableCamera \/ UiStep
  \/ LoadMode
  \/ \E c \in calls : LoadFlag(c) \/ LoadPath(c) \/ Submit(c) \/ Return(c)
  \/ Release \/ BringUp \/ Publish
  \/ \E gap \in BOOLEAN : ProcessMailbox(gap)

Spec == Init /\ [][Next]_vars

-----------------------------------------------------------------------------
(* Properties. *)

PictureType == [kind : {"composite"}, session : Nat, mode : Nat, path : Nat, mask : Nat]
Frames == [session : Nat, mode : Modes, modeAt : Nat, path : Plates \cup {NoPlate},
           pathAt : Nat, epoch : Nat]

(* The settings, the slots, the worker and the calls have their types; a    *)
(* slot never holds the frame as the camera gave it.                        *)
TypeOK ==
  /\ engine \in [mode : Modes, modeAt : Nat, path : Plates \cup {NoPlate}, pathAt : Nat,
                 empty : BOOLEAN]
  /\ box.epoch \in Nat /\ box.in \in Frames \cup {Nothing}
  /\ box.out # Nothing => /\ box.out.epoch \in Nat
                          /\ box.out.picture \in PictureType \cup {Mosaic}
  /\ queue.kick \in BOOLEAN /\ queue.modes \in Seq(Modes)
  /\ worker.up \in BOOLEAN /\ worker.latched \in BOOLEAN /\ worker.streak \in 0 .. Latch
  /\ worker.parked \in PictureType \cup {Nothing} /\ worker.mask \in Nat \cup {Nothing}
  /\ calls \subseteq [session : Nat, mayRaw : BOOLEAN, bared : BOOLEAN,
                      since : [mode : Nat, path : Nat, session : Nat], mode : Modes, modeAt : Nat,
                      path : Plates \cup {NoPlate}, pathAt : Nat, epoch : Nat, pc : {"flag", "submit", "filling", "take"}]
  /\ camera \in [on : BOOLEAN, session : Nat]

(* The frame goes out as the camera gave it only if the settings allowed it *)
(* at some moment of the call: the effect was off, or an image was asked    *)
(* for and none was chosen.  No step of applying new settings opens a       *)
(* window, whatever was read before it; except that the image was removed   *)
(* during the call (its path is empty at once, Image may be read before or  *)
(* after that although another mode is asked for, see README).              *)
NeverRaw ==
  /\ camera.on /\ engine.mode = "None" => MayRaw
  /\ \A c \in calls : Raw \in Answers(c) => c.mayRaw \/ c.bared

(* A picture that is handed out was made since the mailbox was reset before *)
(* the call began: of a frame of this camera session, with a mask of this   *)
(* session, under settings at least as new; except in an epoch into which a *)
(* frame of before was submitted (see Straddles).                           *)
NothingFromBefore ==
  \A c \in calls : \A picture \in Answers(c) :
    picture.kind = "composite" /\ c.epoch \notin strays =>
      /\ picture.session >= c.since.session
      /\ picture.mask >= c.since.session
      /\ picture.mode >= c.since.mode
      /\ picture.path >= c.since.path

(* Off frees the engine, and on brings it up, once the worker has handled   *)
(* what was posted: no late frame brings it up again.                       *)
EngineMatchesMode ==
  ui = <<>> /\ queue.modes = <<>> => (worker.up <=> engine.mode # "None")

(* The effect is given up only for failures in a row since the settings or  *)
(* the camera last changed.                                                 *)
LatchIsOfThisEpoch == worker.latched => worker.since = worker.last

=============================================================================
