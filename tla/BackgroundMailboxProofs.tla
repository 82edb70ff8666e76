----------------------- MODULE BackgroundMailboxProofs -----------------------
(***************************************************************************)
(* What the background effect keeps to, for any set of images, any latch   *)
(* and any number of changes: types, that no frame goes out raw unless the *)
(* settings allowed it or the image was removed, that the worker's engine  *)
(* is up exactly if the effect is on, that the latch is of the present     *)
(* epoch, and that no picture is of before the last reset, but in epochs   *)
(* into which a frame of before was submitted.                             *)
(***************************************************************************)
EXTENDS BackgroundMailbox, SequenceTheorems, TLAPS

Paths == Plates \cup {NoPlate}
Parts == {"path", "flag", "mode", "bump", "clearIn", "clearOut", "prewarm", "start"}
Steps == [do : Parts, arg : Modes \cup Paths \cup {""}]
Results == PictureType \cup {Mosaic, Nothing}
Marks == [mode : Nat, path : Nat, session : Nat]
Workers == [up : BOOLEAN, last : Nat, parked : PictureType \cup {Nothing},
            mask : Nat \cup {Nothing}, streak : 0..Latch, latched : BOOLEAN, since : Nat,
            job : {Nothing} \cup [epoch : Nat, result : Results]]
Calls == [session : Nat, mayRaw : BOOLEAN, bared : BOOLEAN, since : Marks, mode : Modes,
          modeAt : Nat, path : Paths, pathAt : Nat, epoch : Nat, pc : {"flag", "submit", "filling", "take"}]

Typed ==
  /\ engine \in [mode : Modes, modeAt : Nat, path : Paths, pathAt : Nat, empty : BOOLEAN]
  /\ ui \in Seq(Steps)
  /\ box \in [epoch : Nat, in : Frames \cup {Nothing},
              out : {Nothing} \cup [picture : PictureType \cup {Mosaic}, epoch : Nat]]
  /\ queue \in [kick : BOOLEAN, modes : Seq(Modes)]
  /\ worker \in Workers
  /\ calls \subseteq Calls
  /\ camera \in [on : BOOLEAN, session : Nat]
  /\ changes \in Nat
  /\ wanted \in [mode : Modes, path : Paths, rawBefore : BOOLEAN, removes : BOOLEAN]
  /\ settled \in Marks

\* The mode is the last thing a settings change sets; path and flag come before.
UiInv ==
  /\ \A i \in 1..Len(ui) :
       /\ ui[i].do = "mode" => i = Len(ui) /\ ui[i].arg = wanted.mode
       /\ ui[i].do = "path" => /\ i = 1 /\ Len(ui) > 2 /\ ui[2].do = "flag"
                               /\ ui[i].arg = wanted.path
       /\ ui[i].do = "flag" => /\ i <= 2 /\ i < Len(ui) /\ ui[Len(ui)].do = "mode"
                               /\ i = 2 => ui[1].do = "path"
  /\ \A i, j \in 1..Len(ui) : ui[i].do = "prewarm" /\ ui[j].do = "prewarm" => i = j

Waits(do) == \E i \in 1..Len(ui) : ui[i].do = do

\* How far the settings asked for are in force.
SettingsInv ==
  /\ ~Waits("mode") => engine.mode = wanted.mode
  /\ ~Waits("path") => engine.path = wanted.path
  /\ Waits("flag") /\ wanted.path = NoPlate => wanted.removes
  /\ ~Waits("flag") => engine.empty = (engine.path = NoPlate)
  /\ Waits("mode") /\ engine.mode = "None" => wanted.rawBefore
  /\ Waits("mode") /\ engine.mode = "Image" /\ engine.empty => wanted.rawBefore \/ wanted.removes

\* A call that has yet to read the flag; and one under way while the image goes.
CallsInv ==
  /\ \A c \in calls : c.pc = "flag" /\ engine.empty => c.mayRaw \/ c.bared
  /\ Waits("mode") /\ wanted.removes => \A c \in calls : c.bared

\* What was posted last is the present mode.
QueueInv ==
  ~Waits("prewarm") /\ ~Waits("mode") =>
    IF queue.modes = <<>> THEN worker.up <=> engine.mode # "None"
    ELSE queue.modes[Len(queue.modes)] = engine.mode

Sound(w) ==
  /\ ~w.latched => w.streak < Latch
  /\ w.latched \/ w.streak > 0 => w.since = w.last

BInv == Typed /\ UiInv /\ SettingsInv /\ CallsInv /\ QueueInv /\ Sound(worker)

-----------------------------------------------------------------------------
(* Pictures.                                                               *)

LEMMA RawAllowedType == ASSUME NEW m, NEW p PROVE RawAllowed(m, p) \in BOOLEAN
PROOF
BY DEF RawAllowed

LEMMA MayRawType == Typed => MayRaw \in BOOLEAN /\ Baring \in BOOLEAN
PROOF
BY DEF MayRaw, Baring, Applying, RawAllowed, Typed

LEMMA BaringIs ==
  ASSUME Typed
  PROVE  /\ MayRaw <=> RawAllowed(wanted.mode, wanted.path) \/ (Waits("mode") /\ wanted.rawBefore)
         /\ Baring <=> Waits("mode") /\ wanted.removes
PROOF
<1>1. DOMAIN ui = 1..Len(ui)
  BY DEF Typed
<1>2. Applying <=> Waits("mode")
  BY <1>1 DEF Applying, Waits
<1> QED
  BY <1>2 DEF MayRaw, Baring

LEMMA PictureIs ==
  ASSUME NEW f \in Frames, NEW m \in Nat PROVE Picture(f, m) \in PictureType
PROOF
BY DEF Picture, PictureType, Frames

LEMMA RawIsNone == Raw \notin PictureType \cup {Mosaic}
PROOF
BY DEF Raw, Mosaic, PictureType

-----------------------------------------------------------------------------
(* The worker composes.                                                    *)

LEMMA JobType ==
  ASSUME NEW f \in Frames, NEW result \in Results
  PROVE  Job(f, result) \in [epoch : Nat, result : Results]
PROOF
BY DEF Job, Frames

LEMMA FailedType ==
  ASSUME BoundsAssumption, NEW w \in Workers, Sound(w), NEW f \in Frames, f.epoch = w.last
  PROVE  /\ Failed(w, f) \in Workers /\ Sound(Failed(w, f)) /\ Failed(w, f).up = w.up
         /\ Failed(w, f).last = w.last
PROOF
<1>1. Failed(w, f) \in Workers
  <2>1. IF w.latched THEN w.streak \in 0..Latch ELSE w.streak + 1 \in 0..Latch
    BY DEF Workers, Sound, BoundsAssumption
  <2>2. (w.latched \/ w.streak + 1 >= Latch) \in BOOLEAN
    OBVIOUS
  <2>3. f.epoch \in Nat
    BY DEF Frames
  <2> QED
    BY <2>1, <2>2, <2>3 DEF Failed, Workers
<1>2. /\ Failed(w, f).up = w.up /\ Failed(w, f).last = w.last
      /\ Failed(w, f).streak = IF w.latched THEN w.streak ELSE w.streak + 1
      /\ Failed(w, f).since = IF w.streak = 0 THEN f.epoch ELSE w.since
  BY DEF Failed, Workers
<1>3. ~Failed(w, f).latched => ~w.latched /\ ~(w.streak + 1 >= Latch)
  BY DEF Failed, Workers
<1>4. w.streak \in Nat /\ Latch \in Nat
  BY DEF Workers, BoundsAssumption
<1>5. Sound(Failed(w, f))
  <2>1. ~Failed(w, f).latched => Failed(w, f).streak < Latch
    BY <1>2, <1>3, <1>4
  <2>2. Failed(w, f).since = Failed(w, f).last
    <3>1. CASE w.streak = 0
      BY <1>2, <3>1
    <3>2. CASE w.streak # 0
      BY <1>2, <1>4, <3>2 DEF Sound
    <3> QED
      BY <3>1, <3>2
  <2> QED
    BY <2>1, <2>2 DEF Sound
<1> QED
  BY <1>1, <1>2, <1>5

LEMMA WithJob ==
  ASSUME NEW w \in Workers, Sound(w), NEW f \in Frames, NEW result \in Results
  PROVE  LET v == [w EXCEPT !.job = Job(f, result)]
         IN  v \in Workers /\ Sound(v) /\ v.up = w.up
PROOF
<1>1. Job(f, result) \in [epoch : Nat, result : Results]
  BY JobType
<1> HIDE DEF Results
<1> QED
  BY <1>1 DEF Workers, Sound

LEMMA CoveredType == ASSUME NEW w, NEW f PROVE Covered(w, f) \in Results
PROOF
BY DEF Covered, Results

LEMMA MaskedType ==
  ASSUME BoundsAssumption, NEW w \in Workers, Sound(w), NEW f \in Frames, f.epoch = w.last,
         NEW m \in Nat, NEW v \in Masked(w, f, m), ~w.latched
  PROVE  v \in Workers /\ Sound(v) /\ v.up = w.up
PROOF
<1> DEFINE masked == [w EXCEPT !.mask = m]
           kept == [masked EXCEPT !.parked = Picture(f, m)]
           clean == [kept EXCEPT !.streak = 0]
           result == IF w.parked # Nothing THEN w.parked ELSE Picture(f, m)
<1>1. Picture(f, m) \in PictureType
  BY PictureIs
<1>2. masked \in Workers /\ Sound(masked) /\ masked.up = w.up /\ masked.last = w.last
  BY DEF Workers, Sound
<1>3. kept \in Workers /\ Sound(kept) /\ kept.up = w.up /\ kept.last = w.last
  BY <1>1 DEF Workers, Sound
<1>4. clean \in Workers /\ Sound(clean) /\ clean.up = w.up
  <2>3. 0 \in 0..Latch
    BY DEF BoundsAssumption
  <2>4. clean = [w EXCEPT !.mask = m, !.parked = Picture(f, m), !.streak = 0]
    BY DEF Workers
  <2>1. clean \in Workers /\ clean.up = w.up
    BY <1>1, <2>3, <2>4 DEF Workers
  <2>2. clean.latched = w.latched /\ clean.streak = 0
    BY DEF Workers
  <2> QED
    BY <2>1, <2>2 DEF Sound, BoundsAssumption
<1>5. result \in Results /\ Nothing \in Results
  BY <1>1 DEF Workers, Results
<1>6. CASE v = [masked EXCEPT !.job = Job(f, Nothing)]
  <2> HIDE DEF masked
  <2> QED
    BY <1>2, <1>5, <1>6, WithJob
<1>7. ASSUME NEW u \in {Failed(masked, f), Failed(kept, f)},
             v = [u EXCEPT !.job = Job(f, Covered(u, f))]
      PROVE  v \in Workers /\ Sound(v) /\ v.up = w.up
  <2> HIDE DEF masked, kept
  <2>1. u \in Workers /\ Sound(u) /\ u.up = w.up
    BY <1>2, <1>3, <1>7, FailedType
  <2>2. Covered(u, f) \in Results
    BY CoveredType
  <2> QED
    BY <1>7, <2>1, <2>2, WithJob
<1>8. CASE v = [kept EXCEPT !.streak = 0, !.job = Job(f, result)]
  <2>1. v = [clean EXCEPT !.job = Job(f, result)]
    BY <1>8
  <2> HIDE DEF clean, result
  <2> QED
    BY <1>4, <1>5, <2>1, WithJob
<1>9. \/ v = [masked EXCEPT !.job = Job(f, Nothing)]
      \/ \E u \in {Failed(masked, f), Failed(kept, f)} : v = [u EXCEPT !.job = Job(f, Covered(u, f))]
      \/ v = [kept EXCEPT !.streak = 0, !.job = Job(f, result)]
  BY DEF Masked
<1> QED
  BY <1>6, <1>7, <1>8, <1>9

LEMMA ComposedType ==
  ASSUME BoundsAssumption, NEW w \in Workers, Sound(w), NEW f \in Frames, f.epoch = w.last,
         NEW v \in Composed(w, f)
  PROVE  v \in Workers /\ Sound(v) /\ v.up = w.up
PROOF
<1>1. CASE w.latched
  <2>1. v = [w EXCEPT !.job = Job(f, Mosaic)] /\ Mosaic \in Results
    BY <1>1 DEF Composed, Results
  <2> QED
    BY <2>1, WithJob
<1>2. CASE ~w.latched /\ ~w.up
  <2>1. v = [Failed(w, f) EXCEPT !.job = Job(f, Covered(Failed(w, f), f))]
    BY <1>2 DEF Composed
  <2>2. Covered(Failed(w, f), f) \in Results
    BY CoveredType
  <2> QED
    BY <2>1, <2>2, FailedType, WithJob
<1>3. CASE ~w.latched /\ w.up
  <2>1. CASE v = [w EXCEPT !.job = Job(f, Nothing)]
    <3>1. Nothing \in Results
      BY DEF Results
    <3> QED
      BY <2>1, <3>1, WithJob
  <2>2. CASE \E m \in {f.session} \cup ({w.mask} \ {Nothing}) : v \in Masked(w, f, m)
    <3>1. \A m \in {f.session} \cup ({w.mask} \ {Nothing}) : m \in Nat
      BY DEF Frames, Workers
    <3> QED
      BY <1>3, <2>2, <3>1, MaskedType
  <2> QED
    BY <1>3, <2>1, <2>2 DEF Composed
<1> QED
  BY <1>1, <1>2, <1>3

LEMMA AtBoundaryType ==
  ASSUME BoundsAssumption, NEW w \in Workers, Sound(w), NEW f \in Frames, NEW gap \in BOOLEAN
  PROVE  /\ AtBoundary(w, f, gap) \in Workers /\ Sound(AtBoundary(w, f, gap))
         /\ AtBoundary(w, f, gap).up = w.up /\ AtBoundary(w, f, gap).last = f.epoch
PROOF
<1> DEFINE v == IF w.up /\ (f.epoch # w.last \/ gap)
                THEN [w EXCEPT !.parked = Nothing, !.mask = Nothing] ELSE w
<1>1. v \in Workers /\ Sound(v) /\ v.up = w.up /\ v.last = w.last
  BY DEF Workers, Sound
<1>2. AtBoundary(w, f, gap) = IF f.epoch # w.last
                               THEN [v EXCEPT !.streak = 0, !.latched = FALSE, !.last = f.epoch]
                               ELSE v
  BY DEF AtBoundary
<1>3. f.epoch \in Nat
  BY DEF Frames
<1> HIDE DEF v
<1>4. CASE f.epoch = w.last
  BY <1>1, <1>2, <1>4
<1>5. CASE f.epoch # w.last
  <2> DEFINE u == [v EXCEPT !.streak = 0, !.latched = FALSE, !.last = f.epoch]
  <2>4. 0 \in 0..Latch /\ FALSE \in BOOLEAN
    BY DEF BoundsAssumption
  <2>1. u \in Workers /\ u.up = v.up /\ u.last = f.epoch
    BY <1>1, <1>3, <2>4 DEF Workers
  <2>2. ~u.latched /\ u.streak = 0
    BY <1>1 DEF Workers
  <2>3. Sound(u)
    BY <2>2 DEF Sound, BoundsAssumption
  <2> QED
    BY <1>1, <1>2, <1>5, <2>1, <2>3
<1> QED
  BY <1>4, <1>5

-----------------------------------------------------------------------------
(* What the user interface thread still has to do.                         *)

Joined(s, t, u) ==
  /\ u \in Seq(Steps) /\ Len(u) = Len(s) + Len(t)
  /\ \A i \in 1 .. Len(s) + Len(t) : u[i] = IF i <= Len(s) THEN s[i] ELSE t[i - Len(s)]

LEMMA Joins ==
  ASSUME NEW s \in Seq(Steps), NEW t \in Seq(Steps)
  PROVE  Joined(s, t, s \o t)
PROOF
BY ConcatProperties DEF Joined

LEMMA One == ASSUME NEW S, NEW a \in S PROVE <<a>> \in Seq(S) /\ Len(<<a>>) = 1 /\ <<a>>[1] = a
PROOF
OBVIOUS

LEMMA Two ==
  ASSUME NEW S, NEW a \in S, NEW b \in S
  PROVE  <<a, b>> \in Seq(S) /\ Len(<<a, b>>) = 2 /\ <<a, b>>[1] = a /\ <<a, b>>[2] = b
PROOF
OBVIOUS

LEMMA Three ==
  ASSUME NEW S, NEW a \in S, NEW b \in S, NEW c \in S
  PROVE  /\ <<a, b, c>> \in Seq(S) /\ Len(<<a, b, c>>) = 3
         /\ <<a, b, c>>[1] = a /\ <<a, b, c>>[2] = b /\ <<a, b, c>>[3] = c
PROOF
OBVIOUS

LEMMA StepIs ==
  ASSUME NEW do \in Parts, NEW arg \in Modes \cup Paths \cup {""}
  PROVE  Step(do, arg) \in Steps /\ Step(do, arg).do = do /\ Step(do, arg).arg = arg
PROOF
BY DEF Step, Steps

LEMMA PartsAre ==
  /\ "path" \in Parts /\ "flag" \in Parts /\ "mode" \in Parts /\ "bump" \in Parts
  /\ "clearIn" \in Parts /\ "clearOut" \in Parts /\ "prewarm" \in Parts /\ "start" \in Parts
  /\ "" \in Modes \cup Paths \cup {""}
PROOF
BY DEF Parts

LEMMA ResetStepsAre ==
  /\ ResetSteps \in Seq(Steps) /\ Len(ResetSteps) = 3
  /\ ResetSteps[1].do = "bump" /\ ResetSteps[2].do = "clearIn" /\ ResetSteps[3].do = "clearOut"
PROOF
<1>1. /\ Step("bump", "") \in Steps /\ Step("clearIn", "") \in Steps
      /\ Step("clearOut", "") \in Steps
      /\ Step("bump", "").do = "bump" /\ Step("clearIn", "").do = "clearIn"
      /\ Step("clearOut", "").do = "clearOut"
  BY StepIs, PartsAre
<1> QED
  BY <1>1, Three DEF ResetSteps

LEMMA SettingStepsAre ==
  ASSUME NEW mode \in Modes, NEW path \in Paths
  PROVE  LET s == SettingSteps(mode, path)
         IN  /\ s \in Seq(Steps)
             /\ path = engine.path => Len(s) = 1
             /\ path # engine.path => /\ Len(s) = 6
                                      /\ s[1].do = "path" /\ s[1].arg = path
                                      /\ s[2].do = "flag" /\ s[3].do = "bump"
                                      /\ s[4].do = "clearIn" /\ s[5].do = "clearOut"
             /\ s[Len(s)].do = "mode" /\ s[Len(s)].arg = mode
PROOF
<1> DEFINE last == <<Step("mode", mode)>>
           first == <<Step("path", path), Step("flag", "")>>
           s == SettingSteps(mode, path)
<1>1. last \in Seq(Steps) /\ Len(last) = 1 /\ last[1].do = "mode" /\ last[1].arg = mode
  <2>1. Step("mode", mode) \in Steps /\ Step("mode", mode).do = "mode" /\ Step("mode", mode).arg = mode
    BY StepIs, PartsAre
  <2> QED
    BY <2>1, One
<1>2. /\ first \in Seq(Steps) /\ Len(first) = 2 /\ first[1].do = "path"
      /\ first[1].arg = path /\ first[2].do = "flag"
  <2>1. /\ Step("path", path) \in Steps /\ Step("flag", "") \in Steps
        /\ Step("path", path).do = "path" /\ Step("path", path).arg = path
        /\ Step("flag", "").do = "flag"
    BY StepIs, PartsAre
  <2> QED
    BY <2>1, Two
<1>3. CASE path = engine.path
  <2>1. s = <<>> \o last
    BY <1>3 DEF SettingSteps
  <2> HIDE DEF s, last
  <2>2. Len(s) = 1 /\ s \in Seq(Steps) /\ s[1] = last[1]
    BY <1>1, <2>1
  <2> QED
    BY <1>1, <1>3, <2>2 DEF s
<1>4. CASE path # engine.path
  <2>1. s = (first \o ResetSteps) \o last
    BY <1>4 DEF SettingSteps
  <2> HIDE DEF s, last, first
  <2>2. DEFINE t == first \o ResetSteps
  <2>3. /\ t \in Seq(Steps) /\ Len(t) = 5 /\ t[1] = first[1] /\ t[2] = first[2]
        /\ t[3] = ResetSteps[1] /\ t[4] = ResetSteps[2] /\ t[5] = ResetSteps[3]
    <3>1. Joined(first, ResetSteps, t)
      BY <1>2, ResetStepsAre, Joins
    <3> HIDE DEF t
    <3> QED
      BY <1>2, <3>1, ResetStepsAre DEF Joined
  <2> HIDE DEF t
  <2>4. s = t \o last
    BY <2>1 DEF t
  <2>5. /\ s \in Seq(Steps) /\ Len(s) = 6 /\ s[6] = last[1]
        /\ \A i \in 1..5 : s[i] = t[i]
    <3>1. Joined(t, last, s)
      BY <1>1, <2>3, <2>4, Joins
    <3> QED
      BY <1>1, <2>3, <3>1 DEF Joined
  <2>6. s[1] = t[1] /\ s[2] = t[2] /\ s[3] = t[3] /\ s[4] = t[4] /\ s[5] = t[5]
    BY <2>5
  <2> QED
    BY <1>1, <1>2, <1>4, <2>3, <2>5, <2>6, ResetStepsAre DEF s
<1> QED
  BY <1>3, <1>4

(* A place in a queue, counted before and after its head is taken.  It is stated apart from
   the queue because the arithmetic is lost among the facts about sequences. *)
LEMMA OneShorter ==
  ASSUME NEW i \in Nat, NEW n \in Nat, i >= 1
  PROVE  /\ i + 1 = n => i = n - 1
         /\ i + 1 <= 2 /\ i + 1 < n => i = 1 /\ i < n - 1
OBVIOUS

\* The first step is done.
LEMMA Pops ==
  ASSUME Typed, UiInv, ui # <<>>, ui' = Tail(ui), wanted' = wanted
  PROVE  /\ ui' \in Seq(Steps) /\ UiInv' /\ Head(ui) = ui[1] /\ 1 \in 1..Len(ui)
         /\ Len(ui') = Len(ui) - 1
         /\ \A i \in 1..Len(ui) : i = 1 \/ (i - 1 \in 1..Len(ui') /\ ui'[i - 1] = ui[i])
         /\ \A do \in Parts : Waits(do)' => Waits(do)
         /\ \A do \in Parts : Head(ui).do # do /\ Waits(do) => Waits(do)'
PROOF
<1>1. ui \in Seq(Steps)
  BY DEF Typed
<1>2. /\ ui' \in Seq(Steps) /\ Len(ui') = Len(ui) - 1 /\ Len(ui) \in Nat \ {0}
      /\ \A i \in 1..Len(ui') : i + 1 \in 1..Len(ui) /\ ui'[i] = ui[i + 1]
      /\ Head(ui) = ui[1]
  <2> HIDE DEF Steps
  <2> QED
    BY <1>1
<1>3. \A i \in 1..Len(ui) : i = 1 \/ (i - 1 \in 1..Len(ui') /\ ui'[i - 1] = ui[i])
  BY <1>2
<1>4. UiInv'
  <2>1. ASSUME NEW i \in 1..Len(ui')
        PROVE  /\ ui'[i].do = "mode" => i = Len(ui') /\ ui'[i].arg = wanted.mode
               /\ ui'[i].do # "path"
               /\ ui'[i].do = "flag" => i = 1 /\ i < Len(ui') /\ ui'[Len(ui')].do = "mode"
    <3>1. i + 1 \in 1..Len(ui) /\ ui'[i] = ui[i + 1] /\ i + 1 > 1
      BY <1>2
    <3>2. ui'[i].do = "mode" => i + 1 = Len(ui) /\ ui'[i].arg = wanted.mode
      BY <3>1 DEF UiInv
    <3>3. ui'[i].do # "path"
      BY <3>1 DEF UiInv
    <3>4. ui'[i].do = "flag" => i + 1 <= 2 /\ i + 1 < Len(ui) /\ ui[Len(ui)].do = "mode"
      BY <3>1 DEF UiInv
    <3>5. Len(ui') \in 1..Len(ui') /\ ui'[Len(ui')] = ui[Len(ui)]
      BY <1>2
    <3>8. i \in Nat /\ Len(ui) \in Nat /\ Len(ui') = Len(ui) - 1
      BY <1>2
    <3>9. /\ i + 1 = Len(ui) => i = Len(ui')
          /\ i + 1 <= 2 /\ i + 1 < Len(ui) => i = 1 /\ i < Len(ui')
      <4>1. i >= 1
        BY <3>8
      <4>2. /\ i + 1 = Len(ui) => i = Len(ui) - 1
            /\ i + 1 <= 2 /\ i + 1 < Len(ui) => i = 1 /\ i < Len(ui) - 1
        BY <3>8, <4>1, OneShorter
      <4> QED
        BY <3>8, <4>2, Zenon
    <3>6. ui'[i].do = "mode" => i = Len(ui')
      BY <3>2, <3>9
    <3>7. ui'[i].do = "flag" => i = 1 /\ i < Len(ui') /\ ui'[Len(ui')].do = "mode"
      BY <3>4, <3>5, <3>9
    <3> QED
      BY <3>2, <3>3, <3>6, <3>7
  <2>2. ASSUME NEW i \in 1..Len(ui'), NEW j \in 1..Len(ui'), ui'[i].do = "prewarm",
               ui'[j].do = "prewarm"
        PROVE  i = j
    <3>2. i + 1 \in 1..Len(ui) /\ j + 1 \in 1..Len(ui) /\ ui[i + 1].do = "prewarm"
          /\ ui[j + 1].do = "prewarm"
      BY <1>2, <2>2
    <3>1. i + 1 = j + 1
      BY <3>2 DEF UiInv
    <3> QED
      BY <3>1
  <2> QED
    BY <2>1, <2>2 DEF UiInv
<1>5. \A do \in Parts : Waits(do)' => Waits(do)
  BY <1>2 DEF Waits
<1>6. \A do \in Parts : Head(ui).do # do /\ Waits(do) => Waits(do)'
  BY <1>2, <1>3 DEF Waits
<1> QED
  BY <1>2, <1>3, <1>4, <1>5, <1>6

LEMMA EngineType ==
  Typed => /\ engine \in [mode : Modes, modeAt : Nat, path : Paths, pathAt : Nat, empty : BOOLEAN]
           /\ ui \in Seq(Steps) /\ calls \subseteq Calls
           /\ wanted \in [mode : Modes, path : Paths, rawBefore : BOOLEAN, removes : BOOLEAN]
           /\ queue \in [kick : BOOLEAN, modes : Seq(Modes)]
PROOF
BY DEF Typed

LEMMA ModeIsLast ==
  ASSUME Typed, UiInv
  PROVE  /\ Waits("path") => Waits("flag")
         /\ Waits("flag") => Waits("mode")
PROOF
<1>1. ui \in Seq(Steps) /\ Len(ui) \in Nat
  BY EngineType
<1>2. Waits("path") => Waits("flag")
  <2> SUFFICES ASSUME NEW i \in 1..Len(ui), ui[i].do = "path" PROVE Waits("flag")
    BY DEF Waits
  <2>1. 2 \in 1..Len(ui) /\ ui[2].do = "flag"
    BY <1>1 DEF UiInv
  <2> QED
    BY <2>1 DEF Waits
<1>3. Waits("flag") => Waits("mode")
  <2> SUFFICES ASSUME NEW i \in 1..Len(ui), ui[i].do = "flag" PROVE Waits("mode")
    BY DEF Waits
  <2>1. Len(ui) \in 1..Len(ui) /\ ui[Len(ui)].do = "mode"
    BY <1>1 DEF UiInv
  <2> QED
    BY <2>1 DEF Waits
<1> QED
  BY <1>2, <1>3

\* A frame that goes out raw now may do so, or the image is being removed.
LEMMA RawNow ==
  ASSUME Typed, UiInv, SettingsInv
  PROVE  /\ engine.mode = "None" => MayRaw
         /\ engine.mode = "Image" /\ engine.empty => MayRaw \/ Baring
PROOF
<1>1. CASE Waits("mode")
  BY <1>1, BaringIs DEF SettingsInv
<1>2. CASE ~Waits("mode")
  <2>1. ~Waits("flag") /\ ~Waits("path") /\ wanted.mode = engine.mode
    BY <1>2, ModeIsLast DEF SettingsInv
  <2>2. wanted.path = engine.path /\ engine.empty = (engine.path = NoPlate)
    BY <2>1 DEF SettingsInv
  <2> QED
    BY <2>1, <2>2, BaringIs DEF RawAllowed
<1> QED
  BY <1>1, <1>2

\* No step of the worker or of a camera thread changes the settings.
LEMMA SameSettings ==
  ASSUME BInv, UNCHANGED <<engine, ui, wanted>>
  PROVE  UiInv' /\ SettingsInv' /\ \A do \in Parts : Waits(do)' <=> Waits(do)
PROOF
BY DEF BInv, UiInv, SettingsInv, Waits

LEMMA SameCalls ==
  ASSUME BInv, calls' = calls, engine'.empty = engine.empty, wanted' = wanted,
         Waits("mode")' => Waits("mode")
  PROVE  CallsInv'
PROOF
BY DEF BInv, CallsInv

LEMMA SameQueue ==
  ASSUME BInv, UNCHANGED <<engine, ui, wanted>>, queue'.modes = queue.modes,
         worker'.up = worker.up
  PROVE  QueueInv'
PROOF
BY DEF BInv, QueueInv, Waits

-----------------------------------------------------------------------------
(* The user changes the settings, or the camera starts and stops.          *)

LEMMA FreeIs ==
  ASSUME BInv, Free
  PROVE  /\ engine.mode = wanted.mode /\ engine.path = wanted.path
         /\ engine.empty = (engine.path = NoPlate)
         /\ IF queue.modes = <<>> THEN worker.up <=> engine.mode # "None"
            ELSE queue.modes[Len(queue.modes)] = engine.mode
         /\ \A do \in Parts : ~Waits(do)
PROOF
<1>1. \A do \in Parts : ~Waits(do)
  BY DEF Free, Waits
<1> QED
  BY <1>1, PartsAre DEF BInv, SettingsInv, QueueInv

LEMMA ApplyBackgroundSettingsKeeps ==
  ASSUME BInv, NEW mode \in Modes, NEW path \in Paths, ApplyBackgroundSettings(mode, path)
  PROVE  BInv'
PROOF
<1> DEFINE s == SettingSteps(mode, path)
<1>1. /\ s \in Seq(Steps) /\ s[Len(s)].do = "mode" /\ s[Len(s)].arg = mode
      /\ path = engine.path => Len(s) = 1
      /\ path # engine.path => /\ Len(s) = 6 /\ s[1].do = "path" /\ s[1].arg = path
                               /\ s[2].do = "flag" /\ s[3].do = "bump"
                               /\ s[4].do = "clearIn" /\ s[5].do = "clearOut"
  BY SettingStepsAre
<1>2. /\ Free /\ changes' = changes + 1 /\ ui' = s
      /\ wanted' = [mode |-> mode, path |-> path,
                    rawBefore |-> RawAllowed(engine.mode, engine.path), removes |-> Removes(path)]
      /\ calls' = {[c EXCEPT !.mayRaw = @ \/ RawAllowed(mode, path),
                             !.bared = @ \/ Removes(path)] : c \in calls}
      /\ UNCHANGED <<engine, box, queue, worker, camera, settled, strays>>
  BY DEF ApplyBackgroundSettings
<1> HIDE DEF s
<1>3. wanted'.mode = mode /\ wanted'.path = path
      /\ wanted'.rawBefore = RawAllowed(engine.mode, engine.path)
      /\ wanted'.removes = Removes(path)
  BY <1>2
<1>4. calls' \subseteq Calls /\ CallsInv'
  <2> DEFINE after(c) == [c EXCEPT !.mayRaw = @ \/ RawAllowed(mode, path),
                                   !.bared = @ \/ Removes(path)]
  <2>1. ASSUME NEW c \in calls
        PROVE  /\ after(c) \in Calls /\ after(c).pc = c.pc
               /\ c.mayRaw => after(c).mayRaw
               /\ c.bared \/ Removes(path) => after(c).bared
    <3>1. c \in Calls
      BY EngineType DEF BInv
    <3>2. (c.mayRaw \/ RawAllowed(mode, path)) \in BOOLEAN /\ (c.bared \/ Removes(path)) \in BOOLEAN
      OBVIOUS
    <3>3. after(c) = [c EXCEPT !.mayRaw = c.mayRaw \/ RawAllowed(mode, path),
                               !.bared = c.bared \/ Removes(path)]
      BY <3>1 DEF Calls
    <3> QED
      BY <3>1, <3>2, <3>3 DEF Calls
  <2>2. \A c \in calls : c.pc = "flag" /\ engine.empty => c.mayRaw \/ c.bared
    BY DEF BInv, CallsInv
  <2>3. calls' = {after(c) : c \in calls}
    BY <1>2
  <2> HIDE DEF after
  <2>4. calls' \subseteq Calls
    BY <2>1, <2>3
  <2>5. \A d \in calls' : d.pc = "flag" /\ engine'.empty => d.mayRaw \/ d.bared
    <3> SUFFICES ASSUME NEW c \in calls, after(c).pc = "flag", engine.empty
                 PROVE  after(c).mayRaw \/ after(c).bared
      BY <1>2, <2>3
    <3> QED
      BY <2>1, <2>2
  <2>6. wanted'.removes => \A d \in calls' : d.bared
    BY <1>3, <2>1, <2>3
  <2> QED
    BY <2>4, <2>5, <2>6 DEF CallsInv
<1>5. Typed'
  <2>1. wanted' \in [mode : Modes, path : Paths, rawBefore : BOOLEAN, removes : BOOLEAN]
    <3>1. Removes(path) \in BOOLEAN
      BY DEF Removes
    <3> QED
      BY <1>2, <3>1, RawAllowedType
  <2>2. changes' \in Nat
    <3>1. changes \in Nat /\ changes' = changes + 1
      BY <1>2 DEF BInv, Typed
    <3> QED
      BY <3>1
  <2> QED
    BY <1>1, <1>2, <1>4, <2>1, <2>2 DEF BInv, Typed
<1>6. engine.mode = "None" \/ (engine.mode = "Image" /\ engine.empty) => wanted'.rawBefore
  BY <1>2, <1>3, FreeIs DEF RawAllowed
<1>7. UiInv' /\ SettingsInv' /\ Waits("mode")'
  <2>1. CASE path = engine.path
    <3>1. Len(ui') = 1 /\ ui'[1].do = "mode" /\ ui'[1].arg = wanted'.mode
      BY <1>1, <1>2, <1>3, <2>1
    <3>2. UiInv'
      BY <3>1 DEF UiInv
    <3>3. Waits("mode")' /\ ~Waits("path")' /\ ~Waits("flag")'
      BY <3>1 DEF Waits
    <3>4. engine'.path = wanted'.path /\ engine'.empty = (engine'.path = NoPlate)
      BY <1>2, <1>3, <2>1, FreeIs
    <3> QED
      BY <1>2, <1>6, <3>2, <3>3, <3>4 DEF SettingsInv
  <2>2. CASE path # engine.path
    <3>1. /\ Len(ui') = 6 /\ ui'[1].do = "path" /\ ui'[1].arg = wanted'.path
          /\ ui'[2].do = "flag" /\ ui'[3].do = "bump" /\ ui'[4].do = "clearIn"
          /\ ui'[5].do = "clearOut" /\ ui'[6].do = "mode" /\ ui'[6].arg = wanted'.mode
      BY <1>1, <1>2, <1>3, <2>2
    <3>2. \A i \in 1..Len(ui') : i = 1 \/ i = 2 \/ i = 3 \/ i = 4 \/ i = 5 \/ i = 6
      BY <3>1
    <3>3. UiInv'
      BY <3>1, <3>2 DEF UiInv
    <3>4. Waits("mode")' /\ Waits("path")' /\ Waits("flag")'
      BY <3>1 DEF Waits
    <3>5. wanted'.path = NoPlate => wanted'.removes
      BY <1>3, <2>2 DEF Removes
    <3> QED
      BY <1>2, <1>6, <3>3, <3>4, <3>5 DEF SettingsInv
  <2> QED
    BY <2>1, <2>2
<1>8. QueueInv' /\ Sound(worker)'
  BY <1>2, <1>7 DEF BInv, QueueInv, Sound
<1> QED
  BY <1>4, <1>5, <1>7, <1>8 DEF BInv

LEMMA ResetsOnly ==
  ASSUME BInv, Free, UNCHANGED <<engine, wanted, queue, worker>>, ui' \in Seq(Steps),
         \A i \in 1..Len(ui') : ui'[i].do \notin {"mode", "path", "flag"},
         \A i, j \in 1..Len(ui') : ui'[i].do = "prewarm" /\ ui'[j].do = "prewarm" => i = j
  PROVE  UiInv' /\ SettingsInv' /\ QueueInv' /\ ~Waits("mode")'
PROOF
<1>1. UiInv'
  BY DEF UiInv
<1>2. ~Waits("mode")' /\ ~Waits("path")' /\ ~Waits("flag")'
  BY DEF Waits
<1>3. SettingsInv'
  BY <1>2, FreeIs DEF SettingsInv
<1>4. QueueInv'
  BY FreeIs DEF QueueInv
<1> QED
  BY <1>1, <1>2, <1>3, <1>4

LEMMA CleanupKeeps == ASSUME BInv, Cleanup PROVE BInv'
PROOF
<1> USE DEF Cleanup
<1>1. ui' \in Seq(Steps)
  BY ResetStepsAre
<1>2. \A i \in 1..Len(ui') : ui'[i].do \in {"bump", "clearIn", "clearOut"}
  BY ResetStepsAre
<1>3. UiInv' /\ SettingsInv' /\ QueueInv' /\ ~Waits("mode")'
  BY <1>1, <1>2, ResetsOnly
<1>4. Typed'
  <2>1. changes' \in Nat /\ camera' \in [on : BOOLEAN, session : Nat]
    BY DEF BInv, Typed
  <2> QED
    BY <1>1, <2>1 DEF BInv, Typed
<1> QED
  BY <1>3, <1>4, SameCalls DEF BInv, Sound

LEMMA WarmStepsAre ==
  LET one == <<Step("prewarm", "")>>
      two == <<Step("prewarm", ""), Step("start", "")>>
  IN  /\ ResetSteps \o one \in Seq(Steps)
      /\ \A i \in 1..Len(ResetSteps \o one) :
           (ResetSteps \o one)[i].do \notin {"mode", "path", "flag"}
      /\ \A i \in 1..Len(ResetSteps \o one) : (ResetSteps \o one)[i].do = "prewarm" <=> i = 4
      /\ 4 \in 1..Len(ResetSteps \o one)
      /\ ResetSteps \o two \in Seq(Steps)
      /\ \A i \in 1..Len(ResetSteps \o two) :
           (ResetSteps \o two)[i].do \notin {"mode", "path", "flag"}
      /\ \A i \in 1..Len(ResetSteps \o two) : (ResetSteps \o two)[i].do = "prewarm" <=> i = 4
PROOF
<1> DEFINE one == <<Step("prewarm", "")>>
           two == <<Step("prewarm", ""), Step("start", "")>>
           a == ResetSteps \o one
           b == ResetSteps \o two
<1>1. /\ Step("prewarm", "") \in Steps /\ Step("start", "") \in Steps
      /\ Step("prewarm", "").do = "prewarm" /\ Step("start", "").do = "start"
  BY StepIs, PartsAre
<1>2. one \in Seq(Steps) /\ Len(one) = 1 /\ one[1].do = "prewarm"
  BY <1>1, One
<1>3. two \in Seq(Steps) /\ Len(two) = 2 /\ two[1].do = "prewarm" /\ two[2].do = "start"
  BY <1>1, Two
<1> HIDE DEF one, two
<1>4. Joined(ResetSteps, one, a) /\ Joined(ResetSteps, two, b)
  BY <1>2, <1>3, ResetStepsAre, Joins
<1> HIDE DEF a, b
<1>5. /\ a \in Seq(Steps) /\ Len(a) = 4 /\ a[1].do = "bump" /\ a[2].do = "clearIn"
      /\ a[3].do = "clearOut" /\ a[4].do = "prewarm"
  BY <1>2, <1>4, ResetStepsAre DEF Joined
<1>6. /\ b \in Seq(Steps) /\ Len(b) = 5 /\ b[1].do = "bump" /\ b[2].do = "clearIn"
      /\ b[3].do = "clearOut" /\ b[4].do = "prewarm" /\ b[5].do = "start"
  BY <1>3, <1>4, ResetStepsAre DEF Joined
<1>7. \A i \in 1..Len(a) : i = 1 \/ i = 2 \/ i = 3 \/ i = 4
  BY <1>5
<1>8. \A i \in 1..Len(b) : i = 1 \/ i = 2 \/ i = 3 \/ i = 4 \/ i = 5
  BY <1>6
<1>9. /\ \A i \in 1..Len(a) : a[i].do \notin {"mode", "path", "flag"}
      /\ \A i \in 1..Len(a) : a[i].do = "prewarm" <=> i = 4
  BY <1>5, <1>7
<1>10. /\ \A i \in 1..Len(b) : b[i].do \notin {"mode", "path", "flag"}
       /\ \A i \in 1..Len(b) : b[i].do = "prewarm" <=> i = 4
  BY <1>6, <1>8
<1>11. 4 \in 1..Len(a)
  BY <1>5
<1> QED
  BY <1>5, <1>6, <1>9, <1>10, <1>11 DEF a, b, one, two

LEMMA EnableCameraKeeps == ASSUME BInv, EnableCamera PROVE BInv'
PROOF
<1> USE DEF EnableCamera
<1>1. ui' = ResetSteps \o <<Step("prewarm", ""), Step("start", "")>>
  OBVIOUS
<1>2. /\ ui' \in Seq(Steps)
      /\ \A i \in 1..Len(ui') : ui'[i].do \notin {"mode", "path", "flag"}
      /\ \A i \in 1..Len(ui') : ui'[i].do = "prewarm" <=> i = 4
  BY <1>1, WarmStepsAre
<1>3. UiInv' /\ SettingsInv' /\ QueueInv' /\ ~Waits("mode")'
  BY <1>2, ResetsOnly
<1>4. Typed'
  <2>3. changes \in Nat /\ changes' = changes + 1
    BY DEF BInv, Typed
  <2>2. UNCHANGED <<engine, box, queue, worker, calls, camera, wanted, settled>>
    OBVIOUS
  <2> HIDE DEF EnableCamera
  <2>1. changes' \in Nat
    BY <2>3
  <2> QED
    BY <1>2, <2>1, <2>2 DEF BInv, Typed
<1> QED
  BY <1>3, <1>4, SameCalls DEF BInv, Sound

-----------------------------------------------------------------------------
(* The user interface thread goes on.                                      *)

\* A step that sets neither path, flag nor mode is done.
LEMMA ResetPops ==
  ASSUME BInv, ui # <<>>, Head(ui).do \in {"bump", "clearIn", "clearOut", "start"},
         ui' = Tail(ui), UNCHANGED <<engine, wanted, queue, worker, calls>>
  PROVE  /\ ui' \in Seq(Steps)
         /\ UiInv' /\ SettingsInv' /\ CallsInv' /\ QueueInv' /\ Sound(worker)'
PROOF
<1>1. ui' \in Seq(Steps) /\ UiInv'
  BY Pops DEF BInv
<1>2. /\ Waits("mode")' <=> Waits("mode")
      /\ Waits("path")' <=> Waits("path")
      /\ Waits("flag")' <=> Waits("flag")
      /\ Waits("prewarm")' <=> Waits("prewarm")
  BY Pops, PartsAre DEF BInv
<1>3. SettingsInv' /\ QueueInv'
  BY <1>2 DEF BInv, SettingsInv, QueueInv
<1> QED
  BY <1>1, <1>2, <1>3, SameCalls DEF BInv, Sound

LEMMA BumpEpochKeeps == ASSUME BInv, BumpEpoch PROVE BInv'
PROOF
<1> USE DEF BumpEpoch, Doing
<1>1. /\ ui' \in Seq(Steps)
      /\ UiInv' /\ SettingsInv' /\ CallsInv' /\ QueueInv' /\ Sound(worker)'
  BY ResetPops
<1>2. settled' \in Marks
  BY DEF BInv, Typed, Now, Marks
<1>3. box' \in [epoch : Nat, in : Frames \cup {Nothing},
                out : {Nothing} \cup [picture : PictureType \cup {Mosaic}, epoch : Nat]]
  <2> DEFINE outs == {Nothing} \cup [picture : PictureType \cup {Mosaic}, epoch : Nat]
  <2>1. box \in [epoch : Nat, in : Frames \cup {Nothing}, out : outs]
    BY DEF BInv, Typed
  <2>2. box' = [box EXCEPT !.epoch = box.epoch + 1]
    OBVIOUS
  <2> HIDE DEF outs
  <2>3. box' \in [epoch : Nat, in : Frames \cup {Nothing}, out : outs]
    BY <2>1, <2>2
  <2> QED
    BY <2>3 DEF outs
<1>4. Typed'
  BY <1>1, <1>2, <1>3 DEF BInv, Typed
<1> QED
  BY <1>1, <1>4 DEF BInv

LEMMA ClearsKeep == ASSUME BInv, ClearIn \/ ClearOut PROVE BInv'
PROOF
<1> USE DEF ClearIn, ClearOut, Doing
<1>1. /\ ui' \in Seq(Steps)
      /\ UiInv' /\ SettingsInv' /\ CallsInv' /\ QueueInv' /\ Sound(worker)'
  BY ResetPops
<1>2. box' \in [epoch : Nat, in : Frames \cup {Nothing},
                out : {Nothing} \cup [picture : PictureType \cup {Mosaic}, epoch : Nat]]
  BY DEF BInv, Typed
<1>3. Typed'
  BY <1>1, <1>2 DEF BInv, Typed
<1> QED
  BY <1>1, <1>3 DEF BInv

LEMMA StartSourceKeeps == ASSUME BInv, StartSource PROVE BInv'
PROOF
<1> USE DEF StartSource, Doing
<1>1. /\ ui' \in Seq(Steps)
      /\ UiInv' /\ SettingsInv' /\ CallsInv' /\ QueueInv' /\ Sound(worker)'
  BY ResetPops
<1>2. camera' \in [on : BOOLEAN, session : Nat]
  <2>1. camera \in [on : BOOLEAN, session : Nat]
    BY DEF BInv, Typed
  <2>2. TRUE \in BOOLEAN
    OBVIOUS
  <2> QED
    BY <2>1, <2>2
<1>3. Typed'
  BY <1>1, <1>2 DEF BInv, Typed
<1> QED
  BY <1>1, <1>3 DEF BInv

LEMMA StorePathKeeps == ASSUME BInv, StorePath PROVE BInv'
PROOF
<1> USE DEF StorePath, Doing
<1>1. ui' \in Seq(Steps) /\ UiInv' /\ Head(ui) = ui[1] /\ 1 \in 1..Len(ui)
  BY Pops DEF BInv
<1>2. ui[1].arg = wanted.path /\ 2 \in 1..Len(ui) /\ ui[2].do = "flag"
  <2>1. Len(ui) \in Nat
    BY EngineType DEF BInv
  <2> QED
    BY <1>1, <2>1 DEF BInv, UiInv
<1>3. engine'.path = wanted.path /\ engine'.empty = engine.empty /\ engine'.mode = engine.mode
      /\ engine' \in [mode : Modes, modeAt : Nat, path : Paths, pathAt : Nat, empty : BOOLEAN]
  <2>1. changes \in Nat
    BY DEF BInv, Typed
  <2> QED
    BY <1>1, <1>2, <2>1, EngineType DEF BInv
<1>4. Waits("path") /\ Waits("flag") /\ Waits("mode") /\ Waits("flag")' /\ Waits("mode")'
  <2>1. Waits("path") /\ Waits("flag") /\ Waits("mode")
    BY <1>1, ModeIsLast DEF BInv, Waits
  <2> QED
    BY <2>1, Pops, PartsAre DEF BInv
<1>5. SettingsInv'
  BY <1>3, <1>4 DEF BInv, SettingsInv
<1>6. CallsInv' /\ QueueInv' /\ Sound(worker)'
  BY <1>3, <1>4 DEF BInv, CallsInv, QueueInv, Sound
<1>7. Typed'
  BY <1>1, <1>3 DEF BInv, Typed
<1> QED
  BY <1>1, <1>5, <1>6, <1>7 DEF BInv

LEMMA StoreFlagKeeps == ASSUME BInv, StoreFlag PROVE BInv'
PROOF
<1> USE DEF StoreFlag, Doing
<1>1. ui' \in Seq(Steps) /\ UiInv' /\ Head(ui) = ui[1] /\ 1 \in 1..Len(ui)
  BY Pops DEF BInv
<1>2. Waits("flag") /\ ~Waits("path") /\ Waits("mode") /\ ~Waits("path")' /\ Waits("mode")'
  <2>1. Waits("flag") /\ Waits("mode")
    BY <1>1, ModeIsLast DEF BInv, Waits
  <2>2. ~Waits("path")
    BY <1>1 DEF BInv, UiInv, Waits
  <2> QED
    BY <2>1, <2>2, Pops, PartsAre DEF BInv
<1>3. engine.path = wanted.path /\ (engine.path = NoPlate => wanted.removes)
  BY <1>2 DEF BInv, SettingsInv
<1>4. /\ engine'.path = engine.path /\ engine'.empty = (engine.path = NoPlate)
      /\ engine'.mode = engine.mode /\ wanted' = wanted /\ calls' = calls
  BY EngineType DEF BInv
<1>5. engine' \in [mode : Modes, modeAt : Nat, path : Paths, pathAt : Nat, empty : BOOLEAN]
  <2>1. (engine.path = NoPlate) \in BOOLEAN
    OBVIOUS
  <2> QED
    BY <2>1, EngineType DEF BInv
<1>6. SettingsInv'
  <2>1. engine'.mode = "None" => wanted.rawBefore
    BY <1>2, <1>4 DEF BInv, SettingsInv
  <2>2. engine'.empty = (engine'.path = NoPlate)
    BY <1>4, EngineType DEF BInv
  <2> QED
    BY <1>2, <1>3, <1>4, <2>1, <2>2 DEF SettingsInv
<1>7. CallsInv'
  <2>1. engine'.empty \/ wanted.removes => \A c \in calls : c.bared
    BY <1>2, <1>3, <1>4 DEF BInv, CallsInv
  <2> QED
    BY <1>4, <2>1 DEF CallsInv
<1>9. QueueInv' /\ Sound(worker)'
  BY <1>2 DEF BInv, QueueInv, Sound
<1>8. Typed'
  BY <1>1, <1>5 DEF BInv, Typed
<1> QED
  BY <1>1, <1>6, <1>7, <1>8, <1>9 DEF BInv

LEMMA PostedType ==
  ASSUME Typed, NEW m \in Modes
  PROVE  /\ Posted(m).modes # <<>> /\ Posted(m).modes[Len(Posted(m).modes)] = m
         /\ Posted(m) \in [kick : BOOLEAN, modes : Seq(Modes)]
PROOF
<1> DEFINE longer == Append(queue.modes, m)
<1>1. queue \in [kick : BOOLEAN, modes : Seq(Modes)]
  BY EngineType
<1>2. /\ longer \in Seq(Modes) /\ longer # <<>> /\ Len(longer) = Len(queue.modes) + 1
      /\ longer[Len(queue.modes) + 1] = m
  BY <1>1, AppendProperties
<1>3. Posted(m) = [queue EXCEPT !.modes = longer]
  BY DEF Posted
<1> HIDE DEF longer
<1>4. Posted(m).modes = longer /\ Posted(m) \in [kick : BOOLEAN, modes : Seq(Modes)]
  BY <1>1, <1>2, <1>3
<1> QED
  BY <1>2, <1>4

LEMMA ExchangeModeKeeps == ASSUME BInv, ExchangeMode PROVE BInv'
PROOF
<1> DEFINE m == Head(ui).arg
<1>1. ui # <<>> /\ Head(ui) = ui[1] /\ 1 \in 1..Len(ui) /\ ui[1].do = "mode"
  <2>1. ui # <<>> /\ Head(ui).do = "mode"
    BY DEF ExchangeMode, Doing
  <2>2. ui \in Seq(Steps)
    BY EngineType DEF BInv
  <2> HIDE DEF Steps
  <2> QED
    BY <2>1, <2>2
<1>2. Len(ui) = 1 /\ m = wanted.mode
  BY <1>1 DEF BInv, UiInv
<1>3. ~Waits("path") /\ ~Waits("flag") /\ ~Waits("prewarm") /\ Waits("mode")
  BY <1>1, <1>2 DEF Waits
<1>4. /\ engine.path = wanted.path /\ engine.empty = (engine.path = NoPlate)
      /\ engine \in [mode : Modes, modeAt : Nat, path : Paths, pathAt : Nat, empty : BOOLEAN]
      /\ wanted.mode \in Modes /\ changes \in Nat
  <2>1. engine.path = wanted.path /\ engine.empty = (engine.path = NoPlate)
    BY <1>3 DEF BInv, SettingsInv
  <2>2. wanted.mode \in Modes /\ changes \in Nat
    BY DEF BInv, Typed
  <2> QED
    BY <2>1, <2>2, EngineType DEF BInv
<1>5. UNCHANGED <<box, worker, calls, camera, changes, wanted, settled>>
  BY DEF ExchangeMode
<1>6. Tail(ui) = <<>>
  <2>1. Tail(ui) \in Seq(Steps) /\ Len(Tail(ui)) = 0
    BY <1>1, <1>2, EngineType, HeadTailProperties DEF BInv
  <2> QED
    BY <2>1, EmptySeq
<1>7. CASE m # engine.mode
  <2>1. /\ engine' = [engine EXCEPT !.mode = m, !.modeAt = changes]
        /\ ui' = (ResetSteps \o <<Step("prewarm", "")>>) \o <<>>
        /\ queue' = queue
    BY <1>6, <1>7 DEF ExchangeMode
  <2>2. ui' = ResetSteps \o <<Step("prewarm", "")>>
    BY <2>1, WarmStepsAre, ConcatEmptySeq
  <2>3. /\ ui' \in Seq(Steps)
        /\ \A i \in 1..Len(ui') : ui'[i].do \notin {"mode", "path", "flag"}
        /\ \A i \in 1..Len(ui') : ui'[i].do = "prewarm" <=> i = 4
        /\ 4 \in 1..Len(ui')
    BY <2>2, WarmStepsAre
  <2>4. UiInv' /\ Waits("prewarm")' /\ ~Waits("mode")' /\ ~Waits("path")' /\ ~Waits("flag")'
    BY <2>3 DEF UiInv, Waits
  <2>5. /\ engine'.mode = wanted.mode /\ engine'.path = engine.path /\ engine'.empty = engine.empty
        /\ engine' \in [mode : Modes, modeAt : Nat, path : Paths, pathAt : Nat, empty : BOOLEAN]
    BY <1>2, <1>4, <2>1
  <2>6. SettingsInv' /\ QueueInv'
    BY <1>4, <1>5, <2>4, <2>5 DEF SettingsInv, QueueInv
  <2>7. CallsInv' /\ Sound(worker)'
    BY <1>5, <2>4, <2>5 DEF BInv, CallsInv, Sound
  <2>8. Typed'
    BY <1>5, <2>1, <2>3, <2>5 DEF BInv, Typed
  <2> QED
    BY <2>4, <2>6, <2>7, <2>8 DEF BInv
<1>8. CASE m = engine.mode
  <2>1. engine' = engine /\ ui' = <<>> /\ queue' = Posted(m)
    BY <1>6, <1>8 DEF ExchangeMode
  <2>2. UiInv' /\ \A do \in Parts : ~Waits(do)'
    BY <2>1 DEF UiInv, Waits
  <2>3. /\ queue'.modes # <<>> /\ queue'.modes[Len(queue'.modes)] = m
        /\ queue' \in [kick : BOOLEAN, modes : Seq(Modes)]
    BY <1>2, <1>4, <2>1, PostedType DEF BInv
  <2>4. SettingsInv' /\ QueueInv'
    BY <1>2, <1>4, <1>5, <1>8, <2>1, <2>2, <2>3, PartsAre DEF SettingsInv, QueueInv
  <2>5. CallsInv' /\ Sound(worker)'
    BY <1>5, <2>1, <2>2, PartsAre DEF BInv, CallsInv, Sound
  <2>6. Typed'
    BY <1>5, <2>1, <2>3 DEF BInv, Typed
  <2> QED
    BY <2>2, <2>4, <2>5, <2>6 DEF BInv
<1> QED
  BY <1>7, <1>8

LEMMA PostModeKeeps == ASSUME BInv, PostMode PROVE BInv'
PROOF
<1> USE DEF PostMode, Doing
<1>1. ui' \in Seq(Steps) /\ UiInv' /\ Head(ui) = ui[1] /\ 1 \in 1..Len(ui)
  BY Pops DEF BInv
<1>2. ~Waits("prewarm")'
  <2>1. \A i \in 1..Len(ui) : ui[i].do = "prewarm" => i = 1
    BY <1>1 DEF BInv, UiInv
  <2>2. \A i \in 1..Len(ui') : i + 1 \in 1..Len(ui) /\ ui'[i] = ui[i + 1] /\ i + 1 # 1
    <3>1. ui \in Seq(Steps)
      BY EngineType DEF BInv
    <3> HIDE DEF Steps
    <3> QED
      BY <3>1
  <2> QED
    BY <2>1, <2>2 DEF Waits
<1>3. /\ Waits("mode")' <=> Waits("mode")
      /\ Waits("path")' <=> Waits("path")
      /\ Waits("flag")' <=> Waits("flag")
  BY Pops, PartsAre DEF BInv
<1>4. /\ queue'.modes # <<>> /\ queue'.modes[Len(queue'.modes)] = engine.mode
      /\ queue' \in [kick : BOOLEAN, modes : Seq(Modes)]
  <2>1. engine.mode \in Modes
    BY EngineType DEF BInv
  <2> QED
    BY <2>1, PostedType DEF BInv
<1>5. SettingsInv' /\ QueueInv'
  BY <1>3, <1>4 DEF BInv, SettingsInv, QueueInv
<1>6. CallsInv' /\ Sound(worker)'
  BY <1>3 DEF BInv, CallsInv, Sound
<1>7. Typed'
  BY <1>1, <1>4 DEF BInv, Typed
<1> QED
  BY <1>1, <1>5, <1>6, <1>7 DEF BInv

-----------------------------------------------------------------------------
(* The camera threads.                                                     *)

LEMMA CameraStep ==
  ASSUME BInv, UNCHANGED <<engine, ui, worker, camera, changes, wanted, settled>>,
         box' \in [epoch : Nat, in : Frames \cup {Nothing},
                   out : {Nothing} \cup [picture : PictureType \cup {Mosaic}, epoch : Nat]],
         queue' \in [kick : BOOLEAN, modes : Seq(Modes)], queue'.modes = queue.modes,
         calls' \subseteq Calls, CallsInv'
  PROVE  BInv'
PROOF
<1>1. Typed'
  BY DEF BInv, Typed
<1>2. UiInv' /\ SettingsInv' /\ QueueInv' /\ Sound(worker)'
  BY SameSettings, SameQueue DEF BInv, Sound
<1> QED
  BY <1>1, <1>2 DEF BInv

LEMMA BoxType ==
  BInv => /\ box \in [epoch : Nat, in : Frames \cup {Nothing},
                       out : {Nothing} \cup [picture : PictureType \cup {Mosaic}, epoch : Nat]]
          /\ queue \in [kick : BOOLEAN, modes : Seq(Modes)]
          /\ calls \subseteq Calls
PROOF
BY DEF BInv, Typed

LEMMA LoadModeKeeps == ASSUME BInv, LoadMode PROVE BInv'
PROOF
<1> DEFINE d == [session |-> camera.session, mayRaw |-> MayRaw, bared |-> Baring, since |-> settled,
                 mode |-> engine.mode, modeAt |-> engine.modeAt,
                 path |-> NoPlate, pathAt |-> 0, epoch |-> 0,
                 pc |-> IF engine.mode = "Image" THEN "flag" ELSE "submit"]
<1>1. calls' = calls \cup {d}
      /\ UNCHANGED <<engine, ui, box, queue, worker, camera, changes, wanted, settled>>
  BY DEF LoadMode
<1>2. d \in Calls
  <2>1. MayRaw \in BOOLEAN /\ Baring \in BOOLEAN
    BY MayRawType DEF BInv
  <2>2. /\ camera.session \in Nat /\ settled \in Marks /\ engine.mode \in Modes
        /\ engine.modeAt \in Nat /\ NoPlate \in Paths
    BY DEF BInv, Typed, Paths
  <2> HIDE DEF Modes
  <2> QED
    BY <2>1, <2>2 DEF Calls
<1>3. d.pc = "flag" /\ engine.empty => d.mayRaw \/ d.bared
  BY RawNow DEF BInv
<1>5. Waits("mode") /\ wanted.removes => d.bared
  BY BaringIs DEF BInv
<1> HIDE DEF d
<1>6. Waits("mode")' <=> Waits("mode")
  BY <1>1 DEF Waits
<1>4. calls' \subseteq Calls /\ CallsInv'
  BY <1>1, <1>2, <1>3, <1>5, <1>6, BoxType DEF BInv, CallsInv
<1> QED
  BY <1>1, <1>4, BoxType, CameraStep

LEMMA BecomesKeeps ==
  ASSUME BInv, NEW c \in calls, NEW d \in Calls, Becomes(c, d), d.pc # "flag",
         d.bared = c.bared, UNCHANGED <<engine, ui, wanted>>
  PROVE  calls' \subseteq Calls /\ CallsInv'
PROOF
<1>1. Waits("mode")' <=> Waits("mode")
  BY DEF Waits
<1> QED
  BY <1>1, BoxType DEF BInv, CallsInv, Becomes

LEMMA LoadsKeep == ASSUME BInv, NEW c, LoadFlag(c) \/ LoadPath(c) PROVE BInv'
PROOF
<1> DEFINE d == IF c.pc = "flag" THEN [c EXCEPT !.pc = "submit"]
                ELSE [c EXCEPT !.pc = "filling", !.path = engine.path, !.pathAt = engine.pathAt]
<1>1. /\ c \in calls /\ Becomes(c, d)
      /\ UNCHANGED <<engine, ui, box, queue, worker, camera, changes, wanted, settled>>
  BY DEF LoadFlag, LoadPath
<1>2. d \in Calls /\ d.pc # "flag" /\ d.bared = c.bared
  <2>1. c \in Calls
    BY <1>1, BoxType
  <2>2. engine.path \in Paths /\ engine.pathAt \in Nat
    BY EngineType DEF BInv
  <2> QED
    BY <2>1, <2>2 DEF Calls
<1> HIDE DEF d
<1> QED
  BY <1>1, <1>2, BoxType, BecomesKeeps, CameraStep

LEMMA SubmitKeeps == ASSUME BInv, NEW c, Submit(c) PROVE BInv'
PROOF
<1> DEFINE d == [c EXCEPT !.pc = "take", !.epoch = box.epoch]
           f == [session |-> c.session, mode |-> c.mode, modeAt |-> c.modeAt,
                 path |-> c.path, pathAt |-> c.pathAt, epoch |-> box.epoch]
<1>1. /\ c \in calls /\ Becomes(c, d) /\ box' = [box EXCEPT !.in = f]
      /\ queue' = [queue EXCEPT !.kick = TRUE]
      /\ UNCHANGED <<engine, ui, worker, camera, changes, wanted, settled>>
  BY DEF Submit
<1>2. c \in Calls /\ box.epoch \in Nat
  BY <1>1, BoxType
<1>3. d \in Calls /\ d.pc # "flag" /\ d.bared = c.bared
  BY <1>2 DEF Calls
<1>4. f \in Frames
  BY <1>2 DEF Calls, Frames, Paths
<1> HIDE DEF d, f
<1>5. box' \in [epoch : Nat, in : Frames \cup {Nothing},
                out : {Nothing} \cup [picture : PictureType \cup {Mosaic}, epoch : Nat]]
  BY <1>1, <1>4, BoxType
<1>6. queue' \in [kick : BOOLEAN, modes : Seq(Modes)] /\ queue'.modes = queue.modes
  <2>1. TRUE \in BOOLEAN
    OBVIOUS
  <2> QED
    BY <1>1, <2>1, BoxType
<1> QED
  BY <1>1, <1>3, <1>5, <1>6, BecomesKeeps, CameraStep

LEMMA ReturnKeeps == ASSUME BInv, NEW c, Return(c) PROVE BInv'
PROOF
<1> USE DEF Return
<1>1. calls' \subseteq Calls /\ CallsInv'
  BY BoxType DEF BInv, CallsInv, Waits
<1> QED
  BY <1>1, BoxType, CameraStep

-----------------------------------------------------------------------------
(* The worker.                                                             *)

LEMMA WorkerStep ==
  ASSUME BInv, UNCHANGED <<engine, ui, calls, camera, changes, wanted, settled>>,
         box' \in [epoch : Nat, in : Frames \cup {Nothing},
                   out : {Nothing} \cup [picture : PictureType \cup {Mosaic}, epoch : Nat]],
         queue' \in [kick : BOOLEAN, modes : Seq(Modes)],
         worker' \in Workers, Sound(worker'), QueueInv'
  PROVE  BInv'
PROOF
<1>1. Typed'
  BY DEF BInv, Typed
<1>2. UiInv' /\ SettingsInv' /\ CallsInv'
  BY SameSettings, SameCalls, PartsAre
<1>3. Sound(worker)'
  BY DEF Sound
<1> QED
  BY <1>1, <1>2, <1>3 DEF BInv

\* A posted mode is handled.
LEMMA Handled ==
  ASSUME BInv, UNCHANGED <<engine, ui, wanted>>, queue.modes # <<>>,
         queue' = [queue EXCEPT !.modes = Tail(@)],
         worker'.up <=> Head(queue.modes) # "None"
  PROVE  QueueInv' /\ queue' \in [kick : BOOLEAN, modes : Seq(Modes)]
PROOF
<1> DEFINE rest == Tail(queue.modes)
<1>1. queue \in [kick : BOOLEAN, modes : Seq(Modes)] /\ queue.modes \in Seq(Modes)
  BY BoxType
<1>2. /\ rest \in Seq(Modes) /\ Len(rest) = Len(queue.modes) - 1 /\ Len(queue.modes) \in Nat
      /\ Len(queue.modes) > 0 /\ \A i \in 1..Len(rest) : rest[i] = queue.modes[i + 1]
      /\ Head(queue.modes) = queue.modes[1]
  <2> HIDE DEF Modes
  <2> QED
    BY <1>1
<1>3. queue'.modes = rest /\ queue' \in [kick : BOOLEAN, modes : Seq(Modes)]
  <2>1. queue' = [queue EXCEPT !.modes = rest]
    OBVIOUS
  <2> HIDE DEF rest
  <2> QED
    BY <1>1, <1>2, <2>1
<1> HIDE DEF rest
<1>4. CASE rest = <<>>
  <2>1. Len(queue.modes) = 1
    BY <1>2, <1>4
  <2> QED
    BY <1>2, <1>3, <1>4, <2>1 DEF BInv, QueueInv, Waits
<1>5. CASE rest # <<>>
  <2>1. Len(rest) > 0 /\ Len(rest) \in Nat
    BY <1>2, <1>5, EmptySeq
  <2>2. rest[Len(rest)] = queue.modes[Len(queue.modes)]
    BY <1>2, <2>1
  <2> QED
    BY <1>3, <1>5, <2>2 DEF BInv, QueueInv, Waits
<1> QED
  BY <1>3, <1>4, <1>5

LEMMA WorkerType == BInv => worker \in Workers /\ Sound(worker)
PROOF
BY DEF BInv, Typed

LEMMA ReleaseKeeps == ASSUME BoundsAssumption, BInv, Release PROVE BInv'
PROOF
<1>1. /\ queue.modes # <<>> /\ Head(queue.modes) = "None"
      /\ queue' = [queue EXCEPT !.modes = Tail(@)]
      /\ UNCHANGED <<engine, ui, calls, camera, changes, wanted, settled>>
  BY DEF Release
<1>2. worker' \in Workers /\ Sound(worker') /\ ~worker'.up
  <2>1. CASE worker.up
    <3>1. worker' = [worker EXCEPT !.up = FALSE, !.parked = Nothing, !.mask = Nothing,
                                   !.streak = 0, !.latched = FALSE]
      BY <2>1 DEF Release
    <3>2. 0 \in 0..Latch /\ FALSE \in BOOLEAN
      BY DEF BoundsAssumption
    <3>3. worker' \in Workers
      BY <3>1, <3>2, WorkerType DEF Workers
    <3>4. worker'.streak = 0 /\ ~worker'.latched /\ ~worker'.up
      BY <3>1, WorkerType DEF Workers
    <3> QED
      BY <3>3, <3>4 DEF Sound, BoundsAssumption
  <2>2. CASE ~worker.up
    BY <2>2, WorkerType DEF Release
  <2> QED
    BY <2>1, <2>2
<1>3. box' \in [epoch : Nat, in : Frames \cup {Nothing},
                out : {Nothing} \cup [picture : PictureType \cup {Mosaic}, epoch : Nat]]
  BY BoxType DEF Release
<1> QED
  BY <1>1, <1>2, <1>3, Handled, WorkerStep

LEMMA BringUpKeeps == ASSUME BInv, BringUp PROVE BInv'
PROOF
<1>1. /\ queue.modes # <<>> /\ Head(queue.modes) # "None"
      /\ queue' = [queue EXCEPT !.modes = Tail(@)]
      /\ worker' = [worker EXCEPT !.up = TRUE, !.parked = IF worker.up THEN @ ELSE Nothing]
      /\ UNCHANGED <<engine, ui, box, calls, camera, changes, wanted, settled>>
  BY DEF BringUp
<1>2. worker' \in Workers /\ worker'.up
  <2>1. TRUE \in BOOLEAN
    OBVIOUS
  <2> QED
    BY <1>1, <2>1, WorkerType DEF Workers
<1>3. Sound(worker')
  <2>1. /\ worker'.latched = worker.latched /\ worker'.streak = worker.streak
        /\ worker'.since = worker.since /\ worker'.last = worker.last
    BY <1>1, WorkerType DEF Workers
  <2> QED
    BY <2>1, WorkerType DEF Sound
<1> QED
  BY <1>1, <1>2, <1>3, Handled, BoxType, WorkerStep

LEMMA ProcessMailboxKeeps ==
  ASSUME BoundsAssumption, BInv, NEW gap \in BOOLEAN, ProcessMailbox(gap) PROVE BInv'
PROOF
<1>1. /\ queue' = [queue EXCEPT !.kick = FALSE]
      /\ UNCHANGED <<engine, ui, calls, camera, changes, wanted, settled>>
  BY DEF ProcessMailbox
<1>2. queue' \in [kick : BOOLEAN, modes : Seq(Modes)] /\ queue'.modes = queue.modes
  <2>1. FALSE \in BOOLEAN
    OBVIOUS
  <2> QED
    BY <1>1, <2>1, BoxType
<1>3. CASE box.in = Nothing
  <2>1. UNCHANGED <<worker, box>>
    BY <1>3 DEF ProcessMailbox
  <2> QED
    BY <1>1, <1>2, <2>1, SameQueue, BoxType, WorkerType, WorkerStep
<1>4. CASE box.in # Nothing
  <2> DEFINE w == AtBoundary(worker, box.in, gap)
  <2>1. box' = [box EXCEPT !.in = Nothing] /\ (worker' = w \/ worker' \in Composed(w, box.in))
    BY <1>4 DEF ProcessMailbox
  <2>2. box.in \in Frames
    BY <1>4, BoxType
  <2>3. w \in Workers /\ Sound(w) /\ w.up = worker.up /\ w.last = box.in.epoch
    BY <2>2, AtBoundaryType, WorkerType
  <2> HIDE DEF w
  <2>4. worker' \in Workers /\ Sound(worker') /\ worker'.up = worker.up
    BY <2>1, <2>2, <2>3, ComposedType
  <2>5. box' \in [epoch : Nat, in : Frames \cup {Nothing},
                  out : {Nothing} \cup [picture : PictureType \cup {Mosaic}, epoch : Nat]]
    BY <2>1, BoxType
  <2> QED
    BY <1>1, <1>2, <2>4, <2>5, SameQueue, WorkerStep
<1> QED
  BY <1>3, <1>4

LEMMA PublishKeeps == ASSUME BInv, Publish PROVE BInv'
PROOF
<1> DEFINE outs == {Nothing} \cup [picture : PictureType \cup {Mosaic}, epoch : Nat]
           jobs == [epoch : Nat, result : Results]
<1>1. /\ worker.job # Nothing /\ worker' = [worker EXCEPT !.job = Nothing]
      /\ UNCHANGED <<engine, ui, queue, calls, camera, changes, wanted, settled>>
  BY DEF Publish, Idle
<1>2. worker' \in Workers /\ Sound(worker') /\ worker'.up = worker.up
  BY <1>1, WorkerType DEF Workers, Sound
<1>3. worker.job \in jobs
  BY <1>1, WorkerType DEF Workers
<1>4. box \in [epoch : Nat, in : Frames \cup {Nothing}, out : outs]
  BY BoxType
<1>5. box' \in [epoch : Nat, in : Frames \cup {Nothing}, out : outs]
  <2>1. CASE box' = box
    BY <1>4, <2>1
  <2>2. CASE /\ worker.job.result # Nothing
             /\ box' = [box EXCEPT !.out = [picture |-> worker.job.result,
                                            epoch |-> worker.job.epoch]]
    <3>1. worker.job.result \in PictureType \cup {Mosaic} /\ worker.job.epoch \in Nat
      BY <1>3, <2>2 DEF Results
    <3>2. [picture |-> worker.job.result, epoch |-> worker.job.epoch] \in outs
      BY <3>1
    <3> HIDE DEF outs
    <3> QED
      BY <1>4, <2>2, <3>2
  <2> QED
    BY <2>1, <2>2 DEF Publish
<1> QED
  BY <1>1, <1>2, <1>5, SameQueue, BoxType, WorkerStep

-----------------------------------------------------------------------------
(* The invariant and what it implies.                                      *)

LEMMA BInvInit == ASSUME BoundsAssumption, StoredAssumption, Init PROVE BInv
PROOF
<1> USE DEF Init
<1>1. PICK st \in Stored :
        /\ engine = [mode |-> st[1], modeAt |-> 0, path |-> st[2], pathAt |-> 0,
                     empty |-> st[2] = NoPlate]
        /\ wanted = [mode |-> st[1], path |-> st[2], rawBefore |-> TRUE, removes |-> FALSE]
        /\ queue = [kick |-> FALSE, modes |-> <<st[1]>>]
  OBVIOUS
<1>2. st[1] \in Modes /\ st[2] \in Paths
  BY DEF StoredAssumption, Modes, Paths
<1>3. engine \in [mode : Modes, modeAt : Nat, path : Paths, pathAt : Nat, empty : BOOLEAN]
  <2>1. (st[2] = NoPlate) \in BOOLEAN
    OBVIOUS
  <2> QED
    BY <1>1, <1>2, <2>1
<1>4. wanted \in [mode : Modes, path : Paths, rawBefore : BOOLEAN, removes : BOOLEAN]
  <2>1. TRUE \in BOOLEAN /\ FALSE \in BOOLEAN
    OBVIOUS
  <2> QED
    BY <1>1, <1>2, <2>1
<1>5. /\ queue \in [kick : BOOLEAN, modes : Seq(Modes)] /\ queue.modes # <<>>
      /\ queue.modes[Len(queue.modes)] = st[1]
  <2>1. <<st[1]>> \in Seq(Modes) /\ Len(<<st[1]>>) = 1 /\ <<st[1]>>[1] = st[1]
    BY <1>2, One
  <2>2. FALSE \in BOOLEAN
    OBVIOUS
  <2>3. queue.modes = <<st[1]>>
    BY <1>1
  <2> QED
    BY <1>1, <2>1, <2>2, <2>3, EmptySeq
<1>6. worker \in Workers /\ Sound(worker)
  <2>1. 0 \in 0..Latch /\ 0 < Latch
    BY DEF BoundsAssumption
  <2>2. FALSE \in BOOLEAN
    OBVIOUS
  <2> QED
    BY <2>1, <2>2 DEF Workers, Sound
<1>7. box \in [epoch : Nat, in : Frames \cup {Nothing},
               out : {Nothing} \cup [picture : PictureType \cup {Mosaic}, epoch : Nat]]
  OBVIOUS
<1>8. camera \in [on : BOOLEAN, session : Nat] /\ settled \in Marks
  <2>1. FALSE \in BOOLEAN
    OBVIOUS
  <2> QED
    BY <2>1 DEF Marks
<1>9. ui = <<>> /\ ui \in Seq(Steps) /\ \A do \in Parts : ~Waits(do)
  BY DEF Waits
<1>10. Typed
  <2>1. changes \in Nat /\ calls \subseteq Calls
    OBVIOUS
  <2> HIDE DEF Init
  <2> QED
    BY <1>3, <1>4, <1>5, <1>6, <1>7, <1>8, <1>9, <2>1 DEF Typed
<1>11. UiInv
  BY <1>9 DEF UiInv
<1>12. engine.mode = wanted.mode /\ engine.path = wanted.path
       /\ engine.empty = (engine.path = NoPlate) /\ engine.mode = st[1]
  BY <1>1
<1>13. SettingsInv /\ QueueInv
  BY <1>5, <1>9, <1>12, PartsAre DEF SettingsInv, QueueInv
<1>14. CallsInv
  BY <1>9 DEF CallsInv
<1> QED
  BY <1>6, <1>10, <1>11, <1>13, <1>14 DEF BInv

LEMMA BInvNext == ASSUME BoundsAssumption, BInv, [Next]_vars PROVE BInv'
PROOF
<1>1. CASE UNCHANGED vars
  <2>1. UiInv' /\ SettingsInv' /\ CallsInv' /\ QueueInv'
    BY <1>1, SameSettings, SameCalls, SameQueue, PartsAre DEF vars
  <2> QED
    BY <1>1, <2>1 DEF vars, BInv, Typed, Sound
<1>2. CASE \E mode \in Modes, path \in Plates \cup {NoPlate} : ApplyBackgroundSettings(mode, path)
  BY <1>2, ApplyBackgroundSettingsKeeps DEF Paths
<1>3. CASE Cleanup \/ EnableCamera \/ UiStep
  BY <1>3, CleanupKeeps, EnableCameraKeeps, StorePathKeeps, StoreFlagKeeps, ExchangeModeKeeps,
     PostModeKeeps, BumpEpochKeeps, ClearsKeep, StartSourceKeeps DEF UiStep
<1>4. CASE LoadMode \/ \E c \in calls : LoadFlag(c) \/ LoadPath(c) \/ Submit(c) \/ Return(c)
  BY <1>4, LoadModeKeeps, LoadsKeep, SubmitKeeps, ReturnKeeps
<1>5. CASE Release \/ BringUp \/ Publish
  BY <1>5, ReleaseKeeps, BringUpKeeps, PublishKeeps
<1>6. CASE \E gap \in BOOLEAN : ProcessMailbox(gap)
  BY <1>6, ProcessMailboxKeeps
<1> QED
  BY <1>1, <1>2, <1>3, <1>4, <1>5, <1>6 DEF Next

LEMMA SpecBInv == Spec => []BInv
PROOF
<1>1. Init => BInv
  BY BoundsAssumption, StoredAssumption, BInvInit
<1>2. BInv /\ [Next]_vars => BInv'
  BY BoundsAssumption, BInvNext
<1> QED
  BY <1>1, <1>2, PTL DEF Spec

\* The types; the slots never hold the frame as the camera gave it.
THEOREM SpecTypeOK == Spec => []TypeOK
PROOF
<1>1. BInv => TypeOK
  BY DEF BInv, Typed, TypeOK, Workers, Calls, Marks, Paths
<1> QED
  BY <1>1, SpecBInv, PTL

\* Whatever the camera threads have read of mode and flag while the user changes the
\* settings, the frame goes out as it is only if the settings allowed it during the call,
\* or the image was removed meanwhile.
THEOREM SpecNeverRaw == Spec => []NeverRaw
PROOF
<1>1. BInv => NeverRaw
  <2> SUFFICES ASSUME BInv PROVE NeverRaw
    OBVIOUS
  <2>1. engine.mode = "None" => MayRaw
    BY RawNow DEF BInv
  <2>2. ASSUME NEW c \in calls, Raw \in Answers(c) PROVE c.mayRaw \/ c.bared
    <3>1. Usable(c) => box.out.picture # Raw
      BY BoxType, RawIsNone DEF Usable
    <3>2. Raw # Mosaic
      BY RawIsNone
    <3>3. c.pc = "flag" /\ engine.empty
      BY <2>2, <3>1, <3>2 DEF Answers
    <3> QED
      BY <3>3 DEF BInv, CallsInv
  <2> QED
    BY <2>1, <2>2 DEF NeverRaw
<1> QED
  BY <1>1, SpecBInv, PTL

\* The worker's engine is up exactly if the effect is on, once posted events are handled.
THEOREM SpecEngineMatchesMode == Spec => []EngineMatchesMode
PROOF
<1>1. BInv => EngineMatchesMode
  BY DEF BInv, QueueInv, Waits, EngineMatchesMode
<1> QED
  BY <1>1, SpecBInv, PTL

\* The effect is given up only for failures of the present epoch.
THEOREM SpecLatchIsOfThisEpoch == Spec => []LatchIsOfThisEpoch
PROOF
<1>1. BInv => LatchIsOfThisEpoch
  BY DEF BInv, Sound, LatchIsOfThisEpoch
<1> QED
  BY <1>1, SpecBInv, PTL

-----------------------------------------------------------------------------
(* NothingFromBefore: whatever holds a picture of an epoch holds one that   *)
(* was made since any reset before that epoch.                              *)

\* What is in force only gets newer.
Newer(s, t) == s.mode <= t.mode /\ s.path <= t.path /\ s.session <= t.session

OrderInv ==
  /\ engine.modeAt <= changes /\ engine.pathAt <= changes
  /\ Newer(settled, Now)
  /\ \A c \in calls : Newer(c.since, settled)

\* A frame, a picture and a mask that were made since s.
FrameSince(f, s) == f.session >= s.session /\ f.modeAt >= s.mode /\ f.pathAt >= s.path
PictureSince(p, s) ==
  p # Nothing /\ p \in PictureType =>
    p.session >= s.session /\ p.mask >= s.session /\ p.mode >= s.mode /\ p.path >= s.path
MaskSince(m, s) == m # Nothing => m >= s.session

\* A frame or a picture of epoch e is found in the two slots, in the compose under way and
\* in what the worker keeps from one frame to the next, which is of the epoch it saw last.
WorkerSince(w, e, s) == w.last = e => PictureSince(w.parked, s) /\ MaskSince(w.mask, s)
JobSince(j, e, s) == j # Nothing /\ j.epoch = e => PictureSince(j.result, s)

AllSince(e, s) ==
  /\ box.in # Nothing /\ box.in.epoch = e => FrameSince(box.in, s)
  /\ box.out # Nothing /\ box.out.epoch = e => PictureSince(box.out.picture, s)
  /\ WorkerSince(worker, e, s) /\ JobSince(worker.job, e, s)

\* A call that waits for a picture of its epoch.
Waiting(c) == c \in calls /\ c.pc = "take" /\ c.epoch \notin strays

SinceInv ==
  /\ box.epoch \notin strays => AllSince(box.epoch, settled)
  /\ \A c \in calls : Waiting(c) => AllSince(c.epoch, c.since)

\* No epoch is of the future, a worker that is not up has nothing, and a slot no null.
HoldersInv ==
  /\ box.in # Nothing => box.in.epoch <= box.epoch
  /\ box.out # Nothing => box.out.epoch <= box.epoch /\ box.out.picture # Nothing
  /\ worker.job # Nothing => worker.job.epoch <= box.epoch
  /\ worker.last <= box.epoch
  /\ ~worker.up => worker.parked = Nothing /\ worker.mask = Nothing

LEMMA Marking ==
  BInv => /\ settled \in Marks /\ Now \in Marks /\ changes \in Nat
          /\ engine.modeAt \in Nat /\ engine.pathAt \in Nat /\ camera.session \in Nat
          /\ Now.mode = engine.modeAt /\ Now.path = engine.pathAt
          /\ Now.session = camera.session
PROOF
<1> SUFFICES ASSUME BInv
             PROVE  /\ settled \in Marks /\ Now \in Marks /\ changes \in Nat
                    /\ engine.modeAt \in Nat /\ engine.pathAt \in Nat /\ camera.session \in Nat
                    /\ Now.mode = engine.modeAt /\ Now.path = engine.pathAt
                    /\ Now.session = camera.session
  OBVIOUS
<1>1. /\ settled \in Marks /\ changes \in Nat
      /\ engine.modeAt \in Nat /\ engine.pathAt \in Nat /\ camera.session \in Nat
  BY DEF BInv, Typed
<1> QED
  BY <1>1 DEF Now, Marks

LEMMA NewerIsOrder ==
  /\ \A s \in Marks : Newer(s, s)
  /\ \A s, t, u \in Marks : Newer(s, t) /\ Newer(t, u) => Newer(s, u)
PROOF
BY DEF Newer, Marks

LEMMA NewerBy ==
  ASSUME BInv, BInv', engine'.modeAt >= engine.modeAt, engine'.pathAt >= engine.pathAt,
         camera'.session >= camera.session
  PROVE  Newer(Now, Now')
PROOF
<1> USE Marking
<1>1. Now'.mode = engine'.modeAt /\ Now'.path = engine'.pathAt /\ Now'.session = camera'.session
  BY DEF Now
<1>2. engine'.modeAt \in Nat /\ engine'.pathAt \in Nat /\ camera'.session \in Nat
  BY DEF BInv, Typed
<1>3. Now.mode <= Now'.mode /\ Now.path <= Now'.path /\ Now.session <= Now'.session
  BY <1>1, <1>2
<1> QED
  BY <1>3 DEF Newer

\* The marks only go up.
LEMMA OrderKeeps ==
  ASSUME BInv, BInv', OrderInv, engine'.modeAt <= changes', engine'.pathAt <= changes',
         Newer(Now, Now'), settled' = settled,
         \A c \in calls' : c.since = settled \/ \E b \in calls : c.since = b.since
  PROVE  OrderInv'
PROOF
<1>1. Now \in Marks /\ Now' \in Marks /\ settled \in Marks
  <2>1. Now' \in Marks
    BY DEF BInv, Typed, Now, Marks
  <2> QED
    BY <2>1, Marking
<1>2. Newer(settled', Now')
  BY <1>1, NewerIsOrder DEF OrderInv
<1>3. ASSUME NEW c \in calls' PROVE Newer(c.since, settled')
  BY <1>1, <1>3, NewerIsOrder DEF OrderInv
<1>4. (\A c \in calls : Newer(c.since, settled))'
  BY <1>3
<1>5. Newer(settled, Now)'
  BY <1>2
<1> QED
  BY <1>4, <1>5 DEF OrderInv

LEMMA OrderNext == ASSUME BInv, BInv', OrderInv, [Next]_vars PROVE OrderInv'
PROOF
<1> USE Marking
<1> DEFINE same == \A c \in calls' : c.since = settled \/ \E b \in calls : c.since = b.since
           still == UNCHANGED <<engine, camera, changes>>
<1>1. CASE still /\ same /\ settled' = settled
  <2>1. Now' = Now
    BY <1>1 DEF Now
  <2>2. Newer(Now, Now')
    BY <2>1, NewerIsOrder
  <2>3. engine'.modeAt <= changes' /\ engine'.pathAt <= changes'
    BY <1>1 DEF OrderInv
  <2> QED
    BY <1>1, <2>2, <2>3, OrderKeeps
<1>2. CASE \E mode \in Modes, path \in Plates \cup {NoPlate} : ApplyBackgroundSettings(mode, path)
  <2>0. PICK mode \in Modes, path \in Plates \cup {NoPlate} : ApplyBackgroundSettings(mode, path)
    BY <1>2
  <2>1. engine' = engine /\ camera' = camera /\ settled' = settled /\ changes' = changes + 1
    BY <2>0 DEF ApplyBackgroundSettings
  <2>5. calls' = {[c EXCEPT !.mayRaw = @ \/ RawAllowed(mode, path),
                          !.bared = @ \/ Removes(path)] : c \in calls}
    BY <2>0 DEF ApplyBackgroundSettings
  <2>2. same
    <3>1. calls \subseteq Calls
      BY BoxType
    <3> DEFINE after(b) == [b EXCEPT !.mayRaw = @ \/ RawAllowed(mode, path),
                                     !.bared = @ \/ Removes(path)]
    <3>3. calls' = {after(b) : b \in calls}
      BY <2>5
    <3>2. ASSUME NEW c \in calls'
          PROVE  \E b \in calls : c.since = b.since
      <4>1. PICK b \in calls : c = after(b)
        BY <3>3
      <4>2. c.since = b.since
        BY <3>1, <4>1 DEF Calls
      <4> QED
        BY <4>2
    <3> QED
      BY <3>2
  <2>3. engine'.modeAt <= changes' /\ engine'.pathAt <= changes'
    BY <2>1 DEF OrderInv
  <2>4. Newer(Now, Now')
    BY <2>1, NewerIsOrder DEF Now
  <2> QED
    BY <2>1, <2>2, <2>3, <2>4, OrderKeeps
<1>3. CASE Cleanup
  <2>1. /\ engine' = engine /\ calls' = calls /\ settled' = settled /\ changes' = changes + 1
        /\ camera' = [on |-> FALSE, session |-> camera.session + 1]
    BY <1>3 DEF Cleanup
  <2>2. camera'.session >= camera.session /\ engine'.modeAt <= changes'
        /\ engine'.pathAt <= changes'
    BY <2>1 DEF OrderInv
  <2>3. Newer(Now, Now')
    BY <2>1, <2>2, NewerBy
  <2> QED
    BY <2>1, <2>2, <2>3, OrderKeeps
<1>4. CASE EnableCamera
  <2>1. /\ engine' = engine /\ calls' = calls /\ settled' = settled /\ changes' = changes + 1
        /\ camera' = camera
    BY <1>4 DEF EnableCamera
  <2>2. engine'.modeAt <= changes' /\ engine'.pathAt <= changes'
    BY <2>1 DEF OrderInv
  <2>3. Newer(Now, Now')
    BY <2>1, NewerBy
  <2> QED
    BY <2>1, <2>2, <2>3, OrderKeeps
<1>5. CASE StorePath \/ StoreFlag \/ ExchangeMode
  <2>1. calls' = calls /\ settled' = settled /\ changes' = changes /\ camera' = camera
    BY <1>5 DEF StorePath, StoreFlag, ExchangeMode
  <2>2. /\ engine'.modeAt \in {engine.modeAt, changes}
        /\ engine'.pathAt \in {engine.pathAt, changes}
    BY <1>5, EngineType DEF BInv, StorePath, StoreFlag, ExchangeMode
  <2>3. /\ engine'.modeAt >= engine.modeAt /\ engine'.pathAt >= engine.pathAt
        /\ engine'.modeAt <= changes' /\ engine'.pathAt <= changes'
    BY <2>1, <2>2 DEF OrderInv
  <2>4. Newer(Now, Now')
    BY <2>1, <2>3, NewerBy
  <2> QED
    BY <2>1, <2>3, <2>4, OrderKeeps
<1>6. CASE BumpEpoch
  <2>1. settled' = Now /\ UNCHANGED <<engine, calls, camera, changes>>
    BY <1>6 DEF BumpEpoch
  <2>2. Now' = Now
    BY <2>1 DEF Now
  <2>3. calls \subseteq Calls
    BY BoxType
  <2>4. \A c \in calls : Newer(c.since, Now)
    BY <2>3, NewerIsOrder DEF OrderInv, Calls
  <2>5. Newer(settled', Now')
    BY <2>1, <2>2, NewerIsOrder
  <2> QED
    BY <2>1, <2>4, <2>5 DEF OrderInv
<1>7. CASE PostMode \/ ClearIn \/ ClearOut \/ StartSource \/ Release \/ BringUp \/ Publish
            \/ \E gap \in BOOLEAN : ProcessMailbox(gap)
  <2>1. UNCHANGED <<engine, calls, changes, settled>> /\ camera'.session = camera.session
    BY <1>7 DEF PostMode, ClearIn, ClearOut, StartSource, Release, BringUp, Publish,
       ProcessMailbox, BInv, Typed
  <2>2. Newer(Now, Now')
    BY <2>1, NewerBy
  <2>3. engine'.modeAt <= changes' /\ engine'.pathAt <= changes'
    BY <2>1 DEF OrderInv
  <2> QED
    BY <2>1, <2>2, <2>3, OrderKeeps
<1>8. CASE LoadMode \/ \E c \in calls : LoadFlag(c) \/ LoadPath(c) \/ Submit(c) \/ Return(c)
  <2>1. still /\ settled' = settled
    BY <1>8 DEF LoadMode, LoadFlag, LoadPath, Submit, Return
  <2>2. calls \subseteq Calls
    BY BoxType
  <2>3. same
    <3>1. CASE LoadMode
      BY <3>1 DEF LoadMode
    <3>2. CASE \E c \in calls : LoadFlag(c) \/ LoadPath(c) \/ Submit(c)
      <4>1. PICK c \in calls : LoadFlag(c) \/ LoadPath(c) \/ Submit(c)
        BY <3>2
      <4>3. CASE LoadFlag(c)
        BY <2>2, <4>3 DEF LoadFlag, Becomes, Calls
      <4>4. CASE LoadPath(c)
        BY <2>2, <4>4 DEF LoadPath, Becomes, Calls
      <4>5. CASE Submit(c)
        BY <2>2, <4>5 DEF Submit, Becomes, Calls
      <4> QED
        BY <4>1, <4>3, <4>4, <4>5
    <3>3. CASE \E c \in calls : Return(c)
      BY <3>3 DEF Return
    <3> QED
      BY <1>8, <3>1, <3>2, <3>3
  <2> QED
    BY <1>1, <2>1, <2>3
<1>9. CASE UNCHANGED vars
  BY <1>1, <1>9 DEF vars
<1> HIDE DEF same, still
<1> QED
  BY <1>2, <1>3, <1>4, <1>5, <1>6, <1>7, <1>8, <1>9 DEF Next, UiStep

-----------------------------------------------------------------------------
(* What the worker makes of a frame.                                        *)

\* After composing f: what it keeps and what it is to publish were made since s.
Made(v, f, s) ==
  /\ v.last = f.epoch /\ PictureSince(v.parked, s) /\ MaskSince(v.mask, s)
  /\ v.job # Nothing => v.job.epoch = f.epoch /\ PictureSince(v.job.result, s)

LEMMA MadeWithJob ==
  ASSUME NEW w \in Workers, NEW f, NEW s, w.last = f.epoch, PictureSince(w.parked, s),
         MaskSince(w.mask, s), NEW result, PictureSince(result, s)
  PROVE  Made([w EXCEPT !.job = Job(f, result)], f, s)
PROOF
BY DEF Made, Job, Workers

LEMMA NoPicture ==
  ASSUME NEW s PROVE PictureSince(Nothing, s) /\ PictureSince(Mosaic, s)
PROOF
BY DEF PictureSince, Mosaic, PictureType

LEMMA CoveredSince == ASSUME NEW w, NEW f, NEW s PROVE PictureSince(Covered(w, f), s)
PROOF
BY NoPicture DEF Covered

LEMMA FailedHolds ==
  ASSUME NEW w \in Workers, NEW f
  PROVE  /\ Failed(w, f).parked = w.parked /\ Failed(w, f).mask = w.mask
         /\ Failed(w, f).last = w.last
PROOF
BY DEF Failed, Workers

LEMMA PictureOfFrame ==
  ASSUME NEW f \in Frames, NEW m \in Nat, NEW s \in Marks, FrameSince(f, s), m >= s.session
  PROVE  PictureSince(Picture(f, m), s)
PROOF
BY DEF PictureSince, Picture, FrameSince

LEMMA MaskedMade ==
  ASSUME BoundsAssumption, NEW w \in Workers, Sound(w), ~w.latched, NEW f \in Frames,
         f.epoch = w.last, NEW s \in Marks, FrameSince(f, s), PictureSince(w.parked, s),
         NEW m \in Nat, m >= s.session, NEW v \in Masked(w, f, m)
  PROVE  Made(v, f, s)
PROOF
<1> DEFINE masked == [w EXCEPT !.mask = m]
           kept == [masked EXCEPT !.parked = Picture(f, m)]
           clean == [kept EXCEPT !.streak = 0]
           result == IF w.parked # Nothing THEN w.parked ELSE Picture(f, m)
<1>1. PictureSince(Picture(f, m), s) /\ MaskSince(m, s) /\ Picture(f, m) \in PictureType
  BY PictureOfFrame, PictureIs DEF MaskSince
<1>2. PictureSince(result, s)
  BY <1>1
<1>3. /\ masked \in Workers /\ Sound(masked) /\ masked.last = f.epoch
      /\ masked.parked = w.parked /\ masked.mask = m
  BY DEF Workers, Sound
<1>4. /\ kept \in Workers /\ Sound(kept) /\ kept.last = f.epoch
      /\ kept.parked = Picture(f, m) /\ kept.mask = m
  BY <1>1 DEF Workers, Sound
<1>5. /\ clean \in Workers /\ clean.last = f.epoch
      /\ clean.parked = Picture(f, m) /\ clean.mask = m
  <2>1. 0 \in 0..Latch
    BY DEF BoundsAssumption
  <2>2. clean = [w EXCEPT !.mask = m, !.parked = Picture(f, m), !.streak = 0]
    BY DEF Workers
  <2> QED
    BY <1>1, <2>1, <2>2 DEF Workers
<1> HIDE DEF result
<1>6. CASE v = [masked EXCEPT !.job = Job(f, Nothing)]
  <2> HIDE DEF masked
  <2> QED
    BY <1>1, <1>3, <1>6, NoPicture, MadeWithJob
<1>7. ASSUME NEW u \in {Failed(masked, f), Failed(kept, f)},
             v = [u EXCEPT !.job = Job(f, Covered(u, f))]
      PROVE  Made(v, f, s)
  <2> HIDE DEF masked, kept
  <2>1. /\ u \in Workers /\ u.last = f.epoch
        /\ PictureSince(u.parked, s) /\ MaskSince(u.mask, s)
    BY <1>1, <1>3, <1>4, <1>7, FailedType, FailedHolds
  <2> QED
    BY <1>7, <2>1, CoveredSince, MadeWithJob
<1>8. CASE v = [kept EXCEPT !.streak = 0, !.job = Job(f, result)]
  <2>1. v = [clean EXCEPT !.job = Job(f, result)]
    BY <1>8
  <2> HIDE DEF clean
  <2> QED
    BY <1>1, <1>2, <1>5, <2>1, MadeWithJob
<1>9. \/ v = [masked EXCEPT !.job = Job(f, Nothing)]
      \/ \E u \in {Failed(masked, f), Failed(kept, f)} : v = [u EXCEPT !.job = Job(f, Covered(u, f))]
      \/ v = [kept EXCEPT !.streak = 0, !.job = Job(f, result)]
  BY DEF Masked, result
<1> QED
  BY <1>6, <1>7, <1>8, <1>9

LEMMA ComposedMade ==
  ASSUME BoundsAssumption, NEW w \in Workers, Sound(w), NEW f \in Frames, f.epoch = w.last,
         NEW s \in Marks, FrameSince(f, s), PictureSince(w.parked, s), MaskSince(w.mask, s),
         NEW v \in Composed(w, f)
  PROVE  Made(v, f, s)
PROOF
<1>1. CASE w.latched
  <2>1. v = [w EXCEPT !.job = Job(f, Mosaic)]
    BY <1>1 DEF Composed
  <2> QED
    BY <2>1, NoPicture, MadeWithJob
<1>2. CASE ~w.latched /\ ~w.up
  <2> DEFINE u == Failed(w, f)
  <2>1. v = [u EXCEPT !.job = Job(f, Covered(u, f))]
    BY <1>2 DEF Composed
  <2>2. /\ u \in Workers /\ u.last = f.epoch
        /\ PictureSince(u.parked, s) /\ MaskSince(u.mask, s)
    BY FailedType, FailedHolds
  <2> HIDE DEF u
  <2> QED
    BY <2>1, <2>2, CoveredSince, MadeWithJob
<1>3. CASE ~w.latched /\ w.up
  <2>1. CASE v = [w EXCEPT !.job = Job(f, Nothing)]
    BY <2>1, NoPicture, MadeWithJob
  <2>2. CASE \E m \in {f.session} \cup ({w.mask} \ {Nothing}) : v \in Masked(w, f, m)
    <3>1. PICK m \in {f.session} \cup ({w.mask} \ {Nothing}) : v \in Masked(w, f, m)
      BY <2>2
    <3>2. m \in Nat
      BY DEF Frames, Workers
    <3>3. m >= s.session
      BY DEF FrameSince, MaskSince
    <3> QED
      BY <1>3, <3>1, <3>2, <3>3, MaskedMade
  <2> QED
    BY <1>3, <2>1, <2>2 DEF Composed
<1> QED
  BY <1>1, <1>2, <1>3

\* At a boundary nothing of another epoch stays.
LEMMA BoundaryHolds ==
  ASSUME NEW w \in Workers, NEW f, NEW gap, NEW v, v = AtBoundary(w, f, gap),
         ~w.up => w.parked = Nothing /\ w.mask = Nothing
  PROVE  /\ v.last = f.epoch /\ v.job = w.job
         /\ \/ v.parked = Nothing /\ v.mask = Nothing
            \/ v.parked = w.parked /\ v.mask = w.mask /\ w.last = f.epoch /\ w.up
PROOF
BY DEF AtBoundary, Workers

\* An engine that is not up has nothing, and gets nothing by composing.
LEMMA DownHasNothing ==
  ASSUME NEW w \in Workers, NEW f, ~w.up, NEW v \in Composed(w, f)
  PROVE  v.parked = w.parked /\ v.mask = w.mask
PROOF
<1>1. CASE w.latched
  BY <1>1 DEF Composed, Workers
<1>2. CASE ~w.latched
  <2> DEFINE u == Failed(w, f)
  <2>1. v = [u EXCEPT !.job = Job(f, Covered(u, f))]
    BY <1>2 DEF Composed
  <2>2. v.parked = u.parked /\ v.mask = u.mask
    BY <2>1 DEF Failed, Workers
  <2> QED
    BY <2>2, FailedHolds
<1> QED
  BY <1>1, <1>2

\* Everything was made since the beginning.
LEMMA ComposedJob ==
  ASSUME BoundsAssumption, NEW w \in Workers, Sound(w), NEW f \in Frames, f.epoch = w.last,
         NEW v \in Composed(w, f)
  PROVE  v.last = f.epoch /\ (v.job # Nothing => v.job.epoch = f.epoch)
PROOF
<1> DEFINE s == [mode |-> 0, path |-> 0, session |-> 0]
<1>1. s \in Marks /\ FrameSince(f, s)
  BY DEF Marks, FrameSince, Frames
<1>2. PictureSince(w.parked, s)
  BY DEF PictureSince, PictureType
<1>3. MaskSince(w.mask, s)
  BY DEF MaskSince, Workers
<1> HIDE DEF s
<1> QED
  BY <1>1, <1>2, <1>3, ComposedMade DEF Made

-----------------------------------------------------------------------------
(* The promise is kept.                                                     *)

Since == OrderInv /\ HoldersInv /\ SinceInv

\* A picture made since t was made since any s before t.
LEMMA SinceOlder ==
  ASSUME BInv, NEW e, NEW s \in Marks, NEW t \in Marks, Newer(s, t), AllSince(e, t)
  PROVE  AllSince(e, s)
PROOF
<1>1. ASSUME NEW p, PictureSince(p, t) PROVE PictureSince(p, s)
  BY <1>1 DEF PictureSince, PictureType, Newer, Marks
<1>2. ASSUME NEW f \in Frames, FrameSince(f, t) PROVE FrameSince(f, s)
  BY <1>2 DEF FrameSince, Frames, Newer, Marks
<1>3. MaskSince(worker.mask, t) => MaskSince(worker.mask, s)
  BY WorkerType DEF MaskSince, Workers, Newer, Marks
<1>4. box.in # Nothing => box.in \in Frames
  BY BoxType
<1> QED
  BY <1>1, <1>2, <1>3, <1>4 DEF AllSince, WorkerSince, JobSince

\* A step in the same epoch, which makes no call wait.
LEMMA SinceKeeps ==
  ASSUME SinceInv, OrderInv, BInv, settled' = settled, box'.epoch = box.epoch, strays' = strays,
         \A c \in calls' : c.pc = "take"
            => \E b \in calls : b.pc = "take" /\ b.epoch = c.epoch /\ b.since = c.since,
         \A e \in Nat, s \in Marks : AllSince(e, s) => AllSince(e, s)'
  PROVE  SinceInv'
PROOF
<1>1. /\ settled \in Marks /\ box.epoch \in Nat
      /\ \A c \in calls : c.epoch \in Nat /\ c.since \in Marks
  BY Marking, BoxType DEF Calls
<1>2. ASSUME box'.epoch \notin strays' PROVE AllSince(box.epoch, settled)'
  <2>1. AllSince(box.epoch, settled)
    BY <1>2 DEF SinceInv
  <2> QED
    BY <1>1, <2>1 DEF AllSince, WorkerSince, JobSince
<1>3. ASSUME NEW c \in calls', c.pc = "take", c.epoch \notin strays'
      PROVE  AllSince(c.epoch, c.since)'
  <2>1. PICK b \in calls : b.pc = "take" /\ b.epoch = c.epoch /\ b.since = c.since
    BY <1>3
  <2>2. AllSince(b.epoch, b.since)
    BY <1>3, <2>1 DEF SinceInv, Waiting
  <2> QED
    BY <1>1, <2>1, <2>2
<1> QED
  BY <1>2, <1>3 DEF SinceInv, Waiting

\* Slots and memory are kept or emptied.
LEMMA EmptiedKeeps ==
  ASSUME Since, BInv, settled' = settled, strays' = strays, box'.epoch = box.epoch,
         box'.in \in {box.in, Nothing}, box'.out \in {box.out, Nothing},
         worker'.last = worker.last, worker'.job = worker.job,
         worker'.parked \in {worker.parked, Nothing}, worker'.mask \in {worker.mask, Nothing},
         ~worker'.up => \/ worker'.parked = Nothing /\ worker'.mask = Nothing
                        \/ ~worker.up,
         \A c \in calls' : c.pc = "take"
            => \E b \in calls : b.pc = "take" /\ b.epoch = c.epoch /\ b.since = c.since
  PROVE  HoldersInv' /\ SinceInv'
PROOF
<1>1. ASSUME NEW e \in Nat, NEW s \in Marks, AllSince(e, s) PROVE AllSince(e, s)'
  BY <1>1, NoPicture DEF AllSince, WorkerSince, JobSince, MaskSince
<1>2. HoldersInv'
  BY DEF Since, HoldersInv
<1>3. SinceInv'
  BY <1>1, SinceKeeps DEF Since
<1> QED
  BY <1>2, <1>3

LEMMA CallsTake ==
  ASSUME NEW d, NEW c, Becomes(c, d), d.pc # "take"
  PROVE  \A x \in calls' : x.pc = "take"
            => \E b \in calls : b.pc = "take" /\ b.epoch = x.epoch /\ b.since = x.since
PROOF
BY DEF Becomes

\* Most steps leave the mailbox and the worker alone, or empty them.
LEMMA QuietSince ==
  ASSUME Since, BInv, BInv',
         \/ \E mode \in Modes, path \in Plates \cup {NoPlate} : ApplyBackgroundSettings(mode, path)
         \/ Cleanup \/ EnableCamera \/ StorePath \/ StoreFlag \/ ExchangeMode \/ PostMode
         \/ ClearIn \/ ClearOut \/ StartSource \/ LoadMode
         \/ \E c \in calls : LoadFlag(c) \/ LoadPath(c) \/ Return(c)
         \/ Release \/ BringUp \/ UNCHANGED vars
  PROVE  HoldersInv' /\ SinceInv'
PROOF
<1> DEFINE same == \A c \in calls' : c.pc = "take"
                     => \E b \in calls : b.pc = "take" /\ b.epoch = c.epoch /\ b.since = c.since
<1>0. calls \subseteq Calls
  BY BoxType
<1>1. CASE UNCHANGED <<box, worker, settled, strays>> /\ same
  BY <1>1, EmptiedKeeps
<1>2. CASE \E mode \in Modes, path \in Plates \cup {NoPlate} : ApplyBackgroundSettings(mode, path)
  <2>1. PICK mode \in Modes, path \in Plates \cup {NoPlate} : ApplyBackgroundSettings(mode, path)
    BY <1>2
  <2>2. same /\ UNCHANGED <<box, worker, settled, strays>>
    BY <1>0, <2>1 DEF ApplyBackgroundSettings, Calls
  <2> QED
    BY <1>1, <2>2
<1>3. CASE Cleanup \/ EnableCamera \/ StorePath \/ StoreFlag \/ ExchangeMode \/ PostMode
           \/ StartSource \/ UNCHANGED vars
  <2>1. calls' = calls /\ UNCHANGED <<box, worker, settled, strays>>
    BY <1>3 DEF Cleanup, EnableCamera, StorePath, StoreFlag, ExchangeMode, PostMode,
       StartSource, vars
  <2> QED
    BY <1>1, <2>1
<1>4. CASE ClearIn \/ ClearOut
  <2>1. UNCHANGED <<calls, worker, settled, strays>>
    BY <1>4 DEF ClearIn, ClearOut
  <2>2. /\ box'.epoch = box.epoch /\ box'.in \in {box.in, Nothing}
        /\ box'.out \in {box.out, Nothing}
    BY <1>4, BoxType DEF ClearIn, ClearOut
  <2> QED
    BY <2>1, <2>2, EmptiedKeeps
<1>5. CASE LoadMode
  BY <1>1, <1>5 DEF LoadMode
<1>6. CASE \E c \in calls : LoadFlag(c) \/ LoadPath(c) \/ Return(c)
  <2>1. PICK c \in calls : LoadFlag(c) \/ LoadPath(c) \/ Return(c)
    BY <1>6
  <2>2. UNCHANGED <<box, worker, settled, strays>>
    BY <2>1 DEF LoadFlag, LoadPath, Return
  <2>3. CASE LoadFlag(c)
    BY <1>0, <1>1, <2>2, <2>3 DEF LoadFlag, Becomes, Calls
  <2>4. CASE LoadPath(c)
    BY <1>0, <1>1, <2>2, <2>4 DEF LoadPath, Becomes, Calls
  <2>5. CASE Return(c)
    BY <1>1, <2>2, <2>5 DEF Return
  <2> QED
    BY <2>1, <2>3, <2>4, <2>5
<1>7. CASE Release
  <2>1. UNCHANGED <<calls, settled, strays>>
    BY <1>7 DEF Release
  <2>2. /\ box'.epoch = box.epoch /\ box'.in \in {box.in, Nothing}
        /\ box'.out \in {box.out, Nothing}
    BY <1>7, BoxType DEF Release
  <2>3. CASE worker.up
    <3>1. /\ worker'.last = worker.last /\ worker'.job = worker.job
          /\ worker'.parked = Nothing /\ worker'.mask = Nothing
      BY <1>7, <2>3, WorkerType DEF Release, Workers
    <3> QED
      BY <2>1, <2>2, <3>1, EmptiedKeeps
  <2>4. CASE ~worker.up
    <3>1. worker' = worker
      BY <1>7, <2>4 DEF Release
    <3> QED
      BY <2>1, <2>2, <2>4, <3>1, EmptiedKeeps
  <2> QED
    BY <2>3, <2>4
<1>8. CASE BringUp
  <2>1. UNCHANGED <<box, calls, settled, strays>>
    BY <1>8 DEF BringUp
  <2>2. /\ worker'.last = worker.last /\ worker'.job = worker.job /\ worker'.up
        /\ worker'.parked \in {worker.parked, Nothing} /\ worker'.mask = worker.mask
    BY <1>8, WorkerType DEF BringUp, Workers
  <2> QED
    BY <2>1, <2>2, EmptiedKeeps
<1> HIDE DEF same
<1> QED
  BY <1>2, <1>3, <1>4, <1>5, <1>6, <1>7, <1>8

\* A new epoch: nothing is of it yet.
LEMMA BumpSince == ASSUME Since, BInv, BInv', BumpEpoch PROVE HoldersInv' /\ SinceInv'
PROOF
<1>1. /\ box' = [box EXCEPT !.epoch = box.epoch + 1] /\ box.epoch \in Nat
      /\ UNCHANGED <<worker, calls, strays>>
  BY BoxType DEF BumpEpoch
<1>2. box'.epoch = box.epoch + 1 /\ box'.in = box.in /\ box'.out = box.out
  BY <1>1, BoxType
<1>3. /\ worker.last \in Nat /\ worker.last <= box.epoch
      /\ worker.job # Nothing => worker.job.epoch \in Nat /\ worker.job.epoch <= box.epoch
      /\ box.in # Nothing => box.in.epoch \in Nat /\ box.in.epoch <= box.epoch
      /\ box.out # Nothing => box.out.epoch \in Nat /\ box.out.epoch <= box.epoch
  BY BoxType, WorkerType DEF Since, HoldersInv, Workers, Frames
<1>4. HoldersInv'
  BY <1>1, <1>2, <1>3 DEF Since, HoldersInv
<1>5. AllSince(box.epoch, settled)'
  BY <1>1, <1>2, <1>3 DEF AllSince, WorkerSince, JobSince
<1>6. ASSUME NEW c \in calls, c.pc = "take", c.epoch \notin strays
      PROVE  AllSince(c.epoch, c.since)'
  <2>1. AllSince(c.epoch, c.since)
    BY <1>6 DEF Since, SinceInv, Waiting
  <2> QED
    BY <1>1, <1>2, <2>1 DEF AllSince, WorkerSince, JobSince
<1> QED
  BY <1>1, <1>4, <1>5, <1>6 DEF SinceInv, Waiting

\* A submitted frame is of this epoch; if it is one of before, the epoch is noted.
LEMMA SubmitSince == ASSUME Since, BInv, BInv', NEW c, Submit(c) PROVE HoldersInv' /\ SinceInv'
PROOF
<1> DEFINE d == [c EXCEPT !.pc = "take", !.epoch = box.epoch]
           f == [session |-> c.session, mode |-> c.mode, modeAt |-> c.modeAt,
                 path |-> c.path, pathAt |-> c.pathAt, epoch |-> box.epoch]
<1>1. /\ c \in calls /\ Becomes(c, d) /\ box' = [box EXCEPT !.in = f]
      /\ UNCHANGED <<worker, settled>> /\ strays \subseteq strays'
      /\ Straddles(c) => box.epoch \in strays'
  BY DEF Submit
<1>2. c \in Calls /\ box.epoch \in Nat /\ settled \in Marks /\ c.since \in Marks
  BY <1>1, BoxType, Marking DEF Calls
<1>3. d.epoch = box.epoch /\ d.since = c.since
  BY <1>2 DEF Calls
<1>4. ~Straddles(c) => FrameSince(f, settled)
  BY <1>2 DEF Straddles, FrameSince, Calls, Marks
<1>5. /\ box'.epoch = box.epoch /\ box'.in = f /\ box'.out = box.out /\ f.epoch = box.epoch
  BY <1>1, BoxType
<1> HIDE DEF d, f
<1>6. HoldersInv'
  <2>1. box'.in.epoch <= box'.epoch
    BY <1>2, <1>5
  <2> QED
    BY <1>1, <1>5, <2>1 DEF Since, HoldersInv
<1>7. ASSUME box.epoch \notin strays' PROVE AllSince(box.epoch, settled)'
  <2>1. AllSince(box.epoch, settled)
    BY <1>1, <1>7 DEF Since, SinceInv
  <2>2. FrameSince(f, settled)
    BY <1>1, <1>4, <1>7
  <2> QED
    BY <1>1, <1>5, <2>1, <2>2 DEF AllSince, WorkerSince, JobSince
<1>8. ASSUME NEW s \in Marks, Newer(s, settled), box.epoch \notin strays'
      PROVE  AllSince(box.epoch, s)'
  <2>1. BInv' /\ settled' \in Marks /\ Newer(s, settled') /\ AllSince(box.epoch, settled)'
    BY <1>1, <1>2, <1>7, <1>8
  <2>2. ASSUME NEW p, PictureSince(p, settled) PROVE PictureSince(p, s)
    BY <1>2, <1>8, <2>2 DEF PictureSince, PictureType, Newer, Marks
  <2>3. FrameSince(f, settled) => FrameSince(f, s)
    BY <1>2, <1>8 DEF FrameSince, f, Calls, Newer, Marks
  <2>4. MaskSince(worker.mask, settled) => MaskSince(worker.mask, s)
    BY <1>2, <1>8, WorkerType DEF MaskSince, Workers, Newer, Marks
  <2> QED
    BY <1>1, <1>5, <2>1, <2>2, <2>3, <2>4 DEF AllSince, WorkerSince, JobSince
<1>9. ASSUME NEW b \in calls', b.pc = "take", b.epoch \notin strays'
      PROVE  AllSince(b.epoch, b.since)'
  <2>1. b = d \/ b \in calls
    BY <1>1, <1>9 DEF Becomes
  <2>2. b.since \in Marks /\ Newer(b.since, settled)
    BY <1>1, <1>2, <1>3, <2>1, BoxType DEF Since, OrderInv, Calls
  <2>3. CASE b.epoch = box.epoch
    <3>1. AllSince(box.epoch, b.since)'
      BY <1>8, <1>9, <2>2, <2>3
    <3> QED
      BY <1>5, <2>3, <3>1
  <2>4. CASE b.epoch # box.epoch
    <3>1. b \in calls /\ AllSince(b.epoch, b.since)
      BY <1>1, <1>3, <1>9, <2>1, <2>4 DEF Since, SinceInv, Waiting
    <3> QED
      BY <1>1, <1>5, <2>4, <3>1 DEF AllSince, WorkerSince, JobSince
  <2> QED
    BY <2>3, <2>4
<1>10. (box.epoch \notin strays => AllSince(box.epoch, settled))'
  BY <1>5, <1>7
<1>11. (\A b \in calls : Waiting(b) => AllSince(b.epoch, b.since))'
  BY <1>9 DEF Waiting
<1> QED
  BY <1>6, <1>10, <1>11 DEF SinceInv

\* The worker takes the frame, and forgets what is of another epoch.
LEMMA ProcessSince ==
  ASSUME BoundsAssumption, Since, BInv, BInv', NEW gap \in BOOLEAN, ProcessMailbox(gap)
  PROVE  HoldersInv' /\ SinceInv'
PROOF
<1>1. worker.job = Nothing /\ UNCHANGED <<calls, settled, strays>>
  BY DEF ProcessMailbox, Idle
<1>2. CASE box.in = Nothing
  <2>1. UNCHANGED <<worker, box>>
    BY <1>2 DEF ProcessMailbox
  <2> QED
    BY <1>1, <2>1, EmptiedKeeps
<1>3. CASE box.in # Nothing
  <2> DEFINE f == box.in
             w == AtBoundary(worker, f, gap)
  <2>1. box' = [box EXCEPT !.in = Nothing] /\ (worker' = w \/ worker' \in Composed(w, f))
    BY <1>3 DEF ProcessMailbox
  <2>2. f \in Frames /\ worker \in Workers /\ Sound(worker)
    BY <1>3, BoxType, WorkerType
  <2>3. /\ box'.epoch = box.epoch /\ box'.in = Nothing /\ box'.out = box.out
        /\ f.epoch <= box.epoch
    BY <1>3, <2>1, BoxType DEF Since, HoldersInv
  <2>4. w \in Workers /\ Sound(w) /\ w.up = worker.up /\ w.last = f.epoch
    BY <2>2, AtBoundaryType
  <2>5. /\ w.job = Nothing
        /\ \/ w.parked = Nothing /\ w.mask = Nothing
           \/ w.parked = worker.parked /\ w.mask = worker.mask /\ worker.last = f.epoch /\ worker.up
    BY <1>1, <2>2, BoundaryHolds DEF Since, HoldersInv
  <2> HIDE DEF w, f
  <2>6. worker'.last = f.epoch /\ (worker'.job # Nothing => worker'.job.epoch = f.epoch)
    BY <2>1, <2>2, <2>4, <2>5, ComposedJob
  <2>7. ~worker'.up => worker'.parked = Nothing /\ worker'.mask = Nothing
    <3>1. worker'.up = w.up
      BY <2>1, <2>2, <2>4, ComposedType
    <3>2. CASE ~w.up
      BY <2>1, <2>2, <2>4, <2>5, <3>2, DownHasNothing
    <3> QED
      BY <3>1, <3>2
  <2>8. HoldersInv'
    BY <2>3, <2>6, <2>7 DEF Since, HoldersInv
  <2>9. ASSUME NEW e \in Nat, NEW s \in Marks, AllSince(e, s) PROVE AllSince(e, s)'
    <3>1. CASE e # f.epoch
      BY <2>3, <2>6, <2>9, <3>1 DEF AllSince, WorkerSince, JobSince
    <3>2. CASE e = f.epoch
      <4>1. FrameSince(f, s)
        BY <1>3, <2>9, <3>2 DEF AllSince, f
      <4>2. PictureSince(w.parked, s) /\ MaskSince(w.mask, s)
        BY <2>5, <2>9, <3>2, NoPicture DEF AllSince, WorkerSince, MaskSince
      <4>3. Made(worker', f, s)
        <5>1. Made(w, f, s)
          BY <2>4, <2>5, <4>2 DEF Made
        <5> QED
          BY <2>1, <2>2, <2>4, <4>1, <4>2, <5>1, ComposedMade
      <4> QED
        BY <2>3, <2>9, <4>3 DEF AllSince, WorkerSince, JobSince, Made
    <3> QED
      BY <3>1, <3>2
  <2>10. SinceInv'
    <3>1. \A c \in calls' : c.pc = "take"
            => \E b \in calls : b.pc = "take" /\ b.epoch = c.epoch /\ b.since = c.since
      BY <1>1
    <3> QED
      BY <1>1, <2>3, <2>9, <3>1, SinceKeeps DEF Since
  <2> QED
    BY <2>8, <2>10
<1> QED
  BY <1>2, <1>3

LEMMA PublishSince == ASSUME Since, BInv, BInv', Publish PROVE HoldersInv' /\ SinceInv'
PROOF
<1>1. /\ worker.job # Nothing /\ worker' = [worker EXCEPT !.job = Nothing]
      /\ UNCHANGED <<calls, settled, strays>>
  BY DEF Publish, Idle
<1>2. /\ worker'.last = worker.last /\ worker'.job = Nothing /\ worker'.up = worker.up
      /\ worker'.parked = worker.parked /\ worker'.mask = worker.mask
  BY <1>1, WorkerType DEF Workers
<1>3. box'.epoch = box.epoch /\ box'.in = box.in
  BY BoxType DEF Publish
<1>4. \/ box'.out = box.out
      \/ /\ box'.out.picture = worker.job.result /\ box'.out.epoch = worker.job.epoch
         /\ worker.job.result # Nothing /\ worker.job.epoch = box.epoch
  BY BoxType DEF Publish
<1>5. HoldersInv'
  <2>1. box.epoch \in Nat
    BY BoxType
  <2> QED
    BY <1>2, <1>3, <1>4, <2>1 DEF Since, HoldersInv
<1>6. ASSUME NEW e \in Nat, NEW s \in Marks, AllSince(e, s) PROVE AllSince(e, s)'
  BY <1>1, <1>2, <1>3, <1>4, <1>6 DEF AllSince, WorkerSince, JobSince
<1>7. SinceInv'
  <2>1. \A c \in calls' : c.pc = "take"
          => \E b \in calls : b.pc = "take" /\ b.epoch = c.epoch /\ b.since = c.since
    BY <1>1
  <2> QED
    BY <1>1, <1>3, <1>6, <2>1, SinceKeeps DEF Since
<1> QED
  BY <1>5, <1>7

LEMMA SinceInit == Init => Since
PROOF
<1> SUFFICES ASSUME Init PROVE Since
  OBVIOUS
<1>1. /\ calls = {} /\ changes = 0 /\ settled = [mode |-> 0, path |-> 0, session |-> 0]
      /\ camera.session = 0 /\ engine.modeAt = 0 /\ engine.pathAt = 0
      /\ box.epoch = 0 /\ box.in = Nothing /\ box.out = Nothing
      /\ worker.last = 0 /\ worker.job = Nothing /\ worker.parked = Nothing
      /\ worker.mask = Nothing
  BY DEF Init
<1>2. OrderInv
  BY <1>1 DEF OrderInv, Newer, Now
<1>3. HoldersInv
  BY <1>1 DEF HoldersInv
<1>4. SinceInv
  BY <1>1, NoPicture DEF SinceInv, AllSince, WorkerSince, JobSince, MaskSince, Waiting
<1> QED
  BY <1>2, <1>3, <1>4 DEF Since

LEMMA SinceNext ==
  ASSUME BoundsAssumption, Since, BInv, [Next]_vars PROVE Since'
PROOF
<1>1. BInv'
  BY BInvNext
<1>2. OrderInv'
  BY <1>1, OrderNext DEF Since
<1>3. CASE BumpEpoch
  BY <1>1, <1>2, <1>3, BumpSince DEF Since
<1>4. CASE \E c \in calls : Submit(c)
  BY <1>1, <1>2, <1>4, SubmitSince DEF Since
<1>5. CASE \E gap \in BOOLEAN : ProcessMailbox(gap)
  BY <1>1, <1>2, <1>5, ProcessSince DEF Since
<1>6. CASE Publish
  BY <1>1, <1>2, <1>6, PublishSince DEF Since
<1>7. CASE \/ \E mode \in Modes, path \in Plates \cup {NoPlate} : ApplyBackgroundSettings(mode, path)
           \/ Cleanup \/ EnableCamera \/ StorePath \/ StoreFlag \/ ExchangeMode \/ PostMode
           \/ ClearIn \/ ClearOut \/ StartSource \/ LoadMode
           \/ \E c \in calls : LoadFlag(c) \/ LoadPath(c) \/ Return(c)
           \/ Release \/ BringUp \/ UNCHANGED vars
  <2>1. HoldersInv' /\ SinceInv'
    BY <1>1, <1>7, QuietSince
  <2> QED
    BY <1>2, <2>1 DEF Since
<1> QED
  BY <1>3, <1>4, <1>5, <1>6, <1>7 DEF Next, UiStep

\* A picture handed out was made, with its mask and under settings, since the mailbox was
\* reset before the call began, but in an epoch into which a frame of before was submitted.
THEOREM SpecNothingFromBefore == Spec => []NothingFromBefore
PROOF
<1>1. Init => Since
  BY SinceInit
<1>2. Since /\ BInv /\ [Next]_vars => Since'
  BY BoundsAssumption, SinceNext
<1>3. Since /\ BInv => NothingFromBefore
  <2> SUFFICES ASSUME Since, BInv, NEW c \in calls, NEW picture \in Answers(c),
                      picture.kind = "composite", c.epoch \notin strays
               PROVE  /\ picture.session >= c.since.session
                      /\ picture.mask >= c.since.session
                      /\ picture.mode >= c.since.mode
                      /\ picture.path >= c.since.path
    BY DEF NothingFromBefore
  <2>1. picture # Raw /\ picture # Mosaic
    BY DEF Raw, Mosaic
  <2>2. c.pc = "take" /\ Usable(c) /\ picture = box.out.picture
    BY <2>1 DEF Answers
  <2>3. box.out # Nothing /\ box.out.epoch = c.epoch
    BY <2>2 DEF Usable
  <2>4. picture \in PictureType /\ picture # Nothing
    BY <2>1, <2>2, <2>3, BoxType DEF Since, HoldersInv
  <2>5. PictureSince(picture, c.since)
    BY <2>2, <2>3 DEF Since, SinceInv, Waiting, AllSince
  <2> QED
    BY <2>4, <2>5 DEF PictureSince
<1> QED
  BY <1>1, <1>2, <1>3, SpecBInv, PTL DEF Spec

=============================================================================
