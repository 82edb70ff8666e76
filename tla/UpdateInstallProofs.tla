------------------------ MODULE UpdateInstallProofs ------------------------
(***************************************************************************)
(* Restarts are never a surprise: proofs for any times and versions.       *)
(***************************************************************************)
EXTENDS UpdateInstall, TLAPS

(* The window between two handlers and inside one.  x: auto-install was    *)
(* switched off during a download; d: the banner was dismissed during one. *)
Core(w, e, x, d) ==
  /\ w \in Wins
  /\ w.waiting = NoVersion <=> w.install.kind = "None"
  /\ w.counting => w.install.kind = "Automatic" /\ "later" \in w.buttons
  /\ w.waiting # NoVersion => /\ w.download = NoVersion /\ w.replaced.kind = "None"
                              /\ w.launches = 0 /\ ~w.checking
  /\ w.launches <= 1
  /\ w.checking => w.wants
  /\ w.pending => w.manifest # NoVersion
  /\ w.install.kind = "Automatic" => ~w.cancelled
  /\ w.install.kind \in {"Automatic", "AwaitingUser"} => w.asked = {}
  /\ ~x /\ (w.install.kind = "UserAccepted" \/ w.replaced.kind = "UserAccepted")
       => "install" \in w.asked
  /\ ~x /\ w.download # NoVersion /\ "install" \notin w.asked
       => ~w.cancelled /\ (e.auto \/ w.replaced.kind = "Automatic")
  /\ w.graceTimer # Off \/ w.callWait => w.install.kind = "UserAccepted"
  /\ ~d /\ (w.waiting # NoVersion \/ w.download # NoVersion \/ w.shown \/ w.active)
       => w.pending

(* A handler has done its work. *)
Settled(w, e, d) ==
  /\ w.install.kind = "Automatic" => w.counting
  /\ w.install.kind = "UserAccepted" => w.graceTimer # Off \/ (w.callWait /\ CallActive(e))
  /\ ~d /\ w.replaced.kind # "None" => w.download # NoVersion
  /\ ~d /\ w.launches = 0 /\ w.asked # {}
       => \/ w.waiting # NoVersion \/ w.download # NoVersion
          \/ w.checking /\ "install" \notin w.asked

(* What the gates measure is not ahead of the time without a call. *)
Stamped(w, e) ==
  /\ CallActive(e) => e.quiet = 0
  /\ e.call \in {"talking", "over"} => w.sinceCall <= e.quiet
  /\ w.counting => \/ e.quiet = Grace
                   \/ countdownIdle(w) <= e.quiet
                   \/ w.sinceCall <= e.quiet

IInv ==
  /\ Core(win, world, "switchedOff" \in excused, "deferred" \in excused)
  /\ Settled(win, world, "deferred" \in excused)
  /\ "slept" \notin excused => Stamped(win, world)
  /\ world \in Worlds
  /\ ticked \in BOOLEAN /\ seen \in 0 .. Final /\ excused \subseteq Excuses

(* What a tick leaves on the screen. *)
Painted(w, e) ==
  \/ autoInstallBlocked(w, e) /\ ~blockedOnlyByGrace(w, e)
  \/ blockedOnlyByGrace(w, e) /\ w.sinceReady <= readyAfterGrace(w)
  \/ InCountdown(w) => w.shown /\ w.final

(* The countdown never runs ahead of what was seen of it. *)
Counted ==
  win.counting /\ "slept" \notin excused =>
                  /\ countdownIdle(win) + Final <= IdleWait + seen
                  /\ ticked => Painted(win, world)

(* From w to v no moment has moved away from now and nothing was launched. *)
Near(w, v) ==
  /\ v.sinceCall \in {0, w.sinceCall}
  /\ v.counting => \/ countdownIdle(v) = 0
                   \/ w.counting /\ countdownIdle(v) <= countdownIdle(w)

Calm(w, v) == Near(w, v) /\ v.launches = w.launches

LEMMA Zeros ==
  /\ 0 \in 0 .. IdleWait /\ 0 \in -Grace .. IdleWait /\ 0 \in 0 .. Grace
  /\ Off \in Off .. Grace /\ NoInstall \in Installs /\ {} \in SUBSET Both
  /\ Both \in SUBSET Both /\ NoVersion \in Offers /\ NoInstall.kind = "None"
  /\ \A n \in 0 .. Grace : Grace - n \in Off .. Grace /\ Grace - n # Off
BY TimesAssumption DEF Off, NoInstall, Installs, Install, Kinds, Both, Offers

LEMMA FailedIsFine ==
  ASSUME NEW w, NEW e, NEW x, NEW d, Core(w, e, x, d), w.waiting = NoVersion
  PROVE  /\ Core(downloadFailed(w), e, x, d) /\ Settled(downloadFailed(w), e, d)
         /\ Calm(w, downloadFailed(w)) /\ downloadFailed(w).waiting = NoVersion
         /\ downloadFailed(w).pending = w.pending
<1> DEFINE v == downloadFailed(w)
<1>1. v \in Wins
  BY Zeros DEF Core, downloadFailed, Wins
<1>2. /\ v.waiting = NoVersion /\ v.install.kind = "None" /\ v.download = NoVersion
      /\ v.replaced.kind = "None" /\ ~v.counting /\ v.asked = {} /\ ~v.checking
      /\ v.launches = w.launches /\ v.sinceCall = w.sinceCall /\ v.pending = w.pending
      /\ v.manifest = w.manifest /\ v.cancelled = w.cancelled /\ v.shown = w.shown
      /\ v.active = w.active /\ v.graceTimer = w.graceTimer /\ v.callWait = w.callWait
  BY Zeros DEF Core, downloadFailed, Wins
<1> HIDE DEF v
<1>3. Core(v, e, x, d)
  BY <1>1, <1>2 DEF Core
<1>4. Settled(v, e, d) /\ Calm(w, v)
  BY <1>2 DEF Settled, Calm, Near
<1> QED BY <1>2, <1>3, <1>4 DEF v

(* A download may start: it will not land as accepted behind the user's back. *)
MayStart(w, e, x) ==
  ~x /\ "install" \notin w.asked => ~w.cancelled /\ (e.auto \/ w.replaced.kind = "Automatic")

LEMMA StartIsFine ==
  ASSUME NEW w, NEW e, NEW x, NEW d, Core(w, e, x, d), w.waiting = NoVersion, w.pending,
         MayStart(w, e, x), NEW v \in startDownload(w)
  PROVE  /\ Core(v, e, x, d) /\ Settled(v, e, d) /\ Calm(w, v)
         /\ v.waiting = NoVersion /\ v.pending
<1>1. CASE v = downloadFailed(w)
  BY <1>1, FailedIsFine
<1>2. CASE v = [w EXCEPT !.download = w.manifest]
  <2>1. v \in Wins
    BY <1>2 DEF Core, Wins
  <2>2. /\ v.waiting = NoVersion /\ v.install = w.install /\ v.download = w.manifest
        /\ v.replaced = w.replaced /\ v.counting = w.counting /\ v.asked = w.asked
        /\ v.checking = w.checking /\ v.wants = w.wants /\ v.launches = w.launches
        /\ v.sinceCall = w.sinceCall /\ v.pending /\ v.manifest = w.manifest
        /\ v.cancelled = w.cancelled /\ v.graceTimer = w.graceTimer
        /\ v.callWait = w.callWait /\ v.buttons = w.buttons
    BY <1>2 DEF Core, Wins
  <2>3. w.manifest # NoVersion /\ w.install.kind = "None" /\ ~w.counting
    BY DEF Core
  <2>4. Core(v, e, x, d)
    BY <2>1, <2>2, <2>3 DEF Core, MayStart
  <2>5. Settled(v, e, d) /\ Calm(w, v)
    BY <2>2, <2>3 DEF Settled, Calm, Near
  <2> QED BY <2>2, <2>4, <2>5
<1> QED BY <1>1, <1>2 DEF startDownload

LEMMA AcceptIsFine ==
  ASSUME NEW w, NEW e, NEW x, NEW d, Core(w, e, x, d), w.waiting = NoVersion,
         MayStart(w, e, x), NEW v \in acceptUpdate(w)
  PROVE  /\ Core(v, e, x, d) /\ Calm(w, v) /\ v.waiting = NoVersion
         /\ w.pending \/ d = TRUE \/ Settled(w, e, d) => Settled(v, e, d)
<1>1. CASE w.pending
  BY <1>1, StartIsFine DEF acceptUpdate
<1>2. CASE ~w.pending
  <2>1. v = w
    BY <1>2 DEF acceptUpdate
  <2>2. w.install.kind = "None" /\ w \in Wins /\ ~w.counting
    BY DEF Core
  <2>3. Calm(w, w)
    BY <2>2 DEF Calm, Near
  <2>4. d = TRUE => Settled(w, e, d)
    BY <2>2 DEF Settled
  <2> QED BY <1>2, <2>1, <2>3, <2>4
<1> QED BY <1>1, <1>2

LEMMA ReplaceIsFine ==
  ASSUME NEW w, NEW e, NEW x, NEW d, Core(w, e, x, d), w.waiting # NoVersion,
         NEW v, v = replaceWaitingInstaller(w)
  PROVE  /\ Core(v, e, x, d) /\ Calm(w, v) /\ v.waiting = NoVersion
         /\ v.replaced = w.install /\ v.asked = w.asked /\ v.cancelled = w.cancelled
         /\ v.pending = w.pending /\ v.checking = w.checking /\ v.wants = w.wants
         /\ v.download = NoVersion /\ v.relaunched = w.relaunched
<1>1. v \in Wins
  BY Zeros DEF Core, replaceWaitingInstaller, Wins
<1>2. /\ v.waiting = NoVersion /\ v.install.kind = "None" /\ v.download = NoVersion
      /\ v.replaced = w.install /\ ~v.counting /\ v.asked = w.asked
      /\ v.checking = w.checking /\ v.wants = w.wants /\ v.launches = w.launches
      /\ v.sinceCall = w.sinceCall /\ v.pending = w.pending /\ v.manifest = w.manifest
      /\ v.cancelled = w.cancelled /\ v.graceTimer = Off /\ ~v.callWait
      /\ v.relaunched = w.relaunched /\ v.shown = w.shown /\ v.active = w.active
  BY Zeros DEF Core, replaceWaitingInstaller, Wins
<1>3. Core(v, e, x, d)
  BY <1>1, <1>2 DEF Core
<1>4. Calm(w, v)
  BY <1>2 DEF Calm, Near
<1> QED BY <1>2, <1>3, <1>4

LEMMA LaunchFailsIsFine ==
  ASSUME NEW w, NEW e, NEW x, NEW d, Core(w, e, x, d), w.waiting # NoVersion,
         w.install.kind \in {"Automatic", "UserAccepted"}, d \in BOOLEAN,
         NEW v \in LaunchFails(w)
  PROVE  Core(v, e, x, d) /\ Settled(v, e, d) /\ Calm(w, v) /\ v.waiting = NoVersion
<1> DEFINE r == replaceWaitingInstaller(w)
<1>1. /\ Core(r, e, x, d) /\ Calm(w, r) /\ r.waiting = NoVersion
      /\ r.replaced = w.install /\ r.asked = w.asked /\ r.cancelled = w.cancelled
      /\ r.pending = w.pending /\ r.checking = w.checking
      /\ r.download = NoVersion /\ r.relaunched = w.relaunched
  BY ReplaceIsFine
<1>2. ~d => w.pending
  BY DEF Core
<1>3. MayStart(r, e, x)
  BY <1>1 DEF Core, MayStart
<1>4. ~r.counting /\ r \in Wins /\ r.install.kind = "None"
  BY <1>1 DEF Core
<1> HIDE DEF r
<1>5. CASE ~w.relaunched
  <2> DEFINE q == [r EXCEPT !.relaunched = TRUE]
  <2>1. /\ q \in Wins
        /\ q.waiting = r.waiting /\ q.install = r.install /\ q.download = r.download
        /\ q.replaced = r.replaced /\ q.counting = r.counting /\ q.asked = r.asked
        /\ q.checking = r.checking /\ q.wants = r.wants /\ q.launches = r.launches
        /\ q.sinceCall = r.sinceCall /\ q.pending = r.pending /\ q.manifest = r.manifest
        /\ q.cancelled = r.cancelled /\ q.graceTimer = r.graceTimer
        /\ q.callWait = r.callWait /\ q.shown = r.shown /\ q.active = r.active
    BY <1>4 DEF Wins
  <2>2. v \in acceptUpdate(q)
    BY <1>5 DEF LaunchFails, r
  <2> HIDE DEF q
  <2>3. Core(q, e, x, d)
    BY <1>1, <1>4, <2>1 DEF Core
  <2>4. MayStart(q, e, x)
    BY <1>3, <2>1 DEF MayStart
  <2>5. /\ Core(v, e, x, d) /\ Calm(q, v) /\ v.waiting = NoVersion
        /\ q.pending \/ d = TRUE \/ Settled(q, e, d) => Settled(v, e, d)
    BY <2>2, <2>3, <2>4, <1>1, <2>1, AcceptIsFine
  <2>6. Settled(v, e, d)
    BY <2>5, <1>1, <1>2, <2>1
  <2>7. Calm(w, v)
    BY <2>5, <1>1, <1>4, <2>1 DEF Calm, Near
  <2> QED BY <2>5, <2>6, <2>7
<1>6. CASE w.relaunched
  <2>1. v = [r EXCEPT !.replaced = NoInstall, !.buttons = @ \cup {"install"}, !.asked = {}]
    BY <1>6 DEF LaunchFails, r
  <2>2. /\ v \in Wins
        /\ v.waiting = r.waiting /\ v.install = r.install /\ v.download = r.download
        /\ v.replaced = NoInstall /\ v.counting = r.counting /\ v.asked = {}
        /\ v.checking = r.checking /\ v.wants = r.wants /\ v.launches = r.launches
        /\ v.sinceCall = r.sinceCall /\ v.pending = r.pending /\ v.manifest = r.manifest
        /\ v.cancelled = r.cancelled /\ v.graceTimer = r.graceTimer
        /\ v.callWait = r.callWait /\ v.shown = r.shown /\ v.active = r.active
    BY <1>4, <2>1, Zeros DEF Wins, Both
  <2>3. Core(v, e, x, d)
    BY <1>1, <1>4, <2>2, Zeros DEF Core
  <2>4. Settled(v, e, d) /\ Calm(w, v)
    BY <1>1, <1>4, <2>2, Zeros DEF Settled, Calm, Near
  <2> QED BY <1>1, <2>2, <2>3, <2>4
<1> QED BY <1>5, <1>6 DEF Core, Wins

(* Painting moves the clocks and the banner only. *)
OnlyPainted(w, p) ==
  /\ p.pending = w.pending /\ p.manifest = w.manifest /\ p.download = w.download
  /\ p.waiting = w.waiting /\ p.install = w.install /\ p.replaced = w.replaced
  /\ p.callWait = w.callWait /\ p.counting = w.counting
  /\ p.graceTimer = w.graceTimer /\ p.wants = w.wants /\ p.checking = w.checking
  /\ p.cancelled = w.cancelled /\ p.relaunched = w.relaunched
  /\ p.active = w.active /\ p.buttons = w.buttons /\ p.sinceCall = w.sinceCall
  /\ p.launches = w.launches /\ p.asked = w.asked

LEMMA PaintIsFine ==
  ASSUME NEW w \in Wins, NEW e \in Worlds, NEW p, p = Paint(w, e)
  PROVE  /\ p \in Wins /\ countdownIdle(p) <= countdownIdle(w)
         /\ Painted(p, e) /\ OnlyPainted(w, p)
<1> DEFINE busy == [w EXCEPT !.sinceInput = 0, !.shown = FALSE, !.final = FALSE]
           grace == [w EXCEPT !.sinceReady = readyAfterGrace(w), !.shown = FALSE, !.final = FALSE]
           early == [w EXCEPT !.shown = FALSE]
           shows == [w EXCEPT !.shown = TRUE, !.final = InCountdown(w)]
<1>0. 0 \in 0 .. IdleWait
  BY TimesAssumption
<1>1. /\ w.sinceInput \in 0 .. IdleWait /\ w.sinceReady \in -Grace .. IdleWait
      /\ w.sinceCall \in 0 .. Grace
  BY DEF Wins
<1>2. CASE p = busy /\ autoInstallBlocked(w, e) /\ ~blockedOnlyByGrace(w, e)
  <2>1. p \in Wins
    BY <1>0, <1>2 DEF Wins
  <2>2. p.sinceInput = 0 /\ p.sinceReady = w.sinceReady /\ p.sinceCall = w.sinceCall
    BY <1>2 DEF Wins
  <2>3. countdownIdle(p) <= countdownIdle(w)
    BY <2>2, <1>1, TimesAssumption DEF countdownIdle, Least, Most
  <2>4. Painted(p, e)
    BY <1>2, <2>2 DEF Painted, autoInstallBlocked, blockedOnlyByGrace, WithinGrace
  <2> QED BY <1>2, <2>1, <2>3, <2>4 DEF Wins, OnlyPainted
<1>3. CASE p = grace /\ blockedOnlyByGrace(w, e)
  <2>1. readyAfterGrace(w) \in -Grace .. IdleWait /\ readyAfterGrace(w) <= w.sinceReady
    BY <1>1, TimesAssumption DEF readyAfterGrace, Least
  <2>2. p \in Wins
    BY <1>3, <2>1 DEF Wins
  <2>3. /\ p.sinceInput = w.sinceInput /\ p.sinceReady = readyAfterGrace(w)
        /\ p.sinceCall = w.sinceCall
    BY <1>3 DEF Wins
  <2>4. countdownIdle(p) <= countdownIdle(w)
    BY <2>1, <2>3, <1>1, TimesAssumption DEF countdownIdle, Least, Most
  <2>5. p.sinceReady <= readyAfterGrace(p)
    BY <2>3, <1>1, TimesAssumption DEF readyAfterGrace, Least
  <2>6. Painted(p, e)
    BY <1>3, <2>3, <2>5 DEF Painted, blockedOnlyByGrace, WithinGrace
  <2> QED BY <1>3, <2>2, <2>4, <2>6 DEF Wins, OnlyPainted
<1>4. CASE p = early /\ ~InCountdown(w)
  <2>1. p \in Wins /\ p.sinceInput = w.sinceInput /\ p.sinceReady = w.sinceReady
    BY <1>4 DEF Wins
  <2>2. countdownIdle(p) = countdownIdle(w)
    BY <2>1 DEF countdownIdle
  <2>3. Painted(p, e) /\ countdownIdle(p) <= countdownIdle(w)
    BY <1>4, <2>2, <1>1, TimesAssumption DEF Painted, InCountdown, countdownIdle, Least, Most
  <2> QED BY <1>4, <2>1, <2>3 DEF Wins, OnlyPainted
<1>5. CASE p = shows
  <2>1. InCountdown(w) \in BOOLEAN
    BY DEF InCountdown
  <2>2. /\ p \in Wins /\ p.sinceInput = w.sinceInput /\ p.sinceReady = w.sinceReady
        /\ p.shown /\ p.final = InCountdown(w)
    BY <1>5, <2>1 DEF Wins
  <2>3. countdownIdle(p) = countdownIdle(w)
    BY <2>2 DEF countdownIdle
  <2>4. InCountdown(p) = InCountdown(w)
    BY <2>3 DEF InCountdown
  <2>5. Painted(p, e)
    BY <2>2, <2>4 DEF Painted
  <2>6. countdownIdle(p) <= countdownIdle(w)
    BY <2>3, <1>1, TimesAssumption DEF countdownIdle, Least, Most
  <2> QED BY <1>5, <2>2, <2>5, <2>6 DEF Wins, OnlyPainted
<1>6. autoInstallBlocked(w, e) \/ ~blockedOnlyByGrace(w, e)
  BY DEF autoInstallBlocked, blockedOnlyByGrace
<1> QED BY <1>2, <1>3, <1>4, <1>5, <1>6 DEF Paint

LEMMA CountingIsFine ==
  ASSUME NEW w, NEW e \in Worlds, NEW x, NEW d, Core(w, e, x, d), w.install.kind = "Automatic",
         NEW v, v = startAutoInstallCountdown(w, e)
  PROVE  Core(v, e, x, d) /\ Settled(v, e, d) /\ Calm(w, v)
<1> DEFINE q == [w EXCEPT !.counting = TRUE, !.sinceReady = 0, !.active = TRUE,
                          !.shown = TRUE, !.buttons = Both, !.final = FALSE]
<1>0. 0 \in -Grace .. IdleWait /\ Both \in SUBSET Both
  BY Zeros
<1>1. q \in Wins
  BY <1>0 DEF Core, Wins
<1>2. /\ q.pending = w.pending /\ q.manifest = w.manifest /\ q.download = w.download
      /\ q.waiting = w.waiting /\ q.install = w.install /\ q.replaced = w.replaced
      /\ q.callWait = w.callWait /\ q.counting /\ q.graceTimer = w.graceTimer
      /\ q.wants = w.wants /\ q.checking = w.checking /\ q.cancelled = w.cancelled
      /\ q.buttons = Both /\ q.sinceCall = w.sinceCall /\ q.sinceReady = 0
      /\ q.launches = w.launches /\ q.asked = w.asked
  BY DEF Core, Wins
<1>3. q.sinceInput \in 0 .. IdleWait
  BY <1>1 DEF Wins
<1>4. countdownIdle(q) = 0
  BY <1>2, <1>3, TimesAssumption DEF countdownIdle, Least, Most
<1>5. v = Paint(q, e)
  BY DEF startAutoInstallCountdown
<1> HIDE DEF q
<1>6. v \in Wins /\ countdownIdle(v) <= countdownIdle(q) /\ OnlyPainted(q, v)
  BY <1>1, <1>5, PaintIsFine
<1>7. v.sinceInput \in 0 .. IdleWait /\ v.sinceReady \in -Grace .. IdleWait
  BY <1>6 DEF Wins
<1>8. countdownIdle(v) = 0
  BY <1>4, <1>6, <1>7, TimesAssumption DEF countdownIdle, Least, Most
<1>9. w.waiting # NoVersion /\ w.replaced.kind = "None"
  BY DEF Core
<1>10. Core(v, e, x, d)
  BY <1>2, <1>6, <1>9 DEF Core, Both, OnlyPainted
<1>11. Settled(v, e, d)
  BY <1>2, <1>6, <1>9, <1>10 DEF Settled, Core, OnlyPainted
<1>12. Calm(w, v)
  BY <1>2, <1>6, <1>8 DEF Calm, Near, OnlyPainted
<1> QED BY <1>10, <1>11, <1>12

LEMMA ResumeIsFine ==
  ASSUME NEW w, NEW e \in Worlds, NEW x, NEW d, Core(w, e, x, d), w.install.kind = "Automatic",
         NEW v, v = resumeAutoInstallCountdown(w, e)
  PROVE  Core(v, e, x, d) /\ Settled(v, e, d) /\ Calm(w, v)
<1> DEFINE q == [w EXCEPT !.graceTimer = Off, !.callWait = FALSE]
<1>1. q = w
  BY DEF Core, Wins
<1>2. w.waiting # NoVersion /\ w.replaced.kind = "None" /\ ~w.checking /\ w \in Wins
  BY DEF Core
<1>3. v = IF w.counting THEN w ELSE startAutoInstallCountdown(w, e)
  BY <1>1, <1>2 DEF resumeAutoInstallCountdown
<1>4. CASE w.counting
  BY <1>2, <1>3, <1>4, TimesAssumption DEF Settled, Calm, Near, countdownIdle, Least, Most, Wins
<1>5. CASE ~w.counting
  BY <1>3, <1>5, CountingIsFine
<1> QED BY <1>4, <1>5

(* An installer started: the gates were open. *)
Launching(w, v, e) ==
  v.launches # w.launches =>
    /\ v.launches = 1 /\ v.asked = w.asked /\ ~CallActive(e)
    /\ w.install.kind = "Automatic" => ~autoInstallBlocked(w, e) /\ ~w.cancelled
    /\ w.install.kind \in {"Automatic", "UserAccepted"}

LEMMA LaunchIsFine ==
  ASSUME NEW w, NEW e \in Worlds, NEW x, NEW d \in BOOLEAN, Core(w, e, x, d),
         w.waiting # NoVersion, NEW v \in maybeLaunchPendingInstaller(w, e)
  PROVE  /\ Core(v, e, x, d) /\ Settled(v, e, d) /\ Near(w, v) /\ Launching(w, v, e)
         /\ beforeLaunch(w, e) = "Launch" => v.waiting = NoVersion
<1> DEFINE q == [w EXCEPT !.graceTimer = Off]
<1>1. q \in Wins
  BY Zeros DEF Core, Wins
<1>2. /\ q.pending = w.pending /\ q.manifest = w.manifest /\ q.download = w.download
      /\ q.waiting = w.waiting /\ q.install = w.install /\ q.replaced = w.replaced
      /\ q.callWait = w.callWait /\ q.counting = w.counting /\ q.graceTimer = Off
      /\ q.wants = w.wants /\ q.checking = w.checking /\ q.cancelled = w.cancelled
      /\ q.buttons = w.buttons /\ q.sinceCall = w.sinceCall /\ q.sinceReady = w.sinceReady
      /\ q.sinceInput = w.sinceInput /\ q.shown = w.shown /\ q.active = w.active
      /\ q.launches = w.launches /\ q.asked = w.asked
  BY DEF Core, Wins
<1>3. v \in CASE beforeLaunch(q, e) = "Hold"         -> {q}
               [] beforeLaunch(q, e) = "Resume"       -> {resumeAutoInstallCountdown(q, e)}
               [] beforeLaunch(q, e) = "WaitForCall"  ->
                      {[q EXCEPT !.sinceCall = 0, !.callWait = TRUE]}
               [] beforeLaunch(q, e) = "WaitForGrace" ->
                      {[q EXCEPT !.graceTimer = Grace - q.sinceCall]}
               [] beforeLaunch(q, e) = "Launch"       -> {Launched(q)} \cup LaunchFails(q)
  BY DEF maybeLaunchPendingInstaller
<1> HIDE DEF q
<1>4. Core(q, e, x, d)
  BY <1>1, <1>2 DEF Core
<1>5. countdownIdle(q) = countdownIdle(w) /\ autoInstallBlocked(q, e) = autoInstallBlocked(w, e)
  BY <1>2 DEF countdownIdle, autoInstallBlocked, WithinGrace
<1>15. beforeLaunch(q, e) = beforeLaunch(w, e)
  BY <1>2, <1>5 DEF beforeLaunch, WithinGrace
<1>6. \A r : Calm(q, r) => Near(w, r) /\ r.launches = w.launches
  BY <1>2, <1>5 DEF Calm, Near
<1>7. /\ q.replaced.kind = "None" /\ q.install.kind # "None" /\ q.install \in Installs
      /\ ~q.checking /\ q.launches = 0 /\ q.download = NoVersion
  BY <1>1, <1>2, <1>4 DEF Core, Wins
<1>8. q.install.kind \in {"Automatic", "UserAccepted", "AwaitingUser"}
  BY <1>7 DEF Installs, Kinds
<1>9. CASE beforeLaunch(q, e) = "Hold"
  <2>1. v = q /\ q.install.kind = "AwaitingUser"
    BY <1>3, <1>8, <1>9 DEF beforeLaunch
  <2>2. Settled(q, e, d) /\ Calm(q, q)
    BY <1>2, <1>4, <1>7, <2>1 DEF Settled, Calm, Near, Core
  <2> QED BY <1>4, <1>6, <1>9, <1>15, <2>1, <2>2 DEF Launching
<1>10. CASE beforeLaunch(q, e) = "Resume"
  <2>1. v = resumeAutoInstallCountdown(q, e) /\ q.install.kind = "Automatic"
    BY <1>3, <1>8, <1>10 DEF beforeLaunch
  <2> QED BY <1>4, <1>6, <1>10, <1>15, <2>1, ResumeIsFine DEF Launching
<1>11. CASE beforeLaunch(q, e) = "WaitForCall"
  <2>1. /\ v = [q EXCEPT !.sinceCall = 0, !.callWait = TRUE]
        /\ q.install.kind = "UserAccepted" /\ CallActive(e)
    BY <1>3, <1>8, <1>11 DEF beforeLaunch
  <2>2. /\ v \in Wins /\ v.sinceCall = 0 /\ v.callWait
        /\ v.pending = q.pending /\ v.manifest = q.manifest /\ v.download = q.download
        /\ v.waiting = q.waiting /\ v.install = q.install /\ v.replaced = q.replaced
        /\ v.counting = q.counting /\ v.graceTimer = q.graceTimer
        /\ v.wants = q.wants /\ v.checking = q.checking /\ v.cancelled = q.cancelled
        /\ v.buttons = q.buttons /\ v.shown = q.shown /\ v.active = q.active
        /\ v.launches = q.launches /\ v.asked = q.asked
    BY <1>1, <2>1, Zeros DEF Wins
  <2>3. ~q.counting
    BY <1>4, <2>1 DEF Core
  <2>4. Core(v, e, x, d)
    BY <1>4, <2>1, <2>2 DEF Core
  <2>5. Settled(v, e, d) /\ Calm(q, v)
    BY <1>2, <1>7, <2>1, <2>2, <2>3 DEF Settled, Calm, Near
  <2> QED BY <1>6, <1>11, <1>15, <2>4, <2>5 DEF Launching
<1>12. CASE beforeLaunch(q, e) = "WaitForGrace"
  <2>1. /\ v = [q EXCEPT !.graceTimer = Grace - q.sinceCall]
        /\ q.install.kind = "UserAccepted"
    BY <1>3, <1>8, <1>12 DEF beforeLaunch
  <2>2. Grace - q.sinceCall \in Off .. Grace /\ Grace - q.sinceCall # Off
    BY <1>1, Zeros DEF Wins
  <2>3. /\ v \in Wins /\ v.graceTimer # Off /\ v.callWait = q.callWait
        /\ v.pending = q.pending /\ v.manifest = q.manifest /\ v.download = q.download
        /\ v.waiting = q.waiting /\ v.install = q.install /\ v.replaced = q.replaced
        /\ v.counting = q.counting /\ v.sinceCall = q.sinceCall
        /\ v.wants = q.wants /\ v.checking = q.checking /\ v.cancelled = q.cancelled
        /\ v.buttons = q.buttons /\ v.shown = q.shown /\ v.active = q.active
        /\ v.launches = q.launches /\ v.asked = q.asked
    BY <1>1, <2>1, <2>2 DEF Wins
  <2>4. ~q.counting
    BY <1>4, <2>1 DEF Core
  <2>5. Core(v, e, x, d)
    BY <1>4, <2>1, <2>3 DEF Core
  <2>6. Settled(v, e, d) /\ Calm(q, v)
    BY <1>2, <1>7, <2>1, <2>3, <2>4 DEF Settled, Calm, Near
  <2> QED BY <1>6, <1>12, <1>15, <2>5, <2>6 DEF Launching
<1>13. CASE beforeLaunch(q, e) = "Launch"
  <2>1. /\ q.install.kind \in {"Automatic", "UserAccepted"} /\ ~CallActive(e)
        /\ q.install.kind = "Automatic" => ~autoInstallBlocked(q, e)
    BY <1>8, <1>13 DEF beforeLaunch, autoInstallBlocked
  <2>2. v = Launched(q) \/ v \in LaunchFails(q)
    BY <1>3, <1>13
  <2>3. CASE v \in LaunchFails(q)
    BY <1>2, <1>4, <1>6, <2>1, <2>3, LaunchFailsIsFine DEF Launching
  <2>4. CASE v = Launched(q)
    <3>1. q.launches + 1 = 1 /\ 1 \in Nat
      BY <1>7
    <3>2. v = [q EXCEPT !.launches = 1, !.waiting = NoVersion, !.install = NoInstall,
                        !.callWait = FALSE, !.counting = FALSE]
      BY <1>1, <2>4, <3>1 DEF Launched
    <3>3. v \in Wins
      BY <1>1, <3>1, <3>2, Zeros DEF Wins
    <3>4. /\ v.launches = 1 /\ v.waiting = NoVersion /\ v.install.kind = "None"
          /\ ~v.callWait /\ ~v.counting /\ v.sinceCall = q.sinceCall
          /\ v.pending = q.pending /\ v.manifest = q.manifest /\ v.download = q.download
          /\ v.replaced = q.replaced /\ v.graceTimer = q.graceTimer /\ v.shown = q.shown
          /\ v.active = q.active /\ v.wants = q.wants /\ v.checking = q.checking
          /\ v.cancelled = q.cancelled /\ v.asked = q.asked
      BY <1>1, <3>2, Zeros DEF Wins
    <3>5. Core(v, e, x, d)
      BY <1>2, <1>4, <1>7, <3>3, <3>4 DEF Core
    <3>6. Settled(v, e, d) /\ Near(w, v)
      BY <1>2, <1>7, <3>4 DEF Settled, Near
    <3>7. Launching(w, v, e)
      BY <1>2, <1>4, <1>5, <2>1, <3>4 DEF Launching, Core
    <3> QED BY <3>4, <3>5, <3>6, <3>7
  <2> QED BY <2>2, <2>3, <2>4
<1>14. beforeLaunch(q, e) \in {"Hold", "Resume", "WaitForCall", "WaitForGrace", "Launch"}
  BY <1>8 DEF beforeLaunch
<1> QED BY <1>9, <1>10, <1>11, <1>12, <1>13, <1>14

(* A handler other than a tick has run: who is surprised by a launch was   *)
(* told to expect one.                                                     *)
Handled(w, v, e, x, d) ==
  /\ Core(v, e, x, d) /\ Settled(v, e, d) /\ Near(w, v)
  /\ v.launches # w.launches =>
       v.launches = 1 /\ ~CallActive(e) /\ (x \/ "install" \in v.asked)

LEMMA AcceptedLaunchIsFine ==
  ASSUME NEW w, NEW e \in Worlds, NEW x \in BOOLEAN, NEW d \in BOOLEAN, Core(w, e, x, d),
         w.install.kind = "UserAccepted", NEW v \in maybeLaunchPendingInstaller(w, e)
  PROVE  Handled(w, v, e, x, d)
<1>1. w.waiting # NoVersion /\ (x \/ "install" \in w.asked)
  BY DEF Core
<1>2. Core(v, e, x, d) /\ Settled(v, e, d) /\ Near(w, v) /\ Launching(w, v, e)
  BY <1>1, LaunchIsFine
<1> QED BY <1>1, <1>2 DEF Handled, Launching

LEMMA CallChangeIsFine ==
  ASSUME NEW w, NEW e \in Worlds, NEW x \in BOOLEAN, NEW d \in BOOLEAN, Core(w, e, x, d),
         w.waiting # NoVersion,
         w.install.kind = "UserAccepted" => w.graceTimer # Off \/ w.callWait,
         NEW v \in onCallStateChanged(w, e)
  PROVE  Handled(w, v, e, x, d)
<1>1. CASE w.install.kind = "Automatic"
  <2>1. v = resumeAutoInstallCountdown(w, e)
    BY <1>1 DEF onCallStateChanged
  <2>2. Core(v, e, x, d) /\ Settled(v, e, d) /\ Calm(w, v)
    BY <1>1, <2>1, ResumeIsFine
  <2> QED BY <2>2 DEF Handled, Calm
<1>2. CASE w.install.kind = "UserAccepted" /\ w.callWait /\ ~CallActive(e)
  BY <1>2, AcceptedLaunchIsFine DEF onCallStateChanged
<1>3. CASE /\ w.install.kind # "Automatic"
           /\ ~(w.install.kind = "UserAccepted" /\ w.callWait /\ ~CallActive(e))
  <2>1. v = w
    BY <1>3 DEF onCallStateChanged
  <2>2. Settled(w, e, d) /\ Near(w, w)
    BY <1>3 DEF Core, Settled, Near
  <2> QED BY <2>1, <2>2 DEF Handled
<1> QED BY <1>1, <1>2, <1>3

(* The user asks for something, which is input too. *)
Asks(w, what) == Asking([w EXCEPT !.sinceInput = 0], what)

OnlyAsked(w, u, what) ==
  /\ u.pending = w.pending /\ u.manifest = w.manifest /\ u.download = w.download
  /\ u.waiting = w.waiting /\ u.install = w.install /\ u.replaced = w.replaced
  /\ u.callWait = w.callWait /\ u.counting = w.counting
  /\ u.graceTimer = w.graceTimer /\ u.wants = w.wants /\ u.checking = w.checking
  /\ u.cancelled = w.cancelled /\ u.buttons = w.buttons /\ u.shown = w.shown
  /\ u.active = w.active /\ u.sinceCall = w.sinceCall /\ u.launches = w.launches
  /\ u.asked = w.asked \cup {what}

LEMMA AskingIsFine ==
  ASSUME NEW w, NEW e, NEW x, NEW d, Core(w, e, x, d), NEW what \in {"install", "now"},
         NEW u, u = Asks(w, what)
  PROVE  /\ u \in Wins /\ OnlyAsked(w, u, what)
         /\ w.waiting = NoVersion => Core(u, e, x, d) /\ ~u.counting
<1> DEFINE t == [w EXCEPT !.sinceInput = 0]
<1>0. w \in Wins /\ 0 \in 0 .. IdleWait
  BY TimesAssumption DEF Core
<1>1. t \in Wins
  BY <1>0 DEF Wins
<1>2. u = [t EXCEPT !.asked = w.asked \cup {what}]
  BY <1>0 DEF Asks, Asking, Wins
<1>3. w.asked \cup {what} \in SUBSET {"install", "now"}
  BY <1>0 DEF Wins
<1>4. /\ t.pending = w.pending /\ t.manifest = w.manifest /\ t.download = w.download
      /\ t.waiting = w.waiting /\ t.install = w.install /\ t.replaced = w.replaced
      /\ t.callWait = w.callWait /\ t.counting = w.counting
      /\ t.graceTimer = w.graceTimer /\ t.wants = w.wants /\ t.checking = w.checking
      /\ t.cancelled = w.cancelled /\ t.buttons = w.buttons /\ t.shown = w.shown
      /\ t.active = w.active /\ t.sinceCall = w.sinceCall /\ t.launches = w.launches
  BY <1>0 DEF Wins
<1> HIDE DEF t
<1>5. u \in Wins
  BY <1>1, <1>2, <1>3 DEF Wins
<1>6. /\ u.pending = t.pending /\ u.manifest = t.manifest /\ u.download = t.download
      /\ u.waiting = t.waiting /\ u.install = t.install /\ u.replaced = t.replaced
      /\ u.callWait = t.callWait /\ u.counting = t.counting
      /\ u.graceTimer = t.graceTimer /\ u.wants = t.wants /\ u.checking = t.checking
      /\ u.cancelled = t.cancelled /\ u.buttons = t.buttons /\ u.shown = t.shown
      /\ u.active = t.active /\ u.sinceCall = t.sinceCall /\ u.launches = t.launches
      /\ u.asked = w.asked \cup {what}
  BY <1>1, <1>2 DEF Wins
<1>7. w.waiting = NoVersion => Core(u, e, x, d) /\ ~u.counting
  BY <1>4, <1>5, <1>6 DEF Core
<1> QED BY <1>4, <1>5, <1>6, <1>7 DEF OnlyAsked

LEMMA InstallIsFine ==
  ASSUME NEW w, NEW e \in Worlds, NEW x \in BOOLEAN, NEW d \in BOOLEAN, Core(w, e, x, d),
         w.waiting # NoVersion, NEW v \in InstallWaiting(Asks(w, "install"), e)
  PROVE  Handled(w, v, e, x, d)
<1> DEFINE u == Asks(w, "install")
           q == [u EXCEPT !.counting = FALSE, !.buttons = {}, !.final = FALSE,
                          !.install = Install("UserAccepted", TRUE)]
<1>0. /\ Install("UserAccepted", TRUE) \in Installs
      /\ Install("UserAccepted", TRUE).kind = "UserAccepted"
  BY DEF Install, Installs, Kinds
<1>1. u = Asks(w, "install") /\ v \in maybeLaunchPendingInstaller(q, e)
  BY DEF InstallWaiting
<1> HIDE DEF u
<1>2. u \in Wins /\ OnlyAsked(w, u, "install")
  BY <1>1, AskingIsFine
<1>3. q \in Wins
  BY <1>0, <1>2, Zeros DEF Wins
<1>4. /\ q.pending = u.pending /\ q.manifest = u.manifest /\ q.download = u.download
      /\ q.waiting = u.waiting /\ q.install.kind = "UserAccepted" /\ q.replaced = u.replaced
      /\ ~q.counting /\ q.wants = u.wants /\ q.checking = u.checking
      /\ q.cancelled = u.cancelled /\ q.sinceCall = u.sinceCall /\ q.shown = u.shown
      /\ q.active = u.active /\ q.launches = u.launches /\ q.asked = u.asked
  BY <1>0, <1>2 DEF Wins
<1> HIDE DEF q
<1>5. Core(q, e, x, d)
  BY <1>2, <1>3, <1>4 DEF Core, OnlyAsked
<1>6. Handled(q, v, e, x, d)
  BY <1>1, <1>4, <1>5, AcceptedLaunchIsFine
<1> QED BY <1>2, <1>4, <1>6 DEF Handled, Near, OnlyAsked

LEMMA LandingIsFine ==
  ASSUME NEW w, NEW e \in Worlds, NEW x \in BOOLEAN, NEW d \in BOOLEAN, Core(w, e, x, d),
         w.download # NoVersion, w.launches = 0, NEW v \in ReadyToLaunch(w, e)
  PROVE  Handled(w, v, e, x, d)
<1> DEFINE i == installWhenDownloadLands(w, e)
           asked == IF i.kind = "Automatic" THEN {}
                    ELSE IF w.wants THEN {"install"} ELSE w.asked
           q == [w EXCEPT !.waiting = w.download, !.download = NoVersion, !.install = i,
                          !.replaced = NoInstall, !.callWait = FALSE, !.graceTimer = Off,
                          !.counting = @ /\ i.kind = "Automatic", !.final = FALSE,
                          !.wants = FALSE, !.checking = @ /\ ~w.wants, !.asked = asked]
           r == [q EXCEPT !.buttons = {}]
<1>1. /\ w \in Wins /\ w.waiting = NoVersion /\ w.install.kind = "None" /\ ~w.counting
      /\ w.checking => w.wants
      /\ ~d => w.pending
      /\ w.pending => w.manifest # NoVersion
      /\ ~x /\ "install" \notin w.asked =>
           ~w.cancelled /\ (e.auto \/ w.replaced.kind = "Automatic")
      /\ ~x /\ w.replaced.kind = "UserAccepted" => "install" \in w.asked
  BY DEF Core
<1>2. i \in Installs /\ i.kind \in {"Automatic", "UserAccepted"}
  BY <1>1 DEF installWhenDownloadLands, Install, Installs, Kinds, Wins, Worlds
<1>3. i.kind = "Automatic" => ~w.cancelled /\ asked = {}
  BY DEF installWhenDownloadLands, Install
<1>4. asked \in SUBSET {"install", "now"}
  BY <1>1 DEF Wins
<1>5. i.kind = "UserAccepted" /\ ~x => "install" \in asked
  BY <1>1 DEF installWhenDownloadLands, Install
<1>6. (w.checking /\ ~w.wants) = FALSE
  BY <1>1 DEF Wins
<1>13. (w.counting /\ i.kind = "Automatic") = FALSE
  BY <1>1
<1> HIDE DEF i, asked
<1>14. q = [w EXCEPT !.waiting = w.download, !.download = NoVersion, !.install = i,
                     !.replaced = NoInstall, !.callWait = FALSE, !.graceTimer = Off,
                     !.counting = FALSE, !.final = FALSE, !.wants = FALSE,
                     !.checking = FALSE, !.asked = asked]
  BY <1>6, <1>13
<1>15. /\ w.download \in Offers /\ NoVersion \in Offers
       /\ NoInstall \in Installs /\ Off \in Off .. Grace
  BY <1>1, Zeros DEF Wins
<1>16. [w EXCEPT !.waiting = w.download, !.download = NoVersion, !.install = i,
                 !.replaced = NoInstall, !.callWait = FALSE, !.graceTimer = Off,
                 !.counting = FALSE, !.final = FALSE, !.wants = FALSE,
                 !.checking = FALSE, !.asked = asked] \in Wins
  BY <1>1, <1>2, <1>4, <1>15, ZenonT(60) DEF Wins
<1> HIDE DEF q
<1>17. q \in Wins
  BY <1>14, <1>16
<1>18. {} \in SUBSET Both
  OBVIOUS
<1>7. q \in Wins /\ r \in Wins
  BY <1>17, <1>18, ZenonT(60) DEF Wins
<1> USE DEF q
<1>8. /\ q.pending = w.pending /\ q.manifest = w.manifest /\ q.download = NoVersion
      /\ q.waiting = w.download /\ q.install = i /\ q.replaced.kind = "None"
      /\ ~q.counting /\ ~q.checking /\ q.graceTimer = Off /\ ~q.callWait
      /\ q.cancelled = w.cancelled /\ q.sinceCall = w.sinceCall /\ q.shown = w.shown
      /\ q.active = w.active /\ q.launches = 0 /\ q.asked = asked
  BY <1>1, <1>6, Zeros DEF Wins
<1>9. /\ r.pending = w.pending /\ r.manifest = w.manifest /\ r.download = NoVersion
      /\ r.waiting = w.download /\ r.install = i /\ r.replaced.kind = "None"
      /\ ~r.counting /\ ~r.checking /\ r.graceTimer = Off /\ ~r.callWait
      /\ r.cancelled = w.cancelled /\ r.sinceCall = w.sinceCall /\ r.shown = w.shown
      /\ r.active = w.active /\ r.launches = 0 /\ r.asked = asked
  BY <1>1, <1>6, Zeros DEF Wins
<1>10. IF i.kind = "Automatic" THEN v = startAutoInstallCountdown(q, e)
       ELSE v \in maybeLaunchPendingInstaller(r, e)
  BY DEF ReadyToLaunch, i, asked
<1> HIDE DEF q, r
<1>11. CASE i.kind = "Automatic"
  <2>1. Core(q, e, x, d)
    BY <1>1, <1>3, <1>7, <1>8, <1>11 DEF Core
  <2>2. Core(v, e, x, d) /\ Settled(v, e, d) /\ Calm(q, v)
    BY <1>8, <1>10, <1>11, <2>1, CountingIsFine
  <2> QED BY <1>8, <2>2 DEF Handled, Calm, Near
<1>12. CASE i.kind = "UserAccepted"
  <2>1. Core(r, e, x, d)
    BY <1>1, <1>5, <1>7, <1>9, <1>12 DEF Core
  <2>2. Handled(r, v, e, x, d)
    BY <1>9, <1>10, <1>12, <2>1, AcceptedLaunchIsFine
  <2> QED BY <1>9, <2>2 DEF Handled, Near
<1> QED BY <1>2, <1>11, <1>12

LEMMA TickIsFine ==
  ASSUME NEW w, NEW e \in Worlds, NEW x \in BOOLEAN, NEW d \in BOOLEAN, Core(w, e, x, d),
         w.counting, NEW v \in CountdownTick(w, e)
  PROVE  /\ Core(v, e, x, d) /\ Settled(v, e, d) /\ Near(w, v)
         /\ v.counting => Painted(v, e)
         /\ v.launches # w.launches =>
              /\ v.launches = 1 /\ v.asked = w.asked /\ ~w.cancelled
              /\ ~autoInstallBlocked(w, e) /\ countdownIdle(w) >= IdleWait
<1> DEFINE p == Paint(w, e)
           q == [p EXCEPT !.counting = FALSE, !.buttons = {}]
<1>1. /\ w \in Wins /\ w.install.kind = "Automatic" /\ w.waiting # NoVersion
      /\ w.replaced.kind = "None" /\ w.graceTimer = Off /\ ~w.callWait /\ ~w.cancelled
  BY DEF Core, Wins
<1>8. p = Paint(w, e)
  OBVIOUS
<1> HIDE DEF p
<1>9. w \in Wins
  BY <1>1
<1>10. /\ p \in Wins /\ countdownIdle(p) <= countdownIdle(w)
       /\ Painted(p, e) /\ OnlyPainted(w, p)
  BY <1>9, <1>8, PaintIsFine
<1>2. /\ p.pending = w.pending /\ p.manifest = w.manifest /\ p.download = w.download
      /\ p.waiting = w.waiting /\ p.install = w.install /\ p.replaced = w.replaced
      /\ p.callWait = w.callWait /\ p.counting = w.counting
      /\ p.graceTimer = w.graceTimer /\ p.wants = w.wants /\ p.checking = w.checking
      /\ p.cancelled = w.cancelled /\ p.buttons = w.buttons /\ p.sinceCall = w.sinceCall
      /\ p.launches = w.launches /\ p.asked = w.asked
  BY <1>10 DEF OnlyPainted
<1>3. \/ v = p
      \/ /\ ~autoInstallBlocked(w, e) /\ countdownIdle(w) >= IdleWait
         /\ v \in maybeLaunchPendingInstaller(q, e)
  <2>1. CASE ~autoInstallBlocked(w, e) /\ countdownIdle(w) >= IdleWait
    BY <2>1 DEF CountdownTick, p
  <2>2. CASE ~(~autoInstallBlocked(w, e) /\ countdownIdle(w) >= IdleWait)
    BY <2>2 DEF CountdownTick, p
  <2> QED BY <2>1, <2>2
<1>4. q \in Wins
  BY <1>10, Zeros DEF Wins
<1>5. /\ q.pending = p.pending /\ q.manifest = p.manifest /\ q.download = p.download
      /\ q.waiting = p.waiting /\ q.install = p.install /\ q.replaced = p.replaced
      /\ q.callWait = p.callWait /\ ~q.counting /\ q.graceTimer = p.graceTimer
      /\ q.wants = p.wants /\ q.checking = p.checking /\ q.cancelled = p.cancelled
      /\ q.sinceCall = p.sinceCall /\ q.launches = p.launches /\ q.asked = p.asked
  BY <1>10 DEF Wins
<1> HIDE DEF q
<1>6. CASE v = p
  <2>1. Core(p, e, x, d)
    BY <1>1, <1>2, <1>10 DEF Core
  <2>2. Settled(p, e, d) /\ Near(w, p)
    BY <1>1, <1>2, <1>10, <2>1 DEF Core, Settled, Near
  <2> QED BY <1>2, <1>6, <1>10, <2>1, <2>2
<1>7. CASE /\ ~autoInstallBlocked(w, e) /\ countdownIdle(w) >= IdleWait
           /\ v \in maybeLaunchPendingInstaller(q, e)
  <2>1. Core(q, e, x, d)
    BY <1>1, <1>2, <1>4, <1>5 DEF Core
  <2>2. beforeLaunch(q, e) = "Launch"
    BY <1>1, <1>2, <1>5, <1>7 DEF beforeLaunch, autoInstallBlocked, WithinGrace
  <2>3. /\ Core(v, e, x, d) /\ Settled(v, e, d) /\ Near(q, v) /\ Launching(q, v, e)
        /\ v.waiting = NoVersion
    BY <1>1, <1>2, <1>5, <1>7, <2>1, <2>2, LaunchIsFine
  <2>4. ~v.counting
    BY <2>3 DEF Core
  <2> QED BY <1>1, <1>2, <1>5, <1>7, <2>3, <2>4 DEF Near, Launching
<1> QED BY <1>3, <1>6, <1>7

(* The banner appears. *)
BannerUp(w) == [w EXCEPT !.buttons = Both, !.active = TRUE, !.shown = TRUE, !.final = FALSE]

LEMMA CalmIsTransitive ==
  ASSUME NEW w \in Wins, NEW u \in Wins, NEW v \in Wins, Calm(w, u), Calm(u, v)
  PROVE  Calm(w, v)
<1>1. countdownIdle(w) \in Nat /\ countdownIdle(u) \in Nat /\ countdownIdle(v) \in Nat
  BY TimesAssumption DEF countdownIdle, Least, Most, Wins
<1> QED BY <1>1 DEF Calm, Near

LEMMA BannerIsFine ==
  ASSUME NEW w, NEW e, NEW x, NEW d, Core(w, e, x, d), w.pending,
         NEW v, v = BannerUp(w)
  PROVE  /\ Core(v, e, x, d) /\ (Settled(w, e, d) => Settled(v, e, d)) /\ Calm(w, v)
         /\ v.pending /\ v.install = w.install /\ v.waiting = w.waiting
         /\ v.download = w.download /\ v.cancelled = w.cancelled
         /\ v.replaced = w.replaced /\ v.asked = w.asked /\ v.wants = w.wants
         /\ v.checking = w.checking
<1>0. Both \in SUBSET Both /\ w \in Wins
  BY DEF Core
<1>1. v \in Wins
  BY <1>0 DEF BannerUp, Wins
<1>2. /\ v.pending = w.pending /\ v.manifest = w.manifest /\ v.download = w.download
      /\ v.waiting = w.waiting /\ v.install = w.install /\ v.replaced = w.replaced
      /\ v.callWait = w.callWait /\ v.counting = w.counting /\ v.graceTimer = w.graceTimer
      /\ v.wants = w.wants /\ v.checking = w.checking /\ v.cancelled = w.cancelled
      /\ v.buttons = Both /\ v.sinceCall = w.sinceCall /\ v.sinceReady = w.sinceReady
      /\ v.sinceInput = w.sinceInput /\ v.launches = w.launches /\ v.asked = w.asked
  BY <1>0 DEF BannerUp, Wins
<1>3. countdownIdle(v) = countdownIdle(w)
  BY <1>2 DEF countdownIdle
<1>4. v.counting => countdownIdle(v) <= countdownIdle(w)
  BY <1>0, <1>3, TimesAssumption DEF countdownIdle, Least, Most, Wins
<1>5. Core(v, e, x, d)
  BY <1>1, <1>2 DEF Core, Both
<1>6. Settled(w, e, d) => Settled(v, e, d)
  BY <1>2 DEF Settled
<1>7. Calm(w, v)
  BY <1>2, <1>4 DEF Calm, Near
<1> QED BY <1>2, <1>5, <1>6, <1>7

LEMMA OfferIsFine ==
  ASSUME NEW w, NEW e \in Worlds, NEW x \in BOOLEAN, NEW d \in BOOLEAN, Core(w, e, x, d),
         Settled(w, e, d), w.launches = 0, NEW n \in Versions, NEW v \in OfferTo(w, n, e)
  PROVE  Core(v, e, x, d) /\ Settled(v, e, d) /\ Calm(w, v)
<1> DEFINE isNew == n # w.offered
           offered == [w EXCEPT !.manifest = n, !.pending = TRUE, !.offered = n,
                                !.relaunched = @ /\ ~isNew]
           replaces == isNew /\ w.waiting # NoVersion
           q == IF replaces THEN replaceWaitingInstaller(offered) ELSE offered
           forced == q.wants /\ q.checking
           askedFor == [q EXCEPT !.checking = FALSE, !.asked = {"install"}]
           before == IF forced THEN acceptUpdate(askedFor) ELSE {q}
           after(a) == IF ~forced /\ downloadOffered(a, e, isNew) THEN acceptUpdate(a)
                       ELSE IF replaces /\ ~forced THEN {[a EXCEPT !.replaced = NoInstall]}
                       ELSE {a}
<1>1. \E a \in before : v \in after(BannerUp(a))
  BY DEF OfferTo, BannerUp
<1>2. PICK a \in before : v \in after(BannerUp(a))
  BY <1>1
<1> HIDE DEF before, after
<1>3. w \in Wins /\ n \in Offers /\ n # NoVersion /\ (w.relaunched /\ ~isNew) \in BOOLEAN
  BY VersionsAssumption DEF Core, Offers
<1>4. /\ offered \in Wins
      /\ offered.pending /\ offered.manifest = n /\ offered.download = w.download
      /\ offered.waiting = w.waiting /\ offered.install = w.install
      /\ offered.replaced = w.replaced /\ offered.callWait = w.callWait
      /\ offered.counting = w.counting /\ offered.graceTimer = w.graceTimer
      /\ offered.wants = w.wants /\ offered.checking = w.checking
      /\ offered.cancelled = w.cancelled /\ offered.buttons = w.buttons
      /\ offered.sinceCall = w.sinceCall /\ offered.sinceReady = w.sinceReady
      /\ offered.sinceInput = w.sinceInput /\ offered.launches = w.launches
      /\ offered.asked = w.asked
  BY <1>3 DEF Wins
<1> HIDE DEF offered
<1>5. Core(offered, e, x, d)
  BY <1>3, <1>4 DEF Core
<1>6. Settled(offered, e, d)
  BY <1>4 DEF Settled
<1>7. Calm(w, offered)
  <2>1. countdownIdle(offered) = countdownIdle(w)
    BY <1>4 DEF countdownIdle
  <2>2. countdownIdle(offered) <= countdownIdle(w)
    BY <1>3, <2>1, TimesAssumption DEF countdownIdle, Least, Most, Wins
  <2> QED BY <1>4, <2>2 DEF Calm, Near
<1>8. /\ Core(q, e, x, d) /\ Calm(offered, q) /\ q.pending
      /\ replaces => /\ q.waiting = NoVersion /\ q.download = NoVersion
                     /\ q.replaced = w.install /\ q.asked = w.asked /\ ~q.checking
      /\ ~replaces => q = offered
  <2>1. CASE replaces
    <3>1. w.waiting # NoVersion /\ ~w.checking
      BY <1>5, <1>4, <2>1 DEF Core
    <3> QED BY <1>4, <1>5, <2>1, <3>1, ReplaceIsFine
  <2>2. CASE ~replaces
    <3>1. Calm(offered, offered)
      BY <1>4, <1>3, TimesAssumption DEF Calm, Near, countdownIdle, Least, Most, Wins
    <3> QED BY <1>4, <1>5, <2>2, <3>1
  <2> QED BY <2>1, <2>2
<1>9. isNew => q.waiting = NoVersion
  BY <1>4, <1>8
<1> HIDE DEF q
<1>10. Calm(w, q) /\ q \in Wins
  BY <1>3, <1>4, <1>7, <1>8, CalmIsTransitive DEF Core
<1>11. CASE ~forced
  <2> DEFINE b == BannerUp(q)
  <2>1. a = q
    BY <1>2, <1>11 DEF before
  <2>2. v \in after(b)
    BY <1>2, <2>1
  <2>3. b = BannerUp(q)
    OBVIOUS
  <2> HIDE DEF b
  <2>4. /\ Core(b, e, x, d) /\ (Settled(q, e, d) => Settled(b, e, d)) /\ Calm(q, b)
        /\ b.pending /\ b.install = q.install /\ b.waiting = q.waiting
        /\ b.download = q.download /\ b.cancelled = q.cancelled
        /\ b.replaced = q.replaced /\ b.asked = q.asked /\ b.wants = q.wants
        /\ b.checking = q.checking
    BY <1>8, <2>3, BannerIsFine
  <2>5. b \in Wins
    BY <2>4 DEF Core
  <2>6. Calm(w, b)
    BY <1>3, <1>10, <2>4, <2>5, CalmIsTransitive
  <2>7. CASE downloadOffered(b, e, isNew)
    <3>1. v \in startDownload(b)
      BY <1>11, <2>2, <2>4, <2>7 DEF after, acceptUpdate
    <3>2. isNew /\ ((e.auto /\ ~b.cancelled) \/ b.replaced.kind = "UserAccepted")
      BY <2>7 DEF downloadOffered
    <3>3. b.waiting = NoVersion
      BY <1>9, <2>4, <3>2
    <3>4. MayStart(b, e, x)
      BY <2>4, <3>2 DEF MayStart, Core
    <3>5. Core(v, e, x, d) /\ Settled(v, e, d) /\ Calm(b, v)
      BY <2>4, <3>1, <3>3, <3>4, StartIsFine
    <3>6. v \in Wins
      BY <3>5 DEF Core
    <3> QED BY <1>3, <2>5, <2>6, <3>5, <3>6, CalmIsTransitive
  <2>8. CASE replaces /\ ~downloadOffered(b, e, isNew)
    <3>1. v = [b EXCEPT !.replaced = NoInstall]
      BY <1>11, <2>2, <2>8 DEF after
    <3>2. /\ b.replaced.kind # "UserAccepted" /\ b.replaced = w.install
          /\ b.waiting = NoVersion /\ b.download = NoVersion /\ b.asked = w.asked
      BY <1>8, <2>4, <2>8 DEF downloadOffered
    <3>3. w.install.kind \in Kinds /\ w.install.kind # "None" /\ b.install.kind = "None"
      BY <1>3, <2>4, <2>8, <3>2 DEF Core, Wins, Installs
    <3>4. b.asked = {}
      BY <3>2, <3>3 DEF Core, Kinds
    <3>5. NoInstall \in Installs /\ NoInstall.kind = "None"
      BY Zeros
    <3>6. v \in Wins
      BY <2>5, <3>1, <3>5 DEF Wins
    <3>7. /\ v.pending = b.pending /\ v.manifest = b.manifest /\ v.download = b.download
          /\ v.waiting = b.waiting /\ v.install = b.install /\ v.replaced.kind = "None"
          /\ v.callWait = b.callWait /\ v.counting = b.counting
          /\ v.graceTimer = b.graceTimer /\ v.wants = b.wants /\ v.checking = b.checking
          /\ v.cancelled = b.cancelled /\ v.buttons = b.buttons /\ v.shown = b.shown
          /\ v.active = b.active /\ v.sinceCall = b.sinceCall /\ v.launches = b.launches
          /\ v.asked = b.asked
      BY <2>5, <3>1, <3>5 DEF Wins
    <3>8. Core(v, e, x, d)
      BY <2>4, <3>2, <3>6, <3>7 DEF Core
    <3>9. Settled(v, e, d) /\ Calm(b, v)
      BY <2>4, <3>2, <3>3, <3>4, <3>7 DEF Settled, Calm, Near, Core
    <3> QED BY <1>3, <2>5, <2>6, <3>6, <3>8, <3>9, CalmIsTransitive
  <2>9. CASE ~replaces /\ ~downloadOffered(b, e, isNew)
    <3>1. v = b
      BY <1>11, <2>2, <2>9 DEF after
    <3> QED BY <1>6, <1>8, <2>4, <2>6, <2>9, <3>1
  <2> QED BY <2>7, <2>8, <2>9
<1>12. CASE forced
  <2>1. a \in acceptUpdate(askedFor)
    BY <1>2, <1>12 DEF before
  <2>2. v = BannerUp(a)
    BY <1>2, <1>12 DEF after
  <2>3. askedFor \in Wins
    BY <1>10 DEF Wins
  <2>4. /\ askedFor.pending = q.pending /\ askedFor.manifest = q.manifest
        /\ askedFor.download = q.download /\ askedFor.waiting = q.waiting
        /\ askedFor.install = q.install /\ askedFor.replaced = q.replaced
        /\ askedFor.callWait = q.callWait /\ askedFor.counting = q.counting
        /\ askedFor.graceTimer = q.graceTimer /\ ~askedFor.checking
        /\ askedFor.cancelled = q.cancelled /\ askedFor.buttons = q.buttons
        /\ askedFor.shown = q.shown /\ askedFor.active = q.active
        /\ askedFor.sinceCall = q.sinceCall /\ askedFor.launches = q.launches
        /\ askedFor.asked = {"install"}
    BY <1>10 DEF Wins
  <2> HIDE DEF askedFor
  <2>5. q.waiting = NoVersion /\ q.install.kind = "None" /\ ~q.counting
    BY <1>8, <1>12 DEF Core
  <2>6. Core(askedFor, e, x, d) /\ Calm(q, askedFor) /\ MayStart(askedFor, e, x)
    BY <1>8, <2>3, <2>4, <2>5 DEF Core, Calm, Near, MayStart
  <2>7. a \in startDownload(askedFor)
    BY <1>8, <2>1, <2>4 DEF acceptUpdate
  <2>8. Core(a, e, x, d) /\ Settled(a, e, d) /\ Calm(askedFor, a) /\ a.pending
    BY <1>8, <2>4, <2>5, <2>6, <2>7, StartIsFine
  <2>9. Core(v, e, x, d) /\ Settled(v, e, d) /\ Calm(a, v)
    BY <2>2, <2>8, BannerIsFine
  <2>10. a \in Wins /\ v \in Wins
    BY <2>8, <2>9 DEF Core
  <2>11. Calm(w, askedFor)
    BY <1>3, <1>10, <2>3, <2>6, CalmIsTransitive
  <2>12. Calm(w, a)
    BY <1>3, <2>3, <2>8, <2>10, <2>11, CalmIsTransitive
  <2> QED BY <1>3, <2>9, <2>10, <2>12, CalmIsTransitive
<1> QED BY <1>11, <1>12

-----------------------------------------------------------------------------
(* Steps. *)

SwitchedOff == "switchedOff" \in excused
Deferred == "deferred" \in excused
Slept == "slept" \in excused

(* The countdown has run to its end, on a tick. *)
RunsOut ==
  /\ win.counting /\ ~win.cancelled /\ ~autoInstallBlocked(win, world)
  /\ countdownIdle(win) >= IdleWait /\ UNCHANGED world

Restarted ==
  Restarts => /\ win'.launches = 1 /\ ~CallActive(world')
              /\ SwitchedOff \/ "install" \in win'.asked \/ RunsOut

Stepped ==
  /\ IInv' /\ Restarted /\ Near(win, win') /\ (Slept <=> Slept')
  /\ win'.counting => seen' = seen /\ (ticked' => Painted(win', world'))

LEMMA StaysStamped ==
  ASSUME NEW w \in Wins, NEW v \in Wins, NEW e \in Worlds, Stamped(w, e), Near(w, v)
  PROVE  Stamped(v, e)
<1>1. /\ e.quiet \in 0 .. Grace /\ Grace \in Nat \ {0} /\ w.sinceCall \in Nat
      /\ v.sinceCall \in {0, w.sinceCall}
  BY TimesAssumption DEF Worlds, Wins, Near
<1>2. countdownIdle(w) \in Nat /\ countdownIdle(v) \in Nat
  BY TimesAssumption DEF countdownIdle, Least, Most, Wins
<1>3. v.sinceCall <= w.sinceCall /\ (v.sinceCall = 0 => v.sinceCall <= e.quiet)
  BY <1>1
<1>4. e.call \in {"talking", "over"} => v.sinceCall <= e.quiet
  BY <1>1, <1>3 DEF Stamped
<1>5. ASSUME v.counting
      PROVE  e.quiet = Grace \/ countdownIdle(v) <= e.quiet \/ v.sinceCall <= e.quiet
  <2>1. CASE countdownIdle(v) = 0
    BY <1>1, <2>1
  <2>2. CASE w.counting /\ countdownIdle(v) <= countdownIdle(w)
    <3>1. e.quiet = Grace \/ countdownIdle(w) <= e.quiet \/ w.sinceCall <= e.quiet
      BY <2>2 DEF Stamped
    <3> QED BY <1>1, <1>2, <1>3, <2>2, <3>1
  <2> QED BY <1>5, <2>1, <2>2 DEF Near
<1> QED BY <1>4, <1>5 DEF Stamped

LEMMA Concluded ==
  ASSUME IInv, Core(win', world', SwitchedOff', Deferred'), Settled(win', world', Deferred'),
         Near(win, win'), Slept \/ Stamped(win', world'), Slept <=> Slept',
         world' \in Worlds, excused' \subseteq Excuses,
         seen' = IF win'.counting THEN seen ELSE 0, ticked' = FALSE, Restarted
  PROVE  Stepped
<1>1. seen' \in 0 .. Final
  BY TimesAssumption DEF IInv
<1> QED BY <1>1 DEF Stepped, IInv, SwitchedOff, Deferred, Slept

LEMMA HandlerStep ==
  ASSUME IInv, NEW S, Becomes(S), Quietly,
         Handled(win, win', world, SwitchedOff, Deferred)
  PROVE  Stepped
<1>1. /\ Core(win', world', SwitchedOff', Deferred') /\ Settled(win', world', Deferred')
      /\ Near(win, win') /\ Restarted
  BY DEF Handled, Quietly, Restarted, Restarts, SwitchedOff, Deferred
<1>2. win \in Wins /\ win' \in Wins /\ world' \in Worlds /\ world' = world
  BY <1>1 DEF Core, IInv, Quietly
<1>3. Slept \/ Stamped(win', world')
  BY <1>1, <1>2, StaysStamped DEF IInv, Slept
<1>4. Slept <=> Slept'
  BY DEF Quietly, Slept
<1> QED BY <1>1, <1>2, <1>3, <1>4, Concluded DEF Becomes, Quietly, IInv

LEMMA OfferStep ==
  ASSUME IInv, NEW n \in Versions, Offer(n)
  PROVE  Stepped
<1>1. win' \in OfferTo(win, n, world) /\ win.launches = 0
  BY DEF Offer, Becomes, Running
<1>2. /\ Core(win, world, SwitchedOff, Deferred) /\ Settled(win, world, Deferred)
      /\ world \in Worlds
  BY DEF IInv, SwitchedOff, Deferred
<1>3. SwitchedOff \in BOOLEAN /\ Deferred \in BOOLEAN
  BY DEF SwitchedOff, Deferred
<1>4. /\ Core(win', world, SwitchedOff, Deferred) /\ Settled(win', world, Deferred)
      /\ Calm(win, win')
  BY <1>1, <1>2, <1>3, OfferIsFine
<1>5. Handled(win, win', world, SwitchedOff, Deferred)
  BY <1>4 DEF Handled, Calm
<1> QED BY <1>5, HandlerStep DEF Offer

LEMMA Here ==
  ASSUME IInv
  PROVE  /\ Core(win, world, SwitchedOff, Deferred) /\ Settled(win, world, Deferred)
         /\ win \in Wins /\ world \in Worlds /\ (Slept \/ Stamped(win, world))
         /\ SwitchedOff \in BOOLEAN /\ Deferred \in BOOLEAN /\ Slept \in BOOLEAN
BY DEF IInv, Core, SwitchedOff, Deferred, Slept

(* A handler that starts or stops nothing. *)
LEMMA PlainStep ==
  ASSUME IInv, NEW S, Becomes(S), Quietly, Core(win', world, SwitchedOff, Deferred),
         Settled(win', world, Deferred), win'.sinceCall = win.sinceCall,
         win'.launches = win.launches, ~win'.counting \/ countdownIdle(win') = 0
  PROVE  Stepped
<1>1. Handled(win, win', world, SwitchedOff, Deferred)
  BY DEF Handled, Near
<1> QED BY <1>1, HandlerStep

LEMMA ProgressStep ==
  ASSUME IInv, Progress
  PROVE  Stepped
<1>1. win' = [win EXCEPT !.buttons = {}, !.final = FALSE] /\ win.download # NoVersion
  BY DEF Progress, Becomes
<1>2. win' \in Wins
  BY <1>1, Here, Zeros DEF Wins
<1>3. /\ win'.pending = win.pending /\ win'.manifest = win.manifest
      /\ win'.download = win.download /\ win'.waiting = win.waiting
      /\ win'.install = win.install /\ win'.replaced = win.replaced
      /\ win'.callWait = win.callWait /\ win'.counting = win.counting
      /\ win'.graceTimer = win.graceTimer /\ win'.wants = win.wants
      /\ win'.checking = win.checking /\ win'.cancelled = win.cancelled
      /\ win'.shown = win.shown /\ win'.active = win.active
      /\ win'.sinceCall = win.sinceCall /\ win'.launches = win.launches
      /\ win'.asked = win.asked
  BY <1>1, Here DEF Wins
<1>4. ~win.counting
  BY <1>1, Here DEF Core
<1>5. Core(win', world, SwitchedOff, Deferred) /\ Settled(win', world, Deferred)
  BY <1>2, <1>3, <1>4, Here DEF Core, Settled
<1> QED BY <1>3, <1>4, <1>5, PlainStep DEF Progress

LEMMA DownloadSteps ==
  ASSUME IInv, DownloadFails \/ DownloadLands
  PROVE  Stepped
<1>1. CASE DownloadFails
  <2>1. win' = downloadFailed(win) /\ win.download # NoVersion
    BY <1>1 DEF DownloadFails, Becomes
  <2>2. win.waiting = NoVersion
    BY <2>1, Here DEF Core
  <2>3. /\ Core(win', world, SwitchedOff, Deferred) /\ Settled(win', world, Deferred)
        /\ Calm(win, win')
    BY <2>1, <2>2, Here, FailedIsFine
  <2>4. Handled(win, win', world, SwitchedOff, Deferred)
    BY <2>3 DEF Handled, Calm
  <2> QED BY <1>1, <2>4, HandlerStep DEF DownloadFails
<1>2. CASE DownloadLands
  <2>1. win' \in ReadyToLaunch(win, world) /\ win.download # NoVersion /\ win.launches = 0
    BY <1>2 DEF DownloadLands, Becomes, Running
  <2>2. Handled(win, win', world, SwitchedOff, Deferred)
    BY <2>1, Here, LandingIsFine
  <2> QED BY <1>2, <2>2, HandlerStep DEF DownloadLands
<1> QED BY <1>1, <1>2

LEMMA InstallClickedStep ==
  ASSUME IInv, InstallClicked
  PROVE  Stepped
<1> DEFINE u == Asks(win, "install")
<1>1. CASE win.waiting # NoVersion
  <2>1. win' \in InstallWaiting(Asks(win, "install"), world)
    BY <1>1 DEF InstallClicked, Becomes, Asks, Touched
  <2>2. Handled(win, win', world, SwitchedOff, Deferred)
    BY <1>1, <2>1, Here, InstallIsFine
  <2> QED BY <2>2, HandlerStep DEF InstallClicked
<1>2. CASE win.waiting = NoVersion
  <2>1. win' \in acceptUpdate(u) /\ u = Asks(win, "install")
    BY <1>2 DEF InstallClicked, Becomes, Asks, Touched
  <2>2. win.shown
    BY DEF InstallClicked
  <2> HIDE DEF u
  <2>3. OnlyAsked(win, u, "install") /\ Core(u, world, SwitchedOff, Deferred) /\ ~u.counting
    BY <1>2, <2>1, Here, AskingIsFine
  <2>4. MayStart(u, world, SwitchedOff) /\ (u.pending \/ Deferred = TRUE) /\ u.waiting = NoVersion
    BY <1>2, <2>2, <2>3, Here DEF MayStart, OnlyAsked, Core
  <2>5. /\ Core(win', world, SwitchedOff, Deferred) /\ Settled(win', world, Deferred)
        /\ Calm(u, win')
    BY <2>1, <2>3, <2>4, AcceptIsFine
  <2>6. Handled(win, win', world, SwitchedOff, Deferred)
    BY <2>3, <2>5 DEF Handled, Calm, Near, OnlyAsked
  <2> QED BY <2>6, HandlerStep DEF InstallClicked
<1> QED BY <1>1, <1>2

LEMMA UpdateNowStep ==
  ASSUME IInv, UpdateNow
  PROVE  Stepped
<1> DEFINE u == Asks(win, "now")
<1>1. CASE win.waiting # NoVersion
  <2>1. win' \in InstallWaiting(Asks(win, "install"), world)
    BY <1>1 DEF UpdateNow, Becomes, Asks, Touched
  <2>2. Handled(win, win', world, SwitchedOff, Deferred)
    BY <1>1, <2>1, Here, InstallIsFine
  <2> QED BY <2>2, HandlerStep DEF UpdateNow
<1>2. CASE win.waiting = NoVersion
  <2>1. win' = [u EXCEPT !.wants = TRUE, !.checking = TRUE] /\ u = Asks(win, "now")
    BY <1>2 DEF UpdateNow, Becomes, Asks, Touched
  <2> HIDE DEF u
  <2>2. /\ u \in Wins /\ OnlyAsked(win, u, "now") /\ ~u.counting
        /\ Core(u, world, SwitchedOff, Deferred)
    BY <1>2, <2>1, Here, AskingIsFine
  <2>3. win' \in Wins
    BY <2>1, <2>2 DEF Wins
  <2>4. /\ win'.pending = u.pending /\ win'.manifest = u.manifest
        /\ win'.download = u.download /\ win'.waiting = u.waiting
        /\ win'.install = u.install /\ win'.replaced = u.replaced
        /\ win'.callWait = u.callWait /\ win'.counting = u.counting
        /\ win'.graceTimer = u.graceTimer /\ win'.wants /\ win'.checking
        /\ win'.cancelled = u.cancelled /\ win'.shown = u.shown
        /\ win'.active = u.active /\ win'.sinceCall = u.sinceCall
        /\ win'.launches = u.launches /\ win'.asked = u.asked
    BY <2>1, <2>2 DEF Wins
  <2>5. Core(win', world, SwitchedOff, Deferred)
    BY <1>2, <2>2, <2>3, <2>4 DEF Core, OnlyAsked
  <2>6. Settled(win', world, Deferred)
    BY <1>2, <2>2, <2>4, Here DEF Settled, OnlyAsked
  <2> QED BY <2>2, <2>4, <2>5, <2>6, PlainStep DEF UpdateNow, OnlyAsked
<1> QED BY <1>1, <1>2

LEMMA UpToDateStep ==
  ASSUME IInv, UpToDate
  PROVE  Stepped
<1>1. /\ win' = [win EXCEPT !.checking = FALSE, !.wants = FALSE, !.asked = win.asked \ {"now"}]
      /\ win.checking
  BY Here DEF UpToDate, Becomes, Wins
<1>2. win.asked \ {"now"} \in SUBSET {"install", "now"}
  BY Here DEF Wins
<1>3. win' \in Wins
  BY <1>1, <1>2, Here DEF Wins
<1>4. /\ win'.pending = win.pending /\ win'.manifest = win.manifest
      /\ win'.download = win.download /\ win'.waiting = win.waiting
      /\ win'.install = win.install /\ win'.replaced = win.replaced
      /\ win'.callWait = win.callWait /\ win'.counting = win.counting
      /\ win'.graceTimer = win.graceTimer /\ ~win'.wants /\ ~win'.checking
      /\ win'.cancelled = win.cancelled /\ win'.shown = win.shown
      /\ win'.active = win.active /\ win'.sinceCall = win.sinceCall
      /\ win'.launches = win.launches /\ win'.asked = win.asked \ {"now"}
  BY <1>1, Here DEF Wins
<1>5. win.waiting = NoVersion /\ win.install.kind = "None" /\ ~win.counting
  BY <1>1, Here DEF Core
<1>6. Core(win', world, SwitchedOff, Deferred)
  BY <1>3, <1>4, <1>5, Here DEF Core
<1>7. win'.asked # {} => "install" \in win.asked
  BY <1>4, Here DEF Wins
<1>8. Settled(win', world, Deferred)
  BY <1>4, <1>5, <1>7, Here DEF Settled
<1> QED BY <1>4, <1>5, <1>6, <1>8, PlainStep DEF UpToDate

LEMMA CancelStep ==
  ASSUME IInv, CancelAutoInstall
  PROVE  Stepped
<1> DEFINE i == Install(kindAfterCancel(win.install.kind), win.install.explicit)
<1>1. win' = [win EXCEPT !.sinceInput = 0, !.counting = FALSE, !.cancelled = TRUE,
                         !.final = FALSE, !.install = i, !.graceTimer = Off,
                         !.callWait = FALSE, !.buttons = win.buttons \cup {"install"},
                         !.asked = {}]
  BY Here DEF CancelAutoInstall, Becomes, Touched, Wins
<1>2. /\ win.counting /\ win.install.kind = "Automatic" /\ win.waiting # NoVersion
      /\ win.download = NoVersion /\ win.replaced.kind = "None" /\ ~win.checking
  BY Here DEF CancelAutoInstall, Core
<1>3. i \in Installs /\ i.kind = "AwaitingUser"
  BY <1>2, Here DEF kindAfterCancel, Install, Installs, Kinds, Wins
<1> HIDE DEF i
<1>4. win.buttons \cup {"install"} \in SUBSET Both
  BY Here DEF Wins, Both
<1>5. 0 \in 0 .. IdleWait /\ Off \in Off .. Grace
  BY Zeros
<1>6. win' \in Wins
  BY <1>1, <1>3, <1>4, <1>5, Here, ZenonT(60) DEF Wins
<1>7. /\ win'.pending = win.pending /\ win'.manifest = win.manifest
      /\ win'.download = win.download /\ win'.waiting = win.waiting
      /\ win'.install = i /\ win'.replaced = win.replaced
      /\ ~win'.callWait /\ ~win'.counting /\ win'.graceTimer = Off
      /\ win'.wants = win.wants /\ win'.checking = win.checking
      /\ win'.shown = win.shown /\ win'.active = win.active
      /\ win'.sinceCall = win.sinceCall /\ win'.launches = win.launches
      /\ win'.asked = {}
  BY <1>1, Here DEF Wins
<1>8. Core(win', world, SwitchedOff, Deferred)
  BY <1>2, <1>3, <1>6, <1>7, Here DEF Core
<1>9. Settled(win', world, Deferred)
  BY <1>2, <1>3, <1>7 DEF Settled
<1> QED BY <1>7, <1>8, <1>9, PlainStep DEF CancelAutoInstall

(* Input at the screen that concerns no install. *)
LEMMA TouchIsFine ==
  ASSUME IInv, NEW shows \in BOOLEAN,
         win' = [[win EXCEPT !.sinceInput = 0] EXCEPT !.shown = shows]
  PROVE  /\ win' \in Wins /\ countdownIdle(win') = 0 /\ win'.shown = shows
         /\ win'.pending = win.pending /\ win'.manifest = win.manifest
         /\ win'.download = win.download /\ win'.waiting = win.waiting
         /\ win'.install = win.install /\ win'.replaced = win.replaced
         /\ win'.callWait = win.callWait /\ win'.counting = win.counting
         /\ win'.graceTimer = win.graceTimer /\ win'.wants = win.wants
         /\ win'.checking = win.checking /\ win'.cancelled = win.cancelled
         /\ win'.active = win.active /\ win'.buttons = win.buttons
         /\ win'.sinceCall = win.sinceCall /\ win'.launches = win.launches
         /\ win'.asked = win.asked
<1>0. win \in Wins /\ 0 \in 0 .. IdleWait
  BY Here, TimesAssumption
<1>1. win' \in Wins
  BY <1>0 DEF Wins
<1>2. win'.sinceInput = 0 /\ win'.sinceReady \in -Grace .. IdleWait
  BY <1>0 DEF Wins
<1>3. countdownIdle(win') = 0
  BY <1>2, TimesAssumption DEF countdownIdle, Least, Most
<1> QED BY <1>0, <1>1, <1>3 DEF Wins

LEMMA DismissedStep ==
  ASSUME IInv, Dismissed
  PROVE  Stepped
<1>1. /\ win' = [win EXCEPT !.sinceInput = 0, !.pending = FALSE, !.active = FALSE, !.shown = FALSE]
      /\ world' = world /\ ticked' = FALSE
      /\ seen' = IF win'.counting THEN seen ELSE 0
  BY Here DEF Dismissed, Becomes, deferUpdate, Touched, Wins
<1>2. win \in Wins /\ 0 \in 0 .. IdleWait
  BY Here, TimesAssumption
<1>3. win' \in Wins
  BY <1>1, <1>2 DEF Wins
<1>4. /\ ~win'.pending /\ win'.manifest = win.manifest
      /\ win'.download = win.download /\ win'.waiting = win.waiting
      /\ win'.install = win.install /\ win'.replaced = win.replaced
      /\ win'.callWait = win.callWait /\ win'.counting = win.counting
      /\ win'.graceTimer = win.graceTimer /\ win'.wants = win.wants
      /\ win'.checking = win.checking /\ win'.cancelled = win.cancelled
      /\ ~win'.active /\ ~win'.shown /\ win'.buttons = win.buttons /\ win'.sinceInput = 0
      /\ win'.sinceCall = win.sinceCall /\ win'.launches = win.launches
      /\ win'.asked = win.asked /\ win'.sinceReady \in -Grace .. IdleWait
  BY <1>1, <1>2 DEF Wins
<1>5. countdownIdle(win') = 0
  BY <1>4, TimesAssumption DEF countdownIdle, Least, Most
<1>6. /\ excused' \subseteq Excuses /\ SwitchedOff' = SwitchedOff /\ (Slept <=> Slept')
      /\ ~Deferred' => ~Deferred /\ win.waiting = NoVersion /\ win.download = NoVersion
  BY DEF Dismissed, SwitchedOff, Deferred, Slept, Excuses, IInv
<1>7. Core(win', world', SwitchedOff', Deferred')
  BY <1>1, <1>3, <1>4, <1>6, Here DEF Core
<1>8. Settled(win', world', Deferred')
  BY <1>1, <1>4, <1>6, Here DEF Settled
<1>9. Near(win, win') /\ Restarted
  BY <1>4, <1>5 DEF Near, Restarted, Restarts
<1>10. world' \in Worlds /\ (Slept \/ Stamped(win', world'))
  <2>1. world' \in Worlds /\ world' = world
    BY <1>1, Here
  <2>2. Slept \/ Stamped(win', world)
    BY <1>2, <1>3, <1>9, Here, StaysStamped
  <2> QED BY <2>1, <2>2
<1> QED BY <1>1, <1>6, <1>7, <1>8, <1>9, <1>10, Concluded

LEMMA TickStep ==
  ASSUME IInv, Tick
  PROVE  Stepped
<1>1. /\ win.counting /\ win' \in CountdownTick(win, world) /\ ticked' = TRUE
      /\ seen' = (IF win'.counting THEN seen ELSE 0) /\ world' = world /\ excused' = excused
  BY DEF Tick, Quietly
<1>2. /\ Core(win', world, SwitchedOff, Deferred) /\ Settled(win', world, Deferred)
      /\ Near(win, win') /\ (win'.counting => Painted(win', world))
      /\ win'.launches # win.launches =>
           /\ win'.launches = 1 /\ win'.asked = win.asked /\ ~win.cancelled
           /\ ~autoInstallBlocked(win, world) /\ countdownIdle(win) >= IdleWait
  BY <1>1, Here, TickIsFine
<1>3. Restarted
  BY <1>1, <1>2 DEF Restarted, Restarts, RunsOut, autoInstallBlocked
<1>4. Slept \/ Stamped(win', world)
  BY <1>2, Here, StaysStamped DEF Core
<1>5. seen' \in 0 .. Final /\ ticked' \in BOOLEAN /\ excused' \subseteq Excuses
  BY <1>1, TimesAssumption DEF IInv
<1>6. IInv' /\ (Slept <=> Slept')
  BY <1>1, <1>2, <1>4, <1>5, Here DEF IInv, SwitchedOff, Deferred, Slept
<1>7. win'.counting => seen' = seen /\ (ticked' => Painted(win', world'))
  BY <1>1, <1>2
<1> QED BY <1>2, <1>3, <1>6, <1>7 DEF Stepped

LEMMA GraceTimerStep ==
  ASSUME IInv, GraceTimerFires
  PROVE  Stepped
<1> DEFINE q == [win EXCEPT !.graceTimer = Off]
<1>1. win.graceTimer = 0 /\ win' \in maybeLaunchPendingInstaller(q, world)
  BY DEF GraceTimerFires, Becomes
<1>2. win.install.kind = "UserAccepted" /\ win \in Wins
  BY <1>1, Here DEF Core, Off
<1>3. q \in Wins
  BY <1>2, Zeros DEF Wins
<1>4. /\ q.pending = win.pending /\ q.manifest = win.manifest
      /\ q.download = win.download /\ q.waiting = win.waiting
      /\ q.install = win.install /\ q.replaced = win.replaced
      /\ q.callWait = win.callWait /\ q.counting = win.counting
      /\ q.graceTimer = Off /\ q.wants = win.wants
      /\ q.checking = win.checking /\ q.cancelled = win.cancelled
      /\ q.shown = win.shown /\ q.active = win.active /\ q.buttons = win.buttons
      /\ q.sinceCall = win.sinceCall /\ q.launches = win.launches
      /\ q.asked = win.asked
  BY <1>2 DEF Wins
<1> HIDE DEF q
<1>5. Core(q, world, SwitchedOff, Deferred) /\ ~q.counting
  BY <1>2, <1>3, <1>4, Here DEF Core
<1>6. Handled(q, win', world, SwitchedOff, Deferred)
  BY <1>1, <1>2, <1>4, <1>5, Here, AcceptedLaunchIsFine
<1>7. Handled(win, win', world, SwitchedOff, Deferred)
  BY <1>4, <1>5, <1>6 DEF Handled, Near
<1> QED BY <1>7, HandlerStep DEF GraceTimerFires

LEMMA CallStep ==
  ASSUME IInv, NEW c \in Calls, CallMoves(c)
  PROVE  Stepped
<1> DEFINE w == IF CallActive(world') THEN [win EXCEPT !.sinceCall = 0] ELSE win
<1>1. /\ world' = [world EXCEPT !.call = c, !.quiet = 0] /\ c \in After(world.call)
      /\ IF w.waiting = NoVersion THEN win' = w ELSE win' \in onCallStateChanged(w, world')
      /\ ticked' = FALSE /\ seen' = (IF win'.counting THEN seen ELSE 0) /\ excused' = excused
  BY DEF CallMoves, Becomes
<1>2. win \in Wins /\ world \in Worlds /\ 0 \in 0 .. Grace
  BY Here, TimesAssumption
<1>3. world' \in Worlds
  BY <1>1, <1>2 DEF Worlds
<1>4. world'.call = c /\ world'.quiet = 0 /\ world'.auto = world.auto
  BY <1>1, <1>2 DEF Worlds
<1>5. w \in Wins
  BY <1>2 DEF Wins
<1>6. /\ w.pending = win.pending /\ w.manifest = win.manifest
      /\ w.download = win.download /\ w.waiting = win.waiting
      /\ w.install = win.install /\ w.replaced = win.replaced
      /\ w.callWait = win.callWait /\ w.counting = win.counting
      /\ w.graceTimer = win.graceTimer /\ w.wants = win.wants
      /\ w.checking = win.checking /\ w.cancelled = win.cancelled
      /\ w.shown = win.shown /\ w.active = win.active /\ w.buttons = win.buttons
      /\ w.sinceInput = win.sinceInput /\ w.sinceReady = win.sinceReady
      /\ w.launches = win.launches /\ w.asked = win.asked
      /\ w.sinceCall = IF CallActive(world') THEN 0 ELSE win.sinceCall
  BY <1>2 DEF Wins
<1> HIDE DEF w
<1>7. Core(w, world', SwitchedOff, Deferred)
  BY <1>4, <1>5, <1>6, Here DEF Core
<1>8. Slept \/ Stamped(w, world')
  <2>1. CASE CallActive(world')
    BY <1>4, <1>6, <2>1 DEF Stamped
  <2>2. ASSUME ~CallActive(world'), Stamped(win, world) PROVE Stamped(w, world')
    <3>1. CallActive(world) /\ (c = "over" => world.call = "talking") /\ c # "talking"
      BY <1>1, <1>4, <2>2 DEF After, CallActive
    <3>2. world.quiet = 0 /\ w.sinceCall = win.sinceCall
      BY <1>6, <2>2, <3>1 DEF Stamped
    <3>3. countdownIdle(w) = countdownIdle(win)
      BY <1>6 DEF countdownIdle
    <3>4. c = "over" => win.sinceCall <= 0
      BY <2>2, <3>1, <3>2 DEF Stamped
    <3>5. win.counting => 0 = Grace \/ countdownIdle(win) <= 0 \/ win.sinceCall <= 0
      BY <2>2, <3>2 DEF Stamped
    <3> QED BY <1>4, <1>6, <2>2, <3>1, <3>2, <3>3, <3>4, <3>5 DEF Stamped
  <2> QED BY <2>1, <2>2, Here
<1>9. countdownIdle(w) = countdownIdle(win) /\ countdownIdle(w) \in Nat
  BY <1>2, <1>6, TimesAssumption DEF countdownIdle, Least, Most, Wins
<1>10. Near(win, w)
  BY <1>6, <1>9 DEF Near
<1>11. win.install.kind = "UserAccepted" => win.graceTimer # Off \/ win.callWait
  BY Here DEF Settled
<1>12. /\ Core(win', world', SwitchedOff, Deferred) /\ Settled(win', world', Deferred)
       /\ Near(win, win') /\ (Slept \/ Stamped(win', world')) /\ Restarted
  <2>1. CASE win.waiting = NoVersion
    <3>1. win' = w /\ w.install.kind = "None"
      BY <1>1, <1>6, <1>7, <2>1 DEF Core
    <3>2. Settled(w, world', Deferred)
      BY <1>6, <3>1, Here DEF Settled
    <3> QED BY <1>6, <1>7, <1>8, <1>10, <3>1, <3>2 DEF Restarted, Restarts
  <2>2. CASE win.waiting # NoVersion
    <3>1. Handled(w, win', world', SwitchedOff, Deferred)
      BY <1>1, <1>3, <1>6, <1>7, <1>11, <2>2, Here, CallChangeIsFine
    <3>2. Restarted
      BY <1>6, <3>1 DEF Handled, Restarted, Restarts
    <3>3. Near(win, win')
      BY <1>6, <1>9, <1>10, <3>1 DEF Near, Handled
    <3>4. win' \in Wins /\ Near(w, win')
      BY <3>1 DEF Handled, Core
    <3>5. Slept \/ Stamped(win', world')
      BY <1>3, <1>5, <1>8, <3>4, StaysStamped
    <3> QED BY <3>1, <3>2, <3>3, <3>5 DEF Handled
  <2> QED BY <2>1, <2>2
<1>13. SwitchedOff' = SwitchedOff /\ Deferred' = Deferred /\ (Slept <=> Slept')
  BY <1>1 DEF SwitchedOff, Deferred, Slept
<1> QED BY <1>1, <1>3, <1>12, <1>13, Concluded DEF IInv

(* The window is left alone or touched while the world changes, not the call. *)
LEMMA WorldStep ==
  ASSUME IInv, Core(win', world', SwitchedOff', Deferred), Settled(win', world, Deferred),
         win'.sinceCall = win.sinceCall, win'.launches = win.launches,
         \/ countdownIdle(win') = 0
         \/ win'.counting = win.counting /\ countdownIdle(win') <= countdownIdle(win),
         world'.call = world.call, world'.quiet = world.quiet, world' \in Worlds,
         excused' \subseteq Excuses, Deferred' = Deferred, Slept <=> Slept',
         seen' = IF win'.counting THEN seen ELSE 0, ticked' = FALSE
  PROVE  Stepped
<1>1. Near(win, win') /\ Restarted
  BY DEF Near, Restarted, Restarts
<1>2. Settled(win', world', Deferred')
  BY DEF Settled, CallActive
<1>3. Slept \/ Stamped(win', world)
  BY <1>1, Here, StaysStamped DEF Core
<1>4. Slept \/ Stamped(win', world')
  BY <1>3 DEF Stamped, CallActive
<1> QED BY <1>1, <1>2, <1>4, Concluded

LEMMA UserInputStep ==
  ASSUME IInv, UserInput
  PROVE  Stepped
<1>1. /\ \E opens \in BOOLEAN :
            win' = [[win EXCEPT !.sinceInput = 0] EXCEPT !.shown = win.shown \/ (opens /\ win.active)]
      /\ \E u \in BOOLEAN : world' = [world EXCEPT !.unsent = u]
      /\ excused' = excused /\ ticked' = FALSE /\ seen' = (IF win'.counting THEN seen ELSE 0)
  BY Here DEF UserInput, Becomes, Touched, Wins
<1>2. PICK opens \in BOOLEAN :
        win' = [[win EXCEPT !.sinceInput = 0] EXCEPT !.shown = win.shown \/ (opens /\ win.active)]
  BY <1>1
<1> DEFINE shows == win.shown \/ (opens /\ win.active)
<1>3. shows \in BOOLEAN
  BY Here DEF Wins
<1>4. win' = [[win EXCEPT !.sinceInput = 0] EXCEPT !.shown = shows]
  BY <1>2
<1>5. shows => win.shown \/ win.active
  OBVIOUS
<1> HIDE DEF shows
<1>6. /\ win' \in Wins /\ countdownIdle(win') = 0 /\ win'.shown = shows
      /\ win'.pending = win.pending /\ win'.manifest = win.manifest
      /\ win'.download = win.download /\ win'.waiting = win.waiting
      /\ win'.install = win.install /\ win'.replaced = win.replaced
      /\ win'.callWait = win.callWait /\ win'.counting = win.counting
      /\ win'.graceTimer = win.graceTimer /\ win'.wants = win.wants
      /\ win'.checking = win.checking /\ win'.cancelled = win.cancelled
      /\ win'.active = win.active /\ win'.buttons = win.buttons
      /\ win'.sinceCall = win.sinceCall /\ win'.launches = win.launches
      /\ win'.asked = win.asked
  BY <1>3, <1>4, TouchIsFine
<1>7. /\ world' \in Worlds /\ world'.auto = world.auto /\ world'.call = world.call
      /\ world'.quiet = world.quiet
  BY <1>1, Here DEF Worlds
<1>8. SwitchedOff' = SwitchedOff /\ Deferred' = Deferred /\ (Slept <=> Slept')
  BY <1>1 DEF SwitchedOff, Deferred, Slept
<1>9. Core(win', world', SwitchedOff', Deferred)
  BY <1>5, <1>6, <1>7, <1>8, Here DEF Core
<1>10. Settled(win', world, Deferred)
  BY <1>6, Here DEF Settled
<1> QED BY <1>1, <1>6, <1>7, <1>8, <1>9, <1>10, WorldStep DEF IInv

LEMMA WorkEndsStep ==
  ASSUME IInv, WorkEnds
  PROVE  Stepped
<1>1. /\ win' = win /\ world' = [world EXCEPT !.unsent = FALSE] /\ excused' = excused
      /\ ticked' = FALSE /\ seen' = (IF win'.counting THEN seen ELSE 0)
  BY DEF WorkEnds, Becomes
<1>2. /\ world' \in Worlds /\ world'.auto = world.auto /\ world'.call = world.call
      /\ world'.quiet = world.quiet
  BY <1>1, Here DEF Worlds
<1>3. countdownIdle(win') <= countdownIdle(win)
  BY <1>1, Here, TimesAssumption DEF countdownIdle, Least, Most, Wins
<1>4. SwitchedOff' = SwitchedOff /\ Deferred' = Deferred /\ (Slept <=> Slept')
  BY <1>1 DEF SwitchedOff, Deferred, Slept
<1>5. Core(win', world', SwitchedOff', Deferred)
  BY <1>1, <1>2, <1>4, Here DEF Core
<1> QED BY <1>1, <1>2, <1>3, <1>4, <1>5, Here, WorldStep DEF IInv

LEMMA SwitchStep ==
  ASSUME IInv, SwitchAutoInstall
  PROVE  Stepped
<1>1. /\ win' = [win EXCEPT !.sinceInput = 0] /\ world' = [world EXCEPT !.auto = ~world.auto]
      /\ ticked' = FALSE /\ seen' = (IF win'.counting THEN seen ELSE 0)
      /\ excused' = IF world.auto /\ win.download # NoVersion /\ "install" \notin win.asked
                    THEN excused \cup {"switchedOff"} ELSE excused
  BY Here DEF SwitchAutoInstall, Becomes, Touched, Worlds
<1>2. win' = [[win EXCEPT !.sinceInput = 0] EXCEPT !.shown = win.shown] /\ win.shown \in BOOLEAN
  BY <1>1, Here DEF Wins
<1> DEFINE shows == win.shown
<1>3. win' = [[win EXCEPT !.sinceInput = 0] EXCEPT !.shown = shows] /\ shows \in BOOLEAN
  BY <1>2
<1>4. shows = win.shown
  OBVIOUS
<1> HIDE DEF shows
<1>5. /\ win' \in Wins /\ countdownIdle(win') = 0 /\ win'.shown = shows
      /\ win'.pending = win.pending /\ win'.manifest = win.manifest
      /\ win'.download = win.download /\ win'.waiting = win.waiting
      /\ win'.install = win.install /\ win'.replaced = win.replaced
      /\ win'.callWait = win.callWait /\ win'.counting = win.counting
      /\ win'.graceTimer = win.graceTimer /\ win'.wants = win.wants
      /\ win'.checking = win.checking /\ win'.cancelled = win.cancelled
      /\ win'.active = win.active /\ win'.buttons = win.buttons
      /\ win'.sinceCall = win.sinceCall /\ win'.launches = win.launches
      /\ win'.asked = win.asked
  BY <1>3, TouchIsFine
<1>6. /\ world' \in Worlds /\ world'.auto = ~world.auto /\ world'.call = world.call
      /\ world'.quiet = world.quiet
  BY <1>1, Here DEF Worlds
<1>7. /\ excused' \subseteq Excuses /\ Deferred' = Deferred /\ (Slept <=> Slept')
      /\ ~SwitchedOff' => /\ ~SwitchedOff
                         /\ ~(world.auto /\ win.download # NoVersion /\ "install" \notin win.asked)
  BY <1>1 DEF SwitchedOff, Deferred, Slept, Excuses, IInv
<1>8. Core(win', world', SwitchedOff', Deferred)
  BY <1>4, <1>5, <1>6, <1>7, Here DEF Core
<1>9. Settled(win', world, Deferred)
  BY <1>5, Here DEF Settled
<1> QED BY <1>1, <1>5, <1>6, <1>7, <1>8, <1>9, WorldStep

(* Time takes nothing away. *)
Later(w, v) ==
  /\ v.graceTimer = Off <=> w.graceTimer = Off
  /\ v.pending = w.pending /\ v.manifest = w.manifest
  /\ v.download = w.download /\ v.waiting = w.waiting
  /\ v.install = w.install /\ v.replaced = w.replaced
  /\ v.callWait = w.callWait /\ v.counting = w.counting
  /\ v.wants = w.wants /\ v.checking = w.checking
  /\ v.cancelled = w.cancelled /\ v.shown = w.shown
  /\ v.active = w.active /\ v.buttons = w.buttons
  /\ v.launches = w.launches /\ v.asked = w.asked

LEMMA Ages ==
  ASSUME NEW w \in Wins, NEW d \in 1 .. IdleWait
  PROVE  LET v == Elapsed(w, d) IN
         /\ v \in Wins /\ Later(w, v)
         /\ v.sinceInput = Least(w.sinceInput + d, IdleWait)
         /\ v.sinceReady = Least(w.sinceReady + d, IdleWait)
         /\ v.sinceCall = Least(w.sinceCall + d, Grace)
<1> DEFINE input == Least(w.sinceInput + d, IdleWait)
           ready == Least(w.sinceReady + d, IdleWait)
           call  == Least(w.sinceCall + d, Grace)
           timer == IF w.graceTimer = Off THEN Off ELSE Most(0, w.graceTimer - d)
           v == [w EXCEPT !.sinceInput = input, !.sinceReady = ready, !.sinceCall = call,
                          !.graceTimer = timer]
<1>1. /\ w.sinceInput \in 0 .. IdleWait /\ w.sinceReady \in -Grace .. IdleWait
      /\ w.sinceCall \in 0 .. Grace /\ w.graceTimer \in Off .. Grace
      /\ d \in Nat \ {0}
  BY TimesAssumption DEF Wins
<1>2. input \in 0 .. IdleWait /\ ready \in -Grace .. IdleWait /\ call \in 0 .. Grace
  BY <1>1, TimesAssumption DEF Least
<1>3. timer \in Off .. Grace /\ (timer = Off <=> w.graceTimer = Off)
  BY <1>1, TimesAssumption DEF Most, Off
<1>4. Elapsed(w, d) = v
  BY DEF Elapsed, Wins
<1> HIDE DEF input, ready, call, timer
<1>5. v \in Wins
  BY <1>2, <1>3 DEF Wins
<1>6. /\ v.sinceInput = input /\ v.sinceReady = ready /\ v.sinceCall = call
      /\ v.graceTimer = timer
      /\ v.pending = w.pending /\ v.manifest = w.manifest
      /\ v.download = w.download /\ v.waiting = w.waiting
      /\ v.install = w.install /\ v.replaced = w.replaced
      /\ v.callWait = w.callWait /\ v.counting = w.counting
      /\ v.wants = w.wants /\ v.checking = w.checking
      /\ v.cancelled = w.cancelled /\ v.shown = w.shown
      /\ v.active = w.active /\ v.buttons = w.buttons
      /\ v.launches = w.launches /\ v.asked = w.asked
  BY DEF Wins
<1> HIDE DEF v
<1>7. Later(w, v)
  BY <1>3, <1>6 DEF Later
<1> QED BY <1>4, <1>5, <1>6, <1>7 DEF input, ready, call

LEMMA Clocks ==
  ASSUME IInv, TimePasses
  PROVE  /\ win' \in Wins /\ Later(win, win')
         /\ win'.sinceInput = IF Busy THEN 0 ELSE Least(win.sinceInput + 1, IdleWait)
         /\ win'.sinceReady = Least(win.sinceReady + 1, IdleWait)
         /\ win'.sinceCall = IF world.call = "talking" THEN 0 ELSE Least(win.sinceCall + 1, Grace)
<1>1. PICK v : v = Elapsed(win, 1)
  OBVIOUS
<1>2. /\ v \in Wins /\ Later(win, v)
      /\ v.sinceInput = Least(win.sinceInput + 1, IdleWait)
      /\ v.sinceReady = Least(win.sinceReady + 1, IdleWait)
      /\ v.sinceCall = Least(win.sinceCall + 1, Grace)
  <2>1. 1 \in 1 .. IdleWait
    BY TimesAssumption
  <2> QED BY <1>1, <2>1, Here, Ages
<1> DEFINE input == IF Busy THEN 0 ELSE v.sinceInput
           call  == IF world.call = "talking" THEN 0 ELSE v.sinceCall
<1>3. win' = [v EXCEPT !.sinceInput = input, !.sinceCall = call]
  BY <1>1, <1>2 DEF TimePasses, Wins
<1>4. input \in 0 .. IdleWait /\ call \in 0 .. Grace
  BY <1>2, TimesAssumption DEF Wins
<1> HIDE DEF input, call
<1>5. win' \in Wins
  BY <1>2, <1>3, <1>4 DEF Wins
<1>6. /\ win'.sinceInput = input /\ win'.sinceReady = v.sinceReady /\ win'.sinceCall = call
      /\ win'.graceTimer = v.graceTimer
      /\ win'.pending = v.pending /\ win'.manifest = v.manifest
      /\ win'.download = v.download /\ win'.waiting = v.waiting
      /\ win'.install = v.install /\ win'.replaced = v.replaced
      /\ win'.callWait = v.callWait /\ win'.counting = v.counting
      /\ win'.wants = v.wants /\ win'.checking = v.checking
      /\ win'.cancelled = v.cancelled /\ win'.shown = v.shown
      /\ win'.active = v.active /\ win'.buttons = v.buttons
      /\ win'.launches = v.launches /\ win'.asked = v.asked
  BY <1>2, <1>3 DEF Wins
<1>7. Later(win, win')
  BY <1>2, <1>6 DEF Later
<1> QED BY <1>2, <1>5, <1>6, <1>7 DEF input, call

LEMMA Hush ==
  ASSUME IInv, NEW d \in 1 .. IdleWait, world' = Quieter(world, d)
  PROVE  /\ world' \in Worlds /\ world'.call = world.call /\ world'.auto = world.auto
         /\ world'.quiet = IF CallActive(world) THEN 0 ELSE Least(world.quiet + d, Grace)
<1> DEFINE quiet == IF CallActive(world) THEN 0 ELSE Least(world.quiet + d, Grace)
<1>1. world.quiet \in 0 .. Grace /\ d \in Nat
  BY Here, TimesAssumption DEF Worlds
<1>2. quiet \in 0 .. Grace
  BY <1>1, TimesAssumption DEF Least
<1>3. world' = [world EXCEPT !.quiet = quiet]
  BY Here DEF Quieter, Worlds
<1> HIDE DEF quiet
<1>4. /\ world' \in Worlds /\ world'.call = world.call /\ world'.auto = world.auto
      /\ world'.quiet = quiet
  BY <1>2, <1>3, Here DEF Worlds
<1> QED BY <1>4 DEF quiet

(* Time launches nothing and leaves Core and Settled alone. *)
LEMMA Lapse ==
  ASSUME IInv, NEW d \in 1 .. IdleWait, world' = Quieter(world, d),
         win' \in Wins, Later(win, win'), SwitchedOff' = SwitchedOff, Deferred' = Deferred,
         excused' \subseteq Excuses, seen' \in 0 .. Final, ticked' = FALSE,
         Slept' \/ Stamped(win', world')
  PROVE  IInv' /\ ~Restarts
<1>1. world' \in Worlds /\ world'.call = world.call /\ world'.auto = world.auto
  BY Hush
<1>2. Core(win', world', SwitchedOff', Deferred')
  BY <1>1, Here DEF Core, Later
<1>3. Settled(win', world', Deferred')
  BY <1>1, Here DEF Settled, CallActive, Later
<1>4. ~Restarts
  BY DEF Restarts, Later
<1> QED BY <1>1, <1>2, <1>3, <1>4 DEF IInv, SwitchedOff, Deferred, Slept

LEMMA TimeStep ==
  ASSUME IInv, TimePasses
  PROVE  IInv' /\ ~Restarts
<1>1. /\ excused' = excused /\ ticked' = FALSE /\ (win.counting => ticked)
      /\ seen' = Least(seen + 1, Final) \/ seen' = 0
      /\ world' = Quieter(world, 1) /\ 1 \in 1 .. IdleWait
  BY TimesAssumption DEF TimePasses
<1>2. /\ world'.call = world.call
      /\ world'.quiet = IF CallActive(world) THEN 0 ELSE Least(world.quiet + 1, Grace)
  BY <1>1, Hush
<1>3. ASSUME Stamped(win, world) PROVE Stamped(win', world')
  <2>1. /\ win'.sinceInput = IF Busy THEN 0 ELSE Least(win.sinceInput + 1, IdleWait)
        /\ win'.sinceReady = Least(win.sinceReady + 1, IdleWait)
        /\ win'.sinceCall = IF world.call = "talking" THEN 0 ELSE Least(win.sinceCall + 1, Grace)
        /\ win'.counting = win.counting
    BY Clocks DEF Later
  <2>2. /\ win.sinceInput \in 0 .. IdleWait /\ win.sinceReady \in -Grace .. IdleWait
        /\ win.sinceCall \in 0 .. Grace /\ world.quiet \in 0 .. Grace
        /\ IdleWait \in Nat \ {0} /\ Grace \in Nat \ {0}
    BY Here, TimesAssumption DEF Wins, Worlds
  <2>3. CASE CallActive(world)
    <3>1. world'.quiet = 0
      BY <1>2, <2>3
    <3>2. world.call = "talking" => win'.sinceCall = 0
      BY <2>1
    <3>3. world.call # "over"
      BY <2>3 DEF CallActive
    <3>4. ASSUME win.counting PROVE countdownIdle(win') <= 0
      <4>1. Busy
        BY <2>3, <3>4 DEF Busy, autoInstallBlocked, blockedOnlyByGrace
      <4>2. win'.sinceInput = 0
        BY <2>1, <4>1
      <4> QED BY <2>1, <2>2, <4>2 DEF countdownIdle, Least, Most
    <3> QED BY <1>2, <2>1, <3>1, <3>2, <3>3, <3>4 DEF Stamped
  <2>4. CASE ~CallActive(world)
    <3>1. world'.quiet = Least(world.quiet + 1, Grace) /\ ~CallActive(world')
      BY <1>2, <2>4 DEF CallActive
    <3>2. win'.sinceCall = Least(win.sinceCall + 1, Grace) /\ world.call # "talking"
      BY <2>1, <2>4 DEF CallActive
    <3>3. win.sinceCall <= world.quiet => win'.sinceCall <= world'.quiet
      BY <2>2, <3>1, <3>2 DEF Least
    <3>4. world.quiet = Grace => world'.quiet = Grace
      BY <2>2, <3>1 DEF Least
    <3>5. ASSUME countdownIdle(win) <= world.quiet
          PROVE  world'.quiet = Grace \/ countdownIdle(win') <= world'.quiet
      <4>1. win'.sinceInput \in Nat /\ win'.sinceInput <= win.sinceInput + 1
        <5>1. Least(win.sinceInput + 1, IdleWait) \in Nat
          BY <2>2 DEF Least
        <5>2. Least(win.sinceInput + 1, IdleWait) <= win.sinceInput + 1
          BY <2>2 DEF Least
        <5>3. win'.sinceInput = 0 \/ win'.sinceInput = Least(win.sinceInput + 1, IdleWait)
          BY <2>1
        <5> QED BY <2>2, <5>1, <5>2, <5>3
      <4>2. win'.sinceReady \in Int /\ win'.sinceReady <= win.sinceReady + 1
        BY <2>1, <2>2 DEF Least
      <4>3. countdownIdle(win') <= countdownIdle(win) + 1
        BY <2>2, <4>1, <4>2 DEF countdownIdle, Least, Most
      <4>4. countdownIdle(win) \in Nat /\ countdownIdle(win') \in Nat
        BY <2>2, <4>1, <4>2 DEF countdownIdle, Least, Most
      <4>5. world'.quiet = Grace \/ world'.quiet = world.quiet + 1
        BY <3>1 DEF Least
      <4> QED BY <2>2, <3>5, <4>3, <4>4, <4>5
    <3>6. world.call = "over" => win.sinceCall <= world.quiet
      BY <1>3 DEF Stamped
    <3>7. win.counting => \/ world.quiet = Grace \/ countdownIdle(win) <= world.quiet
                          \/ win.sinceCall <= world.quiet
      BY <1>3 DEF Stamped
    <3> QED BY <1>2, <2>1, <3>1, <3>2, <3>3, <3>4, <3>5, <3>6, <3>7 DEF Stamped
  <2> QED BY <2>3, <2>4
<1>4. seen' \in 0 .. Final
  <2>1. Least(seen + 1, Final) \in 0 .. Final /\ 0 \in 0 .. Final
    BY TimesAssumption DEF Least, IInv
  <2> QED BY <1>1, <2>1
<1>5. /\ SwitchedOff' = SwitchedOff /\ Deferred' = Deferred /\ excused' \subseteq Excuses
      /\ Slept' \/ Stamped(win', world')
  BY <1>1, <1>3, Here DEF SwitchedOff, Deferred, Slept, IInv
<1> QED BY <1>1, <1>4, <1>5, Clocks, Lapse

LEMMA SleepStep ==
  ASSUME IInv, NEW d \in 1 .. IdleWait, Sleeps(d)
  PROVE  /\ IInv' /\ ~Restarts
         /\ ~Slept' => ~Slept /\ ~win'.counting
<1>1. /\ win' = Elapsed(win, d) /\ world' = Quieter(world, d) /\ seen' = 0 /\ ticked' = FALSE
      /\ excused' = IF win.counting \/ CallActive(world) THEN excused \cup {"slept"} ELSE excused
  BY DEF Sleeps
<1>2. /\ win' \in Wins /\ Later(win, win') /\ win'.counting = win.counting
      /\ win'.sinceCall = Least(win.sinceCall + d, Grace)
  BY <1>1, Here, Ages DEF Later
<1>3. /\ SwitchedOff' = SwitchedOff /\ Deferred' = Deferred /\ excused' \subseteq Excuses
      /\ ~Slept' => ~Slept /\ ~win.counting /\ ~CallActive(world)
  BY <1>1 DEF SwitchedOff, Deferred, Slept, Excuses, IInv
<1>4. ASSUME ~Slept' PROVE Stamped(win', world')
  <2>1. ~win'.counting /\ ~CallActive(world) /\ Stamped(win, world)
    BY <1>2, <1>3, <1>4, Here
  <2>2. /\ world'.call = world.call /\ ~CallActive(world')
        /\ world'.quiet = Least(world.quiet + d, Grace)
    BY <1>1, <2>1, Hush DEF CallActive
  <2>3. win.sinceCall \in Nat /\ world.quiet \in Nat /\ Grace \in Nat /\ d \in Nat
    BY Here, TimesAssumption DEF Wins, Worlds
  <2>4. win.sinceCall <= world.quiet => win'.sinceCall <= world'.quiet
    BY <1>2, <2>2, <2>3 DEF Least
  <2>5. world.call \in {"talking", "over"} => win.sinceCall <= world.quiet
    BY <2>1 DEF Stamped
  <2> QED BY <2>1, <2>2, <2>4, <2>5 DEF Stamped
<1>5. seen' \in 0 .. Final
  BY <1>1, TimesAssumption
<1>6. IInv' /\ ~Restarts
  BY <1>1, <1>2, <1>3, <1>4, <1>5, Lapse
<1> QED BY <1>2, <1>3, <1>6

-----------------------------------------------------------------------------
(* The theorems. *)

LEMMA EveryStep ==
  ASSUME IInv, Next
  PROVE  Stepped \/ TimePasses \/ \E d \in 1 .. IdleWait : Sleeps(d)
<1>1. CASE \E n \in Versions : Offer(n)
  BY <1>1, OfferStep
<1>2. CASE Progress
  BY <1>2, ProgressStep
<1>3. CASE DownloadFails \/ DownloadLands
  BY <1>3, DownloadSteps
<1>4. CASE InstallClicked
  BY <1>4, InstallClickedStep
<1>5. CASE UpdateNow
  BY <1>5, UpdateNowStep
<1>6. CASE UpToDate
  BY <1>6, UpToDateStep
<1>7. CASE CancelAutoInstall
  BY <1>7, CancelStep
<1>8. CASE LaterClicked \/ CloseClicked
  BY <1>8, DismissedStep DEF LaterClicked, CloseClicked
<1>9. CASE Tick
  BY <1>9, TickStep
<1>10. CASE GraceTimerFires
  BY <1>10, GraceTimerStep
<1>11. CASE \E c \in Calls : CallMoves(c)
  BY <1>11, CallStep
<1>12. CASE UserInput
  BY <1>12, UserInputStep
<1>13. CASE WorkEnds
  BY <1>13, WorkEndsStep
<1>14. CASE SwitchAutoInstall
  BY <1>14, SwitchStep
<1> QED BY <1>1, <1>2, <1>3, <1>4, <1>5, <1>6, <1>7, <1>8, <1>9, <1>10, <1>11, <1>12,
           <1>13, <1>14 DEF Next

LEMMA Starts == Init => IInv /\ ~win.counting
<1> SUFFICES ASSUME Init PROVE IInv /\ ~win.counting
  OBVIOUS
<1>1. win \in Wins /\ world \in Worlds
  <2>1. Grace \in 0 .. Grace /\ 0 \in Nat
    BY TimesAssumption
  <2>2. win \in Wins
    BY <2>1, Zeros, ZenonT(60) DEF Init, Wins
  <2>3. world \in Worlds
    BY <2>1 DEF Init, Worlds, Calls
  <2> QED BY <2>2, <2>3
<1>2. /\ win.waiting = NoVersion /\ win.install.kind = "None" /\ win.download = NoVersion
      /\ win.replaced.kind = "None" /\ ~win.counting /\ win.asked = {} /\ ~win.checking
      /\ win.launches = 0 /\ win.sinceCall = Grace /\ ~win.pending /\ ~win.cancelled
      /\ win.graceTimer = Off /\ ~win.callWait /\ ~win.shown /\ ~win.active
  BY Zeros DEF Init
<1>3. Core(win, world, SwitchedOff, Deferred) /\ Settled(win, world, Deferred)
  BY <1>1, <1>2 DEF Core, Settled
<1>4. Stamped(win, world)
  <2>1. world.call = "none" /\ world.quiet = Grace
    BY DEF Init
  <2> QED BY <1>2, <2>1 DEF Stamped, CallActive
<1>5. ticked \in BOOLEAN /\ seen \in 0 .. Final /\ excused \subseteq Excuses
  <2>1. 0 \in 0 .. Final
    BY TimesAssumption
  <2> QED BY <2>1 DEF Init
<1> QED BY <1>1, <1>2, <1>3, <1>4, <1>5 DEF IInv, SwitchedOff, Deferred

LEMMA KeepsIInv == IInv /\ [Next]_vars => IInv'
<1> SUFFICES ASSUME IInv, [Next]_vars PROVE IInv'
  OBVIOUS
<1>1. CASE Next
  BY <1>1, EveryStep, TimeStep, SleepStep DEF Stepped
<1>2. CASE UNCHANGED vars
  BY <1>2 DEF IInv, vars
<1> QED BY <1>1, <1>2

THEOREM SpecIInv == Spec => []IInv
BY Starts, KeepsIInv, PTL DEF Spec

(* For any versions, any times and any sleep of the machine every member   *)
(* has its type; an automatic install never keeps an explicit request.     *)
THEOREM SpecTypeOK == Spec => []TypeOK
<1>1. IInv => TypeOK
  BY DEF IInv, Core, TypeOK
<1> QED BY <1>1, SpecIInv, PTL

(* No waiting installer hangs and no request is forgotten, whatever events *)
(* come in whatever order.                                                 *)
THEOREM SpecWaitingHasANextStep == Spec => []WaitingHasANextStep
<1>1. IInv => WaitingHasANextStep
  <2> SUFFICES ASSUME IInv PROVE WaitingHasANextStep
    OBVIOUS
  <2>1. Core(win, world, SwitchedOff, Deferred) /\ Settled(win, world, Deferred)
    BY Here
  <2> QED BY <2>1 DEF WaitingHasANextStep, Core, Settled, Running, Deferred
<1> QED BY <1>1, SpecIInv, PTL

(* At most one installer is started, never in a call; one nobody asked for *)
(* keeps away from calls, unsent work and a session that cancelled it, for *)
(* any idle wait and any grace.                                            *)
THEOREM SpecNoSurpriseRestart == Spec => NoSurpriseRestart
<1> DEFINE Apart == /\ world'.quiet >= Least(IdleWait, Grace)
                    /\ world'.call = "over" => world'.quiet = Grace
           Gentle == Restarts =>
       /\ win'.launches = 1
       /\ ~CallActive(world')
       /\ win'.asked = {} /\ "switchedOff" \notin excused =>
            /\ ~world'.unsent /\ ~win.cancelled
            /\ "slept" \notin excused => Apart
<1>1. ASSUME IInv, Next PROVE Gentle
  <2>1. CASE Stepped
    <3> SUFFICES ASSUME Restarts PROVE Gentle
      OBVIOUS
    <3>1. /\ win'.launches = 1 /\ ~CallActive(world')
          /\ SwitchedOff \/ "install" \in win'.asked \/ RunsOut
      BY <2>1 DEF Stepped, Restarted
    <3>2. ASSUME RunsOut PROVE ~world'.unsent /\ ~win.cancelled /\ (Slept \/ Apart)
      <4>1. /\ world' = world /\ ~world.unsent /\ ~win.cancelled /\ win.counting
            /\ ~(win.sinceCall < Grace) /\ countdownIdle(win) >= IdleWait
        BY <3>2 DEF RunsOut, autoInstallBlocked, WithinGrace
      <4>2. /\ win.sinceCall \in Nat /\ world.quiet \in 0 .. Grace /\ Grace \in Nat
            /\ IdleWait \in Nat /\ countdownIdle(win) \in Nat
        BY <1>1, Here, TimesAssumption DEF Wins, Worlds, countdownIdle, Least, Most
      <4>3. ASSUME Stamped(win, world) PROVE Apart
        <5>1. \/ world.quiet = Grace \/ countdownIdle(win) <= world.quiet
              \/ win.sinceCall <= world.quiet
          BY <4>1, <4>3 DEF Stamped
        <5>2. world.quiet >= Least(IdleWait, Grace)
          BY <4>1, <4>2, <5>1 DEF Least
        <5>3. world.call = "over" => win.sinceCall <= world.quiet
          BY <4>3 DEF Stamped
        <5>4. world.call = "over" => world.quiet = Grace
          BY <4>1, <4>2, <5>3
        <5> QED BY <4>1, <5>2, <5>4
      <4> QED BY <1>1, <4>1, <4>3, Here
    <3> HIDE DEF Apart
    <3> QED BY <3>1, <3>2 DEF SwitchedOff, Slept
  <2>2. CASE TimePasses \/ \E d \in 1 .. IdleWait : Sleeps(d)
    BY <1>1, <2>2, TimeStep, SleepStep
  <2> QED BY <1>1, <2>1, <2>2, EveryStep
<1>2. ASSUME UNCHANGED vars PROVE Gentle
  BY <1>2 DEF Restarts, vars
<1>3. IInv /\ [Next]_vars => [Gentle]_vars
  BY <1>1, <1>2
<1>4. Spec => [][Gentle]_vars
  BY <1>3, SpecIInv, PTL DEF Spec
<1> QED BY <1>4 DEF NoSurpriseRestart

LEMMA TimeCounts ==
  ASSUME IInv, Counted, win.counting, TimePasses, ~Slept
  PROVE  countdownIdle(win') + Final <= IdleWait + seen'
<1>1. /\ win.sinceInput \in 0 .. IdleWait /\ win.sinceReady \in -Grace .. IdleWait
      /\ win.sinceCall \in 0 .. Grace /\ seen \in 0 .. Final /\ "later" \in win.buttons
  BY Here DEF Wins, IInv, Core
<1>2. /\ IdleWait \in Nat \ {0} /\ Final \in 1 .. IdleWait /\ Grace \in Nat \ {0}
  BY TimesAssumption
<1>3. /\ ticked /\ seen' = IF OnScreen THEN Least(seen + 1, Final) ELSE 0
  BY DEF TimePasses
<1>4. /\ win'.sinceInput = IF Busy THEN 0 ELSE Least(win.sinceInput + 1, IdleWait)
      /\ win'.sinceReady = Least(win.sinceReady + 1, IdleWait)
  BY Clocks
<1>5. win'.sinceInput \in 0 .. IdleWait /\ win'.sinceInput <= win.sinceInput + 1
  <2>1. Least(win.sinceInput + 1, IdleWait) \in 0 .. IdleWait
    BY <1>1, <1>2 DEF Least
  <2>2. Least(win.sinceInput + 1, IdleWait) <= win.sinceInput + 1
    BY <1>1, <1>2 DEF Least
  <2>3. win'.sinceInput = 0 \/ win'.sinceInput = Least(win.sinceInput + 1, IdleWait)
    BY <1>4
  <2> QED BY <1>1, <1>2, <2>1, <2>2, <2>3
<1>6. /\ countdownIdle(win) \in 0 .. IdleWait /\ countdownIdle(win') \in 0 .. IdleWait
      /\ countdownIdle(win') <= countdownIdle(win) + 1
  BY <1>1, <1>2, <1>4, <1>5 DEF countdownIdle, Least, Most
<1>7. seen' \in 0 .. Final
  <2>1. Least(seen + 1, Final) \in 0 .. Final /\ 0 \in 0 .. Final
    BY <1>1, <1>2 DEF Least
  <2>2. seen' = Least(seen + 1, Final) \/ seen' = 0
    BY <1>3
  <2> QED BY <2>1, <2>2
<1>8. countdownIdle(win) + Final <= IdleWait + seen /\ Painted(win, world)
  BY <1>3 DEF Counted, Slept
<1>9. CASE autoInstallBlocked(win, world) /\ ~blockedOnlyByGrace(win, world)
  <2>1. win'.sinceInput = 0
    BY <1>4, <1>9 DEF Busy
  <2>2. countdownIdle(win') = 0
    BY <1>1, <1>2, <1>4, <2>1 DEF countdownIdle, Least, Most
  <2>4. Final \in Nat /\ Final <= IdleWait /\ seen' \in Nat /\ IdleWait \in Nat
    BY <1>2, <1>7
  <2>3. \A i, f, n \in Nat : f <= i => 0 + f <= i + n
    OBVIOUS
  <2> QED BY <2>2, <2>3, <2>4
<1>10. CASE blockedOnlyByGrace(win, world) /\ win.sinceReady <= readyAfterGrace(win)
  <2>1. win.sinceCall < Grace
    BY <1>10 DEF blockedOnlyByGrace, WithinGrace
  <2>2. win.sinceReady <= IdleWait - Final - (Grace - win.sinceCall)
    BY <1>1, <1>2, <1>10 DEF readyAfterGrace, Least
  <2>3. win.sinceReady + 1 <= IdleWait - Final
    BY <1>1, <1>2, <2>1, <2>2
  <2>4. win'.sinceReady <= IdleWait - Final /\ win'.sinceReady \in Int
    BY <1>1, <1>2, <1>4, <2>3 DEF Least
  <2>5. countdownIdle(win') <= IdleWait - Final
    BY <1>2, <1>5, <2>4 DEF countdownIdle, Least, Most
  <2> QED BY <1>2, <1>6, <1>7, <2>5
<1>11. CASE InCountdown(win) => win.shown /\ win.final
  <2>1. CASE InCountdown(win)
    <3>1. seen' = Least(seen + 1, Final)
      BY <1>1, <1>3, <1>11, <2>1 DEF OnScreen
    <3>2. CASE seen' = Final
      BY <1>2, <1>6, <3>2
    <3>3. CASE seen' = seen + 1
      BY <1>1, <1>2, <1>6, <1>8, <3>3
    <3> QED BY <3>1, <3>2, <3>3 DEF Least
  <2>2. CASE ~InCountdown(win)
    <3>1. countdownIdle(win) + 1 <= IdleWait - Final
      BY <1>2, <1>6, <2>2 DEF InCountdown
    <3> QED BY <1>2, <1>6, <1>7, <3>1
  <2> QED BY <2>1, <2>2
<1> QED BY <1>8, <1>9, <1>10, <1>11 DEF Painted

LEMMA KeepsCounted == IInv /\ Counted /\ [Next]_vars => Counted'
<1> SUFFICES ASSUME IInv, Counted, [Next]_vars PROVE Counted'
  OBVIOUS
<1>1. CASE Stepped
  <2> SUFFICES ASSUME win'.counting, ~Slept
               PROVE  /\ countdownIdle(win') + Final <= IdleWait + seen'
                      /\ ticked' => Painted(win', world')
    BY <1>1 DEF Counted, Stepped, Slept
  <2>1. /\ seen' = seen /\ (ticked' => Painted(win', world')) /\ win' \in Wins
        /\ \/ countdownIdle(win') = 0
           \/ win.counting /\ countdownIdle(win') <= countdownIdle(win)
    BY <1>1 DEF Stepped, Near, IInv, Core
  <2>2. /\ countdownIdle(win) \in Nat /\ countdownIdle(win') \in Nat
        /\ seen \in Nat /\ Final \in Nat /\ IdleWait \in Nat /\ Final <= IdleWait
    BY <2>1, Here, TimesAssumption DEF countdownIdle, Least, Most, Wins, IInv
  <2>3. win.counting => countdownIdle(win) + Final <= IdleWait + seen
    BY DEF Counted, Slept
  <2> QED BY <2>1, <2>2, <2>3
<1>2. CASE TimePasses
  <2>1. ticked' = FALSE /\ excused' = excused
    BY <1>2 DEF TimePasses
  <2>2. win'.counting => win.counting
    BY <1>2, Clocks DEF Later
  <2> QED BY <1>2, <2>1, <2>2, TimeCounts DEF Counted, Slept
<1>3. CASE \E d \in 1 .. IdleWait : Sleeps(d)
  BY <1>3, SleepStep DEF Counted, Slept
<1>4. CASE UNCHANGED vars
  BY <1>4 DEF Counted, vars
<1> QED BY <1>1, <1>2, <1>3, <1>4, EveryStep

(* A restart nobody asked for comes only after the last minute stood on    *)
(* the screen with its cancel button, unless the machine slept.            *)
THEOREM SpecCountdownSeen == Spec => CountdownSeen
<1> DEFINE Seen == Restarts /\ win'.asked = {} /\ excused \cap {"switchedOff", "slept"} = {}
                     => seen = Final
<1>1. ASSUME IInv, Counted, Next PROVE Seen
  <2>1. CASE Stepped
    <3> SUFFICES ASSUME Restarts, win'.asked = {}, ~SwitchedOff, ~Slept PROVE seen = Final
      BY DEF SwitchedOff, Slept
    <3>1. RunsOut
      BY <2>1 DEF Stepped, Restarted
    <3>2. countdownIdle(win) >= IdleWait /\ countdownIdle(win) + Final <= IdleWait + seen
      BY <1>1, <3>1 DEF RunsOut, Counted, Slept
    <3>3. countdownIdle(win) \in Nat /\ seen \in 0 .. Final /\ Final \in Nat /\ IdleWait \in Nat
      BY <1>1, Here, TimesAssumption DEF countdownIdle, Least, Most, Wins, IInv
    <3> QED BY <3>2, <3>3
  <2>2. CASE TimePasses \/ \E d \in 1 .. IdleWait : Sleeps(d)
    BY <1>1, <2>2, TimeStep, SleepStep
  <2> QED BY <1>1, <2>1, <2>2, EveryStep
<1>2. ASSUME UNCHANGED vars PROVE Seen
  BY <1>2 DEF Restarts, vars
<1>3. IInv /\ Counted /\ [Next]_vars => [Seen]_vars
  BY <1>1, <1>2
<1>4. Init => Counted
  BY Starts DEF Counted
<1>5. Spec => []Counted
  BY <1>4, KeepsCounted, SpecIInv, PTL DEF Spec
<1>6. Spec => [][Seen]_vars
  BY <1>3, <1>5, SpecIInv, PTL DEF Spec
<1> QED BY <1>6 DEF CountdownSeen
=============================================================================
