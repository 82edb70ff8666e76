--------------------------- MODULE UpdateInstall ---------------------------
(***************************************************************************)
(* A downloaded update and the moment it may restart the program: the      *)
(* update part of MainWindow, UpdateChecker and the decisions of           *)
(* UpdateInstallGatePolicy.                                                *)
(*                                                                         *)
(* A handler runs to its end on the user interface thread.  Handlers call  *)
(* one another after having changed something, a file may not open and an  *)
(* installer may not start, so a handler is an operator from the state of  *)
(* the window (w) and of the world (e) to the set of states it may leave.  *)
(* Moments are kept as ages, in a unit that is long against the countdown's *)
(* tick of one second and the 9 s of "Update now".                         *)
(***************************************************************************)
EXTENDS Integers, FiniteSets

CONSTANTS Versions,    \* versions the channel may offer, all to be installed
          NoVersion,
          IdleWait,    \* updates/autoInstallIdleMinutes
          Final,       \* kAutoInstallFinalCountdownMs
          Grace,       \* kPostCallInstallGraceMs
          Preview      \* kPreviewIdleMs

ASSUME VersionsAssumption == NoVersion \notin Versions
ASSUME TimesAssumption ==
  /\ IdleWait \in Nat \ {0} /\ Final \in 1 .. IdleWait
  /\ Grace \in Nat \ {0} /\ Preview \in Nat

VARIABLES
  win,      \* the members of MainWindow and UpdateChecker, and `asked`:
            \* (history) whether the user asked for the install under way
  world,    \* the call, unsent work, the setting
  ticked,   \* whether the countdown has looked since anything changed
  seen,     \* (history) for how long the countdown has been on screen
  excused   \* (history) events the properties except by name

vars == <<win, world, ticked, seen, excused>>

Kinds == {"None", "Automatic", "UserAccepted", "AwaitingUser"}
Install(kind, explicit) == [kind |-> kind, explicit |-> explicit]
NoInstall == Install("None", FALSE)
Both == {"install", "later"}
Off == -1

Offers == Versions \cup {NoVersion}
Installs == {i \in [kind : Kinds, explicit : BOOLEAN] : i.explicit => i.kind = "UserAccepted"}

Wins ==
  [pending : BOOLEAN, manifest : Offers, download : Offers, waiting : Offers,
   install : Installs, replaced : Installs, callWait : BOOLEAN, counting : BOOLEAN,
   graceTimer : Off .. Grace, wants : BOOLEAN, checking : BOOLEAN, cancelled : BOOLEAN,
   offered : Offers, relaunched : BOOLEAN, active : BOOLEAN, shown : BOOLEAN,
   final : BOOLEAN, buttons : SUBSET Both, sinceInput : 0 .. IdleWait,
   sinceReady : -Grace .. IdleWait, sinceCall : 0 .. Grace, launches : Nat,
   asked : SUBSET {"install", "now"}]

(* A call has a heartbeat once it has gone from Connecting to Active        *)
(* ("talking"), and none while it rings, dials, connects, or has become     *)
(* Active by way of Reconnecting ("silent").  Without a call, "over" says   *)
(* that the last one ended with its heartbeat on.                           *)
Calls == {"none", "silent", "talking", "over"}
Worlds == [call : Calls, unsent : BOOLEAN, auto : BOOLEAN, quiet : 0 .. Grace]
Excuses == {"deferred", "switchedOff", "slept"}

Least(a, b) == IF a <= b THEN a ELSE b
Most(a, b) == IF a <= b THEN b ELSE a

-----------------------------------------------------------------------------
(* Gates and decisions of the policy header. *)

CallActive(e) == e.call \in {"silent", "talking"}
WithinGrace(w) == w.sinceCall < Grace

\* (fault) Forgets drafts, staged files and unconfirmed messages.
BlockedByCalls(w, e) == CallActive(e) \/ WithinGrace(w)
autoInstallBlocked(w, e) == CallActive(e) \/ WithinGrace(w) \/ e.unsent
blockedOnlyByGrace(w, e) == WithinGrace(w) /\ ~CallActive(e) /\ ~e.unsent

countdownIdle(w) == Least(w.sinceInput, Most(0, w.sinceReady))
InCountdown(w) == IdleWait - countdownIdle(w) <= Final

\* (fault) Only leaves the idle time alone.
ReadyUnmoved(w) == w.sinceReady

(* The anchor moves so far that the final countdown fits after the grace. *)
readyAfterGrace(w) ==
  Least(w.sinceReady, IdleWait - Final - (Grace - w.sinceCall))

downloadOffered(w, e, isNew) ==
  isNew /\ ((e.auto /\ ~w.cancelled) \/ w.replaced.kind = "UserAccepted")

\* (fault) Carries the explicit flag over to an automatic install.
LandsStillExplicit(w, e) ==
  IF w.wants \/ w.replaced.kind = "UserAccepted"
  THEN Install("UserAccepted", w.wants \/ w.replaced.explicit)
  ELSE IF ~w.cancelled /\ (e.auto \/ w.replaced.kind = "Automatic")
       THEN Install("Automatic", w.asked # {})
       ELSE Install("UserAccepted", FALSE)

installWhenDownloadLands(w, e) ==
  IF w.wants \/ w.replaced.kind = "UserAccepted"
  THEN Install("UserAccepted", w.wants \/ w.replaced.explicit)
  ELSE IF ~w.cancelled /\ (e.auto \/ w.replaced.kind = "Automatic")
       THEN Install("Automatic", FALSE)
       ELSE Install("UserAccepted", FALSE)

kindAfterCancel(kind) == IF kind = "Automatic" THEN "AwaitingUser" ELSE kind

beforeLaunch(w, e) ==
  CASE w.install.kind \in {"None", "AwaitingUser"} -> "Hold"
    [] w.install.kind = "Automatic" ->
         IF autoInstallBlocked(w, e) THEN "Resume" ELSE "Launch"
    [] w.install.kind = "UserAccepted" ->
         IF CallActive(e) THEN "WaitForCall"
         ELSE IF ~w.install.explicit /\ WithinGrace(w) THEN "WaitForGrace"
         ELSE "Launch"

-----------------------------------------------------------------------------
(* UpdateChecker. *)

(* downloadFailed as MainWindow takes it. *)
downloadFailed(w) ==
  [w EXCEPT !.download = NoVersion, !.replaced = NoInstall, !.wants = FALSE,
            !.checking = FALSE, !.buttons = Both, !.final = FALSE, !.asked = {}]

(* An earlier download is aborted without a word; the file may not open. *)
startDownload(w) == {[w EXCEPT !.download = w.manifest], downloadFailed(w)}

(* acceptUpdate and retryDownload *)
acceptUpdate(w) == IF w.pending THEN startDownload(w) ELSE {w}
deferUpdate(w) == [w EXCEPT !.pending = FALSE]

-----------------------------------------------------------------------------
(* The countdown and the launch. *)

(* What a tick does before it may launch.  startAutoInstallCountdown calls  *)
(* the tick too, but has just set the anchor to now, so no launch follows.  *)
Paint(w, e) ==
  IF autoInstallBlocked(w, e)
  THEN IF blockedOnlyByGrace(w, e)
       THEN [w EXCEPT !.sinceReady = readyAfterGrace(w), !.shown = FALSE, !.final = FALSE]
       ELSE [w EXCEPT !.sinceInput = 0, !.shown = FALSE, !.final = FALSE]
  ELSE IF countdownIdle(w) < Preview /\ ~InCountdown(w)
       THEN [w EXCEPT !.shown = FALSE]
       ELSE [w EXCEPT !.shown = TRUE, !.final = InCountdown(w)]

startAutoInstallCountdown(w, e) ==
  Paint([w EXCEPT !.counting = TRUE, !.sinceReady = 0, !.active = TRUE,
                  !.shown = TRUE, !.buttons = Both, !.final = FALSE], e)

resumeAutoInstallCountdown(w, e) ==
  LET v == [w EXCEPT !.graceTimer = Off, !.callWait = FALSE]
  IN  IF w.waiting = NoVersion \/ w.install.kind # "Automatic" THEN w
      ELSE IF w.counting THEN v ELSE startAutoInstallCountdown(v, e)

replaceWaitingInstaller(w) ==
  [w EXCEPT !.replaced = w.install, !.waiting = NoVersion, !.install = NoInstall,
            !.callWait = FALSE, !.counting = FALSE, !.graceTimer = Off]

(* The installer runs; the program quits half a second later. *)
Launched(w) ==
  [w EXCEPT !.launches = @ + 1, !.waiting = NoVersion, !.install = NoInstall,
            !.callWait = FALSE, !.counting = FALSE]

(* It does not start: downloaded again once, then handed to the user. *)
LaunchFails(w) ==
  LET r == replaceWaitingInstaller(w)
  IN  IF ~w.relaunched THEN acceptUpdate([r EXCEPT !.relaunched = TRUE])
      ELSE {[r EXCEPT !.replaced = NoInstall, !.buttons = @ \cup {"install"}, !.asked = {}]}

maybeLaunchPendingInstaller(w, e) ==
  LET v == [w EXCEPT !.graceTimer = Off]
      d == beforeLaunch(v, e)
  IN  IF w.waiting = NoVersion THEN {w}
      ELSE CASE d = "Hold"         -> {v}
             [] d = "Resume"       -> {resumeAutoInstallCountdown(v, e)}
             [] d = "WaitForCall"  -> {[v EXCEPT !.sinceCall = 0, !.callWait = TRUE]}
             [] d = "WaitForGrace" -> {[v EXCEPT !.graceTimer = Grace - v.sinceCall]}
             [] d = "Launch"       -> {Launched(v)} \cup LaunchFails(v)

(* onUpdateAutoInstallTick *)
CountdownTick(w, e) ==
  LET p == Paint(w, e)
  IN  IF ~autoInstallBlocked(w, e) /\ countdownIdle(w) >= IdleWait
      THEN maybeLaunchPendingInstaller([p EXCEPT !.counting = FALSE, !.buttons = {}], e)
      ELSE {p}

(* onUpdateReadyToLaunch *)
ReadyToLaunch(w, e) ==
  LET i == installWhenDownloadLands(w, e)
      v == [w EXCEPT !.waiting = w.download, !.download = NoVersion, !.install = i,
                     !.replaced = NoInstall, !.callWait = FALSE, !.graceTimer = Off,
                     !.counting = @ /\ i.kind = "Automatic", !.final = FALSE,
                     !.wants = FALSE, !.checking = @ /\ ~w.wants,
                     !.asked = IF i.kind = "Automatic" THEN {}
                                ELSE IF w.wants THEN {"install"} ELSE @]
  IN  IF i.kind = "Automatic" THEN {startAutoInstallCountdown(v, e)}
      ELSE maybeLaunchPendingInstaller([v EXCEPT !.buttons = {}], e)

\* (fault) A call ending never retries.
CallMovedCountdownOnly(w, e) ==
  IF w.install.kind = "Automatic" THEN {resumeAutoInstallCountdown(w, e)} ELSE {w}

onCallStateChanged(w, e) ==
  CASE w.install.kind = "Automatic" -> {resumeAutoInstallCountdown(w, e)}
    [] w.install.kind = "UserAccepted" /\ w.callWait /\ ~CallActive(e) ->
         maybeLaunchPendingInstaller(w, e)
    [] OTHER -> {w}

(* An explicit request for the installer that waits. *)
InstallWaiting(w, e) ==
  maybeLaunchPendingInstaller(
    [w EXCEPT !.counting = FALSE, !.buttons = {}, !.final = FALSE,
              !.install = Install("UserAccepted", TRUE)], e)

-----------------------------------------------------------------------------
(* Steps. *)

Init ==
  /\ win = [pending |-> FALSE, manifest |-> NoVersion, download |-> NoVersion,
            waiting |-> NoVersion, install |-> NoInstall, replaced |-> NoInstall,
            callWait |-> FALSE, counting |-> FALSE, graceTimer |-> Off,
            wants |-> FALSE, checking |-> FALSE, cancelled |-> FALSE,
            offered |-> NoVersion, relaunched |-> FALSE, active |-> FALSE,
            shown |-> FALSE, final |-> FALSE, buttons |-> {}, sinceInput |-> 0,
            sinceReady |-> 0, sinceCall |-> Grace, launches |-> 0, asked |-> {}]
  /\ world \in [call : {"none"}, unsent : {FALSE}, auto : BOOLEAN, quiet : {Grace}]
  /\ ticked = FALSE /\ seen = 0 /\ excused = {}

(* Half a second is too short for a download, for time to pass, and for    *)
(* what else the program does; what may re-enter the launch still happens. *)
Running == win.launches = 0

(* Effects of a handler on the history: a countdown that ends is forgotten. *)
Becomes(S) ==
  /\ win' \in S
  /\ seen' = IF win'.counting THEN seen ELSE 0
  /\ ticked' = FALSE

Quietly == UNCHANGED <<world, excused>>

Touched == [win EXCEPT !.sinceInput = 0]
Asking(w, what) == [w EXCEPT !.asked = @ \cup {what}]

(* updateAvailable, from the five-minute poll or "Update now" *)
OfferTo(w0, v, e) ==
  LET isNew == v # w0.offered
      w1 == [w0 EXCEPT !.manifest = v, !.pending = TRUE, !.offered = v,
                       !.relaunched = @ /\ ~isNew]
      replaces == isNew /\ w0.waiting # NoVersion
      w2 == IF replaces THEN replaceWaitingInstaller(w1) ELSE w1
      forced == w2.wants /\ w2.checking
      Banner(w) == [w EXCEPT !.buttons = Both, !.active = TRUE, !.shown = TRUE, !.final = FALSE]
      Rest(w) == IF ~forced /\ downloadOffered(w, e, isNew) THEN acceptUpdate(w)
                 ELSE IF replaces /\ ~forced THEN {[w EXCEPT !.replaced = NoInstall]}
                 ELSE {w}
  IN  UNION {Rest(Banner(w)) :
             w \in IF forced THEN acceptUpdate([w2 EXCEPT !.checking = FALSE, !.asked = {"install"}])
                  ELSE {w2}}

Offer(v) == Running /\ Becomes(OfferTo(win, v, world)) /\ Quietly

Progress ==
  /\ Running /\ win.download # NoVersion
  /\ Becomes({[win EXCEPT !.buttons = {}, !.final = FALSE]}) /\ Quietly

DownloadFails ==
  Running /\ win.download # NoVersion /\ Becomes({downloadFailed(win)}) /\ Quietly

DownloadLands ==
  Running /\ win.download # NoVersion /\ Becomes(ReadyToLaunch(win, world)) /\ Quietly

InstallClicked ==
  /\ "install" \in win.buttons /\ win.shown
  /\ Becomes(IF win.waiting # NoVersion
             THEN InstallWaiting(Asking(Touched, "install"), world)
             ELSE acceptUpdate(Asking(Touched, "install")))
  /\ Quietly

UpdateNow ==
  /\ Becomes(IF win.waiting # NoVersion
             THEN InstallWaiting(Asking(Touched, "install"), world)
             ELSE {[Asking(Touched, "now") EXCEPT !.wants = TRUE, !.checking = TRUE]})
  /\ Quietly

(* The 9 s feedback of "Update now" *)
UpToDate ==
  /\ win.checking
  /\ Becomes({[win EXCEPT !.checking = FALSE, !.wants = FALSE, !.asked = @ \ {"now"}]})
  /\ Quietly

CancelAutoInstall ==
  /\ "later" \in win.buttons /\ win.shown /\ win.counting
  /\ Becomes({[Touched EXCEPT !.counting = FALSE, !.cancelled = TRUE, !.final = FALSE,
                              !.install = Install(kindAfterCancel(@.kind), @.explicit),
                              !.graceTimer = Off,
                              !.callWait = FALSE, !.buttons = @ \cup {"install"},
                              !.asked = {}]})
  /\ Quietly

Dismissed ==
  /\ Becomes({[deferUpdate(Touched) EXCEPT !.active = FALSE, !.shown = FALSE]})
  /\ excused' = IF win.waiting = NoVersion /\ win.download = NoVersion THEN excused
                ELSE excused \cup {"deferred"}
  /\ UNCHANGED world

LaterClicked == "later" \in win.buttons /\ win.shown /\ ~win.counting /\ Dismissed
CloseClicked == win.shown /\ Dismissed

Tick ==
  /\ win.counting /\ ~ticked
  /\ win' \in CountdownTick(win, world)
  /\ ticked' = TRUE
  /\ seen' = IF win'.counting THEN seen ELSE 0
  /\ Quietly

GraceTimerFires ==
  /\ win.graceTimer = 0
  /\ Becomes(maybeLaunchPendingInstaller([win EXCEPT !.graceTimer = Off], world))
  /\ Quietly

(* Nothing ends the heartbeat but the end of the call. *)
After(call) ==
  CASE call = "silent"  -> {"silent", "talking", "none"}
    [] call = "talking" -> {"talking", "over"}
    [] OTHER            -> {"silent"}

(* stateChanged: the stamp first, then the pending installer *)
CallMoves(c) ==
  /\ c \in After(world.call)
  /\ world' = [world EXCEPT !.call = c, !.quiet = 0]
  /\ LET w == IF CallActive(world') THEN [win EXCEPT !.sinceCall = 0] ELSE win
     IN  Becomes(IF w.waiting = NoVersion THEN {w} ELSE onCallStateChanged(w, world'))
  /\ UNCHANGED excused

(* Typing, a click, a conversation opened (the banner comes back), a file  *)
(* staged or a message sent                                                *)
UserInput ==
  /\ Running
  /\ \E opens \in BOOLEAN :
       Becomes({[Touched EXCEPT !.shown = @ \/ (opens /\ win.active)]})
  /\ \E u \in BOOLEAN : world' = [world EXCEPT !.unsent = u]
  /\ UNCHANGED excused

(* The server confirms the last message or an upload ends. *)
WorkEnds ==
  /\ Running /\ world.unsent
  /\ Becomes({win}) /\ world' = [world EXCEPT !.unsent = FALSE] /\ UNCHANGED excused

SwitchAutoInstall ==
  /\ Running
  /\ Becomes({Touched}) /\ world' = [world EXCEPT !.auto = ~@]
  /\ excused' = IF world.auto /\ win.download # NoVersion /\ "install" \notin win.asked
                THEN excused \cup {"switchedOff"} ELSE excused

OnScreen == win.counting /\ win.shown /\ win.final /\ "later" \in win.buttons

(* The ticks meanwhile keep resetting the idle time. *)
Busy == /\ win.counting
        /\ autoInstallBlocked(win, world) /\ ~blockedOnlyByGrace(win, world)

Elapsed(w, d) ==
  [w EXCEPT !.sinceInput = Least(@ + d, IdleWait), !.sinceReady = Least(@ + d, IdleWait),
            !.sinceCall = Least(@ + d, Grace),
            !.graceTimer = IF @ = Off THEN Off ELSE Most(0, @ - d)]

Quieter(e, d) == [e EXCEPT !.quiet = IF CallActive(e) THEN 0 ELSE Least(@ + d, Grace)]

(* The ticks look on and the heartbeat, if there is one, stamps the call. *)
TimePasses ==
  /\ Running /\ ~win.checking /\ win.graceTimer # 0
  /\ win.counting => ticked
  /\ win' = [Elapsed(win, 1) EXCEPT !.sinceInput = IF Busy THEN 0 ELSE @,
                                   !.sinceCall = IF world.call = "talking" THEN 0 ELSE @]
  /\ world' = Quieter(world, 1)
  /\ seen' = IF OnScreen THEN Least(seen + 1, Final) ELSE 0
  /\ ticked' = FALSE /\ UNCHANGED excused

(* The machine sleeps: the clock goes on without ticks and heartbeat. *)
Sleeps(d) ==
  /\ Running /\ ~win.checking
  /\ win' = Elapsed(win, d) /\ world' = Quieter(world, d)
  /\ seen' = 0 /\ ticked' = FALSE
  /\ excused' = IF win.counting \/ CallActive(world) THEN excused \cup {"slept"} ELSE excused

Next ==
  \/ \E v \in Versions : Offer(v)
  \/ Progress \/ DownloadFails \/ DownloadLands
  \/ InstallClicked \/ UpdateNow \/ UpToDate
  \/ CancelAutoInstall \/ LaterClicked \/ CloseClicked
  \/ Tick \/ GraceTimerFires
  \/ \E c \in Calls : CallMoves(c)
  \/ UserInput \/ WorkEnds \/ SwitchAutoInstall
  \/ TimePasses
  \/ \E d \in 1 .. IdleWait : Sleeps(d)

Spec == Init /\ [][Next]_vars

-----------------------------------------------------------------------------
(* Properties. *)

(* Every member has its type: an automatic install is never explicit (a    *)
(* stale flag would make it skip the post-call grace), and the anchor lies *)
(* at most one grace in the future.                                        *)
TypeOK ==
  /\ win \in Wins /\ world \in Worlds
  /\ ticked \in BOOLEAN /\ seen \in 0 .. Final /\ excused \subseteq Excuses

Restarts == win'.launches # win.launches

(* At most one installer is started, never in a call.  One the user did    *)
(* not ask for starts only when nothing is unsent, automatic installs were *)
(* not cancelled in this session, and no call was there for the idle wait  *)
(* or the grace, whichever is shorter, and for the grace if the last call  *)
(* had a heartbeat; whatever calls, offers, failed launches and cancelled  *)
(* requests came before.  (CHANGELOG 940-946; excepted: auto-install       *)
(* switched off during a download, and, of the distance from calls, a      *)
(* machine that slept in a call or a countdown, see README.)               *)
NoSurpriseRestart ==
  [][Restarts =>
       /\ win'.launches = 1
       /\ ~CallActive(world')
       /\ win'.asked = {} /\ "switchedOff" \notin excused =>
            /\ ~world'.unsent /\ ~win.cancelled
            /\ "slept" \notin excused =>
                 /\ world'.quiet >= Least(IdleWait, Grace)
                 /\ world'.call = "over" => world'.quiet = Grace]_vars

(* "The last minute is always shown as a countdown you can cancel"         *)
(* (CHANGELOG 946): a restart nobody asked for comes after the final       *)
(* countdown stood on screen, with its cancel button, for all its time.    *)
(* (Excepted as above.)                                                    *)
CountdownSeen ==
  [][Restarts /\ win'.asked = {} /\ excused \cap {"switchedOff", "slept"} = {}
       => seen = Final]_vars

(* An install never hangs and never lingers: a waiting installer is        *)
(* counting down, waits for a call in progress, for the grace or for the   *)
(* user; nothing is armed without one; what was replaced travels only with *)
(* a download (MainWindow.h 433-438); what the user asked for is under way *)
(* until it is done or has failed.                                         *)
WaitingHasANextStep ==
  LET k == win.install.kind IN
  /\ win.waiting = NoVersion <=> k = "None"
  /\ win.counting <=> k = "Automatic"
  /\ win.graceTimer # Off \/ win.callWait => k = "UserAccepted"
  /\ k = "UserAccepted" => win.graceTimer # Off \/ (win.callWait /\ CallActive(world))
  /\ win.waiting # NoVersion => win.download = NoVersion
  /\ "deferred" \notin excused =>
       /\ win.replaced.kind # "None" => win.download # NoVersion
       /\ Running /\ win.asked # {} =>
            win.waiting # NoVersion \/ win.download # NoVersion \/ win.checking
=============================================================================
