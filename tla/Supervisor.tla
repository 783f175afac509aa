----------------------------- MODULE Supervisor -----------------------------
(***************************************************************************)
(* The two threads of the tray program (src/platform/win32/main_win32.cpp) *)
(* and what passes between them.                                           *)
(*                                                                         *)
(* The upload worker owns the ssh child, the SFTP client and the lifecycle *)
(* machine; it blocks on its event, in the SFTP handshake and in an upload. *)
(* The main thread owns the tray, the timer of the deadline probe and the  *)
(* message queue the worker posts to; its only hold on a blocked worker is *)
(* AbortChannel, which terminates the child through a cached handle.       *)
(*                                                                         *)
(* Time is abstract: a deadline in progress passes at some moment, and a   *)
(* peer answers, refuses, dies or stays silent for ever.                   *)
(***************************************************************************)
EXTENDS LifecycleTable, Integers, Sequences, FiniteSets

CONSTANTS
  UploadDeadline,  (* upload_timeout_ms # 0                                *)
  StoreBuffer,     (* a load of the worker may overtake its earlier store, as
                      release stores and acquire loads allow               *)
  QueueBound       (* bound: notices in flight to the main thread          *)

ASSUME SupervisorAssumption ==
  UploadDeadline \in BOOLEAN /\ StoreBuffer \in BOOLEAN /\ QueueBound \in Nat

VARIABLES
  (* the worker thread *)
  wpc,       (* where it is                                                *)
  ret,       (* who called EnsureChannel: "boot", "run" or "retry"         *)
  then,      (* what DropChannel was called for: "failed", "lost", "bad"   *)
  waited,    (* the child's handle is among those it waits on              *)
  lc,        (* the lifecycle state                                        *)
  client,    (* an SFTP client exists                                      *)
  child,     (* the ssh process of channel_: "none", "alive" or "dead"     *)
  (* shared between the threads *)
  quit, wake,
  lever,     (* abort_process_ holds the child's handle                    *)
  unseen,    (* the store of the handle is still in the worker's buffer    *)
  handshake, (* connect_deadline_ms_: "none", "pending" or "passed"        *)
  flight,    (* the upload's deadline, "none" when nothing is in flight    *)
  latched,   (* the upload in flight has been latched as expired           *)
  (* the main thread *)
  mpc,       (* where it is                                                *)
  queue,     (* the notices the worker posted                              *)
  probe,     (* upload_timer: "off", "on", or "failed" to arm              *)
  tray,      (* the colour on show                                         *)
  target     (* the handle AbortChannel loaded: "none", "current", "stale" *)

workerVars == <<wpc, ret, then, waited, lc, client>>
sharedVars == <<quit, wake, lever, unseen, handshake, flight, latched>>
mainVars   == <<mpc, queue, probe, tray, target>>
vars       == <<workerVars, child, sharedVars, mainVars>>

-----------------------------------------------------------------------------
(* Notices from the worker to the main thread.                             *)

Started   == [notice |-> "UploadStarted"]
Ended     == [notice |-> "UploadEnded"]
LocalFail == [notice |-> "LocalFailure"]
HealthOf(s, why) == [notice |-> "Health", colour |-> Health(s), outcome |-> why]

Notices == {Started, Ended, LocalFail} \cup
           {HealthOf(s, why) : s \in States, why \in {"none", "failed", "recovered"}}

(* The main thread still reads its queue.                                  *)
Listening == mpc \in {"loop", "abort", "kill"}

(* PostThreadMessageW.  Nobody reads what is posted once the main thread has
   left its loop.  Bound: the worker waits for room in the queue.          *)
PostAll(ms) ==
  IF Listening THEN /\ Len(queue) + Len(ms) <= QueueBound
                    /\ queue' = queue \o ms
               ELSE UNCHANGED queue

KeepMain == UNCHANGED <<mpc, probe, tray, target>>

-----------------------------------------------------------------------------
Init ==
  /\ wpc = "boot" /\ ret = "boot" /\ then = "failed" /\ waited = FALSE
  /\ lc = "Init" /\ client = FALSE /\ child = "none"
  /\ quit = FALSE /\ wake = FALSE
  /\ lever = FALSE /\ unseen = FALSE
  /\ handshake = "none" /\ flight = "none" /\ latched = FALSE
  /\ mpc = "loop" /\ queue = <<>> /\ probe = "off" /\ tray = "yellow"
  /\ target = "none"

-----------------------------------------------------------------------------
(* The worker: Loop up to the first handshake.                             *)
Boot ==
  /\ wpc = "boot"
  /\ wpc' = "ensure" /\ ret' = "boot"
  /\ lc' = Target(lc, "Start")
  /\ PostAll(<<HealthOf(lc', "none"), Started>>)
  /\ UNCHANGED <<then, waited, client, child, sharedVars>> /\ KeepMain

(* Where EnsureChannel returns to, and what its caller posts on the way.   *)
AfterEnsure(up) ==
  CASE ret = "boot"        -> [pc |-> "loop", posts |-> <<Ended>>]
    [] ret = "retry"       -> [pc |-> "loop", posts |-> <<>>]
    [] ret = "run" /\ up   -> [pc |-> "run",  posts |-> <<>>]
    [] ret = "run" /\ ~up  -> [pc |-> "loop", posts |-> <<Ended>>]

(* EnsureChannel with a client in place.                                   *)
AlreadyUp ==
  /\ wpc = "ensure" /\ client
  /\ wpc' = AfterEnsure(TRUE).pc
  /\ lc' = IF lc = "Ready" THEN lc ELSE Target(lc, "ConnectOk")
  /\ PostAll((IF lc = "Ready" THEN <<>> ELSE <<HealthOf(lc', "recovered")>>)
             \o AfterEnsure(TRUE).posts)
  /\ UNCHANGED <<ret, then, waited, client, child, sharedVars>> /\ KeepMain

(* EnsureChannel without one: the handshake's deadline is published first. *)
BeginConnect ==
  /\ wpc = "ensure" /\ ~client
  /\ wpc' = "spawn"
  /\ handshake' = "pending"
  /\ UNCHANGED <<ret, then, waited, lc, client, child, quit, wake, lever, unseen,
                 flight, latched, mainVars>>

(* ChildStream::Spawn (and BuildCommand before it).                        *)
Spawn ==
  /\ wpc = "spawn"
  /\ \/ wpc' = "failed" /\ UNCHANGED child
     \/ wpc' = "publish" /\ child' = "alive"
  /\ UNCHANGED <<ret, then, waited, lc, client, sharedVars, mainVars>>

(* The handle is stored for AbortChannel, in the worker's store buffer at
   first, ...                                                              *)
Publish ==
  /\ wpc = "publish"
  /\ wpc' = "recheck"
  /\ unseen' = TRUE
  /\ UNCHANGED <<ret, then, waited, lc, client, child, quit, wake, lever, handshake,
                 flight, latched, mainVars>>

(* ... and then in memory.                                                 *)
Drain ==
  /\ unseen
  /\ lever' = TRUE /\ unseen' = FALSE
  /\ UNCHANGED <<workerVars, child, quit, wake, handshake, flight, latched, mainVars>>

(* Mutant of Recheck: a stop latched during the spawn is not looked for.   *)
Mut_NoRecheck ==
  /\ wpc = "recheck" /\ (StoreBuffer \/ ~unseen)
  /\ wpc' = "init" /\ client' = TRUE
  /\ UNCHANGED <<ret, then, waited, lc, child, sharedVars, mainVars>>

(* A stop latched while the spawn was in flight is noticed here.  Without a
   store buffer the load of quit_ waits for the store before it.           *)
Recheck ==
  /\ wpc = "recheck" /\ (StoreBuffer \/ ~unseen)
  /\ IF quit THEN wpc' = "unlever" /\ then' = "failed" /\ UNCHANGED client
             ELSE wpc' = "init" /\ client' = TRUE /\ UNCHANGED then
  /\ UNCHANGED <<ret, waited, lc, child, sharedVars, mainVars>>

(* Client::Init, a blocking exchange: the peer answers (and the writes of the
   exchange have emptied the store buffer), ...                            *)
InitOk ==
  /\ wpc = "init" /\ child = "alive" /\ ~unseen
  /\ wpc' = "connected"
  /\ UNCHANGED <<ret, then, waited, lc, client, child, sharedVars, mainVars>>

(* ... or refuses, or the pipe breaks because the child is gone.           *)
InitFails ==
  /\ wpc = "init"
  /\ wpc' = "unlever" /\ then' = "failed"
  /\ UNCHANGED <<ret, waited, lc, client, child, sharedVars, mainVars>>

(* Mutant of ConnectEnds: connect_deadline_ms_ is not cleared.             *)
Mut_DeadlineLeftSet(up, event, why) ==
  /\ lc' = Target(lc, event)
  /\ wpc' = AfterEnsure(up).pc
  /\ PostAll(<<HealthOf(lc', why)>> \o AfterEnsure(up).posts)
  /\ UNCHANGED <<ret, then, waited, client, child, sharedVars>> /\ KeepMain

(* EnsureChannel after SpawnChannel, and its caller.                       *)
ConnectEnds(up, event, why) ==
  /\ handshake' = "none"
  /\ lc' = Target(lc, event)
  /\ wpc' = AfterEnsure(up).pc
  /\ PostAll(<<HealthOf(lc', why)>> \o AfterEnsure(up).posts)
  /\ UNCHANGED <<ret, then, waited, client, child, quit, wake, lever, unseen,
                 flight, latched>> /\ KeepMain

Connected == wpc = "connected" /\ ConnectEnds(TRUE, "ConnectOk", "recovered")

(* Mutant of ConnectFailed: RunOnce returns without disarming the probe.   *)
Mut_EarlyReturnKeepsProbe ==
  /\ wpc = "failed"
  /\ handshake' = "none"
  /\ lc' = Target(lc, "ConnectFail")
  /\ wpc' = "loop"
  /\ PostAll(<<HealthOf(lc', "failed")>>)
  /\ UNCHANGED <<ret, then, waited, client, child, quit, wake, lever, unseen,
                 flight, latched>> /\ KeepMain

ConnectFailed == wpc = "failed" /\ ConnectEnds(FALSE, "ConnectFail", "failed")

-----------------------------------------------------------------------------
(* The worker: DropChannel in its two steps, and what each caller of it does
   next.                                                                   *)

(* Mutant of Unlever: the handle stays published while it is closed.       *)
Mut_LeverKept ==
  /\ wpc = "unlever"
  /\ wpc' = "close"
  /\ UNCHANGED <<ret, then, waited, lc, client, child, sharedVars, mainVars>>

Unlever ==
  /\ wpc = "unlever"
  /\ wpc' = "close"
  /\ lever' = FALSE /\ unseen' = FALSE
  /\ UNCHANGED <<ret, then, waited, lc, client, child, quit, wake, handshake, flight,
                 latched, mainVars>>

(* A handle the main thread has loaded but not used is closed under it.    *)
Retired == IF target = "current" THEN "stale" ELSE target

Closed ==
  /\ wpc = "close"
  /\ client' = FALSE /\ child' = "none" /\ target' = Retired

(* Inside SpawnChannel: EnsureChannel reports the failure.                 *)
CloseInSpawn ==
  /\ Closed /\ then = "failed"
  /\ wpc' = "failed"
  /\ UNCHANGED <<ret, then, waited, lc, sharedVars, mpc, queue, probe, tray>>

(* After a loss or a failed run: the machine is told, and the tray.        *)
CloseAndTell(why) ==
  /\ Closed /\ then # "failed"
  /\ wpc' = "loop"
  /\ lc' = Target(lc, IF then = "lost" THEN "ChannelLost" ELSE "ConnectFail")
  /\ PostAll(<<HealthOf(lc', why)>>)
  /\ UNCHANGED <<ret, then, waited, sharedVars, mpc, probe, tray>>

(* Mutants of CloseChannel: the loss is posted as routine health, or it is
   not posted at all.                                                      *)
Mut_LossIsRoutine == CloseAndTell("none")
Mut_LossUntold ==
  /\ Closed /\ then # "failed"
  /\ wpc' = "loop"
  /\ lc' = Target(lc, IF then = "lost" THEN "ChannelLost" ELSE "ConnectFail")
  /\ UNCHANGED <<ret, then, waited, sharedVars, mpc, queue, probe, tray>>

CloseChannel == CloseAndTell("failed")

-----------------------------------------------------------------------------
(* The worker: the idle wait.                                              *)

(* Mutant of LoopTop: the event is reset before the wait, as a manual-reset
   event would have to be.                                                 *)
Mut_LoopResetsWake ==
  /\ wpc = "loop"
  /\ IF quit THEN wpc' = "exited" /\ UNCHANGED <<waited, wake>>
             ELSE wpc' = "wait" /\ waited' = (child = "alive") /\ wake' = FALSE
  /\ UNCHANGED <<ret, then, lc, client, child, quit, lever, unseen, handshake, flight,
                 latched, mainVars>>

(* The child's handle joins the wait only if the child is running now.     *)
LoopTop ==
  /\ wpc = "loop"
  /\ IF quit THEN wpc' = "exited" /\ UNCHANGED waited
             ELSE wpc' = "wait" /\ waited' = (child = "alive")
  /\ UNCHANGED <<ret, then, lc, client, child, sharedVars, mainVars>>

NeedsRetry == lc \in {"Degraded", "Reconnecting"}

(* The event: RunOnce, up to EnsureChannel.  It is an auto-reset event, and
   the first handle of the wait.                                           *)
WakeUp ==
  /\ wpc = "wait" /\ wake
  /\ wake' = FALSE
  /\ IF quit THEN wpc' = "exited" /\ UNCHANGED <<ret, queue>>
             ELSE wpc' = "ensure" /\ ret' = "run" /\ PostAll(<<Started>>)
  /\ UNCHANGED <<then, waited, lc, client, child, quit, lever, unseen, handshake, flight,
                 latched>> /\ KeepMain

ChildExit ==
  /\ wpc = "wait" /\ ~wake /\ waited /\ child = "dead"
  /\ IF quit THEN wpc' = "exited" /\ UNCHANGED then
             ELSE wpc' = "unlever" /\ then' = "lost"
  /\ UNCHANGED <<ret, waited, lc, client, child, sharedVars, mainVars>>

(* The supervisory retry.                                                  *)
TimeoutFires ==
  /\ wpc = "wait" /\ ~wake /\ ~(waited /\ child = "dead") /\ NeedsRetry
  /\ IF quit THEN wpc' = "exited" /\ UNCHANGED <<ret, lc>>
             ELSE wpc' = "ensure" /\ ret' = "retry" /\ lc' = Target(lc, "Retry")
  /\ UNCHANGED <<then, waited, client, child, sharedVars, mainVars>>

-----------------------------------------------------------------------------
(* The worker: one upload.  FlightDeadline models what happens inside.     *)
EnterRun ==
  /\ wpc = "run"
  /\ wpc' = "running"
  /\ flight' = "pending" /\ latched' = FALSE
  /\ UNCHANGED <<ret, then, waited, lc, client, child, quit, wake, lever, unseen,
                 handshake, mainVars>>

LeaveRun ==
  /\ wpc = "running"
  /\ flight' = "none"
  /\ UNCHANGED <<ret, waited, lc, client, child, quit, wake, lever, unseen, handshake,
                 latched>> /\ KeepMain

(* Every step of the upload was answered, before a deadline was latched.   *)
RunOk ==
  /\ LeaveRun /\ child = "alive" /\ ~latched
  /\ wpc' = "loop"
  /\ PostAll(<<Ended, HealthOf(lc, "none")>>)
  /\ UNCHANGED then

(* The clipboard or the paste failed (ChannelIsBad is false), a fault that a
   latched deadline does not replace: the channel is kept.                 *)
RunFailsLocally ==
  /\ LeaveRun
  /\ wpc' = "loop"
  /\ PostAll(<<Ended, LocalFail, HealthOf(lc, "none")>>)
  /\ UNCHANGED then

(* A refusal of the server, a broken pipe or an expired deadline.          *)
RunFails ==
  /\ LeaveRun
  /\ wpc' = "unlever" /\ then' = "bad"
  /\ PostAll(<<Ended>>)

-----------------------------------------------------------------------------
(* The main thread: its message loop.                                      *)
KeepWorker == UNCHANGED <<workerVars, lever, unseen, handshake, flight>>

(* kUploadStarted: the probe is armed unless it already is; SetTimer may
   fail, which turns the tray red.                                         *)
Arm ==
  IF probe = "on" THEN UNCHANGED <<probe, tray>>
  ELSE \/ probe' = "on" /\ UNCHANGED tray
       \/ probe' = "failed" /\ tray' = "red"

Receive ==
  /\ mpc = "loop" /\ queue # <<>>
  /\ queue' = Tail(queue)
  /\ CASE Head(queue) = Started   -> Arm
       [] Head(queue) = Ended     -> probe' = "off" /\ UNCHANGED tray
       [] Head(queue) = LocalFail -> UNCHANGED <<probe, tray>>
       [] OTHER                   -> tray' = Head(queue).colour /\ UNCHANGED probe
  /\ UNCHANGED <<child, quit, wake, latched, mpc, target>> /\ KeepWorker

(* The hotkey: refused while an upload is in flight.                       *)
Hotkey ==
  /\ mpc = "loop" /\ flight = "none"
  /\ wake' = TRUE
  /\ UNCHANGED <<child, quit, latched, mainVars>> /\ KeepWorker

(* Mutants of Tick: only one of the two budgets is looked at.              *)
Mut_TickHandshakeOnly ==
  /\ mpc = "loop" /\ probe = "on" /\ queue = <<>>
  /\ handshake = "passed"
  /\ mpc' = "abort"
  /\ UNCHANGED <<child, quit, wake, latched, queue, probe, tray, target>> /\ KeepWorker

Mut_TickUploadOnly ==
  /\ mpc = "loop" /\ probe = "on" /\ queue = <<>>
  /\ flight = "passed"
  /\ mpc' = "abort" /\ latched' = TRUE
  /\ UNCHANGED <<child, quit, wake, queue, probe, tray, target>> /\ KeepWorker

(* WM_TIMER, which the queue yields only when nothing is posted.           *)
Tick ==
  /\ mpc = "loop" /\ probe = "on" /\ queue = <<>>
  /\ flight = "passed" \/ handshake = "passed"
  /\ mpc' = "abort"
  /\ latched' = (latched \/ flight = "passed")
  /\ UNCHANGED <<child, quit, wake, queue, probe, tray, target>> /\ KeepWorker

(* WM_QUIT: the loop is left, and the stop latched before the abort.       *)
RequestStop ==
  /\ mpc = "loop" /\ queue = <<>>
  /\ quit' = TRUE /\ wake' = TRUE
  /\ mpc' = "qabort"
  /\ UNCHANGED <<child, latched, queue, probe, tray, target>> /\ KeepWorker

(* AbortChannel: the load of the handle ...                                *)
LoadLever ==
  /\ mpc \in {"abort", "qabort"}
  /\ target' = IF lever THEN "current" ELSE "none"
  /\ mpc' = IF mpc = "abort" THEN (IF lever THEN "kill" ELSE "loop")
                             ELSE (IF lever THEN "qkill" ELSE "join")
  /\ probe' = IF mpc' = "join" THEN "off" ELSE probe
  /\ UNCHANGED <<child, quit, wake, latched, queue, tray>> /\ KeepWorker

(* ... and its use.  A handle closed in between is invalid, or its value has
   been reused, which may be for the next child.                           *)
Terminate ==
  /\ mpc \in {"kill", "qkill"}
  /\ \/ child = "alive" /\ child' = "dead"
     \/ (target = "stale" \/ child # "alive") /\ UNCHANGED child
  /\ target' = "none"
  /\ mpc' = IF mpc = "kill" THEN "loop" ELSE "join"
  /\ probe' = IF mpc' = "join" THEN "off" ELSE probe
  /\ UNCHANGED <<quit, wake, latched, queue, tray>> /\ KeepWorker

(* Stop: the join, and the end of the lifecycle.                           *)
Join ==
  /\ mpc = "join" /\ wpc = "exited"
  /\ mpc' = "done"
  /\ lever' = FALSE /\ unseen' = FALSE /\ client' = FALSE /\ child' = "none"
  /\ lc' = Target(Target(lc, "Stop"), "Stopped")
  /\ UNCHANGED <<wpc, ret, then, waited, quit, wake, handshake, flight, latched,
                 queue, probe, tray, target>>

-----------------------------------------------------------------------------
(* The rest of the world.                                                  *)
ChildDies ==
  /\ child = "alive" /\ child' = "dead"
  /\ UNCHANGED <<workerVars, sharedVars, mainVars>>

HandshakePasses ==
  /\ handshake = "pending" /\ handshake' = "passed"
  /\ UNCHANGED <<workerVars, child, quit, wake, lever, unseen, flight, latched, mainVars>>

FlightPasses ==
  /\ UploadDeadline /\ flight = "pending" /\ flight' = "passed"
  /\ UNCHANGED <<workerVars, child, quit, wake, lever, unseen, handshake, latched, mainVars>>

-----------------------------------------------------------------------------
(* What the worker does without waiting for a peer or for an event.        *)
WorkerGoesOn ==
  \/ Boot \/ AlreadyUp \/ BeginConnect \/ Spawn \/ Publish \/ Recheck
  \/ Connected \/ ConnectFailed \/ Unlever \/ CloseInSpawn \/ CloseChannel
  \/ LoopTop \/ EnterRun

WaitReturns == WakeUp \/ ChildExit \/ TimeoutFires
PeerAnswers == InitOk \/ InitFails \/ RunOk \/ RunFailsLocally \/ RunFails

MainGoesOn == Receive \/ Tick \/ LoadLever \/ Terminate \/ Join

DeadlinePasses == HandshakePasses \/ FlightPasses

Next ==
  \/ WorkerGoesOn \/ WaitReturns \/ PeerAnswers \/ Drain
  \/ MainGoesOn \/ Hotkey \/ RequestStop
  \/ ChildDies \/ DeadlinePasses

Spec == Init /\ [][Next]_vars

(* Both threads run, stores reach memory and clocks advance.  No peer has to
   answer, but a pipe whose child is gone breaks the read blocked on it.
   Nothing is assumed of the user, nor that a child ever dies.             *)
PipeBreaks == child = "dead" /\ (InitFails \/ RunFails)

FairSpec ==
  /\ Spec
  /\ WF_vars(WorkerGoesOn) /\ WF_vars(WaitReturns) /\ WF_vars(PipeBreaks)
  /\ WF_vars(Drain) /\ WF_vars(MainGoesOn) /\ WF_vars(DeadlinePasses)

-----------------------------------------------------------------------------
(* Properties.                                                             *)

Connecting == wpc \in {"spawn", "publish", "recheck", "init", "connected", "failed"}
                \/ (wpc \in {"unlever", "close"} /\ then = "failed")

(* Types; and a deadline exists only while what it limits is going on.     *)
TypeOK ==
  /\ wpc \in {"boot", "ensure", "spawn", "publish", "recheck", "init", "connected",
              "failed", "run", "running", "unlever", "close", "loop", "wait", "exited"}
  /\ ret \in {"boot", "run", "retry"} /\ then \in {"failed", "lost", "bad"}
  /\ lc \in States /\ child \in {"none", "alive", "dead"}
  /\ {waited, client, quit, wake, lever, unseen, latched} \subseteq BOOLEAN
  /\ handshake \in {"none", "pending", "passed"} /\ (handshake # "none" => Connecting)
  /\ flight \in {"none", "pending", "passed"} /\ (flight # "none" <=> wpc = "running")
  /\ mpc \in {"loop", "abort", "kill", "qabort", "qkill", "join", "done"}
  /\ queue \in Seq(Notices) /\ Len(queue) <= QueueBound
  /\ probe \in {"off", "on", "failed"} /\ tray \in Colours
  /\ target \in {"none", "current", "stale"}

(* Whenever the worker looks around between two operations, the machine says
   Ready exactly when there is an SFTP client, and a client has a child.   *)
ClientIffReady ==
  wpc \in {"loop", "wait"} => /\ client <=> lc = "Ready"
                              /\ client <=> child # "none"

(* The handle the main thread may terminate is never that of a channel the
   worker has closed ("the worker clears it before Close()").              *)
LeverIsLive == lever => child # "none"

(* Once the worker waits and its notices are read, the tray shows the health
   of the machine: no path changes the state without posting it.           *)
HealthQueued == \E i \in 1 .. Len(queue) : queue[i].notice = "Health"
TrayShowsHealth ==
  wpc = "wait" /\ Listening /\ ~HealthQueued => tray = Health(lc)

(* The tray leaves green only for a notice that says a connection failed, on
   which the main thread raises its balloon, or for a probe that will not
   arm: "a link that broke while the user was not looking is exactly what
   must not pass silently" (main_win32.cpp).                               *)
LossAnnounced ==
  [][tray = "green" /\ tray' # "green" =>
       \/ probe' = "failed"
       \/ queue # <<>> /\ Head(queue).notice = "Health" /\ Head(queue).outcome = "failed"]_vars

(* An idle process arms no timer ("exactly zero rather than near zero").   *)
IdleMeansNoTimer ==
  wpc = "wait" /\ Listening /\ queue = <<>> => probe = "off"

(* A quit ends the process, wherever the worker was blocked.               *)
ShutdownCompletes == quit ~> mpc = "done"

(* An upload whose peer falls silent ends, if the probe could be armed.    *)
UploadEnds ==
  UploadDeadline => (wpc = "running" ~> wpc # "running" \/ probe = "failed")

(* So does the handshake of a start or of a hotkey press.                  *)
Handshaking(callers) == wpc = "init" /\ ret \in callers
BracketedHandshakeEnds ==
  Handshaking({"boot", "run"}) ~> wpc # "init" \/ probe = "failed"

(* A press the main thread accepted is answered by an upload attempt, unless
   the worker hangs in a retry or the process ends.                        *)
PressServed ==
  wake ~> \/ wpc = "ensure" /\ ret = "run"
          \/ quit \/ probe = "failed" \/ Handshaking({"retry"})

(* What the comments promise and the code does not keep.                   *)

(* Every handshake ends: "the handshake is a blocking pipe read with no
   timeout of its own, so it is bracketed by the deadline probe".          *)
HandshakeEnds ==
  Handshaking({"boot", "run", "retry"}) ~> wpc # "init" \/ probe = "failed"

(* "A dropped channel moves Ready -> Degraded immediately": a channel whose
   child is gone does not stay Ready.                                      *)
DeadChannelNoticed ==
  (wpc = "wait" /\ child = "dead") ~> lc # "Ready"
=============================================================================
