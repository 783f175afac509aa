------------------------------- MODULE Restart -------------------------------
(***************************************************************************)
(* The life of a picopaste process on its main thread (RunInteractive in   *)
(* src/platform/win32/main_win32.cpp) and the tray's Restart, which hands  *)
(* the instance and the hotkey to a process that starts while its          *)
(* predecessor still runs (RelaunchSelf in src/platform/win32/tray.cpp).   *)
(*                                                                         *)
(* Three parties compete for the chord: the predecessor, its replacement,  *)
(* and some other program.  A launch by hand may come in between, and any  *)
(* process may be terminated.                                              *)
(***************************************************************************)
EXTENDS SingleInstance

CONSTANT Other     (* a program of the desktop that uses the same chord    *)

ASSUME RestartAssumption == Other \notin Procs \cup {None}

VARIABLES
  child,    (* the replacement each process started                        *)
  chord,    (* who has the chord registered                                *)
  hooks,    (* processes with a low-level hook on it                       *)
  quitting, (* processes with WM_QUIT in their queue                       *)
  errors,   (* processes whose start-up failed, until the user knows       *)
  warned    (* processes that showed "hotkey lost"                         *)

restartVars == <<child, chord, hooks, quitting, errors, warned>>
vars == <<instanceVars, restartVars>>

KeepInstance == UNCHANGED <<mutex, section, owner, awaiting, waits, report, overtaken, job>>

Init ==
  /\ InstanceInit
  /\ child = [p \in Procs |-> None]
  /\ chord = None /\ hooks = {}
  /\ quitting = {} /\ errors = {} /\ warned = {}

HasChord(p) == chord = p \/ p \in hooks

(* From the moment it has the mutex to the moment it lets it go.           *)
Alive(p) == at[p] \notin {"off", "gone", "killed"}

(* In its loop, with no WM_QUIT to come.                                    *)
Serving(p) == at[p] = "loop" /\ p \notin quitting

-----------------------------------------------------------------------------
(* Start-up.                                                               *)

(* The next process of the session.                                        *)
Fresh(p) == at[p] = "off" /\ \A q \in 1 .. p - 1 : at[q] # "off"

Launch(p) ==
  /\ Fresh(p)
  /\ Go(p, "config")
  /\ KeepInstance /\ UNCHANGED restartVars

(* LoadInteractiveConfig: the file on disk may have changed since the
   predecessor read it.                                                    *)
LoadConfig(p) ==
  /\ at[p] = "config"
  /\ \/ Go(p, "create") /\ UNCHANGED errors
     \/ Go(p, "failed") /\ errors' = errors \cup {p}
  /\ KeepInstance
  /\ UNCHANGED <<child, chord, hooks, quitting, warned>>

(* A step of Acquire; the failure of CreateMutexW is a start-up failure.   *)
Acquire(p) ==
  /\ InstanceStep(p)
  /\ errors' = IF at'[p] = "failed" THEN errors \cup {p} ELSE errors
  /\ UNCHANGED <<child, chord, hooks, quitting, warned>>

(* The predecessor's exit takes less than the wait of its replacement, and
   a handle of BackOff's does not outlive a sleep (kAwaitInstanceMaxMs).   *)
ExitIsPrompt(p) ==
  waits[p] + 1 = MaxPolls =>
    \A q \in Procs \ {p} : at[q] # "opened" /\ (child[q] = p => ~Alive(q))

Sleep(p) == Poll(p) /\ ExitIsPrompt(p) /\ UNCHANGED restartVars

SetupJobs(p) ==
  /\ JoinJobs(p)
  /\ errors' = IF at'[p] = "closeRecord" THEN errors \cup {p} ELSE errors
  /\ UNCHANGED <<child, chord, hooks, quitting, warned>>

(* HotkeyRegistration::Install: the hook only where another has the chord. *)
Install(p, ok) ==
  IF ok THEN IF chord = None THEN chord' = p /\ UNCHANGED hooks
                             ELSE hooks' = hooks \cup {p} /\ UNCHANGED chord
        ELSE UNCHANGED <<chord, hooks>>

(* A plausible bug, for the check of TypeOK: the hook is not removed.       *)
Mut_HookLeft(p) ==
  /\ chord' = IF chord = p THEN None ELSE chord
  /\ hooks' = hooks

Uninstall(p) ==
  /\ chord' = IF chord = p THEN None ELSE chord
  /\ hooks' = hooks \ {p}

(* Tray::Create, Tray::Show, ParseHotkey and Install, any of which fails.  *)
ShowTray(p) ==
  /\ at[p] = "ready"
  /\ \E ok \in BOOLEAN :
       /\ Install(p, ok)
       /\ Go(p, IF ok THEN "worker" ELSE "failed")
       /\ errors' = IF ok THEN errors ELSE errors \cup {p}
  /\ KeepInstance /\ UNCHANGED <<child, quitting, warned>>

(* UploadWorker::Start.                                                    *)
StartWorker(p) ==
  /\ at[p] = "worker"
  /\ \/ Go(p, "loop") /\ UNCHANGED errors
     \/ Go(p, "failed") /\ errors' = errors \cup {p}
  /\ KeepInstance
  /\ UNCHANGED <<child, chord, hooks, quitting, warned>>

(* ReportStartupFailure: with no console to write to, "failed" and "refused"
   are a box, which keeps the process, with all it holds, until the user
   closes it; then the destructors run, the hotkey's first.                *)
Dismiss(p) ==
  /\ at[p] \in {"failed", "refused"}
  /\ Uninstall(p) /\ Go(p, "closeRecord") /\ errors' = errors \ {p}
  /\ KeepInstance /\ UNCHANGED <<child, quitting, warned>>

-----------------------------------------------------------------------------
(* The message loop.                                                       *)

(* WM_CLOSE to the hidden window.                                          *)
CloseWindow(p) ==
  /\ Serving(p)
  /\ quitting' = quitting \cup {p}
  /\ KeepInstance /\ UNCHANGED <<at, child, chord, hooks, errors, warned>>

(* WM_COMMAND: whatever the item, the chord is released.                   *)
MenuQuit(p) ==
  /\ Serving(p)
  /\ Uninstall(p) /\ quitting' = quitting \cup {p} /\ Go(p, "dispatched")
  /\ KeepInstance /\ UNCHANGED <<child, errors, warned>>

(* The menu's own loop may have dispatched a WM_CLOSE before it.
   Bound: a process starts one replacement.                                *)
MenuRestart(p) ==
  /\ Serving(p) /\ child[p] = None
  /\ \E closed \in SUBSET {p} : quitting' = quitting \cup closed
  /\ Uninstall(p) /\ Go(p, "relaunch")
  /\ KeepInstance /\ UNCHANGED <<child, errors, warned>>

(* RelaunchSelf: CREATE_BREAKAWAY_FROM_JOB leaves the child in no job.     *)
Spawn(p, q, inJob) ==
  /\ at' = [at EXCEPT ![p] = "probe", ![q] = "config"]
  /\ child' = [child EXCEPT ![p] = q]
  /\ awaiting' = [awaiting EXCEPT ![q] = TRUE]
  /\ job' = [job EXCEPT ![q] = inJob]
  /\ UNCHANGED <<mutex, section, owner, waits, report, overtaken>>

Relaunch(p) ==
  /\ at[p] = "relaunch"
  /\ \/ (\E q \in Procs : Fresh(q) /\ Spawn(p, q, None))
     \/ Go(p, "dispatched") /\ KeepInstance /\ UNCHANGED child
  /\ UNCHANGED <<chord, hooks, quitting, errors, warned>>

(* WaitForSingleObject(kRelaunchProbeMs): a child that shows a box lives.  *)
Probe(p) ==
  /\ at[p] = "probe"
  /\ quitting' = IF ~Alive(child[p]) THEN quitting ELSE quitting \cup {p}
  /\ Go(p, "dispatched") /\ KeepInstance
  /\ UNCHANGED <<child, chord, hooks, errors, warned>>

(* A plausible bug, for the check of HotkeyAliveOrSaid: the chord is not
   taken back.                                                             *)
Mut_NotTakenBack(p) ==
  /\ at[p] = "dispatched" /\ Go(p, "loop")
  /\ KeepInstance /\ UNCHANGED restartVars

(* After the dispatch: the chord comes back unless WM_QUIT is pending.     *)
TakeBack(p) ==
  /\ at[p] = "dispatched" /\ Go(p, "loop")
  /\ \/ p \in quitting /\ UNCHANGED <<chord, hooks, warned>>
     \/ p \notin quitting /\ \E ok \in BOOLEAN :
          /\ Install(p, ok)
          /\ warned' = IF ok THEN warned ELSE warned \cup {p}
  /\ KeepInstance /\ UNCHANGED <<child, quitting, errors>>

LeaveLoop(p) ==
  /\ at[p] = "loop" /\ p \in quitting
  /\ Go(p, "stop") /\ KeepInstance /\ UNCHANGED restartVars

(* A plausible bug, for the check of OneInstance: the mutex goes first.     *)
Mut_MutexFirst(p) ==
  /\ at[p] = "stop"
  /\ \/ p \in mutex /\ mutex' = mutex \ {p} /\ UNCHANGED <<at, chord, hooks>>
     \/ p \notin mutex /\ Uninstall(p) /\ Go(p, "closeRecord") /\ UNCHANGED mutex
  /\ UNCHANGED <<section, owner, awaiting, waits, report, overtaken, job,
                 child, quitting, errors, warned>>

(* RequestStop, AbortChannel, the join of the worker, which a hook sits out
   without a thread that pumps, then Uninstall and Tray::Destroy.          *)
StopWorker(p) ==
  /\ at[p] = "stop"
  /\ Uninstall(p) /\ Go(p, "closeRecord")
  /\ KeepInstance /\ UNCHANGED <<child, quitting, errors, warned>>

(* What a process held and knew is gone with it.                           *)
End(p, how) ==
  /\ Vanish(p, how)
  /\ Uninstall(p)
  /\ child' = [child EXCEPT ![p] = None]
  /\ quitting' = quitting \ {p} /\ errors' = errors \ {p} /\ warned' = warned \ {p}

(* The last of Close.  A failure of SetupJobObjects is still to be told.   *)
Closed(p) ==
  \/ CloseMutex(p, "failed") /\ p \in errors /\ UNCHANGED restartVars
  \/ at[p] = "closeMutex" /\ p \notin errors /\ End(p, "gone")

-----------------------------------------------------------------------------
(* The rest of the desktop.                                                *)

(* A program registers the chord, or gives it up.                          *)
OtherProgram ==
  /\ \/ chord = None /\ chord' = Other
     \/ chord = Other /\ chord' = None
  /\ UNCHANGED <<instanceVars, child, hooks, quitting, errors, warned>>

(* Terminated by the user or at the end of the session, at any point.
   Bound: once.                                                            *)
Killed == \E p \in Procs : at[p] = "killed"
Die(p) == Alive(p) /\ ~Killed /\ End(p, "killed")

Run(p) ==
  \/ LoadConfig(p) \/ Acquire(p) \/ Sleep(p) \/ SetupJobs(p) \/ ShowTray(p)
  \/ StartWorker(p) \/ Relaunch(p) \/ Probe(p) \/ TakeBack(p) \/ LeaveLoop(p) \/ StopWorker(p)
  \/ Closed(p)

User(p) ==
  \/ Launch(p) \/ Dismiss(p) \/ CloseWindow(p) \/ MenuQuit(p) \/ MenuRestart(p) \/ Die(p)

Next == OtherProgram \/ \E p \in Procs : Run(p) \/ User(p)

Spec == Init /\ [][Next]_vars

(* A process is scheduled; nothing is asked of the user.                   *)
FairSpec == Spec /\ \A p \in Procs : WF_vars(Run(p))

-----------------------------------------------------------------------------
(* Properties.                                                             *)

Places ==
  {"off", "config", "create", "opened", "sleep", "look", "readPid", "readImage",
   "refused", "record", "pid", "image", "publish", "acquired", "ready", "worker",
    "loop", "relaunch", "probe", "dispatched", "stop",
   "failed", "closeRecord", "closeMutex", "gone", "killed"}

(* The types; the hook is used only where the chord is someone else's when
   it is installed, so a process never has both.                           *)
TypeOK ==
  /\ mutex \subseteq Procs /\ section \subseteq Procs
  /\ owner \in [ready : BOOLEAN, pid : Procs \cup {None}, image : Procs \cup {None}]
  /\ at \in [Procs -> Places]
  /\ awaiting \in [Procs -> BOOLEAN]
  /\ waits \in [Procs -> 0 .. MaxPolls + OwnerAttempts]
  /\ report \in [Procs -> [pid : Procs \cup {None}, image : Procs \cup {None}]]
  /\ overtaken \subseteq Procs
  /\ job \in [Procs -> Procs \cup {None}] /\ child \in [Procs -> Procs \cup {None}]
  /\ chord \in Procs \cup {None, Other} /\ chord \notin hooks
  /\ hooks \subseteq Procs /\ quitting \subseteq Procs /\ warned \subseteq Procs
  /\ errors \subseteq Procs

(* What two instances would fight over: the tray, the worker with its ssh
   child, and the chord.                                                   *)
Working(p) ==
  \/ HasChord(p)
  \/ at[p] \in {"worker", "loop", "relaunch", "probe", "dispatched", "stop"}

(* A restart, a launch by hand and an exit may overlap in any order, but
   two processes never work at once: in particular the replacement installs
   its chord only after the predecessor's worker and chord are gone.       *)
OneInstance == \A p, q \in Procs : Working(p) /\ Working(q) => p = q

(* The owner a refused launch names is one process, which had the instance,
   unless a new owner rewrote the record while it was being read.          *)
OwnerReportTrue ==
  \A p \in Procs : at[p] = "refused" /\ p \notin overtaken =>
    /\ report[p].pid = report[p].image
    /\ report[p].pid # None =>
         at[report[p].pid] \notin {"off", "config", "create", "opened", "sleep", "look"}

(* A process in its loop with no quit pending has the chord, or has told the
   user that it is lost: in particular after a Restart that failed.        *)
HotkeyAliveOrSaid ==
  \A p \in Procs : Serving(p) => HasChord(p) \/ p \in warned

(* Restart is never a silent exit: when a replacement was started, some
   process comes to serve the hotkey, or the user is told why none does.   *)
RestartCompletes ==
  (\E p, q \in Procs : at[p] = "probe" /\ child[p] = q /\ at[q] = "config") ~>
  (Killed \/ \E p \in Procs : Serving(p) \/ at[p] = "failed")
=============================================================================
