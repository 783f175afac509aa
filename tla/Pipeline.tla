------------------------------ MODULE Pipeline ------------------------------
(***************************************************************************)
(* One press of the hotkey, end to end: the main thread's handler, the     *)
(* worker that waits for it, UploadPipeline::Run and every request it      *)
(* makes of the server through sftp::Client.                               *)
(*                                                                         *)
(* The client sends one request and reads one reply, so a request and its  *)
(* reply are one exchange.  An exchange may be refused, and the channel    *)
(* may break before the server acts on it or after.  The server's disk is  *)
(* modelled by what of it the run relies on: the directory, what may stand *)
(* in its way, and the size of each run's file under its temporary and     *)
(* under its final name.                                                   *)
(*                                                                         *)
(* FlightDeadline refines the deadline, Supervisor the worker's loop; here *)
(* the first is the action Expire and the second WakeUp to Connect.        *)
(***************************************************************************)
EXTENDS Integers, FiniteSets

CONSTANTS
  Windows,      (* windows that may have the focus                         *)
  NoWindow,     (* target_ before the first press                          *)
  Chunks,       (* the image, in WRITE requests                            *)
  Depth,        (* components of remote_dir                                *)
  KeepNewest,   (* retention_.keep_newest                                  *)
  Restoring,    (* cfg_.restore_clipboard                                  *)
  MaxPresses    (* bound: presses the main thread accepts                  *)

ASSUME PipelineAssumption ==
  /\ NoWindow \notin Windows
  /\ Chunks \in Nat \ {0} /\ Depth \in Nat \ {0}
  /\ KeepNewest \in Nat \ {0}
  /\ Restoring \in BOOLEAN
  /\ MaxPresses \in Nat

VARIABLES
  (* the desktop *)
  focus,      (* the foreground window                                     *)
  clip,       (* the clipboard: Image, Other, or the run whose path it is  *)
  (* from the main thread to the worker *)
  pressing,   (* a press was found free to start and is about to wake it   *)
  accepted,   (* presses accepted so far                                   *)
  target,     (* target_                                                   *)
  event,      (* wake_                                                     *)
  (* the channel and the server *)
  link,       (* "down": no client; "up"; "cut": a client on a dead pipe   *)
  dirs,       (* leading components of remote_dir that are directories     *)
  blocked,    (* what stands where the next one would be is no directory   *)
  tmp,        (* size of each run's temporary file, NoFile when none       *)
  final,      (* size of each run's published file, NoFile when none       *)
  handles,    (* handles the session holds open on the server              *)
  (* the worker *)
  pc, run, error, late,
  temp,       (* the capture's local temporary file exists                 *)
  bytes,      (* its size as captured                                      *)
  local,      (* its size as UploadFile opened it                          *)
  offset,     (* chunks acknowledged                                       *)
  comp,       (* the component MkdirAll is at                              *)
  aim,        (* the window Paste compares the focus with                  *)
  plan,       (* what Cleanup has left to remove                           *)
  (* history *)
  served,     (* the window of the press this run was woken for            *)
  sound,      (* runs whose file was once published whole                  *)
  shown,      (* runs whose path has been on the clipboard                 *)
  pasted,     (* runs whose chord was accepted                             *)
  result      (* what each run reported                                    *)

desktop == <<focus, clip>>
trigger == <<pressing, accepted, target, event>>
disk    == <<dirs, blocked, tmp, final>>
remote  == <<link, disk, handles>>
upload  == <<temp, bytes, local, offset>>
ticket  == <<run, served>>
history == <<sound, shown, pasted, result>>
vars    == <<desktop, trigger, remote, pc, ticket, error, late, upload, comp,
             aim, plan, history>>

Runs   == 1 .. MaxPresses
Image  == 0
Other  == -1
NoFile == -1

(* The steps of Run, in its order.                                         *)
InRun ==
  {"capture", "realpath", "mkdir", "probe", "open", "write", "close", "stat",
   "verify", "rename", "discard", "show", "aim", "focus", "chord", "restore",
   "opendir", "readdir", "closedir", "unlink", "finish"}

(* UploadPipeline::in_flight.                                              *)
InFlight == pc \in InRun

TypeOK ==
  /\ focus \in Windows /\ clip \in {Image, Other} \cup Runs
  /\ pressing \in BOOLEAN /\ accepted \in 0 .. MaxPresses
  /\ target \in Windows \cup {NoWindow} /\ event \in BOOLEAN
  /\ link \in {"down", "up", "cut"} /\ dirs \in 0 .. Depth
  /\ blocked \in BOOLEAN /\ (blocked => dirs < Depth)
  /\ tmp \in [Runs -> NoFile .. Chunks] /\ final \in [Runs -> NoFile .. Chunks]
  /\ handles \subseteq {"file", "dir"}
  /\ pc \in InRun \cup {"wait", "connect", "retry"}
  /\ run \in 0 .. MaxPresses
  /\ error \in {"none", "local", "channel"} /\ late \in BOOLEAN
  /\ temp \in BOOLEAN /\ bytes \in {0, Chunks}
  /\ local \in 0 .. Chunks /\ offset \in 0 .. local
  /\ comp \in 1 .. Depth
  /\ aim \in Windows \cup {NoWindow} /\ plan \subseteq Runs
  /\ served \in Windows \cup {NoWindow}
  /\ sound \subseteq Runs /\ shown \subseteq Runs /\ pasted \subseteq Runs
  /\ result \in [Runs -> {"none", "success", "error"}]

(* The worker's first act is to connect, so it starts in that handshake.   *)
Init ==
  /\ focus \in Windows /\ clip = Image
  /\ pressing = FALSE /\ accepted = 0 /\ target = NoWindow /\ event = FALSE
  /\ link = "down"
  /\ dirs \in 0 .. Depth /\ blocked \in BOOLEAN /\ (blocked => dirs < Depth)
  /\ tmp = [r \in Runs |-> NoFile] /\ final = [r \in Runs |-> NoFile]
  /\ handles = {}
  /\ pc = "retry" /\ run = 0 /\ error = "none" /\ late = FALSE
  /\ temp = FALSE /\ bytes = 0 /\ local = 0 /\ offset = 0
  /\ comp = 1 /\ aim = NoWindow /\ plan = {} /\ served = NoWindow
  /\ sound = {} /\ shown = {} /\ pasted = {}
  /\ result = [r \in Runs |-> "none"]

-----------------------------------------------------------------------------
(* The user, the network, another machine.                                 *)

SwitchWindow ==
  /\ focus' \in Windows \ {focus}
  /\ UNCHANGED <<clip, trigger, remote, pc, ticket, error, late, upload, comp, aim,
                 plan, history>>

(* The user copies another image, or something that is none.               *)
Copy ==
  /\ clip' \in {Image, Other} \ {clip}
  /\ UNCHANGED <<focus, trigger, remote, pc, ticket, error, late, upload, comp,
                 aim, plan, history>>

(* The hotkey: the handler looks at the flight first ...                   *)
Press ==
  /\ ~pressing /\ accepted < MaxPresses
  /\ ~InFlight
  /\ pressing' = TRUE
  /\ UNCHANGED <<desktop, accepted, target, event, remote, pc, ticket, error, late,
                 upload, comp, aim, plan, history>>

(* ... and then records the window and wakes the worker.                   *)
Trigger ==
  /\ pressing
  /\ pressing' = FALSE /\ accepted' = accepted + 1
  /\ target' = focus /\ event' = TRUE
  /\ UNCHANGED <<desktop, remote, pc, ticket, error, late, upload, comp, aim, plan,
                 history>>

(* The ssh child dies under a client.                                      *)
ChildDies ==
  /\ link = "up"
  /\ link' = "cut"
  /\ UNCHANGED <<desktop, trigger, disk, handles, pc, ticket, error, late, upload,
                 comp, aim, plan, history>>

(* The probe finds the run overdue: the latch, and the end of the child.   *)
Expire ==
  /\ InFlight /\ ~late
  /\ late' = TRUE /\ link' = "cut"
  /\ UNCHANGED <<desktop, trigger, disk, handles, pc, ticket, error, upload, comp,
                 aim, plan, history>>

(* The cleanup of another machine that shares the directory.               *)
OtherCleanup ==
  /\ \E r \in Runs :
       /\ final[r] # NoFile
       /\ final' = [final EXCEPT ![r] = NoFile]
  /\ UNCHANGED <<desktop, trigger, link, dirs, blocked, tmp, handles, pc, ticket,
                 error, late, upload, comp, aim, plan, history>>

-----------------------------------------------------------------------------
(* The worker between runs.                                                *)

Enter ==
  /\ pc' = "capture" /\ run' = run + 1
  /\ error' = "none" /\ late' = FALSE

(* Mutant: the event is not reset by the wait (run stays within its bound). *)
Mut_EventStaysSet ==
  /\ pc = "wait" /\ event /\ run < MaxPresses
  /\ served' = target
  /\ IF link = "down"
       THEN pc' = "connect" /\ UNCHANGED <<run, error, late>>
       ELSE Enter
  /\ UNCHANGED <<desktop, trigger, remote, upload, comp, aim, plan, history>>

(* The wait returns for the event: RunOnce, up to Run or the handshake.    *)
WakeUp ==
  /\ pc = "wait" /\ event
  /\ event' = FALSE /\ served' = target
  /\ IF link = "down"
       THEN pc' = "connect" /\ UNCHANGED <<run, error, late>>
       ELSE Enter
  /\ UNCHANGED <<desktop, pressing, accepted, target, remote, upload, comp, aim,
                 plan, history>>

(* The handshake ends.  A press it was made for goes on into Run.          *)
Connect ==
  /\ pc \in {"connect", "retry"}
  /\ \/ /\ link' = "up" /\ handles' = {}
        /\ IF pc = "connect" THEN Enter
                             ELSE pc' = "wait" /\ UNCHANGED <<run, error, late>>
     \/ pc' = "wait" /\ UNCHANGED <<link, handles, run, error, late>>
  /\ UNCHANGED <<desktop, trigger, disk, served, upload, comp, aim, plan, history>>

(* The wait returns for the child's handle: DropChannel.                   *)
NoticeLoss ==
  /\ pc = "wait" /\ link = "cut"
  /\ link' = "down"
  /\ UNCHANGED <<desktop, trigger, disk, handles, pc, ticket, error, late, upload,
                 comp, aim, plan, history>>

(* The wait times out: the supervisory retry.                              *)
Retry ==
  /\ pc = "wait" /\ link = "down"
  /\ pc' = "retry"
  /\ UNCHANGED <<desktop, trigger, remote, ticket, error, late, upload, comp, aim,
                 plan, history>>

-----------------------------------------------------------------------------
(* An exchange with the server, and what the worker makes of it.           *)

(* "unsent" was never acted on, "unheard" was, and its reply was lost.     *)
Outcomes == {"ok", "refused", "unsent", "unheard"}

Exchange(o) ==
  \/ link = "up" /\ o \in {"ok", "refused"} /\ UNCHANGED link
  \/ link = "up" /\ o \in {"unsent", "unheard"} /\ link' = "cut"
  \/ link = "cut" /\ o = "unsent" /\ UNCHANGED link

Applied(o) == o \in {"ok", "unheard"}

Goto(next) == pc' = next /\ UNCHANGED error

Fail(class, next) == pc' = next /\ error' = class

(* The end of a step of Run, with the deadline check after it.             *)
StepEnds(next) ==
  IF late THEN Fail("channel", "finish") ELSE Goto(next)

(* What every step between Enter and Finish leaves alone.                  *)
KeepOutside == UNCHANGED <<focus, trigger, ticket, late, result>>

-----------------------------------------------------------------------------
(* Capture and the remote directory.                                       *)

(* CaptureLocal.  An empty capture is refused with its file still there.   *)
Capture ==
  /\ pc = "capture"
  /\ \/ Fail("local", "finish") /\ UNCHANGED <<temp, bytes>>
     \/ clip = Image /\ temp' = TRUE /\ bytes' = 0 /\ Fail("local", "finish")
     \/ /\ clip = Image /\ temp' = TRUE /\ bytes' = Chunks
        /\ \/ StepEnds("realpath")                (* remote_dir is ~/...   *)
           \/ StepEnds("mkdir")                   (* remote_dir is absolute *)
  /\ comp' = 1
  /\ UNCHANGED <<clip, remote, local, offset, aim, plan, sound, shown, pasted>>
  /\ KeepOutside

KeepAllButDisk ==
  /\ UNCHANGED <<clip, upload, aim, plan, shown, pasted>>
  /\ KeepOutside

Realpath ==
  /\ pc = "realpath"
  /\ \E o \in Outcomes :
       /\ Exchange(o)
       /\ IF o = "ok" THEN Goto("mkdir") ELSE Fail("channel", "finish")
  /\ UNCHANGED <<disk, handles, comp, sound>> /\ KeepAllButDisk

(* Mutant: the loop is off by one.                                         *)
Mut_OneComponentMore ==
  IF comp <= Depth THEN comp' = comp + 1 /\ Goto("mkdir")
                   ELSE UNCHANGED comp /\ StepEnds("open")

(* MkdirAll goes on to the next component, or EnsureRemoteDir is done.     *)
NextComponent ==
  IF comp < Depth THEN comp' = comp + 1 /\ Goto("mkdir")
                  ELSE UNCHANGED comp /\ StepEnds("open")

(* Mkdir.  A directory that exists is refused with FAILURE, as much else is:
   a name that something else has, a parent that is no directory.          *)
Mkdir ==
  /\ pc = "mkdir"
  /\ \E o \in Outcomes :
       /\ Exchange(o)
       /\ o = "ok" => dirs < comp /\ ~blocked
       /\ dirs' = IF Applied(o) /\ dirs < comp /\ ~blocked THEN comp ELSE dirs
       /\ \/ o = "ok" /\ NextComponent
          \/ o = "refused" /\ Goto("probe") /\ UNCHANGED comp
          \/ o # "ok" /\ Fail("channel", "finish") /\ UNCHANGED comp
  /\ UNCHANGED <<blocked, tmp, final, handles, sound>> /\ KeepAllButDisk

(* What a STAT of component c finds: a directory, or whatever else is there. *)
Exists(c) == c <= dirs \/ (blocked /\ c = dirs + 1)

(* Mutant: any answer to the STAT is taken for an existing directory.      *)
Mut_AnyAnswerExists ==
  /\ pc = "probe"
  /\ \E o \in Outcomes :
       /\ Exchange(o)
       /\ o = "ok" => Exists(comp)
       /\ IF o \in {"ok", "refused"} THEN NextComponent
                                    ELSE Fail("channel", "finish") /\ UNCHANGED comp
  /\ UNCHANGED <<disk, handles, sound>> /\ KeepAllButDisk

(* StatExists tells a name that exists from one that does not.  It does not
   look at what has the name.                                              *)
Probe ==
  /\ pc = "probe"
  /\ \E o \in Outcomes :
       /\ Exchange(o)
       /\ o = "ok" => Exists(comp)
       /\ IF o = "ok" THEN NextComponent
                      ELSE Fail("channel", "finish") /\ UNCHANGED comp
  /\ UNCHANGED <<disk, handles, sound>> /\ KeepAllButDisk

-----------------------------------------------------------------------------
(* UploadAndVerify: UploadFile under the temporary name, the second STAT,  *)
(* and the rename.  Every failure goes through "discard".                  *)

KeepAllButFile ==
  /\ UNCHANGED <<clip, dirs, blocked, temp, bytes, comp, aim, plan, shown, pasted>>
  /\ KeepOutside

(* The OPEN made the file: only a directory lets it.                       *)
Made(o) == Applied(o) /\ dirs = Depth

(* OPEN with CREAT and TRUNC.  The local file may have been shortened since
   the capture.  After NO_SUCH_FILE there is no handle and no error, and the
   next request is the STAT.                                               *)
Open ==
  /\ pc = "open"
  /\ \/ /\ Fail("channel", "discard")             (* LocalOpen fails       *)
        /\ UNCHANGED <<link, tmp, handles, local, offset>>
     \/ \E o \in Outcomes, size \in 0 .. bytes :
          /\ Exchange(o)
          /\ o = "ok" => dirs = Depth
          /\ local' = size /\ offset' = 0
          /\ tmp' = IF Made(o) THEN [tmp EXCEPT ![run] = 0] ELSE tmp
          /\ handles' = IF Made(o) THEN handles \cup {"file"} ELSE handles
          /\ \/ o = "ok" /\ Goto(IF size = 0 THEN "close" ELSE "write")
             \/ o = "refused" /\ Goto("stat")
             \/ o # "ok" /\ Fail("channel", "discard")
  /\ UNCHANGED <<final, sound>> /\ KeepAllButFile

(* One turn of StreamWrites.  The server may acknowledge what it did not
   store.                                                                  *)
Write ==
  /\ pc = "write"
  /\ \/ /\ Fail("channel", "close")               (* the read fails        *)
        /\ UNCHANGED <<link, tmp, offset>>
     \/ \E o \in Outcomes :
          /\ Exchange(o)
          /\ tmp' \in IF Applied(o) THEN {tmp, [tmp EXCEPT ![run] = @ + 1]} ELSE {tmp}
          /\ IF o = "ok"
               THEN /\ offset' = offset + 1
                    /\ Goto(IF offset' = local THEN "close" ELSE "write")
               ELSE UNCHANGED offset /\ Fail("channel", "close")
  /\ UNCHANGED <<final, handles, local, sound>> /\ KeepAllButFile

(* CLOSE, whatever the writes came to: "the remote handle is closed even when
   a WRITE failed".  A refused CLOSE releases the handle all the same.     *)
Close ==
  /\ pc = "close"
  /\ \E o \in Outcomes :
       /\ Exchange(o)
       /\ handles' = IF o = "unsent" THEN handles ELSE handles \ {"file"}
       /\ IF o = "ok" /\ error = "none" THEN Goto("stat") ELSE Fail("channel", "discard")
  /\ UNCHANGED <<tmp, final, local, offset, sound>> /\ KeepAllButFile

(* STAT of the temporary file, at the end of UploadFile and again in
   UploadAndVerify: the size must be the one named.                        *)
StatIs(size, next) ==
  /\ \E o \in Outcomes :
       /\ Exchange(o)
       /\ o = "ok" => tmp[run] # NoFile
       /\ IF o = "ok" /\ tmp[run] = size THEN Goto(next) ELSE Fail("channel", "discard")
  /\ UNCHANGED <<tmp, final, handles, local, offset, sound>> /\ KeepAllButFile

(* What was sent: the size of the local file, all of it acknowledged.      *)
Stat == pc = "stat" /\ StatIs(IF offset = local THEN local ELSE NoFile, "verify")

(* Mutant: the second STAT is compared with what was sent.                 *)
Mut_VerifyWhatWasSent == pc = "verify" /\ StatIs(local, "rename")

(* What was captured.                                                      *)
Verify == pc = "verify" /\ StatIs(bytes, "rename")

(* RENAME publishes.  The deadline check after it leaves the file published. *)
Rename ==
  /\ pc = "rename"
  /\ \E o \in Outcomes :
       /\ Exchange(o)
       /\ IF Applied(o)
            THEN /\ tmp' = [tmp EXCEPT ![run] = NoFile]
                 /\ final' = [final EXCEPT ![run] = tmp[run]]
                 /\ sound' = IF tmp[run] = Chunks THEN sound \cup {run} ELSE sound
            ELSE UNCHANGED <<tmp, final, sound>>
       /\ IF o = "ok" THEN StepEnds("show") ELSE Fail("channel", "discard")
  /\ UNCHANGED <<handles, local, offset>> /\ KeepAllButFile

(* Mutant: the failed upload's temporary file is left to be cleaned up later. *)
Mut_LeaveTemporary ==
  /\ pc = "discard"
  /\ Goto("finish")
  /\ UNCHANGED <<link, tmp, final, handles, local, offset, sound>> /\ KeepAllButFile

(* REMOVE of the temporary file.  A server that let it be made lets it go;
   NO_SUCH_FILE is the other answer.                                       *)
Discard ==
  /\ pc = "discard"
  /\ \E o \in Outcomes :
       /\ Exchange(o)
       /\ o = "refused" => tmp[run] = NoFile
       /\ tmp' = IF Applied(o) THEN [tmp EXCEPT ![run] = NoFile] ELSE tmp
  /\ Goto("finish")
  /\ UNCHANGED <<final, handles, local, offset, sound>> /\ KeepAllButFile

-----------------------------------------------------------------------------
(* Publish: the clipboard, the chord, the clipboard again.                 *)

KeepAllButDesk ==
  /\ UNCHANGED <<remote, upload, comp, plan, sound>>
  /\ KeepOutside

SetText ==
  /\ pc = "show"
  /\ \/ /\ clip' = run /\ shown' = shown \cup {run}
        /\ Goto("aim")
     \/ Fail("local", "finish") /\ UNCHANGED <<clip, shown>>
  /\ UNCHANGED <<aim, pasted>> /\ KeepAllButDesk

(* Win32Platform::Paste loads the target; without one it sends nothing.    *)
Aim ==
  /\ pc = "aim"
  /\ aim' = target
  /\ IF target = NoWindow THEN Fail("local", "restore") ELSE Goto("focus")
  /\ UNCHANGED <<clip, shown, pasted>> /\ KeepAllButDesk

(* After delay_ms it compares the foreground window ...                    *)
CheckFocus ==
  /\ pc = "focus"
  /\ IF focus = aim THEN Goto("chord") ELSE Fail("local", "restore")
  /\ UNCHANGED <<clip, aim, shown, pasted>> /\ KeepAllButDesk

(* ... and sends the chord, all of whose events must be accepted.          *)
SendChord ==
  /\ pc = "chord"
  /\ \/ pasted' = pasted \cup {run} /\ Goto("restore")
     \/ UNCHANGED pasted /\ Fail("local", "restore")
  /\ UNCHANGED <<clip, aim, shown>> /\ KeepAllButDesk

(* The image goes back even when the chord failed; a restore that fails
   changes no outcome.  It reads the captured file.                        *)
Restore ==
  /\ pc = "restore"
  /\ \/ Restoring /\ temp /\ clip' = Image
     \/ UNCHANGED clip
  /\ IF error = "none" THEN StepEnds("opendir") ELSE Goto("finish")
  /\ UNCHANGED <<aim, shown, pasted>> /\ KeepAllButDesk

-----------------------------------------------------------------------------
(* Prune: DirOps::Cleanup.  Its failure fails nothing.                     *)

KeepAllButPrune ==
  /\ UNCHANGED <<clip, dirs, blocked, tmp, upload, comp, aim, sound, shown, pasted>>
  /\ KeepOutside

OpenDir ==
  /\ pc = "opendir"
  /\ \E o \in Outcomes :
       /\ Exchange(o)
       /\ handles' = IF Applied(o) THEN handles \cup {"dir"} ELSE handles
       /\ Goto(IF o = "ok" THEN "readdir" ELSE "finish")
  /\ plan' = {}
  /\ UNCHANGED final /\ KeepAllButPrune

Listed == {r \in Runs : final[r] # NoFile}

(* PlanRetention: what is not among the newest, and what is too old.  The
   run's own file is not too old, so far as the clocks of both machines agree
   to within max_age_seconds.                                              *)
Plans ==
  {{r \in Listed : Cardinality({q \in Listed : q > r}) >= KeepNewest} \cup aged :
     aged \in SUBSET (Listed \ {run})}

(* The READDIRs, as one exchange.  A truncated listing plans nothing.      *)
ReadDir ==
  /\ pc = "readdir"
  /\ \E o \in Outcomes :
       /\ Exchange(o)
       /\ plan' \in IF o = "ok" THEN Plans \cup {{}} ELSE {{}}
  /\ Goto("closedir")
  /\ UNCHANGED <<final, handles>> /\ KeepAllButPrune

CloseDir ==
  /\ pc = "closedir"
  /\ \E o \in Outcomes :
       /\ Exchange(o)
       /\ handles' = IF o = "unsent" THEN handles ELSE handles \ {"dir"}
       /\ IF o = "ok" /\ plan # {} THEN Goto("unlink") /\ UNCHANGED plan
                                   ELSE Goto("finish") /\ plan' = {}
  /\ UNCHANGED final /\ KeepAllButPrune

(* One REMOVE after another, failures counted and passed over.             *)
Unlink ==
  /\ pc = "unlink"
  /\ \E o \in Outcomes, r \in plan :
       /\ Exchange(o)
       /\ final' = IF Applied(o) THEN [final EXCEPT ![r] = NoFile] ELSE final
       /\ plan' = plan \ {r}
  /\ Goto(IF plan' = {} THEN "finish" ELSE "unlink")
  /\ UNCHANGED handles /\ KeepAllButPrune

-----------------------------------------------------------------------------
(* Mutant: only a run that succeeds releases its capture.                  *)
Mut_ReleaseOnSuccess ==
  /\ temp' = (temp /\ error # "none")
  /\ bytes' = 0 /\ local' = 0 /\ offset' = 0

(* CaptureGuard's destructor, on every return of Run.                      *)
Release == temp' = FALSE /\ bytes' = 0 /\ local' = 0 /\ offset' = 0

(* The end of Run: the flight retires, the last deadline check, the capture
   is released, the flag falls.  RunOnce then keeps the channel or, unless
   the error was local (ChannelIsBad), drops it.                           *)
Finish ==
  /\ pc = "finish"
  /\ LET failed == IF error = "none" /\ late THEN "channel" ELSE error IN
       /\ result' = [result EXCEPT ![run] = IF failed = "none" THEN "success" ELSE "error"]
       /\ error' = failed
       /\ link' = IF failed = "channel" THEN "down" ELSE link
  /\ Release
  /\ comp' = 1 /\ aim' = NoWindow /\ plan' = {}
  /\ pc' = "wait"
  /\ UNCHANGED <<desktop, trigger, ticket, late, disk, handles, sound, shown, pasted>>

Run ==
  \/ Capture \/ Realpath \/ Mkdir \/ Probe
  \/ Open \/ Write \/ Close \/ Stat \/ Verify \/ Rename \/ Discard
  \/ SetText \/ Aim \/ CheckFocus \/ SendChord \/ Restore
  \/ OpenDir \/ ReadDir \/ CloseDir \/ Unlink
  \/ Finish

Environment ==
  \/ SwitchWindow \/ Copy \/ Press \/ Trigger
  \/ ChildDies \/ Expire \/ OtherCleanup

Next == Run \/ WakeUp \/ Connect \/ NoticeLoss \/ Retry \/ Environment

Spec == Init /\ [][Next]_vars

-----------------------------------------------------------------------------
(* Properties.                                                             *)

(* What the run has come to, as Delivery sees it.                          *)
StageOf ==
  [r \in Runs |-> CASE r \in pasted -> "pasted"
                    [] r \in shown \ pasted -> "shown"
                    [] r \in sound \ (shown \cup pasted) -> "published"
                    [] OTHER -> "nothing"]

Promise == INSTANCE Delivery WITH Runs <- Runs, stage <- StageOf, result <- result

(* The contract at the head of upload_pipeline.hpp: no path on the clipboard
   before the whole image is published, no chord before the path, success only
   after the chord, and nothing of a run after its report.                 *)
ImplementsDelivery == Promise!Spec

(* No press is served twice: however presses, handshakes and retries
   interleave, there are never more chords than presses that were accepted. *)
NoExtraPaste == Cardinality(pasted) + (IF event THEN 1 ELSE 0) <= accepted

(* Over a channel that holds, a run that ends has closed every handle it was
   given and left no temporary file behind, whichever step failed ("leave no
   half-published temp behind"; a handle left open stays "for the rest of the
   session").                                                              *)
SessionClean ==
  /\ link = "up" /\ pc \in {"wait", "finish"} => handles = {}
  /\ link = "up" /\ pc = "finish" => tmp[run] = NoFile

(* The capture's local file is there for as long as a step may read it, the
   restore at the end included, and gone once the run is over.             *)
CaptureLifetime ==
  /\ pc \in InRun \ {"capture", "finish"} => temp
  /\ ~InFlight => ~temp

(* The upload writes below remote_dir, and shows a path below it, only once
   the whole of it is there as directories: the FAILURE a server answers for a
   directory that exists is told apart from the one for a directory it will
   not make.  StatExists takes whatever has the last component's name for that
   directory, so a file of that name lets the run go on, as far as the OPEN,
   the STAT after its refusal, and no further.                             *)
DirectoryFirst ==
  /\ pc \in {"open", "stat"} => dirs = Depth \/ (blocked /\ dirs = Depth - 1)
  /\ pc \in {"write", "close", "verify", "rename"} => dirs = Depth
  /\ shown # {} => dirs = Depth

(* The chord goes to the window the hotkey was pressed in: target_ "is the
   foreground window captured when the hotkey fired" (main_win32.cpp).     *)
PasteWherePressed == pc = "chord" => aim = served
=============================================================================
