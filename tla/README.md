# picopaste in TLA+

picopaste is a Windows tray program: a hotkey captures the image on the
clipboard, uploads it over SFTP through an `ssh` child process, puts the remote
path on the clipboard and pastes it into the window that had the focus. This
directory holds its specifications, the TLC configurations that check them on
small instances, and proofs checked by TLAPS.

Paths below are relative to the repository; `src/core/...` is the code of the
repository's own `src` directory.

## 1. The system

| Component | State it keeps | Operations | Talks to |
|---|---|---|---|
| Lifecycle (`core/app/lifecycle.*`) | state of a 7-state machine, failed attempts, backoff delay, time of the last Ready | `Post(event)`, `Health`, `RetryDelayMs` | driven by the upload worker only |
| Upload pipeline (`core/app/upload_pipeline.*`) | single-flight flag, generation, start time, expiry latch (all atomics), name counter | `Run` (capture, mkdir, upload and verify, publish, prune), `UploadOverdue`, `in_flight` | `Run` on the worker, `UploadOverdue` on the main thread's timer |
| Upload worker (`platform/win32/main_win32.cpp`, `UploadWorker`) | the ssh child, the SFTP client, the stop flag, the published child handle, the handshake deadline | `Loop`, `RunOnce`, `EnsureChannel`, `SpawnChannel`, `DropChannel`; called from the main thread: `Wake`, `RequestStop`, `AbortChannel`, `ConnectOverdue`, `Stop` | posts notices to the main thread's queue |
| Main message loop (`RunInteractive`) | the probe's timer, the colour on show, the chord | hotkey, notices, timer tick, tray commands, the exit path | wakes the worker, terminates its child |
| Child stream (`stream_win32.cpp`, `stream_posix.cpp`) | pipe ends, process handle | `Spawn`, `Close`, `running`, blocking read and write | the ssh process |
| SFTP client (`core/sftp/client.cpp`, `packet.cpp`) | next request id, buffers | `Init`, `Realpath`, `MkdirAll`, `UploadFile`, `StatSize`, `Rename`, `Remove`, `ListDir`, `ReadFile`, `WriteFile` | a byte stream to sshd |
| Retention (`core/sftp/dir_ops.cpp`) | none | `PlanRetention` (pure), `Cleanup` | SFTP client |
| Hook installer (`core/app/hook_install.cpp`) | none | `Install`, `Remove`, `Restore` on a remote settings file; not wired to the program | SFTP client |
| Logging (`core/log/*`) | ring of records, file and its size | `TryPush`, `TryPop`, `Write`, `Rotate`; not wired to the program | any thread to one writer |
| Clipboard, injection, hotkey, tray (`platform/win32`) | snapshot of the clipboard, key latches, icon | capture, restore, `SendPasteChord`, chord hook, menu | Windows |
| Single instance (`single_instance.cpp`) | the named mutex, the owner record, two job objects | `Acquire`, `SetupJobObjects`, `Close`; `RelaunchSelf` in `tray.cpp` | the previous and the next process |
| Configuration (`core/app/config.cpp`) | a record read once at the start | parse, check ranges | none |

How they interact. The main thread owns the tray and its message queue and never
blocks on I/O. The worker owns everything about the channel and blocks three
ways: on its event and the child's handle, in the SFTP handshake, and inside an
upload. Both of the last two are blocking pipe reads with no timeout. The only
way out of them is that the main thread's timer notices a passed deadline and
terminates the child through a handle the worker published in an atomic: the
pipe breaks and the read fails. The worker reports back with posted messages,
which arm and disarm that timer and colour the tray.

What is hard here: the deadline probe is split over two threads with six atomics
and no lock; the handle that is terminated belongs to another thread that may be
closing it; the stop flag and the handle form a store-then-load pair on both
sides; the tray's colour is a copy of a copy of the machine's state; and the
channel's death is learnt from whichever of the wait, a failed handshake or a
failed upload sees it first. Every such place is listed, at its line, under
`hazards` in `PROJECT.json`.

What makes each component correct:

* Lifecycle: no report is dropped that matters, the colour follows the channel,
  the delay climbs to its ceiling and is reset only by a link that was stable.
* Pipeline: one flight at a time; a flight is expired only for its own lateness,
  is counted once, and does not hold the slot for ever; nothing reaches the
  clipboard unless the whole file was verified and published; the chord goes to
  the window of the press; whatever fails, no handle, temporary file or capture
  is left behind.
* Worker and main loop: client, machine and child agree whenever the worker
  looks around; the tray ends up showing the machine's health; a loss is
  announced; an idle process runs no timer; a quit, an upload and a handshake
  all end.
* SFTP client: a failure leaves no handle open, and whatever follows a reply that
  could not be read fails too.
* Retention: a listing that is acted on is true, each deletion has a reason, and a
  pass that reports no failure has applied its policy.
* Hook installer: after any failure or crash the settings file or its backup
  still holds the user's text, and what an operation reports is so.
* Restart: at most one instance works, and a restart ends in one that serves the
  hotkey or in a message.
* Hotkey and chord: a press of the hotkey fires, nothing fires twice while its key
  is held, and the chord arrives as a paste whatever the user holds.
* Clipboard capture: the best format that can be read, or the failure the user
  can act on; no file and no open clipboard left behind.

## 2. The modules

| Module | Models | Checked by |
|---|---|---|
| `LifecycleTable` | the transition table and `Health` of `lifecycle.cpp` | through the two below |
| `Lifecycle` (extends the table) | the machine with its backoff data and a clock | `MCLifecycle` |
| `FlightDeadline` | `Run`'s atomics and `UploadOverdue`, one access per step | `MCFlightDeadline` |
| `Supervisor` (extends the table) | the worker, the main loop and what passes between them | `MCSupervisor` |
| `Delivery` | abstract: what a run promises its user | refined by `Pipeline` |
| `Pipeline` | a press end to end: hotkey handler, worker, `Run`, every request it makes, clipboard, chord, cleanup | `MCPipeline` |
| `SingleInstance` | the mutex, the owner record and the memory job between processes | through `Restart` |
| `Restart` (extends it) | a process from launch to exit, its chord, `RelaunchSelf` | `MCRestart` |
| `Wire` | the reading side of the packet codec | through `Retention` |
| `SftpClient` | one exchange over a stream that breaks or falls out of step | through the next two |
| `HookInstall` (extends it) | the hook installer on the remote settings file, with `ReadFile` and `WriteFile` | through `Remote` |
| `Retention` (extends both) | a cleanup pass on a directory others change | through `Remote` |
| `Remote` | either of the two over one client | `MCRemote` |
| `Chord` | the hotkey and the paste chord at one keyboard | through `Desktop` |
| `ClipboardCapture` | the capture of an image, format by format | through `Desktop` |
| `Desktop` | either of the two | `MCDesktop` |
| `LifecycleProofs`, `FlightDeadlineProofs`, `PipelineProofs`, `SupervisorProofs`, `RestartProofs` | theorems of the modules of those names | TLAPS |
| `HookInstallProofs`, `RetentionProofs` (extends the former) | theorems of `Remote` about the installer and about the cleanup | TLAPS |
| `DesktopProofs` | theorems of `Desktop` | TLAPS |

**Lifecycle.** `Table` has one row per `Handle<State>` function. `Post(e)` is
`Lifecycle::Post`: one disjunct per kind of handler. `attempt`, `readySince`,
`stable` and `delay` are the fields of `Context`; `Ramp` is the doubling loop of
`BackoffDelayMs`, `BackoffDelay` its reset and its clamp. `link` is history: what
the last report said of the channel. The statistics counters are left out, they
gate nothing. Events come in any order, except that nothing is reported of a
channel before `kStart`, which is the worker's first post.

**FlightDeadline.** A runner is a thread in `Run`; its `pc` names the atomic
access it is about to make (`Enter` is the exchange, `Number` the fetch-add,
`Stamp`, `Arm` and `Activate` the stores, `Check` a `DeadlinePassed`, `Disarm`,
`Retire`, `Report` and `Leave` the way out). The watchdog is the timer tick: one
step per line of `UploadOverdue`, then `AbortChannel`, which sets `cut`. A step of
the upload is opaque: it ends, fails or stays blocked; once `cut`, it fails.
`started`, `latched` and `outcome` are history. The atomics are sequentially
consistent here: the watchdog relies only on the release store of
`active_generation_` publishing the two relaxed stores before it. The program
has one worker; several runners check that the flag would hold up for more, as
its comment claims.

**Supervisor.** `wpc` is where the worker is, `mpc` where the main thread is.
One action per stretch of code between two points where the other thread can
notice something: `BeginConnect` (the deadline is published), `Spawn`, `Publish`
(the handle is stored) and `Drain` (the store reaches memory), `Recheck`,
`InitOk`/`InitFails`, `Connected`/`ConnectFailed` for `EnsureChannel`;
`Unlever` then `CloseInSpawn`/`CloseChannel` for `DropChannel`; `LoopTop`,
`WakeUp`, `ChildExit`, `TimeoutFires` for the wait; `EnterRun` and the three ways
out of `Run`. `AbortChannel` is two steps, `LoadLever` and `Terminate`, so that
the handle may be closed (and its value reused) in between: `target` is then
`"stale"`. `Receive` is the notice handler, `Tick` the timer, `RequestStop` to
`Join` the exit path. `AfterEnsure` says where `EnsureChannel` returns to and what
its caller posts. Time is abstract: a pending deadline passes at some moment, the
retry's timeout fires at some moment. `FlightDeadline` refines what is one step
here (the latch by the tick, `latched` read by `RunOk`); the backoff's data is in
`Lifecycle`. In the `TimeoutFires`/`WakeUp`/`ChildExit` choice the lowest handle
wins, as `WaitForMultipleObjects` specifies.

**Delivery** has two variables: how far each run's path has come (`stage`:
nothing, published, shown, pasted) and what the run reported. Its actions are the
contract at the head of `upload_pipeline.hpp`: one stage after the other, one run
at a time, success only after the chord.

**Pipeline.** `pc` is the worker's next step: a request of `sftp::Client`, a call
of the clipboard or injection table, or its place in the loop outside `Run`. The
client sends one request and reads one reply, so a request is one action, an
`Exchange` with four outcomes: done, refused, lost before the server acted, lost
after. `Capture` is `CaptureLocal`; `Realpath`, `Mkdir`, `Probe` are
`EnsureRemoteDir` (`MkdirAll` with the STAT that tells an existing directory from
a refusal); `Open`, `Write`, `Close`, `Stat`, `Verify`, `Rename`, `Discard` are
`UploadFile` and `UploadAndVerify`; `SetText`, `Aim`, `CheckFocus`, `SendChord`,
`Restore` are `Publish` with `Win32Platform::Paste`; `OpenDir`, `ReadDir`,
`CloseDir`, `Unlink` are `Prune`; `Finish` is the end of `Run` with both guards'
destructors, and what `RunOnce` does of the error. `error` keeps the class of the
first failure, as `ChannelIsBad` divides them. `StepEnds` is `DeadlinePassed`
between the steps, `Expire` the timer tick that latches and kills the child.

The disk is what the run relies on of it: how much of `remote_dir` exists, whether
something that is no directory has the name of the next component (`blocked`), and
the size, in WRITE requests, of each run's file under its temporary and final name.
A server may acknowledge what it does not store, and the local file may be
shortened after the capture. `Probe` is `StatExists`, which takes anything that
exists (`Exists`), a file included: a run can pass `MkdirAll` with a file in the
place of the last component and learn of it from the OPEN it sends there, which
makes nothing (`Made`). `DirectoryFirst` allows for just that: with an OPEN, or the
STAT that follows its refusal, either the whole directory is there or only its last
component is not and a file has that name; with a temporary file, a published file
or a path shown, the whole directory is there. Names are the runs' numbers, and the retention's
order by age is the order of the runs. Around the worker the user switches
windows and copies, the child dies, and another machine's cleanup removes files.
`Press` and `Trigger` are the two halves of the hotkey handler: it looks at
`InFlight()`, then stores the target and sets the event. `served`, `sound`,
`shown`, `pasted` and `result` are history.

What is one step here and many elsewhere: the deadline (`FlightDeadline`), and
the loop, the handshake and the probe's lever (`Supervisor`).

**SingleInstance and Restart.** `at` is where a process is, from `Launch` through
`Acquire` and the loop to `CloseMutex`. The processes share what the kernel keeps:
who holds a handle to the mutex and to the section (both objects live as long as
any handle does, so the short-lived handle of a failed attempt counts), the record
in the section, written and read one field per step, and the registration of the
chord, which a third program also wants. `RelaunchSelf` is `Relaunch` and `Probe`;
the loop's part of it is `MenuRestart` (the chord is released before the dispatch)
and `TakeBack`. `Die` ends any process at any point, and its handles go with it.
Two things the model makes visible and no document denies: a replacement whose
start-up fails shows its message box and stays alive behind it for longer than the
300 ms probe, so `RelaunchSelf` calls that a success and the old process quits (the
user does get the box, which is what `RestartCompletes` asks); and a process that
shows that box after it acquired the mutex keeps the mutex until the box is closed.
A read of the owner record that a new owner overtakes can mix two owners;
`overtaken` marks it and `OwnerReportTrue` speaks of the others. Bounds: a process
starts one replacement, and one process is killed.

**Wire, SftpClient.** `Wire` is `BufferReader` and `ParseAttrs` over a payload as a
sequence of typed fields: what can go wrong is the number of fields a reader
consumes. `SftpClient` has one `Exchange` per request with the ways it `Ends`:
done, refused, cut before or after the server acted, or unreadable. After a frame
too large for the buffer the client and the server are out of step: requests still
reach the server, which acts on them, and no reply is understood again.

**HookInstall.** `op.stage` walks through `ReadRemote`, `BackupOriginal`,
`WriteRemote`, `VerifyBytes` and the roll-back of `WriteVerified`; `Failed` is what
each stage's failure leads to, `After` what follows its success. `WriteFile` is one
step per request (`WriteOpen`, `WriteChunk`, `WriteClose`), since it can stop half
way; `ReadFile` is one step, since its requests change nothing on the server, and
its loop with the probe for one byte more is the operator of that name. A file is a
sequence of units; a missing and a blank one read alike, as in the code. A crash
may fall between any two requests. What the model shows and the properties allow
for:

* A write that fails and cannot be rolled back leaves the file truncated and the
  backup whole, and is reported as `kWriteFailed` ("writeFailed"). So is a refused
  WRITE after which the roll-back succeeded: `op.cause` carries the error of the
  stage that failed, and `kWriteFailed` alone does not tell the caller whether the
  file was put back (section 6).
* With nothing to back up, a failed write is reported with either error and may
  leave part of the new document.
* A merged document larger than the buffer is written, fails its read-back and is
  rolled back.
* A READ answered with no data ends the reading, and well, wherever the file is
  (`Starved`). An operation that goes on from such a reading keeps a part of the
  file as its backup, or none when that part is blank, and overwrites the rest.
  `whole` is history of it, and the text is owed to nobody from then on
  (`authored`): `SettingsRecoverable` and what `OutcomeIsTrue` says of the document
  hold of servers whose READs give data up to the end of the file. A read-back cut
  short in this way is noticed, as the comparison fails.

Assumed: the stamps of backups increase (the clock is not set back
within a second), no request of a dead session is applied later, and the user
edits the file only between operations (an edit during one is overwritten, and
neither the code nor its contract speaks of it). `BuildRemove` also drops groups
the user had left empty; a document has no empty groups here.

**Retention.** A pass is `OpenDir`, `ReadNames` until `ReadEnd`, `CloseDir` with
`PlanRetention`, and one `RemoveEntry` per entry of the plan. Server and client
have clocks of their own. `Others` is another machine, before and after each
request. Names are used once and compare as numbers; a foreign file is only a name.
Removals are tried in every order. An empty NAME reply is left out.

**Remote** and **Desktop** each put two components into one behaviour that is of
one of them (`job`, `part`): they share code and no state.

**Chord.** `held` is what the user holds and `down` what the system reports, which
differ once `SendPasteChord` has let go of a key the user still holds. There is a
left and a right Ctrl and Shift: the hotkey takes either (`ModifiersDown`), the
injected chord lets go of the left one only. The key pressed last repeats, and no
other. `ParseHotkey` reads the text as its tokens; `ChordHookProc` is the hook for
the trigger key, with `keyDown` its latch; `ReleaseModifiers`, `Rejected` and
`TypeChord` are `SendPasteChord`. `due` says whether the key went down with exactly
the hotkey's modifiers, and `posted` counts the messages since: `FiresAreThePresses`
asks that a press which is due fires, that nothing else does, and that nothing
fires twice while the key is held. It has three exceptions, each of which TLC
reaches and none of which is a press that is lost:

* The hook posts for a key that repeats when one modifier too many was held and is
  let go; a registered hotkey does not. The latch is a latch of the post, not of the
  key (section 6).
* `Reopened`: with shift+v hooked and Shift held on the right, the V that the program
  types releases the latch, and the V that the user holds fires again.
* `merged`: in the 15 ms after `ReleaseModifiers` the user pressed Alt or Win again;
  `PasteArrives` excuses it too.

Left out: case, the display string, a hook Windows removes for being slow, a key-up
that goes to the secure desktop. Alt and Win stand for the key on either side, since
`ReleaseModifiers` lets go of both. `MOD_NOREPEAT` is taken to be one message per
press of the key. `SendInput` inserts all of its events or none.

**ClipboardCapture.** `OpenClipboard` is the retry loop, `ListFormats` the
inspection, and `Fetch` with `TakePng` or `TakeDib` one format; `Fail` is
`WorseFailure` and the step to the next listed format, `Return` every way out with
its two guards. A block's kind says what its owner published. A registered PNG is
taken as it is, so a corrupt one is captured: the code looks at its size only.

### Plan

Written, in this order: LifecycleTable, Lifecycle and its proofs, FlightDeadline
and its proofs, Supervisor, Delivery, Pipeline and its proofs, SingleInstance and
Restart, Wire, SftpClient, HookInstall, Retention and Remote, Chord,
ClipboardCapture and Desktop, then the proofs of the safety of the last five
systems. Every invariant and every action property of a passing run is a theorem
now. Next, by importance:

1. What `Delivery` promises by itself (no chord for what was not shown, success
   only for what was pasted), as theorems of it that the refinement carries over
   to `Pipeline`.
2. The upload's half of the client, `Exchange` by `Exchange`, against
   `SftpClient`: `Pipeline` states its own four outcomes.

## 3. Runs

| Run | Instance | Shows |
|---|---|---|
| `lifecycle` | base 1, ceiling 6, reset 3, 5 failures, clock to 8 | types (with the delay's range), `GreenIffLinkUp`, `NoZeroWait`, `RampKeptByFlapping` |
| `flight` | 2 runners, timeout 2, 2 flights, clock to 4 | types, `SingleFlight`, `OnlyOverdueLatched`, `CountedOncePerFlight`, `FlightEnds` |
| `supervisor` | deadline on, queue of 4 | types, `ClientIffReady`, `LeverIsLive`, `TrayShowsHealth`, `IdleMeansNoTimer`, `LossAnnounced`, `ShutdownCompletes`, `UploadEnds`, `BracketedHandshakeEnds`, `PressServed` |
| `pipeline` | 2 windows, image of 2 writes, directory 2 deep, newest 1 kept, 3 presses | types, `NoExtraPaste`, `SessionClean`, `CaptureLifetime`, `DirectoryFirst`, and that `Pipeline` implements `Delivery` |
| `restart` | 3 launches, 2 polls, 2 reads of the record, one process killed | types, `OneInstance`, `OwnerReportTrue`, `HotkeyAliveOrSaid`, `RestartCompletes` |
| `remote` | 2 faults; 3 operations and an edit on a file of up to 3 units with room for 2; or 3 uploads and a foreign file, 3 times, 3 policies, 2 entries listed | types, `SettingsRecoverable`, `OutcomeIsTrue`, `ListingTrue`, `RemovalsJustified`, `PolicyApplied` |
| `desktop` | 14 hotkey texts, 8 strokes, 2 pastes; or 4 formats of 4 kinds, 3 attempts | types, `FiresAreThePresses`, `PasteArrives`, `CaptureVerdict` |
| `paste_target` | as `pipeline`, 2 presses | violation of `PasteWherePressed` |
| `flight_latch` | as `flight` | violation of `CountedFlightsFail` |
| `dead_child` | as `supervisor` | violation of `DeadChannelNoticed` |
| `retry_handshake` | as `supervisor` | violation of `HandshakeEnds` |
| `shutdown_store` | as `supervisor`, with a store buffer | violation of `ShutdownCompletes` |

Bounds. `lifecycle`: the ceiling is off the powers of two, as 60000 is for 5000,
so the clamp matters; five failures pass the ceiling; the clock leaves room for
a stable link, a flap and another stable link. `flight`: two flights are the
fewest in which a tick can read from one and latch in another; `Room` keeps every
deadline within the clock. `supervisor`: the queue holds an upload's notices and
those of the reconnect after it; a full queue delays the worker, which a thread
message queue of 10000 does not. Everything else in it is finite by itself:
children, handshakes, uploads and presses come without a bound on their number.
`pipeline`: two writes let a transfer stop halfway, two components let the second
directory fail after the first, and with one upload kept the third run has
something to prune while the second is still there; the third press can arrive
while the first one's handshake runs and the second waits in the event. The proofs
of section 4 hold for every value of these, and of the bounds below. `restart`: three launches are a
restart with a launch by hand in between, or two restarts in a row; one process
may be killed, since with two killed a session may rightly end with none.
`remote`: three operations are an install, the remove or the restore that undoes
it, and one over what those left; two faults are the failure of a write and of
its roll-back; the document of a user with both hooks does not fit the buffer and
one with a single hook fills it exactly, which is the edge of `ReadFile`. Three
uploads are one more than a listing takes and two more than the policy keeps, and
three times make ties, age and the future. `Wrap` stands for 2^64 and is above
every time. `desktop`: eight strokes are a chord of three keys held, let go and
pressed again with a paste between; three attempts leave a first, a middle and a
last one.
`flight`, `supervisor`, `restart`, `remote` and `desktop` turn the deadlock check
off: in the first the clock and the flights run out, in the others processes exit,
operations end and the bounds on the user are reached.

Fairness. `FlightDeadline`: the clock advances, the timer ticks and a thread
executes its next line; a step blocked on its peer has no fairness, except that it
fails once the child was terminated (the pipe breaks). `Supervisor`: the same for
both threads; `WaitReturns` because a wait with a signalled handle or an expired
timeout returns; `DeadlinePasses` because the clock advances; `PipeBreaks` as
above. Nothing is assumed of the user, of a peer's answers or of a child's death.
`UploadEnds` and `BracketedHandshakeEnds` except a probe whose `SetTimer` failed,
and `PressServed` also a worker stuck in a retry's handshake: the code keeps no
promise there (see below).

`Restart`: each process is scheduled (weak fairness of its own steps, `Run(p)`);
nothing is asked of the user, who may leave a message box open for ever, nor of
other programs. `RestartCompletes` needs no more, with one assumption on timing in
`ExitIsPrompt`: a predecessor that got its quit is gone, and the short-lived handle
of another attempt is closed, before the last poll of a replacement. For the
predecessor that is the argument of the comment on `kAwaitInstanceMaxMs` (2000 ms:
"a second or two covers every normal handover"); for the handle of another attempt,
which lives for a few system calls, it is an assumption of the model. What
`RestartCompletes` can catch is therefore a handle that is kept, not one that is
open by chance at the last poll.

`Remote`, `Desktop`: safety only; each step of these is a call that returns.

`Pipeline` states no fairness and no liveness: that a run ends is `UploadEnds`
and `FlightEnds`.

### What the violation runs show

* `paste_target`. The handler looks at `InFlight()` and then stores `target_`; the
  worker enters `Run` on its own. In the trace the link is up: the worker is on its
  way into `Run` for the first press when the handler, for a second press in another
  window, still finds nothing in flight; the worker enters and the handler stores.
  The first press's run then pastes into the second's window. The comment on
  `Win32Platform` says that the target is the window of the press. (The handshake
  that may precede `Run` is a longer form of the same: nothing is in flight all
  through it.)
* `flight_latch`. `UploadOverdue` re-reads the generation and then stores the
  latch. If the run retires, reads the latch and returns success in between, the
  latch lands afterwards: `UploadTimeoutCount` counts a flight that succeeded,
  and the child is terminated though nothing is in flight. The comment in `Run`
  says that no new latch can land once the flight is retired.
* `dead_child`. `Loop` reads `running()` once per turn; a child found dead there
  is not waited on, and with the machine in Ready the wait has no timeout. Until
  the next hotkey the tray is green over a dead channel. A run that ends with a
  local error after the probe has killed its child gets there too.
* `retry_handshake`. The supervisory retry is the one caller of `EnsureChannel`
  that posts no `kUploadStarted`: no timer runs, and a peer that accepts and
  stays silent holds the worker for good. A quit still ends it.
* `shutdown_store`. `RequestStop`'s comment argues that either the abort finds the
  handle or the worker finds the stop. That needs sequential consistency between
  a store and a later load of another atomic, which release and acquire do not
  give: with the worker's store still buffered, both loads miss. With
  `StoreBuffer = FALSE` the `supervisor` run checks that the argument is right.

## 4. Proofs

`LifecycleProofs`, for every base, ceiling, reset time and bound that satisfy
`BackoffAssumption`:

* `LifecycleSafe`: `Spec => [](TypeOK /\ GreenIffLinkUp /\ NoZeroWait)`.
* `FlappingNeverHammers`: `Spec => RampKeptByFlapping`.

`Ramp` is a recursive function, so its equation has to be derived before
anything is known of it: `RampExists` builds it by a least-counterexample
argument (`LeastNatural`, from the well-foundedness of the naturals), which
stands in for the induction theorems, whose operator parameters the provers
cannot instantiate. From the equation, `RampType` and `RampClimbs` give
`DelayBounds` (between base and ceiling) and `DelayClimbs` (more failures never
wait less). The invariant `LifecycleInv` adds to the three properties that the
delay in force is at most the one the next failure would set, and what `link`
and `stable` are in each state; the first is what makes the delay's monotonicity
inductive.

`FlightDeadlineProofs`, for every set of runners, timeout and bounds:

* `OneFlight`: `Spec => []SingleFlight`.
* `LatchIsDeserved`: `Spec => []OnlyOverdueLatched`.
* `TimeoutsCountFlights`: `Spec => [](TypeOK /\ CountedOncePerFlight)`.

`FlightInv` is needed because the watchdog works on copies. It says that the
generation it holds is `Settled` (begun, and its start time final), that its copy
of the start time is right as long as that flight is the last one, that what it
compared stays true (`WatchdogKnows`), and that latches climb: the latch equals
the largest latched flight and never exceeds the watchdog's copy, so a flight
that passed the first check has never been latched (`LatchesClimb`). The counter
is then the cardinality of `latched`, less one between the latch and the count.
`RunnerKeeps` and `WatchdogKeeps` have one step per action.

`PipelineProofs`, for every set of windows, number of presses, chunks and
components, and every `KeepNewest`:

* `PipelineImplementsDelivery`: `Spec => ImplementsDelivery`.
* `LeavesNothingBehind`:
  `Spec => [](TypeOK /\ SessionClean /\ CaptureLifetime /\ DirectoryFirst)`.
* `OneChordAPress`: `Spec => []NoExtraPaste`.

Their invariant, `PipeInv`, says what each place of the worker can rely on.
`Tickets` counts a waiting event and a handshake made for a press as runs to come,
so that no press is served twice. `Reports` makes the run in flight the only one
without a report that has begun, which is Delivery's `Turn`. `Errors`, `Stages`
and `Files` carry facts over several exchanges: that the temporary file holds the
captured size when the rename is sent, that the path is the run's own when the
chord goes out, that a report without an error comes after the chord. There is one
lemma per group of steps (`PrepareKeeps`, `UploadKeeps`, `PublishKeeps`,
`PruneKeeps`, `FinishKeeps`, `WorkerKeeps`, `EnvironmentKeeps`). The refinement
maps the history sets to `stage`; `StepRefines` shows that `Rename`, `SetText`,
`SendChord` and `Finish` are Delivery's four actions or stutters, and that all
others stutter.

`SupervisorProofs`, for every bound on the queue, with and without an upload
deadline, and with the worker's store buffered or not:

* `SupervisorTypes`, `ChannelAgrees`, `AbortSeesALiveHandle`, `TrayIsTrue`,
  `IdleIsIdle`: `Spec => []` of `TypeOK`, `ClientIffReady`, `LeverIsLive`,
  `TrayShowsHealth` and `IdleMeansNoTimer`.
* `NoLossPassesSilently`: `Spec => LossAnnounced`.

The tray and the probe are copies that lag by the notices under way, so what
they show now is no invariant. `SupervisorInv` says what they will show once the
queue is read: of the notices about a thing the last one in the queue is right,
or there is none and the thing is right already (`Settled`). `TrayTold` says so
of the colour, which any `kUploadStarted` may turn red, `ProbeTold` of the timer
outside the bracket of an upload or a handshake, and `NoSilentLoss` that only the
very first notice may be yellow and say nothing. `Places` is what each place of
the worker knows of machine, client and child; `LeverHeld` that a published
handle, in memory or still in the buffer, has a channel, and that it is withdrawn
before the close. That the last of these survives the buffer is the half of the
argument on `AbortChannel` that does not need sequential consistency; the other
half is `shutdown_store` above.

`RestartProofs`, for every number of processes and every bound on their polls,
with any of them killed anywhere:

* `RestartTypes`, `NeverTwoInstances`, `ReportNamesAnOwner`,
  `HotkeyNeverLostSilently`: `Spec => []` of `TypeOK`, `OneInstance`,
  `OwnerReportTrue` and `HotkeyAliveOrSaid`.

That the owner holds the mutex is not enough: a failed attempt holds it too, for
a moment, and keeps the object alive. `Holders` speaks of the handles of those
that are not about to back off: of these there is one. `Chords` puts a chord
under that handle, which gives `OneInstance`. For the record, `Record` follows
the owner's stores one by one and `Readers` says what a reader that was not
overtaken may conclude from the fields it has read.

`HookInstallProofs`, for every capacity of the buffer and any number of
operations, edits and faults, the holes in a file being no text
(`HookInstallAssumption`):

* `UserTextSurvives`: `Spec => []SettingsRecoverable`.
* `ReportsAreTrue`: `Spec => []OutcomeIsTrue`.

Both are about servers whose READs give data up to the end of the file, as section 2
says of `Starved`: the operations that met another are in the behaviours, and the
properties ask less of them. `HookInv` says for each stage what the ones before it
have established. `Found`: until the first write of the original the file is what
the operation found, and what it keeps for the roll-back is that, to the byte, when
the reading was whole. `Preserved`: the text is in
the file, or in a backup that is not the one under way; from the first write on
it is in a backup, which `verifyBackup` has shown. `Intended`: what is written is
the document found with the hook in or out and nothing else. `ReadFileTakesAll` is the
lemma on the reading loop: whatever the capacity, it fails or returns the file up to
where the server stopped giving data, which is the whole of it otherwise, by descent
on what is left.

`RetentionProofs`, for every directory with finitely many names, every policy,
limit of the listing, size of a reply, groups of attributes and clock below
`Wrap` (`RetentionAssumption`):

* `ListingIsTrue`, `PolicyIsApplied`: `Spec => []` of `ListingTrue` and
  `PolicyApplied`.
* `DeletionsHaveAReason`: `Spec => RemovalsJustified`.
* `RemoteTypes`: `Spec => []TypeOK`, for `Remote`, with `HookInv`.

The first half is about the packet codec. `ReadFields` and `AttrsRead` show that
a reader which starts where a server's ATTRS starts ends where it ends, with the
time that was sent, whichever of the five groups are there; `EntryRead`,
`ReplyWhole` and `ReplyTaken` carry this through a whole reply: what the loop
takes of it are its uploads, each with its own time, or the listing is cut. Its
loops are recursive functions; `LoopExists` gives each its result from a
least-counterexample argument, as in `LifecycleProofs`. `SortExists` and `SortedIs`
show that the entries can be sorted and that those behind the first `keep` have
`keep` newer ones each, and `PlanIs` what is in a plan and what the policy says of
the entries that are not. The second half is the pass: `DirInv` says that what was
listed are the uploads among the names sent (`Listed`), that what is left to remove
is of the plan the listing gave, that every entry which is not left is gone from
the server unless a failure was counted, and that the reasons stand though others
add and remove files (`Carried`, `StaysJustified`: names are used once, so newer
uploads that were there never stop counting).

`DesktopProofs`, for every set of configured texts and any number of strokes,
pastes and attempts:

* `DesktopTypes`, `PressesFire`, `ChordArrivesAsPaste`,
  `CaptureReportIsTrue`: `Spec => []` of `TypeOK`, `FiresAreThePresses`,
  `PasteArrives` and `CaptureVerdict`.

`PressesFire` carries the three exceptions of the property it proves (section 2).
`ChordInv` adds to the properties what makes them inductive: what `ParseHotkey`
accepts (`Binding`: never ctrl+v or ctrl+shift+v, never a key without a modifier),
that between the look at the keys and the chord no merging modifier is down
(`LetGo`), and that the hook's latch is set under a key that repeats and has fired
(`Latched`): where it is not, the chord's own V has released it, which leaves down
the right Ctrl and Shift at most, and of the hotkeys made of those two only shift+v
is accepted. `CaptureInv` says in `SoFar` that the formats tried
are the listed ones before the one at hand, all failed, and that the error kept is
the worst of them in the sense of the report.

Each of these invariants was checked by TLC on the instance of its run first. The
assumptions are those named in the modules, which every run evaluates.

Only model-checked: liveness (`FlightEnds`, `ShutdownCompletes`, `UploadEnds`,
`BracketedHandshakeEnds`, `PressServed`, `RestartCompletes`), since TLAPS proves no
liveness under fairness here, and the violations. The modules declare no
`RECURSIVE` operator, so that all of them can be proved about.

## 5. Not modelled

* The wrap of the 2^32 generation counter (`MaxFlights` stays below it).
* `WAIT_FAILED` in `Loop`: the worker owns valid handles when it waits.
* In `Pipeline`: the contents of names and of images, two uploads of one name (it
  takes one second, one hash and a restart in between), a server that refuses to remove a file it let the run create, a
  clock skew above the retention's age limit, other processes that make or remove
  directories during a run, and the order of the loop's two waits (`Supervisor` has
  it).
* Thread messages lost to the tray menu's modal loop: the model delivers all.
* The red tray of a failed `SetTimer` is modelled, and that the next health
  notice paints over it; no property forbids it, as no document promises more.
* The log ring and sink: not wired to the program, and the ring's concurrency is
  newosp's. The configuration: a file parsed and range-checked once, before any
  thread starts. The self test: a straight line of diagnostics. The POSIX stream,
  which only the integration tests use.
* The red tray of a hotkey that could not be re-registered after a failed restart
  (main_win32.cpp:1325), which the next health notice paints over as well. And
  `TrayShowsHealth` compares the tray with the machine, not with the child: a machine
  in Ready over a dead child is `dead_child`.
* Balloons, tooltips, command line, console, the drawing of the icon and its
  re-Show after Explorer restarts.
* The writing side of the packet codec and the bytes within a field; the bytes of a
  DIB and the codec that makes it a PNG; JSON.
* newosp (`osp::StateMachine` is taken to dispatch an event to the current
  state's handler and to run the entry action on a transition, a self-transition
  included), Windows, ssh and sshd.

## 6. Where comments and documents say otherwise

Five disagreements have a run of their own (section 3). These were met while
modelling and are followed as the code has them:

* docs/design/picopaste-design.md:276 says that every pair of state and event its
  table leaves out is unhandled. The table leaves out `kConnectOk` and `kConnectFail`
  in Degraded, and `HandleDegraded` handles both (lifecycle.cpp:205). `Table` follows
  the code, and `GreenIffLinkUp` needs it to.
* hook_install.cpp:370-372 says that a roll-back which fails is reported as
  `kWriteFailed`, "distinct from the original write/verify error". A refused WRITE is
  `kWriteFailed` as well (client.cpp:249-253) and goes out as it is after a roll-back
  that succeeded (hook_install.cpp:386). `OutcomeIsTrue` therefore asks of
  `kWriteFailed` only that the text is in the file or in a backup.
* The safety contract of hook_install.hpp has no exception for a READ that is
  answered with no data before the end of the file. `ReadFile` takes it for the end
  (client.cpp:808-810), and an original read as blank gets no backup
  (hook_install.cpp:495). SFTP servers answer EOF there; none is known to do this.
* hotkey.cpp:71 says that the hook's latch mirrors `MOD_NOREPEAT`, "re-post only on a
  fresh press". The hook posts on a repeat when the modifiers come to match under a
  key that is held.
* hotkey.cpp:79-81 says that passing injected input through keeps the program's own
  ctrl+shift+v from re-entering. The up of the injected V releases the latch all the
  same; that matters for the hotkey shift+v with Shift held on the right, since the
  chord lets go of the left Shift only.
* The comment in `Client::Mkdir` (client.cpp:643-646) calls a mkdir a no-op if the path
  resolves. A path that resolves to a file passes too; the OPEN below it then fails.
