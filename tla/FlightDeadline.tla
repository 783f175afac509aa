--------------------------- MODULE FlightDeadline ---------------------------
(***************************************************************************)
(* The single-flight flag and the deadline latch of UploadPipeline         *)
(* (src/core/app/upload_pipeline.cpp), one atomic access per step.         *)
(*                                                                         *)
(* A runner is a thread inside UploadPipeline::Run; the watchdog is the    *)
(* main thread's timer tick, which calls UploadOverdue and, when that is   *)
(* true, terminates the ssh child.  The steps of a flight (capture, mkdir, *)
(* upload, publish, prune) are opaque here: a step either ends or stays    *)
(* blocked on a silent peer until the child is terminated.                 *)
(*                                                                         *)
(* The atomics are sequentially consistent in this model.  The code's      *)
(* release store of active_generation_ orders the two relaxed stores       *)
(* before it, which is all the watchdog relies on.                         *)
(***************************************************************************)
EXTENDS Integers, FiniteSets

CONSTANTS
  Runners,       (* threads that may call Run                              *)
  Timeout,       (* upload_timeout_ms; 0 disables the deadline             *)
  MaxFlights,    (* bound: flights, far below the 2^32 wrap of the counter *)
  Horizon        (* bound: last instant of the clock                       *)

ASSUME FlightAssumption ==
  /\ Timeout \in Nat /\ MaxFlights \in Nat /\ Horizon \in Nat

VARIABLES
  (* the atomics of UploadPipeline *)
  inFlight, flightGen, activeGen, expiredGen, startMs, armed, timeouts,
  now,           (* the injected clock                                     *)
  (* a runner's stack: where it is, its generation, the step it is in, and
     whether the chain of steps has failed                                 *)
  pc, gen, step, error,
  (* the watchdog's stack: where it is, and its two local copies           *)
  wpc, wgen, wstart,
  (* history: when each flight was stamped, which flights were latched,
     and how each ended                                                    *)
  started, latched, outcome,
  cut            (* the ssh child has been terminated                      *)

atomics  == <<inFlight, flightGen, activeGen, expiredGen, startMs, armed, timeouts>>
locals   == <<pc, gen, step, error>>
watchdog == <<wpc, wgen, wstart>>
history  == <<started, latched, outcome>>
vars     == <<atomics, now, locals, watchdog, history, cut>>

Flights == 1 .. MaxFlights

(* The steps of Run that end at a deadline check, and the one that does not. *)
Capture == 1
Publish == 4
Prune   == 5

-----------------------------------------------------------------------------
Init ==
  /\ inFlight = FALSE
  /\ flightGen = 0 /\ activeGen = 0 /\ expiredGen = 0
  /\ startMs = 0 /\ armed = FALSE /\ timeouts = 0
  /\ now = 0
  /\ pc = [r \in Runners |-> "idle"]
  /\ gen = [r \in Runners |-> 0]
  /\ step = [r \in Runners |-> Capture]
  /\ error = [r \in Runners |-> FALSE]
  /\ wpc = "idle" /\ wgen = 0 /\ wstart = 0
  /\ started = [g \in Flights |-> Horizon]
  /\ latched = {}
  /\ outcome = [g \in Flights |-> "none"]
  /\ cut = FALSE

-----------------------------------------------------------------------------
(* Run: taking the slot and arming the deadline.                           *)

(* Bound: the clock leaves every flight's deadline room to pass.           *)
Room(t) == t + Timeout <= Horizon

Goto(r, from, to) == pc[r] = from /\ pc' = [pc EXCEPT ![r] = to]

(* Mutant of Enter: the flag is set without looking at its old value.      *)
Mut_NoExchange(r) ==
  /\ flightGen < MaxFlights /\ Room(now)
  /\ Goto(r, "idle", "number")
  /\ inFlight' = TRUE
  /\ UNCHANGED <<flightGen, activeGen, expiredGen, startMs, armed, timeouts, now,
                 gen, step, error, watchdog, history, cut>>

(* in_flight_.exchange(true): a runner that reads TRUE returns kBusy.      *)
Enter(r) ==
  /\ ~inFlight
  /\ flightGen < MaxFlights /\ Room(now)
  /\ Goto(r, "idle", "number")
  /\ inFlight' = TRUE
  /\ UNCHANGED <<flightGen, activeGen, expiredGen, startMs, armed, timeouts, now,
                 gen, step, error, watchdog, history, cut>>

(* flight_generation_.fetch_add(1) + 1                                     *)
Number(r) ==
  /\ Goto(r, "number", "stamp")
  /\ flightGen' = flightGen + 1
  /\ gen' = [gen EXCEPT ![r] = flightGen + 1]
  /\ step' = [step EXCEPT ![r] = Capture]
  /\ error' = [error EXCEPT ![r] = FALSE]
  /\ UNCHANGED <<inFlight, activeGen, expiredGen, startMs, armed, timeouts, now,
                 watchdog, history, cut>>

(* Mutant of Stamp: the start time of the previous flight stays.           *)
Mut_StampForgotten(r) ==
  /\ Goto(r, "stamp", "arm")
  /\ started' = [started EXCEPT ![gen[r]] = now]
  /\ UNCHANGED <<inFlight, flightGen, activeGen, expiredGen, startMs, armed, timeouts,
                 now, gen, step, error, watchdog, latched, outcome, cut>>

(* flight_start_ms_.store(Now())                                           *)
Stamp(r) ==
  /\ Goto(r, "stamp", "arm")
  /\ startMs' = now
  /\ started' = [started EXCEPT ![gen[r]] = now]
  /\ UNCHANGED <<inFlight, flightGen, activeGen, expiredGen, armed, timeouts, now,
                 gen, step, error, watchdog, latched, outcome, cut>>

(* Mutant of Arm: the flight never arms.                                   *)
Mut_ArmForgotten(r) ==
  /\ Goto(r, "arm", "activate")
  /\ UNCHANGED <<inFlight, flightGen, activeGen, expiredGen, startMs, armed, timeouts,
                 now, gen, step, error, watchdog, history, cut>>

Arm(r) ==
  /\ Goto(r, "arm", "activate")
  /\ armed' = TRUE
  /\ UNCHANGED <<inFlight, flightGen, activeGen, expiredGen, startMs, timeouts, now,
                 gen, step, error, watchdog, history, cut>>

(* The release store that makes the flight visible to the watchdog.  The
   flight starts on a channel that has not been cut.                       *)
Activate(r) ==
  /\ Goto(r, "activate", "step")
  /\ activeGen' = gen[r]
  /\ cut' = FALSE
  /\ UNCHANGED <<inFlight, flightGen, expiredGen, startMs, armed, timeouts, now,
                 gen, step, error, watchdog, history>>

-----------------------------------------------------------------------------
(* Run: the chain of steps.                                                *)

(* A step ends well; every step but Prune is followed by a deadline check. *)
StepEnds(r) ==
  /\ Goto(r, "step", IF step[r] = Prune THEN "disarm" ELSE "check")
  /\ UNCHANGED <<atomics, now, gen, step, error, watchdog, history, cut>>

(* A step fails, of itself or because the channel was cut.  Retention
   failures do not fail the run.                                           *)
StepFails(r) ==
  /\ Goto(r, "step", "disarm")
  /\ error' = [error EXCEPT ![r] = step[r] # Prune]
  /\ UNCHANGED <<atomics, now, gen, step, watchdog, history, cut>>

(* DeadlinePassed between two steps.                                       *)
Check(r) ==
  /\ pc[r] = "check"
  /\ IF expiredGen = gen[r]
     THEN /\ pc' = [pc EXCEPT ![r] = "disarm"]
          /\ error' = [error EXCEPT ![r] = TRUE]
          /\ UNCHANGED step
     ELSE /\ pc' = [pc EXCEPT ![r] = "step"]
          /\ step' = [step EXCEPT ![r] = @ + 1]
          /\ UNCHANGED error
  /\ UNCHANGED <<atomics, now, gen, watchdog, history, cut>>

-----------------------------------------------------------------------------
(* Run: retiring the flight.                                               *)

Disarm(r) ==
  /\ Goto(r, "disarm", "retire")
  /\ armed' = FALSE
  /\ UNCHANGED <<inFlight, flightGen, activeGen, expiredGen, startMs, timeouts, now,
                 gen, step, error, watchdog, history, cut>>

Retire(r) ==
  /\ Goto(r, "retire", "report")
  /\ activeGen' = 0
  /\ UNCHANGED <<inFlight, flightGen, expiredGen, startMs, armed, timeouts, now,
                 gen, step, error, watchdog, history, cut>>

(* The result: a chain that held reads the latch once more.                *)
Report(r) ==
  /\ Goto(r, "report", "leave")
  /\ outcome' = [outcome EXCEPT ![gen[r]] =
                   IF error[r] \/ expiredGen = gen[r] THEN "error" ELSE "success"]
  /\ UNCHANGED <<atomics, now, gen, step, error, watchdog, started, latched, cut>>

(* ~FlightGuard                                                            *)
Leave(r) ==
  /\ Goto(r, "leave", "idle")
  /\ inFlight' = FALSE
  /\ UNCHANGED <<flightGen, activeGen, expiredGen, startMs, armed, timeouts, now,
                 gen, step, error, watchdog, history, cut>>

-----------------------------------------------------------------------------
(* UploadOverdue, called from the timer tick.                              *)

WGoto(from, to) == wpc = from /\ wpc' = to

KeepRun == UNCHANGED <<now, locals, started, outcome>>

LoadActive ==
  /\ activeGen # 0
  /\ WGoto("idle", "latched?")
  /\ wgen' = activeGen
  /\ UNCHANGED <<atomics, wstart, latched, cut>> /\ KeepRun

(* Mutant of CheckLatched: a latched flight is latched again on each tick. *)
Mut_Relatch ==
  /\ wpc = "latched?"
  /\ wpc' = IF Timeout = 0 THEN "idle" ELSE "start"
  /\ UNCHANGED <<atomics, wgen, wstart, latched, cut>> /\ KeepRun

(* Already latched: still overdue, the run has not retired yet.            *)
CheckLatched ==
  /\ wpc = "latched?"
  /\ wpc' = IF expiredGen = wgen THEN "abort"
            ELSE IF Timeout = 0 THEN "idle" ELSE "start"
  /\ UNCHANGED <<atomics, wgen, wstart, latched, cut>> /\ KeepRun

LoadStart ==
  /\ WGoto("start", "armed?")
  /\ wstart' = startMs
  /\ UNCHANGED <<atomics, wgen, latched, cut>> /\ KeepRun

CheckArmed ==
  /\ wpc = "armed?"
  /\ wpc' = IF armed THEN "compare" ELSE "idle"
  /\ UNCHANGED <<atomics, wgen, wstart, latched, cut>> /\ KeepRun

Compare ==
  /\ wpc = "compare"
  /\ wpc' = IF now - wstart < Timeout THEN "idle" ELSE "reread"
  /\ UNCHANGED <<atomics, wgen, wstart, latched, cut>> /\ KeepRun

(* The flight may have retired since LoadActive.                           *)
Reread ==
  /\ wpc = "reread"
  /\ wpc' = IF activeGen # wgen THEN "idle" ELSE "latch"
  /\ UNCHANGED <<atomics, wgen, wstart, latched, cut>> /\ KeepRun

Latch ==
  /\ WGoto("latch", "count")
  /\ expiredGen' = wgen
  /\ latched' = latched \cup {wgen}
  /\ UNCHANGED <<inFlight, flightGen, activeGen, startMs, armed, timeouts,
                 wgen, wstart, cut>> /\ KeepRun

Count ==
  /\ WGoto("count", "abort")
  /\ timeouts' = timeouts + 1
  /\ UNCHANGED <<inFlight, flightGen, activeGen, expiredGen, startMs, armed,
                 wgen, wstart, latched, cut>> /\ KeepRun

(* The caller's answer to TRUE: the ssh child is terminated, so whatever
   step is blocked fails.                                                  *)
AbortChannel ==
  /\ WGoto("abort", "idle")
  /\ cut' = TRUE
  /\ UNCHANGED <<atomics, wgen, wstart, latched>> /\ KeepRun

-----------------------------------------------------------------------------
Tick ==
  /\ now < Horizon
  /\ (\E r \in Runners : pc[r] \in {"number", "stamp", "arm", "activate"}) => Room(now + 1)
  /\ now' = now + 1
  /\ UNCHANGED <<atomics, locals, watchdog, history, cut>>

Runner(r) ==
  \/ Enter(r) \/ Number(r) \/ Stamp(r) \/ Arm(r) \/ Activate(r)
  \/ StepEnds(r) \/ StepFails(r) \/ Check(r)
  \/ Disarm(r) \/ Retire(r) \/ Report(r) \/ Leave(r)

Watchdog ==
  \/ LoadActive \/ CheckLatched \/ LoadStart \/ CheckArmed \/ Compare
  \/ Reread \/ Latch \/ Count \/ AbortChannel

Next == Tick \/ Watchdog \/ \E r \in Runners : Runner(r)

Spec == Init /\ [][Next]_vars

(* The threads run: the clock advances, the timer keeps ticking, and a
   runner leaves every line but a step that is blocked on its peer.  A step
   whose channel was cut does end.                                         *)
Moves(r) ==
  \/ Number(r) \/ Stamp(r) \/ Arm(r) \/ Activate(r) \/ Check(r)
  \/ Disarm(r) \/ Retire(r) \/ Report(r) \/ Leave(r)
  \/ cut /\ StepFails(r)

FairSpec ==
  /\ Spec
  /\ WF_vars(Tick) /\ WF_vars(Watchdog)
  /\ \A r \in Runners : WF_vars(Moves(r))

-----------------------------------------------------------------------------
(* Properties.                                                             *)

Running(r) == pc[r] # "idle"

TypeOK ==
  /\ inFlight \in BOOLEAN /\ armed \in BOOLEAN /\ cut \in BOOLEAN
  /\ flightGen \in 0 .. MaxFlights
  /\ activeGen \in 0 .. MaxFlights /\ expiredGen \in 0 .. MaxFlights
  /\ startMs \in 0 .. now /\ now \in 0 .. Horizon
  /\ timeouts \in 0 .. MaxFlights
  /\ pc \in [Runners -> {"idle", "number", "stamp", "arm", "activate", "step",
                         "check", "disarm", "retire", "report", "leave"}]
  /\ gen \in [Runners -> 0 .. MaxFlights]
  /\ step \in [Runners -> Capture .. Prune]
  /\ error \in [Runners -> BOOLEAN]
  /\ wpc \in {"idle", "latched?", "start", "armed?", "compare", "reread",
               "latch", "count", "abort"}
  /\ wgen \in 0 .. MaxFlights /\ wstart \in 0 .. now
  /\ started \in [Flights -> 0 .. Horizon]
  /\ latched \subseteq Flights
  /\ outcome \in [Flights -> {"none", "success", "error"}]

(* Two triggers never run at once, and a slot that nobody holds is free: the
   exchange and FlightGuard pair up on every path through Run.             *)
SingleFlight ==
  /\ \A r, q \in Runners : Running(r) /\ Running(q) => r = q
  /\ inFlight <=> \E r \in Runners : Running(r)

(* A flight is only ever latched after it has itself been running for the
   whole budget: the start time and the armed flag the watchdog read cannot
   be those of an earlier flight (upload_pipeline.hpp: "the previous upload's
   values are never attributed to a new one").                             *)
OnlyOverdueLatched ==
  \A g \in latched : now - started[g] >= Timeout

(* UploadTimeoutCount counts flights, not ticks: a flight that stays blocked
   over many ticks is latched and counted on the first of them only.       *)
CountedOncePerFlight ==
  timeouts + (IF wpc = "count" THEN 1 ELSE 0) = Cardinality(latched)

(* With a deadline, a flight never holds the slot for ever, however long its
   peer stays silent: "the single-flight flag would otherwise stay set
   forever" (upload_pipeline.hpp).                                         *)
FlightEnds == Timeout > 0 => (inFlight ~> ~inFlight)

(* What the comment on the last check of Run says: once the flight is retired
   no new latch can land, so a run that reports success is not one of the
   timed-out uploads.                                                      *)
CountedFlightsFail ==
  \A g \in Flights : outcome[g] = "success" => g \notin latched
=============================================================================
