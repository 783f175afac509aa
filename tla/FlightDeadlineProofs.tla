------------------------ MODULE FlightDeadlineProofs ------------------------
(***************************************************************************)
(* What FlightDeadline promises, for every set of runners and every value  *)
(* of the bounds: one flight at a time, a latch only for a flight that was *)
(* itself late, and each latched flight counted once.                      *)
(*                                                                         *)
(* None of the three is inductive: that a latch is justified rests on what *)
(* the watchdog's two local copies still mean when the flight they were    *)
(* read from may have retired and been followed by another.  FlightInv     *)
(* says it.                                                                *)
(***************************************************************************)
EXTENDS FlightDeadline, FiniteSetTheorems, TLAPS

Live    == {"step", "check", "disarm", "retire"}
Unready == {"stamp", "arm", "activate"}

(* Flight g has begun and its start time is final.                         *)
Settled(g) ==
  /\ g \in 1 .. flightGen
  /\ g = flightGen => \A r \in Runners : pc[r] \notin Unready

Types ==
  /\ inFlight \in BOOLEAN /\ armed \in BOOLEAN /\ cut \in BOOLEAN
  /\ flightGen \in 0 .. MaxFlights
  /\ activeGen \in 0 .. MaxFlights /\ expiredGen \in 0 .. MaxFlights
  /\ now \in 0 .. Horizon /\ startMs \in 0 .. now
  /\ pc \in [Runners -> {"idle", "number", "stamp", "arm", "activate", "step",
                         "check", "disarm", "retire", "report", "leave"}]
  /\ gen \in [Runners -> 0 .. MaxFlights]
  /\ step \in [Runners -> Capture .. Prune]
  /\ error \in [Runners -> BOOLEAN]
  /\ wpc \in {"idle", "latched?", "start", "armed?", "compare", "reread",
               "latch", "count", "abort"}
  /\ wgen \in 0 .. MaxFlights /\ wstart \in 0 .. now
  /\ started \in [Flights -> 0 .. Horizon]
  /\ latched \subseteq Flights
  /\ outcome \in [Flights -> {"none", "success", "error"}]

(* The runner in flight: its generation is the last one handed out, and the
   check after a step is never that of Prune.                              *)
Numbered ==
  \A r \in Runners :
    /\ pc[r] = "number" => flightGen < MaxFlights
    /\ pc[r] \notin {"idle", "number"} => gen[r] = flightGen /\ flightGen >= 1
    /\ pc[r] = "check" => step[r] # Prune

ActiveIsLive ==
  activeGen # 0 => activeGen = flightGen /\ \E r \in Runners : pc[r] \in Live

StampCurrent ==
  flightGen >= 1 /\ (\A r \in Runners : pc[r] # "stamp") => startMs = started[flightGen]

(* What the watchdog knows at each line of UploadOverdue.                  *)
WatchdogKnows ==
  /\ wpc # "idle" => Settled(wgen)
  /\ wpc \in {"armed?", "compare", "reread"} /\ wgen = flightGen => wstart = started[wgen]
  /\ wpc = "reread" /\ wgen = flightGen => now - wstart >= Timeout
  /\ wpc = "latch" => now - started[wgen] >= Timeout

LatchesSettled == \A g \in latched : Settled(g) /\ now - started[g] >= Timeout

(* Latches only ever move forward, so a flight is never latched twice.     *)
LatchesClimb ==
  /\ expiredGen \in latched \cup {0}
  /\ \A g \in latched : g <= expiredGen
  /\ wpc # "idle" => expiredGen <= wgen
  /\ wpc \in {"start", "armed?", "compare", "reread", "latch"} => expiredGen # wgen

Counted == timeouts \in Nat /\ CountedOncePerFlight

FlightInv ==
  /\ Types /\ SingleFlight /\ Numbered /\ ActiveIsLive /\ StampCurrent
  /\ WatchdogKnows /\ LatchesSettled /\ LatchesClimb /\ Counted

(* A step of a runner keeps the invariant.                                 *)
LEMMA RunnerKeeps ==
  ASSUME FlightInv, NEW r \in Runners, Runner(r)
  PROVE  FlightInv'
<1>1. UNCHANGED <<expiredGen, timeouts, now, wpc, wgen, wstart, latched>>
  BY DEF Runner, Enter, Number, Stamp, Arm, Activate, StepEnds, StepFails,
        Check, Disarm, Retire, Report, Leave, atomics, watchdog, history
<1>2. LatchesClimb' /\ Counted'
  BY <1>1 DEF FlightInv, LatchesClimb, Counted, CountedOncePerFlight
<1>3. CASE Enter(r)
  <2>1. Types'
    BY <1>3, FlightAssumption
    DEF FlightInv, Types, Capture, Prune, Enter, Goto, watchdog, history
  <2>2. SingleFlight' /\ Numbered' /\ ActiveIsLive'
    BY <1>3
    DEF FlightInv, Types, SingleFlight, Running, Numbered, ActiveIsLive, Live,
        Enter, Goto, watchdog, history
  <2>3. StampCurrent'
    BY <1>3
    DEF FlightInv, Types, SingleFlight, Running, Numbered, StampCurrent,
        Enter, Goto, watchdog, history
  <2>4. WatchdogKnows' /\ LatchesSettled'
    BY <1>1, <1>3, FlightAssumption
    DEF FlightInv, Types, SingleFlight, Running, Numbered, WatchdogKnows,
        Settled, Unready, Flights, LatchesSettled, Enter, Goto, watchdog,
        history
  <2>. QED  BY <1>2, <2>1, <2>2, <2>3, <2>4 DEF FlightInv
<1>4. CASE Number(r)
  <2>1. Types'
    BY <1>4, FlightAssumption
    DEF FlightInv, Types, Numbered, Capture, Prune, Number, Goto, watchdog,
        history
  <2>2. SingleFlight' /\ Numbered' /\ ActiveIsLive'
    BY <1>4
    DEF FlightInv, Types, SingleFlight, Running, Numbered, ActiveIsLive, Live,
        Number, Goto, watchdog, history
  <2>3. StampCurrent'
    BY <1>4
    DEF FlightInv, Types, SingleFlight, Running, Numbered, StampCurrent,
        Number, Goto, watchdog, history
  <2>4. WatchdogKnows' /\ LatchesSettled'
    BY <1>1, <1>4, FlightAssumption
    DEF FlightInv, Types, SingleFlight, Running, Numbered, WatchdogKnows,
        Settled, Unready, Flights, LatchesSettled, Number, Goto, watchdog,
        history
  <2>. QED  BY <1>2, <2>1, <2>2, <2>3, <2>4 DEF FlightInv
<1>5. CASE Stamp(r)
  <2>1. /\ gen[r] = flightGen /\ flightGen \in Flights
        /\ pc' = [pc EXCEPT ![r] = "arm"]
        /\ startMs' = now /\ started' = [started EXCEPT ![flightGen] = now]
    <3>1. pc[r] = "stamp" /\ pc' = [pc EXCEPT ![r] = "arm"]
      BY <1>5 DEF Stamp, Goto
    <3>2. gen[r] = flightGen /\ flightGen >= 1
      BY <3>1 DEF FlightInv, Numbered
    <3>3. flightGen \in Flights
      BY <3>2, FlightAssumption DEF FlightInv, Types, Flights
    <3>. QED  BY <1>5, <3>1, <3>2, <3>3 DEF Stamp
  <2>2. Types'
    BY <1>5, <2>1, FlightAssumption DEF FlightInv, Types, Stamp, watchdog
  <2>3. SingleFlight' /\ Numbered' /\ ActiveIsLive'
    BY <1>5, <2>1
    DEF FlightInv, Types, SingleFlight, Running, Numbered, ActiveIsLive, Live,
        Stamp, Goto
  <2>4. StampCurrent'
    BY <1>5, <2>1 DEF FlightInv, Types, StampCurrent, Stamp
  <2>5. \A g : Settled(g) => g # flightGen
    BY <1>5, <2>1 DEF Settled, Unready, Stamp, Goto
  <2>6. \A g : Settled(g) => Settled(g)' /\ started'[g] = started[g]
    BY <1>5, <2>1, <2>5 DEF FlightInv, Types, Settled, Flights, Stamp
  <2>7. WatchdogKnows' /\ LatchesSettled'
    BY <1>1, <1>5, <2>5, <2>6
    DEF FlightInv, WatchdogKnows, LatchesSettled, Stamp
  <2>. QED  BY <1>2, <2>2, <2>3, <2>4, <2>7 DEF FlightInv
<1>6. CASE Arm(r)
  <2>1. Types'
    BY <1>6, FlightAssumption
    DEF FlightInv, Types, Arm, Goto, watchdog, history
  <2>2. SingleFlight' /\ Numbered' /\ ActiveIsLive'
    BY <1>6
    DEF FlightInv, Types, SingleFlight, Running, Numbered, ActiveIsLive, Live,
        Arm, Goto, watchdog, history
  <2>3. StampCurrent'
    BY <1>6
    DEF FlightInv, Types, SingleFlight, Running, Numbered, StampCurrent, Arm,
        Goto, watchdog, history
  <2>4. WatchdogKnows' /\ LatchesSettled'
    BY <1>1, <1>6, FlightAssumption
    DEF FlightInv, Types, SingleFlight, Running, Numbered, WatchdogKnows,
        Settled, Unready, Flights, LatchesSettled, Arm, Goto, watchdog,
        history
  <2>. QED  BY <1>2, <2>1, <2>2, <2>3, <2>4 DEF FlightInv
<1>7. CASE Activate(r)
  <2>1. Types'
    BY <1>7, FlightAssumption
    DEF FlightInv, Types, Activate, Goto, watchdog, history
  <2>2. SingleFlight' /\ Numbered' /\ ActiveIsLive'
    BY <1>7
    DEF FlightInv, Types, SingleFlight, Running, Numbered, ActiveIsLive, Live,
        Activate, Goto, watchdog, history
  <2>3. StampCurrent'
    BY <1>7
    DEF FlightInv, Types, SingleFlight, Running, Numbered, StampCurrent,
        Activate, Goto, watchdog, history
  <2>4. WatchdogKnows' /\ LatchesSettled'
    BY <1>1, <1>7, FlightAssumption
    DEF FlightInv, Types, SingleFlight, Running, Numbered, WatchdogKnows,
        Settled, Unready, Flights, LatchesSettled, Activate, Goto, watchdog,
        history
  <2>. QED  BY <1>2, <2>1, <2>2, <2>3, <2>4 DEF FlightInv
<1>8. CASE StepEnds(r)
  <2>1. Types'
    BY <1>8, FlightAssumption
    DEF FlightInv, Types, StepEnds, Goto, atomics, watchdog, history
  <2>2. SingleFlight' /\ Numbered' /\ ActiveIsLive'
    BY <1>8
    DEF FlightInv, Types, SingleFlight, Running, Numbered, Prune,
        ActiveIsLive, Live, StepEnds, Goto, atomics, watchdog, history
  <2>3. StampCurrent'
    BY <1>8
    DEF FlightInv, Types, SingleFlight, Running, Numbered, StampCurrent,
        StepEnds, Goto, atomics, watchdog, history
  <2>4. WatchdogKnows' /\ LatchesSettled'
    BY <1>1, <1>8, FlightAssumption
    DEF FlightInv, Types, SingleFlight, Running, Numbered, WatchdogKnows,
        Settled, Unready, Flights, LatchesSettled, StepEnds, Goto, atomics,
        watchdog, history
  <2>. QED  BY <1>2, <2>1, <2>2, <2>3, <2>4 DEF FlightInv
<1>9. CASE StepFails(r)
  <2>1. Types'
    BY <1>9, FlightAssumption
    DEF FlightInv, Types, StepFails, Goto, atomics, watchdog, history
  <2>2. SingleFlight' /\ Numbered' /\ ActiveIsLive'
    BY <1>9
    DEF FlightInv, Types, SingleFlight, Running, Numbered, ActiveIsLive, Live,
        StepFails, Goto, atomics, watchdog, history
  <2>3. StampCurrent'
    BY <1>9
    DEF FlightInv, Types, SingleFlight, Running, Numbered, StampCurrent,
        StepFails, Goto, atomics, watchdog, history
  <2>4. WatchdogKnows' /\ LatchesSettled'
    BY <1>1, <1>9, FlightAssumption
    DEF FlightInv, Types, SingleFlight, Running, Numbered, WatchdogKnows,
        Settled, Unready, Flights, LatchesSettled, StepFails, Goto, atomics,
        watchdog, history
  <2>. QED  BY <1>2, <2>1, <2>2, <2>3, <2>4 DEF FlightInv
<1>10. CASE Check(r)
  <2>1. Types'
    <3>1. step[r] \in Capture .. Prune /\ step[r] # Prune
      BY <1>10 DEF FlightInv, Types, Numbered, Check
    <3>2. step[r] + 1 \in Capture .. Prune
      BY <3>1 DEF Capture, Prune
    <3>3. /\ step' \in [Runners -> Capture .. Prune]
          /\ error' \in [Runners -> BOOLEAN]
      BY <1>10, <3>2, Zenon DEF FlightInv, Types, Check
    <3>4. pc' \in [Runners -> {"idle", "number", "stamp", "arm", "activate", "step",
                               "check", "disarm", "retire", "report", "leave"}]
      BY <1>10 DEF FlightInv, Types, Check
    <3>. QED
      BY <1>10, <3>3, <3>4 DEF FlightInv, Types, Check, atomics, watchdog, history
  <2>2. SingleFlight' /\ Numbered' /\ ActiveIsLive'
    BY <1>10
    DEF FlightInv, Types, SingleFlight, Running, Numbered, Prune,
        ActiveIsLive, Live, Check, atomics, watchdog, history
  <2>3. StampCurrent'
    BY <1>10
    DEF FlightInv, Types, SingleFlight, Running, Numbered, StampCurrent,
        Check, atomics, watchdog, history
  <2>4. WatchdogKnows' /\ LatchesSettled'
    BY <1>1, <1>10, FlightAssumption
    DEF FlightInv, Types, SingleFlight, Running, Numbered, WatchdogKnows,
        Settled, Unready, Flights, LatchesSettled, Check, atomics, watchdog,
        history
  <2>. QED  BY <1>2, <2>1, <2>2, <2>3, <2>4 DEF FlightInv
<1>11. CASE Disarm(r)
  <2>1. Types'
    BY <1>11, FlightAssumption
    DEF FlightInv, Types, Disarm, Goto, watchdog, history
  <2>2. SingleFlight' /\ Numbered' /\ ActiveIsLive'
    BY <1>11
    DEF FlightInv, Types, SingleFlight, Running, Numbered, ActiveIsLive, Live,
        Disarm, Goto, watchdog, history
  <2>3. StampCurrent'
    BY <1>11
    DEF FlightInv, Types, SingleFlight, Running, Numbered, StampCurrent,
        Disarm, Goto, watchdog, history
  <2>4. WatchdogKnows' /\ LatchesSettled'
    BY <1>1, <1>11, FlightAssumption
    DEF FlightInv, Types, SingleFlight, Running, Numbered, WatchdogKnows,
        Settled, Unready, Flights, LatchesSettled, Disarm, Goto, watchdog,
        history
  <2>. QED  BY <1>2, <2>1, <2>2, <2>3, <2>4 DEF FlightInv
<1>12. CASE Retire(r)
  <2>1. Types'
    BY <1>12, FlightAssumption
    DEF FlightInv, Types, Retire, Goto, watchdog, history
  <2>2. SingleFlight' /\ Numbered' /\ ActiveIsLive'
    BY <1>12
    DEF FlightInv, Types, SingleFlight, Running, Numbered, ActiveIsLive, Live,
        Retire, Goto, watchdog, history
  <2>3. StampCurrent'
    BY <1>12
    DEF FlightInv, Types, SingleFlight, Running, Numbered, StampCurrent,
        Retire, Goto, watchdog, history
  <2>4. WatchdogKnows' /\ LatchesSettled'
    BY <1>1, <1>12, FlightAssumption
    DEF FlightInv, Types, SingleFlight, Running, Numbered, WatchdogKnows,
        Settled, Unready, Flights, LatchesSettled, Retire, Goto, watchdog,
        history
  <2>. QED  BY <1>2, <2>1, <2>2, <2>3, <2>4 DEF FlightInv
<1>13. CASE Report(r)
  <2>1. Types'
    BY <1>13, FlightAssumption
    DEF FlightInv, Types, Numbered, Flights, Report, Goto, atomics, watchdog
  <2>2. SingleFlight' /\ Numbered' /\ ActiveIsLive'
    BY <1>13
    DEF FlightInv, Types, SingleFlight, Running, Numbered, ActiveIsLive, Live,
        Report, Goto, atomics, watchdog
  <2>3. StampCurrent'
    BY <1>13
    DEF FlightInv, Types, SingleFlight, Running, Numbered, StampCurrent,
        Report, Goto, atomics, watchdog
  <2>4. WatchdogKnows' /\ LatchesSettled'
    BY <1>1, <1>13, FlightAssumption
    DEF FlightInv, Types, SingleFlight, Running, Numbered, WatchdogKnows,
        Settled, Unready, Flights, LatchesSettled, Report, Goto, atomics,
        watchdog
  <2>. QED  BY <1>2, <2>1, <2>2, <2>3, <2>4 DEF FlightInv
<1>14. CASE Leave(r)
  <2>1. Types'
    BY <1>14, FlightAssumption
    DEF FlightInv, Types, Leave, Goto, watchdog, history
  <2>2. SingleFlight' /\ Numbered' /\ ActiveIsLive'
    BY <1>14
    DEF FlightInv, Types, SingleFlight, Running, Numbered, ActiveIsLive, Live,
        Leave, Goto, watchdog, history
  <2>3. StampCurrent'
    BY <1>14
    DEF FlightInv, Types, SingleFlight, Running, Numbered, StampCurrent,
        Leave, Goto, watchdog, history
  <2>4. WatchdogKnows' /\ LatchesSettled'
    BY <1>1, <1>14, FlightAssumption
    DEF FlightInv, Types, SingleFlight, Running, Numbered, WatchdogKnows,
        Settled, Unready, Flights, LatchesSettled, Leave, Goto, watchdog,
        history
  <2>. QED  BY <1>2, <2>1, <2>2, <2>3, <2>4 DEF FlightInv
<1>. QED  BY <1>3, <1>4, <1>5, <1>6, <1>7, <1>8, <1>9, <1>10, <1>11, <1>12,
        <1>13, <1>14 DEF Runner

(* A step of the watchdog keeps the invariant.                             *)
LEMMA WatchdogKeeps ==
  ASSUME FlightInv, Watchdog
  PROVE  FlightInv'
<1>1. UNCHANGED <<inFlight, flightGen, activeGen, startMs, now, pc, gen, step, started>>
  BY DEF Watchdog, LoadActive, CheckLatched, LoadStart, CheckArmed, Compare,
        Reread, Latch, Count, AbortChannel, KeepRun, atomics, locals
<1>2. SingleFlight' /\ Numbered' /\ ActiveIsLive' /\ StampCurrent'
  BY <1>1 DEF FlightInv, SingleFlight, Running, Numbered, ActiveIsLive, StampCurrent
<1>3. \A g : Settled(g)' <=> Settled(g)
  BY <1>1 DEF Settled
<1>4. CASE LoadActive
  <2>1. Types'
    BY <1>4, FlightAssumption
    DEF FlightInv, Types, LoadActive, WGoto, KeepRun, locals, atomics
  <2>2. WatchdogKnows' /\ LatchesSettled'
    BY <1>1, <1>3, <1>4, FlightAssumption
    DEF FlightInv, Types, WatchdogKnows, ActiveIsLive, SingleFlight, Running,
        Settled, Live, Unready, LatchesSettled, LoadActive, WGoto, KeepRun,
        locals, atomics
  <2>3. LatchesClimb' /\ Counted'
    BY <1>4
    DEF FlightInv, Types, LatchesClimb, LatchesSettled, Settled, ActiveIsLive,
        Counted, CountedOncePerFlight, LoadActive, WGoto, KeepRun, locals,
        atomics
  <2>. QED  BY <1>2, <2>1, <2>2, <2>3 DEF FlightInv
<1>5. CASE CheckLatched
  <2>1. Types'
    BY <1>5, FlightAssumption
    DEF FlightInv, Types, CheckLatched, KeepRun, locals, atomics
  <2>2. WatchdogKnows' /\ LatchesSettled'
    BY <1>1, <1>3, <1>5, FlightAssumption
    DEF FlightInv, Types, WatchdogKnows, LatchesSettled, CheckLatched,
        KeepRun, locals, atomics
  <2>3. LatchesClimb' /\ Counted'
    BY <1>5
    DEF FlightInv, Types, LatchesClimb, Counted, CountedOncePerFlight,
        CheckLatched, KeepRun, locals, atomics
  <2>. QED  BY <1>2, <2>1, <2>2, <2>3 DEF FlightInv
<1>6. CASE LoadStart
  <2>1. Types'
    BY <1>6, FlightAssumption
    DEF FlightInv, Types, LoadStart, WGoto, KeepRun, locals, atomics
  <2>2. WatchdogKnows' /\ LatchesSettled'
    BY <1>1, <1>3, <1>6, FlightAssumption
    DEF FlightInv, Types, WatchdogKnows, Settled, Unready, StampCurrent,
        LatchesSettled, LoadStart, WGoto, KeepRun, locals, atomics
  <2>3. LatchesClimb' /\ Counted'
    BY <1>6
    DEF FlightInv, Types, LatchesClimb, Counted, CountedOncePerFlight,
        LoadStart, WGoto, KeepRun, locals, atomics
  <2>. QED  BY <1>2, <2>1, <2>2, <2>3 DEF FlightInv
<1>7. CASE CheckArmed
  <2>1. Types'
    BY <1>7, FlightAssumption
    DEF FlightInv, Types, CheckArmed, KeepRun, locals, atomics
  <2>2. WatchdogKnows' /\ LatchesSettled'
    BY <1>1, <1>3, <1>7, FlightAssumption
    DEF FlightInv, Types, WatchdogKnows, LatchesSettled, CheckArmed, KeepRun,
        locals, atomics
  <2>3. LatchesClimb' /\ Counted'
    BY <1>7
    DEF FlightInv, Types, LatchesClimb, Counted, CountedOncePerFlight,
        CheckArmed, KeepRun, locals, atomics
  <2>. QED  BY <1>2, <2>1, <2>2, <2>3 DEF FlightInv
<1>8. CASE Compare
  <2>1. Types'
    BY <1>8, FlightAssumption
    DEF FlightInv, Types, Compare, KeepRun, locals, atomics
  <2>2. WatchdogKnows' /\ LatchesSettled'
    BY <1>1, <1>3, <1>8, FlightAssumption
    DEF FlightInv, Types, WatchdogKnows, LatchesSettled, Compare, KeepRun,
        locals, atomics
  <2>3. LatchesClimb' /\ Counted'
    BY <1>8
    DEF FlightInv, Types, LatchesClimb, Counted, CountedOncePerFlight,
        Compare, KeepRun, locals, atomics
  <2>. QED  BY <1>2, <2>1, <2>2, <2>3 DEF FlightInv
<1>9. CASE Reread
  <2>1. Types'
    BY <1>9, FlightAssumption
    DEF FlightInv, Types, Reread, KeepRun, locals, atomics
  <2>2. WatchdogKnows' /\ LatchesSettled'
    BY <1>1, <1>3, <1>9, FlightAssumption
    DEF FlightInv, Types, WatchdogKnows, Settled, ActiveIsLive,
        LatchesSettled, Reread, KeepRun, locals, atomics
  <2>3. LatchesClimb' /\ Counted'
    BY <1>9
    DEF FlightInv, Types, LatchesClimb, Counted, CountedOncePerFlight, Reread,
        KeepRun, locals, atomics
  <2>. QED  BY <1>2, <2>1, <2>2, <2>3 DEF FlightInv
<1>10. CASE Latch
  <2>1. Types'
    BY <1>10, FlightAssumption
    DEF FlightInv, Types, WatchdogKnows, Settled, Flights, Latch, WGoto,
        KeepRun, locals
  <2>2. WatchdogKnows' /\ LatchesSettled'
    BY <1>1, <1>3, <1>10, FlightAssumption
    DEF FlightInv, Types, WatchdogKnows, LatchesSettled, Latch, WGoto,
        KeepRun, locals
  <2>3. LatchesClimb'
    BY <1>10, FlightAssumption
    DEF FlightInv, Types, Flights, WatchdogKnows, Settled, LatchesClimb, Latch, WGoto
  <2>4. wgen \notin latched
    BY <1>10, FlightAssumption
    DEF FlightInv, Types, Flights, LatchesClimb, Latch, WGoto
  <2>5. Cardinality(latched') = Cardinality(latched) + 1
    <3>1. IsFiniteSet(latched)
      <4>1. latched \in SUBSET (1 .. MaxFlights)
        BY DEF FlightInv, Types, Flights
      <4>2. IsFiniteSet(1 .. MaxFlights)
        BY FS_Interval, FlightAssumption
      <4>. QED  BY <4>1, <4>2, FS_Subset
    <3>2. latched' = latched \cup {wgen}
      BY <1>10 DEF Latch
    <3>. QED  BY <2>4, <3>1, <3>2, FS_AddElement
  <2>6. Counted'
    BY <1>10, <2>5 DEF FlightInv, Counted, CountedOncePerFlight, Latch, WGoto
  <2>. QED  BY <1>2, <2>1, <2>2, <2>3, <2>6 DEF FlightInv
<1>11. CASE Count
  <2>1. Types'
    BY <1>11, FlightAssumption
    DEF FlightInv, Types, Count, WGoto, KeepRun, locals
  <2>2. WatchdogKnows' /\ LatchesSettled'
    BY <1>1, <1>3, <1>11, FlightAssumption
    DEF FlightInv, Types, WatchdogKnows, LatchesSettled, Count, WGoto,
        KeepRun, locals
  <2>3. LatchesClimb' /\ Counted'
    BY <1>11
    DEF FlightInv, Types, LatchesClimb, Counted, CountedOncePerFlight, Count,
        WGoto, KeepRun, locals
  <2>. QED  BY <1>2, <2>1, <2>2, <2>3 DEF FlightInv
<1>12. CASE AbortChannel
  <2>1. Types'
    BY <1>12, FlightAssumption
    DEF FlightInv, Types, AbortChannel, WGoto, KeepRun, locals, atomics
  <2>2. WatchdogKnows' /\ LatchesSettled'
    BY <1>1, <1>3, <1>12, FlightAssumption
    DEF FlightInv, Types, WatchdogKnows, LatchesSettled, AbortChannel, WGoto,
        KeepRun, locals, atomics
  <2>3. LatchesClimb' /\ Counted'
    BY <1>12
    DEF FlightInv, Types, LatchesClimb, Counted, CountedOncePerFlight,
        AbortChannel, WGoto, KeepRun, locals, atomics
  <2>. QED  BY <1>2, <2>1, <2>2, <2>3 DEF FlightInv
<1>. QED  BY <1>4, <1>5, <1>6, <1>7, <1>8, <1>9, <1>10, <1>11, <1>12 DEF Watchdog

(* A tick of the clock keeps the invariant: lateness only grows.           *)
LEMMA TickKeeps ==
  ASSUME FlightInv, Tick
  PROVE  FlightInv'
<1>1. /\ UNCHANGED <<atomics, locals, watchdog, history, cut>>
      /\ now' = now + 1 /\ now < Horizon
  BY DEF Tick
<1>2. \A g : Settled(g)' <=> Settled(g)
  BY <1>1 DEF Settled, atomics, locals
<1>3. Types'
  BY <1>1, FlightAssumption
  DEF FlightInv, Types, atomics, locals, watchdog, history
<1>4. SingleFlight' /\ Numbered' /\ ActiveIsLive' /\ StampCurrent'
  BY <1>1
  DEF FlightInv, SingleFlight, Running, Numbered, ActiveIsLive, StampCurrent,
      atomics, locals, history
<1>5. WatchdogKnows' /\ LatchesSettled'
  <2>1. \A g : Settled(g) => started[g] \in Int
    BY FlightAssumption DEF FlightInv, Types, Settled, Flights
  <2>2. /\ now \in Int /\ wstart \in Int /\ Timeout \in Int
        /\ UNCHANGED <<flightGen, wpc, wgen, wstart, started, latched>>
    BY <1>1, FlightAssumption DEF FlightInv, Types, atomics, watchdog, history
  <2>3. WatchdogKnows'
    BY <1>1, <1>2, <2>1, <2>2 DEF FlightInv, WatchdogKnows
  <2>4. LatchesSettled'
    BY <1>1, <1>2, <2>1, <2>2 DEF FlightInv, LatchesSettled
  <2>. QED  BY <2>3, <2>4
<1>6. LatchesClimb' /\ Counted'
  BY <1>1
  DEF FlightInv, LatchesClimb, Counted, CountedOncePerFlight, atomics, watchdog, history
<1>. QED  BY <1>3, <1>4, <1>5, <1>6 DEF FlightInv

(* So does a step that changes nothing.                                    *)
LEMMA StutterKeeps ==
  ASSUME FlightInv, UNCHANGED vars
  PROVE  FlightInv'
<1>. USE DEF vars, atomics, locals, watchdog, history
<1>1. \A g : Settled(g)' <=> Settled(g)
  BY DEF Settled
<1>2. Types' /\ Numbered' /\ ActiveIsLive' /\ StampCurrent'
  BY DEF FlightInv, Types, Numbered, ActiveIsLive, StampCurrent
<1>3. SingleFlight' /\ LatchesClimb' /\ Counted'
  BY DEF FlightInv, SingleFlight, Running, LatchesClimb, Counted, CountedOncePerFlight
<1>4. WatchdogKnows' /\ LatchesSettled'
  BY <1>1 DEF FlightInv, WatchdogKnows, LatchesSettled
<1>. QED  BY <1>2, <1>3, <1>4 DEF FlightInv

(* Before the first trigger nothing is in flight and nothing latched.      *)
LEMMA InitEstablishes == Init => FlightInv
<1>. SUFFICES ASSUME Init PROVE FlightInv
  OBVIOUS
<1>1. Types
  <2>1. /\ flightGen \in 0 .. MaxFlights /\ activeGen \in 0 .. MaxFlights
        /\ expiredGen \in 0 .. MaxFlights /\ wgen \in 0 .. MaxFlights
        /\ now \in 0 .. Horizon /\ startMs \in 0 .. now /\ wstart \in 0 .. now
        /\ Horizon \in 0 .. Horizon /\ 0 \in 0 .. MaxFlights
        /\ Capture \in Capture .. Prune
    BY FlightAssumption DEF Init, Capture, Prune
  <2>2. /\ gen \in [Runners -> 0 .. MaxFlights]
        /\ step \in [Runners -> Capture .. Prune]
        /\ started \in [Flights -> 0 .. Horizon]
    BY <2>1 DEF Init
  <2>. QED  BY <2>1, <2>2 DEF Init, Types
<1>2. SingleFlight /\ Numbered /\ ActiveIsLive /\ StampCurrent
  BY DEF Init, SingleFlight, Running, Numbered, ActiveIsLive, StampCurrent
<1>3. WatchdogKnows /\ LatchesSettled /\ LatchesClimb
  BY DEF Init, WatchdogKnows, LatchesSettled, LatchesClimb
<1>4. Counted
  BY FS_EmptySet DEF Init, Counted, CountedOncePerFlight
<1>. QED  BY <1>1, <1>2, <1>3, <1>4 DEF FlightInv

(* The counter has no bound of its own: it is bounded because it counts
   flights.                                                                *)
LEMMA InvGivesTypes == FlightInv => TypeOK
<1>. SUFFICES ASSUME FlightInv PROVE timeouts \in 0 .. MaxFlights
  BY DEF FlightInv, Types, TypeOK
<1>1. latched \in SUBSET (1 .. MaxFlights)
  BY DEF FlightInv, Types, Flights
<1>2. IsFiniteSet(1 .. MaxFlights) /\ Cardinality(1 .. MaxFlights) <= MaxFlights
  BY FS_Interval, FlightAssumption
<1>3. /\ IsFiniteSet(latched)
      /\ Cardinality(latched) <= Cardinality(1 .. MaxFlights)
  BY <1>1, <1>2, FS_Subset, Zenon
<1>4. Cardinality(latched) \in Nat /\ Cardinality(1 .. MaxFlights) \in Nat
  BY <1>2, <1>3, FS_CardinalityType, Zenon
<1>5. timeouts \in Nat /\ (timeouts = Cardinality(latched) \/ timeouts + 1 = Cardinality(latched))
  BY <1>4 DEF FlightInv, Counted, CountedOncePerFlight
<1>. QED
  BY <1>2, <1>3, <1>4, <1>5, FlightAssumption

(* The induction the three theorems share.                                 *)
LEMMA FlightAlwaysInv == Spec => []FlightInv
<1>1. FlightInv /\ [Next]_vars => FlightInv'
  BY RunnerKeeps, WatchdogKeeps, TickKeeps, StutterKeeps DEF Next
<1>. QED  BY InitEstablishes, <1>1, PTL DEF Spec

(* For any number of triggers, the exchange and FlightGuard admit one flight
   at a time and never leave the slot taken by nobody.                     *)
THEOREM OneFlight == Spec => []SingleFlight
<1>1. FlightInv => SingleFlight
  BY DEF FlightInv
<1>. QED  BY FlightAlwaysInv, <1>1, PTL

(* For every timeout, a flight the watchdog latches has itself been in
   flight for the timeout, wherever the two threads were interleaved.      *)
THEOREM LatchIsDeserved == Spec => []OnlyOverdueLatched
<1>1. FlightInv => OnlyOverdueLatched
  BY DEF FlightInv, LatchesSettled, OnlyOverdueLatched
<1>. QED  BY FlightAlwaysInv, <1>1, PTL

(* The timeout counter counts flights, however often the timer ticks, and
   every variable keeps its type.                                          *)
THEOREM TimeoutsCountFlights == Spec => [](TypeOK /\ CountedOncePerFlight)
<1>1. FlightInv => TypeOK /\ CountedOncePerFlight
  BY InvGivesTypes DEF FlightInv, Counted
<1>. QED  BY FlightAlwaysInv, <1>1, PTL
=============================================================================
