------------------------------ MODULE Lifecycle ------------------------------
(***************************************************************************)
(* The lifecycle machine with its backoff data: how long the supervision   *)
(* loop waits before it tries the channel again, and when a link has been  *)
(* stable for long enough to earn a fresh ramp.  Time is the injected      *)
(* millisecond clock, in model units.                                      *)
(***************************************************************************)
EXTENDS LifecycleTable, Integers

CONSTANTS
  BackoffBase,     (* kBackoffBaseMs                                       *)
  BackoffMax,      (* kBackoffMaxMs                                        *)
  StableReset,     (* kStableResetMs                                       *)
  MaxAttempt,      (* bound: failures counted in `attempt` (a uint32)      *)
  Horizon          (* bound: last instant of the clock                     *)

ASSUME BackoffAssumption ==
  /\ BackoffBase \in Nat \ {0}
  /\ BackoffMax \in Nat
  /\ BackoffBase <= BackoffMax
  /\ StableReset \in Nat \ {0}
  /\ MaxAttempt \in Nat
  /\ Horizon \in Nat

VARIABLES
  state,        (* the current state of the machine                        *)
  attempt,      (* consecutive failed connects, kept across short links    *)
  readySince,   (* when Ready was last entered                             *)
  stable,       (* how long the last Ready lasted                          *)
  delay,        (* retry_delay_ms                                          *)
  now,          (* the clock                                               *)
  link          (* history: what the worker last reported of the channel   *)

vars == <<state, attempt, readySince, stable, delay, now, link>>

-----------------------------------------------------------------------------
(* The backoff policy.                                                     *)

(* The doubling loop of BackoffDelayMs after n rounds: it stops doubling as
   soon as the delay is past the ceiling.                                  *)
Ramp[n \in 0 .. MaxAttempt] ==
  IF n = 0 THEN BackoffBase
  ELSE IF Ramp[n - 1] >= BackoffMax THEN Ramp[n - 1]
  ELSE 2 * Ramp[n - 1]

(* Mutant of BackoffDelay: the clamp after the loop is missing.            *)
Mut_NoCeiling(n, up) == IF up >= StableReset THEN BackoffBase ELSE Ramp[n]

BackoffDelay(n, up) ==
  IF up >= StableReset THEN BackoffBase
  ELSE IF Ramp[n] > BackoffMax THEN BackoffMax
  ELSE Ramp[n]

RetryDelay(a, up) == BackoffDelay(IF a = 0 THEN 0 ELSE a - 1, up)

-----------------------------------------------------------------------------
(* The handlers: each is one event that its state accepts, with the data   *)
(* it updates.  Bounds: a failure is only taken while attempt < MaxAttempt. *)

Init ==
  /\ state = "Init"
  /\ attempt = 0 /\ readySince = 0 /\ stable = 0 /\ delay = 0
  /\ now = 0
  /\ link = "unknown"

(* The fields a transition without data work leaves alone.                 *)
KeepData == UNCHANGED <<attempt, readySince, stable, delay>>

(* kConnectOk: Ready is entered from Connecting, Degraded or Reconnecting,
   and its entry action stamps the clock.                                  *)
ConnectOk ==
  /\ Handles(state, "ConnectOk")
  /\ state' = Target(state, "ConnectOk")
  /\ readySince' = now
  /\ stable' = 0
  /\ UNCHANGED <<attempt, delay>>

(* Mutant of ConnectFail: the first attempt's failure sets no delay.       *)
Mut_FirstFailureNoDelay ==
  /\ state \in {"Connecting", "Degraded", "Reconnecting"}
  /\ attempt < MaxAttempt
  /\ state' = Target(state, "ConnectFail")
  /\ attempt' = attempt + 1
  /\ delay' = IF state = "Connecting" THEN delay
              ELSE RetryDelay(attempt', IF state = "Reconnecting" THEN 0 ELSE stable)
  /\ UNCHANGED <<readySince, stable>>

(* kConnectFail outside Ready: one more failure, one more step of the ramp.
   Reconnecting ignores the last link's stability, the others use it.      *)
ConnectFail ==
  /\ state \in {"Connecting", "Degraded", "Reconnecting"}
  /\ attempt < MaxAttempt
  /\ state' = Target(state, "ConnectFail")
  /\ attempt' = attempt + 1
  /\ delay' = RetryDelay(attempt', IF state = "Reconnecting" THEN 0 ELSE stable)
  /\ UNCHANGED <<readySince, stable>>

(* Mutant of Degrade: the ramp restarts after any link, however short.     *)
Mut_AnyLinkResets(e) ==
  /\ state = "Ready" /\ e \in {"ChannelLost", "ConnectFail"}
  /\ state' = Target(state, e)
  /\ stable' = now - readySince
  /\ attempt' = 0
  /\ delay' = RetryDelay(attempt', stable')
  /\ UNCHANGED readySince

(* Lifecycle::Degrade, reached from Ready by kChannelLost or kConnectFail. *)
Degrade(e) ==
  /\ state = "Ready" /\ e \in {"ChannelLost", "ConnectFail"}
  /\ state' = Target(state, e)
  /\ stable' = now - readySince
  /\ attempt' = IF stable' >= StableReset THEN 0 ELSE attempt
  /\ delay' = RetryDelay(attempt', stable')
  /\ UNCHANGED readySince

Retry ==
  /\ Handles(state, "Retry")
  /\ state' = Target(state, "Retry")
  /\ delay' = RetryDelay(attempt, stable)
  /\ UNCHANGED <<attempt, readySince, stable>>

Plain(e) ==
  /\ e \in {"Start", "Stop", "Stopped"} /\ Handles(state, e)
  /\ state' = Target(state, e)
  /\ KeepData

(* kUnhandled: the event is dropped.                                       *)
Dropped(e) ==
  /\ ~Handles(state, e)
  /\ UNCHANGED state /\ KeepData

(* What the event says of the channel.                                     *)
Reported(e) ==
  CASE e = "ConnectOk"                      -> "up"
    [] e \in {"ConnectFail", "ChannelLost"} -> "down"
    [] OTHER                                -> link

(* Lifecycle::Post on the started machine.  The worker's first event is
   kStart, so the channel is never reported on in Init.                    *)
Post(e) ==
  /\ state = "Init" => e \in {"Start", "Stop"}
  /\ \/ e = "ConnectOk" /\ ConnectOk
     \/ e = "ConnectFail" /\ ConnectFail
     \/ Degrade(e)
     \/ e = "Retry" /\ Retry
     \/ Plain(e)
     \/ Dropped(e)
  /\ link' = Reported(e)
  /\ UNCHANGED now

Tick ==
  /\ now < Horizon
  /\ now' = now + 1
  /\ UNCHANGED <<state, attempt, readySince, stable, delay, link>>

Next == Tick \/ \E e \in Events : Post(e)

Spec == Init /\ [][Next]_vars

-----------------------------------------------------------------------------
(* Properties.                                                             *)

(* Types.  The delay is 0 until a first failure; afterwards it lies between
   the base and the ceiling, which is what BackoffDelayMs promises.        *)
TypeOK ==
  /\ state \in States
  /\ attempt \in 0 .. MaxAttempt
  /\ readySince \in 0 .. now
  /\ stable \in Nat
  /\ delay \in {0} \cup (BackoffBase .. BackoffMax)
  /\ now \in Nat
  /\ link \in {"unknown", "up", "down"}

(* The tray tells the truth about the channel: while the process is neither
   starting nor stopping, it is green exactly when the last thing the worker
   reported is that the channel is up.  No order of reports makes the
   machine drop one that matters (lifecycle.hpp: "Failure visibility is the
   point of this layer").                                                  *)
GreenIffLinkUp ==
  state \notin {"Init", "Stopping", "Stopped"} =>
    (Health(state) = "green" <=> link = "up")

(* The wait before a reconnect never shrinks, however the link flaps,
   unless the link that was just lost had been up for StableReset: a server
   that accepts and drops connections is not hammered at the base interval. *)
RampKeptByFlapping ==
  [][delay' < delay => state = "Ready" /\ now - readySince >= StableReset]_vars

(* A wait that the supervision loop takes (NeedsRetry) is always a real
   delay: the loop never polls with a zero timeout.                        *)
NoZeroWait == state \in {"Degraded", "Reconnecting"} => delay > 0
=============================================================================
