--------------------------- MODULE LifecycleProofs ---------------------------
(***************************************************************************)
(* Theorems about the lifecycle machine, for every base, ceiling, stable   *)
(* period and bound.  First the arithmetic of the doubling loop, then the  *)
(* inductive invariant, then the two results a reader should know of: the  *)
(* tray is green exactly when the channel is up, and flapping never        *)
(* shortens the wait before a reconnect.                                   *)
(***************************************************************************)
EXTENDS Lifecycle, WellFoundedInduction, TLAPS

-----------------------------------------------------------------------------
(* The doubling loop.                                                      *)

(* Every nonempty set of natural numbers has a least element.              *)
LEMMA LeastNatural ==
  ASSUME NEW T \in SUBSET Nat, T # {}
  PROVE  \E m \in T : \A k \in T : m <= k
<1> DEFINE R == OpToRel(<, Nat)
<1>1. IsWellFoundedOn(R, Nat)
  BY NatLessThanWellFounded
<1>2. \A x, y \in Nat : x < y => <<x, y>> \in R
  BY DEF OpToRel
<1> HIDE DEF R
<1>3. PICK m \in T : \A y \in T : ~(<<y, m>> \in R)
  BY <1>1, WFMin, Zenon
<1>4. \A k \in T : ~(k < m)
  BY <1>2, <1>3, Zenon
<1>5. \A k \in T : m <= k
  BY <1>4
<1> QED BY <1>5

(* One round of the loop.                                                  *)
Double(x) == IF x >= BackoffMax THEN x ELSE 2 * x

(* g tabulates the loop up to round n.                                     *)
Tabulates(g, n) ==
  g = [i \in 0 .. n |-> IF i = 0 THEN BackoffBase ELSE Double(g[i - 1])]

(* The recursion of Ramp has a solution over every bound.                  *)
LEMMA RampExists == \A n \in Nat : \E g : Tabulates(g, n)
<1> DEFINE Bad == {n \in Nat : ~ \E g : Tabulates(g, n)}
<1> SUFFICES ASSUME Bad # {} PROVE FALSE
  OBVIOUS
<1>1. PICK m \in Bad : \A k \in Bad : m <= k
  <2>1. Bad \in SUBSET Nat
    OBVIOUS
  <2> HIDE DEF Bad
  <2> QED BY <2>1, LeastNatural
<1>2. CASE m = 0
  <2>1. Tabulates([i \in 0 .. 0 |-> BackoffBase], 0)
    BY DEF Tabulates
  <2> QED BY <1>2, <2>1
<1>3. CASE m # 0
  <2>1. m - 1 \in Nat /\ m \in Nat /\ ~(m <= m - 1)
    BY <1>3
  <2>2. PICK g : Tabulates(g, m - 1)
    BY <1>1, <2>1
  <2> DEFINE h == [i \in 0 .. m |-> IF i = m THEN Double(g[m - 1]) ELSE g[i]]
  <2>3. \A i \in 0 .. m - 1 :
           g[i] = IF i = 0 THEN BackoffBase ELSE Double(g[i - 1])
    BY <2>1, <2>2 DEF Tabulates
  <2>4. \A i \in 0 .. m : i # 0 => h[i - 1] = g[i - 1]
    BY <2>1
  <2>5. \A i \in 0 .. m :
           h[i] = IF i = 0 THEN BackoffBase ELSE Double(h[i - 1])
    <3> TAKE i \in 0 .. m
    <3>1. CASE i = m
      BY <3>1, <2>1, <2>4
    <3>2. CASE i # m
      <4>1. i \in 0 .. m - 1
        BY <3>2, <2>1
      <4> QED BY <4>1, <3>2, <2>1, <2>3, <2>4
    <3> QED BY <3>1, <3>2
  <2>6. h = [i \in 0 .. m |-> h[i]]
    OBVIOUS
  <2> HIDE DEF h
  <2>7. Tabulates(h, m)
    BY <2>5, <2>6 DEF Tabulates
  <2> QED BY <2>7
<1> QED BY <1>2, <1>3

(* Ramp satisfies the equation it is defined by.                           *)
LEMMA RampEquation ==
  /\ Ramp[0] = BackoffBase
  /\ \A n \in 1 .. MaxAttempt : Ramp[n] = Double(Ramp[n - 1])
<1>1. PICK g : Tabulates(g, MaxAttempt)
  BY RampExists, BackoffAssumption
<1>2. g = [n \in 0 .. MaxAttempt |->
              IF n = 0 THEN BackoffBase
              ELSE IF g[n - 1] >= BackoffMax THEN g[n - 1]
              ELSE 2 * g[n - 1]]
  BY <1>1 DEF Tabulates, Double
<1>3. Ramp = [n \in 0 .. MaxAttempt |->
                 IF n = 0 THEN BackoffBase
                 ELSE IF Ramp[n - 1] >= BackoffMax THEN Ramp[n - 1]
                 ELSE 2 * Ramp[n - 1]]
  BY <1>2, Zenon DEF Ramp
<1> QED BY <1>3, BackoffAssumption DEF Double

(* Every entry is a number no less than the base.                          *)
LEMMA RampType ==
  \A n \in 0 .. MaxAttempt : Ramp[n] \in Nat /\ Ramp[n] >= BackoffBase
<1> DEFINE Bad == {n \in 0 .. MaxAttempt :
                      ~(Ramp[n] \in Nat /\ Ramp[n] >= BackoffBase)}
<1> SUFFICES ASSUME Bad # {} PROVE FALSE
  OBVIOUS
<1>1. PICK m \in Bad : \A k \in Bad : m <= k
  <2>1. Bad \in SUBSET Nat
    BY BackoffAssumption
  <2> HIDE DEF Bad
  <2> QED BY <2>1, LeastNatural
<1>2. m # 0
  BY RampEquation, BackoffAssumption
<1>3. m \in 1 .. MaxAttempt /\ m - 1 \in 0 .. MaxAttempt /\ ~(m <= m - 1)
  BY <1>2, BackoffAssumption
<1>4. Ramp[m - 1] \in Nat /\ Ramp[m - 1] >= BackoffBase
  BY <1>1, <1>3
<1>5. Ramp[m] = Double(Ramp[m - 1])
  BY <1>3, RampEquation
<1> QED BY <1>3, <1>4, <1>5, BackoffAssumption DEF Double

(* The ramp climbs.                                                        *)
LEMMA RampClimbs == \A n \in 1 .. MaxAttempt : Ramp[n - 1] <= Ramp[n]
<1> TAKE n \in 1 .. MaxAttempt
<1>1. n - 1 \in 0 .. MaxAttempt
  BY BackoffAssumption
<1>2. Ramp[n - 1] \in Nat
  BY <1>1, RampType
<1> QED BY <1>2, RampEquation, BackoffAssumption DEF Double

(* What BackoffDelayMs returns lies between the base and the ceiling.      *)
LEMMA DelayBounds ==
  ASSUME NEW a \in 0 .. MaxAttempt, NEW up \in Nat
  PROVE  RetryDelay(a, up) \in BackoffBase .. BackoffMax
<1> DEFINE n == IF a = 0 THEN 0 ELSE a - 1
<1>1. n \in 0 .. MaxAttempt
  BY BackoffAssumption
<1>2. Ramp[n] \in Nat /\ Ramp[n] >= BackoffBase
  BY <1>1, RampType
<1>3. RetryDelay(a, up) = BackoffDelay(n, up)
  BY DEF RetryDelay
<1> HIDE DEF n
<1> QED BY <1>2, <1>3, BackoffAssumption DEF BackoffDelay

(* One more failure never shortens the wait, and neither does forgetting
   how stable the last link was.                                           *)
LEMMA DelayClimbs ==
  ASSUME NEW a \in 0 .. MaxAttempt, a + 1 <= MaxAttempt, NEW up \in Nat
  PROVE  /\ RetryDelay(a, up) <= RetryDelay(a + 1, up)
         /\ RetryDelay(a, 0) <= RetryDelay(a + 1, 0)
<1>1. RetryDelay(a + 1, up) = BackoffDelay(a, up)
       /\ RetryDelay(a + 1, 0) = BackoffDelay(a, 0)
  BY BackoffAssumption DEF RetryDelay
<1>2. Ramp[a] \in Nat
  BY RampType
<1>3. CASE a = 0
  <2>1. RetryDelay(a, up) = BackoffDelay(a, up)
         /\ RetryDelay(a, 0) = BackoffDelay(a, 0)
    BY <1>3 DEF RetryDelay
  <2>2. BackoffDelay(a, up) \in Nat /\ BackoffDelay(a, 0) \in Nat
    BY <1>2, BackoffAssumption DEF BackoffDelay
  <2> QED BY <1>1, <2>1, <2>2
<1>4. CASE a # 0
  <2>1. RetryDelay(a, up) = BackoffDelay(a - 1, up)
         /\ RetryDelay(a, 0) = BackoffDelay(a - 1, 0)
    BY <1>4 DEF RetryDelay
  <2>2. a \in 1 .. MaxAttempt /\ a - 1 \in 0 .. MaxAttempt
    BY <1>4, BackoffAssumption
  <2>3. Ramp[a - 1] \in Nat /\ Ramp[a - 1] <= Ramp[a]
    BY <2>2, RampType, RampClimbs
  <2> QED BY <1>1, <1>2, <2>1, <2>3, BackoffAssumption DEF BackoffDelay
<1> QED BY <1>3, <1>4

(* A stable link never waits longer than an unstable one would.            *)
LEMMA StableWaitsLess ==
  ASSUME NEW a \in 0 .. MaxAttempt, NEW up \in Nat
  PROVE  RetryDelay(a, up) <= RetryDelay(a, 0)
<1>1. RetryDelay(a, 0) \in BackoffBase .. BackoffMax
       /\ RetryDelay(a, up) \in BackoffBase .. BackoffMax
  BY DelayBounds
<1>2. CASE up >= StableReset
  <2>1. RetryDelay(a, up) = BackoffBase
    BY <1>2 DEF RetryDelay, BackoffDelay
  <2> QED BY <1>1, <2>1, BackoffAssumption
<1>3. CASE ~(up >= StableReset)
  <2>1. RetryDelay(a, up) = RetryDelay(a, 0)
    BY <1>3, BackoffAssumption DEF RetryDelay, BackoffDelay
  <2> QED BY <1>1, <2>1, BackoffAssumption
<1> QED BY <1>2, <1>3

-----------------------------------------------------------------------------
(* The inductive invariant: the types, the colour, and how far the current
   delay may be from the one that the failure count calls for.             *)
LifecycleInv ==
  /\ TypeOK
  /\ GreenIffLinkUp
  /\ NoZeroWait
  /\ state = "Init" => link = "unknown"
  /\ state \in {"Init", "Connecting"} => stable = 0
  /\ state = "Degraded" => delay = RetryDelay(attempt, stable)
  /\ delay <= RetryDelay(attempt, 0)

(* The table keeps the states closed, and says which events reach Ready
   and which states accept an outcome of the channel.                      *)
LEMMA TableFacts ==
  /\ \A s \in States, e \in Events : Target(s, e) \in States
  /\ \A s \in States, e \in Events :
        Handles(s, e) =>
          /\ Target(s, e) = "Ready" <=> e = "ConnectOk"
          /\ Target(s, e) # "Init"
          /\ Target(s, e) = "Connecting" => e = "Start"
          /\ Target(s, e) = "Degraded" => s \in {"Ready", "Degraded"}
          /\ Target(s, e) = "Reconnecting" => e \in {"Retry", "ConnectFail"}
          /\ e = "Start" => s = "Init" /\ Target(s, e) = "Connecting"
          /\ e \in {"Stop", "Stopped"} => Target(s, e) \in {"Stopping", "Stopped"}
          /\ e = "Retry" => s = "Degraded" /\ Target(s, e) = "Reconnecting"
  /\ \A s \in {"Connecting", "Degraded", "Reconnecting"} :
        /\ Handles(s, "ConnectOk") /\ Handles(s, "ConnectFail")
        /\ ~Handles(s, "ChannelLost")
        /\ Target(s, "ConnectFail") \in {"Degraded", "Reconnecting"}
        /\ Target(s, "ConnectFail") = "Degraded" => s = "Degraded"
  /\ \A e \in Events : Handles("Ready", e) =>
        \/ e = "Stop" /\ Target("Ready", e) = "Stopping"
        \/ e \in {"ChannelLost", "ConnectFail"} /\ Target("Ready", e) = "Degraded"
  /\ Handles("Ready", "ChannelLost") /\ Handles("Ready", "ConnectFail")
  /\ \A s \in States : Handles(s, "ConnectOk") =>
        s \in {"Connecting", "Degraded", "Reconnecting"}
BY DEF States, Events, Target, Handles, Table

(* The machine starts with no link, no outage counted and no wait.         *)
LEMMA InitEstablishes == Init => LifecycleInv
BY BackoffAssumption, DelayBounds
   DEF Init, LifecycleInv, TypeOK, GreenIffLinkUp, NoZeroWait, States, Health

(* A step keeps the invariant and, unless it ends a stable link, the wait.
   One step per action.                                                    *)
RampKept == delay' < delay => state = "Ready" /\ now - readySince >= StableReset

LEMMA StepPreserves ==
  ASSUME LifecycleInv, [Next]_vars
  PROVE  LifecycleInv' /\ RampKept
<1> USE BackoffAssumption DEF LifecycleInv, TypeOK
<1> DEFINE Coloured(s, l) ==
      s \notin {"Init", "Stopping", "Stopped"} => (s = "Ready" <=> l = "up")
<1>a. Coloured(state, link)
  BY DEF GreenIffLinkUp, Health
<1>b. Coloured(state', link') => GreenIffLinkUp'
  BY DEF GreenIffLinkUp, Health
<1>1. CASE Tick
  BY <1>1, <1>a, <1>b DEF Tick, RampKept, NoZeroWait
<1>2. ASSUME NEW e \in Events, Post(e)
      PROVE  LifecycleInv' /\ RampKept
  <2>0. /\ state = "Init" => e \in {"Start", "Stop"}
        /\ link' = Reported(e) /\ now' = now
        /\ link' \in {"unknown", "up", "down"}
    BY <1>2 DEF Post, Reported
  <2>1. CASE e = "ConnectOk" /\ ConnectOk
    <3>1. state \in {"Connecting", "Degraded", "Reconnecting"} /\ state' = "Ready"
      BY <2>1, TableFacts DEF ConnectOk
    <3>2. link' = "up" /\ readySince' = now /\ stable' = 0
           /\ attempt' = attempt /\ delay' = delay
      BY <2>0, <2>1 DEF ConnectOk, Reported
    <3> QED BY <3>1, <3>2, <2>0, <1>b DEF RampKept, NoZeroWait, States
  <2>2. CASE e = "ConnectFail" /\ ConnectFail
    <3> DEFINE up == IF state = "Reconnecting" THEN 0 ELSE stable
    <3>1. /\ state \in {"Connecting", "Degraded", "Reconnecting"}
          /\ state' \in {"Degraded", "Reconnecting"}
          /\ state' = "Degraded" => state = "Degraded"
      BY <2>2, TableFacts DEF ConnectFail
    <3>2. /\ attempt' = attempt + 1 /\ attempt + 1 <= MaxAttempt
          /\ delay' = RetryDelay(attempt + 1, up) /\ up \in Nat
          /\ readySince' = readySince /\ stable' = stable
          /\ link' = "down"
      BY <2>0, <2>2 DEF ConnectFail, Reported
    <3>3. attempt + 1 \in 0 .. MaxAttempt
      BY <3>2
    <3>4. /\ delay' \in BackoffBase .. BackoffMax
          /\ delay' <= RetryDelay(attempt + 1, 0)
          /\ RetryDelay(attempt + 1, 0) \in BackoffBase .. BackoffMax
          /\ RetryDelay(attempt, 0) \in BackoffBase .. BackoffMax
          /\ RetryDelay(attempt, up) \in BackoffBase .. BackoffMax
      BY <3>2, <3>3, DelayBounds, StableWaitsLess
    <3>5. delay <= RetryDelay(attempt, up)
      BY <3>1
    <3>6. RetryDelay(attempt, up) <= delay'
      BY <3>2, DelayClimbs
    <3>7. delay <= delay'
      BY <3>4, <3>5, <3>6
    <3> QED BY <3>1, <3>2, <3>3, <3>4, <3>7, <2>0, <1>b DEF RampKept, NoZeroWait, States
  <2>3. CASE Degrade(e)
    <3>1. /\ state = "Ready" /\ e \in {"ChannelLost", "ConnectFail"}
          /\ state' = "Degraded"
      BY <2>3, TableFacts DEF Degrade
    <3>2. /\ link' = "down"
          /\ stable' = now - readySince /\ stable' \in Nat
          /\ attempt' = (IF stable' >= StableReset THEN 0 ELSE attempt)
          /\ attempt' \in 0 .. MaxAttempt
          /\ delay' = RetryDelay(attempt', stable')
          /\ readySince' = readySince
      BY <2>0, <2>3, <3>1 DEF Degrade, Reported
    <3>3. /\ delay' \in BackoffBase .. BackoffMax
          /\ delay' <= RetryDelay(attempt', 0)
      BY <3>2, DelayBounds, StableWaitsLess
    <3>4. CASE stable' >= StableReset
      BY <3>1, <3>2, <3>3, <3>4, <2>0, <1>b DEF RampKept, NoZeroWait, States
    <3>5. CASE ~(stable' >= StableReset)
      <4>1. RetryDelay(attempt, stable') = RetryDelay(attempt, 0)
        BY <3>2, <3>5 DEF RetryDelay, BackoffDelay
      <4>2. delay <= delay'
        BY <3>2, <3>5, <4>1
      <4> QED BY <3>1, <3>2, <3>3, <4>2, <2>0, <1>b DEF RampKept, NoZeroWait, States
    <3> QED BY <3>4, <3>5
  <2>4. CASE e = "Retry" /\ Retry
    <3>1. state = "Degraded" /\ state' = "Reconnecting"
      BY <2>4, TableFacts DEF Retry
    <3>2. /\ delay' = delay /\ attempt' = attempt /\ readySince' = readySince
          /\ stable' = stable /\ link' = link
      BY <2>0, <2>4, <3>1 DEF Retry, Reported
    <3> QED BY <3>1, <3>2, <2>0, <1>a, <1>b DEF RampKept, NoZeroWait, States
  <2>5. CASE Plain(e)
    <3>1. /\ state' \in {"Connecting", "Stopping", "Stopped"}
          /\ state' = "Connecting" => state = "Init"
          /\ link' = link
          /\ attempt' = attempt /\ readySince' = readySince
          /\ stable' = stable /\ delay' = delay
      BY <2>0, <2>5, TableFacts DEF Plain, KeepData, Reported
    <3>2. state' = "Connecting" => link = "unknown"
      BY <3>1
    <3> QED BY <3>1, <3>2, <2>0, <1>b DEF RampKept, NoZeroWait, States
  <2>6. CASE Dropped(e)
    <3>1. /\ state' = state /\ ~Handles(state, e)
          /\ attempt' = attempt /\ readySince' = readySince
          /\ stable' = stable /\ delay' = delay
      BY <2>6 DEF Dropped, KeepData
    <3>2. CASE e \notin {"ConnectOk", "ConnectFail", "ChannelLost"}
      <4>1. link' = link
        BY <3>2, <2>0 DEF Reported
      <4> QED BY <4>1, <3>1, <2>0, <1>a, <1>b DEF RampKept, NoZeroWait
    <3>3. CASE e \in {"ConnectOk", "ConnectFail", "ChannelLost"}
      <4>1. state # "Init" /\ link' \in {"up", "down"}
             /\ (link' = "up" <=> e = "ConnectOk")
        BY <3>3, <2>0 DEF Reported
      <4>2. state = "Ready" => e = "ConnectOk"
        BY <3>1, <3>3, TableFacts
      <4>3. state \in {"Connecting", "Degraded", "Reconnecting"} => e # "ConnectOk"
        BY <3>1, TableFacts
      <4> QED BY <4>1, <4>2, <4>3, <3>1, <2>0, <1>b DEF RampKept, NoZeroWait, States
    <3> QED BY <3>2, <3>3
  <2> QED BY <1>2, <2>1, <2>2, <2>3, <2>4, <2>5, <2>6 DEF Post
<1>3. CASE UNCHANGED vars
  BY <1>3, <1>a, <1>b DEF vars, RampKept, NoZeroWait
<1> QED BY <1>1, <1>2, <1>3 DEF Next

(* The invariant of the machine, and with it the types, the colour and the
   waits the runs check on a small instance.                               *)
THEOREM LifecycleSafe == Spec => [](TypeOK /\ GreenIffLinkUp /\ NoZeroWait)
<1>1. LifecycleInv /\ [Next]_vars => LifecycleInv'
  BY StepPreserves
<1>2. LifecycleInv => TypeOK /\ GreenIffLinkUp /\ NoZeroWait
  BY DEF LifecycleInv
<1> QED BY InitEstablishes, <1>1, <1>2, PTL DEF Spec

(* Flapping never shortens the wait before a reconnect.                    *)
THEOREM FlappingNeverHammers == Spec => RampKeptByFlapping
<1>1. LifecycleInv /\ [Next]_vars => LifecycleInv'
  BY StepPreserves
<1>2. LifecycleInv /\ [Next]_vars => [RampKept]_vars
  BY StepPreserves
<1>3. [RampKept]_vars => [delay' < delay => state = "Ready" /\ now - readySince >= StableReset]_vars
  BY DEF RampKept
<1> QED BY InitEstablishes, <1>1, <1>2, <1>3, PTL DEF Spec, RampKeptByFlapping
=============================================================================
