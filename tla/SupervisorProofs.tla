--------------------------- MODULE SupervisorProofs ---------------------------
(***************************************************************************)
(* The two threads, for every queue bound, with and without an upload      *)
(* deadline and a store buffer: what the worker finds when it looks        *)
(* around, what the main thread may terminate, and what the tray shows.    *)
(*                                                                         *)
(* The tray and the probe lag behind the worker by the notices in the      *)
(* queue, so the invariant cannot speak of what they show now: it says     *)
(* what they will show once the queue is read (Settled).                   *)
(***************************************************************************)
EXTENDS Supervisor, SequenceTheorems, TLAPS

(* The states in which no channel is up, or the machine does not know yet. *)
Loose == {"Connecting", "Degraded", "Reconnecting"}

(* The machine, the client and the child agree.                             *)
ClientMatches == (client <=> lc = "Ready") /\ (client <=> child # "none")

(* What each place of the worker knows of the machine, the client and the
   child: the calls before it have run, whatever the other thread did.     *)
Places ==
  /\ wpc = "boot" => /\ lc = "Init" /\ ~client /\ child = "none"
                     /\ queue = <<>> /\ probe = "off" /\ tray = "yellow"
  /\ wpc = "ensure" => /\ ClientMatches /\ lc \in Loose \cup {"Ready"}
                       /\ ret # "run" => ~client
  /\ wpc \in {"spawn", "failed"} => ~client /\ child = "none" /\ lc \in Loose
  /\ wpc \in {"publish", "recheck"} => ~client /\ child # "none" /\ lc \in Loose
  /\ wpc \in {"init", "connected"} => client /\ child # "none" /\ lc \in Loose
  /\ wpc \in {"unlever", "close"} =>
       /\ child # "none"
       /\ IF then = "failed" THEN lc \in Loose ELSE lc = "Ready"
  /\ wpc \in {"run", "running"} =>
       client /\ child # "none" /\ lc = "Ready" /\ ret = "run"
  /\ wpc \in {"loop", "wait"} => ClientMatches /\ lc \in Loose \cup {"Ready"}

(* The handle is out only while there is a child to terminate, and DropChannel
   has withdrawn it before it closes the channel.                          *)
LeverHeld ==
  /\ lever \/ unseen => child # "none"
  /\ wpc = "close" => ~lever /\ ~unseen

(* Once q is read, what the notices in about change is as the good ones leave
   it, and it is so already (now) if q holds none of them.                 *)
NoneFrom(q, from, about) == \A j \in from .. Len(q) : q[j] \notin about
LastIsGood(q, about, good) ==
  \E i \in 1 .. Len(q) : q[i] \in good /\ NoneFrom(q, i + 1, about)
Settled(q, about, good, now) ==
  (now /\ NoneFrom(q, 1, about)) \/ LastIsGood(q, about, good)

HealthNotices == Notices \ {Started, Ended, LocalFail}

(* The colour, which a Started may turn red if the probe will not arm: the
   last of them in the queue is the health of the machine as it is.        *)
TrayNotices == HealthNotices \cup {Started}
Shown == {n \in HealthNotices : n.colour = Health(lc)}
TrayTold ==
  Listening /\ wpc \in {"loop", "wait"} =>
    Settled(queue, TrayNotices, Shown, tray = Health(lc))

(* The probe is bracketed by the notices of an upload, or of the handshake of
   a start: outside of these the last of them in the queue disarms it.     *)
Bracketed ==
  \/ wpc \in {"run", "running"}
  \/ ret # "retry" /\ (wpc = "ensure" \/ Connecting)
ProbeTold ==
  Listening /\ ~Bracketed =>
    Settled(queue, {Started, Ended}, {Ended}, probe = "off")

(* A notice that raises no balloon turns the tray green, or finds it not green:
   only the first notice of the program, next to be read, is of that kind. *)
Loud(n) == n \in HealthNotices /\ n.outcome # "failed" => n.colour = "green"
NoSilentLoss ==
  \A i \in 1 .. Len(queue) : Loud(queue[i]) \/ (i = 1 /\ tray # "green")

SupervisorInv ==
  /\ TypeOK /\ Places /\ LeverHeld
  /\ TrayTold /\ ProbeTold /\ NoSilentLoss

-----------------------------------------------------------------------------
(* What the operators of the model return.                                 *)

(* The rows of the table the worker uses.                                  *)
LEMMA TableFacts ==
  /\ Loose \subseteq States /\ "Ready" \in States \ Loose
  /\ Target("Init", "Start") = "Connecting"
  /\ \A s \in Loose : /\ Target(s, "ConnectOk") = "Ready"
                      /\ Target(s, "ConnectFail") \in Loose
                      /\ Target(s, "Retry") \in Loose
  /\ Target("Ready", "ChannelLost") = "Degraded"
  /\ Target("Ready", "ConnectFail") = "Degraded"
  /\ \A s \in States : /\ Target(Target(s, "Stop"), "Stopped") \in States
                       /\ Health(s) \in Colours
  /\ Health("Init") = "yellow" /\ Health("Connecting") = "yellow"
  /\ Health("Ready") = "green"
BY DEF Loose, States, Target, Handles, Table, Health, Colours

(* The kinds of notices are apart, and HealthOf makes one of the last kind. *)
LEMMA NoticeFacts ==
  /\ {Started, Ended, LocalFail} \subseteq Notices
  /\ Started # Ended /\ Started # LocalFail /\ Ended # LocalFail
  /\ \A s \in States, why \in {"none", "failed", "recovered"} :
        /\ HealthOf(s, why) \in HealthNotices
        /\ HealthOf(s, why).colour = Health(s)
        /\ HealthOf(s, why).outcome = why
  /\ \A n \in HealthNotices : n.notice = "Health" /\ n.colour \in Colours
<1>1. /\ Started.notice = "UploadStarted" /\ Ended.notice = "UploadEnded"
      /\ LocalFail.notice = "LocalFailure"
      /\ \A s, why : HealthOf(s, why).notice = "Health"
  BY DEF Started, Ended, LocalFail, HealthOf
<1>2. \A s, why : HealthOf(s, why).colour = Health(s) /\ HealthOf(s, why).outcome = why
  BY DEF HealthOf
<1> QED BY <1>1, <1>2, TableFacts DEF Notices, HealthNotices

(* Where EnsureChannel returns to.                                         *)
LEMMA AfterEnsureFacts ==
  ASSUME ret \in {"boot", "run", "retry"}, NEW up \in BOOLEAN
  PROVE  /\ AfterEnsure(up).pc = IF ret = "run" /\ up THEN "run" ELSE "loop"
         /\ AfterEnsure(up).posts =
              IF ret = "boot" \/ (ret = "run" /\ ~up) THEN <<Ended>> ELSE <<>>
         /\ AfterEnsure(up).posts \in Seq(Notices)
BY NoticeFacts DEF AfterEnsure

(* What is posted are notices, and they fit.                               *)
LEMMA PostType ==
  ASSUME queue \in Seq(Notices), Len(queue) <= QueueBound,
         NEW ms \in Seq(Notices), PostAll(ms)
  PROVE  queue' \in Seq(Notices) /\ Len(queue') <= QueueBound
<1>1. CASE Listening
  BY <1>1, ConcatProperties DEF PostAll
<1>2. CASE ~Listening
  BY <1>2 DEF PostAll
<1> QED BY <1>1, <1>2

-----------------------------------------------------------------------------
(* The places, the handle and the types.                                   *)

(* The program starts with no channel, nothing posted and a yellow tray.   *)
LEMMA InitEstablishes == Init => SupervisorInv
<1> SUFFICES ASSUME Init PROVE SupervisorInv
  OBVIOUS
<1>1. queue \in Seq(Notices) /\ Len(queue) = 0
  BY DEF Init
<1>2. TypeOK
  <2>1. {waited, client, quit, wake, lever, unseen, latched} \subseteq BOOLEAN
    BY Zenon DEF Init
  <2> QED BY <1>1, <2>1, SupervisorAssumption DEF Init, TypeOK, States, Colours
<1>3. Places /\ LeverHeld
  BY DEF Init, Places, LeverHeld
<1>4. TrayTold /\ ProbeTold /\ NoSilentLoss
  <2>1. NoSilentLoss
    BY <1>1 DEF NoSilentLoss
  <2>2. Settled(queue, {Started, Ended}, {Ended}, probe = "off")
    BY <1>1 DEF Init, Settled, NoneFrom
  <2> QED BY <2>1, <2>2 DEF Init, TrayTold, ProbeTold
<1> QED BY <1>2, <1>3, <1>4 DEF SupervisorInv

(* One step per action.                                                    *)
LEMMA PlacesPreserved ==
  ASSUME TypeOK, Places, LeverHeld, [Next]_vars
  PROVE  TypeOK' /\ Places' /\ LeverHeld'
<1> USE SupervisorAssumption, TableFacts
        DEF TypeOK, Places, LeverHeld, ClientMatches, Connecting
<1>1. CASE Boot
  <2>1. lc' = "Connecting"
    BY <1>1 DEF Boot
  <2>2. <<HealthOf(lc', "none"), Started>> \in Seq(Notices)
    BY <2>1, NoticeFacts DEF HealthNotices, Loose
  <2>3. queue' \in Seq(Notices) /\ Len(queue') <= QueueBound
    BY <2>2, <1>1, PostType DEF Boot
  <2> QED BY <1>1, <2>1, <2>3 DEF Boot, KeepMain, sharedVars, Loose
<1>2. CASE AlreadyUp
  <2>1. ret = "run" /\ lc = "Ready" /\ lc' = "Ready"
    BY <1>2 DEF AlreadyUp
  <2>2. wpc' = "run" /\ AfterEnsure(TRUE).posts \in Seq(Notices)
    BY <1>2, <2>1, AfterEnsureFacts DEF AlreadyUp
  <2>3. <<>> \o AfterEnsure(TRUE).posts = AfterEnsure(TRUE).posts
    BY <2>2, ConcatEmptySeq
  <2>4. queue' \in Seq(Notices) /\ Len(queue') <= QueueBound
    BY <1>2, <2>1, <2>2, <2>3, PostType DEF AlreadyUp
  <2> QED BY <1>2, <2>1, <2>2, <2>4 DEF AlreadyUp, KeepMain, sharedVars
<1>3. CASE BeginConnect
  BY <1>3 DEF BeginConnect, mainVars
<1>4. CASE Spawn
  BY <1>4 DEF Spawn, sharedVars, mainVars
<1>5. CASE Publish
  BY <1>5 DEF Publish, mainVars
<1>6. CASE Drain
  <2>1. {waited, client, quit, wake, lever, unseen, latched}' \subseteq BOOLEAN
    BY <1>6, Zenon DEF Drain, workerVars, mainVars
  <2> QED BY <1>6, <2>1 DEF Drain, workerVars, mainVars
<1>7. CASE Recheck
  <2>1. {waited, client, quit, wake, lever, unseen, latched}' \subseteq BOOLEAN
    BY <1>7, Zenon DEF Recheck, sharedVars, mainVars
  <2> QED BY <1>7, <2>1 DEF Recheck, sharedVars, mainVars
<1>8. CASE InitOk
  BY <1>8 DEF InitOk, sharedVars, mainVars
<1>9. CASE InitFails
  BY <1>9 DEF InitFails, sharedVars, mainVars
<1>10. ASSUME NEW up \in BOOLEAN, NEW event, NEW why \in {"failed", "recovered"},
              ConnectEnds(up, event, why), lc' \in States,
              wpc \in {"connected", "failed"},
              IF up THEN client /\ child # "none" /\ lc' = "Ready"
                    ELSE ~client /\ child = "none" /\ lc' \in Loose
       PROVE  TypeOK' /\ Places' /\ LeverHeld'
  <2>1. wpc' = IF ret = "run" /\ up THEN "run" ELSE "loop"
    BY <1>10, AfterEnsureFacts DEF ConnectEnds
  <2>2. <<HealthOf(lc', why)>> \o AfterEnsure(up).posts \in Seq(Notices)
    <3>1. <<HealthOf(lc', why)>> \in Seq(Notices)
      BY <1>10, NoticeFacts DEF HealthNotices
    <3> QED BY <3>1, AfterEnsureFacts, ConcatProperties
  <2>3. queue' \in Seq(Notices) /\ Len(queue') <= QueueBound
    BY <2>2, <1>10, PostType DEF ConnectEnds
  <2> QED BY <1>10, <2>1, <2>3 DEF ConnectEnds, KeepMain
<1>11. CASE Connected
  BY <1>11, <1>10 DEF Connected, ConnectEnds
<1>12. CASE ConnectFailed
  BY <1>12, <1>10 DEF ConnectFailed, ConnectEnds
<1>13. CASE Unlever
  <2>1. {waited, client, quit, wake, lever, unseen, latched}' \subseteq BOOLEAN
    BY <1>13, Zenon DEF Unlever, mainVars
  <2> QED BY <1>13, <2>1 DEF Unlever, mainVars
<1>14. CASE CloseInSpawn
  BY <1>14 DEF CloseInSpawn, Closed, Retired, sharedVars
<1>15. CASE CloseChannel
  <2>1. lc' = "Degraded" /\ lc' \in Loose
    BY <1>15 DEF CloseChannel, CloseAndTell, Closed, Loose
  <2>2. <<HealthOf(lc', "failed")>> \in Seq(Notices)
    BY <2>1, NoticeFacts DEF HealthNotices
  <2>3. queue' \in Seq(Notices) /\ Len(queue') <= QueueBound
    BY <2>2, <1>15, PostType DEF CloseChannel, CloseAndTell
  <2> QED BY <1>15, <2>1, <2>3
          DEF CloseChannel, CloseAndTell, Closed, Retired, sharedVars
<1>16. CASE LoopTop
  BY <1>16 DEF LoopTop, sharedVars, mainVars
<1>17. CASE EnterRun
  BY <1>17 DEF EnterRun, mainVars
<1>18. CASE WakeUp
  <2>1. queue' \in Seq(Notices) /\ Len(queue') <= QueueBound
    <3>1. <<Started>> \in Seq(Notices)
      BY NoticeFacts
    <3> QED BY <3>1, <1>18, PostType DEF WakeUp
  <2> QED BY <1>18, <2>1 DEF WakeUp, KeepMain
<1>19. CASE ChildExit
  BY <1>19 DEF ChildExit, sharedVars, mainVars
<1>20. CASE TimeoutFires
  BY <1>20 DEF TimeoutFires, NeedsRetry, Loose, sharedVars, mainVars
<1>21. ASSUME NEW ms \in Seq(Notices), LeaveRun, PostAll(ms),
              \/ wpc' = "loop" /\ UNCHANGED then
              \/ wpc' = "unlever" /\ then' = "bad"
       PROVE  TypeOK' /\ Places' /\ LeverHeld'
  <2>1. queue' \in Seq(Notices) /\ Len(queue') <= QueueBound
    BY <1>21, PostType
  <2> QED BY <1>21, <2>1 DEF LeaveRun, KeepMain
<1>22. CASE RunOk \/ RunFailsLocally \/ RunFails
  <2>1. wpc = "running" /\ HealthOf(lc, "none") \in Notices
    BY <1>22, NoticeFacts DEF RunOk, RunFailsLocally, RunFails, LeaveRun, HealthNotices
  <2>2. /\ <<Ended, HealthOf(lc, "none")>> \in Seq(Notices)
        /\ <<Ended, LocalFail, HealthOf(lc, "none")>> \in Seq(Notices)
        /\ <<Ended>> \in Seq(Notices)
    BY <2>1, NoticeFacts
  <2> QED BY <1>21, <1>22, <2>2 DEF RunOk, RunFailsLocally, RunFails
<1>23. CASE Receive
  <2>1. /\ queue' \in Seq(Notices) /\ Len(queue') = Len(queue) - 1
        /\ Head(queue) \in Notices
    BY <1>23, HeadTailProperties DEF Receive
  <2>2. probe' \in {"off", "on", "failed"} /\ tray' \in Colours
    BY <1>23, <2>1, NoticeFacts DEF Receive, Arm, HealthNotices, Colours
  <2> QED BY <1>23, <2>1, <2>2 DEF Receive, KeepWorker, workerVars
<1>24. CASE Hotkey
  BY <1>24 DEF Hotkey, KeepWorker, workerVars, mainVars
<1>25. CASE Tick
  BY <1>25 DEF Tick, KeepWorker, workerVars
<1>26. CASE RequestStop
  BY <1>26 DEF RequestStop, KeepWorker, workerVars
<1>27. CASE LoadLever
  BY <1>27 DEF LoadLever, KeepWorker, workerVars
<1>28. CASE Terminate
  BY <1>28 DEF Terminate, KeepWorker, workerVars
<1>29. CASE Join
  BY <1>29 DEF Join
<1>30. CASE ChildDies
  BY <1>30 DEF ChildDies, workerVars, sharedVars, mainVars
<1>31. CASE HandshakePasses
  BY <1>31 DEF HandshakePasses, workerVars, mainVars
<1>32. CASE FlightPasses
  BY <1>32 DEF FlightPasses, workerVars, mainVars
<1>33. CASE UNCHANGED vars
  BY <1>33 DEF vars, workerVars, sharedVars, mainVars
<1> QED
  BY <1>1, <1>2, <1>3, <1>4, <1>5, <1>6, <1>7, <1>8, <1>9, <1>11, <1>12, <1>13, <1>14,
     <1>15, <1>16, <1>17, <1>18, <1>19, <1>20, <1>22, <1>23, <1>24, <1>25, <1>26, <1>27,
     <1>28, <1>29, <1>30, <1>31, <1>32, <1>33
  DEF Next, WorkerGoesOn, WaitReturns, PeerAnswers, MainGoesOn, DeadlinePasses

-----------------------------------------------------------------------------
(* What posting and reading do to a queue that is settled.                 *)

(* A notice posted alone is the last one.                                  *)
LEMMA SingleFacts ==
  ASSUME NEW n \in Notices, NEW about, NEW good
  PROVE  /\ <<n>> \in Seq(Notices)
         /\ n \in good => LastIsGood(<<n>>, about, good)
         /\ n \notin about => NoneFrom(<<n>>, 1, about)
<1>1. Len(<<n>>) = 1 /\ <<n>>[1] = n
  OBVIOUS
<1>2. NoneFrom(<<n>>, 2, about)
  BY <1>1 DEF NoneFrom
<1> QED BY <1>1, <1>2 DEF NoneFrom, LastIsGood

(* What is posted later has the last word.                                 *)
LEMMA ConcatFacts ==
  ASSUME NEW q \in Seq(Notices), NEW ms \in Seq(Notices), NEW about, NEW good
  PROVE  /\ LastIsGood(ms, about, good) => LastIsGood(q \o ms, about, good)
         /\ NoneFrom(ms, 1, about) =>
              /\ NoneFrom(q, 1, about) => NoneFrom(q \o ms, 1, about)
              /\ LastIsGood(q, about, good) => LastIsGood(q \o ms, about, good)
<1> DEFINE c == q \o ms
<1>1. /\ Len(q) \in Nat /\ Len(ms) \in Nat /\ Len(c) = Len(q) + Len(ms)
      /\ \A i \in 1 .. Len(q) + Len(ms) :
            c[i] = IF i <= Len(q) THEN q[i] ELSE ms[i - Len(q)]
  BY ConcatProperties, LenProperties
<1> HIDE DEF c
<1>2. ASSUME LastIsGood(ms, about, good) PROVE LastIsGood(c, about, good)
  <2>1. PICK i \in 1 .. Len(ms) : ms[i] \in good /\ NoneFrom(ms, i + 1, about)
    BY <1>2 DEF LastIsGood
  <2>2. i + Len(q) \in 1 .. Len(c) /\ c[i + Len(q)] \in good
    <3> DEFINE k == i + Len(q)
    <3>1. k \in 1 .. Len(q) + Len(ms) /\ ~(k <= Len(q)) /\ k - Len(q) = i
      BY <1>1
    <3> HIDE DEF k
    <3>2. c[k] = ms[i]
      BY <1>1, <3>1
    <3> QED BY <1>1, <2>1, <3>1, <3>2 DEF k
  <2>3. NoneFrom(c, i + Len(q) + 1, about)
    <3> SUFFICES ASSUME NEW j \in i + Len(q) + 1 .. Len(c) PROVE c[j] \notin about
      BY DEF NoneFrom
    <3>1. j - Len(q) \in i + 1 .. Len(ms) /\ c[j] = ms[j - Len(q)]
      BY <1>1
    <3> QED BY <2>1, <3>1 DEF NoneFrom
  <2> QED BY <2>2, <2>3 DEF LastIsGood
<1>3. ASSUME NoneFrom(ms, 1, about), NEW k \in 1 .. Len(q) + 1, NoneFrom(q, k, about)
      PROVE  NoneFrom(c, k, about)
  <2> SUFFICES ASSUME NEW j \in k .. Len(c) PROVE c[j] \notin about
    BY DEF NoneFrom
  <2>1. CASE j <= Len(q)
    BY <1>1, <1>3, <2>1 DEF NoneFrom
  <2>2. CASE ~(j <= Len(q))
    <3>1. j - Len(q) \in 1 .. Len(ms) /\ c[j] = ms[j - Len(q)]
      BY <1>1, <2>2
    <3> QED BY <1>3, <3>1 DEF NoneFrom
  <2> QED BY <2>1, <2>2
<1>4. ASSUME NoneFrom(ms, 1, about), NoneFrom(q, 1, about) PROVE NoneFrom(c, 1, about)
  BY <1>1, <1>3, <1>4
<1>5. ASSUME NoneFrom(ms, 1, about), LastIsGood(q, about, good)
      PROVE  LastIsGood(c, about, good)
  <2>1. PICK i \in 1 .. Len(q) : q[i] \in good /\ NoneFrom(q, i + 1, about)
    BY <1>5 DEF LastIsGood
  <2>2. i \in 1 .. Len(c) /\ c[i] \in good
    BY <1>1, <2>1
  <2>3. NoneFrom(c, i + 1, about)
    BY <1>1, <1>3, <1>5, <2>1
  <2> QED BY <2>2, <2>3 DEF LastIsGood
<1> QED BY <1>2, <1>4, <1>5 DEF c

(* Reading the head of a queue.                                            *)
LEMMA TailFacts ==
  ASSUME NEW q \in Seq(Notices), q # <<>>, NEW about, NEW good
  PROVE  /\ NoneFrom(q, 1, about) =>
              NoneFrom(Tail(q), 1, about) /\ Head(q) \notin about
         /\ LastIsGood(q, about, good) =>
              \/ LastIsGood(Tail(q), about, good)
              \/ Head(q) \in good /\ NoneFrom(Tail(q), 1, about)
<1> DEFINE t == Tail(q)
<1>1. /\ Len(q) \in Nat \ {0} /\ Len(t) = Len(q) - 1 /\ Head(q) = q[1]
      /\ \A i \in 1 .. Len(t) : t[i] = q[i + 1]
  BY HeadTailProperties, EmptySeq
<1> HIDE DEF t
<1>2. ASSUME NEW k \in 1 .. Len(q), NoneFrom(q, k + 1, about)
      PROVE  NoneFrom(t, k, about)
  BY <1>1, <1>2 DEF NoneFrom
<1>3. ASSUME NoneFrom(q, 1, about)
      PROVE  NoneFrom(t, 1, about) /\ Head(q) \notin about
  BY <1>1, <1>3 DEF NoneFrom
<1>4. ASSUME LastIsGood(q, about, good)
      PROVE  LastIsGood(t, about, good) \/ (Head(q) \in good /\ NoneFrom(t, 1, about))
  <2>1. PICK i \in 1 .. Len(q) : q[i] \in good /\ NoneFrom(q, i + 1, about)
    BY <1>4 DEF LastIsGood
  <2>2. CASE i = 1
    BY <1>1, <1>2, <2>1, <2>2
  <2>3. CASE i # 1
    <3>1. i - 1 \in 1 .. Len(t) /\ t[i - 1] = q[i] /\ (i - 1) + 1 = i
      BY <1>1, <2>3
    <3>2. NoneFrom(t, i, about)
      BY <1>2, <2>1
    <3> QED BY <2>1, <3>1, <3>2 DEF LastIsGood
  <2> QED BY <2>2, <2>3
<1> QED BY <1>3, <1>4 DEF t

(* The same of PostAll, while the main thread listens.                     *)
LEMMA PostFacts ==
  ASSUME queue \in Seq(Notices), NEW ms \in Seq(Notices), PostAll(ms), Listening,
         NEW about, NEW good
  PROVE  /\ LastIsGood(ms, about, good) => LastIsGood(queue', about, good)
         /\ NoneFrom(ms, 1, about) =>
              /\ NoneFrom(queue, 1, about) => NoneFrom(queue', 1, about)
              /\ LastIsGood(queue, about, good) => LastIsGood(queue', about, good)
<1>1. queue' = queue \o ms
  BY DEF PostAll
<1> QED BY <1>1, ConcatFacts

(* Posting only loud notices keeps NoSilentLoss.                           *)
LEMMA PostLoud ==
  ASSUME queue \in Seq(Notices), NEW ms \in Seq(Notices), PostAll(ms), NoSilentLoss,
         \A i \in 1 .. Len(ms) : Loud(ms[i]), tray' = tray
  PROVE  NoSilentLoss'
<1>1. CASE Listening
  <2>1. queue' = queue \o ms
    BY <1>1 DEF PostAll
  <2>2. /\ Len(queue) \in Nat /\ Len(ms) \in Nat
        /\ Len(queue') = Len(queue) + Len(ms)
        /\ \A i \in 1 .. Len(queue) + Len(ms) :
              queue'[i] = IF i <= Len(queue) THEN queue[i] ELSE ms[i - Len(queue)]
    BY <2>1, ConcatProperties, LenProperties
  <2> SUFFICES ASSUME NEW i \in 1 .. Len(queue')
               PROVE  Loud(queue'[i]) \/ (i = 1 /\ tray # "green")
    BY DEF NoSilentLoss, Loud
  <2>3. CASE i <= Len(queue)
    BY <2>2, <2>3 DEF NoSilentLoss
  <2>4. CASE ~(i <= Len(queue))
    <3>1. i - Len(queue) \in 1 .. Len(ms) /\ queue'[i] = ms[i - Len(queue)]
      BY <2>2, <2>4
    <3> QED BY <3>1
  <2> QED BY <2>3, <2>4
<1>2. CASE ~Listening
  <2>1. queue' = queue
    BY <1>2 DEF PostAll
  <2> QED BY <2>1 DEF NoSilentLoss, Loud
<1> QED BY <1>1, <1>2

(* The four kinds of notices, about the tray and about the probe.          *)
LEMMA KindFacts ==
  /\ Ended \notin TrayNotices /\ LocalFail \notin TrayNotices
  /\ LocalFail \notin {Started, Ended}
  /\ \A n \in HealthNotices : n \notin {Started, Ended}
  /\ Loud(Started) /\ Loud(Ended) /\ Loud(LocalFail)
  /\ \A s \in States : Loud(HealthOf(s, "failed"))
  /\ \A why \in {"none", "failed", "recovered"} : Loud(HealthOf("Ready", why))
BY NoticeFacts, TableFacts DEF TrayNotices, Loud, HealthNotices

-----------------------------------------------------------------------------
(* The tray and the probe.                                                 *)

(* Steps that post nothing and read nothing.                               *)
LEMMA QuietStep ==
  ASSUME SupervisorInv, queue' = queue, tray' = tray,
         Listening' => /\ Listening /\ probe' = probe
                       /\ wpc' \in {"loop", "wait"} => wpc \in {"loop", "wait"} /\ lc' = lc,
         Bracketed => Bracketed'
  PROVE  TrayTold' /\ ProbeTold' /\ NoSilentLoss'
<1>1. TrayTold'
  BY DEF SupervisorInv, TrayTold, Settled, LastIsGood, NoneFrom, Shown, TrayNotices
<1>2. ProbeTold'
  BY DEF SupervisorInv, ProbeTold, Settled, LastIsGood, NoneFrom
<1>3. NoSilentLoss'
  BY DEF SupervisorInv, NoSilentLoss, Loud
<1> QED BY <1>1, <1>2, <1>3

(* Steps of the worker that post ms: they end with the colour of the machine
   if the worker now waits, and disarm the probe if they leave its bracket. *)
LEMMA PostStep ==
  ASSUME SupervisorInv, NEW ms \in Seq(Notices), PostAll(ms),
         UNCHANGED <<mpc, probe, tray>>,
         \A i \in 1 .. Len(ms) : Loud(ms[i]),
         wpc' \in {"loop", "wait"} => LastIsGood(ms, TrayNotices, Shown'),
         \/ LastIsGood(ms, {Started, Ended}, {Ended})
         \/ Bracketed'
         \/ ~Bracketed /\ NoneFrom(ms, 1, {Started, Ended})
  PROVE  TrayTold' /\ ProbeTold' /\ NoSilentLoss'
<1>1. /\ Listening' <=> Listening
      /\ probe' = probe /\ tray' = tray /\ queue \in Seq(Notices)
  BY DEF Listening, SupervisorInv, TypeOK
<1>2. TrayTold'
  <2> SUFFICES ASSUME Listening, wpc' \in {"loop", "wait"}
               PROVE  LastIsGood(queue', TrayNotices, Shown')
    BY <1>1 DEF TrayTold, Settled
  <2> QED BY <1>1, PostFacts
<1>3. ProbeTold'
  <2> SUFFICES ASSUME Listening, ~Bracketed'
               PROVE  Settled(queue', {Started, Ended}, {Ended}, probe = "off")
    BY <1>1 DEF ProbeTold
  <2>1. CASE LastIsGood(ms, {Started, Ended}, {Ended})
    BY <1>1, <2>1, PostFacts DEF Settled
  <2>2. CASE ~Bracketed /\ NoneFrom(ms, 1, {Started, Ended})
    BY <1>1, <2>2, PostFacts DEF Settled, SupervisorInv, ProbeTold
  <2> QED BY <2>1, <2>2
<1>4. NoSilentLoss'
  BY <1>1, PostLoud DEF SupervisorInv
<1> QED BY <1>2, <1>3, <1>4

(* What reading a notice does.                                             *)
LEMMA ReceiveFacts ==
  ASSUME Receive, Head(queue) \in Notices
  PROVE  /\ Head(queue) \in {Ended, LocalFail} => tray' = tray
         /\ Head(queue) \in HealthNotices => tray' = Head(queue).colour /\ probe' = probe
         /\ Head(queue) = LocalFail => probe' = probe
         /\ Head(queue) = Ended => probe' = "off"
<1>1. CASE Head(queue) = Ended
  BY <1>1, NoticeFacts DEF Receive, HealthNotices
<1>2. CASE Head(queue) = LocalFail
  <2>1. /\ Head(queue) # Started /\ Head(queue) # Ended
        /\ Head(queue) \notin HealthNotices
    BY <1>2, NoticeFacts DEF HealthNotices
  <2>2. probe' = probe /\ tray' = tray
    BY <1>2, <2>1 DEF Receive
  <2> QED BY <1>2, <2>1, <2>2
<1>3. CASE Head(queue) \in HealthNotices
  <2>1. Head(queue) \notin {Started, Ended, LocalFail}
    BY <1>3 DEF HealthNotices
  <2>2. probe' = probe /\ tray' = Head(queue).colour
    BY <2>1 DEF Receive
  <2> QED BY <2>1, <2>2
<1> QED BY <1>1, <1>2, <1>3

(* One step per action.                                                    *)
LEMMA ToldPreserved ==
  ASSUME SupervisorInv, [Next]_vars
  PROVE  TrayTold' /\ ProbeTold' /\ NoSilentLoss'
<1> USE NoticeFacts, TableFacts, KindFacts
<1>0. TypeOK /\ Places
  BY DEF SupervisorInv
<1>1. CASE Boot
  <2> DEFINE ms == <<HealthOf(lc', "none"), Started>>
  <2>1. /\ wpc = "boot" /\ lc' = "Connecting" /\ queue = <<>> /\ tray = "yellow"
        /\ tray' = tray /\ wpc' = "ensure" /\ ret' = "boot"
    BY <1>0, <1>1 DEF Boot, Places, KeepMain
  <2>2. /\ Len(ms) = 2 /\ ms[1] = HealthOf(lc', "none") /\ ms[2] = Started
        /\ ms \in Seq(Notices)
    BY <2>1 DEF HealthNotices, Loose
  <2>3. TrayTold' /\ ProbeTold'
    BY <2>1 DEF TrayTold, ProbeTold, Bracketed
  <2>4. queue' = <<>> \/ queue' = ms
    BY <1>1, <2>1, <2>2, ConcatEmptySeq DEF Boot, PostAll
  <2>5. NoSilentLoss'
    BY <2>1, <2>2, <2>4 DEF NoSilentLoss, Loud
  <2> QED BY <2>3, <2>5
<1>2. CASE AlreadyUp
  <2>1. ret = "run" /\ lc = "Ready"
    BY <1>0, <1>2 DEF AlreadyUp, Places, ClientMatches
  <2>2. AfterEnsure(TRUE).pc = "run" /\ AfterEnsure(TRUE).posts = <<>>
    BY <2>1, AfterEnsureFacts
  <2>3. wpc' = "run" /\ UNCHANGED <<mpc, probe, tray>>
    BY <1>2, <2>2 DEF AlreadyUp, KeepMain
  <2>4. <<>> \in Seq(Notices) /\ <<>> \o <<>> = <<>>
    BY ConcatEmptySeq
  <2>5. PostAll(<<>>)
    <3>1. PostAll((IF lc = "Ready" THEN <<>> ELSE <<HealthOf(lc', "recovered")>>)
                  \o AfterEnsure(TRUE).posts)
      BY <1>2 DEF AlreadyUp
    <3>2. (IF lc = "Ready" THEN <<>> ELSE <<HealthOf(lc', "recovered")>>)
             \o AfterEnsure(TRUE).posts = <<>> \o <<>>
      BY <2>1, <2>2
    <3> HIDE NoticeFacts, TableFacts, KindFacts
    <3> QED BY <2>4, <3>1, <3>2, Zenon
  <2>6. \A i \in 1 .. Len(<<>>) : Loud(<<>>[i])
    OBVIOUS
  <2> QED BY <2>3, <2>4, <2>5, <2>6, PostStep DEF Bracketed
<1>3. CASE BeginConnect \/ Spawn \/ Publish \/ Recheck \/ InitOk \/ InitFails \/ EnterRun
  <2>1. queue' = queue /\ tray' = tray /\ mpc' = mpc /\ probe' = probe
    BY <1>3 DEF BeginConnect, Spawn, Publish, Recheck, InitOk, InitFails, EnterRun,
                mainVars
  <2>2. wpc' \notin {"loop", "wait"} /\ (Bracketed => Bracketed')
    BY <1>3 DEF BeginConnect, Spawn, Publish, Recheck, InitOk, InitFails, EnterRun,
                Bracketed, Connecting
  <2> QED BY <2>1, <2>2, QuietStep DEF Listening
<1>4. ASSUME NEW up \in BOOLEAN, NEW event, NEW why \in {"failed", "recovered"},
             ConnectEnds(up, event, why), wpc \in {"connected", "failed"},
             lc' \in States, why = "failed" \/ lc' = "Ready"
      PROVE  TrayTold' /\ ProbeTold' /\ NoSilentLoss'
  <2> DEFINE h == HealthOf(lc', why)
  <2> DEFINE posts == AfterEnsure(up).posts
  <2>1. /\ wpc' = IF ret = "run" /\ up THEN "run" ELSE "loop"
        /\ posts \in Seq(Notices)
        /\ posts = IF ret = "boot" \/ (ret = "run" /\ ~up) THEN <<Ended>> ELSE <<>>
        /\ ret \in {"boot", "run", "retry"}
    BY <1>0, <1>4, AfterEnsureFacts DEF ConnectEnds, TypeOK
  <2>2. h \in HealthNotices /\ h \in Notices /\ Loud(h) /\ h \in Shown'
    BY <1>4 DEF HealthNotices, Shown
  <2>3. PostAll(<<h>> \o posts) /\ UNCHANGED <<mpc, probe, tray>> /\ ret' = ret
    BY <1>4 DEF ConnectEnds, KeepMain
  <2> HIDE DEF h, posts
  <2>4. /\ <<h>> \in Seq(Notices) /\ <<h>> \o posts \in Seq(Notices)
        /\ Len(<<h>>) = 1 /\ <<h>>[1] = h
    BY <2>1, <2>2, ConcatProperties
  <2>5. \A i \in 1 .. Len(<<h>> \o posts) : Loud((<<h>> \o posts)[i])
    <3>1. \A i \in 1 .. Len(posts) : Loud(posts[i])
      BY <2>1
    <3>2. /\ Len(<<h>> \o posts) = 1 + Len(posts) /\ Len(posts) \in Nat
          /\ \A i \in 1 .. 1 + Len(posts) :
                (<<h>> \o posts)[i] = IF i <= 1 THEN <<h>>[i] ELSE posts[i - 1]
      BY <2>1, <2>4, ConcatProperties, LenProperties
    <3> QED BY <2>2, <2>4, <3>1, <3>2
  <2>6. LastIsGood(<<h>> \o posts, TrayNotices, Shown')
    <3>1. LastIsGood(<<h>>, TrayNotices, Shown')
      BY <2>2, SingleFacts
    <3>2. NoneFrom(posts, 1, TrayNotices)
      BY <2>1 DEF NoneFrom
    <3> QED BY <2>1, <2>4, <3>1, <3>2, ConcatFacts
  <2>7. CASE posts = <<Ended>>
    <3>1. LastIsGood(<<h>> \o posts, {Started, Ended}, {Ended})
      BY <2>1, <2>4, <2>7, SingleFacts, ConcatFacts
    <3> QED BY <2>3, <2>4, <2>5, <2>6, <3>1, PostStep
  <2>8. CASE ret = "run" /\ up
    <3>1. Bracketed'
      BY <2>1, <2>8 DEF Bracketed
    <3> QED BY <2>3, <2>4, <2>5, <2>6, <3>1, PostStep
  <2>9. CASE ret = "retry"
    <3>1. ~Bracketed
      BY <1>4, <2>9 DEF Bracketed
    <3>2. NoneFrom(<<h>> \o posts, 1, {Started, Ended})
      <4>1. NoneFrom(<<h>>, 1, {Started, Ended})
        BY <2>2, SingleFacts
      <4>2. posts = <<>>
        BY <2>1, <2>9
      <4>3. <<h>> \o posts = <<h>>
        BY <4>2, <2>4, ConcatEmptySeq
      <4> QED BY <4>1, <4>3
    <3> QED BY <2>3, <2>4, <2>5, <2>6, <3>1, <3>2, PostStep
  <2> QED BY <2>1, <2>7, <2>8, <2>9
<1>5. CASE Connected \/ ConnectFailed
  <2>1. CASE Connected
    <3>1. ConnectEnds(TRUE, "ConnectOk", "recovered") /\ wpc = "connected"
      BY <2>1 DEF Connected
    <3>2. lc' = "Ready"
      BY <1>0, <3>1 DEF Places, ConnectEnds
    <3> QED BY <1>4, <3>1, <3>2
  <2>2. CASE ConnectFailed
    <3>1. ConnectEnds(FALSE, "ConnectFail", "failed") /\ wpc = "failed"
      BY <2>2 DEF ConnectFailed
    <3>2. lc' \in States
      BY <1>0, <3>1 DEF Places, ConnectEnds
    <3> QED BY <1>4, <3>1, <3>2
  <2> QED BY <1>5, <2>1, <2>2
<1>6. CASE Drain \/ Hotkey \/ ChildDies \/ HandshakePasses \/ FlightPasses \/ UNCHANGED vars
  <2>1. /\ queue' = queue /\ tray' = tray /\ mpc' = mpc /\ probe' = probe
        /\ wpc' = wpc /\ lc' = lc /\ ret' = ret /\ then' = then
    BY <1>6 DEF Drain, Hotkey, ChildDies, HandshakePasses, FlightPasses, vars,
                workerVars, mainVars, KeepWorker
  <2> QED BY <2>1, QuietStep DEF Listening, Bracketed, Connecting
<1>7. CASE Unlever \/ CloseInSpawn \/ LoopTop \/ ChildExit \/ TimeoutFires
  <2>1. queue' = queue /\ tray' = tray /\ mpc' = mpc /\ probe' = probe
    BY <1>7 DEF Unlever, CloseInSpawn, LoopTop, ChildExit, TimeoutFires, mainVars
  <2>2. wpc' \in {"loop", "wait"} => wpc \in {"loop", "wait"} /\ lc' = lc
    BY <1>7 DEF Unlever, CloseInSpawn, LoopTop, ChildExit, TimeoutFires
  <2>3. Bracketed => Bracketed'
    BY <1>7 DEF Unlever, CloseInSpawn, Closed, LoopTop, ChildExit, TimeoutFires,
                Bracketed, Connecting
  <2> QED BY <2>1, <2>2, <2>3, QuietStep DEF Listening
<1>8. CASE CloseChannel
  <2> DEFINE h == HealthOf(lc', "failed")
  <2>1. /\ wpc = "close" /\ then # "failed" /\ wpc' = "loop" /\ lc' = "Degraded"
        /\ PostAll(<<h>>)
    BY <1>0, <1>8 DEF CloseChannel, CloseAndTell, Closed, Places, TypeOK
  <2>2. UNCHANGED <<mpc, probe, tray>>
    BY <1>8 DEF CloseChannel, CloseAndTell
  <2>3. h \in Notices /\ h \in HealthNotices /\ h \in Shown' /\ Loud(h)
    BY <2>1 DEF Loose, HealthNotices, Shown
  <2> HIDE DEF h
  <2>4. <<h>> \in Seq(Notices) /\ \A i \in 1 .. Len(<<h>>) : Loud(<<h>>[i])
    BY <2>3
  <2>5. LastIsGood(<<h>>, TrayNotices, Shown')
    BY <2>3, SingleFacts
  <2>6. NoneFrom(<<h>>, 1, {Started, Ended})
    BY <2>3, SingleFacts
  <2> QED BY <2>1, <2>2, <2>4, <2>5, <2>6, PostStep DEF Bracketed, Connecting
<1>9. CASE WakeUp
  <2>1. CASE quit
    <3>1. /\ queue' = queue /\ UNCHANGED <<mpc, probe, tray>> /\ wpc' = "exited" /\ wpc = "wait"
      BY <1>9, <2>1 DEF WakeUp, KeepMain
    <3> QED BY <3>1, QuietStep DEF KeepMain, Listening, Bracketed, Connecting
  <2>2. CASE ~quit
    <3>1. PostAll(<<Started>>) /\ UNCHANGED <<mpc, probe, tray>> /\ wpc' = "ensure" /\ ret' = "run"
      BY <1>9, <2>2 DEF WakeUp, KeepMain
    <3>2. /\ <<Started>> \in Seq(Notices)
          /\ \A i \in 1 .. Len(<<Started>>) : Loud(<<Started>>[i])
      OBVIOUS
    <3> QED BY <3>1, <3>2, PostStep DEF Bracketed
  <2> QED BY <2>1, <2>2
<1>10. CASE RunOk \/ RunFailsLocally \/ RunFails
  <2> DEFINE h == HealthOf(lc, "none")
  <2> DEFINE told == {<<Ended, h>>, <<Ended, LocalFail, h>>}
  <2> DEFINE bracket == {Started, Ended}
  <2>1. /\ wpc = "running" /\ lc = "Ready" /\ lc' = lc /\ UNCHANGED <<mpc, probe, tray>>
        /\ Loud(h) /\ h \in HealthNotices /\ h \in Notices /\ h \in Shown'
    BY <1>0, <1>10
    DEF RunOk, RunFailsLocally, RunFails, LeaveRun, KeepMain, Places, HealthNotices, Shown
  <2>2. \/ \E ms \in told : PostAll(ms)
        \/ PostAll(<<Ended>>) /\ wpc' = "unlever"
    BY <1>10 DEF RunOk, RunFailsLocally, RunFails
  <2> HIDE DEF h
  <2>3. CASE PostAll(<<Ended>>) /\ wpc' = "unlever"
    <3>1. /\ <<Ended>> \in Seq(Notices)
          /\ \A i \in 1 .. Len(<<Ended>>) : Loud(<<Ended>>[i])
          /\ LastIsGood(<<Ended>>, bracket, {Ended})
      BY SingleFacts
    <3> QED BY <2>1, <2>3, <3>1, PostStep
  <2>4. CASE \E ms \in told : PostAll(ms)
    <3>1. PICK ms \in told : PostAll(ms)
      BY <2>4
    <3>2. /\ ms \in Seq(Notices) /\ Len(ms) \in {2, 3} /\ ms[1] = Ended
          /\ ms[Len(ms)] = h /\ \A i \in 2 .. Len(ms) : ms[i] \in {LocalFail, h}
      <4>1. CASE ms = <<Ended, h>>
        BY <2>1, <4>1
      <4>2. CASE ms = <<Ended, LocalFail, h>>
        BY <2>1, <4>2
      <4> QED BY <3>1, <4>1, <4>2
    <3>3. \A i \in 1 .. Len(ms) : Loud(ms[i])
      BY <2>1, <3>2
    <3>4. LastIsGood(ms, TrayNotices, Shown')
      BY <2>1, <3>2 DEF LastIsGood, NoneFrom
    <3>5. LastIsGood(ms, bracket, {Ended})
      <4>1. NoneFrom(ms, 2, bracket)
        BY <2>1, <3>2 DEF NoneFrom
      <4>2. 1 \in 1 .. Len(ms) /\ NoneFrom(ms, 1 + 1, bracket)
        BY <4>1, <3>2
      <4> QED BY <4>2, <3>2 DEF LastIsGood
    <3> QED BY <2>1, <3>1, <3>2, <3>3, <3>4, <3>5, PostStep
  <2> QED BY <2>2, <2>3, <2>4
<1>11. CASE Receive
  <2> DEFINE n == Head(queue)
  <2>1. /\ queue # <<>> /\ queue' = Tail(queue)
        /\ wpc' = wpc /\ lc' = lc /\ ret' = ret /\ then' = then /\ mpc' = mpc
    BY <1>11 DEF Receive, KeepWorker, workerVars
  <2>2. n \in Notices /\ queue \in Seq(Notices)
    BY <1>0, <2>1, HeadTailProperties DEF TypeOK
  <2>3. /\ n \in {Ended, LocalFail} => tray' = tray
        /\ n \in HealthNotices => tray' = n.colour /\ probe' = probe
        /\ n = LocalFail => probe' = probe
        /\ n = Ended => probe' = "off"
    BY <1>11, <2>2, ReceiveFacts
  <2>4. n \in {Started, Ended, LocalFail} \/ n \in HealthNotices
    BY <2>2 DEF HealthNotices
  <2> HIDE DEF n
  <2>5. TrayTold'
    <3> SUFFICES ASSUME Listening, wpc \in {"loop", "wait"}
                 PROVE  Settled(Tail(queue), TrayNotices, Shown, tray' = Health(lc))
      BY <2>1 DEF TrayTold, Listening, Shown
    <3>1. CASE tray = Health(lc) /\ NoneFrom(queue, 1, TrayNotices)
      <4>1. NoneFrom(Tail(queue), 1, TrayNotices) /\ n \notin TrayNotices
        BY <2>1, <2>2, <3>1, TailFacts DEF n
      <4> QED BY <2>3, <2>4, <3>1, <4>1 DEF TrayNotices, Settled
    <3>2. CASE LastIsGood(queue, TrayNotices, Shown)
      <4>1. \/ LastIsGood(Tail(queue), TrayNotices, Shown)
            \/ n \in Shown /\ NoneFrom(Tail(queue), 1, TrayNotices)
        BY <2>1, <2>2, <3>2, TailFacts DEF n
      <4> QED BY <2>3, <4>1 DEF Settled, Shown
    <3> QED BY <3>1, <3>2 DEF SupervisorInv, TrayTold, Settled
  <2>6. ProbeTold'
    <3> DEFINE bracket == {Started, Ended}
    <3> SUFFICES ASSUME Listening, ~Bracketed
                 PROVE  Settled(Tail(queue), bracket, {Ended}, probe' = "off")
      BY <2>1 DEF ProbeTold, Listening, Bracketed, Connecting
    <3>1. CASE probe = "off" /\ NoneFrom(queue, 1, bracket)
      <4>1. NoneFrom(Tail(queue), 1, bracket) /\ n \notin bracket
        BY <2>1, <2>2, <3>1, TailFacts DEF n
      <4> QED BY <2>3, <2>4, <3>1, <4>1 DEF Settled
    <3>2. CASE LastIsGood(queue, bracket, {Ended})
      <4>1. \/ LastIsGood(Tail(queue), bracket, {Ended})
            \/ n = Ended /\ NoneFrom(Tail(queue), 1, bracket)
        BY <2>1, <2>2, <3>2, TailFacts DEF n
      <4> QED BY <2>3, <4>1 DEF Settled
    <3> QED BY <3>1, <3>2 DEF SupervisorInv, ProbeTold, Settled
  <2>7. NoSilentLoss'
    <3>1. /\ Len(queue) \in Nat /\ Len(queue') = Len(queue) - 1
          /\ \A i \in 1 .. Len(queue') : queue'[i] = queue[i + 1]
      BY <2>1, <2>2, HeadTailProperties, LenProperties
    <3> SUFFICES ASSUME NEW i \in 1 .. Len(queue') PROVE Loud(queue'[i])
      BY DEF NoSilentLoss, Loud
    <3>2. i + 1 \in 1 .. Len(queue) /\ i + 1 # 1
      BY <3>1
    <3>3. Loud(queue[i + 1])
      BY <3>2 DEF SupervisorInv, NoSilentLoss
    <3> QED BY <3>1, <3>3
  <2> QED BY <2>5, <2>6, <2>7
<1>12. CASE Tick \/ RequestStop \/ LoadLever \/ Terminate \/ Join
  <2>1. /\ queue' = queue /\ tray' = tray
        /\ wpc' = wpc /\ ret' = ret /\ then' = then
    BY <1>12 DEF Tick, RequestStop, LoadLever, Terminate, Join, KeepWorker, workerVars
  <2>2. Listening' => Listening /\ probe' = probe /\ lc' = lc
    BY <1>12 DEF Tick, RequestStop, LoadLever, Terminate, Join, KeepWorker, workerVars,
                 Listening
  <2> QED BY <2>1, <2>2, QuietStep DEF Bracketed, Connecting
<1> QED
  BY <1>1, <1>2, <1>3, <1>5, <1>6, <1>7, <1>8, <1>9, <1>10, <1>11, <1>12
  DEF Next, WorkerGoesOn, WaitReturns, PeerAnswers, MainGoesOn, DeadlinePasses

(* The inductive invariant holds throughout.                               *)
LEMMA InvHolds == Spec => []SupervisorInv
<1>1. SupervisorInv /\ [Next]_vars => SupervisorInv'
  BY PlacesPreserved, ToldPreserved DEF SupervisorInv
<1> QED BY InitEstablishes, <1>1, PTL DEF Spec

(* The types; and a deadline exists only while what it limits is going on. *)
THEOREM SupervisorTypes == Spec => []TypeOK
<1>1. SupervisorInv => TypeOK
  BY DEF SupervisorInv
<1> QED BY InvHolds, <1>1, PTL

(* Between two operations of the worker the machine, the client and the child
   agree: no path through EnsureChannel or DropChannel leaves one behind.  *)
THEOREM ChannelAgrees == Spec => []ClientIffReady
<1>1. SupervisorInv => ClientIffReady
  BY DEF SupervisorInv, Places, ClientMatches, ClientIffReady
<1> QED BY InvHolds, <1>1, PTL

(* The main thread never finds the handle of a channel already closed.     *)
THEOREM AbortSeesALiveHandle == Spec => []LeverIsLive
<1>1. SupervisorInv => LeverIsLive
  BY DEF SupervisorInv, LeverHeld, LeverIsLive
<1> QED BY InvHolds, <1>1, PTL

(* Once the worker waits and its notices are read, the tray shows the health
   of the machine.                                                         *)
THEOREM TrayIsTrue == Spec => []TrayShowsHealth
<1>1. SupervisorInv => TrayShowsHealth
  <2> SUFFICES ASSUME SupervisorInv, wpc = "wait", Listening, ~HealthQueued
               PROVE  tray = Health(lc)
    BY DEF TrayShowsHealth
  <2>1. \A i \in 1 .. Len(queue) : queue[i] \notin Shown
    BY NoticeFacts DEF HealthQueued, Shown
  <2> QED BY <2>1 DEF SupervisorInv, TrayTold, Settled, LastIsGood
<1> QED BY InvHolds, <1>1, PTL

(* An idle process arms no timer.                                          *)
THEOREM IdleIsIdle == Spec => []IdleMeansNoTimer
<1>1. SupervisorInv => IdleMeansNoTimer
  <2> SUFFICES ASSUME SupervisorInv, wpc = "wait", Listening, queue = <<>>
               PROVE  probe = "off"
    BY DEF IdleMeansNoTimer
  <2>1. ~Bracketed
    BY DEF Bracketed, Connecting
  <2> QED BY <2>1 DEF SupervisorInv, ProbeTold, Settled, LastIsGood
<1> QED BY InvHolds, <1>1, PTL

(* The step that takes the tray from green.                                *)
Announced ==
  tray = "green" /\ tray' # "green" =>
    \/ probe' = "failed"
    \/ queue # <<>> /\ Head(queue).notice = "Health" /\ Head(queue).outcome = "failed"

(* The tray never leaves green without a balloon or a probe that will not arm. *)
THEOREM NoLossPassesSilently == Spec => LossAnnounced
<1>1. SupervisorInv /\ [Next]_vars => [Announced]_vars
  <2> SUFFICES ASSUME SupervisorInv, Next, tray = "green", tray' # "green"
               PROVE  Announced
    BY DEF Announced
  <2>1. Receive
    BY DEF Next, WorkerGoesOn, WaitReturns, PeerAnswers, MainGoesOn, DeadlinePasses,
           Boot, AlreadyUp, BeginConnect, Spawn, Publish, Recheck, Connected, ConnectFailed,
           ConnectEnds, Unlever, CloseInSpawn, CloseChannel, CloseAndTell, LoopTop, EnterRun,
           WakeUp, ChildExit, TimeoutFires, InitOk, InitFails, RunOk, RunFailsLocally,
           RunFails, LeaveRun, Drain, Hotkey, Tick, RequestStop, LoadLever, Terminate, Join,
           ChildDies, HandshakePasses, FlightPasses, KeepMain, mainVars
  <2>2. queue # <<>> /\ queue \in Seq(Notices) /\ Head(queue) \in Notices
    BY <2>1, HeadTailProperties DEF Receive, SupervisorInv, TypeOK
  <2>3. Head(queue) = queue[1] /\ 1 \in 1 .. Len(queue)
    BY <2>2, EmptySeq
  <2>4. CASE Head(queue) \in HealthNotices
    <3>1. tray' = Head(queue).colour
      BY <2>1, <2>4, NoticeFacts DEF Receive, HealthNotices
    <3>2. Head(queue).outcome = "failed"
      BY <2>3, <2>4, <3>1 DEF SupervisorInv, NoSilentLoss, Loud
    <3> QED BY <2>2, <2>4, <3>2, NoticeFacts DEF Announced
  <2>5. CASE Head(queue) \in {Started, Ended, LocalFail}
    BY <2>1, <2>5, NoticeFacts DEF Receive, Arm, Announced
  <2> QED BY <2>2, <2>4, <2>5 DEF HealthNotices
<1>2. [Announced]_vars =>
        [tray = "green" /\ tray' # "green" =>
           \/ probe' = "failed"
           \/ queue # <<>> /\ Head(queue).notice = "Health"
                          /\ Head(queue).outcome = "failed"]_vars
  BY DEF Announced
<1> QED BY InvHolds, <1>1, <1>2, PTL DEF Spec, LossAnnounced
=============================================================================
