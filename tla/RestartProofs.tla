---------------------------- MODULE RestartProofs ----------------------------
(***************************************************************************)
(* A restart and a launch by hand for every number of processes and every  *)
(* bound on the polls: two processes never work at once, the owner a       *)
(* refused launch names is the right one, and a process in its loop has    *)
(* its chord or has said that it is lost.                                  *)
(*                                                                         *)
(* The argument rests on the mutex.  Its handles are shared: an attempt    *)
(* that found the mutex has one too, and keeps the object alive.  So the   *)
(* invariant speaks of the handles of those that are not backing off.      *)
(***************************************************************************)
EXTENDS Restart, TLAPS

(* Before the instance, with it, and in its record.                        *)
Early   == {"off", "config", "create", "opened", "sleep", "look"}
Writing == {"pid", "image", "publish"}
Acting  == {"worker", "loop", "relaunch", "probe", "dispatched", "stop"}
Owning  == {"record", "acquired", "ready"} \cup Writing \cup Acting
Ending  == {"failed", "closeRecord", "closeMutex"}

(* How far the counter of each wait can have come.                         *)
Polls ==
  \A p \in Procs :
    /\ at[p] \in {"off", "config", "create", "opened"} => waits[p] <= MaxPolls
    /\ at[p] = "sleep" => waits[p] < MaxPolls
    /\ at[p] = "look"  => waits[p] < OwnerAttempts

(* Whoever has the instance has the mutex, and of the handles to it only one
   is not that of an attempt about to back off.                            *)
Holders ==
  /\ \A p \in Procs : at[p] \in Owning => p \in mutex
  /\ \A p \in mutex : at[p] \in Owning \cup Ending \cup {"opened"}
  /\ \A p, q \in mutex : at[p] # "opened" /\ at[q] # "opened" => p = q

(* A chord is held under the mutex, from the worker's start on, and not in
   the dispatch of the menu, which takes it back in the end.               *)
Chords ==
  \A p \in Procs :
    /\ HasChord(p) => p \in mutex /\ at[p] \in {"worker", "loop", "failed", "stop"}
    /\ at[p] = "worker" => HasChord(p)

(* A name in the record, or read from it, is that of a process which had the
   instance.                                                               *)
Names ==
  /\ owner.pid \in Procs => at[owner.pid] \notin Early
  /\ \A p \in Procs : report[p].pid \in Procs => at[report[p].pid] \notin Early

(* A record marked ready is whole; it is not marked while it is written.   *)
Record ==
  /\ owner.ready => owner.pid = owner.image
  /\ \A p \in Procs : at[p] \in Writing => p \in section
  /\ \A p \in Procs : at[p] \in {"image", "publish"} => ~owner.ready /\ owner.pid = p
  /\ \A p \in Procs : at[p] = "publish" => owner.image = p

(* A reader the record was not rewritten under reads a record still ready. *)
Readers ==
  \A p \in Procs :
    /\ at[p] \in Early \cup {"readPid"} => report[p] = NoOne
    /\ at[p] \in {"readPid", "readImage"} => p \in section
    /\ at[p] \in {"readPid", "readImage"} /\ p \notin overtaken => owner.ready
    /\ at[p] = "readImage" /\ p \notin overtaken => report[p].pid = owner.pid
    /\ at[p] = "refused" /\ p \notin overtaken => report[p].pid = report[p].image

RestartInv ==
  /\ TypeOK /\ Polls /\ Holders /\ Chords /\ Names /\ Record /\ Readers
  /\ HotkeyAliveOrSaid

(* A process is neither None nor the other program.                        *)
LEMMA ProcFacts == None \notin Procs /\ Other \notin Procs /\ None # Other
BY SingleInstanceAssumption, RestartAssumption DEF Procs

(* No process runs yet, and the kernel's objects do not exist.             *)
LEMMA InitEstablishes == Init => RestartInv
<1> USE SingleInstanceAssumption, ProcFacts DEF Init, InstanceInit, Blank, NoOne
<1>1. ASSUME Init PROVE TypeOK /\ Polls
  BY <1>1 DEF TypeOK, Places, Polls
<1>2. ASSUME Init PROVE Holders /\ Chords /\ HotkeyAliveOrSaid
  BY <1>2 DEF Holders, Owning, Writing, Acting, Chords, HasChord, HotkeyAliveOrSaid, Serving
<1>3. ASSUME Init PROVE Names /\ Record /\ Readers
  BY <1>3 DEF Names, Record, Readers, Writing
<1> QED BY <1>1, <1>2, <1>3 DEF RestartInv

-----------------------------------------------------------------------------
(* Every step preserves each part of the invariant: one step per action, of
   Acquire's those of SingleInstance, and of Closed and Die their own.     *)

(* A chord is registered or hooked by one that has neither.                *)
LEMMA TypePreserved ==
  ASSUME RestartInv, [Next]_vars
  PROVE  TypeOK'
<1> USE SingleInstanceAssumption, ProcFacts DEF RestartInv, TypeOK, Places, HasChord,
          Chords, Polls, NoOne, Blank, Serving
<1>1. CASE OtherProgram
  BY <1>1 DEF OtherProgram, instanceVars
<1>2. ASSUME NEW p \in Procs, Launch(p) PROVE TypeOK'
  BY <1>2 DEF Launch, Fresh, Go, KeepInstance, restartVars
<1>3. ASSUME NEW p \in Procs, LoadConfig(p) PROVE TypeOK'
  BY <1>3 DEF LoadConfig, Go, KeepInstance
<1>4. ASSUME NEW p \in Procs, TryCreate(p), Acquire(p) PROVE TypeOK'
  BY <1>4 DEF TryCreate, Go, Acquire
<1>5. ASSUME NEW p \in Procs, BackOff(p), Acquire(p) PROVE TypeOK'
  BY <1>5 DEF BackOff, Go, Acquire
<1>6. ASSUME NEW p \in Procs, Look(p), Acquire(p) PROVE TypeOK'
  BY <1>6 DEF Look, Go, Acquire
<1>7. ASSUME NEW p \in Procs, ReadPid(p), Acquire(p) PROVE TypeOK'
  BY <1>7 DEF ReadPid, Go, Acquire
<1>8. ASSUME NEW p \in Procs, ReadImage(p), Acquire(p) PROVE TypeOK'
  BY <1>8 DEF ReadImage, DropSection, Go, Acquire
<1>9. ASSUME NEW p \in Procs, OpenRecord(p), Acquire(p) PROVE TypeOK'
  BY <1>9 DEF OpenRecord, Go, Acquire
<1>10. ASSUME NEW p \in Procs, Rewrite(p), Acquire(p) PROVE TypeOK'
  BY <1>10 DEF Rewrite, Go, Acquire
<1>11. ASSUME NEW p \in Procs, Publish(p), Acquire(p) PROVE TypeOK'
  BY <1>11 DEF Publish, Go, Acquire
<1>12. ASSUME NEW p \in Procs, CloseRecord(p), Acquire(p) PROVE TypeOK'
  BY <1>12 DEF CloseRecord, DropSection, Go, Acquire
<1>13. ASSUME NEW p \in Procs, Sleep(p) PROVE TypeOK'
  BY <1>13 DEF Sleep, Poll, Go, restartVars
<1>14. ASSUME NEW p \in Procs, SetupJobs(p) PROVE TypeOK'
  BY <1>14 DEF SetupJobs, JoinJobs, Go
<1>15. ASSUME NEW p \in Procs, ShowTray(p) PROVE TypeOK'
  BY <1>15 DEF ShowTray, Install, Go, KeepInstance
<1>16. ASSUME NEW p \in Procs, StartWorker(p) PROVE TypeOK'
  BY <1>16 DEF StartWorker, Go, KeepInstance
<1>17. ASSUME NEW p \in Procs, Dismiss(p) PROVE TypeOK'
  BY <1>17 DEF Dismiss, Uninstall, Go, KeepInstance
<1>18. ASSUME NEW p \in Procs, CloseWindow(p) PROVE TypeOK'
  BY <1>18 DEF CloseWindow, KeepInstance
<1>19. ASSUME NEW p \in Procs, MenuQuit(p) PROVE TypeOK'
  BY <1>19 DEF MenuQuit, Uninstall, Go, KeepInstance
<1>20. ASSUME NEW p \in Procs, MenuRestart(p) PROVE TypeOK'
  BY <1>20 DEF MenuRestart, Uninstall, Go, KeepInstance
<1>21. ASSUME NEW p \in Procs, at[p] = "relaunch", NEW q \in Procs,
             Fresh(q), Spawn(p, q, None),
             UNCHANGED <<chord, hooks, quitting, errors, warned>>
      PROVE  TypeOK'
  BY <1>21 DEF Spawn, Fresh
<1>22. ASSUME NEW p \in Procs, Relaunch(p) PROVE TypeOK'
  BY <1>21, <1>22 DEF Relaunch, Go, KeepInstance
<1>23. ASSUME NEW p \in Procs, Probe(p) PROVE TypeOK'
  BY <1>23 DEF Probe, Go, KeepInstance
<1>24. ASSUME NEW p \in Procs, TakeBack(p) PROVE TypeOK'
  BY <1>24 DEF TakeBack, Install, Go, KeepInstance
<1>25. ASSUME NEW p \in Procs, LeaveLoop(p) PROVE TypeOK'
  BY <1>25 DEF LeaveLoop, Go, KeepInstance, restartVars
<1>26. ASSUME NEW p \in Procs, StopWorker(p) PROVE TypeOK'
  BY <1>26 DEF StopWorker, Uninstall, Go, KeepInstance
<1>27. ASSUME NEW p \in Procs, CloseMutex(p, "failed"), UNCHANGED restartVars PROVE TypeOK'
  BY <1>27 DEF CloseMutex, Go, restartVars
<1>28. ASSUME NEW p \in Procs, Alive(p), NEW how \in {"gone", "killed"}, End(p, how)
       PROVE  TypeOK'
  BY <1>28 DEF End, Vanish, DropSection, Uninstall, Go, Alive
<1>29. CASE UNCHANGED vars
  BY <1>29 DEF vars, instanceVars, restartVars
<1> QED
  BY <1>1, <1>2, <1>3, <1>4, <1>5, <1>6, <1>7, <1>8, <1>9, <1>10, <1>11, <1>12, <1>13,
     <1>14, <1>15, <1>16, <1>17, <1>18, <1>19, <1>20, <1>21, <1>22, <1>23, <1>24, <1>25,
     <1>26, <1>27, <1>28, <1>29
  DEF Next, Run, User, Acquire, InstanceStep, Closed, Die, Alive

(* The counter of a wait stops at its bound.                               *)
LEMMA PollsPreserved ==
  ASSUME RestartInv, [Next]_vars
  PROVE  Polls'
<1> USE SingleInstanceAssumption DEF RestartInv, TypeOK, Places, Polls
<1>1. CASE OtherProgram
  BY <1>1 DEF OtherProgram, instanceVars
<1>2. ASSUME NEW p \in Procs, Launch(p) PROVE Polls'
  BY <1>2 DEF Launch, Fresh, Go, KeepInstance, restartVars
<1>3. ASSUME NEW p \in Procs, LoadConfig(p) PROVE Polls'
  BY <1>3 DEF LoadConfig, Go, KeepInstance
<1>4. ASSUME NEW p \in Procs, TryCreate(p) PROVE Polls'
  BY <1>4 DEF TryCreate, Go
<1>5. ASSUME NEW p \in Procs, BackOff(p) PROVE Polls'
  BY <1>5 DEF BackOff, Go
<1>6. ASSUME NEW p \in Procs, Look(p) PROVE Polls'
  BY <1>6 DEF Look, Go
<1>7. ASSUME NEW p \in Procs, ReadPid(p) PROVE Polls'
  BY <1>7 DEF ReadPid, Go
<1>8. ASSUME NEW p \in Procs, ReadImage(p) PROVE Polls'
  BY <1>8 DEF ReadImage, DropSection, Go
<1>9. ASSUME NEW p \in Procs, OpenRecord(p) PROVE Polls'
  BY <1>9 DEF OpenRecord, Go
<1>10. ASSUME NEW p \in Procs, Rewrite(p) PROVE Polls'
  BY <1>10 DEF Rewrite, Go
<1>11. ASSUME NEW p \in Procs, Publish(p) PROVE Polls'
  BY <1>11 DEF Publish, Go
<1>12. ASSUME NEW p \in Procs, CloseRecord(p) PROVE Polls'
  BY <1>12 DEF CloseRecord, DropSection, Go
<1>13. ASSUME NEW p \in Procs, Sleep(p) PROVE Polls'
  BY <1>13 DEF Sleep, Poll, Go, restartVars
<1>14. ASSUME NEW p \in Procs, SetupJobs(p) PROVE Polls'
  BY <1>14 DEF SetupJobs, JoinJobs, Go
<1>15. ASSUME NEW p \in Procs, ShowTray(p) PROVE Polls'
  BY <1>15 DEF ShowTray, Install, Go, KeepInstance
<1>16. ASSUME NEW p \in Procs, StartWorker(p) PROVE Polls'
  BY <1>16 DEF StartWorker, Go, KeepInstance
<1>17. ASSUME NEW p \in Procs, Dismiss(p) PROVE Polls'
  BY <1>17 DEF Dismiss, Uninstall, Go, KeepInstance
<1>18. ASSUME NEW p \in Procs, CloseWindow(p) PROVE Polls'
  BY <1>18 DEF CloseWindow, Serving, KeepInstance
<1>19. ASSUME NEW p \in Procs, MenuQuit(p) PROVE Polls'
  BY <1>19 DEF MenuQuit, Serving, Uninstall, Go, KeepInstance
<1>20. ASSUME NEW p \in Procs, MenuRestart(p) PROVE Polls'
  BY <1>20 DEF MenuRestart, Serving, Uninstall, Go, KeepInstance
<1>21. ASSUME NEW p \in Procs, at[p] = "relaunch", NEW q \in Procs,
             Fresh(q), Spawn(p, q, None),
             UNCHANGED <<chord, hooks, quitting, errors, warned>>
      PROVE  Polls'
  BY <1>21 DEF Spawn, Fresh
<1>22. ASSUME NEW p \in Procs, Relaunch(p) PROVE Polls'
  BY <1>21, <1>22 DEF Relaunch, Go, KeepInstance
<1>23. ASSUME NEW p \in Procs, Probe(p) PROVE Polls'
  BY <1>23 DEF Probe, Go, KeepInstance
<1>24. ASSUME NEW p \in Procs, TakeBack(p) PROVE Polls'
  BY <1>24 DEF TakeBack, Install, Go, KeepInstance
<1>25. ASSUME NEW p \in Procs, LeaveLoop(p) PROVE Polls'
  BY <1>25 DEF LeaveLoop, Go, KeepInstance, restartVars
<1>26. ASSUME NEW p \in Procs, StopWorker(p) PROVE Polls'
  BY <1>26 DEF StopWorker, Uninstall, Go, KeepInstance
<1>27. ASSUME NEW p \in Procs, CloseMutex(p, "failed"), UNCHANGED restartVars PROVE Polls'
  BY <1>27 DEF CloseMutex, Go, restartVars
<1>28. ASSUME NEW p \in Procs, Alive(p), NEW how \in {"gone", "killed"}, End(p, how)
       PROVE  Polls'
  BY <1>28 DEF End, Vanish, DropSection, Uninstall, Go, Alive
<1>29. CASE UNCHANGED vars
  BY <1>29 DEF vars, instanceVars, restartVars
<1> QED
  BY <1>1, <1>2, <1>3, <1>4, <1>5, <1>6, <1>7, <1>8, <1>9, <1>10, <1>11, <1>12, <1>13,
     <1>14, <1>15, <1>16, <1>17, <1>18, <1>19, <1>20, <1>21, <1>22, <1>23, <1>24, <1>25,
     <1>26, <1>27, <1>28, <1>29
  DEF Next, Run, User, Acquire, InstanceStep, Closed, Die, Alive

(* The mutex is taken only when no process has a handle to it, and let go
   only at the end.                                                        *)
LEMMA HoldersPreserved ==
  ASSUME RestartInv, [Next]_vars
  PROVE  Holders'
<1> USE ProcFacts DEF RestartInv, TypeOK, Places, Holders, Owning, Writing, Acting, Ending
<1>1. CASE OtherProgram
  BY <1>1 DEF OtherProgram, instanceVars
<1>2. ASSUME NEW p \in Procs, Launch(p) PROVE Holders'
  BY <1>2 DEF Launch, Fresh, Go, KeepInstance, restartVars
<1>3. ASSUME NEW p \in Procs, LoadConfig(p) PROVE Holders'
  BY <1>3 DEF LoadConfig, Go, KeepInstance
<1>4. ASSUME NEW p \in Procs, TryCreate(p) PROVE Holders'
  BY <1>4 DEF TryCreate, Go
<1>5. ASSUME NEW p \in Procs, BackOff(p) PROVE Holders'
  BY <1>5 DEF BackOff, Go
<1>6. ASSUME NEW p \in Procs, Look(p) PROVE Holders'
  BY <1>6 DEF Look, Go
<1>7. ASSUME NEW p \in Procs, ReadPid(p) PROVE Holders'
  BY <1>7 DEF ReadPid, Go
<1>8. ASSUME NEW p \in Procs, ReadImage(p) PROVE Holders'
  BY <1>8 DEF ReadImage, DropSection, Go
<1>9. ASSUME NEW p \in Procs, OpenRecord(p) PROVE Holders'
  BY <1>9 DEF OpenRecord, Go
<1>10. ASSUME NEW p \in Procs, Rewrite(p) PROVE Holders'
  BY <1>10 DEF Rewrite, Go
<1>11. ASSUME NEW p \in Procs, Publish(p) PROVE Holders'
  BY <1>11 DEF Publish, Go
<1>12. ASSUME NEW p \in Procs, CloseRecord(p) PROVE Holders'
  BY <1>12 DEF CloseRecord, DropSection, Go
<1>13. ASSUME NEW p \in Procs, Sleep(p) PROVE Holders'
  BY <1>13 DEF Sleep, Poll, Go, restartVars
<1>14. ASSUME NEW p \in Procs, SetupJobs(p) PROVE Holders'
  BY <1>14 DEF SetupJobs, JoinJobs, Go
<1>15. ASSUME NEW p \in Procs, ShowTray(p) PROVE Holders'
  BY <1>15 DEF ShowTray, Install, Go, KeepInstance
<1>16. ASSUME NEW p \in Procs, StartWorker(p) PROVE Holders'
  BY <1>16 DEF StartWorker, Go, KeepInstance
<1>17. ASSUME NEW p \in Procs, Dismiss(p) PROVE Holders'
  BY <1>17 DEF Dismiss, Uninstall, Go, KeepInstance
<1>18. ASSUME NEW p \in Procs, CloseWindow(p) PROVE Holders'
  BY <1>18 DEF CloseWindow, Serving, KeepInstance
<1>19. ASSUME NEW p \in Procs, MenuQuit(p) PROVE Holders'
  BY <1>19 DEF MenuQuit, Serving, Uninstall, Go, KeepInstance
<1>20. ASSUME NEW p \in Procs, MenuRestart(p) PROVE Holders'
  BY <1>20 DEF MenuRestart, Serving, Uninstall, Go, KeepInstance
<1>21. ASSUME NEW p \in Procs, at[p] = "relaunch", NEW q \in Procs,
             Fresh(q), Spawn(p, q, None),
             UNCHANGED <<chord, hooks, quitting, errors, warned>>
      PROVE  Holders'
  BY <1>21 DEF Spawn, Fresh
<1>22. ASSUME NEW p \in Procs, Relaunch(p) PROVE Holders'
  BY <1>21, <1>22 DEF Relaunch, Go, KeepInstance
<1>23. ASSUME NEW p \in Procs, Probe(p) PROVE Holders'
  BY <1>23 DEF Probe, Go, KeepInstance
<1>24. ASSUME NEW p \in Procs, TakeBack(p) PROVE Holders'
  BY <1>24 DEF TakeBack, Install, Go, KeepInstance
<1>25. ASSUME NEW p \in Procs, LeaveLoop(p) PROVE Holders'
  BY <1>25 DEF LeaveLoop, Go, KeepInstance, restartVars
<1>26. ASSUME NEW p \in Procs, StopWorker(p) PROVE Holders'
  BY <1>26 DEF StopWorker, Uninstall, Go, KeepInstance
<1>27. ASSUME NEW p \in Procs, CloseMutex(p, "failed"), UNCHANGED restartVars PROVE Holders'
  BY <1>27 DEF CloseMutex, Go, restartVars
<1>28. ASSUME NEW p \in Procs, Alive(p), NEW how \in {"gone", "killed"}, End(p, how)
       PROVE  Holders'
  BY <1>28 DEF End, Vanish, DropSection, Uninstall, Go, Alive
<1>29. CASE UNCHANGED vars
  BY <1>29 DEF vars, instanceVars, restartVars
<1> QED
  BY <1>1, <1>2, <1>3, <1>4, <1>5, <1>6, <1>7, <1>8, <1>9, <1>10, <1>11, <1>12, <1>13,
     <1>14, <1>15, <1>16, <1>17, <1>18, <1>19, <1>20, <1>21, <1>22, <1>23, <1>24, <1>25,
     <1>26, <1>27, <1>28, <1>29
  DEF Next, Run, User, Acquire, InstanceStep, Closed, Die, Alive

(* The chord is released before the mutex on every way out.                *)
LEMMA ChordsPreserved ==
  ASSUME RestartInv, [Next]_vars
  PROVE  Chords'
<1> USE ProcFacts DEF RestartInv, TypeOK, Places, Holders, Chords, HasChord, Owning,
          Writing, Acting, Ending
<1>1. CASE OtherProgram
  BY <1>1 DEF OtherProgram, instanceVars
<1>2. ASSUME NEW p \in Procs, Launch(p) PROVE Chords'
  BY <1>2 DEF Launch, Fresh, Go, KeepInstance, restartVars
<1>3. ASSUME NEW p \in Procs, LoadConfig(p) PROVE Chords'
  BY <1>3 DEF LoadConfig, Go, KeepInstance
<1>4. ASSUME NEW p \in Procs, TryCreate(p), Acquire(p) PROVE Chords'
  BY <1>4 DEF TryCreate, Go, Acquire
<1>5. ASSUME NEW p \in Procs, BackOff(p), Acquire(p) PROVE Chords'
  BY <1>5 DEF BackOff, Go, Acquire
<1>6. ASSUME NEW p \in Procs, Look(p), Acquire(p) PROVE Chords'
  BY <1>6 DEF Look, Go, Acquire
<1>7. ASSUME NEW p \in Procs, ReadPid(p), Acquire(p) PROVE Chords'
  BY <1>7 DEF ReadPid, Go, Acquire
<1>8. ASSUME NEW p \in Procs, ReadImage(p), Acquire(p) PROVE Chords'
  BY <1>8 DEF ReadImage, DropSection, Go, Acquire
<1>9. ASSUME NEW p \in Procs, OpenRecord(p), Acquire(p) PROVE Chords'
  BY <1>9 DEF OpenRecord, Go, Acquire
<1>10. ASSUME NEW p \in Procs, Rewrite(p), Acquire(p) PROVE Chords'
  BY <1>10 DEF Rewrite, Go, Acquire
<1>11. ASSUME NEW p \in Procs, Publish(p), Acquire(p) PROVE Chords'
  BY <1>11 DEF Publish, Go, Acquire
<1>12. ASSUME NEW p \in Procs, CloseRecord(p), Acquire(p) PROVE Chords'
  BY <1>12 DEF CloseRecord, DropSection, Go, Acquire
<1>13. ASSUME NEW p \in Procs, Sleep(p) PROVE Chords'
  BY <1>13 DEF Sleep, Poll, Go, restartVars
<1>14. ASSUME NEW p \in Procs, SetupJobs(p) PROVE Chords'
  BY <1>14 DEF SetupJobs, JoinJobs, Go
<1>15. ASSUME NEW p \in Procs, ShowTray(p) PROVE Chords'
  BY <1>15 DEF ShowTray, Install, Go, KeepInstance
<1>16. ASSUME NEW p \in Procs, StartWorker(p) PROVE Chords'
  BY <1>16 DEF StartWorker, Go, KeepInstance
<1>17. ASSUME NEW p \in Procs, Dismiss(p) PROVE Chords'
  BY <1>17 DEF Dismiss, Uninstall, Go, KeepInstance
<1>18. ASSUME NEW p \in Procs, CloseWindow(p) PROVE Chords'
  BY <1>18 DEF CloseWindow, Serving, KeepInstance
<1>19. ASSUME NEW p \in Procs, MenuQuit(p) PROVE Chords'
  BY <1>19 DEF MenuQuit, Serving, Uninstall, Go, KeepInstance
<1>20. ASSUME NEW p \in Procs, MenuRestart(p) PROVE Chords'
  BY <1>20 DEF MenuRestart, Serving, Uninstall, Go, KeepInstance
<1>21. ASSUME NEW p \in Procs, at[p] = "relaunch", NEW q \in Procs,
             Fresh(q), Spawn(p, q, None),
             UNCHANGED <<chord, hooks, quitting, errors, warned>>
      PROVE  Chords'
  BY <1>21 DEF Spawn, Fresh
<1>22. ASSUME NEW p \in Procs, Relaunch(p) PROVE Chords'
  BY <1>21, <1>22 DEF Relaunch, Go, KeepInstance
<1>23. ASSUME NEW p \in Procs, Probe(p) PROVE Chords'
  BY <1>23 DEF Probe, Go, KeepInstance
<1>24. ASSUME NEW p \in Procs, TakeBack(p) PROVE Chords'
  BY <1>24 DEF TakeBack, Install, Go, KeepInstance
<1>25. ASSUME NEW p \in Procs, LeaveLoop(p) PROVE Chords'
  BY <1>25 DEF LeaveLoop, Go, KeepInstance, restartVars
<1>26. ASSUME NEW p \in Procs, StopWorker(p) PROVE Chords'
  BY <1>26 DEF StopWorker, Uninstall, Go, KeepInstance
<1>27. ASSUME NEW p \in Procs, CloseMutex(p, "failed"), UNCHANGED restartVars PROVE Chords'
  BY <1>27 DEF CloseMutex, Go, restartVars
<1>28. ASSUME NEW p \in Procs, Alive(p), NEW how \in {"gone", "killed"}, End(p, how)
       PROVE  Chords'
  BY <1>28 DEF End, Vanish, DropSection, Uninstall, Go, Alive
<1>29. CASE UNCHANGED vars
  BY <1>29 DEF vars, instanceVars, restartVars
<1> QED
  BY <1>1, <1>2, <1>3, <1>4, <1>5, <1>6, <1>7, <1>8, <1>9, <1>10, <1>11, <1>12, <1>13,
     <1>14, <1>15, <1>16, <1>17, <1>18, <1>19, <1>20, <1>21, <1>22, <1>23, <1>24, <1>25,
     <1>26, <1>27, <1>28, <1>29
  DEF Next, Run, User, Acquire, InstanceStep, Closed, Die, Alive

(* A process that had the instance never comes back to where it has not.   *)
LEMMA NamesPreserved ==
  ASSUME RestartInv, [Next]_vars
  PROVE  Names'
<1> USE ProcFacts DEF RestartInv, TypeOK, Places, Names, Early, NoOne, Blank
<1>1. CASE OtherProgram
  BY <1>1 DEF OtherProgram, instanceVars
<1>2. ASSUME NEW p \in Procs, Launch(p) PROVE Names'
  BY <1>2 DEF Launch, Fresh, Go, KeepInstance, restartVars
<1>3. ASSUME NEW p \in Procs, LoadConfig(p) PROVE Names'
  BY <1>3 DEF LoadConfig, Go, KeepInstance
<1>4. ASSUME NEW p \in Procs, TryCreate(p) PROVE Names'
  BY <1>4 DEF TryCreate, Go
<1>5. ASSUME NEW p \in Procs, BackOff(p) PROVE Names'
  BY <1>5 DEF BackOff, Go
<1>6. ASSUME NEW p \in Procs, Look(p) PROVE Names'
  BY <1>6 DEF Look, Go
<1>7. ASSUME NEW p \in Procs, ReadPid(p) PROVE Names'
  BY <1>7 DEF ReadPid, Go
<1>8. ASSUME NEW p \in Procs, ReadImage(p) PROVE Names'
  BY <1>8 DEF ReadImage, DropSection, Go
<1>9. ASSUME NEW p \in Procs, OpenRecord(p) PROVE Names'
  BY <1>9 DEF OpenRecord, Go
<1>10. ASSUME NEW p \in Procs, Rewrite(p) PROVE Names'
  BY <1>10 DEF Rewrite, Go
<1>11. ASSUME NEW p \in Procs, Publish(p) PROVE Names'
  BY <1>11 DEF Publish, Go
<1>12. ASSUME NEW p \in Procs, CloseRecord(p) PROVE Names'
  BY <1>12 DEF CloseRecord, DropSection, Go
<1>13. ASSUME NEW p \in Procs, Sleep(p) PROVE Names'
  BY <1>13 DEF Sleep, Poll, Go, restartVars
<1>14. ASSUME NEW p \in Procs, SetupJobs(p) PROVE Names'
  BY <1>14 DEF SetupJobs, JoinJobs, Go
<1>15. ASSUME NEW p \in Procs, ShowTray(p) PROVE Names'
  BY <1>15 DEF ShowTray, Install, Go, KeepInstance
<1>16. ASSUME NEW p \in Procs, StartWorker(p) PROVE Names'
  BY <1>16 DEF StartWorker, Go, KeepInstance
<1>17. ASSUME NEW p \in Procs, Dismiss(p) PROVE Names'
  BY <1>17 DEF Dismiss, Uninstall, Go, KeepInstance
<1>18. ASSUME NEW p \in Procs, CloseWindow(p) PROVE Names'
  BY <1>18 DEF CloseWindow, Serving, KeepInstance
<1>19. ASSUME NEW p \in Procs, MenuQuit(p) PROVE Names'
  BY <1>19 DEF MenuQuit, Serving, Uninstall, Go, KeepInstance
<1>20. ASSUME NEW p \in Procs, MenuRestart(p) PROVE Names'
  BY <1>20 DEF MenuRestart, Serving, Uninstall, Go, KeepInstance
<1>21. ASSUME NEW p \in Procs, at[p] = "relaunch", NEW q \in Procs,
             Fresh(q), Spawn(p, q, None),
             UNCHANGED <<chord, hooks, quitting, errors, warned>>
      PROVE  Names'
  BY <1>21 DEF Spawn, Fresh
<1>22. ASSUME NEW p \in Procs, Relaunch(p) PROVE Names'
  BY <1>21, <1>22 DEF Relaunch, Go, KeepInstance
<1>23. ASSUME NEW p \in Procs, Probe(p) PROVE Names'
  BY <1>23 DEF Probe, Go, KeepInstance
<1>24. ASSUME NEW p \in Procs, TakeBack(p) PROVE Names'
  BY <1>24 DEF TakeBack, Install, Go, KeepInstance
<1>25. ASSUME NEW p \in Procs, LeaveLoop(p) PROVE Names'
  BY <1>25 DEF LeaveLoop, Go, KeepInstance, restartVars
<1>26. ASSUME NEW p \in Procs, StopWorker(p) PROVE Names'
  BY <1>26 DEF StopWorker, Uninstall, Go, KeepInstance
<1>27. ASSUME NEW p \in Procs, CloseMutex(p, "failed"), UNCHANGED restartVars PROVE Names'
  BY <1>27 DEF CloseMutex, Go, restartVars
<1>28. ASSUME NEW p \in Procs, Alive(p), NEW how \in {"gone", "killed"}, End(p, how)
       PROVE  Names'
  BY <1>28 DEF End, Vanish, DropSection, Uninstall, Go, Alive
<1>29. CASE UNCHANGED vars
  BY <1>29 DEF vars, instanceVars, restartVars
<1> QED
  BY <1>1, <1>2, <1>3, <1>4, <1>5, <1>6, <1>7, <1>8, <1>9, <1>10, <1>11, <1>12, <1>13,
     <1>14, <1>15, <1>16, <1>17, <1>18, <1>19, <1>20, <1>21, <1>22, <1>23, <1>24, <1>25,
     <1>26, <1>27, <1>28, <1>29
  DEF Next, Run, User, Acquire, InstanceStep, Closed, Die, Alive

(* Only the holder of the mutex writes the record, and it keeps the section.  *)
LEMMA RecordPreserved ==
  ASSUME RestartInv, [Next]_vars
  PROVE  Record'
<1> USE ProcFacts DEF RestartInv, TypeOK, Places, Holders, Record, Writing, Owning, Acting,
          Blank
<1>1. CASE OtherProgram
  BY <1>1 DEF OtherProgram, instanceVars
<1>2. ASSUME NEW p \in Procs, Launch(p) PROVE Record'
  BY <1>2 DEF Launch, Fresh, Go, KeepInstance, restartVars
<1>3. ASSUME NEW p \in Procs, LoadConfig(p) PROVE Record'
  BY <1>3 DEF LoadConfig, Go, KeepInstance
<1>4. ASSUME NEW p \in Procs, TryCreate(p) PROVE Record'
  BY <1>4 DEF TryCreate, Go
<1>5. ASSUME NEW p \in Procs, BackOff(p) PROVE Record'
  BY <1>5 DEF BackOff, Go
<1>6. ASSUME NEW p \in Procs, Look(p) PROVE Record'
  BY <1>6 DEF Look, Go
<1>7. ASSUME NEW p \in Procs, ReadPid(p) PROVE Record'
  BY <1>7 DEF ReadPid, Go
<1>8. ASSUME NEW p \in Procs, ReadImage(p) PROVE Record'
  BY <1>8 DEF ReadImage, DropSection, Go
<1>9. ASSUME NEW p \in Procs, OpenRecord(p) PROVE Record'
  BY <1>9 DEF OpenRecord, Go
<1>10. ASSUME NEW p \in Procs, Rewrite(p) PROVE Record'
  BY <1>10 DEF Rewrite, Go
<1>11. ASSUME NEW p \in Procs, Publish(p) PROVE Record'
  BY <1>11 DEF Publish, Go
<1>12. ASSUME NEW p \in Procs, CloseRecord(p) PROVE Record'
  BY <1>12 DEF CloseRecord, DropSection, Go
<1>13. ASSUME NEW p \in Procs, Sleep(p) PROVE Record'
  BY <1>13 DEF Sleep, Poll, Go, restartVars
<1>14. ASSUME NEW p \in Procs, SetupJobs(p) PROVE Record'
  BY <1>14 DEF SetupJobs, JoinJobs, Go
<1>15. ASSUME NEW p \in Procs, ShowTray(p) PROVE Record'
  BY <1>15 DEF ShowTray, Install, Go, KeepInstance
<1>16. ASSUME NEW p \in Procs, StartWorker(p) PROVE Record'
  BY <1>16 DEF StartWorker, Go, KeepInstance
<1>17. ASSUME NEW p \in Procs, Dismiss(p) PROVE Record'
  BY <1>17 DEF Dismiss, Uninstall, Go, KeepInstance
<1>18. ASSUME NEW p \in Procs, CloseWindow(p) PROVE Record'
  BY <1>18 DEF CloseWindow, Serving, KeepInstance
<1>19. ASSUME NEW p \in Procs, MenuQuit(p) PROVE Record'
  BY <1>19 DEF MenuQuit, Serving, Uninstall, Go, KeepInstance
<1>20. ASSUME NEW p \in Procs, MenuRestart(p) PROVE Record'
  BY <1>20 DEF MenuRestart, Serving, Uninstall, Go, KeepInstance
<1>21. ASSUME NEW p \in Procs, at[p] = "relaunch", NEW q \in Procs,
             Fresh(q), Spawn(p, q, None),
             UNCHANGED <<chord, hooks, quitting, errors, warned>>
      PROVE  Record'
  BY <1>21 DEF Spawn, Fresh
<1>22. ASSUME NEW p \in Procs, Relaunch(p) PROVE Record'
  BY <1>21, <1>22 DEF Relaunch, Go, KeepInstance
<1>23. ASSUME NEW p \in Procs, Probe(p) PROVE Record'
  BY <1>23 DEF Probe, Go, KeepInstance
<1>24. ASSUME NEW p \in Procs, TakeBack(p) PROVE Record'
  BY <1>24 DEF TakeBack, Install, Go, KeepInstance
<1>25. ASSUME NEW p \in Procs, LeaveLoop(p) PROVE Record'
  BY <1>25 DEF LeaveLoop, Go, KeepInstance, restartVars
<1>26. ASSUME NEW p \in Procs, StopWorker(p) PROVE Record'
  BY <1>26 DEF StopWorker, Uninstall, Go, KeepInstance
<1>27. ASSUME NEW p \in Procs, CloseMutex(p, "failed"), UNCHANGED restartVars PROVE Record'
  BY <1>27 DEF CloseMutex, Go, restartVars
<1>28. ASSUME NEW p \in Procs, Alive(p), NEW how \in {"gone", "killed"}, End(p, how)
       PROVE  Record'
  BY <1>28 DEF End, Vanish, DropSection, Uninstall, Go, Alive
<1>29. CASE UNCHANGED vars
  BY <1>29 DEF vars, instanceVars, restartVars
<1> QED
  BY <1>1, <1>2, <1>3, <1>4, <1>5, <1>6, <1>7, <1>8, <1>9, <1>10, <1>11, <1>12, <1>13,
     <1>14, <1>15, <1>16, <1>17, <1>18, <1>19, <1>20, <1>21, <1>22, <1>23, <1>24, <1>25,
     <1>26, <1>27, <1>28, <1>29
  DEF Next, Run, User, Acquire, InstanceStep, Closed, Die, Alive

(* A writer that would mark the record again has rewritten it first.       *)
LEMMA ReadersPreserved ==
  ASSUME RestartInv, [Next]_vars
  PROVE  Readers'
<1> USE ProcFacts DEF RestartInv, TypeOK, Places, Record, Readers, Early, Writing, NoOne,
          Blank
<1>1. CASE OtherProgram
  BY <1>1 DEF OtherProgram, instanceVars
<1>2. ASSUME NEW p \in Procs, Launch(p) PROVE Readers'
  BY <1>2 DEF Launch, Fresh, Go, KeepInstance, restartVars
<1>3. ASSUME NEW p \in Procs, LoadConfig(p) PROVE Readers'
  BY <1>3 DEF LoadConfig, Go, KeepInstance
<1>4. ASSUME NEW p \in Procs, TryCreate(p) PROVE Readers'
  BY <1>4 DEF TryCreate, Go
<1>5. ASSUME NEW p \in Procs, BackOff(p) PROVE Readers'
  BY <1>5 DEF BackOff, Go
<1>6. ASSUME NEW p \in Procs, Look(p) PROVE Readers'
  BY <1>6 DEF Look, Go
<1>7. ASSUME NEW p \in Procs, ReadPid(p) PROVE Readers'
  BY <1>7 DEF ReadPid, Go
<1>8. ASSUME NEW p \in Procs, ReadImage(p) PROVE Readers'
  BY <1>8 DEF ReadImage, DropSection, Go
<1>9. ASSUME NEW p \in Procs, OpenRecord(p) PROVE Readers'
  BY <1>9 DEF OpenRecord, Go
<1>10. ASSUME NEW p \in Procs, Rewrite(p) PROVE Readers'
  BY <1>10 DEF Rewrite, Go
<1>11. ASSUME NEW p \in Procs, Publish(p) PROVE Readers'
  BY <1>11 DEF Publish, Go
<1>12. ASSUME NEW p \in Procs, CloseRecord(p) PROVE Readers'
  BY <1>12 DEF CloseRecord, DropSection, Go
<1>13. ASSUME NEW p \in Procs, Sleep(p) PROVE Readers'
  BY <1>13 DEF Sleep, Poll, Go, restartVars
<1>14. ASSUME NEW p \in Procs, SetupJobs(p) PROVE Readers'
  BY <1>14 DEF SetupJobs, JoinJobs, Go
<1>15. ASSUME NEW p \in Procs, ShowTray(p) PROVE Readers'
  BY <1>15 DEF ShowTray, Install, Go, KeepInstance
<1>16. ASSUME NEW p \in Procs, StartWorker(p) PROVE Readers'
  BY <1>16 DEF StartWorker, Go, KeepInstance
<1>17. ASSUME NEW p \in Procs, Dismiss(p) PROVE Readers'
  BY <1>17 DEF Dismiss, Uninstall, Go, KeepInstance
<1>18. ASSUME NEW p \in Procs, CloseWindow(p) PROVE Readers'
  BY <1>18 DEF CloseWindow, Serving, KeepInstance
<1>19. ASSUME NEW p \in Procs, MenuQuit(p) PROVE Readers'
  BY <1>19 DEF MenuQuit, Serving, Uninstall, Go, KeepInstance
<1>20. ASSUME NEW p \in Procs, MenuRestart(p) PROVE Readers'
  BY <1>20 DEF MenuRestart, Serving, Uninstall, Go, KeepInstance
<1>21. ASSUME NEW p \in Procs, at[p] = "relaunch", NEW q \in Procs,
             Fresh(q), Spawn(p, q, None),
             UNCHANGED <<chord, hooks, quitting, errors, warned>>
      PROVE  Readers'
  BY <1>21 DEF Spawn, Fresh
<1>22. ASSUME NEW p \in Procs, Relaunch(p) PROVE Readers'
  BY <1>21, <1>22 DEF Relaunch, Go, KeepInstance
<1>23. ASSUME NEW p \in Procs, Probe(p) PROVE Readers'
  BY <1>23 DEF Probe, Go, KeepInstance
<1>24. ASSUME NEW p \in Procs, TakeBack(p) PROVE Readers'
  BY <1>24 DEF TakeBack, Install, Go, KeepInstance
<1>25. ASSUME NEW p \in Procs, LeaveLoop(p) PROVE Readers'
  BY <1>25 DEF LeaveLoop, Go, KeepInstance, restartVars
<1>26. ASSUME NEW p \in Procs, StopWorker(p) PROVE Readers'
  BY <1>26 DEF StopWorker, Uninstall, Go, KeepInstance
<1>27. ASSUME NEW p \in Procs, CloseMutex(p, "failed"), UNCHANGED restartVars PROVE Readers'
  BY <1>27 DEF CloseMutex, Go, restartVars
<1>28. ASSUME NEW p \in Procs, Alive(p), NEW how \in {"gone", "killed"}, End(p, how)
       PROVE  Readers'
  BY <1>28 DEF End, Vanish, DropSection, Uninstall, Go, Alive
<1>29. CASE UNCHANGED vars
  BY <1>29 DEF vars, instanceVars, restartVars
<1> QED
  BY <1>1, <1>2, <1>3, <1>4, <1>5, <1>6, <1>7, <1>8, <1>9, <1>10, <1>11, <1>12, <1>13,
     <1>14, <1>15, <1>16, <1>17, <1>18, <1>19, <1>20, <1>21, <1>22, <1>23, <1>24, <1>25,
     <1>26, <1>27, <1>28, <1>29
  DEF Next, Run, User, Acquire, InstanceStep, Closed, Die, Alive

(* The chord comes back at the end of the dispatch, or the user is told.   *)
LEMMA HotkeyPreserved ==
  ASSUME RestartInv, [Next]_vars
  PROVE  HotkeyAliveOrSaid'
<1> USE ProcFacts DEF RestartInv, TypeOK, Places, Chords, HotkeyAliveOrSaid, HasChord,
          Serving
<1>1. CASE OtherProgram
  BY <1>1 DEF OtherProgram, instanceVars
<1>2. ASSUME NEW p \in Procs, Launch(p) PROVE HotkeyAliveOrSaid'
  BY <1>2 DEF Launch, Fresh, Go, KeepInstance, restartVars
<1>3. ASSUME NEW p \in Procs, LoadConfig(p) PROVE HotkeyAliveOrSaid'
  BY <1>3 DEF LoadConfig, Go, KeepInstance
<1>4. ASSUME NEW p \in Procs, TryCreate(p), Acquire(p) PROVE HotkeyAliveOrSaid'
  BY <1>4 DEF TryCreate, Go, Acquire
<1>5. ASSUME NEW p \in Procs, BackOff(p), Acquire(p) PROVE HotkeyAliveOrSaid'
  BY <1>5 DEF BackOff, Go, Acquire
<1>6. ASSUME NEW p \in Procs, Look(p), Acquire(p) PROVE HotkeyAliveOrSaid'
  BY <1>6 DEF Look, Go, Acquire
<1>7. ASSUME NEW p \in Procs, ReadPid(p), Acquire(p) PROVE HotkeyAliveOrSaid'
  BY <1>7 DEF ReadPid, Go, Acquire
<1>8. ASSUME NEW p \in Procs, ReadImage(p), Acquire(p) PROVE HotkeyAliveOrSaid'
  BY <1>8 DEF ReadImage, DropSection, Go, Acquire
<1>9. ASSUME NEW p \in Procs, OpenRecord(p), Acquire(p) PROVE HotkeyAliveOrSaid'
  BY <1>9 DEF OpenRecord, Go, Acquire
<1>10. ASSUME NEW p \in Procs, Rewrite(p), Acquire(p) PROVE HotkeyAliveOrSaid'
  BY <1>10 DEF Rewrite, Go, Acquire
<1>11. ASSUME NEW p \in Procs, Publish(p), Acquire(p) PROVE HotkeyAliveOrSaid'
  BY <1>11 DEF Publish, Go, Acquire
<1>12. ASSUME NEW p \in Procs, CloseRecord(p), Acquire(p) PROVE HotkeyAliveOrSaid'
  BY <1>12 DEF CloseRecord, DropSection, Go, Acquire
<1>13. ASSUME NEW p \in Procs, Sleep(p) PROVE HotkeyAliveOrSaid'
  BY <1>13 DEF Sleep, Poll, Go, restartVars
<1>14. ASSUME NEW p \in Procs, SetupJobs(p) PROVE HotkeyAliveOrSaid'
  BY <1>14 DEF SetupJobs, JoinJobs, Go
<1>15. ASSUME NEW p \in Procs, ShowTray(p) PROVE HotkeyAliveOrSaid'
  BY <1>15 DEF ShowTray, Install, Go, KeepInstance
<1>16. ASSUME NEW p \in Procs, StartWorker(p) PROVE HotkeyAliveOrSaid'
  BY <1>16 DEF StartWorker, Go, KeepInstance
<1>17. ASSUME NEW p \in Procs, Dismiss(p) PROVE HotkeyAliveOrSaid'
  BY <1>17 DEF Dismiss, Uninstall, Go, KeepInstance
<1>18. ASSUME NEW p \in Procs, CloseWindow(p) PROVE HotkeyAliveOrSaid'
  BY <1>18 DEF CloseWindow, KeepInstance
<1>19. ASSUME NEW p \in Procs, MenuQuit(p) PROVE HotkeyAliveOrSaid'
  BY <1>19 DEF MenuQuit, Uninstall, Go, KeepInstance
<1>20. ASSUME NEW p \in Procs, MenuRestart(p) PROVE HotkeyAliveOrSaid'
  BY <1>20 DEF MenuRestart, Uninstall, Go, KeepInstance
<1>21. ASSUME NEW p \in Procs, at[p] = "relaunch", NEW q \in Procs,
             Fresh(q), Spawn(p, q, None),
             UNCHANGED <<chord, hooks, quitting, errors, warned>>
      PROVE  HotkeyAliveOrSaid'
  BY <1>21 DEF Spawn, Fresh
<1>22. ASSUME NEW p \in Procs, Relaunch(p) PROVE HotkeyAliveOrSaid'
  BY <1>21, <1>22 DEF Relaunch, Go, KeepInstance
<1>23. ASSUME NEW p \in Procs, Probe(p) PROVE HotkeyAliveOrSaid'
  BY <1>23 DEF Probe, Go, KeepInstance
<1>24. ASSUME NEW p \in Procs, TakeBack(p) PROVE HotkeyAliveOrSaid'
  BY <1>24 DEF TakeBack, Install, Go, KeepInstance
<1>25. ASSUME NEW p \in Procs, LeaveLoop(p) PROVE HotkeyAliveOrSaid'
  BY <1>25 DEF LeaveLoop, Go, KeepInstance, restartVars
<1>26. ASSUME NEW p \in Procs, StopWorker(p) PROVE HotkeyAliveOrSaid'
  BY <1>26 DEF StopWorker, Uninstall, Go, KeepInstance
<1>27. ASSUME NEW p \in Procs, CloseMutex(p, "failed"), UNCHANGED restartVars
       PROVE  HotkeyAliveOrSaid'
  BY <1>27 DEF CloseMutex, Go, restartVars
<1>28. ASSUME NEW p \in Procs, Alive(p), NEW how \in {"gone", "killed"}, End(p, how)
       PROVE  HotkeyAliveOrSaid'
  BY <1>28 DEF End, Vanish, DropSection, Uninstall, Go, Alive
<1>29. CASE UNCHANGED vars
  BY <1>29 DEF vars, instanceVars, restartVars
<1> QED
  BY <1>1, <1>2, <1>3, <1>4, <1>5, <1>6, <1>7, <1>8, <1>9, <1>10, <1>11, <1>12, <1>13,
     <1>14, <1>15, <1>16, <1>17, <1>18, <1>19, <1>20, <1>21, <1>22, <1>23, <1>24, <1>25,
     <1>26, <1>27, <1>28, <1>29
  DEF Next, Run, User, Acquire, InstanceStep, Closed, Die, Alive

(* The inductive invariant holds throughout.                               *)
LEMMA InvHolds == Spec => []RestartInv
<1>1. RestartInv /\ [Next]_vars => RestartInv'
  BY TypePreserved, PollsPreserved, HoldersPreserved, ChordsPreserved, NamesPreserved,
     RecordPreserved, ReadersPreserved, HotkeyPreserved DEF RestartInv
<1> QED BY InitEstablishes, <1>1, PTL DEF Spec

-----------------------------------------------------------------------------
(* The types; a process never registers the chord it also hooks.           *)
THEOREM RestartTypes == Spec => []TypeOK
<1>1. RestartInv => TypeOK
  BY DEF RestartInv
<1> QED BY InvHolds, <1>1, PTL

(* However launches, restarts, exits and terminations overlap, two processes
   never work at once.                                                     *)
THEOREM NeverTwoInstances == Spec => []OneInstance
<1>1. RestartInv => OneInstance
  <2> SUFFICES ASSUME RestartInv, NEW p \in Procs, NEW q \in Procs, Working(p), Working(q)
               PROVE  p = q
    BY DEF OneInstance
  <2>1. p \in mutex /\ at[p] # "opened" /\ q \in mutex /\ at[q] # "opened"
    BY DEF RestartInv, Working, Chords, Holders, Owning, Acting
  <2> QED BY <2>1 DEF RestartInv, Holders
<1> QED BY InvHolds, <1>1, PTL

(* The owner a refused launch names had the instance, and its process id and
   image belong together, unless the record was rewritten under the read.  *)
THEOREM ReportNamesAnOwner == Spec => []OwnerReportTrue
<1>1. RestartInv => OwnerReportTrue
  BY DEF RestartInv, TypeOK, Names, Readers, Early, OwnerReportTrue
<1> QED BY InvHolds, <1>1, PTL

(* A process in its loop with no quit pending has its chord, or has told the
   user that it is lost.                                                   *)
THEOREM HotkeyNeverLostSilently == Spec => []HotkeyAliveOrSaid
<1>1. RestartInv => HotkeyAliveOrSaid
  BY DEF RestartInv
<1> QED BY InvHolds, <1>1, PTL
=============================================================================
