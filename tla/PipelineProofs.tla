--------------------------- MODULE PipelineProofs ---------------------------
(***************************************************************************)
(* What Pipeline promises for every number of presses, windows, chunks and *)
(* path components: that it implements Delivery, and what its runs leave   *)
(* behind.                                                                 *)
(*                                                                         *)
(* PipeInv says, for each place the worker can be, what the earlier steps  *)
(* have established: a later step, or the report, relies on what was true  *)
(* several exchanges before, while the channel and the desktop moved.      *)
(***************************************************************************)
EXTENDS Pipeline, FiniteSetTheorems, TLAPS

Early      == {"capture", "realpath", "mkdir", "probe", "open"}
Uploading  == {"write", "close", "stat", "verify", "rename"}
Publishing == {"show", "aim", "focus", "chord", "restore"}
Pruning    == {"opendir", "readdir", "closedir", "unlink"}

(* Runs are entered for presses, and never more often.                     *)
Tickets ==
  /\ run + (IF event THEN 1 ELSE 0) + (IF pc = "connect" THEN 1 ELSE 0) <= accepted
  /\ pressing => accepted < MaxPresses
  /\ InFlight => run >= 1

(* Every run but the one in flight has reported, and a run in flight has a
   client.                                                                 *)
Reports ==
  /\ \A r \in Runs : result[r] # "none" <=> r < run \/ (r = run /\ ~InFlight)
  /\ InFlight => link # "down"

(* The error so far, at each step.                                         *)
Errors ==
  /\ pc \in Early \cup (Uploading \ {"close"}) \cup (Publishing \ {"restore"})
            \cup Pruning => error = "none"
  /\ pc = "close"   => error # "local"
  /\ pc = "discard" => error = "channel"
  /\ pc = "restore" => error # "channel"

(* How far the run's path has come, at each step.                          *)
Stages ==
  /\ pasted \subseteq shown /\ shown \subseteq sound /\ sound \subseteq 1 .. run
  /\ pc \in Early \cup Uploading => run \notin sound
  /\ pc = "discard" => run \notin shown
  /\ pc = "show" => run \in sound \ shown
  /\ pc \in {"aim", "focus", "chord"} => run \in shown \ pasted
  /\ pc \in Pruning => run \in pasted
  /\ pc \in {"restore", "finish"} /\ error = "none" => run \in pasted

(* The capture and the file made of it.                                    *)
Files ==
  /\ \A r \in Runs : r > run => tmp[r] = NoFile
  /\ pc \in Early \cup Publishing \cup Pruning => tmp[run] = NoFile
  /\ pc = "finish" /\ link = "up" => tmp[run] = NoFile
  /\ pc \in InRun \ {"capture", "finish"} => bytes = Chunks
  /\ pc = "write" => tmp[run] \in 0 .. offset /\ offset < local
  /\ pc = "rename" => tmp[run] = Chunks

Handles ==
  link = "up" =>
    handles = IF pc \in {"write", "close"} THEN {"file"}
              ELSE IF pc \in {"readdir", "closedir"} THEN {"dir"} ELSE {}

Directory ==
  /\ pc \in {"mkdir", "probe"} => dirs >= comp - 1 \/ (blocked /\ comp = dirs + 2)
  /\ pc = "realpath" => comp = 1
  /\ (pc = "stat" /\ tmp[run] # NoFile) \/ sound # {} => dirs = Depth
  /\ DirectoryFirst

PipeInv ==
  /\ TypeOK /\ Tickets /\ Reports /\ Errors /\ Stages /\ Files /\ Handles
  /\ CaptureLifetime /\ Directory

(* A run in flight is one of the runs.                                     *)
LEMMA RunNumbered == PipeInv /\ InFlight => run \in Runs /\ run >= 1
BY PipelineAssumption DEF PipeInv, TypeOK, Tickets, Runs

(* The steps up to the directory keep the invariant.                       *)
LEMMA PrepareKeeps ==
  ASSUME PipeInv, Capture \/ Realpath \/ Mkdir \/ Probe
  PROVE  PipeInv'
<1>1. CASE Capture
  <2>1. TypeOK'
    <3>1. UNCHANGED <<trigger, ticket, late, local, offset, aim, plan, desktop,
          remote, history>>
      BY <1>1 DEF Capture, KeepOutside, desktop, history
    <3>2. pc' \in InRun /\ error' \in {"none", "local", "channel"}
      BY <1>1 DEF PipeInv, TypeOK, InRun, Capture, Fail, StepEnds, Goto
    <3>3. temp' \in BOOLEAN
      BY <1>1 DEF PipeInv, TypeOK, Capture
    <3>4. bytes' \in {0, Chunks}
      BY <1>1 DEF PipeInv, TypeOK, Capture
    <3>5. comp' \in 1 .. Depth
      BY <1>1, PipelineAssumption DEF Capture
    <3>. QED  BY <3>1, <3>2, <3>3, <3>4, <3>5
         DEF PipeInv, TypeOK, desktop, remote, history, trigger, ticket, disk
  <2>2. Tickets' /\ Reports' /\ Errors' /\ Stages'
    BY <1>1
    DEF PipeInv, InRun, InFlight, Early, Uploading, Publishing, Pruning, Tickets,
        Reports, Errors, Stages, Capture, Fail, StepEnds, remote, KeepOutside, Goto,
        trigger, ticket
  <2>3. Files' /\ Handles' /\ CaptureLifetime' /\ Directory'
    BY <1>1
    DEF PipeInv, TypeOK, InRun, InFlight, Early, Files, Handles, CaptureLifetime,
        Directory, DirectoryFirst, Capture, Fail, StepEnds, remote, KeepOutside,
        Goto, disk, ticket
  <2>. QED  BY <2>1, <2>2, <2>3 DEF PipeInv
<1>2. CASE Realpath
  <2>1. TypeOK'
    <3>1. UNCHANGED <<trigger, handles, ticket, late, comp, aim, plan, desktop,
          disk, upload, history>>
      BY <1>2 DEF Realpath, KeepAllButDisk, KeepOutside, desktop, history
    <3>2. pc' \in InRun /\ error' \in {"none", "local", "channel"}
      BY <1>2 DEF PipeInv, TypeOK, InRun, Realpath, Goto, Fail
    <3>3. link' \in {"down", "up", "cut"}
      BY <1>2 DEF Realpath, Exchange
    <3>. QED  BY <3>1, <3>2, <3>3
         DEF PipeInv, TypeOK, desktop, disk, upload, history, trigger, ticket
  <2>2. Tickets' /\ Reports' /\ Errors' /\ Stages'
    BY <1>2
    DEF PipeInv, InRun, InFlight, Early, Uploading, Publishing, Pruning, Tickets,
        Reports, Errors, Stages, Realpath, Exchange, Goto, Fail, KeepAllButDisk,
        KeepOutside, trigger, ticket
  <2>3. Files' /\ Handles' /\ CaptureLifetime' /\ Directory'
    BY <1>2
    DEF PipeInv, TypeOK, InRun, InFlight, Early, Files, Handles, CaptureLifetime,
        Directory, DirectoryFirst, Realpath, Exchange, Goto, Fail, disk,
        KeepAllButDisk, upload, KeepOutside, ticket
  <2>. QED  BY <2>1, <2>2, <2>3 DEF PipeInv
<1>3. CASE Mkdir
  <2>1. TypeOK'
    BY <1>3, PipelineAssumption
    DEF PipeInv, TypeOK, InRun, Mkdir, Exchange, NextComponent, Goto, Fail,
        KeepAllButDisk, StepEnds, upload, KeepOutside, trigger, ticket
  <2>2. Tickets' /\ Reports' /\ Errors' /\ Stages'
    BY <1>3
    DEF PipeInv, InRun, InFlight, Early, Uploading, Publishing, Pruning, Tickets,
        Reports, Errors, Stages, Mkdir, Exchange, NextComponent, Goto, Fail,
        KeepAllButDisk, StepEnds, KeepOutside, trigger, ticket
  <2>3. Files' /\ Handles' /\ CaptureLifetime' /\ Directory'
    BY <1>3, PipelineAssumption
    DEF PipeInv, TypeOK, InRun, InFlight, Early, Files, Handles, CaptureLifetime,
        Directory, DirectoryFirst, Mkdir, Exchange, Applied, NextComponent, Goto,
        Fail, KeepAllButDisk, StepEnds, upload, KeepOutside, ticket
  <2>. QED  BY <2>1, <2>2, <2>3 DEF PipeInv
<1>4. CASE Probe
  <2>1. TypeOK'
    BY <1>4, PipelineAssumption
    DEF PipeInv, TypeOK, InRun, Probe, Exchange, NextComponent, Fail, disk,
        KeepAllButDisk, Goto, StepEnds, upload, KeepOutside, trigger, ticket
  <2>2. Tickets' /\ Reports' /\ Errors' /\ Stages'
    BY <1>4
    DEF PipeInv, InRun, InFlight, Early, Uploading, Publishing, Pruning, Tickets,
        Reports, Errors, Stages, Probe, Exchange, NextComponent, Fail,
        KeepAllButDisk, Goto, StepEnds, KeepOutside, trigger, ticket
  <2>3. Files' /\ Handles' /\ CaptureLifetime' /\ Directory'
    BY <1>4, PipelineAssumption
    DEF PipeInv, TypeOK, InRun, InFlight, Early, Files, Handles, CaptureLifetime,
        Directory, DirectoryFirst, Probe, Exists, Exchange, NextComponent, Fail, disk,
        KeepAllButDisk, Goto, StepEnds, upload, KeepOutside, ticket
  <2>. QED  BY <2>1, <2>2, <2>3 DEF PipeInv
<1>. QED  BY <1>1, <1>2, <1>3, <1>4

(* So do those of the upload, from OPEN to RENAME or REMOVE.               *)
LEMMA UploadKeeps ==
  ASSUME PipeInv, Open \/ Write \/ Close \/ Stat \/ Verify \/ Rename \/ Discard
  PROVE  PipeInv'
<1>1. CASE Open
  <2>1. TypeOK'
    <3>1. UNCHANGED <<trigger, dirs, blocked, final, ticket, late, temp, bytes, comp,
          aim, plan, desktop, history>>
      BY <1>1 DEF Open, KeepAllButFile, KeepOutside, desktop, history
    <3>2. pc' \in InRun /\ error' \in {"none", "local", "channel"}
      BY <1>1 DEF PipeInv, TypeOK, InRun, Open, Fail, Goto
    <3>3. link' \in {"down", "up", "cut"}
      BY <1>1 DEF PipeInv, TypeOK, Open, Exchange
    <3>4. tmp' \in [Runs -> NoFile .. Chunks]
      BY <1>1, PipelineAssumption DEF PipeInv, TypeOK, NoFile, Open
    <3>5. handles' \subseteq {"file", "dir"}
      BY <1>1 DEF PipeInv, TypeOK, Open
    <3>6. local' \in 0 .. Chunks /\ offset' \in 0 .. local'
      BY <1>1, PipelineAssumption DEF PipeInv, TypeOK, Open
    <3>. QED  BY <3>1, <3>2, <3>3, <3>4, <3>5, <3>6
         DEF PipeInv, TypeOK, desktop, history, trigger, ticket
  <2>2. Tickets' /\ Reports' /\ Errors' /\ Stages'
    BY <1>1
    DEF PipeInv, TypeOK, InRun, InFlight, Early, Uploading, Publishing, Pruning,
        Tickets, Reports, Errors, Stages, Open, Fail, Exchange, Goto,
        KeepAllButFile, KeepOutside, trigger, ticket
  <2>3. Files'
    <3>1. /\ run \in Runs /\ run' = run /\ bytes' = bytes
          /\ tmp \in [Runs -> Int] /\ bytes = Chunks
      BY <1>1, RunNumbered
      DEF PipeInv, TypeOK, Files, InFlight, Open, KeepAllButFile, KeepOutside,
          ticket
    <3>2. /\ tmp' \in {tmp, [tmp EXCEPT ![run] = 0]}
          /\ pc' \in {"write", "close", "stat", "discard"}
          /\ pc' = "write" => /\ tmp' = [tmp EXCEPT ![run] = 0]
                             /\ offset' = 0 /\ local' \in Nat \ {0}
      BY <1>1, <3>1 DEF Open, Made, Applied, Goto, Fail
    <3>3. \A r \in Runs : r > run => tmp'[r] = NoFile
      <4>1. \A r \in Runs : r > run => r # run /\ tmp[r] = NoFile
        BY <3>1 DEF PipeInv, Files, Runs
      <4>. QED  BY <3>1, <3>2, <4>1
    <3>4. pc' = "write" => tmp'[run] \in 0 .. offset' /\ offset' < local'
      BY <3>1, <3>2
    <3>. QED  BY <3>1, <3>2, <3>3, <3>4 DEF Files, Early, Publishing, Pruning
  <2>4. Handles' /\ CaptureLifetime'
    BY <1>1
    DEF PipeInv, InRun, InFlight, Handles, CaptureLifetime, DirectoryFirst, Directory,
        Open, Made, Exchange, Applied, Goto, Fail, KeepAllButFile
  <2>5. Directory'
    <3>1. tmp[run] = NoFile /\ UNCHANGED <<dirs, blocked, comp, run, sound, shown>>
      BY <1>1 DEF PipeInv, Files, Early, Open, KeepAllButFile, KeepOutside, ticket
    <3>2. /\ pc' \in {"write", "close", "stat", "discard"}
          /\ pc' \in {"write", "close"} => dirs = Depth
          /\ pc' = "stat" => tmp' = tmp \/ dirs = Depth
      BY <1>1 DEF Open, Made, Goto, Fail
    <3>. QED  BY <1>1, <3>1, <3>2 DEF PipeInv, Directory, DirectoryFirst, Open
  <2>. QED  BY <2>1, <2>2, <2>3, <2>4, <2>5 DEF PipeInv
<1>2. CASE Write
  <2>1. TypeOK'
    <3>1. UNCHANGED <<trigger, dirs, blocked, final, handles, ticket, late, temp, bytes,
          local, comp, aim, plan, desktop, history>>
      BY <1>2 DEF Write, KeepAllButFile, KeepOutside, desktop, history
    <3>2. pc' \in InRun /\ error' \in {"none", "local", "channel"}
      BY <1>2 DEF PipeInv, TypeOK, InRun, Write, Fail, Goto
    <3>3. link' \in {"down", "up", "cut"}
      BY <1>2 DEF PipeInv, TypeOK, Write, Exchange
    <3>4. tmp' \in [Runs -> NoFile .. Chunks]
      <4>1. tmp' \in {tmp, [tmp EXCEPT ![run] = tmp[run] + 1]}
        BY <1>2 DEF Write
      <4>2. tmp[run] + 1 \in NoFile .. Chunks
        BY <1>2 DEF PipeInv, TypeOK, Files, NoFile, Write
      <4>. QED  BY <4>1, <4>2 DEF PipeInv, TypeOK
    <3>5. offset' \in 0 .. local
      BY <1>2 DEF PipeInv, TypeOK, Files, Write
    <3>. QED  BY <3>1, <3>2, <3>3, <3>4, <3>5
         DEF PipeInv, TypeOK, desktop, history, trigger, ticket
  <2>2. Tickets' /\ Reports' /\ Errors' /\ Stages'
    BY <1>2
    DEF PipeInv, InRun, InFlight, Early, Uploading, Publishing, Pruning, Tickets,
        Reports, Errors, Stages, Write, Fail, Exchange, Goto, KeepAllButFile,
        KeepOutside, trigger, ticket
  <2>3. Files'
    <3>1. /\ run \in Runs /\ run' = run /\ bytes' = bytes /\ local' = local
          /\ tmp \in [Runs -> Int] /\ offset \in Int /\ local \in Int
          /\ tmp[run] \in 0 .. offset /\ offset < local /\ bytes = Chunks
      BY <1>2, RunNumbered
      DEF PipeInv, TypeOK, Files, InFlight, Write, KeepAllButFile, KeepOutside,
          ticket
    <3>2. /\ tmp' \in {tmp, [tmp EXCEPT ![run] = tmp[run] + 1]}
          /\ pc' = "close" \/ (pc' = "write" /\ offset' = offset + 1 /\ offset' # local)
      BY <1>2, <3>1 DEF Write, Goto, Fail
    <3>3. \A r \in Runs : r > run => tmp'[r] = NoFile
      <4>1. \A r \in Runs : r > run => r # run /\ tmp[r] = NoFile
        BY <3>1 DEF PipeInv, Files, Runs
      <4>. QED  BY <3>1, <3>2, <4>1
    <3>4. pc' = "write" => tmp'[run] \in 0 .. offset' /\ offset' < local
      BY <3>1, <3>2
    <3>. QED  BY <3>1, <3>2, <3>3, <3>4 DEF Files, Early, Publishing, Pruning
  <2>4. Handles' /\ CaptureLifetime' /\ Directory'
    BY <1>2
    DEF PipeInv, InRun, InFlight, Handles, CaptureLifetime, Directory,
        DirectoryFirst, Write, Exchange, Goto, Fail, KeepAllButFile
  <2>. QED  BY <2>1, <2>2, <2>3, <2>4 DEF PipeInv
<1>3. CASE Close
  <2>1. TypeOK'
    BY <1>3
    DEF PipeInv, TypeOK, InRun, Close, Exchange, Goto, Fail, KeepAllButFile,
        KeepOutside, trigger, ticket
  <2>2. Tickets' /\ Reports' /\ Errors' /\ Stages'
    BY <1>3
    DEF PipeInv, TypeOK, InRun, InFlight, Early, Uploading, Publishing, Pruning,
        Tickets, Reports, Errors, Stages, Close, Exchange, Goto, Fail,
        KeepAllButFile, KeepOutside, trigger, ticket
  <2>3. Files' /\ Handles' /\ CaptureLifetime' /\ Directory'
    BY <1>3
    DEF PipeInv, InRun, InFlight, Early, Publishing, Pruning, Files, Handles,
        CaptureLifetime, Directory, DirectoryFirst, Close, Exchange, Goto, Fail,
        KeepAllButFile, KeepOutside, ticket
  <2>. QED  BY <2>1, <2>2, <2>3 DEF PipeInv
<1>4. CASE Stat
  <2>1. TypeOK'
    <3>1. UNCHANGED <<trigger, handles, ticket, late, comp, aim, plan, desktop,
          disk, upload, history>>
      BY <1>4
      DEF Stat, StatIs, KeepAllButFile, KeepOutside, desktop, disk, upload, history
    <3>2. pc' \in InRun /\ error' \in {"none", "local", "channel"}
      BY <1>4 DEF PipeInv, TypeOK, InRun, Stat, StatIs, Goto, Fail
    <3>3. link' \in {"down", "up", "cut"}
      BY <1>4 DEF Stat, StatIs, Exchange
    <3>. QED  BY <3>1, <3>2, <3>3
         DEF PipeInv, TypeOK, desktop, disk, upload, history, trigger, ticket
  <2>2. Tickets' /\ Reports' /\ Errors' /\ Stages'
    BY <1>4
    DEF PipeInv, TypeOK, InRun, InFlight, Early, Uploading, Publishing, Pruning,
        Tickets, Reports, Errors, Stages, Stat, StatIs, Exchange, Goto, Fail,
        KeepAllButFile, KeepOutside, trigger, ticket
  <2>3. Files' /\ Handles' /\ CaptureLifetime' /\ Directory'
    BY <1>4
    DEF PipeInv, InRun, InFlight, Early, Publishing, Pruning, Files, Handles,
        CaptureLifetime, Directory, DirectoryFirst, Stat, StatIs, Exchange, Goto,
        Fail, KeepAllButFile, KeepOutside, ticket
  <2>. QED  BY <2>1, <2>2, <2>3 DEF PipeInv
<1>5. CASE Verify
  <2>1. TypeOK'
    <3>1. UNCHANGED <<trigger, handles, ticket, late, comp, aim, plan, desktop,
          disk, upload, history>>
      BY <1>5
      DEF Verify, StatIs, KeepAllButFile, KeepOutside, desktop, disk, upload,
          history
    <3>2. pc' \in InRun /\ error' \in {"none", "local", "channel"}
      BY <1>5 DEF PipeInv, TypeOK, InRun, Verify, StatIs, Goto, Fail
    <3>3. link' \in {"down", "up", "cut"}
      BY <1>5 DEF Verify, StatIs, Exchange
    <3>. QED  BY <3>1, <3>2, <3>3
         DEF PipeInv, TypeOK, desktop, disk, upload, history, trigger, ticket
  <2>2. Tickets' /\ Reports' /\ Errors' /\ Stages'
    BY <1>5
    DEF PipeInv, TypeOK, InRun, InFlight, Early, Uploading, Publishing, Pruning,
        Tickets, Reports, Errors, Stages, Verify, StatIs, Exchange, Goto, Fail,
        KeepAllButFile, KeepOutside, trigger, ticket
  <2>3. Files' /\ Handles' /\ CaptureLifetime' /\ Directory'
    BY <1>5
    DEF PipeInv, InRun, InFlight, Early, Publishing, Pruning, Files, Handles,
        CaptureLifetime, Directory, DirectoryFirst, Verify, StatIs, Exchange, Goto,
        Fail, KeepAllButFile, KeepOutside, ticket
  <2>. QED  BY <2>1, <2>2, <2>3 DEF PipeInv
<1>6. CASE Rename
  <2>1. /\ run \in Runs /\ run >= 1 /\ tmp[run] = Chunks
        /\ tmp \in [Runs -> NoFile .. Chunks] /\ final \in [Runs -> NoFile .. Chunks]
        /\ NoFile \in NoFile .. Chunks /\ Chunks \in NoFile .. Chunks
    BY <1>6, RunNumbered
    DEF PipeInv, TypeOK, Files, InFlight, NoFile, Rename
  <2>2. /\ tmp' \in {tmp, [tmp EXCEPT ![run] = NoFile]}
        /\ final' \in {final, [final EXCEPT ![run] = Chunks]}
        /\ sound' \in {sound, sound \cup {run}}
        /\ pc' \in {"show", "finish"} => tmp'[run] = NoFile
        /\ pc' = "show" => run \in sound'
        /\ \/ pc' = "show" /\ error' = error
           \/ pc' \in {"finish", "discard"} /\ error' = "channel"
    BY <1>6, <2>1 DEF Rename, Applied, StepEnds, Goto, Fail
  <2>3. /\ link' \in {"up", "cut"} /\ (link' = "up" => link = "up")
        /\ UNCHANGED <<focus, clip, trigger, dirs, blocked, handles, run, served, late, upload,
                      comp, aim, plan, shown, pasted, result>>
    BY <1>6 DEF Rename, Exchange, KeepAllButFile, KeepOutside, ticket, upload
  <2>4. TypeOK'
    <3>1. /\ tmp' \in [Runs -> NoFile .. Chunks] /\ final' \in [Runs -> NoFile .. Chunks]
          /\ sound' \subseteq Runs
      BY <2>1, <2>2 DEF PipeInv, TypeOK
    <3>2. pc' \in InRun /\ error' \in {"none", "local", "channel"}
      BY <2>2 DEF PipeInv, TypeOK, InRun
    <3>. QED  BY <2>3, <3>1, <3>2 DEF PipeInv, TypeOK, trigger, upload
  <2>5. Tickets' /\ Reports'
    BY <1>6, <2>2, <2>3
    DEF PipeInv, Tickets, Reports, InRun, InFlight, Rename, trigger
  <2>6. Errors'
    BY <1>6, <2>2 DEF PipeInv, Errors, Early, Uploading, Publishing, Pruning, Rename
  <2>7. Stages'
    <3>1. pasted' \subseteq shown' /\ shown' \subseteq sound' /\ sound' \subseteq 1 .. run
      BY <2>1, <2>2, <2>3 DEF PipeInv, Stages
    <3>2. run \notin shown'
      BY <1>6, <2>3 DEF PipeInv, Stages, Uploading, Rename
    <3>. QED
      BY <2>2, <2>3, <3>1, <3>2 DEF Stages, Early, Uploading, Pruning
  <2>8. Files'
    <3>1. \A r \in Runs : r > run => tmp'[r] = NoFile
      BY <2>1, <2>2 DEF PipeInv, Files
    <3>. QED
      BY <1>6, <2>2, <2>3, <3>1
      DEF PipeInv, Files, InRun, Early, Publishing, Pruning, Rename, upload
  <2>9. Handles' /\ CaptureLifetime' /\ Directory'
    BY <1>6, <2>2, <2>3
    DEF PipeInv, Handles, CaptureLifetime, Directory, DirectoryFirst, InRun,
        InFlight, Rename, upload
  <2>. QED  BY <2>4, <2>5, <2>6, <2>7, <2>8, <2>9 DEF PipeInv
<1>7. CASE Discard
  <2>1. TypeOK'
    <3>1. UNCHANGED <<trigger, dirs, blocked, final, handles, ticket, late, comp, aim,
          plan, desktop, upload, history>>
      BY <1>7 DEF Discard, KeepAllButFile, KeepOutside, desktop, upload, history
    <3>2. pc' \in InRun /\ error' \in {"none", "local", "channel"}
      BY <1>7 DEF PipeInv, TypeOK, InRun, Discard, Goto
    <3>3. link' \in {"down", "up", "cut"}
      BY <1>7 DEF Discard, Exchange
    <3>4. tmp' \in [Runs -> NoFile .. Chunks]
      BY <1>7, PipelineAssumption
      DEF PipeInv, TypeOK, Tickets, InFlight, Runs, NoFile, Discard
    <3>. QED  BY <3>1, <3>2, <3>3, <3>4
         DEF PipeInv, TypeOK, desktop, upload, history, trigger, ticket
  <2>2. Tickets' /\ Reports' /\ Errors' /\ Stages'
    BY <1>7
    DEF PipeInv, InRun, InFlight, Early, Uploading, Publishing, Pruning, Tickets,
        Reports, Errors, Stages, Discard, Exchange, Goto, KeepAllButFile,
        KeepOutside, trigger, ticket
  <2>3. Files'
    <3>1. /\ run \in Runs /\ run' = run
          /\ tmp \in [Runs -> Int]
      BY <1>7, RunNumbered
      DEF PipeInv, TypeOK, InFlight, Discard, KeepAllButFile, KeepOutside, ticket
    <3>2. /\ tmp' \in {tmp, [tmp EXCEPT ![run] = NoFile]}
          /\ pc' = "finish" /\ (link' = "up" => tmp'[run] = NoFile)
      BY <1>7, <3>1 DEF Discard, Exchange, Applied, Goto
    <3>3. \A r \in Runs : r > run => tmp'[r] = NoFile
      <4>1. \A r \in Runs : r > run => r # run /\ tmp[r] = NoFile
        BY <3>1 DEF PipeInv, Files, Runs
      <4>. QED  BY <3>1, <3>2, <4>1
    <3>. QED  BY <3>1, <3>2, <3>3 DEF Files, Early, Publishing, Pruning
  <2>4. Handles' /\ CaptureLifetime' /\ Directory'
    BY <1>7
    DEF PipeInv, InRun, InFlight, Handles, CaptureLifetime, Directory,
        DirectoryFirst, Discard, Exchange, Goto, KeepAllButFile
  <2>. QED  BY <2>1, <2>2, <2>3, <2>4 DEF PipeInv
<1>. QED  BY <1>1, <1>2, <1>3, <1>4, <1>5, <1>6, <1>7

(* So do those at the clipboard and the chord.                             *)
LEMMA PublishKeeps ==
  ASSUME PipeInv, SetText \/ Aim \/ CheckFocus \/ SendChord \/ Restore
  PROVE  PipeInv'
<1>1. CASE SetText
  <2>1. TypeOK'
    <3>1. UNCHANGED <<focus, trigger, ticket, late, comp, aim, plan, sound,
          pasted, result, remote, upload>>
      BY <1>1 DEF SetText, KeepAllButDesk, KeepOutside
    <3>2. pc' \in InRun /\ error' \in {"none", "local", "channel"}
      BY <1>1 DEF PipeInv, TypeOK, InRun, SetText, Goto, Fail
    <3>3. clip' \in {Image, Other} \cup Runs /\ shown' \subseteq Runs
      BY <1>1 DEF PipeInv, TypeOK, Stages, SetText
    <3>. QED  BY <3>1, <3>2, <3>3
         DEF PipeInv, TypeOK, remote, upload, trigger, ticket, disk
  <2>2. Tickets' /\ Reports' /\ Errors' /\ Stages'
    BY <1>1
    DEF PipeInv, InRun, InFlight, Early, Uploading, Publishing, Pruning, Tickets,
        Reports, Errors, Stages, SetText, Goto, Fail, KeepAllButDesk, remote,
        KeepOutside, trigger, ticket
  <2>3. Files' /\ Handles' /\ CaptureLifetime' /\ Directory'
    BY <1>1
    DEF PipeInv, InRun, InFlight, Publishing, Files, Handles, CaptureLifetime,
        Directory, DirectoryFirst, Stages, SetText, Goto, Fail, KeepAllButDesk,
        remote, upload, KeepOutside, disk, ticket
  <2>. QED  BY <2>1, <2>2, <2>3 DEF PipeInv
<1>2. CASE Aim
  <2>1. TypeOK'
    BY <1>2
    DEF PipeInv, TypeOK, InRun, Aim, Fail, Goto, KeepAllButDesk, remote, upload,
        KeepOutside, disk, trigger, ticket
  <2>2. Tickets' /\ Reports' /\ Errors' /\ Stages'
    BY <1>2
    DEF PipeInv, InRun, InFlight, Early, Uploading, Publishing, Pruning, Tickets,
        Reports, Errors, Stages, Aim, Fail, Goto, KeepAllButDesk, remote,
        KeepOutside, trigger, ticket
  <2>3. Files' /\ Handles' /\ CaptureLifetime' /\ Directory'
    BY <1>2
    DEF PipeInv, InRun, InFlight, Publishing, Files, Handles, CaptureLifetime,
        Directory, DirectoryFirst, Aim, Fail, Goto, KeepAllButDesk, remote, upload,
        KeepOutside, disk, ticket
  <2>. QED  BY <2>1, <2>2, <2>3 DEF PipeInv
<1>3. CASE CheckFocus
  <2>1. TypeOK'
    BY <1>3
    DEF PipeInv, TypeOK, InRun, CheckFocus, Goto, Fail, KeepAllButDesk, remote,
        upload, KeepOutside, disk, trigger, ticket
  <2>2. Tickets' /\ Reports' /\ Errors' /\ Stages'
    BY <1>3
    DEF PipeInv, InRun, InFlight, Early, Uploading, Publishing, Pruning, Tickets,
        Reports, Errors, Stages, CheckFocus, Goto, Fail, KeepAllButDesk, remote,
        KeepOutside, trigger, ticket
  <2>3. Files' /\ Handles' /\ CaptureLifetime' /\ Directory'
    BY <1>3
    DEF PipeInv, InRun, InFlight, Publishing, Files, Handles, CaptureLifetime,
        Directory, DirectoryFirst, CheckFocus, Goto, Fail, KeepAllButDesk, remote,
        upload, KeepOutside, disk, ticket
  <2>. QED  BY <2>1, <2>2, <2>3 DEF PipeInv
<1>4. CASE SendChord
  <2>1. TypeOK'
    <3>1. UNCHANGED <<trigger, ticket, late, comp, aim, plan, sound, shown,
          result, desktop, remote, upload>>
      BY <1>4 DEF SendChord, KeepAllButDesk, KeepOutside, desktop
    <3>2. pc' \in InRun /\ error' \in {"none", "local", "channel"}
      BY <1>4 DEF PipeInv, TypeOK, InRun, SendChord, Goto, Fail
    <3>3. pasted' \subseteq Runs
      BY <1>4, RunNumbered DEF PipeInv, TypeOK, InFlight, SendChord
    <3>. QED  BY <3>1, <3>2, <3>3
         DEF PipeInv, TypeOK, desktop, remote, upload, trigger, ticket, disk
  <2>2. Tickets' /\ Reports' /\ Errors' /\ Stages'
    BY <1>4
    DEF PipeInv, InRun, InFlight, Early, Uploading, Publishing, Pruning, Tickets,
        Reports, Errors, Stages, SendChord, Goto, Fail, KeepAllButDesk, remote,
        KeepOutside, trigger, ticket
  <2>3. Files' /\ Handles' /\ CaptureLifetime' /\ Directory'
    BY <1>4
    DEF PipeInv, InRun, InFlight, Publishing, Files, Handles, CaptureLifetime,
        Directory, DirectoryFirst, SendChord, Goto, Fail, KeepAllButDesk, remote,
        upload, KeepOutside, disk, ticket
  <2>. QED  BY <2>1, <2>2, <2>3 DEF PipeInv
<1>5. CASE Restore
  <2>1. TypeOK'
    <3>1. UNCHANGED <<focus, trigger, ticket, late, comp, aim, plan, remote,
          upload, history>>
      BY <1>5 DEF Restore, KeepAllButDesk, KeepOutside, history
    <3>2. pc' \in InRun /\ error' \in {"none", "local", "channel"}
      BY <1>5 DEF PipeInv, TypeOK, InRun, Restore, StepEnds, Goto, Fail
    <3>3. clip' \in {Image, Other} \cup Runs
      BY <1>5 DEF PipeInv, TypeOK, Restore
    <3>. QED  BY <3>1, <3>2, <3>3
         DEF PipeInv, TypeOK, remote, upload, history, trigger, ticket, disk
  <2>2. Tickets' /\ Reports' /\ Errors' /\ Stages'
    BY <1>5
    DEF PipeInv, InRun, InFlight, Early, Uploading, Publishing, Pruning, Tickets,
        Reports, Errors, Stages, Restore, StepEnds, Goto, KeepAllButDesk, Fail,
        remote, KeepOutside, trigger, ticket
  <2>3. Files' /\ Handles' /\ CaptureLifetime' /\ Directory'
    BY <1>5
    DEF PipeInv, InRun, InFlight, Publishing, Files, Handles, CaptureLifetime,
        Directory, DirectoryFirst, Restore, StepEnds, Goto, KeepAllButDesk, Fail,
        remote, upload, KeepOutside, disk, ticket
  <2>. QED  BY <2>1, <2>2, <2>3 DEF PipeInv
<1>. QED  BY <1>1, <1>2, <1>3, <1>4, <1>5

(* So do those of the cleanup.                                             *)
LEMMA PruneKeeps ==
  ASSUME PipeInv, OpenDir \/ ReadDir \/ CloseDir \/ Unlink
  PROVE  PipeInv'
<1>1. CASE OpenDir
  <2>1. TypeOK'
    BY <1>1
    DEF PipeInv, TypeOK, InRun, OpenDir, Exchange, Goto, KeepAllButPrune, upload,
        KeepOutside, trigger, ticket
  <2>2. Tickets' /\ Reports' /\ Errors' /\ Stages'
    BY <1>1
    DEF PipeInv, InRun, InFlight, Early, Uploading, Pruning, Tickets, Reports,
        Errors, Stages, OpenDir, Exchange, Goto, KeepAllButPrune, KeepOutside,
        trigger, ticket
  <2>3. Files' /\ Handles' /\ CaptureLifetime' /\ Directory'
    BY <1>1
    DEF PipeInv, InRun, InFlight, Pruning, Files, Handles, CaptureLifetime,
        Directory, DirectoryFirst, OpenDir, Exchange, Applied, Goto,
        KeepAllButPrune, upload, KeepOutside, ticket
  <2>. QED  BY <2>1, <2>2, <2>3 DEF PipeInv
<1>2. CASE ReadDir
  <2>1. TypeOK'
    <3>1. UNCHANGED <<trigger, handles, ticket, late, comp, aim, desktop, disk,
          upload, history>>
      BY <1>2 DEF ReadDir, KeepAllButPrune, KeepOutside, desktop, disk, history
    <3>2. pc' \in InRun /\ error' \in {"none", "local", "channel"}
      BY <1>2 DEF PipeInv, TypeOK, InRun, ReadDir, Goto
    <3>3. link' \in {"down", "up", "cut"}
      BY <1>2 DEF ReadDir, Exchange
    <3>4. plan' \subseteq Runs
      <4>1. \A p \in Plans : p \subseteq Runs
        BY DEF Plans, Listed
      <4>2. plan' \in Plans \cup {{}}
        BY <1>2 DEF ReadDir
      <4>. QED  BY <4>1, <4>2
    <3>. QED  BY <3>1, <3>2, <3>3, <3>4
         DEF PipeInv, TypeOK, desktop, disk, upload, history, trigger, ticket
  <2>2. Tickets' /\ Reports' /\ Errors' /\ Stages'
    BY <1>2
    DEF PipeInv, InRun, InFlight, Early, Uploading, Pruning, Tickets, Reports,
        Errors, Stages, ReadDir, Exchange, Goto, KeepAllButPrune, KeepOutside,
        trigger, ticket
  <2>3. Files' /\ Handles' /\ CaptureLifetime' /\ Directory'
    BY <1>2
    DEF PipeInv, InRun, InFlight, Pruning, Files, Handles, CaptureLifetime,
        Directory, DirectoryFirst, ReadDir, Exchange, Goto, KeepAllButPrune, upload,
        KeepOutside, ticket
  <2>. QED  BY <2>1, <2>2, <2>3 DEF PipeInv
<1>3. CASE CloseDir
  <2>1. TypeOK'
    <3>1. UNCHANGED <<trigger, ticket, late, comp, aim, desktop, disk, upload,
          history>>
      BY <1>3 DEF CloseDir, KeepAllButPrune, KeepOutside, desktop, disk, history
    <3>2. pc' \in InRun /\ error' \in {"none", "local", "channel"}
      BY <1>3 DEF PipeInv, TypeOK, InRun, CloseDir, Goto
    <3>3. link' \in {"down", "up", "cut"}
      BY <1>3 DEF CloseDir, Exchange
    <3>4. handles' \subseteq {"file", "dir"}
      BY <1>3 DEF PipeInv, TypeOK, CloseDir
    <3>5. plan' \subseteq Runs
      BY <1>3 DEF PipeInv, TypeOK, CloseDir
    <3>. QED  BY <3>1, <3>2, <3>3, <3>4, <3>5
         DEF PipeInv, TypeOK, desktop, disk, upload, history, trigger, ticket
  <2>2. Tickets' /\ Reports' /\ Errors' /\ Stages'
    BY <1>3
    DEF PipeInv, InRun, InFlight, Early, Uploading, Pruning, Tickets, Reports,
        Errors, Stages, CloseDir, Exchange, Goto, KeepAllButPrune, KeepOutside,
        trigger, ticket
  <2>3. Files' /\ Handles' /\ CaptureLifetime' /\ Directory'
    BY <1>3
    DEF PipeInv, InRun, InFlight, Pruning, Files, Handles, CaptureLifetime,
        Directory, DirectoryFirst, CloseDir, Exchange, Goto, KeepAllButPrune,
        upload, KeepOutside, ticket
  <2>. QED  BY <2>1, <2>2, <2>3 DEF PipeInv
<1>4. CASE Unlink
  <2>1. TypeOK'
    <3>1. UNCHANGED <<trigger, dirs, blocked, tmp, handles, ticket, late, comp, aim,
          desktop, upload, history>>
      BY <1>4 DEF Unlink, KeepAllButPrune, KeepOutside, desktop, history
    <3>2. pc' \in InRun /\ error' \in {"none", "local", "channel"}
      BY <1>4 DEF PipeInv, TypeOK, InRun, Unlink, Goto
    <3>3. link' \in {"down", "up", "cut"}
      BY <1>4 DEF Unlink, Exchange
    <3>4. final' \in [Runs -> NoFile .. Chunks]
      BY <1>4, PipelineAssumption DEF PipeInv, TypeOK, NoFile, Unlink
    <3>5. plan' \subseteq Runs
      BY <1>4 DEF PipeInv, TypeOK, Unlink
    <3>. QED  BY <3>1, <3>2, <3>3, <3>4, <3>5
         DEF PipeInv, TypeOK, desktop, upload, history, trigger, ticket
  <2>2. Tickets' /\ Reports' /\ Errors' /\ Stages'
    BY <1>4
    DEF PipeInv, InRun, InFlight, Early, Uploading, Pruning, Tickets, Reports,
        Errors, Stages, Unlink, Exchange, Goto, KeepAllButPrune, KeepOutside,
        trigger, ticket
  <2>3. Files' /\ Handles' /\ CaptureLifetime' /\ Directory'
    BY <1>4
    DEF PipeInv, InRun, InFlight, Pruning, Files, Handles, CaptureLifetime,
        Directory, DirectoryFirst, Unlink, Exchange, Goto, KeepAllButPrune, upload,
        KeepOutside, ticket
  <2>. QED  BY <2>1, <2>2, <2>3 DEF PipeInv
<1>. QED  BY <1>1, <1>2, <1>3, <1>4

(* The end of Run keeps the invariant: the flag falls with the report.      *)
LEMMA FinishKeeps ==
  ASSUME PipeInv, Finish
  PROVE  PipeInv'
<1>1. run \in Runs /\ run >= 1
  BY RunNumbered DEF Finish, InFlight, InRun
<1>2. TypeOK'
  <2>1. UNCHANGED <<desktop, trigger, ticket, late, disk, handles, sound, shown,
        pasted>>
    BY DEF Finish
  <2>2. link' \in {"down", "up", "cut"} /\ error' \in {"none", "local", "channel"}
    BY DEF Finish, PipeInv, TypeOK
  <2>3. result' \in [Runs -> {"none", "success", "error"}]
    BY <1>1 DEF Finish, PipeInv, TypeOK
  <2>4. /\ temp' = FALSE /\ bytes' = 0 /\ local' = 0 /\ offset' = 0
        /\ comp' = 1 /\ aim' = NoWindow /\ plan' = {} /\ pc' = "wait"
    BY DEF Finish, Release
  <2>5. comp' \in 1 .. Depth /\ bytes' \in {0, Chunks}
        /\ local' \in 0 .. Chunks /\ offset' \in 0 .. local'
    BY <2>4, PipelineAssumption
  <2>. QED  BY <2>1, <2>2, <2>3, <2>4, <2>5
       DEF PipeInv, TypeOK, desktop, trigger, ticket, disk
<1>3. Tickets' /\ Errors' /\ Stages'
  BY DEF Finish, PipeInv, Tickets, Errors, Stages, InFlight, InRun, Early,
         Uploading, Publishing, Pruning, trigger, ticket
<1>4. Reports'
  BY <1>1 DEF Finish, PipeInv, TypeOK, Reports, InFlight, InRun, ticket
<1>5. Files' /\ Handles' /\ CaptureLifetime' /\ Directory'
  BY DEF Finish, Release, PipeInv, Files, Handles, CaptureLifetime, Directory,
         DirectoryFirst, InRun, Early, Publishing, Pruning, ticket, disk
<1>. QED  BY <1>2, <1>3, <1>4, <1>5 DEF PipeInv

(* The worker outside Run keeps it: a press that was waited for is entered
   with the state the last run left clean.                                 *)
LEMMA WorkerKeeps ==
  ASSUME PipeInv, WakeUp \/ Connect \/ NoticeLoss \/ Retry
  PROVE  PipeInv'
<1>1. CASE WakeUp
  <2>1. /\ pc' = "capture" => run + 1 \in Runs /\ run' = run + 1
        /\ pc' # "capture" => run' = run /\ pc' \in {"connect"}
        /\ error' \in {"none", error} /\ late' \in {FALSE, late}
    <3>1. run + 1 \in Runs
      BY <1>1, PipelineAssumption DEF PipeInv, TypeOK, Tickets, Runs, WakeUp
    <3>. QED  BY <1>1, <3>1 DEF WakeUp, Enter
  <2>2. TypeOK'
    <3>1. event' \in BOOLEAN /\ served' \in Windows \cup {NoWindow}
      BY <1>1 DEF WakeUp, PipeInv, TypeOK
    <3>2. UNCHANGED <<desktop, pressing, accepted, target, remote, upload, comp, aim,
          plan, history>>
      BY <1>1 DEF WakeUp
    <3>3. run' \in 0 .. MaxPresses
      BY <2>1 DEF PipeInv, TypeOK, Runs
    <3>4. error' \in {"none", "local", "channel"} /\ late' \in BOOLEAN
      BY <2>1 DEF PipeInv, TypeOK
    <3>5. pc' \in InRun \cup {"wait", "connect", "retry"}
      BY <2>1 DEF InRun
    <3>. QED  BY <3>1, <3>2, <3>3, <3>4, <3>5
         DEF PipeInv, TypeOK, desktop, remote, disk, upload, history
  <2>3. Tickets' /\ Reports' /\ Errors' /\ Stages'
    BY <1>1
    DEF PipeInv, TypeOK, Tickets, Reports, Errors, Stages, WakeUp, Enter, InRun,
        InFlight, Early, Uploading, Publishing, Pruning, remote, history
  <2>4. Files' /\ Handles' /\ CaptureLifetime' /\ Directory'
    BY <1>1, <2>1
    DEF PipeInv, TypeOK, Files, Handles, CaptureLifetime, Directory, DirectoryFirst,
        WakeUp, InRun, InFlight, Runs, Early, Publishing, Pruning, remote, disk,
        upload, history
  <2>. QED  BY <2>2, <2>3, <2>4 DEF PipeInv
<1>2. CASE Connect
  <2>1. /\ pc' = "capture" => run + 1 \in Runs /\ run' = run + 1
        /\ pc' # "capture" => run' = run /\ pc' \in {"wait"}
        /\ error' \in {"none", error} /\ late' \in {FALSE, late}
    <3>1. pc = "connect" => run + 1 \in Runs
      BY <1>2, PipelineAssumption DEF PipeInv, TypeOK, Tickets, Runs
    <3>. QED  BY <1>2, <3>1 DEF Connect, Enter
  <2>2. TypeOK'
    <3>1. link' \in {"down", "up", "cut"} /\ handles' \subseteq {"file", "dir"}
      BY <1>2 DEF Connect, PipeInv, TypeOK
    <3>2. UNCHANGED <<desktop, trigger, disk, served, upload, comp, aim, plan, history>>
      BY <1>2 DEF Connect
    <3>3. run' \in 0 .. MaxPresses
      BY <2>1 DEF PipeInv, TypeOK, Runs
    <3>4. error' \in {"none", "local", "channel"} /\ late' \in BOOLEAN
      BY <2>1 DEF PipeInv, TypeOK
    <3>5. pc' \in InRun \cup {"wait", "connect", "retry"}
      BY <2>1 DEF InRun
    <3>. QED  BY <3>1, <3>2, <3>3, <3>4, <3>5
         DEF PipeInv, TypeOK, desktop, trigger, disk, upload, history
  <2>3. Tickets' /\ Reports' /\ Errors' /\ Stages'
    BY <1>2
    DEF PipeInv, TypeOK, Tickets, Reports, Errors, Stages, Connect, Enter, InRun,
        InFlight, Early, Uploading, Publishing, Pruning, trigger, history
  <2>4. Files'
    <3>1. UNCHANGED <<tmp, bytes>> /\ pc' \in {"capture", "wait"}
      BY <1>2, <2>1 DEF Connect, disk, upload
    <3>2. run' \in {run, run + 1} /\ run \in Int
      BY <2>1 DEF PipeInv, TypeOK
    <3>3. run' > run => tmp[run'] = NoFile
      BY <2>1, <3>2 DEF PipeInv, Files
    <3>. QED  BY <2>1, <3>1, <3>2, <3>3
         DEF PipeInv, Files, InRun, Early, Publishing, Pruning, Runs
  <2>5. Handles' /\ CaptureLifetime' /\ Directory'
    BY <1>2
    DEF PipeInv, Handles, CaptureLifetime, Directory, DirectoryFirst, Connect,
        Enter, InRun, InFlight, disk, upload, history
  <2>. QED  BY <2>2, <2>3, <2>4, <2>5 DEF PipeInv
<1>3. CASE NoticeLoss
  <2>1. TypeOK' /\ Tickets' /\ Reports' /\ Errors' /\ Stages'
    BY <1>3
    DEF PipeInv, TypeOK, Tickets, Reports, Errors, Stages, NoticeLoss, InFlight,
        InRun, desktop, trigger, disk, ticket, upload, history
  <2>2. Files' /\ Handles' /\ CaptureLifetime' /\ Directory'
    BY <1>3
    DEF PipeInv, Files, Handles, CaptureLifetime, Directory, DirectoryFirst,
        NoticeLoss, InFlight, disk, ticket, upload, history
  <2>. QED  BY <2>1, <2>2 DEF PipeInv
<1>4. CASE Retry
  <2>1. TypeOK' /\ Tickets' /\ Reports' /\ Errors' /\ Stages'
    BY <1>4
    DEF PipeInv, TypeOK, Tickets, Reports, Errors, Stages, Retry, InFlight, InRun,
        Early, Uploading, Publishing, Pruning, desktop, trigger, remote, disk,
        ticket, upload, history
  <2>2. Files' /\ Handles' /\ CaptureLifetime' /\ Directory'
    BY <1>4
    DEF PipeInv, Files, Handles, CaptureLifetime, Directory, DirectoryFirst, Retry,
        InFlight, InRun, Early, Publishing, Pruning, remote, disk, ticket, upload,
        history
  <2>. QED  BY <2>1, <2>2 DEF PipeInv
<1>. QED  BY <1>1, <1>2, <1>3, <1>4

(* What goes on around the worker keeps it, wherever the worker is.        *)
LEMMA EnvironmentKeeps ==
  ASSUME PipeInv, Environment
  PROVE  PipeInv'
<1>1. CASE SwitchWindow \/ Copy
  <2>1. focus' \in Windows /\ clip' \in {Image, Other} \cup Runs
    BY <1>1 DEF SwitchWindow, Copy, PipeInv, TypeOK
  <2>2. UNCHANGED <<trigger, remote, pc, ticket, error, late, upload, comp, aim, plan,
        history>>
    BY <1>1 DEF SwitchWindow, Copy
  <2>. QED  BY <2>1, <2>2
       DEF PipeInv, TypeOK, Tickets, Reports, Errors, Stages, Files, Handles,
           CaptureLifetime, Directory, DirectoryFirst, InFlight, trigger, remote,
           disk, ticket, upload, history
<1>2. CASE Press \/ Trigger
  <2>1. Tickets' /\ accepted' \in 0 .. MaxPresses
    BY <1>2, PipelineAssumption
    DEF Press, Trigger, PipeInv, TypeOK, Tickets, InFlight, ticket
  <2>2. /\ target' \in Windows \cup {NoWindow}
        /\ pressing' \in BOOLEAN /\ event' \in BOOLEAN
    BY <1>2 DEF Press, Trigger, PipeInv, TypeOK
  <2>3. UNCHANGED <<desktop, remote, pc, ticket, error, late, upload, comp, aim, plan,
        history>>
    BY <1>2 DEF Press, Trigger
  <2>. QED  BY <2>1, <2>2, <2>3
       DEF PipeInv, TypeOK, Reports, Errors, Stages, Files, Handles,
           CaptureLifetime, Directory, DirectoryFirst, InFlight, desktop, remote,
           disk, ticket, upload, history
<1>3. CASE ChildDies \/ Expire
  <2>1. link' = "cut" /\ late' \in BOOLEAN
    BY <1>3 DEF ChildDies, Expire, PipeInv, TypeOK
  <2>2. UNCHANGED <<desktop, trigger, disk, handles, pc, ticket, error, upload, comp,
        aim, plan, history>>
    BY <1>3 DEF ChildDies, Expire
  <2>. QED  BY <2>1, <2>2
       DEF PipeInv, TypeOK, Tickets, Reports, Errors, Stages, Files, Handles,
           CaptureLifetime, Directory, DirectoryFirst, InFlight, desktop, trigger,
           disk, ticket, upload, history
<1>4. CASE OtherCleanup
  <2>1. final' \in [Runs -> NoFile .. Chunks]
    BY <1>4, PipelineAssumption DEF OtherCleanup, PipeInv, TypeOK, NoFile
  <2>2. UNCHANGED <<desktop, trigger, link, dirs, blocked, tmp, handles, pc, ticket,
        error, late, upload, comp, aim, plan, history>>
    BY <1>4 DEF OtherCleanup
  <2>3. UNCHANGED <<focus, clip, pressing, accepted, target, event, run, served, temp,
        bytes, local, offset, sound, shown, pasted, result>>
    BY <2>2 DEF desktop, trigger, ticket, upload, history
  <2>4. TypeOK'
    BY <2>1, <2>2, <2>3 DEF PipeInv, TypeOK
  <2>5. Tickets' /\ Reports' /\ Errors' /\ Stages'
    BY <2>2, <2>3 DEF PipeInv, Tickets, Reports, Errors, Stages, InFlight
  <2>6. Files' /\ Handles' /\ CaptureLifetime' /\ Directory'
    BY <2>2, <2>3
    DEF PipeInv, Files, Handles, CaptureLifetime, Directory, DirectoryFirst,
        InFlight
  <2>. QED  BY <2>4, <2>5, <2>6 DEF PipeInv
<1>. QED  BY <1>1, <1>2, <1>3, <1>4 DEF Environment

(* Nothing of the invariant is about anything but the variables.           *)
LEMMA StutterKeeps == PipeInv /\ UNCHANGED vars => PipeInv'
BY DEF vars, desktop, trigger, remote, disk, ticket, upload, history, PipeInv,
       TypeOK, Tickets, Reports, Errors, Stages, Files, Handles, CaptureLifetime,
       Directory, DirectoryFirst, InFlight

(* The worker starts in its first handshake, with nothing done.            *)
LEMMA InitEstablishes == Init => PipeInv
<1>. SUFFICES ASSUME Init PROVE PipeInv
  OBVIOUS
<1>1. TypeOK
  <2>1. NoFile \in NoFile .. Chunks
    BY PipelineAssumption DEF NoFile
  <2>2. tmp \in [Runs -> NoFile .. Chunks] /\ final \in [Runs -> NoFile .. Chunks]
    BY <2>1 DEF Init
  <2>3. /\ accepted \in 0 .. MaxPresses /\ run \in 0 .. MaxPresses
        /\ bytes \in {0, Chunks} /\ local \in 0 .. Chunks /\ offset \in 0 .. local
        /\ comp \in 1 .. Depth
    BY PipelineAssumption DEF Init
  <2>4. result \in [Runs -> {"none", "success", "error"}]
    BY DEF Init
  <2>5. dirs \in 0 .. Depth /\ blocked \in BOOLEAN /\ (blocked => dirs < Depth)
    BY DEF Init
  <2>. QED  BY <2>2, <2>3, <2>4, <2>5 DEF Init, TypeOK
<1>2. Tickets /\ Reports /\ Errors /\ Stages
  BY PipelineAssumption
  DEF Init, Tickets, Reports, Errors, Stages, InFlight, InRun, Runs, Pruning
<1>3. Files /\ Handles /\ CaptureLifetime /\ Directory
  BY DEF Init, Files, Handles, CaptureLifetime, Directory, DirectoryFirst, InRun,
         Early, Publishing, Pruning
<1>. QED  BY <1>1, <1>2, <1>3 DEF PipeInv

(* The invariant of every behaviour, whatever the presses, the server, the
   channel and the desktop do.                                             *)
THEOREM PipelineInvariant == Spec => []PipeInv
<1>1. PipeInv /\ [Next]_vars => PipeInv'
  BY PrepareKeeps, UploadKeeps, PublishKeeps, PruneKeeps, FinishKeeps, WorkerKeeps,
      EnvironmentKeeps, StutterKeeps
  DEF Next, Run
<1>. QED  BY InitEstablishes, <1>1, PTL DEF Spec

(* What a run leaves behind, for any number of presses: the types, no handle
   and no temporary file on the server, no capture file beside the worker, and
   nothing written below remote_dir, and no path shown, unless the whole of it
   is there as directories, whatever stood in its way.                     *)
THEOREM LeavesNothingBehind ==
  Spec => [](TypeOK /\ SessionClean /\ CaptureLifetime /\ DirectoryFirst)
<1>1. PipeInv => SessionClean
  BY DEF PipeInv, Handles, Files, SessionClean
<1>2. PipeInv => TypeOK /\ CaptureLifetime /\ DirectoryFirst
  BY DEF PipeInv, Directory
<1>. QED  BY PipelineInvariant, <1>1, <1>2, PTL

(* There are never more chords than presses.                               *)
THEOREM OneChordAPress == Spec => []NoExtraPaste
<1>1. PipeInv => NoExtraPaste
  <2>. SUFFICES ASSUME PipeInv PROVE NoExtraPaste
    OBVIOUS
  <2>1. run \in Nat /\ accepted \in Nat /\ pasted \subseteq 1 .. run
    BY PipelineAssumption DEF PipeInv, TypeOK, Stages
  <2>2. IsFiniteSet(1 .. run) /\ Cardinality(1 .. run) = run
    BY <2>1, FS_Interval
  <2>3. Cardinality(pasted) \in Nat /\ Cardinality(pasted) <= run
    BY <2>1, <2>2, FS_Subset, FS_CardinalityType
  <2>. QED  BY <2>1, <2>3 DEF PipeInv, Tickets, NoExtraPaste
<1>. QED  BY PipelineInvariant, <1>1, PTL

(* In flight, it is the run's turn: all before it have reported.           *)
LEMMA RunHasTurn == PipeInv /\ InFlight => Promise!Turn(run)
BY RunNumbered DEF PipeInv, Reports, Promise!Turn, Runs

(* A step that adds nothing to the history is a stutter of Delivery.       *)
LEMMA QuietStutters == UNCHANGED history => UNCHANGED Promise!vars
BY DEF history, StageOf, Promise!vars

(* A step that moves the run in flight from one stage to the next is the
   step of Delivery that does.                                             *)
LEMMA RunAdvances ==
  ASSUME PipeInv, InFlight, NEW from, NEW to, StageOf[run] = from,
         StageOf' = [StageOf EXCEPT ![run] = to], UNCHANGED result
  PROVE  Promise!Advance(run, from, to)
BY RunHasTurn DEF Promise!Advance

(* Every step of the program is a step of Delivery or none of its business. *)
LEMMA StepRefines ==
  ASSUME PipeInv, [Next]_vars
  PROVE  [Promise!Next]_(Promise!vars)
<1>1. CASE Rename
  <2>1. /\ InFlight /\ run \in Runs /\ pc = "rename"
        /\ UNCHANGED <<shown, pasted, result>>
    BY <1>1, RunNumbered DEF Rename, InFlight, InRun, KeepAllButFile, KeepOutside
  <2>2. run \notin sound /\ shown \subseteq sound /\ pasted \subseteq shown
    BY <2>1 DEF PipeInv, Stages, Uploading
  <2>3. sound' \in {sound, sound \cup {run}}
    BY <1>1 DEF Rename
  <2>4. CASE sound' = sound
    BY <2>1, <2>4, QuietStutters DEF history
  <2>5. CASE sound' = sound \cup {run}
    <3>1. StageOf[run] = "nothing"
      BY <2>1, <2>2 DEF StageOf
    <3>2. StageOf' = [StageOf EXCEPT ![run] = "published"]
      BY <2>1, <2>2, <2>5 DEF StageOf
    <3>. QED  BY <2>1, <3>1, <3>2, RunAdvances DEF Promise!Publish, Promise!Next
  <2>. QED  BY <2>3, <2>4, <2>5
<1>2. CASE SetText
  <2>1. /\ InFlight /\ run \in Runs /\ pc = "show"
        /\ UNCHANGED <<sound, pasted, result>>
    BY <1>2, RunNumbered DEF SetText, InFlight, InRun, KeepAllButDesk, KeepOutside
  <2>2. run \in sound \ shown /\ pasted \subseteq shown
    BY <2>1 DEF PipeInv, Stages
  <2>3. shown' \in {shown, shown \cup {run}}
    BY <1>2 DEF SetText
  <2>4. CASE shown' = shown
    BY <2>1, <2>4, QuietStutters DEF history
  <2>5. CASE shown' = shown \cup {run}
    <3>1. StageOf[run] = "published"
      BY <2>1, <2>2 DEF StageOf
    <3>2. StageOf' = [StageOf EXCEPT ![run] = "shown"]
      BY <2>1, <2>2, <2>5 DEF StageOf
    <3>. QED  BY <2>1, <3>1, <3>2, RunAdvances DEF Promise!Show, Promise!Next
  <2>. QED  BY <2>3, <2>4, <2>5
<1>3. CASE SendChord
  <2>1. /\ InFlight /\ run \in Runs /\ pc = "chord"
        /\ UNCHANGED <<sound, shown, result>>
    BY <1>3, RunNumbered DEF SendChord, InFlight, InRun, KeepAllButDesk, KeepOutside
  <2>2. run \in shown \ pasted
    BY <2>1 DEF PipeInv, Stages
  <2>3. pasted' \in {pasted, pasted \cup {run}}
    BY <1>3 DEF SendChord
  <2>4. CASE pasted' = pasted
    BY <2>1, <2>4, QuietStutters DEF history
  <2>5. CASE pasted' = pasted \cup {run}
    <3>1. StageOf[run] = "shown"
      BY <2>1, <2>2 DEF StageOf
    <3>2. StageOf' = [StageOf EXCEPT ![run] = "pasted"]
      BY <2>1, <2>2, <2>5 DEF StageOf
    <3>. QED  BY <2>1, <3>1, <3>2, RunAdvances DEF Promise!Paste, Promise!Next
  <2>. QED  BY <2>3, <2>4, <2>5
<1>4. CASE Finish
  <2>. DEFINE failed  == IF error = "none" /\ late THEN "channel" ELSE error
              outcome == IF failed = "none" THEN "success" ELSE "error"
  <2>1. /\ InFlight /\ run \in Runs /\ pc = "finish"
        /\ result' = [result EXCEPT ![run] = outcome]
        /\ UNCHANGED <<sound, shown, pasted>>
    BY <1>4, RunNumbered DEF Finish, InFlight, InRun
  <2>2. outcome = "success" => StageOf[run] = "pasted"
    BY <2>1 DEF PipeInv, Stages, StageOf
  <2>3. UNCHANGED StageOf
    BY <2>1 DEF StageOf
  <2>4. outcome \in {"success", "error"}
    OBVIOUS
  <2>5. Promise!Report(run, outcome)
    BY <2>1, <2>2, <2>3, RunHasTurn DEF Promise!Report
  <2>. QED  BY <2>1, <2>4, <2>5 DEF Promise!Next
<1>5. CASE Capture \/ Realpath \/ Mkdir \/ Probe
  BY <1>5, QuietStutters
  DEF Capture, Realpath, Mkdir, Probe, KeepAllButDisk, KeepOutside, history
<1>6. CASE Open \/ Write \/ Close \/ Stat \/ Verify \/ Discard
  BY <1>6, QuietStutters
  DEF Open, Write, Close, Stat, Verify, StatIs, Discard, KeepAllButFile,
      KeepOutside, history
<1>7. CASE Aim \/ CheckFocus \/ Restore
  BY <1>7, QuietStutters
  DEF Aim, CheckFocus, Restore, KeepAllButDesk, KeepOutside, history
<1>8. CASE OpenDir \/ ReadDir \/ CloseDir \/ Unlink
  BY <1>8, QuietStutters
  DEF OpenDir, ReadDir, CloseDir, Unlink, KeepAllButPrune, KeepOutside, history
<1>9. CASE WakeUp \/ Connect \/ NoticeLoss \/ Retry \/ Environment \/ UNCHANGED vars
  BY <1>9, QuietStutters
  DEF WakeUp, Connect, NoticeLoss, Retry, Environment, SwitchWindow, Copy, Press,
      Trigger, ChildDies, Expire, OtherCleanup, vars
<1>. QED  BY <1>1, <1>2, <1>3, <1>4, <1>5, <1>6, <1>7, <1>8, <1>9 DEF Next, Run

(* The contract of upload_pipeline.hpp, for any number of presses.         *)
THEOREM PipelineImplementsDelivery == Spec => ImplementsDelivery
<1>1. Init => Promise!Init
  BY DEF Init, Promise!Init, StageOf
<1>2. PipeInv /\ [Next]_vars => [Promise!Next]_(Promise!vars)
  BY StepRefines
<1>. QED  BY PipelineInvariant, <1>1, <1>2, PTL
     DEF Spec, ImplementsDelivery, Promise!Spec

=============================================================================
