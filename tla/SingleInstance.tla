--------------------------- MODULE SingleInstance ---------------------------
(***************************************************************************)
(* One picopaste per session (src/platform/win32/single_instance.cpp): the *)
(* named mutex whose existence is the claim, the section that says whose   *)
(* it is, and the memory job.                                              *)
(*                                                                         *)
(* The processes meet only in the kernel's objects, one system call or one *)
(* store per step.  A named object lives while any process has a handle to *)
(* it: an attempt that finds the mutex holds, until it closes it, a handle *)
(* that keeps it alive.                                                    *)
(***************************************************************************)
EXTENDS Integers, FiniteSets

CONSTANTS
  Launches,       (* bound: how many processes are ever launched           *)
  None,           (* no process                                            *)
  MaxPolls,       (* kAwaitInstanceMaxMs / kAwaitInstancePollMs            *)
  OwnerAttempts   (* kOwnerReadyAttempts                                   *)

ASSUME SingleInstanceAssumption ==
  /\ Launches \in Nat /\ None \notin 1 .. Launches
  /\ MaxPolls \in Nat \ {0} /\ OwnerAttempts \in Nat \ {0}

(* The processes, by the order of their launch.                            *)
Procs == 1 .. Launches

VARIABLES
  (* the kernel's objects *)
  mutex,     (* processes with a handle to kSingleInstanceMutexName        *)
  section,   (* processes with a handle to kSingleInstanceOwnerName        *)
  owner,     (* the record in it                                           *)
  (* each process *)
  at,        (* where it is                                                *)
  awaiting,  (* kAwaitInstanceEnvName is in its environment                *)
  waits,     (* polls so far, then reads of the record so far              *)
  report,    (* the owner it read                                          *)
  overtaken, (* history: the record was rewritten under its read           *)
  job        (* whose memory job it belongs to                             *)

instanceVars ==
  <<mutex, section, owner, at, awaiting, waits, report, overtaken, job>>

Blank  == [ready |-> FALSE, pid |-> None, image |-> None]
NoOne  == [pid |-> None, image |-> None]

Go(p, pc) == at' = [at EXCEPT ![p] = pc]

InstanceInit ==
  /\ mutex = {} /\ section = {} /\ owner = Blank
  /\ at = [p \in Procs |-> "off"]
  /\ awaiting = [p \in Procs |-> FALSE]
  /\ waits = [p \in Procs |-> 0]
  /\ report = [p \in Procs |-> NoOne]
  /\ overtaken = {}
  /\ job = [p \in Procs |-> None]

(* The last handle to the section takes its contents along.                *)
DropSection(ps) ==
  /\ section' = section \ ps
  /\ owner' = IF section' = {} THEN Blank ELSE owner

-----------------------------------------------------------------------------
(* Acquire.                                                                *)

(* CreateMutexW, which opens the object when it exists.                    *)
TryCreate(p) ==
  /\ at[p] = "create"
  /\ \/ mutex = {} /\ Go(p, "record") /\ mutex' = {p}
     \/ mutex # {} /\ Go(p, "opened") /\ mutex' = mutex \cup {p}
     \/ Go(p, "failed") /\ UNCHANGED mutex
  /\ UNCHANGED <<section, owner, awaiting, waits, report, overtaken, job>>

(* A plausible bug, for the check of RestartCompletes: the attempt's handle
   is left open.                                                           *)
Mut_HandleKept(p) ==
  /\ at[p] = "opened"
  /\ IF awaiting[p] /\ waits[p] < MaxPolls
       THEN Go(p, "sleep") /\ UNCHANGED waits
       ELSE Go(p, "look") /\ waits' = [waits EXCEPT ![p] = 0]
  /\ UNCHANGED <<mutex, section, owner, awaiting, report, overtaken, job>>

(* ERROR_ALREADY_EXISTS: the handle is closed before anything else.        *)
BackOff(p) ==
  /\ at[p] = "opened"
  /\ mutex' = mutex \ {p}
  /\ IF awaiting[p] /\ waits[p] < MaxPolls
       THEN Go(p, "sleep") /\ UNCHANGED waits
       ELSE Go(p, "look") /\ waits' = [waits EXCEPT ![p] = 0]
  /\ UNCHANGED <<section, owner, awaiting, report, overtaken, job>>

(* Sleep(kAwaitInstancePollMs).                                            *)
Poll(p) ==
  /\ at[p] = "sleep"
  /\ Go(p, "create") /\ waits' = [waits EXCEPT ![p] = @ + 1]
  /\ UNCHANGED <<mutex, section, owner, awaiting, report, overtaken, job>>

(* ReadOwner: the section is opened and its marker read.                   *)
Look(p) ==
  /\ at[p] = "look"
  /\ \/ /\ section # {} /\ owner.ready
        /\ section' = section \cup {p} /\ Go(p, "readPid") /\ UNCHANGED waits
     \/ /\ section = {} \/ ~owner.ready
        /\ waits' = [waits EXCEPT ![p] = @ + 1]
        /\ Go(p, IF waits[p] + 1 < OwnerAttempts THEN "look" ELSE "refused")
        /\ UNCHANGED section
  /\ UNCHANGED <<mutex, owner, awaiting, report, overtaken, job>>

ReadPid(p) ==
  /\ at[p] = "readPid"
  /\ report' = [report EXCEPT ![p].pid = owner.pid]
  /\ Go(p, "readImage")
  /\ UNCHANGED <<mutex, section, owner, awaiting, waits, overtaken, job>>

ReadImage(p) ==
  /\ at[p] = "readImage"
  /\ report' = [report EXCEPT ![p].image = owner.image]
  /\ DropSection({p}) /\ Go(p, "refused")
  /\ UNCHANGED <<mutex, awaiting, waits, overtaken, job>>

-----------------------------------------------------------------------------
(* WriteOwner.  A section that cannot be had leaves the owner unnamed.     *)

OpenRecord(p) ==
  /\ at[p] = "record"
  /\ \/ section' = section \cup {p} /\ Go(p, "pid")
     \/ UNCHANGED section /\ Go(p, "acquired")
  /\ UNCHANGED <<mutex, owner, awaiting, waits, report, overtaken, job>>

(* A plausible bug, for the check of OwnerReportTrue: published too early.  *)
Mut_PublishedEarly(p) ==
  /\ at[p] = "pid"
  /\ owner' = [owner EXCEPT !.ready = TRUE, !.pid = p] /\ Go(p, "image")
  /\ overtaken' = overtaken \cup {q \in Procs : at[q] \in {"readPid", "readImage"}}
  /\ UNCHANGED <<mutex, section, awaiting, waits, report, job>>

(* The marker is reset before the record is touched.                       *)
Rewrite(p) ==
  /\ at[p] = "pid"
  /\ owner' = [owner EXCEPT !.ready = FALSE, !.pid = p] /\ Go(p, "image")
  /\ overtaken' = overtaken \cup {q \in Procs : at[q] \in {"readPid", "readImage"}}
  /\ UNCHANGED <<mutex, section, awaiting, waits, report, job>>

Publish(p) ==
  /\ \/ at[p] = "image" /\ owner' = [owner EXCEPT !.image = p] /\ Go(p, "publish")
     \/ at[p] = "publish" /\ owner' = [owner EXCEPT !.ready = TRUE] /\ Go(p, "acquired")
  /\ UNCHANGED <<mutex, section, awaiting, waits, report, overtaken, job>>

-----------------------------------------------------------------------------
(* SetupJobObjects: a process that is in a job cannot join another one.    *)
JoinJobs(p) ==
  /\ at[p] = "acquired"
  /\ \/ job[p] = None /\ job' = [job EXCEPT ![p] = p] /\ Go(p, "ready")
     \/ Go(p, "closeRecord") /\ UNCHANGED job
  /\ UNCHANGED <<mutex, section, owner, awaiting, waits, report, overtaken>>

(* Close: the record, then the jobs, and the mutex last.                   *)
CloseRecord(p) ==
  /\ at[p] = "closeRecord"
  /\ DropSection({p}) /\ Go(p, "closeMutex")
  /\ UNCHANGED <<mutex, awaiting, waits, report, overtaken, job>>

CloseMutex(p, next) ==
  /\ at[p] = "closeMutex"
  /\ mutex' = mutex \ {p} /\ Go(p, next)
  /\ UNCHANGED <<section, owner, awaiting, waits, report, overtaken, job>>

(* The end of a process: the kernel closes what it still held.             *)
Vanish(p, how) ==
  /\ mutex' = mutex \ {p} /\ DropSection({p}) /\ Go(p, how)
  /\ awaiting' = [awaiting EXCEPT ![p] = FALSE]
  /\ waits' = [waits EXCEPT ![p] = 0]
  /\ report' = [report EXCEPT ![p] = NoOne]
  /\ overtaken' = overtaken \ {p} /\ job' = [job EXCEPT ![p] = None]

InstanceStep(p) ==
  \/ TryCreate(p) \/ BackOff(p)
  \/ Look(p) \/ ReadPid(p) \/ ReadImage(p)
  \/ OpenRecord(p) \/ Rewrite(p) \/ Publish(p) \/ CloseRecord(p)
=============================================================================
