---------------------------- MODULE HookInstall -----------------------------
(***************************************************************************)
(* Install, Remove and Restore of the hook in the remote settings file     *)
(* (src/core/app/hook_install.cpp): read the original, copy it to a backup *)
(* and read the copy back, write the new document over the original and    *)
(* read it back, and put the original back when that fails.                *)
(*                                                                         *)
(* A document is what the user wrote (user), the hooks in it and whether   *)
(* its layout is still the user's (raw).  A file is a sequence of units,   *)
(* one WRITE each, so that a write that stops half way leaves a file that  *)
(* is no document; a missing file and a blank one read alike here, as they *)
(* do in the code, and are the empty sequence.                             *)
(***************************************************************************)
EXTENDS SftpClient, FiniteSetsExt

CONSTANTS
  Hole,      (* a unit that was acknowledged and not stored                *)
  Cap,       (* kMaxSettingsBytes, in units                                *)
  MaxOps,    (* bound: operations                                          *)
  MaxEdits   (* bound: edits by the user between operations                *)

VARIABLES
  settings,  (* the settings file                                          *)
  backups,   (* its siblings, in the order of their time stamps            *)
  authored,  (* history: the last text the user wrote, while it is owed    *)
  edits,     (* edits so far                                               *)
  ops,       (* operations so far                                          *)
  op,        (* the operation under way, its data and where it is          *)
  outcome    (* history: what the last operation said, until the next step
                that may change the file                                   *)

hookVars == <<settings, backups, authored, edits, ops, op, outcome>>

-----------------------------------------------------------------------------
(* Documents.  "strange" is an object whose hooks have another shape, and
   "torn" is not a JSON object.                                            *)
Users == {"one", "two", "nobody", "strange", "torn"}
Docs == [user : Users, hooks : SUBSET {"theirs", "ours"}, raw : BOOLEAN]
Doc(user, hooks, raw) == [user |-> user, hooks |-> hooks, raw |-> raw]

Unit(d, i) == [doc |-> d, part |-> i]
Units(d) == 1 + Cardinality(d.hooks)
AllUnits == [doc : Docs, part : Nat]

ASSUME HookInstallAssumption ==
  {Cap, MaxOps, MaxEdits} \subseteq Nat /\ Hole \notin AllUnits

Text(d) == [i \in 1 .. Units(d) |-> Unit(d, i)]

(* The document a text holds (ParseRoot): none when it is not all there.   *)
IsText(file) ==
  /\ file # <<>> /\ file[1] # Hole
  /\ file = Text(file[1].doc)

IsObject(file) == IsText(file) /\ file[1].doc.user # "torn"
DocOf(file) == file[1].doc

(* What a user may have written.                                           *)
UserDocs == {Doc("one", h, TRUE) : h \in SUBSET {"theirs", "ours"}}
              \cup {Doc(u, {}, TRUE) : u \in {"strange", "torn"}}

-----------------------------------------------------------------------------
(* The new document: [ok, changed, text].                                  *)
Refuse     == [ok |-> FALSE, changed |-> FALSE, text |-> <<>>]
KeepAsIs   == [ok |-> TRUE,  changed |-> FALSE, text |-> <<>>]
WriteOut(d) == [ok |-> TRUE, changed |-> TRUE, text |-> Text([d EXCEPT !.raw = FALSE])]

BuildInstall(file) ==
  IF file = <<>> THEN WriteOut(Doc("nobody", {"ours"}, FALSE))
  ELSE IF ~IsObject(file) \/ DocOf(file).user = "strange" THEN Refuse
  ELSE IF "ours" \in DocOf(file).hooks THEN KeepAsIs
  ELSE WriteOut([DocOf(file) EXCEPT !.hooks = @ \cup {"ours"}])

BuildRemove(file) ==
  IF file = <<>> THEN KeepAsIs
  ELSE IF ~IsObject(file) \/ DocOf(file).user = "strange" THEN Refuse
  ELSE IF "ours" \notin DocOf(file).hooks THEN KeepAsIs
  ELSE WriteOut([DocOf(file) EXCEPT !.hooks = @ \ {"ours"}])

(* A plausible bug, for the check of SettingsRecoverable: a full buffer ends
   the reading.                                                            *)
Mut_StopsWhenFull(file, stop) ==
  [ok |-> TRUE, text |-> SubSeq(file, 1, Min({Cap, stop}))]

(* ReadFile into a buffer of Cap: chunk by chunk, and once the buffer is
   full one more request, to tell a full buffer from a larger file.  No data
   is the end, wherever the server stops giving any.  [ok, text]           *)
ReadFile(file, stop) ==
  LET Ask(size) == IF size = Cap THEN 1 ELSE Min({Cap - size, 1})
      Data(size) == Min({Ask(size), stop - size})
      from[size \in 0 .. Cap] ==
        IF Data(size) = 0 THEN [ok |-> TRUE, text |-> SubSeq(file, 1, size)]
        ELSE IF Data(size) > Cap - size THEN [ok |-> FALSE, text |-> <<>>]
        ELSE from[size + Data(size)]
  IN from[0]

-----------------------------------------------------------------------------
(* err: a WRITE of this stage failed.  cause: the error of the stage that
   failed.  whole: what was read as the original is all of it (history).   *)
Idle == [kind |-> "none", stage |-> "idle", pos |-> 0, err |-> FALSE, cause |-> "error",
         before |-> <<>>, orig |-> <<>>, text |-> <<>>, from |-> 0, keep |-> FALSE,
         whole |-> TRUE]

Silent == [said |-> "nothing", kind |-> "none", before |-> <<>>, wanted |-> <<>>,
           whole |-> TRUE]

HookInit ==
  /\ settings \in {<<>>} \cup {Text(d) : d \in UserDocs}
  /\ authored = settings
  /\ backups = <<>> /\ edits = 0 /\ ops = 0
  /\ op = Idle /\ outcome = Silent

(* The report of an operation: "writeFailed" is kWriteFailed, "error" any
   other.  What the file was (before) is history.                          *)
Say(what) ==
  /\ op' = Idle
  /\ outcome' = [said |-> what, kind |-> op.kind, before |-> op.before, wanted |-> op.text,
                 whole |-> op.whole]

(* A plausible bug, for the check of TypeOK: a write goes on where the last
   one stopped.                                                            *)
Mut_PosKept(stage) == op' = [op EXCEPT !.stage = stage, !.err = FALSE] /\ UNCHANGED outcome

Goto(stage) == op' = [op EXCEPT !.stage = stage, !.pos = 0, !.err = FALSE]
                 /\ UNCHANGED outcome

(* Install, Remove or Restore is called.  The path given to Restore may name
   no backup.                                                              *)
Begin(kind) ==
  /\ op.kind = "none" /\ ops < MaxOps
  /\ ops' = ops + 1 /\ outcome' = Silent
  /\ \E n \in IF kind = "restore" THEN 0 .. Len(backups) ELSE {0} :
       op' = [Idle EXCEPT !.kind = kind, !.from = n, !.before = settings,
                !.stage = IF kind = "restore" THEN "readBackup" ELSE "readOriginal"]
  /\ UNCHANGED <<settings, backups, authored, edits, up, inStep, faults>>

(* A whole ReadFile is one step here: OPEN, the READs and CLOSE change
   nothing on the server, and any one of them failing fails the reading.  A
   READ answered with no data ends it wherever it comes, and well.         *)
ReadResults(file, end) ==
  CASE end = Done    -> {ReadFile(file, Len(file))}
    [] end = Starved -> {ReadFile(file, n) : n \in 0 .. Len(file) - 1}
    [] OTHER         -> {[ok |-> FALSE, text |-> <<>>]}

(* Restore reads the backup and refuses one that is no JSON object.        *)
ReadBackup(end) ==
  /\ op.stage = "readBackup"
  /\ Exchange(end)
  /\ \E got \in ReadResults(IF op.from = 0 THEN <<>> ELSE backups[op.from], end) :
       IF got.ok /\ IsObject(got.text)
       THEN op' = [op EXCEPT !.stage = "readOriginal", !.text = got.text]
              /\ UNCHANGED outcome
       ELSE Say("error")
  /\ UNCHANGED <<settings, backups, authored, edits, ops>>

(* The new document of the operation, from the original.                   *)
Build(file) ==
  CASE op.kind = "install" -> BuildInstall(file)
    [] op.kind = "remove"  -> BuildRemove(file)
    [] OTHER               -> [ok |-> TRUE, changed |-> TRUE, text |-> op.text]

(* Reads the original and goes on: to the backup when there is something to
   preserve (BackupThenWrite), to the report when there is nothing to do.  Once
   it goes on from a part of the file the rest is owed to nobody.          *)
ReadOriginal(end) ==
  /\ op.stage = "readOriginal"
  /\ Exchange(end)
  /\ \E got \in ReadResults(settings, end) :
       LET built == Build(got.text)
       IN CASE ~got.ok \/ ~built.ok -> Say("error") /\ UNCHANGED authored
            [] got.ok /\ built.ok /\ ~built.changed -> Say("unchanged") /\ UNCHANGED authored
            [] OTHER ->
                 /\ op' = [op EXCEPT !.orig = got.text, !.text = built.text,
                             !.keep = got.text # <<>>, !.whole = end # Starved,
                             !.stage = IF got.text # <<>> THEN "backup" ELSE "write"]
                 /\ authored' = IF end = Starved THEN <<>> ELSE authored
                 /\ UNCHANGED outcome
  /\ UNCHANGED <<settings, backups, edits, ops>>

-----------------------------------------------------------------------------
(* WriteFile: OPEN with CREAT and TRUNC, a WRITE per unit, CLOSE.          *)
Writing == {"backup", "write", "rollback"}
Payload == IF op.stage = "write" THEN op.text ELSE op.orig

(* The file being written takes the value.                                 *)
Target == IF op.stage = "backup" THEN backups[Len(backups)] ELSE settings
SetTarget(file) ==
  IF op.stage = "backup"
  THEN backups' = [backups EXCEPT ![Len(backups)] = file] /\ UNCHANGED settings
  ELSE settings' = file /\ UNCHANGED backups

(* A plausible bug, for the check of OutcomeIsTrue: no roll-back.          *)
Mut_NoRollback(cause) ==
  IF op.stage \in {"rollback", "verifyRollback"} THEN Say("writeFailed") ELSE Say(cause)

(* A stage that failed, with its error: the backup ends the operation with
   the original untouched, a write is rolled back when there is a backup, and
   a roll-back that fails is reported as such (WriteVerified).             *)
Failed(cause) ==
  CASE op.stage \in {"backup", "verifyBackup"} -> Say("error")
    [] op.stage \in {"write", "verify"} /\ op.keep ->
         /\ op' = [op EXCEPT !.stage = "rollback", !.pos = 0, !.err = FALSE, !.cause = cause]
         /\ UNCHANGED outcome
    [] op.stage \in {"write", "verify"} /\ ~op.keep -> Say(cause)
    [] OTHER -> Say("writeFailed")

(* The error of a WRITE: kWriteFailed, unless it could not even be sent.   *)
WriteError(end) == {"writeFailed"} \cup (IF end = CutBefore THEN {"error"} ELSE {})

(* The error of an OPEN.  One refused because a directory is missing goes on
   with an empty handle, and it is the WRITE with it that is refused.      *)
OpenError(end) == {"error"} \cup (IF end = Refused THEN {"writeFailed"} ELSE {})

(* A plausible bug, for the check of SettingsRecoverable: the copy is not
   read back.                                                              *)
Mut_BackupTrusted(stage) ==
  CASE stage = "backup"   -> "write"
    [] stage = "write"    -> "verify"
    [] stage = "rollback" -> "verifyRollback"

After(stage) ==
  CASE stage = "backup"       -> "verifyBackup"
    [] stage = "verifyBackup" -> "write"
    [] stage = "write"        -> "verify"
    [] stage = "rollback"     -> "verifyRollback"

WriteOpen(end) ==
  /\ op.stage \in Writing /\ op.pos = 0
  /\ Exchange(end)
  /\ IF ~end.acts THEN UNCHANGED <<settings, backups>>
     ELSE IF op.stage = "backup" THEN backups' = Append(backups, <<>>) /\ UNCHANGED settings
     ELSE settings' = <<>> /\ UNCHANGED backups
  /\ IF end = Done
     THEN op' = [op EXCEPT !.pos = 1] /\ UNCHANGED outcome
     ELSE \E cause \in OpenError(end) : Failed(cause)
  /\ UNCHANGED <<authored, edits, ops>>

(* SendWriteChunk.  After a failure only the CLOSE is left.                *)
WriteChunk(end) ==
  /\ op.stage \in Writing /\ op.pos \in 1 .. Len(Payload) /\ ~op.err
  /\ Exchange(end)
  /\ IF end.acts
     THEN SetTarget([i \in 1 .. Max({Len(Target), op.pos}) |->
                       IF i = op.pos THEN Payload[i]
                       ELSE IF i <= Len(Target) THEN Target[i] ELSE Hole])
     ELSE UNCHANGED <<settings, backups>>
  /\ IF end.reply = "ok"
     THEN op' = [op EXCEPT !.pos = @ + 1]
     ELSE \E cause \in WriteError(end) : op' = [op EXCEPT !.err = TRUE, !.cause = cause]
  /\ UNCHANGED <<authored, edits, ops, outcome>>

WriteClose(end) ==
  /\ op.stage \in Writing /\ op.pos > 0 /\ (op.err \/ op.pos > Len(Payload))
  /\ Exchange(end)
  /\ IF end = Done /\ ~op.err THEN Goto(After(op.stage)) ELSE Failed(op.cause)
  /\ UNCHANGED <<settings, backups, authored, edits, ops>>

(* VerifyBytes: the file is read back and compared with what was written.  *)
Verify(end) ==
  /\ op.stage \in {"verifyBackup", "verify", "verifyRollback"}
  /\ Exchange(end)
  /\ LET file == IF op.stage = "verifyBackup" THEN backups[Len(backups)] ELSE settings
         expected == IF op.stage = "verify" THEN op.text ELSE op.orig
     IN \E got \in ReadResults(file, end) :
          IF got # [ok |-> TRUE, text |-> expected] THEN Failed("error")
          ELSE CASE op.stage = "verifyBackup" -> Goto(After("verifyBackup"))
                 [] op.stage = "verify" -> Say("changed")
                 [] OTHER -> Say(op.cause)
  /\ UNCHANGED <<settings, backups, authored, edits, ops>>
-----------------------------------------------------------------------------
(* The program ends, or its machine does, between two requests.            *)
Crash ==
  /\ op.kind # "none"
  /\ op' = Idle /\ UNCHANGED outcome
  /\ up' = FALSE /\ UNCHANGED <<inStep, faults>>
  /\ UNCHANGED <<settings, backups, authored, edits, ops>>

(* A new channel, between operations.                                      *)
Reconnect ==
  /\ op.kind = "none" /\ ~(up /\ inStep) /\ ops < MaxOps
  /\ Connect /\ UNCHANGED hookVars

(* The user writes the file, between operations: an edit during one is lost
   with no trace, and nothing in the code or its contract speaks of it.    *)
Edit ==
  /\ op.kind = "none" /\ edits < MaxEdits
  /\ \E h \in SUBSET {"theirs", "ours"} :
       settings' = Text(Doc("two", h, TRUE)) /\ authored' = settings'
  /\ edits' = edits + 1 /\ outcome' = Silent
  /\ UNCHANGED <<backups, ops, op, up, inStep, faults>>

HookStep ==
  \/ \E kind \in {"install", "remove", "restore"} : Begin(kind)
  \/ \E end \in Ends({Starved}) : ReadBackup(end)
  \/ \E end \in Ends({Starved}) : ReadOriginal(end)
  \/ \E end \in Ends({}) : WriteOpen(end)
  \/ \E end \in Ends({Hollow}) : WriteChunk(end)
  \/ \E end \in Ends({}) : WriteClose(end)
  \/ \E end \in Ends({Starved}) : Verify(end)
  \/ Crash
  \/ Reconnect
  \/ Edit
-----------------------------------------------------------------------------
HookTypeOK ==
  /\ op.kind \in {"none", "install", "remove", "restore"}
  /\ op.stage = "idle" <=> op.kind = "none"
  /\ op.keep => op.orig # <<>>
  /\ op.cause \in {"error", "writeFailed"} /\ (op.whole \/ authored = <<>>)
  /\ op.stage \in {"backup", "verifyBackup", "rollback", "verifyRollback"} => op.keep
  /\ op.stage \in Writing => op.pos \in 0 .. Len(Payload) + 1
  /\ op.pos > 0 => op.stage \in Writing
  /\ Len(backups) <= ops

(* The text the user wrote last is on the server at every moment, to the
   byte: in the settings file or in a backup.  A crash or a lost connection
   between any two requests, a write that is not stored and a roll-back that
   fails leave it there (hook_install.hpp: the safety contract).  It holds of a
   server whose READs give data up to the end of the file: ReadFile takes no
   data for the end, so an operation that goes on from such a reading writes
   over a file it has copied in part or, read as blank, not at all, and from
   then on nothing is asked for the text that was there.                   *)
SettingsRecoverable ==
  authored # <<>> =>
    authored \in {settings} \cup {backups[n] : n \in 1 .. Len(backups)}

(* What an operation reports is true of the file: "changed" means that the
   hook is there, or gone, or the backup back, and that nothing else of the
   document is different; "unchanged" and an error other than kWriteFailed mean
   the file as it was, to the byte, unless a write over a blank file failed;
   kWriteFailed, that what it held is there or in a backup.  It does not tell
   the two apart, as a comment on WriteVerified has it do: it is the error of a
   refused WRITE too, and said after a roll-back that succeeded.  A reading that
   the server ended early, as above, leaves only "unchanged" and a Restore's
   "changed" to be relied on.                                              *)
OutcomeIsTrue ==
  LET Same(d, e) == d.user = e.user /\ d.hooks \ {"ours"} = e.hooks \ {"ours"}
      Was == IF outcome.before = <<>> THEN Doc("nobody", {}, FALSE) ELSE DocOf(outcome.before)
  IN /\ outcome.said = "unchanged" => settings = outcome.before
     /\ outcome.said = "error" /\ outcome.before # <<>> /\ outcome.whole =>
          settings = outcome.before
     /\ outcome.said = "writeFailed" /\ outcome.before # <<>> /\ outcome.whole =>
          outcome.before \in {settings} \cup {backups[n] : n \in 1 .. Len(backups)}
     /\ outcome.said = "changed" /\ outcome.kind = "restore" => settings = outcome.wanted
     /\ outcome.said = "changed" /\ outcome.kind # "restore" /\ outcome.whole =>
          /\ IsText(settings) /\ Same(DocOf(settings), Was)
          /\ ("ours" \in DocOf(settings).hooks) = (outcome.kind = "install")
=============================================================================
