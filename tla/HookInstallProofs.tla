-------------------------- MODULE HookInstallProofs --------------------------
(***************************************************************************)
(* The hook installer's safety contract, for every capacity of its buffer  *)
(* and every number of operations, edits and faults: the user's text is on *)
(* the server at every moment, and what an operation reports is true.      *)
(*                                                                         *)
(* The invariant says, for each stage of an operation, what the stages     *)
(* before it have established about the file and its copy; every request   *)
(* may be the last one that is served.                                     *)
(***************************************************************************)
EXTENDS Remote, SequenceTheorems, FiniteSetTheorems, WellFoundedInduction, TLAPS

Files == Seq(AllUnits \cup {Hole})

(* An operation has read the original, but has not touched it.             *)
Preserving == {"backup", "verifyBackup"}
Untouched  == {"readBackup", "readOriginal"} \cup Preserving
Replacing  == {"write", "verify"}
Reverting  == {"rollback", "verifyRollback"}

Kinds  == {"none", "install", "remove", "restore"}
Stages == {"idle"} \cup Untouched \cup Replacing \cup Reverting

OpTypes ==
  [kind : Kinds, stage : Stages, pos : Nat, err : BOOLEAN, cause : {"error", "writeFailed"},
   before : Files, orig : Files, text : Files, from : Nat, keep : BOOLEAN, whole : BOOLEAN]

(* The files are files, whatever was interrupted, and so is what is read.  *)
FileTypes ==
  /\ settings \in Files /\ authored \in Files /\ backups \in Seq(Files)
  /\ ops \in Nat
  /\ op \in OpTypes

(* How far an operation is.                                                *)
Progress ==
  /\ op.stage = "idle" <=> op.kind = "none"
  /\ op.stage = "readBackup" => op.kind = "restore" /\ op.from <= Len(backups)
  /\ op.stage \in Preserving \cup Reverting => op.keep
  /\ op.stage \in Writing => op.pos <= Len(Payload) + 1
  /\ op.pos > 0 => op.stage \in Writing
  /\ op.stage = "verifyBackup" \/ (op.stage = "backup" /\ op.pos > 0) => Len(backups) > 0

(* An operation adds one backup at most.                                   *)
BackupsCounted ==
  Len(backups) + (IF op.stage \in {"readBackup", "readOriginal"}
                     \/ (op.stage = "backup" /\ op.pos = 0) THEN 1 ELSE 0) <= ops

(* What the operation found and has kept.  Once it went on from a part of the
   file nothing is owed.                                                   *)
Found ==
  /\ op.stage \in Untouched => settings = op.before
  /\ op.keep => op.orig # <<>>
  /\ op.keep /\ op.whole => op.orig = op.before
  /\ op.stage \in Replacing /\ ~op.keep => op.before = <<>> \/ ~op.whole
  /\ ~op.whole => authored = <<>> /\ op.kind # "none"

(* The file being written is no longer than what is to be in it, so it cannot
   read back as that and go on.                                            *)
Bounded ==
  /\ op.stage = "verifyBackup" \/ (op.stage = "backup" /\ op.pos > 0) =>
       Len(backups[Len(backups)]) <= Len(op.orig)
  /\ op.stage = "verify" \/ (op.stage = "write" /\ op.pos > 0) =>
       Len(settings) <= Len(op.text)
  /\ op.stage = "verifyRollback" \/ (op.stage = "rollback" /\ op.pos > 0) =>
       Len(settings) <= Len(op.orig)

(* The backup under way is the last one.                                   *)
Older == IF op.stage = "verifyBackup" \/ (op.stage = "backup" /\ op.pos > 0)
         THEN Len(backups) - 1 ELSE Len(backups)

(* Before the original is touched the text is in it, or in a backup that is
   not under way; from then on it is in a backup, and so is what the operation
   found.                                                                  *)
Backed(n) == authored = <<>> \/ \E i \in 1 .. n : backups[i] = authored
Kept == op.before = <<>> \/ ~op.whole \/ \E i \in 1 .. Len(backups) : backups[i] = op.before
Preserved ==
  /\ authored = settings \/ Backed(Older)
  /\ op.stage \in Replacing \cup Reverting => Backed(Len(backups)) /\ Kept

(* What Install and Remove make of a file: a document that differs in the
   hook alone.                                                             *)
Same(d, e) == d.user = e.user /\ d.hooks \ {"ours"} = e.hooks \ {"ours"}
WasIn(file) == IF file = <<>> THEN Doc("nobody", {}, FALSE) ELSE DocOf(file)
Makes(kind, file, text) ==
  /\ IsText(text) /\ Same(DocOf(text), WasIn(file))
  /\ ("ours" \in DocOf(text).hooks) = (kind = "install")

Intended ==
  /\ op.kind \in {"install", "remove"} /\ op.stage \in Preserving \cup Replacing /\ op.whole =>
       Makes(op.kind, op.before, op.text)

(* The last report still holds, and there is none while an operation runs. *)
Reported == op.kind # "none" => outcome = Silent

HookInv ==
  /\ FileTypes /\ Progress /\ BackupsCounted /\ Found /\ Bounded /\ Preserved /\ Intended
  /\ Reported /\ OutcomeIsTrue

-----------------------------------------------------------------------------
(* Reading a file and the documents in it.                                 *)

LEMMA MinOfTwo ==
  ASSUME NEW a \in Int, NEW b \in Int
  PROVE  Min({a, b}) = IF a <= b THEN a ELSE b
BY DEF Min

LEMMA MaxOfTwo ==
  ASSUME NEW a \in Int, NEW b \in Int
  PROVE  Max({a, b}) = IF a >= b THEN a ELSE b
BY DEF Max

(* Every nonempty set of natural numbers has a least element.              *)
LEMMA LeastNatural ==
  ASSUME NEW T \in SUBSET Nat, T # {}
  PROVE  \E m \in T : \A k \in T : m <= k
<1> DEFINE R == OpToRel(<, Nat)
<1>1. IsWellFoundedOn(R, Nat)
  BY NatLessThanWellFounded
<1>2. \A x, y \in Nat : x < y => <<x, y>> \in R
  BY DEF OpToRel
<1> HIDE DEF R
<1>3. PICK m \in T : \A y \in T : ~(<<y, m>> \in R)
  BY <1>1, WFMin, Zenon
<1>4. \A k \in T : ~(k < m)
  BY <1>2, <1>3, Zenon
<1>5. \A k \in T : m <= k
  BY <1>4
<1> QED BY <1>5

(* All that the server gives, or a refusal when the buffer is too small for
   it: what one more request after a full buffer is for.                   *)
LEMMA ReadFileTakesAll ==
  ASSUME NEW file \in Files, NEW stop \in Nat
  PROVE  ReadFile(file, stop) = IF stop <= Cap
                                THEN [ok |-> TRUE, text |-> SubSeq(file, 1, stop)]
                                ELSE [ok |-> FALSE, text |-> <<>>]
<1> DEFINE Ask(size) == IF size = Cap THEN 1 ELSE Min({Cap - size, 1})
           Data(size) == Min({Ask(size), stop - size})
           from[size \in 0 .. Cap] ==
             IF Data(size) = 0 THEN [ok |-> TRUE, text |-> SubSeq(file, 1, size)]
             ELSE IF Data(size) > Cap - size THEN [ok |-> FALSE, text |-> <<>>]
             ELSE from[size + Data(size)]
           whole == IF stop <= Cap THEN [ok |-> TRUE, text |-> SubSeq(file, 1, stop)]
                                        ELSE [ok |-> FALSE, text |-> <<>>]
<1>1. ReadFile(file, stop) = from[0]
  BY DEF ReadFile
<1> DEFINE Step(f, size) ==
             IF Data(size) = 0 THEN [ok |-> TRUE, text |-> SubSeq(file, 1, size)]
             ELSE IF Data(size) > Cap - size THEN [ok |-> FALSE, text |-> <<>>]
             ELSE f[size + Data(size)]
<1>2. stop \in Nat /\ Cap \in Nat
  BY HookInstallAssumption
<1>3. ASSUME NEW f, NEW size \in 0 .. Cap
      PROVE  Step(f, size) = IF size = stop THEN [ok |-> TRUE, text |-> SubSeq(file, 1, stop)]
                             ELSE IF size = Cap /\ size < stop
                             THEN [ok |-> FALSE, text |-> <<>>]
                             ELSE f[IF size < stop THEN size + 1 ELSE stop]
  <2> DEFINE d == Data(size)
  <2>1. d = IF size < stop THEN 1 ELSE stop - size
    <3>1. Ask(size) = 1
      BY <1>2, MinOfTwo
    <3> QED BY <1>2, <3>1, MinOfTwo
  <2>2. Step(f, size) = IF d = 0 THEN [ok |-> TRUE, text |-> SubSeq(file, 1, size)]
                        ELSE IF d > Cap - size THEN [ok |-> FALSE, text |-> <<>>]
                        ELSE f[size + d]
    OBVIOUS
  <2> HIDE DEF Step, d
  <2>3. CASE size = stop
    <3>1. d = 0
      BY <1>2, <2>1, <2>3
    <3> QED BY <2>2, <2>3, <3>1
  <2>4. CASE size # stop
    <3>1. /\ d # 0
          /\ d > Cap - size <=> size = Cap /\ size < stop
          /\ size + d = IF size < stop THEN size + 1 ELSE stop
      BY <1>2, <2>1, <2>4
    <3> QED BY <2>2, <2>4, <3>1
  <2> QED BY <2>3, <2>4
<1> HIDE DEF Step, whole
<1>4. \E f : f = [size \in 0 .. Cap |-> Step(f, size)]
  <2> DEFINE g == [size \in 0 .. Cap |-> whole]
  <2>1. \A size \in 0 .. Cap : Step(g, size) = whole
    <3> TAKE size \in 0 .. Cap
    <3> DEFINE next == IF size < stop THEN size + 1 ELSE stop
    <3>1. CASE size = stop
      <4>1. stop <= Cap
        BY <1>2, <3>1
      <4>2. Step(g, size) = [ok |-> TRUE, text |-> SubSeq(file, 1, stop)]
        BY <1>3, <3>1
      <4> QED BY <4>1, <4>2 DEF whole
    <3>3. CASE size = Cap /\ size < stop
      <4>1. ~(stop <= Cap) /\ size # stop
        BY <1>2, <3>3
      <4>2. Step(g, size) = [ok |-> FALSE, text |-> <<>>]
        BY <1>3, <3>3, <4>1
      <4> QED BY <4>1, <4>2 DEF whole
    <3>2. CASE size # stop /\ ~(size = Cap /\ size < stop)
      <4>1. Step(g, size) = g[next] /\ next \in 0 .. Cap
        BY <1>2, <1>3, <3>2
      <4> QED BY <4>1
    <3> QED BY <3>1, <3>2, <3>3
  <2>2. g = [size \in 0 .. Cap |-> Step(g, size)]
    BY <2>1
  <2> HIDE DEF g
  <2> QED BY <2>2
<1>5. from = [size \in 0 .. Cap |-> Step(from, size)]
  BY <1>4, Zenon DEF Step
<1> HIDE DEF from
<1> DEFINE last == IF stop <= Cap THEN stop ELSE Cap
           Bad  == {k \in 0 .. last : from[last - k] # whole}
<1>6. last \in 0 .. Cap
  BY <1>2
<1>7. Bad = {}
  <2> SUFFICES ASSUME Bad # {} PROVE FALSE
    OBVIOUS
  <2>1. PICK k \in Bad : \A j \in Bad : k <= j
    <3>1. Bad \in SUBSET Nat
      BY <1>6
    <3> HIDE DEF Bad
    <3> QED BY <3>1, LeastNatural
  <2> DEFINE size == last - k
  <2>2. size \in 0 .. Cap /\ size <= last
    <3>1. k \in 0 .. last /\ last \in 0 .. Cap /\ Cap \in Nat
      BY <1>2, <1>6
    <3> HIDE DEF last
    <3> QED BY <3>1
  <2>3. from[size] = Step(from, size)
    <3> HIDE DEF size
    <3> QED BY <1>5, <2>2
  <2>4. from[size] # whole
    OBVIOUS
  <2>5. CASE k = 0
    <3>1. size = last
      BY <2>5, <1>6
    <3>2. Step(from, size) = whole
      <4>1. CASE stop <= Cap
        <5>1. size = stop
          BY <3>1, <4>1
        <5> HIDE DEF size
        <5> QED BY <1>3, <2>2, <4>1, <5>1 DEF whole
      <4>2. CASE ~(stop <= Cap)
        <5>1. size = Cap
          BY <3>1, <4>2
        <5> HIDE DEF size
        <5>2. size < stop /\ size # stop
          BY <1>2, <4>2, <5>1
        <5> QED BY <1>3, <2>2, <4>2, <5>1, <5>2 DEF whole
      <4> QED BY <4>1, <4>2
    <3> QED BY <2>3, <2>4, <3>2
  <2>6. CASE k # 0
    <3>1. /\ k - 1 \in 0 .. last /\ ~(k <= k - 1) /\ last - (k - 1) = size + 1
          /\ size < stop /\ size < Cap
      BY <1>2, <1>6, <2>6
    <3>2. from[size + 1] = whole
      BY <2>1, <3>1
    <3>3. Step(from, size) = from[size + 1]
      <4> HIDE DEF size, last
      <4> QED BY <1>2, <1>3, <2>2, <3>1
    <3> QED BY <2>3, <2>4, <3>2, <3>3
  <2> QED BY <2>5, <2>6
<1>8. from[0] = whole
  <2>1. last - last = 0 /\ last \in 0 .. last
    BY <1>6
  <2> QED BY <1>7, <2>1
<1> QED BY <1>1, <1>8 DEF whole

LEMMA HookSets ==
  ASSUME NEW hooks \in SUBSET {"theirs", "ours"}
  PROVE  Cardinality(hooks) \in Nat
<1>1. IsFiniteSet({"theirs", "ours"})
  <2>1. IsFiniteSet({} \cup {"theirs"})
    BY FS_EmptySet, FS_AddElement
  <2>2. IsFiniteSet(({} \cup {"theirs"}) \cup {"ours"})
    BY <2>1, FS_AddElement
  <2>3. {"theirs", "ours"} = ({} \cup {"theirs"}) \cup {"ours"}
    OBVIOUS
  <2> QED BY <2>2, <2>3, Zenon
<1> QED BY <1>1, FS_Subset, FS_CardinalityType

(* A document's text is a file that reads as that document.                *)
LEMMA TextOfDocument ==
  ASSUME NEW d \in Docs
  PROVE  Text(d) \in Files /\ Text(d) # <<>> /\ IsText(Text(d)) /\ DocOf(Text(d)) = d
<1>1. Units(d) \in Nat /\ Units(d) >= 1
  <2>1. Cardinality(d.hooks) \in Nat
    BY HookSets DEF Docs
  <2> QED BY <2>1 DEF Units
<1>2. \A i \in 1 .. Units(d) : Unit(d, i) \in AllUnits
  BY <1>1 DEF Unit, AllUnits
<1>3. Text(d) \in Files /\ Len(Text(d)) = Units(d)
  BY <1>1, <1>2 DEF Text, Files
<1>4. 1 \in 1 .. Units(d)
  BY <1>1
<1>5. Text(d)[1] = Unit(d, 1) /\ Text(d)[1].doc = d /\ Text(d)[1] # Hole
  BY <1>2, <1>4, HookInstallAssumption DEF Text, Unit
<1>6. Text(d) # <<>>
  BY <1>1, <1>3
<1> QED BY <1>3, <1>5, <1>6 DEF IsText, DocOf

LEMMA DocumentOfText ==
  ASSUME NEW file \in Files, IsText(file)
  PROVE  DocOf(file) \in Docs
<1>1. 1 \in 1 .. Len(file)
  BY DEF IsText, Files
<1>2. file[1] \in AllUnits
  BY <1>1 DEF IsText, Files
<1> QED BY <1>2 DEF DocOf, AllUnits

(* What Install or Remove writes is what it is to make of the file.        *)
LEMMA BuiltAsIntended ==
  ASSUME NEW file \in Files, NEW built, NEW kind \in {"install", "remove"},
         built = IF kind = "install" THEN BuildInstall(file) ELSE BuildRemove(file),
         built.ok, built.changed
  PROVE  built.text \in Files /\ Makes(kind, file, built.text)
<1> DEFINE Written(d) == [d EXCEPT !.raw = FALSE]
<1>1. ASSUME NEW d \in Docs
      PROVE  /\ Text(Written(d)) \in Files /\ IsText(Text(Written(d)))
             /\ DocOf(Text(Written(d))).user = d.user
             /\ DocOf(Text(Written(d))).hooks = d.hooks
  <2>1. Written(d) \in Docs /\ Written(d).user = d.user /\ Written(d).hooks = d.hooks
    BY DEF Docs
  <2> HIDE DEF Written
  <2> QED BY <2>1, TextOfDocument
<1>2. ASSUME NEW d \in Docs, built.text = Text(Written(d)), Same(d, WasIn(file)),
             ("ours" \in d.hooks) = (kind = "install")
      PROVE  built.text \in Files /\ Makes(kind, file, built.text)
  <2> HIDE DEF Written
  <2> QED BY <1>1, <1>2 DEF Makes, Same
<1>3. CASE file = <<>>
  <2>1. kind = "install"
    BY <1>3 DEF BuildRemove, KeepAsIs
  <2> DEFINE d == Doc("nobody", {"ours"}, FALSE)
  <2>2. built.text = Text(Written(d)) /\ d \in Docs
    BY <1>3, <2>1 DEF BuildInstall, WriteOut, Doc, Docs, Users
  <2>3. Same(d, WasIn(file)) /\ "ours" \in d.hooks
    BY <1>3 DEF Same, WasIn, Doc
  <2> QED BY <1>2, <2>1, <2>2, <2>3
<1>4. CASE file # <<>> /\ kind = "install"
  <2>1. IsText(file) /\ DocOf(file) \in Docs
    BY <1>4, DocumentOfText DEF BuildInstall, Refuse, IsObject
  <2> DEFINE d == [DocOf(file) EXCEPT !.hooks = @ \cup {"ours"}]
  <2>2. built.text = Text(Written(d))
    BY <1>4 DEF BuildInstall, WriteOut, Refuse, KeepAsIs
  <2>3. d \in Docs /\ d.user = DocOf(file).user /\ d.hooks = DocOf(file).hooks \cup {"ours"}
    BY <2>1 DEF Docs
  <2> HIDE DEF d
  <2>4. Same(d, WasIn(file)) /\ "ours" \in d.hooks
    BY <1>4, <2>3 DEF Same, WasIn
  <2> QED BY <1>2, <1>4, <2>2, <2>3, <2>4
<1>5. CASE file # <<>> /\ kind = "remove"
  <2>1. IsText(file) /\ DocOf(file) \in Docs
    BY <1>5, DocumentOfText DEF BuildRemove, Refuse, IsObject
  <2> DEFINE d == [DocOf(file) EXCEPT !.hooks = @ \ {"ours"}]
  <2>2. built.text = Text(Written(d))
    BY <1>5 DEF BuildRemove, WriteOut, Refuse, KeepAsIs
  <2>3. d \in Docs /\ d.user = DocOf(file).user /\ d.hooks = DocOf(file).hooks \ {"ours"}
    BY <2>1 DEF Docs
  <2> HIDE DEF d
  <2>4. Same(d, WasIn(file)) /\ "ours" \notin d.hooks
    BY <1>5, <2>3 DEF Same, WasIn
  <2> QED BY <1>2, <1>5, <2>2, <2>3, <2>4
<1> QED BY <1>3, <1>4, <1>5

(* What is read is the file, a shorter beginning of it or nothing.         *)
LEMMA ReadIsTheFile ==
  ASSUME NEW file \in Files, NEW end, NEW got \in ReadResults(file, end)
  PROVE  /\ got.ok \in BOOLEAN /\ got.text \in Files
         /\ got.ok /\ end # Starved => got.text = file
         /\ got.ok /\ end = Starved => Len(got.text) < Len(file)
<1>1. <<>> \in Files /\ Len(file) \in Nat
  BY DEF Files
<1>2. CASE end = Done
  <2>0. ReadResults(file, end) = {ReadFile(file, Len(file))}
    BY <1>2 DEF ReadResults, Done, Starved
  <2>1. got = ReadFile(file, Len(file))
    BY <2>0
  <2>2. SubSeq(file, 1, Len(file)) = file
    BY SubSeqFull DEF Files
  <2>3. got = IF Len(file) <= Cap THEN [ok |-> TRUE, text |-> file]
                                  ELSE [ok |-> FALSE, text |-> <<>>]
    BY <1>1, <2>1, <2>2, ReadFileTakesAll
  <2>4. end # Starved
    BY <1>2 DEF Done, Starved
  <2> QED BY <1>1, <2>3, <2>4
<1>3. CASE end = Starved
  <2>1. end # Done
    BY <1>3 DEF Done, Starved
  <2>2. PICK n \in 0 .. Len(file) - 1 : got = ReadFile(file, n)
    BY <1>3, <2>1 DEF ReadResults
  <2>3. SubSeq(file, 1, n) \in Files /\ Len(SubSeq(file, 1, n)) = n
    BY <1>1 DEF Files
  <2>4. got = IF n <= Cap THEN [ok |-> TRUE, text |-> SubSeq(file, 1, n)]
                          ELSE [ok |-> FALSE, text |-> <<>>]
    BY <2>2, ReadFileTakesAll
  <2> QED BY <1>1, <1>3, <2>2, <2>3, <2>4
<1>4. CASE end # Done /\ end # Starved
  <2>1. ReadResults(file, end) = {[ok |-> FALSE, text |-> <<>>]}
    BY <1>4 DEF ReadResults
  <2>2. got = [ok |-> FALSE, text |-> <<>>]
    BY <2>1
  <2> QED BY <1>1, <2>2
<1> QED BY <1>2, <1>3, <1>4

-----------------------------------------------------------------------------
(* The steps of the installer.                                             *)

LEMMA HookStarts == Init => HookInv
<1> SUFFICES ASSUME Init PROVE HookInv
  OBVIOUS
<1>1. settings \in Files /\ authored = settings
  <2>1. ASSUME NEW d \in UserDocs PROVE d \in Docs
    <3>1. CASE d \in {Doc("one", h, TRUE) : h \in SUBSET {"theirs", "ours"}}
      <4>1. PICK h \in SUBSET {"theirs", "ours"} : d = Doc("one", h, TRUE)
        BY <3>1
      <4> QED BY <4>1 DEF Docs, Doc, Users
    <3>2. CASE d \in {Doc(u, {}, TRUE) : u \in {"strange", "torn"}}
      <4>1. PICK u \in {"strange", "torn"} : d = Doc(u, {}, TRUE)
        BY <3>2
      <4> QED BY <4>1 DEF Docs, Doc, Users
    <3> QED BY <3>1, <3>2 DEF UserDocs
  <2>2. settings = <<>> \/ \E d \in UserDocs : settings = Text(d)
    BY DEF Init, HookInit
  <2>3. <<>> \in Files /\ authored = settings
    BY DEF Files, Init, HookInit
  <2> QED BY <2>1, <2>2, <2>3, TextOfDocument
<1>2. backups = <<>> /\ Len(backups) = 0 /\ ops = 0 /\ op = Idle /\ outcome = Silent
  BY DEF Init, HookInit
<1>3. FileTypes
  BY <1>1, <1>2 DEF FileTypes, OpTypes, Idle, Kinds, Stages, Files
<1>4. Progress /\ BackupsCounted /\ Found /\ Bounded /\ Preserved /\ Intended /\ Reported
  BY <1>1, <1>2 DEF Progress, BackupsCounted, Found, Bounded, Preserved, Intended, Reported, Idle,
     Untouched, Preserving, Replacing, Reverting, Writing, Older, Backed, Silent
<1>5. OutcomeIsTrue
  BY <1>2 DEF OutcomeIsTrue, Silent
<1> QED BY <1>3, <1>4, <1>5 DEF HookInv

(* An operation that ends with a true report, for whatever reason.         *)
LEMMA OperationEnds ==
  ASSUME FileTypes, NEW what, Say(what),
         settings' \in Files, authored' \in Files, backups' \in Seq(Files), ops' \in Nat,
         Len(backups') <= ops', authored' = settings' \/ Backed(Len(backups))',
         what = "unchanged" => settings' = op.before,
         what = "error" /\ op.before # <<>> /\ op.whole => settings' = op.before,
         what = "writeFailed" /\ op.before # <<>> /\ op.whole =>
           op.before = settings' \/ \E i \in 1 .. Len(backups') : backups'[i] = op.before,
         what = "changed" => IF op.kind = "restore" THEN settings' = op.text
                             ELSE op.whole => Makes(op.kind, op.before, settings')
  PROVE  HookInv'
<1>1. /\ op' = Idle
      /\ outcome' = [said |-> what, kind |-> op.kind, before |-> op.before, wanted |-> op.text,
                     whole |-> op.whole]
  BY DEF Say
<1>2. FileTypes'
  BY <1>1 DEF FileTypes, OpTypes, Idle, Kinds, Stages, Files
<1>3. (Progress /\ BackupsCounted /\ Found /\ Bounded /\ Preserved /\ Intended /\ Reported)'
  <2>1. Older' = Len(backups')
    BY <1>1 DEF Older, Idle
  <2> QED BY <1>1, <2>1 DEF Progress, BackupsCounted, Found, Bounded, Preserved, Intended,
     Reported, Idle, Untouched, Preserving, Replacing, Reverting, Writing
<1>4. OutcomeIsTrue'
  BY <1>1 DEF OutcomeIsTrue, Makes, Same, WasIn
<1> QED BY <1>2, <1>3, <1>4 DEF HookInv

(* While nothing is written an operation may end with the file as it was.  *)
LEMMA EndsUntouched ==
  ASSUME HookInv, op.stage \in Untouched, NEW what \in {"error", "unchanged"}, Say(what),
         UNCHANGED <<settings, backups, authored, ops>>
  PROVE  HookInv'
<1>1. FileTypes /\ settings = op.before
  BY DEF HookInv, Found
<1>2. Len(backups) \in Nat /\ Len(backups) <= ops
  BY DEF HookInv, BackupsCounted, FileTypes
<1>3. authored = settings \/ Backed(Len(backups))
  <2>1. Older \in Int /\ Older <= Len(backups)
    BY <1>2 DEF Older
  <2>2. authored = settings \/ Backed(Older)
    BY DEF HookInv, Preserved
  <2> HIDE DEF Older
  <2> QED BY <1>2, <2>1, <2>2 DEF Backed
<1>4. authored' = settings' \/ Backed(Len(backups))'
  BY <1>3 DEF Backed
<1> QED BY <1>1, <1>2, <1>4, OperationEnds DEF FileTypes

LEMMA BeginKeeps ==
  ASSUME HookInv, NEW kind \in {"install", "remove", "restore"}, Begin(kind)
  PROVE  HookInv'
<1> DEFINE first == IF kind = "restore" THEN "readBackup" ELSE "readOriginal"
<1>1. PICK n \in IF kind = "restore" THEN 0 .. Len(backups) ELSE {0} :
        op' = [Idle EXCEPT !.kind = kind, !.from = n, !.before = settings, !.stage = first]
  BY DEF Begin
<1>2. /\ UNCHANGED <<settings, backups, authored>> /\ ops' = ops + 1 /\ outcome' = Silent
      /\ op.kind = "none"
  BY DEF Begin
<1>3. FileTypes /\ Len(backups) \in Nat /\ Len(backups) <= ops
  BY DEF HookInv, BackupsCounted, FileTypes
<1>4. /\ op'.kind = kind /\ op'.from = n /\ op'.before = settings /\ op'.stage = first
      /\ op'.pos = 0 /\ op'.keep = FALSE /\ op'.whole = TRUE /\ n \in 0 .. Len(backups)
  BY <1>1, <1>3 DEF Idle
<1>5. FileTypes'
  <2>1. first \in Stages /\ kind \in Kinds
    BY DEF Stages, Untouched, Kinds
  <2> HIDE DEF first
  <2>2. settings \in Files /\ <<>> \in Files /\ n \in Nat
    BY <1>3, <1>4 DEF FileTypes, Files
  <2>3. op' \in OpTypes
    BY <1>1, <2>1, <2>2 DEF Idle, OpTypes
  <2> QED BY <1>2, <1>3, <2>3 DEF FileTypes
<1>6. Preserved'
  <2>1. op.stage = "idle" /\ (authored = settings \/ Backed(Older))
    BY <1>2 DEF HookInv, Preserved, Progress
  <2>2. Older = Len(backups) /\ Older' = Len(backups)
    BY <1>2, <1>4, <2>1 DEF Older
  <2> QED BY <1>2, <1>4, <2>1, <2>2 DEF Preserved, Backed, Replacing, Reverting
<1>7. (Progress /\ BackupsCounted /\ Found /\ Bounded /\ Intended /\ Reported)'
  <2>1. op'.stage \in {"readBackup", "readOriginal"}
    BY <1>4
  <2>2. Progress'
    BY <1>2, <1>4 DEF Progress, Preserving, Reverting, Writing
  <2>3. BackupsCounted'
    BY <1>2, <1>3, <2>1 DEF BackupsCounted, FileTypes
  <2>4. Found' /\ Bounded'
    BY <1>2, <1>4, <2>1 DEF Found, Bounded, Replacing
  <2>5. Intended' /\ Reported'
    BY <1>2, <2>1 DEF Intended, Reported, Preserving, Replacing
  <2> QED BY <2>2, <2>3, <2>4, <2>5
<1>8. OutcomeIsTrue'
  BY <1>2 DEF OutcomeIsTrue, Silent
<1> QED BY <1>5, <1>6, <1>7, <1>8 DEF HookInv

LEMMA ReadBackupKeeps ==
  ASSUME HookInv, NEW end, ReadBackup(end)
  PROVE  HookInv'
<1> DEFINE file == IF op.from = 0 THEN <<>> ELSE backups[op.from]
<1>0. PICK got \in ReadResults(file, end) :
        IF got.ok /\ IsObject(got.text)
        THEN op' = [op EXCEPT !.stage = "readOriginal", !.text = got.text]
               /\ UNCHANGED outcome
        ELSE Say("error")
  BY DEF ReadBackup
<1>1. op.stage = "readBackup" /\ UNCHANGED <<settings, backups, authored, ops>>
  BY DEF ReadBackup
<1>2. FileTypes /\ op.kind = "restore" /\ op.from <= Len(backups)
  BY <1>1 DEF HookInv, Progress
<1>3. got.text \in Files
  <2>1. file \in Files
    <3>1. op.from \in Nat
      BY <1>2 DEF FileTypes, OpTypes
    <3>2. CASE op.from = 0
      BY <3>2 DEF Files
    <3>3. CASE op.from # 0
      BY <1>2, <3>1, <3>3 DEF FileTypes
    <3> QED BY <3>2, <3>3
  <2> HIDE DEF file
  <2> QED BY <2>1, ReadIsTheFile
<1> HIDE DEF file
<1>4. CASE got.ok /\ IsObject(got.text)
  <2>1. op' = [op EXCEPT !.stage = "readOriginal", !.text = got.text] /\ UNCHANGED outcome
    BY <1>0, <1>4
  <2>2. /\ op'.stage = "readOriginal" /\ op'.kind = op.kind /\ op'.pos = op.pos
        /\ op'.keep = op.keep /\ op'.before = op.before /\ op'.orig = op.orig
        /\ op'.whole = op.whole
    BY <1>2, <2>1 DEF FileTypes, OpTypes
  <2>3. FileTypes'
    BY <1>1, <1>2, <1>3, <2>1 DEF FileTypes, OpTypes, Stages, Untouched
  <2>4. Older' = Older
    BY <1>1, <2>2 DEF Older
  <2>5. (Progress /\ BackupsCounted /\ Found /\ Bounded /\ Preserved /\ Intended /\ Reported)'
    BY <1>1, <1>2, <2>1, <2>2, <2>4 DEF HookInv, Progress, BackupsCounted, Found, Bounded,
       Preserved, Backed, Intended, Reported, Untouched, Preserving, Replacing, Reverting,
       Writing
  <2>6. OutcomeIsTrue'
    BY <1>1, <2>1 DEF HookInv, OutcomeIsTrue
  <2> QED BY <2>3, <2>5, <2>6 DEF HookInv
<1>5. CASE ~(got.ok /\ IsObject(got.text))
  BY <1>0, <1>1, <1>5, EndsUntouched DEF Untouched
<1> QED BY <1>4, <1>5

LEMMA ReadOriginalKeeps ==
  ASSUME HookInv, NEW end, ReadOriginal(end)
  PROVE  HookInv'
<1>1. /\ op.stage = "readOriginal" /\ UNCHANGED <<settings, backups, ops>>
      /\ FileTypes /\ settings = op.before /\ settings \in Files
  BY DEF ReadOriginal, HookInv, Found, Untouched, FileTypes
<1> DEFINE Goes(got, built) ==
             /\ op' = [op EXCEPT !.orig = got.text, !.text = built.text,
                         !.keep = got.text # <<>>, !.whole = end # Starved,
                         !.stage = IF got.text # <<>> THEN "backup" ELSE "write"]
             /\ authored' = IF end = Starved THEN <<>> ELSE authored
             /\ UNCHANGED outcome
<1>2. PICK got \in ReadResults(settings, end) :
        LET built == Build(got.text)
        IN CASE ~got.ok \/ ~built.ok -> Say("error") /\ UNCHANGED authored
             [] got.ok /\ built.ok /\ ~built.changed -> Say("unchanged") /\ UNCHANGED authored
             [] OTHER -> Goes(got, built)
  BY Zenon DEF ReadOriginal
<1> DEFINE built == Build(got.text)
<1>3. /\ got.text \in Files /\ got.ok \in BOOLEAN
      /\ got.ok /\ end # Starved => got.text = settings
  BY <1>1, ReadIsTheFile
<1>4. built.ok \in BOOLEAN /\ built.changed \in BOOLEAN
  BY DEF Build, BuildInstall, BuildRemove, WriteOut, Refuse, KeepAsIs, Doc
<1>5. \/ Say("error") /\ UNCHANGED authored
      \/ Say("unchanged") /\ UNCHANGED authored
      \/ got.ok /\ built.ok /\ built.changed /\ Goes(got, built)
  <2> HIDE DEF built, Goes
  <2> QED BY <1>2, <1>3, <1>4 DEF built
<1>6. CASE (Say("error") \/ Say("unchanged")) /\ UNCHANGED authored
  BY <1>1, <1>6, EndsUntouched DEF Untouched
<1>7. CASE got.ok /\ built.ok /\ built.changed /\ Goes(got, built)
  <2> DEFINE whole == end # Starved
  <2>1. whole \in BOOLEAN /\ (whole => got.text = settings)
    BY <1>3, <1>7
  <2>2. /\ built.text \in Files
        /\ op.kind \in {"install", "remove"} /\ whole => Makes(op.kind, op.before, built.text)
    <3>1. CASE op.kind \in {"install", "remove"}
      <4>1. built = IF op.kind = "install" THEN BuildInstall(got.text)
                                           ELSE BuildRemove(got.text)
        BY <3>1 DEF Build
      <4>2. built.text \in Files /\ Makes(op.kind, got.text, built.text)
        <5> HIDE DEF built
        <5> QED BY <1>3, <1>7, <3>1, <4>1, BuiltAsIntended
      <4> HIDE DEF built, whole
      <4> QED BY <1>1, <2>1, <4>2
    <3>2. CASE op.kind \notin {"install", "remove"}
      <4>1. built.text = op.text
        BY <3>2 DEF Build
      <4> QED BY <1>1, <3>2, <4>1 DEF FileTypes, OpTypes
    <3> QED BY <3>1, <3>2
  <2> HIDE DEF built
  <2> DEFINE next == IF got.text # <<>> THEN "backup" ELSE "write"
             keep == got.text # <<>>
  <2>3. /\ op' = [op EXCEPT !.orig = got.text, !.text = built.text, !.keep = keep,
                            !.whole = whole, !.stage = next]
        /\ authored' = IF whole THEN authored ELSE <<>>
        /\ UNCHANGED outcome
    BY <1>7
  <2>4. next \in Stages /\ keep \in BOOLEAN /\ next \in {"backup", "write"}
        /\ (keep <=> next = "backup")
    BY DEF Stages, Untouched, Preserving, Replacing
  <2>5. (keep = FALSE => got.text = <<>>) /\ (keep = TRUE => got.text # <<>>)
    OBVIOUS
  <2> HIDE DEF next, keep, whole, Goes
  <2>7. /\ op'.orig = got.text /\ op'.text = built.text /\ op'.keep = keep
        /\ op'.stage = next /\ op'.kind = op.kind /\ op'.pos = op.pos
        /\ op'.before = op.before /\ op'.whole = whole
    BY <1>1, <2>3 DEF FileTypes, OpTypes
  <2>8. op.pos = 0 /\ op.kind # "none"
    BY <1>1 DEF HookInv, Progress, Writing, FileTypes, OpTypes
  <2>9. FileTypes'
    <3>1. <<>> \in Files /\ authored' \in Files
      BY <1>1, <2>3 DEF Files, FileTypes
    <3> QED BY <1>1, <1>3, <2>1, <2>2, <2>3, <2>4, <3>1 DEF FileTypes, OpTypes
  <2>10. Progress'
    BY <1>1, <2>4, <2>7, <2>8, <2>9
       DEF Progress, Preserving, Reverting, Writing, Payload, FileTypes, OpTypes, Files
  <2>11. BackupsCounted'
    BY <1>1, <2>4, <2>7, <2>8 DEF HookInv, BackupsCounted, FileTypes
  <2>12. Found' /\ Bounded'
    BY <1>1, <2>1, <2>3, <2>4, <2>5, <2>7, <2>8
       DEF Found, Bounded, Untouched, Preserving, Replacing
  <2>13. Preserved'
    <3>1. Older = Len(backups) /\ Older' = Len(backups)
      BY <1>1, <2>4, <2>7, <2>8 DEF Older
    <3>2. authored = settings \/ Backed(Len(backups))
      BY <3>1 DEF HookInv, Preserved
    <3>3. (authored = settings \/ Backed(Len(backups)))'
      BY <1>1, <2>1, <2>3, <3>2 DEF Backed
    <3>4. next = "write" => (Backed(Len(backups)) /\ Kept)'
      BY <1>1, <2>1, <2>3, <2>4, <2>5, <2>7, <3>2 DEF Backed, Kept
    <3> QED BY <1>1, <2>4, <2>7, <3>1, <3>3, <3>4 DEF Preserved, Replacing, Reverting
  <2>14. Intended' /\ Reported' /\ OutcomeIsTrue'
    <3>1. outcome = Silent
      BY <2>8 DEF HookInv, Reported
    <3> QED BY <2>2, <2>3, <2>7, <2>8, <3>1 DEF Intended, Reported, OutcomeIsTrue, Silent
  <2> QED BY <2>9, <2>10, <2>11, <2>12, <2>13, <2>14 DEF HookInv
<1> HIDE DEF built, Goes
<1> QED BY <1>5, <1>6, <1>7

-----------------------------------------------------------------------------
(* The files while one is written.                                         *)

(* A stage that fails: nothing is lost, and the way back is open when the
   original is kept.                                                       *)
LEMMA FailureKeeps ==
  ASSUME HookInv, NEW cause \in {"error", "writeFailed"}, Failed(cause),
         op.stage \in Preserving \cup Replacing \cup Reverting,
         UNCHANGED <<authored, ops>>,
         settings' \in Files, backups' \in Seq(Files), Len(backups') <= ops',
         op.stage \in Preserving =>
           settings' = settings /\ (authored = settings \/ Backed(Len(backups))'),
         op.stage \in Replacing \cup Reverting =>
           Backed(Len(backups))' /\ UNCHANGED backups
  PROVE  HookInv'
<1>1. FileTypes
  BY DEF HookInv
<1>2. authored' \in Files /\ ops' \in Nat /\ (authored' = settings' \/ Backed(Len(backups))')
  BY <1>1 DEF FileTypes, Preserving, Replacing, Reverting
<1>3. CASE op.stage \in Preserving
  <2>1. Say("error")
    BY <1>3 DEF Failed, Preserving
  <2>2. settings' = op.before
    BY <1>3 DEF HookInv, Found, Untouched, Preserving
  <2> QED BY <1>1, <1>2, <2>1, <2>2, OperationEnds
<1>4. CASE op.stage \in Replacing /\ ~op.keep
  <2>1. Say(cause) /\ (op.before = <<>> \/ ~op.whole)
    BY <1>4 DEF Failed, Replacing, HookInv, Found
  <2> QED BY <1>1, <1>2, <2>1, OperationEnds
<1>5. CASE op.stage \in Replacing /\ op.keep
  <2>1. /\ op' = [op EXCEPT !.stage = "rollback", !.pos = 0, !.err = FALSE, !.cause = cause]
        /\ UNCHANGED outcome
    BY <1>5 DEF Failed, Replacing
  <2>2. /\ op'.stage = "rollback" /\ op'.pos = 0 /\ op'.kind = op.kind /\ op'.keep = op.keep
        /\ op'.before = op.before /\ op'.orig = op.orig /\ op'.whole = op.whole
    BY <1>1, <2>1 DEF FileTypes, OpTypes
  <2>3. FileTypes'
    BY <1>1, <1>2, <2>1 DEF FileTypes, OpTypes, Stages, Reverting
  <2>4. Progress'
    <3>1. op.kind # "none"
      BY <1>5 DEF HookInv, Progress, Replacing
    <3> QED BY <1>5, <2>2, <2>3, <3>1
          DEF Progress, Preserving, Reverting, Writing, Payload, FileTypes, OpTypes, Files
  <2>5. (BackupsCounted /\ Found /\ Bounded)'
    BY <1>2, <1>5, <2>2, <2>3
       DEF BackupsCounted, Found, Bounded, HookInv, Untouched, Preserving, Replacing, FileTypes
  <2>6. Preserved'
    <3>1. Older' = Len(backups')
      BY <2>2 DEF Older
    <3>2. (Backed(Len(backups)) /\ Kept)'
      BY <1>5, <2>2 DEF HookInv, Preserved, Kept
    <3> QED BY <3>1, <3>2 DEF Preserved
  <2>7. Intended' /\ Reported' /\ OutcomeIsTrue'
    <3>1. outcome = Silent
      BY <1>5 DEF HookInv, Reported, Progress, Replacing
    <3> QED BY <2>1, <2>2, <3>1
          DEF Intended, Preserving, Replacing, Reported, OutcomeIsTrue, Silent
  <2> QED BY <2>3, <2>4, <2>5, <2>6, <2>7 DEF HookInv
<1>6. CASE op.stage \in Reverting
  <2>1. Say("writeFailed")
    BY <1>6 DEF Failed, Reverting
  <2>2. Kept /\ UNCHANGED backups
    BY <1>6 DEF HookInv, Preserved
  <2> QED BY <1>1, <1>2, <2>1, <2>2, OperationEnds DEF Kept
<1> QED BY <1>3, <1>4, <1>5, <1>6

(* A stage that reaches its next one.                                      *)
LEMMA AdvanceKeeps ==
  ASSUME HookInv, NEW next, op.stage \in Preserving \cup Replacing \cup Reverting,
         \/ op.stage = "backup" /\ op.pos > 0 /\ next = "verifyBackup"
         \/ op.stage = "verifyBackup" /\ next = "write" /\ backups[Len(backups)] = op.orig
         \/ op.stage = "write" /\ op.pos > 0 /\ next = "verify"
         \/ op.stage = "rollback" /\ op.pos > 0 /\ next = "verifyRollback",
         Goto(next), UNCHANGED <<settings, backups, authored, ops>>
  PROVE  HookInv'
<1>1. FileTypes
  BY DEF HookInv
<1>2. op' = [op EXCEPT !.stage = next, !.pos = 0, !.err = FALSE] /\ UNCHANGED outcome
  BY DEF Goto
<1>3. /\ op'.stage = next /\ op'.pos = 0 /\ op'.kind = op.kind /\ op'.keep = op.keep
      /\ op'.before = op.before /\ op'.orig = op.orig /\ op'.text = op.text
      /\ op'.whole = op.whole
  BY <1>1, <1>2 DEF FileTypes, OpTypes
<1>4. next \in Stages
  BY DEF Stages, Untouched, Preserving, Replacing, Reverting
<1>5. FileTypes'
  BY <1>1, <1>2, <1>4 DEF FileTypes, OpTypes
<1>6. op.kind # "none" /\ Len(backups) \in Nat
  BY <1>1 DEF HookInv, Progress, Preserving, Replacing, Reverting, FileTypes
<1>7. Progress'
  <2>1. (op.stage \in Preserving \cup Reverting => op.keep) /\ op'.stage # "idle"
    BY <1>3 DEF HookInv, Progress
  <2>2. op.stage = "backup" /\ op.pos > 0 => Len(backups) > 0
    BY DEF HookInv, Progress
  <2> QED BY <1>3, <1>5, <1>6, <2>1, <2>2
        DEF Progress, Preserving, Reverting, Writing, Payload, FileTypes, OpTypes, Files
<1>8. BackupsCounted'
  BY <1>3, <1>6 DEF HookInv, BackupsCounted
<1>9. Found' /\ Bounded'
  BY <1>3 DEF HookInv, Found, Bounded, Progress, Untouched, Preserving, Replacing, Reverting
<1>10. Preserved'
  <2>1. CASE op.stage = "backup"
    BY <1>3, <2>1 DEF HookInv, Preserved, Older, Backed, Replacing, Reverting
  <2>2. CASE op.stage = "verifyBackup"
    <3>1. /\ op.whole => op.orig = settings /\ op.orig = op.before
          /\ ~op.whole => authored = <<>>
          /\ Len(backups) > 0
      BY <2>2 DEF HookInv, Found, Progress, Untouched, Preserving
    <3>2. Older = Len(backups) - 1 /\ Older' = Len(backups)
      BY <1>3, <2>2 DEF Older
    <3>3. authored = settings \/ Backed(Older)
      BY DEF HookInv, Preserved
    <3>4. Len(backups) \in 1 .. Len(backups) /\ Older \in Int /\ Older <= Len(backups)
      BY <1>6, <3>1, <3>2
    <3>5. Backed(Len(backups))
      <4> HIDE DEF Older
      <4> QED BY <1>6, <2>2, <3>1, <3>3, <3>4 DEF Backed
    <3>6. Kept
      BY <2>2, <3>1, <3>4 DEF Kept
    <3> QED BY <1>3, <3>2, <3>5, <3>6 DEF Preserved, Backed, Kept
  <2>3. CASE op.stage \in {"write", "rollback"}
    BY <1>3, <2>3 DEF HookInv, Preserved, Older, Backed, Kept, Replacing, Reverting
  <2> QED BY <2>1, <2>2, <2>3
<1>11. Intended' /\ Reported' /\ OutcomeIsTrue'
  <2>1. outcome = Silent
    BY <1>6 DEF HookInv, Reported
  <2> QED BY <1>2, <1>3, <2>1
        DEF HookInv, Intended, Preserving, Replacing, Reported, OutcomeIsTrue, Silent
<1> QED BY <1>5, <1>7, <1>8, <1>9, <1>10, <1>11 DEF HookInv

(* The text is in a backup that no stage will write any more.              *)
LEMMA BackedByOthers ==
  ASSUME HookInv, op.stage \in Preserving \cup Replacing \cup Reverting
  PROVE  /\ Older \in Nat /\ Older <= Len(backups)
         /\ op.stage \in Preserving => authored = settings \/ Backed(Older)
         /\ op.stage \in Replacing \cup Reverting => Older = Len(backups) /\ Backed(Older)
         /\ op.stage \in Replacing \cup Reverting => Kept
<1>1. Len(backups) \in Nat
  BY DEF HookInv, FileTypes
<1>2. op.stage = "verifyBackup" \/ (op.stage = "backup" /\ op.pos > 0) => Len(backups) > 0
  BY DEF HookInv, Progress
<1>3. Older \in Nat /\ Older <= Len(backups)
  BY <1>1, <1>2 DEF Older
<1>4. op.stage \in Replacing \cup Reverting => Older = Len(backups)
  BY DEF Older, Replacing, Reverting
<1>5. op.stage \in Replacing \cup Reverting => Backed(Older)
  BY <1>4 DEF HookInv, Preserved
<1> QED BY <1>3, <1>4, <1>5 DEF HookInv, Preserved

(* The OPEN makes a new backup or empties the settings file.               *)
LEMMA WriteOpenKeeps ==
  ASSUME HookInv, NEW end, WriteOpen(end)
  PROVE  HookInv'
<1>1. /\ op.stage \in Writing /\ op.pos = 0
      /\ IF ~end.acts THEN UNCHANGED <<settings, backups>>
         ELSE IF op.stage = "backup" THEN backups' = Append(backups, <<>>) /\ UNCHANGED settings
         ELSE settings' = <<>> /\ UNCHANGED backups
      /\ IF end = Done
         THEN op' = [op EXCEPT !.pos = 1] /\ UNCHANGED outcome
         ELSE \E cause \in {"error", "writeFailed"} : Failed(cause)
      /\ UNCHANGED <<authored, ops>>
  BY DEF WriteOpen, OpenError
<1>2. FileTypes /\ op.stage \in Preserving \cup Replacing \cup Reverting
  BY <1>1 DEF HookInv, Writing, Preserving, Replacing, Reverting
<1>3. /\ Older = Len(backups) /\ Len(backups) \in Nat
      /\ op.stage = "backup" => authored = settings \/ Backed(Len(backups))
      /\ op.stage # "backup" => Backed(Len(backups)) /\ Kept
  <2>1. Older = Len(backups)
    BY <1>1 DEF Older, Writing
  <2>2. op.stage # "backup" => op.stage \in Replacing \cup Reverting
    BY <1>1 DEF Writing, Replacing, Reverting
  <2>3. op.stage = "backup" => op.stage \in Preserving
    BY DEF Preserving
  <2> QED BY <1>2, <2>1, <2>2, <2>3, BackedByOthers DEF FileTypes
<1>4. \/ UNCHANGED backups
      \/ op.stage = "backup" /\ backups' = Append(backups, <<>>)
  BY <1>1
<1>5. /\ settings' \in Files /\ backups' \in Seq(Files) /\ Len(backups') \in Nat
      /\ Len(backups) <= Len(backups')
      /\ \A i \in 1 .. Len(backups) : i \in 1 .. Len(backups') /\ backups'[i] = backups[i]
  <2>1. <<>> \in Files
    BY DEF Files
  <2>2. settings' \in Files
    BY <1>1, <1>2, <2>1 DEF FileTypes
  <2>3. CASE UNCHANGED backups
    BY <1>2, <1>3, <2>2, <2>3 DEF FileTypes
  <2>4. CASE backups' = Append(backups, <<>>)
    BY <1>2, <1>3, <2>1, <2>2, <2>4 DEF FileTypes
  <2> QED BY <1>4, <2>3, <2>4
<1>6. Backed(Len(backups)) => Backed(Len(backups))' /\ authored' = authored
  BY <1>1, <1>3, <1>5 DEF Backed
<1>7. Len(backups') <= ops' /\ (op.stage # "backup" => Len(backups') = Len(backups))
  <2>1. Len(backups) <= ops /\ (op.stage = "backup" => Len(backups) + 1 <= ops)
    BY <1>1, <1>3 DEF HookInv, BackupsCounted, FileTypes, Writing
  <2>2. CASE UNCHANGED backups
    BY <1>1, <2>1, <2>2
  <2>3. CASE op.stage = "backup" /\ backups' = Append(backups, <<>>)
    BY <1>1, <1>2, <2>1, <2>3 DEF FileTypes
  <2> QED BY <1>4, <2>2, <2>3
<1>8. CASE end # Done
  <2>1. op.stage \in Preserving => op.stage = "backup" /\ settings' = settings
    BY <1>1 DEF Preserving, Writing
  <2>2. op.stage \in Replacing \cup Reverting => op.stage # "backup"
    BY DEF Replacing, Reverting
  <2>3. PICK cause \in {"error", "writeFailed"} : Failed(cause)
    BY <1>1, <1>8
  <2>4. op.stage \in Replacing \cup Reverting => UNCHANGED backups
    BY <1>4, <2>2
  <2> QED BY <1>1, <1>2, <1>3, <1>5, <1>6, <1>7, <2>1, <2>2, <2>3, <2>4, FailureKeeps
<1>9. CASE end = Done
  <2>1. op' = [op EXCEPT !.pos = 1] /\ UNCHANGED outcome /\ end.acts
    BY <1>1, <1>9 DEF Done
  <2>2. /\ op'.stage = op.stage /\ op'.pos = 1 /\ op'.kind = op.kind /\ op'.keep = op.keep
        /\ op'.before = op.before /\ op'.orig = op.orig /\ op'.text = op.text
        /\ op'.whole = op.whole
    BY <1>2, <2>1 DEF FileTypes, OpTypes
  <2>3. FileTypes'
    BY <1>1, <1>2, <1>5, <2>1 DEF FileTypes, OpTypes
  <2>4. op.stage = "backup" => Len(backups') = Len(backups) + 1
    BY <1>1, <1>2, <2>1 DEF FileTypes
  <2>5. op.stage = "backup" => settings' = settings
    BY <1>1
  <2>6. Progress'
    <3>1. Payload' = Payload /\ Len(Payload) \in Nat
      BY <1>2, <2>2 DEF Payload, FileTypes, OpTypes, Files
    <3>2. op.stage # "readBackup" /\ op.stage # "verifyBackup"
      BY <1>1 DEF Writing
    <3> QED BY <1>1, <1>3, <2>2, <2>4, <3>1, <3>2 DEF HookInv, Progress, Writing
  <2>7. BackupsCounted'
    <3>1. ~(op'.stage \in {"readBackup", "readOriginal"} \/ (op'.stage = "backup" /\ op'.pos = 0))
      BY <1>1, <2>2 DEF Writing
    <3> QED BY <1>5, <1>7, <3>1 DEF BackupsCounted
  <2>8. Found'
    <3>1. op.stage \in Untouched => op.stage = "backup"
      BY <1>1 DEF Writing, Untouched, Preserving
    <3> QED BY <1>1, <2>2, <2>5, <3>1 DEF HookInv, Found
  <2>11. Bounded'
    <3>1. /\ op.stage = "backup" => backups'[Len(backups')] = <<>>
          /\ op.stage # "backup" => settings' = <<>>
      BY <1>1, <1>2, <2>1, <2>4 DEF FileTypes
    <3>2. Len(op.orig) \in Nat /\ Len(op.text) \in Nat
      BY <1>2 DEF FileTypes, OpTypes, Files
    <3>3. op.stage \in {"backup", "write", "rollback"}
      BY <1>1 DEF Writing
    <3> QED BY <2>2, <3>1, <3>2, <3>3 DEF Bounded
  <2>9. Preserved'
    <3>1. Older' = Len(backups)
      <4>1. CASE op.stage = "backup"
        BY <1>3, <2>2, <2>4, <4>1 DEF Older
      <4>2. CASE op.stage # "backup"
        BY <1>1, <1>7, <2>2, <4>2 DEF Older, Writing
      <4> QED BY <4>1, <4>2
    <3>2. Backed(Len(backups)) => Backed(Older)'
      BY <1>1, <1>5, <3>1 DEF Backed
    <3>3. (authored = settings \/ Backed(Older))'
      BY <1>1, <1>3, <2>5, <3>2
    <3>4. op'.stage \in Replacing \cup Reverting => (Backed(Len(backups)) /\ Kept)'
      <4>1. op'.stage \in Replacing \cup Reverting => op.stage # "backup" /\ UNCHANGED backups
        BY <1>4, <2>2 DEF Replacing, Reverting
      <4> QED BY <1>3, <1>6, <2>2, <4>1 DEF Kept
    <3> QED BY <3>3, <3>4 DEF Preserved
  <2>10. Intended' /\ Reported' /\ OutcomeIsTrue'
    <3>1. outcome = Silent
      BY <1>2 DEF HookInv, Reported, Progress, Preserving, Replacing, Reverting
    <3> QED BY <2>1, <2>2, <3>1
          DEF HookInv, Intended, Preserving, Replacing, Reported, OutcomeIsTrue, Silent
  <2> QED BY <2>3, <2>6, <2>7, <2>8, <2>9, <2>10, <2>11 DEF HookInv
<1> QED BY <1>8, <1>9

(* The WRITE of one unit of the payload, which may leave a hole before it. *)
LEMMA ChunkIsAFile ==
  ASSUME NEW target \in Files, NEW unit \in AllUnits \cup {Hole}, NEW pos \in Nat
  PROVE  [i \in 1 .. Max({Len(target), pos}) |->
            IF i = pos THEN unit ELSE IF i <= Len(target) THEN target[i] ELSE Hole] \in Files
<1>1. Max({Len(target), pos}) \in Nat
  BY MaxOfTwo DEF Files
<1>2. \A i \in 1 .. Len(target) : target[i] \in AllUnits \cup {Hole}
  BY DEF Files
<1> DEFINE n == Max({Len(target), pos})
<1> HIDE DEF n
<1>3. n \in Nat
  BY <1>1 DEF n
<1>4. \A i \in 1 .. n :
        (IF i = pos THEN unit ELSE IF i <= Len(target) THEN target[i] ELSE Hole)
          \in AllUnits \cup {Hole}
  <2>1. Len(target) \in Nat
    BY DEF Files
  <2> QED BY <1>2, <1>3, <2>1
<1>5. [i \in 1 .. n |-> IF i = pos THEN unit
                        ELSE IF i <= Len(target) THEN target[i] ELSE Hole] \in Files
  BY <1>3, <1>4 DEF Files
<1> QED BY <1>5 DEF n

LEMMA WriteChunkKeeps ==
  ASSUME HookInv, NEW end, WriteChunk(end)
  PROVE  HookInv'
<1> DEFINE chunk == [i \in 1 .. Max({Len(Target), op.pos}) |->
                       IF i = op.pos THEN Payload[i]
                       ELSE IF i <= Len(Target) THEN Target[i] ELSE Hole]
<1>1. /\ op.stage \in Writing /\ op.pos \in 1 .. Len(Payload)
      /\ IF end.acts THEN SetTarget(chunk) ELSE UNCHANGED <<settings, backups>>
      /\ \/ op' = [op EXCEPT !.pos = @ + 1]
         \/ \E cause \in {"error", "writeFailed"} :
              op' = [op EXCEPT !.err = TRUE, !.cause = cause]
      /\ UNCHANGED <<authored, ops, outcome>>
  BY DEF WriteChunk, WriteError
<1>2. /\ FileTypes /\ op.stage \in Preserving \cup Replacing \cup Reverting
      /\ op.pos > 0 /\ op.pos \in Nat
  BY <1>1 DEF HookInv, Writing, Preserving, Replacing, Reverting, FileTypes, OpTypes
<1>3. /\ Len(backups) \in Nat /\ Older \in Nat /\ Older <= Len(backups)
      /\ op.stage = "backup" =>
           Older = Len(backups) - 1 /\ (authored = settings \/ Backed(Older))
      /\ op.stage # "backup" => Older = Len(backups) /\ Backed(Len(backups)) /\ Kept
  <2>1. op.stage # "backup" => op.stage \in Replacing \cup Reverting
    BY <1>1 DEF Writing, Replacing, Reverting
  <2>2. op.stage = "backup" => op.stage \in Preserving /\ Older = Len(backups) - 1
    BY <1>2 DEF Preserving, Older
  <2> QED BY <1>2, <2>1, <2>2, BackedByOthers DEF FileTypes
<1>4. chunk \in Files
  <2>1. Target \in Files
    <3>1. op.stage = "backup" => Len(backups) > 0
      BY <1>2 DEF HookInv, Progress
    <3>2. op.stage = "backup" => backups[Len(backups)] \in Files
      BY <1>2, <1>3, <3>1 DEF FileTypes
    <3> QED BY <1>2, <3>2 DEF Target, FileTypes
  <2>2. Payload \in Files
    BY <1>2 DEF Payload, FileTypes, OpTypes
  <2> DEFINE unit == Payload[op.pos]
  <2>3. unit \in AllUnits \cup {Hole}
    BY <1>1, <2>2 DEF Files
  <2>4. chunk = [i \in 1 .. Max({Len(Target), op.pos}) |->
                   IF i = op.pos THEN unit
                   ELSE IF i <= Len(Target) THEN Target[i] ELSE Hole]
    OBVIOUS
  <2> HIDE DEF unit, chunk
  <2> QED BY <1>2, <2>1, <2>3, <2>4, ChunkIsAFile
<1>14. Len(Target) \in Nat /\ Len(Payload) \in Nat /\ Len(chunk) = Max({Len(Target), op.pos})
  <2>1. Len(Target) \in Nat
    <3>1. op.stage = "backup" => Len(backups) \in 1 .. Len(backups)
      BY <1>2, <1>3 DEF HookInv, Progress
    <3> QED BY <1>2, <3>1 DEF Target, FileTypes, Files
  <2>2. Max({Len(Target), op.pos}) \in Nat
    BY <1>2, <2>1, MaxOfTwo
  <2> QED BY <1>2, <2>1, <2>2 DEF Payload, FileTypes, OpTypes, Files
<1>15. Len(Target) <= Len(Payload) => Len(chunk) <= Len(Payload)
  <2>1. Max({Len(Target), op.pos}) = IF Len(Target) >= op.pos THEN Len(Target) ELSE op.pos
    BY <1>2, <1>14, MaxOfTwo
  <2> HIDE DEF chunk
  <2> QED BY <1>1, <1>2, <1>14, <2>1
<1> HIDE DEF chunk
<1>5. /\ settings' \in Files /\ backups' \in Seq(Files) /\ Len(backups') = Len(backups)
      /\ op.stage = "backup" => settings' = settings
      /\ \A i \in 1 .. Older : i \in 1 .. Len(backups) /\ backups'[i] = backups[i]
  <2>1. CASE ~end.acts
    BY <1>1, <1>2, <1>3, <2>1 DEF FileTypes
  <2>2. CASE end.acts /\ op.stage = "backup"
    <3>1. backups' = [backups EXCEPT ![Len(backups)] = chunk] /\ UNCHANGED settings
      BY <1>1, <2>2 DEF SetTarget
    <3>2. backups' \in Seq(Files) /\ Len(backups') = Len(backups)
      <4>1. Len(backups) \in 1 .. Len(backups) /\ backups \in Seq(Files)
        BY <1>2, <1>3, <2>2 DEF FileTypes
      <4> QED BY <1>4, <3>1, <4>1, ExceptSeq
    <3>3. \A i \in 1 .. Older : i \in 1 .. Len(backups) /\ i # Len(backups)
      BY <1>3, <2>2
    <3>4. \A i \in 1 .. Len(backups) : i # Len(backups) => backups'[i] = backups[i]
      BY <1>2, <3>1 DEF FileTypes
    <3> QED BY <1>2, <3>1, <3>2, <3>3, <3>4 DEF FileTypes
  <2>3. CASE end.acts /\ op.stage # "backup"
    <3>1. settings' = chunk /\ UNCHANGED backups
      BY <1>1, <2>3 DEF SetTarget
    <3> QED BY <1>2, <1>3, <1>4, <2>3, <3>1 DEF FileTypes
  <2> QED BY <2>1, <2>2, <2>3
<1>6. /\ op'.stage = op.stage /\ op'.kind = op.kind /\ op'.keep = op.keep
      /\ op'.before = op.before /\ op'.orig = op.orig /\ op'.text = op.text
      /\ op'.pos \in {op.pos, op.pos + 1} /\ op'.whole = op.whole
  BY <1>1, <1>2 DEF FileTypes, OpTypes
<1>7. FileTypes'
  <2>1. op' \in OpTypes
    <3>1. CASE op' = [op EXCEPT !.pos = @ + 1]
      BY <1>2, <3>1 DEF FileTypes, OpTypes
    <3>2. ASSUME NEW cause \in {"error", "writeFailed"},
                 op' = [op EXCEPT !.err = TRUE, !.cause = cause]
          PROVE  op' \in OpTypes
      BY <1>2, <3>2 DEF FileTypes, OpTypes
    <3> QED BY <1>1, <3>1, <3>2
  <2> QED BY <1>1, <1>2, <1>5, <2>1 DEF FileTypes
<1>8. op'.pos \in Nat /\ op'.pos > 0 /\ op'.pos <= Len(Payload) + 1 /\ Payload' = Payload
  <2>1. Len(Payload) \in Nat /\ Payload' = Payload
    BY <1>2, <1>6 DEF Payload, FileTypes, OpTypes, Files
  <2> QED BY <1>1, <1>6, <2>1
<1>9. Progress'
  <2>1. op.stage # "readBackup" /\ op.stage # "verifyBackup"
    BY <1>1 DEF Writing
  <2>2. op.stage = "backup" => Len(backups) > 0
    BY <1>2 DEF HookInv, Progress
  <2> QED BY <1>1, <1>3, <1>5, <1>6, <1>8, <2>1, <2>2 DEF HookInv, Progress, Writing
<1>10. BackupsCounted'
  <2>1. Len(backups) <= ops
    BY <1>1, <1>2, <1>3 DEF HookInv, BackupsCounted, FileTypes, Writing
  <2>2. ~(op'.stage \in {"readBackup", "readOriginal"} \/ (op'.stage = "backup" /\ op'.pos = 0))
    BY <1>1, <1>6, <1>8 DEF Writing
  <2> QED BY <1>1, <1>3, <1>5, <2>1, <2>2 DEF BackupsCounted
<1>11. Found'
  <2>1. op.stage \in Untouched => op.stage = "backup"
    BY <1>1 DEF Writing, Untouched, Preserving
  <2> QED BY <1>1, <1>5, <1>6, <2>1 DEF HookInv, Found
<1>16. Bounded'
  <2>1. Len(Target) <= Len(Payload)
    BY <1>1, <1>2 DEF HookInv, Bounded, Target, Payload, Writing
  <2>2. CASE op.stage = "backup"
    <3>1. Len(backups) \in 1 .. Len(backups) /\ backups \in Seq(Files)
      BY <1>2, <1>3, <2>2 DEF FileTypes
    <3>2. backups'[Len(backups')] \in {chunk, Target}
      BY <1>1, <1>5, <2>2, <3>1 DEF SetTarget, Target
    <3> QED BY <1>6, <1>15, <2>1, <2>2, <3>2 DEF Bounded, Payload
  <2>3. CASE op.stage # "backup"
    <3>1. settings' \in {chunk, Target}
      BY <1>1, <2>3 DEF SetTarget, Target
    <3> QED BY <1>1, <1>6, <1>15, <2>1, <2>3, <3>1 DEF Bounded, Payload, Writing
  <2> QED BY <2>2, <2>3
<1>12. Preserved'
  <2>1. Older' = Older
    BY <1>2, <1>5, <1>6, <1>8 DEF Older
  <2>2. Backed(Older) => Backed(Older)'
    BY <1>1, <1>5, <2>1 DEF Backed
  <2>3. (authored = settings \/ Backed(Older))'
    BY <1>1, <1>3, <1>5, <2>2
  <2>4. op'.stage \in Replacing \cup Reverting => (Backed(Len(backups)) /\ Kept)'
    <3>1. op'.stage \in Replacing \cup Reverting => op.stage # "backup"
      BY <1>6 DEF Replacing, Reverting
    <3>2. op.stage # "backup" => Older' = Len(backups') /\ Backed(Older)'
      BY <1>3, <1>5, <2>1, <2>2
    <3>3. op.stage # "backup" => Kept'
      BY <1>3, <1>5, <1>6 DEF Kept
    <3> QED BY <3>1, <3>2, <3>3 DEF Backed
  <2> QED BY <2>3, <2>4 DEF Preserved
<1>13. Intended' /\ Reported' /\ OutcomeIsTrue'
  <2>1. outcome = Silent
    BY <1>2 DEF HookInv, Reported, Progress, Preserving, Replacing, Reverting
  <2> QED BY <1>1, <1>6, <2>1
        DEF HookInv, Intended, Preserving, Replacing, Reported, OutcomeIsTrue, Silent
<1> QED BY <1>7, <1>9, <1>10, <1>11, <1>12, <1>13, <1>16 DEF HookInv

(* A stage that fails and leaves the files as they are.                    *)
LEMMA FailureKeepsFiles ==
  ASSUME HookInv, NEW cause \in {"error", "writeFailed"}, Failed(cause),
         op.stage \in Preserving \cup Replacing \cup Reverting,
         UNCHANGED <<settings, backups, authored, ops>>,
         op.stage = "backup" => op.pos > 0
  PROVE  HookInv'
<1>1. FileTypes
  BY DEF HookInv
<1>2. Len(backups) \in Nat /\ Len(backups) <= ops
  BY <1>1 DEF HookInv, BackupsCounted, FileTypes, Preserving, Replacing, Reverting
<1>3. op.stage \in Preserving => authored = settings \/ Backed(Len(backups))
  <2> HIDE DEF Older
  <2> QED BY <1>2, BackedByOthers DEF Backed
<1>4. op.stage \in Preserving => authored = settings \/ Backed(Len(backups))'
  BY <1>3 DEF Backed
<1>5. op.stage \in Replacing \cup Reverting => Backed(Len(backups))'
  BY BackedByOthers DEF Backed
<1> QED BY <1>1, <1>2, <1>4, <1>5, FailureKeeps DEF FileTypes

LEMMA WriteCloseKeeps ==
  ASSUME HookInv, NEW end, WriteClose(end)
  PROVE  HookInv'
<1>1. /\ op.stage \in Writing /\ op.pos > 0
      /\ Goto(After(op.stage)) \/ Failed(op.cause)
      /\ UNCHANGED <<settings, backups, authored, ops>>
  BY DEF WriteClose
<1>2. /\ op.stage \in Preserving \cup Replacing \cup Reverting
      /\ op.cause \in {"error", "writeFailed"}
  BY <1>1 DEF Writing, Preserving, Replacing, Reverting, HookInv, FileTypes, OpTypes
<1>3. CASE Failed(op.cause)
  BY <1>1, <1>2, <1>3, FailureKeepsFiles
<1>4. CASE Goto(After(op.stage))
  <2> DEFINE next == After(op.stage)
  <2>1. \/ op.stage = "backup" /\ op.pos > 0 /\ next = "verifyBackup"
        \/ op.stage = "write" /\ op.pos > 0 /\ next = "verify"
        \/ op.stage = "rollback" /\ op.pos > 0 /\ next = "verifyRollback"
    BY <1>1 DEF Writing, After
  <2> HIDE DEF next
  <2>2. Goto(next)
    BY <1>4 DEF next
  <2> QED BY <1>1, <1>2, <2>1, <2>2, AdvanceKeeps
<1> QED BY <1>1, <1>3, <1>4

LEMMA VerifyKeeps ==
  ASSUME HookInv, NEW end, Verify(end)
  PROVE  HookInv'
<1> DEFINE file     == IF op.stage = "verifyBackup" THEN backups[Len(backups)] ELSE settings
           expected == IF op.stage = "verify" THEN op.text ELSE op.orig
<1>0. PICK got \in ReadResults(file, end) :
        IF got # [ok |-> TRUE, text |-> expected] THEN Failed("error")
        ELSE CASE op.stage = "verifyBackup" -> Goto(After("verifyBackup"))
               [] op.stage = "verify" -> Say("changed")
               [] OTHER -> Say(op.cause)
  BY DEF Verify
<1>1. /\ op.stage \in {"verifyBackup", "verify", "verifyRollback"}
      /\ UNCHANGED <<settings, backups, authored, ops>>
  BY DEF Verify
<1>2. FileTypes /\ op.stage \in Preserving \cup Replacing \cup Reverting
  BY <1>1 DEF HookInv, Preserving, Replacing, Reverting
<1>3. /\ Len(backups) \in Nat /\ Len(backups) <= ops
      /\ op.stage = "verifyBackup" => Len(backups) > 0
  BY <1>1, <1>2 DEF HookInv, BackupsCounted, Progress, FileTypes
<1>4. CASE got # [ok |-> TRUE, text |-> expected]
  BY <1>0, <1>1, <1>2, <1>4, FailureKeepsFiles
<1>5. CASE got = [ok |-> TRUE, text |-> expected]
  <2>1. file = expected
    <3>1. file \in Files
      BY <1>2, <1>3 DEF FileTypes
    <3>2. Len(file) <= Len(expected) /\ Len(file) \in Nat /\ Len(expected) \in Nat
      <4>1. expected \in Files
        BY <1>2 DEF FileTypes, OpTypes
      <4>2. Len(file) <= Len(expected)
        BY <1>1 DEF HookInv, Bounded
      <4> QED BY <3>1, <4>1, <4>2 DEF Files
    <3> HIDE DEF file, expected
    <3> QED BY <1>5, <3>1, <3>2, ReadIsTheFile
  <2>2. CASE op.stage = "verifyBackup"
    <3>1. Goto("write") /\ backups[Len(backups)] = op.orig
      BY <1>0, <1>1, <1>5, <2>1, <2>2 DEF After
    <3> QED BY <1>1, <1>2, <2>2, <3>1, AdvanceKeeps
  <2>3. CASE op.stage \in {"verify", "verifyRollback"}
    <3>1. Backed(Len(backups))'
      BY <1>1, <2>3 DEF HookInv, Preserved, Replacing, Reverting, Backed
    <3>2. CASE op.stage = "verify"
      <4>1. Say("changed") /\ settings = op.text
        BY <1>0, <1>5, <2>1, <3>2
      <4>2. IF op.kind = "restore" THEN settings' = op.text
            ELSE op.whole => Makes(op.kind, op.before, settings')
        <5>1. op.kind \in {"install", "remove", "restore"}
          BY <1>2, <3>2 DEF HookInv, Progress, FileTypes, OpTypes, Kinds
        <5>2. op.kind \in {"install", "remove"} /\ op.whole => Makes(op.kind, op.before, op.text)
          BY <3>2 DEF HookInv, Intended, Replacing
        <5> QED BY <1>1, <4>1, <5>1, <5>2
      <4> QED BY <1>1, <1>2, <1>3, <3>1, <4>1, <4>2, OperationEnds DEF FileTypes
    <3>3. CASE op.stage = "verifyRollback"
      <4>1. Say(op.cause) /\ settings = op.orig /\ op.cause \in {"error", "writeFailed"}
        BY <1>0, <1>2, <1>5, <2>1, <3>3 DEF FileTypes, OpTypes
      <4>2. op.whole => settings' = op.before
        BY <1>1, <3>3, <4>1 DEF HookInv, Progress, Found, Reverting
      <4> QED BY <1>1, <1>2, <1>3, <3>1, <4>1, <4>2, OperationEnds DEF FileTypes
    <3> QED BY <2>3, <3>2, <3>3
  <2> QED BY <1>1, <2>2, <2>3
<1> QED BY <1>4, <1>5

(* The operation is cut off; what it had done stays.                       *)
LEMMA CrashKeeps ==
  ASSUME HookInv, Crash
  PROVE  HookInv'
<1>1. op.kind # "none" /\ op' = Idle /\ UNCHANGED <<outcome, settings, backups, authored, ops>>
  BY DEF Crash
<1>2. FileTypes /\ outcome = Silent /\ Len(backups) \in Nat /\ Len(backups) <= ops
  BY <1>1 DEF HookInv, Reported, BackupsCounted, FileTypes
<1>3. authored = settings \/ Backed(Len(backups))
  <2>1. Older \in Int /\ Older <= Len(backups)
    BY <1>2 DEF Older
  <2>2. authored = settings \/ Backed(Older)
    BY DEF HookInv, Preserved
  <2> HIDE DEF Older
  <2> QED BY <1>2, <2>1, <2>2 DEF Backed
<1>4. FileTypes'
  BY <1>1, <1>2 DEF FileTypes, OpTypes, Idle, Kinds, Stages, Files
<1>5. (Progress /\ BackupsCounted /\ Found /\ Bounded /\ Preserved /\ Intended /\ Reported)'
  <2>1. Older' = Len(backups)
    BY <1>1 DEF Older, Idle
  <2>2. (authored = settings \/ Backed(Older))'
    BY <1>1, <1>3, <2>1 DEF Backed
  <2>3. Progress' /\ Found' /\ Bounded' /\ Intended' /\ Reported'
    BY <1>1 DEF Progress, Found, Bounded, Intended, Reported, Idle, Untouched, Preserving, Replacing,
       Reverting, Writing
  <2>4. BackupsCounted' /\ Preserved'
    BY <1>1, <1>2, <2>2 DEF BackupsCounted, Preserved, Idle, Replacing, Reverting
  <2> QED BY <2>3, <2>4
<1>6. OutcomeIsTrue'
  BY <1>1, <1>2 DEF OutcomeIsTrue, Silent
<1> QED BY <1>4, <1>5, <1>6 DEF HookInv

LEMMA EditKeeps ==
  ASSUME HookInv, Edit
  PROVE  HookInv'
<1>1. /\ op.kind = "none" /\ UNCHANGED <<op, ops, backups>> /\ authored' = settings'
      /\ outcome' = Silent
  BY DEF Edit
<1>2. settings' \in Files
  <2>1. PICK h \in SUBSET {"theirs", "ours"} : settings' = Text(Doc("two", h, TRUE))
    BY DEF Edit
  <2>2. Doc("two", h, TRUE) \in Docs
    BY DEF Doc, Docs, Users
  <2> QED BY <2>1, <2>2, TextOfDocument
<1>3. op.stage = "idle"
  BY <1>1 DEF HookInv, Progress
<1>4. FileTypes'
  BY <1>1, <1>2 DEF HookInv, FileTypes
<1>5. (Progress /\ BackupsCounted /\ Found /\ Bounded /\ Preserved /\ Intended /\ Reported)'
  <2>1. Progress'
    BY <1>1, <1>3 DEF HookInv, Progress, Preserving, Reverting, Writing
  <2>2. BackupsCounted'
    BY <1>1 DEF HookInv, BackupsCounted
  <2>3. Found' /\ Bounded' /\ Preserved'
    BY <1>1, <1>3 DEF HookInv, Found, Bounded, Preserved, Untouched, Preserving, Replacing, Reverting
  <2> QED BY <1>1, <2>1, <2>2, <2>3 DEF Intended, Reported
<1>6. OutcomeIsTrue'
  BY <1>1 DEF OutcomeIsTrue, Silent
<1> QED BY <1>4, <1>5, <1>6 DEF HookInv

(* The steps of the cleanup, of the connection and of nobody.              *)
LEMMA NothingKeeps ==
  ASSUME HookInv, UNCHANGED hookVars
  PROVE  HookInv'
<1>1. UNCHANGED <<settings, backups, authored, ops, op, outcome>>
  BY DEF hookVars
<1>2. Older' = Older /\ Payload' = Payload
  BY <1>1 DEF Older, Payload
<1>3. FileTypes' /\ BackupsCounted' /\ Found' /\ Bounded' /\ Intended' /\ Reported'
  BY <1>1 DEF HookInv, FileTypes, BackupsCounted, Found, Bounded, Intended, Reported
<1>5. OutcomeIsTrue'
  BY <1>1, Zenon DEF HookInv, OutcomeIsTrue
<1>4. Progress' /\ Preserved'
  BY <1>1, <1>2 DEF HookInv, Progress, Preserved, Backed, Kept
<1> QED BY <1>3, <1>4, <1>5 DEF HookInv

LEMMA HookStepKeeps ==
  ASSUME HookInv, [Next]_vars
  PROVE  HookInv'
<1>1. ASSUME Hooks PROVE HookInv'
  <2>1. HookStep
    BY <1>1 DEF Hooks
  <2>2. CASE \E kind \in {"install", "remove", "restore"} : Begin(kind)
    BY <2>2, BeginKeeps
  <2>3. CASE \E end \in Ends({Starved}) : ReadBackup(end)
    BY <2>3, ReadBackupKeeps
  <2>4. CASE \E end \in Ends({Starved}) : ReadOriginal(end)
    BY <2>4, ReadOriginalKeeps
  <2>5. CASE \E end \in Ends({}) : WriteOpen(end)
    BY <2>5, WriteOpenKeeps
  <2>6. CASE \E end \in Ends({Hollow}) : WriteChunk(end)
    BY <2>6, WriteChunkKeeps
  <2>7. CASE \E end \in Ends({}) : WriteClose(end)
    BY <2>7, WriteCloseKeeps
  <2>8. CASE \E end \in Ends({Starved}) : Verify(end)
    BY <2>8, VerifyKeeps
  <2>9. CASE Crash
    BY <2>9, CrashKeeps
  <2>10. CASE Reconnect
    BY <2>10, NothingKeeps DEF Reconnect
  <2>11. CASE Edit
    BY <2>11, EditKeeps
  <2> QED BY <2>1, <2>2, <2>3, <2>4, <2>5, <2>6, <2>7, <2>8, <2>9, <2>10, <2>11 DEF HookStep
<1>2. ASSUME Cleanup PROVE HookInv'
  BY <1>2, NothingKeeps DEF Cleanup
<1>3. ASSUME UNCHANGED vars PROVE HookInv'
  BY <1>3, NothingKeeps DEF vars
<1> QED BY <1>1, <1>2, <1>3 DEF Next

LEMMA HookAlways == Spec => []HookInv
<1>1. HookInv /\ [Next]_vars => HookInv'
  BY HookStepKeeps
<1> QED BY HookStarts, <1>1, PTL DEF Spec

(* The text the user wrote last is in the settings file or in a backup at
   every moment, whatever request is cut, refused, answered and not done, or
   not answered, and whenever the program ends, so long as no operation went on
   from a reading of it that the server ended early.                       *)
THEOREM UserTextSurvives == Spec => []SettingsRecoverable
<1>1. HookInv => SettingsRecoverable
  <2> SUFFICES ASSUME HookInv, authored # <<>>
               PROVE  authored = settings \/ \E n \in 1 .. Len(backups) : authored = backups[n]
    BY DEF SettingsRecoverable
  <2>1. authored = settings \/ Backed(Older)
    BY DEF HookInv, Preserved
  <2>2. Older \in Int /\ Len(backups) \in Nat /\ Older <= Len(backups)
    BY DEF HookInv, FileTypes, Older
  <2> HIDE DEF Older
  <2> QED BY <2>1, <2>2 DEF Backed
<1> QED BY HookAlways, <1>1, PTL

(* What Install, Remove and Restore report is true of the settings file until
   the next step that may change it, kWriteFailed included: what the operation
   found is then in the file or in a backup.                               *)
THEOREM ReportsAreTrue == Spec => []OutcomeIsTrue
<1>1. HookInv => OutcomeIsTrue
  BY DEF HookInv
<1> QED BY HookAlways, <1>1, PTL
=============================================================================
