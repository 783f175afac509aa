----------------------------- MODULE Retention ------------------------------
(***************************************************************************)
(* One cleanup pass over the upload directory (src/core/sftp/dir_ops.cpp): *)
(* list it, decide by age and by number what to delete, delete it.  The    *)
(* listing is not atomic: another machine uploads to the same directory    *)
(* and cleans it while the frames come in.                                 *)
(*                                                                         *)
(* A name is a number, and names compare as their numbers do.  Each name   *)
(* is used once, so the time a file carries is a function of its name.     *)
(***************************************************************************)
EXTENDS SftpClient, Wire, FiniteSetsExt, SequencesExt

CONSTANTS
  Uploads,    (* names of the form clip-YYYYMMDD-HHMMSS-<hex>.png          *)
  Foreign,    (* other names in the directory                              *)
  Times,      (* mtimes a file may carry, by the server's clock            *)
  Policies,   (* [age, keep], zero for a rule that is off                  *)
  ListCap,    (* kMaxListedEntries                                         *)
  FrameSize,  (* bound: entries in one NAME reply                          *)
  Wrap,       (* 2^64                                                      *)
  MaxOthers   (* bound: uploads and removals by others during the pass     *)

ASSUME RetentionAssumption ==
  /\ Uploads \cup Foreign \cup Times \subseteq Nat /\ Uploads \cap Foreign = {}
  /\ IsFiniteSet(Uploads \cup Foreign) /\ Policies \subseteq [age : Nat, keep : Nat]
  /\ {ListCap, FrameSize, Wrap, MaxOthers} \subseteq Nat
  /\ \A t \in Times : t < Wrap

Names == Uploads \cup Foreign

VARIABLES
  stamp,    (* the mtime of each name, NoTime when ATTRS has no times      *)
  present,  (* the names in the directory                                  *)
  used,     (* the names that were ever in it                              *)
  others,   (* steps of others so far                                      *)
  atOpen,   (* history: the names present at OPENDIR                       *)
  pass      (* the pass                                                    *)

dirVars == <<stamp, present, used, others, atOpen, pass>>

(* MatchesUploadName.                                                      *)
MatchesUploadName(n) == n \in Uploads

Entries == [name : Uploads, mtime : Times \cup {NoTime}]

(* The clock of this machine is read when the pass begins, and has nothing
   to do with the server's: the times it may show are those files carry.   *)
DirInit ==
  /\ stamp \in [Names -> Times \cup {NoTime}]
  /\ \A n \in Foreign : stamp[n] = CHOOSE t \in Times : TRUE   (* never looked at *)
  /\ present \in {Foreign \cup s : s \in SUBSET Uploads}
  /\ used = present /\ others = 0 /\ atOpen = {}
  /\ \E policy \in Policies, now \in Times :
       pass = [stage |-> "open", policy |-> policy, now |-> now, sent |-> {},
               entries |-> {}, truncated |-> FALSE, err |-> FALSE, done |-> FALSE,
               plan |-> {}, removed |-> 0, failed |-> 0]

-----------------------------------------------------------------------------
(* DirOps::Cleanup: ListDir.                                               *)

(* OPENDIR.  A directory that is not there is success with nothing to do,
   so a refusal ends the pass as an error or as that; either way nothing is
   deleted.                                                                *)
OpenDir(end) ==
  /\ pass.stage = "open"
  /\ Exchange(end)
  /\ IF end = Done
     THEN pass' = [pass EXCEPT !.stage = "list"] /\ atOpen' = present
     ELSE pass' = [pass EXCEPT !.stage = "ended", !.err = TRUE] /\ UNCHANGED atOpen
  /\ UNCHANGED <<stamp, present, used, others>>

(* A NAME reply: some of the names not sent yet, with or without the groups
   of ATTRS this client does not use.                                      *)
NameReply(names, more) ==
  LET order == SetToSeq(names)
      upTo[i \in 0 .. Len(order)] ==
        IF i = 0 THEN <<Field("u32", Len(order))>>
        ELSE LET n == order[i]
             IN upTo[i - 1] \o NameFields(n,
                  more \cup IF stamp[n] = NoTime THEN {} ELSE {"times"}, stamp[n])
  IN upTo[Len(order)]

(* The loop over the entries of one reply.  An entry that is no upload is
   read to its end and skipped, and one too many ends the listing.
   [entries, truncated, err]                                               *)
TakeEntries(f, entries0) ==
  LET count == IF Next1(f, 1, "u32") = 0 THEN 0 ELSE f[1].v
      at[i \in 0 .. count] ==
        IF i = 0 THEN [p |-> 2, entries |-> entries0, truncated |-> FALSE, err |-> count = 0]
        ELSE LET s == at[i - 1]
                 e == Entry(f, s.p)
             IN IF s.err \/ s.truncated THEN s
                ELSE IF e.next = 0 THEN [s EXCEPT !.err = TRUE]
                ELSE IF ~MatchesUploadName(e.name) THEN [s EXCEPT !.p = e.next]
                ELSE IF Cardinality(s.entries) = ListCap THEN [s EXCEPT !.truncated = TRUE]
                ELSE [s EXCEPT !.p = e.next,
                               !.entries = @ \cup {[name |-> e.name, mtime |-> e.mtime]}]
  IN at[count]

Listing == pass.stage = "list" /\ ~pass.err /\ ~pass.truncated /\ ~pass.done

(* READDIR answered with names.  Those created since OPENDIR may be among
   them or not.                                                            *)
ReadNames ==
  /\ Listing
  /\ Done \in Ends({}) /\ Exchange(Done)
  /\ \E names \in SUBSET (present \ pass.sent), more \in {{}, AttrGroups \ {"times"}} :
       /\ Cardinality(names) \in 1 .. FrameSize
       /\ LET took == TakeEntries(NameReply(names, more), pass.entries)
          IN pass' = [pass EXCEPT !.sent = @ \cup names, !.entries = took.entries,
                                  !.truncated = took.truncated, !.err = took.err]
  /\ UNCHANGED <<stamp, present, used, others, atOpen>>

(* READDIR answered with EOF: the server has sent all that was there.      *)
ReadEnd ==
  /\ Listing /\ atOpen \cap present \subseteq pass.sent
  /\ Done \in Ends({}) /\ Exchange(Done)
  /\ pass' = [pass EXCEPT !.done = TRUE]
  /\ UNCHANGED <<stamp, present, used, others, atOpen>>

ReadFails(end) ==
  /\ Listing /\ end # Done
  /\ Exchange(end)
  /\ pass' = [pass EXCEPT !.err = TRUE]
  /\ UNCHANGED <<stamp, present, used, others, atOpen>>

-----------------------------------------------------------------------------
(* The decision.                                                           *)

(* now - mtime in 64 bits, without a sign.                                 *)
Since(now, mtime) == (now - mtime) % Wrap

NewerFirst(a, b) ==
  \/ a.mtime > b.mtime
  \/ a.mtime = b.mtime /\ a.name > b.name

(* A plausible bug, for the check of RemovalsJustified: a file from the
   future is not told from a very old one.                                 *)
Mut_FutureIsOld(e, policy, now) ==
  e.mtime # NoTime /\ Since(now, e.mtime) > policy.age

TooOld(e, policy, now) ==
  e.mtime # NoTime /\ now >= e.mtime /\ Since(now, e.mtime) > policy.age

(* The entries with a time, newest first.                                  *)
Sorted(entries) ==
  LET timed == {e \in entries : e.mtime # NoTime}
  IN CHOOSE s \in [1 .. Cardinality(timed) -> timed] :
       \A i, j \in DOMAIN s : i < j => NewerFirst(s[i], s[j])

(* A plausible bug, for the check of PolicyApplied: one kept too many.     *)
Mut_KeepsOneMore(entries, truncated, now, policy) ==
  IF truncated THEN {}
  ELSE {e \in entries : policy.age > 0 /\ TooOld(e, policy, now)}
         \cup IF policy.keep = 0 THEN {}
              ELSE Range(SubSeq(Sorted(entries), policy.keep + 2, Len(Sorted(entries))))

(* What to delete; no plan is made from a listing that was cut.  A set: an
   entry both rules choose is in the plan once (AddUnique).                *)
PlanRetention(entries, truncated, now, policy) ==
  IF truncated THEN {}
  ELSE {e \in entries : policy.age > 0 /\ TooOld(e, policy, now)}
         \cup IF policy.keep = 0 THEN {}
              ELSE Range(SubSeq(Sorted(entries), policy.keep + 1, Len(Sorted(entries))))

(* The CLOSE of every way out of the listing, and the plan.                *)
CloseDir(end) ==
  /\ pass.stage = "list" /\ ~Listing
  /\ Exchange(end)
  /\ pass' = IF pass.err \/ end # Done
             THEN [pass EXCEPT !.stage = "ended", !.err = TRUE]
             ELSE [pass EXCEPT !.stage = "remove",
                     !.plan = PlanRetention(pass.entries, pass.truncated, pass.now, pass.policy)]
  /\ UNCHANGED <<stamp, present, used, others, atOpen>>

(* One REMOVE.  A file already gone counts as removed, and a failure does
   not stop the rest.  The order of the plan is left open.                 *)
RemoveEntry(e, end) ==
  /\ pass.stage = "remove" /\ e \in pass.plan
  /\ Exchange(end)
  /\ present' = IF end.acts THEN present \ {e.name} ELSE present
  /\ pass' = [pass EXCEPT !.plan = @ \ {e},
                          !.removed = @ + IF end = Done THEN 1 ELSE 0,
                          !.failed = @ + IF end = Done THEN 0 ELSE 1]
  /\ UNCHANGED <<stamp, used, others, atOpen>>

Report ==
  /\ pass.stage = "remove" /\ pass.plan = {}
  /\ pass' = [pass EXCEPT !.stage = "ended"]
  /\ UNCHANGED <<stamp, present, used, others, atOpen, up, inStep, faults>>

-----------------------------------------------------------------------------
(* Another machine that pastes into the same directory and cleans it, and
   the user of the host.                                                   *)
Others ==
  /\ others < MaxOthers /\ pass.stage \in {"list", "remove"}
  /\ \/ \E n \in Uploads \ used : present' = present \cup {n} /\ used' = used \cup {n}
     \/ \E n \in present : present' = present \ {n} /\ UNCHANGED used
  /\ others' = others + 1
  /\ UNCHANGED <<stamp, atOpen, pass, up, inStep, faults>>

DirStep ==
  \/ \E end \in Ends({}) : OpenDir(end)
  \/ ReadNames
  \/ ReadEnd
  \/ \E end \in Ends({}) : ReadFails(end)
  \/ \E end \in Ends({}) : CloseDir(end)
  \/ \E e \in pass.plan, end \in Ends({}) : RemoveEntry(e, end)
  \/ Report
  \/ Others
-----------------------------------------------------------------------------
DirTypeOK ==
  /\ present \subseteq used /\ used \subseteq Names /\ pass.sent \subseteq used
  /\ pass.entries \subseteq Entries /\ pass.plan \subseteq pass.entries
  /\ Cardinality(pass.entries) <= ListCap
  /\ pass.stage = "remove" =>
       pass.removed + pass.failed + Cardinality(pass.plan) <= Cardinality(pass.entries)

(* A listing that is acted on is true, though the directory changed while
   it was read and each entry was found only by reading those before it to
   their last field: every upload in it carries the time it has on the
   server, nothing else is in it, and no upload that was there all along is
   missing unless the listing was cut, which is reported and deletes
   nothing.                                                                *)
ListingTrue ==
  pass.stage = "remove" =>
    /\ \A e \in pass.entries : e.name \in Uploads \cap used /\ e.mtime = stamp[e.name]
    /\ IF pass.truncated THEN pass.plan = {} /\ pass.removed + pass.failed = 0
       ELSE atOpen \cap present \cap Uploads \subseteq {e.name : e \in pass.entries}

(* What the pass deletes it had a reason to: the file is an upload whose
   time is known, and it is older than the age limit by this machine's
   clock, or as many newer uploads as are to be kept were there during the
   pass.  A file from the future is never too old.                         *)
RemovalJustified(n) ==
  LET age == pass.policy.age
      keep == pass.policy.keep
      Newer(m) == stamp[m] # NoTime /\ (stamp[m] > stamp[n] \/ (stamp[m] = stamp[n] /\ m > n))
  IN /\ n \in Uploads /\ stamp[n] # NoTime
     /\ \/ age > 0 /\ pass.now > stamp[n] + age
        \/ keep > 0 /\ Cardinality({m \in used \cap Uploads : Newer(m)}) >= keep

RemovalsJustified ==
  [][pass' # pass => \A n \in present \ present' : RemovalJustified(n)]_<<present, pass>>

(* A pass that reports no failure has applied its policy to what it found:
   of the uploads that were there when it began, no more than the number to
   keep and none above the age limit are left, those without a time aside. *)
PolicyApplied ==
  pass.stage = "ended" /\ ~pass.err /\ ~pass.truncated /\ pass.failed = 0 =>
    LET left == {n \in atOpen \cap present \cap Uploads : stamp[n] # NoTime}
    IN /\ pass.policy.keep > 0 => Cardinality(left) <= pass.policy.keep
       /\ pass.policy.age > 0 => \A n \in left : pass.now <= stamp[n] + pass.policy.age
=============================================================================
