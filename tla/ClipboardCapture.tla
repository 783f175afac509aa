-------------------------- MODULE ClipboardCapture --------------------------
(***************************************************************************)
(* The capture of an image from the clipboard to a temporary file          *)
(* (src/platform/win32/clipboard.cpp): open the clipboard while others use *)
(* it, list the formats, and try each that is listed, best first, until    *)
(* one yields its bytes.  The owner renders blocks late or dies.           *)
(***************************************************************************)
EXTENDS Integers, Sequences, FiniteSets

CONSTANTS
  OpenAttempts,    (* attempts to open the clipboard, 20 ms apart          *)
  kFetchAttempts   (* attempts to fetch a block                            *)

ASSUME CaptureAssumption == {OpenAttempts, kFetchAttempts} \subseteq Nat \ {0}

VARIABLES
  blocks,    (* what the owner published: a kind of block by format        *)
  holder,    (* who has the clipboard open                                 *)
  cap,       (* the capture: where it is, and what it will report          *)
  temp,      (* the temporary file, and what is in it                      *)
  tries      (* history: the verdict on each format tried                  *)

captureVars == <<blocks, holder, cap, temp, tries>>

(* Best first.                                                             *)
Formats == <<"png", "dibv5", "dib", "bitmap">>

(* A block may be too large for the limit once it is a PNG, have no bytes,
   or hold something that is no image.                                     *)
BlockKinds == {"good", "large", "empty", "corrupt"}

(* Windows makes a DIB of a bitmap; where one is published, it is that one. *)
BlockOf(format) ==
  IF format = "bitmap" /\ "dib" \in DOMAIN blocks THEN blocks["dib"] ELSE blocks[format]

CaptureInit ==
  /\ \E listed \in SUBSET {Formats[i] : i \in 1 .. Len(Formats)} :
       blocks \in [listed -> BlockKinds]
  /\ holder \in {"nobody", "another"}
  /\ cap = [stage |-> "open", attempt |-> 1, at |-> 0, error |-> "noImage", source |-> "none"]
  /\ temp = "none" /\ tries = <<>>

(* A plausible bug, for the check of TypeOK: one way out does not close the
   clipboard.                                                              *)
Mut_LeftOpen(error, source, file) ==
  /\ cap' = [cap EXCEPT !.stage = "done", !.error = error, !.source = source]
  /\ temp' = IF source = "none" THEN "none" ELSE file
  /\ UNCHANGED holder

(* The capture ends: the guard deletes the file unless it is the result, and
   the clipboard is closed.                                                *)
Return(error, source, file) ==
  /\ cap' = [cap EXCEPT !.stage = "done", !.error = error, !.source = source]
  /\ temp' = IF source = "none" THEN "none" ELSE file
  /\ holder' = IF holder = "us" THEN "nobody" ELSE holder

(* OpenClipboardWithRetry.                                                 *)
OpenClipboard ==
  /\ cap.stage = "open"
  /\ CASE holder = "nobody" ->
            /\ holder' = "us" /\ cap' = [cap EXCEPT !.stage = "list"] /\ UNCHANGED temp
       [] holder # "nobody" /\ cap.attempt < OpenAttempts ->
            /\ cap' = [cap EXCEPT !.attempt = @ + 1] /\ UNCHANGED <<holder, temp>>
       [] OTHER -> Return("openFailed", "none", temp)
  /\ UNCHANGED <<blocks, tries>>

(* Another program opens the clipboard and closes it.                      *)
Another ==
  /\ cap.stage = "open" /\ holder # "us"
  /\ holder' = IF holder = "nobody" THEN "another" ELSE "nobody"
  /\ UNCHANGED <<blocks, cap, temp, tries>>

(* The first listed format after the given one; past the last, none.       *)
NextListed(at) ==
  LET left == {i \in at + 1 .. Len(Formats) : Formats[i] \in DOMAIN blocks}
  IN IF left = {} THEN Len(Formats) + 1 ELSE CHOOSE i \in left : \A j \in left : i <= j

(* InspectClipboardFormats, and the temporary file, whose name the system
   makes.                                                                  *)
ListFormats ==
  /\ cap.stage = "list"
  /\ IF DOMAIN blocks = {} THEN Return("noImage", "none", temp)
     ELSE \/ Return("tempFailed", "none", temp)
          \/ /\ temp' = "blank" /\ UNCHANGED holder
             /\ cap' = [cap EXCEPT !.stage = "fetch", !.attempt = 1, !.at = NextListed(0)]
  /\ UNCHANGED <<blocks, tries>>

(* A plausible bug, for the check of CaptureVerdict: the first failure wins,
   whatever it was.                                                        *)
Mut_FirstFailure(kept, candidate) == IF kept = "noImage" THEN candidate ELSE kept

(* WorseFailure: too large outranks the rest, and of those the first stays. *)
WorseFailure(kept, candidate) ==
  IF "tooLarge" \in {kept, candidate} THEN "tooLarge"
  ELSE IF kept = "noImage" THEN candidate ELSE kept

(* A format failed: on to the next, or the report of the worst failure.    *)
Fail(error, file) ==
  LET worst == WorseFailure(cap.error, error)
      next == NextListed(cap.at)
  IN /\ tries' = Append(tries, [format |-> Formats[cap.at], error |-> error])
     /\ IF next > Len(Formats) THEN Return(worst, "none", file)
        ELSE /\ cap' = [cap EXCEPT !.stage = "fetch", !.attempt = 1, !.at = next, !.error = worst]
             /\ temp' = file /\ UNCHANGED holder

(* FetchClipboardBlock: NULL while the owner still renders the block, and
   for ever when it is gone.                                               *)
Fetch ==
  /\ cap.stage = "fetch"
  /\ \/ cap' = [cap EXCEPT !.stage = "take"] /\ UNCHANGED <<temp, holder, tries>>
     \/ /\ cap.attempt < kFetchAttempts
        /\ cap' = [cap EXCEPT !.attempt = @ + 1] /\ UNCHANGED <<temp, holder, tries>>
     \/ cap.attempt = kFetchAttempts /\ Fail("readFailed", temp)
  /\ UNCHANGED blocks

(* A format yields the image.                                              *)
Captured ==
  /\ tries' = Append(tries, [format |-> Formats[cap.at], error |-> "none"])
  /\ Return("none", Formats[cap.at], Formats[cap.at])

(* CaptureRegisteredPng: the size is looked at before the lock, and what is
   in the block is not.                                                    *)
TakePng ==
  /\ cap.stage = "take" /\ Formats[cap.at] = "png"
  /\ CASE BlockOf("png") = "large" -> Fail("tooLarge", temp)
       [] BlockOf("png") = "empty" -> Fail("readFailed", temp)
       [] OTHER -> Captured \/ Fail("lockFailed", temp) \/ Fail("tempFailed", "partial")
  /\ UNCHANGED blocks

(* CaptureOneDib and EncodeDibToPngFile, which deletes the file it failed to
   write; the next format creates it again.                                *)
TakeDib ==
  /\ cap.stage = "take" /\ Formats[cap.at] # "png"
  /\ CASE BlockOf(Formats[cap.at]) = "empty" -> Fail("readFailed", temp)
       [] BlockOf(Formats[cap.at]) = "corrupt" -> Fail("lockFailed", temp) \/ Fail("encodeFailed", temp)
       [] BlockOf(Formats[cap.at]) = "large" ->
            \/ Fail("lockFailed", temp) \/ Fail("encodeFailed", "none")
            \/ Fail("tempFailed", "none") \/ Fail("tooLarge", "none")
       [] OTHER -> Captured \/ Fail("lockFailed", temp) \/ Fail("encodeFailed", "none")
                            \/ Fail("tempFailed", "none")
  /\ UNCHANGED blocks

CaptureStep ==
  \/ OpenClipboard
  \/ Another
  \/ ListFormats
  \/ Fetch
  \/ TakePng
  \/ TakeDib
-----------------------------------------------------------------------------
CaptureTypeOK ==
  /\ cap.attempt \in 1 .. OpenAttempts + kFetchAttempts
  /\ holder = "us" <=> cap.stage \in {"list", "fetch", "take"}
  /\ cap.stage \in {"fetch", "take"} => Formats[cap.at] \in DOMAIN blocks
  /\ Len(tries) <= Len(Formats)

(* Every listed format better than that one was tried and failed.          *)
BetterFailed(format) ==
  \A i, j \in 1 .. Len(Formats) :
    i < j /\ Formats[j] = format /\ Formats[i] \in DOMAIN blocks =>
      \E k \in 1 .. Len(tries) : tries[k].format = Formats[i] /\ tries[k].error # "none"

(* What the capture reports is what the clipboard and the formats say: an
   image, with its file and no other failure hiding it, from the best format
   that yields one; no image only when none is listed; too large whenever
   one was, since that the user can act on; otherwise the failure of the best
   format, after every listed one was tried.  Nothing is left behind but the
   file of a captured image, and the clipboard is free again.              *)
CaptureVerdict ==
  cap.stage = "done" =>
    LET errors == {tries[i].error : i \in 1 .. Len(tries)}
        tried == {tries[i].format : i \in 1 .. Len(tries)}
    IN /\ holder # "us"
       /\ IF cap.source # "none"
          THEN /\ temp = cap.source
               /\ BlockOf(cap.source) \in {"good"} \cup IF cap.source = "png" THEN {"corrupt"} ELSE {}
               /\ "none" \in errors /\ BetterFailed(cap.source)
          ELSE temp = "none" /\ "none" \notin errors
       /\ tries # <<>> /\ cap.source = "none" =>
            /\ tried = DOMAIN blocks
            /\ cap.error = IF "tooLarge" \in errors THEN "tooLarge" ELSE tries[1].error
       /\ tries = <<>> => cap.error \in {"openFailed", "tempFailed", "noImage"}
       /\ (cap.error = "noImage") = (DOMAIN blocks = {} /\ cap.error # "openFailed")
=============================================================================
