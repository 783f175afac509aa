------------------------------- MODULE Desktop ------------------------------
(***************************************************************************)
(* The two ends of a press on the user's desktop: the keyboard, where the  *)
(* hotkey fires and the paste chord is typed, and the clipboard, where the *)
(* image comes from.  The code shares nothing between them but the         *)
(* hotkey's message, which Supervisor and Pipeline model, so a behaviour   *)
(* is of one of them.                                                      *)
(***************************************************************************)
EXTENDS Chord, ClipboardCapture

VARIABLE part    (* which of them this behaviour is                        *)

vars == <<part, chordVars, captureVars>>

(* The other one stays at one of its initial states.                       *)
Init ==
  /\ part \in {"keyboard", "clipboard"}
  /\ ChordInit /\ (part = "clipboard" => binding = ParseHotkey(<<>>))
  /\ CaptureInit /\ (part = "keyboard" => blocks = <<>> /\ holder = "nobody")

Keyboard  == part = "keyboard" /\ ChordStep /\ UNCHANGED <<part, captureVars>>
Clipboard == part = "clipboard" /\ CaptureStep /\ UNCHANGED <<part, chordVars>>

Next == Keyboard \/ Clipboard

Spec == Init /\ [][Next]_vars
-----------------------------------------------------------------------------
TypeOK ==
  /\ ChordTypeOK
  /\ CaptureTypeOK
=============================================================================
