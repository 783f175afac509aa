------------------------------- MODULE Chord --------------------------------
(***************************************************************************)
(* The hotkey and the paste chord at one keyboard: the text of the         *)
(* configuration (ParseHotkey), the chord registered with the system or,   *)
(* where another program owns it, filtered by a low-level hook             *)
(* (src/platform/win32/hotkey.cpp), and the ctrl+shift+v that the program  *)
(* types itself (SendPasteChord, src/platform/win32/inject.cpp).           *)
(*                                                                         *)
(* Both see the modifiers as the system does, which is what the user holds *)
(* until the program lets go of a key the user still holds down.  There is *)
(* a left and a right one of Ctrl and of Shift, which the chord tells      *)
(* apart; of Alt and Win it lets go on either side.  The key pressed last  *)
(* repeats, and no other.                                                  *)
(***************************************************************************)
EXTENDS Integers, Sequences, FiniteSets

CONSTANTS
  Texts,       (* the hotkeys a configuration may name, as their tokens    *)
  MaxStrokes,  (* bound: keys pressed and let go by the user               *)
  MaxPastes    (* bound: paste chords                                      *)

ASSUME ChordAssumption ==
  Texts \subseteq Seq(STRING) /\ {MaxStrokes, MaxPastes} \subseteq Nat

VARIABLES
  binding,   (* the parsed hotkey                                          *)
  backend,   (* HotkeyRegistration::backend_                               *)
  keyDown,   (* g_active_chord.key_down                                    *)
  down,      (* the modifier keys that are down, as GetAsyncKeyState tells *)
  held,      (* the keys the user holds                                    *)
  last,      (* the key that repeats                                       *)
  strokes,   (* keys pressed and let go so far                             *)
  pastes,    (* paste chords so far                                        *)
  settling,  (* SendPasteChord has looked at the held modifiers and let go
                of them                                                    *)
  posted,    (* history: hotkey messages since the trigger key went down   *)
  due,       (* history: it went down with the modifiers of the hotkey     *)
  merged,    (* history: Alt or Win went down between that and the chord   *)
  arrived    (* history: what became of the last paste chord               *)

chordVars == <<binding, backend, keyDown, down, held, last, strokes, pastes,
               settling, posted, due, merged, arrived>>
keyboard == <<down, held, last, strokes>>

(* The modifiers of a hotkey, and the keys that are modifiers.             *)
Modifiers == {"ctrl", "alt", "shift", "win"}
ModifierKeys == Modifiers \cup {"rctrl", "rshift"}
NoKey == "none"

(* ModifiersDown: a modifier is down when the key on either side is.       *)
Generic(k) == CASE k = "rctrl" -> "ctrl" [] k = "rshift" -> "shift" [] OTHER -> k
ModifiersDown == {Generic(k) : k \in down}

-----------------------------------------------------------------------------
(* The text.  ApplyModifier: the modifier a token names, or NoKey.         *)
Modifier(token) ==
  CASE token \in {"ctrl", "control"} -> "ctrl"
    [] token = "alt" -> "alt"
    [] token = "shift" -> "shift"
    [] token \in {"win", "windows", "meta"} -> "win"
    [] OTHER -> NoKey

(* ResolveHotkeyKey: the keys there are names for.                         *)
Keys == {"v", "f9", "insert"}

(* NextHotkeyToken: a separator at the end is no empty token.              *)
Tokens(text) ==
  IF text # <<>> /\ text[Len(text)] = "" THEN SubSeq(text, 1, Len(text) - 1) ELSE text

(* ParseHotkeyTokens: each modifier once and at most one key.              *)
ParseHotkeyTokens(tokens) ==
  LET read[i \in 0 .. Len(tokens)] ==
        IF i = 0 THEN [ok |-> TRUE, mods |-> {}, key |-> NoKey]
        ELSE LET r == read[i - 1]
                 m == Modifier(tokens[i])
             IN CASE m # NoKey ->
                       [r EXCEPT !.ok = @ /\ m \notin r.mods, !.mods = @ \cup {m}]
                  [] OTHER ->
                       [r EXCEPT !.ok = @ /\ r.key = NoKey /\ tokens[i] \in Keys,
                                 !.key = tokens[i]]
  IN read[Len(tokens)]

(* A plausible bug, for the check of PasteArrives: only the system's own
   paste is refused.                                                       *)
Mut_OwnChordAllowed(text) ==
  LET r == ParseHotkeyTokens(IF text = <<>> THEN <<"alt", "shift", "v">> ELSE Tokens(text))
  IN [r EXCEPT !.ok = @ /\ r.mods # {} /\ r.key # NoKey
                        /\ ~(r.key = "v" /\ r.mods = {"ctrl"})]

(* ParseHotkey: at least one modifier and a key, and not the chord the
   program types itself nor the system's paste.                            *)
ParseHotkey(text) ==
  LET r == ParseHotkeyTokens(IF text = <<>> THEN <<"alt", "shift", "v">> ELSE Tokens(text))
  IN [r EXCEPT !.ok = @ /\ r.mods # {} /\ r.key # NoKey
                        /\ ~(r.key = "v" /\ r.mods \in {{"ctrl"}, {"ctrl", "shift"}})]

-----------------------------------------------------------------------------
ChordInit ==
  /\ binding \in {ParseHotkey(t) : t \in Texts}
  /\ backend = "none" /\ keyDown = FALSE
  /\ down = {} /\ held = {} /\ last = NoKey
  /\ strokes = 0 /\ pastes = 0 /\ settling = FALSE
  /\ posted = 0 /\ due = FALSE /\ merged = FALSE /\ arrived = "nothing yet"

(* HotkeyRegistration::Install: registered, or hooked when the chord is
   another program's.  Any other failure leaves the program without it.    *)
Install ==
  /\ backend = "none" /\ binding.ok /\ strokes = 0
  /\ backend' \in {"registered", "hook"}
  /\ keyDown' = FALSE
  /\ UNCHANGED <<binding, keyboard, pastes, settling, posted, due, merged, arrived>>

(* The trigger key goes down rather than repeats, and the messages since.  *)
Fresh(isDown) == isDown /\ binding.key \notin held
Posted(isDown) == IF Fresh(isDown) THEN 0 ELSE posted

(* A plausible bug, for the check of FiresAreThePresses: the latch is
   released only while the modifiers are still down.                       *)
Mut_LatchNeedsModifiers(isDown, injected) ==
  LET exact == ~injected /\ ModifiersDown = binding.mods
      fires == exact /\ isDown /\ ~keyDown
  IN /\ keyDown' = IF fires THEN TRUE ELSE IF exact /\ ~isDown THEN FALSE ELSE keyDown
     /\ posted' = Posted(isDown) + IF fires THEN 1 ELSE 0

(* ChordHookProc, for the trigger key: an up releases the latch whatever the
   modifiers; injected keys and other modifiers pass; the rest is swallowed,
   and a fresh press posts the message.                                    *)
ChordHookProc(isDown, injected) ==
  LET exact == ~injected /\ ModifiersDown = binding.mods
      fires == exact /\ isDown /\ ~keyDown
  IN /\ keyDown' = IF ~isDown THEN FALSE ELSE keyDown \/ fires
     /\ posted' = Posted(isDown) + IF fires THEN 1 ELSE 0

(* The trigger key goes down, up or repeats.  With MOD_NOREPEAT the system
   posts the message of a registered chord for a fresh press only.         *)
TriggerKey(isDown) ==
  CASE backend = "hook" -> ChordHookProc(isDown, FALSE)
    [] backend = "registered" ->
         /\ posted' = Posted(isDown)
                       + IF Fresh(isDown) /\ ModifiersDown = binding.mods THEN 1 ELSE 0
         /\ UNCHANGED keyDown
    [] OTHER -> UNCHANGED <<keyDown, posted>>

-----------------------------------------------------------------------------
(* The user.                                                               *)
Typing == backend # "none" /\ strokes < MaxStrokes
Settles(m) == settling /\ m \in {"alt", "win"}

PressModifier(m) ==
  /\ m \notin held /\ Typing
  /\ held' = held \cup {m} /\ down' = down \cup {m} /\ last' = m
  /\ strokes' = strokes + 1
  /\ merged' = (merged \/ Settles(m))
  /\ UNCHANGED <<binding, backend, keyDown, pastes, settling, posted, due, arrived>>

ReleaseModifier(m) ==
  /\ m \in held /\ Typing
  /\ held' = held \ {m} /\ down' = down \ {m}
  /\ last' = IF last = m THEN NoKey ELSE last
  /\ strokes' = strokes + 1
  /\ UNCHANGED <<binding, backend, keyDown, pastes, settling, posted, due,
                 merged, arrived>>

PressTrigger ==
  /\ binding.key \notin held /\ Typing
  /\ held' = held \cup {binding.key} /\ last' = binding.key
  /\ strokes' = strokes + 1
  /\ TriggerKey(TRUE)
  /\ due' = (ModifiersDown = binding.mods)
  /\ UNCHANGED <<binding, backend, down, pastes, settling, merged, arrived>>

ReleaseTrigger ==
  /\ binding.key \in held /\ Typing
  /\ held' = held \ {binding.key}
  /\ last' = IF last = binding.key THEN NoKey ELSE last
  /\ strokes' = strokes + 1
  /\ TriggerKey(FALSE)
  /\ UNCHANGED <<binding, backend, down, pastes, settling, due, merged, arrived>>

(* The key pressed last repeats: a modifier the program had let go of is
   down again.                                                             *)
RepeatTrigger ==
  /\ last = binding.key /\ last # NoKey
  /\ TriggerKey(TRUE)
  /\ UNCHANGED <<binding, backend, keyboard, pastes, settling, due, merged, arrived>>

RepeatModifier ==
  /\ last \in ModifierKeys
  /\ down' = down \cup {last}
  /\ merged' = (merged \/ Settles(last))
  /\ UNCHANGED <<binding, backend, keyDown, held, last, strokes, pastes, settling,
                 posted, due, arrived>>

-----------------------------------------------------------------------------
(* SendPasteChord.                                                         *)

(* A plausible bug, for the check of PasteArrives: Win is forgotten.       *)
Mut_OnlyAlt == down \cap {"alt"}

(* The modifiers that would merge into the chord.                          *)
HeldModifiers == down \cap {"alt", "win"}

(* Lets go of them; when there was one, 15 ms pass before the chord.       *)
ReleaseModifiers ==
  /\ backend # "none" /\ ~settling /\ pastes < MaxPastes
  /\ down' = down \ HeldModifiers
  /\ settling' = TRUE /\ pastes' = pastes + 1
  /\ UNCHANGED <<binding, backend, keyDown, held, last, strokes, posted, due,
                 merged, arrived>>

(* SendInput refuses the chord, or had refused the keys to let go of: the
   window of a process with more rights.                                   *)
Rejected ==
  /\ settling
  /\ settling' = FALSE /\ arrived' = "rejected"
  /\ UNCHANGED <<binding, backend, keyDown, keyboard, pastes, posted, due, merged>>

(* Ctrl, Shift and V go down and up in one call, with nothing between: the
   keys on the left, so one held on the right stays down.  A registered chord
   that matches takes the V, whoever pressed it; the hook sees an injected V,
   of which only the up changes anything.                                  *)
TypeChord ==
  /\ settling
  /\ LET with == ModifiersDown \cup {"ctrl", "shift"}
         taken == binding.key = "v" /\ backend = "registered" /\ with = binding.mods
     IN /\ arrived' = IF taken THEN "taken" ELSE IF with = {"ctrl", "shift"} THEN "paste" ELSE "other"
        /\ IF binding.key = "v" /\ backend = "hook"
           THEN ChordHookProc(FALSE, TRUE)
           ELSE posted' = posted + (IF taken THEN 1 ELSE 0) /\ UNCHANGED keyDown
  /\ down' = down \ {"ctrl", "shift"}
  /\ settling' = FALSE
  /\ UNCHANGED <<binding, backend, held, last, strokes, pastes, due, merged>>

ChordStep ==
  \/ Install
  \/ \E m \in ModifierKeys : PressModifier(m) \/ ReleaseModifier(m)
  \/ PressTrigger
  \/ ReleaseTrigger
  \/ RepeatTrigger
  \/ RepeatModifier
  \/ ReleaseModifiers
  \/ Rejected
  \/ TypeChord
-----------------------------------------------------------------------------
ChordTypeOK ==
  /\ binding.mods \subseteq Modifiers
  /\ backend # "none" => binding.ok /\ binding.mods # {} /\ binding.key \in Keys
  /\ down \subseteq held \cap ModifierKeys
  /\ last \in held \cup {NoKey}
  /\ keyDown => backend = "hook" /\ binding.key \in held
  /\ pastes <= MaxPastes

(* The hotkeys whose hook sees its own key again after a paste: the V that the
   program types releases the latch under the V that the user holds and that
   repeats, and a Shift held on the right is still down.                   *)
Reopened == backend = "hook" /\ binding.key = "v" /\ binding.mods = {"shift"}

(* A press of the hotkey fires, also after one whose modifiers were let go
   first; a registered hotkey fires for nothing else; and neither fires a
   second time while its key is held, for the repetitions of the key or for the
   paste chord that the program types through the same hook.  The code keeps
   that promise (hotkey.cpp: only a fresh press posts again, the program's own
   paste does not re-enter) with three exceptions, which are stated here and
   not excused elsewhere: the hook also fires late, for a key that repeats, when
   one modifier too many is let go; Reopened, where every paste while Shift is
   held on the right fires the hotkey once more; and once Alt or Win went down
   between the look at the keys and the chord, which may then be the hotkey. *)
FiresAreThePresses ==
  /\ due => posted > 0
  /\ posted > 0 => due \/ backend = "hook" \/ merged
  /\ posted > 1 => Reopened \/ merged

(* A paste chord that the system accepts reaches the window as ctrl+shift+v,
   whatever the user holds at that moment: no modifier is merged into it and
   the program's own hotkey does not take it.                              *)
PasteArrives == arrived \in {"nothing yet", "rejected", "paste"} \/ merged
=============================================================================
