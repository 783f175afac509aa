---------------------------- MODULE DesktopProofs -----------------------------
(***************************************************************************)
(* The keyboard for every hotkey a configuration may name and every number *)
(* of strokes and pastes, and the clipboard for everything its owner may   *)
(* have published and every number of attempts.                            *)
(***************************************************************************)
EXTENDS Desktop, SequenceTheorems, WellFoundedInduction, TLAPS

(* What ParseHotkeyTokens has read: an error is kept, so a text that is good
   to the end named no key but those there are names for.                  *)
Readings(words) ==
  {r \in [ok : BOOLEAN, mods : SUBSET Modifiers, key : words \cup {NoKey}] :
     r.ok => r.key \in Keys \cup {NoKey}}

(* A hotkey is no chord that the program types itself.                     *)
Binding ==
  /\ binding.ok \in BOOLEAN /\ binding.mods \subseteq Modifiers
  /\ binding.ok =>
       /\ binding.mods # {} /\ binding.key \in Keys
       /\ ~(binding.key = "v" /\ binding.mods \in {{"ctrl"}, {"ctrl", "shift"}})

Keyboard0 ==
  /\ backend \in {"none", "registered", "hook"} /\ {keyDown, due} \subseteq BOOLEAN
  /\ {settling, merged} \subseteq BOOLEAN
  /\ backend = "none" => down = {} /\ last = NoKey /\ posted = 0 /\ ~settling
  /\ held \subseteq ModifierKeys \cup Keys /\ pastes \in Nat /\ posted \in Nat

(* Nothing that merges into the chord is down when it is typed.            *)
LetGo == settling => down \cap {"alt", "win"} = {} \/ merged

(* The latch is set under a key that repeats and has fired, unless the chord's
   own V has released it.  Then no modifier is down but a Ctrl or a Shift on
   the right, and to press another stops the repetition.                   *)
Latched ==
  backend = "hook" /\ last = binding.key /\ posted > 0 /\ ~keyDown =>
    merged \/ (binding.key = "v" /\ ModifiersDown \subseteq {"ctrl", "shift"})

ChordInv ==
  /\ Binding /\ Keyboard0 /\ ChordTypeOK /\ LetGo /\ Latched
  /\ FiresAreThePresses /\ PasteArrives

-----------------------------------------------------------------------------
Listable == {Formats[i] : i \in 1 .. Len(Formats)}
Failures == {"tooLarge", "readFailed", "lockFailed", "encodeFailed", "tempFailed"}

CaptureTypes ==
  /\ DOMAIN blocks \subseteq Listable /\ blocks \in [DOMAIN blocks -> BlockKinds]
  /\ holder \in {"nobody", "another", "us"}
  /\ cap \in [stage : {"open", "list", "fetch", "take", "done"}, attempt : Nat, at : 0 .. 4,
              error : Failures \cup {"none", "noImage", "openFailed"},
              source : Listable \cup {"none"}]
  /\ tries \in Seq([format : Listable, error : Failures \cup {"none"}])

(* The report of the failures so far (WorseFailure).                       *)
Errors(t) == {t[i].error : i \in 1 .. Len(t)}
Tried(t)  == {t[i].format : i \in 1 .. Len(t)}
Worst(t) ==
  IF t = <<>> THEN "noImage"
  ELSE IF "tooLarge" \in Errors(t) THEN "tooLarge" ELSE t[1].error

(* While it goes on, every listed format better than the one at hand has
   failed.                                                                 *)
SoFar ==
  /\ cap.stage \in {"open", "list"} => tries = <<>> /\ cap.error = "noImage" /\ temp = "none"
  /\ cap.stage \in {"fetch", "take"} =>
       /\ cap.at \in 1 .. 4 /\ Len(tries) < cap.at
       /\ Tried(tries) = {Formats[i] : i \in 1 .. cap.at - 1} \cap DOMAIN blocks
       /\ Errors(tries) \subseteq Failures /\ cap.error = Worst(tries)
  /\ cap.stage # "done" => cap.source = "none"
  /\ cap.stage \in {"open", "list"} => cap.attempt <= OpenAttempts
  /\ cap.stage \in {"fetch", "take"} => cap.attempt <= kFetchAttempts

CaptureInv == CaptureTypes /\ CaptureTypeOK /\ SoFar /\ CaptureVerdict

DesktopInv == ChordInv /\ CaptureInv

-----------------------------------------------------------------------------
(* Loops over a sequence.                                                  *)

(* Every nonempty set of natural numbers has a least element.              *)
LEMMA LeastNatural ==
  ASSUME NEW T \in SUBSET Nat, T # {}
  PROVE  \E m \in T : \A k \in T : m <= k
<1> DEFINE R == OpToRel(<, Nat)
<1>1. IsWellFoundedOn(R, Nat)
  BY NatLessThanWellFounded
<1>2. \A x, y \in Nat : x < y => <<x, y>> \in R
  BY DEF OpToRel
<1> HIDE DEF R
<1>3. PICK m \in T : \A y \in T : ~(<<y, m>> \in R)
  BY <1>1, WFMin, Zenon
<1>4. \A k \in T : ~(k < m)
  BY <1>2, <1>3, Zenon
<1>5. \A k \in T : m <= k
  BY <1>4
<1> QED BY <1>5

(* What holds of 0 and of the successor of each number it holds of, holds up
   to n.                                                                   *)
LEMMA UpTo ==
  ASSUME NEW n \in Nat, NEW good, 0 \in good,
         \A i \in 1 .. n : i - 1 \in good => i \in good
  PROVE  \A i \in 0 .. n : i \in good
<1> DEFINE bad == {i \in 0 .. n : i \notin good}
<1> SUFFICES ASSUME bad # {} PROVE FALSE
  OBVIOUS
<1>3. PICK m \in bad : \A k \in bad : m <= k
  <2>1. bad \in SUBSET Nat
    OBVIOUS
  <2> HIDE DEF bad
  <2> QED BY <2>1, LeastNatural
<1>4. m # 0 /\ m \in 1 .. n
  OBVIOUS
<1>5. m - 1 \in bad
  BY <1>4
<1>6. ~(m <= m - 1)
  BY <1>4
<1> QED BY <1>3, <1>5, <1>6

(* The states of a loop after each of its n rounds.                        *)
IsLoop(f, n, S, base, step) ==
  /\ f \in [0 .. n -> S] /\ f[0] = base
  /\ \A i \in 1 .. n : f[i] = step[i][f[i - 1]]

(* A loop with n rounds has a result.                                      *)
LEMMA LoopExists ==
  ASSUME NEW n \in Nat, NEW S, NEW base \in S, NEW step \in [1 .. n -> [S -> S]]
  PROVE  \E f : IsLoop(f, n, S, base, step)
<1> DEFINE Runs(m) == \E f : IsLoop(f, m, S, base, step)
           good == {m \in 0 .. n : Runs(m)}
<1>1. 0 \in good
  <2> DEFINE f == [i \in 0 .. 0 |-> base]
  <2>1. f \in [0 .. 0 -> S] /\ f[0] = base /\ \A i \in 1 .. 0 : f[i] = step[i][f[i - 1]]
    OBVIOUS
  <2> HIDE DEF f
  <2>2. Runs(0)
    BY <2>1 DEF IsLoop
  <2> HIDE DEF Runs
  <2> QED BY <2>2
<1>2. ASSUME NEW m \in 1 .. n, m - 1 \in good PROVE m \in good
  <2>1. PICK f \in [0 .. m - 1 -> S] :
          f[0] = base /\ \A i \in 1 .. m - 1 : f[i] = step[i][f[i - 1]]
    BY <1>2 DEF IsLoop
  <2> DEFINE g == [i \in 0 .. m |-> IF i < m THEN f[i] ELSE step[m][f[m - 1]]]
  <2>2. f[m - 1] \in S /\ step[m][f[m - 1]] \in S
    OBVIOUS
  <2>3. g \in [0 .. m -> S]
    BY <2>2
  <2>4. /\ \A i \in 0 .. m - 1 : g[i] = f[i]
        /\ g[m] = step[m][f[m - 1]]
    OBVIOUS
  <2> HIDE DEF g
  <2>5. g[0] = base
    BY <2>1, <2>4
  <2>6. ASSUME NEW i \in 1 .. m PROVE g[i] = step[i][g[i - 1]]
    <3>1. CASE i = m
      BY <2>4, <3>1
    <3>2. CASE i # m
      BY <2>1, <2>4, <3>2
    <3> QED BY <3>1, <3>2
  <2>7. Runs(m)
    BY <2>3, <2>5, <2>6 DEF IsLoop
  <2> HIDE DEF Runs
  <2> QED BY <2>7
<1>3. n \in 0 .. n
  OBVIOUS
<1> HIDE DEF good
<1>4. n \in good
  BY <1>1, <1>2, <1>3, UpTo
<1> QED BY <1>4 DEF good

(* Whatever the tokens are.                                                *)
LEMMA ParsedTokens ==
  ASSUME NEW words, NEW tokens \in Seq(words)
  PROVE  ParseHotkeyTokens(tokens) \in Readings(words)
<1> DEFINE read[i \in 0 .. Len(tokens)] ==
             IF i = 0 THEN [ok |-> TRUE, mods |-> {}, key |-> NoKey]
             ELSE LET r == read[i - 1]
                      m == Modifier(tokens[i])
                  IN CASE m # NoKey ->
                            [r EXCEPT !.ok = @ /\ m \notin r.mods, !.mods = @ \cup {m}]
                       [] OTHER ->
                            [r EXCEPT !.ok = @ /\ r.key = NoKey /\ tokens[i] \in Keys,
                                      !.key = tokens[i]]
<1>1. ParseHotkeyTokens(tokens) = read[Len(tokens)]
  BY DEF ParseHotkeyTokens
<1>. HIDE DEF read
<1> DEFINE n == Len(tokens)
           base == [ok |-> TRUE, mods |-> {}, key |-> NoKey]
           With(r, i) ==
             IF Modifier(tokens[i]) # NoKey
             THEN [r EXCEPT !.ok = @ /\ Modifier(tokens[i]) \notin r.mods,
                            !.mods = @ \cup {Modifier(tokens[i])}]
             ELSE [r EXCEPT !.ok = @ /\ r.key = NoKey /\ tokens[i] \in Keys,
                            !.key = tokens[i]]
           Body(f, i) ==
             IF i = 0 THEN [ok |-> TRUE, mods |-> {}, key |-> NoKey]
             ELSE LET r == f[i - 1]
                      m == Modifier(tokens[i])
                  IN CASE m # NoKey ->
                            [r EXCEPT !.ok = @ /\ m \notin r.mods, !.mods = @ \cup {m}]
                       [] OTHER ->
                            [r EXCEPT !.ok = @ /\ r.key = NoKey /\ tokens[i] \in Keys,
                                      !.key = tokens[i]]
<1>0. \A f, i : Body(f, i) = IF i = 0 THEN base ELSE With(f[i - 1], i)
  OBVIOUS
<1>. HIDE DEF Body
<1>2. n \in Nat /\ \A i \in 1 .. n : tokens[i] \in words
  OBVIOUS
<1>3. base \in Readings(words)
  <2>1. base \in [ok : BOOLEAN, mods : SUBSET Modifiers, key : words \cup {NoKey}] /\ base.key = NoKey
    OBVIOUS
  <2> HIDE DEF base
  <2> QED BY <2>1 DEF Readings
<1>4. ASSUME NEW r \in Readings(words), NEW i \in 1 .. n PROVE With(r, i) \in Readings(words)
  <2>1. Modifier(tokens[i]) # NoKey => Modifier(tokens[i]) \in Modifiers
    BY DEF Modifier, Modifiers
  <2>2. r \in [ok : BOOLEAN, mods : SUBSET Modifiers, key : words \cup {NoKey}]
    BY DEF Readings
  <2>3. CASE Modifier(tokens[i]) # NoKey
    <3> DEFINE s == [r EXCEPT !.ok = @ /\ Modifier(tokens[i]) \notin r.mods,
                              !.mods = @ \cup {Modifier(tokens[i])}]
    <3>1. s \in [ok : BOOLEAN, mods : SUBSET Modifiers, key : words \cup {NoKey}]
      BY <2>1, <2>2, <2>3
    <3>2. s.ok => r.ok /\ s.key = r.key
      BY <2>2
    <3>3. With(r, i) = s
      BY <2>3
    <3> QED BY <3>1, <3>2, <3>3 DEF Readings
  <2>4. CASE Modifier(tokens[i]) = NoKey
    <3> DEFINE s == [r EXCEPT !.ok = @ /\ r.key = NoKey /\ tokens[i] \in Keys,
                              !.key = tokens[i]]
    <3>1. s \in [ok : BOOLEAN, mods : SUBSET Modifiers, key : words \cup {NoKey}]
      BY <1>2, <2>2
    <3>2. s.ok => s.key \in Keys
      BY <2>2
    <3>3. With(r, i) = s
      BY <2>4
    <3> QED BY <3>1, <3>2, <3>3 DEF Readings
  <2> QED BY <2>3, <2>4
<1>5. \E f : f = [i \in 0 .. n |-> Body(f, i)] /\ f[n] \in Readings(words)
  <2> DEFINE step == [i \in 1 .. n |-> [r \in Readings(words) |-> With(r, i)]]
  <2> HIDE DEF With
  <2>1. step \in [1 .. n -> [Readings(words) -> Readings(words)]]
    BY <1>4
  <2>2. \A i \in 1 .. n, r \in Readings(words) : step[i][r] = With(r, i)
    OBVIOUS
  <2> HIDE DEF step, base, n, With
  <2>3. PICK f \in [0 .. n -> Readings(words)] :
          f[0] = base /\ \A i \in 1 .. n : f[i] = step[i][f[i - 1]]
    <3> DEFINE S == Readings(words)
    <3>1. n \in Nat /\ base \in S /\ step \in [1 .. n -> [S -> S]]
      BY <1>2, <1>3, <2>1
    <3> HIDE DEF S
    <3>2. \E f : IsLoop(f, n, S, base, step)
      BY <3>1, LoopExists
    <3> QED BY <3>2 DEF S, IsLoop
  <2>4. \A i \in 0 .. n : f[i] = Body(f, i)
    BY <1>0, <1>2, <2>2, <2>3
  <2>5. f = [i \in 0 .. n |-> Body(f, i)] /\ f[n] \in Readings(words)
    BY <1>2, <2>4
  <2> QED BY <2>5
<1>6. read = [i \in 0 .. n |-> Body(read, i)]
  BY <1>5, Zenon DEF read, Body
<1> DEFINE good == {i \in 0 .. n : read[i] \in Readings(words)}
<1>7. 0 \in good
  <2> HIDE DEF base, n, With
  <2>1. read[0] = base
    BY <1>0, <1>2, <1>6
  <2> QED BY <1>2, <1>3, <2>1
<1>8. \A i \in 1 .. n : i - 1 \in good => i \in good
  <2> HIDE DEF base, n, With
  <2>1. \A i \in 1 .. n : read[i] = With(read[i - 1], i)
    BY <1>0, <1>2, <1>6
  <2> QED BY <1>2, <1>4, <2>1
<1>9. n \in good
  <2> HIDE DEF good, n
  <2>1. \A i \in 0 .. n : i \in good
    BY <1>2, <1>7, <1>8, UpTo
  <2> QED BY <1>2, <2>1
<1> QED BY <1>1, <1>9

(* Every text gives a hotkey that can be told from the program's own chord, or
   none.                                                                   *)
LEMMA ParsedHotkey ==
  ASSUME NEW text \in Texts
  PROVE  LET b == ParseHotkey(text)
         IN /\ b.ok \in BOOLEAN /\ b.mods \subseteq Modifiers
            /\ b.ok => /\ b.mods # {} /\ b.key \in Keys
                       /\ ~(b.key = "v" /\ b.mods \in {{"ctrl"}, {"ctrl", "shift"}})
<1> DEFINE words == STRING \cup {"alt", "shift", "v"}
           default == <<"alt", "shift", "v">>
           tokens == IF text = <<>> THEN default ELSE Tokens(text)
           r == ParseHotkeyTokens(tokens)
           b == ParseHotkey(text)
<1>1. tokens \in Seq(words)
  <2>1. default \in Seq(words)
    OBVIOUS
  <2>2. Tokens(text) \in Seq(words)
    <3>1. text \in Seq(words)
      <4>1. text \in Seq(STRING)
        BY ChordAssumption
      <4>2. Len(text) \in Nat /\ \A i \in 1 .. Len(text) : text[i] \in words
        BY <4>1
      <4>3. text = [i \in 1 .. Len(text) |-> text[i]]
        BY <4>1
      <4> HIDE DEF words
      <4> QED BY <4>2, <4>3
    <3>2. text # <<>> => SubSeq(text, 1, Len(text) - 1) \in Seq(words)
      <4>1. Len(text) \in Nat
        BY <3>1
      <4>2. SUFFICES ASSUME text # <<>> PROVE SubSeq(text, 1, Len(text) - 1) \in Seq(words)
        OBVIOUS
      <4>3. Len(text) - 1 \in 0 .. Len(text)
        BY <3>1, <4>1, <4>2, EmptySeq
      <4> HIDE DEF words
      <4>4. \A i \in 1 .. Len(text) - 1 : text[i] \in words
        BY <3>1, <4>1
      <4> QED BY <3>1, <4>1, <4>3, <4>4, SubSeqProperties
    <3> HIDE DEF words
    <3> QED BY <3>1, <3>2 DEF Tokens
  <2> HIDE DEF words, default
  <2> QED BY <2>1, <2>2
<1>2. r \in Readings(words)
  <2> HIDE DEF tokens, words
  <2> QED BY <1>1, ParsedTokens
<1>3. b = [r EXCEPT !.ok = @ /\ r.mods # {} /\ r.key # NoKey
                           /\ ~(r.key = "v" /\ r.mods \in {{"ctrl"}, {"ctrl", "shift"}})]
  BY DEF ParseHotkey
<1> HIDE DEF r, b, words
<1>4. /\ b.mods = r.mods /\ b.key = r.key
      /\ b.ok = (r.ok /\ r.mods # {} /\ r.key # NoKey
                      /\ ~(r.key = "v" /\ r.mods \in {{"ctrl"}, {"ctrl", "shift"}}))
  BY <1>2, <1>3 DEF Readings
<1>5. r.ok \in BOOLEAN /\ r.mods \subseteq Modifiers /\ (r.ok => r.key \in Keys \cup {NoKey})
  BY <1>2 DEF Readings
<1>6. b.ok \in BOOLEAN /\ b.mods \subseteq Modifiers
  BY <1>4, <1>5
<1>7. b.ok => /\ b.mods # {} /\ b.key \in Keys
              /\ ~(b.key = "v" /\ b.mods \in {{"ctrl"}, {"ctrl", "shift"}})
  BY <1>4, <1>5
<1> QED BY <1>6, <1>7 DEF b

-----------------------------------------------------------------------------
(* The keyboard.                                                           *)

LEMMA KeyFacts ==
  NoKey \notin Keys /\ NoKey \notin ModifierKeys /\ Keys \cap ModifierKeys = {} /\ "v" \in Keys
BY DEF NoKey, Keys, Modifiers, ModifierKeys

(* To let go of keys lets go of modifiers.                                 *)
LEMMA FewerDown ==
  ASSUME down' \subseteq down
  PROVE  ModifiersDown' \subseteq ModifiersDown
BY DEF ModifiersDown

(* What is left when Alt and Win are up.                                   *)
LEMMA OnlyCtrlAndShift ==
  ASSUME down \subseteq ModifierKeys, down \cap {"alt", "win"} = {}
  PROVE  ModifiersDown \subseteq {"ctrl", "shift"}
<1>1. \A k \in down : k \in {"ctrl", "shift", "rctrl", "rshift"}
  BY DEF ModifierKeys, Modifiers
<1>2. \A k \in {"ctrl", "shift", "rctrl", "rshift"} : Generic(k) \in {"ctrl", "shift"}
  BY DEF Generic
<1> QED BY <1>1, <1>2 DEF ModifiersDown

LEMMA PasteBound == MaxPastes \in Nat
<1>1. {MaxStrokes, MaxPastes} \subseteq Nat
  BY ChordAssumption, Zenon
<1> QED BY <1>1

LEMMA ChordStarts == Init => ChordInv
<1> SUFFICES ASSUME Init PROVE ChordInv
  OBVIOUS
<1>1. Binding
  <2>1. PICK text \in Texts : binding = ParseHotkey(text)
    BY DEF Init, ChordInit
  <2> QED BY <2>1, ParsedHotkey DEF Binding
<1>2. /\ backend = "none" /\ keyDown = FALSE /\ down = {} /\ held = {} /\ last = NoKey
      /\ strokes = 0 /\ pastes = 0 /\ settling = FALSE /\ posted = 0
      /\ due = FALSE /\ merged = FALSE /\ arrived = "nothing yet"
  BY DEF Init, ChordInit
<1>3. Keyboard0 /\ LetGo /\ Latched /\ FiresAreThePresses /\ PasteArrives
  <2>1. Keyboard0
    BY <1>2 DEF Keyboard0
  <2>2. ~(posted > 0) /\ ~(posted > 1)
    <3>1. posted = 0
      BY <1>2, Zenon
    <3>2. ~(0 > 0) /\ ~(0 > 1)
      OBVIOUS
    <3> QED BY <3>1, <3>2, Zenon
  <2>3. ~due
    BY <1>2, Zenon
  <2>4. Latched /\ FiresAreThePresses
    BY <2>2, <2>3, Zenon DEF Latched, FiresAreThePresses
  <2> QED BY <1>2, <2>1, <2>4 DEF LetGo, PasteArrives
<1>4. ChordTypeOK
  <2>1. pastes <= MaxPastes
    <3>1. pastes = 0
      BY <1>2
    <3> QED BY <3>1, PasteBound
  <2> QED BY <1>1, <1>2, <2>1 DEF ChordTypeOK, Binding
<1> QED BY <1>1, <1>3, <1>4 DEF ChordInv

(* The hotkey is registered or hooked before the first stroke.             *)
LEMMA InstallKeeps ==
  ASSUME ChordInv, Install
  PROVE  ChordInv'
<1>1. /\ backend = "none" /\ binding.ok /\ backend' \in {"registered", "hook"}
      /\ keyDown' = FALSE
      /\ UNCHANGED <<binding, down, held, last, strokes, pastes, settling, posted, due,
                     merged, arrived>>
  BY DEF Install, keyboard
<1>2. Binding' /\ Keyboard0' /\ LetGo' /\ FiresAreThePresses' /\ PasteArrives'
  BY <1>1 DEF ChordInv, Binding, Keyboard0, LetGo, FiresAreThePresses, Reopened, PasteArrives
<1>3. ChordTypeOK'
  BY <1>1 DEF ChordInv, Binding, ChordTypeOK
<1>4. Latched'
  BY <1>1 DEF ChordInv, Keyboard0, Latched
<1> QED BY <1>2, <1>3, <1>4 DEF ChordInv

(* A modifier goes down, by the user or because it repeats.                *)
LEMMA ModifierDownKeeps ==
  ASSUME ChordInv, NEW m \in ModifierKeys, PressModifier(m) \/ (RepeatModifier /\ last = m)
  PROVE  ChordInv'
<1>1. /\ down' = down \cup {m} /\ merged' = (merged \/ Settles(m)) /\ last' = m
      /\ held' = held \cup {m} /\ backend # "none"
      /\ UNCHANGED <<binding, backend, keyDown, pastes, settling, posted, due, arrived>>
  BY KeyFacts DEF PressModifier, RepeatModifier, Typing, ChordInv, ChordTypeOK, Keyboard0
<1>2. (settling /\ m \in {"alt", "win"} => merged') /\ (merged => merged')
      /\ merged' \in BOOLEAN
  BY <1>1 DEF Settles, ChordInv, Keyboard0
<1>3. Binding' /\ Keyboard0' /\ ChordTypeOK'
  BY <1>1, <1>2 DEF ChordInv, Binding, Keyboard0, ChordTypeOK
<1>4. LetGo'
  BY <1>1, <1>2 DEF ChordInv, LetGo
<1>5. Latched'
  <2>1. backend = "hook" => binding.key \in Keys
    BY DEF ChordInv, ChordTypeOK
  <2> QED BY <1>1, <2>1, KeyFacts DEF Latched
<1>6. FiresAreThePresses' /\ PasteArrives'
  BY <1>1, <1>2 DEF ChordInv, FiresAreThePresses, Reopened, PasteArrives
<1> QED BY <1>3, <1>4, <1>5, <1>6 DEF ChordInv

LEMMA ModifierUpKeeps ==
  ASSUME ChordInv, NEW m \in ModifierKeys, ReleaseModifier(m)
  PROVE  ChordInv'
<1>1. /\ down' = down \ {m} /\ last' = (IF last = m THEN NoKey ELSE last)
      /\ held' = held \ {m} /\ backend # "none"
      /\ UNCHANGED <<binding, backend, keyDown, pastes, settling, posted, due, merged,
                     arrived>>
  BY DEF ReleaseModifier, Typing
<1>2. Binding' /\ Keyboard0' /\ LetGo' /\ FiresAreThePresses' /\ PasteArrives'
  BY <1>1 DEF ChordInv, Binding, Keyboard0, LetGo, FiresAreThePresses, Reopened, PasteArrives
<1>3. binding.key \in Keys
  BY <1>1 DEF ChordInv, ChordTypeOK
<1>4. ChordTypeOK'
  BY <1>1, <1>3, KeyFacts DEF ChordInv, ChordTypeOK
<1>5. Latched'
  <2>1. ModifiersDown' \subseteq ModifiersDown
    BY <1>1, FewerDown
  <2> HIDE DEF ModifiersDown
  <2> QED BY <1>1, <1>3, <2>1, KeyFacts DEF ChordInv, Latched
<1> QED BY <1>2, <1>4, <1>5 DEF ChordInv

(* A press posts the message exactly when it is the hotkey.                *)
LEMMA PressTriggerKeeps ==
  ASSUME ChordInv, PressTrigger
  PROVE  ChordInv'
<1>1. /\ binding.key \notin held /\ backend # "none"
      /\ held' = held \cup {binding.key} /\ last' = binding.key
      /\ TriggerKey(TRUE)
      /\ due' = (ModifiersDown = binding.mods)
      /\ UNCHANGED <<binding, backend, down, pastes, settling, merged, arrived>>
  BY DEF PressTrigger, Typing
<1>2. binding.key \in Keys /\ keyDown = FALSE /\ keyDown \in BOOLEAN
  BY <1>1 DEF ChordInv, ChordTypeOK, Keyboard0
<1>3. /\ posted' = (IF ModifiersDown = binding.mods THEN 1 ELSE 0)
      /\ keyDown' \in BOOLEAN /\ (keyDown' => backend = "hook")
      /\ backend = "hook" => keyDown' = (ModifiersDown = binding.mods)
  <2>1. CASE backend = "hook"
    BY <1>1, <1>2, <2>1 DEF TriggerKey, ChordHookProc, Posted, Fresh
  <2>2. CASE backend = "registered"
    BY <1>1, <1>2, <2>2 DEF TriggerKey, Posted, Fresh
  <2> QED BY <1>1, <2>1, <2>2 DEF ChordInv, Keyboard0
<1>4. due' \in BOOLEAN /\ posted' \in Nat
  BY <1>1, <1>3
<1>5. Binding' /\ Keyboard0' /\ LetGo' /\ PasteArrives'
  BY <1>1, <1>2, <1>3, <1>4 DEF ChordInv, Binding, Keyboard0, LetGo, PasteArrives
<1>6. FiresAreThePresses'
  <2>1. /\ ModifiersDown = binding.mods => posted' > 0
        /\ posted' > 0 => ModifiersDown = binding.mods
        /\ ~(posted' > 1)
    BY <1>3
  <2>2. due' <=> ModifiersDown = binding.mods
    BY <1>1, Zenon
  <2> HIDE DEF ModifiersDown
  <2> QED BY <2>1, <2>2, Zenon DEF FiresAreThePresses
<1>7. Latched'
  <2>1. posted' > 0 => ModifiersDown = binding.mods
    BY <1>3
  <2>2. backend' = "hook" /\ posted' > 0 => keyDown'
    <3>1. backend' = backend
      BY <1>1
    <3> QED BY <1>3, <2>1, <3>1, Zenon
  <2> QED BY <2>2, Zenon DEF Latched
<1>8. ChordTypeOK'
  BY <1>1, <1>2, <1>3, KeyFacts DEF ChordInv, ChordTypeOK
<1> QED BY <1>5, <1>6, <1>7, <1>8 DEF ChordInv

LEMMA ReleaseTriggerKeeps ==
  ASSUME ChordInv, ReleaseTrigger
  PROVE  ChordInv'
<1>1. /\ binding.key \in held /\ backend # "none"
      /\ held' = held \ {binding.key}
      /\ last' = (IF last = binding.key THEN NoKey ELSE last)
      /\ TriggerKey(FALSE)
      /\ UNCHANGED <<binding, backend, down, pastes, settling, due, merged, arrived>>
  BY DEF ReleaseTrigger, Typing
<1>2. binding.key \in Keys /\ backend \in {"registered", "hook"} /\ posted \in Nat
  BY <1>1 DEF ChordInv, ChordTypeOK, Keyboard0
<1>3. posted' = posted /\ keyDown' \in BOOLEAN /\ keyDown' = FALSE
  <2>1. CASE backend = "hook"
    BY <1>1, <1>2, <2>1 DEF TriggerKey, ChordHookProc, Posted, Fresh
  <2>2. CASE backend = "registered"
    BY <1>1, <1>2, <2>2 DEF TriggerKey, Posted, Fresh, ChordInv, ChordTypeOK, Keyboard0
  <2> QED BY <1>2, <2>1, <2>2
<1>4. Binding' /\ Keyboard0' /\ LetGo' /\ FiresAreThePresses' /\ PasteArrives'
  BY <1>1, <1>3
     DEF ChordInv, Binding, Keyboard0, LetGo, FiresAreThePresses, Reopened, PasteArrives
<1>5. ChordTypeOK'
  BY <1>1, <1>2, <1>3, KeyFacts DEF ChordInv, ChordTypeOK
<1>6. Latched'
  BY <1>1, <1>2, <1>3, KeyFacts DEF Latched
<1> QED BY <1>4, <1>5, <1>6 DEF ChordInv

(* A key that repeats posts a second time only where the chord's V has released
   the latch and the modifiers that are left are the hotkey's: that is Shift
   alone, since ParseHotkey refuses the others.                            *)
LEMMA RepeatTriggerKeeps ==
  ASSUME ChordInv, RepeatTrigger
  PROVE  ChordInv'
<1>1. /\ last = binding.key /\ last # NoKey /\ TriggerKey(TRUE)
      /\ UNCHANGED <<binding, backend, down, held, last, strokes, pastes, settling, due, merged,
                     arrived>>
  BY DEF RepeatTrigger, keyboard
<1>2. /\ posted \in Nat /\ keyDown \in BOOLEAN /\ merged \in BOOLEAN
      /\ backend \in {"registered", "hook"}
      /\ binding.ok /\ binding.mods # {} /\ binding.key \in held
  BY <1>1, KeyFacts DEF ChordInv, ChordTypeOK, Keyboard0
<1>3. ~Fresh(TRUE) /\ Posted(TRUE) = posted
  BY <1>2 DEF Fresh, Posted
<1>4. CASE backend = "hook"
  <2> DEFINE fires == ModifiersDown = binding.mods /\ ~keyDown
  <2>1. keyDown' = (keyDown \/ fires) /\ posted' = posted + (IF fires THEN 1 ELSE 0)
    BY <1>1, <1>3, <1>4 DEF TriggerKey, ChordHookProc
  <2>2. fires /\ posted > 0 => merged \/ Reopened
    <3> SUFFICES ASSUME fires, posted > 0, ~merged PROVE Reopened
      BY <1>2
    <3>1. binding.key = "v" /\ binding.mods \subseteq {"ctrl", "shift"}
      BY <1>1, <1>4 DEF ChordInv, Latched
    <3>2. binding.mods \notin {{"ctrl"}, {"ctrl", "shift"}}
      BY <1>2, <3>1 DEF ChordInv, Binding
    <3>3. binding.mods = {"shift"}
      BY <1>2, <3>1, <3>2
    <3> QED BY <1>4, <3>1, <3>3 DEF Reopened
  <2> HIDE DEF fires
  <2>3. /\ posted' \in Nat /\ keyDown' \in BOOLEAN
        /\ (posted > 0 => posted' > 0) /\ (fires \/ posted' = posted)
        /\ (posted' > 1 => posted > 1 \/ (fires /\ posted > 0))
    BY <1>2, <2>1
  <2>4. FiresAreThePresses'
    BY <1>1, <1>4, <2>2, <2>3 DEF ChordInv, FiresAreThePresses, Reopened
  <2>5. Latched'
    <3>1. ModifiersDown' = ModifiersDown
      BY <1>1 DEF ModifiersDown
    <3>2. CASE fires
      BY <2>1, <3>2 DEF Latched
    <3>3. CASE ~fires
      <4>1. keyDown' = keyDown /\ posted' = posted
        BY <1>2, <2>1, <3>3
      <4> QED BY <1>1, <3>1, <4>1 DEF ChordInv, Latched
    <3> QED BY <3>2, <3>3
  <2>6. Binding' /\ Keyboard0' /\ LetGo' /\ PasteArrives' /\ ChordTypeOK'
    BY <1>1, <1>2, <1>4, <2>3
       DEF ChordInv, Binding, Keyboard0, LetGo, PasteArrives, ChordTypeOK
  <2> QED BY <2>4, <2>5, <2>6 DEF ChordInv
<1>5. CASE backend = "registered"
  <2>1. UNCHANGED <<posted, keyDown>>
    <3>1. posted' = posted + 0 /\ keyDown' = keyDown
      BY <1>1, <1>3, <1>5 DEF TriggerKey
    <3> QED BY <1>2, <3>1
  <2>2. Latched'
    BY <1>1, <1>5 DEF Latched
  <2> QED BY <1>1, <1>5, <2>1, <2>2
          DEF ChordInv, Binding, Keyboard0, LetGo, PasteArrives, ChordTypeOK,
              FiresAreThePresses, Reopened
<1> QED BY <1>2, <1>4, <1>5

LEMMA ReleaseModifiersKeeps ==
  ASSUME ChordInv, ReleaseModifiers
  PROVE  ChordInv'
<1>1. /\ backend # "none" /\ pastes < MaxPastes
      /\ down' = down \ {"alt", "win"} /\ settling' = TRUE /\ pastes' = pastes + 1
      /\ UNCHANGED <<binding, backend, keyDown, held, last, posted, due, merged,
                     arrived>>
  BY DEF ReleaseModifiers, HeldModifiers
<1>2. LetGo'
  BY <1>1 DEF LetGo
<1>3. Binding' /\ FiresAreThePresses' /\ PasteArrives'
  BY <1>1 DEF ChordInv, Binding, FiresAreThePresses, Reopened, PasteArrives
<1>4. Keyboard0'
  BY <1>1 DEF ChordInv, Keyboard0
<1>5. ChordTypeOK'
  BY <1>1, PasteBound DEF ChordInv, Keyboard0, ChordTypeOK
<1>6. Latched'
  <2>1. ModifiersDown' \subseteq ModifiersDown
    BY <1>1, FewerDown
  <2> QED BY <1>1, <2>1 DEF ChordInv, Latched
<1> QED BY <1>2, <1>3, <1>4, <1>5, <1>6 DEF ChordInv

LEMMA RejectedKeeps ==
  ASSUME ChordInv, Rejected
  PROVE  ChordInv'
<1>1. /\ settling' = FALSE /\ arrived' = "rejected"
      /\ UNCHANGED <<binding, backend, keyDown, down, held, last, pastes, posted, due,
                     merged>>
  BY DEF Rejected, keyboard
<1>2. Binding' /\ Keyboard0' /\ LetGo' /\ FiresAreThePresses' /\ PasteArrives'
  BY <1>1 DEF ChordInv, Binding, Keyboard0, LetGo, FiresAreThePresses, Reopened, PasteArrives
<1>3. ChordTypeOK' /\ Latched'
  BY <1>1 DEF ChordInv, ChordTypeOK, Latched, ModifiersDown
<1> QED BY <1>2, <1>3 DEF ChordInv

(* The chord is a paste when nothing merged into it: the hotkey is not that
   chord, and no modifier but Ctrl and Shift is down.                      *)
LEMMA TypeChordKeeps ==
  ASSUME ChordInv, TypeChord
  PROVE  ChordInv'
<1> DEFINE with  == ModifiersDown \cup {"ctrl", "shift"}
           taken == binding.key = "v" /\ backend = "registered" /\ with = binding.mods
           own   == binding.key = "v" /\ backend = "hook"
<1>1. /\ settling /\ settling' = FALSE /\ down' = down \ {"ctrl", "shift"}
      /\ arrived' = IF taken THEN "taken" ELSE IF with = {"ctrl", "shift"} THEN "paste"
                                               ELSE "other"
      /\ IF own THEN ChordHookProc(FALSE, TRUE)
                ELSE posted' = posted + (IF taken THEN 1 ELSE 0) /\ UNCHANGED keyDown
      /\ UNCHANGED <<binding, backend, held, last, pastes, due, merged>>
  BY DEF TypeChord
<1>2. /\ posted \in Nat /\ keyDown \in BOOLEAN /\ merged \in BOOLEAN
      /\ down \subseteq ModifierKeys
  BY DEF ChordInv, Keyboard0, ChordTypeOK
<1>3. ~merged => with = {"ctrl", "shift"} /\ ModifiersDown' \subseteq {"ctrl", "shift"} /\ ~taken
  <2>1. ~merged => down \cap {"alt", "win"} = {}
    BY <1>1 DEF ChordInv, LetGo
  <2>2. ~merged => ModifiersDown \subseteq {"ctrl", "shift"}
    BY <1>2, <2>1, OnlyCtrlAndShift
  <2>3. ModifiersDown' \subseteq ModifiersDown
    BY <1>1, FewerDown
  <2>4. with = {"ctrl", "shift"} => ~taken
    <3>1. backend = "registered" => ~(binding.key = "v" /\ binding.mods = {"ctrl", "shift"})
      BY DEF ChordInv, ChordTypeOK, Binding
    <3> HIDE DEF with
    <3> QED BY <3>1
  <2> QED BY <2>2, <2>3, <2>4
<1> HIDE DEF with, taken
<1>4. /\ posted' \in Nat /\ posted' >= posted /\ (~merged => posted' = posted)
      /\ keyDown' \in BOOLEAN /\ (keyDown' => keyDown) /\ (~own => keyDown' = keyDown)
  <2>1. CASE own
    BY <1>1, <1>2, <2>1 DEF ChordHookProc, Posted, Fresh
  <2>2. CASE ~own
    <3>1. posted' = posted + (IF taken THEN 1 ELSE 0) /\ UNCHANGED keyDown
      BY <1>1, <2>2
    <3>2. CASE taken
      BY <1>2, <1>3, <2>2, <3>1, <3>2
    <3>3. CASE ~taken
      BY <1>2, <2>2, <3>1, <3>3
    <3> QED BY <3>2, <3>3
  <2> QED BY <2>1, <2>2
<1>5. Binding' /\ LetGo'
  BY <1>1 DEF ChordInv, Binding, LetGo
<1>6. ChordTypeOK'
  BY <1>1, <1>4 DEF ChordInv, ChordTypeOK
<1>7. Latched'
  <2> SUFFICES ASSUME backend = "hook", last = binding.key, posted' > 0, ~keyDown', ~merged
               PROVE  binding.key = "v" /\ ModifiersDown' \subseteq {"ctrl", "shift"}
    BY <1>1, <1>2 DEF Latched
  <2>1. CASE own
    BY <1>3, <2>1
  <2>2. CASE ~own
    BY <1>2, <1>3, <1>4, <2>2 DEF ChordInv, Latched
  <2> QED BY <2>1, <2>2
<1>8. PasteArrives'
  BY <1>1, <1>3 DEF PasteArrives
<1>9. FiresAreThePresses'
  <2>1. /\ due => posted > 0
        /\ posted > 0 => due \/ backend = "hook" \/ merged
        /\ posted > 1 => Reopened \/ merged
    BY DEF ChordInv, FiresAreThePresses, Reopened
  <2>2. UNCHANGED <<due, backend, merged>> /\ Reopened' = Reopened
    BY <1>1 DEF Reopened
  <2>3. due' => posted' > 0
    BY <1>2, <1>4, <2>1, <2>2
  <2>4. ~merged => posted' = posted
    BY <1>4
  <2> QED BY <1>2, <2>1, <2>2, <2>3, <2>4 DEF FiresAreThePresses
<1>10. Keyboard0'
  <2>1. backend # "none"
    BY <1>1 DEF ChordInv, Keyboard0
  <2> QED BY <1>1, <1>4 DEF ChordInv, Keyboard0
<1> QED BY <1>5, <1>6, <1>7, <1>8, <1>9, <1>10 DEF ChordInv

LEMMA ChordStepKeeps ==
  ASSUME ChordInv, ChordStep
  PROVE  ChordInv'
<1>1. CASE Install
  BY <1>1, InstallKeeps
<1>2. CASE \E m \in ModifierKeys : PressModifier(m) \/ ReleaseModifier(m)
  BY <1>2, ModifierDownKeeps, ModifierUpKeeps
<1>3. CASE PressTrigger
  BY <1>3, PressTriggerKeeps
<1>4. CASE ReleaseTrigger
  BY <1>4, ReleaseTriggerKeeps
<1>5. CASE RepeatTrigger
  BY <1>5, RepeatTriggerKeeps
<1>6. CASE RepeatModifier
  <2>1. last \in ModifierKeys
    BY <1>6 DEF RepeatModifier
  <2> QED BY <1>6, <2>1, ModifierDownKeeps
<1>7. CASE ReleaseModifiers
  BY <1>7, ReleaseModifiersKeeps
<1>8. CASE Rejected
  BY <1>8, RejectedKeeps
<1>9. CASE TypeChord
  BY <1>9, TypeChordKeeps
<1> QED BY <1>1, <1>2, <1>3, <1>4, <1>5, <1>6, <1>7, <1>8, <1>9 DEF ChordStep

LEMMA ChordRests ==
  ASSUME ChordInv, UNCHANGED chordVars
  PROVE  ChordInv'
BY DEF chordVars, ChordInv, Binding, Keyboard0, LetGo, Latched, PasteArrives, ChordTypeOK,
   FiresAreThePresses, Reopened, ModifiersDown

-----------------------------------------------------------------------------
(* The clipboard.                                                          *)

LEMMA FormatFacts ==
  /\ Len(Formats) = 4 /\ Listable = {"png", "dibv5", "dib", "bitmap"}
  /\ Formats[1] = "png" /\ Formats[2] = "dibv5" /\ Formats[3] = "dib" /\ Formats[4] = "bitmap"
  /\ \A i \in 1 .. 4 : Formats[i] \in Listable /\ Formats[i] # "none"
<1>1. /\ Len(Formats) = 4
      /\ Formats[1] = "png" /\ Formats[2] = "dibv5" /\ Formats[3] = "dib"
      /\ Formats[4] = "bitmap"
  BY DEF Formats
<1> HIDE DEF Formats
<1>2. \A i \in 1 .. 4 : i = 1 \/ i = 2 \/ i = 3 \/ i = 4
  OBVIOUS
<1>3. Listable = {"png", "dibv5", "dib", "bitmap"}
  BY <1>1, <1>2 DEF Listable
<1> QED BY <1>1, <1>2, <1>3

(* The formats between the one at hand and the next are not listed.        *)
LEMMA NextIsNext ==
  ASSUME NEW at \in 0 .. 4
  PROVE  LET next == NextListed(at)
         IN /\ next \in at + 1 .. 5
            /\ next # 5 => Formats[next] \in DOMAIN blocks
            /\ \A i \in at + 1 .. next - 1 : Formats[i] \notin DOMAIN blocks
<1> DEFINE left == {i \in at + 1 .. Len(Formats) : Formats[i] \in DOMAIN blocks}
           next == NextListed(at)
<1>1. Len(Formats) = 4
  BY FormatFacts
<1>2. next = IF left = {} THEN 5 ELSE CHOOSE i \in left : \A j \in left : i <= j
  BY <1>1 DEF NextListed
<1>3. left \subseteq at + 1 .. 4
  BY <1>1
<1>4. CASE left = {}
  BY <1>1, <1>2, <1>4
<1>5. CASE left # {}
  <2>1. \E i \in left : \A j \in left : i <= j
    <3>1. left \in SUBSET Nat
      BY <1>3
    <3> HIDE DEF left
    <3> QED BY <1>5, <3>1, LeastNatural
  <2> HIDE DEF next
  <2>2. next \in left /\ \A j \in left : next <= j
    <3> HIDE DEF left
    <3> QED BY <1>2, <1>5, <2>1
  <2>3. next \in at + 1 .. 4 /\ Formats[next] \in DOMAIN blocks
    BY <1>1, <2>2
  <2>4. ASSUME NEW i \in at + 1 .. next - 1 PROVE Formats[i] \notin DOMAIN blocks
    <3>1. i \in at + 1 .. 4 /\ ~(next <= i)
      BY <2>3
    <3> QED BY <1>1, <2>2, <3>1
  <2>5. next \in at + 1 .. 5
    BY <2>3
  <2> QED BY <2>3, <2>4, <2>5 DEF next
<1> QED BY <1>4, <1>5

(* One failure more.                                                       *)
OneMore(t, u, f, e) ==
  /\ Errors(u) = Errors(t) \cup {e} /\ Tried(u) = Tried(t) \cup {f}
  /\ Worst(u) = WorseFailure(Worst(t), e)

LEMMA WorstOfMore ==
  ASSUME NEW t \in Seq([format : Listable, error : Failures \cup {"none"}]),
         Errors(t) \subseteq Failures,
         NEW f \in Listable, NEW e \in Failures,
         NEW u, u = Append(t, [format |-> f, error |-> e])
  PROVE  OneMore(t, u, f, e)
<1>1. /\ Len(t) \in Nat /\ Len(u) = Len(t) + 1 /\ u # <<>>
      /\ \A i \in 1 .. Len(t) : u[i] = t[i]
      /\ u[Len(u)].format = f /\ u[Len(u)].error = e
  <2> DEFINE R == [format : Listable, error : Failures \cup {"none"}]
             r == [format |-> f, error |-> e]
  <2>1. r \in R /\ r.format = f /\ r.error = e /\ t \in Seq(R)
    OBVIOUS
  <2> HIDE DEF R, r
  <2>2. u = Append(t, r)
    BY DEF r
  <2>3. /\ Len(t) \in Nat /\ Len(u) = Len(t) + 1 /\ u # <<>>
        /\ \A i \in 1 .. Len(t) : u[i] = t[i]
        /\ u[Len(t) + 1] = r
    BY <2>1, <2>2, AppendProperties, LenProperties
  <2> QED BY <2>1, <2>3
<1>2. \A i \in 1 .. Len(u) : i \in 1 .. Len(t) \/ i = Len(u)
  BY <1>1
<1>3. \A i \in 1 .. Len(t) : i \in 1 .. Len(u)
  BY <1>1
<1>4. Len(u) \in 1 .. Len(u)
  BY <1>1
<1>5. Errors(u) = Errors(t) \cup {e}
  BY <1>1, <1>2, <1>3, <1>4 DEF Errors
<1>6. Tried(u) = Tried(t) \cup {f}
  BY <1>1, <1>2, <1>3, <1>4 DEF Tried
<1>7. Worst(u) = WorseFailure(Worst(t), e)
  <2>1. CASE t = <<>>
    <3>1. Len(t) = 0
      BY <2>1
    <3>2. u[1].error = e /\ Errors(t) = {}
      BY <1>1, <3>1 DEF Errors
    <3> QED BY <1>1, <1>5, <2>1, <3>2 DEF Worst, WorseFailure, Failures
  <2>2. CASE t # <<>>
    <3>1. 1 \in 1 .. Len(t)
      BY <1>1, <2>2, EmptySeq
    <3>2. u[1].error = t[1].error /\ t[1].error \in Failures
      BY <1>1, <3>1 DEF Errors
    <3> QED BY <1>1, <1>5, <2>2, <3>2 DEF Worst, WorseFailure, Failures
  <2> QED BY <2>1, <2>2
<1> QED BY <1>5, <1>6, <1>7 DEF OneMore

LEMMA CaptureStarts == Init => CaptureInv
<1> SUFFICES ASSUME Init PROVE CaptureInv
  OBVIOUS
<1>1. PICK listed \in SUBSET Listable : blocks \in [listed -> BlockKinds]
  BY DEF Init, CaptureInit, Listable
<1>2. /\ holder \in {"nobody", "another"} /\ temp = "none" /\ tries = <<>>
      /\ cap = [stage |-> "open", attempt |-> 1, at |-> 0, error |-> "noImage",
                source |-> "none"]
  BY DEF Init, CaptureInit
<1>3. OpenAttempts \in Nat \ {0} /\ kFetchAttempts \in Nat \ {0}
  BY CaptureAssumption
<1>4. CaptureTypes
  BY <1>1, <1>2 DEF CaptureTypes
<1>5. CaptureTypeOK /\ SoFar /\ CaptureVerdict
  <2>1. Len(tries) = 0 /\ Len(Formats) = 4
    BY <1>2, FormatFacts
  <2> QED BY <1>2, <1>3, <2>1 DEF CaptureTypeOK, SoFar, CaptureVerdict
<1> QED BY <1>4, <1>5 DEF CaptureInv

(* The capture ends with a report that is true.                            *)
LEMMA ReturnKeeps ==
  ASSUME CaptureInv, NEW error, NEW source, NEW file, Return(error, source, file),
         UNCHANGED blocks, tries' \in Seq([format : Listable, error : Failures \cup {"none"}]),
         error \in Failures \cup {"none", "noImage", "openFailed"},
         Len(tries') <= Len(Formats),
         \/ /\ source \in Listable /\ file = source /\ BetterFailed(source)'
            /\ error = "none" /\ "none" \in Errors(tries') /\ DOMAIN blocks # {}
            /\ BlockOf(source) \in {"good"} \cup IF source = "png" THEN {"corrupt"} ELSE {}
         \/ /\ source = "none" /\ "none" \notin Errors(tries')
            /\ IF tries' = <<>>
               THEN \/ error = "openFailed"
                    \/ error = "tempFailed" /\ DOMAIN blocks # {}
                    \/ error = "noImage" /\ DOMAIN blocks = {}
               ELSE /\ error = Worst(tries') /\ error # "noImage" /\ DOMAIN blocks # {}
                    /\ Tried(tries') = DOMAIN blocks
  PROVE  CaptureInv'
<1>1. /\ cap' = [cap EXCEPT !.stage = "done", !.error = error, !.source = source]
      /\ temp' = IF source = "none" THEN "none" ELSE file
      /\ holder' = IF holder = "us" THEN "nobody" ELSE holder
  BY DEF Return
<1>2. CaptureTypes /\ CaptureTypeOK
  BY DEF CaptureInv
<1>3. cap'.stage = "done" /\ cap'.error = error /\ cap'.source = source
      /\ cap'.attempt = cap.attempt
  BY <1>1, <1>2 DEF CaptureTypes
<1>4. holder' \in {"nobody", "another"}
  BY <1>1, <1>2 DEF CaptureTypes
<1>5. CaptureTypes'
  <2>1. source \in Listable \cup {"none"}
    OBVIOUS
  <2>2. cap' \in [stage : {"open", "list", "fetch", "take", "done"}, attempt : Nat, at : 0 .. 4,
                  error : Failures \cup {"none", "noImage", "openFailed"},
                  source : Listable \cup {"none"}]
    BY <1>1, <1>2, <2>1 DEF CaptureTypes
  <2> QED BY <1>2, <1>4, <2>2 DEF CaptureTypes
<1>6. CaptureTypeOK'
  BY <1>2, <1>3, <1>4 DEF CaptureTypeOK
<1>7. SoFar'
  BY <1>3 DEF SoFar
<1>8. BlockOf(source)' = BlockOf(source)
  BY DEF BlockOf
<1>9. "none" \notin Listable
  BY FormatFacts
<1>10. Errors(tries') = {tries'[i].error : i \in 1 .. Len(tries')}
       /\ Tried(tries') = {tries'[i].format : i \in 1 .. Len(tries')}
  BY DEF Errors, Tried
<1>11. CaptureVerdict'
  <2>1. CASE source # "none"
    <3>1. /\ temp' = source /\ error = "none" /\ DOMAIN blocks # {}
          /\ BlockOf(source) \in {"good"} \cup IF source = "png" THEN {"corrupt"} ELSE {}
          /\ "none" \in Errors(tries') /\ BetterFailed(source)'
      BY <1>1, <2>1
    <3>2. tries' # <<>>
      BY <3>1 DEF Errors
    <3>3. BetterFailed(cap.source)'
      BY <1>3, <3>1 DEF BetterFailed
    <3> QED BY <1>3, <1>4, <1>8, <1>10, <2>1, <3>1, <3>2, <3>3 DEF CaptureVerdict
  <2>2. CASE source = "none"
    <3>1. temp' = "none" /\ "none" \notin Errors(tries')
      BY <1>1, <1>9, <2>2
    <3>2. CASE tries' = <<>>
      <4>1. \/ error = "openFailed"
            \/ error = "tempFailed" /\ DOMAIN blocks # {}
            \/ error = "noImage" /\ DOMAIN blocks = {}
        BY <1>9, <2>2, <3>2
      <4> QED BY <1>3, <1>4, <1>10, <2>2, <3>1, <3>2, <4>1 DEF CaptureVerdict
    <3>3. CASE tries' # <<>>
      <4>1. /\ error = Worst(tries') /\ error # "noImage" /\ DOMAIN blocks # {}
            /\ Tried(tries') = DOMAIN blocks
        BY <1>9, <2>2, <3>3
      <4>2. error = IF "tooLarge" \in Errors(tries') THEN "tooLarge" ELSE tries'[1].error
        BY <3>3, <4>1 DEF Worst
      <4> QED BY <1>3, <1>4, <1>10, <2>2, <3>1, <3>3, <4>1, <4>2 DEF CaptureVerdict
    <3> QED BY <3>2, <3>3
  <2> QED BY <2>1, <2>2
<1> QED BY <1>5, <1>6, <1>7, <1>11 DEF CaptureInv

(* A format that failed: the next one, or the report of the worst.         *)
LEMMA FailKeeps ==
  ASSUME CaptureInv, cap.stage \in {"fetch", "take"}, NEW error \in Failures, NEW file,
         Fail(error, file), UNCHANGED blocks
  PROVE  CaptureInv'
<1> DEFINE worst == WorseFailure(cap.error, error)
           next  == NextListed(cap.at)
           this  == Formats[cap.at]
<1>1. /\ tries' = Append(tries, [format |-> this, error |-> error])
      /\ IF next > Len(Formats) THEN Return(worst, "none", file)
         ELSE /\ cap' = [cap EXCEPT !.stage = "fetch", !.attempt = 1, !.at = next,
                                    !.error = worst]
              /\ UNCHANGED holder
  BY DEF Fail
<1>2. /\ CaptureTypes /\ CaptureTypeOK /\ cap.at \in 1 .. 4 /\ Len(tries) < cap.at
      /\ Tried(tries) = {Formats[i] : i \in 1 .. cap.at - 1} \cap DOMAIN blocks
      /\ Errors(tries) \subseteq Failures /\ cap.error = Worst(tries)
      /\ cap.source = "none"
  BY DEF CaptureInv, SoFar
<1>3. this \in Listable /\ this \in DOMAIN blocks /\ Len(Formats) = 4
  BY <1>2, FormatFacts DEF CaptureTypeOK
<1>4. /\ next \in cap.at + 1 .. 5 /\ (next # 5 => Formats[next] \in DOMAIN blocks)
      /\ \A i \in cap.at + 1 .. next - 1 : Formats[i] \notin DOMAIN blocks
  <2>1. cap.at \in 0 .. 4
    BY <1>2
  <2> QED BY <2>1, NextIsNext
<1>5. tries' \in Seq([format : Listable, error : Failures \cup {"none"}])
      /\ Len(tries') = Len(tries) + 1 /\ Len(tries) \in Nat /\ tries' # <<>>
  <2> DEFINE R == [format : Listable, error : Failures \cup {"none"}]
             r == [format |-> this, error |-> error]
  <2>1. r \in R /\ tries \in Seq(R)
    BY <1>2, <1>3 DEF CaptureTypes
  <2>2. tries' = Append(tries, r)
    BY <1>1
  <2> HIDE DEF R, r
  <2>3. tries' \in Seq(R) /\ Len(tries') = Len(tries) + 1 /\ Len(tries) \in Nat
        /\ tries' # <<>>
    BY <2>1, <2>2, AppendProperties, LenProperties
  <2> QED BY <2>3 DEF R
<1>6. /\ Errors(tries') = Errors(tries) \cup {error} /\ Tried(tries') = Tried(tries) \cup {this}
      /\ Worst(tries') = worst
  <2>1. /\ tries \in Seq([format : Listable, error : Failures \cup {"none"}])
        /\ Errors(tries) \subseteq Failures /\ this \in Listable /\ error \in Failures
    BY <1>2, <1>3 DEF CaptureTypes
  <2>2. tries' = Append(tries, [format |-> this, error |-> error])
    BY <1>1
  <2> HIDE DEF this
  <2>3. OneMore(tries, tries', this, error)
    BY <2>1, <2>2, WorstOfMore, Zenon
  <2> QED BY <1>2, <2>3 DEF OneMore
<1>7. worst \in Failures
  <2>1. cap.error \in Failures \cup {"noImage"}
    <3>1. CASE tries = <<>>
      BY <1>2, <3>1 DEF Worst
    <3>2. CASE tries # <<>>
      <4>1. 1 \in 1 .. Len(tries)
        BY <1>5, <3>2, EmptySeq, <1>2 DEF CaptureTypes
      <4>2. tries[1].error \in Failures
        BY <1>2, <4>1 DEF Errors
      <4> QED BY <1>2, <3>2, <4>2 DEF Worst, Failures
    <3> QED BY <3>1, <3>2
  <2> QED BY <2>1 DEF WorseFailure, Failures
<1>8. Tried(tries') = {Formats[i] : i \in 1 .. next - 1} \cap DOMAIN blocks
  <2>1. \A i \in 1 .. next - 1 : i \in 1 .. cap.at - 1 \/ i = cap.at \/ i \in cap.at + 1 .. next - 1
    BY <1>2, <1>4
  <2>2. /\ cap.at \in 1 .. next - 1
        /\ \A i \in 1 .. cap.at - 1 : i \in 1 .. next - 1
    BY <1>2, <1>4
  <2> HIDE DEF next, this
  <2>3. ASSUME NEW f \in {Formats[i] : i \in 1 .. next - 1} \cap DOMAIN blocks
        PROVE  f \in {Formats[i] : i \in 1 .. cap.at - 1} \cap DOMAIN blocks \/ f = this
    BY <1>4, <2>1 DEF this
  <2>4. ASSUME NEW f \in {Formats[i] : i \in 1 .. cap.at - 1} \cap DOMAIN blocks
        PROVE  f \in {Formats[i] : i \in 1 .. next - 1} \cap DOMAIN blocks
    BY <2>2
  <2>5. this \in {Formats[i] : i \in 1 .. next - 1} \cap DOMAIN blocks
    BY <1>3, <2>2 DEF this
  <2> QED BY <1>2, <1>6, <2>3, <2>4, <2>5
<1> HIDE DEF worst, next, this
<1>9. Errors(tries') \subseteq Failures
  BY <1>2, <1>6
<1>10. CASE next > Len(Formats)
  <2>1. Return(worst, "none", file)
    BY <1>1, <1>10
  <2>2. next = 5
    BY <1>3, <1>4, <1>10, <1>2
  <2>3. Tried(tries') = DOMAIN blocks
    <3>1. {Formats[i] : i \in 1 .. 4} = Listable
      BY FormatFacts DEF Listable
    <3>2. DOMAIN blocks \subseteq Listable
      BY <1>2 DEF CaptureTypes
    <3>3. 1 .. next - 1 = 1 .. 4
      BY <2>2
    <3> QED BY <1>8, <3>1, <3>2, <3>3
  <2>4. "none" \notin Failures /\ "noImage" \notin Failures
    BY DEF Failures
  <2>5. Len(tries') <= Len(Formats)
    BY <1>2, <1>3, <1>5
  <2>6. DOMAIN blocks # {} /\ "none" \notin Errors(tries') /\ worst # "noImage"
    BY <1>3, <1>7, <1>9, <2>4
  <2> QED BY <1>5, <1>6, <1>7, <2>1, <2>3, <2>5, <2>6, ReturnKeeps
<1>11. CASE ~(next > Len(Formats))
  <2>1. /\ cap' = [cap EXCEPT !.stage = "fetch", !.attempt = 1, !.at = next, !.error = worst]
        /\ UNCHANGED holder
    BY <1>1, <1>11
  <2>2. next \in 1 .. 4 /\ next # 5 /\ next >= cap.at + 1
    BY <1>2, <1>3, <1>4, <1>11
  <2>3. /\ cap'.stage = "fetch" /\ cap'.attempt = 1 /\ cap'.at = next /\ cap'.error = worst
        /\ cap'.source = "none"
    BY <1>2, <2>1 DEF CaptureTypes
  <2>4. CaptureTypes'
    <3>1. cap' \in [stage : {"open", "list", "fetch", "take", "done"}, attempt : Nat, at : 0 .. 4,
                    error : Failures \cup {"none", "noImage", "openFailed"},
                    source : Listable \cup {"none"}]
      <4>1. /\ worst \in Failures \cup {"none", "noImage", "openFailed"} /\ next \in 0 .. 4
            /\ 1 \in Nat /\ "fetch" \in {"open", "list", "fetch", "take", "done"}
        BY <1>7, <2>2
      <4> HIDE DEF Failures, Listable
      <4> QED BY <1>2, <2>1, <4>1 DEF CaptureTypes
    <3> QED BY <1>2, <1>5, <2>1, <3>1 DEF CaptureTypes
  <2>5. Len(tries') < next /\ kFetchAttempts \in Nat /\ kFetchAttempts >= 1
        /\ OpenAttempts \in Nat /\ OpenAttempts >= 1
    BY <1>2, <1>5, <2>2, CaptureAssumption
  <2>6. CaptureTypeOK'
    <3>1. holder = "us"
      BY <1>2 DEF CaptureTypeOK
    <3> QED BY <1>3, <1>4, <1>5, <2>1, <2>2, <2>3, <2>5, <3>1 DEF CaptureTypeOK
  <2>7. SoFar'
    BY <1>6, <1>8, <1>9, <2>2, <2>3, <2>5 DEF SoFar
  <2>8. CaptureVerdict'
    BY <2>3 DEF CaptureVerdict
  <2> QED BY <2>4, <2>6, <2>7, <2>8 DEF CaptureInv
<1> QED BY <1>10, <1>11

(* A format that yields the image.                                         *)
LEMMA CapturedKeeps ==
  ASSUME CaptureInv, cap.stage = "take", Captured, UNCHANGED blocks,
         BlockOf(Formats[cap.at]) \in
           {"good"} \cup IF Formats[cap.at] = "png" THEN {"corrupt"} ELSE {}
  PROVE  CaptureInv'
<1> DEFINE this == Formats[cap.at]
           R == [format : Listable, error : Failures \cup {"none"}]
           r == [format |-> this, error |-> "none"]
<1>1. tries' = Append(tries, r) /\ Return("none", this, this)
  BY DEF Captured
<1>2. cap.at \in 1 .. 4 /\ Len(tries) < cap.at /\ tries \in Seq(R)
  BY DEF CaptureInv, SoFar, CaptureTypes
<1>3. this \in Listable /\ this \in DOMAIN blocks /\ Len(Formats) = 4
  BY <1>2, FormatFacts DEF CaptureInv, CaptureTypeOK
<1>4. r \in R /\ r.error = "none"
  BY <1>3
<1> HIDE DEF this, R, r
<1>5. /\ tries' \in Seq(R) /\ Len(tries') = Len(tries) + 1 /\ Len(tries) \in Nat
      /\ tries'[Len(tries) + 1] = r
  BY <1>1, <1>2, <1>4, AppendProperties, LenProperties
<1>6. "none" \in Errors(tries')
  <2>1. Len(tries) + 1 \in 1 .. Len(tries')
    BY <1>5
  <2> QED BY <1>4, <1>5, <2>1 DEF Errors
<1>7. Len(tries') <= Len(Formats)
  BY <1>2, <1>3, <1>5
<1>8. ASSUME NEW format, format = this PROVE BetterFailed(format)'
  <2> SUFFICES ASSUME NEW i \in 1 .. Len(Formats), NEW j \in 1 .. Len(Formats),
                      i < j, Formats[j] = format, Formats[i] \in DOMAIN blocks
               PROVE  \E k \in 1 .. Len(tries') :
                        tries'[k].format = Formats[i] /\ tries'[k].error # "none"
    BY DEF BetterFailed
  <2>1. j = cap.at /\ i \in 1 .. cap.at - 1
    BY <1>2, <1>3, <1>8, FormatFacts DEF this
  <2>2. Formats[i] \in Tried(tries) /\ Errors(tries) \subseteq Failures
    BY <2>1 DEF CaptureInv, SoFar
  <2>3. PICK k \in 1 .. Len(tries) : tries[k].format = Formats[i]
    BY <2>2 DEF Tried
  <2>4. tries[k].error \in Errors(tries)
    BY DEF Errors
  <2>5. tries[k].error # "none"
    BY <2>2, <2>4 DEF Failures
  <2>6. k \in 1 .. Len(tries') /\ tries'[k] = tries[k]
    BY <1>1, <1>2, <1>4, <1>5, AppendProperties
  <2> QED BY <2>3, <2>5, <2>6
<1> QED BY <1>1, <1>3, <1>5, <1>6, <1>7, <1>8, ReturnKeeps DEF this, R

(* The ways to end before a format was tried.                              *)
LEMMA EarlyReturnKeeps ==
  ASSUME CaptureInv, cap.stage \in {"open", "list"}, NEW error, NEW file,
         Return(error, "none", file), UNCHANGED <<blocks, tries>>,
         \/ error = "openFailed"
         \/ error = "tempFailed" /\ DOMAIN blocks # {}
         \/ error = "noImage" /\ DOMAIN blocks = {}
  PROVE  CaptureInv'
<1>1. tries' = <<>> /\ tries' = tries
  BY DEF CaptureInv, SoFar
<1>2. tries' \in Seq([format : Listable, error : Failures \cup {"none"}])
  BY <1>1 DEF CaptureInv, CaptureTypes
<1>3. Len(tries') <= Len(Formats) /\ Errors(tries') = {}
  BY <1>1, FormatFacts DEF Errors
<1>4. error \in Failures \cup {"none", "noImage", "openFailed"}
  BY DEF Failures
<1>5. "none" \notin Errors(tries') /\ "none" = "none"
  BY <1>3
<1>6. UNCHANGED blocks
  OBVIOUS
<1> HIDE DEF Failures, Listable
<1> QED BY <1>1, <1>2, <1>3, <1>4, <1>5, <1>6, ReturnKeeps

LEMMA OpenClipboardKeeps == CaptureInv /\ OpenClipboard => CaptureInv'
<1> SUFFICES ASSUME CaptureInv, OpenClipboard PROVE CaptureInv'
  OBVIOUS
<1>1. cap.stage = "open" /\ UNCHANGED <<blocks, tries>>
  BY DEF OpenClipboard
<1>2. CaptureTypes /\ CaptureTypeOK /\ cap.attempt <= OpenAttempts /\ tries = <<>>
      /\ cap.error = "noImage" /\ temp = "none" /\ cap.source = "none"
  BY <1>1 DEF CaptureInv, SoFar
<1>3. OpenAttempts \in Nat /\ OpenAttempts >= 1 /\ kFetchAttempts \in Nat /\ kFetchAttempts >= 1
  BY CaptureAssumption
<1>4. cap.attempt \in Nat /\ Len(tries) <= Len(Formats)
  BY <1>2 DEF CaptureTypes, CaptureTypeOK
<1>5. CASE holder = "nobody"
  <2>1. holder' = "us" /\ cap' = [cap EXCEPT !.stage = "list"] /\ UNCHANGED temp
    BY <1>5 DEF OpenClipboard
  <2>2. /\ cap'.stage = "list" /\ cap'.attempt = cap.attempt /\ cap'.error = cap.error
        /\ cap'.source = cap.source
    BY <1>2, <2>1 DEF CaptureTypes
  <2>3. CaptureTypes'
    BY <1>1, <1>2, <2>1 DEF CaptureTypes
  <2>4. CaptureTypeOK'
    BY <1>1, <1>2, <1>4, <2>1, <2>2 DEF CaptureTypeOK
  <2>5. SoFar' /\ CaptureVerdict'
    BY <1>1, <1>2, <2>1, <2>2 DEF SoFar, CaptureVerdict
  <2> QED BY <2>3, <2>4, <2>5 DEF CaptureInv
<1>6. CASE holder # "nobody" /\ cap.attempt < OpenAttempts
  <2>1. cap' = [cap EXCEPT !.attempt = @ + 1] /\ UNCHANGED <<holder, temp>>
    BY <1>6 DEF OpenClipboard
  <2>2. /\ cap'.stage = "open" /\ cap'.attempt = cap.attempt + 1 /\ cap'.error = cap.error
        /\ cap'.source = cap.source
    BY <1>1, <1>2, <2>1 DEF CaptureTypes
  <2>3. CaptureTypes'
    BY <1>1, <1>2, <2>1 DEF CaptureTypes
  <2>4. CaptureTypeOK'
    <3>1. cap'.attempt \in 1 .. OpenAttempts + kFetchAttempts
      BY <1>2, <1>3, <1>6, <2>2 DEF CaptureTypeOK
    <3>2. holder # "us"
      BY <1>1, <1>2 DEF CaptureTypeOK
    <3> QED BY <1>1, <1>4, <2>1, <2>2, <3>1, <3>2 DEF CaptureTypeOK
  <2>5. SoFar' /\ CaptureVerdict'
    <3>1. cap'.attempt <= OpenAttempts
      BY <1>3, <1>4, <1>6, <2>2
    <3> QED BY <1>1, <1>2, <2>1, <2>2, <3>1 DEF SoFar, CaptureVerdict
  <2> QED BY <2>3, <2>4, <2>5 DEF CaptureInv
<1>7. CASE holder # "nobody" /\ ~(cap.attempt < OpenAttempts)
  <2>1. Return("openFailed", "none", temp)
    BY <1>7 DEF OpenClipboard
  <2> QED BY <1>1, <2>1, EarlyReturnKeeps
<1> QED BY <1>5, <1>6, <1>7

LEMMA AnotherKeeps == CaptureInv /\ Another => CaptureInv'
<1> SUFFICES ASSUME CaptureInv, Another PROVE CaptureInv'
  OBVIOUS
<1>1. /\ cap.stage = "open" /\ UNCHANGED <<blocks, cap, temp, tries>>
      /\ holder' \in {"nobody", "another"}
  BY DEF Another
<1>2. CaptureTypes /\ CaptureTypeOK /\ SoFar
  BY DEF CaptureInv
<1>3. CaptureTypes'
  BY <1>1, <1>2 DEF CaptureTypes
<1>4. CaptureTypeOK'
  BY <1>1, <1>2 DEF CaptureTypeOK
<1>5. SoFar' /\ CaptureVerdict'
  BY <1>1, <1>2 DEF SoFar, CaptureVerdict
<1> QED BY <1>3, <1>4, <1>5 DEF CaptureInv

LEMMA ListFormatsKeeps == CaptureInv /\ ListFormats => CaptureInv'
<1> SUFFICES ASSUME CaptureInv, ListFormats PROVE CaptureInv'
  OBVIOUS
<1>1. cap.stage = "list" /\ UNCHANGED <<blocks, tries>>
  BY DEF ListFormats
<1>2. CASE \/ DOMAIN blocks = {} /\ Return("noImage", "none", temp)
           \/ DOMAIN blocks # {} /\ Return("tempFailed", "none", temp)
  BY <1>1, <1>2, EarlyReturnKeeps
<1>3. CASE /\ DOMAIN blocks # {} /\ temp' = "blank" /\ UNCHANGED holder
           /\ cap' = [cap EXCEPT !.stage = "fetch", !.attempt = 1, !.at = NextListed(0)]
  <2> DEFINE next == NextListed(0)
  <2>1. CaptureTypes /\ CaptureTypeOK /\ tries = <<>> /\ cap.error = "noImage"
        /\ cap.source = "none" /\ holder = "us"
    BY <1>1 DEF CaptureInv, SoFar, CaptureTypeOK
  <2>2. OpenAttempts \in Nat /\ kFetchAttempts \in Nat /\ kFetchAttempts >= 1
    BY CaptureAssumption
  <2>3. /\ next \in 1 .. 5 /\ (next # 5 => Formats[next] \in DOMAIN blocks)
        /\ \A i \in 1 .. next - 1 : Formats[i] \notin DOMAIN blocks
    <3>1. 0 \in 0 .. 4 /\ 0 + 1 = 1
      OBVIOUS
    <3> QED BY <3>1, NextIsNext
  <2> HIDE DEF next
  <2>4. next # 5
    <3>1. PICK f \in DOMAIN blocks : TRUE
      BY <1>3
    <3>2. PICK i \in 1 .. 4 : Formats[i] = f
      BY <2>1, <3>1, FormatFacts DEF CaptureTypes, Listable
    <3> QED BY <2>3, <3>2
  <2>5. next \in 1 .. 4 /\ next \in 0 .. 4
    BY <2>3, <2>4
  <2>6. /\ cap'.stage = "fetch" /\ cap'.attempt = 1 /\ cap'.at = next
        /\ cap'.error = "noImage" /\ cap'.source = "none"
    BY <1>3, <2>1 DEF CaptureTypes, next
  <2>7. CaptureTypes'
    <3>1. cap' = [cap EXCEPT !.stage = "fetch", !.attempt = 1, !.at = next]
      BY <1>3 DEF next
    <3> HIDE DEF Failures, Listable
    <3>2. cap' \in [stage : {"open", "list", "fetch", "take", "done"}, attempt : Nat, at : 0 .. 4,
                    error : Failures \cup {"none", "noImage", "openFailed"},
                    source : Listable \cup {"none"}]
      BY <2>1, <2>5, <3>1 DEF CaptureTypes
    <3> QED BY <1>1, <1>3, <2>1, <3>2 DEF CaptureTypes
  <2>8. Len(tries) = 0 /\ Len(Formats) = 4
    BY <2>1, FormatFacts
  <2>9. CaptureTypeOK'
    <3>1. Formats[next] \in DOMAIN blocks'
      BY <1>1, <2>3, <2>4
    <3> QED BY <1>1, <1>3, <2>1, <2>2, <2>6, <2>8, <3>1 DEF CaptureTypeOK
  <2>10. SoFar'
    <3>1. Tried(tries') = {} /\ Errors(tries') = {} /\ Worst(tries') = "noImage"
      BY <1>1, <2>1, <2>8 DEF Tried, Errors, Worst
    <3>2. {Formats[i] : i \in 1 .. next - 1} \cap DOMAIN blocks = {}
      BY <2>3
    <3> QED BY <1>1, <2>2, <2>5, <2>6, <2>8, <3>1, <3>2 DEF SoFar
  <2>11. CaptureVerdict'
    BY <2>6 DEF CaptureVerdict
  <2> QED BY <2>7, <2>9, <2>10, <2>11 DEF CaptureInv
<1>4. \/ DOMAIN blocks = {} /\ Return("noImage", "none", temp)
      \/ DOMAIN blocks # {} /\ Return("tempFailed", "none", temp)
      \/ /\ DOMAIN blocks # {} /\ temp' = "blank" /\ UNCHANGED holder
         /\ cap' = [cap EXCEPT !.stage = "fetch", !.attempt = 1, !.at = NextListed(0)]
  BY DEF ListFormats
<1> QED BY <1>2, <1>3, <1>4

LEMMA FetchKeeps == CaptureInv /\ Fetch => CaptureInv'
<1> SUFFICES ASSUME CaptureInv, Fetch PROVE CaptureInv'
  OBVIOUS
<1>1. cap.stage = "fetch" /\ UNCHANGED blocks
  BY DEF Fetch
<1>2. CaptureTypes /\ CaptureTypeOK /\ SoFar
  BY DEF CaptureInv
<1>3. OpenAttempts \in Nat /\ OpenAttempts >= 1 /\ kFetchAttempts \in Nat
  BY CaptureAssumption
<1>4. CASE /\ UNCHANGED <<temp, holder, tries>>
           /\ \/ cap' = [cap EXCEPT !.stage = "take"]
              \/ cap.attempt < kFetchAttempts /\ cap' = [cap EXCEPT !.attempt = @ + 1]
  <2>1. /\ cap'.stage \in {"fetch", "take"} /\ cap'.at = cap.at /\ cap'.error = cap.error
        /\ cap'.source = cap.source /\ cap'.attempt \in Nat
        /\ cap'.attempt >= cap.attempt /\ cap'.attempt <= kFetchAttempts
    BY <1>1, <1>2, <1>3, <1>4 DEF CaptureTypes, SoFar
  <2>2. CaptureTypes'
    BY <1>1, <1>2, <1>4 DEF CaptureTypes
  <2>3. CaptureTypeOK'
    BY <1>1, <1>2, <1>3, <1>4, <2>1 DEF CaptureTypeOK
  <2>4. SoFar' /\ CaptureVerdict'
    BY <1>1, <1>2, <1>4, <2>1 DEF SoFar, CaptureVerdict
  <2> QED BY <2>2, <2>3, <2>4 DEF CaptureInv
<1>5. CASE Fail("readFailed", temp)
  <2>1. "readFailed" \in Failures
    BY DEF Failures
  <2> QED BY <1>1, <1>5, <2>1, FailKeeps
<1> QED BY <1>4, <1>5 DEF Fetch

(* A block is of some kind.                                                *)
LEMMA KindOfBlock ==
  ASSUME CaptureInv, cap.stage = "take"
  PROVE  BlockOf(Formats[cap.at]) \in BlockKinds
<1>1. Formats[cap.at] \in DOMAIN blocks /\ blocks \in [DOMAIN blocks -> BlockKinds]
  BY DEF CaptureInv, CaptureTypes, CaptureTypeOK
<1> QED BY <1>1 DEF BlockOf

LEMMA TakePngKeeps == CaptureInv /\ TakePng => CaptureInv'
<1> SUFFICES ASSUME CaptureInv, TakePng PROVE CaptureInv'
  OBVIOUS
<1>1. cap.stage = "take" /\ Formats[cap.at] = "png" /\ UNCHANGED blocks
  BY DEF TakePng
<1>2. BlockOf(Formats[cap.at]) \in BlockKinds
  BY <1>1, KindOfBlock
<1>3. CASE \E error \in Failures, file \in {temp, "partial"} : Fail(error, file)
  BY <1>1, <1>3, FailKeeps
<1>4. CASE Captured /\ BlockOf(Formats[cap.at]) \in {"good", "corrupt"}
  BY <1>1, <1>4, CapturedKeeps
<1>5. \/ \E error \in Failures, file \in {temp, "partial"} : Fail(error, file)
      \/ Captured /\ BlockOf(Formats[cap.at]) \in {"good", "corrupt"}
  <2>1. {"tooLarge", "readFailed", "lockFailed", "tempFailed"} \subseteq Failures
    BY DEF Failures
  <2> DEFINE kind == BlockOf("png")
  <2>2. kind \in BlockKinds /\ kind = BlockOf(Formats[cap.at])
    BY <1>1, <1>2
  <2>3. CASE kind = "large"
    BY <2>1, <2>3 DEF TakePng
  <2>4. CASE kind = "empty"
    BY <2>1, <2>4 DEF TakePng
  <2>5. CASE kind \in {"good", "corrupt"}
    <3>1. Captured \/ Fail("lockFailed", temp) \/ Fail("tempFailed", "partial")
      BY <2>5 DEF TakePng
    <3> QED BY <2>1, <2>2, <2>5, <3>1
  <2> QED BY <2>2, <2>3, <2>4, <2>5 DEF BlockKinds
<1> QED BY <1>3, <1>4, <1>5

LEMMA TakeDibKeeps == CaptureInv /\ TakeDib => CaptureInv'
<1> SUFFICES ASSUME CaptureInv, TakeDib PROVE CaptureInv'
  OBVIOUS
<1>1. cap.stage = "take" /\ Formats[cap.at] # "png" /\ UNCHANGED blocks
  BY DEF TakeDib
<1> DEFINE kind == BlockOf(Formats[cap.at])
<1>2. kind \in BlockKinds
  BY <1>1, KindOfBlock
<1>3. CASE \E error \in Failures, file \in {temp, "none"} : Fail(error, file)
  BY <1>1, <1>3, FailKeeps
<1>4. CASE Captured /\ kind = "good"
  BY <1>1, <1>4, CapturedKeeps
<1>5. \/ \E error \in Failures, file \in {temp, "none"} : Fail(error, file)
      \/ Captured /\ kind = "good"
  <2>1. {"tooLarge", "readFailed", "lockFailed", "encodeFailed", "tempFailed"} \subseteq Failures
    BY DEF Failures
  <2>2. CASE kind = "empty"
    BY <2>1, <2>2 DEF TakeDib
  <2>3. CASE kind = "corrupt"
    BY <2>1, <2>3 DEF TakeDib
  <2>4. CASE kind = "large"
    BY <2>1, <2>4 DEF TakeDib
  <2>5. CASE kind = "good"
    <3>1. \/ Captured \/ Fail("lockFailed", temp) \/ Fail("encodeFailed", "none")
          \/ Fail("tempFailed", "none")
      BY <2>5 DEF TakeDib
    <3> QED BY <2>1, <2>5, <3>1
  <2> QED BY <1>2, <2>2, <2>3, <2>4, <2>5 DEF BlockKinds
<1> QED BY <1>3, <1>4, <1>5

LEMMA CaptureStepKeeps == CaptureInv /\ CaptureStep => CaptureInv'
  BY OpenClipboardKeeps, AnotherKeeps, ListFormatsKeeps, FetchKeeps, TakePngKeeps, TakeDibKeeps
  DEF CaptureStep

LEMMA CaptureRests == CaptureInv /\ UNCHANGED captureVars => CaptureInv'
<1> SUFFICES ASSUME CaptureInv, UNCHANGED captureVars PROVE CaptureInv'
  OBVIOUS
<1>1. UNCHANGED <<blocks, holder, cap, temp, tries>>
  BY DEF captureVars
<1>2. CaptureTypes' /\ CaptureTypeOK'
  BY <1>1 DEF CaptureInv, CaptureTypes, CaptureTypeOK
<1>3. SoFar'
  BY <1>1 DEF CaptureInv, SoFar
<1>4. CaptureVerdict'
  BY <1>1 DEF CaptureInv, CaptureVerdict, BlockOf, BetterFailed
<1> QED BY <1>2, <1>3, <1>4 DEF CaptureInv

-----------------------------------------------------------------------------
(* The two of them.                                                        *)

LEMMA DesktopStep == DesktopInv /\ [Next]_vars => DesktopInv'
<1> SUFFICES ASSUME DesktopInv, [Next]_vars PROVE DesktopInv'
  OBVIOUS
<1>1. CASE Keyboard
  <2>1. ChordStep /\ UNCHANGED captureVars
    BY <1>1 DEF Keyboard
  <2> QED BY <2>1, ChordStepKeeps, CaptureRests DEF DesktopInv
<1>2. CASE Clipboard
  <2>1. CaptureStep /\ UNCHANGED chordVars
    BY <1>2 DEF Clipboard
  <2> QED BY <2>1, CaptureStepKeeps, ChordRests DEF DesktopInv
<1>3. CASE UNCHANGED vars
  <2>1. UNCHANGED chordVars /\ UNCHANGED captureVars
    BY <1>3 DEF vars
  <2> QED BY <2>1, ChordRests, CaptureRests DEF DesktopInv
<1> QED BY <1>1, <1>2, <1>3 DEF Next

LEMMA DesktopAlways == Spec => []DesktopInv
<1>1. Init => DesktopInv
  BY ChordStarts, CaptureStarts DEF DesktopInv
<1> QED BY <1>1, DesktopStep, PTL DEF Spec

(* Both halves are well-typed in every behaviour: the latches, the keys that
   are down and the counters, and a clipboard that is ours exactly between its
   opening and the report, with no more tries than formats.                *)
THEOREM DesktopTypes == Spec => []TypeOK
<1>1. DesktopInv => TypeOK
  BY DEF DesktopInv, ChordInv, CaptureInv, TypeOK
<1> QED BY <1>1, DesktopAlways, PTL

(* For every hotkey a configuration may name: each press of it posts the message
   (the latch of ChordHookProc, hotkey.cpp, is never left set), a registered
   hotkey posts for nothing else, and neither posts a second time while its key
   is held, except the hooked shift+v (Reopened): there the program's own paste
   releases the latch while Shift is held on the right.  A hook may still post
   its first message late, for a repetition of the key; and all but the first is
   excused, as the property says, once Alt or Win slipped in between the look
   at the keys and the chord.                                              *)
THEOREM PressesFire == Spec => []FiresAreThePresses
<1>1. DesktopInv => FiresAreThePresses
  BY DEF DesktopInv, ChordInv
<1> QED BY <1>1, DesktopAlways, PTL

(* Whatever the user holds when the paste chord is typed (inject.cpp,
   SendPasteChord), it arrives as ctrl+shift+v or is rejected: no held
   modifier merges into it, and no hotkey that ParseHotkeyTokens accepts takes
   it.  The same excuse.                                                   *)
THEOREM ChordArrivesAsPaste == Spec => []PasteArrives
<1>1. DesktopInv => PasteArrives
  BY DEF DesktopInv, ChordInv
<1> QED BY <1>1, DesktopAlways, PTL

(* The report of a capture is true of what the clipboard held and of what the
   formats did (clipboard.cpp, CaptureClipboardImage), for every assignment of
   blocks to formats and every number of attempts.                         *)
THEOREM CaptureReportIsTrue == Spec => []CaptureVerdict
<1>1. DesktopInv => CaptureVerdict
  BY DEF DesktopInv, CaptureInv
<1> QED BY <1>1, DesktopAlways, PTL
=============================================================================
