SPECIFICATION Spec
CONSTANTS
  Texts <- HotkeyTexts
  MaxStrokes = 8
  MaxPastes = 2
  OpenAttempts = 3
  kFetchAttempts = 3
INVARIANTS TypeOK FiresAreThePresses PasteArrives CaptureVerdict
CHECK_DEADLOCK FALSE
