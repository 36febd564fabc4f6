SPECIFICATION Spec
CONSTANTS
  MaxPayload = 6
  DigestLen = 1
  MaxDigest = 2
  CrcSpan = 12
  MaxOpaque = 2
  MaxEdits = 2
  Numbers <- SmallNumbers
  Texts <- SmallTexts
  Units <- SmallUnits
CHECK_DEADLOCK FALSE
INVARIANTS RoundTrip Canonical
