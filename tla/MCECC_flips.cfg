SPECIFICATION Spec
CONSTANTS
  LineBits = 2
  ColBits = 3
  Data <- EvenAndOdd
  MaxFlips = 2
INVARIANTS
  TypeOK
  OneFlipIsCorrected
  TwoFlipsAreNotMiscorrected
  ErasedPageAgrees
CHECK_DEADLOCK FALSE
