SPECIFICATION FairSpec
CONSTANTS
  BUF = 5
  WORD = 256
  Char <- SomeChars
  Ints <- SomeInts
  Strings <- SomeStrings
  MaxFmt = 3
INVARIANTS TypeOK CompleteUnlessShort ReturnsWritten NumbersReadBack
PROPERTIES KeepsPromise
