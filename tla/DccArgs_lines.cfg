SPECIFICATION Spec
CONSTANTS
  Words <- Typical
  MaxArgs = 4
  Common = 4
  Finder = 3
  Precompiler = 1
INVARIANT Allocated
INVARIANT FitsArgBuff
INVARIANT InputInPlace
INVARIANT WordsOnce
INVARIANT RuntimePlaceAfterInclude
