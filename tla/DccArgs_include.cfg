SPECIFICATION Spec
CONSTANTS
  Words <- IncludeOnly
  MaxArgs = 8
  Common = 4
  Finder = 3
  Precompiler = 1
INVARIANT RuntimePosInRange
