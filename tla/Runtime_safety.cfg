SPECIFICATION Safety
CONSTANTS
  k1 = k1
  k2 = k2
  kt = kt
  f1 = f1
  f2 = f2
  Keys = {k1, k2, kt}
  Files = {f1, f2}
  FileOf <- TwoFiles
  TmplParams <- OneRejected
  NameLimit = 8
  MaxDepth = 2
  None = None
INVARIANT TypeOK
INVARIANT NoNullEntry
INVARIANT RunsOwnCode
INVARIANT HeaderComplete
INVARIANT LoadsFinishedObject
PROPERTY Promise
