SPECIFICATION Spec
CONSTANTS
  k = k
  kt = kt
  f = f
  Keys = {k, kt}
  Files = {f}
  FileOf <- OneFile
  TmplParams <- OneRejected
  NameLimit = 6
  MaxDepth = 1
  None = None
  HostProcess = HostProcess
  Cleaner = Cleaner
  MaxAttempts = 2
INVARIANT NothingTakenAway
INVARIANT FilesInDirectory
PROPERTY CallEnds
PROPERTY EverythingGoes
