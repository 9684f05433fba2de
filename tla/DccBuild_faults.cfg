SPECIFICATION Spec
CONSTANTS
  a = a
  b = b
  c = c
  N = 3
  NameOf <- Apart
  Faults <- AllButStream
  MaxItems = 3
  PipeSize = 1
  OutFile = OutFile
  StdOut = StdOut
INVARIANT NoLeftovers
INVARIANT NothingRuns
INVARIANT FilesAtHand
INVARIANT StatusTellsAll
INVARIANT OutputsLast
INVARIANT OneObjectPerInput
PROPERTY Terminates
