SPECIFICATION Safety
CONSTANTS
  a = a
  b = b
  c = c
  N = 3
  NameOf <- Apart
  Faults <- ToolForkOnly
  MaxItems = 3
  PipeSize = 1
  OutFile = OutFile
  StdOut = StdOut
INVARIANT ToolFailureReported
