SPECIFICATION Safety
CONSTANTS
  a = a
  b = b
  c = c
  N = 3
  NameOf <- SameName
  Faults <- NoFaults
  MaxItems = 3
  PipeSize = 1
  OutFile = OutFile
  StdOut = StdOut
INVARIANT OneObjectPerInput
