SPECIFICATION Spec
CONSTANTS
  a = a
  b = b
  c = c
  N = 3
  NameOf <- Apart
  Faults <- StreamOnly
  MaxItems = 3
  PipeSize = 1
  OutFile = OutFile
  StdOut = StdOut
PROPERTY Terminates
