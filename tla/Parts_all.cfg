CONSTANTS
  Tokens <- MCTokens
  Adjacent <- MCAdjacent
  MaxDelim = 3
  Nodes <- MCNodes
  Calls <- MCCalls
  Num <- MCNum
  W = 2
  MaxEntries = 2
  Bytes = 2
  Ints <- MCInts
  Chars <- MCChars
  QNames <- MCNames
  Base = 3
  Digits = 4
  Args <- MCArgs
  Headers <- MCHeaders
  bytes_per_line = 2
  NumTools = 2
  NumElems = 2
  Limit = 8
  FileKinds = {"absent", "directory", "readable file"}
  Words <- MCWords
  Attached <- MCAttached
SPECIFICATION PartsSpec
INVARIANT ExportsExact
INVARIANT ParamsFit
INVARIANT RunsWhatWasSaid
INVARIANT CompiledOnce
INVARIANT InBounds
INVARIANT ReadsBack
INVARIANT ExactlyNames
INVARIANT NamesRight
INVARIANT ReadByC
INVARIANT ToolsRight
INVARIANT DescriptorsRight
INVARIANT RightRow
