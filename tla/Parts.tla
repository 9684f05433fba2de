-------------------------------- MODULE Parts -------------------------------
(* The algorithms of doarr that share no state with anything else: Literals  *)
(* and TmpName are of the library, DccScan, GenText, ToolLookup and          *)
(* OptionTable of dcc.  Each has constants and variables of its own here,    *)
(* and its properties have names under which MCParts checks them and         *)
(* TextProofs and LookupProofs prove them.                               *)

CONSTANTS
  Tokens, Adjacent, MaxDelim,
  Bytes, Ints, Chars, QNames,
  Base, Digits,
  Args, Headers, bytes_per_line,
  NumTools, NumElems, Limit, FileKinds,
  Words, Attached

VARIABLES
  tok, pos, back, scan, result, seen, verdict,
  litJob, litPc, litP, value, str, litText,
  chars, c, namePc, removed, given,
  job, data, p, out,
  disk, dirs, slash, fds, exec_fd, cxx, elem, i, pc,
  word, tried, desc, action, row

Scan == INSTANCE DccScan
Lit == INSTANCE Literals WITH
  Names <- QNames, job <- litJob, pc <- litPc, p <- litP, text <- litText
Name == INSTANCE TmpName WITH pc <- namePc
Gen == INSTANCE GenText
Tool == INSTANCE ToolLookup WITH Kinds <- FileKinds
Opt == INSTANCE OptionTable WITH result <- row

-----------------------------------------------------------------------------
(* The exports found are those that are there (dcc_scan.c:115-165).          *)
ExportsExact == Scan!ExportsExact

(* Digits stay in their buffer, names are read up to their terminator, and   *)
(* every text has one (expr_all.cpp:265-284, 357-404).                       *)
InBounds == Lit!InBounds

(* Literals are read back as the values they stand for (expr_all.cpp:        *)
(* 345-365).                                                                 *)
ReadsBack == Lit!ReadsBack

(* Exactly the qualified names are accepted (expr_all.cpp:377-414).          *)
ExactlyNames == Lit!ExactlyNames

(* The buffer keeps its shape, names come in the order of the counter, all   *)
(* but the last, and lie in the directory the cleaner removes                *)
(* (io.c:45-129).                                                            *)
NamesRight == Name!NamesRight

(* The C compiler reads the arguments and the header that were written       *)
(* (dcc_gen.c:84-137).                                                       *)
ReadByC == Gen!ReadByC

(* Tools are the first on PATH, and none is reported missing that is in one  *)
(* of its directories (dcc.c:49-138, 226).                                   *)
ToolsRight == Tool!ToolsRight

(* No tool takes the place of a standard stream or of another tool, and no   *)
(* descriptor is left of what was refused (dcc.c:49-92, 175-184).            *)
DescriptorsRight == Tool!DescriptorsRight

(* The longest option is found, and its empty cells are those of the         *)
(* nearest row (dcc_options.c:109-190).                                      *)
RightRow == Opt!RightRow
=============================================================================
