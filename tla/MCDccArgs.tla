------------------------------ MODULE MCDccArgs -----------------------------
(* Instances of DccArgs for TLC.                                             *)
EXTENDS DccArgs

W(syntax, action, text) == [syntax |-> syntax, action |-> action, text |-> text]

(* x.cpp, -c, -E, -o, -oOUT, -O2, -DX, -D, -include, -Xlinker, -Xlinkery,   *)
(* -cx, -T, -x, @x, -help *)
Typical ==
  { W("none", "input", FALSE),
    W("NoArg", "set_compile", FALSE), W("NoArg", "set_preproc", FALSE),
    W("ImmOrSep", "set_output", FALSE), W("ImmOrSep", "set_output", TRUE),
    W("Immediate", "forward", TRUE),
    W("ImmOrSep", "forward", FALSE),
    W("ImmOrSep", "forward_no_rt", FALSE), W("ImmOrSep", "forward_no_rt", TRUE),
    W("Separate", "forward", FALSE), W("Separate", "forward", TRUE),
    W("NoArg", "set_compile", TRUE),
    W("ImmOrSep", "reject", FALSE),
    W("ImmOrSep", "set_language", FALSE),
    W("none", "reject", TRUE),
    W("Immediate", "help", FALSE) }

(* x.cpp, -c and -includeX *)
IncludeOnly ==
  { W("none", "input", FALSE), W("NoArg", "set_compile", FALSE),
    W("ImmOrSep", "forward_no_rt", TRUE) }
=============================================================================
