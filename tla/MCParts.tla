------------------------------- MODULE MCParts ------------------------------
(* ExprCode and the modules of Parts, for TLC: one of them runs in each      *)
(* behaviour, and the others rest at a state they may begin with.            *)
EXTENDS ExprCode, MCTexts, Parts

VARIABLE part  \* the one that runs

ASSUME
  /\ WidthAssumption /\ NodesAssumption /\ TextAssumption
  /\ Scan!TokensAssumption /\ Scan!TextsAssumption
  /\ Lit!ValuesAssumption /\ Name!SizeAssumption
  /\ Gen!BytesAssumption /\ Gen!EscapesApart /\ Tool!SizeAssumption /\ Opt!TableOrder

codeVars == vars
scanVars == <<tok, pos, back, scan, result, seen, verdict>>
litVars == <<litJob, litPc, litP, value, str, litText>>
nameVars == <<chars, c, namePc, removed, given>>
genVars == <<job, data, p, out>>
toolVars == <<disk, dirs, slash, fds, exec_fd, cxx, elem, i, pc>>
optVars == <<word, tried, desc, action, row>>

-----------------------------------------------------------------------------
LitRests ==
  /\ litJob = [kind |-> "int", value |-> 0] /\ litPc = "int" /\ litP = 1
  /\ value = 0 /\ str = [k \in 1 .. Lit!Size |-> Lit!NUL] /\ litText = <<>>
GenRests == job = "argument" /\ data = <<>> /\ p = 0 /\ out = <<Gen!Quote>>
ToolRests ==
  /\ disk = [x \in (0 .. NumElems) \X (1 .. NumTools) |-> "absent"]
  /\ dirs = [e \in 1 .. NumElems |-> "missing"] /\ slash = {}
  /\ fds = [fd \in 0 .. 2 |-> Tool!Std] /\ exec_fd = [t \in 1 .. NumTools |-> 0]
  /\ cxx = Tool!NoFile /\ elem = 1 /\ i = 1 /\ pc = "main"
OptRests ==
  /\ word = <<"-">> /\ tried = 0 /\ desc = 0
  /\ action = Opt!Uninitialised /\ row = <<>>

PartsInit ==
  /\ Init /\ Scan!Init /\ Name!Init
  /\ \/ part \in {"code", "name", "scan"} /\ LitRests /\ GenRests /\ ToolRests /\ OptRests
     \/ part = "literal" /\ Lit!Init /\ GenRests /\ ToolRests /\ OptRests
     \/ part = "text" /\ Gen!Init /\ LitRests /\ ToolRests /\ OptRests
     \/ part = "tools" /\ Tool!Init /\ LitRests /\ GenRests /\ OptRests
     \/ part = "options" /\ Opt!Init /\ LitRests /\ GenRests /\ ToolRests

PartsNext ==
  /\ UNCHANGED part
  /\ \/ part = "code" /\ Next
        /\ UNCHANGED <<scanVars, litVars, nameVars, genVars, toolVars, optVars>>
     \/ part = "name" /\ Name!Next
        /\ UNCHANGED <<scanVars, codeVars, litVars, genVars, toolVars, optVars>>
     \/ part = "scan" /\ Scan!Next
        /\ UNCHANGED <<codeVars, litVars, nameVars, genVars, toolVars, optVars>>
     \/ part = "literal" /\ Lit!Next
        /\ UNCHANGED <<scanVars, codeVars, nameVars, genVars, toolVars, optVars>>
     \/ part = "text" /\ Gen!Next
        /\ UNCHANGED <<scanVars, codeVars, litVars, nameVars, toolVars, optVars>>
     \/ part = "tools" /\ Tool!Next
        /\ UNCHANGED <<scanVars, codeVars, litVars, nameVars, genVars, optVars>>
     \/ part = "options" /\ Opt!Next
        /\ UNCHANGED <<scanVars, codeVars, litVars, nameVars, genVars, toolVars>>

PartsSpec == PartsInit /\ [][PartsNext]_<<part, scanVars, codeVars, litVars, nameVars, genVars,
                                          toolVars, optVars>>

-----------------------------------------------------------------------------
(* Calls of ExprCode. Characters are their codes, so that "f" and "p", "("   *)
(* and "<" have the same hash where W is 2; addresses and strings are        *)
(* arbitrary.                                                                *)
MCNum == [x \in {"dyn", "raw", "call", "infix", "^", "i", "f", "p", "(", "<", "x", "g", "add"} |->
            CASE x = "i" -> 105 [] x = "f" -> 102 [] x = "p" -> 112
              [] x = "(" -> 40 [] x = "<" -> 60
              [] x = "raw" -> 3 [] x = "infix" -> 5 [] x = "x" -> 1
              [] OTHER -> 0]

(* Expressions by name, in the order they are made. *)
i1 == 1  i2 == 2  f1 == 3  p1 == 4  x == 5  g == 6  ofI == 7
MCNodes ==
  << dyn_expr("i", 1), dyn_expr("i", 2), dyn_expr("f", 1), dyn_expr("p", 1), raw_expr("x"),
     raw_expr("g"), inst_expr(g, <<i1>>),
     call_expr(g, <<>>), call_expr(g, <<i2>>), call_expr(g, <<x>>),
     call_expr(ofI, <<>>), call_expr(ofI, <<i2>>), call_expr(ofI, <<x>>),
     inst_expr(g, <<i2>>), inst_expr(g, <<p1>>), inst_expr(g, <<x>>),
     infix_expr("^", i2, i2), infix_expr("^", i2, x), infix_expr("^", p1, i2),
     infix_expr("^", p1, x), infix_expr("^", x, i2), infix_expr("^", x, x) >>

Few == {i2, p1, x}
Nested == 8 .. 22
Valued == {9, 12, 15, 17, 19}  \* some of these, with dynamic values in them

MCCalls ==
  {Key("add", FALSE, <<>>, args) :
     args \in {<<>>} \union {<<e>> : e \in {i1, i2, f1, p1, x} \union Nested}
                \union {<<d, e>> : d \in Few, e \in Few}
                \union {<<i2, e>> : e \in Valued}}
    \union {Key("add", TRUE, tmpl, args) :
              tmpl \in {<<>>, <<x>>, <<i1>>},
              args \in {<<>>} \union {<<e>> : e \in Few}}

(* Literals: numbers of 1 to 5 digits, and all strings of up to six of       *)
(* : a 0 -                                                                   *)
MCInts == 0 .. 1100 \union 9990 .. 10010 \union 65400 .. 65535
MCChars == -128 .. 127
MCNames == UNION {[1 .. n -> {58, 97, 48, 45}] : n \in 0 .. 6}

(* GenText: " / ( ? \ a x and e with an accent in Latin-1, for all bytes     *)
(* outside ASCII, which no hexadecimal digit follows.                        *)
Short(n, S) == UNION {[1 .. k -> S] : k \in 0 .. n}
MCArgs ==
  {a \in Short(4, {34, 47, 40, 63, 92, 97, 120, 233}) :
     \A k \in 1 .. Len(a) - 1 : a[k] = 233 => a[k + 1] # 97}
MCHeaders == Short(5, {0, 1, 55, 255})

(* OptionTable: every option, alone and with text, and words that are none.  *)
MCWords == {<<"-">>, <<"-i">>, <<"-isystem">>, <<"--version">>}
MCAttached == {<<>>, <<"x">>}
=============================================================================
