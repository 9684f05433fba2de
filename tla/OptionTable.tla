------------------------------ MODULE OptionTable ---------------------------
(***************************************************************************)
(* lookup_opt (dcc_options.c): which row of the table of options a word    *)
(* belongs to.  Rows are tried from the last to the first; a row without   *)
(* description or action has those of the row tried last that has them.    *)
(*                                                                         *)
(* A string is cut where one option continues another: -pedantic is        *)
(* <<"-p", "edantic">>.                                                    *)
(***************************************************************************)
EXTENDS Integers, Sequences, SequencesExt

CONSTANTS
  Words,    \* words looked up, cut in the same way
  Attached  \* what may follow an option in a word

VARIABLES
  word,
  tried,   \* how many rows have been tried
  desc,    \* the row the description is from
  action,
  result

vars == <<word, tried, desc, action, result>>

None == "none"
Uninitialised == "uninitialised"
NoRow == 0

Row(str, syntax, described, act) ==
  [str |-> str, syntax |-> syntax, described |-> described, action |-> act]
NoArg(str, act) == Row(str, "NoArg", TRUE, act)
Immediate(str, act) == Row(str, "Immediate", TRUE, act)
Separate(str, act) == Row(str, "Separate", TRUE, act)
ImmOrSep(str, act) == Row(str, "ImmOrSep", TRUE, act)
Same(str, syntax) == Row(str, syntax, FALSE, None)

(* option_keys, without its empty rows *)
option_keys == <<
  NoArg(<<"-c">>, "set_compile"), Immediate(<<"-d">>, "reject"), ImmOrSep(<<"-e">>, "reject"),
  Immediate(<<"-f">>, "forward"), Immediate(<<"-g">>, "forward"), ImmOrSep(<<"-h">>, "reject"),
  ImmOrSep(<<"-l">>, "forward"), Immediate(<<"-m">>, "forward"), NoArg(<<"-n">>, "reject"),
  ImmOrSep(<<"-o">>, "set_output"), NoArg(<<"-p">>, "reject"), NoArg(<<"-p", "g">>, "reject"),
  NoArg(<<"-r">>, "reject"), NoArg(<<"-s">>, "reject"), NoArg(<<"-t">>, "forward"),
  ImmOrSep(<<"-u">>, "forward"), NoArg(<<"-v">>, "set_verbose"), NoArg(<<"-w">>, "set_nowarn"),
  ImmOrSep(<<"-x">>, "dummy_set_language"), ImmOrSep(<<"-z">>, "forward"),
  ImmOrSep(<<"-A">>, "forward"), ImmOrSep(<<"-B">>, "forward"),
  Same(<<"-C">>, "NoArg"), NoArg(<<"-C", "C">>, "forward"), ImmOrSep(<<"-D">>, "forward"),
  NoArg(<<"-E">>, "set_preproc"), ImmOrSep(<<"-F">>, "forward"), NoArg(<<"-H">>, "forward"),
  ImmOrSep(<<"-I">>, "forward"), ImmOrSep(<<"-J">>, "reject"), ImmOrSep(<<"-L">>, "forward"),
  Immediate(<<"-M">>, "reject"), NoArg(<<"-N">>, "reject"), Immediate(<<"-O">>, "forward"),
  NoArg(<<"-P">>, "forward"), NoArg(<<"-Q">>, "forward"), ImmOrSep(<<"-R">>, "reject"),
  NoArg(<<"-S">>, "reject"), ImmOrSep(<<"-T">>, "reject"), ImmOrSep(<<"-U">>, "forward"),
  Immediate(<<"-W">>, "forward"), NoArg(<<"-X">>, "reject"), NoArg(<<"-Z">>, "reject"),
  Same(<<"-iquote">>, "ImmOrSep"), Same(<<"-iprefix">>, "ImmOrSep"),
  Same(<<"-iwithprefix">>, "ImmOrSep"), Same(<<"-iwithprefix", "before">>, "ImmOrSep"),
  Same(<<"-isysroot">>, "ImmOrSep"), ImmOrSep(<<"-imultilib">>, "forward_no_rt"),
  Same(<<"-include">>, "ImmOrSep"), ImmOrSep(<<"-imacros">>, "forward_no_rt"),
  Same(<<"-s", "td">>, "Immediate"), Immediate(<<"--std">>, None),
  Same(<<"-p", "edantic">>, "NoArg"), NoArg(<<"-p", "edantic", "-errors">>, None),
  Same(<<"-W", "p,">>, "Immediate"), Separate(<<"-X", "preprocessor">>, "forward"),
  Same(<<"-W", "l,">>, "Immediate"), Separate(<<"-X", "linker">>, "forward"),
  Same(<<"-W", "a,">>, "Immediate"), Separate(<<"-X", "assembler">>, "forward"),
  Same(<<"-h", "elp">>, "Immediate"), Immediate(<<"--help">>, "help_and_exit") >>

Rows == DOMAIN option_keys

Init ==
  /\ word \in Words \union {option_keys[k].str \o s : k \in DOMAIN option_keys, s \in Attached}
  /\ tried = 0
  /\ desc = NoRow /\ action = Uninitialised
  /\ result = <<>>

FromTheFirst(n) == n  \* mutant: rows are tried in their order

(* The row tried in the n-th place. *)
Tried(n) == Len(option_keys) + 1 - n

Filled(cell, before) == IF cell = None THEN before ELSE cell

Try ==
  /\ result = <<>> /\ tried < Len(option_keys)
  /\ LET i == Tried(tried + 1) IN
       /\ desc' = IF option_keys[i].described THEN i ELSE desc
       /\ action' = Filled(option_keys[i].action, action)
       /\ tried' = tried + 1
       /\ result' = IF IsPrefix(option_keys[i].str, word)
                      THEN <<[option_keys[i] EXCEPT !.action = action'], desc'>> ELSE <<>>
  /\ UNCHANGED word

NotFound == result = <<>> /\ tried = Len(option_keys) /\ UNCHANGED vars

Found == result # <<>> /\ UNCHANGED vars

Next == Try \/ NotFound \/ Found

Spec == Init /\ [][Next]_vars

-----------------------------------------------------------------------------
(* What LongestOption needs of the table, as it is written: no option      *)
(* stands twice, and one that continues another stands behind it, so that  *)
(* it is tried before; the row tried first fills both cells.               *)
Continues(s, t) == IsPrefix(t, s) /\ Len(t) < Len(s)
TableOrder ==
  /\ option_keys \in Seq([str : Seq(STRING), syntax : STRING, described : BOOLEAN, action : STRING])
  /\ \A i, j \in Rows :
       /\ option_keys[i].str = option_keys[j].str => i = j
       /\ Continues(option_keys[i].str, option_keys[j].str) => i > j
  /\ Len(option_keys) > 0
  /\ option_keys[Len(option_keys)].described
  /\ option_keys[Len(option_keys)].action # None

Options == {i \in Rows : IsPrefix(option_keys[i].str, word)}

(* The option found for a word begins it, and is the longest that does: no *)
(* row hides another, and none is found only if none begins it             *)
(* (dcc_options.c:109-190).                                                *)
LongestOption ==
  /\ result # <<>> =>
       /\ IsPrefix(result[1].str, word)
       /\ \A i \in Options : Len(option_keys[i].str) <= Len(result[1].str)
  /\ tried = Len(option_keys) /\ result = <<>> => Options = {}

(* Description and action are those of the row itself, or else of the      *)
(* nearest row behind it, and never what was on the stack: desc and action *)
(* are initialised with themselves (dcc_options.c:176-185).                *)
Acting == {i \in Rows : option_keys[i].action # None}
Described == {i \in Rows : option_keys[i].described}
Nearest(i, j, S) == j \in S /\ j >= i /\ S \intersect i .. j - 1 = {}

CellsFilled ==
  result # <<>> =>
    LET i == CHOOSE j \in Rows : option_keys[j].str = result[1].str
    IN  /\ \E j \in Rows : Nearest(i, j, Acting) /\ result[1].action = option_keys[j].action
        /\ Nearest(i, result[2], Described)

(* The row for a word is the right one, with the right cells               *)
(* (dcc_options.c:109-190).                                                *)
RightRow == LongestOption /\ CellsFilled
=============================================================================
