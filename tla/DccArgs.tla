------------------------------- MODULE DccArgs ------------------------------
(***************************************************************************)
(* The command line of dcc, from main to the compilers: dcc_parse_args     *)
(* (dcc_options.c:247-302) with the actions of its table, the checks of    *)
(* main (dcc.c:195-206), and the argument vectors made of the result: the  *)
(* ones dcc runs (dcc_gen.c:150-202, 507-519) and the one the host runs    *)
(* later (io.c:157-181).                                                   *)
(*                                                                         *)
(* A word of the command line is what the parser sees of it: the syntax    *)
(* and the action lookup_opt finds for it, and whether text follows the    *)
(* option in the same word.  Argument vectors hold the positions of words; *)
(* a string of dcc's own is a Fixed.                                       *)
(***************************************************************************)
EXTENDS Integers, Sequences, FiniteSets

CONSTANTS
  Words,       \* the words command lines are made of
  MaxArgs,     \* bound: words on a command line
  Common,      \* LEN(common_opts)
  Finder,      \* LEN(export_finder_opts)
  Precompiler  \* LEN(precompiler_opts)

Syntaxes == {"NoArg", "Immediate", "ImmOrSep", "Separate", "none"}
Actions == {"forward", "forward_no_rt", "reject", "set_output", "set_compile",
            "set_preproc", "set_language", "help", "input"}
Word == [syntax : Syntaxes, action : Actions, text : BOOLEAN]

ASSUME WordsAssumption ==
  /\ Words \subseteq Word
  /\ \A w \in Words :
       /\ w.syntax = "none" => w.action \in {"input", "reject"}
       /\ w.action = "input" => w.syntax = "none"
ASSUME LengthAssumption == {MaxArgs, Common, Finder, Precompiler} \subseteq Nat

VARIABLES
  line,      \* argv + 1
  at,        \* argp: the word to read
  args,      \* compiler_args: positions of words, and also_runtime
  inputs,    \* input files: their positions, and pos_between_opts
  output,    \* position of the word holding the name after -o, 0 for none
  compile,
  preproc,
  invalid,
  pc         \* "parse", "accepted", "refused", or "helped"

vars == <<line, at, args, inputs, output, compile, preproc, invalid, pc>>
flags == <<output, compile, preproc>>

Lines == UNION {[1 .. n -> Words] : n \in 0 .. MaxArgs}
argc == Len(line) + 1

Init ==
  /\ line \in Lines
  /\ at = 1
  /\ args = <<>> /\ inputs = <<>>
  /\ output = 0
  /\ compile = FALSE /\ preproc = FALSE /\ invalid = FALSE
  /\ pc = "parse"

-----------------------------------------------------------------------------
(* dcc_parse_args: one word, with its value if that is the next one. *)

Reading(w) == pc = "parse" /\ at \in DOMAIN line /\ w = line[at]

OptionsSeen == at - 1  \* mutant: options dcc keeps for itself count as well

OptionsBefore == Len(args)

Input(w) ==
  /\ Reading(w)
  /\ w.action = "input"
  /\ inputs' = Append(inputs, [word |-> at, pos |-> OptionsBefore])
  /\ at' = at + 1
  /\ UNCHANGED <<line, args, flags, invalid, pc>>

(* No option of the table, or text where the option takes none. *)
RejectWord(w) ==
  /\ Reading(w)
  /\ \/ w.syntax = "none" /\ w.action = "reject"
     \/ w.syntax \in {"NoArg", "Separate"} /\ w.text
  /\ invalid' = TRUE
  /\ at' = at + 1
  /\ UNCHANGED <<line, args, inputs, flags, pc>>

(* The value is missing. *)
TakesNext(w) == w.syntax \in {"ImmOrSep", "Separate"} /\ ~w.text

MissingValue(w) ==
  /\ Reading(w)
  /\ TakesNext(w)
  /\ at = Len(line)
  /\ invalid' = TRUE
  /\ at' = at + 1
  /\ UNCHANGED <<line, args, inputs, flags, pc>>

Complete(w) ==
  /\ Reading(w)
  /\ \/ w.syntax = "Immediate"
     \/ w.syntax = "ImmOrSep" /\ w.text
     \/ w.syntax = "NoArg" /\ ~w.text
     \/ TakesNext(w) /\ at < Len(line)

ValueParsedAgain(w) == at + 1  \* mutant: the value is read as a word too

AfterOption(w) == IF TakesNext(w) THEN at + 2 ELSE at + 1

Fwd(k, rt) == [word |-> k, rt |-> rt]

ForwardBoth(w, rt) ==  \* mutant: pushes argp[1] in any case
  args' = args \o << Fwd(at, rt), Fwd(at + 1, rt) >>

Forward(w, rt) ==
  args' = args \o IF TakesNext(w) THEN << Fwd(at, rt), Fwd(at + 1, rt) >>
                                  ELSE << Fwd(at, rt) >>

(* set_nowarn and set_verbose forward too. *)
ForwardOption(w) ==
  /\ Complete(w)
  /\ w.action \in {"forward", "forward_no_rt"}
  /\ Forward(w, w.action = "forward")
  /\ at' = AfterOption(w)
  /\ UNCHANGED <<line, inputs, flags, invalid, pc>>

RejectOption(w) ==
  /\ Complete(w)
  /\ w.action = "reject"
  /\ invalid' = TRUE
  /\ at' = AfterOption(w)
  /\ UNCHANGED <<line, args, inputs, flags, pc>>

SetOutput(w) ==
  /\ Complete(w)
  /\ w.action = "set_output"
  /\ IF output # 0
       THEN invalid' = TRUE /\ UNCHANGED output
       ELSE output' = AfterOption(w) - 1 /\ UNCHANGED invalid
  /\ at' = AfterOption(w)
  /\ UNCHANGED <<line, args, inputs, compile, preproc, pc>>

SetMode(w) ==
  /\ Complete(w)
  /\ \/ w.action = "set_compile" /\ compile' = TRUE /\ UNCHANGED preproc
     \/ w.action = "set_preproc" /\ preproc' = TRUE /\ UNCHANGED compile
  /\ at' = AfterOption(w)
  /\ UNCHANGED <<line, args, inputs, output, invalid, pc>>

(* The language is c++ or another one. *)
SetLanguage(w) ==
  /\ Complete(w)
  /\ w.action = "set_language"
  /\ invalid' \in {invalid, TRUE}
  /\ at' = AfterOption(w)
  /\ UNCHANGED <<line, args, inputs, flags, pc>>

HelpAndExit(w) ==
  /\ Complete(w)
  /\ w.action = "help"
  /\ pc' = "helped"
  /\ UNCHANGED <<line, at, args, inputs, flags, invalid>>

Parse(w) ==
  \/ Input(w) \/ RejectWord(w) \/ MissingValue(w)
  \/ ForwardOption(w) \/ RejectOption(w)
  \/ SetOutput(w) \/ SetMode(w) \/ SetLanguage(w) \/ HelpAndExit(w)

(* main: what is needed to go on. *)
Check ==
  /\ pc = "parse"
  /\ at > Len(line)
  /\ pc' = IF ~invalid /\ inputs # <<>> /\ compile # preproc
             THEN "accepted" ELSE "refused"
  /\ UNCHANGED <<line, at, args, inputs, flags, invalid>>

Over == pc # "parse" /\ UNCHANGED vars

Next == (\E w \in Words : Parse(w)) \/ Check \/ Over

Spec == Init /\ [][Next]_vars

-----------------------------------------------------------------------------
(* The argument vectors, without the null pointer that ends each. *)

Fixed(n) == [j \in 1 .. n |-> 0]
WordsOf(s) == [j \in DOMAIN s |-> s[j].word]

(* exec_cxx; named is 2 where "-o" and a name come first. *)
CxxLine(k, named, specific) ==
  LET pos == inputs[k].pos IN
    Fixed(1 + named + Common + specific)
      \o WordsOf(SubSeq(args, 1, pos)) \o << inputs[k].word >>
      \o WordsOf(SubSeq(args, pos + 1, Len(args)))

PrecompilerLine(k) == CxxLine(k, 2, Precompiler)
FinderLine(k) == CxxLine(k, 0, Finder)

(* build_runtime_args: how many strings it puts in the vector. *)
RuntimeCount == 1 + Common + Cardinality({j \in DOMAIN args : args[j].rt})

AllRuntime == 0  \* mutant: positions count every option

NotRuntime == Cardinality({j \in DOMAIN args : ~args[j].rt})

RuntimePos(k) == inputs[k].pos + 1 + Common - NotRuntime

(* The line that combines the objects. *)
LdLine == Fixed(2 + Len(inputs) + 2)

Larger(m, n) == IF m > n THEN m ELSE n

PrecompilerOnly ==  \* mutant: the other compiler is not thought of
  1 + 1 + Common + Precompiler + (Len(args) + 1) + 1

MaxCxxArgs == 1 + 1 + Common + Larger(Finder, Precompiler) + (Len(args) + 1) + 1

ArgBuffSize ==
  IF compile /\ output # 0
    THEN Larger(MaxCxxArgs, 2 + Len(inputs) + 2 + 1)
    ELSE MaxCxxArgs

-----------------------------------------------------------------------------
(* main allocates argc elements for compiler_args and as many for inputs,  *)
(* before it has seen a word (dcc.c:166-171): a word yields at most one,   *)
(* values included, so both together stay below argc.                      *)
Allocated == Len(args) + Len(inputs) < argc

(* Every argument vector fits in arg_buff with its null pointer, though    *)
(* dcc_gen_required_arg_buff_size counts differently from the functions    *)
(* that fill it (dcc_gen.c:150-202, 479-519).                              *)
FitsArgBuff ==
  pc = "accepted" =>
    /\ \A k \in DOMAIN inputs :
         Len(PrecompilerLine(k)) < ArgBuffSize /\ Len(FinderLine(k)) < ArgBuffSize
    /\ RuntimeCount < ArgBuffSize
    /\ compile /\ output # 0 => Len(LdLine) < ArgBuffSize

(* The compilers get each input between the very options it stood between  *)
(* on the command line, whatever dcc kept for itself (dcc_options.c:296-   *)
(* 299, dcc_gen.c:174-178).                                                *)
InputInPlace ==
  \A k \in DOMAIN inputs :
    /\ inputs[k].pos <= Len(args)
    /\ \A j \in DOMAIN args :
         j <= inputs[k].pos <=> args[j].word < inputs[k].word

(* No word is used twice: the value of an option is not an input or an     *)
(* option of its own as well, and words stay in order (dcc_options.c:284-  *)
(* 288).                                                                   *)
WordsOnce ==
  /\ \A j, l \in DOMAIN args : j < l => args[j].word < args[l].word
  /\ \A j \in DOMAIN args, k \in DOMAIN inputs : args[j].word # inputs[k].word
  /\ output \notin {args[j].word : j \in DOMAIN args}
                     \union {inputs[k].word : k \in DOMAIN inputs}

InRuntimePlace(k) ==
  RuntimePos(k) =
    1 + Common
      + Cardinality({j \in DOMAIN args : args[j].rt /\ args[j].word < inputs[k].word})

(* At run time the source stands where the input stood, provided that the  *)
(* options that are not for run time all stand before it (dcc_gen.c:191-   *)
(* 200, io.c:161-167).                                                     *)
RuntimePlaceAfterInclude ==
  pc = "accepted" =>
    \A k \in DOMAIN inputs :
      (\A j \in DOMAIN args : ~args[j].rt => args[j].word < inputs[k].word)
        => InRuntimePlace(k)

(* The position the host is given lies between the arguments it belongs to *)
(* (pos_between_args, io.c:161-167), after the name of the compiler.       *)
RuntimePosInRange ==
  pc = "accepted" =>
    \A k \in DOMAIN inputs : RuntimePos(k) \in 1 .. RuntimeCount
=============================================================================
