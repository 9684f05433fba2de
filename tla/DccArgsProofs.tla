--------------------------- MODULE DccArgsProofs ----------------------------
(***************************************************************************)
(* Proofs about DccArgs, for every set of words, command lines of any      *)
(* length and any number of options dcc adds itself.                       *)
(***************************************************************************)
EXTENDS DccArgs, SequenceTheorems, FiniteSetTheorems, TLAPS

Arg == [word : Nat, rt : BOOLEAN]
InputFile == [word : Nat, pos : Nat]

Types ==
  /\ line \in Seq(Words)
  /\ at \in 1 .. Len(line) + 1
  /\ args \in Seq(Arg)
  /\ inputs \in Seq(InputFile)
  /\ output \in Nat
  /\ compile \in BOOLEAN /\ preproc \in BOOLEAN

(* What has been kept are words that have been read, and each word read    *)
(* has yielded at most one string.                                         *)
Behind ==
  /\ \A j \in DOMAIN args : 0 < args[j].word /\ args[j].word < at
  /\ \A k \in DOMAIN inputs : 0 < inputs[k].word /\ inputs[k].word < at
  /\ output < at
  /\ Len(args) + Len(inputs) < at

ArgsInv == Types /\ Behind /\ InputInPlace /\ WordsOnce

LEMMA InitArgs == Init => ArgsInv
<1> SUFFICES ASSUME Init PROVE ArgsInv
  OBVIOUS
<1>1. line \in Seq(Words) /\ Len(line) \in Nat
  BY LengthAssumption DEF Init, Lines
<1>2. args = <<>> /\ inputs = <<>> /\ <<>> \in Seq(Arg) /\ <<>> \in Seq(InputFile)
  BY DEF Init
<1>3. /\ Len(args) = 0 /\ DOMAIN args = {}
      /\ Len(inputs) = 0 /\ DOMAIN inputs = {}
      /\ at = 1 /\ output = 0
  BY <1>2 DEF Init
<1>4. Types
  <2>1. compile \in BOOLEAN /\ preproc \in BOOLEAN
    BY DEF Init
  <2> QED BY <1>1, <1>2, <1>3, <2>1 DEF Types
<1>5. Behind /\ InputInPlace /\ WordsOnce
  BY <1>3 DEF Behind, InputInPlace, WordsOnce
<1> QED BY <1>4, <1>5 DEF ArgsInv

LEMMA WordTypes ==
  ASSUME Types
  PROVE  /\ Len(args) \in Nat /\ DOMAIN args = 1 .. Len(args)
         /\ Len(inputs) \in Nat /\ DOMAIN inputs = 1 .. Len(inputs)
         /\ Len(line) \in Nat /\ at \in Nat /\ output \in Nat
         /\ \A j \in DOMAIN args : args[j].word \in Nat
         /\ \A k \in DOMAIN inputs : inputs[k].word \in Nat /\ inputs[k].pos \in Nat
<1>1. /\ Len(args) \in Nat /\ DOMAIN args = 1 .. Len(args)
      /\ Len(inputs) \in Nat /\ DOMAIN inputs = 1 .. Len(inputs)
      /\ Len(line) \in Nat /\ at \in Nat /\ output \in Nat
  BY DEF Types
<1>2. ASSUME NEW j \in DOMAIN args PROVE args[j].word \in Nat
  <2>1. args[j] \in Arg
    BY <1>1 DEF Types
  <2> QED BY <2>1 DEF Arg
<1>3. ASSUME NEW k \in DOMAIN inputs PROVE inputs[k].word \in Nat /\ inputs[k].pos \in Nat
  <2>1. inputs[k] \in InputFile
    BY <1>1 DEF Types
  <2> QED BY <2>1 DEF InputFile
<1> QED BY <1>1, <1>2, <1>3

(* Reading on while nothing is kept. *)
LEMMA SkipKeeps ==
  ASSUME ArgsInv, UNCHANGED <<line, args, inputs, output>>,
         at' \in at .. Len(line) + 1, compile' \in BOOLEAN, preproc' \in BOOLEAN
  PROVE  ArgsInv'
<1>1. Types'
  BY DEF ArgsInv, Types
<1>2. Behind'
  <2>1. at <= at' /\ at' \in Nat /\ at \in Nat
    BY DEF ArgsInv, Types
  <2> QED BY <2>1, WordTypes DEF ArgsInv, Behind
<1>3. InputInPlace' /\ WordsOnce'
  BY DEF ArgsInv, InputInPlace, WordsOnce
<1> QED BY <1>1, <1>2, <1>3 DEF ArgsInv

(* Where the word being read ends: its value is on the line too. *)
LEMMA NextWord ==
  ASSUME Types, NEW w \in Words, Complete(w)
  PROVE  /\ AfterOption(w) \in at + 1 .. Len(line) + 1
         /\ TakesNext(w) => AfterOption(w) = at + 2
         /\ ~TakesNext(w) => AfterOption(w) = at + 1
<1>1. at \in 1 .. Len(line) /\ Len(line) \in Nat
  BY DEF Complete, Reading, Types
<1>2. w \in Word
  BY WordsAssumption
<1>3. TakesNext(w) => at < Len(line)
  BY <1>2 DEF Complete, TakesNext, Word
<1> QED BY <1>1, <1>3 DEF AfterOption
-----------------------------------------------------------------------------
LEMMA InputKeeps ==
  ASSUME ArgsInv, NEW w \in Words, Input(w)
  PROVE  ArgsInv'
<1> DEFINE n == Len(inputs) + 1
           item == [word |-> at, pos |-> Len(args)]
<1>0. Types /\ Behind /\ InputInPlace /\ WordsOnce
  BY DEF ArgsInv
<1>1. /\ UNCHANGED <<line, args, output, compile, preproc>>
      /\ at' = at + 1 /\ at <= Len(line)
      /\ inputs' = Append(inputs, item)
  BY <1>0, WordTypes DEF Input, Reading, OptionsBefore, flags
<1>2. item \in InputFile
  BY <1>0, WordTypes DEF InputFile
<1>3. /\ inputs' \in Seq(InputFile) /\ Len(inputs') = n /\ DOMAIN inputs' = 1 .. n
      /\ inputs'[n] = item
      /\ \A k \in DOMAIN inputs : inputs'[k] = inputs[k]
      /\ \A k \in DOMAIN inputs' : k # n => k \in DOMAIN inputs
  <2> HIDE DEF item
  <2>1. inputs \in Seq(InputFile)
    BY <1>0 DEF Types
  <2> QED BY <1>0, <1>1, <1>2, <2>1, AppendProperties, WordTypes
<1>4. Types'
  BY <1>0, <1>1, <1>3 DEF Types
<1>5. Behind'
  BY <1>0, <1>1, <1>3, WordTypes DEF Behind
<1>6. InputInPlace'
  BY <1>0, <1>1, <1>3, WordTypes DEF InputInPlace, Behind
<1>7. WordsOnce'
  BY <1>0, <1>1, <1>3, WordTypes DEF WordsOnce, Behind
<1> QED BY <1>4, <1>5, <1>6, <1>7 DEF ArgsInv

LEMMA ForwardKeeps ==
  ASSUME ArgsInv, NEW w \in Words, ForwardOption(w)
  PROVE  ArgsInv'
<1> DEFINE rt == w.action = "forward"
           new == IF TakesNext(w) THEN << Fwd(at, rt), Fwd(at + 1, rt) >>
                                  ELSE << Fwd(at, rt) >>
<1>0. Types /\ Behind /\ InputInPlace /\ WordsOnce
  BY DEF ArgsInv
<1>1. /\ UNCHANGED <<line, inputs, output, compile, preproc>>
      /\ at' = AfterOption(w) /\ at' \in at + 1 .. Len(line) + 1
      /\ args' = args \o new
  BY <1>0, NextWord DEF ForwardOption, Forward, flags
<1>2. /\ new \in Seq(Arg) /\ at + Len(new) = at'
      /\ \A j \in 1 .. Len(new) : new[j].word = at + j - 1
  <2>1. Fwd(at, rt) \in Arg /\ Fwd(at + 1, rt) \in Arg
    BY <1>0, WordTypes DEF Fwd, Arg
  <2>2. CASE TakesNext(w)
    <3>1. new = << Fwd(at, rt), Fwd(at + 1, rt) >>
      BY <2>2
    <3> QED BY <2>1, <2>2, <3>1, <1>0, <1>1, WordTypes, NextWord DEF Fwd, ForwardOption
  <2>3. CASE ~TakesNext(w)
    <3>1. new = << Fwd(at, rt) >>
      BY <2>3
    <3> QED BY <2>1, <2>3, <3>1, <1>0, <1>1, WordTypes, NextWord DEF Fwd, ForwardOption
  <2> QED BY <2>2, <2>3
<1> HIDE DEF new
<1>3. /\ args' \in Seq(Arg) /\ Len(args') = Len(args) + Len(new)
      /\ DOMAIN args' = 1 .. Len(args) + Len(new)
      /\ \A j \in DOMAIN args : args'[j] = args[j] /\ j \in DOMAIN args'
      /\ \A j \in DOMAIN args' : j \notin DOMAIN args =>
           j > Len(args) /\ args'[j].word = at + (j - Len(args)) - 1
  <2>1. args \in Seq(Arg)
    BY <1>0 DEF Types
  <2>2. /\ args \o new \in Seq(Arg) /\ Len(args \o new) = Len(args) + Len(new)
        /\ \A i \in 1 .. Len(args) + Len(new) :
             (args \o new)[i] = IF i <= Len(args) THEN args[i] ELSE new[i - Len(args)]
    BY <1>2, <2>1, ConcatProperties
  <2>3. Len(args) \in Nat /\ Len(new) \in Nat /\ DOMAIN args = 1 .. Len(args)
    BY <1>2, <2>1
  <2>4. ASSUME NEW j \in 1 .. Len(args) + Len(new), j \notin 1 .. Len(args)
        PROVE  j - Len(args) \in 1 .. Len(new) /\ j > Len(args)
    BY <2>3, <2>4
  <2>5. DOMAIN args' = 1 .. Len(args) + Len(new)
    BY <1>1, <2>2
  <2> QED BY <1>1, <1>2, <2>2, <2>3, <2>4, <2>5, SMTT(30)
<1>4. Types'
  BY <1>0, <1>1, <1>3 DEF Types
<1>5. /\ at \in Nat /\ at' \in Nat /\ output \in Nat /\ at < at'
      /\ \A j \in DOMAIN args : args'[j].word \in Nat /\ args'[j].word < at
      /\ \A j \in DOMAIN args' : j \notin DOMAIN args =>
           args'[j].word \in Nat /\ at <= args'[j].word /\ args'[j].word < at'
  <2>1. at \in Nat /\ at' \in Nat /\ output \in Nat /\ at < at'
        /\ Len(args) \in Nat /\ Len(new) \in Nat
    BY <1>0, <1>1, <1>2, WordTypes
  <2> QED BY <1>0, <1>2, <1>3, <2>1, WordTypes, SMTT(30) DEF Behind
<1>6. Behind'
  <2>1. Len(args') + Len(inputs') < at'
    <3>1. Len(args) \in Nat /\ Len(new) \in Nat /\ Len(inputs) \in Nat /\ at \in Nat
      BY <1>0, <1>2, WordTypes
    <3>2. Len(args) + Len(inputs) < at
      BY <1>0 DEF Behind
    <3> QED BY <1>1, <1>2, <1>3, <3>1, <3>2
  <2>2. \A j \in DOMAIN args' : 0 < args'[j].word /\ args'[j].word < at'
    BY <1>0, <1>3, <1>5 DEF Behind
  <2>3. /\ output < at'
        /\ \A k \in DOMAIN inputs : 0 < inputs[k].word /\ inputs[k].word < at'
    BY <1>0, <1>5, WordTypes DEF Behind
  <2> QED BY <1>1, <2>1, <2>2, <2>3 DEF Behind
<1>7. InputInPlace'
  <2>1. \A k \in DOMAIN inputs : inputs[k].pos \in Nat /\ inputs[k].pos <= Len(args)
                                   /\ inputs[k].word \in Nat /\ inputs[k].word < at
    BY <1>0, WordTypes DEF InputInPlace, Behind
  <2>2. \A k \in DOMAIN inputs, j \in DOMAIN args' :
          j <= inputs[k].pos <=> args'[j].word < inputs[k].word
    <3> SUFFICES ASSUME NEW k \in DOMAIN inputs, NEW j \in DOMAIN args'
                 PROVE  j <= inputs[k].pos <=> args'[j].word < inputs[k].word
      OBVIOUS
    <3>1. CASE j \in DOMAIN args
      BY <1>0, <1>3, <3>1 DEF InputInPlace
    <3>2. CASE j \notin DOMAIN args
      BY <1>3, <1>5, <2>1, <3>2, <1>0, WordTypes, SMTT(30)
    <3> QED BY <3>1, <3>2
  <2> QED BY <1>0, <1>1, <1>2, <1>3, <2>1, <2>2, WordTypes, SMTT(30) DEF InputInPlace
<1>8. WordsOnce'
  <2>1. \A j, l \in DOMAIN args' : j < l => args'[j].word < args'[l].word
    <3> SUFFICES ASSUME NEW j \in DOMAIN args', NEW l \in DOMAIN args', j < l
                 PROVE  args'[j].word < args'[l].word
      OBVIOUS
    <3>1. CASE l \in DOMAIN args
      <4>1. j \in DOMAIN args
        BY <1>0, <1>3, <3>1, WordTypes
      <4> QED BY <1>0, <1>3, <3>1, <4>1 DEF WordsOnce
    <3>2. CASE j \in DOMAIN args /\ l \notin DOMAIN args
      BY <1>5, <3>2
    <3>3. CASE j \notin DOMAIN args /\ l \notin DOMAIN args
      BY <1>0, <1>2, <1>3, <3>3, WordTypes
    <3> QED BY <3>1, <3>2, <3>3
  <2>2. \A j \in DOMAIN args' : \A k \in DOMAIN inputs : args'[j].word # inputs[k].word
    BY <1>0, <1>3, <1>5, WordTypes DEF WordsOnce, Behind
  <2>3. \A j \in DOMAIN args' : args'[j].word # output
    BY <1>0, <1>3, <1>5, WordTypes DEF WordsOnce, Behind
  <2> QED BY <1>0, <1>1, <2>1, <2>2, <2>3 DEF WordsOnce
<1> QED BY <1>4, <1>6, <1>7, <1>8 DEF ArgsInv

LEMMA OutputKeeps ==
  ASSUME ArgsInv, NEW w \in Words, SetOutput(w)
  PROVE  ArgsInv'
<1>0. Types /\ Behind /\ InputInPlace /\ WordsOnce
  BY DEF ArgsInv
<1>1. /\ UNCHANGED <<line, args, inputs, compile, preproc>>
      /\ at' = AfterOption(w) /\ at' \in at + 1 .. Len(line) + 1
  BY <1>0, NextWord DEF SetOutput
<1>2. CASE UNCHANGED output
  BY <1>0, <1>1, <1>2, SkipKeeps, WordTypes DEF Types
<1>3. CASE output' = at' - 1
  <2>1. at <= output' /\ output' < at' /\ output' \in Nat /\ at \in Nat /\ at' \in Nat /\ at < at'
    BY <1>0, <1>1, <1>3, WordTypes
  <2>2. Types'
    BY <1>0, <1>1, <2>1 DEF Types
  <2>3. Behind'
    BY <1>0, <1>1, <2>1, WordTypes DEF Behind
  <2>4. InputInPlace'
    BY <1>0, <1>1 DEF InputInPlace
  <2>5. \A j \in DOMAIN args : args[j].word # output'
    BY <1>0, <2>1, WordTypes DEF Behind
  <2>6. \A k \in DOMAIN inputs : inputs[k].word # output'
    BY <1>0, <2>1, WordTypes DEF Behind
  <2>7. WordsOnce'
    BY <1>0, <1>1, <2>5, <2>6 DEF WordsOnce
  <2> QED BY <2>2, <2>3, <2>4, <2>7 DEF ArgsInv
<1> QED BY <1>1, <1>2, <1>3 DEF SetOutput

LEMMA StepArgs == ArgsInv /\ [Next]_vars => ArgsInv'
<1> SUFFICES ASSUME ArgsInv, [Next]_vars PROVE ArgsInv'
  OBVIOUS
<1>0. Types /\ compile \in BOOLEAN /\ preproc \in BOOLEAN /\ at \in at .. Len(line) + 1
  BY WordTypes DEF ArgsInv, Types
<1>1. ASSUME NEW w \in Words, Parse(w) PROVE ArgsInv'
  <2>1. CASE Input(w)
    BY <2>1, InputKeeps
  <2>2. CASE ForwardOption(w)
    BY <2>2, ForwardKeeps
  <2>3. CASE SetOutput(w)
    BY <2>3, OutputKeeps
  <2>4. Reading(w) => at + 1 \in at .. Len(line) + 1
    BY <1>0, WordTypes DEF Reading
  <2>5. Complete(w) => AfterOption(w) \in at .. Len(line) + 1
    BY <1>0, NextWord, WordTypes
  <2>6. CASE RejectWord(w) \/ MissingValue(w)
    BY <1>0, <2>4, <2>6, SkipKeeps DEF RejectWord, MissingValue, flags
  <2>7. CASE RejectOption(w) \/ SetMode(w) \/ SetLanguage(w)
    BY <1>0, <2>5, <2>7, SkipKeeps DEF RejectOption, SetMode, SetLanguage, flags
  <2>8. CASE HelpAndExit(w)
    BY <1>0, <2>8, SkipKeeps DEF HelpAndExit, flags
  <2> QED BY <1>1, <2>1, <2>2, <2>3, <2>6, <2>7, <2>8 DEF Parse
<1>2. CASE Check
  BY <1>0, <1>2, SkipKeeps DEF Check, flags
<1>3. CASE UNCHANGED vars
  BY <1>0, <1>3, SkipKeeps DEF vars, flags
<1> QED BY <1>1, <1>2, <1>3 DEF Next, Over

LEMMA ArgsInvariance == Spec => []ArgsInv
  BY InitArgs, StepArgs, PTL DEF Spec

-----------------------------------------------------------------------------
(* compiler_args and the array of input files never overflow, on a command *)
(* line of any length (dcc.c:166-171).                                     *)
THEOREM NeverOverflows == Spec => []Allocated
<1>1. ArgsInv => Allocated
  <2> SUFFICES ASSUME ArgsInv PROVE Allocated
    OBVIOUS
  <2>1. at <= Len(line) + 1 /\ Len(args) + Len(inputs) < at
    BY DEF ArgsInv, Types, Behind
  <2> QED BY <2>1, WordTypes DEF ArgsInv, Allocated, argc
<1> QED BY <1>1, ArgsInvariance, PTL

(* Each word of the command line is used at most once, in its order        *)
(* (dcc_options.c:284-288).                                                *)
THEOREM NothingTwice == Spec => []WordsOnce
  BY ArgsInvariance, PTL DEF ArgsInv

(* Each input stays between the options it stood between, whatever dcc has *)
(* kept for itself (dcc_options.c:296-299, dcc_gen.c:174-178).             *)
THEOREM InputsStay == Spec => []InputInPlace
  BY ArgsInvariance, PTL DEF ArgsInv

-----------------------------------------------------------------------------
LEMMA FixedLength ==
  ASSUME NEW n \in Nat
  PROVE  Fixed(n) \in Seq(Nat) /\ Len(Fixed(n)) = n
  BY DEF Fixed

LEMMA WordsLength ==
  ASSUME Types, NEW m \in Nat, NEW n \in Nat, 1 <= m, n <= Len(args), m <= n + 1
  PROVE  /\ WordsOf(SubSeq(args, m, n)) \in Seq(Nat)
         /\ Len(WordsOf(SubSeq(args, m, n))) = n - m + 1
<1>1. args \in Seq(Arg) /\ Len(args) \in Nat
  BY DEF Types
<1>2. \A j \in m .. n : args[j] \in Arg
  BY <1>1
<1> DEFINE s == SubSeq(args, m, n)
<1>3. s \in Seq(Arg) /\ Len(s) = n - m + 1
  <2>1. s \in Seq(Arg) /\ Len(s) = IF m <= n THEN n - m + 1 ELSE 0
    BY <1>2, SubSeqProperties
  <2> QED BY <2>1
<1> HIDE DEF s
<1>4. \A j \in DOMAIN s : s[j].word \in Nat
  <2>1. \A j \in DOMAIN s : s[j] \in Arg
    BY <1>3
  <2> QED BY <2>1 DEF Arg
<1>5. WordsOf(s) \in Seq(Nat) /\ Len(WordsOf(s)) = Len(s)
  BY <1>3, <1>4 DEF WordsOf
<1> QED BY <1>3, <1>5 DEF s

(* exec_cxx: the fixed strings, the input and all options. *)
LEMMA CxxLength ==
  ASSUME Types, InputInPlace, NEW k \in DOMAIN inputs, NEW named \in Nat, NEW specific \in Nat
  PROVE  Len(CxxLine(k, named, specific)) = 2 + named + Common + specific + Len(args)
<1> DEFINE pos == inputs[k].pos
           fixed == Fixed(1 + named + Common + specific)
           before == WordsOf(SubSeq(args, 1, pos))
           after == WordsOf(SubSeq(args, pos + 1, Len(args)))
           name == << inputs[k].word >>
<1>1. pos \in Nat /\ pos <= Len(args) /\ Len(args) \in Nat /\ Common \in Nat
      /\ inputs[k].word \in Nat
  BY WordTypes, LengthAssumption DEF InputInPlace
<1>2. fixed \in Seq(Nat) /\ Len(fixed) = 1 + named + Common + specific
  <2>1. 1 + named + Common + specific \in Nat
    BY <1>1
  <2> QED BY <2>1, FixedLength
<1>3. before \in Seq(Nat) /\ Len(before) = pos
  <2> HIDE DEF pos
  <2>1. 1 \in Nat /\ 1 <= 1 /\ 1 <= pos + 1 /\ pos - 1 + 1 = pos
    BY <1>1
  <2> QED BY <1>1, <2>1, WordsLength
<1>4. after \in Seq(Nat) /\ Len(after) = Len(args) - pos
  <2> HIDE DEF pos
  <2>1. /\ pos + 1 \in Nat /\ 1 <= pos + 1 /\ Len(args) <= Len(args)
        /\ pos + 1 <= Len(args) + 1
        /\ Len(args) - (pos + 1) + 1 = Len(args) - pos
    BY <1>1
  <2> QED BY <1>1, <2>1, WordsLength
<1>5. name \in Seq(Nat) /\ Len(name) = 1
  BY <1>1
<1>6. CxxLine(k, named, specific) = fixed \o before \o name \o after
  BY DEF CxxLine
<1> HIDE DEF fixed, before, after, name, pos
<1>7. fixed \o before \in Seq(Nat) /\ Len(fixed \o before) = Len(fixed) + Len(before)
  BY <1>2, <1>3, ConcatProperties
<1> DEFINE start == fixed \o before
<1>8. start \o name \in Seq(Nat) /\ Len(start \o name) = Len(start) + Len(name)
  <2> HIDE DEF start
  <2>1. start \in Seq(Nat)
    BY <1>7 DEF start
  <2> QED BY <1>5, <2>1, ConcatProperties
<1> DEFINE most == start \o name
<1>9. Len(most \o after) = Len(most) + Len(after)
  <2> HIDE DEF most
  <2>1. most \in Seq(Nat)
    BY <1>8 DEF most
  <2> QED BY <1>4, <2>1, ConcatProperties
<1>10. CxxLine(k, named, specific) = most \o after
  BY <1>6
<1>11. /\ Len(start) = 1 + named + Common + specific + pos
       /\ Len(most) = Len(start) + 1
  BY <1>2, <1>3, <1>5, <1>7, <1>8
<1> HIDE DEF pos, start, most, fixed, after, name
<1>12. Len(most) = 1 + named + Common + specific + pos + 1
  BY <1>11
<1>13. Len(most) + Len(after) = 2 + named + Common + specific + Len(args)
  BY <1>1, <1>4, <1>12
<1> QED BY <1>9, <1>10, <1>13

LEMMA LineLengths ==
  ASSUME Types, InputInPlace, NEW k \in DOMAIN inputs
  PROVE  /\ Len(PrecompilerLine(k)) = 2 + 2 + Common + Precompiler + Len(args)
         /\ Len(FinderLine(k)) = 2 + 0 + Common + Finder + Len(args)
<1>1. 2 \in Nat /\ 0 \in Nat /\ Precompiler \in Nat /\ Finder \in Nat
  BY LengthAssumption
<1>2. Len(CxxLine(k, 2, Precompiler)) = 2 + 2 + Common + Precompiler + Len(args)
  BY <1>1, CxxLength, Zenon
<1>3. Len(CxxLine(k, 0, Finder)) = 2 + 0 + Common + Finder + Len(args)
  BY <1>1, CxxLength, Zenon
<1> QED BY <1>2, <1>3, Zenon DEF PrecompilerLine, FinderLine

LEMMA IntervalSize ==
  ASSUME NEW n \in Nat
  PROVE  IsFiniteSet(1 .. n) /\ Cardinality(1 .. n) = n
<1>1. 1 \in Int /\ n \in Int /\ (IF 1 > n THEN 0 ELSE n - 1 + 1) = n
  OBVIOUS
<1> QED BY <1>1, FS_Interval

LEMMA RuntimeAtMost ==
  ASSUME Types
  PROVE  /\ RuntimeCount \in Nat
         /\ RuntimeCount <= 1 + Common + Len(args)
<1> DEFINE kept == {j \in DOMAIN args : args[j].rt}
<1>1. Len(args) \in Nat /\ DOMAIN args = 1 .. Len(args) /\ Common \in Nat
  BY WordTypes, LengthAssumption
<1>2. IsFiniteSet(1 .. Len(args)) /\ Cardinality(1 .. Len(args)) = Len(args)
  BY <1>1, IntervalSize
<1>3. kept \in SUBSET (1 .. Len(args))
  BY <1>1
<1>4. IsFiniteSet(kept) /\ Cardinality(kept) <= Len(args)
  BY <1>2, <1>3, FS_Subset
<1>5. Cardinality(kept) \in Nat
  BY <1>4, FS_CardinalityType
<1> QED BY <1>1, <1>4, <1>5 DEF RuntimeCount

(* All argument vectors fit in arg_buff, because the one of the export     *)
(* finder is longer than the precompiler's: dcc_gen_required_arg_buff_size *)
(* counts argv1 and argv2 as one string (dcc_gen.c:143-159).               *)
THEOREM VectorsFit ==
  ASSUME Precompiler < Finder
  PROVE  Spec => []FitsArgBuff
<1>1. ArgsInv => FitsArgBuff
  <2> SUFFICES ASSUME ArgsInv PROVE FitsArgBuff
    OBVIOUS
  <2>0. Types /\ InputInPlace
    BY DEF ArgsInv
  <2>1. /\ Len(args) \in Nat /\ Len(inputs) \in Nat
        /\ Common \in Nat /\ Finder \in Nat /\ Precompiler \in Nat
    BY <2>0, WordTypes, LengthAssumption
  <2>2. MaxCxxArgs = 4 + Common + Finder + Len(args)
    BY <2>1 DEF MaxCxxArgs, Larger
  <2>3. /\ MaxCxxArgs <= ArgBuffSize /\ ArgBuffSize \in Nat
        /\ compile /\ output # 0 => 5 + Len(inputs) <= ArgBuffSize
    BY <2>1, <2>2 DEF ArgBuffSize, Larger
  <2>4. ASSUME NEW k \in DOMAIN inputs
        PROVE  Len(PrecompilerLine(k)) < ArgBuffSize /\ Len(FinderLine(k)) < ArgBuffSize
    <3>1. Len(PrecompilerLine(k)) = 2 + 2 + Common + Precompiler + Len(args)
      BY <2>0, LineLengths, Zenon
    <3>2. Len(FinderLine(k)) = 2 + 0 + Common + Finder + Len(args)
      BY <2>0, LineLengths, Zenon
    <3> QED BY <2>1, <2>2, <2>3, <3>1, <3>2
  <2>5. RuntimeCount < ArgBuffSize
    BY <2>0, <2>1, <2>2, <2>3, RuntimeAtMost
  <2>6. Len(LdLine) = 4 + Len(inputs)
    BY <2>1, FixedLength DEF LdLine
  <2> QED BY <2>1, <2>3, <2>4, <2>5, <2>6 DEF FitsArgBuff
<1> QED BY <1>1, ArgsInvariance, PTL

(* And only because of that: were the two lists of options as long as each *)
(* other, the null pointer of the precompiler's vector would lie behind    *)
(* the buffer of any run that does not combine objects.                    *)
THEOREM FitsByLengthOfOptions ==
  ASSUME ArgsInv, NEW k \in DOMAIN inputs, ~(compile /\ output # 0), Finder <= Precompiler
  PROVE  Len(PrecompilerLine(k)) = ArgBuffSize
<1>0. Types /\ InputInPlace
  BY DEF ArgsInv
<1>1. /\ Len(args) \in Nat /\ Common \in Nat /\ Finder \in Nat /\ Precompiler \in Nat
  BY <1>0, WordTypes, LengthAssumption
<1>2. Len(PrecompilerLine(k)) = 2 + 2 + Common + Precompiler + Len(args)
  BY <1>0, LineLengths, Zenon
<1>3. ArgBuffSize = 4 + Common + Precompiler + Len(args)
  BY <1>1 DEF ArgBuffSize, MaxCxxArgs, Larger
<1> QED BY <1>1, <1>2, <1>3

-----------------------------------------------------------------------------
(* A prefix of the options consists of those for run time and the others.  *)
LEMMA PrefixCount ==
  ASSUME Types, NEW n \in Nat, n <= Len(args)
  PROVE  LET rts == {j \in 1 .. n : args[j].rt}
             others == {j \in 1 .. n : ~args[j].rt}
         IN  /\ IsFiniteSet(rts) /\ IsFiniteSet(others)
             /\ Cardinality(rts) \in Nat /\ Cardinality(others) \in Nat
             /\ Cardinality(rts) + Cardinality(others) = n
<1> DEFINE rts == {j \in 1 .. n : args[j].rt}
           others == {j \in 1 .. n : ~args[j].rt}
<1>1. IsFiniteSet(1 .. n) /\ Cardinality(1 .. n) = n
  BY IntervalSize
<1>2. rts \in SUBSET (1 .. n) /\ others \in SUBSET (1 .. n)
  OBVIOUS
<1>3. rts \union others = 1 .. n /\ rts \intersect others = {}
  OBVIOUS
<1> HIDE DEF rts, others
<1>4. IsFiniteSet(rts) /\ IsFiniteSet(others)
  BY <1>1, <1>2, FS_Subset
<1>5. Cardinality(rts) \in Nat /\ Cardinality(others) \in Nat
  BY <1>4, FS_CardinalityType
<1>6. Cardinality(rts \intersect others) = 0
  BY <1>3, FS_EmptySet
<1>7. Cardinality(rts \union others)
        = Cardinality(rts) + Cardinality(others) - Cardinality(rts \intersect others)
  BY <1>4, FS_Union
<1>8. Cardinality(rts) + Cardinality(others) = n
  <2>1. n = Cardinality(rts) + Cardinality(others) - 0
    BY <1>1, <1>3, <1>6, <1>7
  <2> QED BY <1>5, <2>1
<1> QED BY <1>4, <1>5, <1>8 DEF rts, others

(* At run time an input behind all options that are not for run time       *)
(* stands where it stood among the others (dcc_gen.c:191-200, io.c:161).   *)
THEOREM RuntimePlace == Spec => []RuntimePlaceAfterInclude
<1>1. ArgsInv => RuntimePlaceAfterInclude
  <2> SUFFICES ASSUME ArgsInv, NEW k \in DOMAIN inputs,
                      \A j \in DOMAIN args : ~args[j].rt => args[j].word < inputs[k].word
               PROVE  InRuntimePlace(k)
    BY DEF RuntimePlaceAfterInclude
  <2> DEFINE n == inputs[k].pos
             rts == {j \in 1 .. n : args[j].rt}
             others == {j \in 1 .. n : ~args[j].rt}
  <2>0. Types /\ InputInPlace
    BY DEF ArgsInv
  <2>1. n \in Nat /\ n <= Len(args) /\ Len(args) \in Nat /\ DOMAIN args = 1 .. Len(args)
    BY <2>0, WordTypes DEF InputInPlace
  <2>2. \A j \in DOMAIN args : args[j].word < inputs[k].word <=> j \in 1 .. n
    BY <2>0, <2>1 DEF InputInPlace
  <2>3. {j \in DOMAIN args : args[j].rt /\ args[j].word < inputs[k].word} = rts
    BY <2>1, <2>2
  <2>4. {j \in DOMAIN args : ~args[j].rt} = others
    BY <2>1, <2>2
  <2>5. /\ Cardinality(rts) \in Nat /\ Cardinality(others) \in Nat
        /\ Cardinality(rts) + Cardinality(others) = n
    BY <2>0, <2>1, PrefixCount
  <2> HIDE DEF rts, others
  <2>6. Common \in Nat
    BY LengthAssumption
  <2>7. RuntimePos(k) = n + 1 + Common - Cardinality(others)
    BY <2>4 DEF RuntimePos, NotRuntime
  <2> HIDE DEF n
  <2>8. RuntimePos(k) = 1 + Common + Cardinality(rts)
    BY <2>1, <2>5, <2>6, <2>7
  <2> QED BY <2>3, <2>8 DEF InRuntimePlace
<1> QED BY <1>1, ArgsInvariance, PTL

(* Where the position may leave the range it must lie in: never behind the *)
(* end, and in front when more options that are not for run time           *)
(* follow the input than there are common ones and options before it.      *)
THEOREM RuntimeRange ==
  ASSUME ArgsInv, NEW k \in DOMAIN inputs
  PROVE  RuntimePos(k) \in 1 .. RuntimeCount
           <=> NotRuntime <= inputs[k].pos + Common
<1> DEFINE n == inputs[k].pos
           rts == {j \in 1 .. Len(args) : args[j].rt}
           others == {j \in 1 .. Len(args) : ~args[j].rt}
<1>0. Types /\ InputInPlace
  BY DEF ArgsInv
<1>1. /\ n \in Nat /\ n <= Len(args) /\ Len(args) \in Nat /\ DOMAIN args = 1 .. Len(args)
      /\ Common \in Nat
  BY <1>0, WordTypes, LengthAssumption DEF InputInPlace
<1>2. /\ Cardinality(rts) \in Nat /\ Cardinality(others) \in Nat
      /\ Cardinality(rts) + Cardinality(others) = Len(args)
  <2>1. Len(args) \in Nat /\ Len(args) <= Len(args)
    BY <1>1
  <2> QED BY <1>0, <2>1, PrefixCount
<1>3. NotRuntime = Cardinality(others) /\ RuntimeCount = 1 + Common + Cardinality(rts)
  BY <1>1 DEF NotRuntime, RuntimeCount
<1>4. RuntimePos(k) = n + 1 + Common - NotRuntime
  BY DEF RuntimePos
<1> HIDE DEF n, rts, others
<1>5. RuntimePos(k) \in Int /\ RuntimePos(k) <= RuntimeCount /\ RuntimeCount \in Int
  BY <1>1, <1>2, <1>3, <1>4
<1>6. 1 <= RuntimePos(k) <=> NotRuntime <= n + Common
  BY <1>1, <1>2, <1>3, <1>4
<1> QED BY <1>5, <1>6 DEF n
=============================================================================
