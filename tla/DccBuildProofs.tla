--------------------------- MODULE DccBuildProofs ---------------------------
(***************************************************************************)
(* Proofs about DccBuild, for any number of inputs, any names, any set of  *)
(* failures, sources of any length and pipes of any size.                  *)
(***************************************************************************)
EXTENDS DccBuild, Integers, SequenceTheorems, TLAPS

Points == {"start", "precompile", "preprocess", "open", "scan", "waitPre", "waitPch",
           "work", "error", "errorPre", "errorPch", "errorUnlink", "deliver",
           "combined", "dropAll", "move", "cat", "rmdir", "done", "crashed"}
FileName == [kind : {"pch", "c", "o", "all", "out"}, of : 0 .. N]
Operation == [kind : {"unlink", "map", "finish", "tool"}, file : FileName, needs : SUBSET FileName]
Delivery == [file : FileName, to : Dests]

Precompilers == [st : {"none", "running", "ok", "bad"}, held : BOOLEAN]
Preprocessors == [st : {"none", "running", "ok", "bad"}, held : BOOLEAN, left : Nat]
Pipes == [items : Seq(Items), reader : BOOLEAN, stream : BOOLEAN]
Copies == [files : Seq(FileName), to : Dests]
Contents == [made : BOOLEAN, code : Seq(Nat)]
Types ==
  /\ preproc \in BOOLEAN /\ output \in BOOLEAN
  /\ pc \in Points /\ i \in 1 .. N
  /\ dir \in {"none", "there", "gone"} /\ tmp \in SUBSET FileName
  /\ pch \in Precompilers /\ pre \in Preprocessors /\ pipe \in Pipes
  /\ cfile \in BOOLEAN /\ found \in BOOLEAN
  /\ cat \in Copies
  /\ dest \in [Dests -> Contents]
  /\ status \in {0, 1} /\ stuck \in BOOLEAN
  /\ pc = "work" => todo \in Seq(Operation)
  /\ pc \in {"deliver", "combined"} => todo = <<>>
  /\ pc \in {"move", "cat"} => todo \in Seq(Delivery)

(* dcc holds the pid of every child that may run, and knows where it may   *)
(* hold one.                                                               *)
Pids ==
  /\ pch.st = "running" => pch.held
  /\ pre.st = "running" => pre.held
  /\ pch.held => pc \in {"preprocess", "open", "scan", "waitPre", "waitPch",
                         "error", "errorPre", "errorPch", "crashed"}
  /\ pre.held => pc \in {"open", "scan", "waitPre", "error", "errorPre", "crashed"}

(* Each step of the plan finds the files it uses: they are there already,  *)
(* or a tool makes them before, and none of them is unlinked before.       *)
Removes(op) == IF op.kind = "unlink" THEN {op.file} ELSE {}
Uses(op) == op.needs \union Removes(op)
Makes(op) == IF op.kind = "tool" THEN {op.file} ELSE {}

Possible(plan, files) ==
  \A p \in DOMAIN plan : \A f \in Uses(plan[p]) :
    /\ f \in files \/ \E q \in DOMAIN plan : q < p /\ f \in Makes(plan[q])
    /\ \A q \in DOMAIN plan : q < p => f \notin Removes(plan[q])

Sourced ==
  /\ pc \in {"preprocess", "open", "scan", "waitPre", "waitPch"} /\ pch.st = "ok" => Pch \in tmp
  /\ pc \in {"scan", "waitPre", "waitPch"} => (found => cfile) /\ (cfile => C \in tmp)
  /\ pc = "work" => Possible(todo, tmp)

(* Each file that is there is on its way out: an output to its place, and  *)
(* what only this input needs to a later unlink of the plan.               *)
Earlier == {Out(k) : k \in 1 .. i - 1}
Temporary == {Pch, File("c", 0), Obj}

Scheduled(plan, files) ==
  \A f \in Temporary :
    /\ f \in files => \E p \in DOMAIN plan : f \in Removes(plan[p])
    /\ \A q \in DOMAIN plan :
         f \in Makes(plan[q]) => \E p \in DOMAIN plan : q < p /\ f \in Removes(plan[p])

Known ==
  CASE pc \in {"start", "rmdir"} -> {}
    [] pc = "precompile" -> Earlier
    [] pc \in {"preprocess", "open"} -> Earlier \union {Pch}
    [] pc \in {"scan", "waitPre", "waitPch"} -> Earlier \union {Pch, C}
    [] pc \in {"work", "error", "errorPre", "errorPch", "errorUnlink"} ->
         Earlier \union {Out(i)} \union Temporary
    [] pc = "deliver" -> Outs
    [] pc = "combined" -> Outs \union {All}
    [] pc = "dropAll" -> {All}
    [] pc = "move" -> {todo[k].file : k \in DOMAIN todo}
    [] pc = "cat" -> {todo[k].file : k \in DOMAIN todo}
                       \union {cat.files[k] : k \in DOMAIN cat.files}
    [] OTHER -> tmp

Traced ==
  ~stuck =>
    /\ tmp \subseteq Known
    /\ pc = "work" =>
         /\ Scheduled(todo, tmp)
         /\ \A q \in DOMAIN todo : Makes(todo[q]) \subseteq Temporary \union {Out(i)}
    /\ pc = "deliver" => i = N
    /\ pc = "done" => dir # "there"

-----------------------------------------------------------------------------
(* What is delivered one by one, without -E. *)
Moves == IF output THEN << Move(All, OutFile) >>
                   ELSE [k \in 1 .. N |-> Move(Out(k), NameOf[k])]

Delivered(n) == \A k \in 1 .. n : dest[Moves[k].to] = Holding(Code(Moves[k].file))

Left(n) == SubSeq(Moves, n + 1, Len(Moves))

(* With -E, n inputs have been copied. *)
Copied(n) ==
  /\ cat.to = IF output THEN OutFile ELSE StdOut
  /\ dest[cat.to] = Holding([k \in 1 .. n |-> k])
  /\ cat.files = [k \in 1 .. N - n |-> Out(n + k)]

Target == IF output THEN OutFile ELSE StdOut

NamesDiffer == \A j, k \in 1 .. N : NameOf[j] = NameOf[k] => j = k

(* As long as nothing has failed, the destinations hold what has left the  *)
(* temporary directory, and the rest is still to come, in order.           *)
Arrived ==
  status = 0 /\ (output \/ preproc \/ NamesDiffer) =>
    /\ pc = "combined" => output /\ ~preproc
    /\ pc = "cat" /\ preproc => todo = <<>> /\ \E n \in 0 .. N : Copied(n)
    /\ pc = "move" /\ preproc => todo = <<>> /\ dest[Target] = Everything
    /\ pc = "move" /\ ~preproc => \E n \in 0 .. Len(Moves) : todo = Left(n) /\ Delivered(n)
    /\ pc = "cat" /\ ~preproc =>
         \E n \in 1 .. Len(Moves) :
           /\ todo = Left(n) /\ Delivered(n - 1)
           /\ cat.to = Moves[n].to
           /\ \/ cat.files = << Moves[n].file >> /\ dest[cat.to] = Holding(<<>>)
              \/ cat.files = <<>> /\ dest[cat.to] = Holding(Code(Moves[n].file))
    /\ pc \in {"rmdir", "done"} =>
         IF preproc THEN dest[Target] = Everything ELSE Delivered(Len(Moves))
    /\ pc # "dropAll"

-----------------------------------------------------------------------------
LEMMA Constants ==
  /\ N \in Nat /\ N > 0 /\ MaxItems \in Nat
  /\ OutFile \in Dests /\ StdOut \in Dests /\ \A k \in 1 .. N : NameOf[k] \in Dests
  BY SizeAssumption DEF Dests

LEMMA FileNames ==
  /\ {Pch, Obj, All, File("c", 0)} \subseteq FileName
  /\ \A k \in 1 .. N : Out(k) \in FileName
  /\ Outs \subseteq FileName
  /\ Types => C \in FileName
  BY Constants DEF Pch, Obj, All, Out, Outs, File, FileName, Types, C

LEMMA NothingTypes ==
  /\ NoCat \in Copies
  /\ Untouched \in Contents
  /\ <<>> \in Seq(Operation) /\ <<>> \in Seq(Delivery)
  BY Constants DEF NoCat, Untouched, Copies, Contents

LEMMA InitTypes == Init => Types
<1> SUFFICES ASSUME Init PROVE Types
  OBVIOUS
<1>1. dest \in [Dests -> Contents]
  BY NothingTypes DEF Init
<1>2. pch \in Precompilers /\ pre \in Preprocessors /\ pipe \in Pipes
  BY DEF Init, Precompilers, Preprocessors, Pipes
<1>3. pc \in Points /\ i \in 1 .. N
  BY Constants DEF Init, Points
<1> QED BY <1>1, <1>2, <1>3, NothingTypes DEF Init, Types

LEMMA UnlinkType ==
  ASSUME Types, NEW S, NEW ok \in BOOLEAN, Unlink(S, ok)
  PROVE  tmp' \in SUBSET FileName /\ stuck' \in BOOLEAN
  BY DEF Types, Unlink

LEMMA PlanType == Types => Plan \in Seq(Operation)
<1> SUFFICES ASSUME Types PROVE Plan \in Seq(Operation)
  OBVIOUS
<1>1. /\ Pch \in FileName /\ Obj \in FileName /\ Out(i) \in FileName /\ C \in FileName
  BY FileNames DEF Types
<1>2. \A f \in FileName : \A kind \in {"unlink", "map", "finish", "tool"} :
        \A S \in SUBSET FileName : Op(kind, f, S) \in Operation
  BY DEF Op, Operation
<1>3. \A f \in FileName : UnlinkOp(f) \in Operation
  BY <1>2 DEF UnlinkOp
<1> HIDE DEF Operation
<1> QED BY <1>1, <1>2, <1>3 DEF Plan

(* What an assignment to one field leaves. *)
LEMMA PchFields ==
  ASSUME Types
  PROVE  /\ pch.st \in {"none", "running", "ok", "bad"} /\ pch.held \in BOOLEAN
         /\ [st |-> "running", held |-> TRUE] \in Precompilers
         /\ [pch EXCEPT !.held = FALSE] \in Precompilers
         /\ \A st \in {"ok", "bad"} : [pch EXCEPT !.st = st] \in Precompilers
  BY DEF Types, Precompilers

LEMMA PreFields ==
  ASSUME Types
  PROVE  /\ pre.st \in {"none", "running", "ok", "bad"} /\ pre.held \in BOOLEAN
         /\ pre.left \in Nat
         /\ \A left \in Nat :
              /\ [st |-> "running", held |-> TRUE, left |-> left] \in Preprocessors
              /\ [pre EXCEPT !.left = left] \in Preprocessors
         /\ [pre EXCEPT !.held = FALSE] \in Preprocessors
         /\ \A st \in {"ok", "bad"} : [pre EXCEPT !.st = st] \in Preprocessors
  BY DEF Types, Preprocessors

LEMMA PipeFields ==
  ASSUME Types
  PROVE  /\ pipe.items \in Seq(Items)
         /\ \A stream \in BOOLEAN :
              [items |-> <<>>, reader |-> TRUE, stream |-> stream] \in Pipes
         /\ [pipe EXCEPT !.stream = FALSE] \in Pipes
         /\ \A items \in Seq(Items) : [pipe EXCEPT !.items = items] \in Pipes
         /\ [pipe EXCEPT !.reader = FALSE, !.stream = FALSE] \in Pipes
<1>1. pipe \in Pipes
  BY DEF Types
<1>2. <<>> \in Seq(Items)
  OBVIOUS
<1>3. \A items \in Seq(Items) : [pipe EXCEPT !.items = items] \in Pipes
  BY <1>1 DEF Pipes
<1>4. \A stream \in BOOLEAN : [items |-> <<>>, reader |-> TRUE, stream |-> stream] \in Pipes
  BY <1>2 DEF Pipes
<1>5. [pipe EXCEPT !.stream = FALSE] \in Pipes /\ pipe.items \in Seq(Items)
  BY <1>1 DEF Pipes
<1>6. [pipe EXCEPT !.reader = FALSE, !.stream = FALSE] \in Pipes
  BY <1>1 DEF Pipes
<1> QED BY <1>3, <1>4, <1>5, <1>6

LEMMA StartsType ==
  ASSUME Types, Start \/ RmDir \/ StartPrecompiler \/ StartPreprocessor \/ OpenC
  PROVE  Types'
<1> USE DEF Types, config, children, source, delivery, Points
<1>1. CASE Start \/ RmDir
  BY <1>1 DEF Start, RmDir
<1>2. CASE StartPrecompiler
  <2>1. pch' \in Precompilers /\ pipe' \in Pipes
    BY <1>2, PchFields, PipeFields DEF StartPrecompiler
  <2> QED BY <1>2, <2>1 DEF StartPrecompiler
<1>3. CASE StartPreprocessor
  <2>1. pre' \in Preprocessors /\ pipe' \in Pipes
    <3>1. ASSUME NEW left \in 0 .. MaxItems PROVE left \in Nat
      BY Constants
    <3> QED BY <1>3, <3>1, PreFields, PipeFields DEF StartPreprocessor
  <2> QED BY <1>3, <2>1 DEF StartPreprocessor
<1>4. CASE OpenC
  <2>1. tmp' \in SUBSET FileName /\ cfile' \in BOOLEAN
    BY <1>4, FileNames DEF OpenC
  <2> QED BY <1>4, <2>1 DEF OpenC
<1> QED BY <1>1, <1>2, <1>3, <1>4

LEMMA ScanType ==
  ASSUME Types, Scan \/ EndOfSource \/ WaitPre \/ WaitPch \/ ErrorStep
  PROVE  Types'
<1> USE DEF Types, config, children, source, delivery, Points
<1>1. CASE Scan
  <2>1. pipe.items \in Seq(Items) /\ pipe.items # <<>>
    BY <1>1, PipeFields DEF Scan
  <2>2. Tail(pipe.items) \in Seq(Items)
    BY <2>1
  <2>3. pipe' \in Pipes
    BY <1>1, <2>2, PipeFields DEF Scan
  <2>4. pc' \in {"error", "crashed", "scan"} /\ found' \in BOOLEAN
    BY <1>1 DEF Scan
  <2> QED BY <1>1, <2>3, <2>4 DEF Scan
<1>2. CASE EndOfSource \/ WaitPre
  <2>1. pre' \in Preprocessors
    BY <1>2, PreFields DEF EndOfSource, WaitPre
  <2> QED BY <1>2, <2>1 DEF EndOfSource, WaitPre
<1>3. CASE WaitPch
  <2>1. pch' \in Precompilers /\ cfile' \in BOOLEAN
    BY <1>3, PchFields DEF WaitPch
  <2>2. pc' = "work" => todo' \in Seq(Operation)
    BY <1>3, PlanType DEF WaitPch
  <2> QED BY <1>3, <2>1, <2>2 DEF WaitPch
<1>4. CASE CloseFiles
  <2>1. pipe' \in Pipes
    BY <1>4, PipeFields DEF CloseFiles
  <2> QED BY <1>4, <2>1 DEF CloseFiles
<1>5. CASE ErrorPre \/ ErrorPch
  <2>1. pre' \in Preprocessors /\ pch' \in Precompilers
    BY <1>5, PreFields, PchFields DEF ErrorPre, ErrorPch
  <2> QED BY <1>5, <2>1 DEF ErrorPre, ErrorPch
<1>6. CASE ErrorUnlink
  <2>1. tmp' \in SUBSET FileName /\ stuck' \in BOOLEAN
    BY <1>6, UnlinkType DEF ErrorUnlink, UnlinkAny
  <2> QED BY <1>6, <2>1 DEF ErrorUnlink
<1> QED BY <1>1, <1>2, <1>3, <1>4, <1>5, <1>6 DEF ErrorStep

LEMMA DoneType ==
  ASSUME Types, NEW ok \in BOOLEAN, Done(ok), pc = "work", todo # <<>>
  PROVE  /\ todo' \in Seq(Operation)
         /\ pc' \in {"work", "error"}
  BY DEF Types, Done

LEMMA HeadTypes ==
  ASSUME Types, todo # <<>>
  PROVE  /\ pc = "work" => Head(todo) \in Operation /\ Head(todo).file \in FileName
         /\ pc \in {"move", "cat"} =>
              Head(todo) \in Delivery /\ Head(todo).file \in FileName /\ Head(todo).to \in Dests
<1>1. pc = "work" => Head(todo) \in Operation
  BY DEF Types
<1>2. pc \in {"move", "cat"} => Head(todo) \in Delivery
  BY DEF Types
<1> QED BY <1>1, <1>2 DEF Operation, Delivery

LEMMA WorkType ==
  ASSUME Types, DoUnlink \/ DoMap \/ DoFinish \/ DoTool \/ ToolForkFails \/ NextInput
  PROVE  Types'
<1> USE DEF Types, config, children, source, delivery, Points
<1>1. CASE DoUnlink
  <2>1. todo' \in Seq(Operation) /\ pc' \in {"work", "error"}
    BY <1>1, DoneType DEF DoUnlink, Doing
  <2>2. tmp' \in SUBSET FileName /\ stuck' \in BOOLEAN
    BY <1>1, UnlinkType DEF DoUnlink
  <2> QED BY <1>1, <2>1, <2>2 DEF DoUnlink
<1>2. CASE DoMap \/ DoFinish
  <2>1. todo' \in Seq(Operation) /\ pc' \in {"work", "error"}
    BY <1>2, DoneType DEF DoMap, DoFinish, Doing
  <2> QED BY <1>2, <2>1, ZenonT(40) DEF DoMap, DoFinish
<1>3. CASE DoTool
  <2>1. todo' \in Seq(Operation) /\ pc' \in {"work", "error"}
    BY <1>3, DoneType DEF DoTool, Doing
  <2>2. Head(todo).file \in FileName
    BY <1>3, HeadTypes DEF DoTool, Doing
  <2>3. tmp' \in SUBSET FileName
    BY <1>3, <2>2 DEF DoTool, Tool
  <2> QED BY <1>3, <2>1, <2>3 DEF DoTool
<1>4. CASE ToolForkFails
  BY <1>4 DEF ToolForkFails
<1>5. CASE NextInput
  <2>1. i' \in 1 .. N /\ pc' \in Points
    BY <1>5, Constants DEF NextInput
  <2> QED BY <1>5, <2>1 DEF NextInput
<1> QED BY <1>1, <1>2, <1>3, <1>4, <1>5

LEMMA CodeType ==
  ASSUME Types, NEW f \in FileName
  PROVE  Code(f) \in Seq(Nat)
<1>1. [k \in 1 .. N |-> k] \in Seq(Nat)
  BY Constants
<1>2. f.of \in Nat
  BY DEF FileName
<1> QED BY <1>1, <1>2 DEF Code

LEMMA DestType ==
  ASSUME Types, NEW d \in Dests, NEW code \in Seq(Nat)
  PROVE  /\ Holding(code) \in Contents
         /\ [dest EXCEPT ![d] = Holding(code)] \in [Dests -> Contents]
         /\ dest[d].code \in Seq(Nat)
         /\ [dest EXCEPT ![d].code = code] \in [Dests -> Contents]
  BY DEF Types, Holding, Contents

LEMMA CatType ==
  ASSUME Types
  PROVE  /\ cat.files \in Seq(FileName) /\ cat.to \in Dests
         /\ \A files \in Seq(FileName) :
              /\ [cat EXCEPT !.files = files] \in Copies
              /\ \A to \in Dests : [files |-> files, to |-> to] \in Copies
  BY DEF Types, Copies

LEMMA DeliverType ==
  ASSUME Types, Deliver
  PROVE  Types'
<1> USE DEF Types, config, children, source, delivery, Points
<1>1. CASE Combine
  <2>1. tmp' \in SUBSET FileName /\ status' \in {0, 1}
    BY <1>1, FileNames DEF Combine, Tool
  <2> QED BY <1>1, <2>1 DEF Combine
<1>2. CASE UnlinkOuts
  <2>1. tmp' \in SUBSET FileName /\ stuck' \in BOOLEAN
    BY <1>2, UnlinkType DEF UnlinkOuts
  <2>2. << Move(All, OutFile) >> \in Seq(Delivery)
    BY FileNames, Constants DEF Move, Delivery
  <2>3. pc' = "move" => todo' = << Move(All, OutFile) >>
    BY <1>2 DEF UnlinkOuts
  <2>4. pc' \in {"move", "dropAll"} /\ status' \in {0, 1}
    BY <1>2 DEF UnlinkOuts
  <2> QED BY <1>2, <2>1, <2>2, <2>3, <2>4 DEF UnlinkOuts
<1>3. CASE DropAll
  <2>1. tmp' \in SUBSET FileName /\ stuck' \in BOOLEAN
    BY <1>3, UnlinkType DEF DropAll, UnlinkAny
  <2> QED BY <1>3, <2>1 DEF DropAll
<1>4. CASE MoveEach
  <2>1. \A k \in 1 .. N : Move(Out(k), NameOf[k]) \in Delivery
    BY FileNames, Constants DEF Move, Delivery
  <2>2. [k \in 1 .. N |-> Move(Out(k), NameOf[k])] \in Seq(Delivery)
    BY <2>1, Constants
  <2> QED BY <1>4, <2>2 DEF MoveEach
<1>5. CASE CopyAll
  <2> DEFINE to == IF output THEN OutFile ELSE StdOut
             files == [k \in 1 .. N |-> Out(k)]
  <2>1. to \in Dests /\ files \in Seq(FileName)
    BY FileNames, Constants
  <2>2. cat' = [files |-> files, to |-> to] /\ dest' = [dest EXCEPT ![to] = Holding(<<>>)]
    BY <1>5 DEF CopyAll
  <2> HIDE DEF to, files
  <2>3. <<>> \in Seq(Nat)
    OBVIOUS
  <2>4. cat' \in Copies /\ dest' \in [Dests -> Contents]
    BY <2>1, <2>2, <2>3, CatType, DestType
  <2> QED BY <1>5, <2>4 DEF CopyAll
<1>6. CASE CopyAllFails
  <2>1. tmp' \in SUBSET FileName /\ stuck' \in BOOLEAN
    BY <1>6, UnlinkType DEF CopyAllFails, UnlinkAny
  <2> QED BY <1>6, <2>1 DEF CopyAllFails
<1>7. ASSUME Moving PROVE todo' \in Seq(Delivery) /\ todo # <<>> /\ pc = "move"
  BY <1>7 DEF Moving
<1>8. CASE Rename
  <2>1. Head(todo).file \in FileName /\ Head(todo).to \in Dests
    BY <1>7, <1>8, HeadTypes DEF Rename
  <2>2. dest' \in [Dests -> Contents]
    BY <1>8, <2>1, CodeType, DestType DEF Rename
  <2> QED BY <1>7, <1>8, <2>2 DEF Rename
<1>9. CASE CopyInstead
  <2>1. Head(todo).file \in FileName /\ Head(todo).to \in Dests
    BY <1>7, <1>9, HeadTypes DEF CopyInstead
  <2>2. <<>> \in Seq(Nat) /\ << Head(todo).file >> \in Seq(FileName)
    BY <2>1
  <2>3. cat' \in Copies /\ dest' \in [Dests -> Contents]
    BY <1>9, <2>1, <2>2, CatType, DestType DEF CopyInstead
  <2> QED BY <1>7, <1>9, <2>3 DEF CopyInstead
<1>10. CASE MoveFails
  <2>1. tmp' \in SUBSET FileName /\ stuck' \in BOOLEAN
    BY <1>10, UnlinkType DEF MoveFails, UnlinkAny
  <2> QED BY <1>7, <1>10, <2>1 DEF MoveFails
<1>11. CASE AllMoved
  BY <1>11 DEF AllMoved
<1>12. CASE CatFile
  <2>1. cat.files \in Seq(FileName) /\ cat.files # <<>> /\ cat.to \in Dests
    BY <1>12, CatType, NothingTypes, Constants DEF CatFile
  <2>2. Head(cat.files) \in FileName /\ Tail(cat.files) \in Seq(FileName)
    BY <2>1
  <2>3. dest[cat.to].code \o Code(Head(cat.files)) \in Seq(Nat)
    <3>1. Code(Head(cat.files)) \in Seq(Nat)
      BY <2>2, CodeType
    <3>2. dest[cat.to].code \in Seq(Nat)
      BY <2>1, <3>1, DestType
    <3> QED BY <3>1, <3>2
  <2>4. cat' \in Copies /\ dest' \in [Dests -> Contents]
    BY <1>12, <2>1, <2>2, <2>3, CatType, DestType DEF CatFile
  <2> QED BY <1>12, <2>4 DEF CatFile
<1>13. CASE CatFails
  <2>1. tmp' \in SUBSET FileName /\ stuck' \in BOOLEAN
    BY <1>13, UnlinkType DEF CatFails, UnlinkAny
  <2>2. cat.to \in Dests
    BY CatType
  <2>3. Append(dest[cat.to].code, Part) \in Seq(Nat)
    <3>1. <<>> \in Seq(Nat)
      OBVIOUS
    <3>2. dest[cat.to].code \in Seq(Nat)
      BY <2>2, <3>1, DestType
    <3>3. Part \in Nat
      BY DEF Part
    <3> QED BY <3>2, <3>3
  <2>4. [dest EXCEPT ![cat.to].code = Append(@, Part)] \in [Dests -> Contents]
    <3>1. [dest EXCEPT ![cat.to].code = Append(dest[cat.to].code, Part)] \in [Dests -> Contents]
      BY <2>2, <2>3, DestType
    <3> QED BY <3>1
  <2>5. dest' \in [Dests -> Contents]
    BY <1>13, <2>4 DEF CatFails
  <2> QED BY <1>13, <2>1, <2>5, NothingTypes DEF CatFails
<1>14. CASE CloseCat
  BY <1>14, NothingTypes DEF CloseCat
<1> QED
  BY <1>1, <1>2, <1>3, <1>4, <1>5, <1>6, <1>8, <1>9, <1>10, <1>11, <1>12, <1>13, <1>14
    DEF Deliver

ChildStep ==
  PrecompilerOpens \/ PrecompilerEnds \/ PreprocessorWrites \/ PreprocessorEnds \/ PreprocessorFails

LEMMA ChildType ==
  ASSUME Types, ChildStep
  PROVE  Types'
<1> USE DEF Types, config, children, source, delivery
<1>1. CASE PrecompilerOpens
  BY <1>1, FileNames DEF PrecompilerOpens
<1>2. CASE PrecompilerEnds
  <2>1. pch' \in Precompilers
    BY <1>2, PchFields DEF PrecompilerEnds, Ended
  <2> QED BY <1>2, <2>1 DEF PrecompilerEnds
<1>3. CASE PreprocessorWrites
  <2>1. pre.left - 1 \in Nat
    BY <1>3, PreFields DEF PreprocessorWrites
  <2>2. pre' \in Preprocessors
    BY <1>3, <2>1, PreFields DEF PreprocessorWrites
  <2>3. \A item \in Items : Append(pipe.items, item) \in Seq(Items)
    BY PipeFields
  <2>4. pipe' \in Pipes
    BY <1>3, <2>3, PipeFields DEF PreprocessorWrites
  <2> QED BY <1>3, <2>2, <2>4 DEF PreprocessorWrites
<1>4. CASE PreprocessorEnds \/ PreprocessorFails
  <2>1. pre' \in Preprocessors
    BY <1>4, PreFields DEF PreprocessorEnds, PreprocessorFails, Ended
  <2> QED BY <1>4, <2>1 DEF PreprocessorEnds, PreprocessorFails
<1> QED BY <1>1, <1>2, <1>3, <1>4 DEF ChildStep

LEMMA StepTypes == Types /\ [Next]_vars => Types'
<1> SUFFICES ASSUME Types, [Next]_vars PROVE Types'
  OBVIOUS
<1>1. CASE UNCHANGED vars
  BY <1>1 DEF vars, config, children, source, delivery, Types
<1> QED
  BY <1>1, StartsType, ScanType, WorkType, DeliverType, ChildType
    DEF Next, DccStep, ChildStep, Over

-----------------------------------------------------------------------------
LEMMA StepPids == Types /\ Pids /\ [Next]_vars => Pids'
<1> SUFFICES ASSUME Types, Pids, [Next]_vars PROVE Pids'
  OBVIOUS
<1> USE DEF Pids, children
<1>0. pch \in Precompilers /\ pre \in Preprocessors
  BY DEF Types
<1>1. CASE Start \/ RmDir \/ OpenC \/ EndOfSource \/ NextInput \/ ErrorUnlink \/ ToolForkFails
  BY <1>1 DEF Start, RmDir, OpenC, EndOfSource, NextInput, ErrorUnlink, ToolForkFails, Doing
<1>2. CASE StartPrecompiler
  BY <1>0, <1>2 DEF StartPrecompiler
<1>3. CASE StartPreprocessor
  BY <1>0, <1>3 DEF StartPreprocessor
<1>4. CASE Scan
  BY <1>4 DEF Scan
<1>5. CASE WaitPre
  BY <1>0, <1>5 DEF WaitPre, Ended, Preprocessors
<1>6. CASE WaitPch
  BY <1>0, <1>6 DEF WaitPch, Ended, Precompilers
<1>7. CASE DoUnlink \/ DoMap \/ DoFinish \/ DoTool
  BY <1>7 DEF DoUnlink, DoMap, DoFinish, DoTool, Doing, Done
<1>8. CASE CloseFiles
  BY <1>8 DEF CloseFiles
<1>9. CASE ErrorPre
  BY <1>0, <1>9 DEF ErrorPre, Ended, Preprocessors
<1>10. CASE ErrorPch
  BY <1>0, <1>10 DEF ErrorPch, Ended, Precompilers
<1>11. CASE Deliver
  <2>1. UNCHANGED <<pch, pre>> /\ pc \in {"deliver", "combined", "dropAll", "move", "cat"}
    BY <1>11 DEF Deliver, Combine, UnlinkOuts, DropAll, MoveEach, CopyAll, CopyAllFails, Rename,
         CopyInstead, MoveFails, AllMoved, CatFile, CatFails, CloseCat, Moving
  <2> QED BY <2>1
<1>12. CASE PrecompilerOpens
  BY <1>12 DEF PrecompilerOpens
<1>13. CASE PrecompilerEnds
  BY <1>0, <1>13 DEF PrecompilerEnds, Ended, Precompilers
<1>14. CASE PreprocessorWrites \/ PreprocessorEnds \/ PreprocessorFails
  BY <1>0, <1>14 DEF PreprocessorWrites, PreprocessorEnds, PreprocessorFails, Ended, Preprocessors
<1>15. CASE UNCHANGED vars
  BY <1>15 DEF vars
<1> QED
  BY <1>1, <1>2, <1>3, <1>4, <1>5, <1>6, <1>7, <1>8, <1>9, <1>10, <1>11, <1>12, <1>13, <1>14, <1>15
    DEF Next, DccStep, ErrorStep, Over

LEMMA PidsInvariance == Safety => [](Types /\ Pids)
<1>1. Init => Types /\ Pids
  <2>1. Init => Pids
    BY DEF Init, Pids
  <2> QED BY <2>1, InitTypes
<1> QED BY <1>1, StepTypes, StepPids, PTL DEF Safety

(* dcc never exits before a compiler it has started, whatever has failed:  *)
(* it holds the pid until it has waited (dcc_gen.c:413-416).               *)
THEOREM ChildrenWaitedFor == Safety => []NothingRuns
<1>1. Pids => NothingRuns
  BY DEF Pids, NothingRuns
<1> QED BY <1>1, PidsInvariance, PTL

-----------------------------------------------------------------------------
LEMMA StepOutputs == OutputsLast /\ [Next]_vars => OutputsLast'
<1> SUFFICES ASSUME OutputsLast, [Next]_vars PROVE OutputsLast'
  OBVIOUS
<1> USE DEF OutputsLast, delivery
<1>1. CASE Start \/ RmDir \/ StartPrecompiler \/ StartPreprocessor \/ OpenC \/ Scan \/ EndOfSource
  BY <1>1 DEF Start, RmDir, StartPrecompiler, StartPreprocessor, OpenC, Scan, EndOfSource
<1>2. CASE WaitPre \/ WaitPch \/ NextInput \/ ErrorStep \/ ToolForkFails
  BY <1>2 DEF WaitPre, WaitPch, NextInput, ErrorStep, CloseFiles, ErrorPre, ErrorPch, ErrorUnlink,
       ToolForkFails
<1>3. CASE DoUnlink \/ DoMap \/ DoFinish \/ DoTool
  BY <1>3 DEF DoUnlink, DoMap, DoFinish, DoTool, Doing
<1>4. CASE Deliver
  <2>1. pc' \in {"combined", "move", "dropAll", "rmdir", "cat"}
    BY <1>4 DEF Deliver, Combine, UnlinkOuts, DropAll, MoveEach, CopyAll, CopyAllFails, Rename,
         CopyInstead, MoveFails, AllMoved, CatFile, CatFails, CloseCat, Moving
  <2> QED BY <2>1
<1>5. CASE PrecompilerOpens \/ PrecompilerEnds
           \/ PreprocessorWrites \/ PreprocessorEnds \/ PreprocessorFails
  BY <1>5 DEF PrecompilerOpens, PrecompilerEnds, PreprocessorWrites, PreprocessorEnds,
       PreprocessorFails
<1>6. CASE UNCHANGED vars
  BY <1>6 DEF vars
<1> QED BY <1>1, <1>2, <1>3, <1>4, <1>5, <1>6 DEF Next, DccStep, Over

(* No destination is touched before all inputs have been compiled          *)
(* (dcc_gen.c:497-502).                                                    *)
THEOREM NothingDeliveredEarly == Safety => []OutputsLast
<1>1. Init => OutputsLast
  BY DEF Init, OutputsLast
<1> QED BY <1>1, StepOutputs, PTL DEF Safety

-----------------------------------------------------------------------------
(* The files of one input are different files. *)
LEMMA Different ==
  /\ Pch # Obj /\ Pch # File("c", 0) /\ Obj # File("c", 0) /\ All \notin Temporary
  /\ \A k : Out(k) # Pch /\ Out(k) # Obj /\ Out(k) # File("c", 0) /\ Out(k) # All
  /\ C # Pch /\ C # Obj
<1>1. File("c", 0) # Pch /\ File("c", 0) # Obj /\ Pch # Obj
  BY DEF File, Pch, Obj
<1>2. \A k : Out(k) # Pch /\ Out(k) # Obj /\ Out(k) # File("c", 0) /\ Out(k) # All
  BY DEF File, Pch, Obj, All, Out
<1>3. All # Pch /\ All # Obj /\ All # File("c", 0)
  BY DEF File, Pch, Obj, All
<1> QED BY <1>1, <1>2, <1>3 DEF C, Temporary

LEMMA OpFields ==
  \A kind, f, S :
    /\ Removes(Op(kind, f, S)) = IF kind = "unlink" THEN {f} ELSE {}
    /\ Makes(Op(kind, f, S)) = IF kind = "tool" THEN {f} ELSE {}
    /\ Uses(Op(kind, f, S)) = S \union IF kind = "unlink" THEN {f} ELSE {}
    /\ Removes(UnlinkOp(f)) = {f} /\ Uses(UnlinkOp(f)) = {f} /\ Makes(UnlinkOp(f)) = {}
  BY DEF Removes, Makes, Uses, Op, UnlinkOp

(* Every plan finds its files, if the header and the C file are there when *)
(* they have to be.                                                        *)
LEMMA PlanPossible ==
  ASSUME Types, Pch \in tmp, found \/ ~preproc => C \in tmp
  PROVE  Possible(Plan, tmp)
<1>1. CASE ~found /\ preproc
  <2>1. Plan = << UnlinkOp(Pch) >>
    BY <1>1 DEF Plan
  <2> QED BY <2>1, OpFields DEF Possible
<1>2. CASE ~found /\ ~preproc
  <2>1. Plan = << UnlinkOp(Pch), UnlinkOp(C), Op("tool", Out(i), {}) >>
    BY <1>2 DEF Plan
  <2> QED BY <1>2, <2>1, OpFields, Different DEF Possible
<1>3. CASE found /\ preproc
  <2>1. Plan = << Op("map", Pch, {Pch}), UnlinkOp(Pch), Op("finish", C, {C}) >>
    BY <1>3 DEF Plan
  <2> QED BY <1>3, <2>1, OpFields, Different DEF Possible
<1>4. CASE found /\ ~preproc
  <2> DEFINE s == << Op("map", Pch, {Pch}), Op("finish", C, {C}),
                     Op("tool", Obj, {C}), UnlinkOp(C),
                     Op("tool", Out(i), {Obj, Pch}), UnlinkOp(Obj), UnlinkOp(Pch),
                     Op("tool", Out(i), {Out(i)}) >>
  <2>1. Plan = s
    BY <1>4 DEF Plan
  <2>2. /\ DOMAIN s = 1 .. 8
        /\ Uses(s[1]) = {Pch} /\ Removes(s[1]) = {} 
        /\ Uses(s[2]) = {C} /\ Removes(s[2]) = {}
        /\ Uses(s[3]) = {C} /\ Removes(s[3]) = {} /\ Makes(s[3]) = {Obj}
        /\ Uses(s[4]) = {C} /\ Removes(s[4]) = {C}
        /\ Uses(s[5]) = {Obj, Pch} /\ Removes(s[5]) = {} /\ Makes(s[5]) = {Out(i)}
        /\ Uses(s[6]) = {Obj} /\ Removes(s[6]) = {Obj}
        /\ Uses(s[7]) = {Pch} /\ Removes(s[7]) = {Pch}
        /\ Uses(s[8]) = {Out(i)} /\ Removes(s[8]) = {}
    BY OpFields
  <2>3. C = File("c", 0) /\ C \in tmp
    BY <1>4 DEF C
  <2> HIDE DEF s
  <2> SUFFICES ASSUME NEW p \in 1 .. 8, NEW f \in Uses(s[p])
               PROVE  /\ f \in tmp \/ \E q \in 1 .. 8 : q < p /\ f \in Makes(s[q])
                      /\ \A q \in 1 .. 8 : q < p => f \notin Removes(s[q])
    BY <2>1, <2>2 DEF Possible
  <2>4. CASE p \in {1, 2, 3, 4}
    BY <2>2, <2>3, <2>4, Different
  <2>5. CASE p \in {5, 6, 7}
    BY <2>2, <2>3, <2>5, Different
  <2>6. CASE p = 8
    BY <2>2, <2>3, <2>6, Different
  <2> QED BY <2>4, <2>5, <2>6
<1> QED BY <1>1, <1>2, <1>3, <1>4 DEF Types

(* What is left of a plan stays possible when its first step is done. *)
LEMMA TailPossible ==
  ASSUME NEW plan \in Seq(Operation), plan # <<>>, NEW S, NEW T, Possible(plan, S),
         (S \ Removes(Head(plan))) \union Makes(Head(plan)) \subseteq T
  PROVE  Possible(Tail(plan), T)
<1>1. \A p \in DOMAIN Tail(plan) : p + 1 \in DOMAIN plan /\ p \in Nat /\ p > 0 /\ Tail(plan)[p] = plan[p + 1]
  OBVIOUS
<1>2. 1 \in DOMAIN plan /\ Head(plan) = plan[1] /\ DOMAIN plan = 1 .. Len(plan)
      /\ DOMAIN Tail(plan) = 1 .. Len(plan) - 1 /\ Len(plan) \in Nat
  OBVIOUS
<1> SUFFICES ASSUME NEW p \in DOMAIN Tail(plan), NEW f \in Uses(Tail(plan)[p])
             PROVE  /\ f \in T \/ \E q \in DOMAIN Tail(plan) : q < p /\ f \in Makes(Tail(plan)[q])
                    /\ \A q \in DOMAIN Tail(plan) : q < p => f \notin Removes(Tail(plan)[q])
  BY DEF Possible
<1>3. f \in Uses(plan[p + 1])
  BY <1>1
<1>4. \A q \in DOMAIN plan : q < p + 1 => f \notin Removes(plan[q])
  BY <1>1, <1>3 DEF Possible
<1>5. \A q \in DOMAIN Tail(plan) : q < p => f \notin Removes(Tail(plan)[q])
  BY <1>1, <1>4
<1>6. f \in S \/ \E q \in DOMAIN plan : q < p + 1 /\ f \in Makes(plan[q])
  BY <1>1, <1>3 DEF Possible
<1>7. f \notin Removes(Head(plan))
  BY <1>1, <1>2, <1>4
<1>8. ASSUME NEW q \in DOMAIN plan, q < p + 1, f \in Makes(plan[q])
      PROVE  f \in T \/ \E r \in DOMAIN Tail(plan) : r < p /\ f \in Makes(Tail(plan)[r])
  <2>1. CASE q = 1
    BY <1>2, <1>8, <2>1
  <2>2. CASE q # 1
    <3>1. q - 1 \in DOMAIN Tail(plan) /\ q - 1 < p /\ (q - 1) + 1 = q
      BY <1>1, <1>2, <1>8, <2>2
    <3>2. Tail(plan)[q - 1] = plan[q]
      BY <1>1, <3>1
    <3> QED BY <1>8, <3>1, <3>2
  <2> QED BY <2>1, <2>2
<1> QED BY <1>5, <1>6, <1>7, <1>8

LEMMA StepSourced == Types /\ Pids /\ Sourced /\ [Next]_vars => Sourced'
<1> SUFFICES ASSUME Types, Pids, Sourced, [Next]_vars PROVE Sourced'
  OBVIOUS
<1> USE DEF Sourced, children, source, delivery, config
<1>1. CASE Start \/ RmDir \/ EndOfSource \/ NextInput \/ ErrorStep \/ ToolForkFails
  <2>1. pc' \notin {"preprocess", "open", "scan", "waitPch", "work"}
        /\ (pc' = "waitPre" => pc = "scan" /\ UNCHANGED <<tmp, found, cfile, C, pch>>)
    BY <1>1 DEF Start, RmDir, EndOfSource, NextInput, ErrorStep, CloseFiles, ErrorPre, ErrorPch,
         ErrorUnlink, ToolForkFails, C
  <2> QED BY <2>1
<1>2. CASE StartPrecompiler
  <2>1. pc' = "preprocess" => pch'.st # "ok"
    BY <1>2 DEF StartPrecompiler
  <2> QED BY <1>2, <2>1 DEF StartPrecompiler
<1>3. CASE StartPreprocessor
  BY <1>3 DEF StartPreprocessor
<1>4. CASE OpenC
  BY <1>4 DEF OpenC, C
<1>5. CASE Scan
  BY <1>5 DEF Scan, C
<1>6. CASE WaitPre
  BY <1>6 DEF WaitPre, C
<1>7. CASE WaitPch
  <2>1. pc' = "work" => todo' = Plan /\ Pch \in tmp /\ (found \/ ~preproc => C \in tmp)
    BY <1>7 DEF WaitPch
  <2>2. pc' = "work" => Possible(Plan, tmp)
    BY <2>1, PlanPossible
  <2> QED BY <1>7, <2>1, <2>2 DEF WaitPch
<1>8. CASE DoUnlink \/ DoMap \/ DoFinish \/ DoTool
  <2>1. pc = "work" /\ todo # <<>> /\ todo \in Seq(Operation)
    BY <1>8 DEF DoUnlink, DoMap, DoFinish, DoTool, Doing, Types
  <2>2. pc' = "error" \/ (pc' = "work" /\ todo' = Tail(todo))
    BY <1>8 DEF DoUnlink, DoMap, DoFinish, DoTool, Done
  <2>3. ASSUME pc' = "work"
        PROVE  (tmp \ Removes(Head(todo))) \union Makes(Head(todo)) \subseteq tmp'
    BY <1>8, <2>3
      DEF DoUnlink, DoMap, DoFinish, DoTool, Doing, Done, Unlink, Tool, Removes, Makes
  <2>4. pc' = "work" => Possible(Tail(todo), tmp')
    BY <2>1, <2>3, TailPossible
  <2> QED BY <2>2, <2>4
<1>9. CASE Deliver
  <2>1. pc' \in {"combined", "move", "dropAll", "rmdir", "cat"}
    BY <1>9 DEF Deliver, Combine, UnlinkOuts, DropAll, MoveEach, CopyAll, CopyAllFails, Rename,
         CopyInstead, MoveFails, AllMoved, CatFile, CatFails, CloseCat, Moving
  <2> QED BY <2>1
<1>10. CASE PrecompilerOpens
  <2>1. pc \notin {"work"} /\ Pch \in tmp' /\ tmp \subseteq tmp' /\ UNCHANGED <<pc, C, found, cfile>>
    BY <1>10 DEF PrecompilerOpens, Pids, C
  <2> QED BY <2>1
<1>11. CASE PrecompilerEnds
  <2>1. UNCHANGED <<pc, C, found, cfile, tmp, todo>> /\ (pch'.st = "ok" => Pch \in tmp)
    BY <1>11 DEF PrecompilerEnds, Types, Precompilers, C
  <2> QED BY <2>1
<1>12. CASE PreprocessorWrites \/ PreprocessorEnds \/ PreprocessorFails \/ UNCHANGED vars
  <2>1. UNCHANGED <<pc, C, found, cfile, tmp, todo, pch>>
    BY <1>12 DEF PreprocessorWrites, PreprocessorEnds, PreprocessorFails, vars, C
  <2> QED BY <2>1
<1> QED
  BY <1>1, <1>2, <1>3, <1>4, <1>5, <1>6, <1>7, <1>8, <1>9, <1>10, <1>11, <1>12
    DEF Next, DccStep, Over

(* No step of a plan works on a file that is not there: the header and the *)
(* objects are unlinked behind the last tool that reads them, whatever is  *)
(* exported and in either mode (dcc_gen.c:314-403).                        *)
THEOREM PlansFindTheirFiles == Safety => []FilesAtHand
<1>1. Init => Sourced
  BY DEF Init, Sourced
<1>2. Types /\ Sourced => FilesAtHand
  <2> SUFFICES ASSUME Types, Sourced, pc = "work", todo # <<>>
               PROVE  Uses(Head(todo)) \subseteq tmp
    BY DEF FilesAtHand, Uses, Removes
  <2>1. 1 \in DOMAIN todo /\ Head(todo) = todo[1] /\ \A q \in DOMAIN todo : ~(q < 1)
    BY DEF Types
  <2> QED BY <2>1 DEF Sourced, Possible
<1> QED BY <1>1, <1>2, PidsInvariance, StepSourced, PTL DEF Safety

-----------------------------------------------------------------------------
LEMMA PlanScheduled ==
  ASSUME Types, tmp \subseteq Earlier \union {Pch, C}
  PROVE  /\ Scheduled(Plan, tmp)
         /\ \A q \in DOMAIN Plan : Makes(Plan[q]) \subseteq Temporary \union {Out(i)}
<1>0. /\ Obj \notin tmp
      /\ preproc => File("c", 0) \notin tmp
  BY Different DEF Earlier, C
<1> USE DEF Scheduled, Temporary
<1>1. CASE ~found /\ preproc
  <2>1. Plan = << UnlinkOp(Pch) >>
    BY <1>1 DEF Plan
  <2> QED BY <1>0, <1>1, <2>1, OpFields
<1>2. CASE ~found /\ ~preproc
  <2>1. Plan = << UnlinkOp(Pch), UnlinkOp(C), Op("tool", Out(i), {}) >> /\ C = File("c", 0)
    BY <1>2 DEF Plan, C
  <2> QED BY <1>0, <1>2, <2>1, OpFields, Different
<1>3. CASE found /\ preproc
  <2>1. Plan = << Op("map", Pch, {Pch}), UnlinkOp(Pch), Op("finish", C, {C}) >>
    BY <1>3 DEF Plan
  <2> QED BY <1>0, <1>3, <2>1, OpFields, Different
<1>4. CASE found /\ ~preproc
  <2> DEFINE s == << Op("map", Pch, {Pch}), Op("finish", C, {C}),
                     Op("tool", Obj, {C}), UnlinkOp(C),
                     Op("tool", Out(i), {Obj, Pch}), UnlinkOp(Obj), UnlinkOp(Pch),
                     Op("tool", Out(i), {Out(i)}) >>
  <2>1. Plan = s /\ C = File("c", 0)
    BY <1>4 DEF Plan, C
  <2>2. /\ DOMAIN s = 1 .. 8
        /\ Makes(s[1]) = {} /\ Makes(s[2]) = {} /\ Makes(s[3]) = {Obj} /\ Makes(s[4]) = {}
        /\ Makes(s[5]) = {Out(i)} /\ Makes(s[6]) = {} /\ Makes(s[7]) = {} /\ Makes(s[8]) = {Out(i)}
        /\ Removes(s[4]) = {C} /\ Removes(s[6]) = {Obj} /\ Removes(s[7]) = {Pch}
    BY OpFields
  <2> HIDE DEF s
  <2>3. \A q \in DOMAIN s : Makes(s[q]) \subseteq {Obj, Out(i)} /\ (Obj \in Makes(s[q]) => q = 3)
    BY <2>2, Different
  <2>4. Scheduled(s, tmp)
    BY <2>1, <2>2, <2>3, Different
  <2> QED BY <2>1, <2>3, <2>4
<1> QED BY <1>1, <1>2, <1>3, <1>4 DEF Types

LEMMA TailScheduled ==
  ASSUME NEW plan \in Seq(Operation), plan # <<>>, NEW S, NEW T, Scheduled(plan, S),
         T \subseteq (S \ Removes(Head(plan))) \union Makes(Head(plan))
  PROVE  Scheduled(Tail(plan), T)
<1>1. \A p \in DOMAIN plan : p > 1 =>
         p - 1 \in DOMAIN Tail(plan) /\ Tail(plan)[p - 1] = plan[p] /\ p \in Int
  OBVIOUS
<1>2. \A p \in DOMAIN Tail(plan) : p + 1 \in DOMAIN plan /\ p \in Nat /\ Tail(plan)[p] = plan[p + 1]
  OBVIOUS
<1>3. 1 \in DOMAIN plan /\ Head(plan) = plan[1] /\ \A p \in DOMAIN plan : p = 1 \/ p > 1
  OBVIOUS
<1> SUFFICES ASSUME NEW f \in Temporary
             PROVE  /\ f \in T => \E p \in DOMAIN Tail(plan) : f \in Removes(Tail(plan)[p])
                    /\ \A q \in DOMAIN Tail(plan) : f \in Makes(Tail(plan)[q]) =>
                         \E p \in DOMAIN Tail(plan) : q < p /\ f \in Removes(Tail(plan)[p])
  BY DEF Scheduled
<1>4. ASSUME f \in T PROVE \E p \in DOMAIN plan : p > 1 /\ f \in Removes(plan[p])
  <2>1. CASE f \in Makes(Head(plan))
    BY <1>3, <2>1 DEF Scheduled
  <2>2. CASE f \notin Makes(Head(plan))
    <3>1. f \in S /\ f \notin Removes(Head(plan))
      BY <1>4, <2>2
    <3> QED BY <1>3, <3>1 DEF Scheduled
  <2> QED BY <2>1, <2>2
<1>5. f \in T => \E p \in DOMAIN Tail(plan) : f \in Removes(Tail(plan)[p])
  BY <1>1, <1>4
<1>6. ASSUME NEW q \in DOMAIN Tail(plan), f \in Makes(Tail(plan)[q])
      PROVE  \E p \in DOMAIN Tail(plan) : q < p /\ f \in Removes(Tail(plan)[p])
  <2>1. q + 1 \in DOMAIN plan /\ f \in Makes(plan[q + 1]) /\ q \in Nat
    BY <1>2, <1>6
  <2>2. PICK p \in DOMAIN plan : q + 1 < p /\ f \in Removes(plan[p])
    BY <2>1 DEF Scheduled
  <2>3. p > 1 /\ q < p - 1
    BY <2>1, <2>2, <1>3
  <2> QED BY <1>1, <2>2, <2>3
<1> QED BY <1>5, <1>6

(* An unlink that meets no failure. *)
LEMMA UnlinkAll ==
  ASSUME NEW S, UnlinkAny(S) \/ \E ok \in BOOLEAN : Unlink(S, ok), stuck \in BOOLEAN, ~stuck'
  PROVE  tmp' = tmp \ S /\ ~stuck
  BY DEF UnlinkAny, Unlink

LEMMA StepTraced == Types /\ Pids /\ Traced /\ [Next]_vars => Traced'
<1> SUFFICES ASSUME Types, Pids, Traced, [Next]_vars, ~stuck' PROVE Traced'
  BY DEF Traced
<1>0. ~stuck
  <2>1. CASE DoUnlink \/ ErrorUnlink \/ UnlinkOuts \/ DropAll \/ CopyAllFails \/ MoveFails \/ CatFails
    BY <2>1, UnlinkAll
      DEF DoUnlink, ErrorUnlink, UnlinkOuts, DropAll, CopyAllFails, MoveFails, CatFails, Types
  <2>2. CASE Start \/ RmDir \/ StartPrecompiler \/ StartPreprocessor \/ OpenC \/ Scan \/ EndOfSource
             \/ WaitPre \/ WaitPch \/ NextInput \/ CloseFiles \/ ErrorPre \/ ErrorPch
    BY <2>2 DEF Start, RmDir, StartPrecompiler, StartPreprocessor, OpenC, Scan, EndOfSource,
         WaitPre, WaitPch, NextInput, CloseFiles, ErrorPre, ErrorPch
  <2>3. CASE DoMap \/ DoFinish \/ DoTool \/ ToolForkFails \/ Combine \/ MoveEach \/ CopyAll \/ Rename
             \/ CopyInstead \/ AllMoved \/ CatFile \/ CloseCat
    BY <2>3 DEF DoMap, DoFinish, DoTool, ToolForkFails, Combine, MoveEach, CopyAll, Rename,
         CopyInstead, AllMoved, CatFile, CloseCat
  <2>4. CASE ChildStep \/ UNCHANGED vars
    BY <2>4 DEF ChildStep, PrecompilerOpens, PrecompilerEnds, PreprocessorWrites, PreprocessorEnds,
         PreprocessorFails, vars
  <2> QED
    BY <2>1, <2>2, <2>3, <2>4 DEF Next, DccStep, ErrorStep, Deliver, ChildStep, Over
<1> USE <1>0 DEF children, source, delivery, config
<1>1. CASE Start \/ RmDir
  <2>1. tmp' \subseteq Known' /\ pc' \notin {"work", "deliver"} /\ (pc' = "done" => dir' # "there")
    BY <1>1 DEF Start, RmDir, Traced, Known
  <2> QED BY <2>1 DEF Traced
<1>2. CASE StartPrecompiler \/ StartPreprocessor
  <2>1. tmp' \subseteq Known' /\ pc' \notin {"work", "deliver", "done"}
    BY <1>2 DEF StartPrecompiler, StartPreprocessor, Traced, Known, Earlier, Temporary
  <2> QED BY <2>1 DEF Traced
<1>3. CASE OpenC
  <2>1. tmp' \subseteq Known' /\ pc' \notin {"work", "deliver", "done"}
    BY <1>3 DEF OpenC, Traced, Known, Earlier, C
  <2> QED BY <2>1 DEF Traced
<1>4. CASE Scan \/ EndOfSource \/ WaitPre
  <2>1. tmp' \subseteq Known' /\ pc' \notin {"work", "deliver", "done"}
    BY <1>4 DEF Scan, EndOfSource, WaitPre, Traced, Known, Earlier, C, Temporary
  <2> QED BY <2>1 DEF Traced
<1>5. CASE WaitPch
  <2>1. tmp \subseteq Earlier \union {Pch, C}
    BY <1>5 DEF WaitPch, Traced, Known
  <2>2. pc' \in {"work", "error", "crashed"} /\ UNCHANGED <<tmp, i, Earlier>>
    BY <1>5 DEF WaitPch, Earlier
  <2>3. tmp' \subseteq Known'
    BY <2>1, <2>2 DEF Known, C, Temporary
  <2>4. pc' = "work" => todo' = Plan
    BY <1>5 DEF WaitPch
  <2> QED BY <2>1, <2>2, <2>3, <2>4, PlanScheduled DEF Traced
<1>6. CASE DoUnlink \/ DoMap \/ DoFinish \/ DoTool
  <2>1. pc = "work" /\ todo # <<>> /\ todo \in Seq(Operation) /\ UNCHANGED <<i, Earlier>>
    BY <1>6 DEF DoUnlink, DoMap, DoFinish, DoTool, Doing, Types, Earlier
  <2>2. pc' = "error" \/ (pc' = "work" /\ todo' = Tail(todo))
    BY <1>6 DEF DoUnlink, DoMap, DoFinish, DoTool, Done
  <2>3. Makes(Head(todo)) \subseteq Temporary \union {Out(i)}
        /\ \A q \in DOMAIN Tail(todo) : Makes(Tail(todo)[q]) \subseteq Temporary \union {Out(i)}
    <3>1. 1 \in DOMAIN todo /\ Head(todo) = todo[1]
          /\ \A q \in DOMAIN Tail(todo) : q + 1 \in DOMAIN todo /\ Tail(todo)[q] = todo[q + 1]
      BY <2>1
    <3> QED BY <2>1, <3>1 DEF Traced
  <2>4. tmp' \subseteq tmp \union Makes(Head(todo))
    BY <1>6 DEF DoUnlink, DoMap, DoFinish, DoTool, Doing, Unlink, Tool, Makes
  <2>5. tmp' \subseteq Known'
    BY <2>1, <2>2, <2>3, <2>4 DEF Traced, Known
  <2>6. pc' = "work" => tmp' \subseteq (tmp \ Removes(Head(todo))) \union Makes(Head(todo))
    <3>1. CASE DoUnlink
      BY <3>1, UnlinkAll DEF DoUnlink, Doing, Removes, Types
    <3>2. CASE DoMap \/ DoFinish \/ DoTool
      BY <2>4, <3>2 DEF DoMap, DoFinish, DoTool, Doing, Removes
    <3> QED BY <1>6, <3>1, <3>2
  <2>7. pc' = "work" => Scheduled(Tail(todo), tmp')
    BY <2>1, <2>6, TailScheduled DEF Traced
  <2> QED BY <2>1, <2>2, <2>3, <2>5, <2>7 DEF Traced
<1>7. CASE ToolForkFails
  BY <1>7 DEF ToolForkFails, Traced, Known
<1>8. CASE NextInput
  <2>1. tmp \subseteq Earlier \union {Out(i)}
    BY <1>8 DEF NextInput, Traced, Known, Scheduled
  <2>2. CASE i < N
    <3>1. Earlier' = Earlier \union {Out(i)}
      BY <1>8, <2>2 DEF NextInput, Earlier, Types
    <3> QED BY <1>8, <2>1, <2>2, <3>1 DEF NextInput, Traced, Known
  <2>3. CASE i = N
    <3>1. Earlier \union {Out(i)} \subseteq Outs
      BY <2>3, Constants DEF Earlier, Outs
    <3>2. pc' = "deliver" /\ i' = N /\ tmp' = tmp
      BY <1>8, <2>3, Constants DEF NextInput
    <3> QED BY <2>1, <3>1, <3>2 DEF Traced, Known
  <2> QED BY <2>2, <2>3, Constants DEF Types
<1>9. CASE CloseFiles \/ ErrorPre \/ ErrorPch
  <2>1. tmp' \subseteq Known' /\ pc' \notin {"work", "deliver", "done"}
    BY <1>9 DEF CloseFiles, ErrorPre, ErrorPch, Traced, Known, Earlier
  <2> QED BY <2>1 DEF Traced
<1>10. CASE ErrorUnlink
  <2>1. tmp' = tmp \ ({Pch, File("c", 0), Obj, Out(i)} \union Earlier)
    BY <1>10, UnlinkAll DEF ErrorUnlink, Types, Earlier
  <2> QED BY <1>10, <2>1 DEF ErrorUnlink, Traced, Known, Temporary
<1>11. CASE Combine \/ UnlinkOuts \/ DropAll
  <2>1. CASE Combine
    BY <2>1 DEF Combine, Tool, Traced, Known, Outs
  <2>2. CASE UnlinkOuts
    <3>1. tmp' = tmp \ Outs
      BY <2>2, UnlinkAll DEF UnlinkOuts, Types
    <3>2. tmp' \subseteq {All}
      BY <2>2, <3>1 DEF UnlinkOuts, Traced, Known
    <3>3. pc' = "move" => {todo'[k].file : k \in DOMAIN todo'} = {All}
      BY <2>2 DEF UnlinkOuts, Move
    <3>4. pc' \in {"move", "dropAll"}
      BY <2>2 DEF UnlinkOuts
    <3> QED BY <3>2, <3>3, <3>4 DEF Traced, Known
  <2>3. CASE DropAll
    BY <2>3, UnlinkAll DEF DropAll, Traced, Known, Types
  <2> QED BY <1>11, <2>1, <2>2, <2>3
<1>12. CASE MoveEach
  <2>1. {todo'[k].file : k \in DOMAIN todo'} = Outs
    BY <1>12 DEF MoveEach, Move, Outs
  <2> QED BY <1>12, <2>1 DEF MoveEach, Traced, Known
<1>13. CASE CopyAll \/ CopyAllFails
  <2>1. CASE CopyAll
    <3>1. {cat'.files[k] : k \in DOMAIN cat'.files} = Outs
      BY <2>1 DEF CopyAll, Outs
    <3> QED BY <2>1, <3>1 DEF CopyAll, Traced, Known
  <2>2. CASE CopyAllFails
    BY <2>2, UnlinkAll DEF CopyAllFails, Traced, Known, Types
  <2> QED BY <1>13, <2>1, <2>2
<1>14. CASE Rename \/ CopyInstead \/ MoveFails
  <2>1. pc = "move" /\ todo # <<>> /\ todo' = Tail(todo) /\ todo \in Seq(Delivery)
    BY <1>14 DEF Rename, CopyInstead, MoveFails, Moving, Types
  <2>2. {todo[k].file : k \in DOMAIN todo}
          \subseteq {Head(todo).file} \union {todo'[k].file : k \in DOMAIN todo'}
    <3>1. \A k \in DOMAIN todo : k = 1 \/ (k - 1 \in DOMAIN Tail(todo) /\ Tail(todo)[k - 1] = todo[k])
      BY <2>1
    <3>2. Head(todo) = todo[1]
      BY <2>1
    <3>3. ASSUME NEW k \in DOMAIN todo
          PROVE  todo[k].file = Head(todo).file \/ \E q \in DOMAIN todo' : todo[k].file = todo'[q].file
      BY <2>1, <3>1, <3>2, <3>3, Zenon
    <3> QED BY <3>3, Zenon
  <2>3. tmp \subseteq {Head(todo).file} \union {todo'[k].file : k \in DOMAIN todo'}
    BY <2>1, <2>2 DEF Traced, Known
  <2>4. CASE Rename
    BY <2>1, <2>3, <2>4 DEF Rename, Traced, Known
  <2>5. CASE CopyInstead
    <3>1. {cat'.files[k] : k \in DOMAIN cat'.files} = {Head(todo).file}
      BY <2>5 DEF CopyInstead
    <3> QED BY <2>3, <2>5, <3>1 DEF CopyInstead, Traced, Known
  <2>6. CASE MoveFails
    <3>1. tmp' = tmp \ {Head(todo).file}
      BY <2>6, UnlinkAll DEF MoveFails, Types
    <3> QED BY <2>1, <2>3, <2>6, <3>1 DEF MoveFails, Traced, Known
  <2> QED BY <1>14, <2>4, <2>5, <2>6
<1>15. CASE AllMoved
  BY <1>15 DEF AllMoved, Traced, Known
<1>16. CASE CatFile
  <2>1. cat.files \in Seq(FileName) /\ cat.files # <<>> /\ cat'.files = Tail(cat.files)
        /\ UNCHANGED todo /\ pc = "cat" /\ pc' = "cat" /\ tmp' = tmp \ {Head(cat.files)}
    BY <1>16, CatType DEF CatFile, Types, Copies
  <2>2. \A k \in DOMAIN cat.files : cat.files[k] = Head(cat.files)
          \/ (k - 1 \in DOMAIN Tail(cat.files) /\ Tail(cat.files)[k - 1] = cat.files[k])
    BY <2>1
  <2>3. {cat.files[k] : k \in DOMAIN cat.files}
          \subseteq {Head(cat.files)} \union {cat'.files[k] : k \in DOMAIN cat'.files}
    BY <2>1, <2>2
  <2> QED BY <2>1, <2>3 DEF Traced, Known
<1>17. CASE CatFails
  <2>1. tmp' = tmp \ {cat.files[k] : k \in DOMAIN cat.files}
    BY <1>17, UnlinkAll DEF CatFails, Types
  <2> QED BY <1>17, <2>1 DEF CatFails, Traced, Known
<1>18. CASE CloseCat
  BY <1>18 DEF CloseCat, Traced, Known
<1>19. CASE PrecompilerOpens
  <2>1. pc \in {"preprocess", "open", "scan", "waitPre", "waitPch",
                "error", "errorPre", "errorPch", "crashed"}
    BY <1>19 DEF PrecompilerOpens, Pids
  <2> QED BY <1>19, <2>1 DEF PrecompilerOpens, Traced, Known, Earlier, C, Temporary
<1>20. CASE PrecompilerEnds \/ PreprocessorWrites \/ PreprocessorEnds \/ PreprocessorFails
            \/ UNCHANGED vars
  <2>1. UNCHANGED <<preproc, pc, i, tmp, todo, cat, dir, stuck>>
    BY <1>20 DEF PrecompilerEnds, PreprocessorWrites, PreprocessorEnds, PreprocessorFails, vars
  <2>2. UNCHANGED <<Known, Earlier>>
    BY <2>1 DEF Known, Earlier, C
  <2> QED BY <2>1, <2>2 DEF Traced
<1> QED
  BY <1>1, <1>2, <1>3, <1>4, <1>5, <1>6, <1>7, <1>8, <1>9, <1>10, <1>11, <1>12, <1>13, <1>14, <1>15,
     <1>16, <1>17, <1>18, <1>19, <1>20
    DEF Next, DccStep, ErrorStep, Deliver, Over

(* Whatever fails, and for whichever input, a dcc that ends by itself      *)
(* leaves no temporary directory behind, unless an unlink fails too (where *)
(* it crashes, the directory stays): every file that may be in it is on a  *)
(* list that some later step unlinks or moves (dcc.c:260-264 with every    *)
(* error path of dcc_gen.c).                                               *)
THEOREM CleansUp == Safety => []NoLeftovers
<1>1. Init => Traced
  BY DEF Init, Traced
<1>2. Traced => NoLeftovers
  BY Zenon DEF Traced, NoLeftovers
<1> QED BY <1>1, <1>2, PidsInvariance, StepTraced, PTL DEF Safety

-----------------------------------------------------------------------------
LEMMA RestOfSeq ==
  ASSUME NEW S, NEW s \in Seq(S), NEW n \in 0 .. Len(s)
  PROVE  LET rest(m) == SubSeq(s, m + 1, Len(s)) IN
         /\ rest(0) = s
         /\ rest(n) = <<>> => n = Len(s)
         /\ rest(n) # <<>> =>
              /\ n + 1 \in 1 .. Len(s)
              /\ Head(rest(n)) = s[n + 1] /\ Tail(rest(n)) = rest(n + 1)
<1>1. SubSeq(s, 0 + 1, Len(s)) = s
  OBVIOUS
<1>2. SubSeq(s, n + 1, Len(s)) = <<>> => n = Len(s)
  OBVIOUS
<1>3. ASSUME SubSeq(s, n + 1, Len(s)) # <<>>
      PROVE  /\ n + 1 \in 1 .. Len(s)
             /\ Head(SubSeq(s, n + 1, Len(s))) = s[n + 1]
             /\ Tail(SubSeq(s, n + 1, Len(s))) = SubSeq(s, n + 1 + 1, Len(s))
  <2>1. n < Len(s)
    BY <1>3
  <2> QED BY <2>1
<1> QED BY <1>1, <1>2, <1>3, Zenon

LEMMA MovesShape ==
  ASSUME Types
  PROVE  /\ Moves \in Seq(Delivery)
         /\ Len(Moves) = IF output THEN 1 ELSE N
         /\ \A k \in 1 .. Len(Moves) : Moves[k].to \in Dests /\ Moves[k].file \in FileName
<1>1. << Move(All, OutFile) >> \in Seq(Delivery)
  BY FileNames, Constants DEF Move, Delivery
<1>2. \A k \in 1 .. N : Move(Out(k), NameOf[k]) \in Delivery
  BY FileNames, Constants DEF Move, Delivery
<1>3. [k \in 1 .. N |-> Move(Out(k), NameOf[k])] \in Seq(Delivery)
      /\ Len([k \in 1 .. N |-> Move(Out(k), NameOf[k])]) = N
  BY <1>2, Constants
<1>4. Moves \in Seq(Delivery) /\ Len(Moves) = IF output THEN 1 ELSE N
  BY <1>1, <1>3 DEF Moves, Types
<1>5. \A k \in 1 .. Len(Moves) : Moves[k] \in Delivery
  BY <1>4
<1> QED BY <1>4, <1>5 DEF Delivery

LEMMA MovesApart ==
  ASSUME Types, output \/ NamesDiffer, NEW j \in 1 .. Len(Moves), NEW k \in 1 .. Len(Moves),
         Moves[j].to = Moves[k].to
  PROVE  j = k
<1>1. CASE output
  <2>1. Len(Moves) = 1
    BY <1>1, MovesShape
  <2> QED BY <2>1
<1>2. CASE ~output
  <2>1. j \in 1 .. N /\ k \in 1 .. N
    BY <1>2, MovesShape
  <2>2. Moves[j].to = NameOf[j] /\ Moves[k].to = NameOf[k]
    BY <1>2, <2>1 DEF Moves, Move
  <2> QED BY <1>2, <2>1, <2>2 DEF NamesDiffer
<1> QED BY <1>1, <1>2

LEMMA HoldingCode ==
  ASSUME NEW code \in Seq(Nat), NEW old \in Seq(Nat)
  PROVE  Holding(old).code = old /\ [Holding(old) EXCEPT !.code = code] = Holding(code)
<1>1. Holding(old).code = old
  BY DEF Holding
<1>2. [Holding(old) EXCEPT !.code = code] = Holding(code)
  BY DEF Holding
<1> QED BY <1>1, <1>2

(* What an assignment to one destination does to this one and the others. *)
LEMMA DestUpdate ==
  ASSUME Types, NEW d \in Dests, NEW code \in Seq(Nat)
  PROVE  /\ [dest EXCEPT ![d] = Holding(code)][d] = Holding(code)
         /\ \A e \in Dests : e # d => /\ [dest EXCEPT ![d] = Holding(code)][e] = dest[e]
                                      /\ [dest EXCEPT ![d].code = code][e] = dest[e]
         /\ \A old \in Seq(Nat) : dest[d] = Holding(old) => [dest EXCEPT ![d].code = code][d] = Holding(code)
<1>1. DOMAIN dest = Dests
  BY DEF Types
<1>2. [dest EXCEPT ![d].code = code][d] = [dest[d] EXCEPT !.code = code]
  BY <1>1
<1>3. \A old \in Seq(Nat) : [Holding(old) EXCEPT !.code = code] = Holding(code)
  BY HoldingCode
<1> QED BY <1>1, <1>2, <1>3


(* One file leaves the list of those to move. *)
LEMMA MoveStep ==
  ASSUME Types, Arrived, Rename \/ CopyInstead \/ AllMoved,
         output \/ preproc \/ NamesDiffer, status = 0
  PROVE  Arrived'
<1> USE DEF config, children, source, delivery
<1>1. pc = "move" /\ UNCHANGED <<preproc, output, Moves, status>>
  BY DEF Rename, CopyInstead, AllMoved, Moving, Moves
<1>2. CASE AllMoved
  <2>1. todo = <<>> /\ UNCHANGED <<dest, todo, Target>> /\ pc' = "rmdir"
    BY <1>2 DEF AllMoved, Target
  <2>2. CASE preproc
    BY <1>1, <2>1, <2>2 DEF Arrived
  <2>3. CASE ~preproc
    <3>1. PICK n \in 0 .. Len(Moves) : todo = Left(n) /\ Delivered(n)
      BY <1>1, <2>3 DEF Arrived
    <3>2. n = Len(Moves)
      BY <2>1, <3>1, MovesShape, RestOfSeq DEF Left
    <3>3. Delivered(Len(Moves))'
      BY <1>1, <2>1, <3>1, <3>2 DEF Delivered
    <3> QED BY <1>1, <2>1, <2>3, <3>3 DEF Arrived
  <2> QED BY <2>2, <2>3 DEF Types
<1>3. CASE Rename \/ CopyInstead
  <2>1. todo # <<>> /\ todo' = Tail(todo) /\ ~preproc
    BY <1>1, <1>3 DEF Rename, CopyInstead, Moving, Arrived, Types
  <2>2. PICK n \in 0 .. Len(Moves) : todo = Left(n) /\ Delivered(n)
    BY <1>1, <2>1 DEF Arrived
  <2>3. /\ n + 1 \in 1 .. Len(Moves) /\ Head(todo) = Moves[n + 1] /\ Tail(todo) = Left(n + 1)
        /\ Moves[n + 1].to \in Dests /\ Moves[n + 1].file \in FileName
    BY <2>1, <2>2, MovesShape, RestOfSeq DEF Left
  <2>4. todo' = Left(n + 1)'
    BY <1>1, <2>1, <2>3 DEF Left
  <2>5. \A k \in 1 .. n : k \in 1 .. Len(Moves) /\ Moves[k].to \in Dests
                          /\ Moves[k].to # Moves[n + 1].to
    BY <2>1, <2>3, MovesShape, MovesApart
  <2>6. CASE Rename
    <3>1. dest' = [dest EXCEPT ![Moves[n + 1].to] = Holding(Code(Moves[n + 1].file))] /\ pc' = "move"
      BY <1>1, <2>3, <2>6 DEF Rename
    <3>2. Code(Moves[n + 1].file) \in Seq(Nat)
      BY <2>3, CodeType
    <3>3. dest'[Moves[n + 1].to] = Holding(Code(Moves[n + 1].file))
          /\ \A k \in 1 .. n : dest'[Moves[k].to] = dest[Moves[k].to]
      BY <2>3, <2>5, <3>1, <3>2, DestUpdate
    <3>4. \A k \in 1 .. n + 1 : k \in 1 .. n \/ k = n + 1
      OBVIOUS
    <3>5. Delivered(n + 1)'
      BY <1>1, <2>2, <3>3, <3>4 DEF Delivered
    <3> QED BY <1>1, <2>1, <2>3, <2>4, <3>1, <3>5 DEF Arrived
  <2>7. CASE CopyInstead
    <3>1. /\ dest' = [dest EXCEPT ![Moves[n + 1].to] = Holding(<<>>)] /\ pc' = "cat"
          /\ cat' = [files |-> << Moves[n + 1].file >>, to |-> Moves[n + 1].to]
      BY <2>3, <2>7 DEF CopyInstead
    <3>2. dest'[Moves[n + 1].to] = Holding(<<>>)
          /\ \A k \in 1 .. n : dest'[Moves[k].to] = dest[Moves[k].to]
      <4>1. <<>> \in Seq(Nat)
        OBVIOUS
      <4> QED BY <2>3, <2>5, <3>1, <4>1, DestUpdate, ZenonT(40)
    <3>3. Delivered(n)'
      BY <1>1, <2>2, <3>2 DEF Delivered
    <3>4. (n + 1) - 1 = n
      OBVIOUS
    <3>5. Delivered((n + 1) - 1)'
      BY <3>3, <3>4
    <3>6. cat'.to = Moves[n + 1].to /\ cat'.files = << Moves[n + 1].file >>
      BY <3>1
    <3>7. \E m \in 1 .. Len(Moves') :
            /\ todo' = Left(m)' /\ Delivered(m - 1)'
            /\ cat'.to = Moves'[m].to
            /\ cat'.files = << Moves'[m].file >> /\ dest'[cat'.to] = Holding(<<>>)
      BY <1>1, <2>3, <2>4, <3>2, <3>5, <3>6
    <3> QED BY <1>1, <2>1, <3>1, <3>7 DEF Arrived
  <2> QED BY <1>3, <2>6, <2>7
<1> QED BY <1>2, <1>3
(* With -E, one more file is copied. *)
LEMMA CopiedStep ==
  ASSUME Types, CatFile, NEW n \in 0 .. N, Copied(n), UNCHANGED output
  PROVE  n + 1 \in 0 .. N /\ Copied(n + 1)'
<1> DEFINE code == [k \in 1 .. n |-> k]
<1>1. /\ cat.to \in Dests /\ dest[cat.to] = Holding(code) /\ code \in Seq(Nat)
      /\ cat.files = [k \in 1 .. N - n |-> Out(n + k)]
      /\ cat.files # <<>> /\ cat.files \in Seq(FileName)
  <2>1. code \in Seq(Nat)
    OBVIOUS
  <2> QED BY <2>1, CatType DEF CatFile, Copied
<1>2. n < N
  BY <1>1, Constants
<1>3. Head(cat.files) = Out(n + 1)
  BY <1>1, <1>2, Constants
<1>4. Code(Out(n + 1)) = << n + 1 >>
  BY Different DEF Code, Out, File
<1>5. code \o << n + 1 >> = [k \in 1 .. n + 1 |-> k]
  BY <1>1
<1>6. [k \in 1 .. n + 1 |-> k] \in Seq(Nat)
  BY <1>2
<1>7. dest' = [dest EXCEPT ![cat.to].code = [k \in 1 .. n + 1 |-> k]]
  <2>1. dest' = [dest EXCEPT ![cat.to].code = dest[cat.to].code \o Code(Head(cat.files))]
    BY DEF CatFile
  <2>2. dest[cat.to].code = code
    BY <1>1, HoldingCode
  <2> HIDE DEF code
  <2> QED BY <1>3, <1>4, <1>5, <2>1, <2>2
<1>8. cat'.to = cat.to /\ cat'.files = Tail(cat.files)
  BY DEF CatFile, Types, Copies
<1>9. Tail(cat.files) = [k \in 1 .. N - (n + 1) |-> Out(n + 1 + k)]
  <2>1. Tail(cat.files) \in Seq(FileName) /\ Len(Tail(cat.files)) = N - (n + 1)
    BY <1>1, <1>2, Constants
  <2>2. \A k \in 1 .. N - (n + 1) : Tail(cat.files)[k] = Out(n + 1 + k)
    <3> TAKE k \in 1 .. N - (n + 1)
    <3>1. Tail(cat.files)[k] = cat.files[k + 1] /\ k + 1 \in 1 .. N - n
      BY <1>1, <2>1, Constants
    <3>2. n + (k + 1) = n + 1 + k
      OBVIOUS
    <3> QED BY <1>1, <3>1, <3>2
  <2>3. Tail(cat.files) = [k \in 1 .. Len(Tail(cat.files)) |-> Tail(cat.files)[k]]
    BY <2>1, SMTT(30)
  <2> QED BY <2>1, <2>2, <2>3
<1>10. dest'[cat.to] = Holding([k \in 1 .. n + 1 |-> k])
  <2> HIDE DEF code
  <2> QED BY <1>1, <1>6, <1>7, DestUpdate
<1> QED BY <1>1, <1>2, <1>8, <1>9, <1>10, Constants DEF Copied

LEMMA CatStep ==
  ASSUME Types, Arrived, CatFile \/ CloseCat,
         output \/ preproc \/ NamesDiffer, status = 0, status' = 0
  PROVE  Arrived'
<1> USE DEF config, children, source, delivery
<1>1. pc = "cat" /\ UNCHANGED <<preproc, output, Moves, todo, Target>>
  BY DEF CatFile, CloseCat, Moves, Target
<1>2. CASE preproc
  <2>1. todo = <<>>
    BY <1>1, <1>2 DEF Arrived
  <2>2. PICK n \in 0 .. N : Copied(n)
    BY <1>1, <1>2 DEF Arrived
  <2>3. CASE CatFile
    <3>1. n + 1 \in 0 .. N /\ Copied(n + 1)'
      BY <1>1, <2>2, <2>3, CopiedStep
    <3>2. pc' = "cat"
      BY <1>1, <2>3 DEF CatFile
    <3> QED BY <1>1, <1>2, <2>1, <3>1, <3>2 DEF Arrived
  <2>4. CASE CloseCat
    <3>1. n = N
      BY <2>2, <2>4, Constants DEF CloseCat, Copied
    <3>2. dest' = dest /\ pc' = "move"
      BY <2>4 DEF CloseCat
    <3>3. dest[Target] = Everything
      BY <2>2, <3>1 DEF Copied, Everything, Target
    <3>4. dest'[Target'] = Everything
      BY <1>1, <3>2, <3>3
    <3> QED BY <1>1, <1>2, <2>1, <3>2, <3>4 DEF Arrived
  <2> QED BY <2>3, <2>4
<1>3. CASE ~preproc
  <2>1. PICK n \in 1 .. Len(Moves) :
          /\ todo = Left(n) /\ Delivered(n - 1)
          /\ cat.to = Moves[n].to
          /\ \/ cat.files = << Moves[n].file >> /\ dest[cat.to] = Holding(<<>>)
             \/ cat.files = <<>> /\ dest[cat.to] = Holding(Code(Moves[n].file))
    BY <1>1, <1>3 DEF Arrived
  <2>2. Moves[n].to \in Dests /\ Moves[n].file \in FileName /\ Len(Moves) \in Nat
    BY MovesShape, Constants
  <2>3. todo' = Left(n)'
    BY <1>1, <2>1 DEF Left
  <2>4. Code(Moves[n].file) \in Seq(Nat)
    BY <2>2, CodeType
  <2>5. CASE CatFile
    <3>1. cat.files = << Moves[n].file >> /\ dest[cat.to] = Holding(<<>>)
      BY <2>1, <2>5 DEF CatFile
    <3>2. cat'.to = cat.to /\ cat'.files = Tail(cat.files) /\ pc' = "cat"
      BY <2>5 DEF CatFile, Types, Copies
    <3>3. Tail(cat.files) = <<>> /\ Head(cat.files) = Moves[n].file
      BY <3>1
    <3>4. dest' = [dest EXCEPT ![cat.to].code = Code(Moves[n].file)]
      <4>1. dest' = [dest EXCEPT ![cat.to].code = dest[cat.to].code \o Code(Head(cat.files))]
        BY <2>5 DEF CatFile
      <4>2. <<>> \in Seq(Nat) /\ <<>> \o Code(Moves[n].file) = Code(Moves[n].file)
        BY <2>4
      <4>3. dest[cat.to].code = <<>>
        BY <3>1, <4>2, HoldingCode
      <4> QED BY <3>3, <4>1, <4>2, <4>3
    <3>5. dest'[Moves[n].to] = Holding(Code(Moves[n].file))
      <4>1. <<>> \in Seq(Nat)
        OBVIOUS
      <4>2. dest[Moves[n].to] = Holding(<<>>) /\ cat.to = Moves[n].to
        BY <2>1, <3>1
      <4>3. \A old \in Seq(Nat) : dest[Moves[n].to] = Holding(old) =>
              [dest EXCEPT ![Moves[n].to].code = Code(Moves[n].file)][Moves[n].to]
                = Holding(Code(Moves[n].file))
        BY <2>2, <2>4, DestUpdate
      <4> QED BY <3>4, <4>1, <4>2, <4>3
    <3>6. \A k \in 1 .. n - 1 : dest'[Moves[k].to] = dest[Moves[k].to]
      <4>0. \A e \in Dests : e # Moves[n].to => dest'[e] = dest[e]
        BY <2>1, <2>2, <2>4, <3>4, DestUpdate
      <4> TAKE k \in 1 .. n - 1
      <4>1. k \in 1 .. Len(Moves) /\ k # n
        BY <2>2
      <4>2. Moves[k].to \in Dests /\ Moves[k].to # Moves[n].to
        BY <1>3, <4>1, MovesShape, MovesApart
      <4> QED BY <2>1, <2>2, <2>4, <3>4, <4>2, DestUpdate
    <3>7. Delivered(n - 1)'
      BY <1>1, <2>1, <3>6 DEF Delivered
    <3>8. \E m \in 1 .. Len(Moves') :
            /\ todo' = Left(m)' /\ Delivered(m - 1)'
            /\ cat'.to = Moves'[m].to
            /\ cat'.files = <<>> /\ dest'[cat'.to] = Holding(Code(Moves'[m].file))
      BY <1>1, <2>1, <2>3, <3>2, <3>3, <3>5, <3>7
    <3> QED BY <1>1, <1>3, <3>2, <3>8 DEF Arrived
  <2>6. CASE CloseCat
    <3>1. cat.files = <<>> /\ dest[Moves[n].to] = Holding(Code(Moves[n].file)) /\ UNCHANGED dest
          /\ pc' = "move"
      BY <2>1, <2>6 DEF CloseCat
    <3>2. \A k \in 1 .. n : k \in 1 .. n - 1 \/ k = n
      BY <2>2
    <3>3. Delivered(n)'
      BY <1>1, <2>1, <3>1, <3>2 DEF Delivered
    <3>4. n \in 0 .. Len(Moves')
      BY <1>1, <2>2
    <3> QED BY <1>1, <1>3, <2>3, <3>1, <3>3, <3>4 DEF Arrived
  <2> QED BY <2>5, <2>6
<1> QED BY <1>2, <1>3 DEF Types

(* The lists are made. *)
LEMMA ListsMade ==
  ASSUME Types, UnlinkOuts \/ MoveEach \/ CopyAll, pc = "combined" => output /\ ~preproc, status' = 0
  PROVE  Arrived'
<1> USE DEF config, children, source, delivery
<1>1. UNCHANGED <<preproc, output, Moves, Target>> /\ Moves \in Seq(Delivery) /\ Len(Moves) \in Nat
  BY MovesShape, Constants DEF UnlinkOuts, MoveEach, CopyAll, Moves, Target
<1>2. CASE UnlinkOuts \/ MoveEach
  <2>1. pc' = "move" /\ ~preproc /\ todo' = Moves
    BY <1>2 DEF UnlinkOuts, MoveEach, Moves
  <2>2. todo' = Left(0)'
    BY <1>1, <2>1, RestOfSeq DEF Left
  <2>3. Delivered(0)' /\ 0 \in 0 .. Len(Moves')
    BY <1>1 DEF Delivered
  <2> QED BY <1>1, <2>1, <2>2, <2>3 DEF Arrived
<1>3. CASE CopyAll
  <2>1. /\ pc' = "cat" /\ preproc /\ todo' = <<>>
        /\ cat' = [files |-> [k \in 1 .. N |-> Out(k)], to |-> Target]
        /\ dest' = [dest EXCEPT ![Target] = Holding(<<>>)]
    BY <1>3 DEF CopyAll, Types, Target
  <2>2. dest'[Target] = Holding(<<>>)
    <3>1. Target \in Dests /\ <<>> \in Seq(Nat)
      BY Constants DEF Target
    <3> QED BY <2>1, <3>1, DestUpdate
  <2>3. [k \in 1 .. 0 |-> k] = <<>>
    OBVIOUS
  <2>4. [k \in 1 .. N |-> Out(k)] = [k \in 1 .. N - 0 |-> Out(0 + k)]
    BY Constants
  <2>5. Copied(0)' /\ 0 \in 0 .. N
    BY <1>1, <2>1, <2>2, <2>3, <2>4, Constants DEF Copied, Target
  <2> QED BY <1>1, <2>1, <2>5 DEF Arrived
<1> QED BY <1>2, <1>3

LEMMA StepArrived == Types /\ Arrived /\ [Next]_vars => Arrived'
<1> SUFFICES ASSUME Types, Arrived, [Next]_vars, output' \/ preproc' \/ NamesDiffer', status' = 0
             PROVE  Arrived'
  BY DEF Arrived
<1> USE DEF config, children, source, delivery
<1>1. UNCHANGED <<preproc, output>>
  <2>1. CASE Start \/ RmDir \/ StartPrecompiler \/ StartPreprocessor \/ OpenC \/ Scan \/ EndOfSource
             \/ WaitPre \/ WaitPch \/ NextInput \/ CloseFiles \/ ErrorPre \/ ErrorPch \/ ErrorUnlink
    BY <2>1 DEF Start, RmDir, StartPrecompiler, StartPreprocessor, OpenC, Scan, EndOfSource,
         WaitPre, WaitPch, NextInput, CloseFiles, ErrorPre, ErrorPch, ErrorUnlink
  <2>2. CASE DoUnlink \/ DoMap \/ DoFinish \/ DoTool \/ ToolForkFails
    BY <2>2 DEF DoUnlink, DoMap, DoFinish, DoTool, ToolForkFails
  <2>3. CASE Deliver
    BY <2>3 DEF Deliver, Combine, UnlinkOuts, DropAll, MoveEach, CopyAll, CopyAllFails, Rename,
         CopyInstead, MoveFails, AllMoved, CatFile, CatFails, CloseCat
  <2>4. CASE ChildStep \/ UNCHANGED vars
    BY <2>4 DEF ChildStep, PrecompilerOpens, PrecompilerEnds, PreprocessorWrites, PreprocessorEnds,
         PreprocessorFails, vars
  <2> QED BY <2>1, <2>2, <2>3, <2>4 DEF Next, DccStep, ErrorStep, ChildStep, Over
<1>2. output \/ preproc \/ NamesDiffer
  BY <1>1 DEF NamesDiffer
<1>3. CASE StartPrecompiler \/ StartPreprocessor \/ OpenC \/ Scan \/ EndOfSource
           \/ WaitPre \/ WaitPch \/ NextInput \/ CloseFiles \/ ErrorPre \/ ErrorPch
           \/ DoUnlink \/ DoMap \/ DoFinish \/ DoTool \/ ToolForkFails \/ ErrorUnlink \/ Start
  <2>1. pc' \notin {"combined", "dropAll", "cat", "move", "rmdir", "done"}
    BY <1>3 DEF StartPrecompiler, StartPreprocessor, OpenC, Scan, EndOfSource, WaitPre, WaitPch,
         NextInput, CloseFiles, ErrorPre, ErrorPch, DoUnlink, DoMap, DoFinish, DoTool, Done,
         ToolForkFails, ErrorUnlink, Start
  <2> QED BY <2>1 DEF Arrived
<1>4. CASE RmDir
  <2>1. pc' = "done" /\ pc = "rmdir" /\ status = 0 /\ UNCHANGED <<dest, Moves, Target>>
    BY <1>4 DEF RmDir, Moves, Target
  <2>2. IF preproc THEN dest[Target] = Everything ELSE Delivered(Len(Moves))
    BY <1>2, <2>1 DEF Arrived
  <2>3. IF preproc' THEN dest'[Target'] = Everything' ELSE Delivered(Len(Moves))'
    BY <1>1, <2>1, <2>2 DEF Delivered, Everything
  <2> QED BY <2>1, <2>3 DEF Arrived
<1>5. CASE Combine
  BY <1>5 DEF Combine, Arrived
<1>6. CASE UnlinkOuts \/ MoveEach \/ CopyAll
  <2>1. pc = "combined" => output /\ ~preproc
    <3>1. pc = "combined" => status = 0
      BY <1>6 DEF UnlinkOuts, MoveEach, CopyAll
    <3> QED BY <1>2, <3>1 DEF Arrived
  <2> QED BY <1>6, <2>1, ListsMade
<1>7. CASE DropAll
  BY <1>2, <1>7 DEF DropAll, Arrived
<1>8. CASE CopyAllFails \/ MoveFails \/ CatFails
  BY <1>8 DEF CopyAllFails, MoveFails, CatFails
<1>9. CASE Rename \/ CopyInstead \/ AllMoved
  <2>1. status = 0
    BY <1>9 DEF Rename, CopyInstead, AllMoved
  <2> QED BY <1>2, <1>9, <2>1, MoveStep
<1>10. CASE CatFile \/ CloseCat
  <2>1. status = 0
    BY <1>10 DEF CatFile, CloseCat
  <2> QED BY <1>2, <1>10, <2>1, CatStep
<1>11. CASE ChildStep \/ UNCHANGED vars
  <2>1. UNCHANGED <<pc, todo, cat, dest, status, Moves, Target>>
    BY <1>11 DEF ChildStep, PrecompilerOpens, PrecompilerEnds, PreprocessorWrites, PreprocessorEnds,
         PreprocessorFails, vars, Moves, Target
  <2>2. /\ \A n : Left(n)' = Left(n) /\ Delivered(n)' = Delivered(n) /\ Copied(n)' = Copied(n)
        /\ Everything' = Everything
    BY <1>1, <2>1 DEF Left, Delivered, Copied, Everything
  <2> QED BY <1>1, <1>2, <2>1, <2>2 DEF Arrived
<1> QED
  BY <1>3, <1>4, <1>5, <1>6, <1>7, <1>8, <1>9, <1>10, <1>11
    DEF Next, DccStep, ErrorStep, Deliver, ChildStep, Over

LEMMA ArrivedInvariance == Safety => [](Types /\ Arrived)
<1>1. Init => Arrived
  BY DEF Init, Arrived
<1> QED BY <1>1, PidsInvariance, StepArrived, PTL DEF Safety

(* With one destination, exit status 0 means that it holds the code of     *)
(* every input in order, whichever of the calls on the way may fail, and   *)
(* however a rename that fails is made up for by a copy (dcc_gen.c:507-555 *)
(* and dcc.c:256-265).                                                     *)
THEOREM StatusIsTrue == Safety => []StatusTellsAll
<1>1. Types /\ Arrived => StatusTellsAll
  <2> SUFFICES ASSUME Types, Arrived, pc = "done", status = 0, output \/ preproc
               PROVE  dest[Target] = Everything
    BY DEF StatusTellsAll, Target
  <2>1. CASE preproc
    BY <2>1 DEF Arrived
  <2>2. CASE ~preproc
    <3>1. Delivered(Len(Moves)) /\ Len(Moves) = 1 /\ Moves[1] = Move(All, OutFile)
      BY <2>2, MovesShape DEF Arrived, Moves
    <3>2. dest[OutFile] = Holding(Code(All))
      BY <3>1 DEF Delivered, Move
    <3> QED BY <2>2, <3>2 DEF Code, Everything, Target
  <2> QED BY <2>1, <2>2
<1> QED BY <1>1, ArrivedInvariance, PTL

(* Without -o and -E, exit status 0 means that every input has an object   *)
(* of its own, if no two inputs are to be written to the same name; the    *)
(* run samename shows that this is needed, and that dcc does not check it  *)
(* (dcc_options.c:194, dcc_gen.c:538-549).                                 *)
THEOREM ObjectsApart == NamesDiffer /\ Safety => []OneObjectPerInput
<1>1. Types /\ Arrived /\ NamesDiffer => OneObjectPerInput
  <2> SUFFICES ASSUME Types, Arrived, NamesDiffer, pc = "done", status = 0, ~output, ~preproc,
                      NEW k \in 1 .. N
               PROVE  dest[NameOf[k]] = Holding(<<k>>)
    BY DEF OneObjectPerInput
  <2>1. Delivered(Len(Moves)) /\ Len(Moves) = N /\ Moves[k] = Move(Out(k), NameOf[k])
    BY MovesShape DEF Arrived, Moves
  <2>2. dest[NameOf[k]] = Holding(Code(Out(k)))
    BY <2>1 DEF Delivered, Move
  <2>3. Code(Out(k)) = <<k>>
    BY Different DEF Code, Out, File
  <2> QED BY <2>2, <2>3
<1>2. NamesDiffer => []NamesDiffer
  <2>1. NamesDiffer => NamesDiffer'
    BY DEF NamesDiffer
  <2> QED BY <2>1, PTL
<1> QED BY <1>1, <1>2, ArrivedInvariance, PTL
=============================================================================
