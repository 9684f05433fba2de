------------------------------ MODULE DccBuild ------------------------------
(***************************************************************************)
(* One run of the build tool dcc: main from the temporary directory on     *)
(* (dcc.c:237-266), process_single_file for each input and the delivery of *)
(* the outputs (dcc_gen.c:210-558), with the precompiler and the           *)
(* preprocessor it starts, the pipe between the preprocessor and the       *)
(* scanner, and the files in the temporary directory.                      *)
(*                                                                         *)
(* The precompiler and the preprocessor run next to dcc; the other tools   *)
(* are waited for at once, so each is one step.  Any call may fail whose   *)
(* kind of failure is in Faults.                                           *)
(***************************************************************************)
EXTENDS Naturals, Sequences

CONSTANTS
  N,          \* input files, numbered from 1
  NameOf,     \* 1..N -> Dests: input name with its extension replaced by .o
  Faults,     \* kinds of failure this run may meet
  MaxItems,   \* bound: items a preprocessed source consists of
  PipeSize,   \* items the pipe holds
  OutFile, StdOut

FaultKinds == {"mkdir", "fork", "stream", "open", "wait", "map", "write",
               "tool", "toolfork", "unlink", "rename", "dest"}

ASSUME SizeAssumption == {N, MaxItems, PipeSize} \subseteq Nat \ {0}
ASSUME FaultAssumption == Faults \subseteq FaultKinds
ASSUME NameAssumption == DOMAIN NameOf = 1 .. N

Dests == {OutFile, StdOut} \union {NameOf[k] : k \in 1 .. N}

(* The names in the temporary directory. *)
File(kind, k) == [kind |-> kind, of |-> k]
Pch == File("pch", 0)
Obj == File("o", 0)
All == File("all", 0)
Out(k) == File("out", k)
Outs == {Out(k) : k \in 1 .. N}

(* What the scanner meets: text without exports, an exported function, or  *)
(* an export it cannot read.                                               *)
Items == {"text", "export", "bad"}

VARIABLES
  preproc,   \* config->preproc; config->compile is the opposite
  output,    \* whether there is a config->output
  pc,        \* where dcc is
  i,         \* the input being processed
  dir,       \* the temporary directory: "none", "there" or "gone"
  tmp,       \* its files
  pch,       \* the precompiler, and whether dcc holds its pid
  pre,       \* the preprocessor, likewise, and how many items it has left
  pipe,      \* its items, whether the read end is open, and as a FILE
  cfile,     \* whether c_file is open
  found,     \* have_any_functions
  todo,      \* what is left to do for this input, or to deliver
  cat,       \* the files being copied to one destination
  dest,      \* inputs whose code each destination holds; none before it is made
  status,    \* exit status
  stuck      \* whether an unlink has failed

config == <<preproc, output>>
children == <<pch, pre, pipe>>
source == <<cfile, found>>
delivery == <<cat, dest>>
vars == <<config, pc, i, dir, tmp, children, source, todo, delivery, status, stuck>>

C == IF preproc THEN Out(i) ELSE File("c", 0)
NoCat == [files |-> <<>>, to |-> StdOut]
Untouched == [made |-> FALSE, code |-> <<>>]
Ended == {"ok", "bad"}

Init ==
  /\ preproc \in BOOLEAN /\ output \in BOOLEAN
  /\ pc = "start" /\ i = 1
  /\ dir = "none" /\ tmp = {}
  /\ pch = [st |-> "none", held |-> FALSE]
  /\ pre = [st |-> "none", held |-> FALSE, left |-> 0]
  /\ pipe = [items |-> <<>>, reader |-> FALSE, stream |-> FALSE]
  /\ cfile = FALSE /\ found = FALSE
  /\ todo = <<>>
  /\ cat = NoCat
  /\ dest = [d \in Dests |-> Untouched]
  /\ status = 0 /\ stuck = FALSE

(* unlinkat for each name of S; ok tells whether all of them went.  A name *)
(* that is not there fails too.                                            *)
Unlink(S, ok) ==
  \E kept \in SUBSET (S \intersect tmp) :
    /\ "unlink" \notin Faults => kept = {}
    /\ ok = (S \subseteq tmp /\ kept = {})
    /\ tmp' = tmp \ (S \ kept)
    /\ stuck' = (stuck \/ kept # {})

UnlinkAny(S) == \E ok \in BOOLEAN : Unlink(S, ok)

-----------------------------------------------------------------------------
(* main: the temporary directory. *)

Start ==
  /\ pc = "start"
  /\ \/ dir' = "there" /\ pc' = "precompile" /\ UNCHANGED status
     \/ "mkdir" \in Faults /\ dir' = "none" /\ pc' = "done" /\ status' = 1
     \/ "mkdir" \in Faults /\ dir' = "there" /\ pc' = "rmdir" /\ status' = 1
  /\ UNCHANGED <<config, i, tmp, children, source, todo, delivery, stuck>>

RmDir ==
  /\ pc = "rmdir"
  /\ IF tmp = {} THEN dir' = "gone" /\ UNCHANGED status
                 ELSE status' = 1 /\ UNCHANGED dir
  /\ pc' = "done"
  /\ UNCHANGED <<config, i, tmp, children, source, todo, delivery, stuck>>

-----------------------------------------------------------------------------
(* process_single_file: the two children. *)

StartPrecompiler ==
  /\ pc = "precompile"
  /\ \/ pch' = [st |-> "running", held |-> TRUE] /\ pc' = "preprocess"
     \/ "fork" \in Faults /\ pc' = "error" /\ UNCHANGED pch
  /\ pipe' = [pipe EXCEPT !.stream = FALSE]
  /\ UNCHANGED <<config, i, dir, tmp, pre, source, todo, delivery, status, stuck>>

(* pipe or fork fails; or close or fdopen does, and the read end stays     *)
(* open without a stream.                                                  *)
StartPreprocessor ==
  /\ pc = "preprocess"
  /\ \/ /\ "fork" \in Faults
        /\ pc' = "error"
        /\ UNCHANGED <<pre, pipe>>
     \/ \E left \in 0 .. MaxItems, stream \in BOOLEAN :
          /\ stream \/ "stream" \in Faults
          /\ pre' = [st |-> "running", held |-> TRUE, left |-> left]
          /\ pipe' = [items |-> <<>>, reader |-> TRUE, stream |-> stream]
          /\ pc' = IF stream THEN "open" ELSE "error"
  /\ UNCHANGED <<config, i, dir, tmp, pch, source, todo, delivery, status, stuck>>

(* The result is not checked: a null c_file crashes at its first use. Where *)
(* only fdopen fails, the file is there.                                    *)
OpenC ==
  /\ pc = "open"
  /\ \/ C \notin tmp /\ tmp' = tmp \union {C} /\ cfile' = TRUE
     \/ C \in tmp /\ cfile' = FALSE /\ UNCHANGED tmp
     \/ "open" \in Faults /\ cfile' = FALSE /\ tmp' \in {tmp, tmp \union {C}}
  /\ found' = FALSE
  /\ pc' = "scan"
  /\ UNCHANGED <<config, i, dir, children, todo, delivery, status, stuck>>

(* generate_c_part1 takes the next item from the pipe. *)
Scan ==
  /\ pc = "scan"
  /\ pipe.items # <<>>
  /\ pipe' = [pipe EXCEPT !.items = Tail(@)]
  /\ LET item == Head(pipe.items) IN
       /\ pc' = CASE item = "bad" -> "error"
                  [] item = "export" /\ ~cfile -> "crashed"
                  [] OTHER -> "scan"
       /\ found' = (found \/ item = "export")
  /\ UNCHANGED <<config, i, dir, tmp, pch, pre, cfile, todo, delivery, status, stuck>>

EndOfSource ==
  /\ pc = "scan"
  /\ pipe.items = <<>>
  /\ pre.st \in Ended
  /\ pc' = "waitPre"
  /\ UNCHANGED <<config, i, dir, tmp, children, source, todo, delivery, status, stuck>>

(* dcc_wait gives up the pid in any case.  dcc handles no signal, so that  *)
(* waitid fails only when SIGCHLD is ignored, after the child has ended.   *)
WaitPre ==
  /\ pc = "waitPre"
  /\ pre.st \in Ended
  /\ pre' = [pre EXCEPT !.held = FALSE]
  /\ \/ pre.st = "ok" /\ pc' = "waitPch"
     \/ (pre.st = "bad" \/ "wait" \in Faults) /\ pc' = "error"
  /\ UNCHANGED <<config, i, dir, tmp, pch, pipe, source, todo, delivery, status, stuck>>

-----------------------------------------------------------------------------
(* process_single_file: what remains, by mode and whether anything is      *)
(* exported.  Tools need their inputs, and make or rewrite their output.   *)

Op(kind, file, needs) == [kind |-> kind, file |-> file, needs |-> needs]
UnlinkOp(f) == Op("unlink", f, {})

EarlyUnlink ==  \* mutant: the header is unlinked before ld reads it
  IF found /\ ~preproc
  THEN << Op("map", Pch, {Pch}), Op("finish", C, {C}),
          Op("tool", Obj, {C}), UnlinkOp(C), UnlinkOp(Pch),
          Op("tool", Out(i), {Obj, Pch}), UnlinkOp(Obj),
          Op("tool", Out(i), {Out(i)}) >>
  ELSE << UnlinkOp(Pch) >>

Plan ==
  CASE ~found /\ preproc -> << UnlinkOp(Pch) >>
    [] ~found /\ ~preproc ->
         << UnlinkOp(Pch), UnlinkOp(C), Op("tool", Out(i), {}) >>
    [] found /\ preproc ->
         << Op("map", Pch, {Pch}), UnlinkOp(Pch), Op("finish", C, {C}) >>
    [] found /\ ~preproc ->
         << Op("map", Pch, {Pch}), Op("finish", C, {C}),
            Op("tool", Obj, {C}), UnlinkOp(C),
            Op("tool", Out(i), {Obj, Pch}), UnlinkOp(Obj), UnlinkOp(Pch),
            Op("tool", Out(i), {Out(i)}) >>

(* Without an export, c_file is closed here, null or not. *)
WaitPch ==
  /\ pc = "waitPch"
  /\ pch.st \in Ended
  /\ pch' = [pch EXCEPT !.held = FALSE]
  /\ \/ /\ pch.st = "ok"
        /\ pc' = IF found \/ cfile THEN "work" ELSE "crashed"
        /\ todo' = Plan
        /\ cfile' = (cfile /\ found)
     \/ /\ pch.st = "bad" \/ "wait" \in Faults
        /\ pc' = "error"
        /\ UNCHANGED <<todo, cfile>>
  /\ UNCHANGED <<config, i, dir, tmp, pre, pipe, found, delivery, status, stuck>>

Doing(kind) == pc = "work" /\ todo # <<>> /\ Head(todo).kind = kind

Done(ok) ==
  /\ todo' = IF ok THEN Tail(todo) ELSE <<>>
  /\ pc' = IF ok THEN "work" ELSE "error"

DoUnlink ==
  /\ Doing("unlink")
  /\ \E ok \in BOOLEAN : Unlink({Head(todo).file}, ok) /\ Done(ok)
  /\ UNCHANGED <<config, i, dir, children, source, delivery, status>>

(* dcc_map, or fstatat where the header stays in a file of its own. *)
DoMap ==
  /\ Doing("map")
  /\ \E ok \in BOOLEAN :
       /\ ok => Head(todo).file \in tmp
       /\ ~ok => Head(todo).file \notin tmp \/ "map" \in Faults
       /\ Done(ok)
  /\ UNCHANGED <<config, i, dir, tmp, children, source, delivery, status, stuck>>

(* generate_c_part2, and the check of ferror and fclose. *)
DoFinish ==
  /\ Doing("finish")
  /\ \E ok \in BOOLEAN : (ok \/ "write" \in Faults) /\ Done(ok)
  /\ cfile' = FALSE
  /\ UNCHANGED <<config, i, dir, tmp, children, found, delivery, status, stuck>>

(* run_tool: success, failure with or without an output, or a failing fork *)
(* that reads the program name nobody has filled in.                       *)
Tool(f, needs, ok) ==
  IF ok THEN needs \subseteq tmp /\ tmp' = tmp \union {f}
  ELSE /\ ~(needs \subseteq tmp) \/ "tool" \in Faults
       /\ tmp' \in {tmp, tmp \union {f}}

DoTool ==
  /\ Doing("tool")
  /\ \E ok \in BOOLEAN : Tool(Head(todo).file, Head(todo).needs, ok) /\ Done(ok)
  /\ UNCHANGED <<config, i, dir, children, source, delivery, status, stuck>>

ToolForkFails ==
  /\ "toolfork" \in Faults
  /\ Doing("tool") \/ (pc = "deliver" /\ output /\ ~preproc)
  /\ pc' = "crashed"
  /\ UNCHANGED <<config, i, dir, tmp, children, source, todo, delivery, status, stuck>>

DeliverAtOnce ==  \* mutant: an object leaves before the next input is tried
  /\ pc = "work"
  /\ todo = <<>>
  /\ IF i < N THEN i' = i + 1 /\ pc' = "precompile"
              ELSE UNCHANGED i /\ pc' = "deliver"
  /\ dest' = IF output \/ preproc THEN dest
             ELSE [dest EXCEPT ![NameOf[i]] = [made |-> TRUE, code |-> <<i>>]]
  /\ UNCHANGED <<config, dir, tmp, children, source, todo, cat, status, stuck>>

NextInput ==
  /\ pc = "work"
  /\ todo = <<>>
  /\ IF i < N THEN i' = i + 1 /\ pc' = "precompile"
              ELSE UNCHANGED i /\ pc' = "deliver"
  /\ UNCHANGED <<config, dir, tmp, children, source, todo, delivery, status, stuck>>

-----------------------------------------------------------------------------
(* process_single_file: the error path. *)

WaitBeforeClose ==  \* mutant: the stream is still open during the waits
  /\ pc = "error"
  /\ cfile' = FALSE
  /\ pc' = "errorPre"
  /\ UNCHANGED <<config, i, dir, tmp, children, found, todo, delivery, status, stuck>>

(* Both files are closed first: a preprocessor that still writes gets      *)
(* SIGPIPE, if the pipe has become a stream.                               *)
CloseFiles ==
  /\ pc = "error"
  /\ cfile' = FALSE
  /\ pipe' = IF pipe.stream THEN [pipe EXCEPT !.reader = FALSE, !.stream = FALSE]
                            ELSE pipe
  /\ pc' = "errorPre"
  /\ UNCHANGED <<config, i, dir, tmp, pch, pre, found, todo, delivery, status, stuck>>

ErrorPre ==
  /\ pc = "errorPre"
  /\ pre.held => pre.st \in Ended
  /\ pre' = [pre EXCEPT !.held = FALSE]
  /\ pc' = "errorPch"
  /\ UNCHANGED <<config, i, dir, tmp, pch, pipe, source, todo, delivery, status, stuck>>

SkipPch ==  \* mutant: only the preprocessor is waited for
  /\ pc = "errorPch"
  /\ pc' = "errorUnlink"
  /\ UNCHANGED <<config, i, dir, tmp, children, source, todo, delivery, status, stuck>>

ErrorPch ==
  /\ pc = "errorPch"
  /\ pch.held => pch.st \in Ended
  /\ pch' = [pch EXCEPT !.held = FALSE]
  /\ pc' = "errorUnlink"
  /\ UNCHANGED <<config, i, dir, tmp, pre, pipe, source, todo, delivery, status, stuck>>

(* Then the files of this input go, and the outputs of those before it. *)

UnlinkSome ==  \* mutant: tmp.o is not thought of
  /\ pc = "errorUnlink"
  /\ UnlinkAny({Pch, File("c", 0), Out(i)} \union {Out(k) : k \in 1 .. i - 1})
  /\ status' = 1
  /\ pc' = "rmdir"
  /\ UNCHANGED <<config, i, dir, children, source, todo, delivery>>

ErrorUnlink ==
  /\ pc = "errorUnlink"
  /\ UnlinkAny({Pch, File("c", 0), Obj, Out(i)} \union {Out(k) : k \in 1 .. i - 1})
  /\ status' = 1
  /\ pc' = "rmdir"
  /\ UNCHANGED <<config, i, dir, children, source, todo, delivery>>

ErrorStep == CloseFiles \/ ErrorPre \/ ErrorPch \/ ErrorUnlink

-----------------------------------------------------------------------------
(* dcc_gen_main: delivering the outputs. *)

Move(f, d) == [file |-> f, to |-> d]
Code(f) == IF f = All THEN [k \in 1 .. N |-> k] ELSE << f.of >>
Holding(code) == [made |-> TRUE, code |-> code]
Part == 0  \* of the code of some input, where a write was cut short

(* -c with -o: ld combines the objects, which are unlinked in any case. *)
Combine ==
  /\ pc = "deliver" /\ output /\ ~preproc
  /\ \E ok \in BOOLEAN :
       Tool(All, Outs, ok) /\ status' = IF ok THEN status ELSE 1
  /\ pc' = "combined"
  /\ UNCHANGED <<config, i, dir, children, source, todo, delivery, stuck>>

UnlinkOuts ==
  /\ pc = "combined"
  /\ \E ok \in BOOLEAN :
       /\ Unlink(Outs, ok)
       /\ IF ok /\ status = 0
            THEN /\ todo' = << Move(All, OutFile) >>
                 /\ pc' = "move"
                 /\ UNCHANGED status
            ELSE /\ status' = 1
                 /\ pc' = "dropAll"
                 /\ UNCHANGED todo
  /\ UNCHANGED <<config, i, dir, children, source, delivery>>

DropAll ==
  /\ pc = "dropAll"
  /\ UnlinkAny({All})
  /\ pc' = "rmdir"
  /\ UNCHANGED <<config, i, dir, children, source, todo, delivery, status>>

(* -c without -o: each object is moved to a name of its own. *)
MoveEach ==
  /\ pc = "deliver" /\ ~output /\ ~preproc
  /\ todo' = [k \in 1 .. N |-> Move(Out(k), NameOf[k])]
  /\ pc' = "move"
  /\ UNCHANGED <<config, i, dir, tmp, children, source, delivery, status, stuck>>

(* -E: all outputs are copied to one destination. *)
CopyAll ==
  /\ pc = "deliver" /\ preproc
  /\ LET to == IF output THEN OutFile ELSE StdOut IN
       /\ cat' = [files |-> [k \in 1 .. N |-> Out(k)], to |-> to]
       /\ dest' = [dest EXCEPT ![to] = Holding(<<>>)]
  /\ pc' = "cat"
  /\ UNCHANGED <<config, i, dir, tmp, children, source, todo, status, stuck>>

CopyAllFails ==
  /\ pc = "deliver" /\ preproc /\ output
  /\ "dest" \in Faults
  /\ UnlinkAny(Outs)
  /\ status' = 1
  /\ pc' = "rmdir"
  /\ UNCHANGED <<config, i, dir, children, source, todo, delivery>>

(* move_from_tmp: rename, or else a copy. *)
Moving == pc = "move" /\ todo # <<>> /\ todo' = Tail(todo)

Rename ==
  /\ Moving
  /\ LET m == Head(todo) IN
       /\ m.file \in tmp
       /\ tmp' = tmp \ {m.file}
       /\ dest' = [dest EXCEPT ![m.to] = Holding(Code(m.file))]
  /\ UNCHANGED <<config, pc, i, dir, children, source, cat, status, stuck>>

CopyInstead ==
  /\ Moving
  /\ "rename" \in Faults
  /\ LET m == Head(todo) IN
       /\ cat' = [files |-> << m.file >>, to |-> m.to]
       /\ dest' = [dest EXCEPT ![m.to] = Holding(<<>>)]
  /\ pc' = "cat"
  /\ UNCHANGED <<config, i, dir, tmp, children, source, status, stuck>>

MoveFailsQuietly ==  \* mutant: ok stays true
  /\ Moving
  /\ {"rename", "dest"} \subseteq Faults
  /\ UnlinkAny({Head(todo).file})
  /\ UNCHANGED <<config, pc, i, dir, children, source, delivery, status>>

MoveFails ==
  /\ Moving
  /\ {"rename", "dest"} \subseteq Faults
  /\ UnlinkAny({Head(todo).file})
  /\ status' = 1
  /\ UNCHANGED <<config, pc, i, dir, children, source, delivery>>

AllMoved ==
  /\ pc = "move"
  /\ todo = <<>>
  /\ pc' = "rmdir"
  /\ UNCHANGED <<config, i, dir, tmp, children, source, todo, delivery, status, stuck>>

(* cat_unlink_close: map, unlink, write, for each file. *)
CatFile ==
  /\ pc = "cat" /\ cat.files # <<>>
  /\ LET f == Head(cat.files) IN
       /\ f \in tmp
       /\ tmp' = tmp \ {f}
       /\ dest' = [dest EXCEPT ![cat.to].code = @ \o Code(f)]
  /\ cat' = [cat EXCEPT !.files = Tail(@)]
  /\ UNCHANGED <<config, pc, i, dir, children, source, todo, status, stuck>>

(* Whichever of the three fails, the remaining files are unlinked; the one *)
(* whose unlink has failed is not tried again.                             *)
FailQuietly ==  \* mutant: the caller is not told
  /\ pc = "cat" /\ cat.files # <<>>
  /\ UnlinkAny({cat.files[k] : k \in DOMAIN cat.files})
  /\ {"map", "write"} \intersect Faults # {}
  /\ cat' = NoCat
  /\ pc' = "move"
  /\ UNCHANGED <<config, i, dir, children, source, todo, dest, status>>

CatFails ==
  /\ pc = "cat" /\ cat.files # <<>>
  /\ UnlinkAny({cat.files[k] : k \in DOMAIN cat.files})
  /\ \/ {"map", "write"} \intersect Faults # {}
     \/ Head(cat.files) \in tmp'
  /\ \/ UNCHANGED dest
     \/ "write" \in Faults /\ dest' = [dest EXCEPT ![cat.to].code = Append(@, Part)]
  /\ status' = 1
  /\ cat' = NoCat
  /\ pc' = "move"
  /\ UNCHANGED <<config, i, dir, children, source, todo>>

CloseCat ==
  /\ pc = "cat" /\ cat.files = <<>>
  /\ \/ UNCHANGED status
     \/ "write" \in Faults /\ status' = 1
  /\ cat' = NoCat
  /\ pc' = "move"
  /\ UNCHANGED <<config, i, dir, tmp, children, source, todo, dest, stuck>>

Deliver ==
  \/ Combine \/ UnlinkOuts \/ DropAll \/ MoveEach \/ CopyAll \/ CopyAllFails
  \/ Rename \/ CopyInstead \/ MoveFails \/ AllMoved
  \/ CatFile \/ CatFails \/ CloseCat

-----------------------------------------------------------------------------
(* The children. *)

PrecompilerOpens ==
  /\ pch.st = "running"
  /\ tmp' = tmp \union {Pch}
  /\ UNCHANGED <<config, pc, i, dir, children, source, todo, delivery, status, stuck>>

PrecompilerEnds ==
  /\ pch.st = "running"
  /\ \E st \in Ended :
       /\ st = "ok" => Pch \in tmp
       /\ pch' = [pch EXCEPT !.st = st]
  /\ UNCHANGED <<config, pc, i, dir, tmp, pre, pipe, source, todo, delivery, status, stuck>>

PreprocessorWrites ==
  /\ pre.st = "running"
  /\ pre.left > 0
  /\ pipe.reader
  /\ Len(pipe.items) < PipeSize
  /\ \E item \in Items : pipe' = [pipe EXCEPT !.items = Append(@, item)]
  /\ pre' = [pre EXCEPT !.left = @ - 1]
  /\ UNCHANGED <<config, pc, i, dir, tmp, pch, source, todo, delivery, status, stuck>>

(* It has written all, or gets SIGPIPE. *)
PreprocessorEnds ==
  /\ pre.st = "running"
  /\ \/ pre.left = 0 /\ \E st \in Ended : pre' = [pre EXCEPT !.st = st]
     \/ pre.left > 0 /\ ~pipe.reader /\ pre' = [pre EXCEPT !.st = "bad"]
  /\ UNCHANGED <<config, pc, i, dir, tmp, pch, pipe, source, todo, delivery, status, stuck>>

(* It finds an error, or is killed, at any point. *)
PreprocessorFails ==
  /\ pre.st = "running"
  /\ pre' = [pre EXCEPT !.st = "bad"]
  /\ UNCHANGED <<config, pc, i, dir, tmp, pch, pipe, source, todo, delivery, status, stuck>>

-----------------------------------------------------------------------------
Over == pc \in {"done", "crashed"} /\ UNCHANGED vars

DccStep ==
  \/ Start \/ RmDir \/ StartPrecompiler \/ StartPreprocessor
  \/ OpenC \/ Scan \/ EndOfSource \/ WaitPre \/ WaitPch
  \/ DoUnlink \/ DoMap \/ DoFinish \/ DoTool \/ NextInput
  \/ ErrorStep \/ Deliver

Next ==
  \/ DccStep \/ ToolForkFails
  \/ PrecompilerOpens \/ PrecompilerEnds
  \/ PreprocessorWrites \/ PreprocessorEnds \/ PreprocessorFails
  \/ Over

(* Every process runs on unless it is blocked; that a compiler is killed   *)
(* cannot be relied on.                                                    *)
Fairness ==
  /\ WF_vars(DccStep)
  /\ WF_vars(PrecompilerOpens) /\ WF_vars(PrecompilerEnds)
  /\ WF_vars(PreprocessorWrites \/ PreprocessorEnds)

Safety == Init /\ [][Next]_vars
Spec == Safety /\ Fairness

-----------------------------------------------------------------------------
(* When dcc ends by itself, it leaves no temporary directory behind,       *)
(* whichever step failed for whichever input, unless unlinkat itself fails *)
(* (dcc.c:260-264 with every error path of dcc_gen.c).                     *)
NoLeftovers == pc = "done" /\ ~stuck => dir # "there"

(* When dcc exits, neither compiler it started for any input is still      *)
(* running, writing to a directory that is gone (dcc_gen.c:413-416).       *)
NothingRuns == pc = "done" => pch.st # "running" /\ pre.st # "running"

(* Each step of the plan finds the files it works on: nothing is unlinked  *)
(* before the tool that reads it has run (dcc_gen.c:314-403).              *)
FilesAtHand ==
  pc = "work" /\ todo # <<>> =>
    /\ Head(todo).needs \subseteq tmp
    /\ Head(todo).kind = "unlink" => Head(todo).file \in tmp

Everything == Holding([k \in 1 .. N |-> k])

(* With one destination (-o, or -E), exit status 0 means that the code of  *)
(* every input has arrived there in order, whatever failed on the way      *)
(* (dcc_gen.c:507-536, 555, and dcc.c:256-265).                            *)
StatusTellsAll ==
  pc = "done" /\ status = 0 /\ (output \/ preproc) =>
    dest[IF output THEN OutFile ELSE StdOut] = Everything

(* As long as an input may still fail, no output is touched: earlier       *)
(* outputs wait in the temporary directory (dcc_gen.c:497-502).            *)
OutputsLast ==
  pc \in {"deliver", "combined", "dropAll", "move", "cat", "rmdir", "done", "crashed"}
    \/ dest = [d \in Dests |-> Untouched]

(* dcc ends: no wait for a child that waits for dcc.                       *)
Terminates == <>(pc \in {"done", "crashed"})

(* dcc -c without -o makes an object per input file (dcc_options.c:194).   *)
OneObjectPerInput ==
  pc = "done" /\ status = 0 /\ ~output /\ ~preproc =>
    \A k \in 1 .. N : dest[NameOf[k]] = Holding(<<k>>)

(* A tool that cannot be started is reported (dcc_gen.c:222).              *)
ToolFailureReported == pc # "crashed"
=============================================================================
