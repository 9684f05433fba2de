-------------------------------- MODULE Host --------------------------------
(***************************************************************************)
(* Runtime and TmpDir together: the host of the one is the host of the     *)
(* other, the compilers of the one are the children of the other, and the  *)
(* files of the one lie in the directory of the other.  A compiler is      *)
(* known by the name of its output.                                        *)
(*                                                                         *)
(* Two things happen here that neither module has: the host may end        *)
(* between any two steps of a call, and the cleaner takes the files away.  *)
(***************************************************************************)
EXTENDS Naturals, Sequences

CONSTANTS
  Keys, Files, FileOf, TmplParams, NameLimit, MaxDepth, None,  \* as in Runtime
  HostProcess, Cleaner, MaxAttempts                            \* as in TmpDir

VARIABLES
  cached, entry, stack, pc, job, ready, next, gch,
  headers, sources, objects, libs, procs,
  host, at, dir, cleaner, child, writers

R == INSTANCE Runtime
T == INSTANCE TmpDir WITH Host <- HostProcess, Children <- R!Names

ASSUME HostAssumption ==
  /\ R!KeysAssumption /\ R!LimitAssumption /\ R!NoneAssumption
  /\ T!ProcessAssumption /\ T!AttemptsAssumption

callVars == <<cached, entry, stack, pc, job, ready, next, gch,
              headers, sources, objects, libs, procs>>
dirVars == <<host, at, dir, cleaner, child, writers>>
vars == <<callVars, dirVars>>

Init == R!Init /\ T!Init

-----------------------------------------------------------------------------
(* GLOBAL_io_ctx is initialised inside the first call, step by step.       *)
Initialise ==
  /\ pc = "init" /\ ~ready
  /\ T!MakeDir \/ T!Pipe \/ T!Fork
  /\ UNCHANGED callVars

(* mkdtemp, pipe or fork fails. *)
InitialiseFails ==
  /\ R!InitIoFails
  /\ \/ T!PipeFails \/ T!ForkFails
     \/ host = "start" /\ UNCHANGED dirVars

FailureIgnored ==  \* mutant: the context is used also when its initialisation failed
  /\ R!InitIo
  /\ IF ready THEN UNCHANGED dirVars ELSE T!Return \/ T!PipeFails \/ T!ForkFails

Initialised ==
  /\ R!InitIo
  /\ IF ready THEN UNCHANGED dirVars ELSE T!Return

(* Steps of the host that leave processes and the directory alone. *)
Prepare ==
  /\ \/ R!ReuseHeader \/ R!WriteSource
     \/ \E f \in Files : R!ExtractHeader(f) \/ R!ExtractHeaderFails(f)
  /\ UNCHANGED dirVars

StartCompiler ==
  /\ R!Fork
  /\ T!StartChild(next) /\ child'[next] = "compiler"

Finish ==
  /\ \/ R!ForkFails \/ R!RemoveSource \/ R!Load \/ R!LoadFails
     \/ \E p \in procs : R!Reap(p)
  /\ UNCHANGED dirVars

Crash == (R!Abort \/ R!NoSourceFile) /\ T!HostEnds

Call ==
  \/ Initialise \/ InitialiseFails \/ Initialised
  \/ Prepare \/ StartCompiler \/ Finish \/ Crash

(* Outside and inside of calls. *)
User == (R!UserStep \/ R!WaitFails) /\ UNCHANGED dirVars

(* Exit or kill, at any point. *)
Ends ==
  /\ T!HostEnds
  /\ pc' = "dead"
  /\ UNCHANGED <<cached, entry, stack, job, ready, next, gch, headers, sources, objects, libs, procs>>

-----------------------------------------------------------------------------
Reads(p) == R!CompilerReads(p) /\ UNCHANGED dirVars

CompilerEnds(p) == (R!CompilerSucceeds(p) \/ R!CompilerFails(p)) /\ T!ChildEnds(p.out)

Compiler(p) == Reads(p) \/ CompilerEnds(p)

-----------------------------------------------------------------------------
(* rm -rf takes all files, or some of them when it fails. *)
Taken(files, all) ==
  \E left \in SUBSET {n \in R!Names : files[n] # None} :
    /\ all => left = {}
    /\ files' = [n \in R!Names |-> IF n \in left THEN files[n] ELSE None]

Clean ==
  /\ T!Remove
  /\ LET all == dir'[at] = "gone" IN
       Taken(headers, all) /\ Taken(sources, all) /\ Taken(objects, all)
  /\ UNCHANGED <<cached, entry, stack, pc, job, ready, next, gch, libs, procs>>

CleanerWaits ==
  /\ T!CloseWriteEnd \/ T!ReadEnds
  /\ UNCHANGED callVars

CleanerStarts ==
  /\ T!BlockSignals \/ T!CleanerDies
  /\ UNCHANGED callVars

-----------------------------------------------------------------------------
Over ==
  /\ pc = "dead" /\ \A p \in procs : p.st # "running"
  /\ UNCHANGED vars

Next ==
  \/ User \/ Call \/ Ends
  \/ \E p \in procs : Compiler(p)
  \/ CleanerStarts \/ CleanerWaits \/ Clean
  \/ Over

(* A call runs on, a compiler that was started ends, and so does the       *)
(* cleaner, as in TmpDir.  Nothing makes waitid fail, the program call, a  *)
(* guest body return or the host end.                                      *)
Fairness ==
  /\ WF_vars(Call)
  /\ \A n \in R!Names : WF_vars(\E p \in procs : p.out = n /\ Compiler(p))
  /\ WF_vars(CleanerWaits \/ Clean)

Safety == Init /\ [][Next]_vars
Spec == Safety /\ Fairness

-----------------------------------------------------------------------------
(* No compiler, orphaned or not, loses a file it has begun to read, nor a  *)
(* live host a header it has recorded or an object it is to load, to the   *)
(* cleaner (io.c:62-68, 84, 132-133, 231).                                 *)
NothingTakenAway ==
  /\ \A p \in procs : p.st = "running" /\ p.seen # None =>
       headers[p.seen.hdr] = [file |-> FileOf[p.seen.key], whole |-> TRUE]
  /\ host # "gone" => R!HeaderComplete /\ R!LoadsFinishedObject

(* Where the directory is not there any more there are no files, and none  *)
(* come back; where a host works there is a directory (io.c:29-91).        *)
FilesInDirectory ==
  (\E n \in R!Names : {headers[n], sources[n], objects[n]} # {None})
    => at > 0 /\ dir[at] # "gone"

(* A call comes to an end also when it has to initialise the directory,    *)
(* and when that fails (call.cpp:49-57, io.c:29-91).                       *)
CallEnds == (pc \in R!Compiling) ~> (pc \in {"user", "dead"})

(* Once the host has ended and its cleaner is safe from signals, all files *)
(* go for good, whatever calls and orphans were at work (io.c:62-79).      *)
NoFile == \A n \in R!Names : headers[n] = None /\ sources[n] = None /\ objects[n] = None
EverythingGoes ==
  (host = "gone" /\ cleaner \in {"blocked", "reading", "removing"})
    ~> [](NoFile \/ dir[at] = "stuck")
=============================================================================
