----------------------------- MODULE HostProofs -----------------------------
(***************************************************************************)
(* Proofs about Host, from what RuntimeProofs and TmpDirProofs show of its *)
(* parts, for the same constants.  RP and TP are R and T once more, with   *)
(* the lemmas about them.                                                  *)
(***************************************************************************)
EXTENDS Host, TLAPS

RP == INSTANCE RuntimeProofs
TP == INSTANCE TmpDirProofs WITH Host <- HostProcess, Children <- R!Names

-----------------------------------------------------------------------------
LEMMA Assumed ==
  /\ RP!KeysAssumption /\ RP!LimitAssumption /\ RP!NoneAssumption
  /\ TP!ProcessAssumption /\ TP!AttemptsAssumption
  BY HostAssumption
    DEF R!KeysAssumption, R!LimitAssumption, R!NoneAssumption,
        RP!KeysAssumption, RP!LimitAssumption, RP!NoneAssumption,
        T!ProcessAssumption, T!AttemptsAssumption,
        TP!ProcessAssumption, TP!AttemptsAssumption,
        R!Names, R!Forms, R!Header, R!Source, R!Object,
        RP!Names, RP!Forms, RP!Header, RP!Source, RP!Object

LEMMA SameSteps == (R!Init <=> RP!Init) /\ (R!Next <=> RP!Next) /\ R!vars = RP!vars
  BY DEF R!Names, R!Forms, R!Header, R!Source, R!Object, R!Process, R!Frame,
         R!Job, R!NewJob, R!NoJob, R!Compiling, R!cacheVars, R!ioVars,
         R!fileVars, R!vars, R!Init, R!Inc, R!Exhausted, R!Erase, R!Throw,
         R!Reject, R!MayCall, R!Hit, R!Absent, R!Miss, R!Leave, R!InitIo,
         R!InitIoFails, R!Abort, R!ReuseHeader, R!NewHeader, R!ExtractHeader,
         R!PathAfterFailure, R!ExtractHeaderFails, R!WriteSource,
         R!NoSourceFile, R!Fork, R!ForkFails, R!Reap, R!WaitFails,
         R!RemoveSource, R!Opened, R!RemoveObject, R!Load, R!LoadFails,
         R!Become, R!CompilerReads, R!CompilerSucceeds, R!CompilerFails,
         R!Compiler, R!Dead, R!UserStep, R!PrepareStep, R!BuildStep,
         R!HostStep, R!Next, RP!Names, RP!Forms, RP!Header, RP!Source,
         RP!Object, RP!Process, RP!Frame, RP!Job, RP!NewJob, RP!NoJob,
         RP!Compiling, RP!cacheVars, RP!ioVars, RP!fileVars, RP!vars, RP!Init,
         RP!Inc, RP!Exhausted, RP!Erase, RP!Throw, RP!Reject, RP!MayCall,
         RP!Hit, RP!Absent, RP!Miss, RP!Leave, RP!InitIo, RP!InitIoFails,
         RP!Abort, RP!ReuseHeader, RP!NewHeader, RP!ExtractHeader,
         RP!PathAfterFailure, RP!ExtractHeaderFails, RP!WriteSource,
         RP!NoSourceFile, RP!Fork, RP!ForkFails, RP!Reap, RP!WaitFails,
         RP!RemoveSource, RP!Opened, RP!RemoveObject, RP!Load, RP!LoadFails,
         RP!Become, RP!CompilerReads, RP!CompilerSucceeds, RP!CompilerFails,
         RP!Compiler, RP!Dead, RP!UserStep, RP!PrepareStep, RP!BuildStep,
         RP!HostStep, RP!Next

LEMMA SameTypes ==
  /\ R!TypeOK <=> RP!TypeOK
  /\ R!TypeOK' <=> RP!TypeOK'
  /\ R!JobSet <=> RP!JobSet
  /\ R!JobSet' <=> RP!JobSet'
  BY DEF R!Names, R!Forms, R!Header, R!Source, R!Object, R!Process, R!Frame,
         R!Job, R!NewJob, R!NoJob, R!Compiling, R!TypeOK, R!JobSet, RP!Names,
         RP!Forms, RP!Header, RP!Source, RP!Object, RP!Process, RP!Frame,
         RP!Job, RP!NewJob, RP!NoJob, RP!Compiling, RP!TypeOK, RP!JobSet

LEMMA SameInv == (R!IInv <=> RP!IInv) /\ (R!IInv' <=> RP!IInv')
  BY DEF R!Names, R!Forms, R!Header, R!Source, R!Object, R!Process, R!Frame,
         R!Job, R!NewJob, R!NoJob, R!Compiling, R!TypeOK, R!JobSet,
         R!NamesFresh, R!NullEntry, R!JobFiles, R!JobCompiler,
         R!CompilersApart, R!JobOk, R!IInv, R!LoadsFinishedObject,
         R!RunsOwnCode, R!HeaderComplete, R!IsCodeOf, RP!Names, RP!Forms,
         RP!Header, RP!Source, RP!Object, RP!Process, RP!Frame, RP!Job,
         RP!NewJob, RP!NoJob, RP!Compiling, RP!TypeOK, RP!JobSet,
         RP!NamesFresh, RP!NullEntry, RP!JobFiles, RP!JobCompiler,
         RP!CompilersApart, RP!JobOk, RP!IInv, RP!LoadsFinishedObject,
         RP!RunsOwnCode, RP!HeaderComplete, RP!IsCodeOf

LEMMA SameDirSteps == (T!Init <=> TP!Init) /\ (T!Next <=> TP!Next) /\ T!vars = TP!vars
  BY DEF T!Attempts, T!Initialising, T!vars, T!Init, T!Inherited, T!Closed,
         T!RemoveDir, T!MakeDir, T!Pipe, T!PipeFails, T!Fork, T!ForkFails,
         T!Return, T!HostInit, T!StartChild, T!ChildEnds, T!HostEnds,
         T!CleanerDies, T!BlockSignals, T!CloseWriteEnd, T!ReadEnds, T!Remove,
         T!CleanerStep, T!Over, T!Next, TP!Attempts, TP!Initialising, TP!vars,
         TP!Init, TP!Inherited, TP!Closed, TP!RemoveDir, TP!MakeDir, TP!Pipe,
         TP!PipeFails, TP!Fork, TP!ForkFails, TP!Return, TP!HostInit,
         TP!StartChild, TP!ChildEnds, TP!HostEnds, TP!CleanerDies,
         TP!BlockSignals, TP!CloseWriteEnd, TP!ReadEnds, TP!Remove,
         TP!CleanerStep, TP!Over, TP!Next, R!Names

LEMMA SameDirInv == (T!DirInv <=> TP!DirInv) /\ (T!DirInv' <=> TP!DirInv')
  BY DEF T!Types, T!Holding, T!Cleaning, T!AttemptsUndone, T!DirInv,
         T!Attempts, T!Initialising, TP!Types, TP!Holding, TP!Cleaning,
         TP!AttemptsUndone, TP!DirInv, TP!Attempts, TP!Initialising

(* What is known of the parts. *)
LEMMA CallParts ==
  /\ R!Init => R!IInv /\ R!TypeOK /\ R!JobSet
  /\ R!IInv /\ [R!Next]_callVars => R!IInv'
  /\ R!TypeOK /\ R!JobSet /\ [R!Next]_callVars => R!TypeOK' /\ R!JobSet'
<1>1. R!vars = callVars
  BY DEF R!vars, callVars
<1>2. R!Init => R!IInv /\ R!TypeOK /\ R!JobSet
  BY Assumed, SameSteps, SameInv, SameTypes, RP!InitInv, RP!InitType
<1>3. R!IInv /\ [R!Next]_R!vars => R!IInv'
  BY Assumed, SameSteps, SameInv, RP!InvStep DEF R!vars, RP!vars
<1>4. R!TypeOK /\ R!JobSet /\ [R!Next]_R!vars => R!TypeOK' /\ R!JobSet'
  BY Assumed, SameSteps, SameTypes, RP!TypeStep DEF R!vars, RP!vars
<1> QED BY <1>1, <1>2, <1>3, <1>4 DEF callVars, R!vars

LEMMA DirParts ==
  /\ T!Init => T!DirInv
  /\ T!DirInv /\ [T!Next]_dirVars => T!DirInv'
<1>1. T!Init => T!DirInv
  BY Assumed, SameDirSteps, SameDirInv, TP!InitDir
<1>2. T!DirInv /\ [T!Next]_T!vars => T!DirInv'
  BY Assumed, SameDirSteps, SameDirInv, TP!StepDir DEF T!vars, TP!vars
<1> QED BY <1>1, <1>2 DEF dirVars, T!vars

LEMMA SameMemo ==
  /\ R!Memo!Init <=> RP!Memo!Init
  /\ R!Memo!Next <=> RP!Memo!Next
  /\ R!Memo!memoVars = RP!Memo!memoVars
  /\ R!Memo!memoVars' = RP!Memo!memoVars'
  BY DEF R!CompiledKeys, R!Bodies, RP!CompiledKeys, RP!Bodies,
         R!Memo!memoVars, R!Memo!Init, R!Memo!Hit, R!Memo!Miss, R!Memo!Compiled,
         R!Memo!CompilationFails, R!Memo!Leave, R!Memo!Next,
         RP!Memo!memoVars, RP!Memo!Init, RP!Memo!Hit, RP!Memo!Miss, RP!Memo!Compiled,
         RP!Memo!CompilationFails, RP!Memo!Leave, RP!Memo!Next

LEMMA MemoParts ==
  /\ R!Init => R!Memo!Init
  /\ R!IInv /\ R!IInv' /\ [R!Next]_callVars => [R!Memo!Next]_(R!Memo!memoVars)
<1>1. R!vars = callVars
  BY DEF R!vars, callVars
<1>2. R!Init => R!Memo!Init
  BY Assumed, SameSteps, SameMemo, RP!InitMemo
<1>3. R!IInv /\ R!IInv' /\ [R!Next]_R!vars => [R!Memo!Next]_(R!Memo!memoVars)
  BY Assumed, SameSteps, SameInv, SameMemo, RP!StepPromise DEF R!vars, RP!vars
<1> QED BY <1>1, <1>2, <1>3 DEF callVars, R!vars

-----------------------------------------------------------------------------
(* What a step of the whole is for the parts. *)

LEMMA OutNames == R!TypeOK => next \in R!Names /\ \A p \in procs : p.out \in R!Names
  BY DEF R!TypeOK, R!Process

LEMMA DirSteps == R!TypeOK /\ [Next]_vars => [T!Next]_dirVars
<1> SUFFICES ASSUME R!TypeOK, [Next]_vars PROVE T!Next \/ UNCHANGED dirVars
  OBVIOUS
<1>1. CASE User
  BY <1>1 DEF User
<1>2. CASE Initialise \/ InitialiseFails \/ Initialised
  BY <1>2 DEF Initialise, InitialiseFails, Initialised, T!Next, T!HostInit
<1>3. CASE Prepare \/ Finish
  BY <1>3 DEF Prepare, Finish
<1>4. CASE StartCompiler
  BY <1>4, OutNames DEF StartCompiler, T!Next
<1>5. CASE Crash \/ Ends
  BY <1>5 DEF Crash, Ends, T!Next
<1>6. ASSUME NEW p \in procs, Compiler(p) PROVE T!Next \/ UNCHANGED dirVars
  BY <1>6, OutNames DEF Compiler, Reads, CompilerEnds, T!Next
<1>7. CASE CleanerStarts \/ CleanerWaits \/ Clean
  BY <1>7 DEF CleanerStarts, CleanerWaits, Clean, T!Next, T!CleanerStep
<1>8. CASE Over \/ UNCHANGED vars
  BY <1>8 DEF Over, vars
<1> QED BY <1>1, <1>2, <1>3, <1>4, <1>5, <1>6, <1>7, <1>8 DEF Next, Call

LEMMA CallSteps == [Next]_vars => [R!Next]_callVars \/ Ends \/ Clean
<1> SUFFICES ASSUME [Next]_vars, ~Ends, ~Clean PROVE R!Next \/ UNCHANGED callVars
  OBVIOUS
<1>1. CASE User
  BY <1>1 DEF User, R!Next
<1>2. CASE Initialise \/ InitialiseFails \/ Initialised
  BY <1>2 DEF Initialise, InitialiseFails, Initialised, R!Next, R!HostStep, R!PrepareStep
<1>3. CASE Prepare
  BY <1>3 DEF Prepare, R!Next, R!HostStep, R!PrepareStep
<1>4. CASE StartCompiler \/ Finish
  BY <1>4 DEF StartCompiler, Finish, R!Next, R!HostStep, R!BuildStep
<1>5. CASE Crash
  BY <1>5 DEF Crash, R!Next, R!HostStep, R!PrepareStep
<1>6. ASSUME NEW p \in procs, Compiler(p) PROVE R!Next
  BY <1>6 DEF Compiler, Reads, CompilerEnds, R!Next, R!Compiler
<1>7. CASE CleanerStarts \/ CleanerWaits
  BY <1>7 DEF CleanerStarts, CleanerWaits
<1>8. CASE Over \/ UNCHANGED vars
  BY <1>8 DEF Over, vars
<1> QED BY <1>1, <1>2, <1>3, <1>4, <1>5, <1>6, <1>7, <1>8 DEF Next, Call

-----------------------------------------------------------------------------
(* The inductive invariant of the whole.  While the host lives, Runtime's  *)
(* own invariant holds; what compilers still need after it has ended, and  *)
(* after Runtime's invariant with it, is in Readable.                      *)

(* The header a source includes is complete. *)
Good(files, s) == files[s.hdr] = [file |-> FileOf[s.key], whole |-> TRUE]

(* What the two parts know of each other. *)
Tied ==
  /\ pc = "dead" <=> host = "gone"
  /\ host # "gone" => (ready <=> host = "ready")
  /\ pc \in {"extract", "source", "fork", "wait", "remove", "load"} => ready
  /\ \A p \in procs : p.st = "running" => child[p.out] = "compiler"
  /\ \A p, q \in procs : p.out = q.out => p = q

(* Sources are read with their headers in place: the ones being read, and  *)
(* the ones to be read, until the cleaner is done.                         *)
Readable ==
  /\ \A p \in procs : p.st = "running" /\ p.seen # None => Good(headers, p.seen)
  /\ cleaner # "done" => \A n \in R!Names : sources[n] # None => Good(headers, sources[n])
  /\ pc = "source" => Good(headers, job)

Kept == (~ready => NoFile /\ procs = {}) /\ FilesInDirectory

HostInv ==
  /\ R!TypeOK /\ R!JobSet /\ T!DirInv
  /\ host # "gone" => R!IInv
  /\ Tied /\ Readable /\ Kept

LEMMA DirFacts ==
  ASSUME T!DirInv
  PROVE  /\ host = "ready" \/ (\E c \in R!Names : child[c] = "compiler") =>
              at > 0 /\ dir[at] # "gone"
         /\ host # "gone" \/ (\E c \in R!Names : child[c] = "compiler") =>
              cleaner \notin {"removing", "done"}
         /\ host = "piped" => cleaner = "none"
         /\ child \in [R!Names -> {"none", "compiler", "other", "ended"}]
  BY HostAssumption
    DEF T!AttemptsAssumption, T!Attempts, T!DirInv, T!Types, T!Holding, T!Cleaning

LEMMA InitHost == Init => HostInv
<1> SUFFICES ASSUME Init PROVE HostInv
  OBVIOUS
<1>1. R!IInv /\ R!TypeOK /\ R!JobSet /\ T!DirInv
  BY CallParts, DirParts DEF Init
<1>2. Tied /\ Readable /\ Kept
  BY DEF Init, R!Init, T!Init, Tied, Readable, Kept, NoFile, FilesInDirectory
<1> QED BY <1>1, <1>2 DEF HostInv

(* Steps that end the host or clean up. *)
LEMMA EndTypes ==
  ASSUME R!TypeOK, R!JobSet, T!DirInv, Tied, Ends \/ Clean
  PROVE  R!TypeOK' /\ R!JobSet'
<1>1. CASE Ends
  BY <1>1 DEF Ends, R!TypeOK, R!JobSet, R!Compiling
<1>2. CASE Clean
  <2>1. host = "gone" /\ pc = "dead" /\ UNCHANGED <<cached, entry, stack, pc, job, ready, next, gch, libs, procs>>
    BY <1>2, DirFacts DEF Clean, T!Remove, Tied
  <2>2. /\ headers' \in [R!Names -> R!Header \union {None}]
        /\ sources' \in [R!Names -> R!Source \union {None}]
        /\ objects' \in [R!Names -> R!Object \union {None}]
    BY <1>2 DEF Clean, Taken, R!TypeOK
  <2> QED BY <2>1, <2>2 DEF R!TypeOK, R!JobSet, R!Compiling
<1> QED BY <1>1, <1>2

LEMMA StepParts ==
  ASSUME HostInv, [Next]_vars
  PROVE  /\ R!TypeOK' /\ R!JobSet' /\ T!DirInv'
         /\ host' # "gone" => host # "gone" /\ R!IInv'
<1>1. T!DirInv' /\ [T!Next]_dirVars
  BY DirSteps, DirParts DEF HostInv
<1>2. R!TypeOK' /\ R!JobSet'
  BY CallSteps, CallParts, EndTypes DEF HostInv
<1>3. host = "gone" => host' = "gone"
  BY <1>1 DEF T!Next, T!HostInit, T!MakeDir, T!Pipe, T!PipeFails, T!Fork, T!ForkFails, T!Return,
              T!StartChild, T!ChildEnds, T!HostEnds, T!CleanerDies, T!BlockSignals, T!CleanerStep,
              T!CloseWriteEnd, T!ReadEnds, T!Remove, T!Over, T!vars, dirVars
<1>4. Ends \/ Clean => host' = "gone"
  BY DirFacts DEF HostInv, Ends, Clean, T!HostEnds, T!Remove
<1> QED BY <1>1, <1>2, <1>3, <1>4, CallSteps, CallParts DEF HostInv

LEMMA StepTied ==
  ASSUME HostInv, [Next]_vars
  PROVE  Tied'
<1> USE DEF Tied
<1>0. Tied /\ (host # "gone" => R!IInv) /\ (host' # "gone" => host # "gone" /\ R!IInv')
  BY StepParts DEF HostInv
<1>1. CASE User
  <2>1. UNCHANGED <<ready, procs, host, child>>
        /\ \/ pc \in {"user", "init"} /\ pc' \in {"user", "init"}
           \/ pc = "wait" /\ pc' = "remove"
    <3>1. CASE R!Leave \/ R!WaitFails
      BY <1>1, <3>1 DEF User, dirVars, R!Leave, R!WaitFails, R!ioVars
    <3>2. ASSUME NEW k \in Keys, R!Reject(k) \/ R!Hit(k) \/ R!Miss(k)
          PROVE  UNCHANGED <<ready, procs>> /\ pc = "user" /\ pc' \in {"user", "init"}
      BY <3>2 DEF R!Reject, R!Hit, R!Miss, R!MayCall, R!vars, R!ioVars
    <3> QED BY <1>1, <3>1, <3>2 DEF User, dirVars, R!UserStep
  <2> QED BY <1>0, <2>1
<1>2. CASE Initialise \/ InitialiseFails \/ Initialised
  BY <1>0, <1>2
    DEF Initialise, InitialiseFails, Initialised, callVars, dirVars, R!InitIo, R!InitIoFails, R!Throw,
        T!MakeDir, T!Pipe, T!Fork, T!PipeFails, T!ForkFails, T!Return, R!ioVars
<1>3. CASE Prepare
  BY <1>0, <1>3
    DEF Prepare, dirVars, R!ReuseHeader, R!WriteSource, R!ExtractHeader, R!ExtractHeaderFails,
        R!NewHeader, R!Throw, R!ioVars
<1>4. CASE StartCompiler
  <2>1. /\ host # "gone" /\ host' = host /\ pc = "fork" /\ pc' = "wait" /\ ready' = ready
        /\ procs' = procs \union {[src |-> job.cxx, out |-> next, seen |-> None, st |-> "running"]}
        /\ child' = [child EXCEPT ![next] = "compiler"]
    BY <1>0, <1>4 DEF StartCompiler, R!Fork, T!StartChild
  <2>2. next \in R!Names /\ child \in [R!Names -> {"none", "compiler", "other", "ended"}]
    BY DirFacts, OutNames DEF HostInv
  <2>3. \A p, q \in procs' : p.out = q.out => p = q
    BY <1>0, <2>1 DEF R!IInv, R!CompilersApart
  <2> QED BY <1>0, <2>1, <2>2, <2>3
<1>5. CASE Finish
  BY <1>0, <1>5
    DEF Finish, dirVars, R!ForkFails, R!RemoveSource, R!Load, R!LoadFails, R!Reap, R!Throw, R!ioVars
<1>6. CASE Crash
  BY <1>0, <1>6 DEF Crash, R!Abort, R!NoSourceFile, T!HostEnds, R!ioVars
<1>7. CASE Ends
  BY <1>0, <1>7 DEF Ends, T!HostEnds
<1>8. ASSUME NEW p \in procs, Reads(p) PROVE Tied'
  <2>1. \A q \in procs' : \E r \in procs : q.out = r.out /\ q.st = r.st /\ (r = p \/ r = q)
    BY <1>8 DEF Reads, R!CompilerReads, R!Become, HostInv, R!TypeOK, R!Process
  <2>2. UNCHANGED <<pc, ready>> /\ UNCHANGED dirVars
    BY <1>8 DEF Reads, R!CompilerReads, R!ioVars
  <2>3. \A q, r \in procs' : q.out = r.out => q = r
    <3> TAKE q, r \in procs'
    <3>1. PICK q0 \in procs, r0 \in procs : q.out = q0.out /\ r.out = r0.out /\ (q0 = r0 => q = r)
      BY <1>8 DEF Reads, R!CompilerReads, R!Become, HostInv, R!TypeOK, R!Process
    <3>2. q0.out = r0.out => q0 = r0
      BY <1>0
    <3> QED BY <3>1, <3>2, Zenon
  <2> QED BY <1>0, <2>1, <2>2, <2>3 DEF dirVars
<1>9. ASSUME NEW p \in procs, CompilerEnds(p) PROVE Tied'
  <2> DEFINE Ended(q) == q.out = p.out /\ q.st # "running"
  <2>1. \E q : Ended(q) /\ procs' = (procs \ {p}) \union {q}
    BY <1>9 DEF CompilerEnds, R!CompilerSucceeds, R!CompilerFails, R!Become, HostInv, R!TypeOK, R!Process
  <2>2. UNCHANGED <<pc, ready, host>> /\ child' = [child EXCEPT ![p.out] = "ended"]
    BY <1>9 DEF CompilerEnds, R!CompilerSucceeds, R!CompilerFails, T!ChildEnds, R!ioVars
  <2>3. p.out \in R!Names /\ child \in [R!Names -> {"none", "compiler", "other", "ended"}]
    BY DirFacts, OutNames DEF HostInv
  <2>4. \A q, r \in procs' : q.out = r.out => q = r
    BY <1>0, <2>1
  <2>5. \A q \in procs' : q.st = "running" => q \in procs /\ q.out # p.out
    BY <1>0, <2>1
  <2>6. \A q \in procs' : q.st = "running" => child'[q.out] = "compiler"
    BY <1>0, <2>2, <2>3, <2>5
  <2> QED BY <1>0, <2>2, <2>4, <2>6
<1>10. CASE CleanerStarts \/ CleanerWaits \/ Clean
  BY <1>0, <1>10
    DEF CleanerStarts, CleanerWaits, Clean, callVars, T!CloseWriteEnd, T!ReadEnds, T!BlockSignals,
        T!CleanerDies, T!Remove
<1>11. CASE Over \/ UNCHANGED vars
  BY <1>0, <1>11 DEF Over, vars, callVars, dirVars
<1> QED BY <1>1, <1>2, <1>3, <1>4, <1>5, <1>6, <1>7, <1>8, <1>9, <1>10, <1>11 DEF Next, Call, Compiler

-----------------------------------------------------------------------------
(* No complete header is written over. *)
HeadersStay == \A n \in R!Names : headers[n] # None => headers'[n] = headers[n]

LEMMA Fields ==
  ASSUME R!TypeOK, R!JobSet
  PROVE  /\ \A p \in procs : p.seen # None => p.seen.hdr \in R!Names /\ p.seen.key \in Keys
         /\ \A n \in R!Names : sources[n] # None => sources[n].hdr \in R!Names /\ sources[n].key \in Keys
         /\ pc \in R!Compiling => job.key \in Keys
         /\ pc = "source" => job.hdr \in R!Names
  BY DEF R!TypeOK, R!JobSet, R!Process, R!Source

LEMMA GoodStays ==
  ASSUME HeadersStay, NEW s, s.hdr \in R!Names, s.key \in Keys, Good(headers, s)
  PROVE  Good(headers', s)
<1>1. [file |-> FileOf[s.key], whole |-> TRUE] \in R!Header
  BY HostAssumption DEF R!KeysAssumption, R!Header
<1>2. [file |-> FileOf[s.key], whole |-> TRUE] # None
  BY <1>1, HostAssumption DEF R!NoneAssumption
<1> QED BY <1>2 DEF HeadersStay, Good

LEMMA CleanerDone ==
  ASSUME HostInv, [Next]_vars, cleaner' # "done"
  PROVE  cleaner # "done"
<1>1. [T!Next]_dirVars /\ (host = "piped" => cleaner = "none")
  BY DirSteps, DirFacts DEF HostInv
<1> QED
  BY <1>1 DEF T!Next, T!HostInit, T!MakeDir, T!Pipe, T!PipeFails, T!Fork, T!ForkFails, T!Return,
              T!StartChild, T!ChildEnds, T!HostEnds, T!CleanerDies, T!BlockSignals, T!CleanerStep,
              T!CloseWriteEnd, T!ReadEnds, T!Remove, T!Over, T!vars, dirVars

LEMMA ReadableNext ==
  ASSUME HostInv, [Next]_vars, HeadersStay,
         \A q \in procs' : q.st = "running" /\ q.seen # None =>
           Good(headers', q.seen) \/ \E p \in procs : p.st = "running" /\ p.seen = q.seen,
         \A n \in R!Names : sources'[n] \in {None, sources[n]} \/ Good(headers', sources'[n]),
         pc' = "source" => Good(headers', job') \/ (pc = "source" /\ job' = job)
  PROVE  Readable'
<1>0. R!TypeOK /\ R!JobSet /\ Readable
  BY DEF HostInv
<1>1. ASSUME NEW q \in procs', q.st = "running", q.seen # None
      PROVE  Good(headers', q.seen)
  <2>1. CASE \E p \in procs : p.st = "running" /\ p.seen = q.seen
    BY <1>0, <1>1, <2>1, Fields, GoodStays DEF Readable
  <2> QED BY <1>1, <2>1
<1>2. ASSUME cleaner' # "done", NEW n \in R!Names, sources'[n] # None
      PROVE  Good(headers', sources'[n])
  <2>1. CASE sources'[n] = sources[n]
    <3>1. Good(headers, sources[n]) /\ sources[n].hdr \in R!Names /\ sources[n].key \in Keys
      BY <1>0, <1>2, <2>1, CleanerDone, Fields DEF Readable
    <3>2. Good(headers', sources[n])
      BY <3>1, GoodStays
    <3> QED BY <2>1, <3>2
  <2> QED BY <1>2, <2>1
<1>3. ASSUME pc' = "source" PROVE Good(headers', job')
  <2>1. CASE pc = "source" /\ job' = job
    <3>1. Good(headers, job) /\ job.hdr \in R!Names /\ job.key \in Keys
      BY <1>0, <2>1, Fields DEF Readable, R!Compiling
    <3>2. Good(headers', job)
      BY <3>1, GoodStays
    <3> QED BY <2>1, <3>2
  <2> QED BY <1>3, <2>1
<1> QED BY <1>1, <1>2, <1>3 DEF Readable

(* A step that reads and writes no files, and starts no source. *)
LEMMA ReadableSame ==
  ASSUME HostInv, [Next]_vars, UNCHANGED headers, UNCHANGED sources,
         procs' \subseteq procs,
         pc' = "source" => pc = "source" /\ job' = job
  PROVE  Readable'
<1>1. HeadersStay
  BY DEF HeadersStay
<1> QED BY <1>1, ReadableNext

(* A step that finds or makes the header of the job. *)
LEMMA ReadableHeader ==
  ASSUME HostInv, [Next]_vars, HeadersStay, UNCHANGED sources, UNCHANGED procs,
         Good(headers', job')
  PROVE  Readable'
<1>1. \A q \in procs' : q.st = "running" /\ q.seen # None =>
        Good(headers', q.seen) \/ \E p \in procs : p.st = "running" /\ p.seen = q.seen
  OBVIOUS
<1>2. \A n \in R!Names : sources'[n] \in {None, sources[n]} \/ Good(headers', sources'[n])
  OBVIOUS
<1>3. pc' = "source" => Good(headers', job') \/ (pc = "source" /\ job' = job)
  OBVIOUS
<1> QED BY <1>1, <1>2, <1>3, ReadableNext, Zenon

LEMMA StepReadable ==
  ASSUME HostInv, [Next]_vars
  PROVE  Readable'
<1>0. R!TypeOK /\ R!JobSet
  BY DEF HostInv
<1>1. CASE User
  <2>1. UNCHANGED <<headers, sources, procs>> /\ pc' # "source"
    <3>1. CASE R!Leave \/ R!WaitFails
      BY <3>1 DEF R!Leave, R!WaitFails, R!fileVars
    <3>2. ASSUME NEW k \in Keys, R!Reject(k) \/ R!Hit(k) \/ R!Miss(k)
          PROVE  UNCHANGED <<headers, sources, procs>> /\ pc' # "source"
      BY <3>2 DEF R!Reject, R!Hit, R!Miss, R!MayCall, R!vars, R!fileVars
    <3> QED BY <1>1, <3>1, <3>2 DEF User, R!UserStep
  <2> QED BY <2>1, ReadableSame
<1>2. CASE Initialise \/ InitialiseFails \/ Initialised
  <2>1. UNCHANGED <<headers, sources, procs>> /\ pc' # "source"
    BY <1>2 DEF Initialise, InitialiseFails, Initialised, R!InitIo, R!InitIoFails, R!Throw,
                callVars, R!fileVars
  <2> QED BY <2>1, ReadableSame
<1>3. CASE R!ReuseHeader
  <2>1. /\ UNCHANGED <<headers, sources, procs>> /\ pc = "extract"
        /\ gch[FileOf[job.key]] # None /\ job' = [job EXCEPT !.hdr = gch[FileOf[job.key]]]
    BY <1>3 DEF R!ReuseHeader, R!fileVars
  <2>2. job \in R!Job /\ job.key \in Keys /\ FileOf[job.key] \in Files /\ host # "gone"
    BY <1>0, <2>1, HostAssumption, Fields
      DEF R!TypeOK, R!Compiling, R!KeysAssumption, HostInv, Tied
  <2>3. job'.hdr = gch[FileOf[job.key]] /\ job'.key = job.key
    BY <2>1, <2>2 DEF R!Job
  <2>4. R!HeaderComplete
    BY <2>2 DEF HostInv, R!IInv
  <2>5. Good(headers', job')
    BY <2>1, <2>2, <2>3, <2>4 DEF R!HeaderComplete, Good
  <2>6. HeadersStay
    BY <2>1 DEF HeadersStay
  <2>7. UNCHANGED <<sources, procs>>
    BY <2>1
  <2> QED BY <2>5, <2>6, <2>7, ReadableHeader
<1>4. ASSUME NEW f \in Files, R!ExtractHeader(f) PROVE Readable'
  <2>1. /\ UNCHANGED <<sources, procs>> /\ pc = "extract" /\ f = FileOf[job.key]
        /\ headers[next] = None /\ headers' = [headers EXCEPT ![next] = [file |-> f, whole |-> TRUE]]
        /\ job' = [job EXCEPT !.hdr = next]
    BY <1>4 DEF R!ExtractHeader, R!NewHeader
  <2>2. job \in R!Job /\ next \in R!Names /\ headers \in [R!Names -> R!Header \union {None}]
    BY <1>0 DEF R!TypeOK
  <2>3. job'.hdr = next /\ job'.key = job.key
    BY <2>1, <2>2 DEF R!Job
  <2>4. Good(headers', job')
    BY <2>1, <2>2, <2>3 DEF Good
  <2>5. HeadersStay
    BY <2>1, <2>2 DEF HeadersStay
  <2>6. UNCHANGED <<sources, procs>>
    BY <2>1
  <2> QED BY <2>4, <2>5, <2>6, ReadableHeader
<1>5. ASSUME NEW f \in Files, R!ExtractHeaderFails(f) PROVE Readable'
  <2>1. UNCHANGED <<sources, procs>> /\ pc' = "user"
    BY <1>5 DEF R!ExtractHeaderFails, R!Throw
  <2>2. HeadersStay
    BY <1>0, <1>5 DEF R!ExtractHeaderFails, HeadersStay, R!TypeOK
  <2> QED BY <2>1, <2>2, ReadableNext
<1>6. CASE R!WriteSource
  <2>1. /\ UNCHANGED <<headers, procs>> /\ pc = "source" /\ pc' = "fork"
    BY <1>6 DEF R!WriteSource
  <2>2. PICK form \in R!Forms :
          sources' = [sources EXCEPT ![next] = [key |-> job.key, hdr |-> job.hdr, form |-> form]]
    BY <1>6 DEF R!WriteSource
  <2>3. next \in R!Names /\ sources \in [R!Names -> R!Source \union {None}]
    BY <1>0 DEF R!TypeOK
  <2>4. Good(headers', [key |-> job.key, hdr |-> job.hdr, form |-> form])
    BY <2>1 DEF HostInv, Readable, Good
  <2>5. \A n \in R!Names : sources'[n] \in {None, sources[n]} \/ Good(headers', sources'[n])
    BY <2>2, <2>3, <2>4
  <2>6. HeadersStay
    BY <2>1 DEF HeadersStay
  <2> QED BY <2>1, <2>5, <2>6, ReadableNext
<1>7. CASE StartCompiler
  <2>1. /\ UNCHANGED <<headers, sources>> /\ pc' = "wait"
        /\ procs' = procs \union {[src |-> job.cxx, out |-> next, seen |-> None, st |-> "running"]}
    BY <1>7 DEF StartCompiler, R!Fork, R!fileVars
  <2>2. HeadersStay
    BY <2>1 DEF HeadersStay
  <2> QED BY <2>1, <2>2, ReadableNext
<1>8. CASE Finish
  <2>1. CASE R!RemoveSource
    <3>1. UNCHANGED <<headers, procs>> /\ pc' # "source"
          /\ \A n \in R!Names : sources'[n] \in {None, sources[n]}
      BY <1>0, <2>1 DEF R!RemoveSource, R!Throw, R!TypeOK
    <3>2. HeadersStay
      BY <3>1 DEF HeadersStay
    <3> QED BY <3>1, <3>2, ReadableNext
  <2>2. CASE R!ForkFails \/ R!Load \/ R!LoadFails \/ \E p \in procs : R!Reap(p)
    <3>1. UNCHANGED <<headers, sources>> /\ procs' \subseteq procs /\ pc' # "source"
      BY <2>2 DEF R!ForkFails, R!Load, R!LoadFails, R!Reap, R!Throw, R!fileVars
    <3> QED BY <3>1, ReadableSame
  <2> QED BY <1>8, <2>1, <2>2 DEF Finish
<1>9. CASE Crash \/ Ends
  <2>1. UNCHANGED <<headers, sources, procs>> /\ pc' = "dead"
    BY <1>9 DEF Crash, Ends, R!Abort, R!NoSourceFile, R!fileVars
  <2> QED BY <2>1, ReadableSame
<1>10. ASSUME NEW p \in procs, Reads(p) PROVE Readable'
  <2>1. /\ UNCHANGED <<headers, sources, pc, job>> /\ p.st = "running" /\ sources[p.src] # None
        /\ procs' = (procs \ {p}) \union {[p EXCEPT !.seen = sources[p.src]]}
    BY <1>10 DEF Reads, R!CompilerReads, R!Become, R!fileVars
  <2>2. p.src \in R!Names /\ p.out \in R!Names /\ p \in R!Process
    BY <1>0 DEF R!TypeOK, R!Process
  <2>3. cleaner # "done"
    BY <2>1, <2>2, DirFacts DEF HostInv, Tied
  <2>4. Good(headers', sources[p.src])
    BY <2>1, <2>2, <2>3 DEF HostInv, Readable
  <2>5. \A q \in procs' : q \in procs \/ q.seen = sources[p.src]
    BY <2>1, <2>2 DEF R!Process
  <2>6. HeadersStay
    BY <2>1 DEF HeadersStay
  <2> QED BY <2>1, <2>4, <2>5, <2>6, ReadableNext
<1>11. ASSUME NEW p \in procs, CompilerEnds(p) PROVE Readable'
  <2>1. UNCHANGED <<headers, sources, pc, job>>
    BY <1>11 DEF CompilerEnds, R!CompilerSucceeds, R!CompilerFails, R!fileVars
  <2>2. p \in R!Process
    BY <1>0 DEF R!TypeOK
  <2>3. \A q \in procs' : q \in procs \/ q.st # "running"
    BY <1>11, <2>2 DEF CompilerEnds, R!CompilerSucceeds, R!CompilerFails, R!Become, R!Process
  <2>4. HeadersStay
    BY <2>1 DEF HeadersStay
  <2> QED BY <2>1, <2>3, <2>4, ReadableNext
<1>12. CASE CleanerStarts \/ CleanerWaits \/ Over \/ UNCHANGED vars
  <2>1. UNCHANGED <<headers, sources, procs, pc, job>>
    BY <1>12 DEF CleanerStarts, CleanerWaits, Over, vars, callVars
  <2> QED BY <2>1, ReadableSame
<1>13. CASE Clean
  <2>1. cleaner' = "done" /\ pc' = "dead" /\ procs' = procs /\ \A c \in R!Names : child[c] # "compiler"
    BY <1>13, DirFacts DEF Clean, T!Remove, HostInv, Tied
  <2>2. \A p \in procs : p.st # "running"
    BY <1>0, <2>1, OutNames DEF HostInv, Tied
  <2> QED BY <2>1, <2>2 DEF Readable
<1> QED
  BY <1>1, <1>2, <1>3, <1>4, <1>5, <1>6, <1>7, <1>8, <1>9, <1>10, <1>11, <1>12, <1>13
    DEF Next, Call, Prepare, Compiler

-----------------------------------------------------------------------------
(* Where files are. *)
NoNewFile ==
  \A n \in R!Names : /\ headers[n] = None => headers'[n] = None
                     /\ sources[n] = None => sources'[n] = None
                     /\ objects[n] = None => objects'[n] = None

LEMMA OldFiles ==
  ASSUME HostInv, NoNewFile, ~ready' => ~ready, procs = {} => procs' = {},
         ready => UNCHANGED <<at, dir>>
  PROVE  Kept'
<1>1. (~ready => NoFile /\ procs = {}) /\ FilesInDirectory
  BY DEF HostInv, Kept
<1>2. NoFile => NoFile'
  BY DEF NoFile, NoNewFile
<1>3. ASSUME NEW n \in R!Names, {headers'[n], sources'[n], objects'[n]} # {None}
      PROVE  at' > 0 /\ dir'[at'] # "gone"
  <2>1. {headers[n], sources[n], objects[n]} # {None}
    BY <1>3 DEF NoNewFile
  <2>2. ready /\ at > 0 /\ dir[at] # "gone"
    BY <1>1, <2>1 DEF NoFile, FilesInDirectory
  <2> QED BY <2>2
<1> QED BY <1>1, <1>2, <1>3 DEF Kept, FilesInDirectory

LEMMA NewFiles ==
  ASSUME ready', UNCHANGED <<at, dir>>, at > 0, dir[at] # "gone"
  PROVE  Kept'
  BY DEF Kept, FilesInDirectory

LEMMA StepKept ==
  ASSUME HostInv, [Next]_vars
  PROVE  Kept'
<1>0. Tied /\ R!TypeOK /\ T!DirInv
  BY DEF HostInv
<1>1. CASE User
  <2>1. UNCHANGED <<headers, sources, objects, ready, procs>>
    <3>1. CASE R!Leave \/ R!WaitFails
      BY <3>1 DEF R!Leave, R!WaitFails, R!fileVars, R!ioVars
    <3>2. ASSUME NEW k \in Keys, R!Reject(k) \/ R!Hit(k) \/ R!Miss(k)
          PROVE  UNCHANGED <<headers, sources, objects, ready, procs>>
      BY <3>2 DEF R!Reject, R!Hit, R!Miss, R!MayCall, R!vars, R!fileVars, R!ioVars
    <3> QED BY <1>1, <3>1, <3>2 DEF User, R!UserStep
  <2>2. NoNewFile
    BY <2>1 DEF NoNewFile
  <2>3. UNCHANGED <<at, dir>>
    BY <1>1 DEF User, dirVars
  <2> QED BY <2>1, <2>2, <2>3, OldFiles
<1>2. CASE Initialise \/ InitialiseFails \/ Initialised
  <2>1. UNCHANGED <<headers, sources, objects, procs>> /\ (~ready' => ~ready)
    BY <1>2 DEF Initialise, InitialiseFails, Initialised, R!InitIo, R!InitIoFails, R!Throw,
                callVars, R!fileVars
  <2>2. NoNewFile
    BY <2>1 DEF NoNewFile
  <2>3. ready => UNCHANGED <<at, dir>>
    BY <1>2 DEF Initialise, InitialiseFails, Initialised, R!InitIoFails, dirVars
  <2> QED BY <2>1, <2>2, <2>3, OldFiles
<1>3. CASE Prepare
  <2>1. pc \in {"extract", "source"} /\ UNCHANGED <<ready, at, dir>>
    BY <1>3 DEF Prepare, R!ReuseHeader, R!WriteSource, R!ExtractHeader, R!ExtractHeaderFails,
                R!NewHeader, R!Throw, dirVars, R!ioVars
  <2>2. ready /\ at > 0 /\ dir[at] # "gone"
    BY <1>0, <2>1, DirFacts DEF Tied
  <2> QED BY <2>1, <2>2, NewFiles
<1>4. CASE StartCompiler
  <2>1. pc = "fork" /\ UNCHANGED <<ready, at, dir>>
    BY <1>4 DEF StartCompiler, R!Fork, T!StartChild
  <2>2. ready /\ at > 0 /\ dir[at] # "gone"
    BY <1>0, <2>1, DirFacts DEF Tied
  <2> QED BY <2>1, <2>2, NewFiles
<1>5. CASE Finish
  <2>1. pc \in {"fork", "wait", "remove", "load"} /\ UNCHANGED <<ready, at, dir>>
    BY <1>5 DEF Finish, R!ForkFails, R!RemoveSource, R!Load, R!LoadFails, R!Reap, R!Throw, dirVars,
                R!ioVars
  <2>2. ready /\ at > 0 /\ dir[at] # "gone"
    BY <1>0, <2>1, DirFacts DEF Tied
  <2> QED BY <2>1, <2>2, NewFiles
<1>6. CASE Crash \/ Ends
  <2>1. UNCHANGED <<headers, sources, objects, ready, procs, at, dir>>
    BY <1>6 DEF Crash, Ends, R!Abort, R!NoSourceFile, T!HostEnds, R!fileVars, R!ioVars
  <2>2. NoNewFile
    BY <2>1 DEF NoNewFile
  <2> QED BY <2>1, <2>2, OldFiles
<1>7. ASSUME NEW p \in procs, Compiler(p) PROVE Kept'
  <2>1. p.st = "running" /\ UNCHANGED <<ready, at, dir>>
    BY <1>7 DEF Compiler, Reads, CompilerEnds, R!CompilerReads, R!CompilerSucceeds, R!CompilerFails,
                T!ChildEnds, dirVars, R!ioVars
  <2>2. p.out \in R!Names /\ child[p.out] = "compiler" /\ ready
    BY <1>0, <1>7, <2>1, OutNames DEF Tied, HostInv, Kept
  <2>3. at > 0 /\ dir[at] # "gone"
    BY <1>0, <2>2, DirFacts
  <2> QED BY <2>1, <2>2, <2>3, NewFiles
<1>8. CASE CleanerStarts \/ CleanerWaits \/ Over \/ UNCHANGED vars
  <2>1. UNCHANGED <<headers, sources, objects, ready, procs, at, dir>>
    BY <1>8 DEF CleanerStarts, CleanerWaits, T!BlockSignals, T!CleanerDies, T!CloseWriteEnd, T!ReadEnds,
                Over, vars, callVars, dirVars
  <2>2. NoNewFile
    BY <2>1 DEF NoNewFile
  <2> QED BY <2>1, <2>2, OldFiles
<1>9. CASE Clean
  <2>1. UNCHANGED <<ready, procs, at>> /\ at > 0 /\ cleaner = "removing"
    BY <1>0, <1>9, HostAssumption
      DEF Clean, T!Remove, T!DirInv, T!Cleaning, T!Attempts, T!AttemptsAssumption
  <2>2. NoNewFile
    BY <1>9 DEF Clean, Taken, NoNewFile
  <2>3. (~ready => NoFile /\ procs = {}) /\ (NoFile => NoFile')
    BY <2>2 DEF HostInv, Kept, NoFile, NoNewFile
  <2>4. CASE dir'[at] = "gone"
    <3>1. NoFile'
      BY <1>9, <2>4 DEF Clean, Taken, NoFile
    <3> QED BY <2>1, <2>3, <3>1 DEF Kept, FilesInDirectory, NoFile
  <2>5. CASE dir'[at] # "gone"
    BY <2>1, <2>3, <2>5 DEF Kept, FilesInDirectory
  <2> QED BY <2>4, <2>5
<1> QED
  BY <1>1, <1>2, <1>3, <1>4, <1>5, <1>6, <1>7, <1>8, <1>9 DEF Next, Call

-----------------------------------------------------------------------------
LEMMA StepHost == HostInv /\ [Next]_vars => HostInv'
  BY StepParts, StepTied, StepReadable, StepKept DEF HostInv

LEMMA Invariance == Safety => []HostInv
  BY InitHost, StepHost, PTL DEF Safety

(* The directory lives as TmpDir says, with the steps of the calls in      *)
(* between: what is proved of TmpDir, that no directory goes while         *)
(* somebody works in it, holds of the whole (io.c:29-91).                  *)
THEOREM DirectoryAsSpecified == Safety => T!Safety /\ []T!InUseIsThere
<1>1. HostInv /\ [Next]_vars => [T!Next]_T!vars
  BY DirSteps DEF HostInv, dirVars, T!vars
<1>2. HostInv => T!InUseIsThere
  BY DEF HostInv, T!DirInv, T!Holding, T!InUseIsThere
<1>3. Init => T!Init
  BY DEF Init
<1> QED BY Invariance, <1>1, <1>2, <1>3, PTL DEF Safety, T!Safety

(* The cleaner takes no file from a compiler that reads it or from a host  *)
(* that has recorded it, also after crashes between any two steps of a     *)
(* call (io.c:62-68, 84, 132-133, 231).                                    *)
THEOREM FilesStay == Safety => []NothingTakenAway
<1>1. HostInv => NothingTakenAway
  BY DEF HostInv, Readable, Good, NothingTakenAway, R!IInv
<1> QED BY <1>1, Invariance, PTL

(* Files are only where there is a directory that is not removed, and none *)
(* come back after it is: not from orphans, not from a second attempt at   *)
(* the initialisation (io.c:29-91).                                        *)
THEOREM FilesOnlyThere == Safety => []FilesInDirectory
<1>1. HostInv => FilesInDirectory
  BY DEF HostInv, Kept
<1> QED BY <1>1, Invariance, PTL

-----------------------------------------------------------------------------
(* The end of the host, and what goes on after it, change nothing the      *)
(* program sees of its calls.                                              *)
LEMMA EndIsStutter ==
  ASSUME HostInv, [Next]_vars, host' = "gone"
  PROVE  UNCHANGED <<cached, entry, stack, job, libs>>
<1>0. Tied /\ (host = "gone" <=> pc = "dead")
  BY DEF HostInv, Tied
<1>1. CASE User
  BY <1>0, <1>1
    DEF User, dirVars, R!UserStep, R!Leave, R!WaitFails, R!Reject, R!Hit, R!Miss, R!MayCall
<1>2. CASE Initialise \/ InitialiseFails \/ Initialised
  BY <1>0, <1>2
    DEF Initialise, InitialiseFails, Initialised, callVars, dirVars, R!InitIo, R!InitIoFails,
        T!MakeDir, T!Pipe, T!Fork, T!PipeFails, T!ForkFails, T!Return
<1>3. CASE Prepare
  BY <1>0, <1>3
    DEF Prepare, dirVars, R!ReuseHeader, R!WriteSource, R!ExtractHeader, R!ExtractHeaderFails,
        R!NewHeader
<1>4. CASE StartCompiler \/ Finish
  BY <1>0, <1>4
    DEF StartCompiler, Finish, dirVars, R!Fork, T!StartChild, R!ForkFails, R!RemoveSource, R!Load,
        R!LoadFails, R!Reap
<1>5. CASE Crash
  BY <1>5 DEF Crash, R!Abort, R!NoSourceFile, R!cacheVars
<1>6. CASE Ends \/ Clean
  BY <1>6 DEF Ends, Clean
<1>7. ASSUME NEW p \in procs, Compiler(p) PROVE UNCHANGED <<cached, entry, stack, job, libs>>
  BY <1>7 DEF Compiler, Reads, CompilerEnds, R!CompilerReads, R!CompilerSucceeds, R!CompilerFails,
              R!cacheVars
<1>8. CASE CleanerStarts \/ CleanerWaits \/ Over \/ UNCHANGED vars
  BY <1>8 DEF CleanerStarts, CleanerWaits, Over, vars, callVars
<1> QED BY <1>1, <1>2, <1>3, <1>4, <1>5, <1>6, <1>7, <1>8 DEF Next, Call

LEMMA StepPromised ==
  ASSUME HostInv, [Next]_vars
  PROVE  [R!Memo!Next]_(R!Memo!memoVars)
<1>1. CASE host' = "gone"
  <2>1. UNCHANGED <<cached, entry, stack, job, libs>>
    BY <1>1, EndIsStutter
  <2>2. UNCHANGED R!Memo!memoVars
    BY <2>1 DEF R!Memo!memoVars, R!CompiledKeys, R!Bodies
  <2> QED BY <2>2
<1>2. CASE host' # "gone"
  <2>1. R!IInv /\ R!IInv'
    BY <1>2, StepParts DEF HostInv
  <2>2. ~Ends /\ ~Clean
    BY <1>2, DirFacts DEF HostInv, Ends, Clean, T!HostEnds, T!Remove
  <2> QED BY <2>1, <2>2, CallSteps, MemoParts
<1> QED BY <1>1, <1>2

(* What Runtime is proved to promise about calls holds of the whole: with  *)
(* the directory made step by step inside the first call, with a host that *)
(* ends anywhere, and with files that are taken away (call.cpp:106-141,    *)
(* io.c:29-91).                                                            *)
THEOREM CallsAsPromised == Safety => R!Promise
<1>1. Init => R!Memo!Init
  BY MemoParts DEF Init
<1> QED BY <1>1, Invariance, StepPromised, PTL DEF Safety, R!Promise, R!Memo!MemoSpec
=============================================================================
