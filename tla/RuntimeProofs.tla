--------------------------- MODULE RuntimeProofs ----------------------------
(***************************************************************************)
(* Proofs about Runtime, for every set of keys and files, every assignment *)
(* of keys to files, every length of the name counter and every depth of   *)
(* nested guest calls.                                                     *)
(***************************************************************************)
EXTENDS Runtime, SequenceTheorems, TLAPS

LEMMA InitType == Init => TypeOK /\ JobSet
<1> SUFFICES ASSUME Init PROVE TypeOK /\ JobSet
  OBVIOUS
<1>1. <<>> \in Seq(Frame) /\ NoJob \in Job /\ 0 \in Names
  BY LimitAssumption DEF NoJob, NewJob, Job, Names
<1> QED BY <1>1 DEF Init, TypeOK, JobSet, Compiling

(* Dropping a frame, or calling, leaves a stack of frames. *)
LEMMA StackType ==
  ASSUME stack \in Seq(Frame), NEW fr \in Frame
  PROVE  /\ Append(stack, fr) \in Seq(Frame)
         /\ stack # <<>> => SubSeq(stack, 1, Len(stack) - 1) \in Seq(Frame)
  OBVIOUS

(* A call that throws leaves a well-typed cache and no job. *)
LEMMA ThrowType ==
  ASSUME TypeOK, JobSet, pc \in Compiling, Throw
  PROVE  /\ cached' \subseteq Keys
         /\ entry' \in [Keys -> Names \union {None}]
         /\ pc' = "user"
         /\ job' \in Job /\ job' = NoJob
  BY DEF TypeOK, JobSet, Throw, Erase, NewJob, NoJob, Job

LEMMA UserType ==
  ASSUME TypeOK, JobSet, UserStep
  PROVE  TypeOK' /\ JobSet'
<1> USE DEF TypeOK, JobSet
<1>1. CASE Leave
  <2>1. stack' \in Seq(Frame)
    BY <1>1, StackType DEF Leave
  <2> QED BY <1>1, <2>1 DEF Leave, cacheVars, ioVars, fileVars
<1>2. ASSUME NEW k \in Keys, Reject(k) PROVE TypeOK' /\ JobSet'
  BY <1>2 DEF Reject, vars
<1>3. ASSUME NEW k \in Keys, Hit(k) PROVE TypeOK' /\ JobSet'
  <2>1. [key |-> k, fn |-> entry[k]] \in Frame
    BY DEF Frame
  <2>2. stack' \in Seq(Frame)
    BY <1>3, <2>1, StackType DEF Hit
  <2> QED BY <1>3, <2>2 DEF Hit, cacheVars, ioVars, fileVars
<1>4. ASSUME NEW k \in Keys, Miss(k) PROVE TypeOK' /\ JobSet'
  BY <1>4 DEF Miss, NewJob, Job, Compiling, ioVars, fileVars
<1> QED BY <1>1, <1>2, <1>3, <1>4 DEF UserStep

LEMMA PrepareType ==
  ASSUME TypeOK, JobSet, PrepareStep
  PROVE  TypeOK' /\ JobSet'
<1> USE DEF TypeOK, JobSet
<1>0. ~Exhausted => next + 1 \in Names
  BY LimitAssumption DEF Exhausted, Names
<1>1. CASE InitIo
  BY <1>1 DEF InitIo, Compiling, cacheVars, fileVars
<1>2. CASE InitIoFails
  BY <1>2, ThrowType DEF InitIoFails, Compiling, ioVars, fileVars
<1>3. CASE ReuseHeader
  BY <1>3, KeysAssumption
    DEF ReuseHeader, Compiling, Job, cacheVars, ioVars, fileVars
<1>4. ASSUME NEW f \in Files, ExtractHeader(f) PROVE TypeOK' /\ JobSet'
  <2>1. [file |-> f, whole |-> TRUE] \in Header
    BY DEF Header
  <2>2. headers' \in [Names -> Header \union {None}]
    BY <1>4, <2>1 DEF ExtractHeader
  <2>3. job' \in Job /\ job'.key = job.key
    BY <1>4 DEF ExtractHeader, Job
  <2> QED
    BY <1>0, <1>4, <2>2, <2>3
      DEF ExtractHeader, NewHeader, Inc, Compiling, cacheVars
<1>5. ASSUME NEW f \in Files, ExtractHeaderFails(f) PROVE TypeOK' /\ JobSet'
  <2>1. [file |-> f, whole |-> FALSE] \in Header
    BY DEF Header
  <2>2. headers' \in [Names -> Header \union {None}]
    BY <1>5, <2>1 DEF ExtractHeaderFails
  <2> QED
    BY <1>0, <1>5, <2>2, ThrowType
      DEF ExtractHeaderFails, NewHeader, PathAfterFailure, Inc, Compiling
<1>6. CASE WriteSource
  <2>1. PICK form \in Forms :
          sources' = [sources EXCEPT ![next] =
                        [key |-> job.key, hdr |-> job.hdr, form |-> form]]
    BY <1>6 DEF WriteSource
  <2>2. [key |-> job.key, hdr |-> job.hdr, form |-> form] \in Source
    BY <1>6 DEF WriteSource, Source, Compiling
  <2> QED
    BY <1>0, <1>6, <2>1, <2>2 DEF WriteSource, Inc, Compiling, Job, cacheVars
<1>7. CASE NoSourceFile
  BY <1>0, <1>7 DEF NoSourceFile, Inc, Compiling, cacheVars, fileVars
<1> QED
  BY <1>1, <1>2, <1>3, <1>4, <1>5, <1>6, <1>7 DEF PrepareStep

LEMMA BuildType ==
  ASSUME TypeOK, JobSet, BuildStep
  PROVE  TypeOK' /\ JobSet'
<1> USE DEF TypeOK, JobSet
<1>0. ~Exhausted => next + 1 \in Names
  BY LimitAssumption DEF Exhausted, Names
<1>1. CASE Fork
  <2>1. [src |-> job.cxx, out |-> next, seen |-> None, st |-> "running"]
          \in Process
    BY <1>1 DEF Fork, Process
  <2>2. job' \in Job /\ job'.key = job.key
    BY <1>1 DEF Fork, Job
  <2> QED
    BY <1>0, <1>1, <2>1, <2>2 DEF Fork, Inc, Compiling, Job, cacheVars, fileVars
<1>2. CASE ForkFails
  BY <1>0, <1>2 DEF ForkFails, Inc, Compiling, Job, cacheVars, fileVars
<1>3. ASSUME NEW p \in procs, Reap(p) PROVE TypeOK' /\ JobSet'
  BY <1>3 DEF Reap, Compiling, Job, cacheVars, ioVars, fileVars
<1>4. CASE RemoveSource
  <2>1. sources' \in [Names -> Source \union {None}]
    BY <1>4 DEF RemoveSource
  <2>2. CASE job.ok
    BY <1>4, <2>1, <2>2 DEF RemoveSource, Compiling, cacheVars, ioVars
  <2>3. CASE ~job.ok
    BY <1>4, <2>1, <2>3, ThrowType DEF RemoveSource, Compiling, ioVars
  <2> QED BY <2>2, <2>3
<1>5. RemoveObject => objects' \in [Names -> Object \union {None}]
  BY DEF RemoveObject
<1>6. CASE Load
  <2>1. Opened \in Object
    BY <1>6 DEF Load, Opened
  <2>2. [key |-> job.key, fn |-> job.so] \in Frame
    BY <1>6 DEF Load, Frame, Compiling
  <2>3. stack' \in Seq(Frame)
    BY <1>6, <2>2, StackType DEF Load
  <2>4. entry' \in [Keys -> Names \union {None}] /\ NoJob \in Job
    BY <1>6 DEF Load, NoJob, NewJob, Job
  <2> QED BY <1>5, <1>6, <2>1, <2>3, <2>4 DEF Load, Compiling, ioVars
<1>7. CASE LoadFails
  BY <1>5, <1>7, ThrowType DEF LoadFails, Compiling, ioVars
<1> QED BY <1>1, <1>2, <1>3, <1>4, <1>6, <1>7 DEF BuildStep

LEMMA CompilerType ==
  ASSUME TypeOK, JobSet, NEW p \in procs, Compiler(p)
  PROVE  TypeOK' /\ JobSet'
<1> USE DEF TypeOK, JobSet, Process
<1>1. CASE CompilerReads(p)
  BY <1>1 DEF CompilerReads, Become, cacheVars, ioVars, fileVars
<1>2. CASE CompilerSucceeds(p)
  <2>1. [key |-> p.seen.key, entry |-> (p.seen.form = "whole")] \in Object
    BY <1>2 DEF CompilerSucceeds, Source, Object
  <2> QED BY <1>2, <2>1 DEF CompilerSucceeds, Become, cacheVars, ioVars
<1>3. CASE CompilerFails(p)
  BY <1>3 DEF CompilerFails, Become, cacheVars, ioVars, fileVars
<1> QED BY <1>1, <1>2, <1>3 DEF Compiler

LEMMA TypeStep == TypeOK /\ JobSet /\ [Next]_vars => TypeOK' /\ JobSet'
<1> SUFFICES ASSUME TypeOK, JobSet, [Next]_vars PROVE TypeOK' /\ JobSet'
  OBVIOUS
<1>1. CASE UNCHANGED vars
  BY <1>1 DEF TypeOK, JobSet, vars
<1>2. CASE Abort
  BY <1>2 DEF Abort, TypeOK, JobSet, Compiling, cacheVars, ioVars, fileVars
<1>3. CASE WaitFails
  BY <1>3 DEF WaitFails, TypeOK, JobSet, Compiling, cacheVars, ioVars, fileVars
<1>4. CASE Dead
  BY <1>1, <1>4 DEF Dead
<1> QED
  BY <1>1, <1>2, <1>3, <1>4, UserType, PrepareType, BuildType, CompilerType
    DEF Next, HostStep

(* Every behaviour of the host, its compilers and its program is well      *)
(* typed: no name lies beyond the counter's range, and no local of compile *)
(* is used before it is set.                                               *)
THEOREM TypeCorrect == Safety => []TypeOK
  BY InitType, TypeStep, PTL DEF Safety


-----------------------------------------------------------------------------
(* The inductive invariant of Runtime, one lemma for each kind of step. *)

LEMMA InitInv == Init => IInv
<1> SUFFICES ASSUME Init PROVE IInv
  OBVIOUS
<1>1. TypeOK /\ JobSet
  BY InitType
<1>2. job.ok = FALSE /\ pc = "user"
  BY DEF Init, NoJob, NewJob
<1>3. NamesFresh /\ NullEntry /\ JobFiles
  BY <1>2, LimitAssumption DEF Init, NamesFresh, NullEntry, JobFiles, Names, Compiling
<1>4. JobCompiler /\ CompilersApart /\ JobOk /\ LoadsFinishedObject
  BY <1>2 DEF Init, JobCompiler, CompilersApart, JobOk, LoadsFinishedObject
<1>5. RunsOwnCode /\ HeaderComplete
  BY DEF Init, RunsOwnCode, HeaderComplete
<1> QED BY <1>1, <1>3, <1>4, <1>5 DEF IInv

(* While the host is in the program there is no job to speak of. *)
LEMMA NoJobInv ==
  ASSUME pc = "user", job = NoJob
  PROVE  JobFiles /\ JobCompiler /\ JobOk /\ LoadsFinishedObject
  BY DEF JobFiles, JobCompiler, JobOk, LoadsFinishedObject, NoJob, NewJob

(* A throwing call takes its own null entry away and no other. *)
LEMMA ThrowInv ==
  ASSUME IInv, pc \in Compiling, Throw, UNCHANGED <<stack, libs>>
  PROVE  NullEntry' /\ RunsOwnCode'
<1>1. job' = NoJob /\ pc' = "user"
  BY DEF Throw
<1>2. NullEntry'
  BY <1>1, NoneAssumption
    DEF IInv, TypeOK, NullEntry, Throw, Erase, Compiling, NoJob, NewJob
<1>3. RunsOwnCode'
  BY DEF IInv, TypeOK, RunsOwnCode, IsCodeOf, Throw, Erase
<1> QED BY <1>2, <1>3

LEMMA UserInv ==
  ASSUME IInv, UserStep
  PROVE  IInv'
<1>0. TypeOK' /\ JobSet'
  BY UserType DEF IInv
<1>1. CASE Leave
  <2>1. RunsOwnCode'
    <3>1. \A i \in DOMAIN stack' : i \in DOMAIN stack /\ stack'[i] = stack[i]
      BY <1>1 DEF Leave, IInv, TypeOK
    <3> QED BY <1>1, <3>1 DEF Leave, IInv, RunsOwnCode, IsCodeOf, cacheVars
  <2> QED
    BY <1>0, <1>1, <2>1
      DEF Leave, IInv, NamesFresh, NullEntry, JobFiles, JobCompiler,
          CompilersApart, JobOk, LoadsFinishedObject, HeaderComplete,
          cacheVars, ioVars, fileVars
<1>2. ASSUME NEW k \in Keys, Reject(k) PROVE IInv'
  BY <1>0, <1>2
    DEF Reject, vars, IInv, NamesFresh, NullEntry, JobFiles, JobCompiler,
        CompilersApart, JobOk, LoadsFinishedObject, HeaderComplete,
        RunsOwnCode, IsCodeOf
<1>3. ASSUME NEW k \in Keys, Hit(k) PROVE IInv'
  <2>1. IsCodeOf(entry[k], k)
    <3>1. job.key = None
      BY <1>3 DEF Hit, MayCall, IInv, JobSet, NoJob, NewJob
    <3> QED
      BY <1>3, <3>1, NoneAssumption DEF Hit, IInv, NullEntry, RunsOwnCode
  <2>2. \A i \in DOMAIN stack' : \/ i \in DOMAIN stack /\ stack'[i] = stack[i]
                                 \/ stack'[i] = [key |-> k, fn |-> entry[k]]
    BY <1>3 DEF Hit, IInv, TypeOK
  <2>3. RunsOwnCode'
    BY <1>3, <2>1, <2>2 DEF Hit, IInv, RunsOwnCode, IsCodeOf, cacheVars
  <2> QED
    BY <1>0, <1>3, <2>3
      DEF Hit, IInv, NamesFresh, NullEntry, JobFiles, JobCompiler,
          CompilersApart, JobOk, LoadsFinishedObject, HeaderComplete,
          cacheVars, ioVars, fileVars
<1>4. ASSUME NEW k \in Keys, Miss(k) PROVE IInv'
  <2>1. pc = "user" /\ job.key = None
    BY <1>4 DEF Miss, MayCall, IInv, JobSet, NoJob, NewJob
  <2>2. pc' = "init" /\ job'.key = k /\ job'.ok = FALSE
    BY <1>4 DEF Miss, NewJob
  <2>3. NullEntry'
    BY <1>4, <2>1, <2>2, NoneAssumption DEF Miss, IInv, TypeOK, NullEntry
  <2>4. RunsOwnCode'
    BY <1>4 DEF Miss, IInv, TypeOK, RunsOwnCode, IsCodeOf
  <2>5. NamesFresh' /\ HeaderComplete' /\ CompilersApart'
    BY <1>4, <2>2
      DEF Miss, IInv, NamesFresh, HeaderComplete, CompilersApart, ioVars, fileVars
  <2>6. JobFiles' /\ JobCompiler' /\ JobOk' /\ LoadsFinishedObject'
    BY <2>2 DEF JobFiles, JobCompiler, JobOk, LoadsFinishedObject
  <2> QED BY <1>0, <2>3, <2>4, <2>5, <2>6 DEF IInv
<1> QED BY <1>1, <1>2, <1>3, <1>4 DEF UserStep

LEMMA PrepareInv ==
  ASSUME IInv, PrepareStep
  PROVE  IInv'
<1>0. TypeOK' /\ JobSet'
  BY PrepareType DEF IInv
<1>1. CASE InitIo
  <2>1. NamesFresh' /\ NullEntry' /\ JobFiles' /\ JobCompiler'
    BY <1>1
      DEF InitIo, IInv, NamesFresh, NullEntry, JobFiles, JobCompiler,
          Compiling, cacheVars, fileVars
  <2>2. CompilersApart' /\ JobOk' /\ LoadsFinishedObject'
    BY <1>1 DEF InitIo, IInv, CompilersApart, JobOk, LoadsFinishedObject, fileVars
  <2>3. RunsOwnCode' /\ HeaderComplete'
    BY <1>1 DEF InitIo, IInv, RunsOwnCode, IsCodeOf, HeaderComplete,
                cacheVars, fileVars
  <2> QED BY <1>0, <2>1, <2>2, <2>3 DEF IInv
<1>2. CASE InitIoFails
  <2>1. job' = NoJob /\ pc' = "user"
    BY <1>2 DEF InitIoFails, Throw
  <2>2. NullEntry' /\ RunsOwnCode'
    BY <1>2, ThrowInv DEF InitIoFails, Compiling
  <2>3. NamesFresh' /\ CompilersApart' /\ HeaderComplete'
    BY <1>2, <2>1 DEF InitIoFails, IInv, NamesFresh, CompilersApart,
                      HeaderComplete, ioVars, fileVars
  <2>4. JobFiles' /\ JobCompiler' /\ JobOk' /\ LoadsFinishedObject'
    BY <2>1 DEF JobFiles, JobCompiler, JobOk, LoadsFinishedObject, NoJob, NewJob
  <2> QED BY <1>0, <2>2, <2>3, <2>4 DEF IInv
<1>3. CASE ReuseHeader
  <2>1. job'.key = job.key /\ job'.ok = job.ok /\ job.ok = FALSE
    BY <1>3 DEF ReuseHeader, IInv, TypeOK, Job, JobOk
  <2>2. pc = "extract" /\ pc' = "source"
    BY <1>3 DEF ReuseHeader
  <2>3. NullEntry' /\ RunsOwnCode'
    BY <1>3, <2>1, <2>2 DEF ReuseHeader, IInv, NullEntry, RunsOwnCode, IsCodeOf,
                            Compiling, cacheVars
  <2>4. NamesFresh' /\ CompilersApart' /\ HeaderComplete'
    BY <1>3, <2>2 DEF ReuseHeader, IInv, NamesFresh, CompilersApart,
                      HeaderComplete, ioVars, fileVars
  <2>5. JobFiles' /\ JobCompiler' /\ JobOk' /\ LoadsFinishedObject'
    BY <2>1, <2>2 DEF JobFiles, JobCompiler, JobOk, LoadsFinishedObject
  <2> QED BY <1>0, <2>3, <2>4, <2>5 DEF IInv
<1>4. ASSUME NEW f \in Files, ExtractHeader(f) PROVE IInv'
  <2>1. job'.key = job.key /\ job'.ok = job.ok /\ job.ok = FALSE
    BY <1>4 DEF ExtractHeader, NewHeader, IInv, TypeOK, Job, JobOk
  <2>2. pc = "extract" /\ pc' = "source"
    BY <1>4 DEF ExtractHeader, NewHeader
  <2>3. next' = next + 1 /\ next \in Nat
    BY <1>4 DEF ExtractHeader, Inc, IInv, TypeOK, Names
  <2>4. NullEntry' /\ RunsOwnCode'
    BY <1>4, <2>1, <2>2 DEF ExtractHeader, IInv, NullEntry, RunsOwnCode, IsCodeOf,
                            Compiling, cacheVars
  <2>5. NamesFresh'
    <3>1. \A g \in Files : gch'[g] # None => gch'[g] < next'
      BY <1>4, <2>3 DEF ExtractHeader, IInv, TypeOK, NamesFresh, Names
    <3> QED
      BY <1>4, <2>2, <2>3, <3>1
        DEF ExtractHeader, IInv, TypeOK, NamesFresh, Names, Process
  <2>6. HeaderComplete'
    <3> SUFFICES ASSUME NEW g \in Files, gch'[g] # None
                 PROVE  headers'[gch'[g]] = [file |-> g, whole |-> TRUE]
      BY DEF HeaderComplete
    <3>1. CASE g = f
      <4>1. gch'[g] = next /\ next \in Names
        BY <1>4, <3>1 DEF ExtractHeader, IInv, TypeOK
      <4> QED BY <1>4, <3>1, <4>1 DEF ExtractHeader, IInv, TypeOK
    <3>2. CASE g # f
      <4>1. gch'[g] = gch[g] /\ gch[g] \in Names /\ gch[g] # next
        BY <1>4, <2>3, <3>2 DEF ExtractHeader, IInv, TypeOK, NamesFresh, Names
      <4>2. headers'[gch[g]] = headers[gch[g]]
        BY <1>4, <4>1 DEF ExtractHeader, IInv, TypeOK
      <4> QED BY <4>1, <4>2 DEF IInv, HeaderComplete
    <3> QED BY <3>1, <3>2
  <2>7. CompilersApart' /\ JobFiles' /\ JobCompiler' /\ JobOk' /\ LoadsFinishedObject'
    BY <1>4, <2>1, <2>2 DEF ExtractHeader, IInv, CompilersApart, JobFiles,
                            JobCompiler, JobOk, LoadsFinishedObject
  <2> QED BY <1>0, <2>4, <2>5, <2>6, <2>7 DEF IInv
<1>5. ASSUME NEW f \in Files, ExtractHeaderFails(f) PROVE IInv'
  <2>1. job' = NoJob /\ pc' = "user"
    BY <1>5 DEF ExtractHeaderFails, Throw
  <2>2. next' = next + 1 /\ next \in Nat
    BY <1>5 DEF ExtractHeaderFails, Inc, IInv, TypeOK, Names
  <2>3. NullEntry' /\ RunsOwnCode'
    BY <1>5, ThrowInv DEF ExtractHeaderFails, NewHeader, Compiling
  <2>4. NamesFresh'
    BY <1>5, <2>1, <2>2
      DEF ExtractHeaderFails, PathAfterFailure, IInv, TypeOK, NamesFresh, Names, Process
  <2>5. HeaderComplete'
    <3> SUFFICES ASSUME NEW g \in Files, gch'[g] # None
                 PROVE  headers'[gch'[g]] = [file |-> g, whole |-> TRUE]
      BY DEF HeaderComplete
    <3>1. gch'[g] = gch[g] /\ gch[g] \in Names /\ gch[g] # next
      BY <1>5, <2>2 DEF ExtractHeaderFails, PathAfterFailure, IInv, TypeOK,
                        NamesFresh, Names
    <3>2. headers'[gch[g]] = headers[gch[g]]
      BY <1>5, <3>1 DEF ExtractHeaderFails, IInv, TypeOK
    <3> QED BY <3>1, <3>2 DEF IInv, HeaderComplete
  <2>6. CompilersApart'
    BY <1>5 DEF ExtractHeaderFails, IInv, CompilersApart
  <2>7. JobFiles' /\ JobCompiler' /\ JobOk' /\ LoadsFinishedObject'
    BY <2>1 DEF JobFiles, JobCompiler, JobOk, LoadsFinishedObject, NoJob, NewJob
  <2> QED BY <1>0, <2>3, <2>4, <2>5, <2>6, <2>7 DEF IInv
<1>6. CASE WriteSource
  <2>1. job'.key = job.key /\ job'.cxx = next /\ job'.ok = FALSE
    BY <1>6 DEF WriteSource, IInv, TypeOK, Job, JobOk
  <2>2. pc = "source" /\ pc' = "fork"
    BY <1>6 DEF WriteSource
  <2>3. next' = next + 1 /\ next \in Nat /\ next \in Names
    BY <1>6 DEF WriteSource, Inc, IInv, TypeOK, Names
  <2>4. NullEntry' /\ RunsOwnCode'
    BY <1>6, <2>1, <2>2 DEF WriteSource, IInv, NullEntry, RunsOwnCode, IsCodeOf,
                            Compiling, cacheVars
  <2>5. NamesFresh'
    BY <1>6, <2>1, <2>2, <2>3
      DEF WriteSource, IInv, TypeOK, NamesFresh, Names, Process
  <2>6. JobFiles'
    <3>1. sources'[next].key = job.key
      BY <1>6, <2>3 DEF WriteSource, IInv, TypeOK
    <3> QED BY <2>1, <2>2, <3>1 DEF JobFiles
  <2>7. JobCompiler'
    BY <1>6, <2>1, <2>2, <2>3 DEF WriteSource, IInv, TypeOK, NamesFresh, JobCompiler,
                                  Process, Names
  <2>8. HeaderComplete' /\ CompilersApart' /\ JobOk' /\ LoadsFinishedObject'
    BY <1>6, <2>1, <2>2 DEF WriteSource, IInv, HeaderComplete, CompilersApart, JobOk,
                            LoadsFinishedObject
  <2> QED BY <1>0, <2>4, <2>5, <2>6, <2>7, <2>8 DEF IInv
<1>7. CASE NoSourceFile
  <2>1. pc = "source" /\ pc' = "dead" /\ job.ok = FALSE
    BY <1>7 DEF NoSourceFile, IInv, TypeOK, Job, JobOk
  <2>2. next' = next + 1 /\ next \in Nat
    BY <1>7 DEF NoSourceFile, Inc, IInv, TypeOK, Names
  <2>3. NullEntry' /\ RunsOwnCode'
    BY <1>7, <2>1 DEF NoSourceFile, IInv, NullEntry, RunsOwnCode, IsCodeOf,
                      Compiling, cacheVars
  <2>4. NamesFresh'
    BY <1>7, <2>1, <2>2
      DEF NoSourceFile, IInv, TypeOK, NamesFresh, Names, Process, fileVars
  <2>5. HeaderComplete' /\ CompilersApart'
    BY <1>7 DEF NoSourceFile, IInv, HeaderComplete, CompilersApart, fileVars
  <2>6. JobFiles' /\ JobCompiler' /\ JobOk' /\ LoadsFinishedObject'
    BY <1>7, <2>1 DEF NoSourceFile, JobFiles, JobCompiler, JobOk, LoadsFinishedObject
  <2> QED BY <1>0, <2>3, <2>4, <2>5, <2>6 DEF IInv
<1> QED
  BY <1>1, <1>2, <1>3, <1>4, <1>5, <1>6, <1>7 DEF PrepareStep

LEMMA BuildInv ==
  ASSUME IInv, BuildStep
  PROVE  IInv'
<1>0. TypeOK' /\ JobSet'
  BY BuildType DEF IInv
<1>1. CASE Fork
  <2>1. /\ job'.key = job.key /\ job'.cxx = job.cxx /\ job'.so = next
        /\ job'.ok = FALSE
    BY <1>1 DEF Fork, IInv, TypeOK, Job, JobOk
  <2>2. pc = "fork" /\ pc' = "wait"
    BY <1>1 DEF Fork
  <2>3. next' = next + 1 /\ next \in Nat /\ next \in Names
    BY <1>1 DEF Fork, Inc, IInv, TypeOK, Names
  <2> DEFINE child == [src |-> job.cxx, out |-> next, seen |-> None,
                       st |-> "running"]
  <2>4. procs' = procs \union {child}
    BY <1>1 DEF Fork
  <2>5. job.cxx \in Names /\ job.cxx < next
    BY <2>2 DEF IInv, JobSet, NamesFresh
  <2>6. \A p \in procs : p.src < next /\ p.out < next /\ p.src \in Nat /\ p.out \in Nat
    BY DEF IInv, TypeOK, NamesFresh, Process, Names
  <2>7. NullEntry' /\ RunsOwnCode'
    BY <1>1, <2>1, <2>2 DEF Fork, IInv, NullEntry, RunsOwnCode, IsCodeOf,
                            Compiling, cacheVars
  <2>8. NamesFresh'
    BY <1>1, <2>1, <2>2, <2>3, <2>4, <2>5, <2>6
      DEF Fork, IInv, TypeOK, NamesFresh, Names, fileVars
  <2>9. JobFiles'
    BY <1>1, <2>1, <2>2, <2>3 DEF Fork, IInv, NamesFresh, JobFiles, fileVars
  <2>10. JobCompiler'
    BY <2>1, <2>2, <2>3, <2>4, <2>6 DEF IInv, JobCompiler
  <2>11. CompilersApart'
    BY <1>1, <2>3, <2>4, <2>6 DEF Fork, IInv, CompilersApart, fileVars
  <2>12. HeaderComplete' /\ JobOk' /\ LoadsFinishedObject'
    BY <1>1, <2>1, <2>2 DEF Fork, IInv, HeaderComplete, JobOk,
                            LoadsFinishedObject, fileVars
  <2> QED BY <1>0, <2>7, <2>8, <2>9, <2>10, <2>11, <2>12 DEF IInv
<1>2. CASE ForkFails
  <2>1. /\ job'.key = job.key /\ job'.cxx = job.cxx /\ job'.so = next
        /\ job'.ok = FALSE
    BY <1>2 DEF ForkFails, IInv, TypeOK, Job, JobOk
  <2>2. pc = "fork" /\ pc' = "remove"
    BY <1>2 DEF ForkFails
  <2>3. next' = next + 1 /\ next \in Nat /\ next \in Names
    BY <1>2 DEF ForkFails, Inc, IInv, TypeOK, Names
  <2>5. job.cxx \in Names /\ job.cxx < next
    BY <2>2 DEF IInv, JobSet, NamesFresh
  <2>6. \A p \in procs : p.src < next /\ p.out < next /\ p.src \in Nat /\ p.out \in Nat
    BY DEF IInv, TypeOK, NamesFresh, Process, Names
  <2>7. NullEntry' /\ RunsOwnCode'
    BY <1>2, <2>1, <2>2 DEF ForkFails, IInv, NullEntry, RunsOwnCode, IsCodeOf,
                            Compiling, cacheVars
  <2>8. NamesFresh'
    BY <1>2, <2>1, <2>2, <2>3, <2>5, <2>6
      DEF ForkFails, IInv, TypeOK, NamesFresh, Names, fileVars
  <2>9. JobFiles'
    BY <1>2, <2>1, <2>2, <2>3 DEF ForkFails, IInv, NamesFresh, JobFiles, fileVars
  <2>10. JobCompiler'
    BY <1>2, <2>1, <2>2, <2>3, <2>6 DEF ForkFails, IInv, JobCompiler
  <2>11. CompilersApart' /\ HeaderComplete' /\ JobOk' /\ LoadsFinishedObject'
    BY <1>2, <2>1, <2>2 DEF ForkFails, IInv, CompilersApart, HeaderComplete,
                            JobOk, LoadsFinishedObject, fileVars
  <2> QED BY <1>0, <2>7, <2>8, <2>9, <2>10, <2>11 DEF IInv
<1>3. ASSUME NEW p \in procs, Reap(p) PROVE IInv'
  <2>1. /\ job'.key = job.key /\ job'.cxx = job.cxx /\ job'.so = job.so
        /\ job'.ok = (p.st = "ok")
    BY <1>3 DEF Reap, IInv, TypeOK, Job
  <2>2. pc = "wait" /\ pc' = "remove" /\ procs' = procs \ {p} /\ p.out = job.so
    BY <1>3 DEF Reap
  <2>3. NullEntry' /\ RunsOwnCode'
    BY <1>3, <2>1, <2>2 DEF Reap, IInv, NullEntry, RunsOwnCode, IsCodeOf,
                            Compiling, cacheVars
  <2>4. NamesFresh' /\ JobFiles' /\ JobCompiler'
    BY <1>3, <2>1, <2>2 DEF Reap, IInv, NamesFresh, JobFiles, JobCompiler,
                            ioVars, fileVars
  <2>5. CompilersApart' /\ HeaderComplete' /\ JobOk'
    BY <1>3, <2>1, <2>2 DEF Reap, IInv, CompilersApart, HeaderComplete, JobOk,
                            ioVars, fileVars
  <2>6. LoadsFinishedObject'
    <3>1. p.st = "ok" => objects'[job.so] # None
      BY <1>3, <2>2 DEF Reap, IInv, CompilersApart, fileVars
    <3>2. \A q \in procs' : q.out # job.so /\ q.src # job.cxx
      BY <2>2 DEF IInv, CompilersApart, JobCompiler
    <3> QED BY <2>1, <3>1, <3>2 DEF LoadsFinishedObject
  <2> QED BY <1>0, <2>3, <2>4, <2>5, <2>6 DEF IInv
<1>4. CASE RemoveSource
  <2>1. CASE job.ok
    <3>1. pc = "remove" /\ pc' = "load" /\ job' = job
      BY <1>4, <2>1 DEF RemoveSource
    <3>2. sources'[job.cxx] = None \/ sources'[job.cxx] = sources[job.cxx]
      BY <1>4, <3>1 DEF RemoveSource, IInv, TypeOK, JobSet
    <3>3. NullEntry' /\ RunsOwnCode'
      BY <1>4, <2>1, <3>1 DEF RemoveSource, IInv, NullEntry, RunsOwnCode,
                              IsCodeOf, Compiling, cacheVars
    <3>4. NamesFresh' /\ JobFiles' /\ JobCompiler'
      BY <1>4, <3>1, <3>2 DEF RemoveSource, IInv, NamesFresh, JobFiles,
                              JobCompiler, ioVars
    <3>5. CompilersApart' /\ HeaderComplete' /\ JobOk' /\ LoadsFinishedObject'
      BY <1>4, <2>1, <3>1 DEF RemoveSource, IInv, CompilersApart, HeaderComplete,
                              JobOk, LoadsFinishedObject, ioVars
    <3> QED BY <1>0, <3>3, <3>4, <3>5 DEF IInv
  <2>2. CASE ~job.ok
    <3>1. Throw /\ pc = "remove" /\ pc' = "user" /\ job' = NoJob
      BY <1>4, <2>2 DEF RemoveSource, Throw
    <3>2. NullEntry' /\ RunsOwnCode'
      BY <1>4, <3>1, ThrowInv DEF RemoveSource, Compiling
    <3>3. NamesFresh' /\ CompilersApart' /\ HeaderComplete'
      BY <1>4, <3>1 DEF RemoveSource, IInv, NamesFresh, CompilersApart,
                        HeaderComplete, ioVars
    <3>4. JobFiles' /\ JobCompiler' /\ JobOk' /\ LoadsFinishedObject'
      BY <3>1 DEF JobFiles, JobCompiler, JobOk, LoadsFinishedObject, NoJob, NewJob
    <3> QED BY <1>0, <3>2, <3>3, <3>4 DEF IInv
  <2> QED BY <2>1, <2>2
<1>5. ASSUME pc = "load", RemoveObject, procs' = procs
      PROVE  CompilersApart'
  <2>1. \A p \in procs : p.out # job.so /\ p.out \in Names
    BY <1>5 DEF IInv, JobOk, LoadsFinishedObject, TypeOK, Process
  <2>2. \A n \in Names : n # job.so => objects'[n] = objects[n]
    BY <1>5 DEF RemoveObject, IInv, TypeOK
  <2> QED BY <1>5, <2>1, <2>2 DEF IInv, CompilersApart
<1>6. ASSUME pc = "load", RemoveObject
      PROVE  \A n \in Names : objects[n] = None => objects'[n] = None
  BY <1>6 DEF RemoveObject, IInv, TypeOK
<1>7. CASE Load
  <2>1. pc = "load" /\ pc' = "user" /\ job' = NoJob /\ job.so \in Names
    BY <1>7 DEF Load, IInv, JobSet
  <2>2. Opened = objects[job.so] /\ libs[job.so] = None
    BY <2>1 DEF Opened, IInv, JobFiles
  <2>3. Opened = [key |-> job.key, entry |-> TRUE]
    <3>1. Opened.key = job.key /\ Opened.entry = TRUE /\ Opened \in Object
      BY <1>7, <2>1, <2>2 DEF Load, IInv, JobFiles, TypeOK, Object
    <3> QED BY <3>1 DEF Object
  <2>4. /\ libs'[job.so] = [key |-> job.key, entry |-> TRUE]
        /\ \A n \in Names : n # job.so => libs'[n] = libs[n]
    BY <1>7, <2>1, <2>3 DEF Load, IInv, TypeOK
  <2>5. ASSUME NEW n \in Names, NEW k \in Keys,
               libs[n] = [key |-> k, entry |-> TRUE]
        PROVE  libs'[n] = [key |-> k, entry |-> TRUE]
    <3>1. [key |-> k, entry |-> TRUE] \in Object
      BY DEF Object
    <3>2. n # job.so
      BY <2>2, <2>5, <3>1, NoneAssumption
    <3> QED BY <2>4, <2>5, <3>2
  <2>6. job.so # None /\ job.key \in Keys
    BY <2>1, NoneAssumption DEF Names, IInv, JobSet, Compiling
  <2>7. /\ entry'[job.key] = job.so /\ cached' = cached
        /\ \A k \in Keys : k # job.key => entry'[k] = entry[k]
    BY <1>7, <2>6 DEF Load, IInv, TypeOK
  <2>8. \A i \in DOMAIN stack' :
          \/ i \in DOMAIN stack /\ stack'[i] = stack[i]
          \/ stack'[i] = [key |-> job.key, fn |-> job.so]
    BY <1>7 DEF Load, IInv, TypeOK
  <2>9. RunsOwnCode'
    <3>1. ASSUME NEW k \in cached', entry'[k] # None
          PROVE  libs'[entry'[k]] = [key |-> k, entry |-> TRUE]
      <4>1. CASE k = job.key
        BY <2>4, <2>7, <4>1
      <4>2. CASE k # job.key
        <5>1. k \in Keys /\ entry'[k] = entry[k] /\ entry[k] \in Names
          BY <2>7, <3>1, <4>2 DEF IInv, TypeOK
        <5>2. libs[entry[k]] = [key |-> k, entry |-> TRUE]
          BY <2>7, <3>1, <5>1 DEF IInv, RunsOwnCode, IsCodeOf
        <5> QED BY <2>5, <5>1, <5>2
      <4> QED BY <4>1, <4>2
    <3>2. ASSUME NEW i \in DOMAIN stack'
          PROVE  /\ stack'[i].fn # None
                 /\ libs'[stack'[i].fn] = [key |-> stack'[i].key, entry |-> TRUE]
      <4>1. CASE i \in DOMAIN stack /\ stack'[i] = stack[i]
        <5>1. stack[i] \in Frame
          BY <4>1 DEF IInv, TypeOK
        <5>2. /\ stack[i].fn # None
              /\ libs[stack[i].fn] = [key |-> stack[i].key, entry |-> TRUE]
          BY <4>1 DEF IInv, RunsOwnCode, IsCodeOf
        <5>3. stack[i].fn \in Names /\ stack[i].key \in Keys
          BY <5>1, <5>2 DEF Frame
        <5> QED BY <2>5, <4>1, <5>2, <5>3
      <4>2. CASE stack'[i] = [key |-> job.key, fn |-> job.so]
        BY <2>4, <2>6, <4>2
      <4> QED BY <2>8, <4>1, <4>2
    <3> QED BY <3>1, <3>2 DEF RunsOwnCode, IsCodeOf
  <2>10. NullEntry'
    BY <2>1, <2>6, <2>7 DEF IInv, TypeOK, NullEntry, Compiling
  <2>11. NamesFresh'
    BY <1>6, <1>7, <2>1, <2>4 DEF Load, IInv, TypeOK, NamesFresh, Names, ioVars
  <2>12. CompilersApart' /\ HeaderComplete'
    BY <1>5, <1>7 DEF Load, IInv, HeaderComplete, ioVars
  <2>13. JobFiles' /\ JobCompiler' /\ JobOk' /\ LoadsFinishedObject'
    BY <2>1 DEF JobFiles, JobCompiler, JobOk, LoadsFinishedObject, NoJob, NewJob
  <2> QED BY <1>0, <2>9, <2>10, <2>11, <2>12, <2>13 DEF IInv
<1>8. CASE LoadFails
  <2>1. pc = "load" /\ Throw /\ pc' = "user" /\ job' = NoJob
    BY <1>8 DEF LoadFails, Throw
  <2>2. NullEntry' /\ RunsOwnCode'
    BY <1>8, <2>1, ThrowInv DEF LoadFails, Compiling
  <2>3. NamesFresh'
    BY <1>6, <1>8, <2>1 DEF LoadFails, IInv, NamesFresh, ioVars
  <2>4. CompilersApart' /\ HeaderComplete'
    BY <1>5, <1>8 DEF LoadFails, IInv, HeaderComplete, ioVars
  <2>5. JobFiles' /\ JobCompiler' /\ JobOk' /\ LoadsFinishedObject'
    BY <2>1 DEF JobFiles, JobCompiler, JobOk, LoadsFinishedObject, NoJob, NewJob
  <2> QED BY <1>0, <2>2, <2>3, <2>4, <2>5 DEF IInv
<1> QED BY <1>1, <1>2, <1>3, <1>4, <1>7, <1>8 DEF BuildStep

LEMMA CompilerInv ==
  ASSUME IInv, NEW p \in procs, Compiler(p)
  PROVE  IInv'
<1>0. TypeOK' /\ JobSet'
  BY CompilerType DEF IInv
<1>1. p.src \in Names /\ p.out \in Names /\ p.out < next
  BY DEF IInv, TypeOK, Process, NamesFresh
<1>2. ASSUME NEW q, Become(p, q), q.src = p.src, q.out = p.out
      PROVE  /\ \A r, s \in procs' : r.out = s.out => r = s
             /\ \A r \in procs' : \E s \in procs : r.src = s.src /\ r.out = s.out
  BY <1>2 DEF Become, IInv, CompilersApart
<1>3. CASE CompilerReads(p)
  <2> DEFINE q == [p EXCEPT !.seen = sources[p.src]]
  <2>1. q.src = p.src /\ q.out = p.out /\ q.st = p.st /\ q.seen = sources[p.src]
    BY DEF IInv, TypeOK, Process
  <2>2. Become(p, q)
    BY <1>3 DEF CompilerReads
  <2> HIDE DEF q
  <2>3. NamesFresh'
    BY <1>2, <1>3, <2>1, <2>2
      DEF CompilerReads, IInv, NamesFresh, ioVars, fileVars
  <2>4. JobCompiler'
    BY <1>3, <2>1, <2>2
      DEF CompilerReads, Become, IInv, JobCompiler, JobFiles
  <2>5. CompilersApart'
    BY <1>2, <1>3, <2>1, <2>2
      DEF CompilerReads, Become, IInv, CompilersApart, fileVars
  <2>6. LoadsFinishedObject'
    BY <1>2, <1>3, <2>1, <2>2
      DEF CompilerReads, IInv, LoadsFinishedObject, fileVars
  <2> QED
    BY <1>0, <1>3, <2>3, <2>4, <2>5, <2>6
      DEF CompilerReads, IInv, NullEntry, JobFiles, JobOk, RunsOwnCode, IsCodeOf,
          HeaderComplete, cacheVars, ioVars, fileVars
<1>4. CASE CompilerSucceeds(p)
  <2> DEFINE q == [p EXCEPT !.st = "ok"]
             made == [key |-> p.seen.key, entry |-> (p.seen.form = "whole")]
  <2>1. q.src = p.src /\ q.out = p.out /\ q.st = "ok" /\ q.seen = p.seen
    BY DEF IInv, TypeOK, Process
  <2>2. Become(p, q) /\ p.seen # None /\ objects' = [objects EXCEPT ![p.out] = made]
    BY <1>4 DEF CompilerSucceeds
  <2>3. made \in Object
    BY <2>2 DEF IInv, TypeOK, Process, Source, Object
  <2>4. /\ objects'[p.out] = made /\ made # None /\ made.key = p.seen.key
        /\ \A n \in Names : n # p.out => objects'[n] = objects[n]
    BY <1>1, <2>2, <2>3, NoneAssumption DEF IInv, TypeOK
  <2> HIDE DEF q, made
  <2>5. NamesFresh'
    BY <1>1, <1>2, <1>4, <2>1, <2>2, <2>4
      DEF CompilerSucceeds, IInv, TypeOK, NamesFresh, Names, ioVars
  <2>6. JobFiles'
    <3>1. pc \in {"wait", "remove", "load"} /\ p.out = job.so => made.key = job.key
      BY <2>2, <2>4 DEF IInv, JobCompiler
    <3>2. pc \in {"wait", "remove", "load"} => job.so \in Names
      BY DEF IInv, JobSet
    <3> QED BY <1>4, <2>4, <3>1, <3>2 DEF CompilerSucceeds, IInv, JobFiles
  <2>7. JobCompiler'
    BY <1>4, <2>1, <2>2 DEF CompilerSucceeds, Become, IInv, JobCompiler
  <2>8. CompilersApart'
    <3>1. \A r \in procs' : r.st = "ok" => objects'[r.out] # None
      BY <2>1, <2>2, <2>4 DEF Become, IInv, TypeOK, Process, CompilersApart
    <3> QED BY <1>2, <2>1, <2>2, <3>1 DEF CompilersApart
  <2>9. LoadsFinishedObject'
    <3>1. job.ok => job.so \in Names
      BY DEF IInv, JobOk, JobSet
    <3> QED
      BY <1>2, <1>4, <2>1, <2>2, <2>4, <3>1
        DEF CompilerSucceeds, IInv, LoadsFinishedObject
  <2> QED
    BY <1>0, <1>4, <2>5, <2>6, <2>7, <2>8, <2>9
      DEF CompilerSucceeds, IInv, NullEntry, JobOk, RunsOwnCode, IsCodeOf,
          HeaderComplete, cacheVars, ioVars
<1>5. CASE CompilerFails(p)
  <2> DEFINE q == [p EXCEPT !.st = "bad"]
  <2>1. q.src = p.src /\ q.out = p.out /\ q.st = "bad" /\ q.seen = p.seen
    BY DEF IInv, TypeOK, Process
  <2>2. Become(p, q)
    BY <1>5 DEF CompilerFails
  <2> HIDE DEF q
  <2>3. NamesFresh'
    BY <1>2, <1>5, <2>1, <2>2
      DEF CompilerFails, IInv, NamesFresh, ioVars, fileVars
  <2>4. JobCompiler'
    BY <1>5, <2>1, <2>2 DEF CompilerFails, Become, IInv, JobCompiler
  <2>5. CompilersApart'
    BY <1>2, <1>5, <2>1, <2>2
      DEF CompilerFails, Become, IInv, CompilersApart, fileVars
  <2>6. LoadsFinishedObject'
    BY <1>2, <1>5, <2>1, <2>2
      DEF CompilerFails, IInv, LoadsFinishedObject, fileVars
  <2> QED
    BY <1>0, <1>5, <2>3, <2>4, <2>5, <2>6
      DEF CompilerFails, IInv, NullEntry, JobFiles, JobOk, RunsOwnCode, IsCodeOf,
          HeaderComplete, cacheVars, ioVars, fileVars
<1> QED BY <1>3, <1>4, <1>5 DEF Compiler

LEMMA InvStep == IInv /\ [Next]_vars => IInv'
<1> SUFFICES ASSUME IInv, [Next]_vars PROVE IInv'
  OBVIOUS
<1>0. TypeOK' /\ JobSet'
  BY TypeStep DEF IInv
<1>1. CASE UNCHANGED vars
  BY <1>0, <1>1
    DEF vars, IInv, NamesFresh, NullEntry, JobFiles, JobCompiler, CompilersApart,
        JobOk, LoadsFinishedObject, RunsOwnCode, IsCodeOf, HeaderComplete
<1>2. CASE Abort
  <2>1. pc \in Compiling /\ pc \notin {"wait", "remove", "load"} /\ pc' = "dead"
    BY <1>2 DEF Abort, Compiling
  <2> QED
    BY <1>0, <1>2, <2>1
      DEF Abort, IInv, NamesFresh, NullEntry, JobFiles, JobCompiler,
          CompilersApart, JobOk, LoadsFinishedObject, RunsOwnCode, IsCodeOf,
          HeaderComplete, Compiling, cacheVars, ioVars, fileVars
<1>3. CASE WaitFails
  <2>1. pc = "wait" /\ pc' = "remove"
    BY <1>3 DEF WaitFails
  <2> QED
    BY <1>0, <1>3, <2>1
      DEF WaitFails, IInv, NamesFresh, NullEntry, JobFiles, JobCompiler,
          CompilersApart, JobOk, LoadsFinishedObject, RunsOwnCode, IsCodeOf,
          HeaderComplete, Compiling, cacheVars, ioVars, fileVars
<1>4. CASE Dead
  BY <1>1, <1>4 DEF Dead
<1> QED
  BY <1>1, <1>2, <1>3, <1>4, UserInv, PrepareInv, BuildInv, CompilerInv
    DEF Next, HostStep

(* Between any two steps of any actors the invariant holds. *)
THEOREM Invariance == Safety => []IInv
  BY InitInv, InvStep, PTL DEF Safety

(* No path through compile leaves a null entry behind for a later hit.     *)
THEOREM NeverNull == Safety => []NoNullEntry
<1>1. IInv => NoNullEntry
  BY NoneAssumption
    DEF IInv, TypeOK, JobSet, NullEntry, NoNullEntry, NoJob, NewJob
<1> QED BY <1>1, Invariance, PTL

(* What runs for a key, and what the cache keeps for it, was generated     *)
(* from that key, over any history of failures and orphaned compilers.     *)
THEOREM OwnCode == Safety => []RunsOwnCode
<1>1. IInv => RunsOwnCode
  BY DEF IInv
<1> QED BY <1>1, Invariance, PTL

(* A recorded header path names a complete header of its file. *)
THEOREM WholeHeaders == Safety => []HeaderComplete
<1>1. IInv => HeaderComplete
  BY DEF IInv
<1> QED BY <1>1, Invariance, PTL

(* The object about to be loaded is finished and nobody writes to it. *)
THEOREM FinishedObjects == Safety => []LoadsFinishedObject
<1>1. IInv => LoadsFinishedObject
  BY DEF IInv
<1> QED BY <1>1, Invariance, PTL

-----------------------------------------------------------------------------
(* Runtime implements CallMemo. *)

KeysOf(st) == [i \in DOMAIN st |-> st[i].key]

LEMMA KeysOfSeq ==
  ASSUME NEW st \in Seq(Frame)
  PROVE  KeysOf(st) \in Seq(Keys) /\ Len(KeysOf(st)) = Len(st)
<1>1. DOMAIN st = 1 .. Len(st) /\ Len(st) \in Nat
  OBVIOUS
<1>2. \A i \in 1 .. Len(st) : st[i].key \in Keys
  <2>1. \A i \in 1 .. Len(st) : st[i] \in Frame
    BY ElementOfSeq
  <2> QED BY <2>1 DEF Frame
<1>3. KeysOf(st) \in [1 .. Len(st) -> Keys]
  BY <1>1, <1>2 DEF KeysOf
<1>4. KeysOf(st) \in Seq(Keys)
  BY <1>1, <1>3, SeqDef
<1>5. DOMAIN KeysOf(st) = 1 .. Len(KeysOf(st)) /\ Len(KeysOf(st)) \in Nat
  BY <1>4
<1> QED BY <1>1, <1>3, <1>4, <1>5

LEMMA KeysOfAppend ==
  ASSUME NEW st \in Seq(Frame), NEW fr \in Frame
  PROVE  KeysOf(Append(st, fr)) = Append(KeysOf(st), fr.key)
<1>1. Append(st, fr) \in Seq(Frame) /\ fr.key \in Keys
  BY DEF Frame
<1>2. KeysOf(Append(st, fr)) \in Seq(Keys) /\ KeysOf(st) \in Seq(Keys)
  BY <1>1, KeysOfSeq
<1>3. Len(KeysOf(Append(st, fr))) = Len(st) + 1 /\ Len(KeysOf(st)) = Len(st)
  <2>1. Len(Append(st, fr)) = Len(st) + 1
    BY AppendProperties
  <2> QED BY <1>1, <2>1, KeysOfSeq
<1>4. Append(KeysOf(st), fr.key) \in Seq(Keys)
  BY <1>1, <1>2, AppendProperties
<1>5. ASSUME NEW i \in 1 .. Len(st) + 1
      PROVE  KeysOf(Append(st, fr))[i] = Append(KeysOf(st), fr.key)[i]
  <2>1. KeysOf(Append(st, fr))[i] = Append(st, fr)[i].key
    BY <1>1 DEF KeysOf
  <2>2. CASE i = Len(st) + 1
    BY <1>1, <1>2, <1>3, <2>1, <2>2, AppendProperties
  <2>3. CASE i # Len(st) + 1
    <3>1. i \in 1 .. Len(st) /\ Append(st, fr)[i] = st[i]
      BY <2>3, AppendProperties
    <3>2. Append(KeysOf(st), fr.key)[i] = KeysOf(st)[i]
      BY <1>1, <1>2, <1>3, <3>1, AppendProperties
    <3> QED BY <2>1, <3>1, <3>2 DEF KeysOf
  <2> QED BY <2>2, <2>3
<1>6. Len(Append(KeysOf(st), fr.key)) = Len(st) + 1
  BY <1>1, <1>2, <1>3, AppendProperties
<1> QED BY <1>2, <1>3, <1>4, <1>5, <1>6, SeqEqual

LEMMA KeysOfFront ==
  ASSUME NEW st \in Seq(Frame), st # <<>>
  PROVE  KeysOf(SubSeq(st, 1, Len(st) - 1))
           = SubSeq(KeysOf(st), 1, Len(KeysOf(st)) - 1)
<1> DEFINE front == SubSeq(st, 1, Len(st) - 1)
<1>1. front \in Seq(Frame) /\ Len(front) = Len(st) - 1
  OBVIOUS
<1>2. /\ KeysOf(front) \in Seq(Keys) /\ Len(KeysOf(front)) = Len(st) - 1
      /\ KeysOf(st) \in Seq(Keys) /\ Len(KeysOf(st)) = Len(st)
  BY <1>1, KeysOfSeq
<1>3. ASSUME NEW i \in 1 .. Len(st) - 1
      PROVE  KeysOf(front)[i] = KeysOf(st)[i]
  BY <1>1 DEF KeysOf
<1> DEFINE short == SubSeq(KeysOf(st), 1, Len(KeysOf(st)) - 1)
<1>4. /\ short \in Seq(Keys) /\ Len(short) = Len(st) - 1
      /\ \A i \in 1 .. Len(st) - 1 : short[i] = KeysOf(st)[i]
  BY <1>2
<1> HIDE DEF short, front
<1>5. KeysOf(front) = short
  BY <1>2, <1>3, <1>4, SeqEqual
<1> QED BY <1>5 DEF short, front

LEMMA BodiesAre == IInv => Bodies = KeysOf(stack)
<1> SUFFICES ASSUME IInv PROVE Bodies = KeysOf(stack)
  OBVIOUS
<1>1. ASSUME NEW i \in DOMAIN stack
      PROVE  libs[stack[i].fn].key = stack[i].key
  <2>1. libs[stack[i].fn] = [key |-> stack[i].key, entry |-> TRUE]
    BY DEF IInv, RunsOwnCode, IsCodeOf
  <2> QED BY <2>1
<1> QED BY <1>1 DEF Bodies, KeysOf

(* Steps of the host that throw, seen from the caller. *)
LEMMA ThrowFails ==
  ASSUME IInv, pc \in Compiling, Throw
  PROVE  CompiledKeys' = CompiledKeys /\ job'.key = None /\ job.key \in Keys
<1>1. job.key \in cached /\ entry[job.key] = None /\ job.key \in Keys
  BY DEF IInv, NullEntry, JobSet
<1>2. \A k \in Keys : k # job.key => entry'[k] = entry[k]
  BY <1>1 DEF Throw, IInv, TypeOK
<1>3. cached \subseteq Keys /\ cached' = cached \ {job.key}
  BY DEF Throw, Erase, IInv, TypeOK
<1>4. CompiledKeys' = CompiledKeys
  BY <1>1, <1>2, <1>3 DEF CompiledKeys
<1> QED BY <1>1, <1>4 DEF Throw, NoJob, NewJob

LEMMA InitMemo == Init => Memo!Init
<1> SUFFICES ASSUME Init PROVE Memo!Init
  OBVIOUS
<1>1. CompiledKeys = {} /\ job.key = None
  BY DEF Init, CompiledKeys, NoJob, NewJob
<1>2. Bodies \in [{} -> {}]
  BY DEF Init, Bodies
<1>3. Bodies = <<>>
  BY <1>2
<1> QED BY <1>1, <1>3 DEF Memo!Init

LEMMA StepMemo ==
  ASSUME IInv, IInv', [Next]_vars,
         Bodies = KeysOf(stack), Bodies' = KeysOf(stack')
  PROVE  [Memo!Next]_(Memo!memoVars)
<1> USE DEF Memo!memoVars
<1>0. stack \in Seq(Frame) /\ stack' \in Seq(Frame)
  BY DEF IInv, TypeOK
<1>1. ASSUME stack' = stack, cached' = cached, entry' = entry, job'.key = job.key
      PROVE  UNCHANGED Memo!memoVars
  BY <1>1 DEF CompiledKeys
<1>2. ASSUME pc \in Compiling, Throw, stack' = stack
      PROVE  Memo!Next
  <2>1. /\ CompiledKeys' = CompiledKeys /\ job'.key = None
        /\ job.key \in Keys /\ Bodies' = Bodies
    BY <1>2, ThrowFails
  <2>2. Memo!CompilationFails(job.key)
    BY <2>1 DEF Memo!CompilationFails
  <2> QED BY <2>1, <2>2 DEF Memo!Next
<1>3. CASE UNCHANGED vars
  BY <1>1, <1>3 DEF vars
<1>4. pc = "user" => job.key = None
  BY DEF IInv, JobSet, NoJob, NewJob
<1>5. CASE Leave
  <2>1. /\ stack # <<>> /\ stack' = SubSeq(stack, 1, Len(stack) - 1)
        /\ CompiledKeys' = CompiledKeys /\ job' = job /\ pc = "user"
    BY <1>5 DEF Leave, CompiledKeys, cacheVars
  <2>2. Bodies' = SubSeq(Bodies, 1, Len(Bodies) - 1)
    BY <1>0, <2>1, KeysOfFront
  <2>3. Len(Bodies) = Len(stack) /\ Bodies # <<>>
    BY <1>0, <2>1, KeysOfSeq
  <2>4. Memo!Leave
    BY <1>4, <2>1, <2>2, <2>3 DEF Memo!Leave
  <2> QED BY <2>4 DEF Memo!Next
<1>6. ASSUME NEW k \in Keys, Reject(k) PROVE UNCHANGED Memo!memoVars
  BY <1>1, <1>6 DEF Reject, vars
<1>7. ASSUME NEW k \in Keys, Hit(k) PROVE Memo!Next
  <2>1. pc = "user" /\ k \in CompiledKeys
    BY <1>4, <1>7, NoneAssumption
      DEF Hit, MayCall, CompiledKeys, IInv, NullEntry
  <2>2. CompiledKeys' = CompiledKeys /\ job' = job
    BY <1>7 DEF Hit, CompiledKeys, cacheVars
  <2>3. [key |-> k, fn |-> entry[k]] \in Frame
    BY DEF Frame, IInv, TypeOK
  <2>4. Bodies' = Append(Bodies, k)
    BY <1>0, <1>7, <2>3, KeysOfAppend DEF Hit
  <2>5. Memo!Hit(k)
    BY <1>4, <2>1, <2>2, <2>4 DEF Memo!Hit
  <2> QED BY <2>5 DEF Memo!Next
<1>8. ASSUME NEW k \in Keys, Miss(k) PROVE Memo!Next
  <2>1. pc = "user" /\ k \notin cached /\ stack' = stack /\ job'.key = k
    BY <1>8 DEF Miss, MayCall, Absent, NewJob
  <2>2. /\ cached' = cached \union {k} /\ entry'[k] = None
        /\ \A j \in cached : entry'[j] = entry[j]
    BY <1>8, <2>1 DEF Miss, IInv, TypeOK
  <2>3. CompiledKeys' = CompiledKeys /\ k \notin CompiledKeys
    BY <2>1, <2>2 DEF CompiledKeys
  <2>4. Memo!Miss(k)
    BY <1>4, <2>1, <2>3 DEF Memo!Miss
  <2> QED BY <2>4 DEF Memo!Next
<1>9. CASE InitIo
  BY <1>1, <1>9 DEF InitIo, cacheVars
<1>10. CASE InitIoFails
  BY <1>2, <1>10 DEF InitIoFails, Compiling
<1>11. CASE ReuseHeader
  <2>1. job'.key = job.key
    BY <1>11 DEF ReuseHeader, IInv, TypeOK, Job
  <2> QED BY <1>1, <1>11, <2>1 DEF ReuseHeader, cacheVars
<1>12. ASSUME NEW f \in Files, ExtractHeader(f) PROVE UNCHANGED Memo!memoVars
  <2>1. job'.key = job.key
    BY <1>12 DEF ExtractHeader, IInv, TypeOK, Job
  <2> QED BY <1>1, <1>12, <2>1 DEF ExtractHeader, cacheVars
<1>13. ASSUME NEW f \in Files, ExtractHeaderFails(f) PROVE Memo!Next
  BY <1>2, <1>13 DEF ExtractHeaderFails, NewHeader, Compiling
<1>14. CASE WriteSource
  <2>1. job'.key = job.key
    BY <1>14 DEF WriteSource, IInv, TypeOK, Job
  <2> QED BY <1>1, <1>14, <2>1 DEF WriteSource, cacheVars
<1>15. CASE NoSourceFile
  BY <1>1, <1>15 DEF NoSourceFile, cacheVars
<1>16. CASE Fork
  <2>1. job'.key = job.key
    BY <1>16 DEF Fork, IInv, TypeOK, Job
  <2> QED BY <1>1, <1>16, <2>1 DEF Fork, cacheVars
<1>17. CASE ForkFails
  <2>1. job'.key = job.key
    BY <1>17 DEF ForkFails, IInv, TypeOK, Job
  <2> QED BY <1>1, <1>17, <2>1 DEF ForkFails, cacheVars
<1>18. ASSUME NEW p \in procs, Reap(p) PROVE UNCHANGED Memo!memoVars
  <2>1. job'.key = job.key
    BY <1>18 DEF Reap, IInv, TypeOK, Job
  <2> QED BY <1>1, <1>18, <2>1 DEF Reap, cacheVars
<1>19. CASE RemoveSource
  <2>1. CASE job.ok
    BY <1>1, <1>19, <2>1 DEF RemoveSource, cacheVars
  <2>2. CASE ~job.ok
    BY <1>2, <1>19, <2>2 DEF RemoveSource, Compiling
  <2> QED BY <2>1, <2>2
<1>20. CASE Load
  <2>1. /\ job.key \in Keys /\ job.key \in cached /\ job.so \in Names
        /\ job.so # None /\ pc = "load"
    BY <1>20, NoneAssumption
      DEF Load, IInv, NullEntry, JobSet, Compiling, Names
  <2>2. /\ entry'[job.key] # None /\ cached' = cached
        /\ \A k \in Keys : k # job.key => entry'[k] = entry[k]
    BY <1>20, <2>1 DEF Load, IInv, TypeOK
  <2>3. CompiledKeys' = CompiledKeys \union {job.key}
    BY <2>1, <2>2 DEF CompiledKeys, IInv, TypeOK
  <2>4. [key |-> job.key, fn |-> job.so] \in Frame
    BY <2>1 DEF Frame
  <2>5. Bodies' = Append(Bodies, job.key)
    BY <1>0, <1>20, <2>4, KeysOfAppend DEF Load
  <2>6. job'.key = None
    BY <1>20 DEF Load, NoJob, NewJob
  <2>7. Memo!Compiled(job.key)
    BY <2>3, <2>5, <2>6 DEF Memo!Compiled
  <2> QED BY <2>1, <2>7 DEF Memo!Next
<1>21. CASE LoadFails
  BY <1>2, <1>21 DEF LoadFails, Compiling
<1>22. CASE Abort
  BY <1>1, <1>22 DEF Abort, cacheVars
<1>23. CASE WaitFails
  BY <1>1, <1>23 DEF WaitFails, cacheVars
<1>24. ASSUME NEW p \in procs, Compiler(p) PROVE UNCHANGED Memo!memoVars
  BY <1>1, <1>24
    DEF Compiler, CompilerReads, CompilerSucceeds, CompilerFails, cacheVars
<1>25. CASE Dead
  BY <1>3, <1>25 DEF Dead
<1> QED
  BY <1>3, <1>5, <1>6, <1>7, <1>8, <1>9, <1>10, <1>11, <1>12, <1>13, <1>14,
     <1>15, <1>16, <1>17, <1>18, <1>19, <1>20, <1>21, <1>22, <1>23, <1>24, <1>25
    DEF Next, UserStep, HostStep, PrepareStep, BuildStep

LEMMA StepPromise ==
  IInv /\ IInv' /\ [Next]_vars => [Memo!Next]_(Memo!memoVars)
<1>1. (IInv => Bodies = KeysOf(stack))'
  BY BodiesAre, PTL
<1>2. IInv' => Bodies' = KeysOf(stack')
  BY <1>1
<1> QED BY <1>2, BodiesAre, StepMemo

(* Whatever fails underneath, the program sees only a memo of compiled     *)
(* calls: hits run, misses compile once or leave no trace.                 *)
THEOREM Refinement == Safety => Promise
  BY StepPromise, InitMemo, Invariance, PTL DEF Safety, Promise, Memo!MemoSpec
=============================================================================
