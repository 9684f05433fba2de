------------------------------ MODULE Runtime -------------------------------
(***************************************************************************)
(* The runtime library inside one host process: doarr::internal::call      *)
(* (call.cpp) and the compile-and-load path it drives (io.c), with the     *)
(* compiler child processes and the files they share.                      *)
(*                                                                         *)
(* The host is single threaded (the library has no locks and its reference *)
(* counts are not atomic), but it is not alone: a compiler it has stopped  *)
(* waiting for runs on, and a guest body may call back into the host,      *)
(* which may call doarr again.  A step of the host is the code between two *)
(* points where another process, or the guest, can act.                    *)
(*                                                                         *)
(* Names abstract the 13 letter counter of struct tmp_path; a file is a    *)
(* name and an extension, one function per extension.                      *)
(***************************************************************************)
EXTENDS Naturals, Sequences

CONSTANTS
  Keys,        \* cache keys: calls up to equality of function and arguments
  Files,       \* guest files, each with its precompiled header
  FileOf,      \* Keys -> Files: the file of the key's guest function
  TmplParams,  \* Keys -> Nat: dynamic values among the template arguments
  NameLimit,   \* how many names the counter can produce (26^13 in the code)
  MaxDepth,    \* bound: guest bodies in progress at once
  None         \* null pointer, missing file, unset name

ASSUME KeysAssumption ==
  /\ FileOf \in [Keys -> Files]
  /\ TmplParams \in [Keys -> Nat]
ASSUME LimitAssumption == NameLimit \in Nat \ {0} /\ MaxDepth \in Nat

Names == 0 .. NameLimit - 1

(* A generated source is written through stdio and no result is checked:   *)
(* it may be cut inside the entry function, or before it begins.           *)
Forms == {"whole", "cut", "headed"}

Header == [file : Files, whole : BOOLEAN]
Source == [key : Keys, hdr : Names, form : Forms]
Object == [key : Keys, entry : BOOLEAN]

ASSUME NoneAssumption ==
  /\ None \notin Nat
  /\ None \notin Keys
  /\ None \notin Header \union Source \union Object

Process == [src : Names, out : Names, seen : Source \union {None},
            st : {"running", "ok", "bad"}]
Frame == [key : Keys, fn : Names \union {None}]
Job == [key : Keys \union {None}, hdr : Names \union {None},
        cxx : Names \union {None}, so : Names \union {None}, ok : BOOLEAN]
NewJob(k) ==
  [key |-> k, hdr |-> None, cxx |-> None, so |-> None, ok |-> FALSE]
NoJob == NewJob(None)

Compiling == {"init", "extract", "source", "fork", "wait", "remove", "load"}

VARIABLES
  cached,    \* the keys of GLOBAL_cache
  entry,     \* cache_value::fn of each key: the name of its library, or None
  stack,     \* guest bodies in progress, innermost last
  pc,        \* where the host is: "user" code, a step of compile, or "dead"
  job,       \* the locals of the compile in progress
  ready,     \* whether doarr_io_init has succeeded
  next,      \* the counter in GLOBAL_io_ctx
  gch,       \* guest_file::gch_tmp_path of each file
  headers,   \* NAME.gch
  sources,   \* NAME.cxx
  objects,   \* NAME, the shared objects compilers write
  libs,      \* libraries in the process, by the name they were opened with
  procs      \* compiler children not reaped yet

cacheVars == <<cached, entry>>
ioVars    == <<ready, next, gch>>
fileVars  == <<headers, sources, objects>>
vars == <<cached, entry, stack, pc, job, ready, next, gch,
          headers, sources, objects, libs, procs>>

Init ==
  /\ cached = {}
  /\ entry = [k \in Keys |-> None]
  /\ stack = <<>>
  /\ pc = "user"
  /\ job = NoJob
  /\ ready = FALSE
  /\ next = 0
  /\ gch = [f \in Files |-> None]
  /\ headers = [n \in Names |-> None]
  /\ sources = [n \in Names |-> None]
  /\ objects = [n \in Names |-> None]
  /\ libs = [n \in Names |-> None]
  /\ procs = {}

(* tmp_path_inc: the next name of the counter. *)
Inc(n) == n + 1

(* The last name is never handed out: incrementing it aborts. *)
NeverExhausted == FALSE  \* mutant: the counter wraps unnoticed
Exhausted == next = NameLimit - 1

(* The catch (...) of call: the null entry try_emplace made is erased. *)
KeepEntry(k) == cached  \* mutant: the catch only rethrows
Erase(k) == cached \ {k}

Throw ==
  /\ pc' = "user"
  /\ job' = NoJob
  /\ cached' = Erase(job.key)
  /\ entry' = [entry EXCEPT ![job.key] = None]

-----------------------------------------------------------------------------
(* doarr::internal::call, up to the lookup. *)

(* A template argument depends on a dynamic value: logic_error. *)
Reject(k) ==
  /\ pc = "user"
  /\ TmplParams[k] > 0
  /\ UNCHANGED vars

MayCall(k) == pc = "user" /\ TmplParams[k] = 0 /\ Len(stack) < MaxDepth

Hit(k) ==
  /\ MayCall(k)
  /\ k \in cached
  /\ stack' = Append(stack, [key |-> k, fn |-> entry[k]])
  /\ UNCHANGED <<cacheVars, pc, job, ioVars, fileVars, libs, procs>>

AlwaysAbsent(k) == TRUE  \* mutant: each call compiles
Absent(k) == k \notin cached

Miss(k) ==
  /\ MayCall(k)
  /\ Absent(k)
  /\ cached' = cached \union {k}
  /\ entry' = [entry EXCEPT ![k] = None]
  /\ job' = NewJob(k)
  /\ pc' = "init"
  /\ UNCHANGED <<stack, ioVars, fileVars, libs, procs>>

(* The innermost guest body returns, or an exception leaves it. *)
Leave ==
  /\ pc = "user"
  /\ stack # <<>>
  /\ stack' = SubSeq(stack, 1, Len(stack) - 1)
  /\ UNCHANGED <<cacheVars, pc, job, ioVars, fileVars, libs, procs>>

-----------------------------------------------------------------------------
(* compile: the context, the header, the source. *)

(* GLOBAL_io_ctx: initialised on first use, and again after a failure. *)
InitIo ==
  /\ pc = "init"
  /\ ready' = TRUE
  /\ pc' = "extract"
  /\ UNCHANGED <<cacheVars, stack, job, next, gch, fileVars, libs, procs>>

InitIoFails ==
  /\ pc = "init"
  /\ ~ready
  /\ Throw
  /\ UNCHANGED <<stack, ioVars, fileVars, libs, procs>>

(* abort() in tmp_path_inc, called for each of the three names of a job. *)
Abort ==
  /\ \/ pc = "extract" /\ gch[FileOf[job.key]] = None
     \/ pc \in {"source", "fork"}
  /\ Exhausted
  /\ pc' = "dead"
  /\ UNCHANGED <<cacheVars, stack, job, ioVars, fileVars, libs, procs>>

ReuseHeader ==
  /\ pc = "extract"
  /\ gch[FileOf[job.key]] # None
  /\ job' = [job EXCEPT !.hdr = gch[FileOf[job.key]]]
  /\ pc' = "source"
  /\ UNCHANGED <<cacheVars, stack, ioVars, fileVars, libs, procs>>

NewHeader(f) ==
  pc = "extract" /\ f = FileOf[job.key] /\ gch[f] = None /\ ~Exhausted

(* O_EXCL: a name that exists already cannot be opened. *)
ExtractHeader(f) ==
  /\ NewHeader(f)
  /\ headers[next] = None
  /\ next' = Inc(next)
  /\ headers' = [headers EXCEPT ![next] = [file |-> f, whole |-> TRUE]]
  /\ gch' = [gch EXCEPT ![f] = next]
  /\ job' = [job EXCEPT !.hdr = next]
  /\ pc' = "source"
  /\ UNCHANGED <<cacheVars, stack, ready, sources, objects, libs, procs>>

(* gch_tmp_path is written only when the header is complete. *)
EarlyPath(f) == [gch EXCEPT ![f] = next]  \* mutant: written before the data
PathAfterFailure(f) == gch

(* open fails and there is no file, or write or close fails and it stays. *)
ExtractHeaderFails(f) ==
  /\ NewHeader(f)
  /\ next' = Inc(next)
  /\ \/ UNCHANGED headers
     \/ /\ headers[next] = None
        /\ headers' = [headers EXCEPT ![next] = [file |-> f, whole |-> FALSE]]
  /\ gch' = PathAfterFailure(f)
  /\ Throw
  /\ UNCHANGED <<stack, ready, sources, objects, libs, procs>>

WriteSource ==
  /\ pc = "source"
  /\ ~Exhausted
  /\ next' = Inc(next)
  /\ \E form \in Forms :
       sources' = [sources EXCEPT ![next] =
                     [key |-> job.key, hdr |-> job.hdr, form |-> form]]
  /\ job' = [job EXCEPT !.cxx = next]
  /\ pc' = "fork"
  /\ UNCHANGED <<cacheVars, stack, ready, gch, headers, objects, libs, procs>>

(* fopen returns null and the result is written to: the host crashes. *)
NoSourceFile ==
  /\ pc = "source"
  /\ ~Exhausted
  /\ next' = Inc(next)
  /\ pc' = "dead"
  /\ UNCHANGED <<cacheVars, stack, job, ready, gch, fileVars, libs, procs>>

-----------------------------------------------------------------------------
(* doarr_compile_and_load. *)

Fork ==
  /\ pc = "fork"
  /\ ~Exhausted
  /\ next' = Inc(next)
  /\ job' = [job EXCEPT !.so = next]
  /\ procs' = procs \union
       {[src |-> job.cxx, out |-> next, seen |-> None, st |-> "running"]}
  /\ pc' = "wait"
  /\ UNCHANGED <<cacheVars, stack, ready, gch, fileVars, libs>>

ForkForgotten ==  \* mutant: the parent waits for pid -1
  /\ pc = "fork"
  /\ ~Exhausted
  /\ next' = Inc(next)
  /\ job' = [job EXCEPT !.so = next]
  /\ pc' = "wait"
  /\ UNCHANGED <<cacheVars, stack, ready, gch, fileVars, libs, procs>>

ForkFails ==
  /\ pc = "fork"
  /\ ~Exhausted
  /\ next' = Inc(next)
  /\ job' = [job EXCEPT !.so = next]
  /\ pc' = "remove"
  /\ UNCHANGED <<cacheVars, stack, ready, gch, fileVars, libs, procs>>

(* waitid returns: only an exit with status 0 counts as compiled. *)
Reap(p) ==
  /\ pc = "wait"
  /\ p.out = job.so
  /\ p.st # "running"
  /\ procs' = procs \ {p}
  /\ job' = [job EXCEPT !.ok = (p.st = "ok")]
  /\ pc' = "remove"
  /\ UNCHANGED <<cacheVars, stack, ioVars, fileVars, libs>>

(* waitid fails: EINTR from a handler of the host, or ECHILD where the     *)
(* host ignores SIGCHLD.  The compiler is left to itself.                  *)
WaitIgnored ==  \* mutant: the error of waitid is not looked at
  /\ pc = "wait"
  /\ pc' = "remove"
  /\ job' = [job EXCEPT !.ok = TRUE]
  /\ UNCHANGED <<cacheVars, stack, ioVars, fileVars, libs, procs>>

NamesBack ==  \* mutant: the names of the job are handed out again
  /\ pc = "wait"
  /\ pc' = "remove"
  /\ next' = job.cxx
  /\ UNCHANGED <<cacheVars, stack, job, ready, gch, fileVars, libs, procs>>

WaitFails ==
  /\ pc = "wait"
  /\ pc' = "remove"
  /\ UNCHANGED <<cacheVars, stack, job, ioVars, fileVars, libs, procs>>

(* try_remove only reports its errors: the file may stay. *)
RemoveSource ==
  /\ pc = "remove"
  /\ \E left \in {None, sources[job.cxx]} :
       sources' = [sources EXCEPT ![job.cxx] = left]
  /\ IF job.ok
       THEN pc' = "load" /\ UNCHANGED <<cacheVars, job>>
       ELSE Throw
  /\ UNCHANGED <<stack, ioVars, headers, objects, libs, procs>>

(* dlopen gives the library it already has under this very name, and reads *)
(* the file only when there is none.                                       *)
Opened == IF libs[job.so] # None THEN libs[job.so] ELSE objects[job.so]

RemoveObject ==
  \E left \in {None, objects[job.so]} :
    objects' = [objects EXCEPT ![job.so] = left]

(* dlopen and dlsym succeed: the entry is set, and call runs it. *)
Load ==
  /\ pc = "load"
  /\ Opened # None
  /\ Opened.entry
  /\ libs' = [libs EXCEPT ![job.so] = Opened]
  /\ RemoveObject
  /\ entry' = [entry EXCEPT ![job.key] = job.so]
  /\ stack' = Append(stack, [key |-> job.key, fn |-> job.so])
  /\ job' = NoJob
  /\ pc' = "user"
  /\ UNCHANGED <<cached, ioVars, headers, sources, procs>>

(* dlopen fails, or DOARR_EXPORT is not there and the handle is closed. *)
LoadFails ==
  /\ pc = "load"
  /\ RemoveObject
  /\ Throw
  /\ UNCHANGED <<stack, ioVars, headers, sources, libs, procs>>

-----------------------------------------------------------------------------
(* The compiler: it opens its input, and then writes its output or fails.  *)
(* It needs the whole precompiled header, and a source that is not cut.    *)

Become(p, q) == procs' = (procs \ {p}) \union {q}

CompilerReads(p) ==
  /\ p.st = "running"
  /\ p.seen = None
  /\ sources[p.src] # None
  /\ Become(p, [p EXCEPT !.seen = sources[p.src]])
  /\ UNCHANGED <<cacheVars, stack, pc, job, ioVars, fileVars, libs>>

CompilerSucceeds(p) ==
  /\ p.st = "running"
  /\ p.seen # None
  /\ p.seen.form # "cut"
  /\ headers[p.seen.hdr] = [file |-> FileOf[p.seen.key], whole |-> TRUE]
  /\ objects' = [objects EXCEPT ![p.out] =
                   [key |-> p.seen.key, entry |-> (p.seen.form = "whole")]]
  /\ Become(p, [p EXCEPT !.st = "ok"])
  /\ UNCHANGED <<cacheVars, stack, pc, job, ioVars, headers, sources, libs>>

(* It cannot be executed, finds no input, rejects the code or is killed. *)
CompilerFails(p) ==
  /\ p.st = "running"
  /\ Become(p, [p EXCEPT !.st = "bad"])
  /\ UNCHANGED <<cacheVars, stack, pc, job, ioVars, fileVars, libs>>

Compiler(p) == CompilerReads(p) \/ CompilerSucceeds(p) \/ CompilerFails(p)

-----------------------------------------------------------------------------
(* A dead host does nothing more. *)
Dead == pc = "dead" /\ UNCHANGED vars

UserStep == Leave \/ \E k \in Keys : Reject(k) \/ Hit(k) \/ Miss(k)

PrepareStep ==
  \/ InitIo \/ InitIoFails \/ ReuseHeader
  \/ \E f \in Files : ExtractHeader(f) \/ ExtractHeaderFails(f)
  \/ WriteSource \/ NoSourceFile

BuildStep ==
  \/ Fork \/ ForkFails
  \/ \E p \in procs : Reap(p)
  \/ RemoveSource \/ Load \/ LoadFails

HostStep == PrepareStep \/ BuildStep \/ Abort

Next ==
  \/ UserStep
  \/ HostStep
  \/ WaitFails
  \/ \E p \in procs : Compiler(p)
  \/ Dead

Safety == Init /\ [][Next]_vars

-----------------------------------------------------------------------------
(* Every variable stays in its type: names are never handed out beyond the *)
(* counter's range (tmp_path_inc), and each file holds what its writer     *)
(* puts there.                                                             *)
TypeOK ==
  /\ cached \subseteq Keys
  /\ entry \in [Keys -> Names \union {None}]
  /\ stack \in Seq(Frame)
  /\ pc \in Compiling \union {"user", "dead"}
  /\ job \in Job
  /\ ready \in BOOLEAN
  /\ next \in Names
  /\ gch \in [Files -> Names \union {None}]
  /\ headers \in [Names -> Header \union {None}]
  /\ sources \in [Names -> Source \union {None}]
  /\ objects \in [Names -> Object \union {None}]
  /\ libs \in [Names -> Object \union {None}]
  /\ procs \subseteq Process

(* Whenever the program can call again, no entry of the cache is null: an  *)
(* exception on any path of compile takes the entry try_emplace made away  *)
(* (call.cpp:123-131), so that no later hit calls a null function.         *)
NoNullEntry == pc = "user" => \A k \in cached : entry[k] # None

IsCodeOf(n, k) == n # None /\ libs[n] = [key |-> k, entry |-> TRUE]

(* A cached entry, and every guest body that is running, is code generated *)
(* from the key it stands for, whatever was compiled, orphaned or left     *)
(* behind before: libraries are opened by names and the loader goes by the *)
(* name (io.c:221-240), so this rests on names never coming back.          *)
RunsOwnCode ==
  /\ \A k \in cached : entry[k] = None \/ IsCodeOf(entry[k], k)
  /\ \A i \in DOMAIN stack : IsCodeOf(stack[i].fn, stack[i].key)

(* A recorded gch_tmp_path names the complete header of that very file: a  *)
(* failed extraction is never mistaken for a done one later on             *)
(* (io.c:132-154).                                                         *)
HeaderComplete ==
  \A f \in Files :
    gch[f] # None => headers[gch[f]] = [file |-> f, whole |-> TRUE]

(* No compiler is at work on the object the host believes compiled, nor on *)
(* the source it was made from: orphans of failed waits write elsewhere    *)
(* (io.c:196-199, 226-231).                                                *)
LoadsFinishedObject ==
  job.ok => /\ objects[job.so] # None
            /\ \A p \in procs : p.out # job.so /\ p.src # job.cxx

(* What call promises: a key is compiled once with success, a failure      *)
(* leaves nothing, each body that runs is its caller's.                    *)
CompiledKeys == {k \in cached : entry[k] # None}
Bodies == [i \in DOMAIN stack |-> libs[stack[i].fn].key]
Memo == INSTANCE CallMemo WITH
  compiled <- CompiledKeys, compiling <- job.key, runs <- Bodies
Promise == Memo!MemoSpec

-----------------------------------------------------------------------------
(* The inductive invariant.  A library is right because the object it was  *)
(* read from was written by the job's own compiler from the job's own      *)
(* source; that holds because the names of both were new when the job took *)
(* them, so that compilers left over from earlier jobs read and write      *)
(* elsewhere.                                                              *)

(* The locals of compile that are set, by where it is. *)
JobSet ==
  /\ pc \in Compiling => job.key \in Keys
  /\ pc \in {"source", "fork", "wait", "remove", "load"} => job.hdr \in Names
  /\ pc \in {"fork", "wait", "remove", "load"} => job.cxx \in Names
  /\ pc \in {"wait", "remove", "load"} => job.so \in Names
  /\ pc = "user" => job = NoJob

(* A name the counter has not reached is not in use. *)
NamesFresh ==
  /\ \A n \in Names : n >= next => libs[n] = None /\ objects[n] = None
  /\ \A f \in Files : gch[f] # None => gch[f] < next
  /\ \A p \in procs : p.src < next /\ p.out < next
  /\ pc \in {"fork", "wait", "remove", "load"} => job.cxx < next
  /\ pc \in {"wait", "remove", "load"} => job.so < next

(* The null entry is the one being compiled. *)
NullEntry ==
  /\ \A k \in cached : entry[k] = None => k = job.key
  /\ pc \in Compiling => job.key \in cached /\ entry[job.key] = None

(* What lies under the names of the job is the job's. *)
JobFiles ==
  /\ pc \in {"fork", "wait", "remove", "load"} =>
       sources[job.cxx] = None \/ sources[job.cxx].key = job.key
  /\ pc \in {"wait", "remove", "load"} =>
       /\ libs[job.so] = None
       /\ objects[job.so] = None \/ objects[job.so].key = job.key

(* The compiler of the job is the one that reads its source, and the one   *)
(* that writes its object.                                                 *)
JobCompiler ==
  /\ pc = "fork" => \A p \in procs : p.src # job.cxx
  /\ pc \in {"wait", "remove", "load"} =>
       \A p \in procs : /\ p.src = job.cxx <=> p.out = job.so
                        /\ p.out = job.so => \/ p.seen = None
                                             \/ p.seen.key = job.key

(* Compilers write apart, and one that succeeded has left its object. *)
CompilersApart ==
  /\ \A p, q \in procs : p.out = q.out => p = q
  /\ \A p \in procs : p.st = "ok" => objects[p.out] # None

JobOk ==
  /\ job.ok => pc \in {"remove", "load"}
  /\ pc = "load" => job.ok

(* Between any two steps the job owns its names, and everything the cache  *)
(* and the header paths point at is what its makers left there.            *)
IInv ==
  /\ TypeOK /\ JobSet
  /\ NamesFresh
  /\ NullEntry
  /\ JobFiles
  /\ JobCompiler
  /\ CompilersApart
  /\ JobOk
  /\ LoadsFinishedObject
  /\ RunsOwnCode
  /\ HeaderComplete
=============================================================================
