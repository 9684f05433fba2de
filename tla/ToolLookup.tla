------------------------------ MODULE ToolLookup ----------------------------
(***************************************************************************)
(* The search for the compilers and the linker at the start of dcc         *)
(* (dcc.c): names with a slash first, then the elements of PATH one by     *)
(* one, each opened once for all tools that are still missing.  What is    *)
(* found is kept as a descriptor, and 0 stands for not found.              *)
(*                                                                         *)
(* A place is where a name may lead: 0 the path of a name with a slash,    *)
(* e > 0 the e-th element of PATH.  Tool 1 is the C++ compiler.            *)
(***************************************************************************)
EXTENDS Integers, FiniteSets, FiniteSetsExt

CONSTANTS
  NumTools,
  NumElems,  \* elements of PATH
  Limit,     \* descriptors a process may have
  Kinds      \* what is found under the name of a tool

SizeAssumption ==
  /\ NumTools \in Nat \ {0} /\ NumElems \in Nat /\ Limit \in Nat \ (0 .. 2)
  /\ Kinds \subseteq {"absent", "directory", "unreadable file", "readable file"}

VARIABLES
  disk,     \* [place, tool]: what is there
  dirs,     \* what the elements of PATH are
  slash,    \* tools with a slash in the name
  fds,      \* the descriptors: what they are open for
  exec_fd,  \* of each tool
  cxx,      \* the compiler recorded for the run time
  elem,     \* the element of PATH
  i,        \* the tool
  pc

world == <<disk, dirs, slash>>
vars == <<world, fds, exec_fd, cxx, elem, i, pc>>

Tools == 1 .. NumTools
Elems == 1 .. NumElems

Std == [dev |-> "inherited"]
DevNull == [dev |-> "/dev/null"]
DevFd == [dev |-> "/dev/fd"]
Dir(e) == [dir |-> e]
File(place, t) == [file |-> <<place, t>>]
NoFile == [dev |-> "none"]

Init ==
  /\ disk \in [(0 .. NumElems) \X Tools -> Kinds]
  /\ dirs \in [Elems -> {"directory", "missing", "empty name"}]
  /\ slash \in SUBSET Tools
  /\ \E closed \in SUBSET (0 .. 2) : fds = [fd \in (0 .. 2) \ closed |-> Std]
  /\ exec_fd = [t \in Tools |-> 0]
  /\ cxx = NoFile
  /\ elem = 1 /\ i = 1 /\ pc = "main"

-----------------------------------------------------------------------------
(* Descriptors are the lowest that are free. *)
Free == (0 .. Limit - 1) \ DOMAIN fds

Open(what) ==
  /\ Free # {}
  /\ fds' = [fd \in DOMAIN fds \union {Min(Free)} |-> IF fd = Min(Free) THEN what ELSE fds[fd]]

OpenFails == Free = {} /\ UNCHANGED fds

Goto(label) == pc' = label
Fail == Goto("failed")

AnyDescriptor(fd) == TRUE  \* mutant: closed standard streams are not noticed

AfterStandard(fd) == fd >= 3

OpenDevNull ==
  /\ pc = "main"
  /\ \/ /\ Open(DevNull)
        /\ Goto(IF AfterStandard(Min(Free)) THEN "dev_fd" ELSE "failed")
     \/ OpenFails /\ Fail
  /\ UNCHANGED <<world, exec_fd, cxx, elem, i>>

OpenDevFd ==
  /\ pc = "dev_fd"
  /\ \/ Open(DevFd) /\ Goto("slash")
     \/ OpenFails /\ Fail
  /\ UNCHANGED <<world, exec_fd, cxx, elem, i>>

-----------------------------------------------------------------------------
(* A regular file with a permission to read, 0444; those to execute are    *)
(* not looked at.                                                          *)
is_executable(kind) == kind = "readable file"

Take(place) ==
  /\ Open(File(place, i))
  /\ exec_fd' = [exec_fd EXCEPT ![i] = Min(Free)]

(* Behind the last tool the search goes on at an element of PATH. *)
NextTool(e) ==
  IF i < NumTools THEN i' = i + 1 /\ UNCHANGED <<pc, elem>>
                  ELSE i' = 1 /\ elem' = e /\ Goto("path")

(* find_tools_slash *)
FindSlash ==
  /\ pc = "slash"
  /\ \/ /\ i \notin slash
        /\ UNCHANGED <<fds, exec_fd>>
        /\ NextTool(elem)
     \/ /\ i \in slash /\ is_executable(disk[<<0, i>>])
        /\ Take(0)
        /\ NextTool(elem)
     \/ /\ i \in slash
        /\ ~is_executable(disk[<<0, i>>]) \/ Free = {}
        /\ Fail /\ UNCHANGED <<fds, exec_fd, i, elem>>
  /\ UNCHANGED <<world, cxx>>

NextElem == elem' = elem + 1 /\ Goto("path")

(* find_tools_path: opens the element... For an empty name it takes        *)
(* AT_FDCWD, which is negative, so that it returns at once, as if opening  *)
(* had failed.                                                             *)
OpenElem ==
  /\ pc = "path" /\ elem <= NumElems
  /\ \/ dirs[elem] = "directory" /\ Open(Dir(elem)) /\ Goto("tools") /\ UNCHANGED elem
     \/ dirs[elem] \in {"missing", "empty name"} /\ NextElem /\ UNCHANGED fds
     \/ dirs[elem] = "directory" /\ OpenFails /\ NextElem
  /\ UNCHANGED <<world, exec_fd, cxx, i>>

Missing(t) == exec_fd[t] = 0

(* ...and looks every missing tool up in it. *)
FindSome ==  \* mutant: the search of an element ends where a tool is not in it
  /\ pc = "tools"
  /\ LET here == Missing(i) /\ Free # {} /\ is_executable(disk[<<elem, i>>])
     IN  \/ here /\ Take(elem) /\ NextTool(elem + 1)
         \/ ~Missing(i) /\ UNCHANGED <<fds, exec_fd>> /\ NextTool(elem + 1)
         \/ Missing(i) /\ ~here /\ UNCHANGED <<fds, exec_fd>> /\ i' = 1 /\ NextElem
  /\ UNCHANGED <<world, cxx>>

FindInElem ==
  /\ pc = "tools"
  /\ \/ /\ Missing(i) /\ Free # {} /\ is_executable(disk[<<elem, i>>])
        /\ Take(elem)
     \/ /\ Missing(i) /\ Free # {} /\ disk[<<elem, i>>] # "absent" /\ ~is_executable(disk[<<elem, i>>])
        /\ UNCHANGED <<fds, exec_fd>>  \* opened, and closed again
     \/ /\ ~Missing(i) \/ Free = {} \/ disk[<<elem, i>>] = "absent"
        /\ UNCHANGED <<fds, exec_fd>>
  /\ NextTool(elem + 1)
  /\ UNCHANGED <<world, cxx>>

(* find_all_tools reports, fd_to_abs_path resolves, and main closes dev_fd. *)
Report ==
  /\ pc = "path" /\ elem > NumElems
  /\ \/ /\ \E t \in Tools : Missing(t)
        /\ Goto("none") /\ UNCHANGED <<fds, cxx>>
     \/ /\ ~\E t \in Tools : Missing(t)
        /\ Goto("found")
        /\ cxx' = fds[exec_fd[1]]
        /\ fds' = [fd \in {f \in DOMAIN fds : fds[f] # DevFd} |-> fds[fd]]
  /\ UNCHANGED <<world, exec_fd, elem, i>>

Over == pc \in {"found", "none", "failed"} /\ UNCHANGED vars

Next == OpenDevNull \/ OpenDevFd \/ FindSlash \/ OpenElem \/ FindInElem \/ Report \/ Over

Spec == Init /\ [][Next]_vars

-----------------------------------------------------------------------------
Opens(e) == dirs[e] = "directory"

Candidates(t) == {e \in Elems : Opens(e) /\ disk[<<e, t>>] = "readable file"}
Place(t) == IF t \in slash THEN 0 ELSE Min(Candidates(t))

(* When dcc goes on, every tool is the one that was named with a slash, or *)
(* the first regular file on PATH that may be read, and the compiler that  *)
(* is recorded for the run time is the one used now; also when descriptors *)
(* have become short on the way (dcc.c:49-138, 226).                       *)
FirstOnPath ==
  pc = "found" =>
    /\ \A t \in Tools : (t \in slash \/ Candidates(t) # {}) /\ fds[exec_fd[t]] = File(Place(t), t)
    /\ cxx = File(Place(1), 1)

(* No tool is reported missing that is there, in a directory named on      *)
(* PATH, unless descriptors have run out: each tool that is missing has no *)
(* slash in its name and no candidate (dcc.c:126-134).                     *)
ReportedMissing ==
  pc = "none" =>
    Free = {} \/ \A t \in Tools : Missing(t) => t \notin slash /\ Candidates(t) = {}

(* No tool, directory or device gets a descriptor that a child expects to  *)
(* be its standard input, output or errors, unless dcc gives up at once    *)
(* (dcc.c:175-184).                                                        *)
StandardStreams ==
  \A fd \in DOMAIN fds : fd <= 2 => fds[fd] = Std \/ pc = "failed"

(* Every descriptor is one that is needed, or an element of PATH: what was *)
(* looked at and refused has been closed (dcc.c:79-92).                    *)
DescriptorsKept ==
  \A fd \in DOMAIN fds :
    fds[fd] \in {Std, DevNull, DevFd} \union {Dir(e) : e \in Elems}
      \/ \E t \in Tools : exec_fd[t] = fd /\ fds[fd] \in {File(p, t) : p \in 0 .. NumElems}

(* What a tool has is open, and no other tool has it, so that a child      *)
(* executes the file that was looked up for it (dcc.c:49-92).              *)
OneEach ==
  \A t \in Tools : ~Missing(t) =>
    /\ exec_fd[t] \in DOMAIN fds
    /\ \A s \in Tools : exec_fd[s] = exec_fd[t] => s = t

(* The right tools are found, or it is right that one is missing           *)
(* (dcc.c:49-138, 226).                                                    *)
ToolsRight == FirstOnPath /\ ReportedMissing

(* Descriptors are those of tools and directories, apart from each other   *)
(* and from the standard streams (dcc.c:79-92, 175-184).                   *)
DescriptorsRight == StandardStreams /\ DescriptorsKept /\ OneEach
=============================================================================
