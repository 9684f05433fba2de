------------------------------- MODULE TmpDir -------------------------------
(***************************************************************************)
(* The life of the directory Runtime works in: doarr_io_init (io.c:29-91). *)
(* The host makes it, and forks a cleaner that removes it when nobody can  *)
(* use it any more.  The cleaner learns this from a pipe nobody writes to: *)
(* the host leaks the write end, its children inherit it, and the read     *)
(* ends when the last holder has ended, in whatever way.                   *)
(*                                                                         *)
(* A failed attempt throws, and the next call tries again with another     *)
(* directory and another pipe (the local static of GLOBAL_io_ctx).         *)
(***************************************************************************)
EXTENDS Naturals

CONSTANTS
  Host, Cleaner,
  Children,     \* what the host may start: compilers, and children of its own
  MaxAttempts   \* bound: calls of doarr_io_init that get past mkdtemp

ASSUME ProcessAssumption ==
  Host # Cleaner /\ {Host, Cleaner} \intersect Children = {}
ASSUME AttemptsAssumption == MaxAttempts \in Nat

Attempts == 1 .. MaxAttempts
Initialising == {"made", "piped", "forked"}

VARIABLES
  host,      \* "start", a step of doarr_io_init, "ready" or "gone"
  at,        \* the latest attempt, 0 before the first
  dir,       \* "none", "there", "gone", or "stuck" when removing it failed
  cleaner,   \* "none", its steps, or "dead"
  child,     \* "none", "compiler", "other" or "ended"
  writers    \* who holds the write end of each attempt's pipe

vars == <<host, at, dir, cleaner, child, writers>>

Init ==
  /\ host = "start"
  /\ at = 0
  /\ dir = [a \in Attempts |-> "none"]
  /\ cleaner = "none"
  /\ child = [c \in Children |-> "none"]
  /\ writers = [a \in Attempts |-> {}]

(* fork copies every descriptor, and exec keeps this one: pipe() leaves    *)
(* FD_CLOEXEC off.                                                         *)
InheritedOnExec(p) == writers  \* mutant: the pipe is close-on-exec
Inherited(p) ==
  [a \in Attempts |-> IF Host \in writers[a] THEN writers[a] \union {p}
                                             ELSE writers[a]]

Closed(p) == [a \in Attempts |-> writers[a] \ {p}]

RemoveDir == \E left \in {"gone", "stuck"} : dir' = [dir EXCEPT ![at] = left]

-----------------------------------------------------------------------------
(* doarr_io_init in the host. *)

MakeDir ==
  /\ host = "start"
  /\ at < MaxAttempts
  /\ at' = at + 1
  /\ dir' = [dir EXCEPT ![at + 1] = "there"]
  /\ host' = "made"
  /\ UNCHANGED <<cleaner, child, writers>>

Pipe ==
  /\ host = "made"
  /\ writers' = [writers EXCEPT ![at] = {Host}]
  /\ host' = "piped"
  /\ UNCHANGED <<at, dir, cleaner, child>>

PipeFailsOnly ==  \* mutant: returns at once
  /\ host = "made"
  /\ host' = "start"
  /\ UNCHANGED <<at, dir, cleaner, child, writers>>

PipeFails ==
  /\ host = "made"
  /\ RemoveDir
  /\ host' = "start"
  /\ UNCHANGED <<at, cleaner, child, writers>>

Fork ==
  /\ host = "piped"
  /\ cleaner' = "unblocked"
  /\ writers' = [a \in Attempts |-> IF Host \in writers[a]
                                      THEN writers[a] \union {Cleaner}
                                      ELSE writers[a]]
  /\ host' = "forked"
  /\ UNCHANGED <<at, dir, child>>

(* Both ends of the pipe stay open in the host. *)
ForkFails ==
  /\ host = "piped"
  /\ RemoveDir
  /\ host' = "start"
  /\ UNCHANGED <<at, cleaner, child, writers>>

(* The read end is closed, the write end is leaked. *)
Return ==
  /\ host = "forked"
  /\ host' = "ready"
  /\ UNCHANGED <<at, dir, cleaner, child, writers>>

HostInit == MakeDir \/ Pipe \/ PipeFails \/ Fork \/ ForkFails \/ Return

-----------------------------------------------------------------------------
(* The rest of the host's life. *)

(* Compilers need the directory; what the program starts itself may not,   *)
(* and may begin before there is one.                                      *)
StartChild(c) ==
  /\ child[c] = "none"
  /\ \E kind \in {"compiler", "other"} :
       /\ host \in IF kind = "compiler" THEN {"ready"} ELSE {"start", "ready"}
       /\ child' = [child EXCEPT ![c] = kind]
  /\ writers' = Inherited(c)
  /\ UNCHANGED <<host, at, dir, cleaner>>

ChildEnds(c) ==
  /\ child[c] \in {"compiler", "other"}
  /\ child' = [child EXCEPT ![c] = "ended"]
  /\ writers' = Closed(c)
  /\ UNCHANGED <<host, at, dir, cleaner>>

(* Exit, crash or kill, at any point. *)
HostEnds ==
  /\ host # "gone"
  /\ host' = "gone"
  /\ writers' = Closed(Host)
  /\ UNCHANGED <<at, dir, cleaner, child>>

-----------------------------------------------------------------------------
(* The cleaner. *)

(* sigprocmask fails, or a signal to the process group comes before it. *)
CleanerDies ==
  /\ cleaner = "unblocked"
  /\ cleaner' = "dead"
  /\ writers' = Closed(Cleaner)
  /\ UNCHANGED <<host, at, dir, child>>

BlockSignals ==
  /\ cleaner = "unblocked"
  /\ cleaner' = "blocked"
  /\ UNCHANGED <<host, at, dir, child, writers>>

KeepWriteEnd ==  \* mutant: the cleaner is one of those it waits for
  /\ cleaner = "blocked"
  /\ cleaner' = "reading"
  /\ UNCHANGED <<host, at, dir, child, writers>>

CloseWriteEnd ==
  /\ cleaner = "blocked"
  /\ cleaner' = "reading"
  /\ writers' = [writers EXCEPT ![at] = @ \ {Cleaner}]
  /\ UNCHANGED <<host, at, dir, child>>

(* Nobody ever writes, so read returns at the end of file. *)
ReadEnds ==
  /\ cleaner = "reading"
  /\ writers[at] = {}
  /\ cleaner' = "removing"
  /\ UNCHANGED <<host, at, dir, child, writers>>

(* execve of rm -rf; it fails, or rm does, and the directory stays. *)
Remove ==
  /\ cleaner = "removing"
  /\ RemoveDir
  /\ cleaner' = "done"
  /\ UNCHANGED <<host, at, child, writers>>

CleanerStep == CloseWriteEnd \/ ReadEnds \/ Remove

-----------------------------------------------------------------------------
(* The program has ended; the cleaner may be at work yet. *)
Over ==
  /\ host = "gone"
  /\ \A c \in Children : child[c] \in {"none", "ended"}
  /\ UNCHANGED vars

Next ==
  \/ HostInit \/ HostEnds
  \/ \E c \in Children : StartChild(c) \/ ChildEnds(c)
  \/ CleanerDies \/ BlockSignals \/ CleanerStep
  \/ Over

(* The cleaner runs on once no signal can reach it, and children end. *)
Fairness ==
  /\ WF_vars(CleanerStep)
  /\ \A c \in Children : WF_vars(ChildEnds(c))

Safety == Init /\ [][Next]_vars
Spec == Safety /\ Fairness

-----------------------------------------------------------------------------
(* The types of the variables. *)
Types ==
  /\ host \in Initialising \union {"start", "ready", "gone"}
  /\ at \in 0 .. MaxAttempts
  /\ dir \in [Attempts -> {"none", "there", "gone", "stuck"}]
  /\ cleaner \in {"none", "unblocked", "blocked", "reading", "removing",
                  "done", "dead"}
  /\ child \in [Children -> {"none", "compiler", "other", "ended"}]
  /\ writers \in [Attempts -> SUBSET ({Host, Cleaner} \union Children)]

(* The directory is there as long as the host works in it, and as long as  *)
(* a compiler does, the ones the host has died or stopped waiting for      *)
(* included: they hold the pipe open (io.c:62-68, 82-84).                  *)
InUseIsThere ==
  host \in Initialising \union {"ready"} \/ (\E c \in Children : child[c] = "compiler")
    => at \in Attempts /\ dir[at] = "there"

(* A failed initialisation takes its directory away: when the host tries   *)
(* again, or gives up, at most the latest directory is left, and that only *)
(* when the initialisation succeeded or rmdir failed (io.c:38-51).         *)
AttemptsUndone ==
  \A a \in Attempts : dir[a] = "there" => a = at /\ host # "start"

(* Once its cleaner has blocked signals, the directory of a host that      *)
(* ended, however it ended, is removed (io.c:52-80).                       *)
CleanedUp ==
  (host = "gone" /\ cleaner \in {"blocked", "reading", "removing"})
    ~> (at \in Attempts /\ dir[at] \in {"gone", "stuck"})

(* Holding the write end is what keeps the directory: whoever works in it  *)
(* holds it, so the cleaner's read ends only after the last of them.       *)
Holding ==
  /\ host \in Initialising \union {"ready"} => at \in Attempts /\ dir[at] = "there"
  /\ host \in {"piped", "forked", "ready"} => Host \in writers[at]
  /\ \A c \in Children : child[c] = "compiler" =>
       /\ at \in Attempts /\ dir[at] = "there"
       /\ c \in writers[at]
       /\ host \in {"ready", "gone"}

Cleaning ==
  /\ cleaner # "none" => at \in Attempts /\ host \in {"forked", "ready", "gone"}
  /\ cleaner \in {"removing", "done"} =>
       host = "gone" /\ \A c \in Children : child[c] # "compiler"

DirInv == Types /\ Holding /\ Cleaning /\ AttemptsUndone
=============================================================================
