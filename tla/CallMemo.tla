------------------------------ MODULE CallMemo ------------------------------
(***************************************************************************)
(* What doarr::internal::call promises to the program that links libdoarr. *)
(* A guest call is identified by its cache key.  A key is compiled at most *)
(* once with success; a compilation that fails leaves no trace; and every  *)
(* guest body that runs is the one its caller named, calls made from       *)
(* inside a guest body included.  How files, names, compiler processes and *)
(* loaded libraries bring this about is Runtime's business.                *)
(***************************************************************************)
EXTENDS Naturals, Sequences

CONSTANTS
  Keys,       \* cache keys, up to equality
  None        \* no key is being compiled

VARIABLES
  compiled,   \* keys whose compilation has succeeded
  compiling,  \* the key being compiled, or None
  runs        \* keys of the guest bodies in progress, innermost last

memoVars == <<compiled, compiling, runs>>

Init ==
  /\ compiled = {}
  /\ compiling = None
  /\ runs = <<>>

(* A call to a key that was compiled before runs at once. *)
Hit(k) ==
  /\ compiling = None
  /\ k \in compiled
  /\ runs' = Append(runs, k)
  /\ UNCHANGED <<compiled, compiling>>

(* The first call to a key, or the first after a failure, compiles it. *)
Miss(k) ==
  /\ compiling = None
  /\ k \notin compiled
  /\ compiling' = k
  /\ UNCHANGED <<compiled, runs>>

Compiled(k) ==
  /\ compiling = k
  /\ compiling' = None
  /\ compiled' = compiled \union {k}
  /\ runs' = Append(runs, k)

CompilationFails(k) ==
  /\ compiling = k
  /\ compiling' = None
  /\ UNCHANGED <<compiled, runs>>

(* The innermost guest body returns or throws. *)
Leave ==
  /\ compiling = None
  /\ runs # <<>>
  /\ runs' = SubSeq(runs, 1, Len(runs) - 1)
  /\ UNCHANGED <<compiled, compiling>>

Next ==
  \/ \E k \in Keys : Hit(k) \/ Miss(k) \/ Compiled(k) \/ CompilationFails(k)
  \/ Leave

MemoSpec == Init /\ [][Next]_memoVars
=============================================================================
