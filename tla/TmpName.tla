------------------------------- MODULE TmpName ------------------------------
(***************************************************************************)
(* The buffer of doarr_io_ctx, character by character (io.c, io.h): the    *)
(* name of the temporary directory, a separator, and a counter in digits   *)
(* 'a' to 'z' that tmp_path_inc adds one to.  While the directory is made  *)
(* the separator is a terminator, so that the same characters are first    *)
(* the name of the directory and then those of the files in it.            *)
(*                                                                         *)
(* Letters are their digits, and the other characters are negative; the    *)
(* name of the directory is one character.                                 *)
(***************************************************************************)
EXTENDS Integers, Sequences, SequencesExt, Numbers

CONSTANTS
  Base,   \* letters: 26
  Digits  \* letters of the counter: 13

SizeAssumption == Base \in Nat \ {0, 1} /\ Digits \in Nat \ {0}

VARIABLES
  chars,    \* tmp_path
  c,        \* the pointer of tmp_path_inc
  pc,
  removed,  \* what the cleaner is to remove
  given     \* paths of files, in the order in which they were made

vars == <<chars, c, pc, removed, given>>

Directory == -1
NUL == -2
Slash == -9

Separator == 2
LastChar == Separator + Digits  \* tmp_path_size - 2
Size == LastChar + 1

-----------------------------------------------------------------------------
(* tmp_path_template *)
Init ==
  /\ chars = <<Directory, NUL>> \o [k \in 1 .. Digits |-> 0] \o <<NUL>>
  /\ c = 0 /\ pc = "init"
  /\ removed = <<>> /\ given = <<>>

(* The string at the beginning of the buffer. *)
String(s) == SubSeq(s, 1, SelectInSeq(s, LAMBDA ch : ch = NUL) - 1)

Set(s, k, x) == [s EXCEPT ![k] = x]

Forked(s) == s

(* doarr_io_init, as far as the buffer goes: the child has a copy of it. *)
Initialise ==
  /\ pc = "init"
  /\ removed' = String(Forked(chars))
  /\ chars' = Set(chars, Separator, Slash)
  /\ pc' = "use"
  /\ UNCHANGED <<c, given>>

(* doarr_tmp_path, and the copy in doarr_compile_and_load: the path is in  *)
(* the hands of the caller when tmp_path_inc has returned.                 *)
TmpPath ==
  /\ pc = "use"
  /\ c' = LastChar
  /\ pc' = "carry"
  /\ given' = Append(given, String(chars))
  /\ UNCHANGED <<chars, removed>>

NeverReset(s, k) == s  \* mutant: trailing letters are passed over only

Reset(s, k) == Set(s, k, 0)

Carry ==
  /\ pc = "carry"
  /\ chars[c] = Base - 1
  /\ chars' = Reset(chars, c)
  /\ c' = c - 1
  /\ UNCHANGED <<pc, removed, given>>

Overflow(k) == chars[k] = Slash

(* abort: the path just copied is never used. *)
Abort ==
  /\ pc = "carry"
  /\ Overflow(c)
  /\ pc' = "aborted"
  /\ given' = Front(given)
  /\ UNCHANGED <<chars, c, removed>>

Increment ==
  /\ pc = "carry"
  /\ ~Overflow(c) /\ chars[c] # Base - 1
  /\ chars' = Set(chars, c, chars[c] + 1)
  /\ pc' = "use"
  /\ UNCHANGED <<c, removed, given>>

Over == pc = "aborted" /\ UNCHANGED vars

Next == Initialise \/ TmpPath \/ Carry \/ Abort \/ Increment \/ Over

Spec == Init /\ [][Next]_vars

-----------------------------------------------------------------------------
Value(path) == Number(Base, SubSeq(path, Separator + 1, Len(path)))

(* The buffer is always a directory, a separator and a whole counter, and  *)
(* the pointer stays in it: no carry reaches the directory or leaves the   *)
(* terminator behind (io.c:101-112).                                       *)
BufferKept ==
  /\ Len(chars) = Size /\ chars[1] = Directory /\ chars[Size] = NUL
  /\ chars[Separator] = (IF pc = "init" THEN NUL ELSE Slash)
  /\ \A k \in 1 .. Size : k \in Separator + 1 .. LastChar => chars[k] \in 0 .. Base - 1
  /\ pc = "carry" => c \in Separator .. LastChar

(* The names are those of the counter of Runtime, in its order, so that    *)
(* none is given out twice, and the counter stops the host at its end,     *)
(* when every name but the last has been given out (io.c:93-113, 125-129,  *)
(* 221-222).                                                               *)
NamesInOrder ==
  /\ \A n \in DOMAIN given : Len(given[n]) = LastChar /\ Value(given[n]) = n - 1
  /\ pc = "aborted" => Len(given) = Powers(Base)[Digits] - 1

(* The cleaner removes the directory itself, and all files are in it: the  *)
(* separator is set after the cleaner has its copy, and before any file    *)
(* gets its name (io.c:45-75, 89).                                         *)
RemovedIsParent ==
  /\ pc # "init" => removed = <<Directory>>
  /\ \A n \in DOMAIN given : SubSeq(given[n], 1, Separator) = removed \o <<Slash>>

(* Names are new, come in order, and lie in the directory that is removed  *)
(* (io.c:45-129).                                                          *)
NamesRight == BufferKept /\ NamesInOrder /\ RemovedIsParent
=============================================================================
