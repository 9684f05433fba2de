------------------------------- MODULE Literals -----------------------------
(***************************************************************************)
(* The text of raw expressions (expr_all.cpp): integers are written from   *)
(* the right into a buffer of fixed size, characters as themselves or as   *)
(* integers, and qualified names are checked by a pointer that runs        *)
(* through them.  A text is given on with its terminator.                  *)
(*                                                                         *)
(* Characters are their ASCII codes; pointers are indices from 1.          *)
(***************************************************************************)
EXTENDS Integers, Sequences, Numbers

CONSTANTS
  Bytes,    \* sizeof (size_t), in bytes of 8 bits
  Ints,     \* values of type size_t to be written
  Chars,    \* values of type char, which is signed
  Names     \* strings of characters, without their terminators

Modulus == Powers(256)[Bytes]

ValuesAssumption ==
  /\ Bytes \in Nat \ {0}
  /\ Ints \subseteq 0 .. Modulus - 1 /\ Chars \subseteq -128 .. 127
  /\ Names \subseteq Seq((-128 .. 127) \ {0})

VARIABLES
  job,    \* what is asked for: its kind and its value
  pc,
  p,      \* the pointer, into the buffer or into the name
  value,  \* what remains of an integer
  str,    \* the buffer
  text    \* of the raw expression

vars == <<job, pc, p, value, str, text>>

NUL == 0
Quote == 39
Backslash == 92
Colon == 58
None == <<>>

HexSize == 2 * Bytes + 1  \* mutant: room for hexadecimal digits

Size == 3 * Bytes + 1

Asked(kind, what) == job = [kind |-> kind, value |-> what]

Init ==
  /\ p = 1 /\ value = 0 /\ str = [k \in 1 .. Size |-> NUL] /\ text = None
  /\ \/ \E n \in Ints : Asked("int", n) /\ pc = "int"
     \/ \E c \in Chars : Asked("char", c) /\ pc = "char"
     \/ \E name \in Names : Asked("name", name) /\ pc = "name"

-----------------------------------------------------------------------------
(* int_expr *)

Put(n) ==
  /\ value' = n
  /\ str' = [str EXCEPT ![Size] = NUL]
  /\ p' = Size
  /\ pc' = "digit"
  /\ UNCHANGED <<job, text>>

Integer == pc = "int" /\ Put(job.value)

Digit ==
  /\ pc = "digit"
  /\ p' = p - 1
  /\ str' = [k \in DOMAIN str |-> IF k = p - 1 THEN 48 + (value % 10) ELSE str[k]]
  /\ value' = value \div 10
  /\ pc' = IF value \div 10 = 0 THEN "written" ELSE "digit"
  /\ UNCHANGED <<job, text>>

Written ==
  /\ pc = "written"
  /\ text' = SubSeq(str, p, Size)
  /\ pc' = "done"
  /\ UNCHANGED <<job, p, value, str>>

(* char_expr *)
Printable(c) == c \in 32 .. 126  \* mutant: quotes are not seen

Plain(c) == c \in (32 .. 126) \ {Quote, Backslash}

Character ==
  /\ pc = "char"
  /\ \/ /\ Plain(job.value)
        /\ text' = <<Quote, job.value, Quote, NUL>>
        /\ pc' = "done"
        /\ UNCHANGED <<job, p, value, str>>
     \/ /\ ~Plain(job.value)
        /\ Put(job.value % Modulus)

-----------------------------------------------------------------------------
(* qname_expr, which aborts when valid_qname_end returns null. *)

At(k) == IF k \in DOMAIN job.value THEN job.value[k] ELSE NUL

valid_ident_start(c) == c \in (65 .. 90) \union {95} \union (97 .. 122)

valid_ident_cont(c) == valid_ident_start(c) \/ c \in 48 .. 57

Move(label, k) == pc' = label /\ p' = k /\ UNCHANGED <<job, value, str, text>>
Null == Move("aborted", p)

Name ==
  /\ pc = "name"
  /\ \/ At(1) = Colon /\ At(2) = Colon /\ Move("identifier", 3)
     \/ At(1) = Colon /\ At(2) # Colon /\ Null
     \/ At(1) # Colon /\ Move("identifier", 1)

Identifier ==
  /\ pc = "identifier"
  /\ IF valid_ident_start(At(p)) THEN Move("rest", p + 1) ELSE Null

Rest ==
  /\ pc = "rest"
  /\ IF valid_ident_cont(At(p)) THEN Move("rest", p + 1) ELSE Move("after", p)

OneColon(k) == TRUE  \* mutant: the second colon is not checked

Colons(k) == At(k + 1) = Colon

WithEnd == Append(SubSeq(job.value, 1, p - 1), NUL)

After ==
  /\ pc = "after"
  /\ \/ At(p) = Colon /\ Colons(p) /\ Move("identifier", p + 2)
     \/ At(p) = Colon /\ ~Colons(p) /\ Null
     \/ At(p) \notin {Colon, NUL} /\ Null
     \/ /\ At(p) = NUL
        /\ text' = WithEnd
        /\ pc' = "done" /\ p' = p + 1
        /\ UNCHANGED <<job, value, str>>

Over == pc \in {"done", "aborted"} /\ UNCHANGED vars

Next == Integer \/ Digit \/ Written \/ Character \/ Name \/ Identifier \/ Rest \/ After \/ Over

Spec == Init /\ [][Next]_vars

-----------------------------------------------------------------------------
(* Digits never leave the buffer: 3 for each byte are enough               *)
(* (expr_all.cpp:357-363).                                                 *)
InBuffer == pc \in {"digit", "written"} => p \in 1 .. Size

(* No character behind the terminator of a name is looked at               *)
(* (expr_all.cpp:377-404).                                                 *)
InName == pc \in {"identifier", "rest", "after"} => p \in 1 .. Len(job.value) + 1

Decimal(t) == Number(10, [k \in 1 .. Len(t) - 1 |-> t[k] - 48])
SignedChar(n) == IF n % 256 < 128 THEN n % 256 ELSE (n % 256) - 256

(* The literal, read by a C++ compiler and converted to the type it stands *)
(* for, is the value, and a quoted character needs no escape               *)
(* (expr_all.cpp:345-365).  Where C++ refuses to narrow, as in template    *)
(* arguments, a negative character is an error instead.                    *)
ReadsBack ==
  pc = "done" =>
    CASE job.kind = "int" -> Decimal(text) = job.value
      [] job.kind = "char" ->
           IF text[1] = Quote
             THEN text[2] = job.value /\ text[2] \notin {Quote, Backslash, 10}
             ELSE SignedChar(Decimal(text)) = job.value
      [] OTHER -> TRUE

Letters == (65 .. 90) \union {95} \union (97 .. 122)

(* Identifiers joined and perhaps preceded by pairs of colons. *)
Qualified(s) ==
  LET IsColon(k) == k \in DOMAIN s /\ s[k] = Colon IN
  /\ s # <<>> /\ ~IsColon(Len(s))
  /\ \A k \in DOMAIN s :
       IF IsColon(k) THEN IsColon(k - 1) # IsColon(k + 1)
       ELSE s[k] \in Letters \/ (s[k] \in 48 .. 57 /\ k > 1 /\ ~IsColon(k - 1))

(* Exactly the qualified names are accepted, the others stop the program   *)
(* (expr_all.cpp:377-414).                                                 *)
ExactlyNames ==
  job.kind = "name" =>
    /\ pc = "done" => Qualified(job.value)
    /\ pc = "aborted" => ~Qualified(job.value)

(* Every text has its terminator and nothing behind it: comparing and      *)
(* writing raw expressions go on until they meet it (expr_all.cpp:265-284, *)
(* 350, 364, 414).                                                         *)
Terminated ==
  pc = "done" => \A k \in 1 .. Len(text) + 1 : k = Len(text) <=> k \in DOMAIN text /\ text[k] = NUL

(* No pointer runs out of its text, now or in those who read the text      *)
(* later (expr_all.cpp:265-284, 357-404).                                  *)
InBounds == InBuffer /\ InName /\ Terminated
=============================================================================
