------------------------------- MODULE GenText ------------------------------
(***************************************************************************)
(* What dcc writes into the generated C file and does not know beforehand  *)
(* (dcc_gen.c): the arguments for the compiler at run time, and the bytes  *)
(* of the precompiled header.  Both become string literals, that a C       *)
(* compiler reads back (C11 5.1.1.2, 6.4.4.4).                             *)
(*                                                                         *)
(* Characters are their ASCII codes.                                       *)
(***************************************************************************)
EXTENDS Integers, Sequences

CONSTANTS
  Args,         \* arguments, as sequences of bytes other than 0
  Headers,      \* headers, as sequences of bytes
  bytes_per_line

BytesAssumption ==
  /\ \A a \in Args : a \in Seq(1 .. 255)
  /\ \A h \in Headers : h \in Seq(0 .. 255)
  /\ bytes_per_line \in Nat \ {0}

(* In C a hexadecimal escape takes in every hexadecimal digit behind it, and *)
(* dcc does not see to it that there is none (dcc_gen.c:93).                *)
Hex(c) ==
  CASE c \in 48 .. 57  -> c - 48
    [] c \in 97 .. 102 -> c - 87
    [] c \in 65 .. 70  -> c - 55
    [] OTHER           -> 16

EscapesApart ==
  \A a \in Args : \A k \in 1 .. Len(a) - 1 : a[k] \notin 32 .. 126 => Hex(a[k + 1]) = 16

VARIABLES
  job,    \* "argument" or "header"
  data,   \* what is written
  p,      \* how much of it has been written
  out     \* the literal, from its first quote

vars == <<job, data, p, out>>

Quote == 34
QuestionMark == 63
Backslash == 92
Newline == 10
x == 120
HexDigit(d) == IF d < 10 THEN 48 + d ELSE 87 + d

Init ==
  /\ p = 0
  /\ \/ job = "argument" /\ data \in Args /\ out = <<Quote>>
     \/ job = "header" /\ data \in Headers /\ out = <<Quote, Backslash, Newline>>

-----------------------------------------------------------------------------
Writing(what) == job = what /\ p < Len(data)

Byte(k) == data[p + k]

Write(n, text) == out' = out \o text /\ p' = p + n /\ UNCHANGED <<job, data>>

(* generate_c_part1: the next character of an argument. *)
QuotesOnly(c) == c = Quote  \* mutant: a backslash needs no backslash

Escaped(c) == c \in {Quote, Backslash}

StartsTrigraph == Byte(1) = QuestionMark /\ p + 1 < Len(data) /\ Byte(2) = QuestionMark

WriteCharacter ==
  /\ Writing("argument")
  /\ LET c == Byte(1) IN
       CASE StartsTrigraph -> Write(1, <<c, Quote, Quote>>)
         [] Escaped(c) -> Write(1, <<Backslash, c>>)
         [] ~StartsTrigraph /\ ~Escaped(c) /\ c \in 32 .. 126 -> Write(1, <<c>>)
         [] OTHER -> Write(1, <<Backslash, x, HexDigit(c \div 16), HexDigit(c % 16)>>)

(* generate_c_part2_txt: the next line of the header, or what is left. *)
Octal(b) == <<Backslash, 48 + (b \div 64), 48 + ((b \div 8) % 8), 48 + (b % 8)>>

Octals(n) == [k \in 1 .. 4 * n |-> Octal(Byte(1 + ((k - 1) \div 4)))[1 + ((k - 1) % 4)]]

WriteLine ==
  /\ Writing("header")
  /\ Len(data) - p >= bytes_per_line
  /\ Write(bytes_per_line, Octals(bytes_per_line) \o <<Backslash, Newline>>)

WriteRest ==
  /\ Writing("header")
  /\ Len(data) - p < bytes_per_line
  /\ Write(Len(data) - p, Octals(Len(data) - p))

Over == p = Len(data) /\ UNCHANGED vars

Next == WriteCharacter \/ WriteLine \/ WriteRest \/ Over

Spec == Init /\ [][Next]_vars

-----------------------------------------------------------------------------
(* What a C compiler makes of a literal. *)

(* ??( and ??/ stand for all trigraphs. *)
Questions(t) == Len(t) > 1 /\ t[Len(t) - 1] = QuestionMark /\ t[Len(t)] = QuestionMark

TrigraphStep(t, c) ==
  IF c \in {40, 47} /\ Questions(t)
    THEN Append(SubSeq(t, 1, Len(t) - 2), IF c = 47 THEN Backslash ELSE 91)
    ELSE Append(t, c)

Trigraphs(t) ==
  LET first[n \in 0 .. Len(t)] ==
        IF n = 0 THEN <<>> ELSE TrigraphStep(first[n - 1], t[n])
  IN  first[Len(t)]

(* A reader in a literal, after a backslash, in an escape, or between      *)
(* literals, which are joined. A line ends behind a backslash.             *)
Emit(r, c) == [r EXCEPT !.bytes = Append(@, c % 256), !.mode = "text"]
Plain(r, c) ==
  CASE c = Quote -> [r EXCEPT !.mode = "between"]
    [] c = Backslash -> [r EXCEPT !.mode = "escape"]
    [] OTHER -> Emit(r, c)
Read(r, c) ==
  CASE r.mode = "between" -> [r EXCEPT !.mode = "text"]
    [] r.mode = "text" -> Plain(r, c)
    [] r.mode = "escape" ->
         CASE c = Newline -> [r EXCEPT !.mode = "text"]
           [] c = x -> [r EXCEPT !.mode = "hex", !.acc = 0]
           [] c \in 48 .. 55 -> [r EXCEPT !.mode = "octal", !.acc = c - 48, !.digits = 1]
           [] OTHER -> Emit(r, c)
    [] r.mode = "hex" ->
         IF Hex(c) < 16 THEN [r EXCEPT !.acc = 16 * @ + Hex(c)] ELSE Plain(Emit(r, r.acc), c)
    [] r.mode = "octal" ->
         IF c \in 48 .. 55 /\ r.digits < 3
           THEN [r EXCEPT !.acc = 8 * @ + (c - 48), !.digits = @ + 1]
           ELSE Plain(Emit(r, r.acc), c)

Reader(t) ==
  LET first[n \in 0 .. Len(t)] ==
        IF n = 0 THEN [mode |-> "between", bytes |-> <<>>, acc |-> 0, digits |-> 0]
        ELSE Read(first[n - 1], t[n])
  IN  first[Len(t)]

CReads(t) == Reader(Trigraphs(t)).bytes

Complete == p = Len(data)

(* The C compiler reads the argument that was written, with all its        *)
(* quotes, backslashes and question marks (dcc_gen.c:84-95).               *)
ArgumentKept == Complete /\ job = "argument" => CReads(Append(out, Quote)) = data

(* The header read back is the header, whatever its bytes and wherever its *)
(* lines end (dcc_gen.c:115-137).                                          *)
HeaderKept == Complete /\ job = "header" => CReads(Append(out, Quote)) = data

(* What dcc writes is what the C compiler reads (dcc_gen.c:84-137).        *)
ReadByC == ArgumentKept /\ HeaderKept
=============================================================================
