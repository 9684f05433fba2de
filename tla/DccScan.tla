------------------------------- MODULE DccScan ------------------------------
(***************************************************************************)
(* The search for exported functions in preprocessed text, character by    *)
(* character (dcc_scan.c), next to the C++ tokens the text is made of.     *)
(* The text is chosen token by token while the scanner reads, without end; *)
(* `seen` follows the tokens                                               *)
(*     doarr :: exported NAME (                                            *)
(* and knows, when the token comes that decides, what the scanner is to    *)
(* answer.                                                                 *)
(*                                                                         *)
(* A character that only matters as one of its class is named for it: "a"  *)
(* is a letter, "0" a digit, White any character up to the space, "xFF"    *)
(* what the end of the file becomes as an unsigned char.                   *)
(***************************************************************************)
EXTENDS Integers, Sequences, SequencesExt

CONSTANTS
  Tokens,    \* the tokens texts are made of
  Adjacent,  \* pairs of tokens that may follow each other without a space
  MaxDelim   \* sizeof delim

White == " "
Quote == "\""

Kinds == {"space", "ident", "punctuation", "phrase", "literal", "end"}
Blank == [text |-> <<White>>, kind |-> "space"]
End == [text |-> << "EOF" >>, kind |-> "end"]

TokensAssumption ==
  /\ Blank \in Tokens /\ End \notin Tokens
  /\ \A t \in Tokens : t.text # <<>> /\ t.kind \in Kinds
  /\ MaxDelim \in Nat \ {0}

doarr == << "d", "o", "a", "r", "r" >>
exported == << "e", "x", "p", "o", "r", "t", "e", "d" >>

VARIABLES
  tok,      \* the token being read
  pos,      \* how many of its characters have been read
  back,     \* the character ungetc has put back, or NoChar
  scan,     \* the scanner: where it is, and its variables
  result,   \* what dcc_scan_up_to_next_export returns
  seen,     \* tokens of an export seen
  verdict   \* what it should return

text == <<tok, seen, verdict>>
vars == <<tok, pos, back, scan, result, seen, verdict>>

None == <<>>
NoChar == "no character"
Failed == << "error" >>
Clean == << "end" >>
Export(name) == << "export", name >>

Fresh == [pc |-> "top", at |-> 1, prev |-> White, delim |-> <<>>, ident |-> <<>>]
Nothing == [upto |-> "nothing", name |-> <<>>]

Init ==
  /\ tok = Blank /\ pos = 0 /\ back = NoChar
  /\ scan = Fresh /\ result = None
  /\ seen = Nothing /\ verdict = None

-----------------------------------------------------------------------------
(* The text. *)

HasDoubleUnderscore(s) == \E i \in 1 .. Len(s) - 1 : s[i] = "_" /\ s[i + 1] = "_"

Upto(what) == [Nothing EXCEPT !.upto = what]

Following(t) ==
  IF seen.upto = "named" \/ t.kind = "space" THEN seen
  ELSE IF seen.upto = "exported" /\ t.kind = "ident" THEN [upto |-> "named", name |-> t.text]
  ELSE CASE t.text = doarr -> Upto("doarr")
         [] seen.upto = "doarr" /\ t.text = << ":", ":" >> -> Upto("colons")
         [] seen.upto = "colons" /\ t.text = exported -> Upto("exported")
         [] OTHER -> Nothing

Verdict(t) ==
  CASE seen.upto = "exported" /\ t.kind \notin {"space", "ident"} -> Failed
    [] seen.upto = "named" /\ HasDoubleUnderscore(seen.name) -> Failed
    [] seen.upto = "named" /\ ~HasDoubleUnderscore(seen.name) /\ t.text = << "(" >> -> Export(seen.name)
    [] seen.upto = "named" /\ t.text # << "(" >> /\ t.kind # "space" -> Failed
    [] seen.upto \in {"nothing", "doarr", "colons"} /\ t = End -> Clean
    [] OTHER -> None

(* What C++ allows: the name of a namespace has punctuation after it, and  *)
(* a type no literal. No name in the namespace ends in doarr. A phrase, of *)
(* several tokens, is no part of an export.                                *)
Grammatical(t) ==
  /\ t.kind = "phrase" => seen.upto = "nothing"
  /\ seen.upto = "doarr" => t.kind \notin {"ident", "literal"}
  /\ seen.upto = "colons" => t.kind \in {"space", "ident", "end"} /\ ~IsSuffix(doarr, t.text)
  /\ seen.upto = "exported" => t.kind # "literal"

NextToken(t) ==
  /\ tok # End /\ pos = Len(tok.text) /\ back = NoChar
  /\ result = None
  /\ Grammatical(t)
  /\ <<tok, t>> \in Adjacent \/ Blank \in {tok, t} \/ t = End
  /\ tok' = t /\ pos' = 0
  /\ seen' = Following(t) /\ verdict' = Verdict(t)
  /\ UNCHANGED <<back, scan, result>>

-----------------------------------------------------------------------------
(* fgetc and ungetc. *)

Char == IF back # NoChar THEN back ELSE tok.text[pos + 1]

More == result = None /\ (back # NoChar \/ pos < Len(tok.text))

Get ==
  /\ More
  /\ pos' = IF back = NoChar /\ tok # End THEN pos + 1 ELSE pos
  /\ UNCHANGED text

Read == Get /\ back' = NoChar
Unread(c) == Get /\ back' = c

uchar(c) == IF c = "EOF" THEN "xFF" ELSE c

Goto(pc) == scan' = [scan EXCEPT !.pc = pc, !.at = 1] /\ UNCHANGED result
At(pc) == More /\ scan.pc = pc

Letters == {"d", "o", "a", "r", "e", "x", "p", "t", "f", "R", "_", "xFF"}
char_is_ident_start(c) == c \in Letters
char_is_ident(c) == c \in Letters \union {"0"}

(* scan_exactly, which puts back only the character that differs. *)
scan_exactly(pc, expected, then, otherwise) ==
  /\ At(pc)
  /\ LET c == uchar(Char) IN
       \/ /\ c # expected[scan.at]
          /\ Unread(c)
          /\ Goto(otherwise)
       \/ /\ c = expected[scan.at]
          /\ Read
          /\ IF scan.at < Len(expected)
               THEN scan' = [scan EXCEPT !.at = @ + 1] /\ UNCHANGED result
               ELSE Goto(then)

(* scan_first_printable, where one character is wanted. *)
Expect(pc, c, then) ==
  /\ At(pc)
  /\ Read
  /\ IF Char = White THEN UNCHANGED <<scan, result>>
     ELSE Goto(IF Char = c THEN then ELSE "top")

Return(r) == result' = r /\ UNCHANGED scan

-----------------------------------------------------------------------------
(* dcc_scan_up_to_next_export *)

NoDelim == <<>>

ForgetsPrev(c) == TRUE  \* mutant: an identifier may end in doarr

(* A d that may begin an identifier. *)
MayBegin(c) == c = "d" /\ ~char_is_ident(scan.prev)

(* An escape that ends before the character after the backslash. *)
InString(c) == IF c = "\\" THEN "escape" ELSE "string"

Top ==
  /\ At("top")
  /\ Read
  /\ \/ Char = "EOF" /\ Return(Clean)
     \/ /\ Char = Quote
        /\ scan' = [scan EXCEPT !.pc = "string", !.prev = Quote] /\ UNCHANGED result
     \/ Char = "R" /\ Goto("R")
     \/ MayBegin(Char) /\ Goto("doarr")
     \/ Char = "d" /\ ~MayBegin(Char) /\ UNCHANGED <<scan, result>>
     \/ /\ Char \notin {"EOF", Quote, "R", "d"}
        /\ scan' = [scan EXCEPT !.prev = Char] /\ UNCHANGED result

AfterR ==
  /\ At("R")
  /\ Read
  /\ scan' = IF Char = Quote THEN [scan EXCEPT !.pc = "delim", !.prev = Quote, !.delim = NoDelim]
                            ELSE [scan EXCEPT !.pc = "top", !.prev = "R"]
  /\ UNCHANGED result

String ==
  /\ At("string")
  /\ Read
  /\ Goto(IF Char \in {"EOF", Quote} THEN "top" ELSE InString(Char))

Escape == At("escape") /\ Read /\ Goto("string")

(* scan_raw_string *)
Delim ==
  /\ At("delim")
  /\ Read
  /\ LET delim == Append(scan.delim, IF Char = "(" THEN Quote ELSE uchar(Char)) IN
       scan' = [scan EXCEPT !.delim = delim,
                            !.pc = IF Char = "(" \/ Len(delim) = MaxDelim THEN "raw" ELSE @]
  /\ UNCHANGED result

Raw ==
  /\ At("raw")
  /\ Read
  /\ Goto(CASE Char = "EOF" -> "top" [] Char = ")" -> "closing" [] OTHER -> "raw")

Closing == scan_exactly("closing", scan.delim, "top", "raw")

Keyword ==
  \/ scan_exactly("doarr", Tail(doarr), "colon", "top")
  \/ Expect("colon", ":", "second")
  \/ Expect("second", ":", "e")
  \/ Expect("e", Head(exported), "exported")
  \/ scan_exactly("exported", Tail(exported), "first", "top")

(* scan_ident *)
First ==
  /\ At("first")
  /\ Read
  /\ \/ Char = White /\ UNCHANGED <<scan, result>>
     \/ Char # White /\ ~char_is_ident_start(Char) /\ Return(Failed)
     \/ /\ char_is_ident_start(Char)
        /\ scan' = [scan EXCEPT !.pc = "ident", !.ident = <<Char>>] /\ UNCHANGED result

Ident ==
  /\ At("ident")
  /\ IF char_is_ident(Char)
       THEN Read /\ scan' = [scan EXCEPT !.ident = Append(@, Char)] /\ UNCHANGED result
       ELSE /\ Unread(Char)
            /\ IF Char = "EOF" \/ HasDoubleUnderscore(scan.ident)
                 THEN Return(Failed) ELSE Goto("paren")

Paren ==
  /\ At("paren")
  /\ Read
  /\ IF Char = White THEN UNCHANGED <<scan, result>>
     ELSE Return(IF Char = "(" THEN Export(scan.ident) ELSE Failed)

(* The loop of generate_c_part1 goes on after an export. *)
ScanAgain ==
  /\ result \notin {None, Clean, Failed}
  /\ scan' = Fresh /\ result' = None
  /\ seen' = Nothing /\ verdict' = None
  /\ UNCHANGED <<tok, pos, back>>

Over == result \in {Clean, Failed} /\ UNCHANGED vars

Next ==
  \/ \E t \in Tokens \union {End} : NextToken(t)
  \/ Top \/ AfterR \/ String \/ Escape \/ Delim \/ Raw \/ Closing
  \/ Keyword \/ First \/ Ident \/ Paren
  \/ ScanAgain \/ Over

Spec == Init /\ [][Next]_vars

-----------------------------------------------------------------------------
(* The tokens of which the scanner reads every text rightly, whatever their  *)
(* number and length. A name may not end in R, which takes in the character  *)
(* behind it (dcc_scan.c:132-137); nor go on behind exported, nor end in     *)
(* doarr when it begins with a d, since a word that is tried and fails       *)
(* leaves prev as it was (dcc_scan.c:140-145). An operator of several        *)
(* characters is several tokens. A phrase is any other text without a d or   *)
(* a quote that leaves neither a name nor an R open: "x R ;", for one.       *)
IsIdent(s) ==
  /\ \A k \in DOMAIN s : char_is_ident(s[k])
  /\ char_is_ident_start(s[1]) /\ s[Len(s)] # "R"
  /\ IsPrefix(exported, s) => s = exported
  /\ IsSuffix(doarr, s) /\ s[1] = "d" => s = doarr

IsPunctuation(s) ==
  \/ s = << ":", ":" >>
  \/ Len(s) = 1 /\ ~char_is_ident(s[1]) /\ s[1] \notin {White, Quote, ":"}

IsPhrase(s) ==
  /\ Len(s) > 1 /\ s[Len(s)] = White /\ s[Len(s) - 1] # "R"
  /\ \A k \in DOMAIN s : s[k] \notin {"d", Quote}

(* A string, where a character behind a backslash that is not itself behind  *)
(* one may be a quote.                                                       *)
Escapes(s, escaped) ==
  /\ Len(s) > 1 /\ s[1] = Quote /\ s[Len(s)] = Quote
  /\ 2 \notin escaped /\ Len(s) \notin escaped
  /\ \A k \in 2 .. Len(s) - 1 :
       /\ k \notin escaped => s[k] # Quote
       /\ k + 1 \in escaped <=> s[k] = "\\" /\ k \notin escaped

BehindBackslash(s) == {k \in 2 .. Len(s) : s[k - 1] = "\\"}
IsString(s) == \E escaped \in SUBSET BehindBackslash(s) : Escapes(s, escaped)

(* A raw string with a delimiter of n characters, which ends where the       *)
(* delimiter first follows a parenthesis.                                    *)
Closes(s, n, k) ==
  s[k] = ")" /\ s[k + n + 1] = Quote /\ \A j \in 1 .. n : s[k + j] = s[j + 2]

Delimited(s, n) ==
  /\ Len(s) >= 2 * n + 5
  /\ s[1] = "R" /\ s[2] = Quote /\ s[n + 3] = "("
  /\ \A k \in 3 .. n + 2 : s[k] \notin {"(", ")"}
  /\ Closes(s, n, Len(s) - n - 1)
  /\ \A k \in n + 4 .. Len(s) - n - 2 : ~Closes(s, n, k)

IsRaw(s) == \E n \in 0 .. MaxDelim - 1 : Delimited(s, n)

TextsAssumption ==
  /\ \A t \in Tokens :
       /\ t.text \in Seq({t.text[k] : k \in DOMAIN t.text})
       /\ \A k \in DOMAIN t.text : t.text[k] \notin {"EOF", NoChar}
       /\ t.kind = "space" => t = Blank
       /\ t.kind = "ident" => IsIdent(t.text)
       /\ t.kind = "punctuation" => IsPunctuation(t.text)
       /\ t.kind = "phrase" => IsPhrase(t.text)
       /\ t.kind = "literal" => IsString(t.text) \/ IsRaw(t.text)
       /\ t.kind # "end"
  /\ \A s \in Tokens, t \in Tokens :
       s.kind = "ident" /\ <<s, t>> \in Adjacent => ~char_is_ident(t.text[1])

-----------------------------------------------------------------------------
(* Whatever dcc takes for an export, or refuses, is one: not the inside of *)
(* a string, nor a part of another identifier, and with its own name       *)
(* (dcc_scan.c:115-165).                                                   *)
NoneInvented == result # None => result = verdict

(* No export is passed over, and no mistake in one: as soon as the token   *)
(* that decides has been read, the scanner answers (dcc_scan.c:115-165).   *)
NoneMissed == verdict # None /\ pos > 0 /\ back = NoChar => result # None

(* A source is said to have no exported functions (dcc_gen.c:316) only     *)
(* when it has none: none is passed over.                                  *)
ExportsFound ==
  verdict \notin {None, Clean, Failed} /\ pos > 0 /\ back = NoChar => result # None

(* Exactly the exports are found (dcc_scan.c:115-165). *)
ExportsExact == NoneInvented /\ NoneMissed
=============================================================================
