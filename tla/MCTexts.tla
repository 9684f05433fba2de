------------------------------- MODULE MCTexts ------------------------------
(* The tokens of texts for DccScan.                                          *)
EXTENDS Sequences

Doarr == <<"d", "o", "a", "r", "r">>
Exported == <<"e", "x", "p", "o", "r", "t", "e", "d">>

Space == [text |-> <<" ">>, kind |-> "space"]
Word(s) == [text |-> s, kind |-> "ident"]
Other(s) == [text |-> s, kind |-> "punctuation"]
Quotation(s) == [text |-> s, kind |-> "literal"]

Quoted(s) == Quotation(<<"\"">> \o s \o <<"\"">>)
RawString(delim, s) ==
  Quotation(<<"R", "\"">> \o delim \o <<"(">> \o s \o <<")">> \o delim \o <<"\"">>)

AnExport == Doarr \o <<":", ":">> \o Exported \o <<" ", "f", "(">>

Identifiers ==
  {Word(Doarr), Word(Exported), Word(<<"f">>), Word(<<"f", "_", "_", "0">>), Word(<<"d", "o">>),
   Word(<<"x">> \o Doarr), Word(Doarr \o <<"0">>)}
(* A declared name that ends in R, at the end of a line.                     *)
Phrase(s) == [text |-> s, kind |-> "phrase"]
EndsInR == Phrase(<<"x", "R", ";", " ">>)
Punctuation == {Other(<<":", ":">>), Other(<<"(">>), Other(<<";">>)}
Strings == {Quoted(<<>>), Quoted(AnExport), Quoted(<<"\\", "\"">> \o AnExport),
            Quoted(<<"\\", "\\">>), Quoted(<<"R">>)}
RawStrings == {RawString(<<>>, <<"\"">> \o AnExport), RawString(<<"x">>, <<")", "\"">> \o AnExport),
               RawString(<<"x">>, <<")", "x">> \o AnExport), RawString(<<"x">>, <<")", ")">>),
               RawString(<<"x", "0">>, <<")", "x", "\"">> \o AnExport)}

MCTokens == {Space, EndsInR} \union Identifiers \union Punctuation \union Strings \union RawStrings

(* Names need a space between them, and before the R of a string. *)
Separated(tokens) ==
  {<<s, t>> \in tokens \X tokens :
     s.kind = "ident" => Head(t.text) \notin {"a", "d", "e", "f", "o", "x", "R", "0"}}
MCAdjacent == Separated(MCTokens)
=============================================================================
