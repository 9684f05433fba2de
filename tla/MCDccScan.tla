------------------------------ MODULE MCDccScan -----------------------------
(* Texts with character constants, for TLC.                                  *)
EXTENDS DccScan, MCTexts

(* The character constant for a quote. *)
QuoteCharacter == Quotation(<<"'", "\"", "'">>)
TokensWithQuote == MCTokens \union {QuoteCharacter}
AdjacentWithQuote == Separated(TokensWithQuote)
=============================================================================
