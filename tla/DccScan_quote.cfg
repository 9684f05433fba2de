CONSTANTS
  Tokens <- TokensWithQuote
  Adjacent <- AdjacentWithQuote
  MaxDelim = 3
SPECIFICATION Spec
INVARIANT ExportsFound
