\* The lexer and the parser on source texts.
CONSTANTS
  IntBits = 64
  Cases <- SyntaxCases
SPECIFICATION Spec
INVARIANTS LongestMatch RoundTrip PrintsBack
