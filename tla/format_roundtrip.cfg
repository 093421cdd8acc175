CONSTANTS
  Texts <- MCNoTexts
  Trees <- MCMinus
SPECIFICATION Spec
INVARIANT RoundTrip
CHECK_DEADLOCK FALSE
