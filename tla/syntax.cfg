CONSTANTS
  Texts <- MCTexts
  Trees <- MCTrees
SPECIFICATION Spec
INVARIANTS LongestLexeme NothingSkipped Derived ReadsGrammar FormatsTame
PROPERTY ParserEnds
CHECK_DEADLOCK FALSE
