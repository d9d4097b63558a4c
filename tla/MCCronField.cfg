\* get_list on every field text of up to MaxText characters.
CONSTANTS
  EOF = EOF
  MAX_TEMPSTR = 3
  FieldChars = {"0", "1", "3", "*", "-", ",", "/", "S", "m"}
  Terminators = {" ", "\n"}
  MaxText = 4
  Kinds <- MCKinds
SPECIFICATION Spec
\* get_list is one call that returns: the final state has no successor.
CHECK_DEADLOCK FALSE
INVARIANTS
  TypeOK
  FieldMatchesReference
  FieldNeverEmpty
  AcceptsGrammarButNumberStep
  AcceptsOnlyGrammarButStarTrailing
