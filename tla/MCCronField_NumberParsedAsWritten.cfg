\* get_list on decimal literals past the range of int.
CONSTANTS
  EOF = EOF
  MAX_TEMPSTR = 100
  FieldChars = {"0", "1", "3", "*", "-", ",", "/", "S", "m"}
  Terminators = {" ", "\n"}
  MaxText = 4
  Texts <- NumberTexts
  Kinds <- MCKinds
SPECIFICATION Spec
\* get_list is one call that returns: the final state has no successor.
CHECK_DEADLOCK FALSE
INVARIANT NumberParsedAsWritten
