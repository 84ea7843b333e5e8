CONSTANTS
  Structs <- MCStructs
  NameOrder <- MCNameOrder
  IntText <- MCIntText
  Programs <- MCPrograms
SPECIFICATION Spec
INVARIANT AcceptedCompiles
INVARIANT SameMeaning
INVARIANT TagsTellPayloads
INVARIANT OneOwner
PROPERTY CallersUnionsStay
CHECK_DEADLOCK FALSE
