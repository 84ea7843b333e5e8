CONSTANTS
  Letter <- Letters
  Digit <- Digits
SPECIFICATION MCSpec
CHECK_DEADLOCK FALSE
INVARIANT ReadAsMeant
INVARIANT NothingLost
INVARIANT TokensStandAlone
