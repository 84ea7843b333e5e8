SPECIFICATION Spec
CONSTANTS
  general = general  other = other
  d1 = d1  d2 = d2
  FD = {d1, d2}
  Channel = {general, other}
  General = general
  Requests <- MCRequests
  DefaultWait = 1
  MaxWait = 2
  MaxMsgs = 2
  MaxBacklog = 1
INVARIANT TypeOK
INVARIANT OneConnPerSocket
INVARIANT WaitersAreParked
INVARIANT NoMissedWakeup
INVARIANT AnswersOwnRequest
PROPERTY RefinesLongPoll
SYMMETRY MCSymmetry
