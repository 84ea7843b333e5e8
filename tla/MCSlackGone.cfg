SPECIFICATION GoneSpec
CONSTANTS
  general = general  other = other
  d1 = d1  d2 = d2
  FD = {d1, d2}
  Channel = {general, other}
  General = general
  Requests <- MCFewRequests
  DefaultWait = 1
  MaxWait = 1
  MaxMsgs = 1
  MaxBacklog = 1
PROPERTY GoneIsDropped
