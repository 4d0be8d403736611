SPECIFICATION ForwardingSpec
CONSTANTS
  m1 = m1
  m2 = m2
  m3 = m3
  s1 = s1
  s2 = s2
  NoSession = NoSession
  Messages <- TwoMessages
  Sessions <- OneSession
  NewSessions <- OneSession
  Sources <- Inputs
  PreparingLimit = 4
  MaxFresh = 4
  MaxInboxFaults = 0
  Legacy = {}
  MaxFaults = 0
PROPERTIES NoFollowRebind
CHECK_DEADLOCK FALSE
