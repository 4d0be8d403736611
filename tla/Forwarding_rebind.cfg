SPECIFICATION ForwardingSpec
CONSTANTS
  m1 = m1
  m2 = m2
  m3 = m3
  s1 = s1
  s2 = s2
  NoSession = NoSession
  Messages <- OneMessage
  Sessions <- TwoSessions
  NewSessions <- OneSession
  Sources <- EverySource
  PreparingLimit = 4
  MaxFresh = 3
  MaxInboxFaults = 1
  Legacy = {}
  MaxFaults = 1
PROPERTIES JournalSpec TargetConfined
CHECK_DEADLOCK FALSE
