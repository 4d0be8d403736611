SPECIFICATION ForwardingSpec
CONSTANTS
  m1 = m1
  m2 = m2
  m3 = m3
  s1 = s1
  s2 = s2
  NoSession = NoSession
  Messages <- TwoMessages
  Sessions <- OneSession
  NewSessions <- OneSession
  Sources <- OrderedSources
  PreparingLimit = 2
  MaxFresh = 2
  MaxInboxFaults = 0
  Legacy = {}
  MaxFaults = 0
SYMMETRY Symmetry
PROPERTIES SourceOrder
CHECK_DEADLOCK FALSE
