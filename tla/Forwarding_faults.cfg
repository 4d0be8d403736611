SPECIFICATION FairForwardingSpec
CONSTANTS
  m1 = m1
  m2 = m2
  m3 = m3
  s1 = s1
  s2 = s2
  NoSession = NoSession
  Messages <- TwoMessages
  Sessions <- OneSession
  NewSessions <- NoNewSessions
  Sources <- Inputs
  PreparingLimit = 1
  MaxFresh = 1
  MaxInboxFaults = 1
  Legacy = {}
  MaxFaults = 0
PROPERTIES InboxIsKept HeadOfLineMoves
CHECK_DEADLOCK FALSE
