SPECIFICATION MCSpec
CONSTANTS
  m1 = m1
  m2 = m2
  a1 = a1
  a2 = a2
  f1 = f1
  None = None
  Messages <- TwoMessages
  Accounts <- TwoAccounts
  Foreign <- Nobody
  MaxFaults = 0
  Rooms <- TwoRooms
  NoRoom = NoRoom
  MaxNotices = 2
  MaxApprRows = 2
  MaxApprFaults = 1
SYMMETRY Symmetry
VIEW RoomsWithoutHistory
PROPERTIES MessagesApart ApprPromise
CHECK_DEADLOCK FALSE
