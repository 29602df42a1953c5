SPECIFICATION LiveSpec
CONSTANTS
  p1 = p1
  p2 = p2
  d1 = d1
  Proc <- MCProc
  Direct <- MCDirect
  MaxOrder = 2
  Asked = {1, 2}
  MaxRow = 4
  MaxTill = 2
  MaxVoid = 1
  MaxFault = 1
  Tolerance = 1
  Scenes <- MCScenes
INVARIANTS SettlesWithinWorth SettledWasReceived UndoneWasVoided SyncedIsPosted VoidedIsReversed
PROPERTIES SettlementReaches DriftHeals
CHECK_DEADLOCK FALSE
