SPECIFICATION FairSpec
CONSTANTS
  Id <- MCId
  Live <- MCLive
  Tables <- MCTables
  Groups <- MCGroups
  MaxVer = 1
  MaxRuns = 2
INVARIANTS
  TypeOK
  UpdateAccounted
  QuietAfterCancel
PROPERTIES
  CancelStops
  TopPendingServed
