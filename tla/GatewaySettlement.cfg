CONSTANTS
  Req = {r1}
  Demo = {r1}
  Ask = 2
  Quota = 3
  Limit = 1
  MaxFaults = 1
  SegmentMax = 2
  JournalMax = 5
  Copies = 2
  MaxConflicts = 2
  MaxCrashes = 1
SPECIFICATION Spec
INVARIANT SettlementInv
INVARIANT NoLostBill
INVARIANT SealedIsBilled
INVARIANT HoldDecidedByCoordinator
PROPERTY SealAfterRelease
