SPECIFICATION Spec
CONSTANT Blank = Blank
INVARIANT TypeOK
INVARIANT AdmissionIsCounted
INVARIANT BillingIsExact
INVARIANT PayoutBooksHold
INVARIANT RewardsWithinCaps
INVARIANT StatisticsAreExact
INVARIANT ProcessLeavesCleanly
PROPERTY BooksMoveByRule
CHECK_DEADLOCK FALSE
