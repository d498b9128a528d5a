CONSTANTS
  Procs = {q1}
  Tokens = {t1, t2}
  NoToken = NoToken
  StaleIntervals = 1
  Payouts = {1, 2}
  MaxSeq = 1
  Env = {"crash"}
SPECIFICATION FairSpec
PROPERTY EventuallyPaid
