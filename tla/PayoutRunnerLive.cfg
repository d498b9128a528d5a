CONSTANTS
  Procs = {q1}
  Tokens = {t1, t2}
  NoToken = NoToken
  StaleIntervals = 1
  Payouts = {1}
  MaxSeq = 3
  Env = {"crash", "abandon", "stampError"}
SPECIFICATION FairSpec
PROPERTY PaidUnlessStuck
