CONSTANTS
  Procs = {q1, q2}
  Tokens = {t1, t2, t3}
  NoToken = NoToken
  StaleIntervals = 1
  Payouts = {1}
  MaxSeq = 3
  Env = {"abandon"}
SPECIFICATION Spec
SYMMETRY Symmetry
INVARIANT NoDoublePay
INVARIANT IInv
PROPERTY CancelsBlockFresh
