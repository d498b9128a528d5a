CONSTANTS
  Procs = {q1}
  Tokens = {t1, t2}
  NoToken = NoToken
  StaleIntervals = 1
  Payouts = {1}
  MaxSeq = 3
  Env = {"crash", "abandon", "bareAbandon", "deepReorg"}
SPECIFICATION Spec
SYMMETRY Symmetry
INVARIANT IndexesHold
INVARIANT ClaimNamesPayment
PROPERTY RowsMoveForward
INVARIANT TableInv
