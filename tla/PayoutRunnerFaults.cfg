CONSTANTS
  Procs = {q1}
  Tokens = {t1, t2}
  NoToken = NoToken
  StaleIntervals = 1
  Payouts = {1}
  MaxSeq = 3
  Env = {"crash", "shutdown", "halt", "runNow", "rowError", "stampError", "dbError", "abandon", "reorg", "revoke"}
SPECIFICATION Spec
SYMMETRY Symmetry
INVARIANT TypeOK
INVARIANT AtMostOnePayable
INVARIANT ConsumedIsPaid
INVARIANT NoNonceGaps
PROPERTY HaltStopsPayments
PROPERTY PaysOnce
