----------------------------- MODULE PayoutLease -----------------------------
(***************************************************************************)
(* The payout runner lease (payout/lease.go): the single row of            *)
(* payout_runner_lease and the token each process got from Acquire.        *)
(*                                                                         *)
(* A holder_token is 128 random bits.  What the code relies on is that a   *)
(* new token differs from every token that is still in the row or in a     *)
(* process's memory, so Acquire picks any token of that kind.              *)
(* The age of heartbeat_at_utc is counted in run intervals and saturates   *)
(* at StaleIntervals (3 in the code): older than that makes no difference. *)
(***************************************************************************)
EXTENDS Integers, FiniteSets

CONSTANTS Procs,           \* coordinator processes that may run the pipeline
          Tokens,          \* holder tokens
          NoToken,         \* no lease row, or no token in memory
          StaleIntervals   \* staleWindow / run_interval

ASSUME TokenAssumption == NoToken \notin Tokens

ASSUME StaleAssumption == StaleIntervals \in Nat \ {0}

VARIABLES holder,   \* holder_token of the lease row, NoToken when there is no row
          hbAge,    \* age of heartbeat_at_utc in run intervals
          tok       \* tok[q]: LeaseState.HolderToken in process q's memory

leaseVars == <<holder, hbAge, tok>>

LeaseTypeOK ==
  /\ holder \in Tokens \cup {NoToken}
  /\ hbAge \in 0..StaleIntervals
  /\ tok \in [Procs -> Tokens \cup {NoToken}]

LeaseInit ==
  /\ holder = NoToken
  /\ hbAge = 0
  /\ tok = [q \in Procs |-> NoToken]

(* SelfFence and SelfFenceTx: the row exists and carries our token. *)
Holds(q) == holder # NoToken /\ holder = tok[q]

(* IsLeaseActive: the row exists and its heartbeat is inside the window. *)
IsLeaseActive == holder # NoToken /\ hbAge < StaleIntervals

FreshTokens == Tokens \ ({holder} \cup {tok[q] : q \in Procs})

(* A fresh INSERT when there is no row, a takeover UPDATE when it is stale. *)
Acquire(q) ==
  /\ ~IsLeaseActive
  /\ \E t \in FreshTokens :
       /\ holder' = t
       /\ tok' = [tok EXCEPT ![q] = t]
  /\ hbAge' = 0

Heartbeat(q) ==
  /\ Holds(q)
  /\ hbAge' = 0
  /\ UNCHANGED <<holder, tok>>

(* DELETE ... WHERE holder_token = ours; nothing happens to another's row. *)
Release(q) ==
  /\ holder' = IF Holds(q) THEN NoToken ELSE holder
  /\ hbAge' = IF Holds(q) THEN 0 ELSE hbAge
  /\ UNCHANGED tok

(* The process is gone and its token with it; the row stays. *)
Forget(q) ==
  /\ tok' = [tok EXCEPT ![q] = NoToken]
  /\ UNCHANGED <<holder, hbAge>>

(* One run interval passes on the lease row. *)
Age ==
  /\ holder # NoToken
  /\ hbAge < StaleIntervals
  /\ hbAge' = hbAge + 1
  /\ UNCHANGED <<holder, tok>>

(* The tokens in use are distinct, so at most one process passes a fence. *)
DistinctTokens ==
  \A q, r \in Procs : tok[q] = tok[r] /\ tok[q] # NoToken => q = r
=============================================================================
