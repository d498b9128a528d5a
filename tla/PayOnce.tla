------------------------------- MODULE PayOnce -------------------------------
(***************************************************************************)
(* What the payout pipeline promises, without leases, attempts, nonces,    *)
(* cycles or crashes: the chain pays a payout with one transaction, for    *)
(* good and while the ledger still shows it as ready, and the ledger       *)
(* closes the payout naming exactly that transaction.                      *)
(***************************************************************************)
CONSTANTS Payouts,   \* ids of ledger_payout_ready
          Txs        \* transactions of the hot wallet

VARIABLES paid,      \* paid[p]: the transactions that have paid p for good
          status,    \* ledger_payout_ready.status
          claimTx    \* ledger_payout_ready.payout_external_id

vars == <<paid, status, claimTx>>

Init ==
  /\ paid = [p \in Payouts |-> {}]
  /\ status = [p \in Payouts |-> "ready"]
  /\ claimTx = [p \in Payouts |-> {}]

(* A payment of p is final on the chain. *)
Pay(p, t) ==
  /\ status[p] = "ready"
  /\ paid[p] = {}
  /\ paid' = [paid EXCEPT ![p] = {t}]
  /\ UNCHANGED <<status, claimTx>>

(* The ledger records the payment. *)
Consume(p) ==
  /\ status[p] = "ready"
  /\ paid[p] # {}
  /\ status' = [status EXCEPT ![p] = "consumed"]
  /\ claimTx' = [claimTx EXCEPT ![p] = paid[p]]
  /\ UNCHANGED paid

(* A source credit was revoked: the ledger gives the payout up. *)
Void(p) ==
  /\ status[p] = "ready"
  /\ paid[p] # {}
  /\ status' = [status EXCEPT ![p] = "voided"]
  /\ UNCHANGED <<paid, claimTx>>

Next == \E p \in Payouts : Consume(p) \/ Void(p) \/ \E t \in Txs : Pay(p, t)

Spec == Init /\ [][Next]_vars
=============================================================================
