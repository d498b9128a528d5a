---------------------------- MODULE PayoutAttempts ----------------------------
(***************************************************************************)
(* The durable side of the payout pipeline: the payout_attempts table and  *)
(* the wallet_nonce_cursor row (payout/attempts.go, the transaction of     *)
(* payout/abandon.go, and the partial UNIQUE indexes of migration 0002).   *)
(*                                                                         *)
(* A row is named by its primary key <<payout_id, attempt_seq>>.  Each     *)
(* nullable timestamp is a set of rows: the rows where it is not NULL.     *)
(* There is one hot wallet, so from_address is left out.                   *)
(***************************************************************************)
EXTENDS Integers

CONSTANTS Payouts,   \* ids of ledger_payout_ready
          MaxSeq     \* bound on attempt_seq

ASSUME AttemptsAssumption == Payouts \subseteq Nat \ {0} /\ MaxSeq \in Nat \ {0}

VARIABLES rows,        \* the rows of payout_attempts
          cancels,     \* rows with is_cancel_self_transfer = 1
          nonceOf,     \* nonce column, 0 where there is no row
          stamped,     \* rows with broadcast_at_utc
          confirmed,   \* rows with confirmed_at_utc
          abandoned,   \* rows with abandoned_at_utc
          cursor       \* wallet_nonce_cursor.next_nonce

attemptVars == <<rows, cancels, nonceOf, stamped, confirmed, abandoned, cursor>>

Seqs == 1..MaxSeq
Ids == Payouts \X Seqs

AttemptsTypeOK ==
  /\ rows \subseteq Ids
  /\ cancels \subseteq rows
  /\ nonceOf \in [Ids -> Nat]
  /\ stamped \subseteq rows
  /\ confirmed \subseteq rows
  /\ abandoned \subseteq rows
  /\ cursor \in Nat

AttemptsInit ==
  /\ rows = {} /\ cancels = {} /\ stamped = {} /\ confirmed = {} /\ abandoned = {}
  /\ nonceOf = [i \in Ids |-> 0]
  /\ cursor = 0

LiveRows == rows \ abandoned
LivePayments(p) == {i \in LiveRows \ cancels : i[1] = p}
LiveCancels(p) == {i \in LiveRows \cap cancels : i[1] = p}

(* idx_pa_from_nonce_active: a live row already has this nonce. *)
NonceTaken(n) == \E i \in LiveRows : nonceOf[i] = n

(* NextAttemptSeq: MAX(attempt_seq) + 1, or 1; s is in the bound. *)
NextAttemptSeq(p, s) ==
  /\ \A t \in Seqs : <<p, t>> \in rows => t < s
  /\ s = 1 \/ <<p, s - 1>> \in rows

(* Mutant: no index on the nonce. *)
CollidesOnPaymentOnly(p) == LivePayments(p) # {}

(* The UNIQUE indexes refuse a second live payment, and a nonce in use. *)
InsertCollides(p) == LivePayments(p) # {} \/ NonceTaken(cursor)

(* The transaction of a fresh allocation: next nonce, InsertAttempt,       *)
(* CASPersistSignedTx and BumpNonceCursorTx.  The bytes are signed in the  *)
(* same transaction, so every committed row has its raw_signed_tx.         *)
InsertAttempt(p, s) ==
  /\ ~InsertCollides(p)
  /\ rows' = rows \cup {<<p, s>>}
  /\ nonceOf' = [nonceOf EXCEPT ![<<p, s>>] = cursor]
  /\ cursor' = cursor + 1
  /\ UNCHANGED <<cancels, stamped, confirmed, abandoned>>

(* StampBroadcastAt: WHERE broadcast_at_utc IS NULL, nothing else. *)
StampBroadcastAt(i) ==
  /\ stamped' = stamped \cup {i}
  /\ UNCHANGED <<rows, cancels, nonceOf, confirmed, abandoned, cursor>>

(* MarkConfirmedAtTx: rows affected is 1 exactly when CanMarkConfirmed. *)
CanMarkConfirmed(i) == i \in rows /\ i \notin confirmed \cup abandoned

MarkConfirmed(i) ==
  /\ confirmed' = confirmed \cup {i}
  /\ UNCHANGED <<rows, cancels, nonceOf, stamped, abandoned, cursor>>

(* Mutant: the UPDATE does not ask for confirmed_at_utc IS NULL. *)
CanAbandonConfirmed(i) == i \in rows /\ i \notin abandoned

(* The abandon-marker UPDATE: it matches a live row that is not confirmed. *)
CanAbandon(i) == i \in rows /\ i \notin confirmed \cup abandoned

AbandonOnly(i) ==
  /\ CanAbandon(i)
  /\ abandoned' = abandoned \cup {i}
  /\ UNCHANGED <<rows, cancels, nonceOf, stamped, confirmed, cursor>>

(* Mutant: the INSERT of the cancel fails and the handler goes on. *)
AbandonWithoutInsert(i, s) ==
  /\ CanAbandon(i)
  /\ abandoned' = abandoned \cup {i}
  /\ cancels' = cancels \cup {<<i[1], s>>}
  /\ nonceOf' = [nonceOf EXCEPT ![<<i[1], s>>] = nonceOf[i]]
  /\ UNCHANGED <<rows, stamped, confirmed, cursor>>

(* The same UPDATE, and the cancel row at the abandoned row's nonce. *)
AbandonWithCancel(i, s) ==
  /\ CanAbandon(i)
  /\ abandoned' = abandoned \cup {i}
  /\ rows' = rows \cup {<<i[1], s>>}
  /\ cancels' = cancels \cup {<<i[1], s>>}
  /\ nonceOf' = [nonceOf EXCEPT ![<<i[1], s>>] = nonceOf[i]]
  /\ UNCHANGED <<stamped, confirmed, cursor>>

(* Mutant: payments are reopened like cancels. *)
AnyLiveAgain(i) ==
  /\ i \in confirmed
  /\ i \notin abandoned
  /\ confirmed' = confirmed \ {i}
  /\ UNCHANGED <<rows, cancels, nonceOf, stamped, abandoned, cursor>>

(* handleCancelReorg: a confirmed cancel becomes live and unconfirmed again. *)
LiveAgain(i) ==
  /\ i \in cancels \cap confirmed
  /\ i \notin abandoned
  /\ confirmed' = confirmed \ {i}
  /\ UNCHANGED <<rows, cancels, nonceOf, stamped, abandoned, cursor>>

(* Mutant: the endpoints' answer is taken for the last nonce used. *)
UpsertOneTooHigh(n) ==
  /\ cursor' = n + 1
  /\ UNCHANGED <<rows, cancels, nonceOf, stamped, confirmed, abandoned>>

(* ON CONFLICT ... DO UPDATE SET next_nonce = excluded.next_nonce. *)
UpsertNonceCursor(n) ==
  /\ cursor' = n
  /\ UNCHANGED <<rows, cancels, nonceOf, stamped, confirmed, abandoned>>
=============================================================================
