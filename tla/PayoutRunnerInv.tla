--------------------------- MODULE PayoutRunnerInv ---------------------------
(***************************************************************************)
(* The inductive invariant behind NoDoublePay, for an environment without  *)
(* deep reorganisations in which every abandon asks for a cancel.          *)
(***************************************************************************)
EXTENDS PayoutRunner

PaymentPCs == {"fence", "send", "refence", "resend", "stamp", "poll", "mark", "claim"}
CancelPCs == {"cancelSend", "cancelStamp", "cancelMark"}
FreshPCs == {"cancels", "walk", "alloc"} \cup CancelPCs

(* Element n + 1 of the mined history has nonce n. *)
ChainByNonce == \A k \in 1..Len(chain) : nonceOf[chain[k]] = k - 1

(* What the UNIQUE indexes keep: live rows have different nonces, and a    *)
(* payout has one live payment.                                            *)
LiveNoncesDiffer ==
  \A i, j \in LiveRows : nonceOf[i] = nonceOf[j] => i = j

OneLivePayment ==
  \A i, j \in LiveRows \ cancels : i[1] = j[1] => i = j

(* The cancel that an abandon inserts, without looking, at the nonce of    *)
(* the abandoned row never meets a UNIQUE index of migration 0002: live    *)
(* rows have different nonces and a payout has one live payment, even      *)
(* after a bare abandon, a restart that moves the cursor back, and a deep  *)
(* reorganisation.                                                         *)
IndexesHold == LiveNoncesDiffer /\ OneLivePayment

(* An abandoned row's nonce is held by a live cancel of the same payout. *)
AbandonedIsCovered ==
  \A i \in abandoned :
    \E c \in LiveRows \cap cancels : c[1] = i[1] /\ nonceOf[c] = nonceOf[i]

(* A confirmed row is deep on the chain and not abandoned. *)
ConfirmedIsFinal ==
  \A i \in confirmed : IsFinal(i) /\ i \notin abandoned

RowInv ==
  /\ ChainByNonce /\ LiveNoncesDiffer /\ OneLivePayment
  /\ AbandonedIsCovered /\ ConfirmedIsFinal /\ AtMostOnePayable

(* What a process in a cycle remembers about the row it works on. *)
CursorAt(q) ==
  /\ pc[q] \in FreshPCs \cup {"lookup"} => row[q] \in Payouts
  /\ pc[q] \in PaymentPCs => cur(q) \in rows \ cancels
  /\ pc[q] \in CancelPCs => cur(q) \in rows
  /\ pc[q] \in {"mark", "cancelMark"} => IsFinal(cur(q))
  /\ pc[q] = "claim" => cur(q) \in confirmed

CursorOfCycle == \A q \in Procs : CursorAt(q)

(* The cancels still to visit are rows of the payout, and one that was     *)
(* read as confirmed still is; an allocation has visited all of them.      *)
WalkAt(q) ==
  /\ \A w \in walk[q] : pc[q] \in FreshPCs /\ <<row[q], w[1]>> \in rows
  /\ \A w \in walk[q] : w[2] = "confirmed" => <<row[q], w[1]>> \in confirmed
  /\ pc[q] \in {"cancelSend", "cancelStamp"} => blocked[q]
  /\ pc[q] = "alloc" => walk[q] = {} /\ ~blocked[q]

WalkOfCycle == \A q \in Procs : WalkAt(q)

(* The cycle will see an abandoned cancel and block because of it. *)
WillBlock(q) ==
  \/ \E w \in walk[q] : w[2] # "confirmed" /\ <<row[q], w[1]>> \in abandoned
  \/ pc[q] = "cancelMark" /\ cur(q) \in abandoned

(* A cancel that is confirmed, or that the cycle is about to look at. *)
Accounted(q, c) ==
  \/ c \in confirmed
  \/ pc[q] = "cancelMark" /\ c = cur(q)
  \/ \E w \in walk[q] : w[1] = c[2]

(* The holder of the lease that is past LookupExistingLatest: its payout   *)
(* has no live payment, and when it is not going to block every live       *)
(* cancel is accounted for.                                                *)
KnowsAt(q) ==
  /\ pc[q] \in FreshPCs => LivePayments(row[q]) = {}
  /\ pc[q] \in {"walk", "cancelMark", "alloc"} /\ ~blocked[q] =>
       WillBlock(q) \/ \A c \in LiveCancels(row[q]) : Accounted(q, c)

HolderKnows == \A q \in Procs : Holds(q) => KnowsAt(q)

HandlerInv == aband.at # "none" => aband.id \in rows

IInv ==
  /\ TypeOK /\ DistinctTokens /\ RowInv /\ CursorOfCycle /\ WalkOfCycle
  /\ HolderKnows /\ HandlerInv /\ ConsumedIsPaid

-----------------------------------------------------------------------------
(* The pipeline as a payer that pays once.                                 *)

(* The payments of p that are deep on the chain. *)
PaidBy(p) == {chain[k] : k \in {j \in 1..final : chain[j] \notin cancels /\ chain[j][1] = p}}

Paid == [p \in Payouts |-> PaidBy(p)]

Once == INSTANCE PayOnce WITH Txs <- Ids, paid <- Paid

(* However processes, operator and chain interleave, what is deep on the   *)
(* chain and what the ledger says change only as PayOnce allows: one       *)
(* payment per payout, none after ClaimPayoutReady closed it, and the      *)
(* ledger row names that payment.                                          *)
PaysOnce == Once!Spec

(* Behind PaysOnce: a payout is closed only after it was paid. *)
ClosedIsPaid == \A p \in Payouts : status[p] # "ready" => PaidBy(p) # {}

-----------------------------------------------------------------------------
(* Behind NoNonceGaps: the nonces below the cursor are taken too.          *)
CursorCovered == \A n \in 0..(cursor - 1) : NonceTaken(n)

-----------------------------------------------------------------------------
(* What holds in every environment, deep reorganisations and bare abandons *)
(* included: nothing about the chain.                                      *)
TableAt(q) ==
  /\ pc[q] \in FreshPCs \cup {"lookup"} => row[q] \in Payouts
  /\ pc[q] \in PaymentPCs => cur(q) \in rows \ cancels
  /\ pc[q] \in CancelPCs => cur(q) \in rows
  /\ pc[q] = "claim" => cur(q) \in confirmed
  /\ \A w \in walk[q] : pc[q] \in FreshPCs \ {"alloc"} /\ <<row[q], w[1]>> \in rows

TableCursor == \A q \in Procs : TableAt(q)

TableInv ==
  /\ TypeOK /\ DistinctTokens /\ IndexesHold /\ TableCursor /\ HandlerInv
  /\ confirmed \cap abandoned = {} /\ ClaimNamesPayment
=============================================================================
