------------------------- MODULE PayoutRunnerProofs -------------------------
(***************************************************************************)
(* The two inductive invariants of PayoutRunner and its theorems, for any  *)
(* number of processes, payouts and attempts: first what holds of the      *)
(* tables in every environment, deep reorganisations, bare abandons and    *)
(* every fault included; then what needs CoveredEnv, that PayoutRunner     *)
(* implements PayOnce and leaves no gap in the nonces among it.            *)
(***************************************************************************)
EXTENDS PayoutRunnerStepProofs

USE DEF Seqs, Ids, NoPayout, Kinds
USE SMTT(30), ZenonT(30)

-----------------------------------------------------------------------------
(* What any step can do to the tables and to the chain.                    *)

AnyRowStep ==
  \/ UNCHANGED attemptVars
  \/ \E n \in Nat : UpsertNonceCursor(n)
  \/ \E i \in rows : StampBroadcastAt(i)
  \/ \E i \in rows : CanMarkConfirmed(i) /\ MarkConfirmed(i)
  \/ \E q \in Procs : Allocate(q)
  \/ \E i \in Ids, s \in Seqs : NextAttemptSeq(i[1], s) /\ AbandonWithCancel(i, s)
  \/ \E i \in Ids : AbandonOnly(i) \/ LiveAgain(i)

AnyNodeStep == NodeStep \/ \E k \in 0..final : DeepReorg(k)

AnyTableStep ==
  \/ AnyRowStep /\ UNCHANGED chainVars
  \/ AnyNodeStep /\ UNCHANGED attemptVars

(* A step of a cycle is one statement on the tables or one broadcast. *)
LEMMA AnyCycleShape ==
  ASSUME TypeOK, TableCursor, NEW q \in Procs, CycleStep(q)
  PROVE  AnyTableStep /\ LedgerStep /\ UNCHANGED aband
<1>1. CASE \/ TakeRow(q) \/ LookupExisting(q) \/ Poll(q) \/ PollTimeout(q) \/ RowFails(q)
           \/ FenceFresh(q) \/ FenceRebroadcast(q) \/ LookupLiveCancels(q)
           \/ VisitCancel(q) \/ WalkDone(q) \/ AllocateFails(q)
  BY ZenonT(30), <1>1 DEF AnyTableStep, AnyRowStep, LedgerStep, ledgerVars, TakeRow, LookupExisting,
     Poll, PollTimeout, RowFails, FenceFresh, FenceRebroadcast, FenceThen, LookupLiveCancels,
     VisitCancel, WalkDone, AllocateFails
<1>2. CASE MarkPaid(q) \/ MarkCancel(q)
  BY ZenonT(30), <1>2 DEF MarkPaid, MarkCancel, CanMarkConfirmed, AnyTableStep, AnyRowStep, LedgerStep,
     ledgerVars
<1>3. CASE Claim(q)
  <2>1. AnyTableStep /\ UNCHANGED aband
    BY ZenonT(30), <1>3 DEF Claim, AnyTableStep, AnyRowStep
  <2>2. UNCHANGED <<status, claimTx>> \/ ClaimPayoutReady(cur(q))
    BY ZenonT(30), <1>3 DEF Claim, ledgerVars
  <2> QED
    BY ZenonT(30), <1>3, <2>1, <2>2 DEF LedgerStep
<1>4. CASE Broadcast(q) \/ Rebroadcast(q) \/ RebroadcastCancel(q)
  <2>1. cur(q) \in rows
    BY <1>4 DEF Broadcast, Rebroadcast, RebroadcastCancel, TableCursor, TableAt,
       PaymentPCs, CancelPCs
  <2> QED
    BY ZenonT(30), <1>4, <2>1 DEF Broadcast, Rebroadcast, RebroadcastCancel, Accepted, Refused,
       NonceTooLow, AnyTableStep, AnyNodeStep, NodeStep, LedgerStep, ledgerVars
<1>5. CASE Stamp(q) \/ StampCancel(q)
  <2>1. cur(q) \in rows
    BY <1>5 DEF Stamp, StampCancel, TableCursor, TableAt, PaymentPCs, CancelPCs
  <2> QED
    BY ZenonT(30), <1>5, <2>1 DEF Stamp, StampCancel, AnyTableStep, AnyRowStep, LedgerStep, ledgerVars
<1>6. CASE Allocate(q)
  BY ZenonT(30), <1>6 DEF Allocate, AnyTableStep, AnyRowStep, LedgerStep, ledgerVars
<1> QED
  BY <1>1, <1>2, <1>3, <1>4, <1>5, <1>6 DEF CycleStep

(* Every step is one statement on the rows or one step of the chain. *)
LEMMA AnyStepShape ==
  ASSUME TypeOK, TableCursor, HandlerInv, [Next]_vars
  PROVE  AnyTableStep /\ LedgerStep
<1>1. CASE \E q \in Procs : CycleStep(q)
  BY <1>1, AnyCycleShape
<1>2. CASE \E q \in Procs : ProcessStep(q)
  <2>1. TableStep /\ LedgerStep
    BY <1>2, ProcessShape
  <2> QED
    BY ZenonT(30), <2>1 DEF TableStep, RowStep, AnyTableStep, AnyRowStep, AnyNodeStep
<1>3. CASE \E q \in Procs, i \in Ids, s \in Seqs : Abandon(q, i, s)
  BY <1>3 DEF Abandon, AnyTableStep, AnyRowStep, LedgerStep, ledgerVars
<1>4. CASE AbandonBroadcast \/ AbandonStamp
  BY <1>4 DEF AbandonBroadcast, AbandonStamp, Accepted, Refused, HandlerInv,
     AnyTableStep, AnyRowStep, AnyNodeStep, NodeStep, LedgerStep, ledgerVars
<1>5. CASE \E q \in Procs, i \in Ids : ReorgPoll(q, i)
  BY ZenonT(30), <1>5 DEF ReorgPoll, AnyTableStep, AnyRowStep, LedgerStep, ledgerVars
<1>6. CASE ChainStep
  BY ZenonT(30), <1>6 DEF ChainStep, AnyTableStep, AnyNodeStep, NodeStep, LedgerStep, ledgerVars
<1>7. CASE Tick \/ UNCHANGED vars \/ \E p \in Payouts : RevokeSource(p)
  BY <1>7 DEF Tick, vars, RevokeSource, AnyTableStep, AnyRowStep, LedgerStep, ledgerVars
<1> QED
  BY <1>1, <1>2, <1>3, <1>4, <1>5, <1>6, <1>7 DEF Next

-----------------------------------------------------------------------------
(* Types, and what no step takes back.                                     *)

(* Statements on payout_attempts and the cursor keep the types. *)
LEMMA AnyAttemptsType ==
  ASSUME TypeOK, TableCursor, AnyRowStep
  PROVE  AttemptsTypeOK'
<1> USE DEF TypeOK, AttemptsTypeOK
<1>1. CASE \/ UNCHANGED attemptVars
           \/ \E n \in Nat : UpsertNonceCursor(n)
           \/ \E i \in rows : StampBroadcastAt(i)
  BY <1>1 DEF attemptVars, UpsertNonceCursor, StampBroadcastAt
<1>2. CASE \/ \E i \in rows : CanMarkConfirmed(i) /\ MarkConfirmed(i)
           \/ \E i \in Ids : AbandonOnly(i) \/ LiveAgain(i)
  BY <1>2 DEF MarkConfirmed, AbandonOnly, CanAbandon, LiveAgain
<1>3. ASSUME NEW q \in Procs, Allocate(q) PROVE AttemptsTypeOK'
  <2>1. row[q] \in Payouts
    BY <1>3 DEF Allocate, TableCursor, TableAt, FreshPCs
  <2> QED
    BY <1>3, <2>1 DEF Allocate, InsertAttempt
<1>4. ASSUME NEW i \in Ids, NEW s \in Seqs, AbandonWithCancel(i, s) PROVE AttemptsTypeOK'
  BY <1>4 DEF AbandonWithCancel, CanAbandon
<1> QED
  BY <1>1, <1>2, <1>3, <1>4 DEF AnyRowStep

(* The rows and the abandon marks stay, and so do the confirmations of     *)
(* payments: only a cancel is reopened.                                    *)
Forward ==
  /\ rows \subseteq rows' /\ cancels \subseteq cancels' /\ rows \cap cancels' \subseteq cancels
  /\ abandoned \subseteq abandoned' /\ confirmed \ cancels \subseteq confirmed'
  /\ \A i \in rows : nonceOf'[i] = nonceOf[i]

(* No statement takes any of that back. *)
LEMMA AnyForward ==
  ASSUME TypeOK, AnyTableStep
  PROVE  Forward
<1> USE DEF TypeOK, AttemptsTypeOK
<1>1. CASE \/ UNCHANGED attemptVars
           \/ \E n \in Nat : UpsertNonceCursor(n)
           \/ \E i \in rows : StampBroadcastAt(i)
  BY SMTT(30), <1>1 DEF Forward, attemptVars, UpsertNonceCursor, StampBroadcastAt
<1>2. CASE \/ \E i \in rows : CanMarkConfirmed(i) /\ MarkConfirmed(i)
           \/ \E i \in Ids : AbandonOnly(i) \/ LiveAgain(i)
  BY SMTT(30), <1>2 DEF Forward, MarkConfirmed, AbandonOnly, LiveAgain
<1>3. CASE \E q \in Procs : Allocate(q)
  BY <1>3, NewRow DEF Forward, Allocate, InsertAttempt
<1>4. CASE \E i \in Ids, s \in Seqs : NextAttemptSeq(i[1], s) /\ AbandonWithCancel(i, s)
  BY <1>4, NewRow DEF Forward, AbandonWithCancel
<1> QED
  BY <1>1, <1>2, <1>3, <1>4 DEF AnyTableStep, AnyRowStep

(* Steps of the chain, deep reorganisations included, keep its type. *)
LEMMA AnyChainType ==
  ASSUME ChainTypeOK(rows), rows \subseteq rows', AnyNodeStep
  PROVE  ChainTypeOK(rows)'
<1>1. CASE NodeStep
  BY <1>1, ChainType
<1>2. ASSUME NEW k \in 0..final, DeepReorg(k) PROVE ChainTypeOK(rows)'
  <2>1. chain' = SubSeq(chain, 1, k) /\ final' = k /\ sent' = sent /\ k \in 0..Len(chain)
    BY <1>2 DEF DeepReorg, ChainTypeOK
  <2>2. chain' \in Seq(sent) /\ Len(chain') = k
    BY <2>1 DEF ChainTypeOK
  <2> QED
    BY <2>1, <2>2 DEF ChainTypeOK
<1> QED
  BY <1>1, <1>2 DEF AnyNodeStep

(* The memory of the processes and of the abandon handler keeps its types, *)
(* and the cancel the handler sends and stamps is a row.                   *)
LEMMA AnyMemory ==
  ASSUME TypeOK, TableCursor, HandlerInv, Forward, [Next]_vars
  PROVE  /\ CycleTypeOK' /\ HandlerTypeOK' /\ sourcesOk' \in [Payouts -> BOOLEAN]
         /\ HandlerInv'
<1> USE DEF TypeOK, LedgerTypeOK
<1>0. ASSUME aband' \in {aband, IdleHandler} PROVE HandlerTypeOK' /\ HandlerInv'
  BY <1>0 DEF HandlerTypeOK, IdleHandler, HandlerInv, Forward
<1>1. ASSUME NEW q \in Procs, CycleStep(q)
      PROVE  CycleTypeOK' /\ UNCHANGED <<aband, sourcesOk>>
  <2>1. CycleTypeOK' /\ UNCHANGED aband
    BY <1>1, CycleStepType, AnyCycleShape
  <2>2. UNCHANGED sourcesOk
    BY ZenonT(30), <1>1 DEF CycleStep, TakeRow, LookupExisting, Poll, PollTimeout, MarkPaid, Claim,
       ClaimPayoutReady, RowFails, FenceFresh, FenceRebroadcast, FenceThen, Broadcast,
       Rebroadcast, Stamp, LookupLiveCancels, VisitCancel, RebroadcastCancel, StampCancel,
       MarkCancel, WalkDone, Allocate, AllocateFails, ledgerVars
  <2> QED BY <2>1, <2>2
<1>2. ASSUME NEW q \in Procs, ProcessStep(q)
      PROVE  CycleTypeOK' /\ UNCHANGED sourcesOk /\ aband' \in {aband, IdleHandler}
  <2>1. UNCHANGED ledgerVars /\ aband' \in {aband, IdleHandler}
    BY ZenonT(30), <1>2 DEF ProcessStep, ColdStart, AcquireLease, AcquireConflict, HeartbeatTick,
       HeartbeatFails, StartCycle, RequestHalt, Shutdown, Crash
  <2> QED BY <1>2, <2>1, ProcessStepType DEF ledgerVars
<1>3. ASSUME NEW q \in Procs, NEW i \in Ids, NEW s \in Seqs, Abandon(q, i, s)
      PROVE  HandlerTypeOK' /\ HandlerInv'
  <2>1. CASE AbandonWithCancel(i, s) /\ aband' = [at |-> "send", id |-> <<i[1], s>>, by |-> {q}]
    BY <2>1 DEF AbandonWithCancel, HandlerTypeOK, HandlerInv
  <2>2. CASE UNCHANGED aband
    BY <1>0, <2>2
  <2> QED BY ZenonT(30), <1>3, <2>1, <2>2 DEF Abandon
<1>4. CASE AbandonBroadcast \/ AbandonStamp
  <2>1. ASSUME aband' = [aband EXCEPT !.at = "stamp"], aband.at = "send"
        PROVE  HandlerTypeOK' /\ HandlerInv'
    BY <2>1 DEF HandlerTypeOK, HandlerInv, Forward
  <2>2. HandlerTypeOK' /\ HandlerInv'
    BY ZenonT(30), <1>0, <1>4, <2>1 DEF AbandonBroadcast, AbandonStamp
  <2> QED BY <1>4, <2>2 DEF AbandonBroadcast, AbandonStamp, procVars, cycleVars, ledgerVars, CycleTypeOK
<1>5. CASE \/ \E q \in Procs, i \in Ids, s \in Seqs : Abandon(q, i, s)
           \/ \E q \in Procs, i \in Ids : ReorgPoll(q, i)
           \/ ChainStep \/ Tick \/ UNCHANGED vars
  <2>1. UNCHANGED <<procVars, ledgerVars>>
    BY <1>5 DEF Abandon, ReorgPoll, ChainStep, Tick, vars
  <2>2. HandlerTypeOK' /\ HandlerInv'
    BY <1>0, <1>3, <1>5 DEF ReorgPoll, ChainStep, Tick, vars
  <2> QED BY <2>1, <2>2 DEF procVars, cycleVars, ledgerVars, CycleTypeOK
<1>6. CASE \E p \in Payouts : RevokeSource(p)
  BY <1>0, <1>6 DEF RevokeSource, procVars, cycleVars, CycleTypeOK
<1> QED
  BY <1>0, <1>1, <1>2, <1>4, <1>5, <1>6 DEF Next

(* The type invariant is preserved by every step of every environment. *)
LEMMA AnyTypeStep ==
  ASSUME TypeOK, DistinctTokens, TableCursor, HandlerInv, [Next]_vars
  PROVE  TypeOK'
<1>1. LeaseTypeOK'
  BY LeaseStep DEF TypeOK
<1>2. AnyTableStep /\ LedgerStep /\ Forward
  BY AnyStepShape, AnyForward
<1>3. AttemptsTypeOK'
  <2>1. AnyRowStep
    BY <1>2 DEF AnyTableStep, AnyRowStep
  <2> QED BY <2>1, AnyAttemptsType
<1>4. ChainTypeOK(rows)'
  <2>1. AnyNodeStep
    BY ZenonT(30), <1>2 DEF AnyTableStep, AnyNodeStep, NodeStep
  <2> QED BY <1>2, <2>1, AnyChainType DEF TypeOK, Forward
<1>5. LedgerTypeOK'
  <2>1. CASE \E q \in Procs : Claim(q) /\ ClaimPayoutReady(cur(q))
    BY <2>1 DEF Claim, ClaimPayoutReady, cur, TableCursor, TableAt, PaymentPCs, TypeOK, LedgerTypeOK,
       AttemptsTypeOK
  <2>2. CASE UNCHANGED <<status, claimTx>>
    BY <1>2, <2>2, AnyMemory DEF TypeOK, LedgerTypeOK
  <2> QED BY SMTT(30), <1>2, <2>1, <2>2 DEF LedgerStep
<1> QED
  BY <1>1, <1>2, <1>3, <1>4, <1>5, AnyMemory DEF TypeOK

-----------------------------------------------------------------------------
(* The indexes and the marks.                                              *)

(* An insert respects the UNIQUE indexes because it looks, an abandon      *)
(* because the cancel takes the place of the row it abandons.              *)
LEMMA IndexStep ==
  ASSUME TypeOK, TableCursor, IndexesHold, AnyRowStep
  PROVE  IndexesHold'
<1> USE DEF IndexesHold
<1>1. CASE LiveRows' \subseteq LiveRows /\ UNCHANGED <<cancels, nonceOf>>
  BY <1>1 DEF LiveNoncesDiffer, OneLivePayment
<1>2. ASSUME NEW q \in Procs, Allocate(q) PROVE IndexesHold'
  <2>1. PICK s \in Seqs : NextAttemptSeq(row[q], s) /\ InsertAttempt(row[q], s)
    BY <1>2 DEF Allocate
  <2> DEFINE n == <<row[q], s>>
  <2>2. n \notin rows /\ n \in Ids /\ n[1] = row[q]
    <3>1. row[q] \in Payouts
      BY <1>2 DEF TableCursor, TableAt, FreshPCs, Allocate
    <3> QED BY <2>1, <3>1, NewRow
  <2>3. /\ rows' = rows \cup {n} /\ nonceOf' = [nonceOf EXCEPT ![n] = cursor]
        /\ UNCHANGED <<cancels, abandoned>> /\ ~NonceTaken(cursor) /\ LivePayments(row[q]) = {}
    BY ZenonT(30), <2>1 DEF InsertAttempt, InsertCollides
  <2> HIDE DEF n
  <2>4. nonceOf'[n] = cursor /\ \A i \in rows : nonceOf'[i] = nonceOf[i]
    BY <2>2, <2>3 DEF TypeOK, AttemptsTypeOK
  <2>5. LiveRows' = LiveRows \cup {n}
    BY <2>2, <2>3 DEF LiveRows, TypeOK, AttemptsTypeOK
  <2>6. LiveNoncesDiffer'
    BY <2>3, <2>4, <2>5 DEF LiveNoncesDiffer, NonceTaken, LiveRows
  <2>7. OneLivePayment'
    BY <2>2, <2>3, <2>5 DEF OneLivePayment, LivePayments
  <2> QED BY <2>6, <2>7
<1>3. ASSUME NEW a \in Ids, NEW s \in Seqs, NextAttemptSeq(a[1], s), AbandonWithCancel(a, s)
      PROVE  IndexesHold'
  <2> DEFINE n == <<a[1], s>>
  <2>1. n \notin rows /\ n \in Ids
    BY <1>3, NewRow, IdParts
  <2>2. /\ rows' = rows \cup {n} /\ cancels' = cancels \cup {n}
        /\ nonceOf' = [nonceOf EXCEPT ![n] = nonceOf[a]]
        /\ abandoned' = abandoned \cup {a} /\ a \in LiveRows
    BY <1>3 DEF AbandonWithCancel, CanAbandon, LiveRows
  <2> HIDE DEF n
  <2>3. nonceOf'[n] = nonceOf[a] /\ \A i \in rows : nonceOf'[i] = nonceOf[i]
    BY <2>1, <2>2 DEF TypeOK, AttemptsTypeOK
  <2>4. LiveRows' = (LiveRows \ {a}) \cup {n}
    BY <2>1, <2>2 DEF LiveRows, TypeOK, AttemptsTypeOK
  <2>5. LiveNoncesDiffer'
    BY <2>2, <2>3, <2>4 DEF LiveNoncesDiffer, LiveRows
  <2>6. OneLivePayment'
    BY <2>2, <2>4 DEF OneLivePayment
  <2> QED BY <2>5, <2>6
<1>4. CASE \/ UNCHANGED attemptVars
           \/ \E n \in Nat : UpsertNonceCursor(n)
           \/ \E i \in rows : StampBroadcastAt(i)
           \/ \E i \in rows : CanMarkConfirmed(i) /\ MarkConfirmed(i)
           \/ \E i \in Ids : AbandonOnly(i) \/ LiveAgain(i)
  BY <1>1, <1>4 DEF attemptVars, UpsertNonceCursor, StampBroadcastAt, MarkConfirmed, AbandonOnly,
     LiveAgain, LiveRows
<1> QED
  BY <1>2, <1>3, <1>4 DEF AnyRowStep

(* MarkConfirmedAtTx skips abandoned rows and the abandon skips confirmed  *)
(* ones, so no row gets both marks.                                        *)
LEMMA MarksStep ==
  ASSUME TypeOK, confirmed \cap abandoned = {}, AnyRowStep
  PROVE  confirmed' \cap abandoned' = {}
<1>1. CASE \/ UNCHANGED attemptVars
           \/ \E n \in Nat : UpsertNonceCursor(n)
           \/ \E i \in rows : StampBroadcastAt(i)
           \/ \E q \in Procs : Allocate(q)
  BY ZenonT(30), <1>1 DEF attemptVars, UpsertNonceCursor, StampBroadcastAt, Allocate, InsertAttempt
<1>2. ASSUME NEW i, i \notin abandoned, confirmed' \subseteq confirmed \cup {i}, UNCHANGED abandoned
      PROVE  confirmed' \cap abandoned' = {}
  BY <1>2
<1>3. ASSUME NEW i, i \notin confirmed, abandoned' = abandoned \cup {i}, UNCHANGED confirmed
      PROVE  confirmed' \cap abandoned' = {}
  BY <1>3
<1>4. CASE \E i \in rows : CanMarkConfirmed(i) /\ MarkConfirmed(i)
  BY <1>2, <1>4 DEF CanMarkConfirmed, MarkConfirmed
<1>5. CASE \E i \in Ids : AbandonOnly(i) \/ LiveAgain(i)
  BY <1>2, <1>3, <1>5 DEF AbandonOnly, CanAbandon, LiveAgain
<1>6. CASE \E i \in Ids, s \in Seqs : NextAttemptSeq(i[1], s) /\ AbandonWithCancel(i, s)
  BY <1>3, <1>6 DEF AbandonWithCancel, CanAbandon
<1> QED
  BY <1>1, <1>4, <1>5, <1>6 DEF AnyRowStep

-----------------------------------------------------------------------------
(* What a process remembers of the rows.                                   *)

(* The moves of a cycle within the processing of a payment. *)
LEMMA GotoTable ==
  ASSUME TypeOK, Forward, NEW q \in Procs, TableAt(q), pc[q] \in PaymentPCs,
         NEW l \in PaymentPCs, Goto(q, l), l = "claim" => cur(q) \in confirmed'
  PROVE  TableAt(q)'
<1>1. /\ pc'[q] = l /\ row'[q] = row[q] /\ cur(q)' = cur(q) /\ walk'[q] = walk[q]
  BY GotoKeeps DEF TypeOK
<1>2. cur(q) \in rows \ cancels /\ walk[q] = {}
  BY ZenonT(30) DEF TableAt, PaymentPCs, FreshPCs, CancelPCs
<1>3. cur(q) \in rows' \ cancels'
  BY <1>2 DEF Forward
<1> QED
  BY ZenonT(30), <1>1, <1>2, <1>3 DEF TableAt, PaymentPCs, FreshPCs, CancelPCs

(* Outside the processing of a row there is nothing to remember. *)
LEMMA RestTable ==
  ASSUME NEW q \in Procs, AtRest(q)'
  PROVE  TableAt(q)'
  BY DEF AtRest, TableAt, FreshPCs, PaymentPCs, CancelPCs

(* A row is taken, and its live payment is looked up or a new one made. *)
LEMMA TakeTable ==
  ASSUME TypeOK, Forward, NEW q \in Procs, TableAt(q),
         TakeRow(q) \/ LookupExisting(q) \/ Allocate(q)
  PROVE  TableAt(q)'
<1>0. CycleTypeOK /\ AttemptsTypeOK /\ rows \subseteq rows'
  BY DEF TypeOK, Forward
<1>1. CASE TakeRow(q)
  <2>1. CASE EndCycle(q)
    BY ZenonT(30), <1>0, <2>1, MovesRest, RestTable
  <2>2. CASE ~EndCycle(q)
    <3>0. walk[q] = {}
      BY ZenonT(30), <1>1 DEF TakeRow, TableAt, FreshPCs, CancelPCs
    <3>1. pc'[q] = "lookup" /\ row'[q] \in Payouts /\ walk'[q] = {}
      BY <1>0, <1>1, <2>2, <3>0 DEF TakeRow, CycleTypeOK
    <3> QED
      BY ZenonT(30), <3>1 DEF TableAt, FreshPCs, PaymentPCs, CancelPCs
  <2> QED BY <2>1, <2>2
<1>2. CASE LookupExisting(q)
  <2>0. walk[q] = {} /\ row[q] \in Payouts
    BY ZenonT(30), <1>2 DEF LookupExisting, TableAt, FreshPCs, CancelPCs
  <2>1. CASE LivePayments(row[q]) = {}
    <3>1. pc'[q] = "cancels" /\ row'[q] = row[q] /\ walk'[q] = {}
      BY ZenonT(30), <1>0, <1>2, <2>0, <2>1, GotoKeeps DEF LookupExisting
    <3> QED
      BY ZenonT(30), <2>0, <3>1 DEF TableAt, FreshPCs, PaymentPCs, CancelPCs
  <2>2. ASSUME NEW i \in LivePayments(row[q]), seq' = [seq EXCEPT ![q] = i[2]],
               pc' = [pc EXCEPT ![q] = IF i \in confirmed THEN "claim"
                                       ELSE IF i \notin stamped THEN "refence" ELSE "poll"],
               UNCHANGED <<row, walk, rows, cancels, confirmed>>
        PROVE  TableAt(q)'
    <3>1. i \in rows \ cancels /\ i = <<row[q], i[2]>>
      BY <1>0, <2>2 DEF LivePayments, LiveRows, AttemptsTypeOK
    <3>2. cur(q)' = i /\ walk'[q] = {} /\ pc'[q] \in {"claim", "refence", "poll"}
          /\ (pc'[q] = "claim" => i \in confirmed)
      BY ZenonT(30), <1>0, <2>0, <2>2, <3>1 DEF cur, CycleTypeOK
    <3> QED
      BY ZenonT(30), <2>2, <3>1, <3>2 DEF TableAt, FreshPCs, PaymentPCs, CancelPCs
  <2> QED
    BY <1>2, <2>1, <2>2 DEF LookupExisting, attemptVars
<1>3. CASE Allocate(q)
  <2>1. PICK s \in Seqs : /\ NextAttemptSeq(row[q], s) /\ InsertAttempt(row[q], s)
                          /\ seq' = [seq EXCEPT ![q] = s]
    BY ZenonT(30), <1>3 DEF Allocate
  <2>2. cur(q)' = <<row[q], s>> /\ pc'[q] = "fence" /\ UNCHANGED <<walk, row>>
    BY ZenonT(30), <1>0, <1>3, <2>1 DEF Allocate, CycleTypeOK, cur
  <2>3. <<row[q], s>> \in rows' \ cancels'
    BY ZenonT(30), <1>0, <2>1, NewRow DEF InsertAttempt, AttemptsTypeOK
  <2> QED
    BY ZenonT(30), <1>3, <2>2, <2>3 DEF Allocate, TableAt, FreshPCs, PaymentPCs, CancelPCs
<1> QED
  BY <1>1, <1>2, <1>3

(* The live cancels are read, visited one by one, sent, stamped, marked. *)
LEMMA WalkTable ==
  ASSUME TypeOK, Forward, NEW q \in Procs, TableAt(q),
         \/ LookupLiveCancels(q) \/ VisitCancel(q) \/ RebroadcastCancel(q)
         \/ StampCancel(q) \/ MarkCancel(q) \/ WalkDone(q)
  PROVE  TableAt(q)'
<1>0. CycleTypeOK /\ AttemptsTypeOK /\ rows \subseteq rows' /\ row[q] \in Payouts
  BY ZenonT(30) DEF TypeOK, Forward, TableAt, FreshPCs, CancelPCs, LookupLiveCancels, VisitCancel,
     RebroadcastCancel, StampCancel, MarkCancel, WalkDone
<1>1. CASE LookupLiveCancels(q)
  <2>1. /\ pc'[q] = "walk" /\ row'[q] = row[q]
        /\ walk'[q] = {<<i[2], KindOf(i)>> : i \in LiveCancels(row[q])}
    BY ZenonT(30), <1>0, <1>1 DEF CycleTypeOK, LookupLiveCancels
  <2>2. \A i \in LiveCancels(row[q]) : i \in rows /\ i = <<row[q], i[2]>>
    BY <1>0 DEF LiveCancels, LiveRows, AttemptsTypeOK
  <2>3. ASSUME NEW w \in walk'[q] PROVE <<row[q], w[1]>> \in rows
    BY <2>1, <2>2, <2>3
  <2> QED
    BY ZenonT(30), <1>0, <2>1, <2>3 DEF TableAt, FreshPCs, PaymentPCs, CancelPCs
<1>2. CASE VisitCancel(q)
  <2>1. PICK w \in walk[q] : /\ walk'[q] = walk[q] \ {w} /\ cur(q)' = <<row[q], w[1]>>
                             /\ pc'[q] \in {"cancelSend", "cancelMark", "walk"}
    BY ZenonT(30), <1>0, <1>2 DEF VisitCancel, CycleTypeOK, cur
  <2>2. row'[q] = row[q]
    BY <1>2 DEF VisitCancel
  <2>3. \A v \in walk'[q] : v \in walk[q]
    BY <2>1
  <2> QED
    BY ZenonT(30), <1>0, <2>1, <2>2, <2>3 DEF TableAt, FreshPCs, PaymentPCs, CancelPCs
<1>3. ASSUME pc[q] \in CancelPCs, pc'[q] \in {"cancelStamp", "walk"}, row'[q] = row[q],
             walk'[q] = walk[q], cur(q)' = cur(q)
      PROVE  TableAt(q)'
  BY ZenonT(30), <1>0, <1>3 DEF TableAt, FreshPCs, PaymentPCs, CancelPCs
<1>4. CASE RebroadcastCancel(q) \/ StampCancel(q)
  <2>1. pc[q] \in CancelPCs /\ (Goto(q, "cancelStamp") \/ Goto(q, "walk"))
    BY <1>4 DEF RebroadcastCancel, StampCancel, CancelPCs
  <2> QED BY ZenonT(30), <1>0, <1>3, <2>1, GotoKeeps
<1>5. CASE MarkCancel(q)
  <2>1. pc[q] \in CancelPCs
    BY <1>5 DEF MarkCancel, CancelPCs
  <2>2. CASE Goto(q, "walk")
    BY <1>0, <1>3, <2>1, <2>2, GotoKeeps
  <2>3. CASE ~Goto(q, "walk")
    <3>1. pc'[q] = "walk" /\ UNCHANGED <<row, walk>> /\ cur(q)' = cur(q)
      BY ZenonT(30), <1>0, <1>5, <2>3 DEF MarkCancel, CycleTypeOK, cur
    <3> QED BY <1>3, <2>1, <3>1
  <2> QED BY <2>2, <2>3
<1>6. CASE WalkDone(q)
  <2>1. CASE NextRow(q)
    BY <1>0, <2>1, MovesRest, RestTable
  <2>2. CASE Goto(q, "alloc")
    <3>1. pc'[q] = "alloc" /\ row'[q] = row[q] /\ walk'[q] = {}
      BY ZenonT(30), <1>0, <1>6, <2>2, GotoKeeps DEF WalkDone
    <3> QED BY ZenonT(30), <1>0, <3>1 DEF TableAt, FreshPCs, PaymentPCs, CancelPCs
  <2> QED BY ZenonT(30), <1>6, <2>1, <2>2 DEF WalkDone
<1> QED
  BY <1>1, <1>2, <1>4, <1>5, <1>6

(* Every step of its cycle keeps what a process remembers of the rows. *)
LEMMA OwnTable ==
  ASSUME TypeOK, Forward, NEW q \in Procs, TableAt(q), CycleStep(q)
  PROVE  TableAt(q)'
<1>0. CycleTypeOK
  BY DEF TypeOK
<1>1. CASE NextRow(q) \/ EndCycle(q)
  BY <1>0, <1>1, MovesRest, RestTable
<1>2. CASE PollTimeout(q) \/ Claim(q) \/ RowFails(q) \/ AllocateFails(q)
  BY ZenonT(30), <1>1, <1>2 DEF PollTimeout, Claim, RowFails, AllocateFails
<1>3. CASE /\ ~(NextRow(q) \/ EndCycle(q))
           /\ \/ FenceFresh(q) \/ FenceRebroadcast(q) \/ Broadcast(q) \/ Rebroadcast(q)
              \/ Stamp(q) \/ Poll(q)
  <2>1. ASSUME NEW l \in {"send", "resend", "stamp", "poll", "mark"}, Goto(q, l), pc[q] \in PaymentPCs
        PROVE  TableAt(q)'
    BY <2>1, GotoTable DEF PaymentPCs
  <2> QED
    BY ZenonT(30), <1>3, <2>1 DEF FenceFresh, FenceRebroadcast, FenceThen, Broadcast, Rebroadcast,
       Stamp, Poll, PaymentPCs
<1>4. CASE MarkPaid(q)
  <2>1. CASE MarkConfirmed(cur(q)) /\ Goto(q, "claim")
    BY <1>4, <2>1, GotoTable DEF MarkPaid, MarkConfirmed, PaymentPCs
  <2> QED BY ZenonT(30), <1>1, <1>4, <2>1 DEF MarkPaid
<1> QED
  BY <1>1, <1>2, <1>3, <1>4, TakeTable, WalkTable DEF CycleStep

(* What the processes remember of the rows survives every step: a row      *)
(* stays, a payment stays a payment, and stays confirmed.                  *)
LEMMA TableCursorStep ==
  ASSUME TypeOK, TableCursor, Forward, [Next]_vars
  PROVE  TableCursor'
<1> SUFFICES ASSUME NEW r \in Procs PROVE TableAt(r)'
  BY DEF TableCursor
<1>0. CycleTypeOK /\ TableAt(r) /\ WalkInFresh
  BY ZenonT(30) DEF TypeOK, TableCursor, TableAt, WalkInFresh
<1>1. CASE CycleStep(r)
  BY <1>0, <1>1, OwnTable
<1>2. CASE AtRest(r)'
  BY <1>2, RestTable
<1>3. CASE Same(r)
  <2>1. /\ cur(r)' = cur(r) /\ pc'[r] = pc[r] /\ row'[r] = row[r] /\ walk'[r] = walk[r]
    BY <1>3 DEF Same, cur
  <2>2. cur(r) \in rows \ cancels => cur(r) \in rows' \ cancels'
    BY DEF Forward
  <2>3. cur(r) \in confirmed \ cancels => cur(r) \in confirmed'
    BY DEF Forward
  <2>4. pc[r] = "claim" => cur(r) \in confirmed \ cancels
    BY <1>0 DEF TableAt, PaymentPCs
  <2> QED
    BY <1>0, <2>1, <2>2, <2>3, <2>4 DEF TableAt, Forward
<1> QED
  BY <1>0, <1>1, <1>2, <1>3, OwnOrSame

-----------------------------------------------------------------------------
(* Every environment.                                                      *)

(* The row a consumed payout names stays its confirmed payment, and        *)
(* ClaimPayoutReady names one.                                             *)
LEMMA ClaimStep ==
  ASSUME TableInv, Forward, LedgerStep, confirmed' \cap abandoned' = {}
  PROVE  ClaimNamesPayment'
<1>0. TypeOK /\ ClaimNamesPayment /\ TableCursor /\ confirmed \cap abandoned = {}
  BY DEF TableInv
<1>1. ASSUME NEW i \in confirmed \ (cancels \cup abandoned)
      PROVE  i \in confirmed' \ (cancels' \cup abandoned')
  BY <1>0, <1>1 DEF Forward, TypeOK, AttemptsTypeOK
<1>2. ASSUME NEW p \in Payouts, status'[p] = "consumed", UNCHANGED <<status, claimTx>>
      PROVE  \E i \in confirmed' \ (cancels' \cup abandoned') : claimTx'[p] = {i} /\ i[1] = p
  BY ZenonT(30), <1>0, <1>1, <1>2 DEF ClaimNamesPayment
<1>3. ASSUME NEW q \in Procs, Claim(q), ClaimPayoutReady(cur(q)),
             NEW p \in Payouts, status'[p] = "consumed"
      PROVE  \E i \in confirmed' \ (cancels' \cup abandoned') : claimTx'[p] = {i} /\ i[1] = p
  <2>1. /\ cur(q) \in confirmed \ (cancels \cup abandoned) /\ cur(q)[1] = row[q]
        /\ row[q] \in Payouts
    BY <1>0, <1>3 DEF Claim, TableCursor, TableAt, PaymentPCs, cur, TypeOK, AttemptsTypeOK
  <2>2. CASE p = row[q] /\ status[p] = "ready"
    <3>1. claimTx'[p] = {cur(q)}
      BY <1>0, <1>3, <2>1, <2>2 DEF ClaimPayoutReady, TypeOK, LedgerTypeOK
    <3> QED BY ZenonT(30), <1>1, <2>1, <2>2, <3>1
  <2>3. CASE ~(p = row[q] /\ status[p] = "ready")
    <3>1. status[p] = "consumed" /\ claimTx'[p] = claimTx[p]
      BY <1>0, <1>3, <2>1, <2>3 DEF ClaimPayoutReady, TypeOK, LedgerTypeOK
    <3> QED BY <1>0, <1>1, <3>1 DEF ClaimNamesPayment
  <2> QED BY <2>2, <2>3
<1> QED
  BY <1>2, <1>3 DEF LedgerStep, ClaimNamesPayment

(* TableInv holds before the first process starts. *)
LEMMA TableInvInit == Init => TableInv
<1> SUFFICES ASSUME Init PROVE TableInv
  OBVIOUS
<1>1. TypeOK
  BY TypeInit
<1>2. IndexesHold /\ confirmed \cap abandoned = {}
  BY DEF Init, AttemptsInit, IndexesHold, LiveNoncesDiffer, OneLivePayment, LiveRows
<1>3. TableCursor
  BY DEF Init, TableCursor, TableAt, FreshPCs, PaymentPCs, CancelPCs
<1>4. DistinctTokens /\ HandlerInv /\ ClaimNamesPayment
  BY DEF Init, LeaseInit, DistinctTokens, HandlerInv, IdleHandler, ClaimNamesPayment
<1> QED
  BY <1>1, <1>2, <1>3, <1>4 DEF TableInv

(* Every step keeps TableInv, and takes nothing back from the tables. *)
LEMMA TableInvStep ==
  ASSUME TableInv, [Next]_vars
  PROVE  TableInv' /\ Forward
<1>0. /\ TypeOK /\ DistinctTokens /\ IndexesHold /\ TableCursor /\ HandlerInv
      /\ confirmed \cap abandoned = {}
  BY DEF TableInv
<1>1. AnyTableStep /\ LedgerStep /\ Forward
  BY <1>0, AnyStepShape, AnyForward
<1>2. AnyRowStep
  BY <1>1 DEF AnyTableStep, AnyRowStep
<1>3. TypeOK' /\ DistinctTokens'
  BY <1>0, AnyTypeStep, LeaseStep DEF TypeOK
<1>4. IndexesHold' /\ confirmed' \cap abandoned' = {}
  BY <1>0, <1>2, IndexStep, MarksStep
<1>5. TableCursor' /\ HandlerInv'
  BY <1>0, <1>1, TableCursorStep, AnyMemory
<1>6. ClaimNamesPayment'
  BY <1>1, <1>4, ClaimStep
<1> QED
  BY <1>1, <1>3, <1>4, <1>5, <1>6 DEF TableInv

(* The invariant TableInv holds in every state of every environment. *)
THEOREM TableInvariance == Spec => []TableInv
<1>1. Init => TableInv
  BY TableInvInit
<1>2. TableInv /\ [Next]_vars => TableInv'
  BY TableInvStep
<1> QED
  BY <1>1, <1>2, PTL DEF Spec

(* Every variable of the pipeline keeps its type, whatever the environment *)
(* does; in particular only transactions of rows of payout_attempts reach  *)
(* a node.                                                                 *)
THEOREM TypeCorrect == Spec => []TypeOK
<1>1. TableInv => TypeOK
  BY DEF TableInv
<1> QED
  BY <1>1, TableInvariance, PTL

(* No insert of the pipeline, not even the cancel that an abandon inserts  *)
(* without looking, violates a UNIQUE index of payout_attempts.            *)
THEOREM IndexesAreKept == Spec => []IndexesHold
<1>1. TableInv => IndexesHold
  BY DEF TableInv
<1> QED
  BY <1>1, TableInvariance, PTL

(* A consumed payout names its own live and confirmed payment, even when   *)
(* deep reorganisations take confirmed blocks back.                        *)
THEOREM ClaimsNamePayments == Spec => []ClaimNamesPayment
<1>1. TableInv => ClaimNamesPayment
  BY DEF TableInv
<1> QED
  BY <1>1, TableInvariance, PTL

(* No step takes a row, a nonce, an abandon mark or the confirmation of a  *)
(* payment back, and no row gets both marks.                               *)
THEOREM RowsForward == Spec => RowsMoveForward
<1>1. ASSUME TableInv, [Next]_vars
      PROVE  [/\ rows \subseteq rows' /\ abandoned \subseteq abandoned'
              /\ \A i \in rows : nonceOf'[i] = nonceOf[i]
              /\ confirmed \ cancels \subseteq confirmed'
              /\ confirmed' \cap abandoned' = {}]_vars
  BY <1>1, TableInvStep DEF TableInv, Forward
<1> QED
  BY <1>1, TableInvariance, PTL DEF Spec, RowsMoveForward

(* A halted runner puts no further payment on its way. *)
THEOREM HaltHolds == Spec => HaltStopsPayments
<1>1. ASSUME TableInv, [Next]_vars
      PROVE  [\A q \in Procs : halted[q] /\ pc'[q] \in {"send", "resend"} => pc'[q] = pc[q]]_vars
  <2> SUFFICES ASSUME NEW r \in Procs, halted[r], pc'[r] \in {"send", "resend"}
               PROVE  Same(r)
    BY DEF Same
  <2>0. CycleTypeOK /\ WalkInFresh
    BY ZenonT(30), <1>1 DEF TableInv, TypeOK, TableCursor, TableAt, WalkInFresh
  <2>1. ~CycleStep(r)
    <3> USE DEF CycleTypeOK
    <3>1. ~(NextRow(r) \/ EndCycle(r))
      BY ZenonT(30), <2>0, MovesRest DEF AtRest
    <3>2. ASSUME NEW l, Goto(r, l) PROVE l \in {"send", "resend"}
      BY ZenonT(30), <2>0, <3>2, GotoKeeps
    <3>3. ~(\/ Poll(r) \/ PollTimeout(r) \/ MarkPaid(r) \/ Claim(r) \/ RowFails(r)
            \/ FenceFresh(r) \/ FenceRebroadcast(r) \/ Broadcast(r) \/ Rebroadcast(r)
            \/ Stamp(r) \/ RebroadcastCancel(r) \/ StampCancel(r) \/ WalkDone(r)
            \/ AllocateFails(r))
      <4>1. ~Poll(r)
        BY <3>1, <3>2 DEF Poll
      <4>2. ~PollTimeout(r)
        BY <3>1, <3>2 DEF PollTimeout
      <4>3. ~MarkPaid(r)
        BY <3>1, <3>2 DEF MarkPaid
      <4>4. ~Claim(r)
        BY <3>1, <3>2 DEF Claim
      <4>5. ~RowFails(r)
        BY <3>1, <3>2 DEF RowFails
      <4>6. ~FenceFresh(r)
        BY <3>1, <3>2 DEF FenceFresh, FenceThen
      <4>7. ~FenceRebroadcast(r)
        BY <3>1, <3>2 DEF FenceRebroadcast, FenceThen
      <4>8. ~Broadcast(r)
        BY <3>1, <3>2 DEF Broadcast
      <4>9. ~Rebroadcast(r)
        BY <3>1, <3>2 DEF Rebroadcast
      <4>10. ~Stamp(r)
        BY <3>1, <3>2 DEF Stamp
      <4>11. ~RebroadcastCancel(r)
        BY <3>1, <3>2 DEF RebroadcastCancel
      <4>12. ~StampCancel(r)
        BY <3>1, <3>2 DEF StampCancel
      <4>13. ~WalkDone(r)
        BY <3>1, <3>2 DEF WalkDone
      <4>14. ~AllocateFails(r)
        BY <3>1, <3>2 DEF AllocateFails
      <4> QED BY ZenonT(30), <4>1, <4>2, <4>3, <4>4, <4>5, <4>6, <4>7, <4>8, <4>9, <4>10, <4>11, <4>12, <4>13, <4>14
    <3>4. ~(TakeRow(r) \/ LookupExisting(r) \/ MarkCancel(r))
      BY ZenonT(30), <2>0, LookupsSendNothing
    <3>5. ~(LookupLiveCancels(r) \/ VisitCancel(r) \/ Allocate(r))
      BY ZenonT(30), <2>0 DEF LookupLiveCancels, VisitCancel, Allocate
    <3> QED BY ZenonT(30), <3>3, <3>4, <3>5 DEF CycleStep
  <2> QED
    BY <1>1, <2>0, <2>1, OwnOrSame DEF AtRest
<1> QED
  BY <1>1, TableInvariance, PTL DEF Spec, HaltStopsPayments

-----------------------------------------------------------------------------
(* Environments without deep reorganisations and bare abandons.            *)

(* The cancel that the abandon handler sends and stamps is a row. *)
LEMMA HandlerStep ==
  ASSUME IInv, TypeOK', Grow, [Next]_vars
  PROVE  HandlerInv'
<1>1. CASE \E q \in Procs : CycleStep(q)
  BY <1>1, CycleShape DEF IInv, HandlerInv, Grow
<1>2. CASE \E q \in Procs : ProcessStep(q)
  <2>1. aband' = aband \/ aband' = IdleHandler
    BY ZenonT(30), <1>2 DEF ProcessStep, ColdStart, AcquireLease, AcquireConflict, HeartbeatTick,
       HeartbeatFails, StartCycle, RequestHalt, Shutdown, Crash
  <2> QED
    BY <2>1 DEF IInv, HandlerInv, Grow, IdleHandler
<1>3. CASE \E q \in Procs, i \in Ids, s \in Seqs : Abandon(q, i, s)
  BY <1>3 DEF Abandon, AbandonWithCancel, AbandonOnly, IInv, HandlerInv, Grow
<1>4. CASE AbandonBroadcast \/ AbandonStamp
  BY <1>4 DEF AbandonBroadcast, AbandonStamp, IInv, HandlerInv, Grow, IdleHandler, TypeOK,
     HandlerTypeOK
<1>5. CASE \/ \E q \in Procs, i \in Ids : ReorgPoll(q, i)
           \/ ChainStep \/ Tick \/ UNCHANGED vars
           \/ \E p \in Payouts : RevokeSource(p)
  BY ZenonT(30), <1>5 DEF ReorgPoll, ChainStep, Tick, vars, RevokeSource, IInv, HandlerInv, Grow
<1> QED
  BY <1>1, <1>2, <1>3, <1>4, <1>5 DEF Next

(* What ClaimPayoutReady recorded stays true, and what it records is true. *)
LEMMA PaidStep ==
  ASSUME IInv, TypeOK', RowInv', Grow, LedgerStep
  PROVE  ConsumedIsPaid'
<1>0. TypeOK /\ ConsumedIsPaid /\ ConfirmedIsFinal' /\ ConfirmedIsFinal
  BY DEF IInv, RowInv
<1>1. ASSUME NEW i \in confirmed \ (cancels \cup abandoned)
      PROVE  i \in confirmed' \ (cancels' \cup abandoned') /\ IsFinal(i)'
  BY <1>0, <1>1 DEF Grow, ConfirmedIsFinal, TypeOK, AttemptsTypeOK
<1>2. ASSUME NEW p \in Payouts, status'[p] = "consumed", UNCHANGED <<status, claimTx>>
      PROVE  \E i \in confirmed' \ (cancels' \cup abandoned') :
               claimTx'[p] = {i} /\ i[1] = p /\ IsFinal(i)'
  BY ZenonT(30), <1>0, <1>1, <1>2 DEF ConsumedIsPaid
<1>3. ASSUME NEW q \in Procs, Claim(q), ClaimPayoutReady(cur(q)),
             NEW p \in Payouts, status'[p] = "consumed"
      PROVE  \E i \in confirmed' \ (cancels' \cup abandoned') :
               claimTx'[p] = {i} /\ i[1] = p /\ IsFinal(i)'
  <2>1. /\ cur(q) \in confirmed \ (cancels \cup abandoned) /\ cur(q)[1] = row[q]
        /\ row[q] \in Payouts
    BY <1>0, <1>3 DEF Claim, IInv, CursorOfCycle, CursorAt, PaymentPCs, ConfirmedIsFinal, cur,
       TypeOK, AttemptsTypeOK
  <2>2. CASE p = row[q] /\ status[p] = "ready"
    <3>1. claimTx'[p] = {cur(q)}
      BY <1>0, <1>3, <2>1, <2>2 DEF ClaimPayoutReady, TypeOK, LedgerTypeOK
    <3> QED BY ZenonT(30), <1>1, <2>1, <2>2, <3>1
  <2>3. CASE ~(p = row[q] /\ status[p] = "ready")
    <3>1. status[p] = "consumed" /\ claimTx'[p] = claimTx[p]
      BY <1>0, <1>3, <2>1, <2>3 DEF ClaimPayoutReady, TypeOK, LedgerTypeOK
    <3> QED BY ZenonT(30), <1>0, <1>1, <3>1 DEF ConsumedIsPaid
  <2> QED BY ZenonT(30), <2>2, <2>3
<1> QED
  BY <1>2, <1>3 DEF LedgerStep, ConsumedIsPaid

(* The invariant holds before the first process starts. *)
LEMMA IInvInit == Init => IInv
<1> SUFFICES ASSUME Init PROVE IInv
  OBVIOUS
<1>1. TypeOK
  BY TypeInit
<1>2. RowInv
  BY DEF Init, AttemptsInit, ChainInit, RowInv, ChainByNonce, LiveNoncesDiffer,
     OneLivePayment, AbandonedIsCovered, ConfirmedIsFinal, AtMostOnePayable, LiveRows
<1>3. CursorOfCycle /\ WalkOfCycle /\ HolderKnows
  BY DEF Init, LeaseInit, CursorOfCycle, CursorAt, WalkOfCycle, WalkAt, HolderKnows, Holds,
     FreshPCs, PaymentPCs, CancelPCs
<1>4. DistinctTokens /\ HandlerInv /\ ConsumedIsPaid
  BY DEF Init, LeaseInit, DistinctTokens, HandlerInv, IdleHandler, ConsumedIsPaid
<1> QED
  BY <1>1, <1>2, <1>3, <1>4 DEF IInv

(* Every step of the pipeline keeps the invariant. *)
LEMMA IInvStep ==
  ASSUME IInv, CoveredEnv, [Next]_vars
  PROVE  IInv'
<1>0. TypeOK /\ DistinctTokens /\ CursorOfCycle /\ HandlerInv /\ ConfirmedIsFinal
  BY DEF IInv, RowInv
<1>1. TypeOK' /\ TableStep /\ LedgerStep
  BY <1>0, TypeStep, StepShape
<1>2. Grow
  BY <1>0, <1>1, StepGrows
<1>3. DistinctTokens'
  BY <1>0, LeaseStep DEF TypeOK
<1>4. RowInv'
  BY <1>1, RowInvStep
<1>5. CursorOfCycle' /\ WalkOfCycle' /\ HolderKnows'
  BY <1>1, MemoryStep
<1>6. HandlerInv' /\ ConsumedIsPaid'
  BY <1>1, <1>2, <1>4, HandlerStep, PaidStep
<1> QED
  BY <1>1, <1>3, <1>4, <1>5, <1>6 DEF IInv

(* The invariant IInv holds in every state the payout pipeline reaches,    *)
(* whatever processes crash, lose the lease, or are told to abandon.       *)
THEOREM Invariance ==
  ASSUME CoveredEnv
  PROVE  Spec => []IInv
<1>1. Init => IInv
  BY IInvInit
<1>2. IInv /\ [Next]_vars => IInv'
  BY IInvStep
<1> QED
  BY <1>1, <1>2, PTL DEF Spec

(* Of all payments runner.go ever signs for a payout at most one can still *)
(* be mined.                                                               *)
THEOREM OnePayable ==
  ASSUME CoveredEnv
  PROVE  Spec => []AtMostOnePayable
<1>1. IInv => AtMostOnePayable
  BY DEF IInv, RowInv
<1>2. Spec => []IInv
  BY Invariance
<1> QED
  BY <1>1, <1>2, PTL

(* Two mined payments of one payout would both be payable. *)
LEMMA MinedOnce ==
  ASSUME IInv
  PROVE  NoDoublePay
<1> SUFFICES ASSUME NEW j \in 1..Len(chain), NEW k \in 1..Len(chain),
                    chain[j] \notin cancels, chain[k] \notin cancels,
                    chain[j][1] = chain[k][1], j # k
             PROVE  FALSE
  BY DEF NoDoublePay
<1>1. chain[j] \in rows \ cancels /\ chain[k] \in rows \ cancels
  BY MinedIsRow DEF IInv
<1>2. nonceOf[chain[j]] = j - 1 /\ nonceOf[chain[k]] = k - 1
  BY DEF IInv, RowInv, ChainByNonce
<1>3. chain[j] # chain[k]
  BY <1>2
<1>4. ~Dead(chain[j]) /\ ~Dead(chain[k])
  BY <1>2 DEF Dead
<1> QED
  BY <1>1, <1>3, <1>4 DEF IInv, RowInv, AtMostOnePayable

(* The hot wallet pays a payout at most once, for any number of            *)
(* coordinator processes, payouts and attempts.                            *)
THEOREM PaidOnce ==
  ASSUME CoveredEnv
  PROVE  Spec => []NoDoublePay
<1>1. IInv => NoDoublePay
  BY MinedOnce
<1>2. Spec => []IInv
  BY Invariance
<1> QED
  BY <1>1, <1>2, PTL

(* What ClaimPayoutReady records names a payment of that payout that is    *)
(* deep on the chain.                                                      *)
THEOREM ClaimsAreTrue ==
  ASSUME CoveredEnv
  PROVE  Spec => []ConsumedIsPaid
<1>1. IInv => ConsumedIsPaid
  BY DEF IInv
<1>2. Spec => []IInv
  BY Invariance
<1> QED
  BY <1>1, <1>2, PTL

(* A fresh payment is allocated only when every live cancel of the payout  *)
(* is confirmed: what processRow read stays true until the transaction.    *)
THEOREM CancelsBlock ==
  ASSUME CoveredEnv
  PROVE  Spec => CancelsBlockFresh
<1>1. ASSUME IInv, [Next]_vars
      PROVE  [\A i \in (rows' \ cancels') \ rows : LiveCancels(i[1]) \subseteq confirmed]_vars
  <2>1. RowStep \/ UNCHANGED attemptVars
    BY <1>1, StepShape DEF IInv, RowInv, TableStep
  <2>2. ASSUME NEW q \in Procs, Allocate(q), NEW i \in (rows' \ cancels') \ rows
        PROVE  LiveCancels(i[1]) \subseteq confirmed
    <3>1. i[1] = row[q]
      BY <2>2 DEF Allocate, InsertAttempt
    <3> QED BY <1>1, <2>2, <3>1, AllocateCancels
  <2>3. CASE ~\E q \in Procs : Allocate(q)
    BY ZenonT(30), <2>1, <2>3 DEF RowStep, attemptVars, UpsertNonceCursor, StampBroadcastAt,
       MarkConfirmed, AbandonWithCancel
  <2> QED
    BY <2>2, <2>3
<1>2. Spec => []IInv
  BY Invariance
<1> QED
  BY <1>1, <1>2, PTL DEF Spec, CancelsBlockFresh

-----------------------------------------------------------------------------
(* The nonces.                                                             *)

(* The cursor moves only at a start, to a nonce an endpoint reports, and   *)
(* with an allocation.                                                     *)
LEMMA CursorMoves ==
  ASSUME [Next]_vars
  PROVE  \/ UNCHANGED cursor
         \/ \E n \in PendingNonces : UpsertNonceCursor(n)
         \/ \E q \in Procs : Allocate(q)
<1>1. CASE \E q \in Procs : CycleStep(q) /\ ~Allocate(q)
  BY ZenonT(30), <1>1 DEF CycleStep, TakeRow, LookupExisting, Poll, PollTimeout, MarkPaid, Claim,
     RowFails, FenceFresh, FenceRebroadcast, FenceThen, Broadcast, Rebroadcast, Stamp,
     LookupLiveCancels, VisitCancel, RebroadcastCancel, StampCancel, MarkCancel,
     WalkDone, AllocateFails, attemptVars, StampBroadcastAt, MarkConfirmed
<1>2. CASE \E q \in Procs : ProcessStep(q)
  BY ZenonT(30), <1>2 DEF ProcessStep, ColdStart, AcquireLease, AcquireConflict, HeartbeatTick,
     HeartbeatFails, StartCycle, RequestHalt, Shutdown, Crash, attemptVars
<1>3. CASE \/ \E q \in Procs, i \in Ids, s \in Seqs : Abandon(q, i, s)
           \/ AbandonBroadcast \/ AbandonStamp
           \/ \E q \in Procs, i \in Ids : ReorgPoll(q, i)
           \/ ChainStep \/ Tick \/ UNCHANGED vars
           \/ \E p \in Payouts : RevokeSource(p)
  BY ZenonT(30), <1>3 DEF Abandon, AbandonWithCancel, AbandonOnly, AbandonBroadcast, AbandonStamp,
     ReorgPoll, LiveAgain, ChainStep, Tick, RevokeSource, vars, attemptVars, StampBroadcastAt
<1> QED
  BY <1>1, <1>2, <1>3 DEF Next

(* The nonce of every row is that of a live row: its own, or the cancel's. *)
LEMMA RowNonceTaken ==
  ASSUME IInv, NEW i \in rows
  PROVE  NonceTaken(nonceOf[i])
  BY DEF IInv, RowInv, AbandonedIsCovered, NonceTaken, LiveRows

(* A nonce that is taken stays taken: an abandon inserts its cancel there. *)
LEMMA TakenStays ==
  ASSUME IInv, IInv', Grow, NEW n, NonceTaken(n)
  PROVE  NonceTaken(n)'
<1>1. PICK i \in LiveRows : nonceOf[i] = n
  BY DEF NonceTaken
<1>2. i \in rows' /\ nonceOf'[i] = n
  BY <1>1 DEF Grow, LiveRows
<1>3. CASE i \in abandoned'
  BY <1>2, <1>3 DEF IInv, RowInv, AbandonedIsCovered, NonceTaken
<1>4. CASE i \notin abandoned'
  BY <1>2, <1>4 DEF NonceTaken, LiveRows
<1> QED
  BY <1>3, <1>4

(* What an endpoint reports as the next nonce has no gap below it: the     *)
(* mined history and the known transactions are transactions of rows.      *)
LEMMA PendingCovered ==
  ASSUME IInv, NEW n \in PendingNonces
  PROVE  \A m \in 0..(n - 1) : NonceTaken(m)
<1>0. n \in Int
  BY DEF PendingNonces, IInv, TypeOK, ChainTypeOK, AttemptsTypeOK
<1>1. PICK len \in Nat : len = Len(chain)
  BY DEF IInv, TypeOK, ChainTypeOK
<1> SUFFICES ASSUME NEW m \in 0..(n - 1) PROVE NonceTaken(m)
  OBVIOUS
<1>2. CASE m < len
  <2>1. m + 1 \in 1..Len(chain)
    BY <1>0, <1>1, <1>2
  <2>2. chain[m + 1] \in rows /\ nonceOf[chain[m + 1]] = m
    BY <1>0, <2>1, MinedIsRow DEF IInv, RowInv, ChainByNonce
  <2> QED BY <2>2, RowNonceTaken
<1>3. CASE ~(m < len)
  <2>1. m \in len..(n - 1)
    BY <1>0, <1>1, <1>3
  <2>2. PICK t \in sent : nonceOf[t] = m
    BY <1>1, <2>1 DEF PendingNonces
  <2>3. t \in rows
    BY DEF IInv, TypeOK, ChainTypeOK
  <2> QED BY <2>2, <2>3, RowNonceTaken
<1> QED
  BY <1>2, <1>3

(* A step leaves no gap below a row's nonce or below the cursor. *)
LEMMA GapStep ==
  ASSUME IInv, IInv', Grow, NoNonceGaps, CursorCovered, TableStep, [Next]_vars
  PROVE  NoNonceGaps' /\ CursorCovered'
<1>0. TypeOK /\ AttemptsTypeOK /\ cursor \in Nat /\ nonceOf \in [Ids -> Nat] /\ rows \subseteq Ids
  BY DEF IInv, TypeOK, AttemptsTypeOK
<1>1. ASSUME NEW q \in Procs, Allocate(q)
      PROVE  /\ cursor' = cursor + 1 /\ \E i \in LiveRows' : nonceOf'[i] = cursor
             /\ \A i \in rows' \ rows : nonceOf'[i] = cursor
  <2>1. PICK s \in Seqs : NextAttemptSeq(row[q], s) /\ InsertAttempt(row[q], s)
    BY <1>1 DEF Allocate
  <2>2. <<row[q], s>> \in Ids
    BY ZenonT(30), <1>1 DEF Allocate, IInv, CursorOfCycle, CursorAt, FreshPCs
  <2>3. nonceOf'[<<row[q], s>>] = cursor /\ cursor' = cursor + 1 /\ rows' = rows \cup {<<row[q], s>>}
    BY <1>0, <2>1, <2>2 DEF InsertAttempt
  <2>4. <<row[q], s>> \in LiveRows'
    BY <1>0, <2>1, <2>3, NewRow DEF LiveRows, InsertAttempt, AttemptsTypeOK
  <2> QED BY <2>3, <2>4
<1>2. CursorCovered'
  <2>1. CASE UNCHANGED cursor
    BY <2>1, TakenStays DEF CursorCovered
  <2>2. ASSUME NEW n \in PendingNonces, UpsertNonceCursor(n) PROVE CursorCovered'
    BY <2>2, PendingCovered, TakenStays DEF CursorCovered, UpsertNonceCursor
  <2>3. ASSUME NEW q \in Procs, Allocate(q) PROVE CursorCovered'
    <3>1. \A m \in 0..cursor : m = cursor \/ m \in 0..(cursor - 1)
      BY <1>0
    <3>2. ASSUME NEW m \in 0..cursor PROVE NonceTaken(m)'
      <4>1. CASE m = cursor
        BY <1>1, <2>3, <4>1 DEF NonceTaken
      <4>2. CASE m \in 0..(cursor - 1)
        BY <4>2, TakenStays DEF CursorCovered
      <4> QED BY <3>1, <4>1, <4>2
    <3>3. cursor' = cursor + 1
      BY ZenonT(30), <1>1, <2>3
    <3>4. 0..(cursor' - 1) = 0..cursor
      BY <1>0, <3>3
    <3> QED BY ZenonT(30), <3>2, <3>4 DEF CursorCovered
  <2> QED BY <2>1, <2>2, <2>3, CursorMoves
<1>3. ASSUME NEW i \in rows, NEW m \in 0..(nonceOf[i] - 1) PROVE NonceTaken(m)'
  BY <1>3, TakenStays DEF NoNonceGaps
<1>4. \A i \in rows' \ rows : nonceOf'[i] = cursor \/ \E a \in rows : nonceOf'[i] = nonceOf[a]
  <2>1. ASSUME NEW a \in Ids, NEW s \in Seqs, AbandonWithCancel(a, s), NEW i \in rows' \ rows
        PROVE  \E b \in rows : nonceOf'[i] = nonceOf[b]
    <3>1. i = <<a[1], s>> /\ i \in Ids /\ a \in rows
      BY <2>1, IdParts DEF AbandonWithCancel, CanAbandon
    <3> QED BY <1>0, <2>1, <3>1 DEF AbandonWithCancel
  <2>2. CASE \/ UNCHANGED attemptVars
             \/ \E n \in Nat : UpsertNonceCursor(n)
             \/ \E i \in rows : StampBroadcastAt(i)
             \/ \E i \in rows : CanMarkConfirmed(i) /\ IsFinal(i) /\ MarkConfirmed(i)
    BY <2>2 DEF attemptVars, UpsertNonceCursor, StampBroadcastAt, MarkConfirmed
  <2> QED BY <1>1, <2>1, <2>2 DEF TableStep, RowStep
<1>5. \A i \in rows' : \A m \in 0..(nonceOf'[i] - 1) : NonceTaken(m)'
  <2> SUFFICES ASSUME NEW i \in rows', NEW m \in 0..(nonceOf'[i] - 1) PROVE NonceTaken(m)'
    OBVIOUS
  <2>1. CASE i \in rows
    BY <1>3, <2>1 DEF Grow
  <2>2. CASE i \notin rows /\ nonceOf'[i] = cursor
    BY <2>2, TakenStays DEF CursorCovered
  <2>3. CASE \E a \in rows : nonceOf'[i] = nonceOf[a]
    BY <1>3, <2>3
  <2> QED BY <1>4, <2>1, <2>2, <2>3
<1> QED
  BY <1>2, <1>5 DEF NoNonceGaps

(* Every nonce below one in use belongs to a live row, for any number of   *)
(* starts that reset the cursor and abandons that reuse a nonce.           *)
THEOREM NoGaps ==
  ASSUME CoveredEnv
  PROVE  Spec => []NoNonceGaps
<1> DEFINE GapInv == IInv /\ NoNonceGaps /\ CursorCovered
<1>1. Init => GapInv
  BY IInvInit DEF Init, AttemptsInit, NoNonceGaps, CursorCovered
<1>2. GapInv /\ [Next]_vars => GapInv'
  <2> SUFFICES ASSUME GapInv, [Next]_vars PROVE GapInv'
    OBVIOUS
  <2>1. IInv' /\ TableStep
    BY IInvStep, StepShape DEF IInv, RowInv
  <2>2. Grow
    BY <2>1, StepGrows DEF IInv
  <2> QED BY <2>1, <2>2, GapStep
<1>3. GapInv => NoNonceGaps
  OBVIOUS
<1> QED
  BY <1>1, <1>2, <1>3, PTL DEF Spec

-----------------------------------------------------------------------------
(* The refinement.                                                         *)

(* A deep payment of a payout is one of the payments that paid it. *)
LEMMA FinalPays ==
  ASSUME TypeOK, NEW i \in rows \ cancels, IsFinal(i)
  PROVE  i \in PaidBy(i[1])
<1>1. PICK k \in 1..final : chain[k] = i
  BY DEF IsFinal
<1> QED
  BY <1>1 DEF PaidBy

(* A payout has at most one. *)
LEMMA PaidByOne ==
  ASSUME IInv, NEW p, NEW i \in PaidBy(p), NEW j \in PaidBy(p)
  PROVE  i = j
<1>1. PICK k \in 1..final : chain[k] = i /\ i \notin cancels /\ i[1] = p
  BY DEF PaidBy
<1>2. PICK l \in 1..final : chain[l] = j /\ j \notin cancels /\ j[1] = p
  BY DEF PaidBy
<1>3. k \in 1..Len(chain) /\ l \in 1..Len(chain)
  BY DEF IInv, TypeOK, ChainTypeOK
<1>4. NoDoublePay
  BY MinedOnce
<1> QED
  BY <1>1, <1>2, <1>3, <1>4 DEF NoDoublePay

(* What has paid for good changes only when a block gets deep. *)
LEMMA PaidKept ==
  ASSUME TypeOK, Grow, final' = final
  PROVE  Paid' = Paid
<1>1. ASSUME NEW k \in 1..final
      PROVE  chain'[k] = chain[k] /\ (chain'[k] \in cancels' <=> chain[k] \in cancels)
  <2>1. k \in 1..Len(chain)
    BY DEF TypeOK, ChainTypeOK
  <2> QED BY <2>1, MinedIsRow DEF Grow, Deeper
<1>2. ASSUME NEW p \in Payouts PROVE PaidBy(p)' = PaidBy(p)
  BY <1>1 DEF PaidBy
<1> QED
  BY <1>2 DEF Paid

(* The block that gets deep adds its payment, if it is one. *)
LEMMA PaidFinalize ==
  ASSUME TypeOK, Finalize, UNCHANGED cancels, NEW p \in Payouts
  PROVE  PaidBy(p)' = IF chain[final + 1] \notin cancels /\ chain[final + 1][1] = p
                        THEN PaidBy(p) \cup {chain[final + 1]} ELSE PaidBy(p)
<1>1. final \in Nat /\ final' = final + 1 /\ UNCHANGED chain
  BY DEF Finalize, TypeOK, ChainTypeOK
<1>2. 1..(final + 1) = 1..final \cup {final + 1}
  BY <1>1
<1> QED
  BY <1>1, <1>2 DEF PaidBy

(* Only Finalize makes a block deep. *)
LEMMA FinalMoves ==
  ASSUME TypeOK, TableStep
  PROVE  final' = final \/ (Finalize /\ UNCHANGED attemptVars)
  BY DEF TableStep, NodeStep, chainVars, Reach, Mine, ShallowReorg

(* The payment a claim records is the one that paid. *)
LEMMA ClaimedIsPaid ==
  ASSUME IInv, NEW q \in Procs, Claim(q)
  PROVE  /\ row[q] \in Payouts /\ cur(q)[1] = row[q] /\ cur(q) \in Ids
         /\ PaidBy(row[q]) = {cur(q)}
<1>1. cur(q) \in rows \ cancels /\ cur(q) \in confirmed
  BY ZenonT(30) DEF IInv, Claim, CursorOfCycle, CursorAt, PaymentPCs
<1>2. row[q] \in Payouts /\ cur(q)[1] = row[q] /\ cur(q) \in Ids
  BY <1>1 DEF cur, IInv, TypeOK, AttemptsTypeOK
<1>3. IsFinal(cur(q)) /\ TypeOK
  BY <1>1 DEF IInv, RowInv, ConfirmedIsFinal
<1>4. cur(q) \in PaidBy(row[q])
  BY <1>1, <1>2, <1>3, FinalPays
<1>5. \A i \in PaidBy(row[q]) : i = cur(q)
  BY <1>4, PaidByOne
<1> QED
  BY <1>2, <1>4, <1>5

(* A payout is closed only after it was paid. *)
LEMMA ClosedStep ==
  ASSUME IInv, ClosedIsPaid, Grow, TableStep, LedgerStep
  PROVE  ClosedIsPaid'
<1>0. TypeOK
  BY DEF IInv
<1>1. ASSUME NEW p \in Payouts, PaidBy(p) # {} PROVE PaidBy(p)' # {}
  <2>1. CASE final' = final
    BY <1>0, <1>1, <2>1, PaidKept DEF Paid
  <2>2. CASE Finalize /\ UNCHANGED attemptVars
    BY <1>0, <1>1, <2>2, PaidFinalize DEF attemptVars
  <2> QED BY <1>0, <2>1, <2>2, FinalMoves
<1>2. ASSUME NEW p \in Payouts, status'[p] # "ready" PROVE PaidBy(p) # {}
  <2>1. CASE status[p] # "ready"
    BY <2>1 DEF ClosedIsPaid
  <2>2. ASSUME NEW q \in Procs, Claim(q), ClaimPayoutReady(cur(q)), status[p] = "ready"
        PROVE  PaidBy(p) # {}
    <3>1. cur(q)[1] = p
      BY <1>0, <1>2, <2>2 DEF ClaimPayoutReady, TypeOK, LedgerTypeOK
    <3> QED BY <2>2, <3>1, ClaimedIsPaid
  <2> QED BY <1>2, <2>1, <2>2 DEF LedgerStep
<1> QED
  BY ZenonT(30), <1>1, <1>2 DEF ClosedIsPaid

(* A claim consumes or voids the payout of PayOnce, or finds it closed. *)
LEMMA ClaimRefines ==
  ASSUME IInv, NEW q \in Procs, Claim(q), ClaimPayoutReady(cur(q)), Paid' = Paid
  PROVE  Once!Next \/ UNCHANGED Once!vars
<1> DEFINE p == row[q]
<1>0. TypeOK /\ LedgerTypeOK
  BY DEF IInv, TypeOK
<1>1. p \in Payouts /\ cur(q)[1] = p /\ Paid[p] = {cur(q)}
  BY ClaimedIsPaid DEF Paid
<1>2. CASE status[p] # "ready"
  <2>1. status' = status /\ claimTx' = claimTx
    BY ZenonT(30), <1>0, <1>1, <1>2 DEF ClaimPayoutReady, LedgerTypeOK
  <2> QED BY <2>1 DEF Once!vars
<1>3. CASE status[p] = "ready" /\ sourcesOk[p]
  <2>1. /\ status' = [status EXCEPT ![p] = "consumed"]
        /\ claimTx' = [claimTx EXCEPT ![p] = Paid[p]]
    BY ZenonT(30), <1>0, <1>1, <1>3 DEF ClaimPayoutReady, LedgerTypeOK
  <2>2. Once!Consume(p)
    BY ZenonT(30), <1>1, <1>3, <2>1 DEF Once!Consume
  <2> QED BY ZenonT(30), <1>1, <2>2 DEF Once!Next
<1>4. CASE status[p] = "ready" /\ ~sourcesOk[p]
  <2>1. status' = [status EXCEPT ![p] = "voided"] /\ claimTx' = claimTx
    BY ZenonT(30), <1>0, <1>1, <1>4 DEF ClaimPayoutReady, LedgerTypeOK
  <2>2. Once!Void(p)
    BY ZenonT(30), <1>1, <1>4, <2>1 DEF Once!Void
  <2> QED BY ZenonT(30), <1>1, <2>2 DEF Once!Next
<1> QED
  BY <1>2, <1>3, <1>4

(* A payment that gets deep pays its payout of PayOnce. *)
LEMMA FinalizeRefines ==
  ASSUME IInv, ClosedIsPaid, Finalize, UNCHANGED <<cancels, status, claimTx>>
  PROVE  Once!Next \/ UNCHANGED Once!vars
<1> DEFINE t == chain[final + 1]
<1>0. TypeOK
  BY DEF IInv
<1>1. t \in Ids /\ final + 1 \in 1..Len(chain) /\ final \in Nat
  <2>1. final \in Nat /\ Len(chain) \in Nat /\ final < Len(chain) /\ rows \subseteq Ids
    BY <1>0 DEF Finalize, TypeOK, ChainTypeOK, AttemptsTypeOK
  <2>2. final + 1 \in 1..Len(chain)
    BY <2>1
  <2>3. t \in rows
    BY <1>0, <2>2, MinedIsRow
  <2> QED BY <2>1, <2>2, <2>3
<1>2. CASE t \in cancels
  <2>1. \A p \in Payouts : PaidBy(p)' = PaidBy(p)
    BY <1>0, <1>2, PaidFinalize
  <2> QED BY <2>1 DEF Paid, Once!vars
<1>3. CASE t \notin cancels
  <2> DEFINE p == t[1]
  <2>1. p \in Payouts
    BY <1>1
  <2>2. PaidBy(p) = {}
    <3> SUFFICES ASSUME NEW i \in PaidBy(p) PROVE FALSE
      OBVIOUS
    <3>1. PICK k \in 1..final : chain[k] = i /\ i \notin cancels /\ i[1] = p
      BY DEF PaidBy
    <3>2. k \in 1..Len(chain) /\ k # final + 1
      BY <1>0, <1>1 DEF TypeOK, ChainTypeOK
    <3> QED BY <1>1, <1>3, <3>1, <3>2, MinedOnce DEF NoDoublePay
  <2>3. status[p] = "ready"
    BY <2>1, <2>2 DEF ClosedIsPaid
  <2>4. Paid' = [Paid EXCEPT ![p] = {t}]
    <3>1. \A r \in Payouts : PaidBy(r)' = IF r = p THEN {t} ELSE PaidBy(r)
      BY ZenonT(30), <1>0, <1>3, <2>2, PaidFinalize
    <3> QED BY ZenonT(30), <2>1, <3>1 DEF Paid
  <2>5. Once!Pay(p, t)
    BY <2>1, <2>2, <2>3, <2>4 DEF Once!Pay, Paid
  <2> QED BY <1>1, <2>1, <2>5 DEF Once!Next
<1> QED
  BY <1>2, <1>3

(* Every step of the pipeline is a step of PayOnce or leaves it alone. *)
LEMMA StepRefines ==
  ASSUME IInv, ClosedIsPaid, Grow, TableStep, LedgerStep
  PROVE  [Once!Next]_(Once!vars)
<1>0. TypeOK
  BY DEF IInv
<1>1. CASE UNCHANGED <<status, claimTx>> /\ final' = final
  BY <1>0, <1>1, PaidKept DEF Once!vars
<1>2. CASE UNCHANGED <<status, claimTx>> /\ Finalize /\ UNCHANGED attemptVars
  BY <1>2, FinalizeRefines DEF attemptVars
<1>3. ASSUME NEW q \in Procs, Claim(q), ClaimPayoutReady(cur(q)) PROVE [Once!Next]_(Once!vars)
  <2>1. Paid' = Paid
    BY <1>0, <1>3, PaidKept DEF Claim, chainVars
  <2> QED BY <1>3, <2>1, ClaimRefines
<1> QED
  BY <1>0, <1>1, <1>2, <1>3, FinalMoves DEF LedgerStep

(* The pipeline implements PayOnce: leases, attempts, nonces, cycles,      *)
(* crashes and reorganisations add up to a payer that pays each payout     *)
(* with one transaction, before the ledger closes it, and whose ledger     *)
(* names that transaction.                                                 *)
THEOREM ImplementsPayOnce ==
  ASSUME CoveredEnv
  PROVE  Spec => PaysOnce
<1> DEFINE OnceInv == IInv /\ ClosedIsPaid
<1>1. Init => OnceInv /\ Once!Init
  <2> SUFFICES ASSUME Init PROVE OnceInv /\ Once!Init
    OBVIOUS
  <2>1. \A p \in Payouts : PaidBy(p) = {}
    BY DEF Init, ChainInit, PaidBy
  <2> QED BY <2>1, IInvInit DEF Init, ClosedIsPaid, Once!Init, Paid
<1>2. OnceInv /\ [Next]_vars => OnceInv' /\ [Once!Next]_(Once!vars)
  <2> SUFFICES ASSUME OnceInv, [Next]_vars PROVE OnceInv' /\ [Once!Next]_(Once!vars)
    OBVIOUS
  <2>1. IInv' /\ TableStep /\ LedgerStep
    BY IInvStep, StepShape DEF IInv, RowInv
  <2>2. Grow
    BY <2>1, StepGrows DEF IInv
  <2> QED BY <2>1, <2>2, ClosedStep, StepRefines
<1> QED
  BY <1>1, <1>2, PTL DEF Spec, PaysOnce, Once!Spec
=============================================================================
