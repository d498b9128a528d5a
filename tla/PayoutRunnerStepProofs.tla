----------------------- MODULE PayoutRunnerStepProofs -----------------------
(***************************************************************************)
(* What a step of PayoutRunner does to the tables, to the chain and to the *)
(* memory of the processes, that every step keeps the types, and the steps *)
(* towards its invariant: the rows and the chain, what a step of one       *)
(* process leaves of the knowledge of the others, and what a process in a  *)
(* cycle knows about its own row, action by action.                        *)
(***************************************************************************)
EXTENDS PayoutRunnerInv, TLAPS

(* The environment the main theorem is about: no reorganisation reaches    *)
(* below the confirmation depth, and every abandon asks for a cancel.      *)
CoveredEnv == "deepReorg" \notin Env /\ "bareAbandon" \notin Env

USE DEF Seqs, Ids, NoPayout, Kinds
USE SMTT(30), ZenonT(30)

-----------------------------------------------------------------------------
(* The names of rows, and prefixes of the mined history.                   *)

(* A row name is the pair of its payout and its attempt number. *)
LEMMA IdParts ==
  ASSUME NEW i \in Ids
  PROVE  i = <<i[1], i[2]>> /\ i[1] \in Payouts /\ i[2] \in Seqs
  OBVIOUS

(* A row of a payout is named by the payout and its own number. *)
LEMMA RowName ==
  ASSUME rows \subseteq Ids, NEW i \in rows, NEW p, i[1] = p
  PROVE  i = <<p, i[2]>>
  BY IdParts

(* The initial state is well typed. *)
LEMMA TypeInit == Init => TypeOK
<1> SUFFICES ASSUME Init PROVE TypeOK
  OBVIOUS
<1>1. LeaseTypeOK
  BY StaleAssumption DEF Init, LeaseInit, LeaseTypeOK
<1>2. AttemptsTypeOK
  BY DEF Init, AttemptsInit, AttemptsTypeOK
<1>3. ChainTypeOK(rows)
  BY DEF Init, ChainInit, ChainTypeOK, AttemptsInit
<1>4. LedgerTypeOK /\ CycleTypeOK
  BY DEF Init, LedgerTypeOK, CycleTypeOK, PCs
<1>5. HandlerTypeOK
  BY DEF Init, HandlerTypeOK, IdleHandler
<1> QED
  BY <1>1, <1>2, <1>3, <1>4, <1>5 DEF TypeOK

-----------------------------------------------------------------------------
(* Type correctness of a step.                                             *)

(* The moves of a cycle keep the types of a process's memory. *)
LEMMA MoveType ==
  ASSUME CycleTypeOK, NEW q \in Procs, NEW l \in PCs,
         Goto(q, l) \/ NextRow(q) \/ EndCycle(q)
  PROVE  CycleTypeOK'
  BY ZenonT(30) DEF CycleTypeOK, Goto, NextRow, EndCycle, ClearCycle, cycleVars, PCs

(* A step of a cycle keeps the types of the process's memory. *)
LEMMA CycleStepType ==
  ASSUME TypeOK, NEW q \in Procs, CycleStep(q)
  PROVE  CycleTypeOK'
<1> USE DEF TypeOK
<1>1. CASE TakeRow(q)
  <2>1. CASE EndCycle(q)
    BY <2>1, MoveType DEF PCs
  <2>2. CASE ~EndCycle(q)
    BY <1>1, <2>2 DEF TakeRow, CycleTypeOK, PCs
  <2> QED BY <2>1, <2>2
<1>2. CASE LookupExisting(q)
  <2>1. CASE Goto(q, "cancels")
    BY <2>1, MoveType DEF PCs
  <2>2. CASE ~Goto(q, "cancels")
    BY ZenonT(30), <1>2, <2>2 DEF LookupExisting, CycleTypeOK, AttemptsTypeOK, PCs, LivePayments, LiveRows
  <2> QED BY <2>1, <2>2
<1>3. CASE Poll(q) \/ PollTimeout(q) \/ MarkPaid(q) \/ Claim(q) \/ RowFails(q)
  BY <1>3, MoveType DEF Poll, PollTimeout, MarkPaid, Claim, RowFails, PCs
<1>4. CASE FenceFresh(q) \/ FenceRebroadcast(q)
  BY <1>4, MoveType DEF FenceFresh, FenceRebroadcast, FenceThen, PCs
<1>5. CASE Broadcast(q) \/ Rebroadcast(q) \/ Stamp(q)
  BY <1>5, MoveType DEF Broadcast, Rebroadcast, Stamp, PCs
<1>6. CASE LookupLiveCancels(q)
  BY <1>6 DEF LookupLiveCancels, CycleTypeOK, AttemptsTypeOK, PCs, KindOf, LiveCancels, LiveRows
<1>7. CASE VisitCancel(q)
  BY <1>7 DEF VisitCancel, CycleTypeOK, PCs
<1>8. CASE RebroadcastCancel(q) \/ StampCancel(q) \/ WalkDone(q) \/ AllocateFails(q)
  BY <1>8, MoveType DEF RebroadcastCancel, StampCancel, WalkDone, AllocateFails, PCs
<1>9. CASE MarkCancel(q)
  <2>1. CASE Goto(q, "walk")
    BY <2>1, MoveType DEF PCs
  <2>2. CASE ~Goto(q, "walk")
    BY ZenonT(30), <1>9, <2>2 DEF MarkCancel, CycleTypeOK, PCs
  <2> QED BY <2>1, <2>2
<1>10. CASE Allocate(q)
  BY <1>10 DEF Allocate, CycleTypeOK, PCs
<1> QED
  BY <1>1, <1>2, <1>3, <1>4, <1>5, <1>6, <1>7, <1>8, <1>9, <1>10 DEF CycleStep

(* The other steps of a process keep them too. *)
LEMMA ProcessStepType ==
  ASSUME TypeOK, NEW q \in Procs, ProcessStep(q)
  PROVE  CycleTypeOK'
<1> USE DEF TypeOK
<1>1. CASE ColdStart(q) \/ AcquireConflict(q)
  BY <1>1, MoveType DEF ColdStart, AcquireConflict, PCs
<1>2. CASE AcquireLease(q)
  BY <1>2 DEF AcquireLease, CycleTypeOK, cycleVars, PCs
<1>3. CASE HeartbeatTick(q) \/ HeartbeatFails(q)
  BY ZenonT(30), <1>3 DEF HeartbeatTick, HeartbeatFails, CycleTypeOK, procVars, cycleVars, PCs
<1>4. CASE StartCycle(q, TRUE) \/ StartCycle(q, FALSE)
  <2>1. ASSUME NEW d \in BOOLEAN, StartCycle(q, d) PROVE CycleTypeOK'
    BY <2>1 DEF StartCycle, CycleTypeOK, PCs
  <2> QED BY ZenonT(30), <1>4, <2>1
<1>5. CASE RequestHalt(q)
  BY <1>5 DEF RequestHalt, CycleTypeOK, cycleVars, PCs
<1>6. CASE Shutdown(q)
  BY ZenonT(30), <1>6 DEF Shutdown, ClearCycle, CycleTypeOK, cycleVars, PCs
<1>7. CASE Crash(q)
  BY <1>7 DEF Crash, ClearCycle, CycleTypeOK, PCs
<1> QED
  BY ZenonT(30), <1>1, <1>2, <1>3, <1>4, <1>5, <1>6, <1>7 DEF ProcessStep

(* The lease keeps its types, and its tokens stay distinct. *)
LEMMA LeaseStep ==
  ASSUME LeaseTypeOK, DistinctTokens, [Next]_vars
  PROVE  LeaseTypeOK' /\ DistinctTokens'
<1> USE StaleAssumption, TokenAssumption DEF LeaseTypeOK, DistinctTokens
<1>1. CASE UNCHANGED leaseVars
  BY <1>1 DEF leaseVars
<1>2. ASSUME NEW q \in Procs, Acquire(q) PROVE LeaseTypeOK' /\ DistinctTokens'
  BY <1>2 DEF Acquire, FreshTokens
<1>3. ASSUME NEW q \in Procs, Heartbeat(q) \/ Release(q) \/ Forget(q)
      PROVE  LeaseTypeOK' /\ DistinctTokens'
  BY <1>3 DEF Heartbeat, Release, Forget, Holds
<1>4. CASE Age
  BY <1>4 DEF Age
<1>5. ASSUME NEW q \in Procs, CycleStep(q) PROVE UNCHANGED leaseVars
  BY ZenonT(30), <1>5 DEF CycleStep, TakeRow, LookupExisting, Poll, PollTimeout, MarkPaid, Claim,
     RowFails, FenceFresh, FenceRebroadcast, FenceThen, Broadcast, Rebroadcast, Stamp,
     LookupLiveCancels, VisitCancel, RebroadcastCancel, StampCancel, MarkCancel,
     WalkDone, Allocate, AllocateFails
<1>6. ASSUME NEW q \in Procs, ProcessStep(q)
      PROVE  UNCHANGED leaseVars \/ Acquire(q) \/ Heartbeat(q) \/ Release(q) \/ Forget(q)
  BY ZenonT(30), <1>6 DEF ProcessStep, ColdStart, AcquireLease, AcquireConflict, HeartbeatTick,
     HeartbeatFails, StartCycle, RequestHalt, Shutdown, Crash
<1>7. ASSUME NEW q \in Procs, NEW i \in Ids, NEW s \in Seqs,
             Abandon(q, i, s) \/ ReorgPoll(q, i)
      PROVE  UNCHANGED leaseVars
  BY <1>7 DEF Abandon, ReorgPoll
<1>8. CASE AbandonBroadcast \/ AbandonStamp \/ ChainStep \/ \E p \in Payouts : RevokeSource(p)
  BY <1>1, <1>8 DEF AbandonBroadcast, AbandonStamp, ChainStep, RevokeSource
<1>9. CASE Tick
  BY <1>4, <1>9 DEF Tick
<1>10. CASE UNCHANGED vars
  BY <1>1, <1>10 DEF vars
<1>11. CASE \E q \in Procs, i \in Ids : ReorgPoll(q, i)
  BY <1>1, <1>11 DEF ReorgPoll
<1>12. CASE \E q \in Procs, i \in Ids, s \in Seqs : Abandon(q, i, s)
  BY <1>1, <1>7, <1>12
<1>13. CASE \E q \in Procs : CycleStep(q) \/ ProcessStep(q)
  BY <1>1, <1>2, <1>3, <1>5, <1>6, <1>13
<1> QED
  BY <1>8, <1>9, <1>10, <1>11, <1>12, <1>13 DEF Next
-----------------------------------------------------------------------------
(* What a step can do to the tables and to the chain.                      *)

RowStep ==
  \/ UNCHANGED attemptVars
  \/ \E n \in Nat : UpsertNonceCursor(n)
  \/ \E i \in rows : StampBroadcastAt(i)
  \/ \E i \in rows : CanMarkConfirmed(i) /\ IsFinal(i) /\ MarkConfirmed(i)
  \/ \E q \in Procs : Allocate(q)
  \/ \E i \in Ids, s \in Seqs : NextAttemptSeq(i[1], s) /\ AbandonWithCancel(i, s)

NodeStep ==
  \/ UNCHANGED chainVars
  \/ \E t \in rows : Reach(t)
  \/ \E t \in sent : Mine(t, nonceOf[t])
  \/ Finalize
  \/ \E k \in 0..Len(chain) : ShallowReorg(k)

TableStep ==
  \/ RowStep /\ UNCHANGED chainVars
  \/ NodeStep /\ UNCHANGED attemptVars

LedgerStep ==
  \/ UNCHANGED <<status, claimTx>>
  \/ \E q \in Procs : Claim(q) /\ ClaimPayoutReady(cur(q))

(* No cancel is ever taken back: a confirmed one is below the depth that   *)
(* reorganisations reach.                                                  *)
LEMMA NoLiveAgain ==
  ASSUME TypeOK, ConfirmedIsFinal, NEW q \in Procs, NEW i \in Ids
  PROVE  ~ReorgPoll(q, i)
  BY DEF TypeOK, ChainTypeOK, ConfirmedIsFinal, ReorgPoll, LiveAgain, IsFinal, IsMined

(* A step of a cycle changes the tables by one of the statements of        *)
(* RowStep, or the nodes by a broadcast, and claims only confirmed rows.   *)
LEMMA CycleShape ==
  ASSUME TypeOK, CursorOfCycle, NEW q \in Procs, CycleStep(q)
  PROVE  TableStep /\ LedgerStep /\ UNCHANGED aband
<1>1. CASE \/ TakeRow(q) \/ LookupExisting(q) \/ Poll(q) \/ PollTimeout(q) \/ RowFails(q)
           \/ FenceFresh(q) \/ FenceRebroadcast(q) \/ LookupLiveCancels(q)
           \/ VisitCancel(q) \/ WalkDone(q) \/ AllocateFails(q)
  BY ZenonT(30), <1>1 DEF TableStep, RowStep, LedgerStep, ledgerVars, TakeRow, LookupExisting,
     Poll, PollTimeout, RowFails, FenceFresh, FenceRebroadcast, FenceThen, LookupLiveCancels,
     VisitCancel, WalkDone, AllocateFails
<1>2. CASE MarkPaid(q) \/ MarkCancel(q)
  <2>1. cur(q) \in rows /\ IsFinal(cur(q))
    BY <1>2 DEF MarkPaid, MarkCancel, CursorOfCycle, CursorAt, PaymentPCs, CancelPCs
  <2> QED
    BY ZenonT(30), <1>2, <2>1 DEF MarkPaid, MarkCancel, TableStep, RowStep, LedgerStep, ledgerVars
<1>3. CASE Claim(q)
  <2>1. TableStep /\ UNCHANGED aband
    BY ZenonT(30), <1>3 DEF Claim, TableStep, RowStep
  <2>2. UNCHANGED <<status, claimTx>> \/ ClaimPayoutReady(cur(q))
    BY ZenonT(30), <1>3 DEF Claim, ledgerVars
  <2> QED
    BY ZenonT(30), <1>3, <2>1, <2>2 DEF LedgerStep
<1>4. CASE Broadcast(q) \/ Rebroadcast(q) \/ RebroadcastCancel(q)
  <2>1. cur(q) \in rows
    BY <1>4 DEF Broadcast, Rebroadcast, RebroadcastCancel, CursorOfCycle, CursorAt,
       PaymentPCs, CancelPCs
  <2> QED
    BY ZenonT(30), <1>4, <2>1 DEF Broadcast, Rebroadcast, RebroadcastCancel, Accepted, Refused,
       NonceTooLow, TableStep, NodeStep, LedgerStep, ledgerVars
<1>5. CASE Stamp(q) \/ StampCancel(q)
  <2>1. cur(q) \in rows
    BY <1>5 DEF Stamp, StampCancel, CursorOfCycle, CursorAt, PaymentPCs, CancelPCs
  <2> QED
    BY ZenonT(30), <1>5, <2>1 DEF Stamp, StampCancel, TableStep, RowStep, LedgerStep, ledgerVars
<1>6. CASE Allocate(q)
  BY ZenonT(30), <1>6 DEF Allocate, TableStep, RowStep, NodeStep, LedgerStep, ledgerVars
<1> QED
  BY <1>1, <1>2, <1>3, <1>4, <1>5, <1>6 DEF CycleStep

(* Start, heartbeat, halt, shutdown and crash touch no row; a start sets   *)
(* the cursor to a natural number.                                         *)
LEMMA ProcessShape ==
  ASSUME TypeOK, NEW q \in Procs, ProcessStep(q)
  PROVE  TableStep /\ LedgerStep
<1>1. CASE ColdStart(q)
  <2>1. PendingNonces \subseteq Nat
    BY DEF PendingNonces, TypeOK, ChainTypeOK, AttemptsTypeOK
  <2> QED
    BY <1>1, <2>1 DEF ColdStart, TableStep, RowStep, NodeStep, LedgerStep, ledgerVars
<1>2. CASE ~ColdStart(q)
  BY ZenonT(30), <1>2 DEF ProcessStep, AcquireLease, AcquireConflict, HeartbeatTick, HeartbeatFails,
     StartCycle, RequestHalt, Shutdown, Crash, TableStep, RowStep, NodeStep, LedgerStep, ledgerVars
<1> QED
  BY <1>1, <1>2

(* Every step is one statement on the rows or one step of the chain. *)
LEMMA StepShape ==
  ASSUME TypeOK, CursorOfCycle, HandlerInv, ConfirmedIsFinal, CoveredEnv, [Next]_vars
  PROVE  TableStep /\ LedgerStep
<1>1. CASE \E q \in Procs : CycleStep(q) \/ ProcessStep(q)
  BY <1>1, CycleShape, ProcessShape
<1>2. CASE \E q \in Procs, i \in Ids, s \in Seqs : Abandon(q, i, s)
  BY <1>2 DEF Abandon, CoveredEnv, TableStep, RowStep, NodeStep, LedgerStep, ledgerVars
<1>3. CASE AbandonBroadcast \/ AbandonStamp
  BY <1>3 DEF AbandonBroadcast, AbandonStamp, Accepted, Refused, HandlerInv,
     TableStep, RowStep, NodeStep, LedgerStep, ledgerVars
<1>4. CASE \E q \in Procs, i \in Ids : ReorgPoll(q, i)
  BY <1>4, NoLiveAgain
<1>5. CASE ChainStep
  BY <1>5 DEF ChainStep, CoveredEnv, TableStep, RowStep, NodeStep, LedgerStep, ledgerVars
<1>6. CASE Tick \/ UNCHANGED vars \/ \E p \in Payouts : RevokeSource(p)
  BY <1>6 DEF Tick, vars, RevokeSource, TableStep, RowStep, NodeStep, LedgerStep, ledgerVars
<1> QED
  BY <1>1, <1>2, <1>3, <1>4, <1>5, <1>6 DEF Next

(* A new row is new, and belongs to the payout it was numbered for. *)
LEMMA NewRow ==
  ASSUME NEW p, NEW s \in Seqs, NextAttemptSeq(p, s)
  PROVE  <<p, s>> \notin rows
  BY AttemptsAssumption DEF NextAttemptSeq

(* Statements on payout_attempts and the cursor keep the types. *)
LEMMA AttemptsType ==
  ASSUME TypeOK, CursorOfCycle, RowStep
  PROVE  AttemptsTypeOK'
<1> USE DEF TypeOK, AttemptsTypeOK
<1>1. CASE UNCHANGED attemptVars
  BY <1>1 DEF attemptVars
<1>2. CASE \E n \in Nat : UpsertNonceCursor(n)
  BY <1>2 DEF UpsertNonceCursor
<1>3. CASE \E i \in rows : StampBroadcastAt(i)
  BY <1>3 DEF StampBroadcastAt
<1>4. CASE \E i \in rows : CanMarkConfirmed(i) /\ IsFinal(i) /\ MarkConfirmed(i)
  BY <1>4 DEF MarkConfirmed
<1>5. ASSUME NEW q \in Procs, Allocate(q) PROVE AttemptsTypeOK'
  <2>1. row[q] \in Payouts
    BY <1>5 DEF Allocate, CursorOfCycle, CursorAt, FreshPCs
  <2> QED
    BY <1>5, <2>1 DEF Allocate, InsertAttempt
<1>6. ASSUME NEW i \in Ids, NEW s \in Seqs, AbandonWithCancel(i, s) PROVE AttemptsTypeOK'
  BY <1>6 DEF AbandonWithCancel, CanAbandon
<1> QED
  BY <1>1, <1>2, <1>3, <1>4, <1>5, <1>6 DEF RowStep

(* The deep part of the history only grows. *)
Deeper == final' \in Nat /\ final <= final' /\ \A k \in 1..final : chain'[k] = chain[k]

(* Steps of the chain keep its type and what is deep on it. *)
LEMMA ChainType ==
  ASSUME ChainTypeOK(rows), rows \subseteq rows', NodeStep
  PROVE  ChainTypeOK(rows)' /\ Deeper
<1> USE DEF ChainTypeOK, Deeper
<1>1. CASE UNCHANGED chainVars
  BY <1>1 DEF chainVars
<1>2. ASSUME NEW t \in rows, Reach(t) PROVE ChainTypeOK(rows)' /\ Deeper
  <2>1. \A k \in 1..Len(chain) : chain[k] \in sent'
    BY <1>2 DEF Reach
  <2> QED
    BY <1>2, <2>1 DEF Reach
<1>3. ASSUME NEW t \in sent, Mine(t, nonceOf[t]) PROVE ChainTypeOK(rows)' /\ Deeper
  BY <1>3 DEF Mine
<1>4. CASE Finalize
  BY <1>4 DEF Finalize
<1>5. ASSUME NEW k \in 0..Len(chain), ShallowReorg(k) PROVE ChainTypeOK(rows)' /\ Deeper
  BY <1>5 DEF ShallowReorg
<1> QED
  BY <1>1, <1>2, <1>3, <1>4, <1>5 DEF NodeStep

(* Everything the invariant says of a row that exists stays true of it. *)
Grow ==
  /\ rows \subseteq rows' /\ cancels \subseteq cancels' /\ rows \cap cancels' \subseteq cancels
  /\ abandoned \subseteq abandoned' /\ confirmed \subseteq confirmed'
  /\ \A i \in rows : nonceOf'[i] = nonceOf[i]
  /\ Deeper

(* No statement removes a row, a nonce, an abandon mark or, as long as no  *)
(* confirmed block is reorganised, a confirmation.                         *)
LEMMA RowsGrow ==
  ASSUME TypeOK, RowStep
  PROVE  /\ rows \subseteq rows' /\ cancels \subseteq cancels' /\ rows \cap cancels' \subseteq cancels
         /\ abandoned \subseteq abandoned' /\ confirmed \subseteq confirmed'
         /\ \A i \in rows : nonceOf'[i] = nonceOf[i]
<1> USE DEF TypeOK, AttemptsTypeOK
<1>1. CASE \/ UNCHANGED attemptVars
           \/ \E n \in Nat : UpsertNonceCursor(n)
           \/ \E i \in rows : StampBroadcastAt(i)
           \/ \E i \in rows : CanMarkConfirmed(i) /\ IsFinal(i) /\ MarkConfirmed(i)
  BY SMTT(30), <1>1 DEF attemptVars, UpsertNonceCursor, StampBroadcastAt, MarkConfirmed
<1>2. CASE \E q \in Procs : Allocate(q)
  BY <1>2, NewRow DEF Allocate, InsertAttempt
<1>3. CASE \E i \in Ids, s \in Seqs : NextAttemptSeq(i[1], s) /\ AbandonWithCancel(i, s)
  BY <1>3, NewRow DEF AbandonWithCancel
<1> QED
  BY <1>1, <1>2, <1>3 DEF RowStep

(* The same for every step, together with the chain. *)
LEMMA StepGrows ==
  ASSUME TypeOK, TableStep
  PROVE  Grow
<1>1. CASE RowStep /\ UNCHANGED chainVars
  BY <1>1, RowsGrow DEF Grow, Deeper, chainVars, TypeOK, ChainTypeOK
<1>2. CASE NodeStep /\ UNCHANGED attemptVars
  BY <1>2, ChainType DEF Grow, attemptVars, TypeOK
<1> QED
  BY SMTT(30), <1>1, <1>2 DEF TableStep

(* What is deep on the chain stays there. *)
LEMMA GrowFinal ==
  ASSUME TypeOK, Grow, NEW t, IsFinal(t)
  PROVE  IsFinal(t)'
<1>1. PICK k \in 1..final : chain[k] = t
  BY DEF IsFinal
<1>2. k \in 1..final' /\ chain'[k] = t
  BY <1>1 DEF TypeOK, ChainTypeOK, Grow, Deeper
<1> QED
  BY <1>2 DEF IsFinal

(* The memory of the processes and of the abandon handler keeps its types. *)
LEMMA MemoryType ==
  ASSUME TypeOK, CursorOfCycle, HandlerInv, ConfirmedIsFinal, CoveredEnv, [Next]_vars
  PROVE  CycleTypeOK' /\ HandlerTypeOK' /\ sourcesOk' \in [Payouts -> BOOLEAN]
<1> USE DEF TypeOK, LedgerTypeOK
<1>1. ASSUME NEW q \in Procs, CycleStep(q)
      PROVE  CycleTypeOK' /\ HandlerTypeOK' /\ sourcesOk' \in [Payouts -> BOOLEAN]
  <2>1. CycleTypeOK' /\ UNCHANGED aband
    BY <1>1, CycleStepType, CycleShape
  <2>2. UNCHANGED sourcesOk
    BY ZenonT(30), <1>1 DEF CycleStep, TakeRow, LookupExisting, Poll, PollTimeout, MarkPaid, Claim,
       ClaimPayoutReady, RowFails, FenceFresh, FenceRebroadcast, FenceThen, Broadcast,
       Rebroadcast, Stamp, LookupLiveCancels, VisitCancel, RebroadcastCancel, StampCancel,
       MarkCancel, WalkDone, Allocate, AllocateFails, ledgerVars
  <2> QED BY <2>1, <2>2 DEF HandlerTypeOK
<1>2. ASSUME NEW q \in Procs, ProcessStep(q)
      PROVE  CycleTypeOK' /\ HandlerTypeOK' /\ sourcesOk' \in [Payouts -> BOOLEAN]
  <2>1. UNCHANGED ledgerVars /\ aband' \in {aband, IdleHandler}
    BY ZenonT(30), <1>2 DEF ProcessStep, ColdStart, AcquireLease, AcquireConflict, HeartbeatTick,
       HeartbeatFails, StartCycle, RequestHalt, Shutdown, Crash
  <2> QED BY <1>2, <2>1, ProcessStepType DEF HandlerTypeOK, IdleHandler, ledgerVars
<1>3. CASE UNCHANGED <<procVars, aband, ledgerVars>>
  BY <1>3 DEF procVars, cycleVars, ledgerVars, CycleTypeOK, HandlerTypeOK
<1>4. ASSUME NEW q \in Procs, NEW i \in Ids, NEW s \in Seqs, Abandon(q, i, s)
      PROVE  CycleTypeOK' /\ HandlerTypeOK' /\ sourcesOk' \in [Payouts -> BOOLEAN]
  <2>1. CycleTypeOK' /\ UNCHANGED sourcesOk
    BY ZenonT(30), <1>4 DEF Abandon, procVars, cycleVars, ledgerVars, CycleTypeOK
  <2>2. HandlerTypeOK'
    BY <1>4 DEF Abandon, CoveredEnv, HandlerTypeOK
  <2> QED BY <2>1, <2>2
<1>5. CASE AbandonBroadcast \/ AbandonStamp
  <2>1. CycleTypeOK' /\ UNCHANGED sourcesOk
    BY <1>5 DEF AbandonBroadcast, AbandonStamp, procVars, cycleVars, ledgerVars, CycleTypeOK
  <2>2. HandlerTypeOK'
    BY <1>5 DEF AbandonBroadcast, AbandonStamp, HandlerTypeOK, IdleHandler
  <2> QED BY <2>1, <2>2
<1>6. CASE \E p \in Payouts : RevokeSource(p)
  BY <1>6 DEF RevokeSource, procVars, cycleVars, CycleTypeOK, HandlerTypeOK
<1>7. CASE \E q \in Procs, i \in Ids : ReorgPoll(q, i)
  BY <1>7, NoLiveAgain
<1>8. CASE ChainStep \/ Tick \/ UNCHANGED vars
  BY <1>3, <1>8 DEF ChainStep, Tick, vars
<1> QED
  BY <1>1, <1>2, <1>4, <1>5, <1>6, <1>7, <1>8 DEF Next

(* The type invariant is preserved by every step. *)
LEMMA TypeStep ==
  ASSUME TypeOK, DistinctTokens, CursorOfCycle, HandlerInv, ConfirmedIsFinal,
         CoveredEnv, [Next]_vars
  PROVE  TypeOK'
<1>1. LeaseTypeOK'
  BY LeaseStep DEF TypeOK
<1>2. TableStep /\ LedgerStep /\ Grow
  BY StepShape, StepGrows
<1>3. AttemptsTypeOK'
  <2>1. CASE RowStep
    BY <2>1, AttemptsType
  <2>2. CASE UNCHANGED attemptVars
    BY <2>2, AttemptsType DEF RowStep
  <2> QED BY <1>2, <2>1, <2>2 DEF TableStep
<1>4. ChainTypeOK(rows)'
  <2>1. NodeStep
    BY <1>2 DEF TableStep, NodeStep
  <2> QED BY <1>2, <2>1, ChainType DEF TypeOK, Grow
<1>5. LedgerTypeOK'
  <2>1. CASE \E q \in Procs : Claim(q) /\ ClaimPayoutReady(cur(q))
    BY <2>1 DEF Claim, ClaimPayoutReady, cur, CursorOfCycle, CursorAt, PaymentPCs, TypeOK, LedgerTypeOK,
       AttemptsTypeOK
  <2>2. CASE UNCHANGED <<status, claimTx>>
    BY <2>2, MemoryType DEF TypeOK, LedgerTypeOK
  <2> QED BY SMTT(30), <1>2, <2>1, <2>2 DEF LedgerStep
<1> QED
  BY <1>1, <1>3, <1>4, <1>5, MemoryType DEF TypeOK

-----------------------------------------------------------------------------
(* The rows and the chain.                                                 *)

(* A mined transaction belongs to a row. *)
LEMMA MinedIsRow ==
  ASSUME TypeOK, NEW k \in 1..Len(chain)
  PROVE  chain[k] \in rows
  BY DEF TypeOK, ChainTypeOK

(* A nonce used up for good stays used up. *)
LEMMA DeadStays ==
  ASSUME TypeOK, Grow, NEW i \in rows, Dead(i)
  PROVE  Dead(i)'
<1>1. nonceOf'[i] = nonceOf[i] /\ nonceOf[i] \in Nat
  BY DEF TypeOK, AttemptsTypeOK, Grow
<1>2. nonceOf[i] + 1 \in 1..final
  BY <1>1 DEF Dead, TypeOK, ChainTypeOK
<1>3. chain'[nonceOf[i] + 1] = chain[nonceOf[i] + 1] /\ nonceOf[i] < final'
  BY <1>1, <1>2 DEF Grow, Deeper, TypeOK, ChainTypeOK
<1> QED
  BY <1>1, <1>3 DEF Dead

(* The steps that touch neither the set of rows nor the abandon marks. *)
LEMMA QuietRows ==
  ASSUME TypeOK, RowInv, TypeOK', Grow, UNCHANGED <<rows, cancels, nonceOf, abandoned>>
  PROVE  LiveNoncesDiffer' /\ OneLivePayment' /\ AbandonedIsCovered' /\ AtMostOnePayable'
<1>1. LiveNoncesDiffer' /\ OneLivePayment' /\ AbandonedIsCovered'
  BY DEF RowInv, LiveNoncesDiffer, OneLivePayment, AbandonedIsCovered, LiveRows
<1>2. AtMostOnePayable'
  BY DeadStays DEF RowInv, AtMostOnePayable
<1> QED
  BY <1>1, <1>2

(* Steps of the chain keep what is known of the rows. *)
LEMMA NodeRowInv ==
  ASSUME TypeOK, RowInv, TypeOK', Grow, NodeStep, UNCHANGED attemptVars
  PROVE  RowInv'
<1>1. UNCHANGED <<rows, cancels, nonceOf, confirmed, abandoned>>
  BY DEF attemptVars
<1>2. ConfirmedIsFinal'
  BY <1>1, GrowFinal DEF RowInv, ConfirmedIsFinal
<1>3. ChainByNonce'
  <2> USE DEF RowInv, ChainByNonce, TypeOK, ChainTypeOK
  <2>1. CASE UNCHANGED chainVars \/ (\E t \in rows : Reach(t)) \/ Finalize
    BY <1>1, <2>1 DEF chainVars, Reach, Finalize
  <2>2. ASSUME NEW t \in sent, Mine(t, nonceOf[t]) PROVE ChainByNonce'
    <3>1. chain \in Seq(rows) /\ t \in rows /\ chain' = Append(chain, t) /\ nonceOf[t] = Len(chain)
      BY <2>2 DEF Mine
    <3>2. Len(chain') = Len(chain) + 1
      BY <3>1
    <3>3. \A k \in 1..Len(chain) : chain'[k] = chain[k]
      BY <3>1
    <3>4. chain'[Len(chain) + 1] = t
      BY <3>1
    <3> SUFFICES ASSUME NEW k \in 1..(Len(chain) + 1) PROVE nonceOf[chain'[k]] = k - 1
      BY <1>1, <3>2
    <3>5. CASE k \in 1..Len(chain)
      BY <3>3, <3>5
    <3>6. CASE k = Len(chain) + 1
      BY <3>1, <3>4, <3>6
    <3> QED BY <3>1, <3>5, <3>6
  <2>3. ASSUME NEW k \in 0..Len(chain), ShallowReorg(k) PROVE ChainByNonce'
    <3>1. chain' = SubSeq(chain, 1, k) /\ k \in 0..Len(chain)
      BY <2>3 DEF ShallowReorg
    <3>2. Len(chain') = k /\ \A j \in 1..k : chain'[j] = chain[j]
      BY <3>1
    <3> QED BY <1>1, <3>1, <3>2
  <2> QED BY <2>1, <2>2, <2>3 DEF NodeStep
<1> QED
  BY <1>1, <1>2, <1>3, QuietRows DEF RowInv

(* Confirming a row that is deep enough keeps it. *)
LEMMA MarkRowInv ==
  ASSUME TypeOK, RowInv, TypeOK', Grow, UNCHANGED chainVars,
         NEW i \in rows, CanMarkConfirmed(i), IsFinal(i), MarkConfirmed(i)
  PROVE  RowInv'
<1>1. UNCHANGED <<rows, cancels, nonceOf, abandoned, chain, final>>
  BY DEF MarkConfirmed, chainVars
<1>2. ConfirmedIsFinal'
  BY <1>1 DEF RowInv, ConfirmedIsFinal, MarkConfirmed, CanMarkConfirmed, IsFinal
<1>3. ChainByNonce'
  BY <1>1 DEF RowInv, ChainByNonce
<1> QED
  BY <1>1, <1>2, <1>3, QuietRows DEF RowInv

(* A confirmed cancel has used up its nonce: a payment with it is dead. *)
LEMMA CancelledIsDead ==
  ASSUME TypeOK, RowInv, NEW i \in rows \ cancels, NEW c \in cancels, c \in confirmed,
         nonceOf[c] = nonceOf[i]
  PROVE  Dead(i)
<1>1. PICK k \in 1..final : chain[k] = c
  BY DEF RowInv, ConfirmedIsFinal, IsFinal
<1>2. nonceOf[c] = k - 1
  BY SMTT(30), <1>1 DEF RowInv, ChainByNonce, TypeOK, ChainTypeOK
<1> QED
  BY <1>1, <1>2 DEF Dead, TypeOK, ChainTypeOK

(* What the holder of the lease knows when it allocates: every live cancel *)
(* of the payout is confirmed, every payment is abandoned, and a confirmed *)
(* cancel has its nonce.                                                   *)
LEMMA AllocateCancels ==
  ASSUME IInv, NEW q \in Procs, Allocate(q)
  PROVE  LiveCancels(row[q]) \subseteq confirmed
<1>1. Holds(q) /\ pc[q] = "alloc" /\ walk[q] = {} /\ ~blocked[q]
  BY DEF IInv, Allocate, WalkOfCycle, WalkAt
<1> QED
  BY ZenonT(30), <1>1 DEF IInv, HolderKnows, KnowsAt, WillBlock, Accounted

(* An allocation finds every earlier payment of its payout dead: it was    *)
(* abandoned, its nonce is held by a live cancel, and that is confirmed.   *)
LEMMA AllocateKnows ==
  ASSUME IInv, NEW q \in Procs, Allocate(q), NEW i \in rows \ cancels, i[1] = row[q]
  PROVE  Dead(i)
<1>1. LivePayments(row[q]) = {}
  BY DEF Allocate, InsertAttempt, InsertCollides
<1>2. i \in abandoned
  BY <1>1 DEF LivePayments, LiveRows
<1>3. PICK c \in LiveRows \cap cancels : c[1] = i[1] /\ nonceOf[c] = nonceOf[i]
  BY <1>2 DEF IInv, RowInv, AbandonedIsCovered
<1>4. c \in confirmed
  BY <1>3, AllocateCancels DEF LiveCancels
<1> QED
  BY <1>3, <1>4, CancelledIsDead DEF IInv

(* A fresh allocation keeps what is known of the rows. *)
LEMMA AllocateRowInv ==
  ASSUME IInv, TypeOK', Grow, NEW q \in Procs, Allocate(q)
  PROVE  RowInv'
<1>1. PICK s \in Seqs : NextAttemptSeq(row[q], s) /\ InsertAttempt(row[q], s)
  BY DEF Allocate
<1> DEFINE n == <<row[q], s>>
<1>2. n \notin rows /\ n \in Ids
  <2>1. row[q] \in Payouts
    BY ZenonT(30) DEF IInv, CursorOfCycle, CursorAt, FreshPCs, Allocate
  <2> QED BY <1>1, <2>1, NewRow
<1>3. /\ rows' = rows \cup {n} /\ nonceOf' = [nonceOf EXCEPT ![n] = cursor]
      /\ UNCHANGED <<cancels, confirmed, abandoned, chain, final>>
      /\ ~NonceTaken(cursor) /\ LivePayments(row[q]) = {}
  BY ZenonT(30), <1>1 DEF InsertAttempt, InsertCollides, Allocate, chainVars
<1>4. nonceOf'[n] = cursor /\ \A i \in rows : nonceOf'[i] = nonceOf[i]
  BY <1>2, <1>3 DEF IInv, TypeOK, AttemptsTypeOK
<1>5. LiveRows' = LiveRows \cup {n}
  BY ZenonT(30), <1>2, <1>3 DEF LiveRows, IInv, TypeOK, AttemptsTypeOK
<1> HIDE DEF n
<1>6. ChainByNonce'
  BY <1>3, <1>4, MinedIsRow DEF IInv, RowInv, ChainByNonce
<1>7. LiveNoncesDiffer'
  BY <1>3, <1>4, <1>5 DEF IInv, RowInv, LiveNoncesDiffer, NonceTaken, LiveRows
<1>8. OneLivePayment'
  <2>1. n[1] = row[q] BY DEF n
  <2> QED
    BY <1>2, <1>3, <1>5, <2>1 DEF IInv, RowInv, OneLivePayment, LivePayments
<1>9. AbandonedIsCovered'
  <2> SUFFICES ASSUME NEW i \in abandoned
               PROVE  \E c \in LiveRows' \cap cancels' : c[1] = i[1] /\ nonceOf'[c] = nonceOf'[i]
    BY <1>3 DEF AbandonedIsCovered
  <2>1. PICK c \in LiveRows \cap cancels : c[1] = i[1] /\ nonceOf[c] = nonceOf[i]
    BY DEF IInv, RowInv, AbandonedIsCovered
  <2>2. c \in rows /\ i \in rows
    BY DEF LiveRows, IInv, TypeOK, AttemptsTypeOK
  <2> QED BY <1>3, <1>4, <1>5, <2>1, <2>2
<1>10. ConfirmedIsFinal'
  BY <1>3 DEF IInv, RowInv, ConfirmedIsFinal, IsFinal
<1>11. AtMostOnePayable'
  <2>1. \A i \in rows \ cancels : i[1] = n[1] => Dead(i)'
    BY AllocateKnows, DeadStays DEF n, IInv
  <2>2. \A i, j \in rows \ cancels : i[1] = j[1] /\ i # j => Dead(i)' \/ Dead(j)'
    BY DeadStays DEF IInv, RowInv, AtMostOnePayable
  <2> QED BY <1>3, <2>1, <2>2 DEF AtMostOnePayable
<1> QED
  BY <1>6, <1>7, <1>8, <1>9, <1>10, <1>11 DEF RowInv

(* An abandon that asks for a cancel keeps it. *)
LEMMA AbandonRowInv ==
  ASSUME TypeOK, RowInv, TypeOK', Grow, UNCHANGED chainVars, NEW a \in Ids, NEW s \in Seqs,
         NextAttemptSeq(a[1], s), AbandonWithCancel(a, s)
  PROVE  RowInv'
<1> DEFINE n == <<a[1], s>>
<1>1. n \notin rows /\ n \in Ids /\ n[1] = a[1]
  BY NewRow, IdParts
<1>2. /\ rows' = rows \cup {n} /\ cancels' = cancels \cup {n}
      /\ nonceOf' = [nonceOf EXCEPT ![n] = nonceOf[a]]
      /\ abandoned' = abandoned \cup {a}
      /\ UNCHANGED <<confirmed, chain, final>>
      /\ a \in LiveRows /\ a \notin confirmed
  BY DEF AbandonWithCancel, CanAbandon, chainVars, LiveRows
<1> HIDE DEF n
<1>3. nonceOf'[n] = nonceOf[a] /\ \A i \in rows : nonceOf'[i] = nonceOf[i]
  BY <1>1, <1>2 DEF TypeOK, AttemptsTypeOK
<1>4. LiveRows' = (LiveRows \ {a}) \cup {n}
  BY <1>1, <1>2 DEF LiveRows, TypeOK, AttemptsTypeOK
<1>5. ChainByNonce'
  BY <1>2, <1>3, MinedIsRow DEF RowInv, ChainByNonce
<1>6. LiveNoncesDiffer'
  BY <1>2, <1>3, <1>4 DEF RowInv, LiveNoncesDiffer, LiveRows
<1>7. OneLivePayment'
  BY <1>2, <1>4 DEF RowInv, OneLivePayment
<1>8. AbandonedIsCovered'
  <2> SUFFICES ASSUME NEW i \in abandoned'
               PROVE  \E c \in (LiveRows \cap cancels)' : c[1] = i[1] /\ nonceOf'[c] = nonceOf'[i]
    BY DEF AbandonedIsCovered
  <2>1. i \in rows /\ nonceOf'[i] = nonceOf[i]
    BY ZenonT(30), <1>2, <1>3 DEF TypeOK, AttemptsTypeOK, LiveRows
  <2>2. n \in (LiveRows \cap cancels)'
    BY <1>2, <1>4
  <2>3. CASE i = a
    BY <1>1, <1>3, <2>1, <2>2, <2>3
  <2>4. CASE i \in abandoned
    <3>1. PICK c \in LiveRows \cap cancels : c[1] = i[1] /\ nonceOf[c] = nonceOf[i]
      BY <2>4 DEF RowInv, AbandonedIsCovered
    <3>2. CASE c = a
      BY ZenonT(30), <1>1, <1>3, <2>1, <2>2, <3>1, <3>2
    <3>3. CASE c # a
      <4>1. c \in (LiveRows \cap cancels)' /\ nonceOf'[c] = nonceOf[c]
        BY <1>2, <1>3, <1>4, <3>1, <3>3 DEF LiveRows
      <4> QED BY <2>1, <3>1, <4>1
    <3> QED BY <3>2, <3>3
  <2> QED BY <1>2, <2>3, <2>4
<1>9. ConfirmedIsFinal'
  BY <1>2 DEF RowInv, ConfirmedIsFinal, IsFinal
<1>10. AtMostOnePayable'
  <2>1. rows' \ cancels' \subseteq rows \ cancels
    BY <1>2
  <2>2. \A i, j \in rows \ cancels : i[1] = j[1] /\ i # j => Dead(i)' \/ Dead(j)'
    BY DeadStays DEF RowInv, AtMostOnePayable
  <2> QED BY <2>1, <2>2 DEF AtMostOnePayable
<1> QED
  BY <1>5, <1>6, <1>7, <1>8, <1>9, <1>10 DEF RowInv

(* The invariant of the rows is preserved by every step. *)
LEMMA RowInvStep ==
  ASSUME IInv, TypeOK', TableStep
  PROVE  RowInv'
<1>0. Grow /\ TypeOK /\ RowInv
  BY StepGrows DEF IInv
<1>1. CASE NodeStep /\ UNCHANGED attemptVars
  BY <1>0, <1>1, NodeRowInv
<1>2. CASE RowStep /\ UNCHANGED chainVars
  <2>1. CASE \/ UNCHANGED attemptVars
             \/ \E n \in Nat : UpsertNonceCursor(n)
             \/ \E i \in rows : StampBroadcastAt(i)
    <3>1. UNCHANGED <<rows, cancels, nonceOf, confirmed, abandoned, chain, final>>
      BY <1>2, <2>1 DEF attemptVars, chainVars, UpsertNonceCursor, StampBroadcastAt
    <3>2. ChainByNonce' /\ ConfirmedIsFinal'
      BY <1>0, <3>1 DEF RowInv, ChainByNonce, ConfirmedIsFinal, IsFinal
    <3> QED BY <1>0, <3>1, <3>2, QuietRows DEF RowInv
  <2>2. CASE \E i \in rows : CanMarkConfirmed(i) /\ IsFinal(i) /\ MarkConfirmed(i)
    BY <1>0, <1>2, <2>2, MarkRowInv
  <2>3. CASE \E q \in Procs : Allocate(q)
    BY <1>0, <2>3, AllocateRowInv
  <2>4. CASE \E i \in Ids, s \in Seqs : NextAttemptSeq(i[1], s) /\ AbandonWithCancel(i, s)
    BY <1>0, <1>2, <2>4, AbandonRowInv
  <2> QED BY <1>2, <2>1, <2>2, <2>3, <2>4 DEF RowStep
<1> QED
  BY <1>1, <1>2 DEF TableStep

-----------------------------------------------------------------------------
(* The memory of the processes.                                            *)

Same(q) ==
  /\ pc'[q] = pc[q] /\ row'[q] = row[q] /\ seq'[q] = seq[q]
  /\ walk'[q] = walk[q] /\ blocked'[q] = blocked[q]

AtRest(q) == pc[q] \in {"down", "boot", "idle", "row"} /\ walk[q] = {}

AllAt(q) == CursorAt(q) /\ WalkAt(q) /\ (Holds(q) => KnowsAt(q))

(* Outside the processing of a row there is nothing to remember. *)
LEMMA RestAt ==
  ASSUME NEW q \in Procs, AtRest(q)'
  PROVE  AllAt(q)'
  BY ZenonT(30) DEF AtRest, AllAt, CursorAt, WalkAt, KnowsAt, FreshPCs, PaymentPCs, CancelPCs

(* A process that leaves its row remembers nothing of it. *)
LEMMA MovesRest ==
  ASSUME CycleTypeOK, NEW q \in Procs, NextRow(q) \/ EndCycle(q)
  PROVE  AtRest(q)'
  BY DEF CycleTypeOK, NextRow, EndCycle, ClearCycle, AtRest

(* The moves of a cycle leave the other processes alone. *)
LEMMA MovesSame ==
  ASSUME CycleTypeOK, NEW q \in Procs, NEW r \in Procs, r # q, NEW l,
         Goto(q, l) \/ NextRow(q) \/ EndCycle(q)
  PROVE  Same(r)
  BY DEF CycleTypeOK, Goto, NextRow, EndCycle, ClearCycle, Same, cycleVars

(* A cycle changes the memory of its own process only. *)
LEMMA CycleOthers ==
  ASSUME CycleTypeOK, NEW q \in Procs, NEW r \in Procs, r # q, CycleStep(q)
  PROVE  Same(r)
<1>1. CASE TakeRow(q) \/ LookupExisting(q) \/ MarkCancel(q)
  <2>1. CASE EndCycle(q) \/ Goto(q, "cancels") \/ Goto(q, "walk")
    BY SMTT(30), <2>1, MovesSame
  <2>2. CASE ~(EndCycle(q) \/ Goto(q, "cancels") \/ Goto(q, "walk"))
    BY ZenonT(30), <1>1, <2>2 DEF TakeRow, LookupExisting, MarkCancel, CycleTypeOK, Same
  <2> QED BY <2>1, <2>2
<1>2. CASE \/ Poll(q) \/ PollTimeout(q) \/ MarkPaid(q) \/ Claim(q) \/ RowFails(q)
           \/ FenceFresh(q) \/ FenceRebroadcast(q) \/ Broadcast(q) \/ Rebroadcast(q)
           \/ Stamp(q) \/ RebroadcastCancel(q) \/ StampCancel(q) \/ WalkDone(q)
           \/ AllocateFails(q)
  BY ZenonT(30), <1>2, MovesSame DEF Poll, PollTimeout, MarkPaid, Claim, RowFails, FenceFresh,
     FenceRebroadcast, FenceThen, Broadcast, Rebroadcast, Stamp, RebroadcastCancel,
     StampCancel, WalkDone, AllocateFails
<1>3. CASE LookupLiveCancels(q) \/ VisitCancel(q) \/ Allocate(q)
  BY ZenonT(30), <1>3 DEF LookupLiveCancels, VisitCancel, Allocate, CycleTypeOK, Same
<1> QED
  BY <1>1, <1>2, <1>3 DEF CycleStep

(* A walk is under way only between LookupLiveCancels and the allocation. *)
WalkInFresh == \A q \in Procs : walk[q] # {} => pc[q] \in FreshPCs

(* So does every other step of a process; it leaves its own process at     *)
(* rest or as it was.                                                      *)
LEMMA ProcessOthers ==
  ASSUME CycleTypeOK, WalkInFresh, NEW q \in Procs, NEW r \in Procs, ProcessStep(q)
  PROVE  Same(r) \/ (r = q /\ AtRest(q)')
<1> USE DEF CycleTypeOK, Same, AtRest, cycleVars
<1>0. pc[q] \in {"down", "boot", "idle"} => walk[q] = {}
  BY ZenonT(30) DEF WalkInFresh, FreshPCs, CancelPCs
<1>1. CASE ColdStart(q) \/ AcquireLease(q) \/ AcquireConflict(q)
  BY <1>0, <1>1 DEF ColdStart, AcquireLease, AcquireConflict, Goto
<1>2. CASE HeartbeatTick(q) \/ HeartbeatFails(q) \/ RequestHalt(q)
  BY ZenonT(30), <1>2 DEF HeartbeatTick, HeartbeatFails, RequestHalt, procVars
<1>3. CASE StartCycle(q, TRUE) \/ StartCycle(q, FALSE)
  <2>1. pc[q] = "idle" /\ pc' = [pc EXCEPT ![q] = "row"] /\ UNCHANGED <<row, seq, walk, blocked>>
    BY ZenonT(30), <1>3 DEF StartCycle
  <2>2. CASE r = q
    BY <1>0, <2>1, <2>2
  <2>3. CASE r # q
    BY <2>1, <2>3
  <2> QED BY ZenonT(30), <2>2, <2>3
<1>4. CASE Shutdown(q) \/ Crash(q)
  <2>1. \/ UNCHANGED <<pc, row, seq, walk, blocked>>
        \/ ClearCycle(q) /\ (pc' = [pc EXCEPT ![q] = "idle"] \/ pc' = [pc EXCEPT ![q] = "down"])
    BY ZenonT(30), <1>4 DEF Shutdown, Crash
  <2>2. CASE UNCHANGED <<pc, row, seq, walk, blocked>>
    BY ZenonT(30), <2>2
  <2>3. CASE ClearCycle(q) /\ (pc' = [pc EXCEPT ![q] = "idle"] \/ pc' = [pc EXCEPT ![q] = "down"]) /\ r = q
    BY ZenonT(30), <2>3 DEF ClearCycle
  <2>4. CASE ClearCycle(q) /\ (pc' = [pc EXCEPT ![q] = "idle"] \/ pc' = [pc EXCEPT ![q] = "down"]) /\ r # q
    BY <2>4 DEF ClearCycle
  <2> QED BY ZenonT(30), <2>1, <2>2, <2>3, <2>4
<1> QED
  BY ZenonT(30), <1>1, <1>2, <1>3, <1>4 DEF ProcessStep

(* Only Acquire makes a process the holder of the lease. *)
LEMMA HeldBefore ==
  ASSUME TypeOK, WalkOfCycle, [Next]_vars, NEW r \in Procs, Holds(r)'
  PROVE  Holds(r) \/ AtRest(r)'
<1>1. CASE UNCHANGED leaseVars
  BY ZenonT(30), <1>1 DEF leaseVars, Holds
<1>2. ASSUME NEW q \in Procs, CycleStep(q) PROVE UNCHANGED leaseVars
  BY ZenonT(30), <1>2 DEF CycleStep, TakeRow, LookupExisting, Poll, PollTimeout, MarkPaid, Claim,
     RowFails, FenceFresh, FenceRebroadcast, FenceThen, Broadcast, Rebroadcast, Stamp,
     LookupLiveCancels, VisitCancel, RebroadcastCancel, StampCancel, MarkCancel,
     WalkDone, Allocate, AllocateFails
<1>3. ASSUME NEW q \in Procs, ProcessStep(q) PROVE Holds(r) \/ AtRest(r)'
  <2> USE DEF TypeOK, LeaseTypeOK
  <2>1. CASE AcquireLease(q)
    <3>1. CASE q = r
      BY ZenonT(30), <2>1, <3>1 DEF AcquireLease, AtRest, CycleTypeOK, cycleVars, WalkOfCycle, WalkAt,
         FreshPCs, CancelPCs
    <3>2. CASE q # r
      BY ZenonT(30), <2>1, <3>2 DEF AcquireLease, Acquire, FreshTokens, Holds
    <3> QED BY <3>1, <3>2
  <2>2. CASE ~AcquireLease(q)
    BY ZenonT(30), <1>3, <2>2, TokenAssumption DEF ProcessStep, ColdStart, AcquireConflict,
       HeartbeatTick, HeartbeatFails, StartCycle, RequestHalt, Shutdown, Crash, Holds,
       leaseVars, Heartbeat, Release, Forget
  <2> QED BY <2>1, <2>2
<1>4. CASE Tick
  BY ZenonT(30), <1>4 DEF Tick, Age, Holds
<1>5. CASE \/ \E q \in Procs, i \in Ids, s \in Seqs : Abandon(q, i, s)
           \/ AbandonBroadcast \/ AbandonStamp
           \/ \E q \in Procs, i \in Ids : ReorgPoll(q, i)
           \/ ChainStep
           \/ \E p \in Payouts : RevokeSource(p)
           \/ UNCHANGED vars
  BY <1>1, <1>5 DEF Abandon, AbandonBroadcast, AbandonStamp, ReorgPoll, ChainStep,
     RevokeSource, vars
<1> QED
  BY <1>1, <1>2, <1>3, <1>4, <1>5 DEF Next

(* What a process remembers of the rows survives the steps of the others. *)
LEMMA SameCursor ==
  ASSUME TypeOK, Grow, NEW q \in Procs, Same(q), CursorAt(q), WalkAt(q)
  PROVE  CursorAt(q)' /\ WalkAt(q)'
<1>1. cur(q)' = cur(q)
  BY DEF Same, cur
<1>2. CursorAt(q)'
  BY ZenonT(30), <1>1, GrowFinal DEF Same, CursorAt, Grow
<1>3. WalkAt(q)'
  BY DEF Same, WalkAt, Grow
<1> QED
  BY <1>2, <1>3

(* And what the holder of the lease knows survives them: nobody else can   *)
(* allocate, and an abandon of a cancel it has not settled makes it block. *)
LEMMA SameKnows ==
  ASSUME IInv, TypeOK', TableStep, NEW q \in Procs, Same(q), Holds(q), ~Allocate(q)
  PROVE  KnowsAt(q)'
<1>0. Grow /\ cur(q)' = cur(q) /\ KnowsAt(q) /\ TypeOK
  BY StepGrows DEF Same, cur, IInv, HolderKnows
<1>1. WillBlock(q) => WillBlock(q)'
  BY ZenonT(30), <1>0 DEF WillBlock, Same, Grow
<1>2. ASSUME NEW c, Accounted(q, c) PROVE Accounted(q, c)'
  BY ZenonT(30), <1>0, <1>2 DEF Accounted, Same, Grow
<1>3. CASE LiveRows' = LiveRows /\ cancels' = cancels
  BY ZenonT(30), <1>0, <1>1, <1>2, <1>3 DEF KnowsAt, Same, LivePayments, LiveCancels
<1>4. ASSUME NEW a \in Ids, NEW s \in Seqs, NextAttemptSeq(a[1], s), AbandonWithCancel(a, s)
      PROVE  KnowsAt(q)'
  <2> DEFINE n == <<a[1], s>>
  <2>1. n \notin rows /\ n[1] = a[1]
    BY <1>4, NewRow
  <2>2. /\ LiveRows' = (LiveRows \ {a}) \cup {n} /\ cancels' = cancels \cup {n}
        /\ a \in LiveRows /\ a \notin confirmed /\ a \in abandoned'
    BY ZenonT(30), <1>4, <2>1 DEF AbandonWithCancel, CanAbandon, LiveRows, IInv, TypeOK, AttemptsTypeOK
  <2> HIDE DEF n
  <2>3. LivePayments(row[q])' \subseteq LivePayments(row[q])
    BY <2>2 DEF LivePayments, Same
  <2>4. CASE a[1] # row[q]
    <3>1. LiveCancels(row[q])' \subseteq LiveCancels(row[q])
      BY <2>1, <2>2, <2>4 DEF LiveCancels, Same
    <3> QED BY ZenonT(30), <1>0, <1>1, <1>2, <2>3, <3>1 DEF KnowsAt, Same
  <2>5. ASSUME a[1] = row[q], pc[q] \in {"walk", "cancelMark", "alloc"}, ~blocked[q]
        PROVE  WillBlock(q)'
    <3>1. a \in LiveCancels(row[q])
      BY ZenonT(30), <1>0, <2>2, <2>5 DEF KnowsAt, FreshPCs, CancelPCs, LivePayments, LiveCancels
    <3>2. CASE WillBlock(q)
      BY SMTT(30), <1>1, <3>2
    <3>3. CASE pc[q] = "cancelMark" /\ a = cur(q)
      BY ZenonT(30), <1>0, <2>2, <3>3 DEF WillBlock, Same
    <3>4. ASSUME NEW w \in walk[q], w[1] = a[2] PROVE WillBlock(q)'
      <4>1. <<row[q], w[1]>> = a
        <5>1. a \in rows /\ rows \subseteq Ids
          BY ZenonT(30), <2>2 DEF LiveRows, IInv, TypeOK, AttemptsTypeOK
        <5> QED BY ZenonT(30), <2>5, <3>4, <5>1, RowName
      <4>2. w[2] # "confirmed"
        BY ZenonT(30), <2>2, <4>1 DEF IInv, WalkOfCycle, WalkAt
      <4>3. w \in walk'[q] /\ <<row'[q], w[1]>> \in abandoned'
        BY <1>0, <2>2, <3>4, <4>1 DEF Same
      <4> QED BY ZenonT(30), <4>2, <4>3 DEF WillBlock
    <3>5. WillBlock(q) \/ Accounted(q, a)
      BY ZenonT(30), <1>0, <2>5, <3>1 DEF KnowsAt
    <3>6. CASE Accounted(q, a)
      BY ZenonT(30), <2>2, <3>3, <3>4, <3>6 DEF Accounted
    <3> QED BY ZenonT(30), <3>2, <3>5, <3>6
  <2> QED BY ZenonT(30), <1>0, <2>3, <2>4, <2>5 DEF KnowsAt, Same
<1>5. CASE \E r \in Procs : Allocate(r)
  BY ZenonT(30), <1>5 DEF Allocate, Holds, IInv, DistinctTokens
<1>6. CASE \/ UNCHANGED attemptVars
           \/ \E n \in Nat : UpsertNonceCursor(n)
           \/ \E i \in rows : StampBroadcastAt(i)
           \/ \E i \in rows : CanMarkConfirmed(i) /\ IsFinal(i) /\ MarkConfirmed(i)
  BY <1>3, <1>6 DEF attemptVars, UpsertNonceCursor, StampBroadcastAt, MarkConfirmed, LiveRows
<1> QED
  BY ZenonT(30), <1>4, <1>5, <1>6 DEF TableStep, RowStep

(* A move to another place of the cycle keeps the rest of the memory. *)
LEMMA GotoKeeps ==
  ASSUME CycleTypeOK, NEW q \in Procs, NEW l, Goto(q, l)
  PROVE  /\ pc'[q] = l /\ row'[q] = row[q] /\ seq'[q] = seq[q] /\ cur(q)' = cur(q)
         /\ walk'[q] = walk[q] /\ blocked'[q] = blocked[q]
  BY DEF CycleTypeOK, Goto, cycleVars, cur

(* The steps that take a row, look it up or mark its cancel lead to no send. *)
LEMMA LookupsSendNothing ==
  ASSUME CycleTypeOK, NEW q \in Procs, TakeRow(q) \/ LookupExisting(q) \/ MarkCancel(q)
  PROVE  pc'[q] \notin {"send", "resend"}
<1>0. pc \in [Procs -> PCs]
  BY ZenonT(30) DEF CycleTypeOK
<1>1. CASE TakeRow(q)
  BY <1>0, <1>1, MovesRest DEF TakeRow, AtRest
<1>2. CASE LookupExisting(q)
  BY <1>0, <1>2 DEF LookupExisting, Goto
<1>3. CASE MarkCancel(q)
  BY <1>0, <1>3 DEF MarkCancel, Goto
<1> QED BY ZenonT(30), <1>1, <1>2, <1>3

-----------------------------------------------------------------------------
(* A process and its own row.                                              *)

(* Each step of a cycle keeps what its own process remembers and knows:    *)
(* first the steps on the way to a payment.                                *)
LEMMA PaymentOwn ==
  ASSUME IInv, Grow, NEW q \in Procs,
         \/ TakeRow(q) \/ LookupExisting(q) \/ Poll(q) \/ PollTimeout(q) \/ MarkPaid(q)
         \/ Claim(q) \/ RowFails(q) \/ FenceFresh(q) \/ FenceRebroadcast(q) \/ Broadcast(q)
         \/ Rebroadcast(q) \/ Stamp(q) \/ Allocate(q) \/ AllocateFails(q)
  PROVE  AllAt(q)'
<1>0. /\ TypeOK /\ CycleTypeOK /\ AttemptsTypeOK /\ CursorAt(q) /\ WalkAt(q)
      /\ pc[q] \notin FreshPCs => walk[q] = {}
      /\ rows \subseteq rows'
  BY ZenonT(30) DEF IInv, TypeOK, CursorOfCycle, WalkOfCycle, WalkAt, Grow
<1>1. CASE AtRest(q)'
  BY <1>1, RestAt
<1>2. CASE TakeRow(q)
  <2>1. CASE EndCycle(q)
    BY ZenonT(30), <1>0, <1>1, <2>1, MovesRest
  <2>2. CASE ~EndCycle(q)
    <3>0. walk[q] = {}
      BY ZenonT(30), <1>0, <1>2 DEF TakeRow, FreshPCs, CancelPCs
    <3>1. pc'[q] = "lookup" /\ row'[q] \in Payouts /\ walk'[q] = {}
      <4>1. PICK p \in todo[q] : row' = [row EXCEPT ![q] = p] /\ pc' = [pc EXCEPT ![q] = "lookup"] /\ walk' = walk
        BY ZenonT(30), <1>2, <2>2 DEF TakeRow
      <4>2. p \in Payouts /\ q \in DOMAIN row /\ q \in DOMAIN pc
        BY ZenonT(30), <1>0 DEF CycleTypeOK
      <4> QED BY <3>0, <4>1, <4>2
    <3> QED
      BY ZenonT(30), <3>1 DEF AllAt, CursorAt, WalkAt, KnowsAt, FreshPCs, PaymentPCs, CancelPCs
  <2> QED BY <2>1, <2>2
<1>3. CASE LookupExisting(q)
  <2>1. CASE LivePayments(row[q]) = {}
    <3>1. pc'[q] = "cancels" /\ row'[q] = row[q] /\ walk'[q] = {} /\ row[q] \in Payouts
      BY ZenonT(30), <1>0, <1>3, <2>1, GotoKeeps DEF LookupExisting, CursorAt, FreshPCs, CancelPCs
    <3>2. LivePayments(row[q])' = {}
      BY ZenonT(30), <1>3, <2>1, <3>1 DEF LookupExisting, attemptVars, LivePayments, LiveRows
    <3> QED
      BY ZenonT(30), <3>1, <3>2 DEF AllAt, CursorAt, WalkAt, KnowsAt, FreshPCs, PaymentPCs, CancelPCs
  <2>2. ASSUME NEW i \in LivePayments(row[q]), seq' = [seq EXCEPT ![q] = i[2]],
               pc' = [pc EXCEPT ![q] = IF i \in confirmed THEN "claim"
                                       ELSE IF i \notin stamped THEN "refence" ELSE "poll"],
               UNCHANGED <<row, walk, rows, cancels, confirmed>>
        PROVE  AllAt(q)'
    <3>1. i \in rows \ cancels /\ i = <<row[q], i[2]>>
      <4>1. i \in rows \ cancels /\ i[1] = row[q] /\ rows \subseteq Ids
        BY ZenonT(30), <1>0, <2>2 DEF LivePayments, LiveRows, AttemptsTypeOK
      <4> QED BY <4>1, RowName
    <3>2. cur(q)' = i /\ walk'[q] = {} /\ pc'[q] \in {"claim", "refence", "poll"}
          /\ (pc'[q] = "claim" => i \in confirmed)
      BY ZenonT(30), <1>0, <1>3, <2>2, <3>1 DEF cur, CycleTypeOK, LookupExisting, FreshPCs, CancelPCs
    <3> QED
      BY ZenonT(30), <2>2, <3>1, <3>2 DEF AllAt, CursorAt, WalkAt, KnowsAt, FreshPCs, PaymentPCs, CancelPCs
  <2> QED
    BY <1>3, <2>1, <2>2 DEF LookupExisting, attemptVars
<1>4. CASE PollTimeout(q) \/ Claim(q) \/ RowFails(q) \/ AllocateFails(q)
  BY ZenonT(30), <1>0, <1>1, <1>4, MovesRest DEF PollTimeout, Claim, RowFails, AllocateFails
<1>5. ASSUME NEW l \in {"send", "resend", "stamp", "poll", "mark", "claim"}, Goto(q, l),
             pc[q] \in PaymentPCs, l = "mark" => IsFinal(cur(q))',
             l = "claim" => cur(q) \in confirmed'
      PROVE  AllAt(q)'
  <2>1. cur(q)' \in rows' \ cancels' /\ walk'[q] = {} /\ pc'[q] = l /\ cur(q)' = cur(q)
    BY ZenonT(30), <1>0, <1>5, GotoKeeps DEF CursorAt, PaymentPCs, FreshPCs, CancelPCs, Grow
  <2> QED
    BY ZenonT(30), <1>5, <2>1 DEF AllAt, CursorAt, WalkAt, KnowsAt, FreshPCs, PaymentPCs, CancelPCs
<1>6. CASE Poll(q)
  <2>1. IsFinal(cur(q))'
    BY ZenonT(30), <1>0, <1>6, GotoKeeps, GrowFinal DEF Poll
  <2> QED BY <1>5, <1>6, <2>1 DEF Poll, PaymentPCs
<1>7. CASE MarkPaid(q)
  <2>1. CASE NextRow(q)
    BY ZenonT(30), <1>0, <1>1, <2>1, MovesRest
  <2>2. CASE ~NextRow(q)
    BY <1>5, <1>7, <2>2 DEF MarkPaid, MarkConfirmed, PaymentPCs
  <2> QED BY <2>1, <2>2
<1>8. CASE FenceFresh(q) \/ FenceRebroadcast(q) \/ Broadcast(q) \/ Rebroadcast(q) \/ Stamp(q)
  <2>1. CASE NextRow(q) \/ EndCycle(q)
    BY ZenonT(30), <1>0, <1>1, <2>1, MovesRest
  <2>2. CASE ~(NextRow(q) \/ EndCycle(q))
    BY ZenonT(30), <1>5, <1>8, <2>2 DEF FenceFresh, FenceRebroadcast, FenceThen, Broadcast, Rebroadcast,
       Stamp, PaymentPCs
  <2> QED BY <2>1, <2>2
<1>9. CASE Allocate(q)
  <2>1. PICK s \in Seqs : /\ NextAttemptSeq(row[q], s) /\ InsertAttempt(row[q], s)
                          /\ seq' = [seq EXCEPT ![q] = s]
    BY ZenonT(30), <1>9 DEF Allocate
  <2>2. /\ cur(q)' = <<row[q], s>> /\ pc'[q] = "fence" /\ walk'[q] = {}
    BY ZenonT(30), <1>0, <1>9, <2>1 DEF Allocate, CycleTypeOK, cur, WalkAt
  <2>3. <<row[q], s>> \in rows' \ cancels'
    BY ZenonT(30), <1>0, <2>1, NewRow DEF InsertAttempt, AttemptsTypeOK
  <2> QED
    BY ZenonT(30), <2>2, <2>3 DEF AllAt, CursorAt, WalkAt, KnowsAt, FreshPCs, PaymentPCs, CancelPCs
<1> QED
  BY <1>2, <1>3, <1>4, <1>6, <1>7, <1>8, <1>9

(* LookupLiveCancels reads every live cancel of the payout. *)
LEMMA LookupOwn ==
  ASSUME IInv, NEW q \in Procs, LookupLiveCancels(q)
  PROVE  AllAt(q)'
<1>1. /\ pc[q] = "cancels" /\ pc'[q] = "walk" /\ row'[q] = row[q] /\ row[q] \in Payouts
      /\ walk'[q] = {<<i[2], KindOf(i)>> : i \in LiveCancels(row[q])}
      /\ UNCHANGED <<rows, cancels, confirmed, abandoned, holder, tok>>
  BY ZenonT(30) DEF IInv, TypeOK, CycleTypeOK, LookupLiveCancels, attemptVars, leaseVars, CursorOfCycle,
     CursorAt, FreshPCs
<1>2. \A i \in LiveCancels(row[q]) : i \in rows /\ i = <<row[q], i[2]>>
  <2>1. rows \subseteq Ids /\ \A i \in LiveCancels(row[q]) : i \in rows /\ i[1] = row[q]
    BY DEF LiveCancels, LiveRows, IInv, TypeOK, AttemptsTypeOK
  <2> QED BY <2>1, RowName
<1>3. CursorAt(q)'
  BY ZenonT(30), <1>1 DEF CursorAt, FreshPCs, PaymentPCs, CancelPCs
<1>4. WalkAt(q)'
  <2>1. ASSUME NEW w \in walk'[q]
        PROVE  /\ <<row[q], w[1]>> \in rows
               /\ w[2] = "confirmed" => <<row[q], w[1]>> \in confirmed
    <3>1. PICK i \in LiveCancels(row[q]) : w = <<i[2], KindOf(i)>>
      BY ZenonT(30), <1>1, <2>1
    <3>2. i \in rows /\ <<row[q], w[1]>> = i /\ w[2] = KindOf(i)
      BY ZenonT(30), <1>2, <3>1
    <3> QED BY <3>2 DEF KindOf
  <2> QED
    BY ZenonT(30), <1>1, <2>1 DEF WalkAt, FreshPCs
<1>5. Holds(q) => LivePayments(row[q])' = {}
  BY <1>1 DEF IInv, HolderKnows, KnowsAt, FreshPCs, LivePayments, LiveRows
<1>6. \A c \in LiveCancels(row[q])' : Accounted(q, c)'
  <2> SUFFICES ASSUME NEW c \in LiveCancels(row[q]) PROVE Accounted(q, c)'
    BY ZenonT(30), <1>1 DEF LiveCancels, LiveRows
  <2>1. <<c[2], KindOf(c)>> \in walk'[q]
    BY <1>1
  <2> QED BY <2>1 DEF Accounted
<1> QED
  BY ZenonT(30), <1>1, <1>3, <1>4, <1>5, <1>6 DEF AllAt, KnowsAt, Holds

(* VisitCancel takes a cancel off the walk: it was confirmed, or it blocks *)
(* the payout, or it is about to be marked.                                *)
LEMMA VisitOwn ==
  ASSUME IInv, NEW q \in Procs, VisitCancel(q)
  PROVE  AllAt(q)'
<1> DEFINE poll(w) == w[2] = "unconfirmed" /\ IsFinal(<<row[q], w[1]>>)
<1>0. TypeOK /\ CycleTypeOK /\ CursorAt(q) /\ WalkAt(q) /\ (Holds(q) => KnowsAt(q))
  BY DEF IInv, TypeOK, CursorOfCycle, WalkOfCycle, HolderKnows
<1>1. PICK w \in walk[q] :
        /\ walk'[q] = walk[q] \ {w}
        /\ pc'[q] = IF w[2] = "unsent" THEN "cancelSend"
                    ELSE IF poll(w) THEN "cancelMark" ELSE "walk"
        /\ cur(q)' = <<row[q], w[1]>>
        /\ blocked'[q] = (blocked[q] \/ ~(w[2] = "confirmed" \/ poll(w)))
  BY ZenonT(30), <1>0 DEF VisitCancel, CycleTypeOK, cur
<1>2. /\ pc[q] = "walk" /\ row'[q] = row[q] /\ row[q] \in Payouts
      /\ UNCHANGED <<rows, cancels, confirmed, abandoned, holder, tok, chain, final>>
      /\ <<row[q], w[1]>> \in rows
      /\ w[2] = "confirmed" => <<row[q], w[1]>> \in confirmed
  BY ZenonT(30), <1>0, <1>1 DEF VisitCancel, attemptVars, leaseVars, chainVars, CursorAt, WalkAt, FreshPCs
<1>3. CursorAt(q)'
  <2>1. poll(w) => IsFinal(<<row[q], w[1]>>)'
    BY ZenonT(30), <1>2 DEF IsFinal
  <2>2. pc'[q] \in {"cancelSend", "cancelMark", "walk"} /\ (pc'[q] = "cancelMark" => poll(w))
    BY ZenonT(30), <1>1
  <2> HIDE DEF poll
  <2> QED BY ZenonT(30), <1>1, <1>2, <2>1, <2>2 DEF CursorAt, FreshPCs, PaymentPCs, CancelPCs
<1>4. WalkAt(q)'
  <2>1. pc'[q] \in FreshPCs /\ pc'[q] \notin {"cancelStamp", "alloc"}
    BY ZenonT(30), <1>1 DEF FreshPCs, CancelPCs
  <2>2. pc'[q] = "cancelSend" => blocked'[q]
    BY ZenonT(30), <1>1
  <2>3. \A v \in walk'[q] : v \in walk[q]
    BY <1>1
  <2> QED BY ZenonT(30), <1>0, <1>2, <2>1, <2>2, <2>3 DEF WalkAt
<1>5. Holds(q) => LivePayments(row[q])' = {}
  BY ZenonT(30), <1>0, <1>2 DEF KnowsAt, FreshPCs, LivePayments, LiveRows
<1>6. ASSUME Holds(q), pc'[q] \in {"walk", "cancelMark", "alloc"}, ~blocked'[q]
      PROVE  WillBlock(q)' \/ \A c \in LiveCancels(row[q])' : Accounted(q, c)'
  <2>1. ~blocked[q] /\ (w[2] = "confirmed" \/ poll(w))
    BY ZenonT(30), <1>0, <1>1, <1>6 DEF CycleTypeOK
  <2>2. poll(w) => pc'[q] = "cancelMark" /\ w[2] # "confirmed"
    BY ZenonT(30), <1>1
  <2> HIDE DEF poll
  <2>3. CASE WillBlock(q)
    <3>1. PICK v \in walk[q] : v[2] # "confirmed" /\ <<row[q], v[1]>> \in abandoned
      BY <1>2, <2>3 DEF WillBlock
    <3>2. CASE v = w
      BY ZenonT(30), <1>1, <1>2, <2>1, <2>2, <3>1, <3>2 DEF WillBlock
    <3>3. CASE v # w
      BY ZenonT(30), <1>1, <1>2, <3>1, <3>3 DEF WillBlock
    <3> QED BY ZenonT(30), <3>2, <3>3
  <2>4. CASE \A c \in LiveCancels(row[q]) : Accounted(q, c)
    <3> SUFFICES ASSUME NEW c \in LiveCancels(row[q]) PROVE Accounted(q, c)'
      BY ZenonT(30), <1>2 DEF LiveCancels, LiveRows
    <3>1. c = <<row[q], c[2]>>
      <4>1. rows \subseteq Ids /\ c \in rows /\ c[1] = row[q]
        BY ZenonT(30), <1>0 DEF LiveCancels, LiveRows, TypeOK, AttemptsTypeOK
      <4> QED BY ZenonT(30), <4>1, RowName
    <3>2. CASE c \in confirmed
      BY <1>2, <3>2 DEF Accounted
    <3>3. ASSUME NEW v \in walk[q], v[1] = c[2], v # w PROVE Accounted(q, c)'
      BY <1>1, <3>3 DEF Accounted
    <3>4. CASE w[1] = c[2]
      BY ZenonT(30), <1>1, <1>2, <2>1, <2>2, <3>1, <3>4 DEF Accounted
    <3> QED BY ZenonT(30), <1>2, <2>4, <3>2, <3>3, <3>4 DEF Accounted
  <2> QED BY ZenonT(30), <1>0, <1>2, <1>6, <2>1, <2>3, <2>4 DEF KnowsAt
<1> QED
  BY ZenonT(30), <1>2, <1>3, <1>4, <1>5, <1>6 DEF AllAt, KnowsAt, Holds

(* The other steps of the loop over the cancels. *)
LEMMA WalkOwn ==
  ASSUME IInv, Grow, NEW q \in Procs,
         RebroadcastCancel(q) \/ StampCancel(q) \/ MarkCancel(q) \/ WalkDone(q)
  PROVE  AllAt(q)'
<1>0. /\ TypeOK /\ CycleTypeOK /\ CursorAt(q) /\ WalkAt(q) /\ (Holds(q) => KnowsAt(q))
      /\ row[q] \in Payouts /\ pc[q] \in FreshPCs
      /\ UNCHANGED <<rows, cancels, abandoned, holder, tok>>
  BY ZenonT(30) DEF IInv, TypeOK, CursorOfCycle, WalkOfCycle, HolderKnows, CursorAt, FreshPCs, CancelPCs,
     RebroadcastCancel, StampCancel, MarkCancel, WalkDone, StampBroadcastAt, MarkConfirmed,
     attemptVars, leaseVars
<1>1. Holds(q) => LivePayments(row[q])' = {} \/ row'[q] # row[q]
  BY ZenonT(30), <1>0 DEF KnowsAt, LivePayments, LiveRows
<1>2. ASSUME pc'[q] \in {"cancelStamp", "walk"}, row'[q] = row[q], walk'[q] = walk[q],
             blocked'[q], cur(q)' = cur(q), pc[q] \in CancelPCs
      PROVE  AllAt(q)'
  <2>1. CursorAt(q)'
    BY ZenonT(30), <1>0, <1>2 DEF CursorAt, FreshPCs, PaymentPCs, CancelPCs
  <2>2. WalkAt(q)'
    BY ZenonT(30), <1>0, <1>2 DEF WalkAt, FreshPCs, CancelPCs, Grow
  <2> QED BY ZenonT(30), <1>0, <1>1, <1>2, <2>1, <2>2 DEF AllAt, KnowsAt, Holds
<1>3. CASE RebroadcastCancel(q) \/ StampCancel(q)
  <2>1. pc[q] \in CancelPCs /\ blocked[q]
    BY ZenonT(30), <1>0, <1>3 DEF RebroadcastCancel, StampCancel, CancelPCs, WalkAt
  <2>2. Goto(q, "cancelStamp") \/ Goto(q, "walk")
    BY <1>3 DEF RebroadcastCancel, StampCancel
  <2> QED BY ZenonT(30), <1>0, <1>2, <2>1, <2>2, GotoKeeps
<1>4. CASE MarkCancel(q)
  <2>1. pc[q] = "cancelMark" /\ cur(q) \in rows /\ pc[q] \in CancelPCs
    BY <1>0, <1>4 DEF MarkCancel, CursorAt, CancelPCs
  <2>2. CASE ~(CanMarkConfirmed(cur(q)) /\ MarkConfirmed(cur(q)) /\ Goto(q, "walk"))
    <3>1. /\ pc'[q] = "walk" /\ row'[q] = row[q] /\ walk'[q] = walk[q] /\ blocked'[q]
          /\ cur(q)' = cur(q)
      BY ZenonT(30), <1>0, <1>4, <2>2 DEF MarkCancel, CycleTypeOK, cur
    <3> QED BY ZenonT(30), <1>2, <2>1, <3>1
  <2>3. CASE CanMarkConfirmed(cur(q)) /\ MarkConfirmed(cur(q)) /\ Goto(q, "walk")
    <3>1. /\ pc'[q] = "walk" /\ row'[q] = row[q] /\ walk'[q] = walk[q]
          /\ blocked'[q] = blocked[q] /\ cur(q)' = cur(q)
          /\ confirmed' = confirmed \cup {cur(q)} /\ cur(q) \notin abandoned
      BY ZenonT(30), <1>0, <1>4, <2>3, GotoKeeps DEF MarkCancel, MarkConfirmed, CanMarkConfirmed
    <3>2. CursorAt(q)'
      BY ZenonT(30), <1>0, <3>1 DEF CursorAt, FreshPCs, PaymentPCs, CancelPCs
    <3>3. WalkAt(q)'
      BY ZenonT(30), <1>0, <3>1 DEF WalkAt, FreshPCs, CancelPCs
    <3>4. ASSUME Holds(q), ~blocked[q]
          PROVE  WillBlock(q)' \/ \A c \in LiveCancels(row[q])' : Accounted(q, c)'
      <4>1. CASE WillBlock(q)
        BY ZenonT(30), <1>0, <3>1, <4>1 DEF WillBlock
      <4>2. CASE \A c \in LiveCancels(row[q]) : Accounted(q, c)
        BY ZenonT(30), <1>0, <3>1, <4>2 DEF Accounted, LiveCancels, LiveRows
      <4> QED BY ZenonT(30), <1>0, <2>1, <3>4, <4>1, <4>2 DEF KnowsAt
    <3> QED BY ZenonT(30), <1>0, <1>1, <3>1, <3>2, <3>3, <3>4 DEF AllAt, KnowsAt, Holds
  <2> QED BY <2>2, <2>3
<1>5. CASE WalkDone(q)
  <2>1. CASE blocked[q]
    BY ZenonT(30), <1>0, <1>5, <2>1, MovesRest, RestAt DEF WalkDone
  <2>2. CASE ~blocked[q]
    <3>1. /\ pc[q] = "walk" /\ pc'[q] = "alloc" /\ row'[q] = row[q] /\ walk'[q] = {} /\ walk[q] = {}
          /\ ~blocked'[q] /\ cur(q)' = cur(q) /\ UNCHANGED confirmed
      BY ZenonT(30), <1>0, <1>5, <2>2, GotoKeeps DEF WalkDone, attemptVars
    <3>2. CursorAt(q)'
      BY ZenonT(30), <1>0, <3>1 DEF CursorAt, FreshPCs, PaymentPCs, CancelPCs
    <3>3. WalkAt(q)'
      BY ZenonT(30), <3>1 DEF WalkAt
    <3>4. Holds(q) => \A c \in LiveCancels(row[q])' : Accounted(q, c)'
      BY ZenonT(30), <1>0, <2>2, <3>1 DEF KnowsAt, WillBlock, Accounted, LiveCancels, LiveRows
    <3> QED BY ZenonT(30), <1>0, <1>1, <3>1, <3>2, <3>3, <3>4 DEF AllAt, KnowsAt, Holds
  <2> QED BY SMTT(30), <2>1, <2>2
<1> QED
  BY <1>3, <1>4, <1>5

(* A process takes a step of its cycle, comes to rest, or stays as it is. *)
LEMMA OwnOrSame ==
  ASSUME CycleTypeOK, WalkInFresh, [Next]_vars, NEW r \in Procs
  PROVE  CycleStep(r) \/ Same(r) \/ AtRest(r)'
<1>1. CASE \E q \in Procs : CycleStep(q) \/ ProcessStep(q)
  BY <1>1, CycleOthers, ProcessOthers
<1>2. CASE ~\E q \in Procs : CycleStep(q) \/ ProcessStep(q)
  <2>1. UNCHANGED procVars
    BY <1>2 DEF Next, Abandon, AbandonBroadcast, AbandonStamp, ReorgPoll, ChainStep,
       RevokeSource, Tick, vars
  <2> QED BY ZenonT(30), <2>1 DEF procVars, cycleVars, Same
<1> QED
  BY <1>1, <1>2

(* Every step keeps what every process remembers and knows. *)
LEMMA MemoryStep ==
  ASSUME IInv, TypeOK', TableStep, [Next]_vars
  PROVE  CursorOfCycle' /\ WalkOfCycle' /\ HolderKnows'
<1> SUFFICES ASSUME NEW r \in Procs PROVE AllAt(r)'
  BY DEF AllAt, CursorOfCycle, WalkOfCycle, HolderKnows
<1>0. Grow /\ TypeOK /\ CycleTypeOK /\ CursorAt(r) /\ WalkAt(r) /\ WalkOfCycle
  BY StepGrows DEF IInv, TypeOK, CursorOfCycle, WalkOfCycle
<1>4. WalkInFresh
  BY ZenonT(30), <1>0 DEF WalkInFresh, WalkOfCycle, WalkAt
<1>1. CASE CycleStep(r)
  BY <1>0, <1>1, PaymentOwn, LookupOwn, VisitOwn, WalkOwn DEF CycleStep
<1>2. CASE AtRest(r)'
  BY <1>2, RestAt
<1>3. CASE Same(r) /\ ~CycleStep(r)
  <2>1. CursorAt(r)' /\ WalkAt(r)'
    BY <1>0, <1>3, SameCursor
  <2>2. ASSUME Holds(r)' PROVE KnowsAt(r)' \/ AtRest(r)'
    BY <1>0, <1>3, <2>2, HeldBefore, SameKnows DEF CycleStep
  <2> QED BY <1>2, <2>1, <2>2 DEF AllAt
<1> QED
  BY <1>0, <1>1, <1>2, <1>3, <1>4, OwnOrSame
=============================================================================
