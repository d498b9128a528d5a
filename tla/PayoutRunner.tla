----------------------------- MODULE PayoutRunner -----------------------------
(***************************************************************************)
(* The payout pipeline: coordinator processes that race for the runner     *)
(* lease, run payout cycles (payout/runner.go), serve the operator's       *)
(* abandon endpoint (payout/abandon.go), poll for reorganisations          *)
(* (payout/reorg.go), crash, shut down and restart, over one SQLite        *)
(* database, one hot wallet and the ledger of billing/payout.go.           *)
(*                                                                         *)
(* One action is one database statement or transaction, or one call to the *)
(* RPC pair; everything between two of them is local to the process.       *)
(***************************************************************************)
EXTENDS PayoutLease, PayoutAttempts, HotWalletChain

CONSTANT Env   \* which of AllFaults the environment may do

AllFaults == {"crash", "shutdown", "halt", "runNow", "rowError", "stampError",
              "dbError", "abandon", "bareAbandon", "reorg", "deepReorg", "revoke"}

ASSUME EnvAssumption == Env \subseteq AllFaults

VARIABLES
  status,     \* ledger_payout_ready.status
  claimTx,    \* ledger_payout_ready.payout_external_id: the rows it names
  sourcesOk,  \* the settled source credits are all still payable
  pc,         \* where the process's cycle is; "idle" when inFlight is false
  loop,       \* the cadence loop goroutine is running
  byLoop,     \* the cycle was started by the loop, not by run-now
  halted,     \* Runner.halted
  todo,       \* rows of SelectReadyPayouts not visited yet
  row,        \* the payout being processed
  seq,        \* attempt_seq of the row being sent, polled or marked
  walk,       \* live cancels read by LookupLiveCancels, not visited yet
  blocked,    \* cancelsBlockFresh
  aband       \* the abandon handler in flight: where it is and its cancel row

ledgerVars == <<status, claimTx, sourcesOk>>
cycleVars == <<byLoop, todo, row, seq, walk, blocked>>
procVars == <<pc, loop, halted, cycleVars>>
vars == <<leaseVars, attemptVars, chainVars, ledgerVars, procVars, aband>>

NoPayout == 0
Kinds == {"unsent", "unconfirmed", "confirmed"}
PCs == {"down", "boot", "idle", "row", "lookup", "cancels", "walk", "cancelSend",
        "cancelStamp", "cancelMark", "alloc", "fence", "send", "refence",
        "resend", "stamp", "poll", "mark", "claim"}

cur(q) == <<row[q], seq[q]>>

IdleHandler == [at |-> "none", id |-> <<NoPayout, 0>>, by |-> {}]

LedgerTypeOK ==
  /\ status \in [Payouts -> {"ready", "consumed", "voided"}]
  /\ claimTx \in [Payouts -> SUBSET Ids]
  /\ sourcesOk \in [Payouts -> BOOLEAN]

CycleTypeOK ==
  /\ pc \in [Procs -> PCs]
  /\ loop \in [Procs -> BOOLEAN]
  /\ byLoop \in [Procs -> BOOLEAN]
  /\ halted \in [Procs -> BOOLEAN]
  /\ todo \in [Procs -> SUBSET Payouts]
  /\ row \in [Procs -> Payouts \cup {NoPayout}]
  /\ seq \in [Procs -> Seqs \cup {0}]
  /\ walk \in [Procs -> SUBSET (Seqs \X Kinds)]
  /\ blocked \in [Procs -> BOOLEAN]

HandlerTypeOK ==
  aband \in [at : {"none", "send", "stamp"},
             id : Ids \cup {<<NoPayout, 0>>}, by : SUBSET Procs]

(* Every variable has its type; in particular only transactions of         *)
(* existing rows reach a node, and only those are mined.                   *)
TypeOK ==
  /\ LeaseTypeOK /\ AttemptsTypeOK /\ ChainTypeOK(rows)
  /\ LedgerTypeOK /\ CycleTypeOK /\ HandlerTypeOK

Init ==
  /\ LeaseInit /\ AttemptsInit /\ ChainInit
  /\ status = [p \in Payouts |-> "ready"]
  /\ claimTx = [p \in Payouts |-> {}]
  /\ sourcesOk = [p \in Payouts |-> TRUE]
  /\ pc = [q \in Procs |-> "down"]
  /\ loop = [q \in Procs |-> FALSE]
  /\ byLoop = [q \in Procs |-> FALSE]
  /\ halted = [q \in Procs |-> FALSE]
  /\ todo = [q \in Procs |-> {}]
  /\ row = [q \in Procs |-> NoPayout]
  /\ seq = [q \in Procs |-> 0]
  /\ walk = [q \in Procs |-> {}]
  /\ blocked = [q \in Procs |-> FALSE]
  /\ aband = IdleHandler

-----------------------------------------------------------------------------
(* Moves of a cycle.                                                       *)

Serving(q) == pc[q] \notin {"down", "boot"}
InCycle(q) == pc[q] \notin {"down", "boot", "idle"}

Goto(q, l) ==
  /\ pc' = [pc EXCEPT ![q] = l]
  /\ UNCHANGED <<loop, halted, cycleVars>>

(* processRow returned; on to the next row of the loop. *)
NextRow(q) ==
  /\ pc' = [pc EXCEPT ![q] = "row"]
  /\ row' = [row EXCEPT ![q] = NoPayout]
  /\ seq' = [seq EXCEPT ![q] = 0]
  /\ walk' = [walk EXCEPT ![q] = {}]
  /\ blocked' = [blocked EXCEPT ![q] = FALSE]
  /\ UNCHANGED <<loop, halted, byLoop, todo>>

ClearCycle(q) ==
  /\ byLoop' = [byLoop EXCEPT ![q] = FALSE]
  /\ todo' = [todo EXCEPT ![q] = {}]
  /\ row' = [row EXCEPT ![q] = NoPayout]
  /\ seq' = [seq EXCEPT ![q] = 0]
  /\ walk' = [walk EXCEPT ![q] = {}]
  /\ blocked' = [blocked EXCEPT ![q] = FALSE]

(* RunOnce returned: no row left, halted, a cap, or the lease is lost. *)
EndCycle(q) ==
  /\ pc' = [pc EXCEPT ![q] = "idle"]
  /\ ClearCycle(q)
  /\ UNCHANGED <<loop, halted>>

(* The next of several rows with ORDER BY ... ASC. *)
IsFirst(x, S) == x \in S /\ \A y \in S : x <= y
-----------------------------------------------------------------------------
(* Start, lease and cadence.                                               *)

(* The pending nonce an endpoint reports: the first nonce from the mined   *)
(* ones on for which it knows no transaction.  Endpoints may lag behind.   *)
PendingNonces ==
  {n \in final..Len(chain) \cup {nonceOf[t] + 1 : t \in sent} :
     \A m \in Len(chain)..(n - 1) : \E t \in sent : nonceOf[t] = m}

(* setupPayout up to the lease: ColdStartNonceSync, then UpsertNonceCursor. *)
ColdStart(q) ==
  /\ pc[q] = "down"
  /\ \E n \in PendingNonces : UpsertNonceCursor(n)
  /\ Goto(q, "boot")
  /\ UNCHANGED <<leaseVars, chainVars, ledgerVars, aband>>

(* Acquire, NewRunner and Start. *)
AcquireLease(q) ==
  /\ pc[q] = "boot"
  /\ Acquire(q)
  /\ pc' = [pc EXCEPT ![q] = "idle"]
  /\ loop' = [loop EXCEPT ![q] = TRUE]
  /\ UNCHANGED <<attemptVars, chainVars, ledgerVars, halted, cycleVars, aband>>

(* ErrLeaseConflict: setupPayout fails and the process exits. *)
AcquireConflict(q) ==
  /\ pc[q] = "boot"
  /\ IsLeaseActive
  /\ Goto(q, "down")
  /\ UNCHANGED <<leaseVars, attemptVars, chainVars, ledgerVars, aband>>

(* The loop goroutine is in its select, not inside RunOnce. *)
LoopWaits(q) == loop[q] /\ ~(InCycle(q) /\ byLoop[q])

HeartbeatTick(q) ==
  /\ LoopWaits(q)
  /\ Heartbeat(q)
  /\ UNCHANGED <<attemptVars, chainVars, ledgerVars, procVars, aband>>

(* Heartbeat failed, because the lease is gone or the database said no:    *)
(* the loop returns.  The process and its endpoints go on.                 *)
HeartbeatFails(q) ==
  /\ LoopWaits(q)
  /\ ~Holds(q) \/ "dbError" \in Env
  /\ loop' = [loop EXCEPT ![q] = FALSE]
  /\ UNCHANGED <<leaseVars, attemptVars, chainVars, ledgerVars, pc, halted,
                 cycleVars, aband>>

(* A run interval passes.  A loop in its select heartbeats every interval, *)
(* a loop inside RunOnce does not.                                         *)
Tick ==
  /\ \A q \in Procs : Holds(q) /\ LoopWaits(q) => hbAge = 0
  /\ Age
  /\ UNCHANGED <<attemptVars, chainVars, ledgerVars, procVars, aband>>

(* SelectReadyPayouts, at the start of a cycle of the loop or of run-now. *)
StartCycle(q, driver) ==
  /\ pc[q] = "idle"
  /\ ~halted[q]
  /\ IF driver THEN loop[q] ELSE "runNow" \in Env
  /\ pc' = [pc EXCEPT ![q] = "row"]
  /\ byLoop' = [byLoop EXCEPT ![q] = driver]
  /\ todo' = [todo EXCEPT ![q] = {p \in Payouts : status[p] = "ready"}]
  /\ UNCHANGED <<leaseVars, attemptVars, chainVars, ledgerVars, loop, halted,
                 row, seq, walk, blocked, aband>>

(* RequestHalt, called by the chain balance worker. *)
RequestHalt(q) ==
  /\ "halt" \in Env
  /\ Serving(q)
  /\ ~halted[q]
  /\ halted' = [halted EXCEPT ![q] = TRUE]
  /\ UNCHANGED <<leaseVars, attemptVars, chainVars, ledgerVars, pc, loop,
                 cycleVars, aband>>

(* The stop closure of setupPayout: the loop's cycle, if any, sees its     *)
(* context cancelled; then Release.  A run-now cycle and the endpoints     *)
(* live on until the process exits.                                        *)
Shutdown(q) ==
  /\ "shutdown" \in Env
  /\ Serving(q)
  /\ loop' = [loop EXCEPT ![q] = FALSE]
  /\ IF InCycle(q) /\ byLoop[q]
       THEN pc' = [pc EXCEPT ![q] = "idle"] /\ ClearCycle(q)
       ELSE UNCHANGED <<pc, cycleVars>>
  /\ Release(q)
  /\ UNCHANGED <<attemptVars, chainVars, ledgerVars, halted, aband>>

(* The process dies, or exits after Shutdown; its memory is lost. *)
Crash(q) ==
  /\ "crash" \in Env
  /\ pc[q] # "down"
  /\ pc' = [pc EXCEPT ![q] = "down"]
  /\ loop' = [loop EXCEPT ![q] = FALSE]
  /\ halted' = [halted EXCEPT ![q] = FALSE]
  /\ ClearCycle(q)
  /\ aband' = IF q \in aband.by THEN IdleHandler ELSE aband
  /\ Forget(q)
  /\ UNCHANGED <<attemptVars, chainVars, ledgerVars>>

-----------------------------------------------------------------------------
(* One row: the fence, the state lookup, and the claim of a paid row.      *)

(* The head of rowLoop, and the fence processRow starts with. *)
TakeRow(q) ==
  /\ pc[q] = "row"
  /\ IF todo[q] = {} \/ halted[q] \/ ~Holds(q)
       THEN EndCycle(q)
       ELSE \E p \in todo[q] :
              /\ IsFirst(p, todo[q])
              /\ todo' = [todo EXCEPT ![q] = todo[q] \ {p}]
              /\ row' = [row EXCEPT ![q] = p]
              /\ pc' = [pc EXCEPT ![q] = "lookup"]
              /\ UNCHANGED <<loop, halted, byLoop, seq, walk, blocked>>
  /\ UNCHANGED <<leaseVars, attemptVars, chainVars, ledgerVars, aband>>

(* LookupExistingLatest and the three ways to go on with a live payment. *)
LookupExisting(q) ==
  /\ pc[q] = "lookup"
  /\ IF LivePayments(row[q]) = {}
       THEN Goto(q, "cancels")
       ELSE \E i \in LivePayments(row[q]) :
              /\ \A j \in LivePayments(row[q]) : j[2] <= i[2]
              /\ seq' = [seq EXCEPT ![q] = i[2]]
              /\ pc' = [pc EXCEPT ![q] = IF i \in confirmed THEN "claim"
                                         ELSE IF i \notin stamped THEN "refence"
                                         ELSE "poll"]
              /\ UNCHANGED <<loop, halted, byLoop, todo, row, walk, blocked>>
  /\ UNCHANGED <<leaseVars, attemptVars, chainVars, ledgerVars, aband>>

(* Mutant: a receipt at any depth will do. *)
PollShallow(q) ==
  /\ pc[q] = "poll"
  /\ IsMined(cur(q))
  /\ Goto(q, "mark")
  /\ UNCHANGED <<leaseVars, attemptVars, chainVars, ledgerVars, aband>>

(* pollAndConfirm sees the transaction deep enough on both endpoints. *)
Poll(q) ==
  /\ pc[q] = "poll"
  /\ IsFinal(cur(q))
  /\ Goto(q, "mark")
  /\ UNCHANGED <<leaseVars, attemptVars, chainVars, ledgerVars, aband>>

(* The deadline passes first; the next cycle polls again. *)
PollTimeout(q) ==
  /\ pc[q] = "poll"
  /\ ~IsFinal(cur(q))
  /\ NextRow(q)
  /\ UNCHANGED <<leaseVars, attemptVars, chainVars, ledgerVars, aband>>

(* markConfirmedStandalone; no row affected means abandoned or confirmed   *)
(* in the meantime, and the row is skipped.                                *)
MarkPaid(q) ==
  /\ pc[q] = "mark"
  /\ \/ CanMarkConfirmed(cur(q)) /\ MarkConfirmed(cur(q)) /\ Goto(q, "claim")
     \/ ~CanMarkConfirmed(cur(q)) /\ UNCHANGED attemptVars /\ NextRow(q)
  /\ UNCHANGED <<leaseVars, chainVars, ledgerVars, aband>>

(* billing ClaimPayoutReady: a ready payout is revalidated against its     *)
(* source credits first, and voided when they are no longer payable.       *)
ClaimPayoutReady(i) ==
  LET p == i[1] IN
  /\ status' = [status EXCEPT ![p] =
       IF status[p] # "ready" THEN @
       ELSE IF sourcesOk[p] THEN "consumed" ELSE "voided"]
  /\ claimTx' = [claimTx EXCEPT ![p] =
       IF status[p] = "ready" /\ sourcesOk[p] THEN {i} ELSE @]
  /\ UNCHANGED sourcesOk

(* claimAndLog: skipped when halted. *)
Claim(q) ==
  /\ pc[q] = "claim"
  /\ IF halted[q] THEN UNCHANGED ledgerVars ELSE ClaimPayoutReady(cur(q))
  /\ NextRow(q)
  /\ UNCHANGED <<leaseVars, attemptVars, chainVars, aband>>

(* A database or endpoint error, or the cap of a single payout, gives the  *)
(* row up; a signer error or a stale reservation fails the allocation; the *)
(* daily cap or the balance ends the cycle.                                *)
RowFails(q) ==
  /\ "rowError" \in Env
  /\ \/ pc[q] \in {"lookup", "cancels", "alloc", "poll", "mark", "claim"} /\ NextRow(q)
     \/ pc[q] = "alloc" /\ EndCycle(q)
  /\ UNCHANGED <<leaseVars, attemptVars, chainVars, ledgerVars, aband>>

-----------------------------------------------------------------------------
(* Sending a payment.                                                      *)

(* BroadcastBoth: some endpoint accepts, perhaps one that lags behind, but *)
(* none once the nonce is used deep on the chain; or both refuse; or their *)
(* answer is lost although the transaction reached a node.                 *)
Accepted(i) == nonceOf[i] >= final /\ Reach(i)
Refused(i) == UNCHANGED chainVars \/ Reach(i)

(* IsNonceTooLow: "nonce too low", "already known", "underpriced". *)
NonceTooLow(i) ==
  /\ nonceOf[i] < Len(chain) \/ \E t \in sent : nonceOf[t] = nonceOf[i]
  /\ UNCHANGED chainVars

(* Mutant: no halt gate. *)
FenceOnly(q, l) ==
  /\ IF ~Holds(q) THEN EndCycle(q) ELSE Goto(q, l)
  /\ UNCHANGED <<leaseVars, attemptVars, chainVars, ledgerVars, aband>>

(* SelfFence and the halt gate in front of a broadcast. *)
FenceThen(q, l) ==
  /\ IF ~Holds(q) THEN EndCycle(q)
     ELSE IF halted[q] THEN NextRow(q) ELSE Goto(q, l)
  /\ UNCHANGED <<leaseVars, attemptVars, chainVars, ledgerVars, aband>>

(* allocateBuildSignBroadcast after its COMMIT. *)
FenceFresh(q) == pc[q] = "fence" /\ FenceThen(q, "send")

(* rebroadcastAndPoll. *)
FenceRebroadcast(q) == pc[q] = "refence" /\ FenceThen(q, "resend")

Broadcast(q) ==
  /\ pc[q] = "send"
  /\ \/ Accepted(cur(q)) /\ Goto(q, "stamp")
     \/ Refused(cur(q)) /\ NextRow(q)
  /\ UNCHANGED <<leaseVars, attemptVars, ledgerVars, aband>>

(* Mutant: "nonce too low" is an error like any other. *)
RebroadcastStrict(q) ==
  /\ pc[q] = "resend"
  /\ \/ Accepted(cur(q)) /\ Goto(q, "stamp")
     \/ Refused(cur(q)) /\ NextRow(q)
  /\ UNCHANGED <<leaseVars, attemptVars, ledgerVars, aband>>

Rebroadcast(q) ==
  /\ pc[q] = "resend"
  /\ \/ Accepted(cur(q)) /\ Goto(q, "stamp")
     \/ NonceTooLow(cur(q)) /\ Goto(q, "stamp")
     \/ Refused(cur(q)) /\ NextRow(q)
  /\ UNCHANGED <<leaseVars, attemptVars, ledgerVars, aband>>

(* A failing StampBroadcastAt is only logged. *)
Stamp(q) ==
  /\ pc[q] = "stamp"
  /\ \/ StampBroadcastAt(cur(q))
     \/ "stampError" \in Env /\ UNCHANGED attemptVars
  /\ Goto(q, "poll")
  /\ UNCHANGED <<leaseVars, chainVars, ledgerVars, aband>>

-----------------------------------------------------------------------------
(* The cancels of a payout without a live payment, and a fresh allocation. *)

KindOf(i) == IF i \in confirmed THEN "confirmed"
             ELSE IF i \in stamped THEN "unconfirmed" ELSE "unsent"

(* Mutant: cancels that were not broadcast are not looked at. *)
LookupSentCancels(q) ==
  /\ pc[q] = "cancels"
  /\ walk' = [walk EXCEPT ![q] =
       {<<i[2], KindOf(i)>> : i \in LiveCancels(row[q]) \cap stamped}]
  /\ pc' = [pc EXCEPT ![q] = "walk"]
  /\ UNCHANGED <<leaseVars, attemptVars, chainVars, ledgerVars, loop, halted,
                 byLoop, todo, row, seq, blocked, aband>>

LookupLiveCancels(q) ==
  /\ pc[q] = "cancels"
  /\ walk' = [walk EXCEPT ![q] = {<<i[2], KindOf(i)>> : i \in LiveCancels(row[q])}]
  /\ pc' = [pc EXCEPT ![q] = "walk"]
  /\ UNCHANGED <<leaseVars, attemptVars, chainVars, ledgerVars, loop, halted,
                 byLoop, todo, row, seq, blocked, aband>>

(* Mutant: a cancel counts as confirmed at any depth. *)
VisitShallow(q) ==
  /\ pc[q] = "walk"
  /\ \E w \in walk[q] :
       /\ walk' = [walk EXCEPT ![q] = walk[q] \ {w}]
       /\ LET poll == w[2] = "unconfirmed" /\ IsMined(<<row[q], w[1]>>)
              pass == w[2] = "confirmed" \/ poll
          IN /\ pc' = [pc EXCEPT ![q] = IF w[2] = "unsent" THEN "cancelSend"
                                        ELSE IF poll THEN "cancelMark" ELSE "walk"]
             /\ seq' = [seq EXCEPT ![q] = w[1]]
             /\ blocked' = [blocked EXCEPT ![q] = blocked[q] \/ ~pass]
  /\ UNCHANGED <<leaseVars, attemptVars, chainVars, ledgerVars, loop, halted,
                 byLoop, todo, row, aband>>

(* The loop over the cancels, on what LookupLiveCancels read: an unsent    *)
(* one is rebroadcast and blocks, an unconfirmed one is polled once and    *)
(* blocks unless it can be confirmed now, a confirmed one is passed over.  *)
VisitCancel(q) ==
  /\ pc[q] = "walk"
  /\ \E w \in walk[q] :
       /\ \A v \in walk[q] : w[1] <= v[1]
       /\ walk' = [walk EXCEPT ![q] = walk[q] \ {w}]
       /\ LET poll == w[2] = "unconfirmed" /\ IsFinal(<<row[q], w[1]>>)
              pass == w[2] = "confirmed" \/ poll
          IN /\ pc' = [pc EXCEPT ![q] = IF w[2] = "unsent" THEN "cancelSend"
                                        ELSE IF poll THEN "cancelMark" ELSE "walk"]
             /\ seq' = [seq EXCEPT ![q] = w[1]]
             /\ blocked' = [blocked EXCEPT ![q] = blocked[q] \/ ~pass]
  /\ UNCHANGED <<leaseVars, attemptVars, chainVars, ledgerVars, loop, halted,
                 byLoop, todo, row, aband>>

(* rebroadcastCancel: neither fenced nor gated by halted. *)
RebroadcastCancel(q) ==
  /\ pc[q] = "cancelSend"
  /\ \/ Accepted(cur(q)) /\ Goto(q, "cancelStamp")
     \/ Refused(cur(q)) /\ Goto(q, "walk")
  /\ UNCHANGED <<leaseVars, attemptVars, ledgerVars, aband>>

StampCancel(q) ==
  /\ pc[q] = "cancelStamp"
  /\ \/ StampBroadcastAt(cur(q))
     \/ "stampError" \in Env /\ UNCHANGED attemptVars
  /\ Goto(q, "walk")
  /\ UNCHANGED <<leaseVars, chainVars, ledgerVars, aband>>

(* The end of pollCancelOnce: no row affected, or an error of an endpoint  *)
(* or of the database, keeps the payout blocked.                           *)
MarkCancel(q) ==
  /\ pc[q] = "cancelMark"
  /\ \/ CanMarkConfirmed(cur(q)) /\ MarkConfirmed(cur(q)) /\ Goto(q, "walk")
     \/ /\ ~CanMarkConfirmed(cur(q)) \/ "rowError" \in Env
        /\ blocked' = [blocked EXCEPT ![q] = TRUE]
        /\ pc' = [pc EXCEPT ![q] = "walk"]
        /\ UNCHANGED <<attemptVars, loop, halted, byLoop, todo, row, seq, walk>>
  /\ UNCHANGED <<leaseVars, chainVars, ledgerVars, aband>>

(* Mutant: cancelsBlockFresh is not looked at. *)
WalkNeverBlocks(q) ==
  /\ pc[q] = "walk"
  /\ walk[q] = {}
  /\ Goto(q, "alloc")
  /\ UNCHANGED <<leaseVars, attemptVars, chainVars, ledgerVars, aband>>

WalkDone(q) ==
  /\ pc[q] = "walk"
  /\ walk[q] = {}
  /\ IF blocked[q] THEN NextRow(q) ELSE Goto(q, "alloc")
  /\ UNCHANGED <<leaseVars, attemptVars, chainVars, ledgerVars, aband>>

(* Mutant: no SelfFenceTx in the transaction. *)
AllocateUnfenced(q) ==
  /\ pc[q] = "alloc"
  /\ \E s \in Seqs :
       /\ NextAttemptSeq(row[q], s)
       /\ InsertAttempt(row[q], s)
       /\ seq' = [seq EXCEPT ![q] = s]
  /\ pc' = [pc EXCEPT ![q] = "fence"]
  /\ UNCHANGED <<leaseVars, chainVars, ledgerVars, loop, halted, byLoop, todo,
                 row, walk, blocked, aband>>

(* The BEGIN IMMEDIATE transaction of allocateBuildSignBroadcast. *)
Allocate(q) ==
  /\ pc[q] = "alloc"
  /\ Holds(q)
  /\ \E s \in Seqs :
       /\ NextAttemptSeq(row[q], s)
       /\ InsertAttempt(row[q], s)
       /\ seq' = [seq EXCEPT ![q] = s]
  /\ pc' = [pc EXCEPT ![q] = "fence"]
  /\ UNCHANGED <<leaseVars, chainVars, ledgerVars, loop, halted, byLoop, todo,
                 row, walk, blocked, aband>>

(* The transaction rolls back: the lease is lost, or a UNIQUE index says   *)
(* no.  The bound on attempt_seq is reported the same way.                 *)
AllocateFails(q) ==
  /\ pc[q] = "alloc"
  /\ \/ ~Holds(q) /\ EndCycle(q)
     \/ /\ Holds(q)
        /\ InsertCollides(row[q]) \/ <<row[q], MaxSeq>> \in rows
        /\ NextRow(q)
  /\ UNCHANGED <<leaseVars, attemptVars, chainVars, ledgerVars, aband>>

-----------------------------------------------------------------------------
(* The operator and the reorganisation poller.                             *)

(* ServeAbandon up to its COMMIT, in a process that serves the endpoint.   *)
Abandon(q, i, s) ==
  /\ aband.at = "none"
  /\ Serving(q)
  /\ ~IsLeaseActive
  /\ \/ /\ "abandon" \in Env
        /\ NextAttemptSeq(i[1], s)
        /\ AbandonWithCancel(i, s)
        /\ aband' = [at |-> "send", id |-> <<i[1], s>>, by |-> {q}]
     \/ /\ "bareAbandon" \in Env
        /\ AbandonOnly(i)
        /\ UNCHANGED aband
  /\ UNCHANGED <<leaseVars, chainVars, ledgerVars, procVars>>

AbandonBroadcast ==
  /\ aband.at = "send"
  /\ \/ Accepted(aband.id) /\ aband' = [aband EXCEPT !.at = "stamp"]
     \/ Refused(aband.id) /\ aband' = IdleHandler
  /\ UNCHANGED <<leaseVars, attemptVars, ledgerVars, procVars>>

AbandonStamp ==
  /\ aband.at = "stamp"
  /\ \/ StampBroadcastAt(aband.id)
     \/ "stampError" \in Env /\ UNCHANGED attemptVars
  /\ aband' = IdleHandler
  /\ UNCHANGED <<leaseVars, chainVars, ledgerVars, procVars>>

(* ReorgPoller.Run on one confirmed cancel that neither endpoint knows.    *)
(* A payment that is gone is only reported.                                *)
ReorgPoll(q, i) ==
  /\ Serving(q)
  /\ ~IsMined(i)
  /\ LiveAgain(i)
  /\ UNCHANGED <<leaseVars, chainVars, ledgerVars, procVars, aband>>

-----------------------------------------------------------------------------
(* The chain and the ledger's source credits.                              *)

ChainStep ==
  /\ \/ \E t \in sent : Mine(t, nonceOf[t])
     \/ Finalize
     \/ "reorg" \in Env /\ \E k \in 0..Len(chain) : ShallowReorg(k)
     \/ "deepReorg" \in Env /\ \E k \in 0..final : DeepReorg(k)
  /\ UNCHANGED <<leaseVars, attemptVars, ledgerVars, procVars, aband>>

(* The recovery worker quarantines a settled source credit. *)
RevokeSource(p) ==
  /\ "revoke" \in Env
  /\ sourcesOk[p]
  /\ sourcesOk' = [sourcesOk EXCEPT ![p] = FALSE]
  /\ UNCHANGED <<leaseVars, attemptVars, chainVars, status, claimTx, procVars, aband>>

CycleStep(q) ==
  \/ TakeRow(q) \/ LookupExisting(q)
  \/ Poll(q) \/ PollTimeout(q) \/ MarkPaid(q) \/ Claim(q) \/ RowFails(q)
  \/ FenceFresh(q) \/ FenceRebroadcast(q) \/ Broadcast(q) \/ Rebroadcast(q) \/ Stamp(q)
  \/ LookupLiveCancels(q) \/ VisitCancel(q) \/ RebroadcastCancel(q)
  \/ StampCancel(q) \/ MarkCancel(q) \/ WalkDone(q)
  \/ Allocate(q) \/ AllocateFails(q)

ProcessStep(q) ==
  \/ ColdStart(q) \/ AcquireLease(q) \/ AcquireConflict(q)
  \/ HeartbeatTick(q) \/ HeartbeatFails(q)
  \/ StartCycle(q, TRUE) \/ StartCycle(q, FALSE)
  \/ RequestHalt(q) \/ Shutdown(q) \/ Crash(q)

Next ==
  \/ \E q \in Procs : CycleStep(q) \/ ProcessStep(q)
  \/ \E q \in Procs, i \in Ids, s \in Seqs : Abandon(q, i, s)
  \/ AbandonBroadcast \/ AbandonStamp
  \/ \E q \in Procs, i \in Ids : ReorgPoll(q, i)
  \/ ChainStep
  \/ \E p \in Payouts : RevokeSource(p)
  \/ Tick

Spec == Init /\ [][Next]_vars

-----------------------------------------------------------------------------
(* Properties.                                                             *)

(* A provider is paid at most once for a payout: the hot wallet's mined    *)
(* history never holds two payments of the same payout, whatever the       *)
(* processes, the operator's abandons and the crashes do.                  *)
NoDoublePay ==
  \A j, k \in 1..Len(chain) :
    /\ chain[j] \notin cancels
    /\ chain[k] \notin cancels
    /\ chain[j][1] = chain[k][1]
    => j = k

(* A row's transaction can no longer be mined: another one has its nonce   *)
(* for good.                                                               *)
Dead(i) == nonceOf[i] < final /\ chain[nonceOf[i] + 1] # i

(* Of all payments ever signed for a payout at most one can still reach    *)
(* the chain: a fresh attempt is allocated only after the nonce of the     *)
(* abandoned one was used up by a confirmed cancel.                        *)
AtMostOnePayable ==
  \A i, j \in rows \ cancels : i[1] = j[1] /\ i # j => Dead(i) \/ Dead(j)

(* What ClaimPayoutReady recorded is true: a consumed payout names exactly *)
(* one of its own payments, live, confirmed and deep on the chain.         *)
ConsumedIsPaid ==
  \A p \in Payouts : status[p] = "consumed" =>
    \E i \in confirmed \ (cancels \cup abandoned) :
      claimTx[p] = {i} /\ i[1] = p /\ IsFinal(i)

(* The same without the chain, which a deep reorganisation rewrites: the   *)
(* row a consumed payout names is still its live, confirmed payment,       *)
(* although the operator may try to abandon it and the poller reopens rows. *)
ClaimNamesPayment ==
  \A p \in Payouts : status[p] = "consumed" =>
    \E i \in confirmed \ (cancels \cup abandoned) : claimTx[p] = {i} /\ i[1] = p

(* The wallet is never stuck behind a nonce nobody will send: every nonce  *)
(* below one in use belongs to a live row, whose bytes a cycle can send,   *)
(* although the cursor is reset at every start.                            *)
NoNonceGaps ==
  \A i \in rows : \A n \in 0..(nonceOf[i] - 1) : NonceTaken(n)

(* No payment is allocated next to a cancel that is not confirmed, although *)
(* the cancels are read long before the transaction that allocates and the *)
(* operator can abandon a cancel in between.                               *)
CancelsBlockFresh ==
  [][\A i \in (rows' \ cancels') \ rows : LiveCancels(i[1]) \subseteq confirmed]_vars

(* The columns of payout_attempts only move forward: rows, nonces and      *)
(* abandon marks stay, a payment stays confirmed, and no row is ever both  *)
(* abandoned and confirmed although marking and abandoning race.           *)
RowsMoveForward ==
  [][/\ rows \subseteq rows' /\ abandoned \subseteq abandoned'
     /\ \A i \in rows : nonceOf'[i] = nonceOf[i]
     /\ confirmed \ cancels \subseteq confirmed'
     /\ confirmed' \cap abandoned' = {}]_vars

(* After RequestHalt no payment is put on its way: a broadcast that had    *)
(* passed the gate may still go out, no other starts.                      *)
HaltStopsPayments ==
  [][\A q \in Procs : halted[q] /\ pc'[q] \in {"send", "resend"} => pc'[q] = pc[q]]_vars

=============================================================================
