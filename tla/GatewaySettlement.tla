-------------------------- MODULE GatewaySettlement --------------------------
(***************************************************************************)
(* A buyer request's money in the gateway, from admission to its last      *)
(* record: the chat handler (reserve, lease, dispatch, settle or refund or *)
(* hold, and the journalled ladder after a committed stream), the journal  *)
(* recovery pass, the reconciler of held reservations, the reaper, and a   *)
(* gateway process that may die between any two of their steps.            *)
(***************************************************************************)
EXTENDS GatewayJournal

CONSTANTS
    Copies,        \* requests that arrive with the same request id
    MaxConflicts,  \* settlementJournalMaxConflictAttempts
    MaxCrashes     \* process deaths explored

ASSUME SettlementConstants ==
    /\ Copies \in Nat
    /\ MaxConflicts \in Nat \ {0} /\ MaxCrashes \in Nat

(* Requests being served, each by its own goroutine, and the request id it  *)
(* carries.                                                                 *)
Handlers == Req \X (1..Copies)
Id == [h \in Handlers |-> h[1]]

VARIABLES
    pc,        \* the next step of each handler
    job,       \* its locals: the usage to settle, armed, leased; and whether its
               \* ReserveQuota failed (history)
    fin,       \* the coordinator's settlement finality of each request
    rcv,       \* the recovery pass: records still to re-drive, step, current one
    tries,     \* conflict attempts per key, in memory only
    rcn,       \* held requests the reconcile pass has still to visit, to clamp
    owed,      \* requests whose effect has a line of its own in the journal (history)
    crashes

handlerVars == <<pc, job>>
passVars == <<rcv, tries, rcn>>
vars == <<storeVars, journalVars, handlerVars, fin, passVars, owed, crashes>>

NoJob == [use |-> NoUse, armed |-> FALSE, leased |-> FALSE, failed |-> FALSE]
Idle == [todo |-> {}, at |-> "idle", cur |-> Seal(CHOOSE r \in Req : TRUE)]

(* What the coordinator says of a request: nothing yet, or the header or    *)
(* trailer tuple (mode, outcome, receipt result, closed) it settled on.     *)
Observe == [mode |-> "observe", outcome |-> "none", receipt |-> "none", closed |-> FALSE]
Enforce(o, rr, c) == [mode |-> "enforce", outcome |-> o, receipt |-> rr, closed |-> c]
Pending == Enforce("pending", "none", FALSE)
Verified == Enforce("verified", "valid", TRUE)
ZeroSettled == Enforce("zero_settled", "valid", TRUE)
NoFinality == [mode |-> "none", outcome |-> "none", receipt |-> "none", closed |-> FALSE]

Init ==
    /\ StoreInit /\ JournalInit
    /\ pc = [h \in Handlers |-> "start"]
    /\ job = [h \in Handlers |-> NoJob]
    /\ fin = [r \in Req |-> NoFinality]
    /\ rcv = Idle /\ tries = [r \in Req |-> 0] /\ rcn = [todo |-> {}, clamp |-> {}]
    /\ owed = {} /\ crashes = 0

(* settlementRefundReceiptResultValid *)
RefundReceiptValid(f) ==
    \/ f.outcome \in {"zero_settled", "overlap_blocked_terminal"} /\ f.receipt = "valid"
    \/ f.outcome = "quarantined" /\ f.receipt \in {"invalid", "inconclusive"}

(* Mutant: a pending answer is taken for a refund. *)
FinalityActionEager(f) ==
    CASE f.mode \in {"none", "observe"} -> "legacy"
      [] f.mode = "enforce" /\ f.outcome = "verified" /\ f.receipt = "valid" /\ f.closed -> "debit"
      [] OTHER -> "refund"

(* coordinatorSettlementFinalityFromHeaders: what the gateway does with a   *)
(* tuple.  Anything it does not recognise is held, never charged.           *)
FinalityAction(f) ==
    CASE f.mode \in {"none", "observe"} -> "legacy"
      [] f.mode = "enforce" /\ f.outcome = "verified" /\ f.receipt = "valid" /\ f.closed -> "debit"
      [] f.mode = "enforce" /\ f.closed /\ RefundReceiptValid(f) -> "refund"
      [] OTHER -> "hold"

Goto(h, step) == pc' = [pc EXCEPT ![h] = step]
At(h, step) == pc[h] = step
Rest == UNCHANGED <<journalVars, fin, passVars, owed, crashes>>

(* handleChatCompletions up to ReserveQuota and what it does with the answer: *)
(* a duplicate id or an exhausted quota ends the request, an error unwinds a  *)
(* reservation that may have been committed.                                  *)
Admit(h) ==
    /\ At(h, "start")
    /\ \E out \in {"ok", "exists", "quota", "db"} :
         /\ ReserveQuota(Id[h], out)
         /\ Goto(h, CASE out = "ok" -> "lease" [] out = "db" -> "unwind" [] OTHER -> "done")
         /\ job' = [job EXCEPT ![h].failed = (out = "db")]
    /\ Rest

(* RefundReservation as the last store call of a request that owes nothing; *)
(* its error is ignored.  "unwind" is the defensive refund after a failed   *)
(* ReserveQuota, "refund" every other one.                                  *)
Unwind(h) ==
    /\ At(h, "unwind")
    /\ \E out \in {"ok", "notfound", "db"} : RefundReservation(Id[h], out)
    /\ Goto(h, "done")
    /\ UNCHANGED job /\ Rest

Refund(h) ==
    /\ At(h, "refund")
    /\ \E out \in {"ok", "notfound", "db"} : RefundReservation(Id[h], out)
    /\ Goto(h, IF job[h].leased THEN "release" ELSE "done")
    /\ UNCHANGED job /\ Rest

(* The concurrency lease; without one the reservation is given back. *)
Lease(h) ==
    /\ At(h, "lease")
    /\ \E out \in {"ok", "quota", "db"} :
         /\ AcquireConcurrency(Id[h], out)
         /\ Goto(h, IF out = "ok" THEN "call" ELSE "refund")
         /\ job' = [job EXCEPT ![h].leased = (out = "ok")]
    /\ Rest

(* doCoordinatorChatWithRetry and the status switches of                    *)
(* forwardNonStreamingChat: an unreachable coordinator and a rejected       *)
(* request are refunded, a 5xx without a charge is audited first, a whole   *)
(* response settles by its finality headers, a stream is committed.         *)
Dispatch(h) ==
    LET r == Id[h]
        settle(f) == CASE FinalityAction(f) = "legacy" -> "settleNow"
                       [] FinalityAction(f) = "refund" -> "refund"
                       [] OTHER -> "hold"
    IN  /\ At(h, "call")
        /\ UNCHANGED <<storeVars, journalVars, passVars, owed, crashes>>
        /\ \/ \E step \in {"refund", "audit"} : Goto(h, step) /\ UNCHANGED <<job, fin>>
           \/ \E f \in {Observe, Pending, Verified, ZeroSettled}, n \in {0, Ask} :
                /\ fin' = [fin EXCEPT ![r] = f]
                /\ job' = [job EXCEPT ![h].use = [tok |-> n, src |-> "gateway"]]
                /\ Goto(h, settle(f))
           \/ \E f \in {Observe, Pending} :
                fin' = [fin EXCEPT ![r] = f] /\ Goto(h, "stream") /\ UNCHANGED job

(* recordRefundedCoordinatorAudit: a zero-token usage row, then the refund. *)
Audit(h) ==
    /\ At(h, "audit")
    /\ \E out \in {"ok", "conflict", "db"} : EnsureUsageEvent(Id[h], [tok |-> 0, src |-> "audit"], out)
    /\ Goto(h, "refund")
    /\ UNCHANGED job /\ Rest

(* settleBeforeResponse: charge before the buyer sees anything; a failure   *)
(* is a 500 and a refund.                                                   *)
SettleNow(h) ==
    /\ At(h, "settleNow")
    /\ \E out \in {"ok", "notfound", "terminal", "key", "db"} :
         /\ SettleReservation(Id[h], Id[h] \in Demo, job[h].use, out)
         /\ Goto(h, IF out = "ok" THEN "release" ELSE "refund")
    /\ UNCHANGED job /\ Rest

(* forwardStreamingChat after the 200 is on the wire: how the stream ends   *)
(* decides between the journalled ladder, a refund and a hold.  A trailer   *)
(* that was declared and never came is charged as unverified; a buyer that  *)
(* left, or a provider that stalled, leaves an enforced request on hold.    *)
StreamEnds(h) ==
    LET f == fin[Id[h]]
        byTrailer == CASE FinalityAction(f) = "legacy" -> "arm"
                       [] FinalityAction(f) = "debit" -> "mark"
                       [] FinalityAction(f) = "refund" -> "refund"
                       [] OTHER -> "hold"
    IN  /\ At(h, "stream")
        /\ \E n \in {1, Ask} : job' = [job EXCEPT ![h].use = [tok |-> n, src |-> "gateway"]]
        /\ \E how \in {"complete", "trailerMissing", "stopped", "terminalError"} :
             Goto(h, CASE how = "complete" -> byTrailer
                       [] how = "trailerMissing" -> "arm"
                       [] how = "stopped" -> (IF f.mode = "enforce" THEN "hold" ELSE "arm")
                       [] OTHER -> "refund")
        /\ UNCHANGED storeVars /\ Rest

(* markStreamingSettlementHoldForReconciliation *)
MarkHold(h) ==
    /\ At(h, "mark")
    /\ \E out \in {"ok", "gone", "db"} :
         /\ MarkReservationSettlementHold(Id[h], out)
         /\ Goto(h, IF out = "db" THEN "refund" ELSE "release")
    /\ UNCHANGED job /\ Rest

(* boundStreamingSettlementHold, two transactions: the hold, then the clamp. *)
Hold(h) ==
    /\ At(h, "hold")
    /\ \E out \in {"ok", "gone", "db"} :
         /\ MarkReservationSettlementHold(Id[h], out)
         /\ Goto(h, IF out = "db" THEN "release" ELSE "clamp")
    /\ UNCHANGED job /\ Rest

Clamp(h) ==
    /\ At(h, "clamp")
    /\ \E out \in {"ok", "gone", "db"} : ClampReservationExpiry(Id[h], out)
    /\ Goto(h, "release")
    /\ UNCHANGED job /\ Rest

----------------------------------------------------------------------------
(* settleAfterCommit, rung by rung.  Arm writes the effect record; a failed *)
(* write does not stop the settlement.                                      *)
Arm(h) ==
    /\ At(h, "arm")
    /\ \E ok \in BOOLEAN :
         /\ AppendRecord(Effect(Id[h], job[h].use), ok)
         /\ job' = [job EXCEPT ![h].armed = ok]
         /\ owed' = IF ok /\ ~Swallowed THEN owed \union {Id[h]} ELSE owed
    /\ Goto(h, "settle")
    /\ UNCHANGED <<res, lease, usage, demo, fin, passVars, crashes>>

Settle(h) ==
    /\ At(h, "settle")
    /\ \E out \in {"ok", "notfound", "terminal", "key", "db"} :
         /\ SettleReservation(Id[h], Id[h] \in Demo, job[h].use, out)
         /\ Goto(h, IF out = "ok" THEN "seal" ELSE "ensure")
    /\ UNCHANGED job /\ Rest

(* Mutant: sealing before the hold is released. *)
EnsureThenSeal(h) ==
    /\ At(h, "ensure")
    /\ \E out \in {"ok", "conflict", "db"} :
         /\ EnsureUsageEvent(Id[h], job[h].use, out)
         /\ Goto(h, IF out = "ok" THEN "seal" ELSE "refund")
    /\ UNCHANGED job /\ Rest

Ensure(h) ==
    /\ At(h, "ensure")
    /\ \E out \in {"ok", "conflict", "db"} :
         /\ EnsureUsageEvent(Id[h], job[h].use, out)
         /\ Goto(h, IF out = "ok" THEN "demo" ELSE "refund")
    /\ UNCHANGED job /\ Rest

EnsureDemo(h) ==
    /\ At(h, "demo")
    /\ EnsureDemoUsageEvent(Id[h])
    /\ Goto(h, "drop")
    /\ UNCHANGED job /\ Rest

(* The refund that releases a hold the usage row replaced; sealing waits on it. *)
DropHold(h) ==
    /\ At(h, "drop")
    /\ \E out \in {"ok", "notfound", "db"} :
         /\ RefundReservation(Id[h], out)
         /\ Goto(h, IF out = "db" THEN "release" ELSE "seal")
    /\ UNCHANGED job /\ Rest

(* sealSettlementEffect, when the effect was armed; a failed seal is logged. *)
SealEffect(h) ==
    /\ At(h, "seal")
    /\ Goto(h, "release")
    /\ \/ ~job[h].armed /\ UNCHANGED <<journalVars, faults>>
       \/ job[h].armed /\ \E ok \in BOOLEAN : AppendRecord(Seal(Id[h]), ok)
    /\ UNCHANGED <<res, lease, usage, demo, job, fin, passVars, owed, crashes>>

(* The deferred ReleaseConcurrency. *)
Release(h) ==
    /\ At(h, "release")
    /\ ReleaseConcurrency(Id[h])
    /\ Goto(h, "done")
    /\ UNCHANGED job /\ Rest

Handler(h) ==
    \/ Admit(h) \/ Unwind(h) \/ Refund(h) \/ Lease(h) \/ Dispatch(h) \/ Audit(h)
    \/ SettleNow(h) \/ StreamEnds(h) \/ MarkHold(h) \/ Hold(h) \/ Clamp(h)
    \/ Arm(h) \/ Settle(h) \/ Ensure(h) \/ EnsureDemo(h) \/ DropHold(h)
    \/ SealEffect(h) \/ Release(h)

----------------------------------------------------------------------------
(* RecoverSettlementJournal.  A pass scans once and re-drives the unsealed  *)
(* effects it found; those younger than the grace wait for the next pass.   *)
PassRest == UNCHANGED <<handlerVars, fin, rcn, owed, crashes>>
StoreOnly == UNCHANGED <<journalVars>> /\ PassRest
Then(step) == rcv' = [rcv EXCEPT !.at = step]

Scan ==
    /\ rcv.at = "idle"
    /\ \E old \in SUBSET Unsealed : rcv' = [Idle EXCEPT !.todo = old, !.at = "pick"]
    /\ UNCHANGED <<storeVars, tries>> /\ StoreOnly

Pick ==
    /\ rcv.at = "pick"
    /\ \/ \E e \in rcv.todo : rcv' = [todo |-> rcv.todo \ {e}, at |-> "settle", cur |-> e]
       \/ rcv.todo = {} /\ Then("prune")
    /\ UNCHANGED <<storeVars, tries>> /\ StoreOnly

(* redriveSettlementEffect: settle, else the usage row, the demo row and    *)
(* the refund, and only then the seal.                                      *)
RedriveSettle ==
    /\ rcv.at = "settle"
    /\ \E out \in {"ok", "notfound", "terminal", "key", "db"} :
         /\ SettleReservation(rcv.cur.key, rcv.cur.key \in Demo, rcv.cur.use, out)
         /\ Then(IF out = "ok" THEN "seal" ELSE "ensure")
    /\ UNCHANGED tries /\ StoreOnly

RedriveEnsure ==
    /\ rcv.at = "ensure"
    /\ \E out \in {"ok", "conflict", "db"} :
         /\ EnsureUsageEvent(rcv.cur.key, rcv.cur.use, out)
         /\ Then(CASE out = "ok" -> "demo" [] out = "conflict" -> "conflict" [] OTHER -> "pick")
    /\ UNCHANGED tries /\ StoreOnly

RedriveDemo ==
    /\ rcv.at = "demo"
    /\ EnsureDemoUsageEvent(rcv.cur.key)
    /\ Then("drop")
    /\ UNCHANGED tries /\ StoreOnly

RedriveDrop ==
    /\ rcv.at = "drop"
    /\ \E out \in {"ok", "notfound", "db"} :
         /\ RefundReservation(rcv.cur.key, out)
         /\ Then(IF out = "db" THEN "pick" ELSE "seal")
    /\ UNCHANGED tries /\ StoreOnly

(* Another usage row holds the key: the reservation is released, and after  *)
(* MaxConflicts passes the effect is quarantined.                           *)
RedriveConflict ==
    LET k == rcv.cur.key
    IN  /\ rcv.at = "conflict"
        /\ \E out \in {"ok", "notfound", "db"} :
             /\ RefundReservation(k, out)
             /\ IF out = "db"
                THEN Then("pick") /\ UNCHANGED tries
                ELSE /\ tries' = [tries EXCEPT ![k] = @ + 1]
                     /\ Then(IF tries[k] + 1 < MaxConflicts THEN "pick" ELSE "quarantine")
        /\ StoreOnly

(* sealSettlementEffect and quarantineSettlementEffect: a record that could *)
(* not be written is logged and met again by the next pass.                 *)
RedriveSeal ==
    /\ rcv.at \in {"seal", "quarantine"}
    /\ \E ok \in BOOLEAN :
         AppendRecord(IF rcv.at = "seal" THEN Seal(rcv.cur.key) ELSE Quarantine(rcv.cur.key), ok)
    /\ tries' = [tries EXCEPT ![rcv.cur.key] = 0]
    /\ Then("pick")
    /\ UNCHANGED <<res, lease, usage, demo>> /\ PassRest

(* The pass ends with Prune. *)
PruneSegments ==
    /\ rcv.at = "prune"
    /\ segs' = PrunedSegs
    /\ rcv' = Idle
    /\ UNCHANGED <<storeVars, open, torn, tries>> /\ PassRest

Recovery ==
    \/ Scan \/ Pick \/ RedriveSettle \/ RedriveEnsure \/ RedriveDemo \/ RedriveDrop
    \/ RedriveConflict \/ RedriveSeal \/ PruneSegments

----------------------------------------------------------------------------
(* ReconcileSettlementHolds: a list of held reservations, then one visit    *)
(* each.                                                                    *)
ReconcileRest == UNCHANGED <<journalVars, handlerVars, fin, rcv, tries, owed, crashes>>

ListHeld ==
    /\ rcn.todo = {} /\ rcn.clamp = {}
    /\ SettlementHeld # {}
    /\ rcn' = [rcn EXCEPT !.todo = SettlementHeld]
    /\ UNCHANGED storeVars /\ ReconcileRest

(* reconcileSettlementReservation, fetchCoordinatorRequestSettlementFinality: *)
(* a coordinator that has no record and one that cannot be reached look the   *)
(* same, and past its expiry such a row is given up as stale_held.  A debit   *)
(* writes no demo row.                                                        *)
CoordinatorCharge == [tok |-> Ask, src |-> "coordinator"]

Visit(r) ==
    LET act == FinalityAction(fin[r])
    IN  /\ r \in rcn.todo /\ rcn.clamp = {}
        /\ \/ /\ \/ fin[r] = NoFinality /\ \E out \in {"ok", "notfound", "db"} :
                      IF res[r].due THEN MarkReservationStaleHeld(r, out) ELSE UNCHANGED storeVars
                 \/ /\ faults > 0
                    /\ IF res[r].due /\ Active(r) /\ res[r].hold
                       THEN res' = [res EXCEPT ![r].st = "stale_held"] ELSE UNCHANGED res
                    /\ faults' = faults - 1 /\ UNCHANGED <<lease, usage, demo>>
                 \/ fin[r] # NoFinality /\ act = "legacy" /\ UNCHANGED storeVars
                 \/ act = "debit" /\ \E out \in {"ok", "notfound", "terminal", "key", "db"} :
                      SettleReservation(r, FALSE, CoordinatorCharge, out)
                 \/ act = "refund" /\ \E out \in {"ok", "notfound", "db"} : RefundReservation(r, out)
              /\ rcn' = [rcn EXCEPT !.todo = @ \ {r}]
           \/ act = "hold" /\ \E out \in {"ok", "gone", "db"} :
                /\ MarkReservationSettlementHold(r, out)
                /\ rcn' = [todo |-> rcn.todo \ {r}, clamp |-> IF out = "db" THEN {} ELSE {r}]
        /\ ReconcileRest

ReconcileClamp(r) ==
    /\ r \in rcn.clamp
    /\ \E out \in {"ok", "gone", "db"} : ClampReservationExpiry(r, out)
    /\ rcn' = [rcn EXCEPT !.clamp = {}]
    /\ ReconcileRest

Reconcile == ListHeld \/ \E r \in Req : Visit(r) \/ ReconcileClamp(r)

----------------------------------------------------------------------------
(* The coordinator closes a pending settlement, one way or another. *)
CoordinatorCloses(r) ==
    /\ fin[r] = Pending
    /\ \E f \in {Verified, ZeroSettled, Enforce("quarantined", "inconclusive", TRUE)} :
         fin' = [fin EXCEPT ![r] = f]
    /\ UNCHANGED <<storeVars, journalVars, handlerVars, passVars, owed, crashes>>

InFlight(r) == \E h \in Handlers : Id[h] = r /\ pc[h] \notin {"start", "done", "dead"}
StoreStep == UNCHANGED <<journalVars, handlerVars, fin, passVars, owed, crashes>>

(* The reaper's two statements and the passage of time behind them.  A      *)
(* request is over long before its reservation's expiry, and the retention  *)
(* of closed rows is far longer than a recovery pass takes to come around,  *)
(* and than a record stays in the page cache.                                 *)
Reap == ReapExpiredReservations /\ StoreStep
Forget(r) ==
    /\ ~InFlight(r) /\ r \notin UnsealedKeys
    /\ \A i \in DOMAIN segs : \A j \in (segs[i].synced + 1)..Len(segs[i].recs) : segs[i].recs[j].key # r
    /\ DeleteTerminalQuotaReservations(r) /\ StoreStep
TimePasses(r) == ~InFlight(r) /\ (ReservationDue(r) \/ LeaseDue(r)) /\ StoreStep
SegmentAges ==
    /\ \E i \in DOMAIN segs : Age(i)
    /\ UNCHANGED <<storeVars, open, torn, handlerVars, fin, passVars, owed, crashes>>

(* A request whose effect is still unsettled is billed by hand. *)
Correct(r) ==
    /\ r \in UnsealedKeys
    /\ InsertUsageEvent(r, [tok |-> 0, src |-> "audit"])
    /\ StoreStep

(* The process dies: its handlers and passes are gone, and with the power   *)
(* go the records that were not yet on disk.                                *)
Crash ==
    /\ crashes < MaxCrashes
    /\ crashes' = crashes + 1
    /\ pc' = [h \in Handlers |-> IF pc[h] \in {"start", "done"} THEN pc[h] ELSE "dead"]
    /\ rcv' = Idle /\ tries' = [r \in Req |-> 0] /\ rcn' = [todo |-> {}, clamp |-> {}]
    /\ open' = FALSE /\ torn' = FALSE
    /\ \/ UNCHANGED segs
       \/ \E left \in [DOMAIN segs -> 0..SegmentMax] :
            (\A i \in DOMAIN segs : Survives(i, left[i])) /\ segs' = CutTo(left)
    /\ UNCHANGED <<storeVars, job, fin, owed>>

Next ==
    \/ \E h \in Handlers : Handler(h)
    \/ Recovery \/ Reconcile
    \/ \E r \in Req : CoordinatorCloses(r) \/ Forget(r) \/ TimePasses(r) \/ Correct(r)
    \/ Reap \/ SegmentAges \/ Crash

Spec == Init /\ [][Next]_vars

----------------------------------------------------------------------------
(* The steps of a handler that has a lease, of one that has a reservation,  *)
(* and of one whose effect may be in the journal.                           *)
LeasedPCs == {"call", "audit", "settleNow", "stream", "mark", "hold", "clamp",
              "arm", "settle", "ensure", "demo", "drop", "seal", "release"}
AdmittedPCs == LeasedPCs \union {"lease", "refund"}
ArmedPCs == {"settle", "ensure", "demo", "drop", "seal"}
OverPCs == {"start", "unwind", "done", "dead"}
RedrivePCs == {"settle", "ensure", "demo", "drop", "conflict", "seal", "quarantine"}

Jobs == [use : Uses \union {NoUse}, armed : BOOLEAN, leased : BOOLEAN, failed : BOOLEAN]
Finalities ==
    [mode : {"none", "observe", "enforce"}, closed : BOOLEAN,
     outcome : {"none", "pending", "verified", "zero_settled", "quarantined"},
     receipt : {"none", "valid", "inconclusive"}]

(* The rows, the records and the locals of the handlers and passes have     *)
(* their types, and no segment has more on disk than was written to it.     *)
TypeOK ==
    /\ res \in [Req -> Rows \union {NoRow}]
    /\ lease \in [Req -> {"none", "active", "due", "expired", "released"}]
    /\ usage \in [Req -> Uses \union {NoUse}]
    /\ demo \subseteq Req /\ owed \subseteq Req
    /\ segs \in Seq([recs : Seq(Records), synced : Nat, old : BOOLEAN])
    /\ \A i \in DOMAIN segs : segs[i].synced <= Len(segs[i].recs) /\ Len(segs[i].recs) <= SegmentMax
    /\ open \in BOOLEAN /\ torn \in BOOLEAN /\ (open => segs # << >>)
    /\ pc \in [Handlers -> AdmittedPCs \union OverPCs]
    /\ job \in [Handlers -> Jobs]
    /\ fin \in [Req -> Finalities]
    /\ rcv \in [todo : SUBSET Records, at : RedrivePCs \union {"idle", "pick", "prune"}, cur : Records]
    /\ rcn \in [todo : SUBSET Req, clamp : SUBSET Req]

(* A response the buyer has received and whose effect has a line of its own *)
(* in the journal is billed, or its effect is still there for a later pass  *)
(* or an operator: across failed and short writes, a dead process, lost     *)
(* seals and pruned segments.  WriteEffect promises this of every effect it *)
(* accepts; the one that follows a fragment is the exception.               *)
NoLostBill == \A r \in owed : usage[r] # NoUse \/ r \in UnsealedKeys \union QuarantinedKeys

(* A seal says what it means: the usage row is there and is the one the     *)
(* sealed effect asked for, not another's.                                  *)
SealedIsBilled ==
    \A k \in SealedKeys : usage[k] # NoUse /\ (k \in EffectKeys => usage[k] = FirstEffect(k).use)

(* No effect is sealed while its request still holds quota: the seal is the *)
(* last rung, after the refund that releases the reservation.               *)
SealAfterRelease ==
    [][\A k \in Req : k \in SealedKeys' \ SealedKeys => res'[k].st # "active"]_vars

(* A held reservation is charged only once the coordinator has closed its   *)
(* settlement, and refunded only then, or by the defensive refund of another *)
(* request with the same id whose ReserveQuota failed.                      *)
HoldDecidedByCoordinator ==
    \A r \in Req : res[r].hold =>
        /\ res[r].st = "settled" => fin[r].closed
        /\ res[r].st = "refunded" => fin[r].closed \/ \E h \in Handlers : Id[h] = r /\ job[h].failed

----------------------------------------------------------------------------
(* The inductive invariant behind these.  A handler past its lease has one, *)
(* and bills under its own key; of the handlers with one id, one at most    *)
(* has a reservation.                                                       *)
Alone(h) ==
    \A g \in Handlers : Id[g] = Id[h] /\ pc[g] \in AdmittedPCs /\ pc[h] \in AdmittedPCs => g = h
HandlerOK(h) ==
    /\ pc[h] \in LeasedPCs => job[h].leased
    /\ pc[h] = "start" => job[h] = NoJob
    /\ pc[h] = "lease" => ~job[h].leased
    /\ job[h].leased => lease[Id[h]] # "none"
    /\ pc[h] = "unwind" => job[h].failed
    /\ pc[h] \in AdmittedPCs => res[Id[h]].st # "none"
    /\ pc[h] \in ArmedPCs \union {"arm", "settleNow"} => job[h].use \in Uses
    /\ pc[h] \in {"demo", "drop", "seal"} => usage[Id[h]] = job[h].use
    /\ pc[h] = "seal" => res[Id[h]].st # "active"

(* A record belongs to a request that was leased and will not write another *)
(* effect; effects of one key agree, with the bill of the handler that is   *)
(* still at it and with the usage row that a seal stands for.               *)
RecordOK(e) ==
    /\ lease[e.key] # "none"
    /\ \A h \in Handlers : Id[h] = e.key =>
         /\ pc[h] \in OverPCs \union ArmedPCs \union {"lease", "refund", "release"}
         /\ e.kind = "effect" /\ pc[h] \in ArmedPCs => job[h].use = e.use
    /\ e.kind = "effect" => e.use \in Uses
    /\ e.kind = "seal" => usage[e.key] # NoUse
    /\ \A f \in Journal : f.key = e.key /\ f.kind = "effect" =>
         /\ e.kind = "effect" => f = e
         /\ e.kind = "seal" => usage[e.key] = f.use

(* The recovery pass works on effects of the journal. *)
RecoveryOK ==
    /\ \A e \in rcv.todo : e \in Journal /\ e.kind = "effect"
    /\ rcv.at \in RedrivePCs => rcv.cur \in Journal /\ rcv.cur.kind = "effect"
    /\ rcv.at \in {"demo", "drop", "seal"} => usage[rcv.cur.key] = rcv.cur.use

(* What is owed and not billed is on disk. *)
OwedOK == \A r \in owed : usage[r] # NoUse \/ \E e \in Durable : e.kind = "effect" /\ e.key = r

(* A hold and an effect exclude each other: once a request is on the        *)
(* reconciler's side, no handler and no journal record of its can settle or *)
(* refund it, except where the hold is decided already.                     *)
Decided(r) == fin[r].closed \/ \E h \in Handlers : Id[h] = r /\ job[h].failed
Listed(r) == r \in rcn.todo \union rcn.clamp
HeldOK(r) ==
    /\ res[r].hold => res[r].st \in {"active", "settled", "refunded", "stale_held"}
    /\ res[r].hold \/ Listed(r) =>
         /\ lease[r] # "none" /\ \A e \in Journal : e.key # r
         /\ \A h \in Handlers : Id[h] = r =>
              /\ pc[h] \in OverPCs \union {"lease", "refund", "clamp", "release"}
              /\ pc[h] \in {"lease", "refund"} => Decided(r)
    /\ Listed(r) /\ ~res[r].hold => Decided(r)

(* Request ids are used once: no reservation appears under a recorded key.  *)
ReleasedOK ==
    /\ \A h \in Handlers : lease[Id[h]] # "none" => pc[h] \notin {"start", "lease"}
    /\ rcv.at = "seal" => ~Active(rcv.cur.key)

(* The types and the facts above, for every handler, record and request.    *)
SettlementInv ==
    /\ TypeOK /\ RecoveryOK /\ OwedOK /\ HoldDecidedByCoordinator
    /\ \A h \in Handlers : HandlerOK(h) /\ Alone(h)
    /\ \A e \in Journal : RecordOK(e)
    /\ \A r \in Req : HeldOK(r)
    /\ Copies = 1 => ReleasedOK
=============================================================================
