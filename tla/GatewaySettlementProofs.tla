----------------------- MODULE GatewaySettlementProofs -----------------------
(***************************************************************************)
(* The bills and the holds of GatewaySettlement, for any requests, copies, *)
(* sizes and numbers of faults and crashes: the steps of the recovery pass, *)
(* of the reconciler and of the outside, and the theorems.                 *)
(***************************************************************************)
EXTENDS GatewayHandlerProofs

USE SMTT(30), ZenonT(30)

(* What is durable has been written. *)
LEMMA DurableIsWritten ==
  ASSUME JournalOK
  PROVE  Durable \subseteq Journal
<1>1. Good(segs)
  BY DEF JournalOK
<1>2. Safe(segs) \subseteq In(segs)
  BY ZenonT(30), <1>1, InAt
<1> QED BY <1>2 DEF Journal, In, Durable, Safe

(* A step of a pass, of the reaper or of the clock: the handlers stand still. *)
Stands(new) ==
    /\ UNCHANGED <<pc, job, owed>>
    /\ StoreOK' /\ StoreGrow /\ JournalOK' /\ KeepsEffects /\ Journal' \subseteq Journal \union new
    /\ \A q \in Req : /\ res'[q].st = "active" => res[q].st = "active"
                      /\ lease[q] = "none" => lease'[q] = "none"

(* A step of a pass keeps the invariant when it keeps the part of the pass. *)
LEMMA PassStep ==
  ASSUME SettlementInv, NEW new, Stands(new), LocalsOK', RecoveryOK',
         \A f \in new : f.kind # "effect" /\ RecordOK(f)',
         \A q \in Req : HeldOK(q)' /\ DecidedOK(q)',
         Copies = 1 /\ rcv'.at = "seal" => res'[rcv'.cur.key].st # "active"
  PROVE  SettlementInv'
<1>1. \A g \in Handlers : Same(g)
  BY DEF Stands, Same
<1>2. \A g \in Handlers : HandlerOK(g)' /\ Alone(g)'
  BY <1>1, HandlerFrame, AloneFrame DEF Stands
<1>3. ASSUME NEW e \in Journal' PROVE RecordOK(e)'
  <2>1. CASE e \in new
    BY <2>1
  <2>2. CASE e \in Journal
    <3>1. (\A f \in new : f.kind = "effect" => f.key # e.key) /\ \A g \in Handlers : Id[g] = e.key => Follows(g)
      BY <1>1 DEF Follows
    <3> QED BY ZenonT(30), <2>2, <3>1, RecordFrame DEF Stands
  <2> QED BY <2>1, <2>2 DEF Stands
<1>4. OwedOK'
  BY OwedFrame DEF Stands
<1>5. ASSUME Copies = 1 PROVE ReleasedOK'
  <2>1. ReleasedOK /\ Id' = Id /\ Handlers' = Handlers
    BY <1>5 DEF SettlementInv, Id, Handlers
  <2> QED BY ZenonT(30), <1>5, <2>1, IdIs DEF ReleasedOK, Stands, Active
<1> QED BY ZenonT(30), <1>2, <1>3, <1>4, <1>5, Parts DEF Stands

(* The hold of a request that a pass does not touch. *)
LEMMA HeldRest ==
  ASSUME SettlementInv, NEW new, Stands(new), NEW q \in Req, HoldSame(q),
         fin[q].closed => fin'[q].closed, Listed(q)' => Held(q), \A f \in new : f.key # q \/ ~Held(q)
  PROVE  HeldOK(q)' /\ DecidedOK(q)'
<1>1. KeepsDecision(q) /\ \A g \in Handlers : Id[g] = q => Waits(g)
  BY DEF Stands, KeepsDecision, Waits
<1>2. Held(q) => \A f \in new : f.key # q
  OBVIOUS
<1> QED BY ZenonT(30), <1>1, <1>2, HeldFrame DEF Stands

(* A recorded request is not on hold. *)
LEMMA RecordedIsFree ==
  ASSUME SettlementInv, NEW e \in Journal
  PROVE  ~Held(e.key) /\ e.key \in Req
  BY ZenonT(30), InvFacts DEF HeldOK, Held

(* The effect the recovery pass works on. *)
LEMMA CurIs ==
  ASSUME SettlementInv, rcv.at \in RedrivePCs
  PROVE  /\ rcv.cur \in Journal /\ rcv.cur.kind = "effect" /\ rcv.cur.key \in Req /\ rcv.cur.use \in Uses
         /\ ~Held(rcv.cur.key) /\ ~res[rcv.cur.key].hold /\ RecordOK(rcv.cur) /\ StoreOK /\ rcv.cur \in Records
<1>1. rcv.cur \in Journal /\ rcv.cur.kind = "effect"
  BY DEF SettlementInv, RecoveryOK
<1>2. ~Held(rcv.cur.key) /\ rcv.cur.key \in Req
  BY ZenonT(30), <1>1, RecordedIsFree
<1> QED BY ZenonT(30), <1>1, <1>2, InvFacts DEF RecordOK, Held

(* A store transaction of the recovery pass on its current effect. *)
LEMMA RedriveStep ==
  ASSUME SettlementInv, rcv.at \in RedrivePCs, Closes(rcv.cur.key), StoreOnly,
         UNCHANGED lease, NEW step \in RedrivePCs \union {"pick"}, Then(step), HoldSame(rcv.cur.key),
         step \in {"demo", "drop", "seal"} => usage'[rcv.cur.key] = rcv.cur.use,
         step = "seal" => res'[rcv.cur.key].st # "active"
  PROVE  SettlementInv'
<1> DEFINE k == rcv.cur.key
<1>1. rcv.cur \in Journal /\ rcv.cur.kind = "effect" /\ k \in Req
  BY CurIs
<1>2. StoreOK /\ JournalOK /\ LocalsOK
  BY InvFacts
<1>3. UNCHANGED <<segs, open, torn, pc, job, fin, rcn, owed>>
  BY DEF StoreOnly, PassRest, journalVars, handlerVars
<1>4. JournalOK' /\ KeepsEffects /\ Journal' = Journal
  BY <1>2, <1>3 DEF JournalOK, Good, KeepsEffects, Durable, Journal
<1>5. rcv'.at = step /\ rcv'.cur = rcv.cur /\ rcv'.todo = rcv.todo
      /\ rcv' \in [todo : SUBSET Records, at : RedrivePCs \union {"idle", "pick", "prune"}, cur : Records]
  BY <1>2 DEF Then, LocalsOK
<1>6. LocalsOK'
  BY ZenonT(30), <1>2, <1>3, <1>5 DEF LocalsOK, Handlers
<1>7. RecoveryOK'
  BY ZenonT(30), <1>1, <1>4, <1>5 DEF RecoveryOK, SettlementInv, RedrivePCs
<1>8. Stands({})
  BY ZenonT(30), <1>3, <1>4 DEF Stands, Closes
<1>9. ASSUME NEW q \in Req PROVE HeldOK(q)' /\ DecidedOK(q)'
  <2>1. HoldSame(q) /\ (fin[q].closed => fin'[q].closed) /\ (Listed(q)' => Held(q))
    BY <1>3 DEF Closes, OtherHoldsSame, Listed, Held
  <2> QED BY <1>8, <2>1, HeldRest
<1> QED BY ZenonT(30), <1>5, <1>6, <1>7, <1>8, <1>9, PassStep

(* The transactions of the recovery pass. *)
LEMMA RedriveKeeps ==
  ASSUME SettlementInv, RedriveSettle \/ RedriveEnsure \/ RedriveDemo \/ RedriveDrop \/ RedriveConflict
  PROVE  SettlementInv'
<1> DEFINE k == rcv.cur.key
<1>0. rcv.at \in RedrivePCs /\ StoreOnly
  BY DEF RedriveSettle, RedriveEnsure, RedriveDemo, RedriveDrop, RedriveConflict, RedrivePCs
<1>1. k \in Req /\ rcv.cur.use \in Uses /\ ~res[k].hold /\ StoreOK
  BY ZenonT(30), <1>0, CurIs
<1>2. CASE RedriveSettle
  <2>1. PICK out : SettleReservation(k, k \in Demo, rcv.cur.use, out) /\ Then(IF out = "ok" THEN "seal" ELSE "ensure")
    BY ZenonT(30), <1>2 DEF RedriveSettle
  <2>2. /\ Closes(k) /\ UNCHANGED lease /\ HoldSame(k)
        /\ out = "ok" => usage'[k] = rcv.cur.use /\ res'[k].st = "settled"
    BY <1>1, <2>1, SettleStep
  <2>3. PICK step \in {"seal", "ensure"} : Then(step) /\ (step = "seal" => out = "ok")
    BY <2>1
  <2>4. step \in RedrivePCs
    BY DEF RedrivePCs
  <2> QED BY ZenonT(30), <1>0, <2>2, <2>3, <2>4, RedriveStep
<1>3. CASE RedriveEnsure
  <2>1. PICK out : /\ EnsureUsageEvent(k, rcv.cur.use, out)
                   /\ Then(CASE out = "ok" -> "demo" [] out = "conflict" -> "conflict" [] OTHER -> "pick")
    BY <1>3 DEF RedriveEnsure
  <2>2. /\ Closes(k) /\ UNCHANGED lease /\ HoldSame(k)
        /\ out = "ok" => usage'[k] = rcv.cur.use
    BY ZenonT(30), <1>1, <2>1, EnsureStep
  <2>3. PICK step \in {"demo", "conflict", "pick"} : Then(step) /\ (step = "demo" => out = "ok")
    BY <2>1
  <2>4. step \in RedrivePCs \union {"pick"}
    BY DEF RedrivePCs
  <2> QED BY ZenonT(30), <1>0, <2>2, <2>3, <2>4, RedriveStep
<1>4. CASE RedriveDemo
  <2>1. EnsureDemoUsageEvent(k) /\ Then("drop") /\ rcv.at = "demo"
    BY <1>4 DEF RedriveDemo
  <2>2. Closes(k) /\ UNCHANGED <<lease, usage>> /\ HoldSame(k)
    BY ZenonT(30), <1>1, <2>1, EnsureStep
  <2>3. usage[k] = rcv.cur.use /\ "drop" \in RedrivePCs
    BY <2>1 DEF SettlementInv, RecoveryOK, RedrivePCs
  <2> QED BY ZenonT(30), <1>0, <2>1, <2>2, <2>3, RedriveStep
<1>5. CASE RedriveDrop
  <2>1. PICK out : RefundReservation(k, out) /\ Then(IF out = "db" THEN "pick" ELSE "seal")
    BY <1>5 DEF RedriveDrop
  <2>2. /\ Closes(k) /\ UNCHANGED <<lease, usage>> /\ HoldSame(k)
        /\ out # "db" => res'[k].st # "active"
    BY ZenonT(30), <1>1, <2>1, CloseStep
  <2>3. PICK step \in {"seal", "pick"} : Then(step) /\ (step = "seal" => out # "db")
    BY ZenonT(30), <2>1
  <2>4. step \in RedrivePCs \union {"pick"} /\ usage[k] = rcv.cur.use
    BY ZenonT(30), <1>5 DEF RedrivePCs, SettlementInv, RecoveryOK, RedriveDrop
  <2> QED BY ZenonT(30), <1>0, <2>2, <2>3, <2>4, RedriveStep
<1>6. CASE RedriveConflict
  <2>1. PICK out : /\ RefundReservation(k, out)
                   /\ IF out = "db" THEN Then("pick")
                      ELSE Then(IF tries[k] + 1 < MaxConflicts THEN "pick" ELSE "quarantine")
    BY ZenonT(30), <1>6 DEF RedriveConflict
  <2>2. Closes(k) /\ UNCHANGED <<lease, usage>> /\ HoldSame(k)
    BY ZenonT(30), <1>1, <2>1, CloseStep
  <2>3. PICK step \in {"pick", "quarantine"} : Then(step)
    BY <2>1
  <2>4. step \in RedrivePCs \union {"pick"}
    BY DEF RedrivePCs
  <2> QED BY ZenonT(30), <1>0, <2>2, <2>3, <2>4, RedriveStep
<1> QED BY ZenonT(30), <1>2, <1>3, <1>4, <1>5, <1>6

Passes == [todo : SUBSET Records, at : RedrivePCs \union {"idle", "pick", "prune"}, cur : Records]
NewOK(new) == \A f \in new : f.kind # "effect" /\ ~Held(f.key) /\ RecordOK(f)'

(* The steps of the pass that leave the store alone. *)
LEMMA PassOnly ==
  ASSUME SettlementInv, NEW new, UNCHANGED <<res, lease, usage, demo>>, PassRest,
         JournalOK', KeepsEffects, Journal' \subseteq Journal \union new, RecoveryOK',
         NewOK(new),
         rcv' \in Passes,
         rcv'.at # "seal"
  PROVE  SettlementInv'
<1>1. StoreOK /\ LocalsOK
  BY InvFacts
<1>2. StoreOK' /\ StoreGrow /\ \A q \in Req : HoldSame(q)
  BY <1>1 DEF StoreOK, StoreGrow, HoldSame
<1>3. UNCHANGED <<pc, job, fin, rcn, owed>>
  BY DEF PassRest, handlerVars
<1>4. LocalsOK'
  BY ZenonT(30), <1>1, <1>3 DEF LocalsOK, Handlers, Passes
<1>5. Stands(new)
  BY ZenonT(30), <1>2, <1>3 DEF Stands
<1>6. ASSUME NEW q \in Req PROVE HeldOK(q)' /\ DecidedOK(q)'
  <2>1. (Listed(q)' => Held(q)) /\ \A f \in new : f.key # q \/ ~Held(q)
    BY <1>3 DEF Listed, Held, NewOK
  <2> QED BY ZenonT(30), <1>2, <1>3, <1>5, <2>1, HeldRest
<1> QED BY ZenonT(30), <1>4, <1>5, <1>6, PassStep DEF NewOK

(* A step that leaves the journal alone. *)
LEMMA SameJournal ==
  ASSUME SettlementInv, UNCHANGED journalVars
  PROVE  JournalOK' /\ KeepsEffects /\ Journal' = Journal
<1>1. JournalOK
  BY InvFacts
<1> QED BY <1>1 DEF journalVars, JournalOK, Good, KeepsEffects, Durable, Journal

(* No new records. *)
LEMMA NoneNew == NewOK({}) /\ \A S : S \subseteq S \union {}
  BY DEF NewOK

(* A pass that has nothing in hand. *)
LEMMA IdleIs ==
  Idle \in Passes
<1>1. (CHOOSE r \in Req : TRUE) \in Req
  BY StoreConstants
<1>2. Seal(CHOOSE r \in Req : TRUE) \in Records
  BY <1>1 DEF Seal, Records
<1> QED BY <1>2 DEF Idle, Passes

(* The recovery pass reads the journal and picks an effect. *)
LEMMA ScanKeeps ==
  ASSUME SettlementInv, Scan \/ Pick
  PROVE  SettlementInv'
<1>1. UNCHANGED <<res, lease, usage, demo, journalVars>> /\ PassRest
  BY ZenonT(30) DEF Scan, Pick, storeVars, StoreOnly
<1>2. JournalOK' /\ KeepsEffects /\ Journal' = Journal
  BY ZenonT(30), <1>1, SameJournal
<1>3. CASE Scan
  <2>1. PICK old \in SUBSET Unsealed : rcv' = [Idle EXCEPT !.todo = old, !.at = "pick"]
    BY ZenonT(30), <1>3 DEF Scan
  <2>2. ASSUME NEW e \in old PROVE e \in Journal /\ e.kind = "effect" /\ e \in Records
    <3>1. PICK k \in UnsealedKeys : e = FirstEffect(k)
      BY ZenonT(30) DEF Unsealed
    <3>2. k \in EffectKeys /\ Good(segs)
      BY InvFacts DEF UnsealedKeys, JournalOK
    <3>3. e \in Journal /\ e.kind = "effect"
      BY ZenonT(30), <3>1, <3>2, FirstEffectIs DEF Journal, In
    <3> QED BY ZenonT(30), <3>3, InvFacts
  <2>3. rcv'.todo = old /\ rcv'.at = "pick" /\ rcv' \in Passes
    BY ZenonT(30), <2>1, <2>2, IdleIs DEF Passes
  <2>4. RecoveryOK'
    BY ZenonT(30), <1>2, <2>2, <2>3 DEF RecoveryOK, RedrivePCs
  <2> QED BY ZenonT(30), <1>1, <1>2, <2>3, <2>4, NoneNew, PassOnly
<1>4. CASE Pick
  <2>0. RecoveryOK /\ rcv \in Passes /\ rcv.at = "pick"
    BY ZenonT(30), <1>4, InvFacts DEF Pick, SettlementInv, LocalsOK, Passes
  <2>1. CASE \E e \in rcv.todo : rcv' = [todo |-> rcv.todo \ {e}, at |-> "settle", cur |-> e]
    <3>1. PICK e \in rcv.todo : rcv' = [todo |-> rcv.todo \ {e}, at |-> "settle", cur |-> e]
      BY ZenonT(30), <2>1
    <3>2. rcv'.todo \subseteq rcv.todo /\ rcv'.at = "settle" /\ rcv'.cur = e /\ rcv' \in Passes
      BY <2>0, <3>1 DEF RedrivePCs, Passes
    <3>3. RecoveryOK'
      BY ZenonT(30), <1>2, <2>0, <3>2 DEF RecoveryOK
    <3> QED BY ZenonT(30), <1>1, <1>2, <3>2, <3>3, NoneNew, PassOnly
  <2>2. CASE Then("prune")
    <3>1. rcv'.todo = rcv.todo /\ rcv'.at = "prune" /\ rcv' \in Passes
      BY ZenonT(30), <2>0, <2>2 DEF Then, Passes
    <3>2. RecoveryOK'
      BY ZenonT(30), <1>2, <2>0, <3>1 DEF RecoveryOK, RedrivePCs
    <3> QED BY ZenonT(30), <1>1, <1>2, <3>1, <3>2, NoneNew, PassOnly
  <2> QED BY ZenonT(30), <1>4, <2>1, <2>2 DEF Pick
<1> QED BY <1>3, <1>4

(* The recovery pass prunes the journal. *)
LEMMA PruneStepKeeps ==
  ASSUME SettlementInv, PruneSegments
  PROVE  SettlementInv'
<1>1. UNCHANGED <<res, lease, usage, demo, open, torn>> /\ PassRest /\ segs' = PrunedSegs /\ rcv' = Idle
  BY DEF PruneSegments, storeVars
<1>2. JournalOK
  BY InvFacts
<1>3. JournalOK' /\ KeepsEffects /\ Journal' \subseteq Journal
  BY ZenonT(30), <1>1, <1>2, ShrinkStep DEF JournalOK
<1>4. RecoveryOK' /\ rcv'.at # "seal"
  BY ZenonT(30), <1>1 DEF RecoveryOK, Idle, RedrivePCs
<1> QED BY ZenonT(30), <1>1, <1>3, <1>4, IdleIs, NoneNew, PassOnly

(* The recovery pass seals an effect or sets it aside. *)
LEMMA RedriveSealKeeps ==
  ASSUME SettlementInv, RedriveSeal
  PROVE  SettlementInv'
<1> DEFINE k == rcv.cur.key
<1>1. /\ UNCHANGED <<res, lease, usage, demo>> /\ PassRest /\ Then("pick") /\ rcv.at \in {"seal", "quarantine"}
  BY ZenonT(30) DEF RedriveSeal
<1>2. /\ rcv.cur \in Journal /\ rcv.cur.kind = "effect" /\ k \in Req /\ RecordOK(rcv.cur) /\ ~Held(k)
      /\ rcv.cur.use \in Uses /\ JournalOK /\ LocalsOK /\ NoUse \notin Uses
  BY ZenonT(30), <1>1, CurIs, InvFacts DEF RedrivePCs
<1>3. PICK rec \in Records :
        /\ rec.key = k /\ rec.kind = rcv.at
        /\ \E ok \in BOOLEAN : AppendRecord(rec, ok)
  <2>1. Seal(k) \in Records /\ Seal(k).key = k /\ Seal(k).kind = "seal"
    BY ZenonT(30), <1>2 DEF Seal, Records
  <2>2. Quarantine(k) \in Records /\ Quarantine(k).key = k /\ Quarantine(k).kind = "quarantine"
    BY ZenonT(30), <1>2 DEF Quarantine, Records
  <2>3. \E ok \in BOOLEAN : AppendRecord(IF rcv.at = "seal" THEN Seal(k) ELSE Quarantine(k), ok)
    BY DEF RedriveSeal
  <2>4. CASE rcv.at = "seal"
    BY ZenonT(30), <2>1, <2>3, <2>4
  <2>5. CASE rcv.at = "quarantine"
    BY ZenonT(30), <2>2, <2>3, <2>5
  <2> QED BY ZenonT(30), <1>1, <2>4, <2>5
<1>4. Appends(rec)
  BY ZenonT(30), <1>2, <1>3, AppendStep
<1>5. rcv'.todo = rcv.todo /\ rcv'.at = "pick"
      /\ rcv' \in Passes
  BY ZenonT(30), <1>1, <1>2 DEF Then, LocalsOK, Passes
<1>6. RecoveryOK'
  BY ZenonT(30), <1>4, <1>5 DEF RecoveryOK, Appends, SettlementInv, RedrivePCs
<1>7. RecordOK(rec)'
  <2>1. Id' = Id /\ Handlers' = Handlers /\ UNCHANGED <<pc, job>>
    BY <1>1 DEF Id, Handlers, PassRest, handlerVars
  <2>2. rec.kind # "effect"
    BY ZenonT(30), <1>1, <1>3
  <2>3. \A f \in Journal' : f.key = k /\ f.kind = "effect" => f = rcv.cur
    BY ZenonT(30), <1>2, <1>4, <2>2 DEF Appends, RecordOK
  <2>4. rec.kind = "seal" => usage[k] = rcv.cur.use
    BY ZenonT(30), <1>3 DEF SettlementInv, RecoveryOK
  <2> QED BY ZenonT(30), <1>1, <1>2, <1>3, <2>1, <2>2, <2>3, <2>4 DEF RecordOK
<1>8. rec.kind # "effect"
  BY ZenonT(30), <1>1, <1>3
<1>9. NewOK({rec}) /\ JournalOK' /\ KeepsEffects /\ Journal' \subseteq Journal \union {rec} /\ rcv'.at # "seal"
  BY ZenonT(30), <1>2, <1>3, <1>4, <1>5, <1>7, <1>8 DEF NewOK, Appends
<1> QED BY ZenonT(30), <1>1, <1>5, <1>6, <1>9, PassOnly

(* Every step of the recovery pass keeps the invariant. *)
LEMMA RecoveryKeeps ==
  ASSUME SettlementInv, Recovery
  PROVE  SettlementInv'
  BY ZenonT(30), RedriveKeeps, ScanKeeps, PruneStepKeeps, RedriveSealKeeps DEF Recovery

----------------------------------------------------------------------------
(* Only a settlement that is closed is charged or refunded. *)
LEMMA FinalityIs ==
  ASSUME NEW f \in Finalities, FinalityAction(f) \in {"debit", "refund"}
  PROVE  f.closed
<1>1. CASE f.mode \in {"none", "observe"}
  <2>1. ~(f.mode = "enforce")
    BY <1>1
  <2> QED BY <1>1, <2>1 DEF FinalityAction
<1>2. CASE ~(f.mode \in {"none", "observe"}) /\ ~f.closed
  BY ZenonT(30), <1>2 DEF FinalityAction
<1> QED BY <1>1, <1>2

(* A visit of the reconciler to a listed request. *)
LEMMA VisitStep ==
  ASSUME SettlementInv, NEW r \in Req, Listed(r), ReconcileRest, Closes(r), UNCHANGED lease,
         rcn' \in [todo : SUBSET Req, clamp : SUBSET Req], \A q \in Req : Listed(q)' => Listed(q),
         \/ HoldSame(r)
         \/ res'[r].hold /\ res'[r].st \in {"active", "stale_held"}
         \/ res'[r].hold /\ res'[r].st \in {"settled", "refunded"} /\ fin[r].closed
  PROVE  SettlementInv'
<1>1. UNCHANGED <<journalVars, pc, job, fin, rcv, owed>>
  BY ZenonT(30) DEF ReconcileRest, handlerVars
<1>2. JournalOK' /\ KeepsEffects /\ Journal' = Journal
  BY ZenonT(30), <1>1, SameJournal
<1>3. Stands({})
  BY ZenonT(30), <1>1, <1>2 DEF Stands, Closes
<1>4. LocalsOK'
  BY ZenonT(30), <1>1, InvFacts DEF LocalsOK, Handlers
<1>5. RecoveryOK'
  BY ZenonT(30), <1>1, <1>2, RecoveryFrame DEF Closes
<1>6. ASSUME NEW q \in Req, HoldSame(q) PROVE HeldOK(q)' /\ DecidedOK(q)'
  <2>1. (Listed(q)' => Held(q)) /\ (fin[q].closed => fin'[q].closed)
    BY ZenonT(30), <1>1 DEF Held
  <2> QED BY <1>3, <1>6, <2>1, HeldRest
<1>7. ASSUME ~HoldSame(r) PROVE HeldOK(r)' /\ DecidedOK(r)'
  <2>1. HeldOK(r) /\ Id' = Id /\ Handlers' = Handlers
    BY ZenonT(30), InvFacts DEF Id, Handlers
  <2>2. Decided(r)' <=> Decided(r)
    BY ZenonT(30), <1>1, <2>1 DEF Decided
  <2>3. lease'[r] # "none" /\ \A e \in Journal' : e.key # r
    BY ZenonT(30), <1>2, <2>1 DEF HeldOK
  <2>4. HeldOK(r)'
    BY ZenonT(30), <1>1, <1>7, <2>1, <2>2, <2>3 DEF HeldOK
  <2>5. DecidedOK(r)'
    BY ZenonT(30), <1>1, <1>7 DEF DecidedOK, Decided
  <2> QED BY ZenonT(30), <2>4, <2>5
<1>8. \A q \in Req : HeldOK(q)' /\ DecidedOK(q)'
  BY ZenonT(30), <1>6, <1>7 DEF Closes, OtherHoldsSame
<1>9. ASSUME Copies = 1, rcv'.at = "seal" PROVE res'[rcv'.cur.key].st # "active"
  <2>1. res[rcv.cur.key].st # "active" /\ rcv.cur.key \in Req
    BY ZenonT(30), <1>1, <1>9, CurIs DEF SettlementInv, ReleasedOK, Active, RedrivePCs
  <2> QED BY ZenonT(30), <1>1, <2>1 DEF Closes
<1> QED BY ZenonT(30), <1>3, <1>4, <1>5, <1>8, <1>9, PassStep

(* The reconciler decides a hold as the coordinator did. *)
LEMMA VisitKeeps ==
  ASSUME SettlementInv, NEW r \in Req, Visit(r)
  PROVE  SettlementInv'
<1>1. /\ ReconcileRest /\ r \in rcn.todo /\ StoreOK /\ rcn \in [todo : SUBSET Req, clamp : SUBSET Req]
      /\ fin[r] \in Finalities /\ CoordinatorCharge \in Uses
  BY InvFacts, StoreConstants DEF Visit, LocalsOK, CoordinatorCharge, Uses
<1>2. Listed(r)
  BY ZenonT(30), <1>1 DEF Listed
<1>3. PICK c \in {{}, {r}} : rcn' = [todo |-> rcn.todo \ {r}, clamp |-> c]
  BY ZenonT(30), <1>1 DEF Visit
<1>4. rcn' \in [todo : SUBSET Req, clamp : SUBSET Req] /\ \A q \in Req : Listed(q)' => Listed(q)
  BY ZenonT(30), <1>1, <1>2, <1>3 DEF Listed
<1> DEFINE Fine == \/ HoldSame(r)
                   \/ res'[r].hold /\ res'[r].st \in {"active", "stale_held"}
                   \/ res'[r].hold /\ res'[r].st \in {"settled", "refunded"} /\ fin[r].closed
<1>5. ASSUME UNCHANGED <<res, lease, usage, demo>> PROVE Closes(r) /\ UNCHANGED lease /\ Fine
  BY ZenonT(30), <1>1, <1>5, SameRows DEF StoreOK
<1>6. ASSUME NEW out, MarkReservationStaleHeld(r, out) PROVE Closes(r) /\ UNCHANGED lease /\ Fine
  BY ZenonT(30), <1>1, <1>6, CloseStep
<1>7. ASSUME res[r].due /\ Active(r) /\ res[r].hold, res' = [res EXCEPT ![r].st = "stale_held"], UNCHANGED <<lease, usage, demo>>
      PROVE  Closes(r) /\ UNCHANGED lease /\ Fine
  <2>1. "stale_held" \in Statuses /\ res[r] \in Rows
    BY ZenonT(30), <1>1, <1>7, RowFacts DEF Statuses, Active
  <2>2. res'[r].st = "stale_held" /\ res'[r].hold = res[r].hold
    BY ZenonT(30), <1>1, <1>7, <2>1 DEF StoreOK, Rows
  <2>3. /\ res' \in [Req -> Rows \union {NoRow}]
        /\ \A q \in Req : res[q].st # "none" => res'[q].st # "none"
        /\ \A q \in Req : res'[q].st = "active" => res[q].st = "active"
        /\ \A q \in Req \ {r} : HoldSame(q)
    BY ZenonT(30), <1>1, <1>7, <2>1, RowStep DEF Active
  <2>4. Closes(r)
    BY ZenonT(30), <1>1, <1>7, <2>3 DEF Closes, StoreOK, StoreGrow, OtherHoldsSame
  <2> QED BY ZenonT(30), <1>7, <2>2, <2>4
<1>8. ASSUME NEW out, FinalityAction(fin[r]) = "debit", SettleReservation(r, FALSE, CoordinatorCharge, out)
      PROVE  Closes(r) /\ UNCHANGED lease /\ Fine
  <2>1. fin[r].closed
    BY ZenonT(30), <1>1, <1>8, FinalityIs
  <2> QED BY ZenonT(30), <1>1, <1>8, <2>1, SettleStep
<1>9. ASSUME NEW out, FinalityAction(fin[r]) = "refund", RefundReservation(r, out)
      PROVE  Closes(r) /\ UNCHANGED lease /\ Fine
  <2>1. fin[r].closed
    BY ZenonT(30), <1>1, <1>9, FinalityIs
  <2> QED BY ZenonT(30), <1>1, <1>9, <2>1, CloseStep
<1>10. ASSUME NEW out, MarkReservationSettlementHold(r, out)
       PROVE  Closes(r) /\ UNCHANGED lease /\ Fine
  BY ZenonT(30), <1>1, <1>10, HoldStep
<1>11. Closes(r) /\ UNCHANGED lease /\ Fine
  <2> HIDE DEF Fine
  <2> QED BY ZenonT(30), <1>5, <1>6, <1>7, <1>8, <1>9, <1>10 DEF Visit, storeVars
<1> QED BY ZenonT(30), <1>1, <1>2, <1>4, <1>11, VisitStep

(* Every step of the reconciler keeps the invariant. *)
LEMMA ReconcileKeeps ==
  ASSUME SettlementInv, Reconcile
  PROVE  SettlementInv'
<1>1. ASSUME NEW r \in Req, ReconcileClamp(r) PROVE SettlementInv'
  <2>1. PICK out : ClampReservationExpiry(r, out)
    BY ZenonT(30), <1>1 DEF ReconcileClamp
  <2>2. ReconcileRest /\ Listed(r) /\ StoreOK /\ rcn \in [todo : SUBSET Req, clamp : SUBSET Req] /\ rcn' = [rcn EXCEPT !.clamp = {}]
    BY ZenonT(30), <1>1, InvFacts DEF ReconcileClamp, Listed, LocalsOK
  <2>3. rcn' \in [todo : SUBSET Req, clamp : SUBSET Req] /\ \A q \in Req : Listed(q)' => Listed(q)
    BY ZenonT(30), <2>2 DEF Listed
  <2>4. Closes(r) /\ UNCHANGED lease /\ (HoldSame(r) \/ (res'[r].hold /\ res'[r].st = "active"))
    BY ZenonT(30), <2>1, <2>2, HoldStep
  <2> QED BY ZenonT(30), <2>2, <2>3, <2>4, VisitStep
<1>2. ASSUME ListHeld PROVE SettlementInv'
  <2>1. /\ rcn.todo = {} /\ rcn.clamp = {} /\ rcn' = [rcn EXCEPT !.todo = SettlementHeld] /\ UNCHANGED <<res, lease, usage, demo>>
        /\ UNCHANGED <<journalVars, pc, job, fin, rcv, owed>>
    BY ZenonT(30), <1>2 DEF ListHeld, storeVars, ReconcileRest, handlerVars
  <2>2. StoreOK /\ LocalsOK /\ SettlementHeld \subseteq Req /\ \A q \in SettlementHeld : res[q].hold
    BY ZenonT(30), InvFacts DEF SettlementHeld
  <2>3. StoreOK' /\ StoreGrow /\ \A q \in Req : HoldSame(q)
    BY ZenonT(30), <2>1, <2>2 DEF StoreOK, StoreGrow, HoldSame
  <2>4. JournalOK' /\ KeepsEffects /\ Journal' = Journal
    BY ZenonT(30), <2>1, SameJournal
  <2>5. Stands({})
    BY ZenonT(30), <2>1, <2>3, <2>4 DEF Stands
  <2>6. rcn' \in [todo : SUBSET Req, clamp : SUBSET Req] /\ \A q \in Req : Listed(q)' => Held(q)
    BY ZenonT(30), <2>1, <2>2 DEF LocalsOK, Listed, Held
  <2>7. LocalsOK' /\ RecoveryOK'
    BY ZenonT(30), <2>1, <2>2, <2>3, <2>4, <2>6, RecoveryFrame DEF LocalsOK, Handlers
  <2>8. ASSUME NEW q \in Req PROVE HeldOK(q)' /\ DecidedOK(q)'
    BY ZenonT(30), <2>1, <2>3, <2>5, <2>6, HeldRest
  <2>9. Copies = 1 /\ rcv'.at = "seal" => res'[rcv'.cur.key].st # "active"
    BY ZenonT(30), <2>1 DEF SettlementInv, ReleasedOK, Active
  <2> QED BY ZenonT(30), <2>5, <2>7, <2>8, <2>9, PassStep
<1> QED BY ZenonT(30), <1>1, <1>2, VisitKeeps DEF Reconcile

----------------------------------------------------------------------------
(* The clock, the reaper, the coordinator and a correction by hand. *)
LEMMA QuietKeeps ==
  ASSUME SettlementInv, Stands({}), UNCHANGED <<rcv, rcn>>, Journal \subseteq Journal', \A q \in Req : HoldSame(q),
         fin' \in [Req -> Finalities], \A q \in Req : fin[q].closed => fin'[q].closed
  PROVE  SettlementInv'
<1>1. LocalsOK'
  BY ZenonT(30), InvFacts DEF Stands, LocalsOK, Handlers
<1>2. RecoveryOK'
  BY ZenonT(30), RecoveryFrame DEF Stands
<1>3. ASSUME NEW q \in Req PROVE HeldOK(q)' /\ DecidedOK(q)'
  <2>1. Listed(q)' => Held(q)
    BY DEF Listed, Held
  <2>2. PICK new : new = {}
    BY ZenonT(30)
  <2>3. Stands(new) /\ \A f \in new : f.key # q \/ ~Held(q)
    BY ZenonT(30), <2>2
  <2>4. HoldSame(q) /\ (fin[q].closed => fin'[q].closed)
    BY ZenonT(30)
  <2> QED BY ZenonT(30), <2>1, <2>3, <2>4, HeldRest
<1>4. ASSUME Copies = 1, rcv'.at = "seal" PROVE res'[rcv'.cur.key].st # "active"
  <2>1. res[rcv.cur.key].st # "active" /\ rcv.cur.key \in Req
    BY <1>4, CurIs DEF SettlementInv, ReleasedOK, Active, RedrivePCs
  <2> QED BY <2>1 DEF Stands
<1> QED BY ZenonT(30), <1>1, <1>2, <1>3, <1>4, PassStep

(* The clock and the reaper. *)
LEMMA TimeKeeps ==
  ASSUME SettlementInv, NEW r \in Req, TimePasses(r) \/ Correct(r) \/ Reap
  PROVE  SettlementInv'
<1>1. UNCHANGED <<journalVars, pc, job, fin, rcv, rcn, owed>>
  BY DEF TimePasses, Correct, Reap, StoreStep, handlerVars, passVars
<1>2. JournalOK' /\ KeepsEffects /\ Journal' = Journal
  BY <1>1, SameJournal
<1>3. StoreOK /\ fin \in [Req -> Finalities]
  BY ZenonT(30), InvFacts DEF LocalsOK
<1>4. Closes(r) /\ \A q \in Req : HoldSame(q) /\ (lease[q] = "none" => lease'[q] = "none")
  <2>1. CASE TimePasses(r) \/ Reap
    BY ZenonT(30), <1>3, <2>1, TimeStep DEF TimePasses, Reap
  <2>2. CASE Correct(r)
    <3>1. [tok |-> 0, src |-> "audit"] \in Uses
      BY StoreConstants DEF Uses
    <3>2. Closes(r) /\ UNCHANGED lease /\ \A q \in Req : HoldSame(q)
      BY ZenonT(30), <1>3, <2>2, <3>1, EnsureStep DEF Correct
    <3> QED BY ZenonT(30), <3>2
  <2> QED BY ZenonT(30), <2>1, <2>2
<1>5. Stands({})
  BY ZenonT(30), <1>1, <1>2, <1>4 DEF Stands, Closes
<1> QED BY <1>1, <1>2, <1>3, <1>4, <1>5, QuietKeeps

(* The coordinator and the ageing of segments. *)
LEMMA OutsideKeeps ==
  ASSUME SettlementInv, (\E r \in Req : CoordinatorCloses(r)) \/ SegmentAges \/ UNCHANGED vars
  PROVE  SettlementInv'
<1>1. UNCHANGED <<res, lease, usage, demo, pc, job, rcv, rcn, owed, open, torn>>
  BY ZenonT(30) DEF CoordinatorCloses, SegmentAges, vars, storeVars, journalVars, handlerVars, passVars
<1>2. StoreOK /\ JournalOK /\ fin \in [Req -> Finalities]
  BY ZenonT(30), InvFacts DEF LocalsOK
<1>3. StoreOK' /\ StoreGrow /\ \A q \in Req : HoldSame(q)
  BY <1>1, <1>2 DEF StoreOK, StoreGrow, HoldSame
<1>4. JournalOK' /\ KeepsEffects /\ Journal' = Journal
  <2>1. CASE UNCHANGED journalVars
    BY ZenonT(30), <2>1, SameJournal
  <2>2. CASE SegmentAges
    <3>1. PICK a \in DOMAIN segs : Age(a)
      BY ZenonT(30), <2>2 DEF SegmentAges
    <3>2. JournalOK' /\ KeepsEffects
      BY ZenonT(30), <1>1, <1>2, <3>1, ShrinkStep DEF JournalOK
    <3>3. PICK t : t = segs'
      OBVIOUS
    <3>4. In(t) = In(segs)
      BY ZenonT(30), <1>2, <3>1, <3>3, AgeKeeps DEF Age, JournalOK
    <3> QED BY ZenonT(30), <3>2, <3>3, <3>4 DEF Journal, In
  <2> QED BY ZenonT(30), <2>1, <2>2 DEF CoordinatorCloses, vars
<1>5. fin' \in [Req -> Finalities] /\ \A q \in Req : fin[q].closed => fin'[q].closed
  <2>1. CASE UNCHANGED fin
    BY ZenonT(30), <1>2, <2>1
  <2>2. CASE \E r \in Req : CoordinatorCloses(r)
    <3>1. PICK r \in Req : CoordinatorCloses(r)
      BY <2>2
    <3>2. PICK f \in {Verified, ZeroSettled, Enforce("quarantined", "inconclusive", TRUE)} : fin' = [fin EXCEPT ![r] = f]
      BY ZenonT(30), <3>1 DEF CoordinatorCloses
    <3>3. f \in Finalities /\ f.closed
      <4>1. Verified \in Finalities /\ Verified.closed /\ ZeroSettled \in Finalities /\ ZeroSettled.closed
        BY ZenonT(30) DEF Verified, ZeroSettled, Enforce, Finalities
      <4>2. Enforce("quarantined", "inconclusive", TRUE) \in Finalities /\ Enforce("quarantined", "inconclusive", TRUE).closed
        BY ZenonT(30) DEF Enforce, Finalities
      <4> QED BY ZenonT(30), <3>2, <4>1, <4>2
    <3> QED BY ZenonT(30), <1>2, <3>2, <3>3
  <2> QED BY ZenonT(30), <2>1, <2>2 DEF SegmentAges, vars
<1>6. Stands({})
  BY ZenonT(30), <1>1, <1>3, <1>4 DEF Stands
<1> QED BY ZenonT(30), <1>1, <1>3, <1>4, <1>5, <1>6, QuietKeeps

(* Rows past their retention are deleted. *)
LEMMA ForgetKeeps ==
  ASSUME SettlementInv, NEW r \in Req, Forget(r)
  PROVE  SettlementInv'
<1>1. /\ UNCHANGED <<lease, usage, demo, journalVars, pc, job, fin, rcv, rcn, owed>>
      /\ res[r].st \in {"expired", "settled", "refunded"} /\ res' = [res EXCEPT ![r] = NoRow] /\ ~InFlight(r)
  BY ZenonT(30) DEF Forget, DeleteTerminalQuotaReservations, StoreStep, handlerVars, passVars
<1>2. /\ StoreOK /\ JournalOK /\ LocalsOK /\ Id' = Id /\ Handlers' = Handlers
      /\ \A h \in Handlers : HandlerOK(h) /\ Alone(h)
  BY ZenonT(30), InvFacts DEF Id, Handlers
<1>3. JournalOK' /\ KeepsEffects /\ Journal' = Journal
  BY ZenonT(30), <1>1, SameJournal
<1>4. /\ StoreOK' /\ res'[r] = NoRow /\ \A q \in Req \ {r} : res'[q] = res[q]
  BY ZenonT(30), <1>1, <1>2 DEF StoreOK
<1>5. LocalsOK' /\ RecoveryOK' /\ OwedOK'
  <2>1. Durable' = Durable
    BY ZenonT(30), <1>1, <1>2, JournalSame
  <2>2. LocalsOK'
    BY ZenonT(30), <1>1, <1>2 DEF LocalsOK
  <2>3. RecoveryOK'
    BY ZenonT(30), <1>1, <1>3 DEF RecoveryOK, SettlementInv
  <2>4. OwedOK'
    BY ZenonT(30), <1>1, <2>1 DEF OwedOK, SettlementInv
  <2> QED BY ZenonT(30), <2>2, <2>3, <2>4
<1>6. ASSUME NEW h \in Handlers, Id[h] = r PROVE pc[h] \notin AdmittedPCs
  <2>1. pc[h] \in {"start", "done", "dead"}
    BY ZenonT(30), <1>1, <1>6 DEF InFlight
  <2> QED BY ZenonT(30), <2>1 DEF AdmittedPCs, LeasedPCs
<1>7. ASSUME NEW h \in Handlers PROVE HandlerOK(h)' /\ Alone(h)'
  <2>1. CASE Id[h] # r
    <3>1. res'[Id[h]] = res[Id[h]]
      BY ZenonT(30), <1>4, <2>1, IdIs
    <3> QED BY ZenonT(30), <1>1, <1>2, <3>1 DEF HandlerOK, Alone
  <2>2. CASE Id[h] = r
    <3>1. pc[h] \notin AdmittedPCs /\ pc[h] # "seal"
      BY ZenonT(30), <1>6, <2>2 DEF AdmittedPCs, LeasedPCs
    <3> QED BY ZenonT(30), <1>1, <1>2, <3>1 DEF HandlerOK, Alone
  <2> QED BY ZenonT(30), <2>1, <2>2
<1>8. ASSUME NEW e \in Journal' PROVE RecordOK(e)'
  <2>1. RecordOK(e)
    BY ZenonT(30), <1>3, InvFacts
  <2> QED BY ZenonT(30), <1>1, <1>2, <1>3, <2>1 DEF RecordOK
<1>9. ASSUME NEW q \in Req PROVE HeldOK(q)' /\ DecidedOK(q)'
  <2>1. HeldOK(q) /\ DecidedOK(q) /\ (Decided(q)' <=> Decided(q)) /\ (Listed(q)' <=> Listed(q))
    BY ZenonT(30), <1>1, <1>2, InvFacts DEF Decided, Listed
  <2>2. CASE q # r
    <3>1. res'[q] = res[q]
      BY ZenonT(30), <1>4, <2>2
    <3> QED BY ZenonT(30), <1>1, <1>2, <1>3, <2>1, <3>1 DEF HeldOK, DecidedOK
  <2>3. CASE q = r
    <3>1. ~res'[q].hold
      BY <1>4, <2>3 DEF NoRow
    <3>2. Listed(q) => Decided(q)
      <4>1. CASE res[q].hold
        BY ZenonT(30), <1>1, <2>1, <2>3, <4>1 DEF HeldOK, DecidedOK, Decided
      <4>2. CASE ~res[q].hold
        BY ZenonT(30), <2>1, <4>2 DEF HeldOK
      <4> QED BY ZenonT(30), <4>1, <4>2
    <3> QED BY ZenonT(30), <1>1, <1>2, <1>3, <2>1, <3>1, <3>2 DEF HeldOK, DecidedOK
  <2> QED BY ZenonT(30), <2>2, <2>3
<1>10. ASSUME Copies = 1 PROVE ReleasedOK'
  <2>1. ReleasedOK
    BY ZenonT(30), <1>10 DEF SettlementInv
  <2>2. rcv.at = "seal" => rcv.cur.key \in Req
    BY ZenonT(30), CurIs DEF RedrivePCs
  <2>3. rcv.at = "seal" => res'[rcv.cur.key].st # "active"
    BY <1>4, <2>1, <2>2 DEF ReleasedOK, Active, NoRow
  <2> QED BY ZenonT(30), <1>1, <1>2, <2>1, <2>3 DEF ReleasedOK, Active
<1> QED BY ZenonT(30), <1>3, <1>4, <1>5, <1>7, <1>8, <1>9, <1>10, Parts

(* A crash loses what was not on disk, and every handler and pass. *)
LEMMA CrashKeeps ==
  ASSUME SettlementInv, Crash
  PROVE  SettlementInv'
<1>1. /\ UNCHANGED <<res, lease, usage, demo, job, fin, owed>>
      /\ pc' = [h \in Handlers |-> IF pc[h] \in {"start", "done"} THEN pc[h] ELSE "dead"]
      /\ rcv' = Idle /\ rcn' = [todo |-> {}, clamp |-> {}] /\ open' = FALSE /\ torn' = FALSE
  BY ZenonT(30) DEF Crash, storeVars
<1>2. StoreOK /\ JournalOK /\ LocalsOK /\ Id' = Id /\ Handlers' = Handlers
  BY InvFacts DEF Id, Handlers
<1>3. JournalOK' /\ KeepsEffects /\ Journal' \subseteq Journal
  BY ZenonT(30), <1>1, <1>2, ShrinkStep DEF Crash, JournalOK
<1>4. StoreOK' /\ StoreGrow /\ \A q \in Req : HoldSame(q)
  BY ZenonT(30), <1>1, <1>2 DEF StoreOK, StoreGrow, HoldSame
<1>5. /\ pc' \in [Handlers -> AdmittedPCs \union OverPCs]
      /\ \A h \in Handlers : pc'[h] = pc[h] \/ pc'[h] = "dead"
      /\ \A h \in Handlers : pc'[h] \in {"start", "done", "dead"} /\ (pc'[h] = "start" => pc[h] = "start")
  <2>1. {"start", "done", "dead"} \subseteq OverPCs
    BY ZenonT(30) DEF OverPCs
  <2> QED BY ZenonT(30), <1>1, <1>2, <2>1 DEF LocalsOK
<1>6. LocalsOK'
  <2>1. rcv' \in Passes
    BY ZenonT(30), <1>1, IdleIs
  <2> QED BY ZenonT(30), <1>1, <1>2, <1>5, <2>1 DEF LocalsOK, Passes
<1>7. RecoveryOK' /\ OwedOK'
  <2>1. RecoveryOK'
    BY ZenonT(30), <1>1 DEF RecoveryOK, Idle, RedrivePCs
  <2> QED BY ZenonT(30), <1>1, <1>3, <1>4, <2>1, OwedFrame
<1>8. {"start", "done", "dead"} \intersect (AdmittedPCs \union LeasedPCs \union ArmedPCs \union {"arm", "settleNow", "unwind"}) = {}
      /\ {"start", "done", "dead"} \subseteq OverPCs
  BY DEF AdmittedPCs, LeasedPCs, ArmedPCs, OverPCs
<1>9. ASSUME NEW h \in Handlers PROVE HandlerOK(h)' /\ Alone(h)'
  <2>1. HandlerOK(h)
    BY ZenonT(30), InvFacts
  <2> QED BY ZenonT(30), <1>1, <1>2, <1>5, <1>8, <2>1 DEF HandlerOK, Alone
<1>10. ASSUME NEW e \in Journal' PROVE RecordOK(e)'
  <2>1. e \in Journal /\ \A g \in Handlers : Id[g] = e.key => Follows(g)
    BY ZenonT(30), <1>3, <1>5, <1>8 DEF Follows
  <2>2. PICK new : Journal' \subseteq Journal \union new /\ \A f \in new : f.kind = "effect" => f.key # e.key
    <3> DEFINE none == {f \in Journal : FALSE}
    <3>1. Journal' \subseteq Journal \union none /\ \A f \in none : f.kind = "effect" => f.key # e.key
      BY ZenonT(30), <1>3
    <3> QED BY ZenonT(30), <3>1
  <2> QED BY ZenonT(30), <1>4, <2>1, <2>2, RecordFrame
<1>11. ASSUME NEW q \in Req PROVE HeldOK(q)' /\ DecidedOK(q)'
  <2>1. (Listed(q)' => Held(q)) /\ KeepsDecision(q) /\ \A g \in Handlers : Id[g] = q => Waits(g)
    BY ZenonT(30), <1>1, <1>5, <1>8 DEF Listed, KeepsDecision, Waits
  <2> DEFINE none == {f \in Journal : FALSE}
  <2>2. Journal' \subseteq Journal \union none /\ \A f \in none : f.key # q
    BY <1>3
  <2> HIDE DEF none
  <2> QED BY ZenonT(30), <1>4, <2>1, <2>2, HeldFrame
<1>12. ASSUME Copies = 1 PROVE ReleasedOK'
  <2>1. ReleasedOK
    BY ZenonT(30), <1>12 DEF SettlementInv
  <2>2. rcv'.at # "seal"
    BY ZenonT(30), <1>1 DEF Idle
  <2> QED BY ZenonT(30), <1>1, <1>2, <1>5, <2>1, <2>2 DEF ReleasedOK
<1> QED BY ZenonT(30), <1>3, <1>4, <1>6, <1>7, <1>9, <1>10, <1>11, <1>12, Parts

(* The invariant holds of an empty store and journal. *)
LEMMA InitHolds ==
  ASSUME Init
  PROVE  SettlementInv
<1> USE DEF Init, StoreInit, JournalInit
<1>1. Journal = {} /\ Good(segs) /\ JournalOK
  <2>1. segs = << >> /\ open = FALSE /\ torn = FALSE
    BY ZenonT(30)
  <2>2. segs \in Seq(Segments) /\ DOMAIN segs = {}
    <3>1. << >> \in Seq(Segments) /\ DOMAIN << >> = {}
      OBVIOUS
    <3> QED BY ZenonT(30), <2>1, <3>1
  <2>3. Journal = {}
    BY ZenonT(30), <2>2 DEF Journal
  <2> QED BY ZenonT(30), <2>1, <2>2, <2>3 DEF Good, JournalOK
<1>2. StoreOK
  BY ZenonT(30) DEF StoreOK
<1>3. LocalsOK
  <2>1. "start" \in OverPCs /\ NoJob \in Jobs
    BY ZenonT(30) DEF OverPCs, NoJob, Jobs
  <2>2. NoFinality \in Finalities
    BY DEF NoFinality, Finalities
  <2>3. rcv \in [todo : SUBSET Records, at : RedrivePCs \union {"idle", "pick", "prune"}, cur : Records]
    BY ZenonT(30), IdleIs DEF Passes
  <2> QED BY ZenonT(30), <2>1, <2>2, <2>3 DEF LocalsOK
<1>4. TypeOK
  BY ZenonT(30), <1>1, <1>2, <1>3, TypeIs
<1>5. RecoveryOK /\ OwedOK
  BY ZenonT(30) DEF RecoveryOK, OwedOK, Idle, RedrivePCs
<1>6. \A r \in Req : ~res[r].hold /\ ~Listed(r)
  BY DEF NoRow, Listed
<1>7. HoldDecidedByCoordinator /\ \A r \in Req : HeldOK(r)
  BY ZenonT(30), <1>6 DEF HoldDecidedByCoordinator, HeldOK
<1>8. ASSUME NEW h \in Handlers PROVE HandlerOK(h) /\ Alone(h)
  <2>1. ~NoJob.leased
    BY ZenonT(30) DEF NoJob
  <2>2. pc[h] = "start" /\ job[h] = NoJob
    BY ZenonT(30)
  <2>3. "start" \notin LeasedPCs \union AdmittedPCs \union ArmedPCs
    BY ZenonT(30) DEF LeasedPCs, AdmittedPCs, ArmedPCs
  <2> QED BY ZenonT(30), <2>1, <2>2, <2>3 DEF HandlerOK, Alone
<1>9. ReleasedOK
  BY IdIs DEF ReleasedOK, Idle
<1> QED BY ZenonT(30), <1>1, <1>4, <1>5, <1>7, <1>8, <1>9 DEF SettlementInv

----------------------------------------------------------------------------
(* The invariant of the settlement: whatever the handlers, the recovery     *)
(* pass, the reconciler, the reaper and the crashes of the process do.      *)
THEOREM SettlementInvariance == Spec => []SettlementInv
<1>1. Init => SettlementInv
  BY ZenonT(30), InitHolds
<1>2. SettlementInv /\ [Next]_vars => SettlementInv'
  BY ZenonT(30), HandlerKeeps, RecoveryKeeps, ReconcileKeeps, TimeKeeps, OutsideKeeps, ForgetKeeps, CrashKeeps, StoreConstants DEF Next
<1> QED BY <1>1, <1>2, PTL DEF Spec

(* What was sent and journalled is billed, or still on record: a durable    *)
(* effect outlives a lost seal, a pruned segment and a dead process. The    *)
(* one effect not counted is one appended behind the fragment of a short    *)
(* write: its append reports success, and no reader of the journal sees it. *)
THEOREM NoBillIsLost == Spec => []NoLostBill
<1>1. SettlementInv => NoLostBill
  <2> SUFFICES ASSUME SettlementInv, NEW r \in owed, usage[r] = NoUse
               PROVE  r \in UnsealedKeys \union QuarantinedKeys
    BY ZenonT(30) DEF NoLostBill
  <2>1. PICK e \in Durable : e.kind = "effect" /\ e.key = r
    BY DEF SettlementInv, OwedOK
  <2>2. e \in Journal
    BY ZenonT(30), <2>1, InvFacts, DurableIsWritten
  <2>3. r \in EffectKeys
    BY ZenonT(30), <2>1, <2>2 DEF EffectKeys, KeysOf
  <2>4. r \notin SealedKeys
    BY ZenonT(30), InvFacts DEF SealedKeys, KeysOf, RecordOK
  <2> QED BY ZenonT(30), <2>3, <2>4 DEF UnsealedKeys
<1> QED BY <1>1, SettlementInvariance, PTL

(* A seal stands for the usage row its effect asked for. *)
THEOREM SealsAreBilled == Spec => []SealedIsBilled
<1>1. SettlementInv => SealedIsBilled
  <2> SUFFICES ASSUME SettlementInv, NEW k \in SealedKeys
               PROVE  usage[k] # NoUse /\ (k \in EffectKeys => usage[k] = FirstEffect(k).use)
    BY DEF SealedIsBilled
  <2>1. PICK e \in Journal : e.kind = "seal" /\ e.key = k
    BY DEF SealedKeys, KeysOf
  <2>2. RecordOK(e) /\ Good(segs)
    BY ZenonT(30), InvFacts DEF JournalOK
  <2>3. k \in EffectKeys => FirstEffect(k) \in Journal /\ FirstEffect(k).kind = "effect" /\ FirstEffect(k).key = k
    BY <2>2, FirstEffectIs DEF Journal, In
  <2> QED BY ZenonT(30), <2>1, <2>2, <2>3 DEF RecordOK
<1> QED BY <1>1, SettlementInvariance, PTL

(* A hold is charged or refunded by the coordinator's decision. *)
THEOREM HoldsAreDecided == Spec => []HoldDecidedByCoordinator
<1>1. SettlementInv => HoldDecidedByCoordinator
  BY ZenonT(30) DEF SettlementInv
<1> QED BY <1>1, SettlementInvariance, PTL

(* The steps of a handler that touch no segment. *)
LEMMA HandlerLeavesSegs ==
  ASSUME NEW h \in Handlers, Handler(h), ~Arm(h), ~SealEffect(h)
  PROVE  segs' = segs
<1> USE DEF Rest, journalVars
<1>1. CASE Admit(h) \/ Unwind(h) \/ Refund(h) \/ Lease(h) \/ Dispatch(h) \/ Audit(h)
  BY ZenonT(30), <1>1 DEF Admit, Unwind, Refund, Lease, Dispatch, Audit
<1>2. CASE SettleNow(h) \/ StreamEnds(h) \/ MarkHold(h) \/ Hold(h) \/ Clamp(h)
  BY <1>2 DEF SettleNow, StreamEnds, MarkHold, Hold, Clamp
<1>3. CASE Settle(h) \/ Ensure(h) \/ EnsureDemo(h) \/ DropHold(h) \/ Release(h)
  BY ZenonT(30), <1>3 DEF Settle, Ensure, EnsureDemo, DropHold, Release
<1> QED BY ZenonT(30), <1>1, <1>2, <1>3 DEF Handler

(* The steps of the passes, the coordinator, the reaper and the clock that  *)
(* write no record.                                                         *)
LEMMA OthersLeaveSegs ==
  ASSUME \/ Scan \/ Pick \/ RedriveSettle \/ RedriveEnsure \/ RedriveDemo \/ RedriveDrop \/ RedriveConflict
         \/ Reconcile \/ Reap
         \/ \E r \in Req : CoordinatorCloses(r) \/ Forget(r) \/ TimePasses(r) \/ Correct(r)
  PROVE  segs' = segs
<1> USE DEF StoreOnly, StoreStep, ReconcileRest, journalVars
<1>1. CASE Scan \/ Pick \/ RedriveSettle \/ RedriveEnsure \/ RedriveDemo \/ RedriveDrop \/ RedriveConflict
  BY ZenonT(30), <1>1 DEF Scan, Pick, RedriveSettle, RedriveEnsure, RedriveDemo, RedriveDrop, RedriveConflict
<1>2. CASE Reconcile
  BY <1>2 DEF Reconcile, ListHeld, Visit, ReconcileClamp
<1>3. CASE Reap \/ \E r \in Req : CoordinatorCloses(r) \/ Forget(r) \/ TimePasses(r) \/ Correct(r)
  BY ZenonT(30), <1>3 DEF Reap, CoordinatorCloses, Forget, TimePasses, Correct
<1> QED BY ZenonT(30), <1>1, <1>2, <1>3

(* Where request ids are used once, an effect is sealed only after the      *)
(* reservation of its request was settled or released: the seal is the last *)
(* rung of the handler's ladder and of the recovery pass.                   *)
THEOREM SealsComeLast == Copies = 1 /\ Spec => SealAfterRelease
<1> SUFFICES ASSUME Copies = 1 PROVE Spec => SealAfterRelease
  OBVIOUS
<1> DEFINE Last == \A k \in Req : k \in SealedKeys' \ SealedKeys => res'[k].st # "active"
<1>1. ASSUME SettlementInv, [Next]_vars PROVE Last
  <2>2. ASSUME Journal' \subseteq Journal PROVE Last
    BY ZenonT(30), <2>2 DEF SealedKeys, KeysOf
  <2>3. ASSUME segs' = segs PROVE Last
    BY ZenonT(30), <2>2, <2>3 DEF Journal
  <2>4. StoreOK /\ JournalOK /\ LocalsOK /\ \A h \in Handlers : HandlerOK(h) /\ Id[h] \in Req
    BY ZenonT(30), InvFacts, <1>1
  <2>5. ASSUME NEW h \in Handlers, Arm(h) PROVE Last
    <3>1. PICK ok \in BOOLEAN : AppendRecord(Effect(Id[h], job[h].use), ok)
      BY ZenonT(30), <2>5 DEF Arm
    <3>2. PICK rec : rec = Effect(Id[h], job[h].use)
      OBVIOUS
    <3>3. rec \in Records /\ rec.kind = "effect"
      BY ZenonT(30), <1>1, <2>4, <2>5, <3>2 DEF Records, Effect, HandlerOK, Arm, At
    <3>4. Journal' \subseteq Journal \union {rec}
      BY ZenonT(30), <2>4, <3>1, <3>2, <3>3, AppendStep DEF Appends
    <3> QED BY ZenonT(30), <3>3, <3>4 DEF SealedKeys, KeysOf
  <2>6. ASSUME NEW h \in Handlers, SealEffect(h) PROVE Last
    <3>1. pc[h] = "seal" /\ res' = res /\ res[Id[h]].st # "active"
      BY ZenonT(30), <2>4, <2>6 DEF SealEffect, At, HandlerOK
    <3>2. PICK rec : rec = Seal(Id[h])
      OBVIOUS
    <3>3. rec \in Records /\ rec.key = Id[h]
      BY ZenonT(30), <2>4, <3>2 DEF Records, Seal
    <3>4. CASE UNCHANGED journalVars
      BY ZenonT(30), <2>3, <3>4 DEF journalVars
    <3>5. CASE \E ok \in BOOLEAN : AppendRecord(rec, ok)
      <4>1. Journal' \subseteq Journal \union {rec}
        BY ZenonT(30), <2>4, <3>3, <3>5, AppendStep DEF Appends
      <4> QED BY ZenonT(30), <3>1, <3>3, <4>1 DEF SealedKeys, KeysOf
    <3> QED BY ZenonT(30), <2>6, <3>2, <3>4, <3>5 DEF SealEffect
  <2>7. ASSUME RedriveSeal PROVE Last
    <3>1. /\ rcv.at \in {"seal", "quarantine"} /\ res' = res /\ rcv.cur.key \in Req
          /\ rcv.at = "seal" => res[rcv.cur.key].st # "active"
      <4>1. rcv.at \in {"seal", "quarantine"} /\ res' = res
        BY ZenonT(30), <2>7 DEF RedriveSeal
      <4>2. rcv.cur.key \in Req
        BY ZenonT(30), <2>4 DEF LocalsOK, Records
      <4>3. rcv.at = "seal" => ~Active(rcv.cur.key)
        BY ZenonT(30), <1>1 DEF SettlementInv, ReleasedOK
      <4> QED BY ZenonT(30), <4>1, <4>2, <4>3 DEF Active
    <3>2. PICK rec : rec = IF rcv.at = "seal" THEN Seal(rcv.cur.key) ELSE Quarantine(rcv.cur.key)
      BY ZenonT(30)
    <3>3. rec \in Records /\ rec.key = rcv.cur.key /\ (rec.kind = "seal" => rcv.at = "seal")
      BY ZenonT(30), <3>1, <3>2 DEF Records, Seal, Quarantine
    <3>4. Journal' \subseteq Journal \union {rec}
      BY ZenonT(30), <2>4, <2>7, <3>2, <3>3, AppendStep DEF RedriveSeal, Appends
    <3> QED BY ZenonT(30), <3>1, <3>3, <3>4 DEF SealedKeys, KeysOf
  <2>8. ASSUME PruneSegments \/ SegmentAges \/ Crash PROVE Last
    <3>1. open' \in BOOLEAN /\ (open' => open)
      <4>1. open' = open \/ open' = FALSE
        BY <2>8 DEF PruneSegments, SegmentAges, Crash
      <4>2. open \in BOOLEAN
        BY <2>4 DEF JournalOK
      <4>3. CASE open' = open
        BY ZenonT(30), <4>2, <4>3
      <4>4. CASE open' = FALSE
        BY ZenonT(30), <4>4
      <4> QED BY ZenonT(30), <4>1, <4>3, <4>4
    <3>2. \/ segs' = segs \/ segs' = PrunedSegs \/ \E i \in DOMAIN segs : Age(i)
          \/ \E left \in [DOMAIN segs -> 0..SegmentMax] :
               (\A i \in DOMAIN segs : Survives(i, left[i])) /\ segs' = CutTo(left)
      BY ZenonT(30), <2>8 DEF PruneSegments, SegmentAges, Crash
    <3>3. torn' \in BOOLEAN
      <4>1. torn' = torn \/ torn' = FALSE
        BY <2>8 DEF PruneSegments, SegmentAges, Crash
      <4>2. torn \in BOOLEAN
        BY <2>4 DEF JournalOK
      <4>3. CASE torn' = torn
        BY ZenonT(30), <4>2, <4>3
      <4>4. CASE torn' = FALSE
        BY ZenonT(30), <4>4
      <4> QED BY ZenonT(30), <4>1, <4>3, <4>4
    <3> QED BY ZenonT(30), <2>2, <2>4, <3>1, <3>2, <3>3, ShrinkStep
  <2>9. ASSUME UNCHANGED vars PROVE Last
    BY ZenonT(30), <2>3, <2>9 DEF vars, journalVars
  <2> QED BY ZenonT(30), <1>1, <2>3, <2>5, <2>6, <2>7, <2>8, <2>9, HandlerLeavesSegs, OthersLeaveSegs DEF Next, Recovery
<1>2. SettlementInv /\ [Next]_vars => [Last]_vars
  BY <1>1
<1> QED BY <1>2, SettlementInvariance, PTL DEF Spec, SealAfterRelease
=============================================================================
