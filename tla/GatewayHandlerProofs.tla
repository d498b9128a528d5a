------------------------ MODULE GatewayHandlerProofs ------------------------
(***************************************************************************)
(* Every step of a request handler keeps the invariant of the settlement.  *)
(***************************************************************************)
EXTENDS GatewayStepProofs

USE SMTT(30), ZenonT(30)

(* A step that leaves the journal's files alone leaves its records alone. *)
LEMMA JournalSame ==
  ASSUME JournalOK, UNCHANGED journalVars
  PROVE  JournalOK' /\ Journal' = Journal /\ Durable' = Durable
  BY DEF journalVars, JournalOK, Good, Durable, Journal

(* The reservation of a request, made or refused. *)
LEMMA AdmitKeeps ==
  ASSUME SettlementInv, NEW h \in Handlers, Admit(h)
  PROVE  SettlementInv'
<1> DEFINE r == Id[h]
<1>1. PICK out \in {"ok", "exists", "quota", "db"} :
        /\ ReserveQuota(r, out)
        /\ Goto(h, CASE out = "ok" -> "lease" [] out = "db" -> "unwind" [] OTHER -> "done")
        /\ job' = [job EXCEPT ![h].failed = (out = "db")]
  BY ZenonT(30) DEF Admit
<1> DEFINE step == CASE out = "ok" -> "lease" [] out = "db" -> "unwind" [] OTHER -> "done"
           j == [job[h] EXCEPT !.failed = (out = "db")]
<1>2. /\ r \in Req /\ StoreOK /\ HandlerOK(h) /\ pc[h] = "start" /\ job[h] = NoJob /\ HeldOK(r) /\ DecidedOK(r)
      /\ job[h] \in Jobs
  BY InvFacts DEF Admit, At, HandlerOK
<1>3. /\ StoreOK' /\ StoreGrow /\ UNCHANGED lease
      /\ out = "ok" => res[r].st = "none" /\ res'[r] = NewRow
      /\ \A q \in Req : HoldSame(q) /\ (res'[q].st = "active" => res[q].st = "active" \/ q = r)
  BY <1>1, <1>2, ReserveStep
<1>4. /\ step \in {"lease", "unwind", "done"} /\ (step = "lease" <=> out = "ok") /\ (step = "unwind" <=> out = "db")
  BY <1>1
<1>5. j \in Jobs /\ ~j.leased /\ (out = "db" => j.failed)
  <2>1. j \in Jobs /\ j.leased = job[h].leased /\ j.failed = (out = "db")
    BY ZenonT(30), <1>2 DEF Jobs
  <2> HIDE DEF j
  <2>2. ~job[h].leased
    BY <1>2 DEF NoJob
  <2>3. ~j.leased
    BY <2>1, <2>2
  <2>4. out = "db" => j.failed
    BY ZenonT(30), <2>1
  <2> QED BY <2>1, <2>3, <2>4
<1>6. Goes(h, step, j)
  BY ZenonT(30), <1>1 DEF Goes, Admit, Rest, Goto
<1>7. step \in AdmittedPCs \union OverPCs /\ ("lease" \in AdmittedPCs) /\ {"unwind", "done"} \subseteq OverPCs
  BY <1>4 DEF AdmittedPCs, OverPCs
<1> HIDE DEF step, j
<1>8. pc'[h] = step /\ job'[h] = j
  BY <1>5, <1>6, <1>7, GoesFacts
<1>9. HandlerOK(h)'
  <2>1. step \notin LeasedPCs /\ step \notin ArmedPCs \union {"arm", "settleNow"} /\ (step \in AdmittedPCs => step = "lease")
    BY <1>4 DEF LeasedPCs, ArmedPCs, AdmittedPCs
  <2>2. Id' = Id /\ NewRow.st # "none"
    BY DEF Id, Handlers, NewRow
  <2> QED BY <1>3, <1>4, <1>5, <1>8, <2>1, <2>2 DEF HandlerOK
<1>10. HeldOK(r)' /\ DecidedOK(r)'
  <2>1. Held(r) => step \in OverPCs \union {"release"} \/ (step \in {"lease", "refund"} /\ Decided(r))
    <3>1. res[r].st = "none" => ~res[r].hold
      BY <1>2, RowFacts DEF NoRow
    <3> QED BY ZenonT(30), <1>2, <1>3, <1>4, <1>7, <3>1 DEF Held, HeldOK
  <2>2. job[h].failed => j.failed
    BY <1>2 DEF NoJob
  <2> QED BY ZenonT(30), <1>2, <1>3, <1>5, <1>6, <1>7, <2>1, <2>2, HeldSelf
<1>11. OtherHoldsSame(r)
  BY <1>3 DEF OtherHoldsSame
<1>12. step \in AdmittedPCs => res[r].st = "none"
  BY ZenonT(30), <1>3, <1>4 DEF AdmittedPCs, LeasedPCs
<1> QED BY ZenonT(30), <1>2, <1>3, <1>4, <1>5, <1>6, <1>7, <1>9, <1>10, <1>11, <1>12, QuietStep

(* The concurrency slot, taken or refused. *)
LEMMA LeaseKeeps ==
  ASSUME SettlementInv, NEW h \in Handlers, Lease(h)
  PROVE  SettlementInv'
<1> DEFINE r == Id[h]
<1>1. PICK out \in {"ok", "quota", "db"} :
        /\ AcquireConcurrency(r, out)
        /\ Goto(h, IF out = "ok" THEN "call" ELSE "refund")
        /\ job' = [job EXCEPT ![h].leased = (out = "ok")]
  BY ZenonT(30) DEF Lease
<1> DEFINE step == IF out = "ok" THEN "call" ELSE "refund"
           j == [job[h] EXCEPT !.leased = (out = "ok")]
<1>2. /\ r \in Req /\ StoreOK /\ HandlerOK(h) /\ pc[h] = "lease" /\ HeldOK(r)
      /\ job[h] \in Jobs
  BY InvFacts DEF Lease, At
<1>3. /\ Closes(r) /\ UNCHANGED <<res, usage>> /\ \A q \in Req : HoldSame(q)
      /\ out = "ok" => lease[r] = "none" /\ lease'[r] # "none"
      /\ \A q \in Req \ {r} : lease[q] = "none" => lease'[q] = "none"
  BY <1>1, <1>2, LeaseStep
<1>4. j \in Jobs /\ j.leased = (out = "ok") /\ j.failed = job[h].failed /\ j.use = job[h].use
  BY ZenonT(30), <1>2 DEF Jobs
<1>5. Goes(h, step, j)
  BY ZenonT(30), <1>1 DEF Goes, Lease, Rest, Goto
<1>6. step \in AdmittedPCs /\ step \in {"call", "refund"} /\ (step = "call" <=> out = "ok")
  BY DEF AdmittedPCs, LeasedPCs
<1>7. pc'[h] = step /\ job'[h] = j
  BY <1>4, <1>5, <1>6, GoesFacts
<1> HIDE DEF step, j
<1>8. HandlerOK(h)'
  BY ZenonT(30), <1>2, <1>3, <1>4, <1>6, <1>7 DEF HandlerOK, LeasedPCs, ArmedPCs, AdmittedPCs, Id, Handlers
<1>9. HeldOK(r)' /\ DecidedOK(r)'
  <2>1. Held(r) => step \in {"lease", "refund"} /\ Decided(r)
    BY <1>2, <1>3, <1>6 DEF Held, HeldOK
  <2> QED BY <1>2, <1>3, <1>4, <1>5, <1>6, <2>1, HeldSelf DEF Closes
<1>10. pc[h] \in AdmittedPCs
  BY ZenonT(30), <1>2 DEF AdmittedPCs
<1> QED BY ZenonT(30), <1>2, <1>3, <1>4, <1>5, <1>6, <1>8, <1>9, <1>10, QuietStep DEF Closes

(* A step of a handler that has its reservation and keeps its locals. *)
LEMMA PlainStep ==
  ASSUME SettlementInv, NEW h \in Handlers, NEW step \in (AdmittedPCs \union OverPCs) \ {"start", "lease", "unwind"},
         Goto(h, step), UNCHANGED job, Rest, Closes(Id[h]),
         \A q \in Req : lease[q] = "none" => lease'[q] = "none",
         step \in AdmittedPCs => pc[h] \in AdmittedPCs,
         step \in LeasedPCs => job[h].leased,
         step \in ArmedPCs \union {"arm", "settleNow"} => job[h].use \in Uses,
         step \in {"demo", "drop", "seal"} => usage'[Id[h]] = job[h].use,
         step = "seal" => res'[Id[h]].st # "active",
         HeldOK(Id[h])' /\ DecidedOK(Id[h])',
         step \in OverPCs \union {"refund", "release"} \/ (pc[h] \in ArmedPCs /\ step \in ArmedPCs)
           \/ pc[h] \notin OverPCs \union ArmedPCs \union {"lease", "refund", "release"}
  PROVE  SettlementInv'
<1>1. Goes(h, step, job[h]) /\ job[h] \in Jobs
  BY ZenonT(30), KeepsJob
<1>2. pc'[h] = step /\ job'[h] = job[h] /\ Id[h] \in Req /\ HandlerOK(h) /\ Id' = Id
  BY ZenonT(30), <1>1, GoesFacts, InvFacts DEF Id, Handlers
<1>3. HandlerOK(h)'
  BY ZenonT(30), <1>2 DEF HandlerOK, Closes, StoreGrow
<1> QED BY ZenonT(30), <1>1, <1>2, <1>3, QuietStep DEF Closes

(* The hold of a request whose handler moves on without touching it. *)
LEMMA HeldPlain ==
  ASSUME SettlementInv, NEW h \in Handlers, NEW step \in AdmittedPCs \union OverPCs,
         Goto(h, step), UNCHANGED job, Rest, Closes(Id[h]), HoldSame(Id[h]),
         Held(Id[h]) => step \in OverPCs \union {"release"} \/ (step = "refund" /\ Decided(Id[h]))
  PROVE  HeldOK(Id[h])' /\ DecidedOK(Id[h])'
<1>1. Goes(h, step, job[h]) /\ job[h] \in Jobs
  BY ZenonT(30), KeepsJob
<1> QED BY ZenonT(30), <1>1, HeldSelf DEF Closes

(* Where a handler may be whose request is on hold. *)
LEMMA HeldAt ==
  ASSUME SettlementInv, NEW h \in Handlers, Held(Id[h])
  PROVE  /\ pc[h] \in OverPCs \union {"lease", "refund", "clamp", "release"}
         /\ pc[h] \in {"lease", "refund"} => Decided(Id[h])
         /\ pc[h] = "unwind" => Decided(Id[h])
  BY ZenonT(30), InvFacts DEF Held, HeldOK, HandlerOK, Decided

(* The request of this handler is put on hold, or its hold is decided. *)
LEMMA HeldNow ==
  ASSUME SettlementInv, StoreGrow, NEW h \in Handlers, NEW step \in OverPCs \union {"clamp", "release"},
         Goto(h, step), UNCHANGED job, Rest,
         pc[h] \in AdmittedPCs \/ Held(Id[h]), \A e \in Journal : e.key # Id[h], lease[Id[h]] # "none",
         res'[Id[h]].hold, res'[Id[h]].st \in {"active", "refunded"},
         res'[Id[h]].st = "refunded" => Decided(Id[h])
  PROVE  HeldOK(Id[h])' /\ DecidedOK(Id[h])'
<1> DEFINE r == Id[h]
<1>1. Goes(h, step, job[h]) /\ job[h] \in Jobs
  BY ZenonT(30), KeepsJob
<1>2. step \in AdmittedPCs \union OverPCs /\ step \notin {"lease", "refund"} /\ OverPCs \intersect {"lease", "refund"} = {}
  BY DEF AdmittedPCs, OverPCs, LeasedPCs
<1>3. /\ pc'[h] = step /\ \A g \in Handlers \ {h} : Same(g)
      /\ Journal' = Journal /\ UNCHANGED <<rcn, fin, job>> /\ r \in Req /\ Id' = Id /\ Handlers' = Handlers
  <2>1. pc'[h] = step /\ (\A g \in Handlers \ {h} : Same(g)) /\ Journal' = Journal /\ UNCHANGED rcn
    BY ZenonT(30), <1>1, <1>2, GoesFacts
  <2>2. fin' = fin /\ Id' = Id /\ Handlers' = Handlers /\ r \in Req
    BY ZenonT(30), InvFacts DEF Rest, Id, Handlers
  <2> QED BY ZenonT(30), <2>1, <2>2
<1>4. ASSUME NEW g \in Handlers, Id[g] = r
      PROVE  /\ pc'[g] \in OverPCs \union {"lease", "refund", "clamp", "release"}
             /\ pc'[g] \in {"lease", "refund"} => Decided(r)
  <2>1. CASE g = h
    BY ZenonT(30), <1>2, <1>3, <2>1
  <2>2. CASE g # h /\ pc[h] \in AdmittedPCs
    <3>1. pc[g] \notin AdmittedPCs /\ pc[g] \in AdmittedPCs \union OverPCs
      BY ZenonT(30), <1>4, <2>2, InvFacts DEF Alone
    <3> QED BY ZenonT(30), <1>2, <1>3, <2>2, <3>1 DEF Same
  <2>3. CASE g # h /\ Held(r)
    BY ZenonT(30), <1>3, <1>4, <2>3, HeldAt DEF Same
  <2> QED BY ZenonT(30), <2>1, <2>2, <2>3
<1>5. Decided(r)' <=> Decided(r)
  BY ZenonT(30), <1>3 DEF Decided
<1>6. lease'[r] # "none"
  BY ZenonT(30), <1>3 DEF StoreGrow
<1> QED BY ZenonT(30), <1>3, <1>4, <1>5, <1>6 DEF HeldOK, DecidedOK

(* The refunds of the request path. *)
LEMMA RefundKeeps ==
  ASSUME SettlementInv, NEW h \in Handlers, Unwind(h) \/ Refund(h)
  PROVE  SettlementInv'
<1> DEFINE r == Id[h]
           step == IF pc[h] = "refund" /\ job[h].leased THEN "release" ELSE "done"
<1>1. PICK out : RefundReservation(r, out)
  BY DEF Unwind, Refund
<1>2. /\ Goto(h, step) /\ UNCHANGED job /\ Rest /\ pc[h] \in {"unwind", "refund"}
  BY DEF Unwind, Refund, At
<1>3. r \in Req /\ StoreOK /\ HandlerOK(h)
  BY ZenonT(30), InvFacts
<1>4. /\ Closes(r) /\ UNCHANGED <<lease, usage>>
      /\ HoldSame(r) \/ (res[r].hold /\ res'[r].hold /\ res'[r].st = "refunded")
  BY ZenonT(30), <1>1, <1>3, CloseStep
<1>5. step \in {"release", "done"} /\ (step = "release" => pc[h] = "refund" /\ job[h].leased)
  BY ZenonT(30)
<1> HIDE DEF step
<1>6. HeldOK(r)' /\ DecidedOK(r)'
  <2>1. CASE HoldSame(r)
    <3>1. step \in OverPCs \union {"release"} /\ step \in AdmittedPCs \union OverPCs
      BY ZenonT(30), <1>5 DEF OverPCs, AdmittedPCs, LeasedPCs
    <3> QED BY ZenonT(30), <1>2, <1>4, <2>1, <3>1, HeldPlain
  <2>2. CASE res[r].hold /\ res'[r].hold /\ res'[r].st = "refunded"
    <3>1. Held(r) /\ Decided(r)
      <4>1. Held(r)
        BY ZenonT(30), <2>2 DEF Held
      <4> QED BY ZenonT(30), <1>2, <4>1, HeldAt
    <3>2. lease[r] # "none" /\ \A e \in Journal : e.key # r
      BY ZenonT(30), <1>3, <3>1, InvFacts DEF HeldOK, Held
    <3>3. step \in OverPCs \union {"clamp", "release"}
      BY <1>5 DEF OverPCs
    <3> QED BY ZenonT(30), <1>2, <1>4, <2>2, <3>1, <3>2, <3>3, HeldNow DEF Closes
  <2> QED BY ZenonT(30), <1>4, <2>1, <2>2
<1>7. /\ step \in (AdmittedPCs \union OverPCs) \ {"start", "lease", "unwind"}
      /\ step \in AdmittedPCs => step = "release" /\ pc[h] \in AdmittedPCs
      /\ step \notin ArmedPCs \union {"arm", "settleNow"} /\ step \notin {"demo", "drop", "seal"}
      /\ step \in OverPCs \union {"refund", "release"}
      /\ LeasedPCs \subseteq AdmittedPCs
  BY ZenonT(30), <1>5 DEF AdmittedPCs, LeasedPCs, OverPCs, ArmedPCs
<1> QED BY ZenonT(30), <1>2, <1>4, <1>5, <1>6, <1>7, PlainStep

(* The usage row of a refused request. *)
LEMMA AuditKeeps ==
  ASSUME SettlementInv, NEW h \in Handlers, Audit(h)
  PROVE  SettlementInv'
<1> DEFINE r == Id[h]
           use == [tok |-> 0, src |-> "audit"]
<1>1. PICK out : EnsureUsageEvent(r, use, out)
  BY DEF Audit
<1>2. /\ Goto(h, "refund") /\ UNCHANGED job /\ Rest /\ pc[h] = "audit"
  BY ZenonT(30) DEF Audit, At
<1>3. r \in Req /\ StoreOK /\ HandlerOK(h) /\ use \in Uses
  BY InvFacts, StoreConstants DEF Uses
<1> HIDE DEF use
<1>4. Closes(r) /\ UNCHANGED <<res, lease>> /\ HoldSame(r)
  BY ZenonT(30), <1>1, <1>3, EnsureStep
<1>5. ~Held(r)
  BY <1>2, HeldAt DEF OverPCs
<1>6. /\ "refund" \in (AdmittedPCs \union OverPCs) \ {"start", "lease", "unwind"} /\ "audit" \in AdmittedPCs
      /\ "refund" \notin LeasedPCs /\ "refund" \notin ArmedPCs \union {"arm", "settleNow"}
  BY DEF AdmittedPCs, LeasedPCs, ArmedPCs
<1>7. HeldOK(r)' /\ DecidedOK(r)'
  BY ZenonT(30), <1>2, <1>4, <1>5, <1>6, HeldPlain
<1> QED BY ZenonT(30), <1>2, <1>4, <1>6, <1>7, PlainStep

(* The settlement of a reservation. *)
LEMMA SettleKeeps ==
  ASSUME SettlementInv, NEW h \in Handlers, SettleNow(h) \/ Settle(h)
  PROVE  SettlementInv'
<1> DEFINE r == Id[h]
<1>1. PICK out :
        /\ SettleReservation(r, r \in Demo, job[h].use, out)
        /\ \/ pc[h] = "settleNow" /\ Goto(h, IF out = "ok" THEN "release" ELSE "refund")
           \/ pc[h] = "settle" /\ Goto(h, IF out = "ok" THEN "seal" ELSE "ensure")
  BY ZenonT(30) DEF SettleNow, Settle, At
<1> DEFINE step == IF out = "ok" THEN (IF pc[h] = "settle" THEN "seal" ELSE "release")
                   ELSE IF pc[h] = "settle" THEN "ensure" ELSE "refund"
<1>2. Goto(h, step) /\ UNCHANGED job /\ Rest
  BY ZenonT(30), <1>1 DEF SettleNow, Settle
<1>3. /\ \/ pc[h] = "settle" /\ step \in {"seal", "ensure"}
         \/ pc[h] = "settleNow" /\ step \in {"release", "refund"}
      /\ step = "seal" => out = "ok"
  BY ZenonT(30), <1>1
<1> HIDE DEF step
<1>4. r \in Req /\ StoreOK /\ HandlerOK(h) /\ job[h].leased /\ job[h].use \in Uses
  BY ZenonT(30), <1>3, InvFacts DEF HandlerOK, LeasedPCs, ArmedPCs
<1>5. /\ Closes(r) /\ UNCHANGED lease
      /\ out = "ok" => usage'[r] = job[h].use /\ res'[r].st = "settled"
      /\ HoldSame(r) \/ (res[r].hold /\ res'[r].hold /\ res'[r].st = "settled")
  BY SMT, <1>1, <1>4, SettleStep
<1>6. ~Held(r) /\ ~res[r].hold
  BY ZenonT(30), <1>3, HeldAt DEF OverPCs, Held
<1>7. /\ step \in (AdmittedPCs \union OverPCs) \ {"start", "lease", "unwind"} /\ pc[h] \in AdmittedPCs
      /\ \/ step \in OverPCs \union {"refund", "release"} \/ (pc[h] \in ArmedPCs /\ step \in ArmedPCs)
         \/ pc[h] \notin OverPCs \union ArmedPCs \union {"lease", "refund", "release"}
  BY ZenonT(30), <1>3 DEF AdmittedPCs, LeasedPCs, ArmedPCs, OverPCs
<1>8. HeldOK(r)' /\ DecidedOK(r)'
  BY ZenonT(30), <1>2, <1>5, <1>6, <1>7, HeldPlain
<1> QED BY ZenonT(30), <1>2, <1>3, <1>4, <1>5, <1>7, <1>8, PlainStep

(* The hold of a stream whose answer is not final, and its clamp. *)
LEMMA HoldKeeps ==
  ASSUME SettlementInv, NEW h \in Handlers, MarkHold(h) \/ Hold(h) \/ Clamp(h)
  PROVE  SettlementInv'
<1> DEFINE r == Id[h]
<1>1. PICK out :
        /\ MarkReservationSettlementHold(r, out) \/ ClampReservationExpiry(r, out)
        /\ \/ pc[h] = "mark" /\ Goto(h, IF out = "db" THEN "refund" ELSE "release") /\ (out = "db" => UNCHANGED res)
           \/ pc[h] = "hold" /\ Goto(h, IF out = "db" THEN "release" ELSE "clamp")
           \/ pc[h] = "clamp" /\ Goto(h, "release")
  BY ZenonT(30) DEF MarkHold, Hold, Clamp, At, MarkReservationSettlementHold
<1>2. PICK step \in {"refund", "release", "clamp"} :
        Goto(h, step) /\ (step = "refund" => UNCHANGED res /\ pc[h] = "mark") /\ (step = "clamp" => pc[h] = "hold")
  BY ZenonT(30), <1>1
<1>3. UNCHANGED job /\ Rest /\ pc[h] \in {"mark", "hold", "clamp"}
  BY ZenonT(30) DEF MarkHold, Hold, Clamp, At
<1>4. r \in Req /\ StoreOK /\ HandlerOK(h) /\ job[h].leased /\ lease[r] # "none"
  BY ZenonT(30), <1>3, InvFacts DEF HandlerOK, LeasedPCs
<1>5. /\ Closes(r) /\ UNCHANGED <<lease, usage>>
      /\ HoldSame(r) \/ (res'[r].hold /\ res'[r].st = "active" /\ res[r].st = "active")
  BY ZenonT(30), <1>1, <1>4, HoldStep
<1>6. \A e \in Journal : e.key # r
  BY ZenonT(30), <1>3, InvFacts DEF RecordOK, OverPCs, ArmedPCs
<1>7. /\ step \in (AdmittedPCs \union OverPCs) \ {"start", "lease", "unwind"} /\ pc[h] \in AdmittedPCs
      /\ step \notin ArmedPCs \union {"arm", "settleNow"} /\ step \notin {"demo", "drop", "seal"}
      /\ pc[h] \notin OverPCs \union ArmedPCs \union {"lease", "refund", "release"}
  BY ZenonT(30), <1>2, <1>3 DEF AdmittedPCs, LeasedPCs, ArmedPCs, OverPCs
<1>8. HeldOK(r)' /\ DecidedOK(r)'
  <2>1. Held(r) => pc[h] = "clamp" /\ step = "release"
    BY ZenonT(30), <1>2, <1>3, HeldAt DEF OverPCs
  <2>2. CASE HoldSame(r)
    BY ZenonT(30), <1>2, <1>3, <1>5, <1>7, <2>1, <2>2, HeldPlain
  <2>3. CASE ~HoldSame(r)
    <3>1. step # "refund" /\ step \in OverPCs \union {"clamp", "release"}
      BY ZenonT(30), <1>2, <2>3 DEF HoldSame
    <3> QED BY ZenonT(30), <1>2, <1>3, <1>4, <1>5, <1>6, <1>7, <2>3, <3>1, HeldNow DEF Closes
  <2> QED BY ZenonT(30), <2>2, <2>3
<1> QED BY ZenonT(30), <1>2, <1>3, <1>4, <1>5, <1>7, <1>8, PlainStep

(* The usage row that settlement did not write. *)
LEMMA EnsureKeeps ==
  ASSUME SettlementInv, NEW h \in Handlers, Ensure(h) \/ EnsureDemo(h)
  PROVE  SettlementInv'
<1> DEFINE r == Id[h]
<1>1. r \in Req /\ StoreOK /\ HandlerOK(h) /\ job[h].leased /\ job[h].use \in Uses /\ pc[h] \in {"ensure", "demo"}
  BY ZenonT(30), InvFacts DEF Ensure, EnsureDemo, At, HandlerOK, LeasedPCs, ArmedPCs
<1>2. PICK out :
        \/ pc[h] = "ensure" /\ EnsureUsageEvent(r, job[h].use, out) /\ Goto(h, IF out = "ok" THEN "demo" ELSE "refund")
        \/ pc[h] = "demo" /\ EnsureDemoUsageEvent(r) /\ Goto(h, "drop")
  BY ZenonT(30) DEF Ensure, EnsureDemo, At
<1>3. Closes(r) /\ UNCHANGED <<res, lease>> /\ HoldSame(r)
  BY ZenonT(30), <1>1, <1>2, EnsureStep
<1>4. PICK step \in {"demo", "refund", "drop"} :
        Goto(h, step) /\ (step \in {"demo", "drop"} => usage'[r] = job[h].use)
  <2>1. CASE pc[h] = "ensure" /\ EnsureUsageEvent(r, job[h].use, out) /\ Goto(h, IF out = "ok" THEN "demo" ELSE "refund")
    <3>1. out = "ok" => usage'[r] = job[h].use
      BY ZenonT(30), <1>1, <2>1, EnsureStep
    <3> QED BY ZenonT(30), <2>1, <3>1
  <2>2. CASE pc[h] = "demo" /\ EnsureDemoUsageEvent(r) /\ Goto(h, "drop")
    <3>1. usage' = usage /\ usage[r] = job[h].use
      BY ZenonT(30), <1>1, <2>2 DEF EnsureDemoUsageEvent, HandlerOK
    <3> QED BY ZenonT(30), <2>2, <3>1
  <2> QED BY ZenonT(30), <1>2, <2>1, <2>2
<1>5. UNCHANGED job /\ Rest
  BY ZenonT(30) DEF Ensure, EnsureDemo
<1>6. ~Held(r)
  BY ZenonT(30), <1>1, HeldAt DEF OverPCs
<1>7. /\ step \in (AdmittedPCs \union OverPCs) \ {"start", "lease", "unwind"} /\ pc[h] \in AdmittedPCs
      /\ step \in OverPCs \union {"refund", "release"} \/ (pc[h] \in ArmedPCs /\ step \in ArmedPCs)
      /\ step # "seal"
  BY ZenonT(30), <1>1, <1>4 DEF AdmittedPCs, LeasedPCs, ArmedPCs, OverPCs
<1>8. HeldOK(r)' /\ DecidedOK(r)'
  BY ZenonT(30), <1>3, <1>4, <1>5, <1>6, <1>7, HeldPlain
<1> QED BY ZenonT(30), <1>1, <1>3, <1>4, <1>5, <1>7, <1>8, PlainStep

(* The reservation of a request without a bill. *)
LEMMA DropKeeps ==
  ASSUME SettlementInv, NEW h \in Handlers, DropHold(h)
  PROVE  SettlementInv'
<1> DEFINE r == Id[h]
<1>1. r \in Req /\ StoreOK /\ HandlerOK(h) /\ job[h].leased /\ job[h].use \in Uses /\ pc[h] = "drop" /\ usage[r] = job[h].use
  BY ZenonT(30), InvFacts DEF DropHold, At, HandlerOK, LeasedPCs, ArmedPCs
<1>2. PICK out : RefundReservation(r, out) /\ Goto(h, IF out = "db" THEN "release" ELSE "seal")
  BY ZenonT(30) DEF DropHold
<1>3. /\ Closes(r) /\ UNCHANGED <<lease, usage>>
      /\ out # "db" => res'[r].st # "active"
      /\ HoldSame(r) \/ (res[r].hold /\ res'[r].hold /\ res'[r].st = "refunded")
  BY ZenonT(30), <1>1, <1>2, CloseStep
<1>4. PICK step \in {"release", "seal"} : Goto(h, step) /\ (step = "seal" => out # "db")
  BY <1>2
<1>5. UNCHANGED job /\ Rest
  BY DEF DropHold
<1>6. ~Held(r) /\ ~res[r].hold
  BY <1>1, HeldAt DEF OverPCs, Held
<1>7. /\ step \in (AdmittedPCs \union OverPCs) \ {"start", "lease", "unwind"} /\ pc[h] \in AdmittedPCs
      /\ step \in OverPCs \union {"refund", "release"} \/ (pc[h] \in ArmedPCs /\ step \in ArmedPCs)
  BY <1>1, <1>4 DEF AdmittedPCs, LeasedPCs, ArmedPCs, OverPCs
<1>8. HeldOK(r)' /\ DecidedOK(r)'
  BY <1>3, <1>4, <1>5, <1>6, <1>7, HeldPlain
<1> QED BY ZenonT(30), <1>1, <1>3, <1>4, <1>5, <1>7, <1>8, PlainStep

(* The end of a handler. *)
LEMMA ReleaseKeeps ==
  ASSUME SettlementInv, NEW h \in Handlers, Release(h)
  PROVE  SettlementInv'
<1> DEFINE r == Id[h]
<1>1. r \in Req /\ StoreOK /\ pc[h] = "release"
  BY InvFacts DEF Release, At
<1>2. ReleaseConcurrency(r) /\ Goto(h, "done") /\ UNCHANGED job /\ Rest
  BY DEF Release
<1>3. Closes(r) /\ HoldSame(r) /\ \A q \in Req : lease[q] = "none" => lease'[q] = "none"
  BY <1>1, <1>2, LeaseStep
<1>4. /\ "done" \in (AdmittedPCs \union OverPCs) \ {"start", "lease", "unwind"} /\ "done" \in OverPCs
      /\ "done" \notin AdmittedPCs /\ "done" \notin LeasedPCs /\ "done" \notin ArmedPCs \union {"arm", "settleNow"}
  BY DEF AdmittedPCs, LeasedPCs, ArmedPCs, OverPCs
<1>5. HeldOK(r)' /\ DecidedOK(r)'
  BY ZenonT(30), <1>2, <1>3, <1>4, HeldPlain
<1> QED BY <1>2, <1>3, <1>4, <1>5, PlainStep

(* A handler that has not armed its effect yet has no record. *)
LEMMA NoRecordYet ==
  ASSUME SettlementInv, NEW h \in Handlers, pc[h] \in {"call", "stream", "arm"}
  PROVE  /\ \A e \in Journal : e.key # Id[h]
         /\ ~Held(Id[h]) /\ pc[h] \in AdmittedPCs /\ job[h].leased /\ lease[Id[h]] # "none" /\ res[Id[h]].st # "none"
<1>1. pc[h] \notin OverPCs \union ArmedPCs \union {"lease", "refund", "clamp", "release"} /\ pc[h] \in LeasedPCs /\ pc[h] \in AdmittedPCs
  BY ZenonT(30) DEF OverPCs, ArmedPCs, LeasedPCs, AdmittedPCs
<1>2. ~Held(Id[h])
  BY ZenonT(30), <1>1, HeldAt
<1> QED BY ZenonT(30), <1>1, <1>2, InvFacts DEF RecordOK, HandlerOK

(* The answer of the coordinator. *)
LEMMA DispatchKeeps ==
  ASSUME SettlementInv, NEW h \in Handlers, Dispatch(h)
  PROVE  SettlementInv'
<1> DEFINE r == Id[h]
<1>1. pc[h] = "call" /\ UNCHANGED <<storeVars, journalVars, passVars, owed>>
  BY ZenonT(30) DEF Dispatch, At
<1>2. /\ StoreOK /\ JournalOK /\ LocalsOK /\ HandlerOK(h) /\ r \in Req /\ job[h] \in Jobs /\ job[h].leased
      /\ ~Held(r) /\ lease[r] # "none" /\ res[r].st # "none" /\ \A e \in Journal : e.key # r
  BY ZenonT(30), <1>1, InvFacts, NoRecordYet
<1> DEFINE Answer(step, j, f) ==
             /\ Goto(h, step) /\ job' = [job EXCEPT ![h] = j] /\ fin' = [fin EXCEPT ![r] = f]
             /\ j.leased = job[h].leased /\ j.failed = job[h].failed /\ (step = "settleNow" => j.use \in Uses)
           Steps == {"refund", "audit", "settleNow", "hold", "stream"}
<1>3. PICK step \in Steps, j \in Jobs, f \in Finalities : Answer(step, j, f)
  <2>0. job \in [Handlers -> Jobs] /\ fin \in [Req -> Finalities]
    BY <1>2 DEF LocalsOK
  <2>1. {Observe, Pending, Verified, ZeroSettled} \subseteq Finalities
    <3>1. Observe \in Finalities
      BY DEF Observe, Finalities
    <3>2. Pending \in Finalities /\ Verified \in Finalities /\ ZeroSettled \in Finalities
      BY ZenonT(30) DEF Pending, Verified, ZeroSettled, Enforce, Finalities
    <3> QED BY ZenonT(30), <3>1, <3>2
  <2>2. CASE \E step \in {"refund", "audit"} : Goto(h, step) /\ UNCHANGED <<job, fin>>
    <3>1. job' = [job EXCEPT ![h] = job[h]] /\ fin' = [fin EXCEPT ![r] = fin[r]] /\ fin[r] \in Finalities
      BY <1>2, <2>0, <2>2
    <3> QED BY ZenonT(30), <1>2, <2>2, <3>1
  <2>3. CASE \E f \in {Observe, Pending} :
               fin' = [fin EXCEPT ![r] = f] /\ Goto(h, "stream") /\ UNCHANGED job
    <3>1. job' = [job EXCEPT ![h] = job[h]]
      BY <2>0, <2>3
    <3> QED BY ZenonT(30), <1>2, <2>1, <2>3, <3>1
  <2>4. ASSUME NEW f \in {Observe, Pending, Verified, ZeroSettled}, NEW n \in {0, Ask}, NEW step \in {"refund", "settleNow", "hold"},
               fin' = [fin EXCEPT ![r] = f], job' = [job EXCEPT ![h].use = [tok |-> n, src |-> "gateway"]], Goto(h, step)
        PROVE  \E s \in Steps, j \in Jobs, x \in Finalities : Answer(s, j, x)
    <3> DEFINE u == [tok |-> n, src |-> "gateway"]
               j == [job[h] EXCEPT !.use = u]
    <3>1. u \in Uses
      BY StoreConstants DEF Uses
    <3> HIDE DEF u
    <3>2. j \in Jobs /\ j.leased = job[h].leased /\ j.failed = job[h].failed /\ j.use = u
      BY ZenonT(30), <1>2, <3>1 DEF Jobs
    <3>3. job' = [job EXCEPT ![h] = j]
      BY <2>4 DEF u
    <3> HIDE DEF j
    <3> QED BY ZenonT(30), <2>1, <2>4, <3>1, <3>2, <3>3
  <2> QED BY ZenonT(30), <2>2, <2>3, <2>4 DEF Dispatch
<1>4. pc' = [pc EXCEPT ![h] = step] /\ step \in AdmittedPCs /\ step \notin ArmedPCs \union {"arm"}
      /\ step \notin {"start", "lease", "unwind", "demo", "drop", "seal"}
  BY <1>3 DEF Goto, AdmittedPCs, LeasedPCs, ArmedPCs
<1>5. /\ pc'[h] = step /\ job'[h] = j /\ (\A g \in Handlers \ {h} : Same(g)) /\ (\A q \in Req \ {r} : fin'[q] = fin[q])
      /\ pc' \in [Handlers -> AdmittedPCs \union OverPCs] /\ job' \in [Handlers -> Jobs] /\ fin' \in [Req -> Finalities]
  BY <1>2, <1>3, <1>4 DEF LocalsOK, Same
<1>6. UNCHANGED <<res, lease, usage, demo, segs, open, torn, rcv, rcn, owed>>
  BY ZenonT(30), <1>1 DEF storeVars, journalVars, passVars
<1>7. StoreOK' /\ StoreGrow /\ \A q \in Req : HoldSame(q)
  BY ZenonT(30), <1>2, <1>6 DEF StoreOK, StoreGrow, HoldSame
<1>8. JournalOK' /\ KeepsEffects /\ Journal' = Journal
  BY <1>2, <1>6 DEF JournalOK, Good, KeepsEffects, Durable, Journal
<1>9. LocalsOK' /\ OwedOK'
  BY ZenonT(30), <1>2, <1>5, <1>6, <1>7, <1>8, OwedFrame DEF LocalsOK, Handlers
<1>10. Moves(h, {})
  <2>1. pc[h] \in AdmittedPCs
    BY ZenonT(30), <1>1 DEF AdmittedPCs, LeasedPCs
  <2> QED BY ZenonT(30), <1>4, <1>5, <1>6, <1>7, <1>8, <2>1 DEF Moves, OtherHoldsSame
<1>11. HandlerOK(h)'
  <2>1. Id' = Id
    BY ZenonT(30) DEF Id, Handlers
  <2> QED BY ZenonT(30), <1>2, <1>3, <1>4, <1>5, <1>6, <2>1 DEF HandlerOK
<1>12. HeldOK(r)' /\ DecidedOK(r)'
  <2>1. ~Held(r)'
    BY ZenonT(30), <1>2, <1>6 DEF Held, Listed
  <2> QED BY ZenonT(30), <2>1 DEF Held, HeldOK, DecidedOK
<1> QED BY <1>2, <1>9, <1>10, <1>11, <1>12, HandlerStep

(* The end of a stream. *)
LEMMA StreamEndsKeeps ==
  ASSUME SettlementInv, NEW h \in Handlers, StreamEnds(h)
  PROVE  SettlementInv'
<1> DEFINE r == Id[h]
<1>1. pc[h] = "stream" /\ UNCHANGED storeVars /\ Rest
  BY ZenonT(30) DEF StreamEnds, At
<1>2. /\ StoreOK /\ LocalsOK /\ HandlerOK(h) /\ r \in Req /\ job[h] \in Jobs /\ job[h].leased
      /\ ~Held(r) /\ lease[r] # "none" /\ res[r].st # "none" /\ pc[h] \in AdmittedPCs
  BY ZenonT(30), <1>1, InvFacts, NoRecordYet
<1>3. PICK n \in {1, Ask} : job' = [job EXCEPT ![h].use = [tok |-> n, src |-> "gateway"]]
  BY ZenonT(30) DEF StreamEnds
<1> DEFINE u == [tok |-> n, src |-> "gateway"]
           j == [job[h] EXCEPT !.use = u]
<1>4. u \in Uses
  BY StoreConstants DEF Uses
<1>5. job' = [job EXCEPT ![h] = j]
  BY <1>3
<1> HIDE DEF u
<1>6. j \in Jobs /\ j.leased = job[h].leased /\ j.failed = job[h].failed /\ j.use = u
  BY ZenonT(30), <1>2, <1>4 DEF Jobs
<1> HIDE DEF j
<1>7. PICK step \in {"arm", "mark", "refund", "hold"} : Goto(h, step)
  BY DEF StreamEnds
<1>8. Goes(h, step, j)
  BY <1>1, <1>5, <1>7 DEF Goes, Goto, Rest
<1>9. /\ step \in AdmittedPCs /\ step \notin ArmedPCs
      /\ step \notin {"start", "lease", "unwind", "demo", "drop", "seal"}
      /\ "stream" \notin OverPCs \union ArmedPCs \union {"lease", "refund", "release"}
  BY ZenonT(30) DEF AdmittedPCs, LeasedPCs, ArmedPCs, OverPCs
<1>10. pc'[h] = step /\ job'[h] = j
  BY ZenonT(30), <1>6, <1>8, <1>9, GoesFacts
<1>11. UNCHANGED <<res, lease, usage, demo>> /\ StoreOK' /\ StoreGrow /\ \A q \in Req : HoldSame(q)
  BY ZenonT(30), <1>1, <1>2 DEF storeVars, StoreOK, StoreGrow, HoldSame
<1>12. HandlerOK(h)'
  <2>1. Id' = Id
    BY ZenonT(30) DEF Id, Handlers
  <2> QED BY ZenonT(30), <1>2, <1>4, <1>6, <1>9, <1>10, <1>11, <2>1 DEF HandlerOK
<1>13. HeldOK(r)' /\ DecidedOK(r)'
  BY ZenonT(30), <1>2, <1>6, <1>8, <1>9, <1>11, HeldSelf
<1>14. OtherHoldsSame(r)
  BY ZenonT(30), <1>11 DEF OtherHoldsSame
<1> QED BY ZenonT(30), <1>1, <1>2, <1>6, <1>8, <1>9, <1>11, <1>12, <1>13, <1>14, QuietStep

(* The effect written before the settlement. *)
LEMMA ArmKeeps ==
  ASSUME SettlementInv, NEW h \in Handlers, Arm(h)
  PROVE  SettlementInv'
<1> DEFINE r == Id[h]
<1>0. PICK rec : rec = Effect(r, job[h].use)
  OBVIOUS
<1>1. PICK ok \in BOOLEAN :
        /\ AppendRecord(rec, ok)
        /\ job' = [job EXCEPT ![h].armed = ok]
        /\ owed' = IF ok /\ ~Swallowed THEN owed \union {r} ELSE owed
  BY ZenonT(30), <1>0 DEF Arm
<1>2. pc[h] = "arm" /\ pc' = [pc EXCEPT ![h] = "settle"] /\ UNCHANGED <<res, lease, usage, demo, fin, rcv, rcn>>
  BY DEF Arm, At, Goto, passVars
<1>3. /\ StoreOK /\ JournalOK /\ LocalsOK /\ HandlerOK(h) /\ r \in Req /\ job[h] \in Jobs /\ job[h].leased
      /\ ~Held(r) /\ lease[r] # "none" /\ res[r].st # "none" /\ (\A e \in Journal : e.key # r)
      /\ job[h].use \in Uses /\ pc[h] \in AdmittedPCs
  BY ZenonT(30), <1>2, InvFacts, NoRecordYet DEF HandlerOK
<1>4. rec \in Records /\ rec.kind = "effect" /\ rec.key = r /\ rec.use = job[h].use
  BY <1>0, <1>3 DEF Records, Effect
<1>5. Appends(rec) /\ (ok /\ ~Swallowed => rec \in Durable')
  BY ZenonT(30), <1>1, <1>3, <1>4, AppendStep
<1>6. /\ pc'[h] = "settle" /\ job'[h].leased = job[h].leased /\ job'[h].use = job[h].use /\ job'[h].failed = job[h].failed
      /\ pc' \in [Handlers -> AdmittedPCs \union OverPCs] /\ job' \in [Handlers -> Jobs]
      /\ \A g \in Handlers \ {h} : Same(g)
  <2>1. "settle" \in AdmittedPCs
    BY DEF AdmittedPCs, LeasedPCs
  <2>2. pc'[h] = "settle" /\ pc' \in [Handlers -> AdmittedPCs \union OverPCs] /\ \A g \in Handlers \ {h} : pc'[g] = pc[g]
    BY <1>2, <1>3, <2>1 DEF LocalsOK
  <2> DEFINE j == [job[h] EXCEPT !.armed = ok]
  <2>3. j \in Jobs /\ j.leased = job[h].leased /\ j.failed = job[h].failed /\ j.use = job[h].use
    BY ZenonT(30), <1>3 DEF Jobs
  <2>4. job' = [job EXCEPT ![h] = j]
    BY <1>1
  <2> HIDE DEF j
  <2>5. job'[h] = j /\ job' \in [Handlers -> Jobs] /\ \A g \in Handlers \ {h} : job'[g] = job[g]
    BY <1>3, <2>3, <2>4 DEF LocalsOK
  <2> QED BY <2>2, <2>3, <2>5 DEF Same
<1>7. StoreOK' /\ StoreGrow /\ \A q \in Req : HoldSame(q)
  BY <1>2, <1>3 DEF StoreOK, StoreGrow, HoldSame
<1>8. LocalsOK' /\ OwedOK'
  <2>1. owed' \subseteq Req /\ \A q \in owed' : q \in owed \/ (ok /\ ~Swallowed /\ q = r)
    BY <1>1, <1>3 DEF LocalsOK
  <2>2. LocalsOK'
    BY ZenonT(30), <1>2, <1>3, <1>6, <2>1 DEF LocalsOK, Handlers
  <2>3. \A q \in owed' : q \in owed \/ \E e \in Durable' : e.kind = "effect" /\ e.key = q
    BY ZenonT(30), <1>4, <1>5, <2>1
  <2> QED BY <1>5, <1>7, <2>2, <2>3, OwedFrame DEF Appends
<1>9. Moves(h, {rec})
  BY ZenonT(30), <1>2, <1>3, <1>4, <1>5, <1>6, <1>7 DEF Moves, OtherHoldsSame, Appends
<1>10. HandlerOK(h)'
  <2>1. Id' = Id /\ "settle" \in LeasedPCs
    BY ZenonT(30) DEF Id, Handlers, LeasedPCs
  <2> QED BY ZenonT(30), <1>2, <1>3, <1>6, <2>1 DEF HandlerOK
<1>11. HeldOK(r)' /\ DecidedOK(r)'
  <2>1. ~Held(r)'
    BY ZenonT(30), <1>2, <1>3 DEF Held, Listed
  <2> QED BY ZenonT(30), <2>1 DEF Held, HeldOK, DecidedOK
<1>12. RecordOK(rec)'
  <2>1. Id' = Id /\ Handlers' = Handlers /\ "settle" \in ArmedPCs /\ OverPCs \intersect ArmedPCs = {}
    BY DEF Id, Handlers, ArmedPCs, OverPCs
  <2>2. ASSUME NEW g \in Handlers, Id[g] = r
        PROVE  /\ pc'[g] \in OverPCs \union ArmedPCs
               /\ pc'[g] \in ArmedPCs => job'[g].use = rec.use
    <3>1. CASE g = h
      BY ZenonT(30), <1>4, <1>6, <2>1, <3>1
    <3>2. CASE g # h
      <4>1. pc[g] \notin AdmittedPCs /\ pc[g] \in AdmittedPCs \union OverPCs
        BY ZenonT(30), <1>3, <2>2, <3>2, InvFacts DEF Alone
      <4> QED BY ZenonT(30), <1>6, <2>1, <3>2, <4>1 DEF Same
    <3> QED BY ZenonT(30), <3>1, <3>2
  <2>3. \A f \in Journal' : f.key = r => f = rec
    BY ZenonT(30), <1>3, <1>5 DEF Appends
  <2> QED BY ZenonT(30), <1>2, <1>3, <1>4, <2>1, <2>2, <2>3 DEF RecordOK
<1>13. /\ \A e \in Journal : e.key = Id[h] => Follows(h) /\ \A f \in {rec} : f.kind # "effect"
       /\ \A e \in {rec} : RecordOK(e)'
  BY ZenonT(30), <1>3, <1>12
<1>14. PICK new : new = {rec}
  BY ZenonT(30)
<1>15. /\ Moves(h, new) /\ \A e \in new : RecordOK(e)'
       /\ \A e \in Journal : e.key = Id[h] => Follows(h) /\ \A f \in new : f.kind # "effect"
  BY ZenonT(30), <1>9, <1>13, <1>14
<1> QED BY ZenonT(60), <1>8, <1>10, <1>11, <1>15, HandlerStep

(* The seal written after it. *)
LEMMA SealKeeps ==
  ASSUME SettlementInv, NEW h \in Handlers, SealEffect(h)
  PROVE  SettlementInv'
<1> DEFINE r == Id[h]
           rec == Seal(r)
<1>1. /\ pc[h] = "seal" /\ pc' = [pc EXCEPT ![h] = "release"]
      /\ UNCHANGED <<res, lease, usage, demo, job, fin, rcv, rcn, owed>>
  BY ZenonT(30) DEF SealEffect, At, Goto, passVars
<1>2. /\ StoreOK /\ JournalOK /\ LocalsOK /\ HandlerOK(h) /\ r \in Req /\ job[h] \in Jobs /\ job[h].leased
      /\ lease[r] # "none" /\ job[h].use \in Uses /\ usage[r] = job[h].use /\ pc[h] \in AdmittedPCs /\ pc[h] \in ArmedPCs
      /\ NoUse \notin Uses
  BY ZenonT(30), <1>1, InvFacts DEF HandlerOK, ArmedPCs, LeasedPCs, AdmittedPCs
<1>3. rec \in Records /\ rec.kind = "seal" /\ rec.key = r
  BY ZenonT(30), <1>2 DEF Records, Seal
<1> HIDE DEF rec
<1>4. Appends(rec)
  <2>1. CASE UNCHANGED journalVars
    <3>1. JournalOK' /\ Journal' = Journal /\ Durable' = Durable
      BY ZenonT(30), <1>2, <2>1, JournalSame
    <3> QED BY ZenonT(30), <3>1 DEF Appends, KeepsEffects
  <2>2. CASE \E ok \in BOOLEAN : AppendRecord(rec, ok)
    BY <1>2, <1>3, <2>2, AppendStep
  <2> QED BY ZenonT(30), <2>1, <2>2 DEF SealEffect, rec
<1>5. /\ pc'[h] = "release" /\ (\A g \in Handlers \ {h} : Same(g)) /\ job'[h] = job[h]
      /\ pc' \in [Handlers -> AdmittedPCs \union OverPCs]
  <2>1. "release" \in AdmittedPCs
    BY DEF AdmittedPCs, LeasedPCs
  <2> QED BY <1>1, <1>2, <2>1 DEF LocalsOK, Same
<1>6. StoreOK' /\ StoreGrow /\ \A q \in Req : HoldSame(q)
  BY <1>1, <1>2 DEF StoreOK, StoreGrow, HoldSame
<1>7. LocalsOK' /\ OwedOK'
  BY ZenonT(30), <1>1, <1>2, <1>4, <1>5, <1>6, OwedFrame DEF LocalsOK, Handlers, Appends
<1>8. Moves(h, {rec})
  BY ZenonT(30), <1>1, <1>2, <1>3, <1>4, <1>5, <1>6 DEF Moves, OtherHoldsSame, Appends
<1>9. HandlerOK(h)'
  <2>1. Id' = Id /\ "release" \in LeasedPCs /\ "release" \in AdmittedPCs /\ "release" \notin ArmedPCs \union {"arm", "settleNow"}
    BY ZenonT(30) DEF Id, Handlers, LeasedPCs, AdmittedPCs, ArmedPCs
  <2> QED BY ZenonT(30), <1>1, <1>2, <1>5, <2>1 DEF HandlerOK
<1>10. HeldOK(r)' /\ DecidedOK(r)'
  <2>1. ~Held(r)
    BY ZenonT(30), <1>1, HeldAt DEF OverPCs
  <2>2. ~Held(r)'
    BY ZenonT(30), <1>1, <2>1 DEF Held, Listed
  <2> QED BY ZenonT(30), <2>2 DEF Held, HeldOK, DecidedOK
<1>11. RecordOK(rec)'
  <2>1. Id' = Id /\ Handlers' = Handlers
    BY DEF Id, Handlers
  <2>2. ASSUME NEW g \in Handlers, Id[g] = r
        PROVE  pc'[g] \in OverPCs \union {"release"}
    <3>1. CASE g = h
      BY ZenonT(30), <1>5, <3>1
    <3>2. CASE g # h
      <4>1. pc[g] \notin AdmittedPCs /\ pc[g] \in AdmittedPCs \union OverPCs
        BY ZenonT(30), <1>2, <2>2, <3>2, InvFacts DEF Alone
      <4> QED BY ZenonT(30), <1>5, <3>2, <4>1 DEF Same
    <3> QED BY ZenonT(30), <3>1, <3>2
  <2>3. ASSUME NEW f \in Journal', f.key = r, f.kind = "effect"
        PROVE  usage[r] = f.use
    <3>1. f \in Journal
      BY ZenonT(30), <1>3, <1>4, <2>3 DEF Appends
    <3> QED BY ZenonT(30), <1>2, <2>3, <3>1, InvFacts DEF RecordOK
  <2> QED BY ZenonT(30), <1>1, <1>2, <1>3, <2>1, <2>2, <2>3 DEF RecordOK
<1>12. Follows(h)
  BY ZenonT(30), <1>5 DEF Follows
<1>13. PICK new : new = {rec}
  BY ZenonT(30)
<1>14. /\ Moves(h, new) /\ \A e \in new : RecordOK(e)'
       /\ \A e \in Journal : e.key = Id[h] => Follows(h) /\ \A f \in new : f.kind # "effect"
  BY ZenonT(30), <1>3, <1>8, <1>11, <1>12, <1>13
<1> QED BY ZenonT(60), <1>7, <1>9, <1>10, <1>14, HandlerStep

(* Every step of a handler keeps the invariant. *)
LEMMA HandlerKeeps ==
  ASSUME SettlementInv, NEW h \in Handlers, Handler(h)
  PROVE  SettlementInv'
  BY ZenonT(30), AdmitKeeps, LeaseKeeps, RefundKeeps, AuditKeeps, SettleKeeps, HoldKeeps, EnsureKeeps, DropKeeps,
     ReleaseKeeps, DispatchKeeps, StreamEndsKeeps, ArmKeeps, SealKeeps DEF Handler

=============================================================================
