--------------------- MODULE BuyerForwardStepProofs ----------------------
(***************************************************************************)
(* The steps of BuyerForward at which a provider holds the attempt keep    *)
(* the invariant, each by way of one lemma on such steps, FlightStep.      *)
(***************************************************************************)
EXTENDS BuyerForward, TLAPS

USE DEF None, Fault, NoFault
USE SMTT(30), ZenonT(30)

(* What is assumed of the configuration: the retry limit is a number, and  *)
(* no provider has the name that stands for "no pin".                      *)
ForwardConstants == MaxRetries \in Nat /\ None \notin Providers /\ Provisional \subseteq Providers

-----------------------------------------------------------------------------
(* Types.                                                                  *)

(* What no step of an attempt in flight changes. *)
Flight == UNCHANGED <<req, kind, seq, prov, excluded, faulted, retries, faultedN, failedOver, busy,
                      readied, gone, tried, replayed, nowOut>>
PCs == FlightPCs \cup AfterPCs \cup {"select", "dispatch", "done"}
LogOK == credited \in BOOLEAN /\ rows \in Seq(LogRows) /\ attemptN \in Nat /\ logFaults \in Nat
ClaimOK == claim \in Nat /\ late \in Nat /\ marked \in BOOLEAN

(* A step of an attempt keeps the types when it keeps those of what it     *)
(* changes.                                                                *)
LEMMA FlightTypes ==
  ASSUME TypeOK, Flight, pc' \in PCs, out' \in Outs, sent' \in BOOLEAN, ClaimOK', LogOK',
         quota' \in [Providers -> Int]
  PROVE  TypeOK'
  BY DEF TypeOK, Flight, PCs, LogOK, ClaimOK

(* What a step of an attempt leaves alone. *)
LEMMA FrameFlight ==
  ASSUME streamFrame
  PROVE  Flight /\ UNCHANGED log
  BY DEF streamFrame, Flight, inputs, route, sentOut

(* An answer, or none, keeps the types of what the buyer has. *)
LEMMA SilentTypes ==
  ASSUME TypeOK, Silent
  PROVE  ClaimOK'
  BY DEF Silent, TypeOK, ClaimOK
(* The same of a status line. *)
LEMMA AnswerTypes ==
  ASSUME TypeOK, NEW code \in Nat, NEW cr \in BOOLEAN, Answer(code, cr)
  PROVE  ClaimOK'
<1>1. NoChargeMarker(code, cr, nowOut) \in BOOLEAN
  BY DEF NoChargeMarker
<1> QED BY <1>1 DEF Answer, TypeOK, ClaimOK

(* The first status line of an attempt at hand: only a 503 is marked. *)
LEMMA FirstAnswer ==
  ASSUME claim = 0, nowOut, NEW code \in Nat \ {503}, NEW cr \in BOOLEAN, Answer(code, cr)
  PROVE  claim' = code /\ late' = late /\ ~marked' /\ marked' \in BOOLEAN
<1>1. NoChargeMarker(code, cr, nowOut) = FALSE
  BY DEF NoChargeMarker
<1> QED BY ZenonT(30), <1>1 DEF Answer

(* A row, written or not, keeps the types of the log. *)
LEMMA RowTypes ==
  ASSUME TypeOK, NEW ok \in BOOLEAN, NEW st \in Nat, NEW f \in {NoFault, Fault}, prov \in Providers,
         Row(ok, st, f)
  PROVE  LogOK'
<1> DEFINE r == [n |-> attemptN, p |-> prov, status |-> st, fault |-> f]
<1>1. r \in LogRows
  BY DEF TypeOK, LogRows
<1>2. rows' \in Seq(LogRows)
  <2> HIDE DEF r
  <2>1. Append(rows, r) \in Seq(LogRows)
    BY <1>1 DEF TypeOK
  <2>2. rows' = rows \/ rows' = Append(rows, r)
    BY DEF Row, r
  <2>3. rows \in Seq(LogRows)
    BY DEF TypeOK
  <2> QED BY ZenonT(30), <2>1, <2>2, <2>3
<1>3. credited' \in BOOLEAN
  BY DEF Row
<1> QED BY <1>2, <1>3 DEF Row, TypeOK, LogOK

-----------------------------------------------------------------------------
(* The steps that write a row.                                             *)

(* The rows of a provider count the rows that name it: the step from one   *)
(* log to the next, as a premise of what follows.                          *)
RowsAdd ==
    \A r \in LogRows : rows' = Append(rows, r) =>
        \A p \in Providers : RowsOf(p)' = RowsOf(p) + (IF r.p = p THEN 1 ELSE 0)

(* A row written before the attempt was logged: it is the only one that    *)
(* could be credited, it has an ordinal of its own, and it counts for the  *)
(* provider of the attempt.                                                *)
LEMMA RowWritten ==
  ASSUME ForwardInv, RowsAdd, prov \in Providers, pc # "done", ~(pc = "decide" /\ out.log = "logged"),
         NEW ok \in BOOLEAN, NEW st \in Nat, NEW f \in {NoFault, Fault}, Row(ok, st, f)
  PROVE  /\ \A i, j \in DOMAIN rows' : Credits(rows'[i]) /\ Credits(rows'[j]) => i = j
         /\ \A i \in DOMAIN rows' : Credits(rows'[i]) => st < 400 /\ f = NoFault
         /\ \A i \in DOMAIN rows' : rows'[i].n < attemptN'
         /\ \A i, j \in DOMAIN rows' : i # j => rows'[i].n # rows'[j].n
         /\ logFaults' = 0 => attemptN' = Len(rows')
         /\ attemptN' = attemptN + 1
         /\ ok => \E i \in DOMAIN rows' : rows'[i].status = st
         /\ \A p \in Providers : RowsOf(p)' \in Nat
         /\ logFaults' = 0 => /\ logFaults = 0
                              /\ \A p \in Providers : RowsOf(p)' = RowsOf(p) + (IF p = prov THEN 1 ELSE 0)
<1> USE DEF ForwardInv
<1> DEFINE r == [n |-> attemptN, p |-> prov, status |-> st, fault |-> f]
<1>0. \A p \in Providers : RowsOf(p) \in Nat
  BY DEF Quotas
<1>1. r \in LogRows /\ r.n = attemptN /\ r.p = prov /\ r.status = st /\ r.fault = f
  BY DEF TypeOK, LogRows
<1>2. attemptN' = attemptN + 1 /\ rows' = (IF ok THEN Append(rows, r) ELSE rows)
      /\ logFaults' = (IF ok THEN logFaults ELSE logFaults + 1)
  BY DEF Row
<1> HIDE DEF r
<1>3. attemptN \in Nat /\ logFaults \in Nat /\ rows \in Seq(LogRows) /\ Len(rows) \in Nat
  BY DEF TypeOK
<1>4. (\A i \in DOMAIN rows : ~Credits(rows[i])) /\ (\A i \in DOMAIN rows : rows[i].n < attemptN /\ rows[i].n \in Nat)
      /\ (\A i, j \in DOMAIN rows : i # j => rows[i].n # rows[j].n) /\ (logFaults = 0 => attemptN = Len(rows))
  <2>1. \A i \in DOMAIN rows : rows[i] \in LogRows
    BY <1>3
  <2> QED BY <2>1 DEF Credited, Numbered, LogRows
<1>5. CASE ok
  <2>1. DOMAIN rows' = DOMAIN rows \cup {Len(rows) + 1} /\ rows'[Len(rows) + 1] = r
        /\ (\A i \in DOMAIN rows : rows'[i] = rows[i]) /\ Len(rows') = Len(rows) + 1
    BY <1>1, <1>2, <1>3, <1>5
  <2>2. Credits(r) => st < 400 /\ f = NoFault
    BY <1>1 DEF Credits
  <2>3. /\ \A i, j \in DOMAIN rows' : Credits(rows'[i]) /\ Credits(rows'[j]) => i = j
        /\ \A i \in DOMAIN rows' : Credits(rows'[i]) => st < 400 /\ f = NoFault
    <3> HIDE DEF Credits
    <3> QED BY <1>4, <2>1, <2>2
  <2>4. \A i \in DOMAIN rows' : rows'[i].n < attemptN'
    BY <1>1, <1>2, <1>3, <1>4, <2>1
  <2>5. \A i, j \in DOMAIN rows' : i # j => rows'[i].n # rows'[j].n
    BY <1>1, <1>3, <1>4, <2>1
  <2>6. \A p \in Providers : RowsOf(p)' = RowsOf(p) + (IF p = prov THEN 1 ELSE 0)
    BY <1>1, <1>2, <1>5 DEF RowsAdd
  <2>8. \A p \in Providers : RowsOf(p)' \in Nat
    <3> HIDE DEF RowsOf
    <3> QED BY <1>0, <2>6
  <2>7. rows'[Len(rows) + 1].status = st /\ Len(rows) + 1 \in DOMAIN rows'
    BY <1>1, <2>1
  <2> HIDE DEF Credits, RowsOf
  <2> QED BY <1>2, <1>3, <1>4, <1>5, <2>1, <2>3, <2>4, <2>5, <2>6, <2>7, <2>8
<1>6. CASE ~ok
  <2>1. rows' = rows /\ logFaults' # 0
    BY <1>2, <1>3, <1>6
  <2>2. \A p \in Providers : RowsOf(p)' \in Nat
    BY <1>0, <2>1 DEF RowsOf
  <2> HIDE DEF Credits, RowsOf
  <2> QED BY <1>2, <1>3, <1>4, <1>6, <2>1, <2>2
<1> QED BY <1>5, <1>6

(* A write that succeeds leaves a row with its status. *)
LEMMA RowExists ==
  ASSUME TypeOK, NEW st, NEW f, Row(TRUE, st, f)
  PROVE  \E i \in DOMAIN rows' : rows'[i].status = st
<1>1. PICK r : r = [n |-> attemptN, p |-> prov, status |-> st, fault |-> f]
  BY ZenonT(30)
<1>2. rows' = Append(rows, r) /\ r.status = st
  BY <1>1 DEF Row
<1>3. Len(rows) + 1 \in DOMAIN rows' /\ rows'[Len(rows) + 1] = r
  BY <1>2 DEF TypeOK
<1> QED BY <1>2, <1>3

(* The last step of a request: a row of the attempt, or none where it has  *)
(* one or needs none, and an answer, or none where there was one.          *)
Logs ==
    \/ /\ pc = "decide" => out.log = "row"
       /\ \E ok \in BOOLEAN, st \in Nat, f \in {NoFault, Fault} : Row(ok, st, f)
    \/ UNCHANGED log /\ ~Charged /\ (pc = "dispatch" \/ (pc = "decide" /\ out.log \in {"logged", "empty"}))
Replies ==
    \/ Silent /\ (marked => ~credited')
    \/ /\ pc # "decide"
       /\ \E code \in Nat \ {0} : /\ Answer(code, credited')
                                  /\ ~req.stream /\ code = 200 => \E i \in DOMAIN rows' : rows'[i].status = 200

(* Such a step keeps the invariant. *)
LEMMA Finish ==
  ASSUME ForwardConstants, ForwardInv, RowsAdd, pc \in {"dispatch"} \cup FlightPCs \cup AfterPCs, pc' = "done",
         Flight, UNCHANGED <<out, quota>>, sent' \in BOOLEAN, Logs, Replies
  PROVE  ForwardInv'
<1> USE DEF ForwardInv
<1>1. prov \in Providers /\ pc # "done" /\ (out.log = "logged" \/ out.log = "empty" => pc = "decide")
      /\ (out.log \in {"row", "logged", "empty"}) /\ nowOut \in BOOLEAN
  BY DEF Placed, FlightPCs, StreamPCs, AfterPCs, TypeOK, Outs
<1>2. LogOK' /\ (pc # "decide" => (~req.stream => claim = 0) /\ ~marked)
  <2>1. LogOK'
    <3>1. ASSUME NEW ok \in BOOLEAN, NEW st \in Nat, NEW f \in {NoFault, Fault}, Row(ok, st, f) PROVE LogOK'
      BY <1>1, <3>1, RowTypes
    <3>2. CASE UNCHANGED log
      BY <3>2 DEF log, LogOK, TypeOK
    <3> QED BY <3>1, <3>2 DEF Logs
  <2> QED BY <1>1, <2>1 DEF Answered
<1>3. ClaimOK'
  <2>1. credited' \in BOOLEAN
    BY <1>2 DEF LogOK
  <2> QED BY <2>1, SilentTypes, AnswerTypes DEF Replies
<1>4. TypeOK'
  BY <1>2, <1>3, FlightTypes DEF PCs, TypeOK
<1>5. Placed'
  BY DEF Placed, FlightPCs, StreamPCs, AfterPCs, Flight
<1>6. Answered' /\ Served'
  <2>1. CASE Silent /\ (marked => ~credited')
    <3>1. Answered'
      BY <2>1 DEF Silent, Answered, Flight
    <3>2. (\E i \in DOMAIN rows : rows[i].status = 200) => \E i \in DOMAIN rows' : rows'[i].status = 200
      <4>1. CASE UNCHANGED log
        BY <4>1 DEF log
      <4>2. ASSUME NEW ok \in BOOLEAN, NEW st \in Nat, NEW f \in {NoFault, Fault}, Row(ok, st, f),
                   NEW i \in DOMAIN rows, rows[i].status = 200
            PROVE  \E k \in DOMAIN rows' : rows'[k].status = 200
        <5>1. i \in DOMAIN rows' /\ rows'[i] = rows[i]
          BY <4>2 DEF Row, TypeOK
        <5> QED BY <4>2, <5>1
      <4> QED BY <4>1, <4>2 DEF Logs
    <3>3. Served'
      BY <2>1, <3>2 DEF Served, Silent, Flight
    <3> QED BY <3>1, <3>3
  <2>2. ASSUME pc # "decide", NEW code \in Nat \ {0}, Answer(code, credited'),
               ~req.stream /\ code = 200 => \E i \in DOMAIN rows' : rows'[i].status = 200
        PROVE  Answered' /\ Served'
    <3>1. ~req.stream => late' = 0 /\ claim' = code
      BY <1>2, <2>2 DEF Answer, Answered
    <3>2. marked' => claim' # 0 /\ ~credited'
      BY ZenonT(30), <1>2, <2>2 DEF Answer, NoChargeMarker
    <3> QED BY <2>2, <3>1, <3>2 DEF Answered, Served, Flight
  <2> QED BY <2>1, <2>2 DEF Replies
<1>7. CASE UNCHANGED log /\ ~Charged /\ (pc = "dispatch" \/ (pc = "decide" /\ out.log \in {"logged", "empty"}))
  <2>1. Credited'
    BY <1>7 DEF Credited, log, AfterPCs
  <2>2. Numbered'
    <3>1. Len(tried) = attemptN + Unlogged + (IF out.log = "empty" THEN 1 ELSE 0)
      BY <1>1, <1>7 DEF Numbered, TypeOK, Unlogged
    <3>2. attemptN \in Nat /\ Len(tried) \in Nat /\ Unlogged \in Nat
      BY DEF TypeOK, Unlogged
    <3>3. UNCHANGED <<Unlogged, tried, attemptN, out, rows, logFaults, nowOut>>
      BY <1>7 DEF Flight, log, Unlogged
    <3> QED BY <3>1, <3>2, <3>3 DEF Numbered, FlightPCs, StreamPCs
  <2>3. Routed'
    BY DEF Routed, Hops, Tried, Flight, FlightPCs, StreamPCs, AfterPCs, TypeOK
  <2>4. Quotas'
    <3>1. \A p \in Providers : RowsOf(p)' = RowsOf(p)
      BY <1>7 DEF log, RowsOf
    <3>2. ~Charged'
      BY DEF Charged, AfterPCs
    <3> QED BY <1>7, <3>1, <3>2 DEF Quotas, log
  <2> QED BY <1>4, <1>5, <1>6, <2>1, <2>2, <2>3, <2>4
<1>8. ASSUME pc = "decide" => out.log = "row", NEW ok \in BOOLEAN, NEW st \in Nat, NEW f \in {NoFault, Fault},
             Row(ok, st, f)
      PROVE  ForwardInv'
  <2>0. ~(pc = "decide" /\ out.log = "logged") /\ out.log = "row"
    BY <1>1, <1>8
  <2>1. Credited'
    BY <1>1, <1>8, <2>0, RowWritten DEF Credited, AfterPCs
  <2>2. Numbered'
    <3>1. \/ Len(tried) = attemptN + Unlogged + 1
          \/ Len(tried) = attemptN + Unlogged /\ ~nowOut
      BY <1>1, <2>0 DEF Numbered, Placed, AfterPCs
    <3>2. attemptN \in Nat /\ Len(tried) \in Nat /\ Unlogged \in Nat
      BY DEF TypeOK, Unlogged
    <3>3. UNCHANGED <<Unlogged, tried, out, nowOut>> /\ out'.log # "empty"
      BY <2>0 DEF Flight, Unlogged
    <3>4. attemptN' = attemptN + 1 /\ (\A i \in DOMAIN rows' : rows'[i].n < attemptN')
          /\ (\A i, j \in DOMAIN rows' : i # j => rows'[i].n # rows'[j].n) /\ (logFaults' = 0 => attemptN' = Len(rows'))
      BY <1>1, <1>8, <2>0, RowWritten
    <3> QED BY <3>1, <3>2, <3>3, <3>4 DEF Numbered, FlightPCs, StreamPCs
  <2>3. Routed'
    BY DEF Routed, Hops, Tried, Flight, FlightPCs, StreamPCs, AfterPCs, TypeOK
  <2>4. Quotas'
    <3>1. logFaults' = 0 => logFaults = 0 /\ \A p \in Providers : RowsOf(p)' = RowsOf(p) + (IF p = prov THEN 1 ELSE 0)
      BY <1>1, <1>8, <2>0, RowWritten
    <3>n. \A p \in Providers : RowsOf(p)' \in Nat
      BY <1>1, <1>8, <2>0, RowWritten
    <3>2. ~Charged' /\ \A p \in Providers : RowsOf(p) \in Nat /\ quota[p] \in Int
      BY DEF Charged, AfterPCs, TypeOK, Quotas
    <3>3. ASSUME logFaults' = 0, NEW p \in Providers PROVE quota[p] <= RowsOf(p)' /\ RowsOf(p)' \in Int
      <4> HIDE DEF RowsOf, Charged
      <4>1. quota[p] <= RowsOf(p) + (IF Charged /\ p = prov THEN 1 ELSE 0)
        BY <3>1, <3>3 DEF Quotas
      <4> QED BY <3>1, <3>2, <3>3, <4>1
    <3> HIDE DEF RowsOf, Charged
    <3> QED BY <3>2, <3>3, <3>n DEF Quotas
  <2> QED BY <1>4, <1>5, <1>6, <2>1, <2>2, <2>3, <2>4
<1> QED BY <1>7, <1>8 DEF Logs

-----------------------------------------------------------------------------
(* The steps before and between the attempts, and those of the environment. *)

(* A request that has not been selected for yet. *)
LEMMA InitHolds ==
  ASSUME ForwardConstants, Init
  PROVE  TypeOK /\ Placed /\ Answered /\ Credited /\ Numbered /\ Routed /\ Served
<1>1. TypeOK
  <2>1. out \in Outs
    BY DEF Init, Outs, Results
  <2>2. rows \in Seq(LogRows) /\ tried \in Seq(Providers) /\ quota \in [Providers -> Int]
    BY DEF Init
  <2> QED BY ZenonT(30), <2>1, <2>2 DEF Init, TypeOK
<1>2. Placed
  BY DEF Init, Placed, FlightPCs, StreamPCs, AfterPCs
<1>3. Answered /\ Served
  BY DEF Init, Answered, Served
<1>4. Credited
  BY DEF Init, Credited, AfterPCs
<1>5. Numbered
  BY DEF Init, Numbered, Unlogged, FlightPCs, StreamPCs
<1>6. Routed
  BY DEF Init, Routed, Tried, Hops, FlightPCs, StreamPCs, AfterPCs, ForwardConstants
<1> QED BY <1>1, <1>2, <1>3, <1>4, <1>5, <1>6

(* The next provider is about to be sent to: the rows count the dispatches. *)
LEMMA HopNumbers ==
  ASSUME pc' = "dispatch", Len(tried') = attemptN' + Unlogged', \A i \in DOMAIN rows' : rows'[i].n < attemptN',
         \A i, j \in DOMAIN rows' : i # j => rows'[i].n # rows'[j].n, logFaults' = 0 => attemptN' = Len(rows')
  PROVE  Numbered'
  BY DEF Numbered, FlightPCs, StreamPCs

(* The next provider was not tried before, and the budget has room for it. *)
LEMMA HopRoutes ==
  ASSUME Routed, pc' = "dispatch", UNCHANGED <<req, tried, faulted, busy, readied>>, faulted \subseteq excluded',
         req.pin = None => prov' \notin Tried /\ Tried \subseteq faulted, Hops' = Hops + 1, Hops \in Nat,
         Len(tried) \in Nat, retries' <= req.cap \/ (~req.stream /\ (busy # {} \/ readied > 0))
  PROVE  Routed'
<1>1. Tried' = Tried
  BY DEF Tried
<1>2. Len(tried) <= Hops + 1
  BY DEF Routed
<1> HIDE DEF Tried, Hops
<1> QED BY <1>1, <1>2 DEF Routed, FlightPCs, StreamPCs, AfterPCs

(* A buyer without a stream who has no answer is not served by a hop. *)
LEMMA HopServes ==
  ASSUME UNCHANGED <<req, claim>>, ~req.stream => claim = 0
  PROVE  Served'
  BY DEF Served

(* The buyer leaves, or a provider is ready again. *)
LEMMA OutsideKeeps ==
  ASSUME ForwardConstants, ForwardInv, BuyerLeaves \/ ProviderReady
  PROVE  ForwardInv'
<1> USE DEF ForwardInv
<1>1. UNCHANGED <<req, kind, pc, seq, prov, excluded, faulted, retries, faultedN, failedOver, out, sent, claim, late,
                  marked, tried, replayed, nowOut, credited, rows, attemptN, logFaults, quota>>
  BY DEF BuyerLeaves, ProviderReady, inputs, route, buyer, sentOut, log
<1>2. \/ gone' = TRUE /\ UNCHANGED <<busy, readied>>
      \/ busy' \subseteq busy /\ readied' = readied + 1 /\ UNCHANGED gone
  BY DEF BuyerLeaves, ProviderReady, route, buyer
<1>3. TypeOK'
  <2>1. busy' \subseteq Providers /\ readied' \in Nat
    BY <1>2 DEF TypeOK
  <2>2. gone' \in BOOLEAN
    BY ZenonT(30), <1>2 DEF TypeOK
  <2> QED BY <1>1, <2>1, <2>2 DEF TypeOK
<1>4. Placed'
  BY ZenonT(30), <1>1 DEF Placed, Finalised, StreamCommitted, FailoverEligible
<1>5. Answered' /\ Served'
  BY ZenonT(30), <1>1 DEF Answered, Served, Finalised, StreamCommitted
<1>6. Credited'
  BY ZenonT(30), <1>1 DEF Credited, Credits, Finalised, StreamCommitted
<1>7. Numbered'
  BY ZenonT(30), <1>1 DEF Numbered, Unlogged
<1>8. Quotas'
  BY ZenonT(30), <1>1 DEF Quotas, RowsOf, Charged
<1>9. Routed'
  <2>1. readied \in Nat
    BY DEF TypeOK
  <2> QED BY <1>1, <1>2, <2>1 DEF Routed, Tried, Hops
<1> QED BY <1>3, <1>4, <1>5, <1>6, <1>7, <1>8, <1>9

(* A step that changes nothing. *)
LEMMA OutsideStutter ==
  ASSUME ForwardInv, UNCHANGED vars
  PROVE  ForwardInv'
<1> USE DEF ForwardInv
<1>1. UNCHANGED <<req, kind, pc, seq, prov, excluded, faulted, retries, faultedN, failedOver, busy, readied, out, sent,
                  claim, late, marked, gone, tried, replayed, nowOut, credited, rows, attemptN, logFaults, quota>>
  BY DEF vars, inputs, route, buyer, sentOut, log
<1>2. TypeOK'
  BY <1>1 DEF TypeOK
<1>3. Placed'
  BY ZenonT(30), <1>1 DEF Placed, Finalised, StreamCommitted, FailoverEligible
<1>4. Answered' /\ Served'
  BY ZenonT(30), <1>1 DEF Answered, Served, Finalised, StreamCommitted
<1>5. Credited'
  BY ZenonT(30), <1>1 DEF Credited, Credits, Finalised, StreamCommitted
<1>6. Numbered'
  BY ZenonT(30), <1>1 DEF Numbered, Unlogged
<1>7. Quotas'
  BY ZenonT(30), <1>1 DEF Quotas, RowsOf, Charged
<1>8. Routed'
  BY <1>1 DEF Routed, Tried, Hops
<1> QED BY <1>2, <1>3, <1>4, <1>5, <1>6, <1>7, <1>8

(* An attempt that failed leaves the providers that may be tried. *)
LEMMA ExcludeKeeps ==
  ASSUME ForwardConstants, ForwardInv, Exclude
  PROVE  ForwardInv'
<1> USE DEF ForwardInv
<1>1. /\ pc = "decide" /\ ~Finalised /\ pc' = (IF FailoverEligible THEN "failover" ELSE "retry")
      /\ excluded' = excluded \cup {prov} /\ faulted' = faulted \cup {prov}
      /\ busy' = IF out.res = "queuefull" THEN busy \cup {prov} ELSE busy
      /\ UNCHANGED <<req, kind, seq, prov, retries, faultedN, failedOver, readied, out, sent, claim, late, marked,
                     gone, tried, replayed, nowOut, credited, rows, attemptN, logFaults, quota>>
  BY DEF Exclude, inputs, buyer, sentOut, log
<1>2. prov \in Providers /\ out.log = "row" /\ (~req.stream => claim = 0) /\ ~marked
  <2>1. prov \in Providers /\ out.log = "row" /\ (~req.stream => claim = 0) /\ (seq = "stream" <=> req.stream)
    BY <1>1 DEF Placed, TypeOK, Outs, Answered
  <2> QED BY <1>1, <2>1 DEF Answered
<1>3. TypeOK'
  BY <1>1, <1>2 DEF TypeOK, AfterPCs
<1>4. Placed' /\ Credited'
  BY ZenonT(30), <1>1, <1>2 DEF Placed, Credited, Finalised, StreamCommitted, FailoverEligible, FlightPCs, StreamPCs, AfterPCs
<1>5. Answered' /\ Served'
  BY ZenonT(30), <1>1, <1>2 DEF Answered, Served
<1>6. Numbered'
  BY ZenonT(30), <1>1, <1>2 DEF Numbered, Unlogged, FlightPCs, StreamPCs
<1>7. Routed'
  BY ZenonT(30), <1>1, <1>2 DEF Routed, Tried, Hops, FlightPCs, StreamPCs, AfterPCs
<1>8. Quotas'
  <2>1. (\A p \in Providers : RowsOf(p)' = RowsOf(p)) /\ (Charged' <=> Charged)
    BY <1>1 DEF RowsOf, Charged, AfterPCs
  <2> QED BY <1>1, <2>1 DEF Quotas
<1> QED BY <1>3, <1>4, <1>5, <1>6, <1>7, <1>8

(* The first choice of a provider. *)
LEMMA SelectKeeps ==
  ASSUME ForwardConstants, ForwardInv, Select
  PROVE  ForwardInv'
<1> USE DEF ForwardInv
<1>0. pc = "select" /\ UNCHANGED <<req, kind, faulted, retries, faultedN, failedOver, busy, readied, sent, gone, tried,
                                   replayed, nowOut, credited, rows, attemptN, logFaults, quota>>
  BY DEF Select, inputs, sentOut, log
<1>a. \/ \E p \in Candidates({}) :
            /\ prov' = p /\ pc' = "dispatch"
            /\ seq' = IF req.stream THEN "stream" ELSE IF kind[p] = "ws" THEN "wsnon" ELSE "http"
            /\ excluded' = IF ~req.stream /\ kind[p] = "http" THEN {p} ELSE {}
            /\ Silent /\ UNCHANGED out
      \/ \E code \in {404, 413, 429, 503} :
            /\ Answer(code, credited) /\ End /\ UNCHANGED <<prov, seq, excluded>>
  BY DEF Select
<1>1. UNCHANGED out
  BY <1>a DEF End
<1>2. tried = << >> /\ rows = << >> /\ claim = 0 /\ faulted = {} /\ seq = None /\ out.log = "row" /\ ~nowOut
  BY <1>0 DEF Placed, TypeOK, Outs
<1>3. attemptN = 0 /\ ~failedOver /\ retries = 0
  BY <1>0 DEF Numbered, Routed
<1>4. ~marked /\ (~req.stream => late = 0) /\ late \in Nat
  BY <1>0, <1>2 DEF Answered, TypeOK
<1>5. ~Charged /\ (pc' \in {"dispatch", "done"} => ~Charged') /\ \A p \in Providers : RowsOf(p)' = RowsOf(p)
  BY <1>0 DEF Charged, RowsOf, AfterPCs
<1>6. pc' \in {"dispatch", "done"}
  BY <1>a DEF End
<1>7. Quotas'
  BY <1>0, <1>5, <1>6 DEF Quotas
<1>8. Credited'
  BY <1>0, <1>2, <1>6 DEF Credited, AfterPCs
<1>9. Len(tried) = 0 /\ Len(rows) = 0 /\ DOMAIN rows = {} /\ DOMAIN tried = {} /\ Tried = {} /\ Tried' = Tried
  BY <1>0, <1>2 DEF Tried
<1>10. Numbered'
  BY <1>0, <1>1, <1>2, <1>3, <1>6, <1>9 DEF Numbered, Unlogged, FlightPCs, StreamPCs
<1>11. Hops = 0 /\ Hops' = Hops /\ req.cap \in Nat
  BY <1>0, <1>3 DEF Hops, TypeOK, ForwardConstants
<1>12. Routed'
  <2> HIDE DEF Tried, Hops
  <2>1. retries <= req.cap
    BY <1>3, <1>11
  <2> QED BY <1>0, <1>1, <1>2, <1>6, <1>9, <1>11, <2>1 DEF Routed, FlightPCs, StreamPCs, AfterPCs
<1>13. CASE \E p \in Candidates({}) :
            /\ prov' = p /\ pc' = "dispatch"
            /\ seq' = IF req.stream THEN "stream" ELSE IF kind[p] = "ws" THEN "wsnon" ELSE "http"
            /\ excluded' = IF ~req.stream /\ kind[p] = "http" THEN {p} ELSE {}
            /\ Silent /\ UNCHANGED out
  <2>1. PICK p \in Candidates({}) :
            /\ prov' = p /\ pc' = "dispatch"
            /\ seq' = IF req.stream THEN "stream" ELSE IF kind[p] = "ws" THEN "wsnon" ELSE "http"
            /\ excluded' = IF ~req.stream /\ kind[p] = "http" THEN {p} ELSE {}
            /\ Silent /\ UNCHANGED out
    BY ZenonT(30), <1>13
  <2>2. p \in Providers /\ kind[p] \in {"ws", "http"}
    BY DEF Candidates, TypeOK
  <2>3. seq' \in {"stream", "wsnon", "http"} /\ (seq' = "stream" <=> req.stream) /\ (seq' = "wsnon" => kind[p] = "ws")
        /\ excluded' \subseteq Providers
    BY <2>1, <2>2
  <2>4. TypeOK'
    BY ZenonT(30), <1>0, <1>1, <2>1, <2>2, <2>3 DEF TypeOK, Silent
  <2>5. Placed'
    BY <1>0, <1>1, <1>2, <2>1, <2>2, <2>3 DEF Placed, FlightPCs, StreamPCs, AfterPCs
  <2>6. Answered' /\ Served'
    BY <1>0, <1>2, <1>4, <2>1 DEF Answered, Served, Silent
  <2> QED BY <1>7, <1>8, <1>10, <1>12, <2>4, <2>5, <2>6
<1>14. CASE \E code \in {404, 413, 429, 503} :
              /\ Answer(code, credited) /\ End /\ UNCHANGED <<prov, seq, excluded>>
  <2>1. PICK code \in {404, 413, 429, 503} : Answer(code, credited) /\ End /\ UNCHANGED <<prov, seq, excluded>>
    BY <1>14
  <2>2. pc' = "done"
    BY <2>1 DEF End
  <2>3. claim' = code /\ late' = late /\ (marked' => ~credited)
    BY ZenonT(30), <1>2, <2>1 DEF Answer, NoChargeMarker
  <2>4. ClaimOK'
    BY <2>1, AnswerTypes DEF TypeOK
  <2>5. TypeOK'
    BY <1>0, <1>1, <2>1, <2>2, <2>4 DEF TypeOK, ClaimOK
  <2>6. Placed'
    BY ZenonT(30), <1>0, <1>1, <1>2, <2>1, <2>2 DEF Placed, FlightPCs, StreamPCs, AfterPCs
  <2>7. Answered' /\ Served'
    BY <1>0, <1>4, <2>2, <2>3 DEF Answered, Served
  <2> QED BY <1>7, <1>8, <1>10, <1>12, <2>5, <2>6, <2>7
<1> QED BY <1>a, <1>13, <1>14

(* A dispatch: a provider has the attempt. *)
LEMMA DispatchSends ==
  ASSUME ForwardConstants, ForwardInv, Dispatch,
         tried' = Append(tried, prov), nowOut' = TRUE, replayed' = (replayed \/ sent),
         pc' = (IF seq = "http" THEN "httpbody" ELSE IF kind[prov] = "ws" THEN "open" ELSE "httpopen"),
         Silent, UNCHANGED log
  PROVE  ForwardInv'
<1>a. pc = "dispatch" /\ UNCHANGED <<req, kind, seq, prov, excluded, faulted, retries, faultedN, failedOver, busy, readied,
                                     out, sent, gone, quota>>
  BY DEF Dispatch, inputs, route
<1>b. sent' \in BOOLEAN /\ prov \in Providers /\ ~Charged /\ out.log = "row"
  BY <1>a DEF ForwardInv, TypeOK, Placed, Charged, AfterPCs, Outs
<1>c. UNCHANGED <<credited, rows, attemptN, logFaults>>
  BY DEF log
<1> USE DEF ForwardInv
<1>1. TypeOK'
  <2>1. replayed' \in BOOLEAN /\ tried' \in Seq(Providers)
    BY <1>b, <1>c DEF TypeOK
  <2> QED BY <1>a, <1>c, <2>1 DEF TypeOK, Silent, log, FlightPCs, StreamPCs
<1>2. Placed'
  BY ZenonT(30), <1>a, <1>b, <1>c DEF Placed, TypeOK, FlightPCs, StreamPCs, AfterPCs
<1>3. Answered' /\ Served'
  BY ZenonT(30), <1>a, <1>c DEF Answered, Served, Silent, log
<1>4. Credited'
  BY ZenonT(30), <1>a, <1>c DEF Credited, log, AfterPCs
<1>5. tried \in Seq(Providers) /\ Len(tried) \in Nat /\ Len(tried') = Len(tried) + 1 /\ tried'[Len(tried) + 1] = prov
      /\ DOMAIN tried' = DOMAIN tried \cup {Len(tried) + 1} /\ (\A i \in DOMAIN tried : tried'[i] = tried[i])
  BY <1>b, <1>c DEF TypeOK
<1>6. Numbered'
  <2>1. Len(tried) = attemptN + Unlogged /\ attemptN \in Nat /\ Unlogged \in Nat /\ Unlogged' = Unlogged
    BY <1>a DEF Numbered, Unlogged, TypeOK
  <2>2. UNCHANGED <<rows, attemptN, logFaults>>
    BY <1>c DEF log
  <2> HIDE DEF Unlogged
  <2> QED BY <1>a, <1>b, <1>c, <1>5, <2>1, <2>2 DEF Numbered, FlightPCs, StreamPCs
<1>7. Routed'
  <2>1. Tried' = Tried \cup {prov}
    BY <1>5 DEF Tried
  <2>2. req.pin = None => prov \notin Tried /\ Tried \subseteq faulted
    BY <1>a DEF Routed
  <2>3. req.pin = None => \A i, j \in DOMAIN tried' : i # j => tried'[i] # tried'[j]
    BY <1>a, <1>5, <2>2 DEF Routed, Tried
  <2>4. Hops' = Hops /\ Hops \in Nat /\ Len(tried) <= Hops
    BY <1>a DEF Hops, Routed, TypeOK
  <2> HIDE DEF Tried, Hops
  <2> QED BY <1>a, <1>c, <1>5, <2>1, <2>2, <2>3, <2>4 DEF Routed, FlightPCs, StreamPCs, AfterPCs
<1>8. Quotas'
  <2>1. \A p \in Providers : RowsOf(p)' = RowsOf(p)
    BY <1>c DEF log, RowsOf
  <2>2. ~Charged'
    BY <1>c DEF Charged, AfterPCs
  <2> QED BY ZenonT(30), <1>a, <1>b, <1>c, <2>1, <2>2 DEF Quotas, log
<1> QED BY <1>1, <1>2, <1>3, <1>4, <1>6, <1>7, <1>8

-----------------------------------------------------------------------------
(* An attempt in flight that writes no row: what it may return, answer and *)
(* do to the quota.                                                        *)
Ends(o) ==
    /\ o.log = "row" \/ (o.log = "empty" /\ seq = "stream" /\ kind[prov] = "http" /\ o.res = "cancelled")
    /\ (Credits(o) => \/ o.res = "complete"
                     \/ (seq = "stream" /\ o.res \in {"committed", "cancelled"})
                     \/ (seq = "wsnon" /\ o.res \in {"failed", "cancelled"}))
Goes ==
    \/ pc' = pc /\ UNCHANGED out
    \/ pc' = "decide" /\ out' \in Outs /\ Ends(out')
    \/ pc = "open" /\ UNCHANGED out /\ pc' \in (IF req.stream THEN {"wsstream", "wsbuffered"} ELSE {"wsbody"})
    \/ pc = "httpopen" /\ UNCHANGED out /\ pc' \in {"httpstream", "httpbuffered"}
Says ==
    \/ Silent
    \/ seq = "stream" /\ \E code \in Nat \ {0, 503} : Answer(code, credited)
    \/ /\ seq = "wsnon" /\ pc' = "decide" /\ out'.res \in {"failed", "unavailable"}
       /\ out'.status \in Nat \ {0, 200} /\ Answer(out'.status, credited)
RelayPCs == {"wsstream", "wsbuffered", "wsbody"}
Pays ==
    \/ /\ UNCHANGED quota
       /\ pc \in RelayPCs /\ pc' = "decide" => out'.res # "disconnected" /\ out'.log = "row"
    \/ pc \in RelayPCs /\ Refund(TRUE) /\ pc' = "decide"
    \/ /\ pc = "open" /\ pc' \in RelayPCs
       /\ quota' = [quota EXCEPT ![prov] = IF prov \in Provisional THEN @ + 1 ELSE @]

(* Such a step keeps the invariant. *)
LEMMA FlightStep ==
  ASSUME ForwardConstants, ForwardInv, pc \in FlightPCs, Flight, UNCHANGED log, Goes, Says, Pays, sent' \in BOOLEAN
  PROVE  ForwardInv'
<1> USE DEF ForwardInv
<1>1. pc' \in FlightPCs \/ pc' = "decide"
  BY DEF Goes, FlightPCs, StreamPCs
<1>2. out' \in Outs /\ out'.log # "logged"
  <2>1. out.log # "logged"
    BY DEF Placed, FlightPCs, StreamPCs
  <2> QED BY <2>1 DEF Goes, TypeOK, Ends
<1>3. Numbered'
  <2>1. Unlogged' = Unlogged /\ UNCHANGED <<tried, rows, attemptN, logFaults>>
    BY DEF Unlogged, Flight, log
  <2>2. Len(tried) = attemptN + Unlogged + 1 /\ pc' \notin {"select", "dispatch", "done"}
    BY <1>1 DEF Numbered, FlightPCs, StreamPCs
  <2> HIDE DEF Unlogged
  <2> QED BY ZenonT(30), <1>2, <2>1, <2>2 DEF Numbered
<1>4. Routed'
  <2>1. Tried' = Tried /\ Hops' = Hops
        /\ UNCHANGED <<req, tried, faulted, excluded, retries, failedOver, busy, readied, prov>>
    BY DEF Tried, Hops, Flight
  <2>2. pc' \in FlightPCs \cup AfterPCs /\ pc' \notin {"select", "dispatch", "failover", "retry"}
    BY <1>1 DEF FlightPCs, StreamPCs, AfterPCs
  <2> HIDE DEF Tried, Hops
  <2> QED BY ZenonT(30), <2>1, <2>2 DEF Routed
<1>5. quota' \in [Providers -> Int]
  BY DEF TypeOK, Pays, Refund
<1>6. TypeOK'
  <2>1. LogOK'
    BY ZenonT(30) DEF TypeOK, LogOK, log
  <2>2. pc' \in PCs
    BY <1>1 DEF PCs, AfterPCs
  <2>3. credited \in BOOLEAN
    BY ZenonT(30) DEF TypeOK
  <2>4. ClaimOK'
    <3>1. CASE Silent
      BY ZenonT(30), <3>1, SilentTypes
    <3>2. ASSUME NEW code \in Nat, Answer(code, credited) PROVE ClaimOK'
      BY ZenonT(30), <2>3, <3>2, AnswerTypes
    <3> QED BY <3>1, <3>2 DEF Says
  <2> QED BY ZenonT(30), <1>2, <1>5, <2>1, <2>2, <2>4, FlightTypes
<1>7. Placed'
  <2>1. seq \in {"stream", "wsnon", "http"} /\ kind[prov] \in {"ws", "http"} /\ out.log = "row"
    BY ZenonT(30) DEF TypeOK, Placed, FlightPCs, StreamPCs, Outs
  <2> QED BY <1>1, <1>2, <2>1 DEF Placed, Goes, Ends, Flight, FlightPCs, AfterPCs, StreamPCs, Finalised, StreamCommitted
<1>8. Credited'
  BY <1>1, <1>2 DEF Placed, Credited, Credits, Goes, Ends, Flight, log, FlightPCs, AfterPCs, StreamPCs,
     Finalised, StreamCommitted
<1>9. Answered' /\ Served'
  <2>1. ~marked /\ nowOut /\ (seq = "stream" <=> req.stream) /\ (~req.stream => claim = 0)
    BY DEF Placed, Answered, FlightPCs, StreamPCs
  <2>2. UNCHANGED <<req, seq, rows, credited>>
    BY DEF Flight, log
  <2>3. CASE Silent
    <3>1. Served'
      BY <2>2, <2>3 DEF Served, Silent
    <3>2. Answered'
      BY <2>1, <2>2, <2>3 DEF Answered, Silent
    <3> QED BY <3>1, <3>2
  <2>4. CASE seq = "stream" /\ \E code \in Nat \ {0, 503} : Answer(code, credited)
    <3> PICK code \in Nat \ {0, 503} : Answer(code, credited)
      BY <2>4
    <3>1. ~marked'
      BY ZenonT(30), <2>1 DEF Answer, NoChargeMarker
    <3> QED BY <2>1, <2>2, <2>4, <3>1 DEF Answered, Served
  <2>5. CASE /\ seq = "wsnon" /\ pc' = "decide" /\ out'.res \in {"failed", "unavailable"}
             /\ out'.status \in Nat \ {0, 200} /\ Answer(out'.status, credited)
    <3>1. ~req.stream /\ claim = 0 /\ late = 0
      BY <2>1, <2>5 DEF Answered
    <3>2. late' = late /\ claim' = out'.status /\ (marked' <=> ~credited /\ out'.status = 503)
      BY ZenonT(30), <2>1, <2>5, <3>1 DEF Answer, NoChargeMarker
    <3>3. Finalised'
      BY <2>2, <2>5 DEF Finalised
    <3> QED BY <2>2, <2>5, <3>1, <3>2, <3>3 DEF Answered, Served
  <2> QED BY <2>3, <2>4, <2>5 DEF Says
<1>10. Quotas'
  <2>1. \A p \in Providers : RowsOf(p) \in Nat /\ RowsOf(p)' = RowsOf(p)
    BY DEF Quotas, RowsOf, log
  <2>2. UNCHANGED <<prov, kind, logFaults>> /\ prov \in Providers
    BY DEF Flight, log, Placed, FlightPCs, StreamPCs
  <2>3. CASE /\ UNCHANGED quota
             /\ pc \in RelayPCs /\ pc' = "decide" => out'.res # "disconnected" /\ out'.log = "row"
    <3>1. Charged => Charged'
      BY <1>1, <2>2, <2>3 DEF Charged, RelayPCs, Goes, FlightPCs, AfterPCs, StreamPCs, Placed
    <3>2. \A p \in Providers : quota[p] \in Int
      BY DEF TypeOK
    <3> HIDE DEF Charged, RowsOf
    <3> QED BY <2>1, <2>2, <2>3, <3>1, <3>2 DEF Quotas
  <2>4. CASE pc \in RelayPCs /\ Refund(TRUE) /\ pc' = "decide"
    BY <2>1, <2>2, <2>4 DEF TypeOK, Quotas, Charged, RelayPCs, Refund
  <2>5. CASE /\ pc = "open" /\ pc' \in RelayPCs
             /\ quota' = [quota EXCEPT ![prov] = IF prov \in Provisional THEN @ + 1 ELSE @]
    BY <2>1, <2>2, <2>5 DEF TypeOK, Quotas, Charged, RelayPCs, AfterPCs
  <2> QED BY ZenonT(30), <2>3, <2>4, <2>5 DEF Pays
<1> QED BY <1>3, <1>4, <1>6, <1>7, <1>8, <1>9, <1>10

(* A chunk of a WebSocket stream. *)
LEMMA WSChunkKeeps ==
  ASSUME ForwardConstants, ForwardInv, WSChunk
  PROVE  ForwardInv'
<1>1. pc \in FlightPCs /\ Flight /\ UNCHANGED log
  BY ZenonT(30), FrameFlight DEF WSChunk, FlightPCs, StreamPCs
<1>2. prov \in Providers /\ sent \in BOOLEAN /\ sent' \in BOOLEAN /\ seq = "stream" /\ pc = "wsstream"
  BY ZenonT(30), <1>1 DEF WSChunk, ForwardInv, TypeOK, Placed, FlightPCs, StreamPCs
<1>3.
      \/ UNCHANGED <<pc, out>>
      \/ Return("cancelled", 200, NoFault)
      \/ Return("complete", 200, NoFault)
      \/ Return("failed", 200, Fault)
      \/ Return("failed", 502, Fault)
  BY <1>2 DEF WSChunk
<1>4. Goes
  <2>1. CASE UNCHANGED <<pc, out>>
    BY <1>2, <2>1 DEF Return, ReturnUnlogged, Goes, Ends, Credits, Outs, Results
  <2>2. CASE Return("cancelled", 200, NoFault)
    BY <1>2, <2>2 DEF Return, ReturnUnlogged, Goes, Ends, Credits, Outs, Results
  <2>3. CASE Return("complete", 200, NoFault)
    BY <1>2, <2>3 DEF Return, ReturnUnlogged, Goes, Ends, Credits, Outs, Results
  <2>4. CASE Return("failed", 200, Fault)
    BY <1>2, <2>4 DEF Return, ReturnUnlogged, Goes, Ends, Credits, Outs, Results
  <2>5. CASE Return("failed", 502, Fault)
    BY <1>2, <2>5 DEF Return, ReturnUnlogged, Goes, Ends, Credits, Outs, Results
  <2> QED BY <1>3, <2>1, <2>2, <2>3, <2>4, <2>5
<1>5. Says
  <2>1.
      \/ Silent
      \/ Answer(200, credited)
      \/ Answer(502, credited)
    BY <1>2 DEF WSChunk
  <2> QED BY <1>2, <2>1 DEF Says
<1>6. UNCHANGED quota
  BY DEF WSChunk
<1>7. Pays
  <2>1. CASE UNCHANGED <<pc, out>>
    BY <1>2, <1>6, <2>1 DEF Return, ReturnUnlogged, Pays, RelayPCs
  <2>2. CASE Return("cancelled", 200, NoFault)
    BY <1>2, <1>6, <2>2 DEF Return, ReturnUnlogged, Pays, RelayPCs
  <2>3. CASE Return("complete", 200, NoFault)
    BY <1>2, <1>6, <2>3 DEF Return, ReturnUnlogged, Pays, RelayPCs
  <2>4. CASE Return("failed", 200, Fault)
    BY <1>2, <1>6, <2>4 DEF Return, ReturnUnlogged, Pays, RelayPCs
  <2>5. CASE Return("failed", 502, Fault)
    BY <1>2, <1>6, <2>5 DEF Return, ReturnUnlogged, Pays, RelayPCs
  <2> QED BY <1>3, <2>1, <2>2, <2>3, <2>4, <2>5
<1> QED BY <1>1, <1>2, <1>4, <1>5, <1>7, FlightStep

(* The end of a WebSocket stream. *)
LEMMA WSDoneKeeps ==
  ASSUME ForwardConstants, ForwardInv, WSDone
  PROVE  ForwardInv'
<1>1. pc \in FlightPCs /\ Flight /\ UNCHANGED log
  BY ZenonT(30), FrameFlight DEF WSDone, FlightPCs, StreamPCs
<1>2. prov \in Providers /\ sent \in BOOLEAN /\ sent' \in BOOLEAN /\ seq = "stream" /\ pc = "wsstream"
  BY ZenonT(30), <1>1 DEF WSDone, ForwardInv, TypeOK, Placed, FlightPCs, StreamPCs
<1>3.
      \/ Return("queuefull", 503, NoFault)
      \/ \E code \in {413, 502, 503} : Return("failed", code, NoFault)
      \/ \E f \in {NoFault, Fault} : Return("complete", 200, f)
  BY <1>2 DEF WSDone
<1>4. Goes
  <2>1. CASE Return("queuefull", 503, NoFault)
    BY <1>2, <2>1 DEF Return, ReturnUnlogged, Goes, Ends, Credits, Outs, Results
  <2>2. CASE \E code \in {413, 502, 503} : Return("failed", code, NoFault)
    BY <1>2, <2>2 DEF Return, ReturnUnlogged, Goes, Ends, Credits, Outs, Results
  <2>3. CASE \E f \in {NoFault, Fault} : Return("complete", 200, f)
    BY <1>2, <2>3 DEF Return, ReturnUnlogged, Goes, Ends, Credits, Outs, Results
  <2> QED BY <1>3, <2>1, <2>2, <2>3
<1>5. Says
  <2>1.
      \/ Silent
      \/ Answer(200, credited)
    BY <1>2 DEF WSDone
  <2> QED BY <1>2, <2>1 DEF Says
<1>6. UNCHANGED quota
  BY DEF WSDone
<1>7. Pays
  <2>1. CASE Return("queuefull", 503, NoFault)
    BY <1>2, <1>6, <2>1 DEF Return, ReturnUnlogged, Pays, RelayPCs
  <2>2. CASE \E code \in {413, 502, 503} : Return("failed", code, NoFault)
    BY <1>2, <1>6, <2>2 DEF Return, ReturnUnlogged, Pays, RelayPCs
  <2>3. CASE \E f \in {NoFault, Fault} : Return("complete", 200, f)
    BY <1>2, <1>6, <2>3 DEF Return, ReturnUnlogged, Pays, RelayPCs
  <2> QED BY <1>3, <2>1, <2>2, <2>3
<1> QED BY <1>1, <1>2, <1>4, <1>5, <1>7, FlightStep

(* An error of a WebSocket stream. *)
LEMMA WSErrorKeeps ==
  ASSUME ForwardConstants, ForwardInv, WSError
  PROVE  ForwardInv'
<1>1. pc \in FlightPCs /\ Flight /\ UNCHANGED log
  BY ZenonT(30), FrameFlight DEF WSError, FlightPCs, StreamPCs
<1>2. prov \in Providers /\ sent \in BOOLEAN /\ sent' \in BOOLEAN /\ seq = "stream" /\ pc = "wsstream"
  BY <1>1 DEF WSError, ForwardInv, TypeOK, Placed, FlightPCs, StreamPCs
<1>3.
      \/ Return("cancelled", 200, NoFault) /\ UNCHANGED quota
      \/ Return("committed", 200, Fault) /\ UNCHANGED quota
      \/ Return("disconnected", 502, Fault) /\ Refund(TRUE)
      \/ Return("timedout", 504, Fault) /\ UNCHANGED quota
      \/ Return("failed", 200, Fault) /\ UNCHANGED quota
      \/ Return("failed", 502, NoFault) /\ UNCHANGED quota
  BY ZenonT(30), <1>2 DEF WSError
<1>4. Goes
  <2>1. CASE Return("cancelled", 200, NoFault) /\ UNCHANGED quota
    BY <1>2, <2>1 DEF Return, ReturnUnlogged, Goes, Ends, Credits, Outs, Results
  <2>2. CASE Return("committed", 200, Fault) /\ UNCHANGED quota
    BY <1>2, <2>2 DEF Return, ReturnUnlogged, Goes, Ends, Credits, Outs, Results
  <2>3. CASE Return("disconnected", 502, Fault) /\ Refund(TRUE)
    BY <1>2, <2>3 DEF Return, ReturnUnlogged, Goes, Ends, Credits, Outs, Results
  <2>4. CASE Return("timedout", 504, Fault) /\ UNCHANGED quota
    BY <1>2, <2>4 DEF Return, ReturnUnlogged, Goes, Ends, Credits, Outs, Results
  <2>5. CASE Return("failed", 200, Fault) /\ UNCHANGED quota
    BY <1>2, <2>5 DEF Return, ReturnUnlogged, Goes, Ends, Credits, Outs, Results
  <2>6. CASE Return("failed", 502, NoFault) /\ UNCHANGED quota
    BY <1>2, <2>6 DEF Return, ReturnUnlogged, Goes, Ends, Credits, Outs, Results
  <2> QED BY ZenonT(30), <1>3, <2>1, <2>2, <2>3, <2>4, <2>5, <2>6
<1>5. Says
  <2>1. Silent
    BY <1>2 DEF WSError
  <2> QED BY <1>2, <2>1 DEF Says
<1>7. Pays
  <2>1. CASE Return("cancelled", 200, NoFault) /\ UNCHANGED quota
    BY <1>2, <2>1 DEF Return, ReturnUnlogged, Pays, RelayPCs
  <2>2. CASE Return("committed", 200, Fault) /\ UNCHANGED quota
    BY <1>2, <2>2 DEF Return, ReturnUnlogged, Pays, RelayPCs
  <2>3. CASE Return("disconnected", 502, Fault) /\ Refund(TRUE)
    BY ZenonT(30), <1>2, <2>3 DEF Return, ReturnUnlogged, Pays, RelayPCs
  <2>4. CASE Return("timedout", 504, Fault) /\ UNCHANGED quota
    BY <1>2, <2>4 DEF Return, ReturnUnlogged, Pays, RelayPCs
  <2>5. CASE Return("failed", 200, Fault) /\ UNCHANGED quota
    BY <1>2, <2>5 DEF Return, ReturnUnlogged, Pays, RelayPCs
  <2>6. CASE Return("failed", 502, NoFault) /\ UNCHANGED quota
    BY <1>2, <2>6 DEF Return, ReturnUnlogged, Pays, RelayPCs
  <2> QED BY ZenonT(30), <1>3, <2>1, <2>2, <2>3, <2>4, <2>5, <2>6
<1> QED BY <1>1, <1>2, <1>4, <1>5, <1>7, FlightStep

(* A buffered WebSocket stream. *)
LEMMA WSBufferedKeeps ==
  ASSUME ForwardConstants, ForwardInv, WSBuffered
  PROVE  ForwardInv'
<1>1. pc \in FlightPCs /\ Flight /\ UNCHANGED log
  BY ZenonT(30), FrameFlight DEF WSBuffered, FlightPCs, StreamPCs
<1>2. prov \in Providers /\ sent \in BOOLEAN /\ sent' \in BOOLEAN /\ seq = "stream" /\ pc = "wsbuffered"
  BY ZenonT(30), <1>1 DEF WSBuffered, ForwardInv, TypeOK, Placed, FlightPCs, StreamPCs
<1>3.
      \/ Return("cancelled", 200, NoFault)
      \/ Return("complete", 200, NoFault)
      \/ \E code \in {413, 502, 503} : Return("failed", code, Fault)
  BY <1>2 DEF WSBuffered
<1>4. Goes
  <2>1. CASE Return("cancelled", 200, NoFault)
    BY <1>2, <2>1 DEF Return, ReturnUnlogged, Goes, Ends, Credits, Outs, Results
  <2>2. CASE Return("complete", 200, NoFault)
    BY <1>2, <2>2 DEF Return, ReturnUnlogged, Goes, Ends, Credits, Outs, Results
  <2>3. CASE \E code \in {413, 502, 503} : Return("failed", code, Fault)
    BY <1>2, <2>3 DEF Return, ReturnUnlogged, Goes, Ends, Credits, Outs, Results
  <2> QED BY <1>3, <2>1, <2>2, <2>3
<1>5. Says
  <2>1.
      \/ Silent
      \/ Answer(200, credited)
    BY <1>2 DEF WSBuffered
  <2> QED BY <1>2, <2>1 DEF Says
<1>6. UNCHANGED quota
  BY DEF WSBuffered
<1>7. Pays
  <2>1. CASE Return("cancelled", 200, NoFault)
    BY <1>2, <1>6, <2>1 DEF Return, ReturnUnlogged, Pays, RelayPCs
  <2>2. CASE Return("complete", 200, NoFault)
    BY <1>2, <1>6, <2>2 DEF Return, ReturnUnlogged, Pays, RelayPCs
  <2>3. CASE \E code \in {413, 502, 503} : Return("failed", code, Fault)
    BY <1>2, <1>6, <2>3 DEF Return, ReturnUnlogged, Pays, RelayPCs
  <2> QED BY <1>3, <2>1, <2>2, <2>3
<1> QED BY <1>1, <1>2, <1>4, <1>5, <1>7, FlightStep

(* The response headers of an HTTP stream. *)
LEMMA HTTPOpenKeeps ==
  ASSUME ForwardConstants, ForwardInv, HTTPOpen
  PROVE  ForwardInv'
<1>1. pc \in FlightPCs /\ Flight /\ UNCHANGED log
  BY ZenonT(30), FrameFlight DEF HTTPOpen, FlightPCs, StreamPCs
<1>2. prov \in Providers /\ sent \in BOOLEAN /\ sent' \in BOOLEAN /\ seq = "stream" /\ kind[prov] = "http" /\ pc = "httpopen"
  BY <1>1 DEF HTTPOpen, ForwardInv, TypeOK, Placed, FlightPCs, StreamPCs
<1>3.
      \/ ReturnUnlogged("cancelled", "empty")
      \/ Return("timedout", 504, Fault)
      \/ \E code \in {429, 502, 503} : Return("failed", code, NoFault)
      \/ Return("timedout", 504, NoFault)
      \/ pc = "httpopen" /\ pc' \in {"httpstream", "httpbuffered"} /\ UNCHANGED out
  BY <1>2 DEF HTTPOpen
<1>4. Goes
  <2>1. CASE ReturnUnlogged("cancelled", "empty")
    BY <1>2, <2>1 DEF Return, ReturnUnlogged, Goes, Ends, Credits, Outs, Results
  <2>2. CASE Return("timedout", 504, Fault)
    BY <1>2, <2>2 DEF Return, ReturnUnlogged, Goes, Ends, Credits, Outs, Results
  <2>3. CASE \E code \in {429, 502, 503} : Return("failed", code, NoFault)
    BY <1>2, <2>3 DEF Return, ReturnUnlogged, Goes, Ends, Credits, Outs, Results
  <2>4. CASE Return("timedout", 504, NoFault)
    BY <1>2, <2>4 DEF Return, ReturnUnlogged, Goes, Ends, Credits, Outs, Results
  <2>5. CASE pc = "httpopen" /\ pc' \in {"httpstream", "httpbuffered"} /\ UNCHANGED out
    BY <1>2, <2>5 DEF Return, ReturnUnlogged, Goes, Ends, Credits, Outs, Results
  <2> QED BY <1>3, <2>1, <2>2, <2>3, <2>4, <2>5
<1>5. Says
  <2>1. Silent
    BY <1>2 DEF HTTPOpen
  <2> QED BY <1>2, <2>1 DEF Says
<1>6. UNCHANGED quota
  BY DEF HTTPOpen
<1>7. Pays
  <2>1. CASE ReturnUnlogged("cancelled", "empty")
    BY <1>2, <1>6, <2>1 DEF Return, ReturnUnlogged, Pays, RelayPCs
  <2>2. CASE Return("timedout", 504, Fault)
    BY <1>2, <1>6, <2>2 DEF Return, ReturnUnlogged, Pays, RelayPCs
  <2>3. CASE \E code \in {429, 502, 503} : Return("failed", code, NoFault)
    BY <1>2, <1>6, <2>3 DEF Return, ReturnUnlogged, Pays, RelayPCs
  <2>4. CASE Return("timedout", 504, NoFault)
    BY <1>2, <1>6, <2>4 DEF Return, ReturnUnlogged, Pays, RelayPCs
  <2>5. CASE pc = "httpopen" /\ pc' \in {"httpstream", "httpbuffered"} /\ UNCHANGED out
    BY <1>2, <1>6, <2>5 DEF Return, ReturnUnlogged, Pays, RelayPCs
  <2> QED BY <1>3, <2>1, <2>2, <2>3, <2>4, <2>5
<1> QED BY <1>1, <1>2, <1>4, <1>5, <1>7, FlightStep

(* An HTTP stream before its first event. *)
LEMMA PreCommitKeeps ==
  ASSUME ForwardConstants, ForwardInv, PreCommit
  PROVE  ForwardInv'
<1>1. pc \in FlightPCs /\ Flight /\ UNCHANGED log
  BY ZenonT(30), FrameFlight DEF PreCommit, FlightPCs, StreamPCs
<1>2. prov \in Providers /\ sent \in BOOLEAN /\ sent' \in BOOLEAN /\ seq = "stream" /\ kind[prov] = "http" /\ pc = "httpstream"
  BY ZenonT(30), <1>1 DEF PreCommit, ForwardInv, TypeOK, Placed, FlightPCs, StreamPCs
<1>3.
      \/ Return("disconnected", 502, Fault)
      \/ ReturnUnlogged("cancelled", "empty")
      \/ Return("timedout", 504, Fault)
      \/ UNCHANGED <<pc, out>>
      \/ Return("cancelled", 200, NoFault)
  BY <1>2 DEF PreCommit
<1>4. Goes
  <2>1. CASE Return("disconnected", 502, Fault)
    BY <1>2, <2>1 DEF Return, ReturnUnlogged, Goes, Ends, Credits, Outs, Results
  <2>2. CASE ReturnUnlogged("cancelled", "empty")
    BY <1>2, <2>2 DEF Return, ReturnUnlogged, Goes, Ends, Credits, Outs, Results
  <2>3. CASE Return("timedout", 504, Fault)
    BY <1>2, <2>3 DEF Return, ReturnUnlogged, Goes, Ends, Credits, Outs, Results
  <2>4. CASE UNCHANGED <<pc, out>>
    BY <1>2, <2>4 DEF Return, ReturnUnlogged, Goes, Ends, Credits, Outs, Results
  <2>5. CASE Return("cancelled", 200, NoFault)
    BY <1>2, <2>5 DEF Return, ReturnUnlogged, Goes, Ends, Credits, Outs, Results
  <2> QED BY <1>3, <2>1, <2>2, <2>3, <2>4, <2>5
<1>5. Says
  <2>1.
      \/ Silent
      \/ Answer(200, credited)
    BY <1>2 DEF PreCommit
  <2> QED BY <1>2, <2>1 DEF Says
<1>6. UNCHANGED quota
  BY DEF PreCommit
<1>7. Pays
  <2>1. CASE Return("disconnected", 502, Fault)
    BY <1>2, <1>6, <2>1 DEF Return, ReturnUnlogged, Pays, RelayPCs
  <2>2. CASE ReturnUnlogged("cancelled", "empty")
    BY <1>2, <1>6, <2>2 DEF Return, ReturnUnlogged, Pays, RelayPCs
  <2>3. CASE Return("timedout", 504, Fault)
    BY <1>2, <1>6, <2>3 DEF Return, ReturnUnlogged, Pays, RelayPCs
  <2>4. CASE UNCHANGED <<pc, out>>
    BY <1>2, <1>6, <2>4 DEF Return, ReturnUnlogged, Pays, RelayPCs
  <2>5. CASE Return("cancelled", 200, NoFault)
    BY <1>2, <1>6, <2>5 DEF Return, ReturnUnlogged, Pays, RelayPCs
  <2> QED BY <1>3, <2>1, <2>2, <2>3, <2>4, <2>5
<1> QED BY <1>1, <1>2, <1>4, <1>5, <1>7, FlightStep

(* An HTTP stream after it. *)
LEMMA CommittedKeeps ==
  ASSUME ForwardConstants, ForwardInv, Committed
  PROVE  ForwardInv'
<1>1. pc \in FlightPCs /\ Flight /\ UNCHANGED log
  BY ZenonT(30), FrameFlight DEF Committed, FlightPCs, StreamPCs
<1>2. prov \in Providers /\ sent \in BOOLEAN /\ sent' \in BOOLEAN /\ seq = "stream" /\ kind[prov] = "http" /\ pc = "httpstream"
  BY <1>1 DEF Committed, ForwardInv, TypeOK, Placed, FlightPCs, StreamPCs
<1>3.
      \/ Return("committed", 200, Fault)
      \/ Return("cancelled", 200, NoFault)
      \/ \E f \in {NoFault, Fault} : Return("complete", 200, f)
  BY <1>2 DEF Committed
<1>4. Goes
  <2>1. CASE Return("committed", 200, Fault)
    BY <1>2, <2>1 DEF Return, ReturnUnlogged, Goes, Ends, Credits, Outs, Results
  <2>2. CASE Return("cancelled", 200, NoFault)
    BY <1>2, <2>2 DEF Return, ReturnUnlogged, Goes, Ends, Credits, Outs, Results
  <2>3. CASE \E f \in {NoFault, Fault} : Return("complete", 200, f)
    BY <1>2, <2>3 DEF Return, ReturnUnlogged, Goes, Ends, Credits, Outs, Results
  <2> QED BY <1>3, <2>1, <2>2, <2>3
<1>5. Says
  <2>1. Silent
    BY <1>2 DEF Committed
  <2> QED BY <1>2, <2>1 DEF Says
<1>6. UNCHANGED quota
  BY DEF Committed
<1>7. Pays
  <2>1. CASE Return("committed", 200, Fault)
    BY <1>2, <1>6, <2>1 DEF Return, ReturnUnlogged, Pays, RelayPCs
  <2>2. CASE Return("cancelled", 200, NoFault)
    BY <1>2, <1>6, <2>2 DEF Return, ReturnUnlogged, Pays, RelayPCs
  <2>3. CASE \E f \in {NoFault, Fault} : Return("complete", 200, f)
    BY <1>2, <1>6, <2>3 DEF Return, ReturnUnlogged, Pays, RelayPCs
  <2> QED BY <1>3, <2>1, <2>2, <2>3
<1> QED BY <1>1, <1>2, <1>4, <1>5, <1>7, FlightStep

(* A buffered HTTP stream. *)
LEMMA HTTPBufferedKeeps ==
  ASSUME ForwardConstants, ForwardInv, HTTPBuffered
  PROVE  ForwardInv'
<1>1. pc \in FlightPCs /\ Flight /\ UNCHANGED log
  BY ZenonT(30), FrameFlight DEF HTTPBuffered, FlightPCs, StreamPCs
<1>2. prov \in Providers /\ sent \in BOOLEAN /\ sent' \in BOOLEAN /\ seq = "stream" /\ kind[prov] = "http" /\ pc = "httpbuffered"
  BY ZenonT(30), <1>1 DEF HTTPBuffered, ForwardInv, TypeOK, Placed, FlightPCs, StreamPCs
<1>3.
      \/ Return("disconnected", 502, Fault)
      \/ Return("cancelled", 200, NoFault)
      \/ Return("complete", 200, NoFault)
  BY <1>2 DEF HTTPBuffered
<1>4. Goes
  <2>1. CASE Return("disconnected", 502, Fault)
    BY <1>2, <2>1 DEF Return, ReturnUnlogged, Goes, Ends, Credits, Outs, Results
  <2>2. CASE Return("cancelled", 200, NoFault)
    BY <1>2, <2>2 DEF Return, ReturnUnlogged, Goes, Ends, Credits, Outs, Results
  <2>3. CASE Return("complete", 200, NoFault)
    BY <1>2, <2>3 DEF Return, ReturnUnlogged, Goes, Ends, Credits, Outs, Results
  <2> QED BY <1>3, <2>1, <2>2, <2>3
<1>5. Says
  <2>1.
      \/ Silent
      \/ Answer(200, credited)
    BY <1>2 DEF HTTPBuffered
  <2> QED BY <1>2, <2>1 DEF Says
<1>6. UNCHANGED quota
  BY DEF HTTPBuffered
<1>7. Pays
  <2>1. CASE Return("disconnected", 502, Fault)
    BY <1>2, <1>6, <2>1 DEF Return, ReturnUnlogged, Pays, RelayPCs
  <2>2. CASE Return("cancelled", 200, NoFault)
    BY <1>2, <1>6, <2>2 DEF Return, ReturnUnlogged, Pays, RelayPCs
  <2>3. CASE Return("complete", 200, NoFault)
    BY <1>2, <1>6, <2>3 DEF Return, ReturnUnlogged, Pays, RelayPCs
  <2> QED BY <1>3, <2>1, <2>2, <2>3
<1> QED BY <1>1, <1>2, <1>4, <1>5, <1>7, FlightStep

(* The relay opens or does not. *)
LEMMA OpenKeeps ==
  ASSUME ForwardConstants, ForwardInv, Open
  PROVE  ForwardInv'
<1>0. pc = "open" /\ UNCHANGED <<inputs, seq, route, sent, gone, sentOut, log>>
  BY ZenonT(30) DEF Open
<1>1. pc \in FlightPCs /\ Flight /\ UNCHANGED log
  BY ZenonT(30), <1>0, FrameFlight DEF streamFrame, FlightPCs, StreamPCs
<1>2. prov \in Providers /\ sent \in BOOLEAN /\ sent' \in BOOLEAN /\ (~req.stream => seq = "wsnon") /\ pc = "open"
  BY <1>0 DEF ForwardInv, TypeOK, Placed, FlightPCs, StreamPCs
<1>3.
      \/ Return("failed", 429, NoFault) /\ UNCHANGED quota
      \/ Return("disconnected", 502, NoFault) /\ UNCHANGED quota
      \/ Return("unavailable", 503, NoFault) /\ UNCHANGED quota
      \/ Return("failed", 502, NoFault) /\ UNCHANGED quota
      \/ pc' \in (IF req.stream THEN {"wsstream", "wsbuffered"} ELSE {"wsbody"}) /\ UNCHANGED out
         /\ quota' = [quota EXCEPT ![prov] = IF prov \in Provisional THEN @ + 1 ELSE @]
  BY <1>2 DEF Open
<1>4. Goes
  <2>1. CASE Return("failed", 429, NoFault) /\ UNCHANGED quota
    BY <1>2, <2>1 DEF Return, ReturnUnlogged, Goes, Ends, Credits, Outs, Results
  <2>2. CASE Return("disconnected", 502, NoFault) /\ UNCHANGED quota
    BY <1>2, <2>2 DEF Return, ReturnUnlogged, Goes, Ends, Credits, Outs, Results
  <2>3. CASE Return("unavailable", 503, NoFault) /\ UNCHANGED quota
    BY <1>2, <2>3 DEF Return, ReturnUnlogged, Goes, Ends, Credits, Outs, Results
  <2>4. CASE Return("failed", 502, NoFault) /\ UNCHANGED quota
    BY <1>2, <2>4 DEF Return, ReturnUnlogged, Goes, Ends, Credits, Outs, Results
  <2>5. CASE pc' \in (IF req.stream THEN {"wsstream", "wsbuffered"} ELSE {"wsbody"}) /\ UNCHANGED out
               /\ quota' = [quota EXCEPT ![prov] = IF prov \in Provisional THEN @ + 1 ELSE @]
    BY <1>2, <2>5 DEF Return, ReturnUnlogged, Goes, Ends, Credits, Outs, Results
  <2> QED BY <1>3, <2>1, <2>2, <2>3, <2>4, <2>5
<1>5. Says
  <2>1. \/ Silent
        \/ ~req.stream /\ Return("failed", 429, NoFault) /\ Answer(429, credited)
        \/ ~req.stream /\ Return("unavailable", 503, NoFault) /\ Answer(503, credited)
        \/ ~req.stream /\ Return("failed", 502, NoFault) /\ Answer(502, credited)
    BY DEF Open
  <2> QED BY <1>2, <2>1 DEF Says, Return
<1>7. Pays
  <2>1. CASE Return("failed", 429, NoFault) /\ UNCHANGED quota
    BY <1>2, <2>1 DEF Return, ReturnUnlogged, Pays, RelayPCs
  <2>2. CASE Return("disconnected", 502, NoFault) /\ UNCHANGED quota
    BY <1>2, <2>2 DEF Return, ReturnUnlogged, Pays, RelayPCs
  <2>3. CASE Return("unavailable", 503, NoFault) /\ UNCHANGED quota
    BY <1>2, <2>3 DEF Return, ReturnUnlogged, Pays, RelayPCs
  <2>4. CASE Return("failed", 502, NoFault) /\ UNCHANGED quota
    BY <1>2, <2>4 DEF Return, ReturnUnlogged, Pays, RelayPCs
  <2>5. CASE pc' \in (IF req.stream THEN {"wsstream", "wsbuffered"} ELSE {"wsbody"}) /\ UNCHANGED out
               /\ quota' = [quota EXCEPT ![prov] = IF prov \in Provisional THEN @ + 1 ELSE @]
    BY <1>2, <2>5 DEF Return, ReturnUnlogged, Pays, RelayPCs
  <2> QED BY <1>3, <2>1, <2>2, <2>3, <2>4, <2>5
<1> QED BY <1>1, <1>2, <1>4, <1>5, <1>7, FlightStep

(* The ends of a WebSocket request without a row. *)
LEMMA WSBodyKeeps ==
  ASSUME ForwardConstants, ForwardInv, WSBody
  PROVE  ForwardInv'
<1>1. pc \in FlightPCs /\ Flight /\ UNCHANGED log
  BY ZenonT(30), FrameFlight DEF WSBody, FlightPCs, StreamPCs
<1>2. prov \in Providers /\ sent \in BOOLEAN /\ sent' \in BOOLEAN /\ seq = "wsnon" /\ pc = "wsbody"
  BY <1>1 DEF WSBody, ForwardInv, TypeOK, Placed, FlightPCs, StreamPCs
<1>3.
      \/ BodyFailed /\ UNCHANGED quota
      \/ Return("failed", 502, NoFault) /\ Silent /\ UNCHANGED quota
      \/ Return("queuefull", 503, NoFault) /\ Silent /\ Refund(TRUE)
      \/ gone /\ Return("cancelled", 200, NoFault) /\ Silent /\ UNCHANGED quota
      \/ ~gone /\ Return("timedout", 504, Fault) /\ Silent /\ UNCHANGED quota
      \/ ~gone /\ Return("disconnected", 502, Fault) /\ Silent /\ Refund(TRUE)
  BY ZenonT(30), <1>2 DEF WSBody
<1>4. Goes
  <2>1. CASE BodyFailed /\ UNCHANGED quota
    BY <1>2, <2>1 DEF Return, ReturnUnlogged, Goes, Ends, Credits, Outs, Results, BodyFailed
  <2>2. CASE Return("failed", 502, NoFault) /\ Silent /\ UNCHANGED quota
    BY <1>2, <2>2 DEF Return, ReturnUnlogged, Goes, Ends, Credits, Outs, Results, BodyFailed
  <2>3. CASE Return("queuefull", 503, NoFault) /\ Silent /\ Refund(TRUE)
    BY <1>2, <2>3 DEF Return, ReturnUnlogged, Goes, Ends, Credits, Outs, Results, BodyFailed
  <2>4. CASE gone /\ Return("cancelled", 200, NoFault) /\ Silent /\ UNCHANGED quota
    BY <1>2, <2>4 DEF Return, ReturnUnlogged, Goes, Ends, Credits, Outs, Results, BodyFailed
  <2>5. CASE ~gone /\ Return("timedout", 504, Fault) /\ Silent /\ UNCHANGED quota
    BY <1>2, <2>5 DEF Return, ReturnUnlogged, Goes, Ends, Credits, Outs, Results, BodyFailed
  <2>6. CASE ~gone /\ Return("disconnected", 502, Fault) /\ Silent /\ Refund(TRUE)
    BY <1>2, <2>6 DEF Return, ReturnUnlogged, Goes, Ends, Credits, Outs, Results, BodyFailed
  <2> QED BY ZenonT(30), <1>3, <2>1, <2>2, <2>3, <2>4, <2>5, <2>6
<1>5. Says
  <2>1. \/ Silent
        \/ BodyFailed
    BY ZenonT(30) DEF WSBody
  <2> QED BY <1>2, <2>1 DEF Says, Return, BodyFailed
<1>7. Pays
  <2>1. CASE BodyFailed /\ UNCHANGED quota
    BY <1>2, <2>1 DEF Return, ReturnUnlogged, Pays, RelayPCs, BodyFailed
  <2>2. CASE Return("failed", 502, NoFault) /\ Silent /\ UNCHANGED quota
    BY <1>2, <2>2 DEF Return, ReturnUnlogged, Pays, RelayPCs, BodyFailed
  <2>3. CASE Return("queuefull", 503, NoFault) /\ Silent /\ Refund(TRUE)
    BY ZenonT(30), <1>2, <2>3 DEF Return, ReturnUnlogged, Pays, RelayPCs, BodyFailed
  <2>4. CASE gone /\ Return("cancelled", 200, NoFault) /\ Silent /\ UNCHANGED quota
    BY <1>2, <2>4 DEF Return, ReturnUnlogged, Pays, RelayPCs, BodyFailed
  <2>5. CASE ~gone /\ Return("timedout", 504, Fault) /\ Silent /\ UNCHANGED quota
    BY <1>2, <2>5 DEF Return, ReturnUnlogged, Pays, RelayPCs, BodyFailed
  <2>6. CASE ~gone /\ Return("disconnected", 502, Fault) /\ Silent /\ Refund(TRUE)
    BY ZenonT(30), <1>2, <2>6 DEF Return, ReturnUnlogged, Pays, RelayPCs, BodyFailed
  <2> QED BY ZenonT(30), <1>3, <2>1, <2>2, <2>3, <2>4, <2>5, <2>6
<1> QED BY <1>1, <1>2, <1>4, <1>5, <1>7, FlightStep
=============================================================================
