----------------------- MODULE BuyerForwardProofs ------------------------
(***************************************************************************)
(* The invariant of BuyerForward, and with it what its properties say of   *)
(* every request, for any set of providers and any retry limits.           *)
(***************************************************************************)
EXTENDS BuyerForwardStepProofs, FiniteSetTheorems

USE DEF None, Fault, NoFault
USE SMTT(30), ZenonT(30)

-----------------------------------------------------------------------------
(* The rows of a provider.                                                 *)

(* The rows of one provider are counted. *)
LEMMA RowsCount ==
  ASSUME TypeOK, NEW p \in Providers
  PROVE  RowsOf(p) \in Nat
<1>1. IsFiniteSet(DOMAIN rows)
  BY FS_Interval DEF TypeOK
<1> QED BY <1>1, FS_Subset, FS_CardinalityType DEF RowsOf

(* A row written counts for the provider it names and for no other. *)
LEMMA RowAdds ==
  ASSUME TypeOK, NEW r \in LogRows, rows' = Append(rows, r), NEW p \in Providers
  PROVE  RowsOf(p)' = RowsOf(p) + (IF r.p = p THEN 1 ELSE 0)
<1> DEFINE S == {i \in DOMAIN rows : rows[i].p = p}
<1>1. IsFiniteSet(S) /\ Len(rows) \in Nat /\ Len(rows) + 1 \notin S
  <2>1. IsFiniteSet(DOMAIN rows)
    BY FS_Interval DEF TypeOK
  <2> QED BY <2>1, FS_Subset DEF TypeOK
<1>2. DOMAIN rows' = DOMAIN rows \cup {Len(rows) + 1} /\ rows'[Len(rows) + 1] = r
      /\ \A i \in DOMAIN rows : rows'[i] = rows[i]
  BY DEF TypeOK
<1>3. {i \in DOMAIN rows' : rows'[i].p = p} = IF r.p = p THEN S \cup {Len(rows) + 1} ELSE S
  BY <1>1, <1>2
<1>4. Cardinality(S \cup {Len(rows) + 1}) = Cardinality(S) + 1
  BY ZenonT(30), <1>1, FS_AddElement
<1>5. Cardinality(S) \in Nat
  BY <1>1, FS_CardinalityType
<1>6. RowsOf(p) = Cardinality(S) /\ RowsOf(p)' = Cardinality({i \in DOMAIN rows' : rows'[i].p = p})
  BY DEF RowsOf
<1> HIDE DEF S
<1>7. CASE r.p = p
  BY ZenonT(30), <1>3, <1>4, <1>6, <1>7
<1>8. CASE r.p # p
  <2>1. RowsOf(p)' = RowsOf(p)
    BY ZenonT(30), <1>3, <1>6, <1>8
  <2>2. RowsOf(p) \in Nat
    BY <1>5, <1>6
  <2> HIDE DEF RowsOf
  <2> QED BY <1>8, <2>1, <2>2
<1> QED BY <1>7, <1>8

(* A row written counts for the provider it names. *)
LEMMA RowsAreAdded ==
  ASSUME TypeOK
  PROVE  RowsAdd
  BY RowAdds DEF RowsAdd

-----------------------------------------------------------------------------
(* The last steps of a request, and the steps to the next provider.        *)

(* A complete answer over WebSocket: its row comes first. *)
LEMMA WSCompleteKeeps ==
  ASSUME ForwardConstants, ForwardInv, RowsAdd, WSComplete
  PROVE  ForwardInv'
<1> USE DEF ForwardInv
<1>0. pc = "wsbody" /\ Flight /\ UNCHANGED quota
  BY DEF WSComplete, Flight, inputs, route, sentOut
<1>a. PICK f \in {NoFault, Fault} :
         \/ /\ Row(TRUE, 200, f) /\ Answer(200, credited') /\ sent' = TRUE
            /\ ReturnUnlogged("complete", "logged")
         \/ /\ Row(FALSE, 200, f) /\ Answer(500, credited) /\ UNCHANGED sent
            /\ ReturnUnlogged("failed", "logged")
  BY ZenonT(30) DEF WSComplete
<1>b. PICK ok \in BOOLEAN, st \in Nat, res \in {"complete", "failed"} :
         /\ st = 200 /\ Row(ok, st, f) /\ ReturnUnlogged(res, "logged")
         /\ \/ ok /\ Answer(200, credited') /\ sent' = TRUE
            \/ ~ok /\ Answer(500, credited) /\ UNCHANGED sent
  <2>1. CASE /\ Row(TRUE, 200, f) /\ Answer(200, credited') /\ sent' = TRUE
             /\ ReturnUnlogged("complete", "logged")
    BY ZenonT(30), <2>1
  <2>2. CASE /\ Row(FALSE, 200, f) /\ Answer(500, credited) /\ UNCHANGED sent
             /\ ReturnUnlogged("failed", "logged")
    BY ZenonT(30), <2>2
  <2> QED BY ZenonT(30), <1>a, <2>1, <2>2
<1>1. pc = "wsbody" /\ pc' = "decide" /\ Flight /\ UNCHANGED quota /\ out'.log = "logged"
      /\ out'.res \in {"complete", "failed"} /\ out' \in Outs
  BY <1>0, <1>b DEF ReturnUnlogged, Outs, Results
<1>2. sent' \in BOOLEAN /\ prov \in Providers /\ seq = "wsnon" /\ ~req.stream /\ nowOut /\ claim = 0 /\ ~marked /\ late = 0
      /\ out.log # "logged" /\ credited \in BOOLEAN
  <2>1. sent' \in BOOLEAN
    BY ZenonT(30), <1>b DEF TypeOK
  <2>2. prov \in Providers /\ seq = "wsnon" /\ ~req.stream /\ nowOut /\ out.log # "logged" /\ credited \in BOOLEAN
    BY <1>1 DEF TypeOK, Placed, FlightPCs
  <2> QED BY <1>1, <2>1, <2>2 DEF Answered
<1>3. LogOK'
  BY <1>2, <1>b, RowTypes
<1>4. claim' = (IF ok THEN 200 ELSE 500) /\ ~marked' /\ late' = 0 /\ marked' \in BOOLEAN
  <2>0. credited' \in BOOLEAN
    BY <1>3 DEF LogOK
  <2>1. CASE ok /\ Answer(200, credited')
    BY <1>2, <2>0, <2>1, FirstAnswer
  <2>2. CASE ~ok /\ Answer(500, credited)
    BY <1>2, <2>2, FirstAnswer
  <2> QED BY <1>b, <2>1, <2>2
<1>5. TypeOK'
  <2>1. ClaimOK' /\ pc' \in PCs /\ quota' \in [Providers -> Int]
    BY <1>1, <1>4 DEF ClaimOK, PCs, AfterPCs, TypeOK
  <2> QED BY <1>1, <1>2, <1>3, <2>1, FlightTypes
<1>6. Finalised'
  BY <1>1, <1>2 DEF Finalised, Flight
<1>7. UNCHANGED <<req, kind, seq, prov, tried, nowOut, failedOver>>
  BY <1>1 DEF Flight
<1>8. Placed'
  BY <1>1, <1>2, <1>6, <1>7 DEF Placed, FlightPCs, StreamPCs, AfterPCs
<1>9. Answered'
  BY <1>1, <1>2, <1>4, <1>6, <1>7 DEF Answered
<1>w. /\ \A i, j \in DOMAIN rows' : Credits(rows'[i]) /\ Credits(rows'[j]) => i = j
      /\ \A i \in DOMAIN rows' : rows'[i].n < attemptN'
      /\ \A i, j \in DOMAIN rows' : i # j => rows'[i].n # rows'[j].n
      /\ logFaults' = 0 => attemptN' = Len(rows')
      /\ attemptN' = attemptN + 1
      /\ ok => \E i \in DOMAIN rows' : rows'[i].status = st
      /\ \A p \in Providers : RowsOf(p)' \in Nat
      /\ logFaults' = 0 => logFaults = 0 /\ \A p \in Providers : RowsOf(p)' = RowsOf(p) + (IF p = prov THEN 1 ELSE 0)
  <2> HIDE DEF ForwardInv
  <2>1. pc # "done" /\ ~(pc = "decide" /\ out.log = "logged")
    BY <1>1
  <2> QED BY <1>2, <1>b, <2>1, RowWritten
<1>10. Credited'
  <2> HIDE DEF Credits
  <2> QED BY <1>1, <1>6, <1>w DEF Credited
<1>11. Numbered'
  <2>1. Len(tried) = attemptN + Unlogged + 1
    BY <1>1 DEF Numbered, FlightPCs
  <2>2. attemptN \in Nat /\ Len(tried) \in Nat /\ Unlogged \in Nat /\ Unlogged' = Unlogged /\ tried' = tried
    BY <1>7 DEF TypeOK, Unlogged
  <2>3. attemptN' = attemptN + 1 /\ (\A i \in DOMAIN rows' : rows'[i].n < attemptN')
        /\ (\A i, j \in DOMAIN rows' : i # j => rows'[i].n # rows'[j].n) /\ (logFaults' = 0 => attemptN' = Len(rows'))
    BY <1>w
  <2> HIDE DEF Unlogged
  <2> QED BY <1>1, <2>1, <2>2, <2>3 DEF Numbered, FlightPCs, StreamPCs
<1>12. Routed'
  BY ZenonT(30), <1>1 DEF Routed, Hops, Tried, Flight, FlightPCs, StreamPCs, AfterPCs
<1>13. Served'
  <2>1. claim' = 200 => \E i \in DOMAIN rows' : rows'[i].status = 200
    BY <1>4, <1>b, <1>w
  <2> QED BY ZenonT(30), <1>1, <1>4, <1>7, <2>1 DEF Served
<1>14. Quotas'
  <2>1. logFaults' = 0 => logFaults = 0 /\ \A p \in Providers : RowsOf(p)' = RowsOf(p) + (IF p = prov THEN 1 ELSE 0)
    BY <1>w
  <2>2. ~Charged' /\ (\A p \in Providers : RowsOf(p) \in Nat /\ quota[p] \in Int) /\ Charged
    BY <1>1 DEF Charged, TypeOK, Quotas
  <2> HIDE DEF RowsOf, Charged
  <2>3. ASSUME logFaults' = 0, NEW p \in Providers PROVE quota[p] <= RowsOf(p)' /\ RowsOf(p)' \in Int
    <3>1. quota[p] <= RowsOf(p) + (IF p = prov THEN 1 ELSE 0)
      BY <2>1, <2>2, <2>3 DEF Quotas
    <3> QED BY <2>1, <2>2, <2>3, <3>1
  <2> QED BY <1>1, <1>w, <2>2, <2>3 DEF Quotas
<1> QED BY <1>5, <1>8, <1>9, <1>10, <1>11, <1>12, <1>13, <1>14

(* The next provider, with a row of the attempt that failed or, when it is *)
(* a stream's failover, without.                                           *)
LEMMA HopKeeps ==
  ASSUME ForwardConstants, ForwardInv, RowsAdd, pc \in {"failover", "retry"}, NEW p \in Candidates(excluded), NEW ex,
         excluded \subseteq ex, ex \subseteq Providers, Hop(p, ex), Silent,
         UNCHANGED <<req, kind, faulted, busy, readied, out, sent, gone, tried, replayed, quota>>,
         failedOver' \in BOOLEAN, retries' \in Nat, faultedN' \in Nat,
         \/ /\ \E ok \in BOOLEAN : Row(ok, out.status, out.fault)
            /\ ~req.stream \/ UNCHANGED failedOver
         \/ UNCHANGED log /\ req.stream /\ ~failedOver /\ failedOver' /\ out.res = "disconnected",
         \/ retries' = retries + 1 /\ UNCHANGED failedOver
         \/ retries' = retries /\ ~failedOver /\ failedOver',
         retries' <= req.cap \/ (~req.stream /\ (busy # {} \/ readied > 0))
  PROVE  ForwardInv'
<1> USE DEF ForwardInv
<1>1. p \in Providers /\ prov \in Providers /\ out.log = "row" /\ out.status \in Nat /\ out.fault \in {NoFault, Fault}
      /\ (seq = "stream" <=> req.stream) /\ seq \in {"stream", "wsnon", "http"} /\ ~Credits(out)
      /\ (~req.stream => claim = 0) /\ ~marked /\ faulted \subseteq excluded /\ (req.pin = None => p \notin excluded)
      /\ kind[p] \in {"ws", "http"}
  BY ZenonT(30) DEF Candidates, TypeOK, Placed, Outs, Credited, Answered, Routed, AfterPCs
<1>2. prov' = p /\ pc' = "dispatch" /\ nowOut' = FALSE /\ faulted \subseteq excluded' /\ excluded' \subseteq Providers
      /\ seq' \in {"stream", "wsnon", "http"} /\ (seq' = "stream" <=> req.stream) /\ (seq' = "wsnon" => kind[p] = "ws")
  BY ZenonT(30), <1>1 DEF Hop, TypeOK
<1>3. LogOK'
  <2>1. ASSUME NEW ok \in BOOLEAN, Row(ok, out.status, out.fault) PROVE LogOK'
    BY <1>1, <2>1, RowTypes
  <2>2. CASE UNCHANGED log
    BY <2>2 DEF LogOK, log, TypeOK
  <2> QED BY <2>1, <2>2
<1>4. TypeOK'
  BY ZenonT(30), <1>1, <1>2, <1>3 DEF TypeOK, LogOK, Silent
<1>5. Placed'
  BY <1>1, <1>2 DEF Placed, FlightPCs, StreamPCs, AfterPCs
<1>6. Answered' /\ Served'
  <2>1. Answered'
    BY <1>1, <1>2 DEF Answered, Silent
  <2>2. Served'
    BY <1>1, HopServes DEF Silent
  <2> QED BY <2>1, <2>2
<1>7. Routed'
  <2>1. Tried' = Tried /\ (req.pin = None => Tried \subseteq faulted /\ p \notin Tried)
    BY ZenonT(30), <1>1 DEF Tried, Routed
  <2>2. Hops' = Hops + 1 /\ Hops \in Nat
    <3>1. retries \in Nat /\ failedOver \in BOOLEAN
      BY DEF TypeOK
    <3>2. CASE retries' = retries + 1 /\ UNCHANGED failedOver
      BY <3>1, <3>2 DEF Hops
    <3>3. CASE retries' = retries /\ ~failedOver /\ failedOver'
      BY <3>1, <3>3 DEF Hops
    <3> QED BY <3>2, <3>3
  <2>3. Len(tried) \in Nat
    BY DEF TypeOK
  <2> HIDE DEF Tried, Hops
  <2> QED BY <1>2, <2>1, <2>2, <2>3, HopRoutes
<1>8. Len(tried) = attemptN + Unlogged + 1 /\ attemptN \in Nat /\ Unlogged \in Nat /\ Len(tried) \in Nat
  <2>1. Len(tried) = attemptN + Unlogged + 1
    BY DEF Numbered
  <2>2. attemptN \in Nat /\ Unlogged \in Nat /\ Len(tried) \in Nat
    BY DEF Unlogged, TypeOK
  <2> QED BY <2>1, <2>2
<1>9. ASSUME NEW ok \in BOOLEAN, Row(ok, out.status, out.fault), ~req.stream \/ UNCHANGED failedOver
      PROVE  Credited' /\ Numbered' /\ Quotas'
  <2>0. pc # "done" /\ ~(pc = "decide" /\ out.log = "logged")
    OBVIOUS
  <2>1. Credited'
    <3>1. \A i \in DOMAIN rows' : ~Credits(rows'[i])
      <4>1. \A i \in DOMAIN rows' : Credits(rows'[i]) => out.status < 400 /\ out.fault = NoFault
        <5> HIDE DEF ForwardInv
        <5> QED BY <1>1, <1>9, <2>0, RowWritten
      <4>2. ~(out.status < 400 /\ out.fault = NoFault)
        BY ZenonT(30), <1>1 DEF Credits
      <4> QED BY ZenonT(30), <4>1, <4>2
    <3> HIDE DEF Credits
    <3> QED BY ZenonT(30), <1>2, <3>1 DEF Credited, AfterPCs
  <2>2. Numbered'
    <3>1. Unlogged' = Unlogged
      BY <1>9 DEF Unlogged
    <3>2. attemptN' = attemptN + 1 /\ (\A i \in DOMAIN rows' : rows'[i].n < attemptN')
          /\ (\A i, j \in DOMAIN rows' : i # j => rows'[i].n # rows'[j].n) /\ (logFaults' = 0 => attemptN' = Len(rows'))
      BY ZenonT(30), <1>1, <1>9, <2>0, RowWritten
    <3> HIDE DEF Unlogged
    <3>3. Len(tried') = attemptN' + Unlogged'
      BY <1>8, <3>1, <3>2
    <3> QED BY ZenonT(30), <1>2, <3>2, <3>3, HopNumbers
  <2>3. Quotas'
    <3>1. logFaults' = 0 => logFaults = 0 /\ \A q \in Providers : RowsOf(q)' = RowsOf(q) + (IF q = prov THEN 1 ELSE 0)
      BY ZenonT(30), <1>1, <1>9, <2>0, RowWritten
    <3>2. ~Charged' /\ (\A q \in Providers : RowsOf(q) \in Nat /\ quota[q] \in Int)
      BY ZenonT(30), <1>2 DEF Charged, AfterPCs, TypeOK, Quotas
    <3>n. \A q \in Providers : RowsOf(q)' \in Nat
      BY ZenonT(30), <1>1, <1>9, <2>0, RowWritten
    <3> HIDE DEF RowsOf, Charged
    <3>3. ASSUME logFaults' = 0, NEW q \in Providers PROVE quota[q] <= RowsOf(q)' /\ RowsOf(q)' \in Int
      <4>1. quota[q] <= RowsOf(q) + (IF Charged /\ q = prov THEN 1 ELSE 0)
        BY <3>1, <3>3 DEF Quotas
      <4> QED BY <3>1, <3>2, <3>3, <4>1
    <3> QED BY <3>2, <3>3, <3>n DEF Quotas
  <2> QED BY <2>1, <2>2, <2>3
<1>10. CASE UNCHANGED log /\ req.stream /\ ~failedOver /\ failedOver' /\ out.res = "disconnected"
  <2>1. Credited'
    BY ZenonT(30), <1>2, <1>10 DEF Credited, log, AfterPCs
  <2>2. Numbered'
    <3>1. Unlogged' = Unlogged + 1
      BY <1>10 DEF Unlogged
    <3> HIDE DEF Unlogged
    <3>2. Len(tried') = attemptN' + Unlogged' /\ UNCHANGED <<attemptN, rows, logFaults>>
      BY <1>8, <1>10, <3>1 DEF log
    <3>3. (\A i \in DOMAIN rows : rows[i].n < attemptN) /\ (\A i, j \in DOMAIN rows : i # j => rows[i].n # rows[j].n)
          /\ (logFaults = 0 => attemptN = Len(rows))
      BY ZenonT(30) DEF Numbered
    <3> QED BY ZenonT(30), <1>2, <3>2, <3>3, HopNumbers
  <2>3. Quotas'
    <3>1. (\A q \in Providers : RowsOf(q)' = RowsOf(q)) /\ ~Charged' /\ ~Charged
      BY <1>2, <1>10 DEF log, RowsOf, Charged, AfterPCs
    <3> QED BY <1>10, <3>1 DEF Quotas, log
  <2> QED BY ZenonT(30), <1>4, <1>5, <1>6, <1>7, <2>1, <2>2, <2>3
<1> QED BY <1>4, <1>5, <1>6, <1>7, <1>9, <1>10

(* An HTTP answer of 200. *)
LEMMA HTTP200Keeps ==
  ASSUME ForwardConstants, ForwardInv, RowsAdd, HTTP200
  PROVE  ForwardInv'
<1>1. pc = "httpbody" /\ pc' = "done" /\ Flight /\ UNCHANGED <<out, quota>>
  BY DEF HTTP200, End, Flight, inputs, route, sentOut
<1>2. sent \in BOOLEAN /\ prov \in Providers /\ credited \in BOOLEAN
  BY <1>1 DEF ForwardInv, TypeOK, Placed
<1>3. sent' \in BOOLEAN
  BY ZenonT(30), <1>2 DEF HTTP200, HTTPRefused
<1>4. \/ /\ Row(TRUE, 200, NoFault)
         /\ \/ Answer(200, credited') /\ sent' = TRUE
            \/ Answer(500, credited') /\ UNCHANGED sent
      \/ Row(FALSE, 200, NoFault) /\ Answer(500, credited) /\ UNCHANGED sent
      \/ HTTPRefused
  BY ZenonT(30) DEF HTTP200
<1>5. CASE Row(TRUE, 200, NoFault) /\ (Answer(200, credited') \/ Answer(500, credited'))
  <2>1. PICK ok \in BOOLEAN, st \in Nat, f \in {NoFault, Fault} : ok /\ st = 200 /\ Row(ok, st, f)
    BY ZenonT(30), <1>5
  <2>2. Logs
    BY ZenonT(30), <1>1, <2>1 DEF Logs
  <2>3. \E i \in DOMAIN rows' : rows'[i].status = 200
    BY ZenonT(30), <1>5, RowExists DEF ForwardInv
  <2>4. Replies
    BY <1>1, <1>5, <2>3 DEF Replies
  <2> QED BY <1>1, <1>3, <2>2, <2>4, Finish DEF FlightPCs
<1>6. CASE Row(FALSE, 200, NoFault) /\ Answer(500, credited)
  <2>1. PICK ok \in BOOLEAN, st \in Nat, f \in {NoFault, Fault} : ~ok /\ st = 200 /\ Row(ok, st, f)
    <3>1. FALSE \in BOOLEAN /\ 200 \in Nat /\ NoFault \in {NoFault, Fault} /\ ~FALSE /\ 200 = 200
      OBVIOUS
    <3> QED BY ZenonT(30), <1>6, <3>1
  <2>2. Logs
    BY <1>1, <2>1 DEF Logs
  <2>3. credited' = credited
    BY <1>2, <2>1 DEF Row
  <2>4. Replies
    BY <1>1, <1>6, <2>3 DEF Replies
  <2> QED BY <1>1, <1>3, <2>2, <2>4, Finish DEF FlightPCs
<1>7. CASE HTTPRefused
  <2>1. PICK ok \in BOOLEAN, f \in {NoFault, Fault} :
          Row(ok, 502, f) /\ Answer(IF ok \/ f = NoFault THEN 502 ELSE 500, credited')
    BY <1>7 DEF HTTPRefused
  <2>2. PICK st \in Nat : st = 502 /\ Row(ok, st, f)
    BY <2>1
  <2>3. Logs
    BY <1>1, <2>2 DEF Logs
  <2>4. (IF ok \/ f = NoFault THEN 502 ELSE 500) \in Nat \ {0, 200}
    OBVIOUS
  <2>5. Replies
    BY <1>1, <2>1, <2>4 DEF Replies
  <2> QED BY <1>1, <1>3, <2>3, <2>5, Finish DEF FlightPCs
<1> QED BY ZenonT(30), <1>4, <1>5, <1>6, <1>7

(* Any other HTTP answer. *)
LEMMA HTTPOtherKeeps ==
  ASSUME ForwardConstants, ForwardInv, RowsAdd, HTTPOther
  PROVE  ForwardInv'
<1>1. pc = "httpbody" /\ Flight /\ UNCHANGED <<sent, quota>>
  BY DEF HTTPOther, Flight, inputs, route, sentOut
<1>2. sent' \in BOOLEAN /\ prov \in Providers /\ seq = "http" /\ pc \in FlightPCs
  BY <1>1 DEF ForwardInv, TypeOK, Placed, FlightPCs
<1>3. CASE \E ok \in BOOLEAN, code \in {429, 502, 503, 504}, f \in {NoFault, Fault} :
             Row(ok, code, f) /\ Answer(IF ok THEN code ELSE 500, credited') /\ End
  <2> PICK ok \in BOOLEAN, code \in {429, 502, 503, 504}, f \in {NoFault, Fault} :
             Row(ok, code, f) /\ Answer(IF ok THEN code ELSE 500, credited') /\ End
    BY <1>3
  <2>1. pc' = "done" /\ UNCHANGED out
    BY DEF End
  <2>2. Logs
    BY <1>1 DEF Logs
  <2>3. Replies
    <3>1. (IF ok THEN code ELSE 500) \in Nat \ {0, 200}
      OBVIOUS
    <3> QED BY <1>1, <3>1 DEF Replies
  <2> QED BY <1>1, <1>2, <2>1, <2>2, <2>3, Finish
<1>4. CASE /\ Silent /\ UNCHANGED log
           /\ (\E code \in {429, 502, 503, 504} : Return("http", code, NoFault)) \/ Return("httperr", 502, NoFault)
  <2>1. Goes
    BY <1>4 DEF Return, Goes, Ends, Credits, Outs, Results
  <2>2. Says
    BY <1>4 DEF Says
  <2>3. Pays
    BY <1>1 DEF Pays, RelayPCs
  <2> QED BY <1>1, <1>2, <1>4, <2>1, <2>2, <2>3, FlightStep
<1> QED BY <1>3, <1>4 DEF HTTPOther

(* The end of a request whose result is only logged. *)
LEMMA FinalKeeps ==
  ASSUME ForwardConstants, ForwardInv, RowsAdd, Final
  PROVE  ForwardInv'
<1>1. pc = "decide" /\ pc' = "done" /\ Flight /\ Silent /\ UNCHANGED <<out, quota, sent>>
  BY DEF Final, End, Flight, inputs, route, sentOut
<1>2. sent' \in BOOLEAN /\ prov \in Providers /\ out.status \in Nat /\ out.fault \in {NoFault, Fault}
      /\ out.log \in {"row", "logged", "empty"} /\ credited \in BOOLEAN
  BY <1>1 DEF ForwardInv, TypeOK, Placed, Outs
<1>3. \/ UNCHANGED log /\ out.log \in {"logged", "empty"}
      \/ out.log = "row" /\ \E ok \in BOOLEAN : Row(ok, out.status, out.fault)
  BY <1>2 DEF Final, LogAttempt
<1>4. Logs
  <2>1. out.log = "empty" => kind[prov] = "http"
    BY <1>1 DEF ForwardInv, Placed
  <2> QED BY <1>1, <1>2, <1>3, <2>1 DEF Logs, Charged
<1>5. marked => ~credited'
  <2>1. marked => ~credited /\ out.status = 503
    BY <1>1 DEF ForwardInv, Answered
  <2>2. CASE UNCHANGED log
    BY <2>1, <2>2 DEF log
  <2>3. ASSUME NEW ok \in BOOLEAN, Row(ok, out.status, out.fault), marked PROVE ~credited'
    BY <1>2, <2>1, <2>3 DEF Row
  <2> QED BY <1>3, <2>2, <2>3
<1> QED BY <1>1, <1>2, <1>4, <1>5, Finish DEF Replies, AfterPCs

(* The end of a request whose retries are used up. *)
LEMMA RetryExhaustedKeeps ==
  ASSUME ForwardConstants, ForwardInv, RowsAdd, RetryExhausted
  PROVE  ForwardInv'
<1>1. pc = "retry" /\ pc' = "done" /\ Flight /\ UNCHANGED <<out, quota, sent>>
  BY DEF RetryExhausted, End, Flight, inputs, route, sentOut
<1>2. sent' \in BOOLEAN /\ out.status \in Nat /\ out.fault \in {NoFault, Fault} /\ out.log = "row"
  BY <1>1 DEF ForwardInv, TypeOK, Placed, Outs
<1>3. Logs
  BY <1>1, <1>2 DEF RetryExhausted, LogAttempt, Logs
<1>4. \E code \in {500, 502, 503, 504} : Answer(code, credited')
  BY DEF RetryExhausted
<1>5. Replies
  BY <1>1, <1>4 DEF Replies
<1> QED BY <1>1, <1>2, <1>3, <1>5, Finish DEF AfterPCs

(* No provider takes over: a dead request ends, a stream may be retried. *)
LEMMA FailoverMissKeeps ==
  ASSUME ForwardConstants, ForwardInv, RowsAdd, FailoverMiss
  PROVE  ForwardInv'
<1>1. pc = "failover" /\ Flight /\ UNCHANGED <<quota, sent>>
  BY DEF FailoverMiss, Flight, inputs, route, sentOut
<1>2. sent' \in BOOLEAN /\ out.status \in Nat /\ out.fault \in {NoFault, Fault} /\ out.log = "row"
  BY <1>1 DEF ForwardInv, TypeOK, Placed, Outs
<1>3. CASE seq = "wsnon" /\ End /\ \E ok \in BOOLEAN : LogAttempt(ok) /\ Answer(IF ok THEN 502 ELSE 500, credited')
  <2> PICK ok \in BOOLEAN : LogAttempt(ok) /\ Answer(IF ok THEN 502 ELSE 500, credited')
    BY <1>3
  <2>1. pc' = "done" /\ UNCHANGED out
    BY <1>3 DEF End
  <2>2. Logs
    BY <1>1, <1>2 DEF LogAttempt, Logs
  <2>3. (IF ok THEN 502 ELSE 500) \in Nat \ {0, 200}
    OBVIOUS
  <2>4. Replies
    BY <1>1, <2>3 DEF Replies
  <2> QED BY <1>1, <1>2, <2>1, <2>2, <2>4, Finish DEF AfterPCs
<1>4. CASE seq = "stream" /\ pc' = "retry" /\ Silent /\ UNCHANGED <<out, log>>
  <2> USE DEF ForwardInv
  <2>0. pc = "failover" /\ pc' = "retry"
        /\ UNCHANGED <<req, kind, seq, prov, excluded, faulted, retries, faultedN, failedOver, busy, readied, gone, tried,
                       replayed, nowOut, out, sent, claim, late, marked, credited, rows, attemptN, logFaults, quota>>
    BY <1>1, <1>4, <1>2 DEF Flight, Silent, log
  <2>1. TypeOK'
    <3>1. pc' \in PCs
      BY <2>0 DEF PCs, AfterPCs
    <3>2. out' \in Outs /\ sent' \in BOOLEAN /\ ClaimOK' /\ LogOK' /\ quota' \in [Providers -> Int]
      BY ZenonT(30), <2>0 DEF TypeOK, ClaimOK, LogOK
    <3> QED BY <1>1, <3>1, <3>2, FlightTypes
  <2>2. Placed'
    BY <2>0 DEF Placed, FlightPCs, StreamPCs, AfterPCs, Finalised, StreamCommitted
  <2>7. Credited'
    BY ZenonT(30), <2>0 DEF Credited, Credits, AfterPCs, Finalised, StreamCommitted
  <2>3. Answered' /\ Served'
    BY ZenonT(30), <2>0 DEF Answered, Served
  <2>4. Numbered'
    BY ZenonT(30), <2>0 DEF Numbered, Unlogged
  <2>5. Routed'
    <3>1. out.res = "disconnected"
      BY <1>1 DEF Placed, FailoverEligible
    <3> QED BY <1>1, <1>4, <3>1 DEF Routed, Hops, Tried, Flight, FlightPCs, StreamPCs, AfterPCs
  <2>6. Quotas'
    <3>1. \A p \in Providers : RowsOf(p)' = RowsOf(p)
      BY <1>4 DEF log, RowsOf
    <3>2. Charged' <=> Charged
      BY <1>1, <1>4 DEF Charged, Flight, AfterPCs
    <3> QED BY <1>1, <1>4, <3>1, <3>2 DEF Quotas, Flight, log
  <2> QED BY <2>1, <2>2, <2>3, <2>4, <2>5, <2>6, <2>7
<1> QED BY <1>3, <1>4 DEF FailoverMiss

(* A dispatch, or the refusal of the request before it. *)
LEMMA DispatchKeeps ==
  ASSUME ForwardConstants, ForwardInv, RowsAdd, Dispatch
  PROVE  ForwardInv'
<1>1. pc = "dispatch" /\ UNCHANGED <<req, kind, seq, prov, excluded, faulted, retries, faultedN, failedOver, busy, readied,
                                     out, sent, gone, quota>>
  BY DEF Dispatch, inputs, route
<1>2. sent' \in BOOLEAN /\ prov \in Providers /\ ~Charged /\ out.log = "row"
  BY <1>1 DEF ForwardInv, TypeOK, Placed, Charged, AfterPCs, Outs
<1>3. CASE pc' = "done" /\ UNCHANGED sentOut
           /\ \/ (\E ok \in BOOLEAN : Row(ok, 502, NoFault)) /\ Answer(502, credited')
              \/ Answer(500, credited) /\ UNCHANGED log
  <2>1. Flight
    BY <1>1, <1>3 DEF Flight, sentOut
  <2>2. Logs
    BY <1>1, <1>2, <1>3 DEF Logs
  <2>3. Replies
    BY <1>1, <1>3 DEF Replies, log
  <2> QED BY <1>1, <1>2, <1>3, <2>1, <2>2, <2>3, Finish
<1>4. CASE /\ tried' = Append(tried, prov) /\ nowOut' = TRUE /\ replayed' = (replayed \/ sent)
           /\ pc' = IF seq = "http" THEN "httpbody" ELSE IF kind[prov] = "ws" THEN "open" ELSE "httpopen"
           /\ Silent /\ UNCHANGED log
  BY <1>4, DispatchSends
<1> QED BY ZenonT(30), <1>3, <1>4 DEF Dispatch

(* A provider takes over from one that died. *)
LEMMA FailoverHitKeeps ==
  ASSUME ForwardConstants, ForwardInv, RowsAdd, FailoverHit
  PROVE  ForwardInv'
<1>1. pc = "failover" /\ ~failedOver /\ failedOver' = TRUE /\ Silent
      /\ UNCHANGED <<req, kind, faulted, retries, faultedN, busy, readied, out, sent, gone, tried, replayed, quota>>
  BY DEF FailoverHit, inputs
<1>2. out.log = "row" /\ out.res = "disconnected" /\ seq \in {"stream", "wsnon"} /\ (seq = "stream" <=> req.stream)
      /\ retries \in Nat /\ faultedN \in Nat /\ excluded \subseteq Providers
      /\ (retries <= req.cap \/ (~req.stream /\ (busy # {} \/ readied > 0)))
  BY ZenonT(30), <1>1 DEF ForwardInv, Placed, TypeOK, Outs, FailoverEligible, Routed
<1> PICK p \in Candidates(excluded) : Hop(p, excluded)
  BY DEF FailoverHit
<1>3. \/ (\E ok \in BOOLEAN : Row(ok, out.status, out.fault)) /\ ~req.stream
      \/ UNCHANGED log /\ req.stream
  BY <1>2 DEF FailoverHit, LogAttempt
<1> QED BY ZenonT(30), <1>1, <1>2, <1>3, HopKeeps

(* A retry. *)
LEMMA RetryKeeps ==
  ASSUME ForwardConstants, ForwardInv, RowsAdd, Retry
  PROVE  ForwardInv'
<1>1. pc = "retry" /\ (SkipBudget \/ ShouldRetry)
      /\ UNCHANGED <<req, kind, faulted, failedOver, busy, readied, sent, gone, tried, replayed, quota>>
  BY DEF Retry, inputs
<1>2. out.log = "row" /\ out.status \in Nat /\ out.fault \in {NoFault, Fault} /\ retries \in Nat /\ faultedN \in Nat
      /\ failedOver \in BOOLEAN /\ excluded \subseteq Providers /\ (seq = "stream" <=> req.stream) /\ req.cap \in Nat
      /\ sent' \in BOOLEAN
  BY <1>1 DEF ForwardInv, Placed, TypeOK, Outs, ForwardConstants
<1> PICK ok \in BOOLEAN : Row(ok, out.status, out.fault)
  BY <1>2 DEF Retry, LogAttempt
<1>3. ASSUME NEW p \in Candidates(excluded), Hop(p, excluded \cup {p}), retries' = retries + 1, faultedN' = faultedN + 1,
             Silent, UNCHANGED out
      PROVE  ForwardInv'
  <2>1. retries + 1 <= req.cap \/ (~req.stream /\ (busy # {} \/ readied > 0))
    <3>1. CASE ShouldRetry
      BY <1>2, <3>1 DEF ShouldRetry
    <3>2. CASE SkipBudget
      BY ZenonT(30), <1>1, <1>2, <3>2 DEF SkipBudget, ForwardInv, Routed
    <3> QED BY <1>1, <3>1, <3>2
  <2>2. p \in Providers /\ excluded \subseteq excluded \cup {p} /\ excluded \cup {p} \subseteq Providers
    BY <1>2 DEF Candidates, ForwardInv, TypeOK
  <2>3. retries' \in Nat /\ faultedN' \in Nat /\ failedOver' \in BOOLEAN
    BY <1>1, <1>2, <1>3
  <2> QED BY <1>1, <1>2, <1>3, <2>1, <2>2, <2>3, HopKeeps
<1>4. ASSUME NEW code \in {413, 429, 503}, Answer(code, credited'), End,
             UNCHANGED <<prov, seq, excluded, retries, faultedN, nowOut>>
      PROVE  ForwardInv'
  <2>1. Flight /\ pc' = "done" /\ UNCHANGED <<out, quota>>
    BY <1>1, <1>4 DEF Flight, End
  <2>2. Logs
    BY <1>1, <1>2 DEF Logs
  <2>3. Replies
    <3>1. pc # "decide" /\ code \in Nat \ {0} /\ code # 200
      BY <1>1
    <3>2. Answer(code, credited') /\ (~req.stream /\ code = 200 => \E i \in DOMAIN rows' : rows'[i].status = 200)
      BY <1>4, <3>1
    <3>3. \E c \in Nat \ {0} : /\ Answer(c, credited')
                               /\ ~req.stream /\ c = 200 => \E i \in DOMAIN rows' : rows'[i].status = 200
      BY <3>1, <3>2
    <3> QED BY <3>1, <3>3 DEF Replies
  <2> QED BY <1>1, <1>2, <2>1, <2>2, <2>3, Finish DEF AfterPCs
<1> QED BY ZenonT(30), <1>3, <1>4 DEF Retry

-----------------------------------------------------------------------------
(* The theorems. *)

(* The invariant holds in every state of every request, whatever the       *)
(* providers, the limits and the faults of the log.                        *)
THEOREM ForwardInvariance == ForwardConstants => (Init /\ [][Next]_vars => []ForwardInv)
<1> SUFFICES ASSUME ForwardConstants PROVE Init /\ [][Next]_vars => []ForwardInv
  OBVIOUS
<1>1. Init => ForwardInv
  <2> SUFFICES ASSUME Init PROVE ForwardInv
    OBVIOUS
  <2>1. TypeOK /\ Placed /\ Answered /\ Credited /\ Numbered /\ Routed /\ Served
    BY InitHolds
  <2>2. Quotas
    <3>1. \A p \in Providers : RowsOf(p) \in Nat /\ quota[p] = 0
      BY <2>1, RowsCount DEF Init
    <3> HIDE DEF RowsOf
    <3>2. ~Charged
      BY DEF Init, Charged, AfterPCs
    <3> QED BY <3>1, <3>2 DEF Quotas, ForwardConstants
  <2> QED BY <2>1, <2>2 DEF ForwardInv
<1>2. ForwardInv /\ [Next]_vars => ForwardInv'
  <2> SUFFICES ASSUME ForwardInv, [Next]_vars PROVE ForwardInv'
    OBVIOUS
  <2>0. RowsAdd
    BY RowsAreAdded DEF ForwardInv
  <2>1. CASE UNCHANGED vars
    BY <2>1, OutsideStutter
  <2>2. CASE Step
    BY ZenonT(30), <2>0, <2>2, SelectKeeps, DispatchKeeps, OpenKeeps, WSChunkKeeps, WSDoneKeeps, WSErrorKeeps, WSBufferedKeeps,
       HTTPOpenKeeps, PreCommitKeeps, CommittedKeeps, HTTPBufferedKeeps, WSCompleteKeeps, WSBodyKeeps,
       HTTP200Keeps, HTTPOtherKeeps, FinalKeeps, ExcludeKeeps, FailoverHitKeeps, FailoverMissKeeps,
       RetryExhaustedKeeps, RetryKeeps DEF Step
  <2> QED BY <2>1, <2>2, OutsideKeeps DEF Next
<1> QED BY <1>1, <1>2, PTL

(* The mark that no provider was credited is on no answer of a credited    *)
(* request, in every behaviour (phase_timing.go stampNoChargeMarker).      *)
THEOREM MarksAreHonest == ForwardConstants => (Init /\ [][Next]_vars => []MarkerIsHonest)
<1>1. ForwardInv => MarkerIsHonest
  BY DEF ForwardInv, Answered, MarkerIsHonest
<1> QED BY <1>1, ForwardInvariance, PTL

(* At most one attempt of a request is credited. *)
THEOREM OneAttemptCredited == ForwardConstants => (Init /\ [][Next]_vars => []OneCredit)
<1>1. ForwardInv => OneCredit
  <2> SUFFICES ASSUME ForwardInv PROVE OneCredit
    OBVIOUS
  <2> DEFINE S == {i \in DOMAIN rows : rows[i].status < 400 /\ rows[i].fault = NoFault}
  <2>1. \A i, j \in S : i = j
    BY DEF ForwardInv, Credited, Credits
  <2>2. CASE S = {}
    <3>1. Cardinality(S) = 0
      BY <2>2, FS_EmptySet
    <3> QED BY <3>1 DEF OneCredit
  <2>3. CASE S # {}
    <3>1. PICK x \in S : S = {x}
      <4> HIDE DEF S
      <4> QED BY ZenonT(30), <2>1, <2>3
    <3>2. Cardinality(S) = 1
      BY ZenonT(30), <3>1, FS_Singleton
    <3> QED BY <3>2 DEF OneCredit
  <2> QED BY <2>2, <2>3
<1> QED BY <1>1, ForwardInvariance, PTL

(* Every attempt has one row with a number of its own, but for those the   *)
(* code leaves out.                                                        *)
THEOREM AttemptsAreLogged == ForwardConstants => (Init /\ [][Next]_vars => []EveryAttemptLogged)
<1>1. ForwardInv => EveryAttemptLogged
  <2> SUFFICES ASSUME ForwardInv PROVE EveryAttemptLogged
    OBVIOUS
  <2>1. attemptN \in Nat /\ Len(rows) \in Nat /\ Len(tried) \in Nat
    BY DEF ForwardInv, TypeOK
  <2>2. ASSUME pc = "done", logFaults = 0
        PROVE  LET lost == Unlogged + (IF out.log = "empty" THEN 1 ELSE 0)
                   extra == IF nowOut THEN 0 ELSE 1
               IN Len(tried) - Len(rows) \in {lost, lost - extra}
    BY <2>1, <2>2 DEF ForwardInv, Numbered, Unlogged
  <2> QED BY <2>2 DEF ForwardInv, Numbered, EveryAttemptLogged, Unlogged
<1> QED BY <1>1, ForwardInvariance, PTL

(* A request without a pin tries no provider twice and stays within its    *)
(* retries, its one failover and the full queues.                          *)
THEOREM RetriesStayBounded == ForwardConstants => (Init /\ [][Next]_vars => []RetriesAreBounded)
<1>1. ForwardConstants /\ ForwardInv => RetriesAreBounded
  <2> SUFFICES ASSUME ForwardConstants, ForwardInv, req.pin = None PROVE RetriesAreBounded
    BY DEF RetriesAreBounded
  <2>1. Len(tried) \in Nat /\ retries \in Nat /\ req.cap \in Nat /\ readied \in Nat
    BY DEF ForwardInv, TypeOK, ForwardConstants
  <2>2. Len(tried) <= retries + (IF failedOver THEN 1 ELSE 0) + 1
    BY DEF ForwardInv, Routed, Hops
  <2>3. (req.stream \/ (busy = {} /\ readied = 0)) => retries <= req.cap
    BY <2>1 DEF ForwardInv, Routed
  <2>4. \A i, j \in DOMAIN tried : i # j => tried[i] # tried[j]
    BY DEF ForwardInv, Routed
  <2> QED BY <2>1, <2>2, <2>3, <2>4 DEF RetriesAreBounded
<1> SUFFICES ASSUME ForwardConstants PROVE Init /\ [][Next]_vars => []RetriesAreBounded
  OBVIOUS
<1>2. ForwardInv => RetriesAreBounded
  BY <1>1
<1>3. Init /\ [][Next]_vars => []ForwardInv
  BY ForwardInvariance
<1> QED BY <1>2, <1>3, PTL

(* A 200 of a request without a stream has its row, and is its only status *)
(* line.                                                                   *)
THEOREM ServedIsDurable == ForwardConstants => (Init /\ [][Next]_vars => []DurableBeforeServed)
<1>1. ForwardInv => DurableBeforeServed
  BY DEF ForwardInv, Answered, Served, DurableBeforeServed
<1> QED BY <1>1, ForwardInvariance, PTL

(* A provisional provider pays with its quota only for attempts that are   *)
(* in the log.                                                             *)
THEOREM QuotaStaysLogged == ForwardConstants => (Init /\ [][Next]_vars => []QuotaIsLogged)
<1>1. ForwardInv => QuotaIsLogged
  <2> SUFFICES ASSUME ForwardInv, pc = "done", logFaults = 0, NEW p \in Providers
               PROVE  quota[p] <= Cardinality({i \in DOMAIN rows : rows[i].p = p})
    BY DEF QuotaIsLogged
  <2>1. ~Charged
    BY DEF Charged, AfterPCs
  <2>2. RowsOf(p) \in Nat /\ quota[p] \in Int
    BY RowsCount DEF ForwardInv, TypeOK
  <2>3. quota[p] <= RowsOf(p) + (IF Charged /\ p = prov THEN 1 ELSE 0)
    BY DEF ForwardInv, Quotas
  <2>4. quota[p] <= RowsOf(p)
    <3> HIDE DEF RowsOf
    <3> QED BY <2>1, <2>2, <2>3
  <2> QED BY <2>4 DEF RowsOf
<1> QED BY <1>1, ForwardInvariance, PTL
=============================================================================
