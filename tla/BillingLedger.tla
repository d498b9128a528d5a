--------------------------- MODULE BillingLedger ----------------------------
(***************************************************************************)
(* Billing, in two parts that share no state: the credit ledger, and the   *)
(* credit formula against its reference (prefix formula).                  *)
(***************************************************************************)
EXTENDS Integers, Sequences, FiniteSets, FiniteSetsExt

-----------------------------------------------------------------------------
(***************************************************************************)
(* The provider-credit ledger of the coordinator (billing/hotpath.go,      *)
(* recovery.go, settlement.go, payout.go, quarantine.go and the receipt    *)
(* re-pricing of settlement_receipts.go): a served attempt becomes a       *)
(* credit, in one transaction with its request-log row or later by the     *)
(* recovery scan; a verified receipt re-prices it; an operator resolves    *)
(* quarantined ones; the weekly settlement gathers payable credits into a  *)
(* payout which the payout pipeline claims after revalidating it.          *)
(* All attempts are of one provider. Prices are abstracted to the billed   *)
(* completion (CreditFormula has the arithmetic): one credit for the       *)
(* provider and one for the operator per token.                            *)
(***************************************************************************)

CONSTANTS
  Attempts,    \* the attempts routed to the provider
  Kinds,       \* what they are like (see AttemptKinds)
  MaxWeek,     \* bound: settlement windows
  MinPayout,   \* cfg.MinPayoutCredits
  MaxScans     \* bound: recovery scans

VARIABLES
  kind,     \* what each attempt is like, chosen at the start
  logged,   \* request_log: "none", "bare", "full" (with its identity snapshot)
  week,     \* the current week; credits of a week settle when it has ended
  credit,   \* ledger_request_credits and its operator row
  ledgerOutput,   \* settlement_attempt_outputs: "none", "clean", "overlap"
  verdict,  \* settlement_receipt_verdicts: "none", "verified", "refused"
  ledgerRes,      \* ledger_quarantine_resolutions of a credit, oldest first
  payout,   \* ledger_payout_ready, one per window
  scans     \* recovery scans done, what the last one read and how it ended

vars == <<kind, logged, week, credit, ledgerOutput, verdict, ledgerRes, payout, scans>>

None == -1

NoCredit == [ts |-> 0, gross |-> 0, prov |-> 0, oper |-> 0, src |-> "", fault |-> FALSE, q |-> "", pay |-> 0]
NoPayout == [st |-> "none", n |-> 0, gross |-> 0, prov |-> 0]

Sum(f(_), S) == MapThenSumSet(f, S)

----------------------------------------------------------------------------
(* Pricing, abstracted. *)

UsageFor(k) == IF k.est # None THEN "byte_estimated" ELSE "provider_reported"

Billed(src, rep, est) ==
  CASE est = None -> IF rep = None \/ src = "byte_estimated" THEN 0 ELSE rep
    [] est # None /\ rep = None -> est
    [] OTHER -> IF rep < est THEN rep ELSE est

Priced(src, n, fault) ==
  LET paid == IF fault THEN 0 ELSE n
  IN [ts |-> week, gross |-> 2 * paid, prov |-> paid, oper |-> paid,
      src |-> src, fault |-> fault, q |-> "", pay |-> 0]

Zeroed(c, reason) == [c EXCEPT !.gross = 0, !.prov = 0, !.oper = 0, !.q = reason]

(* The price of attempt a from its request-log row, which has no fault. *)
FromLog(a, fault) ==
  LET k == kind[a]
      src == UsageFor(k)
      clamped == src = "provider_reported" /\ k.est # None /\ k.est < k.rep
  IN Priced(IF clamped THEN "byte_estimated" ELSE src, Billed(src, k.rep, k.est), fault)

----------------------------------------------------------------------------
(* Receipts. *)

(* syncVerifiedReceiptLedgerCreditForAttemptTx: a verified receipt         *)
(* re-prices the unsettled credit of an enforced attempt by the usage it   *)
(* is bound to and takes the byte estimate away; a cached count the new    *)
(* price cannot be based on quarantines credit and verdict instead.        *)
Sync(a, c, v) ==
  LET k == kind[a]
      applies == /\ c # NoCredit /\ c.q = "" /\ c.pay = 0
                 /\ k.enforce /\ v = "verified" /\ ledgerOutput[a] = "clean"
      rep == IF k.rep = None THEN 0 ELSE k.rep
  IN CASE ~applies -> [c |-> c, v |-> v]
       [] applies /\ k.defect = "reprice" -> [c |-> Zeroed(c, "cache"), v |-> "refused"]
       [] OTHER -> [c |-> [Priced("provider_reported", rep, c.fault) EXCEPT !.ts = c.ts], v |-> v]

Synced(a, c, v) ==
  LET s == Sync(a, c, v)
  IN credit' = [credit EXCEPT ![a] = s.c] /\ verdict' = [verdict EXCEPT ![a] = s.v]

(* One receipt, or the deadline of a missing one, closes the verdict (the  *)
(* module SettlementVerdicts has the machine); the re-pricing is part of   *)
(* the transaction.                                                        *)
ApplySettlementReceiptVerdict(a, valid) ==
  /\ ledgerOutput[a] # "none" /\ verdict[a] = "none"
  /\ Synced(a, credit[a], IF valid /\ ledgerOutput[a] = "clean" THEN "verified" ELSE "refused")
  /\ UNCHANGED <<kind, logged, week, ledgerOutput, ledgerRes, payout, scans>>

(* The output of an attempt is recorded after its row. One that repeats or *)
(* overlaps the bytes of another attempt is marked together with it.       *)
InsertSettlementAttemptOutput(a, clash) ==
  /\ logged[a] = "full" /\ ledgerOutput[a] = "none" /\ kind[a].enforce
  /\ LET others == {b \in Attempts \ {a} : ledgerOutput[b] # "none"}
     IN /\ clash => others # {}
        /\ ledgerOutput' = [b \in Attempts |->
                   CASE b = a -> IF clash THEN "overlap" ELSE "clean"
                     [] b \in others /\ clash -> "overlap"
                     [] OTHER -> ledgerOutput[b]]
  /\ UNCHANGED <<kind, logged, week, credit, verdict, ledgerRes, payout, scans>>

----------------------------------------------------------------------------
(* Writing the ledger. *)

(* writeHotPath: log row, credit, operator credit and identity snapshot in *)
(* one transaction. An attempt whose number or cached count is ambiguous   *)
(* is written as a quarantined zero.                                       *)
WriteHotPath(a) ==
  /\ logged[a] = "none"
  /\ logged' = [logged EXCEPT ![a] = "full"]
  /\ LET k == kind[a]
         c == CASE k.defect \in {"ambiguous", "cache"} -> Zeroed(FromLog(a, k.fault), k.defect)
                [] k.defect = "usage" -> [Zeroed(FromLog(a, k.fault), "") EXCEPT !.src = "null_error"]
                [] OTHER -> FromLog(a, k.fault)
     IN Synced(a, c, verdict[a])
  /\ UNCHANGED <<kind, week, ledgerOutput, ledgerRes, payout, scans>>

(* The hot path failed: writeRequestLogWithIdentity keeps the row, without *)
(* a credit; the identity snapshot only when the provider is known.        *)
WriteRequestLogWithIdentity(a, known) ==
  /\ logged[a] = "none"
  /\ logged' = [logged EXCEPT ![a] = IF known THEN "full" ELSE "bare"]
  /\ UNCHANGED <<kind, week, credit, ledgerOutput, verdict, ledgerRes, payout, scans>>

----------------------------------------------------------------------------
(* Recovery. *)

Quarantined(c, reason) == IF c.q = "" THEN [c EXCEPT !.q = reason] ELSE c

(* reconcileExistingCreditTx: an unquarantined credit has to agree with    *)
(* the price, the usage source and the absence of a fault that the log row *)
(* gives; a disagreement quarantines it, and is an error when the credit   *)
(* has been settled.                                                       *)
ReconcileExistingCredit(a) ==
  LET c == credit[a]
      k == kind[a]
      want == FromLog(a, FALSE)
      again == Priced(c.src, Billed(c.src, k.rep, k.est), c.fault)
      mismatch == \/ again.gross # c.gross
                  \/ again.prov # c.prov
                  \/ c.src # want.src
                  \/ c.fault
                  \/ c.prov + c.oper # c.gross
  IN IF c.q # "" \/ ~mismatch THEN [c |-> c, err |-> FALSE]
     ELSE [c |-> Quarantined(c, "mismatch"), err |-> c.pay # 0]

(* A row that cannot be priced: an existing credit is quarantined, a       *)
(* missing one is inserted as a quarantined zero.                          *)
QuarantineRow(a, reason) ==
  [c |-> IF credit[a] # NoCredit THEN Quarantined(credit[a], reason)
         ELSE Zeroed(Priced(UsageFor(kind[a]), 0, FALSE), reason),
   err |-> FALSE]

(* A row that can be priced: an existing credit is compared with it, a     *)
(* missing one is inserted unless the attempt's number is in doubt.        *)
RecoverPriced(a) ==
  IF credit[a] # NoCredit THEN ReconcileExistingCredit(a)
  ELSE IF kind[a].defect = "ambiguous" THEN QuarantineRow(a, "ambiguous")
  ELSE [c |-> FromLog(a, FALSE), err |-> FALSE]

(* Mutant: a row without an identity snapshot is passed over. *)
RecoverRowKnown(a) ==
  CASE logged[a] = "full" /\ credit[a] # NoCredit -> ReconcileExistingCredit(a)
    [] logged[a] = "full" /\ credit[a] = NoCredit -> [c |-> FromLog(a, FALSE), err |-> FALSE]
    [] OTHER -> [c |-> credit[a], err |-> FALSE]

RecoverRow(a) ==
  LET k == kind[a]
  IN CASE logged[a] = "none" ->
            [c |-> IF credit[a] = NoCredit THEN NoCredit ELSE Quarantined(credit[a], "orphan"),
             err |-> FALSE]
       [] logged[a] # "none" /\ k.defect = "usage" -> QuarantineRow(a, "usage")
       [] logged[a] = "bare" /\ k.defect # "usage" ->
            [c |-> IF credit[a] # NoCredit THEN credit[a]
                   ELSE Zeroed(Priced(UsageFor(k), 0, FALSE), "identity"),
             err |-> FALSE]
       [] logged[a] = "full" /\ k.defect = "cache" -> QuarantineRow(a, "cache")
       [] OTHER -> RecoverPriced(a)

(* RecoverLedger: all rows of the scan in one transaction; an error on any *)
(* of them leaves only the row of the failed run. A credit it creates has  *)
(* no fault, and is re-priced by a receipt that was verified before.  The  *)
(* scan reads the rows of its time window whose status is not 503: not     *)
(* those of the grace period, nor those older than the window.             *)
RecoverLedger(window) ==
  /\ scans.n < MaxScans
  /\ LET row == [a \in window |-> RecoverRow(a)]
         synced == [a \in Attempts |->
                      IF a \notin window THEN [c |-> credit[a], v |-> verdict[a]]
                      ELSE IF credit[a] = NoCredit THEN Sync(a, row[a].c, verdict[a])
                      ELSE [c |-> row[a].c, v |-> verdict[a]]]
     IN IF \E a \in window : row[a].err
          THEN /\ scans' = [n |-> scans.n + 1, of |-> window, last |-> "failed"]
               /\ UNCHANGED <<credit, verdict>>
          ELSE /\ scans' = [n |-> scans.n + 1, of |-> window, last |-> "complete"]
               /\ credit' = [a \in Attempts |-> synced[a].c]
               /\ verdict' = [a \in Attempts |-> synced[a].v]
  /\ UNCHANGED <<kind, logged, week, ledgerOutput, ledgerRes, payout>>

----------------------------------------------------------------------------
(* Quarantine resolutions. *)

Latest(a) == ledgerRes[a][Len(ledgerRes[a])]

(* forceResolutionHandler: an operator credits or voids a quarantined row. *)
(* The other kind may correct the first one, once, before its deadline.    *)
ForceResolve(a, k) ==
  /\ credit[a].q # ""
  /\ Len(ledgerRes[a]) < 2
  /\ Len(ledgerRes[a]) = 1 => Latest(a).kind # k /\ ~Latest(a).due
  /\ ledgerRes' = [ledgerRes EXCEPT ![a] = Append(@, [kind |-> k, due |-> FALSE, late |-> {}])]
  /\ UNCHANGED <<kind, logged, week, credit, ledgerOutput, verdict, payout, scans>>

(* The hold of the latest resolution runs out: a forced credit matures and *)
(* no correction is accepted any more. "late" are the windows whose payout *)
(* was made before.                                                        *)
HoldLapses(a) ==
  /\ ledgerRes[a] # <<>> /\ ~Latest(a).due
  /\ ledgerRes' = [ledgerRes EXCEPT ![a][Len(ledgerRes[a])] =
             [@ EXCEPT !.due = TRUE, !.late = {w \in 1..MaxWeek : payout[w] # NoPayout}]]
  /\ UNCHANGED <<kind, logged, week, credit, ledgerOutput, verdict, payout, scans>>

----------------------------------------------------------------------------
(* Settlement and payout. *)

ForcedCredit(a) == ledgerRes[a] # <<>> /\ Latest(a).kind = "credit" /\ Latest(a).due

(* The view spec022_payable_request_credits. *)
Payable(a) ==
  /\ credit[a] # NoCredit
  /\ credit[a].q = "" \/ ForcedCredit(a)
  /\ kind[a].enforce => verdict[a] = "verified" /\ ledgerOutput[a] = "clean"

SplitBroken(a, w) ==
  LET c == credit[a]
  IN c # NoCredit /\ c.ts <= w /\ c.pay = 0 /\ c.q = "" /\ c.prov + c.oper # c.gross

Eligible(a, w) ==
  /\ credit[a].ts <= w /\ credit[a].pay = 0
  /\ Payable(a) /\ ~SplitBroken(a, w)
  /\ ~(ForcedCredit(a) /\ w \in Latest(a).late)

(* RunSettlement of the window that ended with week w: broken splits are   *)
(* quarantined, the eligible credits are added to the window's payout      *)
(* unless it is no longer ready, and linked to it.                         *)
RunSettlement(w) ==
  /\ w < week
  /\ LET S == {a \in Attempts : Eligible(a, w)}
         prov == Sum(LAMBDA a : credit[a].prov, S)
         gather == S # {} /\ prov >= MinPayout /\ payout[w].st \in {"none", "ready"}
     IN /\ gather \/ \E a \in Attempts : SplitBroken(a, w)
        /\ payout' = IF ~gather THEN payout
                     ELSE [payout EXCEPT ![w] =
                            [st |-> "ready", n |-> @.n + Cardinality(S), prov |-> @.prov + prov,
                             gross |-> @.gross + Sum(LAMBDA a : credit[a].gross, S)]]
        /\ credit' = [a \in Attempts |->
             CASE gather /\ a \in S -> [credit[a] EXCEPT !.pay = w]
               [] SplitBroken(a, w) -> [credit[a] EXCEPT !.q = "split"]
               [] OTHER -> credit[a]]
  /\ UNCHANGED <<kind, logged, week, ledgerOutput, verdict, ledgerRes, scans>>

Sources(w) == {a \in Attempts : credit[a].pay = w}

(* ClaimPayoutReady: sources that are no longer all payable void the       *)
(* payout, amounts that no longer add up are recomputed (or void it), and  *)
(* only a row that still has the gross the caller expects is consumed.     *)
ClaimPayoutReady(w, stale) ==
  /\ payout[w].st = "ready"
  /\ LET S == Sources(w)
         paying == {a \in S : Payable(a) /\ credit[a].ts <= w}
         now == [st |-> "ready", n |-> Cardinality(paying),
                 gross |-> Sum(LAMBDA a : credit[a].gross, paying),
                 prov |-> Sum(LAMBDA a : credit[a].prov, paying)]
     IN payout' = [payout EXCEPT ![w] =
          CASE S = {} \/ paying # S -> [@ EXCEPT !.st = "voided"]
            [] S # {} /\ paying = S /\ now # payout[w] ->
                 IF now.prov >= MinPayout THEN now ELSE [@ EXCEPT !.st = "voided"]
            [] OTHER -> IF stale THEN @ ELSE [@ EXCEPT !.st = "consumed"]]
  /\ UNCHANGED <<kind, logged, week, credit, ledgerOutput, verdict, ledgerRes, scans>>

WeekEnds ==
  /\ week < MaxWeek
  /\ week' = week + 1
  /\ UNCHANGED <<kind, logged, credit, ledgerOutput, verdict, ledgerRes, payout, scans>>

----------------------------------------------------------------------------

Init ==
  /\ kind \in [Attempts -> Kinds]
  /\ logged = [a \in Attempts |-> "none"]
  /\ week = 1
  /\ credit = [a \in Attempts |-> NoCredit]
  /\ ledgerOutput = [a \in Attempts |-> "none"]
  /\ verdict = [a \in Attempts |-> "none"]
  /\ ledgerRes = [a \in Attempts |-> <<>>]
  /\ payout = [w \in 1..MaxWeek |-> NoPayout]
  /\ scans = [n |-> 0, of |-> {}, last |-> "none"]

Next ==
  \/ \E a \in Attempts :
       \/ WriteHotPath(a)
       \/ \E known \in BOOLEAN : WriteRequestLogWithIdentity(a, known)
       \/ \E clash \in BOOLEAN : InsertSettlementAttemptOutput(a, clash)
       \/ \E valid \in BOOLEAN : ApplySettlementReceiptVerdict(a, valid)
       \/ \E k \in {"credit", "void"} : ForceResolve(a, k)
       \/ HoldLapses(a)
  \/ \E w \in 1..MaxWeek : RunSettlement(w) \/ \E stale \in BOOLEAN : ClaimPayoutReady(w, stale)
  \/ \E window \in SUBSET Attempts : RecoverLedger(window)
  \/ WeekEnds

----------------------------------------------------------------------------

TypeOK ==
  /\ kind \in [Attempts -> Kinds]
  /\ logged \in [Attempts -> {"none", "bare", "full"}]
  /\ ledgerOutput \in [Attempts -> {"none", "clean", "overlap"}]
  /\ verdict \in [Attempts -> {"none", "verified", "refused"}]
  /\ \A a \in Attempts : credit[a].pay \in 0..MaxWeek /\ Len(ledgerRes[a]) <= 2
  /\ \A w \in 1..MaxWeek : payout[w].st \in {"none", "ready", "consumed", "voided"}

(* What has been paid out is what the credits say: the amounts of a        *)
(* consumed payout are and stay the sums over the credits linked to it,    *)
(* whatever receipts, scans, resolutions and later settlements do.         *)
ConsumedIsItsCredits ==
  \A w \in 1..MaxWeek : payout[w].st = "consumed" =>
    /\ payout[w].n = Cardinality(Sources(w))
    /\ payout[w].prov = Sum(LAMBDA a : credit[a].prov, Sources(w))
    /\ payout[w].gross = Sum(LAMBDA a : credit[a].gross, Sources(w))

(* At the moment a payout is consumed every credit in it is payable: none  *)
(* is quarantined without a matured forced credit, and every enforced one  *)
(* has a verified receipt for output that overlaps no other attempt's.     *)
ClaimedIsPayableStep ==
     \A w \in 1..MaxWeek : payout[w].st = "ready" /\ payout'[w].st = "consumed" =>
       \A a \in Sources(w) : Payable(a)

(* A recovery scan that completes leaves no logged attempt of its window   *)
(* without a credit, and prices none that the ledger already holds a second time.    *)
ScanCompletesLedgerStep ==
     scans'.n > scans.n /\ scans'.last = "complete" =>
       \A a \in Attempts :
         /\ logged[a] # "none" /\ a \in scans'.of => credit'[a] # NoCredit
         /\ credit[a] # NoCredit => credit'[a].gross = credit[a].gross

-----------------------------------------------------------------------------
(***************************************************************************)
(* The credit formula of the billing ledger (billing/formula.go): which    *)
(* completion count is billed, the overflow-checked price of a request and *)
(* its split between provider and operator.  Integers have the width       *)
(* MaxInt, so that the overflow checks are met.                            *)
(***************************************************************************)

CONSTANTS
  MaxInt,        \* math.MaxInt64
  MaxTokens,     \* maxBillableTokens
  PriceDenom,    \* globalMultiplierDenom * tokensPerMillion
  ShareDenom,    \* providerShareDenom
  Tokens,        \* the token counts a provider may report, None included
  Rates,         \* the rate-card entries, [prompt, cacheHit, completion]
  Multipliers,   \* GlobalMultiplierPPM
  Shares         \* ProviderShareBps

VARIABLES
  args,   \* the arguments of ComputeCreditsWithCache
  out     \* the BilledRow it returned

formulaVars == <<args, out>>

Nil == -99     \* a nil pointer
Bad == -1       \* (0, false) of the checked operations

Pending == [done |-> FALSE, gross |-> 0, prov |-> 0, oper |-> 0, src |-> "", fault |-> "none"]

----------------------------------------------------------------------------

(* Go's quotient truncates towards zero; amounts below zero never reach it. *)
RoundHalfEven(n, d) ==
  LET q == n \div d
      r == n % d
  IN CASE d <= 0     -> 0
       [] 2 * r < d  -> q
       [] 2 * r > d  -> q + 1
       [] OTHER      -> IF q % 2 = 0 THEN q ELSE q + 1

CheckedMul(a, b) ==
  CASE a < 0 \/ b < 0          -> Bad
    [] a = 0 \/ b = 0          -> 0
    [] a > MaxInt \div b       -> Bad
    [] OTHER                   -> a * b

CheckedAdd(a, b) ==
  IF a < 0 \/ b < 0 \/ a > MaxInt - b THEN Bad ELSE a + b

InvalidBillableTokenCount(v) == v < 0 \/ v > MaxTokens

OrZero(v) == IF v = Nil THEN 0 ELSE v

Least(a, b) == IF b < a THEN b ELSE a

(* The completion that is billed: never above the estimate made from the   *)
(* bytes that crossed the wire, when there is one.                         *)
BillableCompletion(src, rep, est) ==
  LET res(n, ok, clamped) == [n |-> n, ok |-> ok, clamped |-> clamped]
  IN IF src = "byte_estimated"
       THEN CASE est = Nil                 -> res(0, TRUE, FALSE)
              [] est < 0                    -> res(0, FALSE, FALSE)
              [] est >= 0 /\ rep = Nil     -> res(est, TRUE, FALSE)
              [] est >= 0 /\ rep # Nil /\ rep < 0 -> res(0, FALSE, FALSE)
              [] OTHER                      -> res(Least(est, rep), TRUE, FALSE)
       ELSE CASE rep = Nil /\ est = Nil   -> res(0, TRUE, FALSE)
              [] rep = Nil /\ est # Nil   -> res(est, TRUE, TRUE)
              [] rep # Nil /\ rep < 0      -> res(0, FALSE, FALSE)
              [] rep >= 0 /\ est = Nil     -> res(rep, TRUE, FALSE)
              [] rep >= 0 /\ est # Nil /\ est < 0 -> res(0, FALSE, FALSE)
              [] OTHER                      -> res(Least(rep, est), TRUE, est < rep)

(* The numerator of the price; Bad when a step overflows. *)
PriceNumerator(prompt, cached, completion, rate, mult) ==
  LET uncached == CheckedMul(prompt - cached, rate.prompt)
      hits     == CheckedMul(cached, rate.cacheHit)
      input    == CheckedAdd(uncached, hits)
      output   == CheckedMul(completion, rate.completion)
  IN CheckedMul(CheckedAdd(input, output), mult)

Split(gross, share) ==
  LET prov == RoundHalfEven(CheckedMul(gross, share), ShareDenom)
  IN [prov |-> prov, oper |-> gross - prov]

NullUsage == [done |-> TRUE, gross |-> 0, prov |-> 0, oper |-> 0,
              src |-> "null_error", fault |-> "null_usage_error"]

(* The priced row. The early returns are those of the code in its order: a *)
(* qualifying fault, an error without usage, an unusable count, an         *)
(* overflow of any product or sum.                                         *)
ComputeCreditsWithCache(a) ==
  LET bill      == BillableCompletion(a.src, a.rep, a.est)
      prompt    == OrZero(a.prompt)
      cached    == OrZero(a.cached)
      numerator == PriceNumerator(prompt, cached, bill.n, a.rate, a.mult)
      gross     == RoundHalfEven(numerator, PriceDenom)
      split     == Split(gross, a.share)
  IN CASE a.fault = "breaker_qualifying" ->
            [Pending EXCEPT !.done = TRUE, !.src = a.src, !.fault = a.fault]
       [] a.fault = "none" /\ a.src = "null_error" -> NullUsage
       [] OTHER ->
            IF \/ ~bill.ok
               \/ InvalidBillableTokenCount(prompt) \/ InvalidBillableTokenCount(cached)
               \/ cached > prompt \/ InvalidBillableTokenCount(bill.n)
               \/ numerator = Bad
               \/ CheckedMul(gross, a.share) = Bad
            THEN NullUsage
            ELSE [done |-> TRUE, gross |-> gross, prov |-> split.prov, oper |-> split.oper,
                  src |-> IF bill.clamped THEN "byte_estimated" ELSE a.src, fault |-> "none"]

----------------------------------------------------------------------------

Args ==
  [prompt : Tokens, cached : Tokens, rep : Tokens, est : Tokens,
   src : {"provider_reported", "byte_estimated", "null_error"},
   fault : {"none", "breaker_qualifying"},
   rate : Rates, mult : Multipliers, share : Shares]

FormulaInit ==
  /\ args \in Args
  /\ args.fault = "breaker_qualifying" => args.cached = Nil
  /\ out = Pending

Compute ==
  /\ ~out.done
  /\ out' = ComputeCreditsWithCache(args)
  /\ UNCHANGED args

FormulaNext == Compute

FormulaTypeOK ==
  /\ args \in Args
  /\ out \in [done : BOOLEAN, gross : 0..MaxInt, prov : 0..MaxInt, oper : Int,
              src : {"", "provider_reported", "byte_estimated", "null_error"},
              fault : {"none", "breaker_qualifying", "null_usage_error"}]

(* Every credit is accounted for: what the provider and the operator get   *)
(* adds up to what the request costs, and neither side is negative.        *)
SplitIsExact ==
  out.prov + out.oper = out.gross /\ out.prov >= 0 /\ out.oper >= 0

(* The price is the nearest integer to the exact price, however close the  *)
(* products come to the width of an integer.                               *)
PriceIsNearest ==
  LET exact == args.mult * ( (OrZero(args.prompt) - OrZero(args.cached)) * args.rate.prompt
                             + OrZero(args.cached) * args.rate.cacheHit
                             + BillableCompletion(args.src, args.rep, args.est).n * args.rate.completion )
      diff  == 2 * (exact - out.gross * PriceDenom)
  IN (out.done /\ out.fault = "none") => diff <= PriceDenom /\ -diff <= PriceDenom
=============================================================================
