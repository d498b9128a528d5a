------------------------------ MODULE Rewards -------------------------------
(***************************************************************************)
(* Rewards, in two parts that share no state: the emission ledger, and the *)
(* evaluator that unlocks trust (prefix unlock).                           *)
(***************************************************************************)
EXTENDS Integers, Sequences, FiniteSets, FiniteSetsExt, SequencesExt

-----------------------------------------------------------------------------
(***************************************************************************)
(* The emission ledger of phase4-coordinator/internal/rewards: the tick    *)
(* that accrues a provider's daily reward under a cap per provider and a   *)
(* cap per payout wallet, the mirror that binds wallets, and the replay of *)
(* held rows after a wallet was bound.  Each of these is one SERIALIZABLE  *)
(* transaction, hence one step.                                            *)
(***************************************************************************)

CONSTANTS Providers, Wallets, Tick, ProviderCap, WalletCap,
          MaxRows, MaxDay, MaxChanges   \* bounds; changes: of wallets and of tiers

VARIABLES day,      \* UTC day
          source,   \* provider_payout_addresses (SQLite): wallet or "none"
          proj,     \* provider_payout_addresses_proj
          state,    \* provider_emission_state
          sums,     \* wallet_daily_malibu_emission: [wallet, day] -> amount
          ledger,   \* provider_rewards_ledger, in id order
          changes

vars == <<day, source, proj, state, sums, ledger, changes>>

Held == {"trust_tier_provisional", "per_wallet_daily_cap", "demotion_cooldown"}
FreshState == [tier |-> "provisional", wallet |-> "none", replay |-> FALSE,
               dayAmount |-> 0, dayOf |-> -1, cooling |-> FALSE]

Init ==
  /\ day = 0 /\ source = [p \in Providers |-> "none"] /\ proj = source
  /\ state = [p \in Providers |-> FreshState]
  /\ sums = [w \in Wallets, d \in 0..MaxDay |-> 0]
  /\ ledger = <<>> /\ changes = 0

-----------------------------------------------------------------------------
(* holdReasonForState *)
HoldReason(st) ==
  IF st.cooling THEN "demotion_cooldown"
  ELSE IF st.tier # "trusted" THEN "trust_tier_provisional" ELSE "none"

(* What the provider has accrued today; a counter of another day counts nothing. *)
AccruedToday(st) == IF st.dayOf = day THEN st.dayAmount ELSE 0

(* Mutant: the tick is compared with the whole cap, not with what is left of it. *)
ApplyWalletCapWhole(w, want) ==
  IF want > WalletCap THEN [held |-> TRUE, amount |-> WalletCap]
  ELSE [held |-> FALSE, amount |-> want]

(* applyWalletCap: past the cap everything accrues but is held; the tick that
   crosses it is cut to what is left, and that part is held too. *)
ApplyWalletCap(w, want) ==
  LET remaining == WalletCap - sums[w, day] IN
  IF remaining <= 0 THEN [held |-> TRUE, amount |-> want]
  ELSE IF want > remaining THEN [held |-> TRUE, amount |-> remaining]
  ELSE [held |-> FALSE, amount |-> want]

(* The rows replayCapPending selects: held for the wallet's cap, of trusted providers. *)
Replayable(led, st, w) ==
  {i \in DOMAIN led : /\ led[i].hold = "per_wallet_daily_cap"
                      /\ st[led[i].prov].wallet = w /\ st[led[i].prov].tier = "trusted"}

(* replayCapPending: oldest first, each row that still fits today's cap is released;
   a row that does not fit uses the cap up all the same. *)
Released(led, st, w, sum) ==
  LET rows == Replayable(led, st, w) IN
  {i \in rows : sum + FoldSet(LAMBDA j, t : t + led[j].amount, 0, {j \in rows : j <= i}) <= WalletCap}

Replay(led, st, w, sum) ==
  [i \in DOMAIN led |-> IF i \in Released(led, st, w, sum)
                        THEN [led[i] EXCEPT !.hold = "none"] ELSE led[i]]

(* What the provider's daily cap still allows. *)
Remaining(st) == ProviderCap - AccruedToday(st)

(* accrueProvider *)
Accrue(p) ==
  LET st     == state[p]
      want   == Min({Tick, Remaining(st)})
      bound  == st.wallet # "none"
      cap    == IF bound THEN ApplyWalletCap(st.wallet, want) ELSE [held |-> FALSE, amount |-> want]
      reason == IF cap.held /\ HoldReason(st) = "none" THEN "per_wallet_daily_cap" ELSE HoldReason(st)
      newRow == [prov |-> p, wallet |-> st.wallet, day |-> day, amount |-> cap.amount,
                 hold |-> reason, tier |-> st.tier, born |-> reason]
      newSt  == [state EXCEPT ![p].dayAmount = AccruedToday(st) + cap.amount, ![p].dayOf = day]
      newSum == IF bound THEN [sums EXCEPT ![st.wallet, day] = @ + cap.amount] ELSE sums
      replay == st.replay /\ bound
  IN /\ Len(ledger) < MaxRows /\ want > 0
     /\ sums' = newSum
     /\ ledger' = IF replay THEN Replay(Append(ledger, newRow), newSt, st.wallet, newSum[st.wallet, day])
                  ELSE Append(ledger, newRow)
     /\ state' = IF replay
                 THEN [q \in Providers |-> IF newSt[q].wallet = st.wallet
                                           THEN [newSt[q] EXCEPT !.replay = FALSE] ELSE newSt[q]]
                 ELSE newSt
     /\ UNCHANGED <<day, source, proj, changes>>

(* upsertProjection: the first bind and every change of wallet ask for a replay. *)
MirrorWallet(p) ==
  /\ source[p] # "none" /\ proj[p] # source[p]
  /\ proj' = [proj EXCEPT ![p] = source[p]]
  /\ state' = [state EXCEPT ![p].wallet = source[p], ![p].replay = TRUE]
  /\ UNCHANGED <<day, source, sums, ledger, changes>>

(* SetTrustTier: a demotion starts the cooldown, a promotion ends it. *)
SetTrustTier(p, tier) ==
  /\ changes < MaxChanges /\ changes' = changes + 1
  /\ state[p].tier # tier
  /\ state' = [state EXCEPT ![p].tier = tier, ![p].cooling = tier = "provisional"]
  /\ UNCHANGED <<day, source, proj, sums, ledger>>

-----------------------------------------------------------------------------
(* The provider registers or rotates its payout address. *)
RegisterWallet(p, w) ==
  /\ changes < MaxChanges /\ changes' = changes + 1 /\ source[p] # w
  /\ source' = [source EXCEPT ![p] = w]
  /\ UNCHANGED <<day, proj, state, sums, ledger>>

CooldownEnds(p) ==
  /\ state[p].cooling /\ state' = [state EXCEPT ![p].cooling = FALSE]
  /\ UNCHANGED <<day, source, proj, sums, ledger, changes>>

NextDay ==
  /\ day < MaxDay /\ day' = day + 1
  /\ UNCHANGED <<source, proj, state, sums, ledger, changes>>

Next ==
  \/ \E p \in Providers :
       \/ Accrue(p) \/ MirrorWallet(p) \/ CooldownEnds(p)
       \/ \E t \in {"provisional", "trusted"} : SetTrustTier(p, t)
       \/ \E w \in Wallets : RegisterWallet(p, w)
  \/ NextDay

-----------------------------------------------------------------------------
Total(rows) == FoldSet(LAMBDA i, t : t + ledger[i].amount, 0, rows)

TypeOK ==
  /\ day \in 0..MaxDay /\ source \in [Providers -> Wallets \cup {"none"}]
  /\ proj \in [Providers -> Wallets \cup {"none"}]
  /\ sums \in [Wallets \X (0..MaxDay) -> Nat] /\ Len(ledger) <= MaxRows
  /\ \A i \in DOMAIN ledger : ledger[i].hold \in Held \cup {"none"} /\ ledger[i].amount > 0

(* A provider never accrues more than its daily cap in one day, whatever wallet it
   is bound to when (accrueProvider: the counter of the day and the cut to what is
   left). *)
ProviderCapHolds ==
  \A p \in Providers, d \in 0..MaxDay :
    Total({i \in DOMAIN ledger : ledger[i].prov = p /\ ledger[i].day = d}) <= ProviderCap

(* What all providers of a wallet accrue without a hold in one day is within the
   wallet's cap, also when providers join or leave the wallet during the day
   (applyWalletCap, bumpWalletDaily). *)
WalletCapHolds ==
  \A w \in Wallets, d \in 0..MaxDay :
    Total({i \in DOMAIN ledger : ledger[i].wallet = w /\ ledger[i].day = d
                                   /\ ledger[i].born = "none"}) <= WalletCap

(* One replay releases oldest first and stays within the wallet's cap of the day,
   on top of all that was accrued that day: no row is released while an older held
   row of the wallet stays.  (The next replay of the day starts again from what was
   accrued: released rows are not counted, so the property is about one replay.) *)
ReplayWithinCapStep ==
     \A w \in Wallets :
       LET held  == Replayable(ledger, state, w)
           freed == {i \in held : ledger'[i].hold = "none"}
       IN /\ freed # {} => sums'[w, day] + Total(freed) <= WalletCap
          /\ \A i \in freed, j \in held : j < i => j \in freed

-----------------------------------------------------------------------------
(***************************************************************************)
(* The trust evaluator of phase4-coordinator/internal/rewards/unlock.go    *)
(* for one provider, and the dual-control operator promotion of            *)
(* unlock_admin.go.  The evaluator loads the stored state, looks at the    *)
(* evidence, stores the windows it has advanced, and then promotes or      *)
(* demotes: three statements, no transaction around them.                  *)
(***************************************************************************)

CONSTANTS Operators, Window, MaxTime, MaxFlips,
          Starts   \* sets of evidence a provider may start with

VARIABLES clock, evidence, flips,
          unlockTier, cooldown,          \* provider_emission_state (0: no cooldown)
          since,                   \* provider_trust_eval_state (0: not running)
          eval,                    \* the evaluation under way
          request, promoted,       \* promotion request; requester and approver
          broken                   \* when an evaluation last found no pair

unlockVars == <<clock, evidence, flips, unlockTier, cooldown, since, eval, request, promoted, broken>>

(* What can be observed at one moment; the operator's promotion is a table row. *)
Evidence == {"receipts", "wallet", "balance", "uptime", "attested"}
NoSince == [uptime |-> 0, balance |-> 0, pair |-> 0]
NoEval == [pc |-> "idle", now |-> 0, tier |-> "provisional", cooldown |-> 0,
           since |-> NoSince, pair |-> FALSE, proof |-> {}]

UnlockInit ==
  /\ clock = 1 /\ evidence \in Starts /\ flips = 0
  /\ unlockTier = "provisional" /\ cooldown = 0 /\ since = NoSince /\ eval = NoEval
  /\ request = "none" /\ promoted = <<>> /\ broken = 0

-----------------------------------------------------------------------------
(* advanceWindow *)
AdvanceWindow(current, ok, now) == IF ~ok THEN 0 ELSE IF current # 0 THEN current ELSE now

(* walletBalanceInstantOK: a bound wallet that holds enough right now. *)
BalanceNow == {"wallet", "balance"} \subseteq evidence

(* satisfiedCriteria: the receipts and the funded wallet each count on both sides. *)
Economic(in) ==
  (IF "receipts" \in in THEN {"E1"} ELSE {}) \cup (IF "wallet" \in in THEN {"E2"} ELSE {})
    \cup (IF "operator" \in in THEN {"E3"} ELSE {})
Additional(in) ==
  (IF "receipts" \in in THEN {"E1"} ELSE {}) \cup (IF "wallet" \in in THEN {"A3"} ELSE {})
    \cup (IF "uptime" \in in THEN {"A1"} ELSE {}) \cup (IF "attested" \in in THEN {"A4"} ELSE {})

(* criteriaOverlap: the two wallet criteria rest on one fact. *)
CriteriaOverlap(e, a) == e = a \/ (e = "E2" /\ a = "A3")

(* distinctUnlockPair *)
DistinctUnlockPair(in) ==
  \E e \in Economic(in), a \in Additional(in) : ~CriteriaOverlap(e, a)

-----------------------------------------------------------------------------
(* evaluateProviderTrust: loadTrustEvalState, then the evidence of this moment. *)
EvalLoad ==
  LET up  == AdvanceWindow(since.uptime, "uptime" \in evidence, clock)
      bal == AdvanceWindow(since.balance, BalanceNow, clock)
      in  == (evidence \cap {"receipts", "attested"})
               \cup (IF up # 0 /\ clock - up >= Window THEN {"uptime"} ELSE {})
               \cup (IF bal # 0 /\ clock - bal >= Window THEN {"wallet"} ELSE {})
               \cup (IF promoted # <<>> THEN {"operator"} ELSE {})
      ok  == DistinctUnlockPair(in)
  IN /\ eval.pc = "idle"
     /\ eval' = [pc |-> "persist", now |-> clock, tier |-> unlockTier, cooldown |-> cooldown,
                 since |-> [uptime |-> up, balance |-> bal,
                            pair |-> AdvanceWindow(since.pair, ok, clock)],
                 pair |-> ok, proof |-> in]
     /\ broken' = IF ok THEN broken ELSE clock
     /\ UNCHANGED <<clock, evidence, flips, unlockTier, cooldown, since, request, promoted>>

(* persistTrustEvalState *)
EvalPersist ==
  /\ eval.pc = "persist" /\ eval' = [eval EXCEPT !.pc = "decide"] /\ since' = eval.since
  /\ UNCHANGED <<clock, evidence, flips, unlockTier, cooldown, request, promoted, broken>>

MayPromote ==
  /\ eval.tier # "trusted" /\ eval.pair
  /\ eval.cooldown # 0 => /\ eval.now >= eval.cooldown
                          /\ eval.since.pair # 0 /\ eval.now - eval.since.pair >= Window

(* promoteProvider: SetTrustTier(trusted) ends the cooldown. *)
Promote ==
  /\ eval.pc = "decide" /\ MayPromote /\ eval' = NoEval
  /\ unlockTier' = "trusted" /\ cooldown' = 0
  /\ UNCHANGED <<clock, evidence, flips, since, request, promoted, broken>>

(* demoteProvider: SetTrustTier(provisional), and the pair's window starts over. *)
Demote ==
  /\ eval.pc = "decide" /\ eval.tier = "trusted" /\ ~eval.pair /\ eval' = NoEval
  /\ unlockTier' = "provisional" /\ cooldown' = clock + Window /\ since' = [since EXCEPT !.pair = 0]
  /\ UNCHANGED <<clock, evidence, flips, request, promoted, broken>>

NothingToDo == ~MayPromote /\ (eval.tier = "trusted" => eval.pair)

EvalEnds ==
  /\ eval.pc = "decide" /\ NothingToDo /\ eval' = NoEval
  /\ UNCHANGED <<clock, evidence, flips, unlockTier, cooldown, since, request, promoted, broken>>

(* A query fails or the coordinator stops between two statements. *)
EvalFails ==
  /\ eval.pc \in {"persist", "decide"} /\ flips < MaxFlips /\ flips' = flips + 1
  /\ eval' = NoEval
  /\ UNCHANGED <<clock, evidence, unlockTier, cooldown, since, request, promoted, broken>>

-----------------------------------------------------------------------------
(* RequestTrustPromotion by an authenticated operator. *)
RequestTrustPromotion(op) ==
  /\ request = "none" /\ promoted = <<>> /\ request' = op
  /\ UNCHANGED <<clock, evidence, flips, unlockTier, cooldown, since, eval, promoted, broken>>

(* ApproveTrustPromotion: the row is locked, still pending, and not one's own. *)
ApproveTrustPromotion(op) ==
  /\ request # "none" /\ request # op
  /\ promoted' = <<request, op>> /\ request' = "none"
  /\ UNCHANGED <<clock, evidence, flips, unlockTier, cooldown, since, eval, broken>>

(* The world: evidence comes and goes (receipts are never taken back). *)
EvidenceChanges(x) ==
  /\ flips < MaxFlips /\ flips' = flips + 1
  /\ ~(x = "receipts" /\ x \in evidence)
  /\ evidence' = IF x \in evidence THEN evidence \ {x} ELSE evidence \cup {x}
  /\ UNCHANGED <<clock, unlockTier, cooldown, since, eval, request, promoted, broken>>

Pass ==
  /\ clock < MaxTime /\ clock' = clock + 1
  /\ UNCHANGED <<evidence, flips, unlockTier, cooldown, since, eval, request, promoted, broken>>

EvalStep == EvalLoad \/ EvalPersist \/ Promote \/ Demote \/ EvalEnds

UnlockNext ==
  \/ EvalStep \/ EvalFails \/ Pass
  \/ \E op \in Operators : RequestTrustPromotion(op) \/ ApproveTrustPromotion(op)
  \/ \E x \in Evidence : EvidenceChanges(x)

(* The hourly loop keeps evaluating. *)
UnlockFair == WF_unlockVars(EvalStep)

-----------------------------------------------------------------------------
UnlockTypeOK ==
  /\ clock \in 1..MaxTime /\ evidence \subseteq Evidence /\ flips \in 0..MaxFlips
  /\ unlockTier \in {"provisional", "trusted"} /\ cooldown \in 0..(MaxTime + Window)
  /\ since \in [{"uptime", "balance", "pair"} -> 0..MaxTime]
  /\ eval.pc \in {"idle", "persist", "decide"} /\ request \in Operators \cup {"none"}

(* After a demotion a provider is promoted again only when its cooldown is over and
   no evaluation of the last Window found the pair missing (advanceWindow,
   demoteProvider). *)
RequalifiedForTheWholeWindowStep ==
     unlockTier # "trusted" /\ unlockTier' = "trusted" /\ cooldown # 0
             => eval.now >= cooldown /\ eval.now - broken >= Window

Untrusted == ~DistinctUnlockPair(evidence \cup (IF promoted # <<>> THEN {"operator"} ELSE {}))

(* While no pair holds, a trusted provider is demoted: every evaluation that finds
   no pair is followed by a provisional tier (evaluateProviderTrust). *)
LostPairDemotesFrom == Untrusted
LostPairDemotesTo == unlockTier = "provisional"
=============================================================================
