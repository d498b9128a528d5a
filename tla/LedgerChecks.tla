------------------------------ MODULE LedgerChecks ------------------------------
(***************************************************************************)
(* The components that keep books, each on a small instance: admission,    *)
(* referrals, rewards, billing, settlement, payouts, statistics and the    *)
(* coordinator process around them. As in ServingChecks a behaviour picks  *)
(* one component and runs it.                                              *)
(***************************************************************************)
EXTENDS TLC, Integers, Sequences

CONSTANT Blank   \* the value of what the running component does not use

VARIABLES
    which,   \* the component of this behaviour
    s1, s2, s3, s4, s5, s6, s7, s8, s9, s10, s11, s12, s13, s14, s15, s16   \* its variables, in the order of its module

slots == <<which, s1, s2, s3, s4, s5, s6, s7, s8, s9, s10, s11, s12, s13, s14, s15, s16>>

AdmissionIdentity == INSTANCE ProviderAdmission WITH
    Sessions <- {1, 2}, Keys <- {"a", "b"}, Held <- <<{"a", "b"}, {"b"}>>,
    Operators <- {"x", "y"}, Grace <- 1, MaxGen <- 3, MaxTime <- 1, row <- s1, grant <- s2,
    pc <- s3, sess <- s4, now <- s5, audit <- s6, Providers <- Blank, Rate <- Blank,
    Quota <- Blank, Hour <- Blank, Retention <- Blank, LedgerMaxTime <- Blank,
    MaxFaults <- Blank, mem <- Blank, saved <- Blank, ledgerNow <- Blank, faults <- Blank,
    unbanned <- Blank

AdmissionLedger == INSTANCE ProviderAdmission WITH
    Providers <- {"p", "q"}, Rate <- 1, Quota <- 1, Hour <- 1, Retention <- 1,
    LedgerMaxTime <- 2, MaxFaults <- 1, mem <- s1, saved <- s2, ledgerNow <- s3, faults <- s4,
    unbanned <- s5, Sessions <- Blank, Keys <- Blank, Held <- Blank, Operators <- Blank,
    Grace <- Blank, MaxGen <- Blank, MaxTime <- Blank, row <- Blank, grant <- Blank,
    pc <- Blank, sess <- Blank, now <- Blank, audit <- Blank

ReferralSocial == INSTANCE Referrals WITH
    Providers <- {"p", "q"}, Posts <- {"x", "y"}, Workers <- {1, 2}, Evidence <- {1, 2},
    MaxClaims <- 2, MaxTransient <- 1, MaxCrashes <- 1, issuer <- s1, bonus <- s2, qual <- s3,
    ch <- s4, ver <- s5, hist <- s6, grants <- s7, claim <- s8, tok <- s9, transient <- s10,
    crashes <- s11, seen <- s12, Seeds <- Blank, SeedProviders <- Blank, Ops <- Blank,
    Caps <- Blank, MaxPlans <- Blank, iss <- Blank, lapsed <- Blank, red <- Blank,
    audit <- Blank, plan <- Blank, plans <- Blank, applied <- Blank

ReferralSeeds == INSTANCE Referrals WITH
    Seeds <- {"s", "t"}, SeedProviders <- {"p"}, Ops <- {1, 2}, Caps <- {0, 1, 2},
    MaxPlans <- 2, iss <- s1, lapsed <- s2, red <- s3, audit <- s4, plan <- s5, plans <- s6,
    applied <- s7, Providers <- Blank, Posts <- Blank, Workers <- Blank, Evidence <- Blank,
    MaxClaims <- Blank, MaxTransient <- Blank, MaxCrashes <- Blank, issuer <- Blank,
    bonus <- Blank, qual <- Blank, ch <- Blank, ver <- Blank, hist <- Blank, grants <- Blank,
    claim <- Blank, tok <- Blank, transient <- Blank, crashes <- Blank, seen <- Blank

AppTrackRegister == INSTANCE AppTrackRegister WITH
    Attempts <- {1}, Cand <- <<"c">>, Fresh <- {"f"}, Handlers <- {1, 2}, MaxFaults <- 1,
    tok <- s1, red <- s2, pend <- s3, prepared <- s4, nonces <- s5, ident <- s6, cooling <- s7,
    h <- s8, rec <- s9, told <- s10, faults <- s11

BillingKind(r, e, enf, f, d) == [rep |-> r, est |-> e, enforce |-> enf, fault |-> f, defect |-> d]
BillingKinds ==
    {BillingKind(2, 1, TRUE, FALSE, "none"), BillingKind(1, -1, FALSE, FALSE, "none"),
     BillingKind(1, -1, TRUE, FALSE, "reprice"), BillingKind(1, -1, FALSE, FALSE, "cache"),
     BillingKind(1, -1, FALSE, FALSE, "usage"), BillingKind(1, 2, FALSE, TRUE, "none"),
     BillingKind(1, 2, FALSE, FALSE, "ambiguous")}
BillingLedger == INSTANCE BillingLedger WITH
    Attempts <- {1, 2}, Kinds <- BillingKinds, MaxWeek <- 2, MinPayout <- 1, MaxScans <- 1,
    kind <- s1, logged <- s2, week <- s3, credit <- s4, ledgerOutput <- s5, verdict <- s6,
    ledgerRes <- s7, payout <- s8, scans <- s9, MaxInt <- Blank, MaxTokens <- Blank,
    PriceDenom <- Blank, ShareDenom <- Blank, Tokens <- Blank, Rates <- Blank,
    Multipliers <- Blank, Shares <- Blank, args <- Blank, out <- Blank

CreditFormula == INSTANCE BillingLedger WITH
    MaxInt <- 31, MaxTokens <- 4, PriceDenom <- 4, ShareDenom <- 4,
    Tokens <- {-99, -1, 0, 1, 3, 5},
    Rates <- {[prompt |-> 2, cacheHit |-> 1, completion |-> 3]}, Multipliers <- {1, 3},
    Shares <- {2, 3}, args <- s1, out <- s2, Attempts <- Blank, Kinds <- Blank,
    MaxWeek <- Blank, MinPayout <- Blank, MaxScans <- Blank, kind <- Blank, logged <- Blank,
    week <- Blank, credit <- Blank, ledgerOutput <- Blank, verdict <- Blank,
    ledgerRes <- Blank, payout <- Blank, scans <- Blank

VerdictAttempt(r, u, k) == [req |-> r, run |-> u, n |-> k, policy |-> "p", free |-> FALSE]
VerdictHistories ==
    {{VerdictAttempt(1, 1, 0), VerdictAttempt(1, 1, 1)}, {VerdictAttempt(1, 1, 0), VerdictAttempt(1, 2, 0)},
     {VerdictAttempt(1, 1, 0), VerdictAttempt(2, 3, 0)},
     {VerdictAttempt(1, 1, 0), [VerdictAttempt(2, 3, 0) EXCEPT !.policy = "q"]},
     {VerdictAttempt(1, 1, 0), [VerdictAttempt(1, 1, 1) EXCEPT !.policy = "q", !.free = TRUE]}}
SettlementVerdicts == INSTANCE BillingSettlement WITH
    Histories <- VerdictHistories, MaxLen <- 1, live <- s1, ended <- s2, cursor <- s3,
    out <- s4, asked <- s5, verdict <- s6, due <- s7, led <- s8, ans <- s9, Worlds <- Blank,
    MaxRowid <- Blank, BatchSize <- Blank, MaxCrashes <- Blank, MaxWrites <- Blank,
    db <- Blank, pc <- Blank, schemaCursor <- Blank, made <- Blank, crashes <- Blank,
    writes <- Blank, None <- Blank

MigrateWorld(r, f, l, v, t, c, w, u) ==
    [res |-> r, form |-> f, left |-> l, view |-> v, triggers |-> t, missing |-> c, raw |-> w, unique |-> u]
MigrateWorlds ==
    {MigrateWorld(Blank, "v05", Blank, FALSE, FALSE, {}, {}, FALSE),
     MigrateWorld({1, 2}, "v04", Blank, TRUE, TRUE, {"prompt", "identity", "policy"}, {1, 3}, TRUE),
     MigrateWorld(Blank, "v04", {1, 2}, TRUE, TRUE, {"policy"}, {2, 3}, FALSE),
     MigrateWorld({1}, "v04", {}, TRUE, FALSE, {"policy", "identity"}, {3}, TRUE),
     MigrateWorld({1}, "v04", {1}, TRUE, TRUE, {"policy"}, {1}, FALSE)}
BillingMigrate == INSTANCE BillingSettlement WITH
    Worlds <- MigrateWorlds, MaxRowid <- 3, BatchSize <- 2, MaxCrashes <- 2, MaxWrites <- 1,
    db <- s1, pc <- s2, schemaCursor <- s3, made <- s4, crashes <- s5, writes <- s6,
    Histories <- Blank, MaxLen <- Blank, live <- Blank, ended <- Blank, cursor <- Blank,
    out <- Blank, asked <- Blank, verdict <- Blank, due <- Blank, led <- Blank, ans <- Blank,
    None <- Blank

LedgerSize == ("d" :> 4) @@ ("e" :> 2) @@ ("p" :> 2) @@ ("q" :> 1) @@ ("c" :> 0)
HotWalletBalance == INSTANCE PayoutOperations WITH
    Deposits <- {"d", "e"}, Payments <- {"p", "q", "c"}, Cancels <- {"c"}, Size <- LedgerSize,
    Tolerance <- 1, MaxReorgs <- 1, deposited <- s1, mined <- s2, confirmed <- s3,
    funding <- s4, bootstrap <- s5, everConfirmed <- s6, late <- s7, probe <- s8, halted <- s9,
    cause <- s10, limited <- s11, reorgs <- s12, Window <- Blank, Cooldown <- Blank,
    MinSamples <- Blank, Percent <- Blank, MaxSamples <- Blank, MaxTime <- Blank, now <- Blank,
    samples <- Blank, calls <- Blank, lastPagedAt <- Blank, pagedAt <- Blank,
    Requests <- Blank, MaxFlips <- Blank, MaxCrashes <- Blank, sentinel <- Blank,
    flag <- Blank, audit <- Blank, process <- Blank, recent <- Blank, request <- Blank,
    claim <- Blank, reported <- Blank, crashes <- Blank, Files <- Blank, First <- Blank,
    CoolingMin <- Blank, RowsMin <- Blank, RowsMax <- Blank, PerDayCap <- Blank,
    Capacity <- Blank, Calls <- Blank, Clients <- Blank, MaxSignals <- Blank,
    MaxCalls <- Blank, file <- Blank, live <- Blank, queued <- Blank, pc <- Blank,
    cand <- Blank, pages <- Blank, conn <- Blank, pool <- Blank, closing <- Blank,
    strays <- Blank, sent <- Blank, begun <- Blank, None <- Blank

RpcOutage == INSTANCE PayoutOperations WITH
    Window <- 1, Cooldown <- 2, MinSamples <- 2, Percent <- 50, MaxSamples <- 3, MaxTime <- 4,
    now <- s1, samples <- s2, calls <- s3, lastPagedAt <- s4, pagedAt <- s5, Deposits <- Blank,
    Payments <- Blank, Cancels <- Blank, Size <- Blank, Tolerance <- Blank, MaxReorgs <- Blank,
    deposited <- Blank, mined <- Blank, confirmed <- Blank, funding <- Blank,
    bootstrap <- Blank, everConfirmed <- Blank, late <- Blank, probe <- Blank, halted <- Blank,
    cause <- Blank, limited <- Blank, reorgs <- Blank, Requests <- Blank, MaxFlips <- Blank,
    MaxCrashes <- Blank, sentinel <- Blank, flag <- Blank, audit <- Blank, process <- Blank,
    recent <- Blank, request <- Blank, claim <- Blank, reported <- Blank, crashes <- Blank,
    Files <- Blank, First <- Blank, CoolingMin <- Blank, RowsMin <- Blank, RowsMax <- Blank,
    PerDayCap <- Blank, Capacity <- Blank, Calls <- Blank, Clients <- Blank,
    MaxSignals <- Blank, MaxCalls <- Blank, file <- Blank, live <- Blank, queued <- Blank,
    pc <- Blank, cand <- Blank, pages <- Blank, conn <- Blank, pool <- Blank, closing <- Blank,
    strays <- Blank, sent <- Blank, begun <- Blank, None <- Blank

PayoutFlags == INSTANCE PayoutOperations WITH
    Requests <- {1, 2}, MaxFlips <- 3, MaxCrashes <- 2, sentinel <- s1, flag <- s2,
    audit <- s3, process <- s4, recent <- s5, request <- s6, claim <- s7, reported <- s8,
    crashes <- s9, Deposits <- Blank, Payments <- Blank, Cancels <- Blank, Size <- Blank,
    Tolerance <- Blank, MaxReorgs <- Blank, deposited <- Blank, mined <- Blank,
    confirmed <- Blank, funding <- Blank, bootstrap <- Blank, everConfirmed <- Blank,
    late <- Blank, probe <- Blank, halted <- Blank, cause <- Blank, limited <- Blank,
    reorgs <- Blank, Window <- Blank, Cooldown <- Blank, MinSamples <- Blank, Percent <- Blank,
    MaxSamples <- Blank, MaxTime <- Blank, now <- Blank, samples <- Blank, calls <- Blank,
    lastPagedAt <- Blank, pagedAt <- Blank, Files <- Blank, First <- Blank,
    CoolingMin <- Blank, RowsMin <- Blank, RowsMax <- Blank, PerDayCap <- Blank,
    Capacity <- Blank, Calls <- Blank, Clients <- Blank, MaxSignals <- Blank,
    MaxCalls <- Blank, file <- Blank, live <- Blank, queued <- Blank, pc <- Blank,
    cand <- Blank, pages <- Blank, conn <- Blank, pool <- Blank, closing <- Blank,
    strays <- Blank, sent <- Blank, begun <- Blank, None <- Blank

TuningFile(c, r, l, p, q) ==
    [cooling |-> c, rows |-> r, low |-> l,
     pin |-> [k \in {"primary", "secondary"} |-> IF k = "primary" THEN p ELSE q]]
TuningFiles ==
    {Blank, TuningFile(1, 1, 0, "a", "a"), TuningFile(1, 2, 2, "a", "b"), TuningFile(1, 1, 3, "b", "b"),
     TuningFile(0, 1, 0, "a", "a"), TuningFile(1, 3, 0, "a", "a")}
PayoutTuning == INSTANCE PayoutOperations WITH
    Files <- TuningFiles, First <- TuningFile(1, 1, 0, "a", "a"), CoolingMin <- 1,
    RowsMin <- 1, RowsMax <- 2, PerDayCap <- 1, Capacity <- 1, Calls <- {1},
    Clients <- {"primary", "secondary"}, MaxSignals <- 3, MaxCalls <- 2, file <- s1,
    live <- s2, queued <- s3, pc <- s4, cand <- s5, pages <- s6, conn <- s7, pool <- s8,
    closing <- s9, strays <- s10, sent <- s11, begun <- s12, Deposits <- Blank,
    Payments <- Blank, Cancels <- Blank, Size <- Blank, Tolerance <- Blank, MaxReorgs <- Blank,
    deposited <- Blank, mined <- Blank, confirmed <- Blank, funding <- Blank,
    bootstrap <- Blank, everConfirmed <- Blank, late <- Blank, probe <- Blank, halted <- Blank,
    cause <- Blank, limited <- Blank, reorgs <- Blank, Window <- Blank, Cooldown <- Blank,
    MinSamples <- Blank, Percent <- Blank, MaxSamples <- Blank, MaxTime <- Blank, now <- Blank,
    samples <- Blank, calls <- Blank, lastPagedAt <- Blank, pagedAt <- Blank,
    Requests <- Blank, MaxFlips <- Blank, MaxCrashes <- Blank, sentinel <- Blank,
    flag <- Blank, audit <- Blank, process <- Blank, recent <- Blank, request <- Blank,
    claim <- Blank, reported <- Blank, crashes <- Blank, None <- Blank

PayoutAddresses == INSTANCE PayoutRecords WITH
    Handlers <- {1}, Addresses <- {"a", "b"}, Nonces <- {1}, Wallets <- {"w"}, Skew <- 1,
    Cooling <- 1, MaxTime <- 3, MaxFlips <- 1, MaxRestarts <- 1, now <- s1, wallet <- s2,
    paused <- s3, allowed <- s4, row <- s5, nonces <- s6, handler <- s7, registered <- s8,
    apart <- s9, watched <- s10, applied <- s11, flips <- s12, restarts <- s13,
    Worlds <- Blank, Limit <- Blank, MaxPages <- Blank, MaxUpsets <- Blank, outboxRow <- Blank,
    mined <- Blank, outbox <- Blank, cycle <- Blank, claim <- Blank, reported <- Blank,
    pages <- Blank, upsets <- Blank

PayoutOutbox == INSTANCE PayoutRecords WITH

    Worlds <- {[cancels |-> {1}, producers |-> {1, 2}], [cancels |-> {1, 2}, producers |-> {1}]},
    Limit <- 1, MaxPages <- 2, MaxUpsets <- 1, outboxRow <- s1, mined <- s2, outbox <- s3,
    cycle <- s4, claim <- s5, reported <- s6, pages <- s7, upsets <- s8, Handlers <- Blank,
    Addresses <- Blank, Nonces <- Blank, Wallets <- Blank, Skew <- Blank, Cooling <- Blank,
    MaxTime <- Blank, MaxFlips <- Blank, MaxRestarts <- Blank, now <- Blank, wallet <- Blank,
    paused <- Blank, allowed <- Blank, row <- Blank, nonces <- Blank, handler <- Blank,
    registered <- Blank, apart <- Blank, watched <- Blank, applied <- Blank, flips <- Blank,
    restarts <- Blank

RewardsEmission == INSTANCE Rewards WITH
    Providers <- {"p", "q"}, Wallets <- {"w", "x"}, Tick <- 2, ProviderCap <- 4,
    WalletCap <- 3, MaxRows <- 4, MaxDay <- 1, MaxChanges <- 3, day <- s1, source <- s2,
    proj <- s3, state <- s4, sums <- s5, ledger <- s6, changes <- s7, Operators <- Blank,
    Window <- Blank, MaxTime <- Blank, MaxFlips <- Blank, Starts <- Blank, clock <- Blank,
    evidence <- Blank, flips <- Blank, unlockTier <- Blank, cooldown <- Blank, since <- Blank,
    eval <- Blank, request <- Blank, promoted <- Blank, broken <- Blank

TrustUnlock == INSTANCE Rewards WITH
    Operators <- {"a", "b"}, Window <- 1, MaxTime <- 3, MaxFlips <- 2,
    Starts <- {{}, {"receipts", "attested"}, {"wallet", "balance", "uptime"}}, clock <- s1,
    evidence <- s2, flips <- s3, unlockTier <- s4, cooldown <- s5, since <- s6, eval <- s7,
    request <- s8, promoted <- s9, broken <- s10, Providers <- Blank, Wallets <- Blank,
    Tick <- Blank, ProviderCap <- Blank, WalletCap <- Blank, MaxRows <- Blank, MaxDay <- Blank,
    MaxChanges <- Blank, day <- Blank, source <- Blank, proj <- Blank, state <- Blank,
    sums <- Blank, ledger <- Blank, changes <- Blank

StatsRollup == INSTANCE Statistics WITH
    Ids <- {1, 2}, Owners <- {<<1, 1>>, <<1, 2>>}, Rewards <- {2}, Providers <- {1, 2},
    Length <- 3, Lookback <- 1, Start <- 4, MaxTime <- 5, MaxCorrections <- 1, MaxRuns <- 2,
    clock <- s1, owner <- s2, row <- s3, table <- s4, rank <- s5, okAt <- s6, tick <- s7,
    nightly <- s8, mu <- s9, lateLock <- s10, late <- s11, drift <- s12, dirty <- s13,
    exempt <- s14, corrections <- s15, runs <- s16, Runs <- Blank, MaxId <- Blank,
    MaxVersion <- Blank, BatchSize <- Blank, MaxBatches <- Blank, Overlap <- Blank,
    SweepRows <- Blank, MaxFails <- Blank, source <- Blank, mirror <- Blank,
    mirrorLast <- Blank, sweep <- Blank, run <- Blank, fails <- Blank, Keys <- Blank,
    Requests <- Blank, Limit <- Blank, MaxBuckets <- Blank, IdleTTL <- Blank,
    MaxMinute <- Blank, MaxCalls <- Blank, minute <- Blank, partnerRow <- Blank, cli <- Blank,
    req <- Blank, win <- Blank, counted <- Blank, lost <- Blank, calls <- Blank, None <- Blank

StatsMirror == INSTANCE Statistics WITH
    Runs <- {1, 2}, MaxId <- 2, MaxVersion <- 2, BatchSize <- 1, MaxBatches <- 1, Overlap <- 1,
    SweepRows <- 1, MaxFails <- 1, source <- s1, mirror <- s2, mirrorLast <- s3, sweep <- s4,
    run <- s5, fails <- s6, Ids <- Blank, Owners <- Blank, Rewards <- Blank,
    Providers <- Blank, Length <- Blank, Lookback <- Blank, Start <- Blank, MaxTime <- Blank,
    MaxCorrections <- Blank, MaxRuns <- Blank, clock <- Blank, owner <- Blank, row <- Blank,
    table <- Blank, rank <- Blank, okAt <- Blank, tick <- Blank, nightly <- Blank, mu <- Blank,
    lateLock <- Blank, late <- Blank, drift <- Blank, dirty <- Blank, exempt <- Blank,
    corrections <- Blank, runs <- Blank, Keys <- Blank, Requests <- Blank, Limit <- Blank,
    MaxBuckets <- Blank, IdleTTL <- Blank, MaxMinute <- Blank, MaxCalls <- Blank,
    minute <- Blank, partnerRow <- Blank, cli <- Blank, req <- Blank, win <- Blank,
    counted <- Blank, lost <- Blank, calls <- Blank, None <- Blank

PartnerKeys == INSTANCE Statistics WITH
    Keys <- {"k"}, Requests <- {1, 2},
    Limit <- ("authfail" :> 1) @@ ("public" :> 2) @@ ("k" :> 1), MaxBuckets <- 1, IdleTTL <- 1,
    MaxMinute <- 1, MaxCalls <- 3, minute <- s1, partnerRow <- s2, cli <- s3, req <- s4,
    win <- s5, counted <- s6, lost <- s7, calls <- s8, Ids <- Blank, Owners <- Blank,
    Rewards <- Blank, Providers <- Blank, Length <- Blank, Lookback <- Blank, Start <- Blank,
    MaxTime <- Blank, MaxCorrections <- Blank, MaxRuns <- Blank, clock <- Blank,
    owner <- Blank, row <- Blank, table <- Blank, rank <- Blank, okAt <- Blank, tick <- Blank,
    nightly <- Blank, mu <- Blank, lateLock <- Blank, late <- Blank, drift <- Blank,
    dirty <- Blank, exempt <- Blank, corrections <- Blank, runs <- Blank, Runs <- Blank,
    MaxId <- Blank, MaxVersion <- Blank, BatchSize <- Blank, MaxBatches <- Blank,
    Overlap <- Blank, SweepRows <- Blank, MaxFails <- Blank, source <- Blank, mirror <- Blank,
    mirrorLast <- Blank, sweep <- Blank, run <- Blank, fails <- Blank, None <- Blank

CoordinatorLifecycle == INSTANCE CoordinatorProcess WITH
    Kinds <- {"swap"}, Events <- {1, 2}, QueueSize <- 1, MaxFails <- 1, MaxStarts <- 2,
    pc <- s1, payout <- s2, stopped <- s3, late <- s4, lease <- s5, worker <- s6, clean <- s7,
    rollup <- s8, pools <- s9, audit <- s10, queue <- s11, drainer <- s12, event <- s13,
    early <- s14, fails <- s15, starts <- s16, Configs <- Blank, MaxEdits <- Blank,
    MaxSignals <- Blank, ReloadMaxFails <- Blank, MaxCrashes <- Blank, file <- Blank,
    started <- Blank, wired <- Blank, signal <- Blank, reloadPc <- Blank, cand <- Blank,
    tier2 <- Blank, flags <- Blank, prices <- Blank, classes <- Blank, snaps <- Blank,
    audits <- Blank, credits <- Blank, dirty <- Blank, taken <- Blank, spent <- Blank,
    None <- Blank

ReloadConfig(r, v, k, t, n, x, ok, g) ==
    [rates |-> r, void |-> v, credit |-> k, tier2 |-> t, needs |-> n, fixed |-> x, valid |-> ok, catalog |-> g]
ReloadConfigs ==
    {ReloadConfig(1, FALSE, FALSE, 1, FALSE, 1, TRUE, TRUE), ReloadConfig(2, TRUE, TRUE, 2, TRUE, 1, TRUE, TRUE),
     ReloadConfig(2, TRUE, FALSE, 3, FALSE, 1, TRUE, FALSE), ReloadConfig(2, FALSE, FALSE, 1, FALSE, 2, TRUE, TRUE),
     ReloadConfig(1, TRUE, FALSE, 1, FALSE, 1, FALSE, TRUE)}
ConfigReload == INSTANCE CoordinatorProcess WITH
    Configs <- ReloadConfigs, MaxEdits <- 1, MaxSignals <- 2, ReloadMaxFails <- 1,
    MaxCrashes <- 1, file <- s1, started <- s2, wired <- s3, signal <- s4, reloadPc <- s5,
    cand <- s6, tier2 <- s7, flags <- s8, prices <- s9, classes <- s10, snaps <- s11,
    audits <- s12, credits <- s13, dirty <- s14, taken <- s15, spent <- s16, Kinds <- Blank,
    Events <- Blank, QueueSize <- Blank, MaxFails <- Blank, MaxStarts <- Blank, pc <- Blank,
    payout <- Blank, stopped <- Blank, late <- Blank, lease <- Blank, worker <- Blank,
    clean <- Blank, rollup <- Blank, pools <- Blank, audit <- Blank, queue <- Blank,
    drainer <- Blank, event <- Blank, early <- Blank, fails <- Blank, starts <- Blank,
    None <- Blank

Init ==
    \/ which = "AdmissionIdentity" /\ AdmissionIdentity!Init /\ s7 = Blank /\ s8 = Blank /\ s9 = Blank /\ s10 = Blank /\ s11 = Blank /\ s12 = Blank /\ s13 = Blank /\ s14 = Blank /\ s15 = Blank /\ s16 = Blank
    \/ which = "AdmissionLedger" /\ AdmissionLedger!LedgerInit /\ s6 = Blank /\ s7 = Blank /\ s8 = Blank /\ s9 = Blank /\ s10 = Blank /\ s11 = Blank /\ s12 = Blank /\ s13 = Blank /\ s14 = Blank /\ s15 = Blank /\ s16 = Blank
    \/ which = "ReferralSocial" /\ ReferralSocial!Init /\ s13 = Blank /\ s14 = Blank /\ s15 = Blank /\ s16 = Blank
    \/ which = "ReferralSeeds" /\ ReferralSeeds!SeedInit /\ s8 = Blank /\ s9 = Blank /\ s10 = Blank /\ s11 = Blank /\ s12 = Blank /\ s13 = Blank /\ s14 = Blank /\ s15 = Blank /\ s16 = Blank
    \/ which = "AppTrackRegister" /\ AppTrackRegister!Init /\ s12 = Blank /\ s13 = Blank /\ s14 = Blank /\ s15 = Blank /\ s16 = Blank
    \/ which = "BillingLedger" /\ BillingLedger!Init /\ s10 = Blank /\ s11 = Blank /\ s12 = Blank /\ s13 = Blank /\ s14 = Blank /\ s15 = Blank /\ s16 = Blank
    \/ which = "CreditFormula" /\ CreditFormula!FormulaInit /\ s3 = Blank /\ s4 = Blank /\ s5 = Blank /\ s6 = Blank /\ s7 = Blank /\ s8 = Blank /\ s9 = Blank /\ s10 = Blank /\ s11 = Blank /\ s12 = Blank /\ s13 = Blank /\ s14 = Blank /\ s15 = Blank /\ s16 = Blank
    \/ which = "SettlementVerdicts" /\ SettlementVerdicts!Init /\ s10 = Blank /\ s11 = Blank /\ s12 = Blank /\ s13 = Blank /\ s14 = Blank /\ s15 = Blank /\ s16 = Blank
    \/ which = "BillingMigrate" /\ BillingMigrate!SchemaInit /\ s7 = Blank /\ s8 = Blank /\ s9 = Blank /\ s10 = Blank /\ s11 = Blank /\ s12 = Blank /\ s13 = Blank /\ s14 = Blank /\ s15 = Blank /\ s16 = Blank
    \/ which = "HotWalletBalance" /\ HotWalletBalance!Init /\ s13 = Blank /\ s14 = Blank /\ s15 = Blank /\ s16 = Blank
    \/ which = "RpcOutage" /\ RpcOutage!OutageInit /\ s6 = Blank /\ s7 = Blank /\ s8 = Blank /\ s9 = Blank /\ s10 = Blank /\ s11 = Blank /\ s12 = Blank /\ s13 = Blank /\ s14 = Blank /\ s15 = Blank /\ s16 = Blank
    \/ which = "PayoutFlags" /\ PayoutFlags!FlagInit /\ s10 = Blank /\ s11 = Blank /\ s12 = Blank /\ s13 = Blank /\ s14 = Blank /\ s15 = Blank /\ s16 = Blank
    \/ which = "PayoutTuning" /\ PayoutTuning!TuningInit /\ s13 = Blank /\ s14 = Blank /\ s15 = Blank /\ s16 = Blank
    \/ which = "PayoutAddresses" /\ PayoutAddresses!Init /\ s14 = Blank /\ s15 = Blank /\ s16 = Blank
    \/ which = "PayoutOutbox" /\ PayoutOutbox!OutboxInit /\ s9 = Blank /\ s10 = Blank /\ s11 = Blank /\ s12 = Blank /\ s13 = Blank /\ s14 = Blank /\ s15 = Blank /\ s16 = Blank
    \/ which = "RewardsEmission" /\ RewardsEmission!Init /\ s8 = Blank /\ s9 = Blank /\ s10 = Blank /\ s11 = Blank /\ s12 = Blank /\ s13 = Blank /\ s14 = Blank /\ s15 = Blank /\ s16 = Blank
    \/ which = "TrustUnlock" /\ TrustUnlock!UnlockInit /\ s11 = Blank /\ s12 = Blank /\ s13 = Blank /\ s14 = Blank /\ s15 = Blank /\ s16 = Blank
    \/ which = "StatsRollup" /\ StatsRollup!Init
    \/ which = "StatsMirror" /\ StatsMirror!MirrorInit /\ s7 = Blank /\ s8 = Blank /\ s9 = Blank /\ s10 = Blank /\ s11 = Blank /\ s12 = Blank /\ s13 = Blank /\ s14 = Blank /\ s15 = Blank /\ s16 = Blank
    \/ which = "PartnerKeys" /\ PartnerKeys!PartnerInit /\ s9 = Blank /\ s10 = Blank /\ s11 = Blank /\ s12 = Blank /\ s13 = Blank /\ s14 = Blank /\ s15 = Blank /\ s16 = Blank
    \/ which = "CoordinatorLifecycle" /\ CoordinatorLifecycle!Init
    \/ which = "ConfigReload" /\ ConfigReload!ReloadInit

Next ==
    \/ which = "AdmissionIdentity" /\ AdmissionIdentity!Next /\ UNCHANGED <<which, s7, s8, s9, s10, s11, s12, s13, s14, s15, s16>>
    \/ which = "AdmissionLedger" /\ AdmissionLedger!LedgerNext /\ UNCHANGED <<which, s6, s7, s8, s9, s10, s11, s12, s13, s14, s15, s16>>
    \/ which = "ReferralSocial" /\ ReferralSocial!Next /\ UNCHANGED <<which, s13, s14, s15, s16>>
    \/ which = "ReferralSeeds" /\ ReferralSeeds!SeedNext /\ UNCHANGED <<which, s8, s9, s10, s11, s12, s13, s14, s15, s16>>
    \/ which = "AppTrackRegister" /\ AppTrackRegister!Next /\ UNCHANGED <<which, s12, s13, s14, s15, s16>>
    \/ which = "BillingLedger" /\ BillingLedger!Next /\ UNCHANGED <<which, s10, s11, s12, s13, s14, s15, s16>>
    \/ which = "CreditFormula" /\ CreditFormula!FormulaNext /\ UNCHANGED <<which, s3, s4, s5, s6, s7, s8, s9, s10, s11, s12, s13, s14, s15, s16>>
    \/ which = "SettlementVerdicts" /\ SettlementVerdicts!Next /\ UNCHANGED <<which, s10, s11, s12, s13, s14, s15, s16>>
    \/ which = "BillingMigrate" /\ BillingMigrate!SchemaNext /\ UNCHANGED <<which, s7, s8, s9, s10, s11, s12, s13, s14, s15, s16>>
    \/ which = "HotWalletBalance" /\ HotWalletBalance!Next /\ UNCHANGED <<which, s13, s14, s15, s16>>
    \/ which = "RpcOutage" /\ RpcOutage!OutageNext /\ UNCHANGED <<which, s6, s7, s8, s9, s10, s11, s12, s13, s14, s15, s16>>
    \/ which = "PayoutFlags" /\ PayoutFlags!FlagNext /\ UNCHANGED <<which, s10, s11, s12, s13, s14, s15, s16>>
    \/ which = "PayoutTuning" /\ PayoutTuning!TuningNext /\ UNCHANGED <<which, s13, s14, s15, s16>>
    \/ which = "PayoutAddresses" /\ PayoutAddresses!Next /\ UNCHANGED <<which, s14, s15, s16>>
    \/ which = "PayoutOutbox" /\ PayoutOutbox!OutboxNext /\ UNCHANGED <<which, s9, s10, s11, s12, s13, s14, s15, s16>>
    \/ which = "RewardsEmission" /\ RewardsEmission!Next /\ UNCHANGED <<which, s8, s9, s10, s11, s12, s13, s14, s15, s16>>
    \/ which = "TrustUnlock" /\ TrustUnlock!UnlockNext /\ UNCHANGED <<which, s11, s12, s13, s14, s15, s16>>
    \/ which = "StatsRollup" /\ StatsRollup!Next /\ UNCHANGED <<which>>
    \/ which = "StatsMirror" /\ StatsMirror!MirrorNext /\ UNCHANGED <<which, s7, s8, s9, s10, s11, s12, s13, s14, s15, s16>>
    \/ which = "PartnerKeys" /\ PartnerKeys!PartnerNext /\ UNCHANGED <<which, s9, s10, s11, s12, s13, s14, s15, s16>>
    \/ which = "CoordinatorLifecycle" /\ CoordinatorLifecycle!Next /\ UNCHANGED <<which>>
    \/ which = "ConfigReload" /\ ConfigReload!ReloadNext /\ UNCHANGED <<which>>

Spec == Init /\ [][Next]_slots

-----------------------------------------------------------------------------
(* Every variable of the running component has its type. *)
TypeOK ==
    /\ which = "AdmissionIdentity" => AdmissionIdentity!TypeOK
    /\ which = "AdmissionLedger" => AdmissionLedger!LedgerTypeOK
    /\ which = "ReferralSocial" => ReferralSocial!TypeOK
    /\ which = "ReferralSeeds" => ReferralSeeds!SeedTypeOK
    /\ which = "AppTrackRegister" => AppTrackRegister!TypeOK
    /\ which = "BillingLedger" => BillingLedger!TypeOK
    /\ which = "CreditFormula" => CreditFormula!FormulaTypeOK
    /\ which = "SettlementVerdicts" => SettlementVerdicts!TypeOK
    /\ which = "BillingMigrate" => BillingMigrate!SchemaTypeOK
    /\ which = "HotWalletBalance" => HotWalletBalance!TypeOK
    /\ which = "RpcOutage" => RpcOutage!OutageTypeOK
    /\ which = "PayoutFlags" => PayoutFlags!FlagTypeOK
    /\ which = "PayoutTuning" => PayoutTuning!TuningTypeOK
    /\ which = "PayoutAddresses" => PayoutAddresses!TypeOK
    /\ which = "PayoutOutbox" => PayoutOutbox!OutboxTypeOK
    /\ which = "RewardsEmission" => RewardsEmission!TypeOK
    /\ which = "TrustUnlock" => TrustUnlock!UnlockTypeOK
    /\ which = "StatsRollup" => StatsRollup!TypeOK
    /\ which = "StatsMirror" => StatsMirror!MirrorTypeOK
    /\ which = "PartnerKeys" => PartnerKeys!PartnerTypeOK
    /\ which = "CoordinatorLifecycle" => CoordinatorLifecycle!TypeOK
    /\ which = "ConfigReload" => ConfigReload!ReloadTypeOK

(* Keys, bans, referral grants and seats are those the durable rows say,      *)
(* across restarts and races.                                                 *)
(* - RecoveryIsGranted (AdmissionIdentity): Recovery takes two operators, and *)
(* one grant replaces one key: no two recoveries rest on the same             *)
(* authorization.                                                             *)
(* - RestartChangesNoDecision (AdmissionLedger): As long as every save        *)
(* succeeded, a restart changes no later decision: the process that loads the *)
(* row bans, limits and counts as the one that wrote it (the passes that only *)
(* drop old times are not saved).                                             *)
(* - UnbanIsDurable (AdmissionLedger): A ban the operator was told is lifted  *)
(* does not come back with a restart, whichever saves failed before or after: *)
(* Unreject answers only once the row is stored.                              *)
(* - EarliestEvidence (ReferralSocial): The qualification is by the earliest  *)
(* evidence, in whatever order the evidence is presented.                     *)
(* - PostIsUsedOnce (ReferralSocial): A post is used once: by one provider,   *)
(* and not again by the provider whose verification of it failed and was      *)
(* archived.                                                                  *)
(* - GrantsMatchVerifications (ReferralSocial): The grant is for the post     *)
(* that stands verified: the report of a worker that lost its lease grants    *)
(* nothing for a post another worker has since rejected.                      *)
(* - RedemptionsWithinCapacity (ReferralSeeds): No code is redeemed by more   *)
(* providers than its capacity, which an operator may lower while providers   *)
(* redeem.                                                                    *)
(* - OneChangePerOperation (ReferralSeeds): An operation id stands for one    *)
(* change, the one the audit names, however often its operator sends it and   *)
(* whatever request is sent under it: the audit row and the change are of one *)
(* transaction.                                                               *)
(* - SeatIsAccounted (AppTrackRegister): A referral seat is held only by a    *)
(* registration that was prepared, or by one whose pending row still says     *)
(* that its outcome is open; and a prepared registration has not lost its     *)
(* seat.                                                                      *)
(* - DisclosedIsKept (AppTrackRegister): A token the provider was told of is  *)
(* never taken back by a rollback, of a handler or of the reconciler: from    *)
(* then on it can only be revoked, and the identity stands in PostgreSQL.     *)
AdmissionIsCounted ==
    /\ which = "AdmissionIdentity" => AdmissionIdentity!RecoveryIsGranted
    /\ which = "AdmissionLedger" => AdmissionLedger!RestartChangesNoDecision
    /\ which = "AdmissionLedger" => AdmissionLedger!UnbanIsDurable
    /\ which = "ReferralSocial" => ReferralSocial!EarliestEvidence
    /\ which = "ReferralSocial" => ReferralSocial!PostIsUsedOnce
    /\ which = "ReferralSocial" => ReferralSocial!GrantsMatchVerifications
    /\ which = "ReferralSeeds" => ReferralSeeds!RedemptionsWithinCapacity
    /\ which = "ReferralSeeds" => ReferralSeeds!OneChangePerOperation
    /\ which = "AppTrackRegister" => AppTrackRegister!SeatIsAccounted
    /\ which = "AppTrackRegister" => AppTrackRegister!DisclosedIsKept

(* Credits, payouts, prices and settlement answers agree, and a start loses   *)
(* none of them.                                                              *)
(* - ConsumedIsItsCredits (BillingLedger): What has been paid out is what the *)
(* credits say: the amounts of a consumed payout are and stay the sums over   *)
(* the credits linked to it, whatever receipts, scans, resolutions and later  *)
(* settlements do.                                                            *)
(* - SplitIsExact (CreditFormula): Every credit is accounted for: what the    *)
(* provider and the operator get adds up to what the request costs, and       *)
(* neither side is negative.                                                  *)
(* - PriceIsNearest (CreditFormula): The price is the nearest integer to the  *)
(* exact price, however close the products come to the width of an integer.   *)
(* - ByteBilledOnce (SettlementVerdicts): No byte of a request is paid for    *)
(* twice: the outputs an answer charges the buyer for are disjoint, whichever *)
(* runs and providers made them.                                              *)
(* - ResolutionsSurvive (BillingMigrate): No start loses a resolution: every  *)
(* one ever recorded is in the table or in the leftover of a rebuild, and a   *)
(* serving coordinator has them all in the table.                             *)
(* - ServesComplete (BillingMigrate): A coordinator that serves has the       *)
(* payable view, the triggers that freeze settled money, every column and the *)
(* resolutions in the current form, wherever earlier starts stopped.          *)
BillingIsExact ==
    /\ which = "BillingLedger" => BillingLedger!ConsumedIsItsCredits
    /\ which = "CreditFormula" => CreditFormula!SplitIsExact
    /\ which = "CreditFormula" => CreditFormula!PriceIsNearest
    /\ which = "SettlementVerdicts" => SettlementVerdicts!ByteBilledOnce
    /\ which = "BillingMigrate" => BillingMigrate!ResolutionsSurvive
    /\ which = "BillingMigrate" => BillingMigrate!ServesComplete

(* Deposits, flips, pages, tuning values and payout addresses are recorded    *)
(* once and used as recorded.                                                 *)
(* - FundingCountedOnce (HotWalletBalance): A deposit is counted once,        *)
(* however its hash is spelled and whichever of the two ways it is recorded   *)
(* (funding.go:440, 466).                                                     *)
(* - ManualOnlyInBootstrap (HotWalletBalance): No unverified deposit is       *)
(* recorded once a payment has ever been confirmed, even after a              *)
(* reorganisation took every confirmation back (funding.go:247).              *)
(* - HaltIsExplained (HotWalletBalance): A surplus never halts the runner: a  *)
(* halt has a funding row without its deposit or above it, or a payment mined *)
(* and not yet confirmed behind it, whatever was mined or recorded between    *)
(* the two reads (reconcile.go:426).                                          *)
(* - FlipReportedOnce (PayoutFlags): No flip is reported twice, although the  *)
(* operator's request and the reaper may both find its row unreported, and    *)
(* although the process may crash between any two steps                       *)
(* (runtime_flags.go:205).                                                    *)
(* - TrailExplainsFlag (PayoutFlags): The audit trail explains the flag: the  *)
(* last row names its value and consecutive rows alternate, so no change of   *)
(* the flag escapes the trail (runtime_flags.go:86).                          *)
(* - LiveIsInBounds (PayoutTuning): The value the payout workers read always  *)
(* satisfies the bounds the start-up check enforces, the one against the      *)
(* immutable daily cap included.                                              *)
(* - PooledUnderThePin (PayoutTuning): Once a reload is over, an idle         *)
(* connection was verified under the pin in force; only a call that ran while *)
(* the pools were drained may have brought an older one back.                 *)
(* - SpacedRotationsCoolOff (PayoutAddresses): When each rotation waited for  *)
(* the one before, the runner pays only cooled-off addresses, across pauses,  *)
(* restarts on another hot wallet and requests in flight (attempts.go:75,     *)
(* addresses.go:469).                                                         *)
(* - MessageAppliedOnce (PayoutAddresses): A signed message changes the row   *)
(* once: its nonce outlives its time stamp's window.                          *)
(* - OnePagePerPeriod (PayoutOutbox): A stale period of an attempt is paged   *)
(* once, even when two processes scan at the same time and one looks at a row *)
(* the other has paged (orphans.go:602).                                      *)
PayoutBooksHold ==
    /\ which = "HotWalletBalance" => HotWalletBalance!FundingCountedOnce
    /\ which = "HotWalletBalance" => HotWalletBalance!ManualOnlyInBootstrap
    /\ which = "HotWalletBalance" => HotWalletBalance!HaltIsExplained
    /\ which = "PayoutFlags" => PayoutFlags!FlipReportedOnce
    /\ which = "PayoutFlags" => PayoutFlags!TrailExplainsFlag
    /\ which = "PayoutTuning" => PayoutTuning!LiveIsInBounds
    /\ which = "PayoutTuning" => PayoutTuning!PooledUnderThePin
    /\ which = "PayoutAddresses" => PayoutAddresses!SpacedRotationsCoolOff
    /\ which = "PayoutAddresses" => PayoutAddresses!MessageAppliedOnce
    /\ which = "PayoutOutbox" => PayoutOutbox!OnePagePerPeriod

(* The daily caps of a provider and of a wallet hold across replays, partial  *)
(* grants and wallet changes.                                                 *)
(* - ProviderCapHolds (RewardsEmission): A provider never accrues more than   *)
(* its daily cap in one day, whatever wallet it is bound to when              *)
(* (accrueProvider: the counter of the day and the cut to what is left).      *)
(* - WalletCapHolds (RewardsEmission): What all providers of a wallet accrue  *)
(* without a hold in one day is within the wallet's cap, also when providers  *)
(* join or leave the wallet during the day (applyWalletCap, bumpWalletDaily). *)
RewardsWithinCaps ==
    /\ which = "RewardsEmission" => RewardsEmission!ProviderCapHolds
    /\ which = "RewardsEmission" => RewardsEmission!WalletCapHolds

(* Rollups, mirror and partner windows say what happened.                     *)
(* - LateRecordedOnce (StatsRollup): The ticks of both windows record a late  *)
(* row once (the advisory lock around the anti-join of detectLateEvents).     *)
(* - NoRowSkipped (StatsMirror): Every row up to the saved cursor is in the   *)
(* mirror, however large the backlog and however two runs interleave (Run,    *)
(* SaveState).                                                                *)
(* - WindowIsExact (PartnerKeys): A window says what happened in its minute,  *)
(* neither more nor less: the calls that hold a slot and those that ended     *)
(* counting (refused keys for "authfail", successes for the others), however  *)
(* late the refunds come; and they are within the limit.                      *)
(* - RevokedIsRefused (PartnerKeys): A call that arrives after the revocation *)
(* is not served as the partner's: no answer of the look-up outlives the row. *)
StatisticsAreExact ==
    /\ which = "StatsRollup" => StatsRollup!LateRecordedOnce
    /\ which = "StatsMirror" => StatsMirror!NoRowSkipped
    /\ which = "PartnerKeys" => PartnerKeys!WindowIsExact
    /\ which = "PartnerKeys" => PartnerKeys!RevokedIsRefused

(* Starts, stops and reloads leave leases, queues and snapshots as the next   *)
(* user needs them.                                                           *)
(* - FreeLeaseIsUnused (CoordinatorLifecycle): While the lease row is free,   *)
(* no runner and no reorg poller of this process is in a cycle: a second      *)
(* coordinator that takes the free row never pays beside the first            *)
(* (payoutStep2.stop releases only when both Stops saw the goroutine end).    *)
(* - QueuedIsAudited (CoordinatorLifecycle): When main left through its waits *)
(* without a timeout, every model swap or receipt rotation that was queued    *)
(* before the shutdown began has been written to the audit log, or its one    *)
(* write failed: none is left in the queue and none is tried on the closed    *)
(* store.                                                                     *)
(* - RollupHasItsPool (CoordinatorLifecycle): The statistics goroutines never *)
(* run on a closed pool: the deferred Wait stands between their cancellation  *)
(* and the Close.                                                             *)
(* - PricedByItsSnapshot (ConfigReload): A credit names the snapshot that     *)
(* holds the prices it was computed with: the receipt path and the recovery   *)
(* scan re-price it from that row.                                            *)
(* - NewestSnapshotServes (ConfigReload): Between reloads the newest snapshot *)
(* row is the one in use: its prices are the buyer server's and its flags are *)
(* those the handlers read, whatever was refused or failed before.            *)
ProcessLeavesCleanly ==
    /\ which = "CoordinatorLifecycle" => CoordinatorLifecycle!FreeLeaseIsUnused
    /\ which = "CoordinatorLifecycle" => CoordinatorLifecycle!QueuedIsAudited
    /\ which = "CoordinatorLifecycle" => CoordinatorLifecycle!RollupHasItsPool
    /\ which = "ConfigReload" => ConfigReload!PricedByItsSnapshot
    /\ which = "ConfigReload" => ConfigReload!NewestSnapshotServes

(* What no step of the books may do.                                          *)
(* - RotationIsFenced (AdmissionIdentity): The key is replaced only on top of *)
(* the very key and generation its replacement was proved against: a session  *)
(* whose proof another session's rotation has overtaken changes nothing.      *)
(* - RevokedEarnsNothing (ReferralSocial): A revoked issuer earns nothing,    *)
(* though the revocation falls between the claim of a recheck and its report. *)
(* - ClaimedIsPayable (BillingLedger): At the moment a payout is consumed     *)
(* every credit in it is payable: none is quarantined without a matured       *)
(* forced credit, and every enforced one has a verified receipt for output    *)
(* that overlaps no other attempt's.                                          *)
(* - ScanCompletesLedger (BillingLedger): A recovery scan that completes      *)
(* leaves no logged attempt of its window without a credit, and prices none   *)
(* that the ledger already holds a second time.                               *)
(* - AnswerIsFinal (SettlementVerdicts): An answer is final: when the gateway *)
(* asks again and no attempt has ended and no receipt has been handed in      *)
(* since, a closed answer is repeated, so what it did with the reservation    *)
(* stays right, whatever deadlines passed and credits were recovered          *)
(* meanwhile.                                                                 *)
(* - PageIffChronic (RpcOutage): A page names an outage of the calls of the   *)
(* window, not of older ones, and every evaluation that sees one has a page   *)
(* within the cooldown behind it, whatever was recorded or evaluated in       *)
(* between (chronic.go:155).                                                  *)
(* - ReplayWithinCap (RewardsEmission): One replay releases oldest first and  *)
(* stays within the wallet's cap of the day, on top of all that was accrued   *)
(* that day: no row is released while an older held row of the wallet stays.  *)
(* - RequalifiedForTheWholeWindow (TrustUnlock): After a demotion a provider  *)
(* is promoted again only when its cooldown is over and no evaluation of the  *)
(* last Window found the pair missing (advanceWindow, demoteProvider).        *)
(* - TickIsExact (StatsRollup): An incremental tick leaves a provider the row *)
(* a full recomputation would have computed, unless one of that provider's    *)
(* rows arrived behind the look-back or was corrected, or a rebuild moved     *)
(* last_ok_at after the tick had read it (runIncrementalLeaderboardUpdate).   *)
(* - DriftIsReported (StatsRollup): A provider whose row the nightly rebuild  *)
(* changes or drops is reported as drift (emitDriftEvents walks the old and   *)
(* the new rows).                                                             *)
BooksMoveByRule ==
  [][
    /\ which = "AdmissionIdentity" => AdmissionIdentity!RotationIsFencedStep
    /\ which = "ReferralSocial" => ReferralSocial!RevokedEarnsNothingStep
    /\ which = "BillingLedger" => BillingLedger!ClaimedIsPayableStep
    /\ which = "BillingLedger" => BillingLedger!ScanCompletesLedgerStep
    /\ which = "SettlementVerdicts" => SettlementVerdicts!AnswerIsFinalStep
    /\ which = "RpcOutage" => RpcOutage!PageIffChronicStep
    /\ which = "RewardsEmission" => RewardsEmission!ReplayWithinCapStep
    /\ which = "TrustUnlock" => TrustUnlock!RequalifiedForTheWholeWindowStep
    /\ which = "StatsRollup" => StatsRollup!TickIsExactStep
    /\ which = "StatsRollup" => StatsRollup!DriftIsReportedStep
  ]_slots
=============================================================================
