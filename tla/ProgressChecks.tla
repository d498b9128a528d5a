------------------------------ MODULE ProgressChecks ------------------------------
(***************************************************************************)
(* Progress of the components, each on a small instance and under the      *)
(* fairness of its own scheduling. A behaviour picks one component and     *)
(* runs it; goal names the row, file or goroutine of the component that    *)
(* the properties look at.                                                 *)
(***************************************************************************)
EXTENDS TLC, Integers, Sequences

CONSTANT Blank   \* the value of what the running component does not use

VARIABLES
    which,   \* the component of this behaviour
    goal,    \* which of its rows, files or goroutines is looked at
    s1, s2, s3, s4, s5, s6, s7, s8, s9, s10, s11, s12, s13, s14, s15, s16, s17, s18, s19   \* its variables, in the order of its module

slots == <<which, goal, s1, s2, s3, s4, s5, s6, s7, s8, s9, s10, s11, s12, s13, s14, s15, s16, s17, s18, s19>>

RelaySession == INSTANCE ProviderRelay WITH
    Requests <- {"q1"}, MaxConcurrency <- 2, WriteBuffer <- 1, ChunkBuffer <- 1,
    ByteLimit <- 2, MaxChunks <- 2, open <- s1, httpOnly <- s2, active <- s3, pc <- s4,
    chan <- s5, done <- s6, errs <- s7, bytes <- s8, held <- s9, queue <- s10, reader <- s11,
    sent <- s12, outcome <- s13, panicked <- s14, RekeyRequests <- Blank, Threshold <- Blank,
    WaiterLimit <- Blank, RekeyWriteBuffer <- Blank, MaxRekeys <- Blank, MaxFrames <- Blank,
    rekeyOpen <- Blank, rekeyActive <- Blank, key <- Blank, poolKey <- Blank, c2p <- Blank,
    used <- Blank, rekey <- Blank, made <- Blank, failed <- Blank, runner <- Blank,
    rekeyPc <- Blank, waits <- Blank, frame <- Blank, probe <- Blank, rekeyQueue <- Blank,
    answers <- Blank, prov <- Blank, sealed <- Blank, faults <- Blank, Window <- Blank,
    Top <- Blank, probes <- Blank, windowOpen <- Blank, counter <- Blank, seen <- Blank,
    next <- Blank, flying <- Blank, taken <- Blank, missed <- Blank

SlotQueue == INSTANCE Routing WITH
    Requests <- {"r1", "r2", "r3"}, Providers <- {"p1", "p2"}, MaxPending <- 2, Slots <- 1,
    MaxReports <- 0, free <- s1, reports <- s2, queue <- s3, reserved <- s4, at <- s5,
    prov <- s6, seen <- s7, cands <- s8, excluded <- s9, holds <- s10, again <- s11,
    SelectProviders <- Blank, pool <- Blank, rank <- Blank, req <- Blank, order <- Blank,
    result <- Blank, Keys <- Blank, Accounts <- Blank, StickyProviders <- Blank,
    Scopes <- Blank, TTL <- Blank, MaxEntries <- Blank, Window <- Blank, MaxLimited <- Blank,
    MaxTime <- Blank, entries <- Blank, limited <- Blank, now <- Blank, stale <- Blank

GatewayStream == INSTANCE GatewayRequests WITH
    MaxTok <- 1, MaxMeta <- 1, MaxTries <- 2, Slack <- 0, phase <- s1, try <- s2, prior <- s3,
    last <- s4, credited <- s5, buyer <- s6, cause <- s7, armed <- s8, idle <- s9,
    emitted <- s10, meta <- s11, reported <- s12, invalid <- s13, term <- s14,
    terminals <- s15, late <- s16, verdict <- s17, Attempts <- Blank, Fp <- Blank,
    MaxMappings <- Blank, MaxBodies <- Blank, MaxInFlight <- Blank, MaxWaiters <- Blank,
    entries <- Blank, ent <- Blank, dedupeSeen <- Blank, inFlight <- Blank, bodyCount <- Blank,
    at <- Blank, rid <- Blank, rows <- Blank, billed <- Blank, replayed <- Blank,
    lost <- Blank, Callers <- Blank, Limit <- Blank, MaxBuckets <- Blank, TTL <- Blank,
    PruneEvery <- Blank, MaxTime <- Blank, now <- Blank, bucket <- Blank, pruned <- Blank,
    passed <- Blank, evicted <- Blank

ProviderConnect == INSTANCE ProviderConnect WITH
    Conns <- {1}, Prov <- <<"p", "p">>, Ip <- <<"i", "i">>, Pinned <- {}, PerIpMax <- 2,
    UnauthMax <- 2, AttemptMax <- 1, PoolMax <- 2, MaxRevoked <- 2, pc <- s1, loc <- s2,
    perIp <- s3, unauth <- s4, attempts <- s5, pending <- s6, token <- s7, gens <- s8,
    rejected <- s9, pool <- s10, revoked <- s11, Sessions <- Blank, CatalogUntil <- Blank,
    Configs <- Blank, MaxTime <- Blank, MaxReloads <- Blank, MaxHellos <- Blank, now <- Blank,
    cfg <- Blank, pass <- Blank, entry <- Blank, hello <- Blank, reload <- Blank, gen <- Blank,
    timer <- Blank, calls <- Blank, used <- Blank, None <- Blank

RelayRekey == INSTANCE ProviderRelay WITH
    RekeyRequests <- {"q", "r"}, Threshold <- 1, WaiterLimit <- 1, RekeyWriteBuffer <- 1,
    MaxRekeys <- 1, MaxFrames <- 2, rekeyOpen <- s1, rekeyActive <- s2, key <- s3,
    poolKey <- s4, c2p <- s5, used <- s6, rekey <- s7, made <- s8, failed <- s9, runner <- s10,
    rekeyPc <- s11, waits <- s12, frame <- s13, probe <- s14, rekeyQueue <- s15,
    answers <- s16, prov <- s17, sealed <- s18, faults <- s19, Requests <- Blank,
    MaxConcurrency <- Blank, WriteBuffer <- Blank, ChunkBuffer <- Blank, ByteLimit <- Blank,
    MaxChunks <- Blank, open <- Blank, httpOnly <- Blank, active <- Blank, pc <- Blank,
    chan <- Blank, done <- Blank, errs <- Blank, bytes <- Blank, held <- Blank, queue <- Blank,
    reader <- Blank, sent <- Blank, outcome <- Blank, panicked <- Blank, Window <- Blank,
    Top <- Blank, probes <- Blank, windowOpen <- Blank, counter <- Blank, seen <- Blank,
    next <- Blank, flying <- Blank, taken <- Blank, missed <- Blank

VerdictAttempt(r, u, k) == [req |-> r, run |-> u, n |-> k, policy |-> "p", free |-> FALSE]
VerdictHistories ==
    {{VerdictAttempt(1, 1, 0), VerdictAttempt(1, 1, 1)}, {VerdictAttempt(1, 1, 0), VerdictAttempt(1, 2, 0)},
     {VerdictAttempt(1, 1, 0), VerdictAttempt(2, 3, 0)},
     {VerdictAttempt(1, 1, 0), [VerdictAttempt(2, 3, 0) EXCEPT !.policy = "q"]},
     {VerdictAttempt(1, 1, 0), [VerdictAttempt(1, 1, 1) EXCEPT !.policy = "q", !.free = TRUE]}}
SettlementVerdicts == INSTANCE BillingSettlement WITH
    Histories <- {{VerdictAttempt(1, 1, 0), VerdictAttempt(1, 1, 1)}}, MaxLen <- 1, live <- s1,
    ended <- s2, cursor <- s3, out <- s4, asked <- s5, verdict <- s6, due <- s7, led <- s8,
    ans <- s9, Worlds <- Blank, MaxRowid <- Blank, BatchSize <- Blank, MaxCrashes <- Blank,
    MaxWrites <- Blank, db <- Blank, pc <- Blank, schemaCursor <- Blank, made <- Blank,
    crashes <- Blank, writes <- Blank, None <- Blank

MigrateWorld(r, f, l, v, t, c, w, u) ==
    [res |-> r, form |-> f, left |-> l, view |-> v, triggers |-> t, missing |-> c, raw |-> w, unique |-> u]
MigrateWorlds ==
    {MigrateWorld(Blank, "v05", Blank, FALSE, FALSE, {}, {}, FALSE),
     MigrateWorld({1, 2}, "v04", Blank, TRUE, TRUE, {"prompt", "identity", "policy"}, {1, 3}, TRUE),
     MigrateWorld(Blank, "v04", {1, 2}, TRUE, TRUE, {"policy"}, {2, 3}, FALSE),
     MigrateWorld({1}, "v04", {}, TRUE, FALSE, {"policy", "identity"}, {3}, TRUE),
     MigrateWorld({1}, "v04", {1}, TRUE, TRUE, {"policy"}, {1}, FALSE)}
BillingMigrate == INSTANCE BillingSettlement WITH
    Worlds <- MigrateWorlds, MaxRowid <- 3, BatchSize <- 2, MaxCrashes <- 2, MaxWrites <- 1,
    db <- s1, pc <- s2, schemaCursor <- s3, made <- s4, crashes <- s5, writes <- s6,
    Histories <- Blank, MaxLen <- Blank, live <- Blank, ended <- Blank, cursor <- Blank,
    out <- Blank, asked <- Blank, verdict <- Blank, due <- Blank, led <- Blank, ans <- Blank,
    None <- Blank

ReloadConfig(r, v, k, t, n, x, ok, g) ==
    [rates |-> r, void |-> v, credit |-> k, tier2 |-> t, needs |-> n, fixed |-> x, valid |-> ok, catalog |-> g]
ReloadConfigs ==
    {ReloadConfig(1, FALSE, FALSE, 1, FALSE, 1, TRUE, TRUE), ReloadConfig(2, TRUE, TRUE, 2, TRUE, 1, TRUE, TRUE),
     ReloadConfig(2, TRUE, FALSE, 3, FALSE, 1, TRUE, FALSE), ReloadConfig(2, FALSE, FALSE, 1, FALSE, 2, TRUE, TRUE),
     ReloadConfig(1, TRUE, FALSE, 1, FALSE, 1, FALSE, TRUE)}
ReloadLive ==
    {ReloadConfig(1, FALSE, FALSE, 1, FALSE, 1, TRUE, TRUE), ReloadConfig(2, TRUE, FALSE, 3, FALSE, 1, TRUE, FALSE),
     ReloadConfig(2, TRUE, TRUE, 2, TRUE, 1, TRUE, TRUE)}
ConfigReload == INSTANCE CoordinatorProcess WITH
    Configs <- ReloadLive, MaxEdits <- 1, MaxSignals <- 2, ReloadMaxFails <- 0,
    MaxCrashes <- 0, file <- s1, started <- s2, wired <- s3, signal <- s4, reloadPc <- s5,
    cand <- s6, tier2 <- s7, flags <- s8, prices <- s9, classes <- s10, snaps <- s11,
    audits <- s12, credits <- s13, dirty <- s14, taken <- s15, spent <- s16, Kinds <- Blank,
    Events <- Blank, QueueSize <- Blank, MaxFails <- Blank, MaxStarts <- Blank, pc <- Blank,
    payout <- Blank, stopped <- Blank, late <- Blank, lease <- Blank, worker <- Blank,
    clean <- Blank, rollup <- Blank, pools <- Blank, audit <- Blank, queue <- Blank,
    drainer <- Blank, event <- Blank, early <- Blank, fails <- Blank, starts <- Blank,
    None <- Blank

ConnectionEvents == INSTANCE ProviderEvents WITH
    Conns <- {1}, Claimed <- <<"p">>, Validated <- {1}, QueueSize <- 1, ProviderCap <- 1,
    AnonymousCap <- 1, GlobalCap <- 1, PerMinute <- 1, MaxFails <- 1, conn <- s1, serial <- s2,
    pend <- s3, queue <- s4, stopped <- s5, panicked <- s6, done <- s7, writers <- s8,
    rows <- s9, recorded <- s10, anon <- s11, fails <- s12, unbounded <- s13,
    Providers <- Blank, LastQueueSize <- Blank, Cap <- Blank, PageSize <- Blank,
    MaxTime <- Blank, MaxFrames <- Blank, MaxPages <- Blank, live <- Blank, lastQueue <- Blank,
    recent <- Blank, known <- Blank, clock <- Blank, frames <- Blank, page <- Blank,
    evicted <- Blank

AppTrackRegister == INSTANCE AppTrackRegister WITH
    Attempts <- {1}, Cand <- <<"c">>, Fresh <- {"f"}, Handlers <- {1}, MaxFaults <- 1,
    tok <- s1, red <- s2, pend <- s3, prepared <- s4, nonces <- s5, ident <- s6, cooling <- s7,
    h <- s8, rec <- s9, told <- s10, faults <- s11

PayoutFlags == INSTANCE PayoutOperations WITH
    Requests <- {1}, MaxFlips <- 2, MaxCrashes <- 1, sentinel <- s1, flag <- s2, audit <- s3,
    process <- s4, recent <- s5, request <- s6, claim <- s7, reported <- s8, crashes <- s9,
    Deposits <- Blank, Payments <- Blank, Cancels <- Blank, Size <- Blank, Tolerance <- Blank,
    MaxReorgs <- Blank, deposited <- Blank, mined <- Blank, confirmed <- Blank,
    funding <- Blank, bootstrap <- Blank, everConfirmed <- Blank, late <- Blank,
    probe <- Blank, halted <- Blank, cause <- Blank, limited <- Blank, reorgs <- Blank,
    Window <- Blank, Cooldown <- Blank, MinSamples <- Blank, Percent <- Blank,
    MaxSamples <- Blank, MaxTime <- Blank, now <- Blank, samples <- Blank, calls <- Blank,
    lastPagedAt <- Blank, pagedAt <- Blank, Files <- Blank, First <- Blank,
    CoolingMin <- Blank, RowsMin <- Blank, RowsMax <- Blank, PerDayCap <- Blank,
    Capacity <- Blank, Calls <- Blank, Clients <- Blank, MaxSignals <- Blank,
    MaxCalls <- Blank, file <- Blank, live <- Blank, queued <- Blank, pc <- Blank,
    cand <- Blank, pages <- Blank, conn <- Blank, pool <- Blank, closing <- Blank,
    strays <- Blank, sent <- Blank, begun <- Blank, None <- Blank

PayoutOutbox == INSTANCE PayoutRecords WITH

    Worlds <- {[cancels |-> {1}, producers |-> {1, 2}], [cancels |-> {1, 2}, producers |-> {1}]},
    Limit <- 1, MaxPages <- 2, MaxUpsets <- 0, outboxRow <- s1, mined <- s2, outbox <- s3,
    cycle <- s4, claim <- s5, reported <- s6, pages <- s7, upsets <- s8, Handlers <- Blank,
    Addresses <- Blank, Nonces <- Blank, Wallets <- Blank, Skew <- Blank, Cooling <- Blank,
    MaxTime <- Blank, MaxFlips <- Blank, MaxRestarts <- Blank, now <- Blank, wallet <- Blank,
    paused <- Blank, allowed <- Blank, row <- Blank, nonces <- Blank, handler <- Blank,
    registered <- Blank, apart <- Blank, watched <- Blank, applied <- Blank, flips <- Blank,
    restarts <- Blank

CoordinatorLifecycle == INSTANCE CoordinatorProcess WITH
    Kinds <- {"swap"}, Events <- {1}, QueueSize <- 1, MaxFails <- 0, MaxStarts <- 2, pc <- s1,
    payout <- s2, stopped <- s3, late <- s4, lease <- s5, worker <- s6, clean <- s7,
    rollup <- s8, pools <- s9, audit <- s10, queue <- s11, drainer <- s12, event <- s13,
    early <- s14, fails <- s15, starts <- s16, Configs <- Blank, MaxEdits <- Blank,
    MaxSignals <- Blank, ReloadMaxFails <- Blank, MaxCrashes <- Blank, file <- Blank,
    started <- Blank, wired <- Blank, signal <- Blank, reloadPc <- Blank, cand <- Blank,
    tier2 <- Blank, flags <- Blank, prices <- Blank, classes <- Blank, snaps <- Blank,
    audits <- Blank, credits <- Blank, dirty <- Blank, taken <- Blank, spent <- Blank,
    None <- Blank

GatewaySettlement == INSTANCE GatewaySettlement WITH
    Req <- {1}, Demo <- {}, Ask <- 1, Quota <- 1, Limit <- 1, MaxFaults <- 0, SegmentMax <- 2,
    JournalMax <- 5, Copies <- 1, MaxConflicts <- 1, MaxCrashes <- 1, res <- s1, lease <- s2,
    usage <- s3, demo <- s4, faults <- s5, segs <- s6, open <- s7, torn <- s8, pc <- s9,
    job <- s10, fin <- s11, rcv <- s12, tries <- s13, rcn <- s14, owed <- s15, crashes <- s16

PoolRegistry == INSTANCE PoolRegistry WITH
    Sessions <- {1}, WarmupGate <- TRUE, Threshold <- 1, MaxEvents <- 1, entry <- s1,
    hold <- s2, faults <- s3, recovered <- s4, sanction <- s5, conn <- s6, gate <- s7,
    warming <- s8, wake <- s9, probing <- s10, grace <- s11, events <- s12, retripped <- s13,
    Ceiling <- Blank, cap <- Blank, used <- Blank, Providers <- Blank, Models <- Blank,
    MaxPerProvider <- Blank, MaxContrib <- Blank, MaxLifetime <- Blank, MaxLoads <- Blank,
    telemetryEntry <- Blank, seen <- Blank, lifetime <- Blank, contrib <- Blank,
    loads <- Blank, swaps <- Blank, Keys <- Blank, Grace <- Blank, MaxTime <- Blank,
    key <- Blank, pending <- Blank, prev <- Blank, present <- Blank, now <- Blank,
    rotated <- Blank

BridgeConfigs ==
    {[active |-> TRUE, until |-> 0], [active |-> TRUE, until |-> 1],
     [active |-> TRUE, until |-> 2], [active |-> FALSE, until |-> 0]}
LegacyBridges == INSTANCE ProviderConnect WITH
    Sessions <- {1}, CatalogUntil <- 1, Configs <- BridgeConfigs, MaxTime <- 2,
    MaxReloads <- 1, MaxHellos <- 1, now <- s1, cfg <- s2, pass <- s3, entry <- s4,
    hello <- s5, reload <- s6, gen <- s7, timer <- s8, calls <- s9, used <- s10,
    Conns <- Blank, Prov <- Blank, Ip <- Blank, Pinned <- Blank, PerIpMax <- Blank,
    UnauthMax <- Blank, AttemptMax <- Blank, PoolMax <- Blank, MaxRevoked <- Blank,
    pc <- Blank, loc <- Blank, perIp <- Blank, unauth <- Blank, attempts <- Blank,
    pending <- Blank, token <- Blank, gens <- Blank, rejected <- Blank, pool <- Blank,
    revoked <- Blank, None <- Blank

TrustSessions == INSTANCE HardwareTrust WITH
    SessionHashes <- {"a", "b"}, Threshold <- 3, MaxSessions <- 2, MaxRootChanges <- 3,
    trusted <- s1, gate <- s2, sess <- s3, sweep <- s4, failures <- s5, degraded <- s6,
    opened <- s7, changed <- s8, Hashes <- Blank, Operators <- Blank, MaxJobs <- Blank,
    MaxGrants <- Blank, MaxSyncs <- Blank, jobs <- Blank, roots <- Blank, chip <- Blank,
    profile <- Blank, asked <- Blank, verifier <- Blank, sync <- Blank, grants <- Blank,
    syncs <- Blank, lapsed <- Blank

TrustUnlock == INSTANCE Rewards WITH
    Operators <- {"a", "b"}, Window <- 1, MaxTime <- 2, MaxFlips <- 1,
    Starts <- {{}, {"receipts", "attested"}, {"wallet", "balance", "uptime"}}, clock <- s1,
    evidence <- s2, flips <- s3, unlockTier <- s4, cooldown <- s5, since <- s6, eval <- s7,
    request <- s8, promoted <- s9, broken <- s10, Providers <- Blank, Wallets <- Blank,
    Tick <- Blank, ProviderCap <- Blank, WalletCap <- Blank, MaxRows <- Blank, MaxDay <- Blank,
    MaxChanges <- Blank, day <- Blank, source <- Blank, proj <- Blank, state <- Blank,
    sums <- Blank, ledger <- Blank, changes <- Blank

GatewayMigrate == INSTANCE GatewayAdmin WITH
    MaxCrashes <- 1, from <- s1, migrateDb <- s2, pc <- s3, up <- s4, crashes <- s5,
    Operators <- Blank, Monitors <- Blank, MaxVersion <- Blank, MaxRestarts <- Blank,
    db <- Blank, mem <- Blank, tier <- Blank, firing <- Blank, op <- Blank, mon <- Blank,
    alone <- Blank, restarts <- Blank, Flows <- Blank, Who <- Blank, Ips <- Blank,
    StateCap <- Blank, SignupCap <- Blank, Keys <- Blank, ip <- Blank, state <- Blank,
    mint <- Blank, step <- Blank, issued <- Blank, accounts <- Blank, identity <- Blank,
    key <- Blank, mine <- Blank, handoff <- Blank, shown <- Blank, rot <- Blank

StatsMirror == INSTANCE Statistics WITH
    Runs <- {1, 2}, MaxId <- 1, MaxVersion <- 2, BatchSize <- 1, MaxBatches <- 1, Overlap <- 0,
    SweepRows <- 1, MaxFails <- 0, source <- s1, mirror <- s2, mirrorLast <- s3, sweep <- s4,
    run <- s5, fails <- s6, Ids <- Blank, Owners <- Blank, Rewards <- Blank,
    Providers <- Blank, Length <- Blank, Lookback <- Blank, Start <- Blank, MaxTime <- Blank,
    MaxCorrections <- Blank, MaxRuns <- Blank, clock <- Blank, owner <- Blank, row <- Blank,
    table <- Blank, rank <- Blank, okAt <- Blank, tick <- Blank, nightly <- Blank, mu <- Blank,
    lateLock <- Blank, late <- Blank, drift <- Blank, dirty <- Blank, exempt <- Blank,
    corrections <- Blank, runs <- Blank, Keys <- Blank, Requests <- Blank, Limit <- Blank,
    MaxBuckets <- Blank, IdleTTL <- Blank, MaxMinute <- Blank, MaxCalls <- Blank,
    minute <- Blank, partnerRow <- Blank, cli <- Blank, req <- Blank, win <- Blank,
    counted <- Blank, lost <- Blank, calls <- Blank, None <- Blank

WeightsRows == [current |-> (1 :> "x" @@ 2 :> "y"), previous |-> (1 :> "x" @@ 2 :> "w")]
WeightsReports ==
    {[hw |-> "a", benchmarks |-> {[model |-> m, row |-> IF m = 1 THEN "x" ELSE "y"] : m \in ms}] :
        ms \in {{1}, {1, 2}}}
WeightsGate == INSTANCE WeightsGate WITH
    Sessions <- {1}, Models <- {1, 2}, Rows <- WeightsRows, Reports <- WeightsReports,
    MaxReloads <- 1, MaxReports <- 1, MaxSwitches <- 1, MaxFails <- 0, MaxHellos <- 1,
    gate <- s1, evidence <- s2, entry <- s3, hello <- s4, beat <- s5, reload <- s6,
    sweep <- s7, used <- s8, None <- Blank

Init ==
    \/ which = "RelaySession" /\ goal = Blank /\ RelaySession!Init /\ s15 = Blank /\ s16 = Blank /\ s17 = Blank /\ s18 = Blank /\ s19 = Blank
    \/ which = "SlotQueue" /\ goal = Blank /\ SlotQueue!Init /\ s12 = Blank /\ s13 = Blank /\ s14 = Blank /\ s15 = Blank /\ s16 = Blank /\ s17 = Blank /\ s18 = Blank /\ s19 = Blank
    \/ which = "GatewayStream" /\ goal = Blank /\ GatewayStream!Init /\ s18 = Blank /\ s19 = Blank
    \/ which = "ProviderConnect" /\ goal = Blank /\ ProviderConnect!Init /\ s12 = Blank /\ s13 = Blank /\ s14 = Blank /\ s15 = Blank /\ s16 = Blank /\ s17 = Blank /\ s18 = Blank /\ s19 = Blank
    \/ which = "RelayRekey" /\ goal = Blank /\ RelayRekey!RekeyInit
    \/ which = "SettlementVerdicts" /\ goal = Blank /\ SettlementVerdicts!Init /\ s10 = Blank /\ s11 = Blank /\ s12 = Blank /\ s13 = Blank /\ s14 = Blank /\ s15 = Blank /\ s16 = Blank /\ s17 = Blank /\ s18 = Blank /\ s19 = Blank
    \/ which = "BillingMigrate" /\ goal = Blank /\ BillingMigrate!SchemaInit /\ s7 = Blank /\ s8 = Blank /\ s9 = Blank /\ s10 = Blank /\ s11 = Blank /\ s12 = Blank /\ s13 = Blank /\ s14 = Blank /\ s15 = Blank /\ s16 = Blank /\ s17 = Blank /\ s18 = Blank /\ s19 = Blank
    \/ which = "ConfigReload" /\ goal \in ReloadLive /\ ConfigReload!ReloadInit /\ s17 = Blank /\ s18 = Blank /\ s19 = Blank
    \/ which = "ConnectionEvents" /\ goal = Blank /\ ConnectionEvents!Init /\ s14 = Blank /\ s15 = Blank /\ s16 = Blank /\ s17 = Blank /\ s18 = Blank /\ s19 = Blank
    \/ which = "AppTrackRegister" /\ goal = Blank /\ AppTrackRegister!Init /\ s12 = Blank /\ s13 = Blank /\ s14 = Blank /\ s15 = Blank /\ s16 = Blank /\ s17 = Blank /\ s18 = Blank /\ s19 = Blank
    \/ which = "PayoutFlags" /\ goal \in 1..3 /\ PayoutFlags!FlagInit /\ s10 = Blank /\ s11 = Blank /\ s12 = Blank /\ s13 = Blank /\ s14 = Blank /\ s15 = Blank /\ s16 = Blank /\ s17 = Blank /\ s18 = Blank /\ s19 = Blank
    \/ which = "PayoutOutbox" /\ goal \in 1..2 /\ PayoutOutbox!OutboxInit /\ s9 = Blank /\ s10 = Blank /\ s11 = Blank /\ s12 = Blank /\ s13 = Blank /\ s14 = Blank /\ s15 = Blank /\ s16 = Blank /\ s17 = Blank /\ s18 = Blank /\ s19 = Blank
    \/ which = "CoordinatorLifecycle" /\ goal = Blank /\ CoordinatorLifecycle!Init /\ s17 = Blank /\ s18 = Blank /\ s19 = Blank
    \/ which = "GatewaySettlement" /\ goal = Blank /\ GatewaySettlement!Init /\ s17 = Blank /\ s18 = Blank /\ s19 = Blank
    \/ which = "PoolRegistry" /\ goal = Blank /\ PoolRegistry!Init /\ s14 = Blank /\ s15 = Blank /\ s16 = Blank /\ s17 = Blank /\ s18 = Blank /\ s19 = Blank
    \/ which = "LegacyBridges" /\ goal = Blank /\ LegacyBridges!BridgeInit /\ s11 = Blank /\ s12 = Blank /\ s13 = Blank /\ s14 = Blank /\ s15 = Blank /\ s16 = Blank /\ s17 = Blank /\ s18 = Blank /\ s19 = Blank
    \/ which = "TrustSessions" /\ goal = Blank /\ TrustSessions!SessionInit /\ s9 = Blank /\ s10 = Blank /\ s11 = Blank /\ s12 = Blank /\ s13 = Blank /\ s14 = Blank /\ s15 = Blank /\ s16 = Blank /\ s17 = Blank /\ s18 = Blank /\ s19 = Blank
    \/ which = "TrustUnlock" /\ goal = Blank /\ TrustUnlock!UnlockInit /\ s11 = Blank /\ s12 = Blank /\ s13 = Blank /\ s14 = Blank /\ s15 = Blank /\ s16 = Blank /\ s17 = Blank /\ s18 = Blank /\ s19 = Blank
    \/ which = "GatewayMigrate" /\ goal = Blank /\ GatewayMigrate!MigrateInit /\ s6 = Blank /\ s7 = Blank /\ s8 = Blank /\ s9 = Blank /\ s10 = Blank /\ s11 = Blank /\ s12 = Blank /\ s13 = Blank /\ s14 = Blank /\ s15 = Blank /\ s16 = Blank /\ s17 = Blank /\ s18 = Blank /\ s19 = Blank
    \/ which = "StatsMirror" /\ goal = Blank /\ StatsMirror!MirrorInit /\ s7 = Blank /\ s8 = Blank /\ s9 = Blank /\ s10 = Blank /\ s11 = Blank /\ s12 = Blank /\ s13 = Blank /\ s14 = Blank /\ s15 = Blank /\ s16 = Blank /\ s17 = Blank /\ s18 = Blank /\ s19 = Blank
    \/ which = "WeightsGate" /\ goal = Blank /\ WeightsGate!Init /\ s9 = Blank /\ s10 = Blank /\ s11 = Blank /\ s12 = Blank /\ s13 = Blank /\ s14 = Blank /\ s15 = Blank /\ s16 = Blank /\ s17 = Blank /\ s18 = Blank /\ s19 = Blank

Next ==
    \/ which = "RelaySession" /\ RelaySession!Next /\ UNCHANGED <<which, goal, s15, s16, s17, s18, s19>>
    \/ which = "SlotQueue" /\ SlotQueue!Next /\ UNCHANGED <<which, goal, s12, s13, s14, s15, s16, s17, s18, s19>>
    \/ which = "GatewayStream" /\ GatewayStream!Next /\ UNCHANGED <<which, goal, s18, s19>>
    \/ which = "ProviderConnect" /\ ProviderConnect!Next /\ UNCHANGED <<which, goal, s12, s13, s14, s15, s16, s17, s18, s19>>
    \/ which = "RelayRekey" /\ RelayRekey!RekeyNext /\ UNCHANGED <<which, goal>>
    \/ which = "SettlementVerdicts" /\ SettlementVerdicts!Next /\ UNCHANGED <<which, goal, s10, s11, s12, s13, s14, s15, s16, s17, s18, s19>>
    \/ which = "BillingMigrate" /\ BillingMigrate!SchemaNext /\ UNCHANGED <<which, goal, s7, s8, s9, s10, s11, s12, s13, s14, s15, s16, s17, s18, s19>>
    \/ which = "ConfigReload" /\ ConfigReload!ReloadNext /\ UNCHANGED <<which, goal, s17, s18, s19>>
    \/ which = "ConnectionEvents" /\ ConnectionEvents!Next /\ UNCHANGED <<which, goal, s14, s15, s16, s17, s18, s19>>
    \/ which = "AppTrackRegister" /\ AppTrackRegister!Next /\ UNCHANGED <<which, goal, s12, s13, s14, s15, s16, s17, s18, s19>>
    \/ which = "PayoutFlags" /\ PayoutFlags!FlagNext /\ UNCHANGED <<which, goal, s10, s11, s12, s13, s14, s15, s16, s17, s18, s19>>
    \/ which = "PayoutOutbox" /\ PayoutOutbox!OutboxNext /\ UNCHANGED <<which, goal, s9, s10, s11, s12, s13, s14, s15, s16, s17, s18, s19>>
    \/ which = "CoordinatorLifecycle" /\ CoordinatorLifecycle!Next /\ UNCHANGED <<which, goal, s17, s18, s19>>
    \/ which = "GatewaySettlement" /\ GatewaySettlement!Next /\ UNCHANGED <<which, goal, s17, s18, s19>>
    \/ which = "PoolRegistry" /\ PoolRegistry!Next /\ UNCHANGED <<which, goal, s14, s15, s16, s17, s18, s19>>
    \/ which = "LegacyBridges" /\ LegacyBridges!BridgeNext /\ UNCHANGED <<which, goal, s11, s12, s13, s14, s15, s16, s17, s18, s19>>
    \/ which = "TrustSessions" /\ TrustSessions!SessionNext /\ UNCHANGED <<which, goal, s9, s10, s11, s12, s13, s14, s15, s16, s17, s18, s19>>
    \/ which = "TrustUnlock" /\ TrustUnlock!UnlockNext /\ UNCHANGED <<which, goal, s11, s12, s13, s14, s15, s16, s17, s18, s19>>
    \/ which = "GatewayMigrate" /\ GatewayMigrate!MigrateNext /\ UNCHANGED <<which, goal, s6, s7, s8, s9, s10, s11, s12, s13, s14, s15, s16, s17, s18, s19>>
    \/ which = "StatsMirror" /\ StatsMirror!MirrorNext /\ UNCHANGED <<which, goal, s7, s8, s9, s10, s11, s12, s13, s14, s15, s16, s17, s18, s19>>
    \/ which = "WeightsGate" /\ WeightsGate!Next /\ UNCHANGED <<which, goal, s9, s10, s11, s12, s13, s14, s15, s16, s17, s18, s19>>

(* The fair steps of the components.  A behaviour has one component, so a   *)
(* group with one step of each is as fair as the steps alone.                *)
Fair1 ==
    CASE which = "GatewaySettlement" -> (GatewaySettlement!Handler(<<1, 1>>)) /\ UNCHANGED <<which, goal, s17, s18, s19>>
      [] which = "PayoutOutbox" -> (1 \in PayoutOutbox!Producers /\ PayoutOutbox!ProduceStaleOutboxRows(1)) /\ UNCHANGED <<which, goal, s9, s10, s11, s12, s13, s14, s15, s16, s17, s18, s19>>
      [] which = "LegacyBridges" -> (LegacyBridges!Heartbeat(1)) /\ UNCHANGED <<which, goal, s11, s12, s13, s14, s15, s16, s17, s18, s19>>
      [] which = "ConfigReload" -> (ConfigReload!Reload \/ ConfigReload!FailReload) /\ UNCHANGED <<which, goal, s17, s18, s19>>
      [] which = "WeightsGate" -> (WeightsGate!Live(1) /\ WeightsGate!Heartbeat(1, s3[1].model)) /\ UNCHANGED <<which, goal, s9, s10, s11, s12, s13, s14, s15, s16, s17, s18, s19>>
      [] which = "RelayRekey" -> (RelayRekey!SealInferenceRequest("q")) /\ UNCHANGED <<which, goal>>
      [] which = "SettlementVerdicts" -> (SettlementVerdicts!Poll) /\ UNCHANGED <<which, goal, s10, s11, s12, s13, s14, s15, s16, s17, s18, s19>>
      [] which = "TrustSessions" -> (TrustSessions!Sweep) /\ UNCHANGED <<which, goal, s9, s10, s11, s12, s13, s14, s15, s16, s17, s18, s19>>
      [] which = "CoordinatorLifecycle" -> (CoordinatorLifecycle!Start) /\ UNCHANGED <<which, goal, s17, s18, s19>>
      [] which = "RelaySession" -> (RelaySession!SendRequest("q1") \/ RelaySession!SendToClosed("q1")) /\ UNCHANGED <<which, goal, s15, s16, s17, s18, s19>>
      [] which = "SlotQueue" -> (SlotQueue!Work("r1")) /\ UNCHANGED <<which, goal, s12, s13, s14, s15, s16, s17, s18, s19>>
      [] which = "GatewayStream" -> (GatewayStream!Call \/ GatewayStream!CallFails) /\ UNCHANGED <<which, goal, s18, s19>>
      [] which = "ProviderConnect" -> (ProviderConnect!Step(1)) /\ UNCHANGED <<which, goal, s12, s13, s14, s15, s16, s17, s18, s19>>
      [] which = "BillingMigrate" -> (BillingMigrate!Migrate) /\ UNCHANGED <<which, goal, s7, s8, s9, s10, s11, s12, s13, s14, s15, s16, s17, s18, s19>>
      [] which = "ConnectionEvents" -> (ConnectionEvents!Dequeue) /\ UNCHANGED <<which, goal, s14, s15, s16, s17, s18, s19>>
      [] which = "AppTrackRegister" -> (AppTrackRegister!Step(1)) /\ UNCHANGED <<which, goal, s12, s13, s14, s15, s16, s17, s18, s19>>
      [] which = "PayoutFlags" -> (PayoutFlags!BootstrapRuntimeFlags) /\ UNCHANGED <<which, goal, s10, s11, s12, s13, s14, s15, s16, s17, s18, s19>>
      [] which = "PoolRegistry" -> (PoolRegistry!HandleDisconnect(1)) /\ UNCHANGED <<which, goal, s14, s15, s16, s17, s18, s19>>
      [] which = "TrustUnlock" -> (TrustUnlock!EvalStep) /\ UNCHANGED <<which, goal, s11, s12, s13, s14, s15, s16, s17, s18, s19>>
      [] which = "GatewayMigrate" -> (GatewayMigrate!Gate \/ GatewayMigrate!Migrate) /\ UNCHANGED <<which, goal, s6, s7, s8, s9, s10, s11, s12, s13, s14, s15, s16, s17, s18, s19>>
      [] which = "StatsMirror" -> (StatsMirror!RunStep(1)) /\ UNCHANGED <<which, goal, s7, s8, s9, s10, s11, s12, s13, s14, s15, s16, s17, s18, s19>>
      [] OTHER -> FALSE
Fair2 ==
    CASE which = "GatewaySettlement" -> (GatewaySettlement!Recovery) /\ UNCHANGED <<which, goal, s17, s18, s19>>
      [] which = "PayoutOutbox" -> (2 \in PayoutOutbox!Producers /\ PayoutOutbox!ProduceStaleOutboxRows(2)) /\ UNCHANGED <<which, goal, s9, s10, s11, s12, s13, s14, s15, s16, s17, s18, s19>>
      [] which = "LegacyBridges" -> (LegacyBridges!BridgeLive(1) /\ s4[1].closing /\ LegacyBridges!Leave(1)) /\ UNCHANGED <<which, goal, s11, s12, s13, s14, s15, s16, s17, s18, s19>>
      [] which = "WeightsGate" -> (WeightsGate!Judge(1)) /\ UNCHANGED <<which, goal, s9, s10, s11, s12, s13, s14, s15, s16, s17, s18, s19>>
      [] which = "RelayRekey" -> (RelayRekey!SealInferenceRequest("r")) /\ UNCHANGED <<which, goal>>
      [] which = "SettlementVerdicts" -> (\E a \in s1 : SettlementVerdicts!DeadlinePasses(a)) /\ UNCHANGED <<which, goal, s10, s11, s12, s13, s14, s15, s16, s17, s18, s19>>
      [] which = "CoordinatorLifecycle" -> (CoordinatorLifecycle!Stop) /\ UNCHANGED <<which, goal, s17, s18, s19>>
      [] which = "RelaySession" -> (RelaySession!CancelActive("q1")) /\ UNCHANGED <<which, goal, s15, s16, s17, s18, s19>>
      [] which = "SlotQueue" -> (SlotQueue!Work("r2")) /\ UNCHANGED <<which, goal, s12, s13, s14, s15, s16, s17, s18, s19>>
      [] which = "GatewayStream" -> (GatewayStream!Retry \/ GatewayStream!GiveUp) /\ UNCHANGED <<which, goal, s18, s19>>
      [] which = "ConnectionEvents" -> (ConnectionEvents!WorkerEnds) /\ UNCHANGED <<which, goal, s14, s15, s16, s17, s18, s19>>
      [] which = "AppTrackRegister" -> (AppTrackRegister!Ages) /\ UNCHANGED <<which, goal, s12, s13, s14, s15, s16, s17, s18, s19>>
      [] which = "PayoutFlags" -> (PayoutFlags!ReapOnce) /\ UNCHANGED <<which, goal, s10, s11, s12, s13, s14, s15, s16, s17, s18, s19>>
      [] which = "PoolRegistry" -> (PoolRegistry!GraceExpires(1)) /\ UNCHANGED <<which, goal, s14, s15, s16, s17, s18, s19>>
      [] which = "StatsMirror" -> (StatsMirror!RunStep(2)) /\ UNCHANGED <<which, goal, s7, s8, s9, s10, s11, s12, s13, s14, s15, s16, s17, s18, s19>>
      [] OTHER -> FALSE
Fair3 ==
    CASE which = "GatewaySettlement" -> (GatewaySettlement!ListHeld) /\ UNCHANGED <<which, goal, s17, s18, s19>>
      [] which = "PayoutOutbox" -> (PayoutOutbox!ReapStaleOutbox) /\ UNCHANGED <<which, goal, s9, s10, s11, s12, s13, s14, s15, s16, s17, s18, s19>>
      [] which = "LegacyBridges" -> (LegacyBridges!Schedule) /\ UNCHANGED <<which, goal, s11, s12, s13, s14, s15, s16, s17, s18, s19>>
      [] which = "WeightsGate" -> (WeightsGate!StoreCeiling(1)) /\ UNCHANGED <<which, goal, s9, s10, s11, s12, s13, s14, s15, s16, s17, s18, s19>>
      [] which = "RelayRekey" -> (RelayRekey!RekeySendRequest("q")) /\ UNCHANGED <<which, goal>>
      [] which = "SettlementVerdicts" -> (\E a \in s1 : SettlementVerdicts!RecoverCredit(a, TRUE)) /\ UNCHANGED <<which, goal, s10, s11, s12, s13, s14, s15, s16, s17, s18, s19>>
      [] which = "CoordinatorLifecycle" -> (CoordinatorLifecycle!LeaseGoesStale) /\ UNCHANGED <<which, goal, s17, s18, s19>>
      [] which = "RelaySession" -> (RelaySession!Take("q1")) /\ UNCHANGED <<which, goal, s15, s16, s17, s18, s19>>
      [] which = "GatewayStream" -> (GatewayStream!Cancelled) /\ UNCHANGED <<which, goal, s18, s19>>
      [] which = "ConnectionEvents" -> (\E w \in s8 : ConnectionEvents!Record(w)) /\ UNCHANGED <<which, goal, s14, s15, s16, s17, s18, s19>>
      [] which = "AppTrackRegister" -> (AppTrackRegister!ListPending) /\ UNCHANGED <<which, goal, s12, s13, s14, s15, s16, s17, s18, s19>>
      [] which = "PayoutFlags" -> (PayoutFlags!Lapse) /\ UNCHANGED <<which, goal, s10, s11, s12, s13, s14, s15, s16, s17, s18, s19>>
      [] OTHER -> FALSE
Fair4 ==
    CASE which = "GatewaySettlement" -> (GatewaySettlement!Reap) /\ UNCHANGED <<which, goal, s17, s18, s19>>
      [] which = "PayoutOutbox" -> (PayoutOutbox!Lapse) /\ UNCHANGED <<which, goal, s9, s10, s11, s12, s13, s14, s15, s16, s17, s18, s19>>
      [] which = "LegacyBridges" -> (LegacyBridges!ExpireAtOnce) /\ UNCHANGED <<which, goal, s11, s12, s13, s14, s15, s16, s17, s18, s19>>
      [] which = "WeightsGate" -> (WeightsGate!SweepReads(1, FALSE)) /\ UNCHANGED <<which, goal, s9, s10, s11, s12, s13, s14, s15, s16, s17, s18, s19>>
      [] which = "RelayRekey" -> (RelayRekey!RekeySendRequest("r")) /\ UNCHANGED <<which, goal>>
      [] which = "CoordinatorLifecycle" -> (CoordinatorLifecycle!RollupStops) /\ UNCHANGED <<which, goal, s17, s18, s19>>
      [] which = "RelaySession" -> (RelaySession!PassOn("q1")) /\ UNCHANGED <<which, goal, s15, s16, s17, s18, s19>>
      [] which = "GatewayStream" -> (GatewayStream!TimedOut) /\ UNCHANGED <<which, goal, s18, s19>>
      [] which = "AppTrackRegister" -> (AppTrackRegister!ResolvePending) /\ UNCHANGED <<which, goal, s12, s13, s14, s15, s16, s17, s18, s19>>
      [] OTHER -> FALSE
Fair5 ==
    CASE which = "GatewaySettlement" -> (GatewaySettlement!Visit(1)) /\ UNCHANGED <<which, goal, s17, s18, s19>>
      [] which = "LegacyBridges" -> (LegacyBridges!RefreshStatuses) /\ UNCHANGED <<which, goal, s11, s12, s13, s14, s15, s16, s17, s18, s19>>
      [] which = "WeightsGate" -> (WeightsGate!SweepStores) /\ UNCHANGED <<which, goal, s9, s10, s11, s12, s13, s14, s15, s16, s17, s18, s19>>
      [] which = "RelayRekey" -> (RelayRekey!RequestEnds("q")) /\ UNCHANGED <<which, goal>>
      [] which = "CoordinatorLifecycle" -> (s3 /\ CoordinatorLifecycle!WorkerCycles("runner")) /\ UNCHANGED <<which, goal, s17, s18, s19>>
      [] which = "RelaySession" -> (RelaySession!Finish("q1")) /\ UNCHANGED <<which, goal, s15, s16, s17, s18, s19>>
      [] which = "GatewayStream" -> (GatewayStream!IdleExpires) /\ UNCHANGED <<which, goal, s18, s19>>
      [] OTHER -> FALSE
Fair6 ==
    CASE which = "GatewaySettlement" -> (GatewaySettlement!ReconcileClamp(1)) /\ UNCHANGED <<which, goal, s17, s18, s19>>
      [] which = "LegacyBridges" -> (LegacyBridges!TimerFires) /\ UNCHANGED <<which, goal, s11, s12, s13, s14, s15, s16, s17, s18, s19>>
      [] which = "WeightsGate" -> (WeightsGate!ReloadPublishes) /\ UNCHANGED <<which, goal, s9, s10, s11, s12, s13, s14, s15, s16, s17, s18, s19>>
      [] which = "RelayRekey" -> (RelayRekey!RequestEnds("r")) /\ UNCHANGED <<which, goal>>
      [] which = "CoordinatorLifecycle" -> (s3 /\ CoordinatorLifecycle!WorkerCycles("poller")) /\ UNCHANGED <<which, goal, s17, s18, s19>>
      [] which = "RelaySession" -> (RelaySession!HandOver) /\ UNCHANGED <<which, goal, s15, s16, s17, s18, s19>>
      [] OTHER -> FALSE
Fair7 ==
    CASE which = "GatewaySettlement" -> (GatewaySettlement!CoordinatorCloses(1)) /\ UNCHANGED <<which, goal, s17, s18, s19>>
      [] which = "WeightsGate" -> (WeightsGate!ReloadEnds) /\ UNCHANGED <<which, goal, s9, s10, s11, s12, s13, s14, s15, s16, s17, s18, s19>>
      [] which = "RelayRekey" -> (s7.id # s12["q"] /\ RelayRekey!WaitEnds("q")) /\ UNCHANGED <<which, goal>>
      [] which = "CoordinatorLifecycle" -> (CoordinatorLifecycle!DrainWrites("swap")) /\ UNCHANGED <<which, goal, s17, s18, s19>>
      [] OTHER -> FALSE
Fair8 ==
    CASE which = "GatewaySettlement" -> (GatewaySettlement!TimePasses(1)) /\ UNCHANGED <<which, goal, s17, s18, s19>>
      [] which = "WeightsGate" -> (WeightsGate!ReloadJudges(1, FALSE)) /\ UNCHANGED <<which, goal, s9, s10, s11, s12, s13, s14, s15, s16, s17, s18, s19>>
      [] which = "RelayRekey" -> (s7.id # s12["r"] /\ RelayRekey!WaitEnds("r")) /\ UNCHANGED <<which, goal>>
      [] which = "CoordinatorLifecycle" -> (CoordinatorLifecycle!DrainEnds("swap")) /\ UNCHANGED <<which, goal, s17, s18, s19>>
      [] OTHER -> FALSE
Fair9 ==
    CASE which = "RelayRekey" -> (RelayRekey!ProbeEnds) /\ UNCHANGED <<which, goal>>
      [] which = "CoordinatorLifecycle" -> (s1 = "failed" /\ CoordinatorLifecycle!Restart) /\ UNCHANGED <<which, goal, s17, s18, s19>>
      [] OTHER -> FALSE
Fair10 ==
    CASE which = "RelayRekey" -> (RelayRekey!RunTier2Rekey) /\ UNCHANGED <<which, goal>>
      [] OTHER -> FALSE
Fair11 ==
    CASE which = "RelayRekey" -> (RelayRekey!RunnerEnds(1)) /\ UNCHANGED <<which, goal>>
      [] OTHER -> FALSE
StrongFair1 ==
    CASE which = "GatewaySettlement" -> (GatewaySettlement!Scan /\ s12'.todo = GatewaySettlement!Unsealed) /\ UNCHANGED <<which, goal, s17, s18, s19>>
      [] OTHER -> FALSE

Spec == Init /\ [][Next]_slots
    /\ WF_slots(Fair1)
    /\ WF_slots(Fair2)
    /\ WF_slots(Fair3)
    /\ WF_slots(Fair4)
    /\ WF_slots(Fair5)
    /\ WF_slots(Fair6)
    /\ WF_slots(Fair7)
    /\ WF_slots(Fair8)
    /\ WF_slots(Fair9)
    /\ WF_slots(Fair10)
    /\ WF_slots(Fair11)
    /\ SF_slots(StrongFair1)

-----------------------------------------------------------------------------
(* Work that was begun comes to its end, whatever it waits for and across     *)
(* crashes and failures: a dispatched inference ends however the provider's   *)
(* connection dies (RelaySession), a request leaves the slot queue with a     *)
(* slot or a refusal (SlotQueue), a stream that stalls is ended by the        *)
(* gateway (GatewayStream), a handshake ends (ProviderConnect), a request     *)
(* that waits for new keys goes on or fails (RelayRekey), a verdict that was  *)
(* asked for is closed (SettlementVerdicts), a start of the billing migration *)
(* ends (BillingMigrate), a file that was signalled is read (ConfigReload), a *)
(* flush of the event journal ends (ConnectionEvents), a pending referral     *)
(* mint is resolved (AppTrackRegister), a flip of the pause flag and a page   *)
(* of the outbox are claimed for the log (PayoutFlags, PayoutOutbox), a       *)
(* coordinator that failed to start starts in the end (CoordinatorLifecycle), *)
(* and an unsealed settlement effect is sealed or quarantined                 *)
(* (GatewaySettlement).                                                       *)
WorkIsCompleted ==
    (\/ which = "RelaySession" /\ RelaySession!DispatchedEndsFrom("q1")
     \/ which = "SlotQueue"
     \/ which = "GatewayStream"
     \/ which = "ProviderConnect" /\ ProviderConnect!HandshakeEndsFrom(1)
     \/ which = "RelayRekey" /\ RelayRekey!WaitersLeaveFrom("q")
     \/ which = "SettlementVerdicts" /\ SettlementVerdicts!AnswerClosesFrom
     \/ which = "BillingMigrate" /\ BillingMigrate!StartEndsFrom
     \/ which = "ConfigReload" /\ ConfigReload!SignalledFileIsReadFrom(goal)
     \/ which = "ConnectionEvents" /\ ConnectionEvents!FlushEndsFrom
     \/ which = "AppTrackRegister" /\ AppTrackRegister!PendingResolvesFrom
     \/ which = "PayoutFlags" /\ PayoutFlags!FlipsAreClaimedFrom(goal)
     \/ which = "PayoutOutbox" /\ PayoutOutbox!PagesAreClaimedFrom(goal)
     \/ which = "CoordinatorLifecycle" /\ CoordinatorLifecycle!StartsAgainFrom
     \/ which = "GatewaySettlement" /\ 1 \in GatewaySettlement!UnsealedKeys)
    ~> (\/ which = "RelaySession" /\ RelaySession!DispatchedEndsTo("q1")
        \/ which = "SlotQueue" /\ SlotQueue!EveryRequestLeavesTo("r1")
        \/ which = "GatewayStream" /\ GatewayStream!StreamEndsTo
        \/ which = "ProviderConnect" /\ ProviderConnect!HandshakeEndsTo(1)
        \/ which = "RelayRekey" /\ RelayRekey!WaitersLeaveTo("q")
        \/ which = "SettlementVerdicts" /\ SettlementVerdicts!AnswerClosesTo
        \/ which = "BillingMigrate" /\ BillingMigrate!StartEndsTo
        \/ which = "ConfigReload" /\ ConfigReload!SignalledFileIsReadTo(goal)
        \/ which = "ConnectionEvents" /\ ConnectionEvents!FlushEndsTo
        \/ which = "AppTrackRegister" /\ AppTrackRegister!PendingResolvesTo
        \/ which = "PayoutFlags" /\ PayoutFlags!FlipsAreClaimedTo(goal)
        \/ which = "PayoutOutbox" /\ PayoutOutbox!PagesAreClaimedTo(goal)
        \/ which = "CoordinatorLifecycle" /\ CoordinatorLifecycle!StartsAgainTo
        \/ which = "GatewaySettlement" /\ 1 \notin GatewaySettlement!UnsealedKeys)


(* Convergence: the gateway's migration ends (GatewayMigrate), the statistics *)
(* mirror agrees with billing (StatsMirror), and the set of providers that    *)
(* the weights gate excludes is the one its rows ask for (WeightsGate), from  *)
(* some point on.                                                             *)
Settles ==
    <>[](/\ which = "GatewayMigrate" => GatewayMigrate!MigrationEndsTo
         /\ which = "StatsMirror" => StatsMirror!MirrorCatchesUpTo
         /\ which = "WeightsGate" => WeightsGate!ExclusionSettlesTo)
=============================================================================
