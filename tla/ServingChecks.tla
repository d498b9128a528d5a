------------------------------ MODULE ServingChecks ------------------------------
(***************************************************************************)
(* The components between a buyer and a provider, each on a small          *)
(* instance: the gateway's requests, the buyer interfaces, routing,        *)
(* probes, the provider registry, connections, the relay, trust and what   *)
(* is logged of them. The components share no state, so a behaviour picks  *)
(* one of them and runs it; a variable of a component is the slot of the   *)
(* same place. Every conjunct of a property speaks of one component and    *)
(* names it.                                                               *)
(***************************************************************************)
EXTENDS TLC, Integers, Sequences

CONSTANT Blank   \* the value of what the running component does not use

VARIABLES
    which,   \* the component of this behaviour
    s1, s2, s3, s4, s5, s6, s7, s8, s9, s10, s11, s12, s13, s14, s15, s16, s17, s18, s19, s20, s21, s22, s23, s24, s25, s26   \* its variables, in the order of its module

slots == <<which, s1, s2, s3, s4, s5, s6, s7, s8, s9, s10, s11, s12, s13, s14, s15, s16, s17, s18, s19, s20, s21, s22, s23, s24, s25, s26>>

GatewayStream == INSTANCE GatewayRequests WITH
    MaxTok <- 2, MaxMeta <- 2, MaxTries <- 2, Slack <- 0, phase <- s1, try <- s2, prior <- s3,
    last <- s4, credited <- s5, buyer <- s6, cause <- s7, armed <- s8, idle <- s9,
    emitted <- s10, meta <- s11, reported <- s12, invalid <- s13, term <- s14,
    terminals <- s15, late <- s16, verdict <- s17, Attempts <- Blank, Fp <- Blank,
    MaxMappings <- Blank, MaxBodies <- Blank, MaxInFlight <- Blank, MaxWaiters <- Blank,
    entries <- Blank, ent <- Blank, dedupeSeen <- Blank, inFlight <- Blank, bodyCount <- Blank,
    at <- Blank, rid <- Blank, rows <- Blank, billed <- Blank, replayed <- Blank,
    lost <- Blank, Callers <- Blank, Limit <- Blank, MaxBuckets <- Blank, TTL <- Blank,
    PruneEvery <- Blank, MaxTime <- Blank, now <- Blank, bucket <- Blank, pruned <- Blank,
    passed <- Blank, evicted <- Blank

IdlessDedupe == INSTANCE GatewayRequests WITH
    Attempts <- {1, 2, 3, 4}, Fp <- <<"f", "f", "g", "h">>, MaxMappings <- 2, MaxBodies <- 1,
    MaxInFlight <- 2, MaxWaiters <- 1, entries <- s1, ent <- s2, dedupeSeen <- s3,
    inFlight <- s4, bodyCount <- s5, at <- s6, rid <- s7, rows <- s8, billed <- s9,
    replayed <- s10, lost <- s11, MaxTok <- Blank, MaxMeta <- Blank, MaxTries <- Blank,
    Slack <- Blank, phase <- Blank, try <- Blank, prior <- Blank, last <- Blank,
    credited <- Blank, buyer <- Blank, cause <- Blank, armed <- Blank, idle <- Blank,
    emitted <- Blank, meta <- Blank, reported <- Blank, invalid <- Blank, term <- Blank,
    terminals <- Blank, late <- Blank, verdict <- Blank, Callers <- Blank, Limit <- Blank,
    MaxBuckets <- Blank, TTL <- Blank, PruneEvery <- Blank, MaxTime <- Blank, now <- Blank,
    bucket <- Blank, pruned <- Blank, passed <- Blank, evicted <- Blank

RateLimiter == INSTANCE GatewayRequests WITH
    Callers <- {1, 2}, Limit <- 2, MaxBuckets <- 1, TTL <- 2, PruneEvery <- 1, MaxTime <- 3,
    now <- s1, bucket <- s2, pruned <- s3, passed <- s4, evicted <- s5, MaxTok <- Blank,
    MaxMeta <- Blank, MaxTries <- Blank, Slack <- Blank, phase <- Blank, try <- Blank,
    prior <- Blank, last <- Blank, credited <- Blank, buyer <- Blank, cause <- Blank,
    armed <- Blank, idle <- Blank, emitted <- Blank, meta <- Blank, reported <- Blank,
    invalid <- Blank, term <- Blank, terminals <- Blank, late <- Blank, verdict <- Blank,
    Attempts <- Blank, Fp <- Blank, MaxMappings <- Blank, MaxBodies <- Blank,
    MaxInFlight <- Blank, MaxWaiters <- Blank, entries <- Blank, ent <- Blank,
    dedupeSeen <- Blank, inFlight <- Blank, bodyCount <- Blank, at <- Blank, rid <- Blank,
    rows <- Blank, billed <- Blank, replayed <- Blank, lost <- Blank

GatewayCapacity == INSTANCE GatewayAdmin WITH
    Operators <- {"o"}, Monitors <- {"m"}, MaxVersion <- 2, MaxRestarts <- 1, db <- s1,
    mem <- s2, tier <- s3, firing <- s4, op <- s5, mon <- s6, alone <- s7, restarts <- s8,
    Flows <- Blank, Who <- Blank, Ips <- Blank, StateCap <- Blank, SignupCap <- Blank,
    Keys <- Blank, ip <- Blank, state <- Blank, mint <- Blank, step <- Blank, issued <- Blank,
    accounts <- Blank, identity <- Blank, key <- Blank, mine <- Blank, handoff <- Blank,
    shown <- Blank, rot <- Blank, MaxCrashes <- Blank, from <- Blank, migrateDb <- Blank,
    pc <- Blank, up <- Blank, crashes <- Blank

GatewayAccounts == INSTANCE GatewayAdmin WITH
    Flows <- {"f1", "f2"}, Who <- [f \in {"f1", "f2"} |-> "g"],
    Ips <- {[f \in {"f1", "f2"} |-> "i"], [f \in {"f1", "f2"} |-> f]}, StateCap <- 1,
    SignupCap <- 1, Keys <- {"k", "l"}, ip <- s1, state <- s2, mint <- s3, step <- s4,
    issued <- s5, accounts <- s6, identity <- s7, key <- s8, mine <- s9, handoff <- s10,
    shown <- s11, rot <- s12, Operators <- Blank, Monitors <- Blank, MaxVersion <- Blank,
    MaxRestarts <- Blank, db <- Blank, mem <- Blank, tier <- Blank, firing <- Blank,
    op <- Blank, mon <- Blank, alone <- Blank, restarts <- Blank, MaxCrashes <- Blank,
    from <- Blank, migrateDb <- Blank, pc <- Blank, up <- Blank, crashes <- Blank

GatewayMigrate == INSTANCE GatewayAdmin WITH
    MaxCrashes <- 2, from <- s1, migrateDb <- s2, pc <- s3, up <- s4, crashes <- s5,
    Operators <- Blank, Monitors <- Blank, MaxVersion <- Blank, MaxRestarts <- Blank,
    db <- Blank, mem <- Blank, tier <- Blank, firing <- Blank, op <- Blank, mon <- Blank,
    alone <- Blank, restarts <- Blank, Flows <- Blank, Who <- Blank, Ips <- Blank,
    StateCap <- Blank, SignupCap <- Blank, Keys <- Blank, ip <- Blank, state <- Blank,
    mint <- Blank, step <- Blank, issued <- Blank, accounts <- Blank, identity <- Blank,
    key <- Blank, mine <- Blank, handoff <- Blank, shown <- Blank, rot <- Blank

ResponsesAdapter == INSTANCE ApiFormats WITH
    ToolIndexes <- {1, 2}, MaxChunks <- 3, Names <- {"f"}, req <- s1, chat <- s2, status <- s3,
    sent <- s4, msg <- s5, tool <- s6, held <- s7, reason <- s8, terminal <- s9, werr <- s10,
    capture <- s11, feed <- s12, finished <- s13, Ids <- Blank, MaxMessages <- Blank,
    MaxCalls <- Blank, MaxArgBytes <- Blank, MaxResultBytes <- Blank, MaxDepth <- Blank,
    MaxLen <- Blank, input <- Blank, result <- Blank, Indexes <- Blank, MaxEvents <- Blank,
    MaxArgs <- Blank, MaxTotal <- Blank, ToolMaxDepth <- Blank, seen <- Blank,
    committed <- Blank, opened <- Blank, args <- Blank, total <- Blank, toolFinished <- Blank,
    done <- Blank, verdict <- Blank, ThinkMaxLen <- Blank, text <- Blank, fed <- Blank,
    pending <- Blank, inBlock <- Blank, shown <- Blank

ChatRequest == INSTANCE ApiFormats WITH
    Ids <- {"i", "j"}, MaxMessages <- 4, MaxCalls <- 3, MaxArgBytes <- 3, MaxResultBytes <- 3,
    MaxDepth <- 2, MaxLen <- 4, input <- s1, result <- s2, ToolIndexes <- Blank,
    MaxChunks <- Blank, Names <- Blank, req <- Blank, chat <- Blank, status <- Blank,
    sent <- Blank, msg <- Blank, tool <- Blank, held <- Blank, reason <- Blank,
    terminal <- Blank, werr <- Blank, capture <- Blank, feed <- Blank, finished <- Blank,
    Indexes <- Blank, MaxEvents <- Blank, MaxArgs <- Blank, MaxTotal <- Blank,
    ToolMaxDepth <- Blank, seen <- Blank, committed <- Blank, opened <- Blank, args <- Blank,
    total <- Blank, toolFinished <- Blank, done <- Blank, verdict <- Blank,
    ThinkMaxLen <- Blank, text <- Blank, fed <- Blank, pending <- Blank, inBlock <- Blank,
    shown <- Blank

ToolCallStream == INSTANCE ApiFormats WITH
    Indexes <- {0, 1}, MaxEvents <- 4, MaxArgs <- 2, MaxTotal <- 3, ToolMaxDepth <- 1,
    seen <- s1, committed <- s2, opened <- s3, args <- s4, total <- s5, toolFinished <- s6,
    done <- s7, verdict <- s8, ToolIndexes <- Blank, MaxChunks <- Blank, Names <- Blank,
    req <- Blank, chat <- Blank, status <- Blank, sent <- Blank, msg <- Blank, tool <- Blank,
    held <- Blank, reason <- Blank, terminal <- Blank, werr <- Blank, capture <- Blank,
    feed <- Blank, finished <- Blank, Ids <- Blank, MaxMessages <- Blank, MaxCalls <- Blank,
    MaxArgBytes <- Blank, MaxResultBytes <- Blank, MaxDepth <- Blank, MaxLen <- Blank,
    input <- Blank, result <- Blank, ThinkMaxLen <- Blank, text <- Blank, fed <- Blank,
    pending <- Blank, inBlock <- Blank, shown <- Blank

ThinkFilter == INSTANCE ApiFormats WITH
    ThinkMaxLen <- 5, text <- s1, fed <- s2, pending <- s3, inBlock <- s4, shown <- s5,
    ToolIndexes <- Blank, MaxChunks <- Blank, Names <- Blank, req <- Blank, chat <- Blank,
    status <- Blank, sent <- Blank, msg <- Blank, tool <- Blank, held <- Blank,
    reason <- Blank, terminal <- Blank, werr <- Blank, capture <- Blank, feed <- Blank,
    finished <- Blank, Ids <- Blank, MaxMessages <- Blank, MaxCalls <- Blank,
    MaxArgBytes <- Blank, MaxResultBytes <- Blank, MaxDepth <- Blank, MaxLen <- Blank,
    input <- Blank, result <- Blank, Indexes <- Blank, MaxEvents <- Blank, MaxArgs <- Blank,
    MaxTotal <- Blank, ToolMaxDepth <- Blank, seen <- Blank, committed <- Blank,
    opened <- Blank, args <- Blank, total <- Blank, toolFinished <- Blank, done <- Blank,
    verdict <- Blank

BuyerForward == INSTANCE BuyerForward WITH
    Providers <- {"p1", "p2"}, Provisional <- {"p1"}, MaxRetries <- 1, MaxFaulted <- 2,
    MaxLogFaults <- 1, MaxReady <- 1, req <- s1, kind <- s2, pc <- s3, seq <- s4, prov <- s5,
    excluded <- s6, faulted <- s7, retries <- s8, faultedN <- s9, failedOver <- s10,
    busy <- s11, readied <- s12, out <- s13, sent <- s14, claim <- s15, late <- s16,
    marked <- s17, gone <- s18, tried <- s19, replayed <- s20, nowOut <- s21, credited <- s22,
    rows <- s23, attemptN <- s24, logFaults <- s25, quota <- s26

SlotQueue == INSTANCE Routing WITH
    Requests <- {"r1", "r2", "r3"}, Providers <- {"p1", "p2"}, MaxPending <- 2, Slots <- 1,
    MaxReports <- 1, free <- s1, reports <- s2, queue <- s3, reserved <- s4, at <- s5,
    prov <- s6, seen <- s7, cands <- s8, excluded <- s9, holds <- s10, again <- s11,
    SelectProviders <- Blank, pool <- Blank, rank <- Blank, req <- Blank, order <- Blank,
    result <- Blank, Keys <- Blank, Accounts <- Blank, StickyProviders <- Blank,
    Scopes <- Blank, TTL <- Blank, MaxEntries <- Blank, Window <- Blank, MaxLimited <- Blank,
    MaxTime <- Blank, entries <- Blank, limited <- Blank, now <- Blank, stale <- Blank

ProviderSelection == INSTANCE Routing WITH
    SelectProviders <- {"p1", "p2"}, pool <- s1, rank <- s2, req <- s3, order <- s4,
    result <- s5, Requests <- Blank, Providers <- Blank, MaxPending <- Blank, Slots <- Blank,
    MaxReports <- Blank, free <- Blank, reports <- Blank, queue <- Blank, reserved <- Blank,
    at <- Blank, prov <- Blank, seen <- Blank, cands <- Blank, excluded <- Blank,
    holds <- Blank, again <- Blank, Keys <- Blank, Accounts <- Blank, StickyProviders <- Blank,
    Scopes <- Blank, TTL <- Blank, MaxEntries <- Blank, Window <- Blank, MaxLimited <- Blank,
    MaxTime <- Blank, entries <- Blank, limited <- Blank, now <- Blank, stale <- Blank

StickyRouting == INSTANCE Routing WITH
    Keys <- {1, 2, 3}, Accounts <- {"a", "b"}, StickyProviders <- {"p"}, Scopes <- {"m"},
    TTL <- 1, MaxEntries <- 2, Window <- 1, MaxLimited <- 1, MaxTime <- 2, entries <- s1,
    limited <- s2, now <- s3, stale <- s4, Requests <- Blank, Providers <- Blank,
    MaxPending <- Blank, Slots <- Blank, MaxReports <- Blank, free <- Blank, reports <- Blank,
    queue <- Blank, reserved <- Blank, at <- Blank, prov <- Blank, seen <- Blank,
    cands <- Blank, excluded <- Blank, holds <- Blank, again <- Blank,
    SelectProviders <- Blank, pool <- Blank, rank <- Blank, req <- Blank, order <- Blank,
    result <- Blank

CanaryCorrelation == INSTANCE ProviderProbes WITH
    Providers <- {"p1", "p2"}, Threshold <- 1, MaxProbes <- 2, MaxRecoveries <- 1,
    MaxSession <- 1, sid <- s1, fails <- s2, hold <- s3, durable <- s4, epoch <- s5,
    live <- s6, gen <- s7, shared <- s8, probe <- s9, work <- s10, checked <- s11,
    writer <- s12, probes <- s13, recoveries <- s14, Profiles <- Blank, Timeout <- Blank,
    Day <- Blank, AbuseMax <- Blank, RepeatMax <- Blank, LossMaxProbes <- Blank,
    MaxTime <- Blank, now <- Blank, cursor <- Blank, ready <- Blank, pending <- Blank,
    nonces <- Blank, issued <- Blank, flying <- Blank, record <- Blank, applied <- Blank,
    history <- Blank, Vocab <- Blank, Mass <- Blank, SmallK <- Blank, LargeK <- Blank,
    TailRetry <- Blank, TailMax <- Blank, WarnUpper <- Blank, WarnMedian <- Blank,
    QuarAny <- Blank, QuarMedian <- Blank, MaxPositions <- Blank, truth <- Blank, k <- Blank,
    report <- Blank, verdictReason <- Blank

LosslessnessProbe == INSTANCE ProviderProbes WITH
    Profiles <- 1, Timeout <- 1, Day <- 1, AbuseMax <- 1, RepeatMax <- 1, LossMaxProbes <- 2,
    MaxTime <- 2, now <- s1, cursor <- s2, ready <- s3, pending <- s4, nonces <- s5,
    issued <- s6, flying <- s7, record <- s8, applied <- s9, history <- s10,
    Providers <- Blank, Threshold <- Blank, MaxProbes <- Blank, MaxRecoveries <- Blank,
    MaxSession <- Blank, sid <- Blank, fails <- Blank, hold <- Blank, durable <- Blank,
    epoch <- Blank, live <- Blank, gen <- Blank, shared <- Blank, probe <- Blank,
    work <- Blank, checked <- Blank, writer <- Blank, probes <- Blank, recoveries <- Blank,
    Vocab <- Blank, Mass <- Blank, SmallK <- Blank, LargeK <- Blank, TailRetry <- Blank,
    TailMax <- Blank, WarnUpper <- Blank, WarnMedian <- Blank, QuarAny <- Blank,
    QuarMedian <- Blank, MaxPositions <- Blank, truth <- Blank, k <- Blank, report <- Blank,
    verdictReason <- Blank

LosslessnessVerdict == INSTANCE ProviderProbes WITH
    Vocab <- 3, Mass <- 2, SmallK <- 1, LargeK <- 2, TailRetry <- 1, TailMax <- 1,
    WarnUpper <- 1, WarnMedian <- 1, QuarAny <- 3, QuarMedian <- 2, MaxPositions <- 2,
    truth <- s1, k <- s2, report <- s3, verdictReason <- s4, Providers <- Blank,
    Threshold <- Blank, MaxProbes <- Blank, MaxRecoveries <- Blank, MaxSession <- Blank,
    sid <- Blank, fails <- Blank, hold <- Blank, durable <- Blank, epoch <- Blank,
    live <- Blank, gen <- Blank, shared <- Blank, probe <- Blank, work <- Blank,
    checked <- Blank, writer <- Blank, probes <- Blank, recoveries <- Blank, Profiles <- Blank,
    Timeout <- Blank, Day <- Blank, AbuseMax <- Blank, RepeatMax <- Blank,
    LossMaxProbes <- Blank, MaxTime <- Blank, now <- Blank, cursor <- Blank, ready <- Blank,
    pending <- Blank, nonces <- Blank, issued <- Blank, flying <- Blank, record <- Blank,
    applied <- Blank, history <- Blank

PoolRegistry == INSTANCE PoolRegistry WITH
    Sessions <- {1, 2}, WarmupGate <- TRUE, Threshold <- 1, MaxEvents <- 1, entry <- s1,
    hold <- s2, faults <- s3, recovered <- s4, sanction <- s5, conn <- s6, gate <- s7,
    warming <- s8, wake <- s9, probing <- s10, grace <- s11, events <- s12, retripped <- s13,
    Ceiling <- Blank, cap <- Blank, used <- Blank, Providers <- Blank, Models <- Blank,
    MaxPerProvider <- Blank, MaxContrib <- Blank, MaxLifetime <- Blank, MaxLoads <- Blank,
    telemetryEntry <- Blank, seen <- Blank, lifetime <- Blank, contrib <- Blank,
    loads <- Blank, swaps <- Blank, Keys <- Blank, Grace <- Blank, MaxTime <- Blank,
    key <- Blank, pending <- Blank, prev <- Blank, present <- Blank, now <- Blank,
    rotated <- Blank

CapacityClamp == INSTANCE PoolRegistry WITH
    Ceiling <- 4, cap <- s1, used <- s2, Sessions <- Blank, WarmupGate <- Blank,
    Threshold <- Blank, MaxEvents <- Blank, entry <- Blank, hold <- Blank, faults <- Blank,
    recovered <- Blank, sanction <- Blank, conn <- Blank, gate <- Blank, warming <- Blank,
    wake <- Blank, probing <- Blank, grace <- Blank, events <- Blank, retripped <- Blank,
    Providers <- Blank, Models <- Blank, MaxPerProvider <- Blank, MaxContrib <- Blank,
    MaxLifetime <- Blank, MaxLoads <- Blank, telemetryEntry <- Blank, seen <- Blank,
    lifetime <- Blank, contrib <- Blank, loads <- Blank, swaps <- Blank, Keys <- Blank,
    Grace <- Blank, MaxTime <- Blank, key <- Blank, pending <- Blank, prev <- Blank,
    present <- Blank, now <- Blank, rotated <- Blank

ProviderTelemetry == INSTANCE PoolRegistry WITH
    Providers <- {"p", "q"}, Models <- {"a", "b"}, MaxPerProvider <- 1, MaxContrib <- 1,
    MaxLifetime <- 2, MaxLoads <- 1, telemetryEntry <- s1, seen <- s2, lifetime <- s3,
    contrib <- s4, loads <- s5, swaps <- s6, Sessions <- Blank, WarmupGate <- Blank,
    Threshold <- Blank, MaxEvents <- Blank, entry <- Blank, hold <- Blank, faults <- Blank,
    recovered <- Blank, sanction <- Blank, conn <- Blank, gate <- Blank, warming <- Blank,
    wake <- Blank, probing <- Blank, grace <- Blank, events <- Blank, retripped <- Blank,
    Ceiling <- Blank, cap <- Blank, used <- Blank, Keys <- Blank, Grace <- Blank,
    MaxTime <- Blank, key <- Blank, pending <- Blank, prev <- Blank, present <- Blank,
    now <- Blank, rotated <- Blank

ReceiptKeys == INSTANCE PoolRegistry WITH
    Keys <- {"k1", "k2", "k3"}, Grace <- 2, MaxTime <- 4, key <- s1, pending <- s2, prev <- s3,
    present <- s4, now <- s5, rotated <- s6, Sessions <- Blank, WarmupGate <- Blank,
    Threshold <- Blank, MaxEvents <- Blank, entry <- Blank, hold <- Blank, faults <- Blank,
    recovered <- Blank, sanction <- Blank, conn <- Blank, gate <- Blank, warming <- Blank,
    wake <- Blank, probing <- Blank, grace <- Blank, events <- Blank, retripped <- Blank,
    Ceiling <- Blank, cap <- Blank, used <- Blank, Providers <- Blank, Models <- Blank,
    MaxPerProvider <- Blank, MaxContrib <- Blank, MaxLifetime <- Blank, MaxLoads <- Blank,
    telemetryEntry <- Blank, seen <- Blank, lifetime <- Blank, contrib <- Blank,
    loads <- Blank, swaps <- Blank

ProviderConnect == INSTANCE ProviderConnect WITH
    Conns <- {1, 2}, Prov <- <<"p", "p">>, Ip <- <<"i", "i">>, Pinned <- {}, PerIpMax <- 2,
    UnauthMax <- 2, AttemptMax <- 1, PoolMax <- 2, MaxRevoked <- 2, pc <- s1, loc <- s2,
    perIp <- s3, unauth <- s4, attempts <- s5, pending <- s6, token <- s7, gens <- s8,
    rejected <- s9, pool <- s10, revoked <- s11, Sessions <- Blank, CatalogUntil <- Blank,
    Configs <- Blank, MaxTime <- Blank, MaxReloads <- Blank, MaxHellos <- Blank, now <- Blank,
    cfg <- Blank, pass <- Blank, entry <- Blank, hello <- Blank, reload <- Blank, gen <- Blank,
    timer <- Blank, calls <- Blank, used <- Blank, None <- Blank

BridgeConfigs ==
    {[active |-> TRUE, until |-> 0], [active |-> TRUE, until |-> 1],
     [active |-> TRUE, until |-> 2], [active |-> FALSE, until |-> 0]}
LegacyBridges == INSTANCE ProviderConnect WITH
    Sessions <- {1}, CatalogUntil <- 1, Configs <- BridgeConfigs, MaxTime <- 2,
    MaxReloads <- 1, MaxHellos <- 1, now <- s1, cfg <- s2, pass <- s3, entry <- s4,
    hello <- s5, reload <- s6, gen <- s7, timer <- s8, calls <- s9, used <- s10,
    Conns <- Blank, Prov <- Blank, Ip <- Blank, Pinned <- Blank, PerIpMax <- Blank,
    UnauthMax <- Blank, AttemptMax <- Blank, PoolMax <- Blank, MaxRevoked <- Blank,
    pc <- Blank, loc <- Blank, perIp <- Blank, unauth <- Blank, attempts <- Blank,
    pending <- Blank, token <- Blank, gens <- Blank, rejected <- Blank, pool <- Blank,
    revoked <- Blank, None <- Blank

RelaySession == INSTANCE ProviderRelay WITH
    Requests <- {"q1", "q2"}, MaxConcurrency <- 2, WriteBuffer <- 1, ChunkBuffer <- 1,
    ByteLimit <- 2, MaxChunks <- 2, open <- s1, httpOnly <- s2, active <- s3, pc <- s4,
    chan <- s5, done <- s6, errs <- s7, bytes <- s8, held <- s9, queue <- s10, reader <- s11,
    sent <- s12, outcome <- s13, panicked <- s14, RekeyRequests <- Blank, Threshold <- Blank,
    WaiterLimit <- Blank, RekeyWriteBuffer <- Blank, MaxRekeys <- Blank, MaxFrames <- Blank,
    rekeyOpen <- Blank, rekeyActive <- Blank, key <- Blank, poolKey <- Blank, c2p <- Blank,
    used <- Blank, rekey <- Blank, made <- Blank, failed <- Blank, runner <- Blank,
    rekeyPc <- Blank, waits <- Blank, frame <- Blank, probe <- Blank, rekeyQueue <- Blank,
    answers <- Blank, prov <- Blank, sealed <- Blank, faults <- Blank, Window <- Blank,
    Top <- Blank, probes <- Blank, windowOpen <- Blank, counter <- Blank, seen <- Blank,
    next <- Blank, flying <- Blank, taken <- Blank, missed <- Blank

RelayRekey == INSTANCE ProviderRelay WITH
    RekeyRequests <- {"q", "r"}, Threshold <- 1, WaiterLimit <- 1, RekeyWriteBuffer <- 1,
    MaxRekeys <- 1, MaxFrames <- 2, rekeyOpen <- s1, rekeyActive <- s2, key <- s3,
    poolKey <- s4, c2p <- s5, used <- s6, rekey <- s7, made <- s8, failed <- s9, runner <- s10,
    rekeyPc <- s11, waits <- s12, frame <- s13, probe <- s14, rekeyQueue <- s15,
    answers <- s16, prov <- s17, sealed <- s18, faults <- s19, Requests <- Blank,
    MaxConcurrency <- Blank, WriteBuffer <- Blank, ChunkBuffer <- Blank, ByteLimit <- Blank,
    MaxChunks <- Blank, open <- Blank, httpOnly <- Blank, active <- Blank, pc <- Blank,
    chan <- Blank, done <- Blank, errs <- Blank, bytes <- Blank, held <- Blank, queue <- Blank,
    reader <- Blank, sent <- Blank, outcome <- Blank, panicked <- Blank, Window <- Blank,
    Top <- Blank, probes <- Blank, windowOpen <- Blank, counter <- Blank, seen <- Blank,
    next <- Blank, flying <- Blank, taken <- Blank, missed <- Blank

AeadWindow == INSTANCE ProviderRelay WITH
    Window <- 2, Top <- 5, probes <- s1, windowOpen <- s2, counter <- s3, seen <- s4,
    next <- s5, flying <- s6, taken <- s7, missed <- s8, Requests <- Blank,
    MaxConcurrency <- Blank, WriteBuffer <- Blank, ChunkBuffer <- Blank, ByteLimit <- Blank,
    MaxChunks <- Blank, open <- Blank, httpOnly <- Blank, active <- Blank, pc <- Blank,
    chan <- Blank, done <- Blank, errs <- Blank, bytes <- Blank, held <- Blank, queue <- Blank,
    reader <- Blank, sent <- Blank, outcome <- Blank, panicked <- Blank,
    RekeyRequests <- Blank, Threshold <- Blank, WaiterLimit <- Blank,
    RekeyWriteBuffer <- Blank, MaxRekeys <- Blank, MaxFrames <- Blank, rekeyOpen <- Blank,
    rekeyActive <- Blank, key <- Blank, poolKey <- Blank, c2p <- Blank, used <- Blank,
    rekey <- Blank, made <- Blank, failed <- Blank, runner <- Blank, rekeyPc <- Blank,
    waits <- Blank, frame <- Blank, probe <- Blank, rekeyQueue <- Blank, answers <- Blank,
    prov <- Blank, sealed <- Blank, faults <- Blank

WeightsRows == [current |-> (1 :> "x" @@ 2 :> "y"), previous |-> (1 :> "x" @@ 2 :> "w")]
WeightsReports ==
    {[hw |-> "a", benchmarks |-> {[model |-> m, row |-> IF m = 1 THEN "x" ELSE "y"] : m \in ms}] :
        ms \in {{1}, {1, 2}}}
WeightsGate == INSTANCE WeightsGate WITH
    Sessions <- {1}, Models <- {1, 2}, Rows <- WeightsRows, Reports <- WeightsReports,
    MaxReloads <- 2, MaxReports <- 1, MaxSwitches <- 1, MaxFails <- 1, MaxHellos <- 1,
    gate <- s1, evidence <- s2, entry <- s3, hello <- s4, beat <- s5, reload <- s6,
    sweep <- s7, used <- s8, None <- Blank

HardwareTrust == INSTANCE HardwareTrust WITH
    Hashes <- {"a", "b"}, Operators <- {"x", "y"}, MaxJobs <- 1, MaxGrants <- 1, MaxSyncs <- 1,
    jobs <- s1, roots <- s2, chip <- s3, profile <- s4, asked <- s5, verifier <- s6,
    sync <- s7, grants <- s8, syncs <- s9, lapsed <- s10, SessionHashes <- Blank,
    Threshold <- Blank, MaxSessions <- Blank, MaxRootChanges <- Blank, trusted <- Blank,
    gate <- Blank, sess <- Blank, sweep <- Blank, failures <- Blank, degraded <- Blank,
    opened <- Blank, changed <- Blank

TrustSessions == INSTANCE HardwareTrust WITH
    SessionHashes <- {"a", "b"}, Threshold <- 3, MaxSessions <- 2, MaxRootChanges <- 3,
    trusted <- s1, gate <- s2, sess <- s3, sweep <- s4, failures <- s5, degraded <- s6,
    opened <- s7, changed <- s8, Hashes <- Blank, Operators <- Blank, MaxJobs <- Blank,
    MaxGrants <- Blank, MaxSyncs <- Blank, jobs <- Blank, roots <- Blank, chip <- Blank,
    profile <- Blank, asked <- Blank, verifier <- Blank, sync <- Blank, grants <- Blank,
    syncs <- Blank, lapsed <- Blank

ConnectionEvents == INSTANCE ProviderEvents WITH
    Conns <- {1, 3}, Claimed <- (1 :> "p") @@ (3 :> "q"), Validated <- {1}, QueueSize <- 1,
    ProviderCap <- 1, AnonymousCap <- 1, GlobalCap <- 1, PerMinute <- 1, MaxFails <- 1,
    conn <- s1, serial <- s2, pend <- s3, queue <- s4, stopped <- s5, panicked <- s6,
    done <- s7, writers <- s8, rows <- s9, recorded <- s10, anon <- s11, fails <- s12,
    unbounded <- s13, Providers <- Blank, LastQueueSize <- Blank, Cap <- Blank,
    PageSize <- Blank, MaxTime <- Blank, MaxFrames <- Blank, MaxPages <- Blank, live <- Blank,
    lastQueue <- Blank, recent <- Blank, known <- Blank, clock <- Blank, frames <- Blank,
    page <- Blank, evicted <- Blank

LastKnown == INSTANCE ProviderEvents WITH
    Providers <- {1, 2}, LastQueueSize <- 1, Cap <- 1, PageSize <- 1, MaxTime <- 2,
    MaxFrames <- 3, MaxPages <- 1, live <- s1, lastQueue <- s2, recent <- s3, known <- s4,
    clock <- s5, frames <- s6, page <- s7, evicted <- s8, Conns <- Blank, Claimed <- Blank,
    Validated <- Blank, QueueSize <- Blank, ProviderCap <- Blank, AnonymousCap <- Blank,
    GlobalCap <- Blank, PerMinute <- Blank, MaxFails <- Blank, conn <- Blank, serial <- Blank,
    pend <- Blank, queue <- Blank, stopped <- Blank, panicked <- Blank, done <- Blank,
    writers <- Blank, rows <- Blank, recorded <- Blank, anon <- Blank, fails <- Blank,
    unbounded <- Blank

LogRow(i, q, a, k) == [id |-> i, req |-> q, acct |-> a, n |-> k, prov |-> TRUE, old |-> FALSE]
KeyRow(a, q, t) == [acct |-> a, key |-> "k", body |-> "x", req |-> q, at |-> t, old |-> FALSE]
LogWorlds ==
    {[log |-> {}, keys |-> {}, new |-> TRUE],
     [log |-> {LogRow(1, 8, "a", Blank), LogRow(2, 8, "a", Blank)}, keys |-> {KeyRow("", 8, 0)}, new |-> FALSE],
     [log |-> {LogRow(1, 9, Blank, Blank), LogRow(2, 9, "a", 0), LogRow(3, 9, "a", Blank)},
      keys |-> {[KeyRow("a", 9, 0) EXCEPT !.body = "y"]}, new |-> TRUE]}
RequestLog == INSTANCE RequestLog WITH
    Calls <- {1, 2}, Acct <- <<"a", "a">>, Key <- <<"k", "k">>, Body <- <<"x", "x">>,
    Worlds <- LogWorlds, MaxTries <- 1, MaxCrashes <- 1, missing <- s1, scoped <- s2, up <- s3,
    log <- s4, keys <- s5, call <- s6, credits <- s7, pruning <- s8, cut <- s9, crashes <- s10,
    None <- Blank

BootstrapTokens == INSTANCE ProviderAccounts WITH
    Providers <- {"p", "q"}, Keys <- {"k", "l"}, Limit <- 2, OutstandingMax <- 1,
    UnconfirmedMax <- 1, TTL <- 1, Retention <- 2, Hour <- 1, MaxTokens <- 3, MaxTime <- 2,
    tokens <- s1, ids <- s2, log <- s3, reissues <- s4, now <- s5, ordinary <- s6,
    Handlers <- Blank, Users <- Blank, PairProviders <- Blank, StateMax <- Blank,
    MaxOTs <- Blank, MaxSessions <- Blank, states <- Blank, sess <- Blank, ots <- Blank,
    owner <- Blank, pc <- Blank, ctx <- Blank, claims <- Blank

PairOwnership == INSTANCE ProviderAccounts WITH
    Handlers <- {1, 2}, Users <- {"u", "v"}, PairProviders <- {"p"}, StateMax <- 1,
    MaxOTs <- 2, MaxSessions <- 2, states <- s1, sess <- s2, ots <- s3, owner <- s4, pc <- s5,
    ctx <- s6, claims <- s7, Providers <- Blank, Keys <- Blank, Limit <- Blank,
    OutstandingMax <- Blank, UnconfirmedMax <- Blank, TTL <- Blank, Retention <- Blank,
    Hour <- Blank, MaxTokens <- Blank, MaxTime <- Blank, tokens <- Blank, ids <- Blank,
    log <- Blank, reissues <- Blank, now <- Blank, ordinary <- Blank

Init ==
    \/ which = "GatewayStream" /\ GatewayStream!Init /\ s18 = Blank /\ s19 = Blank /\ s20 = Blank /\ s21 = Blank /\ s22 = Blank /\ s23 = Blank /\ s24 = Blank /\ s25 = Blank /\ s26 = Blank
    \/ which = "IdlessDedupe" /\ IdlessDedupe!DedupeInit /\ s12 = Blank /\ s13 = Blank /\ s14 = Blank /\ s15 = Blank /\ s16 = Blank /\ s17 = Blank /\ s18 = Blank /\ s19 = Blank /\ s20 = Blank /\ s21 = Blank /\ s22 = Blank /\ s23 = Blank /\ s24 = Blank /\ s25 = Blank /\ s26 = Blank
    \/ which = "RateLimiter" /\ RateLimiter!RateInit /\ s6 = Blank /\ s7 = Blank /\ s8 = Blank /\ s9 = Blank /\ s10 = Blank /\ s11 = Blank /\ s12 = Blank /\ s13 = Blank /\ s14 = Blank /\ s15 = Blank /\ s16 = Blank /\ s17 = Blank /\ s18 = Blank /\ s19 = Blank /\ s20 = Blank /\ s21 = Blank /\ s22 = Blank /\ s23 = Blank /\ s24 = Blank /\ s25 = Blank /\ s26 = Blank
    \/ which = "GatewayCapacity" /\ GatewayCapacity!Init /\ s9 = Blank /\ s10 = Blank /\ s11 = Blank /\ s12 = Blank /\ s13 = Blank /\ s14 = Blank /\ s15 = Blank /\ s16 = Blank /\ s17 = Blank /\ s18 = Blank /\ s19 = Blank /\ s20 = Blank /\ s21 = Blank /\ s22 = Blank /\ s23 = Blank /\ s24 = Blank /\ s25 = Blank /\ s26 = Blank
    \/ which = "GatewayAccounts" /\ GatewayAccounts!AccountInit /\ s13 = Blank /\ s14 = Blank /\ s15 = Blank /\ s16 = Blank /\ s17 = Blank /\ s18 = Blank /\ s19 = Blank /\ s20 = Blank /\ s21 = Blank /\ s22 = Blank /\ s23 = Blank /\ s24 = Blank /\ s25 = Blank /\ s26 = Blank
    \/ which = "GatewayMigrate" /\ GatewayMigrate!MigrateInit /\ s6 = Blank /\ s7 = Blank /\ s8 = Blank /\ s9 = Blank /\ s10 = Blank /\ s11 = Blank /\ s12 = Blank /\ s13 = Blank /\ s14 = Blank /\ s15 = Blank /\ s16 = Blank /\ s17 = Blank /\ s18 = Blank /\ s19 = Blank /\ s20 = Blank /\ s21 = Blank /\ s22 = Blank /\ s23 = Blank /\ s24 = Blank /\ s25 = Blank /\ s26 = Blank
    \/ which = "ResponsesAdapter" /\ ResponsesAdapter!Init /\ s14 = Blank /\ s15 = Blank /\ s16 = Blank /\ s17 = Blank /\ s18 = Blank /\ s19 = Blank /\ s20 = Blank /\ s21 = Blank /\ s22 = Blank /\ s23 = Blank /\ s24 = Blank /\ s25 = Blank /\ s26 = Blank
    \/ which = "ChatRequest" /\ ChatRequest!ChatInit /\ s3 = Blank /\ s4 = Blank /\ s5 = Blank /\ s6 = Blank /\ s7 = Blank /\ s8 = Blank /\ s9 = Blank /\ s10 = Blank /\ s11 = Blank /\ s12 = Blank /\ s13 = Blank /\ s14 = Blank /\ s15 = Blank /\ s16 = Blank /\ s17 = Blank /\ s18 = Blank /\ s19 = Blank /\ s20 = Blank /\ s21 = Blank /\ s22 = Blank /\ s23 = Blank /\ s24 = Blank /\ s25 = Blank /\ s26 = Blank
    \/ which = "ToolCallStream" /\ ToolCallStream!ToolInit /\ s9 = Blank /\ s10 = Blank /\ s11 = Blank /\ s12 = Blank /\ s13 = Blank /\ s14 = Blank /\ s15 = Blank /\ s16 = Blank /\ s17 = Blank /\ s18 = Blank /\ s19 = Blank /\ s20 = Blank /\ s21 = Blank /\ s22 = Blank /\ s23 = Blank /\ s24 = Blank /\ s25 = Blank /\ s26 = Blank
    \/ which = "ThinkFilter" /\ ThinkFilter!ThinkInit /\ s6 = Blank /\ s7 = Blank /\ s8 = Blank /\ s9 = Blank /\ s10 = Blank /\ s11 = Blank /\ s12 = Blank /\ s13 = Blank /\ s14 = Blank /\ s15 = Blank /\ s16 = Blank /\ s17 = Blank /\ s18 = Blank /\ s19 = Blank /\ s20 = Blank /\ s21 = Blank /\ s22 = Blank /\ s23 = Blank /\ s24 = Blank /\ s25 = Blank /\ s26 = Blank
    \/ which = "BuyerForward" /\ BuyerForward!Init
    \/ which = "SlotQueue" /\ SlotQueue!Init /\ s12 = Blank /\ s13 = Blank /\ s14 = Blank /\ s15 = Blank /\ s16 = Blank /\ s17 = Blank /\ s18 = Blank /\ s19 = Blank /\ s20 = Blank /\ s21 = Blank /\ s22 = Blank /\ s23 = Blank /\ s24 = Blank /\ s25 = Blank /\ s26 = Blank
    \/ which = "ProviderSelection" /\ ProviderSelection!SelectInit /\ s6 = Blank /\ s7 = Blank /\ s8 = Blank /\ s9 = Blank /\ s10 = Blank /\ s11 = Blank /\ s12 = Blank /\ s13 = Blank /\ s14 = Blank /\ s15 = Blank /\ s16 = Blank /\ s17 = Blank /\ s18 = Blank /\ s19 = Blank /\ s20 = Blank /\ s21 = Blank /\ s22 = Blank /\ s23 = Blank /\ s24 = Blank /\ s25 = Blank /\ s26 = Blank
    \/ which = "StickyRouting" /\ StickyRouting!StickyInit /\ s5 = Blank /\ s6 = Blank /\ s7 = Blank /\ s8 = Blank /\ s9 = Blank /\ s10 = Blank /\ s11 = Blank /\ s12 = Blank /\ s13 = Blank /\ s14 = Blank /\ s15 = Blank /\ s16 = Blank /\ s17 = Blank /\ s18 = Blank /\ s19 = Blank /\ s20 = Blank /\ s21 = Blank /\ s22 = Blank /\ s23 = Blank /\ s24 = Blank /\ s25 = Blank /\ s26 = Blank
    \/ which = "CanaryCorrelation" /\ CanaryCorrelation!Init /\ s15 = Blank /\ s16 = Blank /\ s17 = Blank /\ s18 = Blank /\ s19 = Blank /\ s20 = Blank /\ s21 = Blank /\ s22 = Blank /\ s23 = Blank /\ s24 = Blank /\ s25 = Blank /\ s26 = Blank
    \/ which = "LosslessnessProbe" /\ LosslessnessProbe!LossInit /\ s11 = Blank /\ s12 = Blank /\ s13 = Blank /\ s14 = Blank /\ s15 = Blank /\ s16 = Blank /\ s17 = Blank /\ s18 = Blank /\ s19 = Blank /\ s20 = Blank /\ s21 = Blank /\ s22 = Blank /\ s23 = Blank /\ s24 = Blank /\ s25 = Blank /\ s26 = Blank
    \/ which = "LosslessnessVerdict" /\ LosslessnessVerdict!VerdictInit /\ s5 = Blank /\ s6 = Blank /\ s7 = Blank /\ s8 = Blank /\ s9 = Blank /\ s10 = Blank /\ s11 = Blank /\ s12 = Blank /\ s13 = Blank /\ s14 = Blank /\ s15 = Blank /\ s16 = Blank /\ s17 = Blank /\ s18 = Blank /\ s19 = Blank /\ s20 = Blank /\ s21 = Blank /\ s22 = Blank /\ s23 = Blank /\ s24 = Blank /\ s25 = Blank /\ s26 = Blank
    \/ which = "PoolRegistry" /\ PoolRegistry!Init /\ s14 = Blank /\ s15 = Blank /\ s16 = Blank /\ s17 = Blank /\ s18 = Blank /\ s19 = Blank /\ s20 = Blank /\ s21 = Blank /\ s22 = Blank /\ s23 = Blank /\ s24 = Blank /\ s25 = Blank /\ s26 = Blank
    \/ which = "CapacityClamp" /\ CapacityClamp!ClampInit /\ s3 = Blank /\ s4 = Blank /\ s5 = Blank /\ s6 = Blank /\ s7 = Blank /\ s8 = Blank /\ s9 = Blank /\ s10 = Blank /\ s11 = Blank /\ s12 = Blank /\ s13 = Blank /\ s14 = Blank /\ s15 = Blank /\ s16 = Blank /\ s17 = Blank /\ s18 = Blank /\ s19 = Blank /\ s20 = Blank /\ s21 = Blank /\ s22 = Blank /\ s23 = Blank /\ s24 = Blank /\ s25 = Blank /\ s26 = Blank
    \/ which = "ProviderTelemetry" /\ ProviderTelemetry!TelemetryInit /\ s7 = Blank /\ s8 = Blank /\ s9 = Blank /\ s10 = Blank /\ s11 = Blank /\ s12 = Blank /\ s13 = Blank /\ s14 = Blank /\ s15 = Blank /\ s16 = Blank /\ s17 = Blank /\ s18 = Blank /\ s19 = Blank /\ s20 = Blank /\ s21 = Blank /\ s22 = Blank /\ s23 = Blank /\ s24 = Blank /\ s25 = Blank /\ s26 = Blank
    \/ which = "ReceiptKeys" /\ ReceiptKeys!ReceiptInit /\ s7 = Blank /\ s8 = Blank /\ s9 = Blank /\ s10 = Blank /\ s11 = Blank /\ s12 = Blank /\ s13 = Blank /\ s14 = Blank /\ s15 = Blank /\ s16 = Blank /\ s17 = Blank /\ s18 = Blank /\ s19 = Blank /\ s20 = Blank /\ s21 = Blank /\ s22 = Blank /\ s23 = Blank /\ s24 = Blank /\ s25 = Blank /\ s26 = Blank
    \/ which = "ProviderConnect" /\ ProviderConnect!Init /\ s12 = Blank /\ s13 = Blank /\ s14 = Blank /\ s15 = Blank /\ s16 = Blank /\ s17 = Blank /\ s18 = Blank /\ s19 = Blank /\ s20 = Blank /\ s21 = Blank /\ s22 = Blank /\ s23 = Blank /\ s24 = Blank /\ s25 = Blank /\ s26 = Blank
    \/ which = "LegacyBridges" /\ LegacyBridges!BridgeInit /\ s11 = Blank /\ s12 = Blank /\ s13 = Blank /\ s14 = Blank /\ s15 = Blank /\ s16 = Blank /\ s17 = Blank /\ s18 = Blank /\ s19 = Blank /\ s20 = Blank /\ s21 = Blank /\ s22 = Blank /\ s23 = Blank /\ s24 = Blank /\ s25 = Blank /\ s26 = Blank
    \/ which = "RelaySession" /\ RelaySession!Init /\ s15 = Blank /\ s16 = Blank /\ s17 = Blank /\ s18 = Blank /\ s19 = Blank /\ s20 = Blank /\ s21 = Blank /\ s22 = Blank /\ s23 = Blank /\ s24 = Blank /\ s25 = Blank /\ s26 = Blank
    \/ which = "RelayRekey" /\ RelayRekey!RekeyInit /\ s20 = Blank /\ s21 = Blank /\ s22 = Blank /\ s23 = Blank /\ s24 = Blank /\ s25 = Blank /\ s26 = Blank
    \/ which = "AeadWindow" /\ AeadWindow!WindowInit /\ s9 = Blank /\ s10 = Blank /\ s11 = Blank /\ s12 = Blank /\ s13 = Blank /\ s14 = Blank /\ s15 = Blank /\ s16 = Blank /\ s17 = Blank /\ s18 = Blank /\ s19 = Blank /\ s20 = Blank /\ s21 = Blank /\ s22 = Blank /\ s23 = Blank /\ s24 = Blank /\ s25 = Blank /\ s26 = Blank
    \/ which = "WeightsGate" /\ WeightsGate!Init /\ s9 = Blank /\ s10 = Blank /\ s11 = Blank /\ s12 = Blank /\ s13 = Blank /\ s14 = Blank /\ s15 = Blank /\ s16 = Blank /\ s17 = Blank /\ s18 = Blank /\ s19 = Blank /\ s20 = Blank /\ s21 = Blank /\ s22 = Blank /\ s23 = Blank /\ s24 = Blank /\ s25 = Blank /\ s26 = Blank
    \/ which = "HardwareTrust" /\ HardwareTrust!Init /\ s11 = Blank /\ s12 = Blank /\ s13 = Blank /\ s14 = Blank /\ s15 = Blank /\ s16 = Blank /\ s17 = Blank /\ s18 = Blank /\ s19 = Blank /\ s20 = Blank /\ s21 = Blank /\ s22 = Blank /\ s23 = Blank /\ s24 = Blank /\ s25 = Blank /\ s26 = Blank
    \/ which = "TrustSessions" /\ TrustSessions!SessionInit /\ s9 = Blank /\ s10 = Blank /\ s11 = Blank /\ s12 = Blank /\ s13 = Blank /\ s14 = Blank /\ s15 = Blank /\ s16 = Blank /\ s17 = Blank /\ s18 = Blank /\ s19 = Blank /\ s20 = Blank /\ s21 = Blank /\ s22 = Blank /\ s23 = Blank /\ s24 = Blank /\ s25 = Blank /\ s26 = Blank
    \/ which = "ConnectionEvents" /\ ConnectionEvents!Init /\ s14 = Blank /\ s15 = Blank /\ s16 = Blank /\ s17 = Blank /\ s18 = Blank /\ s19 = Blank /\ s20 = Blank /\ s21 = Blank /\ s22 = Blank /\ s23 = Blank /\ s24 = Blank /\ s25 = Blank /\ s26 = Blank
    \/ which = "LastKnown" /\ LastKnown!LastInit /\ s9 = Blank /\ s10 = Blank /\ s11 = Blank /\ s12 = Blank /\ s13 = Blank /\ s14 = Blank /\ s15 = Blank /\ s16 = Blank /\ s17 = Blank /\ s18 = Blank /\ s19 = Blank /\ s20 = Blank /\ s21 = Blank /\ s22 = Blank /\ s23 = Blank /\ s24 = Blank /\ s25 = Blank /\ s26 = Blank
    \/ which = "RequestLog" /\ RequestLog!Init /\ s11 = Blank /\ s12 = Blank /\ s13 = Blank /\ s14 = Blank /\ s15 = Blank /\ s16 = Blank /\ s17 = Blank /\ s18 = Blank /\ s19 = Blank /\ s20 = Blank /\ s21 = Blank /\ s22 = Blank /\ s23 = Blank /\ s24 = Blank /\ s25 = Blank /\ s26 = Blank
    \/ which = "BootstrapTokens" /\ BootstrapTokens!Init /\ s7 = Blank /\ s8 = Blank /\ s9 = Blank /\ s10 = Blank /\ s11 = Blank /\ s12 = Blank /\ s13 = Blank /\ s14 = Blank /\ s15 = Blank /\ s16 = Blank /\ s17 = Blank /\ s18 = Blank /\ s19 = Blank /\ s20 = Blank /\ s21 = Blank /\ s22 = Blank /\ s23 = Blank /\ s24 = Blank /\ s25 = Blank /\ s26 = Blank
    \/ which = "PairOwnership" /\ PairOwnership!PairInit /\ s8 = Blank /\ s9 = Blank /\ s10 = Blank /\ s11 = Blank /\ s12 = Blank /\ s13 = Blank /\ s14 = Blank /\ s15 = Blank /\ s16 = Blank /\ s17 = Blank /\ s18 = Blank /\ s19 = Blank /\ s20 = Blank /\ s21 = Blank /\ s22 = Blank /\ s23 = Blank /\ s24 = Blank /\ s25 = Blank /\ s26 = Blank

Next ==
    \/ which = "GatewayStream" /\ GatewayStream!Next /\ UNCHANGED <<which, s18, s19, s20, s21, s22, s23, s24, s25, s26>>
    \/ which = "IdlessDedupe" /\ IdlessDedupe!DedupeNext /\ UNCHANGED <<which, s12, s13, s14, s15, s16, s17, s18, s19, s20, s21, s22, s23, s24, s25, s26>>
    \/ which = "RateLimiter" /\ RateLimiter!RateNext /\ UNCHANGED <<which, s6, s7, s8, s9, s10, s11, s12, s13, s14, s15, s16, s17, s18, s19, s20, s21, s22, s23, s24, s25, s26>>
    \/ which = "GatewayCapacity" /\ GatewayCapacity!Next /\ UNCHANGED <<which, s9, s10, s11, s12, s13, s14, s15, s16, s17, s18, s19, s20, s21, s22, s23, s24, s25, s26>>
    \/ which = "GatewayAccounts" /\ GatewayAccounts!AccountNext /\ UNCHANGED <<which, s13, s14, s15, s16, s17, s18, s19, s20, s21, s22, s23, s24, s25, s26>>
    \/ which = "GatewayMigrate" /\ GatewayMigrate!MigrateNext /\ UNCHANGED <<which, s6, s7, s8, s9, s10, s11, s12, s13, s14, s15, s16, s17, s18, s19, s20, s21, s22, s23, s24, s25, s26>>
    \/ which = "ResponsesAdapter" /\ ResponsesAdapter!Next /\ UNCHANGED <<which, s14, s15, s16, s17, s18, s19, s20, s21, s22, s23, s24, s25, s26>>
    \/ which = "ChatRequest" /\ ChatRequest!ChatNext /\ UNCHANGED <<which, s3, s4, s5, s6, s7, s8, s9, s10, s11, s12, s13, s14, s15, s16, s17, s18, s19, s20, s21, s22, s23, s24, s25, s26>>
    \/ which = "ToolCallStream" /\ ToolCallStream!ToolNext /\ UNCHANGED <<which, s9, s10, s11, s12, s13, s14, s15, s16, s17, s18, s19, s20, s21, s22, s23, s24, s25, s26>>
    \/ which = "ThinkFilter" /\ ThinkFilter!ThinkNext /\ UNCHANGED <<which, s6, s7, s8, s9, s10, s11, s12, s13, s14, s15, s16, s17, s18, s19, s20, s21, s22, s23, s24, s25, s26>>
    \/ which = "BuyerForward" /\ BuyerForward!Next /\ UNCHANGED <<which>>
    \/ which = "SlotQueue" /\ SlotQueue!Next /\ UNCHANGED <<which, s12, s13, s14, s15, s16, s17, s18, s19, s20, s21, s22, s23, s24, s25, s26>>
    \/ which = "ProviderSelection" /\ ProviderSelection!SelectNext /\ UNCHANGED <<which, s6, s7, s8, s9, s10, s11, s12, s13, s14, s15, s16, s17, s18, s19, s20, s21, s22, s23, s24, s25, s26>>
    \/ which = "StickyRouting" /\ StickyRouting!StickyNext /\ UNCHANGED <<which, s5, s6, s7, s8, s9, s10, s11, s12, s13, s14, s15, s16, s17, s18, s19, s20, s21, s22, s23, s24, s25, s26>>
    \/ which = "CanaryCorrelation" /\ CanaryCorrelation!Next /\ UNCHANGED <<which, s15, s16, s17, s18, s19, s20, s21, s22, s23, s24, s25, s26>>
    \/ which = "LosslessnessProbe" /\ LosslessnessProbe!LossNext /\ UNCHANGED <<which, s11, s12, s13, s14, s15, s16, s17, s18, s19, s20, s21, s22, s23, s24, s25, s26>>
    \/ which = "LosslessnessVerdict" /\ LosslessnessVerdict!VerdictNext /\ UNCHANGED <<which, s5, s6, s7, s8, s9, s10, s11, s12, s13, s14, s15, s16, s17, s18, s19, s20, s21, s22, s23, s24, s25, s26>>
    \/ which = "PoolRegistry" /\ PoolRegistry!Next /\ UNCHANGED <<which, s14, s15, s16, s17, s18, s19, s20, s21, s22, s23, s24, s25, s26>>
    \/ which = "CapacityClamp" /\ CapacityClamp!ClampNext /\ UNCHANGED <<which, s3, s4, s5, s6, s7, s8, s9, s10, s11, s12, s13, s14, s15, s16, s17, s18, s19, s20, s21, s22, s23, s24, s25, s26>>
    \/ which = "ProviderTelemetry" /\ ProviderTelemetry!TelemetryNext /\ UNCHANGED <<which, s7, s8, s9, s10, s11, s12, s13, s14, s15, s16, s17, s18, s19, s20, s21, s22, s23, s24, s25, s26>>
    \/ which = "ReceiptKeys" /\ ReceiptKeys!ReceiptNext /\ UNCHANGED <<which, s7, s8, s9, s10, s11, s12, s13, s14, s15, s16, s17, s18, s19, s20, s21, s22, s23, s24, s25, s26>>
    \/ which = "ProviderConnect" /\ ProviderConnect!Next /\ UNCHANGED <<which, s12, s13, s14, s15, s16, s17, s18, s19, s20, s21, s22, s23, s24, s25, s26>>
    \/ which = "LegacyBridges" /\ LegacyBridges!BridgeNext /\ UNCHANGED <<which, s11, s12, s13, s14, s15, s16, s17, s18, s19, s20, s21, s22, s23, s24, s25, s26>>
    \/ which = "RelaySession" /\ RelaySession!Next /\ UNCHANGED <<which, s15, s16, s17, s18, s19, s20, s21, s22, s23, s24, s25, s26>>
    \/ which = "RelayRekey" /\ RelayRekey!RekeyNext /\ UNCHANGED <<which, s20, s21, s22, s23, s24, s25, s26>>
    \/ which = "AeadWindow" /\ AeadWindow!WindowNext /\ UNCHANGED <<which, s9, s10, s11, s12, s13, s14, s15, s16, s17, s18, s19, s20, s21, s22, s23, s24, s25, s26>>
    \/ which = "WeightsGate" /\ WeightsGate!Next /\ UNCHANGED <<which, s9, s10, s11, s12, s13, s14, s15, s16, s17, s18, s19, s20, s21, s22, s23, s24, s25, s26>>
    \/ which = "HardwareTrust" /\ HardwareTrust!Next /\ UNCHANGED <<which, s11, s12, s13, s14, s15, s16, s17, s18, s19, s20, s21, s22, s23, s24, s25, s26>>
    \/ which = "TrustSessions" /\ TrustSessions!SessionNext /\ UNCHANGED <<which, s9, s10, s11, s12, s13, s14, s15, s16, s17, s18, s19, s20, s21, s22, s23, s24, s25, s26>>
    \/ which = "ConnectionEvents" /\ ConnectionEvents!Next /\ UNCHANGED <<which, s14, s15, s16, s17, s18, s19, s20, s21, s22, s23, s24, s25, s26>>
    \/ which = "LastKnown" /\ LastKnown!LastNext /\ UNCHANGED <<which, s9, s10, s11, s12, s13, s14, s15, s16, s17, s18, s19, s20, s21, s22, s23, s24, s25, s26>>
    \/ which = "RequestLog" /\ RequestLog!Next /\ UNCHANGED <<which, s11, s12, s13, s14, s15, s16, s17, s18, s19, s20, s21, s22, s23, s24, s25, s26>>
    \/ which = "BootstrapTokens" /\ BootstrapTokens!Next /\ UNCHANGED <<which, s7, s8, s9, s10, s11, s12, s13, s14, s15, s16, s17, s18, s19, s20, s21, s22, s23, s24, s25, s26>>
    \/ which = "PairOwnership" /\ PairOwnership!PairNext /\ UNCHANGED <<which, s8, s9, s10, s11, s12, s13, s14, s15, s16, s17, s18, s19, s20, s21, s22, s23, s24, s25, s26>>

Spec == Init /\ [][Next]_slots

-----------------------------------------------------------------------------
(* Every variable of the running component has its type. *)
TypeOK ==
    /\ which = "BuyerForward" => BuyerForward!TypeOK
    /\ which = "LosslessnessProbe" => LosslessnessProbe!LossTypeOK
    /\ which = "LosslessnessVerdict" => LosslessnessVerdict!VerdictTypeOK
    /\ which = "PoolRegistry" => PoolRegistry!TypeOK
    /\ which = "CapacityClamp" => CapacityClamp!ClampTypeOK
    /\ which = "ProviderTelemetry" => ProviderTelemetry!TelemetryTypeOK
    /\ which = "ReceiptKeys" => ReceiptKeys!ReceiptTypeOK
    /\ which = "ProviderConnect" => ProviderConnect!TypeOK
    /\ which = "LegacyBridges" => LegacyBridges!BridgeTypeOK
    /\ which = "RelayRekey" => RelayRekey!RekeyTypeOK
    /\ which = "AeadWindow" => AeadWindow!WindowTypeOK
    /\ which = "WeightsGate" => WeightsGate!TypeOK
    /\ which = "ConnectionEvents" => ConnectionEvents!TypeOK
    /\ which = "LastKnown" => LastKnown!LastTypeOK
    /\ which = "RequestLog" => RequestLog!TypeOK
    /\ which = "BootstrapTokens" => BootstrapTokens!TypeOK
    /\ which = "PairOwnership" => PairOwnership!PairTypeOK

(* The gateway charges for what it delivered, and bounds, keys, switches and  *)
(* tables survive concurrent requests and restarts.                           *)
(* - ChargeIsPlausible (GatewayStream): Nobody is charged for more completion *)
(* tokens than they asked for, unless that much was delivered; and a          *)
(* provider's count that is far below what was delivered is not what is       *)
(* charged.                                                                   *)
(* - SnapshotRefundMeansNoDispatch (GatewayStream): A route snapshot that     *)
(* could not be written is refunded as a request no provider ran only if none *)
(* was credited, neither in the answering attempt nor in one that was         *)
(* retried.                                                                   *)
(* - TerminalErrorRefunded (GatewayStream): After the provider's terminal     *)
(* error the buyer who stays gets a refund, and no content follows the error. *)
(* - CountersHold (IdlessDedupe): The counters the caps are checked against   *)
(* are the truth about the map: a drift would close the index to everyone, or *)
(* open it without bound.                                                     *)
(* - ReplayIsPaid (IdlessDedupe): A replayed answer has the replayer's own    *)
(* fingerprint and was paid for.                                              *)
(* - OneBillWhileMapped (IdlessDedupe): Two identical requests are charged    *)
(* twice only if the mapping expired, was evicted, was dropped with an        *)
(* undelivered answer, or never made.                                         *)
(* - RateHolds (RateLimiter): No key that was not evicted for room gets       *)
(* through more often than its burst and the refill of the time allow, in any *)
(* stretch of time: pruning idle buckets gives nobody a fresh burst.          *)
(* - RestartChangesNothing (GatewayCapacity): As long as requests came one at *)
(* a time, whatever failed on its way, the switch in memory and the stored    *)
(* one agree when none is running, so that a restart changes nothing.         *)
(* - SignupCapHolds (GatewayAccounts): However many sign-ups of one address   *)
(* run at once, no more accounts than the daily cap come of them.             *)
(* - KeysHaveOwners (GatewayAccounts): Two sign-ups of one identity race, and *)
(* one of them may die half-way: a key always belongs to the account its      *)
(* identity is known by, so no buyer holds a key of an account they cannot    *)
(* log in to.                                                                 *)
(* - TokensAreSingleUse (GatewayAccounts): A state is good for one callback   *)
(* and a handoff for one key, whatever pruning does to their rows.            *)
(* - ServesCurrentForm (GatewayMigrate): The gateway serves only on tables of *)
(* the current form, with their append-only triggers, from whatever version   *)
(* and whatever half-done migration it started.                               *)
(* - GateProtects (GatewayMigrate): An older gateway put back on a database   *)
(* that had data passes the gate only if every key and every status of the    *)
(* tables is one that gateway knows: the stamp commits with the form it       *)
(* stands for.                                                                *)
GatewayKeepsItsWord ==
    /\ which = "GatewayStream" => GatewayStream!ChargeIsPlausible
    /\ which = "GatewayStream" => GatewayStream!SnapshotRefundMeansNoDispatch
    /\ which = "GatewayStream" => GatewayStream!TerminalErrorRefunded
    /\ which = "IdlessDedupe" => IdlessDedupe!CountersHold
    /\ which = "IdlessDedupe" => IdlessDedupe!ReplayIsPaid
    /\ which = "IdlessDedupe" => IdlessDedupe!OneBillWhileMapped
    /\ which = "RateLimiter" => RateLimiter!RateHolds
    /\ which = "GatewayCapacity" => GatewayCapacity!RestartChangesNothing
    /\ which = "GatewayAccounts" => GatewayAccounts!SignupCapHolds
    /\ which = "GatewayAccounts" => GatewayAccounts!KeysHaveOwners
    /\ which = "GatewayAccounts" => GatewayAccounts!TokensAreSingleUse
    /\ which = "GatewayMigrate" => GatewayMigrate!ServesCurrentForm
    /\ which = "GatewayMigrate" => GatewayMigrate!GateProtects

(* What a buyer sends and receives keeps its meaning, however it is cut into  *)
(* chunks and whichever interface carries it.                                 *)
(* - ItemsAreBalanced (ResponsesAdapter): Up to the terminal event every item *)
(* was added once, under an index of its own, and got its deltas after that;  *)
(* when the event says completed or incomplete, each was also closed once     *)
(* after its deltas.                                                          *)
(* - OneTerminalEvent (ResponsesAdapter): A stream has one terminal event,    *)
(* whether the chat handler sent none, one or two terminal frames; and it is  *)
(* the last event, unless the provider went on after its own end.             *)
(* - HistoryIsReplayable (ChatRequest): An accepted history can be replayed   *)
(* by a provider: the ids of its tool calls are distinct, and every tool      *)
(* result answers a call made earlier, which no other result answers.         *)
(* - SchemaIsStrict (ChatRequest): An accepted schema is strict at every      *)
(* depth, and no deeper than the limit: each object in it is closed and       *)
(* requires all it declares.                                                  *)
(* - ModesAgree (ToolCallStream): The two modes agree on what a stream calls: *)
(* one that passes the incremental validator has the same calls and arguments *)
(* in the buffered mode, and is refused there for three reasons only, which   *)
(* the validator does not look at: a data line it cannot read, an error       *)
(* object, and a later delta that names another type.                         *)
(* - ChunksDoNotMatter (ThinkFilter): However the answer was cut into chunks, *)
(* what the buyer has seen, and what a flush would add, is what one chunk of  *)
(* the same text would have shown.                                            *)
FormatsAreFaithful ==
    /\ which = "ResponsesAdapter" => ResponsesAdapter!ItemsAreBalanced
    /\ which = "ResponsesAdapter" => ResponsesAdapter!OneTerminalEvent
    /\ which = "ChatRequest" => ChatRequest!HistoryIsReplayable
    /\ which = "ChatRequest" => ChatRequest!SchemaIsStrict
    /\ which = "ToolCallStream" => ToolCallStream!ModesAgree
    /\ which = "ThinkFilter" => ThinkFilter!ChunksDoNotMatter

(* Every attempt of a request is logged, billed and refunded as what it was.  *)
(* - MarkerIsHonest (BuyerForward): The mark "no provider was credited", on   *)
(* which the gateway gives the buyer's money back, is never on the response   *)
(* of a request for which a provider row with a billable status exists,       *)
(* although the transports write some rows before the status line and some    *)
(* after it (phase_timing.go stampNoChargeMarker).                            *)
(* - OneCredit (BuyerForward): At most one attempt of a request is credited:  *)
(* a row below 400 without a breaker fault, whatever mix of failover, retry   *)
(* and fall-through led there (SPEC-004 FR-SR-14).                            *)
(* - EveryAttemptLogged (BuyerForward): The log has no attempt twice: the     *)
(* ordinals of the rows of a request are distinct, and when every write       *)
(* succeeded a finished request has one row per dispatch, but for a stream    *)
(* attempt replaced by failover and one the buyer left before its first byte. *)
(* - RetriesAreBounded (BuyerForward): A request that names no provider never *)
(* goes to the same one twice, and to at most one more than its retries and   *)
(* its one failover allow, except for full queues, which advance without a    *)
(* budget.                                                                    *)
(* - DurableBeforeServed (BuyerForward): A buyer who asked for no stream      *)
(* receives a 200 only when its row is durable, and no second status line     *)
(* follows the first.                                                         *)
(* - QuotaIsLogged (BuyerForward): The quota of a provisional provider is     *)
(* charged only for an attempt that is in the log: one replaced by failover,  *)
(* which a stream does not log, has had its quota returned (forwardWS).       *)
(* - ForwardInv (BuyerForward): The inductive invariant of a request: its     *)
(* rows, its markers, its response and its quotas agree at every step of      *)
(* every attempt (buyer/server.go, the loop of handleChatCompletions).        *)
(* - AttemptsAreDistinct (RequestLog): No two rows of one (account, request)  *)
(* have the same attempt ordinal, stored or derived, whatever mixture of      *)
(* legacy rows, new rows and backfilled rows the log holds, as long as        *)
(* retention has taken none of the request's rows.                            *)
(* - ReservationRunsOnce (RequestLog): While a reservation is kept, only the  *)
(* call that made it sends anything to a provider under that account and key; *)
(* this includes reservations made before the key table was scoped by         *)
(* account, whose account is read from the log.                               *)
(* - KeptKeyHasWholeLog (RequestLog): Retention takes the reservation of a    *)
(* request before any of its rows, so a key that still answers "already       *)
(* recorded" has a complete log.                                              *)
AttemptsAreAccounted ==
    /\ which = "BuyerForward" => BuyerForward!MarkerIsHonest
    /\ which = "BuyerForward" => BuyerForward!OneCredit
    /\ which = "BuyerForward" => BuyerForward!EveryAttemptLogged
    /\ which = "BuyerForward" => BuyerForward!RetriesAreBounded
    /\ which = "BuyerForward" => BuyerForward!DurableBeforeServed
    /\ which = "BuyerForward" => BuyerForward!QuotaIsLogged
    /\ which = "BuyerForward" => BuyerForward!ForwardInv
    /\ which = "RequestLog" => RequestLog!AttemptsAreDistinct
    /\ which = "RequestLog" => RequestLog!ReservationRunsOnce
    /\ which = "RequestLog" => RequestLog!KeptKeyHasWholeLog

(* Slots, choices, probes and verdicts rest on what is true of the providers. *)
(* - QueueIsItsWaiters (SlotQueue): The waiters of a queue are the requests   *)
(* that wait for that provider, each once and within the bound: no request    *)
(* leaves a dead waiter at the head, behind which nobody would ever be        *)
(* served.                                                                    *)
(* - ReservedWithinSlots (SlotQueue): However old the snapshots, the queue    *)
(* never hands out more slots of a provider than the provider has.            *)
(* - ReservationsHaveHolders (SlotQueue): Every reservation has a holder: a   *)
(* request in its preflight or running on the provider.                       *)
(* - ChosenIsEligible (ProviderSelection): A request is refused only when     *)
(* every provider is disqualified or refused the preflight, a provider that   *)
(* is chosen passes every check, and a pin yields that provider or nothing.   *)
(* - WithinEpsilonOfBest (ProviderSelection): Neither the sticky provider nor *)
(* the draw costs more than epsilon: with no preflight refused, no eligible   *)
(* provider beats the chosen one by more than epsilon in the metric of the    *)
(* objective.                                                                 *)
(* - TablesBounded (StickyRouting): Neither the map nor the limiter's table   *)
(* outgrows its limit, whatever order lookups, writes, purges and the passing *)
(* of time come in.                                                           *)
(* - FloorIsKept (CanaryCorrelation): Whatever the probes say, the model      *)
(* keeps a serving provider: a canary failure never takes the last one out    *)
(* (recordCanaryResult's floor).                                              *)
(* - ProbeResultsAreCurrent (CanaryCorrelation): A result that a probe        *)
(* applies itself was obtained after the latest recovery of that provider:    *)
(* the read lock it holds keeps the operator out from the check of the        *)
(* recovery epoch to the change of the pool.                                  *)
(* - ResultAppliedOnce (LosslessnessProbe): A probe moves a record at most    *)
(* once, however often its result comes, and the three maps a probe is kept   *)
(* in agree.                                                                  *)
(* - FreshIsEarned (LosslessnessProbe): A profile counts as fresh only if its *)
(* last result was a pass, no older than a day, and in the day before that    *)
(* pass fewer than three results were abusive, a fourth tail_mass_high within *)
(* a day among them: a pass clears no abuse.                                  *)
(* - IntervalEncloses (LosslessnessVerdict): The interval computed from a     *)
(* valid report encloses the true distance of the two distributions,          *)
(* whichever tokens the report chose to list.                                 *)
(* - VerdictIsSound (LosslessnessVerdict): A pass means that no position is   *)
(* really further apart than the warning threshold, and a quarantine that one *)
(* really is further than the lower of the two quarantine thresholds.         *)
RoutingIsSound ==
    /\ which = "SlotQueue" => SlotQueue!QueueIsItsWaiters
    /\ which = "SlotQueue" => SlotQueue!ReservedWithinSlots
    /\ which = "SlotQueue" => SlotQueue!ReservationsHaveHolders
    /\ which = "ProviderSelection" => ProviderSelection!ChosenIsEligible
    /\ which = "ProviderSelection" => ProviderSelection!WithinEpsilonOfBest
    /\ which = "StickyRouting" => StickyRouting!TablesBounded
    /\ which = "CanaryCorrelation" => CanaryCorrelation!FloorIsKept
    /\ which = "CanaryCorrelation" => CanaryCorrelation!ProbeResultsAreCurrent
    /\ which = "LosslessnessProbe" => LosslessnessProbe!ResultAppliedOnce
    /\ which = "LosslessnessProbe" => LosslessnessProbe!FreshIsEarned
    /\ which = "LosslessnessVerdict" => LosslessnessVerdict!IntervalEncloses
    /\ which = "LosslessnessVerdict" => LosslessnessVerdict!VerdictIsSound

(* What the registry says of a provider is what its current session reported, *)
(* within the bounds.                                                         *)
(* - HoldIsCurrent (PoolRegistry): A recovery hold always belongs to the      *)
(* session that is registered now: a reconnect, a removal or an unavailable   *)
(* mark never leaves behind a hold that later callbacks of the old session    *)
(* could lift or suffer.                                                      *)
(* - HeldIsNotRoutable (PoolRegistry): A held session is never routable:      *)
(* neither its own heartbeats and state updates, nor a warm-up gate, nor a    *)
(* wake fallback timer, makes it ready before the probe, the canary or a      *)
(* reconnect lifts the hold.                                                  *)
(* - SlotsAreBounded (CapacityClamp): Whatever sequence of reports arrives,   *)
(* the router never sees more slots than the provider's own claim and the     *)
(* operator's ceiling allow, also when a state update names only one of the   *)
(* two numbers.                                                               *)
(* - UsedSlotsStayTaken (CapacityClamp): Clamping hides no work in progress:  *)
(* a report that has slots in use leaves as many of the clamped slots taken,  *)
(* or all of them.                                                            *)
(* - LifetimeIsAccounted (ProviderTelemetry): Every model of the lifetime set *)
(* was paid for by exactly one provider's contribution, and the caps hold, so *)
(* one provider that names many models cannot use up the others' share.       *)
(* - OneSwapPerLoad (ProviderTelemetry): A swap is reported at most once for  *)
(* each load a provider began.                                                *)
(* - ServedModelsAreKnown (ProviderTelemetry): A model a connected provider   *)
(* serves or supports is known, also when every cap had been reached before   *)
(* it was named.                                                              *)
(* - OneRotationAtATime (ReceiptKeys): A provider has at most one rotation in *)
(* hand: while one published key is waiting to be replaced, no earlier key is *)
(* still in its grace period, so a verifier never needs a third key.          *)
(* - GraceIsHonoured (ReceiptKeys): Through reconnects and state updates, the *)
(* key that the last rotation replaced can be fetched until its grace period  *)
(* ends.                                                                      *)
RegistryIsCurrent ==
    /\ which = "PoolRegistry" => PoolRegistry!HoldIsCurrent
    /\ which = "PoolRegistry" => PoolRegistry!HeldIsNotRoutable
    /\ which = "CapacityClamp" => CapacityClamp!SlotsAreBounded
    /\ which = "CapacityClamp" => CapacityClamp!UsedSlotsStayTaken
    /\ which = "ProviderTelemetry" => ProviderTelemetry!LifetimeIsAccounted
    /\ which = "ProviderTelemetry" => ProviderTelemetry!OneSwapPerLoad
    /\ which = "ProviderTelemetry" => ProviderTelemetry!ServedModelsAreKnown
    /\ which = "ReceiptKeys" => ReceiptKeys!OneRotationAtATime
    /\ which = "ReceiptKeys" => ReceiptKeys!GraceIsHonoured

(* Connections, tokens and pairing codes are counted, owned and recorded      *)
(* once.                                                                      *)
(* - CountersAreExact (ProviderConnect): Whatever path a connection takes,    *)
(* each bounded resource is given back exactly once: the counters equal the   *)
(* handlers that hold the resource, so they neither leak to a permanent       *)
(* refusal nor drop below the truth.                                          *)
(* - OneOwnerPerToken (ProviderConnect): Of the connections that are          *)
(* registered as routable for one provider without a bearer, each was handed  *)
(* a token of its own: two first connections racing never both believe they   *)
(* own the provider's token.                                                  *)
(* - BridgeEndsForAll (LegacyBridges): Once the catalog bridge's pass has run *)
(* no session is served on the bridge: also not one whose hello was checked   *)
(* before the deadline and registered after the pass.                         *)
(* - LiveTokenIsBound (BootstrapTokens): A bootstrap token that can still be  *)
(* used belongs to a binding, to the key it was minted for, that the          *)
(* collections of later mints by others have not taken: otherwise its         *)
(* confirmation fails ("bootstrap identity missing") or another key owns the  *)
(* provider of a live token.                                                  *)
(* - OutstandingIsCapped (BootstrapTokens): Unused live tokens never exceed   *)
(* their cap, though a replacement skips the check (MintBootstrapToken, the   *)
(* !activeExists branch).                                                     *)
(* - OneClaimPerCode (PairOwnership): A pairing code makes one claim, of two  *)
(* handlers that both read it as unused (BindPairOT takes it and records the  *)
(* owner in one transaction).                                                 *)
(* - ClaimsBySessions (PairOwnership): No claim succeeds in the name of a     *)
(* session that was logged out or pruned between the handler's authentication *)
(* and its transaction.                                                       *)
(* - NamedMeansVerified (ConnectionEvents): A close event names a provider    *)
(* only when the connection proved to be that provider's: an unproved         *)
(* connection cannot fill another provider's history                          *)
(* (recordCloseEventFromMeta).                                                *)
(* - ClosedQueueIsNotSent (ConnectionEvents): Nothing is sent on the closed   *)
(* channel, although handlers go on emitting events while the server shuts    *)
(* down.                                                                      *)
(* - NewestEventsAreKept (ConnectionEvents): An event that is gone was pushed *)
(* out by newer ones: as many of its own provider as the provider may keep,   *)
(* or as many as the table may hold.                                          *)
(* - PagesListOnce (LastKnown): A pass over the pages lists every record that *)
(* does not change meanwhile exactly once, whatever happens to the others.    *)
ConnectionsAreAccounted ==
    /\ which = "ProviderConnect" => ProviderConnect!CountersAreExact
    /\ which = "ProviderConnect" => ProviderConnect!OneOwnerPerToken
    /\ which = "LegacyBridges" => LegacyBridges!BridgeEndsForAll
    /\ which = "BootstrapTokens" => BootstrapTokens!LiveTokenIsBound
    /\ which = "BootstrapTokens" => BootstrapTokens!OutstandingIsCapped
    /\ which = "PairOwnership" => PairOwnership!OneClaimPerCode
    /\ which = "PairOwnership" => PairOwnership!ClaimsBySessions
    /\ which = "ConnectionEvents" => ConnectionEvents!NamedMeansVerified
    /\ which = "ConnectionEvents" => ConnectionEvents!ClosedQueueIsNotSent
    /\ which = "ConnectionEvents" => ConnectionEvents!NewestEventsAreKept
    /\ which = "LastKnown" => LastKnown!PagesListOnce

(* The relay loses no ending, no byte count, no key and no frame number.      *)
(* - ClosedWithReason (RelaySession): Whoever waits for a relayed request is  *)
(* told how it ended: the chunk channel is never closed with neither an end   *)
(* frame nor an error to read behind it (delivered, failAll, cancelActive,    *)
(* handleInferenceEnd).                                                       *)
(* - BytesAreThoseBuffered (RelaySession): The bytes a request has reserved   *)
(* are those of its chunks in the channel, in the delivering goroutine or in  *)
(* the reader's hands, so a slow buyer meets its limit and a keeping-up one   *)
(* never does (reserveBufferedBytes).                                         *)
(* - BarrierHolds (RelayRekey): While the provider is asked to change keys    *)
(* nothing it was sent, request or probe, is in flight: what runTier2Rekey's  *)
(* barrier waited for stays true, the requests and probes that come meanwhile *)
(* being held back by the exchange.                                           *)
(* - KeysStayInStep (RelayRekey): A frame the provider reads is sealed under  *)
(* the key it holds, and no pair of key and number is sealed twice, the       *)
(* commit's number 0 included: sealing and the exchange of keys take          *)
(* different locks (tier2Mu and rekeyMu).                                     *)
(* - AcceptedOnce (AeadWindow): No number is accepted twice, though what is   *)
(* below the counter is forgotten one by one: the accepted numbers are        *)
(* exactly those below the counter and the ones in the sparse set.            *)
(* - SparseSetBounded (AeadWindow): The sparse set is bounded by the window,  *)
(* whatever order frames come in.                                             *)
RelayIsFaithful ==
    /\ which = "RelaySession" => RelaySession!ClosedWithReason
    /\ which = "RelaySession" => RelaySession!BytesAreThoseBuffered
    /\ which = "RelayRekey" => RelayRekey!BarrierHolds
    /\ which = "RelayRekey" => RelayRekey!KeysStayInStep
    /\ which = "AeadWindow" => AeadWindow!AcceptedOnce
    /\ which = "AeadWindow" => AeadWindow!SparseSetBounded

(* Who is routed to or verified has the evidence for it.                      *)
(* - RoutableIsEvidenced (WeightsGate): While the published gate is on,       *)
(* during a reload too, no session that was admitted without verified         *)
(* evidence is routed to: not one that connected under a gate that was off,   *)
(* not one whose v2 handshake spans the reload.                               *)
(* - VerifiedIsBacked (HardwareTrust): A provider's profile is verified only  *)
(* while some verified evidence of it has an active root, whatever lapsed     *)
(* since the demotion pass last ran aside: revocation and promotion agree on  *)
(* the order (promoteJob re-reads the root under the lock the revocation      *)
(* takes).                                                                    *)
TrustIsBacked ==
    /\ which = "WeightsGate" => WeightsGate!RoutableIsEvidenced
    /\ which = "HardwareTrust" => HardwareTrust!VerifiedIsBacked

(* What no step may do, whichever callback, timer, reload or late session     *)
(* takes it.                                                                  *)
(* - NoLostUpdate (GatewayCapacity): An operator's write changes no field of  *)
(* the stored switch that the request does not name, although the row was     *)
(* read in one transaction and written in another.                            *)
(* - OwnerKeepsConversation (StickyRouting): A conversation keeps its account *)
(* for as long as it is in the map, so that no other account can take it over *)
(* and later purge it, even by way of a request without an account (Update).  *)
(* - StaleSessionsAreInert (PoolRegistry): A callback that still runs for a   *)
(* replaced session - a probe, a gate, a timer, a buyer's late failure, its   *)
(* own disconnect - leaves the entry of the session that replaced it alone.   *)
(* - RevokedBearerIsRefused (ProviderConnect): A bearer revoked while its     *)
(* connection was still in the handshake does not reach the registry: the     *)
(* confirmation just before the registration refuses it.                      *)
(* - StaleTimerIsInert (LegacyBridges): The timer of a deadline a reload has  *)
(* replaced fences nobody: between reloads, the only callback that passes the *)
(* check is the one for the deadline configured now.                          *)
(* - SandboxIsNotPromoted (WeightsGate): A session that was let in without a  *)
(* validated bearer because it was sandboxed stays sandboxed for as long as   *)
(* it lives, whatever the reloads: turning the gate off must not turn it into *)
(* a serving session.                                                         *)
(* - RootsAreGranted (HardwareTrust): An operator_api root appears only by a  *)
(* grant asked for earlier, on a job still waiting for exactly that root, and *)
(* the inventory sync, which replaces the inventory's roots, removes none of  *)
(* the operators' (applyTrustInventory).                                      *)
(* - SweepEvictsItsSession (TrustSessions): The sweep evicts the session it   *)
(* asked about and no later one of the provider, which was admitted on a root *)
(* of its own.                                                                *)
(* - SeenNeverGoesBack (LastKnown): A provider's record never goes back to an *)
(* earlier sighting, although queued snapshots are applied after direct ones. *)
(* - BackfillKeepsOrdinals (RequestLog): backfill-attempt-n may run beside a  *)
(* serving daemon: it stores for every legacy row the ordinal readers were    *)
(* already deriving, changes no other row, and leaves nothing to derive.      *)
(* - CustodyIsFinal (BootstrapTokens): A provider that ever was an            *)
(* operator's, or whose binding was confirmed or revoked, obtains no further  *)
(* bootstrap token: no prune, collection or revocation opens the              *)
(* unauthenticated path to it again.                                          *)
StepsAreFenced ==
  [][
    /\ which = "GatewayCapacity" => GatewayCapacity!NoLostUpdateStep
    /\ which = "StickyRouting" => StickyRouting!OwnerKeepsConversationStep
    /\ which = "PoolRegistry" => PoolRegistry!StaleSessionsAreInertStep
    /\ which = "ProviderConnect" => ProviderConnect!RevokedBearerIsRefusedStep
    /\ which = "LegacyBridges" => LegacyBridges!StaleTimerIsInertStep
    /\ which = "WeightsGate" => WeightsGate!SandboxIsNotPromotedStep
    /\ which = "HardwareTrust" => HardwareTrust!RootsAreGrantedStep
    /\ which = "TrustSessions" => TrustSessions!SweepEvictsItsSessionStep
    /\ which = "LastKnown" => LastKnown!SeenNeverGoesBackStep
    /\ which = "RequestLog" => RequestLog!BackfillKeepsOrdinalsStep
    /\ which = "BootstrapTokens" => BootstrapTokens!CustodyIsFinalStep
  ]_slots

(* The canary component alone, with its probes, the sweep and the recovery   *)
(* each scheduled fairly.                                                    *)
CanarySpec == Init /\ which = "CanaryCorrelation" /\ [][Next]_slots
    /\ \A p \in {"p1", "p2"} : WF_slots(CanaryCorrelation!Probe(p) /\ UNCHANGED <<which, s15, s16, s17, s18, s19, s20, s21, s22, s23, s24, s25, s26>>)
    /\ WF_slots(CanaryCorrelation!Step(CanaryCorrelation!Sweep) /\ UNCHANGED <<which, s15, s16, s17, s18, s19, s20, s21, s22, s23, s24, s25, s26>>)
    /\ WF_slots(CanaryCorrelation!RecoverProvider /\ UNCHANGED <<which, s15, s16, s17, s18, s19, s20, s21, s22, s23, s24, s25, s26>>)

(* A canary probe that is applying its result completes before an operator's *)
(* recovery of that provider clears it, so the recovery gets the lock and    *)
(* ends (ws/admin_endpoints.go, recoverProvider).                            *)
RecoveryCompletes == CanaryCorrelation!RecoveryCompletes

(* The relay component alone.                                                *)
RelaySpec == Init /\ which = "RelaySession" /\ [][Next]_slots

(* A frame of a request that was already cleaned up is discarded: the read   *)
(* loop never sends on a channel that was closed since it looked the request *)
(* up (handleInferenceResponseChunk).                                        *)
LateChunkIsDiscarded == RelaySession!LateChunkIsDiscarded
=============================================================================
