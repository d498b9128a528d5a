---------------------------- MODULE PoolRegistry ----------------------------
(***************************************************************************)
(* The provider registry (pool/provider.go), in four parts that share no   *)
(* state: the life of an entry, the concurrency it claims (prefix clamp),  *)
(* what is kept of its models (prefix telemetry) and its receipt keys      *)
(* (prefix receipt).                                                       *)
(***************************************************************************)
EXTENDS Integers, FiniteSets, Functions, FiniteSetsExt

-----------------------------------------------------------------------------
(***************************************************************************)
(* The life of one provider in the coordinator's pool: the registry entry  *)
(* of pool/provider.go and everything that writes its state.  A provider   *)
(* reconnects under a new session each time; frames, timers, probes and    *)
(* buyer requests of an earlier session may still arrive.  Each registry   *)
(* method runs under the registry's lock and is one step; the handlers of  *)
(* ws/server.go and buyer/server.go around them are not.                   *)
(***************************************************************************)

CONSTANTS Sessions,      \* 1..n: assigned ids, in the order they are issued
          WarmupGate,    \* cfg.Pool.WarmupGateEnabled
          Threshold,     \* pool.breaker_failure_threshold
          MaxEvents      \* bound: faults and failures seen by buyers

VARIABLES
  entry,      \* providers[id]: [sess, state, auth, pinned]; sess = 0: absent
  hold,       \* recoveryHolds[id]: [sess, reason]; sess = 0: none
  faults,     \* Len(breakerFaults[id])
  recovered,  \* a breaker recovery lies within the breaker window
  sanction,   \* canarySanctions[id] is present
  conn,       \* where the handler of each session stands
  gate,       \* warmups[id]: the session with a pending gate, or 0
  warming,    \* sessions whose runWarmupGate goroutine still runs
  wake,       \* timers[id]: the session of the pending wake fallback, or 0
  probing,    \* sessions in the recovering map
  grace,      \* sessions whose removal timer runs
  events,     \* buyer-side faults so far
  retripped   \* history: sessions a breaker re-trip marked unavailable

pool == <<entry, hold, faults, recovered, sanction>>
server == <<conn, gate, warming, wake, probing, grace, events, retripped>>
vars == <<pool, server>>

States == {"ready", "busy", "degraded", "draining", "unavailable"}

\* Token shown, token minted in this hello, hello-gate sandbox admitted without
\* one, and no token although one exists.
Auths == {"bearer", "minted", "sandbox", "duplicate"}
Absent == [sess |-> 0, state |-> "unavailable", auth |-> "sandbox", pinned |-> FALSE]
NoHold == [sess |-> 0, reason |-> "none"]

Init ==
  /\ entry = Absent
  /\ hold = NoHold
  /\ faults = 0
  /\ recovered = FALSE
  /\ sanction \in BOOLEAN          \* LoadCanarySanctions at start-up
  /\ conn = [s \in Sessions |-> "none"]
  /\ gate = 0
  /\ warming = {}
  /\ wake = 0
  /\ probing = {}
  /\ grace = {}
  /\ events = 0
  /\ retripped = {}

Current(s) == entry.sess = s
Held == hold.sess # 0 /\ hold.sess = entry.sess

(***************************************************************************)
(* Registry methods (pool/provider.go)                                     *)
(***************************************************************************)
\* setStateLocked: an unavailable provider loses its breaker state and hold.
SetState(st) ==
  /\ entry' = [entry EXCEPT !.state = st]
  /\ IF st = "unavailable"
       THEN hold' = NoHold /\ faults' = 0 /\ recovered' = FALSE
       ELSE UNCHANGED <<hold, faults, recovered>>

CanSetCoordinatorState(st) == st = "ready" => ~Held /\ entry.state # "unavailable"

CanApplyProviderState(st) ==
  IF Held THEN st = "degraded" ELSE st = "ready" => entry.state # "unavailable"

(* Mutant: the session that asks is not compared with the entry's.         *)
MarkStateOfAnySession(s, st) ==
  IF entry.sess # 0 /\ CanSetCoordinatorState(st)
    THEN SetState(st) /\ UNCHANGED sanction
    ELSE UNCHANGED pool

MarkState(s, st) ==
  IF Current(s) /\ CanSetCoordinatorState(st)
    THEN SetState(st) /\ UNCHANGED sanction
    ELSE UNCHANGED pool

ApplyProviderState(s, st) ==
  IF Current(s) /\ CanApplyProviderState(st)
    THEN SetState(st) /\ UNCHANGED sanction
    ELSE UNCHANGED pool

MayDegradeForRecovery(s) == Current(s) /\ ~(Held /\ hold.reason = "canary")

MarkDegradedForRecovery(s, reason) ==
  IF MayDegradeForRecovery(s)
    THEN /\ entry' = [entry EXCEPT !.state = "degraded"]
         /\ hold' = [sess |-> s, reason |-> reason]
         /\ UNCHANGED <<faults, recovered, sanction>>
    ELSE UNCHANGED pool

MarkRecovered(s) ==
  IF Current(s) /\ Held /\ hold.reason # "canary"
    THEN /\ entry' = [entry EXCEPT !.state = "ready"]
         /\ faults' = 0
         /\ hold' = NoHold
         /\ recovered' = (recovered \/ hold.reason = "breaker")
         /\ UNCHANGED sanction
    ELSE UNCHANGED pool

RemoveEntry ==
  /\ entry' = Absent
  /\ hold' = NoHold
  /\ faults' = 0
  /\ recovered' = FALSE
  /\ UNCHANGED sanction

RoutingEligible == entry.state = "ready" /\ entry.auth \notin {"sandbox", "duplicate"}

\* The refusals of RegisterAtDetailed; the receipt-key refusal is in ReceiptKeys.
RegisterRefused(auth) ==
  /\ entry.sess # 0
  /\ \/ auth = "duplicate"
     \/ auth = "sandbox" /\ entry.auth \in {"bearer", "minted"}
     \/ entry.auth = "bearer" /\ RoutingEligible /\ auth # "bearer"

(* Mutant: the new session keeps the hold the old one was under.           *)
InstallKeepingHold(s, auth, pinned) ==
  /\ entry' = [sess |-> s, auth |-> auth, pinned |-> pinned,
               state |-> IF WarmupGate \/ (sanction /\ pinned) THEN "degraded" ELSE "ready"]
  /\ faults' = 0
  /\ recovered' = FALSE
  /\ hold' = IF sanction /\ pinned THEN [sess |-> s, reason |-> "canary"] ELSE hold
  /\ UNCHANGED sanction

\* What a successful registration installs, the canary sanction re-applied.
Install(s, auth, pinned) ==
  /\ entry' = [sess |-> s, auth |-> auth, pinned |-> pinned,
               state |-> IF WarmupGate \/ (sanction /\ pinned) THEN "degraded" ELSE "ready"]
  /\ faults' = 0
  /\ recovered' = FALSE
  /\ hold' = IF sanction /\ pinned THEN [sess |-> s, reason |-> "canary"] ELSE NoHold
  /\ UNCHANGED sanction

\* The faults still inside the window are some number of those recorded.
RecordBreakerFault(s, kept) ==
  IF ~Current(s) \/ entry.state \notin {"ready", "busy"}
    THEN UNCHANGED pool
    ELSE IF kept + 1 < Threshold
      THEN faults' = kept + 1 /\ UNCHANGED <<entry, hold, recovered, sanction>>
      ELSE IF recovered
        THEN SetState("unavailable") /\ UNCHANGED sanction
        ELSE /\ entry' = [entry EXCEPT !.state = "degraded"]
             /\ hold' = [sess |-> s, reason |-> "breaker"]
             /\ faults' = kept + 1
             /\ UNCHANGED <<recovered, sanction>>

Trips(s, kept) == Current(s) /\ entry.state \in {"ready", "busy"} /\ kept + 1 >= Threshold

(***************************************************************************)
(* Sessions: accept, acknowledge, read, lose (ws/server.go)                *)
(***************************************************************************)
Usable(s) == conn[s] \in {"greeting", "open"}
ClearedGate(s) == IF gate = s THEN 0 ELSE gate

\* registerProviderSession: install the entry and cut the session it replaces.
Register(s, auth, pinned) ==
  /\ conn[s] = "none"
  /\ \A t \in Sessions : t < s => conn[t] # "none"
  /\ IF RegisterRefused(auth)
       THEN conn' = [conn EXCEPT ![s] = "gone"] /\ UNCHANGED pool
       ELSE /\ Install(s, auth, pinned)
            /\ conn' = [t \in Sessions |-> CASE t = s -> "greeting"
                          [] t = entry.sess /\ conn[t] = "open" -> "closed"
                          [] t = entry.sess /\ conn[t] = "greeting" -> "cut"
                          [] OTHER -> conn[t]]
  /\ UNCHANGED <<gate, warming, wake, probing, grace, events, retripped>>

\* The hello ack is queued; the warm-up gate starts; the read loop begins.
Ack(s) ==
  /\ conn[s] = "greeting"
  /\ conn' = [conn EXCEPT ![s] = "open"]
  /\ gate' = IF WarmupGate THEN s ELSE gate
  /\ warming' = IF WarmupGate THEN warming \union {s} ELSE warming
  /\ UNCHANGED <<pool, wake, probing, grace, events, retripped>>

\* The session closed before its ack: the handler returns without ids, and
\* handleConn does not run handleDisconnect.
AckFails(s) ==
  /\ conn[s] = "cut"
  /\ conn' = [conn EXCEPT ![s] = "lost"]
  /\ UNCHANGED <<pool, gate, warming, wake, probing, grace, events, retripped>>

\* The peer goes away, or monitorHeartbeat closes a silent connection.
Lose(s) ==
  /\ Usable(s)
  /\ conn' = [conn EXCEPT ![s] = IF conn[s] = "open" THEN "closed" ELSE "cut"]
  /\ UNCHANGED <<pool, gate, warming, wake, probing, grace, events, retripped>>

HandleProviderWriteFailure(s) ==
  /\ Usable(s)
  /\ conn' = [conn EXCEPT ![s] = IF conn[s] = "open" THEN "closed" ELSE "cut"]
  /\ gate' = ClearedGate(s)
  /\ MarkState(s, "unavailable")
  /\ UNCHANGED <<warming, wake, probing, grace, events, retripped>>


HandleDisconnect(s) ==
  /\ conn[s] = "closed"
  /\ conn' = [conn EXCEPT ![s] = "gone"]
  /\ gate' = ClearedGate(s)
  /\ IF Current(s) /\ entry.state = "draining"
       THEN RemoveEntry /\ UNCHANGED grace
       ELSE /\ MarkState(s, "unavailable")
            /\ grace' = IF Current(s) THEN grace \union {s} ELSE grace
  /\ UNCHANGED <<warming, wake, probing, events, retripped>>

GraceExpires(s) ==
  /\ s \in grace
  /\ grace' = grace \ {s}
  /\ IF Current(s) THEN RemoveEntry ELSE UNCHANGED pool
  /\ UNCHANGED <<conn, gate, warming, wake, probing, events, retripped>>

(***************************************************************************)
(* What the provider reports                                               *)
(***************************************************************************)
\* While any gate of the provider is pending, "ready" is taken as "degraded".
Gated(st) == IF st = "ready" /\ gate # 0 THEN "degraded" ELSE st

Heartbeat(s, st) ==
  /\ conn[s] = "open"
  /\ ApplyProviderState(s, Gated(st))
  /\ UNCHANGED server

\* A heartbeat after a gap: the provider slept; degrade it, arm the fallback.
HeartbeatAfterWake(s) ==
  /\ conn[s] = "open"
  /\ Current(s)
  /\ gate = 0
  /\ MarkState(s, "degraded")
  /\ wake' = s
  /\ UNCHANGED <<conn, gate, warming, probing, grace, events, retripped>>

HandleStateUpdate(s, st) ==
  /\ conn[s] = "open"
  /\ ApplyProviderState(s, Gated(st))
  /\ wake' = IF Gated(st) = "ready" /\ Current(s) THEN 0 ELSE wake
  /\ UNCHANGED <<conn, gate, warming, probing, grace, events, retripped>>

WarmupFallback ==
  /\ wake # 0
  /\ IF gate # 0 THEN UNCHANGED pool ELSE MarkState(wake, "ready")
  /\ wake' = 0
  /\ UNCHANGED <<conn, gate, warming, probing, grace, events, retripped>>

HandleDrainStatus(s, phase) ==
  /\ conn[s] = "open"
  /\ IF phase = "starting" THEN MarkState(s, "draining") ELSE UNCHANGED pool
  /\ conn' = IF phase = "complete" THEN [conn EXCEPT ![s] = "closed"] ELSE conn
  /\ UNCHANGED <<gate, warming, wake, probing, grace, events, retripped>>

\* DrainAll, the blacklist and the rejection handler mark the live session.
Drain(s) ==
  /\ Current(s)
  /\ Usable(s)
  /\ MarkState(s, "draining")
  /\ UNCHANGED server

(***************************************************************************)
(* The warm-up gate, recovery probes and buyer-side failures               *)
(***************************************************************************)
WarmupPasses(s) ==
  /\ s \in warming
  /\ warming' = warming \ {s}
  /\ gate' = ClearedGate(s)
  /\ MarkState(s, "ready")
  /\ UNCHANGED <<conn, wake, probing, grace, events, retripped>>

\* An attempt that finds the gate taken over ends without effect.
WarmupSuperseded(s) ==
  /\ s \in warming
  /\ gate # s
  /\ warming' = warming \ {s}
  /\ UNCHANGED <<pool, conn, gate, wake, probing, grace, events, retripped>>

WarmupExhausted(s) ==
  /\ s \in warming
  /\ warming' = warming \ {s}
  /\ gate' = ClearedGate(s)
  /\ MarkState(s, "unavailable")
  /\ UNCHANGED <<conn, wake, probing, grace, events, retripped>>

Seen(s) == conn[s] # "none"
Counted == events < MaxEvents /\ events' = events + 1

\* A buyer request of session s meets a queue-full reply.
MarkBusy(s) ==
  /\ Counted
  /\ Seen(s)
  /\ MarkState(s, "busy")
  /\ UNCHANGED <<conn, gate, warming, wake, probing, grace, retripped>>

BreakerFault(s) ==
  /\ Counted
  /\ Seen(s)
  /\ \E kept \in 0..faults :
       /\ RecordBreakerFault(s, kept)
       /\ probing' = IF Trips(s, kept) /\ ~recovered THEN probing \union {s} ELSE probing
       /\ retripped' = IF Trips(s, kept) /\ recovered THEN retripped \union {s} ELSE retripped
  /\ UNCHANGED <<conn, gate, warming, wake, grace>>

\* 502 or 504: degrade and probe.
HandleProviderFailure(s) ==
  /\ Counted
  /\ Seen(s)
  /\ MarkDegradedForRecovery(s, "failure")
  /\ probing' = IF MayDegradeForRecovery(s) THEN probing \union {s} ELSE probing
  /\ UNCHANGED <<conn, gate, warming, wake, grace, retripped>>

\* 530 or a redirect: unavailable at once, and the connection is closed.
HandleProviderGone(s) ==
  /\ Counted
  /\ Seen(s)
  /\ MarkState(s, "unavailable")
  /\ conn' = IF ~Current(s) THEN conn ELSE
       [conn EXCEPT ![s] = CASE conn[s] = "open" -> "closed"
                             [] conn[s] = "greeting" -> "cut"
                             [] OTHER -> conn[s]]
  /\ UNCHANGED <<gate, warming, wake, probing, grace, retripped>>

\* The probe's preflight needs the live session of the current entry.
ProbeAccepted(s) ==
  /\ s \in probing
  /\ Current(s) /\ Usable(s)
  /\ MarkRecovered(s)
  /\ probing' = probing \ {s}
  /\ UNCHANGED <<conn, gate, warming, wake, grace, events, retripped>>

ProbeExhausted(s) ==
  /\ s \in probing
  /\ MarkState(s, "unavailable")
  /\ probing' = probing \ {s}
  /\ UNCHANGED <<conn, gate, warming, wake, grace, events, retripped>>

\* The breaker window passes since the last recovery.
BreakerWindowPasses ==
  /\ recovered
  /\ recovered' = FALSE
  /\ UNCHANGED <<entry, hold, faults, sanction, server>>

(***************************************************************************)
(* Canary results that change the entry, and the operator's clear          *)
(***************************************************************************)
CanaryApplies == /\ entry.sess # 0
                 /\ entry.state \notin {"draining", "unavailable"}
                 /\ Held /\ hold.reason = "canary" => entry.state = "degraded"

CanaryTrip ==
  /\ CanaryApplies
  /\ IF entry.pinned
       THEN /\ entry' = [entry EXCEPT !.state = "degraded"]
            /\ hold' = [sess |-> entry.sess, reason |-> "canary"]
            /\ sanction' = TRUE
            /\ UNCHANGED <<faults, recovered>>
       ELSE SetState("unavailable") /\ UNCHANGED sanction
  /\ UNCHANGED server

CanaryPass ==
  /\ CanaryApplies
  /\ sanction' = FALSE
  /\ IF Held /\ hold.reason = "canary"
       THEN /\ hold' = NoHold
            /\ entry' = [entry EXCEPT !.state = "ready"]
       ELSE UNCHANGED <<entry, hold>>
  /\ UNCHANGED <<faults, recovered, server>>

ClearCanarySanction ==
  /\ sanction' = FALSE
  /\ hold' = IF hold.reason # "canary" THEN hold
             ELSE IF Held /\ entry.state = "degraded"
               THEN [hold EXCEPT !.reason = "operator_clear"] ELSE NoHold
  /\ UNCHANGED <<entry, faults, recovered, server>>

Next ==
  \/ \E s \in Sessions, auth \in Auths, pinned \in BOOLEAN : Register(s, auth, pinned)
  \/ \E s \in Sessions : Ack(s) \/ AckFails(s) \/ Lose(s) \/ HandleProviderWriteFailure(s)
                      \/ HandleDisconnect(s) \/ GraceExpires(s)
  \/ \E s \in Sessions, st \in States : Heartbeat(s, st) \/ HandleStateUpdate(s, st)
  \/ \E s \in Sessions, phase \in {"starting", "complete"} : HandleDrainStatus(s, phase)
  \/ \E s \in Sessions : HeartbeatAfterWake(s) \/ Drain(s)
  \/ \E s \in Sessions : WarmupPasses(s) \/ WarmupSuperseded(s) \/ WarmupExhausted(s)
  \/ \E s \in Sessions : MarkBusy(s) \/ BreakerFault(s) \/ HandleProviderFailure(s)
                      \/ HandleProviderGone(s)
  \/ \E s \in Sessions : ProbeAccepted(s) \/ ProbeExhausted(s)
  \/ WarmupFallback \/ BreakerWindowPasses
  \/ CanaryTrip \/ CanaryPass \/ ClearCanarySanction

\* Handlers of closed connections finish, and removal timers fire.
Fair == \A s \in Sessions : WF_vars(HandleDisconnect(s)) /\ WF_vars(GraceExpires(s))

(***************************************************************************)
(* Properties                                                              *)
(***************************************************************************)
TypeOK ==
  /\ entry \in [sess : Sessions \union {0}, state : States, auth : Auths, pinned : BOOLEAN]
  /\ hold \in [sess : Sessions \union {0},
               reason : {"none", "breaker", "failure", "canary", "operator_clear"}]
  /\ faults \in 0..MaxEvents
  /\ {gate, wake} \subseteq Sessions \union {0}
  /\ (warming \union probing \union grace) \subseteq Sessions

(* A recovery hold always belongs to the session that is registered now:   *)
(* a reconnect, a removal or an unavailable mark never leaves behind a hold*)
(* that later callbacks of the old session could lift or suffer.           *)
HoldIsCurrent == hold.sess # 0 => hold.sess = entry.sess

(* A held session is never routable: neither its own heartbeats and state  *)
(* updates, nor a warm-up gate, nor a wake fallback timer, makes it ready  *)
(* before the probe, the canary or a reconnect lifts the hold.             *)
HeldIsNotRoutable == Held => entry.state # "ready"

(* A callback that still runs for a replaced session - a probe, a gate, a  *)
(* timer, a buyer's late failure, its own disconnect - leaves the entry of *)
(* the session that replaced it alone.                                     *)
StaleSessionsAreInertStep ==
     \A s \in Sessions :
       /\ ~Current(s)
       /\ \/ conn[s] = "closed" /\ conn'[s] = "gone"
          \/ s \in (probing \ probing') \union (warming \ warming') \union (grace \ grace')
       => entry' = entry

(* The entry of a connection that is closed after its hello was answered   *)
(* is removed or replaced: a provider that went away does not stay in the  *)
(* pool.  A connection lost before the answer is no part of this: its      *)
(* handler returns without the ids handleDisconnect needs (AckFails), and  *)
(* its entry stays until the provider registers again.                     *)
DeadEntriesLeaveFrom(s) == entry.sess = s /\ conn[s] \in {"closed", "gone"}
DeadEntriesLeaveTo(s) == entry.sess # s

-----------------------------------------------------------------------------
(***************************************************************************)
(* The concurrency a provider claims, as the registry keeps it: every      *)
(* hello, heartbeat and state update passes through ClampCapacity          *)
(* (pool/capacity_clamp.go, ws/server.go) before the router sees it.       *)
(***************************************************************************)

CONSTANT Ceiling   \* the operator's ceiling, at least 1

VARIABLES cap,    \* MaxConcurrency, SlotsTotal and SlotsFree of the entry
          used    \* history: the slots in use by the last report, -1 when it named one number

clampVars == <<cap, used>>

Claims == -1 .. Ceiling + 2   \* the numbers a provider may report

AtLeast(n, low) == IF n < low THEN low ELSE n
AtMost(n, high) == IF n > high THEN high ELSE n

ClampCapacity(max, total, free, ceiling) ==
  LET m == AtLeast(AtMost(max, ceiling), 1)
      t == AtLeast(AtMost(total, m), 0)
      busy == AtMost(AtLeast(total - free, 0), t)
  IN [max |-> m, total |-> t, free |-> AtLeast(AtMost(free, t - busy), 0)]

ClampInit ==
  /\ cap \in {ClampCapacity(m, t, f, Ceiling) : m \in Claims, t \in Claims, f \in Claims}
  /\ used = cap.total - cap.free

\* A heartbeat reports all three numbers.
Report(max, total, free) ==
  /\ cap' = ClampCapacity(max, total, free, Ceiling)
  /\ used' = AtLeast(total - free, 0)

\* CurrentMaxConcurrency, when it is the tighter bound
Reference == IF 0 < cap.max /\ cap.max < Ceiling THEN cap.max ELSE Ceiling

\* clampStateUpdateSlots: either number may be absent (-2 stands for nil),
\* and an absent one is left as it was.
StateUpdate(total, free) ==
  LET r == Reference
      c == ClampCapacity(r, IF total = -2 THEN r ELSE total, IF free = -2 THEN r ELSE free, r)
  IN /\ cap' = [cap EXCEPT !.total = IF total = -2 THEN @ ELSE c.total,
                           !.free = IF free = -2 THEN @ ELSE c.free]
     /\ used' = IF total = -2 \/ free = -2 THEN -1 ELSE AtLeast(total - free, 0)

ClampNext ==
  \/ \E max, total, free \in Claims : Report(max, total, free)
  \/ \E total, free \in Claims \union {-2} : StateUpdate(total, free)

ClampTypeOK == cap \in [max : Int, total : Int, free : Int]

(* Whatever sequence of reports arrives, the router never sees more slots  *)
(* than the provider's own claim and the operator's ceiling allow, also    *)
(* when a state update names only one of the two numbers.                  *)
SlotsAreBounded ==
  /\ 1 <= cap.max /\ cap.max <= Ceiling
  /\ 0 <= cap.total /\ cap.total <= cap.max
  /\ 0 <= cap.free /\ cap.free <= cap.max

(* Clamping hides no work in progress: a report that has slots in use      *)
(* leaves as many of the clamped slots taken, or all of them.              *)
UsedSlotsStayTaken == used >= 0 => cap.total - cap.free >= AtMost(used, cap.total)

-----------------------------------------------------------------------------
(***************************************************************************)
(* What the registry keeps of the models providers claim (pool/provider.go)*)
(* - the models seen per provider, the lifetime set that decides between   *)
(* "unknown model" and "no provider now", its caps - and the model swaps   *)
(* that its heartbeats report.                                             *)
(***************************************************************************)

CONSTANTS Providers, Models,
          MaxPerProvider,   \* maxSeenModelsPerProvider
          MaxContrib,       \* maxLifetimeContribPerProvider
          MaxLifetime,      \* maxSeenModelsLifetime
          MaxLoads          \* bound on model loads

VARIABLES telemetryEntry,     \* per provider: NoEntry or what it last reported
          seen,      \* seenModelsByProvider
          lifetime,  \* seenModelsLifetime
          contrib,   \* lifetimeContribByProvider
          loads,     \* history: loads begun per provider
          swaps      \* history: SwapEvents emitted per provider

telemetryVars == <<telemetryEntry, seen, lifetime, contrib, loads, swaps>>

NoEntry == [model |-> "none", supported |-> {}, loading |-> FALSE]

TelemetryInit ==
  /\ telemetryEntry = [p \in Providers |-> NoEntry]
  /\ seen = [p \in Providers |-> {}]
  /\ lifetime = {}
  /\ contrib = [p \in Providers |-> 0]
  /\ loads = [p \in Providers |-> 0]
  /\ swaps = [p \in Providers |-> 0]

Registered(p) == telemetryEntry[p] # NoEntry

(***************************************************************************)
(* recordSeenModelLocked, for every model of one report in turn            *)
(***************************************************************************)
RecordSeen(acc, p, m) ==
  LET set == IF Cardinality(acc.seen) < MaxPerProvider THEN acc.seen \union {m} ELSE acc.seen
      adds == /\ m \notin acc.life
              /\ acc.contrib < MaxContrib
              /\ Cardinality(acc.life) < MaxLifetime
  IN [seen |-> set,
      life |-> IF adds THEN acc.life \union {m} ELSE acc.life,
      contrib |-> IF adds THEN acc.contrib + 1 ELSE acc.contrib]

\* recordSeenModelsUnionLocked: the model in use, then the supported ones.
RecordSeenUnion(p, base, m, supported) ==
  LET first == RecordSeen([seen |-> base, life |-> lifetime, contrib |-> contrib[p]], p, m)
      all == FoldSet(LAMBDA s, acc : RecordSeen(acc, p, s), first, supported)
  IN /\ seen' = [seen EXCEPT ![p] = all.seen]
     /\ lifetime' = all.life
     /\ contrib' = [contrib EXCEPT ![p] = all.contrib]

(***************************************************************************)
(* Operations                                                              *)
(***************************************************************************)
\* RegisterAtDetailed starts the provider's own set anew.
TelemetryRegister(p, m, supported) ==
  /\ telemetryEntry' = [telemetryEntry EXCEPT ![p] = [model |-> m, supported |-> supported, loading |-> FALSE]]
  /\ RecordSeenUnion(p, {}, m, supported)
  /\ UNCHANGED <<loads, swaps>>

ApplyLoading(p, loading) == loading

\* applyHeartbeatLocked: a swap completes when a load that was reported ends
\* with another model in place.
ApplyHeartbeat(p, m, loading, hashed) ==
  LET completes == hashed /\ telemetryEntry[p].loading /\ ~loading /\ m # telemetryEntry[p].model
      begins == loading /\ ~telemetryEntry[p].loading
  IN /\ Registered(p)
     /\ begins => loads[p] < MaxLoads
     /\ telemetryEntry' = [telemetryEntry EXCEPT ![p] = [model |-> m, supported |-> @.supported,
                                                         loading |-> ApplyLoading(p, loading)]]
     /\ loads' = [loads EXCEPT ![p] = IF begins THEN @ + 1 ELSE @]
     /\ swaps' = [swaps EXCEPT ![p] = IF completes THEN @ + 1 ELSE @]
     /\ RecordSeenUnion(p, seen[p], m, telemetryEntry[p].supported)

Remove(p) ==
  /\ Registered(p)
  /\ telemetryEntry' = [telemetryEntry EXCEPT ![p] = NoEntry]
  /\ seen' = [seen EXCEPT ![p] = {}]
  /\ UNCHANGED <<lifetime, contrib, loads, swaps>>

ModelKnown(m) ==
  \/ m \in lifetime
  \/ \E p \in Providers : telemetryEntry[p].model = m \/ m \in telemetryEntry[p].supported \/ m \in seen[p]

TelemetryNext ==
  \E p \in Providers :
    \/ Remove(p)
    \/ \E m \in Models :
         \/ \E supported \in SUBSET Models : Cardinality(supported) <= 1 /\ TelemetryRegister(p, m, supported)
         \/ \E loading, hashed \in BOOLEAN : ApplyHeartbeat(p, m, loading, hashed)

(***************************************************************************)
(* Properties                                                              *)
(***************************************************************************)
TelemetryTypeOK ==
  /\ lifetime \subseteq Models
  /\ \A p \in Providers : seen[p] \subseteq Models /\ contrib[p] \in Nat

(* Every model of the lifetime set was paid for by exactly one provider's  *)
(* contribution, and the caps hold, so one provider that names many models *)
(* cannot use up the others' share.                                        *)
LifetimeIsAccounted ==
  /\ Cardinality(lifetime) = FoldFunction(LAMBDA a, b : a + b, 0, contrib)
  /\ Cardinality(lifetime) <= MaxLifetime
  /\ \A p \in Providers : contrib[p] <= MaxContrib /\ Cardinality(seen[p]) <= MaxPerProvider

(* A model a connected provider serves or supports is known, also when     *)
(* every cap had been reached before it was named.                         *)
ServedModelsAreKnown ==
  \A p \in Providers : Registered(p) =>
    \A m \in telemetryEntry[p].supported \union {telemetryEntry[p].model} : ModelKnown(m)

(* A swap is reported at most once for each load a provider began.         *)
OneSwapPerLoad == \A p \in Providers : swaps[p] <= loads[p]

-----------------------------------------------------------------------------
(***************************************************************************)
(* The receipt verification keys the coordinator publishes for a provider  *)
(* (pool/provider.go).  A key offered in a hello is staged, published by   *)
(* the provider's first state update, and on a rotation the key it         *)
(* replaces stays published for a grace period.                            *)
(***************************************************************************)

CONSTANTS Keys, Grace, MaxTime

VARIABLES key,      \* ReceiptPubkey, or "none"
          pending,  \* PendingReceiptPubkey, or "none"
          prev,     \* ReceiptPubkeyPrev: [key, until]
          present,  \* the provider is in the registry
          now,
          rotated   \* history: the last rotation, [key, until]

receiptVars == <<key, pending, prev, present, now, rotated>>

None == "none"
NoPrev == [key |-> None, until |-> 0]

ReceiptInit ==
  /\ key = None
  /\ pending = None
  /\ prev = NoPrev
  /\ present = FALSE
  /\ now = 0
  /\ rotated = NoPrev

\* activeReceiptPubkeyPrev
ActivePrev == IF now < prev.until THEN prev ELSE NoPrev

Set(k, p, old) == key' = k /\ pending' = p /\ prev' = old

\* stageReceiptPublicationLocked: not enabled when the hello is refused.  No
\* caller registers a provider that brings an earlier key with it (incomingPrev).
StageReceiptPublication(k) ==
  IF ~present \/ k = None THEN Set(None, k, NoPrev)
  ELSE IF key = None THEN pending \in {None, k} /\ Set(None, k, NoPrev)
  ELSE IF key = k THEN Set(key, None, ActivePrev)
  ELSE IF pending # None THEN pending = k /\ Set(key, k, ActivePrev)
  ELSE ActivePrev = NoPrev /\ Set(key, k, NoPrev)

Connect(k) ==
  /\ StageReceiptPublication(k)
  /\ present' = TRUE
  /\ rotated' = IF present /\ k # None THEN rotated ELSE NoPrev
  /\ UNCHANGED now

\* commitPendingReceiptPubkeyLocked, at the provider's state update
ReceiptStateUpdate ==
  LET replaces == key # None /\ pending # None /\ key # pending
      old == [key |-> key, until |-> now + Grace]
  IN /\ present
     /\ prev' = IF replaces THEN old ELSE ActivePrev
     /\ key' = IF pending # None THEN pending ELSE key
     /\ pending' = None
     /\ rotated' = IF replaces THEN old ELSE rotated
     /\ UNCHANGED <<present, now>>

\* RemoveIfSession: the keys go with the entry.
ReceiptRemove ==
  /\ present
  /\ Set(None, None, NoPrev)
  /\ present' = FALSE
  /\ rotated' = NoPrev
  /\ UNCHANGED now

Tick ==
  /\ now < MaxTime
  /\ now' = now + 1
  /\ UNCHANGED <<key, pending, prev, present, rotated>>

\* handleReceiptKeys: what a verifier can fetch now.
Published == {key, ActivePrev.key} \ {None}

ReceiptNext == Tick \/ ReceiptRemove \/ ReceiptStateUpdate \/ \E k \in Keys \union {None} : Connect(k)

ReceiptTypeOK ==
  /\ {key, pending, prev.key} \subseteq Keys \union {None}
  /\ prev.until \in 0..(MaxTime + Grace)

(* A provider has at most one rotation in hand: while one published key is *)
(* waiting to be replaced, no earlier key is still in its grace period, so *)
(* a verifier never needs a third key.                                     *)
OneRotationAtATime == key # None /\ pending # None => ActivePrev = NoPrev

(* Through reconnects and state updates, the key that the last rotation    *)
(* replaced can be fetched until its grace period ends.                    *)
GraceIsHonoured == present /\ now < rotated.until => rotated.key \in Published
=============================================================================
