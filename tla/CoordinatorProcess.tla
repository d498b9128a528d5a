------------------------- MODULE CoordinatorProcess -------------------------
(***************************************************************************)
(* The coordinator process, in two parts that share no state: its life     *)
(* from start to exit, and the reload of its configuration (prefix         *)
(* reload).                                                                *)
(***************************************************************************)
EXTENDS Naturals, Sequences, FiniteSets

-----------------------------------------------------------------------------
(***************************************************************************)
(* The coordinator process from start to exit                              *)
(* (phase4-coordinator/cmd/coordinator/main.go, main and setupPayout):     *)
(* the order in which it opens what it needs, the payout lease it takes    *)
(* during the start, the two queues between the heartbeat handlers and the *)
(* audit log, the two ways out of the main loop (a signal, and a listener  *)
(* that failed, which runs no deferred call) and the deferred calls.  A    *)
(* supervisor starts the next process.                                     *)
(***************************************************************************)

CONSTANTS Kinds,       \* the audit queues: model swaps, receipt rotations
          Events,      \* the audit events of one process, of each kind
          QueueSize,   \* swapCh and receiptRotationCh hold 64 events
          MaxFails,    \* failed starts, failed listeners, failed shutdowns
          MaxStarts    \* processes

VARIABLES
    pc,        \* where main is
    payout,    \* payout.enabled
    stopped,   \* shutdownCtx is cancelled
    late,      \* the shutdown deadline has passed
    lease,     \* payout_runner_lease: free, mine, of a dead process, stale
    worker,    \* the payout runner and the reorg poller
    clean,     \* which of them Stop saw finish
    rollup,    \* the statistics goroutines
    pools,     \* their connection pools are open
    audit,     \* the audit store is open
    queue,     \* the audit queues
    drainer,   \* the goroutine that empties each
    event,     \* what became of each event
    early,     \* events put in a queue before the context was cancelled
    fails, starts

life  == <<pc, payout, fails, starts>>
money == <<lease, worker, clean>>
stats == <<rollup, pools>>
trail == <<audit, queue, drainer, event, early>>
ctx   == <<stopped, late>>
vars  == <<life, money, stats, trail, ctx>>

Workers == {"runner", "poller"}
Stages  == <<"stores", "stats", "rollup", "payout", "lease", "services", "serve">>
Exits   == {"failed", "fatal", "killed", "left"}
Gone    == pc \in Exits
Setting(f, x, y) == [f EXCEPT ![x] = y]

Init ==
    /\ pc = "stores" /\ payout \in BOOLEAN
    /\ stopped = FALSE /\ late = FALSE
    /\ lease = "free"
    /\ worker = [w \in Workers |-> "off"] /\ clean = {}
    /\ rollup = "off" /\ pools = FALSE /\ audit = FALSE
    /\ queue = [k \in Kinds |-> << >>] /\ drainer = [k \in Kinds |-> "off"]
    /\ event = [e \in Kinds \X Events |-> "none"] /\ early = {}
    /\ fails = 0 /\ starts = 1

\* The process ends.  Its goroutines end with it; the lease row stays.
Exit(how) ==
    /\ pc' = how
    /\ lease' = IF lease = "mine" THEN "old" ELSE lease
    /\ worker' = [w \in Workers |-> "off"]
    /\ rollup' = "off" /\ pools' = FALSE
    /\ audit' = FALSE /\ drainer' = [k \in Kinds |-> "off"]

----------------------------------------------------------------------------
(* The start.                                                              *)

\* Stores are opened and the billing flags and snapshot written; a failure
\* ends the process with os.Exit.
OpenStores ==
    /\ pc = "stores" /\ pc' = "stats"
    /\ audit' = TRUE
    /\ UNCHANGED <<payout, fails, starts, money, stats, queue, drainer, event, early, ctx>>

OpenStats ==
    /\ pc = "stats" /\ pc' = "rollup"
    /\ pools' = TRUE
    /\ UNCHANGED <<payout, fails, starts, money, rollup, trail, ctx>>

\* The rollup goroutines, and the drain goroutines of the two queues.
StartRollup ==
    /\ pc = "rollup" /\ pc' = "payout"
    /\ rollup' = "run"
    /\ drainer' = [k \in Kinds |-> "run"]
    /\ UNCHANGED <<payout, fails, starts, money, pools, audit, queue, event, early, ctx>>

\* The payout schema is migrated and checked either way.
SetupPayout ==
    /\ pc = "payout"
    /\ pc' = IF payout THEN "lease" ELSE "serve"
    /\ UNCHANGED <<payout, fails, starts, money, stats, trail, ctx>>

Acquirable == lease \in {"free", "stale"}

\* Acquire refuses a lease whose heartbeat is fresh, and the start fails.
AcquireLease ==
    /\ pc = "lease"
    /\ IF Acquirable
         THEN /\ pc' = "services" /\ lease' = "mine"
              /\ UNCHANGED <<worker, stats, audit, drainer>>
         ELSE Exit("failed")
    /\ UNCHANGED <<payout, fails, starts, clean, queue, event, early, ctx>>

\* Runner, abandon service, flag writer, ... , mux: all could be built.
BuildServices ==
    /\ pc = "services" /\ pc' = "serve"
    /\ UNCHANGED <<payout, fails, starts, money, stats, trail, ctx>>

\* One of them could not: the lease is released before the error is returned.
ServicesFail ==
    /\ pc = "services" /\ fails < MaxFails /\ fails' = fails + 1
    /\ pc' = "failed" /\ lease' = "free"
    /\ worker' = [w \in Workers |-> "off"]
    /\ rollup' = "off" /\ pools' = FALSE
    /\ audit' = FALSE /\ drainer' = [k \in Kinds |-> "off"]
    /\ UNCHANGED <<payout, starts, clean, queue, event, early, ctx>>

\* Anything before the lease that fails.
StartFails ==
    /\ pc \in {"stores", "stats", "rollup", "payout"}
    /\ fails < MaxFails /\ fails' = fails + 1
    /\ Exit("failed")
    /\ UNCHANGED <<payout, starts, clean, queue, event, early, ctx>>

\* setupPayout is done; workers start and the listeners are opened.  The
\* ASN table or the X client can still fail, with the lease held.
Serve ==
    /\ pc = "serve" /\ pc' = "loop"
    /\ worker' = IF payout THEN [w \in Workers |-> "idle"] ELSE worker
    /\ UNCHANGED <<payout, fails, starts, lease, clean, stats, trail, ctx>>

ServeFails ==
    /\ pc = "serve" /\ fails < MaxFails /\ fails' = fails + 1
    /\ Exit("fatal")
    /\ UNCHANGED <<payout, starts, clean, queue, event, early, ctx>>

----------------------------------------------------------------------------
(* The goroutines.                                                         *)

\* A cycle of the runner or the poller; each loop returns between two
\* cycles once its stop channel or the context is done.
WorkerCycles(w) ==
    /\ \/ worker[w] = "idle" /\ ~stopped /\ worker' = Setting(worker, w, "busy")
       \/ worker[w] = "busy" /\ worker' = Setting(worker, w, "idle")
       \/ worker[w] = "idle" /\ stopped /\ worker' = Setting(worker, w, "done")
    /\ UNCHANGED <<life, lease, clean, stats, trail, ctx>>

RollupStops ==
    /\ rollup = "run" /\ stopped /\ rollup' = "done"
    /\ UNCHANGED <<life, money, pools, trail, ctx>>

\* swapEmitter and receiptRotationEmitter look at the context first ...
EmitChecks(e) ==
    /\ ~Gone /\ event[e] = "none" /\ drainer[e[1]] # "off"
    /\ event' = Setting(event, e, IF stopped THEN "dropped" ELSE "checked")
    /\ UNCHANGED <<life, money, stats, audit, queue, drainer, early, ctx>>

\* ... and then send without waiting: a full queue drops the event.
EmitSends(e) ==
    /\ ~Gone /\ event[e] = "checked"
    /\ LET k == e[1]
           fits == Len(queue[k]) < QueueSize
       IN  /\ event' = Setting(event, e, IF fits THEN "queued" ELSE "dropped")
           /\ queue' = IF fits THEN Setting(queue, k, Append(queue[k], e)) ELSE queue
           /\ early' = IF fits /\ ~stopped THEN early \cup {e} ELSE early
    /\ UNCHANGED <<life, money, stats, audit, drainer, ctx>>

\* The drain goroutine takes one event and writes it.  A write that fails is
\* logged and not repeated; to a closed store every write fails.
DrainTakes(k, what) ==
    /\ drainer[k] \in {"run", "flush"} /\ queue[k] # << >>
    /\ event' = Setting(event, Head(queue[k]), what)
    /\ queue' = Setting(queue, k, Tail(queue[k]))
    /\ UNCHANGED <<pc, payout, starts, money, stats, audit, drainer, early, ctx>>

DrainWrites(k) ==
    /\ DrainTakes(k, IF audit THEN "written" ELSE "closed")
    /\ UNCHANGED fails

DrainWriteFails(k) ==
    /\ audit /\ fails < MaxFails /\ fails' = fails + 1
    /\ DrainTakes(k, "failed")

\* Once the context is done it empties the queue, then returns.
DrainEnds(k) ==
    /\ \/ drainer[k] = "run" /\ stopped /\ drainer' = Setting(drainer, k, "flush")
       \/ drainer[k] = "flush" /\ queue[k] = << >> /\ drainer' = Setting(drainer, k, "done")
    /\ UNCHANGED <<life, money, stats, audit, queue, event, early, ctx>>

----------------------------------------------------------------------------
(* The way out.                                                            *)

\* SIGTERM or SIGINT: stopBackground, then the payout workers.
Signal ==
    /\ pc = "loop" /\ stopped' = TRUE
    /\ pc' = IF payout THEN "stopRunner" ELSE "http"
    /\ UNCHANGED <<payout, fails, starts, money, stats, trail, late>>

\* A listener failed: logger.Fatal ends the process, no deferred call runs.
ListenerFails ==
    /\ pc = "loop" /\ fails < MaxFails /\ fails' = fails + 1
    /\ Exit("fatal")
    /\ UNCHANGED <<payout, starts, clean, queue, event, early, ctx>>

DeadlinePasses ==
    /\ pc \in {"stopRunner", "stopPoller", "http", "audit"} /\ ~late /\ fails < MaxFails
    /\ fails' = fails + 1 /\ late' = TRUE
    /\ UNCHANGED <<pc, payout, starts, money, stats, trail, stopped>>

\* Stop waits for the goroutine's end or for the deadline.
StopWorker(w, here, next) ==
    /\ pc = here /\ pc' = next
    /\ \/ worker[w] = "done" /\ clean' = clean \cup {w}
       \/ late /\ clean' = clean
    /\ UNCHANGED <<payout, fails, starts, lease, worker, stats, trail, ctx>>

(* Mutant: the reorg poller's answer is not looked at. *)
MayReleaseForRunner == "runner" \in clean

MayRelease == clean = Workers

\* Only when both have ended is the lease given back.
StopReleases ==
    /\ pc = "release" /\ pc' = "http"
    /\ lease' = IF MayRelease THEN "free" ELSE lease
    /\ late' = FALSE
    /\ UNCHANGED <<payout, fails, starts, worker, clean, stats, trail, stopped>>

\* DrainAll, the two HTTP servers, the sessions and their events: a Shutdown
\* that fails ends the process with os.Exit.
ShutdownServers ==
    /\ pc = "http"
    /\ IF late THEN Exit("killed")
               ELSE pc' = "audit" /\ UNCHANGED <<lease, worker, stats, audit, drainer>>
    /\ UNCHANGED <<payout, fails, starts, clean, queue, event, early, ctx>>

\* main waits for both drain goroutines, or for the deadline.
AwaitDrained ==
    /\ pc = "audit" /\ pc' = "defers"
    /\ (\A k \in Kinds : drainer[k] = "done") \/ late
    /\ UNCHANGED <<payout, fails, starts, money, stats, trail, ctx>>

\* The deferred calls: cancel, wait for the rollup, close the pools and
\* stores, in this order.
DeferCancel ==
    /\ pc = "defers" /\ pc' = "await" /\ stopped' = TRUE
    /\ UNCHANGED <<payout, fails, starts, money, stats, trail, late>>

DeferWait ==
    /\ pc = "await" /\ rollup = "done"
    /\ pc' = "close" /\ pools' = FALSE /\ audit' = FALSE
    /\ UNCHANGED <<payout, fails, starts, money, rollup, queue, drainer, event, early, ctx>>

Leave ==
    /\ pc = "close" /\ Exit("left")
    /\ UNCHANGED <<payout, fails, starts, clean, queue, event, early, ctx>>

----------------------------------------------------------------------------
(* The supervisor, and time.                                               *)

LeaseGoesStale ==
    /\ lease = "old" /\ lease' = "stale"
    /\ UNCHANGED <<life, worker, clean, stats, trail, ctx>>

Restart ==
    /\ Gone /\ (pc \in {"left", "killed", "fatal"} => starts < MaxStarts)
    /\ pc' = "stores"
    /\ starts' = IF pc = "failed" THEN starts ELSE starts + 1
    /\ stopped' = FALSE /\ late' = FALSE /\ clean' = {}
    /\ queue' = [k \in Kinds |-> << >>]
    /\ event' = [e \in Kinds \X Events |-> "none"] /\ early' = {}
    /\ UNCHANGED <<payout, fails, lease, worker, stats, audit, drainer>>

Start == \/ OpenStores \/ OpenStats \/ StartRollup \/ SetupPayout
         \/ AcquireLease \/ BuildServices \/ Serve
Stop  == \/ StopWorker("runner", "stopRunner", "stopPoller")
         \/ StopWorker("poller", "stopPoller", "release")
         \/ StopReleases \/ ShutdownServers \/ AwaitDrained
         \/ DeferCancel \/ DeferWait \/ Leave

Next ==
    \/ Start \/ ServicesFail \/ StartFails \/ ServeFails
    \/ \E w \in Workers : WorkerCycles(w)
    \/ RollupStops
    \/ \E e \in Kinds \X Events : EmitChecks(e) \/ EmitSends(e)
    \/ \E k \in Kinds : DrainWrites(k) \/ DrainWriteFails(k) \/ DrainEnds(k)
    \/ Signal \/ ListenerFails \/ DeadlinePasses \/ Stop
    \/ LeaseGoesStale \/ Restart

\* Main and the goroutines run; a worker ends its cycle; a dead process's
\* heartbeat ages.  No signal is promised.
Fair ==
    /\ WF_vars(Start) /\ WF_vars(Stop) /\ WF_vars(LeaseGoesStale)
    /\ WF_vars(RollupStops)
    /\ \A w \in Workers : WF_vars(stopped /\ WorkerCycles(w))
    /\ \A k \in Kinds : WF_vars(DrainWrites(k)) /\ WF_vars(DrainEnds(k))
    /\ WF_vars(pc = "failed" /\ Restart)

----------------------------------------------------------------------------
(* Every variable has its type. *)
TypeOK ==
    /\ pc \in {Stages[i] : i \in DOMAIN Stages} \cup Exits
              \cup {"loop", "stopRunner", "stopPoller", "release", "http", "audit",
                    "defers", "await", "close"}
    /\ lease \in {"free", "mine", "old", "stale"}
    /\ worker \in [Workers -> {"off", "idle", "busy", "done"}] /\ clean \subseteq Workers
    /\ rollup \in {"off", "run", "done"}
    /\ drainer \in [Kinds -> {"off", "run", "flush", "done"}]
    /\ \A k \in Kinds : Len(queue[k]) <= QueueSize

(* While the lease row is free, no runner and no reorg poller of this       *)
(* process is in a cycle: a second coordinator that takes the free row      *)
(* never pays beside the first (payoutStep2.stop releases only when both    *)
(* Stops saw the goroutine end).                                            *)
FreeLeaseIsUnused ==
    lease = "free" => \A w \in Workers : worker[w] \in {"off", "done"}

(* When main left through its waits without a timeout, every model swap or  *)
(* receipt rotation that was queued before the shutdown began has been      *)
(* written to the audit log, or its one write failed: none is left in the   *)
(* queue and none is tried on the closed store.                             *)
QueuedIsAudited ==
    pc = "defers" /\ ~late
        => \A e \in early : event[e] \in {"written", "failed"}

(* The statistics goroutines never run on a closed pool: the deferred Wait  *)
(* stands between their cancellation and the Close.                         *)
RollupHasItsPool == rollup = "run" => pools

(* Once a shutdown has begun the process ends: no wait of main waits for a  *)
(* goroutine nobody told to stop.                                           *)
ShutdownEndsFrom == pc \in {"stopRunner", "http", "defers"}
ShutdownEndsTo == Gone

(* A start that failed is followed by one that serves, or by the failures   *)
(* the model allows: a lease left by a dead process is taken over once it   *)
(* is stale.                                                                *)
StartsAgainFrom == pc = "failed"
StartsAgainTo == pc \in {"loop", "fatal"}

-----------------------------------------------------------------------------
(***************************************************************************)
(* The coordinator's reload of its configuration file on SIGHUP            *)
(* (cmd/coordinator/main.go, reloadCoordinatorConfig) with the billing     *)
(* store's half of it (internal/billing/snapshot.go, store.go): the        *)
(* snapshot row and the audit rows of the quarantine flags are committed   *)
(* together, the flags are published after the commit, the buyer's prices  *)
(* after the flags.  Buyers' calls are priced at any moment in between,    *)
(* the operator edits the file at any moment, signals coalesce in a        *)
(* channel of one, a commit may fail and the process may stop anywhere.    *)
(*                                                                         *)
(* A configuration is a record: the prices, the two flags, the tier-2      *)
(* section, whether it needs the evidence store, the start-up-only fields, *)
(* whether the file parses and whether its signed catalogue loads.         *)
(***************************************************************************)

CONSTANTS Configs,      \* the configuration files the operator writes
          MaxEdits,     \* bound: edits of the file
          MaxSignals,   \* bound: signals sent
          ReloadMaxFails,     \* bound: failed commits
          MaxCrashes,   \* bound: stops of the process
          None

VARIABLES file,      \* the file on disk
          started,   \* the configuration the process was started with
          wired,     \* the autotune catalogue and evidence store exist
          signal,    \* a SIGHUP waits in the signal channel
          reloadPc,        \* where the reload stands
          cand,      \* the configuration being applied
          tier2,     \* the tier-2 section of the catalogue, provider server, buyer server
          flags,     \* the quarantine flags in memory
          prices,    \* the buyer server's prices and the snapshot they name
          classes,   \* the configuration whose weights gate and classes are in force
          snaps,     \* ledger_config_snapshots
          audits,    \* the billing_config_flag_changed rows since the start
          credits,   \* the prices and snapshots credits were written with
          dirty,     \* a SIGHUP was sent after the last edit
          taken,     \* the file the last finished reload had read
          spent      \* edits, signals, failures and crashes so far

reloadVars == <<file, started, wired, signal, reloadPc, cand, tier2, flags, prices, classes,
                snaps, audits, credits, dirty, taken, spent>>

FlagNames == {"void", "credit"}

FlagsOf(c) == [f \in FlagNames |-> IF f = "void" THEN c.void ELSE c.credit]

(* The row InsertConfigSnapshot and ReloadBillingConfigV05 write. *)
SnapshotOf(c) == [rates |-> c.rates, flags |-> FlagsOf(c)]

(* snapshotByIDQueryer: what a recorded snapshot id stands for. *)
SnapshotById(i) == snaps[i]

----------------------------------------------------------------------------
(* telemetryDriftEvaluatorForReload and the hello gate's dependencies. *)
DependenciesWired(c) == c.needs => wired

(* tier2StartupFieldsChanged: a start-up-only tier-2 field may not move. *)
StartupFieldsChanged(c) == c.fixed # started.fixed

(* LoadForSIGHUPReload and the checks before anything is applied. *)
Acceptable(c) == c.valid /\ DependenciesWired(c) /\ ~StartupFieldsChanged(c)

(* ConfigureDefaultStrict: the new catalogue loads and passes its guards. *)
ConfigureDefaultStrict(c) == c.catalog

----------------------------------------------------------------------------
Spend(k) == spent' = [spent EXCEPT ![k] = @ + 1]

Limits == [edits |-> MaxEdits, signals |-> MaxSignals, fails |-> ReloadMaxFails, crashes |-> MaxCrashes]

May(k) == spent[k] < Limits[k]

Edit(c) ==
    /\ May("edits") /\ c # file
    /\ file' = c /\ dirty' = FALSE
    /\ Spend("edits")
    /\ UNCHANGED <<started, wired, signal, reloadPc, cand, tier2, flags, prices, classes, snaps, audits, credits, taken>>

(* signal.Notify drops a signal when the channel is full. *)
Delivered == signal' = 1

Hup ==
    /\ reloadPc # "down" /\ May("signals")
    /\ Delivered
    /\ dirty' = TRUE
    /\ Spend("signals")
    /\ UNCHANGED <<file, started, wired, reloadPc, cand, tier2, flags, prices, classes, snaps, audits, credits, taken>>

(* setQuarantineFlagEnabled with source "startup": no audit row. *)
StartupFlags(c) == flags' = FlagsOf(c) /\ audits' = <<>>

(* main: open the stores, publish the flags, insert the first snapshot. *)
ReloadStart ==
    /\ reloadPc = "down" /\ file.valid /\ file.catalog /\ DependenciesWired(file)
    /\ started' = file /\ taken' = file
    /\ StartupFlags(file)
    /\ snaps' = Append(snaps, SnapshotOf(file))
    /\ prices' = [rates |-> file.rates, id |-> Len(snaps) + 1]
    /\ tier2' = [catalog |-> file.tier2, ws |-> file.tier2, buyer |-> file.tier2]
    /\ classes' = file
    /\ reloadPc' = "idle"
    /\ UNCHANGED <<file, wired, signal, cand, credits, dirty, spent>>

Crash ==
    /\ reloadPc # "down" /\ May("crashes")
    /\ reloadPc' = "down" /\ signal' = 0 /\ cand' = None /\ dirty' = FALSE
    /\ Spend("crashes")
    /\ UNCHANGED <<file, started, wired, tier2, flags, prices, classes, snaps, audits, credits, taken>>

----------------------------------------------------------------------------
Take ==
    /\ reloadPc = "idle" /\ signal = 1
    /\ signal' = 0 /\ reloadPc' = "load"
    /\ UNCHANGED <<file, started, wired, cand, tier2, flags, prices, classes, snaps, audits, credits, dirty, taken, spent>>

Rejected(c) == reloadPc' = "idle" /\ cand' = None /\ taken' = c

Load ==
    /\ reloadPc = "load"
    /\ IF Acceptable(file)
       THEN reloadPc' = "catalog" /\ cand' = file /\ UNCHANGED taken
       ELSE Rejected(file)
    /\ UNCHANGED <<file, started, wired, signal, tier2, flags, prices, classes, snaps, audits, credits, dirty, spent>>

SwapCatalog ==
    /\ reloadPc = "catalog"
    /\ IF ConfigureDefaultStrict(cand)
       THEN /\ tier2' = [tier2 EXCEPT !.catalog = cand.tier2]
            /\ reloadPc' = "tier2" /\ UNCHANGED <<cand, taken>>
       ELSE Rejected(cand) /\ UNCHANGED tier2
    /\ UNCHANGED <<file, started, wired, signal, flags, prices, classes, snaps, audits, credits, dirty, spent>>

SetTier2Config ==
    /\ reloadPc = "tier2"
    /\ tier2' = [tier2 EXCEPT !.ws = cand.tier2, !.buyer = cand.tier2]
    /\ reloadPc' = "billing"
    /\ UNCHANGED <<file, started, wired, signal, cand, flags, prices, classes, snaps, audits, credits, dirty, taken, spent>>

(* One audit row per flag whose value moves. *)
FlagRows(c) ==
    LET row(f) == IF FlagsOf(c)[f] # flags[f]
                  THEN <<[flag |-> f, old |-> flags[f], new |-> FlagsOf(c)[f]]>> ELSE <<>>
    IN  row("void") \o row("credit")

FailReload ==
    /\ reloadPc = "billing" /\ May("fails")
    /\ Rejected(cand) /\ Spend("fails")
    /\ UNCHANGED <<file, started, wired, signal, tier2, flags, prices, classes, snaps, audits, credits, dirty>>

ReloadBillingConfigV05 ==
    /\ reloadPc = "billing"
    /\ snaps' = Append(snaps, SnapshotOf(cand))
    /\ audits' = audits \o FlagRows(cand)
    /\ reloadPc' = "publish"
    /\ UNCHANGED <<file, started, wired, signal, cand, tier2, flags, prices, classes, credits, dirty, taken, spent>>

(* The flags are published after the commit. *)
PublishFlags ==
    /\ reloadPc = "publish"
    /\ flags' = FlagsOf(cand)
    /\ reloadPc' = "prices"
    /\ UNCHANGED <<file, started, wired, signal, cand, tier2, prices, classes, snaps, audits, credits, dirty, taken, spent>>

SetBillingConfig ==
    /\ reloadPc = "prices"
    /\ prices' = [rates |-> cand.rates, id |-> Len(snaps)]
    /\ reloadPc' = "rest"
    /\ UNCHANGED <<file, started, wired, signal, cand, tier2, flags, classes, snaps, audits, credits, dirty, taken, spent>>

(* The weights gate, the hash statuses and the routing classes follow. *)
ApplyRest ==
    /\ reloadPc = "rest"
    /\ classes' = cand
    /\ Rejected(cand)
    /\ UNCHANGED <<file, started, wired, signal, tier2, flags, prices, snaps, audits, credits, dirty, spent>>

(* recordAndLog reads prices and snapshot under one lock. *)
Price ==
    /\ reloadPc # "down"
    /\ credits' = credits \cup {prices}
    /\ UNCHANGED <<file, started, wired, signal, reloadPc, cand, tier2, flags, prices, classes, snaps, audits, dirty, taken, spent>>

----------------------------------------------------------------------------
ReloadInit ==
    /\ file \in Configs /\ started = file /\ wired \in BOOLEAN
    /\ signal = 0 /\ reloadPc = "down" /\ cand = None
    /\ tier2 = [catalog |-> 0, ws |-> 0, buyer |-> 0]
    /\ flags = [f \in FlagNames |-> FALSE]
    /\ prices = [rates |-> 0, id |-> 0]
    /\ classes = None
    /\ snaps = <<>> /\ audits = <<>> /\ credits = {}
    /\ dirty = FALSE /\ taken = None
    /\ spent = [edits |-> 0, signals |-> 0, fails |-> 0, crashes |-> 0]

Reload == \/ Take \/ Load \/ SwapCatalog \/ SetTier2Config \/ ReloadBillingConfigV05
          \/ PublishFlags \/ SetBillingConfig \/ ApplyRest

ReloadNext ==
    \/ \E c \in Configs : Edit(c)
    \/ Hup \/ ReloadStart \/ Crash \/ Reload \/ FailReload \/ Price

(* The main goroutine's select loop: a waiting signal is taken and the
   reload it starts runs to its end. *)
ReloadFair == WF_reloadVars(Reload \/ FailReload)

ReloadTypeOK ==
    /\ file \in Configs /\ signal \in {0, 1}
    /\ reloadPc \in {"down", "idle", "load", "catalog", "tier2", "billing", "publish", "prices", "rest"}
    /\ cand \in Configs \cup {None} /\ taken \in Configs \cup {None}
    /\ flags \in [FlagNames -> BOOLEAN]
    /\ prices.id <= Len(snaps)

(* A credit names the snapshot that holds the prices it was computed with:
   the receipt path and the recovery scan re-price it from that row. *)
PricedByItsSnapshot == \A c \in credits : SnapshotById(c.id).rates = c.rates

(* Between reloads the newest snapshot row is the one in use: its prices are
   the buyer server's and its flags are those the handlers read, whatever
   was refused or failed before. *)
NewestSnapshotServes ==
    reloadPc = "idle" => /\ prices.id = Len(snaps)
                         /\ snaps[Len(snaps)] = [rates |-> prices.rates, flags |-> flags]

(* A file signalled after its last edit is read by a reload that ends, however
   many signals were dropped while an earlier reload ran. *)
SignalledFileIsReadFrom(c) == dirty /\ file = c
SignalledFileIsReadTo(c) == taken = c \/ file # c \/ reloadPc = "down"
=============================================================================
