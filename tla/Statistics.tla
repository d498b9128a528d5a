----------------------------- MODULE Statistics -----------------------------
(***************************************************************************)
(* Statistics, in three parts that share no state: the rollups, the mirror *)
(* of billing rows (prefix mirror) and the partner keys of the API (prefix *)
(* partner).                                                               *)
(***************************************************************************)
EXTENDS Integers, FiniteSets, TLC, Functions, FiniteSetsExt

-----------------------------------------------------------------------------
(***************************************************************************)
(* The leaderboard rollups of phase4-coordinator/internal/stats/rollup.    *)
(*                                                                         *)
(* Billing and reward rows arrive in PostgreSQL (the billing mirror copies *)
(* them, some time after they were created).  The 30-day and the all-time  *)
(* leaderboards are kept by incremental ticks: a tick recomputes only the  *)
(* providers with a row in the look-back before the last good tick, and    *)
(* those whose rows just aged out of the window.  Rows older than the      *)
(* look-back are noted in stats_late_events, and a nightly rebuild         *)
(* recomputes both tables.                                                 *)
(*                                                                         *)
(* An amount is abstracted to the set of rows it sums: table[w][p] is the  *)
(* set of rows counted in provider p's leaderboard row, {} for no row.     *)
(***************************************************************************)

CONSTANTS Ids,        \* source rows
          Owners,     \* whose rows they may be: functions Ids -> Providers
          Rewards,    \* those of provider_rewards_ledger (no creation time)
          Providers,  \* provider ids, ordered as integers
          Length,     \* length of the 30d window
          Lookback,   \* LateEventsLookbackHours
          Start, MaxTime, MaxCorrections,
          MaxRuns     \* ticks and rebuilds started

VARIABLES clock, owner, row, table, rank, okAt, tick, nightly, mu, lateLock, late,
          drift, dirty, exempt, corrections, runs

vars == <<clock, owner, row, table, rank, okAt, tick, nightly, mu, lateLock, late,
          drift, dirty, exempt, corrections, runs>>

Windows == {"30d", "all"}
NoRow == [prov |-> 0, ts |-> 0, arrived |-> 0, changed |-> 0, good |-> FALSE]
IdleTick == [pc |-> "idle", now |-> 0, last |-> 0, full |-> FALSE,
             want |-> [p \in Providers |-> {}], active |-> {}, cand |-> {}]
Asleep == [pc |-> "idle", now |-> 0, want |-> [w \in Windows |-> IdleTick.want]]
Present == {r \in Ids : row[r] # NoRow}

(* windowStart: the all-time window starts at the configured epoch. *)
WindowStart(w, now) == IF w = "30d" THEN now - Length ELSE 0

(* Provider p's rows in [start, end) that are neither faulted nor quarantined. *)
Rows(p, start, end) ==
  {r \in Present : /\ row[r].prov = p /\ row[r].good
                   /\ row[r].ts >= start /\ row[r].ts < end}

(* computeLeaderboardRows *)
ComputeRows(w, now) == [p \in Providers |-> Rows(p, WindowStart(w, now), now)]

(* assignRanks, recomputeRanksInTx: by amount, ties by provider id. *)
Above(t, p, q) == \/ Cardinality(t[p]) > Cardinality(t[q])
                  \/ Cardinality(t[p]) = Cardinality(t[q]) /\ p < q
Ranks(t) == [p \in Providers |->
               IF t[p] = {} THEN 0
               ELSE 1 + Cardinality({q \in Providers : t[q] # {} /\ Above(t, q, p)})]

(* queryActiveProvidersInLookback *)
ActiveIn(start, end) == {p \in Providers : Rows(p, start, end) # {}}

(* The providers one incremental tick recomputes. *)
ActiveProviders(w, last, now) ==
  ActiveIn(last - Lookback, now)
    \cup (IF w = "30d" THEN ActiveIn(WindowStart(w, last), WindowStart(w, now)) ELSE {})

(* deleteDropOuts: rows last seen before the window, unless just updated. *)
DropOuts(w, t, now, updated) ==
  {p \in Providers \ updated :
     /\ w = "30d" /\ t[p] # {}
     /\ Max({row[r].ts : r \in t[p]}) < WindowStart(w, now)}

(* The transaction of an incremental update: delete, upsert, re-rank. *)
Merge(w, t, k) ==
  LET updated == {p \in k.active : k.want[p] # {}}
      drops   == DropOuts(w, t, k.now, updated)
      merged  == [p \in Providers |->
                    IF p \in updated THEN k.want[p] ELSE IF p \in drops THEN {} ELSE t[p]]
  IN [table |-> merged, rank |-> Ranks(merged)]

(* The rollup has never run, or has just run; some rows are already there. *)
Init ==
  /\ clock = Start /\ owner \in Owners
  /\ \E have \in [Ids -> 0..Start] :
       row = [r \in Ids |-> IF have[r] = 0 THEN NoRow
                            ELSE [prov |-> owner[r], ts |-> have[r], arrived |-> 1,
                                  changed |-> 1, good |-> TRUE]]
  /\ okAt \in {[w \in Windows |-> t] : t \in {0, Start}}
  /\ table = [w \in Windows |-> IF okAt[w] = 0 THEN IdleTick.want ELSE ComputeRows(w, Start)]
  /\ rank = [w \in Windows |-> Ranks(table[w])]
  /\ tick = [w \in Windows |-> IdleTick] /\ nightly = Asleep
  /\ mu = "free" /\ lateLock = "free" /\ late = [r \in Ids |-> 0]
  /\ drift = {} /\ dirty = {} /\ exempt = {} /\ corrections = 0 /\ runs = 0

-----------------------------------------------------------------------------
(* The billing tables. *)

(* The latest time up to which window w's table is, or is being, computed. *)
Base(w) == Max({okAt[w]}
                 \cup (IF tick[w].pc = "read" THEN {tick[w].now} ELSE {})
                 \cup (IF nightly.pc = "read" THEN {nightly.now} ELSE {}))
Watermark(w) == Max({okAt[w], tick[w].now, nightly.now})

(* The mirror delivers a row: created just now, or one step ago. *)
Arrive(r, ts, created) ==
  /\ row[r] = NoRow /\ clock < MaxTime /\ clock' = clock + 1
  /\ row' = [row EXCEPT ![r] = [prov |-> owner[r], ts |-> ts, arrived |-> clock + 1,
                                changed |-> created, good |-> TRUE]]
  /\ dirty' = dirty \cup {<<w, owner[r]>> : w \in {v \in Windows : ts < Base(v) - Lookback}}
  /\ exempt' = exempt \cup {<<w, r>> : w \in {v \in Windows : created <= Watermark(v)}}
  /\ UNCHANGED <<owner, table, rank, okAt, tick, nightly, mu, lateLock, late, drift, corrections, runs>>

(* A correction quarantines a billing row or releases it again. *)
Correct(r) ==
  /\ row[r] # NoRow /\ r \notin Rewards
  /\ corrections < MaxCorrections /\ corrections' = corrections + 1
  /\ clock < MaxTime /\ clock' = clock + 1
  /\ row' = [row EXCEPT ![r].good = ~@, ![r].changed = clock + 1, ![r].arrived = clock + 1]
  /\ dirty' = dirty \cup {<<w, row[r].prov>> : w \in Windows}
  /\ UNCHANGED <<owner, table, rank, okAt, tick, nightly, mu, lateLock, late, drift, exempt, runs>>

Pass ==
  /\ clock < MaxTime /\ clock' = clock + 1
  /\ UNCHANGED <<owner, row, table, rank, okAt, tick, nightly, mu, lateLock, late, drift,
                 dirty, exempt, corrections, runs>>

-----------------------------------------------------------------------------
(* runLeaderboardIncrementalTick *)

(* The clock and last_ok_at are read before the mutex is taken. *)
TickStart(w) ==
  /\ tick[w].pc = "idle" /\ runs < MaxRuns /\ runs' = runs + 1
  /\ tick' = [tick EXCEPT ![w] = [IdleTick EXCEPT !.pc = "begun", !.now = clock, !.last = okAt[w]]]
  /\ UNCHANGED <<clock, owner, row, table, rank, okAt, nightly, mu, lateLock, late, drift,
                 dirty, exempt, corrections>>

(* Under leaderboardWriteMu: find the providers, compute their rows.  The first
   tick (last_ok_at is the epoch) recomputes everything. *)
TickRead(w) ==
  /\ tick[w].pc = "begun" /\ mu = "free" /\ mu' = w
  /\ tick' = [tick EXCEPT ![w].pc = "read", ![w].full = tick[w].last = 0,
                          ![w].want = ComputeRows(w, tick[w].now),
                          ![w].active = ActiveProviders(w, tick[w].last, tick[w].now)]
  /\ UNCHANGED <<clock, owner, row, table, rank, okAt, nightly, lateLock, late, drift,
                 dirty, exempt, corrections, runs>>

(* One transaction: the rows, the ranks and last_ok_at.  The bootstrap keeps the
   mutex until its late events are recorded, and looks for none before now. *)
TickCommit(w) ==
  LET k == tick[w]
      m == IF k.full THEN [table |-> k.want, rank |-> Ranks(k.want)] ELSE Merge(w, table[w], k)
  IN /\ k.pc = "read"
     /\ table' = [table EXCEPT ![w] = m.table]
     /\ rank' = [rank EXCEPT ![w] = m.rank]
     /\ okAt' = [okAt EXCEPT ![w] = k.now]
     /\ mu' = IF k.full THEN mu ELSE "free"
     /\ tick' = [tick EXCEPT ![w] = [IdleTick EXCEPT !.pc = "detect", !.now = k.now, !.full = k.full,
                                       !.last = IF k.full THEN k.now ELSE k.last]]
     /\ UNCHANGED <<clock, owner, row, nightly, lateLock, late, drift, dirty, exempt, corrections, runs>>

TickEnds(w) ==
  /\ tick' = [tick EXCEPT ![w] = IdleTick]
  /\ mu' = IF mu = w THEN "free" ELSE mu

(* A query or the commit fails; healthFail leaves last_ok_at alone. *)
TickFails(w) ==
  /\ tick[w].pc \in {"begun", "read"} /\ TickEnds(w)
  /\ UNCHANGED <<clock, owner, row, table, rank, okAt, nightly, lateLock, late, drift,
                 dirty, exempt, corrections, runs>>

(* Mutant: the anti-join runs without the advisory lock. *)
LateLockIgnored(w) == TRUE

(* pg_advisory_lock *)
LateLockFree(w) == lateLock = "free"

(* detectLateEvents: billing rows before the look-back, in the window, that
   arrived or were corrected since the previous good tick. *)
LateRows(w) ==
  {r \in Present \ Rewards :
     /\ row[r].good /\ late[r] = 0
     /\ row[r].ts < tick[w].now - Lookback /\ row[r].ts >= WindowStart(w, tick[w].now)
     /\ row[r].changed > tick[w].last}

DetectSelect(w) ==
  /\ tick[w].pc = "detect" /\ LateLockFree(w) /\ lateLock' = w
  /\ tick' = [tick EXCEPT ![w].pc = "insert", ![w].cand = LateRows(w)]
  /\ UNCHANGED <<clock, owner, row, table, rank, okAt, nightly, mu, late, drift,
                 dirty, exempt, corrections, runs>>

DetectInsert(w) ==
  /\ tick[w].pc = "insert" /\ lateLock' = "free"
  /\ late' = [r \in Ids |-> late[r] + IF r \in tick[w].cand THEN 1 ELSE 0]
  /\ TickEnds(w)
  /\ UNCHANGED <<clock, owner, row, table, rank, okAt, nightly, drift, dirty, exempt, corrections, runs>>

(* The detection fails; last_ok_at has already moved past these rows. *)
DetectFails(w) ==
  /\ tick[w].pc \in {"detect", "insert"}
  /\ lateLock' = IF tick[w].pc = "insert" THEN "free" ELSE lateLock
  /\ exempt' = exempt \cup {<<w, r>> : r \in LateRows(w)}
  /\ TickEnds(w)
  /\ UNCHANGED <<clock, owner, row, table, rank, okAt, nightly, late, drift, dirty, corrections, runs>>

-----------------------------------------------------------------------------
(* runNightlyRebuild *)

NightlyRead ==
  /\ nightly.pc = "idle" /\ mu = "free" /\ mu' = "nightly"
  /\ runs < MaxRuns /\ runs' = runs + 1
  /\ nightly' = [pc |-> "read", now |-> clock, want |-> [w \in Windows |-> ComputeRows(w, clock)]]
  /\ drift' = {}
  /\ UNCHANGED <<clock, owner, row, table, rank, okAt, tick, lateLock, late, dirty, exempt, corrections>>

(* emitDriftEvents: over the union of old and new rows (every difference of
   these small counts exceeds the threshold). *)
DriftOf(w, before, after) == {p \in Providers : Cardinality(before[p]) # Cardinality(after[p])}

(* Both tables and both health rows in one transaction; then the drift events. *)
NightlyCommit ==
  /\ nightly.pc = "read" /\ nightly' = Asleep /\ mu' = "free"
  /\ table' = nightly.want
  /\ rank' = [w \in Windows |-> Ranks(nightly.want[w])]
  /\ okAt' = [w \in Windows |-> nightly.now]
  /\ drift' = UNION {{<<w, p>> : p \in DriftOf(w, table[w], nightly.want[w])} : w \in Windows}
  /\ UNCHANGED <<clock, owner, row, tick, lateLock, late, dirty, exempt, corrections, runs>>

NightlyFails ==
  /\ nightly.pc = "read" /\ nightly' = Asleep /\ mu' = "free"
  /\ UNCHANGED <<clock, owner, row, table, rank, okAt, tick, lateLock, late, drift, dirty, exempt, corrections, runs>>

Next ==
  \/ \E r \in Ids, ts \in 1..MaxTime, lag \in 0..1 :
       ts <= clock + 1 /\ (r \in Rewards => lag = 0) /\ Arrive(r, ts, clock + 1 - lag)
  \/ \E r \in Ids : Correct(r)
  \/ Pass
  \/ \E w \in Windows : \/ TickStart(w) \/ TickRead(w) \/ TickCommit(w) \/ TickFails(w)
                        \/ DetectSelect(w) \/ DetectInsert(w) \/ DetectFails(w)
  \/ NightlyRead \/ NightlyCommit \/ NightlyFails

-----------------------------------------------------------------------------
TypeOK ==
  /\ clock \in 1..MaxTime /\ corrections \in 0..MaxCorrections /\ runs \in 0..MaxRuns
  /\ table \in [Windows -> [Providers -> SUBSET Ids]]
  /\ rank \in [Windows -> [Providers -> 0..Cardinality(Providers)]]
  /\ okAt \in [Windows -> 0..MaxTime] /\ late \in [Ids -> Nat]
  /\ mu \in Windows \cup {"free", "nightly"} /\ lateLock \in Windows \cup {"free"}
  /\ dirty \subseteq Windows \X Providers /\ exempt \subseteq Windows \X Ids

(* An incremental tick leaves a provider the row a full recomputation would have
   computed, unless one of that provider's rows arrived behind the look-back or was
   corrected, or a rebuild moved last_ok_at after the tick had read it
   (runIncrementalLeaderboardUpdate). *)
TickIsExactStep ==
     \A w \in Windows :
       tick[w].pc = "read" /\ tick'[w].pc = "detect" /\ tick[w].last = okAt[w]
         => \A p \in Providers : <<w, p>> \notin dirty => table'[w][p] = tick[w].want[p]

(* The ticks of both windows record a late row once (the advisory lock around the
   anti-join of detectLateEvents). *)
LateRecordedOnce == \A r \in Ids : late[r] <= 1

(* A provider whose row the nightly rebuild changes or drops is reported as drift
   (emitDriftEvents walks the old and the new rows). *)
DriftIsReportedStep ==
     \A w \in Windows, p \in Providers :
       nightly.pc = "read" /\ table'[w][p] # table[w][p]
         /\ Cardinality(table'[w][p]) # Cardinality(table[w][p]) /\ table' = nightly.want
       => <<w, p>> \in drift'

-----------------------------------------------------------------------------
(***************************************************************************)
(* The job that copies billing rows from the coordinator's SQLite file to  *)
(* PostgreSQL: phase4-coordinator/internal/stats/billingmirror/mirror.go.  *)
(*                                                                         *)
(* A run loads its two cursors, reads the rows after the first cursor, an  *)
(* overlap before it and a stretch of a sweep that walks round the whole   *)
(* table, and applies everything with the new cursors in one transaction.  *)
(* The advisory lock is taken only inside that transaction, so two runs    *)
(* (the timer's and an operator's) may read at the same time.              *)
(*                                                                         *)
(* A row is abstracted to a version number: 0 is no row, a correction of   *)
(* the billing ledger adds one.                                            *)
(***************************************************************************)

CONSTANTS Runs, MaxId, MaxVersion, BatchSize, MaxBatches, Overlap, SweepRows, MaxFails

VARIABLES source, mirror, mirrorLast, sweep, run, fails

mirrorVars == <<source, mirror, mirrorLast, sweep, run, fails>>

MirrorIds == 1..MaxId
NoRows == [i \in MirrorIds |-> 0]
Idle == [pc |-> "idle", last |-> 0, sweep |-> 0, top |-> 0, rows |-> NoRows,
         nextLast |-> 0, nextSweep |-> 0]

(* FetchMaxRequestCreditID *)
SourceMax == Max({0} \cup {i \in MirrorIds : source[i] > 0})

(* scanRequestCredits: the first n rows with after < id <= through. *)
Fetch(after, through, n) ==
  LET found == {i \in MirrorIds : source[i] > 0 /\ i > after /\ i <= through}
      first == {i \in found : Cardinality({j \in found : j < i}) < n}
  IN [i \in MirrorIds |-> IF i \in first THEN source[i] ELSE 0]

(* mergeRequestCredits: where both have a row, the second wins. *)
MergeCredits(a, b) == [i \in MirrorIds |-> IF b[i] > 0 THEN b[i] ELSE a[i]]

(* maxSQLiteID *)
MaxIdOf(rows, floor) == Max({floor} \cup {i \in MirrorIds : rows[i] > 0})

MirrorInit ==
  /\ source = NoRows /\ mirror = NoRows /\ mirrorLast = 0 /\ sweep = 0
  /\ run = [r \in Runs |-> Idle] /\ fails = 0

-----------------------------------------------------------------------------
(* The billing ledger: rows are appended and later re-priced or quarantined. *)
Append ==
  /\ SourceMax < MaxId
  /\ source' = [source EXCEPT ![SourceMax + 1] = 1]
  /\ UNCHANGED <<mirror, mirrorLast, sweep, run, fails>>

CorrectRow(i) ==
  /\ source[i] \in 1..(MaxVersion - 1)
  /\ source' = [source EXCEPT ![i] = @ + 1]
  /\ UNCHANGED <<mirror, mirrorLast, sweep, run, fails>>

-----------------------------------------------------------------------------
(* Run: LoadState, then the source's largest id. *)
LoadState(r) ==
  /\ run[r].pc = "idle"
  /\ run' = [run EXCEPT ![r] = [Idle EXCEPT !.pc = "new", !.last = mirrorLast, !.sweep = sweep,
                                            !.top = SourceMax]]
  /\ UNCHANGED <<source, mirror, mirrorLast, sweep, fails>>

NextLast(k, rows) == MaxIdOf(rows, k.last)

(* Up to MaxBatches batches of rows after the cursor. *)
FetchNew(r) ==
  LET rows == Fetch(run[r].last, MaxId, BatchSize * MaxBatches) IN
  /\ run[r].pc = "new"
  /\ run' = [run EXCEPT ![r].pc = "overlap", ![r].rows = rows,
                        ![r].nextLast = NextLast(run[r], rows)]
  /\ UNCHANGED <<source, mirror, mirrorLast, sweep, fails>>

(* The rows just before the cursor once more: recent rows change. *)
FetchOverlap(r) ==
  LET k == run[r]
      rows == IF k.last > 0 /\ Overlap > 0
              THEN Fetch(Max({k.last - Overlap, 0}), k.last, Min({BatchSize, Overlap}))
              ELSE NoRows
  IN /\ k.pc = "overlap"
     /\ run' = [run EXCEPT ![r].pc = "sweep", ![r].rows = MergeCredits(rows, k.rows)]
     /\ UNCHANGED <<source, mirror, mirrorLast, sweep, fails>>

SweepStart(k) == IF k.sweep >= k.top THEN 0 ELSE k.sweep

(* The next stretch of the sweep, which starts over at the end of the table. *)
FetchSweep(r) ==
  LET k     == run[r]
      start == SweepStart(k)
      rows  == Fetch(start, k.top, SweepRows)
      next  == MaxIdOf(rows, start)
  IN /\ k.pc = "sweep"
     /\ run' = [run EXCEPT ![r].pc = "apply",
                           ![r].rows = IF k.top > 0 THEN MergeCredits(k.rows, rows) ELSE k.rows,
                           ![r].nextSweep = IF k.top = 0 THEN k.sweep
                                           ELSE IF next >= k.top THEN 0 ELSE next]
     /\ UNCHANGED <<source, mirror, mirrorLast, sweep, fails>>

(* stats_billing_mirror_save_state: the cursor never goes back. *)
SavedLast(r) == Max({mirrorLast, run[r].nextLast})

(* Mutant: a row already mirrored is left as it is. *)
UpsertedOnce(rows) == MergeCredits(rows, mirror)

(* upsertRequestCredit overwrites. *)
Upserted(rows) == MergeCredits(mirror, rows)

(* Apply: advisory lock, upserts and SaveState in one transaction. *)
Apply(r) ==
  /\ run[r].pc = "apply" /\ run' = [run EXCEPT ![r] = Idle]
  /\ mirror' = Upserted(run[r].rows)
  /\ mirrorLast' = SavedLast(r) /\ sweep' = run[r].nextSweep
  /\ UNCHANGED <<source, fails>>

(* The run times out, a query fails, or another run holds the advisory lock. *)
RunFails(r) ==
  /\ run[r].pc # "idle" /\ fails < MaxFails /\ fails' = fails + 1
  /\ run' = [run EXCEPT ![r] = Idle]
  /\ UNCHANGED <<source, mirror, mirrorLast, sweep>>

RunStep(r) == LoadState(r) \/ FetchNew(r) \/ FetchOverlap(r) \/ FetchSweep(r) \/ Apply(r)

MirrorNext ==
  \/ Append \/ \E i \in MirrorIds : CorrectRow(i)
  \/ \E r \in Runs : RunStep(r) \/ RunFails(r)

(* The systemd timer starts a run every time the last one ended. *)
MirrorFair == \A r \in Runs : WF_mirrorVars(RunStep(r))

-----------------------------------------------------------------------------
MirrorTypeOK ==
  /\ source \in [MirrorIds -> 0..MaxVersion] /\ mirror \in [MirrorIds -> 0..MaxVersion]
  /\ mirrorLast \in 0..MaxId /\ sweep \in 0..MaxId /\ fails \in 0..MaxFails
  /\ \A r \in Runs : run[r].pc \in {"idle", "new", "overlap", "sweep", "apply"}

(* Every row up to the saved cursor is in the mirror, however large the backlog and
   however two runs interleave (Run, SaveState). *)
NoRowSkipped == \A i \in MirrorIds : i <= mirrorLast => mirror[i] > 0

(* Once the ledger stops changing, the mirror becomes equal to it and stays so: the
   sweep reaches corrections of rows older than the overlap, and undoes what an
   older run wrote over a newer one. *)
MirrorCatchesUpTo == mirror = source

-----------------------------------------------------------------------------
(***************************************************************************)
(* Partner keys of the statistics API: the operator's command line issues  *)
(* and revokes them in a table, and the HTTP side looks a request's key up *)
(* at every call, behind fixed-window rate limiters that reserve a slot    *)
(* before the work and give it back when the work does not count.          *)
(*                                                                         *)
(* One client address and one endpoint; a window is a minute.  A request   *)
(* reads the clock once, when it arrives, and uses that reading for every  *)
(* limiter it meets, so its reservations and refunds may reach a bucket    *)
(* after the minute has changed.                                           *)
(***************************************************************************)

CONSTANTS
  Keys,        \* partner keys: rows of the table and their tokens
  Requests,    \* requests
  Limit,       \* [bucket -> calls a minute], for "authfail", "public" and every key
  MaxBuckets, IdleTTL,  \* bounds of a limiter's map: entries, idle minutes
  MaxMinute, MaxCalls,  \* bounds on time and on the calls of a request slot
  None

VARIABLES
  minute,
  partnerRow,     \* [Keys -> None, or the row: revoked, delivered, announced]
  cli,     \* the operator's command in hand: [key, step], or None
  req,     \* [Requests -> None, or the request: step, at, bearer, as, late]
  win,     \* the limiters' windows: bucket -> [minute, count, seen]
  counted, \* history: <<bucket, minute>> -> calls that count against it and are over
  lost,    \* history: <<bucket, minute>> whose window was dropped
  calls    \* calls made

partnerVars == <<minute, partnerRow, cli, req, win, counted, lost, calls>>

Buckets == {"authfail", "public"} \cup Keys
Slots == Buckets \X (0..MaxMinute)

(* Each tier has a limiter of its own, so a map's bound is the tier's. *)
Tier(b) == IF b \in Keys THEN Keys ELSE {b}
-----------------------------------------------------------------------------
(* runPartnerKeysIssue: the row is inserted, the raw token delivered (to a  *)
(* file or to standard output), and only then the key announced.  A         *)
(* delivery that fails ends the command and leaves the row to be revoked.   *)
IssueInserts(k) ==
  /\ cli = None /\ partnerRow[k] = None
  /\ partnerRow' = [partnerRow EXCEPT ![k] = [revoked |-> FALSE, delivered |-> FALSE, announced |-> FALSE]]
  /\ cli' = [key |-> k, step |-> "deliver"]
  /\ UNCHANGED <<minute, req, win, counted, lost, calls>>
AfterDelivery(ok) == IF ok THEN [cli EXCEPT !.step = "announce"] ELSE None
IssueDelivers(ok) ==
  /\ cli # None /\ cli.step = "deliver"
  /\ partnerRow' = IF ok THEN [partnerRow EXCEPT ![cli.key].delivered = TRUE] ELSE partnerRow
  /\ cli' = AfterDelivery(ok)
  /\ UNCHANGED <<minute, req, win, counted, lost, calls>>
IssueAnnounces ==
  /\ cli # None /\ cli.step = "announce"
  /\ partnerRow' = [partnerRow EXCEPT ![cli.key].announced = TRUE]
  /\ cli' = None
  /\ UNCHANGED <<minute, req, win, counted, lost, calls>>
(* The command is interrupted. *)
IssueDies ==
  /\ cli # None /\ cli' = None
  /\ UNCHANGED <<minute, partnerRow, req, win, counted, lost, calls>>

(* runPartnerKeysRevoke: one UPDATE of a row that is not revoked. *)
Revoke(k) ==
  /\ partnerRow[k] # None /\ ~partnerRow[k].revoked
  /\ partnerRow' = [partnerRow EXCEPT ![k].revoked = TRUE]
  /\ UNCHANGED <<minute, cli, req, win, counted, lost, calls>>
-----------------------------------------------------------------------------
Has(b) == b \in DOMAIN win

(* sweepLocked: idle buckets go, then the longest unseen ones of the tier *)
(* until the map is within its bound.                                     *)
Sweeps(w, b, at) ==
  LET idle == {x \in DOMAIN w \cap Tier(b) : w[x].seen + IdleTTL < at}
      left == (DOMAIN w \cap Tier(b)) \ idle
      over == IF Cardinality(left) > MaxBuckets THEN Cardinality(left) - MaxBuckets ELSE 0
  IN {idle \cup gone : gone \in
        {g \in kSubset(over, left) : \A x \in g, y \in left \ g : w[x].seen <= w[y].seen}}

(* limiter.allow with the request's clock reading: a bucket of another minute *)
(* is replaced, whichever of the two minutes is the later.                    *)
Fresh(b, at) == ~Has(b) \/ win[b].minute # at
Allowed(b, at) == Fresh(b, at) \/ win[b].count < Limit[b]
Allow(b, at) ==
  IF Fresh(b, at)
  THEN LET w == (b :> [minute |-> at, count |-> 1, seen |-> at]) @@ win IN
       \E gone \in Sweeps(w, b, at) :
         /\ win' = Restrict(w, DOMAIN w \ gone)
         /\ lost' = lost \cup {<<x, win[x].minute>> : x \in DOMAIN win \cap (gone \cup {b})}
                         \cup (IF b \in gone THEN {<<b, at>>} ELSE {})
  ELSE /\ win' = [win EXCEPT ![b].seen = at, ![b].count = IF @ < Limit[b] THEN @ + 1 ELSE @]
       /\ UNCHANGED lost

(* limiter.refund: only in the window the slot was taken in. *)
Refunded(b, at) ==
  IF Has(b) /\ win[b].minute = at /\ win[b].count > 0
  THEN [win EXCEPT ![b].count = @ - 1] ELSE win

Count(b, at) == counted' = [counted EXCEPT ![<<b, at>>] = @ + 1]

(* A request arrives, with no Authorization header (None), a header that     *)
(* carries no known key ("bad") or the token of a delivered key.             *)
(* redactionContextMiddleware keeps the header out of the rest.              *)
PartnerArrive(r, bearer) ==
  /\ req[r] = None /\ calls < MaxCalls /\ calls' = calls + 1
  /\ bearer \in Keys => partnerRow[bearer] # None /\ partnerRow[bearer].delivered
  /\ req' = [req EXCEPT ![r] =
       [step |-> IF bearer = None THEN "limit" ELSE "reserve", at |-> minute, bearer |-> bearer,
        as |-> "public", late |-> bearer \in Keys /\ partnerRow[bearer].revoked]]
  /\ UNCHANGED <<minute, partnerRow, cli, win, counted, lost>>

At(r, step) == req[r] # None /\ req[r].step = step
Over(r) == req' = [req EXCEPT ![r] = None]

(* dispatch: the auth-failure tier takes a slot before the look-up. *)
Reserve(r) ==
  /\ At(r, "reserve")
  /\ Allow("authfail", req[r].at)
  /\ IF Allowed("authfail", req[r].at) THEN req' = [req EXCEPT ![r].step = "lookup"] ELSE Over(r)
  /\ UNCHANGED <<minute, partnerRow, cli, counted, calls>>

(* dispatchAuth: the key's row as it is now.  Whether the Origin is one the  *)
(* key allows is the request's.  A failing look-up and a success give the    *)
(* slot back; a refusal keeps it.                                            *)
Accepted(r) == req[r].bearer \in Keys /\ ~partnerRow[req[r].bearer].revoked
Lookup(r, errs, origin) ==
  /\ At(r, "lookup")
  /\ IF ~errs /\ (~Accepted(r) \/ ~origin)
     THEN Over(r) /\ UNCHANGED win /\ Count("authfail", req[r].at)
     ELSE /\ win' = Refunded("authfail", req[r].at)
          /\ UNCHANGED counted
          /\ IF errs THEN Over(r)
             ELSE req' = [req EXCEPT ![r].step = "limit", ![r].as = req[r].bearer]
  /\ UNCHANGED <<minute, partnerRow, cli, lost, calls>>

(* The request's own tier: the key's limit or the public one. *)
TakeSlot(r) ==
  /\ At(r, "limit")
  /\ Allow(req[r].as, req[r].at)
  /\ IF Allowed(req[r].as, req[r].at) THEN req' = [req EXCEPT ![r].step = "serve"] ELSE Over(r)
  /\ UNCHANGED <<minute, partnerRow, cli, counted, calls>>

(* The handler answers; an answer that is no success, a panic included, *)
(* gives the slot back.                                                 *)
Answer(r, success) ==
  /\ At(r, "serve")
  /\ IF success THEN Count(req[r].as, req[r].at) /\ UNCHANGED win
                ELSE win' = Refunded(req[r].as, req[r].at) /\ UNCHANGED counted
  /\ Over(r)
  /\ UNCHANGED <<minute, partnerRow, cli, lost, calls>>

Tick == minute < MaxMinute /\ minute' = minute + 1
        /\ UNCHANGED <<partnerRow, cli, req, win, counted, lost, calls>>
-----------------------------------------------------------------------------
PartnerInit ==
  /\ minute = 0 /\ partnerRow = [k \in Keys |-> None] /\ cli = None
  /\ req = [r \in Requests |-> None]
  /\ win = [b \in {} |-> None] /\ counted = [s \in Slots |-> 0] /\ lost = {} /\ calls = 0

PartnerNext ==
  \/ Tick \/ IssueAnnounces \/ IssueDies
  \/ \E ok \in BOOLEAN : IssueDelivers(ok)
  \/ \E k \in Keys : IssueInserts(k) \/ Revoke(k)
  \/ \E r \in Requests :
       \/ \E b \in Keys \cup {None, "bad"} : PartnerArrive(r, b)
       \/ Reserve(r) \/ TakeSlot(r)
       \/ \E x \in BOOLEAN : Answer(r, x) \/ \E o \in BOOLEAN : Lookup(r, x, o)
-----------------------------------------------------------------------------
(* The variables have the shape the code gives them. *)
PartnerTypeOK ==
  /\ minute \in 0..MaxMinute /\ lost \subseteq Slots
  /\ DOMAIN win \subseteq Buckets
  /\ \A b \in DOMAIN win : win[b].count \in 0..Limit[b] /\ win[b].minute <= minute
  /\ \A r \in Requests : req[r] # None =>
       req[r].step \in {"reserve", "lookup", "limit", "serve"} /\ req[r].at <= minute

(* The requests that hold a slot of bucket b taken in minute m. *)
Holding(b, m) ==
  Cardinality({r \in Requests : req[r] # None /\ req[r].at = m /\
    IF b = "authfail" THEN req[r].step = "lookup" ELSE req[r].step = "serve" /\ req[r].as = b})

(* A window says what happened in its minute, neither more nor less: the calls *)
(* that hold a slot and those that ended counting (refused keys for            *)
(* "authfail", successes for the others), however late the refunds come; and   *)
(* they are within the limit.  Except where the window itself was dropped.     *)
WindowIsExact ==
  \A s \in Slots : s \notin lost =>
    LET n == Holding(s[1], s[2]) + counted[s] IN
      /\ n <= Limit[s[1]]
      /\ Has(s[1]) /\ win[s[1]].minute = s[2] => win[s[1]].count = n

(* A call that arrives after the revocation is not served as the partner's: *)
(* no answer of the look-up outlives the row.                               *)
RevokedIsRefused ==
  \A r \in Requests : req[r] # None /\ req[r].as \in Keys => ~req[r].late
=============================================================================
