-------------------------- MODULE PayoutOperations --------------------------
(***************************************************************************)
(* What surrounds the payout runner, in four parts that share no state:    *)
(* the hot wallet's books, the alert for a failing endpoint (prefix        *)
(* outage), the pause flag (prefix flag) and the tuning values (prefix     *)
(* tuning).                                                                *)
(***************************************************************************)
EXTENDS Integers, Sequences, FiniteSets, FiniteSetsExt, SequencesExt

-----------------------------------------------------------------------------
(***************************************************************************)
(* The hot wallet's books: the operator records deposits                   *)
(* (payout/funding.go), payments are mined and later marked confirmed, and *)
(* the chain-balance worker (payout/reconcile.go) compares the balance on  *)
(* the chain with funded minus confirmed and halts the runner on a         *)
(* shortfall. The worker reads the chain first and the database later.     *)
(***************************************************************************)

CONSTANTS Deposits,     \* deposits the operator may make or claim to have made
          Payments,     \* transactions of the runner
          Cancels,      \* those of them that are cancelling self-transfers
          Size,         \* what each moves: nothing for a cancel
          Tolerance,    \* chain_recon_tolerance_usdc_base_units
          MaxReorgs

Spellings == {"lower", "mixed"}   \* hex digits may be written either way
NoProbe == [pc |-> "idle", balance |-> 0, deposited |-> {}, mined |-> {}]

VARIABLES deposited,    \* deposits mined
          mined,        \* payments mined
          confirmed,    \* payout_attempts.confirmed_at_utc
          funding,      \* payout_hot_wallet_funding: [tx, key, amount, source]
          bootstrap,    \* payout_bootstrap_complete
          everConfirmed,\* history: a payment was once confirmed
          late,         \* history: a manual row came after that
          probe,        \* the worker's pass
          halted,       \* the runner, halted by the worker
          cause,        \* history: what explains the halt
          limited,      \* run-now's minimal interval is running
          reorgs

chain == <<deposited, mined>>
books == <<confirmed, funding, bootstrap, everConfirmed, late>>
vars == <<chain, books, probe, halted, cause, limited, reorgs>>

Total(S) == MapThenSumSet(LAMBDA x : Size[x], S)

Init ==
    /\ deposited = {} /\ mined = {} /\ confirmed = {} /\ funding = {}
    /\ bootstrap = FALSE /\ everConfirmed = FALSE /\ late = FALSE
    /\ probe = NoProbe
    /\ halted = FALSE /\ cause = "none"
    /\ limited = FALSE /\ reorgs = 0

(* balanceOf(hot wallet) on the chain. *)
Balance == Total(deposited) - Total(mined)

Deposit(d) ==
    /\ d \notin deposited
    /\ deposited' = deposited \cup {d}
    /\ UNCHANGED <<mined, books, probe, halted, cause, limited, reorgs>>

(* insertFundingRow stores the hash in lower case. *)
FundingKey(d, spelling) == <<d, "lower">>

Insert(d, spelling, amount, source) ==
    /\ \A f \in funding : f.key # FundingKey(d, spelling)
    /\ funding' = funding \cup {[tx |-> d, key |-> FundingKey(d, spelling),
                                amount |-> amount, source |-> source]}

(* serveManual's gate: the one-way flag or any confirmed attempt. *)
BootstrapOver == bootstrap \/ confirmed # {}

(* serveManual: nobody asks the chain, and the amount is the one the operator
   typed, perhaps another deposit's. *)
ServeManual(d, spelling, amount) ==
    /\ ~BootstrapOver
    /\ Insert(d, spelling, amount, "manual")
    /\ late' = (late \/ everConfirmed)
    /\ UNCHANGED <<chain, confirmed, bootstrap, everConfirmed, probe, halted, cause, limited, reorgs>>

(* serveRPCConfirmed: verifyFundingReceipt holds of both endpoints' receipts,
   and compares the amount. *)
ServeRPCConfirmed(d, spelling, amount) ==
    /\ d \in deposited /\ amount = Size[d]
    /\ Insert(d, spelling, amount, "rpc-confirmed")
    /\ UNCHANGED <<chain, confirmed, bootstrap, everConfirmed, late, probe, halted, cause,
                   limited, reorgs>>

(* The runner's cycle, by the clock or by ServeRunNow, pays if it is not
   halted; the payment is mined when the wallet holds it. *)
Pay(p) ==
    /\ ~halted
    /\ p \notin mined /\ Balance >= Size[p]
    /\ mined' = mined \cup {p}
    /\ UNCHANGED <<deposited, books, probe, halted, cause, reorgs>>

Cycle(p) == Pay(p) /\ UNCHANGED limited

(* ServeRunNow takes the interval's slot even when the runner is halted. *)
ServeRunNow ==
    /\ ~limited
    /\ limited' = TRUE
    /\ \/ \E p \in Payments : Pay(p)
       \/ UNCHANGED <<chain, books, probe, halted, cause, reorgs>>

RunNowLapse ==
    /\ limited
    /\ limited' = FALSE
    /\ UNCHANGED <<chain, books, probe, halted, cause, reorgs>>

(* MarkConfirmedAtTx at the finality depth; a trigger ends the bootstrap. *)
MarkConfirmed(p) ==
    /\ p \in mined \ confirmed
    /\ confirmed' = confirmed \cup {p}
    /\ bootstrap' = TRUE
    /\ everConfirmed' = TRUE
    /\ UNCHANGED <<chain, funding, late, probe, halted, cause, limited, reorgs>>

(* A reorganisation takes a transaction back. *)
Reorg(p) ==
    /\ reorgs < MaxReorgs /\ p \in mined
    /\ reorgs' = reorgs + 1
    /\ mined' = mined \ {p}
    /\ UNCHANGED <<deposited, books, probe, halted, cause, limited>>

(* The poller of reorg.go: a confirmed cancel that both endpoints miss loses
   its confirmation; for a payment it only raises an alert. *)
ReorgPoll(p) ==
    /\ p \in (Cancels \cap confirmed) \ mined
    /\ confirmed' = confirmed \ {p}
    /\ UNCHANGED <<chain, funding, bootstrap, everConfirmed, late, probe, halted, cause,
                   limited, reorgs>>

(* runOnce up to the comparison of the endpoints: both answered and agree. A
   pass that ends here changes nothing. *)
RunOnceReadsChain ==
    /\ probe.pc = "idle" /\ ~halted
    /\ probe' = [pc |-> "read", balance |-> Balance, deposited |-> deposited, mined |-> mined]
    /\ UNCHANGED <<chain, books, halted, cause, limited, reorgs>>

(* computeExpectedBalance: funded minus confirmed. *)
ComputeExpectedBalance ==
    MapThenSumSet(LAMBDA f : f.amount, funding) - Total(confirmed)

(* Only a shortfall halts; a surplus is a warning. *)
Shortfall(drift) == drift < -Tolerance

(* What a shortfall can come from: a funding row without a deposit or for
   more than it, or money spent before its confirmation. *)
Explanation ==
    CASE \E f \in funding : f.tx \notin probe.deposited \/ f.amount > Size[f.tx] -> "funding"
      [] probe.mined \ confirmed # {} -> "unconfirmed"
      [] OTHER -> "none"

RunOnceCompares ==
    /\ probe.pc = "read"
    /\ probe' = NoProbe
    /\ IF Shortfall(probe.balance - ComputeExpectedBalance)
       THEN halted' = TRUE /\ cause' = Explanation
       ELSE UNCHANGED <<halted, cause>>
    /\ UNCHANGED <<chain, books, limited, reorgs>>

Next ==
    \/ \E d \in Deposits : Deposit(d)
    \/ \E d, x \in Deposits, s \in Spellings :
         ServeManual(d, s, Size[x]) \/ ServeRPCConfirmed(d, s, Size[x])
    \/ \E p \in Payments : Cycle(p) \/ MarkConfirmed(p) \/ Reorg(p) \/ ReorgPoll(p)
    \/ ServeRunNow \/ RunNowLapse
    \/ RunOnceReadsChain \/ RunOnceCompares

(* The variables have their types. *)
TypeOK ==
    /\ deposited \subseteq Deposits /\ mined \subseteq Payments /\ confirmed \subseteq Payments
    /\ \A f \in funding : f.tx \in Deposits /\ f.source \in {"manual", "rpc-confirmed"}
    /\ bootstrap \in BOOLEAN /\ halted \in BOOLEAN /\ limited \in BOOLEAN
    /\ cause \in {"none", "funding", "unconfirmed"}

(* A deposit is counted once, however its hash is spelled and whichever of the
   two ways it is recorded (funding.go:440, 466). *)
FundingCountedOnce == \A f, g \in funding : f.tx = g.tx => f = g

(* No unverified deposit is recorded once a payment has ever been confirmed,
   even after a reorganisation took every confirmation back (funding.go:247). *)
ManualOnlyInBootstrap == ~late

(* A surplus never halts the runner: a halt has a funding row without its
   deposit or above it, or a payment mined and not yet confirmed behind it, whatever was
   mined or recorded between the two reads (reconcile.go:426). *)
HaltIsExplained == halted => cause # "none"

-----------------------------------------------------------------------------
(***************************************************************************)
(* The alert for an RPC endpoint that keeps failing: payout/chronic.go     *)
(* records the outcome of every call the tracking client makes and         *)
(* evaluates the window on a ticker of its own.                            *)
(***************************************************************************)

CONSTANTS Window, Cooldown, MinSamples,
          Percent,      \* the threshold of the error rate, in percent
          MaxSamples, MaxTime

Never == -1

VARIABLES now,
          samples,      \* of one endpoint: [at, err], oldest first
          calls,        \* history: every call of the run
          lastPagedAt,
          pagedAt       \* history: the moments of the pages

outageVars == <<now, samples, calls, lastPagedAt, pagedAt>>

OutageInit == now = 0 /\ samples = <<>> /\ calls = <<>> /\ lastPagedAt = Never /\ pagedAt = {}

(* Record: one more sample. *)
Record(err) ==
    /\ Len(calls) < MaxSamples
    /\ samples' = Append(samples, [at |-> now, err |-> err])
    /\ calls' = Append(calls, [at |-> now, err |-> err])
    /\ UNCHANGED <<now, lastPagedAt, pagedAt>>

(* A call of the tracking client: its outcome is recorded, whatever the method. *)
TrackedCall == \E err \in BOOLEAN : Record(err)

(* Evaluate drops the samples before the window. *)
Pruned(s) == SelectSeq(s, LAMBDA x : x.at >= now - Window)

Errors(s) == Len(SelectSeq(s, LAMBDA x : x.err))

(* Enough samples and an error rate at the threshold. *)
Chronic(s) == Len(s) >= MinSamples /\ Errors(s) * 100 >= Percent * Len(s)

(* Evaluate pages a chronic outage unless one was paged within the cooldown. *)
Evaluate ==
    LET s == Pruned(samples) IN
    /\ samples' = s
    /\ IF Chronic(s) /\ (lastPagedAt = Never \/ now - lastPagedAt >= Cooldown)
       THEN lastPagedAt' = now /\ pagedAt' = pagedAt \cup {now}
       ELSE UNCHANGED <<lastPagedAt, pagedAt>>
    /\ UNCHANGED <<now, calls>>

Tick ==
    /\ now < MaxTime
    /\ now' = now + 1
    /\ UNCHANGED <<samples, calls, lastPagedAt, pagedAt>>

OutageNext == TrackedCall \/ Evaluate \/ Tick

InWindow == SelectSeq(calls, LAMBDA x : x.at >= now - Window)

(* The variables have their types. *)
OutageTypeOK ==
    /\ now \in 0..MaxTime /\ lastPagedAt \in -1..MaxTime /\ pagedAt \subseteq 0..MaxTime
    /\ samples \in Seq([at : 0..MaxTime, err : BOOLEAN])

(* A page names an outage of the calls of the window, not of older ones, and
   every evaluation that sees one has a page within the cooldown behind it,
   whatever was recorded or evaluated in between (chronic.go:155). *)
PageIffChronicStep ==
       Evaluate => /\ pagedAt' # pagedAt => Chronic(InWindow)
                   /\ Chronic(InWindow) => \E t \in pagedAt' : now - t < Cooldown

-----------------------------------------------------------------------------
(***************************************************************************)
(* The registration pause flag of the payout pipeline and its audit trail: *)
(* payout/bootstrap.go seeds it, payout/runtime_flags.go writes the flag   *)
(* and an audit row in one transaction, payout/pauseresume.go serves the   *)
(* operator's pause and resume, reports each flip, and reaps the flips     *)
(* nobody reported.                                                        *)
(***************************************************************************)

CONSTANTS Requests,     \* operator requests in flight at once
          MaxFlips,     \* bound on the flips
          MaxCrashes    \* bound on the crashes

NoRow == -1
NoRequest == [pc |-> "idle", id |-> 0]

VARIABLES sentinel,     \* runtime_flags_bootstrapped holds its row
          flag,         \* runtime_flags.registration_paused, None: no row
          audit,        \* runtime_flag_audit: [new, aged, emitted]
          process,      \* "down", "up" or "halted" by the start-up check
          recent,       \* the last flip is within the minimal interval
          request,      \* each operator request: its step and its audit row
          claim,        \* the audit row the reaper has claimed, 0: none
          reported,     \* how often each flip reached the log
          crashes

flagVars == <<sentinel, flag, audit, process, recent, request, claim, reported, crashes>>

(* The databases a coordinator may start on: fresh, an earlier one, and two
   that a partial restore leaves behind. *)
FlagInit ==
    /\ sentinel \in BOOLEAN /\ flag \in {NoRow, 0}
    /\ audit = <<>>
    /\ process = "down"
    /\ recent = FALSE
    /\ request = [r \in Requests |-> NoRequest]
    /\ claim = 0
    /\ reported = <<>>
    /\ crashes = 0

(* seedRuntimeFlags: the flag and the sentinel in one transaction. *)
SeedRuntimeFlags ==
    /\ sentinel' = TRUE
    /\ flag' = 0
    /\ process' = "up"

(* BootstrapRuntimeFlags: seed an empty database, halt on a missing sentinel or
   a missing flag. *)
BootstrapRuntimeFlags ==
    /\ process = "down"
    /\ \/ /\ ~sentinel /\ flag = NoRow /\ audit = <<>>
          /\ SeedRuntimeFlags
       \/ /\ ~sentinel /\ (flag # NoRow \/ audit # <<>>)
          /\ process' = "halted"
          /\ UNCHANGED <<sentinel, flag>>
       \/ /\ sentinel
          /\ process' = IF flag = NoRow THEN "halted" ELSE "up"
          /\ UNCHANGED <<sentinel, flag>>
    /\ UNCHANGED <<audit, recent, request, claim, reported, crashes>>

(* WriteFlagWithAudit: refused at the target value and within the minimal
   interval; otherwise the flag and its audit row change together. *)
WriteFlagWithAudit(r, new) ==
    /\ flag # NoRow /\ flag # new /\ ~recent
    /\ flag' = new
    /\ recent' = TRUE
    /\ audit' = Append(audit, [new |-> new, aged |-> FALSE, emitted |-> FALSE])
    /\ reported' = Append(reported, 0)
    /\ request' = [request EXCEPT ![r] = [pc |-> "written", id |-> Len(audit')]]

(* serveFlip up to the commit; a refused flip changes nothing. *)
ServeFlip(r, new) ==
    /\ process = "up" /\ request[r].pc = "idle" /\ Len(audit) < MaxFlips
    /\ WriteFlagWithAudit(r, new)
    /\ UNCHANGED <<sentinel, process, claim, crashes>>

(* ClaimAndEmit's compare-and-swap of emitted_to_log. *)
Claim(id) ==
    /\ ~audit[id].emitted
    /\ audit' = [audit EXCEPT ![id].emitted = TRUE]

Emit(id) == reported' = [reported EXCEPT ![id] = @ + 1]

(* serveFlip's own claim of the row it wrote. It fails without an effect when
   the reaper was first or the database refuses. *)
ClaimAndEmit(r) ==
    LET id == request[r].id IN
    /\ process = "up" /\ request[r].pc = "written"
    /\ \/ /\ Claim(id)
          /\ request' = [request EXCEPT ![r].pc = "claimed"]
       \/ /\ request' = [request EXCEPT ![r] = NoRequest]
          /\ UNCHANGED audit
    /\ UNCHANGED <<sentinel, flag, process, recent, claim, reported, crashes>>

(* The report itself, after the commit of the claim. *)
EmitFlipEvent(r) ==
    /\ process = "up" /\ request[r].pc = "claimed"
    /\ Emit(request[r].id)
    /\ request' = [request EXCEPT ![r] = NoRequest]
    /\ UNCHANGED <<sentinel, flag, audit, process, recent, claim, crashes>>

(* ListUnemittedOlderThan: rows unclaimed for five minutes. *)
ListUnemittedOlderThan == {i \in 1..Len(audit) : ~audit[i].emitted /\ audit[i].aged}

(* One row of ReapOnce: the claim, then the report. *)
ReapClaim ==
    /\ process = "up" /\ claim = 0
    /\ \E id \in ListUnemittedOlderThan : Claim(id) /\ claim' = id
    /\ UNCHANGED <<sentinel, flag, process, recent, request, reported, crashes>>

ReapEmit ==
    /\ process = "up" /\ claim # 0
    /\ Emit(claim)
    /\ claim' = 0
    /\ UNCHANGED <<sentinel, flag, audit, process, recent, request, crashes>>

ReapOnce == ReapClaim \/ ReapEmit

(* Time passes: every row is five minutes old, the minimal interval is over. *)
Lapse ==
    /\ recent \/ \E i \in 1..Len(audit) : ~audit[i].aged
    /\ recent' = FALSE
    /\ audit' = [i \in 1..Len(audit) |-> [audit[i] EXCEPT !.aged = TRUE]]
    /\ UNCHANGED <<sentinel, flag, process, request, claim, reported, crashes>>

(* A crash loses every step in progress; committed rows stay. *)
Crash ==
    /\ process = "up" /\ crashes < MaxCrashes
    /\ process' = "down"
    /\ request' = [r \in Requests |-> NoRequest]
    /\ claim' = 0
    /\ crashes' = crashes + 1
    /\ UNCHANGED <<sentinel, flag, audit, recent, reported>>

FlagNext ==
    \/ BootstrapRuntimeFlags
    \/ \E r \in Requests, new \in {0, 1} : ServeFlip(r, new)
    \/ \E r \in Requests : ClaimAndEmit(r) \/ EmitFlipEvent(r)
    \/ ReapOnce
    \/ Lapse
    \/ Crash

(* The coordinator is restarted, the reaper ticks, and time passes. *)
FlagFair == WF_flagVars(BootstrapRuntimeFlags) /\ WF_flagVars(ReapOnce) /\ WF_flagVars(Lapse)

(* The variables have their types. *)
FlagTypeOK ==
    /\ sentinel \in BOOLEAN /\ flag \in {NoRow, 0, 1} /\ process \in {"down", "up", "halted"}
    /\ audit \in Seq([new : {0, 1}, aged : BOOLEAN, emitted : BOOLEAN])
    /\ \A r \in Requests : request[r].pc \in {"idle", "written", "claimed"}
    /\ claim \in 0..Len(audit) /\ Len(reported) = Len(audit)

(* No flip is reported twice, although the operator's request and the reaper
   may both find its row unreported, and although the process may crash
   between any two steps (runtime_flags.go:205). *)
FlipReportedOnce == \A i \in 1..Len(reported) : reported[i] <= 1

(* The audit trail explains the flag: the last row names its value and
   consecutive rows alternate, so no change of the flag escapes the trail
   (runtime_flags.go:86). *)
TrailExplainsFlag ==
    /\ flag # NoRow => flag = IF audit = <<>> THEN 0 ELSE audit[Len(audit)].new
    /\ \A i \in 1..Len(audit) : audit[i].new = i % 2

(* Every flip is claimed for the log in the end, whatever request or process
   died in between (pauseresume.go:208). *)
FlipsAreClaimedFrom(i) == Len(audit) >= i
FlipsAreClaimedTo(i) == Len(audit) >= i /\ audit[i].emitted

-----------------------------------------------------------------------------
(***************************************************************************)
(* The payout tuning values and their reload on SIGHUP                     *)
(* (internal/payout/config_tuning.go, the listener in cmd/coordinator/     *)
(* main.go) with the pooled connections of the two RPC clients             *)
(* (internal/payout/rpc.go): a handshake is verified under the pin in      *)
(* force, a pooled connection is reused without one, and an accepted       *)
(* change of a pin drains both pools.                                      *)
(*                                                                         *)
(* The bounded fields are represented by the cooling-off period (a lower   *)
(* bound), the rows per run (both bounds) and the low-balance threshold    *)
(* (bounded by twice the daily cap of the immutable namespace).            *)
(***************************************************************************)

CONSTANTS Files,       \* the tuning sections the operator writes; None: unreadable
          First,       \* the section the process starts with
          CoolingMin, RowsMin, RowsMax, PerDayCap,
          Capacity,    \* signals the channel holds
          Calls,       \* RPC calls that may overlap
          Clients,     \* {"primary", "secondary"}
          MaxSignals,  \* bound: signals sent
          MaxCalls,    \* bound: calls started
          None

VARIABLES file,      \* the section on disk
          live,      \* TuningProvider's value
          queued,    \* signals in the channel
          pc,        \* where the listener stands
          cand,      \* the section being taken over
          pages,     \* reloads paged: accepted and rejected
          conn,      \* the pin each running call's connection was verified under
          pool,      \* per client, the pins of its idle connections
          closing,   \* per client, Transport.closeIdle
          strays,    \* per client, the pins of calls that ran while it drained
          sent, begun

tuningVars == <<file, live, queued, pc, cand, pages, conn, pool, closing, strays, sent, begun>>

Sections == Files \ {None}

----------------------------------------------------------------------------
(* validateBounds. *)
WithinBounds(t) ==
    /\ t.cooling >= CoolingMin
    /\ t.rows \in RowsMin..RowsMax
    /\ PerDayCap > 0 => t.low <= 2 * PerDayCap

(* The changed keys emitReloaded returns, as far as the listener looks. *)
PinChanged(old, new) == \E k \in Clients : old.pin[k] # new.pin[k]

(* LoadPayoutTuningOnly fails. *)
Unreadable(t) == t = None

----------------------------------------------------------------------------
Edit(t) ==
    /\ t # file /\ file' = t
    /\ UNCHANGED <<live, queued, pc, cand, pages, conn, pool, closing, strays, sent, begun>>

(* A SIGHUP: dropped when the channel is full; sent on a channel that is
   closed and still registered it stops the process. *)
Hup ==
    /\ sent < MaxSignals /\ sent' = sent + 1
    /\ IF pc = "closed"
       THEN pc' = "panicked" /\ UNCHANGED queued
       ELSE /\ queued' = IF pc = "stopped" \/ queued = Capacity THEN queued ELSE queued + 1
            /\ UNCHANGED pc
    /\ pc # "panicked"
    /\ UNCHANGED <<file, live, cand, pages, conn, pool, closing, strays, begun>>

(* The listener reads the file; a file it cannot read is paged. *)
Take ==
    /\ pc = "wait" /\ queued > 0
    /\ queued' = queued - 1
    /\ IF Unreadable(file)
       THEN pages' = "rejected" /\ UNCHANGED <<pc, cand>>
       ELSE cand' = file /\ pc' = "reload" /\ UNCHANGED pages
    /\ UNCHANGED <<file, live, conn, pool, closing, strays, sent, begun>>

(* TuningProvider.Reload: bounds, then the atomic store, then the pages. *)
Reload ==
    /\ pc = "reload"
    /\ cand' = None
    /\ IF WithinBounds(cand)
       THEN /\ live' = cand /\ pages' = "accepted"
            /\ pc' = IF PinChanged(live, cand) THEN "drain" ELSE "wait"
       ELSE /\ pages' = "rejected" /\ pc' = "wait" /\ UNCHANGED live
    /\ UNCHANGED <<file, queued, conn, pool, closing, strays, sent, begun>>

(* CloseIdleConnections of both clients. *)
Drain ==
    /\ pc = "drain"
    /\ pool' = [k \in Clients |-> {}] /\ closing' = [k \in Clients |-> TRUE]
    /\ strays' = [k \in Clients |-> {c.pin : c \in {x \in conn : x.client = k}}]
    /\ pc' = "wait"
    /\ UNCHANGED <<file, live, queued, cand, pages, conn, sent, begun>>

(* The shutdown context ends: the deferred close of the channel runs before
   the deferred signal.Stop. *)
Shutdown ==
    \/ /\ pc = "wait" /\ pc' = "closed"
       /\ UNCHANGED <<file, live, queued, cand, pages, conn, pool, closing, strays, sent, begun>>
    \/ /\ pc = "closed" /\ pc' = "stopped"
       /\ UNCHANGED <<file, live, queued, cand, pages, conn, pool, closing, strays, sent, begun>>

----------------------------------------------------------------------------
(* net/http's Transport takes an idle connection when there is one and stops
   closing those that become idle. *)
Connection(k, pin) ==
    IF pool[k] = {} THEN pin = live.pin[k] ELSE pin \in pool[k]

(* HTTPRPCClient.call: a new connection passes makeSPKIPinVerifier. *)
Call(x, k, pin) ==
    /\ pc # "panicked" /\ begun < MaxCalls
    /\ \A c \in conn : c.call # x
    /\ Connection(k, pin)
    /\ conn' = conn \cup {[call |-> x, client |-> k, pin |-> pin]}
    /\ pool' = [pool EXCEPT ![k] = @ \ {pin}]
    /\ closing' = [closing EXCEPT ![k] = FALSE]
    /\ begun' = begun + 1
    /\ UNCHANGED <<file, live, queued, pc, cand, pages, strays, sent>>

(* The response is read: the connection becomes idle, or is closed. *)
Answered(c) ==
    /\ c \in conn /\ conn' = conn \ {c}
    /\ pool' = IF closing[c.client] THEN pool ELSE [pool EXCEPT ![c.client] = @ \cup {c.pin}]
    /\ UNCHANGED <<file, live, queued, pc, cand, pages, closing, strays, sent, begun>>

----------------------------------------------------------------------------
TuningInit ==
    /\ file = First /\ live = First
    /\ queued = 0 /\ pc = "wait" /\ cand = None /\ pages = "none"
    /\ conn = {} /\ pool = [k \in Clients |-> {}] /\ closing = [k \in Clients |-> FALSE]
    /\ strays = [k \in Clients |-> {}]
    /\ sent = 0 /\ begun = 0

Pins == UNION {{t.pin[k] : k \in Clients} : t \in Sections}

TuningNext ==
    \/ \E t \in Files : Edit(t)
    \/ Hup \/ Take \/ Reload \/ Drain \/ Shutdown
    \/ \E x \in Calls, k \in Clients, pin \in Pins : Call(x, k, pin)
    \/ \E c \in conn : Answered(c)

TuningTypeOK ==
    /\ file \in Files /\ live \in Sections /\ cand \in Files
    /\ queued \in 0..Capacity
    /\ pc \in {"wait", "reload", "drain", "closed", "stopped", "panicked"}
    /\ pool \in [Clients -> SUBSET Pins]

(* The value the payout workers read always satisfies the bounds the start-up
   check enforces, the one against the immutable daily cap included. *)
LiveIsInBounds == WithinBounds(live) /\ live.low <= 2 * PerDayCap

(* Once a reload is over, an idle connection was verified under the pin in
   force; only a call that ran while the pools were drained may have brought
   an older one back. *)
PooledUnderThePin ==
    pc \in {"wait", "reload"} =>
        \A k \in Clients : pool[k] \subseteq {live.pin[k]} \cup strays[k]
=============================================================================
