--------------------------- MODULE PayoutRecords ----------------------------
(***************************************************************************)
(* The payout tables beside the attempts, in two parts that share no       *)
(* state: the addresses, and the outbox of alerts (prefix outbox).         *)
(***************************************************************************)
EXTENDS Integers, Sequences, FiniteSets

-----------------------------------------------------------------------------
(***************************************************************************)
(* Where a provider is paid: payout/addresses.go registers and rotates the *)
(* address of one provider from a signed message, and the runner's         *)
(* selection (payout/attempts.go) derives the address it pays from the     *)
(* row, the cooling-off and the address before the last rotation. The      *)
(* handler reads the pause flag and the clock first and writes in a        *)
(* transaction later; flips, prunings and other registrations come between.*)
(***************************************************************************)

CONSTANTS Handlers,     \* requests in flight at once
          Addresses, Nonces, Wallets,
          Skew,         \* timestampSkewBound
          Cooling,      \* address_cooling_off_period
          MaxTime, MaxFlips, MaxRestarts

None == "none"
Never == -1
Retention == 2 * Skew   \* nonceTableRetention

Messages == [addr : Addresses, nonce : Nonces, ts : 0..MaxTime, wallet : Wallets]
NoRow == [addr |-> None, from |-> None, until |-> 0, wallet |-> None]
Idle == [pc |-> "idle"]

VARIABLES now,
          wallet,       \* payout.security.hot_wallet_address of this process
          paused,       \* runtime_flags.registration_paused
          allowed,      \* payout_allowed of the row, the operator's gate
          row,          \* the row of provider_payout_addresses
          nonces,       \* provider_payout_address_nonces
          handler,
          registered,   \* history: when each address was first registered
          apart,        \* history: each rotation found its predecessor cooled off
          watched,      \* history: a message, any one
          applied,      \* history: how often it was applied
          flips, restarts

vars == <<now, wallet, paused, allowed, row, nonces, handler, registered, apart, watched,
          applied, flips, restarts>>
history == <<registered, apart, watched, applied>>

Init ==
    /\ now = 0
    /\ wallet \in Wallets
    /\ paused = FALSE /\ allowed = TRUE
    /\ row = NoRow
    /\ nonces = {}
    /\ handler = [h \in Handlers |-> Idle]
    /\ registered = [a \in Addresses |-> Never]
    /\ apart = TRUE
    /\ watched \in {m \in Messages : m.wallet = wallet} /\ applied = 0
    /\ flips = 0 /\ restarts = 0

CooledOff(a) == registered[a] # Never /\ now >= registered[a] + Cooling

(* ServePayoutAddress up to the transaction: the pause flag, then the request,
   whose time stamp is compared with the clock and whose signature is bound to
   the hot wallet. A request refused here changes nothing. *)
ServePayoutAddress(h, m) ==
    /\ handler[h].pc = "idle"
    /\ ~paused
    /\ m.ts - Skew <= now /\ now <= m.ts + Skew
    /\ m.wallet = wallet
    /\ handler' = [handler EXCEPT ![h] =
                     [pc |-> "checked", msg |-> m, at |-> now, pruned |-> FALSE]]
    /\ UNCHANGED <<now, wallet, paused, allowed, row, nonces, history, flips, restarts>>

(* Mutant: a rotation forgets its predecessor's wait and is in force at once. *)
RegisteredWaitless(m, at) ==
    [addr |-> m.addr, from |-> row.addr, until |-> at, wallet |-> wallet]

(* The row after the UPDATE or the INSERT. *)
Registered(m, at) ==
    [addr |-> m.addr, from |-> row.addr, until |-> at + Cooling, wallet |-> wallet]

(* pausedConn, the unique nonce and payout_allowed: reasons for a rollback. *)
Refused(h) ==
    \/ paused
    \/ \E n \in nonces : n.addr = handler[h].msg.addr /\ n.nonce = handler[h].msg.nonce
    \/ row # NoRow /\ ~allowed

(* The transaction: the nonce and the row, or nothing. *)
Register(h) ==
    LET m == handler[h].msg  at == handler[h].at IN
    /\ handler[h].pc = "checked"
    /\ handler' = [handler EXCEPT ![h] = Idle]
    /\ IF Refused(h) THEN UNCHANGED <<row, nonces, history>>
       ELSE /\ nonces' = nonces \cup {[addr |-> m.addr, nonce |-> m.nonce, at |-> at]}
            /\ row' = Registered(m, at)
            /\ registered' = [registered EXCEPT ![m.addr] = IF @ = Never THEN at ELSE @]
            /\ apart' = (apart /\ (row # NoRow => CooledOff(row.addr)))
            /\ applied' = IF m = watched /\ ~(applied = 1 /\ handler[h].pruned)
                          THEN applied + 1 ELSE applied
            /\ UNCHANGED watched
    /\ UNCHANGED <<now, wallet, paused, allowed, flips, restarts>>

(* PruneNonces; handlers in flight are marked for the history only. *)
PruneNonces ==
    /\ \E n \in nonces : n.at < now - Retention
    /\ nonces' = {n \in nonces : n.at >= now - Retention}
    /\ handler' = [h \in Handlers |-> IF handler[h].pc = "idle" THEN Idle
                                      ELSE [handler[h] EXCEPT !.pruned = TRUE]]
    /\ UNCHANGED <<now, wallet, paused, allowed, row, history, flips, restarts>>

(* selectReadyPayoutsSQL: the address the runner would pay now. *)
EffectiveAddress ==
    IF row = NoRow \/ ~allowed \/ row.wallet # wallet THEN None
    ELSE IF row.until > now THEN row.from ELSE row.addr

(* The operator pauses or resumes registration (PayoutFlags). *)
Flip ==
    /\ flips < MaxFlips
    /\ flips' = flips + 1
    /\ paused' = ~paused
    /\ UNCHANGED <<now, wallet, allowed, row, nonces, handler, history, restarts>>

(* The operator's compliance gate, set in the database. *)
Gate ==
    /\ flips < MaxFlips /\ row # NoRow
    /\ flips' = flips + 1
    /\ allowed' = ~allowed
    /\ UNCHANGED <<now, wallet, paused, row, nonces, handler, history, restarts>>

(* The process is started again, on the same or another hot wallet. *)
Restart ==
    /\ restarts < MaxRestarts
    /\ restarts' = restarts + 1
    /\ wallet' \in Wallets
    /\ handler' = [h \in Handlers |-> Idle]
    /\ UNCHANGED <<now, paused, allowed, row, nonces, history, flips>>

Tick ==
    /\ now < MaxTime
    /\ now' = now + 1
    /\ UNCHANGED <<wallet, paused, allowed, row, nonces, handler, history, flips, restarts>>

Next ==
    \/ \E h \in Handlers : Register(h) \/ \E m \in Messages : ServePayoutAddress(h, m)
    \/ PruneNonces \/ Flip \/ Gate \/ Restart \/ Tick

(* The variables have their types. *)
TypeOK ==
    /\ now \in 0..MaxTime /\ wallet \in Wallets
    /\ paused \in BOOLEAN /\ allowed \in BOOLEAN /\ apart \in BOOLEAN
    /\ row = NoRow \/ row \in [addr : Addresses, from : Addresses \cup {None},
                               until : 0..(MaxTime + Cooling), wallet : Wallets]
    /\ nonces \subseteq [addr : Addresses, nonce : Nonces, at : 0..MaxTime]
    /\ watched \in Messages /\ applied \in 0..MaxTime

(* A freshly registered or rotated address is not eligible for payment until
   its cooling-off has passed (SPEC-016 3.1, attempts.go:75). *)
CoolingOffHolds == EffectiveAddress # None => CooledOff(EffectiveAddress)

(* When each rotation waited for the one before, the runner pays only cooled-off
   addresses, across pauses, restarts on another hot wallet and requests in
   flight (attempts.go:75, addresses.go:469). *)
SpacedRotationsCoolOff == apart => CoolingOffHolds

(* A signed message changes the row once: its nonce outlives its time stamp's
   window. The one exception is a request that read the clock before a pruning
   and wrote after it (addresses.go:403, 598). *)
MessageAppliedOnce == applied <= 1

-----------------------------------------------------------------------------
(***************************************************************************)
(* The alert for a cancelling self-transfer that does not come back after  *)
(* a reorganisation: the runner's cycle writes one outbox row per stale    *)
(* period (payout/orphans.go ProduceStaleOutboxRows) and reports it; the   *)
(* reaper (payout/reaper.go) reports the rows whose cycle died. Two        *)
(* processes run cycles when the lease changes hands.                      *)
(***************************************************************************)

CONSTANTS Worlds,       \* [cancels: broadcast cancelling attempts,
                        \*  producers: processes running a cycle]
          Limit,        \* max_rows_per_run
          MaxPages,
          MaxUpsets     \* bound on failed lookups, reorganisations and crashes

Rest == [pc |-> "idle", left |-> {}, produced |-> 0, id |-> 0]

VARIABLES outboxRow,          \* payout_attempts: [confirmed, abandoned, paged, stale]
          mined,        \* the transaction is on the chain
          outbox,       \* cancel_reconfirm_stale_outbox: [cancel, emitted, aged]
          cycle,        \* each producer's cycle
          claim,        \* the outbox row the reaper has claimed, 0: none
          reported,     \* history: reports of each outbox row
          pages,        \* history: outbox rows of each attempt's present period
               \* payout_reorg_orphans: [cancel, resolved]
          upsets

outboxVars == <<outboxRow, mined, outbox, cycle, claim, reported, pages, upsets>>

Cancels == DOMAIN outboxRow
Producers == DOMAIN cycle

(* Cancels that a reorganisation made live again, some still to be mined. *)
OutboxInit ==
    /\ \E w \in Worlds :
         /\ outboxRow = [c \in w.cancels |-> [confirmed |-> FALSE, abandoned |-> FALSE,
                                              paged |-> FALSE, stale |-> FALSE]]
         /\ mined = [c \in w.cancels |-> FALSE]
         /\ pages = [c \in w.cancels |-> 0]
         /\ cycle = [p \in w.producers |-> Rest]
    /\ outbox = <<>>
    /\ claim = 0
    /\ reported = <<>>
    /\ upsets = 0

Candidate(c) == outboxRow[c].stale /\ ~outboxRow[c].confirmed /\ ~outboxRow[c].abandoned /\ ~outboxRow[c].paged

(* The start of ProduceStaleOutboxRows: the chunks of the keyset scan together
   visit every candidate of this moment. *)
StartCycle(p) ==
    /\ cycle[p].pc = "idle"
    /\ \E c \in Cancels : Candidate(c)
    /\ cycle' = [cycle EXCEPT ![p] = [pc |-> "scan", left |-> {c \in Cancels : Candidate(c)},
                                      produced |-> 0, id |-> 0]]
    /\ UNCHANGED <<outboxRow, mined, outbox, claim, reported, pages, upsets>>

(* A transaction receipt from one endpoint: an endpoint that lags does not see
   a mined transaction. *)
Receipts(c) == {"none"} \cup (IF mined[c] THEN {"seen"} ELSE {})
                        \cup (IF upsets < MaxUpsets THEN {"error"} ELSE {})

(* A candidate that an endpoint sees, or whose lookup failed, is skipped and
   does not count against the limit. *)
Skipped(p, c) == cycle' = [cycle EXCEPT ![p].left = @ \ {c}]

Look(p) ==
    /\ cycle[p].pc = "scan"
    /\ \E c \in cycle[p].left : \E a, b \in Receipts(c) :
         /\ upsets' = upsets + (IF a = "error" \/ b = "error" THEN 1 ELSE 0)
         /\ IF a = "none" /\ b = "none"
            THEN cycle' = [cycle EXCEPT ![p].pc = "page", ![p].id = c]
            ELSE Skipped(p, c)
    /\ UNCHANGED <<outboxRow, mined, outbox, claim, reported, pages>>

(* The compare-and-swap of the stale mark: the candidate was read earlier. *)
Pageable(c) == ~outboxRow[c].paged /\ ~outboxRow[c].confirmed

(* The transaction: the mark and the outbox row, or neither. *)
Page(p) ==
    LET c == cycle[p].id IN
    /\ cycle[p].pc = "page"
    /\ IF Pageable(c)
       THEN /\ Len(outbox) < MaxPages
            /\ outboxRow' = [outboxRow EXCEPT ![c].paged = TRUE, ![c].stale = FALSE]
            /\ outbox' = Append(outbox, [cancel |-> c, emitted |-> FALSE, aged |-> FALSE])
            /\ reported' = Append(reported, 0)
            /\ pages' = [pages EXCEPT ![c] = @ + 1]
            /\ cycle' = [cycle EXCEPT ![p] = [pc |-> "claim", id |-> Len(outbox'),
                                              produced |-> @.produced + 1,
                                              left |-> @.left \ {c}]]
       ELSE /\ cycle' = [cycle EXCEPT ![p].pc = "scan", ![p].id = 0, ![p].left = @ \ {c}]
            /\ UNCHANGED <<outboxRow, outbox, reported, pages>>
    /\ UNCHANGED <<mined, claim, upsets>>

(* ClaimAndEmitStaleOutbox's compare-and-swap. *)
Claim(id) ==
    /\ ~outbox[id].emitted
    /\ outbox' = [outbox EXCEPT ![id].emitted = TRUE]

Emit(id) == reported' = [reported EXCEPT ![id] = @ + 1]

(* The cycle reports its own row; a refused claim is ignored. The scan goes on
   unless the limit is reached. *)
ClaimOwn(p) ==
    /\ cycle[p].pc = "claim"
    /\ \/ Claim(cycle[p].id) /\ cycle' = [cycle EXCEPT ![p].pc = "emit"]
       \/ cycle' = [cycle EXCEPT ![p].pc = "scan", ![p].id = 0] /\ UNCHANGED outbox
    /\ UNCHANGED <<outboxRow, mined, claim, reported, pages, upsets>>

EmitOwn(p) ==
    /\ cycle[p].pc = "emit"
    /\ Emit(cycle[p].id)
    /\ cycle' = [cycle EXCEPT ![p].pc = "scan", ![p].id = 0]
    /\ UNCHANGED <<outboxRow, mined, outbox, claim, pages, upsets>>

EndCycle(p) ==
    /\ cycle[p].pc = "scan"
    /\ cycle[p].left = {} \/ cycle[p].produced >= Limit
    /\ cycle' = [cycle EXCEPT ![p] = Rest]
    /\ UNCHANGED <<outboxRow, mined, outbox, claim, reported, pages, upsets>>

ProduceStaleOutboxRows(p) ==
    \/ StartCycle(p)
    \/ cycle[p].produced < Limit /\ Look(p)
    \/ Page(p) \/ ClaimOwn(p) \/ EmitOwn(p) \/ EndCycle(p)

(* Mutant: the reaper forgets the rows of attempts confirmed meanwhile. *)
ListUnemittedLive == {i \in 1..Len(outbox) : ~outbox[i].emitted /\ outbox[i].aged
                                               /\ ~outboxRow[outbox[i].cancel].confirmed}

(* ListUnemittedStaleOutboxOlderThan. *)
ListUnemitted == {i \in 1..Len(outbox) : ~outbox[i].emitted /\ outbox[i].aged}

(* reapStaleOutbox: the claim, then the report. *)
ReapStaleOutbox ==
    /\ \/ /\ claim = 0
          /\ \E id \in ListUnemitted : Claim(id) /\ claim' = id
          /\ UNCHANGED reported
       \/ /\ claim # 0
          /\ Emit(claim) /\ claim' = 0
          /\ UNCHANGED outbox
    /\ UNCHANGED <<outboxRow, mined, cycle, pages, upsets>>

(* Three run intervals pass. *)
Lapse ==
    /\ \/ \E c \in Cancels : ~outboxRow[c].stale /\ ~outboxRow[c].paged /\ ~outboxRow[c].confirmed
       \/ \E i \in 1..Len(outbox) : ~outbox[i].aged
    /\ outboxRow' = [c \in Cancels |-> [outboxRow[c] EXCEPT !.stale = @ \/ (~outboxRow[c].paged /\ ~outboxRow[c].confirmed)]]
    /\ outbox' = [i \in 1..Len(outbox) |-> [outbox[i] EXCEPT !.aged = TRUE]]
    /\ UNCHANGED <<mined, cycle, claim, reported, pages, upsets>>

Mine(c) ==
    /\ ~mined[c]
    /\ mined' = [mined EXCEPT ![c] = TRUE]
    /\ UNCHANGED <<outboxRow, outbox, cycle, claim, reported, pages, upsets>>

(* MarkConfirmedAtTx clears the mark: the period is over. *)
MarkConfirmed(c) ==
    /\ mined[c] /\ ~outboxRow[c].confirmed /\ ~outboxRow[c].abandoned
    /\ outboxRow' = [outboxRow EXCEPT ![c].confirmed = TRUE, ![c].paged = FALSE, ![c].stale = FALSE]
    /\ pages' = [pages EXCEPT ![c] = 0]
    /\ UNCHANGED <<mined, outbox, cycle, claim, reported, upsets>>

(* handleCancelReorg: the cancel is live again and a new period begins. *)
HandleCancelReorg(c) ==
    /\ upsets < MaxUpsets /\ outboxRow[c].confirmed /\ ~outboxRow[c].abandoned
    /\ upsets' = upsets + 1
    /\ mined' = [mined EXCEPT ![c] = FALSE]
    /\ outboxRow' = [outboxRow EXCEPT ![c].confirmed = FALSE, ![c].paged = FALSE, ![c].stale = FALSE]
    /\ pages' = [pages EXCEPT ![c] = 0]
    /\ UNCHANGED <<outbox, cycle, claim, reported>>

(* The operator abandons the attempt (PayoutAttempts). *)
Abandon(c) ==
    /\ ~outboxRow[c].abandoned /\ ~outboxRow[c].confirmed
    /\ outboxRow' = [outboxRow EXCEPT ![c].abandoned = TRUE, ![c].stale = FALSE]
    /\ UNCHANGED <<mined, outbox, cycle, claim, reported, pages, upsets>>

(* A process dies in its cycle, and the reaper with it. *)
Crash(p) ==
    /\ upsets < MaxUpsets
    /\ upsets' = upsets + 1
    /\ cycle' = [cycle EXCEPT ![p] = Rest]
    /\ claim' = 0
    /\ UNCHANGED <<outboxRow, mined, outbox, reported, pages>>

OutboxNext ==
    \/ \E p \in Producers : ProduceStaleOutboxRows(p) \/ Crash(p)
    \/ ReapStaleOutbox \/ Lapse
    \/ \E c \in Cancels : Mine(c) \/ MarkConfirmed(c) \/ HandleCancelReorg(c) \/ Abandon(c)

(* Cycles and the reaper are driven by tickers; time passes. *)
OutboxFair ==
    /\ \A p \in UNION {w.producers : w \in Worlds} :
         WF_outboxVars(p \in Producers /\ ProduceStaleOutboxRows(p))
    /\ WF_outboxVars(ReapStaleOutbox) /\ WF_outboxVars(Lapse)

(* The variables have their types. *)
OutboxTypeOK ==
    /\ \A c \in Cancels : outboxRow[c] \in [confirmed : BOOLEAN, abandoned : BOOLEAN,
                                            paged : BOOLEAN, stale : BOOLEAN]
    /\ \A p \in Producers : cycle[p].pc \in {"idle", "scan", "page", "claim", "emit"}
    /\ claim \in 0..Len(outbox) /\ Len(reported) = Len(outbox)

(* A stale period of an attempt is paged once, even when two processes scan at
   the same time and one looks at a row the other has paged (orphans.go:602). *)
OnePagePerPeriod == \A c \in Cancels : pages[c] <= 1

(* A cancel that stays off the chain is paged in the end unless the operator
   abandons it: the limit and the skipped candidates starve nobody
   (orphans.go:553, 563). *)
StaleIsPagedTo(c) ==
    c \in Cancels => outboxRow[c].paged \/ outboxRow[c].abandoned \/ mined[c] \/ Len(outbox) >= MaxPages

(* Every outbox row is claimed for the log in the end, whatever crashed
   (reaper.go:197). *)
PagesAreClaimedFrom(i) == Len(outbox) >= i
PagesAreClaimedTo(i) == Len(outbox) >= i /\ outbox[i].emitted
=============================================================================
