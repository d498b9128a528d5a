------------------------------ MODULE Routing -------------------------------
(***************************************************************************)
(* How a request finds a provider, in three parts that share no state: the *)
(* queues for busy providers, the selection (prefix select) and the map    *)
(* that keeps a conversation on its provider (prefix sticky).              *)
(***************************************************************************)
EXTENDS Integers, Sequences, FiniteSets, SequencesExt

-----------------------------------------------------------------------------
(***************************************************************************)
(* Requests that find every provider busy wait in one FIFO queue per       *)
(* provider.  The head of a queue reserves a slot the pool reported free,  *)
(* leaves the queue, and holds the reservation for as long as its request  *)
(* runs on that provider.  The pool is read without the queue's lock, so   *)
(* the number of free slots a request acts on may be old.                  *)
(***************************************************************************)

CONSTANTS
    Requests, Providers,
    MaxPending,   \* waiters of one queue
    Slots,        \* slots of a provider
    MaxReports    \* reports of the providers to the pool

VARIABLES
    free,     \* SlotsFree of the pool's record, -1 when the provider cannot serve
    reports,
    queue, reserved,
    at,       \* the step of a request
    prov,     \* the provider it waits for, or runs on
    seen,     \* the snapshot of the pool it last read
    cands, excluded,
    holds,    \* queuedSlotProviderID
    again     \* the request may still fail over

queueVars == <<queue, reserved>>
vars == <<free, reports, queueVars, at, prov, seen, cands, excluded, holds, again>>

None == "none"
Set(f, r, x) == f' = [f EXCEPT ![r] = x]

Init ==
    /\ free \in [Providers -> {0, Slots}] /\ reports = 0
    /\ queue = [p \in Providers |-> << >>] /\ reserved = [p \in Providers |-> 0]
    /\ at = [r \in Requests |-> "new"] /\ prov = [r \in Requests |-> None]
    /\ seen = [r \in Requests |-> free]
    /\ cands = [r \in Requests |-> {}] /\ excluded = [r \in Requests |-> {}]
    /\ holds = [r \in Requests |-> None] /\ again = [r \in Requests |-> TRUE]

(* A heartbeat or state update changes what the pool says of a provider. *)
Report(p) ==
    /\ reports < MaxReports /\ reports' = reports + 1
    /\ \E n \in -1 .. Slots : n # free[p] /\ free' = [free EXCEPT ![p] = n]
    /\ UNCHANGED <<queueVars, at, prov, seen, cands, excluded, holds, again>>

----------------------------------------------------------------------------
(* selectProviderExcluding: the snapshot of the pool. *)
Snapshot(r) ==
    /\ at[r] = "new" /\ Set(at, r, "split") /\ Set(seen, r, free)
    /\ UNCHANGED <<free, reports, queueVars, prov, cands, excluded, holds, again>>

BlocksProvider(p, n) == Len(queue[p]) + reserved[p] >= n

(* splitQueuedCandidates, slotQueueCandidates: a provider whose free slots  *)
(* are all spoken for is a candidate for the queue only.  A normal          *)
(* candidate is taken without a reservation; with neither the answer is 503.*)
Split(r) ==
    LET usable == {p \in Providers \ excluded[r] : seen[r][p] > 0}
        normal == {p \in usable : ~BlocksProvider(p, seen[r][p])}
        queued == (usable \ normal) \cup {p \in Providers \ excluded[r] : seen[r][p] = 0}
    IN /\ at[r] = "split"
       /\ \/ \E p \in normal : Set(at, r, "run") /\ Set(prov, r, p) /\ UNCHANGED cands
          \/ normal = {} /\ queued # {} /\ Set(at, r, "enter") /\ Set(cands, r, queued) /\ UNCHANGED prov
          \/ normal = {} /\ queued = {} /\ Set(at, r, "done") /\ UNCHANGED <<prov, cands>>
       /\ UNCHANGED <<free, reports, queueVars, seen, excluded, holds, again>>

(* enterBest: the shortest queue with room among the candidates left. *)
EnterBest(r) ==
    LET open == {p \in cands[r] : Len(queue[p]) < MaxPending}
    IN /\ at[r] = "enter"
       /\ IF open = {} THEN Set(at, r, "done") /\ UNCHANGED <<queue, prov, cands>>
          ELSE \E p \in open : /\ \A q \in open : Len(queue[p]) <= Len(queue[q])
                               /\ queue' = [queue EXCEPT ![p] = Append(@, r)]
                               /\ Set(prov, r, p) /\ Set(at, r, "poll") /\ UNCHANGED cands
       /\ UNCHANGED <<free, reports, reserved, seen, excluded, holds, again>>

(* leave: the waiter is taken out wherever it stands. *)
Leave(r) == queue' = [queue EXCEPT ![prov[r]] = SelectSeq(@, LAMBDA x : x # r)]

NextCandidate(r) == Set(cands, r, cands[r] \ {prov[r]}) /\ Set(at, r, "enter")

(* pollQueuedProvider up to the snapshot: only the head looks, a provider   *)
(* that can no longer serve sends the waiter to the next candidate.         *)
Poll(r) ==
    /\ at[r] = "poll" /\ Head(queue[prov[r]]) = r
    /\ \/ free[prov[r]] = -1 /\ Leave(r) /\ NextCandidate(r) /\ UNCHANGED seen
       \/ free[prov[r]] > 0 /\ Set(seen, r, free) /\ Set(at, r, "reserve") /\ UNCHANGED <<queue, cands>>
    /\ UNCHANGED <<free, reports, reserved, prov, excluded, holds, again>>

(* reserveHead, with the slots of the snapshot. *)
ReserveHead(r) ==
    /\ at[r] = "reserve"
    /\ IF Head(queue[prov[r]]) = r /\ seen[r][prov[r]] - reserved[prov[r]] > 0
       THEN Set(at, r, "leave") /\ reserved' = [reserved EXCEPT ![prov[r]] = @ + 1]
       ELSE Set(at, r, "poll") /\ UNCHANGED reserved
    /\ UNCHANGED <<free, reports, queue, prov, seen, cands, excluded, holds, again>>

(* The waiter leaves the queue once it holds the reservation. *)
LeaveQueue(r) ==
    /\ at[r] = "leave" /\ Leave(r) /\ Set(at, r, "preflight")
    /\ UNCHANGED <<free, reports, reserved, prov, seen, cands, excluded, holds, again>>

(* releaseReservation. *)
Release(p) == reserved' = IF p = None THEN reserved ELSE [reserved EXCEPT ![p] = IF @ <= 1 THEN 0 ELSE @ - 1]

(* Mutant: a refused preflight keeps its reservation. *)
PreflightKept(r) ==
    /\ at[r] = "preflight"
    /\ \/ NextCandidate(r) /\ UNCHANGED <<reserved, holds>>
       \/ Set(holds, r, prov[r]) /\ Set(at, r, "run") /\ UNCHANGED <<reserved, cands>>
    /\ UNCHANGED <<free, reports, queue, prov, seen, excluded, again>>
(* preflightCandidate and what follows: a refusal gives the reservation     *)
(* back and tries the next queue, an acceptance is recorded on the request. *)
Preflight(r) ==
    /\ at[r] = "preflight"
    /\ \/ Release(prov[r]) /\ NextCandidate(r) /\ UNCHANGED holds
       \/ Set(holds, r, prov[r]) /\ Set(at, r, "run") /\ UNCHANGED <<reserved, cands>>
    /\ UNCHANGED <<free, reports, queue, prov, seen, excluded, again>>

(* The wait's deadline, or a buyer that left. *)
Expire(r) ==
    /\ at[r] = "poll" /\ Leave(r) /\ Set(at, r, "done")
    /\ UNCHANGED <<free, reports, reserved, prov, seen, cands, excluded, holds, again>>

----------------------------------------------------------------------------
(* forwardWithFailover, advanceToNextProvider: the reservation of the       *)
(* provider that failed is released before another is selected.             *)
FailOver(r) ==
    /\ at[r] = "run" /\ again[r] /\ Set(again, r, FALSE)
    /\ Release(holds[r]) /\ Set(holds, r, None)
    /\ Set(excluded, r, excluded[r] \cup {prov[r]}) /\ Set(at, r, "new")
    /\ UNCHANGED <<free, reports, queue, prov, seen, cands>>

(* releaseQueuedSlotReservation, deferred by handleChatCompletions. *)
Finish(r) ==
    /\ at[r] = "run" /\ Release(holds[r]) /\ Set(holds, r, None) /\ Set(at, r, "done")
    /\ UNCHANGED <<free, reports, queue, prov, seen, cands, excluded, again>>

Work(r) == \/ Snapshot(r) \/ Split(r) \/ EnterBest(r) \/ Poll(r) \/ ReserveHead(r)
           \/ LeaveQueue(r) \/ Preflight(r) \/ Expire(r) \/ FailOver(r) \/ Finish(r)

Next == (\E r \in Requests : Work(r)) \/ \E p \in Providers : Report(p)

Fair == \A r \in Requests : WF_vars(Work(r))

----------------------------------------------------------------------------
(* The waiters of a queue are the requests that wait for that provider,     *)
(* each once and within the bound: no request leaves a dead waiter at the   *)
(* head, behind which nobody would ever be served.                          *)
QueueIsItsWaiters ==
    \A p \in Providers :
        /\ Len(queue[p]) <= MaxPending
        /\ IsInjective(queue[p])
        /\ Range(queue[p]) = {r \in Requests : prov[r] = p /\ at[r] \in {"poll", "reserve", "leave"}}

(* Every reservation has a holder: a request in its preflight or running on *)
(* the provider.  None leaks over refusals, failovers and deadlines, and    *)
(* none is given back twice.                                                *)
ReservationsHaveHolders ==
    \A p \in Providers :
        reserved[p] = Cardinality({r \in Requests : prov[r] = p /\ at[r] \in {"leave", "preflight"}})
                    + Cardinality({r \in Requests : holds[r] = p})

(* However old the snapshots, the queue never hands out more slots of a     *)
(* provider than the provider has.                                          *)
ReservedWithinSlots == \A p \in Providers : reserved[p] <= Slots

(* No request waits for ever: the queue, the reservations and the deadlines *)
(* never hold each other up.                                                *)
EveryRequestLeavesTo(r) == at[r] = "done"

-----------------------------------------------------------------------------
(***************************************************************************)
(* How the coordinator picks the provider of a request: the filters in     *)
(* their order, the error it reports when nobody is left, the ranking by   *)
(* objective, the cohort of near-equal candidates, the sticky provider of  *)
(* a conversation, the random draw, and the preflights.  Metrics are 1 or  *)
(* 2, so that the normalised ones are whole numbers.                       *)
(***************************************************************************)

CONSTANTS SelectProviders

VARIABLES pool, rank, req, order, result
selectVars == <<pool, rank, req, order, result>>

Nobody == "none"
Failures == {"excluded", "model", "floor", "mismatch", "unverified", "leg", "attest", "quota"}

(* A provider: its metrics and what disqualifies it.  A request: its        *)
(* objective, size, pin, the provider its conversation is bound to, who     *)
(* refuses the preflight, the epsilon in percent, and whether ties are      *)
(* drawn at random.                                                         *)
SelectInit ==
    /\ rank \in {s \in [1 .. Cardinality(SelectProviders) -> SelectProviders] : IsInjective(s)}
    /\ \/ /\ pool \in [SelectProviders -> [tps : 1 .. 2, params : 1 .. 2, ctx : {2}, slots : 1 .. 2,
                                           tier : {"pinned", "provisional"}, bad : {{}}]]
          /\ req \in [objective : {"default", "fast", "accurate", "balanced"}, tokens : {1}, pin : {Nobody},
                      bound : {Nobody, rank[1]}, refuse : {{}}, eps : {0, 60}, draw : {TRUE}, strict : {FALSE}]
       \/ /\ pool \in [SelectProviders -> [tps : {1}, params : {1}, ctx : 1 .. 2, slots : {1}, tier : {"pinned"},
                                           bad : {b \in SUBSET Failures : Cardinality(b) <= 1}
                                                   \cup {{"leg", "quota"}, {"unverified", "attest"}}]]
          /\ req \in [objective : {"balanced"}, tokens : 1 .. 2, pin : {Nobody, rank[1]}, bound : {Nobody},
                      refuse : {{}, {rank[1]}}, eps : {0}, draw : {FALSE}, strict : BOOLEAN]
    /\ order = << >> /\ result = Nobody

----------------------------------------------------------------------------
(* The checks of EligibleCandidates and Tier2Decision, in their order; an   *)
(* unverified model hash disqualifies only where verification is required.  *)
Filter == <<"excluded", "model", "floor", "ctx", "mismatch", "unverified", "leg", "attest", "quota">>

Has(p, reason) == CASE reason = "ctx" -> pool[p].ctx < req.tokens
                    [] reason = "unverified" -> reason \in pool[p].bad /\ req.strict
                    [] OTHER -> reason \in pool[p].bad

Reason(p) == LET failed == {i \in DOMAIN Filter : Has(p, Filter[i])}
             IN IF failed = {} THEN "ok" ELSE Filter[CHOOSE i \in failed : \A j \in failed : i <= j]

Count(reason) == Cardinality({p \in SelectProviders : Reason(p) = reason})

(* What selectProviderExcluding answers when the filters leave nobody. *)
NobodyLeft ==
    CASE Count("quota") > 0 /\ Count("ok") = 0 -> "429 quota"
      [] Count("ctx") > 0 -> "413 context"
      [] req.strict /\ Count("unverified") + Count("mismatch") > 0 -> "503 unverified"
      [] Count("mismatch") > 0 -> "503 mismatch"
      [] Count("leg") > 0 -> "503 leg"
      [] Count("attest") > 0 -> "503 attest"
      [] Count("floor") > 0 -> "503 floor"
      [] OTHER -> "503 none"

----------------------------------------------------------------------------
(* EffectiveThroughput, in tenths: provisional providers count for 0.3. *)
Throughput(p) == pool[p].tps * (IF pool[p].tier = "provisional" THEN 3 ELSE 10)

(* minMaxNorm of one metric over the candidates. *)
Norm(cs, f(_), p) == LET lo == CHOOSE x \in {f(c) : c \in cs} : \A c \in cs : x <= f(c)
                         hi == CHOOSE x \in {f(c) : c \in cs} : \A c \in cs : x >= f(c)
                     IN IF hi = lo THEN 1 ELSE (f(p) - lo) \div (hi - lo)

(* BalancedScores, in tenths. *)
Balanced(cs, p) ==
    LET tps(c) == pool[c].tps  params(c) == pool[c].params
        ctx(c) == pool[c].ctx  slots(c) == pool[c].slots
    IN 4 * Norm(cs, tps, p) + 3 * Norm(cs, params, p) + 2 * Norm(cs, ctx, p) + Norm(cs, slots, p)

(* The metric of each objective. *)
Metric(cs, p) == CASE req.objective = "accurate" -> pool[p].params
                   [] req.objective = "balanced" -> Balanced(cs, p)
                   [] OTHER -> Throughput(p)

(* SortCandidatesWithScores: does p come before q. *)
Before(cs, p, q) ==
    LET busier == pool[p].slots < pool[q].slots
        faster == Throughput(p) > Throughput(q)
    IN IF req.objective = "default"
       THEN IF pool[p].slots = pool[q].slots THEN faster ELSE busier
       ELSE IF Metric(cs, p) # Metric(cs, q) THEN Metric(cs, p) > Metric(cs, q)
       ELSE IF req.objective = "accurate" /\ Throughput(p) # Throughput(q) THEN faster
       ELSE busier

(* The stable sort of the pool's order. *)
Sorted(s) ==
    LET cs == Range(s)
        Index(p) == CHOOSE i \in DOMAIN s : s[i] = p
        Earlier(p, q) == Before(cs, p, q) \/ (~Before(cs, q, p) /\ Index(p) < Index(q))
        Place(p) == Cardinality({q \in cs : Earlier(q, p)}) + 1
    IN [i \in DOMAIN s |-> CHOOSE p \in cs : Place(p) = i]

(* WithinRelativeEpsilon of the candidate in front. *)
InEpsilonCohort(s, p) ==
    LET top == Metric(Range(s), Head(s))
        own == Metric(Range(s), p)
        gap == IF top > own THEN top - own ELSE own - top
    IN /\ req.objective = "default" => pool[Head(s)].slots = pool[p].slots
       /\ top = own \/ (req.eps > 0 /\ IF top = 0 THEN 100 * gap <= req.eps ELSE 100 * gap <= top * req.eps)

ToFront(s, i) == [s EXCEPT ![1] = s[i], ![i] = s[1]]

(* applySticky: the provider of the conversation, if it is in the cohort. *)
ApplySticky(s) ==
    LET bound == {i \in DOMAIN s : s[i] = req.bound /\ (i = 1 \/ InEpsilonCohort(s, s[i]))}
    IN {ToFront(s, i) : i \in bound}

(* applyRandomTiebreak: one of the cohort, a prefix of the order, in front. *)
ApplyRandomTiebreak(s) ==
    LET end == CHOOSE n \in 1 .. Len(s) :
                   /\ \A i \in 2 .. n : InEpsilonCohort(s, s[i])
                   /\ n < Len(s) => ~InEpsilonCohort(s, s[n + 1])
    IN IF ~req.draw \/ Len(s) < 2 THEN {s} ELSE {ToFront(s, i) : i \in 1 .. end}

----------------------------------------------------------------------------
(* validatePinnedProviderForRequest, the quota and the preflight. *)
Pinned ==
    LET p == req.pin
    IN CASE Has(p, "model") -> "404 model"
         [] Has(p, "floor") -> "503 floor"
         [] Has(p, "ctx") -> "413 context"
         [] \E r \in {"mismatch", "unverified", "leg", "attest"} : Has(p, r) -> "400 predicate"
         [] Has(p, "quota") -> "429 quota"
         [] p \in req.refuse -> "503 preflight"
         [] OTHER -> p

(* The first candidate whose preflight is accepted. *)
Preflighted(s) == IF Range(s) \subseteq req.refuse THEN "503 preflight"
                  ELSE s[CHOOSE i \in DOMAIN s : s[i] \notin req.refuse
                                              /\ \A j \in 1 .. i - 1 : s[j] \in req.refuse]

(* selectProviderExcluding. *)
SelectProvider ==
    LET found == SelectSeq(rank, LAMBDA p : Reason(p) = "ok")
        sorted == Sorted(found)
        Orders == LET stuck == ApplySticky(sorted)
                  IN IF stuck # {} THEN stuck ELSE ApplyRandomTiebreak(sorted)
    IN /\ result = Nobody
       /\ CASE req.pin # Nobody -> result' = Pinned /\ order' = order
            [] req.pin = Nobody /\ found = << >> -> result' = NobodyLeft /\ order' = order
            [] OTHER -> \E s \in Orders : order' = s /\ result' = Preflighted(s)
       /\ UNCHANGED <<pool, rank, req>>

SelectNext == SelectProvider

----------------------------------------------------------------------------
Usable(p) == \A r \in Failures \cup {"ctx"} : ~Has(p, r)

(* A request is refused only when every provider is disqualified or refused *)
(* the preflight, a provider that is chosen passes every check, and a pin   *)
(* yields that provider or nothing.                                         *)
ChosenIsEligible ==
    result # Nobody =>
      IF req.pin # Nobody
      THEN result \in SelectProviders => result = req.pin /\ \A r \in Failures \ {"excluded"} : ~Has(result, r)
      ELSE IF result \in SelectProviders THEN Usable(result) /\ result \notin req.refuse
      ELSE \A p \in SelectProviders : Usable(p) => p \in req.refuse

(* Neither the sticky provider nor the draw costs more than epsilon: with   *)
(* no preflight refused, no eligible provider beats the chosen one by more  *)
(* than epsilon in the metric of the objective.                             *)
WithinEpsilonOfBest ==
    result \in SelectProviders /\ req.pin = Nobody /\ req.refuse = {} /\ req.objective # "default"
      => LET cs == {p \in SelectProviders : Usable(p)}
         IN \A q \in cs : 100 * (Metric(cs, q) - Metric(cs, result)) <= Metric(cs, q) * req.eps

-----------------------------------------------------------------------------
(***************************************************************************)
(* The map from conversations to providers: looked up when a request is    *)
(* routed, written when it succeeds, bounded and aged, purged for an       *)
(* account and for a model class whose configuration changed; and the      *)
(* limiter of the audit events for refused writes.                         *)
(***************************************************************************)

CONSTANTS Keys, Accounts, StickyProviders, Scopes, TTL, MaxEntries, Window, MaxLimited, MaxTime

VARIABLES
    entries,   \* conversation -> [prov, acct, scope, used], a partial function
    limited,   \* conversation -> the time of its last audit event
    now,
    stale      \* scopes whose class was swapped and whose entries are not purged yet
stickyVars == <<entries, limited, now, stale>>

NoAccount == "none"

StickyInit == entries = << >> /\ limited = << >> /\ now = 0 /\ stale = {}

Without(f, ks) == [k \in DOMAIN f \ ks |-> f[k]]
With(f, k, x) == [j \in DOMAIN f \cup {k} |-> IF j = k THEN x ELSE f[j]]
Expired(e) == now - e.used > TTL

Tick == now < MaxTime /\ now' = now + 1 /\ UNCHANGED <<entries, limited, stale>>

(* Lookup: an expired entry is dropped, a live one is refreshed. *)
Lookup(k) ==
    /\ k \in DOMAIN entries
    /\ entries' = IF Expired(entries[k]) THEN Without(entries, {k})
                  ELSE [entries EXCEPT ![k].used = now]
    /\ UNCHANGED <<limited, now, stale>>

(* Room for a new conversation: at the limit every expired entry goes, and  *)
(* then, if that was not enough, the least recently used of the others.     *)
Evicted(f) ==
    LET live == {k \in DOMAIN f : ~Expired(f[k])}
        oldest == {k \in live : \A j \in live : f[k].used <= f[j].used}
    IN IF Cardinality(DOMAIN f) < MaxEntries THEN {f}
       ELSE IF Cardinality(live) < MaxEntries THEN {Without(f, DOMAIN f \ live)}
       ELSE {Without(f, (DOMAIN f \ live) \cup {k}) : k \in oldest}

(* Update: a conversation of another account is left alone, one without an  *)
(* account takes the caller's, and only a new key makes room.               *)
Update(k, a, p, m) ==
    LET e == entries[k]
        acct == IF a = NoAccount THEN e.acct ELSE a
    IN IF k \in DOMAIN entries
       THEN IF e.acct # NoAccount /\ a # NoAccount /\ e.acct # a THEN UNCHANGED entries
            ELSE entries' = With(entries, k, [prov |-> p, acct |-> acct, scope |-> m, used |-> now])
       ELSE \E f \in Evicted(entries) : entries' = With(f, k, [prov |-> p, acct |-> a, scope |-> m, used |-> now])

Mismatch(k, a) == /\ k \in DOMAIN entries
                  /\ entries[k].acct # NoAccount /\ a # NoAccount /\ entries[k].acct # a

(* stickyMismatchLimiter.allow: one event per conversation and window; a    *)
(* full table is swept, and if that frees nothing the event is dropped.     *)
Allow(k) ==
    LET kept == IF Cardinality(DOMAIN limited) >= MaxLimited
                THEN Without(limited, {j \in DOMAIN limited : now - limited[j] >= Window}) ELSE limited
    IN IF k \in DOMAIN limited
       THEN limited' = IF now - limited[k] < Window THEN limited ELSE With(limited, k, now)
       ELSE limited' = IF Cardinality(DOMAIN kept) >= MaxLimited THEN kept ELSE With(kept, k, now)

(* stickyStore, when a request of account a for model m succeeded on p. *)
Store(k, a, p, m) ==
    /\ Update(k, a, p, m)
    /\ IF Mismatch(k, a) THEN Allow(k) ELSE UNCHANGED limited
    /\ UNCHANGED <<now, stale>>

(* handleInternalStickyDelete, PurgeAccount: nothing without an account. *)
Purge(a) ==
    /\ a # NoAccount
    /\ entries' = Without(entries, {k \in DOMAIN entries : entries[k].acct = a})
    /\ UNCHANGED <<limited, now, stale>>

(* SetRoutingClasses: the classes are swapped, then the entries of every    *)
(* class that changed are purged.                                           *)
SetRoutingClasses(ms) == stale = {} /\ stale' = ms /\ UNCHANGED <<entries, limited, now>>

InvalidateClass(m) ==
    /\ m \in stale /\ stale' = stale \ {m}
    /\ entries' = Without(entries, {k \in DOMAIN entries : entries[k].scope = m})
    /\ UNCHANGED <<limited, now>>

StickyNext ==
    \/ Tick
    \/ \E k \in Keys : Lookup(k)
    \/ \E k \in Keys, a \in Accounts \cup {NoAccount}, p \in StickyProviders, m \in Scopes : Store(k, a, p, m)
    \/ \E a \in Accounts : Purge(a)
    \/ \E ms \in SUBSET Scopes \ {{}} : SetRoutingClasses(ms)
    \/ \E m \in Scopes : InvalidateClass(m)

----------------------------------------------------------------------------
(* A conversation keeps its account for as long as it is in the map, so     *)
(* that no other account can take it over and later purge it, even by way   *)
(* of a request without an account (Update).                                *)
OwnerKeepsConversationStep ==
       \A k \in DOMAIN entries \cap DOMAIN entries' :
         entries[k].acct # NoAccount => entries'[k].acct = entries[k].acct

(* Neither the map nor the limiter's table outgrows its limit, whatever     *)
(* order lookups, writes, purges and the passing of time come in.           *)
TablesBounded ==
    /\ Cardinality(DOMAIN entries) <= MaxEntries
    /\ Cardinality(DOMAIN limited) <= MaxLimited
=============================================================================
