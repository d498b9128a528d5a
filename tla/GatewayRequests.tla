-------------------------- MODULE GatewayRequests ---------------------------
(***************************************************************************)
(* A request at the gateway, in three parts that share no state: the       *)
(* stream from the coordinator, the index of requests without an id, and   *)
(* the rate limiter. The variables, Init and Next of the second and third  *)
(* part carry the prefixes dedupe and rate where a name occurs twice.      *)
(***************************************************************************)
EXTENDS Integers, Sequences, FiniteSets, SequencesExt

-----------------------------------------------------------------------------
(***************************************************************************)
(* One chat request upstream of the gateway: the retried call to the       *)
(* coordinator and, after a 200, the loop that forwards the stream line by *)
(* line against a buyer who may leave, a provider that may stall, lie or   *)
(* overrun, and three timers.  Bytes are counted in units of four, which   *)
(* is what estimateTokensFromBytes takes for a token.                      *)
(***************************************************************************)

CONSTANTS
    MaxTok,        \* max_tokens of the request
    MaxMeta,       \* maxStreamingFallbackMetadataBytes
    MaxTries,      \* Retry503.MaxAttempts
    Slack          \* the gap providerUsageImplausiblyUnderreports tolerates

VARIABLES
    phase,       \* "calling", "backoff", "streaming" or "ended"
    try, prior,  \* attempt, priorProviderDispatch
    last,        \* the kind of the answer that is being retried
    credited,    \* the coordinator has credited a provider for this request
    buyer,       \* the buyer is still connected
    cause,       \* why the upstream context was cancelled
    armed,       \* the first-token timer is running
    idle,        \* the progress deadline has passed
    emitted, meta, reported, invalid, term,
    terminals,   \* terminal error frames the buyer has received
    late,        \* content forwarded after one of them
    verdict      \* settlements decided for the request

vars == <<phase, try, prior, last, credited, buyer, cause, armed, idle, emitted, meta,
          reported, invalid, term, terminals, late, verdict>>
callVars == <<try, prior, last, credited>>
streamVars == <<emitted, meta, reported, invalid, term, terminals, late>>

NoReport == -1
Verdict(kind, tok, src) == [kind |-> kind, tok |-> tok, src |-> src]

Init ==
    /\ phase = "calling" /\ try = 1 /\ prior = FALSE /\ last = "none" /\ credited = FALSE
    /\ buyer = TRUE /\ cause = "none" /\ armed = FALSE /\ idle = FALSE
    /\ emitted = 0 /\ meta = 0 /\ reported = NoReport /\ invalid = FALSE
    /\ term = FALSE /\ terminals = 0 /\ late = FALSE /\ verdict = << >>

End(v) == phase' = "ended" /\ verdict' = Append(verdict, v)

----------------------------------------------------------------------------
(* priorProviderDispatch: some earlier attempt reached a provider. *)
Remember(dispatched) == prior \/ dispatched

(* The answers of the coordinator: a 200; a 503 for want of a provider; a   *)
(* provider's 502 without and with settlement headers; the failed write of  *)
(* the route snapshot; any other 503, a 404 or another request it refuses;  *)
(* a 504 and whatever is left.                                              *)
Retryable == {"busy", "failed", "billed"}
Answers == Retryable \union {"200", "snapshot", "refused", "other"}

Refund == Verdict("refund", 0, "none")
PromptCharge == Verdict("charge", 0, "gateway")

(* coordinatorPreDispatchNoChargeError: the coordinator marks an answer it  *)
(* writes before it has credited a provider.                                *)
SnapshotVerdict(dispatched) ==
    IF dispatched \/ prior THEN PromptCharge ELSE Verdict("noCharge", 0, "none")

(* forwardStreamingChat: an answer that is no stream.  Only the snapshot's  *)
(* failure asks about earlier attempts.                                     *)
AnswerVerdict(answer, dispatched) ==
    CASE answer \in {"busy", "failed", "refused"} -> Refund
      [] answer \in {"billed", "other"} -> PromptCharge
      [] answer = "snapshot" -> SnapshotVerdict(dispatched)

(* doCoordinatorChatWithRetry: one attempt.  An answer without the mark is  *)
(* remembered before the next attempt.                                      *)
Call ==
    /\ phase = "calling" /\ cause = "none"
    /\ \E dispatched \in BOOLEAN, answer \in Answers :
         /\ credited' = (credited \/ dispatched)
         /\ \/ /\ answer = "200" /\ dispatched
               /\ phase' = "streaming" /\ armed' = TRUE
               /\ UNCHANGED <<prior, last, verdict>>
            \/ /\ answer \in Retryable /\ try < MaxTries
               /\ phase' = "backoff" /\ last' = answer /\ prior' = Remember(dispatched)
               /\ UNCHANGED <<armed, verdict>>
            \/ /\ answer # "200" /\ (answer \in Retryable => try = MaxTries)
               /\ End(AnswerVerdict(answer, dispatched)) /\ UNCHANGED <<prior, last, armed>>
    /\ UNCHANGED <<try, buyer, cause, idle, streamVars>>

(* The call fails: a network error, or the end of its context.  A request   *)
(* for structured output whose phase expired is settled on its prompt.      *)
CallFails ==
    /\ phase = "calling"
    /\ \E dispatched \in BOOLEAN : credited' = (credited \/ dispatched)
    /\ \/ End(Refund)
       \/ cause = "phase" /\ End(PromptCharge)
    /\ UNCHANGED <<try, prior, last, buyer, cause, armed, idle, streamVars>>

(* The next attempt, after the backoff and the rate limit. *)
Retry ==
    /\ phase = "backoff" /\ cause = "none"
    /\ phase' = "calling" /\ try' = try + 1 /\ last' = "none"
    /\ UNCHANGED <<prior, credited, buyer, cause, armed, idle, streamVars, verdict>>

(* No next attempt, for the rate limit or the end of the context: the       *)
(* answer in hand counts, except for structured output as above.            *)
GiveUp ==
    /\ phase = "backoff"
    /\ \/ End(AnswerVerdict(last, FALSE))
       \/ cause = "phase" /\ End(PromptCharge)
    /\ UNCHANGED <<callVars, buyer, cause, armed, idle, streamVars>>

----------------------------------------------------------------------------
Capped(n) == IF n > MaxTok THEN MaxTok ELSE n
ContentEstimate == Capped(emitted)
SerializedEstimate == Capped(emitted + meta)

(* providerUsageImplausiblyUnderreports *)
Underreports(seen, said) == seen - said > Slack /\ (said = 0 \/ seen * 2 > said * 3)

(* settleReported: what the provider says, unless it claims more than was   *)
(* asked for and seen, or far less than was seen.                           *)
ReportedVerdict ==
    IF (reported > MaxTok /\ emitted < reported) \/ Underreports(ContentEstimate, reported)
    THEN Verdict("settle", ContentEstimate, "gateway")
    ELSE Verdict("settle", reported, "provider")

TruncatedVerdict ==
    IF reported # NoReport THEN ReportedVerdict ELSE Verdict("settle", SerializedEstimate, "gateway")

(* settleObservedContent, settleCancelled *)
ObservedVerdict == Verdict("observed", ContentEstimate, "gateway")

Streaming == phase = "streaming"
ReadReady == Streaming /\ buyer /\ ~idle /\ cause = "none"

(* forwardLine on a frame with choices; content renews the progress         *)
(* deadline and ends the first-token phase.                                 *)
Content(bytes, overhead) ==
    /\ ReadReady
    /\ IF term
       THEN UNCHANGED <<phase, armed, streamVars, verdict>>
       ELSE /\ armed' = (armed /\ bytes = 0)
            /\ \/ /\ emitted + bytes > 2 * MaxTok \/ meta + overhead > MaxMeta
                  /\ terminals' = terminals + 1
                  /\ End(Verdict("exceeded", 0, "gateway"))
                  /\ UNCHANGED <<emitted, meta, reported, invalid, term, late>>
               \/ /\ emitted + bytes <= 2 * MaxTok /\ meta + overhead <= MaxMeta
                  /\ emitted' = emitted + bytes /\ meta' = meta + overhead
                  /\ late' = (late \/ terminals > 0)
                  /\ UNCHANGED <<phase, verdict, reported, invalid, term, terminals>>
    /\ UNCHANGED <<callVars, buyer, cause, idle>>

(* usageFromJSON: a usable report replaces the last one; an invalid one     *)
(* disqualifies every later one.                                            *)
Usage(n) ==
    /\ ReadReady
    /\ IF term THEN UNCHANGED <<reported, invalid>>
       ELSE \/ reported' = (IF invalid THEN NoReport ELSE n) /\ UNCHANGED invalid
            \/ invalid' = TRUE /\ reported' = NoReport
    /\ UNCHANGED <<phase, callVars, buyer, cause, armed, idle, emitted, meta, term, terminals, late, verdict>>

Malformed ==
    /\ ReadReady /\ ~term
    /\ terminals' = terminals + 1
    /\ End(Verdict("settle", ContentEstimate, "gateway"))
    /\ UNCHANGED <<callVars, buyer, cause, armed, idle, emitted, meta, reported, invalid, term, late>>

(* A structured-output error of the provider: forwarded, and from then on   *)
(* only the terminator passes.                                              *)
TerminalError ==
    /\ ReadReady /\ ~term
    /\ term' = TRUE /\ terminals' = terminals + 1
    /\ UNCHANGED <<phase, callVars, buyer, cause, armed, idle, emitted, meta, reported, invalid, late, verdict>>

DoneFrame ==
    /\ ReadReady
    /\ IF term THEN End(Verdict("refund", 0, "none")) ELSE UNCHANGED <<phase, verdict>>
    /\ UNCHANGED <<callVars, buyer, cause, armed, idle, streamVars>>

(* A line longer than the buffer. *)
LongLine ==
    /\ ReadReady
    /\ terminals' = terminals + 1
    /\ End(TruncatedVerdict)
    /\ UNCHANGED <<callVars, buyer, cause, armed, idle, emitted, meta, reported, invalid, term, late>>

(* The end of the stream. *)
Eof ==
    /\ ReadReady
    /\ End(IF term THEN Verdict("refund", 0, "none")
           ELSE IF reported # NoReport /\ ~invalid THEN ReportedVerdict
           ELSE Verdict("settle", SerializedEstimate, "gateway"))
    /\ UNCHANGED <<callVars, buyer, cause, armed, idle, streamVars>>

(* A read error that is neither the buyer's nor a timer's. *)
Disconnect ==
    /\ ReadReady
    /\ IF term THEN End(Verdict("refund", 0, "none")) /\ UNCHANGED terminals
       ELSE End(TruncatedVerdict) /\ terminals' = terminals + 1
    /\ UNCHANGED <<callVars, buyer, cause, armed, idle, emitted, meta, reported, invalid, term, late>>

(* settleCancelled: the buyer's context ended, noticed at a line, at a      *)
(* failed write or at a read.                                               *)
Cancelled ==
    /\ Streaming /\ ~buyer
    /\ End(ObservedVerdict)
    /\ UNCHANGED <<callVars, buyer, cause, armed, idle, streamVars>>

(* settleIdleTimeout: the progress deadline or a phase budget is over. *)
TimedOut ==
    /\ Streaming /\ buyer /\ (idle \/ cause = "phase")
    /\ IF term THEN End(Verdict("refund", 0, "none")) /\ UNCHANGED terminals
       ELSE End(ObservedVerdict) /\ terminals' = terminals + 1
    /\ UNCHANGED <<callVars, buyer, cause, armed, idle, emitted, meta, reported, invalid, term, late>>

----------------------------------------------------------------------------
(* requestDeadlines: the phase timers cancel the upstream context, the      *)
(* progress deadline passes, the buyer goes away.                           *)
PhaseExpires ==
    /\ phase # "ended" /\ cause = "none"
    /\ cause' = "phase"
    /\ UNCHANGED <<phase, callVars, buyer, armed, idle, streamVars, verdict>>

IdleExpires ==
    /\ Streaming /\ ~idle
    /\ idle' = TRUE
    /\ UNCHANGED <<phase, callVars, buyer, cause, armed, streamVars, verdict>>

BuyerLeaves ==
    /\ phase # "ended" /\ buyer
    /\ buyer' = FALSE /\ cause' = (IF cause = "none" THEN "buyer" ELSE cause)
    /\ UNCHANGED <<phase, callVars, armed, idle, streamVars, verdict>>

Frame ==
    \/ \E b \in 0..2, m \in 0..1 : Content(b, m)
    \/ \E n \in 0..(2 * MaxTok + 1) : Usage(n)
    \/ Malformed \/ TerminalError \/ DoneFrame \/ LongLine \/ Eof \/ Disconnect

Ended == phase = "ended" /\ UNCHANGED vars

Next ==
    \/ Call \/ CallFails \/ Retry \/ GiveUp \/ Frame \/ Cancelled \/ TimedOut
    \/ PhaseExpires \/ IdleExpires \/ BuyerLeaves \/ Ended

Fair == /\ WF_vars(Call \/ CallFails) /\ WF_vars(Retry \/ GiveUp) /\ WF_vars(Cancelled) /\ WF_vars(TimedOut)
        /\ WF_vars(IdleExpires)

----------------------------------------------------------------------------
(* Nobody is charged for more completion tokens than they asked for, unless *)
(* that much was delivered; and a provider's count that is far below what   *)
(* was delivered is not what is charged.                                    *)
ChargeIsPlausible ==
    \A i \in DOMAIN verdict :
        LET v == verdict[i]
        IN  /\ v.tok <= MaxTok \/ v.tok <= emitted
            /\ v.src = "provider" => ~Underreports(ContentEstimate, v.tok)

(* A route snapshot that could not be written is refunded as a request no   *)
(* provider ran only if none was credited, neither in the answering attempt *)
(* nor in one that was retried.  The other refunds do not ask.              *)
SnapshotRefundMeansNoDispatch ==
    \A i \in DOMAIN verdict : verdict[i].kind = "noCharge" => ~credited

(* After the provider's terminal error the buyer who stays gets a refund,   *)
(* and no content follows the error.                                        *)
TerminalErrorRefunded ==
    term => ~late /\ (phase = "ended" /\ buyer /\ terminals = 1 => verdict[1].kind = "refund")

(* A stream that stalls at any point is ended by the gateway. *)
StreamEndsTo == phase = "ended"

-----------------------------------------------------------------------------
(***************************************************************************)
(* The gateway's index of requests that came without an id: an identical   *)
(* request inside the window replays the first one's answer or waits for   *)
(* it, and what cannot be replayed runs into the first one's quota         *)
(* reservation.  The table of mappings, the stored bodies, the claims in   *)
(* flight and the waiters of a claim are all capped.                       *)
(***************************************************************************)

CONSTANTS
    Attempts,      \* requests; each mints an id of its own
    Fp,            \* the fingerprint of each
    MaxMappings, MaxBodies, MaxInFlight, MaxWaiters

VARIABLES
    entries,   \* the map: fingerprints to the attempt that owns the entry
    ent,       \* the entry each attempt created, in the map or not
    dedupeSeen,      \* fingerprints of the map by lastSeen, oldest first
    inFlight, bodyCount,
    at, rid,   \* step and request id of each attempt
    rows,      \* ids with a quota reservation
    billed,    \* ids that were charged
    replayed,  \* pairs: an attempt and the attempt whose answer it replayed
    lost       \* fingerprints whose mapping went away inside the window

dedupeVars == <<entries, ent, dedupeSeen, inFlight, bodyCount, at, rid, rows, billed, replayed, lost>>
index == <<entries, ent, dedupeSeen, inFlight, bodyCount>>

Fps == {Fp[a] : a \in Attempts}
NoEntry == [completed |-> FALSE, closed |-> FALSE, body |-> FALSE, late |-> FALSE, waiters |-> {}]
Mapped == {f \in Fps : entries[f] # {}}
Owner(f) == CHOOSE a \in Attempts : entries[f] = {a}

DedupeInit ==
    /\ entries = [f \in Fps |-> {}] /\ ent = [a \in Attempts |-> NoEntry]
    /\ dedupeSeen = << >> /\ inFlight = 0 /\ bodyCount = 0
    /\ at = [a \in Attempts |-> "start"] /\ rid = [a \in Attempts |-> a]
    /\ rows = {} /\ billed = {} /\ replayed = {} /\ lost = {}

Touch(s, f) == Append(SelectSeq(s, LAMBDA g : g # f), f)

(* The index as a record, so that the locked helpers compose as in the code. *)
Index == [map |-> entries, ent |-> ent, seen |-> dedupeSeen, fl |-> inFlight, bc |-> bodyCount]
Becomes(x) ==
    /\ entries' = x.map /\ ent' = x.ent /\ dedupeSeen' = x.seen
    /\ inFlight' = x.fl /\ bodyCount' = x.bc

(* releaseBodyLocked *)
ReleaseBody(x, a) ==
    [x EXCEPT !.bc = IF x.ent[a].body THEN @ - 1 ELSE @, !.ent[a].body = FALSE]

(* removeLocked *)
RemoveLocked(x, f) ==
    LET a == CHOOSE b \in x.map[f] : TRUE
        y == ReleaseBody(x, a)
    IN  [y EXCEPT !.map[f] = {}, !.seen = SelectSeq(@, LAMBDA g : g # f),
                  !.fl = IF x.ent[a].completed THEN @ ELSE @ - 1,
                  !.ent[a].closed = TRUE]

Live(x) == {f \in Fps : x.map[f] # {}}
Entry(x, f) == x.ent[CHOOSE b \in x.map[f] : TRUE]
Expired(x) == {f \in Live(x) : Entry(x, f).completed /\ Entry(x, f).late}

(* pruneExpiredLocked *)
PruneExpired(x) == FoldLeft(LAMBDA y, f : IF f \in Expired(x) THEN RemoveLocked(y, f) ELSE y, x, x.seen)

(* evictOldestMappingLocked, while the table is full; a claim in flight is  *)
(* never evicted.                                                           *)
EvictMappings(x) ==
    LET done == SelectSeq(x.seen, LAMBDA f : Entry(x, f).completed)
    IN  IF Cardinality(Live(x)) < MaxMappings \/ done = << >> THEN x ELSE RemoveLocked(x, Head(done))

(* pruneForInsertLocked: below the cap, prune at most once per interval. *)
PruneForInsert(x) ==
    IF Cardinality(Live(x)) < MaxMappings
    THEN {x, PruneExpired(x)}
    ELSE {EvictMappings(PruneExpired(x))}

(* evictBodiesLocked *)
EvictBodies(x) ==
    LET full == SelectSeq(x.seen, LAMBDA f : Entry(x, f).body)
    IN  IF x.bc <= MaxBodies \/ full = << >> THEN x
        ELSE ReleaseBody(x, CHOOSE b \in x.map[Head(full)] : TRUE)

LostBy(x, y) == {f \in Live(x) \ Live(y) : ~Entry(x, f).late}

(* claim, and what handleChatCompletions does with it: adopt the owner's    *)
(* id, become the owner, or go on without the index.                        *)
Claim(a) ==
    LET f == Fp[a]
        x == IF f \in Expired(Index) THEN RemoveLocked(Index, f) ELSE Index
    IN  /\ at[a] = "start"
        /\ \/ /\ x.map[f] # {}
              /\ Becomes([x EXCEPT !.seen = Touch(@, f)])
              /\ rid' = [rid EXCEPT ![a] = Owner(f)]
              /\ at' = [at EXCEPT ![a] = "await"]
              /\ UNCHANGED lost
           \/ /\ x.map[f] = {} /\ UNCHANGED rid
              /\ \E y \in PruneForInsert(x) :
                   /\ IF y.fl >= MaxInFlight
                      THEN Becomes(y) /\ at' = [at EXCEPT ![a] = "alone"]
                      ELSE /\ Becomes([y EXCEPT !.map[f] = {a}, !.seen = Append(@, f), !.fl = @ + 1])
                           /\ at' = [at EXCEPT ![a] = "owner"]
                   /\ lost' = lost \union LostBy(x, y) \union (IF y.fl >= MaxInFlight THEN {f} ELSE {})
        /\ UNCHANGED <<rows, billed, replayed>>

(* awaitTerminal: park on the entry unless it is closed or has its waiters. *)
Park(a) ==
    /\ at[a] = "await" /\ ~ent[rid[a]].closed
    /\ IF Cardinality(ent[rid[a]].waiters) < MaxWaiters
       THEN /\ ent' = [ent EXCEPT ![rid[a]].waiters = @ \union {a}]
            /\ at' = [at EXCEPT ![a] = "parked"]
       ELSE at' = [at EXCEPT ![a] = "conflict"] /\ UNCHANGED ent
    /\ UNCHANGED <<entries, dedupeSeen, inFlight, bodyCount, rid, rows, billed, replayed, lost>>

(* The end of the wait: the entry's channel is closed, or the waiter's own  *)
(* deadline passes.  Then replaySnapshot: an answer that is complete, still *)
(* stored and still inside the window.                                      *)
Resume(a) ==
    LET e == ent[rid[a]]
    IN  /\ at[a] \in {"await", "parked"}
        /\ ent' = [ent EXCEPT ![rid[a]].waiters = @ \ {a}]
        /\ \/ /\ e.closed /\ e.completed /\ e.body /\ ~e.late
              /\ replayed' = replayed \union {<<a, rid[a]>>}
              /\ at' = [at EXCEPT ![a] = "done"]
              /\ dedupeSeen' = IF entries[Fp[a]] = {rid[a]} THEN Touch(dedupeSeen, Fp[a]) ELSE dedupeSeen
           \/ /\ at[a] = "parked" \/ e.closed
              /\ ~(e.closed /\ e.completed /\ e.body /\ ~e.late)
              /\ at' = [at EXCEPT ![a] = "conflict"]
              /\ UNCHANGED <<dedupeSeen, replayed>>
        /\ UNCHANGED <<entries, inFlight, bodyCount, rid, rows, billed, lost>>

(* Mutant: a duplicate reserves under the id it minted itself. *)
ReserveMinted(a) ==
    /\ at[a] \in {"owner", "alone", "conflict"}
    /\ rows' = rows \union {a} /\ rid' = [rid EXCEPT ![a] = a]
    /\ at' = [at EXCEPT ![a] = IF @ = "owner" THEN "serving" ELSE "servingUnowned"]
    /\ UNCHANGED <<index, billed, replayed, lost>>

(* ReserveQuota under the id the attempt goes by: a second row is a 409. *)
Reserve(a) ==
    /\ at[a] \in {"owner", "alone", "conflict"}
    /\ IF rid[a] \in rows
       THEN UNCHANGED rows /\ at' = [at EXCEPT ![a] = IF @ = "owner" THEN "drop" ELSE "done"]
       ELSE /\ rows' = rows \union {rid[a]}
            /\ at' = [at EXCEPT ![a] = IF @ = "owner" THEN "serving" ELSE "servingUnowned"]
    /\ UNCHANGED <<index, rid, billed, replayed, lost>>

(* The request is served.  A whole answer and a stream the buyer left are   *)
(* charged; a failure is refunded.                                          *)
Serve(a) ==
    /\ at[a] \in {"serving", "servingUnowned"}
    /\ \E end \in {"cacheable", "oversize", "left", "failed"} :
         /\ billed' = IF end = "failed" THEN billed ELSE billed \union {rid[a]}
         /\ at' = [at EXCEPT ![a] = CASE @ = "servingUnowned" -> "done"
                                      [] end = "cacheable" -> "publish"
                                      [] end = "oversize" -> "publishBare"
                                      [] OTHER -> "drop"]
    /\ UNCHANGED <<index, rid, rows, replayed, lost>>

(* publish, by the owner only. *)
Publish(a) ==
    LET f == Fp[a]
        body == at[a] = "publish"
        x == [Index EXCEPT !.ent[a].completed = TRUE, !.ent[a].closed = TRUE, !.ent[a].body = body,
                           !.seen = Touch(@, f), !.fl = @ - 1, !.bc = IF body THEN @ + 1 ELSE @]
    IN  /\ at[a] \in {"publish", "publishBare"}
        /\ IF entries[f] = {a} /\ ~ent[a].completed THEN Becomes(EvictBodies(x)) ELSE UNCHANGED index
        /\ at' = [at EXCEPT ![a] = "done"]
        /\ UNCHANGED <<rid, rows, billed, replayed, lost>>

(* drop: an answer that was not delivered whole is forgotten, and with it   *)
(* the mapping; the waiters wake up.                                        *)
Drop(a) ==
    /\ at[a] = "drop"
    /\ IF entries[Fp[a]] = {a}
       THEN Becomes(RemoveLocked(Index, Fp[a])) /\ lost' = lost \union {Fp[a]}
       ELSE UNCHANGED <<index, lost>>
    /\ at' = [at EXCEPT ![a] = "done"]
    /\ UNCHANGED <<rid, rows, billed, replayed>>

(* The window of a finished entry passes. *)
WindowPasses(a) ==
    /\ ent[a].completed /\ ~ent[a].late
    /\ ent' = [ent EXCEPT ![a].late = TRUE]
    /\ UNCHANGED <<entries, dedupeSeen, inFlight, bodyCount, at, rid, rows, billed, replayed, lost>>

Step(a) ==
    \/ Claim(a) \/ Park(a) \/ Resume(a) \/ Reserve(a) \/ Serve(a) \/ Publish(a) \/ Drop(a)

Done == (\A a \in Attempts : at[a] = "done") /\ UNCHANGED dedupeVars

DedupeNext == (\E a \in Attempts : Step(a) \/ WindowPasses(a)) \/ Done

----------------------------------------------------------------------------
(* The counters the caps are checked against are the truth about the map:   *)
(* a drift would close the index to everyone, or open it without bound.     *)
CountersHold ==
    /\ inFlight = Cardinality({f \in Mapped : ~ent[Owner(f)].completed})
    /\ bodyCount = Cardinality({a \in Attempts : ent[a].body})
    /\ \A a \in Attempts : ent[a].body => entries[Fp[a]] = {a}
    /\ inFlight <= MaxInFlight /\ bodyCount <= MaxBodies
    /\ Cardinality(Mapped) <= MaxMappings

(* A replayed answer has the replayer's own fingerprint and was paid for.   *)
ReplayIsPaid == \A p \in replayed : Fp[p[1]] = Fp[p[2]] /\ p[2] \in billed

(* Two identical requests are charged twice only if the mapping expired,    *)
(* was evicted, was dropped with an undelivered answer, or never made.      *)
OneBillWhileMapped ==
    \A a, b \in billed : Fp[a] = Fp[b] /\ a # b => Fp[a] \in lost \/ ent[a].late \/ ent[b].late

-----------------------------------------------------------------------------
(***************************************************************************)
(* The gateway's request rate limiter: a bucket of Limit tokens per key,   *)
(* refilled at Limit a second, kept in a map of at most MaxBuckets.  Time  *)
(* is counted in 1/Limit second, the time one token takes.                 *)
(***************************************************************************)

CONSTANTS Callers, Limit, MaxBuckets, TTL, PruneEvery, MaxTime

VARIABLES
    now,
    bucket,     \* key -> [tokens, last], for the keys in the map
    pruned,     \* lastPruned; 0 is the zero time
    passed,     \* history: admissions by key and time, until the key is evicted
    evicted     \* history: keys whose bucket was evicted to make room

rateVars == <<now, bucket, pruned, passed, evicted>>

RateInit ==
    /\ now = 1 /\ bucket = <<>> /\ pruned = 0
    /\ passed = [c \in Callers |-> [t \in 1..MaxTime |-> 0]] /\ evicted = {}

Full == Cardinality(DOMAIN bucket) >= MaxBuckets
Due == pruned = 0 \/ now - pruned >= PruneEvery
RateExpired == {c \in DOMAIN bucket : bucket[c].last + TTL < now}
Keep(b, S) == [c \in S |-> b[c]]

(* pruneForInsertLocked with pruneExpiredLocked: every prune interval, or   *)
(* when the map is full.                                                    *)
Pruned == IF Due \/ Full THEN Keep(bucket, DOMAIN bucket \ RateExpired) ELSE bucket

(* evictOldestLocked until one fits. *)
Victims(b) ==
    IF Cardinality(DOMAIN b) < MaxBuckets THEN {{}}
    ELSE {{c} : c \in {x \in DOMAIN b : \A y \in DOMAIN b : b[x].last <= b[y].last}}

(* allow: the refill since the last look, then one token if there is one.   *)
Allow(c) ==
    \E out \in IF c \in DOMAIN bucket THEN {{}} ELSE Victims(Pruned) :
      LET base == IF c \in DOMAIN bucket THEN bucket ELSE Keep(Pruned, DOMAIN Pruned \ out)
          old  == IF c \in DOMAIN bucket THEN bucket[c] ELSE [tokens |-> Limit, last |-> now]
          have == IF old.tokens + (now - old.last) > Limit THEN Limit ELSE old.tokens + (now - old.last)
          ok   == have >= 1
      IN /\ bucket' = [k \in DOMAIN base \union {c} |->
                         IF k = c THEN [tokens |-> IF ok THEN have - 1 ELSE have, last |-> now] ELSE base[k]]
         /\ pruned' = IF c \notin DOMAIN bucket /\ (Due \/ Full) THEN now ELSE pruned
         /\ passed' = IF ok /\ c \notin evicted THEN [passed EXCEPT ![c][now] = @ + 1] ELSE passed
         /\ evicted' = evicted \union out
         /\ UNCHANGED now

Tick == now < MaxTime /\ now' = now + 1 /\ UNCHANGED <<bucket, pruned, passed, evicted>>

RateNext == Tick \/ \E c \in Callers : Allow(c)

----------------------------------------------------------------------------
(* No key that was not evicted for room gets through more often than its    *)
(* burst and the refill of the time allow, in any stretch of time: pruning  *)
(* idle buckets gives nobody a fresh burst.                                 *)
RateHolds ==
    \A c \in Callers \ evicted : \A a, b \in 1..MaxTime :
      a <= b => LET S[t \in (a - 1)..b] == IF t = a - 1 THEN 0 ELSE S[t - 1] + passed[c][t]
                IN S[b] <= Limit + (b - a)
=============================================================================
