---------------------------- MODULE BuyerForward ----------------------------
(***************************************************************************)
(* One chat request in the coordinator, from the choice of a provider to   *)
(* the end of the answer: the failover loop shared by the three            *)
(* transports, what each transport can return, the rows written to the     *)
(* request log, and the one-shot writer that tells the gateway whether any *)
(* provider was credited.                                                  *)
(***************************************************************************)
EXTENDS Integers, Sequences, FiniteSets

CONSTANTS
    Providers,
    Provisional,   \* the providers under a request quota
    MaxRetries,    \* routing.max_retries
    MaxFaulted,    \* routing.max_providers_faulted_per_request
    MaxLogFaults,  \* writes of the request log that may fail
    MaxReady       \* busy providers that may report themselves ready again

VARIABLES
    req,       \* stream, pin (a provider or "no"), cap (min of the two retry limits)
    kind,      \* the transport of every provider
    pc, seq,   \* the step, and the sequence (callbacks) the loop runs with
    prov, excluded, faulted, retries, faultedN, failedOver, busy, readied,
    out,       \* what the attempt returned
    sent,      \* bytes of a 200 have reached the buyer
    claim,     \* the status line the buyer received, 0 before it
    late,      \* status lines written after the first
    marked,    \* the no-prior-dispatch header is on the response
    gone,      \* the buyer has left
    tried,     \* the providers the request was dispatched to, in order
    replayed,  \* some dispatch followed bytes sent to the buyer
    nowOut,    \* dispatchedThisAttempt
    credited,  \* providerCredited
    rows, attemptN, logFaults, quota

inputs == <<req, kind>>
route == <<prov, excluded, faulted, retries, faultedN, failedOver, busy, readied>>
buyer == <<sent, claim, late, marked, gone>>
sentOut == <<tried, replayed, nowOut>>
log == <<credited, rows, attemptN, logFaults>>
vars == <<inputs, pc, seq, route, out, buyer, sentOut, log, quota>>

None == "no"
Fault == "breaker"
NoFault == "none"

Init ==
    /\ req \in [stream : BOOLEAN, pin : {None} \cup Providers, cap : {0, MaxRetries}]
    /\ kind \in [Providers -> {"ws", "http"}]
    /\ pc = "select" /\ seq = None /\ prov = None
    /\ excluded = {} /\ faulted = {} /\ retries = 0 /\ faultedN = 0
    /\ failedOver = FALSE /\ busy = {} /\ readied = 0
    /\ out = [res |-> None, status |-> 0, log |-> "row", fault |-> NoFault]
    /\ sent = FALSE /\ claim = 0 /\ late = 0 /\ marked = FALSE /\ gone = FALSE
    /\ tried = << >> /\ replayed = FALSE /\ nowOut = FALSE
    /\ credited = FALSE /\ rows = << >> /\ attemptN = 0 /\ logFaults = 0
    /\ quota = [p \in Providers |-> 0]

----------------------------------------------------------------------------
(* stampNoChargeMarker: no credited row, and the current attempt either was *)
(* not dispatched or ends in the status that is never billed.               *)
NoChargeMarker(code, cr, now) == ~cr /\ ~(now /\ code # 503)

(* noPriorDispatchResponseWriter.mark: the first status line is the one the *)
(* buyer sees; a later one is counted and dropped.                          *)
Answer(code, cr) ==
    IF claim = 0
    THEN /\ claim' = code /\ marked' = NoChargeMarker(code, cr, nowOut) /\ UNCHANGED late
    ELSE /\ late' = late + 1 /\ UNCHANGED <<claim, marked>>

Silent == UNCHANGED <<claim, late, marked>>

(* recordRow for a provider: the ordinal advances whether or not the write  *)
(* succeeds, and only a durable row with a status other than 503 credits.   *)
Row(ok, status, fault) ==
    /\ ok \/ logFaults < MaxLogFaults
    /\ rows' = IF ok THEN Append(rows, [n |-> attemptN, p |-> prov, status |-> status, fault |-> fault])
                     ELSE rows
    /\ attemptN' = attemptN + 1
    /\ credited' = (credited \/ (ok /\ status # 503))
    /\ logFaults' = IF ok THEN logFaults ELSE logFaults + 1

(* logAttemptWithReceiptState: an attempt already logged is skipped. *)
LogAttempt(ok) ==
    IF out.log = "logged" THEN ok /\ UNCHANGED log ELSE Row(ok, out.status, out.fault)

Return(res, status, fault) ==
    /\ out' = [res |-> res, status |-> status, log |-> "row", fault |-> fault]
    /\ pc' = "decide"

ReturnUnlogged(res, tag) ==
    /\ out' = [res |-> res, status |-> 200, log |-> tag, fault |-> NoFault]
    /\ pc' = "decide"

End == pc' = "done" /\ UNCHANGED out

----------------------------------------------------------------------------
(* selectProviderExcluding as this loop sees it: a hard pin ignores the     *)
(* exclusions, a busy provider is not eligible, and any other filter, the   *)
(* quota or the preflight may leave nobody.                                 *)
Candidates(ex) == IF req.pin # None THEN {req.pin} \ busy ELSE Providers \ (ex \cup busy)

(* handleChatCompletions: the first selection and the choice of a sequence. *)
Select ==
    /\ pc = "select"
    /\ \/ \E p \in Candidates({}) :
            /\ prov' = p /\ pc' = "dispatch"
            /\ seq' = IF req.stream THEN "stream" ELSE IF kind[p] = "ws" THEN "wsnon" ELSE "http"
            /\ excluded' = IF ~req.stream /\ kind[p] = "http" THEN {p} ELSE {}
            /\ Silent /\ UNCHANGED out
       \/ \E code \in {404, 413, 429, 503} :
            /\ Answer(code, credited) /\ End /\ UNCHANGED <<prov, seq, excluded>>
    /\ UNCHANGED <<inputs, faulted, retries, faultedN, failedOver, busy, readied, sent, gone,
                   sentOut, log, quota>>

(* The start of every dispatch callback: the body is fitted to the          *)
(* provider, the route snapshot is made durable, and only then is the       *)
(* provider counted as dispatched.                                          *)
Dispatch ==
    /\ pc = "dispatch"
    /\ UNCHANGED <<inputs, seq, route, out, sent, gone, quota>>
    /\ \/ /\ \E ok \in BOOLEAN : Row(ok, 502, NoFault)
          /\ Answer(502, credited') /\ pc' = "done" /\ UNCHANGED sentOut
       \/ /\ Answer(500, credited) /\ pc' = "done" /\ UNCHANGED <<sentOut, log>>
       \/ /\ tried' = Append(tried, prov) /\ nowOut' = TRUE
          /\ replayed' = (replayed \/ sent)
          /\ pc' = IF seq = "http" THEN "httpbody" ELSE IF kind[prov] = "ws" THEN "open" ELSE "httpopen"
          /\ Silent /\ UNCHANGED log

----------------------------------------------------------------------------
(* forwardWS: the provisional quota, then the relay.  A relay that does not *)
(* open gives the quota back.                                               *)
Open ==
    /\ pc = "open"
    /\ LET Fail(res, code) == /\ Return(res, code, NoFault) /\ UNCHANGED quota
                              /\ IF req.stream \/ res = "disconnected" THEN Silent
                                 ELSE Answer(code, credited)
       IN \/ prov \in Provisional /\ Fail("failed", 429)
          \/ Fail("disconnected", 502)
          \/ Fail("unavailable", 503)
          \/ Fail("failed", 502)
          \/ /\ pc' \in IF req.stream THEN {"wsstream", "wsbuffered"} ELSE {"wsbody"}
             /\ quota' = [quota EXCEPT ![prov] = IF prov \in Provisional THEN @ + 1 ELSE @]
             /\ Silent /\ UNCHANGED out
    /\ UNCHANGED <<inputs, seq, route, sent, gone, sentOut, log>>

(* The end of forwardWS: which results give the quota back. *)
Refund(back) == quota' = [quota EXCEPT ![prov] = IF prov \in Provisional /\ back THEN @ - 1 ELSE @]

streamFrame == UNCHANGED <<inputs, seq, route, gone, sentOut, log>>

(* Mutant: a malformed tool call is returned without its breaker fault. *)
WSChunkFaultless ==
    /\ pc = "wsstream" /\ streamFrame /\ UNCHANGED quota
    /\ sent' = TRUE /\ IF sent THEN Silent ELSE Answer(200, credited)
    /\ \/ UNCHANGED <<pc, out>>
       \/ Return("failed", 200, NoFault)
(* writeChunk of forwardWSStreaming. *)
WSChunk ==
    /\ pc = "wsstream" /\ streamFrame /\ UNCHANGED quota
    /\ LET Commit == sent' = TRUE /\ IF sent THEN Silent ELSE Answer(200, credited)
       IN \/ Commit /\ UNCHANGED <<pc, out>>
          \/ Commit /\ gone /\ Return("cancelled", 200, NoFault)
          \/ Commit /\ Return("complete", 200, NoFault)          \* output truncated by the guard
          \/ Commit /\ Return("failed", 200, Fault)              \* malformed tool call or settlement
          \/ /\ IF sent THEN Silent ELSE Answer(502, credited)   \* invalid encoding
             /\ Return("failed", IF sent THEN 200 ELSE 502, Fault) /\ UNCHANGED sent

(* relay.Done of forwardWSStreaming: an error end before the first byte can *)
(* be retried, after it the stream is closed with an error event.           *)
WSDone ==
    /\ pc = "wsstream" /\ streamFrame /\ UNCHANGED quota
    /\ \/ /\ ~sent /\ Silent /\ UNCHANGED sent
          /\ \/ Return("queuefull", 503, NoFault)
             \/ \E code \in {413, 502, 503} : Return("failed", code, NoFault)
       \/ /\ sent' = TRUE /\ IF sent THEN Silent ELSE Answer(200, credited)
          /\ \E f \in {NoFault, Fault} : Return("complete", 200, f)

(* relay.Errors and the buyer's context in forwardWSStreaming. *)
WSError ==
    /\ pc = "wsstream" /\ streamFrame /\ Silent /\ UNCHANGED sent
    /\ \/ gone /\ Return("cancelled", 200, NoFault) /\ UNCHANGED quota
       \/ ~gone /\ sent /\ Return("committed", 200, Fault) /\ UNCHANGED quota
       \/ ~gone /\ ~sent /\ Return("disconnected", 502, Fault) /\ Refund(TRUE)
       \/ ~gone /\ ~sent /\ Return("timedout", 504, Fault) /\ UNCHANGED quota
       \/ Return("failed", IF sent THEN 200 ELSE 502, IF sent THEN Fault ELSE NoFault) /\ UNCHANGED quota

(* forwardWSStreamingBuffered: nothing is written before the whole stream   *)
(* was seen and consolidated; a stream the guard cuts short is complete     *)
(* with nothing written.                                                    *)
WSBuffered ==
    /\ pc = "wsbuffered" /\ streamFrame /\ UNCHANGED quota
    /\ \/ Silent /\ UNCHANGED sent
          /\ \/ gone /\ Return("cancelled", 200, NoFault)
             \/ \E code \in {413, 502, 503} : Return("failed", code, Fault)
             \/ Return("complete", 200, NoFault)
       \/ /\ sent' = TRUE /\ Answer(200, credited)
          /\ \/ Return("complete", 200, NoFault)
             \/ gone /\ Return("cancelled", 200, NoFault)

----------------------------------------------------------------------------
(* forwardStreaming up to the response headers. *)
HTTPOpen ==
    /\ pc = "httpopen" /\ streamFrame /\ Silent /\ UNCHANGED <<sent, quota>>
    /\ \/ gone /\ ReturnUnlogged("cancelled", "empty")
       \/ ~gone /\ Return("timedout", 504, Fault)
       \/ ~gone /\ Return("failed", 502, NoFault)
       \/ \E code \in {429, 502, 503} : Return("failed", code, NoFault)
       \/ Return("timedout", 504, NoFault)
       \/ pc' \in {"httpstream", "httpbuffered"} /\ UNCHANGED out

(* forwardStreaming before the first event worth committing to. *)
PreCommit ==
    /\ pc = "httpstream" /\ ~sent /\ streamFrame /\ UNCHANGED quota
    /\ \/ /\ Silent /\ UNCHANGED sent
          /\ \/ Return("disconnected", 502, Fault)               \* too long, malformed, closed
             \/ gone /\ ReturnUnlogged("cancelled", "empty")
             \/ ~gone /\ Return("timedout", 504, Fault)
       \/ /\ sent' = TRUE /\ Answer(200, credited)
          /\ \/ UNCHANGED <<pc, out>>
             \/ gone /\ Return("cancelled", 200, NoFault)

(* forwardStreaming after it: every end is final. *)
Committed ==
    /\ pc = "httpstream" /\ sent /\ streamFrame /\ Silent /\ UNCHANGED <<sent, quota>>
    /\ \/ Return("committed", 200, Fault)
       \/ gone /\ Return("cancelled", 200, NoFault)
       \/ \E f \in {NoFault, Fault} : Return("complete", 200, f)

(* forwardStreamingBuffered. *)
HTTPBuffered ==
    /\ pc = "httpbuffered" /\ streamFrame /\ UNCHANGED quota
    /\ \/ Return("disconnected", 502, Fault) /\ Silent /\ UNCHANGED sent
       \/ /\ sent' = TRUE /\ Answer(200, credited)
          /\ \/ Return("complete", 200, NoFault)
             \/ gone /\ Return("cancelled", 200, NoFault)

----------------------------------------------------------------------------
(* forwardWSNonStreaming, a complete end: the row is made durable before    *)
(* the 200 is written, and a row that cannot be written turns it into a 500.*)
WSComplete ==
    /\ pc = "wsbody"
    /\ \E f \in {NoFault, Fault} :
         \/ /\ Row(TRUE, 200, f) /\ Answer(200, credited') /\ sent' = TRUE
            /\ ReturnUnlogged("complete", "logged")
         \/ /\ Row(FALSE, 200, f) /\ Answer(500, credited) /\ UNCHANGED sent
            /\ ReturnUnlogged("failed", "logged")
    /\ UNCHANGED <<inputs, seq, route, gone, sentOut, quota>>

(* forwardWSNonStreaming, every other end: first the error ends answered in *)
(* place.                                                                   *)
BodyFailed ==
    \E code \in {413, 502, 503}, f \in {NoFault, Fault} :
      Answer(code, credited) /\ Return("failed", code, f)
WSBody ==
    /\ pc = "wsbody" /\ streamFrame /\ UNCHANGED sent
    /\ \/ BodyFailed /\ UNCHANGED quota
       \/ Return("failed", 502, NoFault) /\ Silent /\ UNCHANGED quota   \* end status "cancelled"
       \/ Return("queuefull", 503, NoFault) /\ Silent /\ Refund(TRUE)
       \/ gone /\ Return("cancelled", 200, NoFault) /\ Silent /\ UNCHANGED quota
       \/ ~gone /\ Return("timedout", 504, Fault) /\ Silent /\ UNCHANGED quota
       \/ ~gone /\ Return("disconnected", 502, Fault) /\ Silent /\ Refund(TRUE)

(* A 200 whose body cannot be read, or is refused by the guard. *)
HTTPRefused ==
    \E ok \in BOOLEAN, f \in {NoFault, Fault} :
      /\ Row(ok, 502, f) /\ UNCHANGED sent
      /\ Answer(IF ok \/ f = NoFault THEN 502 ELSE 500, credited')

(* The HTTP dispatch callback when the provider answers 200: everything is  *)
(* settled inside the callback and the loop ends.  The sequence posts to    *)
(* whatever provider a retry chose; one behind a WebSocket has no endpoint  *)
(* and the post fails.                                                      *)
HTTP200 ==
    /\ pc = "httpbody" /\ kind[prov] = "http" /\ End
    /\ \/ /\ Row(TRUE, 200, NoFault)
          /\ \/ Answer(200, credited') /\ sent' = TRUE
             \/ Answer(500, credited') /\ UNCHANGED sent    \* the receipt could not be ingested
       \/ Row(FALSE, 200, NoFault) /\ Answer(500, credited) /\ UNCHANGED sent
       \/ HTTPRefused
    /\ UNCHANGED <<inputs, seq, route, gone, sentOut, quota>>

(* ... when it answers anything else: an error the provider explains is     *)
(* passed through at once, any other goes to the retry budget.              *)
HTTPOther ==
    /\ pc = "httpbody"
    /\ \/ /\ kind[prov] = "http"
          /\ \E ok \in BOOLEAN, code \in {429, 502, 503, 504}, f \in {NoFault, Fault} :
            /\ Row(ok, code, f) /\ Answer(IF ok THEN code ELSE 500, credited') /\ End
       \/ /\ kind[prov] = "http"
          /\ \E code \in {429, 502, 503, 504} : Return("http", code, NoFault)
          /\ Silent /\ UNCHANGED log
       \/ Return("httperr", 502, NoFault) /\ Silent /\ UNCHANGED log
    /\ UNCHANGED <<inputs, seq, route, sent, gone, sentOut, quota>>

----------------------------------------------------------------------------
(* classifyStreamResult: the results after which a stream is only finalised.*)
StreamCommitted(o) == o.res \in {"committed", "cancelled"}

(* The results that end the request in the first three branches of the      *)
(* loop, and what renderCommitted, handleNonRetryableTerminal and           *)
(* renderSuccess do with them.                                              *)
Finalised == \/ seq = "stream" /\ StreamCommitted(out)
             \/ seq = "wsnon" /\ out.res \in {"failed", "unavailable", "cancelled"}
             \/ out.res = "complete"

Final ==
    /\ pc = "decide" /\ Finalised
    /\ IF out.log = "empty" THEN UNCHANGED log ELSE \E ok \in BOOLEAN : LogAttempt(ok)
    /\ End /\ Silent /\ UNCHANGED <<inputs, seq, route, sent, gone, sentOut, quota>>

(* classifyStreamResult, classifyWSResult, classifyHTTPResult. *)
FailoverEligible == out.res = "disconnected" /\ seq # "http" /\ kind[prov] = "ws"

(* The provider is excluded for the rest of the request, and marked busy    *)
(* when its queue was full.                                                 *)
Exclude ==
    /\ pc = "decide" /\ ~Finalised
    /\ excluded' = excluded \cup {prov} /\ faulted' = faulted \cup {prov}
    /\ busy' = IF out.res = "queuefull" THEN busy \cup {prov} ELSE busy
    /\ pc' = IF FailoverEligible THEN "failover" ELSE "retry"
    /\ UNCHANGED <<inputs, seq, prov, retries, faultedN, failedOver, readied, out, buyer,
                   sentOut, log, quota>>

(* The next provider: a WS sequence that picks an HTTP provider falls       *)
(* through to the HTTP sequence with the faulted routes excluded.           *)
Hop(p, ex) ==
    /\ prov' = p /\ pc' = "dispatch" /\ nowOut' = FALSE
    /\ IF seq = "wsnon" /\ kind[p] = "http"
       THEN seq' = "http" /\ excluded' = faulted \cup {p}
       ELSE seq' = seq /\ excluded' = ex

(* failoverCandidate and onFailoverHit: once per loop and never for a pin;  *)
(* only the non-streaming callback logs the attempt that died.              *)
FailoverHit ==
    /\ pc = "failover" /\ ~failedOver /\ req.pin = None
    /\ \E p \in Candidates(excluded) : Hop(p, excluded)
    /\ failedOver' = TRUE
    /\ IF seq = "wsnon" THEN \E ok \in BOOLEAN : LogAttempt(ok) ELSE UNCHANGED log
    /\ Silent /\ UNCHANGED <<inputs, faulted, retries, faultedN, busy, readied, out, sent, gone,
                             tried, replayed, quota>>

(* onFailoverMiss: a dead WS request fails fast, a stream may be retried. *)
FailoverMiss ==
    /\ pc = "failover"
    /\ \/ seq = "stream" /\ pc' = "retry" /\ Silent /\ UNCHANGED <<out, log>>
       \/ /\ seq = "wsnon" /\ End
          /\ \E ok \in BOOLEAN : LogAttempt(ok) /\ Answer(IF ok THEN 502 ELSE 500, credited')
    /\ UNCHANGED <<inputs, seq, route, sent, gone, sentOut, quota>>

(* ShouldRetry, without the time budget, which may run out at any time. *)
ShouldRetry ==
    /\ req.cap > 0 /\ req.pin = None /\ ~gone
    /\ retries < req.cap /\ faultedN < MaxFaulted
    /\ out.res = "httperr" \/
       (IF seq = "http" THEN out.status
        ELSE IF out.res = "timedout" THEN 504
        ELSE IF out.res = "unavailable" THEN 503
        ELSE IF seq = "stream" /\ kind[prov] = "http" THEN out.status ELSE 502) \in {502, 504}

(* skipRetryBudgetCheck: a full queue always advances. *)
SkipBudget == seq = "wsnon" /\ out.res = "queuefull"

(* renderRetryExhausted of the three sequences. *)
RetryExhausted ==
    /\ pc = "retry" /\ ~SkipBudget
    /\ \E ok \in BOOLEAN :
         /\ IF seq = "http" THEN Row(ok, IF out.status = 504 THEN 504 ELSE 502, NoFault) ELSE LogAttempt(ok)
         /\ Answer(IF ~ok THEN 500
                   ELSE IF out.res = "timedout" \/ (seq = "http" /\ out.status = 504) THEN 504
                   ELSE IF out.res = "unavailable" THEN 503 ELSE 502, credited')
    /\ End /\ UNCHANGED <<inputs, seq, route, sent, gone, sentOut, quota>>

(* logRetryAttempt, then advanceToNextProvider. *)
Retry ==
    /\ pc = "retry" /\ (SkipBudget \/ ShouldRetry)
    /\ \E ok \in BOOLEAN : LogAttempt(ok)
    /\ \/ /\ \E p \in Candidates(excluded) : Hop(p, excluded \cup {p})
          /\ retries' = retries + 1 /\ faultedN' = faultedN + 1
          /\ Silent /\ UNCHANGED out
       \/ /\ \E code \in {413, 429, 503} : Answer(code, credited')
          /\ End /\ UNCHANGED <<prov, seq, excluded, retries, faultedN, nowOut>>
    /\ UNCHANGED <<inputs, faulted, failedOver, busy, readied, sent, gone, tried, replayed, quota>>

(* The environment: the buyer hangs up, a busy provider reports ready. *)
BuyerLeaves ==
    /\ pc # "done" /\ ~gone /\ gone' = TRUE
    /\ UNCHANGED <<inputs, pc, seq, route, out, sent, claim, late, marked, sentOut, log, quota>>

ProviderReady ==
    /\ pc # "done" /\ readied < MaxReady
    /\ \E p \in busy : busy' = busy \ {p}
    /\ readied' = readied + 1
    /\ UNCHANGED <<inputs, pc, seq, prov, excluded, faulted, retries, faultedN, failedOver, out,
                   buyer, sentOut, log, quota>>

Step == \/ Select \/ Dispatch \/ Open \/ WSChunk \/ WSDone \/ WSError \/ WSBuffered
        \/ HTTPOpen \/ PreCommit \/ Committed \/ HTTPBuffered \/ WSComplete \/ WSBody
        \/ HTTP200 \/ HTTPOther \/ Final \/ Exclude \/ FailoverHit \/ FailoverMiss
        \/ RetryExhausted \/ Retry

Next == Step \/ BuyerLeaves \/ ProviderReady

----------------------------------------------------------------------------
(* The mark "no provider was credited", on which the gateway gives the      *)
(* buyer's money back, is never on the response of a request for which a    *)
(* provider row with a billable status exists, although the transports      *)
(* write some rows before the status line and some after it                 *)
(* (phase_timing.go stampNoChargeMarker).                                   *)
MarkerIsHonest == marked => ~credited

(* At most one attempt of a request is credited: a row below 400 without a  *)
(* breaker fault, whatever mix of failover, retry and fall-through led      *)
(* there (SPEC-004 FR-SR-14).                                               *)
OneCredit ==
    Cardinality({i \in DOMAIN rows : rows[i].status < 400 /\ rows[i].fault = NoFault}) <= 1

(* The log has no attempt twice: the ordinals of the rows of a request are  *)
(* distinct, and when every write succeeded a finished request has one row  *)
(* per dispatch, but for a stream attempt replaced by failover and one the  *)
(* buyer left before its first byte.                                        *)
EveryAttemptLogged ==
    /\ \A i, j \in DOMAIN rows : i # j => rows[i].n # rows[j].n
    /\ pc = "done" /\ logFaults = 0
         => LET lost == (IF req.stream /\ failedOver THEN 1 ELSE 0) + (IF out.log = "empty" THEN 1 ELSE 0)
                extra == IF nowOut THEN 0 ELSE 1
            IN Len(tried) - Len(rows) \in {lost, lost - extra}

(* A request that names no provider never goes to the same one twice, and   *)
(* to at most one more than its retries and its one failover allow, except  *)
(* for full queues, which advance without a budget.                         *)
RetriesAreBounded ==
    req.pin = None =>
      /\ \A i, j \in DOMAIN tried : i # j => tried[i] # tried[j]
      /\ (req.stream \/ (busy = {} /\ readied = 0)) => Len(tried) <= 1 + req.cap + (IF failedOver THEN 1 ELSE 0)

(* A buyer who asked for no stream receives a 200 only when its row is      *)
(* durable, and no second status line follows the first.                    *)
DurableBeforeServed ==
    ~req.stream => /\ late = 0
                   /\ claim = 200 => \E i \in DOMAIN rows : rows[i].status = 200

(* The quota of a provisional provider is charged only for an attempt that  *)
(* is in the log: one replaced by failover, which a stream does not log,    *)
(* has had its quota returned (forwardWS).                                  *)
QuotaIsLogged ==
    pc = "done" /\ logFaults = 0
      => \A p \in Providers : quota[p] <= Cardinality({i \in DOMAIN rows : rows[i].p = p})

----------------------------------------------------------------------------
(* The inductive invariant behind these, in parts.  The steps at which a    *)
(* provider holds the attempt, and those at which a transport runs.         *)
StreamPCs == {"wsstream", "wsbuffered", "httpopen", "httpstream", "httpbuffered"}
FlightPCs == StreamPCs \cup {"open", "wsbody", "httpbody"}
AfterPCs == {"decide", "failover", "retry"}
Results == {None, "disconnected", "unavailable", "failed", "cancelled", "complete", "queuefull",
            "committed", "timedout", "http", "httperr"}
Outs == [res : Results, status : Nat, log : {"row", "logged", "empty"}, fault : {NoFault, Fault}]
LogRows == [n : Nat, p : Providers, status : Nat, fault : {NoFault, Fault}]

TypeOK ==
    /\ req \in [stream : BOOLEAN, pin : {None} \cup Providers, cap : {0, MaxRetries}]
    /\ kind \in [Providers -> {"ws", "http"}]
    /\ pc \in FlightPCs \cup AfterPCs \cup {"select", "dispatch", "done"}
    /\ seq \in {None, "stream", "wsnon", "http"}
    /\ prov \in {None} \cup Providers
    /\ excluded \subseteq Providers /\ faulted \subseteq Providers /\ busy \subseteq Providers
    /\ retries \in Nat /\ faultedN \in Nat /\ readied \in Nat /\ failedOver \in BOOLEAN
    /\ out \in Outs
    /\ sent \in BOOLEAN /\ marked \in BOOLEAN /\ gone \in BOOLEAN
    /\ claim \in Nat /\ late \in Nat
    /\ tried \in Seq(Providers) /\ replayed \in BOOLEAN /\ nowOut \in BOOLEAN
    /\ credited \in BOOLEAN /\ rows \in Seq(LogRows)
    /\ attemptN \in Nat /\ logFaults \in Nat
    /\ quota \in [Providers -> Int]

(* Each step belongs to the sequence and the transport it is written for.   *)
Placed ==
    /\ pc = "select" => tried = << >> /\ rows = << >> /\ claim = 0 /\ seq = None /\ faulted = {}
    /\ pc \notin {"select", "done"} => prov \in Providers /\ seq # None /\ (seq = "stream" <=> req.stream)
    /\ pc \in {"select", "dispatch"} => ~nowOut
    /\ pc \in FlightPCs \cup AfterPCs => nowOut
    /\ pc = "dispatch" /\ seq = "wsnon" => kind[prov] = "ws"
    /\ pc \in {"open", "wsstream", "wsbuffered", "wsbody"} => seq # "http" /\ kind[prov] = "ws"
    /\ pc \in {"httpopen", "httpstream", "httpbuffered"} => kind[prov] = "http"
    /\ pc \in StreamPCs => seq = "stream"
    /\ pc = "wsbody" => seq = "wsnon"
    /\ pc = "httpbody" => seq = "http"
    /\ pc = "failover" => FailoverEligible
    /\ pc \in {"failover", "retry"} => ~Finalised
    /\ out.log = "empty" => pc = "done" \/ (pc = "decide" /\ Finalised /\ kind[prov] = "http")
    /\ out.log = "logged" => pc = "done" \/ (pc = "decide" /\ Finalised /\ seq = "wsnon")

(* A buyer without a stream has an answer only when the request is over or  *)
(* its loop is about to end, and the mark is on a 503 or on the last answer.*)
Answered ==
    /\ ~req.stream => late = 0 /\ (claim # 0 => pc = "done" \/ (pc = "decide" /\ Finalised /\ seq = "wsnon"))
    /\ marked => /\ claim # 0 /\ ~credited
                 /\ pc = "done" \/ (pc = "decide" /\ seq = "wsnon" /\ out.status = 503)

(* An attempt that would be credited is the last one. *)
Credits(r) == r.status < 400 /\ r.fault = NoFault
Credited ==
    /\ \A i, j \in DOMAIN rows : Credits(rows[i]) /\ Credits(rows[j]) => i = j
    /\ \A i \in DOMAIN rows : Credits(rows[i]) => pc = "done" \/ (pc = "decide" /\ out.log = "logged")
    /\ pc \in AfterPCs => Finalised \/ ~Credits(out)

(* The rows, the dispatches and the attempts not logged. *)
Unlogged == IF req.stream /\ failedOver THEN 1 ELSE 0
Numbered ==
    /\ \A i \in DOMAIN rows : rows[i].n < attemptN
    /\ \A i, j \in DOMAIN rows : i # j => rows[i].n # rows[j].n
    /\ logFaults = 0 => attemptN = Len(rows)
    /\ pc = "select" => attemptN = 0 /\ ~failedOver
    /\ pc = "dispatch" \/ (pc = "decide" /\ out.log = "logged") => Len(tried) = attemptN + Unlogged
    /\ pc \in FlightPCs \cup {"failover", "retry"} \/ (pc = "decide" /\ out.log # "logged")
         => Len(tried) = attemptN + Unlogged + 1
    /\ pc = "done" => LET left == Len(tried) - attemptN - Unlogged - (IF out.log = "empty" THEN 1 ELSE 0)
                      IN left = 0 \/ (left = -1 /\ ~nowOut)

(* A provider that was tried is excluded, and the budget counts the tries. *)
Tried == {tried[i] : i \in DOMAIN tried}
Hops == retries + (IF failedOver THEN 1 ELSE 0)
Routed ==
    /\ faulted \subseteq excluded
    /\ req.pin = None =>
         /\ \A i, j \in DOMAIN tried : i # j => tried[i] # tried[j]
         /\ pc = "dispatch" => prov \notin Tried /\ Tried \subseteq faulted
         /\ pc \in FlightPCs \cup AfterPCs => Tried \subseteq faulted \cup {prov}
         /\ pc \in {"failover", "retry"} => Tried \subseteq faulted
    /\ pc = "select" => retries = 0 /\ ~failedOver
    /\ pc = "dispatch" => Len(tried) <= Hops
    /\ Len(tried) <= Hops + 1
    /\ pc = "retry" /\ out.res = "queuefull" => busy # {} \/ readied > 0
    /\ retries <= req.cap \/ (~req.stream /\ (busy # {} \/ readied > 0))

Served == ~req.stream /\ claim = 200 => \E i \in DOMAIN rows : rows[i].status = 200

(* A provisional provider's quota is covered by rows, and by the attempt at *)
(* hand once its relay is open.                                             *)
RowsOf(p) == Cardinality({i \in DOMAIN rows : rows[i].p = p})
Charged ==
    \/ pc \in {"wsstream", "wsbuffered", "wsbody"}
    \/ pc \in AfterPCs /\ kind[prov] = "ws" /\ out.res # "disconnected" /\ out.log = "row"
Quotas ==
    /\ \A p \in Providers \ Provisional : quota[p] = 0
    /\ \A p \in Providers : RowsOf(p) \in Nat
    /\ logFaults = 0 =>
         \A p \in Providers : quota[p] <= RowsOf(p) + (IF Charged /\ p = prov THEN 1 ELSE 0)

(* The inductive invariant of a request: its rows, its markers, its        *)
(* response and its quotas agree at every step of every attempt            *)
(* (buyer/server.go, the loop of handleChatCompletions).                   *)
ForwardInv ==
    /\ TypeOK /\ Placed /\ Answered /\ Credited /\ Numbered /\ Routed /\ Served /\ Quotas
=============================================================================
