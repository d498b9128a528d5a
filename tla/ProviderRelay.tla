--------------------------- MODULE ProviderRelay ----------------------------
(***************************************************************************)
(* The relay of inference over a provider's websocket (ws/relay.go), in    *)
(* three parts that share no state: requests and their buffers, the change *)
(* of keys (prefix rekey) and the window of frame numbers (prefix window). *)
(***************************************************************************)
EXTENDS Integers, Sequences, FiniteSets

-----------------------------------------------------------------------------
(***************************************************************************)
(* The relay of inference over one provider's websocket (ws/relay.go):     *)
(* the dispatcher of each request, the session's writer, its reader, the   *)
(* goroutine that watches each request's context and the one that hands    *)
(* its chunks to the buyer.  They meet in the session's active map and in  *)
(* each request's channels, which whoever removes a request from the map   *)
(* closes.                                                                 *)
(***************************************************************************)

CONSTANTS Requests, MaxConcurrency, WriteBuffer, ChunkBuffer, ByteLimit, MaxChunks

VARIABLES open,      \* the session is not closed
          httpOnly,
          active,    \* the active map
          pc,        \* each request's dispatcher and then its buyer
          chan,      \* chunks in the request's channel, and whether it is closed
          done, errs,\* what its other two channels hold
          bytes,     \* bufferedBytes
          held,      \* the chunk the delivering goroutine has taken
          queue,     \* writeCh
          reader,    \* the request whose chunk the read loop is about to hand over
          sent,      \* chunks the provider has sent for each request
          outcome,   \* what the buyer's side was told
          panicked   \* a send on, or close of, a closed channel

vars == <<open, httpOnly, active, pc, chan, done, errs, bytes, held, queue,
          reader, sent, outcome, panicked>>

None == "none"

Init ==
  /\ open = TRUE /\ httpOnly = FALSE /\ active = {}
  /\ pc = [q \in Requests |-> "idle"]
  /\ chan = [q \in Requests |-> [n |-> 0, closed |-> FALSE]]
  /\ done = [q \in Requests |-> FALSE] /\ errs = [q \in Requests |-> None]
  /\ bytes = [q \in Requests |-> 0] /\ held = [q \in Requests |-> FALSE]
  /\ queue = <<>> /\ reader = None /\ sent = [q \in Requests |-> 0]
  /\ outcome = [q \in Requests |-> None] /\ panicked = FALSE

relay == <<active, chan, done, errs>>
ends == <<held, outcome, panicked>>

\* enqueueFrame: never blocks, and drops the frame of a full or closed session.
Enqueued(f) == IF open /\ Len(queue) < WriteBuffer THEN Append(queue, f) ELSE queue

\* Closing the channel of every request in Q, whose error slot takes e if it is free.
CloseAll(Q, e) ==
  /\ chan' = [q \in Requests |-> IF q \in Q THEN [chan[q] EXCEPT !.closed = TRUE] ELSE chan[q]]
  /\ errs' = [q \in Requests |-> IF q \in Q /\ errs[q] = None THEN e ELSE errs[q]]
  /\ panicked' = (panicked \/ \E q \in Q : chan[q].closed)

\* failAll: everything leaves the map at once and is then failed.
FailAll(e) == active' = {} /\ CloseAll(active, e) /\ UNCHANGED done

\* failActiveOrAll, then the close of the session, which fails the rest.
FailActiveOrAll(q, e) ==
  /\ active' = {} /\ UNCHANGED done
  /\ chan' = [r \in Requests |-> [chan[r] EXCEPT !.closed = @ \/ r \in active]]
  /\ errs' = [r \in Requests |->
               IF r \in active /\ errs[r] = None
                 THEN (IF q \notin active \/ r = q THEN e ELSE "closed") ELSE errs[r]]
  /\ panicked' = (panicked \/ \E r \in active : chan[r].closed)

\* addActive, for a session that sessionFor still finds.
AddActive(q) ==
  /\ ~httpOnly /\ q \notin active
  /\ MaxConcurrency > 0 => Cardinality(active) < MaxConcurrency

\* dispatchInference up to its entry in the map.
Dispatch(q) ==
  /\ pc[q] = "idle" /\ ~panicked
  /\ IF open /\ AddActive(q)
       THEN /\ active' = active \union {q} /\ pc' = [pc EXCEPT ![q] = "added"]
            /\ UNCHANGED outcome
       ELSE /\ pc' = [pc EXCEPT ![q] = "over"] /\ outcome' = [outcome EXCEPT ![q] = "refused"]
            /\ UNCHANGED active
  /\ UNCHANGED <<open, httpOnly, chan, done, errs, bytes, held, queue, reader, sent, panicked>>

\* sealInferenceRequest and send: refused for want of buffer, or sent and watched.
SendRequest(q) ==
  /\ pc[q] = "added" /\ open /\ ~panicked
  /\ IF Len(queue) < WriteBuffer
       THEN /\ queue' = Append(queue, q) /\ pc' = [pc EXCEPT ![q] = "watched"]
            /\ UNCHANGED <<active, outcome>>
       ELSE /\ active' = active \ {q} /\ pc' = [pc EXCEPT ![q] = "over"]
            /\ outcome' = [outcome EXCEPT ![q] = "refused"] /\ UNCHANGED queue
  /\ UNCHANGED <<open, httpOnly, chan, done, errs, bytes, held, reader, sent, panicked>>

\* The session closed first: the request is taken back and the failure handled.
SendToClosed(q) ==
  /\ pc[q] = "added" /\ ~open /\ ~panicked
  /\ active' = active \ {q} /\ pc' = [pc EXCEPT ![q] = "over"]
  /\ outcome' = [outcome EXCEPT ![q] = "refused"]
  /\ UNCHANGED <<open, httpOnly, chan, done, errs, bytes, held, queue, reader, sent, panicked>>

\* writeProbe of a request runs out of time, or runWriter's write fails, or the
\* read loop ends: handleProviderWriteFailure and close, which close the session.
CloseSession ==
  /\ open /\ ~panicked /\ open' = FALSE /\ queue' = <<>>
  /\ FailAll("closed")
  /\ UNCHANGED <<httpOnly, pc, bytes, held, reader, sent, outcome>>

\* runWriter.
RunWriter ==
  /\ open /\ queue # <<>> /\ ~panicked
  /\ queue' = Tail(queue)
  /\ UNCHANGED <<open, httpOnly, pc, bytes, reader, sent, relay, ends>>

\* removeActive by whoever ends request q, who then alone closes its channel.
Remove(q, e, end) ==
  /\ active' = active \ {q}
  /\ CloseAll({q}, e)
  /\ done' = [done EXCEPT ![q] = end]

\* The context of a request ends: cancelActive tells the provider, if it can.
CancelActive(q) ==
  /\ pc[q] = "watched" /\ q \in active /\ ~panicked
  /\ Remove(q, "cancelled", FALSE)
  /\ queue' = Enqueued("cancel")
  /\ UNCHANGED <<open, httpOnly, pc, bytes, held, reader, sent, outcome>>

\* handleInferenceChunk up to the lookup and the reservation of the chunk's bytes.
HandleInferenceChunk(q) ==
  /\ open /\ reader = None /\ ~panicked
  /\ pc[q] \in {"watched", "over"} /\ sent[q] < MaxChunks
  /\ sent' = [sent EXCEPT ![q] = @ + 1]
  /\ CASE q \notin active -> UNCHANGED <<relay, bytes, reader, queue, panicked>>
       [] q \in active /\ bytes[q] < ByteLimit ->
            /\ bytes' = [bytes EXCEPT ![q] = @ + 1] /\ reader' = q
            /\ UNCHANGED <<relay, queue, panicked>>
       [] q \in active /\ bytes[q] >= ByteLimit ->
            /\ Remove(q, "buffer_exceeded", FALSE) /\ queue' = Enqueued("cancel")
            /\ UNCHANGED <<bytes, reader>>
  /\ UNCHANGED <<open, httpOnly, pc, held, outcome>>

\* The select that hands the chunk over to the request it looked up.
HandOver ==
  /\ reader # None /\ ~panicked /\ reader' = None
  /\ CASE chan[reader].closed ->
            panicked' = TRUE /\ UNCHANGED relay
       [] ~chan[reader].closed /\ chan[reader].n < ChunkBuffer ->
            chan' = [chan EXCEPT ![reader].n = @ + 1] /\ UNCHANGED <<active, done, errs, panicked>>
       [] ~chan[reader].closed /\ chan[reader].n >= ChunkBuffer ->
            IF reader \in active THEN Remove(reader, "buffer_full", FALSE)
                                 ELSE UNCHANGED <<relay, panicked>>
  /\ UNCHANGED <<open, httpOnly, pc, bytes, held, queue, sent, outcome>>

\* handleInferenceEnd; an end of a request no longer active is dropped.
HandleInferenceEnd(q) ==
  /\ open /\ reader = None /\ ~panicked /\ pc[q] = "watched" /\ q \in active
  /\ Remove(q, None, TRUE)
  /\ UNCHANGED <<open, httpOnly, pc, bytes, held, queue, reader, sent, outcome>>

\* handleNAK of a request: an unknown type also ends websocket forwarding.
HandleNAK(q, code) ==
  /\ open /\ reader = None /\ ~panicked /\ pc[q] = "watched"
  /\ httpOnly' = (httpOnly \/ code = "unknown_message_type")
  /\ IF code = "tier2_aead_decrypt_failed"
       THEN FailActiveOrAll(q, "aead") /\ open' = FALSE /\ queue' = <<>>
       ELSE /\ IF q \in active THEN Remove(q, "nak", FALSE) ELSE UNCHANGED <<relay, panicked>>
            /\ UNCHANGED <<open, queue>>
  /\ UNCHANGED <<pc, bytes, held, reader, sent, outcome>>

\* delivered: a chunk is taken from the channel, and
Take(q) ==
  /\ pc[q] = "watched" /\ ~held[q] /\ chan[q].n > 0 /\ ~panicked
  /\ chan' = [chan EXCEPT ![q].n = @ - 1] /\ held' = [held EXCEPT ![q] = TRUE]
  /\ UNCHANGED <<open, httpOnly, active, pc, done, errs, bytes, queue, reader, sent,
                 outcome, panicked>>

\* passed on, or given up with the buyer's context.
PassOn(q) ==
  /\ held[q] /\ ~panicked
  /\ held' = [held EXCEPT ![q] = FALSE]
  /\ bytes' = [bytes EXCEPT ![q] = @ - 1]
  /\ UNCHANGED <<open, httpOnly, active, pc, chan, done, errs, queue, reader, sent,
                 outcome, panicked>>

\* The channel is closed and empty: the end if there is one, else the error.
Finish(q) ==
  /\ pc[q] = "watched" /\ ~held[q] /\ chan[q].n = 0 /\ chan[q].closed /\ ~panicked
  /\ outcome' = [outcome EXCEPT ![q] = IF done[q] THEN "end"
                                       ELSE IF errs[q] # None THEN "error" ELSE "silence"]
  /\ pc' = [pc EXCEPT ![q] = "over"]
  /\ UNCHANGED <<open, httpOnly, bytes, held, queue, reader, sent, relay, panicked>>

Next ==
  \/ \E q \in Requests : \/ Dispatch(q) \/ SendRequest(q) \/ SendToClosed(q)
                         \/ CancelActive(q) \/ HandleInferenceChunk(q)
                         \/ HandleInferenceEnd(q)
                         \/ Take(q) \/ PassOn(q) \/ Finish(q)
  \/ \E q \in Requests, code \in {"unknown_message_type", "duplicate_request_id",
                                   "tier2_aead_decrypt_failed"} : HandleNAK(q, code)
  \/ CloseSession \/ RunWriter \/ HandOver

\* Goroutines run; a request's context ends at its timeout at the latest.
Fair ==
  /\ \A q \in Requests : /\ WF_vars(SendRequest(q) \/ SendToClosed(q))
                         /\ WF_vars(CancelActive(q))
                         /\ WF_vars(Take(q)) /\ WF_vars(PassOn(q)) /\ WF_vars(Finish(q))
  /\ WF_vars(HandOver)

-----------------------------------------------------------------------------

\* Whoever waits for a relayed request is told how it ended: the chunk channel
\* is never closed with neither an end frame nor an error to read behind it
\* (delivered, failAll, cancelActive, handleInferenceEnd).
ClosedWithReason == \A q \in Requests : outcome[q] # "silence"

\* The bytes a request has reserved are those of its chunks in the channel, in
\* the delivering goroutine or in the reader's hands, so a slow buyer meets
\* its limit and a keeping-up one never does (reserveBufferedBytes).
BytesAreThoseBuffered ==
  \A q \in active :
    bytes[q] = chan[q].n + (IF held[q] THEN 1 ELSE 0) + (IF reader = q THEN 1 ELSE 0)

\* A request that was dispatched is over some day, whichever of its end frame,
\* its timeout, a NAK, a full buffer and the session's end comes first.
DispatchedEndsFrom(q) == pc[q] \in {"added", "watched"}
DispatchedEndsTo(q) == pc[q] = "over" \/ panicked

\* A frame of a request already cleaned up is discarded (SPEC-002, FR-P18.1,
\* rule 1): the read loop never sends on a channel that was closed since it
\* looked the request up.
LateChunkIsDiscarded == ~panicked

-----------------------------------------------------------------------------
(***************************************************************************)
(* The change of keys inside an encrypted provider session (ws/relay.go):  *)
(* requests that reach the limit of a key start an exchange and wait for   *)
(* it, the exchange waits until nothing is in flight under the old key,    *)
(* and the provider confirms the new one before either side seals with it. *)
(* The provider is external: it opens what it is sent in order, and        *)
(* installs the candidate key when it answers the commit.                  *)
(***************************************************************************)

CONSTANTS RekeyRequests, Threshold, WaiterLimit, RekeyWriteBuffer, MaxRekeys,
          MaxFrames  \* bounds the probes issued

VARIABLES rekeyOpen, rekeyActive,
          key,      \* ps.tier2.KeyID: the number of the exchange that made it
          poolKey,  \* the registry's Tier2Session.KeyID
          c2p,      \* ps.tier2.C2PCounter
          used,     \* RequestsDispatched, at Threshold once the key is due
          rekey,    \* ps.rekey
          made,     \* exchanges made
          failed,   \* those that ended in an error
          runner,   \* exchanges whose runTier2Rekey waits for done
          rekeyPc, waits, frame,  \* each dispatcher, the exchange it waits for, what it sealed
          probe,    \* a losslessness probe is pending
          rekeyQueue, answers,    \* frames on their way to the provider and back
          prov,     \* the provider's key and the sequence number it expects
          sealed,   \* every (key, number) sealed
          faults    \* what went wrong: "reused", "unreadable", "misordered"

wire == <<rekeyQueue, answers, prov>>
keys == <<key, poolKey, c2p, used>>
exchange == <<rekey, made, failed, runner>>
rekeyVars == <<rekeyOpen, rekeyActive, keys, exchange, rekeyPc, waits, frame, probe, wire, sealed, faults>>

NoRekey == [id |-> 0, phase |-> "none", able |-> TRUE]

RekeyInit ==
  /\ rekeyOpen = TRUE /\ rekeyActive = {} /\ key = 0 /\ poolKey = 0 /\ c2p = 0 /\ used = 0
  /\ rekey = NoRekey /\ made = 0 /\ failed = {} /\ runner = {}
  /\ rekeyPc = [q \in RekeyRequests |-> "idle"] /\ waits = [q \in RekeyRequests |-> 0]
  /\ frame = [q \in RekeyRequests |-> <<0, 0>>] /\ probe = FALSE
  /\ rekeyQueue = <<>> /\ answers = <<>> /\ prov = [key |-> 0, c2p |-> 0]
  /\ sealed = {} /\ faults = {}

\* tier2RekeyReason.
Due == used >= Threshold

\* newTier2RekeyExchange: it may be unable to begin (no capability, no key pair).
NewExchange(able) ==
  /\ made < MaxRekeys /\ made' = made + 1
  /\ rekey' = [id |-> made + 1, phase |-> "draining", able |-> able]
  /\ UNCHANGED <<failed, runner>>

\* beginTier2RekeyIfDue, at the end of a request.
BeginIfDue ==
  IF rekey = NoRekey /\ Due /\ made < MaxRekeys
    THEN \E able \in BOOLEAN : NewExchange(able) ELSE UNCHANGED exchange

Waiting == {q \in RekeyRequests : rekeyPc[q] = "waiting"}

\* waitForTier2Rekey.
WaitFor(q, e) ==
  /\ IF Cardinality(Waiting) < WaiterLimit
       THEN rekeyPc' = [rekeyPc EXCEPT ![q] = "waiting"] /\ waits' = [waits EXCEPT ![q] = e]
       ELSE rekeyPc' = [rekeyPc EXCEPT ![q] = "over"] /\ UNCHANGED waits
  /\ UNCHANGED <<rekeyActive, used>>

\* One round of addTier2Active, under rekeyMu.
AddTier2Active(q) ==
  /\ rekeyPc[q] = "retry" \/ (rekeyPc[q] = "idle" /\ rekeyOpen)
  /\ \/ rekey # NoRekey /\ WaitFor(q, rekey.id) /\ UNCHANGED exchange
     \/ /\ rekey = NoRekey /\ Due /\ \E able \in BOOLEAN : NewExchange(able)
        /\ WaitFor(q, made + 1)
     \/ /\ rekey = NoRekey /\ ~Due
        /\ rekeyActive' = rekeyActive \union {q} /\ used' = used + 1
        /\ rekeyPc' = [rekeyPc EXCEPT ![q] = "added"] /\ UNCHANGED <<waits, exchange>>
  /\ UNCHANGED <<rekeyOpen, key, poolKey, c2p, frame, probe, wire, sealed, faults>>

\* rekeyWaitError: the exchange is over, or the waiter's own context is.
WaitEnds(q) ==
  /\ rekeyPc[q] = "waiting"
  /\ \/ rekey.id # waits[q] /\ rekeyPc' = [rekeyPc EXCEPT ![q] = IF waits[q] \in failed THEN "over" ELSE "retry"]
     \/ rekeyPc' = [rekeyPc EXCEPT ![q] = "over"]
  /\ waits' = [waits EXCEPT ![q] = 0]
  /\ UNCHANGED <<rekeyOpen, rekeyActive, keys, exchange, frame, probe, wire, sealed, faults>>

\* What sealing one more frame under the current key does.
SealFrame ==
  /\ c2p' = c2p + 1 /\ sealed' = sealed \union {<<key, c2p>>}
  /\ faults' = faults \union (IF <<key, c2p>> \in sealed THEN {"reused"} ELSE {})

\* sealInferenceRequest, under tier2Mu alone.
SealInferenceRequest(q) ==
  /\ rekeyPc[q] = "added" /\ SealFrame
  /\ frame' = [frame EXCEPT ![q] = <<key, c2p>>] /\ rekeyPc' = [rekeyPc EXCEPT ![q] = "sealed"]
  /\ UNCHANGED <<rekeyOpen, rekeyActive, key, poolKey, used, exchange, waits, probe, wire>>

\* sendProbe: the frame joins the queue, or is dropped for want of room or session.
RekeySendRequest(q) ==
  /\ rekeyPc[q] = "sealed"
  /\ IF rekeyOpen /\ Len(rekeyQueue) < RekeyWriteBuffer
       THEN /\ rekeyQueue' = Append(rekeyQueue, <<"request", frame[q]>>)
            /\ rekeyPc' = [rekeyPc EXCEPT ![q] = "sent"] /\ UNCHANGED rekeyActive
       ELSE rekeyActive' = rekeyActive \ {q} /\ rekeyPc' = [rekeyPc EXCEPT ![q] = "over"] /\ UNCHANGED rekeyQueue
  /\ frame' = [frame EXCEPT ![q] = <<0, 0>>]
  /\ UNCHANGED <<rekeyOpen, keys, exchange, waits, probe, answers, prov, sealed, faults>>

\* A request that was sent ends or is cancelled: one more chance to begin.
RequestEnds(q) ==
  /\ rekeyPc[q] = "sent" /\ rekeyActive' = rekeyActive \ {q} /\ rekeyPc' = [rekeyPc EXCEPT ![q] = "over"]
  /\ IF q \in rekeyActive THEN BeginIfDue ELSE UNCHANGED exchange
  /\ UNCHANGED <<rekeyOpen, keys, waits, frame, probe, wire, sealed, faults>>

\* The key reaches its age limit.
KeyAges == used < Threshold /\ used' = Threshold
           /\ UNCHANGED <<rekeyOpen, rekeyActive, key, poolKey, c2p, exchange, rekeyPc, waits, frame, probe, wire, sealed, faults>>

\* issueLosslessnessProbeRequest: refused while keys change or are due to.
IssueProbe ==
  /\ c2p < MaxFrames
  /\ rekeyOpen /\ ~probe /\ rekey = NoRekey /\ ~Due /\ Len(rekeyQueue) < RekeyWriteBuffer
  /\ SealFrame /\ probe' = TRUE /\ rekeyQueue' = Append(rekeyQueue, <<"request", <<key, c2p>>>>)
  /\ UNCHANGED <<rekeyOpen, rekeyActive, key, poolKey, used, exchange, rekeyPc, waits, frame, answers, prov>>

\* Its result is consumed, or losslessnessProviderHasPending drops it as expired.
ProbeEnds == probe /\ probe' = FALSE
             /\ UNCHANGED <<rekeyOpen, rekeyActive, keys, exchange, rekeyPc, waits, frame, wire, sealed, faults>>

\* The end of the session: every active request fails, nothing more is written.
Closed == rekeyOpen' = FALSE /\ rekeyActive' = {} /\ rekeyQueue' = <<>> /\ answers' = <<>>

\* failTier2Rekey: nothing, if exchange e is no longer the session's.
FailTier2Rekey(e) ==
  /\ runner' = runner \ {e} /\ UNCHANGED made
  /\ IF rekey.id = e THEN Closed /\ rekey' = NoRekey /\ failed' = failed \union {e}
     ELSE UNCHANGED <<rekeyOpen, rekeyActive, rekeyQueue, answers, rekey, failed>>

\* hasActive and losslessnessProviderHasPending, the barrier.
Drained == rekeyActive = {} /\ ~probe

\* runTier2Rekey: past the barrier the provider is asked for its half.
RunTier2Rekey ==
  /\ rekey.phase = "draining"
  /\ IF Drained /\ rekey.able /\ rekeyOpen /\ Len(rekeyQueue) < RekeyWriteBuffer
       THEN /\ rekey' = [rekey EXCEPT !.phase = "requested"] /\ runner' = runner \union {rekey.id}
            /\ rekeyQueue' = Append(rekeyQueue, <<"rekey", <<key, 0>>>>)
            /\ UNCHANGED <<rekeyOpen, rekeyActive, answers, made, failed>>
       ELSE (Drained \/ ~rekeyOpen) /\ FailTier2Rekey(rekey.id)
  /\ UNCHANGED <<keys, rekeyPc, waits, frame, probe, prov, sealed, faults>>

\* runTier2Rekey's last wait: done, or the session closed, or out of time.
RunnerEnds(e) ==
  /\ e \in runner
  /\ \/ rekey.id # e /\ runner' = runner \ {e}
        /\ UNCHANGED <<rekeyOpen, rekeyActive, rekeyQueue, answers, rekey, failed, made>>
     \/ FailTier2Rekey(e)
  /\ UNCHANGED <<keys, rekeyPc, waits, frame, probe, prov, sealed, faults>>

\* handleAEADRekeyResponse: the commit takes number 0 of the candidate key.
HandleAEADRekeyResponse(ok) ==
  /\ rekeyOpen /\ answers # <<>> /\ Head(answers)[1] = "response"
  /\ CASE rekey.phase # "requested" ->
            answers' = Tail(answers) /\ UNCHANGED <<rekeyOpen, rekeyActive, rekeyQueue, exchange, sealed>>
       [] rekey.phase = "requested" /\ (~ok \/ Len(rekeyQueue) >= RekeyWriteBuffer) ->
            FailTier2Rekey(rekey.id) /\ UNCHANGED sealed
       [] OTHER ->
            /\ rekey' = [rekey EXCEPT !.phase = "commit_sent"]
            /\ sealed' = sealed \union {<<rekey.id, 0>>}
            /\ rekeyQueue' = Append(rekeyQueue, <<"commit", <<rekey.id, 0>>>>) /\ answers' = Tail(answers)
            /\ UNCHANGED <<rekeyOpen, rekeyActive, runner, made, failed>>
  /\ UNCHANGED <<keys, rekeyPc, waits, frame, probe, prov, faults>>

(* Mutant: the new session seals from number 0, the commit's.                *)
CommittedFromZero(ok) ==
  /\ rekeyOpen /\ answers # <<>> /\ Head(answers)[1] = "committed"
  /\ IF rekey.phase = "commit_sent" /\ ok /\ key = poolKey
       THEN /\ key' = rekey.id /\ poolKey' = rekey.id /\ c2p' = 0 /\ used' = 0
            /\ rekey' = NoRekey /\ answers' = Tail(answers)
            /\ UNCHANGED <<rekeyOpen, rekeyActive, rekeyQueue, made, failed, runner>>
       ELSE FailTier2Rekey(rekey.id) /\ UNCHANGED keys
  /\ UNCHANGED <<rekeyPc, waits, frame, probe, prov, sealed, faults>>

\* handleAEADRekeyCommitted: registry and session take the candidate, if the key
\* that began the exchange is still theirs.
HandleAEADRekeyCommitted(ok) ==
  /\ rekeyOpen /\ answers # <<>> /\ Head(answers)[1] = "committed"
  /\ CASE rekey.phase # "commit_sent" ->
            answers' = Tail(answers) /\ UNCHANGED <<rekeyOpen, rekeyActive, rekeyQueue, exchange, keys>>
       [] rekey.phase = "commit_sent" /\ ~(ok /\ key = poolKey) ->
            FailTier2Rekey(rekey.id) /\ UNCHANGED keys
       [] OTHER ->
            /\ key' = rekey.id /\ poolKey' = rekey.id /\ c2p' = 1 /\ used' = 0
            /\ rekey' = NoRekey /\ answers' = Tail(answers)
            /\ UNCHANGED <<rekeyOpen, rekeyActive, rekeyQueue, made, failed, runner>>
  /\ UNCHANGED <<rekeyPc, waits, frame, probe, prov, sealed, faults>>

\* A write failure, an AEAD failure, or the provider's disconnect.
RekeyCloseSession ==
  /\ rekeyOpen /\ Closed
  /\ UNCHANGED <<keys, exchange, rekeyPc, waits, frame, probe, prov, sealed, faults>>

\* The provider reads its next frame.
ProviderReads ==
  /\ rekeyOpen /\ rekeyQueue # <<>> /\ rekeyQueue' = Tail(rekeyQueue)
  /\ LET kind == Head(rekeyQueue)[1]
         k == Head(rekeyQueue)[2][1]
         n == Head(rekeyQueue)[2][2]
     IN CASE kind = "rekey" ->
               answers' = Append(answers, <<"response", k>>) /\ UNCHANGED <<prov, faults>>
          [] kind = "commit" ->
               /\ prov' = [key |-> k, c2p |-> 1]
               /\ answers' = Append(answers, <<"committed", k>>) /\ UNCHANGED faults
          [] kind = "request" /\ k = prov.key /\ n = prov.c2p ->
               prov' = [prov EXCEPT !.c2p = @ + 1] /\ UNCHANGED <<answers, faults>>
          [] OTHER ->
               /\ faults' = faults \union {IF k # prov.key THEN "unreadable" ELSE "misordered"}
               /\ UNCHANGED <<prov, answers>>
  /\ UNCHANGED <<rekeyOpen, rekeyActive, keys, exchange, rekeyPc, waits, frame, probe, sealed>>

RekeyNext ==
  \/ \E q \in RekeyRequests : \/ AddTier2Active(q) \/ WaitEnds(q) \/ SealInferenceRequest(q)
                              \/ RekeySendRequest(q) \/ RequestEnds(q)
  \/ KeyAges \/ IssueProbe \/ ProbeEnds \/ RunTier2Rekey \/ RekeyCloseSession \/ ProviderReads
  \/ \E e \in 1..MaxRekeys : RunnerEnds(e)
  \/ \E ok \in BOOLEAN : HandleAEADRekeyResponse(ok) \/ HandleAEADRekeyCommitted(ok)

\* Requests have deadlines, probes expire, and the exchange's goroutine runs.
RekeyFair ==
  /\ \A q \in RekeyRequests : /\ WF_rekeyVars(SealInferenceRequest(q)) /\ WF_rekeyVars(RekeySendRequest(q))
                              /\ WF_rekeyVars(RequestEnds(q))
                              /\ WF_rekeyVars(rekey.id # waits[q] /\ WaitEnds(q))
  /\ WF_rekeyVars(ProbeEnds) /\ WF_rekeyVars(RunTier2Rekey)
  /\ \A e \in 1..MaxRekeys : WF_rekeyVars(RunnerEnds(e))

RekeyTypeOK ==
  /\ rekeyOpen \in BOOLEAN /\ rekeyActive \subseteq RekeyRequests /\ probe \in BOOLEAN
  /\ {key, poolKey, prov.key, made} \subseteq 0..MaxRekeys /\ used \in 0..Threshold
  /\ rekey.phase \in {"none", "draining", "requested", "commit_sent"}
  /\ failed \subseteq 1..MaxRekeys /\ runner \subseteq 1..MaxRekeys

\* While the provider is asked to change keys nothing it was sent, request or
\* probe, is in flight: what runTier2Rekey's barrier waited for stays true, the
\* requests and probes that come meanwhile being held back by the exchange.
BarrierHolds ==
  rekey.phase \in {"requested", "commit_sent"} => rekeyActive = {} /\ ~probe

\* A frame the provider reads is sealed under the key it holds, and no pair of
\* key and number is sealed twice, the commit's number 0 included: sealing and
\* the exchange of keys take different locks (tier2Mu and rekeyMu).
KeysStayInStep ==
  /\ faults \cap {"reused", "unreadable"} = {}
  /\ rekeyOpen /\ rekey = NoRekey => key = poolKey /\ key = prov.key

\* Whoever waits for an exchange stops waiting, also when the session closes,
\* the provider never answers or the exchange could not begin.
WaitersLeaveFrom(q) == rekeyPc[q] = "waiting"
WaitersLeaveTo(q) == rekeyPc[q] # "waiting"

-----------------------------------------------------------------------------
(***************************************************************************)
(* The numbers of the frames a provider seals towards the coordinator      *)
(* (ws/relay.go): responses of several requests may overtake one another,  *)
(* so a number is remembered in a counter below which all were received    *)
(* and a sparse set above it.  Losslessness results (ws/losslessness.go)   *)
(* draw from the same numbers and take the counter itself.                 *)
(***************************************************************************)

CONSTANTS Window,   \* tier2MaxOutOfOrderP2CFrames
          Top       \* the greatest number, ^uint64(0)

VARIABLES probes,               \* losslessness probes are enabled
          windowOpen, counter, seen,  \* P2CCounter and P2CSeen
          next,                 \* the number the provider seals next
          flying,               \* frames sealed and not yet delivered
          taken,                \* how often each number was accepted
          missed                \* fresh numbers refused within the window

windowVars == <<probes, windowOpen, counter, seen, next, flying, taken, missed>>

Kinds == {"chunk", "end", "retired"} \union (IF probes THEN {"probe"} ELSE {})

WindowInit ==
  /\ probes \in BOOLEAN /\ windowOpen = TRUE /\ counter = 0 /\ seen = {} /\ next = 0 /\ flying = {}
  /\ taken = [n \in 0..Top |-> 0] /\ missed = {}

\* The provider seals its next frame; it does not pass the last number.
Seal(kind) ==
  /\ windowOpen /\ next <= Top /\ Cardinality(flying) <= Window
  /\ flying' = flying \union {[n |-> next, kind |-> kind]} /\ next' = next + 1
  /\ UNCHANGED <<probes, windowOpen, counter, seen, taken, missed>>

\* tier2P2CSequenceOutsideWindow.
OutsideWindow(n) == n > counter /\ n - counter > Window

\* tier2P2CSequenceSeen.
SequenceSeen(n) == n < counter \/ n \in seen

\* markTier2P2CSequenceSeen: the counter moves over every number it now meets.
MarkSeen(n) ==
  LET all == seen \union {n}
      low == CHOOSE m \in 0..Top + 1 : m \notin all /\ m >= counter /\ \A i \in counter..m - 1 : i \in all
  IN IF n = counter
       THEN counter' = low /\ seen' = seen \ (counter..low - 1)
       ELSE IF n < counter THEN UNCHANGED <<counter, seen>> ELSE seen' = all /\ UNCHANGED counter

\* The lowest number that has not arrived.
Lowest == CHOOSE m \in 0..next : (m = next \/ \E f \in flying : f.n = m)
                                 /\ \A f \in flying : m <= f.n

\* closeProviderForTier2AEADFailure.
Fail(n) ==
  /\ windowOpen' = FALSE /\ UNCHANGED <<counter, seen, taken>>
  /\ missed' = missed \union
                (IF taken[n] = 0 /\ n # Top /\ n <= Lowest + Window THEN {n} ELSE {})

\* openInferenceChunk: a frame that opens is marked before its text is decoded,
\* and a text that does not decode fails the session all the same.
OpenInferenceChunk(n, decodes) ==
  IF n = Top \/ OutsideWindow(n) \/ SequenceSeen(n) THEN Fail(n)
  ELSE /\ MarkSeen(n) /\ taken' = [taken EXCEPT ![n] = @ + 1]
       /\ windowOpen' = decodes /\ UNCHANGED missed

\* openInferenceEnd.
OpenInferenceEnd(n, decodes) == OpenInferenceChunk(n, decodes)

\* consumeRetiredEncryptedFrame: a late frame of a request that is over.
ConsumeRetired(n) == OpenInferenceChunk(n, TRUE)

\* openLosslessnessProbeResult: the number must be the counter's own.  A result
\* that does not open is dropped and the session goes on.
OpenProbeResult(n, decodes) ==
  IF n = counter /\ n # Top /\ decodes
    THEN /\ counter' = counter + 1 /\ taken' = [taken EXCEPT ![n] = @ + 1]
         /\ UNCHANGED <<windowOpen, seen, missed>>
    ELSE UNCHANGED <<windowOpen, counter, seen, taken, missed>>

\* A frame arrives, in whatever order the requests' senders ran.
Deliver(f, decodes) ==
  /\ windowOpen /\ f \in flying /\ flying' = flying \ {f} /\ UNCHANGED <<probes, next>>
  /\ CASE f.kind = "chunk" -> OpenInferenceChunk(f.n, decodes)
       [] f.kind = "end" -> OpenInferenceEnd(f.n, decodes)
       [] f.kind = "retired" -> ConsumeRetired(f.n)
       [] f.kind = "probe" -> OpenProbeResult(f.n, decodes)

\* A frame delivered before is delivered once more.
DeliverAgain(n) ==
  /\ windowOpen /\ n < next /\ \A f \in flying : f.n # n
  /\ OpenInferenceChunk(n, TRUE) /\ UNCHANGED <<probes, next, flying>>

WindowNext ==
  \/ \E kind \in Kinds : Seal(kind)
  \/ \E f \in flying, decodes \in BOOLEAN : Deliver(f, decodes)
  \/ \E n \in 0..Top : DeliverAgain(n)

WindowTypeOK ==
  /\ {probes, windowOpen} \subseteq BOOLEAN /\ counter \in 0..Top /\ seen \subseteq 0..Top /\ next \in 0..Top + 1
  /\ \A f \in flying : f.n \in 0..Top /\ f.kind \in Kinds
  /\ taken \in [0..Top -> Nat] /\ missed \subseteq 0..Top

\* No number is accepted twice, though what is below the counter is forgotten
\* one by one: the accepted numbers are exactly those below the counter and the
\* ones in the sparse set.
AcceptedOnce ==
  \A n \in 0..Top : taken[n] = IF n < counter \/ n \in seen THEN 1 ELSE 0

\* The sparse set is bounded by the window, whatever order frames come in.
SparseSetBounded == seen \subseteq counter..counter + Window
=============================================================================
