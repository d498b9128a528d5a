--------------------------- MODULE ProviderEvents ---------------------------
(***************************************************************************)
(* What is recorded about providers, in two parts that share no state: the *)
(* journal of connection events, and the last-known record (prefix last).  *)
(***************************************************************************)
EXTENDS Integers, Sequences, FiniteSets, FiniteSetsExt

-----------------------------------------------------------------------------
(***************************************************************************)
(* The journal of provider connection events: what a connection attempt    *)
(* remembers for the event of its close, the queue between the websocket   *)
(* handlers and the one goroutine that writes, the direct write when the   *)
(* queue is full, the shutdown flush                                       *)
(* (phase4-coordinator/internal/ws/connection_events.go), and the bounded  *)
(* table (providerevents/store.go).  Each SQL statement is a step of its   *)
(* own, for the store takes no transaction around them.                    *)
(***************************************************************************)

CONSTANTS Conns,        \* websocket connections
          Claimed,      \* Claimed[c]: the provider id its hello names
          Validated,    \* connections whose bearer belongs to that provider
          QueueSize,    \* connectionEventQueueSize
          ProviderCap, AnonymousCap, GlobalCap,
          PerMinute,    \* anonymousEventsPerMinute
          MaxFails      \* bound: failed statements

Anonymous == "_anonymous"

VARIABLES conn,         \* conn[c] = [pc, named]: named once the hello is remembered
          serial,       \* events made so far; orders their occurred_at
          pend,         \* events past the first check, not yet queued
          queue, stopped, panicked, done,
          writers,      \* Record calls in progress: [e, step, who]
          rows,         \* provider_connection_events
          recorded,     \* history: every event ever inserted
          anon,         \* anonymous events in this minute
          fails, unbounded

vars == <<conn, serial, pend, queue, stopped, panicked, done, writers, rows,
          recorded, anon, fails, unbounded>>

Init == /\ conn = [c \in Conns |-> [pc |-> "open", named |-> FALSE]]
        /\ serial = 0
        /\ pend = {}
        /\ queue = <<>>
        /\ stopped = FALSE
        /\ panicked = FALSE
        /\ done = FALSE
        /\ writers = {}
        /\ rows = {}
        /\ recorded = {}
        /\ anon = 0
        /\ fails = 0
        /\ unbounded = 0

-----------------------------------------------------------------------------
(* Handlers. *)

(* Mutant: the minute's allowance checked with <=. *)
EmitOneMore(prov) ==
  LET e == [prov |-> prov, at |-> serial + 1] IN
  /\ serial' = serial + 1
  /\ ~stopped /\ (prov = Anonymous => anon <= PerMinute)
  /\ pend' = pend \cup {e}
  /\ anon' = IF prov = Anonymous THEN anon + 1 ELSE anon

(* recordConnectionEvent up to the lock: dropped once stopped, and when it *)
(* is anonymous beyond the minute's allowance.                             *)
Emit(prov) ==
  LET e == [prov |-> prov, at |-> serial + 1] IN
  /\ serial' = serial + 1
  /\ \/ /\ ~stopped
        /\ prov = Anonymous => anon < PerMinute
        /\ pend' = pend \cup {e}
        /\ anon' = IF prov = Anonymous THEN anon + 1 ELSE anon
     \/ /\ stopped \/ (prov = Anonymous /\ anon >= PerMinute)
        /\ UNCHANGED <<pend, anon>>

(* The hello is parsed: its provider is remembered for the close event,    *)
(* marked verified only when the bearer is that provider's.                *)
RememberCloseEvent(c) ==
  /\ conn[c] = [pc |-> "open", named |-> FALSE]
  /\ conn' = [conn EXCEPT ![c].named = TRUE]
  /\ UNCHANGED <<serial, pend, queue, stopped, panicked, done, writers, rows,
                 recorded, anon, fails, unbounded>>

CloseProvider(c) ==
  IF conn[c].named /\ c \in Validated THEN Claimed[c] ELSE Anonymous

(* The connection is refused: takeCloseEvent and an auth_rejected event. *)
RecordCloseEvent(c) ==
  /\ conn[c].pc = "open"
  /\ Emit(CloseProvider(c))
  /\ conn' = [conn EXCEPT ![c] = [pc |-> "gone", named |-> FALSE]]
  /\ UNCHANGED <<queue, stopped, panicked, done, writers, rows, recorded, fails,
                 unbounded>>

(* Admission drops the remembered data and records auth_accepted. *)
RegisterProviderSession(c) ==
  /\ conn[c].pc = "open" /\ conn[c].named /\ c \in Validated
  /\ Emit(Claimed[c])
  /\ conn' = [conn EXCEPT ![c] = [pc |-> "live", named |-> FALSE]]
  /\ UNCHANGED <<queue, stopped, panicked, done, writers, rows, recorded, fails,
                 unbounded>>

HandleDisconnect(c) ==
  /\ conn[c].pc = "live"
  /\ Emit(Claimed[c])
  /\ conn' = [conn EXCEPT ![c].pc = "gone"]
  /\ UNCHANGED <<queue, stopped, panicked, done, writers, rows, recorded, fails,
                 unbounded>>

MinuteEnds ==
  /\ anon > 0
  /\ anon' = 0
  /\ UNCHANGED <<conn, serial, pend, queue, stopped, panicked, done, writers,
                 rows, recorded, fails, unbounded>>

(* A send on the channel; a full one falls back to a direct write, for a   *)
(* named provider only.                                                    *)
Send(e) ==
  \/ /\ stopped
     /\ panicked' = TRUE
     /\ UNCHANGED <<queue, writers>>
  \/ /\ ~stopped
     /\ Len(queue) < QueueSize
     /\ queue' = Append(queue, e)
     /\ UNCHANGED <<panicked, writers>>
  \/ /\ ~stopped
     /\ Len(queue) >= QueueSize
     /\ writers' = IF e.prov = Anonymous THEN writers
                   ELSE writers \cup {[e |-> e, step |-> "insert", who |-> "direct"]}
     /\ UNCHANGED <<queue, panicked>>

(* The locked part of recordConnectionEvent. *)
Enqueue(e) ==
  /\ pend' = pend \ {e}
  /\ \/ stopped /\ UNCHANGED <<queue, panicked, writers>>
     \/ ~stopped /\ Send(e)
  /\ UNCHANGED <<conn, serial, stopped, done, rows, recorded, anon, fails, unbounded>>

-----------------------------------------------------------------------------
(* The worker and the store. *)

Busy == \E w \in writers : w.who = "worker"

Dequeue ==
  /\ queue # <<>>
  /\ ~Busy
  /\ queue' = Tail(queue)
  /\ writers' = writers \cup {[e |-> Head(queue), step |-> "insert", who |-> "worker"]}
  /\ UNCHANGED <<conn, serial, pend, stopped, panicked, done, rows, recorded,
                 anon, fails, unbounded>>

WorkerEnds ==
  /\ stopped /\ queue = <<>> /\ ~Busy /\ ~done
  /\ done' = TRUE
  /\ UNCHANGED <<conn, serial, pend, queue, stopped, panicked, writers, rows,
                 recorded, anon, fails, unbounded>>

Newer(s, e) == {x \in s : x.at > e.at}

CapOf(prov) == IF prov = Anonymous THEN AnonymousCap ELSE ProviderCap

(* enforceProviderCap: the newest CapOf rows of this provider stay. *)
ProviderCapped(s, prov) ==
  {e \in s : e.prov # prov
             \/ Cardinality({x \in Newer(s, e) : x.prov = prov}) < CapOf(prov)}

(* enforceGlobalCap: the newest GlobalCap rows stay. *)
GlobalCapped(s) == {e \in s : Cardinality(Newer(s, e)) < GlobalCap}

(* Record: insert, then the two caps. *)
Record(w) ==
  /\ \/ /\ w.step = "insert"
        /\ rows' = rows \cup {w.e}
        /\ recorded' = recorded \cup {w.e}
        /\ writers' = (writers \ {w}) \cup {[w EXCEPT !.step = "pcap"]}
     \/ /\ w.step = "pcap"
        /\ rows' = ProviderCapped(rows, w.e.prov)
        /\ writers' = (writers \ {w}) \cup {[w EXCEPT !.step = "gcap"]}
        /\ UNCHANGED recorded
     \/ /\ w.step = "gcap"
        /\ rows' = GlobalCapped(rows)
        /\ writers' = writers \ {w}
        /\ UNCHANGED recorded
  /\ UNCHANGED <<conn, serial, pend, queue, stopped, panicked, done, anon, fails,
                 unbounded>>

(* The two seconds of the write run out; what is done stays done. *)
RecordFails(w) ==
  /\ fails < MaxFails
  /\ fails' = fails + 1
  /\ unbounded' = IF w.step = "insert" THEN unbounded ELSE unbounded + 1
  /\ writers' = writers \ {w}
  /\ UNCHANGED <<conn, serial, pend, queue, stopped, panicked, done, rows,
                 recorded, anon>>

(* ReconcileBounds applies every cap again. *)
ReconcileBounds ==
  /\ unbounded > 0
  /\ rows' = GlobalCapped({e \in rows : e \in ProviderCapped(rows, e.prov)})
  /\ unbounded' = 0
  /\ UNCHANGED <<conn, serial, pend, queue, stopped, panicked, done, writers,
                 recorded, anon, fails>>

(* The flag is set and the channel closed under the lock. *)
FlushConnectionEvents ==
  /\ ~stopped
  /\ stopped' = TRUE
  /\ UNCHANGED <<conn, serial, pend, queue, panicked, done, writers, rows,
                 recorded, anon, fails, unbounded>>

Next == \/ \E c \in Conns : \/ RememberCloseEvent(c) \/ RecordCloseEvent(c)
                            \/ RegisterProviderSession(c) \/ HandleDisconnect(c)
        \/ MinuteEnds
        \/ \E e \in pend : Enqueue(e)
        \/ Dequeue \/ WorkerEnds
        \/ \E w \in writers : Record(w) \/ RecordFails(w)
        \/ ReconcileBounds \/ FlushConnectionEvents

(* The worker is a goroutine of its own, and every statement returns. *)
Fair == /\ WF_vars(Dequeue)
        /\ WF_vars(WorkerEnds)
        /\ WF_vars(\E w \in writers : Record(w))

-----------------------------------------------------------------------------
(* Types: the queue is bounded and at most one writer is the worker. *)
TypeOK ==
  /\ Len(queue) <= QueueSize
  /\ Cardinality({w \in writers : w.who = "worker"}) <= 1
  /\ rows \subseteq recorded
  /\ anon \in 0..PerMinute
  /\ {stopped, panicked, done} \subseteq BOOLEAN

(* A close event names a provider only when the connection proved to be    *)
(* that provider's: an unproved connection cannot fill another provider's  *)
(* history (recordCloseEventFromMeta).                                     *)
NamedMeansVerified ==
  \A e \in recorded \cup pend : e.prov # Anonymous =>
    \E c \in Conns : c \in Validated /\ Claimed[c] = e.prov

(* Nothing is sent on the closed channel, although handlers go on emitting *)
(* events while the server shuts down.                                     *)
ClosedQueueIsNotSent == ~panicked

(* An event that is gone was pushed out by newer ones: as many of its own  *)
(* provider as the provider may keep, or as many as the table may hold.    *)
(* Direct writes overtake queued ones, so insertion order is not the       *)
(* order of occurrence.                                                    *)
NewestEventsAreKept ==
  \A e \in recorded \ rows :
    \/ Cardinality({x \in Newer(recorded, e) : x.prov = e.prov}) >= CapOf(e.prov)
    \/ Cardinality(Newer(recorded, e)) >= GlobalCap

(* The shutdown flush ends: once stopped, the worker drains what was       *)
(* queued and closes its done channel.                                     *)
FlushEndsFrom == stopped
FlushEndsTo == done

-----------------------------------------------------------------------------
(***************************************************************************)
(* The last-known record of every provider: the snapshots that admission   *)
(* and disconnect write at once, the ones that heartbeats and diagnostic   *)
(* frames send through the event queue                                     *)
(* (phase4-coordinator/internal/ws/connection_events.go, ws/server.go),    *)
(* the upsert that orders them by last_seen_at, the bound on the table     *)
(* (providerevents/store.go), and the operator's paged list                *)
(* (ws/admin_providers.go).                                                *)
(***************************************************************************)

CONSTANTS Providers,   \* provider ids, ordered as the list orders them
          LastQueueSize, Cap, PageSize,
          MaxTime,     \* bound: the clock
          MaxFrames,   \* bound: frames received
          MaxPages     \* bound: list passes

VARIABLES live,        \* live[p] = [on, activity]: a session and its last frame
          lastQueue,       \* queued snapshots
          recent,      \* recent[k]: providers snapshotted this minute, by kind
          known,       \* provider_last_known: a set of [prov, state, seen]
          clock, frames,
          page,        \* [at, listed, twice, fixed, n]: the operator's pass
          evicted      \* history: providers whose row the cap or retention took

lastVars == <<live, lastQueue, recent, known, clock, frames, page, evicted>>

NoCursor == [seen |-> 0, prov |-> 0]

Snap(p, state, seen) == [prov |-> p, state |-> state, seen |-> seen]

RowOf(p) == {k \in known : k.prov = p}

(* Rows in list order: newest first, then by id. *)
Before(a, b) == a.seen > b.seen \/ (a.seen = b.seen /\ a.prov < b.prov)

FirstN(s, n) == {k \in s : Cardinality({q \in s : Before(q, k)}) < n}

LastInit == /\ live = [p \in Providers |-> [on |-> FALSE, activity |-> 0]]
            /\ lastQueue = <<>>
            /\ recent = [k \in {"heartbeat", "diagnostic"} |-> {}]
            /\ known = {}
            /\ clock = 1
            /\ frames = 0
            /\ page = [at |-> NoCursor, listed |-> {}, twice |-> FALSE,
                       fixed |-> {}, n |-> 0]
            /\ evicted = {}

Now == {t \in {clock, clock + 1} : t <= MaxTime}

(* UpsertLastKnown: a snapshot older than the row changes nothing. *)
Upsert(s) ==
  IF \E k \in RowOf(s.prov) : s.seen < k.seen THEN known
  ELSE (known \ RowOf(s.prov)) \cup {s}

(* Rows a pass saw that were written since are no longer its business. *)
Touched(new) == [page EXCEPT !.fixed = @ \cap new]

-----------------------------------------------------------------------------
(* Sessions. *)

(* rememberProviderSnapshot on admission: written before the handler goes  *)
(* on.                                                                     *)
Register(p) == \E t \in Now :
  /\ ~live[p].on
  /\ frames < MaxFrames
  /\ frames' = frames + 1
  /\ clock' = t
  /\ live' = [live EXCEPT ![p] = [on |-> TRUE, activity |-> t]]
  /\ known' = Upsert(Snap(p, "ready", t))
  /\ page' = Touched(known')
  /\ evicted' = evicted \ {p}
  /\ UNCHANGED <<lastQueue, recent>>

(* enqueueLastKnownWithFallback: at most one a minute; a full queue means  *)
(* a direct write, or nothing.                                             *)
EnqueueLastKnown(s, kind, syncFallback) ==
  \/ /\ s.prov \in recent[kind]
     /\ UNCHANGED <<recent, lastQueue, known, page>>
  \/ /\ s.prov \notin recent[kind]
     /\ recent' = [recent EXCEPT ![kind] = @ \cup {s.prov}]
     /\ \/ /\ Len(lastQueue) < LastQueueSize
           /\ lastQueue' = Append(lastQueue, s)
           /\ UNCHANGED <<known, page>>
        \/ /\ Len(lastQueue) >= LastQueueSize
           /\ known' = IF syncFallback THEN Upsert(s) ELSE known
           /\ page' = Touched(known')
           /\ UNCHANGED lastQueue

(* A heartbeat: every frame is an activity, and the snapshot carries it. *)
HandleHeartbeat(p) == \E t \in Now :
  /\ live[p].on
  /\ frames < MaxFrames
  /\ frames' = frames + 1
  /\ clock' = t
  /\ live' = [live EXCEPT ![p].activity = t]
  /\ EnqueueLastKnown(Snap(p, "ready", t), "heartbeat", TRUE)
  /\ UNCHANGED evicted

(* A diagnostic frame reads the clock again for its snapshot. *)
HandleDiagnosticStatus(p) == \E t, seen \in Now :
  /\ t <= seen
  /\ live[p].on
  /\ frames < MaxFrames
  /\ frames' = frames + 1
  /\ clock' = seen
  /\ live' = [live EXCEPT ![p].activity = t]
  /\ EnqueueLastKnown(Snap(p, "ready", seen), "diagnostic", FALSE)
  /\ UNCHANGED evicted

(* The disconnect snapshot is written at once, under the last activity. *)
LastHandleDisconnect(p) ==
  /\ live[p].on
  /\ live' = [live EXCEPT ![p].on = FALSE]
  /\ known' = Upsert(Snap(p, "unavailable", live[p].activity))
  /\ page' = Touched(known')
  /\ UNCHANGED <<lastQueue, recent, clock, frames, evicted>>

LastMinuteEnds ==
  /\ \E k \in DOMAIN recent :
       recent[k] # {} /\ recent' = [recent EXCEPT ![k] = {}]
  /\ UNCHANGED <<live, lastQueue, known, clock, frames, page, evicted>>

(* The worker applies the oldest queued snapshot. *)
RunConnectionEventWorker ==
  /\ lastQueue # <<>>
  /\ lastQueue' = Tail(lastQueue)
  /\ known' = Upsert(Head(lastQueue))
  /\ page' = Touched(known')
  /\ UNCHANGED <<live, recent, clock, frames, evicted>>

(* enforceLastKnownCap, of the retention pass. *)
EnforceLastKnownCap ==
  /\ Cardinality(known) > Cap
  /\ known' = FirstN(known, Cap)
  /\ evicted' = evicted \cup {k.prov : k \in known \ known'}
  /\ page' = Touched(known')
  /\ UNCHANGED <<live, lastQueue, recent, clock, frames>>

(* Prune: rows not seen for the retention period. A live session is seen   *)
(* far more often.                                                         *)
Prune == \E k \in known :
  /\ ~live[k.prov].on
  /\ known' = known \ {k}
  /\ evicted' = evicted \cup {k.prov}
  /\ page' = Touched(known')
  /\ UNCHANGED <<live, lastQueue, recent, clock, frames>>

-----------------------------------------------------------------------------
(* The operator's list. *)

(* The rows after the cursor. *)
After(c) == {k \in known : c = NoCursor \/ k.seen < c.seen
                           \/ (k.seen = c.seen /\ k.prov > c.prov)}

(* ListLastKnown from the start; `fixed' are the rows it then holds. *)
ListStarts ==
  /\ page.n < MaxPages
  /\ page.at = NoCursor
  /\ known # {}
  /\ LET got == FirstN(known, PageSize) IN
     page' = [at |-> IF Cardinality(got) = PageSize
                     THEN CHOOSE k \in got : \A q \in got : ~Before(k, q)
                     ELSE NoCursor,
              listed |-> got, twice |-> FALSE, fixed |-> known, n |-> page.n + 1]
  /\ UNCHANGED <<live, lastQueue, recent, known, clock, frames, evicted>>

(* The next page; a short one is the last. *)
ListContinues ==
  /\ page.at # NoCursor
  /\ LET got == FirstN(After(page.at), PageSize) IN
     page' = [page EXCEPT
                !.at = IF Cardinality(got) = PageSize
                       THEN CHOOSE k \in got : \A q \in got : ~Before(k, q)
                       ELSE NoCursor,
                !.listed = @ \cup got,
                !.twice = @ \/ page.listed \cap got # {}]
  /\ UNCHANGED <<live, lastQueue, recent, known, clock, frames, evicted>>

LastNext == \/ \E p \in Providers :
                 \/ Register(p) \/ HandleHeartbeat(p) \/ HandleDiagnosticStatus(p)
                 \/ LastHandleDisconnect(p)
            \/ LastMinuteEnds \/ RunConnectionEventWorker
            \/ EnforceLastKnownCap \/ Prune
            \/ ListStarts \/ ListContinues

-----------------------------------------------------------------------------
(* Types: one row a provider, and a bounded queue. *)
LastTypeOK ==
  /\ \A k \in known : k.state \in {"ready", "unavailable"} /\ k.seen \in 1..MaxTime
  /\ \A j, k \in known : j.prov = k.prov => j = k
  /\ Len(lastQueue) <= LastQueueSize
  /\ clock \in 1..MaxTime

(* A provider's record never goes back to an earlier sighting, although    *)
(* queued snapshots are applied after direct ones.                         *)
SeenNeverGoesBackStep ==
     \A k \in known : \A q \in known' : k.prov = q.prov => k.seen <= q.seen

(* A pass over the pages lists every record that does not change meanwhile *)
(* exactly once, whatever happens to the others.                           *)
PagesListOnce ==
  /\ ~page.twice
  /\ (page.n > 0 /\ page.at = NoCursor) => page.fixed \subseteq page.listed
=============================================================================
