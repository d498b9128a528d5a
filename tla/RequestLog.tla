----------------------------- MODULE RequestLog -----------------------------
(***************************************************************************)
(* The coordinator's durable request log: the attempt number every row     *)
(* gets, the reservation of Idempotency-Key values, retention, and the     *)
(* two migrations that older databases go through                          *)
(* (phase4-coordinator/internal/requestlog/store.go), together with the    *)
(* intake that reserves a key (buyer/server.go) and the credit the hot     *)
(* path writes in the transaction of a provider's row                      *)
(* (billing/hotpath.go).                                                   *)
(***************************************************************************)
EXTENDS Integers, FiniteSets, FiniteSetsExt

CONSTANTS Calls,        \* buyer calls; a call's own request id is the call
          Acct,         \* Acct[c]: the account of call c
          Key,          \* Key[c]: its Idempotency-Key, or None
          Body,         \* Body[c]: the hash of its body
          Worlds,       \* databases found at start-up: [log, keys, new]
          MaxTries,     \* bound: provider attempts of one call
          MaxCrashes,   \* bound: restarts
          None

VARIABLES missing,      \* columns of request_log not yet added
          scoped,       \* the key table has the (account, key) primary key
          up,           \* the daemon serves
          log,          \* request_log: [id, req, acct, n, prov, old]
          keys,         \* request_idempotency_keys
          call,         \* what the handler of a call is about to do
          credits,      \* ledger rows of the hot path
          pruning,      \* what the retention pass deletes next
          cut,          \* history: requests that lost a row to retention
          crashes

vars == <<missing, scoped, up, log, keys, call, credits, pruning, cut, crashes>>

Columns == {"account_id", "attempt_n"}

Group(l, acct, req) == {r \in l : r.acct = acct /\ r.req = req}

NextId == 1 + Max({r.id : r \in log} \cup {0})

(* The ordinal readers use: the column, or the position of a legacy row. *)
Ordinal(l, r) ==
  IF r.n # None THEN r.n
  ELSE Cardinality({p \in Group(l, r.acct, r.req) : p.id <= r.id}) - 1

(* insert: the attempt number is the count of the group's rows. *)
Inserted(req, acct, prov) ==
  [id |-> NextId, req |-> req, acct |-> acct, prov |-> prov, old |-> FALSE,
   n |-> Cardinality(Group(log, acct, req))]

(* The hot path credits its own attempt number, unless the log counts more. *)
Credited(req, acct, tries) ==
  LET derived == Cardinality(Group(log, acct, req)) IN
  IF derived > tries
  THEN [req |-> req, n |-> derived, why |-> "ambiguous_attempt_n"]
  ELSE [req |-> req, n |-> tries, why |-> "credited"]

AttemptNState ==
  IF "attempt_n" \in missing THEN "legacy"
  ELSE IF \E r \in log : r.n = None THEN "populating" ELSE "populated"

Init == /\ \E w \in Worlds :
             /\ log = w.log
             /\ keys = w.keys
             /\ scoped = w.new
             /\ missing = IF w.new THEN {} ELSE Columns
        /\ up = FALSE
        /\ call = [c \in Calls |-> [pc |-> "new", req |-> c, tries |-> 0]]
        /\ credits = {}
        /\ pruning = "idle"
        /\ cut = {}
        /\ crashes = 0

-----------------------------------------------------------------------------
(* Start-up. *)

(* One ALTER TABLE per missing column, each durable by itself. *)
EnsureColumns ==
  /\ ~up
  /\ \E c \in missing :
       /\ c = "attempt_n" => "account_id" \notin missing
       /\ missing' = missing \ {c}
  /\ UNCHANGED <<scoped, up, log, keys, call, credits, pruning, cut, crashes>>

(* The first logged account of the reserved request, else ''. *)
AccountFromRequestLog(k) ==
  LET named == {r \in log : r.req = k.req /\ r.acct # None} IN
  IF k.acct # "" THEN k.acct
  ELSE IF named = {} THEN ""
  ELSE (CHOOSE r \in named : \A q \in named : r.id <= q.id).acct

(* INSERT OR IGNORE in creation order: the first of two equal keys stays. *)
EnsureIdempotencyAccountScope ==
  /\ ~up
  /\ missing = {}
  /\ ~scoped
  /\ LET moved == {[k EXCEPT !.acct = AccountFromRequestLog(k)] : k \in keys}
     IN keys' = {k \in moved : \A q \in moved :
                   (q.acct = k.acct /\ q.key = k.key) => k.at <= q.at}
  /\ scoped' = TRUE
  /\ UNCHANGED <<missing, up, log, call, credits, pruning, cut, crashes>>

Serve == /\ ~up
         /\ missing = {}
         /\ scoped
         /\ up' = TRUE
         /\ UNCHANGED <<missing, scoped, log, keys, call, credits, pruning, cut,
                        crashes>>

(* The process dies; its handlers and its retention pass die with it. *)
Crash == /\ crashes < MaxCrashes
         /\ crashes' = crashes + 1
         /\ up' = FALSE
         /\ pruning' = "idle"
         /\ call' = [c \in Calls |->
                       IF call[c].pc = "new" THEN call[c]
                       ELSE [call[c] EXCEPT !.pc = "done"]]
         /\ UNCHANGED <<missing, scoped, log, keys, credits, cut>>

-----------------------------------------------------------------------------
(* A buyer's call. *)

Taken(c) == {k \in keys : k.acct = Acct[c] /\ k.key = Key[c]}

(* One transaction. A key held with this body answers with the first       *)
(* request's id, one held with another body is a conflict; either way the  *)
(* call will log a 409 row, the former under the first request's id.       *)
ReserveIdempotencyKey(c) ==
  /\ up
  /\ call[c].pc = "new"
  /\ Key[c] # None
  /\ \/ /\ Taken(c) = {}
        /\ keys' = keys \cup
                     {[acct |-> Acct[c], key |-> Key[c], body |-> Body[c],
                       req |-> c, at |-> 1, old |-> FALSE]}
        /\ call' = [call EXCEPT ![c].pc = "run"]
     \/ \E k \in Taken(c) :
          /\ call' = [call EXCEPT ![c].pc = "refuse",
                        ![c].req = IF k.body = Body[c] THEN k.req ELSE c]
          /\ keys' = keys
  /\ UNCHANGED <<missing, scoped, up, log, credits, pruning, cut, crashes>>

NoKey(c) ==
  /\ up
  /\ call[c].pc = "new"
  /\ Key[c] = None
  /\ call' = [call EXCEPT ![c].pc = "run"]
  /\ UNCHANGED <<missing, scoped, up, log, keys, credits, pruning, cut, crashes>>

(* A refused or replayed call leaves a row that names no provider. *)
LogBuyerFailure(c) ==
  /\ up
  /\ call[c].pc = "refuse"
  /\ log' = log \cup {Inserted(call[c].req, Acct[c], FALSE)}
  /\ call' = [call EXCEPT ![c].pc = "done"]
  /\ UNCHANGED <<missing, scoped, up, keys, credits, pruning, cut, crashes>>

(* A provider attempt ends: row and ledger row in one transaction. The     *)
(* call retries, or is answered.                                           *)
WriteHotPath(c) ==
  /\ up
  /\ call[c].pc = "run"
  /\ log' = log \cup {Inserted(call[c].req, Acct[c], TRUE)}
  /\ credits' = credits \cup {Credited(call[c].req, Acct[c], call[c].tries)}
  /\ \E pc \in {"run", "done"} :
       /\ pc = "run" => call[c].tries + 1 < MaxTries
       /\ call' = [call EXCEPT ![c].pc = pc, ![c].tries = @ + 1]
  /\ UNCHANGED <<missing, scoped, up, keys, pruning, cut, crashes>>

-----------------------------------------------------------------------------
(* Operators and time. *)

(* ROW_NUMBER() - 1 over all rows of the group. *)
Ranked(r) == Cardinality({p \in Group(log, r.acct, r.req) : p.id < r.id})

(* coordinator backfill-attempt-n: one UPDATE, from another process. *)
BackfillAttemptN ==
  /\ AttemptNState = "populating"
  /\ log' = {IF r.n = None THEN [r EXCEPT !.n = Ranked(r)] ELSE r : r \in log}
  /\ UNCHANGED <<missing, scoped, up, keys, call, credits, pruning, cut, crashes>>

InUse(req) == \E c \in Calls : call[c].pc \in {"run", "refuse"} /\ call[c].req = req

(* The retention period of a reservation ends; that of a row ends later,   *)
(* for a row is written after its key is reserved. No call lasts that      *)
(* long, and a pass deletes what had lapsed when it read its cutoff.       *)
KeyLapses == \E k \in keys :
  /\ pruning = "idle"
  /\ ~k.old /\ ~InUse(k.req)
  /\ keys' = (keys \ {k}) \cup {[k EXCEPT !.old = TRUE]}
  /\ UNCHANGED <<missing, scoped, up, log, call, credits, pruning, cut, crashes>>

RowLapses == \E r \in log :
  /\ pruning = "idle"
  /\ ~r.old /\ ~InUse(r.req)
  /\ \A k \in keys : k.req = r.req => k.old
  /\ \A q \in log : q.id < r.id => q.old
  /\ log' = (log \ {r}) \cup {[r EXCEPT !.old = TRUE]}
  /\ UNCHANGED <<missing, scoped, up, keys, call, credits, pruning, cut, crashes>>

(* PruneBefore: a retention pass begins. *)
PruneStart ==
  /\ up
  /\ pruning = "idle"
  /\ (\E k \in keys : k.old) \/ (\E r \in log : r.old)
  /\ pruning' = "keys"
  /\ UNCHANGED <<missing, scoped, up, log, keys, call, credits, cut, crashes>>

(* pruneBatched: the reservations go first, a batch at a time. *)
PruneKeys ==
  /\ pruning = "keys"
  /\ \/ /\ \E k \in keys : k.old /\ keys' = keys \ {k}
        /\ pruning' = pruning
     \/ /\ \A k \in keys : ~k.old
        /\ keys' = keys
        /\ pruning' = "rows"
  /\ UNCHANGED <<missing, scoped, up, log, call, credits, cut, crashes>>

(* pruneBatchedCounting: then the rows. *)
PruneRows ==
  /\ pruning = "rows"
  /\ \/ /\ \E r \in log : r.old /\ log' = log \ {r} /\ cut' = cut \cup {r.req}
        /\ pruning' = pruning
     \/ /\ \A r \in log : ~r.old
        /\ UNCHANGED <<log, cut>>
        /\ pruning' = "idle"
  /\ UNCHANGED <<missing, scoped, up, keys, call, credits, crashes>>

Next == \/ EnsureColumns \/ EnsureIdempotencyAccountScope \/ Serve \/ Crash
        \/ \E c \in Calls : \/ ReserveIdempotencyKey(c) \/ NoKey(c)
                            \/ LogBuyerFailure(c) \/ WriteHotPath(c)
        \/ BackfillAttemptN \/ KeyLapses \/ RowLapses
        \/ PruneStart \/ PruneKeys \/ PruneRows

-----------------------------------------------------------------------------
(* Types: a row's number is missing or natural, and ids are unique. *)
TypeOK ==
  /\ missing \subseteq Columns
  /\ {scoped, up} \subseteq BOOLEAN
  /\ \A r \in log : r.n = None \/ r.n \in Nat
  /\ \A r, q \in log : r.id = q.id => r = q
  /\ \A c \in Calls : call[c].pc \in {"new", "run", "refuse", "done"}
  /\ pruning \in {"idle", "keys", "rows"}
  /\ crashes \in 0..MaxCrashes

(* No two rows of one (account, request) have the same attempt ordinal,    *)
(* stored or derived, whatever mixture of legacy rows, new rows and        *)
(* backfilled rows the log holds, as long as retention has taken none of   *)
(* the request's rows.                                                     *)
AttemptsAreDistinct ==
  \A r, q \in log :
    (r.acct = q.acct /\ r.req = q.req /\ r # q /\ r.req \notin cut)
      => Ordinal(log, r) # Ordinal(log, q)

(* backfill-attempt-n may run beside a serving daemon: it stores for every *)
(* legacy row the ordinal readers were already deriving, changes no other  *)
(* row, and leaves nothing to derive.                                      *)
BackfillKeepsOrdinalsStep ==
     (\E r \in log : r.n = None) /\ AttemptNState' = "populated" /\ log # log'
       => \A r \in log : \A q \in log' :
            r.id = q.id => Ordinal(log, r) = Ordinal(log', q)

(* While a reservation is kept, only the call that made it sends anything  *)
(* to a provider under that account and key; this includes reservations    *)
(* made before the key table was scoped by account, whose account is read  *)
(* from the log.                                                           *)
ReservationRunsOnce ==
  /\ \A k \in keys : \A c \in Calls :
       (call[c].pc = "run" /\ Key[c] = k.key /\ Acct[c] = k.acct)
         => call[c].req = k.req
  /\ scoped => \A k \in keys : \A r \in log :
                 (r.req = k.req /\ r.acct # None) => k.acct = r.acct

(* Retention takes the reservation of a request before any of its rows, so *)
(* a key that still answers "already recorded" has a complete log.         *)
KeptKeyHasWholeLog == \A k \in keys : k.req \notin cut
=============================================================================
