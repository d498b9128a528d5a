---------------------------- MODULE GatewayStore ----------------------------
(***************************************************************************)
(* The gateway's SQLite store as one account sees it on one usage day: the *)
(* quota_reservations, concurrency_reservations, usage_events and          *)
(* demo_usage_events rows, and the transactions over them.  A transaction  *)
(* runs under BEGIN IMMEDIATE, so it is one step; it is an action with a   *)
(* result, "ok" or the error its caller tells apart.  "db" is any other    *)
(* error: a begin, a statement or a commit that fails.                     *)
(***************************************************************************)
EXTENDS Integers, FiniteSets, Functions

CONSTANTS
    Req,        \* request ids of the account
    Demo,       \* the requests that arrive with a demo token
    Ask,        \* tokens one request reserves (promptCapTokens + max_tokens)
    Quota,      \* the account's daily quota
    Limit,      \* the account's concurrency limit
    MaxFaults   \* store, journal or coordinator calls that may fail, and usage
                \* rows that may be written by hand

ASSUME StoreConstants ==
    /\ IsFiniteSet(Req) /\ Req # {}
    /\ Demo \subseteq Req
    /\ Ask \in Nat \ {0} /\ Quota \in Nat /\ Limit \in Nat /\ MaxFaults \in Nat

VARIABLES
    res,        \* quota_reservations by request id
    lease,      \* concurrency_reservations by request id
    usage,      \* usage_events by request id (the primary key of the account)
    demo,       \* request ids with a demo_usage_events row
    faults      \* failures still to come

storeVars == <<res, lease, usage, demo, faults>>

(* The tokens, source and outcome a usage_events row is compared by. *)
NoUse == [tok |-> 0, src |-> "none"]
Uses == [tok : 0..Ask, src : {"gateway", "coordinator", "audit"}]

NoRow == [st |-> "none", hold |-> FALSE, due |-> FALSE]
Statuses == {"active", "settled", "refunded", "expired", "stale_held"}
Rows == [st : Statuses, hold : BOOLEAN, due : BOOLEAN]

StoreInit ==
    /\ res = [r \in Req |-> NoRow]
    /\ lease = [r \in Req |-> "none"]
    /\ usage = [r \in Req |-> NoUse]
    /\ demo = {}
    /\ faults = MaxFaults

DbFault == faults > 0 /\ faults' = faults - 1
Works == UNCHANGED faults

Active(r) == res[r].st = "active"
UsedTokens == FoldFunction(LAMBDA u, n : u.tok + n, 0, usage)
ReservedTokens(rows) == Ask * Cardinality({r \in Req : rows[r].st = "active"})

(* reapExpiredReservationsTx: a reservation past its expiry is given up     *)
(* unless it is held for settlement.                                        *)
Reaped == [r \in Req |-> IF Active(r) /\ res[r].due /\ ~res[r].hold
                         THEN [res[r] EXCEPT !.st = "expired"]
                         ELSE res[r]]

NewRow == [st |-> "active", hold |-> FALSE, due |-> FALSE]

(* ReserveQuota.  A failing call may or may not have committed its insert:  *)
(* the caller cannot tell.                                                  *)
ReserveQuota(r, out) ==
    LET fits == UsedTokens + ReservedTokens(Reaped) + Ask <= Quota
        free == res[r].st = "none"
    IN  /\ UNCHANGED <<lease, usage, demo>>
        /\ \/ out = "exists" /\ Works /\ ~free /\ UNCHANGED res
           \/ out = "quota" /\ Works /\ free /\ ~fits /\ UNCHANGED res
           \/ out = "ok" /\ Works /\ free /\ fits /\ res' = [Reaped EXCEPT ![r] = NewRow]
           \/ /\ out = "db" /\ DbFault
              /\ \/ UNCHANGED res
                 \/ free /\ fits /\ res' = [Reaped EXCEPT ![r] = NewRow]

(* SettleReservation and, when dem, SettleDemoReservation: close the active *)
(* row and insert its usage row (and the demo row) together, or neither.    *)
SettleReservation(r, dem, use, out) ==
    /\ UNCHANGED lease
    /\ \/ /\ out = "ok" /\ Works
          /\ Active(r) /\ usage[r] = NoUse /\ (dem => r \notin demo)
          /\ use.tok <= Ask
          /\ res' = [res EXCEPT ![r].st = "settled"]
          /\ usage' = [usage EXCEPT ![r] = use]
          /\ demo' = IF dem THEN demo \union {r} ELSE demo
       \/ /\ UNCHANGED <<res, usage, demo>>
          /\ \/ out = "notfound" /\ Works /\ res[r].st = "none"
             \/ out = "terminal" /\ Works /\ ~Active(r) /\ res[r].st # "none"
             \/ out = "key" /\ Works /\ Active(r) /\ (usage[r] # NoUse \/ (dem /\ r \in demo))
             \/ out = "db" /\ DbFault

(* RefundReservation: a no-op unless the row is active. *)
RefundReservation(r, out) ==
    /\ UNCHANGED <<lease, usage, demo>>
    /\ \/ out = "ok" /\ Works /\ Active(r) /\ res' = [res EXCEPT ![r].st = "refunded"]
       \/ out = "notfound" /\ Works /\ ~Active(r) /\ UNCHANGED res
       \/ out = "db" /\ DbFault /\ UNCHANGED res

(* MarkReservationStaleHeld *)
MarkReservationStaleHeld(r, out) ==
    /\ UNCHANGED <<lease, usage, demo>>
    /\ \/ /\ out = "ok" /\ Works /\ Active(r) /\ res[r].hold
          /\ res' = [res EXCEPT ![r].st = "stale_held"]
       \/ out = "notfound" /\ Works /\ ~(Active(r) /\ res[r].hold) /\ UNCHANGED res
       \/ out = "db" /\ DbFault /\ UNCHANGED res

(* Mutant: the hold without the condition on the row's status. *)
MarkHoldAny(r, out) ==
    /\ UNCHANGED <<lease, usage, demo>>
    /\ out = "ok" /\ Works /\ res' = [res EXCEPT ![r].hold = TRUE]

(* MarkReservationSettlementHold *)
MarkReservationSettlementHold(r, out) ==
    /\ UNCHANGED <<lease, usage, demo>>
    /\ \/ out = "ok" /\ Works /\ Active(r) /\ res' = [res EXCEPT ![r].hold = TRUE]
       \/ out = "gone" /\ Works /\ ~Active(r) /\ UNCHANGED res
       \/ out = "db" /\ DbFault /\ UNCHANGED res

(* ClampReservationExpiry: the expiry only ever moves earlier, so a row     *)
(* that is past it stays past it.                                           *)
ClampReservationExpiry(r, out) ==
    /\ UNCHANGED <<lease, usage, demo>>
    /\ \/ out = "ok" /\ Works /\ Active(r) /\ res' = [res EXCEPT ![r].hold = TRUE]
       \/ out = "gone" /\ Works /\ ~Active(r) /\ UNCHANGED res
       \/ out = "db" /\ DbFault /\ UNCHANGED res

(* ListSettlementHeldReservations *)
SettlementHeld == {r \in Req : Active(r) /\ res[r].hold}

(* AcquireConcurrency: leases past their expiry are closed first, even when *)
(* the request is then refused.                                             *)
AcquireConcurrency(r, out) ==
    LET live == {q \in Req : lease[q] = "active"}
        open == [q \in Req |-> IF lease[q] = "due" THEN "expired" ELSE lease[q]]
    IN  /\ UNCHANGED <<res, usage, demo>>
        /\ \/ out = "quota" /\ Works /\ Cardinality(live) >= Limit /\ lease' = open
           \/ /\ out = "ok" /\ Works /\ Cardinality(live) < Limit /\ lease[r] = "none"
              /\ lease' = [open EXCEPT ![r] = "active"]
           \/ out = "db" /\ Works /\ Cardinality(live) < Limit /\ lease[r] # "none" /\ UNCHANGED lease
           \/ out = "db" /\ DbFault /\ UNCHANGED lease

(* ReleaseConcurrency; its error is ignored by the caller. *)
ReleaseConcurrency(r) ==
    /\ UNCHANGED <<res, usage, demo>>
    /\ \/ /\ Works
          /\ lease' = [lease EXCEPT ![r] = IF @ \in {"active", "due"} THEN "released" ELSE @]
       \/ DbFault /\ UNCHANGED lease

(* InsertUsageEvent: a usage row written outside of a request. *)
InsertUsageEvent(r, use) ==
    /\ DbFault /\ usage[r] = NoUse
    /\ usage' = [usage EXCEPT ![r] = use]
    /\ UNCHANGED <<res, lease, demo>>

(* Mutant: insert-or-ignore without the comparison. *)
EnsureUnchecked(r, use, out) ==
    /\ UNCHANGED <<res, lease, demo>>
    /\ out = "ok" /\ Works
    /\ usage' = [usage EXCEPT ![r] = IF @ = NoUse THEN use ELSE @]

(* EnsureUsageEvent: insert-or-ignore on the primary key, then compare the  *)
(* row that is there with the one that was wanted.                          *)
EnsureUsageEvent(r, use, out) ==
    /\ UNCHANGED <<res, lease, demo>>
    /\ \/ /\ out = "ok" /\ Works /\ usage[r] = NoUse
          /\ usage' = [usage EXCEPT ![r] = use]
       \/ out = "ok" /\ Works /\ usage[r] = use /\ UNCHANGED usage
       \/ out = "conflict" /\ Works /\ usage[r] \notin {NoUse, use} /\ UNCHANGED usage
       \/ out = "db" /\ DbFault /\ UNCHANGED usage

(* EnsureDemoUsageEvent, called for demo requests only; its error is logged. *)
EnsureDemoUsageEvent(r) ==
    /\ UNCHANGED <<res, lease, usage>>
    /\ \/ Works /\ demo' = IF r \in Demo THEN demo \union {r} ELSE demo
       \/ r \in Demo /\ DbFault /\ UNCHANGED demo

(* ReapExpiredReservations, the periodic reaper's first statement. *)
ReapExpiredReservations ==
    /\ Reaped # res
    /\ res' = Reaped
    /\ UNCHANGED <<lease, usage, demo, faults>>

(* DeleteTerminalQuotaReservations, its second: rows closed for longer than *)
(* the retention are forgotten, stale_held ones are kept.                   *)
DeleteTerminalQuotaReservations(r) ==
    /\ res[r].st \in {"expired", "settled", "refunded"}
    /\ res' = [res EXCEPT ![r] = NoRow]
    /\ UNCHANGED <<lease, usage, demo, faults>>

(* The clock passes a reservation's or a lease's expires_at. *)
ReservationDue(r) ==
    /\ Active(r) /\ ~res[r].due
    /\ res' = [res EXCEPT ![r].due = TRUE]
    /\ UNCHANGED <<lease, usage, demo, faults>>

LeaseDue(r) ==
    /\ lease[r] = "active"
    /\ lease' = [lease EXCEPT ![r] = "due"]
    /\ UNCHANGED <<res, usage, demo, faults>>
=============================================================================
