---------------------------- MODULE GatewayAdmin ----------------------------
(***************************************************************************)
(* The gateway around its requests, in three parts that share no state:    *)
(* kill switch and capacity tiers, sign-up and API keys (prefix account),  *)
(* and the opening of its database (prefix migrate).                       *)
(***************************************************************************)
EXTENDS Naturals, FiniteSets, FiniteSetsExt

-----------------------------------------------------------------------------
(***************************************************************************)
(* The kill switch and the capacity tiers of the gateway.  The switch      *)
(* lives twice, in runtime_config and in the configuration in memory; two  *)
(* writers keep them in step: the operator's handler, by compare-and-swap  *)
(* on a version, and the capacity monitor, which pauses on entering tier 3 *)
(* and resumes on leaving it.                                              *)
(***************************************************************************)

CONSTANTS Operators, Monitors, MaxVersion, MaxRestarts

VARIABLES
    db,         \* runtime_config: [demo, all, ver]; ver 0 is no row
    mem,        \* s.cfg.KillSwitch: [demo, all]
    tier,       \* capacity_tier: [n, aged]: aged when the cooldown is over
    firing,     \* some latest capacity signal is firing
    op,         \* operator handlers
    mon,        \* capacity handlers
    alone,      \* history: no two requests have run at once
    restarts

vars == <<db, mem, tier, firing, op, mon, alone, restarts>>

Idle == [pc |-> "idle"]

Init ==
    /\ db = [demo |-> FALSE, all |-> FALSE, ver |-> 0]
    /\ mem = [demo |-> FALSE, all |-> FALSE]
    /\ tier = [n |-> 0, aged |-> FALSE] /\ firing = FALSE
    /\ op = [o \in Operators |-> Idle] /\ mon = [m \in Monitors |-> Idle]
    /\ alone = TRUE /\ restarts = 0

Quiet == (\A o \in Operators : op[o] = Idle) /\ (\A m \in Monitors : mon[m] = Idle)
Step(o, r) == op' = [op EXCEPT ![o] = r]
Go(m, r) == mon' = [mon EXCEPT ![m] = r]

(* The operator has seen version ver and names the fields to change.        *)
Request(o) ==
    /\ op[o].pc = "idle"
    /\ alone' = (alone /\ Quiet)
    /\ \E fields \in SUBSET {"demo", "all"}, to \in BOOLEAN :
         Step(o, [pc |-> "read", ver |-> db.ver, fields |-> fields, to |-> to])
    /\ UNCHANGED <<db, mem, tier, firing, mon, restarts>>

(* handleKillSwitch: GetKillSwitch, with memory standing in for a missing   *)
(* row, and the fields the request names.                                   *)
ReadSwitch(o) ==
    /\ op[o].pc = "read"
    /\ LET cur == IF db.ver = 0 THEN mem ELSE [demo |-> db.demo, all |-> db.all] IN
       Step(o, [pc |-> "cas", ver |-> op[o].ver, fields |-> op[o].fields,
                next |-> [f \in {"demo", "all"} |-> IF f \in op[o].fields THEN op[o].to ELSE cur[f]]])
    /\ UNCHANGED <<db, mem, tier, firing, mon, alone, restarts>>

(* CompareAndSwapKillSwitch; a conflict or an error ends the request. *)
CompareAndSwap(o) ==
    /\ op[o].pc = "cas"
    /\ \/ /\ db.ver = op[o].ver /\ db.ver < MaxVersion
          /\ db' = [demo |-> op[o].next.demo, all |-> op[o].next.all, ver |-> db.ver + 1]
          /\ Step(o, [pc |-> "mem", next |-> op[o].next])
       \/ Step(o, Idle) /\ UNCHANGED db
    /\ UNCHANGED <<mem, tier, firing, mon, alone, restarts>>

(* The switch in memory takes the values that were stored. *)
Apply(o) ==
    /\ op[o].pc = "mem"
    /\ mem' = op[o].next
    /\ Step(o, Idle)
    /\ UNCHANGED <<db, tier, firing, mon, alone, restarts>>

(* handleCapacitySignal: the event is stored and the tier read; a quiet      *)
(* signal, or one that changes nothing, ends there.                          *)
Signal(m) ==
    /\ mon[m].pc = "idle"
    /\ alone' = (alone /\ Quiet)
    /\ \/ firing' \in BOOLEAN /\ UNCHANGED mon
       \/ /\ firing' = TRUE
          /\ \E n \in {k \in {1, 3} : k = 3 \/ tier.n = 0} :
               Go(m, [pc |-> "tier", to |-> n, paused |-> IF n = 3 THEN {TRUE} ELSE {}])
    /\ UNCHANGED <<db, mem, tier, op, restarts>>

(* handleCapacityEvaluate: up from 1 when a signal fired for a week, down    *)
(* one tier when all are quiet and the cooldown is over.                     *)
Evaluate(m) ==
    /\ mon[m].pc = "idle" /\ tier.aged
    /\ alone' = (alone /\ Quiet)
    /\ \/ tier.n = 1 /\ firing /\ Go(m, [pc |-> "tier", to |-> 2, paused |-> {}])
       \/ /\ tier.n > 0 /\ ~firing
          /\ Go(m, [pc |-> "tier", to |-> tier.n - 1, paused |-> IF tier.n = 3 THEN {FALSE} ELSE {}])
    /\ UNCHANGED <<db, mem, tier, firing, op, restarts>>

(* setCapacityTier; it may fail, and the handler returns the error. *)
SetTier(m) ==
    /\ mon[m].pc = "tier"
    /\ \/ /\ tier' = [n |-> mon[m].to, aged |-> FALSE]
          /\ Go(m, IF mon[m].paused = {} THEN Idle ELSE [pc |-> "pause", paused |-> mon[m].paused])
       \/ Go(m, Idle) /\ UNCHANGED tier
    /\ UNCHANGED <<db, mem, firing, op, alone, restarts>>

(* setAllPublicPaused: memory first; nothing to store when it was so before. *)
Pause(m) ==
    /\ mon[m].pc = "pause"
    /\ \E p \in mon[m].paused :
         /\ mem' = [mem EXCEPT !.all = p]
         /\ Go(m, IF mem.all = p THEN Idle ELSE [pc |-> "store", old |-> mem.all])
    /\ UNCHANGED <<db, tier, firing, op, alone, restarts>>

(* SetKillSwitch, the other field as memory has it; memory is put back when  *)
(* the write fails.                                                          *)
StorePause(m) ==
    /\ mon[m].pc = "store"
    /\ \/ /\ db.ver < MaxVersion
          /\ db' = [demo |-> mem.demo, all |-> ~mon[m].old, ver |-> db.ver + 1]
          /\ UNCHANGED mem
       \/ mem' = [mem EXCEPT !.all = mon[m].old] /\ UNCHANGED db
    /\ Go(m, Idle)
    /\ UNCHANGED <<tier, firing, op, alone, restarts>>

Age ==
    /\ ~tier.aged
    /\ tier' = [tier EXCEPT !.aged = TRUE]
    /\ UNCHANGED <<db, mem, firing, op, mon, alone, restarts>>

(* The process dies; New loads the switch with loadRuntimeKillSwitch. *)
Restart ==
    /\ restarts < MaxRestarts
    /\ restarts' = restarts + 1
    /\ op' = [o \in Operators |-> Idle] /\ mon' = [m \in Monitors |-> Idle]
    /\ mem' = IF db.ver = 0 THEN [demo |-> FALSE, all |-> FALSE] ELSE [demo |-> db.demo, all |-> db.all]
    /\ UNCHANGED <<db, tier, firing, alone>>

Next ==
    \/ \E o \in Operators : Request(o) \/ ReadSwitch(o) \/ CompareAndSwap(o) \/ Apply(o)
    \/ \E m \in Monitors : Signal(m) \/ Evaluate(m) \/ SetTier(m) \/ Pause(m) \/ StorePause(m)
    \/ Age \/ Restart

----------------------------------------------------------------------------
(* An operator's write changes no field of the stored switch that the       *)
(* request does not name, although the row was read in one transaction and  *)
(* written in another.                                                      *)
NoLostUpdateStep ==
       \A o \in Operators :
         op[o].pc = "cas" /\ op'[o].pc = "mem" /\ db.ver > 0 =>
           \A f \in {"demo", "all"} \ op[o].fields : db'[f] = db[f]

(* As long as requests came one at a time, whatever failed on its way, the  *)
(* switch in memory and the stored one agree when none is running, so that  *)
(* a restart changes nothing.                                               *)
RestartChangesNothing ==
    Quiet /\ alone /\ db.ver > 0 =>
        mem = [demo |-> db.demo, all |-> db.all]

-----------------------------------------------------------------------------
(***************************************************************************)
(* Sign-up and API keys at the gateway: OAuth states and handoffs, the cap *)
(* on public issuance per client address, the account, its identity and    *)
(* its keys.  A handler is several transactions, and it may stop between   *)
(* any two of them: an error, a buyer that left, a process that died.      *)
(***************************************************************************)

CONSTANTS
    Flows,      \* OAuth flows; each has a state token and would make one account
    Who, Ips,   \* the GitHub identity of each flow; the client addresses it may come from
    StateCap,   \* Auth.OAuth.StateMaxPerIP
    SignupCap,  \* Quotas.SignupAccountsPerIPPerDay
    Keys        \* API key ids

VARIABLES
    ip,         \* the client address of each flow
    state,      \* oauth_states by flow: none, live, consumed, expired, gone
    mint,       \* flows started with action=mint
    step,       \* where the callback of a flow is
    issued,     \* public_issuance_events: flows, by the address they came from
    accounts,   \* accounts, named by the flow that created them
    identity,   \* account_identities: identities to the account
    key,        \* api_keys: key ids to [acct, st]
    mine,       \* the key a callback has issued
    handoff,    \* oauth_handoffs by flow: none, live, consumed, expired
    shown,      \* how often the key of a flow's handoff was handed out
    rot         \* keys whose holder has been let in to rotate them

accountVars == <<ip, state, mint, step, issued, accounts, identity, key, mine, handoff, shown, rot>>

Ids == {Who[f] : f \in Flows}
NoKey == [acct |-> "none", st |-> "none"]
Unused == {k \in Keys : key[k].st = "none"}

AccountInit ==
    /\ ip \in Ips
    /\ state = [f \in Flows |-> "none"] /\ mint = {}
    /\ step = [f \in Flows |-> "idle"] /\ issued = {} /\ accounts = {}
    /\ identity = [i \in Ids |-> "none"] /\ key = [k \in Keys |-> NoKey]
    /\ mine = [f \in Flows |-> "none"]
    /\ handoff = [f \in Flows |-> "none"] /\ shown = [f \in Flows |-> 0] /\ rot = {}

AccountGo(f, s) == step' = [step EXCEPT ![f] = s]

(* handleGitHubStart and StoreOAuthStateWithCap: the cap counts the live    *)
(* states of the address.                                                   *)
Start(f) ==
    /\ state[f] = "none"
    /\ Cardinality({g \in Flows : ip[g] = ip[f] /\ state[g] = "live"}) < StateCap
    /\ state' = [state EXCEPT ![f] = "live"]
    /\ mint' \in {mint, mint \union {f}}
    /\ UNCHANGED <<step, issued, accounts, identity, key, mine, handoff, shown, rot>>

(* handleGitHubCallback: ConsumeOAuthState, in the session that started it; *)
(* then the exchange of the code, which may fail.                           *)
Callback(f) ==
    /\ state[f] = "live"
    /\ state' = [state EXCEPT ![f] = "consumed"]
    /\ \E s \in {"lookup", "end"} : AccountGo(f, s)
    /\ UNCHANGED <<mint, issued, accounts, identity, key, mine, handoff, shown, rot>>

(* LookupAccountByIdentity: a new identity signs up, a known one gets a key *)
(* only when it asked for one.                                              *)
Lookup(f) ==
    /\ step[f] = "lookup"
    /\ AccountGo(f, IF identity[Who[f]] = "none" THEN "reserve" ELSE IF f \in mint THEN "mint" ELSE "end")
    /\ UNCHANGED <<state, mint, issued, accounts, identity, key, mine, handoff, shown, rot>>

(* createSignupAccount: ReservePublicIssuance counts and inserts in one     *)
(* transaction, then the account, then its identity.                        *)
ReservePublicIssuance(f) ==
    /\ step[f] = "reserve"
    /\ IF Cardinality({g \in issued : ip[g] = ip[f]}) >= SignupCap
       THEN AccountGo(f, "end") /\ UNCHANGED issued
       ELSE AccountGo(f, "account") /\ issued' = issued \union {f}
    /\ UNCHANGED <<state, mint, accounts, identity, key, mine, handoff, shown, rot>>

CreateAccount(f) ==
    /\ step[f] = "account"
    /\ accounts' = accounts \union {f}
    /\ AccountGo(f, "identity")
    /\ UNCHANGED <<state, mint, issued, identity, key, mine, handoff, shown, rot>>

(* AddAccountIdentity: the primary key of the table is the identity. *)
AddAccountIdentity(f) ==
    /\ step[f] = "identity"
    /\ IF identity[Who[f]] = "none"
       THEN identity' = [identity EXCEPT ![Who[f]] = f] /\ AccountGo(f, "issue")
       ELSE UNCHANGED identity /\ AccountGo(f, "end")
    /\ UNCHANGED <<state, mint, issued, accounts, key, mine, handoff, shown, rot>>

(* KeyManager.Issue, CreateAPIKey: for the account just made, or for the    *)
(* one the identity has.                                                    *)
Issue(f) ==
    /\ step[f] \in {"issue", "mint"}
    /\ \E k \in Unused :
         /\ key' = [key EXCEPT ![k] = [acct |-> IF step[f] = "issue" THEN f ELSE identity[Who[f]], st |-> "active"]]
         /\ mine' = [mine EXCEPT ![f] = k]
    /\ \E s \in {"handoff", "end"} : AccountGo(f, s)
    /\ UNCHANGED <<state, mint, issued, accounts, identity, handoff, shown, rot>>

(* redirectOAuthHandoff, StoreOAuthHandoff *)
StoreHandoff(f) ==
    /\ step[f] = "handoff"
    /\ handoff' = [handoff EXCEPT ![f] = "live"]
    /\ AccountGo(f, "end")
    /\ UNCHANGED <<state, mint, issued, accounts, identity, key, mine, shown, rot>>

(* A handler ends between two of its transactions. *)
Stop(f) ==
    /\ step[f] \notin {"idle", "end"}
    /\ AccountGo(f, "end")
    /\ UNCHANGED <<state, mint, issued, accounts, identity, key, mine, handoff, shown, rot>>

(* handleHandoffExchange, ConsumeOAuthHandoff *)
Exchange(f) ==
    /\ handoff[f] = "live"
    /\ handoff' = [handoff EXCEPT ![f] = "consumed"]
    /\ shown' = [shown EXCEPT ![f] = @ + 1]
    /\ UNCHANGED <<state, mint, step, issued, accounts, identity, key, mine, rot>>

(* handleAPIKeys: requireBearer lets an active key in; RotateAPIKey then     *)
(* adds the new key and revokes the old one, whatever became of it since.   *)
RequireBearer(k) ==
    /\ key[k].st = "active"
    /\ rot' = rot \union {k}
    /\ UNCHANGED <<state, mint, step, issued, accounts, identity, key, mine, handoff, shown>>

Rotate(k) ==
    /\ k \in rot /\ rot' = rot \ {k}
    /\ \E n \in Unused : key' = [key EXCEPT ![n] = [key[k] EXCEPT !.st = "active"], ![k].st = "revoked"]
    /\ UNCHANGED <<state, mint, step, issued, accounts, identity, mine, handoff, shown>>

(* RevokeAPIKeyForAccount, RevokeAPIKey *)
Revoke(k) ==
    /\ key[k].st # "none"
    /\ key' = [key EXCEPT ![k].st = "revoked"]
    /\ UNCHANGED <<state, mint, step, issued, accounts, identity, mine, handoff, shown, rot>>

(* Tokens expire and are pruned. *)
Expire(f) ==
    /\ \/ state[f] = "live" /\ state' = [state EXCEPT ![f] = "expired"] /\ UNCHANGED handoff
       \/ handoff[f] = "live" /\ handoff' = [handoff EXCEPT ![f] = "expired"] /\ UNCHANGED state
    /\ UNCHANGED <<mint, step, issued, accounts, identity, key, mine, shown, rot>>

Prune ==
    /\ state' = [f \in Flows |-> IF state[f] \in {"consumed", "expired"} THEN "gone" ELSE state[f]]
    /\ handoff' = [f \in Flows |-> IF handoff[f] \in {"consumed", "expired"} THEN "gone" ELSE handoff[f]]
    /\ UNCHANGED <<mint, step, issued, accounts, identity, key, mine, shown, rot>>

AccountNext ==
    /\ UNCHANGED ip
    /\ \/ \E f \in Flows :
            \/ Start(f) \/ Callback(f) \/ Lookup(f) \/ ReservePublicIssuance(f) \/ CreateAccount(f)
            \/ AddAccountIdentity(f) \/ Issue(f) \/ StoreHandoff(f) \/ Stop(f) \/ Exchange(f) \/ Expire(f)
       \/ \E k \in Keys : RequireBearer(k) \/ Rotate(k) \/ Revoke(k)
       \/ Prune

----------------------------------------------------------------------------
(* However many sign-ups of one address run at once, no more accounts than  *)
(* the daily cap come of them.                                              *)
SignupCapHolds ==
    \A f \in Flows : Cardinality({g \in accounts : ip[g] = ip[f]}) <= SignupCap

(* Two sign-ups of one identity race, and one of them may die half-way: a   *)
(* key always belongs to the account its identity is known by, so no buyer  *)
(* holds a key of an account they cannot log in to.                         *)
KeysHaveOwners ==
    \A k \in Keys : key[k].st # "none" => key[k].acct \in accounts /\ \E i \in Ids : identity[i] = key[k].acct

(* A state is good for one callback and a handoff for one key, whatever     *)
(* pruning does to their rows.                                              *)
TokensAreSingleUse ==
    \A f \in Flows : shown[f] <= 1 /\ (state[f] = "live" => step[f] = "idle")

-----------------------------------------------------------------------------
(***************************************************************************)
(* Opening the gateway's database: the version gate, the schema, the       *)
(* rebuilds of older tables and the version stamps.  Every statement       *)
(* outside a transaction commits by itself, and the process may die after  *)
(* any of them; the next start begins again.                               *)
(***************************************************************************)

CONSTANT MaxCrashes

Current == 9    \* maxKnownSchemaVersion

VARIABLES
    from,       \* history: the version the database had, 0 for a new one
    migrateDb,         \* the database
    pc,         \* the next step of Migrate; 0 at the gate
    up,         \* Migrate returned and the gateway serves
    crashes

migrateVars == <<from, migrateDb, pc, up, crashes>>

(* The tables as version v left them: each field, the version that brought   *)
(* it.                                                                       *)
Since == [usagePK |-> 2, demoPK |-> 3, observed |-> 5, hold |-> 6, stale |-> 7, returnTo |-> 9]
Fields == DOMAIN Since

MigrateInit ==
    /\ from \in 0..Current
    /\ migrateDb = [has    |-> [f \in Fields |-> from >= Since[f]],
                    exists |-> from > 0, guarded |-> from > 0, stamps |-> 1..from]
    /\ pc = 0 /\ up = FALSE /\ crashes = 0

Stamped == IF migrateDb.stamps = {} THEN 0 ELSE Max(migrateDb.stamps)

(* checkSchemaVersionGate *)
Gate ==
    /\ pc = 0 /\ ~up /\ Stamped <= Current
    /\ pc' = 1
    /\ UNCHANGED <<from, migrateDb, up, crashes>>

(* schemaSQL and the table constants: CREATE TABLE IF NOT EXISTS makes what   *)
(* is missing in its current form and leaves the rest; the auxiliary DDL adds *)
(* the indexes and the append-only triggers.                                  *)
CreateTables ==
    [migrateDb EXCEPT !.exists = TRUE,
                      !.has = [f \in Fields |-> migrateDb.has[f] \/ ~migrateDb.exists]]
Guard(d) == [d EXCEPT !.guarded = TRUE]

(* ensureOAuthState*Column, ensureOAuthHandoffsTable: each looks at the table *)
(* and adds what is missing.                                                  *)
AddColumns(d) == [d EXCEPT !.has["returnTo"] = TRUE]

(* A rebuild: rename, create, copy, drop, the triggers and the version stamp, *)
(* in one transaction.                                                        *)
Rebuild(d, f) ==
    IF d.has[f] THEN d
    ELSE [d EXCEPT !.has[f] = TRUE, !.guarded = TRUE, !.stamps = @ \union {Since[f]}]

(* The new usage_events has the current form, which takes                     *)
(* coordinator_observed rows as well.                                         *)
ensureUsageEventsCompositePK ==
    LET d == Rebuild(migrateDb, "usagePK") IN [d EXCEPT !.has["observed"] = @ \/ ~migrateDb.has["usagePK"]]
ensureDemoUsageEventsCompositePK == Rebuild(migrateDb, "demoPK")
ensureUsageEventsCoordinatorObservedSource == Rebuild(migrateDb, "observed")
ensureQuotaReservationStaleHeldStatus == Rebuild(migrateDb, "stale")

(* ensureQuotaSettlementHoldColumn: the column and the stamp together. *)
AddHoldColumn(d) ==
    IF d.has["hold"] THEN d ELSE [d EXCEPT !.has["hold"] = TRUE, !.stamps = @ \union {6}]

(* Migrate, a statement or a transaction at a time. *)
Stage ==
    CASE pc = 1 -> CreateTables
      [] pc = 2 -> Guard(migrateDb)
      [] pc = 3 -> AddColumns(migrateDb)
      [] pc = 4 -> ensureUsageEventsCompositePK
      [] pc = 5 -> ensureDemoUsageEventsCompositePK
      [] pc = 6 -> ensureUsageEventsCoordinatorObservedSource
      [] pc = 7 -> AddHoldColumn(migrateDb)
      [] pc = 8 -> ensureQuotaReservationStaleHeldStatus
      [] OTHER  -> [migrateDb EXCEPT !.stamps = @ \union {pc - 8}]

Migrate ==
    /\ pc \in 1..(8 + Current)
    /\ migrateDb' = Stage
    /\ IF pc = 8 + Current THEN up' = TRUE /\ pc' = 0 ELSE up' = up /\ pc' = pc + 1
    /\ UNCHANGED <<from, crashes>>

Crash ==
    /\ crashes < MaxCrashes /\ (up \/ pc > 0)
    /\ crashes' = crashes + 1 /\ pc' = 0 /\ up' = FALSE
    /\ UNCHANGED <<from, migrateDb>>

MigrateNext == Gate \/ Migrate \/ Crash
MigrateFair == WF_migrateVars(Gate \/ Migrate)

----------------------------------------------------------------------------
(* An older gateway put back on a database that had data passes the gate     *)
(* only if every key and every status of the tables is one that gateway      *)
(* knows: the stamp commits with the form it stands for.  (A wider check on  *)
(* token_source and a column with a default do it no harm.)                  *)
GateProtects ==
    \A known \in 1..(Current - 1) :
      from > 0 /\ Stamped <= known =>
        \A f \in Fields \ {"returnTo", "observed"} : migrateDb.has[f] => Since[f] <= known

(* The gateway serves only on tables of the current form, with their         *)
(* append-only triggers, from whatever version and whatever half-done        *)
(* migration it started.                                                     *)
ServesCurrentForm == up => migrateDb.guarded /\ (\A f \in Fields : migrateDb.has[f]) /\ migrateDb.stamps = 1..Current

(* The migration comes to its end once the crashes stop. *)
MigrationEndsTo == up
=============================================================================
