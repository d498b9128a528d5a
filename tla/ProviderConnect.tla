-------------------------- MODULE ProviderConnect ---------------------------
(***************************************************************************)
(* How a provider connects, in two parts that share no state: the          *)
(* connection from the upgrade to the registry, and the two bridges for    *)
(* older providers (prefix bridge).                                        *)
(***************************************************************************)
EXTENDS Integers, FiniteSets, FiniteSetsExt

-----------------------------------------------------------------------------
(***************************************************************************)
(* A provider's connection from the upgrade to the registry                *)
(* (phase4-coordinator ws/server.go handleProvider, handleConn,            *)
(* handleV1Conn, handleV2Conn), many connections at once: the bounded      *)
(* resources a handler takes and its deferred calls give back, the         *)
(* operator's bans, and the provider token it confirms or mints.           *)
(***************************************************************************)

CONSTANTS Conns, Prov, Ip,                   \* connections, their provider and address
          Pinned,                            \* the providers named by the configuration
          PerIpMax, UnauthMax, AttemptMax, PoolMax,
          MaxRevoked                         \* bound: operator revocations

VARIABLES pc,       \* where each connection's handler stands
          loc,      \* its local variables
          perIp, unauth, attempts, pending,  \* the shared counters
          token,    \* provider -> generation of its active token, 0 when none
          gens,     \* provider -> tokens issued so far
          rejected, \* the operator's bans
          pool,     \* connections with a registry entry
          revoked   \* provider -> generations revoked

vars == <<pc, loc, perIp, unauth, attempts, pending, token, gens, rejected, pool, revoked>>

Fresh == [bearer |-> 0, boot |-> FALSE, slot |-> FALSE, attempt |-> FALSE, reserved |-> FALSE,
          registered |-> FALSE, tier |-> "provisional", seen |-> 0, auth |-> "none"]

Init ==
  /\ pc = [c \in Conns |-> "idle"]
  /\ loc = [c \in Conns |-> Fresh]
  /\ perIp = [i \in {Ip[c] : c \in Conns} |-> 0]
  /\ unauth = 0 /\ attempts = 0 /\ pending = 0
  /\ token \in [{Prov[c] : c \in Conns} -> {0, 1}]
  /\ gens = token
  /\ rejected = {} /\ pool = {}
  /\ revoked = [p \in DOMAIN token |-> {}]

Go(c, to) == pc' = [pc EXCEPT ![c] = to]
Set(c, f, x) == loc' = [loc EXCEPT ![c][f] = x]
server == <<token, gens, rejected, pool, revoked>>

\* Every return of the handlers runs what was deferred so far: the attempt is
\* forgotten, the admission reservation of a provider that was not registered is
\* released, and releaseUnauth (once) frees both unauthenticated slots.
Return(c) ==
  LET l == loc[c] IN
  /\ Go(c, "closed")
  /\ perIp' = IF l.slot THEN [perIp EXCEPT ![Ip[c]] = @ - 1] ELSE perIp
  /\ unauth' = IF l.slot THEN unauth - 1 ELSE unauth
  /\ attempts' = IF l.attempt THEN attempts - 1 ELSE attempts
  /\ pending' = IF ~l.registered /\ l.reserved /\ l.tier = "provisional" /\ pending > 0
                THEN pending - 1 ELSE pending
  /\ loc' = [loc EXCEPT ![c].slot = FALSE, ![c].attempt = FALSE]

\* A handler that reached the state st may refuse for a reason outside this model.
Refuse(c, st) == pc[c] = st /\ Return(c) /\ UNCHANGED server

\* handleProvider up to the two unauthenticated slots.  The bearer the request
\* carries: 0 for none, else a generation of its provider's tokens.
HandleProvider(c, bearer) ==
  /\ pc[c] = "idle"
  /\ bearer <= gens[Prov[c]]
  /\ IF perIp[Ip[c]] >= PerIpMax \/ unauth >= UnauthMax
     THEN Go(c, "closed") /\ UNCHANGED <<loc, perIp, unauth>>
     ELSE /\ Go(c, "token")
          /\ loc' = [loc EXCEPT ![c].bearer = bearer, ![c].slot = TRUE]
          /\ perIp' = [perIp EXCEPT ![Ip[c]] = @ + 1]
          /\ unauth' = unauth + 1
  /\ UNCHANGED <<attempts, pending, server>>

Live(p, g) == g = 0 \/ token[p] = g

\* validateProviderToken: a tokenless connection goes on, unvalidated.
ValidateProviderToken(c) ==
  /\ pc[c] = "token"
  /\ IF Live(Prov[c], loc[c].bearer)
     THEN Go(c, "first") /\ UNCHANGED <<loc, perIp, unauth, attempts, pending>>
     ELSE Return(c)
  /\ UNCHANGED server

\* CheckAdmit and the token rules of prepareProviderAdmission.
Prepared(c) ==
  /\ Prov[c] \in Pinned => loc[c].bearer # 0
  /\ Prov[c] \in Pinned \/
       /\ Prov[c] \notin rejected
       /\ Cardinality({d \in pool : loc[d].tier = "provisional"}) + pending < PoolMax

Tier(c) == IF Prov[c] \in Pinned THEN "pinned" ELSE "provisional"

\* handleV1Conn up to the entry it prepares.
V1Hello(c) ==
  /\ pc[c] = "first"
  /\ IF Prepared(c)
     THEN /\ Go(c, "count")
          /\ loc' = [loc EXCEPT ![c].tier = Tier(c)]
          /\ UNCHANGED <<perIp, unauth, attempts, pending>>
     ELSE Return(c)
  /\ UNCHANGED server

\* prepareCredentialBootstrap: only a tokenless provider the configuration does
\* not name asks for its credential.
CanBootstrap(c) == loc[c].bearer = 0 /\ Prov[c] \notin Pinned

\* handleV2Conn up to the challenge; retain says whether the attempt must be
\* remembered until the proof.
V2Initial(c, boot, retain) ==
  /\ pc[c] = "first"
  /\ boot => retain
  /\ IF (IF boot THEN CanBootstrap(c) ELSE Prepared(c)) /\ (retain => attempts < AttemptMax)
     THEN /\ Go(c, "challenged")
          /\ loc' = [loc EXCEPT ![c].tier = Tier(c), ![c].boot = boot, ![c].attempt = retain]
          /\ attempts' = IF retain THEN attempts + 1 ELSE attempts
          /\ UNCHANGED <<perIp, unauth, pending>>
     ELSE Return(c)
  /\ UNCHANGED server

\* The proof was read in time and verified.  A bootstrap connection of a provider
\* without tokens mints its first one (what the store decides for the others is
\* in BootstrapTokens), answers and ends without an entry.
V2Bootstrap(c) ==
  /\ pc[c] = "challenged" /\ loc[c].boot
  /\ LET p == Prov[c] IN
     /\ token' = [token EXCEPT ![p] = IF gens[p] = 0 THEN 1 ELSE @]
     /\ gens' = [gens EXCEPT ![p] = IF @ = 0 THEN 1 ELSE @]
  /\ Return(c)
  /\ UNCHANGED <<rejected, pool, revoked>>

\* Any other connection forgets the attempt and goes on to the admission.
V2Proof(c) ==
  /\ pc[c] = "challenged" /\ ~loc[c].boot
  /\ Go(c, "count")
  /\ attempts' = IF loc[c].attempt THEN attempts - 1 ELSE attempts
  /\ loc' = [loc EXCEPT ![c].attempt = FALSE]
  /\ UNCHANGED <<perIp, unauth, pending, server>>

\* reserveProviderAdmission reads the registry before it takes the manager's lock.
CountConnected(c) ==
  /\ pc[c] = "count"
  /\ Go(c, "reserve")
  /\ Set(c, "seen", Cardinality({d \in pool : loc[d].tier = "provisional"}))
  /\ UNCHANGED <<perIp, unauth, attempts, pending, server>>

ReserveAdmission(c) ==
  /\ pc[c] = "reserve"
  /\ IF loc[c].tier = "pinned"
     THEN /\ Go(c, "resolve") /\ Set(c, "reserved", TRUE)
          /\ UNCHANGED <<perIp, unauth, attempts, pending>>
     ELSE IF Prov[c] \notin rejected /\ loc[c].seen + pending < PoolMax
     THEN /\ Go(c, "resolve") /\ Set(c, "reserved", TRUE)
          /\ pending' = pending + 1
          /\ UNCHANGED <<perIp, unauth, attempts>>
     ELSE Return(c)
  /\ UNCHANGED server

\* resolveProvisionalToken: a tokenless provider that has no active token is
\* given one; one that has is refused; the custody check and the issue are two
\* transactions.
ResolveProvisionalToken(c) ==
  /\ pc[c] = "resolve"
  /\ IF loc[c].bearer # 0
     THEN Go(c, "confirm") /\ Set(c, "auth", "bearer") /\ UNCHANGED <<perIp, unauth, attempts, pending>>
     ELSE IF token[Prov[c]] # 0 THEN Return(c)
     ELSE Go(c, "mint") /\ UNCHANGED <<loc, perIp, unauth, attempts, pending>>
  /\ UNCHANGED server

\* The unique index on active tokens: the loser goes on as a duplicate, which
\* routing and billing leave out.
IssueToken(c) ==
  /\ pc[c] = "mint"
  /\ Go(c, "confirm")
  /\ LET p == Prov[c] IN
     IF token[p] # 0
     THEN Set(c, "auth", "duplicate") /\ UNCHANGED <<token, gens>>
     ELSE /\ token' = [token EXCEPT ![p] = gens[p] + 1]
          /\ gens' = [gens EXCEPT ![p] = @ + 1]
          /\ loc' = [loc EXCEPT ![c].auth = "minted", ![c].seen = gens[p] + 1]
  /\ UNCHANGED <<perIp, unauth, attempts, pending, rejected, pool, revoked>>

\* resolveSandboxAuthState: a provider sandboxed for want of evidence gets no
\* token; its bearer, when it has one, is confirmed as any other.
ResolveSandboxAuthState(c) ==
  /\ pc[c] = "resolve"
  /\ IF loc[c].bearer # 0
     THEN Go(c, "confirm") /\ Set(c, "auth", "bearer") /\ UNCHANGED <<perIp, unauth, attempts, pending>>
     ELSE IF token[Prov[c]] # 0 THEN Return(c)
     ELSE Go(c, "commit") /\ Set(c, "auth", "sandbox") /\ UNCHANGED <<perIp, unauth, attempts, pending>>
  /\ UNCHANGED server

ConfirmAdmittedProviderToken(c) ==
  /\ pc[c] = "confirm"
  /\ IF Live(Prov[c], loc[c].bearer)
     THEN Go(c, "commit") /\ UNCHANGED <<loc, perIp, unauth, attempts, pending>>
     ELSE Return(c)
  /\ UNCHANGED server

\* CommitReservedAdmission keeps the tier; registerProviderSession puts the entry
\* in the registry in place of the provider's older one, unless the registry
\* refuses it; then the reservation and the unauthenticated slots are given back.
RegisterProviderSession(c) ==
  /\ pc[c] = "commit"
  /\ loc[c].auth \in {"duplicate", "sandbox"} => \A d \in pool : Prov[d] # Prov[c]
  /\ Go(c, "serving")
  /\ pool' = {d \in pool : Prov[d] # Prov[c]} \union {c}
  /\ loc' = [loc EXCEPT ![c].registered = TRUE, ![c].slot = FALSE]
  /\ pending' = IF loc[c].reserved /\ loc[c].tier = "provisional" /\ pending > 0 THEN pending - 1 ELSE pending
  /\ perIp' = [perIp EXCEPT ![Ip[c]] = @ - 1]
  /\ unauth' = unauth - 1
  /\ UNCHANGED <<attempts, token, gens, rejected, revoked>>

RegistryRefuses(c) ==
  /\ pc[c] = "commit"
  /\ loc[c].auth \in {"duplicate", "sandbox"} /\ \E d \in pool : Prov[d] = Prov[c]
  /\ Return(c)
  /\ UNCHANGED server

\* The session ends; the entry leaves the registry if it is still this session's.
Disconnect(c) ==
  /\ pc[c] = "serving"
  /\ pool' = pool \ {c}
  /\ Return(c)
  /\ UNCHANGED <<token, gens, rejected, revoked>>

\* handleAdminReject: the ban, then the end of the session the registry shows.
Reject(p) ==
  /\ p \notin rejected
  /\ rejected' = rejected \union {p}
  /\ pool' = {d \in pool : Prov[d] # p}
  /\ UNCHANGED <<pc, loc, perIp, unauth, attempts, pending, token, gens, revoked>>

\* RevokeToken by the operator.
Revoke(p) ==
  /\ token[p] # 0 /\ gens[p] < MaxRevoked
  /\ token' = [token EXCEPT ![p] = 0]
  /\ revoked' = [revoked EXCEPT ![p] = @ \union {token[p]}]
  /\ UNCHANGED <<pc, loc, perIp, unauth, attempts, pending, gens, rejected, pool>>

Step(c) ==
  \/ ValidateProviderToken(c) \/ V1Hello(c) \/ V2Bootstrap(c) \/ V2Proof(c)
  \/ \E boot, retain \in BOOLEAN : V2Initial(c, boot, retain)
  \/ CountConnected(c) \/ ReserveAdmission(c) \/ ResolveProvisionalToken(c) \/ IssueToken(c)
  \/ ResolveSandboxAuthState(c) \/ ConfirmAdmittedProviderToken(c)
  \/ RegisterProviderSession(c) \/ RegistryRefuses(c)
  \/ \E st \in {"first", "challenged"} : Refuse(c, st)

Next ==
  \/ \E c \in Conns : (\E b \in 0 .. 2 : HandleProvider(c, b)) \/ Step(c) \/ Disconnect(c)
  \/ \E p \in DOMAIN token : Reject(p) \/ Revoke(p)

Fair == \A c \in Conns : WF_vars(Step(c))

Before == {"token", "first", "challenged", "count", "reserve", "resolve", "mint", "confirm", "commit"}

TypeOK ==
  /\ pc \in [Conns -> {"idle", "serving", "closed"} \union Before]
  /\ pool \subseteq Conns
  /\ rejected \subseteq DOMAIN token

(* Whatever path a connection takes, each bounded resource is given back   *)
(* exactly once: the counters equal the handlers that hold the resource,   *)
(* so they neither leak to a permanent refusal nor drop below the truth.   *)
CountersAreExact ==
  /\ unauth = Cardinality({c \in Conns : pc[c] \in Before})
  /\ \A i \in DOMAIN perIp : perIp[i] = Cardinality({c \in Conns : pc[c] \in Before /\ Ip[c] = i})
  /\ attempts = Cardinality({c \in Conns : pc[c] = "challenged" /\ loc[c].attempt})
  /\ pending = Cardinality({c \in Conns : /\ pc[c] \in {"resolve", "mint", "confirm", "commit"}
                                          /\ loc[c].tier = "provisional"})

(* Of the connections that are registered as routable for one provider     *)
(* without a bearer, each was handed a token of its own: two first         *)
(* connections racing never both believe they own the provider's token.    *)
OneOwnerPerToken ==
  \A c, d \in Conns :
    /\ loc[c].auth = "minted" /\ loc[d].auth = "minted" /\ Prov[c] = Prov[d]
    /\ pc[c] \in {"confirm", "commit", "serving"} /\ pc[d] \in {"confirm", "commit", "serving"}
    => c = d \/ loc[c].seen \in revoked[Prov[c]] \/ loc[d].seen \in revoked[Prov[d]]

(* A bearer revoked while its connection was still in the handshake does   *)
(* not reach the registry: the confirmation just before the registration   *)
(* refuses it.                                                             *)
RevokedBearerIsRefusedStep ==
     \A c \in Conns : /\ pc[c] = "confirm" /\ loc[c].bearer \in revoked[Prov[c]]
                      => pc'[c] # "commit"

(* Every connection leaves the handshake, refused or registered; with it   *)
(* the unauthenticated slots become free again.                            *)
HandshakeEndsFrom(c) == pc[c] \in Before
HandshakeEndsTo(c) == pc[c] \in {"serving", "closed"}

-----------------------------------------------------------------------------
(***************************************************************************)
(* The two bridges by which the coordinator lets older providers stay      *)
(* while the fleet migrates, and how each ends.                            *)
(*   - The catalog bridge: a hello without catalog metadata is admitted as *)
(*     "legacy_bridge" and served until an absolute deadline, when a pass  *)
(*     under autotuneCatalogBridgeMu turns every such session "legacy".    *)
(*   - The model-hash bridge: a session that names no hash algorithm is    *)
(*     tolerated until model_hash_legacy_until.  The deadline may be moved *)
(*     by a reload; a timer with a generation number fences the sessions   *)
(*     left when it passes, and heartbeats check it too.                   *)
(* A hello is checked first and registered later, and both deadlines may   *)
(* pass in between.                                                        *)
(***************************************************************************)

CONSTANTS
  Sessions,      \* provider sessions
  CatalogUntil,  \* the catalog bridge's deadline
  Configs,       \* model-hash configurations: [active, until], until = 0 when unset
  MaxTime, MaxReloads, MaxHellos, \* bounds
  None

VARIABLES
  now,
  cfg,     \* the tier-2 configuration stored
  pass,    \* whether the catalog bridge's pass has run
  entry,   \* the session's pool entry, or None
  hello,   \* a hello checked and not yet registered, or None
  reload,  \* step of the reload in hand, or None
  gen,     \* modelHashLegacyGeneration
  timer,   \* the timer armed: [gen, at], or None
  calls,   \* callbacks of timers that fired: [gen, at, checked]
  used     \* reloads and hellos made

bridgeVars == <<now, cfg, pass, entry, hello, reload, gen, timer, calls, used>>

BridgeLive(s) == entry[s] # None

(* autotuneCatalogBridgeActive *)
CatalogBridgeActive == now < CatalogUntil

(* LegacyMissingAlgorithmAllowed: an unset deadline allows nothing. *)
LegacyAllowed == now < cfg.until

(* verifyProviderModelIdentity, to what the bridge tells apart: a session *)
(* that names an algorithm is judged on its hash, which is never Invalid. *)
VerifyIdentity(alg) == IF ~alg /\ ~LegacyAllowed THEN "invalid" ELSE "judged"

Tick == now < MaxTime /\ now' = now + 1
        /\ UNCHANGED <<cfg, pass, entry, hello, reload, gen, timer, calls, used>>

(* prepareProviderAdmission with catalogAdmission: both bridges are checked *)
(* before the hello has its place in the pool.                              *)
Prepare(s, alg, metadata) ==
  /\ ~BridgeLive(s) /\ hello[s] = None
  /\ used.hellos < MaxHellos /\ used' = [used EXCEPT !.hellos = @ + 1]
  /\ LET mode == IF metadata THEN "current"
                 ELSE IF CatalogBridgeActive THEN "legacy_bridge" ELSE "legacy"
         status == IF cfg.active THEN VerifyIdentity(alg) ELSE "none"
     IN hello' = IF status = "invalid" THEN hello
                 ELSE [hello EXCEPT ![s] = [alg |-> alg, mode |-> mode, status |-> status]]
  /\ UNCHANGED <<now, cfg, pass, entry, reload, gen, timer, calls>>

(* registerProviderSession: the catalog bridge is checked again under its lock. *)
(* Mutant: without the second check. *)
RegisteredModeAsPrepared(mode) == mode
RegisteredMode(mode) ==
  IF mode = "legacy_bridge" /\ ~CatalogBridgeActive THEN "legacy" ELSE mode
Register(s) ==
  /\ hello[s] # None
  /\ entry' = [entry EXCEPT ![s] = [alg |-> hello[s].alg, mode |-> RegisteredMode(hello[s].mode),
                                    status |-> hello[s].status, closing |-> FALSE]]
  /\ hello' = [hello EXCEPT ![s] = None]
  /\ UNCHANGED <<now, cfg, pass, reload, gen, timer, calls, used>>

(* runAutotuneCatalogBridgeDeadline with ExpireLegacyBridgeAdmissions. *)
CatalogDeadline ==
  /\ ~pass /\ now >= CatalogUntil
  /\ pass' = TRUE
  /\ entry' = [s \in Sessions |->
       IF BridgeLive(s) /\ entry[s].mode = "legacy_bridge" THEN [entry[s] EXCEPT !.mode = "legacy"]
       ELSE entry[s]]
  /\ UNCHANGED <<now, cfg, hello, reload, gen, timer, calls, used>>

(* A heartbeat of a session is verified like its hello, and a session whose *)
(* identity is no longer valid is fenced: fenceInvalidModelIdentity.        *)
Fenced(e) == [e EXCEPT !.status = "invalid", !.closing = TRUE]
Heartbeat(s) ==
  /\ BridgeLive(s) /\ cfg.active /\ VerifyIdentity(entry[s].alg) = "invalid"
  /\ entry' = [entry EXCEPT ![s] = Fenced(@)]
  /\ UNCHANGED <<now, cfg, pass, hello, reload, gen, timer, calls, used>>

(* The connection ends: closed by the coordinator, or by the provider. *)
Leave(s) ==
  /\ BridgeLive(s)
  /\ entry' = [entry EXCEPT ![s] = None]
  /\ UNCHANGED <<now, cfg, pass, hello, reload, gen, timer, calls, used>>
-----------------------------------------------------------------------------
(* SetTier2Config stores the configuration ... *)
StoreConfig(c) ==
  /\ reload = None /\ used.reloads < MaxReloads
  /\ used' = [used EXCEPT !.reloads = @ + 1]
  /\ cfg' = c /\ reload' = "schedule"
  /\ UNCHANGED <<now, pass, entry, hello, gen, timer, calls>>

(* ... then drops the timer of the deadline before and arms one for the new *)
(* deadline; with hashes active and no deadline ahead it expires at once.   *)
(* A timer that has fired already cannot be stopped: its callback is told   *)
(* by the generation.                                                       *)
NextGeneration == gen + 1
Schedule ==
  /\ reload = "schedule"
  /\ gen' = NextGeneration
  /\ timer' = IF cfg.until > now THEN [gen |-> NextGeneration, at |-> cfg.until] ELSE None
  /\ reload' = IF (cfg.active \/ cfg.until # 0) /\ cfg.until <= now THEN "expire" ELSE "refresh"
  /\ UNCHANGED <<now, cfg, pass, entry, hello, calls, used>>

(* ExpireLegacyModelHashAdmissions: every session without an algorithm is *)
(* marked in one step, then closed.                                       *)
Expired == [s \in Sessions |-> IF BridgeLive(s) /\ ~entry[s].alg THEN Fenced(entry[s]) ELSE entry[s]]
ExpireAtOnce ==
  /\ reload = "expire"
  /\ entry' = Expired /\ reload' = "refresh"
  /\ UNCHANGED <<now, cfg, pass, hello, gen, timer, calls, used>>

(* RefreshTier2HashStatuses *)
RefreshStatuses ==
  /\ reload = "refresh"
  /\ entry' = [s \in Sessions |-> IF ~BridgeLive(s) THEN entry[s] ELSE
       [entry[s] EXCEPT !.status = IF cfg.active THEN VerifyIdentity(entry[s].alg) ELSE "none"]]
  /\ reload' = None
  /\ UNCHANGED <<now, cfg, pass, hello, gen, timer, calls, used>>

(* The timer fires; its callback compares generations ... *)
TimerFires ==
  /\ timer # None /\ now >= timer.at
  /\ calls' = calls \cup {[gen |-> timer.gen, at |-> timer.at, checked |-> FALSE]}
  /\ timer' = None
  /\ UNCHANGED <<now, cfg, pass, entry, hello, reload, gen, used>>
CallbackChecks(c) ==
  /\ ~c.checked
  /\ calls' = (calls \ {c}) \cup (IF c.gen = gen THEN {[c EXCEPT !.checked = TRUE]} ELSE {})
  /\ UNCHANGED <<now, cfg, pass, entry, hello, reload, gen, timer, used>>
(* ... and, outside the lock, expires the sessions. *)
CallbackExpires(c) ==
  /\ c.checked
  /\ entry' = Expired /\ calls' = calls \ {c}
  /\ UNCHANGED <<now, cfg, pass, hello, reload, gen, timer, used>>
-----------------------------------------------------------------------------
BridgeInit ==
  /\ now = 0 /\ pass = FALSE /\ cfg \in Configs
  /\ entry = [s \in Sessions |-> None] /\ hello = entry
  /\ reload = "schedule" /\ gen = 0 /\ timer = None /\ calls = {}
  /\ used = [reloads |-> 0, hellos |-> 0]

BridgeNext ==
  \/ Tick \/ CatalogDeadline \/ Schedule \/ ExpireAtOnce \/ RefreshStatuses \/ TimerFires
  \/ \E c \in Configs : StoreConfig(c)
  \/ \E c \in calls : CallbackChecks(c) \/ CallbackExpires(c)
  \/ \E s \in Sessions : \/ \E a, m \in BOOLEAN : Prepare(s, a, m)
                         \/ Register(s) \/ Heartbeat(s) \/ Leave(s)

(* Heartbeats keep coming and a closed connection goes away; timers fire and *)
(* goroutines that have begun go on.                                         *)
BridgeFair ==
  /\ \A s \in Sessions : WF_bridgeVars(Heartbeat(s)) /\ WF_bridgeVars(BridgeLive(s) /\ entry[s].closing /\ Leave(s))
  /\ WF_bridgeVars(Schedule) /\ WF_bridgeVars(ExpireAtOnce) /\ WF_bridgeVars(RefreshStatuses) /\ WF_bridgeVars(TimerFires)
-----------------------------------------------------------------------------
(* The variables have the shape the code gives them. *)
BridgeTypeOK ==
  /\ now \in 0..MaxTime /\ pass \in BOOLEAN /\ cfg \in Configs
  /\ reload \in {None, "schedule", "expire", "refresh"}
  /\ timer # None => timer.gen <= gen /\ timer.at <= MaxTime
  /\ \A s \in Sessions : BridgeLive(s) =>
       /\ entry[s].mode \in {"current", "legacy_bridge", "legacy"}
       /\ entry[s].status \in {"none", "judged", "invalid"}

(* Once the catalog bridge's pass has run no session is served on the bridge: *)
(* also not one whose hello was checked before the deadline and registered    *)
(* after the pass.                                                            *)
BridgeEndsForAll ==
  pass => \A s \in Sessions : BridgeLive(s) => entry[s].mode # "legacy_bridge"

(* The timer of a deadline a reload has replaced fences nobody: between     *)
(* reloads, the only callback that passes the check is the one for the      *)
(* deadline configured now.                                                 *)
StaleTimerIsInertStep ==
     \A c \in calls : ~c.checked /\ reload = None /\ [c EXCEPT !.checked = TRUE] \in calls'
       => c.at = cfg.until

(* With hashes active and the deadline past, a session that names no algorithm *)
(* goes, however its registration fell between the check and the fencing pass. *)
LegacyLeavesFrom(s) == BridgeLive(s) /\ ~entry[s].alg /\ cfg.active /\ ~LegacyAllowed
LegacyLeavesTo(s) == ~BridgeLive(s) \/ ~cfg.active \/ LegacyAllowed
=============================================================================
