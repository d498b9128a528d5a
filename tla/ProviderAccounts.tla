-------------------------- MODULE ProviderAccounts --------------------------
(***************************************************************************)
(* Credentials and ownership of providers, in two parts that share no      *)
(* state: the tokens an installer obtains, and the pairing of a provider   *)
(* with its owner (prefix pair).                                           *)
(***************************************************************************)
EXTENDS Integers, Sequences, FiniteSets, SequencesExt

-----------------------------------------------------------------------------
(***************************************************************************)
(* The provider credentials an installer can obtain without an operator    *)
(* (auth/tokens.go): the token rows, the binding of a provider to the      *)
(* receipt key that claimed it first, the hourly mint log, and the ways in *)
(* which tokens are issued, confirmed, expire, are pruned and are revoked. *)
(* Every operation is one BEGIN IMMEDIATE transaction, hence one step.     *)
(***************************************************************************)

CONSTANTS Providers, Keys, Limit, OutstandingMax, UnconfirmedMax,
          TTL, Retention, Hour, MaxTokens, MaxTime

VARIABLES tokens,    \* the rows in insertion order; a deleted row has state "gone"
          ids,       \* provider_bootstrap_identities
          log,       \* bootstrap_mint_log
          reissues,  \* apptrack_register_reissues: providers reissued at this instant
          now,
          ordinary   \* history: providers that ever held an ordinary token

vars == <<tokens, ids, log, reissues, now, ordinary>>

NoId == [key |-> "none", exp |-> -1, confirmed |-> FALSE, revoked |-> FALSE]
Never == MaxTime + TTL + 1   \* expires_at IS NULL

Init ==
  /\ tokens = <<>> /\ ids = [p \in Providers |-> NoId] /\ log = <<>>
  /\ reissues = {} /\ now = 0 /\ ordinary = {}

Rows(P(_)) == {i \in DOMAIN tokens : tokens[i].state # "gone" /\ P(tokens[i])}

\* The partial unique index: at most one row of a provider is not revoked.
Active(p) == Rows(LAMBDA t : t.prov = p /\ t.state = "active")

Row(p, boot, key) == [prov |-> p, boot |-> boot, key |-> key, born |-> now,
                      exp |-> IF boot THEN now + TTL ELSE Never, used |-> FALSE, state |-> "active"]

SetState(S, st) == [i \in DOMAIN tokens |-> IF i \in S THEN [tokens[i] EXCEPT !.state = st] ELSE tokens[i]]

\* issueToken, with a referral accepted: an operator's, or an open issuance.
IssueToken(p) ==
  /\ ids[p] = NoId /\ Active(p) = {} /\ Len(tokens) < MaxTokens
  /\ tokens' = Append(tokens, Row(p, FALSE, "none"))
  /\ ordinary' = ordinary \union {p}
  /\ UNCHANGED <<ids, log, reissues, now>>

\* The collection every mint begins with.
CollectedTokens == Rows(LAMBDA t : t.boot /\ ~t.used /\ t.exp <= now)

CollectedIds ==
  {p \in Providers : /\ ids[p] # NoId /\ ~ids[p].confirmed /\ ~ids[p].revoked
                     /\ ids[p].exp <= now - Retention}

Collected ==
  [toks |-> SetState(CollectedTokens, "gone"),
   ids |-> [p \in Providers |-> IF p \in CollectedIds THEN NoId ELSE ids[p]],
   log |-> SelectSeq(log, LAMBDA e : e.ts >= now - Hour)]

\* Refused for good: another key, a tombstone, an ordinary history, a used or an
\* expired token, a confirmed binding.
MintBlocked(c, p, k) ==
  LET id == c.ids[p]
      act == {i \in DOMAIN c.toks : c.toks[i].prov = p /\ c.toks[i].state = "active"}
      hist == {i \in DOMAIN c.toks : c.toks[i].prov = p /\ c.toks[i].state # "gone" /\ ~c.toks[i].boot}
  IN \/ id # NoId /\ (id.key # k \/ id.revoked)
     \/ hist # {}
     \/ act # {} /\ (id = NoId \/ \E i \in act : c.toks[i].used \/ c.toks[i].exp <= now)
     \/ id # NoId /\ id.confirmed
     \/ id = NoId /\ \E q \in Providers : c.ids[q].key = k   \* receipt_pubkey is UNIQUE

\* The hourly limit per provider stands for the three of the code; the two caps
\* bind only a mint that replaces no active token.
MintLimited(c, p) ==
  LET out == {i \in DOMAIN c.toks : LET t == c.toks[i] IN
                t.boot /\ t.state = "active" /\ ~t.used /\ t.exp > now}
      unc == {q \in Providers : LET d == c.ids[q] IN
                d # NoId /\ ~d.confirmed /\ ~d.revoked /\ d.exp > now}
      act == {i \in DOMAIN c.toks : c.toks[i].prov = p /\ c.toks[i].state = "active"}
  IN \/ Len(SelectSeq(c.log, LAMBDA e : e.prov = p)) >= Limit
     \/ /\ act = {}
        /\ \/ Cardinality(out) >= OutstandingMax
           \/ c.ids[p] = NoId /\ Cardinality(unc) >= UnconfirmedMax

\* A refusal still commits the collection.
MintBootstrapToken(p, k) ==
  LET c == Collected IN
  /\ Len(tokens) < MaxTokens
  /\ IF MintBlocked(c, p, k) \/ MintLimited(c, p)
     THEN tokens' = c.toks /\ ids' = c.ids /\ log' = c.log
     ELSE /\ tokens' = Append([i \in DOMAIN c.toks |->
                          IF c.toks[i].prov = p /\ c.toks[i].state = "active"
                          THEN [c.toks[i] EXCEPT !.state = "revoked"] ELSE c.toks[i]], Row(p, TRUE, k))
          /\ ids' = [c.ids EXCEPT ![p] = [@ EXCEPT !.key = k, !.exp = now + TTL]]
          /\ log' = Append(c.log, [prov |-> p, ts |-> now])
  /\ UNCHANGED <<reissues, now, ordinary>>

\* MintProviderTokenAppTrack: a provider with a token shows it and is replaced,
\* once in five minutes (one instant here); one without is issued a token.
MintProviderTokenAppTrack(p) ==
  /\ Active(p) # {} => p \notin reissues
  /\ Len(tokens) < MaxTokens
  /\ tokens' = Append(SetState(Active(p), "revoked"), Row(p, FALSE, "none"))
  /\ reissues' = IF Active(p) # {} THEN reissues \union {p} ELSE reissues
  /\ ordinary' = ordinary \union {p}
  /\ UNCHANGED <<ids, log, now>>

\* ValidateToken, and validateAndMaybeConfirmToken asked not to confirm.
ValidateToken(i) ==
  /\ tokens[i].state = "active"
  /\ tokens' = IF tokens[i].boot /\ ~tokens[i].used /\ tokens[i].exp <= now
               THEN SetState({i}, "revoked") ELSE tokens
  /\ UNCHANGED <<ids, log, reissues, now, ordinary>>

\* validateAndMaybeConfirmToken of an admitted provider.
ConfirmToken(i) ==
  LET t == tokens[i] IN
  /\ t.state = "active"
  /\ IF t.boot /\ ~t.used /\ t.exp <= now
     THEN tokens' = SetState({i}, "revoked") /\ UNCHANGED ids
     ELSE /\ t.boot /\ ~t.used => ids[t.prov] # NoId
          /\ tokens' = [tokens EXCEPT ![i].used = TRUE]
          /\ ids' = IF t.boot /\ ~t.used
                    THEN [ids EXCEPT ![t.prov] = [@ EXCEPT !.confirmed = TRUE, !.exp = Never]] ELSE ids
  /\ UNCHANGED <<log, reissues, now, ordinary>>

\* RevokeUnusedTokenForProvider: the self-healing of a lost issuance.
RevokeUnusedTokenForProvider(p) ==
  /\ tokens' = SetState(Rows(LAMBDA t : t.prov = p /\ t.state = "active" /\ ~t.used), "revoked")
  /\ UNCHANGED <<ids, log, reissues, now, ordinary>>

\* An ordinary row of an installer's provider stays, revoked.
PruneUnusedTokens(cut) ==
  LET stale == Rows(LAMBDA t : t.state = "active" /\ ~t.used /\ t.born < cut) IN
  /\ tokens' = [i \in DOMAIN tokens |-> IF i \notin stale THEN tokens[i] ELSE
                  [tokens[i] EXCEPT !.state = IF tokens[i].boot THEN "gone" ELSE "revoked"]]
  /\ UNCHANGED <<ids, log, reissues, now, ordinary>>

RevokeToken(i) ==
  LET t == tokens[i] IN
  /\ t.state = "active"
  /\ tokens' = SetState({i}, "revoked")
  /\ ids' = IF t.boot /\ ids[t.prov] # NoId THEN [ids EXCEPT ![t.prov].revoked = TRUE] ELSE ids
  /\ UNCHANGED <<log, reissues, now, ordinary>>

RevokeBootstrapIdentity(p) ==
  /\ ids[p] # NoId
  /\ ids' = [ids EXCEPT ![p].revoked = TRUE]
  /\ tokens' = SetState(Rows(LAMBDA t : t.prov = p /\ t.boot), "revoked")
  /\ UNCHANGED <<log, reissues, now, ordinary>>

Tick == now < MaxTime /\ now' = now + 1 /\ reissues' = {} /\ UNCHANGED <<tokens, ids, log, ordinary>>

Next ==
  \/ \E p \in Providers :
       IssueToken(p) \/ MintProviderTokenAppTrack(p) \/ RevokeUnusedTokenForProvider(p)
       \/ RevokeBootstrapIdentity(p) \/ \E k \in Keys : MintBootstrapToken(p, k)
  \/ \E i \in DOMAIN tokens : ValidateToken(i) \/ ConfirmToken(i) \/ RevokeToken(i)
  \/ \E cut \in 1 .. MaxTime : cut <= now /\ PruneUnusedTokens(cut)
  \/ Tick
-----------------------------------------------------------------------------
Live(t) == t.boot /\ t.state = "active" /\ (t.used \/ t.exp > now)

TypeOK ==
  /\ \A i \in DOMAIN tokens : /\ tokens[i].prov \in Providers
                              /\ tokens[i].state \in {"active", "revoked", "gone"}
  /\ \A p \in Providers : ids[p].key \in Keys \union {"none"} /\ (ids[p].key = "none" => ids[p] = NoId)

(***************************************************************************)
(* A bootstrap token that can still be used belongs to a binding, to the   *)
(* key it was minted for, that the collections of later mints by others    *)
(* have not taken: otherwise its confirmation fails ("bootstrap identity   *)
(* missing") or another key owns the provider of a live token.             *)
(***************************************************************************)
LiveTokenIsBound ==
  \A i \in DOMAIN tokens : Live(tokens[i]) =>
    /\ ids[tokens[i].prov].key = tokens[i].key
    /\ tokens[i].used => ids[tokens[i].prov].confirmed

(***************************************************************************)
(* Unused live tokens never exceed their cap, though a replacement skips   *)
(* the check (MintBootstrapToken, the !activeExists branch).               *)
(***************************************************************************)
OutstandingIsCapped ==
  Cardinality({i \in DOMAIN tokens : Live(tokens[i]) /\ ~tokens[i].used}) <= OutstandingMax

(***************************************************************************)
(* A provider that ever was an operator's, or whose binding was confirmed  *)
(* or revoked, obtains no further bootstrap token: no prune, collection or *)
(* revocation opens the unauthenticated path to it again.                  *)
(***************************************************************************)
CustodyIsFinalStep ==
     \A p \in Providers :
       p \in ordinary \/ ids[p].confirmed \/ ids[p].revoked
         => ~ \E i \in DOMAIN tokens' \ DOMAIN tokens : tokens'[i].prov = p /\ tokens'[i].boot

-----------------------------------------------------------------------------
(***************************************************************************)
(* How a person comes to own a provider: the OAuth state of a login, the   *)
(* portal session it ends in, the one-time pairing code the installer      *)
(* prints, and the claim that joins them (ws/auth_github.go,               *)
(* auth/tokens.go).  A claim is two transactions of one HTTP handler, the  *)
(* second of which also tells the connected provider.                      *)
(***************************************************************************)

CONSTANTS Handlers, Users, PairProviders, StateMax,
          MaxOTs, MaxSessions

VARIABLES states,    \* oauth_states: the pairing code carried along
          sess,      \* mp_sessions
          ots,       \* pair_ots
          owner,     \* provider_ownership
          pc, ctx,   \* the claims in flight
          claims     \* history: codes and the sessions they were claimed by

pairVars == <<states, sess, ots, owner, pc, ctx, claims>>

PairInit ==
  /\ states = {} /\ sess = <<>> /\ ots = <<>>
  /\ owner = [p \in PairProviders |-> "none"]
  /\ pc = [h \in Handlers |-> "idle"]
  /\ ctx = [h \in Handlers |-> [s |-> 0, ot |-> 0]]
  /\ claims = {}

\* handleGitHubStart and CreateOAuthStateBound, from one origin; o = 0: no code.
GitHubStart(o) ==
  /\ Cardinality(states) < StateMax
  /\ states' = states \union {[ot |-> o]}
  /\ UNCHANGED <<sess, ots, owner, pc, ctx, claims>>

\* handleGitHubCallback: the state is spent whether or not GitHub then answers.
GitHubCallback(x, u) ==
  /\ states' = states \ {x}
  /\ sess' \in {sess, Append(sess, [user |-> u, live |-> TRUE,
                                    ot |-> x.ot])}
  /\ Len(sess') <= MaxSessions
  /\ UNCHANGED <<ots, owner, pc, ctx, claims>>

NewOT(p) == Append(ots, [prov |-> p, spent |-> FALSE])

\* mintAdmissionTokenAndPairOT, the pairing part: nothing for an owned provider.
MintAdmissionPairOT(p) ==
  /\ owner[p] = "none" /\ Len(ots) < MaxOTs
  /\ ots' = NewOT(p)
  /\ UNCHANGED <<states, sess, owner, pc, ctx, claims>>

\* handleInstallPairRefresh and MintPairOTRefresh; one over the hourly limit is
\* refused and changes nothing.
MintPairOTRefresh(p) ==
  /\ Len(ots) < MaxOTs
  /\ ots' = NewOT(p)
  /\ UNCHANGED <<states, sess, owner, pc, ctx, claims>>

\* The thirty days of an idle session end as its logout does: the row counts no more.
Valid(s) == sess[s].live

\* authenticateMPSession of a claim; o is the code of its body, 0 for none.
AuthenticateMPSession(h, s, o) ==
  /\ pc[h] = "idle" /\ Valid(s)
  /\ ctx' = [ctx EXCEPT ![h] = [s |-> s, ot |-> o]]
  /\ pc' = [pc EXCEPT ![h] = IF o = 0 THEN "pending" ELSE "bind"]
  /\ UNCHANGED <<states, sess, ots, owner, claims>>

Done(h) == pc' = [pc EXCEPT ![h] = "idle"] /\ ctx' = [ctx EXCEPT ![h] = [s |-> 0, ot |-> 0]]

\* ConsumePendingPairOT, a transaction of its own.
ConsumePendingPairOT(h) ==
  LET s == ctx[h].s IN
  /\ pc[h] = "pending"
  /\ IF sess[s].live /\ sess[s].ot # 0
     THEN /\ ctx' = [ctx EXCEPT ![h].ot = sess[s].ot]
          /\ sess' = [sess EXCEPT ![s].ot = 0]
          /\ pc' = [pc EXCEPT ![h] = "bind"]
     ELSE Done(h) /\ UNCHANGED sess
  /\ UNCHANGED <<states, ots, owner, claims>>

Usable(o) == ~ots[o].spent   \* unused, and within its ten minutes

\* BindPairOT: the code, the session, the ownership and the provider's message
\* before the commit; a code that is somebody else's provider's is spent.
BindPairOT(h) ==
  LET o == ctx[h].ot  s == ctx[h].s  p == ots[o].prov  u == sess[s].user IN
  /\ pc[h] = "bind"
  /\ \/ \* refused, or the message or the commit fails: rolled back
        /\ UNCHANGED <<ots, owner, claims>>
     \/ /\ Usable(o) /\ Valid(s)
        /\ ots' = [ots EXCEPT ![o].spent = TRUE]
        /\ IF owner[p] \notin {"none", u}
           THEN UNCHANGED <<owner, claims>>
           ELSE /\ owner' = [owner EXCEPT ![p] = u]
                              /\ claims' = claims \union {<<o, s, sess[s].live>>}
  /\ Done(h)
  /\ UNCHANGED <<states, sess>>

Logout(s) ==
  /\ sess[s].live /\ sess' = [sess EXCEPT ![s].live = FALSE, ![s].ot = 0]
  /\ UNCHANGED <<states, ots, owner, pc, ctx, claims>>

\* The ten minutes of a code, of a state and of the code a session carries;
\* PruneGitHubAuthState deletes only what has lapsed.
PairOTLapses(o) ==
  /\ ots' = [ots EXCEPT ![o].spent = TRUE]
  /\ UNCHANGED <<states, sess, owner, pc, ctx, claims>>

OAuthStateLapses(x) ==
  /\ states' = states \ {x}
  /\ UNCHANGED <<sess, ots, owner, pc, ctx, claims>>

PendingLapses(s) ==
  /\ sess' = [sess EXCEPT ![s].ot = 0]
  /\ UNCHANGED <<states, ots, owner, pc, ctx, claims>>

PairNext ==
  \/ \E o \in 0 .. Len(ots) : GitHubStart(o)
  \/ \E x \in states, u \in Users : GitHubCallback(x, u)
  \/ \E p \in PairProviders : MintAdmissionPairOT(p) \/ MintPairOTRefresh(p)
  \/ \E h \in Handlers :
       \/ \E s \in DOMAIN sess, o \in 0 .. Len(ots) : AuthenticateMPSession(h, s, o)
       \/ ConsumePendingPairOT(h) \/ BindPairOT(h)
  \/ \E s \in DOMAIN sess : Logout(s) \/ PendingLapses(s)
  \/ \E o \in DOMAIN ots : PairOTLapses(o)
  \/ \E x \in states : OAuthStateLapses(x)
-----------------------------------------------------------------------------
PairTypeOK ==
  /\ owner \in [PairProviders -> Users \union {"none"}]
  /\ pc \in [Handlers -> {"idle", "pending", "bind"}]
  /\ \A h \in Handlers : pc[h] = "bind" => ctx[h].ot \in DOMAIN ots /\ ctx[h].s \in DOMAIN sess

(***************************************************************************)
(* A pairing code makes one claim, of two handlers that both read it as    *)
(* unused (BindPairOT takes it and records the owner in one transaction).  *)
(***************************************************************************)
OneClaimPerCode == \A a, b \in claims : a[1] = b[1] => a = b

(***************************************************************************)
(* No claim succeeds in the name of a session that was logged out or       *)
(* pruned between the handler's authentication and its transaction.        *)
(***************************************************************************)
ClaimsBySessions == \A c \in claims : c[3]
=============================================================================
