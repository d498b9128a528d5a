-------------------------- MODULE AppTrackRegister --------------------------
(***************************************************************************)
(* App-track registration (phase4-coordinator/internal/onboarding/         *)
(* apptrack.go, store_pg.go; auth/apptrack_referral_mints.go, tokens.go).  *)
(* A registration writes two databases that share no transaction: the      *)
(* token, the redemption and a pending row in SQLite, then the identity,   *)
(* the nonce and the attempt in PostgreSQL.  A crash between the two is    *)
(* made good by a reconciler.  One provider, its signed attempts, the      *)
(* handlers that serve them and the reconciler are modelled.               *)
(***************************************************************************)
EXTENDS Naturals, FiniteSets

CONSTANTS Attempts,   \* signed attempts: a (nonce, ts_utc) pair each
          Cand,       \* attempt -> the token candidate the client holds
          Fresh,      \* tokens the coordinator may generate
          Handlers,   \* requests in service
          MaxFaults   \* bound: failed database calls and coordinator crashes

VARIABLES tok,       \* provider_tokens: token -> none/active/revoked
          red,       \* the provider's referral redemption exists
          pend,      \* apptrack_pending_referral_mints: the provider's row,
                     \* with last_used_at of its token
          prepared,  \* provider_register_attempts
          nonces,    \* provider_register_nonces inside the replay window
          ident,     \* provider_identities holds the provider
          cooling,   \* a reissue of the last five minutes
          h,         \* handler -> [pc, a, t]
          rec,       \* the reconciler: idle, or the answer it read
          told,      \* tokens disclosed by a success answer
          faults

vars == <<tok, red, pend, prepared, nonces, ident, cooling, h, rec,
          told, faults>>
sqlite == <<tok, red, pend, cooling>>
postgres == <<prepared, nonces, ident>>

Tokens == {Cand[a] : a \in Attempts} \union Fresh
NoToken == "-"
NoRow == [t |-> NoToken, created |-> FALSE, old |-> FALSE, used |-> FALSE]
Idle == [pc |-> "idle", a |-> 0, t |-> NoToken]

\* The attempt of an earlier registration, whose token was revoked since.
Earlier == 0

\* The provider is new, or registered before.
Init ==
  /\ tok = [t \in Tokens |-> "none"]
  /\ red \in BOOLEAN /\ pend = NoRow /\ cooling = FALSE
  /\ prepared = (IF red THEN {Earlier} ELSE {}) /\ nonces = {} /\ ident = red
  /\ h = [i \in Handlers |-> Idle] /\ rec = "idle" /\ told = {}
  /\ faults = 0

Active == {t \in Tokens : tok[t] = "active"}

Goto(i, pc) == h' = [h EXCEPT ![i].pc = pc]
Answer(i) == h' = [h EXCEPT ![i] = Idle]
Disclose(i, t) == told' = told \union {t} /\ Answer(i)
Fault == faults < MaxFaults /\ faults' = faults + 1
NoFault == UNCHANGED faults

----------------------------------------------------------------------------
(* The handler.                                                            *)

\* HandleAppTrackRegister up to the database: a request that decodes, whose
\* provider id is that of its key and whose signature holds.  An old one can
\* only be a retry; another one passes the rate limits, and either carries
\* the active bearer or is gated by a referral.
Begin(i, a) ==
  /\ h[i] = Idle
  /\ \/ \E pc \in {"skewed", "check"} :
          h' = [h EXCEPT ![i] = [pc |-> pc, a |-> a, t |-> Cand[a]]]
     \/ \E b \in Active :
          h' = [h EXCEPT ![i] = [pc |-> "nonce", a |-> a, t |-> b]]
  /\ UNCHANGED <<sqlite, postgres, rec, told, faults>>

\* An old attempt is answered only if it was committed with an active token;
\* the two databases are read one after the other.
CommittedRetry(i) ==
  /\ \/ /\ h[i].pc = "skewed"
        /\ \/ tok[h[i].t] = "active" /\ Goto(i, "skewed2")
           \/ tok[h[i].t] # "active" /\ Answer(i)
        /\ UNCHANGED told
     \/ /\ h[i].pc = "skewed2"
        /\ \/ h[i].a \in prepared /\ Disclose(i, h[i].t)
           \/ h[i].a \notin prepared /\ Answer(i) /\ UNCHANGED told
  /\ UNCHANGED <<sqlite, postgres, rec, faults>>

\* The gate: a committed attempt is answered with its own candidate.
CheckCommitted(i) ==
  /\ \/ h[i].pc = "check" /\ Goto(i, IF h[i].a \in prepared THEN "same"
                                     ELSE "mint")
        /\ UNCHANGED told
     \/ /\ h[i].pc = "same"
        /\ \/ tok[h[i].t] = "active" /\ Disclose(i, h[i].t)
           \/ tok[h[i].t] # "active" /\ Answer(i) /\ UNCHANGED told
  /\ UNCHANGED <<sqlite, postgres, rec, faults>>

\* MintProviderTokenAppTrackWithReferralAttempt, one SQLite transaction; its
\* pending row is keyed by the provider, a token's hash is unique.
MintWithReferral(i) ==
  /\ h[i].pc = "mint"
  /\ \/ /\ Active = {} /\ tok[h[i].t] = "none" /\ pend = NoRow
        /\ tok' = [tok EXCEPT ![h[i].t] = "active"]
        /\ red' = TRUE
        /\ pend' = [t |-> h[i].t, created |-> ~red, old |-> FALSE,
                   used |-> FALSE]
        /\ Goto(i, "prepare")
     \/ Answer(i) /\ UNCHANGED <<tok, red, pend>>
  /\ UNCHANGED <<cooling, postgres, rec, told, faults>>

\* PrepareProviderRegistration, one PostgreSQL transaction.  A failed call
\* may or may not have committed.
PrepareRegistration(i) ==
  /\ h[i].pc = "prepare"
  /\ \/ /\ h[i].a \notin nonces
        /\ prepared' = prepared \union {h[i].a}
        /\ nonces' = nonces \union {h[i].a} /\ ident' = TRUE
        /\ \/ Goto(i, "ack") /\ NoFault
           \/ Goto(i, "outcome") /\ Fault
     \/ /\ UNCHANGED postgres /\ Goto(i, "outcome")
        /\ \/ h[i].a \in nonces /\ NoFault
           \/ Fault
  /\ UNCHANGED <<sqlite, rec, told>>

\* What became of the prepare; unknown is left to the reconciler.
PrepareOutcome(i) ==
  /\ h[i].pc = "outcome"
  /\ \/ Goto(i, IF h[i].a \in prepared THEN "ack" ELSE "rollback") /\ NoFault
     \/ Answer(i) /\ Fault
  /\ UNCHANGED <<sqlite, postgres, rec, told>>

(* Mutant: the redemption is deleted whether or not this mint created it.  *)
ResolveAll(t, done) ==
  /\ pend # NoRow /\ pend.t = t
  /\ IF done THEN UNCHANGED <<tok, red>>
     ELSE /\ tok[t] = "active" /\ ~pend.used
          /\ tok' = [tok EXCEPT ![t] = "none"]
          /\ red' = FALSE
  /\ pend' = NoRow
  /\ UNCHANGED cooling

\* resolvePendingAppTrackReferralMint, one transaction: the pending row goes,
\* and, if the registration was not prepared, the unused token and the
\* redemption this mint created.
Resolve(t, done) ==
  /\ pend # NoRow /\ pend.t = t
  /\ IF done THEN UNCHANGED <<tok, red>>
     ELSE /\ tok[t] = "active" /\ ~pend.used
          /\ tok' = [tok EXCEPT ![t] = "none"]
          /\ red' = (red /\ ~pend.created)
  /\ pend' = NoRow
  /\ UNCHANGED cooling

Rollback(i) ==
  /\ h[i].pc = "rollback"
  /\ \/ Resolve(h[i].t, FALSE) /\ NoFault
     \/ ~ENABLED Resolve(h[i].t, FALSE) /\ UNCHANGED sqlite /\ NoFault
     \/ UNCHANGED sqlite /\ Fault
  /\ Answer(i)
  /\ UNCHANGED <<postgres, rec, told>>

\* AcknowledgeAppTrackReferralMint; a failure is left to the reconciler.
Acknowledge(i) ==
  /\ h[i].pc = "ack"
  /\ \/ pend' = (IF pend.t = h[i].t THEN NoRow ELSE pend) /\ NoFault
     \/ UNCHANGED pend /\ Fault
  /\ Goto(i, "active")
  /\ UNCHANGED <<tok, red, cooling, postgres, rec, told>>

\* appTrackTokenStillActive, and the answer.
StillActive(i) ==
  /\ h[i].pc = "active"
  /\ \/ tok[h[i].t] = "active" /\ Disclose(i, h[i].t)
     \/ tok[h[i].t] # "active" /\ Answer(i) /\ UNCHANGED told
  /\ UNCHANGED <<sqlite, postgres, rec, faults>>

\* The bearer's path: the nonce, then the identity.
InsertNonce(i) ==
  /\ h[i].pc = "nonce"
  /\ \/ /\ h[i].a \notin nonces
        /\ nonces' = nonces \union {h[i].a} /\ Goto(i, "upsert")
     \/ h[i].a \in nonces /\ Answer(i) /\ UNCHANGED nonces
  /\ UNCHANGED <<sqlite, prepared, ident, rec, told, faults>>

UpsertIdentity(i) ==
  /\ h[i].pc = "upsert"
  /\ ident' = TRUE /\ Goto(i, "reissue")
  /\ UNCHANGED <<sqlite, prepared, nonces, rec, told, faults>>

\* MintProviderTokenAppTrack: the bearer's token is replaced, unless it is no
\* longer the active one or was reissued a moment ago.  With no active token
\* left the reissue needs no proof.
MintAppTrack(i) ==
  /\ h[i].pc = "reissue"
  /\ \/ /\ IF Active = {} THEN UNCHANGED cooling
           ELSE h[i].t \in Active /\ ~cooling /\ cooling' = TRUE
        /\ \E t \in Fresh :
             /\ tok[t] = "none"
             /\ tok' = [u \in Tokens |-> IF u = t THEN "active"
                                         ELSE IF u \in Active THEN "revoked"
                                         ELSE tok[u]]
             /\ Disclose(i, t)
     \/ /\ Active # {} /\ (h[i].t \notin Active \/ cooling)
        /\ Answer(i) /\ UNCHANGED <<tok, cooling, told>>
  /\ UNCHANGED <<red, pend, postgres, rec, faults>>

----------------------------------------------------------------------------
(* The reconciler and the rest of the world.                               *)

InService(t) == \E i \in Handlers :
  h[i].t = t /\ h[i].pc \in {"prepare", "outcome", "rollback", "ack"}

\* Two minutes pass; every call of a handler is bounded by two seconds.
Ages ==
  /\ pend # NoRow /\ ~pend.old /\ ~InService(pend.t)
  /\ pend' = [pend EXCEPT !.old = TRUE]
  /\ UNCHANGED <<tok, red, cooling, postgres, h, rec, told, faults>>

\* ReconcilePendingAppTrackReferralMints reads whether the attempt of an old
\* row was prepared, then resolves the row.
ListPending ==
  /\ rec = "idle" /\ pend.old
  /\ rec' = IF \E a \in Attempts : a \in prepared /\ Cand[a] = pend.t THEN "done" ELSE "undone"
  /\ UNCHANGED <<sqlite, postgres, h, told, faults>>

ResolvePending ==
  /\ rec # "idle"
  /\ \/ Resolve(pend.t, rec = "done")
     \/ ~ENABLED Resolve(pend.t, rec = "done") /\ UNCHANGED sqlite
  /\ rec' = "idle"
  /\ UNCHANGED <<postgres, h, told, faults>>

\* The provider connects with its token, which the client holds from the
\* start; an operator revokes it.
Connect(t) ==
  /\ tok[t] = "active"
  /\ pend' = [pend EXCEPT !.used = @ \/ pend.t = t]
  /\ UNCHANGED <<tok, red, cooling, postgres, h, rec, told, faults>>

RevokeToken(t) ==
  /\ tok[t] = "active" /\ tok' = [tok EXCEPT ![t] = "revoked"]
  /\ UNCHANGED <<red, pend, cooling, postgres, h, rec, told, faults>>

\* The replay window (65 s) and the reissue cooldown (5 min) pass.
WindowPasses ==
  /\ nonces # {} \/ cooling
  /\ nonces' = {} /\ cooling' = FALSE
  /\ UNCHANGED <<tok, red, pend, prepared, ident, h, rec, told, faults>>

Crash ==
  /\ Fault
  /\ h' = [i \in Handlers |-> Idle] /\ rec' = "idle"
  /\ UNCHANGED <<sqlite, postgres, told>>

Step(i) ==
  \/ CommittedRetry(i) \/ CheckCommitted(i)
  \/ MintWithReferral(i) \/ PrepareRegistration(i) \/ PrepareOutcome(i)
  \/ Rollback(i) \/ Acknowledge(i) \/ StillActive(i)
  \/ InsertNonce(i) \/ UpsertIdentity(i) \/ MintAppTrack(i)

Next ==
  \/ \E i \in Handlers : Step(i) \/ \E a \in Attempts : Begin(i, a)
  \/ Ages \/ ListPending \/ ResolvePending
  \/ \E t \in Tokens : Connect(t) \/ RevokeToken(t)
  \/ WindowPasses \/ Crash

\* Handlers run to their end, the clock and the reconciler's ticker go on.
Fair ==
  /\ \A i \in Handlers : WF_vars(Step(i))
  /\ WF_vars(Ages) /\ WF_vars(ListPending) /\ WF_vars(ResolvePending)

----------------------------------------------------------------------------
TypeOK ==
  /\ tok \in [Tokens -> {"none", "active", "revoked"}]
  /\ told \subseteq Tokens
  /\ pend.t \in Tokens \union {NoToken}
  /\ prepared \subseteq Attempts \union {Earlier} /\ nonces \subseteq Attempts

(* A token the provider was told of is never taken back by a rollback, of  *)
(* a handler or of the reconciler: from then on it can only be revoked,    *)
(* and the identity stands in PostgreSQL.                                  *)
DisclosedIsKept ==
  \A t \in told : tok[t] # "none" /\ ident

(* A referral seat is held only by a registration that was prepared, or by *)
(* one whose pending row still says that its outcome is open; and a        *)
(* prepared registration has not lost its seat.                            *)
SeatIsAccounted ==
  /\ red => prepared # {} \/ pend.created
  /\ prepared # {} => red

(* A pending row is resolved, whatever call failed and wherever the        *)
(* coordinator crashed, unless its token was used or revoked meanwhile.    *)
PendingResolvesFrom == pend # NoRow
PendingResolvesTo == pend = NoRow \/ pend.used \/ tok[pend.t] = "revoked"
=============================================================================
