----------------------------- MODULE Referrals ------------------------------
(***************************************************************************)
(* Referrals, in two parts that share no state: the issuer and bonus a     *)
(* serving provider earns, and the seed codes with their redemptions       *)
(* (prefix seed).                                                          *)
(***************************************************************************)
EXTENDS Integers, FiniteSets, FiniteSetsExt

-----------------------------------------------------------------------------
(***************************************************************************)
(* The referral issuer a serving provider earns and the bonus it earns for *)
(* a public post that still stands after a dwell time                      *)
(* (auth/referrals_social.go): qualification by evidence that arrives in   *)
(* any order, the challenge, the submission, and the rechecks that workers *)
(* claim under a lease, carry out elsewhere and report in a second         *)
(* transaction.                                                            *)
(***************************************************************************)

CONSTANTS Providers, Posts, Workers, Evidence, MaxClaims, MaxTransient, MaxCrashes

VARIABLES issuer,   \* "none", "live" or "revoked"
          bonus,    \* bonus_capacity, in grants
          qual,     \* evidence_at of the qualification, 0 for none
          ch,       \* the challenge: "none", "open" or "consumed"
          ver,      \* referral_social_verifications
          hist,     \* referral_social_verification_history, the posts
          grants,   \* referral_social_grants
          claim,    \* what each worker believes it holds
          tok, transient, crashes,
          seen      \* history: the evidence presented

vars == <<issuer, bonus, qual, ch, ver, hist, grants, claim, tok, transient, crashes, seen>>

NoVer == [post |-> "none", st |-> "none", lease |-> 0, free |-> TRUE]
NoClaim == [p |-> "none", post |-> "none", tok |-> 0]

Init ==
  /\ issuer = [p \in Providers |-> "none"] /\ bonus = [p \in Providers |-> 0]
  /\ qual = [p \in Providers |-> 0] /\ ch = [p \in Providers |-> "none"]
  /\ ver = [p \in Providers |-> NoVer] /\ hist = {} /\ grants = {}
  /\ claim = [w \in Workers |-> NoClaim] /\ tok = 0 /\ transient = 0 /\ crashes = 0
  /\ seen = [p \in Providers |-> {}]

\* QualifyProviderReferral: the earliest evidence stands, whatever the order.
QualifyProviderReferral(p, e) ==
  /\ qual' = [qual EXCEPT ![p] = IF @ = 0 \/ e < @ THEN e ELSE @]
  /\ issuer' = [issuer EXCEPT ![p] = IF @ = "none" THEN "live" ELSE @]
  /\ seen' = [seen EXCEPT ![p] = @ \union {e}]
  /\ UNCHANGED <<bonus, ch, ver, hist, grants, claim, tok, transient, crashes>>

\* CreateSocialChallenge: a failed verification is archived first.
CreateSocialChallenge(p) ==
  /\ issuer[p] = "live" /\ ver[p].st \in {"none", "failed"}
  /\ hist' = IF ver[p].st = "failed" THEN hist \union {ver[p].post} ELSE hist
  /\ ver' = [ver EXCEPT ![p] = NoVer]
  /\ ch' = [ch EXCEPT ![p] = "open"]
  /\ UNCHANGED <<issuer, bonus, qual, grants, claim, tok, transient, crashes, seen>>

ChallengeExpires(p) ==
  /\ ch[p] = "open" /\ ch' = [ch EXCEPT ![p] = "none"]
  /\ UNCHANGED <<issuer, bonus, qual, ver, hist, grants, claim, tok, transient, crashes, seen>>

\* CompleteSocialVerification of a first submission; a repetition of it changes
\* nothing.  post_id is UNIQUE among the verifications.
CompleteSocialVerification(p, post) ==
  /\ ch[p] = "open" /\ issuer[p] = "live" /\ ver[p] = NoVer
  /\ post \notin hist /\ \A q \in Providers : ver[q].post # post
  /\ ver' = [ver EXCEPT ![p] = [post |-> post, st |-> "pending", lease |-> 0, free |-> TRUE]]
  /\ ch' = [ch EXCEPT ![p] = "consumed"]
  /\ UNCHANGED <<issuer, bonus, qual, hist, grants, claim, tok, transient, crashes, seen>>

\* FailSocialVerification: the challenge is spent on a post that does not verify.
FailSocialVerification(p) ==
  /\ ch[p] = "open" /\ issuer[p] = "live"
  /\ ch' = [ch EXCEPT ![p] = "consumed"]
  /\ UNCHANGED <<issuer, bonus, qual, ver, hist, grants, claim, tok, transient, crashes, seen>>

\* claimSocialRecheck, after the dwell time: no lease, or one that ran out.
ClaimSocialRecheck(w, p) ==
  /\ claim[w] = NoClaim /\ tok < MaxClaims
  /\ ver[p].st = "pending" /\ ver[p].free /\ issuer[p] = "live"
  /\ tok' = tok + 1
  /\ ver' = [ver EXCEPT ![p].lease = tok + 1, ![p].free = FALSE]
  /\ claim' = [claim EXCEPT ![w] = [p |-> p, post |-> ver[p].post, tok |-> tok + 1]]
  /\ UNCHANGED <<issuer, bonus, qual, ch, hist, grants, transient, crashes, seen>>

LeaseRunsOut(p) ==
  /\ ~ver[p].free /\ ver' = [ver EXCEPT ![p].free = TRUE]
  /\ UNCHANGED <<issuer, bonus, qual, ch, hist, grants, claim, tok, transient, crashes, seen>>

WorkerCrashes(w) ==
  /\ claim[w] # NoClaim /\ crashes < MaxCrashes /\ crashes' = crashes + 1
  /\ claim' = [claim EXCEPT ![w] = NoClaim]
  /\ UNCHANGED <<issuer, bonus, qual, ch, ver, hist, grants, tok, transient, seen>>

\* The row is pending under the token of this claim, which stays in the row after
\* lease_until has passed, until the next claim.
Holds(c) == ver[c.p].st = "pending" /\ ver[c.p].lease = c.tok

(* Mutant: the issuer is looked at when the recheck is claimed only.       *)
GrantToRevoked(w, c) ==
  /\ grants' = grants \union {<<c.p, c.post>>}
  /\ bonus' = [bonus EXCEPT ![c.p] = @ + 1]
  /\ ver' = [ver EXCEPT ![c.p].st = "granted", ![c.p].lease = 0, ![c.p].free = TRUE]

\* finishSocialRecheck of a post that stands: the grant, the capacity and the
\* verification in one transaction, nothing if any of them no longer fits.
Grant(w, c) ==
  IF Holds(c) /\ issuer[c.p] = "live" /\ ~ \E g \in grants : g[1] = c.p
  THEN /\ grants' = grants \union {<<c.p, c.post>>}
       /\ bonus' = [bonus EXCEPT ![c.p] = @ + 1]
       /\ ver' = [ver EXCEPT ![c.p].st = "granted", ![c.p].lease = 0, ![c.p].free = TRUE]
  ELSE UNCHANGED <<grants, bonus, ver>>

FinishSocialRecheck(w) ==
  LET c == claim[w] IN
  /\ c # NoClaim
  /\ \/ Grant(w, c) /\ UNCHANGED transient
     \/ /\ ver' = IF Holds(c) THEN [ver EXCEPT ![c.p].st = "failed", ![c.p].lease = 0, ![c.p].free = TRUE] ELSE ver
        /\ UNCHANGED <<grants, bonus, transient>>
     \/ /\ transient < MaxTransient /\ transient' = transient + 1
        /\ ver' = IF Holds(c) THEN [ver EXCEPT ![c.p].lease = 0, ![c.p].free = TRUE] ELSE ver
        /\ UNCHANGED <<grants, bonus>>
  /\ claim' = [claim EXCEPT ![w] = NoClaim]
  /\ UNCHANGED <<issuer, qual, ch, hist, tok, crashes, seen>>

\* RevokeReferralIssuerAudited of a provider's issuer.
RevokeIssuer(p) ==
  /\ issuer[p] = "live" /\ issuer' = [issuer EXCEPT ![p] = "revoked"]
  /\ UNCHANGED <<bonus, qual, ch, ver, hist, grants, claim, tok, transient, crashes, seen>>

Next ==
  \/ \E p \in Providers :
       \/ \E e \in Evidence : QualifyProviderReferral(p, e)
       \/ CreateSocialChallenge(p) \/ ChallengeExpires(p) \/ FailSocialVerification(p)
       \/ \E post \in Posts : CompleteSocialVerification(p, post)
       \/ LeaseRunsOut(p) \/ RevokeIssuer(p)
  \/ \E w \in Workers :
       \/ \E p \in Providers : ClaimSocialRecheck(w, p)
       \/ WorkerCrashes(w) \/ FinishSocialRecheck(w)
-----------------------------------------------------------------------------
TypeOK ==
  /\ issuer \in [Providers -> {"none", "live", "revoked"}]
  /\ \A p \in Providers : /\ ver[p].st \in {"none", "pending", "granted", "failed"}
                          /\ (ver[p].post = "none") = (ver[p].st = "none")
                          /\ qual[p] = 0 <=> issuer[p] = "none"

(***************************************************************************)
(* A post is used once: by one provider, and not again by the provider     *)
(* whose verification of it failed and was archived.                       *)
(***************************************************************************)
PostIsUsedOnce ==
  /\ \A p, q \in Providers : ver[p].post # "none" /\ ver[p].post = ver[q].post => p = q
  /\ \A p \in Providers : ver[p].post \notin hist

(***************************************************************************)
(* The grant is for the post that stands verified: the report of a worker  *)
(* that lost its lease grants nothing for a post another worker has since  *)
(* rejected.                                                               *)
(***************************************************************************)
GrantsMatchVerifications == \A g \in grants : ver[g[1]].post = g[2]

(***************************************************************************)
(* The qualification is by the earliest evidence, in whatever order the    *)
(* evidence is presented.                                                  *)
(***************************************************************************)
EarliestEvidence == \A p \in Providers : seen[p] # {} => qual[p] = Min(seen[p])

(***************************************************************************)
(* A revoked issuer earns nothing, though the revocation falls between the *)
(* claim of a recheck and its report.                                      *)
(***************************************************************************)
RevokedEarnsNothingStep ==
     \A p \in Providers : issuer[p] = "revoked" => bonus'[p] = bonus[p]

-----------------------------------------------------------------------------
(***************************************************************************)
(* Seed referral codes and their redemptions                               *)
(* (phase4-coordinator/internal/auth/referrals_core.go and                 *)
(* referrals_admin.go).  An operator dry-runs a change and is given a      *)
(* digest of the state it was computed from, then applies it under an      *)
(* operation id.  The answer may be lost, so the same operation may be     *)
(* applied again, and other operators and redeeming providers run between  *)
(* the dry-run and the apply.  Every apply is one transaction.             *)
(***************************************************************************)

CONSTANTS Seeds,      \* seed ids
          SeedProviders,  \* providers that redeem a code
          Ops,        \* operation ids
          Caps,       \* capacities an operator may ask for
          MaxPlans    \* bound: dry-runs in all

VARIABLES iss,     \* referral_issuers: seed -> [st, cap]
          lapsed,  \* seeds whose expires_at is past
          red,     \* referral_redemptions: provider -> seed
          audit,   \* referral_admin_audit: operation id -> request applied
          plan,    \* operation id -> the request its operator holds
          plans,   \* dry-runs so far
          applied  \* history: the number of changes made under each id

seedVars == <<iss, lapsed, red, audit, plan, plans, applied>>

None == "none"
NoRequest == [act |-> "none"]
Absent == [st |-> "absent", cap |-> 0]
Live(cap) == [st |-> "live", cap |-> cap]

\* A request names its action, its seed, its argument (a capacity, or the
\* successor seed and its capacity) and the digest of the dry-run.
Kinds == {"create", "adjust", "revoke", "replace"}

SeedInit ==
  /\ iss = [s \in Seeds |-> Absent]
  /\ lapsed = {}
  /\ red = [p \in SeedProviders |-> None]
  /\ audit = [o \in Ops |-> NoRequest] /\ plan = [o \in Ops |-> NoRequest]
  /\ plans = 0
  /\ applied = [o \in Ops |-> 0]

Redeemed(s) == Cardinality({p \in SeedProviders : red[p] = s})

\* The issuer row and its redemption count: what the digest is taken of.
AdminState(s) == [row |-> iss[s], redeemed |-> Redeemed(s)]

----------------------------------------------------------------------------
(* Redemption.                                                             *)

ValidateReferral(s) ==
  /\ iss[s].st = "live" /\ s \notin lapsed
  /\ iss[s].cap > Redeemed(s)

\* A second presentation of the provider's own code is answered as before.
RedeemReferral(p, s) ==
  /\ red[p] = None
  /\ ValidateReferral(s)
  /\ red' = [red EXCEPT ![p] = s]
  /\ UNCHANGED <<iss, lapsed, audit, plan, plans, applied>>

\* The App-track saga takes back the redemption of a registration that was
\* not prepared.
RedemptionUndone(p) ==
  /\ red[p] # None
  /\ red' = [red EXCEPT ![p] = None]
  /\ UNCHANGED <<iss, lapsed, audit, plan, plans, applied>>

Expires(s) ==
  /\ iss[s].st # "absent" /\ s \notin lapsed
  /\ lapsed' = lapsed \union {s}
  /\ UNCHANGED <<iss, red, audit, plan, plans, applied>>

----------------------------------------------------------------------------
(* Administration.                                                         *)

\* The dry-run of an operation, which changes nothing.  A creation expects
\* the seed's absence and a replacement that of its successor.
DryRun(o) ==
  /\ plans < MaxPlans
  /\ plans' = plans + 1
  /\ \E k \in Kinds, s \in Seeds, t \in Seeds, cap \in Caps :
       /\ k = "create" <=> iss[s].st = "absent"
       /\ k # "create" => iss[s].st = "live"
       /\ k = "replace" <=> t # s
       /\ k = "replace" => iss[t].st = "absent"
       /\ plan' = [plan EXCEPT ![o] =
                     [act |-> k, seed |-> s, next |-> t, cap |-> cap,
                      expected |-> AdminState(s)]]
  /\ UNCHANGED <<iss, lapsed, red, audit, applied>>

CreateSeedReferral(r) ==
  /\ iss[r.seed] = Absent /\ r.cap > 0
  /\ iss' = [iss EXCEPT ![r.seed] = Live(r.cap)]

AdjustSeedReferral(r) ==
  /\ iss[r.seed].st = "live"
  /\ r.expected = AdminState(r.seed)
  /\ r.cap >= Redeemed(r.seed)
  /\ iss' = [iss EXCEPT ![r.seed].cap = r.cap]

SeedRevokeIssuer(r) ==
  /\ iss[r.seed].st = "live"
  /\ r.expected = AdminState(r.seed)
  /\ iss' = [iss EXCEPT ![r.seed].st = "revoked"]

ReplaceSeedReferral(r) ==
  /\ iss[r.seed].st = "live" /\ iss[r.next] = Absent /\ r.cap > 0
  /\ r.expected = AdminState(r.seed)
  /\ iss' = [iss EXCEPT ![r.seed].st = "revoked", ![r.next] = Live(r.cap)]

Change(r) ==
  \/ r.act = "create"  /\ CreateSeedReferral(r)
  \/ r.act = "adjust"  /\ AdjustSeedReferral(r)
  \/ r.act = "revoke"  /\ SeedRevokeIssuer(r)
  \/ r.act = "replace" /\ ReplaceSeedReferral(r)

\* An id that is in the audit: its own request is answered from the audit,
\* another one is refused.  Neither changes anything.
RecoverResult(o) == audit[o] # NoRequest

RecordAudit(o) ==
  /\ audit' = [audit EXCEPT ![o] = plan[o]]
  /\ applied' = [applied EXCEPT ![o] = @ + 1]

Apply(o) ==
  /\ plan[o] # NoRequest
  /\ ~RecoverResult(o)
  /\ Change(plan[o])
  /\ RecordAudit(o)
  /\ UNCHANGED <<lapsed, red, plan, plans>>

SeedNext ==
  \/ \E p \in SeedProviders, s \in Seeds : RedeemReferral(p, s)
  \/ \E p \in SeedProviders : RedemptionUndone(p)
  \/ \E s \in Seeds : Expires(s)
  \/ \E o \in Ops : DryRun(o) \/ Apply(o)

----------------------------------------------------------------------------
(* An operation id stands for one change, the one the audit names, however *)
(* often its operator sends it and whatever request is sent under it:      *)
(* the audit row and the change are of one transaction.                    *)
OneChangePerOperation ==
  \A o \in Ops : applied[o] = IF audit[o] = NoRequest THEN 0 ELSE 1

(* No code is redeemed by more providers than its capacity, which an       *)
(* operator may lower while providers redeem.                              *)
RedemptionsWithinCapacity ==
  \A s \in Seeds : Redeemed(s) <= iss[s].cap

SeedTypeOK ==
  /\ lapsed \subseteq Seeds
  /\ red \in [SeedProviders -> Seeds \union {None}]
  /\ \A s \in Seeds : iss[s].st \in {"absent", "live", "revoked"}
=============================================================================
