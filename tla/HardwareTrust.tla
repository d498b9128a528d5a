--------------------------- MODULE HardwareTrust ----------------------------
(***************************************************************************)
(* Hardware trust, in two parts that share no state: trust roots with the  *)
(* evidence verified against them, and the connected sessions each was     *)
(* admitted on (prefix session).                                           *)
(***************************************************************************)
EXTENDS Integers, Sequences, FiniteSets

-----------------------------------------------------------------------------
(***************************************************************************)
(* The trust roots of one provider's Macs and what is verified against     *)
(* them: evidence jobs (onboarding/hardware_evidence.go), the verifier's   *)
(* transaction (stats/hardwareverify), the operators' grants and           *)
(* revocations under the provider's advisory lock (ws/                     *)
(* admin_hardware_trust.go and the functions of migration 019) and the     *)
(* inventory sync, whose three transactions take no such lock              *)
(* (cmd/stats-inventory-sync).                                             *)
(***************************************************************************)

CONSTANTS Hashes, Operators, MaxJobs, MaxGrants, MaxSyncs

VARIABLES jobs,     \* hardware_verification_jobs, in order of generated_at
          roots,    \* active hardware_verification_trust: <<hash, source>>
          chip,     \* the Macs' chip has a chip_hardware_profiles row
          profile,  \* provider_hardware_profiles
          asked,    \* the open hardware_trust_pending row, by job
          verifier, \* the verifier's transaction
          sync,     \* the inventory sync
          grants, syncs,  \* how many there were
          lapsed    \* since the last demotion pass a root ended other than by a
                    \* revocation, or evidence took over an operator's profile

vars == <<jobs, roots, chip, profile, asked, verifier, sync, grants, syncs, lapsed>>

NoAsk == "nobody"
Idle == [pc |-> "idle", job |-> 0, matched |-> FALSE, chip |-> FALSE, seen |-> {}]
Resting == [pc |-> "idle", roots |-> {}]

Init ==
  /\ jobs = <<>> /\ chip \in BOOLEAN
  /\ \E H \in SUBSET Hashes : roots = H \X {"inventory"} /\ (H # {} => chip)
  /\ profile = [at |-> 0, source |-> "cli_hello", verified |-> FALSE]
  /\ asked = <<>> /\ verifier = Idle /\ sync = Resting
  /\ grants = 0 /\ syncs = 0 /\ lapsed = FALSE

Trusted(h) == \E s \in {"inventory", "operator_api"} : <<h, s>> \in roots
Open(j) == jobs[j].status \in {"pending", "waiting_identity", "waiting_chip"}
LockedJob(j) == verifier.pc # "idle" /\ verifier.job = j
AdvisoryLockFree == verifier.pc # "promoting"

\* Job j was generated at instant 2j; what an inventory row reports lies between jobs.
At(j) == 2 * j

\* InsertHardwareVerificationJob (the same evidence again changes nothing, and
\* an open job refuses any other; the ten minutes of the recent window pass).
\* The Macs share chip and memory, so the profile keeps its verified bit.
InsertJob(h) ==
  /\ Len(jobs) < MaxJobs
  /\ \A j \in DOMAIN jobs : ~Open(j)
  /\ jobs' = Append(jobs, [h |-> h, status |-> "pending", fresh |-> TRUE])
  /\ asked' = Append(asked, NoAsk)
  /\ profile' = IF profile.at <= At(Len(jobs) + 1)
                  THEN [profile EXCEPT !.at = At(Len(jobs) + 1), !.source = "cli_hello"]
                  ELSE profile
  /\ lapsed' = (lapsed \/ profile'.source # profile.source)
  /\ UNCHANGED <<roots, chip, verifier, sync, grants, syncs>>

\* Seven days pass over the evidence of a job.
EvidenceAges(j) ==
  /\ jobs[j].fresh /\ Open(j)
  /\ jobs' = [jobs EXCEPT ![j].fresh = FALSE]
  /\ UNCHANGED <<roots, chip, profile, asked, verifier, sync, grants, syncs, lapsed>>

\* ProcessPending: the batch SELECT locks the job and reads its trust and chip.
SelectJob(j) ==
  /\ verifier.pc = "idle" /\ Open(j)
  /\ verifier' = [pc |-> "selected", job |-> j, matched |-> Trusted(jobs[j].h),
                  chip |-> chip, seen |-> roots]
  /\ UNCHANGED <<jobs, roots, chip, profile, asked, sync, grants, syncs, lapsed>>

Decide(status) ==
  /\ jobs' = [jobs EXCEPT ![verifier.job].status = status]
  /\ verifier' = Idle
  /\ UNCHANGED <<roots, chip, profile, asked, sync, grants, syncs, lapsed>>

\* Evaluate of what the SELECT read, for evidence consistent with its job.
Evaluate ==
  IF ~jobs[verifier.job].fresh THEN "rejected"
  ELSE IF ~verifier.matched THEN "waiting_identity"
  ELSE IF ~verifier.chip THEN "waiting_chip"
  ELSE "verified"

\* waitTrustJob and rejectJob.
WaitOrReject ==
  /\ verifier.pc = "selected" /\ Evaluate # "verified"
  /\ Decide(Evaluate)

(* Mutant: what the batch SELECT read is promoted without a second look.    *)
RecheckTrusting ==
  /\ verifier.pc = "selected" /\ Evaluate = "verified"
  /\ verifier' = [verifier EXCEPT !.pc = "promoting"]
  /\ UNCHANGED <<jobs, roots, chip, profile, asked, sync, grants, syncs, lapsed>>

\* promoteJob up to promotionDecision: the advisory lock, then a fresh read.
Recheck ==
  /\ verifier.pc = "selected" /\ Evaluate = "verified"
  /\ IF Trusted(jobs[verifier.job].h)
       THEN /\ verifier' = [verifier EXCEPT !.pc = "promoting"]
            /\ UNCHANGED <<jobs, roots, chip, profile, asked, sync, grants, syncs, lapsed>>
       ELSE Decide("waiting_identity")

\* pg_try_advisory_xact_lock found an operator's transaction: left for the next pass.
SkipLocked ==
  /\ verifier.pc = "selected" /\ Evaluate = "verified"
  /\ verifier' = Idle
  /\ UNCHANGED <<jobs, roots, chip, profile, asked, sync, grants, syncs, lapsed>>

\* The trigger on the verifier's write judges expiry as of its transaction's
\* start: a root that expired or was revoked since still counts there.
TriggerAllows ==
  /\ chip /\ jobs[verifier.job].fresh
  /\ \E s \in {"inventory", "operator_api"} :
       <<jobs[verifier.job].h, s>> \in roots \union verifier.seen

\* The rest of promoteJob, and the commit.
Promote ==
  /\ verifier.pc = "promoting"
  /\ profile.at <= At(verifier.job) => TriggerAllows
  /\ jobs' = [jobs EXCEPT ![verifier.job].status = "verified"]
  /\ profile' = IF profile.at <= At(verifier.job)
                  THEN [at |-> At(verifier.job), source |-> "cli_hello", verified |-> TRUE]
                  ELSE profile
  /\ verifier' = Idle
  /\ UNCHANGED <<roots, chip, asked, sync, grants, syncs, lapsed>>

\* The trigger's exception ends ProcessPending, which rolls back.
PromotionRefused ==
  /\ verifier.pc = "promoting" /\ profile.at <= At(verifier.job) /\ ~TriggerAllows
  /\ verifier' = Idle
  /\ UNCHANGED <<jobs, roots, chip, profile, asked, sync, grants, syncs, lapsed>>

\* hardwareTrustJobApprovable, and what the two functions ask of the locked job.
Approvable(j) ==
  AdvisoryLockFree /\ ~LockedJob(j) /\ jobs[j].status = "waiting_identity"

\* handleHardwareTrustApproveRequest, request_hardware_trust_approval.
RequestApproval(op, j) ==
  /\ Approvable(j) /\ asked[j] = NoAsk
  /\ asked' = [asked EXCEPT ![j] = op]
  /\ UNCHANGED <<jobs, roots, chip, profile, verifier, sync, grants, syncs, lapsed>>

\* Seven days pass over a request, which a later request then cancels.
RequestExpires(j) ==
  /\ asked[j] \in Operators
  /\ asked' = [asked EXCEPT ![j] = NoAsk]
  /\ UNCHANGED <<jobs, roots, chip, profile, verifier, sync, grants, syncs, lapsed>>

\* handleHardwareTrustApproveApprove, approve_hardware_trust_approval.
ApproveRequest(op, j) ==
  /\ Approvable(j) /\ asked[j] \in Operators \ {op}
  /\ chip /\ jobs[j].fresh /\ grants < MaxGrants
  /\ asked' = [asked EXCEPT ![j] = NoAsk]
  /\ roots' = roots \union {<<jobs[j].h, "operator_api">>}
  /\ grants' = grants + 1
  /\ UNCHANGED <<jobs, chip, profile, verifier, sync, syncs, lapsed>>

\* What applyTrustDemotions and the revocation both prove: the job the profile
\* reports is verified and its root active in R.
Backed(R) ==
  \E j \in DOMAIN jobs :
    /\ At(j) = profile.at /\ jobs[j].status = "verified"
    /\ \E s \in {"inventory", "operator_api"} : <<jobs[j].h, s>> \in R

Demoted(R) ==
  IF profile.source # "operator" /\ ~Backed(R)
    THEN [profile EXCEPT !.verified = FALSE] ELSE profile

\* handleHardwareTrustRevoke, revoke_hardware_trust_approval.
Revoke(h) ==
  /\ AdvisoryLockFree /\ <<h, "operator_api">> \in roots
  /\ roots' = roots \ {<<h, "operator_api">>}
  /\ profile' = Demoted(roots')
  /\ UNCHANGED <<jobs, chip, asked, verifier, sync, grants, syncs, lapsed>>

\* A root's expires_at passes.
RootExpires(h, s) ==
  /\ <<h, s>> \in roots
  /\ roots' = roots \ {<<h, s>>} /\ lapsed' = TRUE
  /\ UNCHANGED <<jobs, chip, profile, asked, verifier, sync, grants, syncs>>

\* run of the sync: loadInventory and validateInventory of what the operator
\* wrote (a trusted identity needs its chip in the same file), then
\* applyInventory; a failure up to its commit ends the run with no change.
ApplyInventory(H, c, listed) ==
  /\ sync.pc = "idle" /\ syncs < MaxSyncs /\ (H # {} \/ listed = "listed" => c)
  /\ sync' = [pc |-> "trust", roots |-> H]
  /\ syncs' = syncs + 1 /\ chip' = c
  /\ profile' =
       CASE listed = "listed" ->
              [at |-> At(Len(jobs)) + 1, source |-> "operator", verified |-> TRUE]
         [] listed = "removed" /\ profile.source = "operator" /\ profile.verified ->
              [profile EXCEPT !.verified = FALSE, !.at = At(Len(jobs)) + 1]
         [] OTHER -> profile
  /\ UNCHANGED <<jobs, roots, asked, verifier, grants, lapsed>>

\* reconcileTrustInventory replaces the roots of its own source, or fails.
ReconcileTrust ==
  /\ sync.pc = "trust"
  /\ roots' \in {roots, {r \in roots : r[2] # "inventory"}
                          \union (sync.roots \X {"inventory"})}
  /\ lapsed' = (lapsed \/ ~(roots \subseteq roots'))
  /\ sync' = [sync EXCEPT !.pc = "demote"]
  /\ verifier' = [verifier EXCEPT !.seen = @ \ (roots \ roots')]
  /\ UNCHANGED <<jobs, chip, profile, asked, grants, syncs>>

\* reconcileTrustDemotions, which always runs; it locks the profiles that are
\* already verified, and a promotion that re-read its root before is still to come.
ReconcileDemotions ==
  /\ sync.pc = "demote" /\ sync' = Resting
  /\ profile' = Demoted(roots)
  /\ lapsed' = (verifier.pc = "promoting" /\ ~Trusted(jobs[verifier.job].h))
  /\ UNCHANGED <<jobs, roots, chip, asked, verifier, grants, syncs>>

Next ==
  \/ \E h \in Hashes : InsertJob(h) \/ Revoke(h)
  \/ \E h \in Hashes, s \in {"inventory", "operator_api"} : RootExpires(h, s)
  \/ \E j \in DOMAIN jobs : EvidenceAges(j) \/ SelectJob(j) \/ RequestExpires(j)
  \/ WaitOrReject \/ Recheck \/ SkipLocked \/ Promote \/ PromotionRefused
  \/ \E op \in Operators, j \in DOMAIN jobs : RequestApproval(op, j) \/ ApproveRequest(op, j)
  \/ \E H \in SUBSET Hashes, c \in BOOLEAN, l \in {"omitted", "listed", "removed"} :
       ApplyInventory(H, c, l)
  \/ ReconcileTrust \/ ReconcileDemotions

-----------------------------------------------------------------------------

\* A provider's profile is verified only while some verified evidence of it
\* has an active root, whatever lapsed since the demotion pass last ran aside:
\* revocation and promotion agree on the order (promoteJob re-reads the
\* root under the lock the revocation takes).
VerifiedIsBacked ==
  profile.verified /\ profile.source # "operator" /\ ~lapsed =>
    \E j \in DOMAIN jobs : jobs[j].status = "verified" /\ Trusted(jobs[j].h)

\* An operator_api root appears only by a grant asked for earlier, on a job
\* still waiting for exactly that root, and the inventory sync, which replaces
\* the inventory's roots, removes none of the operators' (applyTrustInventory).
RootsAreGrantedStep ==
     /\ \A r \in roots' \ roots :
          r[2] = "operator_api" =>
            \E j \in DOMAIN jobs : /\ jobs[j].h = r[1]
                                   /\ jobs[j].status = "waiting_identity"
                                   /\ asked[j] # NoAsk /\ asked'[j] = NoAsk
     /\ sync' # sync => \A r \in roots \ roots' : r[2] = "inventory"

-----------------------------------------------------------------------------
(***************************************************************************)
(* A provider's connected sessions and the trust root each was admitted    *)
(* on: the hello gate (checkAutotuneHelloGate), the operator's revocation  *)
(* (ws/admin_hardware_trust.go), the periodic sweep that re-reads the      *)
(* roots and what it does when the store does not answer                   *)
(* (ws/trust_revalidation.go).  The roots change by themselves here; the   *)
(* HardwareTrust module says how.                                          *)
(***************************************************************************)

CONSTANTS SessionHashes, Threshold, MaxSessions, MaxRootChanges

VARIABLES trusted,   \* hashes with an active root
          gate,      \* the hash a hello was admitted on and is registering with
          sess,      \* the registered session
          sweep,     \* the sweep: its snapshot and the store's answer
          failures, degraded,
          opened, changed  \* how many sessions there were, and changes of roots

sessionVars == <<trusted, gate, sess, sweep, failures, degraded, opened, changed>>

None == "none"
NoSession == [id |-> 0, h |-> None, state |-> "gone", closing |-> FALSE]
SessionIdle == [pc |-> "idle", id |-> 0, h |-> None]

SessionInit ==
  /\ trusted \in SUBSET SessionHashes /\ gate = None /\ sess = NoSession
  /\ sweep = SessionIdle /\ failures = 0 /\ degraded = FALSE /\ opened = 0 /\ changed = 0

\* A grant, an inventory sync or the passing of expires_at.
RootChanges(h) ==
  /\ changed < MaxRootChanges
  /\ trusted' = IF h \in trusted THEN trusted \ {h} ELSE trusted \union {h}
  /\ changed' = changed + 1
  /\ UNCHANGED <<gate, sess, sweep, failures, degraded, opened>>

\* Verified evidence of hash h counts while it joins an active root.
LatestVerified(h) == h \in trusted

\* checkAutotuneHelloGate, for evidence that admits the claimed model.
HelloGate(h) ==
  /\ gate = None /\ opened < MaxSessions /\ LatestVerified(h)
  /\ gate' = h
  /\ UNCHANGED <<trusted, sess, sweep, failures, degraded, opened, changed>>

\* The session is registered some time after, and takes the provider's place.
Register ==
  /\ gate # None
  /\ sess' = [id |-> opened + 1, h |-> gate, state |-> "ready", closing |-> FALSE]
  /\ opened' = opened + 1 /\ gate' = None
  /\ UNCHANGED <<trusted, sweep, failures, degraded, changed>>

\* The provider leaves, or the timer of an eviction closes it.
Disconnect ==
  /\ sess.id # 0 /\ sess' = NoSession
  /\ UNCHANGED <<trusted, gate, sweep, failures, degraded, opened, changed>>

\* A heartbeat of the provider reports it ready although it was told to drain.
ReportsReady ==
  /\ sess.state = "draining" /\ ~sess.closing
  /\ sess' = [sess EXCEPT !.state = "ready"]
  /\ UNCHANGED <<trusted, gate, sweep, failures, degraded, opened, changed>>

Evict == sess' = [sess EXCEPT !.state = "draining", !.closing = TRUE]

\* handleHardwareTrustRevoke: the root is gone, and so is whatever session the
\* provider has when no other root backs this hash.
SessionRevoke(h, last) ==
  /\ h \in trusted /\ changed < MaxRootChanges /\ changed' = changed + 1
  /\ trusted' = IF last THEN trusted \ {h} ELSE trusted
  /\ IF last /\ sess.id # 0 THEN Evict ELSE UNCHANGED sess
  /\ UNCHANGED <<gate, sweep, failures, degraded, opened>>

\* runTrustRevalidationSweep: the snapshot of sessions and their tuples.
SweepStarts ==
  /\ sweep.pc = "idle" /\ sess.id # 0
  /\ sweep' = [pc |-> "asking", id |-> sess.id, h |-> sess.h]
  /\ UNCHANGED <<trusted, gate, sess, failures, degraded, opened, changed>>

\* Resolve of the snapshot's session, its tuple compared, and a draining one left alone.
StillServing == sess.id = sweep.id /\ sess.h = sweep.h /\ sess.state # "draining"

\* escalateTrustAuthorityDegraded.
Quarantine ==
  /\ degraded' = TRUE
  /\ sess' = IF StillServing THEN [sess EXCEPT !.state = "draining"] ELSE sess

\* SessionsWithoutActiveTrust fails or runs into the sweep's deadline.
SweepFails ==
  /\ sweep.pc = "asking" /\ sweep' = SessionIdle
  /\ failures' = IF failures < Threshold THEN failures + 1 ELSE failures
  /\ IF failures' >= Threshold THEN Quarantine ELSE UNCHANGED <<sess, degraded>>
  /\ UNCHANGED <<trusted, gate, opened, changed>>

SessionsWithoutActiveTrust(h) == h \notin trusted

\* It answers: the counter is cleared, and what it names is still to be evicted.
SweepAnswers ==
  /\ sweep.pc = "asking" /\ failures' = 0 /\ degraded' = FALSE
  /\ sweep' = IF SessionsWithoutActiveTrust(sweep.h) THEN [sweep EXCEPT !.pc = "evict"] ELSE SessionIdle
  /\ UNCHANGED <<trusted, gate, sess, opened, changed>>

\* disconnectAdmittedSessionForTrustRevalidation.
SweepEvicts ==
  /\ sweep.pc = "evict" /\ sweep' = SessionIdle
  /\ IF StillServing THEN Evict ELSE UNCHANGED sess
  /\ UNCHANGED <<trusted, gate, failures, degraded, opened, changed>>

Sweep == SweepStarts \/ SweepFails \/ SweepAnswers \/ SweepEvicts

SessionNext ==
  \/ \E h \in SessionHashes : RootChanges(h) \/ HelloGate(h)
  \/ \E h \in SessionHashes, last \in BOOLEAN : SessionRevoke(h, last)
  \/ Register \/ Disconnect \/ ReportsReady
  \/ SweepStarts \/ SweepFails \/ SweepAnswers \/ SweepEvicts

\* The ticker runs for as long as the process does; the store may fail forever.
SessionFair == WF_sessionVars(Sweep)

-----------------------------------------------------------------------------

\* A session serving on a tuple that has lost its last root, the hello that
\* passed the gate just before included, does not serve on forever: the sweep
\* evicts it or, with the store unreadable, quarantines it
\* (trustSweepDegradedThreshold).
UntrustedStopsServingFrom(h) == sess.state = "ready" /\ sess.h = h /\ h \notin trusted
UntrustedStopsServingTo(h) == sess.state # "ready" \/ sess.h # h \/ h \in trusted

\* The sweep evicts the session it asked about and no later one of the
\* provider, which was admitted on a root of its own.
SweepEvictsItsSessionStep ==
     sweep' # sweep /\ sess' # sess => sess.id = sweep.id /\ sess'.id = sess.id
=============================================================================
