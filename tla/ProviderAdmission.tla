------------------------- MODULE ProviderAdmission --------------------------
(***************************************************************************)
(* Who may connect as a provider, in two parts that share no state: the    *)
(* durable admission key, and the ledger of provisional providers (prefix  *)
(* ledger).                                                                *)
(***************************************************************************)
EXTENDS Integers, Sequences, FiniteSets, SequencesExt

-----------------------------------------------------------------------------
(***************************************************************************)
(* The durable admission key of one provider: enrolled on a first signed   *)
(* connection, rotated by its holder, or replaced under an operators'      *)
(* recovery authorization (ws/identity_signature.go, auth/tokens.go).      *)
(* Connections verify a proof against the row, then change the row in a    *)
(* later transaction; several do so at once.                               *)
(***************************************************************************)

CONSTANTS Sessions, Keys, Held,   \* Held[s]: the private keys session s can sign with
          Operators, Grace, MaxGen, MaxTime

VARIABLES row,     \* the provider's row of provider_bootstrap_identities
          grant,   \* the recovery authorization not yet consumed or cancelled
          pc, sess, now,
          audit    \* admission_identity_recovery_audit, with the requester

vars == <<row, grant, pc, sess, now, audit>>

NoKey == "none"
NoRow == [key |-> NoKey, gen |-> 0, prev |-> NoKey, until |-> 0, revoked |-> FALSE]
NoGrant == [cand |-> NoKey, exp |-> NoKey, gen |-> 0, by |-> "none", ok |-> "none", until |-> 0]

Idle == [pub |-> NoKey, next |-> NoKey, rec |-> FALSE, role |-> "none", gen |-> 0,
         ver |-> NoKey, act |-> NoKey]

Init ==
  /\ row = NoRow /\ grant = NoGrant
  /\ pc = [s \in Sessions |-> "idle"]
  /\ sess = [s \in Sessions |-> Idle]
  /\ now = 0 /\ audit = {}

Found == row.key # NoKey /\ ~row.revoked
Blocked == row.key # NoKey /\ row.revoked

\* durableIdentitySignatureSelection with LookupAdmissionIdentityState: the key a
\* proof must verify against.
VerificationKey(i) ==
  IF row.key \in {i.pub, i.next} THEN row.key
  ELSE IF row.prev # NoKey /\ row.until > now /\ i.pub = row.prev THEN row.prev
  ELSE row.key

\* The initial request names the keys; the challenge follows.
Initial(s, pub, next, rec) ==
  /\ pc[s] = "idle"
  /\ rec => next = NoKey
  /\ pc' = [pc EXCEPT ![s] = "challenged"]
  /\ sess' = [sess EXCEPT ![s] = [Idle EXCEPT !.pub = pub, !.next = next, !.rec = rec]]
  /\ UNCHANGED <<row, grant, now, audit>>

Accepted(s, role, ver) ==
  /\ pc' = [pc EXCEPT ![s] = "verified"]
  /\ sess' = [sess EXCEPT ![s] = [@ EXCEPT !.role = role, !.ver = ver, !.act = row.key,
                                          !.gen = row.gen, !.pub = NoKey]]

\* The connection goes on or is closed; the provider may connect again.
Leave(s) == pc' = [pc EXCEPT ![s] = "idle"] /\ sess' = [sess EXCEPT ![s] = Idle]
Refused(s) == Leave(s)

\* verifyIdentitySignature with a live bearer: by recovery with the active key, by
\* the current or the previous key, by enrolment, or as the candidate of a
\* recovery (the grant itself is looked up when it is used).
VerifyIdentitySignature(s) ==
  LET i == sess[s]
      ver == VerificationKey(i)
  IN /\ pc[s] = "challenged"
     /\ IF Found /\ i.rec /\ i.pub = row.key /\ row.key \in Held[s]
        THEN Accepted(s, "current", row.key)
        ELSE IF Found /\ ~i.rec /\ ver \in Held[s]
        THEN Accepted(s, IF ver = row.key THEN "current" ELSE "previous", ver)
        ELSE IF ~Found /\ ~Blocked /\ i.pub \in Held[s]
        THEN Accepted(s, "enroll", i.pub)
        ELSE IF Found /\ i.rec /\ i.pub # row.key /\ i.pub \in Held[s]
        THEN Accepted(s, "recovery", i.pub)
        ELSE Refused(s)
     /\ UNCHANGED <<row, grant, now, audit>>

Done(s) == Leave(s)

\* BindAdmissionIdentity: an existing row must already hold this key.
BindAdmissionIdentity(s) ==
  /\ pc[s] = "verified" /\ sess[s].role = "enroll"
  /\ IF row.key = NoKey
     THEN row' = [NoRow EXCEPT !.key = sess[s].ver, !.gen = 1] /\ Done(s)
     ELSE IF ~row.revoked /\ row.key = sess[s].ver THEN UNCHANGED row /\ Done(s)
     ELSE UNCHANGED row /\ Refused(s)
  /\ UNCHANGED <<grant, now, audit>>

Rotates(s) == sess[s].role = "current" /\ ~sess[s].rec /\ sess[s].next \notin {NoKey, sess[s].act}

\* RotateAdmissionIdentity: compared with the key and the generation the proof
\* was verified against; a repeat of the same rotation succeeds unchanged.
RotateAdmissionIdentity(s) ==
  LET e == sess[s] IN
  /\ pc[s] = "verified" /\ Rotates(s)
  /\ row.gen < MaxGen
  /\ IF ~row.revoked /\ row.key = e.next /\ row.gen = e.gen + 1 /\ row.prev = e.act
     THEN UNCHANGED row /\ Done(s)
     ELSE IF ~row.revoked /\ row.key = e.act /\ row.gen = e.gen
     THEN row' = [row EXCEPT !.key = e.next, !.gen = @ + 1, !.prev = e.act, !.until = now + Grace] /\ Done(s)
     ELSE UNCHANGED row /\ Refused(s)
  /\ UNCHANGED <<grant, now, audit>>

\* RecoverAdmissionIdentity: an approved grant for exactly this candidate, key and
\* generation replaces the key, clears the previous one and is consumed, in one
\* transaction with the audit row.
RecoverAdmissionIdentity(s) ==
  LET e == sess[s] IN
  /\ pc[s] = "verified" /\ e.role = "recovery"
  /\ row.gen < MaxGen
  /\ IF /\ grant.cand = e.ver /\ grant.exp = e.act /\ grant.gen = e.gen
        /\ grant.ok # "none" /\ grant.until > now
        /\ row.key # NoKey => ~row.revoked /\ row.key = e.act /\ row.gen = e.gen
     THEN /\ row' = [NoRow EXCEPT !.key = e.ver, !.gen = e.gen + 1]
          /\ audit' = audit \union {[g |-> grant, at |-> row.gen]}
          /\ grant' = NoGrant
          /\ Done(s)
     ELSE UNCHANGED <<row, grant, audit>> /\ Refused(s)
  /\ UNCHANGED now

\* A proof that changes nothing: the previous key, or the current one without a
\* successor.
AdmitUnchanged(s) ==
  /\ pc[s] = "verified" /\ sess[s].role \in {"current", "previous"} /\ ~Rotates(s)
  /\ Done(s)
  /\ UNCHANGED <<row, grant, now, audit>>

\* The request an operator files names the identity as it stands and a candidate
\* other than its key.
RecoveryRequest(op, cand) ==
  [cand |-> cand, exp |-> row.key, gen |-> row.gen, by |-> op, ok |-> "none", until |-> now + 1]

\* RequestAdmissionIdentityRecovery: an expired grant is cancelled; an open one stays.
RequestRecovery(op, cand) ==
  /\ grant = NoGrant \/ grant.until <= now
  /\ now < MaxTime /\ Found /\ cand # row.key
  /\ grant' = RecoveryRequest(op, cand)
  /\ UNCHANGED <<row, pc, sess, now, audit>>

ApproveRecovery(op) ==
  /\ grant # NoGrant /\ grant.ok = "none" /\ grant.until > now
  /\ grant.by # op
  /\ grant' = [grant EXCEPT !.ok = op]
  /\ UNCHANGED <<row, pc, sess, now, audit>>

\* RevokeBootstrapIdentity.
RevokeIdentity ==
  /\ row.key # NoKey /\ ~row.revoked
  /\ row' = [row EXCEPT !.revoked = TRUE]
  /\ UNCHANGED <<grant, pc, sess, now, audit>>

Tick ==
  /\ now < MaxTime /\ now' = now + 1
  /\ UNCHANGED <<row, grant, pc, sess, audit>>

Next ==
  \/ \E s \in Sessions :
       \/ \E pub \in Keys, next \in Keys \union {NoKey}, rec \in BOOLEAN : Initial(s, pub, next, rec)
       \/ VerifyIdentitySignature(s) \/ BindAdmissionIdentity(s) \/ RotateAdmissionIdentity(s)
       \/ RecoverAdmissionIdentity(s) \/ AdmitUnchanged(s)
  \/ \E op \in Operators :
       \/ \E cand \in Keys : RequestRecovery(op, cand)
       \/ ApproveRecovery(op)
  \/ RevokeIdentity \/ Tick

TypeOK ==
  /\ row.key \in Keys \union {NoKey} /\ row.gen \in 0 .. MaxGen
  /\ pc \in [Sessions -> {"idle", "challenged", "verified"}]

(* The key is replaced only on top of the very key and generation its      *)
(* replacement was proved against: a session whose proof another session's *)
(* rotation has overtaken changes nothing.                                 *)
RotationIsFencedStep ==
     row'.gen # row.gen /\ row.key # NoKey =>
       /\ row'.gen = row.gen + 1
       /\ \E s \in Sessions : /\ pc[s] = "verified" /\ pc'[s] = "idle"
                              /\ sess[s].act = row.key /\ sess[s].gen = row.gen

(* Recovery takes two operators, and one grant replaces one key: no two    *)
(* recoveries rest on the same authorization.                              *)
RecoveryIsGranted ==
  /\ \A a \in audit : a.g.by # a.g.ok /\ a.g.ok # "none"
  /\ \A a, b \in audit : a.g = b.g => a = b

-----------------------------------------------------------------------------
(***************************************************************************)
(* What the coordinator remembers of provisional providers: the records,   *)
(* the operator's bans, the admissions of the last hour and the requests   *)
(* of the last hour (AdmissionManager, ws/admission.go), and the row it is *)
(* saved in (ws/admission_store.go).  One method runs at a time, under the *)
(* manager's lock; a save may fail and is then only reported.              *)
(***************************************************************************)

CONSTANTS Providers, Rate, Quota, Hour, Retention, LedgerMaxTime, MaxFaults

VARIABLES mem,      \* the manager's maps
          saved,    \* the stored row
          ledgerNow, faults,
          unbanned  \* history: the bans whose removal was acknowledged

ledgerVars == <<mem, saved, ledgerNow, faults, unbanned>>

None == -1   \* no record

LedgerInit ==
  /\ mem = [seen |-> [p \in Providers |-> None], served |-> [p \in Providers |-> 0],
            rejected |-> {}, admissions |-> <<>>, window |-> [p \in Providers |-> <<>>]]
  /\ saved = mem
  /\ ledgerNow = 0 /\ faults = 0 /\ unbanned = {}

KeepAfter(s, cutoff) == SelectSeq(s, LAMBDA t : t > cutoff)

\* persistLocked: the outcome of the save is not seen by the caller.
Persist(m) ==
  /\ mem' = m
  /\ \/ saved' = m /\ UNCHANGED faults
     \/ faults < MaxFaults /\ faults' = faults + 1 /\ UNCHANGED saved

\* evaluateAdmissionLocked, the part that needs no pool: banned and rate limited.
Admissible(m, p) ==
  /\ p \notin m.rejected
  /\ m.seen[p] # None \/ Len(KeepAfter(m.admissions, ledgerNow - Hour)) < Rate

\* ReserveAdmission and CommitReservedAdmission by one connection.
Admit(p) ==
  /\ Admissible(mem, p)
  /\ LET kept == KeepAfter(mem.admissions, ledgerNow - Hour) IN
     Persist([mem EXCEPT !.seen[p] = ledgerNow,
                         !.admissions = IF mem.seen[p] = None THEN Append(kept, ledgerNow) ELSE kept])
  /\ UNCHANGED <<ledgerNow, unbanned>>

\* TryReserveRequest for a provider that is connected, hence has a record unless
\* it was pruned.
TryReserveRequest(p) ==
  LET w == KeepAfter(mem.window[p], ledgerNow - Hour)
      known == mem.seen[p] # None
  IN /\ IF Len(w) >= Quota
        THEN mem' = [mem EXCEPT !.window[p] = w] /\ UNCHANGED <<saved, faults>>
        ELSE Persist([mem EXCEPT !.window[p] = Append(w, ledgerNow),
                                 !.served[p] = IF known THEN @ + 1 ELSE @,
                                 !.seen[p] = IF known THEN ledgerNow ELSE @])
     /\ UNCHANGED <<ledgerNow, unbanned>>

Refunded(p) ==
  [mem EXCEPT !.window[p] = IF @ # <<>> THEN Front(@) ELSE @,
              !.served[p] = IF mem.seen[p] # None /\ @ > 0 THEN @ - 1 ELSE @]

RefundRequest(p) ==
  /\ mem.served[p] > 0   \* the caller refunds what it reserved
  /\ Persist(Refunded(p))
  /\ UNCHANGED <<ledgerNow, unbanned>>

Reject(p) ==
  /\ Persist([mem EXCEPT !.rejected = @ \union {p}])
  /\ unbanned' = unbanned \ {p}
  /\ UNCHANGED ledgerNow

\* Unreject: a failed save puts the ban back and is reported to the operator.
Unreject(p) ==
  /\ p \in mem.rejected
  /\ LET m == [mem EXCEPT !.rejected = @ \ {p}] IN
     \/ mem' = m /\ saved' = m /\ unbanned' = unbanned \union {p} /\ UNCHANGED faults
     \/ faults < MaxFaults /\ faults' = faults + 1 /\ UNCHANGED <<mem, saved, unbanned>>
  /\ UNCHANGED ledgerNow

\* The daily pass: old records, then bans without a record, then old times.
Prune ==
  LET cutoff == ledgerNow - Retention
      gone == {p \in Providers : mem.seen[p] # None /\ mem.seen[p] < cutoff}
      left(p) == mem.seen[p] # None /\ p \notin gone
      m == [seen |-> [p \in Providers |-> IF p \in gone THEN None ELSE mem.seen[p]],
            served |-> [p \in Providers |-> IF p \in gone THEN 0 ELSE mem.served[p]],
            rejected |-> {p \in mem.rejected : left(p)},
            admissions |-> KeepAfter(mem.admissions, cutoff),
            window |-> [p \in Providers |->
                          IF p \in gone THEN <<>> ELSE KeepAfter(mem.window[p], cutoff)]]
  IN /\ m # mem
     /\ Persist(m)
     /\ UNCHANGED <<ledgerNow, unbanned>>

\* A new process: SetPersistence loads the row.
Restart ==
  /\ mem' = saved
  /\ UNCHANGED <<saved, ledgerNow, faults, unbanned>>

LedgerTick ==
  /\ ledgerNow < LedgerMaxTime
  /\ ledgerNow' = ledgerNow + 1
  /\ UNCHANGED <<mem, saved, faults, unbanned>>

LedgerNext ==
  \/ \E p \in Providers : Admit(p) \/ TryReserveRequest(p) \/ RefundRequest(p)
                            \/ Reject(p) \/ Unreject(p)
  \/ Prune \/ Restart \/ LedgerTick

LedgerTypeOK ==
  /\ mem.seen \in [Providers -> {None} \union 0 .. LedgerMaxTime]
  /\ mem.rejected \subseteq Providers
  /\ \A p \in Providers : Len(mem.window[p]) <= Quota

(* As long as every save succeeded, a restart changes no later decision:   *)
(* the process that loads the row bans, limits and counts as the one that  *)
(* wrote it (the passes that only drop old times are not saved).           *)
RestartChangesNoDecision ==
  faults = 0 =>
    /\ mem.rejected = saved.rejected
    /\ \A p \in Providers :
         /\ Admissible(mem, p) = Admissible(saved, p)
         /\ Len(KeepAfter(mem.window[p], ledgerNow - Hour)) = Len(KeepAfter(saved.window[p], ledgerNow - Hour))

(* A ban the operator was told is lifted does not come back with a         *)
(* restart, whichever saves failed before or after: Unreject answers only  *)
(* once the row is stored.                                                 *)
UnbanIsDurable == unbanned \intersect (mem.rejected \union saved.rejected) = {}
=============================================================================
