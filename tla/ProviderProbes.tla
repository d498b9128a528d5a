--------------------------- MODULE ProviderProbes ---------------------------
(***************************************************************************)
(* What the coordinator measures of its providers, in three parts that     *)
(* share no state: canary probes and their correlation, the losslessness   *)
(* probes of a session (prefix loss) and the verdict on a measurement      *)
(* (prefix verdict).                                                       *)
(***************************************************************************)
EXTENDS Integers, Sequences, FiniteSets, Functions, FiniteSetsExt, SequencesExt

-----------------------------------------------------------------------------
(***************************************************************************)
(* Canary probes of the providers of one model.  A wrong answer opens an   *)
(* epoch: every serving peer is sent the same challenge and the results    *)
(* are staged, so that a fault of the challenge is told from a fault of a  *)
(* provider.  Probes apply their results under the read side of            *)
(* canaryRecoveryMu, an operator's recovery takes the write side; as in    *)
(* sync.RWMutex, a waiting writer blocks every new reader.                 *)
(***************************************************************************)

CONSTANTS
    Providers,      \* pinned providers that serve the model
    Threshold,      \* canaryFailureThreshold
    MaxProbes,      \* probes started
    MaxRecoveries,  \* operator recoveries
    MaxSession      \* reconnects of a provider

VARIABLES
    sid,       \* current session of each provider
    fails,     \* CanaryFailCount
    hold,      \* "no", "canary" or "operator_clear"
    durable,   \* providers with a saved sanction
    epoch,     \* canaryEpoch, advanced by every operator recovery
    live,      \* the open correlation epoch, or None
    gen,       \* canaryBankGeneration
    shared,    \* canarySharedDispatch: provider -> bank generation
    probe,     \* what the probe goroutine of each provider is doing
    work,      \* commits a resolving thread still has to apply
    checked,   \* the commit whose recovery epoch it has just compared
    writer,    \* "none" or the provider whose recovery waits for the lock
    probes, recoveries
vars == <<sid, fails, hold, durable, epoch, live, gen, shared, probe, work, checked, writer, probes, recoveries>>

None == [none |-> TRUE]
Sweep == "sweep"
Threads == Providers \cup {Sweep}
Idle == [at |-> "idle"]
Fails == {"nonce", "relay_hard"}
Classes == Fails \cup {"pass", "soft"}

Init ==
    /\ sid = [p \in Providers |-> 0] /\ fails = [p \in Providers |-> 0] /\ hold = [p \in Providers |-> "no"]
    /\ durable = {} /\ epoch = [p \in Providers |-> 0]
    /\ live = None /\ gen = 1 /\ shared = << >>
    /\ probe = [p \in Providers |-> Idle]
    /\ work = [t \in Threads |-> {}] /\ checked = [t \in Threads |-> None]
    /\ writer = "none" /\ probes = 0 /\ recoveries = 0

Serving == {p \in Providers : hold[p] = "no"}
CorrectnessFailure(class) == class = "nonce"

(* recordCanaryResult and what applyCanaryRecord does after it: the saved   *)
(* sanction follows the one in memory, unless the write fails.              *)
Record(p, s, passed, forced) ==
    LET n == IF fails[p] < Threshold THEN fails[p] + 1 ELSE Threshold
        floor == forced \/ Serving = {p}
    IN \/ s # sid[p] /\ UNCHANGED <<fails, hold, durable>>
       \/ /\ s = sid[p] /\ passed
          /\ fails' = [fails EXCEPT ![p] = 0]
          /\ hold' = [hold EXCEPT ![p] = IF @ = "canary" THEN "no" ELSE @]
          /\ durable' \in {durable, durable \ {p}}
       \/ /\ s = sid[p] /\ ~passed
          /\ fails' = [fails EXCEPT ![p] = n]
          /\ IF n < Threshold \/ floor THEN UNCHANGED <<hold, durable>>
             ELSE hold' = [hold EXCEPT ![p] = "canary"] /\ durable' \in {durable, durable \cup {p}}

----------------------------------------------------------------------------
(* runCanarySweep for one due provider; the session's epoch is read under   *)
(* the read lock, and the probe takes a shared challenge if one waits.      *)
StartProbe(p) ==
    /\ probe[p] = Idle /\ writer = "none" /\ probes < MaxProbes
    /\ hold[p] \in {"no", "canary"}
    /\ probe' = [probe EXCEPT ![p] = [at |-> "probing", epoch |-> epoch[p], sid |-> sid[p],
                                      gen |-> IF p \in DOMAIN shared THEN shared[p] ELSE 0]]
    /\ shared' = Restrict(shared, DOMAIN shared \ {p})
    /\ probes' = probes + 1
    /\ UNCHANGED <<sid, fails, hold, durable, epoch, live, gen, work, checked, writer, recoveries>>

(* A probe that could not be sent puts its shared challenge back. *)
Skip(p) ==
    /\ probe[p].at = "probing" /\ probe' = [probe EXCEPT ![p] = Idle]
    /\ shared' = IF probe[p].gen = 0 THEN shared
                 ELSE [q \in DOMAIN shared \cup {p} |-> IF q = p THEN probe[p].gen ELSE shared[q]]
    /\ UNCHANGED <<sid, fails, hold, durable, epoch, live, gen, work, checked, writer, probes, recoveries>>

(* Epoch.Resolve: a majority of wrong answers is a fault of the challenge   *)
(* and nothing is committed; a failure is spared when no peer is known to   *)
(* serve.                                                                   *)
Resolve(l) ==
    LET wrong == {p \in DOMAIN l.staged : CorrectnessFailure(l.staged[p].class)}
        failing == {p \in DOMAIN l.staged : l.staged[p].class \in Fails}
        Peers(p) == {q \in DOMAIN l.staged \ (failing \cup {p}) : l.staged[q].observed}
    IN IF Cardinality(wrong) >= 2 /\ 2 * Cardinality(wrong) > Cardinality(l.snapshot) THEN {}
       ELSE {[p |-> p, sid |-> l.staged[p].sid, epoch |-> l.staged[p].epoch, passed |-> l.staged[p].class = "pass",
              floor |-> l.staged[p].serving /\ Peers(p) = {}] : p \in {q \in DOMAIN l.staged : l.staged[q].class # "soft"}}

(* The result of a probe that opens no epoch and belongs to none. *)
ApplyCanaryImmediate(p, class) ==
    /\ live = None /\ ~(CorrectnessFailure(class) /\ Cardinality(Serving) >= 2)
    /\ Record(p, probe[p].sid, class = "pass", FALSE)
    /\ probe' = [probe EXCEPT ![p] = Idle]
    /\ UNCHANGED <<live, gen, shared, work>>

(* The result of a probe while an epoch is open, or that opens one.  It is  *)
(* fenced off unless it answers the epoch's challenge; the result that      *)
(* completes the epoch resolves it, still under the read lock.              *)
ApplyCanaryViaCorrelation(p, class) ==
    LET opens == live = None
        snap  == Serving \cup {p}
        g     == IF opens THEN gen + 1 ELSE gen
        l0    == IF opens THEN [gen |-> g, snapshot |-> snap, staged |-> << >>] ELSE live
    IN /\ opens => CorrectnessFailure(class) /\ Cardinality(Serving) >= 2
       /\ gen' = g
       /\ \E same \in BOOLEAN, observed \in BOOLEAN :
            LET fenced == ~same \/ probe[p].gen \notin {0, l0.gen}
                staged == [q \in DOMAIN l0.staged \cup {p} |->
                             IF q = p THEN [class |-> class, sid |-> probe[p].sid, epoch |-> probe[p].epoch,
                                            serving |-> p \in Serving, observed |-> observed]
                             ELSE l0.staged[q]]
                l1 == [l0 EXCEPT !.staged = staged]
                sh == IF opens THEN [q \in DOMAIN shared \cup (snap \ {p}) |-> IF q \in snap \ {p} THEN g ELSE shared[q]] ELSE shared
            IN /\ (opens \/ probe[p].gen = l0.gen) => same
               /\ \/ /\ fenced
                     /\ live' = l0 /\ shared' = sh
                     /\ probe' = [probe EXCEPT ![p] = Idle] /\ UNCHANGED work
                  \/ /\ ~fenced /\ (p \notin l0.snapshot \/ p \in DOMAIN l0.staged)
                     /\ live' = l0 /\ shared' = Restrict(sh, DOMAIN sh \ {p})
                     /\ probe' = [probe EXCEPT ![p] = Idle] /\ UNCHANGED work
                  \/ /\ ~fenced /\ p \in l0.snapshot \ DOMAIN l0.staged /\ DOMAIN staged # l0.snapshot
                     /\ live' = l1 /\ shared' = Restrict(sh, DOMAIN sh \ {p})
                     /\ probe' = [probe EXCEPT ![p] = Idle] /\ UNCHANGED work
                  \/ /\ ~fenced /\ p \in l0.snapshot \ DOMAIN l0.staged /\ DOMAIN staged = l0.snapshot
                     /\ live' = None /\ shared' = Restrict(sh, DOMAIN sh \ l0.snapshot)
                     /\ probe' = [probe EXCEPT ![p] = [at |-> "resolving"]]
                     /\ work' = [work EXCEPT ![p] = Resolve(l1)]
       /\ UNCHANGED <<fails, hold, durable>>

(* runCanaryProbeAtEpoch after the attempt: it takes the read lock and      *)
(* drops a result that an operator's recovery has overtaken.                *)
Apply(p, class) ==
    /\ probe[p].at = "probing" /\ writer = "none"
    /\ IF probe[p].epoch # epoch[p]
       THEN probe' = [probe EXCEPT ![p] = Idle] /\ UNCHANGED <<live, gen, shared, work, fails, hold, durable>>
       ELSE ApplyCanaryImmediate(p, class) \/ ApplyCanaryViaCorrelation(p, class)
    /\ UNCHANGED <<sid, epoch, checked, writer, probes, recoveries>>

(* expireCanaryCorrelationWindows: the window of the epoch is over. *)
Expire ==
    /\ live # None /\ work[Sweep] = {} /\ checked[Sweep] = None
    /\ live' = None /\ shared' = Restrict(shared, DOMAIN shared \ live.snapshot)
    /\ work' = [work EXCEPT ![Sweep] = Resolve(live)]
    /\ UNCHANGED <<sid, fails, hold, durable, epoch, gen, probe, checked, writer, probes, recoveries>>

(* resolveAndApplyCorrelation compares the recovery epoch of one commit     *)
(* under the read lock, and gives the lock back.                            *)
CheckCommit(t) ==
    /\ checked[t] = None /\ writer = "none"
    /\ \E c \in work[t] :
         /\ work' = [work EXCEPT ![t] = @ \ {c}]
         /\ checked' = IF c.epoch = epoch[c.p] THEN [checked EXCEPT ![t] = c] ELSE checked
    /\ UNCHANGED <<sid, fails, hold, durable, epoch, live, gen, shared, probe, writer, probes, recoveries>>

ApplyCommit(t) ==
    /\ checked[t] # None
    /\ Record(checked[t].p, checked[t].sid, checked[t].passed, checked[t].floor)
    /\ checked' = [checked EXCEPT ![t] = None]
    /\ UNCHANGED <<sid, epoch, live, gen, shared, probe, work, writer, probes, recoveries>>

(* The probe that resolved the epoch gives back the read lock it came with. *)
Resolved(p) ==
    /\ probe[p].at = "resolving" /\ work[p] = {} /\ checked[p] = None
    /\ probe' = [probe EXCEPT ![p] = Idle]
    /\ UNCHANGED <<sid, fails, hold, durable, epoch, live, gen, shared, work, checked, writer, probes, recoveries>>

(* recoverProvider: asks for the write lock, and runs when no probe holds   *)
(* the read side.                                                           *)
AskRecovery(p) ==
    /\ writer = "none" /\ recoveries < MaxRecoveries
    /\ writer' = p /\ recoveries' = recoveries + 1
    /\ UNCHANGED <<sid, fails, hold, durable, epoch, live, gen, shared, probe, work, checked, probes>>
Readers == {p \in Providers : probe[p].at = "resolving"}
RecoverProvider ==
    /\ writer # "none" /\ Readers = {}
    /\ writer' = "none" /\ epoch' = [epoch EXCEPT ![writer] = @ + 1]
    /\ \/ UNCHANGED <<fails, hold, durable>>   \* the saved sanction could not be deleted
       \/ /\ durable' = durable \ {writer} /\ fails' = [fails EXCEPT ![writer] = 0]
          /\ hold' = [hold EXCEPT ![writer] = IF @ = "canary" THEN "operator_clear" ELSE @]
    /\ UNCHANGED <<sid, live, gen, shared, probe, work, checked, probes, recoveries>>

(* A new session of the provider: its holds are gone, a sanction returns. *)
Reconnect(p) ==
    /\ sid[p] < MaxSession /\ sid' = [sid EXCEPT ![p] = @ + 1]
    /\ fails' = [fails EXCEPT ![p] = IF hold[p] = "canary" THEN @ ELSE 0]
    /\ hold' = [hold EXCEPT ![p] = IF @ = "canary" THEN @ ELSE "no"]
    /\ UNCHANGED <<durable, epoch, live, gen, shared, probe, work, checked, writer, probes, recoveries>>

Step(t) == CheckCommit(t) \/ ApplyCommit(t)
Probe(p) == Skip(p) \/ (\E class \in Classes : Apply(p, class)) \/ Step(p) \/ Resolved(p)
Next ==
    \/ \E p \in Providers : StartProbe(p) \/ Probe(p) \/ AskRecovery(p) \/ Reconnect(p)
    \/ Step(Sweep) \/ Expire \/ RecoverProvider

----------------------------------------------------------------------------
(* Whatever the probes say, the model keeps a serving provider: a canary    *)
(* failure never takes the last one out (recordCanaryResult's floor).       *)
FloorIsKept == Serving # {} \/ \E p \in Providers : hold[p] = "operator_clear"

(* A result that a probe applies itself was obtained after the latest       *)
(* recovery of that provider: the read lock it holds keeps the operator     *)
(* out from the check of the recovery epoch to the change of the pool.      *)
ProbeResultsAreCurrent ==
    \A p \in Providers : checked[p] # None => checked[p].epoch = epoch[checked[p].p]

(* recoverProvider's comment: a probe that already applies its result       *)
(* completes before the clear, so a recovery that waits for the lock runs.  *)
RecoveryCompletes == \A p \in Providers : writer = p ~> writer = "none"

-----------------------------------------------------------------------------
(***************************************************************************)
(* The losslessness probes of one provider session (ws/losslessness.go):   *)
(* one probe is pending at a time, for the sampling profiles in turn; its  *)
(* result is consumed once and moves the profile's record by a reason.     *)
(* The reasons stand for the rows of losslessnessReasonRules that differ   *)
(* in what they do.                                                        *)
(***************************************************************************)

CONSTANTS Profiles,  \* their number; the cursor goes round them
          Timeout, Day, AbuseMax, RepeatMax,
          LossMaxProbes, MaxTime

VARIABLES now, cursor,
          ready,      \* VerdictEngineReady and CalibrationAccepted
          pending,    \* losslessnessPending: id, profile and expiry
          nonces,     \* the probes in losslessnessNonceIndex and DigestIndex
          issued, flying,  \* probes issued, and results on their way (or again)
          record,     \* losslessnessProfiles
          applied,    \* how often each probe moved a record
          history     \* every reason applied: profile, time and whether it was abusive

lossVars == <<now, cursor, ready, pending, nonces, issued, flying, record, applied, history>>

NoProbe == [id |-> 0, profile |-> 0, expires |-> 0]

Reasons == {"pass", "warn", "quarantine", "greedy", "timeout", "mismatch", "tail_mass"}

LossInit ==
  /\ now = 0 /\ cursor = 0 /\ ready \in BOOLEAN
  /\ pending = NoProbe /\ nonces = {} /\ issued = 0 /\ flying = {}
  /\ record = [p \in 0..Profiles - 1 |->
                [state |-> "unknown", at |-> 0, quarantine |-> 0, abuse |-> <<>>, repeats |-> <<>>]]
  /\ applied = [i \in 1..LossMaxProbes |-> 0] /\ history = {}

Tick ==
  /\ now < MaxTime /\ now' = now + 1
  /\ UNCHANGED <<cursor, ready, pending, nonces, issued, flying, record, applied, history>>

\* losslessnessProviderHasPending drops a probe that has expired.
StillPending == pending.id # 0 /\ now < pending.expires

\* dispatchLosslessnessProbeRound up to buildLosslessnessProbeRequest, which
\* refuses a provider whose draft admission lapsed; the cursor moves all the same.
ProbeRefused ==
  /\ ~StillPending
  /\ pending' = NoProbe /\ nonces' = nonces \ {pending.id}
  /\ cursor' = (cursor + 1) % Profiles
  /\ UNCHANGED <<now, ready, issued, flying, record, applied, history>>

\* issueLosslessnessProbeRequest: recordLosslessnessPendingProbe, and all of it
\* taken back when the frame cannot be sealed or sent.
IssueProbe(sent) ==
  /\ ~StillPending /\ issued < LossMaxProbes
  /\ issued' = issued + 1 /\ cursor' = (cursor + 1) % Profiles
  /\ IF sent
       THEN /\ pending' = [id |-> issued + 1, profile |-> cursor, expires |-> now + Timeout]
            /\ nonces' = (nonces \ {pending.id}) \union {issued + 1}
            /\ flying' = flying \union {issued + 1}
       ELSE pending' = NoProbe /\ nonces' = nonces \ {pending.id} /\ UNCHANGED flying
  /\ UNCHANGED <<now, ready, record, applied, history>>

Since(events, t) == SelectSeq(events, LAMBDA e : e >= t - Day)

Abusive(reason) == reason \in {"timeout", "mismatch"}

\* repeatedRetryableInconclusiveIsAbusive.
Repeats(r, reason) == reason = "tail_mass" /\ Len(Since(r.repeats, now)) + 1 > RepeatMax

\* appendRetryableInconclusiveEvent.
Repeated(r, reason) == IF reason = "tail_mass" THEN Append(Since(r.repeats, now), now) ELSE r.repeats

\* NextState of a reason that is inconclusive.
NextState(reason) == IF reason = "mismatch" THEN "blocked" ELSE "inconclusive_retryable"

\* ApplyLosslessnessReason: a pass forgives no abuse.
ApplyPass(r) ==
  LET left == Since(r.abuse, now)
  IN [r EXCEPT !.at = now, !.quarantine = 0, !.abuse = left,
               !.state = IF Len(left) >= AbuseMax THEN "blocked" ELSE "pass_fresh"]

ApplyQuarantine(r) ==
  IF ~ready THEN [r EXCEPT !.at = now, !.state = "blocked"]
  ELSE [r EXCEPT !.at = now, !.quarantine = @ + 1,
                 !.state = IF r.quarantine + 1 >= 2 THEN "disabled" ELSE "warn"]

ApplyInconclusive(r, reason) ==
  LET abused == Abusive(reason) \/ Repeats(r, reason)
      events == IF abused THEN Append(Since(r.abuse, now), now) ELSE r.abuse
  IN [r EXCEPT !.at = now, !.repeats = Repeated(r, reason), !.abuse = events,
               !.state = IF abused /\ Len(events) >= AbuseMax THEN "blocked" ELSE NextState(reason)]

Applied(r, reason) ==
  CASE reason = "pass" -> ApplyPass(r)
    [] reason = "warn" -> [r EXCEPT !.at = now, !.state = "warn"]
    [] reason = "quarantine" -> ApplyQuarantine(r)
    [] reason = "greedy" -> [r EXCEPT !.at = now, !.state = "blocked"]
    [] OTHER -> ApplyInconclusive(r, reason)

\* applyLosslessnessProfileReason: a pass before the verdict engine and the
\* calibration are ready is an error, and the record stays.
ApplyReason(p, reason) ==
  IF reason = "pass" /\ ~ready THEN UNCHANGED record
  ELSE record' = [record EXCEPT ![p] = Applied(@, reason)]

\* consumeLosslessnessPendingProbe, of a result with the probe's own nonce and
\* digest: whatever it answers, the probe is no longer pending.
Consume(i) == pending.id = i /\ pending' = NoProbe /\ nonces' = nonces \ {i}

\* handleLosslessnessProbeResult: `again` when the provider may send it once more.
HandleResult(i, reason, again) ==
  /\ i \in flying /\ flying' = IF again THEN flying ELSE flying \ {i}
  /\ IF pending.id = i
       THEN /\ Consume(i)
            /\ IF now > pending.expires THEN UNCHANGED <<record, applied, history>>
               ELSE /\ ApplyReason(pending.profile, reason)
                    /\ applied' = [applied EXCEPT ![i] = @ + 1]
                    /\ history' = history \union
                         {[id |-> i, profile |-> pending.profile, at |-> now, reason |-> reason]}
       ELSE UNCHANGED <<pending, nonces, record, applied, history>>
  /\ UNCHANGED <<now, cursor, ready, issued>>

LossNext ==
  \/ Tick \/ ProbeRefused
  \/ \E sent \in BOOLEAN : IssueProbe(sent)
  \/ \E i \in flying, reason \in Reasons, again \in BOOLEAN : HandleResult(i, reason, again)

\* LosslessnessGridState of one profile.
Fresh(p) == ready /\ record[p].state = "pass_fresh" /\ now < record[p].at + Day

LossTypeOK ==
  /\ cursor \in 0..Profiles - 1 /\ pending.id \in 0..LossMaxProbes /\ nonces \subseteq 1..LossMaxProbes
  /\ flying \subseteq 1..LossMaxProbes /\ ready \in BOOLEAN
  /\ \A p \in DOMAIN record : record[p].state \in
       {"unknown", "pass_fresh", "warn", "inconclusive_retryable", "blocked", "disabled"}

\* A probe moves a record at most once, however often its result comes, and the
\* three maps a probe is kept in agree.
ResultAppliedOnce ==
  /\ \A i \in 1..LossMaxProbes : applied[i] <= 1
  /\ nonces = {pending.id} \ {0}

Results(p, reason) == {h \in history : h.profile = p /\ h.reason = reason}

\* A profile counts as fresh only if its last result was a pass, no older than a
\* day, and in the day before that pass fewer than three results were abusive, a
\* fourth tail_mass_high within a day among them: a pass clears no abuse.
FreshIsEarned ==
  \A p \in DOMAIN record : Fresh(p) =>
    LET t == record[p].at
        abuse == {h \in history : h.profile = p /\ h.at \in t - Day..t
                    /\ \/ Abusive(h.reason)
                       \/ /\ h.reason = "tail_mass"
                          /\ RepeatMax <= Cardinality({g \in Results(p, "tail_mass") :
                                                        g.at >= h.at - Day /\ g.id < h.id})}
    IN /\ \E h \in history : h.profile = p /\ h.reason = "pass" /\ h.at = t
       /\ Cardinality(abuse) < AbuseMax

-----------------------------------------------------------------------------
(***************************************************************************)
(* What the coordinator concludes from a losslessness measurement          *)
(* (ws/losslessness.go).  For each position the provider reports the K     *)
(* likeliest tokens of plain and of speculative decoding, the masses of    *)
(* their union in both, and what is left outside it.  Masses are integers  *)
(* out of Mass; TV distances are kept doubled, in the same unit.           *)
(***************************************************************************)

CONSTANTS Vocab, Mass,
          SmallK, LargeK,            \* 64 and 256
          TailRetry, TailMax,        \* tail mass limits at SmallK and at LargeK
          WarnUpper, WarnMedian,     \* thresholds on the upper end
          QuarAny, QuarMedian,       \* and on the lower end
          MaxPositions

VARIABLES truth,   \* per position, the two whole distributions
          k,       \* RequestedK
          report,  \* per position, what the provider reports
          verdictReason

verdictVars == <<truth, k, report, verdictReason>>

Tokens == 0..Vocab - 1
Total(d) == FoldSet(LAMBDA t, s : s + d[t], 0, DOMAIN d)
Distributions == {d \in [Tokens -> 0..Mass] : Total(d) = Mass}
Abs(n) == IF n < 0 THEN -n ELSE n
Wanted == IF Vocab < k THEN Vocab ELSE k

\* The order both lists are in: by mass, and equal masses by token id.
Before(d, a, b) == d[a] > d[b] \/ (d[a] = d[b] /\ a < b)

\* What an honest provider lists.
TopK(d) == SubSeq(SetToSortSeq(Tokens, LAMBDA a, b : Before(d, a, b)), 1, Wanted)

Lists == {s \in UNION {[1..n -> Tokens] : n \in 0..Wanted} : IsInjective(s)}

\* A report with lists p and s, and the masses the distributions really have.
Report(d, p, s) ==
  LET union == Range(p) \union Range(s)
  IN [plainTop |-> p, specTop |-> s, support |-> union,
      plain |-> [t \in union |-> d.plain[t]], spec |-> [t \in union |-> d.spec[t]],
      plainTail |-> Mass - Total([t \in union |-> d.plain[t]]),
      specTail |-> Mass - Total([t \in union |-> d.spec[t]])]

Honest(d) == Report(d, TopK(d.plain), TopK(d.spec))

VerdictInit ==
  /\ k \in {SmallK, LargeK}
  /\ truth \in UNION {[1..n -> [plain : Distributions, spec : Distributions]] : n \in 1..MaxPositions}
  /\ report = <<>> /\ verdictReason = "none"

\* The provider measures; if there is one position, its lists may be any lists.
Measure ==
  /\ report = <<>>
  /\ \/ report' = [i \in DOMAIN truth |-> Honest(truth[i])]
     \/ /\ Len(truth) = 1
        /\ \E p, s \in Lists : report' = <<Report(truth[1], p, s)>>
     \/ /\ Len(truth) = 1
        /\ \E wrong \in {-1, 1} : report' = <<[Honest(truth[1]) EXCEPT !.specTail = @ + wrong]>>
  /\ UNCHANGED <<truth, k, verdictReason>>

\* topKSorted.
TopKSorted(ids, masses) ==
  /\ Len(ids) = Wanted /\ IsInjective(ids) /\ Range(ids) \subseteq DOMAIN masses
  /\ \A i \in 1..Len(ids) - 1 : Before(masses, ids[i], ids[i + 1])
  /\ \A t \in DOMAIN masses \ Range(ids) : Before(masses, ids[Len(ids)], t)

\* validMass, and that support and tail make up the whole.
MassesAddUp(r) ==
  /\ {r.plainTail, r.specTail} \subseteq 0..Mass
  /\ Total(r.plain) + r.plainTail = Mass /\ Total(r.spec) + r.specTail = Mass

\* ValidateLosslessnessDistribution, of a position whose identity is the one asked for.
Validate(r) ==
  IF ~( /\ TopKSorted(r.plainTop, r.plain) /\ TopKSorted(r.specTop, r.spec)
        /\ r.support = Range(r.plainTop) \union Range(r.specTop)
        /\ Cardinality(r.support) >= Wanted /\ Cardinality(r.support) <= 2 * k
        /\ MassesAddUp(r) )
    THEN "malformed_distribution"
  ELSE IF k = LargeK /\ (r.plainTail > TailMax \/ r.specTail > TailMax)
    THEN "tail_mass_high" ELSE "valid"

SupportDiff(r) == Total([t \in r.support |-> Abs(r.plain[t] - r.spec[t])])

\* ComputeTVInterval.
TVLower(r) == SupportDiff(r) + Abs(r.plainTail - r.specTail)
TVUpper(r) == SupportDiff(r) + r.plainTail + r.specTail

\* LosslessnessRequiresK256Retry.
RequiresRetry(r) ==
  /\ k = SmallK
  /\ \/ r.plainTail > TailRetry \/ r.specTail > TailRetry
     \/ TVUpper(r) >= WarnUpper \/ TVLower(r) = QuarMedian

\* losslessnessCanonicalMedian.
Median(s) == LET sorted == SortSeq(s, LAMBDA a, b : a < b) IN sorted[(Len(sorted) - 1) \div 2 + 1]

Quarantined(lower) == (\E i \in DOMAIN lower : lower[i] > QuarAny) \/ Median(lower) > QuarMedian

Warned(upper) == (\E i \in DOMAIN upper : upper[i] > WarnUpper) \/ Median(upper) > WarnMedian

\* losslessnessReasonForMeasurement: the first position that is not valid decides.
ReasonForMeasurement(rs) ==
  LET verdict(r) == IF Validate(r) # "valid" THEN Validate(r)
                    ELSE IF RequiresRetry(r) THEN "tail_mass_high" ELSE "valid"
      bad == {i \in DOMAIN rs : verdict(rs[i]) # "valid"}
  IN IF bad # {} THEN verdict(rs[Min(bad)])
     ELSE IF Quarantined([i \in DOMAIN rs |-> TVLower(rs[i])]) THEN "quarantine"
     ELSE IF Warned([i \in DOMAIN rs |-> TVUpper(rs[i])]) THEN "warn" ELSE "pass"

Judge ==
  /\ report # <<>> /\ verdictReason = "none"
  /\ verdictReason' = ReasonForMeasurement(report)
  /\ UNCHANGED <<truth, k, report>>

VerdictNext == Measure \/ Judge

\* The doubled total variation distance of the two whole distributions.
TV(d) == Total([t \in Tokens |-> Abs(d.plain[t] - d.spec[t])])

VerdictTypeOK ==
  /\ k \in {SmallK, LargeK}
  /\ verdictReason \in {"none", "malformed_distribution", "tail_mass_high", "quarantine", "warn", "pass"}

\* The interval computed from a valid report encloses the true distance of the
\* two distributions, whichever tokens the report chose to list.
IntervalEncloses ==
  \A i \in DOMAIN report : Validate(report[i]) = "valid" =>
    TVLower(report[i]) <= TV(truth[i]) /\ TV(truth[i]) <= TVUpper(report[i])

\* A pass means that no position is really further apart than the warning
\* threshold, and a quarantine that one really is further than the lower of the
\* two quarantine thresholds.
VerdictIsSound ==
  /\ verdictReason = "pass" => \A i \in DOMAIN truth : TV(truth[i]) <= WarnUpper
  /\ verdictReason = "quarantine" => \E i \in DOMAIN truth : TV(truth[i]) > QuarMedian
=============================================================================
