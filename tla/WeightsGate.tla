---------------------------- MODULE WeightsGate -----------------------------
(***************************************************************************)
(* The autotune hello gate of the coordinator ("proof of weights"): what a *)
(* provider may serve is bounded by the benchmarks its hardware evidence   *)
(* verified.  The gate is judged when the provider connects, again at      *)
(* every heartbeat (the model may change), by a periodic sweep (the        *)
(* evidence may expire) and by a configuration reload, which may turn the  *)
(* gate on or off while sessions are live.  The four meet in three route   *)
(* flags of the pool entry: "ceiling", "stale" and "sandbox".              *)
(*                                                                         *)
(* A model stands for its catalog row; its number is the row's min_ram_gb. *)
(* proofOfWeightsAdmissionMu is held for reading by v1 hellos (one step    *)
(* here), by the registration half of v2 hellos and by the sweep, and for  *)
(* writing by a reload; heartbeats do not take it.                         *)
(***************************************************************************)
EXTENDS Naturals, FiniteSets, FiniteSetsExt

CONSTANTS
  Sessions,    \* provider sessions, each of its own provider
  Models,      \* models a provider may claim: their min_ram_gb, from 1
  Rows,        \* [release -> [model -> row identity, or None when uncatalogued]]
  Reports,     \* verified hardware evidence: [hw, benchmarks]
  MaxReloads,  \* bound on reloads
  MaxReports,  \* bound on changes of the evidence table
  MaxSwitches, \* bound on model changes by heartbeats
  MaxFails,    \* bound on failing evidence lookups
  MaxHellos,   \* bound on connections
  None

VARIABLES
  gate,     \* proofOfWeights.RequireAutotuneHelloGate
  evidence, \* the provider's latest verified evidence within the TTL, or None
  entry,    \* the session's pool entry, or None
  hello,    \* a v2 hello on its way to registration, or None
  beat,     \* the heartbeat being handled, or None
  reload,   \* None, or the configuration being installed and what is left to revalidate
  sweep,    \* None, or the verdict the sweep is about to store
  used      \* how much of each bound is spent

vars == <<gate, evidence, entry, hello, beat, reload, sweep, used>>

Flags == {"ceiling", "stale", "sandbox"}

(* How a hello is admitted: it names a release, or it has no catalog metadata; *)
(* then it is "legacy", and "legacy_bridge" while the bridge is active.        *)
Unnamed == {"legacy", "legacy_bridge"}
Releases == {"current", "previous"} \cup Unnamed
CatalogOf(release) == IF release = "previous" THEN release ELSE "current"

Live(s) == entry[s] # None

(* The bounds. *)
Spend(b, max) == used[b] < max /\ used' = [used EXCEPT ![b] = @ + 1]

(* Routable and ServingCapable: the part of the tests that reads the flags. *)
Routable(s) == Live(s) /\ entry[s].flags = {} /\ entry[s].release # "legacy"

(* benchmarkPassesGate: the measured row is the catalog's row of that model. *)
BenchmarkPasses(release, b) == b.row # None /\ b.row = Rows[release][b.model]

(* ResolveMaxAdmission: the largest model with a passing benchmark; 0 stands *)
(* for the error "no passing benchmark rows".                               *)
ResolveMaxAdmission(release, report) ==
  Max({0} \cup {b.model : b \in {x \in report.benchmarks : BenchmarkPasses(release, x)}})

(* The row of the model in the provider's catalog is still the active one. *)
ActiveRow(release, m) ==
  LET row == Rows[CatalogOf(release)][m] IN row # None /\ row = Rows["current"][m]

(* catalogAdmission: a hello that names a release needs the active row. *)
CatalogAdmission(release, m) == release \in Unnamed \/ ActiveRow(release, m)

(* catalogMinRAMForProviderModel: 0 when the model is not catalogued. *)
CatalogMinRAM(release, m) == IF ActiveRow(release, m) THEN m ELSE 0

(* admissionCeilingRouteVerdict: excluded or not. *)
CeilingVerdict(e, m) ==
  /\ e.cap > 0
  /\ LET claimed == CatalogMinRAM(e.release, m) IN claimed = 0 \/ claimed > e.cap

(* admissionEvidenceStaleVerdict. *)
EvidenceStale(s, e, fails) ==
  \/ fails \/ evidence[s] = None \/ e.tuple = None
  \/ evidence[s].hw # e.tuple
  \/ LET cap == ResolveMaxAdmission(CatalogOf(e.release), evidence[s]) IN cap = 0 \/ cap < e.cap

(* EvaluateHelloGate: the cap the evidence supports and whether the claimed *)
(* model is within it.                                                      *)
EvaluateHelloGate(report, m) ==
  LET cap == ResolveMaxAdmission("current", report)
  IN [cap |-> cap, allowed |-> cap > 0 /\ Rows["current"][m] # None /\ m <= cap]

(* What checkAutotuneHelloGate answers: the observation it passes on, or None *)
(* when it closes the connection.                                             *)
Observed(cap, tuple, sandboxed) == [cap |-> cap, tuple |-> tuple, sandboxed |-> sandboxed]
CheckHelloGate(s, m, fails) ==
  LET report == evidence[s]
      decision == EvaluateHelloGate(report, m)
  IN CASE fails -> IF gate THEN None ELSE Observed(0, None, FALSE)
       [] ~fails /\ report = None -> Observed(0, None, gate)
       [] ~fails /\ report # None ->
            IF gate /\ ~decision.allowed THEN None
            ELSE Observed(decision.cap, report.hw, FALSE)

Entry(release, m, o, flags, bypass) ==
  [release |-> release, model |-> m, cap |-> o.cap, tuple |-> o.tuple,
   flags |-> flags, bypass |-> bypass]
-----------------------------------------------------------------------------
(* The evidence table changes: a report is verified, replaced or expires. *)
ReportArrives(s) ==
  /\ Spend("reports", MaxReports)
  /\ \E r \in Reports \cup {None} : r # evidence[s] /\ evidence' = [evidence EXCEPT ![s] = r]
  /\ UNCHANGED <<gate, entry, hello, beat, reload, sweep>>

Lookup(fails) == IF fails THEN Spend("fails", MaxFails) ELSE UNCHANGED used

(* The flags prepareProviderAdmission gives the entry it builds, from the *)
(* gate as it is then.                                                    *)
PreparedFlags(release, m, o) ==
  LET e == Entry(release, m, o, {}, FALSE)
  IN IF gate THEN (IF CeilingVerdict(e, m) THEN {"ceiling"} ELSE {}) \cup
                  (IF o.sandboxed THEN {"sandbox"} ELSE {})
             ELSE {}

(* A v1 hello: check, prepare and register under the read lock.  A sandboxed *)
(* session whose bearer was not validated has bypassed the credential check. *)
HelloV1(s, m, release, fails, bearer) ==
  /\ reload = None /\ ~Live(s) /\ hello[s] = None
  /\ used.hellos < MaxHellos /\ (fails => used.fails < MaxFails)
  /\ used' = [used EXCEPT !.hellos = @ + 1, !.fails = IF fails THEN @ + 1 ELSE @]
  /\ CatalogAdmission(release, m)
  /\ LET o == CheckHelloGate(s, m, fails) IN
       /\ o # None
       /\ LET flags == PreparedFlags(release, m, o) IN
            entry' = [entry EXCEPT ![s] =
                        Entry(release, m, o, flags, "sandbox" \in flags /\ ~bearer)]
  /\ UNCHANGED <<gate, evidence, hello, beat, reload, sweep>>

(* A v2 hello checks the gate without the lock ... *)
HelloV2(s, m, release, fails) ==
  /\ ~Live(s) /\ hello[s] = None
  /\ used.hellos < MaxHellos /\ (fails => used.fails < MaxFails)
  /\ used' = [used EXCEPT !.hellos = @ + 1, !.fails = IF fails THEN @ + 1 ELSE @]
  /\ CatalogAdmission(release, m)
  /\ LET o == CheckHelloGate(s, m, fails) IN
       /\ o # None
       /\ hello' = [hello EXCEPT ![s] = [step |-> "checked", release |-> release,
                                         model |-> m, seen |-> o, flags |-> {}]]
  /\ UNCHANGED <<gate, evidence, entry, beat, reload, sweep>>

(* ... reads the gate again for the entry's flags ... *)
PrepareV2(s) ==
  /\ hello[s] # None /\ hello[s].step = "checked"
  /\ hello' = [hello EXCEPT ![s].step = "prepared",
                 ![s].flags = PreparedFlags(hello[s].release, hello[s].model, hello[s].seen)]
  /\ UNCHANGED <<gate, evidence, entry, beat, reload, sweep, used>>

(* ... and, after the challenge, checks it once more under the lock, when the *)
(* gate is on, before it registers.                                          *)
RegisterV2(s, fails, bearer) ==
  /\ hello[s] # None /\ hello[s].step = "prepared" /\ reload = None
  /\ Lookup(fails)
  /\ hello' = [hello EXCEPT ![s] = None]
  /\ LET h == hello[s]
         o == IF gate THEN CheckHelloGate(s, h.model, fails) ELSE h.seen
         flags == IF ~gate \/ o = None THEN h.flags
                  ELSE (h.flags \ {"sandbox"}) \cup (IF o.sandboxed THEN {"sandbox"} ELSE {})
     IN /\ fails => gate
        /\ entry' = IF o = None THEN entry
                    ELSE [entry EXCEPT ![s] =
                            Entry(h.release, h.model, o, flags, "sandbox" \in flags /\ ~bearer)]
  /\ UNCHANGED <<gate, evidence, beat, reload, sweep>>

(* The connection ends. *)
Leave(s) ==
  /\ Live(s)
  /\ entry' = [entry EXCEPT ![s] = None]
  /\ beat' = [beat EXCEPT ![s] = None]
  /\ UNCHANGED <<gate, evidence, hello, reload, sweep, used>>
-----------------------------------------------------------------------------
(* handleHeartbeat stores the model the provider serves now ... *)
Heartbeat(s, m) ==
  /\ Live(s) /\ beat[s] = None
  /\ IF m = entry[s].model THEN UNCHANGED used ELSE Spend("switches", MaxSwitches)
  /\ entry' = [entry EXCEPT ![s].model = m]
  /\ beat' = [beat EXCEPT ![s] = [step |-> "applied", excluded |-> FALSE]]
  /\ UNCHANGED <<gate, evidence, hello, reload, sweep>>

(* ... then applyAdmissionCeilingRouteExclusion reads the gate and judges ... *)
Judge(s) ==
  /\ Live(s) /\ beat[s] # None /\ beat[s].step = "applied"
  /\ beat' = [beat EXCEPT ![s] =
       [step |-> "judged", excluded |-> gate /\ CeilingVerdict(entry[s], entry[s].model)]]
  /\ UNCHANGED <<gate, evidence, entry, hello, reload, sweep, used>>

(* ... and SetAdmissionCeilingExcluded stores the verdict. *)
StoreCeiling(s) ==
  /\ Live(s) /\ beat[s] # None /\ beat[s].step = "judged"
  /\ entry' = [entry EXCEPT ![s].flags = IF beat[s].excluded THEN @ \cup {"ceiling"}
                                         ELSE @ \ {"ceiling"}]
  /\ beat' = [beat EXCEPT ![s] = None]
  /\ UNCHANGED <<gate, evidence, hello, reload, sweep, used>>

(* runAdmissionEvidenceRevalidationSweep looks one provider's evidence up ... *)
SweepReads(s, fails) ==
  /\ reload = None /\ sweep = None /\ gate /\ Live(s) /\ entry[s].cap > 0
  /\ Lookup(fails)
  /\ sweep' = [session |-> s, stale |-> EvidenceStale(s, entry[s], fails)]
  /\ UNCHANGED <<gate, evidence, entry, hello, beat, reload>>

(* ... and stores the verdict if the session is still the one it judged. *)
SweepStores ==
  /\ sweep # None
  /\ entry' = IF ~Live(sweep.session) THEN entry
              ELSE [entry EXCEPT ![sweep.session].flags =
                      IF sweep.stale THEN @ \cup {"stale"} ELSE @ \ {"stale"}]
  /\ sweep' = None
  /\ UNCHANGED <<gate, evidence, hello, beat, reload, used>>
-----------------------------------------------------------------------------
(* SetProofOfWeightsConfig, under the write lock: with the gate coming on, *)
(* QuarantineForProofOfWeightsReload first takes every session out of      *)
(* routing ...                                                             *)
Quarantined(on, e) == IF on /\ e # None THEN [e EXCEPT !.flags = @ \cup {"stale"}] ELSE e
ReloadStarts(on) ==
  /\ reload = None /\ sweep = None
  /\ Spend("reloads", MaxReloads)
  /\ entry' = [s \in Sessions |-> Quarantined(on, entry[s])]
  /\ reload' = [on |-> on, step |-> "publish", todo |-> [s \in {} |-> 1]]
  /\ UNCHANGED <<gate, evidence, hello, beat, sweep>>

(* ... then the new configuration is published and the pool is read ... *)
ReloadPublishes ==
  /\ reload # None /\ reload.step = "publish"
  /\ gate' = reload.on
  /\ reload' = [reload EXCEPT !.step = "each",
                  !.todo = [s \in {x \in Sessions : Live(x)} |-> entry[s].model]]
  /\ UNCHANGED <<evidence, entry, hello, beat, sweep, used>>

(* ... and each session of that reading is judged: with the gate off the *)
(* flags are cleared, but not the sandbox of a session that bypassed the *)
(* credential check ...                                                  *)
Cleared(e) == [e EXCEPT !.flags = IF e.bypass THEN @ \cap {"sandbox"} ELSE {}]

(* ... with the gate on, revalidateProofOfWeightsAdmissions replaces all three *)
(* flags, judging the model the reading saw.                                   *)
Revalidated(s, e, seen, fails) ==
  LET flags == IF e.cap = 0 \/ e.tuple = None THEN {"sandbox"}
               ELSE IF EvidenceStale(s, e, fails) THEN {"stale"}
               ELSE IF CeilingVerdict(e, seen) THEN {"ceiling"} ELSE {}
  IN [e EXCEPT !.flags = flags, !.bypass = @ /\ "sandbox" \in flags]
ReloadJudges(s, fails) ==
  /\ reload # None /\ reload.step = "each" /\ s \in DOMAIN reload.todo
  /\ Lookup(fails) /\ (fails => reload.on /\ Live(s))
  /\ reload' = [reload EXCEPT !.todo = [x \in DOMAIN reload.todo \ {s} |-> reload.todo[x]]]
  /\ entry' = IF ~Live(s) THEN entry
              ELSE [entry EXCEPT ![s] = IF reload.on
                      THEN Revalidated(s, entry[s], reload.todo[s], fails) ELSE Cleared(entry[s])]
  /\ UNCHANGED <<gate, evidence, hello, beat, sweep>>

ReloadEnds ==
  /\ reload # None /\ reload.step = "each" /\ DOMAIN reload.todo = {}
  /\ reload' = None
  /\ UNCHANGED <<gate, evidence, entry, hello, beat, sweep, used>>
-----------------------------------------------------------------------------
Init ==
  /\ gate \in BOOLEAN
  /\ evidence \in [Sessions -> Reports \cup {None}]
  /\ entry = [s \in Sessions |-> None] /\ hello = entry /\ beat = entry
  /\ reload = None /\ sweep = None
  /\ used = [b \in {"reloads", "reports", "switches", "fails", "hellos"} |-> 0]

Connects(s) ==
  \/ \E m \in Models, r \in Releases, f \in BOOLEAN :
       \/ \E b \in BOOLEAN : HelloV1(s, m, r, f, b)
       \/ HelloV2(s, m, r, f)
  \/ PrepareV2(s)
  \/ \E f, b \in BOOLEAN : RegisterV2(s, f, b)
Beats(s) == (\E m \in Models : Heartbeat(s, m)) \/ Judge(s) \/ StoreCeiling(s)
Sweeps(s) == (\E f \in BOOLEAN : SweepReads(s, f)) \/ SweepStores
Reloads ==
  \/ \E on \in BOOLEAN : ReloadStarts(on)
  \/ ReloadPublishes \/ ReloadEnds
  \/ \E s \in Sessions, f \in BOOLEAN : ReloadJudges(s, f)

Next ==
  \/ \E s \in Sessions : Connects(s) \/ ReportArrives(s) \/ Leave(s) \/ Beats(s) \/ Sweeps(s)
  \/ Reloads

(* Heartbeats keep arriving (a silent session is closed by the heartbeat   *)
(* monitor), the sweep runs on a ticker and a reload runs to its end.      *)
Fair ==
  /\ \A s \in Sessions :
       /\ WF_vars(Live(s) /\ Heartbeat(s, entry[s].model))
       /\ WF_vars(Judge(s)) /\ WF_vars(StoreCeiling(s))
       /\ WF_vars(SweepReads(s, FALSE))
  /\ WF_vars(SweepStores) /\ WF_vars(ReloadPublishes) /\ WF_vars(ReloadEnds)
  /\ \A s \in Sessions : WF_vars(ReloadJudges(s, FALSE))
-----------------------------------------------------------------------------
(* The variables have the shape the code gives them. *)
TypeOK ==
  /\ gate \in BOOLEAN
  /\ \A s \in Sessions :
       /\ evidence[s] \in Reports \cup {None}
       /\ Live(s) => /\ entry[s].model \in Models /\ entry[s].cap \in Models \cup {0}
                     /\ entry[s].flags \subseteq Flags
                     /\ entry[s].bypass => "sandbox" \in entry[s].flags
       /\ beat[s] # None => Live(s)
  /\ sweep # None => reload = None

(* While the published gate is on, during a reload too, no session that was *)
(* admitted without verified evidence is routed to: not one that connected  *)
(* under a gate that was off, not one whose v2 handshake spans the reload.  *)
RoutableIsEvidenced ==
  \A s \in Sessions : gate /\ Routable(s) => entry[s].cap > 0 /\ entry[s].tuple # None

(* A session that was let in without a validated bearer because it was      *)
(* sandboxed stays sandboxed for as long as it lives, whatever the reloads: *)
(* turning the gate off must not turn it into a serving session.            *)
SandboxIsNotPromotedStep ==
     \A s \in Sessions :
       Live(s) /\ entry[s].bypass /\ entry'[s] # None => "sandbox" \in entry'[s].flags

(* Unfit: the model served is over the admitted ceiling, or the evidence the *)
(* session was admitted on is gone, another machine's, or worth less.        *)
Unfit(s) ==
  Live(s) /\ (CeilingVerdict(entry[s], entry[s].model) \/ EvidenceStale(s, entry[s], FALSE))

(* Whatever the heartbeats, sweeps and reloads did to each other's flags: once *)
(* the configuration, the evidence and the models stop changing, an unfit      *)
(* session is out of routing and stays out.                                    *)
ExclusionSettlesTo == \A s \in Sessions : gate /\ Unfit(s) => ~Routable(s)
=============================================================================
