------------------------- MODULE BillingSettlement --------------------------
(***************************************************************************)
(* Settlement by receipts, and the migration of the tables it uses (prefix *)
(* schema): two parts that share no state.                                 *)
(***************************************************************************)
EXTENDS Integers, FiniteSets, FiniteSetsExt

-----------------------------------------------------------------------------
(***************************************************************************)
(* Receipt settlement of the coordinator: the output an attempt delivered  *)
(* (billing/settlement_output.go), the verdict on its receipt              *)
(* (settlement_receipts.go, settlement_verifier.go) and the finality that  *)
(* the gateway asks for before it keeps or returns a buyer's reservation   *)
(* (settlement_finality.go).  The gateway knows an external request, which *)
(* may have been served by several internal ones; each of these is run by  *)
(* a recorder that hands its attempts consecutive byte ranges.             *)
(* Signatures, digests and the fields of a receipt are abstracted to the   *)
(* check of VerifySettlementReceipt that they fail.                        *)
(***************************************************************************)

CONSTANTS
  Histories, \* the sets of attempts considered: sets of records [req, run, n, policy, free];
             \* free: the ledger charges no prompt tokens for the attempt
  MaxLen     \* bound: bytes an attempt delivers

VARIABLES
  live,      \* the attempts that are made for the external request
  ended,     \* attempts that are over
  cursor,    \* outputCursorByte of each run
  out,       \* settlement_attempt_outputs
  asked,     \* attempts whose receipt the recorder has handed in
  verdict,   \* settlement_receipt_verdicts: outcome, or "none"
  due,       \* attempts whose receipt deadline has passed
  led,       \* the attempt's credit: "none", "missing", "ok", "quarantined"
  ans        \* the last answer given to the gateway since an attempt ended
             \* or a receipt was handed in

vars == <<live, ended, cursor, out, asked, verdict, due, led, ans>>

Atts == UNION Histories
Reqs == {a.req : a \in live}
Runs == {a.run : a \in Atts}

NoOut == [avail |-> FALSE, s |-> 0, e |-> -1, over |-> FALSE]
NoAnswer == [outcome |-> "none", paid |-> {}]

Answered(x) == x.outcome \notin {"none", "pending"}

Outcomes == {"pending", "verified", "quarantined", "zero_settled"}
Closed(v) == v \in {"verified", "quarantined", "zero_settled"}

HasOut(a) == out[a] # NoOut

----------------------------------------------------------------------------
(* The output of an attempt. *)

(* Mutant: outputs are compared with earlier attempts only. *)
ClashingEarlier(a, s, e) ==
  {b \in Atts \ {a} : b.req = a.req /\ b.n < a.n /\ HasOut(b) /\ ~(out[b].e <= s \/ out[b].s >= e)}

(* The query of InsertSettlementAttemptOutput: outputs of the same request *)
(* whose bytes intersect [s, e), that are the same output, or whose place  *)
(* contradicts the order of the attempts.                                  *)
Clashing(a, s, e) ==
  {b \in Atts \ {a} :
     /\ b.req = a.req /\ HasOut(b)
     /\ \/ ~(out[b].e <= s \/ out[b].s >= e)
        \/ out[b].avail /\ out[b].s = s /\ out[b].e = e
        \/ b.n < a.n /\ out[b].s > s
        \/ b.n > a.n /\ out[b].s < s}

Starts(a) == /\ a \in live \ ended
             /\ \A b \in live : b.run = a.run /\ b.n < a.n => b \in ended

(* The attempt is over: its credit is in the ledger, or is left to the     *)
(* recovery scan, and its output is recorded; a clash marks both outputs.  *)
(* An output that is not available has an empty range.                     *)
InsertSettlementAttemptOutput(a, len, avail, credited) ==
  /\ Starts(a)
  /\ ~avail => len = 0
  /\ ended' = ended \union {a}
  /\ led' = [led EXCEPT ![a] = IF credited THEN "ok" ELSE "missing"]
  /\ LET s == IF avail THEN cursor[a.run] ELSE 0
         clash == IF avail THEN Clashing(a, s, s + len) ELSE {}
     IN /\ out' = [b \in Atts |->
             CASE b = a -> [avail |-> avail, s |-> s, e |-> s + len, over |-> clash # {}]
               [] b \in clash /\ out[b].avail -> [out[b] EXCEPT !.over = TRUE]
               [] OTHER -> out[b]]
        /\ cursor' = [cursor EXCEPT ![a.run] = IF avail THEN s + len ELSE @]
  /\ ans' = NoAnswer
  /\ UNCHANGED <<live, asked, verdict, due>>

(* The output could not be written: the cursor stays. *)
OutputLost(a) ==
  /\ Starts(a)
  /\ ended' = ended \union {a}
  /\ led' = [led EXCEPT ![a] = "ok"]
  /\ ans' = NoAnswer
  /\ UNCHANGED <<live, cursor, out, asked, verdict, due>>

----------------------------------------------------------------------------
(* Verdicts. *)

(* A missing receipt is waited for until its deadline. *)
PendingUntilSettlementDeadline(a) == IF a \in due THEN "quarantined" ELSE "pending"

(* A receipt that came with an attempt is "valid", "zero" (valid, for an   *)
(* attempt that delivered nothing and did not finish), or fails one of the *)
(* checks below.                                                           *)
Receipts == {"missing", "malformed", "foreign_key", "wrong_context", "wrong_usage", "zero", "valid"}

ParseSettlementReceiptEnvelope(receipt) == receipt # "malformed"
ReceiptKeyMatches(receipt)              == receipt # "foreign_key"
TupleMatchesSettlementContext(receipt)  == receipt # "wrong_context"
TupleUsageMatchesLedger(receipt)        == receipt # "wrong_usage"

(* The verdict, by the checks in their order. *)
VerifySettlementReceipt(a, receipt) ==
  IF receipt = "missing" THEN PendingUntilSettlementDeadline(a)
  ELSE IF \/ ~out[a].avail \/ out[a].over \/ a \in due
          \/ ~ParseSettlementReceiptEnvelope(receipt)
          \/ ~ReceiptKeyMatches(receipt)
          \/ ~TupleMatchesSettlementContext(receipt)
          \/ ~TupleUsageMatchesLedger(receipt)
       THEN "quarantined"
       ELSE IF receipt = "zero" THEN "zero_settled" ELSE "verified"

(* applySettlementReceiptVerdict: a closed verdict is final; without the   *)
(* attempt's output there is none.                                         *)
ApplySettlementReceiptVerdict(a, receipt) ==
  IF Closed(verdict[a]) \/ ~HasOut(a) THEN verdict[a]
  ELSE VerifySettlementReceipt(a, receipt)

(* The recorder hands in what came with the attempt. *)
IngestSettlementReceipt(a, receipt) ==
  /\ a \in ended /\ a \notin asked
  /\ receipt = "zero" => HasOut(a) /\ out[a].s = out[a].e
  /\ asked' = asked \union {a}
  /\ verdict' = [verdict EXCEPT ![a] = ApplySettlementReceiptVerdict(a, receipt)]
  /\ ans' = NoAnswer
  /\ UNCHANGED <<live, ended, cursor, out, due, led>>

DeadlinePasses(a) ==
  /\ a \in ended \ due
  /\ due' = due \union {a}
  /\ UNCHANGED <<live, ended, cursor, out, asked, verdict, led, ans>>

(* The recovery scan writes the credit the hot path could not; when the    *)
(* verified receipt cannot price it, credit and verdict are quarantined.   *)
RecoverCredit(a, priced) ==
  /\ led[a] = "missing"
  /\ ~priced => verdict[a] = "verified" /\ ~out[a].over
  /\ led' = [led EXCEPT ![a] = IF priced THEN "ok" ELSE "quarantined"]
  /\ verdict' = IF priced THEN verdict ELSE [verdict EXCEPT ![a] = "quarantined"]
  /\ UNCHANGED <<live, ended, cursor, out, asked, due, ans>>

----------------------------------------------------------------------------
(* Finality. *)

Rows(r, v) == {a \in Atts : a.req = r /\ v[a] # "none"}

(* requestSettlementUsage: verified attempts are paid unless their output  *)
(* overlaps another's.                                                     *)
Paid(r, v) == {a \in Rows(r, v) : v[a] = "verified" /\ ~out[a].over}

(* What the ledger charges for an attempt, in tokens. *)
Tokens(a) == (IF a.free THEN 0 ELSE 1) + out[a].e - out[a].s
BlockedTokens(r, v) == \E a \in Rows(r, v) : v[a] = "verified" /\ out[a].over /\ Tokens(a) > 0

(* A verified attempt without a usable credit is an error. *)
UsageMissing(r, v) == \E a \in Rows(r, v) : v[a] = "verified" /\ led[a] # "ok"

(* RequestSettlementFinality: one internal request.  It is open while an    *)
(* attempt is pending, and for ever when its attempts were routed under     *)
(* different policies; else verified attempts decide, then refunds.         *)
Open(r, v) ==
  \/ \E a \in Rows(r, v) : v[a] = "pending"
  \/ \E a, b \in Rows(r, v) : a.policy # b.policy
Refunds(r, v) == {a \in Rows(r, v) : v[a] \in {"quarantined", "zero_settled"}}
FirstOf(S) == CHOOSE a \in S : \A b \in S : a.n <= b.n

(* aggregateExternalRequestFinality, and the check that a verified answer   *)
(* is not given while an internal request has no verdict yet.               *)
AggregateExternalRequestFinality(v) ==
  LET found == {r \in Reqs : Rows(r, v) # {}}
      policy(r) == FirstOf(Rows(r, v)).policy
      missing == \E r \in Reqs \ found : \E a \in ended : a.req = r
      refunded == {r \in found : Refunds(r, v) # {}}
  IN CASE \/ \E r \in found : Open(r, v)
          \/ \E q, r \in found : policy(q) # policy(r) -> "pending"
       [] OTHER -> IF \E r \in found : Paid(r, v) # {} THEN IF missing THEN "pending" ELSE "verified"
                   ELSE IF refunded # {} THEN v[FirstOf(Refunds(Min(refunded), v))]
                   ELSE IF \E r \in found : BlockedTokens(r, v) THEN "overlap_blocked"
                   ELSE "pending"

(* The gateway asks, by the external id: no internal request has it, so    *)
(* the direct look-up finds nothing.  A pending verdict whose deadline has *)
(* passed is closed first; the answer is then read from the rows.          *)
Poll ==
  LET late == {a \in Atts : verdict[a] = "pending" /\ a \in due}
      v == [a \in Atts |-> IF a \in late THEN ApplySettlementReceiptVerdict(a, "missing") ELSE verdict[a]]
  IN /\ \E r \in Reqs : Rows(r, v) # {}
     /\ ~\E r \in Reqs : UsageMissing(r, v)
     /\ verdict' = v
     /\ ans' = [outcome |-> AggregateExternalRequestFinality(v),
                paid    |-> UNION {Paid(r, v) : r \in Reqs}]
     /\ UNCHANGED <<live, ended, cursor, out, asked, due, led>>

----------------------------------------------------------------------------

Init ==
  /\ live \in Histories
  /\ ended = {} /\ asked = {} /\ due = {}
  /\ cursor = [r \in Runs |-> 0]
  /\ out = [a \in Atts |-> NoOut]
  /\ verdict = [a \in Atts |-> "none"]
  /\ led = [a \in Atts |-> "none"]
  /\ ans = NoAnswer

Next ==
  \/ \E a \in live :
       \/ \E len \in 0..MaxLen, avail, credited \in BOOLEAN :
            InsertSettlementAttemptOutput(a, len, avail, credited)
       \/ OutputLost(a)
       \/ \E receipt \in Receipts : IngestSettlementReceipt(a, receipt)
       \/ DeadlinePasses(a)
       \/ \E priced \in BOOLEAN : RecoverCredit(a, priced)
  \/ Poll

Fair ==
  /\ WF_vars(Poll)
  /\ WF_vars(\E a \in live : DeadlinePasses(a))
  /\ WF_vars(\E a \in live : RecoverCredit(a, TRUE))

----------------------------------------------------------------------------

TypeOK ==
  /\ ended \subseteq live /\ live \in Histories /\ asked \subseteq ended /\ due \subseteq ended
  /\ \A a \in Atts : verdict[a] \in Outcomes \union {"none"}
  /\ \A a \in Atts : led[a] \in {"none", "missing", "ok", "quarantined"}
  /\ ans.paid \subseteq Atts

(* No byte of a request is paid for twice: the outputs an answer charges   *)
(* the buyer for are disjoint, whichever runs and providers made them.     *)
ByteBilledOnce ==
  Answered(ans) => \A a, b \in ans.paid :
    a # b /\ a.req = b.req => out[a].e <= out[b].s \/ out[b].e <= out[a].s

(* An answer is final: when the gateway asks again and no attempt has      *)
(* ended and no receipt has been handed in since, a closed answer is       *)
(* repeated, so what it did with the reservation stays right, whatever     *)
(* deadlines passed and credits were recovered meanwhile.                  *)
AnswerIsFinalStep ==
     Answered(ans) /\ ans' # NoAnswer => ans' = ans

(* A receipt that never comes cannot hold a reservation for ever: once     *)
(* every attempt is over and has a verdict, pending or not, the gateway's  *)
(* polling is given a closed answer.  Two kinds of request are left out,   *)
(* for which the code has none: one whose attempts were routed under       *)
(* different policies, and one with attempts that cost nothing.            *)
AnswerClosesFrom ==
  /\ \A a \in live : verdict[a] # "none" /\ Tokens(a) > 0
  /\ \A a, b \in live : a.policy = b.policy
AnswerClosesTo == Answered(ans)

-----------------------------------------------------------------------------
(***************************************************************************)
(* The start-up migration of the coordinator's billing tables              *)
(* (internal/billing/store.go, migrate): each step is a transaction or a   *)
(* statement that commits by itself, and the process may stop between any  *)
(* two of them and start again from the top.                               *)
(*                                                                         *)
(* A world is what an earlier release, or an earlier start of this one     *)
(* that stopped half-way, may have left: the form and the rows of the      *)
(* quarantine resolutions, the table a non-transactional rebuild left      *)
(* behind, the view and the triggers, the columns, the time texts not yet  *)
(* in the fixed-width form and the old unique index on the snapshots.      *)
(***************************************************************************)

CONSTANTS Worlds,       \* the databases a start may find
          MaxRowid,     \* rows of the time columns
          BatchSize,
          MaxCrashes,   \* bound: stops of the process
          MaxWrites,    \* bound: resolutions written while serving
          None

VARIABLES db,        \* the database
          pc,        \* the next step of migrate
          schemaCursor,    \* normalizeTimeColumn's last rowid
          made,      \* every resolution ever recorded
          crashes, writes

schemaVars == <<db, pc, schemaCursor, made, crashes, writes>>

Columns == {"prompt", "identity", "policy"}

(* db.res: the canonical table's rows or None; db.form: "v04" or "v05";
   db.left: the rows of ..._v05 or None; db.view, db.triggers: present;
   db.missing: columns not yet added; db.raw: rowids with other time texts;
   db.unique: the legacy unique index. *)

Go(step) == pc' = step /\ UNCHANGED <<made, crashes, writes>>

----------------------------------------------------------------------------
(* CREATE TABLE IF NOT EXISTS. *)
CreateTables ==
    /\ pc = "create"
    /\ db' = IF db.res = None THEN [db EXCEPT !.res = {}, !.form = "v05"] ELSE db
    /\ Go("recover") /\ UNCHANGED schemaCursor

(* recoverLedgerQuarantineResolutionsV05: an empty leftover is dropped, an
   empty canonical table is replaced by the leftover. *)
Recovered(d) ==
    IF d.left = {} THEN [d EXCEPT !.left = None]
    ELSE [d EXCEPT !.view = FALSE, !.res = d.left, !.form = "v05", !.left = None]

(* Both tables hold rows: the start fails. *)
Ambiguous(d) == d.left \notin {None, {}} /\ d.res # {}

RecoverV05 ==
    /\ pc = "recover" /\ ~Ambiguous(db)
    /\ db' = IF db.left = None THEN db ELSE Recovered(db)
    /\ Go("v05") /\ UNCHANGED schemaCursor

(* Both columns, the wider enumeration and no unique index on the credit. *)
HasV05Form(d) == d.form = "v05"

(* One transaction: copy, compare the counts, drop, rename. *)
EnsureV05 ==
    /\ pc = "v05"
    /\ db' = IF HasV05Form(db) THEN db
             ELSE [db EXCEPT !.form = "v05", !.left = None, !.view = FALSE]
    /\ Go("prompt") /\ UNCHANGED schemaCursor

(* ALTER TABLE ... ADD COLUMN for each missing column of a table. *)
Add(step, column, next) ==
    /\ pc = step
    /\ db' = [db EXCEPT !.missing = @ \ {column}]
    /\ Go(next)

(* The cached and provider-reported prompt tokens of a credit. *)
AddPromptColumns == Add("prompt", "prompt", "identity") /\ UNCHANGED schemaCursor

(* The columns of the provider identity snapshots. *)
AddIdentityColumns == Add("identity", "identity", "policy") /\ UNCHANGED schemaCursor

(* The settlement policy of a credit. *)
AddSettlementColumns == Add("policy", "policy", "times") /\ schemaCursor' = 0

(* The rows of the next batch, by rowid. *)
Batch ==
    {r \in (schemaCursor + 1)..MaxRowid : r <= schemaCursor + BatchSize}

(* normalizeTimeColumn stops after a batch shorter than the batch size. *)
LastBatch == Cardinality(Batch) < BatchSize

(* One batch: its rewrites are one transaction. *)
NormalizeBatch ==
    /\ pc = "times"
    /\ db' = [db EXCEPT !.raw = @ \ Batch]
    /\ schemaCursor' = schemaCursor + Cardinality(Batch)
    /\ Go(IF LastBatch THEN "guards" ELSE "times")

(* The settled-row triggers are dropped and created by separate statements. *)
DropTriggers ==
    /\ pc = "guards"
    /\ db' = [db EXCEPT !.triggers = FALSE]
    /\ Go("triggers") /\ UNCHANGED schemaCursor

CreateTriggers ==
    /\ pc = "triggers"
    /\ db' = [db EXCEPT !.triggers = TRUE]
    /\ Go("dropview") /\ UNCHANGED schemaCursor

DropView ==
    /\ pc = "dropview"
    /\ db' = [db EXCEPT !.view = FALSE]
    /\ Go("view") /\ UNCHANGED schemaCursor

(* rebuildSpec022PayableRequestCreditsView. *)
CreateView ==
    /\ pc = "view"
    /\ db' = [db EXCEPT !.view = TRUE]
    /\ Go("snapshots") /\ UNCHANGED schemaCursor

(* rebuildLegacyConfigSnapshots: one transaction. *)
RebuildSnapshots ==
    /\ pc = "snapshots"
    /\ db' = [db EXCEPT !.unique = FALSE]
    /\ Go("serving") /\ UNCHANGED schemaCursor

----------------------------------------------------------------------------
(* A quarantine resolution is recorded while the coordinator serves. *)
Resolve ==
    /\ pc = "serving" /\ writes < MaxWrites
    /\ \E r \in 1..(Cardinality(made) + 1) \ made :
           db' = [db EXCEPT !.res = @ \cup {r}] /\ made' = made \cup {r}
    /\ writes' = writes + 1
    /\ UNCHANGED <<pc, schemaCursor, crashes>>

Crash ==
    /\ pc # "create" /\ crashes < MaxCrashes
    /\ pc' = "create" /\ schemaCursor' = 0 /\ crashes' = crashes + 1
    /\ UNCHANGED <<db, made, writes>>

SchemaInit ==
    /\ db \in Worlds
    /\ pc = "create" /\ schemaCursor = 0 /\ crashes = 0 /\ writes = 0
    /\ made = (IF db.res = None THEN {} ELSE db.res) \cup (IF db.left = None THEN {} ELSE db.left)

Migrate ==
    \/ CreateTables \/ RecoverV05 \/ EnsureV05 \/ AddPromptColumns
    \/ AddIdentityColumns \/ AddSettlementColumns
    \/ NormalizeBatch \/ DropTriggers \/ CreateTriggers \/ DropView \/ CreateView
    \/ RebuildSnapshots

SchemaNext == Migrate \/ Resolve \/ Crash

(* migrate runs to its end unless the process stops. *)
SchemaFair == WF_schemaVars(Migrate)

SchemaTypeOK ==
    /\ pc \in {"create", "recover", "v05", "prompt", "identity", "policy", "times", "guards", "triggers",
               "dropview", "view", "snapshots", "serving"}
    /\ db.missing \subseteq Columns /\ db.raw \subseteq 1..MaxRowid
    /\ {db.view, db.triggers, db.unique} \subseteq BOOLEAN
    /\ schemaCursor \in 0..MaxRowid

(* No start loses a resolution: every one ever recorded is in the table or
   in the leftover of a rebuild, and a serving coordinator has them all in
   the table. *)
ResolutionsSurvive ==
    /\ pc # "create" => made \subseteq db.res \cup (IF db.left = None THEN {} ELSE db.left)
    /\ pc = "serving" => db.res = made /\ db.left = None

(* A coordinator that serves has the payable view, the triggers that freeze
   settled money, every column and the resolutions in the current form,
   wherever earlier starts stopped. *)
ServesComplete ==
    pc = "serving" => /\ db.view /\ db.triggers /\ ~db.unique
                      /\ db.missing = {} /\ db.form = "v05"

(* When it serves, every time text has the fixed-width form that string
   comparison orders by time. *)
BothFilled == db.res # {} /\ db.left \notin {None, {}}

(* A start ends serving unless both tables hold rows. *)
StartEndsFrom == pc = "create" /\ crashes = MaxCrashes
StartEndsTo == pc = "serving" \/ BothFilled
=============================================================================
