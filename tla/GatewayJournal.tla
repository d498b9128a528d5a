--------------------------- MODULE GatewayJournal ---------------------------
(***************************************************************************)
(* The settlement journal: append-only segments of effect, seal and        *)
(* quarantine records, keyed by request (the account and the effect kind   *)
(* are the same for every record modelled).  An effect and a quarantine    *)
(* record are fsynced, and all before them in the segment with them; a     *)
(* seal is not: a power loss may cut what a segment holds behind its last  *)
(* fsync.  A write may also fail, and leave a fragment of its line behind  *)
(* that makes the next line of the segment unreadable.                     *)
(***************************************************************************)
EXTENDS GatewayStore, Sequences

CONSTANTS
    SegmentMax,   \* records per segment (DefaultSegmentMaxBytes)
    JournalMax    \* records in all segments (DefaultMaxTotalBytes)

ASSUME JournalConstants == SegmentMax \in Nat \ {0} /\ JournalMax \in Nat

VARIABLES
    segs,       \* the segments created, oldest first: their readable records, how
                \* many of them are on disk for good, and whether the last write is
                \* older than the retention; a segment that was unlinked has no records
    open,       \* the process holds the last segment open for appending
    torn        \* that segment ends in a fragment, without a newline

journalVars == <<segs, open, torn>>

Effect(r, use) == [kind |-> "effect", key |-> r, use |-> use]
Seal(r) == [kind |-> "seal", key |-> r, use |-> NoUse]
Quarantine(r) == [kind |-> "quarantine", key |-> r, use |-> NoUse]
Records == [kind : {"effect", "seal", "quarantine"}, key : Req, use : Uses \union {NoUse}]

JournalInit == segs = << >> /\ open = FALSE /\ torn = FALSE

RecordCount == FoldFunction(LAMBDA s, n : Len(s.recs) + n, 0, segs)

Segment(recs, synced) == [recs |-> recs, synced |-> synced, old |-> FALSE]

(* ensureSegmentLocked: the record goes to the active segment while it has  *)
(* room, else to a new one.                                                 *)
Fits == open /\ Len(segs[Len(segs)].recs) < SegmentMax

(* The record gets no line of its own: its bytes follow a fragment, and the *)
(* line that the two make is one that Scan cannot read and skips.           *)
Swallowed == torn /\ Fits

(* The write of the whole line and, when sync, the fsync. *)
Written(rec, sync) ==
    LET cur == segs[Len(segs)]
        recs == IF torn THEN cur.recs ELSE Append(cur.recs, rec)
    IN  IF Fits
        THEN [segs EXCEPT ![Len(segs)] = Segment(recs, IF sync THEN Len(recs) ELSE cur.synced)]
        ELSE Append(segs, Segment(<<rec>>, IF sync THEN 1 ELSE 0))

(* A write that stops short: some bytes of the line and no newline. *)
WrittenShort ==
    IF Fits
    THEN [segs EXCEPT ![Len(segs)] = Segment(@.recs, @.synced)]
    ELSE Append(segs, Segment(<< >>, 0))

(* append: refused when the journal is full.  A failure leaves nothing, a   *)
(* part of the line, or, when it is the fsync that fails, all of it; the    *)
(* segment stays open.                                                      *)
AppendRecord(rec, ok) ==
    LET room == RecordCount < JournalMax
        line(sync) == segs' = Written(rec, sync) /\ open' = TRUE /\ torn' = FALSE
    IN  \/ ok /\ Works /\ room /\ line(rec.kind # "seal")
        \/ ~ok /\ Works /\ ~room /\ UNCHANGED journalVars
        \/ /\ ~ok /\ DbFault
           /\ \/ UNCHANGED journalVars
              \/ room /\ segs' = WrittenShort /\ open' = TRUE /\ torn' = TRUE
              \/ room /\ rec.kind # "seal" /\ line(FALSE)

(* Scan: the records of every segment.  The first effect of a key is the    *)
(* one that counts, and a seal or a quarantine anywhere settles it.         *)
Journal == UNION {Range(segs[i].recs) : i \in DOMAIN segs}
KeysOf(kind, recs) == {e.key : e \in {x \in recs : x.kind = kind}}
SealedKeys == KeysOf("seal", Journal)
QuarantinedKeys == KeysOf("quarantine", Journal)
EffectKeys == KeysOf("effect", Journal)
UnsealedKeys == EffectKeys \ (SealedKeys \union QuarantinedKeys)

Before(p, q) == p[1] < q[1] \/ (p[1] = q[1] /\ p[2] <= q[2])
Effects(k) ==
    {p \in (DOMAIN segs) \X (1..SegmentMax) :
        /\ p[2] \in DOMAIN segs[p[1]].recs
        /\ segs[p[1]].recs[p[2]].kind = "effect" /\ segs[p[1]].recs[p[2]].key = k}
FirstEffect(k) ==
    LET first == CHOOSE p \in Effects(k) : \A q \in Effects(k) : Before(p, q)
    IN  segs[first[1]].recs[first[2]]
Unsealed == {FirstEffect(k) : k \in UnsealedKeys}

(* Mutant: pruning by age alone. *)
KeptByAge(s) == ~s.old

(* A segment that Prune keeps: one written to within the retention, or one  *)
(* with an effect of its own that is unsealed or quarantined.               *)
Kept(s) == ~s.old \/ ~(KeysOf("effect", Range(s.recs)) \subseteq SealedKeys \ QuarantinedKeys)

(* Prune: the other segments are unlinked, the active one never. *)
PrunedSegs ==
    [i \in DOMAIN segs |->
        IF Kept(segs[i]) \/ (open /\ i = Len(segs)) THEN segs[i]
        ELSE [recs |-> << >>, synced |-> 0, old |-> TRUE]]

(* A segment's modification time falls behind the retention, after those of *)
(* the segments before it; by then the page cache has been written back.    *)
Age(i) ==
    /\ ~segs[i].old /\ \A j \in 1..(i - 1) : segs[j].old
    /\ segs' = [segs EXCEPT ![i] = [recs |-> @.recs, synced |-> Len(@.recs), old |-> TRUE]]

(* What no power loss takes. *)
Durable == UNION {{segs[i].recs[j] : j \in 1..segs[i].synced} : i \in DOMAIN segs}

(* What a power loss leaves of a segment: the records up to the last fsync, *)
(* and any number of those after it.                                        *)
Survives(i, n) == n \in segs[i].synced..Len(segs[i].recs)
CutTo(left) ==
    [i \in DOMAIN segs |->
        [segs[i] EXCEPT !.recs = SubSeq(@, 1, left[i]), !.synced = left[i]]]
=============================================================================
