-------------------------- MODULE GatewayStepProofs --------------------------
(***************************************************************************)
(* What the operators of the settlement journal do to its records, what the *)
(* transactions of the store do to its rows, and which parts of the        *)
(* invariant of the settlement a step has to show when it leaves the others *)
(* alone; for any sizes.                                                   *)
(***************************************************************************)
EXTENDS GatewaySettlement, WellFoundedInduction, TLAPS

USE SMTT(30), ZenonT(30)

Segments == [recs : Seq(Records), synced : Nat, old : BOOLEAN]
Good(s) ==
    /\ s \in Seq(Segments)
    /\ \A i \in DOMAIN s : s[i].synced <= Len(s[i].recs) /\ Len(s[i].recs) <= SegmentMax
In(s) == UNION {Range(s[i].recs) : i \in DOMAIN s}
Safe(s) == UNION {{s[i].recs[j] : j \in 1..s[i].synced} : i \in DOMAIN s}

(* A function on an initial segment of the numbers is a sequence. *)
LEMMA SeqOf ==
  ASSUME NEW S, NEW n \in Nat, NEW f \in [1..n -> S]
  PROVE  f \in Seq(S) /\ Len(f) = n
  OBVIOUS

(* The records of a list of segments, and the ones on disk, by position. *)
LEMMA InAt ==
  ASSUME NEW s, Good(s)
  PROVE  /\ \A e : e \in In(s) <=> \E i \in 1..Len(s) : \E j \in 1..Len(s[i].recs) : e = s[i].recs[j]
         /\ \A e : e \in Safe(s) <=> \E i \in 1..Len(s) : \E j \in 1..s[i].synced : e = s[i].recs[j]
         /\ In(s) \subseteq Records /\ Safe(s) \subseteq In(s)
<1>0. DOMAIN s = 1..Len(s) /\ \A i \in 1..Len(s) : s[i] \in Segments
  BY DEF Good
<1>1. ASSUME NEW i \in 1..Len(s)
      PROVE  /\ DOMAIN s[i].recs = 1..Len(s[i].recs) /\ s[i].recs \in Seq(Records)
             /\ s[i].synced \in Nat /\ Len(s[i].recs) \in Nat /\ s[i].synced <= Len(s[i].recs)
  <2>1. s[i].recs \in Seq(Records) /\ s[i].synced \in Nat
    BY <1>0 DEF Segments
  <2>2. s[i].synced <= Len(s[i].recs)
    BY <1>0 DEF Good
  <2> QED BY <2>1, <2>2
<1>2. \A e : e \in In(s) <=> \E i \in 1..Len(s) : \E j \in 1..Len(s[i].recs) : e = s[i].recs[j]
  BY <1>0, <1>1 DEF In, Range
<1>3. \A e : e \in Safe(s) <=> \E i \in 1..Len(s) : \E j \in 1..s[i].synced : e = s[i].recs[j]
  BY <1>0 DEF Safe
<1>4. \A i \in 1..Len(s) : \A j \in 1..Len(s[i].recs) : s[i].recs[j] \in Records
  BY <1>1
<1>5. \A i \in 1..Len(s) : \A j \in 1..s[i].synced : j \in 1..Len(s[i].recs)
  BY <1>1
<1>6. ASSUME NEW e \in In(s) PROVE e \in Records
  <2>1. PICK i \in 1..Len(s) : \E j \in 1..Len(s[i].recs) : e = s[i].recs[j]
    BY <1>2
  <2> QED BY <1>4, <2>1
<1>7. Safe(s) \subseteq In(s)
  BY <1>2, <1>3, <1>5, ZenonT(30)
<1> QED BY <1>2, <1>3, <1>6, <1>7

(* Each segment of s keeps in t what it has on disk; or all it has; and t   *)
(* has nothing else but what is in new.                                     *)
KeepsSafe(s, t) ==
    \A i \in 1..Len(s) : \A j \in 1..s[i].synced : j \in 1..t[i].synced /\ t[i].recs[j] = s[i].recs[j]
KeepsAll(s, t) ==
    \A i \in 1..Len(s) : \A j \in 1..Len(s[i].recs) : j \in 1..Len(t[i].recs) /\ t[i].recs[j] = s[i].recs[j]
AddsOnly(s, t, new) ==
    \A i \in 1..Len(t) : \A j \in 1..Len(t[i].recs) :
        \/ t[i].recs[j] \in new
        \/ i \in 1..Len(s) /\ j \in 1..Len(s[i].recs) /\ t[i].recs[j] = s[i].recs[j]

(* When each segment keeps what it has on disk, and adds only new records,  *)
(* so does the list.                                                        *)
LEMMA InGrows ==
  ASSUME NEW s, NEW t, Good(s), Good(t), Len(s) <= Len(t), NEW new, KeepsSafe(s, t), AddsOnly(s, t, new)
  PROVE  Safe(s) \subseteq Safe(t) /\ In(t) \subseteq In(s) \union new
<1>0. Len(s) \in Nat /\ Len(t) \in Nat
  BY DEF Good
<1>1. ASSUME NEW e \in Safe(s) PROVE e \in Safe(t)
  <2>1. PICK i \in 1..Len(s) : \E j \in 1..s[i].synced : e = s[i].recs[j]
    BY InAt
  <2>2. PICK j \in 1..s[i].synced : e = s[i].recs[j]
    BY <2>1
  <2>3. i \in 1..Len(t) /\ j \in 1..t[i].synced /\ e = t[i].recs[j]
    BY <1>0, <2>2 DEF KeepsSafe
  <2> QED BY <2>3, InAt
<1>2. ASSUME NEW e \in In(t) PROVE e \in In(s) \union new
  <2>1. PICK i \in 1..Len(t) : \E j \in 1..Len(t[i].recs) : e = t[i].recs[j]
    BY InAt
  <2>2. PICK j \in 1..Len(t[i].recs) : e = t[i].recs[j]
    BY <2>1
  <2>3. \/ e \in new
        \/ i \in 1..Len(s) /\ j \in 1..Len(s[i].recs) /\ e = s[i].recs[j]
    BY <2>2 DEF AddsOnly
  <2> QED BY <2>3, InAt
<1> QED BY <1>1, <1>2

(* Segments that keep their records keep all records. *)
LEMMA InKeeps ==
  ASSUME NEW s, NEW t, Good(s), Good(t), Len(s) <= Len(t), KeepsAll(s, t)
  PROVE  In(s) \subseteq In(t)
<1>0. Len(s) \in Nat /\ Len(t) \in Nat
  BY DEF Good
<1> SUFFICES ASSUME NEW e \in In(s) PROVE e \in In(t)
  OBVIOUS
<1>1. PICK i \in 1..Len(s) : \E j \in 1..Len(s[i].recs) : e = s[i].recs[j]
  BY InAt
<1>2. PICK j \in 1..Len(s[i].recs) : e = s[i].recs[j]
  BY <1>1
<1>3. i \in 1..Len(t) /\ j \in 1..Len(t[i].recs) /\ e = t[i].recs[j]
  BY <1>0, <1>2 DEF KeepsAll
<1> QED BY <1>3, InAt

(* A list of segments in which one, old or new, has a record more. *)
OneMore(s, t, last, m, rec) ==
    /\ Len(s) <= Len(t) /\ last \in 1..Len(t) /\ m \in Nat /\ m < SegmentMax
    /\ \A i \in 1..Len(t) : i # last => i \in 1..Len(s) /\ t[i] = s[i]
    /\ Len(t[last].recs) = m + 1 /\ t[last].recs[m + 1] = rec /\ t[last].synced <= m + 1
    /\ last \in 1..Len(s) =>
         /\ m = Len(s[last].recs) /\ s[last].synced <= t[last].synced
         /\ \A j \in 1..m : t[last].recs[j] = s[last].recs[j]
    /\ last \notin 1..Len(s) => m = 0

(* Such a list has the one record more, and loses nothing that is on disk. *)
LEMMA CellAdds ==
  ASSUME NEW s, Good(s), NEW t, t \in Seq(Segments), NEW last, NEW m, NEW rec, OneMore(s, t, last, m, rec)
  PROVE  /\ Good(t) /\ In(t) = In(s) \union {rec}
         /\ Safe(s) \subseteq Safe(t) /\ (t[last].synced = m + 1 => rec \in Safe(t))
<1> USE DEF OneMore
<1>0. /\ SegmentMax \in Nat /\ Len(s) \in Nat /\ Len(t) \in Nat /\ DOMAIN s = 1..Len(s) /\ DOMAIN t = 1..Len(t)
      /\ s \in Seq(Segments)
  BY JournalConstants DEF Good
<1>10. t[last] \in Segments
  OBVIOUS
<1>11. t[last].synced \in Nat
  BY <1>10 DEF Segments
<1>1. \A i \in 1..Len(s) : s[i].synced \in Nat /\ Len(s[i].recs) \in Nat /\ s[i].synced <= Len(s[i].recs)
  <2> SUFFICES ASSUME NEW i \in 1..Len(s)
               PROVE  s[i].synced \in Nat /\ Len(s[i].recs) \in Nat /\ s[i].synced <= Len(s[i].recs)
    OBVIOUS
  <2>1. s[i] \in Segments
    BY <1>0
  <2>2. s[i].recs \in Seq(Records) /\ s[i].synced \in Nat
    BY ZenonT(30), <2>1 DEF Segments
  <2> QED BY <1>0, <2>2 DEF Good
<1>2. Good(t)
  <2>1. ASSUME NEW i \in 1..Len(t) PROVE t[i].synced <= Len(t[i].recs) /\ Len(t[i].recs) <= SegmentMax
    <3>1. CASE i = last
      BY <1>0, <1>11, <3>1
    <3>2. CASE i # last
      BY <1>0, <3>2 DEF Good
    <3> QED BY <3>1, <3>2
  <2> QED BY <1>0, <2>1 DEF Good
<1>3. ASSUME NEW i \in 1..Len(s), NEW j \in 1..Len(s[i].recs)
      PROVE  j \in 1..Len(t[i].recs) /\ t[i].recs[j] = s[i].recs[j]
  <2>1. CASE i # last
    <3>1. t[i] = s[i]
      BY <1>0, <2>1
    <3> QED BY <3>1
  <2>2. CASE i = last
    <3>1. m = Len(s[i].recs) /\ Len(t[i].recs) = m + 1 /\ \A x \in 1..m : t[i].recs[x] = s[i].recs[x]
      BY <2>2
    <3> QED BY <3>1
  <2> QED BY <2>1, <2>2
<1>4. ASSUME NEW i \in 1..Len(s), NEW j \in 1..s[i].synced
      PROVE  j \in 1..t[i].synced /\ t[i].recs[j] = s[i].recs[j]
  <2>0. j \in 1..Len(s[i].recs)
    BY <1>1
  <2>1. CASE i # last
    <3>1. t[i] = s[i]
      BY <1>0, <2>1
    <3> QED BY <3>1
  <2>2. CASE i = last
    BY <1>1, <1>3, <1>11, <2>0, <2>2
  <2> QED BY <2>1, <2>2
<1>5. ASSUME NEW i \in 1..Len(t), NEW j \in 1..Len(t[i].recs)
      PROVE  t[i].recs[j] = rec \/ (i \in 1..Len(s) /\ j \in 1..Len(s[i].recs) /\ t[i].recs[j] = s[i].recs[j])
  <2>1. CASE i # last
    BY <2>1
  <2>2. CASE i = last /\ j # m + 1
    <3>1. j \in 1..m
      BY <2>2
    <3> QED BY <2>2, <3>1
  <2>3. CASE i = last /\ j = m + 1
    BY <2>3
  <2> QED BY <2>1, <2>2, <2>3
<1>6. In(s) \subseteq In(t)
  <2>1. KeepsAll(s, t)
    BY <1>3 DEF KeepsAll
  <2> QED BY <1>2, <2>1, InKeeps
<1>7. Safe(s) \subseteq Safe(t) /\ In(t) \subseteq In(s) \union {rec}
  <2>1. KeepsSafe(s, t) /\ AddsOnly(s, t, {rec})
    BY <1>4, <1>5 DEF KeepsSafe, AddsOnly
  <2> QED BY <1>2, <2>1, InGrows
<1>8. rec \in In(t)
  <2>1. m + 1 \in 1..Len(t[last].recs)
    OBVIOUS
  <2> QED BY <1>2, <2>1, InAt
<1>9. t[last].synced = m + 1 => rec \in Safe(t)
  BY <1>2, InAt
<1> QED BY <1>2, <1>6, <1>7, <1>8, <1>9

(* A list of as many segments, none with more records. *)
LEMMA SameLength ==
  ASSUME NEW s, Good(s), NEW t, t \in Seq(Segments), Len(t) = Len(s),
         \A i \in 1..Len(s) : /\ t[i].synced <= Len(t[i].recs) /\ Len(t[i].recs) <= Len(s[i].recs)
                              /\ \A j \in 1..Len(t[i].recs) : t[i].recs[j] = s[i].recs[j]
  PROVE  Good(t) /\ In(t) \subseteq In(s) /\ (s # << >> => t # << >>)
<1>0. /\ SegmentMax \in Nat /\ Len(s) \in Nat /\ s \in Seq(Segments)
      /\ DOMAIN s = 1..Len(s) /\ DOMAIN t = 1..Len(s)
  BY JournalConstants DEF Good
<1>1. ASSUME NEW i \in 1..Len(s)
      PROVE  Len(s[i].recs) \in Nat /\ Len(t[i].recs) \in Nat /\ Len(s[i].recs) <= SegmentMax
  <2>1. s[i] \in Segments /\ t[i] \in Segments
    BY <1>0
  <2>2. s[i].recs \in Seq(Records) /\ t[i].recs \in Seq(Records)
    BY <2>1 DEF Segments
  <2> QED BY <1>0, <2>2 DEF Good
<1>2. Good(t)
  BY <1>0, <1>1 DEF Good
<1>3. ASSUME NEW e \in In(t) PROVE e \in In(s)
  <2>1. PICK i \in 1..Len(t) : \E j \in 1..Len(t[i].recs) : e = t[i].recs[j]
    BY <1>2, <1>3, InAt
  <2>2. PICK j \in 1..Len(t[i].recs) : e = t[i].recs[j]
    BY <2>1
  <2>3. i \in 1..Len(s) /\ j \in 1..Len(s[i].recs) /\ e = s[i].recs[j]
    BY <1>1, <2>2
  <2> QED BY <2>3, InAt
<1>4. s # << >> => t # << >>
  BY <1>0
<1> QED BY <1>2, <1>3, <1>4

(* A segment whose records stay, with no fewer of them on disk. *)
LEMMA TouchKeeps ==
  ASSUME Good(segs), NEW a \in DOMAIN segs, NEW cell \in Segments, cell.recs = segs[a].recs,
         segs[a].synced <= cell.synced, cell.synced <= Len(segs[a].recs),
         NEW t, t = [segs EXCEPT ![a] = cell]
  PROVE  /\ Good(t) /\ In(t) = In(segs) /\ (segs # << >> => t # << >>)
         /\ Safe(segs) \subseteq Safe(t)
<1> DEFINE n == Len(segs)
<1>0. n \in Nat /\ segs \in Seq(Segments) /\ DOMAIN segs = 1..n /\ a \in 1..n
  BY DEF Good
<1>1. \A i \in 1..n : /\ segs[i] \in Segments /\ segs[i].recs \in Seq(Records) /\ Len(segs[i].recs) \in Nat
                      /\ segs[i].synced <= Len(segs[i].recs) /\ segs[i].synced \in Nat
  <2> SUFFICES ASSUME NEW i \in 1..n
               PROVE  /\ segs[i] \in Segments /\ segs[i].recs \in Seq(Records) /\ Len(segs[i].recs) \in Nat
                      /\ segs[i].synced <= Len(segs[i].recs) /\ segs[i].synced \in Nat
    OBVIOUS
  <2>1. segs[i] \in Segments /\ segs[i].synced <= Len(segs[i].recs)
    BY <1>0 DEF Good
  <2> QED BY <2>1 DEF Segments
<1>2. cell \in Segments /\ cell.recs = segs[a].recs /\ cell.synced \in Nat
  BY DEF Segments
<1>3. t = [segs EXCEPT ![a] = cell]
  OBVIOUS
<1>4. /\ t \in Seq(Segments) /\ Len(t) = n /\ t[a] = cell
      /\ \A i \in 1..n : i # a => t[i] = segs[i]
  <2>1. DOMAIN t = 1..n /\ t[a] = cell /\ \A i \in 1..n : i # a => t[i] = segs[i]
    BY <1>0, <1>3
  <2>2. \A i \in 1..n : t[i] \in Segments
    <3> SUFFICES ASSUME NEW i \in 1..n PROVE t[i] \in Segments
      BY ZenonT(30)
    <3>1. CASE i = a
      BY ZenonT(30), <1>2, <2>1, <3>1
    <3>2. CASE i # a
      BY <1>1, <2>1, <3>2
    <3> QED BY <3>1, <3>2
  <2>3. t \in [1..n -> Segments]
    <3>1. segs \in [1..n -> Segments]
      BY <1>0
    <3> QED BY ZenonT(30), <1>0, <1>2, <1>3, <3>1
  <2>4. t \in Seq(Segments) /\ Len(t) = n
    <3>1. n \in Nat
      BY <1>0
    <3> HIDE DEF n
    <3> QED BY ZenonT(30), <2>3, <3>1, SeqOf
  <2> QED BY <2>1, <2>4
<1>5. \A i \in 1..n : /\ t[i].recs = segs[i].recs /\ segs[i].synced <= t[i].synced
                      /\ t[i].synced <= Len(t[i].recs) /\ t[i].synced \in Nat
  BY <1>0, <1>1, <1>2, <1>4
<1>6. Good(t) /\ In(t) \subseteq In(segs) /\ (segs # << >> => t # << >>)
  <2>1. \A i \in 1..n : /\ t[i].synced <= Len(t[i].recs) /\ Len(t[i].recs) <= Len(segs[i].recs)
                        /\ \A j \in 1..Len(t[i].recs) : t[i].recs[j] = segs[i].recs[j]
    BY <1>1, <1>5
  <2> QED BY ZenonT(30), <1>4, <2>1, SameLength
<1>7. KeepsAll(segs, t) /\ KeepsSafe(segs, t) /\ AddsOnly(segs, t, {}) /\ Len(segs) <= Len(t)
  BY <1>0, <1>1, <1>4, <1>5 DEF KeepsAll, KeepsSafe, AddsOnly
<1>8. In(segs) \subseteq In(t)
  BY ZenonT(30), <1>6, <1>7, InKeeps
<1>9. Safe(segs) \subseteq Safe(t)
  BY ZenonT(30), <1>6, <1>7, InGrows
<1> QED BY ZenonT(30), <1>6, <1>8, <1>9

(* A write adds its record unless a fragment swallows it, and an fsync makes *)
(* the record last.                                                          *)
LEMMA WrittenAdds ==
  ASSUME Good(segs), open => segs # << >>, NEW rec \in Records, NEW sync \in BOOLEAN,
         NEW new, new = Written(rec, sync)
  PROVE  /\ Good(new) /\ new # << >>
         /\ In(segs) \subseteq In(new) /\ In(new) \subseteq In(segs) \union {rec}
         /\ Safe(segs) \subseteq Safe(new) /\ (sync /\ ~Swallowed => rec \in Safe(new))
<1> DEFINE n == Len(segs)
<1>0. n \in Nat /\ segs \in Seq(Segments) /\ SegmentMax \in Nat \ {0} /\ DOMAIN segs = 1..n
  BY JournalConstants DEF Good
<1>1. CASE Fits /\ ~torn
  <2> DEFINE old == segs[n].recs
             c == Len(old)
             d == IF sync THEN c + 1 ELSE segs[n].synced
             cell == Segment(Append(old, rec), d)
  <2>0. open /\ Len(segs[n].recs) < SegmentMax
    BY <1>1 DEF Fits
  <2>1. n \in 1..n
    BY <1>0, <2>0
  <2>2. old \in Seq(Records) /\ c \in Nat /\ d \in Nat /\ d <= c + 1 /\ segs[n].synced <= d /\ c < SegmentMax
    <3>1. segs[n] \in Segments /\ segs[n].synced <= Len(segs[n].recs)
      BY <1>0, <2>1 DEF Good
    <3> QED BY <2>0, <3>1 DEF Segments
  <2>3. /\ Append(old, rec) \in Seq(Records) /\ Len(Append(old, rec)) = c + 1
        /\ Append(old, rec)[c + 1] = rec /\ \A j \in 1..c : Append(old, rec)[j] = old[j]
    BY <2>2
  <2>4. cell \in Segments /\ cell.recs = Append(old, rec) /\ cell.synced = d
    BY <2>2, <2>3 DEF Segments, Segment
  <2>5. new = [segs EXCEPT ![n] = cell]
    <3>1. Len(Append(old, rec)) = c + 1
      BY <2>3
    <3> QED BY <1>1, <3>1 DEF Written
  <2>6. sync => d = c + 1
    OBVIOUS
  <2> HIDE DEF d, cell
  <2>7. /\ new \in Seq(Segments) /\ Len(new) = n /\ new[n] = cell
        /\ \A i \in 1..n : i # n => i \in 1..n /\ new[i] = segs[i]
    BY <1>0, <2>1, <2>4, <2>5
  <2>8. /\ Len(new[n].recs) = c + 1 /\ new[n].recs[c + 1] = rec /\ new[n].synced = d
        /\ \A j \in 1..c : new[n].recs[j] = segs[n].recs[j]
    BY ZenonT(30), <2>3, <2>4, <2>7
  <2>9. /\ Good(new) /\ In(new) = In(segs) \union {rec}
        /\ Safe(segs) \subseteq Safe(new) /\ (new[n].synced = c + 1 => rec \in Safe(new))
    <3>1. OneMore(segs, new, n, c, rec)
      <4>1. n \in 1..Len(new) /\ Len(segs) <= Len(new)
        <5> HIDE DEF n
        <5>1. Len(new) = n /\ Len(segs) = n
          BY <2>7 DEF n
        <5> QED BY <1>0, <2>1, <5>1
      <4>2. new[n].synced <= c + 1 /\ segs[n].synced <= new[n].synced
        BY <2>2, <2>8
      <4> QED BY <2>1, <2>2, <2>7, <2>8, <4>1, <4>2 DEF OneMore
    <3> HIDE DEF c, n
    <3> QED BY <2>7, <3>1, CellAdds
  <2>10. new # << >>
    <3>1. 1 \in DOMAIN new
      BY <1>0, <2>1, <2>5
    <3> QED BY <3>1
  <2> QED BY <2>6, <2>8, <2>9, <2>10
<1>3. CASE Fits /\ torn
  <2>1. n \in DOMAIN segs /\ segs[n] \in Segments /\ segs[n].synced <= Len(segs[n].recs)
    BY <1>0, <1>3 DEF Fits, Good
  <2>2. PICK cell : cell = Segment(segs[n].recs, IF sync THEN Len(segs[n].recs) ELSE segs[n].synced)
    OBVIOUS
  <2>3. /\ cell \in Segments /\ cell.recs = segs[n].recs
        /\ segs[n].synced <= cell.synced /\ cell.synced <= Len(segs[n].recs)
    BY <2>1, <2>2 DEF Segment, Segments
  <2>4. new = [segs EXCEPT ![n] = cell]
    BY <1>3, <2>2 DEF Written
  <2>5. Good(new) /\ In(new) = In(segs) /\ (segs # << >> => new # << >>) /\ Safe(segs) \subseteq Safe(new)
    <3> HIDE DEF n
    <3> QED BY ZenonT(30), <2>1, <2>3, <2>4, TouchKeeps
  <2>6. segs # << >> /\ Swallowed
    BY <1>3 DEF Fits, Swallowed
  <2> QED BY <2>5, <2>6
<1>2. CASE ~Fits
  <2> DEFINE d == IF sync THEN 1 ELSE 0
             cell == Segment(<<rec>>, d)
  <2>1. cell \in Segments /\ cell.recs = <<rec>> /\ cell.synced = d /\ d <= 0 + 1 /\ (sync => d = 0 + 1)
    BY DEF Segments, Segment
  <2>2. new = Append(segs, cell)
    BY <1>2 DEF Written
  <2> HIDE DEF d, cell
  <2>3. /\ new \in Seq(Segments) /\ Len(new) = n + 1 /\ new[n + 1] = cell
        /\ \A i \in 1..(n + 1) : i # n + 1 => i \in 1..n /\ new[i] = segs[i]
    BY <1>0, <2>1, <2>2
  <2>4. Len(new[n + 1].recs) = 0 + 1 /\ new[n + 1].recs[0 + 1] = rec /\ new[n + 1].synced <= 0 + 1
    <3>1. Len(cell.recs) = 1 /\ cell.recs[1] = rec /\ cell.synced <= 1
      BY <2>1
    <3> QED BY <2>3, <3>1
  <2>5. n + 1 \in 1..(n + 1) /\ n + 1 \notin 1..n /\ 0 \in Nat /\ 0 < SegmentMax /\ n <= n + 1
    BY <1>0
  <2>6. /\ Good(new) /\ In(new) = In(segs) \union {rec}
        /\ Safe(segs) \subseteq Safe(new) /\ (new[n + 1].synced = 0 + 1 => rec \in Safe(new))
    <3>1. OneMore(segs, new, n + 1, 0, rec)
      BY <2>3, <2>4, <2>5 DEF OneMore
    <3> HIDE DEF n
    <3> QED BY <2>3, <3>1, CellAdds
  <2>7. new # << >>
    BY <1>0, <2>3
  <2>8. sync => new[n + 1].synced = 0 + 1
    BY <2>1, <2>3
  <2> QED BY <2>6, <2>7, <2>8
<1> QED
  BY ZenonT(30), <1>1, <1>2, <1>3

(* A write that stops short adds no record, and loses none. *)
LEMMA ShortKeeps ==
  ASSUME Good(segs), open => segs # << >>, NEW new, new = WrittenShort
  PROVE  /\ Good(new) /\ new # << >> /\ In(new) = In(segs) /\ Safe(segs) \subseteq Safe(new)
<1> DEFINE n == Len(segs)
<1>0. n \in Nat /\ segs \in Seq(Segments) /\ SegmentMax \in Nat \ {0} /\ DOMAIN segs = 1..n
  BY JournalConstants DEF Good
<1>1. CASE Fits
  <2>1. n \in DOMAIN segs /\ segs[n] \in Segments /\ segs[n].synced <= Len(segs[n].recs)
    BY <1>0, <1>1 DEF Fits, Good
  <2>2. PICK cell : cell = Segment(segs[n].recs, segs[n].synced)
    OBVIOUS
  <2>3. /\ cell \in Segments /\ cell.recs = segs[n].recs
        /\ segs[n].synced <= cell.synced /\ cell.synced <= Len(segs[n].recs)
    BY <2>1, <2>2 DEF Segment, Segments
  <2>4. new = [segs EXCEPT ![n] = cell]
    BY <1>1, <2>2 DEF WrittenShort
  <2>5. Good(new) /\ In(new) = In(segs) /\ (segs # << >> => new # << >>) /\ Safe(segs) \subseteq Safe(new)
    <3> HIDE DEF n
    <3> QED BY ZenonT(30), <2>1, <2>3, <2>4, TouchKeeps
  <2> QED BY <1>1, <2>5 DEF Fits
<1>2. CASE ~Fits
  <2>1. PICK cell : cell = Segment(<< >>, 0)
    OBVIOUS
  <2>2. cell \in Segments /\ Len(cell.recs) = 0 /\ cell.synced = 0
    BY <2>1 DEF Segment, Segments
  <2>3. new = Append(segs, cell)
    BY <1>2, <2>1 DEF WrittenShort
  <2>4. /\ new \in Seq(Segments) /\ Len(new) = n + 1 /\ new[n + 1] = cell /\ new # << >>
        /\ \A i \in 1..n : new[i] = segs[i]
    BY <1>0, <2>2, <2>3
  <2>5. \A i \in 1..n : /\ segs[i].synced \in Nat /\ Len(segs[i].recs) \in Nat
                        /\ segs[i].synced <= Len(segs[i].recs) /\ Len(segs[i].recs) <= SegmentMax
    <3> SUFFICES ASSUME NEW i \in 1..n
                 PROVE  /\ segs[i].synced \in Nat /\ Len(segs[i].recs) \in Nat
                        /\ segs[i].synced <= Len(segs[i].recs) /\ Len(segs[i].recs) <= SegmentMax
      OBVIOUS
    <3>1. segs[i] \in Segments /\ segs[i].synced <= Len(segs[i].recs) /\ Len(segs[i].recs) <= SegmentMax
      BY <1>0 DEF Good
    <3> QED BY <3>1 DEF Segments
  <2>6. Good(new)
    <3>1. ASSUME NEW i \in 1..(n + 1)
          PROVE  new[i].synced <= Len(new[i].recs) /\ Len(new[i].recs) <= SegmentMax
      <4>1. CASE i = n + 1
        BY <1>0, <2>2, <2>4, <4>1
      <4>2. CASE i # n + 1
        BY <1>0, <2>4, <2>5, <4>2
      <4> QED BY <4>1, <4>2
    <3> QED BY <1>0, <2>4, <3>1 DEF Good
  <2>7. KeepsAll(segs, new) /\ KeepsSafe(segs, new) /\ AddsOnly(segs, new, {}) /\ Len(segs) <= Len(new)
    <3>1. KeepsAll(segs, new) /\ KeepsSafe(segs, new) /\ Len(segs) <= Len(new)
      BY <1>0, <2>4, <2>5 DEF KeepsAll, KeepsSafe
    <3>2. ASSUME NEW i \in 1..(n + 1), NEW j \in 1..Len(new[i].recs)
          PROVE  i \in 1..n /\ j \in 1..Len(segs[i].recs) /\ new[i].recs[j] = segs[i].recs[j]
      BY <1>0, <2>2, <2>4
    <3>3. AddsOnly(segs, new, {})
      BY <2>4, <3>2 DEF AddsOnly
    <3> QED BY <3>1, <3>3
  <2>8. In(segs) \subseteq In(new)
    BY ZenonT(30), <2>6, <2>7, InKeeps
  <2>9. Safe(segs) \subseteq Safe(new) /\ In(new) \subseteq In(segs) \union {}
    BY ZenonT(30), <2>6, <2>7, InGrows
  <2> QED BY <2>4, <2>6, <2>8, <2>9
<1> QED BY <1>1, <1>2

(* Prune unlinks no unsealed effect. *)
LEMMA PruneKeeps ==
  ASSUME Good(segs), NEW t, t = PrunedSegs
  PROVE  /\ Good(t) /\ In(t) \subseteq In(segs) /\ (segs # << >> => t # << >>)
         /\ \A e \in Safe(segs) : e.kind = "effect" => e \in Safe(t) \/ e.key \in SealedKeys
<1> DEFINE n == Len(segs)
           none == [recs |-> << >>, synced |-> 0, old |-> TRUE]
<1>0. n \in Nat /\ segs \in Seq(Segments) /\ DOMAIN segs = 1..n
  BY DEF Good
<1>1. none \in Segments /\ Len(none.recs) = 0 /\ none.synced = 0
  BY DEF Segments
<1> HIDE DEF none
<1>2. ASSUME NEW i \in 1..n
      PROVE  /\ t[i] = segs[i] \/ (t[i] = none /\ KeysOf("effect", Range(segs[i].recs)) \subseteq SealedKeys)
             /\ segs[i] \in Segments /\ segs[i].recs \in Seq(Records) /\ Len(segs[i].recs) \in Nat
             /\ segs[i].synced <= Len(segs[i].recs) /\ segs[i].synced \in Nat
  <2>1. segs[i] \in Segments /\ segs[i].synced <= Len(segs[i].recs)
    BY <1>0 DEF Good
  <2>2. t[i] = segs[i] \/ (t[i] = none /\ KeysOf("effect", Range(segs[i].recs)) \subseteq SealedKeys)
    BY ZenonT(30), <1>0 DEF PrunedSegs, Kept, none
  <2> QED BY <2>1, <2>2 DEF Segments
<1>3. t \in Seq(Segments) /\ Len(t) = n
  <2>1. DOMAIN t = 1..n /\ t = [i \in 1..n |-> t[i]]
    BY <1>0 DEF PrunedSegs
  <2>2. \A i \in 1..n : t[i] \in Segments
    BY <1>1, <1>2
  <2> QED BY <1>0, <2>1, <2>2
<1>4. \A i \in 1..n : /\ t[i].synced <= Len(t[i].recs) /\ Len(t[i].recs) <= Len(segs[i].recs)
                      /\ \A j \in 1..Len(t[i].recs) : t[i].recs[j] = segs[i].recs[j]
  <2> SUFFICES ASSUME NEW i \in 1..n
               PROVE  /\ t[i].synced <= Len(t[i].recs) /\ Len(t[i].recs) <= Len(segs[i].recs)
                      /\ \A j \in 1..Len(t[i].recs) : t[i].recs[j] = segs[i].recs[j]
    OBVIOUS
  <2>1. CASE t[i] = segs[i]
    BY <1>2, <2>1
  <2>2. CASE t[i] = none
    BY <1>1, <1>2, <2>2
  <2> QED BY <1>2, <2>1, <2>2
<1>5. Good(t) /\ In(t) \subseteq In(segs) /\ (segs # << >> => t # << >>)
  BY <1>3, <1>4, SameLength
<1>6. ASSUME NEW e \in Safe(segs), e.kind = "effect" PROVE e \in Safe(t) \/ e.key \in SealedKeys
  <2>1. PICK i \in 1..n : \E j \in 1..segs[i].synced : e = segs[i].recs[j]
    BY <1>6, InAt
  <2>2. PICK j \in 1..segs[i].synced : e = segs[i].recs[j]
    BY <2>1
  <2>3. CASE t[i] = segs[i]
    BY <1>3, <1>5, <2>2, <2>3, InAt
  <2>4. CASE KeysOf("effect", Range(segs[i].recs)) \subseteq SealedKeys
    <3>1. j \in DOMAIN segs[i].recs
      BY <1>2
    <3>2. e \in Range(segs[i].recs)
      BY <2>2, <3>1 DEF Range
    <3> QED BY <1>6, <2>4, <3>2 DEF KeysOf
  <2> QED BY <1>2, <2>3, <2>4
<1> QED BY <1>5, <1>6

(* A segment that ages loses nothing. *)
LEMMA AgeKeeps ==
  ASSUME Good(segs), NEW a \in DOMAIN segs, NEW t,
         t = [segs EXCEPT ![a] = [recs |-> @.recs, synced |-> Len(@.recs), old |-> TRUE]]
  PROVE  /\ Good(t) /\ In(t) = In(segs) /\ (segs # << >> => t # << >>)
         /\ Safe(segs) \subseteq Safe(t)
<1>1. segs[a] \in Segments /\ segs[a].synced <= Len(segs[a].recs)
  BY DEF Good
<1>2. PICK cell : cell = [recs |-> segs[a].recs, synced |-> Len(segs[a].recs), old |-> TRUE]
  OBVIOUS
<1>3. /\ cell \in Segments /\ cell.recs = segs[a].recs
      /\ segs[a].synced <= cell.synced /\ cell.synced <= Len(segs[a].recs)
  BY <1>1, <1>2 DEF Segments
<1>4. t = [segs EXCEPT ![a] = cell]
  BY <1>2
<1> QED BY ZenonT(30), <1>3, <1>4, TouchKeeps

(* A power loss takes nothing that is on disk, and adds nothing. *)
LEMMA CutKeeps ==
  ASSUME Good(segs), NEW left, \A i \in DOMAIN segs : Survives(i, left[i]), NEW t, t = CutTo(left)
  PROVE  /\ Good(t) /\ In(t) \subseteq In(segs) /\ (segs # << >> => t # << >>)
         /\ Safe(segs) \subseteq Safe(t)
<1> DEFINE n == Len(segs)
<1>0. n \in Nat /\ segs \in Seq(Segments) /\ DOMAIN segs = 1..n
  BY DEF Good
<1>1. ASSUME NEW i \in 1..n
      PROVE  /\ t[i] \in Segments /\ Len(t[i].recs) = left[i] /\ t[i].synced = left[i]
             /\ left[i] \in Nat /\ segs[i].synced \in Nat /\ segs[i].synced <= left[i]
             /\ left[i] <= Len(segs[i].recs) /\ Len(segs[i].recs) \in Nat
             /\ \A j \in 1..left[i] : t[i].recs[j] = segs[i].recs[j]
  <2>1. segs[i] \in Segments
    BY <1>0
  <2>2. segs[i].recs \in Seq(Records) /\ segs[i].synced \in Nat /\ segs[i].old \in BOOLEAN
    BY <2>1 DEF Segments
  <2>3. left[i] \in segs[i].synced..Len(segs[i].recs)
    BY <1>0 DEF Survives
  <2> DEFINE r == segs[i].recs
             l == left[i]
  <2>4. l \in Nat /\ segs[i].synced <= l /\ l <= Len(r) /\ Len(r) \in Nat
    BY <2>2, <2>3
  <2>5. /\ SubSeq(r, 1, l) \in Seq(Records) /\ Len(SubSeq(r, 1, l)) = l
        /\ \A j \in 1..l : SubSeq(r, 1, l)[j] = r[j]
    <3> HIDE DEF r, l
    <3>1. r \in Seq(Records)
      BY <2>2 DEF r
    <3> QED BY <2>4, <3>1
  <2>6. t[i] = [segs[i] EXCEPT !.recs = SubSeq(r, 1, l), !.synced = l]
    BY ZenonT(30), <1>0 DEF CutTo
  <2>7. t[i].recs = SubSeq(r, 1, l) /\ t[i].synced = l /\ t[i] \in Segments
    <3> HIDE DEF r, l
    <3> QED BY ZenonT(30), <2>1, <2>4, <2>5, <2>6 DEF Segments
  <2> QED BY <2>2, <2>4, <2>5, <2>7
<1>2. t \in Seq(Segments) /\ Len(t) = n
  <2>1. DOMAIN t = 1..n /\ t = [i \in 1..n |-> t[i]]
    BY ZenonT(30), <1>0 DEF CutTo
  <2> QED BY <1>0, <1>1, <2>1
<1>3. Good(t) /\ In(t) \subseteq In(segs) /\ (segs # << >> => t # << >>)
  <2>1. \A i \in 1..n : /\ t[i].synced <= Len(t[i].recs) /\ Len(t[i].recs) <= Len(segs[i].recs)
                        /\ \A j \in 1..Len(t[i].recs) : t[i].recs[j] = segs[i].recs[j]
    BY <1>1
  <2> QED BY <1>2, <2>1, SameLength
<1>4. KeepsSafe(segs, t) /\ AddsOnly(segs, t, In(t)) /\ Len(segs) <= Len(t)
  <2>1. KeepsSafe(segs, t)
    BY <1>1 DEF KeepsSafe
  <2>2. AddsOnly(segs, t, In(t))
    BY <1>3, InAt DEF AddsOnly
  <2> QED BY <1>0, <1>2, <2>1, <2>2
<1> QED BY <1>3, <1>4, InGrows

(* The order of the naturals has least elements. *)
LEMMA Least ==
  ASSUME NEW S, S \subseteq Nat, S # {}
  PROVE  \E x \in S : \A y \in S : x <= y
<1>1. PICK x \in S : \A y \in S : <<y, x>> \notin OpToRel(<, Nat)
  BY ZenonT(30), NatLessThanWellFounded, WFMin
<1>2. \A y \in S : ~(y < x)
  BY ZenonT(30), <1>1 DEF OpToRel
<1> QED BY <1>2

(* The first effect of a key in the journal is an effect of that key. *)
LEMMA FirstEffectIs ==
  ASSUME Good(segs), NEW k \in EffectKeys
  PROVE  FirstEffect(k) \in In(segs) /\ FirstEffect(k).kind = "effect" /\ FirstEffect(k).key = k
<1> DEFINE E == Effects(k)
<1>0. Len(segs) \in Nat /\ DOMAIN segs = 1..Len(segs) /\ SegmentMax \in Nat
  BY JournalConstants DEF Good
<1>1. \A p \in E : /\ p[1] \in 1..Len(segs) /\ p[2] \in 1..SegmentMax /\ p[2] \in DOMAIN segs[p[1]].recs
                   /\ segs[p[1]].recs[p[2]].kind = "effect" /\ segs[p[1]].recs[p[2]].key = k
  BY <1>0 DEF Effects
<1>2. E # {}
  <2>1. PICK e \in In(segs) : e.kind = "effect" /\ e.key = k
    BY DEF EffectKeys, KeysOf, Journal, In
  <2>2. PICK i \in 1..Len(segs) : \E j \in 1..Len(segs[i].recs) : e = segs[i].recs[j]
    BY InAt
  <2>3. PICK j \in 1..Len(segs[i].recs) : e = segs[i].recs[j]
    BY <2>2
  <2>4. segs[i] \in Segments /\ Len(segs[i].recs) <= SegmentMax
    BY <1>0 DEF Good
  <2>5. segs[i].recs \in Seq(Records)
    BY <2>4 DEF Segments
  <2>6. j \in 1..SegmentMax /\ j \in DOMAIN segs[i].recs
    BY <1>0, <2>4, <2>5
  <2>7. <<i, j>> \in E
    BY <1>0, <2>1, <2>3, <2>6 DEF Effects
  <2> QED BY <2>7
<1> HIDE DEF E
<1>3. PICK a \in Nat : (\E p \in E : p[1] = a) /\ \A p \in E : a <= p[1]
  <2> DEFINE S == {p[1] : p \in E}
  <2>1. S \subseteq Nat /\ S # {}
    BY <1>0, <1>1, <1>2
  <2>2. PICK a \in S : \A y \in S : a <= y
    BY ZenonT(30), <2>1, Least
  <2> QED BY <2>1, <2>2
<1>4. PICK b \in Nat : (\E p \in E : p[1] = a /\ p[2] = b) /\ \A p \in E : p[1] = a => b <= p[2]
  <2> DEFINE S == {p[2] : p \in {q \in E : q[1] = a}}
  <2>1. S \subseteq Nat /\ S # {}
    BY <1>0, <1>1, <1>3
  <2>2. PICK b \in S : \A y \in S : b <= y
    BY ZenonT(30), <2>1, Least
  <2> QED BY ZenonT(30), <2>1, <2>2
<1>5. \E p \in E : \A q \in E : Before(p, q)
  <2>1. PICK p \in E : p[1] = a /\ p[2] = b
    BY <1>4
  <2>2. \A q \in E : q[1] \in Nat /\ q[2] \in Nat
    BY <1>0, <1>1
  <2> QED BY <1>3, <1>4, <2>1, <2>2 DEF Before
<1>6. PICK p \in E : FirstEffect(k) = segs[p[1]].recs[p[2]]
  <2> DEFINE first == CHOOSE p \in E : \A q \in E : Before(p, q)
  <2>1. first \in E
    BY <1>5
  <2>2. FirstEffect(k) = segs[first[1]].recs[first[2]]
    BY DEF FirstEffect, E
  <2> QED BY ZenonT(30), <2>1, <2>2
<1>7. p[2] \in 1..Len(segs[p[1]].recs)
  <2>1. segs[p[1]] \in Segments
    BY <1>0, <1>1 DEF Good
  <2>2. segs[p[1]].recs \in Seq(Records)
    BY <2>1 DEF Segments
  <2> QED BY <1>1, <2>2
<1> QED BY <1>1, <1>6, <1>7, InAt
-----------------------------------------------------------------------------

(* A handler serves a request. *)
LEMMA IdIs == \A h \in Handlers : Id[h] \in Req
  BY DEF Id, Handlers

(* What every transaction keeps: the types of its rows; usage rows and      *)
(* leases stay; a reservation that is gone does not come back, a held one   *)
(* keeps its hold.                                                          *)
StoreOK ==
    /\ res \in [Req -> Rows \union {NoRow}]
    /\ lease \in [Req -> {"none", "active", "due", "expired", "released"}]
    /\ usage \in [Req -> Uses \union {NoUse}]
    /\ demo \subseteq Req
StoreGrow ==
    /\ \A r \in Req : usage[r] # NoUse => usage'[r] = usage[r]
    /\ \A r \in Req : lease[r] # "none" => lease'[r] # "none"
    /\ \A r \in Req : res[r].st # "none" => res'[r].st # "none"
    /\ \A r \in Req : res'[r].st = "active" => res[r].st \in {"none", "active"}
(* A reservation whose hold a step does not touch. *)
HoldSame(r) == res'[r].hold = res[r].hold /\ (res[r].hold => res'[r].st = res[r].st)
OtherHoldsSame(r) == \A q \in Req : q # r => HoldSame(q)
(* A transaction on request r that opens no reservation. *)
Closes(r) ==
    /\ StoreOK' /\ StoreGrow /\ OtherHoldsSame(r)
    /\ \A q \in Req : res'[q].st = "active" => res[q].st = "active"

(* What the type of the store says of one row. *)
LEMMA RowFacts ==
  ASSUME StoreOK, NEW r \in Req
  PROVE  /\ res[r].hold \in BOOLEAN /\ res[r].due \in BOOLEAN /\ res[r].st \in Statuses \union {"none"}
         /\ NewRow \in Rows /\ NoUse \notin Uses
         /\ res[r].st # "none" => res[r] \in Rows
         /\ res[r].st = "none" => res[r] = NoRow
<1>1. res[r] \in Rows \union {NoRow}
  BY DEF StoreOK
<1>2. NewRow \in Rows
  BY DEF Rows, NewRow, Statuses
<1>3. NoUse \notin Uses
  BY DEF Uses, NoUse
<1>4. CASE res[r] = NoRow
  BY <1>2, <1>3, <1>4 DEF NoRow
<1>5. CASE res[r] \in Rows
  BY <1>2, <1>3, <1>5 DEF Rows, Statuses
<1> QED BY <1>1, <1>4, <1>5

(* The reaper expires reservations that are due and touches nothing else of them. *)
LEMMA ReapedIs ==
  ASSUME StoreOK
  PROVE  /\ Reaped \in [Req -> Rows \union {NoRow}]
         /\ \A r \in Req : /\ Reaped[r].hold = res[r].hold
                           /\ Reaped[r].st = res[r].st \/ (Active(r) /\ ~res[r].hold /\ Reaped[r].st = "expired")
<1> SUFFICES ASSUME NEW r \in Req
             PROVE  /\ Reaped[r] \in Rows \union {NoRow}
                    /\ Reaped[r].hold = res[r].hold
                    /\ Reaped[r].st = res[r].st \/ (Active(r) /\ ~res[r].hold /\ Reaped[r].st = "expired")
  BY DEF Reaped
<1>1. CASE Active(r) /\ res[r].due /\ ~res[r].hold
  <2>1. Reaped[r] = [res[r] EXCEPT !.st = "expired"] /\ res[r] \in Rows
    BY <1>1, RowFacts DEF Reaped, Active
  <2> QED BY <1>1, <2>1 DEF Rows, Statuses
<1>2. CASE ~(Active(r) /\ res[r].due /\ ~res[r].hold)
  BY <1>2 DEF Reaped, StoreOK
<1> QED BY <1>1, <1>2

(* ReserveQuota gives the request a row, or leaves every row as it is but   *)
(* for those it reaps.                                                      *)
LEMMA ReserveStep ==
  ASSUME StoreOK, NEW r \in Req, NEW out, ReserveQuota(r, out)
  PROVE  /\ StoreOK' /\ StoreGrow /\ UNCHANGED lease
         /\ out = "ok" => res[r].st = "none" /\ res'[r] = NewRow
         /\ \A q \in Req : HoldSame(q) /\ (res'[q].st = "active" => res[q].st = "active" \/ q = r)
<1>1. CASE UNCHANGED res
  <2>1. out # "ok"
    BY <1>1, RowFacts DEF ReserveQuota, NewRow, StoreOK
  <2> QED BY <1>1, <2>1 DEF ReserveQuota, StoreOK, StoreGrow, HoldSame
<1>2. CASE res[r].st = "none" /\ res' = [Reaped EXCEPT ![r] = NewRow]
  <2>1. /\ Reaped \in [Req -> Rows \union {NoRow}] /\ NewRow \in Rows
        /\ res[r] = NoRow /\ UNCHANGED <<lease, usage, demo>>
    BY <1>2, ReapedIs, RowFacts DEF ReserveQuota
  <2>2. ASSUME NEW q \in Req, q # r
        PROVE  /\ res'[q] = Reaped[q] /\ HoldSame(q)
               /\ res'[q].st = "active" => res[q].st = "active"
               /\ res[q].st # "none" => res'[q].st # "none"
    BY <1>2, <2>1, <2>2, ReapedIs DEF HoldSame, Active
  <2>3. res'[r] = NewRow /\ HoldSame(r)
    BY <1>2, <2>1 DEF HoldSame, NoRow, NewRow
  <2>4. StoreOK'
    BY <1>2, <2>1 DEF StoreOK
  <2>5. StoreGrow
    BY <1>2, <2>1, <2>2, <2>3 DEF StoreGrow, NewRow
  <2> QED BY <1>2, <2>1, <2>2, <2>3, <2>4, <2>5
<1> QED BY <1>1, <1>2 DEF ReserveQuota

(* One row that is active changes its status or its hold. *)
LEMMA RowStep ==
  ASSUME StoreOK, NEW r \in Req, res[r].st = "active",
         \/ \E s \in Statuses : res' = [res EXCEPT ![r].st = s]
         \/ res' = [res EXCEPT ![r].hold = TRUE]
  PROVE  /\ res' \in [Req -> Rows \union {NoRow}]
         /\ \A q \in Req : res[q].st # "none" => res'[q].st # "none"
         /\ \A q \in Req : res'[q].st = "active" => res[q].st = "active"
         /\ \A q \in Req \ {r} : HoldSame(q)
         /\ ~res[r].hold /\ (\E s \in Statuses : res' = [res EXCEPT ![r].st = s]) => HoldSame(r)
         /\ \A q \in Req \ {r} : res'[q] = res[q]
<1>1. res[r] \in Rows
  BY RowFacts
<1>2. CASE \E s \in Statuses : res' = [res EXCEPT ![r].st = s]
  <2>1. PICK s \in Statuses : res' = [res EXCEPT ![r].st = s]
    BY ZenonT(30), <1>2
  <2>2. res'[r] = [res[r] EXCEPT !.st = s] /\ res'[r] \in Rows /\ res'[r].st = s /\ res'[r].hold = res[r].hold
    BY <1>1, <2>1 DEF StoreOK, Rows
  <2>3. \A q \in Req \ {r} : res'[q] = res[q]
    BY <2>1 DEF StoreOK
  <2>4. s # "none"
    BY DEF Statuses
  <2> QED BY <2>1, <2>2, <2>3, <2>4 DEF StoreOK, HoldSame
<1>3. CASE res' = [res EXCEPT ![r].hold = TRUE]
  <2>2. res'[r] = [res[r] EXCEPT !.hold = TRUE] /\ res'[r] \in Rows /\ res'[r].st = "active" /\ res'[r].hold
    BY ZenonT(30), <1>1, <1>3 DEF StoreOK, Rows
  <2>3. \A q \in Req \ {r} : res'[q] = res[q]
    BY <1>3 DEF StoreOK
  <2>4. ~(res[r].hold) => res'[r].hold # res[r].hold
    BY ZenonT(30), <2>2
  <2>5. ~(~res[r].hold /\ (\E s \in Statuses : res' = [res EXCEPT ![r].st = s]))
    BY <1>1, <2>2 DEF StoreOK, Rows
  <2> QED BY ZenonT(30), <1>3, <2>2, <2>3, <2>5 DEF StoreOK, HoldSame
<1> QED BY <1>2, <1>3

(* A transaction that leaves the reservations alone. *)
LEMMA SameRows ==
  ASSUME StoreOK, NEW r \in Req, UNCHANGED res, lease' \in [Req -> {"none", "active", "due", "expired", "released"}],
         usage' \in [Req -> Uses \union {NoUse}], demo' \subseteq Req,
         \A q \in Req : usage[q] # NoUse => usage'[q] = usage[q],
         \A q \in Req : lease[q] # "none" => lease'[q] # "none"
  PROVE  Closes(r) /\ \A q \in Req : HoldSame(q)
  BY DEF Closes, StoreOK, StoreGrow, OtherHoldsSame, HoldSame

(* Settling bills the request and closes its row, or does nothing. *)
LEMMA SettleStep ==
  ASSUME StoreOK, NEW r \in Req, NEW dem, NEW use \in Uses, NEW out,
         SettleReservation(r, dem, use, out)
  PROVE  /\ Closes(r) /\ UNCHANGED lease
         /\ out = "ok" => usage'[r] = use /\ res'[r].st = "settled"
         /\ HoldSame(r) \/ (res[r].hold /\ res'[r].hold /\ res'[r].st = "settled")
         /\ out # "ok" => UNCHANGED <<res, usage>>
<1>1. CASE UNCHANGED <<res, usage, demo>> /\ out # "ok"
  BY <1>1, SameRows DEF SettleReservation, StoreOK
<1>2. CASE /\ out = "ok" /\ Active(r) /\ usage[r] = NoUse
           /\ res' = [res EXCEPT ![r].st = "settled"] /\ usage' = [usage EXCEPT ![r] = use]
           /\ demo' \subseteq Req
  <2>1. "settled" \in Statuses /\ res[r] \in Rows
    BY <1>2, RowFacts DEF Statuses, Active
  <2>2. res'[r].st = "settled" /\ res'[r].hold = res[r].hold
    BY <1>2, <2>1 DEF StoreOK, Rows
  <2>3. usage' \in [Req -> Uses \union {NoUse}] /\ usage'[r] = use /\ \A q \in Req : usage[q] # NoUse => usage'[q] = usage[q]
    BY <1>2 DEF StoreOK
  <2>4. lease' = lease
    BY DEF SettleReservation
  <2>5. /\ res' \in [Req -> Rows \union {NoRow}]
        /\ \A q \in Req : res[q].st # "none" => res'[q].st # "none"
        /\ \A q \in Req : res'[q].st = "active" => res[q].st = "active"
        /\ \A q \in Req \ {r} : HoldSame(q)
    BY ZenonT(30), <1>2, <2>1, RowStep DEF Active
  <2>6. Closes(r)
    BY <1>2, <2>3, <2>4, <2>5 DEF Closes, StoreOK, StoreGrow, OtherHoldsSame
  <2>7. HoldSame(r) \/ (res[r].hold /\ res'[r].hold /\ res'[r].st = "settled")
    BY <2>2, RowFacts DEF HoldSame
  <2> QED BY <1>2, <2>2, <2>3, <2>4, <2>6, <2>7
<1>3. demo \subseteq Req
  BY DEF StoreOK
<1> QED BY <1>1, <1>2, <1>3 DEF SettleReservation

(* Refunding and giving up close the row, or do nothing. *)
LEMMA CloseStep ==
  ASSUME StoreOK, NEW r \in Req, NEW st, NEW out,
         \/ st = "refunded" /\ RefundReservation(r, out)
         \/ st = "stale_held" /\ MarkReservationStaleHeld(r, out)
  PROVE  /\ Closes(r) /\ UNCHANGED <<lease, usage>>
         /\ st = "refunded" /\ out # "db" => res'[r].st # "active"
         /\ HoldSame(r) \/ (res[r].hold /\ res'[r].hold /\ res'[r].st = st)
         /\ res'[r].st = res[r].st \/ res'[r].st = st
<1>0. UNCHANGED <<lease, usage, demo>>
  BY DEF RefundReservation, MarkReservationStaleHeld
<1>1. CASE UNCHANGED res
  <2>1. st = "refunded" /\ out # "db" => ~Active(r)
    <3>1. SUFFICES ASSUME st = "refunded", out # "db", Active(r) PROVE FALSE
      OBVIOUS
    <3>2. RefundReservation(r, out) /\ res' = [res EXCEPT ![r].st = "refunded"] /\ res[r] \in Rows
      BY <3>1, RowFacts DEF RefundReservation, Active
    <3>3. res'[r].st = "refunded"
      BY <3>2 DEF StoreOK, Rows
    <3> QED BY <1>1, <3>1, <3>3 DEF Active
  <2>2. Closes(r) /\ HoldSame(r)
    BY <1>0, <1>1, SameRows DEF StoreOK
  <2> QED BY <1>0, <1>1, <2>1, <2>2 DEF Active
<1>2. CASE Active(r) /\ res' = [res EXCEPT ![r].st = st] /\ st \in {"refunded", "stale_held"}
  <2>1. st \in Statuses /\ res[r] \in Rows
    BY <1>2, RowFacts DEF Statuses, Active
  <2>2. res'[r].st = st /\ res'[r].hold = res[r].hold
    BY <1>2, <2>1 DEF StoreOK, Rows
  <2>5. /\ res' \in [Req -> Rows \union {NoRow}]
        /\ \A q \in Req : res[q].st # "none" => res'[q].st # "none"
        /\ \A q \in Req : res'[q].st = "active" => res[q].st = "active"
        /\ \A q \in Req \ {r} : HoldSame(q)
    BY ZenonT(30), <1>2, <2>1, RowStep DEF Active
  <2>6. Closes(r)
    BY <1>0, <2>5 DEF Closes, StoreOK, StoreGrow, OtherHoldsSame
  <2>7. HoldSame(r) \/ (res[r].hold /\ res'[r].hold /\ res'[r].st = st)
    BY <2>2, RowFacts DEF HoldSame
  <2> QED BY <1>0, <1>2, <2>2, <2>6, <2>7
<1> QED BY <1>1, <1>2 DEF RefundReservation, MarkReservationStaleHeld

(* Marking and clamping put an active row on hold, or do nothing. *)
LEMMA HoldStep ==
  ASSUME StoreOK, NEW r \in Req, NEW out,
         MarkReservationSettlementHold(r, out) \/ ClampReservationExpiry(r, out)
  PROVE  /\ Closes(r) /\ UNCHANGED <<lease, usage>>
         /\ HoldSame(r) \/ (res'[r].hold /\ res'[r].st = "active" /\ res[r].st = "active")
<1>0. UNCHANGED <<lease, usage, demo>>
  BY DEF MarkReservationSettlementHold, ClampReservationExpiry
<1>1. CASE UNCHANGED res
  BY <1>0, <1>1, SameRows DEF StoreOK
<1>2. CASE Active(r) /\ res' = [res EXCEPT ![r].hold = TRUE]
  <2>1. res[r] \in Rows
    BY <1>2, RowFacts DEF Active
  <2>2. res'[r].st = "active" /\ res'[r].hold
    BY <1>2, <2>1 DEF StoreOK, Rows, Active
  <2>5. /\ res' \in [Req -> Rows \union {NoRow}]
        /\ \A q \in Req : res[q].st # "none" => res'[q].st # "none"
        /\ \A q \in Req : res'[q].st = "active" => res[q].st = "active"
        /\ \A q \in Req \ {r} : HoldSame(q)
    BY ZenonT(30), <1>2, RowStep DEF Active
  <2>6. Closes(r)
    BY ZenonT(30), <1>0, <2>5 DEF Closes, StoreOK, StoreGrow, OtherHoldsSame
  <2> QED BY <1>0, <1>2, <2>2, <2>6 DEF Active
<1> QED BY <1>1, <1>2 DEF MarkReservationSettlementHold, ClampReservationExpiry

(* A request is leased once. *)
LEMMA LeaseStep ==
  ASSUME StoreOK, NEW r \in Req, NEW out, AcquireConcurrency(r, out) \/ ReleaseConcurrency(r)
  PROVE  /\ Closes(r) /\ UNCHANGED <<res, usage>> /\ \A q \in Req : HoldSame(q)
         /\ AcquireConcurrency(r, out) /\ out = "ok" => lease[r] = "none" /\ lease'[r] # "none"
         /\ \A q \in Req \ {r} : lease[q] = "none" => lease'[q] = "none"
         /\ AcquireConcurrency(r, out) /\ out # "ok" => (lease[r] = "none" => lease'[r] = "none")
         /\ ReleaseConcurrency(r) => (lease[r] = "none" => lease'[r] = "none")
<1> DEFINE closed == [q \in Req |-> IF lease[q] = "due" THEN "expired" ELSE lease[q]]
<1>1. CASE AcquireConcurrency(r, out)
  <2>1. UNCHANGED <<res, usage, demo>>
    BY <1>1 DEF AcquireConcurrency
  <2>2. \/ lease' = closed /\ out # "ok"
        \/ out = "ok" /\ lease[r] = "none" /\ lease' = [closed EXCEPT ![r] = "active"]
        \/ lease' = lease /\ out # "ok"
    BY <1>1 DEF AcquireConcurrency
  <2>3. lease' \in [Req -> {"none", "active", "due", "expired", "released"}]
    BY ZenonT(30), <2>2 DEF StoreOK
  <2>4. \A q \in Req : lease[q] # "none" => lease'[q] # "none"
    BY ZenonT(30), <2>2 DEF StoreOK
  <2>5. Closes(r) /\ \A q \in Req : HoldSame(q)
    BY <2>1, <2>3, <2>4, SameRows DEF StoreOK
  <2> QED BY ZenonT(30), <2>1, <2>2, <2>5 DEF StoreOK, ReleaseConcurrency
<1>2. CASE ReleaseConcurrency(r) /\ ~AcquireConcurrency(r, out)
  <2>1. UNCHANGED <<res, usage, demo>>
    BY <1>2 DEF ReleaseConcurrency
  <2>2. lease' = lease \/ lease' = [lease EXCEPT ![r] = IF @ \in {"active", "due"} THEN "released" ELSE @]
    BY <1>2 DEF ReleaseConcurrency
  <2>3. /\ lease' \in [Req -> {"none", "active", "due", "expired", "released"}]
        /\ \A q \in Req : lease[q] # "none" <=> lease'[q] # "none"
    BY <2>2 DEF StoreOK
  <2>5. Closes(r) /\ \A q \in Req : HoldSame(q)
    BY <2>1, <2>3, SameRows DEF StoreOK
  <2> QED BY <1>2, <2>1, <2>3, <2>5
<1> QED BY <1>1, <1>2

(* Writing a usage row, and the demo row next to it. *)
LEMMA EnsureStep ==
  ASSUME StoreOK, NEW r \in Req, NEW use \in Uses, NEW out,
         \/ EnsureUsageEvent(r, use, out)
         \/ EnsureDemoUsageEvent(r)
         \/ InsertUsageEvent(r, use)
  PROVE  /\ Closes(r) /\ UNCHANGED <<res, lease>> /\ \A q \in Req : HoldSame(q)
         /\ EnsureUsageEvent(r, use, out) /\ out = "ok" => usage'[r] = use
         /\ EnsureDemoUsageEvent(r) => UNCHANGED usage
<1>1. UNCHANGED <<res, lease>>
  BY DEF EnsureUsageEvent, EnsureDemoUsageEvent, InsertUsageEvent
<1>2. usage' = usage \/ (usage[r] = NoUse /\ usage' = [usage EXCEPT ![r] = use])
  BY DEF EnsureUsageEvent, EnsureDemoUsageEvent, InsertUsageEvent
<1>3. demo' \subseteq Req
  BY DEF EnsureUsageEvent, EnsureDemoUsageEvent, InsertUsageEvent, StoreOK
<1>4. usage' \in [Req -> Uses \union {NoUse}] /\ \A q \in Req : usage[q] # NoUse => usage'[q] = usage[q]
  BY <1>2 DEF StoreOK
<1>5. Closes(r) /\ \A q \in Req : HoldSame(q)
  BY <1>1, <1>3, <1>4, SameRows DEF StoreOK
<1>6. EnsureUsageEvent(r, use, out) /\ out = "ok" => usage'[r] = use
  BY DEF EnsureUsageEvent, StoreOK
<1> QED BY <1>1, <1>5, <1>6 DEF EnsureDemoUsageEvent

(* Time passes, and the reaper takes what is past its expiry and not held. *)
LEMMA TimeStep ==
  ASSUME StoreOK, NEW r \in Req, ReservationDue(r) \/ LeaseDue(r) \/ ReapExpiredReservations
  PROVE  Closes(r) /\ UNCHANGED usage /\ \A q \in Req : HoldSame(q) /\ (lease[q] = "none" => lease'[q] = "none")
<1>1. CASE ReapExpiredReservations
  <2>1. /\ res' \in [Req -> Rows \union {NoRow}]
        /\ \A q \in Req : /\ res'[q].hold = res[q].hold
                          /\ res'[q].st = res[q].st \/ (Active(q) /\ ~res[q].hold /\ res'[q].st = "expired")
    BY <1>1, ReapedIs DEF ReapExpiredReservations
  <2>2. UNCHANGED <<lease, usage, demo>>
    BY <1>1 DEF ReapExpiredReservations
  <2> QED BY <2>1, <2>2 DEF Closes, StoreOK, StoreGrow, OtherHoldsSame, HoldSame, Active
<1>2. CASE ReservationDue(r)
  <2>1. res[r] \in Rows /\ res' = [res EXCEPT ![r].due = TRUE] /\ UNCHANGED <<lease, usage, demo>>
    BY <1>2, RowFacts DEF ReservationDue, Active
  <2>2. res'[r] \in Rows /\ res'[r].st = res[r].st /\ res'[r].hold = res[r].hold
    BY ZenonT(30), <2>1 DEF StoreOK, Rows
  <2>3. \A q \in Req \ {r} : res'[q] = res[q]
    BY <2>1 DEF StoreOK
  <2>4. res' \in [Req -> Rows \union {NoRow}]
    BY <2>1, <2>2 DEF StoreOK
  <2> QED BY <2>1, <2>2, <2>3, <2>4 DEF Closes, StoreOK, StoreGrow, OtherHoldsSame, HoldSame
<1>3. CASE LeaseDue(r)
  <2>1. lease' = [lease EXCEPT ![r] = "due"] /\ lease[r] = "active" /\ UNCHANGED <<res, usage, demo>>
    BY <1>3 DEF LeaseDue
  <2>2. /\ lease' \in [Req -> {"none", "active", "due", "expired", "released"}]
        /\ \A q \in Req : lease[q] # "none" <=> lease'[q] # "none"
    BY <2>1 DEF StoreOK
  <2> QED BY <2>1, <2>2, SameRows DEF StoreOK
<1> QED BY <1>1, <1>2, <1>3

----------------------------------------------------------------------------
(* The journal's part of the types, and the shape of its steps: the records *)
(* only grow by the one written, and an effect on disk stays until a seal   *)
(* of its key is seen.                                                      *)
JournalOK == Good(segs) /\ open \in BOOLEAN /\ torn \in BOOLEAN /\ (open => segs # << >>)
KeepsEffects ==
    \A e \in Durable : e.kind = "effect" => e \in Durable' \/ e.key \in SealedKeys
Appends(rec) ==
    /\ JournalOK' /\ KeepsEffects
    /\ Journal \subseteq Journal' /\ Journal' \subseteq Journal \union {rec}

(* A write to the journal adds its record, or nothing, and keeps the rest. *)
LEMMA AppendStep ==
  ASSUME JournalOK, NEW rec \in Records, NEW ok \in BOOLEAN, AppendRecord(rec, ok)
  PROVE  Appends(rec) /\ (ok /\ rec.kind # "seal" /\ ~Swallowed => rec \in Durable')
<1> DEFINE Goal == Appends(rec) /\ (ok /\ rec.kind # "seal" /\ ~Swallowed => rec \in Durable')
<1>1. CASE UNCHANGED journalVars /\ ~ok
  BY <1>1 DEF JournalOK, KeepsEffects, Appends, journalVars, Journal, Durable
<1>0. /\ Journal = In(segs) /\ Durable = Safe(segs)
      /\ Journal' = In(segs') /\ Durable' = Safe(segs')
  BY DEF Journal, In, Durable, Safe
<1>2. ASSUME NEW sync \in BOOLEAN, segs' = Written(rec, sync), open' = TRUE, torn' = FALSE,
             ok /\ rec.kind # "seal" => sync
      PROVE  Goal
  <2> DEFINE new == Written(rec, sync)
  <2>1. /\ Good(new) /\ new # << >>
        /\ In(segs) \subseteq In(new) /\ In(new) \subseteq In(segs) \union {rec}
        /\ Safe(segs) \subseteq Safe(new) /\ (sync /\ ~Swallowed => rec \in Safe(new))
    <3> HIDE DEF new
    <3>1. new = Written(rec, sync)
      BY DEF new
    <3> QED BY <3>1, WrittenAdds DEF JournalOK
  <2>3. segs' = new
    BY <1>2
  <2> HIDE DEF new
  <2>4. JournalOK'
    BY <1>2, <2>1, <2>3 DEF JournalOK, Good
  <2> QED BY <1>0, <1>2, <2>1, <2>3, <2>4 DEF KeepsEffects, Appends
<1>3. CASE ~ok /\ segs' = WrittenShort /\ open' = TRUE /\ torn' = TRUE
  <2>1. PICK new : new = WrittenShort
    OBVIOUS
  <2>2. Good(new) /\ new # << >> /\ In(new) = In(segs) /\ Safe(segs) \subseteq Safe(new)
    BY <2>1, ShortKeeps DEF JournalOK
  <2>3. segs' = new
    BY <1>3, <2>1
  <2>4. JournalOK'
    BY <1>3, <2>2, <2>3 DEF JournalOK, Good
  <2> QED BY <1>0, <1>3, <2>2, <2>3, <2>4 DEF KeepsEffects, Appends
<1>4. \/ UNCHANGED journalVars /\ ~ok
      \/ ok /\ segs' = Written(rec, rec.kind # "seal") /\ open' = TRUE /\ torn' = FALSE
      \/ ~ok /\ segs' = WrittenShort /\ open' = TRUE /\ torn' = TRUE
      \/ ~ok /\ segs' = Written(rec, FALSE) /\ open' = TRUE /\ torn' = FALSE
  BY ZenonT(30) DEF AppendRecord
<1>5. (rec.kind # "seal") \in BOOLEAN
  OBVIOUS
<1> HIDE DEF Goal
<1>6. CASE ok /\ segs' = Written(rec, rec.kind # "seal") /\ open' = TRUE /\ torn' = FALSE
  BY ZenonT(30), <1>2, <1>5, <1>6 DEF Goal
<1>7. CASE ~ok /\ segs' = Written(rec, FALSE) /\ open' = TRUE /\ torn' = FALSE
  BY ZenonT(30), <1>2, <1>7 DEF Goal
<1> QED BY ZenonT(30), <1>1, <1>3, <1>4, <1>6, <1>7 DEF Goal

(* A prune, a segment that ages and a power loss write nothing. *)
LEMMA ShrinkStep ==
  ASSUME JournalOK, open' \in BOOLEAN, open' => open, torn' \in BOOLEAN,
         \/ segs' = segs
         \/ segs' = PrunedSegs
         \/ \E i \in DOMAIN segs : Age(i)
         \/ \E left \in [DOMAIN segs -> 0..SegmentMax] :
              (\A i \in DOMAIN segs : Survives(i, left[i])) /\ segs' = CutTo(left)
  PROVE  JournalOK' /\ KeepsEffects /\ Journal' \subseteq Journal
<1>1. /\ Journal = In(segs) /\ Durable = Safe(segs)
      /\ Journal' = In(segs') /\ Durable' = Safe(segs')
  BY DEF Journal, In, Durable, Safe
<1> DEFINE t == segs'
<1>2. SUFFICES /\ Good(t) /\ In(t) \subseteq In(segs) /\ (segs # << >> => t # << >>)
               /\ \A e \in Safe(segs) : e.kind = "effect" => e \in Safe(t) \/ e.key \in SealedKeys
  BY <1>1 DEF JournalOK, KeepsEffects, Good
<1>3. CASE segs' = segs
  BY <1>3 DEF JournalOK
<1>4. CASE segs' = PrunedSegs
  BY <1>4, PruneKeeps DEF JournalOK
<1>5. CASE \E i \in DOMAIN segs : Age(i)
  <2>1. PICK a \in DOMAIN segs : Age(a)
    BY <1>5
  <2>2. t = [segs EXCEPT ![a] = [recs |-> @.recs, synced |-> Len(@.recs), old |-> TRUE]]
    BY <2>1 DEF Age
  <2> HIDE DEF t
  <2>3. Good(t) /\ In(t) = In(segs) /\ (segs # << >> => t # << >>) /\ Safe(segs) \subseteq Safe(t)
    BY ZenonT(30), <2>2, AgeKeeps DEF JournalOK
  <2> QED BY <2>3
<1>6. CASE \E left \in [DOMAIN segs -> 0..SegmentMax] :
              (\A i \in DOMAIN segs : Survives(i, left[i])) /\ segs' = CutTo(left)
  <2>1. PICK left \in [DOMAIN segs -> 0..SegmentMax] :
              (\A i \in DOMAIN segs : Survives(i, left[i])) /\ t = CutTo(left)
    BY <1>6
  <2> HIDE DEF t
  <2>2. Good(t) /\ In(t) \subseteq In(segs) /\ (segs # << >> => t # << >>) /\ Safe(segs) \subseteq Safe(t)
    BY <2>1, CutKeeps DEF JournalOK
  <2> QED BY <2>2
<1> QED BY <1>3, <1>4, <1>5, <1>6

----------------------------------------------------------------------------
LocalsOK ==
    /\ owed \subseteq Req
    /\ pc \in [Handlers -> AdmittedPCs \union OverPCs] /\ job \in [Handlers -> Jobs]
    /\ fin \in [Req -> Finalities]
    /\ rcv \in [todo : SUBSET Records, at : RedrivePCs \union {"idle", "pick", "prune"}, cur : Records]
    /\ rcn \in [todo : SUBSET Req, clamp : SUBSET Req]

(* The types, in three parts. *)
LEMMA TypeIs == TypeOK <=> StoreOK /\ JournalOK /\ LocalsOK
  BY DEF TypeOK, StoreOK, JournalOK, LocalsOK, Good, Segments

Held(r) == res[r].hold \/ Listed(r)
DecidedOK(r) ==
    res[r].hold =>
        /\ res[r].st = "settled" => fin[r].closed
        /\ res[r].st = "refunded" => Decided(r)
Same(g) == pc'[g] = pc[g] /\ job'[g] = job[g]
(* What a handler may do whose key has records in the journal. *)
Follows(g) ==
    \/ Same(g)
    \/ pc'[g] \in OverPCs \union {"lease", "refund", "release"}
    \/ pc[g] \in ArmedPCs /\ pc'[g] \in ArmedPCs /\ job'[g].use = job[g].use
(* What a handler may do whose request is on hold. *)
Waits(g) ==
    \/ pc'[g] = pc[g] \/ pc'[g] \in OverPCs \union {"release"}
    \/ pc'[g] \in {"lease", "refund"} /\ Decided(Id[g])
KeepsDecision(r) ==
    /\ fin[r].closed => fin'[r].closed
    /\ \A g \in Handlers : Id[g] = r /\ job[g].failed => job'[g].failed

(* A handler that does not move keeps its facts. *)
LEMMA HandlerFrame ==
  ASSUME SettlementInv, StoreGrow, NEW g \in Handlers, Same(g)
  PROVE  HandlerOK(g)'
<1>1. HandlerOK(g) /\ Id[g] \in Req /\ NoUse \notin Uses
  BY IdIs DEF SettlementInv, Uses, NoUse
<1>2. job[g].use \in Uses => job[g].use # NoUse
  BY <1>1
<1>3. Id' = Id
  BY DEF Id, Handlers
<1>4. pc[g] \in {"demo", "drop", "seal"} => pc[g] \in ArmedPCs /\ usage[Id[g]] # NoUse
  BY <1>1, <1>2 DEF HandlerOK, ArmedPCs
<1>5. pc[g] = "seal" => pc[g] \in AdmittedPCs
  BY DEF AdmittedPCs, LeasedPCs
<1> QED BY <1>1, <1>3, <1>4, <1>5 DEF HandlerOK, StoreGrow, Same

(* The handler that takes the reservation finds no other one with it. *)
LEMMA AloneFrame ==
  ASSUME SettlementInv,
         \A g \in Handlers : pc'[g] \in AdmittedPCs => pc[g] \in AdmittedPCs \/ (res[Id[g]].st = "none" /\ \A k \in Handlers \ {g} : pc'[k] = pc[k])
  PROVE  \A h \in Handlers : Alone(h)'
<1> SUFFICES ASSUME NEW h \in Handlers, NEW g \in Handlers, Id[g] = Id[h], pc'[g] \in AdmittedPCs, pc'[h] \in AdmittedPCs, g # h
             PROVE  FALSE
  BY DEF Alone, Id, Handlers
<1>1. \A k \in Handlers : HandlerOK(k) /\ Alone(k)
  BY DEF SettlementInv
<1>2. \A k \in Handlers : pc[k] \in AdmittedPCs => res[Id[k]].st # "none"
  BY <1>1 DEF HandlerOK
<1>3. pc[g] \in AdmittedPCs /\ pc[h] \in AdmittedPCs
  BY <1>2
<1> QED BY <1>1, <1>3 DEF Alone

(* A record whose handlers follow keeps its facts. *)
LEMMA RecordFrame ==
  ASSUME SettlementInv, StoreGrow, NEW e \in Journal, NEW new, Journal' \subseteq Journal \union new,
         \A f \in new : f.kind = "effect" => f.key # e.key,
         \A g \in Handlers : Id[g] = e.key => Follows(g)
  PROVE  RecordOK(e)'
<1>1. RecordOK(e) /\ e.key \in Req /\ Id' = Id /\ NoUse \notin Uses
  <2>1. Journal = In(segs) /\ Good(segs)
    BY TypeIs DEF Journal, In, SettlementInv, JournalOK
  <2>2. e \in Records
    BY <2>1, InAt
  <2> QED BY ZenonT(30), <2>2 DEF SettlementInv, Id, Handlers, Records, Uses, NoUse
<1>2. lease'[e.key] # "none" /\ (e.kind = "seal" => usage'[e.key] = usage[e.key] /\ usage'[e.key] # NoUse)
  BY <1>1 DEF RecordOK, StoreGrow
<1>3. ASSUME NEW g \in Handlers, Id[g] = e.key
      PROVE  /\ pc'[g] \in OverPCs \union ArmedPCs \union {"lease", "refund", "release"}
             /\ e.kind = "effect" /\ pc'[g] \in ArmedPCs => job'[g].use = e.use
  <2>1. Follows(g)
    BY <1>3
  <2>2. (OverPCs \union {"lease", "refund", "release"}) \intersect ArmedPCs = {}
    BY DEF OverPCs, ArmedPCs
  <2> QED BY <1>1, <1>3, <2>1, <2>2 DEF RecordOK, Follows, Same
<1>4. ASSUME NEW f \in Journal', f.key = e.key, f.kind = "effect"
      PROVE  (e.kind = "effect" => f = e) /\ (e.kind = "seal" => usage'[e.key] = f.use)
  BY <1>1, <1>2, <1>4 DEF RecordOK
<1> QED BY ZenonT(30), <1>1, <1>2, <1>3, <1>4 DEF RecordOK

(* The current effect of the recovery pass is still what it was. *)
LEMMA RecoveryFrame ==
  ASSUME SettlementInv, StoreGrow, rcv' = rcv, Journal \subseteq Journal'
  PROVE  RecoveryOK'
<1>1. RecoveryOK
  BY DEF SettlementInv
<1>2. ASSUME rcv.at \in {"demo", "drop", "seal"} PROVE usage'[rcv.cur.key] = rcv.cur.use
  <2>1. rcv.cur \in Journal /\ rcv.cur.kind = "effect" /\ usage[rcv.cur.key] = rcv.cur.use
    BY ZenonT(30), <1>1, <1>2 DEF RecoveryOK, RedrivePCs
  <2>2. RecordOK(rcv.cur) /\ rcv.cur \in Records
    BY ZenonT(30), <2>1, TypeIs DEF SettlementInv, LocalsOK
  <2>3. rcv.cur.use # NoUse /\ rcv.cur.key \in Req
    BY <2>1, <2>2 DEF RecordOK, Records, Uses, NoUse
  <2> QED BY <2>1, <2>3 DEF StoreGrow
<1> QED BY <1>1, <1>2 DEF RecoveryOK

(* What is owed is still billed or on disk. *)
LEMMA OwedFrame ==
  ASSUME SettlementInv, StoreGrow, KeepsEffects,
         \A r \in owed' : r \in owed \/ \E e \in Durable' : e.kind = "effect" /\ e.key = r
  PROVE  OwedOK'
<1> SUFFICES ASSUME NEW r \in owed PROVE usage'[r] # NoUse \/ \E e \in Durable' : e.kind = "effect" /\ e.key = r
  BY DEF OwedOK
<1>1. OwedOK /\ r \in Req
  BY TypeIs DEF SettlementInv, LocalsOK
<1>2. CASE usage[r] # NoUse
  BY <1>1, <1>2 DEF StoreGrow
<1>3. CASE \E e \in Durable : e.kind = "effect" /\ e.key = r
  <2>1. PICK e \in Durable : e.kind = "effect" /\ e.key = r
    BY <1>3
  <2>2. CASE e \in Durable'
    BY <2>1, <2>2
  <2>3. CASE r \in SealedKeys
    <3>1. PICK f \in Journal : f.kind = "seal" /\ f.key = r
      BY <2>3 DEF SealedKeys, KeysOf
    <3>2. usage[r] # NoUse
      BY ZenonT(30), <3>1 DEF SettlementInv, RecordOK
    <3> QED BY <1>1, <3>2 DEF StoreGrow
  <2> QED BY <2>1, <2>2, <2>3 DEF KeepsEffects
<1> QED BY <1>1, <1>2, <1>3 DEF OwedOK

(* A request whose hold is not touched keeps what a hold means. *)
LEMMA HeldFrame ==
  ASSUME SettlementInv, StoreGrow, NEW q \in Req, HoldSame(q),
         NEW new, Journal' \subseteq Journal \union new, Held(q) => \A f \in new : f.key # q,
         Listed(q)' => Held(q), Held(q) => KeepsDecision(q),
         Held(q) => \A g \in Handlers : Id[g] = q => Waits(g)
  PROVE  HeldOK(q)' /\ DecidedOK(q)'
<1>1. HeldOK(q) /\ DecidedOK(q) /\ Id' = Id /\ Handlers' = Handlers
  BY ZenonT(30) DEF SettlementInv, HoldDecidedByCoordinator, DecidedOK, Decided, Id, Handlers
<1>2. Held(q)' => Held(q)
  BY ZenonT(30) DEF Held, HoldSame
<1>3. CASE ~Held(q)
  BY <1>2, <1>3 DEF Held, HeldOK, DecidedOK
<1>4. CASE Held(q)
  <2>1. Decided(q) => Decided(q)'
    BY ZenonT(30), <1>1, <1>4 DEF Decided, KeepsDecision
  <2>2. lease'[q] # "none" /\ \A e \in Journal' : e.key # q
    BY ZenonT(30), <1>1, <1>4 DEF HeldOK, Held, StoreGrow
  <2>3. ASSUME NEW g \in Handlers, Id[g] = q
        PROVE  /\ pc'[g] \in OverPCs \union {"lease", "refund", "clamp", "release"}
               /\ pc'[g] \in {"lease", "refund"} => Decided(q)'
    <3>1. Waits(g)
      BY <1>4, <2>3
    <3>2. "release" \notin {"lease", "refund"} /\ OverPCs \intersect {"lease", "refund"} = {}
      BY DEF OverPCs
    <3> QED BY ZenonT(30), <1>1, <1>4, <2>1, <2>3, <3>1, <3>2 DEF Waits, HeldOK, Held
  <2>4. Listed(q)' /\ ~res'[q].hold => Decided(q)'
    BY ZenonT(30), <1>1, <1>4, <2>1 DEF HeldOK, Held, HoldSame
  <2>5. HeldOK(q)'
    BY ZenonT(30), <1>1, <2>2, <2>3, <2>4 DEF HeldOK, HoldSame
  <2>6. DecidedOK(q)'
    BY <1>1, <1>4, <2>1 DEF DecidedOK, HoldSame, KeepsDecision
  <2> QED BY ZenonT(30), <2>5, <2>6
<1> QED BY ZenonT(30), <1>3, <1>4

(* Where every id is used once, a request has one handler. *)
LEMMA OneCopy ==
  ASSUME Copies = 1, NEW g \in Handlers, NEW h \in Handlers, Id[g] = Id[h]
  PROVE  g = h
  BY DEF Handlers, Id

(* The invariant from its parts. *)
LEMMA Parts ==
  ASSUME StoreOK', JournalOK', LocalsOK', RecoveryOK', OwedOK',
         \A g \in Handlers : HandlerOK(g)' /\ Alone(g)',
         \A e \in Journal' : RecordOK(e)',
         \A q \in Req : HeldOK(q)' /\ DecidedOK(q)',
         Copies = 1 => ReleasedOK'
  PROVE  SettlementInv'
<1>1. TypeOK'
  BY DEF TypeOK, StoreOK, JournalOK, LocalsOK, Good, Segments
<1>2. HoldDecidedByCoordinator'
  BY DEF HoldDecidedByCoordinator, DecidedOK, Decided
<1>3. Handlers' = Handlers
  BY ZenonT(30) DEF Handlers
<1> QED BY ZenonT(30), <1>1, <1>2, <1>3 DEF SettlementInv

(* The step of one handler: what it must establish for itself, for its      *)
(* request and for the records of its key.                                  *)
Moves(h, new) ==
    /\ \A g \in Handlers \ {h} : Same(g)
    /\ UNCHANGED <<rcv, rcn>>
    /\ JournalOK' /\ KeepsEffects /\ Journal \subseteq Journal' /\ Journal' \subseteq Journal \union new
    /\ StoreOK' /\ StoreGrow /\ OtherHoldsSame(Id[h])
    /\ \A q \in Req \ {Id[h]} : fin'[q] = fin[q] /\ (lease[q] = "none" => lease'[q] = "none")
    /\ lease[Id[h]] = "none" => lease'[Id[h]] = "none" \/ pc'[h] \notin {"start", "lease"}
    /\ pc'[h] \in {"start", "lease"} => pc[h] = "start"
    /\ \A q \in Req : res'[q].st = "active" => res[q].st = "active" \/ (q = Id[h] /\ pc[h] = "start")
    /\ pc'[h] \in AdmittedPCs => pc[h] \in AdmittedPCs \/ res[Id[h]].st = "none"
    /\ \A f \in new : f.key = Id[h]

(* A step of one handler keeps the invariant when it keeps its own part of it. *)
LEMMA HandlerStep ==
  ASSUME SettlementInv, NEW h \in Handlers, NEW new, Moves(h, new), LocalsOK', OwedOK', HandlerOK(h)',
         \A e \in Journal : e.key = Id[h] => Follows(h) /\ \A f \in new : f.kind # "effect",
         \A e \in new : RecordOK(e)',
         HeldOK(Id[h])' /\ DecidedOK(Id[h])'
  PROVE  SettlementInv'
<1>1. \A g \in Handlers : HandlerOK(g)'
  BY ZenonT(30), HandlerFrame DEF Moves
<1>2. \A g \in Handlers : Alone(g)'
  <2>1. ASSUME NEW g \in Handlers, pc'[g] \in AdmittedPCs
        PROVE  pc[g] \in AdmittedPCs \/ (res[Id[g]].st = "none" /\ \A k \in Handlers \ {g} : pc'[k] = pc[k])
    BY ZenonT(30), <2>1 DEF Moves, Same
  <2> QED BY ZenonT(30), <2>1, AloneFrame
<1>3. ASSUME NEW e \in Journal' PROVE RecordOK(e)'
  <2>1. CASE e \in new
    BY ZenonT(30), <2>1
  <2>2. CASE e \in Journal
    <3>1. \A f \in new : f.kind = "effect" => f.key # e.key
      BY ZenonT(30), <2>2 DEF Moves
    <3>2. \A g \in Handlers : Id[g] = e.key => Follows(g)
      BY ZenonT(30), <2>2 DEF Moves, Follows
    <3> QED BY ZenonT(30), <2>2, <3>1, <3>2, RecordFrame DEF Moves
  <2> QED BY ZenonT(30), <2>1, <2>2 DEF Moves
<1>4. ASSUME NEW q \in Req PROVE HeldOK(q)' /\ DecidedOK(q)'
  <2>1. CASE q = Id[h]
    BY ZenonT(30), <2>1
  <2>2. CASE q # Id[h]
    <3>1. \A g \in Handlers : Id[g] = q => g \in Handlers \ {h} /\ Same(g)
      BY ZenonT(30), <2>2 DEF Moves
    <3>2. KeepsDecision(q) /\ \A g \in Handlers : Id[g] = q => Waits(g)
      BY ZenonT(30), <2>2, <3>1 DEF Moves, KeepsDecision, Same, Waits
    <3>3. Listed(q)' => Held(q)
      BY ZenonT(30) DEF Moves, Listed, Held
    <3> QED BY ZenonT(30), <2>2, <3>2, <3>3, HeldFrame DEF Moves, OtherHoldsSame
  <2> QED BY ZenonT(30), <2>1, <2>2
<1>5. RecoveryOK'
  BY ZenonT(30), RecoveryFrame DEF Moves
<1>6. ASSUME Copies = 1 PROVE ReleasedOK'
  <2>0. ReleasedOK /\ Id' = Id /\ Handlers' = Handlers
    BY ZenonT(30), <1>6 DEF SettlementInv, Id, Handlers
  <2>1. ASSUME NEW g \in Handlers, lease'[Id[g]] # "none" PROVE pc'[g] \notin {"start", "lease"}
    <3>1. CASE g = h
      BY ZenonT(30), <2>0, <2>1, <3>1 DEF Moves, ReleasedOK
    <3>2. CASE g # h
      <4>1. Id[g] # Id[h] /\ Id[g] \in Req
        BY ZenonT(30), <1>6, <3>2, OneCopy, IdIs
      <4>2. lease[Id[g]] # "none" /\ pc'[g] = pc[g]
        BY ZenonT(30), <2>1, <3>2, <4>1 DEF Moves, Same
      <4> QED BY ZenonT(30), <2>0, <4>2 DEF ReleasedOK
    <3> QED BY ZenonT(30), <3>1, <3>2
  <2>2. ASSUME rcv.at = "seal" PROVE res'[rcv.cur.key].st # "active"
    <3>1. rcv.cur \in Journal /\ rcv.cur \in Records
      BY ZenonT(30), <2>2, TypeIs DEF SettlementInv, RecoveryOK, RedrivePCs, LocalsOK
    <3>2. lease[rcv.cur.key] # "none" /\ rcv.cur.key \in Req
      BY ZenonT(30), <3>1 DEF SettlementInv, RecordOK, Records
    <3>3. ~(rcv.cur.key = Id[h] /\ pc[h] = "start")
      BY ZenonT(30), <2>0, <3>2 DEF ReleasedOK
    <3> QED BY ZenonT(30), <2>0, <2>2, <3>2, <3>3 DEF Moves, ReleasedOK, Active
  <2>3. rcv' = rcv
    BY ZenonT(30) DEF Moves
  <2> QED BY ZenonT(30), <2>0, <2>1, <2>2, <2>3 DEF ReleasedOK, Active
<1> QED BY ZenonT(30), <1>1, <1>2, <1>3, <1>4, <1>5, <1>6, Parts DEF Moves

----------------------------------------------------------------------------
(* The steps of a handler that write to the store only. *)
Goes(h, step, j) ==
    /\ pc' = [pc EXCEPT ![h] = step] /\ job' = [job EXCEPT ![h] = j]
    /\ UNCHANGED <<journalVars, fin, passVars, owed>>

(* What the invariant says, handler by handler and record by record. *)
LEMMA InvFacts ==
  ASSUME SettlementInv
  PROVE  /\ StoreOK /\ JournalOK /\ LocalsOK /\ NoUse \notin Uses
         /\ \A h \in Handlers : /\ Id[h] \in Req /\ HandlerOK(h) /\ Alone(h)
                                /\ pc[h] \in AdmittedPCs \union OverPCs /\ job[h] \in Jobs
         /\ \A r \in Req : HeldOK(r) /\ DecidedOK(r)
         /\ \A e \in Journal : RecordOK(e) /\ e.key \in Req /\ e \in Records
<1>1. StoreOK /\ JournalOK /\ LocalsOK /\ NoUse \notin Uses
  BY TypeIs DEF SettlementInv, Uses, NoUse
<1>2. \A e \in Journal : e \in Records
  BY <1>1, InAt DEF JournalOK, Journal, In
<1>3. \A e \in Journal : e.key \in Req
  BY <1>2 DEF Records
<1> QED BY ZenonT(30), <1>1, <1>2, <1>3, IdIs DEF SettlementInv, LocalsOK, HoldDecidedByCoordinator, DecidedOK, Decided

(* A step that moves one handler and leaves journal and passes alone. *)
LEMMA GoesFacts ==
  ASSUME SettlementInv, NEW h \in Handlers, NEW step \in AdmittedPCs \union OverPCs, NEW j \in Jobs, Goes(h, step, j)
  PROVE  /\ pc'[h] = step /\ job'[h] = j /\ \A g \in Handlers \ {h} : Same(g)
         /\ JournalOK' /\ KeepsEffects /\ Journal' = Journal /\ LocalsOK' /\ UNCHANGED <<rcv, rcn>>
         /\ StoreGrow => OwedOK'
<1>1. StoreOK /\ JournalOK /\ LocalsOK
  BY InvFacts
<1>2. pc'[h] = step /\ job'[h] = j /\ \A g \in Handlers \ {h} : Same(g)
  BY <1>1 DEF Goes, LocalsOK, Same
<1>3. JournalOK' /\ KeepsEffects /\ Journal' = Journal /\ UNCHANGED <<rcv, rcn, owed, fin>>
  BY <1>1 DEF Goes, journalVars, passVars, JournalOK, Good, KeepsEffects, Durable, Journal
<1>4. pc' \in [Handlers -> AdmittedPCs \union OverPCs] /\ job' \in [Handlers -> Jobs]
  BY <1>1 DEF Goes, LocalsOK
<1>5. LocalsOK'
  BY <1>1, <1>3, <1>4 DEF LocalsOK, Handlers
<1>6. StoreGrow => OwedOK'
  BY ZenonT(30), <1>3, OwedFrame
<1> QED BY ZenonT(30), <1>2, <1>3, <1>5, <1>6

(* The hold of the handler's own request, when the step does not touch it.  *)
LEMMA HeldSelf ==
  ASSUME SettlementInv, StoreGrow, NEW h \in Handlers, NEW step \in AdmittedPCs \union OverPCs, NEW j \in Jobs,
         Goes(h, step, j), HoldSame(Id[h]), job[h].failed => j.failed,
         Held(Id[h]) => step \in OverPCs \union {"release"} \/ (step \in {"lease", "refund"} /\ Decided(Id[h]))
  PROVE  HeldOK(Id[h])' /\ DecidedOK(Id[h])'
<1> DEFINE r == Id[h]
<1>1. /\ pc'[h] = step /\ job'[h] = j /\ \A g \in Handlers \ {h} : Same(g)
      /\ Journal' = Journal /\ UNCHANGED <<rcv, rcn, fin>> /\ r \in Req
  BY ZenonT(30), GoesFacts, InvFacts DEF Goes
<1>2. KeepsDecision(r) /\ (Listed(r)' => Held(r))
  BY ZenonT(30), <1>1 DEF KeepsDecision, Same, Listed, Held
<1>3. Held(r) => \A g \in Handlers : Id[g] = r => Waits(g)
  BY <1>1 DEF Waits, Same
<1>5. PICK q \in Req : q = r
  BY ZenonT(30), <1>1
<1> DEFINE new == {e \in Journal : FALSE}
<1>4. Journal' \subseteq Journal \union new /\ \A f \in new : f.key # q
  BY ZenonT(30), <1>1
<1> HIDE DEF new
<1> HIDE DEF r
<1>6. HoldSame(q) /\ (Held(q) => \A g \in Handlers : Id[g] = q => Waits(g)) /\ KeepsDecision(q) /\ (Listed(q)' => Held(q))
  BY ZenonT(30), <1>2, <1>3, <1>5 DEF r
<1>7. HeldOK(q)' /\ DecidedOK(q)'
  BY ZenonT(30), <1>4, <1>5, <1>6, HeldFrame
<1> QED BY ZenonT(30), <1>5, <1>7 DEF r

(* Such a step keeps the invariant when the handler keeps its own part of it. *)
LEMMA QuietStep ==
  ASSUME SettlementInv, NEW h \in Handlers, NEW step \in AdmittedPCs \union OverPCs, NEW j \in Jobs,
         Goes(h, step, j), StoreOK', StoreGrow, OtherHoldsSame(Id[h]),
         \A q \in Req \ {Id[h]} : lease[q] = "none" => lease'[q] = "none",
         lease[Id[h]] = "none" => lease'[Id[h]] = "none" \/ step \notin {"start", "lease"},
         step \in {"start", "lease"} => pc[h] = "start",
         \A q \in Req : res'[q].st = "active" => res[q].st = "active" \/ (q = Id[h] /\ pc[h] = "start"),
         step \in AdmittedPCs => pc[h] \in AdmittedPCs \/ res[Id[h]].st = "none",
         HandlerOK(h)', HeldOK(Id[h])' /\ DecidedOK(Id[h])',
         lease[Id[h]] # "none" /\ pc[h] \in OverPCs \union ArmedPCs \union {"lease", "refund", "release"} =>
            \/ step \in OverPCs \union {"lease", "refund", "release"}
            \/ pc[h] \in ArmedPCs /\ step \in ArmedPCs /\ j.use = job[h].use
  PROVE  SettlementInv'
<1>1. /\ pc'[h] = step /\ job'[h] = j /\ \A g \in Handlers \ {h} : Same(g)
      /\ JournalOK' /\ KeepsEffects /\ Journal' = Journal /\ LocalsOK' /\ UNCHANGED <<rcv, rcn>>
      /\ OwedOK' /\ fin' = fin
  BY ZenonT(30), GoesFacts DEF Goes
<1>0. PICK new : new = {}
  BY ZenonT(30)
<1>2. Moves(h, new)
  BY ZenonT(30), <1>0, <1>1 DEF Moves
<1>3. ASSUME NEW e \in Journal, e.key = Id[h] PROVE Follows(h)
  BY ZenonT(30), <1>1, <1>3, InvFacts DEF Follows, RecordOK
<1>4. \A e \in Journal : e.key = Id[h] => Follows(h) /\ \A f \in new : f.kind # "effect"
  BY ZenonT(30), <1>0, <1>3
<1>5. \A e \in new : RecordOK(e)'
  BY ZenonT(30), <1>0
<1> QED BY ZenonT(60), <1>1, <1>2, <1>4, <1>5, HandlerStep

(* A handler that moves on with the job it has. *)
LEMMA KeepsJob ==
  ASSUME SettlementInv, NEW h \in Handlers, NEW step, Goto(h, step), UNCHANGED job, Rest
  PROVE  Goes(h, step, job[h]) /\ job[h] \in Jobs
<1>1. job \in [Handlers -> Jobs]
  BY InvFacts DEF LocalsOK
<1>2. job' = [job EXCEPT ![h] = job[h]]
  BY <1>1
<1> QED BY ZenonT(30), <1>1, <1>2 DEF Goes, Goto, Rest

=============================================================================
