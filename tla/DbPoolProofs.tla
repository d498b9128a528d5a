---------------------------- MODULE DbPoolProofs ----------------------------
(***************************************************************************)
(* Who can block the pool of DbPool: for any size of the pool, the one      *)
(* connection of requestlog.OpenStore included, and any number of request   *)
(* goroutines.                                                              *)
(***************************************************************************)
EXTENDS DbPool, FiniteSetTheorems, SequenceTheorems, TLAPS

Nested == {"runner", "poller", "abandon"}

(* The stack of a goroutine is a chain of calls, and it waits for the next *)
(* one of them.                                                            *)
Callable(g) == IF held[g] = << >> THEN Starts(g) ELSE Calls(held[g][Len(held[g])])

StackOK(g) ==
  /\ held[g] # << >> => held[g][1] \in Starts(g)
  /\ \A k \in 1..(Len(held[g]) - 1) : held[g][k + 1] \in Calls(held[g][k])
  /\ want[g] # NoOp => want[g] \in Callable(g)

PoolTypeOK ==
  /\ held \in [Goroutines -> Seq(Ops)]
  /\ want \in [Goroutines -> Ops \cup {NoOp}]
  /\ numOpen \in Nat

(* The request goroutines that hold a connection. *)
Busy == {r \in Requests : held[r] # << >>}

(* The connections of the payout pipeline. *)
Depth == Len(held["runner"]) + Len(held["poller"]) + Len(held["abandon"])

(* numOpen counts the connections on the stacks. *)
Counted ==
  /\ IsFiniteSet(Busy)
  /\ numOpen = Depth + Cardinality(Busy)

PoolInv == PoolTypeOK /\ Counted /\ \A g \in Goroutines : StackOK(g)

(* The assumptions on the constants: there is a connection, and requests   *)
(* are not one of the three goroutines of the payout pipeline.             *)
PoolAssumption == PoolSize \in Nat \ {0} /\ Requests \cap Nested = {}

(* A blocked pool is blocked by the payout pipeline: no goroutine of a     *)
(* request holds a connection then, a goroutine of the pipeline waits for  *)
(* a further one in an operation it called while it holds one, and the     *)
(* pool has at most four.                                                  *)
BlockedByPipeline ==
  ~NoPoolDeadlock =>
    /\ \A r \in Requests : held[r] = << >>
    /\ \E g \in Nested : /\ held[g] # << >>
                         /\ want[g] \in Calls(held[g][Len(held[g])])
    /\ PoolSize <= 4

-----------------------------------------------------------------------------
(* Taking a connection from the pool and giving it back keeps the count.   *)

(* An operation name is not the mark for no operation. *)
LEMMA OpNotNone == NoOp \notin Ops
  BY DEF NoOp, Ops, Single

(* What may be opened is an operation. *)
LEMMA CallableIsOp ==
  ASSUME NEW g \in Goroutines, NEW op \in Callable(g)
  PROVE  op \in Ops
  BY DEF Callable, Starts, Calls, Ops, Single

(* Arithmetic that is applied to the lengths of stacks below. *)
LEMMA Lengths ==
  ASSUME NEW n \in Nat, n >= 1
  PROVE  /\ n > 1 \/ n = 1
         /\ (IF 1 <= n - 1 THEN n - 1 - 1 + 1 ELSE 0) = n - 1
  OBVIOUS

(* Pushing on a stack and popping from it. *)
LEMMA Pushed ==
  ASSUME NEW S, NEW s \in Seq(S), NEW e \in S
  PROVE  /\ Append(s, e) \in Seq(S) /\ Append(s, e) # << >>
         /\ Len(s) \in Nat /\ Len(Append(s, e)) = Len(s) + 1
         /\ Append(s, e)[Len(s) + 1] = e
         /\ \A k \in 1..Len(s) : Append(s, e)[k] = s[k]
  OBVIOUS

(* The same for popping. *)
LEMMA Popped ==
  ASSUME NEW S, NEW s \in Seq(S), s # << >>
  PROVE  /\ SubSeq(s, 1, Len(s) - 1) \in Seq(S)
         /\ Len(s) \in Nat /\ Len(s) >= 1 /\ Len(SubSeq(s, 1, Len(s) - 1)) = Len(s) - 1
         /\ \A k \in 1..(Len(s) - 1) : SubSeq(s, 1, Len(s) - 1)[k] = s[k]
<1>1. Len(s) \in Nat /\ Len(s) >= 1
  OBVIOUS
<1>2. \A k \in 1..(Len(s) - 1) : s[k] \in S
  BY <1>1
<1>3. Len(s) - 1 \in Int
  BY <1>1
<1>4. /\ SubSeq(s, 1, Len(s) - 1) \in Seq(S)
      /\ Len(SubSeq(s, 1, Len(s) - 1)) = IF 1 <= Len(s) - 1 THEN Len(s) - 1 - 1 + 1 ELSE 0
      /\ \A k \in 1..(Len(s) - 1 - 1 + 1) : SubSeq(s, 1, Len(s) - 1)[k] = s[1 + k - 1]
  BY <1>2, <1>3, SubSeqProperties
<1>5. Len(SubSeq(s, 1, Len(s) - 1)) = Len(s) - 1
  BY <1>1, <1>4, Lengths
<1>6. \A k \in 1..(Len(s) - 1) : SubSeq(s, 1, Len(s) - 1)[k] = s[k]
  <2> SUFFICES ASSUME NEW k \in 1..(Len(s) - 1)
               PROVE  SubSeq(s, 1, Len(s) - 1)[k] = s[k]
    OBVIOUS
  <2>1. k \in 1..(Len(s) - 1 - 1 + 1) /\ 1 + k - 1 = k
    BY <1>1
  <2>2. SubSeq(s, 1, Len(s) - 1)[k] = s[1 + k - 1]
    BY <1>4, <2>1
  <2> QED BY <2>1, <2>2
<1> QED
  BY <1>1, <1>4, <1>5, <1>6

(* A granted connection is on top of the stack of its goroutine. *)
LEMMA GrantTop ==
  ASSUME PoolTypeOK, NEW g \in Goroutines, Grant(g)
  PROVE  /\ held[g] \in Seq(Ops) /\ want[g] \in Ops
         /\ held'[g] = Append(held[g], want[g]) /\ want'[g] = NoOp
         /\ \A h \in Goroutines \ {g} : held'[h] = held[h] /\ want'[h] = want[h]
  BY DEF PoolTypeOK, Grant

(* A closed connection is taken off the stack of its goroutine. *)
LEMMA CloseTop ==
  ASSUME PoolTypeOK, NEW g \in Goroutines, Close(g)
  PROVE  /\ held[g] \in Seq(Ops) /\ held[g] # << >> /\ want'[g] = NoOp
         /\ held'[g] = SubSeq(held[g], 1, Len(held[g]) - 1)
         /\ \A h \in Goroutines \ {g} : held'[h] = held[h] /\ want'[h] = want[h]
  BY DEF PoolTypeOK, Close

(* The depth of the three stacks; it is zero only when they are empty. *)
LEMMA DepthType ==
  ASSUME PoolTypeOK
  PROVE  /\ \A h \in Nested : Len(held[h]) \in Nat /\ (held[h] # << >> => Len(held[h]) # 0)
         /\ Depth \in Nat
         /\ Depth = 0 => \A h \in Nested : Len(held[h]) = 0
<1>1. \A h \in Nested : held[h] \in Seq(Ops)
  BY DEF PoolTypeOK, Goroutines, Nested
<1>2. \A h \in Nested : Len(held[h]) \in Nat /\ (held[h] # << >> => Len(held[h]) # 0)
  BY <1>1
<1>3. PICK a \in Nat, b \in Nat, c \in Nat :
        a = Len(held["runner"]) /\ b = Len(held["poller"]) /\ c = Len(held["abandon"])
  BY <1>2 DEF Nested
<1>4. Depth = a + b + c
  BY <1>3, Zenon DEF Depth
<1>5. Depth \in Nat /\ (Depth = 0 => a = 0 /\ b = 0 /\ c = 0)
  BY <1>4
<1> QED
  BY <1>2, <1>3, <1>5 DEF Nested

(* Every step keeps the types. *)
LEMMA PoolTypeStep ==
  ASSUME PoolInv, [Next]_vars
  PROVE  PoolTypeOK'
<1> USE DEF PoolInv, PoolTypeOK
<1>1. ASSUME NEW g \in Goroutines, NEW op \in Ops, Open(g, op) PROVE PoolTypeOK'
  BY <1>1 DEF Open
<1>2. ASSUME NEW g \in Goroutines, Grant(g) PROVE PoolTypeOK'
  <2>1. Append(held[g], want[g]) \in Seq(Ops)
    BY <1>2, GrantTop
  <2> QED BY <1>2, <2>1 DEF Grant
<1>3. ASSUME NEW g \in Goroutines, Close(g) PROVE PoolTypeOK'
  <2>1. SubSeq(held[g], 1, Len(held[g]) - 1) \in Seq(Ops)
    BY <1>3, CloseTop
  <2>2. numOpen # 0
    <3>1. IsFiniteSet(Busy) /\ Cardinality(Busy) \in Nat /\ Depth \in Nat
      BY FS_CardinalityType, DepthType DEF Counted
    <3>2. held[g] # << >>
      BY <1>3 DEF Close
    <3>3. g \in Requests => Cardinality(Busy) # 0
      <4>1. g \in Requests => g \in Busy
        BY <3>2 DEF Busy
      <4> QED BY <3>1, <4>1, FS_EmptySet
    <3>4. g \in Nested => Depth # 0
      BY <3>2, DepthType
    <3>5. g \in Requests \/ g \in Nested
      BY DEF Goroutines, Nested
    <3> QED
      BY <3>1, <3>3, <3>4, <3>5 DEF Counted
  <2> QED BY <1>3, <2>1, <2>2 DEF Close
<1>4. CASE UNCHANGED vars
  BY <1>4 DEF vars
<1> QED
  BY <1>1, <1>2, <1>3, <1>4 DEF Next

(* A request holds at most one connection, and asks for none meanwhile. *)
LEMMA RequestDepth ==
  ASSUME PoolTypeOK, NEW g \in Requests, g \notin Nested, StackOK(g), held[g] # << >>
  PROVE  Len(held[g]) = 1 /\ want[g] = NoOp
<1>0. held[g] \in Seq(Ops) /\ held[g][1] = Single
  BY DEF PoolTypeOK, Goroutines, StackOK, Starts, Nested
<1>1. Calls(Single) = {}
  BY DEF Calls, Single
<1>2. Len(held[g]) \in Nat /\ Len(held[g]) >= 1
  BY <1>0, Popped
<1>3. Len(held[g]) = 1
  <2>1. CASE Len(held[g]) > 1
    <3>1. 1 \in 1..(Len(held[g]) - 1)
      BY <1>2, <2>1
    <3>2. held[g][1 + 1] \in Calls(held[g][1])
      BY <3>1 DEF StackOK
    <3> QED BY <1>0, <1>1, <3>2
  <2>2. Len(held[g]) > 1 \/ Len(held[g]) = 1
    BY <1>2, Lengths
  <2> QED BY <2>1, <2>2
<1> QED
  BY <1>0, <1>1, <1>3 DEF StackOK, Callable

(* When one of the three stacks grows or shrinks by d and the others stay,  *)
(* so does their sum.                                                       *)
LEMMA SumMoves ==
  ASSUME NEW g \in Nested, NEW d \in Int,
         \A h \in Nested : Len(held[h]) \in Nat,
         Len(held'[g]) = Len(held[g]) + d,
         \A h \in Nested \ {g} : held'[h] = held[h]
  PROVE  Depth' = Depth + d
<1>0. PICK a \in Nat, b \in Nat, c \in Nat :
        a = Len(held["runner"]) /\ b = Len(held["poller"]) /\ c = Len(held["abandon"])
  BY DEF Nested
<1>4. Depth = a + b + c
  BY <1>0, Zenon DEF Depth
<1>1. CASE g = "runner"
  <2>1. held'["poller"] = held["poller"] /\ held'["abandon"] = held["abandon"]
    BY <1>1 DEF Nested
  <2>2. Depth' = (a + d) + b + c
    BY <1>0, <1>1, <2>1, Zenon DEF Depth
  <2> QED BY <1>4, <2>2
<1>2. CASE g = "poller"
  <2>1. held'["runner"] = held["runner"] /\ held'["abandon"] = held["abandon"]
    BY <1>2 DEF Nested
  <2>2. Depth' = a + (b + d) + c
    BY <1>0, <1>2, <2>1, Zenon DEF Depth
  <2> QED BY <1>4, <2>2
<1>3. CASE g = "abandon"
  <2>1. held'["runner"] = held["runner"] /\ held'["poller"] = held["poller"]
    BY <1>3 DEF Nested
  <2>2. Depth' = a + b + (c + d)
    BY <1>0, <1>3, <2>1, Zenon DEF Depth
  <2> QED BY <1>4, <2>2
<1> QED BY <1>1, <1>2, <1>3 DEF Nested

(* Every step keeps the count of the connections. *)
LEMMA CountedStep ==
  ASSUME PoolAssumption, PoolInv, [Next]_vars
  PROVE  Counted'
<1>0. PoolTypeOK /\ Counted /\ \A g \in Goroutines : StackOK(g)
  BY DEF PoolInv
<1>1. \A h \in Nested : Len(held[h]) \in Nat
  BY <1>0, DepthType
<1>2. Depth \in Nat
  BY <1>0, DepthType
<1>3. Cardinality(Busy) \in Nat
  BY <1>0, FS_CardinalityType DEF Counted
<1>4. CASE UNCHANGED <<held, numOpen>>
  BY <1>0, <1>4 DEF Counted, Busy, Depth
<1>5. ASSUME NEW g \in Nested, Grant(g) PROVE Counted'
  <2>0. g \in Goroutines /\ g \notin Requests
    BY DEF Nested, Goroutines, PoolAssumption
  <2>1. Busy' = Busy
    BY <1>0, <1>5, <2>0, GrantTop DEF Busy, Goroutines
  <2>2. held[g] \in Seq(Ops) /\ want[g] \in Ops /\ held'[g] = Append(held[g], want[g])
    BY <1>0, <1>5, <2>0, GrantTop
  <2>3. Len(held'[g]) = Len(held[g]) + 1
    BY <2>2, Pushed
  <2>4. \A h \in Nested \ {g} : held'[h] = held[h]
    BY <1>0, <1>5, <2>0, GrantTop DEF Goroutines, Nested
  <2>5. Depth' = Depth + 1
    BY <1>1, <2>3, <2>4, SumMoves
  <2>6. numOpen' = numOpen + 1
    BY <1>5 DEF Grant
  <2> QED BY <1>0, <1>2, <1>3, <2>1, <2>5, <2>6 DEF Counted
<1>6. ASSUME NEW g \in Requests, Grant(g) PROVE Counted'
  <2>0. g \in Goroutines /\ g \notin Nested
    BY DEF Nested, Goroutines, PoolAssumption
  <2>1. held[g] = << >>
    BY <1>0, <1>6, <2>0, RequestDepth DEF Grant
  <2>2. \A h \in Nested : held'[h] = held[h]
    BY <1>0, <1>6, <2>0, GrantTop DEF Goroutines, Nested
  <2>3. held'[g] # << >>
    BY <1>0, <1>6, <2>0, GrantTop, Pushed
  <2>4. Busy' = Busy \cup {g} /\ g \notin Busy
    BY <1>0, <1>6, <2>0, <2>1, <2>3, GrantTop DEF Busy, Goroutines
  <2>5. IsFiniteSet(Busy') /\ Cardinality(Busy') = Cardinality(Busy) + 1
    BY <1>0, <2>4, FS_AddElement DEF Counted
  <2>6. numOpen' = numOpen + 1
    BY <1>6 DEF Grant
  <2>7. Depth' = Depth
    BY <2>2 DEF Depth, Nested
  <2> QED BY <1>0, <1>2, <1>3, <2>5, <2>6, <2>7 DEF Counted
<1>7. ASSUME NEW g \in Nested, Close(g) PROVE Counted'
  <2>0. g \in Goroutines /\ g \notin Requests
    BY DEF Nested, Goroutines, PoolAssumption
  <2>1. Busy' = Busy
    BY <1>0, <1>7, <2>0, CloseTop DEF Busy, Goroutines
  <2>2. /\ held[g] \in Seq(Ops) /\ held[g] # << >>
        /\ held'[g] = SubSeq(held[g], 1, Len(held[g]) - 1)
    BY <1>0, <1>7, <2>0, CloseTop
  <2>3. Len(held[g]) \in Nat /\ Len(held'[g]) = Len(held[g]) - 1
    BY <2>2, Popped
  <2>4. Len(held'[g]) = Len(held[g]) + (-1)
    BY <2>3
  <2>5. \A h \in Nested \ {g} : held'[h] = held[h]
    BY <1>0, <1>7, <2>0, CloseTop DEF Goroutines, Nested
  <2>6. Depth' = Depth + (-1)
    BY <1>1, <2>4, <2>5, SumMoves
  <2>7. numOpen' = numOpen - 1
    BY <1>7 DEF Close
  <2> QED BY <1>0, <1>2, <1>3, <2>1, <2>6, <2>7 DEF Counted
<1>8. ASSUME NEW g \in Requests, Close(g) PROVE Counted'
  <2>0. g \in Goroutines /\ g \notin Nested
    BY DEF Nested, Goroutines, PoolAssumption
  <2>1. Len(held[g]) = 1 /\ held[g] # << >>
    BY <1>0, <1>8, <2>0, CloseTop, RequestDepth
  <2>2. \A h \in Nested : held'[h] = held[h]
    BY <1>0, <1>8, <2>0, CloseTop DEF Goroutines, Nested
  <2>3. held'[g] = << >>
    <3>1. /\ held[g] \in Seq(Ops) /\ held[g] # << >>
          /\ held'[g] = SubSeq(held[g], 1, Len(held[g]) - 1)
      BY <1>0, <1>8, <2>0, CloseTop
    <3>2. held'[g] \in Seq(Ops) /\ Len(held'[g]) = 0
      BY <2>1, <3>1, Popped
    <3> QED BY <3>2
  <2>4. Busy' = Busy \ {g} /\ g \in Busy
    BY <1>0, <1>8, <2>0, <2>1, <2>3, CloseTop DEF Busy, Goroutines
  <2>5. IsFiniteSet(Busy') /\ Cardinality(Busy') = Cardinality(Busy) - 1
    BY <1>0, <2>4, FS_RemoveElement DEF Counted
  <2>6. numOpen' = numOpen - 1
    BY <1>8 DEF Close
  <2>7. Depth' = Depth
    BY <2>2 DEF Depth, Nested
  <2> QED BY <1>0, <1>2, <1>3, <2>5, <2>6, <2>7 DEF Counted
<1> QED
  BY <1>4, <1>5, <1>6, <1>7, <1>8 DEF Next, Open, vars, Goroutines, Nested

-----------------------------------------------------------------------------
(* The stacks stay chains of calls.                                         *)

(* A goroutine whose stack and request are the same is as good as before. *)
LEMMA StackKept ==
  ASSUME NEW g, StackOK(g), held'[g] = held[g], want'[g] = want[g]
  PROVE  StackOK(g)'
  BY DEF StackOK, Callable

(* A granted operation is called by the one below it. *)
LEMMA GrantStack ==
  ASSUME PoolTypeOK, NEW g \in Goroutines, StackOK(g), Grant(g)
  PROVE  StackOK(g)'
<1>1. /\ held[g] \in Seq(Ops) /\ want[g] \in Ops
      /\ held'[g] = Append(held[g], want[g]) /\ want'[g] = NoOp
  BY GrantTop
<1>2. PICK n \in Nat : n = Len(held[g])
  BY <1>1
<1>3. /\ Len(held'[g]) = n + 1 /\ held'[g][n + 1] = want[g]
      /\ \A k \in 1..n : held'[g][k] = held[g][k]
  BY <1>1, <1>2, Pushed
<1>4. want[g] \in Callable(g)
  BY <1>1, OpNotNone DEF StackOK
<1>5. held'[g][1] \in Starts(g)
  <2>1. CASE held[g] = << >>
    <3>1. n = 0
      BY <1>2, <2>1
    <3> QED BY <1>3, <1>4, <2>1, <3>1 DEF Callable
  <2>2. CASE held[g] # << >>
    <3>1. 1 \in 1..n
      BY <1>1, <1>2, <2>2
    <3> QED BY <1>3, <2>2, <3>1 DEF StackOK
  <2> QED BY <2>1, <2>2
<1>6. ASSUME NEW k \in 1..n PROVE held'[g][k + 1] \in Calls(held'[g][k])
  <2>1. CASE k = n
    <3>1. held[g] # << >>
      BY <1>2, <2>1
    <3>2. want[g] \in Calls(held[g][n])
      BY <1>2, <1>4, <3>1 DEF Callable
    <3> QED BY <1>3, <2>1, <3>2
  <2>2. CASE k # n
    <3>1. k \in 1..(n - 1) /\ k \in 1..n /\ k + 1 \in 1..n
      BY <2>2
    <3>2. held[g][k + 1] \in Calls(held[g][k])
      BY <1>2, <3>1 DEF StackOK
    <3> QED BY <1>3, <3>1, <3>2
  <2> QED BY <2>1, <2>2
<1>7. (n + 1) - 1 = n
  OBVIOUS
<1> QED
  BY <1>1, <1>3, <1>5, <1>6, <1>7 DEF StackOK

(* What is left when the innermost operation returns is a chain. *)
LEMMA CloseStack ==
  ASSUME PoolTypeOK, NEW g \in Goroutines, StackOK(g), Close(g)
  PROVE  StackOK(g)'
<1>1. /\ held[g] \in Seq(Ops) /\ held[g] # << >> /\ want'[g] = NoOp
      /\ held'[g] = SubSeq(held[g], 1, Len(held[g]) - 1)
  BY CloseTop
<1>2. PICK n \in Nat : n = Len(held[g])
  BY <1>1
<1>3. /\ held'[g] \in Seq(Ops) /\ Len(held'[g]) = n - 1
      /\ \A k \in 1..(n - 1) : held'[g][k] = held[g][k]
  BY <1>1, <1>2, Popped
<1>4. held'[g] # << >> => held'[g][1] \in Starts(g)
  <2>1. held'[g] # << >> => 1 \in 1..(n - 1)
    BY <1>3
  <2> QED BY <1>1, <1>3, <2>1 DEF StackOK
<1>5. ASSUME NEW k \in 1..(n - 1 - 1) PROVE held'[g][k + 1] \in Calls(held'[g][k])
  <2>1. k \in 1..(n - 1) /\ k + 1 \in 1..(n - 1)
    OBVIOUS
  <2>2. held[g][k + 1] \in Calls(held[g][k])
    BY <1>2, <2>1 DEF StackOK
  <2> QED BY <1>3, <2>1, <2>2
<1> QED
  BY <1>1, <1>3, <1>4, <1>5 DEF StackOK

(* Every step keeps every stack a chain of calls. *)
LEMMA StackStep ==
  ASSUME PoolInv, [Next]_vars, NEW h \in Goroutines
  PROVE  StackOK(h)'
<1>0. PoolTypeOK /\ StackOK(h)
  BY DEF PoolInv
<1>1. ASSUME NEW g \in Goroutines, NEW op \in Ops, Open(g, op) PROVE StackOK(h)'
  <2>1. CASE h = g
    BY <1>0, <1>1, <2>1 DEF Open, StackOK, Callable, PoolTypeOK
  <2>2. CASE h # g
    BY <1>0, <1>1, <2>2, StackKept DEF Open, PoolTypeOK
  <2> QED BY <2>1, <2>2
<1>2. ASSUME NEW g \in Goroutines, Grant(g) PROVE StackOK(h)'
  <2>1. CASE h = g
    BY <1>0, <1>2, <2>1, GrantStack
  <2>2. CASE h # g
    BY <1>0, <1>2, <2>2, GrantTop, StackKept
  <2> QED BY <2>1, <2>2
<1>3. ASSUME NEW g \in Goroutines, Close(g) PROVE StackOK(h)'
  <2>1. CASE h = g
    BY <1>0, <1>3, <2>1, CloseStack
  <2>2. CASE h # g
    BY <1>0, <1>3, <2>2, CloseTop, StackKept
  <2> QED BY <2>1, <2>2
<1>4. CASE UNCHANGED vars
  BY <1>0, <1>4, StackKept DEF vars
<1> QED
  BY <1>1, <1>2, <1>3, <1>4 DEF Next

-----------------------------------------------------------------------------
(* A goroutine that waits while it holds connections is one of the three,   *)
(* and holds at most two as the runner and one as the others.               *)

(* An operation that calls nothing is the innermost one and waits for none. *)
LEMMA LeafIsLast ==
  ASSUME NEW g, StackOK(g), NEW n \in Nat, n = Len(held[g]), held[g] # << >>,
         NEW k \in 1..n, Calls(held[g][k]) = {}
  PROVE  k = n /\ want[g] = NoOp
<1>1. k = n
  <2>1. CASE k # n
    <3>1. k \in 1..(n - 1)
      BY <2>1
    <3> QED BY <3>1 DEF StackOK
  <2> QED BY <2>1
<1> QED
  BY <1>1 DEF StackOK, Callable

(* How deep a waiting goroutine is. *)
LEMMA WaitingDepth ==
  ASSUME PoolTypeOK, NEW g \in Nested, StackOK(g), held[g] # << >> => want[g] # NoOp
  PROVE  Len(held[g]) \in 0..(IF g = "runner" THEN 2 ELSE 1)
<1>0. held[g] \in Seq(Ops)
  BY DEF PoolTypeOK, Goroutines, Nested
<1>1. PICK n \in Nat : n = Len(held[g])
  BY <1>0
<1>2. CASE n >= 2 => g = "runner" /\ n = 2
  <2>1. n \in 0..(IF g = "runner" THEN 2 ELSE 1)
    BY <1>2
  <2> QED BY <1>1, <2>1
<1>3. ASSUME n >= 2 PROVE g = "runner" /\ n = 2
  <2>1. held[g] # << >> /\ want[g] # NoOp
    BY <1>0, <1>1, <1>3
  <2>2. 1 \in 1..n /\ 2 \in 1..n /\ 1 \in 1..(n - 1) /\ 1 + 1 = 2
    BY <1>3
  <2>3. held[g][1] \in Starts(g) /\ held[g][2] \in Calls(held[g][1])
    BY <1>1, <2>1, <2>2 DEF StackOK
  <2>4. Calls(held[g][1]) # {} /\ Calls(held[g][2]) # {}
    BY <1>1, <2>1, <2>2, LeafIsLast
  <2>5. g = "runner" /\ held[g][2] = "allocate"
    BY <2>3, <2>4 DEF Starts, Calls, Single, Nested
  <2>6. ~(n >= 3)
    <3> SUFFICES ASSUME n >= 3 PROVE FALSE
      OBVIOUS
    <3>1. 3 \in 1..n /\ 2 \in 1..(n - 1) /\ 2 + 1 = 3
      OBVIOUS
    <3>2. held[g][3] \in Calls(held[g][2])
      BY <1>1, <3>1 DEF StackOK
    <3>3. Calls(held[g][3]) = {}
      BY <2>5, <3>2 DEF Calls, Single
    <3> QED BY <1>1, <2>1, <3>1, <3>3, LeafIsLast
  <2> QED BY <1>3, <2>5, <2>6
<1> QED
  BY <1>2, <1>3

-----------------------------------------------------------------------------
(* The initial state: nobody holds or waits for a connection. *)
LEMMA PoolInit ==
  ASSUME PoolAssumption, Init
  PROVE  PoolInv
<1>1. PoolTypeOK
  BY DEF Init, PoolTypeOK, Goroutines
<1>2. \A g \in Goroutines : held[g] = << >> /\ want[g] = NoOp
  BY DEF Init
<1>3. Busy = {}
  BY <1>2 DEF Busy, Goroutines
<1>4. IsFiniteSet(Busy) /\ Cardinality(Busy) = 0
  BY <1>3, FS_EmptySet
<1>5. Depth = 0
  <2>1. \A h \in Nested : held[h] = << >>
    BY <1>2 DEF Goroutines, Nested
  <2>2. Len(held["runner"]) = 0 /\ Len(held["poller"]) = 0 /\ Len(held["abandon"]) = 0
    BY <2>1 DEF Nested
  <2> QED BY <2>2 DEF Depth
<1>6. Counted
  BY <1>4, <1>5 DEF Counted, Init
<1>7. \A g \in Goroutines : StackOK(g)
  <2> SUFFICES ASSUME NEW g \in Goroutines PROVE StackOK(g)
    OBVIOUS
  <2>1. held[g] = << >> /\ want[g] = NoOp
    BY <1>2
  <2>2. Len(held[g]) = 0
    BY <2>1
  <2>3. 1..(0 - 1) = {}
    OBVIOUS
  <2> QED BY <2>1, <2>2, <2>3 DEF StackOK
<1> QED
  BY <1>1, <1>6, <1>7 DEF PoolInv

(* Only the pipeline waits while it holds a connection, and it holds four   *)
(* at most then.                                                            *)
LEMMA BlockedState ==
  ASSUME PoolAssumption, PoolInv
  PROVE  BlockedByPipeline
<1> SUFFICES ASSUME numOpen = PoolSize,
                    \A g \in Goroutines : held[g] # << >> => want[g] # NoOp
             PROVE  /\ \A r \in Requests : held[r] = << >>
                    /\ \E g \in Nested : /\ held[g] # << >>
                                         /\ want[g] \in Calls(held[g][Len(held[g])])
                    /\ PoolSize <= 4
  BY DEF NoPoolDeadlock, BlockedByPipeline
<1>0. PoolTypeOK /\ Counted /\ \A g \in Goroutines : StackOK(g)
  BY DEF PoolInv
<1>r. \A r \in Requests : held[r] = << >>
  <2> SUFFICES ASSUME NEW r \in Requests, held[r] # << >> PROVE FALSE
    OBVIOUS
  <2>1. r \in Goroutines /\ r \notin Nested
    BY DEF Goroutines, PoolAssumption
  <2> QED BY <1>0, <2>1, RequestDepth
<1>1. Busy = {}
  BY <1>r DEF Busy
<1>2. numOpen = Depth + 0
  BY <1>0, <1>1, FS_EmptySet DEF Counted
<1>3. \A g \in Nested : Len(held[g]) \in 0..(IF g = "runner" THEN 2 ELSE 1)
  <2> SUFFICES ASSUME NEW g \in Nested
               PROVE  Len(held[g]) \in 0..(IF g = "runner" THEN 2 ELSE 1)
    OBVIOUS
  <2>1. g \in Goroutines
    BY DEF Nested, Goroutines
  <2> QED BY <1>0, <2>1, WaitingDepth
<1>4. /\ Len(held["runner"]) \in 0..2 /\ Len(held["poller"]) \in 0..1
      /\ Len(held["abandon"]) \in 0..1
  BY <1>3 DEF Nested
<1>5. PICK a \in 0..2, b \in 0..1, c \in 0..1 :
        a = Len(held["runner"]) /\ b = Len(held["poller"]) /\ c = Len(held["abandon"])
  BY <1>4
<1>6. Depth = a + b + c
  BY <1>5, Zenon DEF Depth
<1>7. PoolSize <= 4
  BY <1>2, <1>6 DEF PoolAssumption
<1>8. PICK g \in Nested : held[g] # << >>
  <2> SUFFICES ASSUME \A g \in Nested : held[g] = << >> PROVE FALSE
    OBVIOUS
  <2>1. held["runner"] = << >> /\ held["poller"] = << >> /\ held["abandon"] = << >>
    BY DEF Nested
  <2>2. a = 0 /\ b = 0 /\ c = 0
    BY <1>5, <2>1
  <2> QED BY <1>2, <1>6, <2>2 DEF PoolAssumption
<1>9. want[g] \in Calls(held[g][Len(held[g])])
  <2>1. g \in Goroutines
    BY DEF Nested, Goroutines
  <2> QED BY <1>0, <1>8, <2>1 DEF StackOK, Callable
<1> QED
  BY <1>r, <1>7, <1>8, <1>9

(* Whatever the size of the pool, the one connection requestlog.OpenStore   *)
(* allows included, and however many request goroutines share it: when the  *)
(* pool is blocked, the payout pipeline has blocked it.  The goroutines of  *)
(* requests hold nothing then; the runner (processRow and                   *)
(* allocateBuildSignBroadcast), the poller (ReorgPoller.Run) or the abandon *)
(* handler (ServeAbandon) waits for a further connection while it keeps its *)
(* first; and since they keep four at most between them, a pool of five     *)
(* would never be blocked.                                                  *)
THEOREM PipelineBlocksPool == PoolAssumption => (Spec => []BlockedByPipeline)
<1> SUFFICES ASSUME PoolAssumption PROVE Spec => []BlockedByPipeline
  OBVIOUS
<1>1. Init => PoolInv
  BY PoolInit
<1>2. PoolInv /\ [Next]_vars => PoolInv'
  BY PoolTypeStep, CountedStep, StackStep DEF PoolInv, Goroutines
<1>3. PoolInv => BlockedByPipeline
  BY BlockedState
<1> QED
  BY <1>1, <1>2, <1>3, PTL DEF Spec

====
