------------------------------- MODULE DbPool -------------------------------
(***************************************************************************)
(* The database/sql pool that the payout pipeline shares with the request  *)
(* log and with billing (requestlog.OpenStore, billing.NewStore and        *)
(* setupPayout all get one *sql.DB).  An operation that opened a           *)
(* connection keeps it until it returns, and asks for another one in each  *)
(* operation it calls meanwhile.  The modules around PayoutRunner assume   *)
(* that a connection is always found; this one looks at that assumption.   *)
(*                                                                         *)
(* An operation is what takes one connection.  How often and in which      *)
(* order an operation calls the others does not matter to the pool.        *)
(***************************************************************************)
EXTENDS Integers, Sequences

CONSTANTS PoolSize,   \* SetMaxOpenConns
          Requests    \* goroutines that run one statement or transaction at a time

Goroutines == {"runner", "poller", "abandon"} \cup Requests

(* SelfFence, StampBroadcastAt, markConfirmedStandalone, ClaimPayoutReady, *)
(* a heartbeat or a statement of the request log: nothing is called while  *)
(* the connection is held.                                                 *)
Single == "single"
NoOp == "none"
Ops == {Single, "processRow", "allocate", "reorgRun", "cancelReorg", "serveAbandon"}

(* The operations called while the connection of op is held. *)
Calls(op) ==
  CASE op = "processRow" -> {Single, "allocate"}
    [] op \in {"allocate", "serveAbandon"} -> {Single}
    [] op = "reorgRun" -> {"cancelReorg"}
    [] OTHER -> {}

(* What a goroutine does first. *)
Starts(g) ==
  CASE g = "runner" -> {Single, "processRow"}
    [] g = "poller" -> {"reorgRun"}
    [] g = "abandon" -> {"serveAbandon"}
    [] OTHER -> {Single}

VARIABLES held,   \* held[g]: operations of g that hold a connection, innermost last
          want,   \* want[g]: the operation of g that waits for a connection
          numOpen \* connections handed out (sql.DB.numOpen)

vars == <<held, want, numOpen>>

Init ==
  /\ held = [g \in Goroutines |-> << >>]
  /\ want = [g \in Goroutines |-> NoOp]
  /\ numOpen = 0

Open(g, op) ==
  /\ want[g] = NoOp
  /\ op \in IF held[g] = << >> THEN Starts(g) ELSE Calls(held[g][Len(held[g])])
  /\ want' = [want EXCEPT ![g] = op]
  /\ UNCHANGED <<held, numOpen>>

(* The pool hands out a connection while it has one. *)
Grant(g) ==
  /\ want[g] # NoOp
  /\ numOpen < PoolSize
  /\ numOpen' = numOpen + 1
  /\ held' = [held EXCEPT ![g] = Append(@, want[g])]
  /\ want' = [want EXCEPT ![g] = NoOp]

(* The innermost operation returns and its connection with it. *)
Close(g) ==
  /\ want[g] = NoOp
  /\ held[g] # << >>
  /\ held' = [held EXCEPT ![g] = SubSeq(@, 1, Len(@) - 1)]
  /\ numOpen' = numOpen - 1
  /\ UNCHANGED want

Next == \E g \in Goroutines : (\E op \in Ops : Open(g, op)) \/ Grant(g) \/ Close(g)

Spec == Init /\ [][Next]_vars

-----------------------------------------------------------------------------
(* The pool never deadlocks: when every connection is in use, one of the   *)
(* goroutines that hold them can go on without asking for another.         *)
NoPoolDeadlock ==
  numOpen = PoolSize => \E g \in Goroutines : held[g] # << >> /\ want[g] = NoOp
=============================================================================
