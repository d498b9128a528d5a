--------------------------- MODULE PayoutRunnerMC ---------------------------
(***************************************************************************)
(* PayoutRunner for TLC: symmetry, and progress of the pipeline.           *)
(***************************************************************************)
EXTENDS PayoutRunnerInv, TLC

(* Processes and tokens are interchangeable. *)
Symmetry == Permutations(Procs) \cup Permutations(Tokens)

-----------------------------------------------------------------------------
(* A service manager restarts the process, whose start does not hang. *)
StartUp(q) == ColdStart(q) \/ AcquireLease(q) \/ AcquireConflict(q)

(* BroadcastBoth or rebroadcastCancel with an endpoint that accepts. *)
SendAccepted(q) ==
  \/ Broadcast(q) /\ pc'[q] = "stamp"
  \/ Rebroadcast(q) /\ pc'[q] = "stamp"
  \/ RebroadcastCancel(q) /\ pc'[q] = "cancelStamp"

(* The loop's ticker fires, a cycle does not hang (every RPC call and poll *)
(* has a deadline), an endpoint that is asked again and again accepts in   *)
(* the end, and the chain mines and deepens what its nodes know.           *)
Fairness ==
  /\ \A q \in Procs :
       /\ WF_vars(StartUp(q)) /\ WF_vars(StartCycle(q, TRUE)) /\ WF_vars(HeartbeatTick(q))
       /\ WF_vars(CycleStep(q)) /\ SF_vars(SendAccepted(q))
  /\ WF_vars(Tick)
  /\ WF_vars((\E t \in sent : Mine(t, nonceOf[t])) /\ ChainStep)
  /\ WF_vars(Finalize /\ ChainStep)

FairSpec == Spec /\ Fairness

(* From some point on nothing crashes and the operator leaves the payouts  *)
(* alone.                                                                  *)
CalmsDown ==
  <>[][\A q \in Procs : /\ pc[q] # "down" /\ pc'[q] = "down" => AcquireConflict(q)
                        /\ abandoned' = abandoned]_vars

(* What the runner leaves to the operator: the payment that was abandoned  *)
(* was mined after all, or a cancel was mined without having been stamped; *)
(* or attempt_seq has reached its bound.                                   *)
OperatorsTurn(p) ==
  \/ \E i \in abandoned \ cancels : i[1] = p /\ IsFinal(i)
  \/ \E i \in LiveCancels(p) \ (stamped \cup confirmed) : IsFinal(i)
  \/ LivePayments(p) = {} /\ <<p, MaxSeq>> \in rows

(* Every ready payout is paid and consumed in the end: a payment signed    *)
(* before a crash is found and sent again, and after an abandon the cancel *)
(* is pushed through and a new payment made, unless it is the operator's   *)
(* turn.                                                                   *)
EventuallyPaid ==
  CalmsDown => \A p \in Payouts : <>(status[p] = "consumed" \/ OperatorsTurn(p))

(* The same with crashes and abandons together, when a start may leave the *)
(* cursor for good on a nonce that a live row has.                         *)
PaidUnlessStuck ==
  CalmsDown => \/ <>[]NonceTaken(cursor)
               \/ \A p \in Payouts : <>(status[p] = "consumed" \/ OperatorsTurn(p))
=============================================================================
