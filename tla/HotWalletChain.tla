---------------------------- MODULE HotWalletChain ----------------------------
(***************************************************************************)
(* The chain as the payout pipeline sees it through its two RPC endpoints: *)
(* external code, modelled from how payout/rpc.go, runner.go and reorg.go  *)
(* use it.  Only the hot wallet's transactions matter.  An account's       *)
(* transactions are mined in nonce order without gaps, so the account's    *)
(* history is a sequence whose element n + 1 used nonce n.                 *)
(*                                                                         *)
(* The first `final' elements are at depth ConfirmationBlocks on both      *)
(* endpoints.  A reorganisation takes back a suffix; one that takes back   *)
(* more than the shallow part is a deep one.  Transactions that nodes have *)
(* seen stay known, so a reorganised transaction may be mined again.       *)
(***************************************************************************)
EXTENDS Integers, Sequences

VARIABLES sent,    \* transactions that reached a node, named by their attempt row
          chain,   \* mined transactions of the hot wallet, by nonce
          final    \* how many of them are deep enough to be confirmed

chainVars == <<sent, chain, final>>

ChainTypeOK(Txs) ==
  /\ sent \subseteq Txs
  /\ chain \in Seq(sent)
  /\ final \in 0..Len(chain)

ChainInit == sent = {} /\ chain = << >> /\ final = 0

(* Both receipts present, status 1, at depth on both endpoints. *)
IsFinal(t) == \E k \in 1..final : chain[k] = t

(* A receipt exists at some depth. *)
IsMined(t) == \E k \in 1..Len(chain) : chain[k] = t

Reach(t) == sent' = sent \cup {t} /\ UNCHANGED <<chain, final>>

Mine(t, n) ==
  /\ t \in sent
  /\ n = Len(chain)
  /\ chain' = Append(chain, t)
  /\ UNCHANGED <<sent, final>>

Finalize ==
  /\ final < Len(chain)
  /\ final' = final + 1
  /\ UNCHANGED <<sent, chain>>

ShallowReorg(k) ==
  /\ k \in final..(Len(chain) - 1)
  /\ chain' = SubSeq(chain, 1, k)
  /\ UNCHANGED <<sent, final>>

DeepReorg(k) ==
  /\ k \in 0..(final - 1)
  /\ chain' = SubSeq(chain, 1, k)
  /\ final' = k
  /\ UNCHANGED sent
=============================================================================
