---------------------------- MODULE PayoutLedger ----------------------------
(***************************************************************************)
(* What the payout engines promise a miner, whatever fails: the reward of  *)
(* a block is credited once and in full, an amount owed is set aside       *)
(* before it is paid, and what was set aside or paid is never owed again.  *)
(***************************************************************************)
EXTENDS Allocation

CONSTANTS Pools, NumAddrs, MinerRewardSat

VARIABLES
  rewarded,   \* the blocks whose reward was credited
  owed,       \* credited and payable
  reserved,   \* set aside for a payment
  paid        \* paid by the wallet

ledger == <<rewarded, owed, reserved, paid>>

Addrs   == 1..NumAddrs
Amounts == [Addrs -> Nat]

AtMost(f, g) == \A a \in Addrs : f[a] <= g[a]
Plus(f, g)   == [a \in Addrs |-> f[a] + g[a]]
Minus(f, g)  == [a \in Addrs |-> f[a] - g[a]]

Nothing == [p \in Pools |-> [a \in Addrs |-> 0]]

Init == rewarded = {} /\ owed = Nothing /\ reserved = Nothing /\ paid = Nothing

Credit(p) ==
  /\ \E credit \in [Addrs -> 0..MinerRewardSat] :
       /\ RunningTotal(credit, NumAddrs) = MinerRewardSat
       /\ owed' = [owed EXCEPT ![p] = Plus(@, credit)]
  /\ rewarded \subseteq rewarded' /\ Cardinality(rewarded' \ rewarded) = 1
  /\ UNCHANGED <<reserved, paid>>

Reserve(p) ==
  /\ \E batch \in [Addrs -> {0} \cup {owed[p][a] : a \in Addrs}] :
       /\ AtMost(batch, owed[p])
       /\ owed' = [owed EXCEPT ![p] = Minus(@, batch)]
       /\ reserved' = [reserved EXCEPT ![p] = Plus(@, batch)]
  /\ UNCHANGED <<rewarded, paid>>

Pay(p) ==
  /\ \E batch \in [Addrs -> 0..RunningTotal(reserved[p], NumAddrs)] :
       /\ AtMost(batch, reserved[p])
       /\ reserved' = [reserved EXCEPT ![p] = Minus(@, batch)]
       /\ paid' = [paid EXCEPT ![p] = Plus(@, batch)]
  /\ UNCHANGED <<rewarded, owed>>

Next == \E p \in Pools : Credit(p) \/ Reserve(p) \/ Pay(p)

Spec == Init /\ [][Next]_ledger
=============================================================================
