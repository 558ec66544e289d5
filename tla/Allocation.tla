----------------------------- MODULE Allocation -----------------------------
(***************************************************************************)
(* The arithmetic of internal/accounting/payout.go: the fees taken from a  *)
(* block reward and the split of what is left among the payout addresses   *)
(* of a round, in proportion to their weights, to the last satoshi.        *)
(*                                                                         *)
(* Addresses are numbered 1..n in the byte order of their strings, which   *)
(* is the order sort.Slice breaks ties in, and w[a] = 0 stands for an      *)
(* address that is not in the weights map.  A percentage is given in basis *)
(* points: internal/config admits two decimals at most.                    *)
(*                                                                         *)
(* The code divides in float64; here the quotient and the fraction are     *)
(* exact, total * w \div sum and total * w % sum.                          *)
(***************************************************************************)
EXTENDS Integers, FiniteSets

(* f[1] + ... + f[n], accumulated from the first entry on *)
RunningTotal(f, n) ==
  LET total[i \in Nat] == IF i = 0 THEN 0 ELSE total[i-1] + f[i]
  IN  total[n]

CalcFeeSat(total, bps) ==
  IF total <= 0 THEN 0 ELSE (total * bps) \div 10000

(* what the miners of a block share once both fees are taken *)
MinerReward(reward, devBps, poolBps) ==
  LET afterDev == reward - CalcFeeSat(reward, devBps)
  IN  afterDev - CalcFeeSat(afterDev, poolBps)

Earners(w, n) == {a \in 1..n : w[a] > 0}

(* mutant: the satoshis left over are not given away *)
AllocateFloors(total, w, n) ==
  [a \in 1..n |-> IF w[a] > 0 THEN (total * w[a]) \div RunningTotal(w, n) ELSE 0]

(***************************************************************************)
(* The largest-remainder split: every earner gets the floor of its exact   *)
(* part; the satoshis left over go round the earners one at a time, the    *)
(* larger fraction first and the smaller address first among equals.       *)
(***************************************************************************)
AllocateByWeight(total, w, n) ==
  LET sum       == RunningTotal(w, n)
      base      == [a \in 1..n |-> (total * w[a]) \div sum]
      frac      == [a \in 1..n |-> (total * w[a]) % sum]
      rem       == total - RunningTotal(base, n)
      rank      == [a \in 1..n |->
                     Cardinality({c \in Earners(w, n) :
                        frac[c] > frac[a] \/ (frac[c] = frac[a] /\ c < a)})]
      bonus     == [a \in 1..n |->
                     Cardinality({i \in 0..(rem - 1) :
                        i % Cardinality(Earners(w, n)) = rank[a]})]
  IN  IF total <= 0 \/ Earners(w, n) = {}
      THEN [a \in 1..n |-> 0]
      ELSE [a \in 1..n |-> IF w[a] > 0 THEN base[a] + bonus[a] ELSE 0]
=============================================================================
