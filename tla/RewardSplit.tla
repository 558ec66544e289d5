---------------------------- MODULE RewardSplit ----------------------------
(***************************************************************************)
(* How the reward of a block is divided, step by step as the code does it: *)
(* the fees of calcFeeSat and of calcDeveloperFee (internal/mining), which *)
(* read the same percentage, and the loops of allocateByWeight over a map  *)
(* whose order Go does not fix, in floating point.                         *)
(*                                                                         *)
(* The coinbase pays the value of the daemon's template; what is shared    *)
(* out when the block matures is the configured reward.  Nothing in the    *)
(* code compares the two, so here they are two inputs.                     *)
(*                                                                         *)
(* The product total * (w / sum) of an address is off by e / Grid satoshi  *)
(* for an e of Errors, all products together by less than one satoshi.     *)
(* percent * 100 may fall just below or above the integer it stands for,   *)
(* as 0.29 * 100 = 28.999... does.                                         *)
(***************************************************************************)
EXTENDS Allocation, Sequences

CONSTANTS
  NumAddrs,        \* payout addresses are 1..NumAddrs
  CoinbaseValues,  \* coinbasevalue of the block templates
  Rewards,         \* coinbase.reward
  FeeBps,          \* the fee percentages configured, in basis points
  Weights,         \* the difficulty an address may have in a round
  Grid,            \* resolution of the products, in parts of a satoshi
  Errors           \* what a product may be off by, in those parts

Addrs == 1..NumAddrs
Ulps  == {"below", "exact", "above"}

ASSUME SizesAssumption   == NumAddrs \in Nat /\ Grid \in Nat \ {0}
ASSUME AmountsAssumption == CoinbaseValues \cup Rewards \cup Weights \subseteq Nat
ASSUME FeesAssumption    == FeeBps \subseteq 0..9999
ASSUME ErrorsAssumption  == Errors \subseteq Int /\ 0 \in Errors

VARIABLES coinbaseValue, reward, devBps, poolBps, ulp, weights, error, stage, pending,
          coinbaseFee, minerReward, result, frac, parts, rem, given

inputs == <<coinbaseValue, reward, devBps, poolBps, ulp, weights>>
fees   == <<coinbaseFee, minerReward>>
vars   == <<inputs, fees, error, stage, pending, result, frac, parts, rem, given>>

TotalWeight == RunningTotal(weights, NumAddrs)

Init ==
  /\ coinbaseValue \in CoinbaseValues /\ reward \in Rewards
  /\ devBps \in FeeBps /\ poolBps \in FeeBps /\ ulp \in Ulps
  /\ weights \in [Addrs -> Weights]
  /\ Earners(weights, NumAddrs) # {}
  /\ stage = "fees"
  /\ coinbaseFee = 0 /\ minerReward = 0
  /\ pending = {} /\ error = [a \in Addrs |-> 0]
  /\ result = [a \in Addrs |-> 0] /\ frac = [a \in Addrs |-> 0]
  /\ parts = << >> /\ rem = 0 /\ given = 0

(* mutants: percent taken for per cent of a percent, and a fee rounded up *)
FeeOfPercent(value, bps, near) == (value * bps) \div 100
FeeRoundedUp(value, bps, near) == (value * bps + 9999) \div 10000

(* calcDeveloperFee truncates percent * 100 and takes no fee when what it  *)
(* cut off is not negligible: just below an integer that is nearly one.    *)
CalcDeveloperFee(value, bps, near) ==
  IF value <= 0 \/ near = "below" THEN 0 ELSE (value * bps) \div 10000

(* The coinbase is built with one fee, of the value of its template; the   *)
(* settlement deducts the other, from the configured reward.               *)
TakeFees ==
  /\ stage = "fees"
  /\ coinbaseFee' = CalcDeveloperFee(coinbaseValue, devBps, ulp)
  /\ minerReward' = MinerReward(reward, devBps, poolBps)
  /\ IF minerReward' > 0
     THEN stage' = "range" /\ pending' = Earners(weights, NumAddrs)
     ELSE stage' = "failed" /\ UNCHANGED pending
  /\ UNCHANGED <<inputs, error, result, frac, parts, rem, given>>

(* the product of an address, in 1/(Grid * TotalWeight) satoshi *)
Product(a, e) == (Grid * minerReward) * weights[a] + e * TotalWeight

(* mutant: the products are rounded to the nearest satoshi *)
Rounded(a, e) ==
  /\ result' = [result EXCEPT ![a] =
                  (2 * Product(a, e) + Grid * TotalWeight) \div (2 * (Grid * TotalWeight))]
  /\ UNCHANGED frac

FloorOf(a, e) ==
  /\ result' = [result EXCEPT ![a] = Product(a, e) \div (Grid * TotalWeight)]
  /\ frac'   = [frac EXCEPT ![a] = Product(a, e) % (Grid * TotalWeight)]

Off(a) == IF error[a] < 0 THEN -error[a] ELSE error[a]

TotalError == RunningTotal([a \in Addrs |-> Off(a)], NumAddrs)

(* one iteration of the loop over the weights, in any order *)
TakeFloor ==
  /\ stage = "range"
  /\ \E a \in pending, e \in Errors :
       /\ Product(a, e) >= 0
       /\ FloorOf(a, e)
       /\ error' = [error EXCEPT ![a] = e]
       /\ pending' = pending \ {a}
  /\ TotalError' < Grid
  /\ UNCHANGED <<inputs, fees, stage, parts, rem, given>>

(* mutant: smaller fractions first *)
After(a, c) == frac[a] < frac[c] \/ (frac[a] = frac[c] /\ a < c)

(* larger fractions first, ties by address *)
Before(a, c) == frac[a] > frac[c] \/ (frac[a] = frac[c] /\ a < c)

SortParts ==
  /\ stage = "range" /\ pending = {}
  /\ LET earners == Earners(weights, NumAddrs)
     IN  \E order \in [1..Cardinality(earners) -> earners] :
           /\ \A i, j \in DOMAIN order : i < j => Before(order[i], order[j])
           /\ parts' = order
  /\ rem' = minerReward - RunningTotal(result, NumAddrs)
  /\ stage' = IF rem' <= 0 THEN "done" ELSE "give"
  /\ UNCHANGED <<inputs, fees, error, pending, result, frac, given>>

(* mutant: the first address gets all that is left *)
FirstPart == parts[1]

NextPart == parts[(given % Len(parts)) + 1]

(* the satoshis left over, one at a time *)
GiveSatoshi ==
  /\ stage = "give" /\ given < rem
  /\ result' = [result EXCEPT ![NextPart] = @ + 1]
  /\ given' = given + 1
  /\ stage' = IF given' = rem THEN "done" ELSE "give"
  /\ UNCHANGED <<inputs, fees, error, pending, frac, parts, rem>>

Next == TakeFees \/ TakeFloor \/ SortParts \/ GiveSatoshi

Spec == Init /\ [][Next]_vars

-----------------------------------------------------------------------------
TypeOK ==
  /\ coinbaseValue \in CoinbaseValues /\ reward \in Rewards
  /\ {devBps, poolBps} \subseteq FeeBps /\ ulp \in Ulps
  /\ weights \in [Addrs -> Weights]
  /\ stage \in {"fees", "range", "give", "done", "failed"}
  /\ pending \subseteq Addrs /\ error \in [Addrs -> Errors]
  /\ coinbaseFee \in 0..coinbaseValue /\ minerReward \in 0..reward
  /\ result \in [Addrs -> 0..reward]
  /\ frac \in [Addrs -> Nat]
  /\ parts \in Seq(Addrs)
  /\ rem \in 0..reward /\ given \in 0..rem

(* The split gives away the miners' reward exactly, also when a product is *)
(* rounded up to or down past an integer: what is left over after the      *)
(* floors is never negative and is handed out in full.                     *)
SplitIsExact ==
  stage = "done" => RunningTotal(result, NumAddrs) = minerReward

(* Every address gets its proportional part to within one satoshi and the  *)
(* error of its product, and an address without weight nothing.            *)
SplitIsFair ==
  stage = "done" =>
    \A a \in Addrs :
      LET off == Grid * (result[a] * TotalWeight - minerReward * weights[a])
      IN  IF weights[a] = 0 THEN result[a] = 0
          ELSE /\ off <= (Grid + Off(a)) * TotalWeight
               /\ -off <= (Grid + Off(a)) * TotalWeight

(* With exact products the loops compute AllocateByWeight, whatever order  *)
(* the map is walked in: the operator PayoutEngine settles with.           *)
SplitIsAllocateByWeight ==
  (stage = "done" /\ \A a \in Addrs : error[a] = 0) =>
    result = AllocateByWeight(minerReward, weights, NumAddrs)

(* A coinbase worth the configured reward leaves the pool what it credits  *)
(* to the miners: the two fees, rounded differently and of two amounts,    *)
(* never open a gap.  One worth less falls short by no more than that.     *)
CoinbaseCoversCredits ==
  stage \in {"range", "give", "done"} =>
    LET left == coinbaseValue - coinbaseFee
    IN  /\ reward <= coinbaseValue => minerReward <= left
        /\ reward > coinbaseValue => minerReward - left <= reward - coinbaseValue
=============================================================================
