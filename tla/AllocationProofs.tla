-------------------------- MODULE AllocationProofs --------------------------
(***************************************************************************)
(* Facts about the sums and the split of Allocation, for every number of   *)
(* addresses and every reward.  Induction over the naturals is by least    *)
(* counterexample.                                                         *)
(***************************************************************************)
EXTENDS Allocation, TLAPS, WellFoundedInduction, FiniteSetTheorems

(* A set of natural numbers that is not empty has a least element.         *)
LEMMA LeastNat ==
  ASSUME NEW S, S \subseteq Nat, S # {}
  PROVE  \E m \in S : \A k \in S : m <= k
<1>1. PICK m \in S : \A k \in S : ~(<<k, m>> \in OpToRel(<, Nat))
  BY WFMin, NatLessThanWellFounded
<1>2. \A k \in S : ~(k < m)
  BY <1>1, Zenon DEF OpToRel
<1> QED
  BY <1>2

(* t accumulates f on 0..n *)
Accumulates(t, f, n) ==
  t = [i \in 0..n |-> IF i = 0 THEN 0 ELSE t[i-1] + f[i]]

(* An accumulation exists up to every n.                                   *)
LEMMA AccumulationExists ==
  ASSUME NEW f, NEW n \in Nat
  PROVE  \E t : Accumulates(t, f, n)
<1> DEFINE Bad == {m \in Nat : ~ \E t : Accumulates(t, f, m)}
<1> SUFFICES ASSUME Bad # {} PROVE FALSE
  OBVIOUS
<1>1. PICK m \in Bad : \A k \in Bad : m <= k
  BY LeastNat
<1>2. m # 0
  <2> SUFFICES ASSUME m = 0 PROVE FALSE
    OBVIOUS
  <2> DEFINE t == [i \in 0..0 |-> 0]
  <2>1. Accumulates(t, f, 0)
    BY DEF Accumulates
  <2> QED BY <2>1
<1>3. m - 1 \in Nat /\ m - 1 \notin Bad
  BY <1>1, <1>2
<1>4. PICK g : Accumulates(g, f, m - 1)
  BY <1>3
<1> DEFINE h == [i \in 0..m |-> IF i = m THEN g[m-1] + f[m] ELSE g[i]]
<1>5. Accumulates(h, f, m)
  <2>1. \A i \in 0..(m-1) : g[i] = IF i = 0 THEN 0 ELSE g[i-1] + f[i]
    BY <1>4, <1>3 DEF Accumulates
  <2>2. \A i \in 0..m : h[i] = IF i = 0 THEN 0 ELSE h[i-1] + f[i]
    BY <2>1, <1>2, <1>3
  <2> QED BY <2>2 DEF Accumulates
<1> QED BY <1>5, <1>1

(* Two accumulations of the same function agree where both are defined.    *)
LEMMA AccumulationsAgree ==
  ASSUME NEW f, NEW n \in Nat, NEW m \in Nat, NEW g, NEW h,
         Accumulates(g, f, n), Accumulates(h, f, m),
         NEW i \in Nat, i <= n, i <= m
  PROVE  g[i] = h[i]
<1> DEFINE Bad == {k \in Nat : k <= n /\ k <= m /\ g[k] # h[k]}
<1> SUFFICES ASSUME Bad # {} PROVE FALSE
  OBVIOUS
<1>1. PICK k \in Bad : \A j \in Bad : k <= j
  BY LeastNat
<1>2. /\ g[k] = IF k = 0 THEN 0 ELSE g[k-1] + f[k]
      /\ h[k] = IF k = 0 THEN 0 ELSE h[k-1] + f[k]
  BY DEF Accumulates
<1>3. CASE k = 0
  BY <1>2, <1>3
<1>4. CASE k # 0
  <2>1. k - 1 \in Nat /\ k - 1 \notin Bad
    BY <1>1, <1>4
  <2>2. g[k-1] = h[k-1]
    BY <2>1
  <2> QED BY <2>2, <1>2, <1>4
<1> QED BY <1>3, <1>4

(* The recursion that defines RunningTotal has a solution.                 *)
LEMMA RunningTotalRecursion ==
  ASSUME NEW f
  PROVE  LET total == [n \in Nat |-> RunningTotal(f, n)]
         IN  total = [i \in Nat |-> IF i = 0 THEN 0 ELSE total[i-1] + f[i]]
<1> DEFINE part(n) == CHOOSE t : Accumulates(t, f, n)
           all == [n \in Nat |-> part(n)[n]]
           step(t) == [i \in Nat |-> IF i = 0 THEN 0 ELSE t[i-1] + f[i]]
<1>1. \A n \in Nat : Accumulates(part(n), f, n)
  BY AccumulationExists
<1>2. ASSUME NEW n \in Nat
      PROVE  all[n] = IF n = 0 THEN 0 ELSE all[n-1] + f[n]
  <2>1. part(n)[n] = IF n = 0 THEN 0 ELSE part(n)[n-1] + f[n]
    <3> HIDE DEF part
    <3>1. Accumulates(part(n), f, n)
      BY <1>1
    <3> QED BY <3>1 DEF Accumulates
  <2>2. CASE n = 0
    BY <2>1, <2>2
  <2>3. CASE n # 0
    <3>1. n - 1 \in Nat
      BY <2>3
    <3>2. part(n)[n-1] = part(n-1)[n-1]
      BY <1>1, <3>1, AccumulationsAgree
    <3> QED BY <2>1, <2>3, <3>1, <3>2
  <2> QED BY <2>2, <2>3
<1>3. all = step(all)
  <2> HIDE DEF part
  <2>1. all = [n \in Nat |-> all[n]]
    OBVIOUS
  <2> HIDE DEF all
  <2>2. \A n \in Nat : all[n] = IF n = 0 THEN 0 ELSE all[n-1] + f[n]
    BY <1>2
  <2> QED BY <2>1, <2>2
<1> DEFINE tot == CHOOSE t : t = step(t)
<1>4. tot = step(tot)
  BY <1>3
<1> HIDE DEF part, all
<1>5. \A n \in Nat : RunningTotal(f, n) = tot[n]
  BY DEF RunningTotal
<1>6. tot = [n \in Nat |-> RunningTotal(f, n)]
  BY <1>4, <1>5
<1> QED BY <1>4, <1>6

(* What the provers use of RunningTotal: its value at 0 and one step.      *)
LEMMA RunningTotalStep ==
  ASSUME NEW f
  PROVE  /\ RunningTotal(f, 0) = 0
         /\ \A n \in Nat : RunningTotal(f, n + 1) = RunningTotal(f, n) + f[n + 1]
<1> DEFINE total == [n \in Nat |-> RunningTotal(f, n)]
<1>1. total = [i \in Nat |-> IF i = 0 THEN 0 ELSE total[i-1] + f[i]]
  BY RunningTotalRecursion
<1>2. \A i \in Nat : total[i] = IF i = 0 THEN 0 ELSE total[i-1] + f[i]
  <2> HIDE DEF total
  <2> QED BY <1>1
<1>3. \A i \in Nat : total[i] = RunningTotal(f, i)
  OBVIOUS
<1> HIDE DEF total
<1>4. ASSUME NEW n \in Nat
      PROVE  RunningTotal(f, n + 1) = RunningTotal(f, n) + f[n + 1]
  <2>1. n + 1 \in Nat /\ n + 1 # 0 /\ (n + 1) - 1 = n
    OBVIOUS
  <2>2. total[n + 1] = total[n] + f[n + 1]
    BY <1>2, <2>1
  <2> QED BY <1>3, <2>1, <2>2
<1> QED BY <1>2, <1>3, <1>4

(* A sum of natural numbers is one, and no term exceeds it.                *)
LEMMA RunningTotalNat ==
  ASSUME NEW f, NEW n \in Nat, \A i \in 1..n : f[i] \in Nat
  PROVE  /\ RunningTotal(f, n) \in Nat
         /\ \A i \in 1..n : f[i] <= RunningTotal(f, n)
<1> DEFINE ok(m) == /\ RunningTotal(f, m) \in Nat
                    /\ \A i \in 1..m : f[i] <= RunningTotal(f, m)
           Bad == {m \in Nat : m <= n /\ ~ok(m)}
<1> SUFFICES ASSUME Bad # {} PROVE FALSE
  OBVIOUS
<1>1. PICK m \in Bad : \A k \in Bad : m <= k
  BY LeastNat
<1>2. m # 0
  BY RunningTotalStep
<1>3. m - 1 \in Nat /\ m - 1 \notin Bad /\ m <= n
  BY <1>1, <1>2
<1>4. ok(m - 1)
  BY <1>3
<1>5. RunningTotal(f, m) = RunningTotal(f, m - 1) + f[m]
  <2>1. (m - 1) + 1 = m
    OBVIOUS
  <2> QED BY <1>3, <2>1, RunningTotalStep
<1>6. f[m] \in Nat
  BY <1>2, <1>3
<1>7. RunningTotal(f, m) \in Nat
  BY <1>4, <1>5, <1>6
<1>8. ASSUME NEW i \in 1..m PROVE f[i] <= RunningTotal(f, m)
  <2>1. CASE i = m
    BY <2>1, <1>4, <1>5, <1>6
  <2>2. CASE i # m
    <3>1. i \in 1..(m - 1) /\ f[i] \in Nat
      BY <2>2, <1>3
    <3> QED BY <3>1, <1>4, <1>5, <1>6
  <2> QED BY <2>1, <2>2
<1> QED BY <1>7, <1>8

(* Changing one term changes the sum by as much.                           *)
LEMMA RunningTotalChange ==
  ASSUME NEW f, NEW g, NEW n \in Nat, NEW k \in 1..n,
         \A i \in 1..n : f[i] \in Int /\ g[i] \in Int,
         \A i \in 1..n : i # k => g[i] = f[i]
  PROVE  RunningTotal(g, n) = RunningTotal(f, n) + (g[k] - f[k])
<1> DEFINE ok(m) == /\ RunningTotal(f, m) \in Int
                    /\ RunningTotal(g, m)
                         = RunningTotal(f, m) + IF k <= m THEN g[k] - f[k] ELSE 0
           Bad == {m \in Nat : m <= n /\ ~ok(m)}
<1>1. Bad = {}
  <2> SUFFICES ASSUME Bad # {} PROVE FALSE
    OBVIOUS
  <2>1. PICK m \in Bad : \A j \in Bad : m <= j
    BY LeastNat
  <2>2. m # 0
    BY RunningTotalStep
  <2>3. m - 1 \in Nat /\ m - 1 \notin Bad /\ m <= n
    BY <2>1, <2>2
  <2>4. ok(m - 1)
    BY <2>3
  <2>5. /\ RunningTotal(f, m) = RunningTotal(f, m - 1) + f[m]
        /\ RunningTotal(g, m) = RunningTotal(g, m - 1) + g[m]
    <3>1. (m - 1) + 1 = m
      OBVIOUS
    <3> QED BY <2>3, <3>1, RunningTotalStep
  <2>6. f[m] \in Int /\ g[m] \in Int /\ (m # k => g[m] = f[m]) /\ f[k] \in Int /\ g[k] \in Int
    BY <2>2, <2>3
  <2>7. ok(m)
    BY <2>3, <2>4, <2>5, <2>6
  <2> QED BY <2>1, <2>7
<1>2. ok(n)
  BY <1>1
<1> QED BY <1>2

(* Sums of equal terms are equal.                                          *)
LEMMA RunningTotalSame ==
  ASSUME NEW f, NEW g, NEW n \in Nat, \A i \in 1..n : g[i] = f[i]
  PROVE  RunningTotal(g, n) = RunningTotal(f, n)
<1> DEFINE Bad == {m \in Nat : m <= n /\ RunningTotal(g, m) # RunningTotal(f, m)}
<1> SUFFICES ASSUME Bad # {} PROVE FALSE
  OBVIOUS
<1>1. PICK m \in Bad : \A j \in Bad : m <= j
  BY LeastNat
<1>2. m # 0
  BY RunningTotalStep
<1>3. m - 1 \in Nat /\ m - 1 \notin Bad /\ m <= n /\ (m - 1) + 1 = m
  BY <1>1, <1>2
<1>4. RunningTotal(g, m - 1) = RunningTotal(f, m - 1) /\ g[m] = f[m]
  BY <1>2, <1>3
<1>5. /\ RunningTotal(f, m) = RunningTotal(f, m - 1) + f[m]
      /\ RunningTotal(g, m) = RunningTotal(g, m - 1) + g[m]
  BY <1>3, RunningTotalStep
<1> QED BY <1>1, <1>4, <1>5

(* A term more adds its value.                                             *)
LEMMA RunningTotalAppend ==
  ASSUME NEW f, NEW g, NEW n \in Nat,
         \A i \in 1..n : g[i] = f[i]
  PROVE  RunningTotal(g, n + 1) = RunningTotal(f, n) + g[n + 1]
<1>1. RunningTotal(g, n) = RunningTotal(f, n)
  BY RunningTotalSame
<1>2. RunningTotal(g, n + 1) = RunningTotal(g, n) + g[n + 1]
  BY RunningTotalStep
<1> QED BY <1>1, <1>2

(* A sum of smaller terms is smaller.                                      *)
LEMMA RunningTotalMonotone ==
  ASSUME NEW f, NEW g, NEW n \in Nat,
         \A i \in 1..n : f[i] \in Int /\ g[i] \in Int /\ f[i] <= g[i]
  PROVE  RunningTotal(f, n) <= RunningTotal(g, n)
<1> DEFINE ok(m) == /\ RunningTotal(f, m) \in Int /\ RunningTotal(g, m) \in Int
                    /\ RunningTotal(f, m) <= RunningTotal(g, m)
           Bad == {m \in Nat : m <= n /\ ~ok(m)}
<1> SUFFICES ASSUME Bad # {} PROVE FALSE
  OBVIOUS
<1>1. PICK m \in Bad : \A j \in Bad : m <= j
  BY LeastNat
<1>2. m # 0
  BY RunningTotalStep
<1>3. m - 1 \in Nat /\ m - 1 \notin Bad /\ m <= n /\ (m - 1) + 1 = m
  BY <1>1, <1>2
<1>4. ok(m - 1)
  BY <1>3
<1>5. /\ RunningTotal(f, m) = RunningTotal(f, m - 1) + f[m]
      /\ RunningTotal(g, m) = RunningTotal(g, m - 1) + g[m]
  BY <1>3, RunningTotalStep
<1>6. f[m] \in Int /\ g[m] \in Int /\ f[m] <= g[m]
  BY <1>2, <1>3
<1> QED BY <1>4, <1>5, <1>6

(* Integer division, rounding down.                                        *)
LEMMA Quotient ==
  ASSUME NEW x \in Nat, NEW d \in Nat \ {0}
  PROVE  /\ x \div d \in Nat
         /\ \A y \in Nat : x <= y * d => x \div d <= y
<1>1. x \div d \in Nat
  OBVIOUS
<1>2. ASSUME NEW y \in Nat, x <= y * d PROVE x \div d <= y
  <2>1. x = d * (x \div d) + (x % d) /\ x % d \in 0..(d-1)
    OBVIOUS
  <2>2. d * (x \div d) <= y * d
    BY <1>1, <1>2, <2>1
  <2> QED BY <1>1, <2>2
<1> QED BY <1>1, <1>2

(* A fee is part of the amount it is taken from.                           *)
LEMMA CalcFeeSatRange ==
  \A total, bps \in Nat :
    bps < 10000 => CalcFeeSat(total, bps) \in Nat /\ CalcFeeSat(total, bps) <= total
<1> TAKE total, bps \in Nat
<1> HAVE bps < 10000
<1> DEFINE product == total * bps
<1>1. product \in Nat /\ product <= total * 10000
  OBVIOUS
<1> HIDE DEF product
<1>2. product \div 10000 \in Nat /\ product \div 10000 <= total
  BY <1>1, Quotient, 10000 \in Nat \ {0}
<1> QED BY <1>2 DEF product, CalcFeeSat

(* The miners' reward is part of the block reward.                         *)
LEMMA MinerRewardRange ==
  \A reward, devBps, poolBps \in Nat :
    devBps < 10000 /\ poolBps < 10000 =>
      /\ MinerReward(reward, devBps, poolBps) \in Nat
      /\ MinerReward(reward, devBps, poolBps) <= reward
<1> TAKE reward, devBps, poolBps \in Nat
<1> HAVE devBps < 10000 /\ poolBps < 10000
<1> DEFINE afterDev == reward - CalcFeeSat(reward, devBps)
<1>1. afterDev \in Nat /\ afterDev <= reward
  BY CalcFeeSatRange
<1> HIDE DEF afterDev
<1>2. CalcFeeSat(afterDev, poolBps) \in Nat /\ CalcFeeSat(afterDev, poolBps) <= afterDev
  BY <1>1, CalcFeeSatRange
<1>3. MinerReward(reward, devBps, poolBps) = afterDev - CalcFeeSat(afterDev, poolBps)
  BY DEF MinerReward, afterDev
<1> QED BY <1>1, <1>2, <1>3

(* The split credits every address a natural number of satoshis.           *)
LEMMA AllocateByWeightType ==
  ASSUME NEW total \in Nat, NEW n \in Nat, NEW w \in [1..n -> Nat]
  PROVE  AllocateByWeight(total, w, n) \in [1..n -> Nat]
<1> DEFINE sum  == RunningTotal(w, n)
           base == [a \in 1..n |-> (total * w[a]) \div sum]
           frac == [a \in 1..n |-> (total * w[a]) % sum]
           rem  == total - RunningTotal(base, n)
           rank == [a \in 1..n |->
                     Cardinality({c \in Earners(w, n) :
                        frac[c] > frac[a] \/ (frac[c] = frac[a] /\ c < a)})]
           turns(a) == {i \in 0..(rem - 1) :
                          i % Cardinality(Earners(w, n)) = rank[a]}
           bonus == [a \in 1..n |-> Cardinality(turns(a))]
<1>1. CASE Earners(w, n) # {}
  <2>1. sum \in Nat \ {0}
    <3>1. PICK a \in 1..n : w[a] > 0
      BY <1>1 DEF Earners
    <3>2. sum \in Nat /\ w[a] <= sum
      BY RunningTotalNat
    <3> QED BY <3>1, <3>2
  <2>2. \A a \in 1..n : base[a] \in Nat
    <3> SUFFICES ASSUME NEW a \in 1..n PROVE (total * w[a]) \div sum \in Nat
      OBVIOUS
    <3> DEFINE x == total * w[a]
    <3>1. x \in Nat
      OBVIOUS
    <3> HIDE DEF sum, x
    <3>2. x \div sum \in Nat
      BY <3>1, <2>1, Quotient
    <3> QED BY <3>2 DEF x
  <2>3. rem \in Int
    BY <2>2, RunningTotalNat
  <2>4. \A a \in 1..n : bonus[a] \in Nat
    <3> HIDE DEF rem, rank
    <3> SUFFICES ASSUME NEW a \in 1..n PROVE Cardinality(turns(a)) \in Nat
      OBVIOUS
    <3>1. IsFiniteSet(0..(rem - 1))
      BY <2>3, FS_Interval
    <3>2. turns(a) \subseteq 0..(rem - 1)
      OBVIOUS
    <3> QED BY <3>1, <3>2, FS_Subset, FS_CardinalityType
  <2>5. AllocateByWeight(total, w, n)
          = IF total <= 0 \/ Earners(w, n) = {}
            THEN [a \in 1..n |-> 0]
            ELSE [a \in 1..n |-> IF w[a] > 0 THEN base[a] + bonus[a] ELSE 0]
    BY Zenon DEF AllocateByWeight
  <2> HIDE DEF base, bonus
  <2> QED BY <2>2, <2>4, <2>5
<1>2. CASE Earners(w, n) = {}
  BY <1>2 DEF AllocateByWeight
<1> QED BY <1>1, <1>2

-----------------------------------------------------------------------------
(* The split is exact: the satoshis left over find an earner each.         *)

(* A sum of sums is the sum of both.                                       *)
LEMMA RunningTotalPlus ==
  ASSUME NEW f, NEW g, NEW h, NEW n \in Nat,
         \A i \in 1..n : f[i] \in Int /\ g[i] \in Int /\ h[i] = f[i] + g[i]
  PROVE  RunningTotal(h, n) = RunningTotal(f, n) + RunningTotal(g, n)
<1> DEFINE ok(m) == /\ RunningTotal(f, m) \in Int /\ RunningTotal(g, m) \in Int
                    /\ RunningTotal(h, m) = RunningTotal(f, m) + RunningTotal(g, m)
           Bad == {m \in Nat : m <= n /\ ~ok(m)}
<1> SUFFICES ASSUME Bad # {} PROVE FALSE
  OBVIOUS
<1>1. PICK m \in Bad : \A j \in Bad : m <= j
  BY LeastNat
<1>2. m # 0
  BY RunningTotalStep
<1>3. m - 1 \in Nat /\ m - 1 \notin Bad /\ m <= n /\ (m - 1) + 1 = m
  BY <1>1, <1>2
<1>4. ok(m - 1)
  BY <1>3
<1>5. /\ RunningTotal(f, m) = RunningTotal(f, m - 1) + f[m]
      /\ RunningTotal(g, m) = RunningTotal(g, m - 1) + g[m]
      /\ RunningTotal(h, m) = RunningTotal(h, m - 1) + h[m]
  BY <1>3, RunningTotalStep
<1>6. f[m] \in Int /\ g[m] \in Int /\ h[m] = f[m] + g[m]
  BY <1>2, <1>3
<1> QED BY <1>1, <1>4, <1>5, <1>6

(* g is f multiplied by d. *)
Multiplied(f, g, n, d) == \A i \in 1..n : f[i] \in Int /\ g[i] = d * f[i]

(* A sum of terms multiplied is the sum multiplied.                        *)
LEMMA RunningTotalTimes ==
  ASSUME NEW f, NEW g, NEW n, NEW d, n \in Nat, d \in Int, Multiplied(f, g, n, d)
  PROVE  RunningTotal(g, n) = d * RunningTotal(f, n)
<1> DEFINE ok(m) == /\ RunningTotal(f, m) \in Int
                    /\ RunningTotal(g, m) = d * RunningTotal(f, m)
           Bad == {m \in Nat : m <= n /\ ~ok(m)}
<1> SUFFICES ASSUME Bad # {} PROVE FALSE
  OBVIOUS
<1>1. PICK m \in Bad : \A j \in Bad : m <= j
  BY LeastNat
<1>2. m # 0
  BY RunningTotalStep
<1>3. m - 1 \in Nat /\ m - 1 \notin Bad /\ m <= n /\ (m - 1) + 1 = m
  BY <1>1, <1>2
<1>4. ok(m - 1)
  BY <1>3
<1>5. /\ RunningTotal(f, m) = RunningTotal(f, m - 1) + f[m]
      /\ RunningTotal(g, m) = RunningTotal(g, m - 1) + g[m]
  BY <1>3, RunningTotalStep
<1>6. f[m] \in Int /\ g[m] = d * f[m]
  BY <1>2, <1>3 DEF Multiplied
<1>7. RunningTotal(f, m) \in Int
  BY <1>4, <1>5, <1>6
<1>8. d * (RunningTotal(f, m - 1) + f[m]) = d * RunningTotal(f, m - 1) + d * f[m]
  BY <1>4, <1>6
<1> QED BY <1>1, <1>4, <1>5, <1>6, <1>7, <1>8

(* A sum with one term that is not zero is that term.                      *)
LEMMA RunningTotalSingle ==
  ASSUME NEW f, NEW n \in Nat, NEW k \in 1..n, NEW d \in Int,
         \A i \in 1..n : f[i] = IF i = k THEN d ELSE 0
  PROVE  RunningTotal(f, n) = d
<1> DEFINE z == [i \in 1..n |-> 0]
<1>1. RunningTotal(z, n) = 0
  <2>1. RunningTotal(z, n) = 0 * RunningTotal(z, n)
    <3>1. Multiplied(z, z, n, 0)
      BY DEF Multiplied
    <3> HIDE DEF z
    <3> QED BY <3>1, RunningTotalTimes
  <2>2. RunningTotal(z, n) \in Nat
    <3>1. \A i \in 1..n : z[i] \in Nat
      OBVIOUS
    <3> HIDE DEF z
    <3> QED BY <3>1, RunningTotalNat
  <2> QED BY <2>1, <2>2
<1>2. /\ \A i \in 1..n : z[i] \in Int /\ f[i] \in Int
      /\ \A i \in 1..n : i # k => f[i] = z[i]
      /\ f[k] - z[k] = d
  OBVIOUS
<1> HIDE DEF z
<1> QED BY <1>1, <1>2, RunningTotalChange

(* The sizes of disjoint sets sum up to the size of their union.           *)
LEMMA RunningTotalOfSizes ==
  ASSUME NEW T, NEW f, NEW n \in Nat,
         \A a \in 1..n : IsFiniteSet(T[a]) /\ f[a] = Cardinality(T[a]),
         \A a, c \in 1..n : a # c => T[a] \cap T[c] = {}
  PROVE  RunningTotal(f, n) = Cardinality(UNION {T[a] : a \in 1..n})
<1> DEFINE U(m) == UNION {T[a] : a \in 1..m}
           ok(m) == IsFiniteSet(U(m)) /\ RunningTotal(f, m) = Cardinality(U(m))
           Bad == {m \in Nat : m <= n /\ ~ok(m)}
<1> SUFFICES ASSUME Bad # {} PROVE FALSE
  OBVIOUS
<1>1. PICK m \in Bad : \A j \in Bad : m <= j
  BY LeastNat
<1>2. m # 0
  <2>1. U(0) = {}
    OBVIOUS
  <2> HIDE DEF U
  <2> QED BY <1>1, <2>1, RunningTotalStep, FS_EmptySet
<1>3. m - 1 \in Nat /\ m - 1 \notin Bad /\ m <= n /\ (m - 1) + 1 = m /\ m \in 1..n
  <2> HIDE DEF ok
  <2>1. m \in Nat /\ m <= n /\ \A j \in Bad : m <= j
    BY <1>1
  <2>2. m - 1 \in Nat /\ m \in 1..n /\ (m - 1) + 1 = m /\ ~(m <= m - 1)
    BY <1>2, <2>1
  <2> QED BY <2>1, <2>2
<1>4. ok(m - 1)
  BY <1>3
<1>5. U(m) = U(m - 1) \cup T[m]
  <2>1. 1..m = 1..(m - 1) \cup {m}
    BY <1>3
  <2> QED BY <2>1
<1>6. U(m - 1) \cap T[m] = {}
  <2> SUFFICES ASSUME NEW a \in 1..(m - 1) PROVE T[a] \cap T[m] = {}
    OBVIOUS
  <2>1. a \in 1..n /\ a # m
    BY <1>3
  <2> QED BY <1>3, <2>1
<1>7. IsFiniteSet(T[m]) /\ f[m] = Cardinality(T[m])
  BY <1>3
<1> HIDE DEF U
<1>8. /\ IsFiniteSet(U(m))
      /\ Cardinality(U(m)) = Cardinality(U(m - 1)) + Cardinality(T[m])
  <2>1. /\ IsFiniteSet(U(m - 1) \cup T[m])
        /\ Cardinality(U(m - 1) \cup T[m])
             = Cardinality(U(m - 1)) + Cardinality(T[m]) - Cardinality({})
    BY <1>4, <1>6, <1>7, FS_Union
  <2>2. Cardinality(U(m - 1)) \in Int /\ Cardinality(T[m]) \in Int
    BY <1>4, <1>7, FS_CardinalityType
  <2> QED BY <1>5, <2>1, <2>2, FS_EmptySet
<1>9. RunningTotal(f, m) = RunningTotal(f, m - 1) + f[m]
  BY <1>3, RunningTotalStep
<1> QED BY <1>1, <1>4, <1>7, <1>8, <1>9

(* Where no two of a finite set are level, their ranks are 0, 1, 2, ...    *)
(* B[a] are those before a.                                                *)
LEMMA RanksCount ==
  ASSUME NEW S, IsFiniteSet(S), NEW B \in [S -> SUBSET S],
         \A a \in S : a \notin B[a],
         \A a, b, c \in S : a \in B[b] /\ b \in B[c] => a \in B[c],
         \A a, b \in S : a # b => a \in B[b] \/ b \in B[a],
         NEW rank, \A a \in S : rank[a] = Cardinality(B[a])
  PROVE  /\ \A a \in S : rank[a] \in Nat
         /\ \A a, b \in S : a # b => rank[a] # rank[b]
         /\ \A i \in 0..(Cardinality(S) - 1) : \E a \in S : rank[a] = i
<1> DEFINE E == Cardinality(S)
<1>1. ASSUME NEW a \in S PROVE IsFiniteSet(B[a]) /\ B[a] \in SUBSET (S \ {a})
  BY FS_Subset
<1>0. ASSUME NEW a \in S PROVE rank[a] \in Nat
  BY <1>1, FS_CardinalityType
<1>2. ASSUME NEW a \in S, NEW b \in S, a \in B[b]
      PROVE  rank[a] < rank[b]
  <2>1. B[a] \in SUBSET B[b] /\ B[a] # B[b]
    BY <1>2
  <2>2. IsFiniteSet(B[b])
    BY <1>1
  <2>3. Cardinality(B[a]) <= Cardinality(B[b]) /\ Cardinality(B[a]) # Cardinality(B[b])
    BY <2>1, <2>2, FS_Subset
  <2> QED BY <1>0, <2>3
<1>3. \A a, b \in S : a # b => rank[a] # rank[b]
  <2> SUFFICES ASSUME NEW a \in S, NEW b \in S, a # b PROVE rank[a] # rank[b]
    OBVIOUS
  <2>1. rank[a] < rank[b] \/ rank[b] < rank[a]
    BY <1>2
  <2>2. rank[a] \in Nat /\ rank[b] \in Nat
    BY <1>0
  <2> QED BY ONLY <2>1, <2>2
<1>4. E \in Nat
  BY FS_CardinalityType
<1>5. ASSUME NEW a \in S PROVE rank[a] \in 0..(E - 1)
  <2>1. IsFiniteSet(S \ {a}) /\ Cardinality(S \ {a}) = E - 1
    BY FS_RemoveElement
  <2>2. Cardinality(B[a]) <= E - 1
    BY <1>1, <2>1, FS_Subset
  <2>3. rank[a] = Cardinality(B[a]) /\ rank[a] \in Nat
    BY <1>0
  <2> HIDE DEF E
  <2> QED BY <1>4, <2>2, <2>3
<1>6. IsFiniteSet(0..(E - 1)) /\ Cardinality(0..(E - 1)) = E
  <2> HIDE DEF E
  <2> DEFINE e == E - 1
  <2>1. e \in Int /\ 0 \in Int
    BY <1>4
  <2>2. IsFiniteSet(0..e) /\ Cardinality(0..e) = IF 0 > e THEN 0 ELSE e - 0 + 1
    BY <2>1, FS_Interval, Zenon
  <2> QED BY <1>4, <2>2
<1> DEFINE ranks == [a \in S |-> rank[a]]
<1>7. ranks \in Injection(S, 0..(E - 1))
  BY <1>3, <1>5 DEF Injection, IsInjective
<1>8. ranks \in Surjection(S, 0..(E - 1))
  <2> HIDE DEF E
  <2> QED BY <1>6, <1>7, FS_Injection DEF E
<1>9. \A i \in 0..(E - 1) : \E a \in S : rank[a] = i
  BY <1>8 DEF Surjection
<1> QED BY <1>0, <1>3, <1>9

(* A common factor does not change which of two numbers is the larger.     *)
LEMMA CommonFactor ==
  ASSUME NEW s, NEW r, NEW t, s \in Nat \ {0}, r \in Nat, t \in Nat, s * r <= t * s
  PROVE  r <= t
<1> SUFFICES ASSUME r > t PROVE FALSE
  OBVIOUS
<1>1. PICK d \in Nat : r = t + (1 + d)
  <2>1. r - t - 1 \in Nat /\ r = t + (1 + (r - t - 1))
    OBVIOUS
  <2> QED BY <2>1
<1>2. s * r = s * t + s * (1 + d)
  BY <1>1
<1>3. s * (1 + d) = s + s * d /\ s * d \in Nat
  OBVIOUS
<1>4. s * t = t * s /\ t * s \in Nat
  OBVIOUS
<1> QED BY <1>2, <1>3, <1>4

(* The parts of the earners sum up to what is shared, to the last satoshi. *)
LEMMA AllocateByWeightExact ==
  ASSUME NEW total \in Nat \ {0}, NEW n \in Nat, NEW w \in [1..n -> Nat],
         Earners(w, n) # {}
  PROVE  RunningTotal(AllocateByWeight(total, w, n), n) = total
<1> DEFINE S    == Earners(w, n)
           sum  == RunningTotal(w, n)
           base == [a \in 1..n |-> (total * w[a]) \div sum]
           frac == [a \in 1..n |-> (total * w[a]) % sum]
           rem  == total - RunningTotal(base, n)
           rank == [a \in 1..n |->
                     Cardinality({c \in S :
                        frac[c] > frac[a] \/ (frac[c] = frac[a] /\ c < a)})]
           bonus == [a \in 1..n |->
                      Cardinality({i \in 0..(rem - 1) : i % Cardinality(S) = rank[a]})]
           part == [a \in 1..n |-> IF w[a] > 0 THEN base[a] + bonus[a] ELSE 0]
<1>1. AllocateByWeight(total, w, n) = part
  <2>1. AllocateByWeight(total, w, n)
          = IF total <= 0 \/ S = {} THEN [a \in 1..n |-> 0] ELSE part
    BY Zenon DEF AllocateByWeight
  <2> HIDE DEF S, part
  <2> QED BY <2>1 DEF S
<1>2. sum \in Nat \ {0}
  <2>1. PICK a \in 1..n : w[a] > 0
    BY DEF Earners
  <2>2. sum \in Nat /\ w[a] <= sum
    BY RunningTotalNat
  <2> QED BY <2>1, <2>2
<1>3. \A a \in 1..n : /\ base[a] \in Nat /\ frac[a] \in Nat
                      /\ sum * base[a] <= total * w[a]
                      /\ w[a] = 0 => base[a] = 0
  <2> SUFFICES ASSUME NEW a \in 1..n
               PROVE  LET x == total * w[a]
                      IN  /\ x \div sum \in Nat /\ x % sum \in Nat
                          /\ sum * (x \div sum) <= x
                          /\ w[a] = 0 => x \div sum = 0
    OBVIOUS
  <2> DEFINE x == total * w[a]
  <2>1. x \in Nat /\ (w[a] = 0 => x = 0)
    OBVIOUS
  <2> HIDE DEF sum, x
  <2>2. x \div sum \in Nat /\ x % sum \in 0..(sum - 1) /\ x = sum * (x \div sum) + (x % sum)
    BY <1>2, <2>1
  <2>3. sum * (x \div sum) \in Nat
    <3> DEFINE q == x \div sum
    <3>1. q \in Nat /\ sum \in Nat
      BY <1>2, <2>2
    <3> HIDE DEF q
    <3>2. sum * q \in Nat
      BY <3>1
    <3> QED BY <3>2 DEF q
  <2>4. sum * (x \div sum) <= x
    BY <1>2, <2>1, <2>2, <2>3
  <2>5. x = 0 => x \div sum = 0
    BY <1>2
  <2> QED BY <2>1, <2>2, <2>4, <2>5 DEF x
<1>4. rem \in Nat
  <2> DEFINE f == [a \in 1..n |-> sum * base[a]]
             g == [a \in 1..n |-> total * w[a]]
  <2>1. RunningTotal(base, n) \in Nat
    <3> HIDE DEF base
    <3> QED BY <1>3, RunningTotalNat
  <2>2. RunningTotal(f, n) = sum * RunningTotal(base, n)
    <3>1. Multiplied(base, f, n, sum)
      BY <1>3 DEF Multiplied
    <3>2. sum \in Int
      BY <1>2
    <3> HIDE DEF f, base, sum
    <3> QED BY <3>1, <3>2, RunningTotalTimes
  <2>3. RunningTotal(g, n) = total * sum
    <3>1. Multiplied(w, g, n, total)
      BY DEF Multiplied
    <3> HIDE DEF g
    <3> QED BY <3>1, RunningTotalTimes
  <2>4. RunningTotal(f, n) <= RunningTotal(g, n)
    <3>1. \A a \in 1..n : f[a] \in Int /\ g[a] \in Int /\ f[a] <= g[a]
      <4> SUFFICES ASSUME NEW a \in 1..n
                   PROVE  /\ sum * base[a] \in Int /\ total * w[a] \in Int
                          /\ sum * base[a] <= total * w[a]
        OBVIOUS
      <4> HIDE DEF base, sum
      <4>1. sum \in Int /\ total \in Int /\ w[a] \in Int
        BY <1>2
      <4>2. base[a] \in Int /\ sum * base[a] <= total * w[a]
        BY <1>3
      <4> QED BY <4>1, <4>2
    <3> HIDE DEF f, g
    <3> QED BY <3>1, RunningTotalMonotone
  <2> DEFINE r == RunningTotal(base, n)
  <2> HIDE DEF base, sum, f, g, r
  <2>5. sum * r <= total * sum /\ r \in Nat
    BY <2>1, <2>2, <2>3, <2>4 DEF r
  <2>6. r <= total
    BY <1>2, <2>5, CommonFactor
  <2> QED BY <2>5, <2>6 DEF r
<1>5. /\ S \subseteq 1..n /\ S # {} /\ IsFiniteSet(S)
      /\ \A a \in 1..n : a \in S <=> w[a] > 0
  <2>1. S \subseteq 1..n /\ S # {} /\ \A a \in 1..n : a \in S <=> w[a] > 0
    BY DEF Earners
  <2> HIDE DEF S
  <2>2. IsFiniteSet(1..n) /\ S \in SUBSET (1..n)
    BY <2>1, FS_Interval
  <2>3. IsFiniteSet(S)
    BY <2>2, FS_Subset
  <2> QED BY <2>1, <2>3
<1> DEFINE before == [a \in S |-> {c \in S : frac[c] > frac[a] \/ (frac[c] = frac[a] /\ c < a)}]
<1>6. /\ \A a, b \in S : a # b => rank[a] # rank[b]
      /\ \A i \in 0..(Cardinality(S) - 1) : \E a \in S : rank[a] = i
  <2>1. \A a \in S : rank[a] = Cardinality(before[a])
    <3> HIDE DEF S, frac
    <3> QED BY <1>5
  <2>2. before \in [S -> SUBSET S]
    OBVIOUS
  <2> HIDE DEF S, frac, rank
  <2>3. \A a, b \in S : a \in before[b]
                          <=> frac[a] > frac[b] \/ (frac[a] = frac[b] /\ a < b)
    OBVIOUS
  <2> HIDE DEF before
  <2>4. \A a \in S : a \in Nat /\ frac[a] \in Nat
    BY <1>3, <1>5
  <2>5. \A a \in S : a \notin before[a]
    BY <2>3, <2>4
  <2>6. ASSUME NEW a \in S, NEW b \in S, a # b
        PROVE  a \in before[b] \/ b \in before[a]
    <3>1. \/ frac[a] > frac[b] \/ (frac[a] = frac[b] /\ a < b)
          \/ frac[b] > frac[a] \/ (frac[b] = frac[a] /\ b < a)
      BY <2>4, <2>6
    <3> QED BY <2>3, <3>1
  <2>7. ASSUME NEW a \in S, NEW b \in S, NEW c \in S,
               a \in before[b], b \in before[c]
        PROVE  a \in before[c]
    <3>1. /\ frac[a] > frac[b] \/ (frac[a] = frac[b] /\ a < b)
          /\ frac[b] > frac[c] \/ (frac[b] = frac[c] /\ b < c)
      BY <2>3, <2>7
    <3>2. frac[a] > frac[c] \/ (frac[a] = frac[c] /\ a < c)
      BY <2>4, <3>1
    <3> QED BY <2>3, <3>2
  <2>8. /\ IsFiniteSet(S)
        /\ \A a, b \in S : a # b => a \in before[b] \/ b \in before[a]
        /\ \A a, b, c \in S : a \in before[b] /\ b \in before[c] => a \in before[c]
    BY <1>5, <2>6, <2>7
  <2> QED BY ONLY <2>1, <2>2, <2>5, <2>8, RanksCount, SMTT(20)
<1> DEFINE turns == [a \in 1..n |-> IF a \in S THEN {i \in 0..(rem - 1) : i % Cardinality(S) = rank[a]} ELSE {}]
           given == [a \in 1..n |-> Cardinality(turns[a])]
<1>7. RunningTotal(given, n) = rem /\ \A a \in 1..n : given[a] \in Nat
  <2> HIDE DEF S, rem, rank
  <2> DEFINE U == 0..(rem - 1)
             E == Cardinality(S)
  <2>1. /\ turns \in [1..n -> SUBSET U]
        /\ \A a \in 1..n, i \in U : i \in turns[a] <=> a \in S /\ i % E = rank[a]
        /\ \A a \in 1..n : given[a] = Cardinality(turns[a])
    OBVIOUS
  <2>2. E \in Nat \ {0} /\ S \subseteq 1..n
    BY <1>5, FS_CardinalityType, FS_EmptySet
  <2>3. U \subseteq Nat /\ IsFiniteSet(U) /\ Cardinality(U) = rem
    <3> DEFINE e == rem - 1
    <3>1. e \in Int /\ 0 \in Int
      BY <1>4
    <3>2. IsFiniteSet(0..e) /\ Cardinality(0..e) = IF 0 > e THEN 0 ELSE e - 0 + 1
      BY <3>1, FS_Interval, Zenon
    <3> QED BY <1>4, <3>2
  <2>4. \A i \in 0..(E - 1) : \E a \in S : rank[a] = i
    BY <1>6
  <2> HIDE DEF U, E, turns, given
  <2>5. ASSUME NEW i \in U PROVE \E a \in 1..n : i \in turns[a]
    <3>1. i % E \in 0..(E - 1)
      BY <2>2, <2>3
    <3>2. PICK a \in S : rank[a] = i % E
      BY <2>4, <3>1
    <3> QED BY <2>1, <2>2, <3>2
  <2>6. UNION {turns[a] : a \in 1..n} = U
    <3>1. \A x : x \in UNION {turns[a] : a \in 1..n} <=> \E a \in 1..n : x \in turns[a]
      OBVIOUS
    <3>2. \A a \in 1..n : turns[a] \subseteq U
      BY <2>1
    <3>3. \A x : x \in UNION {turns[a] : a \in 1..n} <=> x \in U
      BY <2>5, <3>1, <3>2
    <3> QED BY <3>3
  <2>7. \A a \in 1..n : IsFiniteSet(turns[a]) /\ given[a] \in Nat
    BY <2>1, <2>3, FS_Subset, FS_CardinalityType
  <2>8. \A a, c \in 1..n : a # c => turns[a] \cap turns[c] = {}
    <3> SUFFICES ASSUME NEW a \in 1..n, NEW c \in 1..n, a # c,
                        NEW i \in U, i \in turns[a], i \in turns[c]
                 PROVE  FALSE
      BY <2>1
    <3>1. a \in S /\ c \in S /\ rank[a] = rank[c]
      BY <2>1
    <3> QED BY <1>6, <3>1
  <2>9. RunningTotal(given, n) = Cardinality(UNION {turns[a] : a \in 1..n})
    <3>1. \A a \in 1..n : IsFiniteSet(turns[a]) /\ given[a] = Cardinality(turns[a])
      BY <2>1, <2>7
    <3>2. n \in Nat
      OBVIOUS
    <3> HIDE DEF S, rem, rank
    <3> QED BY <2>8, <3>1, <3>2, RunningTotalOfSizes
  <2> QED BY <2>3, <2>6, <2>7, <2>9
<1>8. \A a \in 1..n : /\ base[a] \in Int /\ given[a] \in Int
                      /\ part[a] = base[a] + given[a]
  <2> SUFFICES ASSUME NEW a \in 1..n
               PROVE  /\ base[a] \in Int /\ given[a] \in Int
                      /\ part[a] = base[a] + given[a]
    OBVIOUS
  <2>1. w[a] \in Nat /\ (a \in S <=> w[a] > 0)
    BY <1>5
  <2>2. given[a] = IF a \in S THEN bonus[a] ELSE 0
    <3>1. Cardinality({}) = 0
      BY FS_EmptySet
    <3>2. CASE a \in S
      BY <3>2
    <3>3. CASE a \notin S
      <4>1. {i \in 0..(rem - 1) : a \in S /\ i % Cardinality(S) = rank[a]} = {}
        BY <3>3
      <4> QED BY <3>1, <3>3, <4>1
    <3> QED BY <3>2, <3>3
  <2>3. part[a] = IF w[a] > 0 THEN base[a] + bonus[a] ELSE 0
    OBVIOUS
  <2>4. base[a] \in Int /\ given[a] \in Int /\ (w[a] = 0 => base[a] = 0)
    <3> HIDE DEF base, given
    <3> QED BY <1>3, <1>7
  <2> HIDE DEF S, base, bonus, given, part
  <2> QED BY <2>1, <2>2, <2>3, <2>4
<1>9. RunningTotal(part, n) = RunningTotal(base, n) + RunningTotal(given, n)
  <2> HIDE DEF base, given, part
  <2> QED BY <1>8, RunningTotalPlus
<1>10. RunningTotal(base, n) \in Int
  <2> HIDE DEF base
  <2> QED BY <1>3, RunningTotalNat
<1>11. RunningTotal(part, n) = total
  <2> DEFINE r == RunningTotal(base, n)
  <2>1. rem = total - r /\ r \in Int /\ RunningTotal(part, n) = r + rem
    BY <1>7, <1>9, <1>10
  <2> HIDE DEF rem, r, part
  <2> QED BY <2>1
<1> HIDE DEF part
<1> QED BY <1>1, <1>11
=============================================================================
