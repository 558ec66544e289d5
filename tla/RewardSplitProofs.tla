------------------------- MODULE RewardSplitProofs -------------------------
(***************************************************************************)
(* What the loops of allocateByWeight do with a reward, for any number of  *)
(* addresses, any weights, any order of the map and products that are,     *)
(* together, off by less than one satoshi, rounded past an integer or not. *)
(* The floors never exceed the reward, so what they leave is not negative; *)
(* it is at most one satoshi for every earner, so none comes up twice; and *)
(* the earner that comes up i-th has rank i - 1 in AllocateByWeight.       *)
(***************************************************************************)
EXTENDS RewardSplit, AllocationProofs, FunctionTheorems

-----------------------------------------------------------------------------
(* Sums of floors. *)

(* Less than one factor more is no more.                                   *)
LEMMA LessThanOneMore ==
  ASSUME NEW g, NEW x, NEW y, g \in Nat \ {0}, x \in Nat, y \in Nat, g * x < g * y + g
  PROVE  x <= y
<1> SUFFICES ASSUME x > y PROVE FALSE
  OBVIOUS
<1>1. PICK d \in Nat : x = y + (1 + d)
  <2>1. x - y - 1 \in Nat /\ x = y + (1 + (x - y - 1))
    OBVIOUS
  <2> QED BY <2>1
<1>2. g * x = g * y + g * (1 + d)
  BY <1>1
<1>3. g * (1 + d) = g + g * d /\ g * d \in Nat
  OBVIOUS
<1>4. g * y \in Nat
  OBVIOUS
<1> QED BY <1>2, <1>3, <1>4

LEMMA TimesAssociates ==
  \A x, y, z \in Int : (x * y) * z = x * (y * z) /\ x * (y * z) \in Int /\ y * z \in Int
OBVIOUS

(* A bound of every term with four factors is one of the sums.             *)
LEMMA SumsCompare ==
  ASSUME NEW n \in Nat, NEW p \in Int, NEW q \in Int, NEW r \in Int, NEW t \in Int,
         NEW f, NEW w, NEW b, NEW e,
         \A a \in 1..n : /\ f[a] \in Nat /\ w[a] \in Nat /\ b[a] \in Nat /\ e[a] \in Nat
                         /\ p * f[a] <= q * w[a] + (r * b[a] + t * e[a])
  PROVE  p * RunningTotal(f, n)
           <= q * RunningTotal(w, n) + (r * RunningTotal(b, n) + t * RunningTotal(e, n))
<1> DEFINE F == [a \in 1..n |-> p * f[a]]
           W == [a \in 1..n |-> q * w[a]]
           B == [a \in 1..n |-> r * b[a]]
           E == [a \in 1..n |-> t * e[a]]
           G == [a \in 1..n |-> r * b[a] + t * e[a]]
           H == [a \in 1..n |-> q * w[a] + (r * b[a] + t * e[a])]
<1>1. \A a \in 1..n :
        /\ F[a] = p * f[a] /\ W[a] = q * w[a] /\ B[a] = r * b[a] /\ E[a] = t * e[a]
        /\ F[a] \in Int /\ W[a] \in Int /\ B[a] \in Int /\ E[a] \in Int
        /\ G[a] = B[a] + E[a] /\ G[a] \in Int
        /\ H[a] = W[a] + G[a] /\ H[a] \in Int /\ F[a] <= H[a]
  <2> SUFFICES ASSUME NEW a \in 1..n
               PROVE  /\ p * f[a] \in Int /\ q * w[a] \in Int
                      /\ r * b[a] \in Int /\ t * e[a] \in Int
                      /\ p * f[a] <= q * w[a] + (r * b[a] + t * e[a])
    OBVIOUS
  <2>1. f[a] \in Int /\ w[a] \in Int /\ b[a] \in Int /\ e[a] \in Int
    OBVIOUS
  <2>2. p * f[a] \in Int /\ q * w[a] \in Int /\ r * b[a] \in Int /\ t * e[a] \in Int
    BY <2>1
  <2> QED BY <2>2
<1>2. /\ Multiplied(f, F, n, p) /\ Multiplied(w, W, n, q)
      /\ Multiplied(b, B, n, r) /\ Multiplied(e, E, n, t)
  BY <1>1 DEF Multiplied
<1> HIDE DEF F, W, B, E, G, H
<1>3. /\ RunningTotal(F, n) = p * RunningTotal(f, n)
      /\ RunningTotal(W, n) = q * RunningTotal(w, n)
      /\ RunningTotal(B, n) = r * RunningTotal(b, n)
      /\ RunningTotal(E, n) = t * RunningTotal(e, n)
  BY <1>2, RunningTotalTimes
<1>4. RunningTotal(G, n) = RunningTotal(B, n) + RunningTotal(E, n)
  BY <1>1, RunningTotalPlus
<1>5. RunningTotal(H, n) = RunningTotal(W, n) + RunningTotal(G, n)
  BY <1>1, RunningTotalPlus
<1>6. RunningTotal(F, n) <= RunningTotal(H, n)
  BY <1>1, RunningTotalMonotone
<1> QED BY <1>3, <1>4, <1>5, <1>6

(* Errors of less than one satoshi do not carry past an integer.           *)
LEMMA OffByLessThanOne ==
  ASSUME NEW g, NEW t, NEW x, NEW y, NEW e, g \in Nat \ {0}, t \in Nat \ {0},
         x \in Nat, y \in Nat, e \in Nat, e < g, (g * t) * x <= (g * t) * y + t * e
  PROVE  x <= y
<1> DEFINE gx == g * x
           gy == g * y
<1>1. gx \in Nat /\ gy \in Nat
  OBVIOUS
<1>2. (g * t) * x = t * gx /\ (g * t) * y = t * gy
  <2>1. (g * t) * x = g * (t * x) /\ (g * t) * y = g * (t * y)
    BY TimesAssociates
  <2>2. g * (t * x) = t * gx /\ g * (t * y) = t * gy
    OBVIOUS
  <2> QED BY <2>1, <2>2
<1> HIDE DEF gx, gy
<1>3. (gy + e) * t = t * gy + t * e
  BY <1>1
<1>4. t * gx <= (gy + e) * t
  BY <1>2, <1>3
<1>5. gx <= gy + e
  BY <1>1, <1>4, CommonFactor
<1>6. gx < gy + g
  BY <1>1, <1>5
<1> QED BY <1>6, LessThanOneMore DEF gx, gy

(* Floors of products, some of them too large, still fit in what is        *)
(* divided.                                                                *)
LEMMA FloorsFit ==
  ASSUME NEW n \in Nat, NEW g \in Nat \ {0}, NEW m \in Nat, NEW t \in Nat \ {0},
         NEW e, NEW f, NEW w, t = RunningTotal(w, n), RunningTotal(e, n) < g,
         \A a \in 1..n : /\ f[a] \in Nat /\ w[a] \in Nat /\ e[a] \in Nat
                         /\ (g * t) * f[a] <= (g * m) * w[a] + t * e[a]
  PROVE  RunningTotal(f, n) <= m
<1> DEFINE gt == g * t
           gm == g * m
           s  == RunningTotal(f, n)
           E  == RunningTotal(e, n)
<1>1. gt \in Int /\ gm \in Int
  OBVIOUS
<1>2. \A a \in 1..n : gt * f[a] <= gm * w[a] + t * e[a]
  OBVIOUS
<1>3. s \in Nat /\ E \in Nat /\ E < g
  BY RunningTotalNat
<1> HIDE DEF gt, gm, s, E
<1>4. gt * s <= gm * t + (0 * E + t * E)
  <2>1. \A a \in 1..n :
          /\ f[a] \in Nat /\ w[a] \in Nat /\ e[a] \in Nat
          /\ gt * f[a] <= gm * w[a] + (0 * e[a] + t * e[a])
    <3> SUFFICES ASSUME NEW a \in 1..n
                 PROVE  gt * f[a] <= gm * w[a] + (0 * e[a] + t * e[a])
      OBVIOUS
    <3>1. 0 * e[a] = 0 /\ t * e[a] \in Int
      OBVIOUS
    <3> QED BY <1>2, <3>1
  <2>2. 0 \in Int /\ t \in Int
    OBVIOUS
  <2>3. gt * RunningTotal(f, n)
          <= gm * RunningTotal(w, n) + (0 * RunningTotal(e, n) + t * RunningTotal(e, n))
    BY <1>1, <2>1, <2>2, SumsCompare
  <2> QED BY <2>3 DEF s, E
<1>5. gm * t = gt * m /\ 0 * E + t * E = t * E
  <2>1. (g * m) * t = g * (m * t) /\ (g * t) * m = g * (t * m) /\ m * t = t * m
    BY TimesAssociates
  <2>2. 0 * E + t * E = t * E
    BY <1>3
  <2> QED BY <2>1, <2>2 DEF gm, gt
<1>6. (g * t) * s <= (g * t) * m + t * E
  BY <1>4, <1>5 DEF gt
<1> QED BY <1>3, <1>6, OffByLessThanOne DEF s

-----------------------------------------------------------------------------
(* Arithmetic of one part, and of the order of the parts. *)

LEMMA DivisionIsUnique ==
  ASSUME NEW x, NEW d, NEW q, NEW r, d \in Nat \ {0}, q \in Nat, r \in Nat, r < d,
         x = d * q + r
  PROVE  x \div d = q /\ x % d = r
<1> DEFINE p == x \div d
           s == x % d
<1>1. x \in Nat
  OBVIOUS
<1>2. p \in Nat /\ s \in Nat /\ s < d /\ x = d * p + s
  BY <1>1
<1> HIDE DEF p, s
<1>3. d * p \in Nat /\ d * q \in Nat
  BY <1>2
<1>4. d * p < d * q + d /\ d * q < d * p + d
  BY <1>2, <1>3
<1>5. p <= q /\ q <= p
  BY <1>2, <1>4, LessThanOneMore
<1>6. p = q
  BY <1>2, <1>5
<1>7. s = r
  BY <1>2, <1>3, <1>6
<1> QED BY <1>6, <1>7 DEF p, s

(* Numerator and denominator times g: the same quotient, g times the rest. *)
LEMMA ScaledQuotient ==
  ASSUME NEW g, NEW y, NEW t, g \in Nat \ {0}, y \in Nat, t \in Nat \ {0}
  PROVE  (g * y) \div (g * t) = y \div t /\ (g * y) % (g * t) = g * (y % t)
<1> DEFINE q == y \div t
           r == y % t
<1>1. q \in Nat /\ r \in Nat /\ r < t /\ y = t * q + r
  OBVIOUS
<1> HIDE DEF q, r
<1> DEFINE d == g * t
           s == g * r
<1>2. g * y = (g * t) * q + g * r
  BY <1>1
<1>3. d \in Nat \ {0} /\ s \in Nat /\ s < d
  <2>1. PICK c \in Nat : t = r + (1 + c)
    <3>1. t - r - 1 \in Nat /\ t = r + (1 + (t - r - 1))
      BY <1>1
    <3> QED BY <3>1
  <2>2. g * (r + (1 + c)) = g * r + (g + g * c) /\ g * c \in Nat /\ g * r \in Nat
    BY <1>1
  <2> QED BY <1>1, <2>1, <2>2
<1> DEFINE x == g * y
<1>4. x = d * q + s
  BY <1>2
<1> HIDE DEF d, s, x
<1>5. x \div d = q /\ x % d = s
  BY <1>1, <1>3, <1>4, DivisionIsUnique
<1> QED BY <1>5 DEF d, s, x, q, r

(* A common factor keeps an order.                                         *)
LEMMA ScaledOrder ==
  ASSUME NEW g, NEW u, NEW v, g \in Nat \ {0}, u \in Nat, v \in Nat
  PROVE  g * u > g * v <=> u > v
<1>1. ASSUME NEW x, NEW y, x \in Nat, y \in Nat, x > y PROVE g * x > g * y
  <2>1. PICK c \in Nat : x = y + (1 + c)
    <3>1. x - y - 1 \in Nat /\ x = y + (1 + (x - y - 1))
      BY <1>1
    <3> QED BY <3>1
  <2>2. g * (y + (1 + c)) = g * y + (g + g * c) /\ g * c \in Nat /\ g * y \in Nat
    BY <1>1
  <2> QED BY <2>1, <2>2
<1>2. CASE u = v
  BY <1>2
<1>3. CASE u > v
  BY <1>1, <1>3
<1>4. CASE v > u
  <2>1. g * v > g * u /\ g * v \in Nat /\ g * u \in Nat
    BY <1>1, <1>4
  <2> QED BY <1>4, <2>1
<1> QED BY <1>2, <1>3, <1>4

(* Floors that fall short of the parts by less than one and an error each  *)
(* leave at most one satoshi per part.                                     *)
LEMMA FloorsLeaveFew ==
  ASSUME NEW n \in Nat, NEW g \in Nat \ {0}, NEW m \in Nat, NEW t \in Nat \ {0},
         NEW e, NEW f, NEW w, NEW b, t = RunningTotal(w, n), RunningTotal(e, n) < g,
         \A a \in 1..n : /\ f[a] \in Nat /\ w[a] \in Nat /\ b[a] \in Nat /\ e[a] \in Nat
                         /\ (g * m) * w[a]
                              <= (g * t) * f[a] + ((g * t) * b[a] + t * e[a])
  PROVE  m <= RunningTotal(f, n) + RunningTotal(b, n)
<1> DEFINE gt == g * t
           gm == g * m
           s  == RunningTotal(f, n)
           k  == RunningTotal(b, n)
           E  == RunningTotal(e, n)
<1>1. gt \in Int /\ gm \in Int /\ t \in Int
  OBVIOUS
<1>2. \A a \in 1..n :
        /\ f[a] \in Nat /\ w[a] \in Nat /\ b[a] \in Nat /\ e[a] \in Nat
        /\ gm * w[a] <= gt * f[a] + (gt * b[a] + t * e[a])
  OBVIOUS
<1>3. s \in Nat /\ k \in Nat /\ E \in Nat /\ E < g
  BY RunningTotalNat
<1> HIDE DEF gt, gm, s, k, E
<1>4. gm * t <= gt * s + (gt * k + t * E)
  <2>1. gm * RunningTotal(w, n)
          <= gt * RunningTotal(f, n) + (gt * RunningTotal(b, n) + t * RunningTotal(e, n))
    BY <1>1, <1>2, SumsCompare
  <2> QED BY <2>1 DEF s, k, E
<1>5. gm * t = gt * m
  <2>1. (g * m) * t = g * (m * t) /\ (g * t) * m = g * (t * m) /\ m * t = t * m
    BY TimesAssociates
  <2> QED BY <2>1 DEF gm, gt
<1>6. gt * (s + k) = gt * s + gt * k /\ gt * s \in Int /\ gt * k \in Int /\ t * E \in Int
  BY <1>1, <1>3
<1>7. (g * t) * m <= (g * t) * (s + k) + t * E
  <2>1. gt * m <= gt * (s + k) + t * E
    BY <1>4, <1>5, <1>6
  <2> QED BY <2>1 DEF gt
<1>8. s + k \in Nat
  BY <1>3
<1>9. m <= s + k
  BY <1>3, <1>7, <1>8, OffByLessThanOne
<1> QED BY <1>9 DEF s, k

(* The order lists the elements of S, each behind those of its B. *)
Sorts(order, S, B) ==
  /\ order \in [1..Cardinality(S) -> S]
  /\ \A a \in S : B[a] \subseteq S /\ a \notin B[a]
  /\ \A a, c \in S : a \in B[c] => c \notin B[a]
  /\ \A i, j \in 1..Cardinality(S) : i < j => order[i] \in B[order[j]]

(* In a sequence of all elements in a strict order, the i-th is behind     *)
(* i - 1 others.                                                           *)
LEMMA SortedRank ==
  ASSUME NEW S, IsFiniteSet(S), NEW B, NEW order, Sorts(order, S, B)
  PROVE  /\ \A a \in S : \E i \in 1..Cardinality(S) : order[i] = a
         /\ \A i \in 1..Cardinality(S) : Cardinality(B[order[i]]) = i - 1
<1> DEFINE k == Cardinality(S)
<1> USE DEF Sorts
<1>1. k \in Nat
  BY FS_CardinalityType
<1>2. IsFiniteSet(1..k) /\ Cardinality(1..k) = k
  <2> HIDE DEF k
  <2>1. IsFiniteSet(1..k) /\ Cardinality(1..k) = IF 1 > k THEN 0 ELSE k - 1 + 1
    BY <1>1, FS_Interval, 1 \in Int, k \in Int
  <2> QED BY <1>1, <2>1
<1>3. order \in [1..k -> S] /\ \A i, j \in 1..k : i < j => order[i] \in B[order[j]]
  OBVIOUS
<1>4. \A i, j \in 1..k : order[i] = order[j] => i = j
  <2> SUFFICES ASSUME NEW i \in 1..k, NEW j \in 1..k, order[i] = order[j], i # j PROVE FALSE
    OBVIOUS
  <2>1. order[i] \in S
    BY <1>3
  <2> HIDE DEF k
  <2>2. i < j \/ j < i
    BY <1>1
  <2> QED BY <1>3, <2>1, <2>2
<1>5. order \in Injection(1..k, S)
  BY <1>3, <1>4, Fun_IsInj
<1>6. order \in Surjection(1..k, S)
  BY <1>2, <1>5, FS_Injection
<1>7. \A a \in S : \E i \in 1..k : order[i] = a
  <2> HIDE DEF k
  <2> QED BY <1>6, Zenon DEF Surjection
<1>8. ASSUME NEW i \in 1..k PROVE Cardinality(B[order[i]]) = i - 1
  <2> DEFINE first == [j \in 1..(i - 1) |-> order[j]]
  <2>0. order[i] \in S /\ i \in Nat /\ i >= 1 /\ i <= k
    <3>1. order[i] \in S
      BY <1>3
    <3> HIDE DEF k
    <3> QED BY <1>1, <3>1
  <2>1. first \in [1..(i - 1) -> B[order[i]]]
    <3> SUFFICES ASSUME NEW j \in 1..(i - 1) PROVE order[j] \in B[order[i]]
      OBVIOUS
    <3>1. j \in 1..k /\ j < i
      <4> HIDE DEF k
      <4> QED BY <1>1, <2>0
    <3> QED BY <1>3, <3>1
  <2>2. \A c \in B[order[i]] : \E j \in 1..(i - 1) : first[j] = c
    <3> SUFFICES ASSUME NEW c \in B[order[i]] PROVE \E j \in 1..(i - 1) : order[j] = c
      OBVIOUS
    <3>1. c \in S /\ order[i] \notin B[c] /\ c # order[i]
      BY <2>0
    <3>2. PICK j \in 1..k : order[j] = c
      BY <1>7, <3>1
    <3>3. ~(i < j) /\ j # i
      BY <1>3, <3>1, <3>2
    <3>4. j \in 1..(i - 1)
      <4> HIDE DEF k
      <4> QED BY <1>1, <2>0, <3>3
    <3> QED BY <3>2, <3>4
  <2>3. \A j, h \in 1..(i - 1) : first[j] = first[h] => j = h
    <3> SUFFICES ASSUME NEW j \in 1..(i - 1), NEW h \in 1..(i - 1), order[j] = order[h]
                 PROVE  j = h
      OBVIOUS
    <3>1. j \in 1..k /\ h \in 1..k
      <4> HIDE DEF k
      <4> QED BY <1>1, <2>0
    <3> QED BY <1>4, <3>1
  <2> HIDE DEF first
  <2>4. first \in Bijection(1..(i - 1), B[order[i]])
    BY <2>1, <2>2, <2>3, Fun_IsBij
  <2>5. IsFiniteSet(1..(i - 1)) /\ Cardinality(1..(i - 1)) = i - 1
    <3> DEFINE l == i - 1
    <3>1. l \in Nat
      BY <2>0
    <3> HIDE DEF l
    <3>2. IsFiniteSet(1..l) /\ Cardinality(1..l) = IF 1 > l THEN 0 ELSE l - 1 + 1
      BY <3>1, FS_Interval, 1 \in Int, l \in Int
    <3>3. Cardinality(1..l) = l
      BY <3>1, <3>2
    <3> QED BY <3>2, <3>3 DEF l
  <2>6. ExistsBijection(1..(i - 1), B[order[i]])
    BY <2>4, Zenon DEF ExistsBijection
  <2> QED BY <2>5, <2>6, FS_Bijection
<1> QED BY <1>7, <1>8

-----------------------------------------------------------------------------
(* The invariant: how far the floors, and then what was given, are from    *)
(* the miners' reward.                                                     *)

Nothing == [a \in Addrs |-> 0]

(* a coinbase worth the reward covers it, one worth less lacks the rest *)
Covers(value, fee, r, m) ==
  LET left == value - fee
  IN  /\ r <= value => m <= left
      /\ r > value => m - left <= r - value

Covered == Covers(coinbaseValue, coinbaseFee, reward, minerReward)

ShapeInv ==
  /\ coinbaseValue \in CoinbaseValues /\ reward \in Rewards
  /\ devBps \in FeeBps /\ poolBps \in FeeBps /\ ulp \in Ulps
  /\ weights \in [Addrs -> Weights] /\ Earners(weights, NumAddrs) # {}
  /\ stage \in {"fees", "range", "give", "done", "failed"}
  /\ pending \subseteq Addrs
  /\ error \in [Addrs -> Errors] /\ TotalError < Grid
  /\ coinbaseFee \in 0..coinbaseValue /\ minerReward \in 0..reward /\ Covered
  /\ result \in [Addrs -> Nat] /\ frac \in [Addrs -> Nat]
  /\ parts \in Seq(Addrs)

(* not more than the exact part of an address, up to the error *)
FloorFits(a) ==
  (Grid * TotalWeight) * result[a]
    <= (Grid * minerReward) * weights[a] + TotalWeight * Off(a)

LeftInv ==
  /\ stage \in {"fees", "failed"} => result = Nothing
  /\ stage \in {"fees", "range", "failed"} => rem = 0 /\ given = 0
  /\ stage = "range" => /\ minerReward > 0 /\ pending \subseteq Earners(weights, NumAddrs)
                        /\ \A a \in Addrs : FloorFits(a)
  /\ stage = "give" => /\ rem \in 0..minerReward /\ given \in 0..rem /\ given < rem
                       /\ parts # << >>
                       /\ RunningTotal(result, NumAddrs) = minerReward - (rem - given)
  /\ stage = "done" => /\ rem \in 0..minerReward /\ given \in 0..rem
                       /\ RunningTotal(result, NumAddrs) = minerReward

SplitInv == ShapeInv /\ LeftInv

(* Fairness: an address is at its floor until it is given the satoshi, and *)
(* nobody is given a second one.                                           *)

Floor(a) == (minerReward * weights[a]) \div TotalWeight
Rest(a)  == (minerReward * weights[a]) % TotalWeight

(* at least the exact part less one satoshi and the error *)
FloorNear(a) ==
  (Grid * minerReward) * weights[a]
    <= (Grid * TotalWeight) * result[a] + (Grid * TotalWeight + TotalWeight * Off(a))

(* not more than the exact part and one satoshi and the error *)
OneMore(a) ==
  (Grid * TotalWeight) * result[a]
    <= (Grid * minerReward) * weights[a] + (Grid * TotalWeight + TotalWeight * Off(a))

Given(a) == \E i \in 1..given : parts[i] = a

NumEarners == Cardinality(Earners(weights, NumAddrs))

PartsInv ==
  stage \in {"give", "done"} =>
    /\ parts \in [1..NumEarners -> Earners(weights, NumAddrs)]
    /\ \A i, j \in 1..NumEarners : i < j => Before(parts[i], parts[j])
    /\ rem <= NumEarners /\ minerReward > 0
    /\ stage = "done" => given = rem

FairInv ==
  /\ \A a \in Addrs : weights[a] = 0 => result[a] = 0
  /\ stage = "range" => \A a \in Addrs \ pending : weights[a] > 0 => FloorNear(a)
  /\ stage \in {"give", "done"} =>
       \A a \in Addrs : weights[a] > 0 =>
         FloorNear(a) /\ IF Given(a) THEN OneMore(a) ELSE FloorFits(a)

(* what the loops hold of the products that are not off *)
ExactInv ==
  /\ stage = "range" =>
       \A a \in Addrs \ pending :
         weights[a] > 0 /\ error[a] = 0 => result[a] = Floor(a) /\ frac[a] = Grid * Rest(a)
  /\ stage \in {"give", "done"} =>
       /\ \A a \in Addrs : weights[a] > 0 /\ error[a] = 0 =>
            /\ result[a] = Floor(a) + IF Given(a) THEN 1 ELSE 0
            /\ frac[a] = Grid * Rest(a)
       /\ (\A a \in Addrs : error[a] = 0) =>
            rem = minerReward - RunningTotal([a \in Addrs |-> Floor(a)], NumAddrs)

IInv == SplitInv /\ PartsInv /\ FairInv /\ ExactInv

(* The values the inputs are taken from.                                   *)
LEMMA InputValues ==
  /\ \A v \in CoinbaseValues : v \in Nat
  /\ \A v \in Rewards : v \in Nat
  /\ \A b \in FeeBps : b \in Nat /\ b < 10000
  /\ \A v \in Weights : v \in Nat
  /\ \A e \in Errors : e \in Int
<1>1. ASSUME NEW v \in CoinbaseValues \cup Rewards \cup Weights PROVE v \in Nat
  BY AmountsAssumption
<1>2. ASSUME NEW b \in FeeBps PROVE b \in Nat /\ b < 10000
  <2>1. b \in 0..9999
    BY FeesAssumption, SMT
  <2> QED BY <2>1, SMT
<1>3. ASSUME NEW e \in Errors PROVE e \in Int
  BY ErrorsAssumption
<1> QED BY <1>1, <1>2, <1>3

(* How much a product is off is a number.                                  *)
LEMMA OffType ==
  ASSUME error \in [Addrs -> Errors], NEW a \in Addrs
  PROVE  /\ Off(a) \in Nat /\ error[a] \in Int
         /\ error[a] = Off(a) \/ error[a] = -Off(a)
<1>1. error[a] \in Int
  BY InputValues
<1> QED BY <1>1 DEF Off

(* The inputs, and what they weigh together.                               *)
LEMMA InputsType ==
  ASSUME ShapeInv
  PROVE  /\ coinbaseValue \in Nat /\ reward \in Nat /\ devBps \in Nat /\ devBps < 10000
         /\ poolBps \in Nat /\ poolBps < 10000
         /\ NumAddrs \in Nat \ {0} /\ Grid \in Nat \ {0}
         /\ \A a \in 1..NumAddrs : weights[a] \in Nat /\ Off(a) \in Nat
         /\ TotalWeight \in Nat \ {0}
         /\ minerReward \in Nat /\ minerReward <= reward /\ coinbaseFee \in Nat
<1>1. /\ coinbaseValue \in Nat /\ reward \in Nat
      /\ devBps \in Nat /\ devBps < 10000 /\ poolBps \in Nat /\ poolBps < 10000
  <2>1. /\ coinbaseValue \in CoinbaseValues /\ reward \in Rewards
        /\ devBps \in FeeBps /\ poolBps \in FeeBps
    BY DEF ShapeInv
  <2> QED BY <2>1, InputValues
<1>2. \A a \in 1..NumAddrs : weights[a] \in Nat
  <2>1. weights \in [Addrs -> Weights]
    BY DEF ShapeInv
  <2> QED BY <2>1, InputValues DEF Addrs
<1>3. PICK a \in 1..NumAddrs : weights[a] > 0
  <2>1. Earners(weights, NumAddrs) # {}
    BY Zenon DEF ShapeInv
  <2> QED BY <2>1 DEF Earners
<1>4. NumAddrs \in Nat \ {0} /\ Grid \in Nat \ {0}
  BY <1>3, SizesAssumption
<1>5. \A c \in 1..NumAddrs : Off(c) \in Nat
  <2>1. error \in [Addrs -> Errors]
    BY DEF ShapeInv
  <2> QED BY <2>1, OffType DEF Addrs
<1>6. TotalWeight \in Nat /\ weights[a] <= TotalWeight
  BY <1>2, <1>4, RunningTotalNat DEF TotalWeight
<1>7. TotalWeight \in Nat \ {0}
  BY <1>2, <1>3, <1>6
<1>8. minerReward \in Nat /\ minerReward <= reward /\ coinbaseFee \in Nat
  <2>1. coinbaseFee \in 0..coinbaseValue /\ minerReward \in 0..reward
    BY Zenon DEF ShapeInv
  <2> QED BY <1>1, <2>1
<1> QED BY <1>1, <1>2, <1>4, <1>5, <1>7, <1>8

(* Without errors they are nothing together.                               *)
LEMMA NoError ==
  ASSUME NumAddrs \in Nat, error = Nothing
  PROVE  TotalError = 0
<1> DEFINE z == [a \in Addrs |-> Off(a)]
<1>1. \A a \in 1..NumAddrs : z[a] = 0
  BY DEF Off, Nothing, Addrs
<1>2. TotalError = RunningTotal(z, NumAddrs)
  BY DEF TotalError
<1> HIDE DEF z
<1>3. Multiplied(z, z, NumAddrs, 0)
  BY <1>1 DEF Multiplied
<1>4. RunningTotal(z, NumAddrs) = 0 * RunningTotal(z, NumAddrs)
  BY <1>3, RunningTotalTimes
<1>5. RunningTotal(z, NumAddrs) \in Nat
  BY <1>1, RunningTotalNat
<1> QED BY <1>2, <1>4, <1>5

LEMMA SplitInit == Init => SplitInv
<1> SUFFICES ASSUME Init PROVE SplitInv
  OBVIOUS
<1>1. coinbaseValue \in Nat /\ reward \in Nat
  <2>1. coinbaseValue \in CoinbaseValues /\ reward \in Rewards
    BY DEF Init
  <2> QED BY <2>1, InputValues
<1>2. /\ coinbaseValue \in CoinbaseValues /\ reward \in Rewards
      /\ devBps \in FeeBps /\ poolBps \in FeeBps /\ ulp \in Ulps
      /\ weights \in [Addrs -> Weights] /\ Earners(weights, NumAddrs) # {}
  BY Zenon DEF Init
<1>3. stage = "fees" /\ pending = {}
  BY DEF Init
<1>4. coinbaseFee = 0 /\ minerReward = 0 /\ rem = 0 /\ given = 0
  BY DEF Init
<1>5. result = Nothing /\ frac = Nothing /\ error = Nothing /\ parts = << >>
  BY DEF Init, Nothing
<1>6. /\ Nothing \in [Addrs -> Nat] /\ << >> \in Seq(Addrs)
      /\ Nothing \in [Addrs -> Errors]
  BY ErrorsAssumption DEF Nothing
<1>7. ShapeInv
  <2>1. coinbaseFee \in 0..coinbaseValue /\ minerReward \in 0..reward
    BY <1>1, <1>4
  <2>2. Covered
    BY <1>1, <1>4 DEF Covered, Covers
  <2>3. TotalError < Grid
    <3>1. NumAddrs \in Nat /\ Grid \in Nat \ {0}
      BY SizesAssumption
    <3>2. TotalError = 0
      BY <1>5, <3>1, NoError
    <3> QED BY <3>1, <3>2
  <2> QED BY <1>2, <1>3, <1>5, <1>6, <2>1, <2>2, <2>3 DEF ShapeInv
<1>8. LeftInv
  BY <1>3, <1>4, <1>5 DEF LeftInv
<1> QED BY <1>7, <1>8 DEF SplitInv

(* Of a larger amount no smaller fee is taken, and no less is left.        *)
LEMMA CalcFeeSatGrows ==
  ASSUME NEW x, NEW y, NEW bps, x \in Nat, y \in Nat, x <= y, bps \in Nat, bps < 10000
  PROVE  /\ CalcFeeSat(x, bps) <= CalcFeeSat(y, bps)
         /\ x - CalcFeeSat(x, bps) <= y - CalcFeeSat(y, bps)
<1> DEFINE p == x * bps
           q == y * bps
           d == y - x
           r == d * bps
<1>1. d \in Nat /\ y = x + d
  OBVIOUS
<1> HIDE DEF d
<1>2. /\ p \in Nat /\ r \in Nat /\ q = p + r /\ r <= d * 10000
  <2>1. (x + d) * bps = x * bps + d * bps
    BY <1>1
  <2>2. d * bps <= d * 10000
    BY <1>1
  <2>3. p \in Nat /\ r \in Nat
    BY <1>1
  <2> QED BY <1>1, <2>1, <2>2, <2>3
<1>3. /\ x > 0 => CalcFeeSat(x, bps) = p \div 10000
      /\ x = 0 => CalcFeeSat(x, bps) = 0 /\ p = 0
      /\ y > 0 => CalcFeeSat(y, bps) = q \div 10000
      /\ y = 0 => CalcFeeSat(y, bps) = 0 /\ q = 0
  BY DEF CalcFeeSat
<1> HIDE DEF p, q, r
<1>4. /\ CalcFeeSat(x, bps) = p \div 10000
      /\ CalcFeeSat(y, bps) = q \div 10000
  BY <1>3
<1>5. p \div 10000 <= q \div 10000 /\ q \div 10000 <= p \div 10000 + d
  BY <1>1, <1>2
<1>6. p \div 10000 \in Int /\ q \div 10000 \in Int
  BY <1>2
<1> QED BY <1>1, <1>4, <1>5, <1>6

(* The fees leave the miners what the coinbase leaves to the pool, or less, *)
(* but for what the coinbase is worth less.                                *)
LEMMA FeesCovered ==
  ASSUME NEW cv, NEW r, NEW b, NEW fee, NEW m,
         cv \in Nat, r \in Nat, b \in FeeBps, fee = 0 \/ fee = CalcFeeSat(cv, b),
         m \in Nat, m <= r - CalcFeeSat(r, b)
  PROVE  Covers(cv, fee, r, m)
<1>0. b \in Nat /\ b < 10000
  BY InputValues
<1>1. /\ CalcFeeSat(cv, b) \in Nat /\ CalcFeeSat(cv, b) <= cv
      /\ CalcFeeSat(r, b) \in Nat /\ CalcFeeSat(r, b) <= r
  BY <1>0, CalcFeeSatRange
<1>2. r <= cv => r - CalcFeeSat(r, b) <= cv - CalcFeeSat(cv, b)
  BY <1>0, CalcFeeSatGrows
<1>3. r > cv => CalcFeeSat(cv, b) <= CalcFeeSat(r, b)
  BY <1>0, CalcFeeSatGrows
<1> DEFINE x == CalcFeeSat(cv, b)
           y == CalcFeeSat(r, b)
<1>4. /\ x \in Nat /\ x <= cv /\ y \in Nat /\ y <= r /\ (fee = 0 \/ fee = x) /\ m <= r - y
      /\ r <= cv => r - y <= cv - x
      /\ r > cv => x <= y
  BY <1>1, <1>2, <1>3
<1> HIDE DEF x, y
<1>5. fee \in Nat /\ fee <= x
  BY <1>4
<1> QED BY <1>4, <1>5 DEF Covers

LEMMA FeesKeep ==
  ASSUME SplitInv, TakeFees
  PROVE  SplitInv'
<1> DEFINE dev == CalcFeeSat(reward, devBps)
           left == reward - dev
           fee == CalcFeeSat(left, poolBps)
<1>1. ShapeInv /\ LeftInv
  BY DEF SplitInv
<1>2. /\ coinbaseValue \in Nat /\ reward \in Nat
      /\ devBps \in Nat /\ devBps < 10000 /\ poolBps \in Nat /\ poolBps < 10000
  <2> HIDE DEF dev, left, fee
  <2> QED BY <1>1, InputsType
<1>3. dev \in Nat /\ dev <= reward
  BY <1>2, CalcFeeSatRange
<1>4. coinbaseFee' \in {0, CalcFeeSat(coinbaseValue, devBps)}
  BY DEF TakeFees, CalcDeveloperFee, CalcFeeSat
<1>5. minerReward' = left - fee
  BY DEF TakeFees, MinerReward
<1> HIDE DEF dev
<1>6. left \in Nat /\ left = reward - dev
  BY <1>2, <1>3
<1> HIDE DEF left
<1>7. fee \in Nat /\ fee <= left
  BY <1>2, <1>6, CalcFeeSatRange
<1> HIDE DEF fee
<1>8. /\ coinbaseFee' \in 0..coinbaseValue /\ minerReward' \in 0..reward
      /\ minerReward' \in Nat /\ minerReward' <= reward - CalcFeeSat(reward, devBps)
  <2>1. minerReward' \in Nat /\ minerReward' <= left
    BY <1>5, <1>6, <1>7
  <2>2. CalcFeeSat(coinbaseValue, devBps) \in 0..coinbaseValue
    <3>1. /\ CalcFeeSat(coinbaseValue, devBps) \in Nat
          /\ CalcFeeSat(coinbaseValue, devBps) <= coinbaseValue
      BY <1>2, CalcFeeSatRange
    <3> QED BY <1>2, <3>1
  <2>3. coinbaseFee' \in 0..coinbaseValue
    BY <1>2, <1>4, <2>2
  <2>4. minerReward' \in 0..reward
    BY <1>2, <1>3, <1>6, <2>1
  <2> QED BY <1>6, <2>1, <2>3, <2>4 DEF dev
<1>9. /\ UNCHANGED <<coinbaseValue, reward, devBps, poolBps, ulp, weights, error, result,
                     frac, parts, rem, given>>
      /\ \/ /\ minerReward' > 0 /\ stage' = "range" /\ pending' = Earners(weights, NumAddrs)
         \/ stage' = "failed" /\ pending' = pending
      /\ stage = "fees"
  BY DEF TakeFees, inputs
<1>10. Earners(weights, NumAddrs) \subseteq Addrs
  BY DEF Earners, Addrs
<1>11. ShapeInv'
  <2>1. pending \subseteq Addrs /\ pending' \subseteq Addrs
    BY <1>1, <1>9, <1>10 DEF ShapeInv
  <2>2. stage' \in {"fees", "range", "give", "done", "failed"}
    BY <1>9
  <2>3. Covered'
    <3> DEFINE f == coinbaseFee'
               m == minerReward'
    <3>1. /\ f = 0 \/ f = CalcFeeSat(coinbaseValue, devBps)
          /\ m \in Nat /\ m <= reward - CalcFeeSat(reward, devBps)
      BY <1>4, <1>8
    <3> HIDE DEF f, m
    <3>2. coinbaseValue \in Nat /\ reward \in Nat /\ devBps \in FeeBps
      BY <1>1, <1>2 DEF ShapeInv
    <3>3. Covers(coinbaseValue, f, reward, m)
      BY ONLY <3>1, <3>2, FeesCovered
    <3> QED BY <1>9, <3>3 DEF Covered, f, m
  <2>4. TotalError' = TotalError
    BY <1>9 DEF TotalError, Off
  <2> QED BY <1>1, <1>8, <1>9, <2>1, <2>2, <2>3, <2>4 DEF ShapeInv
<1>12. result = Nothing /\ rem = 0 /\ given = 0
  BY <1>1, <1>9 DEF LeftInv
<1>13. \A a \in Addrs : FloorFits(a)'
  <2> SUFFICES ASSUME NEW a \in Addrs
               PROVE  (Grid * TotalWeight) * 0
                        <= (Grid * minerReward') * weights[a] + TotalWeight * Off(a)
    BY <1>9, <1>12 DEF FloorFits, TotalWeight, Off, Nothing
  <2> DEFINE gt == Grid * TotalWeight
             gm == Grid * minerReward'
             o  == TotalWeight * Off(a)
  <2>1. Grid \in Nat /\ TotalWeight \in Nat /\ weights[a] \in Nat /\ Off(a) \in Nat
    BY <1>1, InputsType DEF Addrs
  <2>2. gt \in Nat /\ gm \in Nat /\ o \in Nat
    <3> DEFINE r == minerReward'
               u == Off(a)
    <3>1. r \in Nat /\ u \in Nat
      BY <1>8, <2>1
    <3> HIDE DEF r, u
    <3>2. Grid * TotalWeight \in Nat /\ Grid * r \in Nat /\ TotalWeight * u \in Nat
      BY <2>1, <3>1
    <3> QED BY <3>2 DEF r, u
  <2> HIDE DEF gt, gm, o
  <2>3. gt * 0 = 0 /\ gm * weights[a] \in Nat
    BY <2>1, <2>2
  <2>4. gt * 0 <= gm * weights[a] + o
    BY <2>2, <2>3
  <2> QED BY <2>4 DEF gt, gm, o
<1>14. LeftInv'
  <2>1. result' = Nothing /\ rem' = 0 /\ given' = 0
    BY <1>9, <1>12
  <2>2. CASE stage' = "range"
    BY <1>9, <1>13, <2>1, <2>2 DEF LeftInv, Nothing
  <2>3. CASE stage' = "failed"
    BY <2>1, <2>3 DEF LeftInv, Nothing
  <2> QED BY <1>9, <2>2, <2>3
<1> QED BY <1>11, <1>14 DEF SplitInv

(* The floor of one address: what is divided is the exact part, or off by  *)
(* an error.                                                               *)
LEMMA FloorTaken ==
  ASSUME ShapeInv, minerReward > 0, NEW a, a \in Addrs, weights[a] > 0,
         NEW e, NEW h, h \in Nat, e = h \/ e = -h, Product(a, e) >= 0, FloorOf(a, e)
  PROVE  /\ result'[a] \in Nat /\ frac'[a] \in Nat
         /\ result' = [result EXCEPT ![a] = result'[a]]
         /\ frac' = [frac EXCEPT ![a] = frac'[a]]
         /\ (Grid * TotalWeight) * result'[a]
              <= (Grid * minerReward) * weights[a] + TotalWeight * h
         /\ (Grid * minerReward) * weights[a]
              <= (Grid * TotalWeight) * result'[a] + (Grid * TotalWeight + TotalWeight * h)
         /\ e = 0 => result'[a] = Floor(a) /\ frac'[a] = Grid * Rest(a)
<1> DEFINE d == Grid * TotalWeight
           gm == Grid * minerReward
           o == TotalWeight * h
           x == Product(a, e)
           q == x \div d
           r == x % d
<1>1. /\ Grid \in Nat \ {0} /\ TotalWeight \in Nat \ {0} /\ weights[a] \in Nat \ {0}
      /\ minerReward \in Nat \ {0} /\ e \in Int
  <2>1. /\ Grid \in Nat \ {0} /\ TotalWeight \in Nat \ {0} /\ weights[a] \in Nat
        /\ minerReward \in Nat
    BY InputsType DEF Addrs
  <2> HIDE DEF d, gm, o, x, q, r
  <2> QED BY <2>1
<1>2. result' = [result EXCEPT ![a] = q] /\ frac' = [frac EXCEPT ![a] = r]
  BY DEF FloorOf
<1>3. result \in [Addrs -> Nat] /\ frac \in [Addrs -> Nat]
  BY DEF ShapeInv
<1>4. d \in Nat \ {0} /\ gm \in Nat /\ o \in Nat
  BY <1>1
<1>5. e = 0 => q = Floor(a) /\ r = Grid * Rest(a)
  <2> SUFFICES ASSUME e = 0 PROVE q = Floor(a) /\ r = Grid * Rest(a)
    OBVIOUS
  <2> DEFINE y == minerReward * weights[a]
  <2>1. gm * weights[a] = Grid * y /\ y \in Nat /\ Grid * y \in Nat
    BY <1>1, TimesAssociates
  <2>2. x = Grid * y
    <3>1. 0 * TotalWeight = 0
      BY <1>1
    <3> QED BY <2>1, <3>1 DEF Product
  <2>3. (Grid * y) \div (Grid * TotalWeight) = y \div TotalWeight
        /\ (Grid * y) % (Grid * TotalWeight) = Grid * (y % TotalWeight)
    BY <1>1, <2>1, ScaledQuotient
  <2> QED BY <2>2, <2>3 DEF Floor, Rest
<1>6. e * TotalWeight = o \/ e * TotalWeight = -o
  BY <1>1
<1> HIDE DEF d, gm, o, q, r
<1> DEFINE v == gm * weights[a]
<1>7. v \in Nat
  BY <1>1, <1>4
<1>8. x = v + e * TotalWeight
  BY DEF Product, gm
<1> HIDE DEF v
<1>9. x \in Nat /\ x <= v + o /\ v <= x + o
  <2>1. x = v + o \/ x = v + (-o)
    BY <1>6, <1>8
  <2>2. x >= 0
    OBVIOUS
  <2> HIDE DEF x
  <2> QED BY <1>4, <1>7, <2>1, <2>2
<1> HIDE DEF x
<1>10. q \in Nat /\ r \in Nat /\ r < d /\ x = d * q + r
  BY <1>4, <1>9 DEF q, r
<1>11. d * q \in Nat
  BY <1>4, <1>10
<1>12. d * q <= v + o /\ v <= d * q + (d + o)
  BY <1>4, <1>7, <1>9, <1>10, <1>11
<1>13. result'[a] = q /\ frac'[a] = r
  BY <1>2, <1>3
<1> QED BY <1>2, <1>5, <1>10, <1>12, <1>13 DEF d, gm, o, v

(* One iteration over the weights.                                         *)
LEMMA FloorKeeps ==
  ASSUME IInv, TakeFloor
  PROVE  IInv'
<1>1. ShapeInv /\ LeftInv /\ FairInv /\ ExactInv
  BY DEF IInv, SplitInv
<1>2. PICK a \in pending, e \in Errors :
        /\ Product(a, e) >= 0 /\ FloorOf(a, e)
        /\ error' = [error EXCEPT ![a] = e] /\ pending' = pending \ {a}
  BY DEF TakeFloor
<1>3. /\ UNCHANGED <<coinbaseValue, reward, devBps, poolBps, ulp, weights, coinbaseFee,
                     minerReward, stage, parts, rem, given>>
      /\ stage = "range" /\ TotalError' < Grid
  BY DEF TakeFloor, inputs, fees
<1>4. a \in Addrs /\ weights[a] > 0 /\ minerReward > 0
  BY <1>1, <1>2, <1>3 DEF LeftInv, Earners, Addrs
<1> DEFINE h == IF e < 0 THEN -e ELSE e
<1>5. h \in Nat /\ (e = h \/ e = -h)
  <2>1. e \in Int
    BY InputValues
  <2> QED BY <2>1
<1>6. /\ error' \in [Addrs -> Errors] /\ error'[a] = e /\ Off(a)' = h
      /\ \A c \in Addrs \ {a} : error'[c] = error[c] /\ Off(c)' = Off(c)
  <2>1. error \in [Addrs -> Errors]
    BY <1>1 DEF ShapeInv
  <2>2. error' \in [Addrs -> Errors] /\ error'[a] = e
    BY <1>2, <1>4, <2>1
  <2>3. \A c \in Addrs \ {a} : error'[c] = error[c]
    BY <1>2, <2>1
  <2> QED BY <2>2, <2>3 DEF Off
<1> HIDE DEF h
<1>7. /\ result'[a] \in Nat /\ frac'[a] \in Nat
      /\ result' = [result EXCEPT ![a] = result'[a]]
      /\ frac' = [frac EXCEPT ![a] = frac'[a]]
      /\ (Grid * TotalWeight) * result'[a]
           <= (Grid * minerReward) * weights[a] + TotalWeight * h
      /\ (Grid * minerReward) * weights[a]
           <= (Grid * TotalWeight) * result'[a] + (Grid * TotalWeight + TotalWeight * h)
      /\ e = 0 => result'[a] = Floor(a) /\ frac'[a] = Grid * Rest(a)
  BY <1>1, <1>2, <1>4, <1>5, FloorTaken
<1>8. result \in [Addrs -> Nat] /\ frac \in [Addrs -> Nat]
  BY <1>1 DEF ShapeInv
<1>9. result' \in [Addrs -> Nat] /\ frac' \in [Addrs -> Nat]
  BY <1>4, <1>7, <1>8
<1>10. \A c \in Addrs \ {a} : result'[c] = result[c] /\ frac'[c] = frac[c]
  BY <1>7, <1>8
<1>11. ShapeInv'
  <2>1. pending' \subseteq Addrs
    BY <1>1, <1>2 DEF ShapeInv
  <2>2. Covered'
    BY <1>1, <1>3 DEF ShapeInv, Covered
  <2> QED BY <1>1, <1>3, <1>6, <1>9, <2>1, <2>2 DEF ShapeInv
<1>12. LeftInv'
  <2>1. \A c \in Addrs : FloorFits(c)'
    <3> SUFFICES ASSUME NEW c \in Addrs PROVE FloorFits(c)'
      OBVIOUS
    <3>1. CASE c = a
      BY <1>3, <1>6, <1>7, <3>1 DEF FloorFits, TotalWeight
    <3>2. CASE c # a
      BY <1>1, <1>3, <1>6, <1>10, <3>2 DEF LeftInv, FloorFits, TotalWeight
    <3> QED BY <3>1, <3>2
  <2>2. rem' = 0 /\ given' = 0 /\ minerReward' > 0
    BY <1>1, <1>3, <1>4 DEF LeftInv
  <2>3. pending' \subseteq Earners(weights', NumAddrs)
    BY <1>1, <1>2, <1>3 DEF LeftInv
  <2> QED BY <1>3, <2>1, <2>2, <2>3 DEF LeftInv
<1>13. PartsInv'
  BY <1>3 DEF PartsInv
<1>14. FairInv'
  <2>1. \A c \in Addrs : weights'[c] = 0 => result'[c] = 0
    BY <1>1, <1>3, <1>4, <1>10 DEF FairInv
  <2>2. ASSUME NEW c \in Addrs, c \notin pending', weights'[c] > 0 PROVE FloorNear(c)'
    <3>1. CASE c = a
      BY <1>3, <1>6, <1>7, <3>1 DEF FloorNear, TotalWeight
    <3>2. CASE c # a
      BY <1>1, <1>2, <1>3, <1>6, <1>10, <2>2, <3>2 DEF FairInv, FloorNear, TotalWeight
    <3> QED BY <3>1, <3>2
  <2> QED BY <1>3, <2>1, <2>2 DEF FairInv
<1>15. ExactInv'
  <2> SUFFICES ASSUME NEW c \in Addrs, c \notin pending', weights'[c] > 0, error'[c] = 0
               PROVE  result'[c] = Floor(c)' /\ frac'[c] = Grid * Rest(c)'
    BY <1>3 DEF ExactInv
  <2>1. Floor(c)' = Floor(c) /\ Rest(c)' = Rest(c)
    BY <1>3 DEF Floor, Rest, TotalWeight
  <2>2. CASE c = a
    BY <1>6, <1>7, <2>1, <2>2
  <2>3. CASE c # a
    <3>1. c \notin pending /\ weights[c] > 0 /\ error[c] = 0
      BY <1>2, <1>3, <1>6, <2>3
    <3>2. result[c] = Floor(c) /\ frac[c] = Grid * Rest(c)
      BY <1>1, <1>3, <3>1 DEF ExactInv
    <3> QED BY <1>10, <2>1, <2>3, <3>2
  <2> QED BY <2>2, <2>3
<1> QED BY <1>11, <1>12, <1>13, <1>14, <1>15 DEF IInv, SplitInv

(* All floors together leave nothing negative to give.                     *)
LEMMA FloorsLeaveRest ==
  ASSUME ShapeInv, \A a \in Addrs : FloorFits(a)
  PROVE  RunningTotal(result, NumAddrs) \in 0..minerReward
<1> DEFINE off == [a \in Addrs |-> Off(a)]
<1>1. /\ NumAddrs \in Nat /\ Grid \in Nat \ {0} /\ minerReward \in Nat
      /\ TotalWeight \in Nat \ {0}
      /\ \A a \in 1..NumAddrs : weights[a] \in Nat /\ off[a] \in Nat
  BY InputsType DEF Addrs
<1>2. \A a \in 1..NumAddrs : result[a] \in Nat
  BY DEF ShapeInv, Addrs
<1>3. RunningTotal(result, NumAddrs) \in Nat
  BY <1>1, <1>2, RunningTotalNat
<1>4. \A a \in 1..NumAddrs :
        (Grid * TotalWeight) * result[a]
          <= (Grid * minerReward) * weights[a] + TotalWeight * off[a]
  BY DEF FloorFits, Addrs
<1>5. TotalWeight = RunningTotal(weights, NumAddrs)
  BY DEF TotalWeight
<1>6. RunningTotal(off, NumAddrs) < Grid
  BY DEF ShapeInv, TotalError
<1> HIDE DEF TotalWeight, off
<1>7. RunningTotal(result, NumAddrs) <= minerReward
  BY <1>1, <1>2, <1>4, <1>5, <1>6, FloorsFit
<1> QED BY <1>1, <1>3, <1>7

LEMMA SortKeeps ==
  ASSUME SplitInv, SortParts
  PROVE  SplitInv'
<1> DEFINE earners == Earners(weights, NumAddrs)
           sum == RunningTotal(result, NumAddrs)
<1>1. ShapeInv /\ LeftInv
  BY DEF SplitInv
<1>2. /\ UNCHANGED <<coinbaseValue, reward, devBps, poolBps, ulp, weights, coinbaseFee,
                     minerReward, error, pending, result, frac, given>>
      /\ stage = "range"
      /\ rem' = minerReward - sum
      /\ stage' = IF rem' <= 0 THEN "done" ELSE "give"
      /\ parts' \in [1..Cardinality(earners) -> earners]
  BY DEF SortParts, inputs, fees
<1>3. sum \in 0..minerReward /\ minerReward \in Nat
  BY <1>1, <1>2, FloorsLeaveRest, InputsType DEF LeftInv
<1>4. earners \subseteq Addrs /\ earners # {}
  BY <1>1 DEF ShapeInv, Earners, Addrs
<1>5. Cardinality(earners) \in Nat /\ Cardinality(earners) # 0
  <2>1. IsFiniteSet(1..NumAddrs)
    BY <1>1, InputsType, FS_Interval, 1 \in Int
  <2>2. IsFiniteSet(earners)
    BY <1>4, <2>1, FS_Subset DEF Addrs
  <2> QED BY <1>4, <2>2, FS_CardinalityType, FS_EmptySet
<1> DEFINE card == Cardinality(earners)
<1> HIDE DEF earners, card
<1>6. parts' \in Seq(Addrs) /\ parts' # << >>
  <2>1. card \in Nat \ {0} /\ parts' \in [1..card -> earners]
    BY <1>2, <1>5 DEF card
  <2>2. parts' \in Seq(Addrs)
    BY <1>4, <2>1
  <2>3. Len(parts') = card
    BY <2>1
  <2> QED BY <2>1, <2>2, <2>3
<1>7. given = 0
  BY <1>1, <1>2 DEF LeftInv
<1> HIDE DEF sum
<1>8. ShapeInv'
  <2>1. stage' \in {"fees", "range", "give", "done", "failed"}
    BY <1>2
  <2>2. Covered' /\ TotalError' = TotalError
    BY <1>1, <1>2 DEF ShapeInv, Covered, TotalError, Off
  <2> QED BY <1>1, <1>2, <1>6, <2>1, <2>2 DEF ShapeInv
<1>9. sum' = sum
  BY <1>2 DEF sum
<1>10. LeftInv'
  <2>1. CASE rem' <= 0
    <3>1. rem' = 0 /\ sum = minerReward /\ stage' = "done"
      BY <1>2, <1>3, <2>1
    <3>2. given' = 0 /\ rem' \in 0..minerReward' /\ given' \in 0..rem'
      BY <1>2, <1>3, <1>7, <3>1
    <3> QED BY <1>2, <1>9, <3>1, <3>2 DEF LeftInv, sum
  <2>2. CASE rem' > 0
    <3>1. /\ rem' \in 0..minerReward' /\ stage' = "give" /\ given' = 0
          /\ given' \in 0..rem' /\ given' < rem'
          /\ sum' = minerReward' - (rem' - given')
      BY <1>2, <1>3, <1>7, <1>9, <2>2
    <3> QED BY <1>6, <3>1 DEF LeftInv, sum
  <2> QED BY <1>2, <1>3, <2>1, <2>2
<1> QED BY <1>8, <1>10 DEF SplitInv

(* One satoshi more for one address, one less to give.                     *)
LEMMA GiveKeeps ==
  ASSUME SplitInv, GiveSatoshi
  PROVE  SplitInv'
<1>1. ShapeInv /\ LeftInv
  BY DEF SplitInv
<1>2. /\ UNCHANGED <<coinbaseValue, reward, devBps, poolBps, ulp, weights, coinbaseFee,
                     minerReward, error, pending, frac, parts, rem>>
      /\ stage = "give"
      /\ result' = [result EXCEPT ![NextPart] = @ + 1]
      /\ given' = given + 1
      /\ stage' = IF given' = rem THEN "done" ELSE "give"
  BY DEF GiveSatoshi, inputs, fees
<1>3. /\ rem \in 0..minerReward /\ given \in 0..rem /\ given < rem
      /\ parts # << >>
      /\ RunningTotal(result, NumAddrs) = minerReward - (rem - given)
  BY <1>1, <1>2 DEF LeftInv
<1>4. minerReward \in Nat /\ NumAddrs \in Nat
  BY <1>1, InputsType
<1>5. result \in [Addrs -> Nat] /\ parts \in Seq(Addrs)
  BY <1>1 DEF ShapeInv
<1>6. NextPart \in Addrs
  <2>1. Len(parts) \in Nat \ {0} /\ given \in Nat
    BY <1>3, <1>4, <1>5
  <2> DEFINE l == Len(parts)
             k == given % l
  <2>2. k \in 0..(l - 1)
    <3> HIDE DEF l
    <3> QED BY <2>1 DEF l
  <2> HIDE DEF k
  <2>3. k + 1 \in 1..Len(parts)
    BY <2>1, <2>2
  <2>4. parts[k + 1] \in Addrs
    BY <1>5, <2>3
  <2> QED BY <2>4 DEF NextPart, k
<1> DEFINE p == NextPart
<1>7. p \in Addrs /\ result' = [result EXCEPT ![p] = result[p] + 1]
  BY <1>2, <1>6
<1> HIDE DEF p
<1>8. result' \in [Addrs -> Nat]
  BY <1>5, <1>7
<1>9. RunningTotal(result', NumAddrs) = RunningTotal(result, NumAddrs) + 1
  <2>1. \A i \in 1..NumAddrs : result[i] \in Int /\ result'[i] \in Int
    BY <1>5, <1>8 DEF Addrs
  <2>2. \A i \in 1..NumAddrs : i # p => result'[i] = result[i]
    BY <1>5, <1>7 DEF Addrs
  <2>3. p \in 1..NumAddrs /\ result'[p] = result[p] + 1
    BY <1>5, <1>7 DEF Addrs
  <2>4. RunningTotal(result', NumAddrs)
          = RunningTotal(result, NumAddrs) + (result'[p] - result[p])
    BY <1>4, <2>1, <2>2, <2>3, RunningTotalChange
  <2> QED BY <1>3, <1>4, <2>1, <2>3, <2>4
<1>10. ShapeInv'
  <2>1. stage' \in {"fees", "range", "give", "done", "failed"}
    BY <1>2
  <2>2. Covered' /\ TotalError' = TotalError
    BY <1>1, <1>2 DEF ShapeInv, Covered, TotalError, Off
  <2> QED BY <1>1, <1>2, <1>8, <2>1, <2>2 DEF ShapeInv
<1>11. LeftInv'
  <2> DEFINE total == RunningTotal(result, NumAddrs)
  <2>1. total' = minerReward' - (rem' - given') /\ rem' \in 0..minerReward'
        /\ given' \in 0..rem' /\ rem' \in Nat /\ given' \in Nat
    BY <1>2, <1>3, <1>4, <1>9
  <2>2. (given' = rem' /\ stage' = "done") \/ (given' < rem' /\ stage' = "give")
    BY <1>2, <1>3, <1>4
  <2>3. parts' # << >>
    BY <1>2, <1>3
  <2>4. total' = minerReward' - (rem' - given') => (given' = rem' => total' = minerReward')
    BY <1>2, <1>4, <2>1
  <2> QED BY <2>1, <2>2, <2>3, <2>4 DEF LeftInv
<1> QED BY <1>10, <1>11 DEF SplitInv

(* The addresses with weight.                                              *)
LEMMA EarnersType ==
  ASSUME ShapeInv
  PROVE  /\ IsFiniteSet(Earners(weights, NumAddrs)) /\ Earners(weights, NumAddrs) \subseteq Addrs
         /\ NumEarners \in Nat /\ NumEarners <= NumAddrs
         /\ \A a \in Addrs : weights[a] \in Nat
         /\ \A a \in Addrs : a \in Earners(weights, NumAddrs) <=> weights[a] > 0
<1> DEFINE earners == Earners(weights, NumAddrs)
<1>1. NumAddrs \in Nat /\ \A a \in 1..NumAddrs : weights[a] \in Nat
  BY InputsType
<1>2. earners \in SUBSET (1..NumAddrs)
  BY DEF Earners
<1>3. IsFiniteSet(1..NumAddrs) /\ Cardinality(1..NumAddrs) = NumAddrs
  <2>1. IsFiniteSet(1..NumAddrs)
        /\ Cardinality(1..NumAddrs) = IF 1 > NumAddrs THEN 0 ELSE NumAddrs - 1 + 1
    BY <1>1, FS_Interval, 1 \in Int, NumAddrs \in Int
  <2> QED BY <1>1, <2>1
<1>4. \A a \in 1..NumAddrs : a \in earners <=> weights[a] > 0
  BY DEF Earners
<1> HIDE DEF earners
<1>5. IsFiniteSet(earners) /\ Cardinality(earners) <= NumAddrs /\ Cardinality(earners) \in Nat
  BY <1>2, <1>3, FS_Subset, FS_CardinalityType
<1> QED BY <1>1, <1>2, <1>4, <1>5 DEF earners, NumEarners, Addrs

(* What the floors leave is at most a satoshi for every earner.            *)
LEMMA FewAreLeft ==
  ASSUME ShapeInv, \A a \in Addrs : weights[a] = 0 => result[a] = 0,
         \A a \in Addrs : weights[a] > 0 => FloorNear(a)
  PROVE  minerReward <= RunningTotal(result, NumAddrs) + NumEarners
<1> DEFINE n == NumAddrs
           T == [a \in 1..n |-> IF weights[a] > 0 THEN {a} ELSE {}]
           b == [a \in 1..n |-> IF weights[a] > 0 THEN 1 ELSE 0]
           e == [a \in Addrs |-> Off(a)]
<1>1. /\ n \in Nat /\ Grid \in Nat \ {0} /\ minerReward \in Nat
      /\ TotalWeight \in Nat \ {0}
      /\ \A a \in 1..n : weights[a] \in Nat /\ Off(a) \in Nat
  <2> HIDE DEF T, b, e
  <2> QED BY InputsType
<1>2. \A a \in 1..n : result[a] \in Nat
  BY DEF ShapeInv, Addrs
<1>3. RunningTotal(b, n) = Cardinality(UNION {T[a] : a \in 1..n})
  <2>1. \A a \in 1..n : IsFiniteSet(T[a]) /\ b[a] = Cardinality(T[a])
    <3> SUFFICES ASSUME NEW a \in 1..n PROVE IsFiniteSet(T[a]) /\ b[a] = Cardinality(T[a])
      OBVIOUS
    <3>1. CASE weights[a] > 0
      BY <3>1, FS_Singleton
    <3>2. CASE ~(weights[a] > 0)
      BY <3>2, FS_EmptySet
    <3> QED BY <3>1, <3>2
  <2>2. \A a, c \in 1..n : a # c => T[a] \cap T[c] = {}
    OBVIOUS
  <2> HIDE DEF T, b, n
  <2> QED BY <1>1, <2>1, <2>2, RunningTotalOfSizes
<1>4. UNION {T[a] : a \in 1..n} = Earners(weights, n)
  BY DEF Earners
<1>5. NumEarners = RunningTotal(b, n)
  BY <1>3, <1>4 DEF NumEarners
<1>6. ASSUME NEW a \in 1..n
      PROVE  /\ b[a] \in Nat /\ e[a] \in Nat
             /\ (Grid * minerReward) * weights[a]
                  <= (Grid * TotalWeight) * result[a]
                       + ((Grid * TotalWeight) * b[a] + TotalWeight * e[a])
  <2> DEFINE gm == Grid * minerReward
             gt == Grid * TotalWeight
             o  == TotalWeight * Off(a)
             f  == result[a]
             w  == weights[a]
  <2>1. gm \in Nat /\ gt \in Nat /\ o \in Nat /\ f \in Nat /\ w \in Nat
    <3> DEFINE u == Off(a)
    <3>1. u \in Nat
      BY <1>1
    <3> HIDE DEF u
    <3>2. Grid * minerReward \in Nat /\ Grid * TotalWeight \in Nat /\ TotalWeight * u \in Nat
      BY <1>1, <3>1
    <3> QED BY <1>1, <1>2, <3>2 DEF u
  <2>2. w = 0 => f = 0
    BY DEF Addrs
  <2>3. w > 0 => gm * w <= gt * f + (gt + o)
    BY DEF Addrs, FloorNear
  <2>4. b[a] = IF w > 0 THEN 1 ELSE 0
    OBVIOUS
  <2>5. e[a] = Off(a)
    BY DEF Addrs
  <2> HIDE DEF gm, gt, o, f, w, b, e
  <2>6. b[a] \in Nat /\ e[a] \in Nat
    BY <1>1, <2>4, <2>5
  <2>7. gm * w <= gt * f + (gt * b[a] + o)
    <3>1. CASE w > 0
      <4>1. gt * b[a] = gt
        BY <2>1, <2>4, <3>1
      <4> QED BY <2>3, <3>1, <4>1
    <3>2. CASE w = 0
      <4>1. gm * w = 0 /\ gt * f = 0 /\ gt * b[a] = 0
        BY <2>1, <2>2, <2>4, <3>2
      <4> QED BY <2>1, <4>1
    <3> QED BY <2>1, <3>1, <3>2
  <2> QED BY <2>5, <2>6, <2>7 DEF gm, gt, o, f, w
<1>7. TotalWeight = RunningTotal(weights, n)
  BY DEF TotalWeight
<1>8. RunningTotal(e, n) < Grid
  BY DEF ShapeInv, TotalError
<1> HIDE DEF T, b, e, n, TotalWeight
<1> QED BY <1>1, <1>2, <1>5, <1>6, <1>7, <1>8, FloorsLeaveFew DEF n

LEMMA RestInit == Init => PartsInv /\ FairInv /\ ExactInv
<1> SUFFICES ASSUME Init PROVE PartsInv /\ FairInv /\ ExactInv
  OBVIOUS
<1>1. stage = "fees" /\ result = Nothing
  BY DEF Init, Nothing
<1> QED BY <1>1 DEF PartsInv, FairInv, ExactInv, Nothing

LEMMA RestAfterFees ==
  ASSUME IInv, TakeFees
  PROVE  PartsInv' /\ FairInv' /\ ExactInv'
<1>1. ShapeInv /\ LeftInv
  BY DEF IInv, SplitInv
<1>2. /\ UNCHANGED <<weights, result>> /\ stage = "fees"
      /\ \/ stage' = "range" /\ pending' = Earners(weights, NumAddrs)
         \/ stage' = "failed"
  BY DEF TakeFees, inputs
<1>3. result' = Nothing
  BY <1>1, <1>2 DEF LeftInv
<1>4. stage' = "range" => \A a \in Addrs \ pending' : ~(weights'[a] > 0)
  BY <1>2 DEF Earners, Addrs
<1> QED BY <1>2, <1>3, <1>4 DEF PartsInv, FairInv, ExactInv, Nothing

LEMMA RestAfterSort ==
  ASSUME IInv, SortParts
  PROVE  PartsInv' /\ FairInv' /\ ExactInv'
<1> DEFINE earners == Earners(weights, NumAddrs)
           sum == RunningTotal(result, NumAddrs)
<1>1. ShapeInv /\ LeftInv /\ FairInv /\ ExactInv
  BY DEF IInv, SplitInv
<1>2. /\ UNCHANGED <<coinbaseValue, reward, devBps, poolBps, ulp, weights, coinbaseFee,
                     minerReward, error, pending, result, frac, given>>
      /\ stage = "range" /\ pending = {}
      /\ rem' = minerReward - sum
      /\ stage' = IF rem' <= 0 THEN "done" ELSE "give"
  BY DEF SortParts, inputs, fees
<1>3. PICK order \in [1..NumEarners -> earners] :
        /\ \A i, j \in 1..NumEarners : i < j => Before(order[i], order[j])
        /\ parts' = order
  <2>1. PICK order \in [1..NumEarners -> earners] :
          /\ \A i, j \in DOMAIN order : i < j => Before(order[i], order[j])
          /\ parts' = order
    BY DEF SortParts, NumEarners
  <2>2. DOMAIN order = 1..NumEarners
    OBVIOUS
  <2> QED BY <2>1, <2>2
<1>4. NumEarners \in Nat /\ NumEarners' = NumEarners
  BY <1>1, <1>2, EarnersType DEF NumEarners
<1>5. sum \in 0..minerReward /\ minerReward \in Nat /\ minerReward > 0 /\ given = 0
  BY <1>1, <1>2, FloorsLeaveRest, InputsType DEF LeftInv
<1>6. \A a \in Addrs : weights[a] = 0 => result[a] = 0
  BY <1>1 DEF FairInv
<1>7. \A a \in Addrs : weights[a] > 0 => FloorNear(a)
  BY <1>1, <1>2 DEF FairInv
<1>8. minerReward <= sum + NumEarners
  BY <1>1, <1>6, <1>7, FewAreLeft
<1>9. \A a \in Addrs : ~Given(a)'
  <2>1. 1..given' = {}
    BY <1>2, <1>5
  <2> QED BY <2>1 DEF Given
<1>10. PartsInv'
  <2>1. rem' <= NumEarners'
    <3> HIDE DEF sum
    <3> QED BY <1>2, <1>4, <1>5, <1>8
  <2>2. stage' = "done" => given' = rem'
    <3> HIDE DEF sum
    <3> QED BY <1>2, <1>5
  <2>3. parts' \in [1..NumEarners' -> Earners(weights', NumAddrs)]
    BY <1>2, <1>3, <1>4
  <2>4. (\A i, j \in 1..NumEarners : i < j => Before(parts[i], parts[j]))'
    BY <1>2, <1>3, <1>4 DEF Before
  <2>5. minerReward' > 0
    BY <1>2, <1>5
  <2> QED BY <2>1, <2>2, <2>3, <2>4, <2>5 DEF PartsInv
<1>11. FairInv'
  <2>1. \A a \in Addrs : FloorNear(a)' = FloorNear(a) /\ FloorFits(a)' = FloorFits(a)
    BY <1>2 DEF FloorNear, FloorFits, TotalWeight, Off
  <2>2. \A a \in Addrs : FloorFits(a)
    BY <1>1, <1>2 DEF LeftInv
  <2>3. stage' # "range"
    BY <1>2
  <2> QED BY <1>2, <1>6, <1>7, <1>9, <2>1, <2>2, <2>3 DEF FairInv
<1>12. ExactInv'
  <2>1. \A a \in Addrs : Floor(a)' = Floor(a) /\ Rest(a)' = Rest(a)
    BY <1>2 DEF Floor, Rest, TotalWeight
  <2>2. \A a \in Addrs : weights[a] > 0 /\ error[a] = 0 =>
          result[a] = Floor(a) /\ frac[a] = Grid * Rest(a)
    BY <1>1, <1>2 DEF ExactInv
  <2>3. ASSUME NEW a \in Addrs, weights'[a] > 0, error'[a] = 0
        PROVE  /\ result'[a] = Floor(a)' + IF Given(a)' THEN 1 ELSE 0
               /\ frac'[a] = Grid * Rest(a)'
    <3>1. result'[a] = Floor(a)' /\ frac'[a] = Grid * Rest(a)' /\ result'[a] \in Nat
      BY <1>1, <1>2, <2>1, <2>2, <2>3 DEF ShapeInv
    <3>2. ~Given(a)'
      BY <1>9
    <3> QED BY <3>1, <3>2
  <2>4. ASSUME \A a \in Addrs : error'[a] = 0
        PROVE  rem' = minerReward' - RunningTotal([a \in Addrs |-> Floor(a)'], NumAddrs)
    <3> DEFINE g == [a \in Addrs |-> Floor(a)']
    <3>1. \A a \in Addrs : result[a] = Floor(a)
      <4> SUFFICES ASSUME NEW a \in Addrs, weights[a] = 0 PROVE Floor(a) = 0
        BY <1>1, <1>2, <1>6, <2>2, <2>4, EarnersType
      <4>1. TotalWeight \in Nat \ {0} /\ minerReward \in Nat
        BY <1>1, InputsType
      <4>2. minerReward * weights[a] = 0
        BY <4>1
      <4> HIDE DEF TotalWeight
      <4> QED BY <4>1, <4>2 DEF Floor
    <3>2. \A a \in 1..NumAddrs : g[a] = result[a]
      BY <2>1, <3>1 DEF Addrs
    <3>3. NumAddrs \in Nat
      BY <1>1, InputsType
    <3> HIDE DEF g
    <3>4. RunningTotal(g, NumAddrs) = RunningTotal(result, NumAddrs)
      BY <3>2, <3>3, RunningTotalSame
    <3> QED BY <1>2, <3>4 DEF g
  <2>5. stage' # "range"
    BY <1>2
  <2> QED BY <2>3, <2>4, <2>5 DEF ExactInv
<1> QED BY <1>10, <1>11, <1>12

(* While satoshis are left, the next one is for an address without one.    *)
LEMMA NextIsNew ==
  ASSUME ShapeInv, PartsInv, stage = "give", given \in Nat, rem \in Nat, given < rem
  PROVE  /\ NextPart = parts[given + 1] /\ NextPart \in Earners(weights, NumAddrs)
         /\ ~Given(NextPart)
<1> DEFINE k == NumEarners
<1>1. /\ parts \in [1..k -> Earners(weights, NumAddrs)] /\ rem <= k
      /\ \A i, j \in 1..k : i < j => Before(parts[i], parts[j])
  BY DEF PartsInv
<1>2. k \in Nat
  BY EarnersType
<1> HIDE DEF k
<1>3. Len(parts) = k /\ given < k /\ given + 1 \in 1..k
  <2>1. parts \in Seq(Addrs) /\ DOMAIN parts = 1..k
    BY <1>1 DEF ShapeInv
  <2>2. Len(parts) = k
    BY <1>2, <2>1
  <2> QED BY <1>1, <1>2, <2>2
<1>4. given % k = given
  <2>1. k \in Nat \ {0} /\ given = k * 0 + given
    BY <1>2, <1>3
  <2> QED BY <1>3, <2>1, DivisionIsUnique
<1>5. NextPart = parts[given + 1]
  BY <1>3, <1>4 DEF NextPart
<1>6. NextPart \in Earners(weights, NumAddrs)
  BY <1>1, <1>3, <1>5
<1>7. ASSUME NEW i \in 1..given, parts[i] = parts[given + 1] PROVE FALSE
  <2>1. i \in 1..k /\ i < given + 1
    BY <1>2, <1>3
  <2>2. Before(parts[given + 1], parts[given + 1])
    BY <1>1, <1>3, <1>7, <2>1
  <2>3. parts[given + 1] \in Addrs
    BY <1>5, <1>6, EarnersType
  <2>4. frac[parts[given + 1]] \in Nat /\ parts[given + 1] \in Nat
    BY <2>3 DEF ShapeInv, Addrs
  <2> QED BY <2>2, <2>4 DEF Before
<1> QED BY <1>5, <1>6, <1>7 DEF Given

LEMMA RestAfterGive ==
  ASSUME IInv, GiveSatoshi
  PROVE  PartsInv' /\ FairInv' /\ ExactInv'
<1> DEFINE p == NextPart
<1>1. ShapeInv /\ LeftInv /\ PartsInv /\ FairInv /\ ExactInv
  BY DEF IInv, SplitInv
<1>2. /\ UNCHANGED <<coinbaseValue, reward, devBps, poolBps, ulp, weights, coinbaseFee,
                     minerReward, error, pending, frac, parts, rem>>
      /\ stage = "give"
      /\ result' = [result EXCEPT ![p] = result[p] + 1]
      /\ given' = given + 1
      /\ stage' = IF given' = rem THEN "done" ELSE "give"
  BY DEF GiveSatoshi, inputs, fees
<1>3. rem \in Nat /\ given \in Nat /\ given < rem
  <2>1. rem \in 0..minerReward /\ given \in 0..rem /\ given < rem
    BY <1>1, <1>2 DEF LeftInv
  <2>2. minerReward \in Nat
    BY <1>1, InputsType
  <2> QED BY <2>1, <2>2
<1>4. p = parts[given + 1] /\ p \in Earners(weights, NumAddrs) /\ ~Given(p)
  BY <1>1, <1>2, <1>3, NextIsNew
<1>5. p \in Addrs /\ weights[p] > 0
  BY <1>1, <1>4, EarnersType
<1> HIDE DEF p
<1>6. \A a \in Addrs : Given(a)' <=> Given(a) \/ a = p
  <2>1. 1..given' = 1..given \cup {given + 1}
    BY <1>2, <1>3
  <2> QED BY <1>2, <1>4, <2>1 DEF Given
<1>7. result \in [Addrs -> Nat]
  BY <1>1 DEF ShapeInv
<1>8. result'[p] = result[p] + 1 /\ \A a \in Addrs \ {p} : result'[a] = result[a]
  BY <1>2, <1>5, <1>7
<1>9. PartsInv'
  <2>1. NumEarners' = NumEarners
    BY <1>2 DEF NumEarners
  <2>2. stage' = "done" => given' = rem'
    BY <1>2
  <2> QED BY <1>1, <1>2, <2>1, <2>2 DEF PartsInv, Before
<1>10. FairInv'
  <2>1. stage' # "range" /\ stage = "give"
    BY <1>2
  <2>2. ASSUME NEW a \in Addrs, weights'[a] = 0 PROVE result'[a] = 0
    <3>1. a # p
      BY <1>2, <1>5, <2>2
    <3> QED BY <1>1, <1>2, <1>8, <2>2, <3>1 DEF FairInv
  <2>3. ASSUME NEW a \in Addrs, weights'[a] > 0
        PROVE  FloorNear(a)' /\ IF Given(a)' THEN OneMore(a)' ELSE FloorFits(a)'
    <3>1. FloorNear(a) /\ IF Given(a) THEN OneMore(a) ELSE FloorFits(a)
      BY <1>1, <1>2, <2>1, <2>3 DEF FairInv
    <3>2. CASE a # p
      <4>1. result'[a] = result[a] /\ (Given(a)' <=> Given(a))
        BY <1>6, <1>8, <3>2
      <4>2. FloorNear(a)' = FloorNear(a) /\ OneMore(a)' = OneMore(a) /\ FloorFits(a)' = FloorFits(a)
        BY <1>2, <4>1 DEF FloorNear, OneMore, FloorFits, TotalWeight, Off
      <4> QED BY <3>1, <4>1, <4>2
    <3>3. CASE a = p
      <4> DEFINE gt == Grid * TotalWeight
                 gm == Grid * minerReward
                 o == TotalWeight * Off(a)
                 v == gm * weights[a]
                 f == result[a]
      <4>1. gt \in Nat /\ v \in Nat /\ o \in Nat
        <5> DEFINE u == Off(a)
                   w == weights[a]
                   t == TotalWeight
                   m == minerReward
        <5>1. Grid \in Nat /\ t \in Nat /\ m \in Nat /\ w \in Nat /\ u \in Nat
          BY <1>1, InputsType DEF Addrs
        <5> HIDE DEF u, w, t, m
        <5>2. Grid * t \in Nat /\ Grid * m \in Nat /\ t * u \in Nat
          BY <5>1
        <5>3. (Grid * m) * w \in Nat
          BY <5>1, <5>2
        <5> QED BY <5>2, <5>3 DEF u, w, t, m
      <4>2. gt * f <= v + o /\ v <= gt * f + (gt + o)
        BY <1>4, <3>1, <3>3 DEF FloorFits, FloorNear
      <4>3. f \in Nat
        BY <1>7
      <4> HIDE DEF gt, gm, o, v, f
      <4>4. gt * (f + 1) = gt * f + gt /\ gt * f \in Nat
        BY <4>1, <4>3
      <4>5. gt * (f + 1) <= v + (gt + o) /\ v <= gt * (f + 1) + (gt + o)
        BY <4>1, <4>2, <4>3, <4>4
      <4>6. Off(a)' = Off(a)
        BY <1>2 DEF Off
      <4>7. FloorNear(a)' /\ OneMore(a)'
        BY <1>2, <1>8, <3>3, <4>5, <4>6 DEF FloorNear, OneMore, TotalWeight, gt, gm, o, v, f
      <4> QED BY <1>6, <3>3, <4>7
    <3> QED BY <3>2, <3>3
  <2> QED BY <2>1, <2>2, <2>3 DEF FairInv
<1>11. ExactInv'
  <2>0. stage' # "range" /\ error' = error
    BY <1>2
  <2>1. \A a \in Addrs : Floor(a)' = Floor(a) /\ Rest(a)' = Rest(a)
    BY <1>2 DEF Floor, Rest, TotalWeight
  <2>2. /\ \A a \in Addrs : weights[a] > 0 /\ error[a] = 0 =>
             result[a] = Floor(a) + (IF Given(a) THEN 1 ELSE 0) /\ frac[a] = Grid * Rest(a)
        /\ (\A a \in Addrs : error[a] = 0) =>
             rem = minerReward - RunningTotal([a \in Addrs |-> Floor(a)], NumAddrs)
    BY <1>1, <1>2 DEF ExactInv
  <2>3. ASSUME NEW a \in Addrs, weights'[a] > 0, error'[a] = 0
        PROVE  /\ result'[a] = Floor(a)' + IF Given(a)' THEN 1 ELSE 0
               /\ frac'[a] = Grid * Rest(a)'
    <3>1. result[a] = Floor(a) + (IF Given(a) THEN 1 ELSE 0) /\ frac[a] = Grid * Rest(a)
      BY <1>2, <2>0, <2>2, <2>3
    <3>2. frac'[a] = Grid * Rest(a)'
      BY <1>2, <2>1, <3>1
    <3>3. CASE a # p
      BY <1>6, <1>8, <2>1, <3>1, <3>2, <3>3
    <3>4. CASE a = p
      <4>1. ~Given(a) /\ Given(a)' /\ Floor(a)' = Floor(a)
        BY <1>4, <1>6, <2>1, <3>4
      <4>2. Floor(a) \in Nat
        <5>1. TotalWeight \in Nat \ {0} /\ minerReward \in Nat /\ weights[a] \in Nat
          BY <1>1, InputsType DEF Addrs
        <5>2. minerReward * weights[a] \in Nat
          BY <5>1
        <5> HIDE DEF TotalWeight
        <5> QED BY <5>1, <5>2 DEF Floor
      <4>3. result[a] = Floor(a)
        BY <3>1, <4>1, <4>2
      <4> QED BY <1>8, <3>2, <3>4, <4>1, <4>3
    <3> QED BY <3>3, <3>4
  <2>4. [a \in Addrs |-> Floor(a)'] = [a \in Addrs |-> Floor(a)]
    BY <2>1
  <2>5. (\A a \in Addrs : error'[a] = 0) =>
          rem' = minerReward' - RunningTotal([a \in Addrs |-> Floor(a)'], NumAddrs)
    BY <1>2, <2>0, <2>2, <2>4
  <2> QED BY <2>0, <2>3, <2>5 DEF ExactInv
<1> QED BY <1>9, <1>10, <1>11

LEMMA Invariant == Spec => []IInv
<1>1. Init => IInv
  BY SplitInit, RestInit DEF IInv
<1>2. IInv /\ [Next]_vars => IInv'
  <2> SUFFICES ASSUME IInv, [Next]_vars PROVE IInv'
    OBVIOUS
  <2>0. SplitInv
    BY DEF IInv
  <2>1. CASE TakeFees
    BY <2>0, <2>1, FeesKeep, RestAfterFees DEF IInv
  <2>2. CASE TakeFloor
    BY <2>2, FloorKeeps
  <2>3. CASE SortParts
    BY <2>0, <2>3, SortKeeps, RestAfterSort DEF IInv
  <2>4. CASE GiveSatoshi
    BY <2>0, <2>4, GiveKeeps, RestAfterGive DEF IInv
  <2>5. CASE UNCHANGED vars
    <3>1. ShapeInv' /\ LeftInv'
      BY <2>0, <2>5 DEF SplitInv, ShapeInv, LeftInv, Covered, TotalError, FloorFits,
                        TotalWeight, Off, vars, inputs, fees
    <3>2. PartsInv'
      BY <2>5 DEF IInv, PartsInv, NumEarners, Before, vars, inputs, fees
    <3>3. FairInv'
      BY <2>5 DEF IInv, FairInv, FloorNear, OneMore, FloorFits, Given, TotalWeight, Off,
                  vars, inputs, fees
    <3>4. ExactInv'
      BY <2>5 DEF IInv, ExactInv, Floor, Rest, Given, TotalWeight, vars, inputs, fees
    <3> QED BY <3>1, <3>2, <3>3, <3>4 DEF IInv, SplitInv
  <2> QED BY <2>1, <2>2, <2>3, <2>4, <2>5 DEF Next
<1> QED BY <1>1, <1>2, PTL DEF Spec

-----------------------------------------------------------------------------
(* No address holds more than the reward of the block at any step of the   *)
(* loops: the sum of what was handed out never passes the miners' reward.  *)
THEOREM SplitTyped == Spec => []TypeOK
<1>1. IInv => TypeOK
  <2> SUFFICES ASSUME IInv PROVE TypeOK
    OBVIOUS
  <2>1. ShapeInv /\ LeftInv
    BY DEF IInv, SplitInv
  <2>2. reward \in Nat /\ minerReward \in Nat /\ minerReward <= reward /\ NumAddrs \in Nat
    BY <2>1, InputsType
  <2>3. result \in [Addrs -> Nat]
    BY <2>1 DEF ShapeInv
  <2>4. \A a \in Addrs : result[a] <= reward
    <3>1. CASE stage \in {"fees", "failed"}
      BY <2>1, <2>2, <3>1 DEF LeftInv, Nothing
    <3>2. CASE stage \in {"range", "give", "done"}
      <4>1. RunningTotal(result, NumAddrs) \in Nat
            /\ \A a \in Addrs : result[a] <= RunningTotal(result, NumAddrs)
        BY <2>2, <2>3, RunningTotalNat DEF Addrs
      <4> DEFINE sum == RunningTotal(result, NumAddrs)
      <4>2. sum <= minerReward
        <5>1. CASE stage = "range"
          BY <2>1, <2>2, <5>1, FloorsLeaveRest DEF LeftInv
        <5>2. CASE stage = "give"
          <6>1. rem \in 0..minerReward /\ given \in 0..rem /\ given < rem
                /\ sum = minerReward - (rem - given)
            BY <2>1, <5>2 DEF LeftInv
          <6> QED BY <2>2, <6>1
        <5>3. CASE stage = "done"
          BY <2>1, <2>2, <5>3 DEF LeftInv
        <5> QED BY <3>2, <5>1, <5>2, <5>3
      <4> HIDE DEF sum
      <4> QED BY <2>2, <2>3, <4>1, <4>2 DEF sum
    <3> QED BY <2>1, <3>1, <3>2 DEF ShapeInv
  <2>5. result \in [Addrs -> 0..reward]
    BY <2>2, <2>3, <2>4
  <2>6. rem \in 0..reward /\ given \in 0..rem
    <3>1. CASE stage \in {"fees", "range", "failed"}
      BY <2>1, <2>2, <3>1 DEF LeftInv
    <3>2. CASE stage \in {"give", "done"}
      <4>1. rem \in 0..minerReward /\ given \in 0..rem
        BY <2>1, <3>2 DEF LeftInv
      <4> QED BY <2>2, <4>1
    <3> QED BY <2>1, <3>1, <3>2 DEF ShapeInv
  <2>7. /\ coinbaseValue \in CoinbaseValues /\ reward \in Rewards
        /\ {devBps, poolBps} \subseteq FeeBps /\ ulp \in Ulps
        /\ weights \in [Addrs -> Weights]
        /\ pending \subseteq Addrs /\ error \in [Addrs -> Errors]
        /\ frac \in [Addrs -> Nat] /\ parts \in Seq(Addrs)
        /\ stage \in {"fees", "range", "give", "done", "failed"}
        /\ coinbaseFee \in 0..coinbaseValue /\ minerReward \in 0..reward
    BY <2>1, Zenon DEF ShapeInv
  <2> QED BY <2>5, <2>6, <2>7 DEF TypeOK
<1> QED BY <1>1, Invariant, PTL

(* The loops of allocateByWeight give away the miners' reward to the       *)
(* satoshi, in whatever order the map is walked and however the products   *)
(* are rounded, also up to or down past an integer, as long as they are    *)
(* together off by less than one satoshi.                                  *)
THEOREM LoopsSplitExactly == Spec => []SplitIsExact
<1>1. IInv => SplitIsExact
  BY DEF IInv, SplitInv, LeftInv, SplitIsExact
<1> QED BY <1>1, Invariant, PTL

(* For every coinbase value, every configured reward and every pair of     *)
(* percentages: what is credited to the miners fits in what the coinbase   *)
(* leaves the pool if the coinbase is worth the configured reward, and     *)
(* passes it by no more than the coinbase is worth less.                   *)
THEOREM CoinbaseCovers == Spec => []CoinbaseCoversCredits
<1>1. IInv => CoinbaseCoversCredits
  BY DEF IInv, SplitInv, ShapeInv, Covered, Covers, CoinbaseCoversCredits
<1> QED BY <1>1, Invariant, PTL

(* Largest remainder is fair: nobody is further from the exact part than a *)
(* satoshi and the error of the own product, since what the floors leave   *)
(* is at most a satoshi for every earner and nobody comes up twice.        *)
THEOREM SplitFair == Spec => []SplitIsFair
<1>1. IInv => SplitIsFair
  <2> SUFFICES ASSUME IInv, stage = "done", NEW a \in Addrs
               PROVE  IF weights[a] = 0 THEN result[a] = 0
                      ELSE /\ Grid * (result[a] * TotalWeight - minerReward * weights[a])
                                <= (Grid + Off(a)) * TotalWeight
                           /\ -(Grid * (result[a] * TotalWeight - minerReward * weights[a]))
                                <= (Grid + Off(a)) * TotalWeight
    BY DEF SplitIsFair
  <2>1. ShapeInv /\ FairInv
    BY DEF IInv, SplitInv
  <2>2. CASE weights[a] = 0
    BY <2>1, <2>2 DEF FairInv
  <2>3. CASE weights[a] # 0
    <3> DEFINE g == Grid
               t == TotalWeight
               m == minerReward
               w == weights[a]
               f == result[a]
               u == Off(a)
               e == t * u
    <3>1. g \in Nat /\ t \in Nat /\ m \in Nat /\ w \in Nat /\ f \in Nat
          /\ u \in Nat /\ e \in Nat
      <4>1. /\ Grid \in Nat /\ TotalWeight \in Nat /\ minerReward \in Nat
            /\ weights[a] \in Nat /\ Off(a) \in Nat
        BY <2>1, InputsType DEF Addrs
      <4>2. result[a] \in Nat
        BY <2>1 DEF ShapeInv
      <4>3. g \in Nat /\ t \in Nat /\ m \in Nat /\ w \in Nat /\ f \in Nat /\ u \in Nat
        BY <4>1, <4>2
      <4> HIDE DEF g, t, m, w, f, u
      <4>4. t * u \in Nat
        BY <4>3
      <4> QED BY <4>3, <4>4
    <3>2. /\ (g * m) * w <= (g * t) * f + (g * t + e)
          /\ (g * t) * f <= (g * m) * w + (g * t + e)
      <4>1. FloorNear(a) /\ IF Given(a) THEN OneMore(a) ELSE FloorFits(a)
        <5>1. weights[a] > 0
          BY <2>3, <3>1
        <5> QED BY <2>1, <5>1 DEF FairInv
      <4>2. CASE Given(a)
        BY <4>1, <4>2 DEF FloorNear, OneMore
      <4>3. CASE ~Given(a)
        <5>1. (g * m) * w <= (g * t) * f + (g * t + e) /\ (g * t) * f <= (g * m) * w + e
          BY <4>1, <4>3 DEF FloorNear, FloorFits
        <5> HIDE DEF g, t, m, w, f, u, e
        <5> DEFINE x == (g * m) * w
                   y == (g * t) * f
                   z == g * t
        <5>2. x \in Int /\ y \in Int /\ z \in Nat
          <6>1. g * m \in Int /\ g * t \in Nat
            BY <3>1
          <6> DEFINE gm == g * m
                     gt == g * t
          <6>2. gm \in Int /\ gt \in Nat
            BY <6>1
          <6> HIDE DEF gm, gt
          <6>3. gm * w \in Int /\ gt * f \in Int
            BY <3>1, <6>2
          <6> QED BY <6>1, <6>3 DEF gm, gt
        <5>3. x <= y + (z + e) /\ y <= x + e
          BY <5>1
        <5> HIDE DEF x, y, z
        <5>4. x <= y + (z + e) /\ y <= x + (z + e)
          BY <3>1, <5>2, <5>3
        <5> QED BY <5>4 DEF x, y, z
      <4> QED BY <4>2, <4>3
    <3> HIDE DEF g, t, m, w, f, u, e
    <3>3. g * (f * t - m * w) = (g * t) * f - (g * m) * w
          /\ (g * t) * f \in Int /\ (g * m) * w \in Int /\ g * t \in Int
      <4> DEFINE p == f * t
                 q == m * w
      <4>1. p \in Int /\ q \in Int /\ g * t \in Int
        BY <3>1
      <4>2. (g * t) * f = g * (t * f) /\ g * (t * f) \in Int /\ t * f = p
            /\ (g * m) * w = g * q /\ g * q \in Int
        BY <3>1, TimesAssociates
      <4> HIDE DEF p, q
      <4>3. g * (p - q) = g * p - g * q
        BY <3>1, <4>1
      <4> QED BY <4>1, <4>2, <4>3 DEF p, q
    <3> DEFINE x == (g * m) * w
               y == (g * t) * f
               z == g * t
               off == g * (f * t - m * w)
    <3>4. x \in Int /\ y \in Int /\ z \in Int /\ off = y - x
          /\ x <= y + (z + e) /\ y <= x + (z + e)
      BY <3>2, <3>3
    <3> HIDE DEF x, y, z, off
    <3>5. off <= z + e /\ -off <= z + e
      BY <3>1, <3>4
    <3>6. (g + u) * t = z + e
      BY <3>1 DEF z, e
    <3> QED BY <2>3, <3>5, <3>6 DEF off, g, t, m, w, f, u
  <2> QED BY <2>2, <2>3
<1> QED BY <1>1, Invariant, PTL

(* With exact products the loops compute AllocateByWeight for all inputs,  *)
(* whatever order the map is walked in: what PayoutEngine settles with is  *)
(* what the code settles with.                                             *)
THEOREM LoopsAllocate == Spec => []SplitIsAllocateByWeight
<1>1. IInv => SplitIsAllocateByWeight
  <2> SUFFICES ASSUME IInv, stage = "done", \A a \in Addrs : error[a] = 0
               PROVE  result = AllocateByWeight(minerReward, weights, NumAddrs)
    BY DEF SplitIsAllocateByWeight
  <2> DEFINE S == Earners(weights, NumAddrs)
             k == Cardinality(S)
             B == [a \in S |-> {c \in S : Before(c, a)}]
             sum  == RunningTotal(weights, NumAddrs)
             base == [a \in 1..NumAddrs |-> (minerReward * weights[a]) \div sum]
             rest == [a \in 1..NumAddrs |-> (minerReward * weights[a]) % sum]
             left == minerReward - RunningTotal(base, NumAddrs)
             ahead(a) == {c \in S : rest[c] > rest[a] \/ (rest[c] = rest[a] /\ c < a)}
             rank == [a \in 1..NumAddrs |-> Cardinality(ahead(a))]
             turns(a) == {i \in 0..(left - 1) : i % k = rank[a]}
             bonus == [a \in 1..NumAddrs |-> Cardinality(turns(a))]
  <2>1. ShapeInv /\ LeftInv /\ PartsInv /\ FairInv /\ ExactInv
    BY DEF IInv, SplitInv
  <2>2. /\ IsFiniteSet(S) /\ S \subseteq Addrs /\ k \in Nat /\ S # {}
        /\ \A a \in Addrs : weights[a] \in Nat /\ (a \in S <=> weights[a] > 0)
    BY <2>1, EarnersType DEF NumEarners, ShapeInv
  <2>3. minerReward \in Nat /\ minerReward > 0 /\ given = rem /\ rem \in Nat /\ rem <= k
    <3>1. minerReward \in Nat /\ rem \in 0..minerReward
      BY <2>1, InputsType DEF LeftInv
    <3>2. minerReward > 0 /\ given = rem /\ rem <= k
      BY <2>1 DEF PartsInv, NumEarners
    <3> QED BY <3>1, <3>2
  <2>4. AllocateByWeight(minerReward, weights, NumAddrs)
          = [a \in 1..NumAddrs |-> IF weights[a] > 0 THEN base[a] + bonus[a] ELSE 0]
    BY <2>2, <2>3 DEF AllocateByWeight
  <2>5. parts \in [1..k -> S] /\ \A i, j \in 1..k : i < j => Before(parts[i], parts[j])
    BY <2>1 DEF PartsInv, NumEarners
  <2>6. \A a \in Addrs : frac[a] \in Nat /\ a \in Nat
    BY <2>1 DEF ShapeInv, Addrs
  <2>7. /\ \A a \in S : B[a] \subseteq S /\ a \notin B[a]
        /\ \A a, c \in S : a \in B[c] => c \notin B[a]
        /\ \A i, j \in 1..k : i < j => parts[i] \in B[parts[j]]
    <3> HIDE DEF S, k
    <3>1. \A a \in S : a \in Nat /\ frac[a] \in Nat
      BY <2>2, <2>6
    <3> QED BY <2>5, <3>1 DEF Before
  <2>8. /\ \A a \in S : \E i \in 1..k : parts[i] = a
        /\ \A i \in 1..k : Cardinality(B[parts[i]]) = i - 1
    <3>1. IsFiniteSet(S)
      BY <2>2
    <3>2. Sorts(parts, S, B)
      <4> HIDE DEF S, B
      <4> QED BY <2>5, <2>7 DEF Sorts
    <3> HIDE DEF S, B
    <3> QED BY ONLY <3>1, <3>2, SortedRank
  <2>9. \A a \in Addrs : base[a] = Floor(a) /\ rest[a] = Rest(a)
    BY DEF Addrs, Floor, Rest, TotalWeight
  <2>10. left = rem
    <3>1. rem = minerReward - RunningTotal([a \in Addrs |-> Floor(a)], NumAddrs)
      BY <2>1 DEF ExactInv
    <3>2. [a \in Addrs |-> Floor(a)] = base
      BY DEF Addrs, Floor, TotalWeight
    <3> HIDE DEF base
    <3> QED BY <3>1, <3>2
  <2>11. ASSUME NEW a \in S PROVE ahead(a) = B[a]
    <3>1. \A c \in Addrs : Rest(c) \in Nat
      <4> SUFFICES ASSUME NEW c \in Addrs PROVE Rest(c) \in Nat
        OBVIOUS
      <4>1. TotalWeight \in Nat \ {0} /\ minerReward * weights[c] \in Nat
        BY <2>1, <2>2, <2>3, InputsType
      <4> HIDE DEF TotalWeight
      <4> QED BY <4>1 DEF Rest
    <3>2. Grid \in Nat \ {0}
      BY <2>1, InputsType
    <3>3. \A c \in S : frac[c] = Grid * Rest(c) /\ c \in Addrs
      BY <2>1, <2>2 DEF ExactInv
    <3> HIDE DEF S, rest
    <3>4. ASSUME NEW c \in S
          PROVE  Before(c, a) <=> rest[c] > rest[a] \/ (rest[c] = rest[a] /\ c < a)
      <4>1. rest[c] = Rest(c) /\ rest[a] = Rest(a) /\ Rest(c) \in Nat /\ Rest(a) \in Nat
        BY <2>9, <3>1, <3>3
      <4> DEFINE u == Rest(c)
                 v == Rest(a)
      <4> HIDE DEF u, v
      <4>2. u \in Nat /\ v \in Nat /\ rest[c] = u /\ rest[a] = v
            /\ frac[c] = Grid * u /\ frac[a] = Grid * v
        BY <3>3, <4>1 DEF u, v
      <4>3. (Grid * u > Grid * v <=> u > v) /\ (Grid * v > Grid * u <=> v > u)
        BY <3>2, <4>2, ScaledOrder
      <4>4. Grid * u \in Nat /\ Grid * v \in Nat
        BY <3>2, <4>2
      <4>5. Grid * u = Grid * v <=> u = v
        BY <4>2, <4>3, <4>4
      <4> QED BY <4>2, <4>3, <4>5 DEF Before
    <3> QED BY <3>4
  <2>12. ASSUME NEW a \in S PROVE bonus[a] = IF Given(a) THEN 1 ELSE 0
    <3>1. PICK i \in 1..k : parts[i] = a
      BY <2>8
    <3>2. a \in 1..NumAddrs
      BY <2>2 DEF Addrs
    <3>3. rank[a] = i - 1
      <4>1. rank[a] = Cardinality(ahead(a))
        BY <3>2
      <4>2. Cardinality(B[a]) = i - 1
        BY <2>8, <3>1
      <4> HIDE DEF ahead, B, rank
      <4> QED BY <2>11, <4>1, <4>2
    <3>4. bonus[a] = Cardinality(turns(a))
      BY <3>2
    <3>5. Given(a) <=> i <= rem
      <4>1. ASSUME i <= rem PROVE Given(a)
        <5>1. i \in 1..given
          <6> HIDE DEF k
          <6> QED BY <2>2, <2>3, <4>1
        <5> QED BY <3>1, <5>1 DEF Given
      <4>2. ASSUME Given(a) PROVE i <= rem
        <5>1. PICK j \in 1..given : parts[j] = a
          BY <4>2 DEF Given
        <5>2. j \in 1..k /\ j <= rem
          <6> HIDE DEF k
          <6> QED BY <2>2, <2>3
        <5>3. Cardinality(B[a]) = j - 1 /\ Cardinality(B[a]) = i - 1
          BY <2>8, <3>1, <5>1, <5>2
        <5> HIDE DEF k, B
        <5> QED BY <2>2, <5>2, <5>3
      <4> QED BY <4>1, <4>2
    <3> HIDE DEF S, rank, left, bonus
    <3>6. k \in Nat /\ i \in Nat /\ 1 <= i /\ i <= k
      <4> HIDE DEF k
      <4> QED BY <2>2
    <3>7. \A j \in 0..(left - 1) : j % k = j
      <4> SUFFICES ASSUME NEW j \in 0..(left - 1) PROVE j % k = j
        OBVIOUS
      <4> HIDE DEF k
      <4>1. j \in Nat /\ j < k /\ k \in Nat \ {0} /\ j = k * 0 + j
        BY <2>3, <2>10, <3>6
      <4> QED BY <4>1, DivisionIsUnique
    <3>8. turns(a) = {j \in 0..(left - 1) : j = i - 1}
      BY <3>3, <3>7
    <3> HIDE DEF turns, k
    <3>9. CASE i <= rem
      <4>1. turns(a) = {i - 1}
        BY <2>3, <2>10, <3>6, <3>8, <3>9
      <4> QED BY <3>4, <3>5, <3>9, <4>1, FS_Singleton
    <3>10. CASE ~(i <= rem)
      <4>1. turns(a) = {}
        BY <2>3, <2>10, <3>6, <3>8, <3>10
      <4> QED BY <3>4, <3>5, <3>10, <4>1, FS_EmptySet
    <3> QED BY <3>9, <3>10
  <2>13. ASSUME NEW a \in 1..NumAddrs
         PROVE  result[a] = IF weights[a] > 0 THEN base[a] + bonus[a] ELSE 0
    <3>1. a \in Addrs /\ weights[a] \in Nat /\ (a \in S <=> weights[a] > 0)
      BY <2>2 DEF Addrs
    <3>2. CASE weights[a] = 0
      BY <2>1, <3>1, <3>2 DEF FairInv
    <3>3. CASE weights[a] > 0
      <4>1. result[a] = Floor(a) + IF Given(a) THEN 1 ELSE 0
        BY <2>1, <3>1, <3>3 DEF ExactInv
      <4>2. bonus[a] = IF Given(a) THEN 1 ELSE 0
        <5> HIDE DEF bonus, S
        <5> QED BY <2>12, <3>1, <3>3
      <4>3. base[a] = Floor(a)
        BY <2>9, <3>1
      <4> HIDE DEF base, bonus
      <4> QED BY <3>3, <4>1, <4>2, <4>3
    <3> HIDE DEF base, bonus, S
    <3> QED BY <3>1, <3>2, <3>3
  <2>14. result = [a \in 1..NumAddrs |-> result[a]]
    BY <2>1 DEF ShapeInv, Addrs
  <2> HIDE DEF base, bonus
  <2> QED BY <2>4, <2>13, <2>14
<1> QED BY <1>1, Invariant, PTL
=============================================================================
