------------------------- MODULE PayoutLedgerProofs -------------------------
(***************************************************************************)
(* The payout engines implement PayoutLedger.                              *)
(*                                                                         *)
(* A settlement is Credit, and its credits sum up to the reward; creating  *)
(* a batch is Reserve, the wallet's payment is Pay.  Every other step, a   *)
(* refund that rolls back included, changes nothing of the ledger.         *)
(***************************************************************************)
EXTENDS PayoutEngineProofs

-----------------------------------------------------------------------------
(* Credits. *)

(* A settlement credits the reward, to the last satoshi.                   *)
LEMMA CreditIsReward ==
  ASSUME TypeOK, NEW p \in Pools, NEW b \in DOMAIN shares, NEW prev, CanSettle(p, b, prev)
  PROVE  /\ CreditOf(p, b, prev) \in [Addrs -> 0..MinerRewardSat]
         /\ RunningTotal(CreditOf(p, b, prev), NumAddrs) = MinerRewardSat
<1> DEFINE credit == CreditOf(p, b, prev)
<1>1. MinerRewardSat \in Nat \ {0}
  BY MinerRewardType DEF CanSettle
<1>2. RunningTotal(credit, NumAddrs) = MinerRewardSat
  <2>1. CASE SchemeOf[p] = "solo"
    <3> DEFINE k == AddressOf[shares[b].worker]
    <3>1. k \in 1..NumAddrs
      BY <2>1, SharesType, WorkersAssumption, NumAddrsAssumption DEF CanSettle
    <3>2. credit = [a \in 1..NumAddrs |-> IF a = k THEN MinerRewardSat ELSE 0]
      BY <2>1 DEF CreditOf, SoloCredit, Addrs
    <3> HIDE DEF k, credit
    <3>3. \A a \in 1..NumAddrs : credit[a] = IF a = k THEN MinerRewardSat ELSE 0
      BY <3>2
    <3>4. MinerRewardSat \in Int /\ NumAddrs \in Nat
      BY <1>1, NumAddrsAssumption
    <3> QED BY <3>1, <3>3, <3>4, RunningTotalSingle
  <2>2. CASE SchemeOf[p] # "solo"
    <3> DEFINE w == RoundWeights(p, prev, b)
    <3>1. w \in [1..NumAddrs -> Nat]
      BY WeightsType DEF Addrs
    <3>2. credit = AllocateByWeight(MinerRewardSat, w, NumAddrs)
      BY <2>2 DEF CreditOf
    <3>3. Earners(w, NumAddrs) # {}
      BY <2>2 DEF CanSettle
    <3> HIDE DEF w, credit
    <3> QED BY <1>1, <3>1, <3>2, <3>3, NumAddrsAssumption, AllocateByWeightExact
  <2> QED BY <2>1, <2>2
<1>3. credit \in [Addrs -> Nat]
  BY CreditType
<1> HIDE DEF credit
<1>4. \A a \in 1..NumAddrs : credit[a] \in Nat /\ credit[a] <= RunningTotal(credit, NumAddrs)
  BY <1>3, NumAddrsAssumption, RunningTotalNat DEF Addrs
<1>5. credit \in [Addrs -> 0..MinerRewardSat]
  BY <1>1, <1>2, <1>3, <1>4 DEF Addrs
<1> QED BY <1>2, <1>5 DEF credit

-----------------------------------------------------------------------------
(* What all miners of a pool were credited.  With the balanced ledger of   *)
(* each of them it is what the pool owes them, has set aside and has sent. *)

CreditedToAll(p) == RunningTotal([a \in Addrs |-> Credited(p, a)], NumAddrs)

CreditsAreRewards ==
  \A p \in Pools : CreditedToAll(p) = Cardinality(SettledBlocks(p)) * MinerRewardSat

(* Credits are natural numbers, and as many blocks are settled as rows.    *)
LEMMA CreditsType ==
  ASSUME TypeOK, NEW p \in Pools
  PROVE  /\ \A a \in Addrs : Credited(p, a) \in Nat
         /\ IsFiniteSet(SettledBlocks(p)) /\ Cardinality(SettledBlocks(p)) \in Nat
<1>1. \A a \in Addrs : Credited(p, a) \in Nat
  BY LedgerSums, RunningTotalNat
<1>2. SettledBlocks(p) \subseteq 1..Len(shares) /\ Len(shares) \in Nat
  BY SharesType DEF SettledBlocks, TypeOK
<1>3. IsFiniteSet(SettledBlocks(p))
  <2>1. IsFiniteSet(1..Len(shares))
    BY <1>2, FS_Interval
  <2> QED BY <1>2, <2>1, FS_Subset
<1> QED BY <1>1, <1>3, FS_CardinalityType

(* The credits of a pool change with its settlements only.                 *)
LEMMA CreditsStay ==
  ASSUME NEW p \in Pools, \A a \in Addrs : Credited(p, a)' = Credited(p, a)
  PROVE  CreditedToAll(p)' = CreditedToAll(p)
BY DEF CreditedToAll

(* A settlement adds one block and one reward.                             *)
LEMMA CreditsSettle ==
  ASSUME TypeOK, CreditsAreRewards, NEW q \in Pools, SettleBlock(q)
  PROVE  CreditsAreRewards'
<1>1. PICK k \in Unsettled(q), prev \in 0..Len(shares) :
        /\ CanSettle(q, k, prev)
        /\ DOMAIN settlements' = DOMAIN settlements \cup {k}
        /\ CreditOf(q, k, prev) \in [Addrs -> Nat]
        /\ \A p \in Pools, a \in Addrs :
             Credited(p, a)' = Credited(p, a) + IF p = q THEN CreditOf(q, k, prev)[a] ELSE 0
  BY CreditedSettle
<1> DEFINE credit == CreditOf(q, k, prev)
<1>2. /\ k \in DOMAIN shares /\ k \notin DOMAIN settlements /\ shares[k].pool = q
      /\ shares' = shares
  BY DEF Unsettled, TypeOK, SettleBlock
<1>3. /\ RunningTotal(credit, NumAddrs) = MinerRewardSat
      /\ credit \in [Addrs -> Nat]
  BY <1>1, <1>2, CreditIsReward
<1>4. \A p \in Pools, a \in Addrs :
        Credited(p, a)' = Credited(p, a) + IF p = q THEN credit[a] ELSE 0
  BY <1>1
<1> HIDE DEF credit
<1> SUFFICES ASSUME NEW p \in Pools
             PROVE  CreditedToAll(p)' = Cardinality(SettledBlocks(p)') * MinerRewardSat
  BY DEF CreditsAreRewards
<1>5. CreditedToAll(p) = Cardinality(SettledBlocks(p)) * MinerRewardSat
  BY DEF CreditsAreRewards
<1>6. CASE p # q
  <2>1. SettledBlocks(p)' = SettledBlocks(p)
    BY <1>1, <1>2, <1>6 DEF SettledBlocks
  <2>2. \A a \in Addrs : Credited(p, a)' = Credited(p, a)
    BY <1>4, <1>6, CreditsType
  <2> QED BY <1>5, <2>1, <2>2, CreditsStay
<1>7. CASE p = q
  <2> DEFINE f == [a \in Addrs |-> Credited(p, a)]
             h == [a \in Addrs |-> Credited(p, a)']
             c == Cardinality(SettledBlocks(p))
  <2>1. \A a \in 1..NumAddrs :
          f[a] \in Int /\ credit[a] \in Int /\ h[a] = f[a] + credit[a]
    BY <1>3, <1>4, <1>7, CreditsType DEF Addrs
  <2>2. CreditedToAll(p) = RunningTotal(f, NumAddrs) /\ CreditedToAll(p)' = RunningTotal(h, NumAddrs)
    BY DEF CreditedToAll
  <2> HIDE DEF f, h
  <2>3. CreditedToAll(p)' = CreditedToAll(p) + MinerRewardSat
    BY <1>3, <2>1, <2>2, NumAddrsAssumption, RunningTotalPlus
  <2>4. SettledBlocks(p)' = SettledBlocks(p) \cup {k} /\ k \notin SettledBlocks(p)
    BY <1>1, <1>2, <1>7 DEF SettledBlocks
  <2>5. Cardinality(SettledBlocks(p)') = c + 1
    BY <2>4, CreditsType, FS_AddElement
  <2>6. c \in Nat /\ MinerRewardSat \in Nat
    BY CreditsType, MinerRewardType
  <2>7. CreditedToAll(p) = c * MinerRewardSat
    BY <1>5
  <2> HIDE DEF c
  <2>8. (c + 1) * MinerRewardSat = c * MinerRewardSat + MinerRewardSat
    BY <2>6
  <2> QED BY <2>3, <2>5, <2>7, <2>8
<1> QED BY <1>6, <1>7

(* Every step keeps the credits equal to the rewards of the blocks.        *)
LEMMA CreditsNext == TypeInv /\ CreditsAreRewards /\ [Next]_vars => CreditsAreRewards'
<1> SUFFICES ASSUME TypeOK, CreditsAreRewards, [Next]_vars PROVE CreditsAreRewards'
  BY DEF TypeInv
<1>1. CASE RecordShare
  <2>1. \A p \in Pools : SettledBlocks(p)' = SettledBlocks(p)
    <3>1. \A c \in DOMAIN shares : shares'[c] = shares[c]
      BY <1>1, SharesType DEF RecordShare, TypeOK
    <3>2. DOMAIN settlements \subseteq DOMAIN shares /\ settlements' = settlements
      BY <1>1 DEF RecordShare, TypeOK
    <3> QED BY <3>1, <3>2 DEF SettledBlocks
  <2>2. \A p \in Pools : CreditedToAll(p)' = CreditedToAll(p)
    BY <1>1, CreditedRecordShare, CreditsStay
  <2> QED BY <2>1, <2>2 DEF CreditsAreRewards
<1>2. ASSUME NEW p \in Pools, SettleBlock(p) PROVE CreditsAreRewards'
  BY <1>2, CreditsSettle
<1>3. CASE UNCHANGED <<shares, settlements>>
  BY <1>3 DEF CreditsAreRewards, CreditedToAll, Credited, SettledBlocks
<1> QED
  BY <1>1, <1>2, <1>3
  DEF Next, Cycle, ChainMoves, InsertBlockStates, LoadBlockStates, LookupBlockConfirmations,
      LookupFails, UpdateBlockState, SettleFails, NothingToSettle, NothingDue, ReserveBatch,
      SendManyPays, SendManyFails, MarkBatchSent, RefundBatch, Abandon, tables, vars

LEMMA CreditsInit == Init => CreditsAreRewards
<1> SUFFICES ASSUME Init, NEW p \in Pools
             PROVE  CreditedToAll(p) = Cardinality(SettledBlocks(p)) * MinerRewardSat
  BY DEF CreditsAreRewards
<1>1. Len(shares) = 0 /\ SettledBlocks(p) = {}
  BY DEF Init, SettledBlocks
<1>2. \A a \in Addrs : Credited(p, a) = 0
  BY <1>1, RunningTotalStep DEF Credited
<1> DEFINE z == [a \in Addrs |-> Credited(p, a)]
<1>3. CreditedToAll(p) = RunningTotal(z, NumAddrs) /\ \A a \in 1..NumAddrs : z[a] = 0
  BY <1>2 DEF CreditedToAll, Addrs
<1> HIDE DEF z
<1>4. RunningTotal(z, NumAddrs) = 0
  <2>1. \A a \in 1..NumAddrs : z[a] \in Int /\ z[a] \in Nat /\ z[a] = z[a] + z[a]
    BY <1>3
  <2>2. RunningTotal(z, NumAddrs) = RunningTotal(z, NumAddrs) + RunningTotal(z, NumAddrs)
    BY <2>1, NumAddrsAssumption, RunningTotalPlus
  <2>3. RunningTotal(z, NumAddrs) \in Nat
    BY <2>1, NumAddrsAssumption, RunningTotalNat
  <2> DEFINE t == RunningTotal(z, NumAddrs)
  <2>4. t = t + t /\ t \in Nat
    BY <2>2, <2>3
  <2> HIDE DEF t
  <2>5. t = 0
    BY <2>4
  <2> QED BY <2>5 DEF t
<1>5. Cardinality(SettledBlocks(p)) = 0
  BY <1>1, FS_EmptySet
<1> QED BY <1>3, <1>4, <1>5, MinerRewardType

(* For every scheme, fee, set of miners and course of failures, a pool's   *)
(* miners hold, in balances and in batches that were not refunded, exactly *)
(* the reward of the blocks the pool settled.                              *)
THEOREM RewardsAreAccounted == Spec => []RewardsAccounted
<1>1. Init => TypeInv /\ LedgerConserved /\ CreditsAreRewards
  BY TypeInit, LedgerInit, CreditsInit
<1>2. TypeInv /\ LedgerConserved /\ CreditsAreRewards /\ [Next]_vars
        => (TypeInv /\ LedgerConserved /\ CreditsAreRewards)'
  BY TypeNext, LedgerNext, CreditsNext
<1>3. LedgerConserved /\ CreditsAreRewards => RewardsAccounted
  <2> SUFFICES ASSUME LedgerConserved, CreditsAreRewards, NEW p \in Pools
               PROVE  RunningTotal([a \in Addrs |-> balances[p][a] + InBatches(p, a, LiveBatches)],
                                   NumAddrs)
                        = Cardinality(SettledBlocks(p)) * MinerRewardSat
    BY DEF RewardsAccounted
  <2>1. [a \in Addrs |-> balances[p][a] + InBatches(p, a, LiveBatches)]
          = [a \in Addrs |-> Credited(p, a)]
    BY DEF LedgerConserved
  <2> QED BY <2>1 DEF CreditsAreRewards, CreditedToAll
<1> QED BY <1>1, <1>2, <1>3, PTL DEF Spec

-----------------------------------------------------------------------------
(* Sums over the batches, of one table or of another. *)

SumIn(bs, p, a, ks) ==
  RunningTotal([k \in DOMAIN bs |->
                  IF k \in ks /\ bs[k].pool = p THEN bs[k].items[a] ELSE 0], Len(bs))

(* The batches of a table have numbers of satoshis.                        *)
LEMMA SumTerms ==
  ASSUME NEW bs \in Seq(Batch), NEW p, NEW a \in Addrs, NEW ks
  PROVE  LET f == [k \in DOMAIN bs |->
                     IF k \in ks /\ bs[k].pool = p THEN bs[k].items[a] ELSE 0]
         IN  /\ Len(bs) \in Nat /\ DOMAIN bs = 1..Len(bs)
             /\ \A k \in 1..Len(bs) : /\ bs[k].items[a] \in Nat /\ f[k] \in Nat
                                      /\ f[k] = IF k \in ks /\ bs[k].pool = p
                                                THEN bs[k].items[a] ELSE 0
<1>1. Len(bs) \in Nat /\ DOMAIN bs = 1..Len(bs) /\ \A k \in 1..Len(bs) : bs[k] \in Batch
  OBVIOUS
<1>2. \A k \in 1..Len(bs) : bs[k].items[a] \in Nat
  BY <1>1 DEF Batch
<1> QED BY <1>1, <1>2

(* Their sum holds at least what each of them does.                        *)
LEMMA SumHolds ==
  ASSUME NEW bs \in Seq(Batch), NEW p, NEW a \in Addrs, NEW ks
  PROVE  /\ SumIn(bs, p, a, ks) \in Nat
         /\ \A k \in DOMAIN bs : k \in ks /\ bs[k].pool = p
                                   => bs[k].items[a] <= SumIn(bs, p, a, ks)
<1> DEFINE f == [k \in DOMAIN bs |->
                   IF k \in ks /\ bs[k].pool = p THEN bs[k].items[a] ELSE 0]
           n == Len(bs)
<1>1. /\ n \in Nat /\ DOMAIN bs = 1..n
      /\ \A k \in 1..n : /\ f[k] \in Nat
                         /\ f[k] = IF k \in ks /\ bs[k].pool = p
                                   THEN bs[k].items[a] ELSE 0
  BY SumTerms
<1>2. SumIn(bs, p, a, ks) = RunningTotal(f, n)
  BY DEF SumIn
<1> HIDE DEF f, n
<1>3. RunningTotal(f, n) \in Nat /\ \A k \in 1..n : f[k] <= RunningTotal(f, n)
  BY <1>1, RunningTotalNat
<1> QED BY <1>1, <1>2, <1>3

(* A batch more adds its items, where it counts.                           *)
LEMMA SumAppended ==
  ASSUME NEW bs \in Seq(Batch), NEW batch \in Batch, NEW p, NEW a \in Addrs,
         NEW ks, NEW ls, \A k \in DOMAIN bs : k \in ks <=> k \in ls
  PROVE  SumIn(Append(bs, batch), p, a, ls)
           = SumIn(bs, p, a, ks)
               + IF Len(bs) + 1 \in ls /\ batch.pool = p THEN batch.items[a] ELSE 0
<1> DEFINE cs == Append(bs, batch)
           f == [k \in DOMAIN bs |->
                   IF k \in ks /\ bs[k].pool = p THEN bs[k].items[a] ELSE 0]
           g == [k \in DOMAIN cs |->
                   IF k \in ls /\ cs[k].pool = p THEN cs[k].items[a] ELSE 0]
           n == Len(bs)
<1>1. /\ n \in Nat /\ DOMAIN bs = 1..n /\ DOMAIN cs = 1..(n + 1) /\ Len(cs) = n + 1
      /\ cs[n + 1] = batch /\ \A k \in 1..n : cs[k] = bs[k]
  OBVIOUS
<1>2. SumIn(bs, p, a, ks) = RunningTotal(f, n) /\ SumIn(cs, p, a, ls) = RunningTotal(g, n + 1)
  BY <1>1 DEF SumIn
<1>3. /\ \A k \in 1..n : g[k] = f[k]
      /\ g[n + 1] = IF n + 1 \in ls /\ batch.pool = p THEN batch.items[a] ELSE 0
  BY <1>1
<1> HIDE DEF cs, f, g, n
<1>4. RunningTotal(g, n + 1) = RunningTotal(f, n) + g[n + 1]
  <2>1. n \in Nat /\ \A k \in 1..n : g[k] = f[k]
    BY <1>1, <1>3
  <2> QED BY <2>1, RunningTotalAppend
<1>5. SumIn(cs, p, a, ls)
        = SumIn(bs, p, a, ks) + IF n + 1 \in ls /\ batch.pool = p THEN batch.items[a] ELSE 0
  BY <1>2, <1>3, <1>4
<1> QED BY <1>5 DEF cs, n

(* Tables that differ in statuses only *)
SameAmounts(bs, cs) ==
  /\ Len(cs) = Len(bs)
  /\ \A j \in DOMAIN bs : cs[j].pool = bs[j].pool /\ cs[j].items = bs[j].items

(* What batch k holds for an address of a pool *)
Amount(bs, p, a, k) == IF bs[k].pool = p THEN bs[k].items[a] ELSE 0

(* ls are ks and k *)
OneMore(bs, k, ks, ls) ==
  k \notin ks /\ \A j \in DOMAIN bs : j \in ls <=> j \in ks \/ j = k

(* Tables that differ in statuses only have the same sums, but for the     *)
(* batch k where it is counted in the one and not in the other.            *)
LEMMA SumMoved ==
  ASSUME NEW bs, NEW cs, NEW p, NEW a, NEW k, NEW ks, NEW ls,
         bs \in Seq(Batch), cs \in Seq(Batch), a \in Addrs, k \in DOMAIN bs,
         SameAmounts(bs, cs), OneMore(bs, k, ks, ls)
  PROVE  SumIn(cs, p, a, ls) = SumIn(bs, p, a, ks) + Amount(bs, p, a, k)
<1> DEFINE f == [j \in DOMAIN bs |->
                   IF j \in ks /\ bs[j].pool = p THEN bs[j].items[a] ELSE 0]
           g == [j \in DOMAIN cs |->
                   IF j \in ls /\ cs[j].pool = p THEN cs[j].items[a] ELSE 0]
           n == Len(bs)
           d == IF bs[k].pool = p THEN bs[k].items[a] ELSE 0
<1>0. n \in Nat /\ DOMAIN bs = 1..n /\ \A j \in 1..n : f[j] \in Nat /\ bs[j].items[a] \in Nat
  BY SumTerms
<1>1. /\ n \in Nat /\ DOMAIN bs = 1..n /\ DOMAIN cs = 1..n /\ Len(cs) = n
      /\ \A j \in 1..n : f[j] \in Int /\ bs[j].items[a] \in Int
  <2> HIDE DEF f
  <2> QED BY <1>0 DEF SameAmounts
<1>2. SumIn(bs, p, a, ks) = RunningTotal(f, n) /\ SumIn(cs, p, a, ls) = RunningTotal(g, n)
  BY <1>1 DEF SumIn
<1>3. \A j \in 1..n : g[j] = IF j = k THEN f[j] + d ELSE f[j]
  BY <1>1 DEF SameAmounts, OneMore
<1>4. d \in Int /\ k \in 1..n
  BY <1>1
<1> HIDE DEF f, g, n, d
<1>5. RunningTotal(g, n) = RunningTotal(f, n) + d
  <2>1. ASSUME NEW j \in 1..n PROVE f[j] \in Int /\ g[j] \in Int
    <3>1. f[j] \in Int /\ g[j] = IF j = k THEN f[j] + d ELSE f[j]
      BY <1>1, <1>3
    <3> QED BY <1>4, <3>1
  <2>2. (\A j \in 1..n : j # k => g[j] = f[j]) /\ g[k] - f[k] = d
    BY <1>1, <1>3, <1>4
  <2> QED BY <1>1, <1>4, <2>1, <2>2, RunningTotalChange
<1> QED BY <1>2, <1>5 DEF d, Amount

(* Where the same batches count, the sums are the same.                    *)
LEMMA SumKept ==
  ASSUME NEW bs, NEW cs, NEW p, NEW a, NEW ks,
         bs \in Seq(Batch), cs \in Seq(Batch), a \in Addrs, SameAmounts(bs, cs)
  PROVE  SumIn(cs, p, a, ks) = SumIn(bs, p, a, ks)
<1> DEFINE f == [j \in DOMAIN bs |->
                   IF j \in ks /\ bs[j].pool = p THEN bs[j].items[a] ELSE 0]
           g == [j \in DOMAIN cs |->
                   IF j \in ks /\ cs[j].pool = p THEN cs[j].items[a] ELSE 0]
           n == Len(bs)
<1>1. n \in Nat /\ DOMAIN bs = 1..n /\ DOMAIN cs = 1..n /\ Len(cs) = n
  BY DEF SameAmounts
<1>2. SumIn(bs, p, a, ks) = RunningTotal(f, n) /\ SumIn(cs, p, a, ks) = RunningTotal(g, n)
  BY <1>1 DEF SumIn
<1>3. \A j \in 1..n : g[j] = f[j]
  BY <1>1 DEF SameAmounts
<1> HIDE DEF f, g, n
<1> QED BY <1>1, <1>2, <1>3, RunningTotalSame

-----------------------------------------------------------------------------
(* The ledger as the mapping sees it.                                      *)

Held      == LiveBatches \ broadcast
Reserved  == [p \in Pools |-> [a \in Addrs |-> InBatches(p, a, Held)]]
PaidOut   == [p \in Pools |-> [a \in Addrs |-> Paid(p, a)]]
LedgerVar == <<DOMAIN settlements, balances, Reserved, PaidOut>>

LEMMA LedgerTotal ==
  ASSUME NEW f, NEW n
  PROVE  Ledger!RunningTotal(f, n) = RunningTotal(f, n)
BY DEF Ledger!RunningTotal, RunningTotal

LEMMA LedgerSingle ==
  ASSUME NEW x
  PROVE  Ledger!Cardinality({x}) = 1
<1>1. Ledger!Cardinality({x}) = Cardinality({x})
  BY DEF Ledger!Cardinality, Cardinality
<1> QED BY <1>1, FS_Singleton

(* Amounts that differ for one pool.                                       *)
LEMMA OnePoolChanges ==
  ASSUME NEW p \in Pools, NEW f, f = [q \in Pools |-> [a \in Addrs |-> f[q][a]]],
         NEW g, g = [q \in Pools |-> [a \in Addrs |-> g[q][a]]],
         NEW h, \A q \in Pools, a \in Addrs : g[q][a] = IF q = p THEN h[a] ELSE f[q][a]
  PROVE  g = [f EXCEPT ![p] = [a \in Addrs |-> h[a]]]
<1> DEFINE e == [f EXCEPT ![p] = [a \in Addrs |-> h[a]]]
<1>1. DOMAIN f = Pools /\ DOMAIN g = Pools /\ DOMAIN e = Pools
  OBVIOUS
<1>2. ASSUME NEW q \in Pools PROVE g[q] = e[q]
  <2>1. f[q] = [a \in Addrs |-> f[q][a]] /\ g[q] = [a \in Addrs |-> g[q][a]]
    OBVIOUS
  <2>2. e[q] = IF q = p THEN [a \in Addrs |-> h[a]] ELSE f[q]
    BY <1>1
  <2> QED BY <2>1, <2>2
<1>3. g = [q \in Pools |-> g[q]] /\ e = [q \in Pools |-> e[q]]
  BY <1>1
<1> QED BY <1>2, <1>3

LEMMA SumsOfBatches ==
  ASSUME TypeOK
  PROVE  /\ \A p \in Pools, a \in Addrs :
              /\ Reserved[p][a] = SumIn(batches, p, a, Held) /\ Reserved[p][a] \in Nat
              /\ PaidOut[p][a] = SumIn(batches, p, a, broadcast) /\ PaidOut[p][a] \in Nat
         /\ Reserved \in [Pools -> [Addrs -> Nat]] /\ PaidOut \in [Pools -> [Addrs -> Nat]]
<1>1. batches \in Seq(Batch)
  BY BatchesType
<1>2. ASSUME NEW p \in Pools, NEW a \in Addrs
      PROVE  /\ Reserved[p][a] = SumIn(batches, p, a, Held) /\ Reserved[p][a] \in Nat
             /\ PaidOut[p][a] = SumIn(batches, p, a, broadcast) /\ PaidOut[p][a] \in Nat
  <2>1. Reserved[p][a] = SumIn(batches, p, a, Held)
    BY DEF Reserved, InBatches, SumIn
  <2>2. PaidOut[p][a] = SumIn(batches, p, a, broadcast)
    BY DEF PaidOut, Paid, InBatches, SumIn
  <2> QED BY <1>1, <2>1, <2>2, SumHolds
<1>3. \A p \in Pools : /\ Reserved[p] = [a \in Addrs |-> Reserved[p][a]]
                       /\ PaidOut[p] = [a \in Addrs |-> PaidOut[p][a]]
  BY DEF Reserved, PaidOut
<1>4. /\ Reserved = [p \in Pools |-> Reserved[p]]
      /\ PaidOut = [p \in Pools |-> PaidOut[p]]
  BY DEF Reserved, PaidOut
<1>5. \A p \in Pools : Reserved[p] \in [Addrs -> Nat] /\ PaidOut[p] \in [Addrs -> Nat]
  <2> HIDE DEF Reserved, PaidOut
  <2> QED BY <1>2, <1>3
<1> HIDE DEF Reserved, PaidOut
<1> QED BY <1>2, <1>4, <1>5

(* The actions of the ledger in these terms.                               *)
LEMMA IsCredit ==
  ASSUME NEW p \in Pools, NEW credit \in [Addrs -> 0..MinerRewardSat], NEW b,
         RunningTotal(credit, NumAddrs) = MinerRewardSat,
         balances' = [balances EXCEPT ![p] = [a \in Addrs |-> @[a] + credit[a]]],
         b \notin DOMAIN settlements, DOMAIN settlements' = DOMAIN settlements \cup {b},
         Reserved' = Reserved, PaidOut' = PaidOut
  PROVE  Ledger!Credit(p)
<1>1. (DOMAIN settlements)' \ DOMAIN settlements = {b}
  OBVIOUS
<1>2. Ledger!Cardinality((DOMAIN settlements)' \ DOMAIN settlements) = 1
  BY <1>1, LedgerSingle
<1>3. Ledger!RunningTotal(credit, NumAddrs) = MinerRewardSat
  BY LedgerTotal
<1>4. DOMAIN settlements \subseteq (DOMAIN settlements)'
  OBVIOUS
<1>5. balances' = [balances EXCEPT ![p] = Ledger!Plus(@, credit)]
  BY DEF Ledger!Plus, Ledger!Addrs, Addrs
<1>6. credit \in [Ledger!Addrs -> 0..MinerRewardSat]
  BY DEF Ledger!Addrs, Addrs
<1>7. UNCHANGED <<Reserved, PaidOut>>
  OBVIOUS
<1>8. \E c \in [Ledger!Addrs -> 0..MinerRewardSat] :
        /\ Ledger!RunningTotal(c, NumAddrs) = MinerRewardSat
        /\ balances' = [balances EXCEPT ![p] = Ledger!Plus(@, c)]
  BY <1>3, <1>5, <1>6
<1> QED BY <1>2, <1>4, <1>7, <1>8 DEF Ledger!Credit, Reserved, PaidOut, Held

LEMMA IsReserve ==
  ASSUME NEW p \in Pools, NEW items \in [Addrs -> Nat],
         \A a \in Addrs : items[a] \in {0, balances[p][a]} /\ items[a] <= balances[p][a],
         balances' = [balances EXCEPT ![p] = [a \in Addrs |-> @[a] - items[a]]],
         Reserved' = [Reserved EXCEPT ![p] = [a \in Addrs |-> @[a] + items[a]]],
         DOMAIN settlements' = DOMAIN settlements, PaidOut' = PaidOut
  PROVE  Ledger!Reserve(p)
<1>1. items \in [Addrs -> {0} \cup {balances[p][a] : a \in Addrs}]
  OBVIOUS
<1> QED BY <1>1
        DEF Ledger!Reserve, Ledger!Plus, Ledger!Minus, Ledger!AtMost, Ledger!Addrs, Addrs,
            Reserved, PaidOut, Held

(* What a pool's batches hold for an address is part of what they hold.    *)
LEMMA PartOfReserved ==
  ASSUME TypeOK, NEW p \in Pools, NEW items \in [Addrs -> Nat],
         \A a \in Addrs : items[a] <= Reserved[p][a]
  PROVE  items \in [Addrs -> 0..Ledger!RunningTotal(Reserved[p], NumAddrs)]
<1> DEFINE r == Reserved[p]
<1>1. r \in [Addrs -> Nat]
  BY SumsOfBatches
<1> HIDE DEF r
<1>2. \A a \in 1..NumAddrs : r[a] \in Nat
  BY <1>1 DEF Addrs
<1>3. /\ RunningTotal(r, NumAddrs) \in Nat
      /\ \A a \in 1..NumAddrs : r[a] <= RunningTotal(r, NumAddrs)
  BY <1>2, NumAddrsAssumption, RunningTotalNat
<1>4. \A a \in 1..NumAddrs : items[a] <= r[a]
  BY DEF r, Addrs
<1>5. \A a \in 1..NumAddrs : items[a] \in 0..RunningTotal(r, NumAddrs)
  BY <1>2, <1>3, <1>4 DEF Addrs
<1>6. Ledger!RunningTotal(r, NumAddrs) = RunningTotal(r, NumAddrs)
  BY LedgerTotal
<1> QED BY <1>5, <1>6 DEF r, Addrs

LEMMA IsPay ==
  ASSUME TypeOK, NEW p \in Pools, NEW items \in [Addrs -> Nat],
         \A a \in Addrs : items[a] <= Reserved[p][a],
         Reserved' = [Reserved EXCEPT ![p] = [a \in Addrs |-> @[a] - items[a]]],
         PaidOut' = [PaidOut EXCEPT ![p] = [a \in Addrs |-> @[a] + items[a]]],
         DOMAIN settlements' = DOMAIN settlements, balances' = balances
  PROVE  Ledger!Pay(p)
<1>1. items \in [Addrs -> 0..Ledger!RunningTotal(Reserved[p], NumAddrs)]
  BY PartOfReserved
<1> QED BY <1>1
        DEF Ledger!Pay, Ledger!Plus, Ledger!Minus, Ledger!AtMost, Ledger!Addrs, Addrs,
            Reserved, PaidOut, Held

-----------------------------------------------------------------------------
(* The steps of the engines. *)

(* Where the tables of the ledger stay as they are, so does the ledger.    *)
LEMMA QuietStep ==
  ASSUME UNCHANGED <<settlements, balances, batches, broadcast>>
  PROVE  UNCHANGED LedgerVar
BY DEF LedgerVar, Reserved, PaidOut, Held, LiveBatches, InBatches, Paid

(* A settlement credits the reward of one block more. *)
LEMMA SettleStep ==
  ASSUME TypeInv, NEW p \in Pools, SettleBlock(p)
  PROVE  Ledger!Credit(p)
<1>1. PICK b \in Unsettled(p), prev \in 0..Len(shares) :
        /\ CanSettle(p, b, prev)
        /\ balances' = [balances EXCEPT ![p] = [a \in Addrs |-> @[a] + CreditOf(p, b, prev)[a]]]
        /\ settlements' = [c \in DOMAIN settlements \cup {b} |->
                             IF c = b THEN [start |-> prev + 1, credit |-> CreditOf(p, b, prev)]
                             ELSE settlements[c]]
  BY DEF SettleBlock
<1> DEFINE credit == CreditOf(p, b, prev)
<1>2. b \in DOMAIN shares /\ b \notin DOMAIN settlements /\ TypeOK
  BY DEF Unsettled, TypeInv, TypeOK
<1>3. credit \in [Addrs -> 0..MinerRewardSat] /\ RunningTotal(credit, NumAddrs) = MinerRewardSat
  BY <1>1, <1>2, CreditIsReward
<1>4. Reserved' = Reserved /\ PaidOut' = PaidOut
  BY DEF SettleBlock, world, Reserved, PaidOut, Held, LiveBatches, InBatches, Paid
<1>5. /\ balances' = [balances EXCEPT ![p] = [a \in Addrs |-> @[a] + credit[a]]]
      /\ DOMAIN settlements' = DOMAIN settlements \cup {b}
  BY <1>1
<1> HIDE DEF credit
<1> QED BY <1>2, <1>3, <1>4, <1>5, IsCredit

(* A new batch holds what is taken from the balances. *)
LEMMA ReserveStep ==
  ASSUME TypeInv, TypeOK', NEW p \in Pools, ReserveBatch(p)
  PROVE  Ledger!Reserve(p)
<1> DEFINE items == [a \in Addrs |-> IF a \in Due(p) THEN balances[p][a] ELSE 0]
           batch == [pool |-> p, status |-> "pending", items |-> items]
           n == Len(batches)
<1>1. /\ batches' = Append(batches, batch)
      /\ balances' = [balances EXCEPT ![p] = [a \in Addrs |-> balances[p][a] - items[a]]]
      /\ UNCHANGED <<settlements, broadcast>>
  BY DEF ReserveBatch, Debited, world
<1>2. /\ TypeOK /\ batches \in Seq(Batch) /\ n \in Nat /\ DOMAIN batches = 1..n
      /\ broadcast \subseteq 1..n
  BY BatchesType DEF TypeInv, TypeOK
<1>3. /\ items \in [Addrs -> Nat]
      /\ \A a \in Addrs : items[a] \in {0, balances[p][a]} /\ items[a] <= balances[p][a]
  BY <1>2 DEF TypeOK
<1>4. /\ batch \in Batch
      /\ batch.pool = p /\ batch.status = "pending" /\ batch.items = items
  BY <1>3 DEF Batch
<1> HIDE DEF items, batch, n
<1>5. /\ DOMAIN batches' = 1..(n + 1) /\ batches'[n + 1] = batch
      /\ \A k \in 1..n : batches'[k] = batches[k]
  BY <1>1, <1>2, <1>4 DEF n
<1>6. /\ \A k \in 1..n : k \in Held <=> k \in Held'
      /\ n + 1 \in Held'
  BY <1>1, <1>2, <1>4, <1>5 DEF Held, LiveBatches
<1>7. ASSUME NEW q \in Pools, NEW a \in Addrs
      PROVE  /\ Reserved'[q][a] = Reserved[q][a] + IF q = p THEN items[a] ELSE 0
             /\ PaidOut'[q][a] = PaidOut[q][a]
  <2>1. /\ Reserved'[q][a] = SumIn(batches', q, a, Held')
        /\ PaidOut'[q][a] = SumIn(batches', q, a, broadcast')
    BY DEF Reserved, PaidOut, Paid, InBatches, SumIn
  <2>2. /\ Reserved[q][a] = SumIn(batches, q, a, Held)
        /\ PaidOut[q][a] = SumIn(batches, q, a, broadcast) /\ PaidOut[q][a] \in Nat
    BY <1>2, SumsOfBatches
  <2>3. SumIn(batches', q, a, Held')
          = SumIn(batches, q, a, Held) + IF n + 1 \in Held' /\ batch.pool = q THEN batch.items[a] ELSE 0
    BY <1>1, <1>2, <1>4, <1>6, SumAppended DEF n
  <2>4. SumIn(batches', q, a, broadcast')
          = SumIn(batches, q, a, broadcast) + IF n + 1 \in broadcast /\ batch.pool = q THEN batch.items[a] ELSE 0
    BY <1>1, <1>2, <1>4, SumAppended DEF n
  <2>5. n + 1 \notin broadcast
    BY <1>2
  <2> QED BY <1>4, <1>6, <2>1, <2>2, <2>3, <2>4, <2>5
<1>8. /\ Reserved' = [Reserved EXCEPT ![p] = [a \in Addrs |-> @[a] + items[a]]]
      /\ PaidOut' = PaidOut
  <2>1. /\ Reserved' = [q \in Pools |-> [a \in Addrs |-> Reserved'[q][a]]]
        /\ Reserved = [q \in Pools |-> [a \in Addrs |-> Reserved[q][a]]]
        /\ PaidOut' = [q \in Pools |-> [a \in Addrs |-> PaidOut'[q][a]]]
        /\ PaidOut = [q \in Pools |-> [a \in Addrs |-> PaidOut[q][a]]]
    BY DEF Reserved, PaidOut
  <2>2. PaidOut' = PaidOut
    BY <1>7, <2>1
  <2> DEFINE h == [a \in Addrs |-> Reserved[p][a] + items[a]]
  <2>3. \A q \in Pools, a \in Addrs :
          Reserved'[q][a] = IF q = p THEN h[a] ELSE Reserved[q][a]
    <3> SUFFICES ASSUME NEW q \in Pools, NEW a \in Addrs
                 PROVE  Reserved'[q][a] = IF q = p THEN h[a] ELSE Reserved[q][a]
      OBVIOUS
    <3>1. Reserved[q][a] \in Nat
      BY <1>2, SumsOfBatches
    <3> QED BY <1>7, <3>1
  <2>4. [a \in Addrs |-> h[a]] = [a \in Addrs |-> Reserved[p][a] + items[a]]
    OBVIOUS
  <2> HIDE DEF h
  <2>5. Reserved' = [Reserved EXCEPT ![p] = [a \in Addrs |-> h[a]]]
    BY <2>1, <2>3, OnePoolChanges
  <2> QED BY <2>2, <2>4, <2>5
<1> QED BY <1>1, <1>3, <1>8, IsReserve

(* The maps, written out. *)
LEMMA MapsOpen ==
  /\ Reserved' = [q \in Pools |-> [a \in Addrs |-> Reserved'[q][a]]]
  /\ Reserved = [q \in Pools |-> [a \in Addrs |-> Reserved[q][a]]]
  /\ PaidOut' = [q \in Pools |-> [a \in Addrs |-> PaidOut'[q][a]]]
  /\ PaidOut = [q \in Pools |-> [a \in Addrs |-> PaidOut[q][a]]]
BY DEF Reserved, PaidOut

(* The sums of the batches after a step. *)
LEMMA SumsAfter ==
  ASSUME NEW q \in Pools, NEW a \in Addrs
  PROVE  /\ Reserved'[q][a] = SumIn(batches', q, a, Held')
         /\ PaidOut'[q][a] = SumIn(batches', q, a, broadcast')
BY DEF Reserved, PaidOut, Paid, InBatches, SumIn

(* A payment moves what its batch holds from the reserved to the paid. *)
LEMMA PayStep ==
  ASSUME TypeInv, PaidInv, NEW p \in Pools, SendManyPays(p)
  PROVE  Ledger!Pay(p)
<1> DEFINE k == batchID[p]
           items == batches[k].items
<1>1. /\ TypeOK /\ batches \in Seq(Batch) /\ k \in DOMAIN batches
      /\ batches[k].pool = p /\ batches[k].status = "pending" /\ items \in [Addrs -> Nat]
      /\ k \notin broadcast
  BY BatchesType DEF TypeInv, SendingInv, PaidInv, SendManyPays
<1>2. broadcast' = broadcast \cup {k} /\ UNCHANGED <<batches, balances, settlements>>
  BY DEF SendManyPays, tables
<1> HIDE DEF k
<1>3. Held' = Held \ {k} /\ k \in Held
  BY <1>1, <1>2 DEF Held, LiveBatches
<1>4. ASSUME NEW q \in Pools, NEW a \in Addrs
      PROVE  /\ Reserved'[q][a] = IF q = p THEN Reserved[p][a] - items[a] ELSE Reserved[q][a]
             /\ PaidOut'[q][a] = IF q = p THEN PaidOut[p][a] + items[a] ELSE PaidOut[q][a]
  <2>1. /\ SumIn(batches, q, a, Held) = SumIn(batches, q, a, Held') + Amount(batches, q, a, k)
        /\ SumIn(batches, q, a, broadcast')
             = SumIn(batches, q, a, broadcast) + Amount(batches, q, a, k)
    <3>1. /\ SameAmounts(batches, batches)
          /\ OneMore(batches, k, Held', Held) /\ OneMore(batches, k, broadcast, broadcast')
      BY <1>1, <1>2, <1>3 DEF SameAmounts, OneMore
    <3>2. batches \in Seq(Batch) /\ k \in DOMAIN batches
      BY <1>1
    <3> QED BY <3>1, <3>2, SumMoved
  <2>2. /\ Reserved'[q][a] = SumIn(batches, q, a, Held')
        /\ PaidOut'[q][a] = SumIn(batches, q, a, broadcast')
    BY <1>2, SumsAfter
  <2>3. /\ SumIn(batches, q, a, Held') \in Nat /\ SumIn(batches, q, a, broadcast) \in Nat
        /\ items[a] \in Nat
    BY <1>1, SumHolds
  <2>4. /\ Reserved[q][a] = SumIn(batches, q, a, Held)
        /\ PaidOut[q][a] = SumIn(batches, q, a, broadcast)
    BY <1>1, SumsOfBatches
  <2> HIDE DEF items
  <2>5. Amount(batches, q, a, k) = IF q = p THEN items[a] ELSE 0
    BY <1>1 DEF Amount, items
  <2> QED BY <2>1, <2>2, <2>3, <2>4, <2>5
<1>5. ASSUME NEW a \in Addrs PROVE items[a] <= Reserved[p][a]
  <2>1. batches[k].items[a] <= SumIn(batches, p, a, Held)
    BY <1>1, <1>3, SumHolds
  <2>2. Reserved[p][a] = SumIn(batches, p, a, Held)
    BY <1>1, SumsOfBatches
  <2> QED BY <2>1, <2>2
<1> HIDE DEF items
<1>6. Reserved' = [Reserved EXCEPT ![p] = [a \in Addrs |-> @[a] - items[a]]]
  <2> DEFINE h == [a \in Addrs |-> Reserved[p][a] - items[a]]
  <2>1. \A q \in Pools, a \in Addrs : Reserved'[q][a] = IF q = p THEN h[a] ELSE Reserved[q][a]
    BY <1>4
  <2>2. h = [a \in Addrs |-> h[a]]
    OBVIOUS
  <2> HIDE DEF h
  <2>3. Reserved' = [Reserved EXCEPT ![p] = [a \in Addrs |-> h[a]]]
    BY <2>1, MapsOpen, OnePoolChanges
  <2> QED BY <2>2, <2>3 DEF h
<1>7. PaidOut' = [PaidOut EXCEPT ![p] = [a \in Addrs |-> @[a] + items[a]]]
  <2> DEFINE h == [a \in Addrs |-> PaidOut[p][a] + items[a]]
  <2>1. \A q \in Pools, a \in Addrs : PaidOut'[q][a] = IF q = p THEN h[a] ELSE PaidOut[q][a]
    BY <1>4
  <2>2. h = [a \in Addrs |-> h[a]]
    OBVIOUS
  <2> HIDE DEF h
  <2>3. PaidOut' = [PaidOut EXCEPT ![p] = [a \in Addrs |-> h[a]]]
    BY <2>1, MapsOpen, OnePoolChanges
  <2> QED BY <2>2, <2>3 DEF h
<1> QED BY <1>1, <1>2, <1>5, <1>6, <1>7, IsPay

(* Marking a batch sent changes its status only. *)
LEMMA MarkStep ==
  ASSUME TypeInv, NEW p \in Pools, MarkBatchSent(p)
  PROVE  UNCHANGED LedgerVar
<1> DEFINE k == batchID[p]
<1>1. /\ TypeOK /\ batches \in Seq(Batch) /\ k \in DOMAIN batches /\ batches[k].status = "pending"
      /\ batches' = [batches EXCEPT ![k].status = "sent"]
      /\ UNCHANGED <<balances, settlements, broadcast>>
  BY BatchesType DEF TypeInv, SendingInv, MarkBatchSent, SetStatus, world
<1>2. /\ batches' \in Seq(Batch) /\ Len(batches') = Len(batches) /\ DOMAIN batches' = DOMAIN batches
      /\ \A j \in DOMAIN batches :
           /\ batches'[j].pool = batches[j].pool /\ batches'[j].items = batches[j].items
           /\ batches'[j].status = IF j = k THEN "sent" ELSE batches[j].status
  BY <1>1, StatusChange
<1> HIDE DEF k
<1>3. Held' = Held
  BY <1>1, <1>2 DEF Held, LiveBatches
<1>4. \A q \in Pools, a \in Addrs :
        Reserved'[q][a] = Reserved[q][a] /\ PaidOut'[q][a] = PaidOut[q][a]
  <2> SUFFICES ASSUME NEW q \in Pools, NEW a \in Addrs
               PROVE  Reserved'[q][a] = Reserved[q][a] /\ PaidOut'[q][a] = PaidOut[q][a]
    OBVIOUS
  <2>1. \A ks : SumIn(batches', q, a, ks) = SumIn(batches, q, a, ks)
    <3>1. SameAmounts(batches, batches')
      BY <1>2 DEF SameAmounts
    <3>2. batches \in Seq(Batch) /\ batches' \in Seq(Batch)
      BY <1>1, <1>2
    <3> QED BY <3>1, <3>2, SumKept
  <2>2. /\ Reserved'[q][a] = SumIn(batches', q, a, Held')
        /\ PaidOut'[q][a] = SumIn(batches', q, a, broadcast')
    BY SumsAfter
  <2>3. /\ Reserved[q][a] = SumIn(batches, q, a, Held)
        /\ PaidOut[q][a] = SumIn(batches, q, a, broadcast)
    BY <1>1, SumsOfBatches
  <2> QED BY <1>1, <1>3, <2>1, <2>2, <2>3
<1>5. Reserved' = Reserved /\ PaidOut' = PaidOut
  BY <1>4, MapsOpen
<1> QED BY <1>1, <1>5 DEF LedgerVar

(* Every step is one of the ledger's, or none.                             *)
LEMMA LedgerStep ==
  ASSUME TypeInv, PaidInv, [Next]_vars
  PROVE  [Ledger!Next]_(Ledger!ledger)
<1>0. UNCHANGED LedgerVar => UNCHANGED Ledger!ledger
  BY DEF Ledger!ledger, LedgerVar, Reserved, PaidOut, Held
<1>1. TypeOK'
  BY TypeNext DEF TypeInv
<1>2. ASSUME NEW p \in Pools, SettleBlock(p) PROVE Ledger!Next
  BY <1>2, SettleStep DEF Ledger!Next
<1>3. ASSUME NEW p \in Pools, ReserveBatch(p) PROVE Ledger!Next
  BY <1>1, <1>3, ReserveStep DEF Ledger!Next
<1>4. ASSUME NEW p \in Pools, SendManyPays(p) PROVE Ledger!Next
  BY <1>4, PayStep DEF Ledger!Next
<1>5. ASSUME NEW p \in Pools, MarkBatchSent(p) PROVE UNCHANGED LedgerVar
  BY <1>5, MarkStep
<1>6. CASE UNCHANGED <<settlements, balances, batches, broadcast>>
  <2>1. UNCHANGED LedgerVar
    BY <1>6, QuietStep
  <2> QED BY <1>0, <2>1
<1> QED
  BY <1>0, <1>2, <1>3, <1>4, <1>5, <1>6
  DEF Next, Cycle, RecordShare, ChainMoves, InsertBlockStates, LoadBlockStates,
      LookupBlockConfirmations, LookupFails, UpdateBlockState, SettleFails, NothingToSettle,
      NothingDue, SendManyFails, RefundBatch, Abandon, tables, world, vars

(* The empty database is the ledger's initial state. *)
LEMMA LedgerStart == Init => Ledger!Init
<1> SUFFICES ASSUME Init PROVE Ledger!Init
  OBVIOUS
<1>1. /\ DOMAIN settlements = {} /\ Len(batches) = 0
      /\ balances = [p \in Pools |-> [a \in Addrs |-> 0]]
  BY DEF Init
<1>2. \A ks : \A p \in Pools, a \in Addrs : InBatches(p, a, ks) = 0
  BY <1>1, RunningTotalStep DEF InBatches
<1>3. /\ Reserved = [p \in Pools |-> [a \in Addrs |-> 0]]
      /\ PaidOut = [p \in Pools |-> [a \in Addrs |-> 0]]
  BY <1>2 DEF Reserved, PaidOut, Paid
<1> QED BY <1>1, <1>3
        DEF Ledger!Init, Ledger!Nothing, Ledger!Addrs, Addrs, Reserved, PaidOut, Held

(* Whatever fails, and for every set of pools, every reward and any number *)
(* of miners, the engines do to the money only what PayoutLedger allows:   *)
(* credit a block once, set aside what is owed, pay what is set aside.     *)
THEOREM EnginesKeepLedger == Spec => ImplementsLedger
<1>1. Init => TypeInv /\ PaidInv
  BY TypeInit DEF Init, PaidInv
<1>2. TypeInv /\ PaidInv /\ [Next]_vars => (TypeInv /\ PaidInv)'
  BY TypeNext, PaidNext
<1>3. TypeInv /\ PaidInv /\ [Next]_vars => [Ledger!Next]_(Ledger!ledger)
  BY LedgerStep
<1> QED BY <1>1, <1>2, <1>3, LedgerStart, PTL DEF Spec, ImplementsLedger, Ledger!Spec
=============================================================================
