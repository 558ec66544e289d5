--------------------------- MODULE VardiffProofs ----------------------------
(***************************************************************************)
(* Proofs about Vardiff: for every configuration, every grid, any sequence *)
(* of requests any times apart.                                            *)
(*                                                                         *)
(* The difficulty of an authorized connection is one that clampDiff        *)
(* leaves alone, and what retarget replaced is as old as the adjustment    *)
(* that replaced it, hence gone when the next one is due.                  *)
(***************************************************************************)
EXTENDS Vardiff, TLAPS, FiniteSetTheorems

(* what clampDiff leaves alone *)
Allowed(v) ==
  /\ v \in Nat \ {0}
  /\ cfg.Max > 0 => v <= cfg.Max
  /\ cfg.Min > 0 => v >= cfg.Min \/ v = cfg.Max

(* an authorized connection has such a difficulty, and only it is retargeted *)
Assigned == authorized => Allowed(diff) /\ told = diff

(* what was replaced is as old as the last adjustment *)
ReplacedThen == \A s \in superseded : authorized /\ s.age = lastAdjust

IInv == TypeOK /\ Assigned /\ ReplacedThen /\ CreditIsNear

-----------------------------------------------------------------------------
(* The times are positive, whether or not the configuration sets them.     *)
LEMMA TimesType ==
  ASSUME cfg \in Cfgs
  PROVE  /\ cfg \in DifficultyCfg
         /\ Target \in Nat \ {0} /\ Interval \in Nat \ {0}
<1>1. cfg \in DifficultyCfg
  BY CfgsAssumption
<1> QED BY <1>1 DEF DifficultyCfg, Target, Interval

(* clampDiff ends within the limits that are set.                          *)
LEMMA ClampAllows ==
  ASSUME cfg \in Cfgs, NEW v \in Int
  PROVE  Allowed(ClampDiff(v))
<1>1. cfg.Min \in Int /\ cfg.Max \in Int
  BY TimesType DEF DifficultyCfg
<1> QED BY <1>1, GridAssumption DEF ClampDiff, Allowed

(* What is within the limits stays as it is.                               *)
LEMMA ClampKeeps ==
  ASSUME cfg \in Cfgs, NEW v, Allowed(v)
  PROVE  ClampDiff(v) = v
<1>1. cfg.Min \in Int /\ cfg.Max \in Int
  BY TimesType DEF DifficultyCfg
<1> QED BY <1>1 DEF ClampDiff, Allowed

Near(v, d) == v <= 4 * d /\ d < 4 * (v + 1)

(* Cutting at the limits brings a value no further from one within them.   *)
LEMMA ClampStaysNear ==
  ASSUME cfg \in Cfgs, NEW v \in Nat \ {0}, NEW d, Allowed(d), Near(v, d)
  PROVE  Near(ClampDiff(v), d)
<1>1. cfg.Min \in Int /\ cfg.Max \in Int
  BY TimesType DEF DifficultyCfg
<1> QED BY <1>1 DEF ClampDiff, Allowed, Near

(* Integer division, rounding down. *)
LEMMA Floor ==
  ASSUME NEW x \in Nat, NEW d \in Nat \ {0}
  PROVE  /\ x \div d \in Nat
         /\ d * (x \div d) <= x
         /\ x < d * ((x \div d) + 1)
<1>1. x \div d \in Nat /\ x % d \in 0..(d - 1)
  OBVIOUS
<1>2. x = d * (x \div d) + (x % d)
  OBVIOUS
<1>3. d * ((x \div d) + 1) = d * (x \div d) + d
  BY <1>1
<1>4. d * (x \div d) \in Int
  BY <1>1
<1> QED BY <1>1, <1>2, <1>3, <1>4

(* A product of the difficulty with a factor between a quarter and four,   *)
(* written x / i, is that near to it.                                      *)
LEMMA QuotientNear ==
  ASSUME NEW d \in Nat \ {0}, NEW x \in Nat, NEW i \in Nat \ {0},
         i <= 4 * x, x <= 4 * i
  PROVE  LET q == (d * x) \div i IN q \in Nat /\ q <= 4 * d /\ d < 4 * (q + 1)
<1> DEFINE q == (d * x) \div i
<1>1. d * x \in Nat
  OBVIOUS
<1>2. q \in Nat /\ i * q <= d * x /\ d * x < i * (q + 1)
  <2> HIDE DEF q
  <2>1. \A p \in Nat : p \div i \in Nat /\ i * (p \div i) <= p /\ p < i * ((p \div i) + 1)
    BY Floor
  <2> QED BY <1>1, <2>1 DEF q
<1> HIDE DEF q
<1>3. q <= 4 * d
  <2> SUFFICES ASSUME q >= 4 * d + 1 PROVE FALSE
    BY <1>2
  <2>1. d * x <= d * (4 * i)
    OBVIOUS
  <2>2. i * q >= i * (4 * d + 1)
    BY <1>2
  <2>3. i * (4 * d + 1) = d * (4 * i) + i
    OBVIOUS
  <2> QED BY <1>1, <1>2, <2>1, <2>2, <2>3
<1>4. d < 4 * (q + 1)
  <2> SUFFICES ASSUME d >= 4 * (q + 1) PROVE FALSE
    BY <1>2
  <2>1. d * i <= d * (4 * x)
    OBVIOUS
  <2>2. d * (4 * x) = 4 * (d * x)
    OBVIOUS
  <2>3. d * i >= (4 * (q + 1)) * i
    BY <1>2
  <2>4. (4 * (q + 1)) * i = 4 * (i * (q + 1))
    BY <1>2
  <2> QED BY <1>1, <1>2, <2>1, <2>2, <2>3, <2>4
<1> QED BY <1>2, <1>3, <1>4 DEF q

(* What retarget computes before it cuts at the limits is at most four     *)
(* times the difficulty and at least a quarter of it.                      *)
LEMMA AdjustedNear ==
  ASSUME cfg \in Cfgs, diff \in Nat \ {0}, NEW n \in Nat
  PROVE  Adjusted(n) \in Nat \ {0} /\ Near(Adjusted(n), diff)
<1>1. Target \in Nat \ {0} /\ Interval \in Nat \ {0}
  BY TimesType
<1> DEFINE x == Target * n
<1>2. x \in Nat /\ 4 * Target * n = 4 * x /\ diff * Target * n = diff * x
  BY <1>1
<1>3. CASE x > 4 * Interval
  BY <1>1, <1>2, <1>3 DEF Adjusted, OnGrid, Near
<1>4. CASE 4 * x < Interval
  <2>1. Adjusted(n) = OnGrid(diff \div 4)
    BY <1>1, <1>2, <1>4 DEF Adjusted
  <2> QED BY <2>1 DEF OnGrid, Near
<1>5. CASE x <= 4 * Interval /\ Interval <= 4 * x
  <2> DEFINE q == (diff * x) \div Interval
  <2>1. Adjusted(n) = OnGrid(q)
    BY <1>1, <1>2, <1>5 DEF Adjusted
  <2>2. q \in Nat /\ q <= 4 * diff /\ diff < 4 * (q + 1)
    BY <1>1, <1>2, <1>5, QuotientNear
  <2> HIDE DEF q
  <2> QED BY <2>1, <2>2 DEF OnGrid, Near
<1> QED BY <1>1, <1>2, <1>3, <1>4, <1>5

(* The window is counted. *)
LEMMA RecentType ==
  ASSUME acceptedAt \in Seq(0..Interval)
  PROVE  Recent \in Nat
<1> DEFINE S == {i \in DOMAIN AcceptedNow : IsRecent(AcceptedNow[i])}
<1>1. DOMAIN AcceptedNow = 1..(Len(acceptedAt) + 1) /\ Len(acceptedAt) \in Nat
  BY DEF AcceptedNow
<1>2. IsFiniteSet(1..(Len(acceptedAt) + 1))
  BY <1>1, FS_Interval
<1>3. IsFiniteSet(S)
  BY <1>1, <1>2, FS_Subset
<1> QED BY <1>3, FS_CardinalityType DEF Recent

-----------------------------------------------------------------------------
(* A connection that was just accepted satisfies the invariant. *)
LEMMA InitInvariant == Init => IInv
<1> SUFFICES ASSUME Init PROVE IInv
  OBVIOUS
<1>1. cfg \in DifficultyCfg /\ Interval \in Nat \ {0}
  BY TimesType DEF Init
<1>2. /\ cfg \in Cfgs /\ ~authorized /\ diff = cfg.Start
      /\ acceptedAt = << >> /\ lastAdjust = Never /\ told = Never /\ superseded = {}
  BY DEF Init
<1>3. TypeOK
  <2>1. acceptedAt \in Seq(0..Interval) /\ Len(acceptedAt) <= MaxAccepted
    BY <1>2, BoundsAssumption
  <2>2. authorized \in BOOLEAN
    BY DEF Init
  <2>3. diff \in Int /\ told \in Int
    BY <1>1, <1>2 DEF DifficultyCfg, Never
  <2> QED BY <1>2, <2>1, <2>2, <2>3 DEF TypeOK
<1> QED BY <1>2, <1>3 DEF IInv, Assigned, ReplacedThen, CreditIsNear

(* Subscribing changes nothing but what was sent. *)
LEMMA SubscribeStep == IInv /\ HandleSubscribe => IInv'
<1> SUFFICES ASSUME IInv, HandleSubscribe PROVE IInv'
  OBVIOUS
<1>1. told' = diff /\ UNCHANGED <<cfg, authorized, diff, acceptedAt, lastAdjust, superseded>>
  BY DEF HandleSubscribe
<1>2. TypeOK'
  BY <1>1 DEF IInv, TypeOK, Interval
<1> QED BY <1>1, <1>2 DEF IInv, Assigned, Allowed, ReplacedThen, CreditIsNear, AssignedDiff

(* An authorization assigns what clampDiff returns, and sends it. *)
LEMMA AuthorizeStep ==
  ASSUME IInv, NEW kind \in Kinds, HandleAuthorize(kind)
  PROVE  IInv'
<1>1. /\ authorized' = TRUE /\ diff' = PickStartDiff(kind) /\ told' = diff'
      /\ superseded' = {} /\ UNCHANGED <<cfg, acceptedAt, lastAdjust>>
  BY DEF HandleAuthorize, Announce
<1>2. cfg \in Cfgs /\ cfg \in DifficultyCfg
  BY TimesType DEF IInv, TypeOK
<1>3. Allowed(diff')
  <2> DEFINE start == CASE kind = "gpu" -> IF cfg.GPUStart > 0 THEN cfg.GPUStart ELSE 10 * One
                        [] kind = "asic" /\ cfg.ASICStart > 0 -> cfg.ASICStart
                        [] OTHER -> cfg.Start
  <2>1. start \in Int
    BY <1>2, GridAssumption DEF DifficultyCfg, Kinds
  <2>2. diff' = ClampDiff(start)
    BY <1>1 DEF PickStartDiff
  <2> QED BY <1>2, <2>1, <2>2, ClampAllows
<1>4. TypeOK'
  BY <1>1, <1>3 DEF IInv, TypeOK, Interval, Allowed
<1> QED BY <1>1, <1>3, <1>4 DEF IInv, Assigned, Allowed, ReplacedThen, CreditIsNear

(* A share that is only counted. *)
LEMMA CountStep == IInv /\ (FirstShare \/ ShareCounted) => IInv'
<1> SUFFICES ASSUME IInv, FirstShare \/ ShareCounted PROVE IInv'
  OBVIOUS
<1>1. /\ acceptedAt' = Append(acceptedAt, 0) /\ Len(acceptedAt) < MaxAccepted
      /\ lastAdjust' = IF lastAdjust = Never THEN 0 ELSE lastAdjust
      /\ UNCHANGED <<cfg, authorized, diff, told, superseded>>
  BY DEF FirstShare, ShareCounted, Accepts, AcceptedNow
<1>2. Interval \in Nat \ {0}
  BY TimesType DEF IInv, TypeOK
<1>3. acceptedAt' \in Seq(0..Interval) /\ Len(acceptedAt') <= MaxAccepted
  BY <1>1, <1>2, BoundsAssumption DEF IInv, TypeOK
<1>4. TypeOK'
  BY <1>1, <1>2, <1>3 DEF IInv, TypeOK, Interval
<1>5. ReplacedThen'
  <2> SUFFICES ASSUME NEW s \in superseded PROVE authorized /\ s.age = lastAdjust'
    BY <1>1 DEF ReplacedThen
  <2>1. authorized /\ s.age = lastAdjust /\ s.age \in 0..(Interval - 1)
    BY DEF IInv, ReplacedThen, TypeOK
  <2> QED BY <1>1, <1>2, <2>1 DEF Never
<1> QED BY <1>1, <1>4, <1>5
        DEF IInv, Assigned, Allowed, CreditIsNear, AssignedDiff

(* A retarget finds nothing that was replaced less than an interval ago:   *)
(* its step is the only one that counts.                                   *)
LEMMA RetargetStep == IInv /\ Retarget => IInv'
<1> SUFFICES ASSUME IInv, Retarget PROVE IInv'
  OBVIOUS
<1> DEFINE new == ClampDiff(Adjusted(Recent))
<1>1. /\ authorized /\ lastAdjust >= Interval
      /\ acceptedAt' = << >> /\ lastAdjust' = 0 /\ UNCHANGED <<cfg, authorized>>
      /\ \/ UNCHANGED <<diff, told, superseded>>
         \/ /\ diff' = new /\ told' = new
            /\ superseded' = superseded \cup {[diff |-> diff, age |-> 0]}
  BY DEF Retarget, Accepts, IntervalOver
<1>2. cfg \in Cfgs /\ Interval \in Nat \ {0}
  BY TimesType DEF IInv, TypeOK
<1>3. superseded = {}
  <2> SUFFICES ASSUME NEW s \in superseded PROVE FALSE
    OBVIOUS
  <2>1. s.age = lastAdjust /\ s.age \in 0..(Interval - 1)
    BY DEF IInv, ReplacedThen, TypeOK
  <2> QED BY <1>1, <1>2, <2>1
<1>4. diff \in Nat \ {0} /\ Allowed(diff) /\ told = diff
  BY <1>1 DEF IInv, Assigned, Allowed
<1>5. Allowed(new) /\ Near(new, diff)
  <2>1. Recent \in Nat
    BY RecentType DEF IInv, TypeOK
  <2>2. Adjusted(Recent) \in Nat \ {0} /\ Near(Adjusted(Recent), diff)
    BY <1>2, <1>4, <2>1, AdjustedNear
  <2> QED BY <1>2, <1>4, <2>2, ClampAllows, ClampStaysNear
<1> HIDE DEF new
<1>6. Allowed(diff') /\ told' = diff' /\ diff' \in Nat \ {0}
  BY <1>1, <1>4, <1>5 DEF Allowed
<1>7. \A s \in superseded' : s = [diff |-> diff, age |-> 0] /\ diff' = new
  BY <1>1, <1>3
<1>8. TypeOK'
  <2>1. superseded' \subseteq [diff : Nat \ {0}, age : 0..(Interval - 1)]
    BY <1>2, <1>4, <1>7
  <2> QED BY <1>1, <1>2, <1>6, <2>1, BoundsAssumption DEF IInv, TypeOK, Interval
<1>9. Assigned'
  BY <1>1, <1>6 DEF Assigned, Allowed
<1>10. ReplacedThen'
  BY <1>1, <1>7 DEF ReplacedThen
<1>11. CreditIsNear'
  BY <1>5, <1>7 DEF CreditIsNear, AssignedDiff, Near
<1> QED BY <1>8, <1>9, <1>10, <1>11 DEF IInv

(* Time ages what was replaced and the last adjustment alike. *)
LEMMA PassStep ==
  ASSUME IInv, NEW seconds \in Pauses, Pass(seconds)
  PROVE  IInv'
<1>1. /\ acceptedAt' = [i \in DOMAIN acceptedAt |-> Older(acceptedAt[i], seconds)]
      /\ lastAdjust' = IF lastAdjust = Never THEN Never ELSE Older(lastAdjust, seconds)
      /\ superseded' = {[diff |-> s.diff, age |-> s.age + seconds] :
                          s \in {r \in superseded : r.age + seconds < Interval}}
      /\ UNCHANGED <<cfg, authorized, diff, told>>
  BY DEF Pass
<1>2. Interval \in Nat \ {0} /\ seconds \in Nat \ {0}
  BY TimesType, BoundsAssumption DEF IInv, TypeOK
<1>3. \A age \in 0..Interval : Older(age, seconds) \in 0..Interval
  BY <1>2 DEF Older
<1>4. acceptedAt' \in Seq(0..Interval) /\ Len(acceptedAt') = Len(acceptedAt)
  <2>1. acceptedAt \in Seq(0..Interval) /\ DOMAIN acceptedAt = 1..Len(acceptedAt)
    BY DEF IInv, TypeOK
  <2> DEFINE n == Len(acceptedAt)
             Aged(i) == Older(acceptedAt[i], seconds)
  <2>2. n \in Nat /\ \A i \in 1..n : Aged(i) \in 0..Interval
    <3>1. n \in Nat /\ \A i \in 1..n : acceptedAt[i] \in 0..Interval
      <4> DEFINE S == 0..Interval
      <4>1. acceptedAt \in Seq(S)
        BY <2>1
      <4> HIDE DEF S
      <4>2. n \in Nat /\ \A i \in 1..n : acceptedAt[i] \in S
        BY <4>1
      <4> QED BY <4>2 DEF S
    <3> QED BY <1>3, <3>1
  <2>3. acceptedAt' = [i \in 1..n |-> Aged(i)]
    BY <1>1, <2>1
  <2> HIDE DEF n, Aged
  <2>4. acceptedAt' \in Seq(0..Interval) /\ Len(acceptedAt') = n
    BY <2>2, <2>3
  <2> QED BY <2>4 DEF n
<1>5. \A s \in superseded' :
        \E r \in superseded : /\ r.age + seconds < Interval
                              /\ s = [diff |-> r.diff, age |-> r.age + seconds]
  BY <1>1
<1>6. \A r \in superseded : /\ r.diff \in Nat \ {0} /\ r.age \in 0..(Interval - 1)
                            /\ authorized /\ r.age = lastAdjust
                            /\ Near(diff, r.diff)
  BY DEF IInv, TypeOK, ReplacedThen, CreditIsNear, AssignedDiff, Near
<1>7. TypeOK'
  <2>1. superseded' \subseteq [diff : Nat \ {0}, age : 0..(Interval - 1)]
    BY <1>2, <1>5, <1>6
  <2>2. lastAdjust' \in {Never} \cup 0..Interval
    BY <1>1, <1>3 DEF IInv, TypeOK
  <2> QED BY <1>1, <1>4, <2>1, <2>2 DEF IInv, TypeOK, Interval
<1>8. ReplacedThen'
  BY <1>1, <1>2, <1>5, <1>6 DEF ReplacedThen, Older, Never
<1>9. CreditIsNear'
  BY <1>1, <1>5, <1>6 DEF CreditIsNear, AssignedDiff, Near
<1> QED BY <1>1, <1>7, <1>8, <1>9 DEF IInv, Assigned, Allowed

(* Every request, and the time between two, keeps the invariant. *)
LEMMA StepInvariant == IInv /\ [Next]_vars => IInv'
<1> SUFFICES ASSUME IInv, [Next]_vars PROVE IInv'
  OBVIOUS
<1>1. CASE UNCHANGED vars
  BY <1>1 DEF vars, IInv, TypeOK, Interval, Assigned, Allowed, ReplacedThen,
              CreditIsNear, AssignedDiff
<1>2. CASE Next
  BY <1>2, SubscribeStep, AuthorizeStep, CountStep, RetargetStep, PassStep DEF Next
<1> QED BY <1>1, <1>2

-----------------------------------------------------------------------------
(* What is assigned to an authorized connection was sent to it and is a    *)
(* difficulty the store takes, for every configuration.                    *)
THEOREM VardiffTyped == Spec => []TypeOK
<1>1. Spec => []IInv
  BY InitInvariant, StepInvariant, PTL DEF Spec
<1>2. IInv => TypeOK
  BY DEF IInv
<1> QED BY <1>1, <1>2, PTL

(* No sequence of authorizations and retargets leaves the limits that are  *)
(* set; where they contradict each other, Max holds.                       *)
THEOREM LimitsHold == Spec => []WithinLimits
<1>1. Spec => []IInv
  BY InitInvariant, StepInvariant, PTL DEF Spec
<1>2. IInv => WithinLimits
  BY DEF IInv, Assigned, Allowed, WithinLimits
<1> QED BY <1>1, <1>2, PTL

(* A share is always credited with the difficulty last sent to its miner.  *)
THEOREM CreditIsAnnounced == Spec => []CreditedAsAnnounced
<1>1. Spec => []IInv
  BY InitInvariant, StepInvariant, PTL DEF Spec
<1>2. IInv => CreditedAsAnnounced
  BY DEF IInv, Assigned, CreditedAsAnnounced, AssignedDiff
<1> QED BY <1>1, <1>2, PTL

(* A share found for a difficulty replaced by retarget less than an        *)
(* interval ago is credited within a factor of four of it.                 *)
THEOREM CreditStaysNear == Spec => []CreditIsNear
<1>1. Spec => []IInv
  BY InitInvariant, StepInvariant, PTL DEF Spec
<1>2. IInv => CreditIsNear
  BY DEF IInv
<1> QED BY <1>1, <1>2, PTL

(* The window of a miner that is on target holds as many shares as fit in  *)
(* an interval.                                                            *)
LEMMA OnTargetWindow ==
  ASSUME IInv, OnTarget
  PROVE  Target * Recent = Interval
<1>1. Target \in Nat \ {0} /\ Interval \in Nat \ {0}
  BY TimesType DEF IInv, TypeOK
<1> DEFINE k == Interval \div Target
           n == Len(AcceptedNow)
<1>2. k \in Nat /\ Interval = Target * k
  BY <1>1 DEF OnTarget
<1>3. n \in Nat /\ DOMAIN AcceptedNow = 1..n
  <2> DEFINE S == 0..Interval
  <2>1. acceptedAt \in Seq(S)
    BY DEF IInv, TypeOK
  <2> HIDE DEF S
  <2> QED BY <2>1 DEF AcceptedNow
<1>4. n * Target >= Interval /\ \A i \in 1..n : AcceptedNow[i] = (n - i) * Target
  BY DEF OnTarget
<1> HIDE DEF k, n
<1>5. k <= n
  <2> SUFFICES ASSUME k >= n + 1 PROVE FALSE
    BY <1>2, <1>3
  <2>1. Target * k >= Target * (n + 1) /\ Target * (n + 1) = n * Target + Target
    BY <1>1, <1>2, <1>3
  <2> QED BY <1>1, <1>2, <1>3, <1>4, <2>1
<1>6. ASSUME NEW j \in Nat PROVE j * Target < Target * k <=> j < k
  <2>1. CASE j < k
    <3>1. Target * (j + 1) <= Target * k /\ Target * (j + 1) = j * Target + Target
      BY <1>1, <1>2, <2>1
    <3> QED BY <1>1, <1>2, <2>1, <3>1
  <2>2. CASE j >= k
    <3>1. Target * k <= j * Target
      BY <1>1, <1>2, <2>2
    <3> QED BY <1>1, <1>2, <2>2, <3>1
  <2> QED BY <1>2, <2>1, <2>2
<1>7. \A i \in 1..n : IsRecent(AcceptedNow[i]) <=> n - i < k
  <2> SUFFICES ASSUME NEW i \in 1..n PROVE IsRecent(AcceptedNow[i]) <=> n - i < k
    OBVIOUS
  <2>1. n - i \in Nat
    BY <1>3
  <2> QED BY <1>2, <1>4, <1>6, <2>1 DEF IsRecent
<1>8. {i \in DOMAIN AcceptedNow : IsRecent(AcceptedNow[i])} = (n - k + 1)..n
  BY <1>2, <1>3, <1>5, <1>7
<1>9. Recent = k
  <2> DEFINE m == n - k + 1
  <2>1. m \in Int /\ n \in Int
    BY <1>2, <1>3
  <2>2. Cardinality(m..n) = IF m > n THEN 0 ELSE n - m + 1
    BY <2>1, FS_Interval, Zenon
  <2>3. Recent = Cardinality(m..n)
    BY <1>8 DEF Recent
  <2> QED BY <1>2, <1>3, <1>5, <2>2, <2>3
<1> QED BY <1>2, <1>9

(* A miner whose shares come exactly every Target seconds keeps its        *)
(* difficulty, where the interval is a multiple of that.                   *)
THEOREM OnTargetStays == Spec => OnTargetKeeps
<1>1. ASSUME IInv, Retarget, OnTarget PROVE diff' = diff
  <2>1. cfg \in Cfgs /\ Target \in Nat \ {0} /\ Interval \in Nat \ {0} /\ Recent \in Nat
    BY <1>1, TimesType, RecentType DEF IInv, TypeOK
  <2>2. diff \in Nat \ {0} /\ Allowed(diff)
    BY <1>1 DEF Retarget, Accepts, IInv, Assigned, Allowed
  <2>3. Target * Recent = Interval
    BY <1>1, OnTargetWindow
  <2>4. Adjusted(Recent) = diff
    <3>1. /\ 4 * Target * Recent = 4 * Interval
          /\ diff * Target * Recent = diff * Interval
      BY <2>1, <2>2, <2>3
    <3>2. (diff * Interval) \div Interval = diff
      BY <2>1, <2>2
    <3> QED BY <2>1, <2>2, <2>3, <3>1, <3>2 DEF Adjusted, OnGrid
  <2>5. ClampDiff(Adjusted(Recent)) = diff
    BY <2>1, <2>2, <2>4, ClampKeeps
  <2>6. IsSmall(diff)
    BY <2>2 DEF IsSmall
  <2> QED BY <1>1, <2>5, <2>6 DEF Retarget
<1>2. Spec => []IInv
  BY InitInvariant, StepInvariant, PTL DEF Spec
<1>3. IInv /\ [Next]_vars => [Retarget /\ OnTarget => diff' = diff]_vars
  BY <1>1
<1> QED BY <1>2, <1>3, PTL DEF Spec, OnTargetKeeps
=============================================================================
