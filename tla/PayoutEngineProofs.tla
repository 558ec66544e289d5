------------------------- MODULE PayoutEngineProofs -------------------------
(***************************************************************************)
(* What holds of the payout engines for every set of pools, every scheme,  *)
(* every reward and fee, any number of shares and failures.                *)
(***************************************************************************)
EXTENDS PayoutEngine, AllocationProofs, SequenceTheorems

(* The reward left to the miners is a natural number.                      *)
LEMMA MinerRewardType == MinerRewardSat \in Nat
BY MinerRewardRange, RewardAssumption, FeesAssumption DEF MinerRewardSat

-----------------------------------------------------------------------------
(* Typing.  An engine that is sending or finishing a batch holds the id of *)
(* a batch of its own pool that is still pending.                          *)

SendingInv ==
  \A p \in Pools :
    pc[p] \in {"send", "mark", "refund"} =>
      /\ batchID[p] \in DOMAIN batches
      /\ batches[batchID[p]].pool = p
      /\ batches[batchID[p]].status = "pending"

TypeInv == TypeOK /\ SendingInv

(* The shares are rows 1, 2, ... of their type.                            *)
LEMMA SharesType ==
  ASSUME TypeOK
  PROVE  /\ Len(shares) \in Nat /\ DOMAIN shares = 1..Len(shares)
         /\ \A s \in DOMAIN shares :
              /\ shares[s].pool \in Pools /\ shares[s].worker \in Workers
              /\ shares[s].diff \in Nat \ {0}
<1>1. shares \in Seq(Share)
  BY DEF TypeOK
<1>2. Len(shares) \in Nat /\ DOMAIN shares = 1..Len(shares)
  BY <1>1
<1>3. \A s \in DOMAIN shares : shares[s] \in Share
  BY <1>1, <1>2
<1> QED BY <1>2, <1>3, DiffsAssumption DEF Share

(* The batches are rows 1, 2, ... of their type.                           *)
LEMMA BatchesType ==
  ASSUME TypeOK
  PROVE  /\ batches \in Seq(Batch)
         /\ Len(batches) \in Nat /\ DOMAIN batches = 1..Len(batches)
         /\ \A k \in DOMAIN batches :
              /\ batches[k] \in Batch
              /\ batches[k].items \in [Addrs -> Nat]
<1>1. batches \in Seq(Batch)
  BY DEF TypeOK
<1>2. Len(batches) \in Nat /\ DOMAIN batches = 1..Len(batches)
  BY <1>1
<1>3. \A k \in DOMAIN batches : batches[k] \in Batch
  BY <1>1, <1>2
<1> QED BY <1>1, <1>2, <1>3 DEF Batch

(* Setting the status of one batch changes nothing else of the table.      *)
LEMMA StatusChange ==
  ASSUME TypeOK, NEW k \in DOMAIN batches, NEW status \in {"sent", "failed"},
         batches' = [batches EXCEPT ![k].status = status]
  PROVE  /\ batches' \in Seq(Batch)
         /\ Len(batches') = Len(batches) /\ DOMAIN batches' = DOMAIN batches
         /\ \A j \in DOMAIN batches :
              /\ batches'[j].pool = batches[j].pool
              /\ batches'[j].items = batches[j].items
              /\ batches'[j].status = IF j = k THEN status ELSE batches[j].status
<1>1. DOMAIN batches' = DOMAIN batches
  OBVIOUS
<1>2. \A j \in DOMAIN batches :
        batches'[j] = IF j = k THEN [batches[j] EXCEPT !.status = status] ELSE batches[j]
  OBVIOUS
<1>3. \A j \in DOMAIN batches : batches'[j] \in Batch
  BY <1>2, BatchesType DEF Batch
<1>4. /\ batches' \in [1..Len(batches) -> Batch]
      /\ batches' \in Seq(Batch) /\ Len(batches') = Len(batches)
  BY <1>1, <1>3, BatchesType
<1> QED BY <1>1, <1>2, <1>4, BatchesType DEF Batch

(* What the addresses contributed to a round are natural numbers.          *)
LEMMA WeightsType ==
  ASSUME TypeOK, NEW p \in Pools, NEW b, NEW prev
  PROVE  RoundWeights(p, prev, b) \in [Addrs -> Nat]
<1> DEFINE term(a) == [s \in DOMAIN shares |->
                   IF /\ shares[s].pool = p /\ prev < s /\ s <= b
                      /\ AddressOf[shares[s].worker] = a
                   THEN shares[s].diff ELSE 0]
<1>1. Len(shares) \in Nat /\ DOMAIN shares = 1..Len(shares)
  BY SharesType
<1>2. ASSUME NEW a \in Addrs PROVE RunningTotal(term(a), Len(shares)) \in Nat
  <2>1. \A s \in 1..Len(shares) : shares[s].diff \in Nat
    BY <1>1, SharesType
  <2>2. \A s \in 1..Len(shares) : term(a)[s] \in Nat
    BY <1>1, <2>1
  <2> DEFINE f == term(a)
             n == Len(shares)
  <2>3. n \in Nat /\ \A s \in 1..n : f[s] \in Nat
    BY <1>1, <2>2
  <2> HIDE DEF f, n
  <2>4. RunningTotal(f, n) \in Nat
    BY <2>3, RunningTotalNat
  <2> QED BY <2>4 DEF f, n
<1> QED BY <1>2 DEF RoundWeights

(* The credits of a settlement have their type.                            *)
LEMMA CreditType ==
  ASSUME TypeOK, NEW p \in Pools, NEW b \in DOMAIN shares, NEW prev
  PROVE  CreditOf(p, b, prev) \in [Addrs -> Nat]
<1>1. SoloCredit(b) \in [Addrs -> Nat]
  BY MinerRewardType DEF SoloCredit
<1>2. AllocateByWeight(MinerRewardSat, RoundWeights(p, prev, b), NumAddrs) \in [Addrs -> Nat]
  BY WeightsType, MinerRewardType, NumAddrsAssumption, AllocateByWeightType DEF Addrs
<1> QED BY <1>1, <1>2 DEF CreditOf

(* The empty database and the idle engines have their types.               *)
LEMMA TypeInit == Init => TypeInv
<1> SUFFICES ASSUME Init PROVE TypeInv
  OBVIOUS
<1>1. SendingInv
  BY DEF Init, SendingInv
<1>2. TypeOK
  BY MaturityAssumption, BoundsAssumption
  DEF Init, TypeOK, Stage, Confirmations, Missing, Settlement, Batch
<1> QED BY <1>1, <1>2 DEF TypeInv

(* Every step of the surroundings and of an engine keeps the types.        *)
LEMMA TypeNext == TypeInv /\ [Next]_vars => TypeInv'
<1> SUFFICES ASSUME TypeInv, [Next]_vars PROVE TypeInv'
  OBVIOUS
<1> USE DEF TypeInv
<1>1. CASE RecordShare
  BY <1>1, MaturityAssumption, BoundsAssumption
  DEF RecordShare, engine, TypeOK, SendingInv, Confirmations, Missing
<1>2. CASE ChainMoves
  BY <1>2 DEF ChainMoves, engine, tables, TypeOK, SendingInv
<1>3. ASSUME NEW p \in Pools, InsertBlockStates(p) PROVE TypeInv'
  BY <1>3 DEF InsertBlockStates, Goto, world, TypeOK, SendingInv, BlockShares, Stage, Pending
<1>4. ASSUME NEW p \in Pools, LoadBlockStates(p) PROVE TypeInv'
  BY <1>4 DEF LoadBlockStates, Goto, world, tables, TypeOK, SendingInv, Unfinished, Stage
<1>5. ASSUME NEW p \in Pools, LookupBlockConfirmations(p) PROVE TypeInv'
  BY <1>5 DEF LookupBlockConfirmations, Goto, world, tables, TypeOK, SendingInv, Stage
<1>6. ASSUME NEW p \in Pools, LookupFails(p) PROVE TypeInv'
  BY <1>6, BoundsAssumption DEF LookupFails, NextBlock, Fault, Goto, world, tables,
     TypeOK, SendingInv, Stage, Confirmations, Missing
<1>7. ASSUME NEW p \in Pools, UpdateBlockState(p) PROVE TypeInv'
  <2>1. CASE SimpleProtocol
    <3>1. /\ \E b \in todo[p] : /\ blockStates' = [blockStates EXCEPT ![b] = NextStatus(answer[p])]
                              /\ NextBlock(p, b)
          /\ UNCHANGED batchID
      BY <1>7, <2>1 DEF UpdateBlockState
    <3>2. UNCHANGED <<shares, settlements, balances, batches, world, faults>>
      BY <1>7 DEF UpdateBlockState
    <3> QED BY <3>1, <3>2 DEF NextBlock, NextStatus, Goto, world, TypeOK,
         SendingInv, Stage, Pending, Final, Confirmations, Missing
  <2>2. CASE ~SimpleProtocol
    <3>1. EndCycle(p) /\ UNCHANGED blockStates
      BY <1>7, <2>2 DEF UpdateBlockState
    <3>2. UNCHANGED <<shares, settlements, balances, batches, world, faults>>
      BY <1>7 DEF UpdateBlockState
    <3> QED BY <3>1, <3>2 DEF EndCycle, Goto, world, TypeOK, SendingInv,
         Stage, Confirmations, Missing
  <2> QED BY <2>1, <2>2
<1>8. ASSUME NEW p \in Pools, SettleBlock(p) PROVE TypeInv'
  BY <1>8, CreditType DEF SettleBlock, world, engine, TypeOK, SendingInv, Settlement,
     Unsettled, Final
<1>9. ASSUME NEW p \in Pools, SettleFails(p) \/ NothingToSettle(p) \/ NothingDue(p)
      PROVE  TypeInv'
  <2>1. /\ UNCHANGED <<tables, todo, answer, batchID, world, faults>>
        /\ \E s \in {"idle", "payout"} : pc' = [pc EXCEPT ![p] = s]
    BY <1>9 DEF SettleFails, NothingToSettle, NothingDue, Goto
  <2>2. TypeOK'
    BY <2>1 DEF world, tables, TypeOK, Stage
  <2>3. SendingInv'
    BY <2>1 DEF tables, TypeOK, SendingInv
  <2> QED BY <2>2, <2>3
<1>10. ASSUME NEW p \in Pools, ReserveBatch(p) PROVE TypeInv'
  BY <1>10 DEF ReserveBatch, Debited, Goto, world, TypeOK, SendingInv, Stage, Batch
<1>11. ASSUME NEW p \in Pools, SendManyPays(p) PROVE TypeInv'
  <2>1. batchID[p] \in DOMAIN batches
    BY <1>11 DEF SendManyPays, SendingInv
  <2>2. faults' \in 0..MaxFaults /\ pc' \in [Pools -> Stage]
    <3>1. MaxFaults \in Nat
      BY BoundsAssumption
    <3>2. faults' = faults \/ (faults < MaxFaults /\ faults' = faults + 1)
      BY <1>11 DEF SendManyPays, Fault
    <3>3. faults' \in 0..MaxFaults
      BY <3>1, <3>2 DEF TypeOK
    <3>4. pc' \in [Pools -> Stage]
      BY <1>11 DEF SendManyPays, Goto, TypeOK, Stage
    <3> QED BY <3>3, <3>4
  <2>3. broadcast' \subseteq DOMAIN batches
    BY <1>11, <2>1 DEF SendManyPays, TypeOK
  <2>4. TypeOK'
    BY <1>11, <2>2, <2>3 DEF SendManyPays, tables, TypeOK
  <2>5. SendingInv'
    BY <1>11 DEF SendManyPays, Goto, tables, TypeOK, SendingInv
  <2> QED BY <2>4, <2>5
<1>12. ASSUME NEW p \in Pools, SendManyFails(p) PROVE TypeInv'
  BY <1>12, BoundsAssumption DEF SendManyFails, Goto, Fault, tables, world, TypeOK, SendingInv, Stage
<1>13. ASSUME NEW p \in Pools, MarkBatchSent(p) PROVE TypeInv'
  <2>1. batchID[p] \in DOMAIN batches /\ batches' = [batches EXCEPT ![batchID[p]].status = "sent"]
    BY <1>13 DEF MarkBatchSent, SetStatus, SendingInv
  <2>2. TypeOK'
    BY <1>13, <2>1, StatusChange DEF MarkBatchSent, SetStatus, EndCycle, Goto, world, TypeOK, Stage,
       Confirmations, Missing
  <2>3. SendingInv'
    BY <1>13, <2>1, StatusChange DEF MarkBatchSent, SetStatus, EndCycle, Goto, TypeOK, SendingInv
  <2> QED BY <2>2, <2>3
<1>14. ASSUME NEW p \in Pools, RefundBatch(p) PROVE TypeInv'
  BY <1>14 DEF RefundBatch, EndCycle, Goto, world, tables, TypeOK, SendingInv, Stage,
     Confirmations, Missing
<1>15. ASSUME NEW p \in Pools, Abandon(p) PROVE TypeInv'
  BY <1>15, BoundsAssumption DEF Abandon, Fault, EndCycle, Goto, world, tables, TypeOK,
     SendingInv, Stage, Confirmations, Missing
<1>16. CASE UNCHANGED vars
  BY <1>16 DEF vars, tables, engine, world, TypeOK, SendingInv
<1> QED
  BY <1>1, <1>2, <1>3, <1>4, <1>5, <1>6, <1>7, <1>8, <1>9, <1>10, <1>11, <1>12, <1>13,
     <1>14, <1>15, <1>16 DEF Next, Cycle

(* Every table and every local variable has its type in every reachable    *)
(* state, and an engine that sends, marks or refunds a batch holds the id  *)
(* of a pending batch of its own pool.                                     *)
THEOREM TypeCorrect == Spec => [](TypeOK /\ SendingInv)
<1>1. Init => TypeInv
  BY TypeInit
<1>2. TypeInv /\ [Next]_vars => TypeInv'
  BY TypeNext
<1> QED BY <1>1, <1>2, PTL DEF Spec, TypeInv

(* A batch is ended by the engine that has it in hand, once: no step of a  *)
(* later cycle, of a restarted engine or of another pool's touches it.     *)
THEOREM BatchesEndOnce == Spec => BatchEndsOnce
<1> DEFINE EndsOnce ==
      \A k \in DOMAIN batches :
        batches'[k] # batches[k] =>
          /\ batches[k].status = "pending" /\ batches'[k].status = "sent"
          /\ batchID[batches[k].pool] = k /\ batchID'[batches[k].pool] = 0
<1>1. TypeInv /\ [Next]_vars => [EndsOnce]_vars
  <2> SUFFICES ASSUME TypeOK, SendingInv, Next PROVE EndsOnce
    BY DEF TypeInv
  <2>1. ASSUME NEW p \in Pools, MarkBatchSent(p) PROVE EndsOnce
    <3>1. /\ batchID[p] \in DOMAIN batches /\ batches[batchID[p]].pool = p
          /\ batches[batchID[p]].status = "pending"
          /\ batches' = [batches EXCEPT ![batchID[p]].status = "sent"]
      BY <2>1 DEF MarkBatchSent, SetStatus, SendingInv
    <3>2. \A k \in DOMAIN batches : k # batchID[p] => batches'[k] = batches[k]
      BY <3>1
    <3>3. batches'[batchID[p]].status = "sent"
      <4>1. \A k \in DOMAIN batches : DOMAIN batches[k] = {"pool", "status", "items"}
        BY BatchesType DEF Batch
      <4> QED BY <3>1, <4>1
    <3>4. batchID'[p] = 0
      BY <2>1 DEF MarkBatchSent, EndCycle, TypeOK
    <3> QED BY <3>1, <3>2, <3>3, <3>4
  <2>2. ASSUME NEW p \in Pools, ReserveBatch(p) PROVE EndsOnce
    <3>1. PICK b : batches' = Append(batches, b)
      BY <2>2, Zenon DEF ReserveBatch
    <3>2. ASSUME NEW k \in DOMAIN batches PROVE batches'[k] = batches[k]
      <4>1. batches \in Seq(Batch) /\ k \in 1..Len(batches)
        BY BatchesType
      <4> QED BY ONLY <3>1, <4>1
    <3> QED BY <3>2
  <2>3. CASE UNCHANGED batches
    BY <2>3
  <2> QED BY <2>1, <2>2, <2>3
    DEF Next, Cycle, RecordShare, ChainMoves, InsertBlockStates, LoadBlockStates,
        LookupBlockConfirmations, LookupFails, UpdateBlockState, SettleBlock, SettleFails,
        NothingToSettle, NothingDue, SendManyPays, SendManyFails, RefundBatch, Abandon, tables
<1>2. Spec => []TypeInv
  BY TypeInit, TypeNext, PTL DEF Spec
<1> QED BY <1>1, <1>2, PTL DEF Spec, BatchEndsOnce

-----------------------------------------------------------------------------
(* Block states.  The list an engine works through holds blocks of its own *)
(* pool that are not final, so the unguarded UPDATE cannot touch another;  *)
(* an answer that says mature stays true, and so does the status mature.   *)

TodoInv ==
  \A p \in Pools : \A b \in todo[p] :
    /\ pc[p] \in {"lookup", "update"}
    /\ shares[b].pool = p
    /\ blockStates[b] \in Pending

AnswerInv ==
  \A p \in Pools : \A b \in todo[p] :
    pc[p] = "update" /\ FirstOf(todo[p], b) /\ answer[p] >= BlockMaturity
      => conf[b] = BlockMaturity

MatureInv ==
  \A b \in DOMAIN blockStates :
    blockStates[b] \in {"mature", "settled"} => conf[b] = BlockMaturity

StateInv == TodoInv /\ AnswerInv /\ MatureInv /\ StatusMatchesRow

(* Confirmations are integers up to BlockMaturity, one per share.          *)
LEMMA ConfType ==
  ASSUME TypeOK
  PROVE  /\ DOMAIN conf = DOMAIN shares
         /\ \A b \in DOMAIN shares : conf[b] \in Int /\ conf[b] <= BlockMaturity
         /\ \A p \in Pools : answer[p] \in Int
<1>1. conf \in Seq(Confirmations) /\ Len(conf) = Len(shares)
  BY DEF TypeOK
<1>2. DOMAIN conf = DOMAIN shares
  BY <1>1, SharesType
<1>3. \A b \in DOMAIN conf : conf[b] \in Confirmations
  BY <1>1
<1>4. \A c \in Confirmations : c \in Int /\ c <= BlockMaturity
  BY MaturityAssumption DEF Confirmations, Missing
<1>5. \A p \in Pools : answer[p] \in Confirmations
  BY DEF TypeOK
<1> QED BY <1>2, <1>3, <1>4, <1>5

(* The first element of a set of shares is unique.                         *)
LEMMA FirstIsUnique ==
  ASSUME TypeOK, NEW p \in Pools, NEW b, NEW c, FirstOf(todo[p], b), FirstOf(todo[p], c)
  PROVE  b = c
<1>1. b \in Nat /\ c \in Nat
  BY SharesType DEF TypeOK, FirstOf
<1> QED BY <1>1 DEF FirstOf

(* A step of one engine that leaves the block states alone and has no list *)
(* to work through, or drops it.                                           *)
LEMMA StateKept ==
  ASSUME StateInv, NEW p \in Pools, todo'[p] = {},
         UNCHANGED <<shares, blockStates, settlements, conf>>,
         \A q \in Pools : q # p =>
            pc'[q] = pc[q] /\ todo'[q] = todo[q] /\ answer'[q] = answer[q]
  PROVE  StateInv'
<1>1. TodoInv'
  BY DEF StateInv, TodoInv
<1>2. AnswerInv'
  BY DEF StateInv, AnswerInv, FirstOf
<1>3. MatureInv' /\ StatusMatchesRow'
  BY DEF StateInv, MatureInv, StatusMatchesRow
<1> QED BY <1>1, <1>2, <1>3 DEF StateInv

(* Every step keeps the list of each engine, its answer and the block      *)
(* states consistent: in particular an update from an old answer does.     *)
LEMMA StateNext == TypeInv /\ StateInv /\ [Next]_vars => StateInv'
<1> SUFFICES ASSUME TypeInv, StateInv, [Next]_vars PROVE StateInv'
  OBVIOUS
<1>0. TypeOK /\ TypeOK'
  BY TypeNext DEF TypeInv
<1> USE DEF StateInv, StatusMatchesRow
<1>1. CASE RecordShare
  <2>1. \A b \in DOMAIN shares : shares'[b] = shares[b] /\ conf'[b] = conf[b]
    BY <1>0, <1>1, SharesType, ConfType DEF RecordShare, TypeOK
  <2>2. DOMAIN blockStates \subseteq DOMAIN shares /\ \A p \in Pools : todo[p] \subseteq DOMAIN shares
    BY <1>0 DEF TypeOK
  <2>3. UNCHANGED <<blockStates, settlements, pc, todo, answer>>
    BY <1>1 DEF RecordShare, engine
  <2>4. TodoInv' /\ AnswerInv'
    BY <2>1, <2>2, <2>3 DEF TodoInv, AnswerInv, FirstOf
  <2> QED BY <2>1, <2>2, <2>3, <2>4 DEF MatureInv
<1>2. CASE ChainMoves
  <2>1. \A b \in DOMAIN shares : conf[b] = BlockMaturity => conf'[b] = BlockMaturity
    BY <1>0, <1>2, MaturityAssumption, ConfType DEF ChainMoves
  <2>2. DOMAIN blockStates \subseteq DOMAIN shares /\ \A p \in Pools : todo[p] \subseteq DOMAIN shares
    BY <1>0 DEF TypeOK
  <2> QED BY <1>2, <2>1, <2>2 DEF ChainMoves, engine, tables, TodoInv, AnswerInv, MatureInv, FirstOf
<1>3. ASSUME NEW p \in Pools, InsertBlockStates(p) PROVE StateInv'
  <2>1. \A q \in Pools : todo[q] \subseteq DOMAIN blockStates
    BY <1>0 DEF TypeOK
  <2>2. DOMAIN settlements \subseteq DOMAIN blockStates
    BY <1>0 DEF TypeOK
  <2>3. pc' = [pc EXCEPT ![p] = "load"] /\ todo[p] = {}
    BY <1>3 DEF InsertBlockStates, Goto, TodoInv
  <2>4. TodoInv' /\ AnswerInv'
    BY <1>0, <1>3, <2>1, <2>3 DEF InsertBlockStates, world, TodoInv, AnswerInv, FirstOf, TypeOK
  <2>5. MatureInv' /\ StatusMatchesRow'
    BY <1>3, <2>2 DEF InsertBlockStates, world, MatureInv
  <2> QED BY <2>4, <2>5
<1>4. ASSUME NEW p \in Pools, LoadBlockStates(p) PROVE StateInv'
  BY <1>0, <1>4 DEF LoadBlockStates, Goto, world, tables, TodoInv, AnswerInv, MatureInv,
     FirstOf, Unfinished, TypeOK
<1>5. ASSUME NEW p \in Pools, LookupBlockConfirmations(p) PROVE StateInv'
  <2>1. PICK b \in todo[p] : FirstOf(todo[p], b) /\ answer' = [answer EXCEPT ![p] = conf[b]]
    BY <1>5 DEF LookupBlockConfirmations
  <2>2. conf[b] >= BlockMaturity => conf[b] = BlockMaturity
    BY <1>0, ConfType, MaturityAssumption DEF TypeOK
  <2>3. \A c \in todo[p] : FirstOf(todo[p], c) => c = b
    BY <1>0, <2>1, FirstIsUnique
  <2>4. AnswerInv'
    BY <1>0, <1>5, <2>1, <2>2, <2>3 DEF LookupBlockConfirmations, Goto, world, AnswerInv, TypeOK, FirstOf
  <2> QED BY <1>0, <1>5, <2>4 DEF LookupBlockConfirmations, Goto, world, tables, TodoInv, MatureInv, TypeOK
<1>6. ASSUME NEW p \in Pools, LookupFails(p) PROVE StateInv'
  BY <1>0, <1>6 DEF LookupFails, NextBlock, Goto, world, tables, TodoInv, AnswerInv,
     MatureInv, FirstOf, TypeOK
<1>7. ASSUME NEW p \in Pools, UpdateBlockState(p) PROVE StateInv'
  <2>1. CASE SimpleProtocol
    <3>1. PICK b \in todo[p] :
            /\ FirstOf(todo[p], b) /\ NextBlock(p, b)
            /\ blockStates' = [blockStates EXCEPT ![b] = NextStatus(answer[p])]
      BY <1>7, <2>1 DEF UpdateBlockState
    <3>2. /\ pc[p] = "update" /\ b \in DOMAIN blockStates
          /\ shares[b].pool = p /\ blockStates[b] \in Pending
      BY <1>0, <1>7 DEF UpdateBlockState, TodoInv, TypeOK
    <3>3. /\ NextStatus(answer[p]) \in Pending \cup {"orphan"}
          /\ NextStatus(answer[p]) = "mature" => conf[b] = BlockMaturity
      BY <3>1, <3>2, <1>0, ConfType, MaturityAssumption DEF NextStatus, AnswerInv, Pending
    <3>4. \A q \in Pools : q # p => b \notin todo[q]
      BY <3>2 DEF TodoInv
    <3>5. UNCHANGED <<shares, settlements, conf>>
      BY <1>7 DEF UpdateBlockState, world
    <3>6. TodoInv' /\ AnswerInv'
      BY <1>0, <3>1, <3>2, <3>4, <3>5 DEF NextBlock, Goto, TodoInv, AnswerInv, FirstOf, TypeOK
    <3>7. MatureInv' /\ StatusMatchesRow'
      BY <3>1, <3>2, <3>3, <3>5 DEF MatureInv, Pending
    <3> QED BY <3>6, <3>7
  <2>2. CASE ~SimpleProtocol
    <3>1. EndCycle(p) /\ UNCHANGED <<shares, blockStates, settlements, conf>>
      BY <1>7, <2>2 DEF UpdateBlockState, world
    <3> QED BY <1>0, <3>1, StateKept DEF EndCycle, Goto, TypeOK
  <2> QED BY <2>1, <2>2
<1>8. ASSUME NEW p \in Pools, SettleBlock(p) PROVE StateInv'
  <2>1. PICK b \in Unsettled(p) :
          /\ blockStates' = [blockStates EXCEPT ![b] = "settled"]
          /\ DOMAIN settlements' = DOMAIN settlements \cup {b}
    BY <1>8 DEF SettleBlock
  <2>2. b \in DOMAIN blockStates /\ shares[b].pool = p /\ blockStates[b] = "mature"
    BY DEF Unsettled
  <2>3. UNCHANGED <<shares, conf, engine>> /\ todo[p] = {}
    BY <1>8 DEF SettleBlock, world, TodoInv
  <2>4. \A q \in Pools : b \notin todo[q]
    BY <2>2, <2>3 DEF TodoInv
  <2> QED BY <1>0, <2>1, <2>2, <2>3, <2>4 DEF engine, TodoInv, AnswerInv, MatureInv, TypeOK, FirstOf
<1>9. ASSUME NEW p \in Pools, SettleFails(p) \/ NothingToSettle(p) \/ NothingDue(p)
      PROVE  StateInv'
  <2>1. /\ todo[p] = {} /\ pc' = [pc EXCEPT ![p] = pc'[p]]
        /\ UNCHANGED <<tables, todo, answer, world>>
    BY <1>0, <1>9 DEF SettleFails, NothingToSettle, NothingDue, Goto, TodoInv, TypeOK
  <2> QED BY <1>0, <2>1, StateKept DEF tables, world, TypeOK
<1>10. ASSUME NEW p \in Pools, ReserveBatch(p) PROVE StateInv'
  BY <1>0, <1>10 DEF ReserveBatch, Debited, Goto, world, TodoInv, AnswerInv, MatureInv, FirstOf, TypeOK
<1>11. ASSUME NEW p \in Pools, SendManyPays(p) \/ SendManyFails(p) PROVE StateInv'
  <2>1. pc[p] = "send" /\ UNCHANGED <<tables, todo, answer, conf>>
    BY <1>11 DEF SendManyPays, SendManyFails, world
  <2>2. \A q \in Pools : q # p => pc'[q] = pc[q]
    BY <1>0, <1>11 DEF SendManyPays, SendManyFails, Goto, TypeOK
  <2>3. todo[p] = {}
    BY <2>1 DEF TodoInv
  <2> QED BY <2>1, <2>2, <2>3, StateKept DEF tables
<1>12. ASSUME NEW p \in Pools, MarkBatchSent(p) \/ RefundBatch(p) \/ Abandon(p) PROVE StateInv'
  <2>1. EndCycle(p) /\ UNCHANGED <<shares, blockStates, settlements, conf>>
    BY <1>12 DEF MarkBatchSent, SetStatus, RefundBatch, Abandon, tables, world
  <2> QED BY <1>0, <2>1, StateKept DEF EndCycle, Goto, TypeOK
<1>13. CASE UNCHANGED vars
  BY <1>13 DEF vars, tables, engine, world, TodoInv, AnswerInv, MatureInv, FirstOf
<1> QED
  BY <1>1, <1>2, <1>3, <1>4, <1>5, <1>6, <1>7, <1>8, <1>9, <1>10, <1>11, <1>12, <1>13
  DEF Next, Cycle

(* With no block recorded nothing can disagree.                            *)
LEMMA StateInit == Init => StateInv
BY DEF Init, StateInv, TodoInv, AnswerInv, MatureInv, StatusMatchesRow

(* Types and block states are right in every reachable state.              *)
LEMMA StateCorrect == Spec => [](TypeInv /\ StateInv)
<1>1. Init => TypeInv /\ StateInv
  BY TypeInit, StateInit
<1>2. TypeInv /\ StateInv /\ [Next]_vars => (TypeInv /\ StateInv)'
  BY TypeNext, StateNext
<1> QED BY <1>1, <1>2, PTL DEF Spec

(* The two guards of settleNextBlock against paying a block twice, its     *)
(* status and its settlement row, never disagree.                          *)
THEOREM StatusesAgree == Spec => []StatusMatchesRow
<1>1. TypeInv /\ StateInv => StatusMatchesRow
  BY DEF StateInv
<1> QED BY <1>1, StateCorrect, PTL

(* No block is credited before it has BlockMaturity confirmations.         *)
THEOREM OnlyMatureSettled == Spec => []SettledOnChain
<1>1. TypeInv /\ StateInv => SettledOnChain
  BY DEF TypeInv, TypeOK, StateInv, StatusMatchesRow, MatureInv, SettledOnChain
<1> QED BY <1>1, StateCorrect, PTL

(* No step of any engine changes the status of a settled or orphaned block.*)
THEOREM FinalStaysFinal == Spec => FinalStatusSticks
<1> DEFINE Sticks == \A b \in DOMAIN blockStates :
                       blockStates[b] \in Final => blockStates'[b] = blockStates[b]
<1>1. TypeInv /\ StateInv /\ [Next]_vars => [Sticks]_vars
  <2> SUFFICES ASSUME TypeInv, StateInv, Next PROVE Sticks
    OBVIOUS
  <2>1. ASSUME NEW p \in Pools, UpdateBlockState(p) PROVE Sticks
    <3>1. CASE SimpleProtocol
      <4>1. PICK b \in todo[p] : blockStates' = [blockStates EXCEPT ![b] = NextStatus(answer[p])]
        BY <2>1, <3>1 DEF UpdateBlockState
      <4>2. blockStates[b] \notin Final
        BY DEF StateInv, TodoInv, Pending, Final
      <4> QED BY <4>1, <4>2
    <3>2. CASE ~SimpleProtocol
      BY <2>1, <3>2 DEF UpdateBlockState
    <3> QED BY <3>1, <3>2
  <2>2. ASSUME NEW p \in Pools, SettleBlock(p) PROVE Sticks
    BY <2>2 DEF SettleBlock, Unsettled, Final, TypeInv, TypeOK
  <2>3. ASSUME NEW p \in Pools, InsertBlockStates(p) PROVE Sticks
    BY <2>3 DEF InsertBlockStates
  <2>4. CASE UNCHANGED blockStates
    BY <2>4
  <2> QED BY <2>1, <2>2, <2>3, <2>4
    DEF Next, Cycle, RecordShare, ChainMoves, LoadBlockStates, LookupBlockConfirmations,
        LookupFails, SettleFails, NothingToSettle, NothingDue, ReserveBatch, SendManyPays,
        SendManyFails, MarkBatchSent, RefundBatch, Abandon, tables
<1> QED BY <1>1, StateCorrect, PTL DEF Spec, FinalStatusSticks

-----------------------------------------------------------------------------
(* The engines of different pools. *)

RowStates(p) == {c \in DOMAIN blockStates : shares[c].pool = p}
RowBatches(p) == {k \in DOMAIN batches : batches[k].pool = p}

(* The rows of a pool stay where its ids and what they identify stay.      *)
LEMMA RowsStay ==
  ASSUME NEW q \in Pools,
         RowStates(q)' = RowStates(q), \A c \in RowStates(q) : blockStates'[c] = blockStates[c],
         SettledBlocks(q)' = SettledBlocks(q),
         \A c \in SettledBlocks(q) : settlements'[c] = settlements[c],
         balances'[q] = balances[q],
         RowBatches(q)' = RowBatches(q), \A k \in RowBatches(q) : batches'[k] = batches[k]
  PROVE  RowsOf(q)' = RowsOf(q)
<1>1. [b \in RowStates(q) |-> blockStates[b]]' = [b \in RowStates(q) |-> blockStates[b]]
  OBVIOUS
<1>2. [b \in SettledBlocks(q) |-> settlements[b]]' = [b \in SettledBlocks(q) |-> settlements[b]]
  OBVIOUS
<1>3. [k \in RowBatches(q) |-> batches[k]]' = [k \in RowBatches(q) |-> batches[k]]
  OBVIOUS
<1> QED BY <1>1, <1>2, <1>3 DEF RowsOf, RowStates, RowBatches

(* Whatever the engines of the other pools do between two of its steps, an *)
(* engine finds the rows of its pool as it left them: no statement, not    *)
(* even one by id, reaches a row of another pool.                          *)
THEOREM RowsOfOwnPool == Spec => EnginesKeepApart
<1> DEFINE Apart == \A p \in Pools : RowsOf(p)' # RowsOf(p) => Cycle(p)
<1>1. TypeInv /\ StateInv /\ [Next]_vars => [Apart]_vars
  <2> SUFFICES ASSUME TypeOK, TypeOK', SendingInv, TodoInv, Next, NEW q \in Pools, ~Cycle(q)
               PROVE  RowsOf(q)' = RowsOf(q)
    BY TypeNext DEF TypeInv, StateInv
  <2> USE DEF RowStates, RowBatches, SettledBlocks
  <2>1. CASE RecordShare
    <3>1. \A c \in DOMAIN shares : shares'[c] = shares[c]
      BY <2>1, SharesType DEF RecordShare, TypeOK
    <3>2. DOMAIN blockStates \subseteq DOMAIN shares /\ DOMAIN settlements \subseteq DOMAIN shares
      BY DEF TypeOK
    <3> QED BY <2>1, <3>1, <3>2, RowsStay DEF RecordShare
  <2>2. ASSUME NEW p \in Pools, p # q, InsertBlockStates(p) PROVE RowsOf(q)' = RowsOf(q)
    <3>1. RowStates(q)' = RowStates(q)
      BY <2>2 DEF InsertBlockStates, BlockShares
    <3> QED BY <2>2, <3>1, RowsStay DEF InsertBlockStates
  <2>3. ASSUME NEW p \in Pools, p # q, UpdateBlockState(p) PROVE RowsOf(q)' = RowsOf(q)
    <3>1. CASE SimpleProtocol
      <4>1. PICK b \in todo[p] : blockStates' = [blockStates EXCEPT ![b] = NextStatus(answer[p])]
        BY <2>3, <3>1 DEF UpdateBlockState
      <4>2. shares[b].pool = p
        BY DEF TodoInv
      <4> QED BY <2>3, <4>1, <4>2, RowsStay DEF UpdateBlockState
    <3>2. CASE ~SimpleProtocol
      BY <2>3, <3>2, RowsStay DEF UpdateBlockState
    <3> QED BY <3>1, <3>2
  <2>4. ASSUME NEW p \in Pools, p # q, SettleBlock(p) PROVE RowsOf(q)' = RowsOf(q)
    <3>1. PICK b \in Unsettled(p), prev \in 0..Len(shares) :
            /\ blockStates' = [blockStates EXCEPT ![b] = "settled"]
            /\ settlements' = [c \in DOMAIN settlements \cup {b} |->
                   IF c = b THEN [start |-> prev + 1, credit |-> CreditOf(p, b, prev)]
                   ELSE settlements[c]]
      BY <2>4 DEF SettleBlock
    <3>2. balances'[q] = balances[q]
      BY <2>4 DEF SettleBlock, TypeOK
    <3>3. shares[b].pool = p
      BY DEF Unsettled
    <3>4. SettledBlocks(q)' = SettledBlocks(q)
      <4>1. DOMAIN settlements' = DOMAIN settlements \cup {b}
        BY <3>1
      <4>2. shares' = shares
        BY <2>4, Zenon DEF SettleBlock
      <4> QED BY <2>4, <3>3, <4>1, <4>2, Zenon
    <3>5. \A c \in SettledBlocks(q) : settlements'[c] = settlements[c]
      BY <2>4, <3>1, <3>3
    <3>6. RowStates(q)' = RowStates(q) /\ \A c \in RowStates(q) : blockStates'[c] = blockStates[c]
      BY <2>4, <3>1, <3>3 DEF SettleBlock
    <3> QED BY <2>4, <3>2, <3>4, <3>5, <3>6, RowsStay DEF SettleBlock
  <2>5. ASSUME NEW p \in Pools, p # q, ReserveBatch(p) PROVE RowsOf(q)' = RowsOf(q)
    <3>1. /\ DOMAIN batches = 1..Len(batches) /\ DOMAIN batches' = 1..(Len(batches) + 1)
          /\ \A k \in DOMAIN batches : batches'[k] = batches[k]
          /\ batches'[Len(batches) + 1].pool = p /\ Len(batches) \in Nat
      BY <2>5, BatchesType DEF ReserveBatch
    <3>2. RowBatches(q)' = RowBatches(q) /\ \A k \in RowBatches(q) : batches'[k] = batches[k]
      BY <2>5, <3>1
    <3>3. balances'[q] = balances[q]
      BY <2>5 DEF ReserveBatch, TypeOK
    <3> QED BY <2>5, <3>2, <3>3, RowsStay DEF ReserveBatch
  <2>6. ASSUME NEW p \in Pools, p # q, MarkBatchSent(p) PROVE RowsOf(q)' = RowsOf(q)
    <3>1. /\ batchID[p] \in DOMAIN batches /\ batches[batchID[p]].pool = p
          /\ batches' = [batches EXCEPT ![batchID[p]].status = "sent"]
          /\ UNCHANGED <<shares, blockStates, settlements, balances>>
      BY <2>6 DEF MarkBatchSent, SetStatus, SendingInv
    <3>2. RowBatches(q)' = RowBatches(q) /\ \A k \in RowBatches(q) : batches'[k] = batches[k]
      BY <2>6, <3>1, StatusChange
    <3> QED BY <3>1, <3>2, RowsStay
  <2>7. CASE UNCHANGED tables
    BY <2>7, RowsStay DEF tables
  <2> QED BY <2>1, <2>2, <2>3, <2>4, <2>5, <2>6, <2>7
    DEF Next, Cycle, ChainMoves, LoadBlockStates, LookupBlockConfirmations,
        LookupFails, SettleFails, NothingToSettle, NothingDue, SendManyPays,
        SendManyFails, RefundBatch, Abandon, tables
<1> QED BY <1>1, StateCorrect, PTL DEF Spec, EnginesKeepApart

-----------------------------------------------------------------------------
(* Rounds. *)

(* Before the first settlement there is no round.                          *)
LEMMA RoundsInit == Init => RoundsPartitionShares
BY DEF Init, RoundsPartitionShares

(* A recorded share and a settlement keep the rounds apart: a share is     *)
(* appended after every settled block, and a settled round starts after    *)
(* the last block before it.                                               *)
LEMMA RoundsNext ==
  TypeInv /\ RoundsPartitionShares /\ [Next]_vars => RoundsPartitionShares'
<1> SUFFICES ASSUME TypeInv, RoundsPartitionShares, [Next]_vars
             PROVE  RoundsPartitionShares'
  OBVIOUS
<1>0. /\ Len(shares) \in Nat /\ DOMAIN shares = 1..Len(shares)
      /\ DOMAIN blockStates \subseteq DOMAIN shares
      /\ DOMAIN settlements \subseteq DOMAIN shares
      /\ \A b \in DOMAIN settlements : settlements[b].start \in Nat
  BY SharesType DEF TypeInv, TypeOK, Settlement
<1>1. CASE RecordShare
  <2>1. /\ DOMAIN shares' = 1..(Len(shares) + 1)
        /\ \A s \in DOMAIN shares : shares'[s] = shares[s]
        /\ settlements' = settlements
    BY <1>0, <1>1 DEF RecordShare, TypeInv, TypeOK
  <2> SUFFICES ASSUME NEW b \in DOMAIN settlements, NEW s \in DOMAIN shares',
                      shares'[s].pool = shares[b].pool
               PROVE  (settlements[b].start <= s /\ s <= b)
                        <=> IF SchemeOf[shares[b].pool] = "solo" THEN s = b
                            ELSE /\ s <= b
                                 /\ \A c \in BlockShares(shares[b].pool)' : s <= c => b <= c
    BY <1>0, <2>1 DEF RoundsPartitionShares
  <2>2. b \in 1..Len(shares) /\ s \in Nat
    BY <1>0, <2>1
  <2>3. CASE s \in DOMAIN shares
    <3>1. \A c \in BlockShares(shares[b].pool)' :
            c \in BlockShares(shares[b].pool) \/ c = Len(shares) + 1
      BY <1>0, <2>1 DEF BlockShares
    <3>2. \A c \in BlockShares(shares[b].pool) : c \in BlockShares(shares[b].pool)'
      BY <1>0, <2>1 DEF BlockShares
    <3>3. (settlements[b].start <= s /\ s <= b)
            <=> IF SchemeOf[shares[b].pool] = "solo" THEN s = b
                ELSE s <= b /\ \A c \in BlockShares(shares[b].pool) : s <= c => b <= c
      BY <2>1, <2>3 DEF RoundsPartitionShares
    <3> QED BY <1>0, <2>2, <3>1, <3>2, <3>3
  <2>4. CASE s \notin DOMAIN shares
    <3>1. s = Len(shares) + 1 /\ ~(s <= b) /\ s # b
      BY <1>0, <2>1, <2>2, <2>4
    <3> QED BY <3>1
  <2> QED BY <2>3, <2>4
<1>2. ASSUME NEW p \in Pools, SettleBlock(p) PROVE RoundsPartitionShares'
  <2>1. PICK b \in Unsettled(p), prev \in 0..Len(shares) :
          /\ RoundOf(p, b, prev)
          /\ settlements' = [c \in DOMAIN settlements \cup {b} |->
                 IF c = b THEN [start |-> prev + 1, credit |-> CreditOf(p, b, prev)]
                 ELSE settlements[c]]
    BY <1>2 DEF SettleBlock
  <2>2. shares' = shares
    BY <1>2 DEF SettleBlock
  <2>3. b \in 1..Len(shares) /\ shares[b].pool = p
    BY <1>0 DEF Unsettled
  <2> SUFFICES ASSUME NEW s \in DOMAIN shares, shares[s].pool = p
               PROVE  (prev + 1 <= s /\ s <= b)
                        <=> IF SchemeOf[p] = "solo" THEN s = b
                            ELSE /\ s <= b
                                 /\ \A c \in BlockShares(p) : s <= c => b <= c
    BY <2>1, <2>2, <2>3 DEF RoundsPartitionShares, BlockShares
  <2>4. s \in Nat /\ 1 <= s /\ BlockShares(p) \subseteq Nat
    BY <1>0 DEF BlockShares
  <2>5. CASE SchemeOf[p] = "solo"
    BY <2>1, <2>3, <2>4, <2>5 DEF RoundOf
  <2>6. CASE SchemeOf[p] # "solo"
    <3>1. PreviousBlock(p, b, prev)
      BY <2>1, <2>6 DEF RoundOf
    <3> QED BY <2>3, <2>4, <2>6, <3>1 DEF PreviousBlock
  <2> QED BY <2>5, <2>6
<1>3. CASE UNCHANGED <<shares, settlements>>
  BY <1>3 DEF RoundsPartitionShares, BlockShares
<1> QED
  BY <1>1, <1>2, <1>3
  DEF Next, Cycle, ChainMoves, InsertBlockStates, LoadBlockStates, LookupBlockConfirmations,
      LookupFails, UpdateBlockState, SettleFails, NothingToSettle, NothingDue, ReserveBatch,
      SendManyPays, SendManyFails, MarkBatchSent, RefundBatch, Abandon, tables, vars

(* The rounds of a pool partition its shares: a settled block pays for the *)
(* shares after the pool's previous block and for no others.               *)
THEOREM RoundsCorrect == Spec => []RoundsPartitionShares
<1>1. Init => TypeInv /\ RoundsPartitionShares
  BY TypeInit, RoundsInit
<1>2. TypeInv /\ RoundsPartitionShares /\ [Next]_vars => (TypeInv /\ RoundsPartitionShares)'
  BY TypeNext, RoundsNext
<1> QED BY <1>1, <1>2, PTL DEF Spec

-----------------------------------------------------------------------------
(* The ledger. *)

(* the terms of the sums Credited and InBatches *)
CreditTerm(p, a) ==
  [b \in DOMAIN shares |->
     IF b \in DOMAIN settlements /\ shares[b].pool = p THEN settlements[b].credit[a] ELSE 0]

BatchTerm(p, a, ks) ==
  [k \in DOMAIN batches |->
     IF k \in ks /\ batches[k].pool = p THEN batches[k].items[a] ELSE 0]

(* Both sums of the ledger are running totals of natural numbers.          *)
LEMMA LedgerSums ==
  ASSUME TypeOK, NEW p \in Pools, NEW a \in Addrs, NEW ks
  PROVE  /\ Credited(p, a) = RunningTotal(CreditTerm(p, a), Len(shares))
         /\ InBatches(p, a, ks) = RunningTotal(BatchTerm(p, a, ks), Len(batches))
         /\ DOMAIN shares = 1..Len(shares) /\ Len(shares) \in Nat
         /\ DOMAIN batches = 1..Len(batches) /\ Len(batches) \in Nat
         /\ \A b \in 1..Len(shares) : CreditTerm(p, a)[b] \in Nat
         /\ \A k \in 1..Len(batches) : BatchTerm(p, a, ks)[k] \in Nat
         /\ balances[p][a] \in Nat
<1>1. /\ DOMAIN shares = 1..Len(shares) /\ Len(shares) \in Nat
      /\ DOMAIN batches = 1..Len(batches) /\ Len(batches) \in Nat
  BY SharesType, BatchesType
<1>2. \A b \in DOMAIN settlements : settlements[b].credit[a] \in Nat
  BY DEF TypeOK, Settlement
<1>3. \A k \in DOMAIN batches : batches[k].items[a] \in Nat
  BY BatchesType
<1>4. balances[p][a] \in Nat
  BY DEF TypeOK
<1> QED BY <1>1, <1>2, <1>3, <1>4 DEF Credited, InBatches, CreditTerm, BatchTerm

(* The credited amounts and the batches enter the ledger's equation only   *)
(* through these tables.                                                   *)
LEMMA LedgerUnchanged ==
  ASSUME LedgerConserved, UNCHANGED <<shares, settlements, balances, batches>>
  PROVE  LedgerConserved'
BY DEF LedgerConserved, Credited, InBatches, LiveBatches

(* A recorded share credits nobody.                                        *)
LEMMA CreditedRecordShare ==
  ASSUME TypeOK, RecordShare, NEW p \in Pools, NEW a \in Addrs
  PROVE  Credited(p, a)' = Credited(p, a)
<1> DEFINE f == CreditTerm(p, a)
           g == CreditTerm(p, a)'
           n == Len(shares)
<1>1. /\ Credited(p, a) = RunningTotal(f, n) /\ n \in Nat
      /\ RunningTotal(f, n) \in Int
  BY LedgerSums, RunningTotalNat
<1>2. /\ Len(shares') = n + 1 /\ DOMAIN shares' = 1..(n + 1) /\ DOMAIN shares = 1..n
      /\ \A b \in 1..n : shares'[b] = shares[b]
      /\ settlements' = settlements /\ DOMAIN settlements \subseteq 1..n
  BY SharesType DEF RecordShare, TypeOK
<1>3. /\ Credited(p, a)' = RunningTotal(g, n + 1)
      /\ \A b \in 1..n : g[b] = f[b]
      /\ g[n + 1] = 0
  BY <1>1, <1>2 DEF Credited, CreditTerm
<1> HIDE DEF f, g, n
<1>4. RunningTotal(g, n + 1) = RunningTotal(f, n) + g[n + 1]
  BY <1>1, <1>3, RunningTotalAppend
<1> QED BY <1>1, <1>3, <1>4

(* A settlement adds its credit to the balances and to what is credited.   *)
LEMMA CreditedSettle ==
  ASSUME TypeOK, NEW q \in Pools, SettleBlock(q)
  PROVE  \E k \in Unsettled(q), prev \in 0..Len(shares) :
           /\ CanSettle(q, k, prev)
           /\ DOMAIN settlements' = DOMAIN settlements \cup {k}
           /\ CreditOf(q, k, prev) \in [Addrs -> Nat]
           /\ \A p \in Pools, a \in Addrs :
                /\ balances'[p][a]
                     = balances[p][a] + IF p = q THEN CreditOf(q, k, prev)[a] ELSE 0
                /\ Credited(p, a)'
                     = Credited(p, a) + IF p = q THEN CreditOf(q, k, prev)[a] ELSE 0
<1>1. PICK k \in Unsettled(q), prev \in 0..Len(shares) :
        /\ CanSettle(q, k, prev)
        /\ balances' = [balances EXCEPT ![q] = [a \in Addrs |-> @[a] + CreditOf(q, k, prev)[a]]]
        /\ settlements' = [c \in DOMAIN settlements \cup {k} |->
               IF c = k THEN [start |-> prev + 1, credit |-> CreditOf(q, k, prev)]
               ELSE settlements[c]]
  BY DEF SettleBlock
<1> DEFINE credit == CreditOf(q, k, prev)
<1>2. /\ k \in DOMAIN shares /\ k \notin DOMAIN settlements /\ shares[k].pool = q
      /\ credit \in [Addrs -> Nat]
  BY CreditType DEF Unsettled, TypeOK
<1>3. /\ balances' = [balances EXCEPT ![q] = [a \in Addrs |-> balances[q][a] + credit[a]]]
      /\ settlements' = [c \in DOMAIN settlements \cup {k} |->
               IF c = k THEN [start |-> prev + 1, credit |-> credit] ELSE settlements[c]]
  BY <1>1
<1> HIDE DEF credit
<1>4. ASSUME NEW p \in Pools, NEW a \in Addrs
      PROVE  /\ balances'[p][a] = balances[p][a] + IF p = q THEN credit[a] ELSE 0
             /\ Credited(p, a)' = Credited(p, a) + IF p = q THEN credit[a] ELSE 0
  <2> DEFINE f == CreditTerm(p, a)
             g == CreditTerm(p, a)'
             n == Len(shares)
             d == IF p = q THEN credit[a] ELSE 0
  <2>1. /\ Credited(p, a) = RunningTotal(f, n) /\ n \in Nat /\ k \in 1..n
        /\ \A b \in 1..n : f[b] \in Int
    BY <1>2, LedgerSums
  <2>2. shares' = shares
    BY DEF SettleBlock
  <2>3. d \in Int
    BY <1>2
  <2>4. \A b \in 1..n : g[b] = IF b = k THEN f[b] + d ELSE f[b]
    BY <1>2, <1>3, <2>1, <2>2, LedgerSums DEF CreditTerm
  <2>5. Credited(p, a)' = RunningTotal(g, n)
    BY <2>2 DEF Credited, CreditTerm
  <2>6. balances'[p][a] = balances[p][a] + d
    BY <1>2, <1>3 DEF TypeOK
  <2> HIDE DEF f, g, n
  <2>7. RunningTotal(g, n) = RunningTotal(f, n) + d
    <3> HIDE DEF d
    <3>1. \A b \in 1..n : f[b] \in Int /\ g[b] \in Int
      BY <2>1, <2>3, <2>4
    <3>2. (\A b \in 1..n : b # k => g[b] = f[b]) /\ g[k] - f[k] = d
      BY <2>1, <2>3, <2>4
    <3> QED BY <2>1, <3>1, <3>2, RunningTotalChange
  <2> QED BY <2>1, <2>5, <2>6, <2>7
<1>5. DOMAIN settlements' = DOMAIN settlements \cup {k}
  BY <1>1
<1> QED BY <1>1, <1>2, <1>4, <1>5 DEF credit

(* A recorded share leaves the ledger as it is.                            *)
LEMMA LedgerRecordShare ==
  ASSUME TypeOK, LedgerConserved, RecordShare
  PROVE  LedgerConserved'
<1>1. \A p \in Pools, a \in Addrs : Credited(p, a)' = Credited(p, a)
  BY CreditedRecordShare
<1>2. \A p \in Pools, a \in Addrs :
        (balances[p][a] + InBatches(p, a, LiveBatches))'
          = balances[p][a] + InBatches(p, a, LiveBatches)
  BY DEF RecordShare, InBatches, LiveBatches
<1> QED BY <1>1, <1>2 DEF LedgerConserved

(* A settlement adds the same amount to the credits and to the balances.   *)
LEMMA LedgerSettle ==
  ASSUME TypeOK, LedgerConserved, NEW q \in Pools, SettleBlock(q)
  PROVE  LedgerConserved'
<1>1. PICK k \in Unsettled(q), prev \in 0..Len(shares) :
        /\ CreditOf(q, k, prev) \in [Addrs -> Nat]
        /\ \A p \in Pools, a \in Addrs :
             /\ balances'[p][a]
                  = balances[p][a] + IF p = q THEN CreditOf(q, k, prev)[a] ELSE 0
             /\ Credited(p, a)'
                  = Credited(p, a) + IF p = q THEN CreditOf(q, k, prev)[a] ELSE 0
  BY CreditedSettle
<1> SUFFICES ASSUME NEW p \in Pools, NEW a \in Addrs
             PROVE  (Credited(p, a) = balances[p][a] + InBatches(p, a, LiveBatches))'
  BY DEF LedgerConserved
<1>2. InBatches(p, a, LiveBatches)' = InBatches(p, a, LiveBatches)
  BY DEF SettleBlock, InBatches, LiveBatches
<1>3. /\ InBatches(p, a, LiveBatches) \in Int /\ balances[p][a] \in Int
      /\ CreditOf(q, k, prev)[a] \in Int
  BY <1>1, LedgerSums, RunningTotalNat
<1>4. Credited(p, a) = balances[p][a] + InBatches(p, a, LiveBatches)
  BY DEF LedgerConserved
<1> QED BY <1>1, <1>2, <1>3, <1>4

(* A batch holds what is taken from the balances.                          *)
LEMMA LedgerReserve ==
  ASSUME TypeOK, TypeOK', LedgerConserved, NEW q \in Pools, ReserveBatch(q)
  PROVE  LedgerConserved'
<1> DEFINE items == [a \in Addrs |-> IF a \in Due(q) THEN balances[q][a] ELSE 0]
           batch == [pool |-> q, status |-> "pending", items |-> items]
<1>1. /\ batches' = Append(batches, batch)
      /\ balances' = [balances EXCEPT ![q] = [a \in Addrs |-> balances[q][a] - items[a]]]
      /\ UNCHANGED <<shares, settlements>>
  BY DEF ReserveBatch, Debited
<1>2. items \in [Addrs -> Nat]
  BY DEF TypeOK
<1>3. batch.pool = q /\ batch.status = "pending" /\ batch.items = items
  OBVIOUS
<1> HIDE DEF items, batch
<1> SUFFICES ASSUME NEW p \in Pools, NEW a \in Addrs
             PROVE  (Credited(p, a) = balances[p][a] + InBatches(p, a, LiveBatches))'
  BY DEF LedgerConserved
<1> DEFINE f == BatchTerm(p, a, LiveBatches)
           g == BatchTerm(p, a, LiveBatches)'
           n == Len(batches)
           d == IF p = q THEN items[a] ELSE 0
<1>4. /\ InBatches(p, a, LiveBatches) = RunningTotal(f, n) /\ n \in Nat
      /\ RunningTotal(f, n) \in Int
  BY LedgerSums, RunningTotalNat
<1>5. /\ Len(batches') = n + 1 /\ DOMAIN batches' = 1..(n + 1) /\ DOMAIN batches = 1..n
      /\ \A k \in 1..n : batches'[k] = batches[k]
      /\ batches'[n + 1] = batch
  BY <1>1, BatchesType
<1>6. LiveBatches' = LiveBatches \cup {n + 1}
  BY <1>3, <1>4, <1>5 DEF LiveBatches
<1>7. /\ InBatches(p, a, LiveBatches)' = RunningTotal(g, n + 1)
      /\ \A k \in 1..n : g[k] = f[k]
      /\ g[n + 1] = d
  BY <1>3, <1>4, <1>5, <1>6 DEF InBatches, BatchTerm
<1>8. /\ balances'[p][a] = balances[p][a] - d
      /\ balances[p][a] \in Int /\ d \in Int
  BY <1>1, <1>2 DEF TypeOK
<1>9. /\ Credited(p, a)' = Credited(p, a)
      /\ Credited(p, a) = balances[p][a] + InBatches(p, a, LiveBatches)
  BY <1>1 DEF LedgerConserved, Credited
<1> HIDE DEF f, g, n, d
<1>10. RunningTotal(g, n + 1) = RunningTotal(f, n) + d
  BY <1>4, <1>7, RunningTotalAppend
<1>11. InBatches(p, a, LiveBatches)' = InBatches(p, a, LiveBatches) + d
  BY <1>4, <1>7, <1>10
<1>12. Credited(p, a) = balances'[p][a] + (InBatches(p, a, LiveBatches) + d)
  BY <1>4, <1>8, <1>9
<1> QED BY <1>9, <1>11, <1>12

(* A batch that is marked sent still holds its amounts.                    *)
LEMMA LedgerMark ==
  ASSUME TypeOK, TypeOK', SendingInv, LedgerConserved, NEW q \in Pools, MarkBatchSent(q)
  PROVE  LedgerConserved'
<1>1. /\ batchID[q] \in DOMAIN batches /\ batches[batchID[q]].status = "pending"
      /\ batches' = [batches EXCEPT ![batchID[q]].status = "sent"]
      /\ UNCHANGED <<shares, settlements, balances>>
  BY DEF MarkBatchSent, SetStatus, SendingInv
<1>2. /\ Len(batches') = Len(batches) /\ DOMAIN batches' = DOMAIN batches
      /\ LiveBatches' = LiveBatches
  BY <1>1, StatusChange DEF LiveBatches
<1>3. \A p \in Pools, a \in Addrs : InBatches(p, a, LiveBatches)' = InBatches(p, a, LiveBatches)
  <2>1. \A k \in DOMAIN batches : /\ batches'[k].pool = batches[k].pool
                                  /\ batches'[k].items = batches[k].items
    BY <1>1, StatusChange
  <2>2. \A p \in Pools, a \in Addrs : BatchTerm(p, a, LiveBatches)' = BatchTerm(p, a, LiveBatches)
    BY <1>2, <2>1 DEF BatchTerm
  <2> QED BY <1>2, <2>2 DEF InBatches, BatchTerm
<1>4. \A p \in Pools, a \in Addrs : Credited(p, a)' = Credited(p, a)
  BY <1>1 DEF Credited
<1> QED BY <1>1, <1>3, <1>4 DEF LedgerConserved

(* Every step keeps the ledger balanced.                                   *)
LEMMA LedgerNext == TypeInv /\ LedgerConserved /\ [Next]_vars => LedgerConserved'
<1> SUFFICES ASSUME TypeInv, LedgerConserved, [Next]_vars PROVE LedgerConserved'
  OBVIOUS
<1>1. TypeOK /\ SendingInv /\ TypeOK'
  BY TypeNext DEF TypeInv
<1>2. CASE RecordShare
  BY <1>1, <1>2, LedgerRecordShare
<1>3. ASSUME NEW p \in Pools, SettleBlock(p) PROVE LedgerConserved'
  BY <1>1, <1>3, LedgerSettle
<1>4. ASSUME NEW p \in Pools, ReserveBatch(p) PROVE LedgerConserved'
  BY <1>1, <1>4, LedgerReserve
<1>5. ASSUME NEW p \in Pools, MarkBatchSent(p) PROVE LedgerConserved'
  BY <1>1, <1>5, LedgerMark
<1>6. CASE UNCHANGED <<shares, settlements, balances, batches>>
  BY <1>6, LedgerUnchanged
<1> QED
  BY <1>2, <1>3, <1>4, <1>5, <1>6
  DEF Next, Cycle, ChainMoves, InsertBlockStates, LoadBlockStates, LookupBlockConfirmations,
      LookupFails, UpdateBlockState, SettleFails, NothingToSettle, NothingDue,
      SendManyPays, SendManyFails, RefundBatch, Abandon, tables, vars

(* The empty ledger is balanced.                                           *)
LEMMA LedgerInit == Init => LedgerConserved
<1> SUFFICES ASSUME Init, NEW p \in Pools, NEW a \in Addrs
             PROVE  Credited(p, a) = balances[p][a] + InBatches(p, a, LiveBatches)
  BY DEF LedgerConserved
<1>1. Len(shares) = 0 /\ Len(batches) = 0 /\ balances[p][a] = 0
  BY DEF Init
<1>2. Credited(p, a) = 0 /\ InBatches(p, a, LiveBatches) = 0
  BY <1>1, RunningTotalStep DEF Credited, InBatches
<1> QED BY <1>1, <1>2

(* No satoshi appears in or disappears from the ledger: what an address    *)
(* was credited is its balance and the batches that were not refunded,     *)
(* in every state, wherever engines stop and whatever calls fail.          *)
THEOREM LedgerBalances == Spec => []LedgerConserved
<1>1. Init => TypeInv /\ LedgerConserved
  BY TypeInit, LedgerInit
<1>2. TypeInv /\ LedgerConserved /\ [Next]_vars => (TypeInv /\ LedgerConserved)'
  BY TypeNext, LedgerNext
<1> QED BY <1>1, <1>2, PTL DEF Spec

-----------------------------------------------------------------------------
(* Payments.  A batch that was paid stays among those that debited the     *)
(* balances, and an engine about to send holds one that was not.           *)

PaidInv ==
  /\ broadcast \subseteq LiveBatches
  /\ \A p \in Pools : pc[p] = "send" => batchID[p] \notin broadcast

(* No step gives a paid batch back or sends it once more.                  *)
LEMMA PaidNext == TypeInv /\ PaidInv /\ [Next]_vars => PaidInv'
<1> SUFFICES ASSUME TypeInv, PaidInv, [Next]_vars PROVE PaidInv'
  OBVIOUS
<1>0. TypeOK /\ SendingInv
  BY DEF TypeInv
<1> USE DEF PaidInv
<1>1. ASSUME NEW p \in Pools, ReserveBatch(p) PROVE PaidInv'
  <2>1. /\ Len(batches) \in Nat /\ DOMAIN batches = 1..Len(batches)
        /\ DOMAIN batches' = 1..(Len(batches) + 1)
        /\ \A k \in DOMAIN batches : batches'[k] = batches[k]
    BY <1>0, <1>1, BatchesType DEF ReserveBatch
  <2>2. /\ pc' = [pc EXCEPT ![p] = "send"]
        /\ batchID' = [batchID EXCEPT ![p] = Len(batches) + 1]
        /\ broadcast' = broadcast
    BY <1>1 DEF ReserveBatch, Debited, Goto, world
  <2>3. broadcast \subseteq 1..Len(batches)
    BY <1>0, <2>1 DEF TypeOK
  <2>4. LiveBatches \subseteq LiveBatches'
    BY <2>1 DEF LiveBatches
  <2>5. Len(batches) + 1 \notin broadcast
    BY <2>1, <2>3
  <2> QED BY <1>0, <2>2, <2>4, <2>5 DEF TypeOK
<1>2. ASSUME NEW p \in Pools, SendManyPays(p) PROVE PaidInv'
  <2>1. /\ batchID[p] \in LiveBatches
        /\ \A q \in Pools : q # p /\ pc[q] = "send" => batchID[q] # batchID[p]
    BY <1>0, <1>2 DEF SendManyPays, SendingInv, LiveBatches
  <2>2. /\ broadcast' = broadcast \cup {batchID[p]}
        /\ UNCHANGED <<batches, batchID>>
    BY <1>2 DEF SendManyPays, tables
  <2>3. /\ \A q \in Pools : q # p => pc'[q] = pc[q]
        /\ pc'[p] \in {"mark", "refund"}
    BY <1>0, <1>2 DEF SendManyPays, Goto, TypeOK
  <2>4. LiveBatches' = LiveBatches
    BY <2>2 DEF LiveBatches
  <2> QED BY <2>1, <2>2, <2>3, <2>4
<1>3. ASSUME NEW p \in Pools, SendManyFails(p) PROVE PaidInv'
  BY <1>0, <1>3 DEF SendManyFails, Goto, tables, world, LiveBatches, TypeOK
<1>4. ASSUME NEW p \in Pools, MarkBatchSent(p) PROVE PaidInv'
  <2>1. /\ batchID[p] \in DOMAIN batches
        /\ batches' = [batches EXCEPT ![batchID[p]].status = "sent"]
        /\ broadcast' = broadcast
    BY <1>0, <1>4 DEF MarkBatchSent, SetStatus, SendingInv, world
  <2>2. LiveBatches \subseteq LiveBatches'
    BY <1>0, <2>1, StatusChange DEF LiveBatches
  <2> QED BY <1>0, <1>4, <2>1, <2>2 DEF MarkBatchSent, SetStatus, EndCycle, Goto, TypeOK
<1>5. ASSUME NEW p \in Pools, RefundBatch(p) PROVE PaidInv'
  BY <1>0, <1>5 DEF RefundBatch, EndCycle, Goto, tables, world, LiveBatches, TypeOK
<1>6. ASSUME NEW p \in Pools, Abandon(p) PROVE PaidInv'
  BY <1>0, <1>6 DEF Abandon, EndCycle, Goto, tables, world, LiveBatches, TypeOK
<1>7. ASSUME UNCHANGED <<batches, broadcast, batchID>>, NEW p \in Pools, NEW stage,
             stage # "send", Goto(p, stage)
      PROVE  PaidInv'
  BY <1>0, <1>7 DEF Goto, LiveBatches, TypeOK
<1>8. CASE UNCHANGED <<batches, broadcast, batchID, pc>>
  BY <1>8 DEF LiveBatches
<1>9. ASSUME NEW p \in Pools, InsertBlockStates(p) \/ LoadBlockStates(p)
      PROVE  PaidInv'
  BY <1>7, <1>9 DEF InsertBlockStates, LoadBlockStates, tables, world
<1>10. ASSUME NEW p \in Pools,
              LookupBlockConfirmations(p) \/ LookupFails(p) \/ UpdateBlockState(p)
       PROVE  PaidInv'
  <2>1. CASE UpdateBlockState(p) /\ ~SimpleProtocol
    <3>1. /\ UNCHANGED <<batches, broadcast>>
          /\ pc' = [pc EXCEPT ![p] = "idle"] /\ batchID' = [batchID EXCEPT ![p] = 0]
      BY <2>1 DEF UpdateBlockState, EndCycle, Goto, world
    <3> QED BY <1>0, <3>1 DEF LiveBatches, TypeOK
  <2>2. CASE ~(UpdateBlockState(p) /\ ~SimpleProtocol)
    BY <1>7, <1>10, <2>2 DEF LookupBlockConfirmations, LookupFails, UpdateBlockState, NextBlock,
       tables, world
  <2> QED BY <2>1, <2>2
<1>11. ASSUME NEW p \in Pools, SettleFails(p) \/ NothingToSettle(p) \/ NothingDue(p)
       PROVE  PaidInv'
  BY <1>7, <1>11 DEF SettleFails, NothingToSettle, NothingDue, tables, world
<1> QED
  BY <1>1, <1>2, <1>3, <1>4, <1>5, <1>6, <1>8, <1>9, <1>10, <1>11
  DEF Next, Cycle, RecordShare, ChainMoves, SettleBlock, tables, engine, world, vars

(* What is paid is part of what is held in batches that were not refunded. *)
LEMMA PaidIsCredited ==
  TypeInv /\ PaidInv /\ LedgerConserved => NoOverpay
<1> SUFFICES ASSUME TypeOK, PaidInv, LedgerConserved, NEW p \in Pools, NEW a \in Addrs
             PROVE  Paid(p, a) <= Credited(p, a)
  BY DEF TypeInv, NoOverpay
<1> DEFINE f == BatchTerm(p, a, broadcast)
           g == BatchTerm(p, a, LiveBatches)
           n == Len(batches)
<1>1. /\ Paid(p, a) = RunningTotal(f, n)
      /\ InBatches(p, a, LiveBatches) = RunningTotal(g, n)
      /\ n \in Nat /\ DOMAIN batches = 1..n
      /\ \A k \in 1..n : f[k] \in Int /\ g[k] \in Int /\ g[k] >= 0
      /\ balances[p][a] \in Nat
  BY LedgerSums DEF Paid
<1>2. \A k \in 1..n : f[k] <= g[k]
  BY <1>1 DEF PaidInv, BatchTerm
<1>3. RunningTotal(f, n) \in Int /\ RunningTotal(g, n) \in Int
  BY LedgerSums, RunningTotalNat
<1>4. Credited(p, a) = balances[p][a] + InBatches(p, a, LiveBatches)
  BY DEF LedgerConserved
<1> HIDE DEF f, g, n
<1>5. RunningTotal(f, n) <= RunningTotal(g, n)
  BY <1>1, <1>2, RunningTotalMonotone
<1> QED BY <1>1, <1>3, <1>4, <1>5

(* The wallet never pays an address more than its blocks credited to it,   *)
(* wherever engines stop and whether or not the wallet's answers arrive.   *)
THEOREM PaidAtMostCredited == Spec => []NoOverpay
<1>1. Init => TypeInv /\ LedgerConserved /\ PaidInv
  BY TypeInit, LedgerInit DEF Init, PaidInv
<1>2. TypeInv /\ LedgerConserved /\ PaidInv /\ [Next]_vars
        => (TypeInv /\ LedgerConserved /\ PaidInv)'
  BY TypeNext, LedgerNext, PaidNext
<1>3. TypeInv /\ LedgerConserved /\ PaidInv => NoOverpay
  BY PaidIsCredited
<1> QED BY <1>1, <1>2, <1>3, PTL DEF Spec
=============================================================================
