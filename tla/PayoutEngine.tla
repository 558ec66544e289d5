---------------------------- MODULE PayoutEngine ----------------------------
(***************************************************************************)
(* The payout engine of internal/accounting/payout.go over the database of *)
(* migrations/0001-0005: it follows the blocks the pool found until they   *)
(* are mature or orphaned, credits each matured block to the miners of its *)
(* round, and sends the balances due in batches through the coin daemon.   *)
(*                                                                         *)
(* One engine runs per pool (pool.id is unique per instance), all engines  *)
(* share the tables.  A committed transaction is one action.  Every place  *)
(* where the code can stop between two commits or calls is a state: an     *)
(* engine is abandoned there when a statement fails, the context is        *)
(* cancelled or the process dies, and starts its next cycle from scratch.  *)
(***************************************************************************)
EXTENDS Allocation, Sequences

CONSTANTS
  Pools,            \* the pool.id of every instance
  SchemeOf,         \* payouts.scheme of every pool: "lprop" or "solo"
  Workers,          \* worker names as authorized: "<address>.<rig>"
  AddressOf,        \* the address part of a worker name, 0 when it is empty
  NumAddrs,         \* payout addresses are 1..NumAddrs
  ValidAddrs,       \* the addresses isValidAddress accepts
  Diffs,            \* share difficulties
  RewardSat,        \* coinbase.reward
  DevFeeBps,        \* coinbase.developer_fee_percent, in basis points
  PoolFeeBps,       \* payouts.pool_fee_percent, in basis points
  MinPayoutSat,     \* payouts.min_payout_sat
  BlockMaturity,    \* payouts.block_maturity
  SimpleProtocol,   \* TRUE: DATABASE_URL selects pgx's simple protocol
  Faults,           \* the kinds of failure that may happen
  MaxFaults,        \* bound: how many failures happen
  MaxShares,        \* bound: how many shares are recorded
  MaxBatches        \* bound: how many batches are created

Addrs == 1..NumAddrs

FaultKinds == {"stop", "lookup", "reject", "lostReply"}

ASSUME NumAddrsAssumption == NumAddrs \in Nat
ASSUME WorkersAssumption  == AddressOf \in [Workers -> 0..NumAddrs]
ASSUME SchemesAssumption  == SchemeOf \in [Pools -> {"lprop", "solo"}]
ASSUME DiffsAssumption    == Diffs \subseteq Nat \ {0}
ASSUME RewardAssumption   == RewardSat \in Nat
ASSUME FeesAssumption     == /\ DevFeeBps \in Nat /\ DevFeeBps < 10000
                             /\ PoolFeeBps \in Nat /\ PoolFeeBps < 10000
ASSUME PayoutAssumption   == MinPayoutSat \in Nat
ASSUME MaturityAssumption == BlockMaturity \in Nat \ {0}
ASSUME DriverAssumption   == SimpleProtocol \in BOOLEAN
ASSUME FaultsAssumption   == Faults \subseteq FaultKinds
ASSUME BoundsAssumption   == {MaxFaults, MaxShares, MaxBatches} \subseteq Nat

VARIABLES
  shares,       \* table shares, by id
  blockStates,  \* block_states.status, by the id of the block's share
  settlements,  \* table block_settlements: the round's first share, the credits
  balances,     \* balances.amount_sat of each pool and address
  batches,      \* table payout_batches with its payout_batch_items, by id
  conf,         \* the daemon's confirmations of the block of each share
  broadcast,    \* the batches the wallet has paid
  pc,           \* where the engine of each pool stands in its cycle
  todo,         \* the loaded blocks it has still to look up
  answer,       \* the confirmations the daemon answered for the first of them
  batchID,      \* the batch it is sending
  faults        \* failures so far

tables == <<shares, blockStates, settlements, balances, batches>>
engine == <<pc, todo, answer, batchID>>
world  == <<conf, broadcast>>
vars   == <<tables, engine, world, faults>>

-----------------------------------------------------------------------------
(* Data. *)

Missing == -1   \* the daemon does not know the block, or not on its best chain

Confirmations == {Missing} \cup 0..BlockMaturity   \* BlockMaturity or more

Pending == {"found", "immature", "mature"}
Final   == {"settled", "orphan"}

Share == [pool : Pools, worker : Workers, diff : Diffs, type : {"share", "block"}]

Settlement == [start : Nat, credit : [Addrs -> Nat]]

Batch == [pool : Pools, status : {"pending", "sent", "failed"},
          items : [Addrs -> Nat]]

Stage == {"idle", "load", "lookup", "update", "settle", "payout",
          "send", "mark", "refund"}

(* mutant: shares of every type *)
AnyShares(p) == {s \in DOMAIN shares : shares[s].pool = p}

BlockShares(p) == {s \in DOMAIN shares : shares[s].pool = p /\ shares[s].type = "block"}

FirstOf(S, b) == b \in S /\ \A c \in S : b <= c

MinerRewardSat == MinerReward(RewardSat, DevFeeBps, PoolFeeBps)

-----------------------------------------------------------------------------
Init ==
  /\ shares = << >> /\ conf = << >>
  /\ blockStates = [b \in {} |-> "found"]
  /\ settlements = [b \in {} |-> [start |-> 0, credit |-> [a \in Addrs |-> 0]]]
  /\ balances = [p \in Pools |-> [a \in Addrs |-> 0]]
  /\ batches = << >> /\ broadcast = {}
  /\ pc = [p \in Pools |-> "idle"]
  /\ todo = [p \in Pools |-> {}]
  /\ answer = [p \in Pools |-> Missing]
  /\ batchID = [p \in Pools |-> 0]
  /\ faults = 0

(* A failure of the given kind happens now. *)
Fault(kind) == kind \in Faults /\ faults < MaxFaults /\ faults' = faults + 1

Goto(p, stage) == pc' = [pc EXCEPT ![p] = stage]

(* the locals of the cycle go out of scope *)
EndCycle(p) ==
  /\ Goto(p, "idle")
  /\ todo' = [todo EXCEPT ![p] = {}]
  /\ answer' = [answer EXCEPT ![p] = Missing]
  /\ batchID' = [batchID EXCEPT ![p] = 0]

-----------------------------------------------------------------------------
(* The surroundings: the stratum server records accepted shares, the chain *)
(* grows and reorganises.  A block with BlockMaturity confirmations stays. *)

RecordShare ==
  /\ Len(shares) < MaxShares
  /\ \E s \in Share, c \in Confirmations \ {BlockMaturity} :
       /\ s.type = "share" => c = Missing
       /\ shares' = Append(shares, s)
       /\ conf' = Append(conf, c)
  /\ UNCHANGED <<blockStates, settlements, balances, batches, engine, broadcast, faults>>

ChainMoves ==
  /\ \E b \in DOMAIN shares, c \in Confirmations :
       /\ shares[b].type = "block" /\ conf[b] < BlockMaturity /\ c # conf[b]
       /\ conf' = [conf EXCEPT ![b] = c]
  /\ UNCHANGED <<tables, engine, broadcast, faults>>

-----------------------------------------------------------------------------
(* syncBlockStates *)

(* INSERT ... SELECT of a row for every new block share of the pool *)
InsertBlockStates(p) ==
  /\ pc[p] = "idle"
  /\ blockStates' = [b \in DOMAIN blockStates \cup BlockShares(p) |->
                       IF b \in DOMAIN blockStates THEN blockStates[b] ELSE "found"]
  /\ Goto(p, "load")
  /\ UNCHANGED <<shares, settlements, balances, batches, todo, answer, batchID, world, faults>>

(* mutant: the WHERE clause forgets the status *)
UnfinishedOrNot(p) == {b \in DOMAIN blockStates : shares[b].pool = p}

Unfinished(p) ==
  {b \in DOMAIN blockStates : shares[b].pool = p /\ blockStates[b] \in Pending}

LoadBlockStates(p) ==
  /\ pc[p] = "load"
  /\ todo' = [todo EXCEPT ![p] = Unfinished(p)]
  /\ Goto(p, IF Unfinished(p) = {} THEN "settle" ELSE "lookup")
  /\ UNCHANGED <<tables, answer, batchID, world, faults>>

(* the block is done with: the next one, or on to the settlements *)
NextBlock(p, b) ==
  /\ todo' = [todo EXCEPT ![p] = @ \ {b}]
  /\ answer' = [answer EXCEPT ![p] = Missing]
  /\ Goto(p, IF todo[p] = {b} THEN "settle" ELSE "lookup")

(* The daemon answers; the answer is written later, by UpdateBlockState. *)
LookupBlockConfirmations(p) ==
  /\ pc[p] = "lookup"
  /\ \E b \in todo[p] :
       /\ FirstOf(todo[p], b)
       /\ answer' = [answer EXCEPT ![p] = conf[b]]
  /\ Goto(p, "update")
  /\ UNCHANGED <<tables, todo, batchID, world, faults>>

(* Only last_error is written and the loop goes on. *)
LookupFails(p) ==
  /\ pc[p] = "lookup"
  /\ Fault("lookup")
  /\ \E b \in todo[p] : FirstOf(todo[p], b) /\ NextBlock(p, b)
  /\ UNCHANGED <<tables, batchID, world>>

(* mutants: a block matures one confirmation early, or late *)
MaturesEarly(confirmations) ==
  IF confirmations < 0 THEN "orphan"
  ELSE IF confirmations >= BlockMaturity - 1 THEN "mature" ELSE "immature"

MaturesLate(confirmations) ==
  IF confirmations < 0 THEN "orphan"
  ELSE IF confirmations > BlockMaturity THEN "mature" ELSE "immature"

NextStatus(confirmations) ==
  IF confirmations < 0 THEN "orphan"
  ELSE IF confirmations >= BlockMaturity THEN "mature"
  ELSE IF confirmations > 0 THEN "immature" ELSE "found"

(***************************************************************************)
(* The UPDATE sets the enum column status to $2 and compares $2 with a     *)
(* text: a server that has to deduce the type of $2 refuses to prepare it, *)
(* and the error ends the cycle.  With the parameters written into the     *)
(* statement (simple protocol) it runs.                                    *)
(***************************************************************************)
UpdateBlockState(p) ==
  /\ pc[p] = "update"
  /\ IF SimpleProtocol
     THEN /\ \E b \in todo[p] :
               /\ FirstOf(todo[p], b)
               /\ blockStates' = [blockStates EXCEPT ![b] = NextStatus(answer[p])]
               /\ NextBlock(p, b)
          /\ UNCHANGED batchID
     ELSE EndCycle(p) /\ UNCHANGED blockStates
  /\ UNCHANGED <<shares, settlements, balances, batches, world, faults>>

-----------------------------------------------------------------------------
(* settleAllBlocks and settleNextBlock *)

(* mutant: the query forgets the pool *)
UnsettledOfAll(p) ==
  {b \in DOMAIN blockStates : blockStates[b] = "mature" /\ b \notin DOMAIN settlements}

Unsettled(p) ==
  {b \in DOMAIN blockStates :
     shares[b].pool = p /\ blockStates[b] = "mature" /\ b \notin DOMAIN settlements}

(* mutants: the round starts after the last settled block, or after a      *)
(* block of any pool                                                       *)
PreviousSettled(p, b, prev) ==
  LET older == {c \in DOMAIN settlements : shares[c].pool = p /\ c < b}
  IN  prev \in older \cup {0} /\ \A c \in older : c <= prev

PreviousOfAll(p, b, prev) ==
  LET older == {c \in DOMAIN shares : shares[c].type = "block" /\ c < b}
  IN  prev \in older \cup {0} /\ \A c \in older : c <= prev

(* prev is COALESCE(MAX(id), 0) over the pool's block shares before b *)
PreviousBlock(p, b, prev) ==
  /\ prev \in BlockShares(p) \cup {0} /\ prev < b
  /\ \A c \in BlockShares(p) : c < b => c <= prev

(* the difficulty each address contributed to the round (prev, b] *)
RoundWeights(p, prev, b) ==
  [a \in Addrs |->
     RunningTotal([s \in DOMAIN shares |->
                     IF /\ shares[s].pool = p /\ prev < s /\ s <= b
                        /\ AddressOf[shares[s].worker] = a
                     THEN shares[s].diff ELSE 0], Len(shares))]

SoloCredit(b) ==
  [a \in Addrs |-> IF a = AddressOf[shares[b].worker] THEN MinerRewardSat ELSE 0]

(* b ends a round that starts after share prev; solo rounds are b alone *)
RoundOf(p, b, prev) ==
  IF SchemeOf[p] = "solo" THEN prev = b - 1 ELSE PreviousBlock(p, b, prev)

(* there is a reward left to share and somebody with an address to pay *)
CanSettle(p, b, prev) ==
  /\ MinerRewardSat > 0
  /\ IF SchemeOf[p] = "solo" THEN AddressOf[shares[b].worker] # 0
     ELSE Earners(RoundWeights(p, prev, b), NumAddrs) # {}

CreditOf(p, b, prev) ==
  IF SchemeOf[p] = "solo" THEN SoloCredit(b)
  ELSE AllocateByWeight(MinerRewardSat, RoundWeights(p, prev, b), NumAddrs)

(* The settlement transaction of the oldest matured block commits. *)
SettleBlock(p) ==
  /\ pc[p] = "settle"
  /\ \E b \in Unsettled(p), prev \in 0..Len(shares) :
       /\ FirstOf(Unsettled(p), b)
       /\ RoundOf(p, b, prev)
       /\ CanSettle(p, b, prev)
       /\ balances' = [balances EXCEPT ![p] =
                         [a \in Addrs |-> @[a] + CreditOf(p, b, prev)[a]]]
       /\ settlements' = [c \in DOMAIN settlements \cup {b} |->
                            IF c = b THEN [start |-> prev + 1, credit |-> CreditOf(p, b, prev)]
                            ELSE settlements[c]]
       /\ blockStates' = [blockStates EXCEPT ![b] = "settled"]
  /\ UNCHANGED <<shares, batches, engine, world, faults>>

(* The oldest matured block cannot be settled: the cycle ends in an error. *)
SettleFails(p) ==
  /\ pc[p] = "settle"
  /\ \E b \in Unsettled(p), prev \in 0..Len(shares) :
       /\ FirstOf(Unsettled(p), b)
       /\ RoundOf(p, b, prev)
       /\ ~CanSettle(p, b, prev)
  /\ Goto(p, "idle")
  /\ UNCHANGED <<tables, todo, answer, batchID, world, faults>>

NothingToSettle(p) ==
  /\ pc[p] = "settle"
  /\ Unsettled(p) = {}
  /\ Goto(p, "payout")
  /\ UNCHANGED <<tables, todo, answer, batchID, world, faults>>

-----------------------------------------------------------------------------
(* trySendPayoutBatch and markBatchFailedAndRefund *)

(* mutant: a balance of exactly the minimum is not due *)
DueAbove(p) == {a \in Addrs : balances[p][a] > MinPayoutSat}

Due(p) == {a \in Addrs : balances[p][a] >= MinPayoutSat /\ balances[p][a] > 0}

NothingDue(p) ==
  /\ pc[p] = "payout"
  /\ Due(p) = {}
  /\ Goto(p, "idle")
  /\ UNCHANGED <<tables, todo, answer, batchID, world, faults>>

(* mutant: every balance is zeroed *)
Zeroed(p, items) == [a \in Addrs |-> 0]

Debited(p, items) == [a \in Addrs |-> balances[p][a] - items[a]]

(* One transaction records the batch and debits its balances. *)
ReserveBatch(p) ==
  /\ pc[p] = "payout"
  /\ Due(p) # {} /\ Len(batches) < MaxBatches
  /\ LET items == [a \in Addrs |-> IF a \in Due(p) THEN balances[p][a] ELSE 0]
     IN  /\ batches' = Append(batches, [pool |-> p, status |-> "pending", items |-> items])
         /\ balances' = [balances EXCEPT ![p] = Debited(p, items)]
  /\ batchID' = [batchID EXCEPT ![p] = Len(batches) + 1]
  /\ Goto(p, "send")
  /\ UNCHANGED <<shares, blockStates, settlements, todo, answer, world, faults>>

Recipients(k) == {a \in Addrs : batches[k].items[a] > 0}

(* The wallet pays the batch; its answer may be lost. *)
SendManyPays(p) ==
  /\ pc[p] = "send"
  /\ Recipients(batchID[p]) \subseteq ValidAddrs
  /\ broadcast' = broadcast \cup {batchID[p]}
  /\ \/ Goto(p, "mark") /\ UNCHANGED faults
     \/ Goto(p, "refund") /\ Fault("lostReply")
  /\ UNCHANGED <<tables, todo, answer, batchID, conf>>

(* No call is made for an invalid address; the wallet may refuse any. *)
SendManyFails(p) ==
  /\ pc[p] = "send"
  /\ \/ ~(Recipients(batchID[p]) \subseteq ValidAddrs) /\ UNCHANGED faults
     \/ Recipients(batchID[p]) \subseteq ValidAddrs /\ Fault("reject")
  /\ Goto(p, "refund")
  /\ UNCHANGED <<tables, todo, answer, batchID, world>>

(* mutant: the UPDATE matches all the rows of the pool *)
StatusOfAll(k, status) ==
  batches' = [j \in DOMAIN batches |->
                IF batches[j].pool = batches[k].pool
                THEN [batches[j] EXCEPT !.status = status] ELSE batches[j]]

SetStatus(k, status) == batches' = [batches EXCEPT ![k].status = status]

MarkBatchSent(p) ==
  /\ pc[p] = "mark"
  /\ SetStatus(batchID[p], "sent")
  /\ EndCycle(p)
  /\ UNCHANGED <<shares, blockStates, settlements, balances, world, faults>>

(* mutant: the refund commits, whatever became of the payment *)
RefundCommits(p) ==
  /\ pc[p] = "refund"
  /\ balances' = [balances EXCEPT ![p] =
                    [a \in Addrs |-> @[a] + batches[batchID[p]].items[a]]]
  /\ SetStatus(batchID[p], "failed")
  /\ EndCycle(p)
  /\ UNCHANGED <<shares, blockStates, settlements, world, faults>>

(***************************************************************************)
(* The refund loop updates a balance while the result set of the batch's   *)
(* items is open on the same transaction.  pgx keeps the connection busy   *)
(* until the rows are closed: the first update fails, the transaction      *)
(* rolls back and the cycle ends in an error, with nothing given back.     *)
(***************************************************************************)
RefundBatch(p) ==
  /\ pc[p] = "refund"
  /\ EndCycle(p)
  /\ UNCHANGED <<tables, world, faults>>

(* A statement fails, the context is cancelled or the process restarts. *)
Abandon(p) ==
  /\ pc[p] # "idle"
  /\ Fault("stop")
  /\ EndCycle(p)
  /\ UNCHANGED <<tables, world>>

-----------------------------------------------------------------------------
(* runCycle, again and again *)

Cycle(p) ==
  \/ InsertBlockStates(p) \/ LoadBlockStates(p)
  \/ LookupBlockConfirmations(p) \/ LookupFails(p) \/ UpdateBlockState(p)
  \/ SettleBlock(p) \/ SettleFails(p) \/ NothingToSettle(p)
  \/ NothingDue(p) \/ ReserveBatch(p)
  \/ SendManyPays(p) \/ SendManyFails(p)
  \/ MarkBatchSent(p) \/ RefundBatch(p)

Next ==
  \/ RecordShare
  \/ ChainMoves
  \/ \E p \in Pools : Cycle(p) \/ Abandon(p)

Spec == Init /\ [][Next]_vars

(* The ticker runs a cycle every payouts.interval_sec seconds. *)
FairSpec == Spec /\ \A p \in Pools : WF_vars(Cycle(p))

-----------------------------------------------------------------------------
(* Properties. *)

(* Every table and local variable has its type: states and settlements are *)
(* rows of block shares, the engine looks up and sends rows that exist.    *)
TypeOK ==
  /\ shares \in Seq(Share) /\ Len(shares) <= MaxShares
  /\ conf \in Seq(Confirmations) /\ Len(conf) = Len(shares)
  /\ blockStates \in [DOMAIN blockStates -> Pending \cup Final]
  /\ DOMAIN blockStates \subseteq {b \in DOMAIN shares : shares[b].type = "block"}
  /\ settlements \in [DOMAIN settlements -> Settlement]
  /\ DOMAIN settlements \subseteq DOMAIN blockStates
  /\ balances \in [Pools -> [Addrs -> Nat]]
  /\ batches \in Seq(Batch)
  /\ broadcast \subseteq DOMAIN batches
  /\ pc \in [Pools -> Stage]
  /\ todo \in [Pools -> SUBSET DOMAIN blockStates]
  /\ answer \in [Pools -> Confirmations]
  /\ batchID \in [Pools -> {0} \cup DOMAIN batches]
  /\ faults \in 0..MaxFaults

(* what the settlements of a pool credited to an address *)
Credited(p, a) ==
  RunningTotal([b \in DOMAIN shares |->
                  IF b \in DOMAIN settlements /\ shares[b].pool = p
                  THEN settlements[b].credit[a] ELSE 0], Len(shares))

(* what a pool's batches among ks hold for an address *)
InBatches(p, a, ks) ==
  RunningTotal([k \in DOMAIN batches |->
                  IF k \in ks /\ batches[k].pool = p
                  THEN batches[k].items[a] ELSE 0], Len(batches))

SettledBlocks(p) == {b \in DOMAIN settlements : shares[b].pool = p}

LiveBatches == {k \in DOMAIN batches : batches[k].status # "failed"}

Paid(p, a) == InBatches(p, a, broadcast)

(* No satoshi appears or disappears in the ledger: what a pool's blocks    *)
(* credited to an address is its balance and the batches that debited it   *)
(* and were not refunded, wherever the engine was stopped.                 *)
LedgerConserved ==
  \A p \in Pools, a \in Addrs :
    Credited(p, a) = balances[p][a] + InBatches(p, a, LiveBatches)

(* The wallet never pays an address more than its blocks credited to it,   *)
(* although an answer of sendmany may be lost after the wallet paid.       *)
NoOverpay == \A p \in Pools, a \in Addrs : Paid(p, a) <= Credited(p, a)

(* However often engines stop and calls fail, what a pool owes, has set    *)
(* aside and has sent is, over all its miners, the reward of each block it *)
(* settled, to the satoshi and not once more.                              *)
RewardsAccounted ==
  \A p \in Pools :
    RunningTotal([a \in Addrs |-> balances[p][a] + InBatches(p, a, LiveBatches)], NumAddrs)
      = Cardinality(SettledBlocks(p)) * MinerRewardSat

(* A settled lprop block pays for the shares of its pool after the pool's  *)
(* previous block, found, orphaned or settled, and no others: the rounds   *)
(* of a pool share no share and skip none, however late they are settled   *)
(* and whatever other pools record in between.  A solo round is its block. *)
RoundsPartitionShares ==
  \A b \in DOMAIN settlements, s \in DOMAIN shares :
    shares[s].pool = shares[b].pool =>
      ((settlements[b].start <= s /\ s <= b)
         <=> IF SchemeOf[shares[b].pool] = "solo" THEN s = b
             ELSE /\ s <= b
                  /\ \A c \in BlockShares(shares[b].pool) : s <= c => b <= c)

(* A block is credited only with BlockMaturity confirmations on the chain, *)
(* although the status it is settled by was written from an older answer.  *)
SettledOnChain == \A b \in DOMAIN settlements : conf[b] = BlockMaturity

(* A block has a settlement row exactly when its status is settled: the    *)
(* two guards of settleNextBlock against paying twice never disagree.      *)
StatusMatchesRow ==
  \A b \in DOMAIN blockStates : blockStates[b] = "settled" <=> b \in DOMAIN settlements

(* Settled and orphan are final: the unguarded UPDATE of syncBlockStates,  *)
(* from a list loaded earlier, never brings such a block back.             *)
FinalStatusSticks ==
  [][\A b \in DOMAIN blockStates :
       blockStates[b] \in Final => blockStates'[b] = blockStates[b]]_vars

(* A batch changes once, when the engine that reserved it and still has it *)
(* in hand marks it sent: a later cycle, a restarted engine or another     *)
(* pool's never does, and what an engine let go pending stays so.          *)
BatchEndsOnce ==
  [][\A k \in DOMAIN batches :
       batches'[k] # batches[k] =>
         /\ batches[k].status = "pending" /\ batches'[k].status = "sent"
         /\ batchID[batches[k].pool] = k /\ batchID'[batches[k].pool] = 0]_vars

(* what the tables hold of a pool *)
RowsOf(p) ==
  <<[b \in {c \in DOMAIN blockStates : shares[c].pool = p} |-> blockStates[b]],
    [b \in SettledBlocks(p) |-> settlements[b]],
    balances[p],
    [k \in {j \in DOMAIN batches : batches[j].pool = p} |-> batches[k]]>>

(* The engines of all pools run over the same tables and interleave at     *)
(* every statement: the rows of a pool change by its own engine only.      *)
EnginesKeepApart == [][\A p \in Pools : RowsOf(p)' # RowsOf(p) => Cycle(p)]_vars

(* A payout batch is pending only while an engine is about to finish it:   *)
(* each batch ends sent or failed with its balances refunded.              *)
NothingStranded ==
  \A k \in DOMAIN batches :
    batches[k].status = "pending" => \E p \in Pools : batchID[p] = k

(* A block of a worker with a payout address that matured on the chain is  *)
(* eventually settled, unless it was seen off the chain and orphaned.      *)
MaturedIsSettled ==
  \A b \in 1..MaxShares :
    (/\ b \in DOMAIN shares /\ shares[b].type = "block"
     /\ AddressOf[shares[b].worker] # 0 /\ conf[b] = BlockMaturity)
      ~> (b \in DOMAIN blockStates /\ blockStates[b] \in Final)

(* A balance that reaches the minimum payout is eventually paid in full:   *)
(* there comes a time when nothing is owed and all that was credited is    *)
(* paid.  This is so only of an engine that is not interrupted and a       *)
(* wallet that takes every batch and answers: see NothingStranded.         *)
BalanceIsPaid ==
  \A p \in Pools, a \in Addrs :
    (balances[p][a] >= MinPayoutSat /\ balances[p][a] > 0)
      ~> (balances[p][a] = 0 /\ Paid(p, a) = Credited(p, a))

(* The engines keep the promises of PayoutLedger.                          *)
Ledger == INSTANCE PayoutLedger WITH
  rewarded <- DOMAIN settlements,
  owed     <- balances,
  reserved <- [p \in Pools |-> [a \in Addrs |-> InBatches(p, a, LiveBatches \ broadcast)]],
  paid     <- [p \in Pools |-> [a \in Addrs |-> Paid(p, a)]]

ImplementsLedger == Ledger!Spec
=============================================================================
