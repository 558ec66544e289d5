# Verification of Q-BitX Pool

TLA+ models of the mining pool in this repository, TLC runs that check them on
small instances, and TLAPS proofs of what holds for every instance. Paths are
relative to `src/`; `PROJECT.json` maps every definition to the lines it models.

## 1. Inventory

| part | code | state | operations | modelled in |
|---|---|---|---|---|
| payout engine | `internal/accounting/payout.go` | tables `block_states`, `block_settlements`, `balances`, `payout_batches`, `payout_batch_items`; the locals of a cycle | sync block states, settle matured blocks, send a payout batch, refund | `PayoutEngine`, `PayoutLedger` |
| reward arithmetic | `payout.go:506-588`, `mining.go:105-134` | none | two fee computations, largest-remainder split | `Allocation`, `RewardSplit` |
| schema | `migrations/0001-0005` | keys, checks, enumerated types | | state of `PayoutEngine`, `StratumServer!IsFree` |
| share store | `internal/accounting/postgres_store.go` | table `shares` | insert an accepted share | `StratumServer`; `PayoutEngine!RecordShare` |
| daemon client | `internal/daemon/rpc.go` | none | `getblock`, `sendmany`; `getblocktemplate`, `submitblock` | as their callers see them |
| configuration | `internal/config/config.go` | none | validation | the assumptions on the constants, `Vardiff!DifficultyCfg` |
| stratum server | `internal/stratum/server.go` | connections, their job, difficulty, submissions | connect, subscribe, authorize, submit, broadcast, retarget | `JobFeed`, `StratumServer`, `ShareLedger`, `Vardiff` |
| job maker | `internal/job/job.go` | current job, last tip, subscriber queue | poll, build, notify | `JobFeed`; ids in `StratumServer` |
| share validator | `internal/share/validator.go` | none | validate, submit a block | `StratumServer` |
| coinbase and merkle tree | `internal/mining/mining.go` | none | coinbase, branch, root, header | `Merkle`: branch and root |
| migration runner | `internal/accounting/migrate.go` | `schema_migrations`, an advisory lock | apply pending files | `Migrations` |
| process | `cmd/pool/main.go` | none | wiring, start, shutdown | `Migrations!Start`, `StratumServer!Restart`, `PayoutEngine!Abandon` |

**How the parts meet.** The job maker polls the daemon for templates and pushes
jobs through a queue to the stratum server, which hands them to its
connections. A submission is checked against the connection's job and then
validated against the job maker's current one; a block goes to the daemon; then
an accepted share or block becomes a row of `shares`. The payout engine never
talks to the stratum server: it reads `shares`, asks the daemon about the
blocks among them, and writes the other tables. Several instances of the
whole process, each with its own `pool.id`, share one database.

**What is hard.** The engine works in separate transactions with calls to the
daemon between them, so it can stop, or be told nothing, between any two; it
writes a status from a list and an answer read earlier; it decides what to do
from several tables that must agree; the pools' engines interleave; money is
debited before it is sent. In the stratum server goroutines race to give a
connection its job, a share is checked against one job and validated against
another, a block is submitted before it is recorded, and the difficulty is
multiplied again and again under limits nobody checks, while shares of the one
before are still on their way. `PROJECT.json` lists each hazard at its line.

**What makes each part correct.**

* payout engine: credits equal balances plus batches, always; each block is
  credited once, when it is mature, to the shares of its own round; nobody is
  paid more than was credited; a final status stays; a matured block is
  eventually settled, a due balance eventually paid.
* reward arithmetic: the split gives away exactly the reward, proportionally to
  within a satoshi and its rounding, in any order of the map; a coinbase worth
  the configured reward leaves what the settlement credits.
* stratum server, job maker, validator: no piece of work is credited twice; a
  block accepted by the daemon has a row; a connection ends up on the current
  job; its difficulty stays within the limits and is the one its miner was told.
* merkle tree: the root of the header is the root of the block's transactions.
* migrations: every file is applied exactly once, in order.

## 2. Modules

| module | what it is |
|---|---|
| `Allocation` | fees and the largest-remainder split as operators over integers |
| `AllocationProofs` | lemmas about sums and fees; the split is exact |
| `RewardSplit` | the same computations as the loops of the code, with any order of the map and products rounded either way, and the other fee function |
| `RewardSplitProofs` | the theorems about the loops, and that they compute `AllocateByWeight` |
| `PayoutLedger` | the abstract promise: owed, reserved, paid |
| `PayoutEngine` | the engines of all pools over the shared tables, and the properties |
| `PayoutEngineProofs` | the theorems about the properties |
| `PayoutLedgerProofs` | that the engines implement `PayoutLedger` |
| `JobFeed` | how a job reaches the miners: poll loop, channel, broadcaster, handlers |
| `StratumServer` | what becomes of a share: the handlers, the validator, the insert |
| `ShareLedger` | the abstract promise of the server: work counts once, and is confirmed once |
| `Vardiff` | the difficulty of a connection: authorization, shares, retargets |
| `Migrations` | instances that start together over one database |
| `JobFeedProofs`, `StratumServerProofs`, `VardiffProofs`, `MigrationsProofs` | the theorems about them |
| `Merkle` | the branch and the root against the tree of the block |
| `MCPayoutEngine`, `MCRewardSplit`, `MCJobFeed`, `MCStratumServer`, `MCVardiff`, `MCMigrations` | values of the constants that a `.cfg` cannot write |

### PayoutEngine

A committed transaction is one action, so is a call to the daemon; the point
between two of them is a value of `pc`. A cycle (`runCycle`) goes

    idle -InsertBlockStates-> load -LoadBlockStates-> lookup
    lookup -LookupBlockConfirmations-> update -UpdateBlockState-> lookup ... settle
    lookup -LookupFails-> lookup ... settle
    settle -SettleBlock-> settle   settle -SettleFails-> idle   settle -NothingToSettle-> payout
    payout -NothingDue-> idle      payout -ReserveBatch-> send
    send -SendManyPays-> mark | refund      send -SendManyFails-> refund
    mark -MarkBatchSent-> idle     refund -RefundBatch-> idle
    any of them -Abandon-> idle

`Abandon` is an error of a statement, a cancelled context or a restart: the
locals are gone, the tables stay. A transaction whose commit succeeds but whose
answer is lost is the commit followed by `Abandon`. `RecordShare` is what the
stratum server does to the tables, `ChainMoves` what the network does to the
daemon's answers. `conf[b] = -1` is a block the daemon does not know or does not
have on its best chain, which `NextStatus` treats alike.

A constant stands for how the driver is set up, because the code depends on it.
`SimpleProtocol` says that parameters are written into statements; otherwise the
server prepares them and refuses the UPDATE of `syncBlockStates`, whose `$2` is
an enum in one place and a text in another (see run *prepared*). pgx prepares by
default; a `default_query_exec_mode=simple_protocol` in `DATABASE_URL` changes
that. No setting helps the refund: it updates balances while a result set is
open on its connection, and a connection of pgx, the only driver in `go.mod`,
then takes no other statement. So `RefundBatch` ends the cycle with nothing
given back, the tables as they were, and no batch ever gets the status `failed`
(see run *stranded*).

What is abstracted: `AddressOf` stands for `payoutAddressFromWorker`, 0 for an
empty address; timestamps, error texts, transaction ids and the columns that
nothing reads are left out; `block_hash` is the identity of the share, every
block has one, as the stratum server writes it; `FOR UPDATE SKIP LOCKED` skips
nothing since pool ids are unique and each engine is sequential; integers do
not overflow (the supply times 10000 fits an int64). Share ids are given in
the order of the commits. A block with `BlockMaturity` confirmations stays on
the chain: this is the assumption `block_maturity` itself makes.

### Allocation and RewardSplit

`AllocateByWeight` states the split with ranks and quotients; `RewardSplit`
walks through it as the code does, except that `SortParts` takes an order that
is sorted in place of `sort.Slice`, whose comparison leaves only one.
`TakeFloor` takes the addresses in any order and lets each product `total * (w /
sum)` (`Product`) be off by some `e / Grid` of a satoshi, `e` from `Errors`, as
long as all products together are off by less than one satoshi (`TotalError <
Grid`). A product that lies just below an integer may so be rounded up to it,
and one on an integer down past it; the run does both.

This is what float64 does to the sums a pool divides. Weights are sums of
difficulties, float64 and so whole numbers of one power of two; the reward is
below 2^53. With `u = 2^-53` the sum of `n` weights, taken in the order of the
map, is off by at most `n - 1` roundings, the quotient and the product by one
each: a product is off by some `(n + 1) u` of itself, and all products together
by `(n + 1) u` of the reward. For the 1.25e9 satoshi of `config.example.yaml`
that is less than one satoshi up to some seven million addresses in a round.
`exact - float64(base)` is exact. Nothing more is assumed of the errors, so that
they depend on the order of the map is covered, except by
`SplitIsAllocateByWeight`, which speaks of exact products.

There are two amounts. The coinbase pays the `coinbasevalue` of the daemon's
template, less a fee (`job.go:135`, `mining.go:68`); what is shared out is
`coinbase.reward` of the configuration, less fees (`payout.go:228`). No code
compares them, and after a halving, with fees of transactions or with a wrong
setting they differ; so `coinbaseValue` and `reward` are two inputs. `ulp` says where the binary
`percent * 100` lies relative to the integer it stands for, which is what
decides between `math.Modf` and `math.Round`. The two fees can differ: `0.29 * 100`
is 28.999..., for which `calcDeveloperFee` (`mining.go:115`) pays nothing in the
coinbase while `calcFeeSat` rounds and deducts 29 basis points from the miners.
What holds (`CoinbaseCoversCredits`) is that a coinbase worth the configured reward or
more leaves the pool what the miners are credited, so the fees alone never open a
gap; and that of one worth less the miners are credited at most as much too much as
it is worth less. In that case the pool pays from its own funds.

### JobFeed

Three kinds of goroutines meet here. The poll loop sets `current` (`Poll`) and
then offers the job to the channel (`Notify`), which drops it when full. The
broadcaster takes a job and the list of connections of that moment (`TakeJob`)
and goes through the list. A connection's handler reads the current job when it
is asked to subscribe (`HandleSubscribe`). The last two both end in `sendJob`,
which records the job under the connection's lock and writes it to the socket
under another acquisition of it, so each of them is two actions
(`CastRecord`, `CastWrite`; `SendRecord`, `SendWrite`) and they interleave.

`Conns` are slots: after `Hangup` a slot is free for another connection, while
the broadcaster may still hold the old object, whose fate nobody sees. A job is
as good as its template, so the constant `TemplateOf` says which jobs can be
built from which; ids and the clean flag are left out. A poll that fails
changes nothing. `QueueCap` is 4 in the code.

### StratumServer

Which job reaches which connection when is left wholly open: `SendJob` may hand
any job made so far to any connection, also in the middle of a submission. That
is more than `JobFeed` allows, so what holds here holds there. A submission
goes

    idle -HandleSubmit-> mark -MarkSubmitted-> validate | idle
    validate -Validate-> insert    validate -RejectLow-> idle
    insert -InsertAcceptedShare-> reply -Reply-> idle
    insert -InsertFails | InsertAnswerLost-> idle

`HandleSubmit` reads the connection's job; `Validate` reads the maker's current
job, which by then may be another one. `Grade` says what a header is good for
and so stands for the hash, the target and the minimum difficulty; a submission
that cannot be decoded is `low` as well. `Decode` maps the spellings of a
solution to one: the key of a submission is made of the text, the header of the
bytes. The two unique indexes of `shares` are `IsFree`. `Restart` ends the
process between any two steps; job ids and extranonces then start again. Worker
and difficulty are copied from the connection to the row and are left out; the
difficulty, with the retargeting after the reply, is `Vardiff`.

`ShareLedger` is what the server promises. Its `counted` is the bag of what the
rows of the table say without their keys, with a copy for every row; its
`confirmed` says how many times each work was acknowledged. So a second row of
the same work, or a second reply, is a step `ShareLedger` does not have.
`InsertAcceptedShare` and `InsertAnswerLost` are `Count`, `Reply` is `Confirm`,
and every other step, a restart among them, changes nothing.

### Vardiff

One connection, since connections share no difficulty, and one request at a
time, since a connection's goroutine handles one after the other: a request is
one step, the insert of its share included. `FirstShare`, `ShareCounted` and
`Retarget` are the three ways through `retarget`; the branches for an empty
window and for `actual <= 0` cannot be taken, as the window holds the share just
accepted. Times are ages: `now` and the stored times occur only in differences,
and none of these matters beyond the retarget interval, where ages stop.
Difficulties are integers on a grid; a product is rounded down to it but never to
0. A float64 comes to 0 only after some five hundred quarterings without a
minimum, and `clampDiff` makes that a 1. `cfg` is any section `difficulty`: `Load` looks at none
of its values. The section that is shipped, and the defaults of `Load`, start a
GPU at 10 below a minimum of 64: `clampDiff` makes it 64.

`told` is the last `mining.set_difficulty`, `superseded` what the difficulty was
less than an interval ago; both are read by properties only. A share is credited
with `AssignedDiff`, the difficulty in force when it arrives. What can be said of
it is that the miner was sent it (`CreditedAsAnnounced`), and, for a share found
before the message came, that it is within a factor of four (`CreditIsNear`). Not
after another authorization: that sets the difficulty back to the start, any
distance away, and keeps the window, so that shares of the old difficulty retarget
the new one once.

### Migrations

An instance waits for the advisory lock, looks at one file after the other and
commits each missing one with its version. A file and its version are one
transaction, hence one action. The lock belongs to a session that may outlive
the process (`Dead`) until the server ends it. `NewestOf` is the last file of
the image each instance runs. `applied` records the order of the commits, which
the database does not; it decides nothing.

### Merkle

A hash is written as the tree it is taken over, so that hashes are equal
exactly when the trees are. `TxHashes` are the transaction ids in the order of
their bytes that `HexToHash32` leaves, which is the displayed one;
`BlockHashes` are the leaves of the tree the daemon builds over the block.

## 3. Runs

| run | question | instance |
|---|---|---|
| `lprop` | is everything safe in one lprop pool that fails anywhere? | 2 miners, one with an invalid address, 3 shares, 2 failures of any kind |
| `two_pools` | do an lprop and a solo engine leave each other's rows alone? | 2 pools, 3 shares, a worker without an address |
| `liveness` | is every matured block settled and every due balance paid, by an engine nobody interrupts and a wallet that takes every batch and answers? | maturity 2, 2 failing lookups, weak fairness of each engine |
| `reward_split` | is the split exact and fair however products are rounded, independent of the order, and covered by the coinbase? | 3 addresses, weights up to 3, products off by up to half a satoshi, 2 coinbase values, rewards below, at and above them |
| `migrations` | do instances that start together bring the schema up once, in order, and all come up? | 3 instances, 3 files, 2 failures |
| `job_feed` | does every miner get a job and follow the tip, and do broadcasts never go back? | 2 slots, 3 templates, a channel of 2 |
| `stratum` | is what is acknowledged recorded, and acknowledged once, which blocks can lack a row, and is that all `ShareLedger` promises? | 2 connections, 2 jobs, 2 templates, 2 spellings, 1 failure or restart |
| `vardiff` | does the difficulty keep to its limits, to what was announced, and where it is when the pace is right? | 5 configurations, requests 10 or 15 seconds apart, 6 shares in a window |
| `prepared` | does a block mature with prepared statements? **No.** | 1 share |
| `stranded` | does every batch end sent or failed? **No.** | 1 refused batch |
| `same_solution` | has every block the daemon took a row, when nothing fails? **No.** | 2 connections, no failure |
| `merkle` | is the root that of the block? **No.** | up to 8 transactions |

**Bounds.** Three shares make two rounds of one pool with a share of another
between, or a block found, one orphaned and one settled; two failures make a
failure while recovering from one. A reward of 5 satoshi over unequal weights
leaves a satoshi over; a minimum payout of 3 lets balances wait below it.
`BlockMaturity = 1` makes a block mature at its first confirmation, 2 in the
liveness run, where the states between matter. That run has no refused
`sendmany` and no lost answer: after one `BalanceIsPaid` does not hold, which is
what *stranded* shows. In `lprop` both happen, up to twice, and `MaxBatches`
leaves room for every batch that three shares and two failures make. What holds
in `lprop` for one pool `two_pools` does not check again. `MaxShares`,
`MaxFaults` and `MaxBatches` are bounds of the instances, not of the code.
`reward_split` terminates, hence its `CHECK_DEADLOCK FALSE`; its errors, in
quarters of a satoshi, round half a satoshi up to one and a whole one down to
none, and leave the sum of the floors above, at and below that of the exact
ones.

In `job_feed` three templates follow each other, so that an old job can overtake
a newer one on its way to a connection; a channel of two jobs overflows, and
holds two that could change places; the jobs of one template are one job, built
again by every poll. In `stratum` two jobs of one template give the same work
under two ids, two jobs of two templates a submission validated against another
job than its own; the first extranonce finds blocks, the second one shares, and
after a restart both come back. `MCOneSpeller` lets only the first connection
use the other spelling, for one job, to keep the states few. `MaxJobs`,
`MaxEN1`, `LastTpl` and `MaxFaults` are bounds of the instances; where they are
reached everybody may stop, hence `CHECK_DEADLOCK FALSE` in these runs, in
`migrations`, where running instances have nothing left to do, and in `merkle`.
The connections of `stratum` are interchangeable and reduced by symmetry, in a
run without liveness.

In `vardiff` an interval is one, three or six times the target, so that a
window holds too few shares, too many, and exactly enough; six shares in an
interval of one exceed the factor of four, one in an interval of six falls below
a quarter. Pauses of 10 and 15 seconds put shares on the edge of a window and
off it. One configuration sets nothing, one has a minimum above its maximum.
`MaxAccepted` and `Pauses` bound the instance.

**Fairness.** `FairSpec` is weakly fair to the cycle of every engine: the ticker
of `Run` starts a cycle every `interval_sec` seconds and each call returns.
Nothing is assumed of the surroundings: that a lookup fails no more than
`MaxFaults` times is the bound. The daemon's client has no timeout, so that
calls return is an assumption about the daemon.

`FairFeedSpec` is weakly fair to the poll loop, which never ends, to `notify`, to
the broadcaster and to the rest of a subscription once it has read the current
job: goroutines run, and a write to a socket ends at its deadline. Miners need
not come, subscribe or stay. `Migrations!FairSpec` is weakly fair to every
instance, which `docker-compose.yml:67` starts again whenever it ends, and to the
server noticing a dead session; it is strongly fair to the acquisition of the
lock, since PostgreSQL grants it in the order of the requests.

## 4. What the violated runs show

* **prepared.** `payout.go:162`: PostgreSQL deduces the type of `$2` from
  `CASE WHEN $2 = $4` as text and then meets the column `status block_status`
  (`migrations/0004:10,20`): *inconsistent types deduced for parameter $2*.
  `syncBlockStates` fails in every cycle that has a block to look at, nothing
  is settled or paid. All other runs set `SimpleProtocol = TRUE`, where the
  rest of the engine comes to work.
* **stranded.** `markBatchFailedAndRefund` updates balances while it reads the
  batch's items on the same connection. The refund fails, the batch stays
  `pending`, its balances debited, and no code looks at pending batches again:
  `BalanceIsPaid` holds only where no `sendmany` is refused. A stop between the debit
  and the end of the cycle has the same effect. Closing the result set before
  the updates would not be enough of a repair: an answer of `sendmany` that is lost
  is an error to the engine as well, and a refund that commits then has the
  miners paid twice. This is the mutant `RefundCommits`, which `NoOverpay` refutes.
* **same_solution.** The key of a submission is job, extranonce2, time and nonce.
  It lacks the extranonce1 that tells connections apart, but is unique in the
  pool: of two miners that send the same values the second is refused, and if
  that one found a block, the block has no row: `Validate` hands it to the daemon
  before `handleSubmit` inserts it (`server.go:257`). `syncBlockStates` never looks
  it up, and the miners of its round are paid with a later block only. The same
  happens when the insert fails, or the process ends, between the two.
* **merkle.** The branch for the leaf at index 0 holds, at each level, the sibling
  of the first node. `MerkleBranch` takes the first node of each level of a tree
  over the transactions alone and adds its root. One transaction suffices for a
  header with a root that is not that of the block, in the displayed byte order
  at that; such a block is refused by every node.

One failure has no run. A worker may authorize as `.rig` (`handleAuthorize` takes
any name), which gives no address. A block in whose round nobody has an address
fails settlement (`payout.go:305`), and being the oldest it is tried first in
every cycle: all later blocks, and every payout, wait for it. The run `liveness`
has payable workers only; with another one `MaturedIsSettled` is violated.

## 5. Proofs

`PayoutEngineProofs` proves for all constants that satisfy the assumptions, any
number of pools, shares, batches and failures:

| theorem | says | argument |
|---|---|---|
| `TypeCorrect` | `TypeOK` | inductive with `SendingInv`: an engine in send, mark or refund holds a pending batch of its own pool |
| `StatusesAgree`, `OnlyMatureSettled`, `FinalStaysFinal` | `StatusMatchesRow`, `SettledOnChain`, `FinalStatusSticks` | `StateInv`: what an engine has on its list is pending and its pool's (so the unguarded UPDATE is harmless), an answer of at least `BlockMaturity` stays true, and so does the status mature |
| `RoundsCorrect` | `RoundsPartitionShares` | inductive: shares are appended, so no later block falls between a settled block and the one before it |
| `LedgerBalances` | `LedgerConserved` | inductive; each step changes one term of a sum, by the lemmas on `RunningTotal` |
| `EnginesKeepLedger` (`PayoutLedgerProofs`) | `ImplementsLedger` | below |
| `PaidAtMostCredited` | `NoOverpay` | `PaidInv`: what the wallet paid are batches of the table that are not given back, and none that is still to be sent; with `LedgerBalances` |
| `BatchesEndOnce` | `BatchEndsOnce` | from `SendingInv`: whoever marks a batch has it in hand, pending and of its own pool, and lets go of it; nobody else writes a batch |
| `RowsOfOwnPool` | `EnginesKeepApart` | each statement writes rows of its own pool only (`RowsStay`); the unguarded UPDATE of the statuses by `StateInv` |
| `RewardsAreAccounted` (`PayoutLedgerProofs`) | `RewardsAccounted` | `CreditsAreRewards`: what is credited to a pool adds up to the rewards of its settled blocks, a settlement adding exactly one; with `LedgerBalances` |

The refinement rests on three facts. A settlement is `Credit` because the split is
exact (`AllocateByWeightExact` in `AllocationProofs`): the floors sum up to at most the total,
since `sum * (f[1] + ... + f[n]) <= total * sum`; the ranks of the earners are
exactly `0..E-1`, the ordering by fraction and address being total; so every
satoshi left over goes to one earner, and the bonuses, sizes of disjoint sets
whose union is `0..rem-1`, sum up to the remainder. `Reserve` and `Pay`
move one batch between the sums over batches: `SumIn` changes by the items of the
batch that begins or ceases to count, and a change of status alone changes
nothing. And a batch is paid once, by `PaidInv`. Every other action
leaves settlements, balances, batches and the wallet alone.

`RewardSplitProofs` proves all five properties of `RewardSplit`, for any number of
addresses, any weights, rewards and coinbase values, any `Grid` and any `Errors`,
for products that are together off by less than one satoshi:

| theorem | says | argument |
|---|---|---|
| `SplitTyped`, `LoopsSplitExactly` | `TypeOK`, `SplitIsExact` | `SplitInv`: floor times `Grid * sum` is at most the exact part and its error (`FloorFits`); added up (`SumsCompare`), the floors exceed the reward by less than one satoshi, hence not at all (`FloorsFit`), and what is left is not negative |
| `CoinbaseCovers` | `CoinbaseCoversCredits` | the coinbase's fee is nothing or what the settlement would take of the coinbase's value, and of a larger amount neither a smaller fee is taken nor less left (`CalcFeeSatGrows`) |
| `SplitFair` | `SplitIsFair` | `PartsInv`, `FairInv`: added up from below (`FloorsLeaveFew`), what the floors leave is at most one satoshi per earner; the order is strict, so nobody is on the list twice |
| `LoopsAllocate` | `SplitIsAllocateByWeight` | `ExactInv`: who comes i-th in a strict order of all earners has i - 1 before it (`SortedRank`), which is the rank `AllocateByWeight` counts |

`LoopsAllocate` is what lets `PayoutEngine` settle with an operator in place of
the loops. Where rounding takes a satoshi from one address to another, the sum is
still the reward (`LoopsSplitExactly`), which is all that the properties of the
ledger use of the split.

`AllocationProofs` also shows that the running total is well defined, what it does
when a term changes, and that fees are parts of what they are taken from.

The other modules, again for all constants, any number of instances,
connections, jobs and failures:

| theorem | says | argument |
|---|---|---|
| `MigrationsTyped`, `FilesOnceInOrder`, `MigrationsSafe`, `ServingHasSchema` | `TypeOK`, `AppliedInOrder`, `NoConflict`, `RunningHasSchema` | whoever is past the lock holds it, what was applied is a prefix of the files, and the files an instance has dealt with are in it |
| `FeedTyped` | `FeedTypeOK` | part of the invariant of the next |
| `NobodyLeftOut` | `EveryMinerHasWork` | a connection without a job that has subscribed before the first job was set will be listed: a job is about to be notified, in the channel, or being sent to a list that holds the connection |
| `BroadcastsForward` | `BroadcastsInOrder` | `Ordered`: the broadcast, the channel from its head on, the job about to be announced and the daemon's template follow each other in the order of the templates |
| `RepliesHaveRows`, `RepliesOnce` | `AckedIsRecorded`, `AckedOnce` | whoever is about to reply has a row nobody was told of and nobody else is about to be told of; rows stay and no second one of the same work is admitted |
| `BlocksLostToNamesakes` | `BlockOrNamesake` | `BlockInv`: without a failure the step after a block is taken is its insert, refused only for a row of the same work or of its solution; rows stay |
| `ServerTyped`, `ServerKeepsPromise` | `TypeOK`, `ImplementsPromise` | the same invariant: an insert adds a row of work that has none, so the bag has one copy of each entry (`RowsOnce`), and a reply is for a row nobody was told of |
| `VardiffTyped`, `LimitsHold`, `CreditIsAnnounced` | `TypeOK`, `WithinLimits`, `CreditedAsAnnounced` | every difficulty of an authorized connection comes out of `ClampDiff`, and whatever sets one sends it |
| `CreditStaysNear` | `CreditIsNear` | what was superseded is younger than the last adjustment, so at most one difficulty was, and clamping keeps two difficulties within limits near each other |
| `OnTargetStays` | `OnTargetKeeps` | of the ages `0, T, 2T, ...` exactly `Interval / T` are below the interval, so the factor is 1 |

Every invariant and every action property of a passing run, and both
refinements, are theorems. Only model-checked are the four liveness properties
(`MaturedIsSettled`, `BalanceIsPaid`, `EveryInstanceRuns`, `MinersFollowTip`), since
fairness is out of reach of the prover, and the four violated properties, each a
counterexample of TLC. `Merkle` has no theorem: its branch is recursive, and the
prover has no induction over data.

## 6. Not modelled

* **Composition over `shares`.** The payout engines take the order of the ids for
  the order of the commits. PostgreSQL draws an id before the insert commits, so
  a share may commit behind a block already settled, in no round (`payout.go:274`).
  A module with handlers and engines over one table would show it; it needs
  inserts of two steps in `PayoutEngine`, and every invariant on rounds restated.
* **`JobFeed` with `StratumServer`.** The latter allows any order of jobs on any
  connection, so what it shows holds for the feed; the converse is not needed.
* **Bytes.** Headers, targets, coinbase scripts, addresses, JSON, hex: no property
  here tells their values apart; hashes and difficulties of work are constants.
* **The transport** of the daemon's client, which has no timeout, the parsing of the
  configuration, the `clean` flag of a job, which the server never reads, and
  `mining.configure`, which changes no state.
