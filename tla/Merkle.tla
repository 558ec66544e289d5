------------------------------- MODULE Merkle --------------------------------
(***************************************************************************)
(* The merkle branch of a job (internal/mining/mining.go) and the root     *)
(* that Validate makes of it, against the tree the daemon builds over the  *)
(* block that buildBlockHex sends: the coinbase, then the transactions.    *)
(*                                                                         *)
(* A hash is the tree it is taken over, written in prefix order with 0 for *)
(* an inner node, so that two hashes are equal exactly when the trees are. *)
(* A leaf is the number of a transaction, negated when the bytes of its id *)
(* stand the other way round.                                              *)
(***************************************************************************)
EXTENDS Integers, SequencesExt

CONSTANT MaxTxs   \* bound: the transactions of a template

VARIABLE txs      \* how many transactions the template has

Coinbase == <<MaxTxs + 1>>

(* HexToHash32 leaves the bytes of a txid in the order they are displayed. *)
TxHashes == [i \in 1..txs |-> <<-i>>]

(* the leaves of the daemon's tree *)
BlockHashes == <<Coinbase>> \o [i \in 1..txs |-> <<i>>]

DoubleSHA256(left, right) == <<0>> \o left \o right

(* The next level up, the last node paired with itself when it is alone. *)
Level(nodes) ==
  [i \in 1..((Len(nodes) + 1) \div 2) |->
     DoubleSHA256(nodes[2*i - 1], nodes[IF 2*i <= Len(nodes) THEN 2*i ELSE 2*i - 1])]

LevelsOver(nodes) ==
  LET level[n \in 0..Len(nodes)] == IF n = 0 THEN nodes ELSE Level(level[n - 1])
  IN  level

(* the first node of each level, from the transactions to the first level  *)
(* above them that has a single node                                       *)
MerkleBranch(hashes) ==
  IF hashes = << >> THEN << >>
  ELSE LET level == LevelsOver(hashes)
           top   == CHOOSE n \in 1..Len(hashes) :
                      /\ Len(level[n]) = 1
                      /\ \A k \in 1..(n - 1) : Len(level[k]) > 1
       IN  [i \in 1..(top + 1) |-> level[i - 1][1]]

MerkleRoot(coinbaseHash, branch) == FoldLeft(DoubleSHA256, coinbaseHash, branch)

(* what the daemon checks: the single node over all leaves *)
BlockRoot(hashes) ==
  LET level == LevelsOver(hashes)
      top   == CHOOSE n \in 0..Len(hashes) :
                 Len(level[n]) = 1 /\ \A k \in 0..(n - 1) : Len(level[k]) > 1
  IN  level[top][1]

Init == txs = 0

(* another transaction reaches the template *)
AddTransaction == txs < MaxTxs /\ txs' = txs + 1

Spec == Init /\ [][AddTransaction]_txs

-----------------------------------------------------------------------------
(* The branch is that of the coinbase at index 0: a header built from it   *)
(* carries the root of the block, whatever the template holds.             *)
RootIsOfBlock == MerkleRoot(Coinbase, MerkleBranch(TxHashes)) = BlockRoot(BlockHashes)
=============================================================================
