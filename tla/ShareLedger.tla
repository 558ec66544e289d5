---------------------------- MODULE ShareLedger -----------------------------
(***************************************************************************)
(* What the pool promises a miner about the work it hands in, whatever     *)
(* fails: work counts once and as what it is, it is confirmed only when it *)
(* counts, and it is confirmed once.  What counts is a bag and the         *)
(* confirmations are counted, so that a second entry or a second           *)
(* confirmation of the same work is a step this specification forbids.     *)
(***************************************************************************)
EXTENDS Naturals, Bags

CONSTANTS Work, Worth   \* what can be handed in, and as what each counts

VARIABLES
  counted,    \* the bag of what counts, each entry a work and a type
  confirmed   \* how many times a miner was told that each work counts

ledger == <<counted, confirmed>>

Entry(w) == [work |-> w, type |-> Worth[w]]

Init ==
  /\ counted = EmptyBag
  /\ confirmed = [w \in Work |-> 0]

(* work of which the bag has no entry yet, as whatever type *)
Count(w) ==
  /\ \A entry \in BagToSet(counted) : entry.work # w
  /\ counted' = counted (+) SetToBag({Entry(w)})
  /\ UNCHANGED confirmed

(* work that counts and that no miner was told of *)
Confirm(w) ==
  /\ BagIn(Entry(w), counted)
  /\ confirmed[w] = 0
  /\ confirmed' = [confirmed EXCEPT ![w] = 1]
  /\ UNCHANGED counted

Next == \E w \in Work : Count(w) \/ Confirm(w)

Spec == Init /\ [][Next]_ledger
=============================================================================
