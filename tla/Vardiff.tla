------------------------------ MODULE Vardiff -------------------------------
(***************************************************************************)
(* The difficulty of one connection of the stratum server, from the        *)
(* configuration over the first authorization through any sequence of      *)
(* accepted shares: handleSubscribe, handleAuthorize, the end of           *)
(* handleSubmit and retarget in internal/stratum/server.go.  Connections   *)
(* share nothing here, and a connection's handler takes one request at a   *)
(* time, so a request is one step.                                         *)
(*                                                                         *)
(* Times are kept as ages in seconds: how long ago a share was accepted or *)
(* the difficulty was adjusted.  Nothing depends on an age beyond the      *)
(* retarget interval, where ages stop growing.  Difficulties are numbers   *)
(* on a grid of 1/One: a product is rounded down to it, but not to zero,   *)
(* as a float64 is to a far finer one.                                     *)
(***************************************************************************)
EXTENDS Integers, Sequences, FiniteSets

CONSTANTS
  Cfgs,        \* sections difficulty of a configuration file
  One,         \* difficulty 1 on the grid
  Pauses,      \* bound: the seconds that may pass between two requests
  MaxAccepted  \* bound: shares remembered at a time

Kinds == {"gpu", "asic", "other"}   \* what the worker's name contains

(* Load looks at none of these: a limit of 0 or less is absent. *)
DifficultyCfg ==
  [Start : Int, GPUStart : Int, ASICStart : Int, Min : Int, Max : Int,
   TargetTime : Int, RetargetInterval : Int]

ASSUME CfgsAssumption   == Cfgs \subseteq DifficultyCfg
ASSUME GridAssumption   == One \in Nat \ {0}
ASSUME BoundsAssumption == Pauses \subseteq Nat \ {0} /\ MaxAccepted \in Nat

VARIABLES
  cfg,         \* Server.cfg.Difficulty
  authorized,  \* Conn.authorized
  diff,        \* Conn.diff
  acceptedAt,  \* Conn.acceptedAt, as ages
  lastAdjust,  \* Conn.lastAdjust, as an age, or Never
  told,        \* the last difficulty sent to the miner, or Never
  superseded   \* the difficulties replaced by retarget less than an interval ago

vars == <<cfg, authorized, diff, acceptedAt, lastAdjust, told, superseded>>

Never == -1

Target   == IF cfg.TargetTime <= 0 THEN 10 ELSE cfg.TargetTime
Interval == IF cfg.RetargetInterval <= 0 THEN 30 ELSE cfg.RetargetInterval

-----------------------------------------------------------------------------
Init ==
  /\ cfg \in Cfgs
  /\ authorized = FALSE
  /\ diff = cfg.Start
  /\ acceptedAt = << >> /\ lastAdjust = Never
  /\ told = Never /\ superseded = {}

(* mutant: the upper limit comes first *)
ClampMaxFirst(v) ==
  LET positive == IF v <= 0 THEN One ELSE v
      notAbove == IF cfg.Max > 0 /\ positive > cfg.Max THEN cfg.Max ELSE positive
  IN  IF cfg.Min > 0 /\ notAbove < cfg.Min THEN cfg.Min ELSE notAbove

ClampDiff(v) ==
  LET positive == IF v <= 0 THEN One ELSE v
      notBelow == IF cfg.Min > 0 /\ positive < cfg.Min THEN cfg.Min ELSE positive
  IN  IF cfg.Max > 0 /\ notBelow > cfg.Max THEN cfg.Max ELSE notBelow

PickStartDiff(kind) ==
  ClampDiff(CASE kind = "gpu" -> IF cfg.GPUStart > 0 THEN cfg.GPUStart ELSE 10 * One
              [] kind = "asic" /\ cfg.ASICStart > 0 -> cfg.ASICStart
              [] OTHER -> cfg.Start)

HandleSubscribe ==
  /\ told' = diff
  /\ UNCHANGED <<cfg, authorized, diff, acceptedAt, lastAdjust, superseded>>

(* mutants: the miner is not told, or only when it did not subscribe *)
Silence(kind) == UNCHANGED told
AnnounceOnce(kind) == told' = IF told = Never THEN diff' ELSE told

Announce(kind) == told' = diff'

(* Under any name, and again under another one.  The shares accepted so    *)
(* far stay in the window.                                                 *)
HandleAuthorize(kind) ==
  /\ authorized' = TRUE
  /\ diff' = PickStartDiff(kind)
  /\ Announce(kind)
  /\ superseded' = {}
  /\ UNCHANGED <<cfg, acceptedAt, lastAdjust>>

-----------------------------------------------------------------------------
(* What a share is credited with is what the connection is assigned when   *)
(* it arrives; the store refuses a difficulty of 0 or less.                *)
AssignedDiff == diff

(* A share is accepted and its row inserted; retarget comes after that.    *)
Accepts == authorized /\ AssignedDiff > 0 /\ Len(acceptedAt) < MaxAccepted

AcceptedNow == Append(acceptedAt, 0)

FirstShare ==
  /\ Accepts /\ lastAdjust = Never
  /\ acceptedAt' = AcceptedNow
  /\ lastAdjust' = 0
  /\ UNCHANGED <<cfg, authorized, diff, told, superseded>>

(* mutant: a share an interval ago counts, or the interval is not awaited *)
IsRecentOrJust(age) == age <= Interval
AnyTime == TRUE

IsRecent(age) == age < Interval

IntervalOver == lastAdjust >= Interval

ShareCounted ==
  /\ Accepts /\ lastAdjust # Never /\ ~IntervalOver
  /\ acceptedAt' = AcceptedNow
  /\ UNCHANGED <<cfg, authorized, diff, lastAdjust, told, superseded>>

OnGrid(v) == IF v <= 0 THEN 1 ELSE v

(* the difficulty times target / (interval / n), but at most four times    *)
(* and at least a quarter of it                                            *)
Adjusted(n) ==
  OnGrid(IF Target * n > 4 * Interval THEN 4 * diff
         ELSE IF 4 * Target * n < Interval THEN diff \div 4
         ELSE (diff * Target * n) \div Interval)

(* how many shares the window holds: the one just accepted among them *)
Recent == Cardinality({i \in DOMAIN AcceptedNow : IsRecent(AcceptedNow[i])})

(* a change of less than a tenth is not made *)
IsSmall(new) == 10 * (new - diff) < diff /\ 10 * (diff - new) < diff

Retarget ==
  /\ Accepts /\ lastAdjust # Never /\ IntervalOver
  /\ LET new == ClampDiff(Adjusted(Recent))
     IN  IF IsSmall(new)
         THEN UNCHANGED <<diff, told, superseded>>
         ELSE /\ diff' = new /\ told' = new
              /\ superseded' = superseded \cup {[diff |-> diff, age |-> 0]}
  /\ acceptedAt' = << >> /\ lastAdjust' = 0
  /\ UNCHANGED <<cfg, authorized>>

-----------------------------------------------------------------------------
Older(age, seconds) == IF age + seconds < Interval THEN age + seconds ELSE Interval

(* Time passes until the next request. *)
Pass(seconds) ==
  /\ acceptedAt' = [i \in DOMAIN acceptedAt |-> Older(acceptedAt[i], seconds)]
  /\ lastAdjust' = IF lastAdjust = Never THEN Never ELSE Older(lastAdjust, seconds)
  /\ superseded' = {[diff |-> s.diff, age |-> s.age + seconds] :
                      s \in {r \in superseded : r.age + seconds < Interval}}
  /\ UNCHANGED <<cfg, authorized, diff, told>>

Next ==
  \/ HandleSubscribe
  \/ \E kind \in Kinds : HandleAuthorize(kind)
  \/ FirstShare \/ ShareCounted \/ Retarget
  \/ \E seconds \in Pauses : Pass(seconds)

Spec == Init /\ [][Next]_vars

-----------------------------------------------------------------------------
(* What is assigned to an authorized connection was sent to it, and is a   *)
(* difficulty the store takes: no configuration makes it refuse shares.    *)
TypeOK ==
  /\ cfg \in Cfgs
  /\ authorized \in BOOLEAN
  /\ diff \in Int /\ told \in Int
  /\ authorized => {diff, told} \subseteq Nat \ {0}
  /\ acceptedAt \in Seq(0..Interval) /\ Len(acceptedAt) <= MaxAccepted
  /\ lastAdjust \in {Never} \cup 0..Interval
  /\ superseded \subseteq [diff : Nat \ {0}, age : 0..(Interval - 1)]

(* Whatever the configuration and however often it is multiplied, the      *)
(* difficulty of an authorized connection is within the limits that are    *)
(* set; where the two contradict each other, Max holds.                    *)
WithinLimits ==
  authorized =>
    /\ cfg.Max > 0 => diff <= cfg.Max
    /\ cfg.Min > 0 => diff >= cfg.Min \/ diff = cfg.Max

(* The next share is credited with the last difficulty the miner was sent: *)
(* "stored shares match the difficulty communicated to the miner", through *)
(* authorizations under other names and retargets that change nothing.     *)
CreditedAsAnnounced == authorized => AssignedDiff = told

(* A miner hears of a new difficulty some time after it is in force.  A    *)
(* share found for one that was replaced less than an interval ago is      *)
(* credited at most four times what it was found for, and at least a       *)
(* quarter: in the time of an interval the difficulty is changed once.     *)
CreditIsNear ==
  \A s \in superseded : AssignedDiff <= 4 * s.diff /\ s.diff < 4 * (AssignedDiff + 1)

(* A miner whose shares come exactly every Target seconds keeps its        *)
(* difficulty, where the interval is a multiple of that: the window counts *)
(* neither one share too many nor one too few.                             *)
OnTarget ==
  LET n == Len(AcceptedNow)
  IN  /\ Interval % Target = 0 /\ n * Target >= Interval
      /\ \A i \in 1..n : AcceptedNow[i] = (n - i) * Target

OnTargetKeeps == [][Retarget /\ OnTarget => diff' = diff]_vars
=============================================================================
