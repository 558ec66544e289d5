----------------------------- MODULE MCVardiff ------------------------------
(* Configurations, small enough to go through; the bounds are in the cfg. *)
EXTENDS Vardiff

(* like the one shipped, with a GPU start below the minimum *)
MCShipped ==
  [Start |-> 120, GPUStart |-> 10, ASICStart |-> 120, Min |-> 16, Max |-> 400,
   TargetTime |-> 10, RetargetInterval |-> 30]

(* short intervals, where few shares reach four times the target *)
MCShort == [MCShipped EXCEPT !.RetargetInterval = 10]

(* long intervals, where one share is less than a quarter of the target *)
MCLong == [MCShipped EXCEPT !.TargetTime = 5]

(* nothing set: no start, no limit below, the defaults for the times *)
MCBare ==
  [Start |-> 0, GPUStart |-> 0, ASICStart |-> 0, Min |-> 0, Max |-> 400,
   TargetTime |-> 0, RetargetInterval |-> 0]

(* limits that contradict each other *)
MCContradicting == [MCShipped EXCEPT !.Min = 500, !.Start = -1]

MCCfgs == {MCShipped, MCShort, MCLong, MCBare, MCContradicting}
=============================================================================
