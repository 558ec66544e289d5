---------------------------- MODULE MCRewardSplit ----------------------------
(* Products off by up to half a satoshi, in quarters.                      *)
EXTENDS RewardSplit

Quarters == -2..2
=============================================================================
