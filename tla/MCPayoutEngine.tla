--------------------------- MODULE MCPayoutEngine ---------------------------
(* Small instances of PayoutEngine for TLC. *)
EXTENDS PayoutEngine, TLC

(* two addresses of one rig each, and a worker authorized as ".rig" *)
MCAddressOf == "ann.1" :> 1 @@ "bob.1" :> 2
MCAnn       == "ann.1" :> 1
MCAnnOrNone == "ann.1" :> 1 @@ ".rig" :> 0

MCOnePool  == "main" :> "lprop"
MCTwoPools == "main" :> "lprop" @@ "lone" :> "solo"
=============================================================================
