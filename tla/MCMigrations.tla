---------------------------- MODULE MCMigrations ----------------------------
(* Three instances, the last of which runs an older image. *)
EXTENDS Migrations, TLC

CONSTANTS main, lone, old

MCNewestOf == main :> 3 @@ lone :> 3 @@ old :> 2
=============================================================================
