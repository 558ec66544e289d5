----------------------------- MODULE MCJobFeed ------------------------------
(* The feed alone, where a job is as good as its template. *)
EXTENDS JobFeed

MCTemplateOf == [j \in Jobs |-> j]
=============================================================================
