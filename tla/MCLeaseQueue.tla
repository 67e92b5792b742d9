------------------------------ MODULE MCLeaseQueue ------------------------------
(* A small instance of LeaseQueue with two jobs and two workers. *)
EXTENDS LeaseQueue, TLC

CONSTANTS j1, j2, w1, w2

\* The ids hash to different shards.
SplitHash  == (j1 :> 0) @@ (j2 :> 3)

\* Two processes started with the default index 0 of 1: both poll every shard.
SharedIndex == [w \in Workers |-> 0]

================================================================================
