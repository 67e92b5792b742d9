------------------------------ MODULE ShardRouter ------------------------------
(***************************************************************************)
(* Static shard assignment of the v3 worker runtime (shard-router.js).     *)
(* A job carries a shard_key fixed at insertion; a worker computes the     *)
(* shards it owns once, in start(), from its index and the size of the     *)
(* fleet, and only claims rows of those shards.                            *)
(***************************************************************************)
EXTENDS Integers

CONSTANTS TotalShards,   \* TOTAL_SHARDS[queueKey]
          TotalWorkers   \* totalWorkers given to every worker of the queue

ASSUME ShardAssumption ==
  /\ TotalShards \in Nat \ {0}
  /\ TotalWorkers \in Nat \ {0}

Shards == 0 .. TotalShards - 1

\* The hash of the id (its first 32 bits) reduced to a shard number.
computeShardKey(hash) == hash % TotalShards

\* Round robin; a worker whose index owns nothing takes every shard.
computeWorkerShards(workerIndex) ==
  LET mine == {s \in Shards : s % TotalWorkers = workerIndex}
  IN  IF mine # {} THEN mine ELSE Shards

================================================================================
