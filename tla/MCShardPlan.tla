---------------------------- MODULE MCShardPlan ----------------------------
(* Inputs for ShardPlan: up to three files cut every way the options allow, *)
(* and five whole files, where the greedy assignment is at its worst.       *)
EXTENDS ShardPlan

Lists(n, sizes) == UNION {[1 .. k -> sizes] : k \in 0 .. n}

Cut == {a \in [sizes : Lists(3, {0, 1, 4, 5}), count : 1 .. 3, bcast_chunk : {1, 2},
               shard_size : {0, 2}, file_shards : {0, 2, 3}] : Valid(a)}
Whole == [sizes : [1 .. 5 -> 1 .. 3], count : {2, 3}, bcast_chunk : {2},
          shard_size : {0}, file_shards : {0}]

AllInputs == Cut \cup Whole
============================================================================
