\* compute_shards on every input of MCShardPlan.
CONSTANTS
  Inputs <- AllInputs
  U64_MAX = 1000
SPECIFICATION Spec
INVARIANTS
  ShardsTile
  BoundariesAligned
  FileShardsRespected
  LoadsSpread
  LptNearOptimal
