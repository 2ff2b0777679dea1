---------------------------- MODULE MCBroadcast ----------------------------
(* Instances of Broadcast for TLC.  The owners are the ones compute_shards  *)
(* and first_haver choose for these files.                                  *)
EXTENDS Broadcast

(* Two ranks.  File 0, five units long, is cut into two shards with         *)
(* different owners; its last chunk is a short one.  File 1 is empty;       *)
(* rank 1 already holds file 2 and is its owner.                            *)
TwoRanks == 0 .. 1
PairFiles == 0 .. 2
PairSize == [f \in PairFiles |-> IF f = 0 THEN 5 ELSE IF f = 1 THEN 0 ELSE 2]
PairPlan ==
  <<[file |-> 0, off |-> 0, len |-> 4, owner |-> 0],
    [file |-> 0, off |-> 4, len |-> 1, owner |-> 1],
    [file |-> 1, off |-> 0, len |-> 0, owner |-> 1],
    [file |-> 2, off |-> 0, len |-> 2, owner |-> 1]>>
PairHas == [r \in TwoRanks |-> IF r = 1 THEN {2} ELSE {}]

(* Two ranks, two whole files with different owners and writers.            *)
DuoFiles == 0 .. 1
DuoSize == [f \in DuoFiles |-> IF f = 0 THEN 3 ELSE 1]
DuoPlan ==
  <<[file |-> 0, off |-> 0, len |-> 3, owner |-> 0],
    [file |-> 1, off |-> 0, len |-> 1, owner |-> 1]>>
DuoHas == [r \in TwoRanks |-> {}]
============================================================================
