------------------------------ MODULE ShardPlan ------------------------------
(***************************************************************************)
(* The range-shard plan of azcp-cluster                                    *)
(* (crates/azcp-cluster/src/stages/shards.rs, compute_shards, and the      *)
(* effective shard size of main.rs).                                       *)
(*                                                                         *)
(* Every rank runs this on the same list, so that no plan is sent: files   *)
(* are cut into shards, and each shard goes to the rank with the least     *)
(* bytes so far, largest shards first.  Files, shards and ranks count from *)
(* 0 as in the code; Inputs are the command lines and file lists to run it *)
(* on.                                                                     *)
(***************************************************************************)
EXTENDS Integers, Sequences, FiniteSets, FiniteSetsExt

CONSTANTS
  Inputs,       \* sizes, download ranks, --shard-size, --file-shards, --bcast-chunk
  U64_MAX

(* Args::validate of cli.rs; file_shards = 0 stands for an absent option.   *)
Valid(a) ==
  /\ ~(a.shard_size > 0 /\ a.file_shards > 0)
  /\ a.shard_size > 0 => a.shard_size % a.bcast_chunk = 0

ASSUME ShardPlanAssumption ==
  /\ U64_MAX \in Nat
  /\ \A a \in Inputs :
       /\ a.sizes \in Seq(0 .. U64_MAX)
       /\ a.count \in Nat \ {0} /\ a.bcast_chunk \in Nat \ {0}
       /\ a.shard_size \in Nat /\ a.file_shards \in Nat
       /\ Valid(a)

VARIABLES
  args,         \* the input
  phase,        \* "split", "assign" or "done"
  file_idx, shard_idx,   \* the cursor of the splitting loops
  shards,       \* the plan, as far as it is built
  todo,         \* positions of the shards not assigned yet
  loads         \* bytes assigned to each rank

vars == <<args, phase, file_idx, shard_idx, shards, todo, loads>>

CeilDiv(a, b) == (a + b - 1) \div b

(* compute_shard_size_from_file_shards and the choice main.rs makes.        *)
MaxSize(sizes) == IF sizes = <<>> THEN 0
                  ELSE CHOOSE m \in {sizes[i] : i \in DOMAIN sizes} :
                         \A i \in DOMAIN sizes : sizes[i] <= m
NotRounded(n, chunk) == n               \* mutations of RoundUpTo
RoundDownTo(n, chunk) == (n \div chunk) * chunk
RoundUpTo(n, chunk) == CeilDiv(n, chunk) * chunk

ShardSize(a) ==
  IF a.shard_size > 0 THEN a.shard_size
  ELSE IF a.file_shards = 0 THEN 0
  ELSE RoundUpTo(CeilDiv(MaxSize(a.sizes), a.file_shards), a.bcast_chunk)

ShardsPerFile(size, ss) == IF ss = 0 \/ size <= ss THEN 1 ELSE CeilDiv(size, ss)

ShardLenUncapped(size, ss, k) == IF ss = 0 THEN size ELSE ss   \* a mutation of ShardLen
RemainingAfterShard(size, ss, k) ==     \* another one
  IF ss = 0 THEN size
  ELSE IF size - (k + 1) * ss <= ss THEN size - (k + 1) * ss ELSE ss
ShardLen(size, ss, k) ==
  IF ss = 0 THEN size
  ELSE IF size - k * ss <= 0 THEN 0
  ELSE IF size - k * ss <= ss THEN size - k * ss ELSE ss

Init ==
  /\ args \in Inputs
  /\ phase = "split"
  /\ file_idx = 0 /\ shard_idx = 0
  /\ shards = <<>>
  /\ todo = {}
  /\ loads = <<>>

(* One turn of the nested loops that cut the files.                         *)
PushShard ==
  /\ phase = "split" /\ file_idx < Len(args.sizes)
  /\ LET size == args.sizes[file_idx + 1]
         ss == ShardSize(args)
     IN /\ shards' = Append(shards, [file |-> file_idx, shard |-> shard_idx,
                                     off |-> shard_idx * ss,
                                     len |-> ShardLen(size, ss, shard_idx), owner |-> 0])
        /\ IF shard_idx + 1 < ShardsPerFile(size, ss)
           THEN shard_idx' = shard_idx + 1 /\ UNCHANGED file_idx
           ELSE shard_idx' = 0 /\ file_idx' = file_idx + 1
  /\ UNCHANGED <<args, phase, todo, loads>>

Bins == 0 .. args.count - 1

(* With one rank the plan is ready as it is.                                *)
EndSplit ==
  /\ phase = "split" /\ file_idx = Len(args.sizes)
  /\ phase' = IF args.count <= 1 THEN "done" ELSE "assign"
  /\ todo' = DOMAIN shards
  /\ loads' = [b \in Bins |-> 0]
  /\ UNCHANGED <<args, file_idx, shard_idx, shards>>

(* The order of the bin packing: longest first, then file, then shard.      *)
SmallestFirst(s, t) ==                  \* a mutation of Before
  \/ s.len < t.len
  \/ s.len = t.len /\ s.file < t.file
  \/ s.len = t.len /\ s.file = t.file /\ s.shard < t.shard
Before(s, t) ==
  \/ s.len > t.len
  \/ s.len = t.len /\ s.file < t.file
  \/ s.len = t.len /\ s.file = t.file /\ s.shard < t.shard

HighestBin(b, c) == b > c               \* a mutation of Lighter
Lighter(b, c) == loads[b] < loads[c] \/ (loads[b] = loads[c] /\ b < c)

SaturatingAdd(load, len) == IF load + len <= U64_MAX THEN load + len ELSE U64_MAX

(* One turn of the assignment loop over the sorted order.                   *)
Assign ==
  /\ phase = "assign"
  /\ \E i \in todo, bin \in Bins :
       /\ \A j \in todo \ {i} : Before(shards[i], shards[j])
       /\ \A b \in Bins \ {bin} : Lighter(bin, b)
       /\ shards' = [shards EXCEPT ![i].owner = bin]
       /\ loads' = [loads EXCEPT ![bin] = SaturatingAdd(@, shards[i].len)]
       /\ todo' = todo \ {i}
  /\ UNCHANGED <<args, phase, file_idx, shard_idx>>

EndAssign ==
  /\ phase = "assign" /\ todo = {}
  /\ phase' = "done"
  /\ UNCHANGED <<args, file_idx, shard_idx, shards, todo, loads>>

Finished == phase = "done" /\ UNCHANGED vars

Next == PushShard \/ EndSplit \/ Assign \/ EndAssign \/ Finished

(* A sequential function: it runs to its end.                               *)
Spec == Init /\ [][Next]_vars /\ WF_vars(Next)

------------------------------------------------------------------------------
(* Properties.                                                              *)

PlanShard == [file : Nat, shard : Nat, off : Nat, len : 0 .. U64_MAX, owner : Nat]

TypeOK ==
  /\ args \in Inputs
  /\ phase \in {"split", "assign", "done"}
  /\ file_idx \in 0 .. Len(args.sizes)
  /\ shard_idx \in Nat
  /\ shards \in Seq(PlanShard)
  /\ todo \subseteq DOMAIN shards
  /\ phase # "split" => loads \in [Bins -> 0 .. U64_MAX]

End(s) == s.off + s.len
SizeOf(s) == args.sizes[s.file + 1]

WithinFile(s) ==
  /\ s.file < Len(args.sizes)
  /\ End(s) <= SizeOf(s)
  /\ s.shard > 0 => s.len > 0
NextInFile(s, t) == t.file = s.file /\ t.off = End(s) /\ t.shard = s.shard + 1
FirstOfNextFile(s, t) ==
  t.file = s.file + 1 /\ t.off = 0 /\ t.shard = 0 /\ End(s) = SizeOf(s)

AllWithinFile == \A i \in DOMAIN shards : WithinFile(shards[i])
StartsAtFirstByte == shards # <<>> => shards[1].file = 0 /\ shards[1].off = 0
Contiguous ==
  \A i \in DOMAIN shards : i > 1 =>
    NextInFile(shards[i - 1], shards[i]) \/ FirstOfNextFile(shards[i - 1], shards[i])
ReachesLastByte ==
  IF args.sizes = <<>> THEN shards = <<>>
  ELSE /\ shards # <<>>
       /\ shards[Len(shards)].file = Len(args.sizes) - 1
       /\ End(shards[Len(shards)]) = SizeOf(shards[Len(shards)])

(* The shards of a file follow one another without gap or overlap, from its *)
(* first byte to its last, and files follow one another in the list's       *)
(* order: every byte of every file has exactly one shard (compute_shards).  *)
ShardsTile ==
  /\ AllWithinFile
  /\ StartsAtFirstByte
  /\ Contiguous
  /\ phase # "split" => ReachesLastByte

(* Where one shard of a file ends and another begins is a multiple of the   *)
(* broadcast chunk, so that no chunk padded for O_DIRECT reaches into the   *)
(* next shard (cli.rs, the check of --shard-size).                          *)
BoundariesAligned ==
  \A i \in DOMAIN shards : shards[i].off % args.bcast_chunk = 0

(* --file-shards N never cuts a file into more than N shards.               *)
FileShardsRespected ==
  args.file_shards > 0 =>
    \A i \in DOMAIN shards : shards[i].shard < args.file_shards

(* Ranks differ by no more than one shard, however the sizes fall: between  *)
(* the most and the least loaded rank lies at most the longest shard.       *)
LoadsSpread ==
  phase # "split" =>
    \A b, c \in Bins : loads[b] > loads[c] =>
      \E i \in DOMAIN shards : loads[b] - loads[c] <= shards[i].len

SumLens(set) == MapThenSumSet(LAMBDA i : shards[i].len, set)

(* No assignment of the shards could have finished much earlier: the most   *)
(* loaded rank has at most 4/3 - 1/(3 count) of the least possible maximum  *)
(* (Graham's bound for longest-processing-time-first).  Compared with every *)
(* assignment, so only for plans of at most OptimumBound shards.            *)
OptimumBound == 5
MaxLoad(owner) ==
  Max({SumLens({i \in DOMAIN shards : owner[i] = b}) : b \in Bins})
LptNearOptimal ==
  (phase = "done" /\ Len(shards) <= OptimumBound) =>
    LET mine == MaxLoad([i \in DOMAIN shards |-> shards[i].owner])
    IN \A owner \in [DOMAIN shards -> Bins] :
         3 * args.count * mine <= (4 * args.count - 1) * MaxLoad(owner)
==============================================================================
