--------------------------- MODULE ShardPlanProofs ---------------------------
(***************************************************************************)
(* Theorems about compute_shards for every list of files, number of ranks  *)
(* and shard size: that its shards are a partition of the files, and that  *)
(* its assignment of them is within Graham's bound of the best.            *)
(*                                                                         *)
(* For the bound, bytes are things that can be counted (Units), a load is  *)
(* the number of those on a rank, and what is compared are finite sets:    *)
(* how many shards are alone on their rank in one assignment and in        *)
(* another (ManyAlone, FewAlone).                                          *)
(***************************************************************************)
EXTENDS ShardPlan, FiniteSetTheorems, WellFoundedInduction, TLAPS

(* What div_ceil returns: the least number of pieces of b that cover a.     *)
LEMMA CeilDivBounds ==
  ASSUME NEW a \in Nat, NEW b \in Nat \ {0}
  PROVE  /\ CeilDiv(a, b) \in Nat
         /\ CeilDiv(a, b) * b >= a
         /\ CeilDiv(a, b) * b < a + b
<1> DEFINE q == (a + b - 1) \div b
           m == (a + b - 1) % b
<1>1. a + b - 1 \in Nat
  OBVIOUS
<1>2. q \in Int /\ m \in 0 .. b - 1 /\ a + b - 1 = b * q + m
  BY <1>1
<1>3. q \in Nat
  BY <1>1
<1> QED BY <1>1, <1>2, <1>3 DEF CeilDiv

LEMMA InputTypes ==
  ASSUME NEW a \in Inputs
  PROVE  /\ a.sizes \in Seq(0 .. U64_MAX) /\ Len(a.sizes) \in Nat
         /\ a.count \in Nat \ {0}
         /\ \A i \in 1 .. Len(a.sizes) : a.sizes[i] \in 0 .. U64_MAX
BY ShardPlanAssumption

(* A non-empty set of naturals has a least element.                         *)
LEMMA LeastNatural ==
  ASSUME NEW T \in SUBSET Nat, T # {}
  PROVE  \E m \in T : \A n \in T : m <= n
<1>1. IsWellFoundedOn(OpToRel(<, Nat), Nat)
  BY NatLessThanWellFounded
<1>2. PICK m \in T : \A n \in T : ~(<<n, m>> \in OpToRel(<, Nat))
  BY <1>1, WFMin
<1>3. \A n \in T : ~(n < m)
  BY <1>2 DEF OpToRel
<1> QED BY <1>3

(* The maximum of the sizes exists, and is one of them.                     *)
LEMMA MaxSizeNat ==
  ASSUME NEW sizes \in Seq(0 .. U64_MAX)
  PROVE  /\ MaxSize(sizes) \in Nat
         /\ \A i \in DOMAIN sizes : sizes[i] <= MaxSize(sizes)
<1>1. DOMAIN sizes = 1 .. Len(sizes) /\ Len(sizes) \in Nat
      /\ U64_MAX \in Nat /\ \A i \in DOMAIN sizes : sizes[i] \in 0 .. U64_MAX
  BY ShardPlanAssumption
<1>2. CASE sizes = <<>>
  BY <1>2 DEF MaxSize
<1>3. CASE sizes # <<>>
  <2> DEFINE T == {n \in Nat : \A i \in DOMAIN sizes : sizes[i] <= n}
  <2>1. U64_MAX \in T
    BY <1>1
  <2>2. PICK m \in T : \A n \in T : m <= n
    <3>1. T \in SUBSET Nat /\ T # {}
      BY <2>1
    <3> HIDE DEF T
    <3> QED BY <3>1, LeastNatural
  <2>3. 1 \in DOMAIN sizes
    BY <1>1, <1>3
  <2>4. \E i \in DOMAIN sizes : sizes[i] = m
    <3> SUFFICES ASSUME \A i \in DOMAIN sizes : sizes[i] # m PROVE FALSE
      OBVIOUS
    <3>1. \A i \in DOMAIN sizes : sizes[i] \in Int /\ 0 <= sizes[i] /\ sizes[i] < m
      BY <1>1, <2>2
    <3>2. m \in Nat /\ 0 < m
      BY <2>3, <3>1
    <3>3. \A i \in DOMAIN sizes : sizes[i] <= m - 1
      BY <3>1, <3>2
    <3>4. m - 1 \in T
      BY <3>2, <3>3
    <3>5. m <= m - 1
      BY <2>2, <3>4
    <3> QED BY <3>2, <3>5
  <2>5. m \in {sizes[i] : i \in DOMAIN sizes} /\ \A i \in DOMAIN sizes : sizes[i] <= m
    BY <2>2, <2>4
  <2> DEFINE M == MaxSize(sizes)
  <2>6. M \in {sizes[i] : i \in DOMAIN sizes} /\ \A i \in DOMAIN sizes : sizes[i] <= M
    BY <1>3, <2>5 DEF MaxSize
  <2> QED BY <2>6, <1>1
<1> QED BY <1>2, <1>3

LEMMA ShardSizeNat == ASSUME NEW a \in Inputs PROVE ShardSize(a) \in Nat
<1>1. a.shard_size \in Nat /\ a.file_shards \in Nat /\ a.bcast_chunk \in Nat \ {0}
  BY ShardPlanAssumption
<1>2. CASE a.shard_size > 0 \/ a.file_shards = 0
  BY <1>1, <1>2 DEF ShardSize
<1>3. CASE ~(a.shard_size > 0 \/ a.file_shards = 0)
  <2>1. MaxSize(a.sizes) \in Nat
    BY ShardPlanAssumption, MaxSizeNat
  <2>2. CeilDiv(MaxSize(a.sizes), a.file_shards) \in Nat
    BY <1>1, <1>3, <2>1, CeilDivBounds
  <2>3. CeilDiv(CeilDiv(MaxSize(a.sizes), a.file_shards), a.bcast_chunk) \in Nat
    BY <1>1, <2>2, CeilDivBounds
  <2> QED BY <1>1, <1>3, <2>3 DEF ShardSize, RoundUpTo
<1> QED BY <1>2, <1>3

LEMMA ProductNat ==
  ASSUME NEW a \in Nat, NEW b \in Nat
  PROVE  a * b \in Nat /\ (a + 1) * b = a * b + b
OBVIOUS

LEMMA ProductMonotone ==
  ASSUME NEW a \in Nat, NEW b \in Nat, NEW c \in Nat, a <= b
  PROVE  a * c <= b * c
<1>1. PICK d \in Nat : b = a + d
  <2>1. b - a \in Nat /\ b = a + (b - a)
    OBVIOUS
  <2> QED BY <2>1
<1>2. d * c \in Nat /\ a * c \in Nat
  BY ProductNat
<1>3. b * c = a * c + d * c
  BY <1>1
<1> QED BY <1>2, <1>3

(* The k-th shard of a file ends where the next begins, or at the end of    *)
(* the file when it is the last one.                                        *)
LEMMA CutFacts ==
  ASSUME NEW size \in 0 .. U64_MAX, NEW ss \in Nat, NEW k \in Nat,
         k > 0 => ss > 0 /\ k * ss < size
  PROVE  /\ k * ss \in Nat
         /\ ShardLen(size, ss, k) \in 0 .. U64_MAX
         /\ k * ss + ShardLen(size, ss, k) <= size
         /\ k > 0 => ShardLen(size, ss, k) > 0
         /\ k + 1 < ShardsPerFile(size, ss) =>
              /\ ss > 0 /\ (k + 1) * ss < size
              /\ k * ss + ShardLen(size, ss, k) = (k + 1) * ss
         /\ ~(k + 1 < ShardsPerFile(size, ss)) =>
              k * ss + ShardLen(size, ss, k) = size
<1> DEFINE p == k * ss
           n == ShardsPerFile(size, ss)
           len == ShardLen(size, ss, k)
<1>1. p \in Nat /\ (k + 1) * ss = p + ss
  BY ProductNat
<1>2. size \in Nat /\ U64_MAX \in Nat /\ size <= U64_MAX
  BY ShardPlanAssumption
<1>3. CASE ss = 0
  <2>1. k = 0 /\ p = 0
    BY <1>3
  <2>2. n = 1 /\ len = size
    BY <1>3 DEF ShardsPerFile, ShardLen
  <2> QED BY <1>2, <2>1, <2>2
<1>4. CASE ss > 0
  <2>1. p <= size
    <3>1. CASE k = 0
      BY <3>1, <1>2
    <3>2. CASE k > 0
      BY <3>2, <1>1, <1>2
    <3> QED BY <3>1, <3>2
  <2>2. /\ len = IF size - p <= ss THEN size - p ELSE ss
        /\ len \in 0 .. U64_MAX /\ p + len <= size
    <3>1. len = IF size - p <= 0 THEN 0 ELSE IF size - p <= ss THEN size - p ELSE ss
      BY <1>4 DEF ShardLen
    <3> HIDE DEF len, p
    <3> QED BY <3>1, <2>1, <1>1, <1>2, <1>4
  <2>3. k > 0 => len > 0
    <3> HIDE DEF len, n
    <3> QED BY <2>2, <1>1, <1>2, <1>4
  <2>4. k + 1 < n => p + ss < size
    <3> SUFFICES ASSUME k + 1 < n PROVE p + ss < size
      OBVIOUS
    <3>1. size > ss /\ n = CeilDiv(size, ss)
      BY <1>2 DEF ShardsPerFile
    <3>2. n \in Nat /\ n * ss < size + ss
      BY <3>1, <1>2, <1>4, CeilDivBounds
    <3> HIDE DEF n
    <3>3. (k + 2) * ss <= n * ss
      BY <3>2, ProductMonotone
    <3>4. (k + 2) * ss = p + ss + ss
      BY <1>1, ProductNat
    <3>5. n * ss \in Nat
      BY <3>2, ProductNat
    <3> HIDE DEF p
    <3> QED BY <3>2, <3>3, <3>4, <3>5, <1>1, <1>2
  <2>5. ~(k + 1 < n) => size <= p + ss
    <3> SUFFICES ASSUME ~(k + 1 < n) PROVE size <= p + ss
      OBVIOUS
    <3>1. CASE size <= ss
      <4> HIDE DEF p
      <4> QED BY <3>1, <1>1, <1>2
    <3>2. CASE size > ss
      <4>1. n = CeilDiv(size, ss)
        BY <3>2, <1>2, <1>4 DEF ShardsPerFile
      <4>2. n \in Nat /\ n * ss >= size
        BY <4>1, <1>2, <1>4, CeilDivBounds
      <4> HIDE DEF n
      <4>3. n * ss <= (k + 1) * ss
        BY <4>2, ProductMonotone
      <4>4. n * ss \in Nat
        BY <4>2, ProductNat
      <4> HIDE DEF p
      <4> QED BY <4>2, <4>3, <4>4, <1>1, <1>2
    <3> QED BY <3>1, <3>2, <1>2
  <2> HIDE DEF p, n, len
  <2>6. k + 1 < n => p + len = p + ss
    BY <2>2, <2>4, <1>1, <1>2
  <2>7. ~(k + 1 < n) => p + len = size
    BY <2>1, <2>2, <2>5, <1>1, <1>2
  <2> QED BY <1>1, <1>4, <2>2, <2>3, <2>4, <2>6, <2>7 DEF p, n, len
<1> QED BY <1>3, <1>4

LEMMA ShardLenType ==
  ASSUME NEW size \in 0 .. U64_MAX, NEW ss \in Nat, NEW k \in Nat
  PROVE  k * ss \in Nat /\ ShardLen(size, ss, k) \in 0 .. U64_MAX
<1> DEFINE p == k * ss
<1>1. p \in Nat
  BY ProductNat
<1>2. size \in Nat /\ U64_MAX \in Nat /\ size <= U64_MAX
  BY ShardPlanAssumption
<1>3. ShardLen(size, ss, k) =
        IF ss = 0 THEN size
        ELSE IF size - p <= 0 THEN 0 ELSE IF size - p <= ss THEN size - p ELSE ss
  BY DEF ShardLen
<1> HIDE DEF p
<1>4. ShardLen(size, ss, k) \in 0 .. U64_MAX
  BY <1>1, <1>2, <1>3
<1> QED BY <1>1, <1>4 DEF p

------------------------------------------------------------------------------
(* What PushShard appends, and what Assign changes.                         *)
NewShard ==
  [file |-> file_idx, shard |-> shard_idx, off |-> shard_idx * ShardSize(args),
   len |-> ShardLen(args.sizes[file_idx + 1], ShardSize(args), shard_idx), owner |-> 0]

LEMMA PushFacts ==
  ASSUME TypeOK, PushShard
  PROVE  /\ NewShard \in PlanShard
         /\ shards' = Append(shards, NewShard)
         /\ args.sizes[file_idx + 1] \in 0 .. U64_MAX
         /\ file_idx + 1 \in 1 .. Len(args.sizes)
         /\ IF shard_idx + 1 < ShardsPerFile(args.sizes[file_idx + 1], ShardSize(args))
            THEN shard_idx' = shard_idx + 1 /\ file_idx' = file_idx
            ELSE shard_idx' = 0 /\ file_idx' = file_idx + 1
         /\ phase = "split" /\ UNCHANGED <<args, phase, todo, loads>>
<1>1. args \in Inputs /\ file_idx \in Nat /\ shard_idx \in Nat /\ Len(args.sizes) \in Nat
  BY InputTypes DEF TypeOK
<1>2. file_idx + 1 \in 1 .. Len(args.sizes)
  BY <1>1 DEF PushShard
<1>3. args.sizes[file_idx + 1] \in 0 .. U64_MAX
  BY <1>1, <1>2, InputTypes
<1>4. ShardSize(args) \in Nat
  BY <1>1, ShardSizeNat
<1>5. /\ shard_idx * ShardSize(args) \in Nat
      /\ ShardLen(args.sizes[file_idx + 1], ShardSize(args), shard_idx) \in 0 .. U64_MAX
  BY <1>1, <1>3, <1>4, ShardLenType
<1>6. NewShard \in PlanShard
  BY <1>1, <1>5 DEF NewShard, PlanShard
<1>7. shards' = Append(shards, NewShard)
  BY DEF PushShard, NewShard
<1> QED BY <1>2, <1>3, <1>6, <1>7 DEF PushShard

LEMMA AssignFacts ==
  ASSUME TypeOK, Assign
  PROVE  /\ shards' \in Seq(PlanShard) /\ Len(shards') = Len(shards)
         /\ DOMAIN shards' = DOMAIN shards
         /\ \A j \in DOMAIN shards : /\ shards'[j].file = shards[j].file
                                     /\ shards'[j].shard = shards[j].shard
                                     /\ shards'[j].off = shards[j].off
                                     /\ shards'[j].len = shards[j].len
<1>1. PICK i \in todo, bin \in Bins : shards' = [shards EXCEPT ![i].owner = bin]
  BY DEF Assign
<1>2. /\ shards \in Seq(PlanShard) /\ DOMAIN shards = 1 .. Len(shards)
      /\ Len(shards) \in Nat /\ i \in DOMAIN shards
  BY DEF TypeOK
<1>3. bin \in Nat
  BY InputTypes DEF Bins, TypeOK
<1>4. \A j \in DOMAIN shards : shards[j] \in PlanShard
  BY <1>2
<1>5. DOMAIN shards' = DOMAIN shards
  BY <1>1
<1>6. \A j \in DOMAIN shards :
        shards'[j] = IF j = i THEN [shards[j] EXCEPT !.owner = bin] ELSE shards[j]
  BY <1>1, <1>2
<1>7. \A j \in DOMAIN shards : shards'[j] \in PlanShard
  BY <1>3, <1>4, <1>6 DEF PlanShard
<1>8. shards' \in Seq(PlanShard) /\ Len(shards') = Len(shards)
  <2>1. shards' \in [1 .. Len(shards) -> PlanShard]
    BY <1>1, <1>2, <1>5, <1>7
  <2> QED BY <2>1, <1>2
<1>9. \A j \in DOMAIN shards : /\ shards'[j].file = shards[j].file
                               /\ shards'[j].shard = shards[j].shard
                               /\ shards'[j].off = shards[j].off
                               /\ shards'[j].len = shards[j].len
  BY <1>4, <1>6 DEF PlanShard
<1> QED BY <1>5, <1>8, <1>9

(* The cursor and the loads keep their types in every step of               *)
(* compute_shards.                                                          *)
THEOREM PlanTypeCorrect == Spec => []TypeOK
<1>1. Init => TypeOK
  <2> SUFFICES ASSUME Init PROVE TypeOK
    OBVIOUS
  <2>1. args \in Inputs /\ Len(args.sizes) \in Nat
    BY InputTypes DEF Init
  <2> QED BY <2>1 DEF Init, TypeOK
<1>2. TypeOK /\ [Next]_vars => TypeOK'
  <2> SUFFICES ASSUME TypeOK, [Next]_vars PROVE TypeOK'
    OBVIOUS
  <2>1. CASE PushShard
    <3>1. NewShard \in PlanShard /\ shards' = Append(shards, NewShard)
      BY <2>1, PushFacts
    <3>2. shards' \in Seq(PlanShard) /\ Len(shards') = Len(shards) + 1 /\ Len(shards) \in Nat
      BY <3>1 DEF TypeOK
    <3>3. todo' \subseteq DOMAIN shards'
      BY <2>1, <3>2, PushFacts DEF TypeOK
    <3>4. shard_idx' \in Nat /\ file_idx' \in 0 .. Len(args.sizes)
      <4>1. shard_idx \in Nat /\ file_idx \in Nat /\ Len(args.sizes) \in Nat
        BY InputTypes DEF TypeOK
      <4> QED BY <2>1, <4>1, PushFacts
    <3> QED BY <2>1, <3>2, <3>3, <3>4, PushFacts DEF TypeOK
  <2>2. CASE EndSplit
    <3>1. U64_MAX \in Nat
      BY ShardPlanAssumption
    <3>2. loads' \in [Bins -> 0 .. U64_MAX]
      BY <2>2, <3>1 DEF EndSplit
    <3>3. Bins' = Bins
      BY <2>2 DEF EndSplit, Bins
    <3> QED BY <2>2, <3>2, <3>3 DEF EndSplit, TypeOK
  <2>3. CASE Assign
    <3>1. shards' \in Seq(PlanShard) /\ DOMAIN shards' = DOMAIN shards
      BY <2>3, AssignFacts
    <3>2. loads' \in [Bins -> 0 .. U64_MAX]
      <4>1. PICK i \in todo, bin \in Bins :
              loads' = [loads EXCEPT ![bin] = SaturatingAdd(@, shards[i].len)]
        BY <2>3 DEF Assign
      <4>2. loads \in [Bins -> 0 .. U64_MAX]
        BY <2>3 DEF Assign, TypeOK
      <4>3. shards[i] \in PlanShard
        BY DEF TypeOK
      <4>4. shards[i].len \in 0 .. U64_MAX /\ loads[bin] \in 0 .. U64_MAX /\ U64_MAX \in Nat
        BY <4>2, <4>3, ShardPlanAssumption DEF PlanShard
      <4>5. SaturatingAdd(loads[bin], shards[i].len) \in 0 .. U64_MAX
        BY <4>4 DEF SaturatingAdd
      <4> QED BY <4>1, <4>2, <4>5
    <3>3. todo' \subseteq DOMAIN shards'
      BY <2>3, <3>1 DEF Assign, TypeOK
    <3>4. Bins' = Bins
      BY <2>3 DEF Assign, Bins
    <3> QED BY <2>3, <3>1, <3>2, <3>3, <3>4 DEF Assign, TypeOK
  <2>4. CASE EndAssign
    BY <2>4 DEF EndAssign, TypeOK, Bins
  <2>5. CASE Finished \/ UNCHANGED vars
    BY <2>5 DEF Finished, vars, TypeOK, Bins
  <2> QED BY <2>1, <2>2, <2>3, <2>4, <2>5 DEF Next
<1> QED BY <1>1, <1>2, PTL DEF Spec

(* The loads stay within one shard of each other: whatever order the sizes  *)
(* come in, compute_shards gives a shard to a least loaded rank.            *)
THEOREM LoadsSpreadAlways == Spec => []LoadsSpread
<1>1. Init => LoadsSpread
  BY DEF Init, LoadsSpread
<1>2. TypeOK /\ LoadsSpread /\ [Next]_vars => LoadsSpread'
  <2> SUFFICES ASSUME TypeOK, LoadsSpread, [Next]_vars PROVE LoadsSpread'
    OBVIOUS
  <2>1. CASE PushShard
    BY <2>1 DEF PushShard, LoadsSpread
  <2>2. CASE EndSplit
    <3>1. Bins' = Bins /\ \A b \in Bins : loads'[b] = 0
      BY <2>2 DEF EndSplit, Bins
    <3> QED BY <3>1 DEF LoadsSpread
  <2>3. CASE Assign
    <3>1. PICK i \in todo, bin \in Bins :
            /\ \A b \in Bins \ {bin} : Lighter(bin, b)
            /\ loads' = [loads EXCEPT ![bin] = SaturatingAdd(@, shards[i].len)]
      BY <2>3 DEF Assign
    <3>2. /\ loads \in [Bins -> 0 .. U64_MAX] /\ Bins' = Bins /\ U64_MAX \in Nat
          /\ shards \in Seq(PlanShard) /\ i \in DOMAIN shards
      BY <2>3, ShardPlanAssumption DEF Assign, TypeOK, Bins
    <3>3. \A j \in DOMAIN shards : shards[j].len \in 0 .. U64_MAX
      <4>1. \A j \in DOMAIN shards : shards[j] \in PlanShard
        BY <3>2
      <4> QED BY <4>1 DEF PlanShard
    <3>4. \A b \in Bins : loads[b] \in 0 .. U64_MAX
      BY <3>2
    <3>5. \A b \in Bins : loads[bin] <= loads[b]
      BY <3>1, <3>4 DEF Lighter
    <3>6. /\ loads'[bin] >= loads[bin] /\ loads'[bin] <= loads[bin] + shards[i].len
          /\ loads'[bin] \in 0 .. U64_MAX
      <4>1. loads'[bin] = SaturatingAdd(loads[bin], shards[i].len)
        BY <3>1, <3>2
      <4>2. loads[bin] \in 0 .. U64_MAX /\ shards[i].len \in 0 .. U64_MAX
        BY <3>2, <3>3, <3>4
      <4> QED BY <3>2, <4>1, <4>2 DEF SaturatingAdd
    <3>7. \A b \in Bins : b # bin => loads'[b] = loads[b]
      BY <3>1, <3>2
    <3>8. /\ DOMAIN shards' = DOMAIN shards
          /\ \A j \in DOMAIN shards : shards'[j].len = shards[j].len
      BY <2>3, AssignFacts
    <3> SUFFICES ASSUME NEW b \in Bins, NEW c \in Bins, loads'[b] > loads'[c]
                 PROVE  \E j \in DOMAIN shards : loads'[b] - loads'[c] <= shards[j].len
      BY <3>2, <3>8 DEF LoadsSpread
    <3>9. CASE b = bin
      <4>1. c # bin /\ loads'[c] = loads[c]
        BY <3>6, <3>7, <3>9
      <4>2. loads'[b] - loads'[c] <= shards[i].len
        BY <3>2, <3>3, <3>4, <3>5, <3>6, <3>9, <4>1
      <4> QED BY <3>2, <4>2
    <3>10. CASE b # bin
      <4>1. loads'[b] = loads[b] /\ loads'[c] >= loads[c] /\ loads'[c] \in 0 .. U64_MAX
        BY <3>4, <3>6, <3>7, <3>10
      <4>2. loads[b] > loads[c]
        BY <3>4, <4>1
      <4>3. PICK j \in DOMAIN shards : loads[b] - loads[c] <= shards[j].len
        BY <2>3, <4>2 DEF LoadsSpread, Assign
      <4>4. loads'[b] - loads'[c] <= shards[j].len
        BY <3>3, <3>4, <4>1, <4>3
      <4> QED BY <4>4
    <3> QED BY <3>9, <3>10
  <2>4. CASE EndAssign
    BY <2>4 DEF EndAssign, LoadsSpread, Bins
  <2>5. CASE Finished \/ UNCHANGED vars
    BY <2>5 DEF Finished, vars, LoadsSpread, Bins
  <2> QED BY <2>1, <2>2, <2>3, <2>4, <2>5 DEF Next
<1> QED BY <1>1, <1>2, PlanTypeCorrect, PTL DEF Spec

------------------------------------------------------------------------------
(* Where the cursor stands, relative to the last shard pushed.              *)
LastEndsAtCursor(s) ==
  IF shard_idx = 0
  THEN s.file = file_idx - 1 /\ End(s) = SizeOf(s)
  ELSE s.file = file_idx /\ s.shard = shard_idx - 1
       /\ End(s) = shard_idx * ShardSize(args)

Cursor ==
  /\ (phase = "split" /\ shard_idx > 0) =>
       /\ file_idx < Len(args.sizes) /\ ShardSize(args) > 0
       /\ shard_idx * ShardSize(args) < args.sizes[file_idx + 1]
  /\ phase # "split" => file_idx = Len(args.sizes) /\ shard_idx = 0
  /\ IF shards = <<>> THEN file_idx = 0 /\ shard_idx = 0
     ELSE LastEndsAtCursor(shards[Len(shards)])

Tiling == AllWithinFile /\ StartsAtFirstByte /\ Contiguous /\ Cursor

LEMMA TilingInit == Init => Tiling
<1> SUFFICES ASSUME Init PROVE Tiling
  OBVIOUS
<1>1. shards = <<>> /\ DOMAIN shards = {} /\ file_idx = 0 /\ shard_idx = 0 /\ phase = "split"
  BY DEF Init
<1> QED BY <1>1 DEF Tiling, AllWithinFile, StartsAtFirstByte, Contiguous, Cursor

LEMMA TilingPush ==
  ASSUME TypeOK, Tiling, PushShard
  PROVE  Tiling'
<1> DEFINE ss == ShardSize(args)
           size == args.sizes[file_idx + 1]
           s == NewShard
           n == Len(shards)
<1>1. /\ ss \in Nat /\ size \in 0 .. U64_MAX /\ shard_idx \in Nat /\ file_idx \in Nat
      /\ size \in Nat /\ Len(args.sizes) \in Nat /\ file_idx < Len(args.sizes)
  BY PushFacts, ShardSizeNat, InputTypes, ShardPlanAssumption DEF TypeOK
<1>2. shard_idx > 0 => ss > 0 /\ shard_idx * ss < size
  BY DEF PushShard, Tiling, Cursor
<1> DEFINE off == shard_idx * ss
           len == ShardLen(size, ss, shard_idx)
           more == shard_idx + 1 < ShardsPerFile(size, ss)
<1>3. /\ off \in Nat /\ len \in Nat /\ off + len <= size
      /\ shard_idx > 0 => len > 0
      /\ more => ss > 0 /\ (shard_idx + 1) * ss < size /\ off + len = (shard_idx + 1) * ss
      /\ ~more => off + len = size
  <2> HIDE DEF ss, size
  <2>1. len \in 0 .. U64_MAX
    BY <1>1, <1>2, CutFacts
  <2>2. len \in Nat
    BY <2>1, ShardPlanAssumption
  <2> QED BY <1>1, <1>2, <2>2, CutFacts
<1>4. /\ s.file = file_idx /\ s.shard = shard_idx /\ s.off = off /\ s.len = len
      /\ End(s) = off + len /\ SizeOf(s) = size
  BY DEF NewShard, End, SizeOf
<1>5. /\ shards \in Seq(PlanShard) /\ n \in Nat /\ s \in PlanShard
      /\ shards' = Append(shards, s) /\ args' = args /\ phase = "split" /\ phase' = "split"
  BY PushFacts DEF TypeOK
<1>6. /\ Len(shards') = n + 1 /\ DOMAIN shards' = 1 .. n + 1 /\ DOMAIN shards = 1 .. n
      /\ shards'[n + 1] = s
      /\ \A i \in 1 .. n : shards'[i] = shards[i]
      /\ shards' # <<>> /\ (shards = <<>> <=> n = 0)
  BY <1>5
<1>7. IF more THEN shard_idx' = shard_idx + 1 /\ file_idx' = file_idx
              ELSE shard_idx' = 0 /\ file_idx' = file_idx + 1
  BY PushFacts
<1>8. (ShardSize(args))' = ss
  BY <1>5
<1> HIDE DEF s, n, ss, size, off, len, more
<1>9. AllWithinFile'
  <2>1. WithinFile(s)
    BY <1>1, <1>3, <1>4 DEF WithinFile
  <2>2. \A i \in 1 .. n : WithinFile(shards[i])
    BY <1>6 DEF Tiling, AllWithinFile
  <2>3. \A i \in 1 .. n + 1 : WithinFile(shards'[i])
    BY <1>5, <1>6, <2>1, <2>2
  <2> QED BY <1>5, <1>6, <2>3 DEF AllWithinFile, WithinFile, SizeOf, End
<1>10. StartsAtFirstByte'
  <2>1. CASE n = 0
    <3>1. file_idx = 0 /\ shard_idx = 0
      BY <1>6, <2>1 DEF Tiling, Cursor
    <3>2. off = 0
      BY <1>1, <3>1 DEF off
    <3> QED BY <1>4, <1>6, <2>1, <3>1, <3>2 DEF StartsAtFirstByte
  <2>2. CASE n # 0
    <3>1. 1 \in 1 .. n
      BY <1>5, <2>2
    <3> QED BY <1>6, <2>2, <3>1 DEF StartsAtFirstByte, Tiling
  <2> QED BY <2>1, <2>2
<1>11. Contiguous'
  <2> SUFFICES ASSUME NEW i \in 1 .. n + 1, i > 1
               PROVE  \/ NextInFile(shards'[i - 1], shards'[i])
                      \/ FirstOfNextFile(shards'[i - 1], shards'[i])
    BY <1>5, <1>6 DEF Contiguous, NextInFile, FirstOfNextFile, SizeOf, End
  <2>1. CASE i <= n
    <3>1. i \in 1 .. n /\ i - 1 \in 1 .. n
      BY <1>5, <2>1
    <3> QED BY <1>6, <3>1 DEF Tiling, Contiguous
  <2>2. CASE i > n
    <3>1. i = n + 1 /\ i - 1 = n /\ n \in 1 .. n /\ n > 0
      BY <1>5, <2>2
    <3>2. LastEndsAtCursor(shards[n])
      BY <1>6, <3>1 DEF Tiling, Cursor, n
    <3>3. shards[n].file \in Nat /\ shards[n].shard \in Nat
      <4>1. shards[n] \in PlanShard
        BY <1>5, <1>6, <3>1
      <4> QED BY <4>1 DEF PlanShard
    <3>4. NextInFile(shards[n], s) \/ FirstOfNextFile(shards[n], s)
      <4>1. CASE shard_idx = 0
        <5>1. off = 0
          BY <1>1, <4>1 DEF off
        <5> QED BY <1>1, <1>4, <3>2, <3>3, <4>1, <5>1 DEF LastEndsAtCursor, FirstOfNextFile
      <4>2. CASE shard_idx # 0
        BY <1>1, <1>4, <3>2, <3>3, <4>2 DEF LastEndsAtCursor, NextInFile, off, ss
      <4> QED BY <4>1, <4>2
    <3> QED BY <1>6, <3>1, <3>4
  <2>3. i \in Nat /\ n \in Nat
    BY <1>5
  <2> QED BY <2>1, <2>2, <2>3
<1>12. Cursor'
  <2>1. CASE more
    <3>1. shard_idx' = shard_idx + 1 /\ file_idx' = file_idx
      BY <1>7, <2>1
    <3>2. file_idx' < Len(args'.sizes) /\ (ShardSize(args))' > 0
          /\ shard_idx' * (ShardSize(args))' < args'.sizes[file_idx' + 1]
      BY <1>1, <1>3, <1>5, <1>8, <2>1, <3>1 DEF size
    <3>3. End(s) = shard_idx' * (ShardSize(args))' /\ s.file = file_idx' /\ s.shard = shard_idx' - 1
          /\ shard_idx' # 0
      BY <1>1, <1>3, <1>4, <1>8, <2>1, <3>1
    <3>4. (LastEndsAtCursor(shards[Len(shards)]))'
      BY <1>6, <3>3 DEF LastEndsAtCursor, End
    <3> QED BY <1>5, <1>6, <3>2, <3>4 DEF Cursor
  <2>2. CASE ~more
    <3>1. shard_idx' = 0 /\ file_idx' = file_idx + 1
      BY <1>7, <2>2
    <3>2. s.file = file_idx' - 1 /\ End(s) = SizeOf(s)
      BY <1>1, <1>3, <1>4, <2>2, <3>1
    <3>3. (LastEndsAtCursor(shards[Len(shards)]))'
      BY <1>5, <1>6, <3>1, <3>2 DEF LastEndsAtCursor, End, SizeOf
    <3> QED BY <1>5, <1>6, <3>1, <3>3 DEF Cursor
  <2> QED BY <2>1, <2>2
<1> QED BY <1>9, <1>10, <1>11, <1>12 DEF Tiling

LEMMA TilingAssign ==
  ASSUME TypeOK, Tiling, Assign
  PROVE  Tiling'
<1>1. /\ UNCHANGED <<args, phase, file_idx, shard_idx>>
      /\ Len(shards') = Len(shards) /\ DOMAIN shards' = DOMAIN shards
      /\ DOMAIN shards = 1 .. Len(shards) /\ Len(shards) \in Nat
      /\ shards' \in Seq(PlanShard) /\ shards \in Seq(PlanShard)
  <2>1. shards \in Seq(PlanShard)
    BY DEF TypeOK
  <2>2. shards' \in Seq(PlanShard) /\ Len(shards') = Len(shards) /\ DOMAIN shards' = DOMAIN shards
    BY AssignFacts
  <2>3. UNCHANGED <<args, phase, file_idx, shard_idx>>
    BY DEF Assign
  <2> QED BY <2>1, <2>2, <2>3
<1>2. \A j \in DOMAIN shards : /\ shards'[j].file = shards[j].file
                               /\ shards'[j].shard = shards[j].shard
                               /\ shards'[j].off = shards[j].off
                               /\ shards'[j].len = shards[j].len
  BY AssignFacts
<1>3. AllWithinFile'
  BY <1>1, <1>2 DEF Tiling, AllWithinFile, WithinFile, End, SizeOf
<1>4. shards' = <<>> <=> shards = <<>>
  BY <1>1
<1>5. StartsAtFirstByte'
  <2>1. shards # <<>> => 1 \in DOMAIN shards
    BY <1>1
  <2> QED BY <1>2, <1>4, <2>1 DEF Tiling, StartsAtFirstByte
<1>6. Contiguous'
  <2> SUFFICES ASSUME NEW i \in DOMAIN shards, i > 1
               PROVE  (\/ NextInFile(shards[i - 1], shards[i])
                       \/ FirstOfNextFile(shards[i - 1], shards[i]))'
    BY <1>1 DEF Contiguous, NextInFile, FirstOfNextFile, SizeOf, End
  <2>1. i - 1 \in DOMAIN shards
    BY <1>1
  <2>2. NextInFile(shards[i - 1], shards[i]) \/ FirstOfNextFile(shards[i - 1], shards[i])
    BY DEF Tiling, Contiguous
  <2> QED BY <1>1, <1>2, <2>1, <2>2 DEF NextInFile, FirstOfNextFile, SizeOf, End
<1>7. Cursor'
  <2>1. shards # <<>> => Len(shards) \in DOMAIN shards
    BY <1>1
  <2> QED BY <1>1, <1>2, <1>4, <2>1 DEF Tiling, Cursor, LastEndsAtCursor, SizeOf, End
<1> QED BY <1>3, <1>5, <1>6, <1>7 DEF Tiling

LEMMA TilingRest ==
  ASSUME TypeOK, Tiling, EndSplit \/ EndAssign \/ Finished \/ UNCHANGED vars
  PROVE  Tiling'
<1>1. UNCHANGED <<args, file_idx, shard_idx, shards>>
  BY DEF EndSplit, EndAssign, Finished, vars
<1>2. AllWithinFile' /\ StartsAtFirstByte' /\ Contiguous'
  BY <1>1 DEF Tiling, AllWithinFile, WithinFile, StartsAtFirstByte, Contiguous, NextInFile,
              FirstOfNextFile, SizeOf, End
<1>3. Cursor'
  <2>1. phase' # "split" => file_idx = Len(args.sizes) /\ shard_idx = 0
    <3>1. CASE EndSplit
      <4>1. file_idx = Len(args.sizes) /\ shard_idx \in Nat /\ Len(args.sizes) \in Nat
        BY <3>1, InputTypes DEF EndSplit, TypeOK
      <4>2. ~(shard_idx > 0)
        BY <3>1, <4>1 DEF EndSplit, Tiling, Cursor
      <4> QED BY <4>1, <4>2
    <3>2. CASE EndAssign
      BY <3>2 DEF EndAssign, Tiling, Cursor
    <3>3. CASE Finished \/ UNCHANGED vars
      BY <3>3 DEF Finished, vars, Tiling, Cursor
    <3> QED BY <3>1, <3>2, <3>3
  <2>2. phase' = "split" => phase = "split"
    BY DEF EndSplit, EndAssign, Finished, vars
  <2> QED BY <1>1, <2>1, <2>2 DEF Tiling, Cursor, LastEndsAtCursor, SizeOf, End
<1> QED BY <1>2, <1>3 DEF Tiling

LEMMA TilingAlways == Spec => []Tiling
<1>1. TypeOK /\ Tiling /\ [Next]_vars => Tiling'
  BY TilingPush, TilingAssign, TilingRest DEF Next
<1> QED BY <1>1, TilingInit, PlanTypeCorrect, PTL DEF Spec

(* Every byte of every file of every list falls into exactly one shard.     *)
THEOREM ShardsTileAlways == Spec => []ShardsTile
<1>1. TypeOK /\ Tiling => ShardsTile
  <2> SUFFICES ASSUME TypeOK, Tiling, phase # "split" PROVE ReachesLastByte
    BY DEF Tiling, ShardsTile
  <2>1. /\ args.sizes \in Seq(0 .. U64_MAX) /\ Len(args.sizes) \in Nat
        /\ file_idx = Len(args.sizes) /\ shard_idx = 0
    BY InputTypes DEF TypeOK, Tiling, Cursor
  <2>2. CASE shards = <<>>
    <3>1. args.sizes = <<>>
      BY <2>1, <2>2 DEF Tiling, Cursor
    <3> QED BY <2>2, <3>1 DEF ReachesLastByte
  <2>3. CASE shards # <<>>
    <3>1. /\ shards[Len(shards)].file = Len(args.sizes) - 1
          /\ End(shards[Len(shards)]) = SizeOf(shards[Len(shards)])
      BY <2>1, <2>3 DEF Tiling, Cursor, LastEndsAtCursor
    <3>2. args.sizes # <<>>
      <4>1. shards[Len(shards)] \in PlanShard
        BY <2>3 DEF TypeOK
      <4> QED BY <2>1, <3>1, <4>1 DEF PlanShard
    <3> QED BY <2>3, <3>1, <3>2 DEF ReachesLastByte
  <2> QED BY <2>2, <2>3
<1> QED BY <1>1, PlanTypeCorrect, TilingAlways, PTL

------------------------------------------------------------------------------
LEMMA ProductAssoc ==
  ASSUME NEW a \in Nat, NEW b \in Nat, NEW c \in Nat
  PROVE  a * (b * c) = (a * b) * c
OBVIOUS

(* Multiples leave no remainder, and only they.                             *)
LEMMA MultipleMod ==
  ASSUME NEW q \in Nat, NEW b \in Nat \ {0}
  PROVE  (q * b) % b = 0
<1> DEFINE n == q * b
           d == n \div b
           r == n % b
<1>1. n \in Nat
  BY ProductNat
<1>2. d \in Nat /\ r \in 0 .. b - 1 /\ n = d * b + r
  BY <1>1
<1>3. d * b \in Nat
  BY <1>2, ProductNat
<1>4. CASE q <= d
  <2>1. n <= d * b
    BY <1>2, <1>4, ProductMonotone
  <2> HIDE DEF n, d, r
  <2> QED BY <1>1, <1>2, <1>3, <2>1 DEF n, r
<1>5. CASE d + 1 <= q
  <2>1. (d + 1) * b <= n
    BY <1>2, <1>5, ProductMonotone
  <2>2. (d + 1) * b = d * b + b
    BY <1>2, ProductNat
  <2> HIDE DEF n, d, r
  <2>3. FALSE
    BY <1>1, <1>2, <1>3, <2>1, <2>2
  <2> QED BY <2>3
<1> QED BY <1>2, <1>4, <1>5

LEMMA MultipleOfMultiple ==
  ASSUME NEW a \in Nat, NEW b \in Nat \ {0}, NEW k \in Nat, a % b = 0
  PROVE  (k * a) % b = 0
<1>1. PICK q \in Nat : a = q * b
  <2>1. a = (a \div b) * b + (a % b) /\ a \div b \in Nat
    OBVIOUS
  <2> QED BY <2>1
<1>2. k * q \in Nat
  BY ProductNat
<1>3. k * a = (k * q) * b
  BY <1>1, ProductAssoc
<1> QED BY <1>2, <1>3, MultipleMod

(* The effective shard size is a whole number of broadcast chunks, and with *)
(* --file-shards N is large enough for N shards to cover the largest file.  *)
LEMMA ShardSizeFacts ==
  ASSUME NEW a \in Inputs
  PROVE  /\ ShardSize(a) \in Nat /\ ShardSize(a) % a.bcast_chunk = 0
         /\ a.file_shards > 0 =>
              \A i \in DOMAIN a.sizes : a.sizes[i] <= a.file_shards * ShardSize(a)
<1>1. /\ a.shard_size \in Nat /\ a.file_shards \in Nat /\ a.bcast_chunk \in Nat \ {0}
      /\ Valid(a) /\ a.sizes \in Seq(0 .. U64_MAX)
  BY ShardPlanAssumption
<1>2. CASE a.shard_size > 0
  BY <1>1, <1>2 DEF ShardSize, Valid
<1>3. CASE a.shard_size = 0 /\ a.file_shards = 0
  <2>1. ShardSize(a) = 0
    BY <1>3 DEF ShardSize
  <2> QED BY <1>1, <1>3, <2>1
<1>4. CASE a.shard_size = 0 /\ a.file_shards > 0
  <2> DEFINE max == MaxSize(a.sizes)
             raw == CeilDiv(max, a.file_shards)
             chunks == CeilDiv(raw, a.bcast_chunk)
  <2>1. max \in Nat /\ \A i \in DOMAIN a.sizes : a.sizes[i] <= max
    BY <1>1, MaxSizeNat
  <2>2. ShardSize(a) = chunks * a.bcast_chunk
    BY <1>4 DEF ShardSize, RoundUpTo
  <2> HIDE DEF max
  <2>3. raw \in Nat /\ raw * a.file_shards >= max
    <3>1. a.file_shards \in Nat \ {0}
      BY <1>1, <1>4
    <3> QED BY <2>1, <3>1, CeilDivBounds
  <2> HIDE DEF raw
  <2>4. chunks \in Nat /\ chunks * a.bcast_chunk >= raw
    BY <1>1, <2>3, CeilDivBounds
  <2> HIDE DEF chunks
  <2>5. ShardSize(a) \in Nat /\ ShardSize(a) >= raw
    BY <1>1, <2>2, <2>4, ProductNat
  <2>6. ShardSize(a) % a.bcast_chunk = 0
    BY <1>1, <2>2, <2>4, MultipleMod
  <2>7. raw * a.file_shards <= ShardSize(a) * a.file_shards
    BY <1>1, <2>3, <2>5, ProductMonotone
  <2>8. /\ raw * a.file_shards \in Nat /\ ShardSize(a) * a.file_shards \in Nat
        /\ ShardSize(a) * a.file_shards = a.file_shards * ShardSize(a)
    BY <1>1, <2>3, <2>5, ProductNat
  <2>9. max <= a.file_shards * ShardSize(a)
    BY <2>1, <2>3, <2>7, <2>8
  <2>10. \A i \in DOMAIN a.sizes : a.sizes[i] \in Nat
    BY <1>1, ShardPlanAssumption
  <2> QED BY <2>1, <2>5, <2>6, <2>8, <2>9, <2>10
<1> QED BY <1>1, <1>2, <1>3, <1>4

(* Shards begin on broadcast-chunk boundaries, and --file-shards N cuts no  *)
(* file into more than N: for every list, chunk and shard size.             *)
LEMMA PushWithinLimits ==
  ASSUME TypeOK, Tiling, PushShard
  PROVE  /\ NewShard.off % args.bcast_chunk = 0
         /\ args.file_shards > 0 => NewShard.shard < args.file_shards
<1> DEFINE ss == ShardSize(args)
           size == args.sizes[file_idx + 1]
<1>1. /\ args \in Inputs /\ shard_idx \in Nat /\ size \in Nat /\ ss \in Nat
      /\ file_idx + 1 \in DOMAIN args.sizes
      /\ args.bcast_chunk \in Nat \ {0} /\ args.file_shards \in Nat
  BY PushFacts, ShardSizeFacts, InputTypes, ShardPlanAssumption DEF TypeOK
<1>2. shard_idx > 0 => shard_idx * ss < size
  BY DEF PushShard, Tiling, Cursor
<1>3. NewShard.off = shard_idx * ss /\ NewShard.shard = shard_idx
  BY DEF NewShard
<1>4. ss % args.bcast_chunk = 0 /\ (args.file_shards > 0 => size <= args.file_shards * ss)
  BY <1>1, ShardSizeFacts
<1> HIDE DEF ss, size
<1>5. (shard_idx * ss) % args.bcast_chunk = 0
  BY <1>1, <1>4, MultipleOfMultiple
<1>6. ASSUME args.file_shards > 0 PROVE shard_idx < args.file_shards
  <2>1. CASE shard_idx = 0
    BY <1>6, <2>1
  <2>2. CASE shard_idx > 0
    <3>1. /\ shard_idx * ss < args.file_shards * ss
          /\ shard_idx * ss \in Nat /\ args.file_shards * ss \in Nat
      BY <1>1, <1>2, <1>4, <1>6, <2>2, ProductNat
    <3>2. args.file_shards <= shard_idx => args.file_shards * ss <= shard_idx * ss
      BY <1>1, ProductMonotone
    <3> QED BY <1>1, <3>1, <3>2
  <2> QED BY <1>1, <2>1, <2>2
<1> QED BY <1>3, <1>5, <1>6

WithinLimits == BoundariesAligned /\ FileShardsRespected

LEMMA WithinLimitsAlways == Spec => []WithinLimits
<1>1. Init => WithinLimits
  BY DEF Init, WithinLimits, BoundariesAligned, FileShardsRespected
<1>2. TypeOK /\ Tiling /\ WithinLimits /\ [Next]_vars => WithinLimits'
  <2> SUFFICES ASSUME TypeOK, Tiling, WithinLimits, [Next]_vars PROVE WithinLimits'
    OBVIOUS
  <2>1. CASE PushShard
    <3> DEFINE n == Len(shards)
    <3>1. /\ shards \in Seq(PlanShard) /\ n \in Nat /\ NewShard \in PlanShard
          /\ shards' = Append(shards, NewShard) /\ args' = args
      BY <2>1, PushFacts DEF TypeOK
    <3>2. /\ DOMAIN shards' = 1 .. n + 1 /\ DOMAIN shards = 1 .. n
          /\ shards'[n + 1] = NewShard /\ \A i \in 1 .. n : shards'[i] = shards[i]
      BY <3>1
    <3>3. \A i \in 1 .. n + 1 : i \in 1 .. n \/ i = n + 1
      BY <3>1
    <3> HIDE DEF n
    <3> QED BY <2>1, <3>1, <3>2, <3>3, PushWithinLimits
            DEF WithinLimits, BoundariesAligned, FileShardsRespected
  <2>2. CASE Assign
    BY <2>2, AssignFacts DEF Assign, WithinLimits, BoundariesAligned, FileShardsRespected
  <2>3. CASE EndSplit \/ EndAssign \/ Finished \/ UNCHANGED vars
    <3>1. UNCHANGED <<args, shards>>
      BY <2>3 DEF EndSplit, EndAssign, Finished, vars
    <3> QED BY <3>1 DEF WithinLimits, BoundariesAligned, FileShardsRespected
  <2> QED BY <2>1, <2>2, <2>3 DEF Next
<1> QED BY <1>1, <1>2, PlanTypeCorrect, TilingAlways, PTL DEF Spec

(* No chunk padded for O_DIRECT reaches into the next shard of its file.    *)
THEOREM BoundariesAlignedAlways == Spec => []BoundariesAligned
BY WithinLimitsAlways, PTL DEF WithinLimits

(* --file-shards N is an upper bound on the shards of a file.               *)
THEOREM FileShardsRespectedAlways == Spec => []FileShardsRespected
BY WithinLimitsAlways, PTL DEF WithinLimits

------------------------------------------------------------------------------
(* Sums.  MapThenSumSet takes away one element after another; what it adds  *)
(* up is the size of a union of disjoint parts.                             *)
Joined(parts, s) == UNION {parts[x] : x \in s}
AreParts(parts, S) ==
  /\ IsFiniteSet(S) /\ \A x \in S : IsFiniteSet(parts[x])
  /\ \A x, y \in S : x # y => parts[x] \cap parts[y] = {}

LEMMA JoinedGrows ==
  ASSUME NEW S, NEW parts, AreParts(parts, S), NEW s \in SUBSET S, NEW x \in s
  PROVE  /\ IsFiniteSet(Joined(parts, s))
         /\ Cardinality(Joined(parts, s))
              = Cardinality(parts[x]) + Cardinality(Joined(parts, s \ {x}))
<1> USE DEF AreParts
<1> DEFINE rest == Joined(parts, s \ {x})
           all == Joined(parts, s)
<1>1. all = parts[x] \cup rest /\ parts[x] \cap rest = {}
  BY DEF Joined
<1>2. IsFiniteSet(rest)
  <2>1. IsFiniteSet(S \ {x}) /\ s \ {x} \in SUBSET S
    BY FS_RemoveElement
  <2>2. IsFiniteSet(s \ {x})
    BY <2>1, FS_Subset
  <2>3. IsFiniteSet({parts[y] : y \in s \ {x}})
    <3> DEFINE T == s \ {x}
    <3> SUFFICES IsFiniteSet({parts[y] : y \in T})
      OBVIOUS
    <3>1. [y \in T |-> parts[y]] \in Surjection(T, {parts[y] : y \in T})
      BY DEF Surjection
    <3> QED BY <2>2, <3>1, FS_Surjection
  <2>4. \A p \in {parts[y] : y \in s \ {x}} : IsFiniteSet(p)
    OBVIOUS
  <2> QED BY <2>3, <2>4, FS_UNION DEF Joined
<1>3. IsFiniteSet(parts[x])
  OBVIOUS
<1> HIDE DEF all, rest
<1>4. /\ Cardinality(parts[x]) \in Nat /\ Cardinality(rest) \in Nat
      /\ Cardinality(parts[x] \cup rest)
           = Cardinality(parts[x]) + Cardinality(rest) - Cardinality(parts[x] \cap rest)
  BY <1>2, <1>3, FS_CardinalityType, FS_Union
<1>5. Cardinality(parts[x] \cap rest) = 0
  BY <1>1, FS_EmptySet
<1>6. IsFiniteSet(all)
  BY <1>1, <1>2, <1>3, FS_Union
<1> QED BY <1>1, <1>4, <1>5, <1>6 DEF all, rest

LEMMA SumOfParts ==
  ASSUME NEW S, NEW parts, AreParts(parts, S),
         NEW pick, \A s \in SUBSET S : s # {} => pick[s] \in s,
         NEW sum, \A s \in SUBSET S :
           sum[s] = IF s = {} THEN 0 ELSE Cardinality(parts[pick[s]]) + sum[s \ {pick[s]}]
  PROVE  sum[S] = Cardinality(Joined(parts, S))
<1> DEFINE size(s) == Cardinality(Joined(parts, s))
           bad == {s \in SUBSET S : sum[s] # size(s)}
           sizes == {Cardinality(s) : s \in bad}
<1> SUFFICES ASSUME bad # {} PROVE FALSE
  OBVIOUS
<1> HIDE DEF size
<1>1. \A s \in SUBSET S : IsFiniteSet(s) /\ Cardinality(s) \in Nat
  BY FS_Subset, FS_CardinalityType DEF AreParts
<1>2. PICK s \in bad : \A t \in bad : Cardinality(s) <= Cardinality(t)
  <2>1. sizes \in SUBSET Nat /\ sizes # {}
    <3>1. bad \subseteq SUBSET S
      OBVIOUS
    <3> HIDE DEF bad
    <3> QED BY <1>1, <3>1
  <2>2. PICK n \in sizes : \A m \in sizes : n <= m
    <3> HIDE DEF sizes
    <3> QED BY <2>1, LeastNatural
  <2> HIDE DEF bad
  <2>3. PICK s \in bad : n = Cardinality(s)
    OBVIOUS
  <2> QED BY <2>2, <2>3
<1>3. s \in SUBSET S /\ sum[s] # size(s)
  OBVIOUS
<1>4. s # {}
  <2>1. Joined(parts, {}) = {}
    BY DEF Joined
  <2> QED BY <1>3, <2>1, FS_EmptySet DEF size
<1> DEFINE x == pick[s]
           t == s \ {x}
<1>5. x \in s /\ t \in SUBSET S
  BY <1>3, <1>4
<1>6. Cardinality(t) = Cardinality(s) - 1
  BY <1>1, <1>3, <1>5, FS_RemoveElement
<1>7. sum[t] = size(t)
  <2> HIDE DEF t
  <2>1. Cardinality(s) \in Nat /\ Cardinality(t) \in Nat
    BY <1>1, <1>3, <1>5
  <2>2. t \notin bad
    <3> HIDE DEF bad
    <3> QED BY <1>2, <1>6, <2>1
  <2> QED BY <1>5, <2>2
<1>8. sum[s] = Cardinality(parts[x]) + sum[t]
  BY <1>3, <1>4
<1>9. size(s) = Cardinality(parts[x]) + size(t)
  <2> HIDE DEF x
  <2> QED BY <1>3, <1>5, JoinedGrows DEF size
<1> HIDE DEF t, x, bad
<1> QED BY <1>3, <1>7, <1>8, <1>9

(* The bytes of a set of shards, as things that can be counted.             *)
Units(len) == [j \in DOMAIN len |-> {j} \X (1 .. len[j])]
Bytes(len, T) == Cardinality(Joined(Units(len), T))
On(owner, T, b) == {j \in T : owner[j] = b}
AreLengths(len, J) == IsFiniteSet(J) /\ len \in [J -> Nat]

LEMMA UnitsAreParts ==
  ASSUME NEW J, NEW len, AreLengths(len, J)
  PROVE  /\ AreParts(Units(len), J)
         /\ \A j \in J : Cardinality(Units(len)[j]) = len[j]
<1>1. DOMAIN len = J /\ \A j \in J : Units(len)[j] = {j} \X (1 .. len[j])
  BY DEF AreLengths, Units
<1>2. ASSUME NEW j \in J
      PROVE  IsFiniteSet({j} \X (1 .. len[j])) /\ Cardinality({j} \X (1 .. len[j])) = len[j]
  <2>1. IsFiniteSet({j}) /\ Cardinality({j}) = 1
    BY FS_Singleton
  <2>2. len[j] \in Nat
    BY DEF AreLengths
  <2>3. IsFiniteSet(1 .. len[j]) /\ Cardinality(1 .. len[j]) = len[j]
    <3>1. 1 \in Int /\ len[j] \in Int
      BY <2>2
    <3> QED BY <2>2, <3>1, FS_Interval
  <2>4. /\ IsFiniteSet({j} \X (1 .. len[j]))
        /\ Cardinality({j} \X (1 .. len[j])) = 1 * len[j]
    BY <2>1, <2>3, FS_Product
  <2> QED BY <2>2, <2>4
<1>3. \A i, j \in J : i # j => Units(len)[i] \cap Units(len)[j] = {}
  BY <1>1
<1> QED BY <1>1, <1>2, <1>3 DEF AreParts, AreLengths

LEMMA BytesFacts ==
  ASSUME NEW J, NEW len, AreLengths(len, J)
  PROVE  /\ \A T \in SUBSET J : Bytes(len, T) \in Nat
         /\ Bytes(len, {}) = 0
         /\ \A j \in J : Bytes(len, {j}) = len[j]
         /\ \A T, U \in SUBSET J :
              T \cap U = {} => Bytes(len, T \cup U) = Bytes(len, T) + Bytes(len, U)
         /\ \A T, U \in SUBSET J : T \subseteq U => Bytes(len, T) <= Bytes(len, U)
<1> DEFINE P == Units(len)
<1>1. AreParts(P, J) /\ \A j \in J : IsFiniteSet(P[j]) /\ Cardinality(P[j]) = len[j]
  BY UnitsAreParts DEF AreParts
<1> HIDE DEF P
<1>2. Joined(P, {}) = {}
  BY DEF Joined
<1>3. \A T \in SUBSET J : IsFiniteSet(Joined(P, T)) /\ Cardinality(Joined(P, T)) \in Nat
  <2> SUFFICES ASSUME NEW T \in SUBSET J PROVE IsFiniteSet(Joined(P, T))
    BY FS_CardinalityType
  <2>1. CASE T = {}
    BY <1>2, <2>1, FS_EmptySet
  <2>2. CASE T # {}
    <3>1. PICK x \in T : TRUE
      BY <2>2
    <3> QED BY <1>1, <3>1, JoinedGrows
  <2> QED BY <2>1, <2>2
<1>4. ASSUME NEW T \in SUBSET J, NEW U \in SUBSET J, T \cap U = {}
      PROVE  Cardinality(Joined(P, T \cup U))
               = Cardinality(Joined(P, T)) + Cardinality(Joined(P, U))
  <2>1. /\ Joined(P, T \cup U) = Joined(P, T) \cup Joined(P, U)
        /\ Joined(P, T) \cap Joined(P, U) = {}
    BY <1>1, <1>4 DEF Joined, AreParts
  <2>2. Cardinality(Joined(P, T) \cap Joined(P, U)) = 0
    BY <2>1, FS_EmptySet
  <2>3. Cardinality(Joined(P, T) \cup Joined(P, U))
          = Cardinality(Joined(P, T)) + Cardinality(Joined(P, U))
              - Cardinality(Joined(P, T) \cap Joined(P, U))
    BY <1>3, FS_Union
  <2>4. Cardinality(Joined(P, T)) \in Nat /\ Cardinality(Joined(P, U)) \in Nat
    BY <1>3
  <2>5. Cardinality(Joined(P, T \cup U)) = Cardinality(Joined(P, T) \cup Joined(P, U))
    BY <2>1
  <2> QED BY <2>2, <2>3, <2>4, <2>5
<1>5. ASSUME NEW T \in SUBSET J, NEW U \in SUBSET J, T \subseteq U
      PROVE  Cardinality(Joined(P, T)) <= Cardinality(Joined(P, U))
  <2>1. Joined(P, T) \in SUBSET Joined(P, U)
    BY <1>5 DEF Joined
  <2> QED BY <1>3, <2>1, FS_Subset
<1>6. \A j \in J : Joined(P, {j}) = P[j]
  BY DEF Joined
<1> QED BY <1>1, <1>2, <1>3, <1>4, <1>5, <1>6, FS_EmptySet DEF Bytes, P

LEMMA BytesWith ==
  ASSUME NEW J, NEW len, AreLengths(len, J), NEW T \in SUBSET J, NEW j \in J \ T
  PROVE  Bytes(len, T \cup {j}) = Bytes(len, T) + len[j]
<1> DEFINE U == {j}
<1>1. U \in SUBSET J /\ T \cap U = {}
  OBVIOUS
<1>2. Bytes(len, U) = len[j]
  BY BytesFacts
<1> HIDE DEF U
<1>3. \A V, W \in SUBSET J : V \cap W = {} => Bytes(len, V \cup W) = Bytes(len, V) + Bytes(len, W)
  BY BytesFacts
<1>4. Bytes(len, T \cup U) = Bytes(len, T) + Bytes(len, U)
  BY <1>1, <1>3
<1> QED BY <1>2, <1>4 DEF U

(* What all bins hold, if each holds at most or at least so much.           *)
LEMMA BytesOfBins ==
  ASSUME NEW J, NEW len, AreLengths(len, J), NEW T \in SUBSET J, NEW m \in Nat,
         NEW owner \in [J -> 0 .. m - 1], NEW bound \in Nat
  PROVE  /\ (\A b \in 0 .. m - 1 : Bytes(len, On(owner, T, b)) <= bound)
              => Bytes(len, T) <= m * bound
         /\ (\A b \in 0 .. m - 1 : bound <= Bytes(len, On(owner, T, b)))
              => m * bound <= Bytes(len, T)
<1> DEFINE below(n) == {j \in T : owner[j] < n}
           AllAtMost == \A b \in 0 .. m - 1 : Bytes(len, On(owner, T, b)) <= bound
           AllAtLeast == \A b \in 0 .. m - 1 : bound <= Bytes(len, On(owner, T, b))
           Right(n) == /\ AllAtMost => Bytes(len, below(n)) <= n * bound
                       /\ AllAtLeast => n * bound <= Bytes(len, below(n))
           wrong == {n \in 0 .. m : ~Right(n)}
<1>1. \A j \in T : owner[j] \in 0 .. m - 1
  OBVIOUS
<1>2. below(m) = T /\ below(0) = {}
  BY <1>1
<1>3. Bytes(len, {}) = 0 /\ 0 * bound = 0
  BY BytesFacts
<1>4. Right(0)
  <2>1. Bytes(len, below(0)) = 0
    BY <1>2, <1>3
  <2> HIDE DEF below
  <2> QED BY <1>3, <2>1
<1>5. ASSUME NEW n \in 0 .. m - 1, Right(n) PROVE Right(n + 1)
  <2>1. below(n + 1) = below(n) \cup On(owner, T, n) /\ below(n) \cap On(owner, T, n) = {}
    BY <1>1 DEF On
  <2>2. below(n) \in SUBSET J /\ On(owner, T, n) \in SUBSET J
    BY DEF On
  <2>3. Bytes(len, below(n + 1)) = Bytes(len, below(n)) + Bytes(len, On(owner, T, n))
    <3> HIDE DEF below
    <3> QED BY <2>1, <2>2, BytesFacts
  <2>4. Bytes(len, below(n)) \in Nat /\ Bytes(len, On(owner, T, n)) \in Nat
    <3> HIDE DEF below
    <3> QED BY <2>2, BytesFacts
  <2>5. n * bound \in Nat /\ (n + 1) * bound = n * bound + bound
    BY ProductNat
  <2> HIDE DEF below
  <2> QED BY <1>5, <2>3, <2>4, <2>5
<1>6. ASSUME wrong # {} PROVE FALSE
  <2> HIDE DEF Right
  <2>1. wrong \in SUBSET Nat
    OBVIOUS
  <2>2. PICK n \in wrong : \A k \in wrong : n <= k
    <3> HIDE DEF wrong
    <3> QED BY <1>6, <2>1, LeastNatural
  <2>3. n # 0 /\ n \in 0 .. m /\ ~Right(n)
    BY <1>4
  <2>4. n - 1 \in 0 .. m - 1 /\ n - 1 \notin wrong
    <3>1. n - 1 \in 0 .. m - 1 /\ ~(n <= n - 1)
      BY <2>3
    <3> HIDE DEF wrong
    <3> QED BY <2>2, <3>1
  <2>5. Right(n - 1)
    BY <2>4
  <2>6. Right((n - 1) + 1)
    BY <1>5, <2>4, <2>5
  <2> QED BY <2>3, <2>6
<1>7. Right(m)
  <2> HIDE DEF Right
  <2> QED BY <1>6
<1> QED BY <1>2, <1>7

(* How many items of K are the only one in their bin: many if no bin is     *)
(* empty, few if no bin has three.                                          *)
Alone(owner, K) == {j \in K : \A k \in K : owner[k] = owner[j] => k = j}

(* One item from each bin that has any, and the rest.                       *)
LEMMA OneOfEach ==
  ASSUME NEW K, IsFiniteSet(K), NEW m \in Nat, NEW owner, \A j \in K : owner[j] \in 0 .. m - 1
  PROVE  \E F \in SUBSET K :
           /\ \A j \in K : \E k \in F : owner[k] = owner[j]
           /\ \A j, k \in F : owner[j] = owner[k] => j = k
           /\ Alone(owner, K) \subseteq F
           /\ Cardinality(K) = Cardinality(F) + Cardinality(K \ F)
           /\ Cardinality((K \ F) \cup Alone(owner, K))
                = Cardinality(K \ F) + Cardinality(Alone(owner, K))
           /\ IsFiniteSet(F) /\ IsFiniteSet((K \ F) \cup Alone(owner, K))
           /\ Cardinality(F) \in Nat /\ Cardinality(K \ F) \in Nat
           /\ Cardinality(Alone(owner, K)) \in Nat
<1> DEFINE first(b) == CHOOSE j \in K : owner[j] = b
           F == {first(owner[j]) : j \in K}
           W == K \ F
           A == Alone(owner, K)
<1>1. \A j \in K : first(owner[j]) \in K /\ owner[first(owner[j])] = owner[j]
  OBVIOUS
<1> HIDE DEF first
<1>2. F \in SUBSET K /\ \A j \in K : \E k \in F : owner[k] = owner[j]
  BY <1>1
<1>3. \A j, k \in F : owner[j] = owner[k] => j = k
  BY <1>1
<1>4. A \subseteq F /\ A \subseteq K
  <2>1. \A j \in A : j \in K /\ first(owner[j]) = j
    BY <1>1 DEF Alone
  <2> QED BY <2>1
<1> HIDE DEF F, A
<1>5. IsFiniteSet(F) /\ IsFiniteSet(W) /\ IsFiniteSet(A) /\ IsFiniteSet(W \cup A)
  <2>1. W \in SUBSET K /\ A \in SUBSET K
    BY <1>4
  <2>2. IsFiniteSet(F) /\ IsFiniteSet(W) /\ IsFiniteSet(A)
    BY <1>2, <2>1, FS_Subset
  <2> HIDE DEF W
  <2> QED BY <2>2, FS_Union
<1>6. /\ Cardinality(F) \in Nat /\ Cardinality(W) \in Nat /\ Cardinality(A) \in Nat
      /\ Cardinality({}) = 0
  <2> HIDE DEF W
  <2> QED BY <1>5, FS_CardinalityType, FS_EmptySet
<1>7. Cardinality(K) = Cardinality(F) + Cardinality(W)
  <2>1. F \cup W = K /\ F \cap W = {}
    BY <1>2
  <2> HIDE DEF W
  <2>2. Cardinality(F \cup W) = Cardinality(F) + Cardinality(W) - Cardinality(F \cap W)
    BY <1>5, FS_Union
  <2>3. Cardinality(F \cap W) = 0 /\ Cardinality(F \cup W) = Cardinality(K)
    BY <2>1, <1>6
  <2> QED BY <2>2, <2>3, <1>6
<1>8. Cardinality(W \cup A) = Cardinality(W) + Cardinality(A)
  <2>1. W \cap A = {}
    BY <1>4
  <2> HIDE DEF W
  <2>2. Cardinality(W \cup A) = Cardinality(W) + Cardinality(A) - Cardinality(W \cap A)
    BY <1>5, FS_Union
  <2>3. Cardinality(W \cap A) = 0
    BY <2>1, <1>6
  <2> QED BY <2>2, <2>3, <1>6
<1> QED BY <1>2, <1>3, <1>4, <1>5, <1>6, <1>7, <1>8 DEF A

LEMMA BinsNumber ==
  ASSUME NEW m \in Nat
  PROVE  IsFiniteSet(0 .. m - 1) /\ Cardinality(0 .. m - 1) = m
<1>1. 0 \in Int /\ m - 1 \in Int
  OBVIOUS
<1> QED BY <1>1, FS_Interval

LEMMA ManyAlone ==
  ASSUME NEW K, IsFiniteSet(K), NEW m \in Nat, NEW owner, \A j \in K : owner[j] \in 0 .. m - 1,
         \A b \in 0 .. m - 1 : \E j \in K : owner[j] = b
  PROVE  2 * m <= Cardinality(K) + Cardinality(Alone(owner, K))
<1>1. PICK F \in SUBSET K :
           /\ \A j \in K : \E k \in F : owner[k] = owner[j]
           /\ \A j, k \in F : owner[j] = owner[k] => j = k
           /\ Alone(owner, K) \subseteq F
           /\ Cardinality(K) = Cardinality(F) + Cardinality(K \ F)
           /\ Cardinality((K \ F) \cup Alone(owner, K))
                = Cardinality(K \ F) + Cardinality(Alone(owner, K))
           /\ IsFiniteSet(F) /\ IsFiniteSet((K \ F) \cup Alone(owner, K))
           /\ Cardinality(F) \in Nat /\ Cardinality(K \ F) \in Nat
           /\ Cardinality(Alone(owner, K)) \in Nat
  BY OneOfEach
<1> DEFINE B == 0 .. m - 1
           V == (K \ F) \cup Alone(owner, K)
<1>2. Cardinality(B) = m
  BY BinsNumber
<1>3. m <= Cardinality(F)
  <2> DEFINE f == [j \in F |-> owner[j]]
  <2>1. f \in Surjection(F, B)
    <3>1. \A b \in B : \E k \in F : owner[k] = b
      BY <1>1
    <3>2. f \in [F -> B]
      OBVIOUS
    <3>3. \A b \in B : \E k \in F : f[k] = b
      BY <3>1
    <3> QED BY <3>2, <3>3 DEF Surjection
  <2> HIDE DEF f, B
  <2> QED BY <1>1, <1>2, <2>1, FS_Surjection
<1>4. m <= Cardinality(V)
  <2> DEFINE g == [j \in V |-> owner[j]]
  <2>1. V \subseteq K
    BY DEF Alone
  <2>2. \A b \in B : \E k \in V : owner[k] = b
    <3> SUFFICES ASSUME NEW b \in B PROVE \E k \in V : owner[k] = b
      OBVIOUS
    <3>1. PICK j \in F : owner[j] = b
      BY <1>1
    <3>2. CASE j \in Alone(owner, K)
      BY <3>1, <3>2
    <3>3. CASE j \notin Alone(owner, K)
      <4>1. PICK k \in K : owner[k] = owner[j] /\ k # j
        BY <3>3 DEF Alone
      <4>2. k \notin F
        BY <1>1, <4>1
      <4> QED BY <3>1, <4>1, <4>2
    <3> QED BY <3>2, <3>3
  <2> HIDE DEF V
  <2>3. g \in Surjection(V, B)
    <3>1. g \in [V -> B]
      BY <2>1
    <3>2. \A b \in B : \E k \in V : g[k] = b
      BY <2>2
    <3> QED BY <3>1, <3>2 DEF Surjection
  <2>4. IsFiniteSet(V)
    BY <1>1 DEF V
  <2> HIDE DEF g, B
  <2> QED BY <1>2, <2>3, <2>4, FS_Surjection
<1> QED BY <1>1, <1>3, <1>4

LEMMA FewAlone ==
  ASSUME NEW K, IsFiniteSet(K), NEW m \in Nat, NEW owner, \A j \in K : owner[j] \in 0 .. m - 1,
         \A i, j, k \in K : owner[i] = owner[j] /\ owner[j] = owner[k] => i = j \/ j = k \/ i = k
  PROVE  Cardinality(K) + Cardinality(Alone(owner, K)) <= 2 * m
<1>1. PICK F \in SUBSET K :
           /\ \A j \in K : \E k \in F : owner[k] = owner[j]
           /\ \A j, k \in F : owner[j] = owner[k] => j = k
           /\ Alone(owner, K) \subseteq F
           /\ Cardinality(K) = Cardinality(F) + Cardinality(K \ F)
           /\ Cardinality((K \ F) \cup Alone(owner, K))
                = Cardinality(K \ F) + Cardinality(Alone(owner, K))
           /\ IsFiniteSet(F) /\ IsFiniteSet((K \ F) \cup Alone(owner, K))
           /\ Cardinality(F) \in Nat /\ Cardinality(K \ F) \in Nat
           /\ Cardinality(Alone(owner, K)) \in Nat
  BY OneOfEach
<1> DEFINE B == 0 .. m - 1
           V == (K \ F) \cup Alone(owner, K)
<1>2. IsFiniteSet(B) /\ Cardinality(B) = m
  BY BinsNumber
<1>3. Cardinality(F) <= m
  <2> DEFINE f == [j \in F |-> owner[j]]
  <2>1. f \in Injection(F, B)
    <3>1. f \in [F -> B] /\ \A j, k \in F : f[j] = f[k] => j = k
      BY <1>1
    <3> QED BY <3>1 DEF Injection, IsInjective
  <2> HIDE DEF f, B
  <2> QED BY <1>2, <2>1, FS_Injection
<1>4. Cardinality(V) <= m
  <2> DEFINE g == [j \in V |-> owner[j]]
  <2>1. V \subseteq K
    BY DEF Alone
  <2>2. ASSUME NEW j \in V, NEW k \in V, owner[j] = owner[k], j # k PROVE FALSE
    <3>1. j \in K /\ k \in K /\ j \notin F /\ k \notin F
      BY <2>2 DEF Alone
    <3>2. PICK i \in F : owner[i] = owner[j]
      BY <1>1, <3>1
    <3> QED BY <2>2, <3>1, <3>2
  <2> HIDE DEF V
  <2>3. g \in Injection(V, B)
    <3>1. g \in [V -> B]
      BY <2>1
    <3>2. \A j, k \in V : g[j] = g[k] => j = k
      BY <2>2
    <3> QED BY <3>1, <3>2 DEF Injection, IsInjective
  <2> HIDE DEF g, B
  <2> QED BY <1>2, <2>3, FS_Injection
<1> QED BY <1>1, <1>3, <1>4

(* What the rank with the most has, if its last shard is at most a third of *)
(* the optimum, and if it has no more than the optimum.                     *)
LEMMA ThirdArithmetic ==
  ASSUME NEW m \in Nat \ {0}, NEW a \in Nat, NEW p \in Nat, NEW opt \in Nat,
         m * a + p <= m * opt, 3 * p <= opt
  PROVE  3 * m * (a + p) <= (4 * m - 1) * opt
<1>1. m * a \in Nat /\ m * opt \in Nat /\ m * p \in Nat
  BY ProductNat
<1>2. 3 * m * (a + p) = 3 * (m * a) + 3 * (m * p) /\ (4 * m - 1) * opt = 4 * (m * opt) - opt
  OBVIOUS
<1>3. (m - 1) * (3 * p) <= (m - 1) * opt
  BY ProductMonotone
<1>4. (m - 1) * (3 * p) = 3 * (m * p) - 3 * p /\ (m - 1) * opt = m * opt - opt
  OBVIOUS
<1> QED BY <1>1, <1>2, <1>3, <1>4

LEMMA WholeArithmetic ==
  ASSUME NEW m \in Nat \ {0}, NEW n \in Nat, NEW opt \in Nat, n <= opt
  PROVE  3 * m * n <= (4 * m - 1) * opt
<1>1. n * m <= opt * m
  BY ProductMonotone
<1>2. m * n \in Nat /\ m * opt \in Nat /\ n * m = m * n /\ opt * m = m * opt
  BY ProductNat
<1>3. 1 * opt <= m * opt
  BY ProductMonotone
<1>4. 3 * m * n = 3 * (m * n) /\ (4 * m - 1) * opt = 4 * (m * opt) - opt
  OBVIOUS
<1> QED BY <1>1, <1>2, <1>3, <1>4

(* Graham's bound.  Item i, of which the items K before it are none         *)
(* shorter, goes to a bin that has no more of K than any other.  If i is    *)
(* longer than a third of what some bin has in any other assignment, that   *)
(* assignment puts no three of these items together; then one that is alone *)
(* in its bin before i is given shares a bin there.                         *)
LEMMA GrahamBound ==
  ASSUME NEW J, NEW len, AreLengths(len, J), NEW m \in Nat \ {0},
         NEW owner \in [J -> 0 .. m - 1], NEW other \in [J -> 0 .. m - 1],
         NEW i \in J, NEW K \in SUBSET (J \ {i}), \A j \in K : len[i] <= len[j],
         \A b \in 0 .. m - 1 :
           Bytes(len, On(owner, K, owner[i])) <= Bytes(len, On(owner, K, b)),
         NEW opt \in Nat, \A b \in 0 .. m - 1 : Bytes(len, On(other, J, b)) <= opt
  PROVE  3 * m * (Bytes(len, On(owner, K, owner[i])) + len[i]) <= (4 * m - 1) * opt
<1> DEFINE a == Bytes(len, On(owner, K, owner[i]))
           p == len[i]
           L == K \cup {i}
           B == 0 .. m - 1
<1>1. K \in SUBSET J /\ L \in SUBSET J /\ \A b \in B : On(owner, K, b) \in SUBSET J
  BY DEF On
<1>2. a \in Nat /\ p \in Nat /\ \A j \in J : len[j] \in Nat
  BY <1>1, BytesFacts DEF AreLengths
<1>3. IsFiniteSet(K) /\ IsFiniteSet(L)
  BY <1>1, FS_Subset DEF AreLengths
<1>0. ASSUME NEW T \in SUBSET J, NEW j \in J \ T
      PROVE  Bytes(len, T \cup {j}) = Bytes(len, T) + len[j]
  BY <1>0, BytesWith
<1>4. CASE 3 * p <= opt
  <2>1. m * a <= Bytes(len, K)
    <3> HIDE DEF a
    <3> QED BY <1>1, <1>2, BytesOfBins DEF a
  <2>2. Bytes(len, L) = Bytes(len, K) + p /\ Bytes(len, L) <= Bytes(len, J)
        /\ Bytes(len, K) \in Nat /\ Bytes(len, L) \in Nat /\ Bytes(len, J) \in Nat
    <3>1. J \in SUBSET J /\ i \in J \ K
      OBVIOUS
    <3>2. Bytes(len, K \cup {i}) = Bytes(len, K) + len[i]
      BY <1>0, <1>1, <3>1
    <3>4. Bytes(len, L) <= Bytes(len, J)
      BY <1>1, <3>1, BytesFacts
    <3>5. Bytes(len, K) \in Nat /\ Bytes(len, L) \in Nat /\ Bytes(len, J) \in Nat
      BY <1>1, <3>1, BytesFacts
    <3> QED BY <3>2, <3>4, <3>5
  <2>3. Bytes(len, J) <= m * opt
    <3>1. J \in SUBSET J
      OBVIOUS
    <3> QED BY <3>1, BytesOfBins
  <2>4. m * a \in Nat /\ m * opt \in Nat
    BY <1>2, ProductNat
  <2> HIDE DEF a, p, L
  <2>5. m * a + p <= m * opt
    BY <1>2, <2>1, <2>2, <2>3, <2>4
  <2>6. 3 * m * (a + p) <= (4 * m - 1) * opt
    BY <1>2, <1>4, <2>5, ThirdArithmetic
  <2> QED BY <2>6 DEF a, p
<1>5. ASSUME NEW T \in SUBSET J, NEW b \in B, \A j \in T : other[j] = b
      PROVE  Bytes(len, T) <= opt /\ Bytes(len, T) \in Nat
  <2>1. T \subseteq On(other, J, b) /\ On(other, J, b) \in SUBSET J
    BY <1>5 DEF On
  <2>2. /\ Bytes(len, T) <= Bytes(len, On(other, J, b)) /\ Bytes(len, On(other, J, b)) \in Nat
        /\ Bytes(len, T) \in Nat
    BY <2>1, BytesFacts
  <2> QED BY <2>2
<1>6. ASSUME NEW j \in J, NEW k \in J, j # k
      PROVE  Bytes(len, {j, k}) = len[j] + len[k]
  <2>1. {j} \cup {k} = {j, k} /\ {j} \in SUBSET J /\ k \in J \ {j}
    BY <1>6
  <2>2. Bytes(len, {j} \cup {k}) = Bytes(len, {j}) + len[k]
    BY <1>0, <2>1
  <2>3. Bytes(len, {j}) = len[j]
    BY BytesFacts
  <2> QED BY <2>1, <2>2, <2>3
<1>7. ASSUME NEW j \in J, NEW k \in J, j # k, other[j] = other[k]
      PROVE  len[j] + len[k] <= opt
  <2>1. {j, k} \in SUBSET J /\ other[j] \in B /\ \A x \in {j, k} : other[x] = other[j]
    BY <1>7
  <2>2. Bytes(len, {j, k}) <= opt
    BY <1>5, <2>1
  <2> QED BY <1>6, <1>7, <2>2
<1>8. ASSUME NEW j \in J, NEW k \in J, NEW l \in J, j # k, k # l, j # l,
             other[j] = other[k], other[k] = other[l]
      PROVE  len[j] + len[k] + len[l] <= opt
  <2>1. /\ {j, k, l} \in SUBSET J /\ other[j] \in B
        /\ \A x \in {j, k, l} : other[x] = other[j]
    BY <1>8
  <2>2. Bytes(len, {j, k, l}) <= opt
    BY <1>5, <2>1
  <2>3. {j, k} \cup {l} = {j, k, l} /\ {j, k} \in SUBSET J /\ l \in J \ {j, k}
    BY <1>8
  <2>4. Bytes(len, {j, k} \cup {l}) = Bytes(len, {j, k}) + len[l]
    BY <1>0, <2>3
  <2>5. Bytes(len, {j, k}) = len[j] + len[k]
    BY <1>6, <1>8
  <2> QED BY <2>2, <2>3, <2>4, <2>5
<1>9. CASE opt < 3 * p
  <2>1. SUFFICES a + p <= opt
    <3> HIDE DEF a, p
    <3>1. a + p \in Nat
      BY <1>2
    <3>2. a + p <= opt => 3 * m * (a + p) <= (4 * m - 1) * opt
      BY <3>1, WholeArithmetic
    <3> QED BY <3>2 DEF a, p
  <2>2. CASE \E b \in B : \A j \in K : owner[j] # b
    <3>1. PICK b \in B : \A j \in K : owner[j] # b
      BY <2>2
    <3>2. On(owner, K, b) = {}
      BY <3>1 DEF On
    <3>3. a <= Bytes(len, {}) /\ Bytes(len, {}) = 0
      BY <3>1, <3>2, BytesFacts
    <3>4. p <= opt
      <4>1. {i} \in SUBSET J /\ other[i] \in B /\ \A j \in {i} : other[j] = other[i]
        OBVIOUS
      <4>2. Bytes(len, {i}) <= opt
        BY <1>5, <4>1
      <4> QED BY <4>2, BytesFacts
    <3> HIDE DEF a, p
    <3> QED BY <1>2, <3>3, <3>4
  <2>3. CASE \A b \in B : \E j \in K : owner[j] = b
    <3>1. 2 * m <= Cardinality(K) + Cardinality(Alone(owner, K))
      <4>1. \A j \in K : owner[j] \in 0 .. m - 1
        BY <1>1
      <4> QED BY <1>3, <2>3, <4>1, ManyAlone
    <3>2. Cardinality(L) + Cardinality(Alone(other, L)) <= 2 * m
      <4>1. \A j \in L : other[j] \in 0 .. m - 1 /\ j \in J /\ len[j] \in Nat /\ p <= len[j]
        BY <1>1, <1>2
      <4>2. \A j, k, l \in L :
              other[j] = other[k] /\ other[k] = other[l] => j = k \/ k = l \/ j = l
        <5> SUFFICES ASSUME NEW j \in L, NEW k \in L, NEW l \in L, j # k, k # l, j # l,
                            other[j] = other[k], other[k] = other[l]
                     PROVE  FALSE
          OBVIOUS
        <5>1. len[j] + len[k] + len[l] <= opt
          BY <1>8, <4>1
        <5> HIDE DEF p, L
        <5> QED BY <1>2, <1>9, <4>1, <5>1
      <4> HIDE DEF L
      <4> QED BY <1>3, <4>1, <4>2, FewAlone
    <3>3. Cardinality(L) = Cardinality(K) + 1
      BY <1>3, FS_AddElement
    <3>4. PICK j \in Alone(owner, K) : j \notin Alone(other, L)
      <4>1. CASE Alone(owner, K) \subseteq Alone(other, L)
        <5>1. Alone(owner, K) \in SUBSET K /\ Alone(other, L) \in SUBSET L
          BY DEF Alone
        <5> HIDE DEF L
        <5>2. IsFiniteSet(Alone(other, L)) /\ IsFiniteSet(Alone(owner, K))
          BY <1>3, <5>1, FS_Subset
        <5>3. Alone(owner, K) \in SUBSET Alone(other, L)
          BY <4>1
        <5>4. Cardinality(Alone(owner, K)) <= Cardinality(Alone(other, L))
          BY <5>2, <5>3, FS_Subset
        <5>5. /\ Cardinality(Alone(owner, K)) \in Nat /\ Cardinality(Alone(other, L)) \in Nat
              /\ Cardinality(K) \in Nat
          BY <1>3, <5>2, FS_CardinalityType
        <5> QED BY <3>1, <3>2, <3>3, <5>4, <5>5
      <4> QED BY <4>1
    <3>5. PICK k \in L : k # j /\ other[k] = other[j]
      BY <3>4 DEF Alone
    <3>6. len[j] + len[k] <= opt
      BY <1>1, <1>7, <3>4, <3>5 DEF Alone
    <3>7. p <= len[k] /\ len[k] \in Nat /\ len[j] \in Nat /\ j \in J
      BY <1>1, <1>2, <3>4, <3>5 DEF Alone
    <3>8. a <= len[j]
      <4>1. On(owner, K, owner[j]) = {j} /\ owner[j] \in B
        BY <1>1, <3>4 DEF Alone, On
      <4>2. Bytes(len, {j}) = len[j]
        BY <3>7, BytesFacts
      <4> QED BY <4>1, <4>2
    <3> HIDE DEF a, p
    <3> QED BY <1>2, <3>6, <3>7, <3>8
  <2> QED BY <2>2, <2>3
<1> QED
  <2> HIDE DEF p
  <2> QED BY <1>2, <1>4, <1>9

------------------------------------------------------------------------------
(* The plan.                                                                *)
Lens == [j \in DOMAIN shards |-> shards[j].len]
Owners == [j \in DOMAIN shards |-> shards[j].owner]
Dealt == DOMAIN shards \ todo

LEMMA LensFacts ==
  ASSUME TypeOK
  PROVE  /\ AreLengths(Lens, DOMAIN shards)
         /\ \A j \in DOMAIN shards : Lens[j] = shards[j].len /\ Owners[j] = shards[j].owner
         /\ args.count \in Nat \ {0} /\ U64_MAX \in Nat /\ DOMAIN shards \in SUBSET DOMAIN shards
<1>1. /\ shards \in Seq(PlanShard) /\ DOMAIN shards = 1 .. Len(shards) /\ Len(shards) \in Nat
      /\ U64_MAX \in Nat /\ args \in Inputs
  BY ShardPlanAssumption DEF TypeOK
<1>2. \A j \in DOMAIN shards : shards[j].len \in Nat
  <2>1. \A j \in DOMAIN shards : shards[j] \in PlanShard
    BY <1>1
  <2> QED BY <1>1, <2>1 DEF PlanShard
<1>3. IsFiniteSet(DOMAIN shards)
  <2>1. 1 \in Int /\ Len(shards) \in Int
    BY <1>1
  <2> QED BY <1>1, <2>1, FS_Interval
<1>4. args.count \in Nat \ {0}
  BY <1>1, InputTypes
<1> QED BY <1>1, <1>2, <1>3, <1>4 DEF AreLengths, Lens, Owners

LEMMA SumLensIs ==
  ASSUME TypeOK, NEW T \in SUBSET DOMAIN shards
  PROVE  SumLens(T) = Bytes(Lens, T)
<1> DEFINE parts == Units(Lens)
           pick == [s \in SUBSET T |-> CHOOSE x \in s : TRUE]
           step(f, s) == IF s = {} THEN 0
                         ELSE shards[CHOOSE x \in s : TRUE].len
                                + f[s \ {CHOOSE x \in s : TRUE}]
           total == [s \in SUBSET T |-> Cardinality(Joined(parts, s))]
           sum == CHOOSE f : f = [s \in SUBSET T |-> step(f, s)]
<1>1. SumLens(T) = sum[T]
  BY DEF SumLens, MapThenSumSet, MapThenFoldSet
<1>2. \A s \in SUBSET T : s # {} => pick[s] \in s /\ pick[s] = CHOOSE x \in s : TRUE
  OBVIOUS
<1>0. AreParts(parts, T) /\ \A j \in T : shards[j].len = Cardinality(parts[j])
  <2>1. AreLengths(Lens, DOMAIN shards) /\ \A j \in T : Lens[j] = shards[j].len
    BY LensFacts
  <2>2. /\ AreParts(parts, DOMAIN shards)
        /\ \A j \in DOMAIN shards : Cardinality(parts[j]) = Lens[j]
    BY <2>1, UnitsAreParts
  <2> HIDE DEF parts
  <2>3. IsFiniteSet(T)
    BY <2>1, FS_Subset DEF AreLengths
  <2> QED BY <2>1, <2>2, <2>3 DEF AreParts
<1> HIDE DEF parts
<1>3. total = [s \in SUBSET T |-> step(total, s)]
  <2>1. \A s \in SUBSET T : total[s] = step(total, s)
    <3> SUFFICES ASSUME NEW s \in SUBSET T PROVE total[s] = step(total, s)
      OBVIOUS
    <3>1. CASE s = {}
      <4>1. Joined(parts, s) = {}
        BY <3>1 DEF Joined
      <4> QED BY <3>1, <4>1, FS_EmptySet
    <3>2. CASE s # {}
      <4> DEFINE c == CHOOSE x \in s : TRUE
      <4>1. c \in s /\ s \ {c} \in SUBSET T
        BY <3>2
      <4> HIDE DEF c
      <4>2. Cardinality(Joined(parts, s))
              = Cardinality(parts[c]) + Cardinality(Joined(parts, s \ {c}))
        BY <1>0, <4>1, JoinedGrows
      <4>3. total[s] = shards[c].len + total[s \ {c}]
        BY <1>0, <4>1, <4>2
      <4> QED BY <3>2, <4>3 DEF c
    <3> QED BY <3>1, <3>2
  <2> HIDE DEF step
  <2> QED BY <2>1
<1>4. sum = [s \in SUBSET T |-> step(sum, s)]
  <2>1. \E f : f = [s \in SUBSET T |-> step(f, s)]
    <3> HIDE DEF step, total
    <3> QED BY <1>3
  <2> QED BY <2>1
<1> HIDE DEF sum, total
<1>5. \A s \in SUBSET T :
        sum[s] = IF s = {} THEN 0 ELSE Cardinality(parts[pick[s]]) + sum[s \ {pick[s]}]
  <2>1. \A s \in SUBSET T : sum[s] = step(sum, s)
    <3> HIDE DEF step
    <3> QED BY <1>4
  <2>2. \A s \in SUBSET T : s # {} =>
          step(sum, s) = Cardinality(parts[pick[s]]) + sum[s \ {pick[s]}]
    <3> TAKE s \in SUBSET T
    <3> HAVE s # {}
    <3>1. /\ pick[s] \in T /\ pick[s] = CHOOSE x \in s : TRUE
          /\ shards[pick[s]].len = Cardinality(parts[pick[s]])
      BY <1>0, <1>2
    <3> HIDE DEF pick
    <3> QED BY <3>1
  <2>3. \A s \in SUBSET T : s = {} => step(sum, s) = 0
    OBVIOUS
  <2> HIDE DEF step, pick
  <2> QED BY <2>1, <2>2, <2>3
<1>6. \A s \in SUBSET T : s # {} => pick[s] \in s
  BY <1>2
<1> HIDE DEF pick, step
<1>7. sum[T] = Cardinality(Joined(parts, T))
  BY <1>0, <1>5, <1>6, SumOfParts
<1> QED BY <1>1, <1>7 DEF Bytes, parts

(* Every load is the bytes of what has been given to the rank, or as much   *)
(* as a load can be.  Of what a rank has got, one shard came last: among    *)
(* the shards given away before it, the rank had no more than any other.    *)
Saturated(n) == IF n <= U64_MAX THEN n ELSE U64_MAX

Greedy(b) ==
  \/ On(Owners, Dealt, b) = {}
  \/ \E i \in On(Owners, Dealt, b), K \in SUBSET Dealt :
       /\ i \notin K /\ On(Owners, Dealt, b) \subseteq K \cup {i}
       /\ \A j \in K : Lens[i] <= Lens[j]
       /\ \A c \in Bins : Bytes(Lens, On(Owners, K, b)) <= Bytes(Lens, On(Owners, K, c))

OwnersAreBins == \A j \in DOMAIN shards : shards[j].owner \in Bins
Packed ==
  phase = "assign" \/ (phase = "done" /\ args.count > 1) =>
    /\ phase = "done" => todo = {}
    /\ \A b \in Bins : loads[b] = Saturated(Bytes(Lens, On(Owners, Dealt, b)))
    /\ \A j \in Dealt, k \in todo : Lens[k] <= Lens[j]
    /\ Bytes(Lens, DOMAIN shards) <= U64_MAX => \A b \in Bins : Greedy(b)

LEMMA AssignMoves ==
  ASSUME TypeOK, NEW i \in todo, NEW bin \in Bins,
         shards' = [shards EXCEPT ![i].owner = bin], todo' = todo \ {i}, args' = args
  PROVE  /\ DOMAIN shards' = DOMAIN shards /\ Lens' = Lens /\ Bins' = Bins
         /\ i \notin Dealt /\ i \in DOMAIN shards /\ Dealt' = Dealt \cup {i}
         /\ \A j \in DOMAIN shards : shards'[j].owner = IF j = i THEN bin ELSE shards[j].owner
         /\ \A T \in SUBSET Dealt, b \in Bins : On(Owners', T, b) = On(Owners, T, b)
         /\ \A b \in Bins : On(Owners', Dealt', b)
                              = IF b = bin THEN On(Owners, Dealt, b) \cup {i}
                                ELSE On(Owners, Dealt, b)
<1>1. /\ shards \in Seq(PlanShard) /\ todo \subseteq DOMAIN shards
      /\ \A j \in DOMAIN shards : shards[j] \in PlanShard
  BY DEF TypeOK
<1>2. DOMAIN shards' = DOMAIN shards
  OBVIOUS
<1>3. \A j \in DOMAIN shards :
        shards'[j] = IF j = i THEN [shards[j] EXCEPT !.owner = bin] ELSE shards[j]
  BY <1>1
<1>4. \A j \in DOMAIN shards :
        /\ shards'[j].len = shards[j].len
        /\ shards'[j].owner = IF j = i THEN bin ELSE shards[j].owner
  BY <1>1, <1>3 DEF PlanShard
<1>5. Lens' = Lens
  BY <1>2, <1>4 DEF Lens
<1>6. /\ i \notin Dealt /\ i \in DOMAIN shards /\ Dealt' = Dealt \cup {i}
      /\ Dealt \subseteq DOMAIN shards
  BY <1>1, <1>2 DEF Dealt
<1>7. \A j \in DOMAIN shards : Owners'[j] = IF j = i THEN bin ELSE Owners[j]
  BY <1>2, <1>4 DEF Owners
<1>8. \A T \in SUBSET Dealt, b \in Bins : On(Owners', T, b) = On(Owners, T, b)
  BY <1>6, <1>7 DEF On
<1>9. \A b \in Bins : On(Owners', Dealt', b)
                        = IF b = bin THEN On(Owners, Dealt, b) \cup {i} ELSE On(Owners, Dealt, b)
  BY <1>6, <1>7 DEF On
<1> QED BY <1>2, <1>4, <1>5, <1>6, <1>8, <1>9 DEF Bins

LEMMA AssignPacked ==
  ASSUME TypeOK, OwnersAreBins, Packed, Assign
  PROVE  OwnersAreBins' /\ Packed'
<1>1. PICK i \in todo, bin \in Bins :
        /\ \A j \in todo \ {i} : Before(shards[i], shards[j])
        /\ \A b \in Bins \ {bin} : Lighter(bin, b)
        /\ shards' = [shards EXCEPT ![i].owner = bin]
        /\ loads' = [loads EXCEPT ![bin] = SaturatingAdd(@, shards[i].len)]
        /\ todo' = todo \ {i} /\ args' = args /\ phase' = phase /\ phase = "assign"
  BY DEF Assign
<1>2. /\ DOMAIN shards' = DOMAIN shards /\ Lens' = Lens /\ Bins' = Bins
      /\ i \notin Dealt /\ i \in DOMAIN shards /\ Dealt' = Dealt \cup {i}
      /\ \A j \in DOMAIN shards : shards'[j].owner = IF j = i THEN bin ELSE shards[j].owner
      /\ \A T \in SUBSET Dealt, b \in Bins : On(Owners', T, b) = On(Owners, T, b)
      /\ \A b \in Bins : On(Owners', Dealt', b)
                           = IF b = bin THEN On(Owners, Dealt, b) \cup {i}
                             ELSE On(Owners, Dealt, b)
  BY <1>1, AssignMoves
<1>3. /\ AreLengths(Lens, DOMAIN shards) /\ \A j \in DOMAIN shards : Lens[j] = shards[j].len
      /\ U64_MAX \in Nat /\ todo \subseteq DOMAIN shards /\ Dealt \subseteq DOMAIN shards
      /\ \A j \in DOMAIN shards : Lens[j] \in Nat
      /\ loads \in [Bins -> 0 .. U64_MAX]
  BY <1>1, LensFacts DEF TypeOK, Dealt, AreLengths
<1>4. /\ \A b \in Bins : loads[b] = Saturated(Bytes(Lens, On(Owners, Dealt, b)))
      /\ \A j \in Dealt, k \in todo : Lens[k] <= Lens[j]
      /\ Bytes(Lens, DOMAIN shards) <= U64_MAX => \A b \in Bins : Greedy(b)
  BY <1>1 DEF Packed
<1> HIDE DEF Packed
<1>5. OwnersAreBins'
  BY <1>2 DEF OwnersAreBins
<1>6. ASSUME NEW b \in Bins
      PROVE  loads'[b] = Saturated(Bytes(Lens, On(Owners', Dealt', b)))
  <2>1. On(Owners, Dealt, b) \in SUBSET DOMAIN shards /\ i \in DOMAIN shards \ On(Owners, Dealt, b)
    BY <1>2, <1>3 DEF On
  <2>2. /\ Bytes(Lens, On(Owners, Dealt, b) \cup {i}) = Bytes(Lens, On(Owners, Dealt, b)) + Lens[i]
        /\ Bytes(Lens, On(Owners, Dealt, b)) \in Nat
    BY <1>3, <2>1, BytesWith, BytesFacts
  <2>3. CASE b = bin
    <3>1. loads'[b] = SaturatingAdd(loads[b], Lens[i])
      BY <1>1, <1>2, <1>3, <2>3
    <3>2. On(Owners', Dealt', b) = On(Owners, Dealt, b) \cup {i}
      BY <1>2, <2>3
    <3>3. loads[b] = Saturated(Bytes(Lens, On(Owners, Dealt, b)))
      BY <1>4
    <3>4. Lens[i] \in Nat
      BY <1>2, <1>3
    <3> QED BY <1>3, <2>2, <3>1, <3>2, <3>3, <3>4 DEF SaturatingAdd, Saturated
  <2>4. CASE b # bin
    <3>1. loads'[b] = loads[b] /\ On(Owners', Dealt', b) = On(Owners, Dealt, b)
      BY <1>1, <1>2, <1>3, <2>4
    <3> QED BY <1>4, <3>1
  <2> QED BY <2>3, <2>4
<1>7. \A j \in Dealt', k \in todo' : Lens[k] <= Lens[j]
  <2>1. \A k \in todo' : Lens[k] <= Lens[i]
    <3>1. \A k \in todo' : k \in DOMAIN shards /\ Before(shards[i], shards[k])
      BY <1>1, <1>3
    <3>2. \A k \in todo' : shards[i].len >= shards[k].len
      BY <1>2, <1>3, <3>1 DEF Before
    <3> QED BY <1>2, <1>3, <3>1, <3>2
  <2> QED BY <1>1, <1>2, <1>4, <2>1
<1>8. ASSUME Bytes(Lens, DOMAIN shards) <= U64_MAX, NEW b \in Bins PROVE Greedy(b)'
  <2>1. CASE b = bin
    <3>1. \A c \in Bins : /\ Bytes(Lens, On(Owners, Dealt, c)) \in Nat
                          /\ loads[c] = Bytes(Lens, On(Owners, Dealt, c))
      <4> TAKE c \in Bins
      <4>1. On(Owners, Dealt, c) \in SUBSET DOMAIN shards
        BY <1>3 DEF On
      <4>2. /\ Bytes(Lens, On(Owners, Dealt, c)) \in Nat /\ Bytes(Lens, DOMAIN shards) \in Nat
            /\ Bytes(Lens, On(Owners, Dealt, c)) <= Bytes(Lens, DOMAIN shards)
        <5>1. DOMAIN shards \in SUBSET DOMAIN shards
          OBVIOUS
        <5> QED BY <1>3, <4>1, <5>1, BytesFacts
      <4> QED BY <1>3, <1>4, <1>8, <4>2 DEF Saturated
    <3>2. \A c \in Bins : loads[bin] <= loads[c]
      BY <1>1, <3>1 DEF Lighter
    <3>3. \A c \in Bins : Bytes(Lens, On(Owners, Dealt, b)) <= Bytes(Lens, On(Owners, Dealt, c))
      BY <2>1, <3>1, <3>2
    <3>4. /\ i \in On(Owners', Dealt', b) /\ Dealt \in SUBSET Dealt' /\ i \notin Dealt
          /\ On(Owners', Dealt', b) \subseteq Dealt \cup {i}
      BY <1>2, <2>1 DEF On
    <3>5. \A j \in Dealt : Lens[i] <= Lens[j]
      BY <1>4
    <3>6. \A c \in Bins : Bytes(Lens, On(Owners', Dealt, b)) <= Bytes(Lens, On(Owners', Dealt, c))
      BY <1>2, <3>3
    <3> QED BY <1>2, <3>4, <3>5, <3>6 DEF Greedy
  <2>2. CASE b # bin
    <3>1. Greedy(b) /\ On(Owners', Dealt', b) = On(Owners, Dealt, b)
      BY <1>2, <1>4, <1>8, <2>2
    <3>2. CASE On(Owners, Dealt, b) = {}
      BY <3>1, <3>2 DEF Greedy
    <3>3. CASE On(Owners, Dealt, b) # {}
      <4>1. PICK k \in On(Owners, Dealt, b), K \in SUBSET Dealt :
              /\ k \notin K /\ On(Owners, Dealt, b) \subseteq K \cup {k}
              /\ \A j \in K : Lens[k] <= Lens[j]
              /\ \A c \in Bins : Bytes(Lens, On(Owners, K, b)) <= Bytes(Lens, On(Owners, K, c))
        BY <3>1, <3>3 DEF Greedy
      <4>2. K \in SUBSET Dealt' /\ \A c \in Bins : On(Owners', K, c) = On(Owners, K, c)
        BY <1>2
      <4>3. \A c \in Bins : Bytes(Lens, On(Owners', K, b)) <= Bytes(Lens, On(Owners', K, c))
        BY <4>1, <4>2
      <4> QED BY <1>2, <3>1, <4>1, <4>2, <4>3 DEF Greedy
    <3> QED BY <3>2, <3>3
  <2> QED BY <2>1, <2>2
<1>9. Packed'
  BY <1>1, <1>2, <1>6, <1>7, <1>8 DEF Packed
<1> QED BY <1>5, <1>9

LptInv == OwnersAreBins /\ Packed

LEMMA LptInvAlways == Spec => []LptInv
<1>1. Init => LptInv
  BY DEF Init, LptInv, OwnersAreBins, Packed
<1>2. TypeOK /\ LptInv /\ [Next]_vars => LptInv'
  <2> SUFFICES ASSUME TypeOK, LptInv, [Next]_vars PROVE LptInv'
    OBVIOUS
  <2>0. 0 \in Bins
    BY LensFacts DEF Bins
  <2>1. CASE PushShard
    <3>1. /\ shards' = Append(shards, NewShard) /\ phase' = "split" /\ Bins' = Bins
          /\ shards \in Seq(PlanShard) /\ NewShard \in PlanShard /\ NewShard.owner = 0
      BY <2>1, PushFacts DEF TypeOK, Bins, NewShard
    <3>2. /\ Len(shards) \in Nat /\ DOMAIN shards = 1 .. Len(shards)
          /\ DOMAIN shards' = 1 .. Len(shards) + 1
          /\ \A j \in 1 .. Len(shards) : shards'[j] = shards[j]
          /\ shards'[Len(shards) + 1] = NewShard
      BY <3>1
    <3>3. \A j \in DOMAIN shards' : j \in DOMAIN shards \/ j = Len(shards) + 1
      BY <3>2
    <3>4. OwnersAreBins'
      BY <2>0, <3>1, <3>2, <3>3 DEF LptInv, OwnersAreBins
    <3> QED BY <3>1, <3>4 DEF LptInv, Packed
  <2>2. CASE EndSplit
    <3>1. /\ UNCHANGED <<args, shards>> /\ Bins' = Bins /\ todo' = DOMAIN shards
          /\ phase' = (IF args.count <= 1 THEN "done" ELSE "assign")
          /\ \A b \in Bins : loads'[b] = 0
      BY <2>2 DEF EndSplit, Bins
    <3>2. Dealt' = {} /\ Lens' = Lens
      BY <3>1 DEF Dealt, Lens
    <3>3. \A b : On(Owners', Dealt', b) = {}
      BY <3>2 DEF On
    <3>4. Bytes(Lens, {}) = 0 /\ Saturated(0) = 0
      BY LensFacts, BytesFacts DEF Saturated
    <3>5. \A b \in Bins : loads'[b] = Saturated(Bytes(Lens, On(Owners', Dealt', b))) /\ Greedy(b)'
      BY <3>1, <3>3, <3>4 DEF Greedy
    <3>6. phase' = "assign" \/ ~(args'.count > 1)
      BY <3>1, LensFacts
    <3>7. phase' = "done" => ~(args'.count > 1)
      BY <3>1, LensFacts
    <3>8. Packed'
      BY <3>1, <3>2, <3>5, <3>7 DEF Packed
    <3>9. OwnersAreBins'
      BY <3>1 DEF LptInv, OwnersAreBins
    <3> QED BY <3>8, <3>9 DEF LptInv
  <2>3. CASE Assign
    BY <2>3, AssignPacked DEF LptInv
  <2>4. CASE EndAssign
    <3>1. /\ UNCHANGED <<args, shards, todo, loads>> /\ todo = {} /\ phase = "assign"
      BY <2>4 DEF EndAssign
    <3>2. Bins' = Bins /\ Dealt' = Dealt /\ Lens' = Lens /\ Owners' = Owners
      BY <3>1 DEF Bins, Dealt, Lens, Owners
    <3>3. \A b \in Bins : Greedy(b)' <=> Greedy(b)
      BY <3>2 DEF Greedy
    <3>4. Packed'
      BY <3>1, <3>2, <3>3 DEF LptInv, Packed
    <3> QED BY <3>1, <3>2, <3>4 DEF LptInv, OwnersAreBins
  <2>5. CASE Finished \/ UNCHANGED vars
    BY <2>5 DEF Finished, vars, LptInv, OwnersAreBins, Packed, Bins, Dealt, Lens, Owners, Greedy
  <2> QED BY <2>1, <2>2, <2>3, <2>4, <2>5 DEF Next
<1> QED BY <1>1, <1>2, PlanTypeCorrect, PTL DEF Spec

LEMMA GreatestNatural ==
  ASSUME NEW T \in SUBSET Nat, NEW n \in T, NEW bound \in Nat, \A k \in T : k <= bound
  PROVE  Max(T) \in T /\ \A k \in T : k <= Max(T)
<1> DEFINE U == {k \in Nat : \A l \in T : l <= k}
<1>1. PICK m \in U : \A k \in U : m <= k
  <2>1. U \in SUBSET Nat /\ U # {}
    OBVIOUS
  <2> HIDE DEF U
  <2> QED BY <2>1, LeastNatural
<1>2. m \in T
  <2> SUFFICES ASSUME m \notin T PROVE FALSE
    OBVIOUS
  <2>1. \A l \in T : l \in Nat /\ l < m
    BY <1>1
  <2>2. m - 1 \in U
    BY <1>1, <2>1
  <2>3. m <= m - 1 /\ m \in Nat
    BY <1>1, <2>2
  <2> QED BY <2>3
<1>3. m \in T /\ \A k \in T : m >= k
  BY <1>1, <1>2
<1>4. Max(T) \in T /\ \A k \in T : Max(T) >= k
  BY <1>3 DEF Max
<1> QED BY <1>4

LEMMA MaxLoadFacts ==
  ASSUME TypeOK, NEW owner
  PROVE  /\ MaxLoad(owner) \in Nat
         /\ \A b \in Bins : Bytes(Lens, On(owner, DOMAIN shards, b)) <= MaxLoad(owner)
         /\ \E b \in Bins : MaxLoad(owner) = Bytes(Lens, On(owner, DOMAIN shards, b))
<1> DEFINE f(b) == Bytes(Lens, On(owner, DOMAIN shards, b))
           T == {f(b) : b \in Bins}
<1>1. \A b \in Bins : f(b) \in Nat /\ f(b) <= Bytes(Lens, DOMAIN shards)
  <2> TAKE b \in Bins
  <2>1. On(owner, DOMAIN shards, b) \in SUBSET DOMAIN shards
    BY DEF On
  <2> QED BY <2>1, LensFacts, BytesFacts
<1>2. Bytes(Lens, DOMAIN shards) \in Nat
  BY LensFacts, BytesFacts
<1>3. 0 \in Bins
  BY LensFacts DEF Bins
<1>4. MaxLoad(owner) = Max(T)
  <2>1. \A b \in Bins : SumLens({i \in DOMAIN shards : owner[i] = b}) = f(b)
    <3> TAKE b \in Bins
    <3>1. /\ On(owner, DOMAIN shards, b) = {i \in DOMAIN shards : owner[i] = b}
          /\ On(owner, DOMAIN shards, b) \in SUBSET DOMAIN shards
      BY DEF On
    <3>2. SumLens(On(owner, DOMAIN shards, b)) = f(b)
      BY <3>1, SumLensIs
    <3> QED BY <3>1, <3>2
  <2>2. {SumLens({i \in DOMAIN shards : owner[i] = b}) : b \in Bins} = T
    BY <2>1
  <2> HIDE DEF T
  <2> QED BY <2>2 DEF MaxLoad
<1> HIDE DEF f
<1>5. T \in SUBSET Nat /\ f(0) \in T /\ \A k \in T : k <= Bytes(Lens, DOMAIN shards)
  BY <1>1, <1>3
<1>6. Max(T) \in T /\ \A k \in T : k <= Max(T)
  <2> HIDE DEF T
  <2> QED BY <1>2, <1>5, GreatestNatural
<1>7. /\ Max(T) \in Nat /\ \A b \in Bins : f(b) <= Max(T)
      /\ \E b \in Bins : Max(T) = f(b)
  BY <1>5, <1>6
<1> QED BY <1>4, <1>7 DEF f

(* The bytes of the whole list are fewer than a load can count.             *)
TotalFits == SumLens(DOMAIN shards) <= U64_MAX

(* Graham's bound for plans of any length.                                  *)
LptBound ==
  phase = "done" =>
    \A owner \in [DOMAIN shards -> Bins] :
      3 * args.count * MaxLoad(Owners) <= (4 * args.count - 1) * MaxLoad(owner)

LEMMA InvImpliesLptBound ==
  ASSUME TypeOK, LptInv, TotalFits
  PROVE  LptBound
<1> SUFFICES ASSUME phase = "done", NEW owner \in [DOMAIN shards -> Bins]
             PROVE  3 * args.count * MaxLoad(Owners) <= (4 * args.count - 1) * MaxLoad(owner)
  BY DEF LptBound
<1> DEFINE m == args.count
           J == DOMAIN shards
           opt == MaxLoad(owner)
           mine == MaxLoad(Owners)
<1>1. /\ m \in Nat \ {0} /\ AreLengths(Lens, J) /\ Bins = 0 .. m - 1
      /\ \A j \in J : Owners[j] \in Bins
  BY LensFacts DEF LptInv, OwnersAreBins, Bins
<1>2. Owners \in [J -> Bins]
  BY <1>1 DEF Owners
<1>3. opt \in Nat /\ \A b \in Bins : Bytes(Lens, On(owner, J, b)) <= opt
  BY MaxLoadFacts
<1>4. PICK b \in Bins : mine = Bytes(Lens, On(Owners, J, b))
  BY MaxLoadFacts
<1>5. mine \in Nat
  BY MaxLoadFacts
<1>6. CASE m = 1
  <2>1. On(owner, J, b) = On(Owners, J, b)
    <3>1. Bins = {0}
      BY <1>1, <1>6
    <3> QED BY <1>2, <3>1 DEF On
  <2>2. mine <= opt
    BY <1>3, <1>4, <2>1
  <2> HIDE DEF m, mine, opt
  <2>3. 3 * m * mine <= (4 * m - 1) * opt
    BY <1>1, <1>3, <1>5, <2>2, WholeArithmetic
  <2> QED BY <2>3 DEF m, mine, opt
<1>7. CASE m # 1
  <2>1. m > 1
    BY <1>1, <1>7
  <2>2. Dealt = J /\ Greedy(b)
    <3>1. Bytes(Lens, J) <= U64_MAX
      BY LensFacts, SumLensIs DEF TotalFits
    <3> QED BY <2>1, <3>1 DEF LptInv, Packed, Dealt
  <2>3. CASE On(Owners, J, b) = {}
    <3>1. mine <= opt
      BY <1>1, <1>3, <1>4, <2>3, BytesFacts
    <3> HIDE DEF m, mine, opt
    <3>2. 3 * m * mine <= (4 * m - 1) * opt
      BY <1>1, <1>3, <1>5, <3>1, WholeArithmetic
    <3> QED BY <3>2 DEF m, mine, opt
  <2>4. CASE On(Owners, J, b) # {}
    <3>1. PICK i \in On(Owners, J, b), K \in SUBSET J :
            /\ i \notin K /\ On(Owners, J, b) \subseteq K \cup {i}
            /\ \A j \in K : Lens[i] <= Lens[j]
            /\ \A c \in Bins : Bytes(Lens, On(Owners, K, b)) <= Bytes(Lens, On(Owners, K, c))
      BY <2>2, <2>4 DEF Greedy
    <3>2. i \in J /\ Owners[i] = b /\ K \in SUBSET (J \ {i})
      BY <3>1 DEF On
    <3>3. mine = Bytes(Lens, On(Owners, K, b)) + Lens[i]
      <4>1. On(Owners, J, b) = On(Owners, K, b) \cup {i}
        BY <3>1, <3>2 DEF On
      <4>2. On(Owners, K, b) \in SUBSET J /\ i \in J \ On(Owners, K, b)
        BY <3>1, <3>2 DEF On
      <4>3. Bytes(Lens, On(Owners, K, b) \cup {i}) = Bytes(Lens, On(Owners, K, b)) + Lens[i]
        BY <1>1, <4>2, BytesWith
      <4> QED BY <1>4, <4>1, <4>3
    <3>4. \A c \in 0 .. m - 1 :
            Bytes(Lens, On(Owners, K, Owners[i])) <= Bytes(Lens, On(Owners, K, c))
      BY <1>1, <3>1, <3>2
    <3>5. Owners \in [J -> 0 .. m - 1] /\ owner \in [J -> 0 .. m - 1]
      BY <1>1, <1>2
    <3>6. \A c \in 0 .. m - 1 : Bytes(Lens, On(owner, J, c)) <= opt
      BY <1>1, <1>3
    <3> HIDE DEF J, m, opt, mine
    <3>7. 3 * m * (Bytes(Lens, On(Owners, K, Owners[i])) + Lens[i]) <= (4 * m - 1) * opt
      BY <1>1, <1>3, <3>1, <3>2, <3>4, <3>5, <3>6, GrahamBound
    <3> QED BY <3>2, <3>3, <3>7 DEF m, opt, mine
  <2> QED BY <2>3, <2>4
<1> QED BY <1>6, <1>7

(* For every list whose bytes a load can count, of any length, no           *)
(* assignment of its shards to the ranks is much better than that of        *)
(* compute_shards: the most loaded rank has at most 4/3 - 1/(3 count) of    *)
(* the least possible maximum.                                              *)
THEOREM LptBoundAlways == Spec => [](TotalFits => LptBound)
BY PlanTypeCorrect, LptInvAlways, InvImpliesLptBound, PTL

(* In particular for short ones, for which a run compares the plan with all *)
(* others.                                                                  *)
THEOREM LptNearOptimalAlways == Spec => [](TotalFits => LptNearOptimal)
<1>1. LptBound => LptNearOptimal
  BY DEF LptBound, LptNearOptimal, Owners
<1> QED BY <1>1, LptBoundAlways, PTL
=============================================================================
