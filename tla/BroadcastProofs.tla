--------------------------- MODULE BroadcastProofs ---------------------------
(***************************************************************************)
(* The types of Broadcast, the order of its collectives, and its buffers   *)
(* and data, for every number of ranks, every plan and every pipeline      *)
(* depth, writer count, chunk and block size.                              *)
(*                                                                         *)
(* MPI matches the collectives of the ranks by their order only.  OrderInv *)
(* says that each rank's posts follow the plan, and where its cursor       *)
(* stands: so what a rank has posted determines what it posts next, and    *)
(* the k-th collectives of two ranks are of one chunk.                     *)
(*                                                                         *)
(* Given that order, FlowInv says where each buffer is and what is in it;  *)
(* BuffersAccounted, QueuedDataIntact and OwnedRangesIntact follow.        *)
(***************************************************************************)
EXTENDS Broadcast, FiniteSetTheorems, TLAPS

(* The value lists of the model: a command goes to an existing writer.      *)
LEMMA WriterExists == ASSUME NEW f \in Files PROVE WriterOf(f) \in Writers
<1>1. f \in Nat /\ NumWriters \in Nat \ {0}
  BY BroadcastAssumption
<1>2. f % NumWriters \in 0 .. NumWriters - 1
  BY <1>1
<1> QED BY <1>2 DEF WriterOf, Writers

(* Commands, queues and what is on disk keep their types.                   *)
LEMMA CommandTypes ==
  /\ \A f \in Files : OpenFile(f) \in Commands /\ CloseFile(f) \in Commands
  /\ \A c \in Chunks : Write(c) \in Commands
<1>1. 0 \in Slots
  BY BroadcastAssumption DEF Slots
<1> QED BY <1>1 DEF OpenFile, CloseFile, Write, Commands, Chunks

LEMMA EnqueueType ==
  ASSUME NEW queues \in [Writers -> Seq(Commands)], NEW cmd \in Commands
  PROVE  Enqueue(queues, cmd) \in [Writers -> Seq(Commands)]
<1>1. WriterOf(cmd.file) \in Writers
  BY WriterExists DEF Commands
<1>2. Append(queues[WriterOf(cmd.file)], cmd) \in Seq(Commands)
  BY <1>1
<1> QED BY <1>1, <1>2 DEF Enqueue

(* maybe_close_file keeps the types of the two variables it changes.        *)
LEMMA MaybeCloseType ==
  ASSUME NEW r \in Ranks, NEW f \in Files, NEW st \in FileStates,
         NEW queues \in [Writers -> Seq(Commands)],
         file_state \in [Ranks -> [Files -> FileStates]],
         cmds \in [Ranks -> [Writers -> Seq(Commands)]],
         MaybeCloseFile(r, f, st, queues)
  PROVE  /\ file_state' \in [Ranks -> [Files -> FileStates]]
         /\ cmds' \in [Ranks -> [Writers -> Seq(Commands)]]
<1>1. [st EXCEPT !.closed = TRUE] \in FileStates
  BY DEF FileStates
<1>2. Enqueue(queues, CloseFile(f)) \in [Writers -> Seq(Commands)]
  BY EnqueueType, CommandTypes
<1>3. \A x \in FileStates : [file_state EXCEPT ![r][f] = x] \in [Ranks -> [Files -> FileStates]]
  OBVIOUS
<1>4. \A q \in [Writers -> Seq(Commands)] : [cmds EXCEPT ![r] = q] \in [Ranks -> [Writers -> Seq(Commands)]]
  OBVIOUS
<1>5. CASE MayClose(f, st)
  <2>1. file_state' = [file_state EXCEPT ![r][f] = [st EXCEPT !.closed = TRUE]]
    BY <1>5 DEF MaybeCloseFile
  <2>2. cmds' = [cmds EXCEPT ![r] = Enqueue(queues, CloseFile(f))]
    BY <1>5 DEF MaybeCloseFile
  <2> QED BY <2>1, <2>2, <1>1, <1>2, <1>3, <1>4
<1>6. CASE ~MayClose(f, st)
  BY <1>6, <1>3, <1>4 DEF MaybeCloseFile
<1> QED BY <1>5, <1>6

(* A padded write length stays within the buffer.                           *)
LEMMA WriteLenBound ==
  ASSUME NEW n \in Nat
  PROVE  WriteLen(n) \in Nat /\ WriteLen(n) <= Chunk
<1>1. RoundUp(n) \in Nat
  <2>1. (n + ALIGN - 1) \in Nat /\ ALIGN \in Nat /\ ALIGN > 0
    BY BroadcastAssumption
  <2>2. (n + ALIGN - 1) \div ALIGN \in Nat
    BY <2>1
  <2> QED BY <2>1, <2>2 DEF RoundUp
<1> QED BY <1>1, BroadcastAssumption DEF WriteLen, Min2

LEMMA SubCountNat == ASSUME NEW n \in Nat PROVE SubCount(n) \in Nat
<1>1. n + MAX_SUB_BCAST - 1 \in Nat /\ MAX_SUB_BCAST \in Nat /\ MAX_SUB_BCAST > 0
  BY BroadcastAssumption
<1> QED BY <1>1 DEF SubCount

LEMMA OverwrittenType ==
  ASSUME NEW file \in Seq(Cells), NEW buf \in Buffer, NEW off \in Nat,
         NEW len \in Nat, len <= Chunk
  PROVE  /\ Overwritten(file, buf, off, len) \in Seq(Cells)
         /\ Len(Overwritten(file, buf, off, len)) >= Len(file)
<1> DEFINE m == IF Len(file) >= off + len THEN Len(file) ELSE off + len
           cell(p) == IF off < p /\ p <= off + len THEN buf[p - off]
                      ELSE IF p <= Len(file) THEN file[p] ELSE Hole
<1>1. m \in Nat /\ m >= Len(file)
  OBVIOUS
<1>2. ASSUME NEW p \in 1 .. m PROVE cell(p) \in Cells
  <2>1. CASE off < p /\ p <= off + len
    <3>1. p - off \in 1 .. Chunk
      BY <2>1, <1>1, BroadcastAssumption
    <3> QED BY <2>1, <3>1 DEF Buffer
  <2>2. CASE ~(off < p /\ p <= off + len) /\ p <= Len(file)
    BY <2>2, <1>1
  <2>3. CASE ~(off < p /\ p <= off + len) /\ ~(p <= Len(file))
    BY <2>3 DEF Cells
  <2> QED BY <2>1, <2>2, <2>3
<1>3. [p \in 1 .. m |-> cell(p)] \in Seq(Cells) /\ Len([p \in 1 .. m |-> cell(p)]) = m
  <2> HIDE DEF m, cell
  <2> QED BY <1>1, <1>2
<1> QED BY <1>1, <1>3 DEF Overwritten

LEMMA TruncatedType ==
  ASSUME NEW file \in Seq(Cells), NEW size \in Nat
  PROVE  /\ Truncated(file, size) \in Seq(Cells)
         /\ Len(Truncated(file, size)) = size
<1> DEFINE cell(p) == IF p <= Len(file) THEN file[p] ELSE Hole
<1>1. ASSUME NEW p \in 1 .. size PROVE cell(p) \in Cells
  BY DEF Cells
<1> HIDE DEF cell
<1>2. [p \in 1 .. size |-> cell(p)] \in Seq(Cells) /\ Len([p \in 1 .. size |-> cell(p)]) = size
  BY <1>1
<1> QED BY <1>2 DEF Truncated, cell

------------------------------------------------------------------------------
(* Type correctness: one lemma per action.                                  *)

(* The plan, and the states at the start.                                   *)
LEMMA PlanShard ==
  ASSUME NEW i \in 1 .. Len(Plan)
  PROVE  /\ Plan[i] \in Shard
         /\ Plan[i].off + Plan[i].len <= Size[Plan[i].file]
BY BroadcastAssumption

LEMMA InitialFileType ==
  ASSUME NEW r \in Ranks, NEW f \in Files
  PROVE  InitialFile(r, f) \in Seq(Cells) /\ Len(InitialFile(r, f)) = Size[f]
<1> DEFINE has(p) == \/ f \in Has[r]
                     \/ \E i \in DOMAIN Plan : /\ Plan[i].file = f
                                               /\ Plan[i].owner = r
                                               /\ InShard(Plan[i], p)
           cell(p) == IF has(p) THEN <<f, p>> ELSE Hole
<1>1. \A p \in 1 .. Size[f] : cell(p) \in Cells
  <2> HIDE DEF has
  <2> QED BY DEF Cells
<1>2. Size[f] \in Nat
  BY BroadcastAssumption
<1> HIDE DEF cell
<1>3. [p \in 1 .. Size[f] |-> cell(p)] \in Seq(Cells) /\ Len([p \in 1 .. Size[f] |-> cell(p)]) = Size[f]
  BY <1>1, <1>2
<1> QED BY <1>3 DEF InitialFile, cell

LEMMA InitType == Init => TypeOK
<1> SUFFICES ASSUME Init PROVE TypeOK
  OBVIOUS
<1>1. [i \in 1 .. Depth |-> i - 1] \in Seq(Slots)
  BY BroadcastAssumption DEF Slots
<1>2. mem \in [Ranks -> [Slots -> Buffer]]
  BY DEF Init, Buffer, Cells
<1>3. file_state \in [Ranks -> [Files -> FileStates]]
  BY DEF Init, FileStates
<1>4. /\ disk \in [Ranks -> [Files -> Seq(Cells)]]
      /\ \A r \in Ranks, f \in Files : Len(disk[r][f]) >= Size[f]
  <2>1. \A f \in Files : Size[f] \in Nat
    BY BroadcastAssumption
  <2> QED BY <2>1, InitialFileType DEF Init
<1>5. free_slots \in [Ranks -> Seq(Slots)]
  <2> DEFINE fresh == [i \in 1 .. Depth |-> i - 1]
  <2>1. free_slots = [r \in Ranks |-> fresh]
    BY DEF Init
  <2> HIDE DEF fresh
  <2> QED BY <1>1, <2>1 DEF fresh
<1>10. /\ home \in [Ranks -> [Slots -> BOOLEAN]]
       /\ writes_pending \in [Ranks -> Int]
       /\ subs \in [Ranks -> [Slots -> Int]]
       /\ wire \in [Ranks -> Seq(Chunks)]
  BY DEF Init
<1>9. /\ in_flight \in [Ranks -> SUBSET (Nat \X Nat)]
      /\ \A r \in Ranks : in_flight[r] \subseteq (DOMAIN wire[r]) \X Nat
  BY DEF Init
<1>6. /\ cmds \in [Ranks -> [Writers -> Seq(Commands)]]
      /\ acks \in [Ranks -> Seq(Acks)]
      /\ files \in [Ranks -> SUBSET Files]
      /\ deferred \in [Ranks -> SUBSET Writers]
      /\ exited \in [Ranks -> SUBSET Writers]
      /\ synced \in [Ranks -> SUBSET Files]
      /\ failed \in [Ranks -> BOOLEAN]
      /\ faults \in 0 .. MaxFaults
  BY BroadcastAssumption DEF Init
<1>7. Len(Plan) \in Nat
  BY BroadcastAssumption
<1>8. /\ pc \in [Ranks -> {"post", "drain", "recv", "wait", "join", "ok", "err", "aborted"}]
      /\ result \in [Ranks -> {"ok", "err"}]
      /\ next_plan_idx \in [Ranks -> 0 .. Len(Plan)]
      /\ active \in [Ranks -> BOOLEAN]
      /\ post_offset \in [Ranks -> Nat]
      /\ \A r \in Ranks : active[r] =>
           next_plan_idx[r] > 0 /\ post_offset[r] < Plan[next_plan_idx[r]].len
  BY <1>7 DEF Init
<1> QED BY <1>2, <1>3, <1>4, <1>5, <1>6, <1>8, <1>9, <1>10 DEF TypeOK

(* What a step does to the counters and flags of a FileState stays typed.   *)
LEMMA FileStateUpdates ==
  ASSUME NEW st \in FileStates
  PROVE  /\ [st EXCEPT !.opened = TRUE] \in FileStates
         /\ [st EXCEPT !.shards_posted = @ + 1] \in FileStates
         /\ [st EXCEPT !.chunks_in_flight = @ + 1] \in FileStates
         /\ [st EXCEPT !.chunks_in_flight = @ - 1] \in FileStates
         /\ [st EXCEPT !.writes_in_flight = @ + 1] \in FileStates
         /\ [st EXCEPT !.writes_in_flight = @ - 1] \in FileStates
<1>1. [st EXCEPT !.opened = TRUE] \in FileStates
  BY DEF FileStates
<1>2. \A n \in Int : /\ [st EXCEPT !.shards_posted = n] \in FileStates
                     /\ [st EXCEPT !.chunks_in_flight = n] \in FileStates
                     /\ [st EXCEPT !.writes_in_flight = n] \in FileStates
  BY DEF FileStates
<1>3. st.shards_posted \in Int /\ st.chunks_in_flight \in Int /\ st.writes_in_flight \in Int
  BY DEF FileStates
<1>4. /\ st.shards_posted + 1 \in Int
      /\ st.chunks_in_flight + 1 \in Int /\ st.chunks_in_flight - 1 \in Int
      /\ st.writes_in_flight + 1 \in Int /\ st.writes_in_flight - 1 \in Int
  BY <1>3
<1> QED BY <1>1, <1>2, <1>4

(* Each step of a rank keeps the types.                                     *)
LEMMA StartShardType ==
  ASSUME TypeOK, NEW r \in Ranks, StartShard(r)
  PROVE  TypeOK'
<1> DEFINE i == next_plan_idx[r] + 1
           s == Plan[i]
           st == file_state[r][s.file]
           opens == NeedsWrite(r, s.file) /\ ~st.opened
           st1 == [st EXCEPT !.opened = @ \/ opens]
           queues == IF opens THEN Enqueue(cmds[r], OpenFile(s.file)) ELSE cmds[r]
<1>1. next_plan_idx[r] \in 0 .. Len(Plan) /\ next_plan_idx[r] < Len(Plan) /\ Len(Plan) \in Nat
  BY BroadcastAssumption DEF StartShard, TypeOK
<1>2. i \in 1 .. Len(Plan)
  BY <1>1
<1>3. s.file \in Files /\ s.len \in Nat
  BY <1>2, PlanShard DEF Shard
<1>4. st \in FileStates
  BY <1>3 DEF TypeOK
<1>5. st1 \in FileStates
  <2>1. (st.opened \/ opens) \in BOOLEAN
    BY Zenon
  <2>2. \A b \in BOOLEAN : [st EXCEPT !.opened = b] \in FileStates
    BY <1>4 DEF FileStates
  <2> QED BY <2>1, <2>2, Zenon
<1>6. queues \in [Writers -> Seq(Commands)]
  BY <1>3, EnqueueType, CommandTypes DEF TypeOK
<1>7. /\ file_state' \in [Ranks -> [Files -> FileStates]]
      /\ cmds' \in [Ranks -> [Writers -> Seq(Commands)]]
  <2>1. CASE s.len = 0
    <3>1. [st1 EXCEPT !.shards_posted = @ + 1] \in FileStates
      BY <1>5, FileStateUpdates
    <3>2. MaybeCloseFile(r, s.file, [st1 EXCEPT !.shards_posted = @ + 1], queues)
      BY <2>1 DEF StartShard
    <3>3. /\ file_state \in [Ranks -> [Files -> FileStates]]
          /\ cmds \in [Ranks -> [Writers -> Seq(Commands)]]
      BY DEF TypeOK
    <3> HIDE DEF st1, queues
    <3> QED BY <3>1, <3>2, <3>3, <1>3, <1>6, MaybeCloseType
  <2>2. CASE s.len # 0
    <3>1. /\ file_state' = [file_state EXCEPT ![r][s.file] = st1]
          /\ cmds' = [cmds EXCEPT ![r] = queues]
      BY <2>2 DEF StartShard
    <3> HIDE DEF st1, queues
    <3> QED BY <3>1, <1>3, <1>5, <1>6 DEF TypeOK
  <2> QED BY <2>1, <2>2
<1>8. /\ next_plan_idx' = [next_plan_idx EXCEPT ![r] = i]
      /\ post_offset' = [post_offset EXCEPT ![r] = 0]
      /\ \/ s.len = 0 /\ active' = active
         \/ s.len # 0 /\ active' = [active EXCEPT ![r] = TRUE]
      /\ ~active[r]
  BY DEF StartShard
<1>9. /\ next_plan_idx' \in [Ranks -> 0 .. Len(Plan)]
      /\ active' \in [Ranks -> BOOLEAN]
      /\ post_offset' \in [Ranks -> Nat]
  <2>1. i \in 0 .. Len(Plan)
    BY <1>1
  <2>2. next_plan_idx' \in [Ranks -> 0 .. Len(Plan)]
    <3> HIDE DEF i
    <3> QED BY <2>1, <1>8 DEF TypeOK
  <2>3. active' \in [Ranks -> BOOLEAN]
    BY <1>8 DEF TypeOK
  <2>4. post_offset' \in [Ranks -> Nat]
    BY <1>8 DEF TypeOK
  <2> QED BY <2>2, <2>3, <2>4
<1>10. \A q \in Ranks : active'[q] =>
         next_plan_idx'[q] > 0 /\ post_offset'[q] < Plan[next_plan_idx'[q]].len
  <2> SUFFICES ASSUME NEW q \in Ranks, active'[q]
               PROVE  next_plan_idx'[q] > 0 /\ post_offset'[q] < Plan[next_plan_idx'[q]].len
    OBVIOUS
  <2>1. CASE q = r
    <3>1. next_plan_idx'[q] = i /\ post_offset'[q] = 0
      BY <2>1, <1>8 DEF TypeOK
    <3>2. s.len # 0
      BY <2>1, <1>8
    <3> QED BY <3>1, <3>2, <1>2, <1>3
  <2>2. CASE q # r
    BY <2>2, <1>8 DEF TypeOK
  <2> QED BY <2>1, <2>2
<1> QED BY <1>7, <1>9, <1>10
        DEF StartShard, TypeOK, poolVars, bcastVars, writerVars, faultVars

(* The chunk a rank posts is a chunk: in the shard, in a buffer, and read   *)
(* from within the local file.                                              *)
LEMMA PostedChunk ==
  ASSUME TypeOK, NEW r \in Ranks, active[r], NEW slot \in Slots,
         NEW s, s = Plan[next_plan_idx[r]],
         NEW n, n = ChunkLen(r, s)
  PROVE  /\ s \in Shard
         /\ n \in 1 .. Chunk /\ post_offset[r] + n <= s.len
         /\ Filled(r, s, n, slot) \in Buffer
         /\ ChunkOf(r, s, n, slot) \in Chunks
<1>1. next_plan_idx[r] \in 1 .. Len(Plan) /\ post_offset[r] < s.len /\ post_offset[r] \in Nat
  <2>1. Len(Plan) \in Nat /\ next_plan_idx[r] \in 0 .. Len(Plan)
    BY BroadcastAssumption DEF TypeOK
  <2> QED BY <2>1 DEF TypeOK
<1>2. s \in Shard /\ s.off + s.len <= Size[s.file]
  BY <1>1, PlanShard
<1>3. s.file \in Files /\ s.off \in Nat /\ s.len \in Nat /\ s.owner \in Ranks
  BY <1>2 DEF Shard
<1>4. n \in 1 .. Chunk /\ post_offset[r] + n <= s.len
  BY <1>1, <1>3, BroadcastAssumption DEF ChunkLen, Min2
<1>5. Filled(r, s, n, slot) \in Buffer
  <2> DEFINE cell(i) == IF s.owner = r /\ i <= n
                        THEN disk[r][s.file][s.off + post_offset[r] + i]
                        ELSE mem[r][slot][i]
  <2>1. ASSUME NEW i \in 1 .. Chunk PROVE cell(i) \in Cells
    <3>1. CASE s.owner = r /\ i <= n
      <4>1. Size[s.file] \in Nat
        BY <1>3, BroadcastAssumption
      <4>2. disk[r][s.file] \in Seq(Cells) /\ Len(disk[r][s.file]) >= Size[s.file]
        <5>1. disk[r] \in [Files -> Seq(Cells)]
          BY DEF TypeOK
        <5>2. Len(disk[r][s.file]) >= Size[s.file]
          BY <1>3 DEF TypeOK
        <5> QED BY <5>1, <5>2, <1>3
      <4> DEFINE file == disk[r][s.file]
      <4>3. Len(file) \in Nat /\ Len(file) >= Size[s.file]
        BY <4>2
      <4>4. i \in Nat /\ i > 0 /\ n \in Nat
        BY <1>4, BroadcastAssumption
      <4> HIDE DEF file
      <4>5. s.off + post_offset[r] + i <= Len(file)
        <5>1. post_offset[r] + i <= s.len /\ post_offset[r] + i \in Nat
          BY <3>1, <4>4, <1>1, <1>3, <1>4
        <5>2. \A x, y, z, u, v \in Nat : x <= y /\ z + y <= u /\ u <= v => z + x <= v
          OBVIOUS
        <5>3. s.off + (post_offset[r] + i) <= Len(file)
          BY <5>1, <5>2, <4>1, <4>3, <1>2, <1>3
        <5> QED BY <5>3, <4>4, <1>1, <1>3
      <4>6. s.off + post_offset[r] + i \in 1 .. Len(file)
        BY <4>3, <4>4, <4>5, <1>1, <1>3
      <4> QED BY <3>1, <4>2, <4>6 DEF file
    <3>2. CASE ~(s.owner = r /\ i <= n)
      <4>1. mem[r][slot] \in Buffer
        BY DEF TypeOK
      <4> QED BY <3>2, <4>1 DEF Buffer
    <3> QED BY <3>1, <3>2
  <2> HIDE DEF cell
  <2>2. [i \in 1 .. Chunk |-> cell(i)] \in Buffer
    BY <2>1 DEF Buffer
  <2> QED BY <2>2 DEF Filled, cell
<1>6. ChunkOf(r, s, n, slot) \in Chunks
  BY <1>1, <1>3, <1>4, <1>5 DEF ChunkOf, Chunks
<1> QED BY <1>2, <1>4, <1>5, <1>6

LEMMA PostChunkType ==
  ASSUME TypeOK, NEW r \in Ranks, PostChunk(r)
  PROVE  TypeOK'
<1> DEFINE s == Plan[next_plan_idx[r]]
           slot == Head(free_slots[r])
           n == ChunkLen(r, s)
           last == post_offset[r] + n >= s.len
           st == [file_state[r][s.file] EXCEPT !.chunks_in_flight = @ + 1]
           new == {Len(wire[r]) + 1} \X (1 .. SubCount(n))
<1>1. active[r] /\ free_slots[r] # <<>> /\ free_slots[r] \in Seq(Slots)
  BY DEF PostChunk, TypeOK
<1>2. slot \in Slots /\ Tail(free_slots[r]) \in Seq(Slots)
  BY <1>1
<1>3. /\ s \in Shard
      /\ n \in 1 .. Chunk /\ post_offset[r] + n <= s.len
      /\ Filled(r, s, n, slot) \in Buffer
      /\ ChunkOf(r, s, n, slot) \in Chunks
  <2> HIDE DEF s, n, slot
  <2> QED BY <1>1, <1>2, PostedChunk DEF s, n
<1>4. s.file \in Files /\ s.len \in Nat /\ n \in Nat /\ SubCount(n) \in Nat
  <2>1. s.file \in Files /\ s.len \in Nat
    BY <1>3 DEF Shard
  <2>2. n \in Nat
    BY <1>3, BroadcastAssumption
  <2> QED BY <2>1, <2>2, SubCountNat
<1>5. /\ free_slots' = [free_slots EXCEPT ![r] = Tail(@)]
      /\ mem' = [mem EXCEPT ![r][slot] = Filled(r, s, n, slot)]
      /\ wire' = [wire EXCEPT ![r] = Append(@, ChunkOf(r, s, n, slot))]
      /\ in_flight' = [in_flight EXCEPT ![r] = @ \cup new]
      /\ subs' = [subs EXCEPT ![r][slot] = @ + SubCount(n)]
      /\ post_offset' = [post_offset EXCEPT ![r] = @ + n]
      /\ active' = [active EXCEPT ![r] = ~last]
  BY DEF PostChunk
<1>6. /\ file_state' \in [Ranks -> [Files -> FileStates]]
      /\ cmds' \in [Ranks -> [Writers -> Seq(Commands)]]
  <2>1. st \in FileStates /\ [st EXCEPT !.shards_posted = @ + 1] \in FileStates
    <3>1. file_state[r][s.file] \in FileStates
      BY <1>4 DEF TypeOK
    <3>2. st \in FileStates
      BY <3>1, FileStateUpdates
    <3> HIDE DEF st
    <3> QED BY <3>2, FileStateUpdates
  <2>2. /\ file_state \in [Ranks -> [Files -> FileStates]]
        /\ cmds \in [Ranks -> [Writers -> Seq(Commands)]]
        /\ cmds[r] \in [Writers -> Seq(Commands)]
    BY DEF TypeOK
  <2>3. CASE last
    <3>1. MaybeCloseFile(r, s.file, [st EXCEPT !.shards_posted = @ + 1], cmds[r])
      BY <2>3 DEF PostChunk
    <3> HIDE DEF st, s
    <3> QED BY <3>1, <2>1, <2>2, <1>4, MaybeCloseType
  <2>4. CASE ~last
    <3>1. file_state' = [file_state EXCEPT ![r][s.file] = st] /\ cmds' = cmds
      BY <2>4 DEF PostChunk
    <3> HIDE DEF st, s
    <3> QED BY <3>1, <2>1, <2>2, <1>4
  <2> QED BY <2>3, <2>4
<1> HIDE DEF s, slot, n, st, new
<1>7. /\ free_slots' \in [Ranks -> Seq(Slots)]
      /\ mem' \in [Ranks -> [Slots -> Buffer]]
      /\ wire' \in [Ranks -> Seq(Chunks)]
      /\ subs' \in [Ranks -> [Slots -> Int]]
  <2>1. free_slots' \in [Ranks -> Seq(Slots)]
    BY <1>2, <1>5 DEF TypeOK
  <2>2. mem' \in [Ranks -> [Slots -> Buffer]]
    BY <1>2, <1>3, <1>5 DEF TypeOK
  <2>3. wire' \in [Ranks -> Seq(Chunks)]
    <3>1. wire[r] \in Seq(Chunks)
      BY DEF TypeOK
    <3>2. Append(wire[r], ChunkOf(r, s, n, slot)) \in Seq(Chunks)
      BY <3>1, <1>3
    <3> QED BY <3>2, <1>5 DEF TypeOK
  <2>4. subs' \in [Ranks -> [Slots -> Int]]
    <3>1. subs[r][slot] + SubCount(n) \in Int
      BY <1>2, <1>4 DEF TypeOK
    <3> QED BY <3>1, <1>2, <1>5 DEF TypeOK
  <2> QED BY <2>1, <2>2, <2>3, <2>4
<1>12. in_flight' \in [Ranks -> SUBSET (Nat \X Nat)]
  <2>1. new \subseteq Nat \X Nat
    <3>1. Len(wire[r]) + 1 \in Nat
      BY DEF TypeOK
    <3> QED BY <3>1, <1>4 DEF new
  <2> QED BY <2>1, <1>5 DEF TypeOK
<1>8. \A q \in Ranks : in_flight'[q] \subseteq (DOMAIN wire'[q]) \X Nat
  <2> SUFFICES ASSUME NEW q \in Ranks
               PROVE  in_flight'[q] \subseteq (DOMAIN wire'[q]) \X Nat
    OBVIOUS
  <2>1. wire[q] \in Seq(Chunks) /\ in_flight[q] \subseteq (DOMAIN wire[q]) \X Nat
    BY DEF TypeOK
  <2>2. CASE q = r
    <3>1. /\ in_flight'[q] = in_flight[q] \cup new
          /\ wire'[q] = Append(wire[q], ChunkOf(r, s, n, slot))
      BY <2>2, <1>5 DEF TypeOK
    <3>2. DOMAIN wire'[q] = 1 .. Len(wire[q]) + 1 /\ DOMAIN wire[q] = 1 .. Len(wire[q])
      BY <3>1, <2>1, <1>3
    <3>3. DOMAIN wire[q] \subseteq DOMAIN wire'[q] /\ Len(wire[q]) + 1 \in DOMAIN wire'[q]
      BY <3>2, <2>1
    <3>4. new \subseteq (DOMAIN wire'[q]) \X Nat
      BY <3>3, <2>2, <1>4 DEF new
    <3> QED BY <3>1, <3>3, <3>4, <2>1
  <2>3. CASE q # r
    BY <2>1, <2>3, <1>5 DEF TypeOK
  <2> QED BY <2>2, <2>3
<1>9. post_offset' \in [Ranks -> Nat] /\ active' \in [Ranks -> BOOLEAN]
  BY <1>4, <1>5 DEF TypeOK
<1>10. \A q \in Ranks : active'[q] =>
         next_plan_idx[q] > 0 /\ post_offset'[q] < Plan[next_plan_idx[q]].len
  <2> SUFFICES ASSUME NEW q \in Ranks, active'[q]
               PROVE  next_plan_idx[q] > 0 /\ post_offset'[q] < Plan[next_plan_idx[q]].len
    OBVIOUS
  <2>1. CASE q = r
    <3>1. ~last /\ post_offset'[q] = post_offset[r] + n
      BY <2>1, <1>5 DEF TypeOK
    <3>2. next_plan_idx[q] > 0 /\ post_offset[r] \in Nat
      BY <2>1, <1>1 DEF TypeOK
    <3> QED BY <2>1, <3>1, <3>2, <1>4 DEF s
  <2>2. CASE q # r
    BY <2>2, <1>5 DEF TypeOK
  <2> QED BY <2>1, <2>2
<1>11. next_plan_idx' = next_plan_idx
  BY DEF PostChunk
<1> QED BY <1>6, <1>7, <1>8, <1>9, <1>10, <1>11, <1>12
        DEF PostChunk, TypeOK, writerVars, faultVars

LEMMA TakeAckType ==
  ASSUME TypeOK, NEW r \in Ranks, TakeAck(r)
  PROVE  TypeOK'
<1> DEFINE a == Head(acks[r])
           st == [file_state[r][a.file] EXCEPT !.writes_in_flight = @ - 1]
<1>1. acks[r] # <<>> /\ acks[r] \in Seq(Acks)
  BY DEF TakeAck, TypeOK
<1>2. a \in Acks /\ Tail(acks[r]) \in Seq(Acks)
  BY <1>1
<1>3. a.slot \in Slots /\ a.file \in Files
  BY <1>2 DEF Acks
<1>4. acks' \in [Ranks -> Seq(Acks)]
  <2>1. acks' = [acks EXCEPT ![r] = Tail(@)]
    BY DEF TakeAck
  <2> QED BY <2>1, <1>2 DEF TypeOK
<1>5. /\ pc' \in [Ranks -> {"post", "drain", "recv", "wait", "join", "ok", "err", "aborted"}]
      /\ result' \in [Ranks -> {"ok", "err"}]
      /\ free_slots' \in [Ranks -> Seq(Slots)]
      /\ home' \in [Ranks -> [Slots -> BOOLEAN]]
      /\ writes_pending' \in [Ranks -> Int]
      /\ file_state' \in [Ranks -> [Files -> FileStates]]
      /\ cmds' \in [Ranks -> [Writers -> Seq(Commands)]]
  <2>1. CASE a.err
    <3>1. /\ pc' = [pc EXCEPT ![r] = "join"]
          /\ result' = [result EXCEPT ![r] = "err"]
          /\ UNCHANGED <<free_slots, home, writes_pending, file_state, cmds>>
      BY <2>1 DEF TakeAck, poolVars, fileVars
    <3> QED BY <3>1 DEF TypeOK
  <2>2. CASE ~a.err
    <3>1. /\ pc' = [pc EXCEPT ![r] = IF @ = "recv" THEN "post" ELSE @]
          /\ home' = [home EXCEPT ![r][a.slot] = TRUE]
          /\ free_slots' = [free_slots EXCEPT ![r] = Append(@, a.slot)]
          /\ writes_pending' = [writes_pending EXCEPT ![r] = @ - 1]
          /\ MaybeCloseFile(r, a.file, st, cmds[r])
          /\ result' = result
      BY <2>2 DEF TakeAck
    <3>2. st \in FileStates
      <4>1. file_state[r][a.file] \in FileStates
        BY <1>3 DEF TypeOK
      <4> QED BY <4>1, FileStateUpdates
    <3>3. /\ file_state \in [Ranks -> [Files -> FileStates]]
          /\ cmds \in [Ranks -> [Writers -> Seq(Commands)]]
          /\ cmds[r] \in [Writers -> Seq(Commands)]
      BY DEF TypeOK
    <3> HIDE DEF a, st
    <3>4. /\ file_state' \in [Ranks -> [Files -> FileStates]]
          /\ cmds' \in [Ranks -> [Writers -> Seq(Commands)]]
      BY <3>1, <3>2, <3>3, <1>3, MaybeCloseType
    <3>5. free_slots' \in [Ranks -> Seq(Slots)]
      <4>1. free_slots[r] \in Seq(Slots)
        BY DEF TypeOK
      <4>2. Append(free_slots[r], a.slot) \in Seq(Slots)
        BY <4>1, <1>3
      <4> QED BY <4>2, <3>1 DEF TypeOK
    <3>6. /\ pc' \in [Ranks -> {"post", "drain", "recv", "wait", "join", "ok", "err", "aborted"}]
          /\ home' \in [Ranks -> [Slots -> BOOLEAN]]
          /\ writes_pending' \in [Ranks -> Int]
          /\ result' \in [Ranks -> {"ok", "err"}]
      BY <3>1, <1>3 DEF TypeOK
    <3> QED BY <3>4, <3>5, <3>6
  <2> QED BY <2>1, <2>2
<1> QED BY <1>4, <1>5 DEF TakeAck, TypeOK, cursorVars, bcastVars, faultVars

LEMMA CompleteType ==
  ASSUME TypeOK, NEW r \in Ranks, WaitAny(r)
  PROVE  TypeOK'
<1>1. PICK e \in in_flight[r] : Complete(r, e[1], e[2])
  BY DEF WaitAny
<1> DEFINE k == e[1]
           c == wire[r][k]
           st == [file_state[r][c.file] EXCEPT !.chunks_in_flight = @ - 1]
<1>2. wire[r] \in Seq(Chunks) /\ k \in DOMAIN wire[r]
  <2>1. wire[r] \in Seq(Chunks) /\ in_flight[r] \subseteq (DOMAIN wire[r]) \X Nat
    BY DEF TypeOK
  <2> QED BY <2>1, <1>1
<1>3. c \in Chunks
  BY <1>2
<1>4. c.slot \in Slots /\ c.file \in Files /\ c.root \in Ranks
  BY <1>3 DEF Chunks
<1>5. Received(r, k, e[2]) \in Buffer
  <2> DEFINE d == wire[c.root][k]
             cell(i) == IF c.root # r /\ InSub(e[2], i) /\ i <= c.n
                        THEN d.buf[i] ELSE mem[r][c.slot][i]
  <2>1. d \in Chunks
    <3>1. wire[c.root] \in Seq(Chunks)
      BY <1>4 DEF TypeOK
    <3>2. k \in 1 .. Len(wire[c.root])
      <4>1. k \in Nat /\ k > 0
        BY <1>2
      <4>2. Len(wire[c.root]) >= k
        BY <1>1 DEF Complete, Completable
      <4> QED BY <3>1, <4>1, <4>2
    <3> QED BY <3>1, <3>2
  <2>2. d.buf \in Buffer /\ mem[r][c.slot] \in Buffer
    <3>1. d.buf \in Buffer
      BY <2>1 DEF Chunks
    <3>2. mem[r] \in [Slots -> Buffer]
      BY DEF TypeOK
    <3> QED BY <3>1, <3>2, <1>4
  <2>3. ASSUME NEW i \in 1 .. Chunk PROVE cell(i) \in Cells
    BY <2>2 DEF Buffer
  <2> HIDE DEF cell
  <2>4. [i \in 1 .. Chunk |-> cell(i)] \in Buffer
    BY <2>3 DEF Buffer
  <2> QED BY <2>4 DEF Received, cell
<1>6. st \in FileStates /\ [st EXCEPT !.writes_in_flight = @ + 1] \in FileStates
  <2>1. file_state[r][c.file] \in FileStates
    BY <1>4 DEF TypeOK
  <2>2. st \in FileStates
    BY <2>1, FileStateUpdates
  <2> HIDE DEF st
  <2> QED BY <2>2, FileStateUpdates
<1>7. Write(c) \in Commands
  BY <1>3, CommandTypes
<1>8. /\ mem' = [mem EXCEPT ![r][c.slot] = Received(r, k, e[2])]
      /\ in_flight' = [in_flight EXCEPT ![r] = @ \ {<<k, e[2]>>}]
      /\ subs' = [subs EXCEPT ![r][c.slot] = @ - 1]
      /\ pc' = [pc EXCEPT ![r] = "post"]
      /\ wire' = wire
  BY <1>1 DEF Complete
<1>9. /\ file_state \in [Ranks -> [Files -> FileStates]]
      /\ cmds \in [Ranks -> [Writers -> Seq(Commands)]]
      /\ cmds[r] \in [Writers -> Seq(Commands)]
      /\ free_slots \in [Ranks -> Seq(Slots)] /\ free_slots[r] \in Seq(Slots)
      /\ home \in [Ranks -> [Slots -> BOOLEAN]]
      /\ writes_pending \in [Ranks -> Int]
  BY DEF TypeOK
<1>10. /\ free_slots' \in [Ranks -> Seq(Slots)]
       /\ home' \in [Ranks -> [Slots -> BOOLEAN]]
       /\ writes_pending' \in [Ranks -> Int]
       /\ file_state' \in [Ranks -> [Files -> FileStates]]
       /\ cmds' \in [Ranks -> [Writers -> Seq(Commands)]]
  <2>1. CASE ~SlotReleased(r, c.slot)
    BY <1>1, <2>1, <1>9 DEF Complete, poolVars, fileVars
  <2>2. CASE SlotReleased(r, c.slot) /\ NeedsWrite(r, c.file)
    <3>1. /\ home' = [home EXCEPT ![r][c.slot] = FALSE]
          /\ writes_pending' = [writes_pending EXCEPT ![r] = @ + 1]
          /\ MaybeCloseFile(r, c.file, [st EXCEPT !.writes_in_flight = @ + 1],
                            Enqueue(cmds[r], Write(c)))
          /\ free_slots' = free_slots
      BY <1>1, <2>2 DEF Complete
    <3>2. Enqueue(cmds[r], Write(c)) \in [Writers -> Seq(Commands)]
      BY <1>7, <1>9, EnqueueType
    <3> HIDE DEF c, st
    <3>3. /\ file_state' \in [Ranks -> [Files -> FileStates]]
          /\ cmds' \in [Ranks -> [Writers -> Seq(Commands)]]
      BY <3>1, <3>2, <1>4, <1>6, <1>9, MaybeCloseType
    <3> QED BY <3>1, <3>3, <1>4, <1>9
  <2>3. CASE SlotReleased(r, c.slot) /\ ~NeedsWrite(r, c.file)
    <3>1. /\ free_slots' = [free_slots EXCEPT ![r] = Append(@, c.slot)]
          /\ MaybeCloseFile(r, c.file, st, cmds[r])
          /\ UNCHANGED <<home, writes_pending>>
      BY <1>1, <2>3 DEF Complete
    <3> HIDE DEF c, st
    <3>2. /\ file_state' \in [Ranks -> [Files -> FileStates]]
          /\ cmds' \in [Ranks -> [Writers -> Seq(Commands)]]
      BY <3>1, <1>4, <1>6, <1>9, MaybeCloseType
    <3>3. Append(free_slots[r], c.slot) \in Seq(Slots)
      BY <1>4, <1>9
    <3> QED BY <3>1, <3>2, <3>3, <1>9
  <2> QED BY <2>1, <2>2, <2>3
<1> HIDE DEF c
<1>11. /\ pc' \in [Ranks -> {"post", "drain", "recv", "wait", "join", "ok", "err", "aborted"}]
       /\ mem' \in [Ranks -> [Slots -> Buffer]]
  BY <1>4, <1>5, <1>8 DEF TypeOK
<1>12. subs' \in [Ranks -> [Slots -> Int]]
  <2>1. subs[r][c.slot] - 1 \in Int
    <3>1. subs[r] \in [Slots -> Int]
      BY DEF TypeOK
    <3>2. subs[r][c.slot] \in Int
      BY <3>1, <1>4
    <3> QED BY <3>2
  <2>2. \A x \in Int, t \in Slots : [subs EXCEPT ![r][t] = x] \in [Ranks -> [Slots -> Int]]
    BY DEF TypeOK
  <2> QED BY <2>1, <2>2, <1>4, <1>8
<1>13. /\ in_flight' \in [Ranks -> SUBSET (Nat \X Nat)]
       /\ \A q \in Ranks : in_flight'[q] \subseteq (DOMAIN wire'[q]) \X Nat
  BY <1>8 DEF TypeOK
<1> QED BY <1>1, <1>8, <1>10, <1>11, <1>12, <1>13
        DEF Complete, TypeOK, cursorVars, writerVars, faultVars

(* A failing call is counted; the bound on such calls is respected.         *)
LEMMA CallFailsType ==
  ASSUME TypeOK, NEW r \in Ranks, CallFails(r)
  PROVE  failed' \in [Ranks -> BOOLEAN] /\ faults' \in 0 .. MaxFaults
<1>1. MaxFaults \in Nat
  BY BroadcastAssumption
<1> QED BY <1>1 DEF CallFails, TypeOK

LEMMA DequeueType ==
  ASSUME TypeOK, NEW r \in Ranks, NEW w \in Writers, NEW kind, Dequeue(r, w, kind)
  PROVE  /\ Head(cmds[r][w]) \in Commands
         /\ cmds' \in [Ranks -> [Writers -> Seq(Commands)]]
<1>1. cmds[r][w] \in Seq(Commands) /\ cmds[r][w] # <<>>
  BY DEF Dequeue, TypeOK
<1>2. Head(cmds[r][w]) \in Commands /\ Tail(cmds[r][w]) \in Seq(Commands)
  BY <1>1
<1> QED BY <1>2 DEF Dequeue, TypeOK

LEMMA WriterOpenType ==
  ASSUME TypeOK, NEW r \in Ranks, NEW w \in Writers, WriterOpen(r, w)
  PROVE  TypeOK'
<1>1. /\ Head(cmds[r][w]) \in Commands
      /\ cmds' \in [Ranks -> [Writers -> Seq(Commands)]]
  BY DequeueType DEF WriterOpen
<1>2. Head(cmds[r][w]).file \in Files
  BY <1>1 DEF Commands
<1>3. files' \in [Ranks -> SUBSET Files]
  BY <1>2 DEF WriterOpen, TypeOK
<1> QED BY <1>1, <1>3 DEF WriterOpen, TypeOK, cursorVars, poolVars, bcastVars, faultVars

LEMMA WriterWriteType ==
  ASSUME TypeOK, NEW r \in Ranks, NEW w \in Writers, WriterWrite(r, w)
  PROVE  TypeOK'
<1> DEFINE c == Head(cmds[r][w])
<1>1. c \in Commands /\ cmds' \in [Ranks -> [Writers -> Seq(Commands)]]
  BY DequeueType DEF WriterWrite
<1>2. c.file \in Files /\ c.slot \in Slots /\ c.n \in Nat /\ c.off \in Nat
  BY <1>1 DEF Commands
<1>3. ASSUME NEW err \in BOOLEAN, SendAck(r, c, err)
      PROVE  acks' \in [Ranks -> Seq(Acks)]
  <2> DEFINE a == [slot |-> c.slot, file |-> c.file, err |-> err]
  <2>1. a \in Acks
    BY <1>2 DEF Acks
  <2>2. acks[r] \in Seq(Acks)
    BY DEF TypeOK
  <2>3. acks' = [acks EXCEPT ![r] = Append(@, a)]
    BY <1>3 DEF SendAck
  <2> HIDE DEF a
  <2>4. Append(acks[r], a) \in Seq(Acks)
    BY <2>1, <2>2
  <2> QED BY <2>3, <2>4 DEF TypeOK
<1>4. /\ acks' \in [Ranks -> Seq(Acks)]
      /\ failed' \in [Ranks -> BOOLEAN] /\ faults' \in 0 .. MaxFaults
      /\ disk' \in [Ranks -> [Files -> Seq(Cells)]]
      /\ \A q \in Ranks, f \in Files : Len(disk'[q][f]) >= Size[f]
  <2>1. CASE /\ disk' = [disk EXCEPT ![r][c.file] =
                           Overwritten(@, mem[r][c.slot], c.off, WriteLen(c.n))]
             /\ SendAck(r, c, FALSE)
             /\ UNCHANGED faultVars
    <3> DEFINE new == Overwritten(disk[r][c.file], mem[r][c.slot], c.off, WriteLen(c.n))
    <3>1. mem[r][c.slot] \in Buffer /\ disk[r][c.file] \in Seq(Cells)
      BY <1>2 DEF TypeOK
    <3>2. new \in Seq(Cells) /\ Len(new) >= Len(disk[r][c.file])
      BY <1>2, <3>1, WriteLenBound, OverwrittenType
    <3>3. disk' = [disk EXCEPT ![r][c.file] = new]
      BY <2>1
    <3> HIDE DEF new, c
    <3>4. /\ disk' \in [Ranks -> [Files -> Seq(Cells)]]
          /\ \A q \in Ranks, f \in Files : Len(disk'[q][f]) >= Size[f]
      <4>1. disk' \in [Ranks -> [Files -> Seq(Cells)]]
        BY <3>2, <3>3, <1>2 DEF TypeOK
      <4>2. ASSUME NEW q \in Ranks, NEW f \in Files PROVE Len(disk'[q][f]) >= Size[f]
        <5>1. Len(disk[q][f]) >= Size[f] /\ Size[f] \in Nat /\ disk[q][f] \in Seq(Cells)
          BY BroadcastAssumption DEF TypeOK
        <5>2. CASE q = r /\ f = c.file
          <6>1. disk'[q][f] = new
            BY <5>2, <3>3, <1>2 DEF TypeOK
          <6>2. Len(new) \in Nat /\ Len(disk[q][f]) \in Nat
            BY <3>2, <5>1
          <6> QED BY <6>1, <6>2, <5>1, <5>2, <3>2
        <5>3. CASE ~(q = r /\ f = c.file)
          <6>1. disk'[q][f] = disk[q][f]
            BY <5>3, <3>3, <1>2 DEF TypeOK
          <6> QED BY <6>1, <5>1
        <5> QED BY <5>2, <5>3
      <4> QED BY <4>1, <4>2
    <3>5. failed' \in [Ranks -> BOOLEAN] /\ faults' \in 0 .. MaxFaults
      BY <2>1 DEF faultVars, TypeOK
    <3> QED BY <3>4, <3>5, <2>1, <1>3
  <2>2. CASE /\ IF c.file \in files[r] THEN CallFails(r) ELSE UNCHANGED faultVars
             /\ SendAck(r, c, TRUE)
             /\ UNCHANGED disk
    <3>1. failed' \in [Ranks -> BOOLEAN] /\ faults' \in 0 .. MaxFaults
      BY <2>2, CallFailsType DEF faultVars, TypeOK
    <3>2. /\ disk' \in [Ranks -> [Files -> Seq(Cells)]]
          /\ \A q \in Ranks, f \in Files : Len(disk'[q][f]) >= Size[f]
      BY <2>2 DEF TypeOK
    <3> QED BY <3>1, <3>2, <2>2, <1>3
  <2> QED BY <2>1, <2>2 DEF WriterWrite
<1> QED BY <1>1, <1>4 DEF WriterWrite, TypeOK, cursorVars, poolVars, bcastVars

LEMMA WriterCloseType ==
  ASSUME TypeOK, NEW r \in Ranks, NEW w \in Writers, WriterClose(r, w)
  PROVE  TypeOK'
<1> DEFINE f == Head(cmds[r][w]).file
           trimmed == IF Direct THEN Truncated(disk[r][f], Size[f]) ELSE disk[r][f]
           cut == [disk EXCEPT ![r][f] = trimmed]
<1>1. Head(cmds[r][w]) \in Commands /\ cmds' \in [Ranks -> [Writers -> Seq(Commands)]]
  BY DequeueType DEF WriterClose
<1>2. f \in Files
  BY <1>1 DEF Commands
<1>3. trimmed \in Seq(Cells) /\ Len(trimmed) >= Size[f]
  <2>1. disk[r][f] \in Seq(Cells) /\ Len(disk[r][f]) >= Size[f]
    BY <1>2 DEF TypeOK
  <2>2. Size[f] \in Nat
    BY <1>2, BroadcastAssumption
  <2> DEFINE file == disk[r][f]
  <2> HIDE DEF f, file
  <2>3. Truncated(file, Size[f]) \in Seq(Cells) /\ Len(Truncated(file, Size[f])) = Size[f]
    BY <2>1, <2>2, TruncatedType DEF file
  <2>4. Len(Truncated(file, Size[f])) >= Size[f]
    BY <2>2, <2>3
  <2> QED BY <2>1, <2>3, <2>4 DEF file
<1> HIDE DEF f, trimmed
<1>4. /\ cut \in [Ranks -> [Files -> Seq(Cells)]]
      /\ \A q \in Ranks, g \in Files : Len(cut[q][g]) >= Size[g]
  BY <1>2, <1>3 DEF TypeOK
<1>5. disk' = disk \/ disk' = cut
  BY DEF WriterClose, f, trimmed
<1>6. /\ disk' \in [Ranks -> [Files -> Seq(Cells)]]
      /\ \A q \in Ranks, g \in Files : Len(disk'[q][g]) >= Size[g]
  BY <1>4, <1>5 DEF TypeOK
<1>7. files' \in [Ranks -> SUBSET Files]
  BY DEF WriterClose, TypeOK
<1>8. synced' \in [Ranks -> SUBSET Files] /\ deferred' \in [Ranks -> SUBSET Writers]
  <2>1. synced' = synced \/ synced' = [synced EXCEPT ![r] = @ \cup {f}]
    BY DEF WriterClose, f
  <2>2. deferred' = deferred \/ deferred' = [deferred EXCEPT ![r] = @ \cup {w}]
    BY DEF WriterClose
  <2>3. synced' \in [Ranks -> SUBSET Files]
    <3>1. synced \in [Ranks -> SUBSET Files] /\ synced[r] \cup {f} \in SUBSET Files
      BY <1>2 DEF TypeOK
    <3>2. [synced EXCEPT ![r] = @ \cup {f}] \in [Ranks -> SUBSET Files]
      BY <3>1
    <3> QED BY <2>1, <3>1, <3>2
  <2>4. deferred' \in [Ranks -> SUBSET Writers]
    <3>1. deferred \in [Ranks -> SUBSET Writers] /\ deferred[r] \cup {w} \in SUBSET Writers
      BY DEF TypeOK
    <3>2. [deferred EXCEPT ![r] = @ \cup {w}] \in [Ranks -> SUBSET Writers]
      BY <3>1
    <3> QED BY <2>2, <3>1, <3>2
  <2> QED BY <2>3, <2>4
<1>9. failed' \in [Ranks -> BOOLEAN] /\ faults' \in 0 .. MaxFaults
  <2>1. UNCHANGED faultVars \/ CallFails(r)
    BY DEF WriterClose
  <2> QED BY <2>1, CallFailsType DEF faultVars, TypeOK
<1> QED BY <1>1, <1>6, <1>7, <1>8, <1>9
        DEF WriterClose, TypeOK, cursorVars, poolVars, bcastVars

(* Steps that change only where a thread is and what it returned.           *)
LEMMA ControlStepType ==
  ASSUME TypeOK, NEW r \in Ranks, NEW w \in Writers,
         \/ EndPosting(r) \/ AfterDrain(r) \/ JoinWriters(r)
         \/ WriterExit(r, w) \/ MainCallFails(r) \/ Abort
  PROVE  TypeOK'
<1> USE DEF TypeOK, cursorVars, poolVars, bcastVars, fileVars, writerVars, faultVars
<1>1. CASE EndPosting(r)
  BY <1>1 DEF EndPosting
<1>2. CASE AfterDrain(r)
  BY <1>2 DEF AfterDrain
<1>3. CASE JoinWriters(r)
  BY <1>3 DEF JoinWriters, StageResult
<1>4. CASE WriterExit(r, w)
  BY <1>4 DEF WriterExit
<1>5. CASE MainCallFails(r)
  <2>1. failed' \in [Ranks -> BOOLEAN] /\ faults' \in 0 .. MaxFaults
    BY <1>5, CallFailsType DEF MainCallFails
  <2> QED BY <2>1, <1>5 DEF MainCallFails
<1>6. CASE Abort
  BY <1>6 DEF Abort
<1> QED BY <1>1, <1>2, <1>3, <1>4, <1>5, <1>6

(* Every variable keeps its type, the shard being posted is never posted    *)
(* past its end, and no file ever shrinks below its blob's length           *)
(* (drive_pipeline and writer_loop of broadcast.rs).                        *)
THEOREM TypeCorrect == Spec => []TypeOK
<1>1. TypeOK /\ [Next]_vars => TypeOK'
  <2> SUFFICES ASSUME TypeOK, [Next]_vars PROVE TypeOK'
    OBVIOUS
  <2>1. 0 \in Writers
    BY BroadcastAssumption DEF Writers
  <2>2. ASSUME NEW r \in Ranks, MainStep(r) \/ WaitAny(r) \/ MainCallFails(r)
        PROVE  TypeOK'
    BY <2>1, <2>2, StartShardType, PostChunkType, TakeAckType, CompleteType,
       ControlStepType DEF MainStep
  <2>3. ASSUME NEW r \in Ranks, NEW w \in Writers, WriterStep(r, w)
        PROVE  TypeOK'
    BY <2>3, WriterOpenType, WriterWriteType, WriterCloseType, ControlStepType
       DEF WriterStep
  <2>4. CASE Abort
    <3>1. PICK r \in Ranks : pc[r] = "err"
      BY <2>4 DEF Abort
    <3> QED BY <2>1, <2>4, ControlStepType
  <2>5. CASE UNCHANGED vars
    BY <2>5 DEF vars, TypeOK, cursorVars, poolVars, bcastVars, fileVars, writerVars, faultVars
  <2> QED BY <2>2, <2>3, <2>4, <2>5 DEF Next, Terminated
<1> QED BY InitType, <1>1, PTL DEF Spec

------------------------------------------------------------------------------
(* All ranks post the same collectives in the same order, for every plan,   *)
(* whatever the depth of their pipelines and whenever their buffers free    *)
(* up.  MPI leaves it to the caller; a mismatch would hang or corrupt.      *)

(* Agreement position by position, which a later post relies on.            *)
SameChunks ==
  \A q, r \in Ranks : \A k \in DOMAIN wire[q] \cap DOMAIN wire[r] :
    wire[q][k].shard = wire[r][k].shard /\ wire[q][k].off = wire[r][k].off

OrderInv == WireFollowsPlan /\ SameChunks

------------------------------------------------------------------------------
(* The plan's order is total: one first chunk, one chunk after another.     *)

(* The post loop of drive_pipeline determines each chunk from those before: *)
(* the next shard is unique, and so is the next offset in it.               *)
LEMMA InPlanFacts ==
  ASSUME NEW c \in Chunks, InPlan(c)
  PROVE  /\ c.shard \in 1 .. Len(Plan) /\ c.shard \in Nat
         /\ Plan[c.shard].off \in Nat /\ Plan[c.shard].len \in Nat
         /\ Plan[c.shard].len > 0
         /\ c.off \in Nat /\ c.n \in Nat
<1>1. c.shard \in 1 .. Len(Plan) /\ Len(Plan) \in Nat
  BY BroadcastAssumption DEF InPlan
<1>2. Plan[c.shard] \in Shard
  BY <1>1, PlanShard
<1>3. Plan[c.shard].off \in Nat /\ Plan[c.shard].len \in Nat
  BY <1>2 DEF Shard
<1>4. c.off \in Nat /\ c.n \in Nat
  BY DEF Chunks
<1>5. Plan[c.shard].off <= c.off /\ c.off < Plan[c.shard].off + Plan[c.shard].len
  BY DEF InPlan, ShardEnd
<1>6. Plan[c.shard].len > 0
  BY <1>3, <1>4, <1>5
<1> QED BY <1>1, <1>3, <1>4, <1>6

LEMMA NextShardUnique ==
  ASSUME NEW i \in Nat, NEW j \in 1 .. Len(Plan), NEW k \in 1 .. Len(Plan),
         i < j, i < k, Plan[j].len > 0, Plan[k].len > 0,
         NothingBetween(i, j), NothingBetween(i, k)
  PROVE  j = k
<1>1. Len(Plan) \in Nat /\ DOMAIN Plan = 1 .. Len(Plan)
  BY BroadcastAssumption
<1>2. j \in Int /\ k \in Int
  BY <1>1
<1>3. ~(j < k)
  <2> SUFFICES ASSUME j < k PROVE FALSE
    OBVIOUS
  <2>1. Plan[j].len = 0
    BY <1>1 DEF NothingBetween
  <2> QED BY <2>1
<1>4. ~(k < j)
  <2> SUFFICES ASSUME k < j PROVE FALSE
    OBVIOUS
  <2>1. Plan[k].len = 0
    BY <1>1 DEF NothingBetween
  <2> QED BY <2>1
<1> QED BY <1>2, <1>3, <1>4

LEMMA FirstUnique ==
  ASSUME NEW c \in Chunks, NEW d \in Chunks, InPlan(c), InPlan(d), First(c), First(d)
  PROVE  c.shard = d.shard /\ c.off = d.off
<1>1. c.shard = d.shard
  <2>1. 0 < c.shard /\ 0 < d.shard
    BY InPlanFacts
  <2> QED BY <2>1, InPlanFacts, NextShardUnique DEF First
<1> QED BY <1>1 DEF First

LEMMA FollowsUnique ==
  ASSUME NEW b \in Chunks, NEW c \in Chunks, InPlan(b), InPlan(c),
         b.shard = c.shard, b.off = c.off,
         NEW d \in Chunks, NEW e \in Chunks, InPlan(d), InPlan(e),
         Follows(b, d), Follows(c, e)
  PROVE  d.shard = e.shard /\ d.off = e.off
<1>1. ChunkEnd(b) = ChunkEnd(c)
  BY DEF ChunkEnd, InPlan
<1>2. ChunkEnd(b) \in Nat /\ ShardEnd(b.shard) \in Nat
  BY InPlanFacts DEF ChunkEnd, ShardEnd
<1>3. CASE ChunkEnd(b) < ShardEnd(b.shard)
  BY <1>1, <1>2, <1>3 DEF Follows
<1>4. CASE ChunkEnd(b) = ShardEnd(b.shard)
  <2>1. /\ b.shard < d.shard /\ NothingBetween(b.shard, d.shard)
        /\ d.off = Plan[d.shard].off
        /\ b.shard < e.shard /\ NothingBetween(b.shard, e.shard)
        /\ e.off = Plan[e.shard].off
    BY <1>1, <1>2, <1>4 DEF Follows
  <2>2. d.shard = e.shard
    BY <2>1, InPlanFacts, NextShardUnique
  <2> QED BY <2>1, <2>2
<1> QED BY <1>3, <1>4 DEF Follows

------------------------------------------------------------------------------
(* OrderInv is inductive, with TypeOK.                                      *)
LEMMA OrderInit == Init => OrderInv
<1> SUFFICES ASSUME Init PROVE OrderInv
  OBVIOUS
<1>1. \A r \in Ranks : wire[r] = <<>> /\ ~active[r] /\ next_plan_idx[r] = 0
  BY DEF Init
<1>2. \A r \in Ranks : CursorAtEnd(r)
  BY <1>1, BroadcastAssumption DEF CursorAtEnd, NothingBetween
<1> QED BY <1>1, <1>2 DEF OrderInv, WireFollowsPlan, SameChunks

LEMMA OrderStutter ==
  ASSUME OrderInv, UNCHANGED <<wire, next_plan_idx, active, post_offset>>
  PROVE  OrderInv'
BY DEF OrderInv, WireFollowsPlan, SameChunks, CursorAtEnd

LEMMA OrderStartShard ==
  ASSUME TypeOK, OrderInv, NEW r \in Ranks, StartShard(r)
  PROVE  OrderInv'
<1> DEFINE i == next_plan_idx[r]
<1>1. /\ ~active[r] /\ i \in Nat /\ i + 1 \in 1 .. Len(Plan)
      /\ next_plan_idx' = [next_plan_idx EXCEPT ![r] = i + 1]
      /\ post_offset' = [post_offset EXCEPT ![r] = 0]
      /\ wire' = wire
      /\ \/ Plan[i + 1].len = 0 /\ active' = active
         \/ Plan[i + 1].len # 0 /\ active' = [active EXCEPT ![r] = TRUE]
  <2>1. Len(Plan) \in Nat /\ i \in 0 .. Len(Plan) /\ i < Len(Plan)
    BY BroadcastAssumption DEF StartShard, TypeOK
  <2>2. i \in Nat /\ i + 1 \in 1 .. Len(Plan)
    BY <2>1
  <2> QED BY <2>2 DEF StartShard, bcastVars
<1>2. ASSUME NEW q \in Ranks, q # r PROVE CursorAtEnd(q)'
  <2>1. CursorAtEnd(q)
    BY DEF OrderInv, WireFollowsPlan
  <2>2. /\ next_plan_idx'[q] = next_plan_idx[q] /\ active'[q] = active[q]
        /\ post_offset'[q] = post_offset[q] /\ wire'[q] = wire[q]
    BY <1>1, <1>2 DEF TypeOK
  <2> QED BY <2>1, <2>2 DEF CursorAtEnd
<1>3. CursorAtEnd(r)'
  <2> DEFINE w == wire[r]
  <2>1. CursorAtEnd(r)
    BY DEF OrderInv, WireFollowsPlan
  <2>2. next_plan_idx'[r] = i + 1 /\ post_offset'[r] = 0 /\ wire'[r] = w
    BY <1>1 DEF TypeOK
  <2>3. /\ w = <<>> => NothingBetween(0, i + 1)
        /\ w # <<>> => /\ w[Len(w)].shard < i + 1
                       /\ NothingBetween(w[Len(w)].shard, i + 1)
                       /\ ChunkEnd(w[Len(w)]) = ShardEnd(w[Len(w)].shard)
    BY <1>1, <2>1 DEF CursorAtEnd
  <2>4. CASE Plan[i + 1].len # 0
    <3>1. active'[r]
      BY <1>1, <2>4 DEF TypeOK
    <3> QED BY <2>2, <2>3, <3>1 DEF CursorAtEnd
  <2>5. CASE Plan[i + 1].len = 0
    <3>1. ~active'[r]
      BY <1>1, <2>5
    <3>2. \A j \in Int : NothingBetween(j, i + 1) => NothingBetween(j, (i + 1) + 1)
      <4> SUFFICES ASSUME NEW j \in Int, NothingBetween(j, i + 1),
                          NEW m \in DOMAIN Plan, j < m, m < (i + 1) + 1
                   PROVE  Plan[m].len = 0
        BY DEF NothingBetween
      <4>1. m \in Int
        BY BroadcastAssumption
      <4>2. m < i + 1 \/ m = i + 1
        BY <4>1, <1>1
      <4> QED BY <4>2, <2>5 DEF NothingBetween
    <3>3. w # <<>> => w[Len(w)].shard \in Int
      <4>1. w \in Seq(Chunks)
        BY DEF TypeOK
      <4>2. w # <<>> => w[Len(w)] \in Chunks
        BY <4>1
      <4> QED BY <4>2 DEF Chunks
    <3> HIDE DEF w, i
    <3>4. /\ w = <<>> => NothingBetween(0, (i + 1) + 1)
          /\ w # <<>> => /\ w[Len(w)].shard < (i + 1) + 1
                         /\ NothingBetween(w[Len(w)].shard, (i + 1) + 1)
      BY <2>3, <3>2, <3>3, <1>1
    <3> QED BY <2>2, <2>3, <3>1, <3>4 DEF CursorAtEnd
  <2> QED BY <2>4, <2>5
<1> QED BY <1>1, <1>2, <1>3 DEF OrderInv, WireFollowsPlan, SameChunks

LEMMA OrderPostChunk ==
  ASSUME TypeOK, TypeOK', OrderInv, NEW r \in Ranks, PostChunk(r)
  PROVE  OrderInv'
<1> DEFINE i == next_plan_idx[r]
           s == Plan[i]
           n == ChunkLen(r, s)
           c == ChunkOf(r, s, n, Head(free_slots[r]))
           w == wire[r]
           k == Len(w)
<1>1. /\ active[r] /\ next_plan_idx' = next_plan_idx
      /\ wire' = [wire EXCEPT ![r] = Append(w, c)]
      /\ post_offset' = [post_offset EXCEPT ![r] = @ + n]
      /\ active' = [active EXCEPT ![r] = ~(post_offset[r] + n >= s.len)]
  BY DEF PostChunk
<1>2. w \in Seq(Chunks) /\ k \in Nat /\ DOMAIN w = 1 .. k
  BY DEF TypeOK
<1>3. /\ i \in 1 .. Len(Plan) /\ i \in Nat /\ s \in Shard
      /\ post_offset[r] \in Nat /\ post_offset[r] < s.len
      /\ s.off \in Nat /\ s.len \in Nat
  <2>1. Len(Plan) \in Nat /\ i \in 0 .. Len(Plan) /\ i > 0
    BY <1>1, BroadcastAssumption DEF TypeOK
  <2>2. i \in 1 .. Len(Plan) /\ i \in Nat
    BY <2>1
  <2>3. s \in Shard
    BY <2>2, PlanShard
  <2> QED BY <1>1, <2>2, <2>3 DEF TypeOK, Shard
<1>4. /\ n = Min2(s.len - post_offset[r], Chunk) /\ n \in Nat /\ n > 0
      /\ post_offset[r] + n <= s.len
  BY <1>3, BroadcastAssumption DEF ChunkLen, Min2
<1>5. /\ c.shard = i /\ c.file = s.file /\ c.root = s.owner
      /\ c.n = n /\ c.off = s.off + post_offset[r]
  BY DEF ChunkOf
<1>6. wire'[r] = Append(w, c) /\ \A q \in Ranks : q # r => wire'[q] = wire[q]
  BY <1>1 DEF TypeOK
<1>7. c \in Chunks
  <2>1. free_slots[r] \in Seq(Slots) /\ free_slots[r] # <<>>
    BY DEF PostChunk, TypeOK
  <2>2. Head(free_slots[r]) \in Slots
    BY <2>1
  <2> HIDE DEF n
  <2> QED BY <2>2, <1>1, PostedChunk DEF n
<1>8. InPlan(c)
  <2>1. (s.off + s.len) - (s.off + post_offset[r]) = s.len - post_offset[r]
    BY <1>3
  <2>2. s.off <= s.off + post_offset[r] /\ s.off + post_offset[r] < s.off + s.len
    BY <1>3
  <2>3. c.shard \in DOMAIN Plan
    BY <1>3, <1>5, BroadcastAssumption
  <2>4. Plan[c.shard] = s
    BY <1>5
  <2> HIDE DEF c, n, s
  <2>5. c.n = Min2((s.off + s.len) - c.off, Chunk)
    BY <1>4, <1>5, <2>1
  <2>6. ShardEnd(c.shard) = s.off + s.len
    BY <2>4 DEF ShardEnd
  <2>7. c.file = Plan[c.shard].file /\ c.root = Plan[c.shard].owner
    BY <1>5, <2>4
  <2>8. Plan[c.shard].off <= c.off /\ c.off < ShardEnd(c.shard)
    BY <1>5, <2>2, <2>4, <2>6
  <2>9. c.n = Min2(ShardEnd(c.shard) - c.off, Chunk)
    BY <2>5, <2>6
  <2> QED BY <2>3, <2>7, <2>8, <2>9 DEF InPlan
<1>9. /\ CursorAtEnd(r)
      /\ \A m \in DOMAIN w : InPlan(w[m])
      /\ w # <<>> => First(w[1])
      /\ \A m \in DOMAIN w : m > 1 => Follows(w[m - 1], w[m])
  BY DEF OrderInv, WireFollowsPlan
<1> HIDE DEF c, n, s, i
<1>10. w = <<>> => First(c)
  <2> SUFFICES ASSUME w = <<>> PROVE First(c)
    OBVIOUS
  <2>1. post_offset[r] = 0 /\ NothingBetween(0, i)
    BY <1>1, <1>3, <1>9 DEF CursorAtEnd, i
  <2> QED BY <2>1, <1>3, <1>5 DEF First, s
<1>11. w # <<>> => Follows(w[k], c)
  <2> SUFFICES ASSUME w # <<>> PROVE Follows(w[k], c)
    OBVIOUS
  <2>1. CASE post_offset[r] > 0
    <3>1. w[k].shard = i /\ ChunkEnd(w[k]) = s.off + post_offset[r]
      BY <2>1, <1>1, <1>9 DEF CursorAtEnd, i, s
    <3>2. s.off + post_offset[r] < s.off + s.len
      BY <1>3
    <3> QED BY <3>1, <3>2, <1>5 DEF Follows, ShardEnd, s
  <2>2. CASE post_offset[r] = 0
    <3>1. /\ w[k].shard < i /\ NothingBetween(w[k].shard, i)
          /\ ChunkEnd(w[k]) = ShardEnd(w[k].shard)
      BY <2>2, <1>1, <1>9 DEF CursorAtEnd, i
    <3> QED BY <3>1, <2>2, <1>3, <1>5 DEF Follows, s
  <2> QED BY <2>1, <2>2, <1>3
<1>12. /\ Len(Append(w, c)) = k + 1 /\ Append(w, c)[k + 1] = c
       /\ \A m \in 1 .. k : Append(w, c)[m] = w[m]
       /\ DOMAIN Append(w, c) = 1 .. k + 1 /\ Append(w, c) # <<>>
  BY <1>2, <1>7
<1> DEFINE v == Append(w, c)
<1>13. /\ \A m \in DOMAIN v : InPlan(v[m])
       /\ First(v[1])
       /\ \A m \in DOMAIN v : m > 1 => Follows(v[m - 1], v[m])
  <2>1. ASSUME NEW m \in 1 .. k + 1 PROVE InPlan(v[m])
    <3>1. m \in 1 .. k \/ m = k + 1
      BY <1>2
    <3> QED BY <3>1, <1>2, <1>8, <1>9, <1>12
  <2>2. First(v[1])
    <3>1. CASE k = 0
      BY <3>1, <1>2, <1>10, <1>12
    <3>2. CASE k # 0
      BY <3>2, <1>2, <1>9, <1>12
    <3> QED BY <3>1, <3>2
  <2>3. ASSUME NEW m \in 1 .. k + 1, m > 1 PROVE Follows(v[m - 1], v[m])
    <3>1. CASE m = k + 1
      <4>1. k \in 1 .. k /\ w # <<>> /\ m - 1 = k
        BY <2>3, <3>1, <1>2
      <4> QED BY <4>1, <3>1, <1>11, <1>12
    <3>2. CASE m # k + 1
      <4>1. m \in 1 .. k /\ m - 1 \in 1 .. k
        BY <2>3, <3>2, <1>2
      <4> QED BY <4>1, <2>3, <1>2, <1>9, <1>12
    <3> QED BY <3>1, <3>2
  <2> QED BY <2>1, <2>2, <2>3, <1>12
<1>14. CursorAtEnd(r)'
  <2>1. /\ next_plan_idx'[r] = i /\ wire'[r] = v /\ v # <<>> /\ v[Len(v)] = c
        /\ post_offset'[r] = post_offset[r] + n
        /\ active'[r] = ~(post_offset[r] + n >= s.len)
    BY <1>1, <1>6, <1>12 DEF TypeOK, i
  <2>2. ChunkEnd(c) = s.off + (post_offset[r] + n)
    BY <1>3, <1>4, <1>5 DEF ChunkEnd
  <2>3. CASE post_offset[r] + n >= s.len
    <3>1. post_offset[r] + n = s.len
      BY <2>3, <1>3, <1>4
    <3>2. NothingBetween(i, i + 1) /\ i < i + 1
      <4>1. \A m \in DOMAIN Plan : m \in Int
        BY BroadcastAssumption
      <4> QED BY <4>1, <1>3 DEF NothingBetween
    <3>3. ChunkEnd(c) = ShardEnd(i)
      BY <2>2, <3>1 DEF ShardEnd, s
    <3> HIDE DEF v
    <3> QED BY <2>1, <2>3, <3>2, <3>3, <1>5 DEF CursorAtEnd
  <2>4. CASE ~(post_offset[r] + n >= s.len)
    <3>1. post_offset[r] + n > 0
      BY <1>3, <1>4
    <3> HIDE DEF v
    <3> QED BY <2>1, <2>2, <2>4, <3>1, <1>5 DEF CursorAtEnd, s
  <2> QED BY <2>3, <2>4
<1>15. WireFollowsPlan'
  <2> SUFFICES ASSUME NEW q \in Ranks
               PROVE  /\ \A m \in DOMAIN wire'[q] : InPlan(wire'[q][m])
                      /\ wire'[q] # <<>> => First(wire'[q][1])
                      /\ \A m \in DOMAIN wire'[q] :
                           m > 1 => Follows(wire'[q][m - 1], wire'[q][m])
                      /\ CursorAtEnd(q)'
    BY DEF WireFollowsPlan, InPlan, First, Follows, NothingBetween, ChunkEnd, ShardEnd
  <2>1. CASE q = r
    BY <2>1, <1>6, <1>13, <1>14
  <2>2. CASE q # r
    <3>1. /\ wire'[q] = wire[q] /\ next_plan_idx'[q] = next_plan_idx[q]
          /\ active'[q] = active[q] /\ post_offset'[q] = post_offset[q]
      BY <2>2, <1>1, <1>6 DEF TypeOK
    <3>2. CursorAtEnd(q)'
      BY <3>1 DEF OrderInv, WireFollowsPlan, CursorAtEnd
    <3> QED BY <3>1, <3>2 DEF OrderInv, WireFollowsPlan
  <2> QED BY <2>1, <2>2
<1>16. ASSUME NEW q \in Ranks, q # r, NEW m \in DOMAIN v \cap DOMAIN wire[q]
       PROVE  v[m].shard = wire[q][m].shard /\ v[m].off = wire[q][m].off
  <2>1. /\ wire[q] \in Seq(Chunks)
        /\ \A x \in DOMAIN wire[q] : InPlan(wire[q][x])
        /\ wire[q] # <<>> => First(wire[q][1])
        /\ \A x \in DOMAIN wire[q] : x > 1 => Follows(wire[q][x - 1], wire[q][x])
    BY DEF TypeOK, OrderInv, WireFollowsPlan
  <2>2. m \in 1 .. k + 1 /\ m \in 1 .. Len(wire[q]) /\ Len(wire[q]) \in Nat
    BY <1>12, <2>1
  <2>3. wire[q][m] \in Chunks /\ InPlan(wire[q][m])
    BY <2>1, <2>2
  <2>4. CASE m # k + 1
    <3>1. m \in DOMAIN w
      BY <2>2, <2>4, <1>2
    <3>2. w[m].shard = wire[q][m].shard /\ w[m].off = wire[q][m].off
      BY <3>1 DEF OrderInv, SameChunks
    <3>3. v[m] = w[m]
      BY <3>1, <1>2, <1>12
    <3> QED BY <3>2, <3>3
  <2>5. CASE m = k + 1 /\ k = 0
    <3>1. w = <<>> /\ m = 1 /\ wire[q] # <<>>
      BY <2>5, <2>1, <2>2, <1>2
    <3>2. First(c) /\ First(wire[q][m])
      BY <3>1, <2>1, <1>10
    <3>3. c.shard = wire[q][m].shard /\ c.off = wire[q][m].off
      BY <3>2, <2>3, <1>7, <1>8, FirstUnique
    <3> QED BY <3>3, <2>5, <1>12
  <2>6. CASE m = k + 1 /\ k # 0
    <3>1. k \in DOMAIN w /\ k \in DOMAIN wire[q] /\ m > 1 /\ m - 1 = k /\ w # <<>>
      BY <2>6, <2>1, <2>2, <1>2
    <3>2. w[k].shard = wire[q][k].shard /\ w[k].off = wire[q][k].off
      BY <3>1 DEF OrderInv, SameChunks
    <3>3. /\ w[k] \in Chunks /\ InPlan(w[k]) /\ Follows(w[k], c)
          /\ wire[q][k] \in Chunks /\ InPlan(wire[q][k])
          /\ Follows(wire[q][k], wire[q][m])
      BY <3>1, <2>1, <2>2, <1>2, <1>9, <1>11
    <3>4. c.shard = wire[q][m].shard /\ c.off = wire[q][m].off
      BY <3>2, <3>3, <2>3, <1>7, <1>8, FollowsUnique
    <3> QED BY <3>4, <2>6, <1>12
  <2> QED BY <2>2, <2>4, <2>5, <2>6
<1>17. SameChunks'
  <2> SUFFICES ASSUME NEW p \in Ranks, NEW q \in Ranks,
                      NEW m \in DOMAIN wire'[p] \cap DOMAIN wire'[q]
               PROVE  wire'[p][m].shard = wire'[q][m].shard /\ wire'[p][m].off = wire'[q][m].off
    BY DEF SameChunks
  <2>1. CASE p = r /\ q = r
    BY <2>1
  <2>2. CASE p = r /\ q # r
    BY <2>2, <1>6, <1>16
  <2>3. CASE p # r /\ q = r
    BY <2>3, <1>6, <1>16
  <2>4. CASE p # r /\ q # r
    BY <2>4, <1>6 DEF OrderInv, SameChunks
  <2> QED BY <2>1, <2>2, <2>3, <2>4
<1> QED BY <1>15, <1>17 DEF OrderInv

LEMMA OrderStep == TypeOK /\ TypeOK' /\ OrderInv /\ [Next]_vars => OrderInv'
<1> SUFFICES ASSUME TypeOK, TypeOK', OrderInv, [Next]_vars PROVE OrderInv'
  OBVIOUS
<1> USE DEF cursorVars, bcastVars
<1>1. ASSUME NEW r \in Ranks, MainStep(r) PROVE OrderInv'
  <2>1. CASE StartShard(r)
    BY <2>1, OrderStartShard
  <2>2. CASE PostChunk(r)
    BY <2>2, OrderPostChunk
  <2>3. CASE EndPosting(r) \/ TakeAck(r) \/ AfterDrain(r) \/ JoinWriters(r)
    BY <2>3, OrderStutter DEF EndPosting, TakeAck, AfterDrain, JoinWriters
  <2> QED BY <1>1, <2>1, <2>2, <2>3 DEF MainStep
<1>2. ASSUME NEW r \in Ranks, WaitAny(r) \/ MainCallFails(r) PROVE OrderInv'
  BY <1>2, OrderStutter DEF WaitAny, Complete, MainCallFails
<1>3. ASSUME NEW r \in Ranks, NEW w \in Writers, WriterStep(r, w) PROVE OrderInv'
  BY <1>3, OrderStutter DEF WriterStep, WriterOpen, WriterWrite, WriterClose, WriterExit
<1>4. CASE Abort
  BY <1>4, OrderStutter DEF Abort
<1>5. CASE UNCHANGED vars
  BY <1>5, OrderStutter DEF vars
<1> QED BY <1>1, <1>2, <1>3, <1>4, <1>5 DEF Next, Terminated

(* A rank's posts are exactly the plan up to its cursor: no chunk is        *)
(* skipped, repeated or out of turn (the post loop of drive_pipeline).      *)
THEOREM WireFollowsPlanAlways == Spec => []WireFollowsPlan
<1>1. Init => TypeOK /\ OrderInv
  BY InitType, OrderInit
<1>2. OrderInv => WireFollowsPlan
  BY DEF OrderInv
<1> QED BY <1>1, <1>2, TypeCorrect, OrderInit, OrderStep, PTL DEF Spec

(* Any two ranks agree on root and length of the k-th collective chunk,     *)
(* which is all MPI matches them by (the Ibcast posts of drive_pipeline).   *)
THEOREM CollectivesMatchAlways == Spec => []CollectivesMatch
<1>1. TypeOK /\ OrderInv => CollectivesMatch
  <2> SUFFICES ASSUME TypeOK, OrderInv, NEW q \in Ranks, NEW r \in Ranks,
                      NEW k \in DOMAIN wire[q] \cap DOMAIN wire[r]
               PROVE  wire[q][k].root = wire[r][k].root /\ wire[q][k].n = wire[r][k].n
    BY DEF CollectivesMatch
  <2>1. wire[q][k].shard = wire[r][k].shard /\ wire[q][k].off = wire[r][k].off
    BY DEF OrderInv, SameChunks
  <2>2. InPlan(wire[q][k]) /\ InPlan(wire[r][k])
    BY DEF OrderInv, WireFollowsPlan
  <2> QED BY <2>1, <2>2 DEF InPlan
<1> QED BY <1>1, TypeCorrect, OrderInit, OrderStep, PTL DEF Spec

------------------------------------------------------------------------------
(* The buffers and the data.  Where each rank's buffers are (Pool), and     *)
(* what is in them (Data): a buffer is free, or under the collectives of    *)
(* one chunk, or with the writers, never two of these; so nothing writes    *)
(* over data that is still to be sent or stored, and each step of a chunk,  *)
(* from the owner's disk to the receiver's, finds what the one before left. *)
(* FlowInv is inductive with TypeOK.                                        *)
(* Where the main thread is, by what it has done.                           *)
Control(r) ==
  /\ result[r] = "err" => pc[r] \in {"join", "err", "aborted"}
  /\ pc[r] \in {"join", "ok"} /\ result[r] = "ok" => AllDone(r)
  /\ pc[r] = "ok" => result[r] = "ok" /\ deferred[r] = {} /\ exited[r] = Writers
  /\ exited[r] # {} => pc[r] \in {"join", "ok", "err", "aborted"}
  /\ \A w \in exited[r] : cmds[r][w] = <<>>

(* The Write commands in the queues of a rank, and the buffers with its     *)
(* writers, each with the file it is for: queued, or on its way back.       *)
OnWriter(Q, A, s, f) ==
  \/ \E w \in Writers : \E i \in DOMAIN Q[w] :
       Q[w][i].kind = "write" /\ Q[w][i].slot = s /\ Q[w][i].file = f
  \/ \E i \in DOMAIN A : A[i].slot = s /\ A[i].file = f

(* No buffer is in two Write commands or acknowledgements.                  *)
OnceIn(Q, A) ==
  /\ \A v, w \in Writers : \A i \in DOMAIN Q[v], j \in DOMAIN Q[w] :
       (/\ Q[v][i].kind = "write" /\ Q[w][j].kind = "write"
        /\ Q[v][i].slot = Q[w][j].slot) => v = w /\ i = j
  /\ \A i, j \in DOMAIN A : A[i].slot = A[j].slot => i = j
  /\ \A w \in Writers : \A i \in DOMAIN Q[w], j \in DOMAIN A :
       Q[w][i].kind = "write" => Q[w][i].slot # A[j].slot
HasWriter(r, s) == \E f \in Files : OnWriter(cmds[r], acks[r], s, f)

(* Every buffer is free, under the collectives of one chunk, or with the    *)
(* writers; and the counters say so.                                        *)
Pool(r) == result[r] = "ok" =>
  /\ IsFiniteSet(in_flight[r])
  /\ OnceIn(cmds[r], acks[r])
  /\ \A i, j \in DOMAIN free_slots[r] : free_slots[r][i] = free_slots[r][j] => i = j
  /\ \A d, e \in in_flight[r] : wire[r][d[1]].slot = wire[r][e[1]].slot => d[1] = e[1]
  /\ \A s \in Slots :
       /\ subs[r][s] = Cardinality(Flying(r, s))
       /\ home[r][s] = ~HasWriter(r, s)
       /\ IsFree(r, s) = (home[r][s] /\ Flying(r, s) = {})
       /\ Flying(r, s) # {} => home[r][s]
  /\ writes_pending[r] = Cardinality({s \in Slots : ~home[r][s]})

------------------------------------------------------------------------------
(* Data.                                                                    *)
Fits(c) ==
  /\ c.n \in 1 .. Chunk /\ c.off + c.n <= Size[c.file]
  /\ c.n = Chunk \/ c.off + c.n = Size[c.file]

(* A posted chunk lies in its file, and only a file's last chunk is short;  *)
(* at its owner the collective carries the source's units.                  *)
WireData(r) == \A k \in DOMAIN wire[r] :
  /\ Fits(wire[r][k]) /\ wire[r][k].off % Chunk = 0
  /\ wire[r][k].root = r =>
       \A i \in 1 .. wire[r][k].n : wire[r][k].buf[i] = <<wire[r][k].file, wire[r][k].off + i>>

(* Unit i of chunk k has been in the buffer of rank r since the owner       *)
(* filled it, or since its sub-broadcast completed.                         *)
Arrived(r, k, i) ==
  \/ wire[r][k].root = r
  \/ \E j \in 1 .. SubCount(wire[r][k].n) : InSub(j, i) /\ <<k, j>> \notin in_flight[r]

(* What has arrived of a chunk under its collectives is in its buffer.      *)
FlyingData(r) == result[r] = "ok" =>
  \A e \in in_flight[r] :
    \A i \in 1 .. wire[r][e[1]].n : Arrived(r, e[1], i) =>
      mem[r][wire[r][e[1]].slot][i] = <<wire[r][e[1]].file, wire[r][e[1]].off + i>>

(* What a queued Write is to store is still in its buffer.                  *)
QueuedData(r) == \A w \in Writers : \A i \in DOMAIN cmds[r][w] :
  LET c == cmds[r][w][i]
  IN c.kind = "write" =>
     /\ Fits(c)
     /\ \A p \in 1 .. c.n : mem[r][c.slot][p] = <<c.file, c.off + p>>

(* Unit p of file f at rank r is the source's.                              *)
Right(r, f, p) == disk[r][f][p] = <<f, p>>

(* The shards of its owner are on its disk from the start: the download     *)
(* stage wrote them.                                                        *)
OwnedIntact(r) == \A i \in DOMAIN Plan : Plan[i].owner = r =>
    \A p \in Plan[i].off + 1 .. Plan[i].off + Plan[i].len :
      disk[r][Plan[i].file][p] = <<Plan[i].file, p>>

(* The cursor in a shard stands at the beginning of a chunk.                *)
CursorAligned(r) == active[r] => post_offset[r] % Chunk = 0

Data(r) == WireData(r) /\ FlyingData(r) /\ QueuedData(r) /\ OwnedIntact(r) /\ CursorAligned(r)

ControlInv == \A r \in Ranks : Control(r)
PoolInv == \A r \in Ranks : Pool(r)
DataInv == \A r \in Ranks : Data(r)
------------------------------------------------------------------------------
(* Sequences and queues.                                                    *)

(* Sequences: what Append and Tail do to the elements.                      *)
LEMMA AppendFacts ==
  ASSUME NEW S, NEW s \in Seq(S), NEW e \in S
  PROVE  /\ Len(s) \in Nat /\ DOMAIN s = 1 .. Len(s)
         /\ Append(s, e) \in Seq(S) /\ Append(s, e) # <<>>
         /\ DOMAIN Append(s, e) = 1 .. Len(s) + 1
         /\ \A i \in DOMAIN s : Append(s, e)[i] = s[i]
         /\ Append(s, e)[Len(s) + 1] = e
OBVIOUS

LEMMA TailFacts ==
  ASSUME NEW S, NEW s \in Seq(S), s # <<>>
  PROVE  /\ Len(s) \in Nat \ {0} /\ DOMAIN s = 1 .. Len(s)
         /\ Head(s) = s[1] /\ Head(s) \in S
         /\ Tail(s) \in Seq(S) /\ DOMAIN Tail(s) = 1 .. Len(s) - 1
         /\ \A i \in DOMAIN Tail(s) : i + 1 \in DOMAIN s /\ Tail(s)[i] = s[i + 1]
OBVIOUS

(* A command is put behind the others of its file's writer.                 *)
LEMMA EnqueueFacts ==
  ASSUME NEW Q \in [Writers -> Seq(Commands)], NEW cmd \in Commands,
         NEW v, v = WriterOf(cmd.file), NEW E, E = Enqueue(Q, cmd)
  PROVE  /\ v \in Writers /\ Len(Q[v]) \in Nat
         /\ E \in [Writers -> Seq(Commands)]
         /\ \A w \in Writers : w # v => E[w] = Q[w]
         /\ E[v] = Append(Q[v], cmd)
         /\ DOMAIN Q[v] = 1 .. Len(Q[v])
         /\ DOMAIN E[v] = 1 .. Len(Q[v]) + 1
         /\ \A w \in Writers : \A i \in DOMAIN Q[w] : i \in DOMAIN E[w] /\ E[w][i] = Q[w][i]
         /\ E[v][Len(Q[v]) + 1] = cmd
         /\ \A w \in Writers : \A i \in DOMAIN E[w] :
              i \in DOMAIN Q[w] \/ (w = v /\ i = Len(Q[v]) + 1)
<1>1. v \in Writers
  BY WriterExists DEF Commands
<1>2. Q[v] \in Seq(Commands)
  BY <1>1
<1>3. E \in [Writers -> Seq(Commands)]
  BY EnqueueType
<1>4. E[v] = Append(Q[v], cmd) /\ \A w \in Writers : w # v => E[w] = Q[w]
  BY <1>1 DEF Enqueue
<1>5. /\ Len(Q[v]) \in Nat /\ DOMAIN Q[v] = 1 .. Len(Q[v])
      /\ DOMAIN E[v] = 1 .. Len(Q[v]) + 1
      /\ \A i \in DOMAIN Q[v] : E[v][i] = Q[v][i]
      /\ E[v][Len(Q[v]) + 1] = cmd
  BY <1>2, <1>4, AppendFacts
<1>6. ASSUME NEW w \in Writers, NEW i \in DOMAIN Q[w]
      PROVE  i \in DOMAIN E[w] /\ E[w][i] = Q[w][i]
  <2>1. CASE w = v
    BY <2>1, <1>5
  <2>2. CASE w # v
    BY <2>2, <1>4
  <2> QED BY <2>1, <2>2
<1>7. \A w \in Writers : \A i \in DOMAIN E[w] :
        i \in DOMAIN Q[w] \/ (w = v /\ i = Len(Q[v]) + 1)
  BY <1>4, <1>5
<1> QED BY <1>1, <1>3, <1>4, <1>5, <1>6, <1>7

(* A writer takes the first command of its queue.                           *)
LEMMA DequeueFacts ==
  ASSUME TypeOK, NEW r \in Ranks, NEW w \in Writers, NEW kind, Dequeue(r, w, kind)
  PROVE  /\ cmds[r] \in [Writers -> Seq(Commands)] /\ cmds'[r] \in [Writers -> Seq(Commands)]
         /\ \A v \in Writers : v # w => cmds'[r][v] = cmds[r][v]
         /\ cmds[r][w] # <<>> /\ 1 \in DOMAIN cmds[r][w] /\ Len(cmds[r][w]) \in Nat
         /\ DOMAIN cmds[r][w] = 1 .. Len(cmds[r][w])
         /\ Head(cmds[r][w]) = cmds[r][w][1] /\ Head(cmds[r][w]) \in Commands /\ cmds[r][w][1].kind = kind
         /\ DOMAIN cmds'[r][w] = 1 .. Len(cmds[r][w]) - 1
         /\ \A i \in DOMAIN cmds'[r][w] : i + 1 \in DOMAIN cmds[r][w] /\ cmds'[r][w][i] = cmds[r][w][i + 1]
         /\ \A i \in DOMAIN cmds[r][w] : i # 1 =>
              i - 1 \in DOMAIN cmds'[r][w] /\ cmds'[r][w][i - 1] = cmds[r][w][i]
         /\ \A q \in Ranks : q # r => cmds'[q] = cmds[q]
<1> DEFINE Q == cmds[r]
           P == cmds'[r]
<1>1. /\ Q \in [Writers -> Seq(Commands)] /\ Q[w] # <<>> /\ Q[w] \in Seq(Commands)
      /\ P = [Q EXCEPT ![w] = Tail(@)] /\ Head(Q[w]).kind = kind
      /\ \A q \in Ranks : q # r => cmds'[q] = cmds[q]
  BY DEF Dequeue, TypeOK
<1>2. /\ Len(Q[w]) \in Nat \ {0} /\ DOMAIN Q[w] = 1 .. Len(Q[w])
      /\ Head(Q[w]) = Q[w][1] /\ Head(Q[w]) \in Commands
      /\ Tail(Q[w]) \in Seq(Commands) /\ DOMAIN Tail(Q[w]) = 1 .. Len(Q[w]) - 1
      /\ \A i \in DOMAIN Tail(Q[w]) : i + 1 \in DOMAIN Q[w] /\ Tail(Q[w])[i] = Q[w][i + 1]
  BY <1>1, TailFacts
<1>3. P[w] = Tail(Q[w]) /\ P \in [Writers -> Seq(Commands)]
      /\ \A v \in Writers : v # w => P[v] = Q[v]
  BY <1>1, <1>2
<1>4. \A i \in DOMAIN Q[w] : i # 1 => i - 1 \in DOMAIN P[w] /\ P[w][i - 1] = Q[w][i]
  <2> SUFFICES ASSUME NEW i \in DOMAIN Q[w], i # 1
               PROVE  i - 1 \in DOMAIN P[w] /\ P[w][i - 1] = Q[w][i]
    OBVIOUS
  <2>1. i - 1 \in 1 .. Len(Q[w]) - 1 /\ (i - 1) + 1 = i
    BY <1>2
  <2> QED BY <2>1, <1>2, <1>3
<1>5. 1 \in DOMAIN Q[w]
  BY <1>2
<1> QED BY <1>1, <1>2, <1>3, <1>4, <1>5

(* A FileState once maybe_close_file has sent the CloseFile.                *)
AsClosed(st) == [st EXCEPT !.closed = TRUE]

(* What maybe_close_file may add to the queues is one CloseFile.            *)
LEMMA MaybeCloseEffect ==
  ASSUME TypeOK, NEW r \in Ranks, NEW f \in Files, NEW st \in FileStates,
         NEW Q \in [Writers -> Seq(Commands)], MaybeCloseFile(r, f, st, Q)
  PROVE  /\ \/ /\ MayClose(f, st)
               /\ cmds'[r] = Enqueue(Q, CloseFile(f))
               /\ file_state'[r][f] = AsClosed(st)
            \/ /\ ~MayClose(f, st)
               /\ cmds'[r] = Q
               /\ file_state'[r][f] = st
         /\ \A g \in Files : g # f => file_state'[r][g] = file_state[r][g]
         /\ \A q \in Ranks : q # r => cmds'[q] = cmds[q] /\ file_state'[q] = file_state[q]
<1>1. /\ file_state \in [Ranks -> [Files -> FileStates]]
      /\ cmds \in [Ranks -> [Writers -> Seq(Commands)]]
  BY DEF TypeOK
<1>2. CASE MayClose(f, st)
  <2> DEFINE st1 == AsClosed(st)
             Q1 == Enqueue(Q, CloseFile(f))
  <2>1. file_state' = [file_state EXCEPT ![r][f] = st1] /\ cmds' = [cmds EXCEPT ![r] = Q1]
    BY <1>2 DEF MaybeCloseFile, AsClosed
  <2> HIDE DEF st1, Q1
  <2>2. /\ cmds'[r] = Q1 /\ file_state'[r][f] = st1
        /\ \A g \in Files : g # f => file_state'[r][g] = file_state[r][g]
        /\ \A q \in Ranks : q # r => cmds'[q] = cmds[q] /\ file_state'[q] = file_state[q]
    BY <2>1, <1>1
  <2> QED BY <2>2, <1>2 DEF st1, Q1
<1>3. CASE ~MayClose(f, st)
  BY <1>1, <1>3 DEF MaybeCloseFile
<1> QED BY <1>2, <1>3

(* A step that leaves a rank's part of the state alone, but for pc.         *)
SameRank(q) ==
  /\ result'[q] = result[q] /\ next_plan_idx'[q] = next_plan_idx[q]
  /\ active'[q] = active[q] /\ post_offset'[q] = post_offset[q]
  /\ free_slots'[q] = free_slots[q] /\ home'[q] = home[q]
  /\ writes_pending'[q] = writes_pending[q] /\ in_flight'[q] = in_flight[q]
  /\ subs'[q] = subs[q] /\ mem'[q] = mem[q] /\ wire'[q] = wire[q]
  /\ file_state'[q] = file_state[q] /\ cmds'[q] = cmds[q] /\ acks'[q] = acks[q]
  /\ files'[q] = files[q] /\ deferred'[q] = deferred[q] /\ exited'[q] = exited[q]
  /\ disk'[q] = disk[q] /\ synced'[q] = synced[q] /\ failed'[q] = failed[q]

WritersStep(r, w) ==
  WriterOpen(r, w) \/ WriterWrite(r, w) \/ WriterClose(r, w) \/ WriterExit(r, w)

Aborted(q) == SameRank(q) /\ pc'[q] = IF pc[q] = "ok" THEN "ok" ELSE "aborted"
Idle(q) == SameRank(q) /\ pc'[q] = pc[q]

(* Only maybe_close_file's caller's rank has its files and queues changed.  *)
LEMMA MaybeCloseOthers ==
  ASSUME TypeOK, NEW r \in Ranks, NEW q \in Ranks, q # r, NEW f, NEW st, NEW Q,
         MaybeCloseFile(r, f, st, Q)
  PROVE  cmds'[q] = cmds[q] /\ file_state'[q] = file_state[q]
<1>1. file_state \in [Ranks -> [Files -> FileStates]] /\ cmds \in [Ranks -> [Writers -> Seq(Commands)]]
  BY DEF TypeOK
<1>2. \A x : [file_state EXCEPT ![r][f] = x][q] = file_state[q]
  BY <1>1
<1>3. \A x : [cmds EXCEPT ![r] = x][q] = cmds[q]
  BY <1>1
<1>4. CASE MayClose(f, st)
  <2>1. /\ file_state' = [file_state EXCEPT ![r][f] = [st EXCEPT !.closed = TRUE]]
        /\ cmds' = [cmds EXCEPT ![r] = Enqueue(Q, CloseFile(f))]
    BY <1>4, Zenon DEF MaybeCloseFile
  <2> QED BY <2>1, <1>2, <1>3, Zenon
<1>5. CASE ~MayClose(f, st)
  <2>1. /\ file_state' = [file_state EXCEPT ![r][f] = st]
        /\ cmds' = [cmds EXCEPT ![r] = Q]
    BY <1>5, Zenon DEF MaybeCloseFile
  <2> QED BY <2>1, <1>2, <1>3, Zenon
<1> QED BY <1>4, <1>5

(* A step of one rank leaves the others as they are.                        *)
LEMMA OthersIdle ==
  ASSUME TypeOK, NEW r \in Ranks, NEW q \in Ranks, q # r,
         \/ MainStep(r) \/ WaitAny(r) \/ MainCallFails(r)
         \/ \E w \in Writers : WritersStep(r, w)
  PROVE  Idle(q)
<1> USE DEF Idle, SameRank, cursorVars, poolVars, bcastVars, fileVars, writerVars, faultVars
<1> DEFINE T == /\ pc \in [Ranks -> {"post", "drain", "recv", "wait", "join", "ok", "err", "aborted"}]
                /\ result \in [Ranks -> {"ok", "err"}]
                /\ next_plan_idx \in [Ranks -> 0 .. Len(Plan)]
                /\ active \in [Ranks -> BOOLEAN]
                /\ post_offset \in [Ranks -> Nat]
                /\ free_slots \in [Ranks -> Seq(Slots)]
                /\ home \in [Ranks -> [Slots -> BOOLEAN]]
                /\ writes_pending \in [Ranks -> Int]
                /\ in_flight \in [Ranks -> SUBSET (Nat \X Nat)]
                /\ subs \in [Ranks -> [Slots -> Int]]
                /\ mem \in [Ranks -> [Slots -> Buffer]]
                /\ wire \in [Ranks -> Seq(Chunks)]
                /\ file_state \in [Ranks -> [Files -> FileStates]]
                /\ cmds \in [Ranks -> [Writers -> Seq(Commands)]]
                /\ acks \in [Ranks -> Seq(Acks)]
                /\ files \in [Ranks -> SUBSET Files]
                /\ deferred \in [Ranks -> SUBSET Writers]
                /\ exited \in [Ranks -> SUBSET Writers]
                /\ disk \in [Ranks -> [Files -> Seq(Cells)]]
                /\ synced \in [Ranks -> SUBSET Files]
                /\ failed \in [Ranks -> BOOLEAN]
<1>0. T
  BY DEF TypeOK
<1>1. CASE StartShard(r)
  <2> DEFINE s == Plan[next_plan_idx[r] + 1]
             st == file_state[r][s.file]
             opens == NeedsWrite(r, s.file) /\ ~st.opened
             st1 == [st EXCEPT !.opened = @ \/ opens]
             Q == IF opens THEN Enqueue(cmds[r], OpenFile(s.file)) ELSE cmds[r]
  <2>1. \/ MaybeCloseFile(r, s.file, [st1 EXCEPT !.shards_posted = @ + 1], Q)
        \/ /\ file_state' = [file_state EXCEPT ![r][s.file] = st1]
           /\ cmds' = [cmds EXCEPT ![r] = Q]
    BY <1>1, Zenon DEF StartShard
  <2> HIDE DEF st1, Q, s
  <2>2. cmds'[q] = cmds[q] /\ file_state'[q] = file_state[q]
    BY <2>1, <1>0, MaybeCloseOthers
  <2> QED BY <1>0, <1>1, <2>2 DEF StartShard
<1>2. CASE PostChunk(r)
  <2> DEFINE s == Plan[next_plan_idx[r]]
             st == [file_state[r][s.file] EXCEPT !.chunks_in_flight = @ + 1]
             st1 == [st EXCEPT !.shards_posted = @ + 1]
  <2>1. \/ MaybeCloseFile(r, s.file, st1, cmds[r])
        \/ /\ file_state' = [file_state EXCEPT ![r][s.file] = st]
           /\ cmds' = cmds
    BY <1>2, Zenon DEF PostChunk
  <2> HIDE DEF st, st1, s
  <2>2. cmds'[q] = cmds[q] /\ file_state'[q] = file_state[q]
    BY <2>1, <1>0, MaybeCloseOthers
  <2> QED BY <1>0, <1>2, <2>2 DEF PostChunk
<1>3. CASE TakeAck(r)
  <2> DEFINE a == Head(acks[r])
             st == [file_state[r][a.file] EXCEPT !.writes_in_flight = @ - 1]
  <2>1. MaybeCloseFile(r, a.file, st, cmds[r]) \/ UNCHANGED <<file_state, cmds>>
    BY <1>3, Zenon DEF TakeAck
  <2> HIDE DEF st, a
  <2>2. cmds'[q] = cmds[q] /\ file_state'[q] = file_state[q]
    BY <2>1, <1>0, MaybeCloseOthers
  <2> QED BY <1>0, <1>3, <2>2, SMTT(30) DEF TakeAck
<1>4. CASE WaitAny(r)
  <2>1. PICK e \in in_flight[r] : Complete(r, e[1], e[2])
    BY <1>4 DEF WaitAny
  <2> DEFINE c == wire[r][e[1]]
             st == [file_state[r][c.file] EXCEPT !.chunks_in_flight = @ - 1]
             st1 == [st EXCEPT !.writes_in_flight = @ + 1]
  <2>2. \/ MaybeCloseFile(r, c.file, st, cmds[r])
        \/ MaybeCloseFile(r, c.file, st1, Enqueue(cmds[r], Write(c)))
        \/ UNCHANGED <<file_state, cmds>>
    BY <2>1, Zenon DEF Complete
  <2> HIDE DEF st, st1, c
  <2>3. cmds'[q] = cmds[q] /\ file_state'[q] = file_state[q]
    BY <2>2, <1>0, MaybeCloseOthers
  <2> QED BY <1>0, <2>1, <2>3 DEF Complete
<1>5. CASE EndPosting(r) \/ AfterDrain(r) \/ JoinWriters(r) \/ MainCallFails(r)
  BY <1>0, <1>5, SMTT(30) DEF EndPosting, AfterDrain, JoinWriters, MainCallFails, CallFails
<1>6. CASE \E w \in Writers : WritersStep(r, w)
  <2>1. PICK w \in Writers : WritersStep(r, w)
    BY <1>6
  <2>2. CASE WriterOpen(r, w)
    BY <1>0, <2>2 DEF WriterOpen, Dequeue
  <2>3. CASE WriterWrite(r, w)
    <3> DEFINE c == Head(cmds[r][w])
               written == Overwritten(disk[r][c.file], mem[r][c.slot], c.off, WriteLen(c.n))
    <3>1. disk'[q] = disk[q]
      <4>1. disk' = disk \/ disk' = [disk EXCEPT ![r][c.file] = written]
        BY <2>3 DEF WriterWrite
      <4> HIDE DEF c, written
      <4> QED BY <1>0, <4>1
    <3>2. cmds'[q] = cmds[q] /\ acks'[q] = acks[q]
      BY <1>0, <2>3 DEF WriterWrite, Dequeue, SendAck
    <3>3. failed'[q] = failed[q]
      BY <1>0, <2>3 DEF WriterWrite, CallFails
    <3>4. UNCHANGED <<pc, result, cursorVars, poolVars, bcastVars, file_state, files, deferred,
                      exited, synced>>
      BY <2>3 DEF WriterWrite
    <3> QED BY <3>1, <3>2, <3>3, <3>4
  <2>4. CASE WriterClose(r, w)
    <3> DEFINE f == Head(cmds[r][w]).file
               trimmed == IF Direct THEN Truncated(disk[r][f], Size[f]) ELSE disk[r][f]
    <3>1. disk'[q] = disk[q]
      <4>1. disk' = disk \/ disk' = [disk EXCEPT ![r][f] = trimmed]
        BY <2>4 DEF WriterClose
      <4> HIDE DEF f, trimmed
      <4> QED BY <1>0, <4>1
    <3>2. synced'[q] = synced[q] /\ deferred'[q] = deferred[q] /\ failed'[q] = failed[q]
      <4>1. \/ UNCHANGED <<failed, deferred, synced>>
            \/ UNCHANGED <<deferred, failed>> /\ synced' = [synced EXCEPT ![r] = @ \cup {f}]
            \/ /\ CallFails(r) /\ UNCHANGED synced
               /\ deferred' = [deferred EXCEPT ![r] = @ \cup {w}]
        BY <2>4 DEF WriterClose
      <4> HIDE DEF f
      <4> QED BY <1>0, <4>1 DEF CallFails
    <3>3. cmds'[q] = cmds[q] /\ files'[q] = files[q]
      BY <1>0, <2>4 DEF WriterClose, Dequeue
    <3>4. UNCHANGED <<pc, result, cursorVars, poolVars, bcastVars, file_state, acks, exited>>
      BY <2>4 DEF WriterClose
    <3> QED BY <3>1, <3>2, <3>3, <3>4
  <2>5. CASE WriterExit(r, w)
    BY <1>0, <2>5 DEF WriterExit
  <2> QED BY <2>1, <2>2, <2>3, <2>4, <2>5 DEF WritersStep
<1> QED BY <1>1, <1>2, <1>3, <1>4, <1>5, <1>6 DEF MainStep

(* A step, from where one rank stands: its own, an abort, or not its own.   *)
LEMMA RankStep ==
  ASSUME TypeOK, [Next]_vars, NEW q \in Ranks
  PROVE  \/ StartShard(q) \/ PostChunk(q) \/ EndPosting(q) \/ TakeAck(q)
         \/ AfterDrain(q) \/ JoinWriters(q) \/ WaitAny(q) \/ MainCallFails(q)
         \/ \E w \in Writers : ~Returned(q) /\ WritersStep(q, w)
         \/ Aborted(q) \/ Idle(q)
<1>1. ASSUME NEW r \in Ranks, MainStep(r) \/ WaitAny(r) \/ MainCallFails(r)
      PROVE  \/ Idle(q) \/ MainStep(q) \/ WaitAny(q) \/ MainCallFails(q)
  BY <1>1, OthersIdle
<1>2. ASSUME NEW r \in Ranks, NEW w \in Writers, WriterStep(r, w)
      PROVE  Idle(q) \/ (~Returned(q) /\ WritersStep(q, w))
  BY <1>2, OthersIdle DEF WriterStep, WritersStep
<1>3. CASE Abort
  <2>1. Aborted(q)
    BY <1>3 DEF Abort, Aborted, SameRank, cursorVars, poolVars, bcastVars, fileVars,
            writerVars, faultVars
  <2> QED BY <2>1
<1>4. CASE UNCHANGED vars
  <2>1. Idle(q)
    BY <1>4 DEF Idle, SameRank, vars, cursorVars, poolVars, bcastVars, fileVars,
            writerVars, faultVars
  <2> QED BY <2>1
<1> QED BY <1>1, <1>2, <1>3, <1>4 DEF Next, Terminated, MainStep

------------------------------------------------------------------------------
(* Control is inductive.                                                    *)
LEMMA ControlInit == Init => ControlInv
BY DEF Init, ControlInv, Control

LEMMA ControlFrame ==
  ASSUME NEW q \in Ranks, Control(q), SameRank(q),
         pc'[q] = pc[q] \/ pc'[q] = IF pc[q] = "ok" THEN "ok" ELSE "aborted"
  PROVE  Control(q)'
BY DEF Control, SameRank, AllDone

LEMMA ControlStep ==
  ASSUME TypeOK, ControlInv, [Next]_vars
  PROVE  ControlInv'
<1> SUFFICES ASSUME NEW r \in Ranks PROVE Control(r)'
  BY DEF ControlInv
<1>0. Control(r)
  BY DEF ControlInv
<1>t. /\ pc \in [Ranks -> {"post", "drain", "recv", "wait", "join", "ok", "err", "aborted"}]
      /\ result \in [Ranks -> {"ok", "err"}]
      /\ cmds \in [Ranks -> [Writers -> Seq(Commands)]]
      /\ exited \in [Ranks -> SUBSET Writers]
      /\ deferred \in [Ranks -> SUBSET Writers]
  BY DEF TypeOK
<1> USE DEF Control, cursorVars, poolVars, bcastVars, fileVars, writerVars, faultVars
<1>1. CASE StartShard(r)
  BY <1>0, <1>t, <1>1 DEF StartShard
<1>2. CASE PostChunk(r)
  BY <1>0, <1>t, <1>2 DEF PostChunk
<1>3. CASE EndPosting(r) \/ AfterDrain(r) \/ JoinWriters(r)
  BY <1>0, <1>t, <1>3 DEF EndPosting, AfterDrain, JoinWriters, StageResult, AllDone
<1>4. CASE MainCallFails(r)
  BY <1>0, <1>t, <1>4 DEF MainCallFails
<1>5. CASE TakeAck(r)
  <2>1. /\ pc[r] \in {"drain", "recv"} /\ exited' = exited /\ deferred' = deferred
        /\ \/ pc' = [pc EXCEPT ![r] = "join"] /\ result' = [result EXCEPT ![r] = "err"]
           \/ pc' = [pc EXCEPT ![r] = IF @ = "recv" THEN "post" ELSE @] /\ result' = result
    BY <1>5 DEF TakeAck
  <2> QED BY <1>0, <1>t, <2>1
<1>6. CASE WaitAny(r)
  <2>1. /\ pc[r] = "wait" /\ exited' = exited /\ deferred' = deferred
        /\ pc' = [pc EXCEPT ![r] = "post"] /\ result' = result
    BY <1>6 DEF WaitAny, Complete
  <2> QED BY <1>0, <1>t, <2>1
<1>7. ASSUME NEW w \in Writers, ~Returned(r), WritersStep(r, w) PROVE Control(r)'
  <2>1. pc' = pc /\ result' = result /\ UNCHANGED <<in_flight, writes_pending, next_plan_idx, active>>
    BY <1>7 DEF WritersStep, WriterOpen, WriterWrite, WriterClose, WriterExit
  <2>2. pc[r] # "ok"
    BY <1>7 DEF Returned
  <2>3. CASE WriterExit(r, w)
    <3>1. /\ exited' = [exited EXCEPT ![r] = @ \cup {w}] /\ cmds' = cmds
          /\ cmds[r][w] = <<>> /\ pc[r] = "join"
      BY <2>3 DEF WriterExit
    <3> QED BY <3>1, <2>1, <2>2, <1>0, <1>t DEF AllDone
  <2>4. CASE ~WriterExit(r, w)
    <3>1. exited' = exited /\ \E kind : Dequeue(r, w, kind)
      BY <1>7, <2>4 DEF WritersStep, WriterOpen, WriterWrite, WriterClose
    <3>2. \A v \in Writers : cmds[r][v] = <<>> => cmds'[r][v] = <<>>
      BY <3>1, <1>t DEF Dequeue
    <3>3. exited[r] \subseteq Writers
      BY <1>t
    <3> QED BY <3>1, <3>2, <3>3, <2>1, <2>2, <1>0, <1>t DEF AllDone
  <2> QED BY <2>3, <2>4
<1>8. CASE Aborted(r) \/ Idle(r)
  BY <1>0, <1>8, ControlFrame DEF Aborted, Idle
<1> QED BY RankStep, <1>1, <1>2, <1>3, <1>4, <1>5, <1>6, <1>7, <1>8

(* A command that is not a write moves no buffer.                           *)
LEMMA EnqueueOther ==
  ASSUME NEW Q \in [Writers -> Seq(Commands)], NEW A \in Seq(Acks),
         NEW cmd \in Commands, cmd.kind # "write"
  PROVE  /\ \A s, f : OnWriter(Enqueue(Q, cmd), A, s, f) = OnWriter(Q, A, s, f)
         /\ OnceIn(Q, A) => OnceIn(Enqueue(Q, cmd), A)
<1> DEFINE E == Enqueue(Q, cmd)
           v == WriterOf(cmd.file)
<1>d. E = Enqueue(Q, cmd) /\ v = WriterOf(cmd.file)
  OBVIOUS
<1> HIDE DEF E, v
<1>1. /\ v \in Writers /\ Len(Q[v]) \in Nat
      /\ \A w \in Writers : \A i \in DOMAIN Q[w] : i \in DOMAIN E[w] /\ E[w][i] = Q[w][i]
      /\ E[v][Len(Q[v]) + 1] = cmd
      /\ \A w \in Writers : \A i \in DOMAIN E[w] :
           i \in DOMAIN Q[w] \/ (w = v /\ i = Len(Q[v]) + 1)
  BY <1>d, EnqueueFacts, SMTT(30)
<1>2. \A w \in Writers : \A i \in DOMAIN E[w] :
        E[w][i].kind = "write" => i \in DOMAIN Q[w] /\ E[w][i] = Q[w][i]
  BY <1>1
<1>3. ASSUME NEW s, NEW f PROVE OnWriter(E, A, s, f) = OnWriter(Q, A, s, f)
  <2>1. OnWriter(E, A, s, f) => OnWriter(Q, A, s, f)
    BY <1>2 DEF OnWriter
  <2>2. OnWriter(Q, A, s, f) => OnWriter(E, A, s, f)
    BY <1>1 DEF OnWriter
  <2>3. OnWriter(E, A, s, f) \in BOOLEAN /\ OnWriter(Q, A, s, f) \in BOOLEAN
    BY DEF OnWriter
  <2> QED BY <2>1, <2>2, <2>3
<1>4. OnceIn(Q, A) => OnceIn(E, A)
  BY <1>2 DEF OnceIn
<1> QED BY <1>3, <1>4 DEF E

(* Adding a Write command to its writer's queue puts its buffer there once. *)
LEMMA EnqueueWrite ==
  ASSUME NEW Q \in [Writers -> Seq(Commands)], NEW A \in Seq(Acks),
         NEW cmd \in Commands, cmd.kind = "write",
         \A f \in Files : ~OnWriter(Q, A, cmd.slot, f)
  PROVE  /\ \A s, f : OnWriter(Enqueue(Q, cmd), A, s, f)
                        = (OnWriter(Q, A, s, f) \/ (s = cmd.slot /\ f = cmd.file))
         /\ OnceIn(Q, A) => OnceIn(Enqueue(Q, cmd), A)
<1> DEFINE E == Enqueue(Q, cmd)
           v == WriterOf(cmd.file)
           n == Len(Q[v]) + 1
<1>d. E = Enqueue(Q, cmd) /\ v = WriterOf(cmd.file) /\ n = Len(Q[v]) + 1
  OBVIOUS
<1> HIDE DEF E, v, n
<1>1. /\ v \in Writers /\ Len(Q[v]) \in Nat
      /\ \A w \in Writers : \A i \in DOMAIN Q[w] : i \in DOMAIN E[w] /\ E[w][i] = Q[w][i]
      /\ n \in DOMAIN E[v] /\ E[v][n] = cmd
      /\ \A w \in Writers : \A i \in DOMAIN E[w] : i \in DOMAIN Q[w] \/ (w = v /\ i = n)
  BY <1>d, EnqueueFacts, SMTT(30)
<1>0. /\ \A w \in Writers : \A i \in DOMAIN Q[w] : Q[w][i].file \in Files
      /\ \A i \in DOMAIN A : A[i].file \in Files
  <2>1. \A w \in Writers : \A i \in DOMAIN Q[w] : Q[w][i] \in Commands
    OBVIOUS
  <2>2. \A i \in DOMAIN A : A[i] \in Acks
    OBVIOUS
  <2> QED BY <2>1, <2>2 DEF Commands, Acks
<1>2. ASSUME NEW s, NEW f
      PROVE OnWriter(E, A, s, f) = (OnWriter(Q, A, s, f) \/ (s = cmd.slot /\ f = cmd.file))
  <2>1. OnWriter(E, A, s, f) => OnWriter(Q, A, s, f) \/ (s = cmd.slot /\ f = cmd.file)
    <3>1. \A w \in Writers : \A i \in DOMAIN E[w] :
            (i \in DOMAIN Q[w] /\ E[w][i] = Q[w][i]) \/ E[w][i] = cmd
      BY <1>1
    <3> QED BY <3>1 DEF OnWriter
  <2>2. OnWriter(Q, A, s, f) => OnWriter(E, A, s, f)
    BY <1>1 DEF OnWriter
  <2>4. s = cmd.slot /\ f = cmd.file => OnWriter(E, A, s, f)
    BY <1>1 DEF OnWriter
  <2>3. OnWriter(E, A, s, f) \in BOOLEAN /\ OnWriter(Q, A, s, f) \in BOOLEAN
    BY DEF OnWriter
  <2> QED BY <2>1, <2>2, <2>3, <2>4
<1>3. /\ \A w \in Writers : \A i \in DOMAIN Q[w] :
           Q[w][i].kind = "write" => Q[w][i].slot # cmd.slot
      /\ \A i \in DOMAIN A : A[i].slot # cmd.slot
  BY <1>0 DEF OnWriter
<1>4. ASSUME OnceIn(Q, A) PROVE OnceIn(E, A)
  <2>1. ASSUME NEW u \in Writers, NEW w \in Writers, NEW i \in DOMAIN E[u], NEW j \in DOMAIN E[w],
               E[u][i].kind = "write", E[w][j].kind = "write", E[u][i].slot = E[w][j].slot
        PROVE  u = w /\ i = j
    <3>1. CASE i \in DOMAIN Q[u] /\ j \in DOMAIN Q[w]
      BY <3>1, <2>1, <1>1, <1>4 DEF OnceIn
    <3>2. CASE i \notin DOMAIN Q[u] /\ j \notin DOMAIN Q[w]
      BY <3>2, <1>1
    <3>3. CASE i \in DOMAIN Q[u] /\ j \notin DOMAIN Q[w]
      BY <3>3, <2>1, <1>1, <1>3
    <3>4. CASE i \notin DOMAIN Q[u] /\ j \in DOMAIN Q[w]
      BY <3>4, <2>1, <1>1, <1>3
    <3> QED BY <3>1, <3>2, <3>3, <3>4
  <2>2. ASSUME NEW w \in Writers, NEW i \in DOMAIN E[w], NEW j \in DOMAIN A, E[w][i].kind = "write"
        PROVE  E[w][i].slot # A[j].slot
    <3>1. CASE i \in DOMAIN Q[w]
      BY <3>1, <2>2, <1>1, <1>4 DEF OnceIn
    <3>2. CASE i \notin DOMAIN Q[w]
      BY <3>2, <1>1, <1>3
    <3> QED BY <3>1, <3>2
  <2> QED BY <2>1, <2>2, <1>4 DEF OnceIn
<1> QED BY <1>2, <1>4 DEF E

(* An open or close leaves its queue; a write leaves it for the ack channel.*)
LEMMA DequeueOther ==
  ASSUME TypeOK, NEW r \in Ranks, NEW w \in Writers, NEW kind, kind # "write",
         Dequeue(r, w, kind), NEW A
  PROVE  /\ \A s, f : OnWriter(cmds'[r], A, s, f) = OnWriter(cmds[r], A, s, f)
         /\ OnceIn(cmds[r], A) => OnceIn(cmds'[r], A)
<1> DEFINE Q == cmds[r]
           P == cmds'[r]
<1>1. /\ Q \in [Writers -> Seq(Commands)] /\ P \in [Writers -> Seq(Commands)]
      /\ \A v \in Writers : v # w => P[v] = Q[v]
      /\ Q[w] # <<>> /\ 1 \in DOMAIN Q[w] /\ Len(Q[w]) \in Nat
      /\ DOMAIN Q[w] = 1 .. Len(Q[w])
      /\ Head(Q[w]) = Q[w][1] /\ Head(Q[w]) \in Commands /\ Q[w][1].kind = kind
      /\ DOMAIN P[w] = 1 .. Len(Q[w]) - 1
      /\ \A i \in DOMAIN P[w] : i + 1 \in DOMAIN Q[w] /\ P[w][i] = Q[w][i + 1]
      /\ \A i \in DOMAIN Q[w] : i # 1 =>
           i - 1 \in DOMAIN P[w] /\ P[w][i - 1] = Q[w][i]
  BY DequeueFacts
<1>g. kind # "write"
  OBVIOUS
<1> HIDE DEF Q, P
<1>2. \A v \in Writers : \A i \in DOMAIN P[v] : \E j \in DOMAIN Q[v] :
        P[v][i] = Q[v][j] /\ (IF v = w THEN j = i + 1 ELSE j = i)
  BY <1>1
<1>3. ASSUME NEW v \in Writers, NEW i \in DOMAIN Q[v], Q[v][i].kind = "write"
      PROVE  \E j \in DOMAIN P[v] : P[v][j] = Q[v][i]
  <2>1. CASE v = w
    <3>1. i - 1 \in DOMAIN P[w] /\ P[w][i - 1] = Q[w][i]
      BY <2>1, <1>1, <1>3, <1>g
    <3> QED BY <2>1, <3>1
  <2>2. CASE v # w
    BY <2>2, <1>1
  <2> QED BY <2>1, <2>2
<1>4. ASSUME NEW s, NEW f PROVE OnWriter(P, A, s, f) = OnWriter(Q, A, s, f)
  <2>1. OnWriter(P, A, s, f) => OnWriter(Q, A, s, f)
    BY <1>2 DEF OnWriter
  <2>2. OnWriter(Q, A, s, f) => OnWriter(P, A, s, f)
    BY <1>3 DEF OnWriter
  <2>3. OnWriter(P, A, s, f) \in BOOLEAN /\ OnWriter(Q, A, s, f) \in BOOLEAN
    BY DEF OnWriter
  <2> QED BY <2>1, <2>2, <2>3
<1>5. ASSUME OnceIn(Q, A) PROVE OnceIn(P, A)
  <2>1. ASSUME NEW u \in Writers, NEW v \in Writers, NEW i \in DOMAIN P[u], NEW j \in DOMAIN P[v],
               P[u][i].kind = "write", P[v][j].kind = "write", P[u][i].slot = P[v][j].slot
        PROVE  u = v /\ i = j
    <3>1. PICK m \in DOMAIN Q[u] : P[u][i] = Q[u][m] /\ (IF u = w THEN m = i + 1 ELSE m = i)
      BY <1>2
    <3>2. PICK n \in DOMAIN Q[v] : P[v][j] = Q[v][n] /\ (IF v = w THEN n = j + 1 ELSE n = j)
      BY <1>2
    <3>3. u = v /\ m = n
      BY <2>1, <3>1, <3>2, <1>5 DEF OnceIn
    <3>4. u = w => i \in Int /\ j \in Int
      BY <3>3, <1>1
    <3> QED BY <3>1, <3>2, <3>3, <3>4
  <2>2. ASSUME NEW v \in Writers, NEW i \in DOMAIN P[v], NEW j \in DOMAIN A, P[v][i].kind = "write"
        PROVE  P[v][i].slot # A[j].slot
    BY <2>2, <1>2, <1>5 DEF OnceIn
  <2> QED BY <2>1, <2>2, <1>5 DEF OnceIn
<1> QED BY <1>4, <1>5 DEF P, Q

(* Taking a Write and sending its acknowledgement keeps its buffer with the *)
(* writers.                                                                 *)
LEMMA DequeueWrite ==
  ASSUME TypeOK, NEW r \in Ranks, NEW w \in Writers, Dequeue(r, w, "write"),
         NEW a \in Acks, a.slot = Head(cmds[r][w]).slot, a.file = Head(cmds[r][w]).file
  PROVE  /\ \A s, f : OnWriter(cmds'[r], Append(acks[r], a), s, f)
                        = OnWriter(cmds[r], acks[r], s, f)
         /\ OnceIn(cmds[r], acks[r]) => OnceIn(cmds'[r], Append(acks[r], a))
<1> DEFINE Q == cmds[r]
           P == cmds'[r]
           A == acks[r]
           B == Append(acks[r], a)
           n == Len(A) + 1
<1>1. /\ Q \in [Writers -> Seq(Commands)] /\ P \in [Writers -> Seq(Commands)]
      /\ \A v \in Writers : v # w => P[v] = Q[v]
      /\ Q[w] # <<>> /\ 1 \in DOMAIN Q[w] /\ Len(Q[w]) \in Nat
      /\ DOMAIN Q[w] = 1 .. Len(Q[w])
      /\ Head(Q[w]) = Q[w][1] /\ Head(Q[w]) \in Commands /\ Q[w][1].kind = "write"
      /\ DOMAIN P[w] = 1 .. Len(Q[w]) - 1
      /\ \A i \in DOMAIN P[w] : i + 1 \in DOMAIN Q[w] /\ P[w][i] = Q[w][i + 1]
      /\ \A i \in DOMAIN Q[w] : i # 1 =>
           i - 1 \in DOMAIN P[w] /\ P[w][i - 1] = Q[w][i]
  BY DequeueFacts
<1>g. Q[w][1].slot = a.slot /\ Q[w][1].file = a.file
  BY <1>1
<1> HIDE DEF Q, P
<1>2. /\ Len(A) \in Nat /\ DOMAIN A = 1 .. Len(A)
      /\ DOMAIN B = 1 .. Len(A) + 1
      /\ \A i \in DOMAIN A : B[i] = A[i]
      /\ B[n] = a
  <2>1. A \in Seq(Acks)
    BY DEF TypeOK
  <2> QED BY <2>1, AppendFacts
<1>3. n \in DOMAIN B /\ n \notin DOMAIN A
  BY <1>2
<1>4. \A i \in DOMAIN B : i \in DOMAIN A \/ i = n
  BY <1>2
<1>5. \A i \in DOMAIN A : i \in DOMAIN B
  BY <1>2
<1> HIDE DEF A, B, n
<1>6. \A v \in Writers : \A i \in DOMAIN P[v] : \E j \in DOMAIN Q[v] :
        P[v][i] = Q[v][j] /\ (IF v = w THEN j = i + 1 /\ j # 1 ELSE j = i)
  <2> SUFFICES ASSUME NEW v \in Writers, NEW i \in DOMAIN P[v]
               PROVE  \E j \in DOMAIN Q[v] :
                 P[v][i] = Q[v][j] /\ (IF v = w THEN j = i + 1 /\ j # 1 ELSE j = i)
    OBVIOUS
  <2>1. CASE v = w
    <3>1. i + 1 \in DOMAIN Q[w] /\ P[w][i] = Q[w][i + 1] /\ i + 1 # 1
      BY <2>1, <1>1
    <3> QED BY <2>1, <3>1
  <2>2. CASE v # w
    BY <2>2, <1>1
  <2> QED BY <2>1, <2>2
<1>7. ASSUME NEW v \in Writers, NEW i \in DOMAIN Q[v], ~(v = w /\ i = 1)
      PROVE  \E j \in DOMAIN P[v] : P[v][j] = Q[v][i]
  <2>1. CASE v = w
    <3>1. i - 1 \in DOMAIN P[w] /\ P[w][i - 1] = Q[w][i]
      BY <2>1, <1>1, <1>7
    <3> QED BY <2>1, <3>1
  <2>2. CASE v # w
    BY <2>2, <1>1
  <2> QED BY <2>1, <2>2
<1>8. ASSUME NEW s, NEW f PROVE OnWriter(P, B, s, f) = OnWriter(Q, A, s, f)
  <2>1. OnWriter(P, B, s, f) => OnWriter(Q, A, s, f)
    BY <1>1, <1>g, <1>2, <1>4, <1>6 DEF OnWriter
  <2>2. OnWriter(Q, A, s, f) => OnWriter(P, B, s, f)
    BY <1>1, <1>g, <1>2, <1>3, <1>5, <1>7, SMTT(30) DEF OnWriter
  <2>3. OnWriter(P, B, s, f) \in BOOLEAN /\ OnWriter(Q, A, s, f) \in BOOLEAN
    BY DEF OnWriter
  <2> QED BY <2>1, <2>2, <2>3
<1>9. ASSUME OnceIn(Q, A) PROVE OnceIn(P, B)
  <2>1. ASSUME NEW u \in Writers, NEW v \in Writers, NEW i \in DOMAIN P[u], NEW j \in DOMAIN P[v],
               P[u][i].kind = "write", P[v][j].kind = "write", P[u][i].slot = P[v][j].slot
        PROVE  u = v /\ i = j
    <3>1. PICK k \in DOMAIN Q[u] : P[u][i] = Q[u][k] /\ (IF u = w THEN k = i + 1 /\ k # 1 ELSE k = i)
      BY <1>6
    <3>2. PICK m \in DOMAIN Q[v] : P[v][j] = Q[v][m] /\ (IF v = w THEN m = j + 1 /\ m # 1 ELSE m = j)
      BY <1>6
    <3>3. u = v /\ k = m
      BY <2>1, <3>1, <3>2, <1>9 DEF OnceIn
    <3>4. u = w => i \in Int /\ j \in Int
      BY <3>3, <1>1
    <3> QED BY <3>1, <3>2, <3>3, <3>4
  <2>2. ASSUME NEW v \in Writers, NEW i \in DOMAIN P[v], NEW j \in DOMAIN B, P[v][i].kind = "write"
        PROVE  P[v][i].slot # B[j].slot
    <3>1. PICK k \in DOMAIN Q[v] : P[v][i] = Q[v][k] /\ (IF v = w THEN k = i + 1 /\ k # 1 ELSE k = i)
      BY <1>6
    <3>2. CASE j \in DOMAIN A
      BY <2>2, <3>1, <3>2, <1>2, <1>9 DEF OnceIn
    <3>3. CASE j = n
      <4>1. ~(v = w /\ k = 1)
        BY <3>1
      <4>2. Q[v][k].slot # Q[w][1].slot
        BY <4>1, <2>2, <3>1, <1>1, <1>g, <1>9 DEF OnceIn
      <4> QED BY <4>2, <3>1, <3>3, <1>1, <1>g, <1>2
    <3> QED BY <3>2, <3>3, <1>4
  <2>3. ASSUME NEW i \in DOMAIN B, NEW j \in DOMAIN B, B[i].slot = B[j].slot
        PROVE  i = j
    <3>1. \A m \in DOMAIN A : A[m].slot # a.slot
      BY <1>1, <1>g, <1>9 DEF OnceIn
    <3> QED BY <2>3, <3>1, <1>2, <1>4, <1>9 DEF OnceIn
  <2> QED BY <2>1, <2>2, <2>3 DEF OnceIn
<1> QED BY <1>8, <1>9 DEF P, Q, A, B

(* The main thread takes an acknowledgement, and its buffer.                *)
LEMMA TakenAck ==
  ASSUME NEW Q \in [Writers -> Seq(Commands)], NEW A \in Seq(Acks), A # <<>>, OnceIn(Q, A)
  PROVE  /\ \A s, f : OnWriter(Q, Tail(A), s, f) = (OnWriter(Q, A, s, f) /\ s # Head(A).slot)
         /\ OnceIn(Q, Tail(A))
<1> DEFINE B == Tail(A)
<1>1. /\ Len(A) \in Nat \ {0} /\ DOMAIN A = 1 .. Len(A)
      /\ Head(A) = A[1] /\ DOMAIN B = 1 .. Len(A) - 1
      /\ \A i \in DOMAIN B : i + 1 \in DOMAIN A /\ B[i] = A[i + 1]
  BY TailFacts
<1>2. 1 \in DOMAIN A /\ \A i \in DOMAIN B : i + 1 # 1 /\ i \in Int
  BY <1>1
<1>3. ASSUME NEW i \in DOMAIN A, i # 1 PROVE i - 1 \in DOMAIN B /\ B[i - 1] = A[i]
  <2>1. i - 1 \in 1 .. Len(A) - 1 /\ (i - 1) + 1 = i
    BY <1>3, <1>1
  <2> QED BY <2>1, <1>1
<1> HIDE DEF B
<1>4. ASSUME NEW s, NEW f PROVE OnWriter(Q, B, s, f) = (OnWriter(Q, A, s, f) /\ s # A[1].slot)
  <2>1. OnWriter(Q, B, s, f) => OnWriter(Q, A, s, f)
    BY <1>1 DEF OnWriter
  <2>2. OnWriter(Q, B, s, f) => s # A[1].slot
    BY <1>1, <1>2 DEF OnWriter, OnceIn
  <2>3. OnWriter(Q, A, s, f) /\ s # A[1].slot => OnWriter(Q, B, s, f)
    BY <1>3 DEF OnWriter
  <2>4. OnWriter(Q, B, s, f) \in BOOLEAN /\ OnWriter(Q, A, s, f) \in BOOLEAN
    BY DEF OnWriter
  <2> QED BY <2>1, <2>2, <2>3, <2>4
<1>5. OnceIn(Q, B)
  <2>1. ASSUME NEW i \in DOMAIN B, NEW j \in DOMAIN B, B[i].slot = B[j].slot PROVE i = j
    <3>1. i + 1 = j + 1
      BY <2>1, <1>1 DEF OnceIn
    <3> QED BY <3>1, <1>2
  <2> QED BY <2>1, <1>1 DEF OnceIn
<1> QED BY <1>1, <1>4, <1>5 DEF B

(* The buffers that are free, by their order in free_slots.                 *)
LEMMA SlotsFinite == IsFiniteSet(Slots)
<1>1. Depth - 1 \in Int
  BY BroadcastAssumption
<1> QED BY <1>1, FS_Interval DEF Slots

NoneTwice(q) == \A i, j \in DOMAIN q : q[i] = q[j] => i = j
Among(q, s) == \E i \in DOMAIN q : q[i] = s

(* The first free slot taken, or a slot given back.                         *)
LEMMA HeadOut ==
  ASSUME NEW q \in Seq(Slots), q # <<>>, NoneTwice(q)
  PROVE  /\ Head(q) \in Slots /\ Among(q, Head(q)) /\ NoneTwice(Tail(q))
         /\ \A s : Among(Tail(q), s) = (Among(q, s) /\ s # Head(q))
<1> DEFINE t == Tail(q)
<1>1. /\ Len(q) \in Nat \ {0} /\ DOMAIN q = 1 .. Len(q)
      /\ Head(q) = q[1] /\ Head(q) \in Slots
      /\ DOMAIN t = 1 .. Len(q) - 1
      /\ \A i \in DOMAIN t : i + 1 \in DOMAIN q /\ t[i] = q[i + 1]
  BY TailFacts
<1> HIDE DEF t
<1>2. 1 \in DOMAIN q /\ \A i \in DOMAIN t : i \in Int /\ i + 1 # 1
  BY <1>1
<1>3. ASSUME NEW i \in DOMAIN q, i # 1 PROVE i - 1 \in DOMAIN t /\ t[i - 1] = q[i]
  <2>1. i - 1 \in 1 .. Len(q) - 1 /\ (i - 1) + 1 = i
    BY <1>1, <1>3
  <2> QED BY <2>1, <1>1
<1>4. ASSUME NEW s PROVE Among(t, s) = (Among(q, s) /\ s # q[1])
  <2>1. Among(t, s) => Among(q, s) /\ s # q[1]
    BY <1>1, <1>2 DEF Among, NoneTwice
  <2>2. Among(q, s) /\ s # q[1] => Among(t, s)
    BY <1>3 DEF Among
  <2>3. Among(t, s) \in BOOLEAN /\ Among(q, s) \in BOOLEAN
    BY DEF Among
  <2> QED BY <2>1, <2>2, <2>3
<1>5. ASSUME NEW i \in DOMAIN t, NEW j \in DOMAIN t, t[i] = t[j] PROVE i = j
  <2>1. i + 1 = j + 1
    BY <1>1, <1>5 DEF NoneTwice
  <2> QED BY <2>1, <1>2
<1> QED BY <1>1, <1>2, <1>4, <1>5 DEF t, NoneTwice, Among

LEMMA BackIn ==
  ASSUME NEW q \in Seq(Slots), NoneTwice(q), NEW slot \in Slots, ~Among(q, slot)
  PROVE  /\ NoneTwice(Append(q, slot))
         /\ \A s : Among(Append(q, slot), s) = (Among(q, s) \/ s = slot)
<1> DEFINE a == Append(q, slot)
           n == Len(q) + 1
<1>1. /\ Len(q) \in Nat /\ DOMAIN q = 1 .. Len(q) /\ DOMAIN a = 1 .. n
      /\ \A i \in DOMAIN q : a[i] = q[i]
      /\ a[n] = slot
  BY AppendFacts
<1> HIDE DEF a
<1>2. n \in DOMAIN a /\ (\A i \in DOMAIN a : i \in DOMAIN q \/ i = n) /\ \A i \in DOMAIN q : i \in DOMAIN a
  BY <1>1
<1> HIDE DEF n
<1>3. ASSUME NEW s PROVE Among(a, s) = (Among(q, s) \/ s = slot)
  <2>1. Among(a, s) => Among(q, s) \/ s = slot
    BY <1>1, <1>2 DEF Among
  <2>2. Among(q, s) \/ s = slot => Among(a, s)
    BY <1>1, <1>2 DEF Among
  <2>3. Among(a, s) \in BOOLEAN /\ Among(q, s) \in BOOLEAN
    BY DEF Among
  <2> QED BY <2>1, <2>2, <2>3
<1>4. NoneTwice(a)
  BY <1>1, <1>2 DEF NoneTwice, Among
<1> QED BY <1>3, <1>4 DEF a

(* Opening or closing a file leaves every buffer where it is, so does       *)
(* maybe_close_file.                                                        *)
LEMMA OpenKeeps ==
  ASSUME NEW f \in Files, NEW Q \in [Writers -> Seq(Commands)], NEW A \in Seq(Acks)
  PROVE  /\ Enqueue(Q, OpenFile(f)) \in [Writers -> Seq(Commands)]
         /\ \A s, g : OnWriter(Enqueue(Q, OpenFile(f)), A, s, g) = OnWriter(Q, A, s, g)
         /\ OnceIn(Q, A) => OnceIn(Enqueue(Q, OpenFile(f)), A)
<1>1. OpenFile(f) \in Commands /\ OpenFile(f).kind # "write"
  BY CommandTypes DEF OpenFile
<1> QED BY <1>1, EnqueueOther, EnqueueType

(* A Close command carries no buffer: the pool does not see                 *)
(* maybe_close_file.                                                        *)
LEMMA CloseKeeps ==
  ASSUME NEW f \in Files, NEW Q \in [Writers -> Seq(Commands)], NEW A \in Seq(Acks)
  PROVE  /\ Enqueue(Q, CloseFile(f)) \in [Writers -> Seq(Commands)]
         /\ \A s, g : OnWriter(Enqueue(Q, CloseFile(f)), A, s, g) = OnWriter(Q, A, s, g)
         /\ OnceIn(Q, A) => OnceIn(Enqueue(Q, CloseFile(f)), A)
<1>1. CloseFile(f) \in Commands /\ CloseFile(f).kind # "write"
  BY CommandTypes DEF CloseFile, OpenFile
<1> QED BY <1>1, EnqueueOther, EnqueueType

LEMMA MaybeCloseKeeps ==
  ASSUME TypeOK, NEW r \in Ranks, NEW f \in Files, NEW st \in FileStates,
         NEW Q \in [Writers -> Seq(Commands)], NEW A \in Seq(Acks),
         MaybeCloseFile(r, f, st, Q)
  PROVE  /\ \A s, g : OnWriter(cmds'[r], A, s, g) = OnWriter(Q, A, s, g)
         /\ OnceIn(Q, A) => OnceIn(cmds'[r], A)
<1>1. cmds'[r] = Q \/ cmds'[r] = Enqueue(Q, CloseFile(f))
  BY MaybeCloseEffect
<1> QED BY <1>1, CloseKeeps

(* Steps that leave every buffer where it is.                               *)
PoolVarsKept(r) ==
  /\ result'[r] = result[r] /\ in_flight'[r] = in_flight[r] /\ subs'[r] = subs[r]
  /\ home'[r] = home[r] /\ free_slots'[r] = free_slots[r]
  /\ writes_pending'[r] = writes_pending[r] /\ wire'[r] = wire[r]

(* A step that leaves the buffers alone keeps the pool.                     *)
LEMMA PoolKeep ==
  ASSUME NEW r \in Ranks, Pool(r), PoolVarsKept(r),
         \A s, f : OnWriter(cmds'[r], acks'[r], s, f) = OnWriter(cmds[r], acks[r], s, f),
         OnceIn(cmds[r], acks[r]) => OnceIn(cmds'[r], acks'[r])
  PROVE  Pool(r)'
<1>1. \A s : HasWriter(r, s)' = HasWriter(r, s)
  BY DEF HasWriter
<1>2. \A s : IsFree(r, s)' = IsFree(r, s)
  BY DEF IsFree, PoolVarsKept
<1>3. \A s : Flying(r, s)' = Flying(r, s)
  BY DEF Flying, PoolVarsKept
<1>4. {s \in Slots : ~home[r][s]}' = {s \in Slots : ~home[r][s]}
  BY DEF PoolVarsKept
<1> QED BY <1>1, <1>2, <1>3, <1>4 DEF Pool, PoolVarsKept

LEMMA PoolInit == Init => PoolInv
<1> SUFFICES ASSUME Init, NEW r \in Ranks PROVE Pool(r)
  BY DEF PoolInv
<1>1. /\ in_flight[r] = {} /\ acks[r] = <<>> /\ writes_pending[r] = 0
      /\ \A w \in Writers : cmds[r][w] = <<>>
      /\ free_slots[r] = [i \in 1 .. Depth |-> i - 1]
      /\ \A s \in Slots : home[r][s] /\ subs[r][s] = 0
  BY DEF Init
<1>2. \A s \in Slots : Flying(r, s) = {} /\ Cardinality(Flying(r, s)) = 0
  BY <1>1, FS_EmptySet DEF Flying
<1>3. \A s : ~HasWriter(r, s)
  BY <1>1 DEF HasWriter, OnWriter
<1>4. OnceIn(cmds[r], acks[r])
  BY <1>1 DEF OnceIn
<1>5. ASSUME NEW s \in Slots PROVE IsFree(r, s)
  <2>1. s + 1 \in 1 .. Depth /\ (s + 1) - 1 = s
    BY BroadcastAssumption DEF Slots
  <2> QED BY <1>1, <2>1 DEF IsFree
<1>6. NoneTwice(free_slots[r])
  BY <1>1 DEF NoneTwice
<1>7. {s \in Slots : ~home[r][s]} = {} /\ IsFiniteSet({}) /\ Cardinality({}) = 0
  BY <1>1, FS_EmptySet
<1> QED BY <1>1, <1>2, <1>3, <1>4, <1>5, <1>6, <1>7 DEF Pool, NoneTwice, IsFree

(* What PostChunk posts, and what it leaves behind.                         *)
NextShard(r) == Plan[next_plan_idx[r]]
NextLen(r) == ChunkLen(r, NextShard(r))
NextChunk(r) == ChunkOf(r, NextShard(r), NextLen(r), Head(free_slots[r]))
NextIndex(r) == Len(wire[r]) + 1

(* A chunk has at least one sub-broadcast.                                  *)
LEMMA SubCountPositive ==
  ASSUME NEW n \in Nat \ {0}
  PROVE  SubCount(n) \in Nat \ {0}
<1> DEFINE M == MAX_SUB_BCAST
           x == n + M - 1
           d == x \div M
<1>1. M \in Nat \ {0}
  BY BroadcastAssumption
<1> HIDE DEF M
<1>2. x \in Nat /\ x >= M
  BY <1>1
<1> HIDE DEF x
<1>3. d \in Nat /\ x % M \in 0 .. M - 1 /\ x = M * d + (x % M)
  BY <1>1, <1>2
<1>4. d # 0
  <2> SUFFICES ASSUME d = 0 PROVE FALSE
    OBVIOUS
  <2> HIDE DEF d
  <2>1. x = x % M
    BY <1>3, <1>1
  <2> QED BY <2>1, <1>1, <1>2, <1>3
<1> QED BY <1>3, <1>4 DEF SubCount, d, x, M

(* What post_chunk does, without its records.                               *)
LEMMA PostChunkEffect ==
  ASSUME TypeOK, NEW r \in Ranks, PostChunk(r)
  PROVE  /\ pc[r] = "post" /\ active[r] /\ pc'[r] = pc[r] /\ result'[r] = result[r]
         /\ next_plan_idx'[r] = next_plan_idx[r]
         /\ NextShard(r) \in Shard /\ NextLen(r) \in 1 .. Chunk
         /\ post_offset[r] + NextLen(r) <= NextShard(r).len
         /\ NextChunk(r) \in Chunks
         /\ NextChunk(r).slot = Head(free_slots[r]) /\ NextChunk(r).n = NextLen(r)
         /\ NextChunk(r).file = NextShard(r).file /\ NextChunk(r).root = NextShard(r).owner
         /\ NextChunk(r).off = NextShard(r).off + post_offset[r]
         /\ NextChunk(r).shard = next_plan_idx[r]
         /\ NextChunk(r).buf = Filled(r, NextShard(r), NextLen(r), Head(free_slots[r]))
         /\ free_slots[r] \in Seq(Slots) /\ free_slots[r] # <<>> /\ Head(free_slots[r]) \in Slots
         /\ free_slots'[r] = Tail(free_slots[r])
         /\ home'[r] = home[r] /\ writes_pending'[r] = writes_pending[r]
         /\ wire[r] \in Seq(Chunks) /\ wire'[r] = Append(wire[r], NextChunk(r))
         /\ mem'[r] = [mem[r] EXCEPT ![Head(free_slots[r])] =
                          Filled(r, NextShard(r), NextLen(r), Head(free_slots[r]))]
         /\ in_flight'[r] = in_flight[r] \cup ({NextIndex(r)} \X (1 .. SubCount(NextLen(r))))
         /\ subs'[r] = [subs[r] EXCEPT ![Head(free_slots[r])] = @ + SubCount(NextLen(r))]
         /\ post_offset'[r] = post_offset[r] + NextLen(r)
         /\ active'[r] = ~(post_offset[r] + NextLen(r) >= NextShard(r).len)
         /\ acks'[r] = acks[r]
<1>1. active[r] /\ free_slots[r] # <<>>
  BY DEF PostChunk
<1>2. free_slots[r] \in Seq(Slots) /\ Head(free_slots[r]) \in Slots /\ wire[r] \in Seq(Chunks)
  <2>1. free_slots[r] \in Seq(Slots)
    BY DEF TypeOK
  <2> QED BY <2>1, <1>1, TailFacts DEF TypeOK
<1>3. /\ NextShard(r) \in Shard /\ NextLen(r) \in 1 .. Chunk
      /\ post_offset[r] + NextLen(r) <= NextShard(r).len
      /\ NextChunk(r) \in Chunks
  BY <1>1, <1>2, PostedChunk DEF NextShard, NextLen, NextChunk
<1>4. /\ NextChunk(r).slot = Head(free_slots[r]) /\ NextChunk(r).n = NextLen(r)
      /\ NextChunk(r).file = NextShard(r).file /\ NextChunk(r).root = NextShard(r).owner
      /\ NextChunk(r).off = NextShard(r).off + post_offset[r]
      /\ NextChunk(r).shard = next_plan_idx[r]
      /\ NextChunk(r).buf = Filled(r, NextShard(r), NextLen(r), Head(free_slots[r]))
  BY DEF NextChunk, ChunkOf
<1>5. /\ pc[r] = "post" /\ pc'[r] = pc[r] /\ result'[r] = result[r]
      /\ next_plan_idx'[r] = next_plan_idx[r] /\ acks'[r] = acks[r]
      /\ home'[r] = home[r] /\ writes_pending'[r] = writes_pending[r]
      /\ free_slots' = [free_slots EXCEPT ![r] = Tail(@)]
      /\ mem' = [mem EXCEPT ![r][Head(free_slots[r])] =
                   Filled(r, NextShard(r), NextLen(r), Head(free_slots[r]))]
      /\ wire' = [wire EXCEPT ![r] = Append(@, NextChunk(r))]
      /\ in_flight' = [in_flight EXCEPT ![r] =
                         @ \cup ({NextIndex(r)} \X (1 .. SubCount(NextLen(r))))]
      /\ subs' = [subs EXCEPT ![r][Head(free_slots[r])] = @ + SubCount(NextLen(r))]
      /\ post_offset' = [post_offset EXCEPT ![r] = @ + NextLen(r)]
      /\ active' = [active EXCEPT ![r] = ~(post_offset[r] + NextLen(r) >= NextShard(r).len)]
  BY DEF PostChunk, NextShard, NextLen, NextChunk, NextIndex, writerVars
<1> QED BY <1>1, <1>2, <1>3, <1>4, <1>5 DEF TypeOK

(* A FileState with more or fewer shards, chunks and writes.                *)
Counted(st, shards, chunks, writes) ==
  [opened |-> st.opened, closed |-> st.closed, shards_posted |-> st.shards_posted + shards,
   chunks_in_flight |-> st.chunks_in_flight + chunks,
   writes_in_flight |-> st.writes_in_flight + writes]

(* What the counters of a FileState become in post_chunk, in completions    *)
(* and acknowledgements, and by maybe_close_file.                           *)
LEMMA CountedFacts ==
  ASSUME NEW st \in FileStates, NEW a \in Int, NEW b \in Int, NEW c \in Int
  PROVE  /\ Counted(st, a, b, c) \in FileStates
         /\ Counted(st, a, b, c).opened = st.opened /\ Counted(st, a, b, c).closed = st.closed
         /\ Counted(st, a, b, c).shards_posted = st.shards_posted + a
         /\ Counted(st, a, b, c).chunks_in_flight = st.chunks_in_flight + b
         /\ Counted(st, a, b, c).writes_in_flight = st.writes_in_flight + c
<1>1. st.opened \in BOOLEAN /\ st.closed \in BOOLEAN
  BY Zenon DEF FileStates
<1>2. /\ st.shards_posted + a \in Int /\ st.chunks_in_flight + b \in Int
      /\ st.writes_in_flight + c \in Int
  BY DEF FileStates
<1>3. Counted(st, a, b, c) \in FileStates
  BY <1>1, <1>2 DEF Counted, FileStates
<1> QED BY <1>3 DEF Counted

LEMMA ClosedFacts ==
  ASSUME NEW st \in FileStates
  PROVE  /\ AsClosed(st) \in FileStates
         /\ AsClosed(st).opened = st.opened /\ AsClosed(st).closed = TRUE
         /\ AsClosed(st).shards_posted = st.shards_posted
         /\ AsClosed(st).chunks_in_flight = st.chunks_in_flight
         /\ AsClosed(st).writes_in_flight = st.writes_in_flight
BY DEF FileStates, AsClosed

LEMMA CountedOnce ==
  ASSUME NEW st \in FileStates
  PROVE  /\ [st EXCEPT !.shards_posted = @ + 1] = Counted(st, 1, 0, 0)
         /\ [st EXCEPT !.writes_in_flight = @ + 1] = Counted(st, 0, 0, 1)
         /\ [st EXCEPT !.writes_in_flight = @ - 1] = Counted(st, 0, 0, -1)
         /\ [st EXCEPT !.chunks_in_flight = @ + 1] = Counted(st, 0, 1, 0)
         /\ [st EXCEPT !.chunks_in_flight = @ - 1] = Counted(st, 0, -1, 0)
<1>1. \A n \in Int : /\ n + 0 = n /\ n + (-1) = n - 1
  OBVIOUS
<1>2. st = [opened |-> st.opened, closed |-> st.closed, shards_posted |-> st.shards_posted,
            chunks_in_flight |-> st.chunks_in_flight, writes_in_flight |-> st.writes_in_flight]
  BY DEF FileStates
<1>3. st.shards_posted \in Int /\ st.chunks_in_flight \in Int /\ st.writes_in_flight \in Int
  BY DEF FileStates
<1>4. [st EXCEPT !.shards_posted = @ + 1] = Counted(st, 1, 0, 0)
  BY <1>1, <1>2, <1>3 DEF Counted
<1>5. [st EXCEPT !.chunks_in_flight = @ + 1] = Counted(st, 0, 1, 0)
  BY <1>1, <1>2, <1>3 DEF Counted
<1>6. [st EXCEPT !.chunks_in_flight = @ - 1] = Counted(st, 0, -1, 0)
  BY <1>1, <1>2, <1>3 DEF Counted
<1>7. [st EXCEPT !.writes_in_flight = @ - 1] = Counted(st, 0, 0, -1)
  BY <1>1, <1>2, <1>3 DEF Counted
<1>8. [st EXCEPT !.writes_in_flight = @ + 1] = Counted(st, 0, 0, 1)
  BY <1>1, <1>2, <1>3 DEF Counted
<1> QED BY <1>4, <1>5, <1>6, <1>7, <1>8

LEMMA CountedTwice ==
  ASSUME NEW st \in FileStates
  PROVE  /\ Counted(Counted(st, 0, 1, 0), 1, 0, 0) = Counted(st, 1, 1, 0)
         /\ Counted(Counted(st, 0, -1, 0), 0, 0, 1) = Counted(st, 0, -1, 1)
<1>1. st.shards_posted \in Int /\ st.chunks_in_flight \in Int /\ st.writes_in_flight \in Int
  BY DEF FileStates
<1> QED BY <1>1 DEF Counted

LEMMA CountedForms ==
  ASSUME NEW st \in FileStates
  PROVE  /\ [st EXCEPT !.shards_posted = @ + 1] = Counted(st, 1, 0, 0)
         /\ [st EXCEPT !.chunks_in_flight = @ + 1] = Counted(st, 0, 1, 0)
         /\ [st EXCEPT !.chunks_in_flight = @ - 1] = Counted(st, 0, -1, 0)
         /\ [st EXCEPT !.writes_in_flight = @ - 1] = Counted(st, 0, 0, -1)
         /\ [[st EXCEPT !.chunks_in_flight = @ + 1] EXCEPT !.shards_posted = @ + 1] = Counted(st, 1, 1, 0)
         /\ [[st EXCEPT !.chunks_in_flight = @ - 1] EXCEPT !.writes_in_flight = @ + 1] = Counted(st, 0, -1, 1)
<1> DEFINE more == [st EXCEPT !.chunks_in_flight = @ + 1]
           less == [st EXCEPT !.chunks_in_flight = @ - 1]
<1>1. /\ [st EXCEPT !.shards_posted = @ + 1] = Counted(st, 1, 0, 0)
      /\ more = Counted(st, 0, 1, 0) /\ less = Counted(st, 0, -1, 0)
      /\ [st EXCEPT !.writes_in_flight = @ - 1] = Counted(st, 0, 0, -1)
  BY CountedOnce, Zenon
<1>2. Counted(st, 0, 1, 0) \in FileStates /\ Counted(st, 0, -1, 0) \in FileStates
  BY CountedFacts
<1> HIDE DEF more, less
<1>3. more \in FileStates /\ less \in FileStates
  BY <1>1, <1>2, Zenon
<1>4. [more EXCEPT !.shards_posted = @ + 1] = Counted(more, 1, 0, 0)
  BY <1>3, CountedOnce, Zenon
<1>5. [less EXCEPT !.writes_in_flight = @ + 1] = Counted(less, 0, 0, 1)
  BY <1>3, CountedOnce, Zenon
<1>6. /\ [more EXCEPT !.shards_posted = @ + 1] = Counted(st, 1, 1, 0)
      /\ [less EXCEPT !.writes_in_flight = @ + 1] = Counted(st, 0, -1, 1)
  BY <1>1, <1>4, <1>5, CountedTwice, Zenon
<1> QED BY <1>1, <1>6, Zenon DEF more, less

(* How each step of the main thread changes a FileState and the queues.     *)
LEMMA PostChunkFiles ==
  ASSUME TypeOK, NEW r \in Ranks, PostChunk(r)
  PROVE  LET f == NextShard(r).file
             st == file_state[r][f]
         IN /\ f \in Files /\ st \in FileStates
            /\ \/ /\ ~active'[r]
                  /\ MaybeCloseFile(r, f, Counted(st, 1, 1, 0), cmds[r])
               \/ /\ active'[r]
                  /\ file_state' = [file_state EXCEPT ![r][f] = Counted(st, 0, 1, 0)]
                  /\ cmds' = cmds
<1> DEFINE f == NextShard(r).file
           st == file_state[r][f]
           one == [st EXCEPT !.chunks_in_flight = @ + 1]
           two == [one EXCEPT !.shards_posted = @ + 1]
<1>1. NextShard(r) \in Shard /\ active'[r] = ~(post_offset[r] + NextLen(r) >= NextShard(r).len)
  BY PostChunkEffect
<1>2. f \in Files
  BY <1>1 DEF Shard
<1>3. st \in FileStates
  BY <1>2 DEF TypeOK
<1>4. \/ /\ post_offset[r] + NextLen(r) >= NextShard(r).len
         /\ MaybeCloseFile(r, f, two, cmds[r])
      \/ /\ ~(post_offset[r] + NextLen(r) >= NextShard(r).len)
         /\ file_state' = [file_state EXCEPT ![r][f] = one]
         /\ cmds' = cmds
  BY Zenon DEF PostChunk, NextShard, NextLen
<1> HIDE DEF f, st
<1>5. one = Counted(st, 0, 1, 0) /\ two = Counted(st, 1, 1, 0)
  BY <1>3, CountedForms
<1> HIDE DEF one, two
<1> QED BY <1>1, <1>2, <1>3, <1>4, <1>5 DEF f, st

(* What the completion of a sub-broadcast does, without its records.        *)
LEMMA CompleteEffect ==
  ASSUME TypeOK, NEW r \in Ranks, NEW e \in in_flight[r], Complete(r, e[1], e[2])
  PROVE  LET c == wire[r][e[1]]
             st == file_state[r][c.file]
         IN /\ e[1] \in DOMAIN wire[r] /\ e[1] \in Nat /\ e[2] \in Nat /\ e = <<e[1], e[2]>>
            /\ c \in Chunks /\ c.slot \in Slots /\ c.file \in Files /\ c.root \in Ranks
            /\ c.n \in Nat /\ c.off \in Nat /\ Write(c) \in Commands
            /\ st \in FileStates
            /\ pc[r] = "wait" /\ pc'[r] = "post" /\ result'[r] = result[r]
            /\ next_plan_idx' = next_plan_idx /\ active' = active /\ post_offset' = post_offset
            /\ wire' = wire /\ acks' = acks
            /\ mem'[r] = [mem[r] EXCEPT ![c.slot] = Received(r, e[1], e[2])]
            /\ in_flight'[r] = in_flight[r] \ {e}
            /\ subs'[r] = [subs[r] EXCEPT ![c.slot] = @ - 1]
            /\ \/ /\ ~SlotReleased(r, c.slot)
                  /\ UNCHANGED <<home, free_slots, writes_pending, file_state, cmds>>
               \/ /\ SlotReleased(r, c.slot) /\ NeedsWrite(r, c.file)
                  /\ home'[r] = [home[r] EXCEPT ![c.slot] = FALSE]
                  /\ writes_pending'[r] = writes_pending[r] + 1
                  /\ free_slots' = free_slots
                  /\ MaybeCloseFile(r, c.file, Counted(st, 0, -1, 1), Enqueue(cmds[r], Write(c)))
               \/ /\ SlotReleased(r, c.slot) /\ ~NeedsWrite(r, c.file)
                  /\ home' = home /\ writes_pending' = writes_pending
                  /\ free_slots'[r] = Append(free_slots[r], c.slot)
                  /\ MaybeCloseFile(r, c.file, Counted(st, 0, -1, 0), cmds[r])
<1> DEFINE k == e[1]
           c == wire[r][k]
           st == file_state[r][c.file]
           less == [st EXCEPT !.chunks_in_flight = @ - 1]
           moved == [less EXCEPT !.writes_in_flight = @ + 1]
<1>1. wire[r] \in Seq(Chunks) /\ e \in (DOMAIN wire[r]) \X Nat
  BY DEF TypeOK
<1>2. k \in DOMAIN wire[r] /\ k \in Nat /\ e[2] \in Nat /\ e = <<e[1], e[2]>> /\ c \in Chunks
  BY <1>1
<1>3. c.slot \in Slots /\ c.file \in Files /\ c.root \in Ranks /\ c.n \in Nat /\ c.off \in Nat
  BY <1>2 DEF Chunks
<1>4. st \in FileStates
  BY <1>3, ZenonT(60) DEF TypeOK
<1>5. Write(c) \in Commands
  BY <1>2, CommandTypes
<1>6. /\ pc[r] = "wait" /\ pc' = [pc EXCEPT ![r] = "post"]
      /\ UNCHANGED <<result, next_plan_idx, active, post_offset, wire, acks>>
      /\ mem' = [mem EXCEPT ![r][c.slot] = Received(r, k, e[2])]
      /\ in_flight' = [in_flight EXCEPT ![r] = @ \ {<<k, e[2]>>}]
      /\ subs' = [subs EXCEPT ![r][c.slot] = @ - 1]
  BY DEF Complete, cursorVars, writerVars
<1>7. \/ /\ ~SlotReleased(r, c.slot)
         /\ UNCHANGED <<home, free_slots, writes_pending, file_state, cmds>>
      \/ /\ SlotReleased(r, c.slot) /\ NeedsWrite(r, c.file)
         /\ home' = [home EXCEPT ![r][c.slot] = FALSE]
         /\ writes_pending' = [writes_pending EXCEPT ![r] = @ + 1]
         /\ free_slots' = free_slots
         /\ MaybeCloseFile(r, c.file, moved, Enqueue(cmds[r], Write(c)))
      \/ /\ SlotReleased(r, c.slot) /\ ~NeedsWrite(r, c.file)
         /\ home' = home /\ writes_pending' = writes_pending
         /\ free_slots' = [free_slots EXCEPT ![r] = Append(@, c.slot)]
         /\ MaybeCloseFile(r, c.file, less, cmds[r])
  <2>1. CASE ~SlotReleased(r, c.slot)
    BY <2>1 DEF Complete, poolVars, fileVars
  <2>2. CASE SlotReleased(r, c.slot) /\ NeedsWrite(r, c.file)
    BY <2>2, Zenon DEF Complete
  <2>3. CASE SlotReleased(r, c.slot) /\ ~NeedsWrite(r, c.file)
    BY <2>3, Zenon DEF Complete
  <2> QED BY <2>1, <2>2, <2>3, Zenon
<1> HIDE DEF c, st
<1>8. less = Counted(st, 0, -1, 0) /\ moved = Counted(st, 0, -1, 1)
  BY <1>4, CountedForms
<1> HIDE DEF less, moved
<1>9. /\ pc'[r] = "post" /\ result'[r] = result[r]
      /\ mem'[r] = [mem[r] EXCEPT ![c.slot] = Received(r, k, e[2])]
      /\ in_flight'[r] = in_flight[r] \ {e}
      /\ subs'[r] = [subs[r] EXCEPT ![c.slot] = @ - 1]
  BY <1>2, <1>6 DEF TypeOK
<1>10. \/ /\ ~SlotReleased(r, c.slot)
          /\ UNCHANGED <<home, free_slots, writes_pending, file_state, cmds>>
       \/ /\ SlotReleased(r, c.slot) /\ NeedsWrite(r, c.file)
          /\ home'[r] = [home[r] EXCEPT ![c.slot] = FALSE]
          /\ writes_pending'[r] = writes_pending[r] + 1
          /\ free_slots' = free_slots
          /\ MaybeCloseFile(r, c.file, Counted(st, 0, -1, 1), Enqueue(cmds[r], Write(c)))
       \/ /\ SlotReleased(r, c.slot) /\ ~NeedsWrite(r, c.file)
          /\ home' = home /\ writes_pending' = writes_pending
          /\ free_slots'[r] = Append(free_slots[r], c.slot)
          /\ MaybeCloseFile(r, c.file, Counted(st, 0, -1, 0), cmds[r])
  BY <1>7, <1>8 DEF TypeOK
<1> QED BY <1>2, <1>3, <1>4, <1>5, <1>6, <1>9, <1>10 DEF c, st

(* What taking an acknowledgement does.                                     *)
LEMMA TakeAckEffect ==
  ASSUME TypeOK, NEW r \in Ranks, TakeAck(r)
  PROVE  LET a == Head(acks[r])
             st == file_state[r][a.file]
         IN /\ acks[r] \in Seq(Acks) /\ acks[r] # <<>> /\ a \in Acks /\ a.file \in Files /\ a.slot \in Slots
            /\ st \in FileStates /\ acks'[r] = Tail(acks[r])
            /\ pc[r] \in {"drain", "recv"}
            /\ UNCHANGED <<cursorVars, bcastVars, files, deferred, exited, disk, synced, faultVars>>
            /\ \/ /\ a.err /\ result'[r] = "err" /\ UNCHANGED <<poolVars, fileVars>>
               \/ /\ ~a.err /\ result'[r] = result[r]
                  /\ home'[r] = [home[r] EXCEPT ![a.slot] = TRUE]
                  /\ free_slots'[r] = Append(free_slots[r], a.slot)
                  /\ writes_pending'[r] = writes_pending[r] - 1
                  /\ MaybeCloseFile(r, a.file, Counted(st, 0, 0, -1), cmds[r])
<1> DEFINE a == Head(acks[r])
           st == file_state[r][a.file]
           less == [st EXCEPT !.writes_in_flight = @ - 1]
<1>1. acks[r] \in Seq(Acks) /\ acks[r] # <<>>
  BY DEF TakeAck, TypeOK
<1>2. a \in Acks
  BY <1>1, TailFacts
<1>3. a.file \in Files /\ a.slot \in Slots
  BY <1>2 DEF Acks
<1>4. st \in FileStates
  BY <1>3 DEF TypeOK
<1>5. /\ acks' = [acks EXCEPT ![r] = Tail(@)] /\ pc[r] \in {"drain", "recv"}
      /\ UNCHANGED <<cursorVars, bcastVars, files, deferred, exited, disk, synced, faultVars>>
  BY DEF TakeAck
<1>6. \/ /\ a.err /\ result' = [result EXCEPT ![r] = "err"] /\ UNCHANGED <<poolVars, fileVars>>
      \/ /\ ~a.err /\ result' = result
         /\ home' = [home EXCEPT ![r][a.slot] = TRUE]
         /\ free_slots' = [free_slots EXCEPT ![r] = Append(@, a.slot)]
         /\ writes_pending' = [writes_pending EXCEPT ![r] = @ - 1]
         /\ MaybeCloseFile(r, a.file, less, cmds[r])
  <2>1. CASE a.err
    BY <2>1, Zenon DEF TakeAck
  <2>2. CASE ~a.err
    BY <2>2, Zenon DEF TakeAck
  <2> QED BY <2>1, <2>2
<1> HIDE DEF a, st
<1>7. less = Counted(st, 0, 0, -1)
  BY <1>4, CountedForms
<1> HIDE DEF less
<1>8. \/ /\ a.err /\ result'[r] = "err" /\ UNCHANGED <<poolVars, fileVars>>
      \/ /\ ~a.err /\ result'[r] = result[r]
         /\ home'[r] = [home[r] EXCEPT ![a.slot] = TRUE]
         /\ free_slots'[r] = Append(free_slots[r], a.slot)
         /\ writes_pending'[r] = writes_pending[r] - 1
         /\ MaybeCloseFile(r, a.file, Counted(st, 0, 0, -1), cmds[r])
  BY <1>6, <1>7 DEF TypeOK
<1>9. acks'[r] = Tail(acks[r])
  BY <1>5 DEF TypeOK
<1> QED BY <1>1, <1>2, <1>3, <1>4, <1>5, <1>8, <1>9 DEF a, st

(* What the start of a shard does.                                          *)
LEMMA StartShardEffect ==
  ASSUME TypeOK, NEW r \in Ranks, StartShard(r)
  PROVE  LET i == next_plan_idx[r] + 1
             s == Plan[i]
             st == file_state[r][s.file]
             opens == NeedsWrite(r, s.file) /\ ~st.opened
             st1 == [st EXCEPT !.opened = @ \/ opens]
             Q == IF opens THEN Enqueue(cmds[r], OpenFile(s.file)) ELSE cmds[r]
         IN /\ pc[r] = "post" /\ ~active[r] /\ i \in DOMAIN Plan /\ i \in Nat
            /\ s \in Shard /\ s.file \in Files /\ s.len \in Nat /\ s.off \in Nat
            /\ st \in FileStates
            /\ st1 \in FileStates
            /\ st1.opened = (st.opened \/ opens) /\ st1.closed = st.closed
            /\ st1.shards_posted = st.shards_posted
            /\ st1.chunks_in_flight = st.chunks_in_flight
            /\ st1.writes_in_flight = st.writes_in_flight
            /\ Q \in [Writers -> Seq(Commands)]
            /\ next_plan_idx'[r] = i /\ post_offset'[r] = 0
            /\ UNCHANGED <<pc, result, poolVars, bcastVars, writerVars, faultVars>>
            /\ \/ /\ s.len = 0 /\ active'[r] = FALSE
                  /\ MaybeCloseFile(r, s.file, Counted(st1, 1, 0, 0), Q)
               \/ /\ s.len # 0 /\ active'[r] = TRUE
                  /\ file_state' = [file_state EXCEPT ![r][s.file] = st1]
                  /\ cmds' = [cmds EXCEPT ![r] = Q]
<1> DEFINE i == next_plan_idx[r] + 1
           s == Plan[i]
           st == file_state[r][s.file]
           opens == NeedsWrite(r, s.file) /\ ~st.opened
           st1 == [st EXCEPT !.opened = @ \/ opens]
           Q == IF opens THEN Enqueue(cmds[r], OpenFile(s.file)) ELSE cmds[r]
<1>1. next_plan_idx[r] \in 0 .. Len(Plan) /\ next_plan_idx[r] < Len(Plan) /\ Len(Plan) \in Nat
  BY BroadcastAssumption DEF StartShard, TypeOK
<1>2. i \in 1 .. Len(Plan) /\ i \in Nat /\ i \in DOMAIN Plan
  BY <1>1, BroadcastAssumption
<1>3. s \in Shard /\ s.file \in Files /\ s.len \in Nat /\ s.off \in Nat
  BY <1>2, PlanShard DEF Shard
<1>4. st \in FileStates
  BY <1>3 DEF TypeOK
<1>5. /\ st1 \in FileStates
      /\ st1.opened = (st.opened \/ opens) /\ st1.closed = st.closed
      /\ st1.shards_posted = st.shards_posted
      /\ st1.chunks_in_flight = st.chunks_in_flight
      /\ st1.writes_in_flight = st.writes_in_flight
  <2>1. (st.opened \/ opens) \in BOOLEAN
    BY Zenon
  <2> HIDE DEF opens, st
  <2>2. ASSUME NEW b \in BOOLEAN
        PROVE  /\ [st EXCEPT !.opened = b] \in FileStates
               /\ [st EXCEPT !.opened = b].opened = b
               /\ [st EXCEPT !.opened = b].closed = st.closed
               /\ [st EXCEPT !.opened = b].shards_posted = st.shards_posted
               /\ [st EXCEPT !.opened = b].chunks_in_flight = st.chunks_in_flight
               /\ [st EXCEPT !.opened = b].writes_in_flight = st.writes_in_flight
    BY <1>4 DEF FileStates
  <2> QED BY <2>1, <2>2, Zenon
<1>6. Q \in [Writers -> Seq(Commands)]
  BY <1>3, OpenKeeps DEF TypeOK
<1>7. /\ next_plan_idx' = [next_plan_idx EXCEPT ![r] = i]
      /\ post_offset' = [post_offset EXCEPT ![r] = 0]
      /\ ~active[r] /\ pc[r] = "post"
      /\ UNCHANGED <<pc, result, poolVars, bcastVars, writerVars, faultVars>>
  BY DEF StartShard
<1>8. next_plan_idx'[r] = i /\ post_offset'[r] = 0
  BY <1>7 DEF TypeOK
<1>9. \/ /\ s.len = 0 /\ active' = active
         /\ MaybeCloseFile(r, s.file, [st1 EXCEPT !.shards_posted = @ + 1], Q)
      \/ /\ s.len # 0 /\ active' = [active EXCEPT ![r] = TRUE]
         /\ file_state' = [file_state EXCEPT ![r][s.file] = st1]
         /\ cmds' = [cmds EXCEPT ![r] = Q]
  <2>1. CASE s.len = 0
    BY <2>1, Zenon DEF StartShard
  <2>2. CASE s.len # 0
    BY <2>2, Zenon DEF StartShard
  <2> QED BY <2>1, <2>2
<1> HIDE DEF st1, s, Q, i
<1>10. [st1 EXCEPT !.shards_posted = @ + 1] = Counted(st1, 1, 0, 0)
  BY <1>5, CountedForms
<1>11. \/ /\ s.len = 0 /\ active'[r] = FALSE
          /\ MaybeCloseFile(r, s.file, Counted(st1, 1, 0, 0), Q)
       \/ /\ s.len # 0 /\ active'[r] = TRUE
          /\ file_state' = [file_state EXCEPT ![r][s.file] = st1]
          /\ cmds' = [cmds EXCEPT ![r] = Q]
  <2>1. active'[r] = FALSE \/ s.len # 0
    BY <1>7, <1>9 DEF TypeOK
  <2>2. active'[r] = TRUE \/ s.len = 0
    BY <1>9 DEF TypeOK
  <2> QED BY <1>9, <1>10, <2>1, <2>2, Zenon
<1> QED BY <1>2, <1>3, <1>4, <1>5, <1>6, <1>7, <1>8, <1>11, Zenon DEF st1, s, Q, i

(* The sub-broadcasts of the chunk just posted are the ones now flying from *)
(* its slot; the other slots keep theirs.                                   *)
LEMMA FlyingPosted ==
  ASSUME TypeOK, NEW r \in Ranks, PostChunk(r), IsFiniteSet(in_flight[r]),
         Flying(r, Head(free_slots[r])) = {}
  PROVE  LET slot == Head(free_slots[r])
             new == {NextIndex(r)} \X (1 .. SubCount(NextLen(r)))
         IN /\ IsFiniteSet(in_flight'[r])
            /\ \A s \in Slots : s = slot => Flying(r, s)' = new
            /\ Cardinality(new) = SubCount(NextLen(r)) /\ new # {}
            /\ \A s \in Slots : s # slot => Flying(r, s)' = Flying(r, s)
            /\ \A e \in in_flight[r] : e[1] \in DOMAIN wire[r] /\ wire'[r][e[1]] = wire[r][e[1]]
                                       /\ wire[r][e[1]].slot # slot
            /\ \A e \in new : e[1] = NextIndex(r) /\ wire'[r][e[1]] = NextChunk(r)
<1> DEFINE slot == Head(free_slots[r])
           k == NextIndex(r)
           m == SubCount(NextLen(r))
           new == {k} \X (1 .. m)
           F == in_flight[r]
           G == in_flight'[r]
           v == wire[r]
           w == wire'[r]
           c == NextChunk(r)
<1>1. /\ G = F \cup new /\ v \in Seq(Chunks) /\ w = Append(v, c) /\ c \in Chunks
      /\ c.slot = slot /\ NextLen(r) \in 1 .. Chunk /\ k = Len(v) + 1
  BY PostChunkEffect DEF NextIndex
<1>2. m \in Nat \ {0}
  <2>1. NextLen(r) \in Nat \ {0}
    BY <1>1, BroadcastAssumption
  <2> QED BY <2>1, SubCountPositive
<1>3. F \subseteq (DOMAIN v) \X Nat
  BY DEF TypeOK
<1>4. /\ \A i \in DOMAIN v : w[i] = v[i]
      /\ w[k] = c
  BY <1>1, AppendFacts
<1>5. IsFiniteSet(new) /\ Cardinality(new) = m
  <2>1. IsFiniteSet(1 .. m) /\ Cardinality(1 .. m) = m
    BY <1>2, FS_Interval
  <2>2. IsFiniteSet({k}) /\ Cardinality({k}) = 1
    BY FS_Singleton
  <2>3. /\ IsFiniteSet({k} \X (1 .. m))
        /\ Cardinality({k} \X (1 .. m)) = Cardinality({k}) * Cardinality(1 .. m)
    BY <2>1, <2>2, FS_Product, Zenon
  <2>4. Cardinality({k}) * Cardinality(1 .. m) = m
    BY <2>1, <2>2, <1>2
  <2> QED BY <2>3, <2>4
<1>6. new # {}
  <2>1. <<k, 1>> \in new
    BY <1>2
  <2> QED BY <2>1
<1>7. IsFiniteSet(G)
  <2> HIDE DEF new
  <2>1. IsFiniteSet(F \cup new)
    BY <1>5, FS_Union, Zenon
  <2> QED BY <1>1, <2>1
<1>8. \A e \in F : e[1] \in DOMAIN v /\ w[e[1]] = v[e[1]] /\ v[e[1]].slot # slot
  BY <1>3, <1>4 DEF Flying
<1>9. \A e \in new : e[1] = k
  OBVIOUS
<1> HIDE DEF new, k, c, slot, F, G, v, w
<1>10. {e \in G : w[e[1]].slot = slot} = new
  <2>1. ASSUME NEW e \in G, w[e[1]].slot = slot PROVE e \in new
    <3>1. e \in F \/ e \in new
      BY <1>1
    <3> QED BY <2>1, <3>1, <1>8
  <2>2. ASSUME NEW e \in new PROVE e \in G /\ w[e[1]].slot = slot
    BY <1>1, <1>4, <1>9
  <2> QED BY <2>1, <2>2
<1>11. \A s \in Slots : s # slot => {e \in G : w[e[1]].slot = s} = {e \in F : v[e[1]].slot = s}
  <2> SUFFICES ASSUME NEW s \in Slots, s # slot
               PROVE  {e \in G : w[e[1]].slot = s} = {e \in F : v[e[1]].slot = s}
    OBVIOUS
  <2>1. ASSUME NEW e \in G, w[e[1]].slot = s PROVE e \in F /\ v[e[1]].slot = s
    <3>1. e \in F \/ e \in new
      BY <1>1
    <3>2. e \notin new
      BY <2>1, <1>1, <1>4, <1>9
    <3> QED BY <2>1, <3>1, <3>2, <1>8
  <2>2. ASSUME NEW e \in F, v[e[1]].slot = s PROVE e \in G /\ w[e[1]].slot = s
    BY <2>2, <1>1, <1>8
  <2> QED BY <2>1, <2>2
<1>12. \A s \in Slots : s = slot => Flying(r, s)' = new
  BY <1>10 DEF Flying, F, G, v, w
<1>13. \A s \in Slots : s # slot => Flying(r, s)' = Flying(r, s)
  BY <1>11 DEF Flying, F, G, v, w
<1>14. /\ IsFiniteSet(G) /\ Cardinality(new) = m
       /\ \A e \in new : e[1] = k /\ w[e[1]] = c
  BY <1>4, <1>5, <1>7, <1>9
<1> QED BY <1>6, <1>8, <1>12, <1>13, <1>14
       DEF new, k, c, slot, F, G, v, w

(* post_chunk takes a free buffer, and puts it under the collectives of the *)
(* chunk.                                                                   *)
LEMMA PoolPostChunk ==
  ASSUME TypeOK, NEW r \in Ranks, Pool(r), PostChunk(r)
  PROVE  Pool(r)'
<1> DEFINE slot == Head(free_slots[r])
           m == SubCount(NextLen(r))
           k == NextIndex(r)
           new == {NextIndex(r)} \X (1 .. m)
<1>1. /\ result'[r] = result[r] /\ home'[r] = home[r] /\ writes_pending'[r] = writes_pending[r]
      /\ free_slots'[r] = Tail(free_slots[r]) /\ free_slots[r] \in Seq(Slots)
      /\ free_slots[r] # <<>> /\ slot \in Slots
      /\ subs'[r] = [subs[r] EXCEPT ![slot] = @ + m] /\ acks'[r] = acks[r]
      /\ in_flight'[r] = in_flight[r] \cup new
      /\ NextChunk(r).slot = slot /\ NextLen(r) \in 1 .. Chunk
  BY PostChunkEffect
<1> SUFFICES ASSUME result[r] = "ok" PROVE Pool(r)'
  BY <1>1 DEF Pool
<1>2. /\ IsFiniteSet(in_flight[r]) /\ OnceIn(cmds[r], acks[r])
      /\ NoneTwice(free_slots[r])
      /\ \A d, e \in in_flight[r] : wire[r][d[1]].slot = wire[r][e[1]].slot => d[1] = e[1]
      /\ \A s \in Slots :
           /\ subs[r][s] = Cardinality(Flying(r, s))
           /\ home[r][s] = ~HasWriter(r, s)
           /\ Among(free_slots[r], s) = (home[r][s] /\ Flying(r, s) = {})
           /\ Flying(r, s) # {} => home[r][s]
      /\ writes_pending[r] = Cardinality({s \in Slots : ~home[r][s]})
  BY DEF Pool, NoneTwice, Among, IsFree
<1>3. /\ Among(free_slots[r], slot) /\ NoneTwice(Tail(free_slots[r]))
      /\ \A s : Among(Tail(free_slots[r]), s) = (Among(free_slots[r], s) /\ s # slot)
  BY <1>1, <1>2, HeadOut
<1>4. home[r][slot] /\ Flying(r, slot) = {} /\ subs[r][slot] = 0
  BY <1>1, <1>2, <1>3, FS_EmptySet
<1>5. /\ IsFiniteSet(in_flight'[r])
      /\ \A s \in Slots : s = slot => Flying(r, s)' = new
      /\ Cardinality(new) = m /\ new # {}
      /\ \A s \in Slots : s # slot => Flying(r, s)' = Flying(r, s)
      /\ \A e \in in_flight[r] : /\ e[1] \in DOMAIN wire[r] /\ wire'[r][e[1]] = wire[r][e[1]]
                                 /\ wire[r][e[1]].slot # slot
      /\ \A e \in new : e[1] = k /\ wire'[r][e[1]] = NextChunk(r)
  BY <1>2, <1>4, FlyingPosted
<1>6. /\ cmds[r] \in [Writers -> Seq(Commands)] /\ acks[r] \in Seq(Acks)
      /\ subs[r] \in [Slots -> Int]
  BY DEF TypeOK
<1>7. /\ \A s, f : OnWriter(cmds'[r], acks[r], s, f) = OnWriter(cmds[r], acks[r], s, f)
      /\ OnceIn(cmds'[r], acks[r])
  <2> DEFINE f == NextShard(r).file
             st == file_state[r][f]
  <2>1. /\ f \in Files /\ st \in FileStates
        /\ MaybeCloseFile(r, f, Counted(st, 1, 1, 0), cmds[r]) \/ cmds' = cmds
    BY PostChunkFiles
  <2>2. Counted(st, 1, 1, 0) \in FileStates
    BY <2>1, CountedFacts
  <2> HIDE DEF f, st
  <2> QED BY <1>2, <1>6, <2>1, <2>2, MaybeCloseKeeps
<1>8. \A s : HasWriter(r, s)' = HasWriter(r, s)
  BY <1>1, <1>7 DEF HasWriter
<1>9. m \in Nat
  <2>1. NextLen(r) \in Nat
    BY <1>1, BroadcastAssumption
  <2> QED BY <2>1, SubCountNat
<1>10. \A s : IsFree(r, s)' = Among(Tail(free_slots[r]), s)
  BY <1>1 DEF IsFree, Among
<1>11. \A d, e \in in_flight'[r] : wire'[r][d[1]].slot = wire'[r][e[1]].slot => d[1] = e[1]
  BY <1>1, <1>2, <1>5
<1>12. ASSUME NEW s \in Slots
       PROVE  /\ subs'[r][s] = Cardinality(Flying(r, s)')
              /\ home'[r][s] = ~HasWriter(r, s)'
              /\ IsFree(r, s)' = (home'[r][s] /\ Flying(r, s)' = {})
              /\ Flying(r, s)' # {} => home'[r][s]
  <2>0. home'[r][s] = home[r][s] /\ HasWriter(r, s)' = HasWriter(r, s)
    BY <1>1, <1>8
  <2>3. home'[r][s] = ~HasWriter(r, s)'
    BY <1>2, <2>0, Zenon
  <2>4. IsFree(r, s)' \in BOOLEAN
    BY Zenon DEF IsFree
  <2> HIDE DEF slot, new, m
  <2>1. CASE s = slot
    <3>1. subs'[r][s] = m
      BY <1>1, <1>4, <1>6, <1>9, <2>1
    <3>2. ~IsFree(r, s)'
      BY <1>3, <1>10, <2>1
    <3>3. Flying(r, s)' = new /\ new # {} /\ Cardinality(new) = m
      BY <1>5, <2>1, Zenon
    <3>4. home'[r][s]
      BY <1>4, <2>0, <2>1, Zenon
    <3> QED BY <3>4, <3>1, <3>2, <3>3, <2>3, <2>4, Zenon
  <2>2. CASE s # slot
    <3>1. subs'[r][s] = subs[r][s] /\ Flying(r, s)' = Flying(r, s)
      BY <1>1, <1>5, <1>6, <2>2
    <3>2. IsFree(r, s)' = Among(free_slots[r], s)
      BY <1>3, <1>10, <2>2 DEF Among
    <3> QED BY <1>2, <2>0, <2>3, <3>1, <3>2, Zenon
  <2> QED BY <2>1, <2>2
<1>13. NoneTwice(free_slots'[r])
  BY <1>1, <1>3
<1>14. writes_pending'[r] = Cardinality({s \in Slots : ~home'[r][s]})
  BY <1>1, <1>2
<1> QED BY <1>1, <1>5, <1>7, <1>11, <1>12, <1>13, <1>14 DEF Pool, NoneTwice

(* One sub-broadcast less is flying from its chunk's slot.                  *)
LEMMA FlyingCompleted ==
  ASSUME TypeOK, NEW r \in Ranks, NEW e \in in_flight[r], IsFiniteSet(in_flight[r]),
         wire' = wire, in_flight'[r] = in_flight[r] \ {e}
  PROVE  \A s \in Slots :
           /\ s = wire[r][e[1]].slot =>
                /\ Flying(r, s)' = Flying(r, s) \ {e}
                /\ Cardinality(Flying(r, s)') = Cardinality(Flying(r, s)) - 1
                /\ (Flying(r, s)' = {}) = (Cardinality(Flying(r, s)) = 1)
                /\ Flying(r, s) # {} /\ Cardinality(Flying(r, s)) \in Nat
           /\ s # wire[r][e[1]].slot => Flying(r, s)' = Flying(r, s)
<1> SUFFICES ASSUME NEW s \in Slots
             PROVE  /\ s = wire[r][e[1]].slot =>
                         /\ Flying(r, s)' = Flying(r, s) \ {e}
                         /\ Cardinality(Flying(r, s)') = Cardinality(Flying(r, s)) - 1
                         /\ (Flying(r, s)' = {}) = (Cardinality(Flying(r, s)) = 1)
                         /\ Flying(r, s) # {} /\ Cardinality(Flying(r, s)) \in Nat
                    /\ s # wire[r][e[1]].slot => Flying(r, s)' = Flying(r, s)
  OBVIOUS
<1>1. CASE s = wire[r][e[1]].slot
  <2> DEFINE F == Flying(r, s)
             G == Flying(r, s) \ {e}
  <2>1. Flying(r, s)' = G /\ e \in F
    BY <1>1 DEF Flying
  <2>2. IsFiniteSet(F)
    <3>1. F \in SUBSET in_flight[r]
      BY DEF Flying
    <3> QED BY <3>1, FS_Subset, Zenon
  <2> HIDE DEF F
  <2>r. /\ IsFiniteSet(F \ {e})
        /\ Cardinality(F \ {e}) = IF e \in F THEN Cardinality(F) - 1 ELSE Cardinality(F)
    BY <2>2, FS_RemoveElement, Zenon
  <2>3. IsFiniteSet(G) /\ Cardinality(G) = Cardinality(F) - 1
    BY <2>1, <2>r DEF F
  <2>4. Cardinality(F) \in Nat /\ Cardinality(G) \in Nat
    BY <2>2, <2>3, FS_CardinalityType
  <2>5. Cardinality(G) = 0 <=> G = {}
    BY <2>3, FS_EmptySet
  <2> HIDE DEF G
  <2>6. (G = {}) = (Cardinality(F) = 1)
    BY <2>3, <2>4, <2>5
  <2>7. F # {}
    BY <2>1
  <2> QED BY <1>1, <2>1, <2>3, <2>4, <2>6, <2>7 DEF F, G
<1>2. CASE s # wire[r][e[1]].slot
  BY <1>2 DEF Flying
<1> QED BY <1>1, <1>2

(* The last completion of a chunk gives the buffer back, or hands it to the *)
(* writer.                                                                  *)
LEMMA PoolComplete ==
  ASSUME TypeOK, NEW r \in Ranks, Pool(r), NEW e \in in_flight[r], Complete(r, e[1], e[2])
  PROVE  Pool(r)'
<1> DEFINE c == wire[r][e[1]]
           slot == c.slot
           st == file_state[r][c.file]
           cmd == Write(c)
           Q == Enqueue(cmds[r], cmd)
           moved == Counted(st, 0, -1, 1)
           less == Counted(st, 0, -1, 0)
<1>1. /\ c \in Chunks /\ slot \in Slots /\ c.file \in Files /\ Write(c) \in Commands
      /\ st \in FileStates
      /\ result'[r] = result[r] /\ wire' = wire /\ acks' = acks
      /\ in_flight'[r] = in_flight[r] \ {e}
      /\ subs'[r] = [subs[r] EXCEPT ![slot] = @ - 1]
      /\ \/ /\ ~SlotReleased(r, slot)
            /\ UNCHANGED <<home, free_slots, writes_pending, file_state, cmds>>
         \/ /\ SlotReleased(r, slot) /\ NeedsWrite(r, c.file)
            /\ home'[r] = [home[r] EXCEPT ![slot] = FALSE]
            /\ writes_pending'[r] = writes_pending[r] + 1
            /\ free_slots' = free_slots
            /\ MaybeCloseFile(r, c.file, moved, Q)
         \/ /\ SlotReleased(r, slot) /\ ~NeedsWrite(r, c.file)
            /\ home' = home /\ writes_pending' = writes_pending
            /\ free_slots'[r] = Append(free_slots[r], slot)
            /\ MaybeCloseFile(r, c.file, less, cmds[r])
  BY CompleteEffect
<1> SUFFICES ASSUME result[r] = "ok" PROVE Pool(r)'
  BY <1>1 DEF Pool
<1>2. /\ IsFiniteSet(in_flight[r]) /\ OnceIn(cmds[r], acks[r])
      /\ NoneTwice(free_slots[r])
      /\ \A d, g \in in_flight[r] : wire[r][d[1]].slot = wire[r][g[1]].slot => d[1] = g[1]
      /\ \A s \in Slots :
           /\ subs[r][s] = Cardinality(Flying(r, s))
           /\ home[r][s] = ~HasWriter(r, s)
           /\ Among(free_slots[r], s) = (home[r][s] /\ Flying(r, s) = {})
           /\ Flying(r, s) # {} => home[r][s]
      /\ writes_pending[r] = Cardinality({s \in Slots : ~home[r][s]})
  BY DEF Pool, NoneTwice, Among, IsFree
<1>3. \A s \in Slots :
        /\ s = slot =>
             /\ Flying(r, s)' = Flying(r, s) \ {e}
             /\ Cardinality(Flying(r, s)') = Cardinality(Flying(r, s)) - 1
             /\ (Flying(r, s)' = {}) = (Cardinality(Flying(r, s)) = 1)
             /\ Flying(r, s) # {} /\ Cardinality(Flying(r, s)) \in Nat
        /\ s # slot => Flying(r, s)' = Flying(r, s)
  BY <1>1, <1>2, FlyingCompleted
<1>t. /\ cmds[r] \in [Writers -> Seq(Commands)] /\ acks[r] \in Seq(Acks)
      /\ subs[r] \in [Slots -> Int] /\ home[r] \in [Slots -> BOOLEAN]
      /\ free_slots[r] \in Seq(Slots)
  BY DEF TypeOK
<1>q. Q \in [Writers -> Seq(Commands)]
  <2>1. cmd \in Commands
    BY <1>1
  <2> HIDE DEF cmd
  <2> QED BY <2>1, <1>t, EnqueueType
<1>u. moved \in FileStates /\ less \in FileStates
  <2>1. ASSUME NEW x \in FileStates
        PROVE  Counted(x, 0, -1, 1) \in FileStates /\ Counted(x, 0, -1, 0) \in FileStates
    BY CountedFacts
  <2>2. st \in FileStates
    BY <1>1
  <2> HIDE DEF st
  <2> QED BY <2>1, <2>2
<1>4. home[r][slot] /\ ~HasWriter(r, slot) /\ ~Among(free_slots[r], slot)
  <2>1. Flying(r, slot) # {}
    BY <1>1, <1>3
  <2> QED BY <1>1, <1>2, <2>1
<1>5. (Cardinality(Flying(r, slot)) = 1) = SlotReleased(r, slot)
  BY <1>1, <1>2 DEF SlotReleased
<1>6. \A d, g \in in_flight'[r] : wire'[r][d[1]].slot = wire'[r][g[1]].slot => d[1] = g[1]
  BY <1>1, <1>2
<1>7. IsFiniteSet(in_flight'[r])
  BY <1>1, <1>2, FS_RemoveElement
<1>c. cmd.kind = "write" /\ cmd.slot = slot /\ cmd.file = c.file /\ cmd \in Commands
  BY <1>1 DEF Write
<1> HIDE DEF c, slot, st, cmd, Q, moved, less
<1>8. \A s \in Slots : subs'[r][s] = Cardinality(Flying(r, s)')
  <2> SUFFICES ASSUME NEW s \in Slots PROVE subs'[r][s] = Cardinality(Flying(r, s)')
    OBVIOUS
  <2>1. CASE s = slot
    BY <1>1, <1>2, <1>3, <1>t, <2>1
  <2>2. CASE s # slot
    BY <1>1, <1>2, <1>3, <1>t, <2>2
  <2> QED BY <2>1, <2>2
<1>9. \A s : IsFree(r, s)' = Among(free_slots'[r], s)
  BY DEF IsFree, Among
<1>10. SUFFICES /\ OnceIn(cmds'[r], acks[r]) /\ NoneTwice(free_slots'[r])
                /\ \A s \in Slots :
                     /\ home'[r][s] = ~HasWriter(r, s)'
                     /\ Among(free_slots'[r], s) = (home'[r][s] /\ Flying(r, s)' = {})
                     /\ Flying(r, s)' # {} => home'[r][s]
                /\ writes_pending'[r] = Cardinality({s \in Slots : ~home'[r][s]})
  BY <1>1, <1>6, <1>7, <1>8, <1>9 DEF Pool, NoneTwice
<1>11. CASE /\ ~SlotReleased(r, slot)
            /\ UNCHANGED <<home, free_slots, writes_pending, file_state, cmds>>
  <2>1. \A s : HasWriter(r, s)' = HasWriter(r, s)
    BY <1>1, <1>11 DEF HasWriter
  <2>2. ASSUME NEW s \in Slots
        PROVE  /\ home'[r][s] = ~HasWriter(r, s)'
               /\ Among(free_slots'[r], s) = (home'[r][s] /\ Flying(r, s)' = {})
               /\ Flying(r, s)' # {} => home'[r][s]
    <3>1. (Flying(r, s)' = {}) = (Flying(r, s) = {})
      BY <1>3, <1>5, <1>11
    <3> QED BY <1>2, <1>11, <2>1, <3>1
  <2> QED BY <1>2, <1>11, <2>2
<1>12. CASE /\ SlotReleased(r, slot) /\ NeedsWrite(r, c.file)
            /\ home'[r] = [home[r] EXCEPT ![slot] = FALSE]
            /\ writes_pending'[r] = writes_pending[r] + 1
            /\ free_slots' = free_slots
            /\ MaybeCloseFile(r, c.file, moved, Q)
  <2>1. \A f \in Files : ~OnWriter(cmds[r], acks[r], slot, f)
    BY <1>4 DEF HasWriter
  <2>2. /\ \A f \in Files : ~OnWriter(cmds[r], acks[r], cmd.slot, f)
        /\ cmd \in Commands
    BY <1>c, <2>1
  <2>3. /\ \A s, f : OnWriter(Q, acks[r], s, f)
                       = (OnWriter(cmds[r], acks[r], s, f) \/ (s = slot /\ f = c.file))
        /\ OnceIn(Q, acks[r])
    <3>1. /\ \A s, f : OnWriter(Enqueue(cmds[r], cmd), acks[r], s, f)
                         = (OnWriter(cmds[r], acks[r], s, f) \/ (s = cmd.slot /\ f = cmd.file))
          /\ OnceIn(cmds[r], acks[r]) => OnceIn(Enqueue(cmds[r], cmd), acks[r])
      BY <1>t, <1>c, <2>2, EnqueueWrite
    <3> QED BY <3>1, <1>2, <1>c, ZenonT(60) DEF Q
  <2>4. /\ \A s, f : OnWriter(cmds'[r], acks[r], s, f) = OnWriter(Q, acks[r], s, f)
        /\ OnceIn(cmds'[r], acks[r])
    <3>1. c.file \in Files /\ MaybeCloseFile(r, c.file, moved, Q)
      BY <1>1, <1>12
    <3>2. /\ \A s, f : OnWriter(cmds'[r], acks[r], s, f) = OnWriter(Q, acks[r], s, f)
          /\ OnceIn(Q, acks[r]) => OnceIn(cmds'[r], acks[r])
      BY <3>1, <1>t, <1>q, <1>u, MaybeCloseKeeps
    <3> QED BY <3>2, <2>3
  <2>5. ASSUME NEW s \in Slots PROVE HasWriter(r, s)' = (HasWriter(r, s) \/ s = slot)
    <3>1. HasWriter(r, s)' => HasWriter(r, s) \/ s = slot
      BY <1>1, <2>3, <2>4, ZenonT(60) DEF HasWriter
    <3>2. HasWriter(r, s) \/ s = slot => HasWriter(r, s)'
      BY <1>1, <2>3, <2>4, ZenonT(60) DEF HasWriter
    <3>3. HasWriter(r, s)' \in BOOLEAN /\ HasWriter(r, s) \in BOOLEAN
      BY Zenon DEF HasWriter
    <3> QED BY <3>1, <3>2, <3>3, Zenon
  <2>6. ASSUME NEW s \in Slots
        PROVE  /\ home'[r][s] = ~HasWriter(r, s)'
               /\ Among(free_slots'[r], s) = (home'[r][s] /\ Flying(r, s)' = {})
               /\ Flying(r, s)' # {} => home'[r][s]
    <3>0. free_slots'[r] = free_slots[r]
      BY <1>12
    <3>1. CASE s = slot
      <4>1. home'[r][s] = FALSE /\ HasWriter(r, s)' /\ Flying(r, s)' = {}
        BY <1>t, <1>12, <2>5, <1>3, <1>5, <3>1
      <4>2. Among(free_slots'[r], s) = FALSE
        BY <1>4, <3>0, <3>1 DEF Among
      <4>3. HasWriter(r, s)' = TRUE
        BY <4>1 DEF HasWriter
      <4> QED BY <4>1, <4>2, <4>3
    <3>2. CASE s # slot
      <4>1. home'[r][s] = home[r][s] /\ HasWriter(r, s)' = HasWriter(r, s)
        <5>1. home'[r][s] = home[r][s]
          BY <1>t, <1>12, <3>2
        <5>2. HasWriter(r, s) \in BOOLEAN
          BY Zenon DEF HasWriter
        <5> QED BY <5>1, <5>2, <2>5, <3>2, Zenon
      <4> QED BY <1>2, <1>3, <3>0, <3>2, <4>1
    <3> QED BY <3>1, <3>2
  <2>7. writes_pending'[r] = Cardinality({s \in Slots : ~home'[r][s]})
    <3> DEFINE S == {s \in Slots : ~home[r][s]}
    <3>1. IsFiniteSet(S) /\ slot \notin S
      <4>1. S \in SUBSET Slots
        OBVIOUS
      <4> QED BY <4>1, SlotsFinite, FS_Subset, <1>4
    <3>2. {s \in Slots : ~home'[r][s]} = S \cup {slot}
      BY <1>1, <1>t, <1>12
    <3> HIDE DEF S
    <3>3. Cardinality(S \cup {slot}) = Cardinality(S) + 1
      BY <3>1, FS_AddElement
    <3> QED BY <1>2, <1>12, <3>2, <3>3 DEF S
  <2> QED BY <1>2, <1>12, <2>4, <2>6, <2>7
<1>13. CASE /\ SlotReleased(r, slot) /\ ~NeedsWrite(r, c.file)
            /\ home' = home /\ writes_pending' = writes_pending
            /\ free_slots'[r] = Append(free_slots[r], slot)
            /\ MaybeCloseFile(r, c.file, less, cmds[r])
  <2>1. /\ \A s, f : OnWriter(cmds'[r], acks[r], s, f) = OnWriter(cmds[r], acks[r], s, f)
        /\ OnceIn(cmds'[r], acks[r])
    <3>1. c.file \in Files /\ MaybeCloseFile(r, c.file, less, cmds[r])
      BY <1>1, <1>13
    <3> QED BY <3>1, <1>2, <1>t, <1>u, MaybeCloseKeeps, SMTT(30)
  <2>2. \A s : HasWriter(r, s)' = HasWriter(r, s)
    BY <1>1, <2>1 DEF HasWriter
  <2>3. /\ NoneTwice(free_slots'[r])
        /\ \A s : Among(free_slots'[r], s) = (Among(free_slots[r], s) \/ s = slot)
    BY <1>1, <1>2, <1>4, <1>t, <1>13, BackIn
  <2>4. ASSUME NEW s \in Slots
        PROVE  /\ home'[r][s] = ~HasWriter(r, s)'
               /\ Among(free_slots'[r], s) = (home'[r][s] /\ Flying(r, s)' = {})
               /\ Flying(r, s)' # {} => home'[r][s]
    <3>1. home'[r][s] = home[r][s] /\ HasWriter(r, s)' = HasWriter(r, s)
      BY <1>13, <2>2
    <3>2. CASE s = slot
      <4>1. Flying(r, s)' = {} /\ home'[r][s]
        BY <1>3, <1>4, <1>5, <1>13, <3>1, <3>2
      <4> QED BY <1>2, <2>3, <3>1, <3>2, <4>1
    <3>3. CASE s # slot
      BY <1>2, <1>3, <2>3, <3>1, <3>3
    <3> QED BY <3>2, <3>3
  <2>5. writes_pending'[r] = Cardinality({s \in Slots : ~home'[r][s]})
    BY <1>2, <1>13
  <2> QED BY <2>1, <2>3, <2>4, <2>5
<1> QED BY <1>1, <1>11, <1>12, <1>13

(* An acknowledgement gives the buffer back.                                *)
LEMMA PoolTakeAck ==
  ASSUME TypeOK, NEW r \in Ranks, Pool(r), TakeAck(r)
  PROVE  Pool(r)'
<1> DEFINE A == acks[r]
           a == Head(acks[r])
           slot == a.slot
           f == a.file
           st == file_state[r][f]
           less == Counted(st, 0, 0, -1)
<1>1. /\ A \in Seq(Acks) /\ A # <<>> /\ a \in Acks /\ f \in Files /\ slot \in Slots
      /\ st \in FileStates /\ acks'[r] = Tail(A)
      /\ UNCHANGED <<cursorVars, bcastVars, files, deferred, exited, disk, synced, faultVars>>
      /\ \/ /\ a.err /\ result'[r] = "err" /\ UNCHANGED <<poolVars, fileVars>>
         \/ /\ ~a.err /\ result'[r] = result[r]
            /\ home'[r] = [home[r] EXCEPT ![slot] = TRUE]
            /\ free_slots'[r] = Append(free_slots[r], slot)
            /\ writes_pending'[r] = writes_pending[r] - 1
            /\ MaybeCloseFile(r, f, less, cmds[r])
  BY TakeAckEffect
<1> SUFFICES ASSUME result'[r] = "ok" PROVE Pool(r)'
  BY DEF Pool
<1>2. /\ result[r] = "ok" /\ home'[r] = [home[r] EXCEPT ![slot] = TRUE]
      /\ free_slots'[r] = Append(free_slots[r], slot)
      /\ writes_pending'[r] = writes_pending[r] - 1
      /\ MaybeCloseFile(r, f, less, cmds[r])
      /\ in_flight' = in_flight /\ subs' = subs /\ wire' = wire
  BY <1>1 DEF bcastVars
<1>t. /\ cmds[r] \in [Writers -> Seq(Commands)] /\ home[r] \in [Slots -> BOOLEAN]
      /\ free_slots[r] \in Seq(Slots)
  BY DEF TypeOK
<1>u. less \in FileStates
  <2>1. ASSUME NEW x \in FileStates PROVE Counted(x, 0, 0, -1) \in FileStates
    BY CountedFacts
  <2>2. st \in FileStates
    BY <1>1
  <2> HIDE DEF st
  <2> QED BY <2>1, <2>2
<1>v. Tail(A) \in Seq(Acks) /\ 1 \in DOMAIN A /\ a = A[1]
  BY <1>1, TailFacts
<1>3. /\ IsFiniteSet(in_flight[r]) /\ OnceIn(cmds[r], A)
      /\ NoneTwice(free_slots[r])
      /\ \A d, e \in in_flight[r] : wire[r][d[1]].slot = wire[r][e[1]].slot => d[1] = e[1]
      /\ \A s \in Slots :
           /\ subs[r][s] = Cardinality(Flying(r, s))
           /\ home[r][s] = ~HasWriter(r, s)
           /\ Among(free_slots[r], s) = (home[r][s] /\ Flying(r, s) = {})
           /\ Flying(r, s) # {} => home[r][s]
      /\ writes_pending[r] = Cardinality({s \in Slots : ~home[r][s]})
  BY <1>2 DEF Pool, NoneTwice, Among, IsFree
<1>4. OnWriter(cmds[r], A, slot, f)
  BY <1>v DEF OnWriter
<1>5. HasWriter(r, slot) /\ ~home[r][slot] /\ Flying(r, slot) = {} /\ ~Among(free_slots[r], slot)
  <2>1. HasWriter(r, slot)
    BY <1>1, <1>4 DEF HasWriter
  <2> QED BY <1>1, <1>3, <2>1
<1> HIDE DEF A, a, slot, f, st, less
<1>6. /\ \A s, g : OnWriter(cmds[r], Tail(A), s, g) = (OnWriter(cmds[r], A, s, g) /\ s # Head(A).slot)
      /\ OnceIn(cmds[r], Tail(A))
  BY <1>1, <1>3, <1>t, TakenAck
<1>7. /\ \A s, g : OnWriter(cmds'[r], Tail(A), s, g) = OnWriter(cmds[r], Tail(A), s, g)
      /\ OnceIn(cmds[r], Tail(A)) => OnceIn(cmds'[r], Tail(A))
  BY <1>1, <1>2, <1>t, <1>u, <1>v, MaybeCloseKeeps
<1>8. slot = Head(A).slot
  BY DEF slot, a, A
<1>9. ASSUME NEW s \in Slots PROVE HasWriter(r, s)' = (HasWriter(r, s) /\ s # slot)
  <2>0. \A g : OnWriter(cmds'[r], acks'[r], s, g) = (OnWriter(cmds[r], acks[r], s, g) /\ s # slot)
    <3> SUFFICES ASSUME NEW g
                 PROVE  OnWriter(cmds'[r], acks'[r], s, g)
                          = (OnWriter(cmds[r], acks[r], s, g) /\ s # slot)
      OBVIOUS
    <3>1. acks'[r] = Tail(A) /\ A = acks[r]
      BY <1>1 DEF A
    <3>2. OnWriter(cmds'[r], Tail(A), s, g) = OnWriter(cmds[r], Tail(A), s, g)
      BY <1>7
    <3>3. OnWriter(cmds[r], Tail(A), s, g) = (OnWriter(cmds[r], A, s, g) /\ s # slot)
      BY <1>6, <1>8
    <3> QED BY <3>1, <3>2, <3>3, Zenon
  <2>1. HasWriter(r, s)' => HasWriter(r, s) /\ s # slot
    BY <2>0 DEF HasWriter
  <2>2. HasWriter(r, s) /\ s # slot => HasWriter(r, s)'
    BY <2>0 DEF HasWriter
  <2>3. HasWriter(r, s)' \in BOOLEAN /\ HasWriter(r, s) \in BOOLEAN
    BY Zenon DEF HasWriter
  <2> QED BY <2>1, <2>2, <2>3, Zenon
<1>10. /\ NoneTwice(free_slots'[r])
       /\ \A s : Among(free_slots'[r], s) = (Among(free_slots[r], s) \/ s = slot)
  BY <1>1, <1>2, <1>3, <1>5, <1>t, BackIn
<1>11. ASSUME NEW s \in Slots
       PROVE  /\ home'[r][s] = ~HasWriter(r, s)'
              /\ Among(free_slots'[r], s) = (home'[r][s] /\ Flying(r, s)' = {})
              /\ Flying(r, s)' # {} => home'[r][s]
  <2>0. Flying(r, s)' = Flying(r, s) /\ HasWriter(r, s) \in BOOLEAN
    BY <1>2, Zenon DEF Flying, HasWriter
  <2>1. CASE s = slot
    <3>1. home'[r][s] = TRUE /\ Flying(r, s)' = {}
      BY <1>2, <1>5, <1>t, <2>0, <2>1
    <3>2. HasWriter(r, s)' = FALSE
      BY <1>9, <2>1, Zenon
    <3> QED BY <1>10, <2>1, <3>1, <3>2
  <2>2. CASE s # slot
    <3>1. home'[r][s] = home[r][s]
      BY <1>2, <1>t, <2>2
    <3>2. HasWriter(r, s)' = HasWriter(r, s)
      BY <1>9, <2>0, <2>2, Zenon
    <3> QED BY <1>3, <1>10, <2>0, <2>2, <3>1, <3>2
  <2> QED BY <2>1, <2>2
<1>12. writes_pending'[r] = Cardinality({s \in Slots : ~home'[r][s]})
  <2> DEFINE S == {s \in Slots : ~home[r][s]}
  <2>1. IsFiniteSet(S) /\ slot \in S
    <3>1. S \in SUBSET Slots
      OBVIOUS
    <3> QED BY <3>1, SlotsFinite, FS_Subset, <1>1, <1>5
  <2>2. {s \in Slots : ~home'[r][s]} = S \ {slot}
    BY <1>1, <1>2, <1>t
  <2> HIDE DEF S
  <2>3. Cardinality(S \ {slot}) = Cardinality(S) - 1
    BY <2>1, FS_RemoveElement
  <2> QED BY <1>2, <1>3, <2>2, <2>3 DEF S
<1>13. \A s : IsFree(r, s)' = Among(free_slots'[r], s)
  BY DEF IsFree, Among
<1>14. \A s \in Slots : subs'[r][s] = Cardinality(Flying(r, s)')
  BY <1>2, <1>3 DEF Flying
<1>15. OnceIn(cmds'[r], acks'[r])
  BY <1>1, <1>6, <1>7
<1>16. /\ IsFiniteSet(in_flight'[r])
       /\ \A d, e \in in_flight'[r] : wire'[r][d[1]].slot = wire'[r][e[1]].slot => d[1] = e[1]
  BY <1>2, <1>3
<1> QED BY <1>10, <1>11, <1>12, <1>13, <1>14, <1>15, <1>16 DEF Pool, NoneTwice

(* The writer's own steps: a buffer goes from its queue to the              *)
(* acknowledgements, and the other commands move no buffer.                 *)
LEMMA PoolWriter ==
  ASSUME TypeOK, NEW r \in Ranks, Pool(r), NEW w \in Writers, WritersStep(r, w)
  PROVE  Pool(r)'
<1> USE DEF PoolVarsKept, poolVars, bcastVars, fileVars
<1>1. CASE WriterOpen(r, w)
  <2>1. Dequeue(r, w, "open") /\ PoolVarsKept(r) /\ acks'[r] = acks[r]
    BY <1>1 DEF WriterOpen
  <2> QED BY <2>1, DequeueOther, PoolKeep
<1>2. CASE WriterClose(r, w)
  <2>1. Dequeue(r, w, "close") /\ PoolVarsKept(r) /\ acks'[r] = acks[r]
    BY <1>2 DEF WriterClose
  <2> QED BY <2>1, DequeueOther, PoolKeep
<1>3. CASE WriterExit(r, w)
  <2>1. PoolVarsKept(r) /\ acks'[r] = acks[r] /\ cmds'[r] = cmds[r]
    BY <1>3 DEF WriterExit
  <2> QED BY <2>1, PoolKeep
<1>4. CASE WriterWrite(r, w)
  <2> DEFINE c == Head(cmds[r][w])
  <2>1. Dequeue(r, w, "write") /\ PoolVarsKept(r) /\ (SendAck(r, c, TRUE) \/ SendAck(r, c, FALSE))
    BY <1>4 DEF WriterWrite
  <2>2. c \in Commands
    BY <2>1, DequeueType
  <2>3. PICK err \in BOOLEAN :
          acks'[r] = Append(acks[r], [slot |-> c.slot, file |-> c.file, err |-> err])
    BY <2>1 DEF SendAck, TypeOK
  <2> DEFINE a == [slot |-> c.slot, file |-> c.file, err |-> err]
  <2>4. a \in Acks /\ a.slot = c.slot /\ a.file = c.file
    BY <2>2 DEF Acks, Commands
  <2>5. acks'[r] = Append(acks[r], a)
    BY <2>3
  <2> HIDE DEF a
  <2>6. /\ \A s, f : OnWriter(cmds'[r], Append(acks[r], a), s, f) = OnWriter(cmds[r], acks[r], s, f)
        /\ OnceIn(cmds[r], acks[r]) => OnceIn(cmds'[r], Append(acks[r], a))
    BY <2>1, <2>4, DequeueWrite
  <2> QED BY <2>1, <2>5, <2>6, PoolKeep
<1> QED BY <1>1, <1>2, <1>3, <1>4 DEF WritersStep

(* Starting a shard moves no buffer.                                        *)
LEMMA PoolStartShard ==
  ASSUME TypeOK, NEW r \in Ranks, Pool(r), StartShard(r)
  PROVE  Pool(r)'
<1> DEFINE i == next_plan_idx[r] + 1
           s == Plan[i]
           f == s.file
           st == file_state[r][f]
           opens == NeedsWrite(r, f) /\ ~st.opened
           st1 == [st EXCEPT !.opened = @ \/ opens]
           Q == IF opens THEN Enqueue(cmds[r], OpenFile(f)) ELSE cmds[r]
           more == Counted(st1, 1, 0, 0)
<1>1. /\ f \in Files /\ st1 \in FileStates /\ Q \in [Writers -> Seq(Commands)]
      /\ UNCHANGED <<pc, result, poolVars, bcastVars, writerVars, faultVars>>
      /\ MaybeCloseFile(r, f, more, Q) \/ cmds' = [cmds EXCEPT ![r] = Q]
  BY StartShardEffect
<1>2. /\ PoolVarsKept(r) /\ acks'[r] = acks[r]
  BY <1>1 DEF PoolVarsKept, poolVars, bcastVars, writerVars
<1>t. cmds[r] \in [Writers -> Seq(Commands)] /\ acks[r] \in Seq(Acks)
  BY DEF TypeOK
<1>3. /\ \A x, g : OnWriter(Q, acks[r], x, g) = OnWriter(cmds[r], acks[r], x, g)
      /\ OnceIn(cmds[r], acks[r]) => OnceIn(Q, acks[r])
  <2>1. f \in Files
    BY <1>1
  <2> HIDE DEF f, opens
  <2> QED BY <2>1, <1>t, OpenKeeps
<1>4. more \in FileStates
  <2>1. st1 \in FileStates
    BY <1>1
  <2> HIDE DEF st1
  <2> QED BY <2>1, CountedFacts
<1> HIDE DEF i, s, f, st, opens, st1, Q, more
<1>5. /\ \A x, g : OnWriter(cmds'[r], acks[r], x, g) = OnWriter(Q, acks[r], x, g)
      /\ OnceIn(Q, acks[r]) => OnceIn(cmds'[r], acks[r])
  <2>1. CASE MaybeCloseFile(r, f, more, Q)
    BY <2>1, <1>1, <1>4, <1>t, MaybeCloseKeeps
  <2>2. CASE cmds' = [cmds EXCEPT ![r] = Q]
    BY <2>2 DEF TypeOK
  <2> QED BY <1>1, <2>1, <2>2
<1> QED BY <1>2, <1>3, <1>5, PoolKeep

(* Every step keeps the pool.                                               *)
LEMMA PoolStep ==
  ASSUME TypeOK, PoolInv, [Next]_vars
  PROVE  PoolInv'
<1> SUFFICES ASSUME NEW r \in Ranks PROVE Pool(r)'
  BY DEF PoolInv
<1>0. Pool(r)
  BY DEF PoolInv
<1>1. CASE EndPosting(r) \/ AfterDrain(r) \/ JoinWriters(r)
  <2>1. PoolVarsKept(r) /\ cmds'[r] = cmds[r] /\ acks'[r] = acks[r]
    BY <1>1 DEF EndPosting, AfterDrain, JoinWriters, PoolVarsKept, poolVars, bcastVars,
                fileVars, writerVars
  <2> QED BY <1>0, <2>1, PoolKeep
<1>2. CASE MainCallFails(r)
  <2>1. result'[r] = "err"
    BY <1>2 DEF MainCallFails, TypeOK
  <2> QED BY <2>1 DEF Pool
<1>3. CASE Aborted(r) \/ Idle(r)
  <2>1. PoolVarsKept(r) /\ cmds'[r] = cmds[r] /\ acks'[r] = acks[r]
    BY <1>3 DEF Aborted, Idle, SameRank, PoolVarsKept
  <2> QED BY <1>0, <2>1, PoolKeep
<1>4. CASE WaitAny(r)
  BY <1>0, <1>4, PoolComplete DEF WaitAny
<1>5. CASE \E w \in Writers : ~Returned(r) /\ WritersStep(r, w)
  BY <1>0, <1>5, PoolWriter
<1> QED BY <1>0, <1>1, <1>2, <1>3, <1>4, <1>5, RankStep, PoolStartShard, PoolPostChunk, PoolTakeAck

(* BuffersAccounted                                                         *)
LEMMA PoolAccounts == TypeOK /\ PoolInv => BuffersAccounted
<1> SUFFICES ASSUME TypeOK, PoolInv, NEW r \in Ranks, result[r] = "ok"
             PROVE  /\ \A i, j \in DOMAIN free_slots[r] : free_slots[r][i] = free_slots[r][j] => i = j
                    /\ \A s \in Slots :
                         /\ subs[r][s] = Cardinality(Flying(r, s))
                         /\ home[r][s] = ~IsWithWriter(r, s)
                         /\ IsFree(r, s) = (home[r][s] /\ Flying(r, s) = {})
                         /\ Flying(r, s) # {} => home[r][s]
                    /\ writes_pending[r] = Cardinality({s \in Slots : ~home[r][s]})
  BY DEF BuffersAccounted
<1>1. \A s : HasWriter(r, s) = IsWithWriter(r, s)
  <2> SUFFICES ASSUME NEW s PROVE HasWriter(r, s) = IsWithWriter(r, s)
    OBVIOUS
  <2>1. HasWriter(r, s) => IsWithWriter(r, s)
    BY DEF HasWriter, OnWriter, IsWithWriter
  <2>2. /\ \A w \in Writers : \A i \in DOMAIN cmds[r][w] : cmds[r][w][i].file \in Files
        /\ \A i \in DOMAIN acks[r] : acks[r][i].file \in Files
    <3>1. \A w \in Writers : \A i \in DOMAIN cmds[r][w] : cmds[r][w][i] \in Commands
      BY DEF TypeOK
    <3>2. \A i \in DOMAIN acks[r] : acks[r][i] \in Acks
      BY DEF TypeOK
    <3> QED BY <3>1, <3>2 DEF Commands, Acks
  <2>3. IsWithWriter(r, s) => HasWriter(r, s)
    BY <2>2 DEF HasWriter, OnWriter, IsWithWriter
  <2>4. HasWriter(r, s) \in BOOLEAN /\ IsWithWriter(r, s) \in BOOLEAN
    BY Zenon DEF HasWriter, IsWithWriter
  <2> QED BY <2>1, <2>3, <2>4
<1>2. Pool(r)
  BY DEF PoolInv
<1>3. ASSUME NEW s \in Slots PROVE home[r][s] = ~IsWithWriter(r, s)
  <2>1. home[r][s] = ~HasWriter(r, s)
    BY <1>2 DEF Pool
  <2> QED BY <1>1, <2>1, Zenon
<1>4. /\ \A i, j \in DOMAIN free_slots[r] : free_slots[r][i] = free_slots[r][j] => i = j
      /\ \A s \in Slots :
           /\ subs[r][s] = Cardinality(Flying(r, s))
           /\ IsFree(r, s) = (home[r][s] /\ Flying(r, s) = {})
           /\ Flying(r, s) # {} => home[r][s]
      /\ writes_pending[r] = Cardinality({s \in Slots : ~home[r][s]})
  BY <1>2 DEF Pool
<1> QED BY <1>3, <1>4, Zenon

(* Whole numbers of chunks.                                                 *)
LEMMA ChunkProduct == ASSUME NEW q \in Nat PROVE q * Chunk \in Nat /\ (q + 1) * Chunk = q * Chunk + Chunk
<1>1. Chunk \in Nat
  BY BroadcastAssumption
<1> HIDE DEF BroadcastAssumption
<1> QED BY <1>1

(* Chunks and shards: offsets that are multiples of a chunk.                *)
LEMMA ProductMonotone ==
  ASSUME NEW p \in Nat, NEW q \in Nat, NEW b \in Nat, p <= q
  PROVE  p * b <= q * b
<1>1. q = p + (q - p) /\ q - p \in Nat
  OBVIOUS
<1>2. q * b = p * b + (q - p) * b
  BY <1>1
<1>3. (q - p) * b \in Nat /\ p * b \in Nat
  BY <1>1
<1> HIDE DEF BroadcastAssumption
<1> QED BY <1>2, <1>3

LEMMA MultipleMod ==
  ASSUME NEW q \in Nat, NEW b \in Nat \ {0}
  PROVE  (q * b) % b = 0
<1> DEFINE n == q * b
           d == n \div b
           r == n % b
<1>1. n \in Nat
  OBVIOUS
<1>2. d \in Nat /\ r \in 0 .. b - 1 /\ n = d * b + r
  BY <1>1
<1>3. d * b \in Nat
  BY <1>2
<1>4. CASE q <= d
  <2>1. n <= d * b
    BY <1>2, <1>4, ProductMonotone
  <2> HIDE DEF n, d, r
  <2> QED BY <1>1, <1>2, <1>3, <2>1 DEF n, r
<1>5. CASE d + 1 <= q
  <2>1. (d + 1) * b <= n
    BY <1>2, <1>5, ProductMonotone
  <2>2. (d + 1) * b = d * b + b
    BY <1>2
  <2> HIDE DEF n, d, r
  <2>3. FALSE
    BY <1>1, <1>2, <1>3, <2>1, <2>2
  <2> QED BY <2>3
<1> QED BY <1>2, <1>4, <1>5

LEMMA ChunksIn == ASSUME NEW a \in Nat, a % Chunk = 0 PROVE \E q \in Nat : a = q * Chunk
<1>1. Chunk \in Nat \ {0}
  BY BroadcastAssumption
<1>2. a = Chunk * (a \div Chunk) + (a % Chunk) /\ a \div Chunk \in Nat
  BY <1>1
<1> QED BY <1>1, <1>2

LEMMA ProductSum ==
  ASSUME NEW p \in Nat, NEW q \in Nat, NEW b \in Nat
  PROVE  (p + q) * b = p * b + q * b /\ p + q \in Nat
OBVIOUS

LEMMA ChunkSum ==
  ASSUME NEW a \in Nat, NEW b \in Nat, a % Chunk = 0, b % Chunk = 0
  PROVE  (a + b) % Chunk = 0
<1>1. PICK p \in Nat : a = p * Chunk
  BY ChunksIn
<1>2. PICK q \in Nat : b = q * Chunk
  BY ChunksIn
<1>3. Chunk \in Nat \ {0}
  BY BroadcastAssumption
<1>4. a + b = (p + q) * Chunk /\ p + q \in Nat
  BY <1>1, <1>2, <1>3, ProductSum
<1> HIDE DEF BroadcastAssumption
<1>5. ((p + q) * Chunk) % Chunk = 0
  BY <1>3, <1>4, MultipleMod, Zenon
<1> QED BY <1>4, <1>5, Zenon

LEMMA ChunkItself == Chunk \in Nat \ {0} /\ Chunk % Chunk = 0 /\ 0 % Chunk = 0
<1>1. Chunk \in Nat \ {0}
  BY BroadcastAssumption
<1>2. 1 * Chunk = Chunk /\ 0 * Chunk = 0
  BY <1>1
<1> QED BY <1>1, <1>2, MultipleMod

(* Between two whole numbers of chunks less than a chunk apart is nothing.  *)
LEMMA WholeChunk ==
  ASSUME NEW a \in Nat, NEW n \in 1 .. Chunk, a % Chunk = 0, (a + n) % Chunk = 0
  PROVE  n = Chunk
<1>0. Chunk \in Nat \ {0} /\ n \in Nat
  BY BroadcastAssumption
<1>1. PICK p \in Nat : a = p * Chunk
  BY ChunksIn
<1>2. a + n \in Nat
  BY <1>0
<1>3. PICK q \in Nat : a + n = q * Chunk
  BY <1>2, ChunksIn
<1>4. CASE q <= p
  <2>1. q * Chunk <= p * Chunk
    BY <1>0, <1>4, ProductMonotone
  <2>2. a + n <= a
    BY <1>1, <1>3, <2>1
  <2> QED BY <1>0, <2>2
<1>5. CASE p + 1 <= q
  <2>1. (p + 1) * Chunk <= q * Chunk
    BY <1>0, <1>5, ProductMonotone
  <2>2. (p + 1) * Chunk = a + Chunk
    BY <1>1, ChunkProduct
  <2>3. a + Chunk <= a + n
    BY <1>3, <2>1, <2>2
  <2> QED BY <1>0, <2>3
<1> QED BY <1>4, <1>5

(* Every unit of a chunk is in one of its sub-broadcasts.                   *)
LEMMA SomeSub ==
  ASSUME NEW n \in Nat, NEW i \in 1 .. n
  PROVE  \E j \in 1 .. SubCount(n) : InSub(j, i)
<1> DEFINE M == MAX_SUB_BCAST
           d == (i - 1) \div M
           x == n + M - 1
           S == x \div M
<1>1. M \in Nat \ {0} /\ i - 1 \in Nat /\ n \in Nat /\ i - 1 < n
  BY BroadcastAssumption
<1> HIDE DEF M
<1>2. d \in Nat /\ (i - 1) % M \in 0 .. M - 1 /\ i - 1 = M * d + ((i - 1) % M)
  BY <1>1
<1>3. x \in Nat
  BY <1>1
<1>4. S \in Nat /\ x % M \in 0 .. M - 1 /\ x = M * S + (x % M)
  BY <1>1, <1>3
<1>5. M * d = d * M /\ M * S = S * M /\ d * M \in Nat /\ S * M \in Nat
  BY <1>1, <1>2, <1>4
<1>6. (d + 1) * M = d * M + M
  BY <1>1, <1>2
<1> HIDE DEF d, S
<1>7. d < S
  <2> SUFFICES ASSUME S <= d PROVE FALSE
    BY <1>2, <1>4
  <2>1. S * M <= d * M
    BY <1>1, <1>2, <1>4, ProductMonotone
  <2>2. x < S * M + M
    BY <1>1, <1>4, <1>5
  <2>3. n <= S * M
    BY <1>1, <1>5, <2>2
  <2>4. S * M <= i - 1
    BY <1>1, <1>2, <1>5, <2>1
  <2> QED BY <1>1, <1>5, <2>3, <2>4
<1>8. d * M < i /\ i <= (d + 1) * M
  BY <1>1, <1>2, <1>5, <1>6
<1>9. ((d + 1) - 1) * M < i /\ i <= (d + 1) * M /\ d + 1 \in 1 .. S
  BY <1>2, <1>4, <1>7, <1>8
<1>10. InSub(d + 1, i)
  BY <1>9 DEF InSub, M
<1> QED BY <1>9, <1>10 DEF SubCount, S, x, M

(* new is file with len units of buf put at off, as far as the blob goes.   *)
Patched(new, file, buf, off, len, size) ==
  \A p \in 1 .. size :
    new[p] = IF off < p /\ p <= off + len THEN buf[p - off] ELSE file[p]

(* What a positional write and the cut at the end leave of a file.          *)
LEMMA OverwrittenUpTo ==
  ASSUME NEW file, file \in Seq(Cells), NEW size, size \in Nat, Len(file) >= size,
         NEW buf, NEW off, off \in Nat, NEW len, len \in Nat,
         NEW new, new = Overwritten(file, buf, off, len)
  PROVE  Patched(new, file, buf, off, len, size)
<1> SUFFICES ASSUME NEW p \in 1 .. size
             PROVE  new[p] = IF off < p /\ p <= off + len THEN buf[p - off] ELSE file[p]
  BY DEF Patched
<1> DEFINE m == IF Len(file) >= off + len THEN Len(file) ELSE off + len
<1>1. Len(file) \in Nat /\ p \in 1 .. m /\ p <= Len(file)
  OBVIOUS
<1>2. new = [q \in 1 .. m |-> IF off < q /\ q <= off + len THEN buf[q - off]
                             ELSE IF q <= Len(file) THEN file[q] ELSE Hole]
  BY DEF Overwritten
<1> HIDE DEF m
<1> QED BY <1>1, <1>2

LEMMA OverwrittenLength ==
  ASSUME NEW file \in Seq(Cells), NEW buf, NEW off \in Nat, NEW len \in Nat
  PROVE  Len(Overwritten(file, buf, off, len)) = IF Len(file) >= off + len THEN Len(file) ELSE off + len
<1> DEFINE m == IF Len(file) >= off + len THEN Len(file) ELSE off + len
           cell(p) == IF off < p /\ p <= off + len THEN buf[p - off]
                      ELSE IF p <= Len(file) THEN file[p] ELSE Hole
<1>1. m \in Nat
  OBVIOUS
<1> HIDE DEF cell, m
<1>2. Len([p \in 1 .. m |-> cell(p)]) = m
  BY <1>1
<1> QED BY <1>2 DEF Overwritten, cell, m

LEMMA TruncatedCell ==
  ASSUME NEW file \in Seq(Cells), NEW size \in Nat, NEW p \in 1 .. size, p <= Len(file)
  PROVE  Truncated(file, size)[p] = file[p]
BY DEF Truncated

(* An O_DIRECT write is longer than the data by less than ALIGN, and never  *)
(* longer than a chunk.                                                     *)
LEMMA WriteLenFacts ==
  ASSUME NEW n \in 1 .. Chunk
  PROVE  WriteLen(n) \in Nat /\ n <= WriteLen(n) /\ WriteLen(n) <= Chunk
<1> DEFINE A == ALIGN
           x == n + A - 1
           d == x \div A
<1>1. A \in Nat \ {0} /\ n \in Nat /\ Chunk \in Nat
  BY BroadcastAssumption
<1>2. x \in Nat
  BY <1>1
<1> HIDE DEF A
<1>3. d \in Nat /\ x % A \in 0 .. A - 1 /\ x = A * d + (x % A)
  BY <1>1, <1>2
<1>4. A * d = d * A /\ d * A \in Nat
  BY <1>1, <1>3
<1> HIDE DEF d
<1>5. n <= d * A
  BY <1>1, <1>3, <1>4
<1>6. RoundUp(n) \in Nat /\ n <= RoundUp(n)
  BY <1>4, <1>5 DEF RoundUp, d, x, A
<1> QED BY <1>1, <1>6 DEF WriteLen, Min2

(* A write puts the source's data over its extent, and nothing else where   *)
(* the blob has a byte.                                                     *)
LEMMA WriteRight ==
  ASSUME TypeOK, NEW r \in Ranks, NEW c \in Commands, Fits(c),
         \A i \in 1 .. c.n : mem[r][c.slot][i] = <<c.file, c.off + i>>,
         disk'[r] = [disk[r] EXCEPT ![c.file] =
                       Overwritten(@, mem[r][c.slot], c.off, WriteLen(c.n))]
  PROVE  /\ \A f \in Files : \A p \in 1 .. Size[f] :
              disk[r][f][p] = <<f, p>> => disk'[r][f][p] = <<f, p>>
         /\ \A i \in 1 .. c.n : disk'[r][c.file][c.off + i] = <<c.file, c.off + i>>
<1> DEFINE F == c.file
           old == disk[r][F]
           buf == mem[r][c.slot]
           len == WriteLen(c.n)
           new == Overwritten(old, buf, c.off, len)
<1>1. /\ F \in Files /\ c.slot \in Slots /\ c.n \in 1 .. Chunk /\ c.n \in Nat /\ c.off \in Nat
      /\ c.off + c.n <= Size[F] /\ (c.n = Chunk \/ c.off + c.n = Size[F])
      /\ Size[F] \in Nat
  BY BroadcastAssumption DEF Commands, Fits
<1>2. disk[r] \in [Files -> Seq(Cells)] /\ old \in Seq(Cells) /\ Len(old) >= Size[F]
  BY <1>1, SMTT(30) DEF TypeOK
<1>3. len \in Nat /\ c.n <= len /\ len <= Chunk
  BY <1>1, WriteLenFacts
<1>4. disk'[r][F] = new /\ \A f \in Files : f # F => disk'[r][f] = disk[r][f]
  BY <1>1, <1>2
<1>5. \A i \in 1 .. c.n : buf[i] = <<F, c.off + i>>
  OBVIOUS
<1>6. Chunk \in Nat /\ Len(old) \in Nat
  BY <1>2, BroadcastAssumption
<1> HIDE DEF F, old, buf, len, new
<1>7. \A p \in 1 .. Size[F] :
        new[p] = IF c.off < p /\ p <= c.off + len THEN buf[p - c.off] ELSE old[p]
  <2>1. c.off \in Nat /\ len \in Nat /\ old \in Seq(Cells) /\ Len(old) >= Size[F] /\ Size[F] \in Nat
    BY <1>1, <1>2, <1>3
  <2>2. new = Overwritten(old, buf, c.off, len)
    BY DEF new
  <2>3. Patched(new, old, buf, c.off, len, Size[F])
    BY <2>1, <2>2, OverwrittenUpTo
  <2> QED BY <2>3 DEF Patched
<1>8. ASSUME NEW p \in 1 .. Size[F], c.off < p, p <= c.off + len
      PROVE  new[p] = <<F, p>>
  <2>1. /\ p \in Nat /\ p <= Size[F] /\ c.off \in Nat /\ c.n \in Nat /\ len \in Nat /\ len <= Chunk
        /\ Chunk \in Nat /\ Size[F] \in Nat /\ (c.n = Chunk \/ c.off + c.n = Size[F])
    BY <1>1, <1>3, <1>6, <1>8
  <2>2. p - c.off \in 1 .. c.n /\ c.off + (p - c.off) = p
    BY <1>8, <2>1
  <2> QED BY <1>5, <1>7, <1>8, <2>2
<1>9. ASSUME NEW f \in Files, NEW p \in 1 .. Size[f], disk[r][f][p] = <<f, p>>
      PROVE  disk'[r][f][p] = <<f, p>>
  <2>1. CASE f = F
    <3>1. new[p] = <<F, p>>
      BY <1>7, <1>8, <1>9, <2>1 DEF old
    <3> QED BY <1>4, <2>1, <3>1
  <2>2. CASE f # F
    BY <1>4, <1>9, <2>2
  <2> QED BY <2>1, <2>2
<1>10. ASSUME NEW i \in 1 .. c.n
       PROVE  disk'[r][F][c.off + i] = <<F, c.off + i>>
  <2>1. c.off + i \in 1 .. Size[F] /\ c.off < c.off + i /\ c.off + i <= c.off + len
    BY <1>1, <1>3
  <2> QED BY <2>1, <1>4, <1>8
<1> QED BY <1>9, <1>10 DEF F

(* A step of a writer keeps every unit that is right.                       *)
LEMMA WriterKeeps ==
  ASSUME TypeOK, NEW r \in Ranks, QueuedData(r), NEW w \in Writers, WritersStep(r, w),
         NEW f \in Files, NEW p \in 1 .. Size[f], Right(r, f, p)
  PROVE  Right(r, f, p)'
<1>t. disk \in [Ranks -> [Files -> Seq(Cells)]] /\ Size[f] \in Nat
  BY BroadcastAssumption DEF TypeOK
<1>1. CASE WriterOpen(r, w) \/ WriterExit(r, w)
  BY <1>1 DEF WriterOpen, WriterExit, Right
<1>2. CASE WriterWrite(r, w)
  <2> DEFINE c == Head(cmds[r][w])
  <2>1. /\ Dequeue(r, w, "write")
        /\ \/ disk' = disk
           \/ disk' = [disk EXCEPT ![r][c.file] =
                         Overwritten(@, mem[r][c.slot], c.off, WriteLen(c.n))]
    BY <1>2 DEF WriterWrite
  <2>2. /\ 1 \in DOMAIN cmds[r][w] /\ c = cmds[r][w][1] /\ c.kind = "write" /\ c \in Commands
    BY <2>1, DequeueFacts
  <2>3. Fits(c) /\ \A i \in 1 .. c.n : mem[r][c.slot][i] = <<c.file, c.off + i>>
    BY <2>2, ZenonT(60) DEF QueuedData
  <2> HIDE DEF c
  <2>4. CASE disk' = disk
    BY <2>4 DEF Right
  <2>5. CASE disk' = [disk EXCEPT ![r][c.file] =
                         Overwritten(@, mem[r][c.slot], c.off, WriteLen(c.n))]
    <3>1. disk'[r] = [disk[r] EXCEPT ![c.file] =
                       Overwritten(@, mem[r][c.slot], c.off, WriteLen(c.n))]
      BY <2>5, <1>t
    <3>2. \A g \in Files : \A q \in 1 .. Size[g] :
            disk[r][g][q] = <<g, q>> => disk'[r][g][q] = <<g, q>>
      BY <2>2, <2>3, <3>1, WriteRight
    <3> QED BY <3>2 DEF Right
  <2> QED BY <2>1, <2>4, <2>5
<1>3. CASE WriterClose(r, w)
  <2> DEFINE g == Head(cmds[r][w]).file
             cut == IF Direct THEN Truncated(disk[r][g], Size[g]) ELSE disk[r][g]
  <2>1. Dequeue(r, w, "close") /\ (disk' = disk \/ disk' = [disk EXCEPT ![r][g] = cut])
    BY <1>3 DEF WriterClose
  <2>2. g \in Files
    BY <2>1, DequeueType DEF Commands
  <2>3. f = g => cut[p] = disk[r][f][p]
    <3> SUFFICES ASSUME f = g PROVE cut[p] = disk[r][f][p]
      OBVIOUS
    <3>1. disk[r][f] \in Seq(Cells) /\ Len(disk[r][f]) >= Size[f]
      BY DEF TypeOK
    <3>2. p <= Len(disk[r][f])
      BY <3>1, <1>t
    <3>3. Truncated(disk[r][f], Size[f])[p] = disk[r][f][p]
      BY <3>1, <3>2, <1>t, TruncatedCell
    <3> QED BY <3>3
  <2> HIDE DEF g, cut
  <2> QED BY <1>t, <2>1, <2>2, <2>3 DEF Right
<1> QED BY <1>1, <1>2, <1>3 DEF WritersStep

(* A unit that is right stays right.                                        *)
LEMMA RightStays ==
  ASSUME TypeOK, DataInv, [Next]_vars, NEW r \in Ranks,
         NEW f \in Files, NEW p \in 1 .. Size[f], Right(r, f, p)
  PROVE  Right(r, f, p)'
<1>1. QueuedData(r)
  BY DEF DataInv, Data
<1>2. CASE \E w \in Writers : ~Returned(r) /\ WritersStep(r, w)
  BY <1>1, <1>2, WriterKeeps
<1>3. CASE \/ StartShard(r) \/ PostChunk(r) \/ EndPosting(r) \/ TakeAck(r)
           \/ AfterDrain(r) \/ JoinWriters(r) \/ WaitAny(r) \/ MainCallFails(r)
  <2>1. disk' = disk
    BY <1>3 DEF StartShard, PostChunk, EndPosting, TakeAck, AfterDrain, JoinWriters, WaitAny,
                Complete, MainCallFails, writerVars
  <2> QED BY <2>1 DEF Right
<1>4. CASE Aborted(r) \/ Idle(r)
  BY <1>4 DEF Aborted, Idle, SameRank, Right
<1> QED BY <1>2, <1>3, <1>4, RankStep

(* Queues P hold no Write that Q does not.                                  *)
OnlyFrom(P, Q) ==
  \A w \in Writers : \A i \in DOMAIN P[w] :
    P[w][i].kind = "write" => \E j \in DOMAIN Q[w] : Q[w][j] = P[w][i]

(* No step but the last completion of a chunk adds a Write to a queue.      *)
LEMMA EnqueueOnly ==
  ASSUME NEW Q \in [Writers -> Seq(Commands)], NEW cmd \in Commands, cmd.kind # "write"
  PROVE  OnlyFrom(Enqueue(Q, cmd), Q)
<1> DEFINE E == Enqueue(Q, cmd)
           v == WriterOf(cmd.file)
<1>d. E = Enqueue(Q, cmd) /\ v = WriterOf(cmd.file)
  OBVIOUS
<1> HIDE DEF E, v
<1>1. /\ E[v][Len(Q[v]) + 1] = cmd
      /\ \A w \in Writers : \A i \in DOMAIN Q[w] : i \in DOMAIN E[w] /\ E[w][i] = Q[w][i]
      /\ \A w \in Writers : \A i \in DOMAIN E[w] :
           i \in DOMAIN Q[w] \/ (w = v /\ i = Len(Q[v]) + 1)
  BY <1>d, EnqueueFacts, SMTT(30)
<1>2. \A w \in Writers : \A i \in DOMAIN E[w] :
        E[w][i].kind = "write" => i \in DOMAIN Q[w] /\ E[w][i] = Q[w][i]
  BY <1>1
<1>3. OnlyFrom(E, Q)
  BY <1>2 DEF OnlyFrom
<1> QED BY <1>3 DEF E

LEMMA OnlySelf == ASSUME NEW Q PROVE OnlyFrom(Q, Q)
BY DEF OnlyFrom

LEMMA OnlyTrans ==
  ASSUME NEW O, NEW P, NEW Q, OnlyFrom(O, P), OnlyFrom(P, Q)
  PROVE  OnlyFrom(O, Q)
<1> SUFFICES ASSUME NEW w \in Writers, NEW i \in DOMAIN O[w], O[w][i].kind = "write"
             PROVE  \E j \in DOMAIN Q[w] : Q[w][j] = O[w][i]
  BY DEF OnlyFrom
<1>1. PICK k \in DOMAIN P[w] : P[w][k] = O[w][i]
  BY DEF OnlyFrom
<1> QED BY <1>1 DEF OnlyFrom

LEMMA OpenOnly ==
  ASSUME NEW f \in Files, NEW Q \in [Writers -> Seq(Commands)]
  PROVE  OnlyFrom(Enqueue(Q, OpenFile(f)), Q)
<1>1. OpenFile(f) \in Commands /\ OpenFile(f).kind # "write"
  BY CommandTypes DEF OpenFile
<1> QED BY <1>1, EnqueueOnly

LEMMA MaybeCloseOnly ==
  ASSUME TypeOK, NEW r \in Ranks, NEW f \in Files, NEW st \in FileStates,
         NEW Q \in [Writers -> Seq(Commands)], MaybeCloseFile(r, f, st, Q)
  PROVE  OnlyFrom(cmds'[r], Q)
<1>1. cmds'[r] = Q \/ cmds'[r] = Enqueue(Q, CloseFile(f))
  BY MaybeCloseEffect
<1>2. CloseFile(f) \in Commands /\ CloseFile(f).kind # "write"
  BY CommandTypes DEF CloseFile, OpenFile
<1>3. OnlyFrom(Enqueue(Q, CloseFile(f)), Q)
  BY <1>2, EnqueueOnly
<1> QED BY <1>1, <1>3, OnlySelf

LEMMA DequeueOnly ==
  ASSUME TypeOK, NEW r \in Ranks, NEW w \in Writers, NEW kind, Dequeue(r, w, kind)
  PROVE  OnlyFrom(cmds'[r], cmds[r])
<1> SUFFICES ASSUME NEW v \in Writers, NEW i \in DOMAIN cmds'[r][v]
             PROVE  \E j \in DOMAIN cmds[r][v] : cmds[r][v][j] = cmds'[r][v][i]
  BY DEF OnlyFrom
<1>1. CASE v = w
  BY <1>1, DequeueFacts
<1>2. CASE v # w
  BY <1>2, DequeueFacts
<1> QED BY <1>1, <1>2

LEMMA WriterOnly ==
  ASSUME TypeOK, NEW r \in Ranks, NEW w \in Writers, WritersStep(r, w)
  PROVE  OnlyFrom(cmds'[r], cmds[r])
<1>1. CASE WriterExit(r, w)
  <2>1. cmds'[r] = cmds[r]
    BY <1>1 DEF WriterExit, fileVars
  <2> QED BY <2>1, OnlySelf
<1>2. CASE ~WriterExit(r, w)
  <2>1. \E kind : Dequeue(r, w, kind)
    BY <1>2 DEF WritersStep, WriterOpen, WriterWrite, WriterClose
  <2> QED BY <2>1, DequeueOnly
<1> QED BY <1>1, <1>2

LEMMA StartShardOnly ==
  ASSUME TypeOK, NEW r \in Ranks, StartShard(r)
  PROVE  OnlyFrom(cmds'[r], cmds[r])
<1> DEFINE i == next_plan_idx[r] + 1
           s == Plan[i]
           f == s.file
           st == file_state[r][f]
           opens == NeedsWrite(r, f) /\ ~st.opened
           st1 == [st EXCEPT !.opened = @ \/ opens]
           Q == IF opens THEN Enqueue(cmds[r], OpenFile(f)) ELSE cmds[r]
           more == Counted(st1, 1, 0, 0)
<1>1. /\ f \in Files /\ st1 \in FileStates /\ Q \in [Writers -> Seq(Commands)]
      /\ MaybeCloseFile(r, f, more, Q) \/ cmds' = [cmds EXCEPT ![r] = Q]
  BY StartShardEffect
<1>t. cmds[r] \in [Writers -> Seq(Commands)]
  BY DEF TypeOK
<1>3. OnlyFrom(Q, cmds[r])
  <2>1. f \in Files
    BY <1>1
  <2> HIDE DEF f, opens
  <2> QED BY <2>1, <1>t, OpenOnly, OnlySelf
<1>4. more \in FileStates
  <2>1. st1 \in FileStates
    BY <1>1
  <2> HIDE DEF st1
  <2> QED BY <2>1, CountedFacts
<1> HIDE DEF i, s, f, st, opens, st1, Q, more
<1>5. OnlyFrom(cmds'[r], Q)
  <2>1. CASE MaybeCloseFile(r, f, more, Q)
    BY <2>1, <1>1, <1>4, MaybeCloseOnly
  <2>2. CASE cmds' = [cmds EXCEPT ![r] = Q]
    <3>1. cmds'[r] = Q
      BY <2>2 DEF TypeOK
    <3> QED BY <3>1, OnlySelf
  <2> QED BY <1>1, <2>1, <2>2
<1> QED BY <1>3, <1>5, OnlyTrans

LEMMA PostChunkOnly ==
  ASSUME TypeOK, NEW r \in Ranks, PostChunk(r)
  PROVE  OnlyFrom(cmds'[r], cmds[r])
<1> DEFINE f == NextShard(r).file
           st == file_state[r][f]
<1>1. /\ f \in Files /\ st \in FileStates
      /\ MaybeCloseFile(r, f, Counted(st, 1, 1, 0), cmds[r]) \/ cmds' = cmds
  BY PostChunkFiles
<1>2. Counted(st, 1, 1, 0) \in FileStates
  BY <1>1, CountedFacts
<1>3. cmds[r] \in [Writers -> Seq(Commands)]
  BY DEF TypeOK
<1> HIDE DEF f, st
<1> QED BY <1>1, <1>2, <1>3, MaybeCloseOnly, OnlySelf

LEMMA TakeAckOnly ==
  ASSUME TypeOK, NEW r \in Ranks, TakeAck(r)
  PROVE  OnlyFrom(cmds'[r], cmds[r])
<1> DEFINE f == Head(acks[r]).file
           st == file_state[r][f]
           less == Counted(st, 0, 0, -1)
<1>1. /\ f \in Files /\ st \in FileStates
      /\ MaybeCloseFile(r, f, less, cmds[r]) \/ cmds' = cmds
  BY TakeAckEffect DEF fileVars
<1>2. less \in FileStates
  <2>1. ASSUME NEW x \in FileStates PROVE Counted(x, 0, 0, -1) \in FileStates
    BY CountedFacts
  <2>2. st \in FileStates
    BY <1>1
  <2> HIDE DEF st
  <2> QED BY <2>1, <2>2
<1>3. cmds[r] \in [Writers -> Seq(Commands)]
  BY DEF TypeOK
<1> HIDE DEF f, st, less
<1> QED BY <1>1, <1>2, <1>3, MaybeCloseOnly, OnlySelf

(* The slots of the Writes in a queue are with a writer.                    *)
LEMMA QueuedHasWriter ==
  ASSUME TypeOK, NEW r \in Ranks, NEW w \in Writers, NEW i \in DOMAIN cmds[r][w],
         cmds[r][w][i].kind = "write"
  PROVE  cmds[r][w][i].slot \in Slots /\ HasWriter(r, cmds[r][w][i].slot)
<1>1. cmds[r][w][i] \in Commands
  BY DEF TypeOK
<1>2. cmds[r][w][i].slot \in Slots /\ cmds[r][w][i].file \in Files
  BY <1>1 DEF Commands
<1>3. OnWriter(cmds[r], acks[r], cmds[r][w][i].slot, cmds[r][w][i].file)
  BY DEF OnWriter
<1> QED BY <1>2, <1>3 DEF HasWriter

(* A queue that gets no new Write, while the buffers of those in it are     *)
(* left alone, still has its data.                                          *)
LEMMA QueuedKept ==
  ASSUME TypeOK, NEW r \in Ranks, QueuedData(r), OnlyFrom(cmds'[r], cmds[r]),
         \A s \in Slots : HasWriter(r, s) => mem'[r][s] = mem[r][s]
  PROVE  QueuedData(r)'
<1> SUFFICES ASSUME NEW w \in Writers, NEW i \in DOMAIN cmds'[r][w], cmds'[r][w][i].kind = "write"
             PROVE  LET c == cmds'[r][w][i]
                    IN Fits(c) /\ \A p \in 1 .. c.n : mem'[r][c.slot][p] = <<c.file, c.off + p>>
  BY DEF QueuedData, Fits
<1> DEFINE c == cmds'[r][w][i]
<1>0. c = cmds'[r][w][i] /\ c.kind = "write"
  OBVIOUS
<1> HIDE DEF c
<1>1. PICK j \in DOMAIN cmds[r][w] : cmds[r][w][j] = c
  BY <1>0 DEF OnlyFrom
<1>2. Fits(c) /\ \A p \in 1 .. c.n : mem[r][c.slot][p] = <<c.file, c.off + p>>
  BY <1>0, <1>1 DEF QueuedData
<1>3. mem'[r][c.slot] = mem[r][c.slot]
  BY <1>0, <1>1, QueuedHasWriter
<1> QED BY <1>0, <1>2, <1>3

(* Steps that post no chunk and complete none.                              *)
LEMMA DataKeep ==
  ASSUME TypeOK, NEW r \in Ranks, Data(r), OnlyFrom(cmds'[r], cmds[r]),
         wire'[r] = wire[r], mem'[r] = mem[r], in_flight'[r] = in_flight[r],
         result'[r] \in {result[r], "err"},
         \/ active'[r] = active[r] /\ post_offset'[r] = post_offset[r]
         \/ post_offset'[r] = 0
  PROVE  WireData(r)' /\ FlyingData(r)' /\ QueuedData(r)' /\ CursorAligned(r)'
<1>1. WireData(r)'
  BY DEF Data, WireData, Fits
<1>2. FlyingData(r)'
  BY DEF Data, FlyingData, Arrived
<1>3. QueuedData(r)'
  BY QueuedKept DEF Data
<1>4. CursorAligned(r)'
  BY ChunkItself DEF Data, CursorAligned
<1> QED BY <1>1, <1>2, <1>3, <1>4

(* What a rank answers for stays right.                                     *)
LEMMA OwnedStep ==
  ASSUME TypeOK, DataInv, [Next]_vars, NEW r \in Ranks
  PROVE  OwnedIntact(r)'
<1> SUFFICES ASSUME NEW i \in DOMAIN Plan, Plan[i].owner = r,
                    NEW p \in Plan[i].off + 1 .. Plan[i].off + Plan[i].len
             PROVE  disk'[r][Plan[i].file][p] = <<Plan[i].file, p>>
  BY DEF OwnedIntact
<1>1. Right(r, Plan[i].file, p)
  BY DEF DataInv, Data, OwnedIntact, Right
<1>2. Plan[i] \in Shard /\ Plan[i].off + Plan[i].len <= Size[Plan[i].file]
  BY BroadcastAssumption
<1>3. Plan[i].file \in Files /\ Plan[i].off \in Nat /\ Plan[i].len \in Nat
      /\ Size[Plan[i].file] \in Nat
  BY <1>2, BroadcastAssumption DEF Shard
<1>4. p \in 1 .. Size[Plan[i].file]
  BY <1>2, <1>3
<1>5. Right(r, Plan[i].file, p)'
  BY <1>1, <1>3, <1>4, RightStays
<1> QED BY <1>5 DEF Right

(* The owner reads what it has; the chunk posted is whole, or the last of   *)
(* its file.                                                                *)
LEMMA PostedFits ==
  ASSUME TypeOK, NEW r \in Ranks, Data(r), PostChunk(r)
  PROVE  /\ Fits(NextChunk(r)) /\ NextChunk(r).off % Chunk = 0
         /\ NextChunk(r).root = r =>
              \A i \in 1 .. NextLen(r) :
                 NextChunk(r).buf[i] = <<NextChunk(r).file, NextChunk(r).off + i>>
         /\ active'[r] => post_offset'[r] % Chunk = 0
<1> DEFINE s == NextShard(r)
           n == NextLen(r)
           c == NextChunk(r)
           o == post_offset[r]
           i == next_plan_idx[r]
<1>1. /\ s \in Shard /\ n \in 1 .. Chunk /\ o + n <= s.len /\ active[r]
      /\ c.n = n /\ c.file = s.file /\ c.root = s.owner /\ c.off = s.off + o
      /\ c.buf = Filled(r, s, n, Head(free_slots[r]))
      /\ post_offset'[r] = o + n
      /\ active'[r] = ~(o + n >= s.len)
  BY PostChunkEffect
<1>2. n = Min2(s.len - o, Chunk)
  BY DEF NextLen, ChunkLen
<1>3. i \in 1 .. Len(Plan) /\ o \in Nat /\ s = Plan[i]
  <2>1. Len(Plan) \in Nat /\ i \in 0 .. Len(Plan) /\ i > 0
    BY <1>1, BroadcastAssumption DEF TypeOK
  <2> QED BY <2>1 DEF TypeOK, NextShard
<1>4. i \in DOMAIN Plan
  BY <1>3, BroadcastAssumption
<1>5. /\ s.file \in Files /\ s.off \in Nat /\ s.len \in Nat /\ Size[s.file] \in Nat
      /\ s.off + s.len <= Size[s.file]
  BY <1>1, <1>3, <1>4, BroadcastAssumption DEF Shard
<1>6. /\ s.off % Chunk = 0
      /\ (s.off + s.len) % Chunk = 0 \/ s.off + s.len = Size[s.file]
  BY <1>3, <1>4, PlanAssumption DEF ShardEnd
<1>7. o % Chunk = 0
  BY <1>1 DEF Data, CursorAligned
<1>8. Chunk \in Nat \ {0}
  BY BroadcastAssumption
<1>9. OwnedIntact(r)
  BY DEF Data
<1> HIDE DEF s, n, c, o, i
<1>10. (s.off + o) % Chunk = 0 /\ s.off + o \in Nat
  BY <1>3, <1>5, <1>6, <1>7, ChunkSum
<1>11. n = Chunk \/ n = s.len - o
  BY <1>2 DEF Min2
<1>12. n = Chunk \/ (s.off + o) + n = Size[s.file]
  <2> SUFFICES ASSUME n # Chunk PROVE (s.off + o) + n = Size[s.file]
    OBVIOUS
  <2>1. (s.off + o) + n = s.off + s.len
    BY <1>1, <1>3, <1>5, <1>8, <1>11, SMTT(30)
  <2>2. (s.off + s.len) % Chunk # 0
    <3> SUFFICES ASSUME (s.off + s.len) % Chunk = 0 PROVE FALSE
      OBVIOUS
    <3>1. ((s.off + o) + n) % Chunk = 0
      BY <2>1
    <3> QED BY <3>1, <1>1, <1>10, WholeChunk
  <2> QED BY <1>6, <2>1, <2>2
<1>13. Fits(c)
  <2>1. c.off + c.n <= Size[c.file]
    BY <1>1, <1>3, <1>5, <1>8
  <2> QED BY <1>1, <1>12, <2>1 DEF Fits
<1>14. active'[r] => post_offset'[r] % Chunk = 0
  <2> SUFFICES ASSUME active'[r] PROVE (o + n) % Chunk = 0
    BY <1>1
  <2>1. n = Chunk
    <3>1. ~(o + n >= s.len)
      BY <1>1
    <3> QED BY <3>1, <1>1, <1>3, <1>5, <1>8, <1>11
  <2> QED BY <2>1, <1>3, <1>7, ChunkSum, ChunkItself
<1>15. ASSUME c.root = r, NEW p \in 1 .. n
       PROVE  c.buf[p] = <<c.file, c.off + p>>
  <2>1. p \in 1 .. Chunk /\ p <= n /\ s.owner = r
    BY <1>1, <1>8, <1>15
  <2>2. c.buf[p] = disk[r][s.file][s.off + o + p]
    BY <1>1, <2>1 DEF Filled, o
  <2>3. s.off + o + p \in s.off + 1 .. s.off + s.len
    BY <1>1, <1>3, <1>5, <1>8, SMTT(30)
  <2>4. disk[r][s.file][s.off + o + p] = <<s.file, s.off + o + p>>
    BY <1>3, <1>4, <1>9, <2>1, <2>3 DEF OwnedIntact
  <2> QED BY <1>1, <2>2, <2>4
<1> QED BY <1>1, <1>10, <1>13, <1>14, <1>15 DEF s, n, c, o

(* post_chunk: the owner fills the buffer from its disk, and the other      *)
(* ranks take a buffer no command is waiting for.                           *)
LEMMA DataPostChunk ==
  ASSUME TypeOK, NEW r \in Ranks, Control(r), Pool(r), Data(r), PostChunk(r)
  PROVE  WireData(r)' /\ FlyingData(r)' /\ QueuedData(r)' /\ CursorAligned(r)'
<1> DEFINE slot == Head(free_slots[r])
           k == NextIndex(r)
           c == NextChunk(r)
           n == NextLen(r)
           new == {k} \X (1 .. SubCount(n))
           filled == Filled(r, NextShard(r), n, slot)
<1>1. /\ pc[r] = "post" /\ result'[r] = result[r]
      /\ free_slots[r] \in Seq(Slots) /\ free_slots[r] # <<>> /\ slot \in Slots
      /\ wire[r] \in Seq(Chunks) /\ wire'[r] = Append(wire[r], c) /\ c \in Chunks
      /\ mem'[r] = [mem[r] EXCEPT ![slot] = filled]
      /\ in_flight'[r] = in_flight[r] \cup new
      /\ c.slot = slot /\ c.n = n /\ c.root = NextShard(r).owner /\ n \in 1 .. Chunk
      /\ c.buf = filled
  BY PostChunkEffect
<1>2. result[r] = "ok"
  BY <1>1 DEF Control, TypeOK
<1>3. /\ Fits(c) /\ c.off % Chunk = 0
      /\ c.root = r => \A i \in 1 .. n : c.buf[i] = <<c.file, c.off + i>>
      /\ active'[r] => post_offset'[r] % Chunk = 0
  BY PostedFits
<1>4. CursorAligned(r)'
  BY <1>3 DEF CursorAligned
<1>5. k \in Nat /\ k = Len(wire[r]) + 1
  BY <1>1 DEF NextIndex
<1>6. Among(free_slots[r], slot) /\ ~HasWriter(r, slot) /\ Flying(r, slot) = {}
  <2>1. Among(free_slots[r], slot)
    BY <1>1, <1>2, HeadOut DEF Pool, NoneTwice
  <2>2. IsFree(r, slot)
    BY <2>1 DEF Among, IsFree
  <2> QED BY <1>1, <1>2, <2>1, <2>2 DEF Pool
<1>7. /\ \A e \in in_flight[r] : /\ e[1] \in DOMAIN wire[r] /\ wire'[r][e[1]] = wire[r][e[1]]
                                 /\ wire[r][e[1]].slot # slot
      /\ \A e \in new : e[1] = k /\ wire'[r][e[1]] = c
  <2>1. IsFiniteSet(in_flight[r])
    BY <1>2 DEF Pool
  <2> QED BY <1>6, <2>1, FlyingPosted
<1>8. mem[r] \in [Slots -> Buffer] /\ in_flight[r] \subseteq (DOMAIN wire[r]) \X Nat
  BY DEF TypeOK
<1>9. QueuedData(r)'
  <2>1. \A s \in Slots : HasWriter(r, s) => mem'[r][s] = mem[r][s]
    BY <1>1, <1>6, <1>8
  <2>2. OnlyFrom(cmds'[r], cmds[r])
    BY PostChunkOnly
  <2> QED BY <2>1, <2>2, QueuedKept DEF Data
<1>10. /\ DOMAIN wire'[r] = 1 .. k /\ DOMAIN wire[r] = 1 .. Len(wire[r])
       /\ \A j \in DOMAIN wire[r] : wire'[r][j] = wire[r][j]
       /\ wire'[r][k] = c
  BY <1>1, <1>5, AppendFacts
<1> HIDE DEF slot, k, c, filled
<1>11. WireData(r)'
  <2> SUFFICES ASSUME NEW j \in DOMAIN wire'[r]
               PROVE  /\ Fits(wire'[r][j]) /\ wire'[r][j].off % Chunk = 0
                      /\ wire'[r][j].root = r =>
                           \A i \in 1 .. wire'[r][j].n :
                             wire'[r][j].buf[i] = <<wire'[r][j].file, wire'[r][j].off + i>>
    BY DEF WireData, Fits
  <2>1. CASE j \in DOMAIN wire[r]
    BY <1>10, <2>1 DEF Data, WireData
  <2>2. CASE j = k
    BY <1>1, <1>3, <1>10, <2>2
  <2> QED BY <1>5, <1>10, <2>1, <2>2
<1>12. FlyingData(r)'
  <2> SUFFICES ASSUME NEW e \in in_flight'[r], NEW i \in 1 .. wire'[r][e[1]].n, Arrived(r, e[1], i)'
               PROVE  mem'[r][wire'[r][e[1]].slot][i] = <<wire'[r][e[1]].file, wire'[r][e[1]].off + i>>
    BY DEF FlyingData
  <2>1. CASE e \in in_flight[r]
    <3>1. Arrived(r, e[1], i)
      BY <1>1, <1>7, <2>1 DEF Arrived
    <3>2. mem[r][wire[r][e[1]].slot][i] = <<wire[r][e[1]].file, wire[r][e[1]].off + i>>
      BY <1>2, <1>7, <2>1, <3>1 DEF Data, FlyingData
    <3>3. mem'[r][wire[r][e[1]].slot] = mem[r][wire[r][e[1]].slot]
      BY <1>1, <1>7, <1>8, <2>1
    <3> QED BY <1>7, <2>1, <3>2, <3>3
  <2>2. CASE e \in new
    <3>1. e[1] = k /\ wire'[r][e[1]] = c
      BY <1>7, <2>2
    <3>2. c.root = r
      <4>1. c.root # r => \E j \in 1 .. SubCount(n) : <<k, j>> \notin in_flight'[r]
        BY <3>1, <1>1 DEF Arrived
      <4>2. \A j \in 1 .. SubCount(n) : <<k, j>> \in in_flight'[r]
        BY <1>1
      <4> QED BY <4>1, <4>2
    <3>3. mem'[r][slot] = filled
      BY <1>1, <1>8
    <3> QED BY <1>1, <1>3, <3>1, <3>2, <3>3
  <2> QED BY <1>1, <2>1, <2>2
<1> QED BY <1>4, <1>9, <1>11, <1>12

(* What the root of a chunk posted is what its place in the blob holds.     *)
LEMMA SourceRight ==
  ASSUME TypeOK, OrderInv, DataInv, NEW r \in Ranks, NEW k \in DOMAIN wire[r], Completable(r, k),
         NEW i \in 1 .. wire[r][k].n
  PROVE  wire[wire[r][k].root][k].buf[i] = <<wire[r][k].file, wire[r][k].off + i>>
<1> DEFINE c == wire[r][k]
           q == c.root
           d == wire[q][k]
<1>1. /\ wire[r] \in Seq(Chunks) /\ c \in Chunks /\ k \in DOMAIN wire[r]
  BY DEF TypeOK
<1>2. q \in Ranks /\ k \in Nat \ {0}
  BY <1>1, SMTT(30) DEF Chunks
<1>3. wire[q] \in Seq(Chunks) /\ Len(wire[q]) >= k
  BY <1>2 DEF TypeOK, Completable
<1>4. k \in DOMAIN wire[q]
  BY <1>2, <1>3
<1>5. InPlan(c) /\ InPlan(d)
  BY <1>1, <1>2, <1>4 DEF OrderInv, WireFollowsPlan
<1>6. c.shard = d.shard /\ c.off = d.off
  BY <1>1, <1>2, <1>4 DEF OrderInv, SameChunks
<1>7. d.root = q /\ d.file = c.file /\ d.n = c.n
  BY <1>5, <1>6 DEF InPlan
<1>8. WireData(q)
  BY <1>2 DEF DataInv, Data
<1>9. i \in 1 .. d.n
  BY <1>7
<1> HIDE DEF c, d, q
<1>10. wire[q][k].root = q => \A p \in 1 .. wire[q][k].n :
         wire[q][k].buf[p] = <<wire[q][k].file, wire[q][k].off + p>>
  BY <1>4, <1>8 DEF WireData
<1>11. d.buf[i] = <<d.file, d.off + i>>
  BY <1>7, <1>9, <1>10 DEF d
<1>12. d.buf[i] = <<c.file, c.off + i>>
  BY <1>6, <1>7, <1>11
<1> QED BY <1>12 DEF c, d, q

(* After a sub-broadcast has completed, what has arrived of its chunk is in *)
(* the buffer and right.                                                    *)
LEMMA ReceivedRight ==
  ASSUME TypeOK, OrderInv, DataInv, NEW r \in Ranks, result[r] = "ok",
         NEW e \in in_flight[r], Complete(r, e[1], e[2]),
         NEW i \in 1 .. wire[r][e[1]].n, Arrived(r, e[1], i)'
  PROVE  mem'[r][wire[r][e[1]].slot][i] = <<wire[r][e[1]].file, wire[r][e[1]].off + i>>
<1> DEFINE c == wire[r][e[1]]
           k == e[1]
           j == e[2]
<1>1. /\ k \in DOMAIN wire[r] /\ e = <<k, j>> /\ c.slot \in Slots
      /\ wire' = wire /\ in_flight'[r] = in_flight[r] \ {e}
      /\ mem'[r] = [mem[r] EXCEPT ![c.slot] = Received(r, k, j)]
  BY CompleteEffect
<1>2. Completable(r, k)
  BY DEF Complete
<1>3. mem[r] \in [Slots -> Buffer]
  BY DEF TypeOK
<1>4. mem'[r][c.slot] = Received(r, k, j)
  BY <1>1, <1>3
<1>5. Fits(c)
  BY <1>1 DEF DataInv, Data, WireData
<1>6. i \in 1 .. Chunk /\ i <= c.n
  BY <1>5, BroadcastAssumption DEF Fits
<1>7. Received(r, k, j)[i] = IF c.root # r /\ InSub(j, i) /\ i <= c.n
                             THEN wire[c.root][k].buf[i] ELSE mem[r][c.slot][i]
  BY <1>6 DEF Received
<1>8. CASE c.root # r /\ InSub(j, i)
  <2>1. wire[c.root][k].buf[i] = <<c.file, c.off + i>>
    <3>1. k \in DOMAIN wire[r] /\ Completable(r, k) /\ i \in 1 .. wire[r][k].n
      BY <1>1, <1>2
    <3> HIDE DEF k
    <3>2. wire[wire[r][k].root][k].buf[i] = <<wire[r][k].file, wire[r][k].off + i>>
      BY <3>1, SourceRight
    <3> QED BY <3>2 DEF k
  <2> QED BY <1>4, <1>6, <1>7, <1>8, <2>1
<1>9. CASE ~(c.root # r /\ InSub(j, i))
  <2>1. Arrived(r, k, i)
    <3>1. CASE c.root = r
      BY <3>1 DEF Arrived
    <3>2. CASE c.root # r
      <4>1. PICK g \in 1 .. SubCount(c.n) : InSub(g, i) /\ <<k, g>> \notin in_flight'[r]
        BY <1>1, <3>2 DEF Arrived
      <4>2. g # j
        BY <1>9, <3>2, <4>1
      <4>3. <<k, g>> # e
        BY <1>1, <4>2
      <4>4. <<k, g>> \notin in_flight[r]
        BY <1>1, <4>1, <4>3
      <4> QED BY <4>1, <4>4 DEF Arrived
    <3> QED BY <3>1, <3>2
  <2>2. mem[r][c.slot][i] = <<c.file, c.off + i>>
    BY <2>1 DEF DataInv, Data, FlyingData
  <2>3. Received(r, k, j)[i] = mem[r][c.slot][i]
    BY <1>7, <1>9
  <2> QED BY <1>4, <2>2, <2>3
<1> QED BY <1>8, <1>9

(* What is behind the queues' contents is the command just sent.            *)
LEMMA EnqueueEither ==
  ASSUME NEW Q \in [Writers -> Seq(Commands)], NEW cmd \in Commands, NEW E, E = Enqueue(Q, cmd)
  PROVE  \A w \in Writers : \A i \in DOMAIN E[w] :
           \/ i \in DOMAIN Q[w] /\ E[w][i] = Q[w][i]
           \/ E[w][i] = cmd /\ w = WriterOf(cmd.file)
<1> DEFINE v == WriterOf(cmd.file)
<1>d. v = WriterOf(cmd.file)
  OBVIOUS
<1> HIDE DEF v
<1>1. /\ E[v][Len(Q[v]) + 1] = cmd
      /\ \A w \in Writers : \A i \in DOMAIN Q[w] : i \in DOMAIN E[w] /\ E[w][i] = Q[w][i]
      /\ \A w \in Writers : \A i \in DOMAIN E[w] :
           i \in DOMAIN Q[w] \/ (w = v /\ i = Len(Q[v]) + 1)
  BY <1>d, EnqueueFacts, SMTT(30)
<1> QED BY <1>d, <1>1

(* A completion copies the owner's units into a buffer that is under no     *)
(* other collective and in no command.                                      *)
LEMMA DataComplete ==
  ASSUME TypeOK, OrderInv, DataInv, NEW r \in Ranks, Control(r), Pool(r), Pool(r)',
         NEW e \in in_flight[r], Complete(r, e[1], e[2])
  PROVE  WireData(r)' /\ FlyingData(r)' /\ QueuedData(r)' /\ CursorAligned(r)'
<1> DEFINE c == wire[r][e[1]]
           st == file_state[r][c.file]
           cmd == Write(c)
           Q == Enqueue(cmds[r], cmd)
           moved == Counted(st, 0, -1, 1)
           less == Counted(st, 0, -1, 0)
<1>1. /\ e[1] \in DOMAIN wire[r] /\ e = <<e[1], e[2]>>
      /\ c.slot \in Slots /\ c.file \in Files /\ cmd \in Commands /\ st \in FileStates
      /\ pc[r] = "wait" /\ result'[r] = result[r]
      /\ active' = active /\ post_offset' = post_offset /\ wire' = wire
      /\ in_flight'[r] = in_flight[r] \ {e}
      /\ mem'[r] = [mem[r] EXCEPT ![c.slot] = Received(r, e[1], e[2])]
      /\ subs'[r] = [subs[r] EXCEPT ![c.slot] = @ - 1]
      /\ \/ ~SlotReleased(r, c.slot) /\ cmds' = cmds
         \/ /\ SlotReleased(r, c.slot) /\ MaybeCloseFile(r, c.file, moved, Q)
         \/ /\ SlotReleased(r, c.slot) /\ MaybeCloseFile(r, c.file, less, cmds[r])
  BY CompleteEffect
<1>2. result[r] = "ok" /\ Data(r)
  BY <1>1 DEF Control, TypeOK, DataInv
<1>3. WireData(r)' /\ CursorAligned(r)'
  BY <1>1, <1>2 DEF Data, WireData, Fits, CursorAligned
<1>t. /\ mem[r] \in [Slots -> Buffer] /\ cmds[r] \in [Writers -> Seq(Commands)]
      /\ in_flight[r] \subseteq (DOMAIN wire[r]) \X Nat
      /\ subs[r] \in [Slots -> Int]
  BY DEF TypeOK
<1>4. \A i \in 1 .. c.n : Arrived(r, e[1], i)' => mem'[r][c.slot][i] = <<c.file, c.off + i>>
  BY <1>2, ReceivedRight
<1>5. FlyingData(r)'
  <2> SUFFICES ASSUME NEW g \in in_flight'[r], NEW i \in 1 .. wire'[r][g[1]].n, Arrived(r, g[1], i)'
               PROVE  mem'[r][wire'[r][g[1]].slot][i] = <<wire'[r][g[1]].file, wire'[r][g[1]].off + i>>
    BY DEF FlyingData
  <2>0. g \in in_flight[r] /\ g[1] \in DOMAIN wire[r]
    BY <1>1, <1>t
  <2>1. CASE wire[r][g[1]].slot = c.slot
    <3>1. g[1] = e[1]
      BY <1>2, <2>0, <2>1 DEF Pool
    <3> QED BY <1>1, <1>4, <3>1
  <2>2. CASE wire[r][g[1]].slot # c.slot
    <3>1. mem'[r][wire[r][g[1]].slot] = mem[r][wire[r][g[1]].slot]
      <4>1. wire[r][g[1]] \in Chunks
        BY <2>0, SMTT(30) DEF TypeOK
      <4>2. wire[r][g[1]].slot \in Slots
        BY <4>1 DEF Chunks
      <4> QED BY <1>1, <1>t, <2>2, <4>2
    <3>2. Arrived(r, g[1], i)
      <4>1. \A j : <<g[1], j>> \notin in_flight'[r] => <<g[1], j>> \notin in_flight[r]
        BY <1>1, <2>2
      <4> QED BY <1>1, <4>1 DEF Arrived
    <3>3. mem[r][wire[r][g[1]].slot][i] = <<wire[r][g[1]].file, wire[r][g[1]].off + i>>
      BY <1>1, <1>2, <2>0, <3>2 DEF Data, FlyingData
    <3> QED BY <1>1, <3>1, <3>3
  <2> QED BY <2>1, <2>2
<1>6. ASSUME SlotReleased(r, c.slot), NEW i \in 1 .. c.n
      PROVE  mem'[r][c.slot][i] = <<c.file, c.off + i>>
  <2>1. result'[r] = "ok" /\ IsFiniteSet(in_flight[r]) /\ subs[r][c.slot] = Cardinality(Flying(r, c.slot))
    BY <1>1, <1>2 DEF Pool
  <2>2. \A s \in Slots : s = c.slot => Flying(r, s)' = {}
    BY <1>1, <1>6, <2>1, FlyingCompleted DEF SlotReleased
  <2>3. \A j : <<e[1], j>> \notin in_flight'[r]
    BY <1>1, <2>2 DEF Flying
  <2>4. c.n \in Nat
    BY <1>1, CompleteEffect
  <2>5. \E j \in 1 .. SubCount(c.n) : InSub(j, i)
    BY <2>4, SomeSub
  <2>6. Arrived(r, e[1], i)'
    BY <1>1, <2>3, <2>5 DEF Arrived
  <2> QED BY <1>4, <2>6
<1>7. Fits(c)
  BY <1>1, <1>2 DEF Data, WireData
<1>8. c.slot = cmd.slot /\ c.file = cmd.file /\ c.n = cmd.n /\ c.off = cmd.off /\ cmd.kind = "write"
  BY DEF Write
<1>9. Fits(cmd)
  BY <1>7, <1>8 DEF Fits
<1>u. moved \in FileStates /\ less \in FileStates
  <2>1. ASSUME NEW x \in FileStates
        PROVE  Counted(x, 0, -1, 1) \in FileStates /\ Counted(x, 0, -1, 0) \in FileStates
    BY CountedFacts
  <2>2. st \in FileStates
    BY <1>1
  <2> HIDE DEF st
  <2> QED BY <2>1, <2>2
<1>10. ~HasWriter(r, c.slot)
  <2>1. e \in Flying(r, c.slot)
    BY DEF Flying
  <2> QED BY <1>1, <1>2, <2>1 DEF Pool
<1>11. \A s \in Slots : HasWriter(r, s) => mem'[r][s] = mem[r][s]
  BY <1>1, <1>10, <1>t
<1> HIDE DEF c, st, cmd, Q, moved, less
<1>12. QueuedData(r)'
  <2>1. CASE OnlyFrom(cmds'[r], cmds[r])
    BY <1>2, <1>11, <2>1, QueuedKept DEF Data
  <2>2. CASE SlotReleased(r, c.slot) /\ MaybeCloseFile(r, c.file, moved, Q)
    <3>1. Q \in [Writers -> Seq(Commands)]
      BY <1>1, <1>t, EnqueueType DEF Q
    <3>2. OnlyFrom(cmds'[r], Q)
      BY <1>1, <1>u, <2>2, <3>1, MaybeCloseOnly
    <3>d. Q = Enqueue(cmds[r], cmd)
      BY DEF Q
    <3>3. \A w \in Writers : \A i \in DOMAIN Q[w] :
            \/ i \in DOMAIN cmds[r][w] /\ Q[w][i] = cmds[r][w][i]
            \/ Q[w][i] = cmd /\ w = WriterOf(cmd.file)
      <4>1. cmd \in Commands /\ cmds[r] \in [Writers -> Seq(Commands)]
        BY <1>1, <1>t
      <4> QED BY <3>d, <4>1, EnqueueEither
    <3> SUFFICES ASSUME NEW w \in Writers, NEW i \in DOMAIN cmds'[r][w], cmds'[r][w][i].kind = "write"
                 PROVE  LET d == cmds'[r][w][i]
                        IN Fits(d) /\ \A p \in 1 .. d.n : mem'[r][d.slot][p] = <<d.file, d.off + p>>
      BY DEF QueuedData, Fits
    <3> DEFINE d == cmds'[r][w][i]
    <3>4. PICK j \in DOMAIN Q[w] : Q[w][j] = d /\ d.kind = "write"
      BY <3>2 DEF OnlyFrom
    <3> HIDE DEF d
    <3>5. CASE j \in DOMAIN cmds[r][w] /\ Q[w][j] = cmds[r][w][j]
      <4>1. Fits(d) /\ \A p \in 1 .. d.n : mem[r][d.slot][p] = <<d.file, d.off + p>>
        BY <1>2, <3>4, <3>5 DEF Data, QueuedData
      <4>2. d.slot \in Slots /\ HasWriter(r, d.slot)
        BY <3>4, <3>5, QueuedHasWriter
      <4>3. mem'[r][d.slot] = mem[r][d.slot]
        BY <1>11, <4>2
      <4> QED BY <4>1, <4>3 DEF d
    <3>6. CASE Q[w][j] = cmd
      <4>1. d = cmd
        BY <3>4, <3>6
      <4>2. Fits(d) /\ \A p \in 1 .. d.n : mem'[r][d.slot][p] = <<d.file, d.off + p>>
        BY <1>6, <1>8, <1>9, <2>2, <4>1
      <4> QED BY <4>2 DEF d
    <3> QED BY <3>3, <3>4, <3>5, <3>6
  <2>3. CASE MaybeCloseFile(r, c.file, less, cmds[r])
    <3>1. OnlyFrom(cmds'[r], cmds[r])
      BY <1>1, <1>t, <1>u, <2>3, MaybeCloseOnly
    <3> QED BY <2>1, <3>1
  <2>4. CASE cmds' = cmds
    BY <2>1, <2>4, OnlySelf
  <2> QED BY <1>1, <2>2, <2>3, <2>4
<1> QED BY <1>3, <1>5, <1>12

(* Data holds at the start: no chunk is posted, and the owners have their   *)
(* shards.                                                                  *)
LEMMA DataInit == Init => DataInv
<1> SUFFICES ASSUME Init, NEW r \in Ranks PROVE Data(r)
  BY DEF DataInv
<1>1. /\ wire[r] = <<>> /\ in_flight[r] = {} /\ active[r] = FALSE
      /\ \A w \in Writers : cmds[r][w] = <<>>
      /\ \A f \in Files : disk[r][f] = InitialFile(r, f)
  BY DEF Init
<1>2. WireData(r) /\ FlyingData(r) /\ QueuedData(r) /\ CursorAligned(r)
  BY <1>1 DEF WireData, FlyingData, QueuedData, CursorAligned
<1>3. ASSUME NEW i \in DOMAIN Plan, Plan[i].owner = r,
             NEW p \in Plan[i].off + 1 .. Plan[i].off + Plan[i].len
      PROVE  disk[r][Plan[i].file][p] = <<Plan[i].file, p>>
  <2> DEFINE f == Plan[i].file
  <2>1. Plan[i] \in Shard /\ Plan[i].off + Plan[i].len <= Size[f]
    BY BroadcastAssumption
  <2>2. f \in Files /\ Plan[i].off \in Nat /\ Plan[i].len \in Nat /\ Size[f] \in Nat
    BY <2>1, BroadcastAssumption DEF Shard
  <2>3. p \in 1 .. Size[f] /\ InShard(Plan[i], p)
    BY <2>1, <2>2 DEF InShard
  <2>4. InitialFile(r, f)[p] = <<f, p>>
    BY <1>3, <2>3 DEF InitialFile
  <2> QED BY <1>1, <2>2, <2>4
<1> QED BY <1>2, <1>3 DEF Data, OwnedIntact

(* Every step keeps the data.                                               *)
LEMMA DataStep ==
  ASSUME TypeOK, OrderInv, ControlInv, PoolInv, PoolInv', DataInv, [Next]_vars
  PROVE  DataInv'
<1> SUFFICES ASSUME NEW r \in Ranks PROVE Data(r)'
  BY DEF DataInv
<1>0. Control(r) /\ Pool(r) /\ Pool(r)' /\ Data(r)
  BY DEF ControlInv, PoolInv, DataInv
<1>1. OwnedIntact(r)'
  BY OwnedStep
<1> DEFINE Rest == WireData(r)' /\ FlyingData(r)' /\ QueuedData(r)' /\ CursorAligned(r)'
<1> USE DEF cursorVars, poolVars, bcastVars, fileVars, writerVars, faultVars
<1>2. CASE StartShard(r)
  <2>1. /\ wire'[r] = wire[r] /\ mem'[r] = mem[r] /\ in_flight'[r] = in_flight[r]
        /\ result'[r] = result[r] /\ post_offset'[r] = 0
    BY <1>2, StartShardEffect
  <2> QED BY <1>0, <1>1, <1>2, <2>1, StartShardOnly, DataKeep DEF Data
<1>3. CASE PostChunk(r)
  BY <1>0, <1>1, <1>3, DataPostChunk DEF Data
<1>4. CASE WaitAny(r)
  <2>1. PICK e \in in_flight[r] : Complete(r, e[1], e[2])
    BY <1>4 DEF WaitAny
  <2> QED BY <1>0, <1>1, <2>1, DataComplete DEF Data
<1>5. CASE TakeAck(r)
  <2>1. /\ wire'[r] = wire[r] /\ mem'[r] = mem[r] /\ in_flight'[r] = in_flight[r]
        /\ result'[r] \in {result[r], "err"}
        /\ active'[r] = active[r] /\ post_offset'[r] = post_offset[r]
    BY <1>5, TakeAckEffect
  <2> QED BY <1>0, <1>1, <1>5, <2>1, TakeAckOnly, DataKeep DEF Data
<1>6. CASE EndPosting(r) \/ AfterDrain(r) \/ JoinWriters(r) \/ MainCallFails(r) \/ Aborted(r) \/ Idle(r)
  <2>1. /\ wire'[r] = wire[r] /\ mem'[r] = mem[r] /\ in_flight'[r] = in_flight[r]
        /\ result'[r] \in {result[r], "err"} /\ cmds'[r] = cmds[r]
        /\ active'[r] = active[r] /\ post_offset'[r] = post_offset[r]
    <3>1. result \in [Ranks -> {"ok", "err"}]
      BY DEF TypeOK
    <3> QED BY <1>6, <3>1 DEF EndPosting, AfterDrain, JoinWriters, MainCallFails, Aborted, Idle, SameRank
  <2>2. OnlyFrom(cmds'[r], cmds[r])
    BY <2>1, OnlySelf
  <2> QED BY <1>0, <1>1, <2>1, <2>2, DataKeep DEF Data
<1>7. CASE \E w \in Writers : ~Returned(r) /\ WritersStep(r, w)
  <2>1. PICK w \in Writers : WritersStep(r, w)
    BY <1>7
  <2>2. /\ wire'[r] = wire[r] /\ mem'[r] = mem[r] /\ in_flight'[r] = in_flight[r]
        /\ result'[r] = result[r]
        /\ active'[r] = active[r] /\ post_offset'[r] = post_offset[r]
    BY <2>1 DEF WritersStep, WriterOpen, WriterWrite, WriterClose, WriterExit
  <2> QED BY <1>0, <1>1, <2>1, <2>2, WriterOnly, DataKeep DEF Data
<1> QED BY <1>2, <1>3, <1>4, <1>5, <1>6, <1>7, RankStep

(* The invariants proved so far, together.                                  *)
FlowInv == OrderInv /\ ControlInv /\ PoolInv /\ DataInv

LEMMA FlowInit == Init => FlowInv
BY OrderInit, ControlInit, PoolInit, DataInit DEF FlowInv

LEMMA FlowStep == TypeOK /\ TypeOK' /\ FlowInv /\ [Next]_vars => FlowInv'
BY OrderStep, ControlStep, PoolStep, DataStep DEF FlowInv

(* Broadcast.BuffersAccounted: for any pool, queue depth and plan, a buffer *)
(* is free, under a collective or with a writer, never two of these; a      *)
(* buffer that is still in use is never filled.                             *)
THEOREM BuffersAccountedAlways == Spec => []BuffersAccounted
<1>1. TypeOK /\ FlowInv => BuffersAccounted
  BY PoolAccounts DEF FlowInv
<1> QED BY <1>1, TypeCorrect, FlowInit, FlowStep, PTL DEF Spec

(* Broadcast.QueuedDataIntact: what a queued Write is to store is still in  *)
(* its buffer when the writer takes it.                                     *)
THEOREM QueuedDataIntactAlways == Spec => []QueuedDataIntact
<1>1. FlowInv => QueuedDataIntact
  BY DEF FlowInv, DataInv, Data, QueuedData, QueuedDataIntact
<1> QED BY <1>1, TypeCorrect, FlowInit, FlowStep, PTL DEF Spec

(* Broadcast.OwnedRangesIntact: no step damages the shards that a rank has  *)
(* downloaded and the others read from it.                                  *)
THEOREM OwnedRangesIntactAlways == Spec => []OwnedRangesIntact
<1>1. FlowInv => OwnedRangesIntact
  BY DEF FlowInv, DataInv, Data, OwnedIntact, OwnedRangesIntact
<1> QED BY <1>1, TypeCorrect, FlowInit, FlowStep, PTL DEF Spec
==============================================================================
