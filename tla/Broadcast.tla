------------------------------ MODULE Broadcast ------------------------------
(***************************************************************************)
(* The broadcast stage of azcp-cluster                                     *)
(* (crates/azcp-cluster/src/stages/broadcast.rs).                          *)
(*                                                                         *)
(* Every rank walks the same shard plan.  A shard is cut into chunks, a    *)
(* chunk into sub-broadcasts, and each sub-broadcast is one MPI_Ibcast on  *)
(* the world communicator, rooted at the shard's owner, which reads the    *)
(* chunk from its local file.  A chunk occupies one of Depth buffer slots  *)
(* until every sub-broadcast of it has completed, in any order; a rank     *)
(* that needs the file then hands the buffer to a writer thread, which     *)
(* writes it at its absolute offset and gives the buffer back with an      *)
(* acknowledgement.  The main thread of a rank (pc) and its writers run    *)
(* concurrently; ranks meet only in the collectives.                       *)
(*                                                                         *)
(* Offsets and lengths count abstract units; ALIGN units make one O_DIRECT *)
(* block.  The p-th unit of file f is the value <<f, p>>, and Hole is what *)
(* set_len or a fresh buffer holds, so a unit that lands in the wrong      *)
(* place, or comes out of a stale buffer, is visible.                      *)
(***************************************************************************)
EXTENDS Integers, Sequences, FiniteSets

CONSTANTS
  Ranks,        \* the ranks of the world communicator
  Files,        \* file_idx of the files with shards in the plan
  Size,         \* content_length of each file
  Plan,         \* bcast_shards of main.rs: the shards in broadcast order
  Has,          \* presence: the files each rank held when the run began
  Depth,        \* --bcast-pipeline
  NumWriters,   \* --bcast-writers
  Chunk,        \* --bcast-chunk
  MAX_SUB_BCAST,
  ALIGN,
  Direct,       \* ~ --no-bcast-direct
  MaxFaults     \* bound: I/O and MPI calls that fail in one behaviour

Slots == 0 .. Depth - 1
Writers == 0 .. NumWriters - 1
Shard == [file : Files, off : Nat, len : Nat, owner : Ranks]

ASSUME BroadcastAssumption ==
  /\ Files \subseteq Nat
  /\ Size \in [Files -> Nat]
  /\ Plan \in Seq(Shard)
  /\ \A i \in DOMAIN Plan : Plan[i].off + Plan[i].len <= Size[Plan[i].file]
  /\ Has \in [Ranks -> SUBSET Files]
  /\ Depth \in Nat \ {0} /\ NumWriters \in Nat \ {0}
  /\ Chunk \in Nat \ {0} /\ MAX_SUB_BCAST \in Nat \ {0} /\ ALIGN \in Nat \ {0}
  /\ Direct \in BOOLEAN
  /\ Direct => Chunk % ALIGN = 0
  /\ MaxFaults \in Nat

Hole == <<>>
Cells == {Hole} \cup (Files \X Nat)
Buffer == [1 .. Chunk -> Cells]
Source(f) == [p \in 1 .. Size[f] |-> <<f, p>>]
InShard(s, p) == s.off < p /\ p <= s.off + s.len
ShardEnd(i) == Plan[i].off + Plan[i].len
PlanFiles == {Plan[i].file : i \in DOMAIN Plan}

(* What shards.rs and main.rs make sure of for every plan (ShardPlan's      *)
(* theorems): a shard starts at a whole number of chunks and ends at one or *)
(* with the file, and the shards of a file leave none of it out.            *)
ASSUME PlanAssumption ==
  /\ \A i \in DOMAIN Plan :
       /\ Plan[i].off % Chunk = 0
       /\ ShardEnd(i) % Chunk = 0 \/ ShardEnd(i) = Size[Plan[i].file]
  /\ \A f \in PlanFiles : \A p \in 1 .. Size[f] :
       \E i \in DOMAIN Plan : Plan[i].file = f /\ InShard(Plan[i], p)

Min2(a, b) == IF a <= b THEN a ELSE b

VARIABLES
  pc,            \* where each rank's main thread is
  result,        \* what drive_pipeline returned ("ok" until it fails)
  next_plan_idx, \* shards taken from the plan so far
  active,        \* is shard number next_plan_idx still being posted?
  post_offset,   \* next_post_offset of the active shard
  free_slots,    \* the VecDeque of free slots
  home,          \* buffers[slot].is_some()
  writes_pending,
  in_flight,     \* collectives not yet completed: <<chunk, sub-broadcast>>
  subs,          \* slot_subs_remaining
  mem,           \* the contents of each slot's buffer, wherever it is
  wire,          \* the chunks a rank has posted, in posting order
  file_state,    \* FileState of each file
  cmds,          \* the command channel of each writer
  acks,          \* the acknowledgement channel of each rank
  files,         \* the writers' open files
  deferred,      \* the writers with a deferred_err
  exited,        \* the writers that have returned
  disk,          \* the local files
  synced,        \* files sync_all has completed for
  failed,        \* history: has an I/O or MPI call of the rank failed?
  faults         \* number of calls that have failed

cursorVars == <<next_plan_idx, active, post_offset>>
poolVars == <<free_slots, home, writes_pending>>
bcastVars == <<in_flight, subs, mem, wire>>
fileVars == <<file_state, cmds>>
writerVars == <<acks, files, deferred, exited, disk, synced>>
faultVars == <<failed, faults>>
vars == <<pc, result, cursorVars, poolVars, bcastVars, fileVars, writerVars, faultVars>>

------------------------------------------------------------------------------
(* Per-file facts fixed before the loop starts.                             *)

ShardsTotal(f) == Cardinality({i \in DOMAIN Plan : Plan[i].file = f})

NeedsWrite(r, f) ==
  /\ f \notin Has[r]
  /\ \E i \in DOMAIN Plan : Plan[i].file = f /\ Plan[i].owner # r
  /\ Size[f] > 0

FileStates == [opened : BOOLEAN, closed : BOOLEAN, shards_posted : Int,
               chunks_in_flight : Int, writes_in_flight : Int]

(* The commands of a writer and the acknowledgements it sends back.         *)
WriterOf(f) == f % NumWriters
OpenFile(f) == [kind |-> "open", file |-> f, slot |-> 0, n |-> 0, off |-> 0]
CloseFile(f) == [OpenFile(f) EXCEPT !.kind = "close"]
Write(c) == [kind |-> "write", file |-> c.file, slot |-> c.slot, n |-> c.n, off |-> c.off]
Commands == [kind : {"open", "write", "close"}, file : Files, slot : Slots,
             n : Nat, off : Nat]
Acks == [slot : Slots, file : Files, err : BOOLEAN]

Enqueue(queues, cmd) ==
  [queues EXCEPT ![WriterOf(cmd.file)] = Append(@, cmd)]

(* The file a rank starts from: complete in the ranges the rank answers     *)
(* for, and created at full length by main.rs.                              *)
InitialFile(r, f) ==
  [p \in 1 .. Size[f] |->
     IF \/ f \in Has[r]
        \/ \E i \in DOMAIN Plan : /\ Plan[i].file = f
                                  /\ Plan[i].owner = r
                                  /\ InShard(Plan[i], p)
     THEN <<f, p>> ELSE Hole]

Init ==
  /\ pc = [r \in Ranks |-> "post"]
  /\ result = [r \in Ranks |-> "ok"]
  /\ next_plan_idx = [r \in Ranks |-> 0]
  /\ active = [r \in Ranks |-> FALSE]
  /\ post_offset = [r \in Ranks |-> 0]
  /\ free_slots = [r \in Ranks |-> [i \in 1 .. Depth |-> i - 1]]
  /\ home = [r \in Ranks |-> [s \in Slots |-> TRUE]]
  /\ writes_pending = [r \in Ranks |-> 0]
  /\ in_flight = [r \in Ranks |-> {}]
  /\ subs = [r \in Ranks |-> [s \in Slots |-> 0]]
  /\ mem = [r \in Ranks |-> [s \in Slots |-> [i \in 1 .. Chunk |-> Hole]]]
  /\ wire = [r \in Ranks |-> <<>>]
  /\ file_state = [r \in Ranks |-> [f \in Files |->
       [opened |-> FALSE, closed |-> FALSE, shards_posted |-> 0,
        chunks_in_flight |-> 0, writes_in_flight |-> 0]]]
  /\ cmds = [r \in Ranks |-> [w \in Writers |-> <<>>]]
  /\ acks = [r \in Ranks |-> <<>>]
  /\ files = [r \in Ranks |-> {}]
  /\ deferred = [r \in Ranks |-> {}]
  /\ exited = [r \in Ranks |-> {}]
  /\ disk = [r \in Ranks |-> [f \in Files |-> InitialFile(r, f)]]
  /\ synced = [r \in Ranks |-> {}]
  /\ failed = [r \in Ranks |-> FALSE]
  /\ faults = 0

------------------------------------------------------------------------------
(* maybe_close_file, called on every change of a FileState: st and queues   *)
(* are the file's state and the command channels after that change.         *)

CloseWithChunksInFlight(f, st) ==      \* a mutation of MayClose
  /\ st.opened /\ ~st.closed
  /\ st.shards_posted = ShardsTotal(f)
  /\ st.writes_in_flight = 0

MayClose(f, st) ==
  /\ st.opened /\ ~st.closed
  /\ st.shards_posted = ShardsTotal(f)
  /\ st.chunks_in_flight = 0
  /\ st.writes_in_flight = 0

MaybeCloseFile(r, f, st, queues) ==
  IF MayClose(f, st)
  THEN /\ file_state' = [file_state EXCEPT ![r][f] = [st EXCEPT !.closed = TRUE]]
       /\ cmds' = [cmds EXCEPT ![r] = Enqueue(queues, CloseFile(f))]
  ELSE /\ file_state' = [file_state EXCEPT ![r][f] = st]
       /\ cmds' = [cmds EXCEPT ![r] = queues]

(* The main thread: drive_pipeline.                                         *)

(* Take the next shard of the plan; a receiver opens the file before its    *)
(* first shard, and a zero-length shard is accounted for on the spot.       *)
StartShard(r) ==
  /\ pc[r] = "post" /\ free_slots[r] # <<>> /\ ~active[r]
  /\ next_plan_idx[r] < Len(Plan)
  /\ LET s == Plan[next_plan_idx[r] + 1]
         st == file_state[r][s.file]
         opens == NeedsWrite(r, s.file) /\ ~st.opened
         st1 == [st EXCEPT !.opened = @ \/ opens]
         queues == IF opens THEN Enqueue(cmds[r], OpenFile(s.file)) ELSE cmds[r]
     IN IF s.len = 0
        THEN /\ MaybeCloseFile(r, s.file, [st1 EXCEPT !.shards_posted = @ + 1], queues)
             /\ UNCHANGED active
        ELSE /\ file_state' = [file_state EXCEPT ![r][s.file] = st1]
             /\ cmds' = [cmds EXCEPT ![r] = queues]
             /\ active' = [active EXCEPT ![r] = TRUE]
  /\ next_plan_idx' = [next_plan_idx EXCEPT ![r] = @ + 1]
  /\ post_offset' = [post_offset EXCEPT ![r] = 0]
  /\ UNCHANGED <<pc, result, poolVars, bcastVars, writerVars, faultVars>>

FilledWithoutSeek(r, s, n, slot) ==    \* mutations of Filled
  [i \in 1 .. Chunk |->
     IF s.owner = r /\ i <= n THEN disk[r][s.file][post_offset[r] + i]
                              ELSE mem[r][slot][i]]
FilledToLength(r, s, n, slot) ==
  [i \in 1 .. n |->
     IF s.owner = r THEN disk[r][s.file][s.off + post_offset[r] + i]
                    ELSE mem[r][slot][i]]

(* read_exact on the owner fills the first n units of the buffer; what was  *)
(* there before stays behind them, and everywhere on the other ranks.       *)
Filled(r, s, n, slot) ==
  [i \in 1 .. Chunk |->
     IF s.owner = r /\ i <= n THEN disk[r][s.file][s.off + post_offset[r] + i]
                              ELSE mem[r][slot][i]]

ShardRelativeChunk(r, s, n, slot) ==   \* a mutation of ChunkOf
  [shard |-> next_plan_idx[r], file |-> s.file, slot |-> slot, root |-> s.owner, n |-> n,
   off |-> post_offset[r], buf |-> Filled(r, s, n, slot)]

(* The chunk that starts at post_offset of shard s, in buffer slot.         *)
ChunkOf(r, s, n, slot) ==
  [shard |-> next_plan_idx[r], file |-> s.file, slot |-> slot, root |-> s.owner, n |-> n,
   off |-> s.off + post_offset[r], buf |-> Filled(r, s, n, slot)]

FullLengthOnReceivers(r, s) ==         \* a mutation of ChunkLen
  IF s.owner = r THEN Min2(s.len - post_offset[r], Chunk) ELSE Chunk
ChunkLen(r, s) == Min2(s.len - post_offset[r], Chunk)

(* The sub-broadcasts of a chunk of n units; the j-th carries the units     *)
(* after the ones of those before it.                                       *)
SubCount(n) == (n + MAX_SUB_BCAST - 1) \div MAX_SUB_BCAST
InSub(j, i) == (j - 1) * MAX_SUB_BCAST < i /\ i <= j * MAX_SUB_BCAST

(* Post the next chunk of the active shard from the first free slot.        *)
PostChunk(r) ==
  /\ pc[r] = "post" /\ free_slots[r] # <<>> /\ active[r]
  /\ LET s == Plan[next_plan_idx[r]]
         slot == Head(free_slots[r])
         n == ChunkLen(r, s)
         last == post_offset[r] + n >= s.len
         st == [file_state[r][s.file] EXCEPT !.chunks_in_flight = @ + 1]
     IN /\ free_slots' = [free_slots EXCEPT ![r] = Tail(@)]
        /\ mem' = [mem EXCEPT ![r][slot] = Filled(r, s, n, slot)]
        /\ wire' = [wire EXCEPT ![r] = Append(@, ChunkOf(r, s, n, slot))]
        /\ in_flight' = [in_flight EXCEPT ![r] =
                           @ \cup ({Len(wire[r]) + 1} \X (1 .. SubCount(n)))]
        /\ subs' = [subs EXCEPT ![r][slot] = @ + SubCount(n)]
        /\ post_offset' = [post_offset EXCEPT ![r] = @ + n]
        /\ active' = [active EXCEPT ![r] = ~last]
        /\ IF last
           THEN MaybeCloseFile(r, s.file, [st EXCEPT !.shards_posted = @ + 1], cmds[r])
           ELSE /\ file_state' = [file_state EXCEPT ![r][s.file] = st]
                /\ UNCHANGED cmds
  /\ UNCHANGED <<pc, result, next_plan_idx, home, writes_pending, writerVars, faultVars>>

(* Nothing more can be posted now: no free slot, or no shard left.          *)
EndPosting(r) ==
  /\ pc[r] = "post"
  /\ free_slots[r] = <<>> \/ (~active[r] /\ next_plan_idx[r] = Len(Plan))
  /\ pc' = [pc EXCEPT ![r] = "drain"]
  /\ UNCHANGED <<result, cursorVars, poolVars, bcastVars, fileVars, writerVars, faultVars>>

(* An acknowledgement, from the try_recv loop ("drain") or from the         *)
(* blocking recv ("recv"): the buffer is back in its slot and the slot is   *)
(* free.  A failed write makes drive_pipeline return its error.             *)
TakeAck(r) ==
  /\ pc[r] \in {"drain", "recv"} /\ acks[r] # <<>>
  /\ LET a == Head(acks[r])
         st == [file_state[r][a.file] EXCEPT !.writes_in_flight = @ - 1]
     IN IF a.err
        THEN /\ pc' = [pc EXCEPT ![r] = "join"]
             /\ result' = [result EXCEPT ![r] = "err"]
             /\ UNCHANGED <<poolVars, fileVars>>
        ELSE /\ pc' = [pc EXCEPT ![r] = IF @ = "recv" THEN "post" ELSE @]
             /\ home' = [home EXCEPT ![r][a.slot] = TRUE]
             /\ free_slots' = [free_slots EXCEPT ![r] = Append(@, a.slot)]
             /\ writes_pending' = [writes_pending EXCEPT ![r] = @ - 1]
             /\ MaybeCloseFile(r, a.file, st, cmds[r])
             /\ UNCHANGED result
  /\ acks' = [acks EXCEPT ![r] = Tail(@)]
  /\ UNCHANGED <<cursorVars, bcastVars, files, deferred, exited, disk, synced, faultVars>>

AllDone(r) ==
  /\ in_flight[r] = {} /\ writes_pending[r] = 0
  /\ next_plan_idx[r] = Len(Plan) /\ ~active[r]

(* No acknowledgement is waiting: finish, block on one, or MPI_Waitany.     *)
AfterDrain(r) ==
  /\ pc[r] = "drain" /\ acks[r] = <<>>
  /\ pc' = [pc EXCEPT ![r] = IF AllDone(r) THEN "join"
                             ELSE IF in_flight[r] = {} THEN "recv" ELSE "wait"]
  /\ UNCHANGED <<result, cursorVars, poolVars, bcastVars, fileVars, writerVars, faultVars>>

(* The collectives of the k-th chunk of every rank match.  One may complete *)
(* at a rank once its root has posted it; MPI promises that it does only    *)
(* when every rank has.                                                     *)
Completable(r, k) == Len(wire[wire[r][k].root]) >= k
PostedByAll(k) == \A q \in Ranks : Len(wire[q]) >= k

Received(r, k, j) ==
  LET c == wire[r][k]
  IN [i \in 1 .. Chunk |-> IF c.root # r /\ InSub(j, i) /\ i <= c.n
                           THEN wire[c.root][k].buf[i] ELSE mem[r][c.slot][i]]

ReleasedOnFirstSub(r, slot) == TRUE    \* a mutation of SlotReleased
SlotReleased(r, slot) == subs[r][slot] = 1

(* MPI_Waitany reports sub-broadcast j of chunk k.  When it was the last of *)
(* the chunk, the buffer moves to a writer or the slot is free again.       *)
Complete(r, k, j) ==
  /\ pc[r] = "wait" /\ Completable(r, k)
  /\ LET c == wire[r][k]
         st == [file_state[r][c.file] EXCEPT !.chunks_in_flight = @ - 1]
     IN /\ mem' = [mem EXCEPT ![r][c.slot] = Received(r, k, j)]
        /\ in_flight' = [in_flight EXCEPT ![r] = @ \ {<<k, j>>}]
        /\ subs' = [subs EXCEPT ![r][c.slot] = @ - 1]
        /\ IF ~SlotReleased(r, c.slot)
           THEN UNCHANGED <<poolVars, fileVars>>
           ELSE IF NeedsWrite(r, c.file)
           THEN /\ home' = [home EXCEPT ![r][c.slot] = FALSE]
                /\ writes_pending' = [writes_pending EXCEPT ![r] = @ + 1]
                /\ MaybeCloseFile(r, c.file, [st EXCEPT !.writes_in_flight = @ + 1],
                                  Enqueue(cmds[r], Write(c)))
                /\ UNCHANGED free_slots
           ELSE /\ free_slots' = [free_slots EXCEPT ![r] = Append(@, c.slot)]
                /\ MaybeCloseFile(r, c.file, st, cmds[r])
                /\ UNCHANGED <<home, writes_pending>>
  /\ pc' = [pc EXCEPT ![r] = "post"]
  /\ UNCHANGED <<result, cursorVars, wire, writerVars, faultVars>>

WaitAny(r) == \E e \in in_flight[r] : Complete(r, e[1], e[2])
WaitAnyPosted(r) == \E e \in in_flight[r] : PostedByAll(e[1]) /\ Complete(r, e[1], e[2])

(* run: with the command channels dropped, join the writers and combine     *)
(* drive_pipeline's result with theirs.                                     *)
WriterResultDropped(r) == result[r]    \* mutations of StageResult
PipelineResultDropped(r) == IF deferred[r] = {} THEN "ok" ELSE "err"
StageResult(r) == IF result[r] = "ok" /\ deferred[r] = {} THEN "ok" ELSE "err"

JoinWriters(r) ==
  /\ pc[r] = "join" /\ exited[r] = Writers
  /\ pc' = [pc EXCEPT ![r] = StageResult(r)]
  /\ UNCHANGED <<result, cursorVars, poolVars, bcastVars, fileVars, writerVars, faultVars>>

Returned(r) == pc[r] \in {"ok", "aborted"}

------------------------------------------------------------------------------
(* The writer threads: writer_loop.                                         *)

RoundUp(n) == ((n + ALIGN - 1) \div ALIGN) * ALIGN

(* O_DIRECT lengths are rounded up to a block, the buffer's older contents  *)
(* filling the rest.                                                        *)
WriteLen(n) == Min2(IF Direct THEN RoundUp(n) ELSE n, Chunk)

Overwritten(file, buf, off, len) ==
  [p \in 1 .. (IF Len(file) >= off + len THEN Len(file) ELSE off + len) |->
     IF off < p /\ p <= off + len THEN buf[p - off]
     ELSE IF p <= Len(file) THEN file[p] ELSE Hole]

NotTruncated(file, size) == file       \* a mutation of Truncated
Truncated(file, size) ==
  [p \in 1 .. size |-> IF p <= Len(file) THEN file[p] ELSE Hole]

Dequeue(r, w, kind) ==
  /\ cmds[r][w] # <<>> /\ Head(cmds[r][w]).kind = kind
  /\ cmds' = [cmds EXCEPT ![r][w] = Tail(@)]

CallFails(r) ==
  /\ faults < MaxFaults
  /\ faults' = faults + 1
  /\ failed' = [failed EXCEPT ![r] = TRUE]

WriterOpen(r, w) ==
  /\ Dequeue(r, w, "open")
  /\ files' = [files EXCEPT ![r] = @ \cup {Head(cmds[r][w]).file}]
  /\ UNCHANGED <<pc, result, cursorVars, poolVars, bcastVars, file_state, acks, deferred,
                 exited, disk, synced, faultVars>>

SendAck(r, c, err) ==
  acks' = [acks EXCEPT ![r] =
             Append(@, [slot |-> c.slot, file |-> c.file, err |-> err])]

(* A write reaches the disk only through an open file; the buffer goes back *)
(* with the acknowledgement in every case.                                  *)
WriterWrite(r, w) ==
  /\ Dequeue(r, w, "write")
  /\ LET c == Head(cmds[r][w])
         known == c.file \in files[r]
     IN \/ /\ known
           /\ disk' = [disk EXCEPT ![r][c.file] =
                         Overwritten(@, mem[r][c.slot], c.off, WriteLen(c.n))]
           /\ SendAck(r, c, FALSE)
           /\ UNCHANGED faultVars
        \/ /\ IF known THEN CallFails(r) ELSE UNCHANGED faultVars
           /\ SendAck(r, c, TRUE)
           /\ UNCHANGED disk
  /\ UNCHANGED <<pc, result, cursorVars, poolVars, bcastVars, file_state, files, deferred,
                 exited, synced>>

(* CloseFile: set_len when writing O_DIRECT, then sync_all.  The failure of *)
(* either is kept in deferred_err; a failed set_len skips the sync.         *)
WriterClose(r, w) ==
  /\ Dequeue(r, w, "close")
  /\ LET f == Head(cmds[r][w]).file
         trimmed == IF Direct THEN Truncated(disk[r][f], Size[f]) ELSE disk[r][f]
     IN /\ files' = [files EXCEPT ![r] = @ \ {f}]
        /\ IF f \notin files[r]
           THEN UNCHANGED <<disk, synced, deferred, faultVars>>
           ELSE \/ /\ disk' = [disk EXCEPT ![r][f] = trimmed]
                   /\ synced' = [synced EXCEPT ![r] = @ \cup {f}]
                   /\ UNCHANGED <<deferred, faultVars>>
                \/ /\ CallFails(r)
                   /\ disk' \in {disk, [disk EXCEPT ![r][f] = trimmed]}
                   /\ deferred' = [deferred EXCEPT ![r] = @ \cup {w}]
                   /\ UNCHANGED synced
  /\ UNCHANGED <<pc, result, cursorVars, poolVars, bcastVars, file_state, acks, exited>>

ExitBeforeDrop(r, w) ==                \* a mutation of WriterExit
  /\ Returned(r) /\ cmds[r][w] = <<>> /\ w \notin exited[r]
  /\ exited' = [exited EXCEPT ![r] = @ \cup {w}]
  /\ UNCHANGED <<pc, result, cursorVars, poolVars, bcastVars, fileVars, acks, files,
                 deferred, disk, synced, faultVars>>

(* recv fails once the command channel is dropped and empty.                *)
WriterExit(r, w) ==
  /\ pc[r] = "join" /\ cmds[r][w] = <<>> /\ w \notin exited[r]
  /\ exited' = [exited EXCEPT ![r] = @ \cup {w}]
  /\ UNCHANGED <<pc, result, cursorVars, poolVars, bcastVars, fileVars, acks, files,
                 deferred, disk, synced, faultVars>>

------------------------------------------------------------------------------
(* A call of the main thread fails: opening or reading a shard's file,      *)
(* opening the receiver's file, MPI_Ibcast or MPI_Waitany.                  *)
MainCallFails(r) ==
  /\ \/ /\ pc[r] = "post" /\ free_slots[r] # <<>>
        /\ active[r] \/ next_plan_idx[r] < Len(Plan)
     \/ pc[r] = "wait"
  /\ CallFails(r)
  /\ pc' = [pc EXCEPT ![r] = "join"]
  /\ result' = [result EXCEPT ![r] = "err"]
  /\ UNCHANGED <<cursorVars, poolVars, bcastVars, fileVars, writerVars>>

(* main.rs: a rank whose stage failed calls MPI_Abort, which ends every     *)
(* rank that has not finished the stage.                                    *)
Abort ==
  /\ \E r \in Ranks : pc[r] = "err"
  /\ pc' = [q \in Ranks |-> IF pc[q] = "ok" THEN "ok" ELSE "aborted"]
  /\ UNCHANGED <<result, cursorVars, poolVars, bcastVars, fileVars, writerVars, faultVars>>

Terminated == (\A r \in Ranks : Returned(r)) /\ UNCHANGED vars

MainStep(r) ==
  \/ StartShard(r) \/ PostChunk(r) \/ EndPosting(r) \/ TakeAck(r)
  \/ AfterDrain(r) \/ JoinWriters(r)

WriterStep(r, w) ==
  /\ ~Returned(r)
  /\ WriterOpen(r, w) \/ WriterWrite(r, w) \/ WriterClose(r, w) \/ WriterExit(r, w)

Next ==
  \/ \E r \in Ranks : MainStep(r) \/ WaitAny(r) \/ MainCallFails(r)
  \/ \E r \in Ranks, w \in Writers : WriterStep(r, w)
  \/ Abort
  \/ Terminated

(* Threads are scheduled by the operating system; a collective is certain   *)
(* to complete only when all ranks have posted it.                          *)
Fairness ==
  /\ \A r \in Ranks : WF_vars(MainStep(r)) /\ WF_vars(WaitAnyPosted(r))
  /\ \A r \in Ranks, w \in Writers : WF_vars(WriterStep(r, w))
  /\ WF_vars(Abort)

Spec == Init /\ [][Next]_vars /\ Fairness

------------------------------------------------------------------------------
(* Properties.                                                              *)

Chunks == [shard : Nat, file : Files, slot : Slots, root : Ranks, n : Nat, off : Nat,
           buf : Buffer]

(* The values each variable can take; a shard being posted is not posted    *)
(* completely, and no local file is shorter than its blob.                  *)
TypeOK ==
  /\ pc \in [Ranks -> {"post", "drain", "recv", "wait", "join", "ok", "err", "aborted"}]
  /\ result \in [Ranks -> {"ok", "err"}]
  /\ next_plan_idx \in [Ranks -> 0 .. Len(Plan)]
  /\ active \in [Ranks -> BOOLEAN]
  /\ post_offset \in [Ranks -> Nat]
  /\ \A r \in Ranks : active[r] =>
       next_plan_idx[r] > 0 /\ post_offset[r] < Plan[next_plan_idx[r]].len
  /\ free_slots \in [Ranks -> Seq(Slots)]
  /\ home \in [Ranks -> [Slots -> BOOLEAN]]
  /\ writes_pending \in [Ranks -> Int]
  /\ in_flight \in [Ranks -> SUBSET (Nat \X Nat)]
  /\ \A r \in Ranks : in_flight[r] \subseteq (DOMAIN wire[r]) \X Nat
  /\ subs \in [Ranks -> [Slots -> Int]]
  /\ mem \in [Ranks -> [Slots -> Buffer]]
  /\ wire \in [Ranks -> Seq(Chunks)]
  /\ file_state \in [Ranks -> [Files -> FileStates]]
  /\ cmds \in [Ranks -> [Writers -> Seq(Commands)]]
  /\ acks \in [Ranks -> Seq(Acks)]
  /\ files \in [Ranks -> SUBSET Files]
  /\ deferred \in [Ranks -> SUBSET Writers]
  /\ exited \in [Ranks -> SUBSET Writers]
  /\ disk \in [Ranks -> [Files -> Seq(Cells)]]
  /\ \A r \in Ranks, f \in Files : Len(disk[r][f]) >= Size[f]
  /\ synced \in [Ranks -> SUBSET Files]
  /\ failed \in [Ranks -> BOOLEAN]
  /\ faults \in 0 .. MaxFaults

IsFree(r, s) == \E i \in DOMAIN free_slots[r] : free_slots[r][i] = s
Flying(r, s) == {e \in in_flight[r] : wire[r][e[1]].slot = s}
IsWithWriter(r, s) ==
  \/ \E w \in Writers : \E i \in DOMAIN cmds[r][w] :
       cmds[r][w][i].kind = "write" /\ cmds[r][w][i].slot = s
  \/ \E i \in DOMAIN acks[r] : acks[r][i].slot = s

(* Each buffer is in exactly one place as long as the pipeline has not      *)
(* failed: listed free once, under a collective, or with a writer (queued   *)
(* or acknowledged); slot_subs_remaining counts its collectives.  A buffer  *)
(* reused under a pending collective or write, or lost to the pool, breaks  *)
(* this (broadcast.rs: the expect()s on buffers, free_slots, in_flight).    *)
BuffersAccounted ==
  \A r \in Ranks : result[r] = "ok" =>
    /\ \A i, j \in DOMAIN free_slots[r] : free_slots[r][i] = free_slots[r][j] => i = j
    /\ \A s \in Slots :
         /\ subs[r][s] = Cardinality(Flying(r, s))
         /\ home[r][s] = ~IsWithWriter(r, s)
         /\ IsFree(r, s) = (home[r][s] /\ Flying(r, s) = {})
         /\ Flying(r, s) # {} => home[r][s]
    /\ writes_pending[r] = Cardinality({s \in Slots : ~home[r][s]})

(* The order of the plan: chunk c lies in its shard, from c.off to          *)
(* ChunkEnd(c); d is the first chunk of the plan, or the one after c.       *)
ChunkEnd(c) == c.off + c.n
InPlan(c) ==
  /\ c.shard \in DOMAIN Plan
  /\ c.file = Plan[c.shard].file /\ c.root = Plan[c.shard].owner
  /\ Plan[c.shard].off <= c.off /\ c.off < ShardEnd(c.shard)
  /\ c.n = Min2(ShardEnd(c.shard) - c.off, Chunk)
NothingBetween(i, j) == \A m \in DOMAIN Plan : i < m /\ m < j => Plan[m].len = 0
First(d) == NothingBetween(0, d.shard) /\ d.off = Plan[d.shard].off
Follows(c, d) ==
  \/ /\ ChunkEnd(c) < ShardEnd(c.shard)
     /\ d.shard = c.shard /\ d.off = ChunkEnd(c)
  \/ /\ ChunkEnd(c) = ShardEnd(c.shard)
     /\ c.shard < d.shard /\ NothingBetween(c.shard, d.shard)
     /\ d.off = Plan[d.shard].off

(* All of the plan before the cursor is on the wire, nothing after it.      *)
CursorAtEnd(r) ==
  LET i == next_plan_idx[r]
      w == wire[r]
      next == IF active[r] THEN i ELSE i + 1
  IN IF active[r] /\ post_offset[r] > 0
     THEN /\ w # <<>> /\ w[Len(w)].shard = i
          /\ ChunkEnd(w[Len(w)]) = Plan[i].off + post_offset[r]
     ELSE IF w = <<>> THEN NothingBetween(0, next)
     ELSE /\ w[Len(w)].shard < next /\ NothingBetween(w[Len(w)].shard, next)
          /\ ChunkEnd(w[Len(w)]) = ShardEnd(w[Len(w)].shard)

(* What a rank has posted is the plan up to its cursor, chunk by chunk,     *)
(* none skipped, repeated or out of turn, whichever slots it had free.      *)
WireFollowsPlan ==
  \A r \in Ranks :
    /\ \A k \in DOMAIN wire[r] : InPlan(wire[r][k])
    /\ wire[r] # <<>> => First(wire[r][1])
    /\ \A k \in DOMAIN wire[r] : k > 1 => Follows(wire[r][k - 1], wire[r][k])
    /\ CursorAtEnd(r)

(* MPI matches collectives by posting order alone: any two ranks agree on   *)
(* root and extent of every chunk both have posted.                         *)
CollectivesMatch ==
  \A q, r \in Ranks : \A k \in DOMAIN wire[q] \cap DOMAIN wire[r] :
    wire[q][k].root = wire[r][k].root /\ wire[q][k].n = wire[r][k].n

(* What a queued write will put on disk is the source's data for its place, *)
(* whatever order the sub-broadcasts completed in.                          *)
QueuedDataIntact ==
  \A r \in Ranks, w \in Writers : \A i \in DOMAIN cmds[r][w] :
    LET c == cmds[r][w][i]
    IN c.kind = "write" =>
         \A p \in 1 .. c.n : mem[r][c.slot][p] = <<c.file, c.off + p>>

(* When a writer takes a Write command its file is open: OpenFile precedes  *)
(* and CloseFile follows every Write of the file, so the "unknown file_idx" *)
(* error of writer_loop cannot happen.                                      *)
WritesReachOpenFile ==
  \A r \in Ranks, w \in Writers :
    (cmds[r][w] # <<>> /\ Head(cmds[r][w]).kind = "write")
      => Head(cmds[r][w]).file \in files[r]

(* A rank never damages the ranges it answers for as an owner: it goes on   *)
(* reading them for later chunks while its writers write the same file,     *)
(* padded to whole blocks.                                                  *)
OwnedRangesIntact ==
  \A r \in Ranks : \A i \in DOMAIN Plan : Plan[i].owner = r =>
    \A p \in Plan[i].off + 1 .. Plan[i].off + Plan[i].len :
      disk[r][Plan[i].file][p] = <<Plan[i].file, p>>

(* A rank whose stage returned Ok has every file of the plan, byte for byte *)
(* and at its exact length.                                                 *)
ReplicaComplete ==
  \A r \in Ranks : pc[r] = "ok" => \A f \in PlanFiles : disk[r][f] = Source(f)

(* ... and every file it wrote has been closed and synced, with no call of  *)
(* its main thread or its writers having failed.                            *)
OkMeansDurable ==
  \A r \in Ranks : pc[r] = "ok" =>
    /\ ~failed[r]
    /\ {f \in PlanFiles : NeedsWrite(r, f)} \subseteq synced[r]

(* The stage ends on every rank, as docs/cluster.md says of it ("After      *)
(* download, every file is MPI_Bcast'd from its owner rank to all other     *)
(* ranks"; a failing stage makes the whole job exit).                       *)
Termination == <>(\A r \in Ranks : Returned(r))

(* The blocking recv with no write outstanding: every buffer came back in   *)
(* the try_recv loop just before it, and no thread will ever send again.    *)
Starved(r) ==
  /\ pc[r] = "recv" /\ writes_pending[r] = 0
  /\ in_flight[r] = {} /\ free_slots[r] # <<>>

(* That state is the only way not to end: with fair threads and collectives *)
(* either the stage ends on every rank or some rank has starved itself.     *)
EndsUnlessStarved ==
  <>((\A r \in Ranks : Returned(r)) \/ \E r \in Ranks : Starved(r))

(* The pipeline implements the abstract promise: progress is never undone,  *)
(* and "ok" is returned only with everything held.                          *)
UnitsOf(f) == {<<f, p>> : p \in 1 .. Size[f]}
HeldBy(r) ==
  UNION {{u \in UnitsOf(f) : u[2] <= Len(disk[r][f]) /\ disk[r][f][u[2]] = u}
           : f \in PlanFiles}

R == INSTANCE Replication WITH
       Units <- UNION {UnitsOf(f) : f \in PlanFiles},
       held <- [r \in Ranks |-> HeldBy(r)],
       outcome <- [r \in Ranks |-> IF Returned(r) THEN pc[r] ELSE "running"]

ImplementsReplication == R!Spec

==============================================================================
