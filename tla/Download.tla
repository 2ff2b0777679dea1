------------------------------- MODULE Download -------------------------------
(***************************************************************************)
(* Downloads of the transfer engine (src/engine/mod.rs): download_entries, *)
(* for whole blobs, and download_ranges, for parts of files that the       *)
(* caller has created.                                                     *)
(*                                                                         *)
(* One call dispatches a task per file, as file permits allow; the task    *)
(* fetches a small blob in one request, or spawns a task per chunk, as     *)
(* chunk permits allow, and waits for them all.  A chunk task keeps its    *)
(* permit until its data is on disk.  Meanwhile a blob may be replaced:    *)
(* no request is conditional, so that each sees the blob as it then is.    *)
(*                                                                         *)
(* Unit p of version v of a blob is <<v, p>>; version 1 is the one that    *)
(* was listed, version 0 what an earlier program left behind.              *)
(***************************************************************************)
EXTENDS Integers, Sequences, FiniteSets

CONSTANTS
  Files,
  Lengths,        \* the lengths of the versions of each blob
  MyRanges,       \* for download_ranges, the parts of each file
  HasMd5,         \* the blobs listed with a Content-MD5
  Options,        \* calls to make: which of the two, --direct, --check-md5, --block-size
  concurrency,    \* --concurrency
  parallel_files, \* --parallel-files
  ALIGN,
  MaxFaults       \* bound: calls that fail in one behaviour

ASSUME DownloadAssumption ==
  /\ IsFiniteSet(Files)
  /\ \A f \in Files : Lengths[f] \in Seq(Nat) /\ Lengths[f] # <<>>
  /\ \A f \in Files :
       /\ MyRanges[f] \in Seq([off : Nat, len : Nat])
       /\ \A i \in DOMAIN MyRanges[f] :
            MyRanges[f][i].off + MyRanges[f][i].len <= Lengths[f][1]
  /\ HasMd5 \subseteq Files
  /\ Options \subseteq
       [api : {"entries", "ranges"}, direct : BOOLEAN, check_md5 : BOOLEAN,
        block_size : Nat \ {0}]
  /\ \A a \in Options : a.api = "ranges" => ~a.direct /\ ~a.check_md5
  /\ concurrency \in Nat \ {0} /\ parallel_files \in Nat \ {0}
  /\ ALIGN \in Nat \ {0}
  /\ MaxFaults \in Nat

VARIABLES
  args,           \* the call
  blob,           \* the version of each blob in the container
  local,          \* the local files
  main,           \* the calling task: "loop", then "returned" or "error"
  task,           \* where the task of each file is; "none" while it is not dispatched
  body,           \* the small blobs received
  chunk,          \* the task of each chunk of a file; "none" while it is not spawned
  file_permits, chunk_permits,   \* permits left in the two semaphores
  succeeded, failed,             \* files counted so far
  faults

fileVars == <<task, body, file_permits>>
summaryVars == <<succeeded, failed>>
vars == <<args, blob, local, main, fileVars, chunk, chunk_permits, summaryVars, faults>>

block_size == args.block_size

Hole == <<>>
Size(f) == Lengths[f][1]
Content(f, v) == [p \in 1 .. Lengths[f][v] |-> <<v, p>>]
Holes(n) == [p \in 1 .. n |-> Hole]
Min2(a, b) == IF a <= b THEN a ELSE b

(* The requests of a file: one for a blob below the block size, otherwise   *)
(* its ranges cut into chunks.                                              *)
Small(f) == args.api = "entries" /\ Size(f) < block_size

RangesOf(f) ==
  IF args.api = "ranges" THEN MyRanges[f] ELSE <<[off |-> 0, len |-> Size(f)]>>
ChunksOfRange(f, i) ==
  LET r == RangesOf(f)[i]
      starts == {o \in r.off .. r.off + r.len - 1 : (o - r.off) % block_size = 0}
  IN {[range |-> i, off |-> o, len |-> Min2(block_size, r.off + r.len - o)] : o \in starts}
Chunks(f) == UNION {ChunksOfRange(f, i) : i \in DOMAIN RangesOf(f)}

(* The order in which the chunks of a file are spawned.                     *)
Before(c, d) == c.range < d.range \/ (c.range = d.range /\ c.off < d.off)

Init ==
  /\ args \in Options
  /\ blob = [f \in Files |-> 1]
  /\ IF args.api = "ranges"
     THEN local = [f \in Files |-> Holes(Size(f))]
     ELSE \E n \in {0, block_size} : local = [f \in Files |-> [p \in 1 .. n |-> <<0, p>>]]
  /\ main = "loop"
  /\ task = [f \in Files |-> "none"]
  /\ body = [f \in Files |-> <<>>]
  /\ chunk = [f \in Files |-> [c \in Chunks(f) |-> [state |-> "none", data |-> <<>>]]]
  /\ file_permits = parallel_files /\ chunk_permits = concurrency
  /\ succeeded = {} /\ failed = {}
  /\ faults = 0

CallFails == faults < MaxFaults /\ faults' = faults + 1

------------------------------------------------------------------------------
(* The calling task.  It takes the files in the order of the listing, or of *)
(* a hash map: in any order.                                                *)

Waiting == {f \in Files : task[f] = "none"}

Dispatch(f) ==
  /\ main = "loop" /\ f \in Waiting /\ file_permits > 0
  /\ task' = [task EXCEPT ![f] = IF Small(f) THEN "small"
                                 ELSE IF args.api = "entries" THEN "create" ELSE "post"]
  /\ file_permits' = file_permits - 1
  /\ UNCHANGED <<args, blob, local, main, body, chunk, chunk_permits, summaryVars,
                 faults>>

Unspawned(f) == {c \in Chunks(f) : chunk[f][c].state = "none"}
AllEnded(f) == \A c \in Chunks(f) : chunk[f][c].state \in {"ok", "err"}
AnyFailed(f) == \E c \in Chunks(f) : chunk[f][c].state = "err"

Running(f) == task[f] \in {"small", "get", "put", "create", "post"}

Blocking(f) ==
  \/ task[f] \in {"put", "create"}
  \/ task[f] = "post" /\ args.direct /\ AllEnded(f) /\ ~AnyFailed(f)

(* ensure_parent_dir, or opening the file of a range, fails: the call       *)
(* returns at once.  Its file tasks are cancelled with the JoinSet; their   *)
(* chunk tasks, and a blocking call of their own, go on.                    *)
DispatchFails ==
  /\ main = "loop" /\ Waiting # {}
  /\ args.api = "ranges" => file_permits > 0
  /\ CallFails
  /\ main' = "error"
  /\ task' = [f \in Files |-> IF Blocking(f) THEN "late"
                              ELSE IF Running(f) THEN "cancelled" ELSE task[f]]
  /\ file_permits' = file_permits + Cardinality({f \in Files : Running(f)})
  /\ chunk_permits' = chunk_permits + Cardinality({f \in Files : task[f] = "get"})
  /\ UNCHANGED <<args, blob, local, body, chunk, summaryVars>>

JoinFile(f) ==
  /\ main = "loop" /\ Waiting = {}
  /\ task[f] \in {"ok", "err"} /\ f \notin succeeded \cup failed
  /\ IF task[f] = "ok" THEN succeeded' = succeeded \cup {f} /\ UNCHANGED failed
                       ELSE failed' = failed \cup {f} /\ UNCHANGED succeeded
  /\ UNCHANGED <<args, blob, local, main, fileVars, chunk, chunk_permits, faults>>

Return ==
  /\ main = "loop" /\ Waiting = {} /\ succeeded \cup failed = Files
  /\ main' = "returned"
  /\ UNCHANGED <<args, blob, local, fileVars, chunk, chunk_permits, summaryVars, faults>>

------------------------------------------------------------------------------
(* The task of a file.                                                      *)

FileEnds(f, result) ==
  /\ task' = [task EXCEPT ![f] = result]
  /\ file_permits' = file_permits + 1

(* verify_md5 and verify_md5_file: without a listed digest all is well.     *)
LengthAsListed(f, content) ==           \* mutations of Md5Passes
  ~args.check_md5 \/ Len(content) = Size(f)
MissingMd5Fails(f, content) ==
  ~args.check_md5 \/ (f \in HasMd5 /\ content = Content(f, 1))
Md5Passes(f, content) ==
  ~args.check_md5 \/ f \notin HasMd5 \/ content = Content(f, 1)

(* A small blob: the permit is held for the request only.                   *)
SmallPermit(f) ==
  /\ task[f] = "small" /\ chunk_permits > 0
  /\ chunk_permits' = chunk_permits - 1
  /\ task' = [task EXCEPT ![f] = "get"]
  /\ UNCHANGED <<args, blob, local, main, body, chunk, file_permits, summaryVars, faults>>

SmallGet(f) ==
  /\ task[f] = "get"
  /\ chunk_permits' = chunk_permits + 1
  /\ \/ /\ body' = [body EXCEPT ![f] = Content(f, blob[f])]
        /\ IF Md5Passes(f, Content(f, blob[f]))
           THEN task' = [task EXCEPT ![f] = "put"] /\ UNCHANGED file_permits
           ELSE FileEnds(f, "err")
        /\ UNCHANGED faults
     \/ CallFails /\ FileEnds(f, "err") /\ UNCHANGED body
  /\ UNCHANGED <<args, blob, local, main, chunk, summaryVars>>

(* tokio::fs::write truncates the file before it writes; if it fails, any   *)
(* part may have been written.                                              *)
Written(f) == {SubSeq(body[f], 1, n) : n \in 0 .. Len(body[f])}

SmallPut(f) ==
  /\ task[f] = "put"
  /\ \/ /\ local' = [local EXCEPT ![f] = body[f]]
        /\ FileEnds(f, "ok") /\ UNCHANGED faults
     \/ /\ CallFails /\ FileEnds(f, "err")
        /\ \E part \in {local[f]} \cup Written(f) : local' = [local EXCEPT ![f] = part]
  /\ UNCHANGED <<args, blob, main, body, chunk, chunk_permits, summaryVars>>

(* A larger blob: File::create, set_len, and opening it for the chunks.     *)
Created(f) == Holes(Size(f))

CreateFile(f) ==
  /\ task[f] = "create"
  /\ \/ /\ local' = [local EXCEPT ![f] = Created(f)]
        /\ task' = [task EXCEPT ![f] = "post"]
        /\ UNCHANGED <<file_permits, faults>>
     \/ /\ CallFails /\ FileEnds(f, "err")
        /\ \E part \in {local[f], <<>>, Created(f)} : local' = [local EXCEPT ![f] = part]
  /\ UNCHANGED <<args, blob, main, body, chunk, chunk_permits, summaryVars>>

SpawnChunk(f) ==
  /\ task[f] = "post" /\ chunk_permits > 0
  /\ chunk_permits' = chunk_permits - 1
  /\ \E c \in Unspawned(f) :
       /\ \A d \in Unspawned(f) \ {c} : Before(c, d)
       /\ chunk' = [chunk EXCEPT ![f][c] = [state |-> "get", data |-> <<>>]]
  /\ UNCHANGED <<args, blob, local, main, fileVars, summaryVars, faults>>

ReturnOnFirstError(f) ==                \* a mutation of HandlesDone
  Unspawned(f) = {} /\ (AllEnded(f) \/ AnyFailed(f))
HandlesDone(f) == AllEnded(f)
LastChunkFailed(f) ==                   \* a mutation of BlockErr
  \E c \in Chunks(f) : /\ chunk[f][c].state = "err"
                        /\ \A d \in Chunks(f) \ {c} : Before(d, c)
BlockErr(f) == AnyFailed(f)

SetLen(file, n) == [p \in 1 .. n |-> IF p <= Len(file) THEN file[p] ELSE Hole]

(* All handles have been awaited; what O_DIRECT wrote past the end is cut   *)
(* off, and the digest compared.                                            *)
FinishFile(f) ==
  /\ task[f] = "post" /\ HandlesDone(f)
  /\ IF BlockErr(f) THEN FileEnds(f, "err") /\ UNCHANGED <<local, faults>>
     ELSE LET whole == IF args.direct THEN SetLen(local[f], Size(f)) ELSE local[f]
          IN \/ /\ local' = [local EXCEPT ![f] = whole]
                /\ FileEnds(f, IF Md5Passes(f, whole) THEN "ok" ELSE "err")
                /\ UNCHANGED faults
             \/ /\ args.direct \/ (args.check_md5 /\ f \in HasMd5)
                /\ CallFails /\ FileEnds(f, "err")
                /\ \E part \in {local[f], whole} : local' = [local EXCEPT ![f] = part]
  /\ UNCHANGED <<args, blob, main, body, chunk, chunk_permits, summaryVars>>

(* A blocking call that was under way when its task was cancelled.          *)
LateCall(f) ==
  /\ task[f] = "late"
  /\ task' = [task EXCEPT ![f] = "cancelled"]
  /\ LET results == IF Small(f) THEN Written(f)
                    ELSE IF Unspawned(f) = Chunks(f) THEN {<<>>, Created(f)}
                    ELSE {SetLen(local[f], Size(f))}
     IN \E part \in {local[f]} \cup results : local' = [local EXCEPT ![f] = part]
  /\ UNCHANGED <<args, blob, main, body, chunk, file_permits, chunk_permits,
                 summaryVars, faults>>

------------------------------------------------------------------------------
(* The task of a chunk.                                                     *)

KeepPermit == UNCHANGED chunk_permits   \* a mutation of ReleasePermit
ReleasePermit == chunk_permits' = chunk_permits + 1

ChunkEnds(f, c, state) == chunk' = [chunk EXCEPT ![f][c].state = state]

(* get_blob_range answers with what there is of the range; a range that     *)
(* begins past the end is an error.                                         *)
GetChunk(f, c) ==
  /\ chunk[f][c].state = "get"
  /\ LET now == Content(f, blob[f])
         satisfiable == c.off < Len(now)
     IN \/ /\ satisfiable
           /\ chunk' = [chunk EXCEPT ![f][c] =
                [state |-> "write",
                 data |-> SubSeq(now, c.off + 1, Min2(c.off + c.len, Len(now)))]]
           /\ UNCHANGED <<chunk_permits, faults>>
        \/ /\ IF satisfiable THEN CallFails ELSE UNCHANGED faults
           /\ ChunkEnds(f, c, "err") /\ ReleasePermit
  /\ UNCHANGED <<args, blob, local, main, fileVars, summaryVars>>

(* pwrite_all_direct fills the last block of the data with zeros.           *)
Padded(data) ==
  IF args.direct THEN SetLen(data, ((Len(data) + ALIGN - 1) \div ALIGN) * ALIGN) ELSE data

Overwritten(file, data, off) ==
  [p \in 1 .. (IF off + Len(data) > Len(file) THEN off + Len(data) ELSE Len(file)) |->
     IF off < p /\ p <= off + Len(data) THEN data[p - off]
     ELSE IF p <= Len(file) THEN file[p] ELSE Hole]

(* An O_DIRECT write at an offset that is no multiple of ALIGN is refused.  *)
WriteChunk(f, c) ==
  /\ chunk[f][c].state = "write"
  /\ LET accepted == args.direct => c.off % ALIGN = 0
         written == [local EXCEPT ![f] = Overwritten(@, Padded(chunk[f][c].data), c.off)]
     IN \/ accepted /\ local' = written /\ ChunkEnds(f, c, "ok") /\ UNCHANGED faults
        \/ /\ IF accepted THEN CallFails /\ local' \in {local, written}
                          ELSE UNCHANGED <<local, faults>>
           /\ ChunkEnds(f, c, "err")
  /\ ReleasePermit
  /\ UNCHANGED <<args, blob, main, fileVars, summaryVars>>

------------------------------------------------------------------------------
Replaced(f) ==
  /\ blob[f] < Len(Lengths[f])
  /\ blob' = [blob EXCEPT ![f] = @ + 1]
  /\ UNCHANGED <<args, local, main, fileVars, chunk, chunk_permits, summaryVars, faults>>

Terminated == main \in {"returned", "error"} /\ UNCHANGED vars

MainStep == Return \/ \E f \in Files : Dispatch(f) \/ JoinFile(f)
FileStep(f) ==
  \/ SmallPermit(f) \/ SmallGet(f) \/ SmallPut(f)
  \/ CreateFile(f) \/ SpawnChunk(f) \/ FinishFile(f)
ChunkStep(f) == \E c \in Chunks(f) : GetChunk(f, c) \/ WriteChunk(f, c)

Next ==
  \/ MainStep \/ DispatchFails
  \/ \E f \in Files : FileStep(f) \/ ChunkStep(f) \/ LateCall(f) \/ Replaced(f)
  \/ Terminated

(* The tokio runtime polls every task that can go on, its semaphores are    *)
(* fair, and requests end, well or with an error.                           *)
Fairness ==
  /\ WF_vars(MainStep)
  /\ \A f \in Files : WF_vars(FileStep(f)) /\ WF_vars(ChunkStep(f))

Spec == Init /\ [][Next]_vars /\ Fairness

------------------------------------------------------------------------------
(* Properties.                                                              *)

(* The tasks that hold a chunk permit.                                      *)
HoldsPermit(f, c) == chunk[f][c].state \in {"get", "write"}
ChunkHolders == UNION {{f} \X {c \in Chunks(f) : HoldsPermit(f, c)} : f \in Files}
SmallHolders == {f \in Files : task[f] = "get"}

(* A permit is in its semaphore or with one task that is running: none is   *)
(* lost on an error path or when tasks are cancelled, none returned twice.  *)
PermitsConserved ==
  /\ file_permits + Cardinality({f \in Files : Running(f)}) = parallel_files
  /\ chunk_permits + Cardinality(ChunkHolders) + Cardinality(SmallHolders) = concurrency

(* What a file may hold when it is counted as downloaded, whatever failed   *)
(* or was replaced on the way: in its ranges, units of versions the blob    *)
(* has had, and a hole only where a version the blob has had ends before;   *)
(* its length is that of such a version.  With no replacement that is the   *)
(* listed blob.                                                             *)
VersionsSeen(f) == 1 .. blob[f]
UnitSeen(f, p, unit) ==
  \E v \in VersionsSeen(f) :
    unit = (IF p <= Lengths[f][v] THEN <<v, p>> ELSE Hole)
SucceededIsComplete ==
  \A f \in succeeded :
    /\ \E v \in VersionsSeen(f) : Len(local[f]) = Lengths[f][v]
    /\ \A i \in DOMAIN RangesOf(f) :
         \A p \in RangesOf(f)[i].off + 1 .. RangesOf(f)[i].off + RangesOf(f)[i].len :
           p <= Len(local[f]) => UnitSeen(f, p, local[f][p])

(* With --check-md5, a blob that was listed with a Content-MD5 is counted   *)
(* as downloaded only as it was listed, even if it was replaced between two *)
(* of its chunks.                                                           *)
CheckedIsListed ==
  \A f \in succeeded \cap HasMd5 : args.check_md5 => local[f] = Content(f, 1)

(* When the call has returned its summary, no task of it is left that could *)
(* still write, also for the files that failed: the caller may verify, try  *)
(* again or delete (sync and the cluster stages do).                        *)
QuietWhenReturned == [][main = "returned" => UNCHANGED local]_vars

(* A file is counted as failed only for a reason: a call failed, its blob   *)
(* was replaced, or the block size is not fit for O_DIRECT.                 *)
NoSpuriousFailure ==
  \A f \in failed : faults > 0 \/ blob[f] > 1 \/ (args.direct /\ block_size % ALIGN # 0)

(* The call ends: tasks that wait for chunk permits while they hold a file  *)
(* permit never wait for one another.                                       *)
CallEnds == <>(main \in {"returned", "error"})
==============================================================================
