# azcp: a verification development

TLA+ models of the parts of azcp whose correctness depends on order, failure or
concurrency; TLC configurations that check them on small instances; proofs, checked by
TLAPS, for every value of the constants. Paths below are relative to the repository.

azcp is a Rust command-line tool that copies files to and from Azure Blob Storage. The
workspace has two programs: `azcp` (`src/`), with a parallel transfer engine, and
`azcp-cluster` (`crates/azcp-cluster/`), an MPI program that downloads a container once per
job and spreads it to every node with broadcasts.

## 1. Inventory

### azcp-cluster

| component | state | operations | correct when |
|---|---|---|---|
| driver, `main.rs` | which stage a rank is in; the shard plan | list, presence, classify, create files, download, reduce, barrier, broadcast, verify, save | no rank broadcasts a file that is not downloaded; present files are kept; a failure ends the whole job; what a failed run leaves does not deceive the next one |
| list stage, `stages/list.rs`, `filelist.rs`, `paths.rs` | the list of blobs | rank 0 lists, everyone receives the list in a text form and drops markers and implicit directories | every rank works on the same list; no listed file is in the way of another |
| presence and diff, `stages/presence.rs`, `stages/diff.rs` | one row of bits per rank | `build_predicate` (three policies), allgather, `classify` | a file counted as present has its content |
| shard plan, `stages/shards.rs` | shards, bytes per rank | `compute_shards`, effective shard size | every byte in exactly one shard; block-aligned borders; balanced |
| download stage, `stages/download.rs` | a rank's ranges | one engine call per rank | every shard arrives or the stage fails |
| broadcast stage, `stages/broadcast.rs` | buffer pool, pending `MPI_Ibcast`s, per-file counters, command and acknowledgement channels, writer threads' open files | post a chunk, reap a sub-broadcast, hand a buffer to a writer, take an acknowledgement, close a file, join the writers | all ranks post the same collectives in the same order; no buffer is reused while in use; every replica is complete and synced when the stage returns `Ok`; the stage ends |
| verify stage, `stages/verify.rs` | digests | digest, gather, compare | a verified run has the blobs' content everywhere |
| owners, timing | none that is used for transfers | print, choose whole-file owners | not modelled |

Ranks are processes; they share nothing but MPI collectives, and a file system only with
themselves in an earlier run. Inside the broadcast stage a rank has one main thread and
`--bcast-writers` threads, connected by one command channel per writer and one shared
acknowledgement channel; buffers travel with the commands and return with the
acknowledgements. MPI matches collectives by posting order alone.

### azcp

| component | state | operations | correct when |
|---|---|---|---|
| transfer engine, `src/engine/mod.rs` | file, chunk and block permits; counters | `upload_entries`, `download_entries`, `download_ranges`, block staging and commit | a transfer reported as done is complete; memory and parallelism stay within limits; no permit is waited for by all |
| copy command, `src/cli/copy.rs` | a list per worker | resolve the source, list it or read the `--shardlist`, filter, download; or one blob, at the length its HEAD has answered | every wanted blob is copied when all processes exit 0; a file that several workers write is the blob |
| worker shards, `src/main.rs` `run_workers`, `apply_shard` | one list per worker | partition, run, add up | each entry with exactly one worker; no failure lost from the summary |
| rate limiter, `src/engine/rate_limiter.rs` | a semaphore of permits, a refill thread | `acquire`, refill | never more than one second's worth at once; every waiter served, also beside cancelled ones |
| blob client, `src/storage/blob/client.rs` | none of its own; the service's blobs and staged blocks | `send` with retries, put, stage, commit, get, list pages | a retry of an applied request does no harm |
| sync, `src/cli/sync_cmd.rs` | listings of both sides | compare, transfer, delete extras | the destination ends equal to the source; nothing else is deleted; a second sync does nothing |
| list, remove, make and credential commands; authentication; progress; locations | argument data | | glue and parsing: not modelled |

The workers of one process share the rate limiter and nothing else: each has its own tokio
runtime, its own list and its own engine. Processes of one job (`--shard i/N`) share nothing,
and neither do workers, but the file they all write when the source is one blob. That they copy
disjoint parts of the container rests on each of them computing the same assignment from the
same list.

### Where it is hard

* **Interleavings.** Main thread against writers against other ranks' main threads: sub-broadcasts
  complete in any order, acknowledgements arrive at any time, close must follow the last write.
* **Waiting.** A blocking `recv` beside a polling `try_recv`; collectives some rank never enters;
  permits held while waiting for permits, and while waiting for the rate limiter; a cancelled task
  that is in a queue.
* **Failure.** One call of several fails; a rank dies in any stage while others wait; the job is
  rerun over the leftovers.
* **Stale data.** Lists that workers take of one container at different times, page by page; the
  length of a blob, by which each worker sizes the file they all write; a
  sampled presence row, a saved list, the older contents of a reused buffer that pad an `O_DIRECT`
  write, a blob replaced between the list and the download.
* **Retries.** A request that was applied and whose answer was lost.
* **Numbers.** Last shard, last chunk, last block; zero-length files and shards; saturating sums.

`PROJECT.json` lists these hazards one by one at their lines, with the properties that cover
them, or the reason why none does.

## 2. Modules

### Broadcast (crates/azcp-cluster/src/stages/broadcast.rs)

One instance is one run of the stage on all ranks. `pc[r]` is where the main thread of
`drive_pipeline` is: posting (`post`), in the `try_recv` loop (`drain`), in the blocking `recv`, in
`MPI_Waitany` (`wait`), joining the writers (`join`), or returned.

| code | model |
|---|---|
| post loop: next shard, opening the file, zero-length shard | `StartShard` |
| post loop: fill the buffer on the owner, one `MPI_Ibcast` per sub-chunk | `PostChunk` |
| leaving the post loop; `try_recv`/`recv` of an acknowledgement; the branch between them | `EndPosting`, `TakeAck`, `AfterDrain` |
| `MPI_Waitany` and what follows it | `Complete` |
| `maybe_close_file`, called at the same four places | `MaybeCloseFile` |
| `writer_loop`: `OpenFile`, `Write`, `CloseFile`, end of channel | `WriterOpen`, `WriterWrite`, `WriterClose`, `WriterExit` |
| error returns of `drive_pipeline`; of a writer (`deferred_err`); joining | `MainCallFails`, the failing disjuncts of `WriterWrite` and `WriterClose`, `JoinWriters` |
| `MPI_Abort` in `main.rs` | `Abort` |

Bytes are modelled by identity: unit p of file f is `<<f, p>>`, in buffers, on the wire and on
disk, and a hole or an unwritten buffer is `Hole`. So a unit in the wrong place, a chunk read at
the wrong offset and a stale buffer are all visible. A collective completes at a rank when its
root has posted it at the earliest, and is certain to complete only when all ranks have: a
rank may run ahead of a slower one, as MPI allows.

`Replication` states what the stage promises with no pipeline in it: each rank only ever
gains units, and says `ok` only with all of them. `Broadcast!ImplementsReplication` is the
refinement, with the units that are on disk in their place as the mapping.

### ShardPlan (stages/shards.rs, and main.rs's choice of the shard size)

The splitting loops are `PushShard`, the sorted greedy assignment `Assign`, one step per turn of the
loop. `Inputs` are the command lines and file lists; `Valid` is `Args::validate`.

### ClusterRun (main.rs and the stages it calls)

One instance is `MaxRuns` runs over the same disks. A rank's `pc` is its stage. `Gather`,
`Barrier`, `Reduce` and `Compare` wait for the others as the collectives do (only the root waits
in a reduce). `CreateFile` is `File::create` and `set_len`; `DownloadShard` fetches a shard in the
version the container has at that moment, or fails, and `EndDownload` fails the stage if any did;
`StageFails` is any other failure, at any point. A failing rank calls `MPI_Abort`; the others are
killed one by one, later (`Killed`), so that some may finish first. `Replaced` is somebody writing
a new version of a blob; `NextRun` starts the program again with another `--compare` and
`--verify`.

The list stage: a name is the sequence of its parts, so that `a/` is `<<"a", "">>` and the source
itself is `<<>>`. `Entries` is what every rank makes of the text rank 0 sends: lines that begin
with `#` are taken for comments (`Commented`), directory markers are dropped
(`IsDirectoryMarker`), and blobs that others are named below are (`DropImplicitDirectories`).
`InTheWay` is a local file where a directory is needed or the other way round, which only a file
that is no entry can be, and `CreateFails` is what the rank does then. `Leftovers` are the files
that other uses of the disks may have left.

The broadcast stage is reduced to `Receive`: a shard arrives from its owner, once the owner is in
the stage. This is what `Broadcast` establishes of the stage when it ends; the hang that
`Broadcast` finds is left out here.

### Download (src/engine/mod.rs: download_entries, download_ranges)

One instance is one call. The calling task is `main`; each file has a task, and each file task the
chunk tasks it has spawned: `chunk[f]` has an entry for each chunk of f, named by its range, offset
and length, with the state "none" until it is spawned. `Before` is the order in which the loops
spawn them. Both functions have the same shape and share the actions;
`args.api` says which one it is, and so whether a file is created by the call and whether a small
blob is fetched in one request.

| code | model |
|---|---|
| the loop over files, with a file permit taken before each spawn | `Dispatch` |
| `?` in that loop: the `JoinSet` is dropped, file tasks are cancelled, block tasks and `spawn_blocking` calls go on | `DispatchFails`, `Blocking`, `LateCall` |
| small blob: permit, GET, digest, `fs::write` | `SmallPermit`, `SmallGet`, `SmallPut` |
| larger blob: `File::create`, `set_len`; spawn loop; awaiting the handles, cutting the padding off, digest | `CreateFile`, `SpawnChunk`, `FinishFile` |
| chunk task: GET of a range, `pwrite_all` or `pwrite_all_direct` | `GetChunk`, `WriteChunk` |
| join loop, summary | `JoinFile`, `Return` |

Unit p of version v of a blob is `<<v, p>>`; the versions differ in length, so a replaced blob may
answer a range with less or with an error. download_entries dispatches in the order of its list,
download_ranges in that of a hash map; the model lets any waiting file be next, which includes
both.

### BlobClient and Upload (src/storage/blob/client.rs; upload_entries, upload_file, upload_blocks)

`BlobClient` has the calls that write, `send`'s attempts and the service. An attempt is a message;
a broken connection (`AttemptFails`) leaves it to be handled later or never, and the caller goes
on to its next attempt or to an error. `Status` and `Apply` are the service as the code relies on
it: a conditional write is refused if there is a blob, a protected blob refuses every write, a
block list takes the latest block of each id, uncommitted or committed, and a commit discards the
rest. `Outcome` is how put_blob, put_block and put_block_list read the answer.

`Upload` is one call on top of it. For upload_entries: `StartSmall`, `ReadSmall` (the loop reads a
small file itself, and `ReadSmallFails` ends the call), `StartLarge`, `SpawnBlock`, `ReadBlock` (a
block task reads its block), `AwaitBlocks`, `FinalPermit`, `EndFile`, `Return`. For upload_file:
`ReadFile`, `ProducerReads`, `ProducerSends`, `Receive`, `BlockPermit`, `JoinFails`, `JoinAll`.
`ServiceHandles` and `Fails` end requests, and with them the task's permit (`PermitFollowsCall`).

`Store` states what an upload promises without blocks, requests or tasks: the readers of the
container see each blob as it was, as this upload writes it, as a whole, or as someone else has;
without overwriting it is written only where nothing is; and a blob is reported only once it has
been there. `Upload!ImplementsStore` is the refinement: the new content is `Whole(f)`, that of
others is `Other`, and the uploaded blobs are those whose task ended "ok".

### RateLimiter (src/engine/rate_limiter.rs)

tokio's semaphore as the code relies on it: `available`, a queue, and the permits `held` by the
first of it, which takes what there is until it has all it needs. Permits that come in are handed
out one waiter at a time under the semaphore's lock; `pool` is what is still in hand, and everyone
else waits for it to be 0.

| code | model |
|---|---|
| `acquire`: `acquire_many` at once, or in the queue; its return and `forget` | `TakeNow`, `Enqueue`, `Resume` |
| a task that is dropped inside `acquire` | `GiveUp` |
| refill thread: sleep, what the time since has earned, `available_permits` | `RefillReads` |
| refill thread: `add_permits`, later than the read | `RefillAdds`, `HandOut` |

### Copy (src/cli/copy.rs, run_workers, and what they call in the engine)

One instance is a job of one or more processes, each of one or more workers, that copies from a
container to local files. It extends `RateLimiter`: all requests of a process with
`--max-bandwidth` go through one bucket.

| code | model |
|---|---|
| `resolve_source`: a directory, one blob, or nothing; the HEAD's length and digest | `Resolve`, `seen` |
| `read_shardlist` | `ReadShardlist` |
| `list_blobs`, one request per page, up to the empty marker | `ListPage` |
| `apply_shard` over the list this worker has, filtered | `TakeShare`, `ShareOf`, `Owner`, `Index` |
| `download_file`, `download_chunks`: the branch by size, `File::create`, `set_len`, a task per chunk | `CreateFile`, `SetLen`, `NumChunks` |
| a task: permit, rate limiter, request, `verify_md5` of a small blob | `TakePermit`, `AwaitRate`, `Get`, `GetFails` |
| `fs::write`, which empties the file first; a chunk's open, seek and write | `Put`, `AfterPut` |
| `check_summary`; the first chunk that fails | `EndWorker` |
| `verify_md5_file` | `VerifyFile` |
| dropping the `JoinSet` and the runtime | `DropTask`, `EndFailing` |
| `run_workers`: join, add up, first error | `EndProcess` |

The blobs of a directory are numbers in the order of their names, small enough for one request;
what happens within a larger one is in `Download`. The blob that is a source itself has
`setup.versions`, of any lengths, which follow one another while workers copy it. `seen[w]` is the
version that worker w's own HEAD has found: its length decides between one request and chunks,
the length the worker gives the file, and how many chunks it asks for. A chunk's answer is from
the version there is by then: less than was asked for, or an error, if that one is shorter. Byte p
of version v is `<<v, p>>`, and a hole, or a byte of the file that was there before, is none of
them; so `local` shows every byte that is missing, left over or of another version. `Owner` runs the greedy loop of `apply_shard` over what is
left of the list as a recursive function, so that proofs can be about it.

### Sync (src/cli/sync_cmd.rs)

One instance is `MaxRuns` runs in one direction, over files whose owner edits and removes them at
any time. A run lists the source and then the destination (`ListSource`, `ListDest`), compares
(`Diff`, with `NeedsTransfer` for needs_upload and needs_download, and the preflight of md5), has
the engine send what differs (`Read`, `Write`, `WriteFails`, `WriteRefused`, `Gone`,
`ReadEndsUpload`), deletes (`EndTransfer`, `Delete`) and reports (`End`). The two directions
differ where the code does: whole seconds are compared on both sides of an upload, a blob's whole
seconds with a file's exact time in a download; extras of an upload are judged by a second walk of
the source, those of a download by the first listing. The engine is reduced to what `Download` and
`Upload` establish of it: a file is sent as a whole, or it fails and leaves one of `Leftovers`.

## 3. What the runs check

Small means small on purpose: each instance holds every case the code distinguishes, once.

| run | instance | result |
|---|---|---|
| `bcast_pair` | 2 ranks, 2 buffers, 1 writer, `O_DIRECT` blocks of 2, chunks of 2 sub-broadcasts; a file of 5 units with two owners, an empty file, a file one rank already has; about 390,000 states | buffers in one place each, collectives matching, data intact in queues, in owned ranges and in finished replicas |
| `bcast_faults` | 2 ranks, 2 files, 2 writers, 2 buffers, one failing call; 50,000 states | `Ok` means written, closed and synced; `Replication` is implemented; the stage ends on all ranks or a rank is `Starved` |
| `bcast_hang` | 1 buffer (the default), no failure | `Termination` is violated: finding 1 |
| `shard_plan` | every list of up to 3 files of 0, 1, 4 or 5 units with 1 to 3 ranks, chunks of 1 or 2, all valid options; every list of 5 whole files of 1 to 3 units; 25,000 states | tiling, alignment, count, balance, Graham's bound |
| `cluster_run` | 2 ranks; six blobs: a file of two shards, a file in a directory, the directory as a blob of its name and as a marker, the source itself, a name that reads as a comment; 2 runs, one failure, one replaced blob; 259,000 states, deadlock checked | what a run, or a rank, that ends well guarantees; no file is in the way of another; every run ends |
| `cluster_rerun`, `cluster_verify` | as above, without replacement | `EveryNodeHasACopy` and `VerifiedAgainstBlob` are violated: findings 2 and 3 |
| `download` | two files, one of three chunks and one small, each replaced once by a version of another length; both calls, `--direct`, `--check-md5` and an unaligned block size; two permits of each kind, one failing call; 82,000 states | permits conserved; a file counted as downloaded holds what the blob has held; with a digest, what was listed; no write after the summary; no failure without a reason; the call ends |
| `upload` | two files, one of two blocks and one small; both calls, overwriting or not; an empty container with blocks left uncommitted, an earlier upload with the same block ids, and leased blobs; two permits, two attempts, three failures or writes of another client; 82,000 states | `Store` is implemented: no blob is ever a mixture, what is counted as uploaded is there, an existing blob is kept with `--no-overwrite`; permits conserved; the call ends |
| `upload_skipped` | as `upload`, no failure | `SkipsOnlyWhenAsked` is violated: finding 4 |
| `copy` | ten command lines: two processes, two workers, two of each over a shardlist, a bad shardlist, a directory by one worker; one blob of five bytes in blocks of four by one worker, one that grows from less than a block to more, one that shrinks by a byte and one that shrinks to less than a block and to nothing, by two workers or two processes, over a longer file; with and without `--max-bandwidth` and `--check-md5`; four blobs, pages of two, a bucket of two permits, one failing call, one change of the container; 253,000 states, deadlock checked | workers with the same list share it out; success means all is copied and counted; a blob that several workers write is whole if it stayed as they saw it, or if they checked its digest; the burst is bounded; every process ends |
| `sync` | a small and a large file, both directions, all methods, two runs, a second of two ticks, one failure, one edit or removal; 750,000 states, deadlock checked | what a run that ends well promises; deletion of extras only; a second run has nothing to do |

Why these bounds: two ranks are both root and receiver for each other, which is every relation two
ranks can have; a third only repeats one of them. Two buffers are the least with which chunks
overlap, and with five or more chunks each is reused. Two sub-broadcasts per chunk are the least
that can complete out of order. The 5-unit file ends in a chunk that is shorter than a block, at a
shard border in the middle of the file. One failing call reaches every error path, and the paths
do not read one another's state. Two runs are needed to see what the first leaves for the next.
`LptNearOptimal` compares with every assignment and is limited to plans of `OptimumBound` = 5
shards.

In `download`, two permits of each kind for two files are few enough that tasks wait for both
kinds, and `a`'s three chunks cannot all run. In `upload`, two attempts are the least for an
answer that is lost and a request that comes late; three failures let both attempts of one call
fail and leave one for another client. In `copy`, pages of two are the least at which a page is
neither the whole list nor one blob, and three blobs pass the filter for up to four workers, so
that shares are empty, of one entry and of two. The lengths of one blob lie on both sides of the
block, on it, and at 0, and an older file is longer than all of them. The largest blob needs more than the bucket of two
permits holds, so that its request is charged the whole bucket and waits while others do. `Delays`
are the ticks after which the refill thread may wake: one tick, or a whole second. `Changing`
lists the command lines during which the container changes: two whose workers list it, or read it,
each for itself. `sync` needs two runs, since a property of the second is about what the first has
left; both files have equally long versions, the case in which the length says nothing.

Deadlock is checked in all runs but those of `Broadcast`. In these it is not,
because the program can stop for ever (finding 1); `EndsUnlessStarved` says that this is the
only way.

### Fairness

Weak fairness of each thread: the operating system schedules it. `WaitAnyPosted`: MPI completes a
collective that every rank has posted; nothing is assumed about one that only some have. `Abort`
and `Killed`: the launcher ends an aborted job. In `ClusterRun`, weak fairness of each rank: its
calls return, with success or failure, and a collective all ranks have entered completes. No
fairness is assumed of failures, of replacement of blobs, or of the operator starting a run.

In `Download` and `Upload`, weak fairness of each task: tokio polls every task that is ready, and
its semaphores serve waiters in order, so weak fairness is even less than what the runtime gives.
A request that is waited for ends, with an answer or an error: the client sets no timeout of its
own, so this is an assumption on the network stack. It covers only requests that are waited for;
one that was given up may stay unhandled for ever. `Sync` has no liveness property.

In `Copy`, weak fairness of each worker, of its tasks together, and of the joins in `run_workers`;
of the semaphore that hands out permits; and of the refill thread, which sleeps a tick and
therefore wakes after at least one (`RefillReads(1)`; later wake-ups earn more). Nothing is
assumed of failures and of the container.

## 4. Findings

Each is a statement of the documentation or of a comment that a run finds violated by what the
code does.

1. **The broadcast stage can hang** (`bcast_hang`, broadcast.rs:425). With nothing in flight, the
   main thread polls for acknowledgements and then blocks for one. If the writers answered in
   between, the poll has taken the last one, and `recv` waits for ever though a buffer is free.
   One buffer, the default, suffices.
2. **A failed run leaves files that look present** (`cluster_rerun`, main.rs:282). Files are
   created at full length first. After a crash, a rerun with `--compare size` sees the right
   length everywhere, skips everything and succeeds with empty files.
3. **`--verify` does not compare with Content-MD5** (`cluster_verify`, stages/verify.rs:75). The
   list loses the digests when it is serialised, so ranks are compared only with each other.
4. **A refused write counts as skipped** (`upload_skipped`, client.rs:735). Every 409 and 412 is
   taken for an existing blob. An upload that should overwrite a leased blob is refused, printed
   as "skipped (exists)", and the command exits 0. `InSyncAfterRun` excepts such blobs for this
   reason.

Met on the way, with no statement of the repository against them:

* Without `--verify`, nothing makes rank 0 of `azcp-cluster` wait for the other ranks before it
  saves the list (main.rs:372); if one of them fails after that, the list names files that this
  rank has not got.
* With `--no-overwrite`, a put whose answer was lost is sent again, finds the blob it has written,
  and is reported as skipped; the blob is right.
* Without `--check-md5` a blob replaced during its download gives a file mixed of two versions,
  with holes if the new one is shorter, that counts as downloaded. `SucceededIsComplete` states
  exactly that much.
* A failed download may leave a file of full length and a new time, which the next sync by size
  and time takes for up to date; so may an edit within the second, or during the upload, of a
  file. `InSyncAfterRun` promises the content only for `md5` and `always`.
* The channel of `upload_blocks` (engine/mod.rs:184) is bounded, but bounds nothing: a loop takes
  each block out at once and spawns a task that owns it while it waits for a permit
  (engine/mod.rs:212), so a file that is read faster than it is sent is in memory as a whole.
* Every worker of `--workers` lists for itself (main.rs:105-131), though README.md:217 and
  README.md:239 speak of one shared listing. Two workers can therefore see different lists, as two
  processes can (README.md:236), and then nobody may copy a blob that was there all the time;
  `SuccessIsComplete` supposes equal lists.
* A copy of one blob with `--shard` or `--workers` is not "a no-op for all but INDEX=0"
  (README.md:241): every worker copies it, and each empties the same file first. `SingleBlobWhole`
  shows that the file is whole all the same when all have ended well, if the blob was not replaced
  between their HEADs and the end, or if all checked its digest.
* Without either, a copy of one blob that all workers report as successful may be no version of it.
  Each worker sizes the file by its own HEAD (copy.rs:241): one that has seen a shorter blob cuts
  off what another has written and asks for fewer chunks; and a chunk that is answered with less
  than was asked for is accepted (client.rs:505), so that a shorter replacement leaves a hole. The
  digest of a blob below the block size is that of the bytes received, not of the file: workers of
  which some saw such a blob are not covered by it either.
* `sync --shard` is accepted (docs/options.md:40, sync_cmd.rs:57) and never applied.
* A request larger than one second's worth of bandwidth is charged one second's worth, and retries
  are not charged. What cancelled waiters give back can fill the bucket beyond its capacity;
  `BurstBounded` allows for it (`returned`).
* Entries of a `--shardlist` have no Content-MD5, so `--check-md5` checks nothing there.
* Names that begin with `#`, or that contain a TAB or a newline, do not survive the list's text
  form.
* An upload whose source does not exist says so and exits 0; a deletion that is retried after a
  lost answer gets 404 and counts as failed.

## 5. What is proved

All theorems hold for every value of the constants that satisfies the named assumption of the
module: for `Broadcast`, positive depth, writers, chunk and block sizes, a chunk that is a
multiple of the block when `O_DIRECT` is used, a plan whose shards lie within their files
(`BroadcastAssumption`), and what `ShardPlan` is proved to give (`PlanAssumption`): shards that
begin on chunk borders and end on one or with the file (`BoundariesAligned`), and that leave
nothing of a file out (`ShardsTile`); for `ShardPlan`, sizes that fit the integer type, at least
one rank and a positive chunk, and arguments `validate` accepts; for `Upload`, one caller for each file and block; for
`Download`, finitely many files, ranges within the listed length, positive permits, block size and
alignment, and neither `--direct` nor `--check-md5` for ranges (`DownloadAssumption`); for
`RateLimiter`, a positive unit and number of ticks; for `Sync`, a second that has a length and the
four comparison methods; for `ClusterRun` and `Copy`, constants of the right types.

* `BroadcastProofs!TypeCorrect`: the type invariant, one lemma per action. It says more than
  types: a shard being posted is not posted completely, in-flight entries refer to posted chunks,
  and no local file is shorter than its blob (which the reads of the owner depend on).
* `BroadcastProofs!WireFollowsPlanAlways` and `CollectivesMatchAlways`: whatever the
  interleaving of free slots, writers and failures, each rank has posted a prefix of the plan's
  chunks, and any two ranks agree on each chunk both have posted. The inductive invariant is
  `OrderInv`: `WireFollowsPlan`, which ties the last posted chunk to the cursor (`CursorAtEnd`),
  and `SameChunks`, agreement on shard, offset and length. Agreement alone is not inductive, since
  the ranks post at different times; it becomes so because the plan determines the first chunk
  (`FirstUnique`) and the successor of each chunk (`FollowsUnique`).
* `BroadcastProofs!BuffersAccountedAlways`, `QueuedDataIntactAlways`, `OwnedRangesIntactAlways`:
  the buffers and what is in them. The inductive invariant is `FlowInv`, which adds three parts
  to `OrderInv`. `Control` says what has happened by the time the main thread is where it is; a
  thread that joins the writers without an error has nothing posted or queued. `Pool` follows
  each buffer: `BuffersAccounted` counts, but to see that an acknowledgement or a completed
  sub-broadcast changes the counts by one, one has to know that no buffer is in two commands
  (`OnceIn`) and that the collectives of one buffer are of one chunk. `Data` follows the units
  from the owner's disk to the receiver's queue: what a posted chunk carries, which units have
  arrived under the sub-broadcasts that are complete (`Arrived`), and what queued writes will
  find. The owner reads its shards from a disk its own writers write to, so none of this is
  inductive without `OwnedIntact`; and the padding of an `O_DIRECT` write does no harm only
  because chunks begin at multiples of the chunk size (`CursorAligned`) and only a file's last is
  short (`Fits`), which is where `PlanAssumption` comes in.
* `ReplicaProofs`: what the stage leaves. `Lifecycle` is the life of a file at a rank: `Counts`
  says that the counters in `FileState` count the shards posted, the chunks under collectives and
  the buffers with the writer; `LifeOf` that a file's commands go to one queue, opened first and
  closed last, once. From it, `WritesReachOpenFileAlways`. `Done` says of each unit of the plan
  that is posted (`Covered`, `ChunkDone`) where it is now: under a collective, in a queue, on
  disk, or lost in a write whose failure is among the acknowledgements or has been taken over
  into the result. Since there is nothing in flight, queued or unread when the writers have been
  joined and `Control` knows no error, all of it is on disk: `ReplicaCompleteAlways` and
  `OkMeansDurableAlways`. `PipelineImplementsReplication` shows each step of the pipeline to be a
  step of `Replication` or none: a rank's units only grow (`RightStays`: no write and no padding puts
  anything else over a unit that is in its place), and it says ok with all of them.
* `ShardPlanProofs!ShardsTileAlways`: every byte of every file lies in exactly one shard. The
  inductive invariant `Tiling` adds to it where the cursor of the splitting loops is; the
  arithmetic of the last shard of a file is in `CutFacts`.
* `BoundariesAlignedAlways`, `FileShardsRespectedAlways`: from the invariant `WithinLimits`, and
  multiplication lemmas that the SMT solver is led through.
* `LoadsSpreadAlways`: two ranks' loads never differ by more than one shard's length. It is
  inductive as it stands, because the least loaded rank is always the one that grows.
* `ShardPlanProofs!LptBoundAlways`, `LptNearOptimalAlways`: the most loaded rank has at most
  4/3 - 1/(3 count) of the least possible maximum, which the run can only compare for plans of five
  shards and the theorem states for all. The inductive invariant `Packed` says that loads are the
  bytes of the shards given away (`Saturated`), and of each rank that one of its shards came last,
  when the rank had no more than any other and all shards given away were at least as long
  (`Greedy`). `GrahamBound` is the rest. If the last shard of the fullest rank is at most a third
  of the optimum, the others had as much before it came. If it is longer, no rank of the optimum
  has three of the shards up to it, so few are alone on their rank there (`FewAlone`); in the
  plan before it came more are (`ManyAlone`); one of these shares its rank in the optimum, with a
  shard that is at least as long as the last. The hypothesis `TotalFits`, that the bytes of the list
  are fewer than a load can count, cannot be dropped: a load that has reached the largest 64-bit
  number no longer grows, so of five shards of that length the first of two ranks gets four.
* `PlanTypeCorrect`.
* `ClusterRunProofs`: for any number of ranks, blobs, shards, runs, failures and replacements. The
  inductive invariant `RunInv` has three parts. `Barriers` is what the collectives do: who is past
  the allgather works with rows that no longer change, so that all ranks have one plan; who is in
  the broadcast stage finds everyone past the download; who is past the comparison finds
  everyone's digest taken. `Planned` is what each rank has worked off of its part of the plan:
  what it created exists, what it downloaded is at least as new as the list, what it received is
  what the owner has. `Verified` carries the result of the comparison on to the end of rank 0.
  From it follow `DownloadsPrecedeBroadcastAlways`, `TransfersCompleteAlways`,
  `VerifiedListSharedAlways` and, as a property of each step, `PresentFilesKeptAlways`; and
  `ClusterTypeCorrect`.
* `ClusterRunProofs!NoSpuriousAbortAlways`: if no call has failed and there was nothing on the disks
  but listed files, no rank has aborted. This is about all runs before as well, since they leave
  the disks that the present one finds. `CleanInv` adds to `RunInv` what such a job never meets:
  a failure nobody caused (`NothingFailed`), files that were reported present and differ among
  their havers (`PresentAgree`), and disks that differ where `--verify` compares them
  (`DisksAgree`). No name is a directory of another because the list drops the blobs whose names
  are (`NoneInTheWay`).
* `DownloadProofs`, for any files, versions, ranges, block sizes, permits, failures and
  replacements. `ControlInv` ties the task of a file to its chunks and to the summary: no chunk is
  with a task when the task of its file has ended. From it `QuietWhenReturnedAlways`: the handles
  are all awaited, also after the first error. `PermitInv` counts the holders of the two
  semaphores as finite sets, which a step changes by one file or one chunk, or by all running
  files at once when the call gives up; it is `PermitsConservedAlways`. `DataInv` follows the
  units of a blob: what a chunk has fetched (`Fetched`) is its part of one version the blob has
  had, short only where that version ends; until a file is finished it holds nothing but holes
  and units in their places, and the chunks already written have holes only where some version
  ends (`Filled`). The step that matters is the write of a chunk (`WriteFills`): with
  `O_DIRECT` it pads the data with zeros, which may not reach into the next chunk. They do not,
  because a write is accepted only at a multiple of the alignment, so the distance to a later
  chunk that has been written is one too, and the padded length is the least such multiple
  (`RoundedUp`). Together with `ChunksCover`, that the chunks leave nothing of the ranges out,
  this gives `SucceededIsCompleteAlways` and `CheckedIsListedAlways`. `ExcusedInv` says why a
  task or chunk has failed, and that a digest does not differ without a replacement
  (`WholeListed`): `NoSpuriousFailureAlways`.
* `UploadProofs!UploadImplementsStore`: `Upload` implements `Store`, and so `BlobsWhole`,
  `SucceededIsUploaded` and `ExistingKept`, which are theorems of their own. The argument is in
  what a commit may find. Once a block is uploaded, the service has nothing but the new block
  under its id (`FreshBlock`), however late another attempt arrives and whatever an earlier run
  left staged: only the whole blob can be replaced, which takes the block away. A block list is
  sent when this holds of all blocks (`CommitIsFresh`), and it still holds when the service
  handles the list, or handles it twice.
* `UploadProofs!PermitsConservedAlways`: the permits and their holders add up to `concurrency` in
  every state, and so none is lost when a file is skipped, a block fails or the call returns early.
  `PermitInv` counts the holders as a finite set; a step changes the set by the one request or
  file it is about. That the loop of upload_entries reads at most one file at a time
  (`Readers`) and that the final request of a file is not sent while its blocks are
  (`FinalUnsent`) are what keeps a permit from being counted twice.
* `CopyProofs!LimiterBurstBounded`: the bucket and what is being handed out never exceed
  one second's worth, except by what cancelled tasks gave back. The thread adds what fitted when
  it looked; `AdditionFits` says that it still fits, since only cancelled tasks have brought
  permits in since. `FirstWaits` says that a task waits only beside an empty bucket.
* `CopyProofs!CopyUsesLimiter`: `Copy` implements `LimiterSpec`, so `BurstBoundedAlways` follows
  for a whole process.
* `CopyProofs!SharesPartitionAlways`: workers that have the same list transfer each entry that
  passes the filter, once. Two facts make it: `Owner`, a recursive function, gives every kept
  entry a bin below the count, shown by looking at a smallest set of entries left for which it
  does not (`OwnerIsBin`); and `Index` takes each value below the number of shards exactly once
  (`ShardsAreWorkers`). `SuccessIsCompleteAlways` needs `CopyInv` besides, which says for each
  phase of a worker what its list, share and tasks are.
* `CopyProofs!SingleBlobWholeAlways`: for any number of workers, any lengths, any block size and any
  file that was there before. Two parts of `CopyInv` are about the file. `Filled` holds as long as
  all who have seen the blob have seen the present version (`AsSeen`): a byte that is missing is in
  a part that some worker has still to write (`Filling`), because who empties or lengthens the file
  has written nothing yet, and who writes puts the same byte where everybody does; and once anybody
  has emptied the file it is not longer than the blob (`Short`), so nothing of an older one is
  behind its end. When all have ended well nothing is left to write, and every byte is in a part
  (`PartsCover`, from `ChunkFacts`, that the chunks leave nothing of a length out). `Compared` is for
  the other case: when all have checked the digest, the last that did has found the file as it
  still is, since all the others had ended.
* `CopyProofs!ReportsAddUpAlways`: the counts that the processes report add up to the list. Each is
  a sum over workers, by a fold that takes them in an order nobody knows, and the property sums
  these again. `SumOfParts` shows that such a sum is the size of a union of disjoint parts, by a
  smallest set of elements for which it is not, so no induction is needed. `Reported` says that
  what a process has reported is still what its workers have; the partition does the rest.
* `SyncProofs!DeletesOnlyExtrasAlways`: sync never deletes a file that the source has had ever
  since the run listed it, whatever failed and whenever the source changed. The property speaks of
  one step; the invariant `DeleteInv` carries to that step what happened since the listing: files
  that were not listed or are gone are in `missing`, extras are among them, and they exist only
  while files are deleted. It also needs that no failed transfer removes a file, which is the
  lemma `LeftoversExist`. It needs no assumption on the constants.
* `SyncProofs!InSyncAfterRunAlways`, `RerunIsNoopAlways`: the run whose source did not change
  leaves it at the destination, and the next run sends nothing. The inductive invariant `SyncInv`
  follows each file through a run: while the source is stable, what was listed is what is there
  (`ListingsOK`), each file is on its way, failed, or such that it `Serves` the method
  (`TransferOK`), extras are deleted without touching the rest (`DeletionOK`), and an `ok` says
  that nothing failed (`ResultOK`). `SyncedOK` carries it to the next run. `Serves` is where the
  methods differ: with the times, the destination must not look older than the source although
  the source's time is cut to whole seconds, and for an upload the destination's too, which is
  `SecondsMonotone`. Both use that a second has
  a length and that the methods are the four of the code.

Only model-checked: everything about liveness (`RunsEnd`, `CallEnds`, `UploadEnds`, `CopyEnds`,
`EndsUnlessStarved`), which is out of the prover's reach.

## 6. What is not modelled

* azcp-cluster: the check for one rank per node, the hidden `--stage` values that run a part of
  the stages, its `--shardlist`, and names with a TAB or a newline, which the list's text form
  does not carry.
* Versions of a blob with different lengths in `ClusterRun` and `Sync`. With them `size_matches` is
  right more often than in the model; but a shard that is fetched after a shorter blob has replaced
  the listed one may also have a hole, since an answer with less than was asked for is accepted
  (client.rs:505). What `TransfersComplete` says of replaced blobs is for versions of one length.
  `Download` and `Copy` have lengths that differ, and what they leave in the file.
* That all ranks compute one shard plan, and all workers one assignment, from the same list: these
  are computations without choice, and the models have them once. `SharesPartition` and
  `SuccessIsComplete` suppose that the lists are the same (`SameLists`).
* `--bcast-chunk 0`, which `BroadcastAssumption` excludes: `StartShard` and `PostChunk` would not
  advance.
* Buffers dropped while MPI owns them, after an error return: the job is aborted.
* `stages/owners.rs`: the assignment of `compute_shards` for whole files, printed and not used.
* Printing, timing, progress, argument parsing, authentication, directory walking: no state that
  others rely on.
* Of the copy of one blob: the blob is replaced but never deleted; a digest identifies a version; a
  failing write leaves all or nothing. A chunk's write, and the reading of the file for its digest,
  are one step each, although another worker may write in between. That loses nothing of
  `SingleBlobWhole`: workers that agree on the version write the same bytes, and whoever wrote last
  reads the file for its digest afterwards.
* Of the engine: `--discard`, `--dry-run`; that an upload waits for the rate limiter (a request
  may go at any time after its permit, so any delay is covered, but not how long it is).
* In `Copy`: the saturating sum of a bin's bytes, which needs more than 2^64 of them; retries of
  reads; and the chunks of larger blobs of a directory, which are in `Download`.
* Copies to the container with several workers: their lists are of local files, by the same
  `apply_shard`.
* A source file that changes while it is uploaded, and another azcp that uploads to the same blob
  with the same block ids at the same time.
* Waiting between attempts and the numbers of the back-off: no state depends on them.
* Of sync: glob patterns, `--dry-run`, and a prefix that is the beginning of a sibling's name. A
  read captures one version of a file. The times of both sides are taken from one clock, and no
  request of a run that was broken off is handled after it.

## 7. Plan

Done: the cluster's broadcast, plan, list stage and driver; downloads, uploads and the store they
implement; sync; worker shards, copies and the rate limiter; and proofs of every safety and action
property the runs check. What is left: `--discard` and the retries of reads, in `Download`.
