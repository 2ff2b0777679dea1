--------------------------------- MODULE Copy ---------------------------------
(***************************************************************************)
(* azcp copy from a container to local files (src/cli/copy.rs, run_workers *)
(* of src/main.rs): one or more processes, each with its --shard, and in   *)
(* each one or more workers.                                               *)
(*                                                                         *)
(* A source that ends with a slash is a directory; any other is one blob   *)
(* if there is one of that name, otherwise a directory.  For a directory,  *)
(* every worker lists the container for itself, page by page, or reads the *)
(* --shardlist; it takes its share of the list, by a computation that all  *)
(* workers do alike, and transfers it.  For one blob, every worker asks    *)
(* for its properties, and writes the whole blob, as long as it was then,  *)
(* to the same file.  All requests of a process go through one rate        *)
(* limiter.                                                                *)
(*                                                                         *)
(* The blobs of a directory are numbers in the order of their names, each  *)
(* below the block size, so that one request transfers it: the larger ones *)
(* are in Download, as are file permits, and retries in BlobClient.        *)
(***************************************************************************)
EXTENDS RateLimiter, FiniteSets
FX == INSTANCE FiniteSetsExt

CONSTANTS
  Blobs,          \* those below the source
  Matching,       \* those that pass --include-pattern and --exclude-pattern
  Sizes,          \* what a blob's size may be
  PageSize,       \* most blobs the service lists in one answer
  block_size,
  concurrency,    \* requests a worker may have under way
  Setups,         \* command lines, with the rows of the --shardlist, and the versions
                  \* of the blob that is the source itself, one after the other
  Containers,     \* what may be in the container at first
  Leftovers,      \* what may be in the local file at first, when the source is one blob
  AllWorkers,     \* <<process, worker>>
  MaxFaults, MaxChanges,  \* bounds: calls that fail, blobs of the directory that change
  Changing        \* bound: the command lines during which any of those does

VARIABLES
  setup,          \* the command line, and the versions of the one blob
  container,      \* the size of each blob
  version,        \* of the blob that is the source itself; 0 if there is none
  changed,        \* history: the blobs of the directory that have changed
  faults,
  phase,          \* where each worker is
  seen,           \* the version of the one blob its HEAD has seen, or 0
  list,           \* the entries it has read: by their line, or by their name
  share,          \* those of them it is to transfer
  task,           \* its tasks: one for each entry of its share, or each chunk
  body,           \* the version a task has received its chunk of
  local,          \* the bytes of the local file, when the source is one blob
  exit            \* of each process: the status, and the files it reports

workerVars == <<phase, seen, list, share>>
taskVars == <<task, body, local>>
vars == <<setup, container, version, changed, faults, workerVars, taskVars, exit, limiterVars>>

Gone == -1
There(b) == container[b] # Gone

Processes == 0 .. setup.processes - 1
WorkersOf(p) == {p} \X (0 .. setup.workers - 1)
Workers == UNION {WorkersOf(p) : p \in Processes}
AllProcesses == {w[1] : w \in AllWorkers}

Entries == [name : Blobs, size : Sizes]
Rows == [kind : {"entry", "passed over", "bad"}, entry : Entries]

(* Byte p of version v is <<v, p>>.  A hole, or a byte of an older file, is *)
(* none of the blob's.                                                      *)
Hole == <<0, 0>>
Length(v) == setup.versions[v].length
Content(v) == [p \in 1 .. Length(v) |-> <<v, p>>]

ASSUME CopyAssumption ==
  /\ Blobs \subseteq Nat /\ IsFiniteSet(Blobs) /\ Matching \subseteq Blobs
  /\ Sizes \subseteq 0 .. block_size - 1 /\ PageSize \in Nat \ {0}
  /\ block_size \in Nat \ {0} /\ concurrency \in Nat \ {0}
  /\ MaxFaults \in Nat /\ MaxChanges \in Nat
  /\ Setups \subseteq [source : {"prefix", "name", "shardlist"}, recursive : BOOLEAN,
                       processes : Nat \ {0}, workers : Nat \ {0}, limited : BOOLEAN,
                       rows : Seq(Rows), check_md5 : BOOLEAN,
                       versions : Seq([length : Nat, md5 : BOOLEAN])]
  /\ \A s \in Setups : /\ s.limited => s.processes = 1
                       /\ (0 .. s.processes - 1) \X (0 .. s.workers - 1) \subseteq AllWorkers
  /\ AllWorkers \subseteq Nat \X Nat /\ Changing \subseteq Setups
  /\ Leftovers \subseteq Seq({Hole})
  /\ Containers \subseteq [Blobs -> Sizes \cup {Gone}]

Init ==
  /\ setup \in Setups /\ container \in Containers
  /\ version = IF setup.versions = <<>> THEN 0 ELSE 1
  /\ changed = {} /\ faults = 0
  /\ phase = [w \in AllWorkers |-> "start"] /\ seen = [w \in AllWorkers |-> 0]
  /\ list = [w \in AllWorkers |-> <<>>] /\ share = [w \in AllWorkers |-> {}]
  /\ task = [w \in AllWorkers |-> <<>>] /\ body = [w \in AllWorkers |-> <<>>]
  /\ local \in Leftovers
  /\ exit = [p \in AllProcesses |-> [status |-> "running", succeeded |-> 0]]
  /\ LimiterInit

Fault == faults < MaxFaults /\ faults' = faults + 1

(* Somebody changes the container.  Nobody reads the blobs of the directory *)
(* while there is one of its name.                                          *)
Change ==
  /\ \/ \E b \in Blobs \ changed, size \in Sizes \cup {Gone} :
          /\ setup \in Changing /\ version = 0 /\ Cardinality(changed) < MaxChanges
          /\ size # container[b]
          /\ container' = [container EXCEPT ![b] = size] /\ changed' = changed \cup {b}
          /\ UNCHANGED version
     \/ /\ version \in 1 .. Len(setup.versions) - 1
        /\ version' = version + 1 /\ UNCHANGED <<container, changed>>
  /\ UNCHANGED <<setup, faults, workerVars, taskVars, exit, limiterVars>>

------------------------------------------------------------------------------
(* Worker i of process p has shard p * workers + i of processes * workers.  *)
Interleaved(p, i) == p + i                      \* a mutation of Index
Index(p, i) == p * setup.workers + i
Shards == setup.processes * setup.workers

Kept(items) == {i \in DOMAIN items : items[i].name \in Matching}

(* apply_shard: the largest first, of equal ones the first by name, each to *)
(* the least loaded bin, the lowest of several.                             *)
Before(items, i, j) ==
  \/ items[i].size > items[j].size
  \/ items[i].size = items[j].size /\ items[i].name < items[j].name
  \/ items[i].size = items[j].size /\ items[i].name = items[j].name /\ i < j
Largest(items, left) == CHOOSE i \in left : \A j \in left \ {i} : Before(items, i, j)

Less(loads, b, c) == loads[b] < loads[c] \/ (loads[b] = loads[c] /\ b < c)
Lightest(loads) == CHOOSE b \in DOMAIN loads : \A c \in DOMAIN loads \ {b} : Less(loads, b, c)

(* Those left are dealt out one after the other; loads is what each bin has.*)
Owner(items, count) ==
  LET Bins == 0 .. count - 1
      Deals == [left : SUBSET Kept(items), loads : [Bins -> Nat], owner : [Kept(items) -> Bins]]
      dealt[d \in Deals] ==
        IF d.left = {} THEN d.owner
        ELSE LET i == Largest(items, d.left)
                 b == Lightest(d.loads)
             IN dealt[[left |-> d.left \ {i},
                       loads |-> [d.loads EXCEPT ![b] = @ + items[i].size],
                       owner |-> [d.owner EXCEPT ![i] = b]]]
  IN dealt[[left |-> Kept(items), loads |-> [b \in Bins |-> 0],
            owner |-> [i \in Kept(items) |-> 0]]]

ShareOf(items, index, count) ==
  LET owner == Owner(items, count)
  IN {i \in Kept(items) : owner[i] = index}

Goes(w, to) == phase' = [phase EXCEPT ![w] = to] /\ UNCHANGED <<list, share, task>>
Sees(w, v) == seen' = [seen EXCEPT ![w] = v]
HasListed(w, items) ==
  /\ phase' = [phase EXCEPT ![w] = "listed"] /\ list' = [list EXCEPT ![w] = items]
  /\ UNCHANGED <<share, task>>

OneBlob(w) == seen[w] > 0

(* resolve_source: HEAD, unless the source ends with a slash.  The length   *)
(* and the digest it answers are those of the version it has seen.          *)
Listing == IF setup.source = "shardlist" THEN "read" ELSE "list"

Resolve(w) ==
  /\ phase[w] = "start"
  /\ IF setup.source # "name" THEN Goes(w, Listing) /\ UNCHANGED <<seen, faults>>
     ELSE \/ Fault /\ Goes(w, "error") /\ UNCHANGED seen
          \/ /\ IF version > 0 THEN Goes(w, "create") /\ Sees(w, version)
                ELSE Goes(w, IF setup.recursive THEN Listing ELSE "error") /\ UNCHANGED seen
             /\ UNCHANGED faults
  /\ UNCHANGED <<setup, container, version, changed, body, local, exit, limiterVars>>

(* read_shardlist: blank lines, comments and lines without a numeric size   *)
(* are passed over; a line that lacks its name or its size is an error.     *)
ReadShardlist(w) ==
  LET lines(kind) == {i \in DOMAIN setup.rows : setup.rows[i].kind = kind}
  IN /\ phase[w] = "read"
     /\ \/ /\ IF lines("bad") # {} THEN Goes(w, "error")
              ELSE HasListed(w, [i \in lines("entry") |-> setup.rows[i].entry])
           /\ UNCHANGED faults
        \/ Fault /\ Goes(w, "error")
     /\ UNCHANGED <<setup, container, version, changed, seen, body, local, exit, limiterVars>>

(* list_blobs: one page, of blobs that follow those of the last one; the    *)
(* service decides how many, and says if there may be more.                 *)
Rest(w) == {b \in Blobs : There(b) /\ \A c \in DOMAIN list[w] : c < b}
WithPage(w, names) ==
  [b \in DOMAIN list[w] \cup names |->
     IF b \in names THEN [name |-> b, size |-> container[b]] ELSE list[w][b]]

FirstPageOnly(more) == FALSE                    \* a mutation of NextMarker
NextMarker(more) == more

ListPage(w) ==
  /\ phase[w] = "list"
  /\ \/ \E names \in SUBSET Rest(w), more \in BOOLEAN :
          /\ Cardinality(names) <= PageSize
          /\ \A b \in Rest(w) \ names, c \in names : c < b
          /\ names # Rest(w) => more
          /\ IF names = {} /\ more THEN Fault ELSE UNCHANGED faults
          /\ IF NextMarker(more)
             THEN list' = [list EXCEPT ![w] = WithPage(w, names)]
                  /\ UNCHANGED <<phase, share, task>>
             ELSE HasListed(w, WithPage(w, names))
     \/ Fault /\ Goes(w, "error")
  /\ UNCHANGED <<setup, container, version, changed, seen, body, local, exit, limiterVars>>

(* What the filter has left of the list is shared out.                      *)
TakeShare(w) ==
  /\ phase[w] = "listed"
  /\ phase' = [phase EXCEPT ![w] = "transfer"]
  /\ share' = [share EXCEPT ![w] = ShareOf(list[w], Index(w[1], w[2]), Shards)]
  /\ task' = [task EXCEPT ![w] = [i \in share'[w] |-> "none"]]
  /\ UNCHANGED <<setup, container, version, changed, faults, seen, list, body, local, exit,
                 limiterVars>>

(* One blob, of the length that HEAD has answered.  One that is smaller     *)
(* than a block is a task of its own; for others the file is created and    *)
(* set to that length, and every chunk is a task.                           *)
Large(w) == Length(seen[w]) >= block_size
FlooredChunks(length) == length \div block_size \* a mutation of NumChunks
NumChunks(length) == (length + block_size - 1) \div block_size

Spawns(w, n) ==
  /\ phase' = [phase EXCEPT ![w] = "chunks"]
  /\ task' = [task EXCEPT ![w] = [i \in 1 .. n |-> "none"]]
  /\ body' = [body EXCEPT ![w] = [i \in 1 .. n |-> 0]]
  /\ UNCHANGED <<list, share>>

CreateFile(w) ==
  /\ phase[w] = "create"
  /\ \/ Large(w) /\ Goes(w, "set_len") /\ local' = <<>> /\ UNCHANGED <<body, faults>>
     \/ ~Large(w) /\ Spawns(w, 1) /\ UNCHANGED <<local, faults>>
     \/ Fault /\ Goes(w, "error") /\ UNCHANGED <<body, local>>
  /\ UNCHANGED <<setup, container, version, changed, seen, exit, limiterVars>>

Resized(file, n) == [p \in 1 .. n |-> IF p <= Len(file) THEN file[p] ELSE Hole]

SetLen(w) ==
  /\ phase[w] = "set_len"
  /\ \/ /\ local' = Resized(local, Length(seen[w])) /\ Spawns(w, NumChunks(Length(seen[w])))
        /\ UNCHANGED faults
     \/ Fault /\ Goes(w, "error") /\ UNCHANGED <<body, local>>
  /\ UNCHANGED <<setup, container, version, changed, seen, exit, limiterVars>>

------------------------------------------------------------------------------
(* The tasks.  A permit is held while one waits for the limiter and for the *)
(* answer, not while it writes.                                             *)
Set(w, i, state) == task' = [task EXCEPT ![w][i] = state]
Holding(w) == {i \in DOMAIN task[w] : task[w][i] \in {"rate", "wait", "get"}}

(* Chunk i, as get_blob_range asks for it.                                  *)
First(i) == (i - 1) * block_size + 1
Last(w, i) == AtMost(i * block_size, Length(seen[w]))

AtLeastOne(n) == IF n = 0 THEN 1 ELSE n
Bytes(w, i) == IF ~OneBlob(w) THEN AtLeastOne(list[w][i].size)
               ELSE IF Large(w) THEN Last(w, i) - First(i) + 1
               ELSE AtLeastOne(Length(seen[w]))

TakePermit(w, i) ==
  /\ phase[w] \in {"transfer", "chunks"}
  /\ task[w][i] = "none" /\ Cardinality(Holding(w)) < concurrency
  /\ Set(w, i, IF setup.limited THEN "rate" ELSE "get")
  /\ UNCHANGED <<setup, container, version, changed, faults, workerVars, body, local, exit,
                 limiterVars>>

AwaitRate(w, i) ==
  /\ \/ task[w][i] = "rate" /\ TakeNow(<<w, i>>, Bytes(w, i)) /\ Set(w, i, "get")
     \/ task[w][i] = "rate" /\ Enqueue(<<w, i>>, Bytes(w, i)) /\ Set(w, i, "wait")
     \/ task[w][i] = "wait" /\ Resume(<<w, i>>) /\ Set(w, i, "get")
  /\ UNCHANGED <<setup, container, version, changed, faults, workerVars, body, local, exit>>

(* get_blob and fs::write, or get_blob_range.  A range that begins after    *)
(* the end of the present version is an error, one that ends after it is    *)
(* answered with less.  verify_md5, for what one request fetches.           *)
Checks(w) == setup.check_md5 /\ setup.versions[seen[w]].md5
Accepted(w, i) == IF Large(w) THEN First(i) <= Length(version)
                  ELSE Checks(w) => Content(version) = Content(seen[w])

Get(w, i) ==
  /\ task[w][i] = "get"
  /\ IF OneBlob(w)
     THEN /\ Set(w, i, IF Accepted(w, i) THEN "put" ELSE "err")
          /\ body' = [body EXCEPT ![w][i] = version]
     ELSE Set(w, i, IF There(list[w][i].name) THEN "ok" ELSE "err") /\ UNCHANGED body
  /\ UNCHANGED <<setup, container, version, changed, faults, workerVars, local, exit,
                 limiterVars>>

GetFails(w, i) ==
  /\ task[w][i] = "get" /\ Fault /\ Set(w, i, "err")
  /\ UNCHANGED <<setup, container, version, changed, workerVars, body, local, exit, limiterVars>>

(* What a task writes is in its place in the file, which grows if need be.  *)
(* fs::write empties the file first.                                        *)
Written(file, v, first, last) ==
  [p \in 1 .. (IF Len(file) < last THEN last ELSE Len(file)) |->
     IF p \in first .. last THEN <<v, p>> ELSE IF p <= Len(file) THEN file[p] ELSE Hole]
Empties(w, i) == ~Large(w) /\ task[w][i] = "put"
LastWritten(w, i) == IF Large(w) THEN AtMost(Last(w, i), Length(body[w][i])) ELSE Length(body[w][i])
AfterPut(w, i) ==
  IF Empties(w, i) THEN <<>> ELSE Written(local, body[w][i], First(i), LastWritten(w, i))

Put(w, i) ==
  /\ task[w][i] \in {"put", "write"}
  /\ \/ /\ local' = AfterPut(w, i) /\ Set(w, i, IF Empties(w, i) THEN "write" ELSE "ok")
        /\ UNCHANGED faults
     \/ Fault /\ local' \in {local, AfterPut(w, i)} /\ Set(w, i, "err")
  /\ UNCHANGED <<setup, container, version, changed, workerVars, body, exit, limiterVars>>

------------------------------------------------------------------------------
(* The worker.  check_summary after all files of a directory; the first     *)
(* chunk that fails ends the transfer of one blob, and a directory that     *)
(* cannot be made ends that of a directory.  Then the JoinSet is dropped,   *)
(* and with the runtime all that its tasks still do ends.                   *)
Ended(w) == \A i \in DOMAIN task[w] : task[w][i] \in {"ok", "err", "dropped"}
Failed(w) == \E i \in DOMAIN task[w] : task[w][i] = "err"

CheckSummary(w) == IF Failed(w) THEN "error" ELSE "ok"

Verifies(w) == phase[w] = "chunks" /\ Large(w) /\ Checks(w) /\ ~Failed(w)

EndWorker(w) ==
  /\ phase[w] \in {"transfer", "chunks"}
  /\ \/ /\ Ended(w) /\ UNCHANGED faults
        /\ phase' = [phase EXCEPT ![w] = IF Verifies(w) THEN "verify" ELSE CheckSummary(w)]
     \/ /\ ~Ended(w) /\ phase' = [phase EXCEPT ![w] = "failing"]
        /\ IF phase[w] = "chunks" THEN Failed(w) /\ UNCHANGED faults
           ELSE Fault /\ \E i \in DOMAIN task[w] : task[w][i] = "none"
  /\ UNCHANGED <<setup, container, version, changed, seen, list, share, taskVars, exit,
                 limiterVars>>

(* verify_md5_file: what the file has now, whoever wrote it.                *)
Matches(w) == local = Content(seen[w])

VerifyFile(w) ==
  /\ phase[w] = "verify"
  /\ \/ phase' = [phase EXCEPT ![w] = IF Matches(w) THEN "ok" ELSE "error"] /\ UNCHANGED faults
     \/ Fault /\ phase' = [phase EXCEPT ![w] = "error"]
  /\ UNCHANGED <<setup, container, version, changed, seen, list, share, taskVars, exit,
                 limiterVars>>

DropTask(w, i) ==
  /\ phase[w] = "failing" /\ task[w][i] \notin {"ok", "err", "dropped"}
  /\ IF task[w][i] = "wait" THEN GiveUp(<<w, i>>, Bytes(w, i)) ELSE UNCHANGED limiterVars
  /\ IF task[w][i] = "put" THEN local' \in {local, AfterPut(w, i)}
                           ELSE UNCHANGED local
  /\ Set(w, i, "dropped")
  /\ UNCHANGED <<setup, container, version, changed, faults, workerVars, body, exit>>

EndFailing(w) ==
  /\ phase[w] = "failing" /\ Ended(w)
  /\ phase' = [phase EXCEPT ![w] = "error"]
  /\ UNCHANGED <<setup, container, version, changed, faults, seen, list, share, taskVars, exit,
                 limiterVars>>

(* run_workers joins its workers one after the other: it adds up the        *)
(* summaries it gets and keeps the first error.                             *)
LastWorker(p) ==                                \* a mutation of NoError
  phase[<<p, setup.workers - 1>>] = "ok"
NoError(p) == \A w \in WorkersOf(p) : phase[w] = "ok"

Counted(p) == {w \in WorkersOf(p) : phase[w] = "ok" /\ ~OneBlob(w)}

EndProcess(p) ==
  /\ exit[p].status = "running"
  /\ \A w \in WorkersOf(p) : phase[w] \in {"ok", "error"}
  /\ exit' = [exit EXCEPT ![p] =
       [status |-> IF NoError(p) THEN "ok" ELSE "error",
        succeeded |-> FX!MapThenSumSet(LAMBDA w : Cardinality(share[w]), Counted(p))]]
  /\ UNCHANGED <<setup, container, version, changed, faults, workerVars, taskVars, limiterVars>>

------------------------------------------------------------------------------
Limiter ==
  /\ setup.limited /\ exit[0].status = "running"
  /\ HandOut \/ RefillAdds \/ \E elapsed \in Delays : RefillReads(elapsed)
  /\ UNCHANGED <<setup, container, version, changed, faults, workerVars, taskVars, exit>>

Terminated == (\A p \in Processes : exit[p].status # "running") /\ UNCHANGED vars

WorkerStep(w) ==
  Resolve(w) \/ ReadShardlist(w) \/ ListPage(w) \/ TakeShare(w) \/ CreateFile(w)
  \/ SetLen(w) \/ EndWorker(w) \/ VerifyFile(w) \/ EndFailing(w)
TaskStep(w) ==
  \E i \in DOMAIN task[w] :
    TakePermit(w, i) \/ AwaitRate(w, i) \/ Get(w, i) \/ GetFails(w, i) \/ Put(w, i)
    \/ DropTask(w, i)

Next ==
  \/ \E w \in Workers : WorkerStep(w) \/ TaskStep(w)
  \/ \E p \in Processes : EndProcess(p)
  \/ Limiter \/ Change \/ Terminated

(* Threads run and tokio polls what is ready; requests end; the thread that *)
(* refills the bucket wakes again and again, after a tick at least.         *)
Fairness ==
  /\ \A w \in AllWorkers : /\ WF_vars(w \in Workers /\ WorkerStep(w))
                            /\ WF_vars(w \in Workers /\ TaskStep(w))
  /\ \A p \in AllProcesses : WF_vars(p \in Processes /\ EndProcess(p))
  /\ WF_vars(Limiter /\ HandOut) /\ WF_vars(Limiter /\ RefillReads(1))
  /\ WF_vars(Limiter /\ RefillAdds)

Spec == Init /\ [][Next]_vars /\ Fairness

------------------------------------------------------------------------------
(* Properties.                                                              *)

Begun(w) == ~OneBlob(w) /\ phase[w] \in {"transfer", "failing", "ok"}
SameLists == \A v, w \in Workers : list[v] = list[w]

(* Workers that have read the same list transfer every entry that passes    *)
(* the filter, and no entry twice, although none knows of the others but    *)
(* their number.                                                            *)
SharesPartition ==
  (\A w \in Workers : Begun(w)) /\ SameLists =>
    /\ \A w \in Workers : UNION {share[v] : v \in Workers} = Kept(list[w])
    /\ \A v, w \in Workers : v # w => share[v] \cap share[w] = {}

AllOk == \A p \in Processes : exit[p].status = "ok"
Copied(b) == \E w \in Workers : \E i \in share[w] : list[w][i].name = b /\ task[w][i] = "ok"
Wanted == IF Listing = "list" THEN {b \in Matching \ changed : There(b)}
          ELSE {setup.rows[i].entry.name :
                  i \in {k \in DOMAIN setup.rows : setup.rows[k].kind = "entry"}} \cap Matching

(* If every process says that all went well, and what changed meanwhile did *)
(* not make their lists differ, then every blob that was there all the time *)
(* has been copied.                                                         *)
SuccessIsComplete ==
  AllOk /\ SameLists /\ (\A w \in Workers : ~OneBlob(w)) => \A b \in Wanted : Copied(b)

(* The numbers that the processes report then add up to the list.           *)
ReportsAddUp ==
  AllOk /\ SameLists /\ (\A w \in Workers : ~OneBlob(w)) =>
    \A w \in Workers :
      Cardinality(Kept(list[w])) = FX!MapThenSumSet(LAMBDA p : exit[p].succeeded, Processes)

(* Workers that copy one blob write the same file, each at the length its   *)
(* own HEAD has seen, and each begins by emptying it.  If all end well, the *)
(* file is the blob all the same, byte for byte, provided that the blob     *)
(* stayed as all of them had seen it, or that each checked the digest of    *)
(* the file in the end.                                                     *)
Steady == \A w \in Workers : seen[w] = version
Checked == \A w \in Workers : Large(w) /\ Checks(w)

SingleBlobWhole ==
  AllOk /\ (\A w \in Workers : OneBlob(w)) /\ (Steady \/ Checked) =>
    \E w \in Workers : local = Content(seen[w])

(* Every process ends: the limiter lets every task go in the end, also one  *)
(* whose request is larger than the bucket, and tasks that are cancelled    *)
(* while they wait for it leave nothing behind that others wait for.        *)
CopyEnds == <>(\A p \in Processes : exit[p].status # "running")
==============================================================================
