------------------------------ MODULE ClusterRun ------------------------------
(***************************************************************************)
(* Runs of azcp-cluster, one after another over the same local disks       *)
(* (crates/azcp-cluster/src/main.rs and the stages it calls).              *)
(*                                                                         *)
(* Every rank is a process of its own: it learns the list from rank 0,     *)
(* drops from it what cannot be a file, tells the others which files it    *)
(* has, creates the files it lacks at full length, downloads its shards,   *)
(* meets the others at a barrier, takes part in the broadcast and, with    *)
(* --verify, compares digests; rank 0 then saves the list.  A rank whose   *)
(* stage fails aborts the job; ranks that have not ended yet are killed,   *)
(* at some time later.  What is left on the disks, and the saved list, is  *)
(* what the next run starts from.                                          *)
(*                                                                         *)
(* A file is a few shards, and the content of a shard is the version of    *)
(* the blob it was downloaded from, or Hole.  All versions of a blob have  *)
(* the same length, so that a file has the right length as soon as it is   *)
(* created.  The broadcast stage is reduced to what Broadcast shows it     *)
(* does: a shard arrives from its owner, in any order.                     *)
(***************************************************************************)
EXTENDS Integers, FiniteSets, Sequences

CONSTANTS
  NumRanks,
  Files,          \* the blobs below the source; a name is the sequence of its parts
  Commented,      \* those whose full name begins with '#'
  NumShards,      \* the number of shards of each file
  Owner,          \* compute_shards: the owner of each shard, given the files to download
  Leftovers,      \* those that earlier runs may have left on the disks
  DownloadRanks,  \* --download-ranks
  Modes,          \* the values --compare takes in a behaviour
  MaxRuns,        \* bound: runs in a behaviour
  MaxFaults,      \* bound: failing stages in a behaviour
  LastVersion     \* bound: the last version of each blob

Ranks == 0 .. NumRanks - 1
Downloaders == 0 .. DownloadRanks - 1
Shards == UNION {{f} \X (1 .. NumShards[f]) : f \in Files}

ASSUME ClusterRunAssumption ==
  /\ NumRanks \in Nat \ {0}
  /\ Files \subseteq Seq(STRING) /\ Commented \subseteq Files /\ Leftovers \subseteq Files
  /\ NumShards \in [Files -> Nat \ {0}]
  /\ DownloadRanks \in 1 .. NumRanks
  /\ Owner \in [SUBSET Files -> [Shards -> Downloaders]]
  /\ Modes \subseteq {"none", "size", "filelist"}
  /\ MaxRuns \in Nat /\ MaxFaults \in Nat
  /\ LastVersion \in [Files -> Nat \ {0}]

(* What ranks keep of the text rank 0 sends: a line that begins with '#' is *)
(* read as a comment; a name that is empty or ends with '/' is a marker;    *)
(* and a blob that others are named below is a directory.                   *)
Parents(f) == {SubSeq(f, 1, i) : i \in 1 .. Len(f) - 1}
IsDirectoryMarker(f) == f = <<>> \/ f[Len(f)] = ""
NoneDropped(names) == names          \* a mutation of DropImplicitDirectories
DropImplicitDirectories(names) == names \ UNION {Parents(f) : f \in names}
Entries == DropImplicitDirectories({f \in Files \ Commented : ~IsDirectoryMarker(f)})

Hole == 0
NoFile == <<>>
Versions == UNION {1 .. LastVersion[f] : f \in Files}
Content(f) == [1 .. NumShards[f] -> {Hole} \cup Versions]
Filled(f, v) == [i \in 1 .. NumShards[f] |-> v]

VARIABLES
  blob,         \* the version of each blob in the container
  local,        \* the local file of each rank, or NoFile
  saved,        \* the list --save-filelist left behind: a version per listed file
  runs,         \* runs begun so far
  mode,         \* --compare of this run
  verify,       \* --verify of this run
  pc,           \* the stage each rank is in
  entries,      \* the list of this run
  row,          \* presence: the files each rank said it has
  creates,      \* the files a rank has yet to create
  downloads,    \* the shards a rank has yet to download
  dl_failed,    \* has a download of the rank failed?
  receives,     \* the shards a rank has yet to receive
  dead,         \* the ranks that failed or were killed
  aborted,      \* has a rank called MPI_Abort, or died?
  faults        \* number of failures so far

diskVars == <<local, saved>>
argVars == <<runs, mode, verify>>
workVars == <<creates, downloads, dl_failed, receives>>
faultVars == <<dead, aborted, faults>>
vars == <<blob, diskVars, argVars, pc, entries, row, workVars, faultVars>>

(* The stages in the order main.rs runs them; a rank that dies has still    *)
(* reached the stage it was in, and sent what it sent.                      *)
Stages == <<"list", "presence", "gather", "create", "download", "reduce", "barrier",
            "bcast", "digest", "compare", "save", "exit">>
Reached(r, stage) ==
  \E i, j \in DOMAIN Stages : Stages[i] = stage /\ Stages[j] = pc[r] /\ i <= j
Ended(r) == pc[r] = "exit" \/ r \in dead
Advance(r, stage) == pc' = [pc EXCEPT ![r] = stage]

Init ==
  /\ blob = [f \in Files |-> 1]
  /\ local \in [Ranks -> [Files -> {NoFile} \cup {Filled(f, 1) : f \in Files}]]
  /\ \A r \in Ranks, f \in Files : local[r][f] \in {NoFile, Filled(f, 1)}
  /\ \A r \in Ranks : LET there == {f \in Files : local[r][f] # NoFile}
                     IN there \subseteq Leftovers /\ DropImplicitDirectories(there) = there
  /\ saved = NoFile
  /\ runs = 1
  /\ mode \in Modes \ {"filelist"} /\ verify \in BOOLEAN
  /\ pc = [r \in Ranks |-> "list"]
  /\ entries = [f \in Files |-> Hole]
  /\ row = [r \in Ranks |-> {}]
  /\ creates = [r \in Ranks |-> {}]
  /\ downloads = [r \in Ranks |-> {}]
  /\ dl_failed = [r \in Ranks |-> FALSE]
  /\ receives = [r \in Ranks |-> {}]
  /\ dead = {}
  /\ aborted = FALSE
  /\ faults = 0

------------------------------------------------------------------------------
(* list: rank 0 lists the container and broadcasts the list.                *)
List(r) ==
  /\ pc[r] = "list"
  /\ IF r = 0 THEN entries' = [f \in Files |-> IF f \in Entries THEN blob[f] ELSE Hole]
              ELSE pc[0] # "list" /\ UNCHANGED entries
  /\ Advance(r, "presence")
  /\ UNCHANGED <<blob, diskVars, argVars, row, workVars, faultVars>>

(* presence: build_predicate and size_matches.                              *)
SizeMatches(r, f) == local[r][f] # NoFile
Present(r, f) ==
  CASE mode = "none" -> FALSE
    [] mode = "size" -> SizeMatches(r, f)
    [] mode = "filelist" -> saved[f] = entries[f] /\ SizeMatches(r, f)

Presence(r) ==
  /\ pc[r] = "presence"
  /\ row' = [row EXCEPT ![r] = {f \in Entries : Present(r, f)}]
  /\ Advance(r, "gather")
  /\ UNCHANGED <<blob, diskVars, argVars, entries, workVars, faultVars>>

(* classify, and the owner of each shard of the plan.                       *)
Havers(f) == {r \in Ranks : f \in row[r]}
NeedsDownload == {f \in Entries : Havers(f) = {}}
PlanFiles == {f \in Entries : Havers(f) # Ranks}
FirstHaver(f) == CHOOSE r \in Havers(f) : \A q \in Havers(f) : r <= q
ShardOwner(s) ==
  IF s[1] \in NeedsDownload THEN Owner[NeedsDownload][s] ELSE FirstHaver(s[1])
PlanShards == {s \in Shards : s[1] \in PlanFiles}

CreateWholePlan(r) == PlanFiles                 \* a mutation of FilesToCreate
FilesToCreate(r) == PlanFiles \ row[r]
MyRanges(r) == {s \in PlanShards : s[1] \in NeedsDownload /\ ShardOwner(s) = r}
ArrivingToNonOwners(r) ==                       \* a mutation of Arriving
  {s \in PlanShards : s[1] \notin row[r] /\ \A t \in PlanShards : t[1] = s[1] => ShardOwner(t) # r}
Arriving(r) == {s \in PlanShards : s[1] \notin row[r] /\ ShardOwner(s) # r}

(* The allgather of the rows, which every rank waits for, and the plan each *)
(* rank computes from them.                                                 *)
Gather(r) ==
  /\ pc[r] = "gather" /\ \A q \in Ranks : Reached(q, "gather")
  /\ creates' = [creates EXCEPT ![r] = FilesToCreate(r)]
  /\ downloads' = [downloads EXCEPT ![r] = MyRanges(r)]
  /\ receives' = [receives EXCEPT ![r] = Arriving(r)]
  /\ Advance(r, "create")
  /\ UNCHANGED <<blob, diskVars, argVars, entries, row, dl_failed, faultVars>>

(* A rank that fails ends, and MPI_Abort ends the others.                   *)
ReturnOnly(r) == dead' = dead \cup {r} /\ UNCHANGED <<pc, aborted>>  \* a mutation of Abort
Abort(r) == dead' = dead \cup {r} /\ aborted' = TRUE /\ UNCHANGED pc

(* create_dir_all, File::create and set_len, for one file the rank lacks;   *)
(* where a directory is, no file can be created, and the other way round.   *)
InTheWay(r, f) == \E g \in Files : local[r][g] # NoFile /\ (f \in Parents(g) \/ g \in Parents(f))

CreateFile(r, f) ==
  /\ pc[r] = "create" /\ f \in creates[r] /\ ~InTheWay(r, f)
  /\ local' = [local EXCEPT ![r][f] = Filled(f, Hole)]
  /\ creates' = [creates EXCEPT ![r] = @ \ {f}]
  /\ UNCHANGED <<blob, saved, argVars, pc, entries, row, downloads, dl_failed, receives,
                 faultVars>>

CreateFails(r, f) ==
  /\ pc[r] = "create" /\ f \in creates[r] /\ InTheWay(r, f)
  /\ Abort(r)
  /\ UNCHANGED <<blob, diskVars, argVars, entries, row, workVars, faults>>

EndCreate(r) ==
  /\ pc[r] = "create" /\ creates[r] = {}
  /\ Advance(r, "download")
  /\ UNCHANGED <<blob, diskVars, argVars, entries, row, workVars, faultVars>>

(* download: one shard arrives from the container as it is now, or fails;   *)
(* the others go on.                                                        *)
DownloadShard(r, s) ==
  /\ pc[r] = "download" /\ s \in downloads[r]
  /\ downloads' = [downloads EXCEPT ![r] = @ \ {s}]
  /\ \/ /\ local' = [local EXCEPT ![r][s[1]][s[2]] = blob[s[1]]]
        /\ UNCHANGED <<dl_failed, faults>>
     \/ /\ faults < MaxFaults /\ faults' = faults + 1
        /\ dl_failed' = [dl_failed EXCEPT ![r] = TRUE]
        /\ UNCHANGED local
  /\ UNCHANGED <<blob, saved, argVars, pc, entries, row, creates, receives, dead, aborted>>

EndDownload(r) ==
  /\ pc[r] = "download" /\ downloads[r] = {}
  /\ IF dl_failed[r] THEN Abort(r)
                     ELSE Advance(r, "reduce") /\ UNCHANGED <<dead, aborted>>
  /\ UNCHANGED <<blob, diskVars, argVars, entries, row, workVars, faults>>

(* print_cluster_retry_summary: only the root of the MPI_Reduce waits.      *)
Reduce(r) ==
  /\ pc[r] = "reduce"
  /\ r = 0 => \A q \in Ranks : Reached(q, "reduce")
  /\ Advance(r, "barrier")
  /\ UNCHANGED <<blob, diskVars, argVars, entries, row, workVars, faultVars>>

NoBarrier == TRUE                               \* a mutation of BarrierOpen
BarrierOpen == \A q \in Ranks : Reached(q, "barrier")

Barrier(r) ==
  /\ pc[r] = "barrier" /\ BarrierOpen
  /\ Advance(r, "bcast")
  /\ UNCHANGED <<blob, diskVars, argVars, entries, row, workVars, faultVars>>

(* broadcast: a shard arrives from its owner.                               *)
Receive(r, s) ==
  /\ pc[r] = "bcast" /\ s \in receives[r] /\ Reached(ShardOwner(s), "bcast")
  /\ local' = [local EXCEPT ![r][s[1]][s[2]] = local[ShardOwner(s)][s[1]][s[2]]]
  /\ receives' = [receives EXCEPT ![r] = @ \ {s}]
  /\ UNCHANGED <<blob, saved, argVars, pc, entries, row, creates, downloads, dl_failed,
                 faultVars>>

EndBcast(r) ==
  /\ pc[r] = "bcast" /\ receives[r] = {}
  /\ Advance(r, IF verify THEN "digest" ELSE "save")
  /\ UNCHANGED <<blob, diskVars, argVars, entries, row, workVars, faultVars>>

(* verify: every rank reads its files and contributes the digests ...       *)
Digest(r) ==
  /\ pc[r] = "digest"
  /\ Advance(r, "compare")
  /\ UNCHANGED <<blob, diskVars, argVars, entries, row, workVars, faultVars>>

(* ... and rank 0, once it has them all, compares.  The list has lost the   *)
(* blobs' Content-MD5 on its way through filelist, so that ranks are        *)
(* compared only with one another.                                          *)
OnlyPlanFiles == \E q \in Ranks, f \in PlanFiles : local[q][f] # local[0][f]
Diverged == \E q \in Ranks, f \in Entries : local[q][f] # local[0][f]

Compare(r) ==
  /\ pc[r] = "compare" /\ \A q \in Ranks : Reached(q, "compare")
  /\ IF r = 0 /\ Diverged THEN Abort(r)
                          ELSE Advance(r, "save") /\ UNCHANGED <<dead, aborted>>
  /\ UNCHANGED <<blob, diskVars, argVars, entries, row, workVars, faults>>

(* --save-filelist, on rank 0; a failed write is only warned of and leaves  *)
(* the first part of the list.                                              *)
Save(r) ==
  /\ pc[r] = "save"
  /\ \/ /\ saved' = IF r = 0 THEN entries ELSE saved
        /\ UNCHANGED faults
     \/ /\ r = 0 /\ faults < MaxFaults /\ faults' = faults + 1
        /\ \E part \in SUBSET Entries :
             saved' = [f \in Files |-> IF f \in part THEN entries[f] ELSE Hole]
  /\ Advance(r, "exit")
  /\ UNCHANGED <<blob, local, argVars, entries, row, workVars, dead, aborted>>

(* Any stage of a rank fails, or its node does.                             *)
StageFails(r) ==
  /\ ~Ended(r) /\ faults < MaxFaults
  /\ faults' = faults + 1
  /\ Abort(r)
  /\ UNCHANGED <<blob, diskVars, argVars, entries, row, workVars>>

Killed(r) ==
  /\ aborted /\ ~Ended(r)
  /\ dead' = dead \cup {r}
  /\ UNCHANGED <<blob, diskVars, argVars, pc, entries, row, workVars, aborted, faults>>

------------------------------------------------------------------------------
(* The container and the operator.                                          *)

Replaced(f) ==
  /\ blob[f] < LastVersion[f]
  /\ blob' = [blob EXCEPT ![f] = @ + 1]
  /\ UNCHANGED <<diskVars, argVars, pc, entries, row, workVars, faultVars>>

RunOver == \A r \in Ranks : Ended(r)

NextRun ==
  /\ RunOver /\ runs < MaxRuns
  /\ runs' = runs + 1
  /\ mode' \in (IF saved = NoFile THEN Modes \ {"filelist"} ELSE Modes)
  /\ verify' \in BOOLEAN
  /\ pc' = [r \in Ranks |-> "list"]
  /\ entries' = [f \in Files |-> Hole]
  /\ row' = [r \in Ranks |-> {}]
  /\ creates' = [r \in Ranks |-> {}]
  /\ downloads' = [r \in Ranks |-> {}]
  /\ dl_failed' = [r \in Ranks |-> FALSE]
  /\ receives' = [r \in Ranks |-> {}]
  /\ dead' = {} /\ aborted' = FALSE
  /\ UNCHANGED <<blob, diskVars, faults>>

Terminated == RunOver /\ runs = MaxRuns /\ UNCHANGED vars

RankStep(r) ==
  /\ ~Ended(r)
  /\ \/ List(r) \/ Presence(r) \/ Gather(r) \/ EndCreate(r) \/ EndDownload(r)
     \/ Reduce(r) \/ Barrier(r) \/ EndBcast(r) \/ Digest(r) \/ Compare(r) \/ Save(r)
     \/ \E f \in Files : CreateFile(r, f) \/ CreateFails(r, f)
     \/ \E s \in Shards : DownloadShard(r, s) \/ Receive(r, s)

Next ==
  \/ \E r \in Ranks : RankStep(r) \/ StageFails(r) \/ Killed(r)
  \/ \E f \in Files : Replaced(f)
  \/ NextRun
  \/ Terminated

(* Ranks are scheduled, a collective all have entered completes, and the    *)
(* launcher kills the ranks of an aborted job.                              *)
Fairness == \A r \in Ranks : WF_vars(RankStep(r)) /\ WF_vars(Killed(r))

Spec == Init /\ [][Next]_vars /\ Fairness

------------------------------------------------------------------------------
(* Properties.                                                              *)

TypeOK ==
  /\ blob \in [Files -> Versions]
  /\ DOMAIN local = Ranks
  /\ \A r \in Ranks : DOMAIN local[r] = Files
  /\ \A r \in Ranks, f \in Files : local[r][f] \in {NoFile} \cup Content(f)
  /\ saved \in {NoFile} \cup [Files -> {Hole} \cup Versions]
  /\ runs \in 1 .. MaxRuns + 1 /\ mode \in Modes /\ verify \in BOOLEAN
  /\ pc \in [Ranks -> {Stages[i] : i \in DOMAIN Stages}]
  /\ entries \in [Files -> {Hole} \cup Versions]
  /\ row \in [Ranks -> SUBSET Files] /\ creates \in [Ranks -> SUBSET Files]
  /\ downloads \in [Ranks -> SUBSET Shards] /\ receives \in [Ranks -> SUBSET Shards]
  /\ dl_failed \in [Ranks -> BOOLEAN]
  /\ dead \subseteq Ranks /\ aborted \in BOOLEAN /\ faults \in 0 .. MaxFaults

(* No rank is in the broadcast stage, or past it, while another still has a *)
(* shard to download or failed to download one.                             *)
DownloadsPrecedeBroadcast ==
  (\E q \in Ranks : Reached(q, "bcast")) =>
    \A r \in Ranks : downloads[r] = {} /\ ~dl_failed[r]

Success == \A r \in Ranks : pc[r] = "exit"

(* Downloaded on every rank: at least as new as listed, the same everywhere.*)
Fresh(f) ==
  \A r \in Ranks : /\ local[r][f] # NoFile /\ local[r][f] = local[0][f]
                   /\ \A i \in 1 .. NumShards[f] : local[r][f][i] >= entries[f]

(* After a successful run, whatever earlier runs left on the disks, a file  *)
(* no rank had is fresh on all of them, and one that some rank had is on    *)
(* the others as its broadcaster has it.                                    *)
TransfersComplete ==
  Success => \A f \in PlanFiles :
    IF f \in NeedsDownload THEN Fresh(f)
    ELSE \A r \in Ranks \ Havers(f) : local[r][f] = local[FirstHaver(f)][f]

(* A run never changes a file on a rank that reported it present, even if   *)
(* the run fails or another rank lacks the file.                            *)
PresentFilesKept ==
  [][\A r \in Ranks, f \in Files :
       (f \in row[r] /\ runs' = runs) => local'[r][f] = local[r][f]]_vars

(* If no call fails and the disks hold nothing but listed files, a run ends *)
(* well on every rank, whatever the names of the blobs, and although blobs  *)
(* are replaced meanwhile: no file is in the way of another, and --verify   *)
(* finds no difference.                                                     *)
NoSpuriousAbort ==
  (faults = 0 /\ \A r \in Ranks, f \in Files \ Entries : local[r][f] = NoFile) =>
    ~aborted /\ dead = {}

(* Once rank 0 has ended a verified run, and saved its list, all ranks hold *)
(* the same files, fresh where they were downloaded: whatever happens to    *)
(* the other ranks after that.                                              *)
VerifiedListShared ==
  (pc[0] = "exit" /\ verify) =>
    \A f \in Entries : /\ \A r \in Ranks : local[r][f] = local[0][f]
                       /\ f \in NeedsDownload => Fresh(f)

(* Every run ends on every rank, successfully or not.                       *)
RunsEnd == ~RunOver ~> RunOver

(* What the docs say of a run.  After a successful run every node has a     *)
(* copy of every file (cli.rs, the about text).                             *)
EveryNodeHasACopy ==
  Success =>
    \A r \in Ranks, f \in Entries :
      local[r][f] # NoFile /\ \A i \in 1 .. NumShards[f] : local[r][f][i] # Hole

(* A verified run exits zero only if the files have the digests the blobs   *)
(* were listed with (docs/cluster.md, --verify).                            *)
VerifiedAgainstBlob ==
  (Success /\ verify) =>
    \A r \in Ranks, f \in Entries : local[r][f] = Filled(f, entries[f])
==============================================================================
