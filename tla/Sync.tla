--------------------------------- MODULE Sync ---------------------------------
(***************************************************************************)
(* azcp sync (src/cli/sync_cmd.rs), in either direction: runs, one after   *)
(* another, over a source that its owner changes at any time, also while a *)
(* run is under way.                                                       *)
(*                                                                         *)
(* A run lists the source and then the destination, decides per file what  *)
(* to send, sends it (upload_entries or download_entries, of which a run   *)
(* sees when each file is read, when it is written and what a failure      *)
(* leaves), deletes extras, and reports.  Time is counted in ticks, of     *)
(* which a second has several; a file's modification time is exact, a      *)
(* blob's Last-Modified is in whole seconds.                               *)
(***************************************************************************)
EXTENDS Integers, FiniteSets

CONSTANTS
  Files,          \* relative names
  Large,          \* files of a block or more: their blobs have no Content-MD5
  Directions,     \* "up", from local files to blobs, or "down"
  Methods,        \* values of --compare-method to choose from
  Second,         \* ticks in a second
  MaxVersion, MaxTime, MaxRuns, MaxFaults, MaxChanges   \* bounds

ASSUME SyncAssumption ==
  /\ Large \subseteq Files
  /\ Directions \subseteq {"up", "down"}
  /\ Methods \subseteq {"size", "size-and-mtime", "md5", "always"}
  /\ Second \in Nat \ {0}

VARIABLES
  direction,
  refused,        \* blobs that may not be overwritten (they have a lease)
  src, dst,       \* the file or blob under each name, on both sides
  version,        \* the latest version of each file that its owner has made
  clock, changes, \* ticks, and changes the owner has made
  pc,             \* where the run is; "idle" between runs
  args,           \* its --compare-method and --delete-destination
  seen_src, seen_dst,    \* the listings
  todo,           \* files to send that have not been read
  reading,        \* what was read of those that are being sent
  extras,         \* files to delete
  failed,         \* files that failed
  result,         \* of the last run
  runs, faults,
  stable,         \* the source has not changed since the run listed it
  missing,        \* files the source has been without since then
  synced          \* the method of the last run, if it was ok and the source has not changed

envVars == <<direction, refused, version, clock, changes>>
listVars == <<seen_src, seen_dst>>
runVars == <<pc, args, listVars, todo, reading, extras, failed, result, runs>>
historyVars == <<stable, missing, synced>>
vars == <<envVars, src, dst, runVars, faults, historyVars>>

Nothing == [ver |-> -1, len |-> 0, time |-> 0, md5 |-> FALSE]
NothingThere == [f \in Files |-> Nothing]
Exists(r) == r.ver >= 0
Holes == 0                              \* the content of a file that was not filled
Item(f, v, t) == [ver |-> v, len |-> 1, time |-> t, md5 |-> f \notin Large]

Up == direction = "up"
Seconds(t) == t \div Second

Init ==
  /\ direction \in Directions
  /\ version = [f \in Files |-> 1]
  /\ src = [f \in Files |-> Item(f, 1, 0)]
  /\ \E there \in SUBSET Files :
       /\ dst = [f \in Files |-> IF f \in there THEN Item(f, Holes, 0) ELSE Nothing]
       /\ refused \in IF Up THEN SUBSET there ELSE {{}}
  /\ clock = 0 /\ changes = 0
  /\ pc = "idle" /\ args = [method |-> "always", delete |-> FALSE]
  /\ seen_src = NothingThere /\ seen_dst = NothingThere
  /\ todo = {} /\ reading = NothingThere /\ extras = {} /\ failed = {}
  /\ result = "none" /\ runs = 0 /\ faults = 0
  /\ stable = FALSE /\ missing = {} /\ synced = "none"

Fault == faults < MaxFaults /\ faults' = faults + 1

------------------------------------------------------------------------------
(* The owner of the source, and time.                                       *)
Changed ==
  /\ changes < MaxChanges /\ changes' = changes + 1
  /\ stable' = FALSE /\ synced' = "none"
  /\ UNCHANGED <<direction, refused, dst, clock, runVars, faults>>

Edit(f) ==
  /\ version[f] < MaxVersion
  /\ version' = [version EXCEPT ![f] = @ + 1]
  /\ src' = [src EXCEPT ![f] = Item(f, version[f] + 1, clock)]
  /\ Changed /\ UNCHANGED missing

Remove(f) ==
  /\ Exists(src[f])
  /\ src' = [src EXCEPT ![f] = Nothing]
  /\ missing' = missing \cup {f}
  /\ Changed /\ UNCHANGED version

Tick ==
  /\ clock < MaxTime /\ clock' = clock + 1
  /\ UNCHANGED <<direction, refused, version, changes, src, dst, runVars, faults,
                 historyVars>>

------------------------------------------------------------------------------
Start ==
  /\ pc = "idle" /\ runs < MaxRuns
  /\ runs' = runs + 1
  /\ args' \in [method : Methods, delete : BOOLEAN]
  /\ pc' = "list"
  /\ result' = "none"
  /\ UNCHANGED <<envVars, src, dst, listVars, todo, reading, extras, failed,
                 faults, historyVars>>

Missing(side) == {f \in Files : ~Exists(side[f])}

ListSource ==
  /\ pc = "list" /\ pc' = "list_dest"
  /\ seen_src' = src
  /\ stable' = TRUE /\ missing' = Missing(src)
  /\ UNCHANGED <<envVars, src, dst, args, seen_dst, todo, reading, extras, failed,
                 result, runs, faults, synced>>

ListDest ==
  /\ pc = "list_dest" /\ pc' = "diff"
  /\ seen_dst' = dst
  /\ UNCHANGED <<envVars, src, dst, args, seen_src, todo, reading, extras, failed,
                 result, runs, faults, historyVars>>

EndRun(r) ==
  /\ pc' = "idle" /\ result' = r
  /\ seen_src' = NothingThere /\ seen_dst' = NothingThere
  /\ todo' = {} /\ reading' = NothingThere /\ extras' = {} /\ failed' = {}

Aborts ==
  /\ EndRun("error")
  /\ synced' = "none"
  /\ UNCHANGED <<envVars, src, args, runs, stable, missing>>

Transferred == pc = "transfer" /\ todo = {} /\ \A f \in Files : ~Exists(reading[f])

(* An upload with --delete-destination walks the source twice.              *)
ListFails ==
  /\ pc \in {"list", "list_dest"} \/ (Transferred /\ Up /\ args.delete)
  /\ Fault
  /\ Aborts /\ UNCHANGED dst

------------------------------------------------------------------------------
(* md5_preflight, and its like for downloads: every blob that counts must   *)
(* have a Content-MD5.                                                      *)
BlobOf(f) == IF Up THEN seen_dst[f] ELSE seen_src[f]
PreflightFails ==
  \E f \in Files :
    LET blob == BlobOf(f)
    IN Exists(seen_src[f]) /\ Exists(blob) /\ blob.len > 0 /\ ~blob.md5

ExactTimes(f) ==                        \* a mutation of Newer
  IF Up THEN seen_src[f].time > Seconds(seen_dst[f].time) * Second
  ELSE Seconds(seen_src[f].time) * Second > seen_dst[f].time
Newer(f) ==
  IF Up THEN Seconds(seen_src[f].time) > Seconds(seen_dst[f].time)
  ELSE Seconds(seen_src[f].time) * Second > seen_dst[f].time

(* The content of the local file is read when files are compared.           *)
SameSizeSameFile(f) == TRUE             \* a mutation of SameContent
SameContent(f) ==
  IF Up THEN src[f].ver = seen_dst[f].ver ELSE dst[f].ver = seen_src[f].ver

NeedsTransfer(f) ==
  \/ ~Exists(seen_dst[f])
  \/ args.method = "always"
  \/ seen_src[f].len # seen_dst[f].len
  \/ args.method = "size-and-mtime" /\ Newer(f)
  \/ args.method = "md5" /\ (~BlobOf(f).md5 \/ ~SameContent(f))

Judged == {f \in Files : Exists(seen_src[f])}
Unreadable == {f \in Judged : Up /\ Exists(seen_dst[f]) /\ ~Exists(src[f])
                              /\ seen_src[f].len = seen_dst[f].len}

Diff ==
  /\ pc = "diff"
  /\ args.method = "md5" => ~PreflightFails /\ Unreadable = {}
  /\ pc' = "transfer"
  /\ todo' = {f \in Judged : NeedsTransfer(f)}
  /\ UNCHANGED <<envVars, src, dst, args, listVars, reading, extras, failed, result,
                 runs, faults, historyVars>>

DiffFails ==
  /\ pc = "diff"
  /\ args.method = "md5"
  /\ IF PreflightFails \/ Unreadable # {} THEN UNCHANGED faults ELSE Fault
  /\ Aborts /\ UNCHANGED dst

------------------------------------------------------------------------------
(* The engine's part of a run.                                              *)
Read(f) ==
  /\ pc = "transfer" /\ f \in todo /\ Exists(src[f])
  /\ reading' = [reading EXCEPT ![f] = src[f]]
  /\ todo' = todo \ {f}
  /\ UNCHANGED <<envVars, src, dst, pc, args, listVars, extras, failed, result,
                 runs, faults, historyVars>>

Finish(f, item) ==
  /\ dst' = [dst EXCEPT ![f] = item]
  /\ reading' = [reading EXCEPT ![f] = Nothing]

Written(f) == [reading[f] EXCEPT !.time = clock]

Write(f) ==
  /\ pc = "transfer" /\ Exists(reading[f]) /\ f \notin refused
  /\ Finish(f, Written(f))
  /\ UNCHANGED <<envVars, src, pc, args, listVars, todo, extras, failed, result, runs,
                 faults, historyVars>>

CountFailed(f) == failed' = failed \cup {f}

(* The upload of a small file to such a blob counts as skipped.             *)
WriteRefused(f) ==
  /\ pc = "transfer" /\ Exists(reading[f]) /\ f \in refused
  /\ Finish(f, dst[f])
  /\ IF f \in Large THEN CountFailed(f) ELSE UNCHANGED failed
  /\ UNCHANGED <<envVars, src, pc, args, listVars, todo, extras, result, runs, faults,
                 historyVars>>

(* A failed upload leaves the blob as it was, or is only taken for failed;  *)
(* a failed download leaves the file as it was, or cut, or allocated, or    *)
(* complete, when only its digest is wrong.                                 *)
Cut(f) == [Item(f, Holes, clock) EXCEPT !.len = 0]
Allocated(f) == Item(f, Holes, clock)
Leftovers(f) ==
  {dst[f], Written(f)} \cup
    (IF Up THEN {} ELSE IF f \in Large THEN {Cut(f), Allocated(f)} ELSE {Cut(f)})

WriteFails(f) ==
  /\ pc = "transfer" /\ Exists(reading[f]) /\ f \notin refused
  /\ Fault /\ CountFailed(f)
  /\ \E item \in Leftovers(f) : Finish(f, item)
  /\ UNCHANGED <<envVars, src, pc, args, listVars, todo, extras, result, runs,
                 historyVars>>

(* The source has gone, and the file fails.                                 *)
Gone(f) ==
  /\ pc = "transfer" /\ f \in todo /\ ~Exists(src[f])
  /\ ~(Up /\ f \notin Large)
  /\ CountFailed(f)
  /\ todo' = todo \ {f}
  /\ \E item \in {dst[f]} \cup (IF ~Up /\ f \in Large THEN {Allocated(f)} ELSE {}) :
       dst' = [dst EXCEPT ![f] = item]
  /\ UNCHANGED <<envVars, src, pc, args, listVars, reading, extras, result, runs,
                 faults, historyVars>>

(* A small file that cannot be read ends the upload; the service may still  *)
(* handle what has been sent.                                               *)
ReadEndsUpload(f) ==
  /\ pc = "transfer" /\ f \in todo
  /\ Up /\ f \notin Large
  /\ IF Exists(src[f]) THEN Fault ELSE UNCHANGED faults
  /\ \E handled \in SUBSET {g \in Files \ refused : Exists(reading[g])} :
       dst' = [g \in Files |-> IF g \in handled THEN Written(g) ELSE dst[g]]
  /\ Aborts

------------------------------------------------------------------------------
(* For an upload the source is walked once more, for a download what was    *)
(* listed counts.                                                           *)
NotTransferred == {f \in Files : Exists(seen_dst[f]) /\ (Exists(src[f]) => f \in failed)}
Extras ==
  {f \in Files : Exists(seen_dst[f]) /\ ~Exists(IF Up THEN src[f] ELSE seen_src[f])}

EndTransfer ==
  /\ Transferred /\ pc' = "delete"
  /\ extras' = IF args.delete THEN Extras ELSE {}
  /\ UNCHANGED <<envVars, src, dst, args, listVars, todo, reading, failed, result,
                 runs, faults, historyVars>>

(* A deletion that fails, as that of a refused blob does, is only printed.  *)
Delete(f) ==
  /\ pc = "delete" /\ f \in extras
  /\ extras' = extras \ {f}
  /\ \/ f \notin refused /\ dst' = [dst EXCEPT ![f] = Nothing] /\ UNCHANGED faults
     \/ f \notin refused /\ Fault /\ UNCHANGED dst
     \/ f \in refused /\ UNCHANGED <<dst, faults>>
  /\ UNCHANGED <<envVars, src, pc, args, listVars, todo, reading, failed, result,
                 runs, historyVars>>

Summary == IF failed = {} THEN "ok" ELSE "failed"

End ==
  /\ pc = "delete" /\ extras = {}
  /\ EndRun(Summary)
  /\ synced' = IF Summary = "ok" /\ stable THEN args.method ELSE "none"
  /\ UNCHANGED <<envVars, src, dst, args, runs, faults, stable, missing>>

Terminated == pc = "idle" /\ runs = MaxRuns /\ UNCHANGED vars

Next ==
  \/ Tick \/ Start \/ ListSource \/ ListDest \/ ListFails \/ Diff \/ DiffFails
  \/ EndTransfer \/ End \/ Terminated
  \/ \E f \in Files :
       \/ Edit(f) \/ Remove(f)
       \/ Read(f) \/ Write(f) \/ WriteRefused(f) \/ WriteFails(f)
       \/ Gone(f) \/ ReadEndsUpload(f) \/ Delete(f)

Spec == Init /\ [][Next]_vars

------------------------------------------------------------------------------
(* Properties.                                                              *)

(* What a run promises that ended well and during which the source did not  *)
(* change: with --compare-method md5 or always, every file of the source is *)
(* at the destination in its present version, whatever earlier runs have    *)
(* left there, and with the others one of its length.  Blobs that may not   *)
(* be overwritten are excepted: they are skipped in silence.                *)
InSyncAfterRun ==
  (result = "ok" /\ stable /\ pc = "idle") =>
    \A f \in Files \ refused : Exists(src[f]) =>
      /\ Exists(dst[f]) /\ dst[f].len = src[f].len
      /\ args.method \in {"md5", "always"} => dst[f].ver = src[f].ver

(* --delete-destination removes a file only if the source has been without  *)
(* it at a time since the run listed the source; never because it was not   *)
(* sent or failed.                                                          *)
DeletesOnlyExtras ==
  [][\A f \in Files :
       (Exists(dst[f]) /\ ~Exists(dst'[f])) => args.delete /\ f \in missing]_vars

(* After a run that ended well, a run with the same method over the same    *)
(* source has nothing to send, even within the same second, except to blobs *)
(* that may not be overwritten.                                             *)
RerunIsNoop ==
  [][(pc = "diff" /\ pc' = "transfer" /\ synced = args.method /\ args.method # "always")
       => todo' \subseteq refused]_vars
==============================================================================
