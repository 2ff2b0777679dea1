-------------------------------- MODULE Upload --------------------------------
(***************************************************************************)
(* Uploads of the transfer engine (src/engine/mod.rs): upload_entries, for *)
(* the files of a directory, and upload_file with upload_blocks, for one.  *)
(*                                                                         *)
(* A small file is one put_blob.  A larger one is a put_block per block,   *)
(* and when all have succeeded a put_block_list.  upload_entries takes a   *)
(* permit before it spawns the task of a block, which then reads it;       *)
(* upload_file has a producer that reads the blocks in order into a        *)
(* channel, and spawns a task for each block that waits for a permit.      *)
(*                                                                         *)
(* Caller <<f, i>> is the task of block i of file f; <<f, 0>> makes the    *)
(* put_blob or put_block_list.                                             *)
(***************************************************************************)
EXTENDS BlobClient

CONSTANTS
  NumBlocks,      \* blocks of each file; 0 for a file below the block size
  Options,        \* calls to make: which of the two, the files, overwriting or not
  concurrency,    \* --concurrency
  Earlier         \* what may be in the container before

ASSUME UploadAssumption ==
  /\ NumBlocks \in [Blobs -> Nat]
  /\ Callers = UNION {{f} \X (0 .. NumBlocks[f]) : f \in Blobs}
  /\ Options \subseteq [api : {"entries", "file"}, files : SUBSET Blobs, overwrite : BOOLEAN]
  /\ \A a \in Options : a.api = "file" => \E f \in Blobs : a.files = {f}
  /\ concurrency \in Nat \ {0}
  /\ \A e \in Earlier : /\ e.content \in [Blobs -> Seq(StoredBlocks)]
                        /\ e.staged \in [Blobs -> SUBSET StoredBlocks]
                        /\ e.refused \subseteq Blobs

VARIABLES
  args,           \* the call
  before,         \* what was in the container before
  main,           \* the calling task: "loop", then "returned" or "error"
  task,           \* where the upload of each file is
  permits         \* permits left in the semaphore

clientVars == <<serviceVars, call, net, faults>>
vars == <<clientVars, args, before, main, task, permits>>

Blocks(f) == 1 .. NumBlocks[f]
Small(f) == NumBlocks[f] = 0
Unit(f, id) == <<"new", id>>
NewBlock(f, id) == [id |-> id, unit |-> Unit(f, id)]
Whole(f) == IF Small(f) THEN <<NewBlock(f, 0)>> ELSE [i \in Blocks(f) |-> NewBlock(f, i)]
Other == <<[id |-> 0, unit |-> <<"other", 0>>]>>

FinalRequest(f) ==
  IF Small(f) THEN PutBlob(f, Unit(f, 0), args.overwrite)
  ELSE PutBlockList(f, [i \in Blocks(f) |-> i], args.overwrite)

State(f, i) == call[<<f, i>>].state

Init ==
  /\ args \in Options
  /\ \E e \in Earlier : /\ before = e.content /\ content = e.content
                       /\ staged = e.staged /\ refused = e.refused
  /\ call = [c \in Callers |-> [state |-> "none", attempt |-> 0]]
  /\ net = {} /\ faults = 0
  /\ main = "loop"
  /\ task = [f \in Blobs |-> "none"]
  /\ permits = concurrency

Waiting == {c \in Callers : call[c].state = "sent"}

SetTask(f, t) == task' = [task EXCEPT ![f] = t]
TakePermit == permits > 0 /\ permits' = permits - 1
ReleasePermit == permits' = permits + 1

------------------------------------------------------------------------------
(* upload_entries: its loop is busy with one file at a time, with reading a *)
(* small one or with spawning the blocks of a larger one.                   *)
Busy == \E f \in args.files : task[f] \in {"read", "blocks"}
MayStart(f) == main = "loop" /\ f \in args.files /\ task[f] = "none" /\ ~Busy
Entries == args.api = "entries"

StartSmall(f) ==
  /\ Entries /\ MayStart(f) /\ Small(f)
  /\ TakePermit
  /\ SetTask(f, "read")
  /\ UNCHANGED <<clientVars, args, before, main>>

ReadSmall(f) ==
  /\ Entries /\ task[f] = "read"
  /\ Send(<<f, 0>>, FinalRequest(f))
  /\ SetTask(f, "final")
  /\ UNCHANGED <<serviceVars, faults, args, before, main, permits>>

(* A small file that cannot be read ends the call at once.  The tasks of    *)
(* the files are cancelled with the JoinSet, those of the blocks go on.     *)
FinalCalls == {f \in Blobs : task[f] = "final" /\ State(f, 0) = "sent"}

ReadSmallFails(f) ==
  /\ Entries /\ task[f] = "read"
  /\ Fault
  /\ main' = "error"
  /\ task' = [g \in Blobs |->
       IF task[g] \in {"read", "wait", "permit", "final"} THEN "cancelled" ELSE task[g]]
  /\ call' = [c \in Callers |->
       IF \E g \in FinalCalls : c = <<g, 0>>
       THEN [call[c] EXCEPT !.state = "cancelled"] ELSE call[c]]
  /\ permits' = permits + 1 + Cardinality(FinalCalls)
  /\ UNCHANGED <<serviceVars, net, args, before>>

StartLarge(f) ==
  /\ MayStart(f) /\ ~Small(f)
  /\ SetTask(f, "blocks")
  /\ UNCHANGED <<clientVars, args, before, main, permits>>

Next1(f, state) ==   \* the first block of f in this state
  CHOOSE i \in Blocks(f) : State(f, i) = state /\ \A j \in 1 .. i - 1 : State(f, j) # state

SpawnBlock(f, i) ==
  /\ Entries /\ task[f] = "blocks" /\ State(f, i) = "none" /\ i = Next1(f, "none")
  /\ TakePermit
  /\ EndCall(<<f, i>>, "read")
  /\ IF i = NumBlocks[f] THEN SetTask(f, "wait") ELSE UNCHANGED task
  /\ UNCHANGED <<serviceVars, net, faults, args, before, main>>

ReadBlock(f, i) ==
  /\ Entries /\ State(f, i) = "read"
  /\ \/ Send(<<f, i>>, PutBlock(f, i, Unit(f, i))) /\ UNCHANGED <<faults, permits>>
     \/ Fault /\ EndCall(<<f, i>>, "error") /\ ReleasePermit /\ UNCHANGED net
  /\ UNCHANGED <<serviceVars, args, before, main, task>>

------------------------------------------------------------------------------
(* upload_file.                                                             *)
ReadFile(f) ==
  /\ ~Entries /\ MayStart(f) /\ Small(f)
  /\ \/ SetTask(f, "permit") /\ UNCHANGED <<main, faults>>
     \/ Fault /\ SetTask(f, "error") /\ main' = "error"
  /\ UNCHANGED <<serviceVars, call, net, args, before, permits>>

InChannel(f) == {i \in Blocks(f) : State(f, i) = "channel"}
Unread(f) == {i \in Blocks(f) : State(f, i) = "none"}
InHand(f) == {i \in Blocks(f) : State(f, i) = "hand"}

(* The producer reads the next block; when that fails it ends, and what it  *)
(* has not read stays unread.                                               *)
ProducerReads(f, i) ==
  /\ ~Entries /\ task[f] = "blocks" /\ InHand(f) = {}
  /\ i \in Unread(f) /\ i = Next1(f, "none")
  /\ \/ EndCall(<<f, i>>, "hand") /\ UNCHANGED <<task, faults>>
     \/ Fault /\ SetTask(f, "cut") /\ UNCHANGED call
  /\ UNCHANGED <<serviceVars, net, args, before, main, permits>>

ProducerSends(f, i) ==
  /\ ~Entries /\ State(f, i) = "hand" /\ Cardinality(InChannel(f)) < concurrency
  /\ EndCall(<<f, i>>, "channel")
  /\ UNCHANGED <<serviceVars, net, faults, args, before, main, task, permits>>

Receive(f, i) ==
  /\ ~Entries /\ State(f, i) = "channel" /\ i = Next1(f, "channel")
  /\ EndCall(<<f, i>>, "spawned")
  /\ UNCHANGED <<serviceVars, net, faults, args, before, main, task, permits>>

BlockPermit(f, i) ==
  /\ ~Entries /\ State(f, i) = "spawned"
  /\ TakePermit
  /\ Send(<<f, i>>, PutBlock(f, i, Unit(f, i)))
  /\ UNCHANGED <<serviceVars, faults, args, before, main, task>>

Handed(f) ==   \* the channel is closed and empty
  /\ task[f] \in {"blocks", "cut"} /\ InHand(f) = {} /\ InChannel(f) = {}
  /\ task[f] = "blocks" => Unread(f) = {}

(* The first failed task ends the call, and cancels the others.             *)
JoinFails(f) ==
  /\ ~Entries /\ main = "loop" /\ Handed(f)
  /\ \E i \in Blocks(f) : State(f, i) = "error"
  /\ main' = "error" /\ SetTask(f, "error")
  /\ call' = [c \in Callers |->
       IF call[c].state \in {"spawned", "sent"}
       THEN [call[c] EXCEPT !.state = "cancelled"] ELSE call[c]]
  /\ permits' = permits + Cardinality(Waiting)
  /\ UNCHANGED <<serviceVars, net, faults, args, before>>

JoinAll(f) ==
  /\ ~Entries /\ main = "loop" /\ Handed(f)
  /\ \A i \in Blocks(f) \ Unread(f) : State(f, i) = "ok"
  /\ IF task[f] = "cut" THEN SetTask(f, "error") /\ main' = "error"
                        ELSE SetTask(f, "permit") /\ UNCHANGED main
  /\ UNCHANGED <<clientVars, args, before, permits>>

------------------------------------------------------------------------------
(* Both.                                                                    *)
(* The task of a file in upload_entries: after the blocks, the digest, if   *)
(* one is wanted; reading the file for it may fail.                         *)
BlocksDone(f) == \A i \in Blocks(f) : State(f, i) \in Ended
FirstBlockOk(f) == State(f, 1) = "ok"    \* a mutation of BlocksOk
BlocksOk(f) == \A i \in Blocks(f) : State(f, i) = "ok"

AwaitBlocks(f) ==
  /\ Entries /\ task[f] = "wait" /\ BlocksDone(f)
  /\ \/ SetTask(f, IF BlocksOk(f) THEN "permit" ELSE "error") /\ UNCHANGED faults
     \/ BlocksOk(f) /\ Fault /\ SetTask(f, "error")
  /\ UNCHANGED <<serviceVars, call, net, args, before, main, permits>>

FinalPermit(f) ==
  /\ task[f] = "permit"
  /\ TakePermit
  /\ Send(<<f, 0>>, FinalRequest(f))
  /\ SetTask(f, "final")
  /\ UNCHANGED <<serviceVars, faults, args, before, main>>

EndFile(f) ==
  /\ task[f] = "final" /\ State(f, 0) \in Ended
  /\ SetTask(f, State(f, 0))
  /\ UNCHANGED <<clientVars, args, before, main, permits>>

FileEnded(f) == task[f] \in {"ok", "exists", "error"}

Return ==
  /\ main = "loop" /\ \A f \in args.files : FileEnded(f)
  /\ main' = "returned"
  /\ UNCHANGED <<clientVars, args, before, task, permits>>

(* The end of a call gives its permit back.                                 *)
KeptOnError ==                          \* a mutation of PermitFollowsCall
  permits' = permits + Cardinality({c \in Waiting : call'[c].state \in {"ok", "exists"}})
PermitFollowsCall ==
  permits' = permits + Cardinality({c \in Waiting : call'[c].state # "sent"})

ServiceHandles(m) ==
  /\ Handle(m) /\ PermitFollowsCall
  /\ UNCHANGED <<args, before, main, task>>

Fails(m) ==
  /\ AttemptFails(m) /\ PermitFollowsCall
  /\ UNCHANGED <<args, before, main, task>>

(* Another client writes a blob.                                            *)
OtherWrites(f) ==
  /\ f \notin refused /\ content[f] # Other
  /\ Fault
  /\ Write(f, Other)
  /\ UNCHANGED <<call, net, args, before, main, task, permits>>

Terminated == main \in {"returned", "error"} /\ UNCHANGED vars

MainStep ==
  \/ Return
  \/ \E f \in Blobs : \/ StartSmall(f) \/ ReadSmall(f) \/ StartLarge(f) \/ ReadFile(f)
                      \/ \E i \in Blocks(f) : SpawnBlock(f, i)
FileStep(f) ==
  \/ AwaitBlocks(f) \/ FinalPermit(f) \/ EndFile(f) \/ JoinFails(f) \/ JoinAll(f)
  \/ \E i \in Blocks(f) : ProducerReads(f, i) \/ ProducerSends(f, i) \/ Receive(f, i)
BlockStep(f, i) == ReadBlock(f, i) \/ BlockPermit(f, i)

Next ==
  \/ MainStep \/ Terminated
  \/ \E f \in Blobs :
       \/ ReadSmallFails(f) \/ FileStep(f) \/ OtherWrites(f)
       \/ \E i \in Blocks(f) : BlockStep(f, i)
  \/ \E m \in net : ServiceHandles(m) \/ Fails(m)

(* The runtime polls every task that can go on, its semaphore is fair, and  *)
(* every call that is waited for is answered or its connection breaks.      *)
Fairness ==
  /\ WF_vars(MainStep)
  /\ \A f \in Blobs : WF_vars(FileStep(f)) /\ \A i \in Blocks(f) : WF_vars(BlockStep(f, i))
  /\ WF_vars(\E m \in net : Live(m) /\ (ServiceHandles(m) \/ Fails(m)))

Spec == Init /\ [][Next]_vars /\ Fairness
------------------------------------------------------------------------------
(* Properties.                                                              *)

(* Each permit is in the semaphore or belongs to one running task, through  *)
(* failures, cancelled tasks and retries; so no more than concurrency       *)
(* requests are ever under way.                                             *)
PermitHolders ==
  Waiting \cup {c \in Callers : Entries /\ call[c].state = "read"}
PermitsConserved ==
  permits + Cardinality(PermitHolders)
    + Cardinality({f \in Blobs : Entries /\ task[f] = "read"}) = concurrency

(* Whoever reads a blob, at any time, finds what was there before, the new  *)
(* content as a whole, or what another client wrote: never a mixture, also  *)
(* when blocks failed, were left by an earlier run, or arrive late.         *)
BlobsWhole == \A f \in Blobs : content[f] \in {before[f], Whole(f), Other}

(* A file is counted as uploaded only if its blob has the new content, or   *)
(* what another client has written since.                                   *)
SucceededIsUploaded ==
  \A f \in Blobs : task[f] = "ok" => content[f] \in {Whole(f), Other}

(* With --no-overwrite no request of azcp, first attempt or a late one,     *)
(* changes a blob that exists, even if another client has just created it.  *)
ExistingKept ==
  [][\A f \in Blobs :
       (~args.overwrite /\ content[f] # Absent) => content'[f] \in {content[f], Other}]_vars

(* All three at once: for those who read the container, blocks, permits,    *)
(* attempts and late requests are one write of each blob, or none.          *)
Promise == INSTANCE Store WITH
  New <- [f \in Blobs |-> Whole(f)], Foreign <- Other,
  overwrite <- args.overwrite, uploaded <- {f \in Blobs : task[f] = "ok"}

ImplementsStore == Promise!Spec

(* What is_already_exists says of 409 and 412, blob exists and              *)
(* If-None-Match was sent, and what the options say: a file is counted as   *)
(* skipped only with --no-overwrite.                                        *)
SkipsOnlyWhenAsked == \A f \in Blobs : task[f] = "exists" => ~args.overwrite

(* The call ends: permits come back, also while the loop of upload_entries  *)
(* takes them for the blocks of one file and the tasks of earlier files     *)
(* wait for one.                                                            *)
UploadEnds == <>(main \in {"returned", "error"})
==============================================================================
