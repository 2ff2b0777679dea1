----------------------------- MODULE UploadProofs -----------------------------
(***************************************************************************)
(* Upload implements Store: for any files, block counts, options, earlier  *)
(* content, number of retries and failures, whoever reads the container    *)
(* finds a blob as it was, as a whole as it was to be written, or as       *)
(* someone else wrote it.                                                  *)
(*                                                                         *)
(* The argument is in what a commit may find.  Once a block is uploaded,   *)
(* the service has under its id nothing but the new block (Fresh), however *)
(* late an earlier attempt arrives and whatever a former run has left:     *)
(* only the whole blob may then be replaced, which takes the block away.   *)
(* A block list is sent when this holds of all blocks, and it still holds  *)
(* when the service handles the list, or handles it again.                 *)
(***************************************************************************)
EXTENDS Upload, FiniteSetTheorems, TLAPS

(* What caller c asks of the service, in every attempt.                     *)
ReqOf(c) ==
  IF c[2] = 0 THEN FinalRequest(c[1]) ELSE PutBlock(c[1], c[2], Unit(c[1], c[2]))

DataOK ==
  /\ content = [f \in Blobs |-> content[f]]
  /\ staged = [f \in Blobs |-> staged[f]]
TaskStates == {"none", "read", "blocks", "cut", "wait", "permit", "final",
               "ok", "exists", "error", "cancelled"}
CallStates == {"none", "read", "hand", "channel", "spawned", "sent"} \cup Ended

CallsOK == call \in [Callers -> [state : CallStates, attempt : Nat]]
ReadIsSmall == \A f \in Blobs : task[f] = "read" => Small(f)
TypesOK == DataOK /\ CallsOK /\ task \in [Blobs -> TaskStates] /\ args \in Options /\ ReadIsSmall

Messages == [from : Callers, req : {ReqOf(c) : c \in Callers}, attempt : Nat]
NetOK ==
  \A m \in net : /\ m \in Messages /\ m.req = ReqOf(m.from)
                 /\ call[m.from].state # "none"

(* Under the id of block i the service has the new block or nothing.        *)
FreshBlock(f, i) == Candidates(f, i) \subseteq {NewBlock(f, i)}

UploadedIsFresh ==
  \A f \in Blobs : \A i \in Blocks(f) : State(f, i) = "ok" => FreshBlock(f, i)

CommitIsFresh ==
  \A f \in Blobs : \A i \in Blocks(f) :
    (task[f] = "permit" \/ State(f, 0) # "none") => FreshBlock(f, i)

Written(f) == content[f] \in {Whole(f), Other}
EndedIsWritten ==
  \A f \in Blobs : (State(f, 0) = "ok" \/ task[f] = "ok") => Written(f)

UploadInv == TypesOK /\ NetOK /\ UploadedIsFresh /\ CommitIsFresh /\ EndedIsWritten

------------------------------------------------------------------------------
(* Callers.                                                                 *)
LEMMA CallersAre ==
  /\ \A f \in Blobs : NumBlocks[f] \in Nat /\ <<f, 0>> \in Callers
  /\ \A f \in Blobs : \A i \in Blocks(f) : i \in Nat /\ i # 0 /\ <<f, i>> \in Callers
  /\ \A c \in Callers : /\ c[1] \in Blobs /\ c = <<c[1], c[2]>>
                        /\ c[2] = 0 \/ c[2] \in Blocks(c[1])
  /\ \A f, g, i, j : <<f, i>> = <<g, j>> => f = g /\ i = j
BY UploadAssumption DEF Blocks

LEMMA SmallHasNoBlocks == \A f \in Blobs : Small(f) => Blocks(f) = {}
BY DEF Small, Blocks

------------------------------------------------------------------------------
(* What a step may do to a blob and its uncommitted blocks.                 *)
Replaced(f) == staged'[f] = {} /\ content'[f] \in {Whole(f), Other}
Staged(f) ==
  /\ content'[f] = content[f]
  /\ \E i \in Blocks(f) :
       staged'[f] = {s \in staged[f] : s.id # i} \cup {NewBlock(f, i)}
Kept(f) == content'[f] = content[f] /\ staged'[f] = staged[f]
ServiceStep == DataOK' /\ \A f \in Blobs : Kept(f) \/ Replaced(f) \/ Staged(f)

LEMMA FreshKept ==
  ASSUME ServiceStep, NEW f \in Blobs, NEW i \in Blocks(f), FreshBlock(f, i)
  PROVE  FreshBlock(f, i)'
<1>1. CASE Kept(f)
  BY <1>1 DEF Kept, FreshBlock, Candidates, StagedIds, Committed
<1>2. CASE Replaced(f)
  <2>1. Candidates(f, i)' = {s \in Committed(f)' : s.id = i}
    BY <1>2 DEF Replaced, Candidates, StagedIds
  <2>2. CASE content'[f] = Other
    <3>1. \A s \in Committed(f)' : s.id = 0
      BY <2>2 DEF Committed, Other
    <3> QED
      BY <2>1, <3>1, CallersAre DEF FreshBlock
  <2>3. CASE content'[f] = Whole(f)
    <3>1. Whole(f) = [j \in Blocks(f) |-> NewBlock(f, j)]
      BY SmallHasNoBlocks DEF Whole
    <3>2. Committed(f)' = {NewBlock(f, j) : j \in Blocks(f)}
      BY <2>3, <3>1 DEF Committed
    <3> QED
      BY <2>1, <3>2 DEF FreshBlock, NewBlock
  <2> QED
    BY <1>2, <2>2, <2>3 DEF Replaced
<1>3. CASE Staged(f)
  <2>1. PICK j \in Blocks(f) :
          staged'[f] = {s \in staged[f] : s.id # j} \cup {NewBlock(f, j)}
    BY <1>3 DEF Staged
  <2>2. NewBlock(f, j).id = j
    BY DEF NewBlock
  <2>3. content'[f] = content[f] /\ Committed(f)' = Committed(f)
    BY <1>3 DEF Staged, Committed
  <2>4. CASE i = j
    BY <2>1, <2>2, <2>4 DEF FreshBlock, Candidates, StagedIds
  <2>5. CASE i # j
    <3>1. i \in StagedIds(f)' <=> i \in StagedIds(f)
      BY <2>1, <2>2, <2>5 DEF StagedIds
    <3>2. {s \in staged'[f] : s.id = i} = {s \in staged[f] : s.id = i}
      BY <2>1, <2>2, <2>5
    <3>3. Candidates(f, i)' = Candidates(f, i)
      BY <2>3, <3>1, <3>2 DEF Candidates
    <3> QED
      BY <3>3 DEF FreshBlock
  <2> QED
    BY <2>4, <2>5
<1> QED
  BY <1>1, <1>2, <1>3 DEF ServiceStep

LEMMA WrittenKept ==
  ASSUME ServiceStep, NEW f \in Blobs, Written(f)
  PROVE  Written(f)'
BY DEF ServiceStep, Written, Kept, Replaced, Staged

(* A write of a whole blob, and steps that leave the service alone.         *)
LEMMA WriteStep ==
  ASSUME DataOK, NEW f \in Blobs, NEW blocks \in {Whole(f), Other}, Write(f, blocks)
  PROVE  ServiceStep /\ content' = [content EXCEPT ![f] = blocks]
BY DEF Write, ServiceStep, DataOK, Kept, Replaced

LEMMA QuietStep ==
  ASSUME DataOK, UNCHANGED serviceVars
  PROVE  ServiceStep
BY DEF serviceVars, ServiceStep, DataOK, Kept

------------------------------------------------------------------------------
(* What the service does with a request it accepts.                         *)
LEMMA RequestOf ==
  ASSUME UploadInv, NEW m \in net
  PROVE  /\ m.from \in Callers /\ m.req = ReqOf(m.from) /\ m.attempt \in Nat
         /\ m = [from |-> m.from, req |-> m.req, attempt |-> m.attempt]
BY DEF UploadInv, NetOK, Messages

LEMMA AcceptedFinal ==
  ASSUME UploadInv, NEW m \in net, NEW f \in Blobs, m.from = <<f, 0>>,
         Status(m.req) = "success", Apply(m.req)
  PROVE  Write(f, Whole(f)) /\ (args.overwrite \/ content[f] = Absent)
<1>1. m.req = FinalRequest(f)
  BY RequestOf DEF ReqOf
<1>2. m.req.blob = f /\ m.req.overwrite = args.overwrite
      /\ m.req.op \in {"put_blob", "put_block_list"}
  BY <1>1 DEF FinalRequest, PutBlob, PutBlockList
<1>3. args.overwrite \/ content[f] = Absent
  BY <1>2 DEF Status, Unconditional
<1>4. CASE Small(f)
  <2>1. m.req = PutBlob(f, Unit(f, 0), args.overwrite)
    BY <1>1, <1>4 DEF FinalRequest
  <2>2. m.req.op = "put_blob" /\ m.req.unit = Unit(f, 0)
    BY <2>1 DEF PutBlob
  <2>3. Write(f, <<[id |-> 0, unit |-> Unit(f, 0)]>>)
    BY <1>2, <2>2 DEF Apply
  <2> QED
    BY <1>3, <1>4, <2>3 DEF Whole, NewBlock
<1>5. CASE ~Small(f)
  <2>1. m.req = PutBlockList(f, [i \in Blocks(f) |-> i], args.overwrite)
    BY <1>1, <1>5 DEF FinalRequest
  <2>2. m.req.op = "put_block_list" /\ m.req.ids = [i \in Blocks(f) |-> i]
    BY <2>1 DEF PutBlockList
  <2>3. Write(f, [i \in Blocks(f) |-> Latest(f, i)])
    <3>1. Write(m.req.blob, [i \in DOMAIN m.req.ids |-> Latest(m.req.blob, m.req.ids[i])])
      BY <2>2 DEF Apply
    <3>2. [i \in DOMAIN m.req.ids |-> Latest(m.req.blob, m.req.ids[i])]
            = [i \in Blocks(f) |-> Latest(f, i)]
      BY <1>2, <2>2
    <3> QED
      BY <1>2, <3>1, <3>2
  <2>4. \A i \in Blocks(f) : Candidates(f, i) # {}
    BY <1>2, <2>2 DEF Status
  <2>5. \A i \in Blocks(f) : Candidates(f, i) \subseteq {NewBlock(f, i)}
    BY <1>1 DEF UploadInv, NetOK, CommitIsFresh, FreshBlock, State
  <2>6. \A i \in Blocks(f) : Latest(f, i) = NewBlock(f, i)
    BY <2>4, <2>5 DEF Latest
  <2> QED
    BY <1>3, <1>5, <2>3, <2>6 DEF Whole
<1> QED
  BY <1>4, <1>5

LEMMA AcceptedBlock ==
  ASSUME UploadInv, NEW m \in net, NEW f \in Blobs, NEW i \in Blocks(f), m.from = <<f, i>>,
         Status(m.req) = "success", Apply(m.req)
  PROVE  ServiceStep /\ FreshBlock(f, i)' /\ UNCHANGED content
<1>1. m.req = PutBlock(f, i, Unit(f, i))
  BY RequestOf, CallersAre DEF ReqOf
<1>2. m.req.op = "put_block" /\ m.req.blob = f /\ m.req.id = i /\ m.req.unit = Unit(f, i)
  BY <1>1 DEF PutBlock
<1>3. /\ staged' = [staged EXCEPT ![f] = {s \in @ : s.id # i} \cup {NewBlock(f, i)}]
      /\ content' = content
  BY <1>2 DEF Apply, NewBlock
<1>4. staged'[f] = {s \in staged[f] : s.id # i} \cup {NewBlock(f, i)}
  BY <1>3 DEF UploadInv, TypesOK, DataOK
<1>5. ServiceStep
  <2>1. \A g \in Blobs \ {f} : Kept(g)
    BY <1>3 DEF UploadInv, TypesOK, DataOK, Kept
  <2>2. Staged(f)
    BY <1>3, <1>4 DEF Staged
  <2>3. DataOK'
    BY <1>3 DEF UploadInv, TypesOK, DataOK
  <2> QED
    BY <2>1, <2>2, <2>3 DEF ServiceStep
<1>6. FreshBlock(f, i)'
  BY <1>4 DEF FreshBlock, Candidates, StagedIds, NewBlock
<1> QED
  BY <1>3, <1>5, <1>6

------------------------------------------------------------------------------
(* The calls: what a step does to their states.  A call under way is never  *)
(* put back, and block and final calls end well only through the service.   *)
LEMMA SendStep ==
  ASSUME CallsOK, NEW c \in Callers, NEW req, Send(c, req), NetOK, req = ReqOf(c),
         ReqOf(c)' = ReqOf(c), \A d \in Callers : ReqOf(d)' = ReqOf(d)
  PROVE  /\ CallsOK' /\ NetOK'
         /\ call'[c].state = "sent"
         /\ \A d \in Callers \ {c} : call'[d] = call[d]
<1>1. call' = [call EXCEPT ![c] = [state |-> "sent", attempt |-> 1]]
  BY DEF Send
<1>2. CallsOK'
  BY <1>1 DEF CallsOK, CallStates
<1>3. /\ call'[c].state = "sent"
      /\ \A d \in Callers \ {c} : call'[d] = call[d]
  BY <1>1 DEF CallsOK
<1>4. NetOK'
  <2> SUFFICES ASSUME NEW m \in net'
               PROVE  (m \in Messages /\ m.req = ReqOf(m.from))' /\ call'[m.from].state # "none"
    BY DEF NetOK
  <2>1. CASE m \in net
    BY <1>3, <2>1 DEF NetOK, Messages
  <2>2. CASE m = [from |-> c, req |-> req, attempt |-> 1]
    BY <1>3, <2>2 DEF Messages
  <2> QED
    BY <2>1, <2>2 DEF Send
<1> QED
  BY <1>2, <1>3, <1>4

LEMMA EndCallStep ==
  ASSUME CallsOK, NEW c \in Callers, NEW state \in CallStates, EndCall(c, state)
  PROVE  /\ CallsOK'
         /\ call'[c].state = state
         /\ \A d \in Callers \ {c} : call'[d] = call[d]
BY DEF EndCall, CallsOK

LEMMA NetKept ==
  ASSUME NetOK, net' \subseteq net, args' = args,
         \A c \in Callers : call[c].state # "none" => call'[c].state # "none"
  PROVE  NetOK'
<1>1. \A c \in Callers : ReqOf(c)' = ReqOf(c)
  BY DEF ReqOf, FinalRequest
<1> QED
  BY <1>1 DEF NetOK, Messages

LEMMA ArgsKept ==
  ASSUME Next PROVE args' = args /\ before' = before
BY DEF Next, MainStep, FileStep, BlockStep, Return, StartSmall, ReadSmall, ReadSmallFails,
       StartLarge, SpawnBlock, ReadBlock, ReadFile, ProducerReads, ProducerSends, Receive,
       BlockPermit, JoinFails, JoinAll, AwaitBlocks, FinalPermit, EndFile, ServiceHandles,
       Fails, OtherWrites, Terminated, vars

------------------------------------------------------------------------------
(* What is left to show of each action: that nothing becomes ok, or ready   *)
(* to be committed, without a reason.                                       *)
OkForAReason ==
  \A f \in Blobs : \A i \in Blocks(f) :
    State(f, i)' = "ok" => State(f, i) = "ok" \/ FreshBlock(f, i)'
CommitForAReason ==
  \A f \in Blobs :
    (task'[f] = "permit" \/ State(f, 0)' # "none") =>
      \/ task[f] = "permit" \/ State(f, 0) # "none"
      \/ \A i \in Blocks(f) : State(f, i) = "ok"
EndForAReason ==
  \A f \in Blobs :
    (State(f, 0)' = "ok" \/ task'[f] = "ok") =>
      State(f, 0) = "ok" \/ task[f] = "ok" \/ Written(f)'
Reasons == OkForAReason /\ CommitForAReason /\ EndForAReason

LEMMA StepKeeps ==
  ASSUME UploadInv, ServiceStep, TypesOK', NetOK', Reasons
  PROVE  UploadInv'
<1>1. UploadedIsFresh'
  <2> SUFFICES ASSUME NEW f \in Blobs, NEW i \in Blocks(f), State(f, i)' = "ok"
               PROVE  FreshBlock(f, i)'
    BY DEF UploadedIsFresh
  <2> QED
    BY FreshKept DEF Reasons, OkForAReason, UploadInv, UploadedIsFresh
<1>2. CommitIsFresh'
  <2> SUFFICES ASSUME NEW f \in Blobs, NEW i \in Blocks(f),
                      task'[f] = "permit" \/ State(f, 0)' # "none"
               PROVE  FreshBlock(f, i)'
    BY DEF CommitIsFresh
  <2>1. FreshBlock(f, i)
    BY DEF Reasons, CommitForAReason, UploadInv, UploadedIsFresh, CommitIsFresh
  <2> QED
    BY <2>1, FreshKept
<1>3. EndedIsWritten'
  <2> SUFFICES ASSUME NEW f \in Blobs, State(f, 0)' = "ok" \/ task'[f] = "ok"
               PROVE  Written(f)'
    BY DEF EndedIsWritten
  <2> QED
    BY WrittenKept DEF Reasons, EndForAReason, UploadInv, EndedIsWritten
<1> QED
  BY <1>1, <1>2, <1>3 DEF UploadInv

clientVarsButFaults == <<serviceVars, call, net>>

(* Most steps leave the calls, or the tasks, or both as they are.           *)
LEMMA TaskStep ==
  ASSUME UploadInv, UNCHANGED <<clientVarsButFaults, args>>, NEW f \in Blobs,
         NEW t \in TaskStates, task' = task \/ SetTask(f, t),
         t = "permit" => \A i \in Blocks(f) : State(f, i) = "ok",
         t = "ok" => State(f, 0) = "ok",
         t = "read" => Small(f)
  PROVE  UploadInv'
<1>1. ServiceStep
  BY QuietStep DEF UploadInv, TypesOK, clientVarsButFaults
<1>2. TypesOK' /\ NetOK'
  BY NetKept DEF UploadInv, TypesOK, ReadIsSmall, DataOK, CallsOK, clientVarsButFaults, serviceVars, SetTask
<1>3. Reasons
  <2>1. \A g \in Blobs : task'[g] = task[g] \/ (g = f /\ task'[g] = t)
    BY DEF UploadInv, TypesOK, SetTask
  <2>2. \A g, i : State(g, i)' = State(g, i)
    BY DEF State, clientVarsButFaults
  <2> QED
    BY <2>1, <2>2 DEF Reasons, OkForAReason, CommitForAReason, EndForAReason
<1> QED
  BY <1>1, <1>2, <1>3, StepKeeps

LEMMA CallStep ==
  ASSUME UploadInv, UNCHANGED <<serviceVars, args>>, NetOK', CallsOK',
         task' \in [Blobs -> TaskStates],
         \A f \in Blobs : task'[f] \in {"permit", "ok", "read"} => task'[f] = task[f],
         \A c \in Callers :
           \/ call'[c].state = call[c].state
           \/ call'[c].state \notin {"ok", "none"} /\ (c[2] # 0 \/ call[c].state # "none")
  PROVE  UploadInv'
<1>1. ServiceStep
  BY QuietStep DEF UploadInv, TypesOK
<1>2. TypesOK'
  <2>1. DataOK'
    BY DEF UploadInv, TypesOK, DataOK, serviceVars
  <2> QED
    BY <2>1 DEF UploadInv, TypesOK, ReadIsSmall
<1>3. Reasons
  <2>1. \A f \in Blobs : State(f, 0)' # "none" => State(f, 0) # "none"
    BY CallersAre DEF State
  <2>2. \A f \in Blobs : State(f, 0)' = "ok" => State(f, 0) = "ok"
    BY CallersAre DEF State
  <2>3. \A f \in Blobs : \A i \in Blocks(f) : State(f, i)' = "ok" => State(f, i) = "ok"
    BY CallersAre DEF State
  <2> QED
    BY <2>1, <2>2, <2>3 DEF Reasons, OkForAReason, CommitForAReason, EndForAReason
<1> QED
  BY <1>1, <1>2, <1>3, StepKeeps

(* Sending the final request, after all blocks.                             *)
LEMMA FinalStep ==
  ASSUME UploadInv, UNCHANGED <<serviceVars, args>>, NEW f \in Blobs,
         task[f] = "permit" \/ Small(f), Send(<<f, 0>>, FinalRequest(f)), SetTask(f, "final")
  PROVE  UploadInv'
<1>1. ReqOf(<<f, 0>>) = FinalRequest(f) /\ \A c \in Callers : ReqOf(c)' = ReqOf(c)
  BY DEF ReqOf, FinalRequest
<1>2. /\ CallsOK' /\ NetOK'
      /\ call'[<<f, 0>>].state = "sent"
      /\ \A c \in Callers \ {<<f, 0>>} : call'[c] = call[c]
  <2>1. <<f, 0>> \in Callers /\ ReqOf(<<f, 0>>)' = ReqOf(<<f, 0>>)
    BY <1>1, CallersAre
  <2> QED
    BY <1>1, <2>1, SendStep DEF UploadInv, TypesOK
<1>3. ServiceStep
  BY QuietStep DEF UploadInv, TypesOK
<1>4. TypesOK'
  <2>1. DataOK'
    BY DEF UploadInv, TypesOK, DataOK, serviceVars
  <2> QED
    BY <1>2, <2>1 DEF UploadInv, TypesOK, ReadIsSmall, SetTask, TaskStates
<1>5. Reasons
  <2>1. \A g \in Blobs : task'[g] = IF g = f THEN "final" ELSE task[g]
    BY DEF UploadInv, TypesOK, SetTask
  <2>2. \A g \in Blobs \ {f} : State(g, 0)' = State(g, 0)
    BY <1>2, CallersAre DEF State
  <2>3. \A g \in Blobs : \A i \in Blocks(g) : State(g, i)' = State(g, i)
    BY <1>2, CallersAre DEF State
  <2>4. State(f, 0)' = "sent" /\ (Small(f) => Blocks(f) = {})
    BY <1>2, SmallHasNoBlocks DEF State
  <2> QED
    BY <2>1, <2>2, <2>3, <2>4 DEF Reasons, OkForAReason, CommitForAReason, EndForAReason
<1> QED
  BY <1>2, <1>3, <1>4, <1>5, StepKeeps

(* Sending a block.                                                         *)
LEMMA BlockSent ==
  ASSUME UploadInv, UNCHANGED <<serviceVars, args, task>>, NEW f \in Blobs,
         NEW i \in Blocks(f), Send(<<f, i>>, PutBlock(f, i, Unit(f, i)))
  PROVE  UploadInv'
<1>1. /\ ReqOf(<<f, i>>) = PutBlock(f, i, Unit(f, i)) /\ <<f, i>> \in Callers
      /\ \A c \in Callers : ReqOf(c)' = ReqOf(c)
  BY CallersAre DEF ReqOf, FinalRequest
<1>2. /\ CallsOK' /\ NetOK'
      /\ call'[<<f, i>>].state = "sent"
      /\ \A c \in Callers \ {<<f, i>>} : call'[c] = call[c]
  BY <1>1, SendStep DEF UploadInv, TypesOK
<1>3. <<f, i>>[2] # 0
  BY CallersAre
<1> QED
  BY <1>2, <1>3, CallStep DEF UploadInv, TypesOK

LEMMA CallEnds ==
  ASSUME UploadInv, UNCHANGED <<serviceVars, args>>, net' \subseteq net,
         NEW c \in Callers, NEW state \in CallStates \ {"ok", "none"},
         c[2] # 0 \/ call[c].state # "none", EndCall(c, state),
         task' \in [Blobs -> TaskStates],
         \A f \in Blobs : task'[f] \in {"permit", "ok", "read"} => task'[f] = task[f]
  PROVE  UploadInv'
<1>1. /\ CallsOK' /\ call'[c].state = state
      /\ \A d \in Callers \ {c} : call'[d] = call[d]
  BY EndCallStep DEF UploadInv, TypesOK
<1>2. NetOK'
  BY <1>1, NetKept DEF UploadInv
<1> QED
  BY <1>1, <1>2, CallStep

------------------------------------------------------------------------------
(* The service, and attempts that fail.                                     *)
LEMMA HandleStep ==
  ASSUME UploadInv, NEW m \in net, Handle(m), UNCHANGED <<args, task>>
  PROVE  UploadInv'
<1>0. m.from \in Callers /\ call[m.from].state # "none" /\ net' \subseteq net
  BY RequestOf DEF UploadInv, NetOK, Handle
<1>1. CASE Status(m.req) # "success"
  <2>1. UNCHANGED serviceVars
    BY <1>1 DEF Handle
  <2>2. CASE Live(m)
    <3>1. EndCall(m.from, Outcome(m.req)) /\ Outcome(m.req) \in CallStates \ {"ok", "none"}
      BY <1>1, <2>2 DEF Handle, Outcome, CallStates, Ended
    <3> QED
      BY <1>0, <2>1, <3>1, CallEnds DEF UploadInv, TypesOK
  <2>3. CASE ~Live(m)
    <3>1. call' = call
      BY <2>3 DEF Handle
    <3>2. NetOK' /\ CallsOK'
      BY <1>0, <3>1, NetKept DEF UploadInv, TypesOK, CallsOK
    <3> QED
      BY <2>1, <3>1, <3>2, CallStep DEF UploadInv, TypesOK
  <2> QED
    BY <2>2, <2>3
<1>2. CASE Status(m.req) = "success"
  <2>1. Apply(m.req)
    BY <1>2 DEF Handle
  <2>2. /\ CallsOK'
        /\ \A c \in Callers \ {m.from} : call'[c] = call[c]
        /\ call'[m.from].state \in {call[m.from].state, "ok"}
    <3>1. CASE Live(m)
      <4>1. EndCall(m.from, "ok") /\ "ok" \in CallStates
        BY <1>2, <3>1 DEF Handle, Outcome, CallStates, Ended
      <4> QED
        BY <1>0, <4>1, EndCallStep DEF UploadInv, TypesOK
    <3>2. CASE ~Live(m)
      BY <3>2 DEF Handle, UploadInv, TypesOK, CallsOK
    <3> QED
      BY <3>1, <3>2
  <2>3. NetOK'
    BY <1>0, <2>2, NetKept DEF UploadInv
  <2>4. PICK f \in Blobs : m.from[1] = f /\ (m.from[2] = 0 \/ m.from[2] \in Blocks(f))
    BY <1>0, CallersAre
  <2>5. ServiceStep /\ TypesOK'
    <3>1. ServiceStep
      <4>1. CASE m.from[2] = 0
        <5>1. m.from = <<f, 0>>
          BY <1>0, <2>4, <4>1, CallersAre
        <5>2. Write(f, Whole(f))
          BY <1>2, <2>1, <5>1, AcceptedFinal
        <5> QED
          BY <5>2, WriteStep DEF UploadInv, TypesOK
      <4>2. CASE m.from[2] \in Blocks(f)
        <5>1. m.from = <<f, m.from[2]>>
          BY <1>0, <2>4, CallersAre
        <5> QED
          BY <1>2, <2>1, <4>2, <5>1, AcceptedBlock
      <4> QED
        BY <2>4, <4>1, <4>2
    <3> QED
      BY <2>2, <3>1 DEF UploadInv, TypesOK, ServiceStep, ReadIsSmall
  <2>6. Reasons
    <3>1. CASE m.from[2] = 0
      <4>1. m.from = <<f, 0>>
        BY <1>0, <2>4, <3>1, CallersAre
      <4>2. Written(f)'
        <5>1. Write(f, Whole(f))
          BY <1>2, <2>1, <4>1, AcceptedFinal
        <5>2. content' = [content EXCEPT ![f] = Whole(f)]
          BY <5>1, WriteStep DEF UploadInv, TypesOK
        <5> QED
          BY <5>2 DEF Written, UploadInv, TypesOK, DataOK
      <4>3. /\ \A g \in Blobs \ {f} : State(g, 0)' = State(g, 0)
            /\ State(f, 0) # "none"
            /\ \A g \in Blobs : \A i \in Blocks(g) : State(g, i)' = State(g, i)
        BY <1>0, <2>2, <4>1, CallersAre DEF State
      <4> QED
        BY <4>2, <4>3 DEF Reasons, OkForAReason, CommitForAReason, EndForAReason
    <3>2. CASE m.from[2] \in Blocks(f)
      <4> DEFINE i == m.from[2]
      <4>1. m.from = <<f, i>>
        BY <1>0, <2>4, CallersAre
      <4>2. FreshBlock(f, i)'
        BY <1>2, <2>1, <3>2, <4>1, AcceptedBlock
      <4>3. \A g \in Blobs : State(g, 0)' = State(g, 0)
        BY <2>2, <3>2, <4>1, CallersAre DEF State
      <4>4. \A g \in Blobs : \A j \in Blocks(g) :
              State(g, j)' = State(g, j) \/ (g = f /\ j = i)
        <5> SUFFICES ASSUME NEW g \in Blobs, NEW j \in Blocks(g), ~(g = f /\ j = i)
                     PROVE  State(g, j)' = State(g, j)
          OBVIOUS
        <5>1. <<g, j>> \in Callers \ {m.from}
          BY <4>1, CallersAre
        <5> QED
          BY <2>2, <5>1 DEF State
      <4> QED
        BY <4>2, <4>3, <4>4 DEF Reasons, OkForAReason, CommitForAReason, EndForAReason
    <3> QED
      BY <2>4, <3>1, <3>2
  <2> QED
    BY <2>3, <2>5, <2>6, StepKeeps
<1> QED
  BY <1>1, <1>2

LEMMA FailStep ==
  ASSUME UploadInv, NEW m \in net, AttemptFails(m), UNCHANGED <<args, task>>
  PROVE  UploadInv'
<1>0. /\ m.from \in Callers /\ call[m.from].state = "sent" /\ m.attempt \in Nat
      /\ m.req = ReqOf(m.from) /\ UNCHANGED serviceVars
      /\ m = [from |-> m.from, req |-> m.req, attempt |-> m.attempt]
  BY RequestOf DEF AttemptFails, Live
<1>1. CASE m.attempt < max_attempts
  <2>1. PICK rest \in {net, net \ {m}} :
          /\ call' = [call EXCEPT ![m.from].attempt = @ + 1]
          /\ net' = rest \cup {[m EXCEPT !.attempt = @ + 1]}
    BY <1>1 DEF AttemptFails
  <2>2. CallsOK' /\ \A c \in Callers : call'[c].state = call[c].state
    <3>1. call[m.from] \in [state : CallStates, attempt : Nat]
      BY <1>0 DEF UploadInv, TypesOK, CallsOK
    <3>2. [call[m.from] EXCEPT !.attempt = @ + 1] \in [state : CallStates, attempt : Nat]
          /\ [call[m.from] EXCEPT !.attempt = @ + 1].state = call[m.from].state
      BY <3>1
    <3> QED
      BY <2>1, <3>2 DEF UploadInv, TypesOK, CallsOK
  <2>3. \A c \in Callers : ReqOf(c)' = ReqOf(c)
    BY DEF ReqOf, FinalRequest
  <2>4. NetOK'
    <3> SUFFICES ASSUME NEW n \in net'
                 PROVE  (n \in Messages /\ n.req = ReqOf(n.from))' /\ call'[n.from].state # "none"
      BY DEF NetOK
    <3>1. CASE n \in net
      BY <2>2, <2>3, <3>1 DEF UploadInv, NetOK, Messages
    <3>2. CASE n = [m EXCEPT !.attempt = @ + 1]
      <4>1. n = [from |-> m.from, req |-> m.req, attempt |-> m.attempt + 1]
        BY <1>0, <3>2
      <4> QED
        BY <1>0, <2>2, <2>3, <4>1 DEF Messages
    <3> QED
      BY <2>1, <3>1, <3>2
  <2> QED
    BY <1>0, <2>2, <2>4, CallStep DEF UploadInv, TypesOK
<1>2. CASE ~(m.attempt < max_attempts)
  <2>1. EndCall(m.from, "error") /\ net' \subseteq net
    BY <1>2 DEF AttemptFails
  <2>2. "error" \in CallStates \ {"ok", "none"}
    BY DEF CallStates, Ended
  <2> QED
    BY <1>0, <2>1, <2>2, CallEnds DEF UploadInv, TypesOK
<1> QED
  BY <1>1, <1>2

------------------------------------------------------------------------------
LEMMA InitOK == Init => UploadInv
<1> SUFFICES ASSUME Init PROVE UploadInv
  OBVIOUS
<1>1. DataOK
  <2>1. PICK e \in Earlier : content = e.content /\ staged = e.staged
    BY DEF Init
  <2> QED
    BY <2>1, UploadAssumption DEF DataOK
<1>2. \A c \in Callers : call[c].state = "none"
  BY DEF Init
<1>3. TypesOK
  BY <1>1 DEF Init, TypesOK, CallsOK, CallStates, TaskStates, ReadIsSmall
<1>4. \A f \in Blobs : State(f, 0) = "none" /\ \A i \in Blocks(f) : State(f, i) = "none"
  BY <1>2, CallersAre DEF State
<1> QED
  BY <1>3, <1>4 DEF Init, UploadInv, NetOK, UploadedIsFresh, CommitIsFresh, EndedIsWritten

LEMMA CancelStep ==       \* ReadSmallFails and JoinFails
  ASSUME UploadInv, UNCHANGED <<serviceVars, args, net>>,
         NEW S, call' = [c \in Callers |-> IF c \in S THEN [call[c] EXCEPT !.state = "cancelled"]
                                                    ELSE call[c]],
         \A c \in Callers : c \in S => call[c].state # "none",
         task' \in [Blobs -> TaskStates],
         \A f \in Blobs : task'[f] \in {"permit", "ok", "read"} => task'[f] = task[f]
  PROVE  UploadInv'
<1>1. "cancelled" \in CallStates
  BY DEF CallStates, Ended
<1>2. CallsOK' /\ \A c \in Callers : call'[c].state \in {call[c].state, "cancelled"}
  BY <1>1 DEF UploadInv, TypesOK, CallsOK
<1>3. NetOK'
  BY <1>2, NetKept DEF UploadInv
<1> QED
  BY <1>2, <1>3, CallStep

LEMMA NextOK == UploadInv /\ [Next]_vars => UploadInv'
<1> SUFFICES ASSUME UploadInv, [Next]_vars PROVE UploadInv'
  OBVIOUS
<1> USE DEF clientVars, clientVarsButFaults
<1>1. ASSUME NEW f \in Blobs, StartSmall(f) PROVE UploadInv'
  BY <1>1, TaskStep DEF StartSmall, TaskStates, SetTask, serviceVars
<1>2. ASSUME NEW f \in Blobs, ReadSmall(f) PROVE UploadInv'
  BY <1>2, FinalStep DEF ReadSmall, UploadInv, TypesOK, ReadIsSmall
<1>3. ASSUME NEW f \in Blobs, ReadSmallFails(f) PROVE UploadInv'
  <2> DEFINE S == {<<g, 0>> : g \in FinalCalls}
  <2>1. call' = [c \in Callers |-> IF c \in S THEN [call[c] EXCEPT !.state = "cancelled"]
                                                ELSE call[c]]
    BY <1>3 DEF ReadSmallFails
  <2>2. \A c \in Callers : c \in S => call[c].state # "none"
    BY DEF FinalCalls, State
  <2>3. /\ task' \in [Blobs -> TaskStates]
        /\ \A g \in Blobs : task'[g] \in {"permit", "ok", "read"} => task'[g] = task[g]
    BY <1>3 DEF ReadSmallFails, UploadInv, TypesOK, TaskStates
  <2> HIDE DEF S
  <2> QED
    BY <1>3, <2>1, <2>2, <2>3, CancelStep DEF ReadSmallFails
<1>4. ASSUME NEW f \in Blobs, StartLarge(f) PROVE UploadInv'
  BY <1>4, TaskStep DEF StartLarge, TaskStates, SetTask, serviceVars
<1>5. ASSUME NEW f \in Blobs, NEW i \in Blocks(f), SpawnBlock(f, i) PROVE UploadInv'
  <2>1. <<f, i>> \in Callers /\ <<f, i>>[2] # 0
    BY CallersAre
  <2>2. "read" \in CallStates \ {"ok", "none"}
    BY DEF CallStates
  <2>3. /\ task' \in [Blobs -> TaskStates]
        /\ \A g \in Blobs : task'[g] \in {"permit", "ok", "read"} => task'[g] = task[g]
    BY <1>5 DEF SpawnBlock, SetTask, UploadInv, TypesOK, TaskStates
  <2> QED
    BY <1>5, <2>1, <2>2, <2>3, CallEnds DEF SpawnBlock
<1>6. ASSUME NEW f \in Blobs, NEW i \in Blocks(f), ReadBlock(f, i) PROVE UploadInv'
  <2>1. <<f, i>> \in Callers /\ <<f, i>>[2] # 0
    BY CallersAre
  <2>2. "error" \in CallStates \ {"ok", "none"}
    BY DEF CallStates, Ended
  <2>3. CASE Send(<<f, i>>, PutBlock(f, i, Unit(f, i)))
    BY <1>6, <2>3, BlockSent DEF ReadBlock
  <2>4. CASE EndCall(<<f, i>>, "error") /\ UNCHANGED net
    BY <1>6, <2>1, <2>2, <2>4, CallEnds DEF ReadBlock, UploadInv, TypesOK
  <2> QED
    BY <1>6, <2>3, <2>4 DEF ReadBlock
<1>7. ASSUME NEW f \in Blobs, ReadFile(f) PROVE UploadInv'
  <2>1. \A i \in Blocks(f) : State(f, i) = "ok"
    BY <1>7, SmallHasNoBlocks DEF ReadFile
  <2>2. SetTask(f, "permit") \/ SetTask(f, "error")
    BY <1>7 DEF ReadFile
  <2> QED
    BY <1>7, <2>1, <2>2, TaskStep DEF ReadFile, TaskStates, serviceVars
<1>8. ASSUME NEW f \in Blobs, NEW i \in Blocks(f), ProducerReads(f, i) PROVE UploadInv'
  <2>1. <<f, i>> \in Callers /\ <<f, i>>[2] # 0
    BY CallersAre
  <2>2. "hand" \in CallStates \ {"ok", "none"}
    BY DEF CallStates
  <2>3. CASE EndCall(<<f, i>>, "hand") /\ UNCHANGED task
    BY <1>8, <2>1, <2>2, <2>3, CallEnds DEF ProducerReads, UploadInv, TypesOK
  <2>4. CASE SetTask(f, "cut") /\ UNCHANGED call
    BY <1>8, <2>4, TaskStep DEF ProducerReads, TaskStates, serviceVars
  <2> QED
    BY <1>8, <2>3, <2>4 DEF ProducerReads
<1>9. ASSUME NEW f \in Blobs, NEW i \in Blocks(f), ProducerSends(f, i) \/ Receive(f, i)
      PROVE  UploadInv'
  <2>1. <<f, i>> \in Callers /\ <<f, i>>[2] # 0
    BY CallersAre
  <2>2. {"channel", "spawned"} \subseteq CallStates \ {"ok", "none"}
    BY DEF CallStates
  <2> QED
    BY <1>9, <2>1, <2>2, CallEnds DEF ProducerSends, Receive, UploadInv, TypesOK
<1>10. ASSUME NEW f \in Blobs, NEW i \in Blocks(f), BlockPermit(f, i) PROVE UploadInv'
  BY <1>10, BlockSent DEF BlockPermit
<1>11. ASSUME NEW f \in Blobs, JoinFails(f) PROVE UploadInv'
  <2> DEFINE S == {c \in Callers : call[c].state \in {"spawned", "sent"}}
  <2>1. call' = [c \in Callers |-> IF c \in S THEN [call[c] EXCEPT !.state = "cancelled"]
                                                ELSE call[c]]
    BY <1>11 DEF JoinFails
  <2>2. \A c \in Callers : c \in S => call[c].state # "none"
    OBVIOUS
  <2>3. /\ task' \in [Blobs -> TaskStates]
        /\ \A g \in Blobs : task'[g] \in {"permit", "ok", "read"} => task'[g] = task[g]
    BY <1>11 DEF JoinFails, SetTask, UploadInv, TypesOK, TaskStates
  <2> HIDE DEF S
  <2> QED
    BY <1>11, <2>1, <2>2, <2>3, CancelStep DEF JoinFails
<1>12. ASSUME NEW f \in Blobs, JoinAll(f) PROVE UploadInv'
  <2>1. CASE task[f] = "cut"
    BY <1>12, <2>1, TaskStep DEF JoinAll, TaskStates, serviceVars
  <2>2. CASE task[f] # "cut"
    <3>1. \A i \in Blocks(f) : State(f, i) = "ok"
      BY <1>12, <2>2 DEF JoinAll, Handed
    <3> QED
      BY <1>12, <2>2, <3>1, TaskStep DEF JoinAll, TaskStates, serviceVars
  <2> QED
    BY <2>1, <2>2
<1>13. ASSUME NEW f \in Blobs, AwaitBlocks(f) PROVE UploadInv'
  <2>1. SetTask(f, "error") \/ (SetTask(f, "permit") /\ BlocksOk(f))
    BY <1>13 DEF AwaitBlocks
  <2>2. BlocksOk(f) => \A i \in Blocks(f) : State(f, i) = "ok"
    BY DEF BlocksOk
  <2> QED
    BY <1>13, <2>1, <2>2, TaskStep DEF AwaitBlocks, TaskStates, serviceVars
<1>14. ASSUME NEW f \in Blobs, FinalPermit(f) PROVE UploadInv'
  BY <1>14, FinalStep DEF FinalPermit
<1>15. ASSUME NEW f \in Blobs, EndFile(f) PROVE UploadInv'
  <2>1. State(f, 0) \in TaskStates \ {"permit", "read"}
    BY <1>15 DEF EndFile, Ended, TaskStates
  <2> QED
    BY <1>15, <2>1, TaskStep DEF EndFile, serviceVars
<1>16. ASSUME NEW m \in net, ServiceHandles(m) \/ Fails(m) PROVE UploadInv'
  BY <1>16, HandleStep, FailStep DEF ServiceHandles, Fails
<1>17. ASSUME NEW f \in Blobs, OtherWrites(f) PROVE UploadInv'
  <2>1. ServiceStep
    BY <1>17, WriteStep DEF OtherWrites, UploadInv, TypesOK
  <2>2. TypesOK' /\ NetOK'
    BY <1>17, <2>1, NetKept DEF OtherWrites, UploadInv, TypesOK, CallsOK, ReadIsSmall, ServiceStep
  <2>3. Reasons
    BY <1>17 DEF OtherWrites, State, Reasons, OkForAReason, CommitForAReason, EndForAReason
  <2> QED
    BY <2>1, <2>2, <2>3, StepKeeps
<1>18. ASSUME Return \/ UNCHANGED vars PROVE UploadInv'
  <2>1. UNCHANGED <<clientVarsButFaults, args, task>>
    BY <1>18 DEF Return, vars
  <2>2. ServiceStep /\ TypesOK' /\ NetOK' /\ Reasons
    BY <2>1, QuietStep, NetKept
       DEF UploadInv, TypesOK, DataOK, CallsOK, ReadIsSmall, serviceVars, State,
           Reasons, OkForAReason, CommitForAReason, EndForAReason
  <2> QED
    BY <2>2, StepKeeps
<1> QED
  BY <1>1, <1>2, <1>3, <1>4, <1>5, <1>6, <1>7, <1>8, <1>9, <1>10, <1>11, <1>12, <1>13,
     <1>14, <1>15, <1>16, <1>17, <1>18
     DEF Next, MainStep, FileStep, BlockStep, Terminated

LEMMA InvAlways == Spec => []UploadInv
<1>1. Init => UploadInv
  BY InitOK
<1>2. UploadInv /\ [Next]_vars => UploadInv'
  BY NextOK
<1> QED
  BY <1>1, <1>2, PTL DEF Spec

------------------------------------------------------------------------------
(* What a step is to those who read the container.                          *)
Uploaded == {f \in Blobs : task[f] = "ok"}
Seen == /\ UNCHANGED <<before, args>>
        /\ \/ UNCHANGED <<content, Uploaded>>
           \/ \E f \in Blobs :
                \/ /\ args.overwrite \/ content[f] = Absent
                   /\ content' = [content EXCEPT ![f] = Whole(f)] /\ UNCHANGED Uploaded
                \/ content' = [content EXCEPT ![f] = Other] /\ UNCHANGED Uploaded
                \/ Written(f) /\ Uploaded' = Uploaded \cup {f} /\ UNCHANGED content

LEMMA HandleSeen ==
  ASSUME UploadInv, NEW m \in net, Handle(m), UNCHANGED <<args, before, task>>
  PROVE  Seen
<1>1. CASE Status(m.req) # "success"
  BY <1>1 DEF Handle, serviceVars, Seen, Uploaded
<1>2. CASE Status(m.req) = "success"
  <2>1. Apply(m.req)
    BY <1>2 DEF Handle
  <2>2. PICK f \in Blobs : m.from[1] = f /\ (m.from[2] = 0 \/ m.from[2] \in Blocks(f))
    BY RequestOf, CallersAre
  <2>3. m.from = <<f, m.from[2]>>
    BY <2>2, RequestOf, CallersAre
  <2>4. CASE m.from[2] = 0
    <3>1. Write(f, Whole(f)) /\ (args.overwrite \/ content[f] = Absent)
      BY <1>2, <2>1, <2>3, <2>4, AcceptedFinal
    <3>2. content' = [content EXCEPT ![f] = Whole(f)]
      BY <3>1 DEF Write
    <3> QED
      BY <3>1, <3>2 DEF Seen, Uploaded
  <2>5. CASE m.from[2] \in Blocks(f)
    <3>1. UNCHANGED content
      BY <1>2, <2>1, <2>3, <2>5, AcceptedBlock
    <3> QED
      BY <3>1 DEF Seen, Uploaded
  <2> QED
    BY <2>2, <2>4, <2>5
<1> QED
  BY <1>1, <1>2

LEMMA NextSeen == UploadInv /\ [Next]_vars => Seen
<1> SUFFICES ASSUME UploadInv, [Next]_vars PROVE Seen
  OBVIOUS
<1>0. UNCHANGED <<before, args>>
  BY ArgsKept DEF vars
<1> DEFINE Quiet == content' = content /\ \A f \in Blobs : task'[f] = "ok" <=> task[f] = "ok"
<1>1. Quiet => Seen
  BY <1>0 DEF Seen, Uploaded
<1>2. ASSUME NEW f \in Blobs, NEW t, t # "ok", task[f] # "ok", content' = content,
             SetTask(f, t)
      PROVE  Seen
  BY <1>1, <1>2 DEF SetTask, UploadInv, TypesOK
<1> USE DEF clientVars, serviceVars
<1>3. ASSUME NEW f \in Blobs,
             StartSmall(f) \/ ReadSmall(f) \/ StartLarge(f) \/ ReadFile(f)
      PROVE  Seen
  <2>1. /\ content' = content /\ task[f] # "ok"
        /\ SetTask(f, "read") \/ SetTask(f, "final") \/ SetTask(f, "blocks")
             \/ SetTask(f, "permit") \/ SetTask(f, "error")
    BY <1>3 DEF StartSmall, ReadSmall, StartLarge, ReadFile, MayStart
  <2> QED
    BY <1>2, <2>1
<1>4. ASSUME NEW f \in Blobs, ReadSmallFails(f) PROVE Seen
  <2>1. Quiet
    BY <1>4 DEF ReadSmallFails, UploadInv, TypesOK
  <2> QED
    BY <1>1, <2>1
<1>5. ASSUME NEW f \in Blobs, NEW i \in Blocks(f),
             SpawnBlock(f, i) \/ ReadBlock(f, i) \/ ProducerReads(f, i)
               \/ ProducerSends(f, i) \/ Receive(f, i) \/ BlockPermit(f, i)
      PROVE  Seen
  <2>1. content' = content
    BY <1>5 DEF SpawnBlock, ReadBlock, ProducerReads, ProducerSends, Receive, BlockPermit
  <2>2. task' = task \/ (task[f] = "blocks" /\ (SetTask(f, "wait") \/ SetTask(f, "cut")))
    BY <1>5 DEF SpawnBlock, ReadBlock, ProducerReads, ProducerSends, Receive, BlockPermit
  <2>3. CASE task' = task
    BY <1>1, <2>1, <2>3
  <2>4. CASE task[f] = "blocks" /\ (SetTask(f, "wait") \/ SetTask(f, "cut"))
    BY <1>2, <2>1, <2>4
  <2> QED
    BY <2>2, <2>3, <2>4
<1>6. ASSUME NEW f \in Blobs,
             JoinFails(f) \/ JoinAll(f) \/ AwaitBlocks(f) \/ FinalPermit(f)
      PROVE  Seen
  <2>1. content' = content
    BY <1>6 DEF JoinFails, JoinAll, AwaitBlocks, FinalPermit
  <2>2. /\ task[f] # "ok"
        /\ SetTask(f, "error") \/ SetTask(f, "permit") \/ SetTask(f, "final")
    BY <1>6 DEF JoinFails, JoinAll, AwaitBlocks, FinalPermit, Handed
  <2> QED
    BY <1>2, <2>1, <2>2
<1>7. ASSUME NEW f \in Blobs, EndFile(f) PROVE Seen
  <2>1. content' = content /\ SetTask(f, State(f, 0)) /\ task[f] = "final"
    BY <1>7 DEF EndFile
  <2>2. CASE State(f, 0) = "ok"
    <3>1. Written(f)
      BY <2>2 DEF UploadInv, EndedIsWritten
    <3>2. Uploaded' = Uploaded \cup {f}
      BY <2>1, <2>2 DEF Uploaded, SetTask, UploadInv, TypesOK
    <3> QED
      BY <1>0, <2>1, <3>1, <3>2 DEF Seen
  <2>3. CASE State(f, 0) # "ok"
    <3>1. Quiet
      BY <2>1, <2>3 DEF SetTask, UploadInv, TypesOK
    <3> QED
      BY <1>1, <3>1
  <2> QED
    BY <2>2, <2>3
<1>8. ASSUME NEW m \in net, ServiceHandles(m) \/ Fails(m) PROVE Seen
  <2>1. CASE ServiceHandles(m)
    BY <1>0, <2>1, HandleSeen DEF ServiceHandles
  <2>2. CASE Fails(m)
    BY <1>1, <2>2 DEF Fails, AttemptFails
  <2> QED
    BY <1>8, <2>1, <2>2
<1>9. ASSUME NEW f \in Blobs, OtherWrites(f) PROVE Seen
  BY <1>0, <1>9 DEF OtherWrites, Write, Seen, Uploaded
<1>10. ASSUME Return \/ UNCHANGED vars PROVE Seen
  BY <1>1, <1>10 DEF Return, vars
<1> QED
  BY <1>3, <1>4, <1>5, <1>6, <1>7, <1>8, <1>9, <1>10
     DEF Next, MainStep, FileStep, BlockStep, Terminated

------------------------------------------------------------------------------
(* ImplementsStore: any number of files, blocks, retries, failures and      *)
(* other writers; what the engine does with blocks, permits and repeated    *)
(* requests is, in the container, one write of each blob or none.           *)
THEOREM UploadImplementsStore == Spec => ImplementsStore
<1> DEFINE new == [f \in Blobs |-> Whole(f)]
<1>1. Init => Promise!Init
  <2> SUFFICES ASSUME Init PROVE Promise!Init
    OBVIOUS
  <2>1. content = before
    BY DEF Init
  <2>2. args.overwrite \in BOOLEAN
    BY UploadAssumption DEF Init
  <2>3. {f \in Blobs : task[f] = "ok"} = {}
    BY DEF Init
  <2> QED
    BY <2>1, <2>2, <2>3 DEF Promise!Init
<1>2. UploadInv /\ [Next]_vars => [Promise!Next]_Promise!vars
  <2> SUFFICES ASSUME UploadInv, [Next]_vars PROVE [Promise!Next]_Promise!vars
    OBVIOUS
  <2>1. Seen
    BY NextSeen
  <2>2. CASE UNCHANGED <<content, Uploaded>>
    BY <2>1, <2>2 DEF Seen, Uploaded, Promise!vars
  <2>3. ASSUME NEW f \in Blobs,
               args.overwrite \/ content[f] = Absent,
               content' = [content EXCEPT ![f] = Whole(f)], UNCHANGED Uploaded
        PROVE  Promise!Upload(f)
    BY <2>1, <2>3 DEF Seen, Uploaded, Promise!Upload
  <2>4. ASSUME NEW f \in Blobs, content' = [content EXCEPT ![f] = Other], UNCHANGED Uploaded
        PROVE  Promise!Interfere(f)
    BY <2>1, <2>4 DEF Seen, Uploaded, Promise!Interfere
  <2>5. ASSUME NEW f \in Blobs, Written(f), Uploaded' = Uploaded \cup {f}, UNCHANGED content
        PROVE  Promise!Report(f)
    BY <2>1, <2>5 DEF Seen, Uploaded, Written, Promise!Report
  <2> QED
    BY <2>1, <2>2, <2>3, <2>4, <2>5 DEF Seen, Promise!Next
<1> QED
  BY <1>1, <1>2, InvAlways, PTL DEF Spec, ImplementsStore, Promise!Spec

(* BlobsWhole: a reader never finds a mixture of old and new blocks.        *)
THEOREM BlobsWholeAlways == Spec => []BlobsWhole
<1> DEFINE Inv == DataOK /\ BlobsWhole
<1>1. Init => Inv
  BY InitOK DEF Init, BlobsWhole, UploadInv, TypesOK
<1>2. UploadInv /\ UploadInv' /\ Inv /\ [Next]_vars => Inv'
  BY NextSeen DEF Seen, BlobsWhole, UploadInv, TypesOK, DataOK
<1>3. Inv => BlobsWhole
  OBVIOUS
<1> QED
  BY <1>1, <1>2, <1>3, InvAlways, PTL DEF Spec

(* SucceededIsUploaded: what the summary counts is in the container.        *)
THEOREM SucceededIsUploadedAlways == Spec => []SucceededIsUploaded
<1>1. UploadInv => SucceededIsUploaded
  BY DEF UploadInv, EndedIsWritten, SucceededIsUploaded, Written
<1> QED
  BY <1>1, InvAlways, PTL

(* ExistingKept: no request of a --no-overwrite upload, however late or     *)
(* often it arrives, changes a blob that exists.                            *)
THEOREM ExistingKeptAlways == Spec => ExistingKept
<1>1. UploadInv /\ [Next]_vars =>
        [\A f \in Blobs :
           (~args.overwrite /\ content[f] # Absent) => content'[f] \in {content[f], Other}]_vars
  BY NextSeen DEF Seen, UploadInv, TypesOK, DataOK
<1> QED
  BY <1>1, InvAlways, PTL DEF Spec, ExistingKept

------------------------------------------------------------------------------
(* The final request of a file is not sent before its blocks are done, and  *)
(* it is never handed over as a block is.                                   *)
Early == {"none", "read", "blocks", "cut", "wait", "permit"}
FinalUnsent ==
  \A f \in Blobs : /\ State(f, 0) \in {"none", "sent"} \cup Ended
                   /\ task[f] \in Early => State(f, 0) = "none"

KeptOrEnded(f) ==
  State(f, 0)' = State(f, 0) \/ (State(f, 0) # "none" /\ State(f, 0)' \in Ended)

LEMMA UnsentKept ==
  ASSUME FinalUnsent,
         \A f \in Blobs : task'[f] \in Early => task[f] \in Early,
         \A f \in Blobs :
           KeptOrEnded(f) \/ (task'[f] = "final" /\ State(f, 0)' = "sent")
  PROVE  FinalUnsent'
BY DEF FinalUnsent, KeptOrEnded, Early

LEMMA UnsentTask ==
  ASSUME UploadInv, FinalUnsent, call' = call, NEW f \in Blobs, NEW t,
         task' = task \/ SetTask(f, t), t \in Early => task[f] \in Early
  PROVE  FinalUnsent'
<1>1. \A g \in Blobs : task'[g] \in Early => task[g] \in Early
  BY DEF SetTask, UploadInv, TypesOK
<1>2. \A g \in Blobs : State(g, 0)' = State(g, 0)
  BY DEF State
<1> QED BY <1>1, <1>2, UnsentKept DEF KeptOrEnded

LEMMA UnsentBlock ==
  ASSUME UploadInv, FinalUnsent, NEW f \in Blobs, NEW i \in Blocks(f), NEW s \in CallStates,
         EndCall(<<f, i>>, s) \/ Send(<<f, i>>, PutBlock(f, i, Unit(f, i))),
         task' = task \/ (task[f] = "blocks" /\ SetTask(f, "wait"))
  PROVE  FinalUnsent'
<1>1. \A g \in Blobs : task'[g] \in Early => task[g] \in Early
  BY DEF SetTask, UploadInv, TypesOK, Early
<1>2. <<f, i>> \in Callers /\ \A g \in Blobs : <<g, 0>> \in Callers /\ <<g, 0>> # <<f, i>>
  BY CallersAre
<1>3. \A c \in Callers \ {<<f, i>>} : call'[c] = call[c]
  BY <1>2 DEF EndCall, Send, UploadInv, TypesOK, CallsOK
<1>4. \A g \in Blobs : State(g, 0)' = State(g, 0)
  BY <1>2, <1>3 DEF State
<1> QED BY <1>1, <1>4, UnsentKept DEF KeptOrEnded

LEMMA UnsentFinal ==
  ASSUME UploadInv, FinalUnsent, NEW f \in Blobs, NEW req,
         Send(<<f, 0>>, req), SetTask(f, "final")
  PROVE  FinalUnsent'
<1>1. \A g \in Blobs : task'[g] = IF g = f THEN "final" ELSE task[g]
  BY DEF SetTask, UploadInv, TypesOK
<1>2. \A g \in Blobs : State(g, 0)' = IF g = f THEN "sent" ELSE State(g, 0)
  <2>1. \A g \in Blobs : <<g, 0>> \in Callers
    BY CallersAre
  <2>2. call' = [call EXCEPT ![<<f, 0>>] = [state |-> "sent", attempt |-> 1]]
    BY DEF Send
  <2>3. \A g \in Blobs : <<g, 0>> = <<f, 0>> => g = f
    OBVIOUS
  <2> QED BY <2>1, <2>2, <2>3 DEF State, UploadInv, TypesOK, CallsOK
<1>3. \A g \in Blobs : task'[g] \in Early => task[g] \in Early
  BY <1>1 DEF Early
<1> QED BY <1>1, <1>2, <1>3, UnsentKept DEF KeptOrEnded

(* What an answer or a failed attempt does to the calls.                    *)
LEMMA AnswerStep ==
  ASSUME UploadInv, NEW m \in net, Handle(m) \/ AttemptFails(m)
  PROVE  \A c \in Callers :
           \/ call'[c].state = call[c].state
           \/ call[c].state = "sent" /\ call'[c].state \in {"ok", "exists", "error"}
<1>1. m.from \in Callers
  BY DEF UploadInv, NetOK, Messages
<1>2. \/ call' = call
      \/ /\ call[m.from].state = "sent"
         /\ \E s \in {"ok", "exists", "error"} : EndCall(m.from, s)
      \/ call' = [call EXCEPT ![m.from].attempt = @ + 1]
  BY DEF Handle, AttemptFails, Live, Outcome
<1> QED BY <1>1, <1>2 DEF EndCall, UploadInv, TypesOK, CallsOK

LEMMA CancelledCalls ==
  ASSUME UploadInv, NEW S,
         call' = [c \in Callers |-> IF c \in S THEN [call[c] EXCEPT !.state = "cancelled"]
                                               ELSE call[c]]
  PROVE  \A c \in Callers : call'[c].state = IF c \in S THEN "cancelled" ELSE call[c].state
BY DEF UploadInv, TypesOK, CallsOK

LEMMA UnsentStep == UploadInv /\ FinalUnsent /\ [Next]_vars => FinalUnsent'
<1> SUFFICES ASSUME UploadInv, FinalUnsent, [Next]_vars PROVE FinalUnsent'
  OBVIOUS
<1> USE DEF clientVars
<1>1. ASSUME NEW f \in Blobs,
             \/ StartSmall(f) \/ StartLarge(f) \/ ReadFile(f) \/ JoinAll(f)
             \/ AwaitBlocks(f) \/ EndFile(f)
      PROVE  FinalUnsent'
  <2>1. call' = call
    BY <1>1 DEF StartSmall, StartLarge, ReadFile, JoinAll, AwaitBlocks, EndFile
  <2>2. task[f] \in Early \/ (task[f] = "final" /\ EndFile(f))
    BY <1>1 DEF StartSmall, StartLarge, ReadFile, JoinAll, AwaitBlocks, EndFile, MayStart,
                Handed, Early
  <2>3. \E t \in TaskStates : /\ task' = task \/ SetTask(f, t)
                              /\ t \in Early => task[f] \in Early
    <3>1. CASE EndFile(f)
      BY <3>1 DEF EndFile, Ended, Early, TaskStates
    <3>2. CASE ~EndFile(f)
      BY <1>1, <2>2, <3>2 DEF StartSmall, StartLarge, ReadFile, JoinAll, AwaitBlocks, TaskStates
    <3> QED BY <3>1, <3>2
  <2> QED BY <2>1, <2>3, UnsentTask
<1>2. ASSUME NEW f \in Blobs, ReadSmall(f) \/ FinalPermit(f) PROVE FinalUnsent'
  BY <1>2, UnsentFinal DEF ReadSmall, FinalPermit
<1>3. ASSUME NEW f \in Blobs, ReadSmallFails(f) PROVE FinalUnsent'
  <2> DEFINE S == {<<g, 0>> : g \in FinalCalls}
  <2>1. \A c \in Callers : call'[c].state = IF c \in S THEN "cancelled" ELSE call[c].state
    BY <1>3, CancelledCalls DEF ReadSmallFails
  <2>2. \A g \in Blobs : KeptOrEnded(g)
    <3> SUFFICES ASSUME NEW g \in Blobs PROVE KeptOrEnded(g)
      OBVIOUS
    <3>1. <<g, 0>> \in Callers /\ (<<g, 0>> \in S => State(g, 0) = "sent")
      BY CallersAre DEF FinalCalls, State
    <3> HIDE DEF S
    <3> QED BY <2>1, <3>1 DEF State, Ended, KeptOrEnded
  <2>3. \A g \in Blobs : task'[g] \in Early => task[g] \in Early
    BY <1>3 DEF ReadSmallFails, Early
  <2> QED BY <2>2, <2>3, UnsentKept
<1>4. ASSUME NEW f \in Blobs, JoinFails(f) PROVE FinalUnsent'
  <2> DEFINE S == {c \in Callers : call[c].state \in {"spawned", "sent"}}
  <2>1. \A c \in Callers : call'[c].state = IF c \in S THEN "cancelled" ELSE call[c].state
    BY <1>4, CancelledCalls DEF JoinFails
  <2>2. \A g \in Blobs : KeptOrEnded(g)
    <3> SUFFICES ASSUME NEW g \in Blobs PROVE KeptOrEnded(g)
      OBVIOUS
    <3>1. <<g, 0>> \in Callers /\ (<<g, 0>> \in S => State(g, 0) # "none")
      BY CallersAre DEF State
    <3> HIDE DEF S
    <3> QED BY <2>1, <3>1 DEF State, Ended, KeptOrEnded
  <2>3. \A g \in Blobs : task'[g] \in Early => task[g] \in Early
    BY <1>4 DEF JoinFails, SetTask, UploadInv, TypesOK, Early
  <2> QED BY <2>2, <2>3, UnsentKept
<1>5. ASSUME NEW f \in Blobs, NEW i \in Blocks(f),
             \/ SpawnBlock(f, i) \/ ReadBlock(f, i) \/ ProducerReads(f, i)
             \/ ProducerSends(f, i) \/ Receive(f, i) \/ BlockPermit(f, i)
      PROVE  FinalUnsent'
  <2>1. CASE call' = call /\ SetTask(f, "cut") /\ task[f] = "blocks"
    BY <2>1, UnsentTask DEF Early
  <2>2. \A s \in {"read", "hand", "channel", "spawned", "error"} : s \in CallStates
    BY DEF CallStates, Ended
  <2>3. CASE ~(call' = call /\ SetTask(f, "cut") /\ task[f] = "blocks")
    <3>1. /\ task' = task \/ (task[f] = "blocks" /\ SetTask(f, "wait"))
          /\ \E s \in CallStates :
               EndCall(<<f, i>>, s) \/ Send(<<f, i>>, PutBlock(f, i, Unit(f, i)))
      BY <1>5, <2>2, <2>3
         DEF SpawnBlock, ReadBlock, ProducerReads, ProducerSends, Receive, BlockPermit
    <3> QED BY <3>1, UnsentBlock
  <2> QED BY <2>1, <2>3
<1>6. ASSUME NEW m \in net, ServiceHandles(m) \/ Fails(m) PROVE FinalUnsent'
  <2>1. (Handle(m) \/ AttemptFails(m)) /\ task' = task
    BY <1>6 DEF ServiceHandles, Fails
  <2>2. \A g \in Blobs : KeptOrEnded(g)
    <3> SUFFICES ASSUME NEW g \in Blobs PROVE KeptOrEnded(g)
      OBVIOUS
    <3>1. <<g, 0>> \in Callers
      BY CallersAre
    <3>2. LET c == <<g, 0>>
          IN \/ call'[c].state = call[c].state
             \/ call[c].state = "sent" /\ call'[c].state \in {"ok", "exists", "error"}
      BY <2>1, <3>1, AnswerStep
    <3> QED BY <3>2 DEF State, Ended, KeptOrEnded
  <2> QED BY <2>1, <2>2, UnsentKept
<1>7. ASSUME Return \/ UNCHANGED vars \/ \E f \in Blobs : OtherWrites(f) PROVE FinalUnsent'
  BY <1>7 DEF Return, vars, OtherWrites, FinalUnsent, State
<1> QED
  BY <1>1, <1>2, <1>3, <1>4, <1>5, <1>6, <1>7
     DEF Next, MainStep, FileStep, BlockStep, Terminated

------------------------------------------------------------------------------
(* The permits of the semaphore.  The loop of upload_entries reads one      *)
(* small file at a time.                                                    *)
Readers == {f \in Blobs : Entries /\ task[f] = "read"}

PermitInv ==
  /\ permits \in Int
  /\ IsFiniteSet(PermitHolders) /\ IsFiniteSet(Readers)
  /\ \A f, g \in Readers : f = g
  /\ \A f \in Blobs : task[f] = "read" => f \in args.files
  /\ permits + Cardinality(PermitHolders) + Cardinality(Readers) = concurrency

(* The holders before and after a step, in numbers.                         *)
LEMMA PermitsMove ==
  ASSUME PermitInv, NEW P, IsFiniteSet(P), PermitHolders' = P,
         NEW Q, IsFiniteSet(Q), Readers' = Q, Q \subseteq Readers \/ Cardinality(Q) = 1,
         permits' \in Int,
         permits' + Cardinality(P) + Cardinality(Q)
           = permits + Cardinality(PermitHolders) + Cardinality(Readers),
         \A f \in Blobs : task'[f] = "read" => f \in args'.files
  PROVE  PermitInv'
<1>1. \A f, g \in Q : f = g
  <2>1. CASE Q \subseteq Readers
    BY <2>1 DEF PermitInv
  <2>2. CASE Cardinality(Q) = 1
    <3>1. PICK x : Q = {x}
      BY <2>2, FS_Singleton
    <3> QED BY <3>1
  <2> QED BY <2>1, <2>2
<1> QED BY <1>1 DEF PermitInv

(* No permit changes hands.                                                 *)
LEMMA PermitsKeep ==
  ASSUME PermitInv, permits' = permits, PermitHolders' = PermitHolders, Readers' = Readers,
         \A f \in Blobs : task'[f] = "read" => f \in args'.files
  PROVE  PermitInv'
BY DEF PermitInv

(* A caller takes a permit, or gives it back.                               *)
LEMMA PermitTaken ==
  ASSUME PermitInv, NEW c, c \notin PermitHolders, TakePermit,
         PermitHolders' = PermitHolders \cup {c}, Readers' = Readers,
         \A f \in Blobs : task'[f] = "read" => f \in args'.files
  PROVE  PermitInv'
<1> DEFINE H == PermitHolders
<1>1. IsFiniteSet(H) /\ permits \in Int /\ permits' = permits - 1 /\ IsFiniteSet(Readers)
  BY DEF PermitInv, TakePermit
<1>2. IsFiniteSet(H \cup {c}) /\ Cardinality(H \cup {c}) = Cardinality(H) + 1
  BY <1>1, FS_AddElement
<1>3. Cardinality(H) \in Nat /\ Cardinality(Readers) \in Nat
  BY <1>1, FS_CardinalityType
<1>4. permits' + Cardinality(H \cup {c}) + Cardinality(Readers)
        = permits + Cardinality(H) + Cardinality(Readers)
  BY <1>1, <1>2, <1>3
<1> QED BY <1>1, <1>2, <1>4, PermitsMove

LEMMA PermitsReleased ==
  ASSUME PermitInv, NEW D, D \subseteq PermitHolders, permits' = permits + Cardinality(D),
         PermitHolders' = PermitHolders \ D, Readers' = Readers,
         \A f \in Blobs : task'[f] = "read" => f \in args'.files
  PROVE  PermitInv'
<1> DEFINE H == PermitHolders
<1>1. IsFiniteSet(H) /\ permits \in Int /\ IsFiniteSet(Readers)
  BY DEF PermitInv
<1>2. /\ IsFiniteSet(D) /\ IsFiniteSet(H \ D) /\ Cardinality(H \ D) = Cardinality(H) - Cardinality(D)
  <2>1. IsFiniteSet(D) /\ H \cap D = D
    BY <1>1, FS_Subset
  <2> QED BY <1>1, <2>1, FS_Difference
<1>3. Cardinality(H) \in Nat /\ Cardinality(Readers) \in Nat /\ Cardinality(D) \in Nat
  BY <1>1, <1>2, FS_CardinalityType
<1>4. permits' \in Int /\ permits' + Cardinality(H \ D) + Cardinality(Readers)
        = permits + Cardinality(H) + Cardinality(Readers)
  BY <1>1, <1>2, <1>3
<1> QED BY <1>1, <1>2, <1>4, PermitsMove

LEMMA PermitsInit == Init => PermitInv
<1> SUFFICES ASSUME Init PROVE PermitInv
  OBVIOUS
<1>1. \A c \in Callers : call[c].state = "none"
  BY DEF Init
<1>2. PermitHolders = {} /\ Readers = {}
  BY <1>1 DEF Init, PermitHolders, Waiting, Readers
<1>3. permits = concurrency /\ concurrency \in Nat
  BY UploadAssumption DEF Init
<1> QED BY <1>2, <1>3, FS_EmptySet DEF PermitInv, Init

(* A step of one caller that ends in state.                                 *)
LEMMA CallerMoved ==
  ASSUME CallsOK, args' = args, NEW c \in Callers, NEW s,
         \A d \in Callers \ {c} : call'[d] = call[d], call'[c].state = s
  PROVE  /\ s = "sent" \/ (Entries /\ s = "read") => PermitHolders' = PermitHolders \cup {c}
         /\ s # "sent" /\ ~(Entries /\ s = "read") => PermitHolders' = PermitHolders \ {c}
BY DEF PermitHolders, Waiting, Entries

LEMMA SameReaders ==
  ASSUME args' = args, \A f \in Blobs : task'[f] = "read" <=> task[f] = "read"
  PROVE  Readers' = Readers
BY DEF Readers, Entries

(* A request that is answered, fails for good, or is sent again.            *)
LEMMA PermitsHandled ==
  ASSUME UploadInv, PermitInv, NEW m \in net, Handle(m) \/ AttemptFails(m), PermitFollowsCall,
         UNCHANGED <<args, task>>
  PROVE  PermitInv'
<1> DEFINE D == {c \in Waiting : call'[c].state # "sent"}
<1>3. \A c \in Callers :
        \/ call'[c].state = call[c].state
        \/ call[c].state = "sent" /\ call'[c].state \in {"ok", "exists", "error"}
  BY AnswerStep
<1>4. PermitHolders' = PermitHolders \ D
  BY <1>3 DEF PermitHolders, Waiting, Entries
<1>5. D \subseteq PermitHolders /\ permits' = permits + Cardinality(D)
  BY DEF PermitHolders, PermitFollowsCall
<1> HIDE DEF D
<1>6. Readers' = Readers /\ \A f \in Blobs : task'[f] = "read" => f \in args'.files
  BY SameReaders DEF PermitInv
<1> QED BY <1>4, <1>5, <1>6, PermitsReleased

LEMMA PermitsReadFails ==
  ASSUME UploadInv, PermitInv, NEW f \in Blobs, ReadSmallFails(f)
  PROVE  PermitInv'
<1> DEFINE D == {<<g, 0>> : g \in FinalCalls}
           H == PermitHolders
<1>1. /\ Entries /\ task[f] = "read" /\ args' = args
      /\ task' = [g \in Blobs |->
           IF task[g] \in {"read", "wait", "permit", "final"} THEN "cancelled" ELSE task[g]]
      /\ call' = [c \in Callers |->
           IF \E g \in FinalCalls : c = <<g, 0>>
           THEN [call[c] EXCEPT !.state = "cancelled"] ELSE call[c]]
      /\ permits' = permits + 1 + Cardinality(FinalCalls)
  BY DEF ReadSmallFails
<1>2. D \subseteq H
  <2> SUFFICES ASSUME NEW g \in FinalCalls PROVE <<g, 0>> \in H
    OBVIOUS
  <2> QED BY CallersAre DEF PermitHolders, Waiting, FinalCalls, State
<1>3. H' = H \ D
  <2>1. \A c \in Callers : IF c \in D THEN call'[c].state = "cancelled" ELSE call'[c] = call[c]
    BY <1>1 DEF UploadInv, TypesOK, CallsOK
  <2> QED BY <1>1, <2>1 DEF PermitHolders, Waiting, Entries
<1>4. Readers = {f} /\ Readers' = {}
  <2>1. Readers = {f}
    BY <1>1 DEF PermitInv, Readers
  <2>2. Readers' = {}
    BY <1>1 DEF Readers
  <2> QED BY <2>1, <2>2
<1>5. permits \in Int /\ IsFiniteSet(H) /\ IsFiniteSet(D)
  BY <1>2, FS_Subset DEF PermitInv
<1>6. IsFiniteSet(FinalCalls) /\ Cardinality(FinalCalls) = Cardinality(D)
  <2> DEFINE h == [d \in D |-> d[1]]
  <2>1. \A d \in D : \E g \in FinalCalls : d = <<g, 0>> /\ h[d] = g
    OBVIOUS
  <2>2. \A g \in FinalCalls : <<g, 0>> \in D /\ h[<<g, 0>>] = g
    OBVIOUS
  <2>3. h \in [D -> FinalCalls]
    BY <2>1
  <2> HIDE DEF h, D
  <2>4. h \in Bijection(D, FinalCalls)
    <3>1. \A a, b \in D : h[a] = h[b] => a = b
      BY <2>1
    <3>2. \A g \in FinalCalls : \E d \in D : h[d] = g
      BY <2>2
    <3>3. h \in Injection(D, FinalCalls)
      BY <2>3, <3>1 DEF Injection, IsInjective
    <3>4. h \in Surjection(D, FinalCalls)
      BY <2>3, <3>2 DEF Surjection
    <3> QED BY <3>3, <3>4 DEF Bijection
  <2> QED BY <1>5, <2>4, FS_Bijection DEF ExistsBijection
<1>7. /\ IsFiniteSet(H \ D) /\ Cardinality(H \ D) = Cardinality(H) - Cardinality(D)
  <2>1. H \cap D = D
    BY <1>2
  <2> QED BY <1>5, <2>1, FS_Difference
<1>8. Cardinality(Readers) = 1 /\ Cardinality({}) = 0 /\ IsFiniteSet({})
  BY <1>4, FS_Singleton, FS_EmptySet
<1>9. Cardinality(H) \in Nat /\ Cardinality(D) \in Nat
  BY <1>5, FS_CardinalityType
<1> HIDE DEF D, H
<1>10. permits' \in Int /\ permits' + Cardinality(H \ D) + Cardinality({})
         = permits + Cardinality(H) + Cardinality(Readers)
  BY <1>1, <1>5, <1>6, <1>7, <1>8, <1>9
<1>11. \A g \in Blobs : task'[g] = "read" => g \in args'.files
  BY <1>1
<1> QED BY <1>3, <1>4, <1>7, <1>8, <1>10, <1>11, PermitsMove DEF H

LEMMA PermitsJoinFails ==
  ASSUME UploadInv, PermitInv, NEW f \in Blobs, JoinFails(f)
  PROVE  PermitInv'
<1>1. /\ ~Entries /\ args' = args /\ task' = [task EXCEPT ![f] = "error"]
      /\ permits' = permits + Cardinality(Waiting)
      /\ call' = [c \in Callers |->
           IF call[c].state \in {"spawned", "sent"}
           THEN [call[c] EXCEPT !.state = "cancelled"] ELSE call[c]]
      /\ task[f] \in {"blocks", "cut"}
  BY DEF JoinFails, SetTask, Handed
<1>2. PermitHolders = Waiting /\ Readers = {}
  BY <1>1 DEF PermitHolders, Readers
<1>3. \A c \in Callers : call'[c].state # "sent"
  BY <1>1 DEF UploadInv, TypesOK, CallsOK
<1>4. PermitHolders' = PermitHolders \ Waiting /\ Readers' = Readers
  BY <1>1, <1>2, <1>3 DEF PermitHolders, Waiting, Readers, Entries
<1>5. \A g \in Blobs : task'[g] = "read" => g \in args'.files
  BY <1>1 DEF UploadInv, TypesOK, PermitInv
<1> QED BY <1>1, <1>2, <1>4, <1>5, PermitsReleased

LEMMA PermitsStep == UploadInv /\ FinalUnsent /\ PermitInv /\ [Next]_vars => PermitInv'
<1> SUFFICES ASSUME UploadInv, FinalUnsent, PermitInv, [Next]_vars PROVE PermitInv'
  OBVIOUS
<1> USE DEF clientVars
<1>a. args' = args
  BY ArgsKept DEF vars
<1>t. CallsOK /\ task \in [Blobs -> TaskStates] /\ ReadIsSmall
  BY DEF UploadInv, TypesOK
<1>r. ASSUME NEW f \in Blobs, NEW t, t # "read", task[f] # "read", SetTask(f, t) \/ task' = task
      PROVE  Readers' = Readers /\ \A g \in Blobs : task'[g] = "read" => g \in args'.files
  <2>1. \A g \in Blobs : task'[g] = "read" <=> task[g] = "read"
    BY <1>r, <1>t DEF SetTask
  <2> QED BY <1>a, <2>1, SameReaders DEF PermitInv
<1>1. ASSUME NEW f \in Blobs, StartSmall(f) PROVE PermitInv'
  <2>1. /\ call' = call /\ task' = [task EXCEPT ![f] = "read"] /\ TakePermit /\ Entries
        /\ f \in args.files /\ ~Busy
    BY <1>1 DEF StartSmall, SetTask, MayStart
  <2>2. Readers = {} /\ Readers' = {f}
    <3>1. Readers = {}
      BY <2>1 DEF Readers, Busy, PermitInv
    <3>2. Readers' = {f}
      BY <1>a, <1>t, <2>1, <3>1 DEF Readers, Entries
    <3> QED BY <3>1, <3>2
  <2>3. PermitHolders' = PermitHolders
    BY <1>a, <2>1 DEF PermitHolders, Waiting, Entries
  <2>4. /\ Cardinality({f}) = 1 /\ IsFiniteSet({f}) /\ Cardinality(Readers) = 0
        /\ IsFiniteSet(PermitHolders) /\ Cardinality(PermitHolders) \in Nat /\ permits \in Int
    BY <2>2, FS_Singleton, FS_EmptySet, FS_CardinalityType DEF PermitInv
  <2>5. permits' \in Int /\ permits' + Cardinality(PermitHolders) + Cardinality({f})
          = permits + Cardinality(PermitHolders) + Cardinality(Readers)
    BY <2>1, <2>4 DEF TakePermit
  <2>6. \A g \in Blobs : task'[g] = "read" => g \in args'.files
    BY <1>a, <1>t, <2>1 DEF PermitInv
  <2> QED BY <2>2, <2>3, <2>4, <2>5, <2>6, PermitsMove
<1>2. ASSUME NEW f \in Blobs, ReadSmall(f) PROVE PermitInv'
  <2>1. /\ Entries /\ task[f] = "read" /\ permits' = permits /\ task' = [task EXCEPT ![f] = "final"]
        /\ Send(<<f, 0>>, FinalRequest(f)) /\ <<f, 0>> \in Callers
    BY <1>2, CallersAre DEF ReadSmall, SetTask
  <2>2. Readers = {f} /\ Readers' = {}
    <3>1. Readers = {f}
      BY <2>1 DEF Readers, PermitInv
    <3> QED BY <1>a, <1>t, <2>1, <3>1 DEF Readers, Entries
  <2>3. PermitHolders' = PermitHolders \cup {<<f, 0>>} /\ <<f, 0>> \notin PermitHolders
    <3>1. call' = [call EXCEPT ![<<f, 0>>] = [state |-> "sent", attempt |-> 1]]
      BY <2>1 DEF Send
    <3>2. call'[<<f, 0>>].state = "sent" /\ \A d \in Callers \ {<<f, 0>>} : call'[d] = call[d]
      BY <1>t, <2>1, <3>1 DEF CallsOK
    <3>3. call[<<f, 0>>].state = "none"
      BY <2>1 DEF FinalUnsent, State, Early
    <3> QED BY <1>a, <1>t, <2>1, <3>2, <3>3, CallerMoved DEF PermitHolders, Waiting
  <2>4. /\ Cardinality({}) = 0 /\ IsFiniteSet({}) /\ Cardinality(Readers) = 1
        /\ IsFiniteSet(PermitHolders) /\ Cardinality(PermitHolders) \in Nat /\ permits \in Int
        /\ IsFiniteSet(PermitHolders \cup {<<f, 0>>})
        /\ Cardinality(PermitHolders \cup {<<f, 0>>}) = Cardinality(PermitHolders) + 1
    BY <2>2, <2>3, FS_Singleton, FS_EmptySet, FS_CardinalityType, FS_AddElement DEF PermitInv
  <2>5. permits' \in Int /\ permits' + Cardinality(PermitHolders \cup {<<f, 0>>}) + Cardinality({})
          = permits + Cardinality(PermitHolders) + Cardinality(Readers)
    BY <2>1, <2>4
  <2>6. \A g \in Blobs : task'[g] = "read" => g \in args'.files
    BY <1>a, <1>t, <2>1 DEF PermitInv
  <2> QED BY <2>2, <2>3, <2>4, <2>5, <2>6, PermitsMove
<1>3. ASSUME NEW f \in Blobs, ReadSmallFails(f) \/ JoinFails(f) PROVE PermitInv'
  BY <1>3, PermitsReadFails, PermitsJoinFails
<1>4. ASSUME NEW f \in Blobs,
             \/ StartLarge(f) \/ ReadFile(f) \/ JoinAll(f) \/ AwaitBlocks(f) \/ EndFile(f)
      PROVE  PermitInv'
  <2>1. call' = call /\ permits' = permits
    BY <1>4 DEF StartLarge, ReadFile, JoinAll, AwaitBlocks, EndFile
  <2>2. PermitHolders' = PermitHolders
    BY <1>a, <2>1 DEF PermitHolders, Waiting, Entries
  <2>3. task[f] # "read" /\ \E t \in TaskStates \ {"read"} : SetTask(f, t)
    BY <1>4 DEF StartLarge, ReadFile, JoinAll, AwaitBlocks, EndFile, MayStart, Handed, Ended,
                TaskStates
  <2> QED BY <1>r, <2>1, <2>2, <2>3, PermitsKeep
<1>5. ASSUME NEW f \in Blobs, NEW i \in Blocks(f), SpawnBlock(f, i) PROVE PermitInv'
  <2>1. /\ Entries /\ State(f, i) = "none" /\ TakePermit /\ EndCall(<<f, i>>, "read")
        /\ task[f] = "blocks" /\ (task' = task \/ SetTask(f, "wait")) /\ <<f, i>> \in Callers
    BY <1>5, CallersAre DEF SpawnBlock
  <2>2. "read" \in CallStates
    BY DEF CallStates
  <2>3. PermitHolders' = PermitHolders \cup {<<f, i>>}
    BY <1>a, <1>t, <2>1, <2>2, EndCallStep, CallerMoved
  <2>4. <<f, i>> \notin PermitHolders
    BY <2>1 DEF PermitHolders, Waiting, State
  <2> QED BY <1>r, <2>1, <2>3, <2>4, PermitTaken
<1>6. ASSUME NEW f \in Blobs, NEW i \in Blocks(f), ReadBlock(f, i) PROVE PermitInv'
  <2>1. /\ Entries /\ State(f, i) = "read" /\ task' = task /\ <<f, i>> \in Callers
    BY <1>6, CallersAre DEF ReadBlock
  <2>2. <<f, i>> \in PermitHolders
    BY <2>1 DEF PermitHolders, State
  <2>3. Readers' = Readers /\ \A g \in Blobs : task'[g] = "read" => g \in args'.files
    BY <1>a, <2>1, SameReaders DEF PermitInv
  <2>4. CASE Send(<<f, i>>, PutBlock(f, i, Unit(f, i))) /\ permits' = permits
    <3>1. call' = [call EXCEPT ![<<f, i>>] = [state |-> "sent", attempt |-> 1]]
      BY <2>4 DEF Send
    <3>2. call'[<<f, i>>].state = "sent" /\ \A d \in Callers \ {<<f, i>>} : call'[d] = call[d]
      BY <1>t, <2>1, <3>1 DEF CallsOK
    <3>3. PermitHolders' = PermitHolders
      BY <1>a, <1>t, <2>1, <2>2, <3>2, CallerMoved
    <3> QED BY <2>3, <2>4, <3>3, PermitsKeep
  <2>5. CASE EndCall(<<f, i>>, "error") /\ ReleasePermit
    <3>1. "error" \in CallStates
      BY DEF CallStates, Ended
    <3>2. PermitHolders' = PermitHolders \ {<<f, i>>}
      BY <1>a, <1>t, <2>1, <2>5, <3>1, EndCallStep, CallerMoved
    <3>3. permits' = permits + Cardinality({<<f, i>>})
      BY <2>5, FS_Singleton DEF ReleasePermit
    <3> QED BY <2>2, <2>3, <3>2, <3>3, PermitsReleased
  <2> QED BY <1>6, <2>4, <2>5 DEF ReadBlock
<1>7. ASSUME NEW f \in Blobs, NEW i \in Blocks(f),
             ProducerReads(f, i) \/ ProducerSends(f, i) \/ Receive(f, i)
      PROVE  PermitInv'
  <2>1. ~Entries /\ permits' = permits /\ <<f, i>> \in Callers
    BY <1>7, CallersAre DEF ProducerReads, ProducerSends, Receive
  <2>2. /\ task' = task \/ SetTask(f, "cut")
        /\ task[f] # "read" \/ task' = task
    BY <1>7 DEF ProducerReads, ProducerSends, Receive
  <2>3. PermitHolders' = PermitHolders
    <3>1. CASE call' = call
      BY <1>a, <3>1 DEF PermitHolders, Waiting, Entries
    <3>2. CASE call' # call
      <4>1. \E s \in {"hand", "channel", "spawned"} : EndCall(<<f, i>>, s)
        BY <1>7, <3>2 DEF ProducerReads, ProducerSends, Receive
      <4>2. {"hand", "channel", "spawned"} \subseteq CallStates
        BY DEF CallStates
      <4>3. PermitHolders' = PermitHolders \ {<<f, i>>}
        BY <1>a, <1>t, <2>1, <4>1, <4>2, EndCallStep, CallerMoved
      <4>4. <<f, i>> \notin PermitHolders
        BY <1>7, <2>1, <3>2 DEF PermitHolders, Waiting, State, ProducerReads, ProducerSends,
                                 Receive, Unread
      <4> QED BY <4>3, <4>4
    <3> QED BY <3>1, <3>2
  <2>4. Readers' = Readers /\ \A g \in Blobs : task'[g] = "read" => g \in args'.files
    BY <1>a, <2>2, <1>r, SameReaders DEF PermitInv
  <2> QED BY <2>1, <2>3, <2>4, PermitsKeep
<1>8. ASSUME NEW f \in Blobs, NEW i \in Blocks(f), BlockPermit(f, i) PROVE PermitInv'
  <2>1. /\ State(f, i) = "spawned" /\ TakePermit /\ task' = task /\ <<f, i>> \in Callers
        /\ Send(<<f, i>>, PutBlock(f, i, Unit(f, i)))
    BY <1>8, CallersAre DEF BlockPermit
  <2>2. call' = [call EXCEPT ![<<f, i>>] = [state |-> "sent", attempt |-> 1]]
    BY <2>1 DEF Send
  <2>3. call'[<<f, i>>].state = "sent" /\ \A d \in Callers \ {<<f, i>>} : call'[d] = call[d]
    BY <1>t, <2>1, <2>2 DEF CallsOK
  <2>4. PermitHolders' = PermitHolders \cup {<<f, i>>}
    BY <1>a, <1>t, <2>1, <2>3, CallerMoved
  <2>5. <<f, i>> \notin PermitHolders
    BY <2>1 DEF PermitHolders, Waiting, State
  <2>6. Readers' = Readers /\ \A g \in Blobs : task'[g] = "read" => g \in args'.files
    BY <1>a, <2>1, SameReaders DEF PermitInv
  <2> QED BY <2>1, <2>4, <2>5, <2>6, PermitTaken
<1>9. ASSUME NEW f \in Blobs, FinalPermit(f) PROVE PermitInv'
  <2>1. /\ task[f] = "permit" /\ TakePermit /\ SetTask(f, "final") /\ <<f, 0>> \in Callers
        /\ Send(<<f, 0>>, FinalRequest(f)) /\ State(f, 0) = "none"
    BY <1>9, CallersAre DEF FinalPermit, FinalUnsent, Early
  <2>2. call' = [call EXCEPT ![<<f, 0>>] = [state |-> "sent", attempt |-> 1]]
    BY <2>1 DEF Send
  <2>3. call'[<<f, 0>>].state = "sent" /\ \A d \in Callers \ {<<f, 0>>} : call'[d] = call[d]
    BY <1>t, <2>1, <2>2 DEF CallsOK
  <2>4. PermitHolders' = PermitHolders \cup {<<f, 0>>}
    BY <1>a, <1>t, <2>1, <2>3, CallerMoved
  <2>5. <<f, 0>> \notin PermitHolders
    BY <2>1 DEF PermitHolders, Waiting, State
  <2> QED BY <1>r, <2>1, <2>4, <2>5, PermitTaken
<1>10. ASSUME NEW m \in net, ServiceHandles(m) \/ Fails(m) PROVE PermitInv'
  BY <1>10, <1>a, PermitsHandled DEF ServiceHandles, Fails
<1>11. ASSUME Return \/ UNCHANGED vars \/ \E f \in Blobs : OtherWrites(f) PROVE PermitInv'
  <2>1. UNCHANGED <<call, task, permits, args>>
    BY <1>11, <1>a DEF Return, vars, OtherWrites
  <2>2. PermitHolders' = PermitHolders /\ Readers' = Readers
    BY <2>1 DEF PermitHolders, Waiting, Readers, Entries
  <2> QED BY <2>1, <2>2, PermitsKeep DEF PermitInv
<1> QED
  BY <1>1, <1>2, <1>3, <1>4, <1>5, <1>6, <1>7, <1>8, <1>9, <1>10, <1>11
     DEF Next, MainStep, FileStep, BlockStep, Terminated

(* Upload.PermitsConserved, for any number of files, blocks, retries and    *)
(* failures: each permit is in the semaphore or belongs to one running      *)
(* task.                                                                    *)
THEOREM PermitsConservedAlways == Spec => []PermitsConserved
<1>1. Init => FinalUnsent
  <2>1. \A f \in Blobs : <<f, 0>> \in Callers
    BY CallersAre
  <2>2. Init => \A f \in Blobs : call[<<f, 0>>].state = "none"
    <3>1. Init => \A c \in Callers : call[c].state = "none"
      BY DEF Init
    <3> QED BY <2>1, <3>1
  <2> QED BY <2>2 DEF FinalUnsent, State
<1>2. Init => PermitInv
  BY PermitsInit
<1>3. UploadInv /\ FinalUnsent /\ [Next]_vars => FinalUnsent'
  BY UnsentStep
<1>4. UploadInv /\ FinalUnsent /\ PermitInv /\ [Next]_vars => PermitInv'
  BY PermitsStep
<1>5. PermitInv => PermitsConserved
  BY DEF PermitInv, PermitsConserved, Readers
<1> QED
  BY InvAlways, <1>1, <1>2, <1>3, <1>4, <1>5, PTL DEF Spec
==============================================================================
