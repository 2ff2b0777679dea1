------------------------------ MODULE BlobClient ------------------------------
(***************************************************************************)
(* The calls that write blobs (put_blob, put_block and put_block_list of   *)
(* src/storage/blob/client.rs), send's attempts, and the service as azcp   *)
(* relies on it.                                                           *)
(*                                                                         *)
(* An attempt is a message in net until the service handles it.  When a    *)
(* connection breaks, the message stays: the service may have handled it   *)
(* and the answer is lost, may handle it later, or never.  Waiting between *)
(* attempts is not modelled.                                               *)
(*                                                                         *)
(* A blob's content is a sequence of blocks [id, unit]; a blob written by  *)
(* put_blob is one block with the id 0.                                    *)
(***************************************************************************)
EXTENDS Integers, Sequences, FiniteSets

CONSTANTS
  Blobs,
  Callers,        \* the tasks that make a call
  max_retries,    \* --max-retries
  MaxFaults       \* bound: failures in one behaviour

ASSUME ClientAssumption == max_retries \in Nat /\ MaxFaults \in Nat

VARIABLES
  content,        \* the committed blobs
  staged,         \* the uncommitted blocks of each blob
  refused,        \* blobs on which the service answers 409 or 412 to any write
  call,           \* how far each caller is, and its attempt
  net,            \* attempts the service has not handled
  faults          \* failures so far

serviceVars == <<content, staged, refused>>

Absent == <<>>
StoredBlocks == [id : Nat, unit : STRING \X Nat]

PutBlob(b, unit, overwrite) ==
  [op |-> "put_blob", blob |-> b, unit |-> unit, overwrite |-> overwrite]
PutBlock(b, id, unit) == [op |-> "put_block", blob |-> b, id |-> id, unit |-> unit]
PutBlockList(b, ids, overwrite) ==
  [op |-> "put_block_list", blob |-> b, ids |-> ids, overwrite |-> overwrite]

Ended == {"ok", "exists", "error", "cancelled"}

Send(c, req) ==
  /\ call' = [call EXCEPT ![c] = [state |-> "sent", attempt |-> 1]]
  /\ net' = net \cup {[from |-> c, req |-> req, attempt |-> 1]}

EndCall(c, state) == call' = [call EXCEPT ![c].state = state]

Fault == faults < MaxFaults /\ faults' = faults + 1

------------------------------------------------------------------------------
(* The service.  A block list names the latest block of each id: the        *)
(* uncommitted one, or else the one in the blob.  A write of a whole blob   *)
(* discards what was not committed.                                         *)
StagedIds(b) == {s.id : s \in staged[b]}
Committed(b) == {content[b][i] : i \in DOMAIN content[b]}
Candidates(b, id) ==
  {s \in (IF id \in StagedIds(b) THEN staged[b] ELSE Committed(b)) : s.id = id}
Latest(b, id) == CHOOSE s \in Candidates(b, id) : TRUE

Unconditional(req) == req.op = "put_block" \/ req.overwrite

Status(req) ==
  CASE req.blob \in refused -> "conflict"
    [] ~Unconditional(req) /\ content[req.blob] # Absent -> "conflict"
    [] req.op = "put_block_list"
       /\ \E i \in DOMAIN req.ids : Candidates(req.blob, req.ids[i]) = {} -> "invalid"
    [] OTHER -> "success"

Write(b, blocks) ==
  /\ content' = [content EXCEPT ![b] = blocks]
  /\ staged' = [staged EXCEPT ![b] = {}]
  /\ UNCHANGED refused

Apply(req) ==
  CASE req.op = "put_blob" -> Write(req.blob, <<[id |-> 0, unit |-> req.unit]>>)
    [] req.op = "put_block_list" ->
         Write(req.blob, [i \in DOMAIN req.ids |-> Latest(req.blob, req.ids[i])])
    [] req.op = "put_block" ->
         /\ staged' = [staged EXCEPT ![req.blob] =
              {s \in @ : s.id # req.id} \cup {[id |-> req.id, unit |-> req.unit]}]
         /\ UNCHANGED <<content, refused>>

(* How the caller sees the answer: put_blob and put_block_list take every   *)
(* 409 and 412 for AlreadyExists, put_block for an error.                   *)
Outcome(req) ==
  IF Status(req) = "success" THEN "ok"
  ELSE IF Status(req) = "conflict" /\ req.op # "put_block" THEN "exists" ELSE "error"

Live(m) == call[m.from].state = "sent" /\ call[m.from].attempt = m.attempt

Handle(m) ==
  /\ net' = net \ {m}
  /\ IF Status(m.req) = "success" THEN Apply(m.req) ELSE UNCHANGED serviceVars
  /\ IF Live(m) THEN EndCall(m.from, Outcome(m.req)) ELSE UNCHANGED call
  /\ UNCHANGED faults

------------------------------------------------------------------------------
(* send: after a retryable status or a transport error, the next attempt,   *)
(* as long as there are any left.                                           *)
max_attempts == max_retries + 1

AttemptFails(m) ==
  /\ Live(m) /\ Fault
  /\ \E rest \in {net, net \ {m}} :   \* it may yet be handled, or not
       IF m.attempt < max_attempts
       THEN /\ call' = [call EXCEPT ![m.from].attempt = @ + 1]
            /\ net' = rest \cup {[m EXCEPT !.attempt = @ + 1]}
       ELSE EndCall(m.from, "error") /\ net' = rest
  /\ UNCHANGED serviceVars
==============================================================================
