---------------------------- MODULE ReplicaProofs ----------------------------
(***************************************************************************)
(* A rank that returns Ok from the broadcast holds every file, whole and   *)
(* synced; and the pipeline implements Replication.                        *)
(*                                                                         *)
(* To FlowInv of BroadcastProofs this module adds the life of a file at a  *)
(* rank (Lifecycle): its counters count what they are named for, it is     *)
(* opened before its writes and closed after the last, once; and where the *)
(* data of each chunk is until it is on disk (Done): under a collective,   *)
(* in a writer's queue, or lost with a write whose failure is still to be  *)
(* read from the acknowledgements.  When the stage ends well there are no  *)
(* collectives, queues and failures left, so all of it is on disk.         *)
(***************************************************************************)
EXTENDS BroadcastProofs

------------------------------------------------------------------------------
(* Files.                                                                   *)
(* A file's commands all go to one writer.                                  *)
Routed(Q) == \A w \in Writers : \A i \in DOMAIN Q[w] : WriterOf(Q[w][i].file) = w

(* The life of one file at one rank, between its FileState, its commands in *)
(* the queue q and the writer that has it open: the file is opened once,    *)
(* its writes come after, and nothing after its close.                      *)
Of(q, f, kind) == {i \in DOMAIN q : q[i].file = f /\ q[i].kind = kind}
NoneOf(q, f) == \A i \in DOMAIN q : q[i].file # f
LifeOf(q, f, st, open, done, late) ==
  /\ ~st.opened => f \notin open /\ NoneOf(q, f)
  /\ st.closed => st.opened
  /\ ~st.closed => Of(q, f, "close") = {}
  /\ \A i, j \in DOMAIN q : i < j /\ q[i].file = f /\ q[j].file = f =>
       q[i].kind # "close" /\ q[j].kind # "open"
  /\ f \in open => Of(q, f, "open") = {}
  /\ st.opened /\ ~st.closed => f \in open \/ Of(q, f, "open") # {}
  /\ \A j \in DOMAIN q : q[j].file = f /\ q[j].kind # "open" =>
       f \in open \/ \E i \in Of(q, f, "open") : i < j
  /\ st.closed /\ Of(q, f, "close") = {} =>
       NoneOf(q, f) /\ f \notin open /\ (f \in done \/ late # {})

Life(r, f) ==
  LifeOf(cmds[r][WriterOf(f)], f, file_state[r][f], files[r], synced[r], deferred[r])

(* A receiver has opened every file it takes a shard or a chunk of.         *)
Opened(r) ==
  /\ \A i \in 1 .. next_plan_idx[r] :
       NeedsWrite(r, Plan[i].file) => file_state[r][Plan[i].file].opened
  /\ \A k \in DOMAIN wire[r] :
       NeedsWrite(r, wire[r][k].file) => file_state[r][wire[r][k].file].opened

(* The counters of a FileState count what they are named for; a file is     *)
(* closed at the first moment it may be.                                    *)
WritesFor(r, f) == {s \in Slots : OnWriter(cmds[r], acks[r], s, f)}
ChunksFor(r, f) == {s \in Slots : \E e \in Flying(r, s) : wire[r][e[1]].file = f}
PostedShards(r, f) == {i \in DOMAIN Plan : Plan[i].file = f /\
   (i < next_plan_idx[r] \/ (i = next_plan_idx[r] /\ ~active[r]))}

Settled(f, st) ==
  /\ st.opened /\ ~st.closed => ~MayClose(f, st)
  /\ st.closed => st.shards_posted = ShardsTotal(f) /\ st.chunks_in_flight = 0
                  /\ st.writes_in_flight = 0
Counts(r, f) == result[r] = "ok" =>
  /\ file_state[r][f].writes_in_flight = Cardinality(WritesFor(r, f))
  /\ file_state[r][f].chunks_in_flight = Cardinality(ChunksFor(r, f))
  /\ file_state[r][f].shards_posted = Cardinality(PostedShards(r, f))
  /\ Settled(f, file_state[r][f])

Lifecycle(r) ==
  /\ Routed(cmds[r]) /\ Opened(r)
  /\ \A f \in Files : Life(r, f) /\ Counts(r, f)

------------------------------------------------------------------------------
(* Where the data of the plan is.                                          *)
PostedUnits(r, i) ==
  IF i < next_plan_idx[r] \/ (i = next_plan_idx[r] /\ ~active[r]) THEN Plan[i].len
  ELSE IF i = next_plan_idx[r] THEN post_offset[r] ELSE 0

(* Every unit that is posted is in a posted chunk.                          *)
Covered(r) == \A i \in DOMAIN Plan : \A p \in 1 .. PostedUnits(r, i) :
  \E k \in DOMAIN wire[r] : /\ wire[r][k].file = Plan[i].file
     /\ wire[r][k].off < Plan[i].off + p /\ Plan[i].off + p <= wire[r][k].off + wire[r][k].n

(* Where the data of a posted chunk may still be: under a collective, in a   *)
(* queue, lost with a failed write, or on the disk.                         *)
InFlight(r, k) == \E e \in in_flight[r] : e[1] = k
Queued(r, c) == \E w \in Writers : \E i \in DOMAIN cmds[r][w] :
  /\ cmds[r][w][i].kind = "write" /\ cmds[r][w][i].file = c.file
  /\ cmds[r][w][i].off = c.off /\ cmds[r][w][i].n = c.n
AckFailed(r) == \E i \in DOMAIN acks[r] : acks[r][i].err
Landed(r, c) == \A p \in 1 .. c.n : Right(r, c.file, c.off + p)

(* At a receiver, no posted chunk's data is anywhere else.                  *)
ChunkDone(r, k) ==
  InFlight(r, k) \/ Queued(r, wire[r][k]) \/ AckFailed(r) \/ Landed(r, wire[r][k])

Delivered(r) == result[r] = "ok" =>
  \A k \in DOMAIN wire[r] : NeedsWrite(r, wire[r][k].file) => ChunkDone(r, k)

(* The length of each file; with O_DIRECT it is right again when the file   *)
(* is closed, or a failure is kept.                                         *)
Lengths(r) == \A f \in Files :
  /\ ~Direct => Len(disk[r][f]) = Size[f]
  /\ f \notin files[r] => Len(disk[r][f]) = Size[f] \/ deferred[r] # {}

(* A call that failed is on its way to the stage's result.                  *)
Failure(r) == failed[r] => result[r] = "err" \/ deferred[r] # {} \/ AckFailed(r)

(* The files a rank had before.                                             *)
PresentIntact(r) == \A f \in Has[r] : \A p \in 1 .. Size[f] : Right(r, f, p)

Done(r) == Covered(r) /\ Delivered(r) /\ Lengths(r) /\ Failure(r) /\ PresentIntact(r)

LifecycleInv == \A r \in Ranks : Lifecycle(r)
DoneInv == \A r \in Ranks : Done(r)

------------------------------------------------------------------------------
(* The commands of one file in a queue, before and after a command is       *)
(* added.                                                                   *)
LEMMA AppendOf ==
  ASSUME NEW q \in Seq(Commands), NEW cmd \in Commands, NEW f, NEW kind
  PROVE  /\ \A i \in Of(q, f, kind) : i \in Of(Append(q, cmd), f, kind)
         /\ \A i \in Of(Append(q, cmd), f, kind) :
              \/ i \in Of(q, f, kind)
              \/ i = Len(q) + 1 /\ cmd.file = f /\ cmd.kind = kind
         /\ cmd.file = f /\ cmd.kind = kind => Len(q) + 1 \in Of(Append(q, cmd), f, kind)
<1> DEFINE p == Append(q, cmd)
<1>1. /\ Len(q) \in Nat /\ DOMAIN q = 1 .. Len(q) /\ DOMAIN p = 1 .. Len(q) + 1
      /\ \A i \in DOMAIN q : p[i] = q[i]
      /\ p[Len(q) + 1] = cmd
  BY AppendFacts
<1> HIDE DEF p
<1>2. \A i \in DOMAIN p : i \in DOMAIN q \/ i = Len(q) + 1
  BY <1>1
<1>3. \A i \in DOMAIN q : i \in DOMAIN p
  BY <1>1
<1> QED BY <1>1, <1>2, <1>3 DEF Of, p

(* The life of a file through each change of its writer's queue: a command  *)
(* of another file, a Write, an Open, a Close; and a command taken from it. *)
LEMMA LifeAppendOther ==
  ASSUME NEW q \in Seq(Commands), NEW cmd \in Commands, NEW f, cmd.file # f,
         NEW st, NEW open, NEW done, NEW late, LifeOf(q, f, st, open, done, late)
  PROVE  LifeOf(Append(q, cmd), f, st, open, done, late)
<1> DEFINE p == Append(q, cmd)
<1>1. /\ Len(q) \in Nat /\ DOMAIN q = 1 .. Len(q) /\ DOMAIN p = 1 .. Len(q) + 1
      /\ \A i \in DOMAIN q : p[i] = q[i]
      /\ p[Len(q) + 1] = cmd
  BY AppendFacts
<1> HIDE DEF p
<1>2. \A i \in DOMAIN p : p[i].file = f => i \in DOMAIN q /\ p[i] = q[i]
  BY <1>1
<1>3. \A i \in DOMAIN q : i \in DOMAIN p /\ p[i] = q[i]
  BY <1>1
<1>4. \A kind : Of(p, f, kind) = Of(q, f, kind)
  BY <1>2, <1>3 DEF Of
<1>5. NoneOf(q, f) => NoneOf(p, f)
  BY <1>2 DEF NoneOf
<1>6. LifeOf(p, f, st, open, done, late)
  BY <1>2, <1>4, <1>5 DEF LifeOf
<1> QED BY <1>6 DEF p

LEMMA LifeAppendWrite ==
  ASSUME NEW q \in Seq(Commands), NEW cmd \in Commands, NEW f, cmd.file = f, cmd.kind = "write",
         NEW st, st.opened, ~st.closed,
         NEW open, NEW done, NEW late, LifeOf(q, f, st, open, done, late)
  PROVE  LifeOf(Append(q, cmd), f, st, open, done, late)
<1> DEFINE p == Append(q, cmd)
           n == Len(q) + 1
<1>1. /\ Len(q) \in Nat /\ DOMAIN q = 1 .. Len(q) /\ DOMAIN p = 1 .. n
      /\ \A i \in DOMAIN q : p[i] = q[i]
      /\ p[n] = cmd
  BY AppendFacts
<1>2. n \in Nat
  BY <1>1
<1> HIDE DEF p, n
<1>3. \A i \in DOMAIN p : i = n \/ (i \in DOMAIN q /\ p[i] = q[i])
  BY <1>1 DEF n
<1>4. \A i \in DOMAIN q : i \in DOMAIN p /\ p[i] = q[i] /\ i < n
  BY <1>1 DEF n
<1>5. Of(p, f, "open") = Of(q, f, "open") /\ Of(p, f, "close") = Of(q, f, "close")
  BY <1>1, <1>3, <1>4 DEF Of
<1>6. \A i, j \in DOMAIN p : i < j => i \in DOMAIN q /\ p[i] = q[i]
  BY <1>1, <1>3, <1>4
<1>7. ASSUME NEW i \in DOMAIN p, NEW j \in DOMAIN p, i < j, p[i].file = f, p[j].file = f
      PROVE  p[i].kind # "close" /\ p[j].kind # "open"
  <2>1. i \in DOMAIN q /\ p[i] = q[i]
    BY <1>6, <1>7
  <2>2. q[i].kind # "close"
    BY <1>7, <2>1 DEF LifeOf, Of
  <2> QED BY <1>1, <1>3, <1>7, <2>1, <2>2 DEF LifeOf
<1>8. ASSUME NEW j \in DOMAIN p, p[j].file = f, p[j].kind # "open"
      PROVE  f \in open \/ \E i \in Of(p, f, "open") : i < j
  <2>1. CASE j \in DOMAIN q /\ p[j] = q[j]
    BY <1>5, <1>8, <2>1 DEF LifeOf
  <2>2. CASE j = n
    <3>1. \A i \in Of(p, f, "open") : i < n
      BY <1>4, <1>5 DEF Of
    <3> QED BY <1>5, <2>2, <3>1 DEF LifeOf
  <2> QED BY <1>3, <2>1, <2>2
<1>9. LifeOf(p, f, st, open, done, late)
  BY <1>5, <1>7, <1>8 DEF LifeOf
<1> QED BY <1>9 DEF p

LEMMA LifeAppendOpen ==
  ASSUME NEW q \in Seq(Commands), NEW cmd \in Commands, NEW f, cmd.file = f, cmd.kind = "open",
         NEW st, ~st.opened, NEW st2, st2.opened, st2.closed <=> st.closed,
         NEW open, NEW done, NEW late, LifeOf(q, f, st, open, done, late)
  PROVE  LifeOf(Append(q, cmd), f, st2, open, done, late)
<1> DEFINE p == Append(q, cmd)
           n == Len(q) + 1
<1>1. /\ Len(q) \in Nat /\ DOMAIN q = 1 .. Len(q) /\ DOMAIN p = 1 .. n
      /\ \A i \in DOMAIN q : p[i] = q[i]
      /\ p[n] = cmd
  BY AppendFacts
<1>2. n \in Nat
  BY <1>1
<1> HIDE DEF p, n
<1>3. ~st.closed /\ f \notin open /\ NoneOf(q, f)
  BY DEF LifeOf
<1>4. \A i \in DOMAIN p : p[i].file = f => i = n
  BY <1>1, <1>3 DEF NoneOf, n
<1>5. n \in Of(p, f, "open")
  BY <1>1, <1>2 DEF Of, n
<1>6. Of(p, f, "close") = {}
  BY <1>1, <1>4 DEF Of
<1>7. LifeOf(p, f, st2, open, done, late)
  BY <1>1, <1>2, <1>3, <1>4, <1>5, <1>6 DEF LifeOf
<1> QED BY <1>7 DEF p

LEMMA LifeAppendClose ==
  ASSUME NEW q \in Seq(Commands), NEW cmd \in Commands, NEW f, cmd.file = f, cmd.kind = "close",
         NEW st, st.opened, ~st.closed, NEW st2, st2.opened, st2.closed,
         NEW open, NEW done, NEW late, LifeOf(q, f, st, open, done, late)
  PROVE  LifeOf(Append(q, cmd), f, st2, open, done, late)
<1> DEFINE p == Append(q, cmd)
           n == Len(q) + 1
<1>1. /\ Len(q) \in Nat /\ DOMAIN q = 1 .. Len(q) /\ DOMAIN p = 1 .. n
      /\ \A i \in DOMAIN q : p[i] = q[i]
      /\ p[n] = cmd
  BY AppendFacts
<1>2. n \in Nat
  BY <1>1
<1> HIDE DEF p, n
<1>3. \A i \in DOMAIN p : i = n \/ (i \in DOMAIN q /\ p[i] = q[i])
  BY <1>1 DEF n
<1>4. \A i \in DOMAIN q : i \in DOMAIN p /\ p[i] = q[i] /\ i < n
  BY <1>1 DEF n
<1>5. Of(p, f, "open") = Of(q, f, "open") /\ n \in Of(p, f, "close")
  <2>1. n \in DOMAIN p
    BY <1>1, <1>2 DEF n
  <2> QED BY <1>1, <1>3, <1>4, <2>1 DEF Of
<1>6. \A i, j \in DOMAIN p : i < j => i \in DOMAIN q /\ p[i] = q[i]
  BY <1>1, <1>3, <1>4
<1>7. ASSUME NEW i \in DOMAIN p, NEW j \in DOMAIN p, i < j, p[i].file = f, p[j].file = f
      PROVE  p[i].kind # "close" /\ p[j].kind # "open"
  <2>1. i \in DOMAIN q /\ p[i] = q[i]
    BY <1>6, <1>7
  <2>2. q[i].kind # "close"
    BY <1>7, <2>1 DEF LifeOf, Of
  <2> QED BY <1>1, <1>3, <1>7, <2>1, <2>2 DEF LifeOf
<1>8. ASSUME NEW j \in DOMAIN p, p[j].file = f, p[j].kind # "open"
      PROVE  f \in open \/ \E i \in Of(p, f, "open") : i < j
  <2>1. CASE j \in DOMAIN q /\ p[j] = q[j]
    BY <1>5, <1>8, <2>1 DEF LifeOf
  <2>2. CASE j = n
    <3>1. \A i \in Of(p, f, "open") : i < n
      BY <1>4, <1>5 DEF Of
    <3> QED BY <1>5, <2>2, <3>1 DEF LifeOf
  <2> QED BY <1>3, <2>1, <2>2
<1>9. LifeOf(p, f, st2, open, done, late)
  BY <1>5, <1>7, <1>8 DEF LifeOf
<1> QED BY <1>9 DEF p

LEMMA LifeTailOther ==
  ASSUME NEW q \in Seq(Commands), q # <<>>, NEW f, Head(q).file # f,
         NEW st, NEW open, NEW done, NEW late, LifeOf(q, f, st, open, done, late)
  PROVE  LifeOf(Tail(q), f, st, open, done, late)
<1> DEFINE p == Tail(q)
<1>1. /\ Len(q) \in Nat \ {0} /\ DOMAIN q = 1 .. Len(q) /\ Head(q) = q[1]
      /\ DOMAIN p = 1 .. Len(q) - 1
      /\ \A i \in DOMAIN p : i + 1 \in DOMAIN q /\ p[i] = q[i + 1]
  BY TailFacts
<1> HIDE DEF p
<1>2. \A i \in DOMAIN q : q[i].file = f => i - 1 \in DOMAIN p /\ p[i - 1] = q[i]
  <2> SUFFICES ASSUME NEW i \in DOMAIN q, q[i].file = f
               PROVE  i - 1 \in DOMAIN p /\ p[i - 1] = q[i]
    OBVIOUS
  <2>1. i # 1 /\ i - 1 \in 1 .. Len(q) - 1 /\ (i - 1) + 1 = i
    BY <1>1
  <2> QED BY <1>1, <2>1
<1>3. \A i \in DOMAIN p : i \in Int
  BY <1>1
<1>4. \A kind : /\ \A i \in Of(q, f, kind) : i - 1 \in Of(p, f, kind)
                /\ \A i \in Of(p, f, kind) : i + 1 \in Of(q, f, kind)
  BY <1>1, <1>2 DEF Of
<1>5. NoneOf(q, f) => NoneOf(p, f)
  BY <1>1 DEF NoneOf
<1>6. \A kind : Of(q, f, kind) = {} <=> Of(p, f, kind) = {}
  BY <1>4
<1>7. ASSUME NEW j \in DOMAIN p, p[j].file = f, p[j].kind # "open"
      PROVE  f \in open \/ \E i \in Of(p, f, "open") : i < j
  <2>1. j + 1 \in DOMAIN q /\ q[j + 1].file = f /\ q[j + 1].kind # "open"
    BY <1>1, <1>7
  <2>2. f \in open \/ \E i \in Of(q, f, "open") : i < j + 1
    BY <2>1 DEF LifeOf
  <2>3. ASSUME NEW i \in Of(q, f, "open"), i < j + 1 PROVE i - 1 \in Of(p, f, "open") /\ i - 1 < j
    BY <1>1, <1>3, <1>4, <2>3 DEF Of
  <2> QED BY <2>2, <2>3
<1>8. ASSUME NEW i \in DOMAIN p, NEW j \in DOMAIN p, i < j, p[i].file = f, p[j].file = f
      PROVE  p[i].kind # "close" /\ p[j].kind # "open"
  BY <1>1, <1>3, <1>8 DEF LifeOf
<1>9. LifeOf(p, f, st, open, done, late)
  BY <1>5, <1>6, <1>7, <1>8 DEF LifeOf
<1> QED BY <1>9 DEF p

(* A file's own command leaves the queue: it was opened with it, had it     *)
(* open already, or is done with.                                           *)
LEMMA LifeTail ==
  ASSUME NEW q \in Seq(Commands), q # <<>>, NEW f, Head(q).file = f,
         NEW st, NEW open, NEW done, NEW late, LifeOf(q, f, st, open, done, late),
         NEW open2, NEW done2, NEW late2, f \in done \/ late # {} => f \in done2 \/ late2 # {}
  PROVE  /\ Head(q).kind = "open" /\ f \in open2 =>
              LifeOf(Tail(q), f, st, open2, done2, late2)
         /\ Head(q).kind = "write" => f \in open
         /\ Head(q).kind = "write" /\ f \in open2 =>
              LifeOf(Tail(q), f, st, open2, done2, late2)
         /\ Head(q).kind = "close" => f \in open
         /\ Head(q).kind = "close" /\ f \notin open2 /\ (f \in done2 \/ late2 # {}) =>
              LifeOf(Tail(q), f, st, open2, done2, late2)
<1> DEFINE p == Tail(q)
<1>1. /\ Len(q) \in Nat \ {0} /\ DOMAIN q = 1 .. Len(q) /\ Head(q) = q[1]
      /\ DOMAIN p = 1 .. Len(q) - 1
      /\ \A i \in DOMAIN p : i + 1 \in DOMAIN q /\ p[i] = q[i + 1]
  BY TailFacts
<1> HIDE DEF p
<1>2. \A i \in DOMAIN q : i # 1 => i - 1 \in DOMAIN p /\ p[i - 1] = q[i]
  <2> SUFFICES ASSUME NEW i \in DOMAIN q, i # 1
               PROVE  i - 1 \in DOMAIN p /\ p[i - 1] = q[i]
    OBVIOUS
  <2>1. i # 1 /\ i - 1 \in 1 .. Len(q) - 1 /\ (i - 1) + 1 = i
    BY <1>1
  <2> QED BY <1>1, <2>1
<1>3. /\ \A i \in DOMAIN p : i \in Int /\ i >= 1
      /\ 1 \in DOMAIN q /\ q[1].file = f
  BY <1>1
<1>4. st.opened
  BY <1>3 DEF LifeOf, NoneOf
<1>5. ASSUME NEW i \in DOMAIN p, NEW j \in DOMAIN p, i < j, p[i].file = f, p[j].file = f
      PROVE  p[i].kind # "close" /\ p[j].kind # "open"
  BY <1>1, <1>3, <1>5 DEF LifeOf
<1>6. \A kind : \A i \in Of(p, f, kind) : i + 1 \in Of(q, f, kind)
  BY <1>1 DEF Of
<1>7. \A i \in DOMAIN p : p[i].file = f => p[i].kind # "open" /\ q[1].kind # "close"
  <2> SUFFICES ASSUME NEW i \in DOMAIN p, p[i].file = f
               PROVE  p[i].kind # "open" /\ q[1].kind # "close"
    OBVIOUS
  <2>1. i + 1 \in DOMAIN q /\ p[i] = q[i + 1] /\ 1 < i + 1
    BY <1>1, <1>3
  <2> QED BY <1>3, <2>1 DEF LifeOf
<1>8. Of(p, f, "open") = {}
  BY <1>7 DEF Of
<1>9. ~st.closed => Of(p, f, "close") = {}
  BY <1>6 DEF LifeOf
<1>10. q[1].kind # "close" /\ Of(p, f, "close") = {} => Of(q, f, "close") = {}
  <2> SUFFICES ASSUME q[1].kind # "close", NEW i \in Of(q, f, "close")
               PROVE  i - 1 \in Of(p, f, "close")
    OBVIOUS
  <2> QED BY <1>2 DEF Of
<1>11. Of(q, f, "close") = {} => ~st.closed
  BY <1>3 DEF LifeOf, NoneOf
<1>12. CASE q[1].kind = "open"
  <2>1. f \in open2 => LifeOf(p, f, st, open2, done2, late2)
    BY <1>4, <1>5, <1>8, <1>9, <1>10, <1>11, <1>12 DEF LifeOf
  <2> QED BY <1>1, <1>12, <2>1 DEF p
<1>13. CASE q[1].kind # "open"
  <2>1. \A i \in Of(q, f, "open") : ~(i < 1)
    BY <1>1 DEF Of
  <2>2. f \in open
    BY <1>3, <1>13, <2>1 DEF LifeOf
  <2>3. CASE q[1].kind = "write"
    <3>1. f \in open2 => LifeOf(p, f, st, open2, done2, late2)
      BY <1>4, <1>5, <1>8, <1>9, <1>10, <1>11, <2>2, <2>3 DEF LifeOf
    <3> QED BY <1>1, <2>2, <2>3, <3>1 DEF p
  <2>4. CASE q[1].kind = "close"
    <3>1. \A i \in DOMAIN p : p[i].file # f
      BY <1>7, <2>4
    <3>2. st.closed
      BY <1>3, <2>4 DEF LifeOf, Of
    <3>3. Of(p, f, "close") = {}
      BY <3>1 DEF Of
    <3>4. f \notin open2 /\ (f \in done2 \/ late2 # {}) =>
            LifeOf(p, f, st, open2, done2, late2)
      BY <1>4, <1>8, <3>1, <3>2, <3>3 DEF LifeOf, NoneOf
    <3> QED BY <1>1, <2>2, <2>4, <3>4 DEF p
  <2> QED BY <1>1, <1>13, <2>3, <2>4
<1> QED BY <1>12, <1>13

(* Steps that touch no file, no queue, and no state of a writer keep every  *)
(* life.                                                                    *)
LEMMA LifeFrame ==
  ASSUME NEW q, NEW f, NEW st, NEW open, NEW done, NEW late, LifeOf(q, f, st, open, done, late),
         NEW st2, st2.opened <=> st.opened, st2.closed <=> st.closed,
         NEW open2, f \in open2 <=> f \in open,
         NEW done2, NEW late2, f \in done \/ late # {} => f \in done2 \/ late2 # {}
  PROVE  LifeOf(q, f, st2, open2, done2, late2)
BY DEF LifeOf

(* A command sent, as file g sees it.                                       *)
LEMMA LifeEnqueue ==
  ASSUME NEW Q \in [Writers -> Seq(Commands)], NEW cmd \in Commands, NEW g \in Files,
         NEW st, NEW open, NEW done, NEW late,
         LifeOf(Q[WriterOf(g)], g, st, open, done, late)
  PROVE  /\ cmd.file # g => LifeOf(Enqueue(Q, cmd)[WriterOf(g)], g, st, open, done, late)
         /\ cmd.file = g /\ cmd.kind = "write" /\ st.opened /\ ~st.closed =>
              LifeOf(Enqueue(Q, cmd)[WriterOf(g)], g, st, open, done, late)
         /\ \A st2 : cmd.file = g /\ cmd.kind = "open" /\ ~st.opened /\ st2.opened
                       /\ (st2.closed <=> st.closed) =>
              LifeOf(Enqueue(Q, cmd)[WriterOf(g)], g, st2, open, done, late)
         /\ \A st2 : cmd.file = g /\ cmd.kind = "close" /\ st.opened /\ ~st.closed
                       /\ st2.opened /\ st2.closed =>
              LifeOf(Enqueue(Q, cmd)[WriterOf(g)], g, st2, open, done, late)
<1> DEFINE E == Enqueue(Q, cmd)
           v == WriterOf(g)
<1>1. /\ v \in Writers /\ Q[v] \in Seq(Commands)
      /\ WriterOf(cmd.file) = v => E[v] = Append(Q[v], cmd)
      /\ WriterOf(cmd.file) # v => E[v] = Q[v]
  BY WriterExists DEF Enqueue
<1> HIDE DEF E, v
<1>0. LifeOf(Q[v], g, st, open, done, late)
  BY DEF v
<1>2. ASSUME cmd.file # g PROVE LifeOf(E[v], g, st, open, done, late)
  BY <1>0, <1>1, <1>2, LifeAppendOther
<1>3. ASSUME cmd.file = g PROVE E[v] = Append(Q[v], cmd)
  BY <1>1, <1>3 DEF v
<1>4. ASSUME cmd.file = g, cmd.kind = "write", st.opened, ~st.closed
      PROVE  LifeOf(E[v], g, st, open, done, late)
  BY <1>0, <1>1, <1>3, <1>4, LifeAppendWrite
<1>5. ASSUME cmd.file = g, cmd.kind = "open", ~st.opened, NEW st2, st2.opened, st2.closed <=> st.closed
      PROVE  LifeOf(E[v], g, st2, open, done, late)
  <2>1. LifeOf(Append(Q[v], cmd), g, st2, open, done, late)
    BY <1>0, <1>1, <1>5, LifeAppendOpen, Zenon
  <2> QED BY <1>3, <1>5, <2>1, Zenon
<1>6. ASSUME cmd.file = g, cmd.kind = "close", st.opened, ~st.closed, NEW st2, st2.opened, st2.closed
      PROVE  LifeOf(E[v], g, st2, open, done, late)
  <2>1. LifeOf(Append(Q[v], cmd), g, st2, open, done, late)
    BY <1>0, <1>1, <1>6, LifeAppendClose, Zenon
  <2> QED BY <1>3, <1>6, <2>1, Zenon
<1> QED BY <1>2, <1>4, <1>5, <1>6 DEF E, v

(* The main thread moves no open file, syncs none and defers no error.      *)
OpenSame(r) == files'[r] = files[r] /\ synced'[r] = synced[r] /\ deferred'[r] = deferred[r]

(* maybe_close_file adds the Close when the file is open and has nothing    *)
(* more to come.                                                            *)
LEMMA LifeClose ==
  ASSUME TypeOK, NEW r \in Ranks, NEW f \in Files, NEW st \in FileStates,
         NEW Q \in [Writers -> Seq(Commands)], MaybeCloseFile(r, f, st, Q), OpenSame(r),
         NEW g \in Files, NEW gst \in FileStates, g = f => gst = st,
         g # f => gst = file_state[r][g],
         LifeOf(Q[WriterOf(g)], g, gst, files[r], synced[r], deferred[r])
  PROVE  Life(r, g)'
<1> DEFINE cmd == CloseFile(f)
           E == Enqueue(Q, cmd)
           st2 == AsClosed(gst)
<1>1. /\ \/ MayClose(f, st) /\ cmds'[r] = E /\ file_state'[r][f] = AsClosed(st)
         \/ ~MayClose(f, st) /\ cmds'[r] = Q /\ file_state'[r][f] = st
      /\ \A h \in Files : h # f => file_state'[r][h] = file_state[r][h]
  BY MaybeCloseEffect
<1>2. cmd \in Commands /\ cmd.file = f /\ cmd.kind = "close"
  BY CommandTypes DEF CloseFile, OpenFile
<1>3. st2.opened = gst.opened /\ st2.closed = TRUE
  BY ClosedFacts
<1>4. files'[r] = files[r] /\ synced'[r] = synced[r] /\ deferred'[r] = deferred[r]
  BY DEF OpenSame
<1>5. (g = f /\ MayClose(f, st)) => file_state'[r][g] = st2
  BY <1>1
<1>6. ~(g = f /\ MayClose(f, st)) => file_state'[r][g] = gst
  BY <1>1
<1> HIDE DEF st2, cmd
<1>7. LifeOf(cmds'[r][WriterOf(g)], g, file_state'[r][g], files[r], synced[r], deferred[r])
  <2>1. CASE ~MayClose(f, st)
    BY <1>1, <1>6, <2>1
  <2>2. CASE MayClose(f, st) /\ g # f
    <3>1. LifeOf(Enqueue(Q, cmd)[WriterOf(g)], g, gst, files[r], synced[r], deferred[r])
      BY <1>2, <2>2, LifeEnqueue
    <3> QED BY <1>1, <1>6, <2>2, <3>1
  <2>3. CASE MayClose(f, st) /\ g = f
    <3>1. gst.opened /\ ~gst.closed /\ st2.opened /\ st2.closed
      BY <1>3, <2>3 DEF MayClose
    <3>2. LifeOf(Enqueue(Q, cmd)[WriterOf(g)], g, st2, files[r], synced[r], deferred[r])
      BY <1>2, <2>3, <3>1, LifeEnqueue
    <3> QED BY <1>1, <1>5, <2>3, <3>2
  <2> QED BY <2>1, <2>2, <2>3
<1> QED BY <1>4, <1>7 DEF Life

(* The same for a FileState that changes in its counters alone.             *)
LEMMA LifeCounted ==
  ASSUME TypeOK, NEW r \in Ranks, NEW f \in Files, NEW Q \in [Writers -> Seq(Commands)],
         NEW st \in FileStates, NEW new \in FileStates,
         new.opened = st.opened, new.closed = st.closed,
         MaybeCloseFile(r, f, new, Q), OpenSame(r),
         NEW g \in Files, NEW gst \in FileStates, g = f => gst = st,
         g # f => gst = file_state[r][g],
         LifeOf(Q[WriterOf(g)], g, gst, files[r], synced[r], deferred[r])
  PROVE  Life(r, g)'
<1> DEFINE gnew == IF g = f THEN new ELSE gst
<1>2. gnew \in FileStates /\ (gnew.opened <=> gst.opened) /\ (gnew.closed <=> gst.closed)
  OBVIOUS
<1>3. g = f => gnew = new
  OBVIOUS
<1>4. g # f => gnew = file_state[r][g]
  OBVIOUS
<1> HIDE DEF gnew
<1>5. LifeOf(Q[WriterOf(g)], g, gnew, files[r], synced[r], deferred[r])
  BY <1>2, LifeFrame
<1> QED BY <1>2, <1>3, <1>4, <1>5, LifeClose

LEMMA LifeKeep ==
  ASSUME NEW r \in Ranks, NEW g \in Files, Life(r, g), cmds'[r] = cmds[r],
         file_state'[r][g].opened <=> file_state[r][g].opened,
         file_state'[r][g].closed <=> file_state[r][g].closed, OpenSame(r)
  PROVE  Life(r, g)'
<1>1. LifeOf(cmds[r][WriterOf(g)], g, file_state'[r][g], files[r], synced[r], deferred[r])
  BY LifeFrame DEF Life
<1> QED BY <1>1 DEF Life, OpenSame

(* Commands go to the writer of their file.                                 *)
LEMMA RoutedEnqueue ==
  ASSUME NEW Q \in [Writers -> Seq(Commands)], NEW cmd \in Commands, Routed(Q)
  PROVE  Routed(Enqueue(Q, cmd))
<1> DEFINE E == Enqueue(Q, cmd)
<1>1. E = Enqueue(Q, cmd)
  OBVIOUS
<1> HIDE DEF E
<1>2. \A w \in Writers : \A i \in DOMAIN E[w] :
        \/ i \in DOMAIN Q[w] /\ E[w][i] = Q[w][i]
        \/ E[w][i] = cmd /\ w = WriterOf(cmd.file)
  BY <1>1, EnqueueEither
<1>3. Routed(E)
  BY <1>2 DEF Routed
<1> QED BY <1>3 DEF E

LEMMA RoutedMaybeClose ==
  ASSUME TypeOK, NEW r \in Ranks, NEW f \in Files, NEW st \in FileStates,
         NEW Q \in [Writers -> Seq(Commands)], MaybeCloseFile(r, f, st, Q), Routed(Q)
  PROVE  Routed(cmds'[r])
<1>1. cmds'[r] = Q \/ cmds'[r] = Enqueue(Q, CloseFile(f))
  BY MaybeCloseEffect
<1>2. CloseFile(f) \in Commands
  BY CommandTypes
<1> QED BY <1>1, <1>2, RoutedEnqueue

LEMMA RoutedDequeue ==
  ASSUME TypeOK, NEW r \in Ranks, NEW w \in Writers, NEW kind, Dequeue(r, w, kind), Routed(cmds[r])
  PROVE  Routed(cmds'[r])
<1> SUFFICES ASSUME NEW v \in Writers, NEW i \in DOMAIN cmds'[r][v]
             PROVE  WriterOf(cmds'[r][v][i].file) = v
  BY DEF Routed
<1>1. CASE v = w
  BY <1>1, DequeueFacts DEF Routed
<1>2. CASE v # w
  BY <1>2, DequeueFacts DEF Routed
<1> QED BY <1>1, <1>2

(* What a writer does to the files it has open.                             *)
LEMMA WriterEffect ==
  ASSUME TypeOK, NEW r \in Ranks, NEW w \in Writers, WritersStep(r, w), ~WriterExit(r, w)
  PROVE  LET f == Head(cmds[r][w]).file
             k == Head(cmds[r][w]).kind
         IN /\ Dequeue(r, w, k) /\ file_state' = file_state
            /\ cmds'[r][w] = Tail(cmds[r][w]) /\ cmds[r][w] # <<>>
            /\ \A v \in Writers : v # w => cmds'[r][v] = cmds[r][v]
            /\ \A g : g # f => (g \in files'[r] <=> g \in files[r])
            /\ \A g : g \in synced[r] => g \in synced'[r]
            /\ deferred[r] # {} => deferred'[r] # {}
            /\ \/ k = "open" /\ f \in files'[r]
               \/ k = "write" /\ files'[r] = files[r]
               \/ /\ k = "close" /\ f \notin files'[r]
                  /\ f \in files[r] => f \in synced'[r] \/ deferred'[r] # {}
<1> DEFINE f == Head(cmds[r][w]).file
           k == Head(cmds[r][w]).kind
<1>t. /\ files \in [Ranks -> SUBSET Files] /\ synced \in [Ranks -> SUBSET Files]
      /\ deferred \in [Ranks -> SUBSET Writers]
      /\ cmds \in [Ranks -> [Writers -> Seq(Commands)]]
  BY DEF TypeOK
<1>1. CASE WriterOpen(r, w)
  BY <1>1, <1>t DEF WriterOpen, Dequeue
<1>2. CASE WriterWrite(r, w)
  <2>1. /\ Dequeue(r, w, "write") /\ UNCHANGED <<file_state, files, deferred, synced>>
    BY <1>2 DEF WriterWrite
  <2> QED BY <2>1, <1>t DEF Dequeue
<1>3. CASE WriterClose(r, w)
  <2>1. /\ Dequeue(r, w, "close") /\ UNCHANGED file_state
        /\ files' = [files EXCEPT ![r] = @ \ {f}]
        /\ \/ f \notin files[r] /\ UNCHANGED <<synced, deferred>>
           \/ synced' = [synced EXCEPT ![r] = @ \cup {f}] /\ UNCHANGED deferred
           \/ deferred' = [deferred EXCEPT ![r] = @ \cup {w}] /\ UNCHANGED synced
    BY <1>3 DEF WriterClose
  <2> QED BY <2>1, <1>t DEF Dequeue
<1> QED BY <1>1, <1>2, <1>3 DEF WritersStep

(* A writer takes the commands in order: Open, Write, Close.                *)
LEMMA LifeWriter ==
  ASSUME TypeOK, NEW r \in Ranks, Routed(cmds[r]), NEW w \in Writers, WritersStep(r, w),
         ~WriterExit(r, w), NEW g \in Files, Life(r, g)
  PROVE  Life(r, g)'
<1> DEFINE q == cmds[r][w]
           f == Head(q).file
           k == Head(q).kind
           v == WriterOf(g)
<1>1. /\ Dequeue(r, w, k) /\ file_state' = file_state
      /\ cmds'[r][w] = Tail(q) /\ q # <<>>
      /\ \A u \in Writers : u # w => cmds'[r][u] = cmds[r][u]
      /\ \A h : h # f => (h \in files'[r] <=> h \in files[r])
      /\ \A h : h \in synced[r] => h \in synced'[r]
      /\ deferred[r] # {} => deferred'[r] # {}
      /\ \/ k = "open" /\ f \in files'[r]
         \/ k = "write" /\ files'[r] = files[r]
         \/ /\ k = "close" /\ f \notin files'[r]
            /\ f \in files[r] => f \in synced'[r] \/ deferred'[r] # {}
  BY WriterEffect
<1>2. q \in Seq(Commands) /\ v \in Writers
  BY WriterExists DEF TypeOK
<1>3. WriterOf(f) = w
  <2>1. 1 \in DOMAIN q /\ q[1] = Head(q)
    BY <1>1, <1>2, TailFacts
  <2> QED BY <2>1 DEF Routed
<1>4. LifeOf(cmds[r][v], g, file_state[r][g], files[r], synced[r], deferred[r])
  BY DEF Life
<1>q. q = cmds[r][w] /\ f = Head(q).file /\ k = Head(q).kind
  OBVIOUS
<1>5. g \in synced[r] \/ deferred[r] # {} => g \in synced'[r] \/ deferred'[r] # {}
  BY <1>1
<1>6. SUFFICES LifeOf(cmds'[r][v], g, file_state[r][g], files'[r], synced'[r], deferred'[r])
  BY <1>1 DEF Life
<1> HIDE DEF q, f, k
<1>7. CASE v # w
  <2>1. g # f
    BY <1>3, <1>7
  <2>2. cmds'[r][v] = cmds[r][v] /\ (g \in files'[r] <=> g \in files[r])
    BY <1>1, <1>2, <1>7, <2>1
  <2> QED BY <1>4, <1>5, <2>2, LifeFrame
<1>8. CASE v = w /\ g # f
  <2>1. LifeOf(q, g, file_state[r][g], files[r], synced[r], deferred[r])
    BY <1>4, <1>8, <1>q
  <2>2. LifeOf(Tail(q), g, file_state[r][g], files[r], synced[r], deferred[r])
    BY <1>1, <1>2, <1>8, <1>q, <2>1, LifeTailOther
  <2>3. g \in files'[r] <=> g \in files[r]
    BY <1>1, <1>8
  <2>4. LifeOf(Tail(q), g, file_state[r][g], files'[r], synced'[r], deferred'[r])
    BY <1>5, <2>2, <2>3, LifeFrame
  <2> QED BY <1>1, <1>8, <2>4
<1>9. CASE v = w /\ g = f
  <2>1. LifeOf(q, f, file_state[r][g], files[r], synced[r], deferred[r])
    BY <1>4, <1>9, <1>q
  <2> DEFINE New == LifeOf(Tail(q), f, file_state[r][g], files'[r], synced'[r], deferred'[r])
  <2>2. f \in synced[r] \/ deferred[r] # {} => f \in synced'[r] \/ deferred'[r] # {}
    BY <1>1
  <2>3. q \in Seq(Commands) /\ q # <<>> /\ Head(q).file = f /\ Head(q).kind = k
    BY <1>1, <1>2, <1>q
  <2>a. ASSUME k = "open", f \in files'[r] PROVE New
    BY <2>1, <2>2, <2>3, <2>a, LifeTail
  <2>b. ASSUME k = "write", files'[r] = files[r] PROVE New
    <3>1. f \in files'[r]
      <4>1. f \in files[r]
        BY <2>1, <2>2, <2>3, <2>b, LifeTail
      <4> QED BY <2>b, <4>1
    <3> QED BY <2>1, <2>2, <2>3, <2>b, <3>1, LifeTail, ZenonT(60)
  <2>c. ASSUME k = "close", f \notin files'[r],
               f \in files[r] => f \in synced'[r] \/ deferred'[r] # {}
        PROVE  New
    <3>1. f \in files[r]
      BY <2>1, <2>2, <2>3, <2>c, LifeTail
    <3>2. f \in synced'[r] \/ deferred'[r] # {}
      BY <2>c, <3>1
    <3> QED BY <2>1, <2>2, <2>3, <2>c, <3>2, LifeTail
  <2> HIDE DEF New
  <2>4. New
    BY <1>1, <2>a, <2>b, <2>c
  <2> QED BY <1>1, <1>9, <2>4 DEF New
<1> QED BY <1>7, <1>8, <1>9

(* The first shard a receiver takes of a file opens it.                     *)
LEMMA LifeStartShard ==
  ASSUME TypeOK, NEW r \in Ranks, StartShard(r), NEW g \in Files, Life(r, g)
  PROVE  Life(r, g)'
<1> DEFINE i == next_plan_idx[r] + 1
           s == Plan[i]
           f == s.file
           st == file_state[r][f]
           opens == NeedsWrite(r, f) /\ ~st.opened
           st1 == [st EXCEPT !.opened = @ \/ opens]
           cmd == OpenFile(f)
           Q == IF opens THEN Enqueue(cmds[r], cmd) ELSE cmds[r]
           gst == IF g = f THEN st1 ELSE file_state[r][g]
<1>1. /\ f \in Files /\ st \in FileStates /\ st1 \in FileStates
      /\ st1.opened = (st.opened \/ opens) /\ st1.closed = st.closed
      /\ Q \in [Writers -> Seq(Commands)]
      /\ OpenSame(r)
      /\ \/ MaybeCloseFile(r, f, Counted(st1, 1, 0, 0), Q)
         \/ /\ file_state' = [file_state EXCEPT ![r][f] = st1]
            /\ cmds' = [cmds EXCEPT ![r] = Q]
  BY StartShardEffect DEF OpenSame, writerVars
<1>2. cmd \in Commands /\ cmd.kind = "open" /\ cmd.file = f
  BY <1>1, CommandTypes DEF OpenFile
<1>t. /\ cmds[r] \in [Writers -> Seq(Commands)] /\ file_state[r][g] \in FileStates
      /\ cmds \in [Ranks -> [Writers -> Seq(Commands)]]
      /\ file_state \in [Ranks -> [Files -> FileStates]]
  BY DEF TypeOK
<1>3. LifeOf(cmds[r][WriterOf(g)], g, file_state[r][g], files[r], synced[r], deferred[r])
  BY DEF Life
<1>4. /\ opens => ~st.opened
      /\ Q = IF opens THEN Enqueue(cmds[r], cmd) ELSE cmds[r]
      /\ gst = IF g = f THEN st1 ELSE file_state[r][g]
      /\ g = f => file_state[r][g] = st
  OBVIOUS
<1> HIDE DEF st, opens, st1, cmd, Q, gst, f
<1>5. LifeOf(Q[WriterOf(g)], g, gst, files[r], synced[r], deferred[r])
  <2>1. CASE ~opens
    <3>1. gst.opened <=> file_state[r][g].opened
      BY <1>1, <1>4, <2>1
    <3>2. gst.closed <=> file_state[r][g].closed
      BY <1>1, <1>4, <2>1
    <3>3. Q = cmds[r]
      BY <1>4, <2>1
    <3> QED BY <1>3, <3>1, <3>2, <3>3, LifeFrame
  <2>2. CASE opens /\ g # f
    <3>1. LifeOf(Enqueue(cmds[r], cmd)[WriterOf(g)], g, file_state[r][g], files[r], synced[r], deferred[r])
      BY <1>2, <1>3, <1>t, <2>2, LifeEnqueue
    <3> QED BY <1>4, <2>2, <3>1
  <2>3. CASE opens /\ g = f
    <3>1. ~file_state[r][g].opened /\ gst.opened /\ (gst.closed <=> file_state[r][g].closed)
      BY <1>1, <1>4, <2>3
    <3>2. LifeOf(Enqueue(cmds[r], cmd)[WriterOf(g)], g, gst, files[r], synced[r], deferred[r])
      BY <1>2, <1>3, <1>t, <2>3, <3>1, LifeEnqueue
    <3> QED BY <1>4, <2>3, <3>2
  <2> QED BY <2>1, <2>2, <2>3
<1>6. gst \in FileStates /\ (g = f => gst = st1) /\ (g # f => gst = file_state[r][g])
  BY <1>1, <1>4, <1>t
<1>7. CASE MaybeCloseFile(r, f, Counted(st1, 1, 0, 0), Q)
  <2> DEFINE more == Counted(st1, 1, 0, 0)
  <2>1. more \in FileStates /\ more.opened = st1.opened /\ more.closed = st1.closed
    <3>1. st1 \in FileStates
      BY <1>1
    <3> QED BY <3>1, CountedFacts
  <2>2. MaybeCloseFile(r, f, more, Q)
    BY <1>7
  <2> HIDE DEF more
  <2> QED BY <1>1, <1>5, <1>6, <2>1, <2>2, LifeCounted
<1>8. CASE /\ file_state' = [file_state EXCEPT ![r][f] = st1]
           /\ cmds' = [cmds EXCEPT ![r] = Q]
  <2>1. file_state'[r][g] = gst /\ cmds'[r] = Q
    BY <1>1, <1>6, <1>8, <1>t
  <2> QED BY <1>1, <1>5, <2>1 DEF Life, OpenSame
<1> QED BY <1>1, <1>7, <1>8

(* The main thread's steps and the life of a file.                          *)
LEMMA LifePostChunk ==
  ASSUME TypeOK, NEW r \in Ranks, PostChunk(r), NEW g \in Files, Life(r, g)
  PROVE  Life(r, g)'
<1> DEFINE f == NextShard(r).file
           st == file_state[r][f]
           more == Counted(st, 1, 1, 0)
           one == Counted(st, 0, 1, 0)
           gst == file_state[r][g]
<1>1. /\ f \in Files /\ st \in FileStates
      /\ \/ MaybeCloseFile(r, f, more, cmds[r])
         \/ file_state' = [file_state EXCEPT ![r][f] = one] /\ cmds' = cmds
  BY PostChunkFiles
<1>2. OpenSame(r)
  BY DEF PostChunk, OpenSame, writerVars
<1>t. /\ cmds[r] \in [Writers -> Seq(Commands)] /\ gst \in FileStates
      /\ file_state \in [Ranks -> [Files -> FileStates]]
  BY DEF TypeOK
<1>3. /\ more \in FileStates /\ more.opened = st.opened /\ more.closed = st.closed
      /\ one \in FileStates /\ one.opened = st.opened /\ one.closed = st.closed
  <2>1. st \in FileStates
    BY <1>1
  <2> HIDE DEF st
  <2> QED BY <2>1, CountedFacts
<1>4. g = f => gst = st
  OBVIOUS
<1>5. LifeOf(cmds[r][WriterOf(g)], g, gst, files[r], synced[r], deferred[r])
  BY DEF Life
<1>g. gst = file_state[r][g]
  OBVIOUS
<1> HIDE DEF f, st, more, one, gst
<1>6. CASE MaybeCloseFile(r, f, more, cmds[r])
  BY <1>1, <1>2, <1>t, <1>3, <1>4, <1>5, <1>6, <1>g, LifeCounted
<1>7. CASE file_state' = [file_state EXCEPT ![r][f] = one] /\ cmds' = cmds
  <2>1. g = f => file_state'[r][g] = one
    BY <1>1, <1>7, <1>t
  <2>2. g # f => file_state'[r][g] = gst
    BY <1>1, <1>7, <1>t, <1>g
  <2>3. (file_state'[r][g].opened <=> gst.opened) /\ (file_state'[r][g].closed <=> gst.closed)
    BY <1>3, <1>4, <2>1, <2>2
  <2>4. cmds'[r] = cmds[r]
    BY <1>7
  <2> QED BY <1>2, <1>g, <2>3, <2>4, LifeKeep
<1> QED BY <1>1, <1>6, <1>7

LEMMA LifeTakeAck ==
  ASSUME TypeOK, NEW r \in Ranks, TakeAck(r), NEW g \in Files, Life(r, g)
  PROVE  Life(r, g)'
<1> DEFINE f == Head(acks[r]).file
           st == file_state[r][f]
           less == Counted(st, 0, 0, -1)
           gst == file_state[r][g]
<1>1. /\ f \in Files /\ st \in FileStates
      /\ MaybeCloseFile(r, f, less, cmds[r]) \/ UNCHANGED fileVars
  BY TakeAckEffect
<1>2. OpenSame(r)
  BY DEF TakeAck, OpenSame
<1>t. /\ cmds[r] \in [Writers -> Seq(Commands)] /\ gst \in FileStates
  BY DEF TypeOK
<1>3. /\ less \in FileStates /\ less.opened = st.opened /\ less.closed = st.closed
  <2>1. ASSUME NEW x \in FileStates
        PROVE  /\ Counted(x, 0, 0, -1) \in FileStates
               /\ Counted(x, 0, 0, -1).opened = x.opened /\ Counted(x, 0, 0, -1).closed = x.closed
    BY CountedFacts
  <2>2. st \in FileStates
    BY <1>1
  <2> HIDE DEF st
  <2> QED BY <2>1, <2>2
<1>4. g = f => gst = st
  OBVIOUS
<1>5. LifeOf(cmds[r][WriterOf(g)], g, gst, files[r], synced[r], deferred[r])
  BY DEF Life
<1>g. gst = file_state[r][g]
  OBVIOUS
<1> HIDE DEF f, st, less, gst
<1>6. CASE MaybeCloseFile(r, f, less, cmds[r])
  BY <1>1, <1>2, <1>t, <1>3, <1>4, <1>5, <1>6, <1>g, LifeCounted
<1>7. CASE UNCHANGED fileVars
  BY <1>2, <1>7, LifeKeep DEF fileVars
<1> QED BY <1>1, <1>6, <1>7

(* A Write goes out for a file that is open and not yet closed.             *)
LEMMA LifeComplete ==
  ASSUME TypeOK, NEW r \in Ranks, NEW e \in in_flight[r], Complete(r, e[1], e[2]),
         NeedsWrite(r, wire[r][e[1]].file) =>
           /\ file_state[r][wire[r][e[1]].file].opened
           /\ ~file_state[r][wire[r][e[1]].file].closed,
         NEW g \in Files, Life(r, g)
  PROVE  Life(r, g)'
<1> DEFINE c == wire[r][e[1]]
           f == c.file
           st == file_state[r][f]
           cmd == Write(c)
           Q == Enqueue(cmds[r], cmd)
           moved == Counted(st, 0, -1, 1)
           less == Counted(st, 0, -1, 0)
           gst == file_state[r][g]
<1>1. /\ f \in Files /\ st \in FileStates /\ cmd \in Commands
      /\ \/ UNCHANGED <<file_state, cmds>>
         \/ NeedsWrite(r, f) /\ MaybeCloseFile(r, f, moved, Q)
         \/ MaybeCloseFile(r, f, less, cmds[r])
  BY CompleteEffect
<1>2. OpenSame(r)
  BY DEF Complete, OpenSame, writerVars
<1>t. /\ cmds[r] \in [Writers -> Seq(Commands)] /\ gst \in FileStates
  BY DEF TypeOK
<1>3. /\ less \in FileStates /\ less.opened = st.opened /\ less.closed = st.closed
      /\ moved \in FileStates /\ moved.opened = st.opened /\ moved.closed = st.closed
  <2>1. ASSUME NEW x \in FileStates
        PROVE  /\ Counted(x, 0, -1, 0) \in FileStates
               /\ Counted(x, 0, -1, 0).opened = x.opened /\ Counted(x, 0, -1, 0).closed = x.closed
               /\ Counted(x, 0, -1, 1) \in FileStates
               /\ Counted(x, 0, -1, 1).opened = x.opened /\ Counted(x, 0, -1, 1).closed = x.closed
    BY CountedFacts
  <2>2. st \in FileStates
    BY <1>1
  <2> HIDE DEF st
  <2> QED BY <2>1, <2>2
<1>4. g = f => gst = st
  OBVIOUS
<1>5. LifeOf(cmds[r][WriterOf(g)], g, gst, files[r], synced[r], deferred[r])
  BY DEF Life
<1>g. gst = file_state[r][g]
  OBVIOUS
<1>h. cmd.kind = "write" /\ cmd.file = f /\ (NeedsWrite(r, f) => st.opened /\ ~st.closed)
  BY DEF Write
<1>q. Q = Enqueue(cmds[r], cmd)
  OBVIOUS
<1> HIDE DEF f, st, less, gst, cmd, Q, moved, c
<1>6. CASE MaybeCloseFile(r, f, less, cmds[r])
  BY <1>1, <1>2, <1>t, <1>3, <1>4, <1>5, <1>6, <1>g, LifeCounted
<1>7. CASE UNCHANGED <<file_state, cmds>>
  BY <1>2, <1>7, LifeKeep
<1>8. CASE NeedsWrite(r, f) /\ MaybeCloseFile(r, f, moved, Q)
  <2>1. Q \in [Writers -> Seq(Commands)]
    BY <1>1, <1>t, <1>q, EnqueueType
  <2>2. LifeOf(Q[WriterOf(g)], g, gst, files[r], synced[r], deferred[r])
    <3>1. CASE g # f
      <4>1. cmd.file # g
        BY <1>h, <3>1
      <4> QED BY <1>1, <1>t, <1>5, <1>q, <4>1, LifeEnqueue
    <3>2. CASE g = f
      <4>1. cmd.file = g /\ cmd.kind = "write" /\ gst.opened /\ ~gst.closed
        BY <1>4, <1>8, <1>h, <3>2
      <4> QED BY <1>1, <1>t, <1>5, <1>q, <4>1, LifeEnqueue
    <3> QED BY <3>1, <3>2
  <2> QED BY <1>1, <1>2, <1>t, <1>3, <1>4, <1>8, <1>g, <2>1, <2>2, LifeCounted
<1> QED BY <1>1, <1>6, <1>7, <1>8

------------------------------------------------------------------------------
(* Files are opened before the first shard of theirs: Opened is inductive.  *)
LEMMA MaybeCloseOpened ==
  ASSUME TypeOK, NEW r \in Ranks, NEW f \in Files, NEW st \in FileStates,
         NEW Q \in [Writers -> Seq(Commands)], MaybeCloseFile(r, f, st, Q)
  PROVE  /\ file_state'[r][f].opened = st.opened
         /\ \A g \in Files : g # f => file_state'[r][g] = file_state[r][g]
<1>1. file_state'[r][f] = AsClosed(st) \/ file_state'[r][f] = st
  BY MaybeCloseEffect
<1>2. AsClosed(st).opened = st.opened
  BY ClosedFacts
<1>3. \A g \in Files : g # f => file_state'[r][g] = file_state[r][g]
  BY MaybeCloseEffect
<1> QED BY <1>1, <1>2, <1>3

StaysOpen(r) == \A g \in Files : file_state[r][g].opened => file_state'[r][g].opened

LEMMA OpenedKeep ==
  ASSUME TypeOK, NEW r \in Ranks, Opened(r), StaysOpen(r),
         next_plan_idx'[r] = next_plan_idx[r], wire'[r] = wire[r]
  PROVE  Opened(r)'
<1>1. ASSUME NEW i \in 1 .. next_plan_idx[r], NeedsWrite(r, Plan[i].file)
      PROVE  file_state'[r][Plan[i].file].opened
  <2>1. Plan[i].file \in Files
    <3>1. i \in DOMAIN Plan
      BY <1>1, BroadcastAssumption DEF TypeOK
    <3>2. Plan[i] \in Shard
      BY <3>1, BroadcastAssumption
    <3> QED BY <3>2 DEF Shard
  <2> QED BY <1>1, <2>1 DEF Opened, StaysOpen
<1>2. ASSUME NEW k \in DOMAIN wire[r], NeedsWrite(r, wire[r][k].file)
      PROVE  file_state'[r][wire[r][k].file].opened
  <2>1. wire[r][k].file \in Files
    <3>1. wire[r][k] \in Chunks
      BY <1>2 DEF TypeOK
    <3> QED BY <3>1 DEF Chunks
  <2> QED BY <1>2, <2>1 DEF Opened, StaysOpen
<1> QED BY <1>1, <1>2 DEF Opened, NeedsWrite

LEMMA OpenedTakeAck ==
  ASSUME TypeOK, NEW r \in Ranks, Opened(r), TakeAck(r)
  PROVE  Opened(r)'
<1> DEFINE f == Head(acks[r]).file
           st == file_state[r][f]
           less == Counted(st, 0, 0, -1)
<1>1. /\ f \in Files /\ st \in FileStates
      /\ MaybeCloseFile(r, f, less, cmds[r]) \/ UNCHANGED fileVars
      /\ next_plan_idx'[r] = next_plan_idx[r] /\ wire'[r] = wire[r]
  BY TakeAckEffect DEF cursorVars, bcastVars
<1>2. less \in FileStates /\ less.opened = st.opened
  <2>1. ASSUME NEW x \in FileStates
        PROVE  Counted(x, 0, 0, -1) \in FileStates /\ Counted(x, 0, 0, -1).opened = x.opened
    BY CountedFacts
  <2>2. st \in FileStates
    BY <1>1
  <2> HIDE DEF st
  <2> QED BY <2>1, <2>2
<1>t. cmds[r] \in [Writers -> Seq(Commands)] /\ st = file_state[r][f]
  BY DEF TypeOK
<1> HIDE DEF f, st, less
<1>3. StaysOpen(r)
  <2>1. CASE UNCHANGED fileVars
    BY <2>1 DEF fileVars, StaysOpen
  <2>2. CASE MaybeCloseFile(r, f, less, cmds[r])
    <3>1. /\ file_state'[r][f].opened = less.opened
          /\ \A g \in Files : g # f => file_state'[r][g] = file_state[r][g]
      BY <1>1, <1>2, <1>t, <2>2, MaybeCloseOpened
    <3> QED BY <1>2, <1>t, <3>1 DEF StaysOpen
  <2> QED BY <1>1, <2>1, <2>2
<1> QED BY <1>1, <1>3, OpenedKeep

LEMMA OpenedComplete ==
  ASSUME TypeOK, NEW r \in Ranks, Opened(r), NEW e \in in_flight[r], Complete(r, e[1], e[2])
  PROVE  Opened(r)'
<1> DEFINE c == wire[r][e[1]]
           f == c.file
           st == file_state[r][f]
           cmd == Write(c)
           Q == Enqueue(cmds[r], cmd)
           moved == Counted(st, 0, -1, 1)
           less == Counted(st, 0, -1, 0)
<1>1. /\ f \in Files /\ st \in FileStates /\ cmd \in Commands
      /\ \/ UNCHANGED <<file_state, cmds>>
         \/ MaybeCloseFile(r, f, moved, Q)
         \/ MaybeCloseFile(r, f, less, cmds[r])
      /\ next_plan_idx' = next_plan_idx /\ wire' = wire
  BY CompleteEffect
<1>2. /\ less \in FileStates /\ less.opened = st.opened
      /\ moved \in FileStates /\ moved.opened = st.opened
  <2>1. ASSUME NEW x \in FileStates
        PROVE  /\ Counted(x, 0, -1, 0) \in FileStates
               /\ Counted(x, 0, -1, 0).opened = x.opened /\ Counted(x, 0, -1, 0).closed = x.closed
               /\ Counted(x, 0, -1, 1) \in FileStates
               /\ Counted(x, 0, -1, 1).opened = x.opened /\ Counted(x, 0, -1, 1).closed = x.closed
    BY CountedFacts
  <2>2. st \in FileStates
    BY <1>1
  <2> HIDE DEF st
  <2> QED BY <2>1, <2>2
<1>t. cmds[r] \in [Writers -> Seq(Commands)] /\ st = file_state[r][f]
  BY DEF TypeOK
<1>q. Q = Enqueue(cmds[r], cmd)
  OBVIOUS
<1> HIDE DEF f, st, less, cmd, Q, moved, c
<1>3. Q \in [Writers -> Seq(Commands)]
  BY <1>1, <1>t, <1>q, EnqueueType
<1>4. StaysOpen(r)
  <2>1. CASE UNCHANGED <<file_state, cmds>>
    BY <2>1 DEF StaysOpen
  <2>2. CASE MaybeCloseFile(r, f, less, cmds[r])
    <3>1. /\ file_state'[r][f].opened = less.opened
          /\ \A g \in Files : g # f => file_state'[r][g] = file_state[r][g]
      BY <1>1, <1>2, <1>t, <2>2, MaybeCloseOpened
    <3> QED BY <1>2, <1>t, <3>1 DEF StaysOpen
  <2>3. CASE MaybeCloseFile(r, f, moved, Q)
    <3>1. /\ file_state'[r][f].opened = moved.opened
          /\ \A g \in Files : g # f => file_state'[r][g] = file_state[r][g]
      BY <1>1, <1>2, <1>3, <2>3, MaybeCloseOpened
    <3> QED BY <1>2, <1>t, <3>1 DEF StaysOpen
  <2> QED BY <1>1, <2>1, <2>2, <2>3
<1> QED BY <1>1, <1>4, OpenedKeep

LEMMA OpenedPostChunk ==
  ASSUME TypeOK, NEW r \in Ranks, Opened(r), PostChunk(r)
  PROVE  Opened(r)'
<1> DEFINE f == NextShard(r).file
           st == file_state[r][f]
           more == Counted(st, 1, 1, 0)
           one == Counted(st, 0, 1, 0)
           c == NextChunk(r)
           i == next_plan_idx[r]
<1>1. /\ f \in Files /\ st \in FileStates
      /\ \/ MaybeCloseFile(r, f, more, cmds[r])
         \/ file_state' = [file_state EXCEPT ![r][f] = one] /\ cmds' = cmds
  BY PostChunkFiles
<1>2. /\ more \in FileStates /\ more.opened = st.opened
      /\ one \in FileStates /\ one.opened = st.opened
  <2>1. st \in FileStates
    BY <1>1
  <2> HIDE DEF st
  <2> QED BY <2>1, CountedFacts
<1>3. /\ next_plan_idx'[r] = i /\ wire'[r] = Append(wire[r], c) /\ c \in Chunks
      /\ wire[r] \in Seq(Chunks) /\ c.file = f /\ active[r]
  BY PostChunkEffect
<1>t. /\ cmds[r] \in [Writers -> Seq(Commands)] /\ st = file_state[r][f]
      /\ file_state \in [Ranks -> [Files -> FileStates]]
  BY DEF TypeOK
<1>4. i \in 1 .. Len(Plan) /\ Plan[i].file = f
  <2>1. i \in 0 .. Len(Plan) /\ i > 0
    BY <1>3 DEF TypeOK
  <2> QED BY <2>1 DEF NextShard
<1>5. Len(Plan) \in Nat /\ i \in 1 .. i
  BY <1>4, BroadcastAssumption
<1>i. i = next_plan_idx[r]
  OBVIOUS
<1> HIDE DEF f, st, more, one, c, i
<1>6. StaysOpen(r)
  <2>1. CASE file_state' = [file_state EXCEPT ![r][f] = one] /\ cmds' = cmds
    <3>1. /\ file_state'[r][f].opened = one.opened
          /\ \A g \in Files : g # f => file_state'[r][g] = file_state[r][g]
      BY <1>1, <1>t, <2>1
    <3> QED BY <1>2, <1>t, <3>1 DEF StaysOpen
  <2>2. CASE MaybeCloseFile(r, f, more, cmds[r])
    <3>1. /\ file_state'[r][f].opened = more.opened
          /\ \A g \in Files : g # f => file_state'[r][g] = file_state[r][g]
      BY <1>1, <1>2, <1>t, <2>2, MaybeCloseOpened
    <3> QED BY <1>2, <1>t, <3>1 DEF StaysOpen
  <2> QED BY <1>1, <2>1, <2>2
<1>7. /\ Len(wire[r]) \in Nat /\ DOMAIN wire[r] = 1 .. Len(wire[r])
      /\ DOMAIN wire'[r] = 1 .. Len(wire[r]) + 1
      /\ \A k \in DOMAIN wire[r] : wire'[r][k] = wire[r][k]
      /\ wire'[r][Len(wire[r]) + 1] = c
  BY <1>3, AppendFacts
<1>8. ASSUME NEW j \in 1 .. i, NeedsWrite(r, Plan[j].file)
      PROVE  file_state'[r][Plan[j].file].opened
  <2>1. Plan[j].file \in Files
    <3>1. j \in DOMAIN Plan
      BY <1>4, <1>5, <1>8, BroadcastAssumption
    <3>2. Plan[j] \in Shard
      BY <3>1, BroadcastAssumption
    <3> QED BY <3>2 DEF Shard
  <2> QED BY <1>6, <1>8, <1>i, <2>1 DEF Opened, StaysOpen
<1>9. ASSUME NEW k \in DOMAIN wire'[r], NeedsWrite(r, wire'[r][k].file)
      PROVE  file_state'[r][wire'[r][k].file].opened
  <2>1. CASE k \in DOMAIN wire[r]
    <3>1. wire[r][k] \in Chunks /\ wire'[r][k] = wire[r][k]
      BY <1>3, <1>7, <2>1
    <3>2. wire[r][k].file \in Files
      BY <3>1 DEF Chunks
    <3> QED BY <1>6, <1>9, <2>1, <3>1, <3>2 DEF Opened, StaysOpen
  <2>2. CASE k = Len(wire[r]) + 1
    <3>1. wire'[r][k].file = Plan[i].file
      BY <1>3, <1>4, <1>7, <2>2
    <3> QED BY <1>5, <1>8, <1>9, <3>1
  <2> QED BY <1>7, <2>1, <2>2
<1> QED BY <1>3, <1>8, <1>9 DEF Opened, NeedsWrite

LEMMA OpenedStartShard ==
  ASSUME TypeOK, NEW r \in Ranks, Opened(r), StartShard(r)
  PROVE  Opened(r)'
<1> DEFINE i == next_plan_idx[r] + 1
           s == Plan[i]
           f == s.file
           st == file_state[r][f]
           opens == NeedsWrite(r, f) /\ ~st.opened
           st1 == [st EXCEPT !.opened = @ \/ opens]
           more == Counted(st1, 1, 0, 0)
           Q == IF opens THEN Enqueue(cmds[r], OpenFile(f)) ELSE cmds[r]
<1>1. /\ f \in Files /\ st \in FileStates /\ st1 \in FileStates
      /\ st1.opened = (st.opened \/ opens)
      /\ i \in DOMAIN Plan /\ i \in Nat
      /\ Q \in [Writers -> Seq(Commands)] /\ next_plan_idx'[r] = i
      /\ UNCHANGED wire
      /\ \/ MaybeCloseFile(r, f, more, Q)
         \/ file_state' = [file_state EXCEPT ![r][f] = st1]
  BY StartShardEffect DEF bcastVars
<1>2. (NeedsWrite(r, f) \/ st.opened) => st1.opened
  BY <1>1
<1>t. st = file_state[r][f] /\ file_state \in [Ranks -> [Files -> FileStates]]
      /\ next_plan_idx[r] \in Nat /\ i = next_plan_idx[r] + 1
  BY BroadcastAssumption DEF TypeOK
<1>p. f = Plan[i].file
  OBVIOUS
<1>3. more \in FileStates /\ more.opened = st1.opened
  <2>1. st1 \in FileStates
    BY <1>1
  <2> HIDE DEF st1
  <2> QED BY <2>1, CountedFacts
<1> HIDE DEF i, s, f, st, opens, st1, more, Q
<1>4. /\ file_state'[r][f].opened = st1.opened
      /\ \A g \in Files : g # f => file_state'[r][g] = file_state[r][g]
  <2>1. CASE file_state' = [file_state EXCEPT ![r][f] = st1]
    BY <1>1, <1>t, <2>1
  <2>2. CASE MaybeCloseFile(r, f, more, Q)
    <3>1. /\ file_state'[r][f].opened = more.opened
          /\ \A g \in Files : g # f => file_state'[r][g] = file_state[r][g]
      BY <1>1, <1>3, <2>2, MaybeCloseOpened
    <3> QED BY <1>3, <3>1
  <2> QED BY <1>1, <2>1, <2>2
<1>5. StaysOpen(r)
  BY <1>2, <1>t, <1>4 DEF StaysOpen
<1>6. ASSUME NEW j \in 1 .. i, NeedsWrite(r, Plan[j].file)
      PROVE  file_state'[r][Plan[j].file].opened
  <2>1. CASE j = i
    BY <1>2, <1>4, <1>6, <1>p, <2>1
  <2>2. CASE j # i
    <3>1. j \in 1 .. next_plan_idx[r]
      BY <1>1, <1>t, <2>2
    <3>2. Plan[j].file \in Files
      <4>1. j \in DOMAIN Plan
        BY <1>1, <3>1, <1>t, BroadcastAssumption
      <4>2. Plan[j] \in Shard
        BY <4>1, BroadcastAssumption
      <4> QED BY <4>2 DEF Shard
    <3> QED BY <1>5, <1>6, <3>1, <3>2 DEF Opened, StaysOpen
  <2> QED BY <2>1, <2>2
<1>7. ASSUME NEW k \in DOMAIN wire[r], NeedsWrite(r, wire[r][k].file)
      PROVE  file_state'[r][wire[r][k].file].opened
  <2>1. wire[r][k].file \in Files
    <3>1. wire[r][k] \in Chunks
      BY <1>7 DEF TypeOK
    <3> QED BY <3>1 DEF Chunks
  <2> QED BY <1>5, <1>7, <2>1 DEF Opened, StaysOpen
<1> QED BY <1>1, <1>6, <1>7 DEF Opened, NeedsWrite

(* A buffer with the writers is for one file.                               *)
LEMMA OneFile ==
  ASSUME NEW Q, NEW A, OnceIn(Q, A), NEW s, NEW f, NEW g, OnWriter(Q, A, s, f), OnWriter(Q, A, s, g)
  PROVE  f = g
<1>1. CASE \E w \in Writers : \E i \in DOMAIN Q[w] :
             Q[w][i].kind = "write" /\ Q[w][i].slot = s /\ Q[w][i].file = f
  <2>1. PICK w \in Writers : \E i \in DOMAIN Q[w] :
             Q[w][i].kind = "write" /\ Q[w][i].slot = s /\ Q[w][i].file = f
    BY <1>1
  <2>2. PICK i \in DOMAIN Q[w] : Q[w][i].kind = "write" /\ Q[w][i].slot = s /\ Q[w][i].file = f
    BY <2>1
  <2> QED BY <2>2 DEF OnWriter, OnceIn
<1>2. CASE \E i \in DOMAIN A : A[i].slot = s /\ A[i].file = f
  <2>1. PICK i \in DOMAIN A : A[i].slot = s /\ A[i].file = f
    BY <1>2
  <2> QED BY <2>1 DEF OnWriter, OnceIn
<1> QED BY <1>1, <1>2 DEF OnWriter

(* The counters count: finite sets, and what a step adds to or takes from   *)
(* them.                                                                    *)
LEMMA CountedSets ==
  ASSUME NEW r \in Ranks, NEW f
  PROVE  /\ IsFiniteSet(WritesFor(r, f)) /\ IsFiniteSet(ChunksFor(r, f))
         /\ IsFiniteSet(PostedShards(r, f))
         /\ Cardinality(WritesFor(r, f)) \in Nat /\ Cardinality(ChunksFor(r, f)) \in Nat
         /\ Cardinality(PostedShards(r, f)) \in Nat
<1>1. IsFiniteSet(WritesFor(r, f)) /\ IsFiniteSet(ChunksFor(r, f))
  <2>1. WritesFor(r, f) \in SUBSET Slots /\ ChunksFor(r, f) \in SUBSET Slots
    BY DEF WritesFor, ChunksFor
  <2> QED BY <2>1, SlotsFinite, FS_Subset
<1>2. IsFiniteSet(PostedShards(r, f))
  <2>1. IsFiniteSet(DOMAIN Plan)
    <3>1. DOMAIN Plan = 1 .. Len(Plan) /\ Len(Plan) \in Nat
      BY BroadcastAssumption
    <3> QED BY <3>1, FS_Interval
  <2>2. PostedShards(r, f) \in SUBSET DOMAIN Plan
    BY DEF PostedShards
  <2> QED BY <2>1, <2>2, FS_Subset
<1> QED BY <1>1, <1>2, FS_CardinalityType

(* While some shard of the file is still to be posted, the count of those   *)
(* posted is short of the total.                                            *)
LEMMA ShardMissing ==
  ASSUME NEW r \in Ranks, NEW f, NEW i \in DOMAIN Plan, Plan[i].file = f, i \notin PostedShards(r, f)
  PROVE  Cardinality(PostedShards(r, f)) # ShardsTotal(f)
<1> DEFINE S == {j \in DOMAIN Plan : Plan[j].file = f}
           T == PostedShards(r, f)
<1>1. IsFiniteSet(S)
  <2>1. IsFiniteSet(DOMAIN Plan)
    <3>1. DOMAIN Plan = 1 .. Len(Plan) /\ Len(Plan) \in Nat
      BY BroadcastAssumption
    <3> QED BY <3>1, FS_Interval
  <2>2. S \in SUBSET DOMAIN Plan
    OBVIOUS
  <2> QED BY <2>1, <2>2, FS_Subset
<1>2. T \subseteq S /\ T # S
  BY DEF PostedShards
<1>3. ShardsTotal(f) = Cardinality(S)
  BY DEF ShardsTotal
<1> HIDE DEF S, T
<1>4. T \in SUBSET S
  BY <1>2
<1>5. Cardinality(T) = Cardinality(S) => T = S
  BY <1>1, <1>4, FS_Subset
<1> QED BY <1>2, <1>3, <1>5 DEF T

(* After each change of a file's counters maybe_close_file is called: a     *)
(* file that may be closed is.                                              *)
LEMMA CountsSettle ==
  ASSUME TypeOK, NEW r \in Ranks, NEW f \in Files, NEW new \in FileStates,
         NEW Q \in [Writers -> Seq(Commands)], MaybeCloseFile(r, f, new, Q), ~new.closed,
         new.writes_in_flight = Cardinality(WritesFor(r, f)'),
         new.chunks_in_flight = Cardinality(ChunksFor(r, f)'),
         new.shards_posted = Cardinality(PostedShards(r, f)')
  PROVE  Counts(r, f)'
<1>1. CASE MayClose(f, new)
  <2>1. file_state'[r][f] = AsClosed(new)
    BY <1>1, MaybeCloseEffect
  <2>2. /\ AsClosed(new).opened = new.opened /\ AsClosed(new).closed = TRUE
        /\ AsClosed(new).shards_posted = new.shards_posted
        /\ AsClosed(new).chunks_in_flight = new.chunks_in_flight
        /\ AsClosed(new).writes_in_flight = new.writes_in_flight
    BY ClosedFacts
  <2>3. Settled(f, AsClosed(new))
    BY <1>1, <2>2 DEF Settled, MayClose
  <2> QED BY <2>1, <2>2, <2>3 DEF Counts
<1>2. CASE ~MayClose(f, new)
  <2>1. file_state'[r][f] = new
    BY <1>2, MaybeCloseEffect
  <2> QED BY <1>2, <2>1 DEF Counts, Settled
<1> QED BY <1>1, <1>2

LEMMA CountsKeep ==
  ASSUME NEW r \in Ranks, NEW f \in Files, Counts(r, f), result'[r] = result[r],
         file_state'[r][f] = file_state[r][f],
         WritesFor(r, f)' = WritesFor(r, f), ChunksFor(r, f)' = ChunksFor(r, f),
         PostedShards(r, f)' = PostedShards(r, f)
  PROVE  Counts(r, f)'
BY DEF Counts

LEMMA SameWrites ==
  ASSUME NEW r \in Ranks,
         \A s, f : OnWriter(cmds'[r], acks'[r], s, f) = OnWriter(cmds[r], acks[r], s, f)
  PROVE  \A f : WritesFor(r, f)' = WritesFor(r, f)
BY DEF WritesFor

LEMMA SameChunksFor ==
  ASSUME NEW r \in Ranks, in_flight'[r] = in_flight[r], wire'[r] = wire[r]
  PROVE  \A f : ChunksFor(r, f)' = ChunksFor(r, f)
BY DEF ChunksFor, Flying

LEMMA SameShards ==
  ASSUME NEW r \in Ranks, next_plan_idx'[r] = next_plan_idx[r], active'[r] = active[r]
  PROVE  \A f : PostedShards(r, f)' = PostedShards(r, f)
BY DEF PostedShards

(* The counters are zero at the start.                                      *)
LEMMA CountsInit == Init => \A r \in Ranks, f \in Files : Counts(r, f)
<1> SUFFICES ASSUME Init, NEW r \in Ranks, NEW f \in Files PROVE Counts(r, f)
  OBVIOUS
<1>1. WritesFor(r, f) = {}
  BY DEF Init, WritesFor, OnWriter
<1>2. ChunksFor(r, f) = {}
  BY DEF Init, ChunksFor, Flying
<1>3. PostedShards(r, f) = {}
  <2>1. DOMAIN Plan = 1 .. Len(Plan) /\ next_plan_idx[r] = 0
    BY BroadcastAssumption DEF Init
  <2> QED BY <2>1 DEF PostedShards
<1>4. file_state[r][f] = [opened |-> FALSE, closed |-> FALSE, shards_posted |-> 0,
                          chunks_in_flight |-> 0, writes_in_flight |-> 0]
  BY DEF Init
<1> QED BY <1>1, <1>2, <1>3, <1>4, FS_EmptySet DEF Counts, Settled

(* Starting a shard changes no counter.                                     *)
LEMMA CountsStartShard ==
  ASSUME TypeOK, NEW r \in Ranks, StartShard(r), NEW g \in Files, Counts(r, g), result[r] = "ok"
  PROVE  Counts(r, g)'
<1> DEFINE n == next_plan_idx[r]
           i == n + 1
           s == Plan[i]
           f == s.file
           st == file_state[r][f]
           opens == NeedsWrite(r, f) /\ ~st.opened
           st1 == [st EXCEPT !.opened = @ \/ opens]
           more == Counted(st1, 1, 0, 0)
           Q == IF opens THEN Enqueue(cmds[r], OpenFile(f)) ELSE cmds[r]
           S == PostedShards(r, g)
<1>1. /\ f \in Files /\ st \in FileStates /\ st1 \in FileStates
      /\ i \in DOMAIN Plan /\ i \in Nat /\ ~active[r]
      /\ st1.closed = st.closed
      /\ st1.shards_posted = st.shards_posted
      /\ st1.chunks_in_flight = st.chunks_in_flight
      /\ st1.writes_in_flight = st.writes_in_flight
      /\ Q \in [Writers -> Seq(Commands)] /\ next_plan_idx'[r] = i
      /\ UNCHANGED <<result, in_flight, wire, acks>>
      /\ \/ /\ s.len = 0 /\ active'[r] = FALSE
            /\ MaybeCloseFile(r, f, more, Q)
         \/ /\ s.len # 0 /\ active'[r] = TRUE
            /\ file_state' = [file_state EXCEPT ![r][f] = st1]
            /\ cmds' = [cmds EXCEPT ![r] = Q]
  BY StartShardEffect DEF bcastVars, writerVars
<1>2. /\ more \in FileStates /\ more.opened = st1.opened /\ more.closed = st1.closed
      /\ more.shards_posted = st1.shards_posted + 1
      /\ more.chunks_in_flight = st1.chunks_in_flight
      /\ more.writes_in_flight = st1.writes_in_flight
  <2>1. st1 \in FileStates
    BY <1>1
  <2>2. ASSUME NEW x \in FileStates
        PROVE  /\ Counted(x, 1, 0, 0) \in FileStates
               /\ Counted(x, 1, 0, 0).opened = x.opened /\ Counted(x, 1, 0, 0).closed = x.closed
               /\ Counted(x, 1, 0, 0).shards_posted = x.shards_posted + 1
               /\ Counted(x, 1, 0, 0).chunks_in_flight = x.chunks_in_flight
               /\ Counted(x, 1, 0, 0).writes_in_flight = x.writes_in_flight
    <3>1. x.chunks_in_flight + 0 = x.chunks_in_flight /\ x.writes_in_flight + 0 = x.writes_in_flight
      BY <2>2 DEF FileStates
    <3> QED BY <2>2, <3>1, CountedFacts
  <2> HIDE DEF st1
  <2> QED BY <2>1, <2>2
<1>t. /\ cmds[r] \in [Writers -> Seq(Commands)] /\ acks[r] \in Seq(Acks)
      /\ cmds \in [Ranks -> [Writers -> Seq(Commands)]]
      /\ file_state \in [Ranks -> [Files -> FileStates]]
      /\ n \in Nat
  BY BroadcastAssumption DEF TypeOK
<1>3. \A x, h : OnWriter(Q, acks[r], x, h) = OnWriter(cmds[r], acks[r], x, h)
  <2>1. f \in Files
    BY <1>1
  <2>2. cmds[r] \in [Writers -> Seq(Commands)] /\ acks[r] \in Seq(Acks)
    BY <1>t
  <2> HIDE DEF f, opens
  <2> QED BY <2>1, <2>2, OpenKeeps
<1>s. st = file_state[r][f] /\ i = n + 1 /\ n = next_plan_idx[r] /\ f = Plan[i].file /\ s = Plan[i]
  OBVIOUS
<1>4. /\ Plan[i].file = f /\ i \notin S
      /\ PostedShards(r, g)' = IF g = f /\ s.len = 0 THEN S \cup {i} ELSE S
  <2>1. i \notin S
    BY <1>t DEF PostedShards
  <2>d. DOMAIN Plan \subseteq Int
    BY BroadcastAssumption
  <2>2. S = {j \in DOMAIN Plan : Plan[j].file = g /\ j <= n}
    BY <1>1, <1>t, <2>d DEF PostedShards
  <2>3. CASE s.len = 0
    <3>1. active'[r] = FALSE
      BY <1>1, <2>3
    <3>2. PostedShards(r, g)' = {j \in DOMAIN Plan : Plan[j].file = g /\ j <= n + 1}
      BY <1>1, <1>t, <2>d, <3>1 DEF PostedShards
    <3>3. \A j \in DOMAIN Plan : j <= n + 1 <=> j <= n \/ j = i
      BY <2>d, <1>t
    <3>4. {j \in DOMAIN Plan : Plan[j].file = g /\ j <= n + 1}
            = {j \in DOMAIN Plan : Plan[j].file = g /\ j <= n} \cup (IF g = f THEN {i} ELSE {})
      BY <3>3, <1>1
    <3> HIDE DEF n, S, s, f, i
    <3>5. CASE g = f
      BY <1>s, <2>1, <2>2, <2>3, <3>2, <3>4, <3>5
    <3>6. CASE g # f
      BY <1>s, <2>1, <2>2, <2>3, <3>2, <3>4, <3>6
    <3> QED BY <3>5, <3>6
  <2>4. CASE s.len # 0
    <3>1. active'[r] = TRUE
      BY <1>1, <2>4
    <3>2. PostedShards(r, g)' = {j \in DOMAIN Plan : Plan[j].file = g /\ j < n + 1}
      BY <1>1, <1>t, <2>d, <3>1 DEF PostedShards
    <3>3. \A j \in DOMAIN Plan : j < n + 1 <=> j <= n
      BY <2>d, <1>t
    <3> HIDE DEF n, S, s, f, i
    <3> QED BY <1>s, <2>1, <2>2, <2>4, <3>2, <3>3
  <2> QED BY <2>3, <2>4
<1>5. /\ file_state[r][g].writes_in_flight = Cardinality(WritesFor(r, g))
      /\ file_state[r][g].chunks_in_flight = Cardinality(ChunksFor(r, g))
      /\ file_state[r][g].shards_posted = Cardinality(S)
      /\ Settled(g, file_state[r][g])
  BY DEF Counts
<1>6. g = f => ~st.closed /\ st.shards_posted # ShardsTotal(g)
  BY <1>1, <1>4, <1>5, ShardMissing DEF Settled
<1>7. ChunksFor(r, g)' = ChunksFor(r, g)
  BY <1>1, SameChunksFor
<1> HIDE DEF n, i, s, f, st, opens, st1, more, Q, S
<1>8. CASE s.len = 0
  <2>1. MaybeCloseFile(r, f, more, Q)
    BY <1>1, <1>8
  <2>2. \A x, h : OnWriter(cmds'[r], acks[r], x, h) = OnWriter(Q, acks[r], x, h)
    BY <1>1, <1>2, <1>t, <2>1, MaybeCloseKeeps
  <2>3. WritesFor(r, g)' = WritesFor(r, g)
    BY <1>1, <1>3, <2>2, SameWrites
  <2>4. CASE g = f
    <3>1. Cardinality(PostedShards(r, g)') = Cardinality(S) + 1
      <4>1. IsFiniteSet(S)
        BY CountedSets DEF S
      <4>2. PostedShards(r, g)' = S \cup {i}
        BY <1>4, <1>8, <2>4
      <4> QED BY <1>4, <4>1, <4>2, FS_AddElement
    <3>2. more.shards_posted = Cardinality(PostedShards(r, g)')
      BY <1>1, <1>2, <1>5, <1>s, <2>4, <3>1
    <3>3. more.writes_in_flight = Cardinality(WritesFor(r, g)')
      BY <1>1, <1>2, <1>5, <1>s, <2>3, <2>4
    <3>4. more.chunks_in_flight = Cardinality(ChunksFor(r, g)')
      BY <1>1, <1>2, <1>5, <1>s, <1>7, <2>4
    <3>5. ~more.closed
      BY <1>1, <1>2, <1>6, <2>4
    <3>6. MaybeCloseFile(r, g, more, Q)
      BY <2>1, <2>4
    <3> QED BY <1>1, <1>2, <3>2, <3>3, <3>4, <3>5, <3>6, CountsSettle
  <2>5. CASE g # f
    <3>1. file_state'[r][g] = file_state[r][g]
      BY <1>1, <1>2, <2>1, <2>5, MaybeCloseEffect
    <3> QED BY <1>1, <1>4, <1>7, <2>3, <2>5, <3>1, CountsKeep DEF S
  <2> QED BY <2>4, <2>5
<1>9. CASE s.len # 0
  <2>1. /\ file_state' = [file_state EXCEPT ![r][f] = st1]
        /\ cmds' = [cmds EXCEPT ![r] = Q]
    BY <1>1, <1>9
  <2>2. cmds'[r] = Q /\ file_state'[r][f] = st1
        /\ \A h \in Files : h # f => file_state'[r][h] = file_state[r][h]
    BY <1>1, <1>t, <2>1
  <2>3. WritesFor(r, g)' = WritesFor(r, g)
    BY <1>1, <1>3, <2>2, SameWrites
  <2>4. PostedShards(r, g)' = S
    BY <1>4, <1>9
  <2>5. CASE g = f
    <3>1. file_state'[r][g] = st1 /\ file_state[r][g] = st
      BY <1>s, <2>2, <2>5
    <3> QED BY <1>1, <1>5, <1>6, <1>7, <2>3, <2>4, <2>5, <3>1 DEF Counts, Settled, MayClose
  <2>6. CASE g # f
    <3>1. file_state'[r][g] = file_state[r][g]
      BY <2>2, <2>6
    <3> QED BY <1>1, <1>7, <2>3, <2>4, <3>1, CountsKeep DEF S
  <2> QED BY <2>5, <2>6
<1> QED BY <1>8, <1>9

(* An acknowledgement is one Write less.                                    *)
LEMMA CountsTakeAck ==
  ASSUME TypeOK, NEW r \in Ranks, TakeAck(r), NEW g \in Files, Counts(r, g), Pool(r),
         result'[r] = "ok", result[r] = "ok"
  PROVE  Counts(r, g)'
<1> DEFINE a == Head(acks[r])
           f == a.file
           st == file_state[r][f]
           less == Counted(st, 0, 0, -1)
           W == WritesFor(r, g)
<1>1. /\ f \in Files /\ st \in FileStates /\ a \in Acks /\ a.slot \in Slots
      /\ acks[r] \in Seq(Acks) /\ acks[r] # <<>> /\ acks'[r] = Tail(acks[r])
      /\ UNCHANGED <<cursorVars, bcastVars>>
      /\ MaybeCloseFile(r, f, less, cmds[r])
  BY TakeAckEffect
<1>2. /\ less \in FileStates /\ less.closed = st.closed
      /\ less.shards_posted = st.shards_posted
      /\ less.chunks_in_flight = st.chunks_in_flight
      /\ less.writes_in_flight = st.writes_in_flight - 1
  <2>1. ASSUME NEW x \in FileStates
        PROVE  /\ Counted(x, 0, 0, -1) \in FileStates
               /\ Counted(x, 0, 0, -1).closed = x.closed
               /\ Counted(x, 0, 0, -1).shards_posted = x.shards_posted
               /\ Counted(x, 0, 0, -1).chunks_in_flight = x.chunks_in_flight
               /\ Counted(x, 0, 0, -1).writes_in_flight = x.writes_in_flight - 1
    <3>1. /\ x.shards_posted + 0 = x.shards_posted /\ x.chunks_in_flight + 0 = x.chunks_in_flight
          /\ x.writes_in_flight \in Int /\ x.writes_in_flight + (-1) = x.writes_in_flight - 1
      BY <2>1 DEF FileStates
    <3>2. /\ Counted(x, 0, 0, -1) \in FileStates
          /\ Counted(x, 0, 0, -1).opened = x.opened /\ Counted(x, 0, 0, -1).closed = x.closed
          /\ Counted(x, 0, 0, -1).shards_posted = x.shards_posted + 0
          /\ Counted(x, 0, 0, -1).chunks_in_flight = x.chunks_in_flight + 0
          /\ Counted(x, 0, 0, -1).writes_in_flight = x.writes_in_flight + (-1)
      BY <2>1, CountedFacts
    <3> QED BY <3>1, <3>2
  <2>2. st \in FileStates
    BY <1>1
  <2> HIDE DEF st
  <2> QED BY <2>1, <2>2
<1>t. cmds[r] \in [Writers -> Seq(Commands)] /\ st = file_state[r][f]
  BY DEF TypeOK
<1>3. OnceIn(cmds[r], acks[r])
  BY DEF Pool
<1>4. OnWriter(cmds[r], acks[r], a.slot, f)
  <2>1. 1 \in DOMAIN acks[r] /\ a = acks[r][1]
    BY <1>1
  <2> QED BY <2>1 DEF OnWriter
<1>5. \A s, h : OnWriter(cmds'[r], acks'[r], s, h) = (OnWriter(cmds[r], acks[r], s, h) /\ s # a.slot)
  <2> DEFINE A1 == Tail(acks[r])
  <2>1. \A s, h : OnWriter(cmds[r], A1, s, h) = (OnWriter(cmds[r], acks[r], s, h) /\ s # a.slot)
    BY <1>1, <1>t, <1>3, TakenAck
  <2>2. A1 \in Seq(Acks) /\ acks'[r] = A1
    BY <1>1
  <2>f. f \in Files /\ less \in FileStates /\ MaybeCloseFile(r, f, less, cmds[r])
    BY <1>1, <1>2
  <2> HIDE DEF less, st, f, A1
  <2>3. \A s, h : OnWriter(cmds'[r], A1, s, h) = OnWriter(cmds[r], A1, s, h)
    BY <2>f, <1>t, <2>2, MaybeCloseKeeps
  <2> QED BY <2>1, <2>2, <2>3
<1>6. WritesFor(r, g)' = W \ {a.slot}
  BY <1>5 DEF WritesFor
<1>7. g = f => a.slot \in W
  BY <1>1, <1>4 DEF WritesFor
<1>8. g # f => a.slot \notin W
  BY <1>3, <1>4, OneFile DEF WritesFor
<1>9. /\ ChunksFor(r, g)' = ChunksFor(r, g)
      /\ PostedShards(r, g)' = PostedShards(r, g)
  BY <1>1, SameChunksFor, SameShards DEF cursorVars, bcastVars
<1>10. /\ file_state[r][g].writes_in_flight = Cardinality(W)
       /\ file_state[r][g].chunks_in_flight = Cardinality(ChunksFor(r, g))
       /\ file_state[r][g].shards_posted = Cardinality(PostedShards(r, g))
       /\ Settled(g, file_state[r][g])
  BY DEF Counts
<1> HIDE DEF a, f, st, less
<1>11. CASE g = f
  <2>1. Cardinality(W \ {a.slot}) = Cardinality(W) - 1 /\ Cardinality(W) # 0
    <3>1. IsFiniteSet(W) /\ W # {}
      BY <1>7, <1>11, CountedSets
    <3> HIDE DEF W
    <3> QED BY <1>7, <1>11, <3>1, FS_RemoveElement, FS_EmptySet
  <2> HIDE DEF W
  <2>2. file_state[r][g] = st
    BY <1>t, <1>11
  <2>3. ~less.closed
    BY <1>2, <1>10, <2>1, <2>2 DEF Settled
  <2>4. less.writes_in_flight = Cardinality(WritesFor(r, g)')
    BY <1>2, <1>6, <1>10, <2>1, <2>2
  <2>5. less.chunks_in_flight = Cardinality(ChunksFor(r, g)')
    BY <1>2, <1>9, <1>10, <2>2
  <2>6. less.shards_posted = Cardinality(PostedShards(r, g)')
    BY <1>2, <1>9, <1>10, <2>2
  <2>7. MaybeCloseFile(r, g, less, cmds[r])
    BY <1>1, <1>11
  <2> QED BY <1>2, <1>t, <2>3, <2>4, <2>5, <2>6, <2>7, CountsSettle
<1>12. CASE g # f
  <2>1. file_state'[r][g] = file_state[r][g]
    BY <1>1, <1>2, <1>t, <1>12, MaybeCloseEffect
  <2>2. WritesFor(r, g)' = WritesFor(r, g)
    BY <1>6, <1>8, <1>12
  <2> QED BY <1>9, <2>1, <2>2, CountsKeep
<1> QED BY <1>11, <1>12

(* The last chunk of a shard counts the shard as posted.                    *)
LEMMA ChunksPosted ==
  ASSUME TypeOK, NEW r \in Ranks, Pool(r), PostChunk(r), result[r] = "ok", NEW g
  PROVE  LET slot == Head(free_slots[r])
         IN /\ slot \notin ChunksFor(r, g)
            /\ ChunksFor(r, g)' = IF g = NextShard(r).file THEN ChunksFor(r, g) \cup {slot}
                                  ELSE ChunksFor(r, g)
<1> DEFINE slot == Head(free_slots[r])
           new == {NextIndex(r)} \X (1 .. SubCount(NextLen(r)))
           c == NextChunk(r)
<1>1. /\ free_slots[r] \in Seq(Slots) /\ free_slots[r] # <<>> /\ slot \in Slots
      /\ c.file = NextShard(r).file
  BY PostChunkEffect
<1>2. IsFiniteSet(in_flight[r]) /\ Flying(r, slot) = {}
  <2>1. IsFree(r, slot)
    <3>1. 1 \in DOMAIN free_slots[r] /\ slot = free_slots[r][1]
      BY <1>1
    <3> QED BY <3>1 DEF IsFree
  <2>2. /\ IsFiniteSet(in_flight[r])
        /\ IsFree(r, slot) = (home[r][slot] /\ Flying(r, slot) = {})
    BY <1>1 DEF Pool
  <2> HIDE DEF slot
  <2> QED BY <2>1, <2>2
<1>3. /\ \A s \in Slots : s = slot => Flying(r, s)' = new
      /\ new # {}
      /\ \A s \in Slots : s # slot => Flying(r, s)' = Flying(r, s)
      /\ \A e \in in_flight[r] : wire'[r][e[1]] = wire[r][e[1]]
      /\ \A e \in new : wire'[r][e[1]] = c
  BY <1>2, FlyingPosted
<1>4. slot \notin ChunksFor(r, g)
  BY <1>2 DEF ChunksFor
<1> HIDE DEF slot, new, c
<1>5. ASSUME NEW s \in Slots, s = slot
      PROVE  s \in ChunksFor(r, g)' <=> g = NextShard(r).file
  <2>1. Flying(r, s)' = new
    BY <1>3, <1>5
  <2>2. s \in ChunksFor(r, g)' <=> \E e \in Flying(r, s)' : wire'[r][e[1]].file = g
    BY DEF ChunksFor
  <2>3. (\E e \in new : wire'[r][e[1]].file = g) <=> c.file = g
    BY <1>3
  <2> QED BY <1>1, <2>1, <2>2, <2>3
<1>6. ASSUME NEW s \in Slots, s # slot
      PROVE  s \in ChunksFor(r, g)' <=> s \in ChunksFor(r, g)
  <2>1. Flying(r, s)' = Flying(r, s)
    BY <1>3, <1>6
  <2>2. \A e \in Flying(r, s) : wire'[r][e[1]] = wire[r][e[1]]
    BY <1>3 DEF Flying
  <2>3. s \in ChunksFor(r, g)' <=> \E e \in Flying(r, s)' : wire'[r][e[1]].file = g
    BY DEF ChunksFor
  <2>4. s \in ChunksFor(r, g) <=> \E e \in Flying(r, s) : wire[r][e[1]].file = g
    BY DEF ChunksFor
  <2> QED BY <2>1, <2>2, <2>3, <2>4
<1>7. ChunksFor(r, g) \subseteq Slots /\ ChunksFor(r, g)' \subseteq Slots
  BY DEF ChunksFor
<1>8. ChunksFor(r, g)' = IF g = NextShard(r).file THEN ChunksFor(r, g) \cup {slot}
                         ELSE ChunksFor(r, g)
  <2>1. CASE g = NextShard(r).file
    BY <1>1, <1>5, <1>6, <1>7, <2>1
  <2>2. CASE g # NextShard(r).file
    BY <1>1, <1>4, <1>5, <1>6, <1>7, <2>2
  <2> QED BY <2>1, <2>2
<1> QED BY <1>4, <1>8 DEF slot

(* post_chunk counts one chunk more, and its shard when that was the last.  *)
LEMMA CountsPostChunk ==
  ASSUME TypeOK, NEW r \in Ranks, PostChunk(r), NEW g \in Files, Counts(r, g), Pool(r), result[r] = "ok"
  PROVE  Counts(r, g)'
<1> DEFINE f == NextShard(r).file
           st == file_state[r][f]
           more == Counted(st, 1, 1, 0)
           one == Counted(st, 0, 1, 0)
           slot == Head(free_slots[r])
           i == next_plan_idx[r]
           S == PostedShards(r, g)
           C == ChunksFor(r, g)
<1>1. /\ f \in Files /\ st \in FileStates
      /\ \/ ~active'[r] /\ MaybeCloseFile(r, f, more, cmds[r])
         \/ active'[r] /\ file_state' = [file_state EXCEPT ![r][f] = one] /\ cmds' = cmds
  BY PostChunkFiles
<1>2. /\ more \in FileStates /\ more.closed = st.closed
      /\ more.shards_posted = st.shards_posted + 1
      /\ more.chunks_in_flight = st.chunks_in_flight + 1
      /\ more.writes_in_flight = st.writes_in_flight
      /\ one \in FileStates /\ one.closed = st.closed
      /\ one.shards_posted = st.shards_posted
      /\ one.chunks_in_flight = st.chunks_in_flight + 1
      /\ one.writes_in_flight = st.writes_in_flight
  <2>1. ASSUME NEW x \in FileStates
        PROVE  /\ Counted(x, 1, 1, 0) \in FileStates
               /\ Counted(x, 1, 1, 0).opened = x.opened /\ Counted(x, 1, 1, 0).closed = x.closed
               /\ Counted(x, 1, 1, 0).shards_posted = x.shards_posted + 1
               /\ Counted(x, 1, 1, 0).chunks_in_flight = x.chunks_in_flight + 1
               /\ Counted(x, 1, 1, 0).writes_in_flight = x.writes_in_flight
    <3>1. x.writes_in_flight + 0 = x.writes_in_flight
      BY <2>1 DEF FileStates
    <3> QED BY <2>1, <3>1, CountedFacts
  <2>2. ASSUME NEW x \in FileStates
        PROVE  /\ Counted(x, 0, 1, 0) \in FileStates
               /\ Counted(x, 0, 1, 0).opened = x.opened /\ Counted(x, 0, 1, 0).closed = x.closed
               /\ Counted(x, 0, 1, 0).shards_posted = x.shards_posted
               /\ Counted(x, 0, 1, 0).chunks_in_flight = x.chunks_in_flight + 1
               /\ Counted(x, 0, 1, 0).writes_in_flight = x.writes_in_flight
    <3>1. x.writes_in_flight + 0 = x.writes_in_flight /\ x.shards_posted + 0 = x.shards_posted
      BY <2>2 DEF FileStates
    <3> QED BY <2>2, <3>1, CountedFacts
  <2>3. st \in FileStates
    BY <1>1
  <2> HIDE DEF st
  <2> QED BY <2>1, <2>2, <2>3
<1>3. /\ active[r] /\ next_plan_idx'[r] = i /\ acks'[r] = acks[r] /\ result'[r] = result[r]
  BY PostChunkEffect
<1>t. /\ cmds[r] \in [Writers -> Seq(Commands)] /\ acks[r] \in Seq(Acks)
      /\ st = file_state[r][f] /\ file_state \in [Ranks -> [Files -> FileStates]]
  BY DEF TypeOK
<1>4. slot \notin C /\ C' = IF g = f THEN C \cup {slot} ELSE C
  BY ChunksPosted
<1>5. i \in DOMAIN Plan /\ Plan[i].file = f
  <2>1. i \in 0 .. Len(Plan) /\ i > 0
    BY <1>3 DEF TypeOK
  <2>2. DOMAIN Plan = 1 .. Len(Plan) /\ Len(Plan) \in Nat
    BY BroadcastAssumption
  <2> QED BY <2>1, <2>2 DEF NextShard
<1>6. /\ i \notin S
      /\ ~active'[r] => S' = IF g = f THEN S \cup {i} ELSE S
      /\ active'[r] => S' = S
  <2>1. /\ i \in Int /\ DOMAIN Plan \subseteq Int /\ i \in DOMAIN Plan /\ Plan[i].file = f
        /\ active[r] /\ next_plan_idx'[r] = i
    BY <1>3, <1>5, BroadcastAssumption
  <2>2. S = {j \in DOMAIN Plan : Plan[j].file = g /\ j < i}
    BY <2>1 DEF PostedShards
  <2>3. S' = {j \in DOMAIN Plan : Plan[j].file = g /\ (j < i \/ (j = i /\ ~active'[r]))}
    BY <2>1 DEF PostedShards
  <2> HIDE DEF S, f, i
  <2>4. CASE active'[r]
    BY <2>1, <2>2, <2>3, <2>4
  <2>5. CASE ~active'[r] /\ g = f
    BY <2>1, <2>2, <2>3, <2>5
  <2>6. CASE ~active'[r] /\ g # f
    BY <2>1, <2>2, <2>3, <2>6
  <2> QED BY <2>4, <2>5, <2>6
<1>7. /\ file_state[r][g].writes_in_flight = Cardinality(WritesFor(r, g))
      /\ file_state[r][g].chunks_in_flight = Cardinality(C)
      /\ file_state[r][g].shards_posted = Cardinality(S)
      /\ Settled(g, file_state[r][g])
  BY DEF Counts
<1>8. g = f => ~st.closed
  BY <1>5, <1>6, <1>7, ShardMissing DEF Settled
<1>9. g = f => Cardinality(C') = Cardinality(C) + 1 /\ Cardinality(C) \in Nat
  <2>1. IsFiniteSet(C) /\ Cardinality(C) \in Nat
    BY CountedSets
  <2> QED BY <1>4, <2>1, FS_AddElement
<1>10. g = f /\ ~active'[r] => Cardinality(S') = Cardinality(S) + 1
  <2>1. IsFiniteSet(S)
    BY CountedSets
  <2>2. Cardinality(S \cup {i}) = Cardinality(S) + 1
    BY <1>6, <2>1, FS_AddElement
  <2> QED BY <1>6, <2>2
<1>n. /\ C = ChunksFor(r, g) /\ S = PostedShards(r, g)
      /\ C' = ChunksFor(r, g)' /\ S' = PostedShards(r, g)'
  OBVIOUS
<1> HIDE DEF f, st, more, one, slot, i, S, C
<1>11. CASE ~active'[r] /\ MaybeCloseFile(r, f, more, cmds[r])
  <2>1. \A x, h : OnWriter(cmds'[r], acks[r], x, h) = OnWriter(cmds[r], acks[r], x, h)
    BY <1>1, <1>2, <1>t, <1>11, MaybeCloseKeeps
  <2>2. WritesFor(r, g)' = WritesFor(r, g)
    BY <1>3, <2>1, SameWrites
  <2>3. CASE g = f
    <3>1. more.shards_posted = Cardinality(PostedShards(r, g)')
      BY <1>2, <1>7, <1>t, <1>10, <1>11, <1>n, <2>3
    <3>2. more.writes_in_flight = Cardinality(WritesFor(r, g)')
      BY <1>2, <1>7, <1>t, <2>2, <2>3
    <3>3. more.chunks_in_flight = Cardinality(ChunksFor(r, g)')
      BY <1>2, <1>7, <1>t, <1>9, <1>n, <2>3
    <3>4. ~more.closed /\ MaybeCloseFile(r, g, more, cmds[r])
      BY <1>2, <1>8, <1>11, <2>3
    <3> QED BY <1>2, <1>t, <3>1, <3>2, <3>3, <3>4, CountsSettle
  <2>4. CASE g # f
    <3>0. /\ f \in Files /\ more \in FileStates /\ cmds[r] \in [Writers -> Seq(Commands)]
          /\ MaybeCloseFile(r, f, more, cmds[r])
      BY <1>1, <1>2, <1>t, <1>11
    <3>1. file_state'[r][g] = file_state[r][g]
      BY <2>4, <3>0, MaybeCloseEffect
    <3>2. result'[r] = result[r]
      BY <1>3
    <3> QED BY <1>4, <1>6, <1>11, <1>n, <2>2, <2>4, <3>1, <3>2, CountsKeep
  <2> QED BY <2>3, <2>4
<1>12. CASE active'[r] /\ file_state' = [file_state EXCEPT ![r][f] = one] /\ cmds' = cmds
  <2>1. WritesFor(r, g)' = WritesFor(r, g)
    BY <1>3, <1>12 DEF WritesFor
  <2>2. CASE g = f
    <3>1. file_state'[r][g] = one /\ file_state[r][g] = st
      BY <1>1, <1>t, <1>12, <2>2
    <3>2. one.chunks_in_flight # 0
      BY <1>2, <1>7, <1>9, <2>2, <3>1
    <3>3. Settled(g, one)
      BY <1>2, <1>8, <2>2, <3>2 DEF Settled, MayClose
    <3>4. /\ one.writes_in_flight = Cardinality(WritesFor(r, g)')
          /\ one.shards_posted = Cardinality(PostedShards(r, g)')
          /\ one.chunks_in_flight = Cardinality(ChunksFor(r, g)')
      BY <1>2, <1>6, <1>7, <1>9, <1>12, <1>n, <2>1, <2>2, <3>1
    <3> QED BY <3>1, <3>3, <3>4 DEF Counts
  <2>3. CASE g # f
    <3>1. file_state'[r][g] = file_state[r][g]
      BY <1>1, <1>t, <1>12, <2>3
    <3>2. result'[r] = result[r]
      BY <1>3
    <3> QED BY <1>4, <1>6, <1>12, <1>n, <2>1, <2>3, <3>1, <3>2, CountsKeep
  <2> QED BY <2>2, <2>3
<1> QED BY <1>1, <1>11, <1>12

(* What the completion of a sub-broadcast does to the chunks being          *)
(* broadcast: its buffer's one goes when that was the last.                 *)
LEMMA ChunksCompleted ==
  ASSUME TypeOK, NEW r \in Ranks, Pool(r), result[r] = "ok",
         NEW e \in in_flight[r], wire' = wire, in_flight'[r] = in_flight[r] \ {e}, NEW g
  PROVE  LET c == wire[r][e[1]]
         IN /\ c.slot \in Slots
            /\ c.slot \in ChunksFor(r, g) <=> g = c.file
            /\ SlotReleased(r, c.slot) => ChunksFor(r, g)' = ChunksFor(r, g) \ {c.slot}
            /\ ~SlotReleased(r, c.slot) => ChunksFor(r, g)' = ChunksFor(r, g)
<1> DEFINE c == wire[r][e[1]]
           slot == c.slot
<1>1. c \in Chunks /\ slot \in Slots
  <2>1. e[1] \in DOMAIN wire[r]
    BY DEF TypeOK
  <2>2. c \in Chunks
    BY <2>1 DEF TypeOK
  <2> HIDE DEF c
  <2> QED BY <2>2 DEF Chunks
<1>2. /\ IsFiniteSet(in_flight[r])
      /\ \A d \in in_flight[r] : wire[r][d[1]].slot = slot => d[1] = e[1]
      /\ subs[r][slot] = Cardinality(Flying(r, slot))
  BY <1>1 DEF Pool
<1>3. \A s \in Slots :
           /\ s = slot =>
                /\ Flying(r, s)' = Flying(r, s) \ {e}
                /\ (Flying(r, s)' = {}) = (Cardinality(Flying(r, s)) = 1)
                /\ Flying(r, s) # {}
           /\ s # slot => Flying(r, s)' = Flying(r, s)
  BY <1>2, FlyingCompleted
<1>4. \A d \in Flying(r, slot) : wire[r][d[1]] = c
  BY <1>2 DEF Flying
<1>c. c = wire[r][e[1]] /\ slot = c.slot
  OBVIOUS
<1> HIDE DEF c, slot
<1>5. slot \in ChunksFor(r, g) <=> g = c.file
  BY <1>1, <1>3, <1>4 DEF ChunksFor
<1>6. ASSUME NEW s \in Slots
      PROVE  s \in ChunksFor(r, g)' <=> \E d \in Flying(r, s)' : wire[r][d[1]].file = g
  BY DEF ChunksFor
<1>7. ASSUME NEW s \in Slots, s # slot
      PROVE  s \in ChunksFor(r, g)' <=> s \in ChunksFor(r, g)
  BY <1>3, <1>6, <1>7 DEF ChunksFor
<1>8. ASSUME NEW s \in Slots, s = slot, SlotReleased(r, slot)
      PROVE  s \notin ChunksFor(r, g)'
  BY <1>2, <1>3, <1>6, <1>8 DEF SlotReleased
<1>9. ASSUME NEW s \in Slots, s = slot, ~SlotReleased(r, slot)
      PROVE  s \in ChunksFor(r, g)' <=> s \in ChunksFor(r, g)
  <2>1. Flying(r, s)' # {} /\ Flying(r, s)' \subseteq Flying(r, s)
    BY <1>2, <1>3, <1>9 DEF SlotReleased
  <2>2. s \in ChunksFor(r, g)' <=> g = c.file
    BY <1>4, <1>6, <1>9, <2>1
  <2> QED BY <1>5, <1>9, <2>2
<1>10. ChunksFor(r, g) \subseteq Slots /\ ChunksFor(r, g)' \subseteq Slots
  BY DEF ChunksFor
<1>11. CASE SlotReleased(r, slot)
  <2>1. ChunksFor(r, g)' = ChunksFor(r, g) \ {slot}
    BY <1>1, <1>7, <1>8, <1>10, <1>11
  <2> QED BY <1>1, <1>5, <1>11, <1>c, <2>1
<1>12. CASE ~SlotReleased(r, slot)
  <2>1. ChunksFor(r, g)' = ChunksFor(r, g)
    BY <1>1, <1>7, <1>9, <1>10, <1>12
  <2> QED BY <1>1, <1>5, <1>12, <1>c, <2>1
<1> QED BY <1>11, <1>12

(* The last completion of a chunk is one chunk less and, at a receiver, one *)
(* Write more.                                                              *)
LEMMA CountsComplete ==
  ASSUME TypeOK, NEW r \in Ranks, NEW e \in in_flight[r], Complete(r, e[1], e[2]),
         NEW g \in Files, Counts(r, g), Pool(r), result[r] = "ok"
  PROVE  Counts(r, g)'
<1> DEFINE c == wire[r][e[1]]
           f == c.file
           slot == c.slot
           st == file_state[r][f]
           cmd == Write(c)
           Q == Enqueue(cmds[r], cmd)
           moved == Counted(st, 0, -1, 1)
           less == Counted(st, 0, -1, 0)
           W == WritesFor(r, g)
           C == ChunksFor(r, g)
<1>1. /\ f \in Files /\ st \in FileStates /\ cmd \in Commands /\ slot \in Slots
      /\ next_plan_idx' = next_plan_idx /\ active' = active /\ wire' = wire /\ acks' = acks
      /\ result'[r] = result[r] /\ in_flight'[r] = in_flight[r] \ {e}
      /\ \/ ~SlotReleased(r, slot) /\ UNCHANGED <<file_state, cmds>>
         \/ SlotReleased(r, slot) /\ MaybeCloseFile(r, f, moved, Q)
         \/ SlotReleased(r, slot) /\ MaybeCloseFile(r, f, less, cmds[r])
  BY CompleteEffect
<1>2. /\ moved \in FileStates /\ moved.closed = st.closed
      /\ moved.shards_posted = st.shards_posted
      /\ moved.chunks_in_flight = st.chunks_in_flight - 1
      /\ moved.writes_in_flight = st.writes_in_flight + 1
      /\ less \in FileStates /\ less.closed = st.closed
      /\ less.shards_posted = st.shards_posted
      /\ less.chunks_in_flight = st.chunks_in_flight - 1
      /\ less.writes_in_flight = st.writes_in_flight
  <2>1. ASSUME NEW x \in FileStates
        PROVE  /\ Counted(x, 0, -1, 1) \in FileStates
               /\ Counted(x, 0, -1, 1).closed = x.closed
               /\ Counted(x, 0, -1, 1).shards_posted = x.shards_posted
               /\ Counted(x, 0, -1, 1).chunks_in_flight = x.chunks_in_flight - 1
               /\ Counted(x, 0, -1, 1).writes_in_flight = x.writes_in_flight + 1
    <3>1. /\ x.shards_posted + 0 = x.shards_posted
          /\ x.chunks_in_flight \in Int /\ x.chunks_in_flight + (-1) = x.chunks_in_flight - 1
      BY <2>1 DEF FileStates
    <3>2. /\ Counted(x, 0, -1, 1) \in FileStates
          /\ Counted(x, 0, -1, 1).opened = x.opened /\ Counted(x, 0, -1, 1).closed = x.closed
          /\ Counted(x, 0, -1, 1).shards_posted = x.shards_posted + 0
          /\ Counted(x, 0, -1, 1).chunks_in_flight = x.chunks_in_flight + (-1)
          /\ Counted(x, 0, -1, 1).writes_in_flight = x.writes_in_flight + 1
      BY <2>1, CountedFacts
    <3> QED BY <3>1, <3>2
  <2>2. ASSUME NEW x \in FileStates
        PROVE  /\ Counted(x, 0, -1, 0) \in FileStates
               /\ Counted(x, 0, -1, 0).closed = x.closed
               /\ Counted(x, 0, -1, 0).shards_posted = x.shards_posted
               /\ Counted(x, 0, -1, 0).chunks_in_flight = x.chunks_in_flight - 1
               /\ Counted(x, 0, -1, 0).writes_in_flight = x.writes_in_flight
    <3>1. /\ x.shards_posted + 0 = x.shards_posted /\ x.writes_in_flight + 0 = x.writes_in_flight
          /\ x.chunks_in_flight \in Int /\ x.chunks_in_flight + (-1) = x.chunks_in_flight - 1
      BY <2>2 DEF FileStates
    <3>2. /\ Counted(x, 0, -1, 0) \in FileStates
          /\ Counted(x, 0, -1, 0).opened = x.opened /\ Counted(x, 0, -1, 0).closed = x.closed
          /\ Counted(x, 0, -1, 0).shards_posted = x.shards_posted + 0
          /\ Counted(x, 0, -1, 0).chunks_in_flight = x.chunks_in_flight + (-1)
          /\ Counted(x, 0, -1, 0).writes_in_flight = x.writes_in_flight + 0
      BY <2>2, CountedFacts
    <3> QED BY <3>1, <3>2
  <2>3. st \in FileStates
    BY <1>1
  <2> HIDE DEF st
  <2> QED BY <2>1, <2>2, <2>3
<1>t. /\ cmds[r] \in [Writers -> Seq(Commands)] /\ acks[r] \in Seq(Acks) /\ st = file_state[r][f]
  BY DEF TypeOK
<1>3. /\ slot \in C <=> g = f
      /\ SlotReleased(r, slot) => C' = C \ {slot}
      /\ ~SlotReleased(r, slot) => C' = C
  BY <1>1, ChunksCompleted
<1>4. \A h \in Files : ~OnWriter(cmds[r], acks[r], slot, h)
  <2>1. home[r][slot] = ~HasWriter(r, slot) /\ (Flying(r, slot) # {} => home[r][slot])
    BY <1>1 DEF Pool
  <2>2. e \in Flying(r, slot)
    BY DEF Flying
  <2> QED BY <2>1, <2>2 DEF HasWriter
<1>5. cmd.kind = "write" /\ cmd.slot = slot /\ cmd.file = f
  BY DEF Write
<1>6. PostedShards(r, g)' = PostedShards(r, g)
  BY <1>1, SameShards
<1>7. /\ file_state[r][g].writes_in_flight = Cardinality(W)
      /\ file_state[r][g].chunks_in_flight = Cardinality(C)
      /\ file_state[r][g].shards_posted = Cardinality(PostedShards(r, g))
      /\ Settled(g, file_state[r][g])
  BY DEF Counts
<1>8. g = f => Cardinality(C \ {slot}) = Cardinality(C) - 1 /\ Cardinality(C) # 0
  <2>1. IsFiniteSet(C)
    BY CountedSets
  <2> HIDE DEF C
  <2> QED BY <1>3, <2>1, FS_RemoveElement, FS_EmptySet, ZenonT(60)
<1>n. /\ C = ChunksFor(r, g) /\ C' = ChunksFor(r, g)'
      /\ W = WritesFor(r, g) /\ W' = WritesFor(r, g)'
      /\ Q = Enqueue(cmds[r], cmd)
  OBVIOUS
<1>w. slot \notin W
  BY <1>4 DEF WritesFor
<1>9. g = f => ~st.closed
  BY <1>7, <1>8 DEF Settled
<1> HIDE DEF c, f, st, slot, cmd, Q, moved, less, W, C
<1>10. CASE ~SlotReleased(r, slot) /\ UNCHANGED <<file_state, cmds>>
  <2>1. WritesFor(r, g)' = WritesFor(r, g)
    BY <1>1, <1>10 DEF WritesFor
  <2> QED BY <1>1, <1>3, <1>6, <1>10, <1>n, <2>1, CountsKeep
<1>11. CASE SlotReleased(r, slot) /\ MaybeCloseFile(r, f, less, cmds[r])
  <2>0. /\ f \in Files /\ less \in FileStates /\ cmds[r] \in [Writers -> Seq(Commands)]
        /\ acks[r] \in Seq(Acks) /\ MaybeCloseFile(r, f, less, cmds[r])
    BY <1>1, <1>2, <1>t, <1>11
  <2>1. \A x, h : OnWriter(cmds'[r], acks[r], x, h) = OnWriter(cmds[r], acks[r], x, h)
    BY <2>0, MaybeCloseKeeps
  <2>2. WritesFor(r, g)' = WritesFor(r, g)
    BY <1>1, <2>1, SameWrites
  <2>3. CASE g = f
    <3>1. less.shards_posted = Cardinality(PostedShards(r, g)')
      BY <1>2, <1>6, <1>7, <1>t, <2>3
    <3>2. less.writes_in_flight = Cardinality(WritesFor(r, g)')
      BY <1>2, <1>7, <1>t, <1>n, <2>2, <2>3
    <3>3. less.chunks_in_flight = Cardinality(ChunksFor(r, g)')
      BY <1>2, <1>3, <1>7, <1>t, <1>8, <1>11, <1>n, <2>3
    <3>4. ~less.closed /\ MaybeCloseFile(r, g, less, cmds[r])
      BY <1>2, <1>9, <1>11, <2>3
    <3> QED BY <2>0, <3>1, <3>2, <3>3, <3>4, CountsSettle
  <2>4. CASE g # f
    <3>1. file_state'[r][g] = file_state[r][g]
      BY <2>0, <2>4, MaybeCloseEffect
    <3>2. ChunksFor(r, g)' = ChunksFor(r, g)
      BY <1>3, <1>11, <1>n, <2>4
    <3> QED BY <1>1, <1>6, <2>2, <3>1, <3>2, CountsKeep
  <2> QED BY <2>3, <2>4
<1>12. CASE SlotReleased(r, slot) /\ MaybeCloseFile(r, f, moved, Q)
  <2>q. Q \in [Writers -> Seq(Commands)]
    BY <1>1, <1>t, <1>n, EnqueueType
  <2>0. /\ f \in Files /\ moved \in FileStates /\ Q \in [Writers -> Seq(Commands)]
        /\ acks[r] \in Seq(Acks) /\ MaybeCloseFile(r, f, moved, Q)
    BY <1>1, <1>2, <1>t, <1>12, <2>q
  <2>1. \A x, h : OnWriter(cmds'[r], acks[r], x, h) = OnWriter(Q, acks[r], x, h)
    BY <2>0, MaybeCloseKeeps
  <2>5. \A x, h : OnWriter(Q, acks[r], x, h)
                    = (OnWriter(cmds[r], acks[r], x, h) \/ (x = slot /\ h = f))
    <3>1. cmd \in Commands /\ cmds[r] \in [Writers -> Seq(Commands)] /\ acks[r] \in Seq(Acks)
      BY <1>1, <1>t
    <3> QED BY <1>4, <1>5, <1>n, <3>1, EnqueueWrite, SMTT(30)
  <2>6. \A x, h : OnWriter(cmds'[r], acks'[r], x, h)
                    = (OnWriter(cmds[r], acks[r], x, h) \/ (x = slot /\ h = f))
    BY <1>1, <2>1, <2>5
  <2>3. CASE g = f
    <3>0. WritesFor(r, g)' = W \cup {slot} /\ Cardinality(W \cup {slot}) = Cardinality(W) + 1
      <4>1. WritesFor(r, g)' = W \cup {slot}
        BY <1>1, <2>3, <2>6 DEF WritesFor, W
      <4>2. IsFiniteSet(W)
        BY <1>n, CountedSets
      <4> QED BY <1>w, <4>1, <4>2, FS_AddElement
    <3>1. moved.shards_posted = Cardinality(PostedShards(r, g)')
      BY <1>2, <1>6, <1>7, <1>t, <2>3
    <3>2. moved.writes_in_flight = Cardinality(WritesFor(r, g)')
      BY <1>2, <1>7, <1>t, <1>n, <2>3, <3>0
    <3>3. moved.chunks_in_flight = Cardinality(ChunksFor(r, g)')
      BY <1>2, <1>3, <1>7, <1>t, <1>8, <1>12, <1>n, <2>3
    <3>4. ~moved.closed /\ MaybeCloseFile(r, g, moved, Q)
      BY <1>2, <1>9, <1>12, <2>3
    <3> QED BY <2>0, <3>1, <3>2, <3>3, <3>4, CountsSettle
  <2>4. CASE g # f
    <3>0. WritesFor(r, g)' = WritesFor(r, g)
      BY <2>4, <2>6 DEF WritesFor
    <3>1. file_state'[r][g] = file_state[r][g]
      BY <2>0, <2>4, MaybeCloseEffect
    <3>2. ChunksFor(r, g)' = ChunksFor(r, g)
      BY <1>3, <1>12, <1>n, <2>4
    <3> QED BY <1>1, <1>6, <3>0, <3>1, <3>2, CountsKeep
  <2> QED BY <2>3, <2>4
<1> QED BY <1>1, <1>10, <1>11, <1>12

(* Every step sends its commands to the writer of their file.               *)
LEMMA RoutedStartShard ==
  ASSUME TypeOK, NEW r \in Ranks, StartShard(r), Routed(cmds[r])
  PROVE  Routed(cmds'[r])
<1> DEFINE i == next_plan_idx[r] + 1
           s == Plan[i]
           f == s.file
           st == file_state[r][f]
           opens == NeedsWrite(r, f) /\ ~st.opened
           st1 == [st EXCEPT !.opened = @ \/ opens]
           Q == IF opens THEN Enqueue(cmds[r], OpenFile(f)) ELSE cmds[r]
           more == Counted(st1, 1, 0, 0)
<1>1. /\ f \in Files /\ st1 \in FileStates /\ Q \in [Writers -> Seq(Commands)]
      /\ MaybeCloseFile(r, f, more, Q) \/ cmds' = [cmds EXCEPT ![r] = Q]
  BY StartShardEffect
<1>2. Routed(Q)
  <2>1. OpenFile(f) \in Commands
    BY <1>1, CommandTypes
  <2>2. cmds[r] \in [Writers -> Seq(Commands)]
    BY DEF TypeOK
  <2>3. Routed(Enqueue(cmds[r], OpenFile(f)))
    BY <2>1, <2>2, RoutedEnqueue
  <2> QED BY <2>3
<1>3. more \in FileStates
  <2>1. st1 \in FileStates
    BY <1>1
  <2> HIDE DEF st1
  <2> QED BY <2>1, CountedFacts
<1> HIDE DEF i, s, f, st, opens, st1, Q, more
<1>4. CASE MaybeCloseFile(r, f, more, Q)
  BY <1>1, <1>2, <1>3, <1>4, RoutedMaybeClose
<1>5. CASE cmds' = [cmds EXCEPT ![r] = Q]
  <2>1. cmds'[r] = Q
    BY <1>5 DEF TypeOK
  <2> QED BY <1>2, <2>1
<1> QED BY <1>1, <1>4, <1>5

LEMMA RoutedPostChunk ==
  ASSUME TypeOK, NEW r \in Ranks, PostChunk(r), Routed(cmds[r])
  PROVE  Routed(cmds'[r])
<1> DEFINE f == NextShard(r).file
           st == file_state[r][f]
           more == Counted(st, 1, 1, 0)
<1>1. /\ f \in Files /\ st \in FileStates
      /\ MaybeCloseFile(r, f, more, cmds[r]) \/ cmds' = cmds
  BY PostChunkFiles
<1>2. more \in FileStates
  <2>1. st \in FileStates
    BY <1>1
  <2> HIDE DEF st
  <2> QED BY <2>1, CountedFacts
<1>3. cmds[r] \in [Writers -> Seq(Commands)]
  BY DEF TypeOK
<1> HIDE DEF f, st, more
<1> QED BY <1>1, <1>2, <1>3, RoutedMaybeClose

LEMMA RoutedTakeAck ==
  ASSUME TypeOK, NEW r \in Ranks, TakeAck(r), Routed(cmds[r])
  PROVE  Routed(cmds'[r])
<1> DEFINE f == Head(acks[r]).file
           st == file_state[r][f]
           less == Counted(st, 0, 0, -1)
<1>1. /\ f \in Files /\ st \in FileStates
      /\ MaybeCloseFile(r, f, less, cmds[r]) \/ cmds' = cmds
  BY TakeAckEffect DEF fileVars
<1>2. less \in FileStates
  <2>1. ASSUME NEW x \in FileStates PROVE Counted(x, 0, 0, -1) \in FileStates
    BY CountedFacts
  <2>2. st \in FileStates
    BY <1>1
  <2> HIDE DEF st
  <2> QED BY <2>1, <2>2
<1>3. cmds[r] \in [Writers -> Seq(Commands)]
  BY DEF TypeOK
<1> HIDE DEF f, st, less
<1> QED BY <1>1, <1>2, <1>3, RoutedMaybeClose

LEMMA RoutedComplete ==
  ASSUME TypeOK, NEW r \in Ranks, NEW e \in in_flight[r], Complete(r, e[1], e[2]), Routed(cmds[r])
  PROVE  Routed(cmds'[r])
<1> DEFINE c == wire[r][e[1]]
           f == c.file
           st == file_state[r][f]
           cmd == Write(c)
           Q == Enqueue(cmds[r], cmd)
           moved == Counted(st, 0, -1, 1)
           less == Counted(st, 0, -1, 0)
<1>1. /\ f \in Files /\ st \in FileStates /\ cmd \in Commands
      /\ \/ cmds' = cmds
         \/ MaybeCloseFile(r, f, moved, Q)
         \/ MaybeCloseFile(r, f, less, cmds[r])
  BY CompleteEffect
<1>2. less \in FileStates /\ moved \in FileStates
  <2>1. ASSUME NEW x \in FileStates PROVE Counted(x, 0, -1, 0) \in FileStates
    BY CountedFacts
  <2>2. ASSUME NEW x \in FileStates PROVE Counted(x, 0, -1, 1) \in FileStates
    BY CountedFacts
  <2>3. st \in FileStates
    BY <1>1
  <2> HIDE DEF st
  <2> QED BY <2>1, <2>2, <2>3
<1>3. cmds[r] \in [Writers -> Seq(Commands)]
  BY DEF TypeOK
<1>q. Q = Enqueue(cmds[r], cmd)
  OBVIOUS
<1> HIDE DEF c, f, st, cmd, Q, moved, less
<1>4. Q \in [Writers -> Seq(Commands)] /\ Routed(Q)
  BY <1>1, <1>3, <1>q, EnqueueType, RoutedEnqueue
<1>5. CASE MaybeCloseFile(r, f, moved, Q)
  BY <1>1, <1>2, <1>4, <1>5, RoutedMaybeClose
<1>6. CASE MaybeCloseFile(r, f, less, cmds[r])
  BY <1>1, <1>2, <1>3, <1>6, RoutedMaybeClose
<1> QED BY <1>1, <1>5, <1>6

(* The steps that touch none of a rank's file states, queues or counts.     *)
LEMMA LifecycleKeep ==
  ASSUME TypeOK, NEW r \in Ranks, Lifecycle(r), cmds'[r] = cmds[r], acks'[r] = acks[r],
         file_state'[r] = file_state[r], OpenSame(r),
         result'[r] = result[r] \/ result'[r] = "err",
         next_plan_idx'[r] = next_plan_idx[r], active'[r] = active[r],
         wire'[r] = wire[r], in_flight'[r] = in_flight[r]
  PROVE  Lifecycle(r)'
<1>1. Routed(cmds[r])'
  BY DEF Lifecycle, Routed
<1>2. Opened(r)'
  <2>1. StaysOpen(r) /\ Opened(r)
    BY DEF StaysOpen, Lifecycle
  <2> QED BY <2>1, OpenedKeep
<1>3. ASSUME NEW g \in Files PROVE Life(r, g)'
  BY LifeKeep DEF Lifecycle
<1>4. ASSUME NEW g \in Files PROVE Counts(r, g)'
  <2>1. Counts(r, g)
    BY DEF Lifecycle
  <2>2. WritesFor(r, g)' = WritesFor(r, g)
    BY DEF WritesFor
  <2>3. ChunksFor(r, g)' = ChunksFor(r, g)
    BY SameChunksFor
  <2>4. PostedShards(r, g)' = PostedShards(r, g)
    BY SameShards
  <2>5. CASE result'[r] = "err"
    BY <2>5 DEF Counts
  <2>6. CASE result'[r] = result[r]
    BY <2>1, <2>2, <2>3, <2>4, <2>6, CountsKeep
  <2> QED BY <2>5, <2>6
<1> QED BY <1>1, <1>2, <1>3, <1>4 DEF Lifecycle

(* Every step keeps the life and the counters of every file.                *)
LEMMA LifecycleWriter ==
  ASSUME TypeOK, NEW r \in Ranks, Lifecycle(r), NEW w \in Writers, WritersStep(r, w)
  PROVE  Lifecycle(r)'
<1>1. CASE WriterExit(r, w)
  BY <1>1, LifecycleKeep DEF WriterExit, OpenSame, cursorVars, bcastVars, fileVars
<1>2. CASE ~WriterExit(r, w)
  <2>1. /\ file_state' = file_state /\ result' = result /\ next_plan_idx' = next_plan_idx
        /\ active' = active /\ wire' = wire /\ in_flight' = in_flight
    BY <1>2 DEF WritersStep, WriterOpen, WriterWrite, WriterClose, cursorVars, bcastVars
  <2>2. Routed(cmds[r])'
    <3>1. Routed(cmds'[r])
      BY <1>2, WriterEffect, RoutedDequeue DEF Lifecycle
    <3> QED BY <3>1
  <2>3. Opened(r)'
    <3>1. StaysOpen(r) /\ Opened(r)
      BY <2>1 DEF StaysOpen, Lifecycle
    <3> QED BY <2>1, <3>1, OpenedKeep
  <2>4. \A s, f : OnWriter(cmds'[r], acks'[r], s, f) = OnWriter(cmds[r], acks[r], s, f)
    <3>1. CASE WriterOpen(r, w)
      <4>1. Dequeue(r, w, "open") /\ acks'[r] = acks[r]
        BY <3>1 DEF WriterOpen
      <4> QED BY <4>1, DequeueOther
    <3>2. CASE WriterClose(r, w)
      <4>1. Dequeue(r, w, "close") /\ acks'[r] = acks[r]
        BY <3>2 DEF WriterClose
      <4> QED BY <4>1, DequeueOther
    <3>3. CASE WriterWrite(r, w)
      <4> DEFINE c == Head(cmds[r][w])
      <4>1. Dequeue(r, w, "write") /\ (SendAck(r, c, TRUE) \/ SendAck(r, c, FALSE))
        BY <3>3 DEF WriterWrite
      <4>2. c \in Commands
        BY <4>1, DequeueType
      <4>3. PICK err \in BOOLEAN :
              acks'[r] = Append(acks[r], [slot |-> c.slot, file |-> c.file, err |-> err])
        BY <4>1 DEF SendAck, TypeOK
      <4> DEFINE a == [slot |-> c.slot, file |-> c.file, err |-> err]
      <4>4. a \in Acks /\ a.slot = c.slot /\ a.file = c.file
        BY <4>2 DEF Acks, Commands
      <4>5. acks'[r] = Append(acks[r], a)
        BY <4>3
      <4> HIDE DEF a
      <4> QED BY <4>1, <4>4, <4>5, DequeueWrite
    <3> QED BY <1>2, <3>1, <3>2, <3>3 DEF WritersStep
  <2>5. ASSUME NEW g \in Files PROVE Life(r, g)'
    BY <1>2, LifeWriter DEF Lifecycle
  <2>6. ASSUME NEW g \in Files PROVE Counts(r, g)'
    <3>1. Counts(r, g)
      BY DEF Lifecycle
    <3>2. WritesFor(r, g)' = WritesFor(r, g)
      BY <2>4, SameWrites
    <3>3. ChunksFor(r, g)' = ChunksFor(r, g)
      BY <2>1, SameChunksFor
    <3>4. PostedShards(r, g)' = PostedShards(r, g)
      BY <2>1, SameShards
    <3> QED BY <2>1, <3>1, <3>2, <3>3, <3>4, CountsKeep
  <2> QED BY <2>2, <2>3, <2>5, <2>6 DEF Lifecycle
<1> QED BY <1>1, <1>2

LEMMA LifecycleComplete ==
  ASSUME TypeOK, NEW r \in Ranks, Lifecycle(r), Pool(r), result[r] = "ok",
         NEW e \in in_flight[r], Complete(r, e[1], e[2])
  PROVE  Lifecycle(r)'
<1> DEFINE c == wire[r][e[1]]
           f == c.file
<1>1. /\ f \in Files /\ e[1] \in DOMAIN wire[r] /\ wire' = wire /\ in_flight'[r] = in_flight[r] \ {e}
  BY CompleteEffect
<1>2. NeedsWrite(r, f) => file_state[r][f].opened /\ ~file_state[r][f].closed
  <2>1. NeedsWrite(r, f) => file_state[r][f].opened
    BY <1>1 DEF Lifecycle, Opened
  <2>2. c.slot \in ChunksFor(r, f)
    BY <1>1, ChunksCompleted
  <2>3. Cardinality(ChunksFor(r, f)) # 0
    BY <2>2, CountedSets, FS_EmptySet
  <2>4. Counts(r, f)
    BY <1>1 DEF Lifecycle
  <2>5. ~file_state[r][f].closed
    BY <2>3, <2>4 DEF Counts, Settled
  <2> QED BY <2>1, <2>5
<1>3. ASSUME NEW g \in Files PROVE Life(r, g)'
  <2>1. Life(r, g)
    BY DEF Lifecycle
  <2> QED BY <1>2, <2>1, LifeComplete
<1>4. ASSUME NEW g \in Files PROVE Counts(r, g)'
  <2>1. Counts(r, g)
    BY DEF Lifecycle
  <2> QED BY <2>1, CountsComplete
<1>5. Routed(cmds[r])'
  <2>1. Routed(cmds'[r])
    BY RoutedComplete DEF Lifecycle
  <2> QED BY <2>1
<1>6. Opened(r)'
  BY OpenedComplete DEF Lifecycle
<1> QED BY <1>3, <1>4, <1>5, <1>6 DEF Lifecycle

LEMMA LifecycleInit == Init => LifecycleInv
<1> SUFFICES ASSUME Init, NEW r \in Ranks PROVE Lifecycle(r)
  BY DEF LifecycleInv
<1>1. Routed(cmds[r])
  BY DEF Init, Routed
<1>2. Opened(r)
  BY DEF Init, Opened
<1>3. ASSUME NEW g \in Files PROVE Life(r, g)
  <2>1. /\ cmds[r][WriterOf(g)] = <<>> /\ files[r] = {}
        /\ file_state[r][g] = [opened |-> FALSE, closed |-> FALSE, shards_posted |-> 0,
                               chunks_in_flight |-> 0, writes_in_flight |-> 0]
    BY WriterExists DEF Init
  <2> QED BY <2>1 DEF Life, LifeOf, Of, NoneOf
<1> QED BY <1>1, <1>2, <1>3, CountsInit DEF Lifecycle

LEMMA LifecycleStep ==
  ASSUME TypeOK, ControlInv, PoolInv, LifecycleInv, [Next]_vars
  PROVE  LifecycleInv'
<1> SUFFICES ASSUME NEW r \in Ranks PROVE Lifecycle(r)'
  BY DEF LifecycleInv
<1>0. Lifecycle(r) /\ Pool(r) /\ Control(r)
  BY DEF LifecycleInv, PoolInv, ControlInv
<1>r. result[r] \in {"ok", "err"} /\ result'[r] = result'[r]
  BY DEF TypeOK
<1>1. CASE StartShard(r)
  <2>1. result[r] = "ok"
    BY <1>0, <1>1, <1>r DEF StartShard, Control
  <2>2. Routed(cmds[r])'
    <3>1. Routed(cmds'[r])
      BY <1>0, <1>1, RoutedStartShard DEF Lifecycle
    <3> QED BY <3>1
  <2>3. Opened(r)'
    BY <1>0, <1>1, OpenedStartShard DEF Lifecycle
  <2>4. ASSUME NEW g \in Files PROVE Life(r, g)' /\ Counts(r, g)'
    <3>1. Life(r, g) /\ Counts(r, g)
      BY <1>0 DEF Lifecycle
    <3> QED BY <1>1, <2>1, <3>1, LifeStartShard, CountsStartShard
  <2> QED BY <2>2, <2>3, <2>4 DEF Lifecycle
<1>2. CASE PostChunk(r)
  <2>1. result[r] = "ok"
    BY <1>0, <1>2, <1>r DEF PostChunk, Control
  <2>2. Routed(cmds[r])'
    <3>1. Routed(cmds'[r])
      BY <1>0, <1>2, RoutedPostChunk DEF Lifecycle
    <3> QED BY <3>1
  <2>3. Opened(r)'
    BY <1>0, <1>2, OpenedPostChunk DEF Lifecycle
  <2>4. ASSUME NEW g \in Files PROVE Life(r, g)' /\ Counts(r, g)'
    <3>1. Life(r, g) /\ Counts(r, g)
      BY <1>0 DEF Lifecycle
    <3> QED BY <1>0, <1>2, <2>1, <3>1, LifePostChunk, CountsPostChunk
  <2> QED BY <2>2, <2>3, <2>4 DEF Lifecycle
<1>3. CASE TakeAck(r)
  <2>1. result[r] = "ok"
    BY <1>0, <1>3, <1>r DEF TakeAck, Control
  <2>2. Routed(cmds[r])'
    <3>1. Routed(cmds'[r])
      BY <1>0, <1>3, RoutedTakeAck DEF Lifecycle
    <3> QED BY <3>1
  <2>3. Opened(r)'
    BY <1>0, <1>3, OpenedTakeAck DEF Lifecycle
  <2>4. ASSUME NEW g \in Files PROVE Life(r, g)'
    <3>1. Life(r, g)
      BY <1>0 DEF Lifecycle
    <3> QED BY <1>3, <3>1, LifeTakeAck
  <2>5. ASSUME NEW g \in Files PROVE Counts(r, g)'
    <3>1. Counts(r, g)
      BY <1>0 DEF Lifecycle
    <3>2. CASE result'[r] = "ok"
      BY <1>0, <1>3, <2>1, <3>1, <3>2, CountsTakeAck
    <3>3. CASE result'[r] # "ok"
      BY <3>3 DEF Counts
    <3> QED BY <3>2, <3>3
  <2> QED BY <2>2, <2>3, <2>4, <2>5 DEF Lifecycle
<1>4. CASE EndPosting(r) \/ AfterDrain(r) \/ JoinWriters(r) \/ MainCallFails(r) \/ Aborted(r) \/ Idle(r)
  <2>1. /\ cmds'[r] = cmds[r] /\ acks'[r] = acks[r]
        /\ file_state'[r] = file_state[r] /\ OpenSame(r)
        /\ result'[r] = result[r] \/ result'[r] = "err"
        /\ next_plan_idx'[r] = next_plan_idx[r] /\ active'[r] = active[r]
        /\ wire'[r] = wire[r] /\ in_flight'[r] = in_flight[r]
    <3>1. result \in [Ranks -> {"ok", "err"}]
      BY DEF TypeOK
    <3> QED BY <1>4, <3>1 DEF EndPosting, AfterDrain, JoinWriters, MainCallFails, Aborted, Idle,
               SameRank, OpenSame, cursorVars, bcastVars, fileVars, writerVars
  <2> QED BY <1>0, <2>1, LifecycleKeep
<1>5. CASE WaitAny(r)
  <2>1. PICK e \in in_flight[r] : Complete(r, e[1], e[2])
    BY <1>5 DEF WaitAny
  <2>2. result[r] = "ok"
    BY <1>0, <1>r, <2>1 DEF Complete, Control
  <2> QED BY <1>0, <2>1, <2>2, LifecycleComplete
<1>6. CASE \E w \in Writers : ~Returned(r) /\ WritersStep(r, w)
  BY <1>0, <1>6, LifecycleWriter
<1> QED BY <1>1, <1>2, <1>3, <1>4, <1>5, <1>6, RankStep

(* The head of a writer's queue, if a write, is for a file it has open.     *)
LEMMA HeadWriteOpen ==
  ASSUME TypeOK, NEW r \in Ranks, Lifecycle(r), NEW w \in Writers, cmds[r][w] # <<>>,
         Head(cmds[r][w]).kind = "write"
  PROVE  Head(cmds[r][w]).file \in files[r]
<1> DEFINE q == cmds[r][w]
           f == q[1].file
<1>1. q \in Seq(Commands) /\ q # <<>> /\ Head(q) = q[1] /\ 1 \in DOMAIN q /\ DOMAIN q \subseteq Nat \ {0}
      /\ q[1] \in Commands
  BY DEF TypeOK
<1>2. f \in Files /\ WriterOf(f) = w
  <2>1. f \in Files
    BY <1>1 DEF Commands
  <2>2. Routed(cmds[r])
    BY DEF Lifecycle
  <2> QED BY <1>1, <2>1, <2>2 DEF Routed
<1>3. Life(r, f)
  BY <1>2 DEF Lifecycle
<1>4. \A j \in DOMAIN q : q[j].file = f /\ q[j].kind # "open" =>
       f \in files[r] \/ \E i \in Of(q, f, "open") : i < j
  BY <1>2, <1>3 DEF Life, LifeOf
<1>5. \A i \in Of(q, f, "open") : ~(i < 1)
  BY <1>1 DEF Of
<1>6. q[1].kind = "write"
  BY <1>1
<1>7. f \in files[r]
  BY <1>1, <1>4, <1>5, <1>6
<1> QED BY <1>1, <1>7

(* Broadcast.WritesReachOpenFile: a Write finds its file open at its        *)
(* writer; none comes before the Open or after the Close.                   *)
THEOREM WritesReachOpenFileAlways == Spec => []WritesReachOpenFile
<1>1. Init => FlowInv /\ LifecycleInv
  BY FlowInit, LifecycleInit
<1>2. TypeOK /\ TypeOK' /\ FlowInv /\ LifecycleInv /\ [Next]_vars => FlowInv' /\ LifecycleInv'
  BY FlowStep, LifecycleStep DEF FlowInv
<1>3. TypeOK /\ LifecycleInv => WritesReachOpenFile
  BY HeadWriteOpen DEF LifecycleInv, WritesReachOpenFile
<1> QED BY <1>1, <1>2, <1>3, TypeCorrect, PTL DEF Spec

(* Every write queued in P is still queued in Q.                            *)
WritesKept(P, Q) == \A w \in Writers : \A i \in DOMAIN P[w] :
  P[w][i].kind = "write" => \E j \in DOMAIN Q[w] : Q[w][j] = P[w][i]

(* Queues that keep their Writes, in place.                                 *)
LEMMA KeptSelf == ASSUME NEW Q PROVE WritesKept(Q, Q)
BY DEF WritesKept

LEMMA KeptTrans ==
  ASSUME NEW O, NEW P, NEW Q, WritesKept(O, P), WritesKept(P, Q)
  PROVE  WritesKept(O, Q)
<1> SUFFICES ASSUME NEW w \in Writers, NEW i \in DOMAIN O[w], O[w][i].kind = "write"
             PROVE  \E j \in DOMAIN Q[w] : Q[w][j] = O[w][i]
  BY DEF WritesKept
<1>1. PICK k \in DOMAIN P[w] : P[w][k] = O[w][i]
  BY DEF WritesKept
<1>2. PICK j \in DOMAIN Q[w] : Q[w][j] = P[w][k]
  BY <1>1 DEF WritesKept
<1> QED BY <1>1, <1>2

LEMMA KeptEnqueue ==
  ASSUME NEW Q \in [Writers -> Seq(Commands)], NEW cmd \in Commands, NEW E, E = Enqueue(Q, cmd)
  PROVE  /\ WritesKept(Q, E)
         /\ \E w \in Writers : \E i \in DOMAIN E[w] : E[w][i] = cmd
<1> DEFINE v == WriterOf(cmd.file)
<1>d. v = WriterOf(cmd.file)
  OBVIOUS
<1> HIDE DEF v
<1>1. /\ v \in Writers /\ Len(Q[v]) \in Nat
      /\ DOMAIN E[v] = 1 .. Len(Q[v]) + 1
      /\ E[v][Len(Q[v]) + 1] = cmd
      /\ \A w \in Writers : \A i \in DOMAIN Q[w] : i \in DOMAIN E[w] /\ E[w][i] = Q[w][i]
  BY <1>d, EnqueueFacts, SMTT(30)
<1>2. WritesKept(Q, E)
  BY <1>1 DEF WritesKept
<1>3. Len(Q[v]) + 1 \in DOMAIN E[v]
  BY <1>1
<1> QED BY <1>1, <1>2, <1>3

LEMMA KeptMaybeClose ==
  ASSUME TypeOK, NEW r \in Ranks, NEW f \in Files, NEW st \in FileStates,
         NEW Q \in [Writers -> Seq(Commands)], MaybeCloseFile(r, f, st, Q)
  PROVE  WritesKept(Q, cmds'[r])
<1>1. cmds'[r] = Q \/ cmds'[r] = Enqueue(Q, CloseFile(f))
  BY MaybeCloseEffect
<1>2. CloseFile(f) \in Commands
  BY CommandTypes
<1>3. WritesKept(Q, Q) /\ WritesKept(Q, Enqueue(Q, CloseFile(f)))
  BY <1>2, KeptSelf, KeptEnqueue
<1> QED BY <1>1, <1>3

LEMMA KeptDequeue ==
  ASSUME TypeOK, NEW r \in Ranks, NEW w \in Writers, NEW kind, Dequeue(r, w, kind)
  PROVE  /\ \A v \in Writers : \A i \in DOMAIN cmds[r][v] :
              v # w \/ i # 1 => \E j \in DOMAIN cmds'[r][v] : cmds'[r][v][j] = cmds[r][v][i]
         /\ kind # "write" => WritesKept(cmds[r], cmds'[r])
<1> DEFINE P == cmds[r]
           Q == cmds'[r]
<1>1. /\ \A v \in Writers : v # w => Q[v] = P[v]
      /\ \A i \in DOMAIN P[w] : i # 1 => i - 1 \in DOMAIN Q[w] /\ Q[w][i - 1] = P[w][i]
      /\ P[w][1].kind = kind
  BY DequeueFacts
<1> HIDE DEF P, Q
<1>2. ASSUME NEW v \in Writers, NEW i \in DOMAIN P[v], v # w \/ i # 1
      PROVE  \E j \in DOMAIN Q[v] : Q[v][j] = P[v][i]
  BY <1>1, <1>2
<1>3. kind # "write" => WritesKept(P, Q)
  BY <1>1, <1>2 DEF WritesKept
<1> QED BY <1>2, <1>3 DEF P, Q

LEMMA KeptStartShard ==
  ASSUME TypeOK, NEW r \in Ranks, StartShard(r)
  PROVE  WritesKept(cmds[r], cmds'[r])
<1> DEFINE i == next_plan_idx[r] + 1
           s == Plan[i]
           f == s.file
           st == file_state[r][f]
           opens == NeedsWrite(r, f) /\ ~st.opened
           st1 == [st EXCEPT !.opened = @ \/ opens]
           Q == IF opens THEN Enqueue(cmds[r], OpenFile(f)) ELSE cmds[r]
           more == Counted(st1, 1, 0, 0)
<1>1. /\ f \in Files /\ st1 \in FileStates /\ Q \in [Writers -> Seq(Commands)]
      /\ MaybeCloseFile(r, f, more, Q) \/ cmds' = [cmds EXCEPT ![r] = Q]
  BY StartShardEffect
<1>2. WritesKept(cmds[r], Q)
  <2>1. OpenFile(f) \in Commands
    BY <1>1, CommandTypes
  <2>2. cmds[r] \in [Writers -> Seq(Commands)]
    BY DEF TypeOK
  <2>3. WritesKept(cmds[r], Enqueue(cmds[r], OpenFile(f))) /\ WritesKept(cmds[r], cmds[r])
    BY <2>1, <2>2, KeptEnqueue, KeptSelf
  <2> QED BY <2>3
<1>3. more \in FileStates
  <2>1. st1 \in FileStates
    BY <1>1
  <2> HIDE DEF st1
  <2> QED BY <2>1, CountedFacts
<1> HIDE DEF i, s, f, st, opens, st1, Q, more
<1>4. CASE MaybeCloseFile(r, f, more, Q)
  <2>1. WritesKept(Q, cmds'[r])
    BY <1>1, <1>3, <1>4, KeptMaybeClose
  <2> QED BY <1>2, <2>1, KeptTrans
<1>5. CASE cmds' = [cmds EXCEPT ![r] = Q]
  <2>1. cmds'[r] = Q
    BY <1>5 DEF TypeOK
  <2> QED BY <1>2, <2>1
<1> QED BY <1>1, <1>4, <1>5

LEMMA KeptPostChunk ==
  ASSUME TypeOK, NEW r \in Ranks, PostChunk(r)
  PROVE  WritesKept(cmds[r], cmds'[r])
<1> DEFINE f == NextShard(r).file
           st == file_state[r][f]
           more == Counted(st, 1, 1, 0)
<1>1. /\ f \in Files /\ st \in FileStates
      /\ MaybeCloseFile(r, f, more, cmds[r]) \/ cmds' = cmds
  BY PostChunkFiles
<1>2. more \in FileStates
  <2>1. st \in FileStates
    BY <1>1
  <2> HIDE DEF st
  <2> QED BY <2>1, CountedFacts
<1>3. cmds[r] \in [Writers -> Seq(Commands)]
  BY DEF TypeOK
<1> HIDE DEF f, st, more
<1> QED BY <1>1, <1>2, <1>3, KeptMaybeClose, KeptSelf

LEMMA KeptTakeAck ==
  ASSUME TypeOK, NEW r \in Ranks, TakeAck(r)
  PROVE  WritesKept(cmds[r], cmds'[r])
<1> DEFINE f == Head(acks[r]).file
           st == file_state[r][f]
           less == Counted(st, 0, 0, -1)
<1>1. /\ f \in Files /\ st \in FileStates
      /\ MaybeCloseFile(r, f, less, cmds[r]) \/ cmds' = cmds
  BY TakeAckEffect DEF fileVars
<1>2. less \in FileStates
  <2>1. ASSUME NEW x \in FileStates PROVE Counted(x, 0, 0, -1) \in FileStates
    BY CountedFacts
  <2>2. st \in FileStates
    BY <1>1
  <2> HIDE DEF st
  <2> QED BY <2>1, <2>2
<1>3. cmds[r] \in [Writers -> Seq(Commands)]
  BY DEF TypeOK
<1> HIDE DEF f, st, less
<1> QED BY <1>1, <1>2, <1>3, KeptMaybeClose, KeptSelf

(* ... and the Write of a released chunk joins them.                        *)
LEMMA KeptComplete ==
  ASSUME TypeOK, NEW r \in Ranks, NEW e \in in_flight[r], Complete(r, e[1], e[2])
  PROVE  LET c == wire[r][e[1]]
         IN /\ WritesKept(cmds[r], cmds'[r])
            /\ SlotReleased(r, c.slot) /\ NeedsWrite(r, c.file) =>
                 \E w \in Writers : \E i \in DOMAIN cmds'[r][w] : cmds'[r][w][i] = Write(c)
<1> DEFINE c == wire[r][e[1]]
           f == c.file
           st == file_state[r][f]
           cmd == Write(c)
           Q == Enqueue(cmds[r], cmd)
           moved == Counted(st, 0, -1, 1)
           less == Counted(st, 0, -1, 0)
<1>1. /\ f \in Files /\ st \in FileStates /\ cmd \in Commands
      /\ \/ ~SlotReleased(r, c.slot) /\ cmds' = cmds
         \/ SlotReleased(r, c.slot) /\ NeedsWrite(r, f) /\ MaybeCloseFile(r, f, moved, Q)
         \/ ~NeedsWrite(r, f) /\ MaybeCloseFile(r, f, less, cmds[r])
  BY CompleteEffect
<1>2. less \in FileStates /\ moved \in FileStates
  <2>1. ASSUME NEW x \in FileStates PROVE Counted(x, 0, -1, 0) \in FileStates
    BY CountedFacts
  <2>2. ASSUME NEW x \in FileStates PROVE Counted(x, 0, -1, 1) \in FileStates
    BY CountedFacts
  <2>3. st \in FileStates
    BY <1>1
  <2> HIDE DEF st
  <2> QED BY <2>1, <2>2, <2>3
<1>3. cmds[r] \in [Writers -> Seq(Commands)]
  BY DEF TypeOK
<1>q. Q = Enqueue(cmds[r], cmd) /\ cmd.kind = "write"
      /\ c = wire[r][e[1]] /\ f = c.file /\ cmd = Write(c)
  BY DEF Write
<1> HIDE DEF c, f, st, cmd, Q, moved, less
<1>4. /\ Q \in [Writers -> Seq(Commands)] /\ WritesKept(cmds[r], Q)
      /\ \E w \in Writers : \E i \in DOMAIN Q[w] : Q[w][i] = cmd
  <2>1. cmd \in Commands /\ cmds[r] \in [Writers -> Seq(Commands)] /\ Q = Enqueue(cmds[r], cmd)
    BY <1>1, <1>3, <1>q
  <2> QED BY <2>1, EnqueueType, KeptEnqueue
<1>5. CASE SlotReleased(r, c.slot) /\ NeedsWrite(r, f) /\ MaybeCloseFile(r, f, moved, Q)
  <2>1. WritesKept(Q, cmds'[r])
    BY <1>1, <1>2, <1>4, <1>5, KeptMaybeClose
  <2>2. WritesKept(cmds[r], cmds'[r])
    BY <1>4, <2>1, KeptTrans
  <2>3. \E w \in Writers : \E i \in DOMAIN cmds'[r][w] : cmds'[r][w][i] = cmd
    BY <1>4, <1>q, <2>1 DEF WritesKept
  <2> QED BY <1>q, <2>2, <2>3
<1>6. CASE ~NeedsWrite(r, f) /\ MaybeCloseFile(r, f, less, cmds[r])
  <2>1. WritesKept(cmds[r], cmds'[r])
    BY <1>1, <1>2, <1>3, <1>6, KeptMaybeClose
  <2> QED BY <1>q, <1>6, <2>1
<1>7. CASE ~SlotReleased(r, c.slot) /\ cmds' = cmds
  BY <1>7, <1>q, KeptSelf
<1> QED BY <1>1, <1>5, <1>6, <1>7

(* Data that has landed stays: a Write stores its own data, and everything  *)
(* the planner has given a file's chunk is its own.                         *)
LEMMA LandedStays ==
  ASSUME TypeOK, DataInv, [Next]_vars, NEW r \in Ranks, NEW c \in Chunks, Fits(c), Landed(r, c)
  PROVE  Landed(r, c)'
<1> SUFFICES ASSUME NEW p \in 1 .. c.n PROVE Right(r, c.file, c.off + p)'
  BY DEF Landed
<1>1. /\ c.file \in Files /\ c.off \in Nat /\ c.n \in Nat /\ c.off + c.n <= Size[c.file]
      /\ Size[c.file] \in Nat
  BY BroadcastAssumption DEF Chunks, Fits
<1>2. c.off + p \in 1 .. Size[c.file]
  BY <1>1
<1>3. Right(r, c.file, c.off + p)
  BY DEF Landed
<1> QED BY <1>1, <1>2, <1>3, RightStays

(* A queued Write stays queued until a writer takes it, and an              *)
(* acknowledgement with an error until the main thread does.                *)
LEMMA QueuedStays ==
  ASSUME NEW r \in Ranks, NEW c, Queued(r, c), WritesKept(cmds[r], cmds'[r])
  PROVE  Queued(r, c)'
<1>1. PICK w \in Writers : \E i \in DOMAIN cmds[r][w] :
        /\ cmds[r][w][i].kind = "write" /\ cmds[r][w][i].file = c.file
        /\ cmds[r][w][i].off = c.off /\ cmds[r][w][i].n = c.n
  BY DEF Queued
<1>2. PICK i \in DOMAIN cmds[r][w] :
        /\ cmds[r][w][i].kind = "write" /\ cmds[r][w][i].file = c.file
        /\ cmds[r][w][i].off = c.off /\ cmds[r][w][i].n = c.n
  BY <1>1
<1>3. PICK j \in DOMAIN cmds'[r][w] : cmds'[r][w][j] = cmds[r][w][i]
  BY <1>2 DEF WritesKept
<1> QED BY <1>2, <1>3 DEF Queued

LEMMA AckAppended ==
  ASSUME TypeOK, NEW r \in Ranks, NEW a \in Acks, acks'[r] = Append(acks[r], a)
  PROVE  (AckFailed(r) => AckFailed(r)') /\ (a.err => AckFailed(r)')
<1>1. acks[r] \in Seq(Acks)
  BY DEF TypeOK
<1>2. /\ Len(acks[r]) \in Nat /\ DOMAIN acks[r] = 1 .. Len(acks[r])
      /\ DOMAIN acks'[r] = 1 .. Len(acks[r]) + 1
      /\ \A i \in DOMAIN acks[r] : acks'[r][i] = acks[r][i]
      /\ acks'[r][Len(acks[r]) + 1] = a
  BY <1>1, AppendFacts
<1>3. ASSUME AckFailed(r) PROVE AckFailed(r)'
  <2>1. PICK i \in DOMAIN acks[r] : acks[r][i].err
    BY <1>3 DEF AckFailed
  <2>2. i \in DOMAIN acks'[r] /\ acks'[r][i] = acks[r][i]
    BY <1>2
  <2> QED BY <2>1, <2>2 DEF AckFailed
<1>4. ASSUME a.err PROVE AckFailed(r)'
  <2>1. Len(acks[r]) + 1 \in DOMAIN acks'[r]
    BY <1>2
  <2> QED BY <1>2, <1>4, <2>1 DEF AckFailed
<1> QED BY <1>3, <1>4

LEMMA AckTaken ==
  ASSUME TypeOK, NEW r \in Ranks, acks[r] # <<>>, acks'[r] = Tail(acks[r]), ~Head(acks[r]).err, AckFailed(r)
  PROVE  AckFailed(r)'
<1> DEFINE A == acks[r]
<1>1. A \in Seq(Acks) /\ A # <<>>
  BY DEF TypeOK
<1>2. PICK i \in DOMAIN A : A[i].err
  BY DEF AckFailed
<1>3. /\ Len(A) \in Nat \ {0} /\ DOMAIN A = 1 .. Len(A) /\ Head(A) = A[1]
      /\ DOMAIN Tail(A) = 1 .. Len(A) - 1
      /\ \A j \in DOMAIN Tail(A) : Tail(A)[j] = A[j + 1]
  BY <1>1, TailFacts
<1>4. i # 1
  BY <1>2, <1>3
<1>5. i - 1 \in DOMAIN Tail(A) /\ (i - 1) + 1 = i
  BY <1>3, <1>4
<1>6. Tail(A)[i - 1].err
  BY <1>2, <1>3, <1>5
<1> QED BY <1>5, <1>6 DEF AckFailed

(* A chunk whose data is neither lost from the queues nor from the          *)
(* collectives is still on its way, or where it belongs.                    *)
LEMMA StillDone ==
  ASSUME TypeOK, DataInv, [Next]_vars, NEW r \in Ranks, NEW k \in DOMAIN wire[r],
         wire'[r][k] = wire[r][k], ChunkDone(r, k),
         InFlight(r, k) => ChunkDone(r, k)',
         Queued(r, wire[r][k]) => ChunkDone(r, k)',
         AckFailed(r) => AckFailed(r)'
  PROVE  ChunkDone(r, k)'
<1>1. wire[r][k] \in Chunks /\ Fits(wire[r][k])
  BY DEF TypeOK, DataInv, Data, WireData
<1>2. CASE Landed(r, wire[r][k])
  <2> DEFINE c == wire[r][k]
  <2>1. \A d \in Chunks : Fits(d) /\ Landed(r, d) => Landed(r, d)'
    BY LandedStays
  <2>2. PICK d \in Chunks : d = wire[r][k]
    BY <1>1
  <2>3. Landed(r, d)'
    BY <1>1, <1>2, <2>1, <2>2
  <2> QED BY <2>2, <2>3 DEF ChunkDone
<1>3. CASE AckFailed(r)
  BY <1>3 DEF ChunkDone
<1> QED BY <1>2, <1>3 DEF ChunkDone

(* The same, for the steps that move no chunk.                              *)
LEMMA DeliveredKeep ==
  ASSUME TypeOK, DataInv, [Next]_vars, NEW r \in Ranks, Delivered(r),
         result'[r] = result[r] \/ result'[r] = "err",
         wire'[r] = wire[r], in_flight'[r] = in_flight[r],
         WritesKept(cmds[r], cmds'[r]), AckFailed(r) => AckFailed(r)'
  PROVE  Delivered(r)'
<1> SUFFICES ASSUME result'[r] = "ok", NEW k \in DOMAIN wire'[r], NeedsWrite(r, wire'[r][k].file)
             PROVE  ChunkDone(r, k)'
  BY DEF Delivered, NeedsWrite
<1>1. k \in DOMAIN wire[r] /\ wire'[r][k] = wire[r][k] /\ ChunkDone(r, k)
  BY DEF Delivered
<1>2. InFlight(r, k) => ChunkDone(r, k)'
  BY DEF InFlight, ChunkDone
<1>3. Queued(r, wire[r][k]) => ChunkDone(r, k)'
  <2>1. PICK d : d = wire[r][k]
    OBVIOUS
  <2>2. Queued(r, d) => Queued(r, d)'
    BY QueuedStays
  <2> QED BY <1>1, <2>1, <2>2 DEF ChunkDone
<1> QED BY <1>1, <1>2, <1>3, StillDone

(* From one place of a chunk's data to the next: posted, completed, written *)
(* or failed, acknowledged.                                                 *)
LEMMA DeliveredPostChunk ==
  ASSUME TypeOK, DataInv, [Next]_vars, NEW r \in Ranks, Delivered(r), PostChunk(r)
  PROVE  Delivered(r)'
<1> SUFFICES ASSUME result'[r] = "ok", NEW k \in DOMAIN wire'[r], NeedsWrite(r, wire'[r][k].file)
             PROVE  ChunkDone(r, k)'
  BY DEF Delivered, NeedsWrite
<1>1. /\ result'[r] = result[r] /\ wire[r] \in Seq(Chunks) /\ NextChunk(r) \in Chunks
      /\ wire'[r] = Append(wire[r], NextChunk(r))
      /\ in_flight'[r] = in_flight[r] \cup ({NextIndex(r)} \X (1 .. SubCount(NextLen(r))))
      /\ acks'[r] = acks[r] /\ NextLen(r) \in 1 .. Chunk
  BY PostChunkEffect
<1>2. /\ Len(wire[r]) \in Nat /\ DOMAIN wire[r] = 1 .. Len(wire[r])
      /\ DOMAIN wire'[r] = 1 .. Len(wire[r]) + 1
      /\ \A j \in DOMAIN wire[r] : wire'[r][j] = wire[r][j]
  BY <1>1, AppendFacts
<1>3. WritesKept(cmds[r], cmds'[r])
  BY KeptPostChunk
<1>4. CASE k = Len(wire[r]) + 1
  <2>1. SubCount(NextLen(r)) \in Nat \ {0}
    <3>1. NextLen(r) \in Nat \ {0}
      BY <1>1
    <3> QED BY <3>1, SubCountPositive
  <2>2. <<k, 1>> \in in_flight'[r]
    BY <1>1, <1>4, <2>1 DEF NextIndex
  <2> QED BY <2>2 DEF ChunkDone, InFlight
<1>5. CASE k \in DOMAIN wire[r]
  <2>1. wire'[r][k] = wire[r][k] /\ ChunkDone(r, k)
    BY <1>1, <1>2, <1>5 DEF Delivered
  <2>2. InFlight(r, k) => ChunkDone(r, k)'
    BY <1>1 DEF InFlight, ChunkDone
  <2>3. Queued(r, wire[r][k]) => ChunkDone(r, k)'
    <3>1. PICK d : d = wire[r][k]
      OBVIOUS
    <3>2. Queued(r, d) => Queued(r, d)'
      BY <1>3, QueuedStays
    <3> QED BY <2>1, <3>1, <3>2 DEF ChunkDone
  <2>4. AckFailed(r) => AckFailed(r)'
    BY <1>1 DEF AckFailed
  <2> QED BY <1>5, <2>1, <2>2, <2>3, <2>4, StillDone
<1> QED BY <1>2, <1>4, <1>5

LEMMA DeliveredComplete ==
  ASSUME TypeOK, DataInv, [Next]_vars, NEW r \in Ranks, Delivered(r), Pool(r), result[r] = "ok",
         NEW e \in in_flight[r], Complete(r, e[1], e[2])
  PROVE  Delivered(r)'
<1> SUFFICES ASSUME NEW k \in DOMAIN wire[r], NeedsWrite(r, wire[r][k].file)
             PROVE  ChunkDone(r, k)'
  <2>1. wire' = wire
    BY CompleteEffect
  <2> QED BY <2>1 DEF Delivered, NeedsWrite
<1> DEFINE c == wire[r][e[1]]
<1>1. /\ wire' = wire /\ acks' = acks /\ in_flight'[r] = in_flight[r] \ {e}
      /\ c \in Chunks /\ c.slot \in Slots
  BY CompleteEffect
<1>2. /\ WritesKept(cmds[r], cmds'[r])
      /\ SlotReleased(r, c.slot) /\ NeedsWrite(r, c.file) =>
           \E w \in Writers : \E i \in DOMAIN cmds'[r][w] : cmds'[r][w][i] = Write(c)
  BY KeptComplete
<1>3. ChunkDone(r, k)
  BY DEF Delivered
<1>4. AckFailed(r) => AckFailed(r)'
  BY <1>1 DEF AckFailed
<1>5. Queued(r, wire[r][k]) => ChunkDone(r, k)'
  <2>1. PICK d : d = wire[r][k]
    OBVIOUS
  <2>2. Queued(r, d) => Queued(r, d)'
    BY <1>2, QueuedStays
  <2> QED BY <1>1, <2>1, <2>2 DEF ChunkDone
<1>6. ASSUME InFlight(r, k) PROVE ChunkDone(r, k)'
  <2>1. CASE k # e[1]
    <3>1. InFlight(r, k)'
      BY <1>1, <1>6, <2>1 DEF InFlight
    <3> QED BY <3>1 DEF ChunkDone
  <2>2. CASE k = e[1] /\ SlotReleased(r, c.slot)
    <3>1. PICK w \in Writers : \E i \in DOMAIN cmds'[r][w] : cmds'[r][w][i] = Write(c)
      BY <1>2, <2>2
    <3>2. PICK i \in DOMAIN cmds'[r][w] : cmds'[r][w][i] = Write(c)
      BY <3>1
    <3>3. Write(c).kind = "write" /\ Write(c).file = c.file /\ Write(c).off = c.off /\ Write(c).n = c.n
      BY DEF Write
    <3>4. wire'[r][k] = c
      BY <1>1, <2>2
    <3>5. Queued(r, wire[r][k])'
      BY <3>2, <3>3, <3>4 DEF Queued
    <3> QED BY <3>5 DEF ChunkDone
  <2>3. CASE k = e[1] /\ ~SlotReleased(r, c.slot)
    <3>1. /\ IsFiniteSet(in_flight[r])
          /\ \A d \in in_flight[r] : wire[r][d[1]].slot = wire[r][e[1]].slot => d[1] = e[1]
          /\ subs[r][c.slot] = Cardinality(Flying(r, c.slot))
      BY <1>1 DEF Pool
    <3>2. /\ Flying(r, c.slot)' = Flying(r, c.slot) \ {e}
          /\ (Flying(r, c.slot)' = {}) = (Cardinality(Flying(r, c.slot)) = 1)
      <4>1. \A s \in Slots : s = wire[r][e[1]].slot =>
                /\ Flying(r, s)' = Flying(r, s) \ {e}
                /\ (Flying(r, s)' = {}) = (Cardinality(Flying(r, s)) = 1)
        BY <1>1, <3>1, FlyingCompleted
      <4>2. wire'[r][e[1]] = wire[r][e[1]]
        BY <1>1
      <4>3. PICK s \in Slots : s = c.slot
        BY <1>1
      <4>4. Flying(r, s)' = Flying(r, c.slot)'
        BY <4>2, <4>3 DEF Flying
      <4> QED BY <4>1, <4>3, <4>4
    <3>3. Flying(r, c.slot) \ {e} # {}
      BY <2>3, <3>1, <3>2 DEF SlotReleased
    <3>4. PICK d \in Flying(r, c.slot) : d # e
      BY <3>3
    <3>5. d \in in_flight'[r] /\ d[1] = k
      BY <1>1, <2>3, <3>1, <3>4 DEF Flying
    <3> QED BY <3>5 DEF ChunkDone, InFlight
  <2> QED BY <2>1, <2>2, <2>3
<1> QED BY <1>1, <1>3, <1>4, <1>5, <1>6, StillDone

LEMMA DeliveredWriter ==
  ASSUME TypeOK, DataInv, [Next]_vars, NEW r \in Ranks, Delivered(r),
         NEW w \in Writers, WritersStep(r, w)
  PROVE  Delivered(r)'
<1>0. /\ wire'[r] = wire[r] /\ in_flight'[r] = in_flight[r] /\ result'[r] = result[r]
  BY DEF WritersStep, WriterOpen, WriterWrite, WriterClose, WriterExit, bcastVars
<1>1. CASE WriterOpen(r, w)
  <2>1. Dequeue(r, w, "open") /\ acks' = acks
    BY <1>1 DEF WriterOpen
  <2>2. WritesKept(cmds[r], cmds'[r])
    BY <2>1, KeptDequeue
  <2> QED BY <1>0, <2>1, <2>2, DeliveredKeep DEF AckFailed
<1>2. CASE WriterClose(r, w)
  <2>1. Dequeue(r, w, "close") /\ acks' = acks
    BY <1>2 DEF WriterClose
  <2>2. WritesKept(cmds[r], cmds'[r])
    BY <2>1, KeptDequeue
  <2> QED BY <1>0, <2>1, <2>2, DeliveredKeep DEF AckFailed
<1>3. CASE WriterExit(r, w)
  <2>1. cmds' = cmds /\ acks' = acks
    BY <1>3 DEF WriterExit, fileVars
  <2> QED BY <1>0, <2>1, KeptSelf, DeliveredKeep DEF AckFailed
<1>4. CASE WriterWrite(r, w)
  <2> SUFFICES ASSUME result'[r] = "ok", NEW k \in DOMAIN wire'[r], NeedsWrite(r, wire'[r][k].file)
               PROVE  ChunkDone(r, k)'
    BY DEF Delivered, NeedsWrite
  <2> DEFINE c == Head(cmds[r][w])
  <2>1. /\ Dequeue(r, w, "write")
        /\ \/ /\ disk' = [disk EXCEPT ![r][c.file] =
                            Overwritten(@, mem[r][c.slot], c.off, WriteLen(c.n))]
              /\ SendAck(r, c, FALSE)
           \/ SendAck(r, c, TRUE)
    BY <1>4 DEF WriterWrite
  <2>2. c \in Commands
    BY <2>1, DequeueType
  <2>3. PICK err \in BOOLEAN :
          /\ acks'[r] = Append(acks[r], [slot |-> c.slot, file |-> c.file, err |-> err])
          /\ ~err => disk' = [disk EXCEPT ![r][c.file] =
                            Overwritten(@, mem[r][c.slot], c.off, WriteLen(c.n))]
    BY <2>1 DEF SendAck, TypeOK
  <2> DEFINE a == [slot |-> c.slot, file |-> c.file, err |-> err]
  <2>4. a \in Acks /\ a.err = err
    BY <2>2 DEF Acks, Commands
  <2>5. acks'[r] = Append(acks[r], a)
    BY <2>3
  <2> HIDE DEF a
  <2>6. (AckFailed(r) => AckFailed(r)') /\ (err => AckFailed(r)')
    BY <2>4, <2>5, AckAppended
  <2>7. k \in DOMAIN wire[r] /\ wire'[r][k] = wire[r][k] /\ ChunkDone(r, k)
    BY <1>0 DEF Delivered
  <2>8. InFlight(r, k) => ChunkDone(r, k)'
    BY <1>0 DEF InFlight, ChunkDone
  <2>9. ASSUME Queued(r, wire[r][k]) PROVE ChunkDone(r, k)'
    <3>1. PICK d : d = wire[r][k]
      OBVIOUS
    <3>2. PICK v \in Writers : \E i \in DOMAIN cmds[r][v] :
            /\ cmds[r][v][i].kind = "write" /\ cmds[r][v][i].file = d.file
            /\ cmds[r][v][i].off = d.off /\ cmds[r][v][i].n = d.n
      BY <2>9, <3>1 DEF Queued
    <3>3. PICK i \in DOMAIN cmds[r][v] :
            /\ cmds[r][v][i].kind = "write" /\ cmds[r][v][i].file = d.file
            /\ cmds[r][v][i].off = d.off /\ cmds[r][v][i].n = d.n
      BY <3>2
    <3>4. CASE v # w \/ i # 1
      <4>1. PICK j \in DOMAIN cmds'[r][v] : cmds'[r][v][j] = cmds[r][v][i]
        BY <2>1, <3>4, KeptDequeue
      <4>2. Queued(r, d)'
        BY <3>3, <4>1 DEF Queued
      <4> QED BY <2>7, <3>1, <4>2 DEF ChunkDone
    <3>5. CASE v = w /\ i = 1
      <4>1. c = cmds[r][w][1] /\ 1 \in DOMAIN cmds[r][w] /\ c.kind = "write"
        BY <2>1, DequeueFacts
      <4>2. c.file = d.file /\ c.off = d.off /\ c.n = d.n
        BY <3>3, <3>5, <4>1
      <4>3. Fits(c) /\ \A p \in 1 .. c.n : mem[r][c.slot][p] = <<c.file, c.off + p>>
        <5>1. QueuedData(r)
          BY DEF DataInv, Data
        <5> HIDE DEF c
        <5> QED BY <4>1, <5>1 DEF QueuedData
      <4>4. CASE err
        BY <2>6, <4>4 DEF ChunkDone
      <4>5. CASE ~err
        <5>1. disk'[r] = [disk[r] EXCEPT ![c.file] =
                            Overwritten(@, mem[r][c.slot], c.off, WriteLen(c.n))]
          BY <2>3, <4>5 DEF TypeOK
        <5> HIDE DEF c
        <5>2. \A p \in 1 .. c.n : disk'[r][c.file][c.off + p] = <<c.file, c.off + p>>
          BY <2>2, <4>3, <5>1, WriteRight
        <5>3. Landed(r, d)'
          BY <4>2, <5>2 DEF Landed, Right
        <5> QED BY <2>7, <3>1, <5>3 DEF ChunkDone
      <4> QED BY <4>4, <4>5
    <3> QED BY <3>4, <3>5
  <2> QED BY <2>6, <2>7, <2>8, <2>9, StillDone
<1> QED BY <1>1, <1>2, <1>3, <1>4 DEF WritersStep

LEMMA DeliveredTakeAck ==
  ASSUME TypeOK, DataInv, [Next]_vars, NEW r \in Ranks, Delivered(r), TakeAck(r)
  PROVE  Delivered(r)'
<1>1. /\ acks[r] # <<>> /\ acks'[r] = Tail(acks[r]) /\ WritesKept(cmds[r], cmds'[r])
      /\ wire'[r] = wire[r] /\ in_flight'[r] = in_flight[r]
      /\ \/ Head(acks[r]).err /\ result'[r] = "err"
         \/ ~Head(acks[r]).err /\ result'[r] = result[r]
  BY TakeAckEffect, KeptTakeAck DEF bcastVars
<1>2. CASE result'[r] = "err"
  BY <1>2 DEF Delivered
<1>3. CASE ~Head(acks[r]).err /\ result'[r] = result[r]
  <2>1. AckFailed(r) => AckFailed(r)'
    BY <1>1, <1>3, AckTaken
  <2> QED BY <1>1, <1>3, <2>1, DeliveredKeep
<1> QED BY <1>1, <1>2, <1>3

LEMMA DeliveredStep ==
  ASSUME TypeOK, ControlInv, PoolInv, DataInv, [Next]_vars, NEW r \in Ranks, Delivered(r)
  PROVE  Delivered(r)'
<1>0. Pool(r) /\ Control(r) /\ result[r] \in {"ok", "err"}
  BY DEF PoolInv, ControlInv, TypeOK
<1>1. CASE StartShard(r)
  <2>1. /\ result'[r] = result[r] /\ wire'[r] = wire[r] /\ in_flight'[r] = in_flight[r] /\ acks'[r] = acks[r]
    BY <1>1, StartShardEffect DEF bcastVars, writerVars
  <2>2. WritesKept(cmds[r], cmds'[r])
    BY <1>1, KeptStartShard
  <2> QED BY <2>1, <2>2, DeliveredKeep DEF AckFailed
<1>2. CASE EndPosting(r) \/ AfterDrain(r) \/ JoinWriters(r) \/ MainCallFails(r) \/ Aborted(r) \/ Idle(r)
  <2>1. /\ cmds'[r] = cmds[r] /\ acks'[r] = acks[r]
        /\ result'[r] = result[r] \/ result'[r] = "err"
        /\ wire'[r] = wire[r] /\ in_flight'[r] = in_flight[r]
    <3>1. result \in [Ranks -> {"ok", "err"}]
      BY DEF TypeOK
    <3> QED BY <1>2, <3>1 DEF EndPosting, AfterDrain, JoinWriters, MainCallFails, Aborted, Idle,
               SameRank, bcastVars, fileVars, writerVars
  <2>2. WritesKept(cmds[r], cmds'[r])
    BY <2>1, KeptSelf
  <2> QED BY <2>1, <2>2, DeliveredKeep DEF AckFailed
<1>3. CASE WaitAny(r)
  <2>1. PICK e \in in_flight[r] : Complete(r, e[1], e[2])
    BY <1>3 DEF WaitAny
  <2>2. result[r] = "ok"
    BY <1>0, <2>1 DEF Complete, Control
  <2> QED BY <1>0, <2>1, <2>2, DeliveredComplete
<1>4. CASE \E w \in Writers : ~Returned(r) /\ WritersStep(r, w)
  BY <1>4, DeliveredWriter
<1> QED BY <1>1, <1>2, <1>3, <1>4, RankStep, DeliveredPostChunk, DeliveredTakeAck

------------------------------------------------------------------------------
(* Covered.                                                                 *)
LEMMA CoveredKeep ==
  ASSUME TypeOK, NEW r \in Ranks, Covered(r), wire'[r] = wire[r],
         next_plan_idx'[r] = next_plan_idx[r], active'[r] = active[r],
         post_offset'[r] = post_offset[r]
  PROVE  Covered(r)'
BY DEF Covered, PostedUnits

(* The cursor passes over a unit only when a chunk with that unit is        *)
(* posted.                                                                  *)
LEMMA CoveredStartShard ==
  ASSUME TypeOK, NEW r \in Ranks, Covered(r), StartShard(r)
  PROVE  Covered(r)'
<1> DEFINE n == next_plan_idx[r]
<1>0. n \in Nat /\ next_plan_idx \in [Ranks -> 0 .. Len(Plan)] /\ post_offset \in [Ranks -> Nat]
      /\ active \in [Ranks -> BOOLEAN]
  <2>1. Len(Plan) \in Nat
    BY BroadcastAssumption
  <2>2. next_plan_idx \in [Ranks -> 0 .. Len(Plan)] /\ post_offset \in [Ranks -> Nat]
        /\ active \in [Ranks -> BOOLEAN]
    BY DEF TypeOK
  <2> QED BY <2>1, <2>2
<1>1. /\ ~active[r] /\ next_plan_idx'[r] = n + 1 /\ post_offset'[r] = 0
      /\ wire'[r] = wire[r]
      /\ (active'[r] = FALSE /\ Plan[n + 1].len = 0) \/ active'[r] = TRUE
  <2>1. /\ ~active[r] /\ next_plan_idx'[r] = n + 1 /\ post_offset'[r] = 0
        /\ UNCHANGED bcastVars
    BY StartShardEffect
  <2>2. active'[r] = FALSE \/ active'[r] = TRUE
    BY StartShardEffect
  <2>3. active'[r] = TRUE \/ Plan[n + 1].len = 0
    BY StartShardEffect
  <2>4. wire' = wire
    BY <2>1 DEF bcastVars
  <2> QED BY <2>1, <2>2, <2>3, <2>4
<1>2. ASSUME NEW i \in DOMAIN Plan
      PROVE  1 .. PostedUnits(r, i)' \subseteq 1 .. PostedUnits(r, i)
  <2>1. i \in Nat
    BY BroadcastAssumption
  <2>2. CASE i <= n
    <3>1. PostedUnits(r, i) = Plan[i].len /\ PostedUnits(r, i)' = Plan[i].len
      BY <1>0, <1>1, <2>1, <2>2 DEF PostedUnits
    <3> QED BY <3>1
  <2>3. CASE i = n + 1
    <3>1. PostedUnits(r, i)' = 0
      BY <1>0, <1>1, <2>1, <2>3 DEF PostedUnits
    <3> QED BY <3>1
  <2>4. CASE i > n + 1
    <3>1. PostedUnits(r, i)' = 0
      BY <1>0, <1>1, <2>1, <2>4 DEF PostedUnits
    <3> QED BY <3>1
  <2>5. i <= n \/ i = n + 1 \/ i > n + 1
    BY <1>0, <2>1
  <2> QED BY <2>2, <2>3, <2>4, <2>5
<1> QED BY <1>1, <1>2 DEF Covered

LEMMA CoveredPostChunk ==
  ASSUME TypeOK, NEW r \in Ranks, Covered(r), PostChunk(r)
  PROVE  Covered(r)'
<1> DEFINE n == next_plan_idx[r]
           c == NextChunk(r)
           m == NextLen(r)
           s == NextShard(r)
           o == post_offset[r]
<1>1. /\ active[r] /\ next_plan_idx'[r] = n /\ post_offset'[r] = o + m
      /\ wire[r] \in Seq(Chunks) /\ c \in Chunks /\ wire'[r] = Append(wire[r], c)
      /\ s \in Shard /\ m \in 1 .. Chunk /\ o + m <= s.len
      /\ c.file = s.file /\ c.off = s.off + o /\ c.n = m
      /\ active'[r] = ~(o + m >= s.len)
  BY PostChunkEffect
<1>2. /\ n \in DOMAIN Plan /\ s = Plan[n] /\ n \in Nat /\ o \in Nat /\ m \in Nat
      /\ s.len \in Nat /\ s.off \in Nat
  <2>1. n \in 0 .. Len(Plan) /\ n > 0 /\ o \in Nat
    BY <1>1 DEF TypeOK
  <2>2. DOMAIN Plan = 1 .. Len(Plan) /\ Len(Plan) \in Nat /\ Chunk \in Nat
    BY BroadcastAssumption
  <2>3. s.len \in Nat /\ s.off \in Nat
    BY <1>1 DEF Shard
  <2> QED BY <1>1, <2>1, <2>2, <2>3 DEF NextShard
<1>3. /\ Len(wire[r]) \in Nat /\ DOMAIN wire[r] = 1 .. Len(wire[r])
      /\ DOMAIN wire'[r] = 1 .. Len(wire[r]) + 1
      /\ \A j \in DOMAIN wire[r] : wire'[r][j] = wire[r][j]
      /\ wire'[r][Len(wire[r]) + 1] = c
  BY <1>1, AppendFacts
<1>d. n = next_plan_idx[r] /\ o = post_offset[r]
  OBVIOUS
<1> HIDE DEF n, c, m, s, o
<1>4. SUFFICES ASSUME NEW i \in DOMAIN Plan, NEW p \in 1 .. PostedUnits(r, i)'
               PROVE  \E k \in DOMAIN wire'[r] : /\ wire'[r][k].file = Plan[i].file
                        /\ wire'[r][k].off < Plan[i].off + p
                        /\ Plan[i].off + p <= wire'[r][k].off + wire'[r][k].n
  BY DEF Covered
<1>5. i \in Nat /\ Plan[i] \in Shard /\ Plan[i].off \in Nat /\ Plan[i].len \in Nat
  <2>1. i \in Nat /\ Plan[i] \in Shard
    BY BroadcastAssumption
  <2> QED BY <2>1 DEF Shard
<1>6. ASSUME p \in 1 .. PostedUnits(r, i) PROVE
         \E k \in DOMAIN wire'[r] : /\ wire'[r][k].file = Plan[i].file
                        /\ wire'[r][k].off < Plan[i].off + p
                        /\ Plan[i].off + p <= wire'[r][k].off + wire'[r][k].n
  <2>1. PICK k \in DOMAIN wire[r] : /\ wire[r][k].file = Plan[i].file
                        /\ wire[r][k].off < Plan[i].off + p
                        /\ Plan[i].off + p <= wire[r][k].off + wire[r][k].n
    BY <1>6 DEF Covered
  <2>2. k \in DOMAIN wire'[r] /\ wire'[r][k] = wire[r][k]
    BY <1>3, <2>1
  <2> QED BY <2>1, <2>2
<1>7. CASE i # n
  <2>1. PostedUnits(r, i)' = PostedUnits(r, i)
    BY <1>1, <1>2, <1>5, <1>7, <1>d DEF PostedUnits
  <2> QED BY <1>6, <2>1
<1>8. CASE i = n
  <2>1. PostedUnits(r, i) = o
    BY <1>1, <1>2, <1>8, <1>d DEF PostedUnits
  <2>2. PostedUnits(r, i)' = o + m
    <3>1. CASE active'[r]
      BY <1>1, <1>2, <1>8, <1>d, <3>1 DEF PostedUnits
    <3>2. CASE ~active'[r]
      <4>1. PostedUnits(r, i)' = s.len
        BY <1>1, <1>2, <1>8, <1>d, <3>2 DEF PostedUnits
      <4>2. s.len = o + m
        <5>1. o + m >= s.len /\ o + m <= s.len
          BY <1>1, <3>2
        <5> QED BY <1>2, <5>1
      <4> QED BY <4>1, <4>2
    <3> QED BY <3>1, <3>2
  <2>3. CASE p <= o
    <3>1. p \in 1 .. PostedUnits(r, i)
      BY <1>2, <2>1, <2>2, <2>3
    <3> QED BY <1>6, <3>1
  <2>4. CASE p > o
    <3>1. p \in Nat /\ p <= o + m
      BY <1>2, <2>2
    <3>2. c.off < Plan[i].off + p /\ Plan[i].off + p <= c.off + c.n /\ c.file = Plan[i].file
      BY <1>1, <1>2, <1>8, <2>4, <3>1
    <3>3. Len(wire[r]) + 1 \in DOMAIN wire'[r]
      BY <1>3
    <3> QED BY <1>3, <3>2, <3>3
  <2>5. p \in Int /\ o \in Int
    BY <1>2, <2>2
  <2> QED BY <2>3, <2>4, <2>5
<1> QED BY <1>7, <1>8

LEMMA CoveredStep ==
  ASSUME TypeOK, [Next]_vars, NEW r \in Ranks, Covered(r)
  PROVE  Covered(r)'
<1>1. CASE EndPosting(r) \/ AfterDrain(r) \/ JoinWriters(r) \/ MainCallFails(r) \/ Aborted(r) \/ Idle(r)
           \/ TakeAck(r)
  <2>1. /\ next_plan_idx'[r] = next_plan_idx[r] /\ active'[r] = active[r]
        /\ post_offset'[r] = post_offset[r] /\ wire'[r] = wire[r]
    BY <1>1 DEF EndPosting, AfterDrain, JoinWriters, MainCallFails, Aborted, Idle, TakeAck,
               SameRank, bcastVars, cursorVars
  <2> QED BY <2>1, CoveredKeep
<1>2. CASE WaitAny(r)
  <2>1. /\ next_plan_idx'[r] = next_plan_idx[r] /\ active'[r] = active[r]
        /\ post_offset'[r] = post_offset[r] /\ wire'[r] = wire[r]
    BY <1>2 DEF WaitAny, Complete, cursorVars
  <2> QED BY <2>1, CoveredKeep
<1>3. CASE \E w \in Writers : ~Returned(r) /\ WritersStep(r, w)
  <2>1. /\ next_plan_idx'[r] = next_plan_idx[r] /\ active'[r] = active[r]
        /\ post_offset'[r] = post_offset[r] /\ wire'[r] = wire[r]
    BY <1>3 DEF WritersStep, WriterOpen, WriterWrite, WriterClose, WriterExit, bcastVars, cursorVars
  <2> QED BY <2>1, CoveredKeep
<1> QED BY <1>1, <1>2, <1>3, RankStep, CoveredStartShard, CoveredPostChunk

(* Lengths: padding can only lengthen a file that is open, and set_len cuts *)
(* it back before its close counts.                                         *)
LEMMA LengthsWrite ==
  ASSUME TypeOK, NEW r \in Ranks, QueuedData(r), Lengths(r), NEW w \in Writers, WriterWrite(r, w)
  PROVE  Lengths(r)'
<1> DEFINE c == Head(cmds[r][w])
           new == Overwritten(disk[r][c.file], mem[r][c.slot], c.off, WriteLen(c.n))
<1>t. /\ disk \in [Ranks -> [Files -> Seq(Cells)]]
      /\ \A f \in Files : Len(disk[r][f]) >= Size[f] /\ Size[f] \in Nat
  BY BroadcastAssumption DEF TypeOK
<1>1. /\ Dequeue(r, w, "write")
      /\ files' = files /\ deferred' = deferred
      /\ \/ disk' = disk
         \/ c.file \in files[r] /\ disk' = [disk EXCEPT ![r][c.file] =
                       Overwritten(@, mem[r][c.slot], c.off, WriteLen(c.n))]
  BY DEF WriterWrite
<1>2. /\ 1 \in DOMAIN cmds[r][w] /\ c = cmds[r][w][1] /\ c.kind = "write" /\ c \in Commands
  BY <1>1, DequeueFacts
<1>3. Fits(c) /\ c.file \in Files /\ c.off \in Nat /\ c.n \in Nat
  BY <1>2 DEF QueuedData, Commands
<1>4. /\ c.n \in 1 .. Chunk /\ c.off + c.n <= Size[c.file]
      /\ WriteLen(c.n) \in Nat
  BY <1>3, WriteLenFacts DEF Fits
<1>5. Len(new) = IF Len(disk[r][c.file]) >= c.off + WriteLen(c.n) THEN Len(disk[r][c.file])
                 ELSE c.off + WriteLen(c.n)
  BY <1>t, <1>3, <1>4, OverwrittenLength
<1>6. CASE disk' = disk
  BY <1>1, <1>6 DEF Lengths
<1>7. CASE /\ c.file \in files[r]
           /\ disk' = [disk EXCEPT ![r][c.file] =
                       Overwritten(@, mem[r][c.slot], c.off, WriteLen(c.n))]
  <2>1. disk'[r][c.file] = new /\ \A f \in Files : f # c.file => disk'[r][f] = disk[r][f]
    BY <1>t, <1>3, <1>7
  <2>2. ~Direct => Len(new) = Size[c.file]
    <3>1. Chunk \in Nat
      BY BroadcastAssumption
    <3>2. ~Direct => WriteLen(c.n) = c.n
      BY <1>4, <3>1 DEF WriteLen, Min2
    <3>3. ~Direct => Len(disk[r][c.file]) = Size[c.file]
      BY <1>3 DEF Lengths
    <3> QED BY <1>t, <1>3, <1>4, <1>5, <3>2, <3>3
  <2> HIDE DEF c, new
  <2> SUFFICES ASSUME NEW f \in Files
               PROVE  /\ ~Direct => Len(disk'[r][f]) = Size[f]
                      /\ f \notin files'[r] => Len(disk'[r][f]) = Size[f] \/ deferred'[r] # {}
    BY DEF Lengths
  <2>3. CASE f = c.file
    BY <1>1, <1>7, <2>1, <2>2, <2>3
  <2>4. CASE f # c.file
    BY <1>1, <2>1, <2>4 DEF Lengths
  <2> QED BY <2>3, <2>4
<1> QED BY <1>1, <1>6, <1>7

(* The length of a file: the cut of an O_DIRECT file at its close.          *)
LEMMA LengthsClose ==
  ASSUME TypeOK, NEW r \in Ranks, Lengths(r), NEW w \in Writers, WriterClose(r, w)
  PROVE  Lengths(r)'
<1> DEFINE F == Head(cmds[r][w]).file
           cut == IF Direct THEN Truncated(disk[r][F], Size[F]) ELSE disk[r][F]
<1>t. /\ disk \in [Ranks -> [Files -> Seq(Cells)]] /\ files \in [Ranks -> SUBSET Files]
      /\ deferred \in [Ranks -> SUBSET Writers]
      /\ \A f \in Files : Size[f] \in Nat
  BY BroadcastAssumption DEF TypeOK
<1>1. Dequeue(r, w, "close") /\ files' = [files EXCEPT ![r] = @ \ {F}]
  BY DEF WriterClose
<1>2. F \in Files
  BY <1>1, DequeueType DEF Commands
<1>3. Len(cut) = Size[F] \/ (~Direct /\ cut = disk[r][F])
  <2>1. Len(Truncated(disk[r][F], Size[F])) = Size[F]
    BY <1>t, <1>2, TruncatedType
  <2> QED BY <2>1
<1>4. Len(cut) = Size[F]
  BY <1>2, <1>3 DEF Lengths
<1>5. \/ F \notin files[r] /\ disk' = disk /\ deferred' = deferred
      \/ disk' = [disk EXCEPT ![r][F] = cut] /\ deferred' = deferred
      \/ /\ disk' = disk \/ disk' = [disk EXCEPT ![r][F] = cut]
         /\ deferred' = [deferred EXCEPT ![r] = @ \cup {w}]
  BY DEF WriterClose
<1> HIDE DEF F, cut
<1> SUFFICES ASSUME NEW f \in Files
             PROVE  /\ ~Direct => Len(disk'[r][f]) = Size[f]
                    /\ f \notin files'[r] => Len(disk'[r][f]) = Size[f] \/ deferred'[r] # {}
  BY DEF Lengths
<1>6. /\ ~Direct => Len(disk[r][f]) = Size[f]
      /\ f \notin files[r] => Len(disk[r][f]) = Size[f] \/ deferred[r] # {}
  BY DEF Lengths
<1>7. disk' = disk \/ disk' = [disk EXCEPT ![r][F] = cut]
  BY <1>5
<1>8. disk'[r][f] = disk[r][f] \/ (f = F /\ disk'[r][f] = cut)
  BY <1>t, <1>2, <1>7
<1>9. deferred[r] # {} => deferred'[r] # {}
  BY <1>t, <1>5
<1>10. CASE disk' = [disk EXCEPT ![r][F] = cut]
  <2>1. f = F => disk'[r][f] = cut
    BY <1>t, <1>2, <1>10
  <2>2. (f # F /\ f \notin files'[r]) => f \notin files[r]
    BY <1>t, <1>1
  <2> QED BY <1>4, <1>6, <1>8, <1>9, <2>1, <2>2
<1>11. CASE deferred' = [deferred EXCEPT ![r] = @ \cup {w}]
  <2>1. deferred'[r] # {}
    BY <1>t, <1>11
  <2> QED BY <1>4, <1>6, <1>8, <2>1
<1>12. CASE F \notin files[r] /\ disk' = disk /\ deferred' = deferred
  <2>1. f \notin files'[r] => f \notin files[r]
    BY <1>t, <1>1, <1>12
  <2> QED BY <1>6, <1>12, <2>1
<1> QED BY <1>5, <1>10, <1>11, <1>12

LEMMA LengthsStep ==
  ASSUME TypeOK, [Next]_vars, NEW r \in Ranks, QueuedData(r), Lengths(r)
  PROVE  Lengths(r)'
<1>1. CASE StartShard(r) \/ PostChunk(r) \/ EndPosting(r) \/ TakeAck(r) \/ AfterDrain(r)
           \/ JoinWriters(r) \/ WaitAny(r) \/ MainCallFails(r) \/ Aborted(r) \/ Idle(r)
  <2>1. disk'[r] = disk[r] /\ files'[r] = files[r] /\ deferred'[r] = deferred[r]
    BY <1>1 DEF StartShard, PostChunk, EndPosting, TakeAck, AfterDrain, JoinWriters, WaitAny,
                Complete, MainCallFails, Aborted, Idle, SameRank, writerVars
  <2> QED BY <2>1 DEF Lengths
<1>2. ASSUME NEW w \in Writers, WriterOpen(r, w) \/ WriterExit(r, w) PROVE Lengths(r)'
  <2>1. disk' = disk /\ deferred' = deferred /\ files[r] \subseteq files'[r]
    <3>1. files \in [Ranks -> SUBSET Files]
      BY DEF TypeOK
    <3> QED BY <1>2, <3>1 DEF WriterOpen, WriterExit
  <2> QED BY <2>1 DEF Lengths
<1> QED BY <1>1, <1>2, RankStep, LengthsWrite, LengthsClose DEF WritersStep

------------------------------------------------------------------------------
(* Failure: a call that failed is on its way to the stage's result.         *)
LEMMA FailureStep ==
  ASSUME TypeOK, [Next]_vars, NEW r \in Ranks, Failure(r)
  PROVE  Failure(r)'
<1>t. /\ result \in [Ranks -> {"ok", "err"}] /\ deferred \in [Ranks -> SUBSET Writers]
      /\ failed \in [Ranks -> BOOLEAN] /\ acks \in [Ranks -> Seq(Acks)]
  BY DEF TypeOK
<1>1. CASE StartShard(r) \/ PostChunk(r) \/ EndPosting(r) \/ AfterDrain(r)
           \/ JoinWriters(r) \/ WaitAny(r) \/ Aborted(r) \/ Idle(r)
  <2>1. /\ failed'[r] = failed[r] /\ result'[r] = result[r] /\ deferred'[r] = deferred[r]
        /\ acks'[r] = acks[r]
    BY <1>1 DEF StartShard, PostChunk, EndPosting, AfterDrain, JoinWriters, WaitAny,
                Complete, Aborted, Idle, SameRank, writerVars, faultVars
  <2> QED BY <2>1 DEF Failure, AckFailed
<1>2. CASE MainCallFails(r)
  BY <1>2, <1>t DEF MainCallFails, Failure
<1>3. CASE TakeAck(r)
  <2>1. /\ failed' = failed /\ deferred' = deferred /\ acks' = [acks EXCEPT ![r] = Tail(@)]
        /\ acks[r] # <<>>
        /\ \/ ~Head(acks[r]).err /\ result' = result
           \/ result' = [result EXCEPT ![r] = "err"]
    BY <1>3 DEF TakeAck, faultVars
  <2>2. CASE result' = [result EXCEPT ![r] = "err"]
    BY <1>t, <2>2 DEF Failure
  <2>3. CASE ~Head(acks[r]).err /\ result' = result
    <3>1. acks'[r] = Tail(acks[r])
      BY <1>t, <2>1
    <3>2. AckFailed(r) => AckFailed(r)'
      BY <2>1, <2>3, <3>1, AckTaken
    <3> QED BY <2>1, <2>3, <3>2 DEF Failure
  <2> QED BY <2>1, <2>2, <2>3
<1>4. ASSUME NEW w \in Writers, WriterOpen(r, w) \/ WriterExit(r, w) PROVE Failure(r)'
  <2>1. failed' = failed /\ result' = result /\ deferred' = deferred /\ acks' = acks
    BY <1>4 DEF WriterOpen, WriterExit, faultVars
  <2> QED BY <2>1 DEF Failure, AckFailed
<1>5. ASSUME NEW w \in Writers, WriterWrite(r, w) PROVE Failure(r)'
  <2> DEFINE c == Head(cmds[r][w])
             ack(b) == [slot |-> c.slot, file |-> c.file, err |-> b]
  <2>1. /\ Dequeue(r, w, "write") /\ result' = result /\ deferred' = deferred
        /\ \/ failed' = failed /\ SendAck(r, c, FALSE)
           \/ SendAck(r, c, TRUE)
    BY <1>5 DEF WriterWrite, faultVars
  <2>2. c \in Commands
    BY <2>1, DequeueType
  <2>3. ack(TRUE) \in Acks /\ ack(FALSE) \in Acks /\ ack(TRUE).err
    BY <2>2 DEF Acks, Commands
  <2>4. CASE SendAck(r, c, TRUE)
    <3>1. acks'[r] = Append(acks[r], ack(TRUE))
      BY <1>t, <2>4 DEF SendAck
    <3> HIDE DEF ack
    <3>2. AckFailed(r)'
      BY <2>3, <3>1, AckAppended
    <3> QED BY <3>2 DEF Failure
  <2>5. CASE failed' = failed /\ SendAck(r, c, FALSE)
    <3>1. acks'[r] = Append(acks[r], ack(FALSE))
      BY <1>t, <2>5 DEF SendAck
    <3> HIDE DEF ack
    <3>2. AckFailed(r) => AckFailed(r)'
      BY <2>3, <3>1, AckAppended
    <3> QED BY <2>1, <2>5, <3>2 DEF Failure
  <2> QED BY <2>1, <2>4, <2>5
<1>6. ASSUME NEW w \in Writers, WriterClose(r, w) PROVE Failure(r)'
  <2>1. /\ result' = result /\ acks' = acks
        /\ \/ failed' = failed /\ deferred' = deferred
           \/ deferred' = [deferred EXCEPT ![r] = @ \cup {w}]
    BY <1>6 DEF WriterClose, faultVars
  <2>2. CASE failed' = failed /\ deferred' = deferred
    BY <2>1, <2>2 DEF Failure, AckFailed
  <2>3. CASE deferred' = [deferred EXCEPT ![r] = @ \cup {w}]
    BY <1>t, <2>3 DEF Failure
  <2> QED BY <2>1, <2>2, <2>3
<1> QED BY <1>1, <1>2, <1>3, <1>4, <1>5, <1>6, RankStep DEF WritersStep

------------------------------------------------------------------------------
(* Files that were already present are never written.                       *)
LEMMA PresentStep ==
  ASSUME TypeOK, DataInv, [Next]_vars, NEW r \in Ranks, PresentIntact(r)
  PROVE  PresentIntact(r)'
<1> SUFFICES ASSUME NEW f \in Has[r], NEW p \in 1 .. Size[f] PROVE Right(r, f, p)'
  BY DEF PresentIntact
<1>1. f \in Files
  BY BroadcastAssumption
<1>2. Right(r, f, p)
  BY DEF PresentIntact
<1> QED BY <1>1, <1>2, RightStays

(* Done holds at the start.                                                 *)
LEMMA DoneInit == Init => DoneInv
<1> SUFFICES ASSUME Init, NEW r \in Ranks PROVE Done(r)
  BY DEF DoneInv
<1>1. /\ wire[r] = <<>> /\ failed[r] = FALSE /\ next_plan_idx[r] = 0 /\ active[r] = FALSE
      /\ \A f \in Files : disk[r][f] = InitialFile(r, f)
  BY DEF Init
<1>2. Delivered(r) /\ Failure(r)
  BY <1>1 DEF Delivered, Failure
<1>3. Covered(r)
  <2> SUFFICES ASSUME NEW i \in DOMAIN Plan PROVE PostedUnits(r, i) = 0
    BY DEF Covered
  <2>1. i \in Nat \ {0}
    BY BroadcastAssumption
  <2> QED BY <1>1, <2>1 DEF PostedUnits
<1>4. Lengths(r)
  BY <1>1, InitialFileType DEF Lengths
<1>5. PresentIntact(r)
  <2> SUFFICES ASSUME NEW f \in Has[r], NEW p \in 1 .. Size[f] PROVE Right(r, f, p)
    BY DEF PresentIntact
  <2>1. f \in Files
    BY BroadcastAssumption
  <2>2. InitialFile(r, f)[p] = <<f, p>>
    BY DEF InitialFile
  <2> QED BY <1>1, <2>1, <2>2 DEF Right
<1> QED BY <1>2, <1>3, <1>4, <1>5 DEF Done

(* Every step keeps what is delivered, covered, failed and present.         *)
LEMMA DoneStep ==
  ASSUME TypeOK, OrderInv, ControlInv, PoolInv, DataInv, DoneInv, [Next]_vars
  PROVE  DoneInv'
<1> SUFFICES ASSUME NEW r \in Ranks PROVE Done(r)'
  BY DEF DoneInv
<1>1. Done(r) /\ QueuedData(r) /\ Pool(r) /\ Control(r)
  BY DEF DoneInv, DataInv, Data, PoolInv, ControlInv
<1> QED BY <1>1, CoveredStep, DeliveredStep, LengthsStep, FailureStep, PresentStep DEF Done

(* The files of the plan are files.                                         *)
LEMMA PlanFilesKnown == PlanFiles \subseteq Files
<1> SUFFICES ASSUME NEW f \in PlanFiles PROVE f \in Files
  OBVIOUS
<1>1. PICK i \in DOMAIN Plan : f = Plan[i].file
  BY DEF PlanFiles
<1>2. i \in 1 .. Len(Plan)
  BY BroadcastAssumption
<1> QED BY <1>1, <1>2, PlanShard DEF Shard

(* The state in which a rank returns Ok: nothing is queued, nothing waits   *)
(* to be acknowledged, every buffer is home, and every shard is posted.     *)
LEMMA QuietAtOk ==
  ASSUME TypeOK, ControlInv, PoolInv, NEW r \in Ranks, pc[r] = "ok"
  PROVE  /\ result[r] = "ok" /\ AllDone(r) /\ deferred[r] = {}
         /\ \A w \in Writers : cmds[r][w] = <<>>
         /\ DOMAIN acks[r] = {}
         /\ \A s \in Slots : ~HasWriter(r, s)
<1>1. /\ result[r] = "ok" /\ AllDone(r) /\ deferred[r] = {}
      /\ \A w \in Writers : cmds[r][w] = <<>>
  BY DEF ControlInv, Control
<1>2. \A s \in Slots : home[r][s]
  <2>1. writes_pending[r] = Cardinality({s \in Slots : ~home[r][s]}) /\ writes_pending[r] = 0
    BY <1>1 DEF PoolInv, Pool, AllDone
  <2>2. IsFiniteSet({s \in Slots : ~home[r][s]})
    BY SlotsFinite, FS_Subset
  <2> QED BY <2>1, <2>2, FS_EmptySet
<1>3. \A s \in Slots : ~HasWriter(r, s)
  BY <1>1, <1>2 DEF PoolInv, Pool
<1>4. DOMAIN acks[r] = {}
  <2> SUFFICES ASSUME NEW i \in DOMAIN acks[r] PROVE FALSE
    OBVIOUS
  <2>1. acks[r][i] \in Acks
    BY DEF TypeOK
  <2>2. acks[r][i].slot \in Slots /\ acks[r][i].file \in Files
    BY <2>1 DEF Acks
  <2>3. HasWriter(r, acks[r][i].slot)
    BY <2>2 DEF HasWriter, OnWriter
  <2> QED BY <1>3, <2>2, <2>3
<1> QED BY <1>1, <1>3, <1>4

(* Then every file that was opened is closed, synced and no longer open.    *)
LEMMA ClosedAtOk ==
  ASSUME TypeOK, ControlInv, PoolInv, LifecycleInv, NEW r \in Ranks, pc[r] = "ok", NEW f \in Files
  PROVE  /\ f \notin files[r]
         /\ NeedsWrite(r, f) => f \in synced[r]
<1> DEFINE st == file_state[r][f]
           q == cmds[r][WriterOf(f)]
<1>1. /\ result[r] = "ok" /\ AllDone(r) /\ deferred[r] = {}
      /\ \A w \in Writers : cmds[r][w] = <<>>
      /\ DOMAIN acks[r] = {}
      /\ \A s \in Slots : ~HasWriter(r, s)
  BY QuietAtOk
<1>2. st \in FileStates
  BY DEF TypeOK
<1>3. WritesFor(r, f) = {}
  BY <1>1 DEF WritesFor, HasWriter
<1>4. ChunksFor(r, f) = {}
  BY <1>1 DEF ChunksFor, Flying, AllDone
<1>5. PostedShards(r, f) = {i \in DOMAIN Plan : Plan[i].file = f}
  <2>1. DOMAIN Plan = 1 .. Len(Plan) /\ Len(Plan) \in Nat
    BY BroadcastAssumption
  <2>2. \A i \in DOMAIN Plan : i < next_plan_idx[r] \/ (i = next_plan_idx[r] /\ ~active[r])
    BY <1>1, <2>1 DEF AllDone
  <2> QED BY <2>2 DEF PostedShards
<1>6. /\ st.writes_in_flight = 0 /\ st.chunks_in_flight = 0 /\ st.shards_posted = ShardsTotal(f)
      /\ Settled(f, st)
  BY <1>1, <1>3, <1>4, <1>5, FS_EmptySet, ZenonT(60) DEF LifecycleInv, Lifecycle, Counts, ShardsTotal
<1>7. st.opened => st.closed
  BY <1>6 DEF Settled, MayClose
<1>8. LifeOf(q, f, st, files[r], synced[r], deferred[r])
  BY DEF LifecycleInv, Lifecycle, Life
<1>9. q = <<>> /\ DOMAIN q = {}
  BY <1>1, WriterExists
<1>10. Of(q, f, "close") = {}
  BY <1>9 DEF Of
<1>11. f \notin files[r] /\ (st.opened => f \in synced[r])
  BY <1>1, <1>7, <1>8, <1>10 DEF LifeOf
<1>12. NeedsWrite(r, f) => st.opened
  <2> SUFFICES ASSUME NeedsWrite(r, f) PROVE st.opened
    OBVIOUS
  <2>1. PICK i \in DOMAIN Plan : Plan[i].file = f
    BY DEF NeedsWrite
  <2>2. i \in 1 .. next_plan_idx[r]
    BY <1>1, BroadcastAssumption DEF AllDone
  <2> QED BY <2>1, <2>2 DEF LifecycleInv, Lifecycle, Opened
<1> QED BY <1>11, <1>12

(* ... and every unit of every file of the plan is where it belongs.        *)
LEMMA RightAtOk ==
  ASSUME TypeOK, ControlInv, PoolInv, DataInv, DoneInv, NEW r \in Ranks, pc[r] = "ok",
         NEW f \in PlanFiles, NEW p \in 1 .. Size[f]
  PROVE  Right(r, f, p)
<1>1. /\ result[r] = "ok" /\ AllDone(r)
      /\ \A w \in Writers : cmds[r][w] = <<>>
      /\ DOMAIN acks[r] = {}
  BY QuietAtOk
<1>2. f \in Files /\ Size[f] \in Nat /\ p \in Nat
  <2>1. f \in Files
    BY PlanFilesKnown
  <2> QED BY <2>1, BroadcastAssumption
<1>3. PICK i \in DOMAIN Plan : Plan[i].file = f /\ InShard(Plan[i], p)
  BY PlanAssumption
<1>4. /\ i \in Nat /\ i <= Len(Plan) /\ Len(Plan) \in Nat
      /\ Plan[i].off \in Nat /\ Plan[i].len \in Nat
  <2>1. i \in 1 .. Len(Plan) /\ Plan[i] \in Shard /\ Len(Plan) \in Nat
    BY BroadcastAssumption
  <2> QED BY <2>1 DEF Shard
<1>5. CASE f \in Has[r]
  BY <1>5 DEF DoneInv, Done, PresentIntact
<1>6. CASE Plan[i].owner = r
  <2>1. p \in Plan[i].off + 1 .. Plan[i].off + Plan[i].len
    BY <1>2, <1>3, <1>4 DEF InShard
  <2> QED BY <1>3, <1>6, <2>1 DEF DataInv, Data, OwnedIntact, Right
<1>7. CASE f \notin Has[r] /\ Plan[i].owner # r
  <2> DEFINE d == p - Plan[i].off
  <2>1. NeedsWrite(r, f)
    BY <1>2, <1>3, <1>7 DEF NeedsWrite
  <2>2. d \in 1 .. Plan[i].len /\ Plan[i].off + d = p
    BY <1>2, <1>3, <1>4 DEF InShard
  <2>3. PostedUnits(r, i) = Plan[i].len
    BY <1>1, <1>4 DEF PostedUnits, AllDone
  <2> HIDE DEF d
  <2>4. PICK k \in DOMAIN wire[r] : /\ wire[r][k].file = f
          /\ wire[r][k].off < p /\ p <= wire[r][k].off + wire[r][k].n
    BY <1>3, <2>2, <2>3 DEF DoneInv, Done, Covered
  <2>5. ChunkDone(r, k)
    BY <1>1, <2>1, <2>4 DEF DoneInv, Done, Delivered
  <2>6. ~InFlight(r, k) /\ ~Queued(r, wire[r][k]) /\ ~AckFailed(r)
    BY <1>1 DEF InFlight, Queued, AckFailed, AllDone
  <2>7. Landed(r, wire[r][k])
    BY <2>5, <2>6 DEF ChunkDone
  <2>8. wire[r][k].off \in Nat /\ wire[r][k].n \in Nat
    <3>1. wire[r][k] \in Chunks
      BY DEF TypeOK
    <3> QED BY <3>1 DEF Chunks
  <2>9. p - wire[r][k].off \in 1 .. wire[r][k].n /\ wire[r][k].off + (p - wire[r][k].off) = p
    BY <1>2, <2>4, <2>8
  <2> QED BY <2>4, <2>7, <2>9 DEF Landed
<1> QED BY <1>5, <1>6, <1>7

(* At Ok: no collective, no command and no failure is left, so every unit   *)
(* of every file is on disk.                                                *)
LEMMA CompleteAtOk ==
  ASSUME TypeOK, ControlInv, PoolInv, DataInv, LifecycleInv, DoneInv, NEW r \in Ranks, pc[r] = "ok",
         NEW f \in PlanFiles
  PROVE  disk[r][f] = Source(f)
<1>1. f \in Files /\ Size[f] \in Nat
  <2>1. f \in Files
    BY PlanFilesKnown
  <2> QED BY <2>1, BroadcastAssumption
<1>2. disk[r][f] \in Seq(Cells)
  BY <1>1 DEF TypeOK
<1>3. Len(disk[r][f]) = Size[f]
  BY <1>1, QuietAtOk, ClosedAtOk DEF DoneInv, Done, Lengths
<1>4. \A p \in 1 .. Size[f] : disk[r][f][p] = <<f, p>>
  BY RightAtOk DEF Right
<1>5. disk[r][f] = [p \in 1 .. Size[f] |-> disk[r][f][p]]
  BY <1>1, <1>2, <1>3
<1> QED BY <1>4, <1>5 DEF Source

(* The whole inductive invariant.                                           *)
PipelineInv == FlowInv /\ LifecycleInv /\ DoneInv

LEMMA PipelineInit == Init => PipelineInv
BY FlowInit, LifecycleInit, DoneInit DEF PipelineInv

LEMMA PipelineStep == TypeOK /\ TypeOK' /\ PipelineInv /\ [Next]_vars => PipelineInv'
<1> SUFFICES ASSUME TypeOK, TypeOK', PipelineInv, [Next]_vars PROVE PipelineInv'
  OBVIOUS
<1>1. FlowInv /\ LifecycleInv /\ DoneInv /\ OrderInv /\ ControlInv /\ PoolInv /\ DataInv
  BY DEF PipelineInv, FlowInv
<1>2. FlowInv'
  BY <1>1, FlowStep
<1>3. LifecycleInv'
  BY <1>1, LifecycleStep
<1>4. DoneInv'
  BY <1>1, DoneStep
<1> QED BY <1>2, <1>3, <1>4 DEF PipelineInv

(* A rank whose stage returned Ok holds every file of the plan, byte for    *)
(* byte and at its exact length.                                            *)
THEOREM ReplicaCompleteAlways == Spec => []ReplicaComplete
<1>1. TypeOK /\ PipelineInv => ReplicaComplete
  BY CompleteAtOk DEF PipelineInv, FlowInv, ReplicaComplete
<1> QED BY <1>1, TypeCorrect, PipelineInit, PipelineStep, PTL DEF Spec

(* ... closed and synced, with no call of it having failed.                 *)
THEOREM OkMeansDurableAlways == Spec => []OkMeansDurable
<1>1. ASSUME TypeOK, PipelineInv PROVE OkMeansDurable
  <2> SUFFICES ASSUME NEW r \in Ranks, pc[r] = "ok"
               PROVE  ~failed[r] /\ {f \in PlanFiles : NeedsWrite(r, f)} \subseteq synced[r]
    BY DEF OkMeansDurable
  <2>1. ControlInv /\ PoolInv /\ LifecycleInv /\ DoneInv
    BY <1>1 DEF PipelineInv, FlowInv
  <2>2. result[r] = "ok" /\ deferred[r] = {} /\ DOMAIN acks[r] = {}
    BY <1>1, <2>1, QuietAtOk
  <2>3. ~failed[r]
    BY <2>1, <2>2 DEF DoneInv, Done, Failure, AckFailed
  <2>4. PlanFiles \subseteq Files
    BY PlanFilesKnown
  <2>5. \A f \in Files : NeedsWrite(r, f) => f \in synced[r]
    BY <1>1, <2>1, ClosedAtOk
  <2> QED BY <2>3, <2>4, <2>5
<1> QED BY <1>1, TypeCorrect, PipelineInit, PipelineStep, PTL DEF Spec

------------------------------------------------------------------------------
(* The refinement of Replication.                                           *)
AllUnits == UNION {UnitsOf(f) : f \in PlanFiles}
Held == [r \in Ranks |-> HeldBy(r)]
Outcome == [r \in Ranks |-> IF Returned(r) THEN pc[r] ELSE "running"]

(* A rank holds the units that are right.                                   *)
LEMMA HeldRight ==
  ASSUME TypeOK, NEW r \in Ranks
  PROVE  \A u : u \in HeldBy(r) <=> \E f \in PlanFiles : \E p \in 1 .. Size[f] :
                  u = <<f, p>> /\ Right(r, f, p)
<1>1. ASSUME NEW f \in PlanFiles, NEW p \in 1 .. Size[f]
      PROVE  p <= Len(disk[r][f])
  <2>1. f \in Files
    BY PlanFilesKnown
  <2>2. Len(disk[r][f]) >= Size[f] /\ Size[f] \in Nat /\ disk[r][f] \in Seq(Cells)
    BY <2>1, BroadcastAssumption DEF TypeOK
  <2> QED BY <2>2
<1>2. \A f \in PlanFiles : \A u : u \in {x \in UnitsOf(f) : x[2] <= Len(disk[r][f]) /\ disk[r][f][x[2]] = x}
        <=> \E p \in 1 .. Size[f] : u = <<f, p>> /\ Right(r, f, p)
  BY <1>1 DEF UnitsOf, Right
<1> QED BY <1>2 DEF HeldBy

(* What a rank holds is a set of units, grows, and is everything at Ok.     *)
LEMMA HeldIsUnits == ASSUME NEW r \in Ranks PROVE HeldBy(r) \subseteq AllUnits
BY DEF HeldBy, AllUnits

(* No step loses a unit.                                                    *)
LEMMA HeldGrows ==
  ASSUME TypeOK, TypeOK', DataInv, [Next]_vars, NEW r \in Ranks
  PROVE  HeldBy(r) \subseteq HeldBy(r)'
<1> SUFFICES ASSUME NEW u \in HeldBy(r) PROVE u \in HeldBy(r)'
  OBVIOUS
<1>1. PICK f \in PlanFiles : \E p \in 1 .. Size[f] : u = <<f, p>> /\ Right(r, f, p)
  BY HeldRight
<1>2. PICK p \in 1 .. Size[f] : u = <<f, p>> /\ Right(r, f, p)
  BY <1>1
<1>3. f \in Files
  BY PlanFilesKnown
<1>4. Right(r, f, p)'
  BY <1>2, <1>3, RightStays
<1>5. f \in Files /\ disk'[r][f] \in Seq(Cells) /\ Len(disk'[r][f]) >= Size[f] /\ Size[f] \in Nat
  BY <1>3, BroadcastAssumption DEF TypeOK
<1>6. p <= Len(disk'[r][f]) /\ p \in Nat
  BY <1>5
<1>7. u \in UnitsOf(f) /\ u[2] = p
  BY <1>2 DEF UnitsOf
<1> QED BY <1>2, <1>4, <1>6, <1>7 DEF HeldBy, Right

LEMMA HoldsAllAtOk ==
  ASSUME TypeOK, ControlInv, PoolInv, DataInv, DoneInv, NEW r \in Ranks, pc[r] = "ok"
  PROVE  HeldBy(r) = AllUnits
<1> SUFFICES ASSUME NEW f \in PlanFiles, NEW u \in UnitsOf(f) PROVE u \in HeldBy(r)
  BY HeldIsUnits DEF AllUnits
<1>1. PICK p \in 1 .. Size[f] : u = <<f, p>>
  BY DEF UnitsOf
<1>2. Right(r, f, p)
  BY RightAtOk
<1> QED BY <1>1, <1>2, HeldRight

OkHoldsAll == \A r \in Ranks : pc[r] = "ok" => HeldBy(r) = AllUnits

(* The first state, and each step of a rank, is a step of Replication or a  *)
(* stutter.                                                                 *)
LEMMA RefinesInit == Init => R!Init
<1> SUFFICES ASSUME Init PROVE R!Init
  OBVIOUS
<1>1. Held \in [Ranks -> SUBSET AllUnits]
  BY HeldIsUnits DEF Held
<1>2. Outcome = [r \in Ranks |-> "running"]
  BY DEF Init, Outcome, Returned
<1> QED BY <1>1, <1>2 DEF R!Init, Held, AllUnits, Outcome

(* The step of one rank.                                                    *)
LEMMA RankRefines ==
  ASSUME TypeOK, TypeOK', PipelineInv, OkHoldsAll', NEW r \in Ranks,
         \/ MainStep(r) \/ WaitAny(r) \/ MainCallFails(r)
         \/ ~Returned(r) /\ \E w \in Writers : WritersStep(r, w),
         [Next]_vars
  PROVE  \/ R!Store(r) \/ R!Succeed(r)
         \/ UNCHANGED <<Held, Outcome>>
<1>i. DataInv
  BY DEF PipelineInv, FlowInv
<1>1. \A q \in Ranks : q # r => pc'[q] = pc[q] /\ disk'[q] = disk[q]
  BY OthersIdle DEF Idle, SameRank
<1>2. \A q \in Ranks : q # r => HeldBy(q)' = HeldBy(q) /\ Outcome'[q] = Outcome[q]
  BY <1>1 DEF HeldBy, Outcome, Returned
<1>3. HeldBy(r) \subseteq HeldBy(r)'
  BY <1>i, HeldGrows
<1>4. \A q \in Ranks : HeldBy(q)' \subseteq AllUnits
  BY DEF HeldBy, AllUnits
<1>5. ~Returned(r)
  BY DEF MainStep, StartShard, PostChunk, EndPosting, TakeAck, AfterDrain, JoinWriters,
         WaitAny, Complete, MainCallFails, Returned
<1>6. Outcome[r] = "running"
  BY <1>5 DEF Outcome
<1>7. \/ pc'[r] \notin {"ok", "aborted"}
      \/ pc'[r] = "ok" /\ disk'[r] = disk[r]
  <2>1. pc \in [Ranks -> {"post", "drain", "recv", "wait", "join", "ok", "err", "aborted"}]
    BY DEF TypeOK
  <2>2. CASE JoinWriters(r)
    BY <2>1, <2>2 DEF JoinWriters, StageResult, writerVars
  <2>3. CASE \E w \in Writers : WritersStep(r, w)
    BY <1>5, <2>3 DEF WritersStep, WriterOpen, WriterWrite, WriterClose, WriterExit, Returned
  <2>4. CASE StartShard(r) \/ PostChunk(r) \/ EndPosting(r) \/ MainCallFails(r) \/ WaitAny(r)
    <3>1. pc'[r] \in {"post", "drain", "join"}
      BY <2>1, <2>4 DEF StartShard, PostChunk, EndPosting, MainCallFails, WaitAny, Complete
    <3> QED BY <3>1
  <2>5. CASE TakeAck(r) \/ AfterDrain(r)
    <3>1. pc'[r] \in {"post", "drain", "join", "recv", "wait"}
      BY <2>1, <2>5 DEF TakeAck, AfterDrain
    <3> QED BY <3>1
  <2> QED BY <2>2, <2>3, <2>4, <2>5 DEF MainStep
<1>8. CASE pc'[r] \notin {"ok", "aborted"}
  <2>1. Outcome'[r] = "running"
    BY <1>8 DEF Outcome, Returned
  <2>2. Outcome' = Outcome
    BY <1>2, <1>6, <2>1 DEF Outcome
  <2>3. Held' \in [Ranks -> SUBSET AllUnits] /\ Held[r] \subseteq Held'[r]
        /\ \A q \in Ranks \ {r} : Held'[q] = Held[q]
    BY <1>2, <1>3, <1>4 DEF Held
  <2>4. R!Store(r)
    BY <1>6, <2>2, <2>3 DEF R!Store, Held, Outcome, AllUnits
  <2> QED BY <2>4
<1>9. CASE pc'[r] = "ok" /\ disk'[r] = disk[r]
  <2>1. HeldBy(r)' = HeldBy(r)
    BY <1>9 DEF HeldBy
  <2>2. HeldBy(r)' = AllUnits
    BY <1>9 DEF OkHoldsAll, AllUnits
  <2>3. Held' = Held
    BY <1>2, <2>1 DEF Held
  <2>4. Outcome' = [Outcome EXCEPT ![r] = "ok"]
    BY <1>2, <1>9 DEF Outcome, Returned
  <2>5. Held[r] = AllUnits
    BY <2>1, <2>2 DEF Held
  <2>6. R!Succeed(r)
    BY <1>6, <2>3, <2>4, <2>5 DEF R!Succeed, Held, Outcome, AllUnits
  <2> QED BY <2>6
<1> QED BY <1>7, <1>8, <1>9

LEMMA RefinesStep ==
  TypeOK /\ TypeOK' /\ PipelineInv /\ OkHoldsAll' /\ [Next]_vars => [R!Next]_<<Held, Outcome>>
<1> SUFFICES ASSUME TypeOK, TypeOK', PipelineInv, OkHoldsAll', [Next]_vars
             PROVE  R!Next \/ UNCHANGED <<Held, Outcome>>
  OBVIOUS
<1>1. ASSUME NEW r \in Ranks, MainStep(r) \/ WaitAny(r) \/ MainCallFails(r)
      PROVE  R!Next \/ UNCHANGED <<Held, Outcome>>
  BY <1>1, RankRefines DEF R!Next
<1>2. ASSUME NEW r \in Ranks, NEW w \in Writers, WriterStep(r, w)
      PROVE  R!Next \/ UNCHANGED <<Held, Outcome>>
  BY <1>2, RankRefines DEF R!Next, WriterStep, WritersStep
<1>3. CASE Abort
  <2>1. /\ \E r \in Ranks : pc[r] = "err"
        /\ pc' = [q \in Ranks |-> IF pc[q] = "ok" THEN "ok" ELSE "aborted"]
        /\ disk' = disk
    BY <1>3 DEF Abort, writerVars
  <2>2. \E r \in Ranks : Outcome[r] = "running"
    BY <2>1 DEF Outcome, Returned
  <2>3. Held' = Held
    BY <2>1 DEF Held, HeldBy
  <2>4. Outcome' = [r \in Ranks |-> IF Outcome[r] = "ok" THEN "ok" ELSE "aborted"]
    BY <2>1 DEF Outcome, Returned
  <2>5. R!Fail
    BY <2>2, <2>3, <2>4 DEF R!Fail, Held, Outcome
  <2> QED BY <2>5 DEF R!Next
<1>4. CASE UNCHANGED vars
  <2>1. pc' = pc /\ disk' = disk
    BY <1>4 DEF vars, writerVars
  <2>2. Held' = Held /\ Outcome' = Outcome
    BY <2>1 DEF Held, HeldBy, Outcome, Returned
  <2> QED BY <2>2
<1> QED BY <1>1, <1>2, <1>3, <1>4 DEF Next, Terminated

(* The pipeline implements the abstract promise: progress is never undone,  *)
(* and "ok" is returned only with everything held.                          *)
THEOREM PipelineImplementsReplication == Spec => ImplementsReplication
<1>1. Spec => []TypeOK
  BY TypeCorrect
<1>2. Spec => []PipelineInv
  BY TypeCorrect, PipelineInit, PipelineStep, PTL DEF Spec
<1>3. TypeOK /\ PipelineInv => OkHoldsAll
  BY HoldsAllAtOk DEF OkHoldsAll, PipelineInv, FlowInv
<1> QED BY <1>1, <1>2, <1>3, RefinesInit, RefinesStep, PTL
        DEF Spec, ImplementsReplication, R!Spec, Held, Outcome
==============================================================================
