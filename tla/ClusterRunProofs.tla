--------------------------- MODULE ClusterRunProofs ---------------------------
(***************************************************************************)
(* What runs of azcp-cluster guarantee, for any number of ranks, blobs,    *)
(* shards, runs, failures and replaced blobs, with whatever earlier runs   *)
(* have left on the disks.                                                 *)
(*                                                                         *)
(* The collectives are what the argument rests on (Barriers): who is past  *)
(* the allgather works with rows that no longer change, so that all ranks  *)
(* have one plan; who is in the broadcast receives from files that are no  *)
(* longer written; who is past the comparison holds what was compared.     *)
(* Between them each rank works off its part of the plan (Planned): what   *)
(* it has created is there, what it has downloaded is at least as new as   *)
(* the list, and what it has received is what the owner of the shard has.  *)
(***************************************************************************)
EXTENDS ClusterRun, WellFoundedInduction, TLAPS

StageNames == {"list", "presence", "gather", "create", "download", "reduce", "barrier",
               "bcast", "digest", "compare", "save", "exit"}
FromGather == StageNames \ {"list", "presence"}
FromCreate == FromGather \ {"gather"}
FromReduce == FromCreate \ {"create", "download"}
FromBarrier == FromReduce \ {"reduce"}
FromBcast == FromBarrier \ {"barrier"}
FromDigest == FromBcast \ {"bcast"}
FromCompare == FromDigest \ {"digest"}
FromSave == FromCompare \ {"compare"}

Value(r, s) == local[r][s[1]][s[2]]

(* Which lists of work a rank has in which stage.                           *)
RankInv(r) ==
  /\ pc[r] \notin FromCreate => creates[r] = {} /\ downloads[r] = {} /\ receives[r] = {}
  /\ dl_failed[r] => pc[r] = "download"
  /\ pc[r] \in FromCreate \ {"create"} => creates[r] = {}
  /\ pc[r] \in FromReduce => downloads[r] = {}
  /\ pc[r] \in FromDigest => receives[r] = {}
  /\ \A f \in row[r] : f \in Entries /\ local[r][f] # NoFile

Planned(r) ==
  /\ creates[r] \subseteq FilesToCreate(r)
  /\ \A f \in FilesToCreate(r) \ creates[r] : local[r][f] # NoFile
  /\ downloads[r] \subseteq MyRanges(r)
  /\ \A s \in MyRanges(r) \ downloads[r] :
       pc[r] # "create" /\ (dl_failed[r] \/ Value(r, s) >= entries[s[1]])
  /\ receives[r] \subseteq Arriving(r)
  /\ \A s \in Arriving(r) \ receives[r] :
       pc[r] \in FromBcast /\ Value(r, s) = Value(ShardOwner(s), s)
PlanInv(r) == pc[r] \in FromCreate => Planned(r)

Barriers ==
  \A r, q \in Ranks :
    /\ pc[r] \in FromCreate => pc[q] \in FromGather
    /\ pc[r] \in FromBcast => pc[q] \in FromBarrier
    /\ pc[r] \in FromSave /\ verify => pc[q] \in FromCompare

Listed == \A f \in Files : entries[f] <= blob[f]

Verified ==
  (pc[0] \in FromSave /\ verify) =>
    \A r \in Ranks, f \in Entries : local[r][f] = local[0][f]

RunInv ==
  /\ TypeOK /\ Barriers /\ Listed /\ Verified
  /\ \A r \in Ranks : RankInv(r) /\ PlanInv(r)

------------------------------------------------------------------------------
(* Stages, and what the constants are.                                      *)

LEMMA StageOrder ==
  ASSUME NEW i \in 1 .. 12
  PROVE  /\ Stages[i] = "gather" <=> i = 3
         /\ Stages[i] = "reduce" <=> i = 6
         /\ Stages[i] = "barrier" <=> i = 7
         /\ Stages[i] = "bcast" <=> i = 8
         /\ Stages[i] = "compare" <=> i = 10
         /\ i >= 3 <=> Stages[i] \in FromGather
         /\ i >= 6 <=> Stages[i] \in FromReduce
         /\ i >= 7 <=> Stages[i] \in FromBarrier
         /\ i >= 8 <=> Stages[i] \in FromBcast
         /\ i >= 10 <=> Stages[i] \in FromCompare
         /\ Stages[i] \in StageNames
<1>1. /\ Stages[1] = "list" /\ Stages[2] = "presence" /\ Stages[3] = "gather"
      /\ Stages[4] = "create" /\ Stages[5] = "download" /\ Stages[6] = "reduce"
      /\ Stages[7] = "barrier" /\ Stages[8] = "bcast" /\ Stages[9] = "digest"
      /\ Stages[10] = "compare" /\ Stages[11] = "save" /\ Stages[12] = "exit"
  BY DEF Stages
<1>2. i \in {1, 2, 3, 4, 5, 6, 7, 8, 9, 10, 11, 12}
  OBVIOUS
<1> QED BY <1>1, <1>2 DEF FromGather, FromCreate, FromReduce, FromBarrier, FromBcast, FromDigest,
                          FromCompare, StageNames

LEMMA StageAt == ASSUME NEW s \in {Stages[i] : i \in DOMAIN Stages}
                 PROVE  s \in StageNames /\ \E i \in 1 .. 12 : s = Stages[i]
<1>1. DOMAIN Stages = 1 .. 12
  BY DEF Stages
<1> QED BY <1>1, StageOrder

LEMMA ReachedIs ==
  ASSUME TypeOK, NEW r \in Ranks
  PROVE  /\ Reached(r, "gather") <=> pc[r] \in FromGather
         /\ Reached(r, "reduce") <=> pc[r] \in FromReduce
         /\ Reached(r, "barrier") <=> pc[r] \in FromBarrier
         /\ Reached(r, "bcast") <=> pc[r] \in FromBcast
         /\ Reached(r, "compare") <=> pc[r] \in FromCompare
<1>1. PICK j \in 1 .. 12 : pc[r] = Stages[j]
  BY StageAt DEF TypeOK
<1>2. DOMAIN Stages = 1 .. 12
  BY DEF Stages
<1>3. ASSUME NEW k \in 1 .. 12, \A i \in 1 .. 12 : Stages[i] = Stages[k] => i = k,
             \A i, m \in 1 .. 12 : Stages[i] = Stages[m] => i = m
      PROVE  Reached(r, Stages[k]) <=> j >= k
  BY <1>1, <1>2, <1>3 DEF Reached
<1>4. \A i, m \in 1 .. 12 : Stages[i] = Stages[m] => i = m
  <2>1. /\ Stages[1] = "list" /\ Stages[2] = "presence" /\ Stages[3] = "gather"
        /\ Stages[4] = "create" /\ Stages[5] = "download" /\ Stages[6] = "reduce"
        /\ Stages[7] = "barrier" /\ Stages[8] = "bcast" /\ Stages[9] = "digest"
        /\ Stages[10] = "compare" /\ Stages[11] = "save" /\ Stages[12] = "exit"
    BY DEF Stages
  <2> QED BY <2>1
<1>5. \A k \in 1 .. 12 : Reached(r, Stages[k]) <=> j >= k
  BY <1>3, <1>4
<1>6. /\ Stages[3] = "gather" /\ Stages[6] = "reduce" /\ Stages[7] = "barrier"
      /\ Stages[8] = "bcast" /\ Stages[10] = "compare"
  BY StageOrder
<1>7. /\ Reached(r, "gather") <=> j >= 3
      /\ Reached(r, "reduce") <=> j >= 6
      /\ Reached(r, "barrier") <=> j >= 7
      /\ Reached(r, "bcast") <=> j >= 8
      /\ Reached(r, "compare") <=> j >= 10
  BY <1>5, <1>6
<1> QED BY <1>1, <1>7, StageOrder

LEMMA LeastOfNaturals ==
  ASSUME NEW T \in SUBSET Nat, T # {}
  PROVE  \E m \in T : \A n \in T : m <= n
<1>1. IsWellFoundedOn(OpToRel(<, Nat), Nat)
  BY NatLessThanWellFounded
<1>2. PICK m \in T : \A n \in T : ~(<<n, m>> \in OpToRel(<, Nat))
  BY <1>1, WFMin
<1>3. \A n \in T : ~(n < m)
  BY <1>2 DEF OpToRel
<1> QED BY <1>3

LEMMA RankFacts ==
  /\ Ranks \subseteq Nat /\ 0 \in Ranks /\ Downloaders \subseteq Ranks
  /\ Entries \subseteq Files /\ Versions \subseteq Nat \ {0}
BY ClusterRunAssumption DEF Ranks, Downloaders, Entries, DropImplicitDirectories, Versions

LEMMA ShardFacts ==
  /\ \A s \in Shards : s = <<s[1], s[2]>> /\ s[1] \in Files /\ s[2] \in 1 .. NumShards[s[1]]
  /\ \A f \in Files : \A i \in 1 .. NumShards[f] : <<f, i>> \in Shards
  /\ \A f \in Files : \A v : Filled(f, v) # NoFile /\ DOMAIN Filled(f, v) = 1 .. NumShards[f]
<1>1. \A s \in Shards : s = <<s[1], s[2]>> /\ s[1] \in Files /\ s[2] \in 1 .. NumShards[s[1]]
  BY DEF Shards
<1>2. \A f \in Files : \A i \in 1 .. NumShards[f] : <<f, i>> \in Shards
  BY DEF Shards
<1>3. ASSUME NEW f \in Files, NEW v
      PROVE  Filled(f, v) # NoFile /\ DOMAIN Filled(f, v) = 1 .. NumShards[f]
  <2>1. DOMAIN Filled(f, v) = 1 .. NumShards[f]
    BY DEF Filled
  <2>2. 1 \in DOMAIN Filled(f, v)
    BY <2>1, ClusterRunAssumption
  <2>3. DOMAIN NoFile = {}
    BY DEF NoFile
  <2> QED BY <2>1, <2>2, <2>3
<1> QED BY <1>1, <1>2, <1>3

LEMMA ContentFacts ==
  ASSUME NEW f \in Files, NEW c \in Content(f)
  PROVE  c # NoFile /\ DOMAIN c = 1 .. NumShards[f] /\ 1 \in DOMAIN c
<1>1. DOMAIN c = 1 .. NumShards[f] /\ 1 \in DOMAIN c
  BY ClusterRunAssumption DEF Content
<1>2. DOMAIN NoFile = {}
  BY DEF NoFile
<1> QED BY <1>1, <1>2

(* A file some ranks have comes from one of them, any other shard from one  *)
(* that downloads.                                                          *)
LEMMA Owners ==
  ASSUME TypeOK, NEW s \in PlanShards
  PROVE  /\ ShardOwner(s) \in Ranks
         /\ s[1] \in Entries /\ s[1] \in Files
         /\ s[1] \notin NeedsDownload => ShardOwner(s) = FirstHaver(s[1])
                                         /\ s[1] \in row[ShardOwner(s)]
         /\ s[1] \in NeedsDownload => s \in MyRanges(ShardOwner(s))
                                      /\ s[1] \in FilesToCreate(ShardOwner(s))
                                      /\ \A r \in Ranks : s[1] \notin row[r]
<1>1. s \in Shards /\ s[1] \in PlanFiles /\ s[1] \in Entries /\ s[1] \in Files
  BY RankFacts DEF PlanShards, PlanFiles
<1>2. CASE s[1] \in NeedsDownload
  <2>1. NeedsDownload \in SUBSET Files
    BY RankFacts DEF NeedsDownload
  <2>2. Owner[NeedsDownload][s] \in Downloaders
    BY <1>1, <2>1, ClusterRunAssumption
  <2>3. \A r \in Ranks : s[1] \notin row[r]
    BY <1>2 DEF NeedsDownload, Havers
  <2> QED BY <1>1, <1>2, <2>2, <2>3, RankFacts DEF ShardOwner, MyRanges, FilesToCreate
<1>3. CASE s[1] \notin NeedsDownload
  <2>1. Havers(s[1]) # {} /\ Havers(s[1]) \in SUBSET Nat
    BY <1>1, <1>3, RankFacts DEF NeedsDownload, Havers
  <2>2. \E r \in Havers(s[1]) : \A q \in Havers(s[1]) : r <= q
    BY <2>1, LeastOfNaturals
  <2>3. FirstHaver(s[1]) \in Havers(s[1])
    BY <2>2 DEF FirstHaver
  <2> QED BY <1>1, <1>3, <2>3 DEF ShardOwner, Havers
<1> QED BY <1>2, <1>3

LEMMA StageSet == {Stages[i] : i \in DOMAIN Stages} = StageNames
<1>1. DOMAIN Stages = 1 .. 12
  BY DEF Stages
<1>2. /\ Stages[1] = "list" /\ Stages[2] = "presence" /\ Stages[3] = "gather"
      /\ Stages[4] = "create" /\ Stages[5] = "download" /\ Stages[6] = "reduce"
      /\ Stages[7] = "barrier" /\ Stages[8] = "bcast" /\ Stages[9] = "digest"
      /\ Stages[10] = "compare" /\ Stages[11] = "save" /\ Stages[12] = "exit"
  BY DEF Stages
<1>3. ASSUME NEW s \in StageNames PROVE s \in {Stages[i] : i \in 1 .. 12}
  BY <1>2 DEF StageNames
<1>4. \A i \in 1 .. 12 : Stages[i] \in StageNames
  BY StageOrder
<1> QED BY <1>1, <1>3, <1>4

(* The plan is a matter of the rows.                                        *)
LEMMA SamePlan ==
  ASSUME row' = row
  PROVE  /\ NeedsDownload' = NeedsDownload /\ PlanShards' = PlanShards
         /\ \A s : ShardOwner(s)' = ShardOwner(s)
         /\ \A r : /\ FilesToCreate(r)' = FilesToCreate(r) /\ MyRanges(r)' = MyRanges(r)
                   /\ Arriving(r)' = Arriving(r)
<1>1. /\ \A f : Havers(f)' = Havers(f)
      /\ NeedsDownload' = NeedsDownload /\ PlanFiles' = PlanFiles
  BY DEF Havers, NeedsDownload, PlanFiles
<1>2. \A f : FirstHaver(f)' = FirstHaver(f)
  BY <1>1 DEF FirstHaver
<1>3. PlanShards' = PlanShards /\ \A s : ShardOwner(s)' = ShardOwner(s)
  BY <1>1, <1>2 DEF ShardOwner, PlanShards
<1> QED BY <1>1, <1>3 DEF FilesToCreate, MyRanges, Arriving

(* What the steps have in common: a rank goes on to a later stage, if it    *)
(* has nothing left to do in those it leaves behind.                        *)
workAndDisk == <<local, row, entries, verify, workVars>>

MayMove(r, t) ==
  /\ t \in FromCreate /\ pc[r] \in FromCreate
  /\ t # "create" => creates[r] = {}
  /\ t \in FromReduce => downloads[r] = {}
  /\ dl_failed[r] => t = "download"
  /\ t \in FromDigest => receives[r] = {}
  /\ pc[r] \in FromBarrier => t \in FromBarrier
  /\ pc[r] \in FromBcast => t \in FromBcast
  /\ pc[r] \in FromCompare => t \in FromCompare
  /\ t \in FromBcast => t \in FromBarrier /\ \A q \in Ranks \ {r} : pc[q] \in FromBarrier
  /\ t \in FromSave /\ verify => t \in FromCompare /\ \A q \in Ranks \ {r} : pc[q] \in FromCompare
  /\ (r = 0 /\ verify /\ t \in FromSave /\ pc[r] \notin FromSave) => ~Diverged
  /\ pc[r] \in FromCreate \ {"create"} => t # "create"

LEMMA Moved ==
  ASSUME RunInv, NEW r \in Ranks, NEW t \in StageNames, MayMove(r, t), Advance(r, t),
         UNCHANGED workAndDisk, blob' = blob, TypeOK'
  PROVE  RunInv'
<1> USE DEF RunInv, workAndDisk, workVars, Advance
<1>1. /\ pc' = [pc EXCEPT ![r] = t] /\ pc \in [Ranks -> StageNames]
      /\ pc'[r] = t /\ \A q \in Ranks \ {r} : pc'[q] = pc[q]
  BY StageSet DEF TypeOK
<1> USE SamePlan
<1>2. Barriers'
  BY <1>1 DEF Barriers, MayMove, FromSave, FromCompare, FromDigest, FromBcast, FromBarrier,
              FromReduce, FromCreate, FromGather, StageNames
<1>3. Listed'
  BY DEF Listed
<1>4. Verified'
  BY <1>1, RankFacts DEF Verified, MayMove, Diverged
<1>5. ASSUME NEW q \in Ranks PROVE RankInv(q)'
  <2>1. RankInv(q)
    OBVIOUS
  <2>2. CASE q = r
    BY <1>1, <2>1, <2>2 DEF RankInv, MayMove
  <2>3. CASE q # r
    BY <1>1, <2>1, <2>3 DEF RankInv
  <2> QED BY <2>2, <2>3
<1>6. ASSUME NEW q \in Ranks PROVE PlanInv(q)'
  <2>1. PlanInv(q)
    OBVIOUS
  <2>2. CASE q = r
    <3>1. Planned(r)
      BY <2>1, <2>2 DEF PlanInv, MayMove
    <3>2. Planned(r)'
      BY <1>1, <3>1 DEF Planned, Value, MayMove, RankInv
    <3> QED BY <2>2, <3>2 DEF PlanInv
  <2>3. CASE q # r
    BY <1>1, <2>1, <2>3 DEF PlanInv, Planned, Value
  <2> QED BY <2>2, <2>3
<1> QED BY <1>2, <1>3, <1>4, <1>5, <1>6

(* Blobs are replaced, ranks die, but nothing the plan is about changes.    *)
LEMMA Aside ==
  ASSUME RunInv, UNCHANGED workAndDisk, UNCHANGED pc, TypeOK',
         \A f \in Files : blob'[f] >= blob[f]
  PROVE  RunInv'
<1> USE SamePlan DEF RunInv, workAndDisk, workVars
<1>1. Barriers' /\ Verified'
  BY DEF Barriers, Verified
<1>2. Listed'
  <2>1. \A f \in Files : entries[f] \in Nat /\ blob[f] \in Nat /\ blob'[f] \in Nat
    BY RankFacts DEF TypeOK, Hole
  <2>2. \A f \in Files : entries[f] <= blob[f] /\ blob'[f] >= blob[f] /\ entries'[f] = entries[f]
    BY DEF Listed
  <2> QED BY <2>1, <2>2 DEF Listed
<1>3. ASSUME NEW q \in Ranks PROVE RankInv(q)' /\ PlanInv(q)'
  BY DEF RankInv, PlanInv, Planned, Value
<1> QED BY <1>1, <1>2, <1>3

------------------------------------------------------------------------------
(* The types.                                                               *)

diskTypes == /\ DOMAIN local = Ranks /\ \A r \in Ranks : DOMAIN local[r] = Files
             /\ \A r \in Ranks, f \in Files : local[r][f] \in {NoFile} \cup Content(f)
restTypes ==
  /\ blob \in [Files -> Versions]
  /\ saved \in {NoFile} \cup [Files -> {Hole} \cup Versions]
  /\ runs \in 1 .. MaxRuns + 1 /\ mode \in Modes /\ verify \in BOOLEAN
  /\ entries \in [Files -> {Hole} \cup Versions]
workTypes ==
  /\ pc \in [Ranks -> StageNames]
  /\ row \in [Ranks -> SUBSET Files] /\ creates \in [Ranks -> SUBSET Files]
  /\ downloads \in [Ranks -> SUBSET Shards] /\ receives \in [Ranks -> SUBSET Shards]
  /\ dl_failed \in [Ranks -> BOOLEAN]
deadTypes == dead \subseteq Ranks /\ aborted \in BOOLEAN /\ faults \in 0 .. MaxFaults

LEMMA TypesAre == TypeOK <=> diskTypes /\ restTypes /\ workTypes /\ deadTypes
BY StageSet DEF TypeOK, diskTypes, restTypes, workTypes, deadTypes

LEMMA TypesNext == diskTypes' /\ restTypes' /\ workTypes' /\ deadTypes' => TypeOK'
BY StageSet DEF TypeOK, diskTypes, restTypes, workTypes, deadTypes

(* One shard of one file is written.                                        *)
LEMMA ShardWritten ==
  ASSUME TypeOK, NEW r \in Ranks, NEW s \in Shards, NEW v \in {Hole} \cup Versions,
         local' = [local EXCEPT ![r][s[1]][s[2]] = v]
  PROVE  /\ diskTypes'
         /\ \A q \in Ranks, g \in Files : local[q][g] # NoFile <=> local'[q][g] # NoFile
         /\ local[r][s[1]] # NoFile => local'[r][s[1]][s[2]] = v
         /\ \A q \in Ranks, g \in Files : (q # r \/ g # s[1]) => local'[q][g] = local[q][g]
         /\ \A j \in 1 .. NumShards[s[1]] \ {s[2]} : local'[r][s[1]][j] = local[r][s[1]][j]
<1>1. s[1] \in Files /\ s[2] \in 1 .. NumShards[s[1]] /\ diskTypes
  BY ShardFacts, TypesAre
<1>2. ASSUME NEW f \in Files, NEW i \in 1 .. NumShards[f], f = s[1], i = s[2]
      PROVE  /\ diskTypes'
             /\ \A q \in Ranks, g \in Files : local[q][g] # NoFile <=> local'[q][g] # NoFile
             /\ local[r][f] # NoFile => local'[r][f][i] = v
             /\ \A q \in Ranks, g \in Files : (q # r \/ g # f) => local'[q][g] = local[q][g]
             /\ \A j \in 1 .. NumShards[f] \ {i} : local'[r][f][j] = local[r][f][j]
  <2> USE DEF diskTypes
  <2>1. /\ \A q \in Ranks, g \in Files : (q # r \/ g # f) => local'[q][g] = local[q][g]
        /\ local'[r][f] = [local[r][f] EXCEPT ![i] = v]
        /\ DOMAIN local' = Ranks /\ \A q \in Ranks : DOMAIN local'[q] = Files
    BY <1>1, <1>2
  <2>2. CASE local[r][f] = NoFile
    <3>1. local'[r][f] = NoFile
      BY <2>1, <2>2 DEF NoFile
    <3> QED BY <1>1, <2>1, <2>2, <3>1
  <2>3. CASE local[r][f] # NoFile
    <3>1. local[r][f] \in Content(f)
      BY <1>1, <2>3
    <3>2. local'[r][f] \in Content(f) /\ local'[r][f][i] = v
      BY <2>1, <3>1 DEF Content
    <3>3. local'[r][f] # NoFile
      BY <3>2, ContentFacts
    <3>4. \A j \in 1 .. NumShards[f] \ {i} : local'[r][f][j] = local[r][f][j]
      BY <2>1, <3>1 DEF Content
    <3> QED BY <1>1, <2>1, <2>3, <3>2, <3>3, <3>4
  <2> QED BY <2>2, <2>3
<1> QED BY <1>1, <1>2

(* What arrives in the broadcast comes from a file that is there.           *)
LEMMA OwnerHas ==
  ASSUME RunInv, NEW r \in Ranks, NEW s \in Arriving(r), pc[r] \in FromBcast
  PROVE  /\ ShardOwner(s) \in Ranks /\ ShardOwner(s) # r /\ s \in Shards /\ s[1] \in FilesToCreate(r)
         /\ local[ShardOwner(s)][s[1]] # NoFile
         /\ Value(ShardOwner(s), s) \in {Hole} \cup Versions
<1> USE DEF RunInv
<1> DEFINE o == ShardOwner(s)
<1>1. s \in PlanShards /\ s \in Shards /\ s[1] \notin row[r] /\ o # r /\ s[1] \in PlanFiles
  BY DEF Arriving, PlanShards
<1>2. o \in Ranks /\ s[1] \in Files /\ s[2] \in 1 .. NumShards[s[1]]
  BY <1>1, Owners, ShardFacts
<1>3. local[o][s[1]] # NoFile
  <2>1. CASE s[1] \in NeedsDownload
    <3>1. s[1] \in FilesToCreate(o)
      BY <1>1, <2>1, Owners
    <3>2. pc[o] \in FromBarrier
      BY <1>2 DEF Barriers
    <3>3. creates[o] = {} /\ Planned(o)
      BY <1>2, <3>2 DEF RankInv, PlanInv, FromBarrier, FromReduce, FromCreate
    <3> QED BY <3>1, <3>3 DEF Planned
  <2>2. CASE s[1] \notin NeedsDownload
    BY <1>1, <1>2, <2>2, Owners DEF RankInv
  <2> QED BY <2>1, <2>2
<1>4. local[o][s[1]] \in Content(s[1])
  BY <1>2, <1>3 DEF TypeOK
<1>5. Value(o, s) \in {Hole} \cup Versions
  BY <1>2, <1>4 DEF Content, Value
<1> QED BY <1>1, <1>2, <1>3, <1>5 DEF FilesToCreate

LEMMA NextTypes ==
  ASSUME RunInv, [Next]_vars
  PROVE  TypeOK'
<1> USE DEF RunInv, Advance, Abort
<1>1. diskTypes /\ restTypes /\ workTypes /\ deadTypes
  BY TypesAre
<1>2. MaxFaults \in Nat /\ (faults < MaxFaults /\ faults' = faults + 1 => faults' \in 0 .. MaxFaults)
  BY <1>1, ClusterRunAssumption DEF deadTypes
<1>3. CASE UNCHANGED vars
  BY <1>1, <1>3, TypesNext DEF diskTypes, restTypes, workTypes, deadTypes, vars, diskVars, argVars,
                              workVars, faultVars
<1>4. ASSUME NEW r \in Ranks,
             EndCreate(r) \/ EndDownload(r) \/ Reduce(r) \/ Barrier(r) \/ EndBcast(r) \/ Digest(r)
             \/ Compare(r) \/ StageFails(r) \/ Killed(r) \/ \E f \in Files : CreateFails(r, f)
      PROVE  TypeOK'
  <2>1. /\ diskTypes' /\ restTypes'
        /\ UNCHANGED <<row, workVars>> /\ (pc' = pc \/ \E t \in StageNames : pc' = [pc EXCEPT ![r] = t])
    BY <1>1, <1>4 DEF diskTypes, restTypes, diskVars, argVars, EndCreate, EndDownload, Reduce, Barrier,
         EndBcast, Digest, Compare, StageFails, Killed, CreateFails, StageNames, workVars
  <2>2. workTypes'
    BY <1>1, <2>1 DEF workTypes, workVars
  <2>3. deadTypes'
    BY <1>1, <1>2, <1>4 DEF deadTypes, faultVars, EndCreate, EndDownload, Reduce, Barrier,
         EndBcast, Digest, Compare, StageFails, Killed, CreateFails
  <2> QED BY <2>1, <2>2, <2>3, TypesNext
<1>5. ASSUME NEW r \in Ranks, List(r) PROVE TypeOK'
  <2>1. diskTypes' /\ deadTypes' /\ workTypes'
    BY <1>1, <1>5 DEF List, diskTypes, deadTypes, workTypes, diskVars, workVars, faultVars, StageNames
  <2>2. restTypes'
    BY <1>1, <1>5 DEF List, restTypes, diskVars, argVars
  <2> QED BY <2>1, <2>2, TypesNext
<1>6. ASSUME NEW r \in Ranks, Presence(r) PROVE TypeOK'
  <2>1. {f \in Entries : Present(r, f)} \in SUBSET Files
    BY RankFacts
  <2>2. workTypes'
    BY <1>1, <1>6, <2>1 DEF Presence, workTypes, workVars, StageNames
  <2>3. diskTypes' /\ restTypes' /\ deadTypes'
    BY <1>1, <1>6 DEF Presence, diskTypes, restTypes, deadTypes, diskVars, argVars, faultVars
  <2> QED BY <2>2, <2>3, TypesNext
<1>7. ASSUME NEW r \in Ranks, Gather(r) PROVE TypeOK'
  <2>1. /\ FilesToCreate(r) \in SUBSET Files
        /\ MyRanges(r) \in SUBSET Shards /\ Arriving(r) \in SUBSET Shards
    BY RankFacts DEF FilesToCreate, PlanFiles, MyRanges, Arriving, PlanShards
  <2>2. workTypes'
    BY <1>1, <1>7, <2>1 DEF Gather, workTypes, StageNames
  <2>3. diskTypes' /\ restTypes' /\ deadTypes'
    BY <1>1, <1>7 DEF Gather, diskTypes, restTypes, deadTypes, diskVars, argVars, faultVars
  <2> QED BY <2>2, <2>3, TypesNext
<1>8. ASSUME NEW r \in Ranks, NEW f \in Files, CreateFile(r, f) PROVE TypeOK'
  <2>1. Filled(f, Hole) \in Content(f)
    BY DEF Filled, Content
  <2>2. diskTypes'
    BY <1>1, <1>8, <2>1 DEF CreateFile, diskTypes
  <2>3. restTypes' /\ deadTypes' /\ workTypes'
    BY <1>1, <1>8 DEF CreateFile, workTypes, restTypes, deadTypes, argVars, faultVars
  <2> QED BY <2>2, <2>3, TypesNext
<1>9. ASSUME NEW r \in Ranks, NEW s \in Shards, DownloadShard(r, s) PROVE TypeOK'
  <2>1. s[1] \in Files /\ s[2] \in 1 .. NumShards[s[1]] /\ blob[s[1]] \in Versions
    BY <1>1, ShardFacts DEF restTypes
  <2>2. diskTypes'
    <3>1. CASE local' = [local EXCEPT ![r][s[1]][s[2]] = blob[s[1]]]
      BY <2>1, <3>1, ShardWritten
    <3>2. CASE UNCHANGED local
      BY <1>1, <3>2 DEF diskTypes
    <3> QED BY <1>9, <3>1, <3>2 DEF DownloadShard
  <2>3. restTypes' /\ deadTypes' /\ workTypes'
    BY <1>1, <1>2, <1>9 DEF DownloadShard, workTypes, restTypes, deadTypes, argVars
  <2> QED BY <2>2, <2>3, TypesNext
<1>10. ASSUME NEW r \in Ranks, NEW s \in Shards, Receive(r, s) PROVE TypeOK'
  <2>1. pc[r] \in FromBcast /\ s \in Arriving(r)
    BY <1>10 DEF Receive, PlanInv, Planned, FromBcast, FromBarrier, FromReduce, FromCreate,
                 FromGather, StageNames
  <2>2. Value(ShardOwner(s), s) \in {Hole} \cup Versions
    BY <2>1, OwnerHas
  <2>3. diskTypes'
    <3>1. local' = [local EXCEPT ![r][s[1]][s[2]] = Value(ShardOwner(s), s)]
      BY <1>10 DEF Receive, Value
    <3> QED BY <2>2, <3>1, ShardWritten
  <2>4. restTypes' /\ deadTypes' /\ workTypes'
    BY <1>1, <1>10 DEF Receive, workTypes, restTypes, deadTypes, argVars, faultVars
  <2> QED BY <2>3, <2>4, TypesNext
<1>11. ASSUME NEW r \in Ranks, Save(r) PROVE TypeOK'
  <2>1. diskTypes' /\ workTypes'
    BY <1>1, <1>11 DEF Save, diskTypes, workTypes, workVars, StageNames
  <2>2. deadTypes'
    BY <1>1, <1>2, <1>11 DEF Save, deadTypes
  <2>3. saved' \in {NoFile} \cup [Files -> {Hole} \cup Versions]
    <3>1. CASE saved' = IF r = 0 THEN entries ELSE saved
      BY <1>1, <3>1 DEF restTypes
    <3>2. CASE \E part \in SUBSET Entries :
                 saved' = [f \in Files |-> IF f \in part THEN entries[f] ELSE Hole]
      <4>1. PICK part \in SUBSET Entries :
              saved' = [f \in Files |-> IF f \in part THEN entries[f] ELSE Hole]
        BY <3>2
      <4>2. \A f \in Files : (IF f \in part THEN entries[f] ELSE Hole) \in {Hole} \cup Versions
        BY <1>1 DEF restTypes
      <4> QED BY <4>1, <4>2
    <3> QED BY <1>11, <3>1, <3>2 DEF Save
  <2>4. restTypes'
    BY <1>1, <1>11, <2>3 DEF Save, restTypes, argVars
  <2> QED BY <2>1, <2>2, <2>4, TypesNext
<1>12. ASSUME NEW f \in Files, Replaced(f) PROVE TypeOK'
  <2>1. blob[f] \in Nat /\ blob[f] + 1 \in Versions
    <3>1. LastVersion[f] \in Nat /\ blob[f] \in Nat /\ blob[f] < LastVersion[f]
      BY <1>1, <1>12, RankFacts, ClusterRunAssumption DEF Replaced, restTypes
    <3>2. blob[f] + 1 \in 1 .. LastVersion[f]
      BY <3>1
    <3> QED BY <3>1, <3>2 DEF Versions
  <2>2. restTypes'
    BY <1>1, <1>12, <2>1 DEF Replaced, restTypes, diskVars, argVars
  <2>3. diskTypes' /\ workTypes' /\ deadTypes'
    BY <1>1, <1>12 DEF Replaced, diskTypes, workTypes, deadTypes, diskVars, workVars, faultVars
  <2> QED BY <2>2, <2>3, TypesNext
<1>13. ASSUME NextRun PROVE TypeOK'
  <2>1. diskTypes' /\ deadTypes'
    BY <1>1, <1>13 DEF NextRun, diskTypes, deadTypes, diskVars
  <2>2. workTypes'
    BY <1>1, <1>13 DEF NextRun, workTypes, StageNames
  <2>3. runs' \in 1 .. MaxRuns + 1 /\ mode' \in Modes /\ verify' \in BOOLEAN
    BY <1>1, <1>13, ClusterRunAssumption DEF NextRun, restTypes
  <2>4. restTypes'
    BY <1>1, <1>13, <2>3 DEF NextRun, restTypes, diskVars
  <2> QED BY <2>1, <2>2, <2>4, TypesNext
<1> QED BY <1>3, <1>4, <1>5, <1>6, <1>7, <1>8, <1>9, <1>10, <1>11, <1>12, <1>13
        DEF Next, RankStep, Terminated

------------------------------------------------------------------------------
(* The steps.                                                               *)

LEMMA InitInv == Init => RunInv
<1> SUFFICES ASSUME Init PROVE RunInv
  OBVIOUS
<1> USE DEF Init
<1>1. \A f \in Files : Filled(f, 1) \in Content(f)
  <2>1. \A f \in Files : 1 \in Versions
    BY ClusterRunAssumption DEF Versions
  <2> QED BY <2>1 DEF Filled, Content
<1>2. diskTypes
  BY <1>1 DEF diskTypes
<1>3. restTypes
  <2>1. \A f \in Files : 1 \in Versions
    BY ClusterRunAssumption DEF Versions
  <2>2. 1 \in 1 .. MaxRuns + 1
    BY ClusterRunAssumption
  <2> QED BY <2>1, <2>2 DEF restTypes
<1>4. workTypes /\ deadTypes
  <2>1. "list" \in StageNames /\ 0 \in 0 .. MaxFaults
    BY ClusterRunAssumption DEF StageNames
  <2>2. workTypes
    BY <2>1 DEF workTypes
  <2> QED BY <2>1, <2>2 DEF deadTypes
<1>5. \A r \in Ranks : pc[r] \notin FromCreate /\ pc[r] \notin FromBcast /\ pc[r] \notin FromSave
  BY DEF FromCreate, FromGather, FromBcast, FromBarrier, FromReduce, FromSave, FromCompare, FromDigest
<1>7. Barriers /\ Verified
  BY <1>5, RankFacts DEF Barriers, Verified
<1>8. Listed
  BY DEF Listed, Hole
<1>6. ASSUME NEW r \in Ranks PROVE RankInv(r) /\ PlanInv(r)
  BY DEF RankInv, PlanInv, FromCreate, FromGather, FromDigest, FromBcast, FromBarrier, FromReduce
<1> QED BY <1>2, <1>3, <1>4, <1>6, <1>7, <1>8, TypesAre DEF RunInv

(* Before the allgather no rank has a plan.                                 *)
LEMMA BeforeGather ==
  ASSUME RunInv, NEW p \in Ranks, pc[p] \notin FromGather
  PROVE  \A q \in Ranks : /\ pc[q] \notin FromCreate
                          /\ creates[q] = {} /\ downloads[q] = {} /\ receives[q] = {} /\ ~dl_failed[q]
<1>1. \A q \in Ranks : pc[q] \notin FromCreate
  BY DEF RunInv, Barriers
<1> QED BY <1>1 DEF RunInv, RankInv, FromCreate, FromGather, StageNames

LEMMA ListStep ==
  ASSUME RunInv, NEW r \in Ranks, List(r), TypeOK'
  PROVE  RunInv'
<1> USE DEF RunInv, List, Advance, diskVars, workVars
<1>1. pc' = [pc EXCEPT ![r] = "presence"] /\ pc \in [Ranks -> StageNames] /\ pc[r] \notin FromGather
  BY StageSet DEF TypeOK, FromGather
<1>2. \A q \in Ranks : pc'[q] \notin FromCreate /\ pc[q] \notin FromCreate
  BY <1>1, BeforeGather DEF FromCreate, FromGather
<1>3. Barriers' /\ Verified'
  BY <1>2, RankFacts DEF Barriers, Verified, FromSave, FromCompare, FromDigest, FromBcast, FromBarrier,
                         FromReduce
<1>4. Listed'
  <2>1. \A f \in Files : entries[f] \in Nat /\ blob[f] \in Nat
    BY RankFacts DEF TypeOK, Hole
  <2> QED BY <2>1, RankFacts DEF Listed, Hole
<1>5. ASSUME NEW q \in Ranks PROVE RankInv(q)' /\ PlanInv(q)'
  BY <1>2, <1>1, BeforeGather DEF RankInv, PlanInv, FromReduce, FromDigest, FromBcast, FromBarrier
<1> QED BY <1>3, <1>4, <1>5

LEMMA PresenceStep ==
  ASSUME RunInv, NEW r \in Ranks, Presence(r), TypeOK'
  PROVE  RunInv'
<1> USE DEF RunInv, Presence, Advance, diskVars, workVars, argVars
<1>1. pc' = [pc EXCEPT ![r] = "gather"] /\ pc \in [Ranks -> StageNames] /\ pc[r] \notin FromGather
  BY StageSet DEF TypeOK, FromGather
<1>2. \A q \in Ranks : pc'[q] \notin FromCreate /\ pc[q] \notin FromCreate
  BY <1>1, BeforeGather DEF FromCreate, FromGather
<1>3. Barriers' /\ Verified' /\ Listed'
  <2>1. \A q \in Ranks : pc'[q] \notin FromBcast /\ pc'[q] \notin FromSave
    BY <1>2 DEF FromSave, FromCompare, FromDigest, FromBcast, FromBarrier, FromReduce
  <2> QED BY <1>2, <2>1, RankFacts DEF Barriers, Verified, Listed
<1>4. row \in [Ranks -> SUBSET Files]
  BY DEF TypeOK
<1>5. \A f : Present(r, f) => local[r][f] # NoFile
  <2>1. mode \in {"none", "size", "filelist"}
    BY ClusterRunAssumption DEF TypeOK
  <2> QED BY <2>1 DEF Present, SizeMatches
<1>6. ASSUME NEW q \in Ranks PROVE RankInv(q)' /\ PlanInv(q)'
  <2>1. \A f \in row'[q] : f \in Entries /\ local[q][f] # NoFile
    BY <1>4, <1>5 DEF RankInv
  <2> QED BY <1>2, <1>1, <2>1, BeforeGather DEF RankInv, PlanInv, FromReduce, FromDigest, FromBcast, FromBarrier
<1> QED BY <1>3, <1>6

LEMMA GatherStep ==
  ASSUME RunInv, NEW r \in Ranks, Gather(r), TypeOK'
  PROVE  RunInv'
<1> USE SamePlan DEF RunInv, Gather, Advance, diskVars, argVars
<1>1. /\ pc \in [Ranks -> StageNames] /\ pc'[r] = "create" /\ \A q \in Ranks \ {r} : pc'[q] = pc[q]
      /\ \A q \in Ranks : pc[q] \in FromGather
  BY StageSet, ReachedIs DEF TypeOK
<1>2. /\ creates'[r] = FilesToCreate(r) /\ downloads'[r] = MyRanges(r) /\ receives'[r] = Arriving(r)
      /\ \A q \in Ranks \ {r} : /\ creates'[q] = creates[q] /\ downloads'[q] = downloads[q]
                                /\ receives'[q] = receives[q]
  BY DEF TypeOK
<1>3. Barriers'
  BY <1>1 DEF Barriers, FromSave, FromCompare, FromDigest, FromBcast, FromBarrier,
              FromReduce, FromCreate, FromGather, StageNames
<1>4. Verified' /\ Listed'
  BY <1>1, RankFacts DEF Verified, Listed, FromSave, FromCompare, FromDigest, FromBcast, FromBarrier,
                         FromReduce, FromCreate
<1>5. ASSUME NEW q \in Ranks PROVE RankInv(q)' /\ PlanInv(q)'
  <2>1. CASE q = r
    <3>1. RankInv(q)'
      BY <1>1, <2>1 DEF RankInv, FromReduce, FromDigest, FromBcast, FromBarrier, FromCreate, FromGather,
                        StageNames
    <3>2. Planned(q)'
      BY <1>1, <1>2, <2>1 DEF Planned
    <3> QED BY <3>1, <3>2 DEF PlanInv
  <2>2. CASE q # r
    <3>1. RankInv(q)'
      BY <1>1, <1>2, <2>2 DEF RankInv
    <3>2. PlanInv(q)'
      BY <1>1, <1>2, <2>2 DEF PlanInv, Planned, Value
    <3> QED BY <3>1, <3>2
  <2> QED BY <2>1, <2>2
<1> QED BY <1>3, <1>4, <1>5

LEMMA VersionNumbers ==
  ASSUME TypeOK
  PROVE  \A f \in Files : blob[f] \in Nat /\ blob[f] \in Versions /\ blob[f] >= blob[f] /\ 0 <= blob[f]
<1>1. blob \in [Files -> Versions]
  BY DEF TypeOK
<1>2. \A f \in Files : blob[f] \in Versions
  BY <1>1
<1>3. \A v \in Versions : v \in Nat
  BY RankFacts
<1>4. \A v \in Nat : v >= v /\ 0 <= v
  OBVIOUS
<1> QED BY <1>2, <1>3, <1>4

(* Ranks that go on to the next stage, or fail.                             *)
LEMMA Stays ==
  ASSUME RunInv, UNCHANGED <<blob, local, entries, row, verify, pc, workVars>>, TypeOK'
  PROVE  RunInv'
<1>1. \A f \in Files : blob'[f] >= blob[f]
  BY VersionNumbers DEF RunInv
<1> QED BY <1>1, Aside DEF workAndDisk

LEMMA AdvanceStep ==
  ASSUME RunInv, NEW r \in Ranks, TypeOK',
         EndCreate(r) \/ EndDownload(r) \/ Reduce(r) \/ Barrier(r) \/ EndBcast(r) \/ Digest(r)
         \/ Compare(r) \/ Save(r)
  PROVE  RunInv'
<1> USE DEF diskVars, argVars, Abort
<1>1. RankInv(r) /\ Barriers
  BY DEF RunInv
<1> USE DEF FromSave, FromCompare, FromDigest, FromBcast, FromBarrier, FromReduce, FromCreate, FromGather,
            StageNames
<1>2. CASE EndCreate(r)
  <2>1. MayMove(r, "download")
    BY <1>1, <1>2 DEF MayMove, EndCreate, RankInv
  <2> QED BY <1>2, <2>1, Moved DEF EndCreate, workAndDisk
<1>3. CASE EndDownload(r) /\ dl_failed[r]
  BY <1>3, Stays DEF EndDownload
<1>4. CASE EndDownload(r) /\ ~dl_failed[r]
  <2>1. MayMove(r, "reduce")
    BY <1>1, <1>4 DEF MayMove, EndDownload, RankInv
  <2> QED BY <1>4, <2>1, Moved DEF EndDownload, workAndDisk
<1>5. CASE Reduce(r)
  <2>1. MayMove(r, "barrier")
    BY <1>1, <1>5 DEF MayMove, Reduce, RankInv
  <2> QED BY <1>5, <2>1, Moved DEF Reduce, workAndDisk
<1>6. CASE Barrier(r)
  <2>1. \A q \in Ranks : pc[q] \in FromBarrier
    BY <1>6, ReachedIs DEF RunInv, Barrier, BarrierOpen
  <2>2. MayMove(r, "bcast")
    BY <1>1, <1>6, <2>1 DEF MayMove, Barrier, RankInv
  <2> QED BY <1>6, <2>2, Moved DEF Barrier, workAndDisk
<1>7. CASE EndBcast(r)
  <2>1. \A q \in Ranks : pc[q] \in FromBarrier
    BY <1>1, <1>7 DEF EndBcast, Barriers
  <2>2. MayMove(r, IF verify THEN "digest" ELSE "save")
    BY <1>1, <1>7, <2>1 DEF MayMove, EndBcast, RankInv
  <2> QED BY <1>7, <2>2, Moved DEF EndBcast, workAndDisk
<1>8. CASE Digest(r)
  <2>1. \A q \in Ranks : pc[q] \in FromBarrier
    BY <1>1, <1>8 DEF Digest, Barriers
  <2>2. MayMove(r, "compare")
    BY <1>1, <1>8, <2>1 DEF MayMove, Digest, RankInv
  <2> QED BY <1>8, <2>2, Moved DEF Digest, workAndDisk
<1>9. CASE Compare(r) /\ (r = 0 /\ Diverged)
  BY <1>9, Stays DEF Compare
<1>10. CASE Compare(r) /\ ~(r = 0 /\ Diverged)
  <2>1. \A q \in Ranks : pc[q] \in FromCompare
    BY <1>10, ReachedIs DEF RunInv, Compare
  <2>2. MayMove(r, "save")
    BY <1>1, <1>10, <2>1 DEF MayMove, Compare, RankInv
  <2> QED BY <1>10, <2>2, Moved DEF Compare, workAndDisk
<1>11. CASE Save(r)
  <2>1. \A q \in Ranks : pc[q] \in FromBarrier /\ (verify => pc[q] \in FromCompare)
    BY <1>1, <1>11 DEF Save, Barriers
  <2>2. MayMove(r, "exit")
    BY <1>1, <1>11, <2>1 DEF MayMove, Save, RankInv
  <2> QED BY <1>11, <2>2, Moved DEF Save, workAndDisk
<1> QED BY <1>2, <1>3, <1>4, <1>5, <1>6, <1>7, <1>8, <1>9, <1>10, <1>11

(* Ranks that write to their files.  Others depend on them only when they   *)
(* are in the broadcast, where a file is no longer created or downloaded.   *)
LEMMA CreateStep ==
  ASSUME RunInv, NEW r \in Ranks, NEW f \in Files, CreateFile(r, f), TypeOK'
  PROVE  RunInv'
<1> USE SamePlan DEF RunInv, CreateFile, argVars
<1>1. /\ local'[r][f] = Filled(f, Hole) /\ local'[r][f] # NoFile
      /\ \A q \in Ranks, g \in Files : (q # r \/ g # f) => local'[q][g] = local[q][g]
      /\ \A q \in Ranks, g \in Files : local[q][g] # NoFile => local'[q][g] # NoFile
  BY ShardFacts DEF TypeOK
<1>2. /\ pc[r] = "create" /\ f \in creates[r] /\ creates'[r] = creates[r] \ {f}
      /\ \A q \in Ranks \ {r} : creates'[q] = creates[q]
  BY DEF TypeOK
<1>3. \A q \in Ranks : pc[q] \notin FromBcast /\ pc[q] \notin FromSave
  BY <1>2 DEF Barriers, FromSave, FromCompare, FromDigest, FromBcast, FromBarrier, FromReduce
<1>4. Barriers' /\ Listed'
  BY DEF Barriers, Listed
<1>5. Verified'
  BY <1>3, RankFacts DEF Verified
<1>6. Planned(r) /\ \A q \in Ranks : row[q] \subseteq Files
  BY <1>2 DEF PlanInv, FromCreate, FromGather, StageNames, TypeOK
<1>7. ASSUME NEW q \in Ranks PROVE RankInv(q)' /\ PlanInv(q)'
  <2>1. RankInv(q)'
    BY <1>1, <1>2, <1>6 DEF RankInv, FromCreate, FromGather, StageNames
  <2>2. CASE q = r
    <3>1. Planned(r)'
      BY <1>1, <1>2, <1>3, <1>6, RankFacts DEF Planned, FilesToCreate, PlanFiles
    <3> QED BY <2>1, <2>2, <3>1 DEF PlanInv
  <2>3. CASE q # r
    <3>1. ASSUME Planned(q) PROVE Planned(q)'
      <4>1. \A s \in MyRanges(q) : Value(q, s)' = Value(q, s)
        BY <1>1, <2>3, ShardFacts DEF MyRanges, PlanShards, Value
      <4>2. \A g \in FilesToCreate(q) : local'[q][g] = local[q][g]
        BY <1>1, <2>3, RankFacts DEF FilesToCreate, PlanFiles
      <4>3. Arriving(q) \ receives[q] = {}
        BY <1>3, <3>1 DEF Planned
      <4> QED BY <1>2, <2>3, <3>1, <4>1, <4>2, <4>3 DEF Planned
    <3> QED BY <2>1, <3>1 DEF PlanInv
  <2> QED BY <2>2, <2>3
<1> QED BY <1>4, <1>5, <1>7

LEMMA DownloadStep ==
  ASSUME RunInv, NEW r \in Ranks, NEW s \in Shards, DownloadShard(r, s), TypeOK'
  PROVE  RunInv'
<1> USE SamePlan DEF RunInv, DownloadShard, argVars
<1>1. /\ s[1] \in Files /\ s[2] \in 1 .. NumShards[s[1]] /\ s = <<s[1], s[2]>>
      /\ blob[s[1]] \in Versions /\ entries[s[1]] <= blob[s[1]]
  BY ShardFacts DEF TypeOK, Listed
<1>2. /\ \A q \in Ranks, g \in Files : local[q][g] # NoFile <=> local'[q][g] # NoFile
      /\ \A q \in Ranks, g \in Files : (q # r \/ g # s[1]) => local'[q][g] = local[q][g]
      /\ \A j \in 1 .. NumShards[s[1]] \ {s[2]} : local'[r][s[1]][j] = local[r][s[1]][j]
  <2>1. CASE local' = [local EXCEPT ![r][s[1]][s[2]] = blob[s[1]]]
    <3>1. blob[s[1]] \in {Hole} \cup Versions
      BY <1>1
    <3> HIDE DEF DownloadShard, RunInv
    <3>2. TypeOK
      BY DEF RunInv
    <3> QED BY <2>1, <3>1, <3>2, ShardWritten
  <2>2. CASE local' = local
    BY <2>2
  <2> QED BY <2>1, <2>2
<1>3. local[r][s[1]] # NoFile => dl_failed'[r] \/ local'[r][s[1]][s[2]] = blob[s[1]]
  <2>1. CASE local' = [local EXCEPT ![r][s[1]][s[2]] = blob[s[1]]]
    <3>1. blob[s[1]] \in {Hole} \cup Versions
      BY <1>1
    <3> HIDE DEF DownloadShard, RunInv
    <3>2. TypeOK
      BY DEF RunInv
    <3> QED BY <2>1, <3>1, <3>2, ShardWritten
  <2>2. CASE dl_failed' = [dl_failed EXCEPT ![r] = TRUE]
    <3>1. dl_failed \in [Ranks -> BOOLEAN]
      BY DEF TypeOK
    <3> QED BY <2>2, <3>1
  <2> QED BY <2>1, <2>2
<1>4. /\ pc[r] = "download" /\ s \in downloads[r] /\ downloads'[r] = downloads[r] \ {s}
      /\ \A q \in Ranks \ {r} : downloads'[q] = downloads[q] /\ dl_failed'[q] = dl_failed[q]
      /\ dl_failed[r] => dl_failed'[r]
  BY DEF TypeOK
<1>5. \A q \in Ranks : pc[q] \notin FromBcast /\ pc[q] \notin FromSave
  BY <1>4 DEF Barriers, FromSave, FromCompare, FromDigest, FromBcast, FromBarrier, FromReduce
<1>6. Barriers' /\ Listed' /\ Verified'
  BY <1>5, RankFacts DEF Barriers, Listed, Verified
<1>7. Planned(r) /\ creates[r] = {} /\ \A q \in Ranks : row[q] \subseteq Files
  BY <1>4 DEF RankInv, PlanInv, FromCreate, FromGather, StageNames, TypeOK
<1>8. ASSUME NEW q \in Ranks PROVE RankInv(q)' /\ PlanInv(q)'
  <2>1. RankInv(q)'
    BY <1>2, <1>4, <1>7 DEF RankInv, FromReduce, FromCreate, FromGather, StageNames
  <2>2. ASSUME Planned(q) PROVE Planned(q)'
    <3>1. \A g \in FilesToCreate(q) : local[q][g] # NoFile => local'[q][g] # NoFile
      BY <1>2, RankFacts DEF FilesToCreate, PlanFiles
    <3>2. \A t \in MyRanges(q) : <<q, t>> # <<r, s>> => Value(q, t)' = Value(q, t)
      BY <1>2, ShardFacts DEF MyRanges, PlanShards, Value
    <3>3. \A t \in MyRanges(q) \ downloads'[q] :
            pc[q] # "create" /\ (dl_failed'[q] \/ Value(q, t)' >= entries[t[1]])
      <4> SUFFICES ASSUME NEW t \in MyRanges(q) \ downloads'[q]
                   PROVE  pc[q] # "create" /\ (dl_failed'[q] \/ Value(q, t)' >= entries[t[1]])
        OBVIOUS
      <4>1. CASE q = r /\ t = s
        <5>1. s[1] \in FilesToCreate(r)
          <6>1. s \in PlanShards /\ s[1] \in NeedsDownload /\ s[1] \in PlanFiles
            BY <4>1 DEF MyRanges, PlanShards
          <6> QED BY <6>1, Owners DEF FilesToCreate
        <5>2. local[r][s[1]] # NoFile
          BY <1>7, <5>1 DEF Planned
        <5> QED BY <1>1, <1>3, <1>4, <4>1, <5>2 DEF Value
      <4>2. CASE ~(q = r /\ t = s)
        <5>1. t \in MyRanges(q) \ downloads[q] /\ (dl_failed[q] => dl_failed'[q])
          BY <1>4, <4>2
        <5> QED BY <2>2, <3>2, <4>2, <5>1 DEF Planned
      <4> QED BY <4>1, <4>2
    <3>4. Arriving(q) \ receives[q] = {}
      BY <1>5, <2>2 DEF Planned
    <3> QED BY <1>4, <2>2, <3>1, <3>3, <3>4 DEF Planned
  <2> QED BY <2>1, <2>2 DEF PlanInv
<1> QED BY <1>6, <1>8

LEMMA ReceiveStep ==
  ASSUME RunInv, NEW r \in Ranks, NEW s \in Shards, Receive(r, s), TypeOK'
  PROVE  RunInv'
<1> USE SamePlan DEF RunInv, Receive, argVars
<1> DEFINE o == ShardOwner(s)
<1>1. /\ pc[r] = "bcast" /\ s \in receives[r] /\ receives'[r] = receives[r] \ {s}
      /\ \A q \in Ranks \ {r} : receives'[q] = receives[q]
  BY DEF TypeOK
<1>2. Planned(r) /\ s \in Arriving(r) /\ pc[r] \in FromBcast /\ \A q \in Ranks : row[q] \subseteq Files
  BY <1>1 DEF PlanInv, Planned, FromBcast, FromBarrier, FromReduce, FromCreate, FromGather, StageNames,
              TypeOK
<1>3. /\ s[1] \in Files /\ s[2] \in 1 .. NumShards[s[1]] /\ s = <<s[1], s[2]>>
      /\ o \in Ranks /\ o # r /\ local[o][s[1]][s[2]] \in {Hole} \cup Versions
      /\ s[1] \in FilesToCreate(r)
  BY <1>2, ShardFacts, OwnerHas DEF Value
<1>4. /\ \A q \in Ranks, g \in Files : local[q][g] # NoFile <=> local'[q][g] # NoFile
      /\ local[r][s[1]] # NoFile => local'[r][s[1]][s[2]] = local[o][s[1]][s[2]]
      /\ \A q \in Ranks, g \in Files : (q # r \/ g # s[1]) => local'[q][g] = local[q][g]
      /\ \A j \in 1 .. NumShards[s[1]] \ {s[2]} : local'[r][s[1]][j] = local[r][s[1]][j]
  <2>1. local' = [local EXCEPT ![r][s[1]][s[2]] = local[o][s[1]][s[2]]]
    OBVIOUS
  <2> HIDE DEF Receive, RunInv
  <2>2. TypeOK
    BY DEF RunInv
  <2> HIDE DEF o
  <2> QED BY <1>3, <2>1, <2>2, ShardWritten
<1>5. creates[r] = {} /\ local[r][s[1]] # NoFile
  BY <1>1, <1>2, <1>3 DEF RankInv, Planned, FromCreate, FromGather, StageNames
<1>6. \A q \in Ranks, t \in Shards : <<q, t>> # <<r, s>> => Value(q, t)' = Value(q, t)
  BY <1>4, ShardFacts DEF Value
<1>7. ~verify \/ pc[0] \notin FromSave
  BY <1>1, RankFacts DEF Barriers, FromCompare, FromDigest
<1>8. Barriers' /\ Listed' /\ Verified'
  BY <1>7, RankFacts DEF Barriers, Listed, Verified
<1>9. ASSUME NEW q \in Ranks PROVE RankInv(q)' /\ PlanInv(q)'
  <2>1. RankInv(q)'
    BY <1>1, <1>2, <1>4 DEF RankInv, FromDigest, FromBcast, FromBarrier, FromReduce, FromCreate,
                            FromGather, StageNames
  <2>2. ASSUME Planned(q) PROVE Planned(q)'
    <3>1. \A g \in FilesToCreate(q) : local[q][g] # NoFile => local'[q][g] # NoFile
      BY <1>4, RankFacts DEF FilesToCreate, PlanFiles
    <3>2. \A t \in MyRanges(q) : Value(q, t)' = Value(q, t)
      <4> SUFFICES ASSUME NEW t \in MyRanges(q) PROVE Value(q, t)' = Value(q, t)
        OBVIOUS
      <4>1. t \in Shards /\ t \notin Arriving(q)
        BY DEF MyRanges, Arriving, PlanShards
      <4> QED BY <1>2, <1>6, <4>1
    <3>3. receives'[q] \subseteq receives[q]
      BY <1>1
    <3>4. \A t \in Arriving(q) \ receives'[q] :
            pc[q] \in FromBcast /\ Value(q, t)' = Value(ShardOwner(t), t)'
      <4> SUFFICES ASSUME NEW t \in Arriving(q) \ receives'[q]
                   PROVE  pc[q] \in FromBcast /\ Value(q, t)' = Value(ShardOwner(t), t)'
        OBVIOUS
      <4>1. t \in Shards /\ t \in PlanShards /\ ShardOwner(t) \in Ranks
        BY Owners DEF Arriving, PlanShards
      <4>2. t # s \/ ShardOwner(t) # r
        BY <1>3
      <4>3. Value(ShardOwner(t), t)' = Value(ShardOwner(t), t)
        BY <1>6, <4>1, <4>2
      <4>4. CASE q = r /\ t = s
        BY <1>2, <1>4, <1>5, <4>3, <4>4 DEF Value
      <4>5. CASE ~(q = r /\ t = s)
        <5>1. t \in Arriving(q) \ receives[q]
          BY <1>1, <4>5
        <5> QED BY <1>6, <2>2, <4>1, <4>3, <4>5, <5>1 DEF Planned
      <4> QED BY <4>4, <4>5
    <3> QED BY <2>2, <3>1, <3>2, <3>3, <3>4 DEF Planned
  <2> QED BY <2>1, <2>2 DEF PlanInv
<1> QED BY <1>8, <1>9

LEMMA NextRunStep ==
  ASSUME RunInv, NextRun, TypeOK'
  PROVE  RunInv'
<1> USE DEF NextRun, diskVars
<1>1. \A r \in Ranks : pc'[r] \notin FromCreate /\ pc'[r] \notin FromBcast /\ pc'[r] \notin FromSave
  BY DEF FromCreate, FromGather, FromBcast, FromBarrier, FromReduce, FromSave, FromCompare, FromDigest
<1>2. Barriers' /\ Verified'
  BY <1>1, RankFacts DEF Barriers, Verified
<1>3. Listed'
  <2>1. \A f \in Files : entries'[f] = 0 /\ blob'[f] = blob[f] /\ 0 <= blob[f]
    BY VersionNumbers DEF RunInv, Hole
  <2> QED BY <2>1 DEF Listed
<1>4. ASSUME NEW r \in Ranks PROVE RankInv(r)' /\ PlanInv(r)'
  BY <1>1 DEF RankInv, PlanInv, FromCreate, FromGather, FromDigest, FromBcast, FromBarrier, FromReduce
<1> QED BY <1>2, <1>3, <1>4 DEF RunInv

LEMMA NextInv == RunInv /\ [Next]_vars => RunInv'
<1> SUFFICES ASSUME RunInv, [Next]_vars PROVE RunInv'
  OBVIOUS
<1> USE DEF diskVars, argVars
<1>1. TypeOK'
  BY NextTypes
<1>2. CASE UNCHANGED vars
  BY <1>1, <1>2, Stays DEF vars
<1>3. ASSUME NEW r \in Ranks, RankStep(r) PROVE RunInv'
  <2>1. CASE \E f \in Files : CreateFails(r, f)
    BY <1>1, <2>1, Stays DEF CreateFails, Abort
  <2> QED BY <1>1, <1>3, <2>1, ListStep, PresenceStep, GatherStep, AdvanceStep, CreateStep, DownloadStep,
             ReceiveStep DEF RankStep
<1>4. ASSUME NEW r \in Ranks, StageFails(r) \/ Killed(r) PROVE RunInv'
  BY <1>1, <1>4, Stays DEF StageFails, Killed, Abort
<1>5. ASSUME NEW f \in Files, Replaced(f) PROVE RunInv'
  <2>1. \A g \in Files : blob[g] \in Nat /\ blob'[g] \in Nat /\ blob'[g] >= blob[g]
    <3>1. \A g \in Files : blob[g] \in Nat
      BY VersionNumbers DEF RunInv
    <3>2. \A g \in Files : blob'[g] = blob[g] \/ blob'[g] = blob[g] + 1
      BY <1>5 DEF Replaced, RunInv, TypeOK
    <3> QED BY <3>1, <3>2
  <2> QED BY <1>1, <1>5, <2>1, Aside DEF Replaced, workAndDisk
<1> QED BY <1>1, <1>2, <1>3, <1>4, <1>5, NextRunStep DEF Next, Terminated

LEMMA RunInvAlways == Spec => []RunInv
BY InitInv, NextInv, PTL DEF Spec

------------------------------------------------------------------------------
(* What follows for whoever reads the files afterwards.                     *)

LEMMA SameContent ==
  ASSUME NEW f \in Files, NEW c \in Content(f), NEW d \in Content(f),
         \A i \in 1 .. NumShards[f] : c[i] = d[i]
  PROVE  c = d
<1>1. c = [i \in 1 .. NumShards[f] |-> c[i]] /\ d = [i \in 1 .. NumShards[f] |-> d[i]]
  BY DEF Content
<1> QED BY <1>1

(* A rank that is through with the broadcast has nothing left to do, and    *)
(* every file it lacked.                                                    *)
LEMMA WorkDone ==
  ASSUME RunInv, NEW r \in Ranks, pc[r] \in FromDigest
  PROVE  /\ Planned(r) /\ creates[r] = {} /\ downloads[r] = {} /\ receives[r] = {} /\ ~dl_failed[r]
         /\ \A f \in FilesToCreate(r) : local[r][f] # NoFile /\ local[r][f] \in Content(f)
<1>1. Planned(r) /\ creates[r] = {} /\ downloads[r] = {} /\ receives[r] = {} /\ ~dl_failed[r]
  BY DEF RunInv, RankInv, PlanInv, FromDigest, FromBcast, FromBarrier, FromReduce, FromCreate, FromGather,
         StageNames
<1>2. \A f \in FilesToCreate(r) : local[r][f] # NoFile /\ f \in Files
  BY <1>1, RankFacts DEF Planned, FilesToCreate, PlanFiles
<1> QED BY <1>1, <1>2 DEF RunInv, TypeOK

(* What is downloaded is at least as new as listed where it was downloaded, *)
(* and on every rank what the owner of the shard has.                       *)
LEMMA Delivered ==
  ASSUME RunInv, \A r \in Ranks : pc[r] \in FromDigest, NEW f \in PlanFiles
  PROVE  IF f \in NeedsDownload THEN Fresh(f)
         ELSE \A r \in Ranks \ Havers(f) : local[r][f] = local[FirstHaver(f)][f]
<1>1. f \in Files /\ f \in Entries /\ TypeOK
  BY RankFacts DEF PlanFiles, RunInv
<1>2. \A r \in Ranks \ Havers(f) : f \in FilesToCreate(r) /\ f \notin row[r]
  BY DEF Havers, FilesToCreate
<1>3. \A r \in Ranks \ Havers(f) : local[r][f] # NoFile /\ local[r][f] \in Content(f)
  BY <1>2, WorkDone
<1>4. \A i \in 1 .. NumShards[f] : /\ <<f, i>> \in PlanShards
                                   /\ ShardOwner(<<f, i>>) \in Ranks
  BY <1>1, ShardFacts, Owners DEF PlanShards
<1>5. ASSUME NEW r \in Ranks \ Havers(f), NEW i \in 1 .. NumShards[f]
      PROVE  local[r][f][i] = local[ShardOwner(<<f, i>>)][f][i]
  <2>1. CASE ShardOwner(<<f, i>>) = r
    BY <2>1
  <2>2. CASE ShardOwner(<<f, i>>) # r
    <3>1. <<f, i>> \in Arriving(r)
      BY <1>2, <1>4, <2>2 DEF Arriving
    <3> QED BY <3>1, WorkDone DEF Planned, Value
  <2> QED BY <2>1, <2>2
<1>6. CASE f \in NeedsDownload
  <2>1. Havers(f) = {}
    BY <1>6 DEF NeedsDownload
  <2>2. \A i \in 1 .. NumShards[f] : \A r \in Ranks : local[r][f][i] >= entries[f]
    <3> SUFFICES ASSUME NEW i \in 1 .. NumShards[f], NEW r \in Ranks
                 PROVE  local[r][f][i] >= entries[f]
      OBVIOUS
    <3> DEFINE o == ShardOwner(<<f, i>>)
    <3>1. <<f, i>> \in MyRanges(o) /\ o \in Ranks
      BY <1>1, <1>4, <1>6, Owners
    <3>2. local[o][f][i] >= entries[f]
      BY <3>1, WorkDone DEF Planned, Value
    <3> QED BY <1>5, <2>1, <3>2
  <2>3. ASSUME NEW r \in Ranks PROVE local[r][f] = local[0][f]
    <3>1. \A i \in 1 .. NumShards[f] : local[r][f][i] = local[0][f][i]
      BY <1>5, <2>1, RankFacts
    <3> QED BY <1>1, <1>3, <2>1, <3>1, RankFacts, SameContent
  <2> QED BY <1>3, <1>6, <2>1, <2>2, <2>3 DEF Fresh
<1>7. CASE f \notin NeedsDownload
  <2>1. \A i \in 1 .. NumShards[f] : ShardOwner(<<f, i>>) = FirstHaver(f)
    BY <1>7 DEF ShardOwner
  <2>2. local[FirstHaver(f)][f] \in Content(f)
    <3>1. FirstHaver(f) \in Ranks /\ f \in row[FirstHaver(f)]
      <4>1. 1 \in 1 .. NumShards[f]
        BY <1>1, ClusterRunAssumption
      <4> QED BY <1>1, <1>4, <1>7, <2>1, <4>1, Owners
    <3>2. local[FirstHaver(f)][f] # NoFile
      BY <3>1 DEF RunInv, RankInv
    <3> QED BY <1>1, <3>1, <3>2 DEF TypeOK
  <2>3. ASSUME NEW r \in Ranks \ Havers(f) PROVE local[r][f] = local[FirstHaver(f)][f]
    <3>1. \A i \in 1 .. NumShards[f] : local[r][f][i] = local[FirstHaver(f)][f][i]
      BY <1>5, <2>1
    <3> QED BY <1>1, <1>3, <2>2, <3>1, SameContent
  <2> QED BY <1>7, <2>3
<1> QED BY <1>6, <1>7

(* What the ranks keep, on their disks and in flight, has the types that    *)
(* the stages of main.rs rely on.                                           *)
THEOREM ClusterTypeCorrect == Spec => []TypeOK
<1>1. RunInv => TypeOK
  BY DEF RunInv
<1> QED BY <1>1, RunInvAlways, PTL

(* No rank broadcasts, or goes on from there, while another still downloads *)
(* or has failed to: the barrier of main.rs, and the error return before it.*)
THEOREM DownloadsPrecedeBroadcastAlways == Spec => []DownloadsPrecedeBroadcast
<1>1. ASSUME RunInv PROVE DownloadsPrecedeBroadcast
  <2>1. ASSUME NEW q \in Ranks, Reached(q, "bcast"), NEW r \in Ranks
        PROVE  downloads[r] = {} /\ ~dl_failed[r]
    <3>1. pc[q] \in FromBcast
      BY <1>1, <2>1, ReachedIs DEF RunInv
    <3>2. pc[r] \in FromBarrier
      BY <1>1, <3>1 DEF RunInv, Barriers
    <3> QED BY <1>1, <3>2 DEF RunInv, RankInv, FromBarrier, FromReduce
  <2> QED BY <2>1 DEF DownloadsPrecedeBroadcast
<1> QED BY <1>1, RunInvAlways, PTL

(* A file a rank reported as present is not written on that rank in the     *)
(* same run, whatever becomes of the run: what is created, downloaded and   *)
(* received there is of the plan, and the plan leaves the file out.         *)
THEOREM PresentFilesKeptAlways == Spec => PresentFilesKept
<1> DEFINE Kept == \A r \in Ranks, f \in Files :
                     (f \in row[r] /\ runs' = runs) => local'[r][f] = local[r][f]
<1>1. ASSUME RunInv, [Next]_vars PROVE Kept
  <2> USE DEF RunInv
  <2>1. CASE local' = local
    BY <2>1
  <2>2. ASSUME NEW q \in Ranks, NEW g \in Files, CreateFile(q, g) PROVE Kept
    <3>1. pc[q] \in FromCreate /\ g \in creates[q]
      BY <2>2 DEF CreateFile, FromCreate, FromGather, StageNames
    <3>2. g \notin row[q]
      BY <1>1, <3>1 DEF PlanInv, Planned, FilesToCreate
    <3>3. \A r \in Ranks, f \in Files : (r # q \/ f # g) => local'[r][f] = local[r][f]
      BY <2>2 DEF CreateFile, TypeOK
    <3> QED BY <3>2, <3>3
  <2>3. ASSUME NEW q \in Ranks, NEW s \in Shards, s[1] \notin row[q],
               NEW v, local' = [local EXCEPT ![q][s[1]][s[2]] = v]
        PROVE  Kept
    <3>1. \A r \in Ranks, f \in Files : (r # q \/ f # s[1]) => local'[r][f] = local[r][f]
      BY <2>3 DEF TypeOK
    <3> QED BY <2>3, <3>1
  <2>4. ASSUME NEW q \in Ranks, NEW s \in Shards, DownloadShard(q, s) PROVE Kept
    <3>1. pc[q] \in FromCreate /\ s \in downloads[q]
      BY <2>4 DEF DownloadShard, FromCreate, FromGather, StageNames
    <3>2. s[1] \in NeedsDownload
      BY <1>1, <3>1 DEF PlanInv, Planned, MyRanges
    <3>3. s[1] \notin row[q]
      BY <3>2 DEF NeedsDownload, Havers
    <3> QED BY <2>1, <2>3, <2>4, <3>3 DEF DownloadShard
  <2>5. ASSUME NEW q \in Ranks, NEW s \in Shards, Receive(q, s) PROVE Kept
    <3>1. pc[q] \in FromCreate /\ s \in receives[q]
      BY <2>5 DEF Receive, FromCreate, FromGather, StageNames
    <3>2. s[1] \notin row[q]
      BY <1>1, <3>1 DEF PlanInv, Planned, Arriving
    <3> QED BY <2>3, <2>5, <3>2 DEF Receive
  <2>6. ASSUME NEW q \in Ranks, RankStep(q) PROVE Kept
    <3>1. ASSUME List(q) \/ Presence(q) \/ Gather(q) \/ EndCreate(q) \/ EndDownload(q) \/ Reduce(q)
                 \/ Barrier(q) \/ EndBcast(q) \/ Digest(q) \/ Compare(q) \/ Save(q)
                 \/ \E f \in Files : CreateFails(q, f)
          PROVE  local' = local
      BY <3>1 DEF List, Presence, Gather, EndCreate, EndDownload, Reduce, Barrier, EndBcast, Digest,
                  Compare, Save, CreateFails, diskVars
    <3> QED BY <2>1, <2>2, <2>4, <2>5, <2>6, <3>1 DEF RankStep
  <2>7. ASSUME NEW q \in Ranks, StageFails(q) \/ Killed(q) PROVE Kept
    BY <2>1, <2>7 DEF StageFails, Killed, diskVars
  <2>8. ASSUME NEW f \in Files, Replaced(f) PROVE Kept
    BY <2>1, <2>8 DEF Replaced, diskVars
  <2>9. CASE NextRun \/ UNCHANGED vars
    BY <2>1, <2>9 DEF NextRun, vars, diskVars
  <2> QED BY <1>1, <2>6, <2>7, <2>8, <2>9 DEF Next, Terminated
<1>2. RunInv /\ [Next]_vars => [Kept]_vars
  BY <1>1
<1> HIDE DEF Kept
<1>3. Spec => [][Kept]_vars
  BY <1>2, RunInvAlways, PTL DEF Spec
<1> QED BY <1>3 DEF PresentFilesKept, Kept

(* After a run in which every rank exits, what some rank lacked is on all   *)
(* of them, from the one the plan names: downloaded at least as new as the  *)
(* list says, or as the first rank that had it has it.                      *)
THEOREM TransfersCompleteAlways == Spec => []TransfersComplete
<1>1. ASSUME RunInv PROVE TransfersComplete
  <2>1. ASSUME Success, NEW f \in PlanFiles
        PROVE  IF f \in NeedsDownload THEN Fresh(f)
               ELSE \A r \in Ranks \ Havers(f) : local[r][f] = local[FirstHaver(f)][f]
    <3>1. \A r \in Ranks : pc[r] \in FromDigest
      BY <2>1 DEF Success, FromDigest, FromBcast, FromBarrier, FromReduce, FromCreate, FromGather, StageNames
    <3> QED BY <1>1, <3>1, Delivered
  <2> QED BY <2>1 DEF TransfersComplete
<1> QED BY <1>1, RunInvAlways, PTL

(* When rank 0 has ended a run with --verify, all ranks hold the same files,*)
(* even those that are killed after it: digests are compared before any     *)
(* rank saves its list or exits, and no file is written from then on.       *)
THEOREM VerifiedListSharedAlways == Spec => []VerifiedListShared
<1>1. ASSUME RunInv PROVE VerifiedListShared
  <2>1. ASSUME pc[0] = "exit", verify, NEW f \in Entries
        PROVE  /\ \A r \in Ranks : local[r][f] = local[0][f]
               /\ f \in NeedsDownload => Fresh(f)
    <3>1. pc[0] \in FromSave
      BY <2>1 DEF FromSave, FromCompare, FromDigest, FromBcast, FromBarrier, FromReduce, FromCreate,
                  FromGather, StageNames
    <3>2. \A r \in Ranks : pc[r] \in FromDigest
      BY <1>1, <2>1, <3>1, RankFacts DEF RunInv, Barriers, FromCompare
    <3>3. f \in NeedsDownload => f \in PlanFiles
      BY <2>1, RankFacts DEF NeedsDownload, PlanFiles
    <3> QED BY <1>1, <2>1, <3>1, <3>2, <3>3, Delivered DEF RunInv, Verified
  <2> QED BY <2>1 DEF VerifiedListShared
<1> QED BY <1>1, RunInvAlways, PTL

------------------------------------------------------------------------------
(* A run without failures on disks that hold nothing but listed files ends  *)
(* well.  What could still end it is a file in the way of another, which    *)
(* the list of Entries rules out, and a difference between ranks, which     *)
(* takes more: two ranks that both have a file have it alike, from earlier  *)
(* runs that ended well too.                                                *)
Clean == faults = 0 /\ \A r \in Ranks, f \in Files \ Entries : local[r][f] = NoFile

PresentAgree == \A r, q \in Ranks : \A f \in row[r] \cap row[q] : local[r][f] = local[q][f]

DisksAgree ==
  \A r, q \in Ranks, f \in Files :
    /\ pc[r] \notin FromCreate /\ pc[q] \notin FromCreate
    /\ local[r][f] # NoFile /\ local[q][f] # NoFile
    => local[r][f] = local[q][f]

NothingFailed == ~aborted /\ dead = {} /\ \A r \in Ranks : ~dl_failed[r]

CleanInv == Clean => NothingFailed /\ PresentAgree /\ DisksAgree

(* No listed file is where another needs a directory.                       *)
LEMMA NoneInTheWay ==
  ASSUME Clean, NEW r \in Ranks, NEW f \in Entries
  PROVE  ~InTheWay(r, f)
<1> SUFFICES ASSUME NEW g \in Files, local[r][g] # NoFile, f \in Parents(g) \/ g \in Parents(f)
             PROVE  FALSE
  BY DEF InTheWay
<1>1. g \in Entries
  BY DEF Clean
<1> DEFINE names == {h \in Files \ Commented : ~IsDirectoryMarker(h)}
<1>2. Entries = names \ UNION {Parents(h) : h \in names}
  BY DEF Entries, DropImplicitDirectories
<1> HIDE DEF names
<1>3. f \in names /\ g \in names
  BY <1>1, <1>2
<1>4. f \notin Parents(g) /\ g \notin Parents(f)
  BY <1>1, <1>2, <1>3
<1> QED BY <1>4

(* Once all ranks are through with the broadcast, they hold the same.       *)
LEMMA HeldAlike ==
  ASSUME RunInv, PresentAgree, \A r \in Ranks : pc[r] \in FromDigest,
         NEW f \in Entries, NEW r \in Ranks, NEW q \in Ranks
  PROVE  local[r][f] = local[q][f]
<1>1. CASE f \notin PlanFiles
  <2>1. f \in row[r] \cap row[q]
    BY <1>1 DEF PlanFiles, Havers
  <2> QED BY <2>1 DEF PresentAgree
<1>2. CASE f \in PlanFiles /\ f \in NeedsDownload
  <2>1. Fresh(f)
    BY <1>2, Delivered
  <2> QED BY <2>1 DEF Fresh
<1>3. CASE f \in PlanFiles /\ f \notin NeedsDownload
  <2>1. Havers(f) # {} /\ Havers(f) \in SUBSET Nat
    BY <1>3, RankFacts DEF NeedsDownload, Havers
  <2>2. \E h \in Havers(f) : \A k \in Havers(f) : h <= k
    BY <2>1, LeastOfNaturals
  <2>3. FirstHaver(f) \in Havers(f)
    BY <2>2 DEF FirstHaver
  <2>4. ASSUME NEW p \in Ranks PROVE local[p][f] = local[FirstHaver(f)][f]
    <3>1. CASE p \in Havers(f)
      BY <2>3, <3>1 DEF Havers, PresentAgree
    <3>2. CASE p \notin Havers(f)
      BY <1>3, <3>2, Delivered
    <3> QED BY <3>1, <3>2
  <2> QED BY <2>4
<1> QED BY <1>1, <1>2, <1>3

LEMMA InitClean == Init => CleanInv
<1> SUFFICES ASSUME Init PROVE CleanInv
  OBVIOUS
<1>1. PresentAgree /\ NothingFailed
  BY DEF Init, PresentAgree, NothingFailed
<1>2. DisksAgree
  BY DEF Init, DisksAgree
<1> QED BY <1>1, <1>2 DEF CleanInv

(* Steps that write no file, report none and fail nothing.                  *)
LEMMA QuietClean ==
  ASSUME CleanInv, UNCHANGED <<local, row, dl_failed, dead, aborted>>, faults' = 0 => faults = 0,
         \A r \in Ranks : pc'[r] \notin FromCreate => pc[r] \notin FromCreate
  PROVE  CleanInv'
<1>1. Clean' => Clean
  BY DEF Clean
<1>2. NothingFailed => NothingFailed'
  BY DEF NothingFailed
<1>3. PresentAgree => PresentAgree'
  BY DEF PresentAgree
<1>4. DisksAgree => DisksAgree'
  BY DEF DisksAgree
<1> QED BY <1>1, <1>2, <1>3, <1>4 DEF CleanInv

(* A rank that goes on to another stage does not go back to one before the  *)
(* allgather.                                                               *)
LEMMA AdvanceClean ==
  ASSUME RunInv, CleanInv, NEW r \in Ranks,
         List(r) \/ Gather(r) \/ EndCreate(r) \/ (EndDownload(r) /\ ~dl_failed[r]) \/ Reduce(r)
         \/ Barrier(r) \/ EndBcast(r) \/ Digest(r) \/ (Compare(r) /\ ~(r = 0 /\ Diverged)) \/ Save(r)
  PROVE  CleanInv'
<1>1. /\ UNCHANGED <<local, row, dl_failed, dead, aborted>>
      /\ faults' = faults \/ faults' = faults + 1
  BY DEF List, Gather, EndCreate, EndDownload, Reduce, Barrier, EndBcast, Digest, Compare, Save,
         diskVars, workVars, faultVars
<1>2. faults' = 0 => faults = 0
  <2>1. faults \in Nat
    BY ClusterRunAssumption DEF RunInv, TypeOK
  <2> QED BY <1>1, <2>1
<1>3. \E t \in StageNames : /\ pc' = [pc EXCEPT ![r] = t]
                            /\ t \notin FromCreate => pc[r] \notin FromCreate
  BY DEF List, Gather, EndCreate, EndDownload, Reduce, Barrier, EndBcast, Digest, Compare, Save,
         Advance, FromCreate, FromGather, StageNames
<1>4. \A q \in Ranks : pc'[q] \notin FromCreate => pc[q] \notin FromCreate
  BY <1>3 DEF RunInv, TypeOK
<1> QED BY <1>1, <1>2, <1>4, QuietClean

(* A rank reports a file it has; the others that have it, have it alike,    *)
(* and none has begun to write.                                             *)
LEMMA PresenceClean ==
  ASSUME RunInv, RunInv', CleanInv, NEW r \in Ranks, Presence(r)
  PROVE  CleanInv'
<1>1. /\ UNCHANGED <<local, dl_failed, dead, aborted, faults>> /\ pc[r] = "presence"
      /\ pc' = [pc EXCEPT ![r] = "gather"]
      /\ row' = [row EXCEPT ![r] = {f \in Entries : Present(r, f)}]
  BY DEF Presence, Advance, diskVars, workVars, faultVars
<1>2. \A q \in Ranks : pc[q] \notin FromCreate
  <2>1. pc[r] \notin FromGather
    BY <1>1 DEF FromGather
  <2> QED BY <2>1, BeforeGather
<1>3. Clean' => NothingFailed /\ DisksAgree
  BY <1>1 DEF Clean, CleanInv
<1>4. NothingFailed => NothingFailed'
  BY <1>1 DEF NothingFailed
<1>5. DisksAgree => DisksAgree'
  BY <1>1, <1>2 DEF DisksAgree
<1>6. DisksAgree => PresentAgree'
  <2>1. \A q \in Ranks : \A f \in row'[q] : f \in Files /\ local[q][f] # NoFile
    BY <1>1, RankFacts DEF RunInv, RankInv
  <2> QED BY <1>1, <1>2, <2>1 DEF DisksAgree, PresentAgree
<1> QED BY <1>3, <1>4, <1>5, <1>6 DEF CleanInv

(* A rank writes only files it has not reported, and after the allgather.   *)
LEMMA FileWrittenClean ==
  ASSUME RunInv, CleanInv, NEW r \in Ranks, NEW f \in Files, pc[r] \in FromCreate, f \notin row[r],
         UNCHANGED <<pc, row, dead, aborted>>, faults' = 0 => faults = 0 /\ dl_failed' = dl_failed,
         \A q \in Ranks, g \in Files : (q # r \/ g # f) => local'[q][g] = local[q][g],
         local[r][f] # NoFile => local'[r][f] # NoFile
  PROVE  CleanInv'
<1>1. Clean' => Clean /\ dl_failed' = dl_failed
  BY DEF Clean
<1>2. NothingFailed /\ dl_failed' = dl_failed => NothingFailed'
  BY DEF NothingFailed
<1>3. PresentAgree => PresentAgree'
  <2>1. row \in [Ranks -> SUBSET Files]
    BY DEF RunInv, TypeOK
  <2>2. \A q \in Ranks : \A g \in row[q] : local'[q][g] = local[q][g]
    BY <2>1
  <2> QED BY <2>2 DEF PresentAgree
<1>4. DisksAgree => DisksAgree'
  <2>1. \A q \in Ranks : pc[q] \notin FromCreate => \A g \in Files : local'[q][g] = local[q][g]
    OBVIOUS
  <2> QED BY <2>1 DEF DisksAgree
<1> QED BY <1>1, <1>2, <1>3, <1>4 DEF CleanInv

LEMMA ShardWrittenClean ==
  ASSUME RunInv, CleanInv, NEW r \in Ranks, NEW s \in Shards, NEW v \in {Hole} \cup Versions,
         local' = [local EXCEPT ![r][s[1]][s[2]] = v], pc[r] \in FromCreate, s[1] \notin row[r],
         UNCHANGED <<pc, row, dead, aborted, dl_failed, faults>>
  PROVE  CleanInv'
<1>1. TypeOK /\ s[1] \in Files
  BY ShardFacts DEF RunInv
<1>2. /\ \A q \in Ranks, g \in Files : local[q][g] # NoFile <=> local'[q][g] # NoFile
      /\ \A q \in Ranks, g \in Files : (q # r \/ g # s[1]) => local'[q][g] = local[q][g]
  BY <1>1, ShardWritten
<1> QED BY <1>1, <1>2, FileWrittenClean

LEMMA WorkClean ==
  ASSUME RunInv, CleanInv, NEW r \in Ranks,
         \/ \E f \in Files : CreateFile(r, f)
         \/ \E s \in Shards : DownloadShard(r, s) \/ Receive(r, s)
  PROVE  CleanInv'
<1>1. TypeOK /\ faults \in Nat
  BY ClusterRunAssumption DEF RunInv, TypeOK
<1>2. ASSUME NEW f \in Files, CreateFile(r, f) PROVE CleanInv'
  <2>1. /\ pc[r] \in FromCreate /\ f \in creates[r]
        /\ UNCHANGED <<pc, row, dead, aborted, faults, dl_failed>>
    BY <1>2 DEF CreateFile, faultVars, FromCreate, FromGather, StageNames
  <2>2. f \notin row[r]
    BY <2>1 DEF RunInv, PlanInv, Planned, FilesToCreate
  <2>3. local' = [local EXCEPT ![r][f] = Filled(f, Hole)]
    BY <1>2 DEF CreateFile
  <2>4. /\ \A q \in Ranks, g \in Files : (q # r \/ g # f) => local'[q][g] = local[q][g]
        /\ local'[r][f] = Filled(f, Hole)
    BY <1>1, <2>3 DEF TypeOK
  <2> QED BY <2>1, <2>2, <2>4, ShardFacts, FileWrittenClean
<1>3. ASSUME NEW s \in Shards, DownloadShard(r, s) PROVE CleanInv'
  <2>1. /\ pc[r] \in FromCreate /\ s \in downloads[r] /\ s[1] \in Files
        /\ UNCHANGED <<pc, row, dead, aborted>>
    BY <1>3, ShardFacts DEF DownloadShard, FromCreate, FromGather, StageNames
  <2>2. s[1] \notin row[r]
    BY <2>1 DEF RunInv, PlanInv, Planned, MyRanges, NeedsDownload, Havers
  <2>3. blob[s[1]] \in Versions
    BY <1>1, <2>1, VersionNumbers
  <2>4. CASE local' = [local EXCEPT ![r][s[1]][s[2]] = blob[s[1]]]
             /\ UNCHANGED <<dl_failed, faults>>
    BY <2>1, <2>2, <2>3, <2>4, ShardWrittenClean
  <2>5. CASE faults' = faults + 1 /\ UNCHANGED local
    <3>1. faults' # 0
      BY <1>1, <2>5
    <3> QED BY <3>1 DEF CleanInv, Clean
  <2> QED BY <1>3, <2>4, <2>5 DEF DownloadShard
<1>4. ASSUME NEW s \in Shards, Receive(r, s) PROVE CleanInv'
  <2>1. /\ pc[r] \in FromBcast /\ pc[r] \in FromCreate /\ s \in receives[r] /\ s[1] \in Files
        /\ UNCHANGED <<pc, row, dead, aborted, faults, dl_failed>>
    BY <1>4, ShardFacts DEF Receive, faultVars, FromBcast, FromBarrier, FromReduce, FromCreate,
                            FromGather, StageNames
  <2>2. s \in Arriving(r) /\ s[1] \notin row[r]
    BY <2>1 DEF RunInv, PlanInv, Planned, Arriving
  <2>3. Value(ShardOwner(s), s) \in {Hole} \cup Versions
    BY <2>1, <2>2, OwnerHas
  <2>4. local' = [local EXCEPT ![r][s[1]][s[2]] = Value(ShardOwner(s), s)]
    BY <1>4 DEF Receive, Value
  <2> QED BY <2>1, <2>2, <2>3, <2>4, ShardWrittenClean
<1> QED BY <1>2, <1>3, <1>4

(* The steps that end a job do not happen in a clean run, or make it one    *)
(* that is not.                                                             *)
LEMMA AbortClean ==
  ASSUME RunInv, CleanInv, NEW r \in Ranks,
         \/ \E f \in Files : CreateFails(r, f)
         \/ EndDownload(r) /\ dl_failed[r]
         \/ Compare(r) /\ r = 0 /\ Diverged
         \/ StageFails(r) \/ Killed(r)
  PROVE  CleanInv'
<1>1. UNCHANGED local /\ (faults' = faults \/ faults' = faults + 1) /\ faults \in Nat
  BY ClusterRunAssumption
     DEF CreateFails, EndDownload, Compare, StageFails, Killed, diskVars, RunInv, TypeOK
<1> SUFFICES ASSUME Clean' PROVE FALSE
  BY DEF CleanInv
<1>2. Clean /\ faults' = faults
  BY <1>1 DEF Clean
<1>3. NothingFailed /\ PresentAgree
  BY <1>2 DEF CleanInv
<1>4. ASSUME NEW f \in Files, CreateFails(r, f) PROVE FALSE
  <2>1. pc[r] \in FromCreate /\ f \in creates[r] /\ InTheWay(r, f)
    BY <1>4 DEF CreateFails, FromCreate, FromGather, StageNames
  <2>2. f \in Entries
    BY <2>1 DEF RunInv, PlanInv, Planned, FilesToCreate, PlanFiles
  <2> QED BY <1>2, <2>1, <2>2, NoneInTheWay
<1>5. ~dl_failed[r] /\ ~aborted
  BY <1>3 DEF NothingFailed
<1>6. ASSUME Compare(r), Diverged PROVE FALSE
  <2>1. \A q \in Ranks : pc[q] \in FromDigest
    BY <1>6, ReachedIs DEF RunInv, Compare, FromCompare
  <2> QED BY <1>3, <1>6, <2>1, HeldAlike, RankFacts DEF Diverged
<1>7. ~StageFails(r)
  BY <1>1, <1>2 DEF StageFails
<1> QED BY <1>4, <1>5, <1>6, <1>7 DEF Killed

(* When a clean run is over every rank has ended it well.                   *)
LEMMA NextRunClean ==
  ASSUME RunInv, CleanInv, NextRun
  PROVE  CleanInv'
<1>1. /\ UNCHANGED <<local, faults>> /\ ~aborted' /\ dead' = {}
      /\ \A r \in Ranks : ~dl_failed'[r] /\ row'[r] = {}
      /\ \A r \in Ranks : Ended(r)
  BY DEF NextRun, diskVars, RunOver
<1>2. NothingFailed' /\ PresentAgree'
  BY <1>1 DEF NothingFailed, PresentAgree
<1>3. ASSUME Clean PROVE DisksAgree'
  <2>1. PresentAgree /\ \A r \in Ranks : pc[r] \in FromDigest
    BY <1>1, <1>3 DEF CleanInv, NothingFailed, Ended, FromDigest, FromBcast, FromBarrier, FromReduce,
                      FromCreate, FromGather, StageNames
  <2>2. ASSUME NEW r \in Ranks, NEW q \in Ranks, NEW f \in Files, local[r][f] # NoFile
        PROVE  local[r][f] = local[q][f]
    <3>1. f \in Entries
      BY <1>3, <2>2 DEF Clean
    <3> QED BY <2>1, <3>1, HeldAlike
  <2> QED BY <1>1, <2>2 DEF DisksAgree
<1>4. Clean' => Clean
  BY <1>1 DEF Clean
<1> QED BY <1>2, <1>3, <1>4 DEF CleanInv

LEMMA NextClean ==
  ASSUME RunInv, RunInv', CleanInv, [Next]_vars
  PROVE  CleanInv'
<1>1. CASE UNCHANGED vars
  BY <1>1, QuietClean DEF vars, diskVars, workVars, faultVars
<1>2. ASSUME NEW r \in Ranks, RankStep(r) \/ StageFails(r) \/ Killed(r) PROVE CleanInv'
  <2>1. ASSUME EndDownload(r) \/ Compare(r) PROVE CleanInv'
    BY <2>1, AdvanceClean, AbortClean
  <2> QED BY <1>2, <2>1, AdvanceClean, PresenceClean, WorkClean, AbortClean DEF RankStep
<1>3. ASSUME NEW f \in Files, Replaced(f) PROVE CleanInv'
  BY <1>3, QuietClean DEF Replaced, diskVars, workVars, faultVars
<1> QED BY <1>1, <1>2, <1>3, NextRunClean DEF Next, Terminated

(* If no call fails and the disks hold nothing but listed files, no rank    *)
(* fails or aborts the job: no file of the list is in the way of another,   *)
(* whatever the blobs are called, and --verify finds no difference, however *)
(* many runs have been made before and whenever blobs were replaced.        *)
THEOREM NoSpuriousAbortAlways == Spec => []NoSpuriousAbort
<1>1. RunInv /\ RunInv' /\ CleanInv /\ [Next]_vars => CleanInv'
  BY NextClean
<1>2. CleanInv => NoSpuriousAbort
  BY DEF CleanInv, Clean, NothingFailed, NoSpuriousAbort
<1> QED BY InitClean, <1>1, <1>2, RunInvAlways, PTL DEF Spec
==============================================================================
