---------------------------- MODULE DownloadProofs ----------------------------
(***************************************************************************)
(* Downloads, for any files, versions, ranges, block sizes and permits,    *)
(* whatever fails and whenever a blob is replaced: permits are conserved,  *)
(* a file that is counted as downloaded is complete, one that is counted   *)
(* as failed has a reason, and nothing is written after the summary.       *)
(*                                                                         *)
(* The data of a file are followed from the requests to the disk (Data).   *)
(* A chunk brings units of one version the blob has had; where the chunks  *)
(* of a file meet, O_DIRECT pads the one before with zeros, which does no  *)
(* harm, because a chunk is written only where the next begins beyond its  *)
(* padding: both begin at multiples of the alignment.                      *)
(***************************************************************************)
EXTENDS Download, FiniteSetTheorems, SequenceTheorems, TLAPS

------------------------------------------------------------------------------
(* What is true of the call between its steps.                              *)
TaskStates ==
  {"none", "small", "get", "put", "create", "post", "ok", "err", "cancelled", "late"}
ChunkStates == {"none", "get", "write", "ok", "err"}
Units == {Hole} \cup (Nat \X Nat)
ChunkTasks == [state : ChunkStates, data : Seq(Units)]

ChunksOK ==
  /\ chunk = [f \in Files |-> chunk[f]]
  /\ \A f \in Files : chunk[f] \in [Chunks(f) -> ChunkTasks]
TypesOK ==
  /\ args \in Options
  /\ blob \in [Files -> Nat] /\ \A f \in Files : blob[f] \in DOMAIN Lengths[f]
  /\ local \in [Files -> Seq(Units)]
  /\ main \in {"loop", "returned", "error"}
  /\ task \in [Files -> TaskStates]
  /\ body \in [Files -> Seq(Units)]
  /\ ChunksOK
  /\ file_permits \in Int /\ chunk_permits \in Int
  /\ succeeded \subseteq Files /\ failed \subseteq Files
  /\ faults \in Nat

(* The step of the task of one chunk.                                       *)
ChunkTo(f, c, r) == chunk' = [chunk EXCEPT ![f][c] = r]

(* No chunk of f is with a task.                                            *)
Idle(f) == \A c \in Chunks(f) : ~HoldsPermit(f, c)

(* Where a task is, its chunks and the summary.                             *)
Control(f) ==
  /\ task[f] \in {"none", "small", "get", "put", "create"} => Unspawned(f) = Chunks(f)
  /\ task[f] \in {"ok", "err"} => Idle(f)
  /\ task[f] \in {"small", "get", "put"} => Small(f)
  /\ task[f] \in {"create", "post"} => ~Small(f)
  /\ task[f] = "create" => args.api = "entries"
  /\ f \in succeeded => task[f] = "ok"
  /\ f \in failed => task[f] = "err"
  /\ task[f] \in {"late", "cancelled"} => main = "error"
  /\ main = "returned" => f \in succeeded \cup failed

(* The data of a chunk that is received and not written: what there was of  *)
(* it in a version the blob has had.                                        *)
Fetched(f, c, d) ==
  \E v \in VersionsSeen(f) :
    /\ Len(d) <= c.len /\ c.off + Len(d) <= Lengths[f][v]
    /\ Len(d) = c.len \/ c.off + Len(d) = Lengths[f][v]
    /\ \A i \in DOMAIN d : d[i] = <<v, c.off + i>>

(* Before a file is complete it holds nothing but holes and units in their  *)
(* places, and the chunks that are written have none but the holes a        *)
(* shorter version leaves.                                                  *)
Prepared(f) == task[f] = "post" \/ (args.api = "ranges" /\ task[f] = "none")
Within(c, p) == c.off < p /\ p <= c.off + c.len
Filled(f, file, tasks) ==
  /\ Len(file) >= Size(f)
  /\ ~args.direct => Len(file) = Size(f)
  /\ \A p \in DOMAIN file : file[p] = Hole \/ UnitSeen(f, p, file[p])
  /\ \A c \in Chunks(f) : tasks[c].state = "ok" =>
       \A p \in DOMAIN file : Within(c, p) => UnitSeen(f, p, file[p])

(* A file that is counted, or is about to be.                               *)
Complete(f, file) ==
  /\ \E v \in VersionsSeen(f) : Len(file) = Lengths[f][v]
  /\ \A i \in DOMAIN RangesOf(f) :
       \A p \in RangesOf(f)[i].off + 1 .. RangesOf(f)[i].off + RangesOf(f)[i].len :
         p <= Len(file) => UnitSeen(f, p, file[p])
  /\ f \in HasMd5 /\ args.check_md5 => file = Content(f, 1)

Data(f) ==
  /\ \A c \in Chunks(f) : chunk[f][c].state = "write" => Fetched(f, c, chunk[f][c].data)
  /\ \A c \in Chunks(f) : chunk[f][c].state = "ok" /\ args.direct => c.off % ALIGN = 0
  /\ task[f] = "put" =>
       (\E v \in VersionsSeen(f) : body[f] = Content(f, v)) /\ Md5Passes(f, body[f])
  /\ Prepared(f) => Filled(f, local[f], chunk[f])
  /\ task[f] = "ok" => Complete(f, local[f])

(* Nothing fails without a reason.                                          *)
Reason(f) == faults > 0 \/ blob[f] > 1 \/ (args.direct /\ block_size % ALIGN # 0)
Excused(f) ==
  /\ task[f] = "err" => Reason(f)
  /\ \A c \in Chunks(f) : chunk[f][c].state = "err" => Reason(f)

ControlInv == \A f \in Files : Control(f)
DataInv == \A f \in Files : Data(f)
ExcusedInv == \A f \in Files : Excused(f)
------------------------------------------------------------------------------
(* Sequences of units.                                                      *)
LEMMA FileFacts ==
  ASSUME NEW f \in Files
  PROVE  /\ Lengths[f] \in Seq(Nat) /\ Lengths[f] # <<>> /\ Size(f) \in Nat
         /\ 1 \in DOMAIN Lengths[f]
         /\ \A v \in DOMAIN Lengths[f] : v \in Nat /\ v >= 1 /\ Lengths[f][v] \in Nat
         /\ \A i \in DOMAIN MyRanges[f] :
              /\ MyRanges[f][i] \in [off : Nat, len : Nat]
              /\ MyRanges[f][i].off + MyRanges[f][i].len <= Size(f)
<1>1. Lengths[f] \in Seq(Nat) /\ Lengths[f] # <<>>
  BY DownloadAssumption
<1>2. /\ MyRanges[f] \in Seq([off : Nat, len : Nat])
      /\ \A i \in DOMAIN MyRanges[f] :
           MyRanges[f][i].off + MyRanges[f][i].len <= Lengths[f][1]
  BY DownloadAssumption
<1>3. \A i \in DOMAIN MyRanges[f] : MyRanges[f][i] \in [off : Nat, len : Nat]
  <2> DEFINE s == MyRanges[f]
             S == [off : Nat, len : Nat]
  <2>1. s \in Seq(S)
    BY <1>2
  <2> HIDE DEF s, S
  <2>2. \A i \in DOMAIN s : s[i] \in S
    BY <2>1
  <2> QED BY <2>2 DEF s, S
<1> QED BY <1>1, <1>2, <1>3 DEF Size

LEMMA UnitsAre == Hole \in Units /\ \A v, p \in Nat : <<v, p>> \in Units
BY DEF Units

LEMMA HolesFacts ==
  ASSUME NEW n \in Nat
  PROVE  Holes(n) \in Seq(Units) /\ Len(Holes(n)) = n /\ \A p \in 1 .. n : Holes(n)[p] = Hole
BY DEF Holes, Units

LEMMA ContentFacts ==
  ASSUME NEW f \in Files, NEW v \in DOMAIN Lengths[f]
  PROVE  /\ Content(f, v) \in Seq(Units) /\ Len(Content(f, v)) = Lengths[f][v]
         /\ \A p \in 1 .. Lengths[f][v] : Content(f, v)[p] = <<v, p>>
<1>1. v \in Nat /\ Lengths[f][v] \in Nat
  BY FileFacts
<1>2. \A p \in 1 .. Lengths[f][v] : <<v, p>> \in Units
  BY <1>1, UnitsAre
<1> QED BY <1>1, <1>2 DEF Content

LEMMA SubFacts ==
  ASSUME NEW s \in Seq(Units), NEW a \in Nat, NEW b \in Nat, b <= Len(s), a <= b
  PROVE  /\ SubSeq(s, a + 1, b) \in Seq(Units) /\ Len(SubSeq(s, a + 1, b)) = b - a
         /\ \A i \in 1 .. b - a : SubSeq(s, a + 1, b)[i] = s[a + i]
OBVIOUS

LEMMA SetLenFacts ==
  ASSUME NEW s \in Seq(Units), NEW n \in Nat
  PROVE  /\ SetLen(s, n) \in Seq(Units) /\ Len(SetLen(s, n)) = n
         /\ \A p \in 1 .. n : SetLen(s, n)[p] = IF p <= Len(s) THEN s[p] ELSE Hole
<1>1. \A p \in 1 .. n : (IF p <= Len(s) THEN s[p] ELSE Hole) \in Units
  BY UnitsAre
<1> QED BY <1>1 DEF SetLen

LEMMA OverwrittenFacts ==
  ASSUME NEW s \in Seq(Units), NEW d \in Seq(Units), NEW off \in Nat
  PROVE  LET new == Overwritten(s, d, off)
         IN /\ new \in Seq(Units)
            /\ Len(new) = IF off + Len(d) > Len(s) THEN off + Len(d) ELSE Len(s)
            /\ \A p \in DOMAIN new :
                 new[p] = IF off < p /\ p <= off + Len(d) THEN d[p - off]
                          ELSE IF p <= Len(s) THEN s[p] ELSE Hole
<1> DEFINE m == IF off + Len(d) > Len(s) THEN off + Len(d) ELSE Len(s)
           u(p) == IF off < p /\ p <= off + Len(d) THEN d[p - off]
                   ELSE IF p <= Len(s) THEN s[p] ELSE Hole
<1>1. m \in Nat /\ Overwritten(s, d, off) = [p \in 1 .. m |-> u(p)]
  BY DEF Overwritten
<1>2. \A p \in 1 .. m : u(p) \in Units
  BY UnitsAre
<1> HIDE DEF m, u
<1>3. /\ [p \in 1 .. m |-> u(p)] \in Seq(Units) /\ Len([p \in 1 .. m |-> u(p)]) = m
      /\ DOMAIN [p \in 1 .. m |-> u(p)] = 1 .. m
      /\ \A p \in 1 .. m : [q \in 1 .. m |-> u(q)][p] = u(p)
  BY <1>1, <1>2
<1> QED BY <1>1, <1>3 DEF m, u

------------------------------------------------------------------------------
(* Multiples.                                                               *)
LEMMA ProductMonotone ==
  ASSUME NEW p \in Nat, NEW q \in Nat, NEW b \in Nat, p <= q
  PROVE  p * b <= q * b
<1>1. q = p + (q - p) /\ q - p \in Nat
  OBVIOUS
<1>2. q * b = p * b + (q - p) * b
  BY <1>1
<1>3. (q - p) * b \in Nat /\ p * b \in Nat
  BY <1>1
<1> QED BY <1>2, <1>3

LEMMA Divided ==
  ASSUME NEW a \in Nat, NEW b \in Nat \ {0}
  PROVE  \E q \in Nat : a = q * b + (a % b) /\ a % b \in 0 .. b - 1 /\ q * b \in Nat
<1> DEFINE q == a \div b
<1>1. a = b * q + (a % b) /\ q \in Nat /\ a % b \in 0 .. b - 1
  OBVIOUS
<1> HIDE DEF q
<1>2. b * q = q * b /\ q * b \in Nat
  BY <1>1
<1>3. a = q * b + (a % b)
  BY <1>1, <1>2
<1> QED BY <1>1, <1>2, <1>3, Zenon

(* Between two multiples of b is no other number that leaves no remainder.  *)
LEMMA MultipleMod ==
  ASSUME NEW q \in Nat, NEW b \in Nat \ {0}
  PROVE  (q * b) % b = 0 /\ q * b \in Nat
<1> DEFINE n == q * b
<1>1. n \in Nat
  OBVIOUS
<1>2. PICK d \in Nat : n = d * b + (n % b) /\ n % b \in 0 .. b - 1 /\ d * b \in Nat
  BY <1>1, Divided
<1> HIDE DEF n
<1>3. CASE q <= d
  <2>1. n <= d * b
    BY <1>3, ProductMonotone DEF n
  <2> QED BY <1>1, <1>2, <2>1 DEF n
<1>4. CASE d + 1 <= q
  <2>1. (d + 1) * b <= n
    BY <1>4, ProductMonotone DEF n
  <2>2. (d + 1) * b = d * b + b
    OBVIOUS
  <2>3. FALSE
    BY <1>1, <1>2, <2>1, <2>2
  <2> QED BY <2>3
<1> QED BY <1>3, <1>4

LEMMA Multiple ==
  ASSUME NEW a \in Nat, NEW b \in Nat \ {0}, a % b = 0
  PROVE  \E q \in Nat : a = q * b
<1>1. PICK q \in Nat : a = q * b + (a % b) /\ q * b \in Nat
  BY Divided, Zenon
<1>2. a = q * b
  BY <1>1
<1> QED BY <1>2

(* Sums and products of multiples.                                          *)
LEMMA MultipleSum ==
  ASSUME NEW a \in Nat, NEW c \in Nat, NEW b \in Nat \ {0}, a % b = 0, c % b = 0
  PROVE  (a + c) % b = 0
<1>1. PICK p \in Nat : a = p * b
  BY Multiple
<1>2. PICK q \in Nat : c = q * b
  BY Multiple
<1>3. a + c = (p + q) * b /\ p + q \in Nat
  BY <1>1, <1>2
<1>4. ((p + q) * b) % b = 0
  BY <1>3, MultipleMod, Zenon
<1> QED BY <1>3, <1>4, Zenon

LEMMA MultipleOfMultiple ==
  ASSUME NEW a \in Nat, NEW b \in Nat \ {0}, NEW d \in Nat \ {0}, a % b = 0, b % d = 0
  PROVE  a % d = 0
<1>1. PICK p \in Nat : a = p * b
  BY Multiple
<1>2. PICK q \in Nat : b = q * d
  BY Multiple
<1>3. p * q \in Nat /\ a = (p * q) * d
  BY <1>1, <1>2
<1>4. ((p * q) * d) % d = 0
  BY <1>3, MultipleMod, Zenon
<1> QED BY <1>3, <1>4, Zenon

(* Two multiples less than b apart are one.                                 *)
LEMMA MultiplesApart ==
  ASSUME NEW a \in Nat, NEW c \in Nat, NEW b \in Nat \ {0}, a % b = 0, c % b = 0, a < c
  PROVE  a + b <= c
<1>1. PICK p \in Nat : a = p * b
  BY Multiple
<1>2. PICK q \in Nat : c = q * b
  BY Multiple
<1>3. CASE q <= p
  BY <1>1, <1>2, <1>3, ProductMonotone
<1>4. CASE p + 1 <= q
  <2>1. (p + 1) * b <= q * b
    BY <1>4, ProductMonotone
  <2>2. (p + 1) * b = p * b + b
    OBVIOUS
  <2> QED BY <1>1, <1>2, <2>1, <2>2
<1> QED BY <1>3, <1>4

LEMMA MultipleDifference ==
  ASSUME NEW a \in Nat, NEW c \in Nat, NEW b \in Nat \ {0}, a % b = 0, c % b = 0, a < c
  PROVE  (c - a) % b = 0 /\ c - a \in Nat
<1>1. PICK p \in Nat : a = p * b
  BY Multiple
<1>2. PICK q \in Nat : c = q * b
  BY Multiple
<1>3. p <= q
  <2>1. q <= p => q * b <= p * b
    BY ProductMonotone
  <2> QED BY <1>1, <1>2, <2>1
<1>4. q - p \in Nat /\ c - a = (q - p) * b
  BY <1>1, <1>2, <1>3
<1> QED BY <1>4, MultipleMod

(* n rounded up to a multiple of b is the least that is not below n.        *)
AlignedLen(n, b) == ((n + b - 1) \div b) * b
LEMMA RoundedUp ==
  ASSUME NEW n \in Nat, NEW b \in Nat \ {0}, NEW r, r = AlignedLen(n, b)
  PROVE  /\ r \in Nat /\ n <= r /\ r % b = 0
         /\ \A m \in Nat : n <= m /\ m % b = 0 => r <= m
<1> DEFINE x == n + b - 1
           d == x \div b
<1>0. r = d * b
  BY DEF AlignedLen
<1>1. x \in Nat
  OBVIOUS
<1>2. x = b * d + (x % b) /\ d \in Nat /\ x % b \in 0 .. b - 1
  BY <1>1
<1> HIDE DEF d
<1>3. b * d = r /\ r \in Nat
  BY <1>0, <1>2
<1>4. r % b = 0
  BY <1>0, <1>2, MultipleMod
<1>5. n <= r /\ r <= n + b - 1
  BY <1>2, <1>3
<1>6. ASSUME NEW m \in Nat, n <= m, m % b = 0, m < r PROVE FALSE
  <2>1. m + b <= r
    BY <1>3, <1>4, <1>6, MultiplesApart
  <2> QED BY <1>3, <1>5, <1>6, <2>1
<1>7. ASSUME NEW m \in Nat, n <= m, m % b = 0 PROVE r <= m
  <2>1. ~(m < r)
    BY <1>6, <1>7
  <2> QED BY <1>3, <2>1
<1> QED BY <1>3, <1>4, <1>5, <1>7

------------------------------------------------------------------------------
(* The chunks of a file.                                                    *)
LEMMA ArgsAre ==
  ASSUME TypesOK
  PROVE  /\ args.api \in {"entries", "ranges"} /\ args.direct \in BOOLEAN
         /\ args.check_md5 \in BOOLEAN /\ block_size \in Nat \ {0}
         /\ args.api = "ranges" => ~args.direct /\ ~args.check_md5
         /\ ALIGN \in Nat \ {0}
BY DownloadAssumption DEF TypesOK, block_size

LEMMA RangeFacts ==
  ASSUME TypesOK, NEW f \in Files, NEW i \in DOMAIN RangesOf(f)
  PROVE  /\ RangesOf(f)[i].off \in Nat /\ RangesOf(f)[i].len \in Nat
         /\ RangesOf(f)[i].off + RangesOf(f)[i].len <= Size(f)
         /\ args.api = "entries" => RangesOf(f)[i].off = 0 /\ RangesOf(f)[i].len = Size(f)
<1>1. CASE args.api = "ranges"
  <2>1. RangesOf(f) = MyRanges[f]
    BY <1>1 DEF RangesOf
  <2>2. /\ MyRanges[f][i] \in [off : Nat, len : Nat]
        /\ MyRanges[f][i].off + MyRanges[f][i].len <= Size(f)
    BY <2>1, FileFacts
  <2> QED BY <1>1, <2>1, <2>2
<1>2. CASE args.api = "entries"
  <2>1. RangesOf(f) = <<[off |-> 0, len |-> Size(f)]>> /\ i = 1
    BY <1>2 DEF RangesOf
  <2> QED BY <2>1, FileFacts
<1> QED BY <1>1, <1>2, ArgsAre

LEMMA ChunkFacts ==
  ASSUME TypesOK, NEW f \in Files, NEW c \in Chunks(f)
  PROVE  /\ c.off \in Nat /\ c.len \in 1 .. block_size /\ c.off + c.len <= Size(f)
         /\ args.api = "entries" =>
              /\ c.off % block_size = 0
              /\ c.len = block_size \/ c.off + c.len = Size(f)
<1>1. PICK i \in DOMAIN RangesOf(f) : c \in ChunksOfRange(f, i)
  BY DEF Chunks
<1> DEFINE r == RangesOf(f)[i]
<1>2. /\ r.off \in Nat /\ r.len \in Nat /\ r.off + r.len <= Size(f) /\ Size(f) \in Nat
      /\ args.api = "entries" => r.off = 0 /\ r.len = Size(f)
  BY RangeFacts, FileFacts
<1>3. block_size \in Nat \ {0}
  BY ArgsAre
<1>4. \E o \in r.off .. r.off + r.len - 1 : /\ (o - r.off) % block_size = 0
        /\ c = [range |-> i, off |-> o, len |-> Min2(block_size, r.off + r.len - o)]
  BY <1>1 DEF ChunksOfRange
<1> HIDE DEF r
<1>5. PICK o \in r.off .. r.off + r.len - 1 : /\ (o - r.off) % block_size = 0
        /\ c = [range |-> i, off |-> o, len |-> Min2(block_size, r.off + r.len - o)]
  BY <1>4
<1>6. /\ c.off = o /\ o \in Nat /\ r.off + r.len - o \in Nat \ {0} /\ o < r.off + r.len
      /\ c.len = Min2(block_size, r.off + r.len - o)
  BY <1>2, <1>5
<1>7. c.len \in 1 .. block_size /\ o + c.len <= r.off + r.len
      /\ (c.len = block_size \/ o + c.len = r.off + r.len)
  BY <1>2, <1>3, <1>6 DEF Min2
<1>8. args.api = "entries" => o % block_size = 0
  <2> SUFFICES ASSUME args.api = "entries" PROVE o % block_size = 0
    OBVIOUS
  <2>1. o - r.off = o
    BY <1>2, <1>6
  <2> QED BY <1>5, <2>1
<1> QED BY <1>2, <1>6, <1>7, <1>8

(* Every unit of a range is in one of its chunks.                           *)
LEMMA ChunksCover ==
  ASSUME TypesOK, NEW f \in Files, NEW i \in DOMAIN RangesOf(f),
         NEW p \in RangesOf(f)[i].off + 1 .. RangesOf(f)[i].off + RangesOf(f)[i].len
  PROVE  \E c \in Chunks(f) : Within(c, p)
<1> DEFINE r == RangesOf(f)[i]
<1>1. r.off \in Nat /\ r.len \in Nat /\ block_size \in Nat \ {0} /\ p \in Nat
      /\ r.off < p /\ p <= r.off + r.len
  BY RangeFacts, ArgsAre
<1> DEFINE x == p - 1 - r.off
<1>2. x \in Nat
  BY <1>1
<1> HIDE DEF r, x
<1>3. PICK q \in Nat : /\ x = q * block_size + (x % block_size) /\ q * block_size \in Nat
                       /\ x % block_size \in 0 .. block_size - 1
  BY <1>1, <1>2, Divided
<1> DEFINE o == r.off + q * block_size
           c == [range |-> i, off |-> o, len |-> Min2(block_size, r.off + r.len - o)]
<1>4. (q * block_size) % block_size = 0
  BY <1>1, MultipleMod
<1> DEFINE m == q * block_size
           z == x % block_size
<1>5. m \in Nat /\ z \in 0 .. block_size - 1 /\ x = m + z /\ o = r.off + m /\ m % block_size = 0
  BY <1>3, <1>4
<1> HIDE DEF m, z, o
<1>6. o \in r.off .. r.off + r.len - 1 /\ o - r.off = m /\ o < p /\ p <= o + block_size
      /\ p <= o + (r.off + r.len - o)
  BY <1>1, <1>2, <1>5 DEF x
<1>7. c \in ChunksOfRange(f, i)
  BY <1>5, <1>6 DEF ChunksOfRange, r
<1>8. c.off = o /\ c.len = Min2(block_size, r.off + r.len - o)
  OBVIOUS
<1>9. Within(c, p)
  BY <1>1, <1>6, <1>8 DEF Within, Min2
<1> QED BY <1>7, <1>9 DEF Chunks

(* What O_DIRECT writes after the data.                                     *)
LEMMA PaddedFacts ==
  ASSUME TypesOK, NEW d \in Seq(Units)
  PROVE  /\ Padded(d) \in Seq(Units) /\ Len(d) <= Len(Padded(d))
         /\ \A i \in 1 .. Len(Padded(d)) : Padded(d)[i] = IF i <= Len(d) THEN d[i] ELSE Hole
         /\ ~args.direct => Padded(d) = d
         /\ \A m \in Nat : args.direct /\ Len(d) <= m /\ m % ALIGN = 0 => Len(Padded(d)) <= m
<1>1. CASE ~args.direct
  BY <1>1 DEF Padded
<1>2. CASE args.direct
  <2> DEFINE n == AlignedLen(Len(d), ALIGN)
  <2>0. Len(d) \in Nat /\ ALIGN \in Nat \ {0}
    BY ArgsAre
  <2>1. /\ n \in Nat /\ Len(d) <= n
        /\ \A m \in Nat : Len(d) <= m /\ m % ALIGN = 0 => n <= m
    BY <2>0, RoundedUp
  <2> HIDE DEF n
  <2>2. /\ SetLen(d, n) \in Seq(Units) /\ Len(SetLen(d, n)) = n
        /\ \A p \in 1 .. n : SetLen(d, n)[p] = IF p <= Len(d) THEN d[p] ELSE Hole
    BY <2>1, SetLenFacts
  <2>3. Padded(d) = SetLen(d, n)
    BY <1>2 DEF Padded, AlignedLen, n
  <2> QED BY <1>2, <2>1, <2>2, <2>3
<1> QED BY <1>1, <1>2

(* Units of a version the blob has had, and later.                          *)
LEMMA SeenFacts ==
  ASSUME TypesOK, NEW f \in Files
  PROVE  /\ 1 \in VersionsSeen(f) /\ blob[f] \in VersionsSeen(f)
         /\ \A v \in VersionsSeen(f) : /\ v \in Nat /\ v \in DOMAIN Lengths[f]
                                       /\ Lengths[f][v] \in Nat
<1>1. blob[f] \in Nat /\ blob[f] \in DOMAIN Lengths[f]
  BY DEF TypesOK
<1>2. /\ Lengths[f] \in Seq(Nat) /\ blob[f] >= 1
      /\ \A v \in DOMAIN Lengths[f] : Lengths[f][v] \in Nat
  BY <1>1, FileFacts
<1>3. \A v \in 1 .. blob[f] : v \in Nat /\ v \in DOMAIN Lengths[f]
  BY <1>1, <1>2
<1> QED BY <1>1, <1>2, <1>3 DEF VersionsSeen

(* A chunk that is written leaves units of the blob, or the holes of a      *)
(* shorter version, in its place; and nothing else that was there is lost   *)
(* to another chunk that has been written.                                  *)
LEMMA WriteFills ==
  ASSUME TypesOK, NEW f \in Files, NEW c \in Chunks(f), NEW d \in Seq(Units), Fetched(f, c, d),
         args.direct => c.off % ALIGN = 0, Filled(f, local[f], chunk[f]),
         \A e \in Chunks(f) : chunk[f][e].state = "ok" /\ args.direct => e.off % ALIGN = 0,
         NEW new, new = Overwritten(local[f], Padded(d), c.off)
  PROVE  /\ new \in Seq(Units) /\ Len(new) >= Size(f)
         /\ ~args.direct => Len(new) = Size(f)
         /\ \A p \in DOMAIN new : new[p] = Hole \/ UnitSeen(f, p, new[p])
         /\ \A e \in Chunks(f) : e = c \/ chunk[f][e].state = "ok" =>
              \A p \in DOMAIN new : Within(e, p) => UnitSeen(f, p, new[p])
<1> DEFINE s == local[f]
           w == Padded(d)
<1>1. s \in Seq(Units) /\ Len(s) >= Size(f) /\ (~args.direct => Len(s) = Size(f)) /\ Size(f) \in Nat
  BY FileFacts DEF TypesOK, Filled
<1>2. /\ w \in Seq(Units) /\ Len(d) <= Len(w)
      /\ \A i \in 1 .. Len(w) : w[i] = IF i <= Len(d) THEN d[i] ELSE Hole
      /\ ~args.direct => w = d
      /\ \A m \in Nat : args.direct /\ Len(d) <= m /\ m % ALIGN = 0 => Len(w) <= m
  BY PaddedFacts
<1>3. /\ c.off \in Nat /\ c.len \in 1 .. block_size /\ c.off + c.len <= Size(f)
      /\ args.api = "entries" =>
           /\ c.off % block_size = 0 /\ (c.len = block_size \/ c.off + c.len = Size(f))
  BY ChunkFacts
<1>4. PICK v \in VersionsSeen(f) :
        /\ Len(d) <= c.len /\ c.off + Len(d) <= Lengths[f][v]
        /\ Len(d) = c.len \/ c.off + Len(d) = Lengths[f][v]
        /\ \A i \in DOMAIN d : d[i] = <<v, c.off + i>>
  BY DEF Fetched
<1>5. v \in Nat /\ Lengths[f][v] \in Nat
  BY SeenFacts
<1> HIDE DEF w, s
<1>6. /\ new \in Seq(Units)
      /\ Len(new) = IF c.off + Len(w) > Len(s) THEN c.off + Len(w) ELSE Len(s)
      /\ \A p \in DOMAIN new :
           new[p] = IF c.off < p /\ p <= c.off + Len(w) THEN w[p - c.off]
                    ELSE IF p <= Len(s) THEN s[p] ELSE Hole
  <2>1. new = Overwritten(s, w, c.off)
    BY DEF s, w
  <2> QED BY <1>1, <1>2, <1>3, <2>1, OverwrittenFacts
<1>7. Len(d) \in Nat /\ Len(w) \in Nat /\ Len(s) \in Nat /\ Len(new) \in Nat
      /\ DOMAIN new = 1 .. Len(new) /\ DOMAIN s = 1 .. Len(s) /\ DOMAIN d = 1 .. Len(d)
  BY <1>1, <1>2, <1>6
<1>8. \A p \in DOMAIN s : s[p] = Hole \/ UnitSeen(f, p, s[p])
  BY DEF Filled, s
<1>9. \A p \in DOMAIN new :
        \/ /\ c.off < p /\ p <= c.off + Len(d) /\ p <= Lengths[f][v] /\ new[p] = <<v, p>>
        \/ c.off + Len(d) < p /\ p <= c.off + Len(w) /\ new[p] = Hole
        \/ ~(c.off < p /\ p <= c.off + Len(w)) /\ p <= Len(s) /\ new[p] = s[p]
        \/ c.off + Len(w) < p /\ Len(s) < p /\ new[p] = Hole
        \/ p <= c.off /\ Len(s) < p /\ new[p] = Hole
  <2> SUFFICES ASSUME NEW p \in DOMAIN new
               PROVE  \/ /\ c.off < p /\ p <= c.off + Len(d) /\ p <= Lengths[f][v] /\ new[p] = <<v, p>>
                      \/ c.off + Len(d) < p /\ p <= c.off + Len(w) /\ new[p] = Hole
                      \/ ~(c.off < p /\ p <= c.off + Len(w)) /\ p <= Len(s) /\ new[p] = s[p]
                      \/ c.off + Len(w) < p /\ Len(s) < p /\ new[p] = Hole
                      \/ p <= c.off /\ Len(s) < p /\ new[p] = Hole
    OBVIOUS
  <2>0. p \in Nat /\ c.off \in Nat
    BY <1>3, <1>7
  <2>1. CASE c.off < p /\ p <= c.off + Len(d)
    <3>1. p - c.off \in 1 .. Len(d) /\ p - c.off \in 1 .. Len(w) /\ p <= c.off + Len(w)
      BY <1>2, <1>7, <2>0, <2>1
    <3>2. new[p] = d[p - c.off] /\ d[p - c.off] = <<v, c.off + (p - c.off)>>
      BY <1>2, <1>4, <1>6, <1>7, <2>1, <3>1
    <3>3. c.off + (p - c.off) = p
      BY <2>0
    <3>4. p <= Lengths[f][v]
      BY <1>4, <1>5, <1>7, <2>0, <2>1
    <3> QED BY <2>1, <3>2, <3>3, <3>4
  <2>2. CASE c.off + Len(d) < p /\ p <= c.off + Len(w)
    <3>1. p - c.off \in 1 .. Len(w) /\ ~(p - c.off <= Len(d)) /\ c.off < p
      BY <1>7, <2>0, <2>2
    <3> QED BY <1>2, <1>6, <2>2, <3>1
  <2>3. CASE c.off + Len(w) < p \/ p <= c.off
    <3>1. ~(c.off < p /\ p <= c.off + Len(w))
      BY <1>7, <2>0, <2>3
    <3> QED BY <1>6, <1>7, <2>0, <2>3, <3>1
  <2> QED BY <1>2, <1>7, <2>0, <2>1, <2>2, <2>3
<1>10. \A p \in Nat : p <= Lengths[f][v] => UnitSeen(f, p, <<v, p>>)
  BY DEF UnitSeen
<1>11. \A p \in Nat : Lengths[f][v] < p => UnitSeen(f, p, Hole)
  BY <1>5 DEF UnitSeen
<1>12. ASSUME NEW p \in DOMAIN new PROVE new[p] = Hole \/ UnitSeen(f, p, new[p])
  <2>1. p \in Nat /\ 1 <= p
    BY <1>7
  <2>2. CASE p <= Lengths[f][v] /\ new[p] = <<v, p>>
    BY <1>10, <2>1, <2>2
  <2>3. CASE p <= Len(s) /\ new[p] = s[p]
    BY <1>7, <1>8, <2>1, <2>3
  <2> QED BY <1>9, <2>2, <2>3
<1>13. ASSUME NEW p \in DOMAIN new, Within(c, p) PROVE UnitSeen(f, p, new[p])
  <2>1. p \in Nat /\ c.off < p /\ p <= c.off + c.len /\ p <= Len(s)
    BY <1>1, <1>3, <1>7, <1>13 DEF Within
  <2>2. CASE p <= c.off + Len(d)
    <3>1. p <= Lengths[f][v] /\ new[p] = <<v, p>>
      <4>1. Len(d) <= Len(w) /\ c.off \in Nat
        BY <1>2, <1>3
      <4> QED BY <1>7, <1>9, <2>1, <2>2, <4>1, SMTT(30)
    <3> QED BY <1>10, <2>1, <3>1
  <2>3. CASE c.off + Len(d) < p
    <3>1. Lengths[f][v] < p
      BY <1>3, <1>4, <1>5, <1>7, <2>1, <2>3
    <3>2. CASE p <= c.off + Len(w)
      BY <1>3, <1>7, <1>9, <1>11, <2>1, <2>3, <3>1, <3>2
    <3>3. CASE c.off + Len(w) < p
      <4>1. new[p] = s[p]
        BY <1>2, <1>3, <1>7, <1>9, <2>1, <2>3, <3>3
      <4> QED BY <1>7, <1>8, <1>11, <2>1, <3>1, <4>1
    <3> QED BY <1>3, <1>7, <2>1, <3>2, <3>3
  <2> QED BY <1>3, <1>7, <2>1, <2>2, <2>3
<1>14. ASSUME NEW e \in Chunks(f), chunk[f][e].state = "ok", e # c,
              NEW p \in DOMAIN new, Within(e, p)
       PROVE  UnitSeen(f, p, new[p])
  <2>1. /\ e.off \in Nat /\ e.len \in 1 .. block_size /\ e.off + e.len <= Size(f)
        /\ args.api = "entries" => e.off % block_size = 0
    BY ChunkFacts
  <2>2. p \in Nat /\ e.off < p /\ p <= e.off + e.len /\ p <= Len(s)
    BY <1>1, <1>7, <1>14, <2>1 DEF Within
  <2>3. UnitSeen(f, p, s[p])
    BY <1>7, <1>14, <2>2 DEF Filled, s
  <2>4. CASE new[p] = Hole /\ c.off + Len(d) < p /\ p <= c.off + Len(w)
    <3>1. CASE Len(d) = c.len
      <4>1. args.direct /\ args.api = "entries" /\ block_size \in Nat \ {0} /\ ALIGN \in Nat \ {0}
        <5>1. Len(w) # Len(d)
          BY <1>3, <1>7, <2>2, <2>4
        <5> QED BY <1>2, <5>1, ArgsAre
      <4>2. c.off % ALIGN = 0 /\ e.off % ALIGN = 0
        BY <1>14, <4>1
      <4>3. c.len = block_size
        BY <1>1, <1>3, <2>1, <2>2, <2>4, <3>1, <4>1
      <4>4. c.off < e.off
        <5> SUFFICES ASSUME e.off <= c.off PROVE FALSE
          BY <1>3, <2>1
        <5>1. p <= c.off + c.len
          BY <1>3, <2>1, <2>2, <4>1, <4>3
        <5> QED BY <1>3, <1>7, <2>2, <2>4, <3>1, <5>1
      <4>5. c.off + block_size <= e.off
        BY <1>3, <2>1, <4>1, <4>4, MultiplesApart
      <4>6. (e.off - c.off) % ALIGN = 0 /\ e.off - c.off \in Nat
        BY <1>3, <2>1, <4>1, <4>2, <4>4, MultipleDifference
      <4>7. Len(w) <= e.off - c.off
        <5>1. Len(d) <= e.off - c.off
          BY <1>3, <2>1, <3>1, <4>1, <4>3, <4>5
        <5> QED BY <1>2, <4>1, <4>6, <5>1
      <4> QED BY <1>3, <1>7, <2>1, <2>2, <2>4, <4>7
    <3>2. CASE c.off + Len(d) = Lengths[f][v]
      BY <1>11, <2>2, <2>4, <3>2
    <3> QED BY <1>4, <3>1, <3>2
  <2>5. CASE new[p] # Hole \/ ~(c.off + Len(d) < p /\ p <= c.off + Len(w))
    <3>1. new[p] = s[p] \/ (p <= Lengths[f][v] /\ new[p] = <<v, p>>)
      BY <1>3, <1>7, <1>9, <2>2, <2>5
    <3> QED BY <1>10, <2>2, <2>3, <3>1
  <2> QED BY <2>4, <2>5
<1>15. ~args.direct => Len(new) = Size(f)
  BY <1>1, <1>2, <1>3, <1>4, <1>5, <1>6, <1>7
<1> QED BY <1>1, <1>6, <1>7, <1>12, <1>13, <1>14, <1>15

------------------------------------------------------------------------------
(* Types.                                                                   *)
LEMMA ArgsKept == [Next]_vars => args' = args
BY DEF Next, vars, MainStep, FileStep, ChunkStep, Terminated, Return, Dispatch, JoinFile,
       DispatchFails, SmallPermit, SmallGet, SmallPut, CreateFile, SpawnChunk, FinishFile,
       LateCall, GetChunk, WriteChunk, Replaced

LEMMA ChunksKept ==
  ASSUME args' = args, NEW f
  PROVE  /\ Chunks(f)' = Chunks(f) /\ Small(f)' = Small(f) /\ RangesOf(f)' = RangesOf(f)
         /\ block_size' = block_size
BY DEF Chunks, ChunksOfRange, RangesOf, Small, block_size

(* One chunk's task moves on.                                               *)
LEMMA OneChunk ==
  ASSUME ChunksOK, NEW f \in Files, NEW c \in Chunks(f), NEW r,
         ChunkTo(f, c, r)
  PROVE  /\ \A g \in Files : g # f => chunk'[g] = chunk[g]
         /\ chunk'[f][c] = r
         /\ \A d \in Chunks(f) : d # c => chunk'[f][d] = chunk[f][d]
         /\ r \in ChunkTasks /\ args' = args => ChunksOK'
<1>1. chunk[f] \in [Chunks(f) -> ChunkTasks] /\ f \in DOMAIN chunk /\ DOMAIN chunk = Files
  BY DEF ChunksOK
<1>2. chunk'[f] = [chunk[f] EXCEPT ![c] = r] /\ \A g \in Files : g # f => chunk'[g] = chunk[g]
  BY <1>1 DEF ChunkTo
<1>3. chunk'[f][c] = r /\ \A d \in Chunks(f) : d # c => chunk'[f][d] = chunk[f][d]
  BY <1>1, <1>2
<1>4. ASSUME r \in ChunkTasks, args' = args PROVE ChunksOK'
  <2>1. chunk' = [g \in Files |-> chunk'[g]]
    BY <1>1 DEF ChunkTo
  <2>2. \A g \in Files : Chunks(g)' = Chunks(g)
    BY <1>4, ChunksKept
  <2>3. chunk'[f] \in [Chunks(f) -> ChunkTasks]
    BY <1>1, <1>2, <1>4
  <2>4. \A g \in Files : chunk'[g] \in [Chunks(g) -> ChunkTasks]
    BY <1>2, <2>3 DEF ChunksOK
  <2> QED BY <2>1, <2>2, <2>4 DEF ChunksOK
<1> QED BY <1>2, <1>3, <1>4

LEMMA ChunkTask ==
  ASSUME ChunksOK, NEW f \in Files, NEW c \in Chunks(f)
  PROVE  /\ chunk[f][c] \in ChunkTasks
         /\ \A s \in ChunkStates :
              /\ [chunk[f][c] EXCEPT !.state = s] \in ChunkTasks
              /\ [chunk[f][c] EXCEPT !.state = s].state = s
              /\ [chunk[f][c] EXCEPT !.state = s].data = chunk[f][c].data
<1>1. chunk[f] \in [Chunks(f) -> ChunkTasks]
  BY DEF ChunksOK
<1>2. chunk[f][c] \in ChunkTasks
  BY <1>1
<1> QED BY <1>2 DEF ChunkTasks

LEMMA EndsChunk ==
  ASSUME ChunksOK, NEW f \in Files, NEW c \in Chunks(f), NEW s \in ChunkStates, ChunkEnds(f, c, s)
  PROVE  \E r \in ChunkTasks : /\ ChunkTo(f, c, r)
                               /\ r.state = s /\ r.data = chunk[f][c].data
<1> DEFINE r == [chunk[f][c] EXCEPT !.state = s]
<1>1. r \in ChunkTasks /\ r.state = s /\ r.data = chunk[f][c].data
  BY ChunkTask
<1>2. ChunkTo(f, c, r)
  BY DEF ChunkEnds, ChunkTo
<1> HIDE DEF r
<1> QED BY <1>1, <1>2

(* What the answer to the request of a chunk does.                          *)
LEMMA GetStep ==
  ASSUME TypesOK, NEW f \in Files, NEW c \in Chunks(f), GetChunk(f, c)
  PROVE  \E r \in ChunkTasks :
           /\ ChunkTo(f, c, r)
           /\ \/ /\ r.state = "write" /\ Fetched(f, c, r.data)
                 /\ chunk_permits' = chunk_permits /\ faults' = faults
              \/ /\ r.state = "err" /\ chunk_permits' = chunk_permits + 1
                 /\ \/ faults' = faults + 1
                    \/ faults' = faults /\ blob[f] > 1
<1> DEFINE now == Content(f, blob[f])
           b == Min2(c.off + c.len, Len(now))
           d == SubSeq(now, c.off + 1, b)
<1>1. blob[f] \in VersionsSeen(f) /\ blob[f] \in DOMAIN Lengths[f] /\ blob[f] \in Nat
      /\ Lengths[f][blob[f]] \in Nat /\ blob[f] >= 1
  BY SeenFacts DEF VersionsSeen
<1>2. /\ now \in Seq(Units) /\ Len(now) = Lengths[f][blob[f]]
      /\ \A p \in 1 .. Lengths[f][blob[f]] : now[p] = <<blob[f], p>>
  BY <1>1, ContentFacts
<1>3. c.off \in Nat /\ c.len \in 1 .. block_size /\ c.off + c.len <= Size(f) /\ block_size \in Nat
  BY ChunkFacts, ArgsAre
<1>4. /\ chunk[f][c].state = "get"
      /\ \/ /\ c.off < Len(now)
            /\ chunk' = [chunk EXCEPT ![f][c] = [state |-> "write", data |-> d]]
            /\ chunk_permits' = chunk_permits /\ faults' = faults
         \/ /\ IF c.off < Len(now) THEN faults' = faults + 1 ELSE faults' = faults
            /\ ChunkEnds(f, c, "err") /\ chunk_permits' = chunk_permits + 1
  BY DEF GetChunk, CallFails, ReleasePermit
<1>5. CASE /\ c.off < Len(now)
           /\ chunk' = [chunk EXCEPT ![f][c] = [state |-> "write", data |-> d]]
           /\ chunk_permits' = chunk_permits /\ faults' = faults
  <2> HIDE DEF now
  <2>1. b \in Nat /\ b <= Len(now) /\ c.off <= b /\ b - c.off <= c.len
        /\ (b - c.off = c.len \/ b = Len(now))
    BY <1>1, <1>2, <1>3, <1>5 DEF Min2
  <2> HIDE DEF b
  <2>2. /\ d \in Seq(Units) /\ Len(d) = b - c.off
        /\ \A i \in 1 .. b - c.off : d[i] = now[c.off + i]
    BY <1>2, <1>3, <2>1, SubFacts
  <2> HIDE DEF d
  <2>3. DOMAIN d = 1 .. b - c.off /\ c.off + Len(d) = b
    BY <1>3, <2>1, <2>2
  <2>4. ASSUME NEW i \in DOMAIN d PROVE d[i] = <<blob[f], c.off + i>>
    <3>1. i \in 1 .. b - c.off
      BY <2>3
    <3>2. c.off + i \in 1 .. Lengths[f][blob[f]]
      BY <1>1, <1>2, <1>3, <2>1, <3>1
    <3> QED BY <1>2, <2>2, <3>1, <3>2
  <2>5. Fetched(f, c, d)
    BY <1>1, <1>2, <2>1, <2>2, <2>3, <2>4 DEF Fetched
  <2> DEFINE r == [state |-> "write", data |-> d]
  <2>6. r \in ChunkTasks /\ r.state = "write" /\ r.data = d
    BY <2>2 DEF ChunkTasks, ChunkStates
  <2>7. ChunkTo(f, c, r)
    BY <1>5 DEF ChunkTo
  <2> HIDE DEF r
  <2> QED BY <1>5, <2>5, <2>6, <2>7
<1>6. CASE /\ IF c.off < Len(now) THEN faults' = faults + 1 ELSE faults' = faults
           /\ ChunkEnds(f, c, "err") /\ chunk_permits' = chunk_permits + 1
  <2> HIDE DEF now
  <2>a. "err" \in ChunkStates /\ ChunksOK /\ ChunkEnds(f, c, "err")
    BY <1>6 DEF TypesOK, ChunkStates
  <2>1. PICK r \in ChunkTasks : ChunkTo(f, c, r) /\ r.state = "err"
    BY <2>a, EndsChunk
  <2>2. faults' = faults => blob[f] > 1 \/ faults' = faults + 1
    <3> SUFFICES ASSUME faults' = faults, blob[f] = 1 PROVE faults' = faults + 1
      BY <1>1
    <3>1. Len(now) = Size(f) /\ Size(f) \in Nat
      BY <1>2, FileFacts DEF Size
    <3>2. c.off < Len(now)
      BY <1>3, <3>1
    <3> QED BY <1>6, <3>2
  <2>3. \/ faults' = faults + 1
        \/ faults' = faults /\ blob[f] > 1
    BY <1>6, <2>2
  <2> QED BY <1>6, <2>1, <2>3
<1> QED BY <1>4, <1>5, <1>6

(* What the write of a chunk does.                                          *)
LEMMA WriteStep ==
  ASSUME TypesOK, NEW f \in Files, NEW c \in Chunks(f), WriteChunk(f, c)
  PROVE  LET new == Overwritten(local[f], Padded(chunk[f][c].data), c.off)
             accepted == args.direct => c.off % ALIGN = 0
         IN \E r \in ChunkTasks :
           /\ ChunkTo(f, c, r)
           /\ chunk_permits' = chunk_permits + 1
           /\ \/ r.state = "ok" /\ accepted /\ local' = [local EXCEPT ![f] = new] /\ faults' = faults
              \/ /\ r.state = "err" /\ accepted /\ faults' = faults + 1
                 /\ local' = local \/ local' = [local EXCEPT ![f] = new]
              \/ r.state = "err" /\ ~accepted /\ local' = local /\ faults' = faults
<1> DEFINE new == Overwritten(local[f], Padded(chunk[f][c].data), c.off)
           accepted == args.direct => c.off % ALIGN = 0
<1>1. /\ chunk_permits' = chunk_permits + 1
      /\ \/ accepted /\ local' = [local EXCEPT ![f] = new] /\ ChunkEnds(f, c, "ok") /\ faults' = faults
         \/ /\ ChunkEnds(f, c, "err")
            /\ IF accepted THEN faults' = faults + 1 /\ local' \in {local, [local EXCEPT ![f] = new]}
                           ELSE local' = local /\ faults' = faults
  BY DEF WriteChunk, CallFails, ReleasePermit
<1>2. "ok" \in ChunkStates /\ "err" \in ChunkStates /\ ChunksOK
  BY DEF ChunkStates, TypesOK
<1> HIDE DEF new, accepted
<1>3. CASE accepted /\ local' = [local EXCEPT ![f] = new] /\ ChunkEnds(f, c, "ok") /\ faults' = faults
  <2>1. PICK r \in ChunkTasks : ChunkTo(f, c, r) /\ r.state = "ok"
    BY <1>2, <1>3, EndsChunk
  <2> QED BY <1>1, <1>3, <2>1 DEF new, accepted
<1>4. CASE /\ ChunkEnds(f, c, "err")
           /\ IF accepted THEN faults' = faults + 1 /\ local' \in {local, [local EXCEPT ![f] = new]}
                          ELSE local' = local /\ faults' = faults
  <2>1. PICK r \in ChunkTasks : ChunkTo(f, c, r) /\ r.state = "err"
    BY <1>2, <1>4, EndsChunk
  <2>2. \/ accepted /\ faults' = faults + 1 /\ (local' = local \/ local' = [local EXCEPT ![f] = new])
        \/ ~accepted /\ local' = local /\ faults' = faults
    BY <1>4
  <2> QED BY <1>1, <2>1, <2>2 DEF new, accepted
<1> QED BY <1>1, <1>3, <1>4

LEMMA TypesInit == Init => TypesOK
<1> SUFFICES ASSUME Init PROVE TypesOK
  OBVIOUS
<1>1. args \in Options /\ block_size \in Nat
  BY DownloadAssumption DEF Init, block_size
<1>2. \A f \in Files : Holes(Size(f)) \in Seq(Units)
  BY FileFacts, HolesFacts
<1>3. ASSUME NEW n \in Nat PROVE [p \in 1 .. n |-> <<0, p>>] \in Seq(Units)
  <2>1. \A p \in 1 .. n : <<0, p>> \in Units
    BY UnitsAre
  <2> QED BY <2>1
<1>4. local \in [Files -> Seq(Units)]
  <2>1. CASE args.api = "ranges"
    BY <1>2, <2>1 DEF Init
  <2>2. CASE args.api # "ranges"
    <3>1. PICK n \in Nat : local = [f \in Files |-> [p \in 1 .. n |-> <<0, p>>]]
      BY <1>1, <2>2 DEF Init
    <3> QED BY <1>3, <3>1
  <2> QED BY <2>1, <2>2
<1>5. blob \in [Files -> Nat] /\ \A f \in Files : blob[f] \in DOMAIN Lengths[f]
  BY FileFacts DEF Init
<1>6. ChunksOK
  <2>1. [state |-> "none", data |-> <<>>] \in ChunkTasks
    BY DEF ChunkTasks, ChunkStates
  <2> DEFINE r == [state |-> "none", data |-> <<>>]
  <2>2. chunk = [f \in Files |-> [c \in Chunks(f) |-> r]]
    BY DEF Init
  <2> HIDE DEF r
  <2> QED BY <2>1, <2>2 DEF ChunksOK, r
<1>7. /\ main \in {"loop", "returned", "error"} /\ task \in [Files -> TaskStates]
      /\ body \in [Files -> Seq(Units)]
      /\ file_permits \in Int /\ chunk_permits \in Int
      /\ succeeded \subseteq Files /\ failed \subseteq Files /\ faults \in Nat
  BY DownloadAssumption DEF Init, TaskStates
<1> QED BY <1>1, <1>4, <1>5, <1>6, <1>7 DEF TypesOK

LEMMA ChunksOKKept ==
  ASSUME ChunksOK, chunk' = chunk, args' = args
  PROVE  ChunksOK'
<1>1. \A f \in Files : Chunks(f)' = Chunks(f)
  BY ChunksKept
<1> QED BY <1>1 DEF ChunksOK

(* Which files a step changes, and how: what is on disk stays a sequence of *)
(* units.                                                                   *)
LEMMA WrittenFacts ==
  ASSUME TypesOK, NEW f \in Files, NEW part \in Written(f)
  PROVE  part \in Seq(Units)
<1>1. PICK n \in 0 .. Len(body[f]) : part = SubSeq(body[f], 1, n)
  BY DEF Written
<1>2. body[f] \in Seq(Units)
  BY DEF TypesOK
<1> DEFINE s == body[f]
<1> HIDE DEF s
<1>3. s \in Seq(Units) /\ part = SubSeq(s, 0 + 1, n) /\ n \in 0 .. Len(s)
  BY <1>1, <1>2 DEF s
<1>4. n \in Nat /\ 0 <= n /\ n <= Len(s) /\ 0 \in Nat
  BY <1>3
<1> QED BY <1>3, <1>4, SubFacts

LEMMA CreatedFacts ==
  ASSUME NEW f \in Files
  PROVE  /\ Created(f) \in Seq(Units) /\ Len(Created(f)) = Size(f)
         /\ \A p \in 1 .. Size(f) : Created(f)[p] = Hole
BY FileFacts, HolesFacts DEF Created

LEMMA CutFacts ==
  ASSUME TypesOK, NEW f \in Files
  PROVE  SetLen(local[f], Size(f)) \in Seq(Units)
<1>1. local[f] \in Seq(Units)
  BY DEF TypesOK
<1> QED BY <1>1, FileFacts, SetLenFacts

LEMMA NewFileFacts ==
  ASSUME TypesOK, NEW f \in Files, NEW c \in Chunks(f)
  PROVE  Overwritten(local[f], Padded(chunk[f][c].data), c.off) \in Seq(Units)
<1>1. local[f] \in Seq(Units) /\ c.off \in Nat
  BY ChunkFacts DEF TypesOK
<1>2. chunk[f][c].data \in Seq(Units)
  BY ChunkTask DEF TypesOK, ChunkTasks
<1>3. Padded(chunk[f][c].data) \in Seq(Units)
  BY <1>2, PaddedFacts
<1> QED BY <1>1, <1>3, OverwrittenFacts

LEMMA LocalStep ==
  ASSUME TypesOK, NEW f \in Files, NEW part \in Seq(Units), local' = [local EXCEPT ![f] = part]
  PROVE  local' \in [Files -> Seq(Units)] /\ local'[f] = part
         /\ \A g \in Files : g # f => local'[g] = local[g]
BY DEF TypesOK

LEMMA TypesStep == TypesOK /\ [Next]_vars => TypesOK'
<1> SUFFICES ASSUME TypesOK, [Next]_vars PROVE TypesOK'
  OBVIOUS
<1>a. args' = args /\ args \in Options
  BY ArgsKept DEF TypesOK
<1>b. chunk' = chunk => ChunksOK'
  BY <1>a, ChunksOKKept DEF TypesOK
<1>c. ASSUME NEW f \in Files, NEW t \in TaskStates, task' = [task EXCEPT ![f] = t]
      PROVE  task' \in [Files -> TaskStates]
  BY <1>c DEF TypesOK
<1>d. {"small", "create", "post", "get", "put", "ok", "err", "late", "cancelled"} \subseteq TaskStates
  BY DEF TaskStates
<1>1. ASSUME NEW f \in Files, Dispatch(f) PROVE TypesOK'
  <2>1. task' \in [Files -> TaskStates]
    BY <1>1, <1>c, <1>d DEF Dispatch
  <2> QED BY <1>1, <1>a, <1>b, <2>1 DEF Dispatch, TypesOK, summaryVars
<1>2. ASSUME NEW f \in Files, JoinFile(f) PROVE TypesOK'
  BY <1>2, <1>a, <1>b DEF JoinFile, TypesOK, fileVars
<1>3. CASE Return \/ UNCHANGED vars
  BY <1>3, <1>a, <1>b DEF Return, TypesOK, fileVars, summaryVars, vars
<1>4. CASE DispatchFails
  <2>1. task' \in [Files -> TaskStates]
    BY <1>4, <1>d DEF DispatchFails, TypesOK
  <2>2. /\ Cardinality({f \in Files : Running(f)}) \in Nat
        /\ Cardinality({f \in Files : task[f] = "get"}) \in Nat
    BY DownloadAssumption, FS_Subset, FS_CardinalityType
  <2> DEFINE m == Cardinality({f \in Files : Running(f)})
             n == Cardinality({f \in Files : task[f] = "get"})
  <2>3. m \in Nat /\ n \in Nat /\ file_permits' = file_permits + m
        /\ chunk_permits' = chunk_permits + n
    BY <1>4, <2>2 DEF DispatchFails
  <2> HIDE DEF m, n
  <2>4. file_permits' \in Int /\ chunk_permits' \in Int
    BY <2>3 DEF TypesOK
  <2> QED BY <1>4, <1>a, <1>b, <2>1, <2>4 DEF DispatchFails, CallFails, TypesOK, summaryVars
<1>5. ASSUME NEW f \in Files, SmallPermit(f) PROVE TypesOK'
  <2>1. task' \in [Files -> TaskStates]
    BY <1>5, <1>c, <1>d DEF SmallPermit
  <2> QED BY <1>5, <1>a, <1>b, <2>1 DEF SmallPermit, TypesOK, summaryVars
<1>6. ASSUME NEW f \in Files, SmallGet(f) PROVE TypesOK'
  <2>1. task' \in [Files -> TaskStates]
    BY <1>6, <1>c, <1>d DEF SmallGet, FileEnds
  <2>2. Content(f, blob[f]) \in Seq(Units)
    BY ContentFacts DEF TypesOK
  <2>3. body' \in [Files -> Seq(Units)]
    BY <1>6, <2>2 DEF SmallGet, TypesOK
  <2>4. file_permits' \in Int /\ chunk_permits' \in Int /\ faults' \in Nat
    BY <1>6 DEF SmallGet, FileEnds, CallFails, TypesOK
  <2> QED BY <1>6, <1>a, <1>b, <2>1, <2>3, <2>4 DEF SmallGet, TypesOK, summaryVars
<1>7. ASSUME NEW f \in Files, SmallPut(f) PROVE TypesOK'
  <2>1. task' \in [Files -> TaskStates]
    BY <1>7, <1>c, <1>d DEF SmallPut, FileEnds
  <2>2. PICK part \in Seq(Units) : local' = [local EXCEPT ![f] = part]
    BY <1>7, WrittenFacts DEF SmallPut, TypesOK
  <2>3. local' \in [Files -> Seq(Units)]
    BY <2>2, LocalStep
  <2>4. file_permits' \in Int /\ faults' \in Nat
    BY <1>7 DEF SmallPut, FileEnds, CallFails, TypesOK
  <2> QED BY <1>7, <1>a, <1>b, <2>1, <2>3, <2>4 DEF SmallPut, TypesOK, summaryVars
<1>8. ASSUME NEW f \in Files, CreateFile(f) PROVE TypesOK'
  <2>1. task' \in [Files -> TaskStates]
    BY <1>8, <1>c, <1>d DEF CreateFile, FileEnds
  <2>2. PICK part \in Seq(Units) : local' = [local EXCEPT ![f] = part]
    <3>1. local[f] \in Seq(Units) /\ <<>> \in Seq(Units) /\ Created(f) \in Seq(Units)
      BY CreatedFacts DEF TypesOK
    <3> QED BY <1>8, <3>1 DEF CreateFile
  <2>3. local' \in [Files -> Seq(Units)]
    BY <2>2, LocalStep
  <2>4. file_permits' \in Int /\ faults' \in Nat
    BY <1>8 DEF CreateFile, FileEnds, CallFails, TypesOK
  <2> QED BY <1>8, <1>a, <1>b, <2>1, <2>3, <2>4 DEF CreateFile, TypesOK, summaryVars
<1>9. ASSUME NEW f \in Files, SpawnChunk(f) PROVE TypesOK'
  <2>1. [state |-> "get", data |-> <<>>] \in ChunkTasks
    BY DEF ChunkTasks, ChunkStates
  <2>2. PICK c \in Chunks(f) : ChunkTo(f, c, [state |-> "get", data |-> <<>>])
    BY <1>9 DEF SpawnChunk, Unspawned, ChunkTo
  <2>3. ChunksOK'
    BY <1>a, <2>1, <2>2, OneChunk DEF TypesOK
  <2> QED BY <1>9, <1>a, <2>3 DEF SpawnChunk, TypesOK, fileVars, summaryVars
<1>10. ASSUME NEW f \in Files, FinishFile(f) PROVE TypesOK'
  <2>1. task' \in [Files -> TaskStates]
    BY <1>10, <1>c, <1>d DEF FinishFile, FileEnds
  <2>2. local' = local \/ \E part \in Seq(Units) : local' = [local EXCEPT ![f] = part]
    <3>1. local[f] \in Seq(Units) /\ SetLen(local[f], Size(f)) \in Seq(Units)
      BY CutFacts DEF TypesOK
    <3> QED BY <1>10, <3>1 DEF FinishFile
  <2>3. local' \in [Files -> Seq(Units)]
    BY <2>2, LocalStep DEF TypesOK
  <2>4. file_permits' \in Int /\ faults' \in Nat
    BY <1>10 DEF FinishFile, FileEnds, CallFails, TypesOK
  <2> QED BY <1>10, <1>a, <1>b, <2>1, <2>3, <2>4 DEF FinishFile, TypesOK, summaryVars
<1>11. ASSUME NEW f \in Files, LateCall(f) PROVE TypesOK'
  <2>1. task' \in [Files -> TaskStates]
    BY <1>11, <1>c, <1>d DEF LateCall
  <2>2. PICK part \in Seq(Units) : local' = [local EXCEPT ![f] = part]
    <3>1. /\ local[f] \in Seq(Units) /\ <<>> \in Seq(Units) /\ Created(f) \in Seq(Units)
          /\ SetLen(local[f], Size(f)) \in Seq(Units) /\ \A part \in Written(f) : part \in Seq(Units)
      BY CreatedFacts, CutFacts, WrittenFacts DEF TypesOK
    <3> QED BY <1>11, <3>1 DEF LateCall
  <2>3. local' \in [Files -> Seq(Units)]
    BY <2>2, LocalStep
  <2> QED BY <1>11, <1>a, <1>b, <2>1, <2>3 DEF LateCall, TypesOK, summaryVars
<1>12. ASSUME NEW f \in Files, NEW c \in Chunks(f), GetChunk(f, c) PROVE TypesOK'
  <2>a. PICK r \in ChunkTasks :
          /\ ChunkTo(f, c, r)
          /\ chunk_permits' = chunk_permits \/ chunk_permits' = chunk_permits + 1
          /\ faults' = faults + 1 \/ faults' = faults
    BY <1>12, GetStep
  <2>b. ChunksOK /\ faults \in Nat /\ chunk_permits \in Int
    BY DEF TypesOK
  <2>c. ChunksOK'
    BY <1>a, <2>a, <2>b, OneChunk
  <2>1. ChunksOK' /\ faults' \in Nat /\ chunk_permits' \in Int
    BY <2>a, <2>b, <2>c
  <2> QED BY <1>12, <1>a, <2>1 DEF GetChunk, TypesOK, fileVars, summaryVars
<1>13. ASSUME NEW f \in Files, NEW c \in Chunks(f), WriteChunk(f, c) PROVE TypesOK'
  <2> DEFINE new == Overwritten(local[f], Padded(chunk[f][c].data), c.off)
  <2>1. new \in Seq(Units)
    BY NewFileFacts
  <2>2. PICK r \in ChunkTasks :
          /\ ChunkTo(f, c, r)
          /\ chunk_permits' = chunk_permits + 1
          /\ faults' = faults + 1 \/ faults' = faults
          /\ local' = local \/ local' = [local EXCEPT ![f] = new]
    BY <1>13, WriteStep
  <2> HIDE DEF new
  <2>a. ChunksOK /\ faults \in Nat /\ chunk_permits \in Int
    BY DEF TypesOK
  <2>b. ChunksOK'
    BY <1>a, <2>2, <2>a, OneChunk
  <2>3. ChunksOK' /\ faults' \in Nat /\ chunk_permits' \in Int
    BY <2>2, <2>a, <2>b
  <2>4. local' \in [Files -> Seq(Units)]
    BY <2>1, <2>2, LocalStep DEF TypesOK
  <2> QED BY <1>13, <1>a, <2>3, <2>4 DEF WriteChunk, TypesOK, fileVars, summaryVars
<1>14. ASSUME NEW f \in Files, Replaced(f) PROVE TypesOK'
  <2>a. blob \in [Files -> Nat] /\ blob' = [blob EXCEPT ![f] = blob[f] + 1]
    BY <1>14 DEF Replaced, TypesOK
  <2>b. blob[f] + 1 \in DOMAIN Lengths[f]
    <3>1. Lengths[f] \in Seq(Nat) /\ blob[f] \in Nat /\ blob[f] < Len(Lengths[f])
      BY <1>14, FileFacts DEF Replaced, TypesOK
    <3> QED BY <3>1
  <2>1. blob' \in [Files -> Nat] /\ \A g \in Files : blob'[g] \in DOMAIN Lengths[g]
    BY <2>a, <2>b DEF TypesOK
  <2> QED BY <1>14, <1>a, <1>b, <2>1 DEF Replaced, TypesOK, fileVars, summaryVars
<1> QED
  BY <1>1, <1>2, <1>3, <1>4, <1>5, <1>6, <1>7, <1>8, <1>9, <1>10, <1>11, <1>12, <1>13, <1>14
     DEF Next, MainStep, FileStep, ChunkStep, Terminated

------------------------------------------------------------------------------
(* Where tasks are.                                                         *)
LEMMA ControlInit == Init => ControlInv
<1> SUFFICES ASSUME Init, NEW f \in Files PROVE Control(f)
  BY DEF ControlInv
<1>1. /\ task[f] = "none" /\ main = "loop" /\ succeeded = {} /\ failed = {}
      /\ chunk[f] = [c \in Chunks(f) |-> [state |-> "none", data |-> <<>>]]
  BY DEF Init
<1>2. Unspawned(f) = Chunks(f)
  BY <1>1 DEF Unspawned
<1> QED BY <1>1, <1>2 DEF Control

(* What depends on the chunks of a file only.                               *)
LEMMA ChunkViews ==
  ASSUME args' = args, NEW g \in Files, chunk'[g] = chunk[g]
  PROVE  Unspawned(g)' = Unspawned(g) /\ Idle(g)' = Idle(g) /\ AllEnded(g)' = AllEnded(g)
         /\ AnyFailed(g)' = AnyFailed(g)
<1>1. Chunks(g)' = Chunks(g)
  BY ChunksKept
<1> QED BY <1>1 DEF Unspawned, Idle, HoldsPermit, AllEnded, AnyFailed

LEMMA ControlKept ==
  ASSUME args' = args, NEW g \in Files, Control(g), chunk'[g] = chunk[g], task'[g] = task[g],
         main' = main, succeeded' = succeeded, failed' = failed
  PROVE  Control(g)'
<1>1. /\ Unspawned(g)' = Unspawned(g) /\ Idle(g)' = Idle(g) /\ Chunks(g)' = Chunks(g)
      /\ Small(g)' = Small(g)
  BY ChunkViews, ChunksKept
<1> QED BY <1>1 DEF Control

(* The task of a file moves on, and when it ends no chunk is with a task.   *)
LEMMA FileMoved ==
  ASSUME TypesOK, ControlInv, args' = args, chunk' = chunk, main' = main,
         succeeded' = succeeded, failed' = failed,
         NEW f \in Files, NEW t, task' = [task EXCEPT ![f] = t],
         task[f] \notin {"ok", "err"}, t \notin {"none", "late"},
         t \in {"small", "get", "put", "create"} => Unspawned(f) = Chunks(f),
         t \in {"ok", "err"} => Idle(f),
         t \in {"small", "get", "put"} => Small(f),
         t \in {"create", "post"} => ~Small(f),
         t = "create" => args.api = "entries",
         t = "cancelled" => main = "error"
  PROVE  ControlInv'
<1>1. task'[f] = t /\ \A g \in Files : g # f => task'[g] = task[g]
  BY DEF TypesOK
<1>2. ASSUME NEW g \in Files, g # f PROVE Control(g)'
  BY <1>1, <1>2, ControlKept DEF ControlInv
<1>3. Control(f)'
  <2>1. /\ Unspawned(f)' = Unspawned(f) /\ Idle(f)' = Idle(f) /\ Chunks(f)' = Chunks(f)
        /\ Small(f)' = Small(f)
    BY ChunkViews, ChunksKept
  <2>2. f \notin succeeded /\ f \notin failed /\ main # "returned"
    BY DEF ControlInv, Control
  <2> QED BY <1>1, <2>1, <2>2 DEF Control
<1> QED BY <1>2, <1>3 DEF ControlInv

(* The task of a chunk moves on, before that of its file has ended.         *)
LEMMA ChunkMoved ==
  ASSUME TypesOK, ControlInv, args' = args, task' = task, main' = main,
         succeeded' = succeeded, failed' = failed,
         NEW f \in Files, NEW c \in Chunks(f), NEW r \in ChunkTasks,
         ChunkTo(f, c, r), task[f] = "post" \/ HoldsPermit(f, c)
  PROVE  ControlInv'
<1>1. \A g \in Files : g # f => chunk'[g] = chunk[g]
  BY OneChunk DEF TypesOK
<1>2. ASSUME NEW g \in Files, g # f PROVE Control(g)'
  BY <1>1, <1>2, ControlKept DEF ControlInv
<1>3. task[f] \notin {"none", "small", "get", "put", "create", "ok", "err"}
  <2>1. HoldsPermit(f, c) => ~Idle(f) /\ Unspawned(f) # Chunks(f)
    BY DEF Idle, HoldsPermit, Unspawned
  <2> QED BY <2>1 DEF ControlInv, Control
<1>4. Control(f)'
  <2>1. Small(f)' = Small(f)
    BY ChunksKept
  <2> QED BY <1>3, <2>1 DEF ControlInv, Control
<1> QED BY <1>2, <1>4 DEF ControlInv

LEMMA UnspawnedIdle ==
  ASSUME NEW f, Unspawned(f) = Chunks(f)
  PROVE  Idle(f)
BY DEF Unspawned, Idle, HoldsPermit

LEMMA ControlStep == TypesOK /\ ControlInv /\ [Next]_vars => ControlInv'
<1> SUFFICES ASSUME TypesOK, ControlInv, [Next]_vars PROVE ControlInv'
  OBVIOUS
<1>a. args' = args
  BY ArgsKept
<1>1. ASSUME NEW f \in Files, Dispatch(f) PROVE ControlInv'
  <2> DEFINE t == IF Small(f) THEN "small" ELSE IF args.api = "entries" THEN "create" ELSE "post"
  <2>1. /\ task' = [task EXCEPT ![f] = t] /\ task[f] = "none"
        /\ UNCHANGED <<chunk, main, succeeded, failed>>
    BY <1>1 DEF Dispatch, Waiting, summaryVars
  <2>2. Unspawned(f) = Chunks(f)
    BY <2>1 DEF ControlInv, Control
  <2>3. /\ t \in {"small", "create", "post"} /\ (t = "small" => Small(f))
        /\ (t \in {"create", "post"} => ~Small(f)) /\ (t = "create" => args.api = "entries")
    OBVIOUS
  <2> HIDE DEF t
  <2> QED BY <1>a, <2>1, <2>2, <2>3, FileMoved
<1>2. ASSUME NEW f \in Files, JoinFile(f) PROVE ControlInv'
  <2>1. /\ main = "loop" /\ UNCHANGED <<chunk, main, task>>
        /\ \/ task[f] = "ok" /\ succeeded' = succeeded \cup {f} /\ failed' = failed
           \/ task[f] = "err" /\ failed' = failed \cup {f} /\ succeeded' = succeeded
    BY <1>2 DEF JoinFile, fileVars
  <2> SUFFICES ASSUME NEW g \in Files PROVE Control(g)'
    BY DEF ControlInv
  <2>2. /\ Unspawned(g)' = Unspawned(g) /\ Idle(g)' = Idle(g) /\ Chunks(g)' = Chunks(g)
        /\ Small(g)' = Small(g)
    BY <1>a, <2>1, ChunkViews, ChunksKept
  <2>3. Control(g)
    BY DEF ControlInv
  <2> QED BY <1>a, <2>1, <2>2, <2>3 DEF Control
<1>3. CASE Return
  <2>1. /\ main = "loop" /\ main' = "returned" /\ UNCHANGED <<chunk, task, succeeded, failed>>
        /\ succeeded \cup failed = Files
    BY <1>3 DEF Return, fileVars, summaryVars
  <2> SUFFICES ASSUME NEW g \in Files PROVE Control(g)'
    BY DEF ControlInv
  <2>2. /\ Unspawned(g)' = Unspawned(g) /\ Idle(g)' = Idle(g) /\ Chunks(g)' = Chunks(g)
        /\ Small(g)' = Small(g)
    BY <1>a, <2>1, ChunkViews, ChunksKept
  <2>3. Control(g)
    BY DEF ControlInv
  <2> QED BY <1>a, <2>1, <2>2, <2>3 DEF Control
<1>4. CASE DispatchFails
  <2> SUFFICES ASSUME NEW g \in Files PROVE Control(g)'
    BY DEF ControlInv
  <2>1. /\ main = "loop" /\ main' = "error" /\ UNCHANGED <<chunk, succeeded, failed>>
        /\ task'[g] = IF Blocking(g) THEN "late" ELSE IF Running(g) THEN "cancelled" ELSE task[g]
    BY <1>4 DEF DispatchFails, summaryVars
  <2>2. /\ Unspawned(g)' = Unspawned(g) /\ Idle(g)' = Idle(g) /\ Chunks(g)' = Chunks(g)
        /\ Small(g)' = Small(g)
    BY <1>a, <2>1, ChunkViews, ChunksKept
  <2>3. Control(g)
    BY DEF ControlInv
  <2>4. Blocking(g) => Running(g)
    BY DEF Blocking, Running
  <2>5. task[g] \in {"ok", "err"} => ~Running(g)
    BY DEF Running
  <2>6. \/ task'[g] = task[g] /\ ~Running(g)
        \/ task'[g] \in {"late", "cancelled"} /\ Running(g)
    BY <2>1, <2>4
  <2>7. CASE task'[g] = task[g]
    BY <1>a, <2>1, <2>2, <2>3, <2>7 DEF Control
  <2>8. CASE task'[g] \in {"late", "cancelled"} /\ Running(g)
    <3>1. g \notin succeeded /\ g \notin failed
      BY <2>3, <2>5, <2>8 DEF Control
    <3> QED BY <2>1, <2>8, <3>1 DEF Control
  <2> QED BY <2>6, <2>7, <2>8
<1>5. ASSUME NEW f \in Files, SmallPermit(f) PROVE ControlInv'
  <2>1. /\ task' = [task EXCEPT ![f] = "get"] /\ task[f] = "small"
        /\ UNCHANGED <<chunk, main, succeeded, failed>>
    BY <1>5 DEF SmallPermit, summaryVars
  <2>2. Unspawned(f) = Chunks(f) /\ Small(f)
    BY <2>1 DEF ControlInv, Control
  <2> QED BY <1>a, <2>1, <2>2, FileMoved
<1>6. ASSUME NEW f \in Files, SmallGet(f) PROVE ControlInv'
  <2>1. PICK t \in {"put", "err"} :
          /\ task' = [task EXCEPT ![f] = t] /\ task[f] = "get"
          /\ UNCHANGED <<chunk, main, succeeded, failed>>
    BY <1>6 DEF SmallGet, FileEnds, summaryVars
  <2>2. Unspawned(f) = Chunks(f) /\ Small(f)
    BY <2>1 DEF ControlInv, Control
  <2>3. Idle(f)
    BY <2>2, UnspawnedIdle
  <2> QED BY <1>a, <2>1, <2>2, <2>3, FileMoved
<1>7. ASSUME NEW f \in Files, SmallPut(f) PROVE ControlInv'
  <2>1. PICK t \in {"ok", "err"} :
          /\ task' = [task EXCEPT ![f] = t] /\ task[f] = "put"
          /\ UNCHANGED <<chunk, main, succeeded, failed>>
    BY <1>7 DEF SmallPut, FileEnds, summaryVars
  <2>2. Unspawned(f) = Chunks(f)
    BY <2>1 DEF ControlInv, Control
  <2>3. Idle(f)
    BY <2>2, UnspawnedIdle
  <2> QED BY <1>a, <2>1, <2>3, FileMoved
<1>8. ASSUME NEW f \in Files, CreateFile(f) PROVE ControlInv'
  <2>1. PICK t \in {"post", "err"} :
          /\ task' = [task EXCEPT ![f] = t] /\ task[f] = "create"
          /\ UNCHANGED <<chunk, main, succeeded, failed>>
    BY <1>8 DEF CreateFile, FileEnds, summaryVars
  <2>2. Unspawned(f) = Chunks(f) /\ ~Small(f)
    BY <2>1 DEF ControlInv, Control
  <2>3. Idle(f)
    BY <2>2, UnspawnedIdle
  <2> QED BY <1>a, <2>1, <2>2, <2>3, FileMoved
<1>9. ASSUME NEW f \in Files, SpawnChunk(f) PROVE ControlInv'
  <2>1. [state |-> "get", data |-> <<>>] \in ChunkTasks
    BY DEF ChunkTasks, ChunkStates
  <2>2. PICK c \in Chunks(f) : ChunkTo(f, c, [state |-> "get", data |-> <<>>])
    BY <1>9 DEF SpawnChunk, Unspawned, ChunkTo
  <2>3. task[f] = "post" /\ UNCHANGED <<task, main, succeeded, failed>>
    BY <1>9 DEF SpawnChunk, fileVars, summaryVars
  <2> QED BY <1>a, <2>1, <2>2, <2>3, ChunkMoved
<1>10. ASSUME NEW f \in Files, FinishFile(f) PROVE ControlInv'
  <2>1. PICK t \in {"ok", "err"} :
          /\ task' = [task EXCEPT ![f] = t] /\ task[f] = "post"
          /\ UNCHANGED <<chunk, main, succeeded, failed>>
    BY <1>10 DEF FinishFile, FileEnds, summaryVars
  <2>2. Idle(f)
    BY <1>10 DEF FinishFile, HandlesDone, AllEnded, Idle, HoldsPermit
  <2> QED BY <1>a, <2>1, <2>2, FileMoved
<1>11. ASSUME NEW f \in Files, LateCall(f) PROVE ControlInv'
  <2>1. /\ task' = [task EXCEPT ![f] = "cancelled"] /\ task[f] = "late"
        /\ UNCHANGED <<chunk, main, succeeded, failed>>
    BY <1>11 DEF LateCall, summaryVars
  <2>2. main = "error"
    BY <2>1 DEF ControlInv, Control
  <2> QED BY <1>a, <2>1, <2>2, FileMoved
<1>12. ASSUME NEW f \in Files, NEW c \in Chunks(f), GetChunk(f, c) PROVE ControlInv'
  <2>1. PICK r \in ChunkTasks : ChunkTo(f, c, r)
    BY <1>12, GetStep
  <2>2. HoldsPermit(f, c) /\ UNCHANGED <<task, main, succeeded, failed>>
    BY <1>12 DEF GetChunk, fileVars, summaryVars, HoldsPermit
  <2> QED BY <1>a, <2>1, <2>2, ChunkMoved
<1>13. ASSUME NEW f \in Files, NEW c \in Chunks(f), WriteChunk(f, c) PROVE ControlInv'
  <2>1. PICK r \in ChunkTasks : ChunkTo(f, c, r)
    BY <1>13, WriteStep
  <2>2. HoldsPermit(f, c) /\ UNCHANGED <<task, main, succeeded, failed>>
    BY <1>13 DEF WriteChunk, fileVars, summaryVars, HoldsPermit
  <2> QED BY <1>a, <2>1, <2>2, ChunkMoved
<1>14. CASE UNCHANGED vars \/ \E f \in Files : Replaced(f)
  <2>1. UNCHANGED <<chunk, task, main, succeeded, failed>>
    BY <1>14 DEF vars, Replaced, fileVars, summaryVars
  <2> QED BY <1>a, <2>1, ControlKept DEF ControlInv
<1> QED
  BY <1>1, <1>2, <1>3, <1>4, <1>5, <1>6, <1>7, <1>8, <1>9, <1>10, <1>11, <1>12, <1>13, <1>14
     DEF Next, MainStep, FileStep, ChunkStep, Terminated

(* What QuietWhenReturned says of one step.                                 *)
LEMMA QuietStep ==
  TypesOK /\ ControlInv /\ [Next]_vars => [main = "returned" => UNCHANGED local]_vars
<1> SUFFICES ASSUME TypesOK, ControlInv, [Next]_vars, main = "returned" PROVE local' = local
  OBVIOUS
<1>1. \A f \in Files : task[f] \in {"ok", "err"} /\ Idle(f)
  BY DEF ControlInv, Control
<1>2. \A f \in Files : \A c \in Chunks(f) : ~WriteChunk(f, c)
  BY <1>1 DEF WriteChunk, Idle, HoldsPermit
<1>3. \A f \in Files : ~SmallPut(f) /\ ~CreateFile(f) /\ ~FinishFile(f) /\ ~LateCall(f)
  BY <1>1 DEF SmallPut, CreateFile, FinishFile, LateCall
<1>4. \A f \in Files : \A c \in Chunks(f) : GetChunk(f, c) => local' = local
  BY DEF GetChunk
<1>5. \A f \in Files :
        SmallPermit(f) \/ SmallGet(f) \/ SpawnChunk(f) \/ Dispatch(f) \/ JoinFile(f) \/ Replaced(f)
          => local' = local
  BY DEF SmallPermit, SmallGet, SpawnChunk, Dispatch, JoinFile, Replaced
<1>6. Return \/ DispatchFails \/ UNCHANGED vars => local' = local
  BY DEF Return, DispatchFails, vars
<1> QED
  BY <1>2, <1>3, <1>4, <1>5, <1>6 DEF Next, MainStep, FileStep, ChunkStep, Terminated

------------------------------------------------------------------------------
(* Permits.                                                                 *)
RunStates == {"small", "get", "put", "create", "post"}
RunningFiles == {f \in Files : Running(f)}
One(b) == IF b THEN 1 ELSE 0
PermitInv ==
  /\ IsFiniteSet(ChunkHolders)
  /\ file_permits + Cardinality(RunningFiles) = parallel_files
  /\ chunk_permits + Cardinality(ChunkHolders) + Cardinality(SmallHolders) = concurrency

LEMMA CountMoves ==
  ASSUME NEW S, IsFiniteSet(S), NEW x, NEW b \in BOOLEAN
  PROVE  LET T == IF b THEN S \cup {x} ELSE S \ {x}
         IN /\ IsFiniteSet(T) /\ Cardinality(S) \in Nat /\ Cardinality(T) \in Nat
            /\ Cardinality(T) = Cardinality(S) + One(b) - One(x \in S)
<1>1. IsFiniteSet(S \cup {x}) /\ IsFiniteSet(S \ {x}) /\ Cardinality(S) \in Nat
  BY FS_AddElement, FS_RemoveElement, FS_CardinalityType
<1>2. x \notin S => Cardinality(S \cup {x}) = Cardinality(S) + 1 /\ S \ {x} = S
  BY FS_AddElement
<1>3. x \in S => Cardinality(S \ {x}) = Cardinality(S) - 1 /\ S \cup {x} = S
  BY FS_RemoveElement
<1>4. Cardinality(S \cup {x}) \in Nat /\ Cardinality(S \ {x}) \in Nat
  BY <1>1, FS_CardinalityType
<1> QED BY <1>1, <1>2, <1>3, <1>4 DEF One

LEMMA FileSets == IsFiniteSet(RunningFiles) /\ IsFiniteSet(SmallHolders)
BY DownloadAssumption, FS_Subset DEF RunningFiles, SmallHolders

LEMMA HoldersKept ==
  ASSUME args' = args, chunk' = chunk
  PROVE  ChunkHolders' = ChunkHolders
<1>1. \A f \in Files : Chunks(f)' = Chunks(f)
  BY ChunksKept
<1> QED BY <1>1 DEF ChunkHolders, HoldsPermit

(* A task of a file moves on, with the permits it takes and gives back.     *)
LEMMA FilePermitsMove ==
  ASSUME TypesOK, PermitInv, args' = args, chunk' = chunk, NEW f \in Files, NEW t,
         task' = [task EXCEPT ![f] = t],
         file_permits' = file_permits + One(Running(f)) - One(t \in RunStates),
         chunk_permits' = chunk_permits + One(task[f] = "get") - One(t = "get")
  PROVE  PermitInv'
<1>1. RunningFiles' = IF t \in RunStates THEN RunningFiles \cup {f} ELSE RunningFiles \ {f}
  BY DEF RunningFiles, Running, RunStates, TypesOK
<1>2. SmallHolders' = IF t = "get" THEN SmallHolders \cup {f} ELSE SmallHolders \ {f}
  BY DEF SmallHolders, TypesOK
<1>3. (f \in RunningFiles <=> Running(f)) /\ (f \in SmallHolders <=> task[f] = "get")
  BY DEF RunningFiles, SmallHolders
<1>4. /\ (t \in RunStates) \in BOOLEAN /\ (t = "get") \in BOOLEAN
  OBVIOUS
<1> DEFINE m == Cardinality(RunningFiles)
           n == Cardinality(SmallHolders)
           k == Cardinality(ChunkHolders)
           q == Cardinality(RunningFiles')
           s == Cardinality(SmallHolders')
<1>5. m \in Nat /\ q = m + One(t \in RunStates) - One(f \in RunningFiles)
  BY <1>1, <1>4, FileSets, CountMoves
<1>6. n \in Nat /\ s = n + One(t = "get") - One(f \in SmallHolders)
  BY <1>2, <1>4, FileSets, CountMoves
<1>7. k \in Nat /\ IsFiniteSet(ChunkHolders) /\ file_permits + m = parallel_files
      /\ chunk_permits + k + n = concurrency /\ file_permits \in Int /\ chunk_permits \in Int
  BY FS_CardinalityType DEF PermitInv, TypesOK
<1>8. ChunkHolders' = ChunkHolders
  BY HoldersKept
<1>9. One(f \in RunningFiles) = One(Running(f)) /\ One(f \in SmallHolders) = One(task[f] = "get")
  BY <1>3 DEF One
<1> HIDE DEF m, n, k, q, s
<1>10. /\ One(Running(f)) \in Int /\ One(t \in RunStates) \in Int
       /\ One(task[f] = "get") \in Int /\ One(t = "get") \in Int
  BY DEF One
<1>11. file_permits' + q = parallel_files /\ chunk_permits' + k + s = concurrency
  <2>1. q = m + One(t \in RunStates) - One(Running(f)) /\ s = n + One(t = "get") - One(task[f] = "get")
    BY <1>5, <1>6, <1>9
  <2> QED BY <1>5, <1>6, <1>7, <1>10, <2>1
<1> QED BY <1>7, <1>8, <1>11 DEF PermitInv, q, s, k

(* The same for the task of a chunk.                                        *)
LEMMA ChunkPermitsMove ==
  ASSUME TypesOK, PermitInv, args' = args, task' = task, file_permits' = file_permits,
         NEW f \in Files, NEW c \in Chunks(f), NEW r \in ChunkTasks,
         ChunkTo(f, c, r),
         chunk_permits' = chunk_permits + One(HoldsPermit(f, c)) - One(r.state \in {"get", "write"})
  PROVE  PermitInv'
<1> DEFINE b == r.state \in {"get", "write"}
<1>1. ChunkHolders' = IF b THEN ChunkHolders \cup {<<f, c>>} ELSE ChunkHolders \ {<<f, c>>}
  <2>1. /\ \A g \in Files : g # f => chunk'[g] = chunk[g]
        /\ chunk'[f][c] = r
        /\ \A d \in Chunks(f) : d # c => chunk'[f][d] = chunk[f][d]
    <3>1. ChunksOK
      BY DEF TypesOK
    <3> QED BY <3>1, OneChunk
  <2>2. \A g \in Files : Chunks(g)' = Chunks(g)
    BY ChunksKept
  <2> DEFINE H(g) == {d \in Chunks(g) : HoldsPermit(g, d)}
             K(g) == {d \in Chunks(g) : chunk'[g][d].state \in {"get", "write"}}
  <2>3. ChunkHolders = UNION {{g} \X H(g) : g \in Files}
    BY DEF ChunkHolders
  <2>4. ChunkHolders' = UNION {{g} \X K(g) : g \in Files}
    BY <2>2 DEF ChunkHolders, HoldsPermit
  <2>5. \A g \in Files : g # f => K(g) = H(g)
    BY <2>1 DEF HoldsPermit
  <2>6. K(f) = IF b THEN H(f) \cup {c} ELSE H(f) \ {c}
    BY <2>1 DEF HoldsPermit
  <2> HIDE DEF H, K, b
  <2>7. \A g, d : <<g, d>> \in ChunkHolders <=> g \in Files /\ d \in H(g)
    BY <2>3
  <2>8. \A x \in ChunkHolders : \E g, d : x = <<g, d>>
    BY <2>3
  <2>9. \A g, d : <<g, d>> \in ChunkHolders' <=> g \in Files /\ d \in K(g)
    BY <2>4
  <2>10. \A x \in ChunkHolders' : \E g, d : x = <<g, d>>
    BY <2>4
  <2>11. CASE b
    <3>1. ASSUME NEW g, NEW d
          PROVE  <<g, d>> \in ChunkHolders' <=> <<g, d>> \in ChunkHolders \/ <<g, d>> = <<f, c>>
      <4>1. <<g, d>> = <<f, c>> <=> g = f /\ d = c
        OBVIOUS
      <4>2. <<g, d>> \in ChunkHolders <=> g \in Files /\ d \in H(g)
        BY <2>7
      <4>3. <<g, d>> \in ChunkHolders' <=> g \in Files /\ d \in K(g)
        BY <2>9
      <4>4. CASE g # f
        BY <2>5, <4>1, <4>2, <4>3, <4>4
      <4>5. CASE g = f
        BY <2>6, <2>11, <4>1, <4>2, <4>3, <4>5
      <4> QED BY <4>4, <4>5
    <3>2. \A x : x \in ChunkHolders' <=> x \in ChunkHolders \cup {<<f, c>>}
      BY <2>8, <2>10, <3>1
    <3> QED BY <2>11, <3>2
  <2>12. CASE ~b
    <3>1. ASSUME NEW g, NEW d
          PROVE  <<g, d>> \in ChunkHolders' <=> <<g, d>> \in ChunkHolders /\ <<g, d>> # <<f, c>>
      <4>1. <<g, d>> = <<f, c>> <=> g = f /\ d = c
        OBVIOUS
      <4>2. <<g, d>> \in ChunkHolders <=> g \in Files /\ d \in H(g)
        BY <2>7
      <4>3. <<g, d>> \in ChunkHolders' <=> g \in Files /\ d \in K(g)
        BY <2>9
      <4>4. CASE g # f
        BY <2>5, <4>1, <4>2, <4>3, <4>4
      <4>5. CASE g = f
        BY <2>6, <2>12, <4>1, <4>2, <4>3, <4>5
      <4> QED BY <4>4, <4>5
    <3>2. \A x : x \in ChunkHolders' <=> x \in ChunkHolders \ {<<f, c>>}
      BY <2>8, <2>10, <3>1
    <3> QED BY <2>12, <3>2
  <2> QED BY <2>11, <2>12
<1>2. <<f, c>> \in ChunkHolders <=> HoldsPermit(f, c)
  BY DEF ChunkHolders
<1> DEFINE n == Cardinality(SmallHolders)
           k == Cardinality(ChunkHolders)
           s == Cardinality(ChunkHolders')
<1>3. b \in BOOLEAN
  OBVIOUS
<1> HIDE DEF b
<1>4. /\ IsFiniteSet(ChunkHolders) /\ n \in Nat /\ chunk_permits + k + n = concurrency
      /\ chunk_permits \in Int
  BY FileSets, FS_CardinalityType DEF PermitInv, TypesOK
<1>5. IsFiniteSet(ChunkHolders') /\ k \in Nat /\ s = k + One(b) - One(<<f, c>> \in ChunkHolders)
  BY <1>1, <1>3, <1>4, CountMoves
<1>6. RunningFiles' = RunningFiles /\ SmallHolders' = SmallHolders
  BY DEF RunningFiles, Running, SmallHolders
<1>7. One(<<f, c>> \in ChunkHolders) = One(HoldsPermit(f, c)) /\ One(HoldsPermit(f, c)) \in Int
      /\ One(b) \in Int /\ chunk_permits' = chunk_permits + One(HoldsPermit(f, c)) - One(b)
  BY <1>2 DEF One, b
<1> HIDE DEF n, k, s
<1>8. chunk_permits' + s + n = concurrency
  BY <1>4, <1>5, <1>7
<1> QED BY <1>5, <1>6, <1>8 DEF PermitInv, n, s

LEMMA PermitsInit == Init => PermitInv
<1> SUFFICES ASSUME Init PROVE PermitInv
  OBVIOUS
<1>1. ChunkHolders = {} /\ RunningFiles = {} /\ SmallHolders = {}
  <2>1. \A f \in Files : \A c \in Chunks(f) : chunk[f][c].state = "none"
    BY DEF Init
  <2>2. \A f \in Files : {c \in Chunks(f) : HoldsPermit(f, c)} = {}
    BY <2>1 DEF HoldsPermit
  <2>3. ChunkHolders = {}
    BY <2>2 DEF ChunkHolders
  <2>4. \A f \in Files : task[f] = "none"
    BY DEF Init
  <2> QED BY <2>3, <2>4 DEF RunningFiles, Running, SmallHolders
<1>2. Cardinality({}) = 0 /\ IsFiniteSet({})
  BY FS_EmptySet
<1> QED BY <1>1, <1>2, DownloadAssumption DEF PermitInv, Init

LEMMA PermitsStep == TypesOK /\ PermitInv /\ [Next]_vars => PermitInv'
<1> SUFFICES ASSUME TypesOK, PermitInv, [Next]_vars PROVE PermitInv'
  OBVIOUS
<1>a. args' = args
  BY ArgsKept
<1>t. file_permits \in Int /\ chunk_permits \in Int
  BY DEF TypesOK
<1>1. ASSUME NEW f \in Files, Dispatch(f) PROVE PermitInv'
  <2> DEFINE t == IF Small(f) THEN "small" ELSE IF args.api = "entries" THEN "create" ELSE "post"
  <2>1. /\ task' = [task EXCEPT ![f] = t] /\ task[f] = "none" /\ chunk' = chunk
        /\ file_permits' = file_permits - 1 /\ chunk_permits' = chunk_permits
    BY <1>1 DEF Dispatch, Waiting
  <2>2. t \in {"small", "create", "post"}
    OBVIOUS
  <2> HIDE DEF t
  <2>3. /\ One(Running(f)) = 0 /\ One(t \in RunStates) = 1
        /\ One(task[f] = "get") = 0 /\ One(t = "get") = 0
    BY <2>1, <2>2 DEF One, Running, RunStates
  <2>4. /\ file_permits' = file_permits + One(Running(f)) - One(t \in RunStates)
        /\ chunk_permits' = chunk_permits + One(task[f] = "get") - One(t = "get")
    BY <1>t, <2>1, <2>3
  <2> QED BY <1>a, <2>1, <2>4, FilePermitsMove
<1>2. ASSUME NEW f \in Files, SmallPermit(f) PROVE PermitInv'
  <2>1. /\ task' = [task EXCEPT ![f] = "get"] /\ task[f] = "small" /\ chunk' = chunk
        /\ file_permits' = file_permits /\ chunk_permits' = chunk_permits - 1
    BY <1>2 DEF SmallPermit
  <2>2. /\ One(Running(f)) = 1 /\ One("get" \in RunStates) = 1
        /\ One(task[f] = "get") = 0 /\ One("get" = "get") = 1
    BY <2>1 DEF One, Running, RunStates
  <2>3. /\ file_permits' = file_permits + One(Running(f)) - One("get" \in RunStates)
        /\ chunk_permits' = chunk_permits + One(task[f] = "get") - One("get" = "get")
    BY <1>t, <2>1, <2>2
  <2> QED BY <1>a, <2>1, <2>3, FilePermitsMove
<1>3. ASSUME NEW f \in Files, SmallGet(f) PROVE PermitInv'
  <2>1. PICK t \in {"put", "err"} :
          /\ task' = [task EXCEPT ![f] = t] /\ task[f] = "get" /\ chunk' = chunk
          /\ file_permits' = IF t = "put" THEN file_permits ELSE file_permits + 1
          /\ chunk_permits' = chunk_permits + 1
    BY <1>3 DEF SmallGet, FileEnds
  <2>2. /\ One(Running(f)) = 1 /\ One(t \in RunStates) = (IF t = "put" THEN 1 ELSE 0)
        /\ One(task[f] = "get") = 1 /\ One(t = "get") = 0
    BY <2>1 DEF One, Running, RunStates
  <2>3. /\ file_permits' = file_permits + One(Running(f)) - One(t \in RunStates)
        /\ chunk_permits' = chunk_permits + One(task[f] = "get") - One(t = "get")
    BY <1>t, <2>1, <2>2
  <2> QED BY <1>a, <2>1, <2>3, FilePermitsMove
<1>4. ASSUME NEW f \in Files, SmallPut(f) \/ FinishFile(f) PROVE PermitInv'
  <2>1. PICK t \in {"ok", "err"} :
          /\ task' = [task EXCEPT ![f] = t] /\ task[f] \in {"put", "post"} /\ chunk' = chunk
          /\ file_permits' = file_permits + 1 /\ chunk_permits' = chunk_permits
    BY <1>4 DEF SmallPut, FinishFile, FileEnds
  <2>2. /\ One(Running(f)) = 1 /\ One(t \in RunStates) = 0
        /\ One(task[f] = "get") = 0 /\ One(t = "get") = 0
    BY <2>1 DEF One, Running, RunStates
  <2>3. /\ file_permits' = file_permits + One(Running(f)) - One(t \in RunStates)
        /\ chunk_permits' = chunk_permits + One(task[f] = "get") - One(t = "get")
    BY <1>t, <2>1, <2>2
  <2> QED BY <1>a, <2>1, <2>3, FilePermitsMove
<1>5. ASSUME NEW f \in Files, CreateFile(f) PROVE PermitInv'
  <2>1. PICK t \in {"post", "err"} :
          /\ task' = [task EXCEPT ![f] = t] /\ task[f] = "create" /\ chunk' = chunk
          /\ file_permits' = IF t = "post" THEN file_permits ELSE file_permits + 1
          /\ chunk_permits' = chunk_permits
    BY <1>5 DEF CreateFile, FileEnds
  <2>2. /\ One(Running(f)) = 1 /\ One(t \in RunStates) = (IF t = "post" THEN 1 ELSE 0)
        /\ One(task[f] = "get") = 0 /\ One(t = "get") = 0
    BY <2>1 DEF One, Running, RunStates
  <2>3. /\ file_permits' = file_permits + One(Running(f)) - One(t \in RunStates)
        /\ chunk_permits' = chunk_permits + One(task[f] = "get") - One(t = "get")
    BY <1>t, <2>1, <2>2
  <2> QED BY <1>a, <2>1, <2>3, FilePermitsMove
<1>6. ASSUME NEW f \in Files, LateCall(f) PROVE PermitInv'
  <2>1. /\ task' = [task EXCEPT ![f] = "cancelled"] /\ task[f] = "late" /\ chunk' = chunk
        /\ file_permits' = file_permits /\ chunk_permits' = chunk_permits
    BY <1>6 DEF LateCall
  <2>2. /\ One(Running(f)) = 0 /\ One("cancelled" \in RunStates) = 0
        /\ One(task[f] = "get") = 0 /\ One("cancelled" = "get") = 0
    BY <2>1 DEF One, Running, RunStates
  <2>3. /\ file_permits' = file_permits + One(Running(f)) - One("cancelled" \in RunStates)
        /\ chunk_permits' = chunk_permits + One(task[f] = "get") - One("cancelled" = "get")
    BY <1>t, <2>1, <2>2
  <2> QED BY <1>a, <2>1, <2>3, FilePermitsMove
<1>7. ASSUME NEW f \in Files, SpawnChunk(f) PROVE PermitInv'
  <2> DEFINE r == [state |-> "get", data |-> <<>>]
  <2>1. r \in ChunkTasks /\ r.state = "get"
    BY DEF ChunkTasks, ChunkStates
  <2>2. PICK c \in Unspawned(f) : ChunkTo(f, c, r)
    BY <1>7 DEF SpawnChunk, ChunkTo
  <2>3. c \in Chunks(f) /\ ~HoldsPermit(f, c)
    BY <2>2 DEF Unspawned, HoldsPermit
  <2>4. chunk_permits' = chunk_permits - 1 /\ file_permits' = file_permits /\ task' = task
    BY <1>7 DEF SpawnChunk, fileVars
  <2>5. chunk_permits' = chunk_permits + One(HoldsPermit(f, c)) - One(r.state \in {"get", "write"})
    BY <1>t, <2>1, <2>3, <2>4 DEF One
  <2> HIDE DEF r
  <2> QED BY <1>a, <2>1, <2>2, <2>3, <2>4, <2>5, ChunkPermitsMove
<1>8. ASSUME NEW f \in Files, NEW c \in Chunks(f), GetChunk(f, c) PROVE PermitInv'
  <2>1. PICK r \in ChunkTasks :
          /\ ChunkTo(f, c, r)
          /\ \/ r.state = "write" /\ chunk_permits' = chunk_permits
             \/ r.state = "err" /\ chunk_permits' = chunk_permits + 1
    BY <1>8, GetStep
  <2>2. HoldsPermit(f, c) /\ file_permits' = file_permits /\ task' = task
    BY <1>8 DEF GetChunk, HoldsPermit, fileVars
  <2>3. chunk_permits' = chunk_permits + One(HoldsPermit(f, c)) - One(r.state \in {"get", "write"})
    BY <1>t, <2>1, <2>2 DEF One
  <2> QED BY <1>a, <2>1, <2>2, <2>3, ChunkPermitsMove
<1>9. ASSUME NEW f \in Files, NEW c \in Chunks(f), WriteChunk(f, c) PROVE PermitInv'
  <2>1. PICK r \in ChunkTasks :
          /\ ChunkTo(f, c, r) /\ r.state \in {"ok", "err"}
          /\ chunk_permits' = chunk_permits + 1
    BY <1>9, WriteStep
  <2>2. HoldsPermit(f, c) /\ file_permits' = file_permits /\ task' = task
    BY <1>9 DEF WriteChunk, HoldsPermit, fileVars
  <2>3. chunk_permits' = chunk_permits + One(HoldsPermit(f, c)) - One(r.state \in {"get", "write"})
    BY <1>t, <2>1, <2>2 DEF One
  <2> QED BY <1>a, <2>1, <2>2, <2>3, ChunkPermitsMove
<1>10. CASE DispatchFails
  <2>1. /\ file_permits' = file_permits + Cardinality(RunningFiles)
        /\ chunk_permits' = chunk_permits + Cardinality(SmallHolders) /\ chunk' = chunk
    BY <1>10 DEF DispatchFails, RunningFiles, SmallHolders
  <2>2. ASSUME NEW f \in Files PROVE ~Running(f)' /\ task'[f] # "get"
    <3>1. task'[f] = IF Blocking(f) THEN "late" ELSE IF Running(f) THEN "cancelled" ELSE task[f]
      BY <1>10 DEF DispatchFails
    <3> QED BY <3>1 DEF Running
  <2>3. RunningFiles' = {} /\ SmallHolders' = {}
    BY <2>2 DEF RunningFiles, SmallHolders
  <2>4. ChunkHolders' = ChunkHolders
    BY <1>a, <2>1, HoldersKept
  <2>5. Cardinality({}) = 0
    BY FS_EmptySet
  <2>6. /\ Cardinality(RunningFiles) \in Nat /\ Cardinality(SmallHolders) \in Nat
        /\ Cardinality(ChunkHolders) \in Nat
    BY FileSets, FS_CardinalityType DEF PermitInv
  <2>7. file_permits' + 0 = parallel_files
        /\ chunk_permits' + Cardinality(ChunkHolders) + 0 = concurrency
    BY <1>t, <2>1, <2>6 DEF PermitInv
  <2> QED BY <2>3, <2>4, <2>5, <2>7 DEF PermitInv
<1>11. CASE Return \/ UNCHANGED vars \/ \E f \in Files : Replaced(f) \/ JoinFile(f)
  <2>1. UNCHANGED <<chunk, task, file_permits, chunk_permits>>
    BY <1>11 DEF Return, Replaced, JoinFile, vars, fileVars
  <2>2. ChunkHolders' = ChunkHolders
    BY <1>a, <2>1, HoldersKept
  <2>3. RunningFiles' = RunningFiles /\ SmallHolders' = SmallHolders
    BY <2>1 DEF RunningFiles, Running, SmallHolders
  <2> QED BY <2>1, <2>2, <2>3 DEF PermitInv
<1> QED
  BY <1>1, <1>2, <1>3, <1>4, <1>5, <1>6, <1>7, <1>8, <1>9, <1>10, <1>11
     DEF Next, MainStep, FileStep, ChunkStep, Terminated

------------------------------------------------------------------------------
(* Blobs are replaced by later versions only, and failures are not undone.  *)
LEMMA Growing ==
  TypesOK /\ [Next]_vars => faults' >= faults /\ \A f \in Files : blob'[f] >= blob[f]
<1> SUFFICES ASSUME TypesOK, [Next]_vars
             PROVE  faults' >= faults /\ \A f \in Files : blob'[f] >= blob[f]
  OBVIOUS
<1>1. faults \in Nat /\ \A f \in Files : blob[f] \in Nat
  BY DEF TypesOK
<1>2. ASSUME NEW f \in Files, Replaced(f)
      PROVE  faults' = faults /\ \A g \in Files : blob'[g] >= blob[g]
  <2>1. faults' = faults /\ blob' = [blob EXCEPT ![f] = blob[f] + 1] /\ blob \in [Files -> Nat]
    BY <1>2 DEF Replaced, TypesOK
  <2> QED BY <1>1, <2>1
<1>3. ASSUME NEW f \in Files, NEW c \in Chunks(f), GetChunk(f, c) \/ WriteChunk(f, c)
      PROVE  blob' = blob /\ (faults' = faults \/ faults' = faults + 1)
  BY <1>3 DEF GetChunk, WriteChunk, CallFails
<1>4. ASSUME NEW f \in Files,
             \/ Dispatch(f) \/ JoinFile(f) \/ SmallPermit(f) \/ SmallGet(f) \/ SmallPut(f)
             \/ CreateFile(f) \/ SpawnChunk(f) \/ FinishFile(f) \/ LateCall(f)
      PROVE  blob' = blob /\ (faults' = faults \/ faults' = faults + 1)
  BY <1>4 DEF Dispatch, JoinFile, SmallPermit, SmallGet, SmallPut, CreateFile, SpawnChunk,
              FinishFile, LateCall, CallFails
<1>5. CASE Return \/ DispatchFails \/ UNCHANGED vars
  BY <1>5, <1>1 DEF Return, DispatchFails, vars, CallFails
<1> QED
  BY <1>1, <1>2, <1>3, <1>4, <1>5 DEF Next, MainStep, FileStep, ChunkStep, Terminated

(* What Data asks of a file, in terms of what a step leaves of it.          *)
LEMMA DataMoves ==
  ASSUME TypesOK, TypesOK', args' = args, NEW f \in Files, blob'[f] >= blob[f],
         \A c \in Chunks(f) : chunk'[f][c].state = "write" => Fetched(f, c, chunk'[f][c].data),
         \A c \in Chunks(f) : chunk'[f][c].state = "ok" /\ args.direct => c.off % ALIGN = 0,
         task'[f] = "put" =>
           (\E v \in VersionsSeen(f) : body'[f] = Content(f, v)) /\ Md5Passes(f, body'[f]),
         task'[f] = "post" \/ (args.api = "ranges" /\ task'[f] = "none") =>
           Filled(f, local'[f], chunk'[f]),
         task'[f] = "ok" => Complete(f, local'[f])
  PROVE  Data(f)'
<1>1. \A v \in VersionsSeen(f) : v \in VersionsSeen(f)'
  <2>1. blob[f] \in Nat /\ blob'[f] \in Nat
    BY DEF TypesOK
  <2> QED BY <2>1 DEF VersionsSeen
<1>2. /\ Chunks(f)' = Chunks(f) /\ RangesOf(f)' = RangesOf(f)
  BY ChunksKept
<1>3. \A p, u : UnitSeen(f, p, u) =>
        \E v \in VersionsSeen(f)' : u = IF p <= Lengths[f][v] THEN <<v, p>> ELSE Hole
  BY <1>1 DEF UnitSeen
<1>4. (\A c \in Chunks(f) : chunk[f][c].state = "write" => Fetched(f, c, chunk[f][c].data))'
  <2> SUFFICES ASSUME NEW c \in Chunks(f), chunk'[f][c].state = "write"
               PROVE  Fetched(f, c, chunk[f][c].data)'
    BY <1>2
  <2>1. PICK v \in VersionsSeen(f) :
          LET d == chunk'[f][c].data
          IN /\ Len(d) <= c.len /\ c.off + Len(d) <= Lengths[f][v]
             /\ Len(d) = c.len \/ c.off + Len(d) = Lengths[f][v]
             /\ \A i \in DOMAIN d : d[i] = <<v, c.off + i>>
    BY DEF Fetched
  <2> QED BY <1>1, <2>1 DEF Fetched
<1>5. (\A c \in Chunks(f) : chunk[f][c].state = "ok" /\ args.direct => c.off % ALIGN = 0)'
  BY <1>2
<1>6. (task[f] = "put" => (\E v \in VersionsSeen(f) : body[f] = Content(f, v)) /\ Md5Passes(f, body[f]))'
  BY <1>1 DEF Md5Passes
<1>7. (Prepared(f) => Filled(f, local[f], chunk[f]))'
  <2> SUFFICES ASSUME Prepared(f)' PROVE Filled(f, local[f], chunk[f])'
    OBVIOUS
  <2>1. Filled(f, local'[f], chunk'[f])
    BY DEF Prepared
  <2> DEFINE file == local'[f]
  <2>2. /\ Len(file) >= Size(f) /\ (~args.direct => Len(file) = Size(f))
        /\ \A p \in DOMAIN file : file[p] = Hole \/ UnitSeen(f, p, file[p])
        /\ \A c \in Chunks(f) : chunk'[f][c].state = "ok" =>
             \A p \in DOMAIN file : Within(c, p) => UnitSeen(f, p, file[p])
    BY <2>1 DEF Filled
  <2>3. \A p \in DOMAIN file : file[p] = Hole \/ UnitSeen(f, p, local[f][p])'
    BY <1>3, <2>2 DEF UnitSeen
  <2>4. ASSUME NEW c \in Chunks(f), chunk'[f][c].state = "ok", NEW p \in DOMAIN file, Within(c, p)
        PROVE  UnitSeen(f, p, local[f][p])'
    <3>1. UnitSeen(f, p, file[p])
      BY <2>2, <2>4
    <3>2. \E v \in VersionsSeen(f)' : file[p] = IF p <= Lengths[f][v] THEN <<v, p>> ELSE Hole
      BY <1>3, <3>1
    <3> QED BY <3>2 DEF UnitSeen
  <2> QED BY <1>2, <2>2, <2>3, <2>4 DEF Filled, Within
<1>8. (task[f] = "ok" => Complete(f, local[f]))'
  <2> SUFFICES ASSUME task'[f] = "ok" PROVE Complete(f, local[f])'
    OBVIOUS
  <2> DEFINE file == local'[f]
  <2>1. /\ \E v \in VersionsSeen(f) : Len(file) = Lengths[f][v]
        /\ \A i \in DOMAIN RangesOf(f) :
             \A p \in RangesOf(f)[i].off + 1 .. RangesOf(f)[i].off + RangesOf(f)[i].len :
               p <= Len(file) => UnitSeen(f, p, file[p])
        /\ f \in HasMd5 /\ args.check_md5 => file = Content(f, 1)
    BY DEF Complete
  <2>2. ASSUME NEW i \in DOMAIN RangesOf(f),
               NEW p \in RangesOf(f)[i].off + 1 .. RangesOf(f)[i].off + RangesOf(f)[i].len,
               p <= Len(file)
        PROVE  UnitSeen(f, p, local[f][p])'
    <3>1. UnitSeen(f, p, file[p])
      BY <2>1, <2>2
    <3>2. \E v \in VersionsSeen(f)' : file[p] = IF p <= Lengths[f][v] THEN <<v, p>> ELSE Hole
      BY <1>3, <3>1
    <3> QED BY <3>2 DEF UnitSeen
  <2> QED BY <1>1, <1>2, <2>1, <2>2 DEF Complete
<1> QED BY <1>4, <1>5, <1>6, <1>7, <1>8 DEF Data

(* A file of which a step changes nothing but the version of its blob, and  *)
(* perhaps its task.                                                        *)
LEMMA DataKept ==
  ASSUME TypesOK, TypesOK', args' = args, NEW f \in Files, blob'[f] >= blob[f], Data(f),
         chunk'[f] = chunk[f], local'[f] = local[f], body'[f] = body[f],
         task'[f] = "put" => task[f] = "put", task'[f] = "ok" => task[f] = "ok",
         task'[f] = "post" \/ (args.api = "ranges" /\ task'[f] = "none") => Prepared(f)
  PROVE  Data(f)'
BY DataMoves DEF Data

LEMMA HolesFilled ==
  ASSUME NEW f \in Files, NEW tasks, \A c \in Chunks(f) : tasks[c].state # "ok"
  PROVE  Filled(f, Holes(Size(f)), tasks)
<1>1. Size(f) \in Nat
  BY FileFacts
<1>2. /\ Holes(Size(f)) \in Seq(Units) /\ Len(Holes(Size(f))) = Size(f)
      /\ \A p \in 1 .. Size(f) : Holes(Size(f))[p] = Hole
  BY <1>1, HolesFacts
<1> DEFINE s == Holes(Size(f))
<1> HIDE DEF s
<1>3. DOMAIN s = 1 .. Size(f) /\ Len(s) = Size(f) /\ \A p \in DOMAIN s : s[p] = Hole
  BY <1>2 DEF s
<1>4. Filled(f, s, tasks)
  BY <1>1, <1>3 DEF Filled
<1> QED BY <1>4 DEF s

(* A small blob as it is put on disk.                                       *)
LEMMA PutComplete ==
  ASSUME TypesOK, NEW f \in Files, args.api = "entries", NEW v \in VersionsSeen(f),
         Md5Passes(f, Content(f, v))
  PROVE  Complete(f, Content(f, v))
<1>1. v \in DOMAIN Lengths[f] /\ v \in Nat /\ Lengths[f][v] \in Nat
  BY SeenFacts
<1>2. /\ Len(Content(f, v)) = Lengths[f][v]
      /\ \A p \in 1 .. Lengths[f][v] : Content(f, v)[p] = <<v, p>>
  BY <1>1, ContentFacts
<1>3. ASSUME NEW i \in DOMAIN RangesOf(f),
             NEW p \in RangesOf(f)[i].off + 1 .. RangesOf(f)[i].off + RangesOf(f)[i].len,
             p <= Len(Content(f, v))
      PROVE  UnitSeen(f, p, Content(f, v)[p])
  <2>1. RangesOf(f)[i].off \in Nat /\ RangesOf(f)[i].len \in Nat
    BY RangeFacts
  <2>2. p \in 1 .. Lengths[f][v]
    BY <1>1, <1>2, <1>3, <2>1
  <2>3. Content(f, v)[p] = <<v, p>> /\ p <= Lengths[f][v]
    BY <1>1, <1>2, <2>2
  <2> QED BY <2>3 DEF UnitSeen
<1>4. f \in HasMd5 /\ args.check_md5 => Content(f, v) = Content(f, 1)
  BY DEF Md5Passes
<1> QED BY <1>2, <1>3, <1>4 DEF Complete

(* What is left on disk when all chunks of a file are written: its length   *)
(* is the listed one, and every place of its ranges is filled.              *)
LEMMA WholeFacts ==
  ASSUME TypesOK, NEW f \in Files, Filled(f, local[f], chunk[f]),
         \A c \in Chunks(f) : chunk[f][c].state = "ok",
         NEW whole, whole = IF args.direct THEN SetLen(local[f], Size(f)) ELSE local[f]
  PROVE  /\ whole \in Seq(Units) /\ Len(whole) = Size(f) /\ Size(f) \in Nat
         /\ \A i \in DOMAIN RangesOf(f) :
              \A p \in RangesOf(f)[i].off + 1 .. RangesOf(f)[i].off + RangesOf(f)[i].len :
                p \in 1 .. Size(f) /\ UnitSeen(f, p, whole[p])
<1> DEFINE s == local[f]
<1>1. s \in Seq(Units) /\ Size(f) \in Nat
  BY FileFacts DEF TypesOK
<1>2. /\ Len(s) >= Size(f) /\ (~args.direct => Len(s) = Size(f))
      /\ \A c \in Chunks(f) : \A p \in DOMAIN s : Within(c, p) => UnitSeen(f, p, s[p])
  BY DEF Filled
<1> HIDE DEF s
<1>3. /\ SetLen(s, Size(f)) \in Seq(Units) /\ Len(SetLen(s, Size(f))) = Size(f)
      /\ \A p \in 1 .. Size(f) : SetLen(s, Size(f))[p] = IF p <= Len(s) THEN s[p] ELSE Hole
  BY <1>1, SetLenFacts
<1>4. whole = IF args.direct THEN SetLen(s, Size(f)) ELSE s
  BY DEF s
<1>5. whole \in Seq(Units) /\ Len(whole) = Size(f) /\ \A p \in 1 .. Size(f) : whole[p] = s[p]
  <2>1. CASE args.direct
    BY <1>1, <1>2, <1>3, <1>4, <2>1
  <2>2. CASE ~args.direct
    BY <1>1, <1>2, <1>4, <2>2
  <2> QED BY <2>1, <2>2
<1>6. ASSUME NEW i \in DOMAIN RangesOf(f),
             NEW p \in RangesOf(f)[i].off + 1 .. RangesOf(f)[i].off + RangesOf(f)[i].len
      PROVE  p \in 1 .. Size(f) /\ UnitSeen(f, p, whole[p])
  <2>1. /\ RangesOf(f)[i].off \in Nat /\ RangesOf(f)[i].len \in Nat
        /\ RangesOf(f)[i].off + RangesOf(f)[i].len <= Size(f)
    BY RangeFacts
  <2>2. p \in 1 .. Size(f) /\ p \in DOMAIN s
    BY <1>1, <1>2, <2>1
  <2>3. \E c \in Chunks(f) : Within(c, p)
    BY ChunksCover
  <2> QED BY <1>2, <1>5, <2>2, <2>3
<1> QED BY <1>1, <1>5, <1>6

LEMMA FinishComplete ==
  ASSUME TypesOK, NEW f \in Files, Filled(f, local[f], chunk[f]),
         \A c \in Chunks(f) : chunk[f][c].state = "ok",
         NEW whole, whole = IF args.direct THEN SetLen(local[f], Size(f)) ELSE local[f],
         Md5Passes(f, whole)
  PROVE  Complete(f, whole)
<1>1. /\ Len(whole) = Size(f)
      /\ \A i \in DOMAIN RangesOf(f) :
           \A p \in RangesOf(f)[i].off + 1 .. RangesOf(f)[i].off + RangesOf(f)[i].len :
             UnitSeen(f, p, whole[p])
  BY WholeFacts
<1>2. \E v \in VersionsSeen(f) : Len(whole) = Lengths[f][v]
  BY <1>1, SeenFacts DEF Size
<1>3. f \in HasMd5 /\ args.check_md5 => whole = Content(f, 1)
  BY DEF Md5Passes
<1> QED BY <1>1, <1>2, <1>3 DEF Complete

LEMMA DataInit == Init => DataInv
<1> SUFFICES ASSUME Init, NEW f \in Files PROVE Data(f)
  BY DEF DataInv
<1>1. task[f] = "none" /\ \A c \in Chunks(f) : chunk[f][c].state = "none"
  BY DEF Init
<1>2. Prepared(f) => local[f] = Holes(Size(f))
  BY <1>1 DEF Init, Prepared
<1>3. Prepared(f) => Filled(f, local[f], chunk[f])
  BY <1>1, <1>2, HolesFilled
<1> QED BY <1>1, <1>3 DEF Data

(* A step that concerns one file.                                           *)
LEMMA DataStep == TypesOK /\ ControlInv /\ DataInv /\ [Next]_vars => DataInv'
<1> SUFFICES ASSUME TypesOK, ControlInv, DataInv, [Next]_vars, NEW g \in Files PROVE Data(g)'
  BY DEF DataInv
<1>a. args' = args /\ TypesOK' /\ blob'[g] >= blob[g]
  BY ArgsKept, TypesStep, Growing
<1>b. Data(g) /\ Control(g)
  BY DEF DataInv, ControlInv
<1>c. ASSUME chunk'[g] = chunk[g], local'[g] = local[g], body'[g] = body[g],
             task'[g] \in {task[g], "small", "get", "create", "err", "late", "cancelled"}
      PROVE  Data(g)'
  BY <1>a, <1>b, <1>c, DataKept DEF Prepared
<1>k. /\ \A c \in Chunks(g) : chunk[g][c].state = "write" => Fetched(g, c, chunk[g][c].data)
      /\ \A c \in Chunks(g) : chunk[g][c].state = "ok" /\ args.direct => c.off % ALIGN = 0
  BY <1>b DEF Data
<1>d. ASSUME chunk'[g] = chunk[g],
             task'[g] \in {"small", "get", "create", "err", "late", "cancelled"}
      PROVE  Data(g)'
  BY <1>a, <1>d, <1>k, DataMoves
<1>1. ASSUME NEW f \in Files, Dispatch(f) PROVE Data(g)'
  <2>1. /\ task' = [task EXCEPT ![f] = IF Small(f) THEN "small"
                                       ELSE IF args.api = "entries" THEN "create" ELSE "post"]
        /\ task[f] = "none" /\ UNCHANGED <<chunk, local, body>>
    BY <1>1 DEF Dispatch, Waiting
  <2>2. CASE g # f
    BY <1>c, <2>1, <2>2
  <2>3. CASE g = f /\ (Small(f) \/ args.api = "entries")
    BY <1>d, <2>1, <2>3 DEF TypesOK
  <2>4. CASE g = f /\ ~Small(f) /\ args.api # "entries"
    <3>1. task'[g] = "post" /\ task[g] = "none" /\ args.api = "ranges"
      BY <2>1, <2>4, ArgsAre DEF TypesOK
    <3> QED BY <1>a, <1>b, <2>1, <3>1, DataKept DEF Prepared
  <2> QED BY <2>2, <2>3, <2>4
<1>2. CASE DispatchFails
  <2>1. /\ task'[g] = IF Blocking(g) THEN "late" ELSE IF Running(g) THEN "cancelled" ELSE task[g]
        /\ UNCHANGED <<chunk, local, body>>
    BY <1>2 DEF DispatchFails
  <2> QED BY <1>c, <2>1
<1>3. ASSUME NEW f \in Files, SmallPermit(f) PROVE Data(g)'
  <2>1. task' = [task EXCEPT ![f] = "get"] /\ UNCHANGED <<chunk, local, body>>
    BY <1>3 DEF SmallPermit
  <2>2. task'[g] \in {task[g], "get"}
    BY <2>1 DEF TypesOK
  <2> QED BY <1>c, <2>1, <2>2
<1>4. ASSUME NEW f \in Files, SmallGet(f) PROVE Data(g)'
  <2>1. UNCHANGED <<chunk, local>>
    BY <1>4 DEF SmallGet
  <2>2. CASE g # f
    <3>1. task'[g] = task[g] /\ body'[g] = body[g]
      BY <1>4, <2>2 DEF SmallGet, FileEnds, TypesOK
    <3> QED BY <1>c, <2>1, <3>1
  <2>3. CASE g = f
    <3>1. \/ /\ task'[g] = "put" /\ body'[g] = Content(g, blob[g])
             /\ Md5Passes(g, Content(g, blob[g]))
          \/ task'[g] = "err"
      BY <1>4, <2>3 DEF SmallGet, FileEnds, TypesOK
    <3>2. CASE task'[g] = "put" /\ body'[g] = Content(g, blob[g]) /\ Md5Passes(g, Content(g, blob[g]))
      <4>1. blob[g] \in VersionsSeen(g)
        BY SeenFacts
      <4> QED BY <1>a, <1>k, <2>1, <3>2, <4>1, DataMoves
    <3> QED BY <1>d, <2>1, <3>1, <3>2
  <2> QED BY <2>2, <2>3
<1>5. ASSUME NEW f \in Files, SmallPut(f) PROVE Data(g)'
  <2>1. UNCHANGED <<chunk, body>> /\ task[f] = "put"
    BY <1>5 DEF SmallPut
  <2>2. CASE g # f
    <3>1. task'[g] = task[g] /\ local'[g] = local[g]
      BY <1>5, <2>2 DEF SmallPut, FileEnds, TypesOK
    <3> QED BY <1>c, <2>1, <3>1
  <2>3. CASE g = f
    <3>1. (task'[g] = "ok" /\ local'[g] = body[g]) \/ task'[g] = "err"
      BY <1>5, <2>3 DEF SmallPut, FileEnds, TypesOK
    <3>2. CASE task'[g] = "ok" /\ local'[g] = body[g]
      <4>1. PICK v \in VersionsSeen(g) : body[g] = Content(g, v)
        BY <1>b, <2>1, <2>3 DEF Data
      <4>2. Md5Passes(g, Content(g, v)) /\ args.api = "entries"
        BY <1>b, <2>1, <2>3, <4>1 DEF Data, Control, Small
      <4>3. Complete(g, local'[g])
        BY <3>2, <4>1, <4>2, PutComplete
      <4> QED BY <1>a, <1>k, <2>1, <3>2, <4>3, DataMoves
    <3> QED BY <1>d, <2>1, <3>1, <3>2
  <2> QED BY <2>2, <2>3
<1>6. ASSUME NEW f \in Files, CreateFile(f) PROVE Data(g)'
  <2>1. UNCHANGED <<chunk, body>> /\ task[f] = "create"
    BY <1>6 DEF CreateFile
  <2>2. CASE g # f
    <3>1. task'[g] = task[g] /\ local'[g] = local[g]
      BY <1>6, <2>2 DEF CreateFile, FileEnds, TypesOK
    <3> QED BY <1>c, <2>1, <3>1
  <2>3. CASE g = f
    <3>1. (task'[g] = "post" /\ local'[g] = Holes(Size(g))) \/ task'[g] = "err"
      BY <1>6, <2>3 DEF CreateFile, FileEnds, Created, TypesOK
    <3>2. CASE task'[g] = "post" /\ local'[g] = Holes(Size(g))
      <4>1. \A c \in Chunks(g) : chunk'[g][c].state # "ok"
        BY <1>b, <2>1, <2>3 DEF Control, Unspawned
      <4>2. Filled(g, local'[g], chunk'[g])
        BY <3>2, <4>1, HolesFilled
      <4> QED BY <1>a, <1>k, <2>1, <3>2, <4>2, DataMoves
    <3> QED BY <1>d, <2>1, <3>1, <3>2
  <2> QED BY <2>2, <2>3
<1>7. ASSUME NEW f \in Files, SpawnChunk(f) PROVE Data(g)'
  <2>1. UNCHANGED <<task, local, body>>
    BY <1>7 DEF SpawnChunk, fileVars
  <2> DEFINE r == [state |-> "get", data |-> <<>>]
  <2>2. PICK c \in Chunks(f) : ChunkTo(f, c, r)
    BY <1>7 DEF SpawnChunk, Unspawned, ChunkTo
  <2>3. r.state = "get"
    OBVIOUS
  <2> HIDE DEF r
  <2>4. ChunksOK
    BY DEF TypesOK
  <2>5. /\ \A h \in Files : h # f => chunk'[h] = chunk[h]
        /\ chunk'[f][c].state = "get" /\ \A d \in Chunks(f) : d # c => chunk'[f][d] = chunk[f][d]
    BY <2>2, <2>3, <2>4, OneChunk
  <2>6. CASE g # f
    BY <1>c, <2>1, <2>5, <2>6
  <2>7. CASE g = f
    <3>1. \A d \in Chunks(g) : chunk'[g][d] = chunk[g][d] \/ chunk'[g][d].state = "get"
      BY <2>5, <2>7
    <3>2. Filled(g, local[g], chunk[g]) => Filled(g, local'[g], chunk'[g])
      BY <2>1, <3>1 DEF Filled
    <3>3. task'[g] \in {"put", "ok"} => FALSE
      BY <1>7, <2>1, <2>7 DEF SpawnChunk
    <3>4. \A d \in Chunks(g) : chunk'[g][d].state = "write" => Fetched(g, d, chunk'[g][d].data)
      BY <1>k, <3>1
    <3>5. \A d \in Chunks(g) : chunk'[g][d].state = "ok" /\ args.direct => d.off % ALIGN = 0
      BY <1>k, <3>1
    <3>6. task'[g] = "post" \/ (args.api = "ranges" /\ task'[g] = "none") => Filled(g, local'[g], chunk'[g])
      BY <1>b, <2>1, <3>2 DEF Data, Prepared
    <3> QED BY <1>a, <3>3, <3>4, <3>5, <3>6, DataMoves
  <2> QED BY <2>6, <2>7
<1>8. ASSUME NEW f \in Files, FinishFile(f) PROVE Data(g)'
  <2>1. UNCHANGED <<chunk, body>> /\ task[f] = "post"
    BY <1>8 DEF FinishFile
  <2>2. CASE g # f
    <3>1. task'[g] = task[g] /\ local'[g] = local[g]
      BY <1>8, <2>2 DEF FinishFile, FileEnds, TypesOK
    <3> QED BY <1>c, <2>1, <3>1
  <2>3. CASE g = f
    <3> DEFINE whole == IF args.direct THEN SetLen(local[g], Size(g)) ELSE local[g]
    <3>1. \/ /\ task'[g] = "ok" /\ local'[g] = whole /\ Md5Passes(g, whole)
             /\ AllEnded(g) /\ ~AnyFailed(g)
          \/ task'[g] = "err"
      BY <1>8, <2>3 DEF FinishFile, FileEnds, HandlesDone, BlockErr, TypesOK
    <3>2. CASE /\ task'[g] = "ok" /\ local'[g] = whole /\ Md5Passes(g, whole)
               /\ AllEnded(g) /\ ~AnyFailed(g)
      <4>1. \A c \in Chunks(g) : chunk[g][c].state = "ok"
        BY <3>2 DEF AllEnded, AnyFailed
      <4>2. Filled(g, local[g], chunk[g])
        BY <1>b, <2>1, <2>3 DEF Data, Prepared
      <4>3. Complete(g, whole)
        BY <3>2, <4>1, <4>2, FinishComplete
      <4> HIDE DEF whole
      <4> QED BY <1>a, <1>k, <2>1, <3>2, <4>3, DataMoves
    <3> QED BY <1>d, <2>1, <3>1, <3>2
  <2> QED BY <2>2, <2>3
<1>9. ASSUME NEW f \in Files, LateCall(f) PROVE Data(g)'
  <2>1. UNCHANGED <<chunk, body>> /\ task' = [task EXCEPT ![f] = "cancelled"]
    BY <1>9 DEF LateCall
  <2>2. CASE g # f
    <3>1. local'[g] = local[g]
      BY <1>9, <2>2 DEF LateCall, TypesOK
    <3> QED BY <1>c, <2>1, <2>2, <3>1
  <2>3. CASE g = f
    BY <1>d, <2>1, <2>3 DEF TypesOK
  <2> QED BY <2>2, <2>3
<1>10. ASSUME NEW f \in Files, NEW c \in Chunks(f), GetChunk(f, c) PROVE Data(g)'
  <2>1. UNCHANGED <<task, local, body>> /\ HoldsPermit(f, c)
    BY <1>10 DEF GetChunk, fileVars, HoldsPermit
  <2>2. PICK r \in ChunkTasks :
          /\ ChunkTo(f, c, r)
          /\ (r.state = "write" /\ Fetched(f, c, r.data)) \/ r.state = "err"
    BY <1>10, GetStep
  <2>4. ChunksOK
    BY DEF TypesOK
  <2>5. /\ \A h \in Files : h # f => chunk'[h] = chunk[h]
        /\ chunk'[f][c] = r /\ \A d \in Chunks(f) : d # c => chunk'[f][d] = chunk[f][d]
    BY <2>2, <2>4, OneChunk
  <2>6. CASE g # f
    BY <1>c, <2>1, <2>5, <2>6
  <2>7. CASE g = f
    <3>1. \A d \in Chunks(g) : \/ chunk'[g][d] = chunk[g][d]
                               \/ chunk'[g][d].state = "err"
                               \/ chunk'[g][d].state = "write" /\ Fetched(g, d, chunk'[g][d].data)
      BY <2>2, <2>5, <2>7
    <3>2. Filled(g, local[g], chunk[g]) => Filled(g, local'[g], chunk'[g])
      BY <2>1, <3>1 DEF Filled
    <3>3. task'[g] \notin {"put", "ok"}
      <4>1. HoldsPermit(g, c) => ~Idle(g) /\ Unspawned(g) # Chunks(g)
        BY <2>7 DEF Idle, HoldsPermit, Unspawned
      <4> QED BY <1>b, <2>1, <2>7, <4>1 DEF Control
    <3>4. \A d \in Chunks(g) : chunk'[g][d].state = "write" => Fetched(g, d, chunk'[g][d].data)
      BY <1>k, <3>1
    <3>5. \A d \in Chunks(g) : chunk'[g][d].state = "ok" /\ args.direct => d.off % ALIGN = 0
      BY <1>k, <3>1
    <3>6. task'[g] = "post" \/ (args.api = "ranges" /\ task'[g] = "none") => Filled(g, local'[g], chunk'[g])
      BY <1>b, <2>1, <3>2 DEF Data, Prepared
    <3> QED BY <1>a, <3>3, <3>4, <3>5, <3>6, DataMoves
  <2> QED BY <2>6, <2>7
<1>11. ASSUME NEW f \in Files, NEW c \in Chunks(f), WriteChunk(f, c) PROVE Data(g)'
  <2> DEFINE new == Overwritten(local[f], Padded(chunk[f][c].data), c.off)
  <2>1. UNCHANGED <<task, body>> /\ chunk[f][c].state = "write"
    BY <1>11 DEF WriteChunk, fileVars
  <2>2. PICK r \in ChunkTasks :
          /\ ChunkTo(f, c, r)
          /\ \/ /\ r.state \in {"ok", "err"} /\ (args.direct => c.off % ALIGN = 0)
                /\ local' = [local EXCEPT ![f] = new]
             \/ r.state = "err" /\ local' = local
    BY <1>11, WriteStep
  <2>3. new \in Seq(Units)
    BY NewFileFacts
  <2>4. ChunksOK /\ local \in [Files -> Seq(Units)] /\ chunk[f][c].data \in Seq(Units)
    BY ChunkTask DEF TypesOK, ChunkTasks
  <2> HIDE DEF new
  <2>5. /\ \A h \in Files : h # f => chunk'[h] = chunk[h]
        /\ chunk'[f][c] = r /\ \A d \in Chunks(f) : d # c => chunk'[f][d] = chunk[f][d]
    BY <2>2, <2>4, OneChunk
  <2>6. CASE g # f
    <3>1. local'[g] = local[g]
      BY <2>2, <2>4, <2>6
    <3> QED BY <1>c, <2>1, <2>5, <2>6, <3>1
  <2>7. CASE g = f
    <3>1. \A d \in Chunks(g) : \/ chunk'[g][d] = chunk[g][d]
                               \/ d = c /\ chunk'[g][d].state = "err"
                               \/ /\ d = c /\ chunk'[g][d].state = "ok"
                                  /\ args.direct => d.off % ALIGN = 0
      BY <2>2, <2>5, <2>7
    <3>3. task'[g] \notin {"put", "ok"}
      <4>1. ~Idle(g) /\ Unspawned(g) # Chunks(g)
        BY <2>1, <2>7 DEF Idle, HoldsPermit, Unspawned
      <4> QED BY <1>b, <2>1, <2>7, <4>1 DEF Control
    <3>4. \A d \in Chunks(g) : chunk'[g][d].state = "write" => Fetched(g, d, chunk'[g][d].data)
      BY <1>k, <3>1
    <3>5. \A d \in Chunks(g) : chunk'[g][d].state = "ok" /\ args.direct => d.off % ALIGN = 0
      BY <1>k, <3>1
    <3>6. task'[g] = "post" \/ (args.api = "ranges" /\ task'[g] = "none") => Filled(g, local'[g], chunk'[g])
      <4> SUFFICES ASSUME Prepared(g) PROVE Filled(g, local'[g], chunk'[g])
        BY <2>1 DEF Prepared
      <4>1. Filled(g, local[g], chunk[g])
        BY <1>b DEF Data
      <4>2. CASE r.state = "err" /\ local' = local
        <5>1. \A d \in Chunks(g) : chunk'[g][d].state = "ok" => chunk[g][d].state = "ok"
          BY <2>5, <2>7, <4>2
        <5> QED BY <4>1, <4>2, <5>1 DEF Filled
      <4>3. CASE /\ args.direct => c.off % ALIGN = 0
                 /\ local' = [local EXCEPT ![f] = new]
        <5>1. local'[g] = new
          BY <2>4, <2>7, <4>3
        <5>2. Fetched(g, c, chunk[g][c].data) /\ c \in Chunks(g)
          BY <1>k, <2>1, <2>7
        <5>3. /\ Len(new) >= Size(g) /\ (~args.direct => Len(new) = Size(g))
              /\ \A p \in DOMAIN new : new[p] = Hole \/ UnitSeen(g, p, new[p])
              /\ \A e \in Chunks(g) : e = c \/ chunk[g][e].state = "ok" =>
                   \A p \in DOMAIN new : Within(e, p) => UnitSeen(g, p, new[p])
          BY <1>k, <2>4, <2>7, <4>1, <4>3, <5>2, WriteFills DEF new
        <5>4. \A e \in Chunks(g) : chunk'[g][e].state = "ok" => e = c \/ chunk[g][e].state = "ok"
          BY <3>1
        <5> QED BY <5>1, <5>3, <5>4 DEF Filled
      <4> QED BY <2>2, <4>2, <4>3
    <3> QED BY <1>a, <3>3, <3>4, <3>5, <3>6, DataMoves
  <2> QED BY <2>6, <2>7
<1>12. CASE Return \/ UNCHANGED vars \/ \E f \in Files : JoinFile(f) \/ Replaced(f)
  <2>1. UNCHANGED <<chunk, local, body, task>>
    BY <1>12 DEF Return, vars, JoinFile, Replaced, fileVars
  <2> QED BY <1>c, <2>1
<1> QED
  BY <1>1, <1>2, <1>3, <1>4, <1>5, <1>6, <1>7, <1>8, <1>9, <1>10, <1>11, <1>12
     DEF Next, MainStep, FileStep, ChunkStep, Terminated

------------------------------------------------------------------------------
(* Why a file fails.                                                        *)
LEMMA ReasonKept ==
  ASSUME TypesOK, TypesOK', args' = args, NEW f \in Files, Reason(f), faults' >= faults,
         blob'[f] >= blob[f]
  PROVE  Reason(f)'
<1>1. faults \in Nat /\ faults' \in Nat /\ blob[f] \in Nat /\ blob'[f] \in Nat
  BY DEF TypesOK
<1>2. block_size' = block_size
  BY DEF block_size
<1> QED BY <1>1, <1>2 DEF Reason

LEMMA FaultReason ==
  ASSUME TypesOK, NEW f \in Files, faults' = faults + 1
  PROVE  Reason(f)'
BY DEF TypesOK, Reason

(* If the blob is the listed one, so is the file made of its chunks.        *)
LEMMA WholeListed ==
  ASSUME TypesOK, NEW f \in Files, args.api = "entries", blob[f] = 1,
         Filled(f, local[f], chunk[f]), \A c \in Chunks(f) : chunk[f][c].state = "ok",
         NEW whole, whole = IF args.direct THEN SetLen(local[f], Size(f)) ELSE local[f]
  PROVE  whole = Content(f, 1)
<1>1. /\ whole \in Seq(Units) /\ Len(whole) = Size(f) /\ Size(f) \in Nat
      /\ \A i \in DOMAIN RangesOf(f) :
           \A p \in RangesOf(f)[i].off + 1 .. RangesOf(f)[i].off + RangesOf(f)[i].len :
             UnitSeen(f, p, whole[p])
  BY WholeFacts
<1>2. 1 \in DOMAIN RangesOf(f) /\ RangesOf(f)[1].off = 0 /\ RangesOf(f)[1].len = Size(f)
  BY DEF RangesOf
<1>3. /\ Content(f, 1) \in Seq(Units) /\ Len(Content(f, 1)) = Size(f)
      /\ \A p \in 1 .. Size(f) : Content(f, 1)[p] = <<1, p>>
  BY FileFacts, ContentFacts DEF Size
<1>4. \A p \in 1 .. Size(f) : UnitSeen(f, p, whole[p])
  BY <1>1, <1>2
<1>5. ASSUME NEW p \in 1 .. Size(f) PROVE whole[p] = <<1, p>>
  <2>1. PICK v \in 1 .. 1 : whole[p] = IF p <= Lengths[f][v] THEN <<v, p>> ELSE Hole
    BY <1>4 DEF UnitSeen, VersionsSeen
  <2>2. v = 1 /\ p <= Lengths[f][1]
    BY <1>1 DEF Size
  <2> QED BY <2>1, <2>2
<1> DEFINE s == Content(f, 1)
<1>6. s \in Seq(Units) /\ Len(s) = Size(f) /\ \A p \in 1 .. Size(f) : s[p] = <<1, p>>
  BY <1>3
<1> HIDE DEF s
<1>7. /\ whole \in Seq(Units) /\ s \in Seq(Units) /\ Len(whole) = Len(s)
      /\ \A p \in 1 .. Len(whole) : whole[p] = s[p]
  BY <1>1, <1>5, <1>6
<1>8. whole = s
  BY <1>7, SeqEqual
<1> QED BY <1>8 DEF s

LEMMA ExcusedInit == Init => ExcusedInv
BY DEF Init, ExcusedInv, Excused

LEMMA ExcusedStep == TypesOK /\ DataInv /\ ExcusedInv /\ [Next]_vars => ExcusedInv'
<1> SUFFICES ASSUME TypesOK, DataInv, ExcusedInv, [Next]_vars, NEW g \in Files
             PROVE  Excused(g)'
  BY DEF ExcusedInv
<1>a. args' = args /\ TypesOK' /\ blob'[g] >= blob[g] /\ faults' >= faults
  BY ArgsKept, TypesStep, Growing
<1>b. Excused(g) /\ (Reason(g) => Reason(g)') /\ Chunks(g)' = Chunks(g)
  BY <1>a, ReasonKept, ChunksKept DEF ExcusedInv
<1>c. ASSUME chunk'[g] = chunk[g], task'[g] = "err" => task[g] = "err" \/ Reason(g)'
      PROVE  Excused(g)'
  BY <1>b, <1>c DEF Excused
<1>d. ASSUME task' = task, NEW f \in Files, NEW c \in Chunks(f), NEW r \in ChunkTasks,
             ChunkTo(f, c, r), r.state = "err" => Reason(f)'
      PROVE  Excused(g)'
  <2>1. ChunkTo(f, c, r) /\ ChunksOK
    BY <1>d DEF TypesOK
  <2>2. /\ \A h \in Files : h # f => chunk'[h] = chunk[h]
        /\ chunk'[f][c] = r /\ \A d \in Chunks(f) : d # c => chunk'[f][d] = chunk[f][d]
    BY <2>1, OneChunk
  <2>3. CASE g # f
    BY <1>c, <1>d, <2>2, <2>3
  <2>4. CASE g = f
    BY <1>b, <1>d, <2>2, <2>4 DEF Excused
  <2> QED BY <2>3, <2>4
<1>1. ASSUME NEW f \in Files, SmallGet(f) PROVE Excused(g)'
  <2>1. chunk' = chunk
    BY <1>1 DEF SmallGet
  <2>2. \/ task' = [task EXCEPT ![f] = "put"]
        \/ task' = [task EXCEPT ![f] = "err"] /\ ~Md5Passes(f, Content(f, blob[f]))
        \/ task' = [task EXCEPT ![f] = "err"] /\ faults' = faults + 1
    BY <1>1 DEF SmallGet, FileEnds, CallFails
  <2>3. ~Md5Passes(f, Content(f, blob[f])) => Reason(f)
    <3>1. blob[f] \in Nat /\ blob[f] >= 1
      BY FileFacts DEF TypesOK
    <3>2. ~Md5Passes(f, Content(f, blob[f])) => blob[f] # 1
      BY DEF Md5Passes
    <3> QED BY <3>1, <3>2 DEF Reason
  <2>4. g # f => task'[g] = task[g]
    BY <2>2 DEF TypesOK
  <2>5. task'[f] = "err" => Reason(f) \/ Reason(f)'
    BY <2>2, <2>3, FaultReason DEF TypesOK
  <2> QED BY <1>b, <1>c, <2>1, <2>4, <2>5
<1>2. ASSUME NEW f \in Files, SmallPut(f) \/ CreateFile(f) PROVE Excused(g)'
  <2>1. chunk' = chunk
    BY <1>2 DEF SmallPut, CreateFile
  <2>2. \/ \E t \in {"ok", "post"} : task' = [task EXCEPT ![f] = t]
        \/ task' = [task EXCEPT ![f] = "err"] /\ faults' = faults + 1
    BY <1>2 DEF SmallPut, CreateFile, FileEnds, CallFails
  <2>3. task'[g] = "err" => task[g] = "err" \/ faults' = faults + 1
    BY <2>2 DEF TypesOK
  <2> QED BY <1>c, <2>1, <2>3, FaultReason
<1>3. ASSUME NEW f \in Files, FinishFile(f) PROVE Excused(g)'
  <2>1. chunk' = chunk /\ task[f] = "post"
    BY <1>3 DEF FinishFile
  <2> DEFINE whole == IF args.direct THEN SetLen(local[f], Size(f)) ELSE local[f]
  <2>2. \/ task' = [task EXCEPT ![f] = "err"] /\ AnyFailed(f)
        \/ task' = [task EXCEPT ![f] = "ok"]
        \/ /\ task' = [task EXCEPT ![f] = "err"] /\ ~Md5Passes(f, whole)
           /\ AllEnded(f) /\ ~AnyFailed(f)
        \/ task' = [task EXCEPT ![f] = "err"] /\ faults' = faults + 1
    BY <1>3 DEF FinishFile, FileEnds, CallFails, BlockErr, HandlesDone
  <2>3. AnyFailed(f) => Reason(f)
    BY DEF AnyFailed, ExcusedInv, Excused
  <2>4. ASSUME ~Md5Passes(f, whole), AllEnded(f), ~AnyFailed(f) PROVE Reason(f)
    <3> SUFFICES ASSUME blob[f] = 1 PROVE FALSE
      <4>1. blob[f] \in Nat /\ blob[f] >= 1
        BY FileFacts DEF TypesOK
      <4> QED BY <4>1 DEF Reason
    <3>1. \A c \in Chunks(f) : chunk[f][c].state = "ok"
      BY <2>4 DEF AllEnded, AnyFailed
    <3>2. args.check_md5 /\ whole # Content(f, 1)
      BY <2>4 DEF Md5Passes
    <3>3. args.api = "entries"
      BY <3>2, ArgsAre
    <3>4. Filled(f, local[f], chunk[f])
      BY <2>1 DEF DataInv, Data, Prepared
    <3>5. whole = Content(f, 1)
      BY <3>1, <3>3, <3>4, WholeListed
    <3> QED BY <3>2, <3>5
  <2> HIDE DEF whole
  <2>5. g # f => task'[g] = task[g]
    BY <2>2 DEF TypesOK
  <2>6. task'[f] = "err" => Reason(f) \/ Reason(f)'
    BY <2>2, <2>3, <2>4, FaultReason DEF TypesOK
  <2> QED BY <1>b, <1>c, <2>1, <2>5, <2>6
<1>4. ASSUME NEW f \in Files, SpawnChunk(f) PROVE Excused(g)'
  <2> DEFINE r == [state |-> "get", data |-> <<>>]
  <2>1. r \in ChunkTasks /\ r.state = "get"
    BY DEF ChunkTasks, ChunkStates
  <2>2. PICK c \in Chunks(f) : ChunkTo(f, c, r)
    BY <1>4 DEF SpawnChunk, Unspawned, ChunkTo
  <2>3. task' = task
    BY <1>4 DEF SpawnChunk, fileVars
  <2> HIDE DEF r
  <2> QED BY <1>d, <2>1, <2>2, <2>3
<1>5. ASSUME NEW f \in Files, NEW c \in Chunks(f), GetChunk(f, c) PROVE Excused(g)'
  <2>1. PICK r \in ChunkTasks :
          /\ ChunkTo(f, c, r)
          /\ \/ r.state = "write"
             \/ r.state = "err" /\ (faults' = faults + 1 \/ (faults' = faults /\ blob[f] > 1))
    BY <1>5, GetStep
  <2>2. task' = task /\ blob' = blob
    BY <1>5 DEF GetChunk, fileVars
  <2>3. r.state = "err" => Reason(f)'
    BY <2>1, <2>2, FaultReason DEF Reason
  <2> QED BY <1>d, <2>1, <2>2, <2>3
<1>6. ASSUME NEW f \in Files, NEW c \in Chunks(f), WriteChunk(f, c) PROVE Excused(g)'
  <2>1. PICK r \in ChunkTasks :
          /\ ChunkTo(f, c, r)
          /\ \/ r.state = "ok"
             \/ r.state = "err" /\ faults' = faults + 1
             \/ r.state = "err" /\ args.direct /\ c.off % ALIGN # 0 /\ faults' = faults
    BY <1>6, WriteStep
  <2>2. task' = task /\ blob' = blob
    BY <1>6 DEF WriteChunk, fileVars
  <2>3. args.direct /\ c.off % ALIGN # 0 => block_size % ALIGN # 0
    <3> SUFFICES ASSUME args.direct, block_size % ALIGN = 0 PROVE c.off % ALIGN = 0
      OBVIOUS
    <3>1. args.api = "entries" /\ block_size \in Nat \ {0} /\ ALIGN \in Nat \ {0}
      BY ArgsAre
    <3>2. c.off \in Nat /\ c.off % block_size = 0
      BY <3>1, ChunkFacts
    <3> QED BY <3>1, <3>2, MultipleOfMultiple
  <2>4. block_size' = block_size
    BY <1>a DEF block_size
  <2>5. r.state = "err" => Reason(f)'
    BY <1>a, <2>1, <2>2, <2>3, <2>4, FaultReason DEF Reason
  <2> QED BY <1>d, <2>1, <2>2, <2>5
<1>7. ASSUME NEW f \in Files,
             Dispatch(f) \/ JoinFile(f) \/ SmallPermit(f) \/ LateCall(f) \/ Replaced(f)
      PROVE  Excused(g)'
  <2>1. chunk' = chunk
    BY <1>7 DEF Dispatch, JoinFile, SmallPermit, LateCall, Replaced
  <2>2. \/ task' = task
        \/ \E t \in {"small", "create", "post", "get", "cancelled"} : task' = [task EXCEPT ![f] = t]
    BY <1>7 DEF Dispatch, JoinFile, SmallPermit, LateCall, Replaced, fileVars
  <2>3. task'[g] = "err" => task[g] = "err"
    BY <2>2 DEF TypesOK
  <2> QED BY <1>c, <2>1, <2>3
<1>8. CASE Return \/ UNCHANGED vars \/ DispatchFails
  <2>1. chunk' = chunk /\ (task'[g] = "err" => task[g] = "err")
    BY <1>8 DEF Return, vars, fileVars, DispatchFails
  <2> QED BY <1>c, <2>1
<1> QED
  BY <1>1, <1>2, <1>3, <1>4, <1>5, <1>6, <1>7, <1>8
     DEF Next, MainStep, FileStep, ChunkStep, Terminated

------------------------------------------------------------------------------
LEMMA InvAlways == Spec => [](TypesOK /\ ControlInv /\ DataInv /\ ExcusedInv)
<1>1. Init => TypesOK /\ ControlInv /\ DataInv /\ ExcusedInv
  BY TypesInit, ControlInit, DataInit, ExcusedInit
<1>2. TypesOK /\ ControlInv /\ DataInv /\ ExcusedInv /\ [Next]_vars
        => (TypesOK /\ ControlInv /\ DataInv /\ ExcusedInv)'
  BY TypesStep, ControlStep, DataStep, ExcusedStep
<1> QED BY <1>1, <1>2, PTL DEF Spec

(* Download.PermitsConserved, for any files, ranges, permits and failures:  *)
(* each permit of the two semaphores is in it or belongs to one running     *)
(* task, also after the call gave up and its file tasks were cancelled.     *)
THEOREM PermitsConservedAlways == Spec => []PermitsConserved
<1>1. Init => PermitInv
  BY PermitsInit
<1>2. TypesOK /\ PermitInv /\ [Next]_vars => PermitInv'
  BY PermitsStep
<1>3. PermitInv => PermitsConserved
  BY DEF PermitInv, PermitsConserved, RunningFiles
<1> QED BY InvAlways, <1>1, <1>2, <1>3, PTL DEF Spec

(* Download.SucceededIsComplete, for any ranges, block size and versions:   *)
(* a file that is counted as downloaded has the length of a version its     *)
(* blob has had, and in its ranges nothing but what such versions have      *)
(* there.                                                                   *)
THEOREM SucceededIsCompleteAlways == Spec => []SucceededIsComplete
<1>1. TypesOK /\ ControlInv /\ DataInv => SucceededIsComplete
  BY DEF TypesOK, ControlInv, Control, DataInv, Data, Complete, SucceededIsComplete
<1> QED BY InvAlways, <1>1, PTL

(* Download.CheckedIsListed, for any block size and replacements: with      *)
(* --check-md5 a blob that has a digest is counted only as it was listed.   *)
THEOREM CheckedIsListedAlways == Spec => []CheckedIsListed
<1>1. TypesOK /\ ControlInv /\ DataInv => CheckedIsListed
  BY DEF TypesOK, ControlInv, Control, DataInv, Data, Complete, CheckedIsListed
<1> QED BY InvAlways, <1>1, PTL

(* Download.NoSpuriousFailure, for any files: without a failing call, a     *)
(* replaced blob or a block size that is unfit for O_DIRECT, no file is     *)
(* counted as failed; in particular no digest is compared with a file that  *)
(* is not whole.                                                            *)
THEOREM NoSpuriousFailureAlways == Spec => []NoSpuriousFailure
<1>1. TypesOK /\ ControlInv /\ ExcusedInv => NoSpuriousFailure
  BY DEF TypesOK, ControlInv, Control, ExcusedInv, Excused, Reason, NoSpuriousFailure
<1> QED BY InvAlways, <1>1, PTL

(* Download.QuietWhenReturned, for any files, permits and failures: once    *)
(* the call has returned its summary, no step of its tasks changes a file.  *)
THEOREM QuietWhenReturnedAlways == Spec => QuietWhenReturned
<1>1. TypesOK /\ ControlInv /\ [Next]_vars => [main = "returned" => UNCHANGED local]_vars
  BY QuietStep
<1> QED BY InvAlways, <1>1, PTL DEF Spec, QuietWhenReturned
==============================================================================
