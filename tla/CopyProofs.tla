------------------------------ MODULE CopyProofs ------------------------------
(***************************************************************************)
(* BurstBounded of the limiter, for every rate, and for every way in which *)
(* tasks, cancelled or not, share the bucket with the thread that refills  *)
(* it; that Copy uses its limiter as LimiterSpec allows; and what the      *)
(* workers of a copy do with lists they have taken each for itself.        *)
(*                                                                         *)
(* Owner is a recursive function; that it deals every kept entry to a bin  *)
(* is shown by looking at a smallest set of entries left for which it does *)
(* not.  That the shares are a partition then is that of the indexes: p *  *)
(* workers + i takes each value below processes * workers exactly once.    *)
(* CopyInv says what the phases of a worker and of its tasks have to do    *)
(* with its list and its share, and what of one blob is in the local file: *)
(* while it lacks a byte, somebody is still to write it.                   *)
(*                                                                         *)
(* What the processes report is a sum of sums, over elements taken in an   *)
(* order nobody knows: SumOfParts shows, by a smallest set of elements for *)
(* which it does not hold, that such a sum is the size of a union of       *)
(* disjoint parts.                                                         *)
(***************************************************************************)
EXTENDS Copy, FiniteSetTheorems, SequenceTheorems, WellFoundedInduction, TLAPS

------------------------------------------------------------------------------
(* The limiter.                                                             *)
(* A sequence, whatever its elements are.                                    *)
IsSeq(s) == \E S : s \in Seq(S)

Types ==
  /\ available \in Nat /\ held \in Nat /\ pool \in Nat /\ leftover \in Nat /\ returned \in Nat
  /\ refill \in [pc : {"asleep", "add", "adding"}, add : Nat]
  /\ IsSeq(queue) /\ \A i \in DOMAIN queue : queue[i].needs \in 1 .. max_permits

(* Somebody waits only if nothing is available, and has less than it needs.  *)
FirstWaits ==
  /\ queue = <<>> => held = 0
  /\ queue # <<>> => available = 0 /\ held < queue[1].needs

(* What the thread is about to add still fits: since it has read             *)
(* available_permits, only cancelled tasks have brought permits in.          *)
AdditionFits ==
  /\ available + pool <= max_permits + returned
  /\ refill.pc = "add" => refill.add > 0 /\ available + pool + refill.add <= max_permits + returned
  /\ refill.pc # "adding" => pool <= returned

LimiterInv == Types /\ FirstWaits /\ AdditionFits

LEMMA SeqFacts ==
  ASSUME NEW s, IsSeq(s)
  PROVE  /\ Len(s) \in Nat /\ DOMAIN s = 1 .. Len(s)
         /\ s # <<>> => /\ Len(s) > 0 /\ IsSeq(Tail(s)) /\ Head(s) = s[1]
                        /\ Len(Tail(s)) = Len(s) - 1
                        /\ \A i \in 1 .. Len(s) - 1 : Tail(s)[i] = s[i + 1]
BY DEF IsSeq

LEMMA AppendFacts ==
  ASSUME NEW s, IsSeq(s), NEW x
  PROVE  /\ IsSeq(Append(s, x)) /\ Len(Append(s, x)) = Len(s) + 1
         /\ \A i \in 1 .. Len(s) : Append(s, x)[i] = s[i]
         /\ Append(s, x)[Len(s) + 1] = x
<1>1. PICK S : s \in Seq(S)
  BY DEF IsSeq
<1>2. s \in Seq(S \cup {x}) /\ x \in S \cup {x}
  BY <1>1
<1>3. Append(s, x) \in Seq(S \cup {x})
  BY <1>2
<1> QED BY <1>2, <1>3 DEF IsSeq

LEMMA Division ==
  ASSUME NEW a \in Nat, NEW d \in Nat \ {0}
  PROVE  a \div d \in Nat /\ a % d \in Nat /\ (a >= d => a \div d >= 1)
OBVIOUS

LEMMA MaxPermitsPositive == max_permits \in Nat \ {0}
<1>1. CASE bytes_per_sec < RATE_UNIT_BYTES
  BY <1>1, LimiterAssumption DEF max_permits, AtMost
<1>2. CASE bytes_per_sec >= RATE_UNIT_BYTES
  <2>1. bytes_per_sec \div RATE_UNIT_BYTES \in Nat /\ bytes_per_sec \div RATE_UNIT_BYTES >= 1
    BY <1>2, LimiterAssumption, Division
  <2> QED BY <1>2, <2>1, LimiterAssumption DEF max_permits, AtMost
<1> QED BY <1>1, <1>2, LimiterAssumption

(* What a request takes: at least one permit, at most all there can be.      *)
LEMMA NeededBounds ==
  ASSUME NEW bytes \in Nat \ {0}
  PROVE  Needed(bytes) \in 1 .. max_permits
<1>1. bytes + RATE_UNIT_BYTES - 1 \in Nat /\ bytes + RATE_UNIT_BYTES - 1 >= RATE_UNIT_BYTES
  BY LimiterAssumption
<1>2. Uncapped(bytes) \in Nat /\ Uncapped(bytes) >= 1
  BY <1>1, LimiterAssumption, Division DEF Uncapped
<1> QED BY <1>2, MaxPermitsPositive DEF Needed, AtMost

LEMMA InitInv == LimiterInit => LimiterInv
<1> SUFFICES ASSUME LimiterInit PROVE LimiterInv
  OBVIOUS
<1>1. IsSeq(<<>>)
  BY DEF IsSeq
<1> QED BY <1>1, MaxPermitsPositive
        DEF LimiterInit, LimiterInv, Types, FirstWaits, AdditionFits

------------------------------------------------------------------------------
(* One lemma for each action.                                                *)

LEMMA TakeNowInv ==
  ASSUME LimiterInv, NEW c, NEW bytes \in Nat \ {0}, TakeNow(c, bytes)
  PROVE  LimiterInv'
<1> USE MaxPermitsPositive DEF LimiterInv, TakeNow
<1>0. Needed(bytes) \in 1 .. max_permits
  BY NeededBounds
<1>1. Types'
  BY <1>0 DEF Types, max_permits
<1>2. FirstWaits'
  BY <1>0 DEF Types, FirstWaits
<1>3. AdditionFits'
  BY <1>0 DEF Types, AdditionFits, max_permits
<1> QED BY <1>1, <1>2, <1>3

LEMMA EnqueueInv ==
  ASSUME LimiterInv, NEW c, NEW bytes \in Nat \ {0}, Enqueue(c, bytes)
  PROVE  LimiterInv'
<1> USE MaxPermitsPositive DEF LimiterInv, Enqueue
<1>0. Needed(bytes) \in 1 .. max_permits
  BY NeededBounds
<1> DEFINE last == [who |-> c, needs |-> Needed(bytes)]
<1>1. /\ Len(queue) \in Nat /\ DOMAIN queue = 1 .. Len(queue)
      /\ IsSeq(queue') /\ Len(queue') = Len(queue) + 1
      /\ \A i \in 1 .. Len(queue) : queue'[i] = queue[i]
      /\ queue'[Len(queue) + 1] = last
  BY AppendFacts, SeqFacts DEF Types
<1>2. DOMAIN queue' = 1 .. Len(queue) + 1 /\ queue' # <<>>
  BY <1>1, SeqFacts
<1>3. \A i \in DOMAIN queue' : queue'[i].needs \in 1 .. max_permits
  BY <1>0, <1>1, <1>2 DEF Types
<1>4. Types'
  BY <1>1, <1>3 DEF Types, max_permits
<1>5. held' < queue'[1].needs
  <2>1. CASE queue = <<>>
    BY <2>1, <1>0, <1>1 DEF Types, FirstWaits
  <2>2. CASE queue # <<>>
    BY <2>2, <1>0, <1>1, SeqFacts DEF Types, FirstWaits
  <2> QED BY <2>1, <2>2
<1>6. FirstWaits'
  BY <1>2, <1>5 DEF FirstWaits
<1>7. AdditionFits'
  BY DEF Types, AdditionFits, max_permits
<1> QED BY <1>4, <1>6, <1>7

LEMMA ResumeInv ==
  ASSUME LimiterInv, NEW c, Resume(c)
  PROVE  LimiterInv'
BY DEF LimiterInv, Resume, Types, FirstWaits, AdditionFits, max_permits

(* The queue without the one that is cancelled.                              *)
LEMMA WithoutFacts ==
  ASSUME IsSeq(queue), NEW i \in DOMAIN queue
  PROVE  /\ IsSeq(Without(i)) /\ DOMAIN Without(i) = 1 .. Len(queue) - 1
         /\ \A j \in DOMAIN Without(i) :
              \E k \in DOMAIN queue : Without(i)[j] = queue[k]
         /\ i # 1 => Without(i)[1] = queue[1] /\ Without(i) # <<>>
<1>1. PICK S : queue \in Seq(S)
  BY DEF IsSeq
<1>2. Len(queue) \in Nat /\ DOMAIN queue = 1 .. Len(queue) /\ i \in 1 .. Len(queue)
  BY SeqFacts
<1>3. DOMAIN Without(i) = 1 .. Len(queue) - 1
  BY DEF Without
<1>4. \A j \in 1 .. Len(queue) - 1 :
        /\ Without(i)[j] = (IF j < i THEN queue[j] ELSE queue[j + 1])
        /\ j \in DOMAIN queue /\ j + 1 \in DOMAIN queue
  BY <1>2 DEF Without
<1>5. \A j \in 1 .. Len(queue) - 1 : Without(i)[j] \in S
  BY <1>1, <1>2, <1>4
<1>6. Without(i) \in [1 .. Len(queue) - 1 -> S]
  BY <1>5 DEF Without
<1>7. Without(i) \in Seq(S)
  BY <1>2, <1>6
<1>8. i # 1 => Without(i)[1] = queue[1] /\ Without(i) # <<>>
  <2> SUFFICES ASSUME i # 1 PROVE Without(i)[1] = queue[1] /\ Without(i) # <<>>
    OBVIOUS
  <2>1. 1 \in DOMAIN Without(i)
    BY <1>2, <1>3
  <2> QED BY <2>1, <1>2, <1>3, <1>4
<1> QED BY <1>3, <1>4, <1>7, <1>8 DEF IsSeq

LEMMA GiveUpInv ==
  ASSUME LimiterInv, NEW c, NEW bytes \in Nat \ {0}, GiveUp(c, bytes)
  PROVE  LimiterInv'
<1> USE MaxPermitsPositive DEF LimiterInv
<1>0. Needed(bytes) \in 1 .. max_permits
  BY NeededBounds
<1>1. CASE /\ pool = 0 /\ pool' = Needed(bytes) /\ returned' = returned + Needed(bytes)
           /\ UNCHANGED <<queue, held, available, refill, leftover>>
  <2>1. Types'
    BY <1>0, <1>1 DEF Types, max_permits
  <2>2. FirstWaits'
    BY <1>1 DEF FirstWaits
  <2>3. AdditionFits'
    BY <1>0, <1>1 DEF Types, AdditionFits, max_permits
  <2> QED BY <2>1, <2>2, <2>3
<1>2. ASSUME NEW i \in DOMAIN queue, queue' = Without(i), pool = 0,
             IF i = 1 THEN pool' = held /\ held' = 0 /\ returned' = returned + held
             ELSE UNCHANGED <<pool, held, returned>>,
             UNCHANGED <<available, refill, leftover>>
      PROVE  LimiterInv'
  <2>0. /\ Len(queue) \in Nat /\ DOMAIN queue = 1 .. Len(queue) /\ queue # <<>>
        /\ IsSeq(queue')
        /\ \A j \in DOMAIN queue' : queue'[j].needs \in 1 .. max_permits
        /\ i # 1 => queue'[1] = queue[1] /\ queue' # <<>>
        /\ queue' # <<>> => 1 \in DOMAIN queue'
    <3>1. IsSeq(queue)
      BY DEF Types
    <3>2. IsSeq(queue')
      BY <3>1, <1>2, WithoutFacts
    <3>3. \A j \in DOMAIN queue' : queue'[j].needs \in 1 .. max_permits
      BY <3>1, <1>2, WithoutFacts DEF Types
    <3>4. queue' # <<>> => 1 \in DOMAIN queue'
      BY <3>2, SeqFacts
    <3>5. i # 1 => queue'[1] = queue[1] /\ queue' # <<>>
      BY <3>1, <1>2, WithoutFacts
    <3>6. Len(queue) \in Nat /\ DOMAIN queue = 1 .. Len(queue) /\ queue # <<>>
      BY <3>1, SeqFacts
    <3> QED BY <3>2, <3>3, <3>4, <3>5, <3>6
  <2>1. Types'
    BY <2>0, <1>2 DEF Types, max_permits
  <2>2. FirstWaits'
    <3>1. CASE i = 1
      BY <3>1, <2>0, <1>2 DEF FirstWaits
    <3>2. CASE i # 1
      BY <3>2, <2>0, <1>2 DEF FirstWaits
    <3> QED BY <3>1, <3>2
  <2>3. AdditionFits'
    BY <1>2 DEF Types, AdditionFits, max_permits
  <2> QED BY <2>1, <2>2, <2>3
<1> QED BY <1>1, <1>2 DEF GiveUp

(* The three things that handing out does: to the bucket, a part or all of   *)
(* what the first lacks.                                                     *)
LEMMA HandOutInv ==
  ASSUME LimiterInv, HandOut
  PROVE  LimiterInv'
<1> USE MaxPermitsPositive DEF LimiterInv, HandOut
<1> DEFINE lacks == Head(queue).needs - held
<1>1. /\ refill' \in [pc : {"asleep", "add", "adding"}, add : Nat]
      /\ pool' # 0 => refill' = refill
      /\ refill'.pc = "add" => refill' = refill
      /\ refill'.pc # "adding" => refill'.pc = refill.pc \/ (pool' = 0 /\ refill'.pc = "asleep")
  BY DEF Types, LockReleased
<1>2. CASE queue = <<>>
  <2>1. available' = available + pool /\ pool' = 0 /\ UNCHANGED <<queue, held, leftover, returned>>
    BY <1>2
  <2> HIDE DEF HandOut
  <2>2. Types'
    BY <1>1, <2>1 DEF Types, max_permits
  <2>3. FirstWaits'
    BY <1>2, <2>1 DEF FirstWaits
  <2>4. AdditionFits'
    BY <1>1, <2>1 DEF Types, AdditionFits, max_permits
  <2> QED BY <2>2, <2>3, <2>4
<1>3. ASSUME queue # <<>> PROVE LimiterInv'
  <2>0. /\ Len(queue) \in Nat \ {0} /\ DOMAIN queue = 1 .. Len(queue) /\ Head(queue) = queue[1]
        /\ queue[1].needs \in 1 .. max_permits /\ held < queue[1].needs /\ available = 0
        /\ lacks \in Nat \ {0}
    <3>1. Len(queue) \in Nat \ {0} /\ DOMAIN queue = 1 .. Len(queue) /\ Head(queue) = queue[1]
      BY <1>3, SeqFacts DEF Types
    <3> QED BY <3>1, <1>3 DEF Types, FirstWaits
  <2>1. CASE pool < lacks
    <3>1. held' = held + pool /\ pool' = 0 /\ UNCHANGED <<available, queue, leftover, returned>>
      BY <1>3, <2>1
    <3> HIDE DEF HandOut
    <3>2. Types'
      BY <1>1, <3>1 DEF Types, max_permits
    <3>3. FirstWaits'
      BY <1>3, <2>0, <2>1, <3>1 DEF FirstWaits, Types
    <3>4. AdditionFits'
      BY <1>1, <3>1 DEF Types, AdditionFits, max_permits
    <3> QED BY <3>2, <3>3, <3>4
  <2>2. CASE ~(pool < lacks)
    <3>1. /\ queue' = Tail(queue) /\ held' = 0 /\ pool' = pool - lacks
          /\ UNCHANGED <<available, leftover, returned>>
      BY <1>3, <2>2
    <3>2. /\ IsSeq(queue') /\ Len(queue') = Len(queue) - 1
          /\ \A i \in 1 .. Len(queue) - 1 : queue'[i] = queue[i + 1]
      BY <1>3, <3>1, SeqFacts DEF Types
    <3>3. DOMAIN queue' = 1 .. Len(queue) - 1 /\ (queue' # <<>> => 1 \in DOMAIN queue')
      BY <3>2, <2>0, SeqFacts
    <3> HIDE DEF HandOut
    <3>4. \A i \in DOMAIN queue' : queue'[i].needs \in 1 .. max_permits
      <4>1. \A i \in 1 .. Len(queue) - 1 : i + 1 \in DOMAIN queue
        BY <2>0
      <4>2. \A i \in DOMAIN queue : queue[i].needs \in 1 .. max_permits
        BY DEF Types
      <4> QED BY <3>2, <3>3, <4>1, <4>2
    <3>5. Types'
      BY <1>1, <2>0, <2>2, <3>1, <3>2, <3>4 DEF Types, max_permits
    <3>6. FirstWaits'
      <4>1. queue' # <<>> => queue'[1].needs > 0
        BY <3>3, <3>4
      <4> QED BY <2>0, <3>1, <4>1 DEF FirstWaits
    <3>7. AdditionFits'
      <4> HIDE DEF lacks
      <4>1. pool' \in Nat /\ pool' <= pool
        BY <2>0, <2>2, <3>1 DEF Types
      <4>2. /\ available + pool' <= max_permits + returned
            /\ refill.pc = "add" => available + pool' + refill.add <= max_permits + returned
            /\ refill.pc # "adding" => pool' <= returned
        BY <4>1 DEF Types, AdditionFits, max_permits
      <4>3. refill'.pc = "add" => refill' = refill
        BY <1>1
      <4>4. pool' = 0 => pool' <= returned
        BY DEF Types
      <4> QED BY <1>1, <3>1, <4>2, <4>3, <4>4 DEF AdditionFits
    <3> QED BY <3>5, <3>6, <3>7
  <2> QED BY <2>1, <2>2
<1> QED BY <1>2, <1>3

LEMMA RefillReadsInv ==
  ASSUME LimiterInv, NEW elapsed \in Delays, RefillReads(elapsed)
  PROVE  LimiterInv'
<1> USE MaxPermitsPositive DEF LimiterInv
<1> DEFINE earned == elapsed * max_permits + leftover
           add == AtMost(earned \div TicksPerSecond, Room(available))
<1>1. earned \in Nat
  <2>1. elapsed * max_permits \in Nat
    BY LimiterAssumption
  <2> QED BY <2>1 DEF Types
<1>2. earned \div TicksPerSecond \in Nat /\ Carried(earned) \in Nat
  <2> HIDE DEF earned
  <2> QED BY <1>1, LimiterAssumption, Division DEF Carried
<1>3. /\ refill.pc = "asleep" /\ leftover' = Carried(earned)
      /\ refill' = IF available < max_permits /\ add > 0 THEN [pc |-> "add", add |-> add] ELSE refill
      /\ UNCHANGED <<available, queue, held, pool, returned>>
  BY DEF RefillReads
<1>4. available < max_permits => add \in Nat /\ available + add <= max_permits
  <2> HIDE DEF earned
  <2> QED BY <1>2 DEF AtMost, Room, Types
<1> HIDE DEF earned, add
<1>5. Types'
  BY <1>2, <1>3, <1>4 DEF Types, max_permits
<1>6. FirstWaits'
  BY <1>3 DEF FirstWaits
<1>7. AdditionFits'
  BY <1>3, <1>4 DEF Types, AdditionFits, max_permits
<1> QED BY <1>5, <1>6, <1>7

LEMMA RefillAddsInv ==
  ASSUME LimiterInv, RefillAdds
  PROVE  LimiterInv'
<1> USE MaxPermitsPositive DEF LimiterInv, RefillAdds
<1>1. Types'
  BY DEF Types, max_permits
<1>2. FirstWaits'
  BY DEF FirstWaits
<1>3. AdditionFits'
  BY DEF Types, AdditionFits, max_permits
<1> QED BY <1>1, <1>2, <1>3

(* A step of the limiter, or one that leaves it alone.                       *)
LEMMA LimiterStep ==
  ASSUME LimiterInv, [LimiterNext]_limiterVars
  PROVE  LimiterInv'
<1>1. CASE UNCHANGED limiterVars
  BY <1>1 DEF limiterVars, LimiterInv, Types, FirstWaits, AdditionFits, max_permits
<1>2. CASE LimiterNext
  BY <1>2, HandOutInv, RefillAddsInv, RefillReadsInv, ResumeInv, TakeNowInv, EnqueueInv, GiveUpInv
  DEF LimiterNext
<1> QED BY <1>1, <1>2

LEMMA InvImpliesBurstBounded == LimiterInv => BurstBounded
<1> SUFFICES ASSUME LimiterInv PROVE BurstBounded
  OBVIOUS
<1>1. queue # <<>> => 1 \in DOMAIN queue
  BY SeqFacts DEF LimiterInv, Types
<1>2. held < max_permits
  BY <1>1, MaxPermitsPositive DEF LimiterInv, Types, FirstWaits
<1> QED BY <1>2 DEF LimiterInv, AdditionFits, BurstBounded

(* Whatever tasks use it, the bucket never offers more than one second's     *)
(* worth beyond what cancelled tasks have given back.                        *)
THEOREM LimiterBurstBounded == LimiterSpec => []BurstBounded
<1>1. LimiterInit => LimiterInv
  BY InitInv
<1>2. LimiterInv /\ [LimiterNext]_limiterVars => LimiterInv'
  BY LimiterStep
<1>3. LimiterInv => BurstBounded
  BY InvImpliesBurstBounded
<1> QED BY <1>1, <1>2, <1>3, PTL DEF LimiterSpec

------------------------------------------------------------------------------
(* The copy.                                                                *)
(* A non-empty set of naturals has a least element.                         *)
LEMMA LeastOfNaturals ==
  ASSUME NEW T \in SUBSET Nat, T # {}
  PROVE  \E m \in T : \A n \in T : m <= n
<1>1. IsWellFoundedOn(OpToRel(<, Nat), Nat)
  BY NatLessThanWellFounded
<1>2. PICK m \in T : \A n \in T : ~(<<n, m>> \in OpToRel(<, Nat))
  BY <1>1, WFMin
<1>3. \A n \in T : ~(n < m)
  BY <1>2 DEF OpToRel
<1> QED BY <1>3

(* A finite set with a strict total order has a first element: the one that  *)
(* has the fewest before it.                                                *)
LEMMA FirstElement ==
  ASSUME NEW S, IsFiniteSet(S), S # {}, NEW R,
         \A x \in S : <<x, x>> \notin R,
         \A x, y, z \in S : <<x, y>> \in R /\ <<y, z>> \in R => <<x, z>> \in R,
         \A x, y \in S : x # y => <<x, y>> \in R \/ <<y, x>> \in R
  PROVE  \E x \in S : \A y \in S \ {x} : <<x, y>> \in R
<1> DEFINE ahead(x) == {y \in S : <<y, x>> \in R}
           counts == {Cardinality(ahead(x)) : x \in S}
<1>1. \A x \in S : IsFiniteSet(ahead(x)) /\ Cardinality(ahead(x)) \in Nat
  <2> SUFFICES ASSUME NEW x \in S
               PROVE  IsFiniteSet(ahead(x)) /\ Cardinality(ahead(x)) \in Nat
    OBVIOUS
  <2>1. ahead(x) \in SUBSET S
    OBVIOUS
  <2> HIDE DEF ahead
  <2> QED BY <2>1, FS_Subset, FS_CardinalityType
<1>2. PICK m \in counts : \A n \in counts : m <= n
  <2> HIDE DEF ahead
  <2>1. counts \in SUBSET Nat /\ counts # {}
    BY <1>1
  <2> HIDE DEF counts
  <2> QED BY <2>1, LeastOfNaturals
<1>3. PICK x \in S : m = Cardinality(ahead(x))
  OBVIOUS
<1> SUFFICES ASSUME NEW y \in S \ {x}, <<x, y>> \notin R PROVE FALSE
  OBVIOUS
<1>4. <<y, x>> \in R
  OBVIOUS
<1>5. ahead(y) \in SUBSET ahead(x) /\ y \in ahead(x) /\ y \notin ahead(y)
  BY <1>4
<1>6. Cardinality(ahead(x)) <= Cardinality(ahead(y))
  <2> HIDE DEF ahead
  <2>1. Cardinality(ahead(y)) \in counts
    OBVIOUS
  <2> QED BY <2>1, <1>2, <1>3
<1> HIDE DEF ahead, counts
<1>7. y \in S /\ IsFiniteSet(ahead(x))
      /\ Cardinality(ahead(x)) \in Nat /\ Cardinality(ahead(y)) \in Nat
  BY <1>1
<1>8. /\ Cardinality(ahead(y)) <= Cardinality(ahead(x))
      /\ Cardinality(ahead(x)) = Cardinality(ahead(y)) => ahead(x) = ahead(y)
  BY <1>5, <1>7, FS_Subset
<1> QED BY <1>5, <1>6, <1>7, <1>8

------------------------------------------------------------------------------
(* What a list is, of files or of blobs.                                    *)
IsList(items) ==
  /\ IsFiniteSet(DOMAIN items) /\ DOMAIN items \subseteq Nat
  /\ \A i \in DOMAIN items : items[i] \in Entries

LEMMA SetupFacts ==
  ASSUME setup \in Setups
  PROVE  /\ setup.processes \in Nat \ {0} /\ setup.workers \in Nat \ {0}
         /\ Workers \subseteq AllWorkers /\ Processes \subseteq AllProcesses
         /\ setup.source \in {"prefix", "name", "shardlist"} /\ setup.rows \in Seq(Rows)
         /\ setup.limited => Processes = {0}
         /\ Len(setup.versions) \in Nat
         /\ \A v \in 1 .. Len(setup.versions) : Length(v) \in Nat
<1>1. /\ setup.processes \in Nat \ {0} /\ setup.workers \in Nat \ {0}
      /\ setup.source \in {"prefix", "name", "shardlist"} /\ setup.rows \in Seq(Rows)
      /\ Processes \X (0 .. setup.workers - 1) \subseteq AllWorkers
      /\ setup.limited => setup.processes = 1
  BY CopyAssumption DEF Processes
<1>2. Workers = Processes \X (0 .. setup.workers - 1)
  BY DEF Workers, WorkersOf
<1>3. \A p \in Processes : <<p, 0>> \in AllWorkers /\ <<p, 0>>[1] = p
  BY <1>1
<1>4. Processes \subseteq AllProcesses
  BY <1>3 DEF AllProcesses
<1>5. setup.limited => Processes = {0}
  BY <1>1 DEF Processes
<1>6. setup.versions \in Seq([length : Nat, md5 : BOOLEAN])
  BY CopyAssumption
<1>7. \A v \in 1 .. Len(setup.versions) : setup.versions[v] \in [length : Nat, md5 : BOOLEAN]
  BY <1>6, ElementOfSeq
<1>8. \A v \in 1 .. Len(setup.versions) : Length(v) \in Nat
  BY <1>7 DEF Length
<1> QED BY <1>1, <1>2, <1>4, <1>5, <1>6, <1>8

LEMMA EntryFacts ==
  ASSUME NEW e \in Entries
  PROVE  e.name \in Blobs /\ e.name \in Nat /\ e.size \in Sizes /\ e.size \in Nat
<1>1. e.name \in Blobs /\ e.size \in Sizes
  BY DEF Entries
<1>2. \A n \in 0 .. block_size - 1 : n \in Nat
  BY CopyAssumption
<1> QED BY <1>1, <1>2, CopyAssumption

LEMMA KeptFinite ==
  ASSUME NEW items, IsList(items)
  PROVE  IsFiniteSet(Kept(items)) /\ Cardinality(Kept(items)) \in Nat
         /\ \A i \in Kept(items) : i \in Nat /\ items[i].size \in Nat /\ items[i].name \in Nat
<1>1. Kept(items) \in SUBSET DOMAIN items
  BY DEF Kept
<1>2. \A i \in DOMAIN items : items[i].size \in Nat /\ items[i].name \in Nat
  BY EntryFacts DEF IsList
<1> QED BY <1>1, <1>2, FS_Subset, FS_CardinalityType DEF IsList

(* The order of apply_shard is total: there is a largest of those left.     *)
LEMMA LargestIsLeft ==
  ASSUME NEW items, IsList(items), NEW left \in SUBSET Kept(items), left # {}
  PROVE  Largest(items, left) \in left
<1> DEFINE R == {p \in left \X left : Before(items, p[1], p[2])}
<1>1. IsFiniteSet(left) /\ \A i \in left : i \in Nat /\ items[i].size \in Nat /\ items[i].name \in Nat
  BY KeptFinite, FS_Subset
<1>2. \A i, j \in left : <<i, j>> \in R <=> Before(items, i, j)
  OBVIOUS
<1> HIDE DEF R
<1>3. \A i \in left : <<i, i>> \notin R
  BY <1>1, <1>2 DEF Before
<1>4. \A i, j, k \in left : <<i, j>> \in R /\ <<j, k>> \in R => <<i, k>> \in R
  BY <1>1, <1>2 DEF Before
<1>5. \A i, j \in left : i # j => <<i, j>> \in R \/ <<j, i>> \in R
  BY <1>1, <1>2 DEF Before
<1>6. \E i \in left : \A j \in left \ {i} : <<i, j>> \in R
  BY <1>1, <1>3, <1>4, <1>5, FirstElement
<1>7. \E i \in left : \A j \in left \ {i} : Before(items, i, j)
  BY <1>2, <1>6
<1> QED BY <1>7 DEF Largest

(* There is always a least loaded bin.                                      *)
LEMMA LightestIsBin ==
  ASSUME NEW count \in Nat \ {0}, NEW loads \in [0 .. count - 1 -> Nat]
  PROVE  Lightest(loads) \in 0 .. count - 1
<1> DEFINE Bins == 0 .. count - 1
           R == {p \in Bins \X Bins : Less(loads, p[1], p[2])}
<1>1. IsFiniteSet(Bins) /\ Bins # {} /\ DOMAIN loads = Bins
      /\ \A b \in Bins : b \in Nat /\ loads[b] \in Nat
  <2>1. IsFiniteSet(Bins) /\ 0 \in Bins
    BY FS_Interval
  <2> QED BY <2>1
<1>2. \A i, j \in Bins : <<i, j>> \in R <=> Less(loads, i, j)
  OBVIOUS
<1> HIDE DEF R, Bins
<1>3. \A i \in Bins : <<i, i>> \notin R
  BY <1>1, <1>2 DEF Less
<1>4. \A i, j, k \in Bins : <<i, j>> \in R /\ <<j, k>> \in R => <<i, k>> \in R
  <2> TAKE i, j, k \in Bins
  <2>1. /\ i \in Nat /\ j \in Nat /\ k \in Nat
        /\ loads[i] \in Nat /\ loads[j] \in Nat /\ loads[k] \in Nat
    BY <1>1
  <2> QED BY <2>1, <1>2 DEF Less
<1>5. \A i, j \in Bins : i # j => <<i, j>> \in R \/ <<j, i>> \in R
  <2> TAKE i, j \in Bins
  <2>1. i \in Nat /\ j \in Nat /\ loads[i] \in Nat /\ loads[j] \in Nat
    BY <1>1
  <2> QED BY <2>1, <1>2 DEF Less
<1>6. \E i \in Bins : \A j \in Bins \ {i} : <<i, j>> \in R
  <2>1. IsFiniteSet(Bins) /\ Bins # {}
    BY <1>1
  <2> QED BY <2>1, <1>3, <1>4, <1>5, FirstElement
<1>7. \E i \in Bins : \A j \in Bins \ {i} : Less(loads, i, j)
  BY <1>2, <1>6
<1>8. Lightest(loads) \in Bins
  BY <1>1, <1>7 DEF Lightest
<1> QED BY <1>8 DEF Bins

(* Every entry that passes the filter is given to one of the bins.          *)
LEMMA OwnerIsBin ==
  ASSUME NEW items, IsList(items), NEW count \in Nat \ {0}
  PROVE  Owner(items, count) \in [Kept(items) -> 0 .. count - 1]
<1> DEFINE K == Kept(items)
           Bins == 0 .. count - 1
           Deals == [left : SUBSET K, loads : [Bins -> Nat], owner : [K -> Bins]]
           next(d) == [left |-> d.left \ {Largest(items, d.left)},
                       loads |-> [d.loads EXCEPT ![Lightest(d.loads)] =
                                    @ + items[Largest(items, d.left)].size],
                       owner |-> [d.owner EXCEPT ![Largest(items, d.left)] = Lightest(d.loads)]]
           step(f, d) == IF d.left = {} THEN d.owner ELSE f[next(d)]
           upto(n) == {d \in Deals : Cardinality(d.left) <= n}
           first == [left |-> K, loads |-> [b \in Bins |-> 0], owner |-> [i \in K |-> 0]]
           dealt == CHOOSE f : f = [d \in Deals |-> step(f, d)]
<1>1. Owner(items, count) = dealt[first]
  BY DEF Owner
<1>2. IsFiniteSet(K) /\ Cardinality(K) \in Nat /\ \A i \in K : items[i].size \in Nat
  BY KeptFinite
<1>3. /\ 0 \in Bins
      /\ \A loads \in [Bins -> Nat] : Lightest(loads) \in Bins
      /\ \A left \in SUBSET K : left # {} => Largest(items, left) \in left
  BY LightestIsBin, LargestIsLeft
<1>4. first \in Deals
  BY <1>3
<1>5. \A d \in Deals : IsFiniteSet(d.left) /\ Cardinality(d.left) \in Nat
                      /\ Cardinality(d.left) <= Cardinality(K)
  BY <1>2, FS_Subset, FS_CardinalityType
(* Each step takes one away.                                                *)
<1>6. ASSUME NEW d \in Deals, d.left # {}
      PROVE  next(d) \in Deals /\ Cardinality(next(d).left) = Cardinality(d.left) - 1
  <2> DEFINE i == Largest(items, d.left)
             b == Lightest(d.loads)
  <2>1. i \in d.left /\ i \in K /\ b \in Bins /\ items[i].size \in Nat
    BY <1>2, <1>3, <1>6
  <2> HIDE DEF i, b
  <2>2. d.left \ {i} \in SUBSET K
    OBVIOUS
  <2>3. [d.loads EXCEPT ![b] = @ + items[i].size] \in [Bins -> Nat]
    BY <2>1
  <2>4. [d.owner EXCEPT ![i] = b] \in [K -> Bins]
    BY <2>1
  <2>5. Cardinality(d.left \ {i}) = Cardinality(d.left) - 1
    BY <2>1, <1>5, FS_RemoveElement
  <2>6. next(d) = [left |-> d.left \ {i}, loads |-> [d.loads EXCEPT ![b] = @ + items[i].size],
                   owner |-> [d.owner EXCEPT ![i] = b]]
    BY DEF i, b
  <2> HIDE DEF next
  <2> QED BY <2>2, <2>3, <2>4, <2>5, <2>6
<1>7. \A d \in Deals : d.left = {} <=> Cardinality(d.left) = 0
  BY <1>5, FS_EmptySet
<1>8. upto(Cardinality(K)) = Deals
  BY <1>5
<1> HIDE DEF Deals, next, first, K
(* The recursion is defined on what takes at most n steps, for every n.     *)
<1>9. \A n \in Nat : \E f : f = [d \in upto(n) |-> step(f, d)]
  <2> DEFINE defined(n) == \E f : f = [d \in upto(n) |-> step(f, d)]
             bad == {n \in Nat : ~defined(n)}
  <2> SUFFICES ASSUME bad # {} PROVE FALSE
    OBVIOUS
  <2>1. PICK n \in bad : \A m \in bad : n <= m
    <3> HIDE DEF defined
    <3>1. bad \in SUBSET Nat
      OBVIOUS
    <3> QED BY <3>1, LeastOfNaturals
  <2>2. CASE n = 0
    <3> DEFINE f == [d \in upto(0) |-> d.owner]
    <3>1. \A d \in upto(0) : d.left = {}
      BY <1>5, <1>7
    <3>2. f = [d \in upto(0) |-> step(f, d)]
      BY <3>1
    <3> QED BY <2>2, <3>2
  <2>3. CASE n # 0
    <3>1. n - 1 \in Nat /\ n - 1 \notin bad
      <4> HIDE DEF defined
      <4> QED BY <2>1, <2>3
    <3>2. PICK f : f = [d \in upto(n - 1) |-> step(f, d)]
      BY <3>1
    <3> DEFINE g == [d \in upto(n) |-> step(f, d)]
    <3>3. \A d \in upto(n - 1) : d \in upto(n) /\ g[d] = f[d]
      <4>1. \A d \in upto(n - 1) : d \in upto(n)
        BY <1>5, <3>1
      <4>2. \A d \in upto(n - 1) : f[d] = step(f, d)
        <5> HIDE DEF upto, step
        <5> QED BY <3>2
      <4> HIDE DEF upto, step
      <4> QED BY <4>1, <4>2
    <3>4. \A d \in upto(n) : d.left # {} => next(d) \in upto(n - 1)
      BY <1>5, <1>6, <3>1
    <3>5. \A d \in upto(n) : step(f, d) = step(g, d)
      <4> HIDE DEF upto, g
      <4> QED BY <3>3, <3>4
    <3>6. g = [d \in upto(n) |-> step(g, d)]
      <4> HIDE DEF upto, step
      <4> QED BY <3>5
    <3> HIDE DEF g
    <3> QED BY <3>6
  <2> QED BY <2>2, <2>3
<1>10. \A d \in Deals : dealt[d] = step(dealt, d)
  <2>1. dealt = [d \in Deals |-> step(dealt, d)]
    <3>1. \E f : f = [d \in Deals |-> step(f, d)]
      <4> HIDE DEF step
      <4> QED BY <1>2, <1>8, <1>9
    <3> QED BY <3>1
  <2> HIDE DEF dealt, step
  <2> QED BY <2>1
<1> HIDE DEF dealt
<1>11. \A d \in Deals : dealt[d] \in [K -> Bins]
  <2> DEFINE bad == {d \in Deals : dealt[d] \notin [K -> Bins]}
             steps == {Cardinality(d.left) : d \in bad}
  <2> SUFFICES ASSUME bad # {} PROVE FALSE
    OBVIOUS
  <2>1. PICK d \in bad : \A e \in bad : Cardinality(d.left) <= Cardinality(e.left)
    <3>1. steps \in SUBSET Nat /\ steps # {}
      BY <1>5
    <3>2. PICK n \in steps : \A m \in steps : n <= m
      <4> HIDE DEF steps
      <4> QED BY <3>1, LeastOfNaturals
    <3>3. PICK d \in bad : n = Cardinality(d.left)
      OBVIOUS
    <3> QED BY <3>2, <3>3
  <2>2. CASE d.left = {}
    BY <2>2, <1>10 DEF Deals
  <2>3. CASE d.left # {}
    <3>1. dealt[d] = dealt[next(d)] /\ next(d) \in Deals
      BY <2>3, <1>6, <1>10
    <3>2. next(d) \in bad /\ Cardinality(next(d).left) = Cardinality(d.left) - 1
      BY <2>3, <1>6, <3>1
    <3> QED BY <2>1, <3>2, <1>5
  <2> QED BY <2>2, <2>3
<1> QED BY <1>1, <1>4, <1>11 DEF K

(* Worker and shard are one to one.                                         *)
LEMMA ShardsAreWorkers ==
  ASSUME setup \in Setups
  PROVE  /\ \A w \in Workers : Index(w[1], w[2]) \in 0 .. Shards - 1
         /\ \A v, w \in Workers : Index(v[1], v[2]) = Index(w[1], w[2]) => v = w
         /\ \A b \in 0 .. Shards - 1 : \E w \in Workers : Index(w[1], w[2]) = b
<1> DEFINE P == setup.processes
           W == setup.workers
<1>1. P \in Nat \ {0} /\ W \in Nat \ {0}
  BY SetupFacts
<1>2. /\ Workers = (0 .. P - 1) \X (0 .. W - 1) /\ Shards = P * W
      /\ \A p, i : Index(p, i) = p * W + i
  BY DEF Workers, WorkersOf, Processes, Shards, Index
<1> HIDE DEF P, W
<1>3. \A p, i : p \in 0 .. P - 1 /\ i \in 0 .. W - 1 => p * W + i \in 0 .. P * W - 1
  <2> SUFFICES ASSUME NEW p \in 0 .. P - 1, NEW i \in 0 .. W - 1
               PROVE  p * W + i \in 0 .. P * W - 1
    OBVIOUS
  <2>1. p * W \in Nat /\ P * W \in Nat /\ (P - 1 - p) * W >= 0
    BY <1>1
  <2>2. (P - 1 - p) * W = P * W - W - p * W
    BY <1>1
  <2> QED BY <1>1, <2>1, <2>2
<1>4. \A p, i, q, j : p \in 0 .. P - 1 /\ i \in 0 .. W - 1 /\ q \in 0 .. P - 1 /\ j \in 0 .. W - 1
                      /\ p * W + i = q * W + j => p = q /\ i = j
  <2>1. ASSUME NEW p \in Nat, NEW q \in Nat, NEW i \in 0 .. W - 1, NEW j \in 0 .. W - 1,
               p < q, p * W + i = q * W + j
        PROVE  FALSE
    <3>1. (q - 1 - p) * W >= 0 /\ (q - 1 - p) * W = q * W - W - p * W
      BY <1>1, <2>1
    <3>2. p * W \in Nat /\ q * W \in Nat
      BY <1>1
    <3> QED BY <1>1, <2>1, <3>1, <3>2
  <2> SUFFICES ASSUME NEW p \in 0 .. P - 1, NEW i \in 0 .. W - 1,
                      NEW q \in 0 .. P - 1, NEW j \in 0 .. W - 1, p * W + i = q * W + j
               PROVE  p = q /\ i = j
    OBVIOUS
  <2>2. p = q
    BY <2>1, <1>1
  <2>3. p * W \in Nat
    BY <1>1
  <2> QED BY <2>2, <2>3, <1>1
<1>5. ASSUME NEW b \in 0 .. P * W - 1
      PROVE  \E p \in 0 .. P - 1, i \in 0 .. W - 1 : p * W + i = b
  <2> DEFINE p == b \div W
             i == b % W
  <2>0. P * W \in Nat
    BY <1>1
  <2>1. b \in Nat
    BY <2>0
  <2>2. p \in Nat /\ i \in 0 .. W - 1 /\ b = p * W + i
    BY <1>1, <2>1
  <2> HIDE DEF p, i
  <2>3. p <= P - 1
    <3> SUFFICES ASSUME p >= P PROVE FALSE
      BY <1>1, <2>2
    <3>1. (p - P) * W >= 0 /\ (p - P) * W = p * W - P * W /\ p * W \in Nat
      BY <1>1, <2>2
    <3> QED BY <3>1, <2>0, <2>2, <1>1
  <2> QED BY <2>2, <2>3, <1>1
<1> QED
  <2>1. \A w \in Workers : /\ w[1] \in 0 .. P - 1 /\ w[2] \in 0 .. W - 1 /\ w = <<w[1], w[2]>>
                            /\ Index(w[1], w[2]) = w[1] * W + w[2]
    BY <1>2
  <2>2. \A w \in Workers : Index(w[1], w[2]) \in 0 .. Shards - 1
    BY <1>2, <1>3, <2>1
  <2>3. \A v, w \in Workers : Index(v[1], v[2]) = Index(w[1], w[2]) => v = w
    BY <1>4, <2>1
  <2>4. \A b \in 0 .. Shards - 1 : \E w \in Workers : Index(w[1], w[2]) = b
    <3> SUFFICES ASSUME NEW b \in 0 .. Shards - 1 PROVE \E w \in Workers : Index(w[1], w[2]) = b
      OBVIOUS
    <3>1. PICK p \in 0 .. P - 1, i \in 0 .. W - 1 : p * W + i = b
      BY <1>2, <1>5
    <3>2. <<p, i>> \in Workers /\ <<p, i>>[1] = p /\ <<p, i>>[2] = i
      BY <1>2
    <3> QED BY <3>1, <3>2, <2>1
  <2> QED BY <2>2, <2>3, <2>4

(* The shares of workers that deal out the same list are a partition of it. *)
LEMMA SharesPartitionList ==
  ASSUME setup \in Setups, NEW items, IsList(items)
  PROVE  LET of(w) == ShareOf(items, Index(w[1], w[2]), Shards)
         IN  /\ UNION {of(v) : v \in Workers} = Kept(items)
             /\ \A v, w \in Workers : v # w => of(v) \cap of(w) = {}
<1> DEFINE owner == Owner(items, Shards)
<1>0. Shards \in Nat \ {0}
  <2>1. \A m, n \in Nat \ {0} : m * n \in Nat \ {0}
    OBVIOUS
  <2> QED BY <2>1, SetupFacts DEF Shards
<1>1. \A i \in Kept(items) : owner[i] \in 0 .. Shards - 1
  BY <1>0, OwnerIsBin
<1>2. \A k : ShareOf(items, k, Shards) = {i \in Kept(items) : owner[i] = k}
  BY DEF ShareOf
<1> HIDE DEF owner
<1> QED BY <1>1, <1>2, ShardsAreWorkers

------------------------------------------------------------------------------
(* The inductive invariant.                                                 *)
Phases == {"start", "read", "list", "listed", "create", "set_len", "transfer", "chunks", "verify",
           "failing", "ok", "error"}
TaskStates == {"none", "rate", "wait", "get", "put", "write", "ok", "err", "dropped"}

(* What the tasks of one blob of a length are: its chunks, or one request.  *)
Parts(length) == 1 .. (IF length >= block_size THEN NumChunks(length) ELSE 1)
Bytewise == Nat \X Nat

CopyTypes ==
  /\ setup \in Setups /\ container \in [Blobs -> Sizes \cup {Gone}]
  /\ changed \subseteq Blobs /\ version \in 0 .. Len(setup.versions)
  /\ DOMAIN phase = AllWorkers /\ DOMAIN list = AllWorkers /\ DOMAIN share = AllWorkers
  /\ DOMAIN task = AllWorkers /\ DOMAIN body = AllWorkers /\ DOMAIN seen = AllWorkers
  /\ DOMAIN exit = AllProcesses /\ local \in Seq(Bytewise)
  /\ \A w \in AllWorkers : IsList(list[w]) /\ phase[w] \in Phases

(* Where a worker is, and what it has by then.                              *)
Placed(w) ==
  /\ seen[w] \in 0 .. version
  /\ phase[w] \in {"start", "read", "list", "listed", "create", "set_len"} =>
       share[w] = {} /\ DOMAIN task[w] = {}
  /\ phase[w] \in {"start", "read", "list", "listed", "transfer"} => ~OneBlob(w)
  /\ phase[w] \in {"create", "set_len", "chunks", "verify"} => OneBlob(w)
  /\ phase[w] = "start" => DOMAIN list[w] = {}
  /\ phase[w] \in {"read", "list"} => phase[w] = Listing
  /\ phase[w] = "set_len" => Large(w)
  /\ OneBlob(w) => /\ w \in Workers
                   /\ DOMAIN task[w] \subseteq Parts(Length(seen[w])) \cap DOMAIN body[w]
                   /\ phase[w] \in {"chunks", "verify", "ok"} =>
                        DOMAIN task[w] = Parts(Length(seen[w]))
  /\ ~OneBlob(w) => DOMAIN task[w] = share[w] /\ share[w] \subseteq DOMAIN list[w]

(* Its tasks.                                                               *)
Worked(w) ==
  /\ \A i \in DOMAIN task[w] :
       /\ task[w][i] \in TaskStates
       /\ task[w][i] \in {"put", "write"} => OneBlob(w) /\ body[w][i] \in seen[w] .. version
       /\ task[w][i] = "write" => ~Large(w)
       /\ task[w][i] = "dropped" => phase[w] \in {"failing", "error"}
       /\ phase[w] \in {"verify", "ok"} => task[w][i] = "ok"

(* Its list has every blob that was there all the time: those up to the     *)
(* last page, and in the end all.                                           *)
Lists(w) ==
  /\ Listing = "list" =>
       /\ \A b \in DOMAIN list[w] : list[w][b].name = b
       /\ \A b \in Blobs \ changed :
            There(b) =>
              /\ phase[w] = "list" => b \in DOMAIN list[w] \/ \A c \in DOMAIN list[w] : c < b
              /\ phase[w] = "listed" \/ Begun(w) => b \in DOMAIN list[w]
  /\ Listing = "read" /\ (phase[w] = "listed" \/ Begun(w)) =>
       list[w] = [i \in {k \in DOMAIN setup.rows : setup.rows[k].kind = "entry"} |->
                    setup.rows[i].entry]

Shares(w) == Begun(w) => share[w] = ShareOf(list[w], Index(w[1], w[2]), Shards)

(* As long as nobody has replaced the blob since a worker has seen it, all  *)
(* that copy it write the same bytes to the same places.  The file is no    *)
(* longer than the blob once anybody has emptied it, and while it lacks a   *)
(* byte, somebody is still to write that part of it: at least the worker    *)
(* that has emptied the file last.                                          *)
AsSeen == \A w \in Workers : seen[w] \in {0, version}
Emptied(w) ==
  \/ phase[w] = "set_len"
  \/ OneBlob(w) /\ \E i \in DOMAIN task[w] : Large(w) \/ task[w][i] \in {"write", "ok"}
Wrote(w, i) == i \in DOMAIN task[w] /\ task[w][i] = "ok"

Part(i, length) == IF length >= block_size THEN First(i) .. AtMost(i * block_size, length)
                   ELSE 1 .. length
Has(p) == p \in DOMAIN local /\ local[p] = <<version, p>>
Short == (\E w \in Workers : Emptied(w)) => Len(local) <= Length(version)
Filling ==
  \A i \in Parts(Length(version)) : \A p \in Part(i, Length(version)) :
    Has(p) \/ \E w \in Workers : OneBlob(w) /\ ~Wrote(w, i)
Filled == AsSeen /\ (\E w \in Workers : OneBlob(w)) => Short /\ Filling

(* If each has checked the digest, the last that did has found the file as  *)
(* it still is.                                                             *)
Compared ==
  (\A w \in Workers : OneBlob(w) /\ phase[w] = "ok") /\ Checked =>
    \E w \in Workers : local = Content(seen[w])

Exits == \A p \in Processes : exit[p].status = "ok" => NoError(p)

WorkerInv(w) == Placed(w) /\ Worked(w) /\ Lists(w) /\ Shares(w)
CopyInv == CopyTypes /\ (\A w \in AllWorkers : WorkerInv(w)) /\ Filled /\ Compared /\ Exits

(* What a step of one worker leaves alone.                                  *)
Same(v) ==
  /\ phase'[v] = phase[v] /\ seen'[v] = seen[v] /\ list'[v] = list[v] /\ share'[v] = share[v]
  /\ task'[v] = task[v] /\ body'[v] = body[v]
SameStore == setup' = setup /\ container' = container /\ changed' = changed /\ version' = version

LEMMA SameSetup ==
  ASSUME setup' = setup
  PROVE  /\ Workers' = Workers /\ Processes' = Processes /\ Listing' = Listing /\ Shards' = Shards
         /\ \A p, i : Index(p, i)' = Index(p, i)
         /\ \A p : WorkersOf(p)' = WorkersOf(p)
         /\ \A v : Length(v)' = Length(v)
BY DEF Workers, WorkersOf, Processes, Listing, Shards, Index, Length

LEMMA OthersKept ==
  ASSUME NEW v \in AllWorkers, WorkerInv(v), Same(v), SameStore
  PROVE  WorkerInv(v)'
<1> USE SameSetup DEF WorkerInv, Same, SameStore
<1>0. Length(seen[v])' = Length(seen[v])
  BY DEF Length
<1>1. Placed(v)'
  BY <1>0 DEF Placed, OneBlob, Large, Parts, NumChunks
<1>2. Worked(v)'
  BY <1>0 DEF Worked, OneBlob, Large
<1>3. Lists(v)'
  BY DEF Lists, OneBlob, Begun, There
<1>4. Shares(v)'
  BY DEF Shares, Begun, OneBlob
<1> QED BY <1>1, <1>2, <1>3, <1>4

(* One worker's step changes nothing of the others.                         *)
Focus(w) == \A v \in AllWorkers \ {w} : Same(v)
Domains ==
  /\ DOMAIN phase' = AllWorkers /\ DOMAIN list' = AllWorkers /\ DOMAIN share' = AllWorkers
  /\ DOMAIN task' = AllWorkers /\ DOMAIN body' = AllWorkers /\ DOMAIN seen' = AllWorkers
  /\ DOMAIN exit' = AllProcesses

LEMMA WorkerFocus ==
  ASSUME CopyTypes, NEW w \in AllWorkers, WorkerStep(w)
  PROVE  Focus(w) /\ SameStore /\ Domains
<1> USE DEF CopyTypes, Focus, SameStore, Same, Domains
<1>1. CASE Resolve(w)
  BY <1>1 DEF Resolve, Goes, Sees
<1>2. CASE ReadShardlist(w)
  BY <1>2 DEF ReadShardlist, Goes, HasListed
<1>3. CASE ListPage(w)
  BY <1>3 DEF ListPage, Goes, HasListed
<1>4. CASE TakeShare(w)
  BY <1>4 DEF TakeShare
<1>5. CASE CreateFile(w)
  BY <1>5 DEF CreateFile, Goes, Spawns
<1>6. CASE EndWorker(w)
  BY <1>6 DEF EndWorker, taskVars
<1>7. CASE EndFailing(w)
  BY <1>7 DEF EndFailing, taskVars
<1>8. CASE SetLen(w)
  BY <1>8 DEF SetLen, Goes, Spawns
<1>9. CASE VerifyFile(w)
  BY <1>9 DEF VerifyFile, taskVars
<1> QED BY <1>1, <1>2, <1>3, <1>4, <1>5, <1>6, <1>7, <1>8, <1>9 DEF WorkerStep

TaskAction(w, i) ==
  TakePermit(w, i) \/ AwaitRate(w, i) \/ Get(w, i) \/ GetFails(w, i) \/ Put(w, i) \/ DropTask(w, i)

(* What a step of a task can change: its own state, and the chunk it has.   *)
LEMMA TaskFocus ==
  ASSUME CopyTypes, NEW w \in AllWorkers, NEW i \in DOMAIN task[w], TaskAction(w, i)
  PROVE  /\ Focus(w) /\ SameStore /\ Domains
         /\ phase'[w] = phase[w] /\ seen'[w] = seen[w] /\ list'[w] = list[w]
         /\ share'[w] = share[w]
         /\ DOMAIN task'[w] = DOMAIN task[w] /\ DOMAIN body'[w] = DOMAIN body[w]
         /\ \A j \in DOMAIN task[w] \ {i} : task'[w][j] = task[w][j] /\ body'[w][j] = body[w][j]
         /\ exit' = exit
<1>1. ASSUME NEW s, Set(w, i, s)
      PROVE  /\ DOMAIN task' = AllWorkers /\ DOMAIN task'[w] = DOMAIN task[w]
             /\ \A v \in AllWorkers \ {w} : task'[v] = task[v]
             /\ \A j \in DOMAIN task[w] \ {i} : task'[w][j] = task[w][j]
  BY <1>1 DEF Set, CopyTypes
<1>2. PICK s : Set(w, i, s)
  BY DEF TaskAction, TakePermit, AwaitRate, Get, GetFails, Put, DropTask
<1>3. /\ DOMAIN body' = AllWorkers /\ DOMAIN body'[w] = DOMAIN body[w]
      /\ \A v \in AllWorkers \ {w} : body'[v] = body[v]
      /\ \A j \in DOMAIN task[w] \ {i} : body'[w][j] = body[w][j]
  <2>1. CASE body' = body
    BY <2>1 DEF CopyTypes
  <2>2. CASE body' = [body EXCEPT ![w][i] = version]
    BY <2>2 DEF CopyTypes
  <2> QED BY <2>1, <2>2 DEF TaskAction, TakePermit, AwaitRate, Get, GetFails, Put, DropTask
<1>4. /\ UNCHANGED workerVars /\ SameStore /\ exit' = exit
  BY DEF TaskAction, TakePermit, AwaitRate, Get, GetFails, Put, DropTask, SameStore
<1> QED BY <1>1, <1>2, <1>3, <1>4 DEF Focus, Same, Domains, workerVars, CopyTypes

------------------------------------------------------------------------------
(* The chunks of a blob: each has a byte, each byte is in one.              *)
LEMMA ChunkFacts ==
  ASSUME NEW n \in Nat
  PROVE  /\ NumChunks(n) \in Nat /\ (n >= block_size => NumChunks(n) >= 1)
         /\ \A i \in 1 .. NumChunks(n) : First(i) \in Nat \ {0} /\ First(i) <= n
                                          /\ i * block_size \in Nat /\ i * block_size >= First(i)
         /\ \A p \in 1 .. n : \E i \in 1 .. NumChunks(n) : First(i) <= p /\ p <= i * block_size
<1> DEFINE b == block_size
           m == (n + b - 1) \div b
           s == (n + b - 1) % b
<1>1. b \in Nat \ {0} /\ n + b - 1 \in Nat
  BY CopyAssumption
<1>2. NumChunks(n) = m /\ \A i : First(i) = (i - 1) * b + 1
  BY DEF NumChunks, First
<1> HIDE DEF b
<1>3. m \in Nat /\ s \in 0 .. b - 1 /\ n + b - 1 = m * b + s
  BY <1>1
<1> HIDE DEF m, s
<1>4. n >= b => m >= 1
  <2> SUFFICES ASSUME n >= b, m = 0 PROVE FALSE
    BY <1>3
  <2>1. m * b = 0
    BY <1>1
  <2> QED BY <1>1, <1>3, <2>1
<1>5. ASSUME NEW i \in 1 .. m
      PROVE  /\ (i - 1) * b + 1 \in Nat \ {0} /\ (i - 1) * b + 1 <= n
             /\ i * b \in Nat /\ i * b >= (i - 1) * b + 1
  <2>1. (m - i) * b >= 0 /\ (m - i) * b = m * b - i * b
    BY <1>1, <1>3
  <2>2. (i - 1) * b = i * b - b /\ (i - 1) * b \in Nat /\ i * b \in Nat
    BY <1>1, <1>3
  <2>3. m * b \in Nat
    BY <1>1, <1>3
  <2> QED BY <1>1, <1>3, <2>1, <2>2, <2>3
<1>6. ASSUME NEW p \in 1 .. n
      PROVE  \E i \in 1 .. m : (i - 1) * b + 1 <= p /\ p <= i * b
  <2> DEFINE q == (p - 1) \div b
             t == (p - 1) % b
  <2>1. q \in Nat /\ t \in 0 .. b - 1 /\ p - 1 = q * b + t
    BY <1>1
  <2> HIDE DEF q, t
  <2>2. (q + 1) * b = q * b + b /\ ((q + 1) - 1) * b = q * b /\ q * b \in Nat
    BY <1>1, <2>1
  <2>3. q + 1 <= m
    <3> SUFFICES ASSUME q >= m PROVE FALSE
      BY <1>3, <2>1
    <3>1. (q - m) * b >= 0 /\ (q - m) * b = q * b - m * b /\ m * b \in Nat
      BY <1>1, <1>3, <2>1
    <3> QED BY <1>1, <1>3, <2>1, <2>2, <3>1
  <2>4. q + 1 \in 1 .. m /\ ((q + 1) - 1) * b + 1 <= p /\ p <= (q + 1) * b
    BY <1>1, <1>3, <2>1, <2>2, <2>3
  <2> QED BY <2>4
<1> QED BY <1>2, <1>3, <1>4, <1>5, <1>6 DEF b

LEMMA SeenLength ==
  ASSUME CopyTypes, NEW w \in AllWorkers, WorkerInv(w), OneBlob(w)
  PROVE  /\ Length(seen[w]) \in Nat /\ version \in Nat /\ Length(version) \in Nat
         /\ seen[w] \in 1 .. version
<1>1. setup \in Setups /\ seen[w] \in 0 .. version /\ version \in 0 .. Len(setup.versions)
      /\ seen[w] > 0
  BY DEF CopyTypes, WorkerInv, Placed, OneBlob
<1> QED BY <1>1, SetupFacts

(* The worker that moves.                                                   *)

LEMMA ErrorInv ==
  ASSUME CopyTypes, NEW w \in AllWorkers, WorkerInv(w), SameStore, Goes(w, "error"),
         body' = body, seen' = seen,
         phase[w] \in {"start", "read", "list", "create", "set_len"}
  PROVE  WorkerInv(w)'
<1>1. /\ phase'[w] = "error" /\ list'[w] = list[w] /\ share'[w] = share[w] /\ task'[w] = task[w]
      /\ body'[w] = body[w] /\ seen'[w] = seen[w] /\ (OneBlob(w)' <=> OneBlob(w))
      /\ DOMAIN task[w] = {} /\ share[w] = {}
  BY DEF CopyTypes, Goes, OneBlob, WorkerInv, Placed
<1>2. Placed(w)'
  BY <1>1, SameSetup DEF Placed, WorkerInv, SameStore
<1>3. Worked(w)'
  BY <1>1 DEF Worked
<1>4. Lists(w)'
  BY <1>1, SameSetup DEF Lists, Begun, WorkerInv, SameStore, There
<1>5. Shares(w)'
  BY <1>1 DEF Shares, Begun
<1> QED BY <1>2, <1>3, <1>4, <1>5 DEF WorkerInv

(* HEAD has found the blob.                                                 *)
LEMMA ResolvedInv ==
  ASSUME CopyTypes, NEW w \in Workers, WorkerInv(w), SameStore, phase[w] = "start",
         Goes(w, "create"), Sees(w, version), version > 0, body' = body
  PROVE  WorkerInv(w)'
<1>0. w \in AllWorkers /\ version \in Nat
  BY SetupFacts DEF CopyTypes
<1>1. /\ phase'[w] = "create" /\ list'[w] = list[w] /\ share'[w] = share[w] /\ task'[w] = task[w]
      /\ body'[w] = body[w] /\ seen'[w] = version /\ OneBlob(w)'
      /\ DOMAIN task[w] = {} /\ share[w] = {} /\ ~OneBlob(w)
  BY <1>0 DEF CopyTypes, Goes, Sees, OneBlob, WorkerInv, Placed
<1>2. Placed(w)'
  BY <1>0, <1>1, SameSetup DEF Placed, SameStore
<1>3. Worked(w)'
  BY <1>1 DEF Worked
<1>4. Lists(w)'
  BY <1>1, SameSetup DEF Lists, Begun, WorkerInv, SameStore, There
<1>5. Shares(w)'
  BY <1>1 DEF Shares, Begun
<1> QED BY <1>2, <1>3, <1>4, <1>5 DEF WorkerInv

LEMMA ResolveInv ==
  ASSUME CopyTypes, NEW w \in Workers, WorkerInv(w), Resolve(w)
  PROVE  WorkerInv(w)'
<1>1. w \in AllWorkers /\ SameStore /\ phase[w] = "start" /\ body' = body
  BY SetupFacts DEF CopyTypes, Resolve, SameStore
<1>2. CASE Goes(w, "error") /\ seen' = seen
  BY <1>1, <1>2, ErrorInv DEF Resolve
<1>3. ASSUME NEW to \in {"list", "read"}, Goes(w, to), to = Listing, seen' = seen
      PROVE  WorkerInv(w)'
  <2>1. /\ phase'[w] = to /\ list'[w] = list[w] /\ share'[w] = share[w] /\ task'[w] = task[w]
        /\ body'[w] = body[w] /\ seen'[w] = seen[w] /\ seen[w] \in 0 .. version
        /\ ~OneBlob(w) /\ ~OneBlob(w)'
        /\ DOMAIN task[w] = {} /\ share[w] = {} /\ DOMAIN list[w] = {}
    BY <1>1, <1>3 DEF CopyTypes, Goes, OneBlob, WorkerInv, Placed
  <2>2. Placed(w)'
    BY <1>1, <1>3, <2>1, SameSetup DEF Placed, SameStore
  <2>3. Worked(w)'
    BY <2>1 DEF Worked
  <2>4. Lists(w)'
    BY <1>1, <1>3, <2>1, SameSetup DEF Lists, Begun, WorkerInv, SameStore, There
  <2>5. Shares(w)'
    BY <1>3, <2>1 DEF Shares, Begun
  <2> QED BY <2>2, <2>3, <2>4, <2>5 DEF WorkerInv
<1>4. Listing \in {"list", "read"}
  BY DEF Listing
<1> QED
  <2>1. CASE setup.source # "name"
    BY <2>1, <1>2, <1>3, <1>4 DEF Resolve
  <2>2. CASE setup.source = "name"
    <3>1. \/ Goes(w, "error") /\ seen' = seen
          \/ version > 0 /\ Goes(w, "create") /\ Sees(w, version)
          \/ Goes(w, IF setup.recursive THEN Listing ELSE "error") /\ seen' = seen
      BY <2>2 DEF Resolve
    <3> QED BY <3>1, <1>1, <1>2, <1>3, <1>4, ResolvedInv
  <2> QED BY <2>1, <2>2

(* The lines of the shardlist.                                              *)
Lines == {i \in DOMAIN setup.rows : setup.rows[i].kind = "entry"}

LEMMA RowsAreList ==
  ASSUME setup \in Setups
  PROVE  IsList([i \in Lines |-> setup.rows[i].entry])
<1>1. setup.rows \in Seq(Rows)
  BY SetupFacts
<1>2. DOMAIN setup.rows = 1 .. Len(setup.rows) /\ Len(setup.rows) \in Nat
      /\ \A i \in DOMAIN setup.rows : setup.rows[i] \in Rows
  BY <1>1
<1>3. IsFiniteSet(DOMAIN setup.rows) /\ DOMAIN setup.rows \subseteq Nat
  BY <1>2, FS_Interval
<1>4. IsFiniteSet(Lines) /\ Lines \subseteq DOMAIN setup.rows
  BY <1>3, FS_Subset DEF Lines
<1> QED BY <1>2, <1>3, <1>4 DEF IsList, Rows

LEMMA ListedInv ==
  ASSUME CopyTypes, NEW w \in AllWorkers, WorkerInv(w), SameStore, NEW items, IsList(items),
         HasListed(w, items), body' = body, seen' = seen, phase[w] \in {"read", "list"},
         Listing = "read" => items = [i \in Lines |-> setup.rows[i].entry],
         Listing = "list" => /\ \A b \in DOMAIN items : items[b].name = b
                             /\ \A b \in Blobs \ changed : There(b) => b \in DOMAIN items
  PROVE  WorkerInv(w)' /\ IsList(list'[w])
<1>1. /\ phase'[w] = "listed" /\ list'[w] = items /\ share'[w] = share[w] /\ task'[w] = task[w]
      /\ body'[w] = body[w] /\ seen'[w] = seen[w] /\ seen[w] \in 0 .. version
      /\ ~OneBlob(w) /\ ~OneBlob(w)' /\ DOMAIN task[w] = {} /\ share[w] = {}
  BY DEF CopyTypes, HasListed, OneBlob, WorkerInv, Placed
<1>2. Placed(w)'
  BY <1>1 DEF Placed, SameStore
<1>3. Worked(w)'
  BY <1>1 DEF Worked
<1>4. Lists(w)'
  BY <1>1, SameSetup DEF Lists, Begun, SameStore, There, Lines
<1>5. Shares(w)'
  BY <1>1 DEF Shares, Begun
<1> QED BY <1>1, <1>2, <1>3, <1>4, <1>5 DEF WorkerInv

LEMMA ReadShardlistInv ==
  ASSUME CopyTypes, NEW w \in Workers, WorkerInv(w), ReadShardlist(w)
  PROVE  WorkerInv(w)' /\ IsList(list'[w])
<1>1. /\ w \in AllWorkers /\ SameStore /\ body' = body /\ seen' = seen
      /\ phase[w] = "read" /\ Listing = "read"
  BY SetupFacts DEF CopyTypes, ReadShardlist, SameStore, WorkerInv, Placed
<1>2. CASE Goes(w, "error")
  <2>1. list'[w] = list[w]
    BY <1>2 DEF Goes
  <2> QED BY <1>1, <1>2, <2>1, ErrorInv DEF CopyTypes
<1>3. CASE HasListed(w, [i \in Lines |-> setup.rows[i].entry])
  BY <1>1, <1>3, ListedInv, RowsAreList DEF CopyTypes
<1> QED BY <1>2, <1>3 DEF ReadShardlist, Lines

(* A page: the blobs between the last and the next are in no list, and what *)
(* is left after it lies behind all it has.                                 *)
LEMMA PageFacts ==
  ASSUME CopyTypes, NEW w \in AllWorkers, NEW names \in SUBSET Rest(w)
  PROVE  /\ DOMAIN WithPage(w, names) = DOMAIN list[w] \cup names
         /\ IsList(WithPage(w, names))
         /\ (\A b \in DOMAIN list[w] : list[w][b].name = b) =>
              \A b \in DOMAIN WithPage(w, names) : WithPage(w, names)[b].name = b
<1>1. DOMAIN WithPage(w, names) = DOMAIN list[w] \cup names
  BY DEF WithPage
<1>2. names \in SUBSET Blobs /\ IsFiniteSet(names) /\ names \subseteq Nat
  <2>1. names \in SUBSET Blobs
    BY DEF Rest
  <2> QED BY <2>1, CopyAssumption, FS_Subset
<1>3. IsFiniteSet(DOMAIN list[w] \cup names)
  BY <1>2, FS_Union DEF CopyTypes, IsList
<1>4. \A b \in names : WithPage(w, names)[b] = [name |-> b, size |-> container[b]]
                       /\ container[b] \in Sizes
  BY <1>2 DEF WithPage, Rest, There, CopyTypes
<1>5. \A b \in DOMAIN list[w] \ names : WithPage(w, names)[b] = list[w][b]
  BY DEF WithPage
<1>6. \A b \in DOMAIN WithPage(w, names) : WithPage(w, names)[b] \in Entries
  <2>1. \A b \in DOMAIN list[w] : list[w][b] \in Entries
    BY DEF CopyTypes, IsList
  <2>2. \A b \in names : WithPage(w, names)[b] \in Entries
    <3> TAKE b \in names
    <3>1. b \in Blobs /\ container[b] \in Sizes
      BY <1>2, <1>4
    <3>2. [name |-> b, size |-> container[b]] \in Entries
      BY <3>1 DEF Entries
    <3> QED BY <3>2, <1>4
  <2> QED BY <1>1, <1>5, <2>1, <2>2
<1>7. IsList(WithPage(w, names))
  BY <1>1, <1>2, <1>3, <1>6 DEF IsList, CopyTypes
<1>8. ASSUME \A b \in DOMAIN list[w] : list[w][b].name = b
      PROVE  \A b \in DOMAIN WithPage(w, names) : WithPage(w, names)[b].name = b
  BY <1>1, <1>4, <1>5, <1>8
<1> QED BY <1>1, <1>7, <1>8

LEMMA ListPageInv ==
  ASSUME CopyTypes, NEW w \in Workers, WorkerInv(w), ListPage(w)
  PROVE  WorkerInv(w)' /\ IsList(list'[w])
<1>1. /\ w \in AllWorkers /\ SameStore /\ body' = body /\ seen' = seen
      /\ phase[w] = "list" /\ Listing = "list"
  BY SetupFacts DEF CopyTypes, ListPage, SameStore, WorkerInv, Placed
<1>2. CASE Goes(w, "error")
  <2>1. list'[w] = list[w]
    BY <1>2 DEF Goes
  <2> QED BY <1>1, <1>2, <2>1, ErrorInv DEF CopyTypes
<1>3. ASSUME NEW names \in SUBSET Rest(w), NEW more \in BOOLEAN,
             \A b \in Rest(w) \ names, c \in names : c < b,
             names # Rest(w) => more
      PROVE  /\ \A b \in DOMAIN WithPage(w, names) : WithPage(w, names)[b].name = b
             /\ IsList(WithPage(w, names))
             /\ \A b \in Blobs \ changed : There(b) =>
                  \/ b \in DOMAIN WithPage(w, names)
                  \/ more /\ \A c \in DOMAIN WithPage(w, names) : c < b
  <2>1. /\ \A b \in DOMAIN list[w] : list[w][b].name = b
        /\ \A b \in Blobs \ changed :
             There(b) => b \in DOMAIN list[w] \/ b \in Rest(w)
    BY <1>1 DEF WorkerInv, Lists, Rest
  <2>2. /\ DOMAIN WithPage(w, names) = DOMAIN list[w] \cup names
        /\ IsList(WithPage(w, names))
        /\ \A b \in DOMAIN WithPage(w, names) : WithPage(w, names)[b].name = b
    BY <1>1, <2>1, PageFacts
  <2>3. \A b \in Rest(w) \ names : more /\ \A c \in DOMAIN list[w] \cup names : c < b
    BY <1>3 DEF Rest
  <2> QED BY <2>1, <2>2, <2>3
<1>4. ASSUME NEW names \in SUBSET Rest(w), NEW more \in BOOLEAN,
             \A b \in Rest(w) \ names, c \in names : c < b,
             names # Rest(w) => more,
             IF NextMarker(more)
             THEN list' = [list EXCEPT ![w] = WithPage(w, names)] /\ UNCHANGED <<phase, share, task>>
             ELSE HasListed(w, WithPage(w, names))
      PROVE  WorkerInv(w)' /\ IsList(list'[w])
  <2>1. CASE ~more
    <3>1. HasListed(w, WithPage(w, names))
      BY <1>4, <2>1 DEF NextMarker
    <3>2. IsList(WithPage(w, names))
      BY <1>3, <1>4
    <3>3. \A b \in DOMAIN WithPage(w, names) : WithPage(w, names)[b].name = b
      BY <1>3, <1>4
    <3>4. \A b \in Blobs \ changed : There(b) => b \in DOMAIN WithPage(w, names)
      BY <1>3, <1>4, <2>1
    <3> QED BY <1>1, <3>1, <3>2, <3>3, <3>4, ListedInv
  <2>2. CASE more
    <3> DEFINE items == WithPage(w, names)
    <3>0. /\ IsList(items) /\ \A b \in DOMAIN items : items[b].name = b
          /\ \A b \in Blobs \ changed : There(b) =>
               b \in DOMAIN items \/ \A c \in DOMAIN items : c < b
      BY <1>3, <1>4
    <3>1. /\ phase'[w] = "list" /\ list'[w] = items /\ share'[w] = share[w]
          /\ task'[w] = task[w] /\ body'[w] = body[w] /\ ~OneBlob(w) /\ ~OneBlob(w)'
          /\ seen'[w] = seen[w] /\ seen[w] \in 0 .. version
          /\ DOMAIN task[w] = {} /\ share[w] = {}
      BY <1>1, <1>4, <2>2 DEF CopyTypes, NextMarker, OneBlob, WorkerInv, Placed
    <3> HIDE DEF items
    <3>2. Placed(w)'
      BY <1>1, <3>1, SameSetup DEF Placed, SameStore
    <3>3. Worked(w)'
      BY <3>1 DEF Worked
    <3>4. Lists(w)'
      BY <1>1, <3>0, <3>1, SameSetup DEF Lists, Begun, SameStore, There
    <3>5. Shares(w)'
      BY <3>1 DEF Shares, Begun
    <3> QED BY <3>0, <3>1, <3>2, <3>3, <3>4, <3>5 DEF WorkerInv
  <2> QED BY <2>1, <2>2
<1> QED BY <1>2, <1>4 DEF ListPage

LEMMA TakeShareInv ==
  ASSUME CopyTypes, NEW w \in Workers, WorkerInv(w), TakeShare(w)
  PROVE  WorkerInv(w)'
<1> DEFINE mine == ShareOf(list[w], Index(w[1], w[2]), Shards)
<1>1. w \in AllWorkers /\ SameStore
  BY SetupFacts DEF CopyTypes, TakeShare, SameStore
<1>2. /\ phase[w] = "listed" /\ phase'[w] = "transfer" /\ list'[w] = list[w] /\ share'[w] = mine
      /\ task'[w] = [i \in mine |-> "none"] /\ body'[w] = body[w]
      /\ seen'[w] = seen[w] /\ seen[w] \in 0 .. version /\ ~OneBlob(w) /\ ~OneBlob(w)'
  BY <1>1 DEF CopyTypes, TakeShare, OneBlob, WorkerInv, Placed
<1>3. mine \subseteq DOMAIN list[w]
  BY DEF ShareOf, Kept
<1> HIDE DEF mine
<1>4. Placed(w)'
  BY <1>1, <1>2, <1>3 DEF Placed, SameStore
<1>5. Worked(w)'
  BY <1>2 DEF Worked, TaskStates
<1>6. Lists(w)'
  BY <1>1, <1>2, SameSetup DEF Lists, Begun, WorkerInv, SameStore, There
<1>7. Shares(w)'
  BY <1>1, <1>2, SameSetup DEF Shares, SameStore, mine
<1> QED BY <1>4, <1>5, <1>6, <1>7 DEF WorkerInv

(* The tasks of one blob.                                                   *)
LEMMA SpawnInv ==
  ASSUME CopyTypes, NEW w \in Workers, WorkerInv(w), SameStore, seen' = seen,
         phase[w] \in {"create", "set_len"}, NEW n \in Nat, Spawns(w, n),
         1 .. n = Parts(Length(seen[w]))
  PROVE  WorkerInv(w)'
<1>0. w \in AllWorkers /\ w \in Workers' /\ Length(seen[w])' = Length(seen[w])
  BY SetupFacts, SameSetup DEF CopyTypes, SameStore, Length
<1>1. /\ phase'[w] = "chunks" /\ list'[w] = list[w] /\ share'[w] = share[w] /\ seen'[w] = seen[w]
      /\ task'[w] = [i \in 1 .. n |-> "none"] /\ body'[w] = [i \in 1 .. n |-> 0]
      /\ OneBlob(w) /\ OneBlob(w)' /\ seen[w] \in 0 .. version
  BY <1>0 DEF CopyTypes, Spawns, WorkerInv, Placed, OneBlob
<1>2. Placed(w)'
  BY <1>0, <1>1 DEF Placed, SameStore, Parts, NumChunks
<1>3. Worked(w)'
  BY <1>1 DEF Worked, TaskStates
<1>4. Lists(w)'
  BY <1>1, SameSetup DEF Lists, Begun, WorkerInv, SameStore, There
<1>5. Shares(w)'
  BY <1>1 DEF Shares, Begun
<1> QED BY <1>2, <1>3, <1>4, <1>5 DEF WorkerInv

LEMMA CreateFileInv ==
  ASSUME CopyTypes, NEW w \in Workers, WorkerInv(w), CreateFile(w)
  PROVE  WorkerInv(w)'
<1>1. /\ w \in AllWorkers /\ SameStore /\ seen' = seen /\ phase[w] = "create"
      /\ OneBlob(w) /\ DOMAIN task[w] = {} /\ share[w] = {}
  BY SetupFacts DEF CopyTypes, CreateFile, SameStore, WorkerInv, Placed
<1>2. CASE Goes(w, "error") /\ body' = body
  BY <1>1, <1>2, ErrorInv
<1>3. CASE ~Large(w) /\ Spawns(w, 1)
  BY <1>1, <1>3, SpawnInv DEF Large, Parts
<1>4. CASE Large(w) /\ Goes(w, "set_len") /\ body' = body
  <2>1. /\ phase'[w] = "set_len" /\ list'[w] = list[w] /\ share'[w] = share[w]
        /\ task'[w] = task[w] /\ body'[w] = body[w] /\ seen'[w] = seen[w]
        /\ OneBlob(w)' /\ Large(w)'
    BY <1>1, <1>4, SameSetup DEF CopyTypes, Goes, OneBlob, Large, Length, SameStore
  <2>2. Placed(w)'
    BY <1>1, <2>1, SameSetup DEF Placed, WorkerInv, SameStore
  <2>3. Worked(w)'
    BY <1>1, <2>1 DEF Worked
  <2>4. Lists(w)'
    BY <1>1, <2>1, SameSetup DEF Lists, Begun, WorkerInv, SameStore, There
  <2>5. Shares(w)'
    BY <2>1 DEF Shares, Begun
  <2> QED BY <2>2, <2>3, <2>4, <2>5 DEF WorkerInv
<1> QED BY <1>2, <1>3, <1>4 DEF CreateFile

LEMMA SetLenInv ==
  ASSUME CopyTypes, NEW w \in Workers, WorkerInv(w), SetLen(w)
  PROVE  WorkerInv(w)'
<1>1. /\ w \in AllWorkers /\ SameStore /\ seen' = seen /\ phase[w] = "set_len" /\ Large(w)
      /\ OneBlob(w)
  BY SetupFacts DEF CopyTypes, SetLen, SameStore, WorkerInv, Placed
<1>2. CASE Goes(w, "error") /\ body' = body
  BY <1>1, <1>2, ErrorInv
<1>3. CASE Spawns(w, NumChunks(Length(seen[w])))
  <2>1. Length(seen[w]) \in Nat
    BY <1>1, SeenLength
  <2>2. NumChunks(Length(seen[w])) \in Nat
    BY <2>1, ChunkFacts
  <2> QED BY <1>1, <1>3, <2>2, SpawnInv DEF Large, Parts
<1> QED BY <1>2, <1>3 DEF SetLen

(* A worker ends, or begins to fail.                                        *)
LEMMA EndInv ==
  ASSUME CopyTypes, NEW w \in Workers, WorkerInv(w),
         EndWorker(w) \/ VerifyFile(w) \/ EndFailing(w)
  PROVE  WorkerInv(w)'
<1>1. w \in AllWorkers /\ SameStore /\ Length(seen[w])' = Length(seen[w])
  BY SetupFacts, SameSetup
     DEF CopyTypes, EndWorker, VerifyFile, EndFailing, SameStore, Length
<1>2. /\ phase[w] \in {"transfer", "chunks", "verify", "failing"}
      /\ phase'[w] \in {"ok", "error", "failing", "verify"}
      /\ phase'[w] = "ok" => phase[w] # "failing"
      /\ phase'[w] = "verify" => phase[w] = "chunks"
      /\ phase'[w] \in {"ok", "verify"} => phase[w] = "verify" \/ (Ended(w) /\ ~Failed(w))
      /\ list'[w] = list[w] /\ share'[w] = share[w] /\ task'[w] = task[w] /\ body'[w] = body[w]
      /\ seen'[w] = seen[w] /\ (OneBlob(w)' <=> OneBlob(w))
  <2>1. CASE EndWorker(w)
    BY <1>1, <2>1 DEF CopyTypes, EndWorker, taskVars, OneBlob, CheckSummary, Verifies
  <2>2. CASE VerifyFile(w)
    BY <1>1, <2>2 DEF CopyTypes, VerifyFile, taskVars, OneBlob
  <2>3. CASE EndFailing(w)
    BY <1>1, <2>3 DEF CopyTypes, EndFailing, taskVars, OneBlob
  <2> QED BY <2>1, <2>2, <2>3
<1>3. Placed(w)'
  BY <1>1, <1>2, SameSetup DEF Placed, WorkerInv, SameStore, Parts, NumChunks
<1>4. Worked(w)'
  BY <1>1, <1>2 DEF Worked, WorkerInv, SameStore, Ended, Failed, Large
<1>5. Lists(w)'
  BY <1>1, <1>2, SameSetup DEF Lists, Begun, Placed, WorkerInv, SameStore, There
<1>6. Shares(w)'
  BY <1>1, <1>2, SameSetup DEF Shares, Begun, Placed, WorkerInv, SameStore
<1> QED BY <1>3, <1>4, <1>5, <1>6 DEF WorkerInv

(* A task moves.                                                            *)
LEMMA TaskInv ==
  ASSUME CopyTypes, NEW w \in Workers, WorkerInv(w), NEW i \in DOMAIN task[w], TaskAction(w, i)
  PROVE  WorkerInv(w)'
<1>1. w \in AllWorkers
  BY SetupFacts DEF CopyTypes
<1>2. /\ SameStore /\ phase'[w] = phase[w] /\ list'[w] = list[w] /\ share'[w] = share[w]
      /\ seen'[w] = seen[w] /\ (OneBlob(w)' <=> OneBlob(w))
      /\ DOMAIN task'[w] = DOMAIN task[w] /\ DOMAIN body'[w] = DOMAIN body[w]
      /\ \A j \in DOMAIN task[w] \ {i} : task'[w][j] = task[w][j] /\ body'[w][j] = body[w][j]
  BY <1>1, TaskFocus DEF OneBlob
<1>3. Length(seen[w])' = Length(seen[w]) /\ (Large(w)' <=> Large(w))
  BY <1>2 DEF Length, Large, SameStore
(* The new state of the task.                                               *)
<1>4. /\ task'[w][i] \in TaskStates
      /\ task'[w][i] \in {"put", "write"} =>
           OneBlob(w) /\ (body'[w][i] = version \/ (task[w][i] = "put" /\ body'[w][i] = body[w][i]))
      /\ task'[w][i] = "write" => ~Large(w)
      /\ task'[w][i] = "dropped" => phase[w] = "failing"
      /\ phase[w] \notin {"ok", "verify"}
  <2>1. task[w][i] # "ok"
    BY DEF TaskAction, TakePermit, AwaitRate, Get, GetFails, Put, DropTask
  <2>2. phase[w] \notin {"ok", "verify"}
    BY <2>1 DEF WorkerInv, Worked
  <2>3. \A s : Set(w, i, s) => task'[w][i] = s
    BY <1>1 DEF Set, CopyTypes
  <2>4. CASE TakePermit(w, i)
    BY <2>2, <2>3, <2>4 DEF TakePermit, TaskStates
  <2>5. CASE AwaitRate(w, i)
    BY <2>2, <2>3, <2>5 DEF AwaitRate, TaskStates
  <2>6. CASE Get(w, i)
    <3>1. CASE OneBlob(w)
      <4>1. /\ i \in DOMAIN body[w] /\ w \in DOMAIN body
        BY <1>1, <3>1 DEF WorkerInv, Placed, CopyTypes
      <4>2. /\ body' = [body EXCEPT ![w][i] = version]
            /\ Set(w, i, IF Accepted(w, i) THEN "put" ELSE "err")
        BY <2>6, <3>1 DEF Get
      <4>3. body'[w][i] = version
        BY <4>1, <4>2
      <4> QED BY <2>2, <2>3, <4>2, <4>3, <3>1 DEF TaskStates
    <3>2. CASE ~OneBlob(w)
      BY <2>2, <2>3, <2>6, <3>2 DEF Get, TaskStates
    <3> QED BY <3>1, <3>2
  <2>7. CASE GetFails(w, i)
    BY <2>2, <2>3, <2>7 DEF GetFails, TaskStates
  <2>8. CASE Put(w, i)
    <3>1. OneBlob(w) /\ body' = body
      BY <2>8 DEF Put, WorkerInv, Worked
    <3>2. \/ Set(w, i, "err") \/ Set(w, i, "ok")
          \/ Set(w, i, "write") /\ task[w][i] = "put" /\ ~Large(w)
      BY <2>8 DEF Put, Empties
    <3> QED BY <2>2, <2>3, <3>1, <3>2 DEF TaskStates
  <2>9. CASE DropTask(w, i)
    BY <2>2, <2>3, <2>9 DEF DropTask, TaskStates
  <2> QED BY <2>4, <2>5, <2>6, <2>7, <2>8, <2>9 DEF TaskAction
<1>5. Placed(w)'
  BY <1>2, <1>3, SameSetup DEF Placed, WorkerInv, SameStore, Parts, NumChunks
<1>6. Worked(w)'
  <2>1. OneBlob(w) => version \in seen[w] .. version
    BY DEF WorkerInv, Placed, CopyTypes
  <2> QED BY <1>2, <1>3, <1>4, <2>1 DEF Worked, WorkerInv, SameStore
<1>7. Lists(w)'
  BY <1>2, SameSetup DEF Lists, Begun, WorkerInv, SameStore, There
<1>8. Shares(w)'
  BY <1>2, SameSetup DEF Shares, Begun, WorkerInv, SameStore
<1> QED BY <1>5, <1>6, <1>7, <1>8 DEF WorkerInv

(* Somebody changes the container: blobs that have changed do not count.    *)
LEMMA ChangeInv ==
  ASSUME CopyTypes, NEW w \in AllWorkers, WorkerInv(w), Change
  PROVE  WorkerInv(w)'
<1>1. /\ setup' = setup /\ Same(w) /\ version' \in Nat /\ version' >= version
      /\ Length(seen[w])' = Length(seen[w]) /\ version \in Nat
      /\ changed \subseteq changed'
      /\ \A b \in Blobs \ changed' : container'[b] = container[b]
  BY SetupFacts DEF Change, CopyTypes, workerVars, taskVars, Same, Length
<1> USE SameSetup DEF WorkerInv, Same
<1>2. Placed(w)'
  BY <1>1 DEF Placed, OneBlob, CopyTypes, Large, Parts, NumChunks
<1>3. Worked(w)'
  <2>1. \A i \in DOMAIN task[w] :
          body[w][i] \in seen[w] .. version => body[w][i] \in seen[w] .. version'
    BY <1>1 DEF Placed
  <2> QED BY <1>1, <2>1 DEF Worked, OneBlob, Large
<1>4. Lists(w)'
  BY <1>1 DEF Lists, OneBlob, Begun, There
<1>5. Shares(w)'
  BY <1>1 DEF Shares, Begun, OneBlob
<1> QED BY <1>2, <1>3, <1>4, <1>5

------------------------------------------------------------------------------
(* The local file of one blob.                                              *)

LEMMA FileOf ==
  ASSUME NEW n \in Nat, NEW f \in [1 .. n -> Bytewise]
  PROVE  f \in Seq(Bytewise) /\ Len(f) = n /\ DOMAIN f = 1 .. n
<1>1. f \in Seq(Bytewise)
  BY SeqDef
<1>2. DOMAIN f = 1 .. Len(f) /\ Len(f) \in Nat
  BY <1>1, LenProperties
<1> QED BY <1>1, <1>2

LEMMA ResizedFile ==
  ASSUME NEW file \in Seq(Bytewise), NEW n \in Nat
  PROVE  Resized(file, n) \in Seq(Bytewise) /\ Len(Resized(file, n)) = n
<1>1. Len(file) \in Nat /\ file \in [1 .. Len(file) -> Bytewise]
  BY LenProperties
<1>2. Hole \in Bytewise
  BY DEF Hole, Bytewise
<1>3. Resized(file, n) \in [1 .. n -> Bytewise]
  BY <1>1, <1>2 DEF Resized
<1> QED BY <1>3, FileOf

LEMMA WrittenFile ==
  ASSUME NEW file \in Seq(Bytewise), NEW v \in Nat, NEW first \in Nat \ {0}, NEW last \in Nat
  PROVE  LET after == Written(file, v, first, last)
         IN  /\ after \in Seq(Bytewise)
             /\ Len(after) = IF Len(file) < last THEN last ELSE Len(file)
             /\ \A p \in first .. last : p \in DOMAIN after /\ after[p] = <<v, p>>
             /\ \A p \in DOMAIN file \ (first .. last) : p \in DOMAIN after /\ after[p] = file[p]
<1> DEFINE after == Written(file, v, first, last)
           n == IF Len(file) < last THEN last ELSE Len(file)
<1>1. Len(file) \in Nat /\ file \in [1 .. Len(file) -> Bytewise] /\ DOMAIN file = 1 .. Len(file)
  BY LenProperties
<1>2. Hole \in Bytewise /\ \A p \in 1 .. n : <<v, p>> \in Bytewise
  BY <1>1 DEF Hole, Bytewise
<1>3. /\ after \in [1 .. n -> Bytewise]
      /\ \A p \in 1 .. n : after[p] = IF p \in first .. last THEN <<v, p>>
                                      ELSE IF p <= Len(file) THEN file[p] ELSE Hole
  BY <1>1, <1>2 DEF Written
<1>4. n \in Nat /\ first .. last \subseteq 1 .. n /\ DOMAIN file \subseteq 1 .. n
  BY <1>1
<1> HIDE DEF after, n
<1>5. after \in Seq(Bytewise) /\ Len(after) = n /\ DOMAIN after = 1 .. n
  BY <1>3, <1>4, FileOf
<1>6. \A p \in DOMAIN file \ (first .. last) : after[p] = file[p]
  BY <1>1, <1>3, <1>4
<1> QED BY <1>3, <1>4, <1>5, <1>6 DEF after, n

(* What a write of a task leaves.                                           *)
LEMMA PutFile ==
  ASSUME CopyTypes, NEW w \in Workers, WorkerInv(w), NEW i \in DOMAIN task[w],
         task[w][i] \in {"put", "write"}
  PROVE  /\ OneBlob(w) /\ body[w][i] \in seen[w] .. version /\ Length(body[w][i]) \in Nat
         /\ First(i) \in Nat \ {0} /\ LastWritten(w, i) \in Nat
         /\ AfterPut(w, i) \in Seq(Bytewise)
<1>1. w \in AllWorkers /\ setup \in Setups
  BY SetupFacts DEF CopyTypes
<1>2. OneBlob(w) /\ body[w][i] \in seen[w] .. version
  BY DEF WorkerInv, Worked
<1>3. Length(seen[w]) \in Nat /\ version \in Nat /\ seen[w] \in 1 .. version
  BY <1>1, <1>2, SeenLength
<1>4. Length(body[w][i]) \in Nat
  <2>1. body[w][i] \in 1 .. Len(setup.versions)
    BY <1>2, <1>3, <1>1, SetupFacts DEF CopyTypes
  <2> QED BY <2>1, <1>1, SetupFacts
<1>5. i \in Parts(Length(seen[w]))
  BY <1>2 DEF WorkerInv, Placed
<1>6. First(i) \in Nat \ {0} /\ (Large(w) => i * block_size \in Nat)
  <2>1. CASE Large(w)
    BY <1>3, <1>5, <2>1, ChunkFacts DEF Large, Parts
  <2>2. CASE ~Large(w)
    <3>1. i = 1
      BY <1>5, <2>2 DEF Large, Parts
    <3> QED BY <2>2, <3>1, CopyAssumption DEF First
  <2> QED BY <2>1, <2>2
<1>7. LastWritten(w, i) \in Nat
  BY <1>3, <1>4, <1>6 DEF LastWritten, Last, AtMost
<1>8. AfterPut(w, i) \in Seq(Bytewise)
  <2>1. CASE Empties(w, i)
    BY <2>1, EmptySeq DEF AfterPut
  <2>2. CASE ~Empties(w, i)
    <3>1. AfterPut(w, i) = Written(local, body[w][i], First(i), LastWritten(w, i))
      BY <2>2 DEF AfterPut
    <3>2. body[w][i] \in Nat /\ local \in Seq(Bytewise)
      BY <1>2, <1>3 DEF CopyTypes
    <3> QED BY <1>6, <1>7, <3>1, <3>2, WrittenFile
  <2> QED BY <2>1, <2>2
<1> QED BY <1>2, <1>4, <1>6, <1>7, <1>8

LEMMA WorkerFile ==
  ASSUME CopyTypes, NEW w \in Workers, WorkerInv(w), WorkerStep(w)
  PROVE  local' \in Seq(Bytewise)
<1>1. CASE local' = local
  BY <1>1 DEF CopyTypes
<1>2. CASE local' = <<>>
  BY <1>2, EmptySeq
<1>3. CASE SetLen(w) /\ local' = Resized(local, Length(seen[w]))
  <2>1. w \in AllWorkers /\ OneBlob(w)
    BY <1>3, SetupFacts DEF CopyTypes, SetLen, WorkerInv, Placed
  <2> QED BY <1>3, <2>1, SeenLength, ResizedFile DEF CopyTypes
<1> QED BY <1>1, <1>2, <1>3 DEF WorkerStep, Resolve, ReadShardlist, ListPage, TakeShare,
           CreateFile, SetLen, EndWorker, VerifyFile, EndFailing, taskVars

LEMMA TaskFile ==
  ASSUME CopyTypes, NEW w \in Workers, WorkerInv(w), NEW i \in DOMAIN task[w], TaskAction(w, i)
  PROVE  local' \in Seq(Bytewise)
<1>1. CASE local' = local
  BY <1>1 DEF CopyTypes
<1>2. CASE local' = AfterPut(w, i) /\ task[w][i] \in {"put", "write"}
  BY <1>2, PutFile
<1> QED BY <1>1, <1>2 DEF TaskAction, TakePermit, AwaitRate, Get, GetFails, Put, DropTask

------------------------------------------------------------------------------
(* All workers.                                                             *)

LEMMA StepWorkers ==
  ASSUME CopyInv, [Next]_vars
  PROVE  \A v \in AllWorkers : WorkerInv(v)'
<1> USE DEF CopyInv
<1>1. ASSUME NEW w \in Workers, WorkerStep(w) PROVE \A v \in AllWorkers : WorkerInv(v)'
  <2>1. w \in AllWorkers
    BY SetupFacts DEF CopyTypes
  <2>2. WorkerInv(w)'
    BY <1>1, <2>1, ResolveInv, ReadShardlistInv, ListPageInv, TakeShareInv, CreateFileInv,
       SetLenInv, EndInv
    DEF WorkerStep
  <2> QED BY <1>1, <2>1, <2>2, WorkerFocus, OthersKept DEF Focus
<1>2. ASSUME NEW w \in Workers, NEW i \in DOMAIN task[w], TaskAction(w, i)
      PROVE  \A v \in AllWorkers : WorkerInv(v)'
  <2>1. w \in AllWorkers
    BY SetupFacts DEF CopyTypes
  <2> QED BY <1>2, <2>1, TaskInv, TaskFocus, OthersKept DEF Focus
<1>3. CASE Change
  BY <1>3, ChangeInv
<1>4. CASE (\E p \in Processes : EndProcess(p)) \/ Limiter \/ Terminated \/ UNCHANGED vars
  <2>1. SameStore /\ \A v \in AllWorkers : Same(v)
    BY <1>4 DEF EndProcess, Limiter, Terminated, vars, workerVars, taskVars, SameStore, Same
  <2> QED BY <2>1, OthersKept
<1> QED BY <1>1, <1>2, <1>3, <1>4 DEF Next, TaskStep, TaskAction

LEMMA StepTypes ==
  ASSUME CopyInv, [Next]_vars
  PROVE  CopyTypes'
<1> USE DEF CopyInv
<1>1. ASSUME NEW w \in Workers, WorkerStep(w) PROVE CopyTypes'
  <2>1. w \in AllWorkers
    BY SetupFacts DEF CopyTypes
  <2>2. IsList(list'[w])
    <3>1. CASE ReadShardlist(w) \/ ListPage(w)
      BY <3>1, <2>1, ReadShardlistInv, ListPageInv
    <3>2. CASE ~(ReadShardlist(w) \/ ListPage(w))
      <4>1. list' = list
        BY <1>1, <3>2 DEF WorkerStep, Resolve, TakeShare, CreateFile, SetLen, EndWorker,
           VerifyFile, EndFailing, Goes, Spawns
      <4> QED BY <4>1, <2>1 DEF CopyTypes
    <3> QED BY <3>1, <3>2
  <2>3. phase'[w] \in Phases
    BY <1>1, <2>1 DEF CopyTypes, Phases, WorkerStep, Resolve, ReadShardlist, ListPage, TakeShare,
       CreateFile, SetLen, Spawns, EndWorker, VerifyFile, EndFailing, Goes, HasListed,
       CheckSummary, Listing
  <2>4. local' \in Seq(Bytewise)
    BY <1>1, <2>1, WorkerFile DEF CopyTypes
  <2>5. Focus(w) /\ SameStore /\ Domains
    BY <1>1, <2>1, WorkerFocus
  <2> QED BY <2>2, <2>3, <2>4, <2>5 DEF CopyTypes, Focus, SameStore, Same, Domains
<1>2. ASSUME NEW w \in Workers, NEW i \in DOMAIN task[w], TaskAction(w, i)
      PROVE  CopyTypes'
  <2>1. w \in AllWorkers
    BY SetupFacts DEF CopyTypes
  <2>2. Focus(w) /\ SameStore /\ Domains /\ phase'[w] = phase[w] /\ list'[w] = list[w]
    BY <1>2, <2>1, TaskFocus
  <2>3. local' \in Seq(Bytewise)
    BY <1>2, <2>1, TaskFile DEF CopyTypes
  <2> QED BY <2>2, <2>3 DEF CopyTypes, Focus, SameStore, Same, Domains
<1>3. CASE Change
  BY <1>3, SetupFacts DEF Change, CopyTypes, workerVars, taskVars
<1>4. CASE (\E p \in Processes : EndProcess(p)) \/ Limiter \/ Terminated \/ UNCHANGED vars
  <2>1. /\ UNCHANGED <<setup, container, version, changed, phase, seen, list, share, task, body,
                   local>>
        /\ DOMAIN exit' = DOMAIN exit
    BY <1>4 DEF EndProcess, Limiter, Terminated, vars, workerVars, taskVars
  <2> QED BY <2>1 DEF CopyTypes
<1> QED BY <1>1, <1>2, <1>3, <1>4 DEF Next, TaskStep, TaskAction

(* A worker that has ended well has ended.                                  *)
LEMMA StepExits ==
  ASSUME CopyInv, [Next]_vars
  PROVE  Exits'
<1> USE DEF CopyInv
<1>0. Processes' = Processes /\ \A p : WorkersOf(p)' = WorkersOf(p)
  <2>1. ASSUME NEW w \in Workers, WorkerStep(w) PROVE setup' = setup
    <3>1. w \in AllWorkers
      BY SetupFacts DEF CopyTypes
    <3> QED BY <2>1, <3>1, WorkerFocus DEF SameStore
  <2>2. ASSUME NEW w \in Workers, NEW i \in DOMAIN task[w], TaskAction(w, i) PROVE setup' = setup
    <3>1. w \in AllWorkers
      BY SetupFacts DEF CopyTypes
    <3> QED BY <2>2, <3>1, TaskFocus DEF SameStore
  <2>3. ASSUME (\E p \in Processes : EndProcess(p)) \/ Limiter \/ Change \/ Terminated
               \/ UNCHANGED vars
        PROVE  setup' = setup
    BY <2>3 DEF EndProcess, Limiter, Change, Terminated, vars
  <2>4. setup' = setup
    BY <2>1, <2>2, <2>3 DEF Next, TaskStep, TaskAction
  <2> HIDE DEF CopyInv
  <2> QED BY <2>4, SameSetup
<1>1. \A p \in Processes : WorkersOf(p) \subseteq AllWorkers /\ p \in AllProcesses
  BY SetupFacts DEF Workers, CopyTypes
<1>2. ASSUME \A v \in AllWorkers : phase[v] = "ok" => phase'[v] = "ok", exit' = exit
      PROVE  Exits'
  BY <1>0, <1>1, <1>2 DEF Exits, NoError
<1>3. ASSUME NEW w \in Workers, WorkerStep(w) PROVE Exits'
  <2>1. w \in AllWorkers
    BY SetupFacts DEF CopyTypes
  <2>2. phase[w] # "ok" /\ exit' = exit
    BY <1>3 DEF WorkerStep, Resolve, ReadShardlist, ListPage, TakeShare, CreateFile, SetLen,
       EndWorker, VerifyFile, EndFailing
  <2> QED BY <1>2, <1>3, <2>1, <2>2, WorkerFocus DEF Focus, Same
<1>4. ASSUME NEW w \in Workers, NEW i \in DOMAIN task[w], TaskAction(w, i) PROVE Exits'
  <2>1. w \in AllWorkers
    BY SetupFacts DEF CopyTypes
  <2> QED BY <1>2, <1>4, <2>1, TaskFocus DEF Focus, Same
<1>5. ASSUME NEW p \in Processes, EndProcess(p) PROVE Exits'
  <2>1. /\ phase' = phase /\ \A q \in Processes \ {p} : exit'[q] = exit[q]
        /\ exit'[p].status = IF NoError(p) THEN "ok" ELSE "error"
    BY <1>1, <1>5 DEF EndProcess, workerVars, CopyTypes
  <2> QED BY <1>0, <2>1 DEF Exits, NoError
<1>6. CASE Limiter \/ Change \/ Terminated \/ UNCHANGED vars
  BY <1>2, <1>6 DEF Limiter, Change, Terminated, vars, workerVars
<1> QED BY <1>3, <1>4, <1>5, <1>6 DEF Next, TaskStep, TaskAction

(* The local file of one blob, while nobody replaces the blob.  A step that *)
(* writes nothing, and after which nobody counts as having written who did  *)
(* not; a step of a worker that is still to write all it has.               *)
LEMMA FilledKept ==
  ASSUME Filled, UNCHANGED <<setup, version, local>>,
         \A v \in Workers : OneBlob(v)' <=> OneBlob(v),
         AsSeen' => AsSeen,
         \A v \in Workers : Emptied(v)' => \E u \in Workers : Emptied(u),
         \A v \in Workers : \A i : OneBlob(v) /\ ~Wrote(v, i) => ~Wrote(v, i)'
  PROVE  Filled'
<1> SUFFICES ASSUME AsSeen, \E v \in Workers : OneBlob(v), Short, Filling
             PROVE  Short' /\ Filling'
  BY SameSetup DEF Filled
<1>1. Workers' = Workers /\ Length(version)' = Length(version) /\ \A p : Has(p)' <=> Has(p)
  BY SameSetup DEF Has, Length
<1>2. Short'
  BY <1>1 DEF Short
<1>3. Filling'
  BY <1>1 DEF Filling, Parts, Part, NumChunks, First
<1> QED BY <1>2, <1>3

LEMMA FilledFresh ==
  ASSUME NEW w \in Workers, setup' = setup, OneBlob(w)', \A i : ~Wrote(w, i)',
         AsSeen' /\ (\E v \in Workers : Emptied(v)') => Len(local') <= Length(version)'
  PROVE  Filled'
<1>1. w \in Workers' /\ Workers' = Workers
  BY SameSetup
<1> QED BY <1>1 DEF Filled, Short, Filling

LEMMA StepFilled ==
  ASSUME CopyInv, [Next]_vars
  PROVE  Filled'
<1> USE DEF CopyInv
<1>0. Workers \subseteq AllWorkers
  BY SetupFacts DEF CopyTypes
<1>1. ASSUME NEW w \in Workers, WorkerStep(w) PROVE Filled'
  <2>0. w \in AllWorkers /\ Focus(w) /\ SameStore /\ Domains
    BY <1>0, <1>1, WorkerFocus
  <2>1. /\ \A v \in Workers \ {w} : /\ OneBlob(v)' <=> OneBlob(v)
                                    /\ Emptied(v)' <=> Emptied(v)
                                    /\ \A i : Wrote(v, i)' <=> Wrote(v, i)
        /\ Workers' = Workers /\ Length(version)' = Length(version)
    BY <1>0, <2>0, SameSetup
       DEF Focus, Same, SameStore, OneBlob, Emptied, Wrote, Large, Length
(* Steps that leave the file and the tasks of one blob.                     *)
  <2>2. ASSUME local' = local, seen' = seen, Emptied(w)' => Emptied(w),
               \A i : OneBlob(w) /\ ~Wrote(w, i) => ~Wrote(w, i)'
        PROVE  Filled'
    <3>1. OneBlob(w)' <=> OneBlob(w)
      BY <2>2 DEF OneBlob
    <3>2. AsSeen' => AsSeen
      BY <2>0, <2>1, <2>2 DEF AsSeen, SameStore
    <3>3. UNCHANGED <<setup, version, local>>
      BY <2>0, <2>2 DEF SameStore
    <3> QED BY <2>1, <2>2, <3>1, <3>2, <3>3, FilledKept
  <2>3. CASE Resolve(w)
    <3>1. CASE seen' = seen /\ local' = local
      <4>1. phase[w] = "start" /\ DOMAIN task[w] = {} /\ task'[w] = task[w] /\ ~Emptied(w)'
        BY <2>0, <2>3, <3>1 DEF Resolve, Goes, WorkerInv, Placed, CopyTypes, Emptied, Listing
      <4> QED BY <2>2, <3>1, <4>1 DEF Wrote
    <3>2. CASE Goes(w, "create") /\ Sees(w, version) /\ version > 0 /\ local' = local
      <4>1. /\ phase[w] = "start" /\ DOMAIN task[w] = {} /\ task'[w] = task[w]
            /\ phase'[w] = "create" /\ seen'[w] = version /\ OneBlob(w)' /\ seen[w] = 0
        BY <2>0, <2>3, <3>2 DEF Resolve, Goes, Sees, WorkerInv, Placed, CopyTypes, OneBlob
      <4>2. ~Emptied(w)' /\ \A i : ~Wrote(w, i)'
        BY <4>1 DEF Emptied, Wrote
      <4>3. AsSeen' => AsSeen
        <5>1. version' = version /\ \A v \in Workers \ {w} : seen'[v] = seen[v]
          BY <1>0, <2>0 DEF Focus, Same, SameStore
        <5> QED BY <2>1, <4>1, <5>1 DEF AsSeen
      <4>4. ASSUME AsSeen', NEW v \in Workers, Emptied(v)'
            PROVE  Len(local') <= Length(version)'
        <5>1. v # w /\ Emptied(v)
          BY <2>1, <4>2, <4>4
        <5>2. OneBlob(v)
          BY <5>1, <1>0 DEF Emptied, WorkerInv, Placed
        <5> QED BY <2>1, <3>2, <4>3, <4>4, <5>1, <5>2 DEF Filled, Short
      <4> QED BY <2>0, <4>1, <4>2, <4>4, FilledFresh DEF SameStore
    <3> QED BY <2>3, <3>1, <3>2 DEF Resolve, Goes
  <2>4. CASE ReadShardlist(w) \/ ListPage(w) \/ TakeShare(w)
    <3>1. /\ local' = local /\ seen' = seen /\ ~OneBlob(w) /\ phase'[w] # "set_len"
      BY <2>0, <2>4 DEF ReadShardlist, ListPage, TakeShare, Goes, HasListed, WorkerInv, Placed,
         CopyTypes
    <3>2. ~Emptied(w)'
      BY <3>1 DEF Emptied, OneBlob
    <3> QED BY <2>2, <3>1, <3>2
  <2>5. CASE CreateFile(w)
    <3>0. /\ phase[w] = "create" /\ OneBlob(w) /\ OneBlob(w)' /\ seen' = seen
          /\ DOMAIN task[w] = {} /\ (Large(w)' <=> Large(w))
      BY <2>0, <2>5 DEF CreateFile, WorkerInv, Placed, OneBlob, Large, Length, SameStore
    <3>1. CASE Large(w) /\ Goes(w, "set_len") /\ local' = <<>>
      <4>1. \A i : ~Wrote(w, i)'
        BY <3>0, <3>1 DEF Goes, Wrote
      <4>2. AsSeen' => Len(local') <= Length(version)'
        BY <2>0, <2>1, <3>0, <3>1, SeenLength DEF SameStore
      <4> QED BY <2>0, <3>0, <4>1, <4>2, FilledFresh DEF SameStore
    <3>2. CASE ~Large(w) /\ Spawns(w, 1) /\ local' = local
      <4>1. phase'[w] = "chunks" /\ \A i \in DOMAIN task'[w] : task'[w][i] = "none"
        BY <2>0, <3>2 DEF Spawns, CopyTypes
      <4>2. ~Emptied(w)' /\ \A i : ~Wrote(w, i)'
        BY <3>0, <3>2, <4>1 DEF Emptied, Wrote
      <4> QED BY <2>2, <3>0, <3>2, <4>2
    <3>3. CASE Goes(w, "error") /\ local' = local
      <4>1. phase'[w] = "error" /\ task'[w] = task[w]
        BY <2>0, <3>3 DEF Goes, CopyTypes
      <4> QED BY <2>2, <3>0, <3>3, <4>1 DEF Emptied, Wrote
    <3> QED BY <2>5, <3>1, <3>2, <3>3 DEF CreateFile
  <2>6. CASE SetLen(w)
    <3>0. /\ phase[w] = "set_len" /\ OneBlob(w) /\ OneBlob(w)' /\ seen' = seen
          /\ DOMAIN task[w] = {} /\ Length(seen[w]) \in Nat
      BY <2>0, <2>6, SeenLength DEF SetLen, WorkerInv, Placed, OneBlob
    <3>1. CASE /\ local' = Resized(local, Length(seen[w]))
               /\ Spawns(w, NumChunks(Length(seen[w])))
      <4>1. \A i : ~Wrote(w, i)'
        <5>1. \A i \in DOMAIN task'[w] : task'[w][i] = "none"
          BY <2>0, <3>1 DEF Spawns, CopyTypes
        <5> QED BY <5>1 DEF Wrote
      <4>2. AsSeen' => seen[w] = version
        BY <2>0, <2>1, <3>0 DEF AsSeen, SameStore, OneBlob
      <4>3. Len(local') = Length(seen[w])
        BY <3>0, <3>1, ResizedFile DEF CopyTypes
      <4>4. AsSeen' => Len(local') <= Length(version)'
        BY <2>1, <3>0, <4>2, <4>3
      <4> QED BY <2>0, <3>0, <4>1, <4>4, FilledFresh DEF SameStore
    <3>2. CASE Goes(w, "error") /\ local' = local
      <4>1. phase'[w] = "error" /\ task'[w] = task[w]
        BY <2>0, <3>2 DEF Goes, CopyTypes
      <4> QED BY <2>2, <3>0, <3>2, <4>1 DEF Emptied, Wrote
    <3> QED BY <2>6, <3>1, <3>2 DEF SetLen
  <2>7. CASE EndWorker(w) \/ VerifyFile(w) \/ EndFailing(w)
    <3>1. /\ local' = local /\ seen' = seen /\ task'[w] = task[w] /\ phase'[w] # "set_len"
      BY <2>0, <2>7 DEF EndWorker, VerifyFile, EndFailing, taskVars, CheckSummary, CopyTypes
    <3>2. Large(w)' <=> Large(w)
      BY <2>0, <3>1 DEF Large, Length, SameStore
    <3> QED BY <2>2, <3>1, <3>2 DEF Emptied, Wrote, OneBlob
  <2> QED BY <1>1, <2>3, <2>4, <2>5, <2>6, <2>7 DEF WorkerStep
<1>2. ASSUME NEW w \in Workers, NEW i \in DOMAIN task[w], TaskAction(w, i) PROVE Filled'
  <2>0. /\ w \in AllWorkers /\ Focus(w) /\ SameStore /\ phase'[w] = phase[w]
        /\ seen'[w] = seen[w] /\ DOMAIN task'[w] = DOMAIN task[w]
        /\ \A j \in DOMAIN task[w] \ {i} : task'[w][j] = task[w][j]
    BY <1>0, <1>2, TaskFocus
  <2>1. /\ \A v \in Workers : OneBlob(v)' <=> OneBlob(v)
        /\ \A v \in Workers \ {w} : /\ Emptied(v)' <=> Emptied(v)
                                    /\ \A j : Wrote(v, j)' <=> Wrote(v, j)
        /\ \A j : j # i => (Wrote(w, j)' <=> Wrote(w, j))
        /\ Workers' = Workers /\ Length(version)' = Length(version)
        /\ (Large(w)' <=> Large(w))
    BY <1>0, <2>0, SameSetup
       DEF Focus, Same, SameStore, OneBlob, Emptied, Wrote, Large, Length
  <2>2. AsSeen' => AsSeen
    BY <1>0, <2>0, <2>1 DEF AsSeen, Focus, Same, SameStore
  <2>3. \A s : Set(w, i, s) => task'[w][i] = s
    BY <2>0 DEF Set, CopyTypes
(* Steps that leave the file.                                               *)
  <2>4. ASSUME local' = local,
               OneBlob(w) => task'[w][i] # "ok" /\ (task'[w][i] = "write" => Large(w))
        PROVE  Filled'
    <3>1. Emptied(w)' => Emptied(w)
      BY <2>0, <2>1, <2>4 DEF Emptied, OneBlob
    <3>2. \A j : OneBlob(w) /\ ~Wrote(w, j) => ~Wrote(w, j)'
      BY <2>1, <2>4 DEF Wrote
    <3>3. UNCHANGED <<setup, version, local>>
      BY <2>0, <2>4 DEF SameStore
    <3> QED BY <2>1, <2>2, <3>1, <3>2, <3>3, FilledKept
(* Steps that empty it.                                                     *)
  <2>5. ASSUME Empties(w, i), task[w][i] = "put", local' = <<>>,
               task'[w][i] \in {"write", "err", "dropped"}
        PROVE  Filled'
    <3>1. /\ OneBlob(w) /\ i \in Parts(Length(seen[w]))
          /\ DOMAIN task[w] \subseteq Parts(Length(seen[w]))
      BY <1>0, <2>5 DEF WorkerInv, Worked, Placed
    <3>2. \A j : ~Wrote(w, j)'
      <4>1. Parts(Length(seen[w])) = {1}
        BY <2>5 DEF Empties, Large, Parts
      <4> QED BY <2>0, <2>5, <3>1, <4>1 DEF Wrote
    <3>3. AsSeen' => Len(local') <= Length(version)'
      BY <2>0, <2>1, <2>5, <3>1, SeenLength
    <3> QED BY <2>0, <2>1, <3>1, <3>2, <3>3, FilledFresh DEF SameStore
(* Steps that write a part of it.                                           *)
  <2>6. ASSUME ~Empties(w, i), task[w][i] \in {"put", "write"}, local' = AfterPut(w, i)
        PROVE  Filled'
    <3> DEFINE v0 == body[w][i]
               last == LastWritten(w, i)
               n == Length(version)
    <3>0. /\ OneBlob(w) /\ v0 \in seen[w] .. version /\ First(i) \in Nat \ {0} /\ last \in Nat
          /\ Length(seen[w]) \in Nat /\ version \in Nat /\ n \in Nat /\ seen[w] \in 1 .. version
          /\ i \in Parts(Length(seen[w]))
      BY <1>0, <2>0, <2>6, PutFile, SeenLength DEF WorkerInv, Placed
    <3> SUFFICES ASSUME AsSeen' PROVE Short' /\ Filling'
      BY DEF Filled
    <3>1. seen[w] = version /\ v0 = version
      BY <2>2, <3>0 DEF AsSeen, OneBlob
    <3>2. Emptied(w)
      BY <2>6, <3>0 DEF Emptied, Empties
    <3>3. Len(local) <= n /\ Filling
      BY <2>2, <3>0, <3>2 DEF Filled, Short
    <3>4. last <= n /\ Part(i, n) = First(i) .. last
      <4>1. CASE Large(w)
        <5>1. i * block_size \in Nat
          BY <3>0, <4>1, ChunkFacts DEF Large, Parts
        <5> QED BY <3>0, <3>1, <4>1, <5>1 DEF LastWritten, Last, AtMost, Large, Part
      <4>2. CASE ~Large(w)
        <5>1. i = 1
          BY <3>0, <4>2 DEF Large, Parts
        <5>2. First(i) = 1
          BY <5>1, CopyAssumption DEF First
        <5> QED BY <3>0, <3>1, <4>2, <5>2 DEF LastWritten, Large, Part
      <4> QED BY <4>1, <4>2
    <3>5. local' = Written(local, version, First(i), last)
      BY <2>6, <3>1 DEF AfterPut
    <3> HIDE DEF last
    <3>6. /\ Len(local') = IF Len(local) < last THEN last ELSE Len(local)
          /\ \A p \in First(i) .. last : p \in DOMAIN local' /\ local'[p] = <<version, p>>
          /\ \A p \in DOMAIN local \ (First(i) .. last) :
               p \in DOMAIN local' /\ local'[p] = local[p]
      BY <3>0, <3>5, WrittenFile DEF CopyTypes
    <3>7. version' = version /\ Length(version)' = n
      BY <2>0, <2>1 DEF SameStore
    <3>8. Short'
      BY <3>3, <3>4, <3>6, <3>7 DEF Short
    <3>9. /\ \A p \in First(i) .. last : Has(p)'
          /\ \A p : Has(p) => Has(p)'
      BY <3>6, <3>7 DEF Has
    <3>10. ASSUME NEW j \in Parts(n), NEW p \in Part(j, n)
           PROVE  Has(p)' \/ \E v \in Workers : OneBlob(v)' /\ ~Wrote(v, j)'
      <4>1. CASE j = i
        BY <3>4, <3>9, <3>10, <4>1
      <4>2. CASE j # i
        BY <2>1, <3>3, <3>9, <3>10, <4>2 DEF Filling
      <4> QED BY <4>1, <4>2
    <3>11. Filling'
      BY <2>1, <3>7, <3>10 DEF Filling, Parts, Part, NumChunks, First
    <3> QED BY <3>8, <3>11
  <2>7. CASE TakePermit(w, i)
    BY <2>3, <2>4, <2>7 DEF TakePermit
  <2>8. CASE AwaitRate(w, i)
    BY <2>3, <2>4, <2>8 DEF AwaitRate
  <2>9. CASE Get(w, i)
    <3>1. local' = local /\ (OneBlob(w) => Set(w, i, "put") \/ Set(w, i, "err"))
      BY <2>9 DEF Get
    <3> QED BY <2>3, <2>4, <3>1
  <2>10. CASE GetFails(w, i)
    BY <2>3, <2>4, <2>10 DEF GetFails
  <2>11. CASE Put(w, i)
    <3>0. task[w][i] \in {"put", "write"} /\ (local' = local \/ local' = AfterPut(w, i))
      BY <2>11 DEF Put
    <3>1. CASE Empties(w, i) /\ local' = <<>>
      <4>1. task[w][i] = "put" /\ (Set(w, i, "write") \/ Set(w, i, "err"))
        BY <2>11, <3>1 DEF Put, Empties
      <4> QED BY <2>3, <2>5, <3>1, <4>1
    <3>2. CASE Empties(w, i) /\ local' = local /\ Set(w, i, "err")
      BY <2>3, <2>4, <3>2
    <3>3. CASE ~Empties(w, i) /\ local' = AfterPut(w, i)
      BY <2>6, <3>0, <3>3
    <3>4. CASE ~Empties(w, i) /\ local' = local /\ Set(w, i, "err")
      BY <2>3, <2>4, <3>4
    <3> QED BY <2>11, <3>1, <3>2, <3>3, <3>4 DEF Put, AfterPut
  <2>12. CASE DropTask(w, i)
    <3>1. task'[w][i] = "dropped"
      BY <2>3, <2>12 DEF DropTask
    <3>2. CASE local' = local
      BY <2>4, <3>1, <3>2
    <3>3. CASE local' = AfterPut(w, i) /\ task[w][i] = "put"
      <4>1. CASE Empties(w, i)
        BY <2>5, <3>1, <3>3, <4>1 DEF AfterPut
      <4>2. CASE ~Empties(w, i)
        BY <2>6, <3>3, <4>2
      <4> QED BY <4>1, <4>2
    <3> QED BY <2>12, <3>2, <3>3 DEF DropTask
  <2> QED BY <1>2, <2>7, <2>8, <2>9, <2>10, <2>11, <2>12 DEF TaskAction
<1>3. CASE (\E p \in Processes : EndProcess(p)) \/ Limiter \/ Terminated \/ UNCHANGED vars
  <2>1. UNCHANGED <<setup, version, local, seen, phase, task>>
    BY <1>3 DEF EndProcess, Limiter, Terminated, vars, workerVars, taskVars
  <2>2. /\ \A v \in Workers : (OneBlob(v)' <=> OneBlob(v)) /\ (Emptied(v)' <=> Emptied(v))
        /\ \A v \in Workers : \A i : Wrote(v, i)' <=> Wrote(v, i)
        /\ AsSeen' <=> AsSeen
    BY <2>1, SameSetup DEF OneBlob, Emptied, Wrote, Large, Length, AsSeen
  <2> QED BY <2>1, <2>2, FilledKept
(* Replaced, the blob is no longer as anybody has seen it.                  *)
<1>4. CASE Change
  <2>1. /\ UNCHANGED <<setup, local, seen, phase, task>>
        /\ version' = version \/ version' = version + 1
    BY <1>4 DEF Change, workerVars, taskVars
  <2>2. CASE version' = version
    <3>1. /\ \A v \in Workers : (OneBlob(v)' <=> OneBlob(v)) /\ (Emptied(v)' <=> Emptied(v))
          /\ \A v \in Workers : \A i : Wrote(v, i)' <=> Wrote(v, i)
          /\ AsSeen' <=> AsSeen
      BY <2>1, <2>2, SameSetup DEF OneBlob, Emptied, Wrote, Large, Length, AsSeen
    <3> QED BY <2>1, <2>2, <3>1, FilledKept
  <2>3. CASE version' = version + 1
    <3>1. \A v \in Workers : seen[v] \in 0 .. version /\ version \in Nat
      BY <1>0, SetupFacts DEF WorkerInv, Placed, CopyTypes
    <3>2. AsSeen' => \A v \in Workers : ~OneBlob(v)'
      BY <2>1, <2>3, <3>1, SameSetup DEF AsSeen, OneBlob
    <3> QED BY <2>1, <3>2, SameSetup DEF Filled
  <2> QED BY <2>1, <2>2, <2>3
<1> QED BY <1>1, <1>2, <1>3, <1>4 DEF Next, TaskStep, TaskAction

(* Who ends well last, of those that check the digest, has just read the    *)
(* file.                                                                    *)
LEMMA StepCompared ==
  ASSUME CopyInv, [Next]_vars
  PROVE  Compared'
<1> USE DEF CopyInv
<1>0. Workers \subseteq AllWorkers /\ <<0, 0>> \in Workers
  BY SetupFacts DEF CopyTypes, Workers, WorkersOf, Processes
<1>1. ASSUME UNCHANGED <<setup, phase, seen, local>>
      PROVE  Compared'
  BY <1>1, SameSetup DEF Compared, Checked, OneBlob, Large, Checks, Length, Content
<1>2. ASSUME NEW w \in Workers, WorkerStep(w) PROVE Compared'
  <2>0. w \in AllWorkers /\ Focus(w) /\ SameStore /\ Workers' = Workers
    BY <1>0, <1>2, WorkerFocus, SameSetup DEF SameStore
  <2> SUFFICES ASSUME \A v \in Workers : OneBlob(v)' /\ phase'[v] = "ok", Checked'
               PROVE  (\E v \in Workers : local = Content(seen[v]))'
    BY <2>0 DEF Compared
  <2>1. phase'[w] = "ok" /\ Large(w)' /\ Checks(w)' /\ OneBlob(w)'
    BY <2>0 DEF Checked
  <2>2. CASE VerifyFile(w)
    <3>1. Matches(w) /\ UNCHANGED <<local, seen, setup>>
      BY <2>0, <2>1, <2>2 DEF VerifyFile, taskVars, CopyTypes
    <3> QED BY <2>0, <3>1 DEF Matches, Content, Length
  <2>3. CASE EndWorker(w)
    <3>1. UNCHANGED <<seen, setup>>
      BY <2>3 DEF EndWorker
    <3>2. Large(w) /\ Checks(w) /\ OneBlob(w)
      BY <2>1, <3>1 DEF Large, Checks, Length, OneBlob
    <3>3. phase[w] = "chunks"
      BY <2>3, <2>0, <3>2 DEF EndWorker, WorkerInv, Placed
    <3>4. phase'[w] # "ok"
      BY <2>0, <2>3, <3>2, <3>3 DEF EndWorker, Verifies, CheckSummary, CopyTypes
    <3> QED BY <2>1, <3>4
  <2>4. CASE ~VerifyFile(w) /\ ~EndWorker(w)
    <3>1. phase'[w] # "ok"
      BY <1>2, <2>0, <2>4 DEF WorkerStep, Resolve, ReadShardlist, ListPage, TakeShare, CreateFile,
         SetLen, Spawns, EndFailing, Goes, HasListed, Listing, CopyTypes
    <3> QED BY <2>1, <3>1
  <2> QED BY <2>2, <2>3, <2>4
<1>3. ASSUME NEW w \in Workers, NEW i \in DOMAIN task[w], TaskAction(w, i) PROVE Compared'
  <2>1. w \in AllWorkers /\ phase'[w] = phase[w] /\ Workers' = Workers
    BY <1>0, <1>3, TaskFocus, SameSetup DEF SameStore
  <2>2. task[w][i] # "ok"
    BY <1>3 DEF TaskAction, TakePermit, AwaitRate, Get, GetFails, Put, DropTask
  <2>3. phase'[w] # "ok"
    BY <2>1, <2>2 DEF WorkerInv, Worked
  <2> QED BY <2>1, <2>3 DEF Compared
<1>4. CASE (\E p \in Processes : EndProcess(p)) \/ Limiter \/ Change \/ Terminated \/ UNCHANGED vars
  BY <1>1, <1>4 DEF EndProcess, Limiter, Change, Terminated, vars, workerVars, taskVars
<1> QED BY <1>2, <1>3, <1>4 DEF Next, TaskStep, TaskAction

------------------------------------------------------------------------------
(* The requests of all workers use the limiter as it is meant to be used.   *)

LEMMA BytesPositive ==
  ASSUME CopyInv, NEW w \in Workers, NEW i \in DOMAIN task[w]
  PROVE  Bytes(w, i) \in Nat \ {0}
<1>1. w \in AllWorkers
  BY SetupFacts DEF CopyInv, CopyTypes
<1>2. CASE OneBlob(w)
  <2>1. Length(seen[w]) \in Nat /\ i \in Parts(Length(seen[w]))
    BY <1>1, <1>2, SeenLength DEF CopyInv, WorkerInv, Placed
  <2>2. CASE Large(w)
    <3>1. /\ First(i) \in Nat /\ First(i) <= Length(seen[w])
          /\ i * block_size \in Nat /\ i * block_size >= First(i)
      BY <2>1, <2>2, ChunkFacts DEF Large, Parts
    <3>2. Last(w, i) \in Nat /\ Last(w, i) >= First(i)
      BY <2>1, <3>1 DEF Last, AtMost
    <3> QED BY <1>2, <2>2, <3>1, <3>2 DEF Bytes
  <2>3. CASE ~Large(w)
    BY <1>2, <2>1, <2>3 DEF Bytes, AtLeastOne
  <2> QED BY <2>2, <2>3
<1>3. CASE ~OneBlob(w)
  <2>1. i \in DOMAIN list[w] /\ IsList(list[w])
    BY <1>1, <1>3 DEF CopyInv, WorkerInv, Placed, CopyTypes
  <2>2. list[w][i].size \in Nat
    BY <2>1, EntryFacts DEF IsList
  <2> QED BY <1>3, <2>2 DEF Bytes, AtLeastOne
<1> QED BY <1>2, <1>3

LEMMA StepLimiter ==
  ASSUME CopyInv, [Next]_vars
  PROVE  [LimiterNext]_limiterVars
<1>1. ASSUME NEW w \in Workers, WorkerStep(w) PROVE UNCHANGED limiterVars
  BY <1>1 DEF WorkerStep, Resolve, ReadShardlist, ListPage, TakeShare, CreateFile, SetLen,
     EndWorker, VerifyFile, EndFailing
<1>2. ASSUME NEW w \in Workers, NEW i \in DOMAIN task[w], TaskAction(w, i)
      PROVE  [LimiterNext]_limiterVars
  <2>1. Bytes(w, i) \in Nat \ {0}
    BY BytesPositive
  <2>2. CASE UNCHANGED limiterVars
    BY <2>2
  <2>3. CASE \/ Resume(<<w, i>>) \/ TakeNow(<<w, i>>, Bytes(w, i))
             \/ Enqueue(<<w, i>>, Bytes(w, i)) \/ GiveUp(<<w, i>>, Bytes(w, i))
    <3> DEFINE c == <<w, i>>
               bytes == Bytes(w, i)
    <3> HIDE DEF c, bytes
    <3>1. bytes \in Nat \ {0}
      BY <2>1 DEF bytes
    <3>2. Resume(c) \/ TakeNow(c, bytes) \/ Enqueue(c, bytes) \/ GiveUp(c, bytes)
      BY <2>3 DEF c, bytes
    <3> QED BY <3>1, <3>2 DEF LimiterNext
  <2> QED BY <1>2, <2>2, <2>3 DEF TaskAction, TakePermit, AwaitRate, Get, GetFails, Put, DropTask
<1>3. CASE Limiter
  BY <1>3 DEF Limiter, LimiterNext
<1>4. CASE (\E p \in Processes : EndProcess(p)) \/ Change \/ Terminated \/ UNCHANGED vars
  BY <1>4 DEF EndProcess, Change, Terminated, vars
<1> QED BY <1>1, <1>2, <1>3, <1>4 DEF Next, TaskStep, TaskAction

------------------------------------------------------------------------------
LEMMA InitCopyInv == Init => CopyInv
<1> SUFFICES ASSUME Init PROVE CopyInv
  OBVIOUS
<1>1. CopyTypes
  <2>1. IsList(<<>>)
    BY FS_EmptySet DEF IsList
  <2>2. setup \in Setups /\ setup.versions \in Seq([length : Nat, md5 : BOOLEAN])
    BY CopyAssumption DEF Init
  <2>3. Len(setup.versions) \in Nat /\ (setup.versions # <<>> => Len(setup.versions) >= 1)
    BY <2>2, EmptySeq, LenProperties
  <2>4. version \in 0 .. Len(setup.versions)
    BY <2>3 DEF Init
  <2>5. local \in Seq(Bytewise)
    <3>1. local \in Seq({Hole})
      BY CopyAssumption DEF Init
    <3>2. Hole \in Bytewise
      BY DEF Hole, Bytewise
    <3>3. Len(local) \in Nat /\ local \in [1 .. Len(local) -> {Hole}]
      BY <3>1, LenProperties
    <3>4. local \in [1 .. Len(local) -> Bytewise]
      BY <3>2, <3>3
    <3> QED BY <3>3, <3>4, FileOf
  <2> QED BY <2>1, <2>4, <2>5, CopyAssumption DEF Init, CopyTypes, Phases
<1>2. ASSUME NEW w \in AllWorkers PROVE WorkerInv(w)
  <2>1. phase[w] = "start" /\ list[w] = <<>> /\ share[w] = {} /\ task[w] = <<>>
        /\ seen[w] = 0 /\ version \in Nat
    BY DEF Init
  <2>2. Placed(w)
    BY <2>1 DEF Placed, OneBlob
  <2>3. Worked(w)
    BY <2>1 DEF Worked
  <2>4. Lists(w)
    BY <2>1 DEF Lists, Begun
  <2>5. Shares(w)
    BY <2>1 DEF Shares, Begun
  <2> QED BY <2>2, <2>3, <2>4, <2>5 DEF WorkerInv
<1>3. Filled
  <2>1. \A w \in Workers : ~OneBlob(w)
    BY <1>1, SetupFacts DEF Init, OneBlob, CopyTypes
  <2> QED BY <2>1 DEF Filled
<1>4. Compared
  <2>1. <<0, 0>> \in Workers /\ <<0, 0>> \in AllWorkers
    BY <1>1, SetupFacts DEF CopyTypes, Workers, WorkersOf, Processes
  <2> QED BY <2>1 DEF Init, Compared
<1>5. Exits
  BY <1>1, SetupFacts DEF Init, Exits, CopyTypes
<1> QED BY <1>1, <1>2, <1>3, <1>4, <1>5 DEF CopyInv

LEMMA CopyInvAlways == Spec => []CopyInv
<1>1. Init => CopyInv
  BY InitCopyInv
<1>2. CopyInv /\ [Next]_vars => CopyInv'
  <2> SUFFICES ASSUME CopyInv, [Next]_vars PROVE CopyInv'
    OBVIOUS
  <2> QED BY StepTypes, StepWorkers, StepFilled, StepCompared, StepExits DEF CopyInv
<1> QED BY <1>1, <1>2, PTL DEF Spec

(* The requests of a copy, of all its workers, are a behaviour of the       *)
(* limiter.                                                                 *)
THEOREM CopyUsesLimiter == Spec => LimiterSpec
<1>1. Init => LimiterInit
  BY DEF Init
<1>2. CopyInv /\ [Next]_vars => [LimiterNext]_limiterVars
  BY StepLimiter
<1> QED BY <1>1, <1>2, CopyInvAlways, PTL DEF Spec, LimiterSpec

(* So the bucket never offers more than one second's worth beyond what      *)
(* cancelled tasks have given back.                                         *)
THEOREM BurstBoundedAlways == Spec => []BurstBounded
BY CopyUsesLimiter, LimiterBurstBounded, PTL

LEMMA InvImpliesPartition == CopyInv => SharesPartition
<1> SUFFICES ASSUME CopyInv, \A w \in Workers : Begun(w), SameLists
             PROVE  /\ \A w \in Workers : UNION {share[v] : v \in Workers} = Kept(list[w])
                    /\ \A v, w \in Workers : v # w => share[v] \cap share[w] = {}
  BY DEF SharesPartition
<1> SUFFICES ASSUME NEW w \in Workers
             PROVE  /\ UNION {share[v] : v \in Workers} = Kept(list[w])
                    /\ \A v \in Workers : v # w => share[v] \cap share[w] = {}
  OBVIOUS
<1> DEFINE of(v) == ShareOf(list[w], Index(v[1], v[2]), Shards)
<1>1. setup \in Setups /\ IsList(list[w])
  BY SetupFacts DEF CopyInv, CopyTypes
<1>2. \A v \in Workers : share[v] = of(v)
  <2> TAKE v \in Workers
  <2>1. v \in AllWorkers /\ list[v] = list[w]
    BY <1>1, SetupFacts DEF SameLists
  <2> QED BY <2>1 DEF CopyInv, WorkerInv, Shares
<1>3. /\ UNION {of(v) : v \in Workers} = Kept(list[w])
      /\ \A u, v \in Workers : u # v => of(u) \cap of(v) = {}
  BY <1>1, SharesPartitionList
<1> HIDE DEF of
<1> QED BY <1>2, <1>3

(* Workers that have read the same list divide it up, whatever is in the    *)
(* container, and whatever their number.                                    *)
THEOREM SharesPartitionAlways == Spec => []SharesPartition
BY CopyInvAlways, InvImpliesPartition, PTL

LEMMA AllWell ==
  ASSUME CopyInv, AllOk
  PROVE  \A w \in Workers : w \in AllWorkers /\ phase[w] = "ok"
                            /\ \A i \in DOMAIN task[w] : task[w][i] = "ok"
<1>1. \A w \in Workers : w \in AllWorkers /\ phase[w] = "ok"
  BY SetupFacts DEF CopyInv, CopyTypes, AllOk, Exits, NoError, Workers
<1> QED BY <1>1 DEF CopyInv, WorkerInv, Worked

LEMMA InvImpliesComplete == CopyInv => SuccessIsComplete
<1> SUFFICES ASSUME CopyInv, AllOk, SameLists, \A w \in Workers : ~OneBlob(w), NEW b \in Wanted
             PROVE  Copied(b)
  BY DEF SuccessIsComplete
<1>1. \A w \in Workers : w \in AllWorkers /\ Begun(w)
                         /\ \A i \in DOMAIN task[w] : task[w][i] = "ok"
  BY AllWell DEF Begun
<1>2. PICK w \in Workers : TRUE
  <2>1. <<0, 0>> \in Workers
    BY SetupFacts DEF CopyInv, CopyTypes, Workers, WorkersOf, Processes
  <2> QED BY <2>1
<1>3. PICK i \in Kept(list[w]) : list[w][i].name = b
  <2>1. CASE Listing = "list"
    <3>1. b \in Blobs \ changed /\ There(b) /\ b \in Matching
      BY <2>1, CopyAssumption DEF Wanted
    <3>2. b \in DOMAIN list[w] /\ list[w][b].name = b
      BY <1>1, <2>1, <3>1 DEF CopyInv, WorkerInv, Lists
    <3> QED BY <3>1, <3>2 DEF Kept
  <2>2. CASE Listing = "read"
    <3>1. list[w] = [i \in Lines |-> setup.rows[i].entry]
      BY <1>1, <2>2 DEF CopyInv, WorkerInv, Lists, Lines
    <3>2. PICK i \in Lines : setup.rows[i].entry.name = b
      BY <2>2 DEF Wanted, Lines
    <3>3. b \in Matching
      BY <2>2 DEF Wanted
    <3> QED BY <3>1, <3>2, <3>3 DEF Kept
  <2> QED BY <2>1, <2>2 DEF Listing
<1>4. PICK v \in Workers : i \in share[v]
  BY <1>1, <1>3, InvImpliesPartition DEF SharesPartition
<1>5. list[v] = list[w] /\ task[v][i] = "ok"
  BY <1>1, <1>4 DEF SameLists, CopyInv, WorkerInv, Placed
<1> QED BY <1>3, <1>4, <1>5 DEF Copied

(* A copy whose processes all report success has copied every blob that was *)
(* there all the time, if their lists do not differ.                        *)
THEOREM SuccessIsCompleteAlways == Spec => []SuccessIsComplete
BY CopyInvAlways, InvImpliesComplete, PTL

(* Every byte of a blob is in one of its parts.                             *)
LEMMA PartsCover ==
  ASSUME NEW n \in Nat, NEW p \in 1 .. n
  PROVE  \E i \in Parts(n) : p \in Part(i, n)
<1>1. CASE n >= block_size
  <2>1. PICK i \in 1 .. NumChunks(n) : First(i) <= p /\ p <= i * block_size
    BY ChunkFacts
  <2>2. First(i) \in Nat /\ i * block_size \in Nat
    BY ChunkFacts
  <2> QED BY <1>1, <2>1, <2>2 DEF Parts, Part, AtMost
<1>2. CASE ~(n >= block_size)
  BY <1>2 DEF Parts, Part
<1> QED BY <1>1, <1>2

LEMMA InvImpliesWhole == CopyInv => SingleBlobWhole
<1> SUFFICES ASSUME CopyInv, AllOk, \A w \in Workers : OneBlob(w), Steady \/ Checked
             PROVE  \E w \in Workers : local = Content(seen[w])
  BY DEF SingleBlobWhole
<1> DEFINE w0 == <<0, 0>>
           n == Length(version)
<1>0. w0 \in Workers /\ w0 \in AllWorkers /\ WorkerInv(w0)
  BY SetupFacts DEF CopyInv, CopyTypes, Workers, WorkersOf, Processes
<1>1. CASE Checked
  BY <1>1, AllWell DEF CopyInv, Compared
<1>2. CASE Steady
  <2> HIDE DEF w0
  <2>1. n \in Nat /\ seen[w0] = version /\ local \in Seq(Bytewise)
    BY <1>0, <1>2, SeenLength DEF CopyInv, CopyTypes, Steady
  <2>2. Short /\ Filling
    BY <1>0, <1>2 DEF CopyInv, Filled, AsSeen, Steady
  <2> HIDE DEF n
  <2>3. \A w \in Workers : DOMAIN task[w] = Parts(n) /\ \A i \in Parts(n) : Wrote(w, i)
    BY <1>2, AllWell DEF CopyInv, WorkerInv, Placed, Steady, Wrote, n
  <2>4. Len(local) <= n
    <3>1. 1 \in DOMAIN task[w0] /\ task[w0][1] = "ok"
      <4>1. 1 \in Parts(n)
        BY <2>1, ChunkFacts DEF Parts
      <4> QED BY <1>0, <2>3, <4>1 DEF Wrote
    <3>2. Emptied(w0)
      BY <1>0, <3>1 DEF Emptied
    <3> QED BY <1>0, <2>2, <3>2 DEF Short, n
  <2>5. \A p \in 1 .. n : p \in DOMAIN local /\ local[p] = <<version, p>>
    <3> TAKE p \in 1 .. n
    <3>1. PICK i \in Parts(n) : p \in Part(i, n)
      BY <2>1, PartsCover
    <3> QED BY <2>2, <2>3, <3>1 DEF Filling, Has, n
  <2>6. /\ Len(local) \in Nat /\ local \in [1 .. Len(local) -> Bytewise]
        /\ DOMAIN local = 1 .. Len(local)
    BY <2>1, LenProperties
  <2>7. Len(local) = n
    <3>1. n # 0 => n \in 1 .. Len(local)
      BY <2>1, <2>5, <2>6
    <3>2. Len(local) \in Nat
      BY <2>6
    <3> QED BY <2>1, <2>4, <3>1, <3>2
  <2>8. local = [p \in 1 .. n |-> <<version, p>>]
    BY <2>5, <2>6, <2>7
  <2>9. local = Content(seen[w0])
    BY <2>1, <2>8 DEF Content, n
  <2> QED BY <1>0, <2>9
<1> QED BY <1>1, <1>2

(* However many workers write one blob to one file, each at the length it   *)
(* has seen, the file that is left when all have ended well is the blob,    *)
(* unless it was replaced meanwhile and its digest was not checked.         *)
THEOREM SingleBlobWholeAlways == Spec => []SingleBlobWhole
BY CopyInvAlways, InvImpliesWhole, PTL

------------------------------------------------------------------------------
(* The sums of the reports.  MapThenSumSet takes away one element after     *)
(* another; what it adds up is the size of a union of disjoint parts.       *)
Joined(parts, s) == UNION {parts[x] : x \in s}
AreParts(parts, S) ==
  /\ IsFiniteSet(S) /\ \A x \in S : IsFiniteSet(parts[x])
  /\ \A x, y \in S : x # y => parts[x] \cap parts[y] = {}

LEMMA JoinedGrows ==
  ASSUME NEW S, NEW parts, AreParts(parts, S), NEW s \in SUBSET S, NEW x \in s
  PROVE  /\ IsFiniteSet(Joined(parts, s))
         /\ Cardinality(Joined(parts, s))
              = Cardinality(parts[x]) + Cardinality(Joined(parts, s \ {x}))
<1> USE DEF AreParts
<1> DEFINE rest == Joined(parts, s \ {x})
           all == Joined(parts, s)
<1>1. all = parts[x] \cup rest /\ parts[x] \cap rest = {}
  BY DEF Joined
<1>2. IsFiniteSet(rest)
  <2>1. IsFiniteSet(S \ {x}) /\ s \ {x} \in SUBSET S
    BY FS_RemoveElement
  <2>2. IsFiniteSet(s \ {x})
    BY <2>1, FS_Subset
  <2>3. IsFiniteSet({parts[y] : y \in s \ {x}})
    <3> DEFINE T == s \ {x}
    <3> SUFFICES IsFiniteSet({parts[y] : y \in T})
      OBVIOUS
    <3>1. [y \in T |-> parts[y]] \in Surjection(T, {parts[y] : y \in T})
      BY DEF Surjection
    <3> QED BY <2>2, <3>1, FS_Surjection
  <2>4. \A p \in {parts[y] : y \in s \ {x}} : IsFiniteSet(p)
    OBVIOUS
  <2> QED BY <2>3, <2>4, FS_UNION DEF Joined
<1>3. IsFiniteSet(parts[x])
  OBVIOUS
<1> HIDE DEF all, rest
<1>4. /\ Cardinality(parts[x]) \in Nat /\ Cardinality(rest) \in Nat
      /\ Cardinality(parts[x] \cup rest)
           = Cardinality(parts[x]) + Cardinality(rest) - Cardinality(parts[x] \cap rest)
  BY <1>2, <1>3, FS_CardinalityType, FS_Union
<1>5. Cardinality(parts[x] \cap rest) = 0
  BY <1>1, FS_EmptySet
<1>6. IsFiniteSet(all)
  BY <1>1, <1>2, <1>3, FS_Union
<1> QED BY <1>1, <1>4, <1>5, <1>6 DEF all, rest

LEMMA SumOfParts ==
  ASSUME NEW S, NEW parts, AreParts(parts, S),
         NEW pick, \A s \in SUBSET S : s # {} => pick[s] \in s,
         NEW sum, \A s \in SUBSET S :
           sum[s] = IF s = {} THEN 0 ELSE Cardinality(parts[pick[s]]) + sum[s \ {pick[s]}]
  PROVE  sum[S] = Cardinality(Joined(parts, S))
<1> DEFINE size(s) == Cardinality(Joined(parts, s))
           bad == {s \in SUBSET S : sum[s] # size(s)}
           sizes == {Cardinality(s) : s \in bad}
<1> SUFFICES ASSUME bad # {} PROVE FALSE
  OBVIOUS
<1> HIDE DEF size
<1>1. \A s \in SUBSET S : IsFiniteSet(s) /\ Cardinality(s) \in Nat
  BY FS_Subset, FS_CardinalityType DEF AreParts
<1>2. PICK s \in bad : \A t \in bad : Cardinality(s) <= Cardinality(t)
  <2>1. sizes \in SUBSET Nat /\ sizes # {}
    <3>1. bad \subseteq SUBSET S
      OBVIOUS
    <3> HIDE DEF bad
    <3> QED BY <1>1, <3>1
  <2>2. PICK n \in sizes : \A m \in sizes : n <= m
    <3> HIDE DEF sizes
    <3> QED BY <2>1, LeastOfNaturals
  <2> HIDE DEF bad
  <2>3. PICK s \in bad : n = Cardinality(s)
    OBVIOUS
  <2> QED BY <2>2, <2>3
<1>3. s \in SUBSET S /\ sum[s] # size(s)
  OBVIOUS
<1>4. s # {}
  <2>1. Joined(parts, {}) = {}
    BY DEF Joined
  <2> QED BY <1>3, <2>1, FS_EmptySet DEF size
<1> DEFINE x == pick[s]
           t == s \ {x}
<1>5. x \in s /\ t \in SUBSET S
  BY <1>3, <1>4
<1>6. Cardinality(t) = Cardinality(s) - 1
  BY <1>1, <1>3, <1>5, FS_RemoveElement
<1>7. sum[t] = size(t)
  <2> HIDE DEF t
  <2>1. Cardinality(s) \in Nat /\ Cardinality(t) \in Nat
    BY <1>1, <1>3, <1>5
  <2>2. t \notin bad
    <3> HIDE DEF bad
    <3> QED BY <1>2, <1>6, <2>1
  <2> QED BY <1>5, <2>2
<1>8. sum[s] = Cardinality(parts[x]) + sum[t]
  BY <1>3, <1>4
<1>9. size(s) = Cardinality(parts[x]) + size(t)
  <2> HIDE DEF x
  <2> QED BY <1>3, <1>5, JoinedGrows DEF size
<1> HIDE DEF t, x, bad
<1> QED BY <1>3, <1>7, <1>8, <1>9

(* The entries that the workers of a process have taken, each with its      *)
(* worker.                                                                  *)
Taken(T) == UNION {{w} \X share[w] : w \in T}

LEMMA ShareSum ==
  ASSUME NEW T, IsFiniteSet(T), \A w \in T : IsFiniteSet(share[w])
  PROVE  /\ FX!MapThenSumSet(LAMBDA w : Cardinality(share[w]), T) = Cardinality(Taken(T))
         /\ IsFiniteSet(Taken(T))
<1> DEFINE parts == [w \in T |-> {w} \X share[w]]
           pick == [s \in SUBSET T |-> CHOOSE x \in s : TRUE]
           step(f, s) == IF s = {} THEN 0
                         ELSE Cardinality(share[CHOOSE x \in s : TRUE])
                                + f[s \ {CHOOSE x \in s : TRUE}]
           total == [s \in SUBSET T |-> Cardinality(Joined(parts, s))]
           sum == CHOOSE f : f = [s \in SUBSET T |-> step(f, s)]
<1>1. FX!MapThenSumSet(LAMBDA w : Cardinality(share[w]), T) = sum[T]
  BY DEF FX!MapThenSumSet, FX!MapThenFoldSet
<1>2. \A w \in T : IsFiniteSet(parts[w]) /\ Cardinality(parts[w]) = Cardinality(share[w])
  <2> SUFFICES ASSUME NEW w \in T
               PROVE  /\ IsFiniteSet({w} \X share[w])
                      /\ Cardinality({w} \X share[w]) = Cardinality(share[w])
    OBVIOUS
  <2>1. IsFiniteSet({w}) /\ Cardinality({w}) = 1
    BY FS_Singleton
  <2>2. IsFiniteSet(share[w]) /\ Cardinality(share[w]) \in Nat
    BY FS_CardinalityType
  <2>3. /\ IsFiniteSet({w} \X share[w])
        /\ Cardinality({w} \X share[w]) = 1 * Cardinality(share[w])
    BY <2>1, <2>2, FS_Product
  <2> QED BY <2>2, <2>3
<1>3. AreParts(parts, T)
  <2>1. \A v, w \in T : v # w => parts[v] \cap parts[w] = {}
    OBVIOUS
  <2> HIDE DEF parts
  <2> QED BY <1>2, <2>1 DEF AreParts
<1>4. \A s \in SUBSET T : s # {} => pick[s] \in s /\ pick[s] = CHOOSE x \in s : TRUE
  OBVIOUS
<1>5. Joined(parts, T) = Taken(T)
  BY DEF Taken, Joined
<1>6. total = [s \in SUBSET T |-> step(total, s)]
  <2>1. \A s \in SUBSET T : total[s] = step(total, s)
    <3> SUFFICES ASSUME NEW s \in SUBSET T PROVE total[s] = step(total, s)
      OBVIOUS
    <3>1. CASE s = {}
      <4>1. Joined(parts, s) = {}
        BY <3>1 DEF Joined
      <4> QED BY <3>1, <4>1, FS_EmptySet
    <3>2. CASE s # {}
      <4> DEFINE c == CHOOSE x \in s : TRUE
      <4>1. c \in s /\ s \ {c} \in SUBSET T
        BY <3>2
      <4> HIDE DEF c, parts
      <4>2. Cardinality(Joined(parts, s))
              = Cardinality(parts[c]) + Cardinality(Joined(parts, s \ {c}))
        BY <1>3, <4>1, JoinedGrows
      <4>3. total[s] = Cardinality(share[c]) + total[s \ {c}]
        BY <1>2, <4>1, <4>2
      <4> QED BY <3>2, <4>3 DEF c
    <3> QED BY <3>1, <3>2
  <2> HIDE DEF step, parts
  <2> QED BY <2>1
<1>7. sum = [s \in SUBSET T |-> step(sum, s)]
  <2>1. \E f : f = [s \in SUBSET T |-> step(f, s)]
    <3> HIDE DEF step, total
    <3> QED BY <1>6
  <2> QED BY <2>1
<1> HIDE DEF sum, total, parts
<1>8. \A s \in SUBSET T :
        sum[s] = IF s = {} THEN 0 ELSE Cardinality(parts[pick[s]]) + sum[s \ {pick[s]}]
  <2>1. \A s \in SUBSET T : sum[s] = step(sum, s)
    <3> HIDE DEF step
    <3> QED BY <1>7
  <2>2. \A s \in SUBSET T : s # {} =>
          step(sum, s) = Cardinality(parts[pick[s]]) + sum[s \ {pick[s]}]
    <3> TAKE s \in SUBSET T
    <3> HAVE s # {}
    <3>1. /\ pick[s] \in T /\ pick[s] = CHOOSE x \in s : TRUE
          /\ Cardinality(parts[pick[s]]) = Cardinality(share[pick[s]])
      BY <1>2, <1>4
    <3> HIDE DEF pick
    <3> QED BY <3>1
  <2>3. \A s \in SUBSET T : s = {} => step(sum, s) = 0
    OBVIOUS
  <2> HIDE DEF step, pick
  <2> QED BY <2>1, <2>2, <2>3
<1>9. \A s \in SUBSET T : s # {} => pick[s] \in s
  BY <1>4
<1> HIDE DEF pick, step
<1>10. sum[T] = Cardinality(Joined(parts, T))
  BY <1>3, <1>8, <1>9, SumOfParts
<1>11. IsFiniteSet(Taken(T))
  <2>1. CASE T = {}
    <3>1. Taken(T) = {}
      BY <2>1 DEF Taken
    <3> QED BY <3>1, FS_EmptySet
  <2>2. CASE T # {}
    <3>1. PICK x \in T : TRUE
      BY <2>2
    <3> QED BY <1>3, <1>5, <3>1, JoinedGrows
  <2> QED BY <2>1, <2>2
<1> QED BY <1>1, <1>5, <1>10, <1>11

LEMMA ReportSum ==
  ASSUME NEW T, NEW parts, AreParts(parts, T),
         \A p \in T : exit[p].succeeded = Cardinality(parts[p])
  PROVE  FX!MapThenSumSet(LAMBDA p : exit[p].succeeded, T) = Cardinality(Joined(parts, T))
<1> DEFINE pick == [s \in SUBSET T |-> CHOOSE x \in s : TRUE]
           step(f, s) == IF s = {} THEN 0
                         ELSE exit[CHOOSE x \in s : TRUE].succeeded
                                + f[s \ {CHOOSE x \in s : TRUE}]
           total == [s \in SUBSET T |-> Cardinality(Joined(parts, s))]
           sum == CHOOSE f : f = [s \in SUBSET T |-> step(f, s)]
<1>1. FX!MapThenSumSet(LAMBDA p : exit[p].succeeded, T) = sum[T]
  BY DEF FX!MapThenSumSet, FX!MapThenFoldSet
<1>2. \A s \in SUBSET T : s # {} => pick[s] \in s /\ pick[s] = CHOOSE x \in s : TRUE
  OBVIOUS
<1>3. total = [s \in SUBSET T |-> step(total, s)]
  <2>1. \A s \in SUBSET T : total[s] = step(total, s)
    <3> SUFFICES ASSUME NEW s \in SUBSET T PROVE total[s] = step(total, s)
      OBVIOUS
    <3>1. CASE s = {}
      <4>1. Joined(parts, s) = {}
        BY <3>1 DEF Joined
      <4> QED BY <3>1, <4>1, FS_EmptySet
    <3>2. CASE s # {}
      <4> DEFINE c == CHOOSE x \in s : TRUE
      <4>1. c \in s /\ s \ {c} \in SUBSET T
        BY <3>2
      <4> HIDE DEF c
      <4>2. Cardinality(Joined(parts, s))
              = Cardinality(parts[c]) + Cardinality(Joined(parts, s \ {c}))
        BY <4>1, JoinedGrows
      <4>3. total[s] = exit[c].succeeded + total[s \ {c}]
        BY <4>1, <4>2
      <4> QED BY <3>2, <4>3 DEF c
    <3> QED BY <3>1, <3>2
  <2> HIDE DEF step
  <2> QED BY <2>1
<1>4. sum = [s \in SUBSET T |-> step(sum, s)]
  <2>1. \E f : f = [s \in SUBSET T |-> step(f, s)]
    <3> HIDE DEF step, total
    <3> QED BY <1>3
  <2> QED BY <2>1
<1> HIDE DEF sum, total
<1>5. \A s \in SUBSET T :
        sum[s] = IF s = {} THEN 0 ELSE Cardinality(parts[pick[s]]) + sum[s \ {pick[s]}]
  <2>1. \A s \in SUBSET T : sum[s] = step(sum, s)
    <3> HIDE DEF step
    <3> QED BY <1>4
  <2>2. \A s \in SUBSET T : s # {} =>
          step(sum, s) = Cardinality(parts[pick[s]]) + sum[s \ {pick[s]}]
    <3> TAKE s \in SUBSET T
    <3> HAVE s # {}
    <3>1. /\ pick[s] \in T /\ pick[s] = CHOOSE x \in s : TRUE
          /\ exit[pick[s]].succeeded = Cardinality(parts[pick[s]])
      BY <1>2
    <3> HIDE DEF pick
    <3> QED BY <3>1
  <2>3. \A s \in SUBSET T : s = {} => step(sum, s) = 0
    OBVIOUS
  <2> HIDE DEF step, pick
  <2> QED BY <2>1, <2>2, <2>3
<1>6. \A s \in SUBSET T : s # {} => pick[s] \in s
  BY <1>2
<1> HIDE DEF pick, step
<1>7. sum[T] = Cardinality(Joined(parts, T))
  BY <1>5, <1>6, SumOfParts
<1> QED BY <1>1, <1>7

(* What a process that ended well has reported: no step of another takes a  *)
(* worker that has ended well, or its share, from it.                       *)
Reported ==
  \A p \in Processes : exit[p].status = "ok" => exit[p].succeeded = Cardinality(Taken(Counted(p)))

LEMMA CountedFinite ==
  ASSUME CopyInv, NEW p \in Processes
  PROVE  /\ Counted(p) \subseteq Workers /\ IsFiniteSet(Counted(p))
         /\ \A w \in Counted(p) : IsFiniteSet(share[w])
<1>1. setup.workers \in Nat /\ Workers \subseteq AllWorkers /\ WorkersOf(p) \subseteq Workers
  BY SetupFacts DEF CopyInv, CopyTypes, Workers
<1>2. IsFiniteSet(WorkersOf(p))
  <2>1. IsFiniteSet({p}) /\ IsFiniteSet(0 .. setup.workers - 1)
    <3>1. 0 \in Int /\ setup.workers - 1 \in Int
      BY <1>1
    <3> QED BY <3>1, FS_Singleton, FS_Interval
  <2> QED BY <2>1, FS_Product DEF WorkersOf
<1>3. Counted(p) \in SUBSET WorkersOf(p)
  BY DEF Counted
<1>4. IsFiniteSet(Counted(p))
  BY <1>2, <1>3, FS_Subset
<1>5. ASSUME NEW w \in Counted(p) PROVE IsFiniteSet(share[w])
  <2>1. w \in AllWorkers /\ ~OneBlob(w)
    BY <1>1, <1>3, <1>5 DEF Counted
  <2>2. IsFiniteSet(DOMAIN list[w]) /\ share[w] \in SUBSET DOMAIN list[w]
    BY <2>1 DEF CopyInv, CopyTypes, IsList, WorkerInv, Placed
  <2> QED BY <2>2, FS_Subset
<1> QED BY <1>1, <1>3, <1>4, <1>5

LEMMA StepReported ==
  ASSUME CopyInv, Reported, [Next]_vars
  PROVE  Reported'
<1>0. Workers \subseteq AllWorkers /\ Processes \subseteq AllProcesses
      /\ \A p \in Processes : WorkersOf(p) \subseteq Workers
  BY SetupFacts DEF CopyInv, CopyTypes, Workers
<1>1. ASSUME setup' = setup, exit' = exit,
             \A v \in Workers : phase[v] = "ok" =>
               /\ phase'[v] = "ok" /\ share'[v] = share[v]
               /\ seen'[v] = seen[v]
      PROVE  Reported'
  <2> SUFFICES ASSUME NEW p \in Processes, exit[p].status = "ok"
               PROVE  exit[p].succeeded = Cardinality(Taken(Counted(p)))'
    BY <1>1, SameSetup DEF Reported
  <2>1. \A w \in WorkersOf(p) : w \in Workers /\ phase[w] = "ok"
    BY <1>0 DEF CopyInv, Exits, NoError
  <2>2. Counted(p)' = Counted(p)
    BY <1>1, <2>1, SameSetup DEF Counted, OneBlob
  <2>3. Taken(Counted(p))' = Taken(Counted(p))
    <3>1. \A w \in Counted(p) : share'[w] = share[w]
      BY <1>1, <2>1 DEF Counted
    <3> QED BY <2>2, <3>1 DEF Taken
  <2> QED BY <2>3 DEF Reported
<1>2. ASSUME NEW w \in Workers, WorkerStep(w) PROVE Reported'
  <2>1. phase[w] # "ok" /\ exit' = exit
    BY <1>2 DEF WorkerStep, Resolve, ReadShardlist, ListPage, TakeShare, CreateFile, SetLen,
       EndWorker, VerifyFile, EndFailing
  <2>2. Focus(w) /\ SameStore
    BY <1>0, <1>2, WorkerFocus DEF CopyInv
  <2> QED BY <1>0, <1>1, <2>1, <2>2 DEF Focus, Same, SameStore
<1>3. ASSUME NEW w \in Workers, NEW i \in DOMAIN task[w], TaskAction(w, i) PROVE Reported'
  <2>1. /\ Focus(w) /\ SameStore /\ phase'[w] = phase[w] /\ share'[w] = share[w]
        /\ seen'[w] = seen[w] /\ exit' = exit
    BY <1>0, <1>3, TaskFocus DEF CopyInv
  <2> QED BY <1>0, <1>1, <2>1 DEF Focus, Same, SameStore
<1>4. ASSUME NEW p \in Processes, EndProcess(p) PROVE Reported'
  <2>1. /\ UNCHANGED <<setup, phase, share, seen>>
        /\ \A q \in Processes \ {p} : exit'[q] = exit[q]
        /\ exit'[p].succeeded
             = FX!MapThenSumSet(LAMBDA w : Cardinality(share[w]), Counted(p))
    BY <1>0, <1>4 DEF EndProcess, workerVars, taskVars, CopyInv, CopyTypes
  <2>2. exit'[p].succeeded = Cardinality(Taken(Counted(p)))
    BY <2>1, CountedFinite, ShareSum
  <2>3. \A q \in Processes : Taken(Counted(q))' = Taken(Counted(q))
    BY <2>1, SameSetup DEF Taken, Counted, OneBlob
  <2>4. ASSUME NEW q \in Processes, exit'[q].status = "ok"
        PROVE  exit'[q].succeeded = Cardinality(Taken(Counted(q)))
    BY <2>1, <2>2, <2>4 DEF Reported
  <2>5. Processes' = Processes
    BY <2>1, SameSetup
  <2> QED BY <2>3, <2>4, <2>5 DEF Reported
<1>5. CASE Limiter \/ Change \/ Terminated \/ UNCHANGED vars
  BY <1>1, <1>5 DEF Limiter, Change, Terminated, vars, workerVars, taskVars
<1> QED BY <1>2, <1>3, <1>4, <1>5 DEF Next, TaskStep, TaskAction

LEMMA InvImpliesAddUp == CopyInv /\ Reported => ReportsAddUp
<1> SUFFICES ASSUME CopyInv, Reported, AllOk, SameLists, \A w \in Workers : ~OneBlob(w),
                    NEW w \in Workers
             PROVE  Cardinality(Kept(list[w]))
                      = FX!MapThenSumSet(LAMBDA p : exit[p].succeeded, Processes)
  BY DEF ReportsAddUp
<1> DEFINE parts == [p \in Processes |-> Taken(WorkersOf(p))]
           entry == [e \in Taken(Workers) |-> e[2]]
<1>1. \A p \in Processes : /\ Counted(p) = WorkersOf(p) /\ WorkersOf(p) \subseteq Workers
                           /\ \A v \in WorkersOf(p) : v[1] = p
  <2>1. \A p \in Processes : WorkersOf(p) \subseteq Workers
    BY DEF Workers
  <2> QED BY <2>1, AllWell DEF Counted, WorkersOf
<1>2. \A p \in Processes : /\ exit[p].succeeded = Cardinality(parts[p])
                           /\ IsFiniteSet(parts[p])
  <2> TAKE p \in Processes
  <2>1. IsFiniteSet(Taken(WorkersOf(p)))
    <3>1. IsFiniteSet(Taken(Counted(p)))
      BY CountedFinite, ShareSum
    <3> QED BY <1>1, <3>1
  <2> QED BY <1>1, <2>1 DEF Reported, AllOk
<1>3. AreParts(parts, Processes)
  <2>1. IsFiniteSet(Processes)
    <3>1. 0 \in Int /\ setup.processes - 1 \in Int
      BY SetupFacts DEF CopyInv, CopyTypes
    <3> QED BY <3>1, FS_Interval DEF Processes
  <2>2. \A p, q \in Processes : p # q => parts[p] \cap parts[q] = {}
    <3>1. \A p \in Processes : \A e \in parts[p] : e[1][1] = p
      BY <1>1 DEF Taken
    <3> HIDE DEF parts
    <3> QED BY <3>1
  <2> HIDE DEF parts
  <2> QED BY <1>2, <2>1, <2>2 DEF AreParts
<1>4. Joined(parts, Processes) = Taken(Workers)
  BY DEF Joined, Taken, Workers
<1>5. /\ UNION {share[v] : v \in Workers} = Kept(list[w])
      /\ \A u, v \in Workers : u # v => share[u] \cap share[v] = {}
  <2>1. \A v \in Workers : Begun(v)
    BY AllWell DEF Begun
  <2> QED BY <2>1, InvImpliesPartition DEF SharesPartition
<1>6. entry \in Bijection(Taken(Workers), Kept(list[w]))
  <2>1. \A e \in Taken(Workers) : /\ e[1] \in Workers /\ e[2] \in share[e[1]]
                                  /\ e = <<e[1], e[2]>> /\ entry[e] = e[2]
    BY DEF Taken
  <2>2. \A v \in Workers : \A i \in share[v] : /\ <<v, i>> \in Taken(Workers)
                                                 /\ entry[<<v, i>>] = i
    BY DEF Taken
  <2>3. entry \in [Taken(Workers) -> Kept(list[w])]
    BY <1>5, <2>1
  <2> HIDE DEF entry
  <2>4. \A d, e \in Taken(Workers) : entry[d] = entry[e] => d = e
    BY <1>5, <2>1
  <2>5. \A i \in Kept(list[w]) : \E e \in Taken(Workers) : entry[e] = i
    <3> SUFFICES ASSUME NEW i \in Kept(list[w]) PROVE \E e \in Taken(Workers) : entry[e] = i
      OBVIOUS
    <3>1. PICK v \in Workers : i \in share[v]
      BY <1>5
    <3>2. <<v, i>> \in Taken(Workers) /\ entry[<<v, i>>] = i
      BY <2>2, <3>1
    <3> QED BY <3>2
  <2>6. entry \in Injection(Taken(Workers), Kept(list[w]))
    BY <2>3, <2>4 DEF Injection, IsInjective
  <2>7. entry \in Surjection(Taken(Workers), Kept(list[w]))
    BY <2>3, <2>5 DEF Surjection
  <2> QED BY <2>6, <2>7 DEF Bijection
<1>7. IsFiniteSet(Taken(Workers))
  <2>1. 0 \in Processes
    BY SetupFacts DEF CopyInv, CopyTypes, Processes
  <2> HIDE DEF parts
  <2> QED BY <1>3, <1>4, <2>1, JoinedGrows
<1>8. Cardinality(Kept(list[w])) = Cardinality(Taken(Workers))
  <2> HIDE DEF entry
  <2> QED BY <1>6, <1>7, FS_Bijection DEF ExistsBijection
<1>9. FX!MapThenSumSet(LAMBDA p : exit[p].succeeded, Processes) = Cardinality(Taken(Workers))
  <2> HIDE DEF parts
  <2> QED BY <1>2, <1>3, <1>4, ReportSum
<1> QED BY <1>8, <1>9

(* The numbers of files that the processes of a copy report are, added up,  *)
(* the number of those in the list: nothing is counted twice, and nothing   *)
(* is left out.                                                             *)
THEOREM ReportsAddUpAlways == Spec => []ReportsAddUp
<1>1. Init => Reported
  <2> SUFFICES ASSUME Init PROVE Reported
    OBVIOUS
  <2>1. Processes \subseteq AllProcesses
    BY SetupFacts DEF Init
  <2> QED BY <2>1 DEF Init, Reported
<1>2. CopyInv /\ Reported /\ [Next]_vars => Reported'
  BY StepReported
<1> QED BY <1>1, <1>2, CopyInvAlways, InvImpliesAddUp, PTL DEF Spec
==============================================================================
