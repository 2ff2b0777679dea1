------------------------------ MODULE RateLimiter ------------------------------
(***************************************************************************)
(* --max-bandwidth (src/engine/rate_limiter.rs): a bucket of permits that  *)
(* every request takes its bytes from before it is sent, and a thread that *)
(* refills it.  One limiter serves all workers of a process.               *)
(*                                                                         *)
(* The bucket is tokio's semaphore, modelled as the code relies on it:     *)
(* first come, first served, and whoever is first in the queue keeps what  *)
(* is there until it has all it needs.  Permits that come in are handed    *)
(* out one waiter at a time under the semaphore's lock; pool is what its   *)
(* holder still has in hand.                                               *)
(***************************************************************************)
EXTENDS Integers, Sequences

CONSTANTS
  bytes_per_sec,      \* --max-bandwidth
  RATE_UNIT_BYTES,
  PERMIT_LIMIT,       \* u32::MAX / 2
  TicksPerSecond,     \* refills in a second, if the thread wakes in time
  Delays              \* bound: the ticks it may take to wake

ASSUME LimiterAssumption ==
  /\ bytes_per_sec \in Nat /\ RATE_UNIT_BYTES \in Nat \ {0} /\ PERMIT_LIMIT \in Nat \ {0}
  /\ TicksPerSecond \in Nat \ {0} /\ Delays \subseteq Nat \ {0} /\ Delays # {}

VARIABLES
  available,      \* permits in the semaphore
  queue,          \* those who wait for permits
  held,           \* permits the first of them has so far
  pool,           \* permits being handed out
  assigned,       \* those who have their permits and have not gone on
  refill,         \* the thread: asleep, about to add permits, or adding them
  leftover,       \* the fraction of a permit it carries over
  returned        \* history: permits that cancelled tasks have given back

limiterVars == <<available, queue, held, pool, assigned, refill, leftover, returned>>

AtMost(n, limit) == IF n <= limit THEN n ELSE limit

(* One second's worth of permits.                                           *)
max_permits ==
  AtMost(IF bytes_per_sec < RATE_UNIT_BYTES THEN 1 ELSE bytes_per_sec \div RATE_UNIT_BYTES,
         PERMIT_LIMIT)

Uncapped(bytes) == (bytes + RATE_UNIT_BYTES - 1) \div RATE_UNIT_BYTES
Needed(bytes) == AtMost(Uncapped(bytes), max_permits)

LimiterInit ==
  /\ available = 0 /\ queue = <<>> /\ held = 0 /\ pool = 0 /\ assigned = {}
  /\ refill = [pc |-> "asleep", add |-> 0] /\ leftover = 0
  /\ returned = 0

------------------------------------------------------------------------------
(* acquire: it takes what it needs at once, or takes what there is and       *)
(* waits.  The permits are gone for good (forget) when it returns.          *)
Waits(c) == \E i \in DOMAIN queue : queue[i].who = c
Idle(c) == ~Waits(c) /\ c \notin assigned

TakeNow(c, bytes) ==
  /\ Idle(c) /\ Needed(bytes) <= available
  /\ available' = available - Needed(bytes)
  /\ UNCHANGED <<queue, held, pool, assigned, refill, leftover, returned>>

Enqueue(c, bytes) ==
  /\ Idle(c) /\ Needed(bytes) > available /\ pool = 0
  /\ queue' = Append(queue, [who |-> c, needs |-> Needed(bytes)])
  /\ held' = held + available /\ available' = 0
  /\ UNCHANGED <<pool, assigned, refill, leftover, returned>>

Resume(c) ==
  /\ c \in assigned
  /\ assigned' = assigned \ {c}
  /\ UNCHANGED <<available, queue, held, pool, refill, leftover, returned>>

(* A task is cancelled in acquire: what it has goes back.                   *)
Without(i) == [j \in 1 .. Len(queue) - 1 |-> IF j < i THEN queue[j] ELSE queue[j + 1]]

GiveUp(c, bytes) ==
  /\ pool = 0
  /\ \/ /\ c \in assigned
        /\ assigned' = assigned \ {c}
        /\ pool' = Needed(bytes) /\ returned' = returned + Needed(bytes)
        /\ UNCHANGED <<queue, held>>
     \/ \E i \in DOMAIN queue :
          /\ queue[i].who = c
          /\ queue' = Without(i)
          /\ IF i = 1 THEN pool' = held /\ held' = 0 /\ returned' = returned + held
             ELSE UNCHANGED <<pool, held, returned>>
          /\ UNCHANGED assigned
  /\ UNCHANGED <<available, refill, leftover>>

------------------------------------------------------------------------------
(* Permits that come in are given to the queue, the rest to the semaphore;  *)
(* when none are left, whoever has added them goes on.                      *)
LockReleased == refill' = IF refill.pc = "adding" THEN [refill EXCEPT !.pc = "asleep"] ELSE refill

HandOut ==
  /\ pool > 0
  /\ IF queue = <<>>
     THEN available' = available + pool /\ UNCHANGED <<queue, held, assigned>>
     ELSE LET lacks == Head(queue).needs - held
          IN IF pool < lacks THEN held' = held + pool /\ UNCHANGED <<available, queue, assigned>>
             ELSE /\ queue' = Tail(queue) /\ held' = 0
                  /\ assigned' = assigned \cup {Head(queue).who}
                  /\ UNCHANGED available
  /\ pool' = IF queue = <<>> \/ pool < Head(queue).needs - held THEN 0
             ELSE pool - (Head(queue).needs - held)
  /\ IF pool' = 0 THEN LockReleased ELSE UNCHANGED refill
  /\ UNCHANGED <<leftover, returned>>

------------------------------------------------------------------------------
(* The thread wakes after some ticks, computes what the time since has      *)
(* earned, and reads available_permits; then it adds what fits.             *)
Forgotten(earned) == 0                  \* mutations of Carried and Room
Carried(earned) == earned % TicksPerSecond
AlwaysAll(free) == max_permits
Room(free) == max_permits - free

RefillReads(elapsed) ==
  /\ refill.pc = "asleep"
  /\ LET earned == elapsed * max_permits + leftover
         add == AtMost(earned \div TicksPerSecond, Room(available))
     IN /\ leftover' = Carried(earned)
        /\ refill' = IF available < max_permits /\ add > 0
                     THEN [pc |-> "add", add |-> add] ELSE refill
  /\ UNCHANGED <<available, queue, held, pool, assigned, returned>>

RefillAdds ==
  /\ refill.pc = "add" /\ pool = 0
  /\ pool' = refill.add
  /\ refill' = [pc |-> "adding", add |-> 0]
  /\ UNCHANGED <<available, queue, held, assigned, leftover, returned>>

LimiterNext ==
  \/ HandOut \/ RefillAdds \/ \E elapsed \in Delays : RefillReads(elapsed)
  \/ \E c :                    \* any task that makes requests
       \/ Resume(c)
       \/ \E bytes \in Nat \ {0} : TakeNow(c, bytes) \/ Enqueue(c, bytes) \/ GiveUp(c, bytes)

LimiterSpec == LimiterInit /\ [][LimiterNext]_limiterVars

------------------------------------------------------------------------------
(* What is there for new requests is never more than one second's worth,    *)
(* although the thread adds to what it has read a moment ago, and the first *)
(* of those that wait never holds more than that either, although what it   *)
(* holds does not count as available.  Only what cancelled tasks give back  *)
(* comes in without regard to the capacity.                                 *)
BurstBounded == available + pool <= max_permits + returned /\ held < max_permits
==============================================================================
