----------------------------- MODULE Replication -----------------------------
(***************************************************************************)
(* What the broadcast stage promises, with no pipeline in it: every rank   *)
(* comes to hold every unit of every file, never loses one it holds, and   *)
(* returns "ok" only when it holds them all.  A failed stage ends the      *)
(* ranks that have not returned.                                           *)
(***************************************************************************)
CONSTANTS
  Ranks,
  Units        \* the units of all files of the plan

VARIABLES
  held,        \* the units each rank has on disk, in their place
  outcome      \* "running", "ok" or "aborted"

TypeOK ==
  /\ held \in [Ranks -> SUBSET Units]
  /\ outcome \in [Ranks -> {"running", "ok", "aborted"}]

Init ==
  /\ held \in [Ranks -> SUBSET Units]
  /\ outcome = [r \in Ranks |-> "running"]

(* A running rank stores units and loses none.                              *)
Store(r) ==
  /\ outcome[r] = "running"
  /\ held' \in [Ranks -> SUBSET Units]
  /\ held[r] \subseteq held'[r]
  /\ \A q \in Ranks \ {r} : held'[q] = held[q]
  /\ UNCHANGED outcome

Succeed(r) ==
  /\ outcome[r] = "running" /\ held[r] = Units
  /\ outcome' = [outcome EXCEPT ![r] = "ok"]
  /\ UNCHANGED held

Fail ==
  /\ \E r \in Ranks : outcome[r] = "running"
  /\ outcome' = [r \in Ranks |-> IF outcome[r] = "ok" THEN "ok" ELSE "aborted"]
  /\ UNCHANGED held

Next == Fail \/ \E r \in Ranks : Store(r) \/ Succeed(r)

Spec == Init /\ [][Next]_<<held, outcome>>
==============================================================================
