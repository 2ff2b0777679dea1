------------------------------ MODULE SyncProofs ------------------------------
(***************************************************************************)
(* For any number of files, runs, failures and changes of the source:      *)
(* what a run of sync deletes (DeletesOnlyExtras), what it has done when   *)
(* it ended well (InSyncAfterRun), and what the next run then has to do    *)
(* (RerunIsNoop).                                                          *)
(*                                                                         *)
(* The first and the last are about one step, but whether they hold        *)
(* depends on what the run has recorded since it listed the source.        *)
(* DeleteInv says what that is for the first, SyncInv for the others.      *)
(***************************************************************************)
EXTENDS Sync, TLAPS

Items == [ver : Int, len : Int, time : Int, md5 : BOOLEAN]

(* The part of the types that the argument needs.                           *)
ItemsOK ==
  /\ src \in [Files -> Items] /\ dst \in [Files -> Items]
  /\ seen_src \in [Files -> Items] /\ reading \in [Files -> Items]
  /\ version \in [Files -> Nat] /\ clock \in Int

(* From the listing of the source until the end of a run, missing has what  *)
(* was not listed and what is not there now; extras are among those, and    *)
(* there are some only while files are deleted, if that was asked for.      *)
MissingRecorded ==
  pc \in {"list_dest", "diff", "transfer", "delete"} =>
    \A f \in Files : (~Exists(seen_src[f]) \/ ~Exists(src[f])) => f \in missing

ExtrasRecorded ==
  \A f \in extras : f \in Files /\ pc = "delete" /\ args.delete /\ f \in missing

DeleteInv == ItemsOK /\ MissingRecorded /\ ExtrasRecorded

------------------------------------------------------------------------------
(* Items.                                                                   *)
LEMMA NothingItem == Nothing \in Items /\ ~Exists(Nothing) /\ NothingThere \in [Files -> Items]
BY DEF Nothing, Items, Exists, NothingThere

LEMMA ItemItem ==
  ASSUME NEW f, NEW v \in Nat, NEW t \in Int
  PROVE  Item(f, v, t) \in Items /\ Exists(Item(f, v, t))
BY DEF Item, Items, Exists

(* What a transfer may leave of an existing file exists.                    *)
LEMMA LeftoversExist ==
  ASSUME ItemsOK, NEW f \in Files, Exists(reading[f]), NEW item \in Leftovers(f)
  PROVE  /\ item \in Items
         /\ Exists(dst[f]) => Exists(item)
         /\ Written(f) \in Items /\ Exists(Written(f))
<1>1. reading[f] \in Items /\ dst[f] \in Items /\ clock \in Int
  BY DEF ItemsOK
<1>2. Written(f) \in Items /\ Written(f).ver = reading[f].ver
  BY <1>1 DEF Written, Items
<1>3. Exists(Written(f))
  BY <1>2 DEF Exists
<1>4. Allocated(f) \in Items /\ Exists(Allocated(f))
  BY <1>1, ItemItem DEF Allocated, Holes
<1>5. Cut(f) \in Items /\ Exists(Cut(f))
  <2>1. Item(f, Holes, clock) \in Items /\ Exists(Item(f, Holes, clock))
    BY <1>1, ItemItem DEF Holes
  <2>2. Cut(f) \in Items /\ Cut(f).ver = Item(f, Holes, clock).ver
    BY <2>1 DEF Cut, Items
  <2> QED
    BY <2>1, <2>2 DEF Exists
<1> QED
  BY <1>1, <1>2, <1>3, <1>4, <1>5 DEF Leftovers

------------------------------------------------------------------------------
(* A file that exists is deleted only if it is an extra.                    *)
DeletionAllowed ==
  \A f \in Files : (Exists(dst[f]) /\ ~Exists(dst'[f])) => args.delete /\ f \in missing

LEMMA InitOK == Init => DeleteInv
<1> SUFFICES ASSUME Init PROVE DeleteInv
  OBVIOUS
<1>1. ItemsOK
  <2>1. \A f \in Files : Item(f, 1, 0) \in Items /\ Item(f, Holes, 0) \in Items
    BY ItemItem DEF Holes
  <2>2. src \in [Files -> Items]
    BY <2>1 DEF Init
  <2>3. dst \in [Files -> Items]
    <3>1. PICK there \in SUBSET Files :
             dst = [f \in Files |-> IF f \in there THEN Item(f, Holes, 0) ELSE Nothing]
      BY DEF Init
    <3> QED
      BY <3>1, <2>1, NothingItem
  <2> QED
    BY <2>2, <2>3, NothingItem DEF Init, ItemsOK
<1> QED
  BY <1>1 DEF Init, DeleteInv, MissingRecorded, ExtrasRecorded

(* The owner.                                                               *)
LEMMA EditOK ==
  ASSUME DeleteInv, NEW f \in Files, Edit(f)
  PROVE  DeleteInv' /\ DeletionAllowed
<1>1. version[f] + 1 \in Nat /\ clock \in Int
  BY DEF DeleteInv, ItemsOK
<1>2. Item(f, version[f] + 1, clock) \in Items /\ Exists(Item(f, version[f] + 1, clock))
  BY <1>1, ItemItem
<1>3. src' \in [Files -> Items] /\ version' \in [Files -> Nat]
  BY <1>1, <1>2 DEF Edit, DeleteInv, ItemsOK
<1>4. \A g \in Files : ~Exists(src'[g]) => ~Exists(src[g])
  BY <1>2 DEF Edit, DeleteInv, ItemsOK
<1> USE DEF Edit, Changed, runVars, listVars
<1>5. ItemsOK'
  BY <1>3 DEF DeleteInv, ItemsOK
<1>6. MissingRecorded'
  BY <1>4 DEF DeleteInv, MissingRecorded, Exists
<1>7. ExtrasRecorded' /\ DeletionAllowed
  BY DEF DeleteInv, ExtrasRecorded, DeletionAllowed
<1> QED
  BY <1>5, <1>6, <1>7 DEF DeleteInv

LEMMA RemoveOK ==
  ASSUME DeleteInv, NEW f \in Files, Remove(f)
  PROVE  DeleteInv' /\ DeletionAllowed
<1> USE DEF Remove, Changed, runVars, listVars
<1>1. ItemsOK'
  BY NothingItem DEF DeleteInv, ItemsOK
<1>2. MissingRecorded'
  BY DEF DeleteInv, ItemsOK, MissingRecorded, Exists
<1>3. ExtrasRecorded' /\ DeletionAllowed
  BY DEF DeleteInv, ExtrasRecorded, DeletionAllowed
<1> QED
  BY <1>1, <1>2, <1>3 DEF DeleteInv

(* The steps of a run that leave the destination alone, up to the end of    *)
(* the transfer.                                                            *)
LEMMA BookkeepingOK ==
  ASSUME DeleteInv, Tick \/ Start \/ ListSource \/ ListDest \/ Diff
  PROVE  DeleteInv' /\ DeletionAllowed
<1> USE DEF envVars, runVars, listVars, historyVars
<1>1. CASE Tick
  BY <1>1 DEF Tick, DeleteInv, ItemsOK, MissingRecorded, ExtrasRecorded, DeletionAllowed, Exists
<1>2. CASE Start
  BY <1>2 DEF Start, DeleteInv, ItemsOK, MissingRecorded, ExtrasRecorded, DeletionAllowed, Exists
<1>3. CASE ListSource
  BY <1>3 DEF ListSource, Missing, DeleteInv, ItemsOK, MissingRecorded, ExtrasRecorded,
              DeletionAllowed, Exists
<1>4. CASE ListDest
  BY <1>4 DEF ListDest, DeleteInv, ItemsOK, MissingRecorded, ExtrasRecorded, DeletionAllowed,
              Exists
<1>5. CASE Diff
  BY <1>5 DEF Diff, DeleteInv, ItemsOK, MissingRecorded, ExtrasRecorded, DeletionAllowed, Exists
<1> QED
  BY <1>1, <1>2, <1>3, <1>4, <1>5

LEMMA EndRunOK ==
  ASSUME DeleteInv, ListFails \/ DiffFails \/ End
  PROVE  DeleteInv' /\ DeletionAllowed
<1>1. /\ UNCHANGED <<src, dst, version, clock, args, missing>>
      /\ seen_src' = NothingThere /\ reading' = NothingThere
      /\ pc' = "idle" /\ extras' = {}
  BY DEF ListFails, DiffFails, End, Aborts, EndRun, envVars
<1> QED
  BY <1>1, NothingItem DEF DeleteInv, ItemsOK, MissingRecorded, ExtrasRecorded, DeletionAllowed,
                           Exists

(* A step of the transfer changes at most what is read, counted and at the  *)
(* destination, and there it removes nothing.                               *)
LEMMA TransferStepOK ==
  ASSUME DeleteInv, pc = "transfer", pc' \in {"transfer", "idle"},
         UNCHANGED <<src, version, clock, args, missing>>,
         seen_src' \in {seen_src, NothingThere}, extras' \in {extras, {}},
         pc' = "transfer" => seen_src' = seen_src,
         reading' \in [Files -> Items], dst' \in [Files -> Items],
         \A g \in Files : Exists(dst[g]) => Exists(dst'[g])
  PROVE  DeleteInv' /\ DeletionAllowed
<1>1. ItemsOK'
  BY NothingItem DEF DeleteInv, ItemsOK
<1>2. MissingRecorded'
  BY DEF DeleteInv, MissingRecorded, Exists
<1>3. ExtrasRecorded' /\ DeletionAllowed
  BY DEF DeleteInv, ExtrasRecorded, DeletionAllowed
<1> QED
  BY <1>1, <1>2, <1>3 DEF DeleteInv

LEMMA ReadOK ==
  ASSUME DeleteInv, NEW f \in Files, Read(f)
  PROVE  DeleteInv' /\ DeletionAllowed
BY TransferStepOK DEF Read, DeleteInv, ItemsOK, envVars, listVars, historyVars

(* How a file's transfer ends: with an item that exists if the old one did. *)
LEMMA FinishOK ==
  ASSUME DeleteInv, NEW f \in Files, NEW item \in Items, Finish(f, item),
         Exists(dst[f]) => Exists(item)
  PROVE  /\ reading' \in [Files -> Items] /\ dst' \in [Files -> Items]
         /\ \A g \in Files : Exists(dst[g]) => Exists(dst'[g])
BY NothingItem DEF Finish, DeleteInv, ItemsOK

LEMMA WriteOK ==
  ASSUME DeleteInv, NEW f \in Files, Write(f) \/ WriteRefused(f) \/ WriteFails(f)
  PROVE  DeleteInv' /\ DeletionAllowed
<1>1. Exists(reading[f]) /\ ItemsOK
  BY DEF Write, WriteRefused, WriteFails, DeleteInv
<1>2. dst[f] \in Leftovers(f) /\ Written(f) \in Leftovers(f)
  BY DEF Leftovers
<1>3. \E item \in Leftovers(f) : Finish(f, item)
  BY <1>2 DEF Write, WriteRefused, WriteFails
<1>4. PICK item \in Leftovers(f) : Finish(f, item)
  BY <1>3
<1>5. item \in Items /\ (Exists(dst[f]) => Exists(item))
  BY <1>1, <1>4, LeftoversExist
<1>6. /\ reading' \in [Files -> Items] /\ dst' \in [Files -> Items]
      /\ \A g \in Files : Exists(dst[g]) => Exists(dst'[g])
  BY <1>4, <1>5, FinishOK
<1>7. /\ pc = "transfer"
      /\ UNCHANGED <<src, version, clock, args, missing, pc, seen_src, extras>>
  BY DEF Write, WriteRefused, WriteFails, envVars, listVars, historyVars
<1> QED
  BY <1>6, <1>7, TransferStepOK

LEMMA GoneOK ==
  ASSUME DeleteInv, NEW f \in Files, Gone(f)
  PROVE  DeleteInv' /\ DeletionAllowed
<1>1. Allocated(f) \in Items /\ Exists(Allocated(f))
  BY ItemItem DEF Allocated, Holes, DeleteInv, ItemsOK
<1>2. PICK item \in {dst[f], Allocated(f)} : dst' = [dst EXCEPT ![f] = item]
  BY DEF Gone
<1>3. item \in Items /\ (Exists(dst[f]) => Exists(item))
  BY <1>1, <1>2 DEF DeleteInv, ItemsOK
<1>4. dst' \in [Files -> Items] /\ \A g \in Files : Exists(dst[g]) => Exists(dst'[g])
  BY <1>2, <1>3 DEF DeleteInv, ItemsOK
<1>5. /\ pc = "transfer"
      /\ UNCHANGED <<src, version, clock, args, missing, pc, seen_src, extras, reading>>
  BY DEF Gone, envVars, listVars, historyVars
<1> QED
  BY <1>4, <1>5, TransferStepOK DEF DeleteInv, ItemsOK

LEMMA ReadEndsUploadOK ==
  ASSUME DeleteInv, NEW f \in Files, ReadEndsUpload(f)
  PROVE  DeleteInv' /\ DeletionAllowed
<1>1. PICK handled \in SUBSET {g \in Files \ refused : Exists(reading[g])} :
        dst' = [g \in Files |-> IF g \in handled THEN Written(g) ELSE dst[g]]
  BY DEF ReadEndsUpload
<1>2. \A g \in handled : Written(g) \in Items /\ Exists(Written(g))
  <2> SUFFICES ASSUME NEW g \in handled PROVE Written(g) \in Items /\ Exists(Written(g))
    OBVIOUS
  <2>1. g \in Files /\ Exists(reading[g]) /\ Written(g) \in Leftovers(g)
    BY <1>1 DEF Leftovers
  <2> QED
    BY <2>1, LeftoversExist DEF DeleteInv
<1>3. dst' \in [Files -> Items] /\ \A g \in Files : Exists(dst[g]) => Exists(dst'[g])
  BY <1>1, <1>2 DEF DeleteInv, ItemsOK
<1>4. /\ pc = "transfer" /\ pc' = "idle"
      /\ UNCHANGED <<src, version, clock, args, missing>>
      /\ seen_src' = NothingThere /\ reading' = NothingThere /\ extras' = {}
  BY DEF ReadEndsUpload, Aborts, EndRun, envVars
<1> QED
  BY <1>3, <1>4, NothingItem, TransferStepOK

(* The extras of an upload are not in the source now, those of a download   *)
(* were not listed: both are recorded.                                      *)
LEMMA EndTransferOK ==
  ASSUME DeleteInv, EndTransfer
  PROVE  DeleteInv' /\ DeletionAllowed
<1>1. \A f \in Extras : f \in Files /\ (~Exists(seen_src[f]) \/ ~Exists(src[f]))
  BY DEF Extras
<1>2. pc = "transfer" /\ pc' = "delete" /\ extras' \subseteq Extras /\ (extras' # {} => args.delete)
  BY DEF EndTransfer, Transferred
<1>3. UNCHANGED <<src, dst, version, clock, args, missing, seen_src, reading>>
  BY DEF EndTransfer, envVars, listVars, historyVars
<1>4. ItemsOK'
  BY <1>3 DEF DeleteInv, ItemsOK
<1>5. MissingRecorded'
  BY <1>2, <1>3 DEF DeleteInv, MissingRecorded, Exists
<1>6. ExtrasRecorded'
  BY <1>1, <1>2, <1>3 DEF DeleteInv, MissingRecorded, ExtrasRecorded
<1>7. DeletionAllowed
  BY <1>3 DEF DeletionAllowed
<1> QED
  BY <1>4, <1>5, <1>6, <1>7 DEF DeleteInv

LEMMA DeleteOK ==
  ASSUME DeleteInv, NEW f \in Files, Delete(f)
  PROVE  DeleteInv' /\ DeletionAllowed
<1>1. pc = "delete" /\ args.delete /\ f \in missing
  BY DEF Delete, DeleteInv, ExtrasRecorded
<1>2. UNCHANGED <<src, version, clock, args, missing, pc, seen_src, reading>>
  BY DEF Delete, envVars, listVars, historyVars
<1>3. extras' \subseteq extras /\ dst' \in {dst, [dst EXCEPT ![f] = Nothing]}
  BY DEF Delete
<1>4. ItemsOK'
  BY <1>2, <1>3, NothingItem DEF DeleteInv, ItemsOK
<1>5. MissingRecorded' /\ ExtrasRecorded'
  BY <1>2, <1>3 DEF DeleteInv, MissingRecorded, ExtrasRecorded, Exists
<1>6. DeletionAllowed
  BY <1>1, <1>3 DEF DeletionAllowed, DeleteInv, ItemsOK
<1> QED
  BY <1>4, <1>5, <1>6 DEF DeleteInv

LEMMA StutterOK ==
  ASSUME DeleteInv, UNCHANGED vars
  PROVE  DeleteInv' /\ DeletionAllowed
BY DEF DeleteInv, ItemsOK, MissingRecorded, ExtrasRecorded, DeletionAllowed, Exists,
       vars, envVars, runVars, listVars, historyVars

------------------------------------------------------------------------------
LEMMA StepOK ==
  ASSUME DeleteInv, [Next]_vars
  PROVE  DeleteInv' /\ DeletionAllowed
<1>1. CASE Tick \/ Start \/ ListSource \/ ListDest \/ Diff
  BY <1>1, BookkeepingOK
<1>2. CASE ListFails \/ DiffFails \/ End
  BY <1>2, EndRunOK
<1>3. CASE EndTransfer
  BY <1>3, EndTransferOK
<1>4. CASE Terminated \/ UNCHANGED vars
  BY <1>4, StutterOK DEF Terminated
<1>5. ASSUME NEW f \in Files,
             \/ Edit(f) \/ Remove(f)
             \/ Read(f) \/ Write(f) \/ WriteRefused(f) \/ WriteFails(f)
             \/ Gone(f) \/ ReadEndsUpload(f) \/ Delete(f)
      PROVE  DeleteInv' /\ DeletionAllowed
  BY <1>5, EditOK, RemoveOK, ReadOK, WriteOK, GoneOK, ReadEndsUploadOK, DeleteOK
<1> QED
  BY <1>1, <1>2, <1>3, <1>4, <1>5 DEF Next

(* What missing and extras record holds all through every run.              *)
THEOREM DeleteInvAlways == Spec => []DeleteInv
<1>1. DeleteInv /\ [Next]_vars => DeleteInv'
  BY StepOK
<1> QED
  BY InitOK, <1>1, PTL DEF Spec

(* Sync deletes a file only with --delete-destination, and only if the      *)
(* source has been without it since the run listed it: not because its      *)
(* transfer failed or was skipped, nor after any interleaving of a run with *)
(* changes of the source.                                                   *)
THEOREM DeletesOnlyExtrasAlways == Spec => DeletesOnlyExtras
<1>1. DeleteInv /\ [Next]_vars =>
        [\A f \in Files :
           (Exists(dst[f]) /\ ~Exists(dst'[f])) => args.delete /\ f \in missing]_vars
  BY StepOK DEF DeletionAllowed
<1> QED
  BY DeleteInvAlways, <1>1, PTL DEF Spec, DeletesOnlyExtras

------------------------------------------------------------------------------
(* What a run that ended well has done: InSyncAfterRun and RerunIsNoop.     *)
(*                                                                          *)
(* Serves(m, up, s, d): at the destination d stands for s of the source.    *)
(* It is more than InSyncAfterRun says: with size-and-mtime the source is   *)
(* also not newer, by the clock that the comparison uses.                   *)
Serves(m, up, s, d) ==
  /\ Exists(d) /\ d.len = s.len
  /\ m \in {"md5", "always"} => d.ver = s.ver
  /\ m = "size-and-mtime" =>
       IF up THEN Seconds(s.time) <= Seconds(d.time) ELSE Seconds(s.time) * Second <= d.time
Good(m, f) == Serves(m, Up, src[f], dst[f])

AllGood(m) == \A f \in Files \ refused : Exists(src[f]) => Good(m, f)

(* No file of the source is from the future, and none is empty.             *)
SourceOK == \A f \in Files : Exists(src[f]) => src[f].len = 1 /\ src[f].time <= clock

(* Without a change of the source the listing of it is true all through the *)
(* run; that of the destination is until the transfer begins.               *)
ListingsOK ==
  /\ stable /\ pc \in {"list_dest", "diff", "transfer", "delete"} => seen_src = src
  /\ pc = "diff" => seen_dst = dst
  /\ pc # "transfer" => \A f \in Files : ~Exists(reading[f])

(* During the transfer a file of the source is still to be read, or its     *)
(* present version is on its way, or it failed, or it has been dealt with.  *)
Pending(f) == f \in todo \/ Exists(reading[f]) \/ f \in failed
TransferOK ==
  stable /\ pc = "transfer" =>
    /\ \A f \in Files : Exists(reading[f]) => reading[f] = src[f]
    /\ \A f \in Files \ refused : Exists(src[f]) => Pending(f) \/ Good(args.method, f)

(* What is deleted afterwards is none of these.                             *)
DeletionOK ==
  stable /\ pc = "delete" =>
    /\ \A f \in extras : ~Exists(src[f])
    /\ \A f \in Files \ refused : Exists(src[f]) => f \in failed \/ Good(args.method, f)

ResultOK == result = "ok" /\ stable /\ pc = "idle" => AllGood(args.method)

(* Until the next run begins to send, what the last one did still holds.    *)
SyncedOK ==
  synced # "none" /\ pc \in {"idle", "list", "list_dest", "diff"} =>
    /\ pc \in {"list_dest", "diff"} => stable
    /\ AllGood(synced)

MethodOK == args.method \in {"size", "size-and-mtime", "md5", "always"}

SyncInv ==
  /\ ItemsOK /\ MethodOK /\ SourceOK /\ ListingsOK
  /\ TransferOK /\ DeletionOK /\ ResultOK /\ SyncedOK

------------------------------------------------------------------------------
(* Whole seconds.                                                           *)
LEMMA SecondsBelow ==
  ASSUME NEW t \in Int
  PROVE  Seconds(t) \in Int /\ Seconds(t) * Second <= t /\ t < Seconds(t) * Second + Second
<1>1. Second \in Nat \ {0}
  BY SyncAssumption
<1> QED
  BY <1>1, SMTT(30) DEF Seconds

LEMMA SecondsMonotone ==
  ASSUME NEW s \in Int, NEW t \in Int, s <= t
  PROVE  Seconds(s) <= Seconds(t) /\ Seconds(s) * Second <= t
<1> DEFINE p == Seconds(s)
           q == Seconds(t)
<1>1. /\ p \in Int /\ q \in Int /\ Second \in Nat \ {0}
      /\ p * Second <= s /\ t < q * Second + Second
  BY SecondsBelow, SyncAssumption
<1> SUFFICES p <= q /\ p * Second <= t
  OBVIOUS
<1> HIDE DEF p, q
<1>2. p * Second < (q + 1) * Second /\ p * Second <= t
  BY <1>1
<1>3. p <= q
  <2>1. SUFFICES ASSUME q + 1 <= p PROVE FALSE
    BY <1>1
  <2>2. (q + 1) * Second <= p * Second
    BY <1>1, <2>1
  <2> QED
    BY <1>1, <1>2, <2>2
<1> QED
  BY <1>2, <1>3

(* What is written of a source that has not changed since it was read       *)
(* stands for it, whatever the method.                                      *)
LEMMA WrittenServes ==
  ASSUME ItemsOK, SourceOK, NEW f \in Files, Exists(src[f]), reading[f] = src[f], NEW m
  PROVE  Serves(m, Up, src[f], Written(f))
<1>1. src[f] \in Items /\ clock \in Int /\ src[f].time <= clock
  BY DEF ItemsOK, SourceOK
<1>2. /\ Written(f) \in Items
      /\ Written(f).ver = src[f].ver /\ Written(f).len = src[f].len /\ Written(f).time = clock
  BY <1>1 DEF Written, Items
<1>3. src[f].time \in Int
  BY <1>1 DEF Items
<1>4. /\ Seconds(src[f].time) <= Seconds(Written(f).time)
      /\ Seconds(src[f].time) * Second <= Written(f).time
  BY <1>1, <1>2, <1>3, SecondsMonotone
<1> QED
  BY <1>2, <1>4 DEF Serves, Exists

(* What the comparison leaves out stands for the source already.            *)
LEMMA LeftOutServes ==
  ASSUME SyncInv, pc = "diff", stable, NEW f \in Files, Exists(src[f]), ~NeedsTransfer(f)
  PROVE  Serves(args.method, Up, src[f], dst[f])
<1>1. seen_src = src /\ seen_dst = dst
  BY DEF SyncInv, ListingsOK
<1>2. src[f] \in Items /\ dst[f] \in Items
  BY DEF SyncInv, ItemsOK
<1>3. src[f].time \in Int /\ dst[f].time \in Int
  BY <1>2 DEF Items
<1>4. Exists(dst[f]) /\ dst[f].len = src[f].len /\ args.method # "always"
  BY <1>1 DEF NeedsTransfer
<1>5. args.method = "md5" => dst[f].ver = src[f].ver
  BY <1>1 DEF NeedsTransfer, SameContent
<1>6. args.method = "size-and-mtime" => ~Newer(f)
  BY DEF NeedsTransfer
<1>7. /\ Seconds(src[f].time) \in Int /\ Seconds(dst[f].time) \in Int
      /\ Seconds(src[f].time) * Second \in Int
  BY <1>3, SecondsBelow, SyncAssumption
<1>8. args.method = "size-and-mtime" =>
        IF Up THEN Seconds(src[f].time) <= Seconds(dst[f].time)
        ELSE Seconds(src[f].time) * Second <= dst[f].time
  BY <1>1, <1>3, <1>6, <1>7 DEF Newer
<1> QED
  BY <1>4, <1>5, <1>8 DEF Serves

(* What stands for the source is left out of a comparison by the same       *)
(* method.                                                                  *)
LEMMA ServedIsLeftOut ==
  ASSUME SyncInv, pc = "diff", stable, NEW f \in Files, Exists(src[f]),
         Serves(args.method, Up, src[f], dst[f]),
         args.method # "always", args.method = "md5" => ~PreflightFails
  PROVE  ~NeedsTransfer(f)
<1>1. seen_src = src /\ seen_dst = dst
  BY DEF SyncInv, ListingsOK
<1>2. src[f] \in Items /\ dst[f] \in Items /\ src[f].len = 1
  BY DEF SyncInv, ItemsOK, SourceOK
<1>3. src[f].time \in Int /\ dst[f].time \in Int
  BY <1>2 DEF Items
<1>4. Exists(dst[f]) /\ dst[f].len = src[f].len
  BY DEF Serves
<1>5. args.method = "md5" => SameContent(f)
  BY <1>1 DEF Serves, SameContent
<1>6. args.method = "md5" => BlobOf(f).md5
  <2>1. Exists(BlobOf(f)) /\ BlobOf(f).len > 0
    BY <1>1, <1>2, <1>4 DEF BlobOf
  <2> QED
    BY <1>1, <2>1 DEF PreflightFails
<1>7. /\ Seconds(src[f].time) \in Int /\ Seconds(dst[f].time) \in Int
      /\ Seconds(src[f].time) * Second \in Int
  BY <1>3, SecondsBelow, SyncAssumption
<1>8. args.method = "size-and-mtime" => ~Newer(f)
  BY <1>1, <1>3, <1>7 DEF Serves, Newer
<1> QED
  BY <1>1, <1>4, <1>5, <1>6, <1>8 DEF NeedsTransfer

------------------------------------------------------------------------------
NothingToSend ==
  (pc = "diff" /\ pc' = "transfer" /\ synced = args.method /\ args.method # "always")
    => todo' \subseteq refused

LEMMA InitInSync == Init => SyncInv
<1> SUFFICES ASSUME Init PROVE SyncInv
  OBVIOUS
<1>1. ItemsOK
  BY InitOK DEF DeleteInv
<1>2. SourceOK
  BY DEF Init, SourceOK, Item
<1>3. /\ pc = "idle" /\ result = "none" /\ synced = "none" /\ reading = NothingThere
      /\ args.method = "always"
  BY DEF Init
<1> QED
  BY <1>1, <1>2, <1>3, NothingItem
     DEF SyncInv, MethodOK, ListingsOK, TransferOK, DeletionOK, ResultOK, SyncedOK, NothingThere

LEMMA OwnerInSync ==
  ASSUME SyncInv, ItemsOK', NEW f \in Files, Edit(f) \/ Remove(f)
  PROVE  SyncInv' /\ NothingToSend
<1>1. Changed
  BY DEF Edit, Remove
<1>2. ~stable' /\ synced' = "none" /\ UNCHANGED <<dst, clock, pc, args, seen_dst, reading>>
  BY <1>1 DEF Changed, runVars, listVars
<1>3. SourceOK'
  <2>1. src \in [Files -> Items] /\ clock \in Int
    BY DEF SyncInv, ItemsOK
  <2>2. \/ src' = [src EXCEPT ![f] = Item(f, version[f] + 1, clock)]
        \/ src' = [src EXCEPT ![f] = Nothing]
    BY DEF Edit, Remove
  <2>3. /\ Item(f, version[f] + 1, clock).len = 1
        /\ Item(f, version[f] + 1, clock).time = clock
    BY DEF Item
  <2> QED
    BY <1>2, <2>1, <2>2, <2>3, NothingItem DEF SyncInv, SourceOK
<1>4. ListingsOK'
  BY <1>2 DEF SyncInv, ListingsOK
<1> QED
  BY <1>2, <1>3, <1>4
     DEF SyncInv, MethodOK, TransferOK, DeletionOK, ResultOK, SyncedOK, NothingToSend

(* A step that leaves both sides alone.                                     *)
LEMMA SourceKept ==
  ASSUME SyncInv, UNCHANGED <<src, clock>>
  PROVE  SourceOK'
BY DEF SyncInv, SourceOK

LEMMA TickInSync ==
  ASSUME SyncInv, ItemsOK', Tick
  PROVE  SyncInv' /\ NothingToSend
<1>1. /\ UNCHANGED <<direction, refused, src, dst, pc, args, seen_src, seen_dst, todo, reading,
                     extras, failed, result, stable, synced>>
      /\ clock' = clock + 1 /\ clock \in Int
  BY DEF Tick, runVars, listVars, historyVars, SyncInv, ItemsOK
<1>2. \A f \in Files : src[f].time \in Int
  BY DEF SyncInv, ItemsOK, Items
<1>3. SourceOK'
  BY <1>1, <1>2 DEF SyncInv, SourceOK
<1>4. ListingsOK' /\ TransferOK' /\ DeletionOK'
  BY <1>1 DEF SyncInv, ListingsOK, TransferOK, DeletionOK, Pending, Good, Up
<1>5. ResultOK' /\ SyncedOK'
  BY <1>1 DEF SyncInv, ResultOK, SyncedOK, AllGood, Good, Up
<1> QED
  BY <1>1, <1>3, <1>4, <1>5 DEF SyncInv, MethodOK, NothingToSend

LEMMA ListInSync ==
  ASSUME SyncInv, ItemsOK', Start \/ ListSource \/ ListDest
  PROVE  SyncInv' /\ NothingToSend
<1>1. UNCHANGED <<direction, refused, src, dst, clock, reading, synced>>
  BY DEF Start, ListSource, ListDest, envVars, listVars, historyVars
<1>2. SourceOK'
  BY <1>1, SourceKept
<1>3. /\ \/ pc = "idle" /\ pc' = "list" /\ stable' = stable
         \/ pc = "list" /\ pc' = "list_dest" /\ stable' /\ seen_src' = src
         \/ pc = "list_dest" /\ pc' = "diff" /\ seen_dst' = dst
            /\ UNCHANGED <<seen_src, stable>>
  BY DEF Start, ListSource, ListDest, historyVars
<1>4. ListingsOK'
  BY <1>1, <1>3 DEF SyncInv, ListingsOK
<1>5. SyncedOK'
  BY <1>1, <1>3 DEF SyncInv, SyncedOK, AllGood, Good, Up
<1>6. MethodOK'
  <2>1. CASE Start
    BY <2>1, SyncAssumption DEF Start, MethodOK
  <2>2. CASE ListSource \/ ListDest
    BY <2>2 DEF ListSource, ListDest, SyncInv, MethodOK
  <2> QED
    BY <2>1, <2>2
<1> QED
  BY <1>2, <1>3, <1>4, <1>5, <1>6 DEF SyncInv, TransferOK, DeletionOK, ResultOK, NothingToSend

(* A run that ends early promises nothing.                                  *)
LEMMA AbortInSync ==
  ASSUME SyncInv, ItemsOK', Aborts
  PROVE  SyncInv' /\ NothingToSend
<1>1. /\ pc' = "idle" /\ result' = "error" /\ synced' = "none" /\ reading' = NothingThere
      /\ UNCHANGED <<src, clock, args>>
  BY DEF Aborts, EndRun, envVars
<1>2. SourceOK'
  BY <1>1, SourceKept
<1>3. ListingsOK'
  BY <1>1, NothingItem DEF ListingsOK, NothingThere
<1> QED
  BY <1>1, <1>2, <1>3
     DEF SyncInv, MethodOK, TransferOK, DeletionOK, ResultOK, SyncedOK, NothingToSend

LEMMA DiffInSync ==
  ASSUME SyncInv, ItemsOK', Diff
  PROVE  SyncInv' /\ NothingToSend
<1>1. /\ UNCHANGED <<direction, refused, src, dst, clock, args, seen_src, reading, failed,
                     stable, synced>>
      /\ pc = "diff" /\ pc' = "transfer"
      /\ todo' = {f \in Judged : NeedsTransfer(f)}
      /\ args.method = "md5" => ~PreflightFails
  BY DEF Diff, envVars, listVars, historyVars
<1>2. SourceOK'
  BY <1>1, SourceKept
<1>3. ListingsOK'
  BY <1>1 DEF SyncInv, ListingsOK
<1>4. stable => seen_src = src /\ Judged = {f \in Files : Exists(src[f])}
  BY <1>1 DEF SyncInv, ListingsOK, Judged
<1>5. TransferOK'
  <2>1. \A f \in Files : ~Exists(reading'[f])
    BY <1>1 DEF SyncInv, ListingsOK
  <2>2. ASSUME stable, NEW f \in Files \ refused, Exists(src[f]), f \notin todo'
        PROVE  Serves(args.method, Up, src[f], dst[f])
    <3>1. ~NeedsTransfer(f)
      BY <1>1, <1>4, <2>2
    <3> QED
      BY <1>1, <2>2, <3>1, LeftOutServes
  <2> QED
    BY <1>1, <2>1, <2>2 DEF TransferOK, Pending, Good, Up
<1>6. NothingToSend
  <2> SUFFICES ASSUME synced = args.method, args.method # "always",
                      NEW f \in todo', f \notin refused
               PROVE  FALSE
    BY DEF NothingToSend
  <2>1. f \in Files /\ NeedsTransfer(f)
    BY <1>1 DEF Judged
  <2>2. synced # "none"
    BY DEF SyncInv, MethodOK
  <2>3. stable /\ AllGood(args.method)
    BY <1>1, <2>2 DEF SyncInv, SyncedOK
  <2>4. Exists(src[f])
    BY <1>1, <1>4, <2>3
  <2>5. Serves(args.method, Up, src[f], dst[f])
    BY <2>1, <2>3, <2>4 DEF AllGood, Good
  <2> QED
    BY <1>1, <2>1, <2>3, <2>4, <2>5, ServedIsLeftOut
<1>7. MethodOK'
  BY <1>1 DEF SyncInv, MethodOK
<1> QED
  BY <1>1, <1>2, <1>3, <1>5, <1>6, <1>7 DEF SyncInv, DeletionOK, ResultOK, SyncedOK

(* A step of the transfer changes at most what is still to be done and the  *)
(* destination: it is enough to look at the files one by one.               *)
LEMMA TransferInSync ==
  ASSUME SyncInv, ItemsOK', pc = "transfer",
         UNCHANGED <<direction, refused, src, clock, args, pc, stable>>,
         stable => \A g \in Files : Exists(reading'[g]) => reading'[g] = src[g],
         \A g \in Files \ refused :
           stable /\ Exists(src[g]) /\ (Pending(g) \/ Good(args.method, g)) =>
             g \in todo' \/ Exists(reading'[g]) \/ g \in failed'
               \/ Serves(args.method, Up, src[g], dst'[g]),
         seen_src' = seen_src
  PROVE  SyncInv' /\ NothingToSend
<1>1. SourceOK'
  BY SourceKept
<1>2. ListingsOK'
  BY DEF SyncInv, ListingsOK
<1>3. TransferOK'
  BY DEF SyncInv, TransferOK, Pending, Good, Up
<1>4. MethodOK'
  BY DEF SyncInv, MethodOK
<1> QED
  BY <1>1, <1>2, <1>3, <1>4 DEF SyncInv, DeletionOK, ResultOK, SyncedOK, NothingToSend

LEMMA ReadInSync ==
  ASSUME SyncInv, ItemsOK', NEW f \in Files, Read(f)
  PROVE  SyncInv' /\ NothingToSend
<1>1. /\ pc = "transfer" /\ Exists(src[f])
      /\ reading' = [reading EXCEPT ![f] = src[f]] /\ todo' = todo \ {f}
      /\ UNCHANGED <<direction, refused, src, dst, clock, args, pc, stable, seen_src, failed>>
  BY DEF Read, envVars, listVars, historyVars
<1>2. reading \in [Files -> Items]
  BY DEF SyncInv, ItemsOK
<1>3. stable => \A g \in Files : Exists(reading'[g]) => reading'[g] = src[g]
  BY <1>1, <1>2 DEF SyncInv, TransferOK
<1>4. ASSUME NEW g \in Files, Pending(g) \/ Good(args.method, g)
      PROVE  g \in todo' \/ Exists(reading'[g]) \/ g \in failed'
               \/ Serves(args.method, Up, src[g], dst'[g])
  BY <1>1, <1>2, <1>4 DEF Pending, Good
<1> QED
  BY <1>1, <1>3, <1>4, TransferInSync

(* A file is done with: it failed, or what was read of it is written.       *)
LEMMA FinishInSync ==
  ASSUME SyncInv, ItemsOK', pc = "transfer", NEW f \in Files, NEW item, Finish(f, item),
         UNCHANGED <<direction, refused, src, clock, args, pc, stable, seen_src, todo>>,
         failed' \in {failed, failed \cup {f}},
         f \in refused \/ f \in failed' \/ (item = Written(f) /\ Exists(reading[f]))
  PROVE  SyncInv' /\ NothingToSend
<1>1. /\ reading \in [Files -> Items] /\ dst \in [Files -> Items]
      /\ reading' = [reading EXCEPT ![f] = Nothing] /\ dst' = [dst EXCEPT ![f] = item]
  BY DEF SyncInv, ItemsOK, Finish
<1>2. stable => \A g \in Files : Exists(reading'[g]) => reading'[g] = src[g]
  BY <1>1, NothingItem DEF SyncInv, TransferOK
<1>3. ASSUME NEW g \in Files \ refused, stable, Exists(src[g]),
             Pending(g) \/ Good(args.method, g)
      PROVE  g \in todo' \/ Exists(reading'[g]) \/ g \in failed'
               \/ Serves(args.method, Up, src[g], dst'[g])
  <2>1. CASE g = f /\ f \notin failed'
    <3>1. item = Written(f) /\ Exists(reading[f]) /\ dst'[g] = Written(g)
      BY <1>1, <1>3, <2>1
    <3>2. reading[g] = src[g]
      BY <1>3, <2>1, <3>1 DEF SyncInv, TransferOK
    <3> QED
      BY <1>3, <3>1, <3>2, WrittenServes DEF SyncInv
  <2>2. CASE g # f
    BY <1>1, <1>3, <2>2 DEF Pending, Good
  <2> QED
    BY <2>1, <2>2
<1> QED
  BY <1>2, <1>3, TransferInSync

LEMMA WriteInSync ==
  ASSUME SyncInv, ItemsOK', NEW f \in Files, Write(f) \/ WriteRefused(f) \/ WriteFails(f)
  PROVE  SyncInv' /\ NothingToSend
<1>1. /\ pc = "transfer" /\ Exists(reading[f])
      /\ UNCHANGED <<direction, refused, src, clock, args, pc, stable, seen_src, todo>>
      /\ failed' \in {failed, failed \cup {f}}
  BY DEF Write, WriteRefused, WriteFails, CountFailed, envVars, listVars, historyVars
<1>2. PICK item : /\ Finish(f, item)
                  /\ f \in refused \/ f \in failed' \/ item = Written(f)
  <2>1. CASE Write(f)
    BY <2>1 DEF Write
  <2>2. CASE WriteRefused(f)
    BY <2>2 DEF WriteRefused
  <2>3. CASE WriteFails(f)
    BY <2>3 DEF WriteFails, CountFailed
  <2> QED
    BY <2>1, <2>2, <2>3
<1> QED
  BY <1>1, <1>2, FinishInSync

LEMMA GoneInSync ==
  ASSUME SyncInv, ItemsOK', NEW f \in Files, Gone(f)
  PROVE  SyncInv' /\ NothingToSend
<1>1. /\ pc = "transfer" /\ ~Exists(src[f])
      /\ failed' = failed \cup {f} /\ todo' = todo \ {f}
      /\ UNCHANGED <<direction, refused, src, clock, args, pc, stable, seen_src, reading>>
      /\ dst \in [Files -> Items]
  BY DEF Gone, CountFailed, envVars, listVars, historyVars, SyncInv, ItemsOK
<1>2. PICK item : dst' = [dst EXCEPT ![f] = item]
  BY DEF Gone
<1>3. stable => \A g \in Files : Exists(reading'[g]) => reading'[g] = src[g]
  BY <1>1 DEF SyncInv, TransferOK
<1>4. ASSUME NEW g \in Files, Exists(src[g]), Pending(g) \/ Good(args.method, g)
      PROVE  g \in todo' \/ Exists(reading'[g]) \/ g \in failed'
               \/ Serves(args.method, Up, src[g], dst'[g])
  BY <1>1, <1>2, <1>4 DEF Pending, Good
<1> QED
  BY <1>1, <1>3, <1>4, TransferInSync

(* When nothing is left to send, each file has failed or stands for its     *)
(* source, and the extras are no files of it.                               *)
LEMMA EndTransferInSync ==
  ASSUME SyncInv, ItemsOK', EndTransfer
  PROVE  SyncInv' /\ NothingToSend
<1>1. /\ UNCHANGED <<direction, refused, src, dst, clock, args, seen_src, reading, failed,
                     stable>>
      /\ pc = "transfer" /\ pc' = "delete"
      /\ todo = {} /\ \A f \in Files : ~Exists(reading[f])
      /\ extras' \subseteq Extras
  BY DEF EndTransfer, Transferred, envVars, listVars, historyVars
<1>2. SourceOK'
  BY <1>1, SourceKept
<1>3. ListingsOK'
  BY <1>1 DEF SyncInv, ListingsOK
<1>4. stable => \A f \in extras' : ~Exists(src[f])
  BY <1>1 DEF Extras, SyncInv, ListingsOK
<1>5. DeletionOK'
  BY <1>1, <1>4 DEF SyncInv, TransferOK, Pending, DeletionOK, Good, Up
<1>6. MethodOK'
  BY <1>1 DEF SyncInv, MethodOK
<1> QED
  BY <1>1, <1>2, <1>3, <1>5, <1>6 DEF SyncInv, TransferOK, ResultOK, SyncedOK, NothingToSend

LEMMA DeleteInSync ==
  ASSUME SyncInv, ItemsOK', NEW f \in Files, Delete(f)
  PROVE  SyncInv' /\ NothingToSend
<1>1. /\ UNCHANGED <<direction, refused, src, clock, args, seen_src, reading, failed, pc,
                     stable>>
      /\ pc = "delete" /\ f \in extras /\ extras' \subseteq extras
      /\ dst' \in {dst, [dst EXCEPT ![f] = Nothing]}
      /\ dst \in [Files -> Items]
  BY DEF Delete, envVars, listVars, historyVars, SyncInv, ItemsOK
<1>2. SourceOK'
  BY <1>1, SourceKept
<1>3. ListingsOK'
  BY <1>1 DEF SyncInv, ListingsOK
<1>4. stable => \A g \in Files : Exists(src[g]) => dst'[g] = dst[g]
  BY <1>1 DEF SyncInv, DeletionOK
<1>5. DeletionOK'
  BY <1>1, <1>4 DEF SyncInv, DeletionOK, Good, Up
<1>6. MethodOK'
  BY <1>1 DEF SyncInv, MethodOK
<1> QED
  BY <1>1, <1>2, <1>3, <1>5, <1>6 DEF SyncInv, TransferOK, ResultOK, SyncedOK, NothingToSend

LEMMA EndInSync ==
  ASSUME SyncInv, ItemsOK', End
  PROVE  SyncInv' /\ NothingToSend
<1>1. /\ UNCHANGED <<direction, refused, src, dst, clock, args, stable>>
      /\ pc = "delete" /\ pc' = "idle" /\ reading' = NothingThere
      /\ result' = "ok" => failed = {}
      /\ synced' # "none" => failed = {} /\ stable /\ synced' = args.method
  BY DEF End, EndRun, Summary, envVars
<1>2. SourceOK'
  BY <1>1, SourceKept
<1>3. ListingsOK'
  BY <1>1, NothingItem DEF ListingsOK, NothingThere
<1>4. stable /\ failed = {} => AllGood(args.method)
  BY <1>1 DEF SyncInv, DeletionOK, AllGood
<1>5. ResultOK' /\ SyncedOK'
  BY <1>1, <1>4 DEF ResultOK, SyncedOK, AllGood, Good, Up
<1>6. MethodOK'
  BY <1>1 DEF SyncInv, MethodOK
<1> QED
  BY <1>1, <1>2, <1>3, <1>5, <1>6 DEF SyncInv, TransferOK, DeletionOK, NothingToSend

LEMMA StutterInSync ==
  ASSUME SyncInv, UNCHANGED vars
  PROVE  SyncInv' /\ NothingToSend
<1>1. UNCHANGED <<direction, refused, src, dst, version, clock, pc, args, seen_src, seen_dst,
                  todo, reading, extras, failed, result, stable, synced>>
  BY DEF vars, envVars, runVars, listVars, historyVars
<1>2. ItemsOK' /\ MethodOK' /\ SourceOK' /\ ListingsOK'
  BY <1>1 DEF SyncInv, ItemsOK, MethodOK, SourceOK, ListingsOK
<1>3. TransferOK' /\ DeletionOK'
  BY <1>1 DEF SyncInv, TransferOK, DeletionOK, Pending, Good, Up
<1>4. ResultOK' /\ SyncedOK'
  BY <1>1 DEF SyncInv, ResultOK, SyncedOK, AllGood, Good, Up
<1> QED
  BY <1>1, <1>2, <1>3, <1>4 DEF SyncInv, NothingToSend

LEMMA StepInSync ==
  ASSUME SyncInv, ItemsOK', [Next]_vars
  PROVE  SyncInv' /\ NothingToSend
<1>1. CASE Start \/ ListSource \/ ListDest
  BY <1>1, ListInSync
<1>2. CASE ListFails \/ DiffFails
  BY <1>2, AbortInSync DEF ListFails, DiffFails
<1>3. CASE Tick
  BY <1>3, TickInSync
<1>4. CASE Diff
  BY <1>4, DiffInSync
<1>5. CASE EndTransfer
  BY <1>5, EndTransferInSync
<1>6. CASE End
  BY <1>6, EndInSync
<1>7. CASE Terminated \/ UNCHANGED vars
  BY <1>7, StutterInSync DEF Terminated
<1>8. ASSUME NEW f \in Files,
             \/ Edit(f) \/ Remove(f)
             \/ Read(f) \/ Write(f) \/ WriteRefused(f) \/ WriteFails(f)
             \/ Gone(f) \/ ReadEndsUpload(f) \/ Delete(f)
      PROVE  SyncInv' /\ NothingToSend
  <2>1. CASE ReadEndsUpload(f)
    BY <2>1, AbortInSync DEF ReadEndsUpload
  <2> QED
    BY <1>8, <2>1, OwnerInSync, ReadInSync, WriteInSync, GoneInSync, DeleteInSync
<1> QED
  BY <1>1, <1>2, <1>3, <1>4, <1>5, <1>6, <1>7, <1>8 DEF Next

(* What a run has done of its work, at every point of it, and what it has   *)
(* left when it ends.                                                       *)
THEOREM SyncInvAlways == Spec => []SyncInv
<1>1. DeleteInv' => ItemsOK'
  BY DEF DeleteInv
<1>2. SyncInv /\ ItemsOK' /\ [Next]_vars => SyncInv'
  BY StepInSync
<1> QED
  BY InitInSync, DeleteInvAlways, <1>1, <1>2, PTL DEF Spec

(* After a sync that ended well and during which the source did not change, *)
(* every file of it is at the destination with its length, and with md5 or  *)
(* always in its present version, whatever was there before and whatever    *)
(* earlier runs failed to do; but for blobs that may not be overwritten.    *)
THEOREM InSyncAfterRunAlways == Spec => []InSyncAfterRun
<1>1. SyncInv => InSyncAfterRun
  BY DEF SyncInv, ResultOK, AllGood, Good, Serves, InSyncAfterRun
<1> QED
  BY SyncInvAlways, <1>1, PTL

(* A second sync by the same method of a source that has not changed sends  *)
(* nothing again, however the clocks of the two sides count.                *)
THEOREM RerunIsNoopAlways == Spec => RerunIsNoop
<1>1. DeleteInv' => ItemsOK'
  BY DEF DeleteInv
<1>2. SyncInv /\ ItemsOK' /\ [Next]_vars =>
        [(pc = "diff" /\ pc' = "transfer" /\ synced = args.method /\ args.method # "always")
           => todo' \subseteq refused]_vars
  BY StepInSync DEF NothingToSend
<1> QED
  BY SyncInvAlways, DeleteInvAlways, <1>1, <1>2, PTL DEF Spec, RerunIsNoop
==============================================================================
