------------------------------- MODULE MCUpload -------------------------------
(* "a" has two blocks, "b" is small.  Before: nothing but blocks an earlier *)
(* run left uncommitted; or blobs an earlier run has uploaded, whose block  *)
(* ids are the same; or blobs with a lease.                                 *)
EXTENDS Upload

TwoFiles == {"a", "b"}
BlocksOfEach == [f \in TwoFiles |-> IF f = "a" THEN 2 ELSE 0]
TwoFileCallers == {<<"a", 0>>, <<"a", 1>>, <<"a", 2>>, <<"b", 0>>}

BothCalls ==
  {a \in [api : {"entries", "file"}, files : {{"a", "b"}, {"a"}, {"b"}}, overwrite : BOOLEAN] :
     a.api = "entries" <=> a.files = TwoFiles}

Old(f) ==
  IF f = "a" THEN <<[id |-> 1, unit |-> <<"old", 1>>], [id |-> 2, unit |-> <<"old", 2>>]>>
             ELSE <<[id |-> 0, unit |-> <<"old", 0>>]>>
LeftBehind(f) ==
  IF f = "a" THEN {[id |-> i, unit |-> <<"left", i>>] : i \in {1, 3}} ELSE {}

Container(blobs, uncommitted, leased) ==
  [content |-> [f \in Blobs |-> blobs[f]], staged |-> [f \in Blobs |-> uncommitted[f]],
   refused |-> leased]
NoBlobs == [f \in Blobs |-> Absent]
OldBlobs == [f \in Blobs |-> Old(f)]
NoBlocks == [f \in Blobs |-> {}]
LeftBlocks == [f \in Blobs |-> LeftBehind(f)]
Before ==
  {Container(NoBlobs, LeftBlocks, {}), Container(OldBlobs, NoBlocks, {}),
   Container(OldBlobs, NoBlocks, Blobs)}
==============================================================================
