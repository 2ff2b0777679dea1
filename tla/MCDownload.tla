----------------------------- MODULE MCDownload -----------------------------
(* Two files.  Blob "a" is larger than a block, its last chunk is short and *)
(* its next version is shorter; "b" is smaller than a block, and its next   *)
(* version is not.  Only "a" was listed with a Content-MD5.                 *)
EXTENDS Download

TwoFiles == {"a", "b"}
TwoVersions == [f \in TwoFiles |-> IF f = "a" THEN <<5, 3>> ELSE <<1, 2>>]
Parts == [f \in TwoFiles |->
            IF f = "a" THEN <<[off |-> 0, len |-> 2], [off |-> 2, len |-> 0],
                              [off |-> 4, len |-> 1]>>
                       ELSE <<[off |-> 0, len |-> 1]>>]
Calls ==
  [api : {"entries"}, direct : BOOLEAN, check_md5 : BOOLEAN, block_size : {2}]
  \cup {[api |-> "entries", direct |-> TRUE, check_md5 |-> FALSE, block_size |-> 3],
        [api |-> "ranges", direct |-> FALSE, check_md5 |-> FALSE, block_size |-> 2]}
==============================================================================
