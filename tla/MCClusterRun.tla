---------------------------- MODULE MCClusterRun ----------------------------
(* Two files: "a" is cut into two shards and may be replaced once in the    *)
(* container, "d/b" is one shard.  All shards are of one length, so         *)
(* compute_shards deals them to the downloading ranks in turn.  The other   *)
(* blobs are no files: the source itself, the directory "d" as a blob of    *)
(* its name and as a marker, and one whose line reads as a comment.  When   *)
(* earlier runs were made, "d" may have been a file.                        *)
EXTENDS ClusterRun

A == <<"a">>
B == <<"d", "b">>
SixBlobs == {A, B, <<"d">>, <<"d", "">>, <<>>, <<"#c">>}
AOrBOrD == {A, B, <<"d">>}
OneComment == {<<"#c">>}
TwoShards == [f \in SixBlobs |-> IF f = A THEN 2 ELSE 1]
ReplacedOnce == [f \in SixBlobs |-> IF f = A THEN 2 ELSE 1]
NeverReplaced == [f \in SixBlobs |-> 1]
Dealt == [needed \in SUBSET SixBlobs |->
            [s \in Shards |-> IF s = <<A, 2>> THEN 1 ELSE 0]]
=============================================================================
