------------------------------- MODULE MCCopy -------------------------------
(* Four blobs below the source, one of them filtered out by a pattern; pages *)
(* of two; a bucket of two permits, less than the largest blob needs.  The   *)
(* command lines: two processes and two workers of one process over the     *)
(* container, with and without a limit; two processes of two workers each   *)
(* over a shardlist; and a source that may be one blob: none of that name,  *)
(* or one that stays, grows beyond a block, shrinks, or is replaced, with   *)
(* and without digests.                                                     *)
EXTENDS Copy

Setup(source, recursive, processes, workers, limited, rows) ==
  [source |-> source, recursive |-> recursive, processes |-> processes,
   workers |-> workers, limited |-> limited, rows |-> rows,
   check_md5 |-> FALSE, versions |-> <<>>]
Row(kind, name, size) == [kind |-> kind, entry |-> [name |-> name, size |-> size]]

Listed == <<Row("entry", 1, 0), Row("passed over", 1, 0), Row("entry", 2, 3), Row("entry", 4, 0)>>
TwoProcesses == Setup("prefix", TRUE, 2, 1, FALSE, <<>>)
OneBlobOrMany == Setup("name", TRUE, 1, 2, FALSE, <<>>)

(* One blob, with versions of these lengths.                                 *)
Single(processes, workers, limited, md5, lengths) ==
  [Setup("name", FALSE, processes, workers, limited, <<>>) EXCEPT
     !.check_md5 = md5,
     !.versions = [v \in DOMAIN lengths |-> [length |-> lengths[v], md5 |-> md5]]]

CommandLines ==
  {TwoProcesses, OneBlobOrMany,
   Setup("prefix", TRUE, 1, 2, TRUE, <<>>),
   Setup("name", FALSE, 1, 1, TRUE, <<>>),
   Setup("shardlist", TRUE, 2, 2, FALSE, Listed),
   Setup("shardlist", TRUE, 1, 1, FALSE, <<Row("entry", 1, 0), Row("bad", 2, 0)>>),
   Single(1, 1, TRUE, FALSE, <<5>>),
   Single(1, 2, FALSE, FALSE, <<3, 5>>),
   Single(2, 1, FALSE, TRUE, <<6, 5>>),
   Single(1, 2, FALSE, TRUE, <<4, 2, 0>>)}
Unsteady == {TwoProcesses, OneBlobOrMany}

FourBlobs == {1, 2, 3, 4}
AtFirst == {[b \in FourBlobs |-> IF b = 2 THEN 3 ELSE 0]}
OlderFile == {[p \in 1 .. 7 |-> Hole]}
TwoByTwo == {0, 1} \X {0, 1}
==============================================================================
