-------------------------------- MODULE Store --------------------------------
(***************************************************************************)
(* What an upload promises to those who read the container while it runs   *)
(* and to the one who called it, whatever fails on the way.  Upload is     *)
(* shown to implement it.                                                  *)
(*                                                                         *)
(* A blob is what it was, what this upload was to write, as a whole, or    *)
(* what someone else has written; without overwriting, this upload writes  *)
(* only where there is nothing; and it counts a blob as uploaded only when *)
(* the new content has been there.                                         *)
(***************************************************************************)
CONSTANTS
  Blobs,
  Absent,         \* the content of a blob that does not exist
  New,            \* what the upload is to write to each blob
  Foreign         \* what others write

VARIABLES
  content,        \* the blobs, as everyone reads them
  before,         \* what they were
  overwrite,      \* may existing blobs be written?
  uploaded        \* the blobs counted as uploaded

vars == <<content, before, overwrite, uploaded>>

Init ==
  /\ content = before
  /\ overwrite \in BOOLEAN
  /\ uploaded = {}

(* Any number of times: an answer may be lost, and the call made again.     *)
Upload(b) ==
  /\ overwrite \/ content[b] = Absent
  /\ content' = [content EXCEPT ![b] = New[b]]
  /\ UNCHANGED <<before, overwrite, uploaded>>

Interfere(b) ==
  /\ content' = [content EXCEPT ![b] = Foreign]
  /\ UNCHANGED <<before, overwrite, uploaded>>

Report(b) ==
  /\ content[b] \in {New[b], Foreign}
  /\ uploaded' = uploaded \cup {b}
  /\ UNCHANGED <<content, before, overwrite>>

Next == \E b \in Blobs : Upload(b) \/ Interfere(b) \/ Report(b)

Spec == Init /\ [][Next]_vars
==============================================================================
