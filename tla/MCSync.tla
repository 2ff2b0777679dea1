-------------------------------- MODULE MCSync --------------------------------
(* One small file and one large, whose versions have the same length, so    *)
(* that the length says nothing.  A second has two ticks.                   *)
EXTENDS Sync

TwoFiles == {"small", "large"}
BothDirections == {"up", "down"}
AllMethods == {"size", "size-and-mtime", "md5", "always"}
==============================================================================
