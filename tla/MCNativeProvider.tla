------------------------- MODULE MCNativeProvider --------------------------
(* A card that fails to rename and loses its power once, one that fails to  *)
(* remove, and one that fails to write.                                     *)
EXTENDS NativeProvider

BadCards == {[faults |-> {"rename"}, cuts |-> 1], [faults |-> {"remove"}, cuts |-> 0],
             [faults |-> {"write"}, cuts |-> 0]}
=============================================================================
