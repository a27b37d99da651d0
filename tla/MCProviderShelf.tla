-------------------------- MODULE MCProviderShelf --------------------------
(* A card that loses its power twice; one whose files cannot be created or  *)
(* written, one that refuses renames and one that refuses removals, each    *)
(* with a cut; one whose files cannot be read; and a user who comes back.    *)
EXTENDS ProviderShelf

Cards == {[faults |-> {}, cuts |-> 2], [faults |-> {"open", "write"}, cuts |-> 1],
          [faults |-> {"rename"}, cuts |-> 1], [faults |-> {"remove"}, cuts |-> 1],
          [faults |-> {"read"}, cuts |-> 0], [faults |-> {"reenter"}, cuts |-> 0]}
=============================================================================
