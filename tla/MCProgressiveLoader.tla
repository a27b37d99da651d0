------------------------ MODULE MCProgressiveLoader ------------------------
(* A chapter of one app and the table of contents of another.               *)
EXTENDS ProgressiveLoader

TwoFiles == {[app |-> "a", kind |-> "chapter"], [app |-> "b", kind |-> "toc"]}

EachFault == [faults : {{}}, cuts : {1}] \cup
             [faults : {{"open"}, {"remove"}, {"write"}}, cuts : {0}]
=============================================================================
