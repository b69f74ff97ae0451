----------------------------- MODULE MCLogStore -----------------------------
(* Instances of LogStore for TLC: messages of one and of three units in    *)
(* segments of three.                                                      *)
EXTENDS LogStore

CONSTANTS g1

TextSizes == {[att |-> 0, body |-> 1], [att |-> 0, body |-> 3]}
LineSizes == {[att |-> 0, body |-> 1]}
BigSizes  == {[att |-> 0, body |-> 1], [att |-> 3, body |-> 1]}
=============================================================================
