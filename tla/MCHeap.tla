------------------------------- MODULE MCHeap -------------------------------
(* Instances of Heap for TLC.  Objects and contents are interchangeable.     *)
EXTENDS Heap

Symmetry == Permutations(Objects) \cup Permutations(Contents)

(* A program that is running, a session that compiles, and the start. *)
MCPrograms ==
    {[room |-> 3, operations |->
        {"load", "global", "index", "error", "copy", "concatenate", "array", "map", "keys",
         "push", "split", "closure", "indexString", "indexMap"}],
     [room |-> 4, operations |-> {"compile", "error"}],
     [room |-> 3, operations |-> {"native", "load", "global", "copy"}]}

(* Strings and OP_GET_INDEX on them, maps and OP_SET_INDEX on them. *)
MCIndexing == {[room |-> 3, operations |-> {"load", "copy", "indexString"}],
               [room |-> 3, operations |-> {"load", "copy", "map", "indexMap"}]}
=============================================================================
