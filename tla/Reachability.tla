---------------------------- MODULE Reachability ----------------------------
(* Which objects of a heap a set of roots reaches: what the collector of    *)
(* src/memory/gc.c has to keep.                                             *)

(* A set of objects that the references do not leave. *)
Closed(S, refs) == \A o \in S : refs[o] \subseteq S

(* The objects that every closed set holding the roots holds. *)
Reachable(roots, refs) ==
    {o \in DOMAIN refs :
        \A S \in SUBSET DOMAIN refs : roots \subseteq S /\ Closed(S, refs) => o \in S}
=============================================================================
