-------------------------------- MODULE Dict --------------------------------
(***************************************************************************)
(* What a nyx `Table` (include/nyx/table.h) promises to its callers: a     *)
(* finite map from interned strings to values, with at most one call in    *)
(* progress, from which the garbage collector may drop the keys it did not *)
(* mark.  HashTable implements it.                                         *)
(***************************************************************************)
EXTENDS FiniteSets

CONSTANTS
    Keys,        \* interned strings, compared by identity
    Vals,        \* nyx values; nil and true are ordinary members
    NoOp,        \* no call in progress
    NoResult     \* no call has returned yet

VARIABLES
    map,         \* the contents: a function whose domain is a subset of Keys
    op,          \* the call in progress, or NoOp
    white,       \* the unmarked keys the sweep in progress has to drop
    result       \* what the last call returned

vars == <<map, op, white, result>>

Kinds == {"get", "set", "delete", "find"}

Calls == [kind : Kinds, key : Keys, val : Vals]

Hit(v)  == [ok |-> TRUE, val |-> v]
Miss(v) == [ok |-> FALSE, val |-> v]

Init ==
    /\ map = [k \in {} |-> NoResult]
    /\ op = NoOp
    /\ white = {}
    /\ result = NoResult

Call(c) ==
    /\ op = NoOp /\ white = {}
    /\ op' = c
    /\ result' = NoResult
    /\ UNCHANGED <<map, white>>

Return(r) == white = {} /\ op' = NoOp /\ result' = r /\ UNCHANGED white

(* tableGet: the value of the key, if it is there. *)
Get ==
    /\ op # NoOp /\ op.kind = "get"
    /\ Return(IF op.key \in DOMAIN map THEN Hit(map[op.key]) ELSE Miss(op.val))
    /\ UNCHANGED map

(* tableFindString: whether the string is interned. *)
Find ==
    /\ op # NoOp /\ op.kind = "find"
    /\ Return(IF op.key \in DOMAIN map THEN Hit(op.val) ELSE Miss(op.val))
    /\ UNCHANGED map

(* tableSet: bind the key, and tell whether it is new. *)
Set ==
    /\ op # NoOp /\ op.kind = "set"
    /\ Return(IF op.key \in DOMAIN map THEN Miss(op.val) ELSE Hit(op.val))
    /\ map' = [k \in DOMAIN map \cup {op.key} |-> IF k = op.key THEN op.val ELSE map[k]]

(* tableDelete: unbind the key, and tell whether it was bound. *)
Delete ==
    /\ op # NoOp /\ op.kind = "delete"
    /\ Return(IF op.key \in DOMAIN map THEN Hit(op.val) ELSE Miss(op.val))
    /\ map' = [k \in DOMAIN map \ {op.key} |-> map[k]]

(* The collector starts a sweep with a set of unmarked keys.  The key of a *)
(* call in progress is reachable, hence marked.                            *)
Sweep(W) ==
    /\ white = {} /\ W # {}
    /\ op # NoOp => op.key \notin W
    /\ white' = W
    /\ UNCHANGED <<map, op, result>>

(* One unmarked key is dropped. *)
Drop(k) ==
    /\ k \in white \cap DOMAIN map
    /\ map' = [j \in DOMAIN map \ {k} |-> map[j]]
    /\ UNCHANGED <<op, white, result>>

(* The sweep ends only when no unmarked key is left. *)
Swept ==
    /\ white # {} /\ white \cap DOMAIN map = {}
    /\ white' = {}
    /\ UNCHANGED <<map, op, result>>

Next ==
    \/ \E c \in Calls : Call(c)
    \/ Get \/ Find \/ Set \/ Delete
    \/ \E W \in SUBSET Keys : Sweep(W)
    \/ \E k \in Keys : Drop(k)
    \/ Swept

Spec == Init /\ [][Next]_vars
=============================================================================
