------------------------------ MODULE HashTable ------------------------------
(***************************************************************************)
(* src/vm/table.c: the open-addressing hash table behind the globals, the  *)
(* string interner and every nyx map, one loop iteration per step.  Slots  *)
(* are probed linearly from the key's hash; a deleted entry leaves a       *)
(* tombstone that keeps probe paths intact and still counts against the    *)
(* load factor.  Growing the table allocates, and an allocation may run    *)
(* the collector, which sweeps this same table when it is the interner:    *)
(* tableRemoveWhiteKeys then runs inside tableSet.                         *)
(***************************************************************************)
EXTENDS Naturals, Integers, FiniteSets

CONSTANTS
    Keys,          \* interned strings, compared by pointer
    Vals,          \* the values of entries; contains Nil and True
    Nil, True,     \* NIL_VAL and BOOL_VAL(true), which mark free slots and tombstones
    Null,          \* the NULL key
    NoOp,          \* no call in progress
    NoResult,      \* no call has returned yet
    Hash,          \* the hash of each key
    MinCapacity,   \* the capacity of the first allocation (8 in GROW_CAPACITY)
    MaxCapacity    \* bound on the growth explored; the code has none

ASSUME KeysAssumption == Null \notin Keys
ASSUME ValsAssumption == Nil \in Vals /\ True \in Vals /\ Nil # True
ASSUME HashAssumption == Hash \in [Keys -> Nat]
ASSUME CapacityAssumption ==
    MinCapacity \in Nat /\ MinCapacity >= 2 /\ MaxCapacity \in Nat
ASSUME OpAssumption == NoOp \notin [kind : {"get", "set", "delete", "find"}, key : Keys, val : Vals]
ASSUME ResultAssumption == NoResult \notin [ok : BOOLEAN, val : Vals]

VARIABLES
    entries,       \* table->entries, indexed from 0
    capacity,      \* table->capacity
    count,         \* table->count: live entries and tombstones
    op,            \* the call in progress and its arguments
    pc,            \* where the call is
    scan,          \* the locals of findEntry: key, steps taken, first tombstone
    fresh,         \* the array adjustCapacity is filling, empty otherwise
    i,             \* loop index of adjustCapacity or tableRemoveWhiteKeys
    white,         \* the keys the collector in progress has not marked
    result         \* what the last call returned

tableVars == <<entries, capacity, count>>
loopVars  == <<fresh, i>>
vars == <<entries, capacity, count, op, pc, scan, fresh, i, white, result>>

Kinds == {"get", "set", "delete", "find"}
Calls == [kind : Kinds, key : Keys, val : Vals]
Hit(v)  == [ok |-> TRUE, val |-> v]
Miss(v) == [ok |-> FALSE, val |-> v]

Slots == [key : Keys \cup {Null}, val : Vals]
Empty == [key |-> Null, val |-> Nil]
Tombstone == [key |-> Null, val |-> True]

EmptyArray(c) == [j \in 0..(c - 1) |-> Empty]

(* Mutant: TABLE_MAX_LOAD is 1. *)
MaxLoadFull(c) == c

(* (int)((double)capacity * TABLE_MAX_LOAD), TABLE_MAX_LOAD being 0.75 *)
MaxLoad(c) == (c * 3) \div 4

GrowCapacity(c) == IF c < MinCapacity THEN MinCapacity ELSE c * 2

(* The slot findEntry looks at after d steps. *)
Pos(k, d, c) == (Hash[k] + d) % c

NoSlot == -1
NoScan == [key |-> Null, dist |-> 0, tomb |-> NoSlot]
ScanFor(k) == [key |-> k, dist |-> 0, tomb |-> NoSlot]

-----------------------------------------------------------------------------

Init ==
    /\ capacity = 0 /\ entries = EmptyArray(0) /\ count = 0
    /\ op = NoOp /\ pc = "idle" /\ scan = NoScan
    /\ fresh = EmptyArray(0) /\ i = 0
    /\ white = {} /\ result = NoResult

-----------------------------------------------------------------------------
(* findEntry, on the array the caller probes. *)

Probing == pc \in {"probe", "rehashProbe", "sweepProbe"}
ProbedCapacity == IF pc = "rehashProbe" THEN GrowCapacity(capacity) ELSE capacity
Probed == IF pc = "rehashProbe" THEN fresh ELSE entries

Here == Pos(scan.key, scan.dist, ProbedCapacity)

ProbeEnds == Probed[Here].key = scan.key \/ Probed[Here] = Empty

(* Mutant: a tombstone on the way wins over the key itself. *)
FoundTombstone == IF scan.tomb # NoSlot THEN scan.tomb ELSE Here

(* The slot findEntry returns once ProbeEnds. *)
Found ==
    IF Probed[Here].key # scan.key /\ scan.tomb # NoSlot THEN scan.tomb ELSE Here

(* Mutant: the index is not advanced past a tombstone. *)
ProbeStepInPlace ==
    /\ Probing /\ ~ProbeEnds
    /\ scan' = IF Probed[Here].key = Null THEN [scan EXCEPT !.tomb = Here]
               ELSE [scan EXCEPT !.dist = @ + 1]
    /\ UNCHANGED <<tableVars, op, pc, loopVars, white, result>>

(* The loop goes on: remember the first tombstone, look at the next slot. *)
ProbeStep ==
    /\ Probing /\ ~ProbeEnds
    /\ scan' = [key  |-> scan.key,
                dist |-> scan.dist + 1,
                tomb |-> IF scan.tomb = NoSlot /\ Probed[Here].key = Null
                         THEN Here ELSE scan.tomb]
    /\ UNCHANGED <<tableVars, op, pc, loopVars, white, result>>

-----------------------------------------------------------------------------
(* The calls. *)

Call(c) ==
    /\ pc = "idle"
    /\ c.kind = "set" => GrowCapacity(capacity) <= MaxCapacity \/ count + 1 <= MaxLoad(capacity)
    /\ op' = c /\ pc' = "enter" /\ result' = NoResult
    /\ UNCHANGED <<tableVars, scan, loopVars, white>>

Return(r) == op' = NoOp /\ pc' = "idle" /\ scan' = NoScan /\ result' = r

(* tableGet, tableDelete and tableFindString answer at once on count == 0. *)
ReturnEarly ==
    /\ pc = "enter" /\ op.kind # "set" /\ count = 0
    /\ Return(Miss(op.val))
    /\ UNCHANGED <<tableVars, loopVars, white>>

(* The load check of tableSet fails: adjustCapacity is called. *)
EnterGrow ==
    /\ pc = "enter" /\ op.kind = "set" /\ count + 1 > MaxLoad(capacity)
    /\ pc' = "grow"
    /\ UNCHANGED <<tableVars, op, scan, loopVars, white, result>>

EnterProbe ==
    /\ pc = "enter"
    /\ IF op.kind = "set" THEN count + 1 <= MaxLoad(capacity) ELSE count # 0
    /\ pc' = "probe" /\ scan' = ScanFor(op.key)
    /\ UNCHANGED <<tableVars, op, loopVars, white, result>>

ProbeDone(kind) == pc = "probe" /\ op.kind = kind /\ ProbeEnds

GetDone ==
    /\ ProbeDone("get")
    /\ Return(IF entries[Found].key = Null THEN Miss(op.val) ELSE Hit(entries[Found].val))
    /\ UNCHANGED <<tableVars, loopVars, white>>

(* tableFindString has no tombstone variable: it stops on the key or on an *)
(* empty slot.                                                             *)
FindDone ==
    /\ ProbeDone("find")
    /\ Return(IF entries[Here].key = op.key THEN Hit(op.val) ELSE Miss(op.val))
    /\ UNCHANGED <<tableVars, loopVars, white>>

(* Mutant: a tombstone that is used again is counted again. *)
SetDoneRecounts ==
    /\ ProbeDone("set")
    /\ count' = IF entries[Found].key = Null THEN count + 1 ELSE count
    /\ entries' = [entries EXCEPT ![Found] = [key |-> op.key, val |-> op.val]]
    /\ Return(IF entries[Found].key = Null THEN Hit(op.val) ELSE Miss(op.val))
    /\ UNCHANGED <<capacity, loopVars, white>>

SetDone ==
    /\ ProbeDone("set")
    /\ count' = IF entries[Found] = Empty THEN count + 1 ELSE count
    /\ entries' = [entries EXCEPT ![Found] = [key |-> op.key, val |-> op.val]]
    /\ Return(IF entries[Found].key = Null THEN Hit(op.val) ELSE Miss(op.val))
    /\ UNCHANGED <<capacity, loopVars, white>>

(* Mutant: a delete blanks the slot. *)
DeleteDoneBlank ==
    /\ ProbeDone("delete")
    /\ entries' = IF entries[Found].key = Null THEN entries
                  ELSE [entries EXCEPT ![Found] = Empty]
    /\ Return(IF entries[Found].key = Null THEN Miss(op.val) ELSE Hit(op.val))
    /\ UNCHANGED <<capacity, count, loopVars, white>>

(* Mutant: a delete takes its tombstone off the count. *)
DeleteDoneUncounts ==
    /\ ProbeDone("delete")
    /\ entries' = IF entries[Found].key = Null THEN entries
                  ELSE [entries EXCEPT ![Found] = Tombstone]
    /\ count' = IF entries[Found].key = Null THEN count ELSE count - 1
    /\ Return(IF entries[Found].key = Null THEN Miss(op.val) ELSE Hit(op.val))
    /\ UNCHANGED <<capacity, loopVars, white>>

DeleteDone ==
    /\ ProbeDone("delete")
    /\ entries' = IF entries[Found].key = Null THEN entries
                  ELSE [entries EXCEPT ![Found] = Tombstone]
    /\ Return(IF entries[Found].key = Null THEN Miss(op.val) ELSE Hit(op.val))
    /\ UNCHANGED <<capacity, count, loopVars, white>>

-----------------------------------------------------------------------------
(* adjustCapacity *)

(* Mutant: the new array has the size of the old one. *)
AllocateSameSize ==
    /\ pc \in {"grow", "swept"}
    /\ fresh' = EmptyArray(capacity)
    /\ i' = 0 /\ count' = 0 /\ pc' = "rehash"
    /\ UNCHANGED <<entries, capacity, op, scan, white, result>>

(* The array is allocated and cleared, and the count starts again. *)
Allocate ==
    /\ pc \in {"grow", "swept"}
    /\ fresh' = EmptyArray(GrowCapacity(capacity))
    /\ i' = 0 /\ count' = 0 /\ pc' = "rehash"
    /\ UNCHANGED <<entries, capacity, op, scan, white, result>>

RehashSkip ==
    /\ pc = "rehash" /\ i < capacity /\ entries[i].key = Null
    /\ i' = i + 1
    /\ UNCHANGED <<tableVars, op, pc, scan, fresh, white, result>>

RehashProbe ==
    /\ pc = "rehash" /\ i < capacity /\ entries[i].key # Null
    /\ pc' = "rehashProbe" /\ scan' = ScanFor(entries[i].key)
    /\ UNCHANGED <<tableVars, op, loopVars, white, result>>

RehashStore ==
    /\ pc = "rehashProbe" /\ ProbeEnds
    /\ fresh' = [fresh EXCEPT ![Found] = entries[i]]
    /\ count' = count + 1 /\ i' = i + 1
    /\ pc' = "rehash" /\ scan' = NoScan
    /\ UNCHANGED <<entries, capacity, op, white, result>>

(* The new array replaces the old one and tableSet looks for its slot. *)
RehashDone ==
    /\ pc = "rehash" /\ i = capacity
    /\ entries' = fresh /\ capacity' = GrowCapacity(capacity)
    /\ fresh' = EmptyArray(0) /\ i' = 0
    /\ pc' = "probe" /\ scan' = ScanFor(op.key)
    /\ UNCHANGED <<count, op, white, result>>

-----------------------------------------------------------------------------
(* tableRemoveWhiteKeys, called by collectGarbage: between two calls, or in *)
(* the middle of a tableSet that is allocating its new array.               *)

Sweep(W) ==
    /\ pc \in {"idle", "grow"} /\ white = {} /\ W # {}
    /\ pc = "grow" => op.key \notin W
    /\ white' = W /\ i' = 0 /\ pc' = "sweep"
    /\ UNCHANGED <<tableVars, op, scan, fresh, result>>

White(s) == s.key # Null /\ s.key \in white

(* tableDelete returns at once on count == 0. *)
SweepSkip ==
    /\ pc = "sweep" /\ i < capacity /\ ~(White(entries[i]) /\ count # 0)
    /\ i' = i + 1
    /\ UNCHANGED <<tableVars, op, pc, scan, fresh, white, result>>

SweepProbe ==
    /\ pc = "sweep" /\ i < capacity /\ White(entries[i]) /\ count # 0
    /\ pc' = "sweepProbe" /\ scan' = ScanFor(entries[i].key)
    /\ UNCHANGED <<tableVars, op, loopVars, white, result>>

SweepDelete ==
    /\ pc = "sweepProbe" /\ ProbeEnds
    /\ entries' = IF entries[Found].key = Null THEN entries
                  ELSE [entries EXCEPT ![Found] = Tombstone]
    /\ i' = i + 1 /\ pc' = "sweep" /\ scan' = NoScan
    /\ UNCHANGED <<capacity, count, op, fresh, white, result>>

(* Back to the caller: to the allocation in progress, if any, which runs the *)
(* collector once at most.                                                   *)
SweepDone ==
    /\ pc = "sweep" /\ i = capacity
    /\ white' = {} /\ i' = 0
    /\ pc' = IF op = NoOp THEN "idle" ELSE "swept"
    /\ UNCHANGED <<tableVars, op, scan, fresh, result>>

-----------------------------------------------------------------------------

Step ==
    \/ ReturnEarly \/ EnterGrow \/ EnterProbe \/ ProbeStep
    \/ GetDone \/ FindDone \/ SetDone \/ DeleteDone
    \/ Allocate \/ RehashSkip \/ RehashProbe \/ RehashStore \/ RehashDone
    \/ SweepSkip \/ SweepProbe \/ SweepDelete \/ SweepDone

Next ==
    \/ \E c \in Calls : Call(c)
    \/ \E W \in SUBSET Keys : Sweep(W)
    \/ Step

Spec == Init /\ [][Next]_vars

(* The loops of table.c run to their end: a call that has a step takes it. *)
Fairness == WF_vars(Step)

FairSpec == Spec /\ Fairness

-----------------------------------------------------------------------------
(* Correctness. *)

Rehashing == pc \in {"rehash", "rehashProbe"}

TypeOK ==
    /\ capacity \in Nat
    /\ entries \in [0..(capacity - 1) -> Slots]
    /\ count \in Nat
    /\ op \in Calls \cup {NoOp}
    /\ pc \in {"idle", "enter", "grow", "swept", "probe", "rehash", "rehashProbe",
               "sweep", "sweepProbe"}
    /\ scan \in [key : Keys \cup {Null}, dist : Nat, tomb : Nat \cup {NoSlot}]
    /\ fresh \in [0..((IF Rehashing THEN GrowCapacity(capacity) ELSE 0) - 1) -> Slots]
    /\ i \in Nat
    /\ white \in SUBSET Keys
    /\ result \in [ok : BOOLEAN, val : Vals] \cup {NoResult}

Occupied(a) == {j \in DOMAIN a : a[j] # Empty}
Live(a) == {j \in DOMAIN a : a[j].key # Null}

(* `count` is the number of slots that are not empty, tombstones included   *)
(* (tableSet counts a slot once, tableDelete and the sweep leave the count, *)
(* adjustCapacity recounts): the load check depends on it.                  *)
CountOK == count = Cardinality(Occupied(IF Rehashing THEN fresh ELSE entries))

(* The load factor bounds live entries plus tombstones, before, during and   *)
(* after a growth, so a table always has an empty slot: findEntry has no     *)
(* other way to stop on a missing key.                                       *)
LoadBounded ==
    /\ capacity > 0 => Cardinality(Occupied(entries)) <= MaxLoad(capacity)
    /\ Rehashing => Cardinality(Occupied(fresh)) < GrowCapacity(capacity)

(* findEntry never walks around the whole array: its unbounded loop stops   *)
(* within one lap, on an array that has slots.                              *)
ProbeWithinLap == Probing => scan.dist < ProbedCapacity

(* The slots findEntry crosses before it reaches the live slot j hold other *)
(* keys or tombstones.                                                      *)
OnProbePath(a, c, j) ==
    \E d \in 0..(c - 1) :
        /\ Pos(a[j].key, d, c) = j
        /\ \A e \in 0..(d - 1) : /\ a[Pos(a[j].key, e, c)] # Empty
                                 /\ a[Pos(a[j].key, e, c)].key # a[j].key

(* Every live entry can be found from its hash, whatever was deleted,       *)
(* overwritten, swept or moved before: no empty slot and no second copy of  *)
(* the key precedes it on its probe path, in the old array and in the new.  *)
Reachable ==
    /\ \A j \in Live(entries) : OnProbePath(entries, capacity, j)
    /\ Rehashing => \A j \in Live(fresh) : OnProbePath(fresh, GrowCapacity(capacity), j)

(* The contents of the table, whatever slots hold them. *)
Contents ==
    [k \in {entries[j].key : j \in Live(entries)} |->
        entries[CHOOSE j \in Live(entries) : entries[j].key = k].val]

Dictionary == INSTANCE Dict WITH map <- Contents

(* Every call returns what a finite map would return and changes the contents *)
(* as the map would, growing leaves them alone, and a sweep drops all the     *)
(* unmarked keys and no other, even in the middle of a tableSet.              *)
ImplementsDict == Dictionary!Spec

(* Every call returns and every sweep ends, the sweep in the middle of a call  *)
(* included: no probe loop, rehash or scan runs for ever.                      *)
CallsReturn == (op # NoOp \/ white # {}) ~> (op = NoOp /\ white = {})
=============================================================================
