------------------------------ MODULE MarkSweep ------------------------------
(***************************************************************************)
(* src/memory/gc.c: the mark-sweep collector.  The program runs only       *)
(* between collections; a collection marks the roots one by one, traces    *)
(* from the gray stack, drops the unmarked strings from the interner and   *)
(* walks the list of all objects, one object per step.                     *)
(***************************************************************************)
EXTENDS Naturals, SequencesExt, Reachability

CONSTANTS
    Objects,      \* what the allocator can return
    Strings,      \* the objects that are strings: they refer to nothing
    MaxRoots      \* bound: the slots, frames, upvalues and globals in use at once

ASSUME ObjectsAssumption == IsFiniteSet(Objects)
ASSUME StringsAssumption == Strings \subseteq Objects
ASSUME MaxRootsAssumption == MaxRoots \in Nat

VARIABLES
    phase,        \* "idle", "roots", "trace", "intern", "sweep"
    objects,      \* vm.objects, from its head
    refs,         \* what blackenObject would mark from each object
    roots,        \* what markRoots comes to, in its order, an object maybe more than once
    strings,      \* vm.strings, the interner
    marked,       \* the objects with isMarked set
    gray,         \* vm.grayStack
    at            \* how far markRoots, and later sweep, has come

vars == <<phase, objects, refs, roots, strings, marked, gray, at>>

Heap == Range(objects)

(* The objects the program can still get at. *)
Needed == Reachable(Range(roots), refs)

Init ==
    /\ phase = "idle" /\ objects = <<>>
    /\ refs = [o \in Objects |-> {}] /\ roots = <<>> /\ strings = {}
    /\ marked = {} /\ gray = <<>> /\ at = 0

-----------------------------------------------------------------------------
(* The program runs while no collection does. *)

(* Mutant: every object is put in the interner. *)
AllocateInterned(o, R) ==
    /\ phase = "idle" /\ o \notin Heap /\ Len(roots) < MaxRoots
    /\ R \subseteq Needed /\ (o \in Strings => R = {})
    /\ objects' = <<o>> \o objects
    /\ refs' = [refs EXCEPT ![o] = R]
    /\ roots' = Append(roots, o)
    /\ strings' = strings \cup {o}
    /\ UNCHANGED <<phase, marked, gray, at>>

(* allocateObject puts a new object at the head of the list, unmarked, and    *)
(* allocateString interns a string; it refers to what the program has at hand. *)
Allocate(o, R) ==
    /\ phase = "idle" /\ o \notin Heap /\ Len(roots) < MaxRoots
    /\ R \subseteq Needed /\ (o \in Strings => R = {})
    /\ objects' = <<o>> \o objects
    /\ refs' = [refs EXCEPT ![o] = R]
    /\ roots' = Append(roots, o)
    /\ strings' = IF o \in Strings THEN strings \cup {o} ELSE strings
    /\ UNCHANGED <<phase, marked, gray, at>>

(* An element, a captured variable or a table entry of o is overwritten. *)
Write(o, R) ==
    /\ phase = "idle" /\ o \in Needed \ Strings /\ R \subseteq Needed
    /\ refs' = [refs EXCEPT ![o] = R]
    /\ UNCHANGED <<phase, objects, roots, strings, marked, gray, at>>

(* A reachable object is loaded into one more slot. *)
Root(o) ==
    /\ phase = "idle" /\ o \in Needed /\ Len(roots) < MaxRoots
    /\ roots' = Append(roots, o)
    /\ UNCHANGED <<phase, objects, refs, strings, marked, gray, at>>

(* A slot is popped, or a global or a frame given up. *)
Unroot(n) ==
    /\ phase = "idle" /\ n \in DOMAIN roots
    /\ roots' = RemoveAt(roots, n)
    /\ UNCHANGED <<phase, objects, refs, strings, marked, gray, at>>

-----------------------------------------------------------------------------
(* collectGarbage, called from reallocate. *)

(* Mutant: markRoots begins one slot late. *)
CollectSlotLate ==
    /\ phase = "idle" /\ roots # <<>>
    /\ phase' = "roots" /\ at' = 1
    /\ UNCHANGED <<objects, refs, roots, strings, marked, gray>>

Collect ==
    /\ phase = "idle"
    /\ phase' = "roots" /\ at' = 0
    /\ UNCHANGED <<objects, refs, roots, strings, marked, gray>>

(* markObject: an object already marked is left alone, and a new one goes on *)
(* the gray stack once.                                                      *)
MarkRoot ==
    /\ phase = "roots" /\ at < Len(roots)
    /\ marked' = marked \cup {roots[at + 1]}
    /\ gray' = IF roots[at + 1] \in marked THEN gray ELSE Append(gray, roots[at + 1])
    /\ at' = at + 1
    /\ UNCHANGED <<phase, objects, refs, roots, strings>>

RootsDone ==
    /\ phase = "roots" /\ at = Len(roots)
    /\ phase' = "trace"
    /\ UNCHANGED <<objects, refs, roots, strings, marked, gray, at>>

(* The arrangements of a set of objects: the order in which an object's fields *)
(* name them is not modelled.                                                  *)
Orders(S) == Bijection(1..Cardinality(S), S)

(* Takes the top of the gray stack off it and pushes the set new. *)
Repush(new) ==
    \E s \in Orders(new) : gray' = SubSeq(gray, 1, Len(gray) - 1) \o s

(* Mutant: markObject sets the mark and forgets the gray stack. *)
BlackenUnpushed ==
    /\ phase = "trace" /\ gray # <<>>
    /\ marked' = marked \cup refs[gray[Len(gray)]]
    /\ Repush({})
    /\ UNCHANGED <<phase, objects, refs, roots, strings, at>>

(* Mutant: markObject pushes an object without looking at its mark. *)
BlackenTwice ==
    /\ phase = "trace" /\ gray # <<>>
    /\ marked' = marked \cup refs[gray[Len(gray)]]
    /\ Repush(refs[gray[Len(gray)]])
    /\ UNCHANGED <<phase, objects, refs, roots, strings, at>>

(* Mutant: the object that is blackened stays on the gray stack. *)
BlackenKept ==
    /\ phase = "trace" /\ gray # <<>>
    /\ marked' = marked \cup refs[gray[Len(gray)]]
    /\ \E s \in Orders(refs[gray[Len(gray)]] \ marked) : gray' = gray \o s
    /\ UNCHANGED <<phase, objects, refs, roots, strings, at>>

(* traceReferences pops an object, and blackenObject marks what it refers to. *)
Blacken ==
    /\ phase = "trace" /\ gray # <<>>
    /\ marked' = marked \cup refs[gray[Len(gray)]]
    /\ Repush(refs[gray[Len(gray)]] \ marked)
    /\ UNCHANGED <<phase, objects, refs, roots, strings, at>>

TraceDone ==
    /\ phase = "trace" /\ gray = <<>>
    /\ phase' = "intern"
    /\ UNCHANGED <<objects, refs, roots, strings, marked, gray, at>>

(* Mutant: the interner keeps the strings that are about to be freed. *)
InternerUntouched ==
    /\ phase = "intern"
    /\ phase' = "sweep" /\ at' = 0
    /\ UNCHANGED <<objects, refs, roots, strings, marked, gray>>

(* tableRemoveWhiteKeys(&vm.strings), before the strings are freed. *)
RemoveWhiteStrings ==
    /\ phase = "intern"
    /\ strings' = strings \cap marked
    /\ phase' = "sweep" /\ at' = 0
    /\ UNCHANGED <<objects, refs, roots, marked, gray>>

(* Mutant: an object that survives keeps its mark. *)
SweepKeepMarked ==
    /\ phase = "sweep" /\ at < Len(objects) /\ objects[at + 1] \in marked
    /\ at' = at + 1
    /\ UNCHANGED <<phase, objects, refs, roots, strings, marked, gray>>

(* sweep keeps a marked object and clears its mark ... *)
SweepKeep ==
    /\ phase = "sweep" /\ at < Len(objects) /\ objects[at + 1] \in marked
    /\ marked' = marked \ {objects[at + 1]}
    /\ at' = at + 1
    /\ UNCHANGED <<phase, objects, refs, roots, strings, gray>>

(* Mutant: after it frees an object, sweep steps over the next one. *)
SweepFreeAndSkip ==
    /\ phase = "sweep" /\ at < Len(objects) /\ objects[at + 1] \notin marked
    /\ objects' = RemoveAt(objects, at + 1)
    /\ refs' = [refs EXCEPT ![objects[at + 1]] = {}]
    /\ at' = IF at + 1 < Len(objects) THEN at + 1 ELSE at
    /\ UNCHANGED <<phase, roots, strings, marked, gray>>

(* ... and unlinks and frees any other. *)
SweepFree ==
    /\ phase = "sweep" /\ at < Len(objects) /\ objects[at + 1] \notin marked
    /\ objects' = RemoveAt(objects, at + 1)
    /\ refs' = [refs EXCEPT ![objects[at + 1]] = {}]
    /\ UNCHANGED <<phase, roots, strings, marked, gray, at>>

SweepDone ==
    /\ phase = "sweep" /\ at = Len(objects)
    /\ phase' = "idle" /\ at' = 0
    /\ UNCHANGED <<objects, refs, roots, strings, marked, gray>>

-----------------------------------------------------------------------------

Collector ==
    \/ MarkRoot \/ RootsDone
    \/ Blacken \/ TraceDone
    \/ RemoveWhiteStrings
    \/ SweepKeep \/ SweepFree \/ SweepDone

Program ==
    \/ \E o \in Objects, R \in SUBSET Objects : Allocate(o, R) \/ Write(o, R)
    \/ \E o \in Objects : Root(o)
    \/ \E n \in 1..MaxRoots : Unroot(n)

Next == Program \/ Collect \/ Collector

Spec == Init /\ [][Next]_vars

(* collectGarbage is a plain call: once entered, it runs on to its return. *)
FairSpec == Spec /\ WF_vars(Collector)

-----------------------------------------------------------------------------
(* Correctness. *)

(* The one type invariant.  Only strings are in the interner. *)
TypeOK ==
    /\ phase \in {"idle", "roots", "trace", "intern", "sweep"}
    /\ objects \in Seq(Objects)
    /\ refs \in [Objects -> SUBSET Objects]
    /\ roots \in Seq(Objects) /\ strings \subseteq Strings
    /\ marked \subseteq Objects /\ gray \in Seq(Objects)
    /\ at \in Nat

(* Nothing the program can reach is ever freed, at any step of a collection. *)
NothingNeededFreed == Needed \subseteq Heap

(* An object that is marked and no longer gray has only marked references: *)
(* the trace of gc.c:119-124 cannot miss what it reaches.                  *)
TriColour ==
    phase \in {"roots", "trace"} =>
        \A o \in marked \ Range(gray) : refs[o] \subseteq marked

(* An object enters the gray stack once per collection, so the stack never *)
(* holds more than the objects of the heap (gc.c:147-166).                 *)
GrayOnce == IsInjective(gray) /\ Range(gray) \subseteq marked

(* Between collections no mark is left: a stale mark would make the next   *)
(* markObject skip the object and all that only it refers to.              *)
MarksCleared == phase = "idle" => marked = {}

(* The interner never holds a string that has been freed (gc.c:179-180). *)
InternerLive == strings \subseteq Heap

(* A collection that ends has freed everything the program cannot reach. *)
GarbageFreed == [][phase = "sweep" /\ phase' = "idle" => Heap' = Needed']_vars

(* Every collection ends: markRoots, the trace and the sweep are finite. *)
CollectionEnds == phase # "idle" ~> phase = "idle"
=============================================================================
