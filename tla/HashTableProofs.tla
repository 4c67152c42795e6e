--------------------------- MODULE HashTableProofs ---------------------------
(***************************************************************************)
(* The hash table of src/vm/table.c keeps its count, always has an empty   *)
(* slot to stop a probe, never loses an entry and implements a finite map, *)
(* for every set of keys, every hash function, every first capacity and    *)
(* any amount of growth.                                                   *)
(***************************************************************************)
EXTENDS HashTable, FiniteSetTheorems, TLAPS

-----------------------------------------------------------------------------
(* Arithmetic of the probe sequence. *)

(* A probe position is a slot of the array. *)
LEMMA PosType ==
    ASSUME NEW k \in Keys, NEW d \in Nat, NEW c \in Nat \ {0}
    PROVE  Pos(k, d, c) \in 0..(c - 1)
<1>1. Hash[k] \in Nat BY HashAssumption
<1> QED BY <1>1 DEF Pos

(* The remainder of a number written as a multiple and a rest. *)
LEMMA RestOfMultiple ==
    ASSUME NEW q \in Nat, NEW c \in Nat \ {0}, NEW j \in 0..(c - 1)
    PROVE  (q * c + j) % c = j
OBVIOUS

(* One lap of the probe sequence visits every slot. *)
LEMMA PosOnto ==
    ASSUME NEW k \in Keys, NEW c \in Nat \ {0}, NEW j \in 0..(c - 1)
    PROVE  \E d \in 0..(c - 1) : Pos(k, d, c) = j
<1> DEFINE h == Hash[k]
           r == h % c
           q == h \div c
<1>1. h \in Nat BY HashAssumption
<1>2. r \in 0..(c - 1) /\ q \in Nat /\ h = q * c + r BY <1>1
<1>3. CASE j >= r
  <2>1. j - r \in 0..(c - 1) BY <1>2, <1>3
  <2>2. h + (j - r) = q * c + j BY <1>2
  <2>3. (h + (j - r)) % c = j BY <2>2, <1>2, RestOfMultiple
  <2> QED BY <2>1, <2>3 DEF Pos
<1>4. CASE j < r
  <2>1. j - r + c \in 0..(c - 1) BY <1>2, <1>4
  <2>2. h + (j - r + c) = (q + 1) * c + j BY <1>2
  <2>3. q + 1 \in Nat BY <1>2
  <2>4. ((q + 1) * c + j) % c = j BY <2>3, RestOfMultiple
  <2>5. (h + (j - r + c)) % c = j BY <2>2, <2>4
  <2> QED BY <2>1, <2>5 DEF Pos
<1> QED BY <1>2, <1>3, <1>4

-----------------------------------------------------------------------------
(* Arrays of slots. *)

Arrays(c) == [0..(c - 1) -> Slots]

PathsOK(a, c) == \A j \in Live(a) : OnProbePath(a, c, j)

(* What findEntry knows of the slots it has crossed. *)
Crossed(a, c, k, dist, tomb) ==
    /\ \A e \in 0..(dist - 1) : a[Pos(k, e, c)] # Empty /\ a[Pos(k, e, c)].key # k
    /\ tomb = NoSlot => \A e \in 0..(dist - 1) : a[Pos(k, e, c)].key # Null
    /\ tomb # NoSlot =>
         \E t \in 0..(dist - 1) : /\ tomb = Pos(k, t, c) /\ a[tomb].key = Null
                                  /\ \A e \in 0..(t - 1) : a[Pos(k, e, c)].key # Null

(* An array has finitely many occupied slots. *)
LEMMA OccupiedFinite ==
    ASSUME NEW c \in Nat, NEW a \in Arrays(c)
    PROVE  /\ IsFiniteSet(Occupied(a)) /\ Cardinality(Occupied(a)) \in Nat
           /\ Occupied(a) \subseteq 0..(c - 1)
<1>1. Occupied(a) \subseteq 0..(c - 1) BY DEF Occupied, Arrays
<1>2. IsFiniteSet(0..(c - 1)) BY FS_Interval
<1> QED BY <1>1, <1>2, FS_Subset, FS_CardinalityType

(* A cleared array is empty, and all its probe paths are fine. *)
LEMMA ClearedArray ==
    ASSUME NEW c \in Nat
    PROVE  /\ EmptyArray(c) \in Arrays(c)
           /\ Occupied(EmptyArray(c)) = {} /\ Cardinality(Occupied(EmptyArray(c))) = 0
           /\ Live(EmptyArray(c)) = {}
<1>1. Empty \in Slots BY ValsAssumption DEF Empty, Slots
<1>2. Occupied(EmptyArray(c)) = {} BY DEF Occupied, EmptyArray
<1>3. Live(EmptyArray(c)) = {} BY DEF Live, EmptyArray, Empty
<1> QED BY <1>1, <1>2, <1>3, FS_EmptySet DEF Arrays, EmptyArray

Stored(a, f, s) == [a EXCEPT ![f] = s]

(* Writing a slot that is not made empty adds it to the occupied ones. *)
LEMMA OccupiedStore ==
    ASSUME NEW c \in Nat, NEW a \in Arrays(c), NEW f \in 0..(c - 1),
           NEW s \in Slots, s # Empty
    PROVE  /\ Stored(a, f, s) \in Arrays(c)
           /\ Cardinality(Occupied(Stored(a, f, s))) =
                IF a[f] = Empty THEN Cardinality(Occupied(a)) + 1
                                ELSE Cardinality(Occupied(a))
<1> DEFINE b == Stored(a, f, s)
<1>1. b \in Arrays(c) BY DEF Arrays, Stored
<1>2. Occupied(b) = Occupied(a) \cup {f} BY DEF Occupied, Arrays, Stored
<1>3. CASE a[f] = Empty
  <2>1. f \notin Occupied(a) BY <1>3 DEF Occupied
  <2> QED BY <1>1, <1>2, <1>3, <2>1, OccupiedFinite, FS_AddElement
<1>4. CASE a[f] # Empty
  <2>1. Occupied(b) = Occupied(a) BY <1>2, <1>4 DEF Occupied, Arrays
  <2> QED BY <1>1, <1>4, <2>1
<1> QED BY <1>3, <1>4

(* A lap that crosses no empty slot means the array is full. *)
LEMMA FullLap ==
    ASSUME NEW k \in Keys, NEW c \in Nat \ {0}, NEW a \in Arrays(c),
           \A e \in 0..(c - 1) : a[Pos(k, e, c)] # Empty
    PROVE  Cardinality(Occupied(a)) = c
<1>1. \A j \in 0..(c - 1) : a[j] # Empty BY PosOnto
<1>2. Occupied(a) = 0..(c - 1) BY <1>1 DEF Occupied, Arrays
<1> QED BY <1>2, FS_Interval

(* Two slots never hold the same key. *)
LEMMA UniqueKey ==
    ASSUME NEW c \in Nat, NEW a \in Arrays(c), PathsOK(a, c),
           NEW m \in Live(a), NEW n \in Live(a), a[m].key = a[n].key
    PROVE  m = n
<1>1. PICK d \in 0..(c - 1) :
        Pos(a[m].key, d, c) = m
        /\ \A e \in 0..(d - 1) : a[Pos(a[m].key, e, c)].key # a[m].key
      BY DEF PathsOK, OnProbePath
<1>2. PICK g \in 0..(c - 1) :
        Pos(a[m].key, g, c) = n
        /\ \A e \in 0..(g - 1) : a[Pos(a[m].key, e, c)].key # a[m].key
      BY DEF PathsOK, OnProbePath
<1>3. ~(d < g) BY <1>1, <1>2
<1>4. ~(g < d) BY <1>1, <1>2
<1>5. d = g BY <1>3, <1>4
<1> QED BY <1>1, <1>2, <1>5

(* A probe that stops on an empty slot proves that the key is absent. *)
LEMMA Absent ==
    ASSUME NEW c \in Nat \ {0}, NEW a \in Arrays(c), PathsOK(a, c),
           NEW k \in Keys, NEW dist \in Nat, NEW tomb, Crossed(a, c, k, dist, tomb),
           a[Pos(k, dist, c)] = Empty, NEW j \in Live(a)
    PROVE  a[j].key # k
<1> SUFFICES ASSUME a[j].key = k PROVE FALSE OBVIOUS
<1>1. PICK d \in 0..(c - 1) :
        Pos(k, d, c) = j /\ \A e \in 0..(d - 1) : a[Pos(k, e, c)] # Empty
      BY DEF PathsOK, OnProbePath
<1>2. k # Null BY KeysAssumption
<1>3. d # dist BY <1>1, <1>2 DEF Empty
<1>4. ~(dist < d) BY <1>1
<1>5. ~(d < dist) BY <1>1 DEF Crossed
<1> QED BY <1>3, <1>4, <1>5

(* Turning a slot into a tombstone breaks no probe path. *)
LEMMA DeletePaths ==
    ASSUME NEW c \in Nat, NEW a \in Arrays(c), PathsOK(a, c), NEW f \in 0..(c - 1)
    PROVE  PathsOK([a EXCEPT ![f] = Tombstone], c)
<1> DEFINE b == [a EXCEPT ![f] = Tombstone]
<1> SUFFICES ASSUME NEW j \in Live(b) PROVE OnProbePath(b, c, j) BY DEF PathsOK
<1>1. j \in Live(a) /\ j # f /\ b[j] = a[j] /\ a[j].key # Null
      BY DEF Live, Arrays, Tombstone
<1>2. PICK d \in 0..(c - 1) :
        /\ Pos(a[j].key, d, c) = j
        /\ \A e \in 0..(d - 1) : /\ a[Pos(a[j].key, e, c)] # Empty
                                 /\ a[Pos(a[j].key, e, c)].key # a[j].key
      BY <1>1 DEF PathsOK, OnProbePath
<1>3. Tombstone # Empty /\ Tombstone.key = Null BY ValsAssumption DEF Tombstone, Empty
<1>4. ASSUME NEW e \in 0..(d - 1)
      PROVE  b[Pos(a[j].key, e, c)] # Empty /\ b[Pos(a[j].key, e, c)].key # a[j].key
  <2>1. a[j].key \in Keys BY <1>1 DEF Arrays, Slots, Live
  <2>2. Pos(a[j].key, e, c) \in 0..(c - 1) BY <2>1, PosType
  <2> QED BY <1>1, <1>2, <1>3, <2>2 DEF Arrays
<1> QED BY <1>1, <1>2, <1>4 DEF OnProbePath

(* Storing an absent key, or overwriting a present one, in the slot its probe *)
(* found breaks no probe path.                                                *)
LEMMA StorePaths ==
    ASSUME NEW c \in Nat \ {0}, NEW a \in Arrays(c), PathsOK(a, c),
           NEW k \in Keys, NEW v \in Vals, NEW d \in 0..(c - 1),
           a[Pos(k, d, c)].key \in {k, Null},
           \A e \in 0..(d - 1) : /\ a[Pos(k, e, c)] # Empty /\ a[Pos(k, e, c)].key # k
                                 /\ Pos(k, e, c) # Pos(k, d, c),
           \A j \in Live(a) : a[j].key = k => j = Pos(k, d, c)
    PROVE  PathsOK([a EXCEPT ![Pos(k, d, c)] = [key |-> k, val |-> v]], c)
<1> DEFINE f == Pos(k, d, c)
           b == [a EXCEPT ![f] = [key |-> k, val |-> v]]
<1>1. f \in 0..(c - 1) BY PosType
<1>2. k # Null BY KeysAssumption
<1> HIDE DEF f
<1>3. b[f] = [key |-> k, val |-> v] /\ DOMAIN b = 0..(c - 1)
      /\ \A j \in 0..(c - 1) : j # f => b[j] = a[j]
      BY <1>1 DEF Arrays
<1> SUFFICES ASSUME NEW j \in Live(b) PROVE OnProbePath(b, c, j) BY DEF PathsOK, f
<1>4. CASE j = f
  <2>1. b[j].key = k BY <1>3, <1>4
  <2>2. ASSUME NEW e \in 0..(d - 1)
        PROVE  b[Pos(k, e, c)] # Empty /\ b[Pos(k, e, c)].key # k
    <3>1. Pos(k, e, c) \in 0..(c - 1) BY PosType
    <3> QED BY <3>1, <1>3 DEF f
  <2>3. Pos(k, d, c) = j BY <1>4 DEF f
  <2> QED BY <2>1, <2>2, <2>3 DEF OnProbePath
<1>5. CASE j # f
  <2>1. j \in Live(a) /\ b[j] = a[j] /\ a[j].key # Null BY <1>3, <1>5 DEF Live, Arrays
  <2>2. a[j].key # k BY <2>1, <1>5 DEF f
  <2>3. PICK g \in 0..(c - 1) :
          /\ Pos(a[j].key, g, c) = j
          /\ \A e \in 0..(g - 1) : /\ a[Pos(a[j].key, e, c)] # Empty
                                   /\ a[Pos(a[j].key, e, c)].key # a[j].key
        BY <2>1 DEF PathsOK, OnProbePath
  <2>4. ASSUME NEW e \in 0..(g - 1)
        PROVE  b[Pos(a[j].key, e, c)] # Empty /\ b[Pos(a[j].key, e, c)].key # a[j].key
    <3>1. a[j].key \in Keys BY <2>1 DEF Arrays, Slots, Live
    <3>2. Pos(a[j].key, e, c) \in 0..(c - 1) BY <3>1, PosType
    <3> QED BY <1>2, <1>3, <2>2, <2>3, <3>2 DEF Empty
  <2> QED BY <2>1, <2>3, <2>4 DEF OnProbePath
<1> QED BY <1>4, <1>5

-----------------------------------------------------------------------------
(* The slot findEntry returns. *)

Returned(a, c, k, dist, tomb) ==
    IF a[Pos(k, dist, c)].key # k /\ tomb # NoSlot THEN tomb ELSE Pos(k, dist, c)

(* findEntry returns the key's slot, or a free slot when the key is absent;  *)
(* storing the key there, or a tombstone, keeps every probe path.            *)
LEMMA FindEntryOK ==
    ASSUME NEW c \in Nat \ {0}, NEW a \in Arrays(c), PathsOK(a, c),
           NEW k \in Keys, NEW dist \in 0..(c - 1), NEW tomb,
           Crossed(a, c, k, dist, tomb),
           a[Pos(k, dist, c)].key = k \/ a[Pos(k, dist, c)] = Empty
    PROVE  LET f == Returned(a, c, k, dist, tomb)
           IN  /\ f \in 0..(c - 1)
               /\ a[f].key \in {k, Null}
               /\ a[f].key = Null => \A j \in Live(a) : a[j].key # k
               /\ \A v \in Vals : PathsOK([a EXCEPT ![f] = [key |-> k, val |-> v]], c)
<1> DEFINE f == Returned(a, c, k, dist, tomb)
           here == Pos(k, dist, c)
<1>0. k # Null /\ Empty.key = Null BY KeysAssumption DEF Empty
<1>1. here \in 0..(c - 1) BY PosType
<1>2. CASE a[here].key = k
  <2>1. f = here BY <1>2 DEF Returned
  <2>2. here \in Live(a) BY <1>0, <1>1, <1>2 DEF Live, Arrays
  <2>3. \A j \in Live(a) : a[j].key = k => j = here BY <1>2, <2>2, UniqueKey
  <2>4. \A e \in 0..(dist - 1) : /\ a[Pos(k, e, c)] # Empty /\ a[Pos(k, e, c)].key # k
                                 /\ Pos(k, e, c) # here
        BY <1>2 DEF Crossed
  <2>5. \A v \in Vals : PathsOK([a EXCEPT ![here] = [key |-> k, val |-> v]], c)
        BY <1>2, <2>3, <2>4, StorePaths
  <2> QED BY <1>0, <1>1, <1>2, <2>1, <2>5
<1>3. CASE a[here] = Empty /\ tomb = NoSlot
  <2>1. f = here BY <1>3 DEF Returned
  <2>2. \A j \in Live(a) : a[j].key # k BY <1>3, Absent
  <2>3. \A e \in 0..(dist - 1) : /\ a[Pos(k, e, c)] # Empty /\ a[Pos(k, e, c)].key # k
                                 /\ Pos(k, e, c) # here
        BY <1>3 DEF Crossed
  <2>4. \A v \in Vals : PathsOK([a EXCEPT ![here] = [key |-> k, val |-> v]], c)
        BY <1>0, <1>3, <2>2, <2>3, StorePaths
  <2> QED BY <1>0, <1>1, <1>3, <2>1, <2>2, <2>4
<1>4. CASE a[here] = Empty /\ tomb # NoSlot
  <2>1. f = tomb BY <1>0, <1>4 DEF Returned
  <2>2. \A j \in Live(a) : a[j].key # k BY <1>4, Absent
  <2>3. PICK t \in 0..(dist - 1) : /\ tomb = Pos(k, t, c) /\ a[tomb].key = Null
                                   /\ \A e \in 0..(t - 1) : a[Pos(k, e, c)].key # Null
        BY <1>4 DEF Crossed
  <2>4. t \in 0..(c - 1) /\ tomb \in 0..(c - 1) BY <2>3, PosType
  <2>5. \A e \in 0..(t - 1) : /\ a[Pos(k, e, c)] # Empty /\ a[Pos(k, e, c)].key # k
                              /\ Pos(k, e, c) # tomb
        BY <2>3 DEF Crossed
  <2>6. \A v \in Vals : PathsOK([a EXCEPT ![tomb] = [key |-> k, val |-> v]], c)
        BY <2>2, <2>3, <2>4, <2>5, StorePaths
  <2> QED BY <2>1, <2>2, <2>3, <2>4, <2>6
<1> QED BY <1>2, <1>3, <1>4

(* One more step of the probe: it has crossed one more slot, and it is still *)
(* within its lap because some slot of the array is empty.                   *)
LEMMA ProbeStepOK ==
    ASSUME NEW c \in Nat \ {0}, NEW a \in Arrays(c), Cardinality(Occupied(a)) < c,
           NEW k \in Keys, NEW dist \in 0..(c - 1), NEW tomb \in Nat \cup {NoSlot},
           Crossed(a, c, k, dist, tomb),
           a[Pos(k, dist, c)].key # k, a[Pos(k, dist, c)] # Empty
    PROVE  LET t == IF tomb = NoSlot /\ a[Pos(k, dist, c)].key = Null
                    THEN Pos(k, dist, c) ELSE tomb
           IN  /\ dist + 1 \in 0..(c - 1)
               /\ t \in Nat \cup {NoSlot}
               /\ Crossed(a, c, k, dist + 1, t)
<1> DEFINE here == Pos(k, dist, c)
           t == IF tomb = NoSlot /\ a[here].key = Null THEN here ELSE tomb
<1>1. here \in Nat BY PosType
<1>2. \A e \in 0..((dist + 1) - 1) : a[Pos(k, e, c)] # Empty /\ a[Pos(k, e, c)].key # k
      BY DEF Crossed
<1>3. dist + 1 \in 0..(c - 1)
  <2> SUFFICES ASSUME dist = c - 1 PROVE FALSE OBVIOUS
  <2>1. \A e \in 0..(c - 1) : a[Pos(k, e, c)] # Empty BY <1>2
  <2>2. Cardinality(Occupied(a)) = c BY <2>1, FullLap
  <2> QED BY <2>2
<1>4. t = NoSlot => \A e \in 0..((dist + 1) - 1) : a[Pos(k, e, c)].key # Null
      BY <1>1 DEF Crossed, NoSlot
<1>5. t # NoSlot =>
        \E u \in 0..((dist + 1) - 1) : /\ t = Pos(k, u, c) /\ a[t].key = Null
                                       /\ \A e \in 0..(u - 1) : a[Pos(k, e, c)].key # Null
  <2>1. CASE tomb # NoSlot
    <3>1. PICK u \in 0..(dist - 1) : /\ tomb = Pos(k, u, c) /\ a[tomb].key = Null
                                     /\ \A e \in 0..(u - 1) : a[Pos(k, e, c)].key # Null
          BY <2>1 DEF Crossed
    <3> QED BY <2>1, <3>1
  <2>2. CASE tomb = NoSlot /\ a[here].key = Null
    <3>1. \A e \in 0..(dist - 1) : a[Pos(k, e, c)].key # Null BY <2>2 DEF Crossed
    <3>2. dist \in 0..((dist + 1) - 1) BY DEF NoSlot
    <3> QED BY <2>2, <3>1, <3>2
  <2>3. CASE tomb = NoSlot /\ a[here].key # Null BY <2>3
  <2> QED BY <2>1, <2>2, <2>3
<1>6. t \in Nat \cup {NoSlot} BY <1>1
<1> QED BY <1>2, <1>3, <1>4, <1>5, <1>6 DEF Crossed

(* A probe that starts has crossed nothing. *)
LEMMA ProbeStartOK ==
    ASSUME NEW c \in Nat \ {0}, NEW a, NEW k
    PROVE  Crossed(a, c, k, 0, NoSlot)
BY DEF Crossed

-----------------------------------------------------------------------------
(* The inductive invariant. *)

(* Where the call is determines what its locals hold. *)
Control ==
    /\ pc = "idle" => op = NoOp
    /\ pc \in {"enter", "grow", "swept", "probe", "rehash", "rehashProbe"} => op \in Calls
    /\ pc \in {"grow", "swept", "rehash", "rehashProbe"} => op.kind = "set"
    /\ pc \in {"sweep", "sweepProbe"} /\ op # NoOp => op.kind = "set"
    /\ pc \in {"rehash", "sweep"} => i <= capacity
    /\ pc \in {"rehashProbe", "sweepProbe"} =>
         i < capacity /\ entries[i].key # Null /\ scan.key = entries[i].key
    /\ pc = "probe" =>
         /\ capacity # 0 /\ scan.key = op.key
         /\ op.kind = "set" => count + 1 <= MaxLoad(capacity)

(* The new array has no tombstone, and only keys of slots already moved. *)
Moved ==
    Rehashing =>
        /\ count <= i
        /\ \A j \in DOMAIN fresh : fresh[j].key = Null => fresh[j] = Empty
        /\ \A j \in Live(fresh) : \E n \in 0..(capacity - 1) :
                n < i /\ entries[n].key = fresh[j].key

Paths ==
    /\ PathsOK(entries, capacity)
    /\ Rehashing => PathsOK(fresh, GrowCapacity(capacity))

Scanned ==
    Probing =>
        /\ scan.dist < ProbedCapacity
        /\ Crossed(Probed, ProbedCapacity, scan.key, scan.dist, scan.tomb)

Loaded ==
    /\ capacity = 0 \/ capacity >= MinCapacity
    /\ Cardinality(Occupied(entries)) <= MaxLoad(capacity)

IInv == TypeOK /\ CountOK /\ Loaded /\ Control /\ Moved /\ Paths /\ Scanned

(* Growing gives room for more than the old array and one key. *)
LEMMA GrowthRoom ==
    ASSUME capacity \in Nat, capacity = 0 \/ capacity >= MinCapacity
    PROVE  /\ GrowCapacity(capacity) \in Nat \ {0}
           /\ GrowCapacity(capacity) >= MinCapacity
           /\ capacity < GrowCapacity(capacity)
           /\ capacity + 1 <= MaxLoad(GrowCapacity(capacity))
<1>1. CASE capacity = 0 BY <1>1, CapacityAssumption DEF GrowCapacity, MaxLoad
<1>2. CASE capacity >= MinCapacity BY <1>2, CapacityAssumption DEF GrowCapacity, MaxLoad
<1> QED BY <1>1, <1>2

LEMMA LoadRoom ==
    ASSUME NEW c \in Nat
    PROVE  MaxLoad(c) \in Nat /\ MaxLoad(c) <= c /\ (c > 0 => MaxLoad(c) < c)
BY DEF MaxLoad

(* The array a probe runs on has slots, an empty one among them, and sound   *)
(* probe paths.                                                              *)
LEMMA ProbedOK ==
    ASSUME IInv, Probing
    PROVE  /\ ProbedCapacity \in Nat \ {0} /\ Probed \in Arrays(ProbedCapacity)
           /\ Cardinality(Occupied(Probed)) < ProbedCapacity
           /\ PathsOK(Probed, ProbedCapacity)
           /\ scan.key \in Keys /\ scan.dist \in 0..(ProbedCapacity - 1)
           /\ scan.tomb \in Nat \cup {NoSlot}
           /\ Crossed(Probed, ProbedCapacity, scan.key, scan.dist, scan.tomb)
<1>1. CASE pc = "rehashProbe"
  <2>1. Rehashing /\ Probed = fresh /\ ProbedCapacity = GrowCapacity(capacity)
        BY <1>1 DEF Rehashing, Probed, ProbedCapacity
  <2>2. GrowCapacity(capacity) \in Nat \ {0} /\ capacity < GrowCapacity(capacity)
        BY GrowthRoom DEF IInv, TypeOK, Loaded
  <2>3. fresh \in Arrays(GrowCapacity(capacity)) BY <2>1 DEF IInv, TypeOK, Arrays
  <2>4. count = Cardinality(Occupied(fresh)) /\ count <= i /\ i < capacity /\ count \in Nat
        BY <1>1, <2>1 DEF IInv, TypeOK, CountOK, Moved, Control
  <2>5. Cardinality(Occupied(fresh)) < GrowCapacity(capacity)
        BY <2>2, <2>4 DEF IInv, TypeOK
  <2>6. PathsOK(fresh, GrowCapacity(capacity)) BY <2>1 DEF IInv, Paths
  <2>7. scan.key \in Keys
        BY <1>1 DEF IInv, Control, TypeOK, Slots
  <2>8. scan.dist \in 0..(ProbedCapacity - 1) /\ scan.tomb \in Nat \cup {NoSlot}
        /\ Crossed(Probed, ProbedCapacity, scan.key, scan.dist, scan.tomb)
        BY <2>1, <2>2 DEF IInv, Scanned, TypeOK
  <2> QED BY <2>1, <2>2, <2>3, <2>5, <2>6, <2>7, <2>8
<1>2. CASE pc \in {"probe", "sweepProbe"}
  <2>1. ~Rehashing /\ Probed = entries /\ ProbedCapacity = capacity
        BY <1>2 DEF Rehashing, Probed, ProbedCapacity
  <2>2. capacity \in Nat \ {0} BY <1>2 DEF IInv, Control, TypeOK
  <2>3. Cardinality(Occupied(entries)) < capacity
    <3>1. Cardinality(Occupied(entries)) <= MaxLoad(capacity) BY DEF IInv, Loaded
    <3>2. Cardinality(Occupied(entries)) \in Nat BY <2>1 DEF IInv, CountOK, TypeOK
    <3> QED BY <2>2, <3>1, <3>2, LoadRoom
  <2>4. entries \in Arrays(capacity) /\ PathsOK(entries, capacity)
        BY DEF IInv, TypeOK, Paths, Arrays
  <2>5. scan.key \in Keys BY <1>2 DEF IInv, Control, TypeOK, Slots, Calls
  <2>6. scan.dist \in 0..(ProbedCapacity - 1) /\ scan.tomb \in Nat \cup {NoSlot}
        /\ Crossed(Probed, ProbedCapacity, scan.key, scan.dist, scan.tomb)
        BY <2>1, <2>2 DEF IInv, Scanned, TypeOK
  <2> QED BY <2>1, <2>2, <2>3, <2>4, <2>5, <2>6
<1> QED BY <1>1, <1>2 DEF Probing

(* The slot findEntry returns, in the state where the probe ends. *)
LEMMA FoundOK ==
    ASSUME IInv, Probing, ProbeEnds
    PROVE  /\ Found \in 0..(ProbedCapacity - 1)
           /\ Probed[Found].key \in {scan.key, Null}
           /\ Probed[Found].key = Null => \A j \in Live(Probed) : Probed[j].key # scan.key
           /\ \A v \in Vals :
                PathsOK([Probed EXCEPT ![Found] = [key |-> scan.key, val |-> v]],
                        ProbedCapacity)
<1>1. Found = Returned(Probed, ProbedCapacity, scan.key, scan.dist, scan.tomb)
      BY DEF Found, Returned, Here
<1>2. Probed[Pos(scan.key, scan.dist, ProbedCapacity)].key = scan.key
      \/ Probed[Pos(scan.key, scan.dist, ProbedCapacity)] = Empty
      BY DEF ProbeEnds, Here
<1> HIDE DEF IInv, Probing, ProbeEnds
<1> QED BY <1>1, <1>2, ProbedOK, FindEntryOK

LEMMA InitInv == Init => IInv
<1> SUFFICES ASSUME Init PROVE IInv OBVIOUS
<1>1. ~Rehashing /\ ~Probing BY DEF Init, Rehashing, Probing
<1>2. /\ EmptyArray(0) \in Arrays(0) /\ Cardinality(Occupied(EmptyArray(0))) = 0
      /\ Live(EmptyArray(0)) = {}
      BY ClearedArray
<1>3. TypeOK BY <1>1, <1>2 DEF Init, TypeOK, Arrays, NoScan
<1>4. CountOK /\ Loaded /\ Paths
      BY <1>1, <1>2 DEF Init, CountOK, Loaded, Paths, PathsOK, MaxLoad
<1>5. Control /\ Moved /\ Scanned BY <1>1 DEF Init, Control, Moved, Scanned
<1> QED BY <1>3, <1>4, <1>5 DEF IInv

-----------------------------------------------------------------------------
(* Every action preserves the invariant. *)

LEMMA ProbeStepInv == IInv /\ ProbeStep => IInv'
<1> SUFFICES ASSUME IInv, ProbeStep PROVE IInv' OBVIOUS
<1>1. Probing /\ ~ProbeEnds /\ UNCHANGED <<tableVars, op, pc, loopVars, white, result>>
      BY DEF ProbeStep
<1>2. /\ entries' = entries /\ capacity' = capacity /\ count' = count /\ op' = op
      /\ pc' = pc /\ fresh' = fresh /\ i' = i /\ white' = white /\ result' = result
      BY <1>1 DEF tableVars, loopVars
<1>3. /\ scan' = [key |-> scan.key, dist |-> scan'.dist, tomb |-> scan'.tomb]
      /\ scan'.dist = scan.dist + 1
      /\ scan'.tomb = IF scan.tomb = NoSlot /\ Probed[Here].key = Null
                      THEN Here ELSE scan.tomb
      /\ scan'.key = scan.key
      BY DEF ProbeStep, IInv, TypeOK
<1>4. /\ scan'.dist \in 0..(ProbedCapacity - 1) /\ scan'.tomb \in Nat \cup {NoSlot}
      /\ Crossed(Probed, ProbedCapacity, scan.key, scan'.dist, scan'.tomb)
  <2>1. Probed[Here].key # scan.key /\ Probed[Here] # Empty BY <1>1 DEF ProbeEnds
  <2> QED BY <1>1, <1>3, <2>1, ProbedOK, ProbeStepOK DEF Here
<1>5. TypeOK' BY <1>2, <1>3, <1>4 DEF IInv, TypeOK, Rehashing
<1>6. Scanned'
  <2>1. Probed' = Probed /\ ProbedCapacity' = ProbedCapacity
        BY <1>2 DEF Probed, ProbedCapacity
  <2>2. scan'.dist < ProbedCapacity BY <1>1, <1>4, ProbedOK
  <2> QED BY <1>3, <1>4, <2>1, <2>2 DEF Scanned
<1>7. CountOK' /\ Loaded' /\ Moved' /\ Paths'
      BY <1>2 DEF IInv, CountOK, Loaded, Moved, Paths, Rehashing
<1>8. Control' BY <1>2, <1>3 DEF IInv, Control
<1> QED BY <1>5, <1>6, <1>7, <1>8 DEF IInv

(* The table, the arrays and the loop are left alone: only the control moves. *)
LEMMA TableUnchanged ==
    ASSUME IInv, UNCHANGED <<tableVars, fresh>>, Rehashing' <=> Rehashing, i' = i
    PROVE  CountOK' /\ Loaded' /\ Moved' /\ Paths'
BY DEF IInv, CountOK, Loaded, Moved, Paths, Rehashing, tableVars

LEMMA CallInv == ASSUME NEW c \in Calls, IInv, Call(c) PROVE IInv'
<1>1. /\ pc = "idle" /\ pc' = "enter" /\ op' = c /\ result' = NoResult
      /\ UNCHANGED <<tableVars, scan, loopVars, white>>
      BY DEF Call
<1>2. ~Rehashing /\ ~Rehashing' /\ ~Probing' BY <1>1 DEF Rehashing, Probing
<1>3. TypeOK' BY <1>1, <1>2 DEF IInv, TypeOK, tableVars, loopVars
<1>4. CountOK' /\ Loaded' /\ Moved' /\ Paths'
      BY <1>1, <1>2, TableUnchanged DEF loopVars
<1> QED BY <1>1, <1>2, <1>3, <1>4 DEF IInv, Control, Scanned

LEMMA SweepInv == ASSUME NEW W \in SUBSET Keys, IInv, Sweep(W) PROVE IInv'
<1>1. /\ pc \in {"idle", "grow"} /\ pc' = "sweep" /\ i' = 0 /\ white' = W
      /\ UNCHANGED <<tableVars, op, scan, fresh, result>>
      BY DEF Sweep
<1>2. ~Rehashing /\ ~Rehashing' /\ ~Probing' BY <1>1 DEF Rehashing, Probing
<1>3. TypeOK' BY <1>1, <1>2 DEF IInv, TypeOK, tableVars
<1>4. CountOK' /\ Loaded' /\ Moved' /\ Paths'
      BY <1>1, <1>2 DEF IInv, CountOK, Loaded, Moved, Paths, tableVars
<1>5. Control' BY <1>1 DEF IInv, Control, TypeOK, tableVars
<1> QED BY <1>2, <1>3, <1>4, <1>5 DEF IInv, Scanned

LEMMA EnterInv == IInv /\ (ReturnEarly \/ EnterGrow \/ EnterProbe) => IInv'
<1> SUFFICES ASSUME IInv, ReturnEarly \/ EnterGrow \/ EnterProbe PROVE IInv' OBVIOUS
<1>1. pc = "enter" /\ op \in Calls /\ UNCHANGED <<tableVars, loopVars, white>>
      BY DEF ReturnEarly, EnterGrow, EnterProbe, IInv, Control
<1>2. ~Rehashing /\ ~Rehashing'
      BY <1>1 DEF Rehashing, ReturnEarly, EnterGrow, EnterProbe, Return
<1>3. CountOK' /\ Loaded' /\ Moved' /\ Paths'
      BY <1>1, <1>2, TableUnchanged DEF loopVars
<1>4. CASE ReturnEarly
  <2>1. op' = NoOp /\ pc' = "idle" /\ scan' = NoScan /\ result' = Miss(op.val)
        BY <1>4 DEF ReturnEarly, Return
  <2>2. TypeOK'
        BY <1>1, <1>2, <2>1 DEF IInv, TypeOK, tableVars, loopVars, NoScan, Miss, Calls
  <2> QED BY <1>3, <2>1, <2>2 DEF IInv, Control, Scanned, Probing
<1>5. CASE EnterGrow
  <2>1. pc' = "grow" /\ UNCHANGED <<op, scan, result>> BY <1>5 DEF EnterGrow
  <2>2. TypeOK' BY <1>1, <1>2, <2>1 DEF IInv, TypeOK, tableVars, loopVars
  <2> QED BY <1>1, <1>3, <1>5, <2>1, <2>2 DEF IInv, Control, Scanned, Probing, EnterGrow
<1>6. CASE EnterProbe
  <2>1. pc' = "probe" /\ scan' = ScanFor(op.key) /\ UNCHANGED <<op, result>>
        BY <1>6 DEF EnterProbe
  <2>2. TypeOK'
        BY <1>1, <1>2, <2>1 DEF IInv, TypeOK, tableVars, loopVars, ScanFor, Calls
  <2>3. capacity # 0 /\ (op.kind = "set" => count + 1 <= MaxLoad(capacity))
    <3>1. CASE op.kind = "set"
          BY <1>6, <3>1, LoadRoom DEF EnterProbe, IInv, TypeOK
    <3>2. CASE op.kind # "set"
      <4>1. count # 0 BY <1>6, <3>2 DEF EnterProbe
      <4>2. count = Cardinality(Occupied(entries)) BY <1>2 DEF IInv, CountOK
      <4>3. capacity = 0 => Occupied(entries) = {} BY DEF IInv, TypeOK, Occupied
      <4> QED BY <3>2, <4>1, <4>2, <4>3, FS_EmptySet
    <3> QED BY <3>1, <3>2
  <2>4. Control' BY <1>1, <2>1, <2>3 DEF Control, ScanFor, tableVars
  <2>5. Scanned'
    <3>1. Probed' = entries' /\ ProbedCapacity' = capacity
          BY <1>1, <2>1 DEF Probed, ProbedCapacity, tableVars
    <3>2. capacity \in Nat \ {0} BY <2>3 DEF IInv, TypeOK
    <3>3. /\ scan'.dist = 0 /\ scan'.tomb = NoSlot
          BY <2>1 DEF ScanFor
    <3>4. Crossed(entries', capacity, scan'.key, 0, NoSlot) BY <3>2, ProbeStartOK
    <3> QED BY <3>1, <3>2, <3>3, <3>4 DEF Scanned
  <2> QED BY <1>3, <2>2, <2>4, <2>5 DEF IInv
<1> QED BY <1>4, <1>5, <1>6

(* A call that returns leaves its locals behind. *)
LEMMA ReturnOK ==
    ASSUME IInv, pc = "probe", NEW b \in BOOLEAN, NEW v \in Vals,
           Return([ok |-> b, val |-> v]), UNCHANGED <<capacity, loopVars, white>>,
           entries' \in Arrays(capacity), count' \in Nat
    PROVE  TypeOK' /\ Control' /\ Moved' /\ Scanned' /\ ~Rehashing' /\ ~Rehashing
<1>1. /\ op' = NoOp /\ pc' = "idle" /\ scan' = NoScan
      /\ result' = [ok |-> b, val |-> v]
      BY DEF Return
<1>2. ~Rehashing /\ ~Rehashing' /\ ~Probing' BY <1>1 DEF Rehashing, Probing
<1>3. TypeOK' BY <1>1, <1>2 DEF IInv, TypeOK, loopVars, NoScan, Arrays
<1> QED BY <1>1, <1>2, <1>3 DEF Control, Moved, Scanned

LEMMA ReadInv == IInv /\ (GetDone \/ FindDone) => IInv'
<1> SUFFICES ASSUME IInv, GetDone \/ FindDone PROVE IInv' OBVIOUS
<1>1. pc = "probe" /\ Probing /\ ProbeEnds /\ op \in Calls
      /\ UNCHANGED <<tableVars, loopVars, white>>
      BY DEF GetDone, FindDone, ProbeDone, Probing, IInv, Control
<1>2. Probed = entries /\ ProbedCapacity = capacity BY <1>1 DEF Probed, ProbedCapacity
<1>3. Found \in 0..(capacity - 1) BY <1>1, <1>2, FoundOK
<1>4. entries[Found].val \in Vals /\ op.val \in Vals
      BY <1>1, <1>3 DEF IInv, TypeOK, Slots, Calls
<1>5. \E b \in BOOLEAN, v \in Vals : Return([ok |-> b, val |-> v])
      BY <1>4 DEF GetDone, FindDone, Hit, Miss
<1>6. entries' \in Arrays(capacity) /\ count' \in Nat /\ capacity' = capacity
      BY <1>1 DEF IInv, TypeOK, tableVars, Arrays
<1>7. TypeOK' /\ Control' /\ Moved' /\ Scanned' /\ ~Rehashing' /\ ~Rehashing
      BY <1>1, <1>5, <1>6, ReturnOK
<1>8. CountOK' /\ Loaded' /\ Moved' /\ Paths'
      BY <1>1, <1>7 DEF IInv, CountOK, Loaded, Paths, tableVars
<1> QED BY <1>7, <1>8 DEF IInv

LEMMA SetDoneInv == IInv /\ SetDone => IInv'
<1> SUFFICES ASSUME IInv, SetDone PROVE IInv' OBVIOUS
<1> DEFINE s == [key |-> op.key, val |-> op.val]
<1>1. /\ pc = "probe" /\ op.kind = "set" /\ Probing /\ ProbeEnds /\ op \in Calls
      /\ ~Rehashing /\ scan.key = op.key /\ count + 1 <= MaxLoad(capacity)
      BY DEF SetDone, ProbeDone, Probing, IInv, Control, Rehashing
<1>2. /\ entries' = [entries EXCEPT ![Found] = s] /\ capacity' = capacity
      /\ count' = IF entries[Found] = Empty THEN count + 1 ELSE count
      /\ UNCHANGED <<loopVars, white>>
      BY DEF SetDone
<1>3. Probed = entries /\ ProbedCapacity = capacity BY <1>1 DEF Probed, ProbedCapacity
<1>4. entries \in Arrays(capacity) /\ capacity \in Nat \ {0}
      BY <1>1, <1>3, ProbedOK
<1>5. op.key \in Keys /\ op.val \in Vals BY <1>1 DEF Calls
<1>6. Found \in 0..(capacity - 1) /\ PathsOK(entries', capacity)
      BY <1>1, <1>2, <1>3, <1>5, FoundOK
<1>7. s \in Slots /\ s # Empty BY <1>5, KeysAssumption DEF Slots, Empty
<1>8. /\ entries' \in Arrays(capacity)
      /\ Cardinality(Occupied(entries')) =
           IF entries[Found] = Empty THEN Cardinality(Occupied(entries)) + 1
                                     ELSE Cardinality(Occupied(entries))
  <2>1. entries' = Stored(entries, Found, s) BY <1>2 DEF Stored
  <2> QED BY <1>4, <1>6, <1>7, <2>1, OccupiedStore
<1>9. count = Cardinality(Occupied(entries)) /\ count \in Nat
      BY <1>1 DEF IInv, CountOK, TypeOK
<1>10. count' = Cardinality(Occupied(entries')) /\ count' \in Nat /\ count' <= count + 1
      BY <1>2, <1>8, <1>9
<1>11. \E b \in BOOLEAN, v \in Vals : Return([ok |-> b, val |-> v])
      BY <1>5 DEF SetDone, Hit, Miss
<1>12. TypeOK' /\ Control' /\ Moved' /\ Scanned' /\ ~Rehashing'
      BY <1>1, <1>2, <1>8, <1>10, <1>11, ReturnOK
<1>13. CountOK' BY <1>10, <1>12 DEF CountOK
<1>14. Loaded' BY <1>1, <1>2, <1>9, <1>10, <1>4, LoadRoom DEF IInv, Loaded
<1>15. Paths' BY <1>2, <1>6, <1>12 DEF Paths
<1> QED BY <1>12, <1>13, <1>14, <1>15 DEF IInv

(* Deleting turns the slot findEntry returned into a tombstone, if it is live. *)
LEMMA DeleteOK ==
    ASSUME IInv, pc \in {"probe", "sweepProbe"}, ProbeEnds,
           entries' = IF entries[Found].key = Null THEN entries
                      ELSE [entries EXCEPT ![Found] = Tombstone]
    PROVE  /\ entries' \in Arrays(capacity)
           /\ Cardinality(Occupied(entries')) = Cardinality(Occupied(entries))
           /\ PathsOK(entries', capacity)
<1>1. Probing /\ Probed = entries /\ ProbedCapacity = capacity
      BY DEF Probing, Probed, ProbedCapacity
<1>2. /\ entries \in Arrays(capacity) /\ capacity \in Nat \ {0}
      /\ PathsOK(entries, capacity)
      BY <1>1, ProbedOK
<1>3. Found \in 0..(capacity - 1) BY <1>1, FoundOK
<1>4. Tombstone \in Slots /\ Tombstone # Empty
      BY ValsAssumption DEF Tombstone, Empty, Slots
<1>5. CASE entries[Found].key = Null BY <1>2, <1>5
<1>6. CASE entries[Found].key # Null
  <2>1. entries[Found] # Empty BY <1>6 DEF Empty
  <2>2. entries' = [entries EXCEPT ![Found] = Tombstone] BY <1>6
  <2>3. PathsOK(entries', capacity) BY <1>2, <1>3, <2>2, DeletePaths
  <2>4. entries' = Stored(entries, Found, Tombstone) BY <2>2 DEF Stored
  <2> QED BY <1>2, <1>3, <1>4, <2>1, <2>3, <2>4, OccupiedStore
<1> QED BY <1>5, <1>6

LEMMA DeleteDoneInv == IInv /\ DeleteDone => IInv'
<1> SUFFICES ASSUME IInv, DeleteDone PROVE IInv' OBVIOUS
<1>1. /\ pc = "probe" /\ ProbeEnds /\ op \in Calls
      /\ UNCHANGED <<capacity, count, loopVars, white>>
      BY DEF DeleteDone, ProbeDone, IInv, Control
<1>2. /\ entries' \in Arrays(capacity)
      /\ Cardinality(Occupied(entries')) = Cardinality(Occupied(entries))
      /\ PathsOK(entries', capacity)
      BY <1>1, DeleteOK DEF DeleteDone
<1>3. \E b \in BOOLEAN, v \in Vals : Return([ok |-> b, val |-> v])
      BY <1>1 DEF DeleteDone, Hit, Miss, Calls
<1>4. count' \in Nat /\ count' = count BY <1>1 DEF IInv, TypeOK
<1>5. TypeOK' /\ Control' /\ Moved' /\ Scanned' /\ ~Rehashing' /\ ~Rehashing
      BY <1>1, <1>2, <1>3, <1>4, ReturnOK
<1>6. CountOK' /\ Loaded' /\ Paths'
      BY <1>1, <1>2, <1>5 DEF IInv, CountOK, Loaded, Paths
<1> QED BY <1>5, <1>6 DEF IInv

LEMMA AllocateInv == IInv /\ Allocate => IInv'
<1> SUFFICES ASSUME IInv, Allocate PROVE IInv' OBVIOUS
<1> DEFINE c == GrowCapacity(capacity)
<1>1. /\ pc \in {"grow", "swept"} /\ pc' = "rehash" /\ i' = 0 /\ count' = 0
      /\ fresh' = EmptyArray(c)
      /\ UNCHANGED <<entries, capacity, op, scan, white, result>>
      BY DEF Allocate
<1>2. Rehashing' /\ ~Probing' BY <1>1 DEF Rehashing, Probing
<1>3. c \in Nat BY GrowthRoom DEF IInv, Loaded, TypeOK
<1>4. /\ EmptyArray(c) \in Arrays(c) /\ Cardinality(Occupied(EmptyArray(c))) = 0
      /\ Live(EmptyArray(c)) = {}
      BY <1>3, ClearedArray
<1>5. TypeOK' BY <1>1, <1>2, <1>4 DEF IInv, TypeOK, Arrays, GrowCapacity
<1>6. CountOK' /\ Loaded' BY <1>1, <1>2, <1>4 DEF IInv, CountOK, Loaded
<1>7. Paths' BY <1>1, <1>2, <1>4 DEF IInv, Paths, PathsOK
<1>8. Moved'
  <2>1. \A j \in DOMAIN fresh' : fresh'[j] = Empty BY <1>1 DEF EmptyArray
  <2>2. count' <= i' BY <1>1
  <2>3. Live(fresh') = {} BY <1>1, <1>4
  <2> QED BY <2>1, <2>2, <2>3 DEF Moved
<1>9. Control' BY <1>1 DEF IInv, Control, TypeOK
<1> QED BY <1>2, <1>5, <1>6, <1>7, <1>8, <1>9 DEF IInv, Scanned

LEMMA RehashSkipInv == IInv /\ RehashSkip => IInv'
<1> SUFFICES ASSUME IInv, RehashSkip PROVE IInv' OBVIOUS
<1>1. /\ pc = "rehash" /\ i < capacity /\ i' = i + 1
      /\ UNCHANGED <<tableVars, op, pc, scan, fresh, white, result>>
      BY DEF RehashSkip
<1>2. Rehashing /\ Rehashing' /\ ~Probing' BY <1>1 DEF Rehashing, Probing
<1>3. TypeOK' BY <1>1, <1>2 DEF IInv, TypeOK, tableVars, Rehashing
<1>4. CountOK' /\ Loaded' /\ Paths'
      BY <1>1, <1>2 DEF IInv, CountOK, Loaded, Paths, tableVars
<1>5. Moved' BY <1>1, <1>2 DEF IInv, Moved, TypeOK, tableVars
<1>6. Control' BY <1>1 DEF IInv, Control, TypeOK, tableVars
<1> QED BY <1>2, <1>3, <1>4, <1>5, <1>6 DEF IInv, Scanned

LEMMA RehashProbeInv == IInv /\ RehashProbe => IInv'
<1> SUFFICES ASSUME IInv, RehashProbe PROVE IInv' OBVIOUS
<1>1. /\ pc = "rehash" /\ i < capacity /\ entries[i].key # Null
      /\ pc' = "rehashProbe" /\ scan' = ScanFor(entries[i].key)
      /\ UNCHANGED <<tableVars, op, loopVars, white, result>>
      BY DEF RehashProbe
<1>2. Rehashing /\ Rehashing' BY <1>1 DEF Rehashing
<1>3. entries[i].key \in Keys BY <1>1 DEF IInv, TypeOK, Slots
<1>4. TypeOK'
      BY <1>1, <1>2, <1>3 DEF IInv, TypeOK, tableVars, loopVars, ScanFor, Rehashing
<1>5. CountOK' /\ Loaded' /\ Moved' /\ Paths'
      BY <1>1, <1>2, TableUnchanged DEF loopVars
<1>6. Control'
      BY <1>1 DEF IInv, Control, ScanFor, tableVars, loopVars
<1>7. Scanned'
  <2>1. Probed' = fresh' /\ ProbedCapacity' = GrowCapacity(capacity)
        BY <1>1 DEF Probed, ProbedCapacity, tableVars, GrowCapacity
  <2>2. GrowCapacity(capacity) \in Nat \ {0}
        BY GrowthRoom DEF IInv, Loaded, TypeOK
  <2>3. scan'.dist = 0 /\ scan'.tomb = NoSlot BY <1>1 DEF ScanFor
  <2>4. Crossed(fresh', GrowCapacity(capacity), scan'.key, 0, NoSlot)
        BY <2>2, ProbeStartOK
  <2> QED BY <2>1, <2>2, <2>3, <2>4 DEF Scanned
<1> QED BY <1>4, <1>5, <1>6, <1>7 DEF IInv

LEMMA RehashStoreInv == IInv /\ RehashStore => IInv'
<1> SUFFICES ASSUME IInv, RehashStore PROVE IInv' OBVIOUS
<1> DEFINE c == GrowCapacity(capacity)
<1>1. /\ pc = "rehashProbe" /\ Probing /\ ProbeEnds
      /\ fresh' = Stored(fresh, Found, entries[i])
      /\ count' = count + 1 /\ i' = i + 1 /\ pc' = "rehash" /\ scan' = NoScan
      /\ UNCHANGED <<entries, capacity, op, white, result>>
      BY DEF RehashStore, Probing, Stored
<1>2. Rehashing /\ Rehashing' /\ ~Probing' BY <1>1 DEF Rehashing, Probing
<1>3. Probed = fresh /\ ProbedCapacity = c BY <1>1 DEF Probed, ProbedCapacity
<1>4. c \in Nat \ {0} /\ fresh \in Arrays(c) BY <1>1, <1>3, ProbedOK
<1>5. /\ i \in Nat /\ capacity \in Nat /\ i \in 0..(capacity - 1)
      /\ entries[i] \in Slots /\ entries[i].key # Null /\ scan.key = entries[i].key
      BY <1>1 DEF IInv, Control, TypeOK
<1>6. entries[i] = [key |-> scan.key, val |-> entries[i].val] /\ entries[i].val \in Vals
      BY <1>5 DEF Slots
<1>7. /\ Found \in 0..(c - 1) /\ fresh[Found].key \in {scan.key, Null}
      /\ PathsOK(fresh', c)
  <2>1. \A v \in Vals : PathsOK([fresh EXCEPT ![Found] = [key |-> scan.key, val |-> v]], c)
        BY <1>1, <1>3, FoundOK
  <2>2. fresh' = [fresh EXCEPT ![Found] = [key |-> scan.key, val |-> entries[i].val]]
        BY <1>1, <1>6 DEF Stored
  <2> QED BY <1>1, <1>3, <1>6, <2>1, <2>2, FoundOK
<1>8. fresh[Found].key # scan.key
  <2> SUFFICES ASSUME fresh[Found].key = scan.key PROVE FALSE OBVIOUS
  <2>1. Found \in Live(fresh) BY <1>4, <1>5, <1>7 DEF Live, Arrays
  <2>2. PICK n \in 0..(capacity - 1) : n < i /\ entries[n].key = scan.key
        BY <1>2, <2>1 DEF IInv, Moved
  <2>3. n \in Live(entries) /\ i \in Live(entries) /\ entries \in Arrays(capacity)
        BY <1>5, <2>2 DEF IInv, TypeOK, Live, Arrays
  <2>4. n = i BY <1>5, <2>2, <2>3, UniqueKey DEF IInv, Paths
  <2> QED BY <1>5, <2>2, <2>4
<1>9. fresh[Found] = Empty
      BY <1>2, <1>4, <1>7, <1>8 DEF IInv, Moved, Arrays
<1>10. entries[i] # Empty BY <1>5 DEF Empty
<1>11. /\ fresh' \in Arrays(c)
       /\ Cardinality(Occupied(fresh')) = Cardinality(Occupied(fresh)) + 1
       BY <1>1, <1>4, <1>5, <1>7, <1>9, <1>10, OccupiedStore
<1>12. TypeOK'
       BY <1>1, <1>2, <1>5, <1>11 DEF IInv, TypeOK, Arrays, NoScan, Rehashing, GrowCapacity
<1>13. CountOK' /\ Loaded'
       BY <1>1, <1>2, <1>11 DEF IInv, CountOK, Loaded
<1>14. Paths' BY <1>1, <1>2, <1>7 DEF IInv, Paths, GrowCapacity
<1>15. Moved'
  <2>1. count' <= i' BY <1>1, <1>2, <1>5 DEF IInv, Moved, TypeOK
  <2>2. /\ DOMAIN fresh' = DOMAIN fresh /\ fresh'[Found] = entries[i]
        /\ \A j \in DOMAIN fresh : j # Found => fresh'[j] = fresh[j]
        BY <1>1, <1>4, <1>7 DEF Stored, Arrays
  <2>3. \A j \in DOMAIN fresh' : fresh'[j].key = Null => fresh'[j] = Empty
        BY <1>2, <1>5, <2>2 DEF IInv, Moved
  <2>4. ASSUME NEW j \in Live(fresh')
        PROVE  \E n \in 0..(capacity - 1) : n < i + 1 /\ entries[n].key = fresh'[j].key
    <3>1. CASE j = Found BY <1>5, <2>2, <3>1
    <3>2. CASE j # Found
      <4>1. j \in Live(fresh) /\ fresh'[j] = fresh[j] BY <2>2, <3>2 DEF Live
      <4>2. PICK n \in 0..(capacity - 1) : n < i /\ entries[n].key = fresh[j].key
            BY <1>2, <4>1 DEF IInv, Moved
      <4>3. n < i + 1 BY <1>5, <4>2
      <4> QED BY <4>1, <4>2, <4>3
    <3> QED BY <3>1, <3>2
  <2> QED BY <1>1, <2>1, <2>3, <2>4 DEF Moved
<1>16. Control' BY <1>1, <1>5 DEF IInv, Control
<1> QED BY <1>2, <1>12, <1>13, <1>14, <1>15, <1>16 DEF IInv, Scanned

LEMMA RehashDoneInv == IInv /\ RehashDone => IInv'
<1> SUFFICES ASSUME IInv, RehashDone PROVE IInv' OBVIOUS
<1> DEFINE c == GrowCapacity(capacity)
<1>1. /\ pc = "rehash" /\ i = capacity /\ entries' = fresh /\ capacity' = c
      /\ fresh' = EmptyArray(0) /\ i' = 0 /\ pc' = "probe" /\ scan' = ScanFor(op.key)
      /\ UNCHANGED <<count, op, white, result>>
      BY DEF RehashDone
<1>2. Rehashing /\ ~Rehashing' BY <1>1 DEF Rehashing
<1>3. /\ c \in Nat \ {0} /\ c >= MinCapacity /\ capacity + 1 <= MaxLoad(c)
      BY GrowthRoom DEF IInv, Loaded, TypeOK
<1>4. op \in Calls /\ op.key \in Keys BY <1>1 DEF IInv, Control, Calls
<1>5. fresh \in Arrays(c) BY <1>2 DEF IInv, TypeOK, Arrays
<1>6. count <= capacity /\ count \in Nat /\ capacity \in Nat
      BY <1>1, <1>2 DEF IInv, Moved, TypeOK
<1>7. count = Cardinality(Occupied(fresh)) BY <1>2 DEF IInv, CountOK
<1>8. MaxLoad(c) \in Nat BY <1>3, LoadRoom
<1>9. TypeOK'
      BY <1>1, <1>2, <1>3, <1>4, <1>5, ClearedArray
      DEF IInv, TypeOK, Arrays, ScanFor
<1>10. CountOK' /\ Loaded' BY <1>1, <1>2, <1>3, <1>6, <1>7, <1>8 DEF CountOK, Loaded
<1>11. Paths' BY <1>1, <1>2 DEF IInv, Paths
<1>12. Moved' BY <1>2 DEF Moved
<1>13. Control' BY <1>1, <1>3, <1>4, <1>6, <1>8 DEF Control, ScanFor
<1>14. Scanned'
  <2>1. Probed' = entries' /\ ProbedCapacity' = c BY <1>1 DEF Probed, ProbedCapacity
  <2>2. scan'.dist = 0 /\ scan'.tomb = NoSlot BY <1>1 DEF ScanFor
  <2>3. Crossed(entries', c, scan'.key, 0, NoSlot) BY <1>3, ProbeStartOK
  <2> QED BY <1>3, <2>1, <2>2, <2>3 DEF Scanned
<1> QED BY <1>9, <1>10, <1>11, <1>12, <1>13, <1>14 DEF IInv

LEMMA SweepSkipInv == IInv /\ (SweepSkip \/ SweepDone) => IInv'
<1> SUFFICES ASSUME IInv, SweepSkip \/ SweepDone PROVE IInv' OBVIOUS
<1>1. /\ pc = "sweep" /\ UNCHANGED <<tableVars, op, scan, fresh, result>>
      /\ \/ pc' = "sweep" /\ i < capacity /\ i' = i + 1 /\ UNCHANGED white
         \/ pc' = (IF op = NoOp THEN "idle" ELSE "swept") /\ i' = 0 /\ white' = {}
      BY DEF SweepSkip, SweepDone
<1>2. ~Rehashing /\ ~Rehashing' /\ ~Probing' BY <1>1 DEF Rehashing, Probing
<1>3. TypeOK' BY <1>1, <1>2 DEF IInv, TypeOK, tableVars
<1>4. CountOK' /\ Loaded' /\ Moved' /\ Paths'
      BY <1>1, <1>2 DEF IInv, CountOK, Loaded, Moved, Paths, tableVars
<1>5. Control' BY <1>1 DEF IInv, Control, TypeOK, tableVars
<1> QED BY <1>2, <1>3, <1>4, <1>5 DEF IInv, Scanned

LEMMA SweepProbeInv == IInv /\ SweepProbe => IInv'
<1> SUFFICES ASSUME IInv, SweepProbe PROVE IInv' OBVIOUS
<1>1. /\ pc = "sweep" /\ i < capacity /\ entries[i].key # Null
      /\ pc' = "sweepProbe" /\ scan' = ScanFor(entries[i].key)
      /\ UNCHANGED <<tableVars, op, loopVars, white, result>>
      BY DEF SweepProbe, White
<1>2. ~Rehashing /\ ~Rehashing' BY <1>1 DEF Rehashing
<1>3. entries[i].key \in Keys /\ capacity \in Nat \ {0}
      BY <1>1 DEF IInv, TypeOK, Slots
<1>4. TypeOK'
      BY <1>1, <1>2, <1>3 DEF IInv, TypeOK, tableVars, loopVars, ScanFor
<1>5. CountOK' /\ Loaded' /\ Moved' /\ Paths'
      BY <1>1, <1>2, TableUnchanged DEF loopVars
<1>6. Control' BY <1>1 DEF IInv, Control, ScanFor, tableVars, loopVars
<1>7. Scanned'
  <2>1. Probed' = entries' /\ ProbedCapacity' = capacity
        BY <1>1 DEF Probed, ProbedCapacity, tableVars
  <2>2. scan'.dist = 0 /\ scan'.tomb = NoSlot BY <1>1 DEF ScanFor
  <2>3. Crossed(entries', capacity, scan'.key, 0, NoSlot) BY <1>3, ProbeStartOK
  <2> QED BY <1>3, <2>1, <2>2, <2>3 DEF Scanned
<1> QED BY <1>4, <1>5, <1>6, <1>7 DEF IInv

LEMMA SweepDeleteInv == IInv /\ SweepDelete => IInv'
<1> SUFFICES ASSUME IInv, SweepDelete PROVE IInv' OBVIOUS
<1>1. /\ pc = "sweepProbe" /\ ProbeEnds /\ i' = i + 1 /\ pc' = "sweep" /\ scan' = NoScan
      /\ UNCHANGED <<capacity, count, op, fresh, white, result>>
      BY DEF SweepDelete
<1>2. ~Rehashing /\ ~Rehashing' /\ ~Probing' BY <1>1 DEF Rehashing, Probing
<1>3. /\ entries' \in Arrays(capacity)
      /\ Cardinality(Occupied(entries')) = Cardinality(Occupied(entries))
      /\ PathsOK(entries', capacity)
      BY <1>1, DeleteOK DEF SweepDelete
<1>4. TypeOK' BY <1>1, <1>2, <1>3 DEF IInv, TypeOK, Arrays, NoScan
<1>5. CountOK' /\ Loaded' /\ Paths'
      BY <1>1, <1>2, <1>3 DEF IInv, CountOK, Loaded, Paths
<1>6. Control' BY <1>1 DEF IInv, Control, TypeOK
<1> QED BY <1>2, <1>4, <1>5, <1>6 DEF IInv, Moved, Scanned

LEMMA StutterInv == IInv /\ UNCHANGED vars => IInv'
<1> SUFFICES ASSUME IInv, UNCHANGED vars PROVE IInv' OBVIOUS
<1>1. /\ UNCHANGED <<tableVars, loopVars>>
      /\ UNCHANGED <<op, pc, scan, white, result>>
      BY DEF vars, tableVars, loopVars
<1>2. Rehashing' <=> Rehashing BY <1>1 DEF Rehashing
<1>3. CountOK' /\ Loaded' /\ Moved' /\ Paths'
      BY <1>1, <1>2, TableUnchanged DEF loopVars
<1>4. TypeOK' BY <1>1 DEF IInv, TypeOK, tableVars, loopVars, Rehashing
<1>5. Control' BY <1>1 DEF IInv, Control, tableVars, loopVars
<1>6. Scanned'
      BY <1>1 DEF IInv, Scanned, Probing, Probed, ProbedCapacity, tableVars, loopVars
<1> QED BY <1>3, <1>4, <1>5, <1>6 DEF IInv

LEMMA NextInv == IInv /\ [Next]_vars => IInv'
<1> SUFFICES ASSUME IInv, [Next]_vars PROVE IInv' OBVIOUS
<1>1. CASE \E c \in Calls : Call(c) BY <1>1, CallInv
<1>2. CASE \E W \in SUBSET Keys : Sweep(W) BY <1>2, SweepInv
<1>3. CASE Step
      BY <1>3, EnterInv, ProbeStepInv, ReadInv, SetDoneInv, DeleteDoneInv, AllocateInv,
         RehashSkipInv, RehashProbeInv, RehashStoreInv, RehashDoneInv, SweepSkipInv,
         SweepProbeInv, SweepDeleteInv
      DEF Step
<1>4. CASE UNCHANGED vars BY <1>4, StutterInv
<1> QED BY <1>1, <1>2, <1>3, <1>4 DEF Next

-----------------------------------------------------------------------------
(* What follows for every behaviour of the table. *)

(* The invariant of table.c is inductive. *)
THEOREM Inductive == Spec => []IInv
<1>1. Init => IInv BY InitInv
<1>2. IInv /\ [Next]_vars => IInv' BY NextInv
<1> QED BY <1>1, <1>2, PTL DEF Spec

(* Entries, count, locals and results of table.c keep their types. *)
THEOREM TypeCorrect == Spec => []TypeOK
<1>1. IInv => TypeOK BY DEF IInv
<1> QED BY <1>1, Inductive, PTL

(* `count` is the number of live entries and tombstones, whatever calls and  *)
(* sweeps the table has seen.                                                *)
THEOREM CountIsOccupied == Spec => []CountOK
<1>1. IInv => CountOK BY DEF IInv
<1> QED BY <1>1, Inductive, PTL

(* The load factor of 0.75 is never exceeded, so every array keeps an empty  *)
(* slot, the one being filled by adjustCapacity included.                    *)
THEOREM LoadAlwaysBounded == Spec => []LoadBounded
<1>1. IInv => LoadBounded
  <2> SUFFICES ASSUME IInv PROVE LoadBounded OBVIOUS
  <2>1. capacity > 0 => Cardinality(Occupied(entries)) <= MaxLoad(capacity)
        BY DEF IInv, Loaded
  <2>2. ASSUME Rehashing PROVE Cardinality(Occupied(fresh)) < GrowCapacity(capacity)
    <3>1. count = Cardinality(Occupied(fresh)) /\ count <= i /\ count \in Nat /\ i \in Nat
          BY <2>2 DEF IInv, CountOK, Moved, TypeOK
    <3>2. i <= capacity /\ capacity \in Nat
          BY <2>2 DEF IInv, Control, Rehashing, TypeOK
    <3>3. GrowCapacity(capacity) \in Nat /\ capacity < GrowCapacity(capacity)
          BY GrowthRoom DEF IInv, Loaded, TypeOK
    <3> QED BY <3>1, <3>2, <3>3
  <2> QED BY <2>1, <2>2 DEF LoadBounded
<1> QED BY <1>1, Inductive, PTL

(* findEntry's loop, which has no exit of its own for a missing key, never   *)
(* goes around the array twice.                                              *)
THEOREM ProbeTerminates == Spec => []ProbeWithinLap
<1>1. IInv => ProbeWithinLap BY DEF IInv, Scanned, ProbeWithinLap
<1> QED BY <1>1, Inductive, PTL

(* No delete, overwrite, growth or sweep ever makes an entry unreachable or  *)
(* stores a second copy of a key.                                            *)
THEOREM EntriesReachable == Spec => []Reachable
<1>1. IInv => Reachable BY DEF IInv, Paths, PathsOK, Reachable
<1> QED BY <1>1, Inductive, PTL

-----------------------------------------------------------------------------
(* The contents of an array: the map its live slots stand for. *)

Bind(a) ==
    [k \in {a[j].key : j \in Live(a)} |-> a[CHOOSE j \in Live(a) : a[j].key = k].val]

(* A live slot gives its key the value it holds, and no other slot does. *)
LEMMA BindValue ==
    ASSUME NEW c \in Nat, NEW a \in Arrays(c), PathsOK(a, c), NEW j \in Live(a)
    PROVE  a[j].key \in DOMAIN Bind(a) /\ Bind(a)[a[j].key] = a[j].val
<1> DEFINE n == CHOOSE m \in Live(a) : a[m].key = a[j].key
<1>1. n \in Live(a) /\ a[n].key = a[j].key OBVIOUS
<1>2. n = j BY <1>1, UniqueKey
<1>3. a[j].key \in {a[m].key : m \in Live(a)} OBVIOUS
<1> QED BY <1>2, <1>3 DEF Bind

(* The keys of the contents are the keys of the live slots. *)
LEMMA BindDomain ==
    ASSUME NEW a, NEW k
    PROVE  k \in DOMAIN Bind(a) <=> \E j \in Live(a) : a[j].key = k
BY DEF Bind

(* A map with the keys and values of the live slots is the contents. *)
LEMMA BindIs ==
    ASSUME NEW c \in Nat, NEW a \in Arrays(c), PathsOK(a, c),
           NEW F, F = [k \in DOMAIN F |-> F[k]],
           \A j \in Live(a) : a[j].key \in DOMAIN F /\ F[a[j].key] = a[j].val,
           \A k \in DOMAIN F : \E j \in Live(a) : a[j].key = k
    PROVE  Bind(a) = F
<1>1. DOMAIN Bind(a) = DOMAIN F
  <2>1. \A k : k \in DOMAIN F <=> \E j \in Live(a) : a[j].key = k OBVIOUS
  <2>2. \A k : k \in DOMAIN F <=> k \in DOMAIN Bind(a) BY <2>1, BindDomain
  <2> QED BY <2>2
<1>2. ASSUME NEW k \in DOMAIN F PROVE Bind(a)[k] = F[k]
  <2>1. PICK j \in Live(a) : a[j].key = k OBVIOUS
  <2> QED BY <2>1, BindValue
<1>3. Bind(a) = [k \in DOMAIN Bind(a) |-> Bind(a)[k]] BY DEF Bind
<1> HIDE DEF Bind
<1> QED BY <1>1, <1>2, <1>3

(* The array b is a with one entry stored, in a free slot or over its own key. *)
StoredAt(a, b, c, f) ==
    /\ f \in Live(b) /\ a[f].key \in {b[f].key, Null}
    /\ a[f].key = Null => \A j \in Live(a) : a[j].key # b[f].key
    /\ \A j \in 0..(c - 1) : j # f => b[j] = a[j]

(* Storing an entry binds its key and no other. *)
LEMMA BindStore ==
    ASSUME NEW c \in Nat, NEW a \in Arrays(c), PathsOK(a, c),
           NEW b \in Arrays(c), PathsOK(b, c), NEW f, StoredAt(a, b, c, f)
    PROVE  /\ DOMAIN Bind(b) = DOMAIN Bind(a) \cup {b[f].key}
           /\ Bind(b)[b[f].key] = b[f].val
           /\ \A x \in DOMAIN Bind(a) : x # b[f].key => Bind(b)[x] = Bind(a)[x]
<1> DEFINE k == b[f].key
           F == [x \in DOMAIN Bind(a) \cup {k} |-> IF x = k THEN b[f].val ELSE Bind(a)[x]]
<1>0. /\ f \in Live(b) /\ a[f].key \in {k, Null}
      /\ a[f].key = Null => \A j \in Live(a) : a[j].key # k
      /\ \A j \in 0..(c - 1) : j # f => b[j] = a[j]
      BY DEF StoredAt
<1> USE <1>0
<1>1. /\ f \in 0..(c - 1) /\ k # Null
      /\ Live(a) \subseteq 0..(c - 1) /\ Live(b) = Live(a) \cup {f}
  <2>1. DOMAIN a = 0..(c - 1) /\ DOMAIN b = 0..(c - 1) BY DEF Arrays
  <2> QED BY <2>1 DEF Live
<1>2. \A j \in Live(a) : j # f => a[j].key # k
  <2>1. CASE a[f].key = Null BY <2>1
  <2>2. CASE a[f].key # Null
    <3>1. f \in Live(a) /\ a[f].key = k BY <1>1, <2>2 DEF Live, Arrays
    <3> QED BY <3>1, UniqueKey
  <2> QED BY <2>1, <2>2
<1>3. ASSUME NEW j \in Live(b) PROVE b[j].key \in DOMAIN F /\ F[b[j].key] = b[j].val
  <2>1. CASE j = f BY <2>1
  <2>2. CASE j # f
    <3>1. j \in Live(a) /\ b[j] = a[j] /\ a[j].key # k BY <1>1, <1>2, <2>2
    <3>2. a[j].key \in DOMAIN Bind(a) /\ Bind(a)[a[j].key] = a[j].val BY <3>1, BindValue
    <3> QED BY <3>1, <3>2
  <2> QED BY <2>1, <2>2
<1>4. ASSUME NEW x \in DOMAIN F PROVE \E j \in Live(b) : b[j].key = x
  <2>1. CASE x = k BY <2>1
  <2>2. CASE x # k
    <3>1. x \in DOMAIN Bind(a) BY <2>2
    <3>2. PICK j \in Live(a) : a[j].key = x BY <3>1, BindDomain
    <3>3. a[f].key = Null \/ a[f].key = k OBVIOUS
    <3>4. j # f BY <2>2, <3>2, <3>3 DEF Live
    <3> QED BY <1>1, <3>2, <3>4
  <2> QED BY <2>1, <2>2
<1>5. Bind(b) = F
  <2>1. F = [x \in DOMAIN F |-> F[x]] OBVIOUS
  <2> HIDE DEF F
  <2>2. \A j \in Live(b) : b[j].key \in DOMAIN F /\ F[b[j].key] = b[j].val BY <1>3
  <2>3. \A x \in DOMAIN F : \E j \in Live(b) : b[j].key = x BY <1>4
  <2> QED BY ONLY c \in Nat, b \in Arrays(c), PathsOK(b, c), <2>1, <2>2, <2>3, BindIs
<1> QED BY <1>5

(* A tombstone unbinds the key of its slot. *)
LEMMA BindDelete ==
    ASSUME NEW c \in Nat, NEW a \in Arrays(c), PathsOK(a, c), NEW f \in Live(a)
    PROVE  Bind([a EXCEPT ![f] = Tombstone]) =
             [x \in DOMAIN Bind(a) \ {a[f].key} |-> Bind(a)[x]]
<1> DEFINE F == [x \in DOMAIN Bind(a) \ {a[f].key} |-> Bind(a)[x]]
           b == [a EXCEPT ![f] = Tombstone]
<1>1. f \in 0..(c - 1) BY DEF Live, Arrays
<1>2. b \in Arrays(c) /\ PathsOK(b, c)
      BY <1>1, ValsAssumption, DeletePaths DEF Arrays, Slots, Tombstone
<1>3. Live(b) = Live(a) \ {f} /\ \A j \in Live(b) : b[j] = a[j]
      BY <1>1 DEF Live, Arrays, Tombstone
<1>4. ASSUME NEW j \in Live(b) PROVE b[j].key \in DOMAIN F /\ F[b[j].key] = b[j].val
  <2>1. j \in Live(a) /\ b[j] = a[j] /\ j # f BY <1>3
  <2>2. a[j].key # a[f].key BY <2>1, UniqueKey
  <2>3. a[j].key \in DOMAIN Bind(a) /\ Bind(a)[a[j].key] = a[j].val BY <2>1, BindValue
  <2> QED BY <2>1, <2>2, <2>3
<1>5. ASSUME NEW x \in DOMAIN F PROVE \E j \in Live(b) : b[j].key = x
  <2>1. PICK j \in Live(a) : a[j].key = x BY BindDomain
  <2> QED BY <1>3, <2>1
<1> HIDE DEF b
<1>6. Bind(b) = F
  <2>1. F = [x \in DOMAIN F |-> F[x]] OBVIOUS
  <2> HIDE DEF F
  <2> QED BY <1>2, <1>4, <1>5, <2>1, BindIs
<1> QED BY <1>6 DEF b

(* Two arrays with the same live entries have the same contents. *)
LEMMA BindSame ==
    ASSUME NEW c \in Nat, NEW a \in Arrays(c), PathsOK(a, c),
           NEW d \in Nat, NEW b \in Arrays(d), PathsOK(b, d),
           \A n \in Live(a) : \E j \in Live(b) : b[j] = a[n],
           \A j \in Live(b) : \E n \in Live(a) : a[n] = b[j]
    PROVE  Bind(b) = Bind(a)
<1>1. Bind(a) = [k \in DOMAIN Bind(a) |-> Bind(a)[k]] BY DEF Bind
<1>2. ASSUME NEW j \in Live(b)
      PROVE  b[j].key \in DOMAIN Bind(a) /\ Bind(a)[b[j].key] = b[j].val
  <2>1. PICK n \in Live(a) : a[n] = b[j] OBVIOUS
  <2> QED BY <2>1, BindValue
<1>3. ASSUME NEW k \in DOMAIN Bind(a) PROVE \E j \in Live(b) : b[j].key = k
  <2>1. PICK n \in Live(a) : a[n].key = k BY BindDomain
  <2> QED BY <2>1
<1> HIDE DEF Bind
<1> QED BY <1>1, <1>2, <1>3, BindIs

-----------------------------------------------------------------------------
(* What the refinement needs beyond the invariant of the table itself. *)

(* While the array grows, the new one holds exactly the entries of the slots *)
(* already moved.                                                            *)
Carried ==
    Rehashing =>
        /\ \A n \in Live(entries) : n < i => \E j \in Live(fresh) : fresh[j] = entries[n]
        /\ \A j \in Live(fresh) : \E n \in Live(entries) : n < i /\ entries[n] = fresh[j]

(* A sweep has left no unmarked key in the slots it has passed. *)
Dropped ==
    /\ white # {} <=> pc \in {"sweep", "sweepProbe"}
    /\ white # {} => \A j \in Live(entries) : j < i => entries[j].key \notin white
    /\ pc = "sweepProbe" => entries[i].key \in white

RInv == IInv /\ Carried /\ Dropped

LEMMA InitRInv == Init => RInv
<1> SUFFICES ASSUME Init PROVE RInv OBVIOUS
<1>1. Carried BY DEF Init, Carried, Rehashing
<1>2. Dropped BY DEF Init, Dropped
<1> QED BY <1>1, <1>2, InitInv DEF RInv

(* The slot a deletion finds: the live slot of the key, if there is one. *)
LEMMA DeletedSlot ==
    ASSUME IInv, pc = "sweepProbe", ProbeEnds
    PROVE  Found = i /\ i \in Live(entries) /\ scan.key = entries[i].key
<1>1. Probing /\ Probed = entries /\ ProbedCapacity = capacity
      BY DEF Probing, Probed, ProbedCapacity
<1>2. /\ entries \in Arrays(capacity) /\ capacity \in Nat /\ PathsOK(entries, capacity)
      BY <1>1, ProbedOK
<1>3. /\ i \in 0..(capacity - 1) /\ entries[i].key # Null
      /\ scan.key = entries[i].key
      BY DEF IInv, Control, TypeOK
<1>4. i \in Live(entries) BY <1>2, <1>3 DEF Live, Arrays
<1>5. /\ Found \in 0..(capacity - 1) /\ entries[Found].key \in {scan.key, Null}
      /\ entries[Found].key # Null
      BY <1>1, <1>3, <1>4, FoundOK
<1>6. Found \in Live(entries) /\ entries[Found].key = entries[i].key
      BY <1>2, <1>3, <1>5 DEF Live, Arrays
<1>7. Found = i BY <1>2, <1>4, <1>6, UniqueKey
<1> QED BY <1>3, <1>4, <1>7

LEMMA CarriedNext == RInv /\ [Next]_vars => Carried'
<1> SUFFICES ASSUME RInv, [Next]_vars, Rehashing' PROVE Carried' BY DEF Carried
<1>1. CASE Allocate
  <2>1. i' = 0 /\ entries' = entries /\ fresh' = EmptyArray(GrowCapacity(capacity))
        BY <1>1 DEF Allocate
  <2>2. Live(entries') \subseteq Nat BY <2>1 DEF RInv, IInv, TypeOK, Live
  <2>3. Live(fresh') = {} BY <2>1 DEF EmptyArray, Live, Empty
  <2> QED BY <2>1, <2>2, <2>3 DEF Carried
<1>2. CASE RehashSkip
  <2>1. /\ i' = i + 1 /\ entries' = entries /\ fresh' = fresh /\ entries[i].key = Null
        /\ Rehashing
        BY <1>2 DEF RehashSkip, tableVars, Rehashing
  <2>2. \A n \in Live(entries) : n \in Nat /\ n # i
        BY <2>1 DEF RInv, IInv, TypeOK, Live
  <2>3. i \in Nat BY DEF RInv, IInv, TypeOK
  <2>4. \A n \in Live(entries) : n < i + 1 <=> n < i BY <2>2, <2>3
  <2> QED BY <2>1, <2>4 DEF RInv, Carried
<1>3. CASE RehashStore
  <2>1. /\ pc = "rehashProbe" /\ ProbeEnds /\ i' = i + 1 /\ entries' = entries
        /\ fresh' = [fresh EXCEPT ![Found] = entries[i]] /\ Rehashing /\ Probing
        BY <1>3 DEF RehashStore, Rehashing, Probing
  <2>2. Probed = fresh /\ ProbedCapacity = GrowCapacity(capacity)
        BY <2>1 DEF Probed, ProbedCapacity
  <2>3. /\ GrowCapacity(capacity) \in Nat /\ fresh \in Arrays(GrowCapacity(capacity))
        /\ PathsOK(fresh, GrowCapacity(capacity))
        /\ Found \in 0..(GrowCapacity(capacity) - 1)
        /\ fresh[Found].key \in {scan.key, Null}
        BY <2>1, <2>2, ProbedOK, FoundOK DEF RInv
  <2>4. i \in Live(entries) /\ entries[i].key # Null /\ entries[i].key = scan.key
        BY <2>1 DEF RInv, IInv, Control, TypeOK, Live
  <2>5. entries \in Arrays(capacity) /\ PathsOK(entries, capacity) /\ capacity \in Nat
        BY DEF RInv, IInv, TypeOK, Paths, Arrays
  <2>6. fresh[Found].key = Null
    <3> SUFFICES ASSUME fresh[Found].key # Null PROVE FALSE OBVIOUS
    <3>1. Found \in Live(fresh) BY <2>3 DEF Live, Arrays
    <3>2. PICK n \in Live(entries) : n < i /\ entries[n] = fresh[Found]
          BY <2>1, <3>1 DEF RInv, Carried
    <3>3. n = i BY <2>3, <2>4, <2>5, <3>2, UniqueKey
    <3> QED BY <3>2, <3>3 DEF RInv, IInv, TypeOK
  <2>7. /\ DOMAIN fresh' = DOMAIN fresh /\ fresh'[Found] = entries[i]
        /\ Found \in DOMAIN fresh
        /\ \A j \in DOMAIN fresh : j # Found => fresh'[j] = fresh[j]
        BY <2>1, <2>3 DEF Arrays
  <2>8. Live(fresh') = Live(fresh) \cup {Found} /\ Found \notin Live(fresh)
        BY <2>4, <2>6, <2>7 DEF Live
  <2>9. \A n \in Live(entries) : n \in Nat /\ (n < i + 1 <=> n < i \/ n = i)
        BY DEF RInv, IInv, TypeOK, Live
  <2>10. ASSUME NEW n \in Live(entries), n < i + 1
         PROVE  \E j \in Live(fresh') : fresh'[j] = entries[n]
    <3>1. CASE n = i BY <2>7, <2>8, <3>1
    <3>2. CASE n < i
      <4>1. PICK j \in Live(fresh) : fresh[j] = entries[n]
            BY <2>1, <3>2 DEF RInv, Carried
      <4>2. j # Found /\ j \in DOMAIN fresh BY <2>8, <4>1 DEF Live
      <4> QED BY <2>7, <2>8, <4>1, <4>2
    <3> QED BY <2>9, <2>10, <3>1, <3>2
  <2>11. ASSUME NEW j \in Live(fresh')
         PROVE  \E n \in Live(entries) : n < i + 1 /\ entries[n] = fresh'[j]
    <3>1. CASE j = Found
      <4>1. i < i + 1 BY DEF RInv, IInv, TypeOK
      <4> QED BY <2>4, <2>7, <3>1, <4>1
    <3>2. CASE j # Found
      <4>1. j \in Live(fresh) /\ fresh'[j] = fresh[j] BY <2>7, <2>8, <3>2 DEF Live
      <4>2. PICK n \in Live(entries) : n < i /\ entries[n] = fresh[j]
            BY <2>1, <4>1 DEF RInv, Carried
      <4> QED BY <2>9, <4>1, <4>2
    <3> QED BY <3>1, <3>2
  <2>12. Live(entries)' = Live(entries) /\ Live(fresh)' = Live(fresh') BY <2>1
  <2>13. /\ \A n \in Live(entries)' : n < i' => \E j \in Live(fresh)' : fresh'[j] = entries'[n]
         /\ \A j \in Live(fresh)' :
              \E n \in Live(entries)' : n < i' /\ entries'[n] = fresh'[j]
    <3>1. i' = i + 1 /\ entries' = entries BY <2>1
    <3>2. \A n \in Live(entries) : n < i + 1 => \E j \in Live(fresh') : fresh'[j] = entries[n]
          BY <2>10
    <3>3. \A j \in Live(fresh') : \E n \in Live(entries) : n < i + 1 /\ entries[n] = fresh'[j]
          BY <2>11
    <3> QED BY <3>1, <3>2, <3>3, Zenon
  <2> QED BY <2>13 DEF Carried
<1>4. CASE RehashProbe \/ ProbeStep \/ UNCHANGED vars
  <2>1. UNCHANGED <<entries, fresh, i>> /\ Rehashing
        BY <1>4 DEF RehashProbe, ProbeStep, vars, tableVars, loopVars, Rehashing
  <2> QED BY <2>1 DEF RInv, Carried
<1>5. CASE ~(Allocate \/ RehashSkip \/ RehashStore \/ RehashProbe \/ ProbeStep) /\ Next
  <2>1. ~Rehashing'
        BY <1>5 DEF Next, Step, Call, Sweep, ReturnEarly, EnterGrow, EnterProbe, GetDone,
           FindDone, SetDone, DeleteDone, Return, RehashDone, SweepSkip, SweepProbe,
           SweepDelete, SweepDone, Rehashing
  <2> QED BY <2>1
<1> QED BY <1>1, <1>2, <1>3, <1>4, <1>5

LEMMA DroppedNext == RInv /\ [Next]_vars => Dropped'
<1> SUFFICES ASSUME RInv, [Next]_vars PROVE Dropped' OBVIOUS
<1>1. CASE \E W \in SUBSET Keys : Sweep(W)
  <2>1. i' = 0 /\ white' # {} /\ pc' = "sweep" /\ entries' = entries
        BY <1>1 DEF Sweep, tableVars
  <2>2. \A j \in Live(entries) : j \in Nat BY DEF RInv, IInv, TypeOK, Live
  <2> QED BY <2>1, <2>2 DEF Dropped
<1>2. CASE SweepSkip
  <2>1. /\ pc = "sweep" /\ pc' = "sweep" /\ entries' = entries /\ white' = white
        /\ i' = i + 1 /\ count = Cardinality(Occupied(entries))
        /\ ~(White(entries[i]) /\ count # 0)
        BY <1>2 DEF SweepSkip, tableVars, RInv, IInv, CountOK, Rehashing
  <2>2. \A j \in Live(entries) : j \in Nat /\ (j < i + 1 <=> j < i \/ j = i)
        BY DEF RInv, IInv, TypeOK, Live
  <2>3. i \in Live(entries) => entries[i].key \notin white
    <3> SUFFICES ASSUME i \in Live(entries), entries[i].key \in white PROVE FALSE OBVIOUS
    <3>1. count = 0 BY <2>1 DEF White, Live
    <3>2. IsFiniteSet(Occupied(entries))
          BY OccupiedFinite DEF RInv, IInv, TypeOK, Arrays
    <3>3. Occupied(entries) = {} BY <2>1, <3>1, <3>2, FS_EmptySet
    <3> QED BY <3>3 DEF Live, Occupied, Empty
  <2> QED BY <2>1, <2>2, <2>3 DEF RInv, Dropped
<1>3. CASE SweepProbe
  <2>1. /\ pc = "sweep" /\ pc' = "sweepProbe" /\ entries' = entries /\ white' = white
        /\ i' = i /\ entries[i].key \in white
        BY <1>3 DEF SweepProbe, tableVars, loopVars, White
  <2> QED BY <2>1 DEF RInv, Dropped
<1>4. CASE SweepDelete
  <2>1. /\ pc = "sweepProbe" /\ ProbeEnds /\ pc' = "sweep" /\ white' = white /\ i' = i + 1
        /\ entries' = IF entries[Found].key = Null THEN entries
                      ELSE [entries EXCEPT ![Found] = Tombstone]
        BY <1>4 DEF SweepDelete
  <2>2. Found = i /\ i \in Live(entries) BY <2>1, DeletedSlot DEF RInv
  <2>3. entries' = [entries EXCEPT ![i] = Tombstone] BY <2>1, <2>2 DEF Live
  <2>4. Live(entries') = Live(entries) \ {i} /\ \A j \in Live(entries') : entries'[j] = entries[j]
        BY <2>2, <2>3 DEF Live, Tombstone, RInv, IInv, TypeOK
  <2>5. \A j \in Live(entries) : j \in Nat /\ (j < i + 1 <=> j < i \/ j = i)
        BY DEF RInv, IInv, TypeOK, Live
  <2>6. Live(entries)' = Live(entries) \ {i} BY <2>4
  <2>7. \A j \in Live(entries) : j < i => entries[j].key \notin white
        BY <2>1 DEF RInv, Dropped
  <2>8. \A j \in Live(entries)' : j < i' => entries'[j].key \notin white'
    <3> SUFFICES ASSUME NEW j \in Live(entries'), j < i'
                 PROVE  entries'[j].key \notin white'
        OBVIOUS
    <3>1. j \in Live(entries) /\ j # i /\ entries'[j] = entries[j] BY <2>4
    <3>2. j < i BY <2>1, <2>5, <3>1
    <3> QED BY <2>1, <2>7, <3>1, <3>2
  <2>9. white # {} BY <2>1 DEF RInv, Dropped
  <2> QED BY <2>1, <2>8, <2>9 DEF Dropped
<1>5. CASE SweepDone
  <2>1. white' = {} /\ pc' \notin {"sweep", "sweepProbe"} BY <1>5 DEF SweepDone
  <2> QED BY <2>1 DEF Dropped
<1>6. CASE ProbeStep \/ UNCHANGED vars
  <2>1. UNCHANGED <<entries, pc, i, white>>
        BY <1>6 DEF ProbeStep, vars, tableVars, loopVars
  <2> QED BY <2>1 DEF RInv, Dropped
<1>7. CASE /\ Next /\ ~(\E W \in SUBSET Keys : Sweep(W))
           /\ ~(SweepSkip \/ SweepProbe \/ SweepDelete \/ SweepDone \/ ProbeStep)
  <2>1. /\ pc \notin {"sweep", "sweepProbe"} /\ pc' \notin {"sweep", "sweepProbe"}
        /\ white' = white
        BY <1>7 DEF Next, Step, Call, ReturnEarly, EnterGrow, EnterProbe, GetDone,
           FindDone, SetDone, DeleteDone, ProbeDone, Return, Allocate, RehashSkip, RehashProbe,
           RehashStore, RehashDone
  <2>2. white = {} BY <2>1 DEF RInv, Dropped
  <2> QED BY <2>1, <2>2 DEF Dropped
<1> QED BY <1>1, <1>2, <1>3, <1>4, <1>5, <1>6, <1>7

LEMMA NextRInv == RInv /\ [Next]_vars => RInv'
BY NextInv, CarriedNext, DroppedNext DEF RInv

-----------------------------------------------------------------------------
(* The mapping: every step of table.c is a step of the map, or none. *)

LEMMA ContentsIsBind == Contents = Bind(entries)
BY DEF Contents, Bind

(* At the end of a probe for the key of a call, the key is bound exactly when *)
(* findEntry returns its slot.                                                *)
LEMMA ProbeAnswer ==
    ASSUME RInv, pc = "probe", ProbeEnds
    PROVE  /\ op \in Calls /\ op # NoOp /\ white = {} /\ scan.key = op.key
           /\ capacity \in Nat \ {0} /\ entries \in Arrays(capacity)
           /\ PathsOK(entries, capacity)
           /\ Found \in 0..(capacity - 1) /\ entries[Found].key \in {op.key, Null}
           /\ entries[Found].key = Null => \A j \in Live(entries) : entries[j].key # op.key
           /\ \A v \in Vals :
                PathsOK([entries EXCEPT ![Found] = [key |-> op.key, val |-> v]], capacity)
           /\ op.key \in DOMAIN Contents <=> entries[Found].key # Null
           /\ entries[Found].key # Null => Contents[op.key] = entries[Found].val
<1>1. Probing /\ Probed = entries /\ ProbedCapacity = capacity
      BY DEF Probing, Probed, ProbedCapacity
<1>2. op \in Calls /\ op # NoOp /\ white = {} /\ scan.key = op.key
      BY OpAssumption DEF RInv, IInv, Control, Dropped, Calls, Kinds
<1>3. /\ capacity \in Nat \ {0} /\ entries \in Arrays(capacity)
      /\ PathsOK(entries, capacity)
      BY <1>1, ProbedOK DEF RInv
<1>4. /\ Found \in 0..(capacity - 1) /\ entries[Found].key \in {op.key, Null}
      /\ entries[Found].key = Null => \A j \in Live(entries) : entries[j].key # op.key
      /\ \A v \in Vals :
           PathsOK([entries EXCEPT ![Found] = [key |-> op.key, val |-> v]], capacity)
      BY <1>1, <1>2, FoundOK DEF RInv
<1>5. entries[Found].key # Null => Found \in Live(entries) /\ entries[Found].key = op.key
      BY <1>3, <1>4 DEF Live, Arrays
<1>6. op.key \in DOMAIN Contents <=> entries[Found].key # Null
      BY <1>4, <1>5, BindDomain, ContentsIsBind
<1>7. entries[Found].key # Null => Contents[op.key] = entries[Found].val
      BY <1>3, <1>5, BindValue, ContentsIsBind
<1> QED BY <1>2, <1>3, <1>4, <1>6, <1>7

LEMMA RefinesInit == Init => Dictionary!Init
<1> SUFFICES ASSUME Init PROVE Dictionary!Init OBVIOUS
<1>1. Live(entries) = {} BY DEF Init, EmptyArray, Live, Empty
<1>2. Contents = [k \in {} |-> NoResult] BY <1>1 DEF Contents
<1> QED BY <1>2 DEF Init, Dictionary!Init

(* A call starts. *)
LEMMA RefinesCall ==
    ASSUME NEW c \in Calls, RInv, Call(c)
    PROVE  Dictionary!Next
<1>1. /\ op = NoOp /\ white = {} /\ op' = c /\ result' = NoResult
      /\ Contents' = Contents /\ white' = white
      BY DEF Call, RInv, IInv, Control, Dropped, tableVars, Contents
<1>2. c \in Dictionary!Calls BY DEF Calls, Kinds, Dictionary!Calls, Dictionary!Kinds
<1> QED BY <1>1, <1>2 DEF Dictionary!Next, Dictionary!Call

(* The collector starts, between two calls or inside tableSet. *)
LEMMA RefinesSweep ==
    ASSUME NEW W \in SUBSET Keys, RInv, Sweep(W)
    PROVE  Dictionary!Next
<1>1. /\ white = {} /\ W # {} /\ white' = W
      /\ op # NoOp => op.key \notin W
      /\ Contents' = Contents /\ op' = op /\ result' = result
      BY DEF Sweep, RInv, IInv, Control, tableVars, Contents
<1> QED BY <1>1 DEF Dictionary!Next, Dictionary!Sweep

(* On a table that counts nothing a read and a delete answer at once: no key *)
(* is bound.                                                                 *)
LEMMA RefinesReturnEarly == RInv /\ ReturnEarly => Dictionary!Next
<1> SUFFICES ASSUME RInv, ReturnEarly PROVE Dictionary!Next OBVIOUS
<1>1. /\ pc = "enter" /\ op \in Calls /\ op # NoOp /\ op.kind \in {"get", "delete", "find"}
      /\ count = 0 /\ white = {} /\ white' = white /\ op' = NoOp
      /\ result' = [ok |-> FALSE, val |-> op.val]
      /\ Contents' = Contents
      BY OpAssumption
      DEF ReturnEarly, Return, Miss, RInv, IInv, Control, Dropped, tableVars, Contents, Calls, Kinds
<1>2. Live(entries) = {}
  <2>1. count = Cardinality(Occupied(entries)) BY <1>1 DEF RInv, IInv, CountOK, Rehashing
  <2>2. IsFiniteSet(Occupied(entries)) BY OccupiedFinite DEF RInv, IInv, TypeOK, Arrays
  <2>3. Occupied(entries) = {} BY <1>1, <2>1, <2>2, FS_EmptySet
  <2> QED BY <2>3 DEF Live, Occupied, Empty
<1>3. DOMAIN Contents = {} BY <1>2 DEF Contents
<1>4. Contents' = [k \in DOMAIN Contents \ {op.key} |-> Contents[k]]
      BY <1>1, <1>2, <1>3 DEF Contents
<1>5. CASE op.kind = "get"
      BY <1>1, <1>3, <1>5 DEF Dictionary!Next, Dictionary!Get, Dictionary!Return, Dictionary!Miss
<1>6. CASE op.kind = "find"
      BY <1>1, <1>3, <1>6 DEF Dictionary!Next, Dictionary!Find, Dictionary!Return, Dictionary!Miss
<1>7. CASE op.kind = "delete"
      BY <1>1, <1>3, <1>4, <1>7
      DEF Dictionary!Next, Dictionary!Delete, Dictionary!Return, Dictionary!Miss
<1> QED BY <1>1, <1>5, <1>6, <1>7

(* A read that found its slot. *)
LEMMA RefinesRead == RInv /\ (GetDone \/ FindDone) => Dictionary!Next
<1> SUFFICES ASSUME RInv, GetDone \/ FindDone PROVE Dictionary!Next OBVIOUS
<1>1. pc = "probe" /\ ProbeEnds /\ op' = NoOp /\ white' = white /\ Contents' = Contents
  <2>1. pc = "probe" /\ ProbeEnds BY DEF GetDone, FindDone, ProbeDone
  <2>2. op' = NoOp /\ white' = white /\ entries' = entries
        BY DEF GetDone, FindDone, Return, tableVars
  <2> QED BY <2>1, <2>2 DEF Contents
<1>2. CASE GetDone
  <2>1. /\ op.kind = "get"
        /\ result' = IF entries[Found].key = Null THEN [ok |-> FALSE, val |-> op.val]
                     ELSE [ok |-> TRUE, val |-> entries[Found].val]
        BY <1>2 DEF GetDone, ProbeDone, Return, Hit, Miss
  <2> QED BY <1>1, <2>1, ProbeAnswer
          DEF Dictionary!Next, Dictionary!Get, Dictionary!Return, Dictionary!Hit, Dictionary!Miss
<1>3. CASE FindDone
  <2>1. /\ op.kind = "find"
        /\ result' = IF entries[Here].key = op.key THEN [ok |-> TRUE, val |-> op.val]
                     ELSE [ok |-> FALSE, val |-> op.val]
        BY <1>3 DEF FindDone, ProbeDone, Return, Hit, Miss
  <2>2. op.key \in DOMAIN Contents <=> entries[Here].key = op.key
    <3>1. Probed = entries BY <1>1 DEF Probed
    <3>2. entries[Here].key = op.key \/ entries[Here] = Empty
          BY <1>1, <3>1, ProbeAnswer DEF ProbeEnds
    <3>3. op.key # Null BY <1>1, ProbeAnswer, KeysAssumption DEF Calls
    <3>4. Here \in 0..(capacity - 1)
      <4>1. Here = Pos(op.key, scan.dist, capacity)
            BY <1>1, ProbeAnswer DEF Here, ProbedCapacity
      <4>2. scan.dist \in Nat /\ op.key \in Keys /\ capacity \in Nat \ {0}
            BY <1>1, ProbeAnswer DEF RInv, IInv, TypeOK, Calls
      <4> QED BY <4>1, <4>2, PosType
    <3>5. entries[Here].key = op.key => Here \in Live(entries)
          BY <1>1, <3>3, <3>4, ProbeAnswer DEF Live, Arrays
    <3>6. entries[Here].key = op.key => op.key \in DOMAIN Contents
          BY <3>5, BindDomain, ContentsIsBind
    <3>7. entries[Here] = Empty => op.key \notin DOMAIN Contents
      <4> SUFFICES ASSUME entries[Here] = Empty, op.key \in DOMAIN Contents PROVE FALSE
          OBVIOUS
      <4>1. PICK j \in Live(entries) : entries[j].key = op.key
            BY BindDomain, ContentsIsBind
      <4>2. /\ capacity \in Nat \ {0} /\ entries \in Arrays(capacity)
            /\ PathsOK(entries, capacity) /\ op.key \in Keys /\ scan.key = op.key
            BY <1>1, ProbeAnswer DEF Calls
      <4>3. /\ scan.dist \in Nat
            /\ Crossed(entries, capacity, op.key, scan.dist, scan.tomb)
        <5>1. Probing /\ ProbedCapacity = capacity
              BY <1>1 DEF Probing, ProbedCapacity
        <5> QED BY <3>1, <4>2, <5>1, ProbedOK DEF RInv
      <4>4. entries[Pos(op.key, scan.dist, capacity)] = Empty
            BY <1>1, <4>2 DEF Here, ProbedCapacity
      <4>5. entries[j].key # op.key BY <4>2, <4>3, <4>4, Absent
      <4> QED BY <4>1, <4>5
    <3> QED BY <3>2, <3>6, <3>7
  <2> QED BY <1>1, <2>1, <2>2, ProbeAnswer
          DEF Dictionary!Next, Dictionary!Find, Dictionary!Return, Dictionary!Hit, Dictionary!Miss
<1> QED BY <1>2, <1>3

(* tableSet stores its entry. *)
LEMMA RefinesSet == RInv /\ SetDone => Dictionary!Next
<1> SUFFICES ASSUME RInv, SetDone PROVE Dictionary!Next OBVIOUS
<1>1. /\ pc = "probe" /\ ProbeEnds /\ op.kind = "set" /\ op' = NoOp /\ white' = white
      /\ entries' = [entries EXCEPT ![Found] = [key |-> op.key, val |-> op.val]]
      /\ result' = IF entries[Found].key = Null THEN [ok |-> TRUE, val |-> op.val]
                   ELSE [ok |-> FALSE, val |-> op.val]
      BY DEF SetDone, ProbeDone, Return, Hit, Miss
<1>2. op.key \in Keys /\ op.val \in Vals BY <1>1, ProbeAnswer DEF Calls
<1>3. PathsOK(entries', capacity) BY <1>1, <1>2, ProbeAnswer
<1>4. /\ DOMAIN Bind(entries') = DOMAIN Bind(entries) \cup {op.key}
      /\ Bind(entries')[op.key] = op.val
      /\ \A x \in DOMAIN Bind(entries) : x # op.key => Bind(entries')[x] = Bind(entries)[x]
  <2>1. /\ capacity \in Nat /\ entries \in Arrays(capacity) /\ PathsOK(entries, capacity)
        /\ Found \in 0..(capacity - 1) /\ entries[Found].key \in {op.key, Null}
        /\ entries[Found].key = Null => \A j \in Live(entries) : entries[j].key # op.key
        BY <1>1, ProbeAnswer
  <2>2. entries' = [entries EXCEPT ![Found] = [key |-> op.key, val |-> op.val]] BY <1>1
  <2>3. entries' \in Arrays(capacity)
        BY <1>2, <2>1, <2>2 DEF Arrays, Slots
  <2>4. /\ entries'[Found].key = op.key /\ entries'[Found].val = op.val
        /\ \A j \in 0..(capacity - 1) : j # Found => entries'[j] = entries[j]
        BY <2>1, <2>2 DEF Arrays
  <2>5. Found \in Live(entries')
        BY <1>2, <2>1, <2>3, <2>4, KeysAssumption DEF Live, Arrays
  <2>6. StoredAt(entries, entries', capacity, Found) BY <2>1, <2>4, <2>5 DEF StoredAt
  <2> QED BY <1>3, <2>1, <2>3, <2>4, <2>6, BindStore
<1>5. Contents' = [x \in DOMAIN Contents \cup {op.key} |->
                       IF x = op.key THEN op.val ELSE Contents[x]]
  <2>1. Contents' = Bind(entries') BY DEF Contents, Bind
  <2>2. Bind(entries') = [x \in DOMAIN Bind(entries') |-> Bind(entries')[x]] BY DEF Bind
  <2> QED BY <1>4, <2>1, <2>2, ContentsIsBind
<1> QED BY <1>1, <1>5, ProbeAnswer
        DEF Dictionary!Next, Dictionary!Set, Dictionary!Return, Dictionary!Hit, Dictionary!Miss

(* tableDelete leaves a tombstone, or nothing when the key is absent. *)
LEMMA RefinesDelete == RInv /\ DeleteDone => Dictionary!Next
<1> SUFFICES ASSUME RInv, DeleteDone PROVE Dictionary!Next OBVIOUS
<1>1. /\ pc = "probe" /\ ProbeEnds /\ op.kind = "delete" /\ op' = NoOp /\ white' = white
      /\ entries' = IF entries[Found].key = Null THEN entries
                    ELSE [entries EXCEPT ![Found] = Tombstone]
      /\ result' = IF entries[Found].key = Null THEN [ok |-> FALSE, val |-> op.val]
                   ELSE [ok |-> TRUE, val |-> op.val]
      BY DEF DeleteDone, ProbeDone, Return, Hit, Miss
<1>2. /\ capacity \in Nat /\ entries \in Arrays(capacity) /\ PathsOK(entries, capacity)
      /\ Found \in 0..(capacity - 1) /\ entries[Found].key \in {op.key, Null}
      /\ op.key \in DOMAIN Contents <=> entries[Found].key # Null
      BY <1>1, ProbeAnswer
<1>3. Contents' = [x \in DOMAIN Contents \ {op.key} |-> Contents[x]]
  <2>1. CASE entries[Found].key = Null
    <3>1. op.key \notin DOMAIN Contents BY <1>2, <2>1
    <3>2. Contents = [x \in DOMAIN Contents |-> Contents[x]] BY DEF Contents
    <3>3. Contents' = Contents BY <1>1, <2>1 DEF Contents
    <3>4. DOMAIN Contents \ {op.key} = DOMAIN Contents BY <3>1
    <3> HIDE DEF Contents
    <3> QED BY <3>2, <3>3, <3>4
  <2>2. CASE entries[Found].key # Null
    <3>1. Found \in Live(entries) /\ entries[Found].key = op.key
          BY <1>2, <2>2 DEF Live, Arrays
    <3>2. entries' = [entries EXCEPT ![Found] = Tombstone] BY <1>1, <2>2
    <3>3. Bind(entries') = [x \in DOMAIN Bind(entries) \ {op.key} |-> Bind(entries)[x]]
          BY <1>2, <3>1, <3>2, BindDelete
    <3> QED BY <3>3, ContentsIsBind DEF Contents, Bind
  <2> QED BY <2>1, <2>2
<1> QED BY <1>1, <1>2, <1>3, ProbeAnswer
        DEF Dictionary!Next, Dictionary!Delete, Dictionary!Return, Dictionary!Hit, Dictionary!Miss

(* The new array replaces the old one with the same contents. *)
LEMMA RefinesRehashDone == RInv /\ RehashDone => UNCHANGED Dictionary!vars
<1> SUFFICES ASSUME RInv, RehashDone PROVE UNCHANGED Dictionary!vars OBVIOUS
<1>1. /\ pc = "rehash" /\ i = capacity /\ entries' = fresh
      /\ op' = op /\ white' = white /\ result' = result
      BY DEF RehashDone
<1>2. Rehashing BY <1>1 DEF Rehashing
<1>3. /\ capacity \in Nat /\ entries \in Arrays(capacity) /\ PathsOK(entries, capacity)
      /\ GrowCapacity(capacity) \in Nat /\ fresh \in Arrays(GrowCapacity(capacity))
      /\ PathsOK(fresh, GrowCapacity(capacity))
      BY <1>2, GrowthRoom DEF RInv, IInv, TypeOK, Paths, Loaded, Arrays
<1>4. /\ \A n \in Live(entries) : \E j \in Live(fresh) : fresh[j] = entries[n]
      /\ \A j \in Live(fresh) : \E n \in Live(entries) : entries[n] = fresh[j]
  <2>1. \A n \in Live(entries) : n < i BY <1>1, <1>3 DEF Live, Arrays
  <2> QED BY <1>2, <2>1 DEF RInv, Carried
<1>5. Bind(fresh) = Bind(entries) BY <1>3, <1>4, BindSame
<1>6. Contents' = Contents
  <2>1. Contents' = Bind(entries') BY DEF Contents, Bind
  <2> QED BY <1>1, <1>5, <2>1, ContentsIsBind
<1> QED BY <1>1, <1>6 DEF Dictionary!vars

(* The sweep drops the key of the slot it has come to. *)
LEMMA RefinesSweepDelete == RInv /\ SweepDelete => Dictionary!Next
<1> SUFFICES ASSUME RInv, SweepDelete PROVE Dictionary!Next OBVIOUS
<1>1. /\ pc = "sweepProbe" /\ ProbeEnds
      /\ entries' = IF entries[Found].key = Null THEN entries
                    ELSE [entries EXCEPT ![Found] = Tombstone]
      /\ op' = op /\ white' = white /\ result' = result
      BY DEF SweepDelete
<1>2. Found = i /\ i \in Live(entries) BY <1>1, DeletedSlot DEF RInv
<1>3. /\ capacity \in Nat /\ entries \in Arrays(capacity) /\ PathsOK(entries, capacity)
      BY DEF RInv, IInv, TypeOK, Paths, Arrays
<1> DEFINE k == entries[i].key
<1>4. k \in Keys /\ k \in white BY <1>1, <1>2, <1>3 DEF RInv, Dropped, Live, Arrays, Slots
<1>5. k \in DOMAIN Contents BY <1>2, BindDomain, ContentsIsBind
<1>6. entries' = [entries EXCEPT ![i] = Tombstone] BY <1>1, <1>2 DEF Live
<1>7. Bind(entries') = [x \in DOMAIN Bind(entries) \ {k} |-> Bind(entries)[x]]
      BY <1>2, <1>3, <1>6, BindDelete
<1>8. Contents' = [x \in DOMAIN Contents \ {k} |-> Contents[x]]
      BY <1>7, ContentsIsBind DEF Contents, Bind
<1> HIDE DEF k
<1>9. Dictionary!Drop(k) BY <1>1, <1>4, <1>5, <1>8 DEF Dictionary!Drop
<1> QED BY <1>4, <1>9 DEF Dictionary!Next

(* A sweep that has gone through the array has left no unmarked key. *)
LEMMA RefinesSweepDone == RInv /\ SweepDone => Dictionary!Next
<1> SUFFICES ASSUME RInv, SweepDone PROVE Dictionary!Next OBVIOUS
<1>1. /\ pc = "sweep" /\ i = capacity /\ white' = {} /\ entries' = entries
      /\ op' = op /\ result' = result
      BY DEF SweepDone, tableVars
<1>2. white # {} BY <1>1 DEF RInv, Dropped
<1>3. white \cap DOMAIN Contents = {}
  <2> SUFFICES ASSUME NEW k \in white, k \in DOMAIN Contents PROVE FALSE OBVIOUS
  <2>1. PICK j \in Live(entries) : entries[j].key = k BY BindDomain, ContentsIsBind
  <2>2. j < i BY <1>1 DEF RInv, IInv, TypeOK, Live
  <2> QED BY <1>2, <2>1, <2>2 DEF RInv, Dropped
<1>4. Contents' = Contents BY <1>1 DEF Contents
<1> QED BY <1>1, <1>2, <1>3, <1>4 DEF Dictionary!Next, Dictionary!Swept

LEMMA RefinesNext == RInv /\ [Next]_vars => [Dictionary!Next]_(Dictionary!vars)
<1> SUFFICES ASSUME RInv, [Next]_vars PROVE [Dictionary!Next]_(Dictionary!vars) OBVIOUS
<1>1. CASE \E c \in Calls : Call(c) BY <1>1, RefinesCall
<1>2. CASE \E W \in SUBSET Keys : Sweep(W) BY <1>2, RefinesSweep
<1>3. CASE ReturnEarly BY <1>3, RefinesReturnEarly
<1>4. CASE GetDone \/ FindDone BY <1>4, RefinesRead
<1>5. CASE SetDone BY <1>5, RefinesSet
<1>6. CASE DeleteDone BY <1>6, RefinesDelete
<1>7. CASE RehashDone BY <1>7, RefinesRehashDone
<1>8. CASE SweepDelete BY <1>8, RefinesSweepDelete
<1>9. CASE SweepDone BY <1>9, RefinesSweepDone
<1>10. CASE \/ EnterGrow \/ EnterProbe \/ ProbeStep \/ Allocate \/ RehashSkip
            \/ RehashProbe \/ RehashStore \/ SweepSkip \/ SweepProbe \/ UNCHANGED vars
  <2>1. UNCHANGED <<entries, op, white, result>>
        BY <1>10 DEF EnterGrow, EnterProbe, ProbeStep, Allocate, RehashSkip, RehashProbe,
           RehashStore, SweepSkip, SweepProbe, tableVars, loopVars, vars
  <2>2. Contents' = Contents BY <2>1 DEF Contents
  <2> QED BY <2>1, <2>2 DEF Dictionary!vars
<1> QED BY <1>1, <1>2, <1>3, <1>4, <1>5, <1>6, <1>7, <1>8, <1>9, <1>10 DEF Next, Step

(* The table of table.c is a finite map: whatever collisions, tombstones,    *)
(* growths and sweeps happen underneath, a call returns what the map would   *)
(* return and leaves what the map would hold, growing changes nothing, and a *)
(* sweep drops the unmarked keys, all of them and no other.                  *)
THEOREM TableIsMap == Spec => ImplementsDict
<1>1. Init => RInv /\ Dictionary!Init BY InitRInv, RefinesInit
<1>2. RInv /\ [Next]_vars => RInv' BY NextRInv
<1>3. RInv /\ [Next]_vars => [Dictionary!Next]_(Dictionary!vars) BY RefinesNext
<1> QED BY <1>1, <1>2, <1>3, PTL DEF Spec, ImplementsDict, Dictionary!Spec
=============================================================================
