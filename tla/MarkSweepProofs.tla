--------------------------- MODULE MarkSweepProofs ---------------------------
(***************************************************************************)
(* The collector of gc.c keeps exactly what the program can reach, for any *)
(* finite set of objects and any number of roots.                          *)
(***************************************************************************)
EXTENDS MarkSweep, FiniteSetTheorems, TLAPS

(* What sweep has passed, and what it has still to come to. *)
Kept == {objects[n] : n \in 1..at}
Ahead == {objects[n] : n \in (at + 1)..Len(objects)}

(* Marking has come to the first roots, and to them all before it traces. *)
RootsMarked ==
    /\ phase = "roots" => at <= Len(roots) /\ \A n \in 1..at : roots[n] \in marked
    /\ phase \in {"trace", "intern"} => Range(roots) \subseteq marked

(* What a mark means, by phase: nothing is marked beyond what is needed, and *)
(* sweep turns marks into kept objects one by one.                           *)
Marking ==
    /\ phase = "idle" => marked = {}
    /\ phase \in {"roots", "trace", "intern"} => marked \subseteq Needed
    /\ phase \notin {"roots", "trace"} => gray = <<>>
    /\ phase = "intern" => Closed(marked, refs)

Sweeping ==
    phase = "sweep" =>
        /\ at <= Len(objects)
        /\ Needed = Kept \cup marked
        /\ marked \subseteq Ahead
        /\ strings \subseteq Needed

IInv ==
    /\ TypeOK
    /\ IsInjective(objects)
    /\ NothingNeededFreed
    /\ InternerLive
    /\ GrayOnce
    /\ TriColour
    /\ RootsMarked
    /\ Marking
    /\ Sweeping

-----------------------------------------------------------------------------
(* Sequences. *)

(* The elements of a concatenation. *)
LEMMA Concatenated ==
    ASSUME NEW S, NEW s \in Seq(S), NEW r \in Seq(S)
    PROVE  /\ s \o r \in Seq(S) /\ Len(s \o r) = Len(s) + Len(r)
           /\ \A n \in 1..Len(s) : (s \o r)[n] = s[n]
           /\ \A n \in 1..Len(r) : (s \o r)[n + Len(s)] = r[n]
    OBVIOUS

(* The head of the object list is put before the others. *)
LEMMA Prepended ==
    ASSUME NEW S, NEW s \in Seq(S), NEW x \in S
    PROVE  /\ <<x>> \o s \in Seq(S)
           /\ Range(<<x>> \o s) = Range(s) \cup {x}
           /\ IsInjective(s) /\ x \notin Range(s) => IsInjective(<<x>> \o s)
<1> DEFINE t == <<x>> \o s
<1>1. t \in Seq(S) /\ Len(t) = Len(s) + 1 /\ t[1] = x
    OBVIOUS
<1>2. \A n \in 1..Len(s) : t[n + 1] = s[n]
    OBVIOUS
<1>3. \A n \in 1..Len(t) : n = 1 \/ (n - 1 \in 1..Len(s) /\ t[n] = s[n - 1])
    BY <1>1, <1>2
<1>4. DOMAIN t = 1..Len(t) /\ DOMAIN s = 1..Len(s) /\ Len(s) \in Nat
    BY <1>1
<1> HIDE DEF t
<1>5. Range(t) = Range(s) \cup {x}
  <2>1. \A y \in Range(t) : y \in Range(s) \cup {x}
      BY <1>1, <1>3, <1>4 DEF Range
  <2>2. \A y \in Range(s) : y \in Range(t)
    <3> TAKE y \in Range(s)
    <3>1. PICK n \in 1..Len(s) : s[n] = y
        BY <1>4 DEF Range
    <3>2. n + 1 \in DOMAIN t /\ t[n + 1] = y
        BY <3>1, <1>1, <1>2, <1>4
    <3> QED BY <3>2 DEF Range
  <2>3. x \in Range(t)
      BY <1>1, <1>4 DEF Range
  <2> QED BY <2>1, <2>2, <2>3
<1>6. IsInjective(s) /\ x \notin Range(s) => IsInjective(t)
  <2> SUFFICES ASSUME IsInjective(s), x \notin Range(s),
                      NEW a \in 1..Len(t), NEW b \in 1..Len(t), t[a] = t[b]
               PROVE  a = b
      BY <1>4 DEF IsInjective
  <2>1. \A n \in 1..Len(s) : s[n] # x
      BY <1>4 DEF Range
  <2>2. CASE a = 1 \/ b = 1
      BY <2>2, <2>1, <1>1, <1>3
  <2>3. CASE a # 1 /\ b # 1
    <3>1. a - 1 \in 1..Len(s) /\ b - 1 \in 1..Len(s) /\ s[a - 1] = s[b - 1]
        BY <2>3, <1>3
    <3>2. a - 1 = b - 1
        BY <3>1, <1>4 DEF IsInjective
    <3> QED BY <3>2, <1>4
  <2> QED BY <2>2, <2>3
<1> QED BY <1>1, <1>5, <1>6 DEF t

(* A root or a gray object is added at the end. *)
LEMMA Appended ==
    ASSUME NEW S, NEW s \in Seq(S), NEW x \in S
    PROVE  /\ Append(s, x) \in Seq(S)
           /\ Range(Append(s, x)) = Range(s) \cup {x}
           /\ IsInjective(s) /\ x \notin Range(s) => IsInjective(Append(s, x))
<1> DEFINE t == Append(s, x)
<1>1. t \in Seq(S) /\ Len(t) = Len(s) + 1 /\ t[Len(s) + 1] = x
    OBVIOUS
<1>2. \A n \in 1..Len(s) : t[n] = s[n]
    OBVIOUS
<1>3. DOMAIN t = 1..Len(t) /\ DOMAIN s = 1..Len(s) /\ Len(s) \in Nat
    BY <1>1
<1>4. \A n \in 1..Len(t) : n \in 1..Len(s) \/ n = Len(s) + 1
    BY <1>1, <1>3
<1> HIDE DEF t
<1>5. Range(t) = Range(s) \cup {x}
  <2>1. \A y \in Range(t) : y \in Range(s) \cup {x}
      BY <1>1, <1>2, <1>3, <1>4 DEF Range
  <2>2. \A y \in Range(s) : y \in Range(t)
    <3> TAKE y \in Range(s)
    <3>1. PICK n \in 1..Len(s) : s[n] = y
        BY <1>3 DEF Range
    <3>2. n \in DOMAIN t /\ t[n] = y
        BY <3>1, <1>1, <1>2, <1>3
    <3> QED BY <3>2 DEF Range
  <2>3. x \in Range(t)
      BY <1>1, <1>3 DEF Range
  <2> QED BY <2>1, <2>2, <2>3
<1>6. IsInjective(s) /\ x \notin Range(s) => IsInjective(t)
  <2> SUFFICES ASSUME IsInjective(s), x \notin Range(s),
                      NEW a \in 1..Len(t), NEW b \in 1..Len(t), t[a] = t[b]
               PROVE  a = b
      BY <1>3 DEF IsInjective
  <2>1. \A n \in 1..Len(s) : s[n] # x
      BY <1>3 DEF Range
  <2> QED BY <2>1, <1>1, <1>2, <1>3, <1>4 DEF IsInjective
<1> QED BY <1>1, <1>5, <1>6 DEF t

(* One element is taken out: a root is given up, an object is unlinked. *)
LEMMA Removed ==
    ASSUME NEW S, NEW s \in Seq(S), NEW n \in 1..Len(s)
    PROVE  /\ RemoveAt(s, n) \in Seq(S) /\ Len(RemoveAt(s, n)) = Len(s) - 1
           /\ \A k \in 1..(n - 1) : RemoveAt(s, n)[k] = s[k]
           /\ \A k \in n..(Len(s) - 1) : RemoveAt(s, n)[k] = s[k + 1]
           /\ Range(RemoveAt(s, n)) \subseteq Range(s)
           /\ IsInjective(s) => /\ IsInjective(RemoveAt(s, n))
                                /\ Range(RemoveAt(s, n)) = Range(s) \ {s[n]}
<1> DEFINE a == SubSeq(s, 1, n - 1)
           b == SubSeq(s, n + 1, Len(s))
           t == a \o b
<1>1. a \in Seq(S) /\ Len(a) = n - 1 /\ \A k \in 1..(n - 1) : a[k] = s[k]
    OBVIOUS
<1>2. b \in Seq(S) /\ Len(b) = Len(s) - n
      /\ \A k \in 1..(Len(s) - n) : b[k] = s[k + n]
    OBVIOUS
<1> HIDE DEF a, b
<1>3. t \in Seq(S) /\ Len(t) = Len(s) - 1
  <2>1. a \in Seq(S) /\ b \in Seq(S)
      BY <1>1, <1>2
  <2>3. t \in Seq(S)
      BY <2>1
  <2>4. Len(t) = Len(a) + Len(b)
      BY <2>1
  <2>2. Len(s) \in Nat /\ n \in Int /\ (n - 1) + (Len(s) - n) = Len(s) - 1
      OBVIOUS
  <2> QED BY <2>2, <2>3, <2>4, <1>1, <1>2
<1>4. \A k \in 1..(n - 1) : t[k] = s[k]
    BY <1>1, <1>2
<1>5. \A k \in n..(Len(s) - 1) : t[k] = s[k + 1]
  <2> TAKE k \in n..(Len(s) - 1)
  <2>1. t[k] = b[k - (n - 1)]
      BY <1>1, <1>2
  <2>2. k - (n - 1) \in 1..(Len(s) - n) /\ (k - (n - 1)) + n = k + 1
      OBVIOUS
  <2> QED BY <2>1, <2>2, <1>2
<1> HIDE DEF t
<1>6. DOMAIN t = 1..(Len(s) - 1) /\ DOMAIN s = 1..Len(s) /\ Len(s) \in Nat
    BY <1>3
<1>7. \A k \in DOMAIN t : \E m \in DOMAIN s \ {n} : t[k] = s[m]
                              /\ (k < n => m = k) /\ (k >= n => m = k + 1)
    BY <1>4, <1>5, <1>6
<1>8. Range(t) \subseteq Range(s)
    BY <1>7 DEF Range
<1>9. ASSUME IsInjective(s) PROVE IsInjective(t) /\ Range(t) = Range(s) \ {s[n]}
  <2>1. IsInjective(t)
      BY <1>9, <1>6, <1>7 DEF IsInjective
  <2>2. \A y \in Range(t) : y \in Range(s) \ {s[n]}
      BY <1>9, <1>6, <1>7 DEF IsInjective, Range
  <2>3. \A y \in Range(s) \ {s[n]} : y \in Range(t)
    <3> TAKE y \in Range(s) \ {s[n]}
    <3>1. PICK m \in 1..Len(s) : s[m] = y /\ m # n
        BY <1>6 DEF Range
    <3>2. CASE m < n
        BY <3>1, <3>2, <1>4, <1>6 DEF Range
    <3>3. CASE m > n
      <4>1. m - 1 \in n..(Len(s) - 1) /\ m - 1 \in DOMAIN t /\ (m - 1) + 1 = m
          BY <3>3, <1>6
      <4>2. t[m - 1] = y
          BY <4>1, <1>5, <3>1
      <4> QED BY <4>1, <4>2 DEF Range
    <3> QED BY <3>1, <3>2, <3>3, <1>6
  <2> QED BY <2>1, <2>2, <2>3
<1>10. RemoveAt(s, n) = t
    BY DEF RemoveAt, t, a, b
<1> QED BY <1>3, <1>4, <1>5, <1>8, <1>9, <1>10

(* The top of the gray stack is replaced by the objects it refers to. *)
LEMMA Repushed ==
    ASSUME NEW S, NEW s \in Seq(S), s # <<>>,
           NEW new \in SUBSET S, IsFiniteSet(new), NEW p \in Orders(new)
    PROVE  LET t == SubSeq(s, 1, Len(s) - 1) \o p
           IN  /\ t \in Seq(S)
               /\ Range(t) \subseteq Range(s) \cup new
               /\ Range(s) \cup new \subseteq Range(t) \cup {s[Len(s)]}
               /\ new \subseteq Range(t)
               /\ IsInjective(s) /\ new \cap Range(s) = {} => IsInjective(t)
<1> DEFINE c == Cardinality(new)
           a == SubSeq(s, 1, Len(s) - 1)
           t == a \o p
<1>1. c \in Nat
    BY FS_CardinalityType
<1>2. p \in [1..c -> new] /\ IsInjective(p) /\ \A y \in new : \E n \in 1..c : p[n] = y
    BY DEF Orders, Bijection, Injection, Surjection
<1> HIDE DEF c
<1>3. p \in Seq(new) /\ Len(p) = c /\ p \in Seq(S)
    BY <1>1, <1>2
<1>4. Len(s) \in Nat \ {0} /\ DOMAIN s = 1..Len(s)
    OBVIOUS
<1>5. a \in Seq(S) /\ Len(a) = Len(s) - 1 /\ \A n \in 1..(Len(s) - 1) : a[n] = s[n]
    BY <1>4
<1> HIDE DEF a
<1>6. /\ t \in Seq(S) /\ Len(t) = Len(a) + Len(p)
      /\ \A n \in 1..Len(a) : t[n] = a[n]
      /\ \A n \in 1..Len(p) : t[n + Len(a)] = p[n]
  <2>1. a \in Seq(S) /\ p \in Seq(S)
      BY <1>3, <1>5
  <2> QED BY <2>1, Concatenated
<1> HIDE DEF t
<1>7. Len(t) = (Len(s) - 1) + c
    BY <1>3, <1>5, <1>6
<1>8. \A n \in 1..(Len(s) - 1) : t[n] = s[n]
    BY <1>4, <1>5, <1>6
<1>9. \A n \in 1..c : t[n + (Len(s) - 1)] = p[n]
    BY <1>3, <1>5, <1>6
<1>10. DOMAIN t = 1..((Len(s) - 1) + c)
    BY <1>6, <1>7
<1>11. \A n \in DOMAIN t : n \in 1..(Len(s) - 1)
                           \/ (n - (Len(s) - 1) \in 1..c /\ t[n] = p[n - (Len(s) - 1)])
  <2> SUFFICES ASSUME NEW n \in DOMAIN t, n \notin 1..(Len(s) - 1)
               PROVE  n - (Len(s) - 1) \in 1..c /\ t[n] = p[n - (Len(s) - 1)]
      OBVIOUS
  <2>1. n \in Int /\ n >= 1 /\ n <= (Len(s) - 1) + c /\ Len(s) - 1 \in Nat
      BY <1>1, <1>4, <1>10
  <2>2. n - (Len(s) - 1) \in 1..c /\ (n - (Len(s) - 1)) + (Len(s) - 1) = n
      BY <2>1, <1>1, <1>4
  <2> QED BY <2>2, <1>9
<1>12. Range(t) \subseteq Range(s) \cup new
  <2> SUFFICES ASSUME NEW n \in DOMAIN t PROVE t[n] \in Range(s) \cup new
      BY DEF Range
  <2>1. CASE n \in 1..(Len(s) - 1)
      BY <2>1, <1>4, <1>8 DEF Range
  <2>2. CASE n - (Len(s) - 1) \in 1..c /\ t[n] = p[n - (Len(s) - 1)]
      BY <2>2, <1>2
  <2> QED BY <2>1, <2>2, <1>11
<1>13. \A n \in 1..c : p[n] \in Range(t)
  <2> TAKE n \in 1..c
  <2>1. n + (Len(s) - 1) \in DOMAIN t
      BY <1>1, <1>4, <1>10
  <2> QED BY <2>1, <1>9 DEF Range
<1>14. new \subseteq Range(t)
    BY <1>2, <1>13
<1>15. Range(s) \subseteq Range(t) \cup {s[Len(s)]}
  <2> SUFFICES ASSUME NEW n \in 1..Len(s), n # Len(s) PROVE s[n] \in Range(t)
      BY <1>4 DEF Range
  <2>1. n \in 1..(Len(s) - 1) /\ n \in 1..((Len(s) - 1) + c)
    <3> DEFINE l == Len(s)
    <3>1. l \in Nat /\ n \in 1..l /\ n # l
        BY <1>4
    <3> HIDE DEF l
    <3>2. n \in 1..(l - 1) /\ n \in 1..((l - 1) + c)
        BY <3>1, <1>1
    <3> QED BY <3>2 DEF l
  <2>2. n \in DOMAIN t
      BY <2>1, <1>10
  <2> QED BY <2>1, <2>2, <1>8 DEF Range
<1>16. ASSUME IsInjective(s), new \cap Range(s) = {} PROVE IsInjective(t)
  <2> SUFFICES ASSUME NEW m \in DOMAIN t, NEW n \in DOMAIN t, t[m] = t[n], m # n
               PROVE  FALSE
      BY DEF IsInjective
  <2> DEFINE Old(k) == k \in 1..(Len(s) - 1)
             Add(k) == k - (Len(s) - 1) \in 1..c /\ t[k] = p[k - (Len(s) - 1)]
  <2>1. \A k \in DOMAIN t : Old(k) => t[k] = s[k] /\ t[k] \in Range(s) /\ k \in DOMAIN s
      BY <1>4, <1>8 DEF Range
  <2>2. \A k \in DOMAIN t : Add(k) => t[k] \in new
      BY <1>2
  <2>3. m \in Int /\ n \in Int
      BY <1>10
  <2>4. CASE Old(m) /\ Old(n)
      BY <2>4, <2>1, <1>16 DEF IsInjective
  <2>5. CASE Add(m) /\ Add(n)
    <3>1. m - (Len(s) - 1) = n - (Len(s) - 1)
        BY <2>5, <1>2 DEF IsInjective
    <3> QED BY <3>1, <2>3, <1>4
  <2>6. CASE (Old(m) /\ Add(n)) \/ (Add(m) /\ Old(n))
      BY <2>6, <2>1, <2>2, <1>16
  <2>7. (Old(m) \/ Add(m)) /\ (Old(n) \/ Add(n))
      BY <1>11
  <2> QED BY <2>4, <2>5, <2>6, <2>7
<1> QED BY <1>6, <1>12, <1>14, <1>15, <1>16 DEF t, a

-----------------------------------------------------------------------------
(* What is reachable: the least set that holds the roots and is closed. *)
LEMMA ReachableLeast ==
    ASSUME NEW O, NEW f \in [O -> SUBSET O], NEW R \in SUBSET O
    PROVE  /\ Reachable(R, f) \subseteq O
           /\ R \subseteq Reachable(R, f)
           /\ Closed(Reachable(R, f), f)
           /\ \A S \in SUBSET O : R \subseteq S /\ Closed(S, f) => Reachable(R, f) \subseteq S
<1>1. DOMAIN f = O
    OBVIOUS
<1>2. Closed(Reachable(R, f), f)
  <2> SUFFICES ASSUME NEW o \in Reachable(R, f), NEW q \in f[o],
                      NEW S \in SUBSET O, R \subseteq S, Closed(S, f)
               PROVE  q \in S /\ q \in O
      BY <1>1 DEF Closed, Reachable
  <2>1. o \in S
      BY <1>1 DEF Reachable
  <2> QED BY <2>1 DEF Closed
<1> QED BY <1>1, <1>2 DEF Reachable

(* Needed is that set for the roots of the machine. *)
LEMMA NeededLeast ==
    ASSUME TypeOK
    PROVE  /\ Range(roots) \in SUBSET Objects /\ Needed \in SUBSET Objects
           /\ Range(roots) \subseteq Needed /\ Closed(Needed, refs)
           /\ \A S \in SUBSET Objects :
                  Range(roots) \subseteq S /\ Closed(S, refs) => Needed \subseteq S
<1>1. Range(roots) \in SUBSET Objects /\ refs \in [Objects -> SUBSET Objects]
    BY DEF TypeOK, Range
<1> QED BY <1>1, ReachableLeast DEF Needed

(* What is needed after a step is in every closed set that holds the roots. *)
LEMMA NeededWithin ==
    ASSUME TypeOK', NEW S \in SUBSET Objects, Range(roots') \subseteq S, Closed(S, refs')
    PROVE  Needed' \subseteq S
<1>1. Range(roots') \in SUBSET Objects /\ refs' \in [Objects -> SUBSET Objects]
    BY DEF TypeOK
<1>2. Reachable(Range(roots'), refs') \subseteq S
    BY <1>1, ReachableLeast
<1> QED BY <1>2 DEF Needed

(* A step that leaves the program alone leaves what it needs alone. *)
LEMMA NeededUnchanged ==
    ASSUME UNCHANGED <<refs, roots>>
    PROVE  Needed' = Needed
    BY DEF Needed

-----------------------------------------------------------------------------
(* The steps of the program keep the invariant. *)

LEMMA AllocateKeeps ==
    ASSUME IInv, NEW o \in Objects, NEW R \in SUBSET Objects, Allocate(o, R)
    PROVE  IInv'
<1> USE DEF IInv
<1>1. phase = "idle" /\ phase' = "idle" /\ marked = {} /\ marked' = {} /\ gray' = gray
    BY DEF Allocate, Marking
<1>2. /\ objects' \in Seq(Objects) /\ IsInjective(objects')
      /\ Heap' = Heap \cup {o}
    BY Prepended DEF Allocate, TypeOK, Heap
<1>3. roots' \in Seq(Objects) /\ Range(roots') = Range(roots) \cup {o}
    BY Appended DEF Allocate, TypeOK
<1>4. refs' \in [Objects -> SUBSET Objects] /\ refs'[o] = R
      /\ \A q \in Objects \ {o} : refs'[q] = refs[q]
    BY DEF Allocate, TypeOK
<1>5. TypeOK'
    BY <1>1, <1>2, <1>3, <1>4 DEF TypeOK, Allocate
<1>6. Needed' \subseteq Needed \cup {o}
  <2>1. Needed \in SUBSET Objects /\ Range(roots) \subseteq Needed /\ Closed(Needed, refs)
      BY NeededLeast
  <2>2. o \notin Needed /\ R \subseteq Needed
      BY DEF Allocate, NothingNeededFreed
  <2>3. Closed(Needed \cup {o}, refs')
      BY <1>4, <2>1, <2>2 DEF Closed
  <2>4. Range(roots') \subseteq Needed \cup {o} /\ Needed \cup {o} \in SUBSET Objects
      BY <1>3, <2>1
  <2> QED BY <1>5, <2>3, <2>4, NeededWithin
<1>7. NothingNeededFreed'
    BY <1>2, <1>6 DEF NothingNeededFreed
<1>8. InternerLive'
    BY <1>2 DEF InternerLive, Allocate
<1>9. GrayOnce' /\ TriColour' /\ RootsMarked' /\ Marking' /\ Sweeping'
    BY <1>1 DEF GrayOnce, TriColour, RootsMarked, Marking, Sweeping
<1> QED BY <1>2, <1>5, <1>7, <1>8, <1>9

(* A write, a load and a pop only change what is needed, and never enlarge it. *)
LEMMA ProgramKeeps ==
    ASSUME IInv, TypeOK', Needed' \subseteq Needed, phase = "idle",
           UNCHANGED <<phase, objects, strings, marked, gray, at>>
    PROVE  IInv'
<1> USE DEF IInv
<1>1. marked = {} /\ Heap' = Heap
    BY DEF Marking, Heap
<1>2. NothingNeededFreed' /\ InternerLive'
    BY <1>1 DEF NothingNeededFreed, InternerLive
<1>3. GrayOnce' /\ TriColour' /\ RootsMarked' /\ Marking' /\ Sweeping'
    BY <1>1 DEF GrayOnce, TriColour, RootsMarked, Marking, Sweeping
<1> QED BY <1>2, <1>3

LEMMA WriteKeeps ==
    ASSUME IInv, NEW o \in Objects, NEW R \in SUBSET Objects, Write(o, R)
    PROVE  IInv'
<1>1. Needed \in SUBSET Objects /\ Range(roots) \subseteq Needed /\ Closed(Needed, refs)
    BY NeededLeast DEF IInv
<1>2. refs' \in [Objects -> SUBSET Objects] /\ refs'[o] = R
      /\ \A q \in Objects \ {o} : refs'[q] = refs[q]
    BY DEF Write, TypeOK, IInv
<1>3. TypeOK'
    BY <1>2 DEF TypeOK, Write, IInv
<1>4. Closed(Needed, refs')
    BY <1>1, <1>2 DEF Closed, Write
<1>5. Needed' \subseteq Needed
  <2>1. Range(roots') \subseteq Needed
      BY <1>1 DEF Write
  <2> QED BY <1>1, <1>3, <1>4, <2>1, NeededWithin
<1> QED BY <1>3, <1>5, ProgramKeeps DEF Write

LEMMA RootKeeps ==
    ASSUME IInv, NEW o \in Objects, Root(o)
    PROVE  IInv'
<1>1. Needed \in SUBSET Objects /\ Range(roots) \subseteq Needed /\ Closed(Needed, refs)
    BY NeededLeast DEF IInv
<1>2. roots' \in Seq(Objects) /\ Range(roots') = Range(roots) \cup {o}
    BY Appended DEF Root, TypeOK, IInv
<1>3. TypeOK'
    BY <1>2 DEF TypeOK, Root, IInv
<1>4. Range(roots') \subseteq Needed /\ refs' = refs
    BY <1>1, <1>2 DEF Root
<1>5. Needed' \subseteq Needed
    BY <1>1, <1>3, <1>4, NeededWithin
<1> QED BY <1>3, <1>5, ProgramKeeps DEF Root

LEMMA UnrootKeeps ==
    ASSUME IInv, NEW n \in 1..MaxRoots, Unroot(n)
    PROVE  IInv'
<1>1. Needed \in SUBSET Objects /\ Range(roots) \subseteq Needed /\ Closed(Needed, refs)
    BY NeededLeast DEF IInv
<1>2. roots \in Seq(Objects) /\ n \in 1..Len(roots)
    BY DEF Unroot, TypeOK, IInv
<1>3. roots' \in Seq(Objects) /\ Range(roots') \subseteq Range(roots)
    BY <1>2, Removed DEF Unroot
<1>4. TypeOK'
    BY <1>3 DEF TypeOK, Unroot, IInv
<1>5. Range(roots') \subseteq Needed /\ refs' = refs
    BY <1>1, <1>3 DEF Unroot
<1>6. Needed' \subseteq Needed
    BY <1>1, <1>4, <1>5, NeededWithin
<1> QED BY <1>4, <1>6, ProgramKeeps DEF Unroot

-----------------------------------------------------------------------------
(* The steps of the mark phase keep the invariant. *)

LEMMA CollectKeeps ==
    ASSUME IInv, Collect
    PROVE  IInv'
<1> USE DEF IInv
<1>1. Needed' = Needed /\ Heap' = Heap
    BY NeededUnchanged DEF Collect, Heap
<1>2. TypeOK' /\ IsInjective(objects')
    BY DEF TypeOK, Collect
<1>3. NothingNeededFreed' /\ InternerLive'
    BY <1>1 DEF NothingNeededFreed, InternerLive, Collect
<1>4. GrayOnce' /\ TriColour' /\ RootsMarked' /\ Marking' /\ Sweeping'
    BY DEF GrayOnce, TriColour, RootsMarked, Marking, Sweeping, Collect, TypeOK
<1> QED BY <1>2, <1>3, <1>4

LEMMA MarkRootKeeps ==
    ASSUME IInv, MarkRoot
    PROVE  IInv'
<1> USE DEF IInv
<1> DEFINE r == roots[at + 1]
<1>1. /\ phase = "roots" /\ phase' = "roots" /\ at \in Nat /\ at' = at + 1
      /\ at + 1 \in 1..Len(roots) /\ r \in Objects /\ r \in Range(roots)
    BY DEF MarkRoot, TypeOK, Range
<1>2. Needed' = Needed /\ Heap' = Heap /\ r \in Needed
    BY <1>1, NeededUnchanged, NeededLeast DEF MarkRoot, Heap
<1>3. marked' = marked \cup {r}
    BY DEF MarkRoot
<1>4. /\ gray' \in Seq(Objects) /\ IsInjective(gray')
      /\ Range(gray') = Range(gray) \cup ({r} \ marked)
  <2>1. gray \in Seq(Objects) /\ IsInjective(gray) /\ Range(gray) \subseteq marked
      BY DEF TypeOK, GrayOnce
  <2>2. CASE r \in marked
      BY <2>1, <2>2 DEF MarkRoot
  <2>3. CASE r \notin marked
      BY <2>1, <2>3, <1>1, Appended DEF MarkRoot
  <2> QED BY <2>2, <2>3
<1>5. TypeOK' /\ IsInjective(objects')
    BY <1>1, <1>3, <1>4 DEF TypeOK, MarkRoot
<1>6. NothingNeededFreed' /\ InternerLive'
    BY <1>2 DEF NothingNeededFreed, InternerLive, MarkRoot
<1>7. GrayOnce'
    BY <1>3, <1>4 DEF GrayOnce
<1>8. TriColour'
    BY <1>1, <1>3, <1>4 DEF TriColour, MarkRoot
<1>9. RootsMarked'
  <2>1. at <= Len(roots) /\ \A n \in 1..at : roots[n] \in marked
      BY <1>1 DEF RootsMarked
  <2>2. \A n \in 1..(at + 1) : roots[n] \in marked'
      BY <2>1, <1>1, <1>3
  <2> QED BY <2>2, <1>1 DEF RootsMarked, MarkRoot
<1>10. Marking' /\ Sweeping'
    BY <1>1, <1>2, <1>3 DEF Marking, Sweeping
<1> QED BY <1>5, <1>6, <1>7, <1>8, <1>9, <1>10

LEMMA RootsDoneKeeps ==
    ASSUME IInv, RootsDone
    PROVE  IInv'
<1> USE DEF IInv
<1>1. Needed' = Needed /\ Heap' = Heap
    BY NeededUnchanged DEF RootsDone, Heap
<1>2. TypeOK' /\ IsInjective(objects')
    BY DEF TypeOK, RootsDone
<1>3. NothingNeededFreed' /\ InternerLive'
    BY <1>1 DEF NothingNeededFreed, InternerLive, RootsDone
<1>4. Range(roots) \subseteq marked
    BY DEF RootsMarked, RootsDone, TypeOK, Range
<1>5. GrayOnce' /\ TriColour' /\ RootsMarked' /\ Marking' /\ Sweeping'
    BY <1>1, <1>4 DEF GrayOnce, TriColour, RootsMarked, Marking, Sweeping, RootsDone
<1> QED BY <1>2, <1>3, <1>5

LEMMA BlackenKeeps ==
    ASSUME IInv, Blacken
    PROVE  IInv'
<1> USE DEF IInv
<1> DEFINE g == gray[Len(gray)]
           new == refs[g] \ marked
<1>1. /\ phase = "trace" /\ phase' = "trace"
      /\ gray \in Seq(Objects) /\ gray # <<>>
      /\ g \in Range(gray) /\ g \in Objects /\ g \in marked
    BY DEF Blacken, TypeOK, GrayOnce, Range
<1>2. refs[g] \in SUBSET Objects /\ new \in SUBSET Objects /\ IsFiniteSet(new)
    BY <1>1, ObjectsAssumption, FS_Subset DEF TypeOK
<1>3. Needed' = Needed /\ Heap' = Heap
    BY NeededUnchanged DEF Blacken, Heap
<1>4. marked' = marked \cup refs[g] /\ refs' = refs
    BY DEF Blacken
<1>5. new \cap Range(gray) = {} /\ IsInjective(gray) /\ Range(gray) \subseteq marked
    BY DEF GrayOnce
<1> HIDE DEF g
<1>6. /\ gray' \in Seq(Objects) /\ IsInjective(gray')
      /\ Range(gray') \subseteq Range(gray) \cup new
      /\ Range(gray) \cup new \subseteq Range(gray') \cup {g}
  <2>1. PICK s \in Orders(new) : gray' = SubSeq(gray, 1, Len(gray) - 1) \o s
      BY DEF Blacken, Repush, g
  <2> QED BY <2>1, <1>1, <1>2, <1>5, Repushed DEF g
<1>7. TypeOK' /\ IsInjective(objects')
    BY <1>1, <1>2, <1>4, <1>6 DEF TypeOK, Blacken
<1>8. NothingNeededFreed' /\ InternerLive'
    BY <1>3 DEF NothingNeededFreed, InternerLive, Blacken
<1>9. GrayOnce'
    BY <1>4, <1>5, <1>6 DEF GrayOnce
<1>10. TriColour'
  <2> SUFFICES ASSUME NEW o \in marked' \ Range(gray') PROVE refs[o] \subseteq marked'
      BY <1>4 DEF TriColour
  <2>1. CASE o = g
      BY <2>1, <1>4
  <2>2. CASE o # g
    <3>1. o \in marked \ Range(gray)
        BY <2>2, <1>4, <1>6
    <3> QED BY <3>1, <1>1, <1>4 DEF TriColour
  <2> QED BY <2>1, <2>2
<1>11. RootsMarked'
    BY <1>1, <1>4 DEF RootsMarked, Blacken
<1>12. Marking' /\ Sweeping'
  <2>1. marked \subseteq Needed /\ refs[g] \subseteq Needed
      BY <1>1, NeededLeast DEF Marking, Closed
  <2> QED BY <2>1, <1>1, <1>3, <1>4 DEF Marking, Sweeping
<1> QED BY <1>7, <1>8, <1>9, <1>10, <1>11, <1>12

LEMMA TraceDoneKeeps ==
    ASSUME IInv, TraceDone
    PROVE  IInv'
<1> USE DEF IInv
<1>1. Needed' = Needed /\ Heap' = Heap
    BY NeededUnchanged DEF TraceDone, Heap
<1>2. TypeOK' /\ IsInjective(objects')
    BY DEF TypeOK, TraceDone
<1>3. NothingNeededFreed' /\ InternerLive'
    BY <1>1 DEF NothingNeededFreed, InternerLive, TraceDone
<1>4. Range(gray) = {} /\ Closed(marked, refs)
    BY DEF TraceDone, TriColour, Closed, Range
<1>5. GrayOnce' /\ TriColour' /\ RootsMarked' /\ Marking' /\ Sweeping'
    BY <1>1, <1>4 DEF GrayOnce, TriColour, RootsMarked, Marking, Sweeping, TraceDone
<1> QED BY <1>2, <1>3, <1>5

-----------------------------------------------------------------------------
(* The steps of the sweep keep the invariant. *)

LEMMA RemoveWhiteStringsKeeps ==
    ASSUME IInv, RemoveWhiteStrings
    PROVE  IInv'
<1> USE DEF IInv
<1>1. /\ phase = "intern" /\ phase' = "sweep" /\ at' = 0
      /\ marked' = marked /\ objects' = objects /\ gray' = gray
      /\ strings' = strings \cap marked
    BY DEF RemoveWhiteStrings
<1>2. Needed' = Needed /\ Heap' = Heap
    BY NeededUnchanged DEF RemoveWhiteStrings, Heap
<1>3. TypeOK' /\ IsInjective(objects')
    BY DEF TypeOK, RemoveWhiteStrings
<1>4. NothingNeededFreed' /\ InternerLive'
    BY <1>1, <1>2 DEF NothingNeededFreed, InternerLive
<1>5. marked = Needed
  <2>1. marked \subseteq Needed /\ Closed(marked, refs) /\ Range(roots) \subseteq marked
      BY <1>1 DEF Marking, RootsMarked
  <2> QED BY <2>1, NeededLeast DEF TypeOK
<1>6. Kept' = {}
    BY <1>1 DEF Kept
<1>7. Ahead' = Heap
  <2>1. at' + 1 = 1 /\ DOMAIN objects = 1..Len(objects)
      BY <1>1 DEF TypeOK
  <2>2. Ahead' = {objects[n] : n \in 1..Len(objects)}
      BY <1>1, <2>1 DEF Ahead
  <2> QED BY <2>1, <2>2 DEF Heap, Range
<1>8. Sweeping'
  <2>1. at' <= Len(objects')
      BY <1>1, <1>3 DEF TypeOK
  <2>2. marked' \subseteq Ahead'
      BY <1>1, <1>5, <1>7 DEF NothingNeededFreed
  <2>3. strings' \subseteq Needed' /\ Needed' = Kept' \cup marked'
      BY <1>1, <1>2, <1>5, <1>6
  <2> QED BY <2>1, <2>2, <2>3 DEF Sweeping
<1>9. GrayOnce' /\ TriColour' /\ RootsMarked' /\ Marking'
    BY <1>1 DEF GrayOnce, TriColour, RootsMarked, Marking
<1> QED BY <1>3, <1>4, <1>8, <1>9

LEMMA SweepKeepKeeps ==
    ASSUME IInv, SweepKeep
    PROVE  IInv'
<1> USE DEF IInv
<1> DEFINE x == objects[at + 1]
<1>1. /\ phase = "sweep" /\ phase' = "sweep" /\ at' = at + 1 /\ at \in Nat
      /\ at + 1 \in 1..Len(objects) /\ x \in marked /\ marked' = marked \ {x}
      /\ objects' = objects /\ gray' = gray /\ strings' = strings
      /\ objects \in Seq(Objects)
    BY DEF SweepKeep, TypeOK
<1>2. Needed' = Needed /\ Heap' = Heap
    BY NeededUnchanged DEF SweepKeep, Heap
<1>3. TypeOK' /\ IsInjective(objects')
    BY <1>1 DEF TypeOK, SweepKeep
<1>4. NothingNeededFreed' /\ InternerLive'
    BY <1>1, <1>2 DEF NothingNeededFreed, InternerLive
<1>5. Kept' = Kept \cup {x}
  <2>1. 1..(at + 1) = 1..at \cup {at + 1}
      BY <1>1
  <2> QED BY <2>1, <1>1 DEF Kept
<1>6. Ahead \ {x} \subseteq Ahead'
  <2>1. (at + 1)..Len(objects) \subseteq {at + 1} \cup ((at + 1) + 1)..Len(objects)
      BY <1>1
  <2> QED BY <2>1, <1>1 DEF Ahead
<1>7. Sweeping'
    BY <1>1, <1>2, <1>5, <1>6 DEF Sweeping
<1>8. gray = <<>> /\ Range(gray) = {} /\ IsInjective(gray)
    BY <1>1 DEF Marking, Range, IsInjective
<1>9. GrayOnce' /\ TriColour' /\ RootsMarked' /\ Marking'
    BY <1>1, <1>8 DEF GrayOnce, TriColour, RootsMarked, Marking
<1> QED BY <1>3, <1>4, <1>7, <1>9

LEMMA SweepFreeKeeps ==
    ASSUME IInv, SweepFree
    PROVE  IInv'
<1> USE DEF IInv
<1> DEFINE x == objects[at + 1]
<1>1. /\ phase = "sweep" /\ phase' = "sweep" /\ at' = at /\ at \in Nat
      /\ at + 1 \in 1..Len(objects) /\ x \notin marked /\ marked' = marked
      /\ gray' = gray /\ strings' = strings /\ roots' = roots
      /\ objects \in Seq(Objects) /\ IsInjective(objects) /\ x \in Objects
    BY DEF SweepFree, TypeOK
<1>2. objects' = RemoveAt(objects, at + 1)
    BY DEF SweepFree
<1>3. /\ objects' \in Seq(Objects) /\ Len(objects') = Len(objects) - 1
      /\ \A k \in 1..at : objects'[k] = objects[k]
      /\ \A k \in (at + 1)..(Len(objects) - 1) : objects'[k] = objects[k + 1]
      /\ IsInjective(objects') /\ Heap' = Heap \ {x}
  <2> DEFINE n == at + 1
  <2>1. n - 1 = at /\ n \in 1..Len(objects) /\ objects[n] = x
      BY <1>1
  <2> HIDE DEF n
  <2>2. objects' = RemoveAt(objects, n)
      BY <1>2 DEF n
  <2>3. objects \in Seq(Objects) /\ IsInjective(objects)
      BY <1>1
  <2>4. /\ RemoveAt(objects, n) \in Seq(Objects)
        /\ Len(RemoveAt(objects, n)) = Len(objects) - 1
        /\ \A k \in 1..(n - 1) : RemoveAt(objects, n)[k] = objects[k]
        /\ \A k \in n..(Len(objects) - 1) : RemoveAt(objects, n)[k] = objects[k + 1]
        /\ IsInjective(RemoveAt(objects, n))
        /\ Range(RemoveAt(objects, n)) = Range(objects) \ {objects[n]}
      BY <2>1, <2>3, Removed
  <2> QED BY <2>1, <2>2, <2>4 DEF Heap, n
<1>4. refs' \in [Objects -> SUBSET Objects] /\ refs'[x] = {}
      /\ \A q \in Objects \ {x} : refs'[q] = refs[q]
    BY <1>1 DEF SweepFree, TypeOK
<1>5. TypeOK'
    BY <1>1, <1>3, <1>4 DEF TypeOK, SweepFree
<1>6. Needed = Kept \cup marked /\ marked \subseteq Ahead /\ strings \subseteq Needed
      /\ at <= Len(objects)
    BY <1>1 DEF Sweeping
<1>7. x \notin Needed
  <2>1. DOMAIN objects = 1..Len(objects) /\ Len(objects) \in Nat
      BY <1>1
  <2>2. \A n \in 1..at : objects[n] # x
      BY <1>1, <2>1 DEF IsInjective
  <2> QED BY <2>2, <1>1, <1>6 DEF Kept
<1>8. Needed' = Needed
  <2>1. Needed \in SUBSET Objects /\ Range(roots) \subseteq Needed /\ Closed(Needed, refs)
        /\ \A S \in SUBSET Objects :
               Range(roots) \subseteq S /\ Closed(S, refs) => Needed \subseteq S
      BY NeededLeast
  <2>2. Closed(Needed, refs')
      BY <2>1, <1>4, <1>7 DEF Closed
  <2>3. Needed' \subseteq Needed
      BY <2>1, <2>2, <1>1, <1>5, NeededWithin
  <2>4. Needed' \in SUBSET Objects /\ Range(roots) \subseteq Needed' /\ Closed(Needed', refs')
    <3>1. Range(roots') \in SUBSET Objects /\ Needed' = Reachable(Range(roots'), refs')
        BY <1>1, <2>1 DEF Needed
    <3> QED BY <3>1, <1>1, <1>4, ReachableLeast
  <2>5. Closed(Needed', refs)
      BY <2>3, <2>4, <1>4, <1>7 DEF Closed
  <2>6. Needed \subseteq Needed'
      BY <2>1, <2>4, <2>5
  <2> QED BY <2>3, <2>6
<1>9. NothingNeededFreed' /\ InternerLive'
    BY <1>1, <1>3, <1>6, <1>7, <1>8 DEF NothingNeededFreed, InternerLive
<1>10. Kept' = Kept
    BY <1>1, <1>3 DEF Kept
<1>11. marked \subseteq Ahead'
  <2> SUFFICES ASSUME NEW y \in marked PROVE y \in Ahead'
      OBVIOUS
  <2> DEFINE l == Len(objects)
  <2>1. l \in Nat
      BY <1>1
  <2>2. PICK n \in (at + 1)..l : objects[n] = y
      BY <1>6 DEF Ahead
  <2>3. n # at + 1
      BY <2>2, <1>1
  <2> HIDE DEF l
  <2>4. n - 1 \in (at + 1)..(l - 1) /\ (n - 1) + 1 = n
      BY <2>1, <2>2, <2>3, <1>1
  <2>5. objects'[n - 1] = y /\ n - 1 \in (at + 1)..Len(objects')
      BY <2>2, <2>4, <1>3 DEF l
  <2> QED BY <2>5, <1>1 DEF Ahead
<1>12. Sweeping'
  <2>1. at' <= Len(objects')
      BY <1>1, <1>3
  <2> QED BY <2>1, <1>1, <1>6, <1>8, <1>10, <1>11 DEF Sweeping
<1>13. gray = <<>> /\ Range(gray) = {} /\ IsInjective(gray)
    BY <1>1 DEF Marking, Range, IsInjective
<1>14. GrayOnce' /\ TriColour' /\ RootsMarked' /\ Marking'
    BY <1>1, <1>13 DEF GrayOnce, TriColour, RootsMarked, Marking
<1> QED BY <1>3, <1>5, <1>9, <1>12, <1>14

(* What sweep leaves is what is needed: it has kept it, and freed the rest. *)
LEMMA SweptHeap ==
    ASSUME IInv, SweepDone
    PROVE  marked = {} /\ Heap = Needed
<1> USE DEF IInv
<1>1. phase = "sweep" /\ at = Len(objects) /\ objects \in Seq(Objects)
    BY DEF SweepDone, TypeOK
<1>2. Ahead = {}
    BY <1>1 DEF Ahead
<1>3. Kept = Heap
    BY <1>1 DEF Kept, Heap, Range
<1> QED BY <1>1, <1>2, <1>3 DEF Sweeping

LEMMA SweepDoneKeeps ==
    ASSUME IInv, SweepDone
    PROVE  IInv'
<1>1. marked = {}
    BY SweptHeap
<1> USE DEF IInv
<1>2. Needed' = Needed /\ Heap' = Heap
    BY NeededUnchanged DEF SweepDone, Heap
<1>3. TypeOK' /\ IsInjective(objects')
    BY DEF TypeOK, SweepDone
<1>4. NothingNeededFreed' /\ InternerLive'
    BY <1>2 DEF NothingNeededFreed, InternerLive, SweepDone
<1>5. GrayOnce' /\ TriColour' /\ RootsMarked' /\ Marking' /\ Sweeping'
    BY <1>1 DEF GrayOnce, TriColour, RootsMarked, Marking, Sweeping, SweepDone
<1> QED BY <1>3, <1>4, <1>5

-----------------------------------------------------------------------------
(* The invariant, and the theorems that follow from it. *)

LEMMA InitIInv == Init => IInv
<1> SUFFICES ASSUME Init PROVE IInv
    OBVIOUS
<1>1. TypeOK /\ Range(objects) = {} /\ Range(roots) = {} /\ Range(gray) = {}
    BY DEF Init, TypeOK, Range
<1>2. Closed({}, refs) /\ {} \in SUBSET Objects
    BY DEF Closed
<1>3. Needed = {}
    BY <1>1, <1>2, NeededLeast
<1>4. IsInjective(objects) /\ IsInjective(gray)
    BY DEF Init, IsInjective
<1> QED BY <1>1, <1>3, <1>4 DEF Init, IInv, NothingNeededFreed, InternerLive, Heap,
           GrayOnce, TriColour, RootsMarked, Marking, Sweeping

LEMMA StepIInv == IInv /\ [Next]_vars => IInv'
<1> SUFFICES ASSUME IInv, [Next]_vars PROVE IInv'
    OBVIOUS
<1>1. ASSUME NEW o \in Objects, NEW R \in SUBSET Objects, Allocate(o, R) \/ Write(o, R)
      PROVE  IInv'
    BY <1>1, AllocateKeeps, WriteKeeps
<1>2. ASSUME NEW o \in Objects, Root(o) PROVE IInv'
    BY <1>2, RootKeeps
<1>3. ASSUME NEW n \in 1..MaxRoots, Unroot(n) PROVE IInv'
    BY <1>3, UnrootKeeps
<1>4. CASE Collect
    BY <1>4, CollectKeeps
<1>5. CASE Collector
    BY <1>5, MarkRootKeeps, RootsDoneKeeps, BlackenKeeps, TraceDoneKeeps,
       RemoveWhiteStringsKeeps, SweepKeepKeeps, SweepFreeKeeps, SweepDoneKeeps DEF Collector
<1>6. CASE UNCHANGED vars
    BY <1>6 DEF vars, IInv, TypeOK, NothingNeededFreed, InternerLive, Heap, Needed,
       GrayOnce, TriColour, RootsMarked, Marking, Sweeping, Kept, Ahead
<1> QED BY <1>1, <1>2, <1>3, <1>4, <1>5, <1>6 DEF Next, Program

(* Every reachable state satisfies the invariant. *)
THEOREM Inductive == Spec => []IInv
    BY InitIInv, StepIInv, PTL DEF Spec

(* The fields of the collector keep their types (gc.c, vm.h). *)
THEOREM TypeCorrect == Spec => []TypeOK
<1>1. IInv => TypeOK
    BY DEF IInv
<1> QED BY <1>1, Inductive, PTL

(* gc.c:172-187 frees nothing the program can still reach. *)
THEOREM Safe == Spec => []NothingNeededFreed
<1>1. IInv => NothingNeededFreed
    BY DEF IInv
<1> QED BY <1>1, Inductive, PTL

(* The trace of gc.c:119-124 never leaves a black object with a white reference. *)
THEOREM Traced == Spec => []TriColour
<1>1. IInv => TriColour
    BY DEF IInv
<1> QED BY <1>1, Inductive, PTL

(* gc.c:149 keeps an object from entering the gray stack twice. *)
THEOREM PushedOnce == Spec => []GrayOnce
<1>1. IInv => GrayOnce
    BY DEF IInv
<1> QED BY <1>1, Inductive, PTL

(* gc.c:130-133 leaves no mark behind for the next collection. *)
THEOREM Unmarked == Spec => []MarksCleared
<1>1. IInv => MarksCleared
    BY DEF IInv, Marking, MarksCleared
<1> QED BY <1>1, Inductive, PTL

(* gc.c:179 empties the interner of the strings that gc.c:180 frees. *)
THEOREM InternerSound == Spec => []InternerLive
<1>1. IInv => InternerLive
    BY DEF IInv
<1> QED BY <1>1, Inductive, PTL

(* A collection frees everything the program cannot reach: none of it leaks. *)
THEOREM Complete == Spec => GarbageFreed
<1>1. IInv /\ [Next]_vars => [phase = "sweep" /\ phase' = "idle" => Heap' = Needed']_vars
  <2> SUFFICES ASSUME IInv, Next, phase = "sweep", phase' = "idle" PROVE Heap' = Needed'
      BY DEF vars
  <2>1. SweepDone
      BY DEF Next, Program, Allocate, Write, Root, Unroot, Collect, Collector, MarkRoot,
         RootsDone, Blacken, TraceDone, RemoveWhiteStrings, SweepKeep, SweepFree
  <2>2. Heap' = Heap /\ Needed' = Needed
      BY <2>1, NeededUnchanged DEF SweepDone, Heap
  <2> QED BY <2>1, <2>2, SweptHeap
<1> QED BY <1>1, Inductive, PTL DEF Spec, GarbageFreed
=============================================================================
