------------------------------ MODULE HeapProofs ------------------------------
(***************************************************************************)
(* Proofs about Heap, for every set of objects, contents and programs.      *)
(* They go through three inductive invariants, each of which uses the one  *)
(* before it:                                                              *)
(*  - Shape: the types, and for every place the C code can be at, what its  *)
(*    locals hold and how high the stack is (Control).  It gives the types  *)
(*    and that an operation pops its temporaries.                           *)
(*  - NamesOK: the strings of the heap differ in content and the interner   *)
(*    has them all but the one just made; the name of a native is a key of  *)
(*    vm.globals, or the first slot of the stack while it is registered.    *)
(*  - Kept: every reference of a live object and every root is alive, and   *)
(*    the pointers of the C code are reachable from the roots, if the        *)
(*    program keeps in a variable what it indexes.                           *)
(* A lemma of each group says what a collection, an allocation and a change *)
(* of references leave of the heap; then there is one lemma per action.     *)
(***************************************************************************)
EXTENDS Heap, FiniteSetTheorems, TLAPS

-----------------------------------------------------------------------------
(* Sequences and stacks. *)

(* The first m elements of a sequence. *)
LEMMA Prefix ==
    ASSUME NEW S, NEW s \in Seq(S), NEW m \in 0..Len(s)
    PROVE  /\ SubSeq(s, 1, m) \in Seq(S) /\ Len(SubSeq(s, 1, m)) = m
           /\ \A i \in 1..m : SubSeq(s, 1, m)[i] = s[i]
OBVIOUS

(* The stack without its top n slots. *)
LEMMA DropOK ==
    ASSUME stack \in Seq(Values), NEW n \in 0..Len(stack)
    PROVE  /\ Drop(n) \in Seq(Values) /\ Len(Drop(n)) = Len(stack) - n
           /\ \A i \in 1..(Len(stack) - n) : Drop(n)[i] = stack[i]
BY DEF Drop

(* A slot of the stack, counted from the top. *)
LEMMA PeekOK ==
    ASSUME stack \in Seq(Values), NEW n \in 0..(Len(stack) - 1)
    PROVE  Peek(n) \in Values /\ Len(stack) - n \in 1..Len(stack)
BY DEF Peek

(* The elements of a sequence are the range it has as a function. *)
LEMMA Elements ==
    ASSUME NEW S, NEW s \in Seq(S)
    PROVE  /\ ToSet(s) \subseteq S
           /\ \A i \in 1..Len(s) : s[i] \in ToSet(s)
           /\ \A v \in ToSet(s) : \E i \in 1..Len(s) : v = s[i]
BY DEF ToSet

LEMMA AppendElements ==
    ASSUME NEW S, NEW s \in Seq(S), NEW v \in S
    PROVE  /\ Append(s, v) \in Seq(S) /\ Len(Append(s, v)) = Len(s) + 1
           /\ Append(s, v)[Len(s) + 1] = v
           /\ \A i \in 1..Len(s) : Append(s, v)[i] = s[i]
           /\ ToSet(Append(s, v)) = ToSet(s) \cup {v}
           /\ Last(Append(s, v)) = v
BY DEF ToSet, Last

(* A sequence of two or more elements, without its first. *)
LEMMA TailOK ==
    ASSUME NEW S, NEW s \in Seq(S), Len(s) > 1
    PROVE  Tail(s) \in Seq(S) /\ Tail(s) # <<>> /\ s[2] \in S
<1>1. Tail(s) \in Seq(S) /\ Len(Tail(s)) = Len(s) - 1 OBVIOUS
<1>2. Len(Tail(s)) # 0 /\ s[2] \in S BY <1>1
<1>3. Len(<<>>) = 0 OBVIOUS
<1>4. Tail(s) # <<>> BY <1>2, <1>3, Zenon
<1> QED BY <1>1, <1>2, <1>4

LEMMA PrefixElements ==
    ASSUME NEW S, NEW s \in Seq(S), NEW m \in 0..Len(s)
    PROVE  ToSet(SubSeq(s, 1, m)) \subseteq ToSet(s)
BY Prefix DEF ToSet

-----------------------------------------------------------------------------
(* Reachability. *)

(* The least closed set that holds the roots. *)
LEMMA ReachableLeast ==
    ASSUME NEW O, NEW f \in [O -> SUBSET O], NEW R \in SUBSET O
    PROVE  /\ Reachable(R, f) \subseteq O
           /\ R \subseteq Reachable(R, f)
           /\ Closed(Reachable(R, f), f)
           /\ \A S \in SUBSET O : R \subseteq S /\ Closed(S, f) => Reachable(R, f) \subseteq S
<1>1. DOMAIN f = O OBVIOUS
<1>2. Closed(Reachable(R, f), f)
  <2> SUFFICES ASSUME NEW o \in Reachable(R, f), NEW q \in f[o],
                      NEW S \in SUBSET O, R \subseteq S, Closed(S, f)
               PROVE  q \in O /\ q \in S
      BY <1>1 DEF Closed, Reachable
  <2>1. o \in O /\ o \in S
      BY <1>1 DEF Reachable
  <2> QED BY <2>1 DEF Closed
<1> QED BY <1>1, <1>2 DEF Reachable

(* What is reached stays reached while the objects reached keep their references *)
(* and the roots stay.                                                           *)
LEMMA ReachableGrows ==
    ASSUME NEW O, NEW f \in [O -> SUBSET O], NEW g \in [O -> SUBSET O],
           NEW R \in SUBSET O, NEW Q \in SUBSET O, R \subseteq Q,
           \A o \in Reachable(R, f) : f[o] \subseteq g[o]
    PROVE  Reachable(R, f) \subseteq Reachable(Q, g)
<1> DEFINE S == Reachable(R, f) \cap Reachable(Q, g)
<1>1. Reachable(Q, g) \subseteq O /\ Q \subseteq Reachable(Q, g) /\ Closed(Reachable(Q, g), g)
      BY ReachableLeast
<1>2. R \subseteq Reachable(R, f) /\ Closed(Reachable(R, f), f) BY ReachableLeast
<1>3. S \in SUBSET O /\ R \subseteq S BY <1>1, <1>2
<1>4. Closed(S, f) BY <1>1, <1>2 DEF Closed
<1>5. Reachable(R, f) \subseteq S BY <1>3, <1>4, ReachableLeast
<1> QED BY <1>5

-----------------------------------------------------------------------------
(* What an allocation leaves of the heap. *)

Kinds == {"free", "string", "array", "map", "closure", "upvalue", "function", "native"}
Records == [kind : Kinds, content : Contents \cup {Nil}, refs : SUBSET Objects, name : Values]
Heaps == [Objects -> Records]

(* The heap, the interner and the list of open upvalues fit each other. *)
MemoryOK ==
    /\ heap \in Heaps
    /\ strings \subseteq {o \in Objects : heap[o].kind = "string"}
    /\ open \subseteq {o \in Objects : heap[o].kind = "upvalue"}

(* So do the other roots. *)
RootsTyped ==
    /\ names \subseteq Objects /\ compilers \in Seq(Objects) /\ program \in Programs
    /\ stack \in Seq(Values) /\ globals \in [Globals -> Values]

LEMMA TypeParts ==
    TypeOK <=> /\ MemoryOK /\ RootsTyped
               /\ pc \in {"idle", "find", "characters", "object", "intern", "interned",
                          "append", "store", "put", "closure", "capture", "compile",
                          "native", "register"}
BY DEF TypeOK, MemoryOK, RootsTyped, Heaps, Records, Kinds

(* The heap gives a function from objects to sets of objects. *)
LEMMA ReferencesType ==
    ASSUME MemoryOK
    PROVE  References \in [Objects -> SUBSET Objects]
BY DEF MemoryOK, References, Heaps, Records

LEMMA RootsType ==
    ASSUME MemoryOK, RootsTyped, NEW s \in Seq(Values)
    PROVE  RootsOf(s) \in SUBSET Objects /\ open \subseteq RootsOf(s)
<1>1. ToSet(s) \subseteq Values BY Elements
<1>2. ToSet(compilers) \subseteq Objects BY Elements DEF RootsTyped
<1>3. Range(globals) \subseteq Values BY DEF RootsTyped, Range
<1>4. open \subseteq Objects BY DEF MemoryOK
<1> QED BY <1>1, <1>2, <1>3, <1>4, HeapAssumption DEF RootsOf, Values, RootsTyped

LEMMA FreeType == Free \in Records /\ Free.kind = "free"
BY DEF Free, New, Records, Kinds, Values

(* A collection frees some objects and leaves what is reached as it was. *)
LEMMA MemoriesOK ==
    ASSUME MemoryOK, RootsTyped, NEW s \in Seq(Values), NEW h \in Memories(s)
    PROVE  /\ h \in Heaps
           /\ \A o \in Objects : h[o] = heap[o] \/ h[o] = Free
           /\ \A o \in Reachable(RootsOf(s), References) : h[o] = heap[o]
           /\ Interned(h) \subseteq {o \in Objects : h[o].kind = "string"}
           /\ open \subseteq {o \in Objects : h[o].kind = "upvalue"}
<1> DEFINE N == Reachable(RootsOf(s), References)
<1>1. N \subseteq Objects /\ RootsOf(s) \subseteq N
      BY ReferencesType, RootsType, ReachableLeast
<1>2. open \subseteq N BY <1>1, RootsType
<1>3. CASE h = heap
      BY <1>1, <1>3 DEF MemoryOK, Interned
<1>4. CASE h = [o \in Objects |-> IF o \in N THEN heap[o] ELSE Free]
  <2>1. h \in Heaps BY <1>4, FreeType DEF MemoryOK, Heaps
  <2>2. \A o \in Objects : h[o] = heap[o] \/ h[o] = Free BY <1>4
  <2>3. \A o \in N : h[o] = heap[o] BY <1>1, <1>4
  <2>4. Interned(h) \subseteq {o \in Objects : h[o].kind = "string"}
        BY <2>2, FreeType DEF MemoryOK, Interned
  <2>5. open \subseteq {o \in Objects : h[o].kind = "upvalue"}
        BY <1>2, <2>3 DEF MemoryOK
  <2> QED BY <2>1, <2>2, <2>3, <2>4, <2>5
<1> QED BY <1>3, <1>4 DEF Memories, Collected

(* reallocate() *)
LEMMA ReallocateOK ==
    ASSUME MemoryOK, RootsTyped, NEW s \in Seq(Values), Reallocate(s), open' = open
    PROVE  MemoryOK'
BY MemoriesOK DEF Reallocate, MemoryOK

(* allocateObject() *)
LEMMA AllocateOK ==
    ASSUME MemoryOK, RootsTyped, NEW s \in Seq(Values), NEW kind \in Kinds \ {"free"},
           NEW content \in Contents \cup {Nil}, NEW o \in Objects,
           Allocate(s, kind, content, o), open' = open
    PROVE  /\ MemoryOK'
           /\ heap'[o] = New(kind, content)
<1>1. PICK h \in Memories(s) :
        /\ h[o].kind = "free"
        /\ heap' = [h EXCEPT ![o] = New(kind, content)]
        /\ strings' = Interned(h)
      BY DEF Allocate
<1>2. New(kind, content) \in Records BY DEF New, Records, Values
<1>3. /\ h \in Heaps
      /\ Interned(h) \subseteq {q \in Objects : h[q].kind = "string"}
      /\ open \subseteq {q \in Objects : h[q].kind = "upvalue"}
      BY MemoriesOK
<1>4. heap' \in Heaps /\ heap'[o] = New(kind, content)
      /\ \A q \in Objects : q # o => heap'[q] = h[q]
      BY <1>1, <1>2, <1>3 DEF Heaps
<1>5. strings' \subseteq {q \in Objects : heap'[q].kind = "string"}
      BY <1>1, <1>3, <1>4
<1>6. open' \subseteq {q \in Objects : heap'[q].kind = "upvalue"}
      BY <1>1, <1>3, <1>4
<1> QED BY <1>4, <1>5, <1>6 DEF MemoryOK

(* The references of one object are changed. *)
LEMMA ReplacedOK ==
    ASSUME MemoryOK, NEW o \in Objects, NEW old, NEW new, new \subseteq Values,
           heap' = Replaced(o, old, new), strings' = strings, open' \subseteq open
    PROVE  MemoryOK'
<1>1. (heap[o].refs \ old) \cup (new \ {Nil}) \in SUBSET Objects
      BY DEF MemoryOK, Heaps, Records, Values
<1>2. heap' = [heap EXCEPT ![o].refs = (heap[o].refs \ old) \cup (new \ {Nil})]
      BY DEF Replaced
<1>3. heap' \in Heaps /\ \A q \in Objects : heap'[q].kind = heap[q].kind
      BY <1>1, <1>2 DEF MemoryOK, Heaps, Records
<1> QED BY <1>3 DEF MemoryOK

-----------------------------------------------------------------------------
(* Where the C code is determines what its locals hold and how high the stack *)
(* is.                                                                        *)

Uses == {"result", "message", "piece", "constant", "global", "functionName", "nativeName"}
Jobs == [drop : Nat, height : Nat, content : Contents \cup {Nil}, use : Uses, took : BOOLEAN,
         held : SUBSET Objects, made : Values, target : Values,
         items : Seq(Seq(Values)), pieces : Seq(Contents)]

Interning == pc \in {"find", "characters", "object", "intern", "interned"}
Filling == pc \in {"append", "store"}

(* The stack of an operation that will leave one result, with its temporaries. *)
Height(temporaries) == job.height >= 1 /\ Len(stack) = job.height + job.drop - 1 + temporaries

JobOK ==
    /\ job \in Jobs
    /\ pc \in {"idle", "compile"} => job = NoJob
    /\ job.made # Nil <=> pc \in {"intern", "interned"}
    /\ pc \in {"intern", "interned"} => stack # <<>> /\ Last(stack) = job.made
    /\ job.use = "piece" <=> job.pieces # <<>>
    /\ job.use = "piece" => job.drop >= 1

CompilingOK ==
    /\ pc = "compile" => stack = <<>>
    /\ pc = "compile" \/ job.use \in {"constant", "functionName"} => compilers # <<>>

(* The stack while a string is made for a caller, with its temporaries. *)
CallerOK(temporaries) ==
    /\ job.use \in {"result", "piece"} => Height(temporaries)
    /\ job.use \in {"constant", "functionName", "global"} => Len(stack) = temporaries
    /\ job.use = "nativeName" =>
          Len(stack) = 2 + temporaries /\ stack[1] # Nil /\ stack[2] = job.target
    /\ job.use = "piece" => stack[job.height + job.drop - 1] = job.target

(* The new string is on the stack while the interner grows. *)
InterningOK ==
    Interning =>
        /\ job.content # Nil
        /\ job.use \in {"piece", "constant", "functionName", "nativeName"} =>
              job.target \in Objects
        /\ pc \in {"find", "characters", "object"} => CallerOK(0)
        /\ pc \in {"intern", "interned"} => CallerOK(1) /\ heap[job.made].kind = "string"

FillingOK ==
    Filling =>
        /\ job.target \in Objects /\ job.use \in {"result", "piece", "constant"}
        /\ job.use = "result" => Height(0)
        /\ job.use = "piece" => Height(1) /\ stack[job.height + job.drop - 1] = job.target
        /\ job.use = "constant" => Len(stack) = 1
        /\ pc = "store" => job.items # <<>>

OthersOK ==
    /\ pc = "put" =>
        /\ job.target \in Objects /\ job.drop = 0 /\ Height(0)
        /\ Len(job.items) = 1 /\ Len(job.items[1]) = 2
    /\ pc = "closure" => Height(0)
    /\ pc = "capture" => job.target \in Objects /\ Len(stack) = job.height
    /\ pc = "native" =>
          Len(stack) = 1 /\ stack[1] # Nil /\ job.use = "global" /\ job.content # Nil
    /\ pc = "register" => Len(stack) = 2 /\ stack[1] # Nil /\ job.use = "nativeName"

Control == JobOK /\ CompilingOK /\ InterningOK /\ FillingOK /\ OthersOK

Shape == TypeOK /\ Control

LEMMA NoJobType ==
    /\ NoJob \in Jobs
    /\ NoJob.drop = 0 /\ NoJob.height = 0 /\ NoJob.content = Nil /\ NoJob.use = "result"
    /\ NoJob.took = FALSE /\ NoJob.held = {} /\ NoJob.made = Nil /\ NoJob.target = Nil
    /\ NoJob.items = <<>> /\ NoJob.pieces = <<>>
BY DEF NoJob, Jobs, Uses, Values

(* Between two operations nothing is asked of the stack. *)
LEMMA IdleControl ==
    ASSUME pc' = "idle", job' = NoJob
    PROVE  Control'
BY NoJobType
   DEF Control, JobOK, CompilingOK, InterningOK, FillingOK, OthersOK, Interning, Filling

LEMMA IdleShape ==
    ASSUME MemoryOK', RootsTyped', pc' = "idle", job' = NoJob
    PROVE  Shape'
<1>1. TypeOK' BY DEF TypeOK, MemoryOK, RootsTyped, Heaps, Records, Kinds
<1> QED BY <1>1, IdleControl DEF Shape

LEMMA InitShape == Init => Shape
<1> SUFFICES ASSUME Init PROVE Shape OBVIOUS
<1>1. MemoryOK BY FreeType DEF Init, MemoryOK, Heaps
<1>2. RootsTyped BY DEF Init, RootsTyped, Values
<1>3. Control
      BY NoJobType DEF Init, Control, JobOK, CompilingOK, InterningOK, FillingOK, OthersOK,
         Interning, Filling
<1> QED BY <1>1, <1>2, <1>3, TypeParts DEF Init, Shape

-----------------------------------------------------------------------------
(* Every action keeps the shape. *)

(* The instructions that allocate nothing but a slot of the globals. *)
LEMMA InstructionShape == Shape /\ Instruction => Shape'
<1> SUFFICES ASSUME Shape, Instruction PROVE Shape' OBVIOUS
<1>0. MemoryOK /\ RootsTyped /\ stack \in Seq(Values) BY TypeParts DEF Shape, RootsTyped
<1>1. ASSUME NEW v \in Values, Load(v) PROVE Shape'
  <2>1. Append(stack, v) \in Seq(Values) BY <1>0
  <2>2. MemoryOK' /\ RootsTyped' BY <1>0, <1>1, <2>1 DEF Load, MemoryOK, RootsTyped, static
  <2>3. pc' = "idle" /\ job' = NoJob BY <1>1 DEF Load, Idle, Shape, Control, JobOK
  <2> QED BY <2>2, <2>3, IdleShape
<1>2. ASSUME NEW v \in Values, GetIndex(v) PROVE Shape'
  <2>1. Append(Drop(2), v) \in Seq(Values) BY <1>0, <1>2, DropOK DEF GetIndex, Idle
  <2>2. MemoryOK' /\ RootsTyped' BY <1>0, <1>2, <2>1 DEF GetIndex, MemoryOK, RootsTyped, static
  <2>3. pc' = "idle" /\ job' = NoJob BY <1>2 DEF GetIndex, Idle, Shape, Control, JobOK
  <2> QED BY <2>2, <2>3, IdleShape
<1>3. ASSUME NEW v \in Values, SetIndexArray(v) PROVE Shape'
  <2>1. Len(stack) >= 3 /\ Peek(2) # Nil BY <1>3 DEF SetIndexArray, Idle, Is
  <2>2. Peek(0) \in Values /\ Peek(2) \in Objects BY <1>0, <2>1, PeekOK DEF Values
  <2>3. Append(Drop(3), Peek(0)) \in Seq(Values) BY <1>0, <2>1, <2>2, DropOK
  <2>4. MemoryOK' BY <1>0, <1>3, <2>2, ReplacedOK DEF SetIndexArray
  <2>5. RootsTyped' BY <1>0, <1>3, <2>3 DEF SetIndexArray, RootsTyped, static
  <2>6. pc' = "idle" /\ job' = NoJob BY <1>3 DEF SetIndexArray, Idle, Shape, Control, JobOK
  <2> QED BY <2>4, <2>5, <2>6, IdleShape
<1>4. CASE Pop
  <2>1. Drop(1) \in Seq(Values) BY <1>0, <1>4, DropOK DEF Pop, Idle
  <2>2. MemoryOK' /\ RootsTyped' BY <1>0, <1>4, <2>1 DEF Pop, MemoryOK, RootsTyped, static
  <2>3. pc' = "idle" /\ job' = NoJob BY <1>4 DEF Pop, Idle, Shape, Control, JobOK
  <2> QED BY <2>2, <2>3, IdleShape
<1>5. CASE RuntimeError
  <2>1. MemoryOK' /\ RootsTyped'
        BY <1>0, <1>5 DEF RuntimeError, MemoryOK, RootsTyped, static
  <2>2. pc' = "idle" /\ job' = NoJob BY <1>5 DEF RuntimeError, Idle, Shape, Control, JobOK
  <2> QED BY <2>1, <2>2, IdleShape
<1>6. ASSUME NEW g \in Globals, SetGlobal(g) \/ DefineGlobal(g) PROVE Shape'
  <2>1. Len(stack) >= 1 /\ open' = open /\ Reallocate(stack) /\ pc = "idle"
        BY <1>6 DEF SetGlobal, DefineGlobal, Idle
  <2>2. MemoryOK' BY <1>0, <2>1, ReallocateOK
  <2>3. Peek(0) \in Values /\ Drop(1) \in Seq(Values) BY <1>0, <2>1, PeekOK, DropOK
  <2>4. RootsTyped' BY <1>0, <1>6, <2>3 DEF SetGlobal, DefineGlobal, RootsTyped
  <2>5. pc' = "idle" /\ job' = NoJob
        BY <1>6, <2>1 DEF SetGlobal, DefineGlobal, Shape, Control, JobOK
  <2> QED BY <2>2, <2>4, <2>5, IdleShape
<1> QED BY <1>1, <1>2, <1>3, <1>4, <1>5, <1>6 DEF Instruction

(* The stack on which the caller of copyString finds its operands. *)
CallerStack(s) ==
    /\ s \in Seq(Values)
    /\ job.use \in {"result", "piece"} => job.height >= 1 /\ Len(s) = job.height + job.drop - 1
    /\ job.use \in {"constant", "functionName", "global"} => Len(s) = 0
    /\ job.use = "nativeName" => Len(s) = 2 /\ s[1] # Nil
    /\ job.use = "piece" => s[job.height + job.drop - 1] = job.target

(* A result takes the place of what the operation has on the stack. *)
LEMMA FinishOK ==
    ASSUME job \in Jobs, NEW s \in Seq(Values), job.height >= 1,
           Len(s) = job.height + job.drop - 1, NEW result \in Values, Finish(s, result)
    PROVE  /\ stack' \in Seq(Values) /\ Len(stack') = job.height
           /\ ToSet(stack') \subseteq ToSet(s) \cup {result}
<1> DEFINE m == Len(s) - job.drop
           t == SubSeq(s, 1, m)
<1>1. job.height \in Nat /\ job.drop \in Nat BY DEF Jobs
<1>2. m \in 0..Len(s) /\ m + 1 = job.height BY <1>1
<1>3. stack' = Append(t, result) BY DEF Finish
<1> HIDE DEF m
<1>4. t \in Seq(Values) /\ Len(t) = m /\ ToSet(t) \subseteq ToSet(s)
      BY <1>2, Prefix, PrefixElements
<1> HIDE DEF t
<1>5. /\ Append(t, result) \in Seq(Values) /\ Len(Append(t, result)) = Len(t) + 1
      /\ ToSet(Append(t, result)) = ToSet(t) \cup {result}
      BY <1>4, AppendElements
<1> QED BY <1>2, <1>3, <1>4, <1>5

(* The caller of copyString gets its string. *)
LEMMA DeliverShape ==
    ASSUME Shape, Interning, NEW s, CallerStack(s), NEW string \in Objects, Deliver(s, string),
           strings' \subseteq {o \in Objects : heap[o].kind = "string"}, UNCHANGED static
    PROVE  Shape'
<1>1. /\ MemoryOK /\ RootsTyped /\ job \in Jobs /\ s \in Seq(Values) /\ string \in Values
      /\ job.drop \in Nat /\ job.height \in Nat
      BY TypeParts DEF Shape, Control, JobOK, CallerStack, Values, Jobs
<1>2. Append(s, string) \in Seq(Values) /\ Len(Append(s, string)) = Len(s) + 1
      /\ \A i \in 1..Len(s) : Append(s, string)[i] = s[i]
      BY <1>1
<1>3. CASE job.use = "result"
  <2>1. UNCHANGED <<heap, open>> /\ Finish(s, string) BY <1>3 DEF Deliver
  <2>2. MemoryOK' BY <1>1, <2>1 DEF MemoryOK
  <2>3. job.height >= 1 /\ Len(s) = job.height + job.drop - 1 BY <1>3 DEF CallerStack
  <2>5. stack' \in Seq(Values) BY <1>1, <2>1, <2>3, FinishOK
  <2>6. RootsTyped' BY <1>1, <2>5 DEF RootsTyped, static
  <2> QED BY <2>1, <2>2, <2>6, IdleShape DEF Finish
<1>4. CASE job.use = "message"
  <2>1. stack' = <<>> /\ open' = {} /\ pc' = "idle" /\ job' = NoJob /\ heap' = heap
        BY <1>4 DEF Deliver
  <2>2. MemoryOK' /\ RootsTyped' BY <1>1, <2>1 DEF MemoryOK, RootsTyped, static
  <2> QED BY <2>1, <2>2, IdleShape
<1>5. CASE job.use \in {"piece", "constant"}
  <2>1. /\ stack' = Append(s, string) /\ pc' = "append" /\ heap' = heap /\ open' = open
        /\ job' = [job EXCEPT !.items = <<<<string>>>>, !.made = Nil]
        BY <1>5 DEF Deliver
  <2>2. MemoryOK' /\ RootsTyped' BY <1>1, <1>2, <2>1 DEF MemoryOK, RootsTyped, static
  <2>3. TypeOK' BY <2>1, <2>2 DEF TypeOK, MemoryOK, RootsTyped, Heaps, Records, Kinds
  <2>4. <<<<string>>>> \in Seq(Seq(Values)) BY <1>1
  <2>5. /\ job' \in Jobs /\ job'.use = job.use /\ job'.drop = job.drop
        /\ job'.height = job.height /\ job'.target = job.target /\ job'.made = Nil
        /\ job'.pieces = job.pieces
        BY <1>1, <2>1, <2>4 DEF Jobs, Values
  <2>6. JobOK' BY <2>1, <2>5 DEF Shape, Control, JobOK
  <2>7. CompilingOK' BY <2>1, <2>5 DEF Shape, Control, CompilingOK, static
  <2>8. FillingOK'
    <3>1. job.target \in Objects BY <1>5 DEF Shape, Control, InterningOK
    <3>2. CASE job.use = "piece"
      <4>1. job.drop >= 1 /\ job.height >= 1 /\ Len(s) = job.height + job.drop - 1
            /\ s[job.height + job.drop - 1] = job.target
            BY <3>2 DEF CallerStack, Shape, Control, JobOK
      <4>2. job.height + job.drop - 1 \in 1..Len(s) BY <1>1, <4>1
      <4>3. Len(stack') = job.height + job.drop - 1 + 1
            /\ stack'[job.height + job.drop - 1] = job.target
            BY <1>1, <1>2, <2>1, <4>1, <4>2
      <4> QED BY <2>1, <2>5, <3>1, <3>2, <4>1, <4>3 DEF FillingOK, Height
    <3>3. CASE job.use = "constant"
      <4>1. Len(stack') = 1 BY <1>2, <2>1, <3>3 DEF CallerStack
      <4> QED BY <2>1, <2>5, <3>1, <3>3, <4>1 DEF FillingOK
    <3> QED BY <1>5, <3>2, <3>3
  <2> QED BY <2>1, <2>3, <2>6, <2>7, <2>8
          DEF Shape, Control, InterningOK, OthersOK, Interning
<1>6. CASE job.use = "global"
  <2>1. /\ stack' = Append(s, string) /\ pc' = "native" /\ heap' = heap /\ open' = open
        /\ job' = [job EXCEPT !.made = Nil]
        BY <1>6 DEF Deliver
  <2>2. MemoryOK' /\ RootsTyped' BY <1>1, <1>2, <2>1 DEF MemoryOK, RootsTyped, static
  <2>3. TypeOK' BY <2>1, <2>2 DEF TypeOK, MemoryOK, RootsTyped, Heaps, Records, Kinds
  <2>4. job' \in Jobs /\ job'.use = job.use /\ job'.made = Nil /\ job'.pieces = job.pieces
        BY <1>1, <2>1 DEF Jobs, Values
  <2>5. Len(stack') = 1 /\ stack'[1] # Nil /\ job'.content # Nil
    <3>1. Len(s) = 0 BY <1>2, <1>6 DEF CallerStack
    <3>2. Len(stack') = 1 /\ stack'[1] = string BY <1>1, <2>1, <3>1
    <3>3. job'.content = job.content /\ string # Nil /\ job.content # Nil
          BY <1>1, <2>1, HeapAssumption DEF Shape, Control, InterningOK, Jobs
    <3> QED BY <3>2, <3>3
  <2>6. JobOK' BY <1>6, <2>1, <2>4 DEF Shape, Control, JobOK
  <2> QED BY <1>6, <2>1, <2>3, <2>4, <2>5, <2>6
          DEF Shape, Control, CompilingOK, InterningOK, FillingOK, OthersOK, Interning, Filling
<1>7. CASE job.use = "functionName"
  <2>1. /\ heap' = [heap EXCEPT ![job.target].refs = @ \cup {string}]
        /\ stack' = s /\ pc' = "compile" /\ job' = NoJob /\ open' = open
        BY <1>7 DEF Deliver
  <2>2. job.target \in Objects /\ compilers # <<>>
        BY <1>7 DEF Shape, Control, InterningOK, CompilingOK
  <2>3. heap' \in Heaps /\ \A o \in Objects : heap'[o].kind = heap[o].kind
        BY <1>1, <2>1, <2>2 DEF MemoryOK, Heaps, Records
  <2>4. MemoryOK' BY <1>1, <2>1, <2>3 DEF MemoryOK
  <2>5. RootsTyped' /\ stack' = <<>> /\ compilers' # <<>>
    <3>1. Len(s) = 0 BY <1>7 DEF CallerStack
    <3>2. s = <<>> BY <1>1, <3>1
    <3> QED BY <1>1, <2>1, <2>2, <3>2 DEF RootsTyped, static
  <2>6. TypeOK' BY <2>1, <2>4, <2>5 DEF TypeOK, MemoryOK, RootsTyped, Heaps, Records, Kinds
  <2> QED BY <2>1, <2>5, <2>6, NoJobType
          DEF Shape, Control, JobOK, CompilingOK, InterningOK, FillingOK, OthersOK, Interning,
              Filling
<1>8. CASE job.use = "nativeName"
  <2>1. /\ heap' = [heap EXCEPT ![job.target].name = string]
        /\ stack' = s /\ pc' = "register" /\ job' = [job EXCEPT !.made = Nil] /\ open' = open
        BY <1>8 DEF Deliver
  <2>2. job.target \in Objects BY <1>8 DEF Shape, Control, InterningOK
  <2>3. heap' \in Heaps /\ \A o \in Objects : heap'[o].kind = heap[o].kind
        BY <1>1, <2>1, <2>2 DEF MemoryOK, Heaps, Records
  <2>4. MemoryOK' BY <1>1, <2>1, <2>3 DEF MemoryOK
  <2>5. RootsTyped' /\ Len(stack') = 2 /\ stack'[1] # Nil
        BY <1>1, <1>8, <2>1 DEF RootsTyped, static, CallerStack
  <2>6. job' \in Jobs /\ job'.use = job.use /\ job'.made = Nil /\ job'.pieces = job.pieces
        BY <1>1, <2>1 DEF Jobs, Values
  <2>7. TypeOK' BY <2>1, <2>4, <2>5 DEF TypeOK, MemoryOK, RootsTyped, Heaps, Records, Kinds
  <2>8. JobOK' BY <1>8, <2>1, <2>6 DEF Shape, Control, JobOK
  <2> QED BY <1>8, <2>1, <2>5, <2>6, <2>7, <2>8
          DEF Shape, Control, CompilingOK, InterningOK, FillingOK, OthersOK, Interning, Filling
<1> QED BY <1>1, <1>3, <1>4, <1>5, <1>6, <1>7, <1>8 DEF Jobs, Uses

(* A native, an instruction or the compiler asks for a string. *)
LEMMA BeginStringShape ==
    ASSUME Shape, NEW c \in Contents,
           BeginCopy(c) \/ NativeFails(c) \/ BeginConcatenate(c) \/ BeginGetIndexString(c)
    PROVE  Shape'
<1>0. /\ MemoryOK /\ RootsTyped /\ stack \in Seq(Values) /\ c # Nil
      /\ Len(stack) >= 2 /\ pc' = "find" /\ UNCHANGED <<open, static>>
  <2>1. MemoryOK /\ RootsTyped /\ stack \in Seq(Values) BY TypeParts DEF Shape, RootsTyped
  <2>2. c # Nil BY HeapAssumption
  <2>3. Len(stack) >= 2 /\ pc' = "find" /\ UNCHANGED <<open, static>>
        BY DEF BeginCopy, NativeFails, BeginConcatenate, BeginGetIndexString, Idle, roots
  <2> QED BY <2>1, <2>2, <2>3
<1>1. /\ stack' \in Seq(Values) /\ MemoryOK' /\ job' \in Jobs
      /\ job'.content = c /\ job'.use \in {"result", "message"} /\ job'.made = Nil
      /\ job'.pieces = <<>> /\ job'.height >= 1
      /\ Len(stack') = job'.height + job'.drop - 1
  <2> DEFINE h == Len(stack) - 2 + 1
  <2>1. h \in Nat /\ h >= 1 BY <1>0
  <2>2. CASE BeginCopy(c)
    <3>1. /\ job' = [[NoJob EXCEPT !.drop = 2, !.content = c] EXCEPT !.height = h]
          /\ UNCHANGED <<heap, strings, roots>>
          BY <2>2 DEF BeginCopy, Start
    <3> HIDE DEF h
    <3>2. /\ job' \in Jobs /\ job'.content = c /\ job'.use = "result" /\ job'.made = Nil
          /\ job'.pieces = <<>> /\ job'.height = h /\ job'.drop = 2
          BY <2>1, <3>1, NoJobType DEF Jobs
    <3> QED BY <1>0, <2>1, <3>1, <3>2 DEF h, MemoryOK, roots
  <2>3. CASE NativeFails(c)
    <3>1. /\ job' = [[NoJob EXCEPT !.drop = 2, !.content = c, !.use = "message"]
                       EXCEPT !.height = h]
          /\ UNCHANGED <<heap, strings, roots>>
          BY <2>3 DEF NativeFails, Start
    <3> HIDE DEF h
    <3>2. /\ job' \in Jobs /\ job'.content = c /\ job'.use = "message" /\ job'.made = Nil
          /\ job'.pieces = <<>> /\ job'.height = h /\ job'.drop = 2
          BY <2>1, <3>1, NoJobType DEF Jobs, Uses
    <3> QED BY <1>0, <2>1, <3>1, <3>2 DEF h, MemoryOK, roots
  <2>4. CASE BeginConcatenate(c)
    <3>1. /\ job' = [[NoJob EXCEPT !.drop = 2, !.content = c, !.took = TRUE,
                                   !.held = {Peek(0), Peek(1)}] EXCEPT !.height = h]
          /\ Reallocate(stack) /\ stack' = stack /\ open' = open
          /\ Peek(0) # Nil /\ Peek(1) # Nil
          BY <2>4 DEF BeginConcatenate, Start, roots, Is
    <3>2. {Peek(0), Peek(1)} \subseteq Objects BY <1>0, <3>1, PeekOK DEF Values
    <3> HIDE DEF h
    <3>3. /\ job' \in Jobs /\ job'.content = c /\ job'.use = "result" /\ job'.made = Nil
          /\ job'.pieces = <<>> /\ job'.height = h /\ job'.drop = 2
          BY <2>1, <3>1, <3>2, NoJobType DEF Jobs
    <3>4. MemoryOK' BY <1>0, <3>1, ReallocateOK
    <3> QED BY <1>0, <2>1, <3>1, <3>3, <3>4 DEF h
  <2>5. CASE BeginGetIndexString(c)
    <3>1. /\ job' = [[NoJob EXCEPT !.content = c, !.held = {Peek(1)}] EXCEPT !.height = h]
          /\ stack' = Drop(2) /\ UNCHANGED <<heap, strings, open>> /\ Peek(1) # Nil
          BY <2>5 DEF BeginGetIndexString, Start, Is
    <3>2. {Peek(1)} \subseteq Objects BY <1>0, <3>1, PeekOK DEF Values
    <3> HIDE DEF h
    <3>3. /\ job' \in Jobs /\ job'.content = c /\ job'.use = "result" /\ job'.made = Nil
          /\ job'.pieces = <<>> /\ job'.height = h /\ job'.drop = 0
          BY <2>1, <3>1, <3>2, NoJobType DEF Jobs
    <3>4. MemoryOK' BY <1>0, <3>1 DEF MemoryOK
    <3> QED BY <1>0, <2>1, <3>1, <3>3, <3>4, DropOK DEF h
  <2> QED BY <2>2, <2>3, <2>4, <2>5
<1>2. RootsTyped' BY <1>0, <1>1 DEF RootsTyped, static
<1>3. TypeOK' BY <1>0, <1>1, <1>2 DEF TypeOK, MemoryOK, RootsTyped, Heaps, Records, Kinds
<1>4. JobOK' BY <1>0, <1>1 DEF JobOK
<1>5. InterningOK'
  <2>1. job'.height + job'.drop - 1 + 0 = job'.height + job'.drop - 1
        BY <1>1 DEF Jobs
  <2>2. CallerOK(0)' BY <1>1, <2>1 DEF CallerOK, Height
  <2> QED BY <1>0, <1>1, <2>2 DEF InterningOK
<1> QED BY <1>0, <1>1, <1>3, <1>4, <1>5
        DEF Shape, Control, CompilingOK, FillingOK, OthersOK, Filling

(* The stack that the caller of copyString gets its string on. *)
LEMMA FindCaller == Shape /\ pc = "find" => CallerStack(stack)
<1> SUFFICES ASSUME Shape, pc = "find" PROVE CallerStack(stack) OBVIOUS
<1>1. stack \in Seq(Values) /\ job.height \in Nat /\ job.drop \in Nat
      BY TypeParts DEF RootsTyped, Shape, Control, JobOK, Jobs
<1>2. CallerOK(0) BY DEF Shape, Control, InterningOK, Interning
<1>3. job.height + job.drop - 1 + 0 = job.height + job.drop - 1 BY <1>1
<1> QED BY <1>1, <1>2, <1>3 DEF CallerStack, CallerOK, Height

(* The interner is asked, and allocateString makes the string it lacks. *)
LEMMA FindShape == Shape /\ Find => Shape'
<1> SUFFICES ASSUME Shape, Find PROVE Shape' OBVIOUS
<1>1. MemoryOK /\ RootsTyped /\ pc = "find" /\ Interning /\ strings' = strings
      /\ UNCHANGED static
      BY TypeParts DEF Shape, Find, Interning
<1>2. CASE \E s \in strings : heap[s].content = job.content /\ Deliver(stack, s)
  <2>1. PICK s \in strings : Deliver(stack, s) BY <1>2
  <2>2. s \in Objects /\ strings' \subseteq {o \in Objects : heap[o].kind = "string"}
        BY <1>1 DEF MemoryOK
  <2>3. CallerStack(stack) BY <1>1, FindCaller
  <2> QED BY <1>1, <2>1, <2>2, <2>3, DeliverShape
<1>3. CASE /\ pc' = (IF job.took THEN "object" ELSE "characters")
           /\ UNCHANGED <<heap, stack, open, job>>
  <2>1. pc' \in {"object", "characters"} /\ UNCHANGED <<heap, stack, open, job>>
        /\ compilers' = compilers
        BY <1>1, <1>3 DEF static
  <2>2. MemoryOK' /\ RootsTyped' BY <1>1, <1>3 DEF MemoryOK, RootsTyped, static
  <2>3. TypeOK' BY <2>1, <2>2 DEF TypeOK, MemoryOK, RootsTyped, Heaps, Records, Kinds
  <2>4. JobOK' BY <1>1, <2>1 DEF Shape, Control, JobOK
  <2>6. InterningOK' BY <1>1, <2>1 DEF Shape, Control, InterningOK, CallerOK, Height
  <2>7. CompilingOK' BY <1>1, <2>1 DEF Shape, Control, CompilingOK
  <2> QED BY <2>1, <2>3, <2>4, <2>6, <2>7 DEF Shape, Control, FillingOK, OthersOK, Filling
<1> QED BY <1>2, <1>3 DEF Find

LEMMA AllocateCharactersShape == Shape /\ AllocateCharacters => Shape'
<1> SUFFICES ASSUME Shape, AllocateCharacters PROVE Shape' OBVIOUS
<1>1. /\ MemoryOK /\ RootsTyped /\ stack \in Seq(Values) /\ pc = "characters" /\ pc' = "object"
      /\ Reallocate(stack) /\ UNCHANGED <<roots, job>>
      BY TypeParts DEF Shape, AllocateCharacters, RootsTyped
<1>2. UNCHANGED <<stack, open, compilers, job>> BY <1>1 DEF roots, static
<1>3. MemoryOK' BY <1>1, <1>2, ReallocateOK
<1>4. RootsTyped' BY <1>1 DEF RootsTyped, roots, static
<1>5. TypeOK' BY <1>1, <1>3, <1>4 DEF TypeOK, MemoryOK, RootsTyped, Heaps, Records, Kinds
<1>6. JobOK' BY <1>1, <1>2 DEF Shape, Control, JobOK
<1>8. InterningOK'
      BY <1>1, <1>2 DEF Shape, Control, InterningOK, CallerOK, Height, Interning
<1>9. CompilingOK' BY <1>1, <1>2 DEF Shape, Control, CompilingOK
<1> QED BY <1>1, <1>5, <1>6, <1>8, <1>9 DEF Shape, Control, FillingOK, OthersOK, Filling

LEMMA AllocateStringShape ==
    ASSUME Shape, NEW o \in Objects, AllocateString(o)
    PROVE  Shape'
<1>1. /\ MemoryOK /\ RootsTyped /\ stack \in Seq(Values) /\ pc = "object" /\ pc' = "intern"
      /\ Allocate(stack, "string", job.content, o) /\ stack' = Append(stack, o)
      /\ job' = [job EXCEPT !.held = {}, !.made = o] /\ open' = open /\ UNCHANGED static
      BY TypeParts DEF Shape, AllocateString, RootsTyped
<1>2. job \in Jobs /\ o \in Values /\ o # Nil /\ job.content \in Contents \cup {Nil}
      BY HeapAssumption DEF Shape, Control, JobOK, Jobs, Values
<1>3. MemoryOK' /\ heap'[o].kind = "string"
  <2>1. MemoryOK' /\ heap'[o] = New("string", job.content)
        BY <1>1, <1>2, AllocateOK DEF Kinds
  <2> QED BY <2>1 DEF New
<1>4. /\ stack' \in Seq(Values) /\ Len(stack') = Len(stack) + 1 /\ Last(stack') = o
      /\ \A i \in 1..Len(stack) : stack'[i] = stack[i]
      BY <1>1, <1>2, AppendElements
<1>5. RootsTyped' BY <1>1, <1>4 DEF RootsTyped, static
<1>6. TypeOK' BY <1>1, <1>3, <1>5 DEF TypeOK, MemoryOK, RootsTyped, Heaps, Records, Kinds
<1>7. /\ job' \in Jobs /\ job'.made = o /\ job'.use = job.use /\ job'.pieces = job.pieces
      /\ job'.drop = job.drop /\ job'.height = job.height /\ job'.target = job.target
      /\ job'.content = job.content
      BY <1>1, <1>2 DEF Jobs
<1>8. JobOK'
  <2>1. stack' # <<>> BY <1>1, <1>4
  <2> QED BY <1>1, <1>2, <1>4, <1>7, <2>1 DEF Shape, Control, JobOK
<1>9. InterningOK'
  <2>1. Interning BY <1>1 DEF Interning
  <2>2. job.height \in Nat /\ job.drop \in Nat BY <1>2 DEF Jobs
  <2>3. /\ job.content # Nil /\ CallerOK(0)
        /\ job.use \in {"piece", "constant", "functionName", "nativeName"} =>
              job.target \in Objects
        /\ job.use = "piece" => job.drop >= 1
        BY <1>1, <2>1 DEF Shape, Control, InterningOK, JobOK
  <2> DEFINE n == Len(stack)
             h == job.height
             d == job.drop
  <2>9. /\ job.use \in {"result", "piece"} => h >= 1 /\ n = h + d - 1 + 0
        /\ job.use \in {"constant", "functionName", "global"} => n = 0
        /\ job.use = "nativeName" => n = 2 + 0 /\ stack[1] # Nil /\ stack[2] = job.target
        /\ job.use = "piece" => stack[h + d - 1] = job.target
        BY <2>3 DEF CallerOK, Height
  <2>10. n \in Nat /\ h \in Nat /\ d \in Nat /\ Len(stack') = n + 1
         /\ \A i \in 1..n : stack'[i] = stack[i]
         BY <1>1, <1>4, <2>2
  <2> HIDE DEF n, h, d
  <2>4. job.use \in {"result", "piece"} => h >= 1 /\ Len(stack') = h + d - 1 + 1
        BY ONLY <2>9, <2>10
  <2>5. job.use = "piece" => stack'[h + d - 1] = job.target
    <3> SUFFICES ASSUME job.use = "piece" PROVE stack'[h + d - 1] = job.target OBVIOUS
    <3>1. h >= 1 /\ d >= 1 /\ n = h + d - 1 BY <2>3, <2>9, <2>10 DEF d
    <3>2. h + d - 1 \in 1..n BY ONLY <3>1, <2>10
    <3> QED BY <3>2, <2>9, <2>10
  <2>6. job.use = "nativeName" =>
          Len(stack') = 2 + 1 /\ stack'[1] # Nil /\ stack'[2] = job.target
        BY ONLY <2>9, <2>10
  <2>7. job.use \in {"constant", "functionName", "global"} => Len(stack') = 1
        BY ONLY <2>9, <2>10
  <2>8. CallerOK(1)' BY <1>7, <2>4, <2>5, <2>6, <2>7 DEF CallerOK, Height, h, d
  <2> QED BY <1>1, <1>3, <1>7, <2>3, <2>8 DEF InterningOK
<1>10. CompilingOK' BY <1>1, <1>7 DEF Shape, Control, CompilingOK, static
<1> QED BY <1>1, <1>6, <1>8, <1>9, <1>10 DEF Shape, Control, FillingOK, OthersOK, Filling

LEMMA GrowInternerShape == Shape /\ GrowInterner => Shape'
<1> SUFFICES ASSUME Shape, GrowInterner PROVE Shape' OBVIOUS
<1>1. /\ MemoryOK /\ RootsTyped /\ stack \in Seq(Values) /\ pc = "intern" /\ pc' = "interned"
      /\ Reallocate(stack) /\ UNCHANGED <<roots, job>>
      BY TypeParts DEF Shape, GrowInterner, RootsTyped
<1>2. UNCHANGED <<stack, open, compilers, job>> BY <1>1 DEF roots, static
<1>3. MemoryOK' BY <1>1, <1>2, ReallocateOK
<1>7. heap'[job.made].kind = "string"
  <2>1. /\ job.made \in Objects /\ heap[job.made].kind = "string"
        /\ stack # <<>> /\ Last(stack) = job.made
        BY <1>1 DEF Shape, Control, JobOK, InterningOK, Interning, Jobs, Values
  <2>2. job.made \in RootsOf(stack)
    <3>1. stack[Len(stack)] \in ToSet(stack) BY <1>1, <2>1, Elements
    <3> QED BY <2>1, <3>1, HeapAssumption DEF RootsOf, Last
  <2>3. job.made \in Reachable(RootsOf(stack), References)
        BY <1>1, <2>2, RootsType, ReferencesType, ReachableLeast
  <2> QED BY <1>1, <2>1, <2>3, MemoriesOK DEF Reallocate
<1>4. RootsTyped' BY <1>1 DEF RootsTyped, roots, static
<1>5. TypeOK' BY <1>1, <1>3, <1>4 DEF TypeOK, MemoryOK, RootsTyped, Heaps, Records, Kinds
<1>6. JobOK' BY <1>1, <1>2 DEF Shape, Control, JobOK
<1>8. InterningOK'
      BY <1>1, <1>2, <1>7 DEF Shape, Control, InterningOK, CallerOK, Height, Interning
<1>9. CompilingOK' BY <1>1, <1>2 DEF Shape, Control, CompilingOK
<1> QED BY <1>1, <1>5, <1>6, <1>8, <1>9 DEF Shape, Control, FillingOK, OthersOK, Filling

(* Once the new string is interned it is popped again. *)
LEMMA InternedCaller == Shape /\ pc = "interned" => CallerStack(Drop(1))
<1> SUFFICES ASSUME Shape, pc = "interned" PROVE CallerStack(Drop(1)) OBVIOUS
<1> DEFINE n == Len(stack)
           h == job.height
           d == job.drop
           s == Drop(1)
<1>1. /\ stack \in Seq(Values) /\ job \in Jobs /\ CallerOK(1) /\ stack # <<>>
      /\ job.use = "piece" => d >= 1
      BY TypeParts DEF Shape, RootsTyped, Control, JobOK, InterningOK, Interning
<1>2. s \in Seq(Values) /\ Len(s) = n - 1 /\ \A i \in 1..(n - 1) : s[i] = stack[i]
      BY <1>1, DropOK
<1>3. /\ job.use \in {"result", "piece"} => h >= 1 /\ n = h + d - 1 + 1
      /\ job.use \in {"constant", "functionName", "global"} => n = 1
      /\ job.use = "nativeName" => n = 2 + 1 /\ stack[1] # Nil
      /\ job.use = "piece" => stack[h + d - 1] = job.target /\ d >= 1
      BY <1>1 DEF CallerOK, Height
<1>4. n \in Nat /\ h \in Nat /\ d \in Nat
  <2>1. h \in Nat /\ d \in Nat BY <1>1 DEF Jobs
  <2> QED BY <1>1, <2>1
<1> HIDE DEF n, h, d, s
<1>5. /\ job.use \in {"result", "piece"} => h >= 1 /\ Len(s) = h + d - 1
      /\ job.use \in {"constant", "functionName", "global"} => Len(s) = 0
      /\ job.use = "nativeName" => Len(s) = 2 /\ s[1] # Nil
      BY ONLY <1>2, <1>3, <1>4
<1>6. job.use = "piece" => s[h + d - 1] = job.target
  <2> SUFFICES ASSUME job.use = "piece" PROVE s[h + d - 1] = job.target OBVIOUS
  <2>1. h >= 1 /\ d >= 1 /\ n = h + d - 1 + 1 BY <1>3
  <2>2. h + d - 1 \in 1..(n - 1) BY ONLY <2>1, <1>4
  <2> QED BY <2>2, <1>2, <1>3
<1> QED BY <1>2, <1>5, <1>6 DEF CallerStack, h, d, s

LEMMA InternShape == Shape /\ Intern => Shape'
<1> SUFFICES ASSUME Shape, Intern PROVE Shape' OBVIOUS
<1>1. /\ MemoryOK /\ pc = "interned" /\ Interning
      /\ strings' = strings \cup {job.made} /\ Deliver(Drop(1), job.made) /\ UNCHANGED static
      BY TypeParts DEF Shape, Intern, Interning
<1>2. job.made \in Objects /\ heap[job.made].kind = "string"
      BY <1>1 DEF Shape, Control, JobOK, InterningOK, Jobs, Values
<1>3. strings' \subseteq {o \in Objects : heap[o].kind = "string"}
      BY <1>1, <1>2 DEF MemoryOK
<1> QED BY <1>1, <1>2, <1>3, InternedCaller, DeliverShape

LEMMA StringShape == Shape /\ StringStep => Shape'
BY BeginStringShape, FindShape, AllocateCharactersShape, AllocateStringShape,
   GrowInternerShape, InternShape DEF StringStep

(* A new array or map is pushed above the n operands it is made of. *)
LEMMA BeginBuildShape ==
    ASSUME Shape, pc = "idle", NEW n \in 0..Len(stack), NEW kind \in Kinds \ {"free"},
           NEW items \in Seq(Seq(Values)), NEW o \in Objects, BeginBuild(n, kind, items, o)
    PROVE  Shape'
<1> DEFINE h == Len(stack) - n + 1
<1>1. /\ MemoryOK /\ RootsTyped /\ stack \in Seq(Values) /\ pc' = "append"
      /\ Allocate(stack, kind, Nil, o) /\ stack' = Append(stack, o)
      /\ job' = [[NoJob EXCEPT !.drop = n + 1, !.target = o, !.items = items]
                   EXCEPT !.height = h]
      /\ open' = open /\ UNCHANGED static
      BY TypeParts DEF Shape, RootsTyped, BeginBuild, Start
<1>2. MemoryOK' BY <1>1, AllocateOK
<1>3. stack' \in Seq(Values) /\ Len(stack') = Len(stack) + 1 BY <1>1 DEF Values
<1>4. RootsTyped' BY <1>1, <1>3 DEF RootsTyped, static
<1>5. TypeOK' BY <1>1, <1>2, <1>4 DEF TypeOK, MemoryOK, RootsTyped, Heaps, Records, Kinds
<1>6. /\ h \in Nat /\ n + 1 \in Nat /\ o \in Values
      /\ h >= 1 /\ Len(stack') = h + (n + 1) - 1 + 0
      BY <1>1, <1>3 DEF Values
<1> HIDE DEF h
<1>7. /\ job' \in Jobs /\ job'.drop = n + 1 /\ job'.height = h /\ job'.use = "result"
      /\ job'.made = Nil /\ job'.target = o /\ job'.pieces = <<>>
      BY <1>1, <1>6, NoJobType DEF Jobs
<1>8. Height(0)' BY <1>6, <1>7 DEF Height
<1>9. JobOK' BY <1>1, <1>7 DEF JobOK
<1> QED BY <1>1, <1>5, <1>7, <1>8, <1>9
        DEF Shape, Control, CompilingOK, InterningOK, FillingOK, OthersOK, Interning

LEMMA ArrayShape ==
    ASSUME Shape, NEW n \in 0..MaxStack, NEW o \in Objects, Array(n, o)
    PROVE  Shape'
<1>1. pc = "idle" /\ n \in 0..Len(stack) /\ stack \in Seq(Values)
      BY BoundsAssumption, TypeParts DEF Shape, RootsTyped, Array, Idle
<1>2. [i \in 1..n |-> <<Peek(n - i)>>] \in Seq(Seq(Values))
  <2>1. ASSUME NEW i \in 1..n PROVE Peek(n - i) \in Values
    <3>1. n - i \in 0..(Len(stack) - 1) BY <1>1
    <3> QED BY <1>1, <3>1, PeekOK
  <2>2. \A i \in 1..n : <<Peek(n - i)>> \in Seq(Values) BY <2>1
  <2>3. n \in Nat BY <1>1
  <2> QED BY <2>2, <2>3
<1> QED BY <1>1, <1>2, BeginBuildShape DEF Array, Kinds

LEMMA MapShape ==
    ASSUME Shape, NEW n \in 0..MaxStack, NEW o \in Objects, Map(n, o)
    PROVE  Shape'
<1>1. pc = "idle" /\ n \in Nat /\ 2 * n \in 0..Len(stack) /\ stack \in Seq(Values)
      BY BoundsAssumption, TypeParts DEF Shape, RootsTyped, Map, Idle
<1>2. [i \in 1..n |-> <<Peek(2 * (n - i) + 1), Peek(2 * (n - i))>>] \in Seq(Seq(Values))
  <2>1. ASSUME NEW i \in 1..n
        PROVE  Peek(2 * (n - i) + 1) \in Values /\ Peek(2 * (n - i)) \in Values
    <3>1. 2 * (n - i) + 1 \in 0..(Len(stack) - 1) /\ 2 * (n - i) \in 0..(Len(stack) - 1)
          BY <1>1
    <3> QED BY <1>1, <3>1, PeekOK
  <2>2. \A i \in 1..n : <<Peek(2 * (n - i) + 1), Peek(2 * (n - i))>> \in Seq(Values) BY <2>1
  <2> QED BY <1>1, <2>2
<1> QED BY <1>1, <1>2, BeginBuildShape DEF Map, Kinds

LEMMA KeysShape ==
    ASSUME Shape, NEW K \in SUBSET Objects, NEW o \in Objects, Keys(K, o)
    PROVE  Shape'
<1>1. pc = "idle" /\ 2 \in 0..Len(stack) /\ stack \in Seq(Values)
      BY TypeParts DEF Shape, RootsTyped, Keys, Idle
<1>2. PICK keys \in SetToSeqs(K) :
        BeginBuild(2, "array", [i \in DOMAIN keys |-> <<keys[i]>>], o)
      BY DEF Keys
<1>3. Cardinality(K) \in Nat
      BY HeapAssumption, FS_Subset, FS_CardinalityType
<1>4. keys \in [1..Cardinality(K) -> K] BY <1>2 DEF SetToSeqs
<1>5. [i \in DOMAIN keys |-> <<keys[i]>>] \in Seq(Seq(Values))
  <2> DEFINE n == Cardinality(K)
  <2>1. n \in Nat /\ DOMAIN keys = 1..n BY <1>3, <1>4
  <2>2. \A i \in 1..n : <<keys[i]>> \in Seq(Values) BY <1>4 DEF Values
  <2> HIDE DEF n
  <2>3. [i \in 1..n |-> <<keys[i]>>] \in Seq(Seq(Values)) BY <2>1, <2>2
  <2> QED BY <2>1, <2>3
<1> QED BY <1>1, <1>2, <1>5, BeginBuildShape DEF Kinds

LEMMA SplitShape ==
    ASSUME Shape, NEW n \in 1..MaxPieces, NEW pieces \in [1..n -> Contents],
           NEW o \in Objects, Split(pieces, o)
    PROVE  Shape'
<1> DEFINE h == Len(stack) - 3 + 1
<1>1. /\ MemoryOK /\ RootsTyped /\ stack \in Seq(Values) /\ pc' = "find" /\ Len(stack) >= 3
      /\ Allocate(stack, "array", Nil, o) /\ stack' = Append(stack, o)
      /\ job' = [[NoJob EXCEPT !.drop = 4, !.target = o, !.pieces = pieces,
                               !.content = Head(pieces), !.use = "piece"] EXCEPT !.height = h]
      /\ open' = open /\ UNCHANGED static
      BY TypeParts DEF Shape, RootsTyped, Split, Start, Idle
<1>2. MemoryOK' BY <1>1, AllocateOK DEF Kinds
<1>3. /\ stack' \in Seq(Values) /\ Len(stack') = Len(stack) + 1
      /\ stack'[Len(stack) + 1] = o
      BY <1>1 DEF Values
<1>4. RootsTyped' BY <1>1, <1>3 DEF RootsTyped, static
<1>5. TypeOK' BY <1>1, <1>2, <1>4 DEF TypeOK, MemoryOK, RootsTyped, Heaps, Records, Kinds
<1>6. h \in Nat /\ h >= 1 /\ Len(stack') = h + 4 - 1 + 0 /\ h + 4 - 1 = Len(stack) + 1
      BY <1>1, <1>3
<1>7. pieces \in Seq(Contents) /\ pieces # <<>> /\ Head(pieces) \in Contents
      BY BoundsAssumption
<1> HIDE DEF h
<1>8. /\ job' \in Jobs /\ job'.drop = 4 /\ job'.height = h /\ job'.use = "piece"
      /\ job'.made = Nil /\ job'.target = o /\ job'.pieces = pieces
      /\ job'.content = Head(pieces)
      BY <1>1, <1>6, <1>7, NoJobType DEF Jobs, Values, Uses
<1>9. CallerOK(0)' BY <1>3, <1>6, <1>8 DEF CallerOK, Height
<1>10. InterningOK' BY <1>1, <1>7, <1>8, <1>9, HeapAssumption DEF InterningOK
<1>11. JobOK' BY <1>1, <1>7, <1>8 DEF JobOK
<1> QED BY <1>1, <1>5, <1>8, <1>10, <1>11
        DEF Shape, Control, CompilingOK, FillingOK, OthersOK, Filling

LEMMA NativePushShape == Shape /\ NativePush => Shape'
<1> SUFFICES ASSUME Shape, NativePush PROVE Shape' OBVIOUS
<1> DEFINE h == Len(stack) - 3 + 1
<1>1. /\ MemoryOK /\ RootsTyped /\ stack \in Seq(Values) /\ pc' = "append" /\ Len(stack) >= 3
      /\ job' = [[NoJob EXCEPT !.drop = 3, !.target = Peek(1), !.items = <<<<Peek(0)>>>>]
                   EXCEPT !.height = h]
      /\ Peek(1) # Nil /\ UNCHANGED <<heap, strings, stack, open, static>>
      BY TypeParts DEF Shape, RootsTyped, NativePush, Start, Idle, Is, roots
<1>2. MemoryOK' /\ RootsTyped' BY <1>1 DEF MemoryOK, RootsTyped, static
<1>3. TypeOK' BY <1>1, <1>2 DEF TypeOK, MemoryOK, RootsTyped, Heaps, Records, Kinds
<1>4. h \in Nat /\ h >= 1 /\ Len(stack) = h + 3 - 1 + 0 BY <1>1
<1>5. Peek(1) \in Objects /\ <<<<Peek(0)>>>> \in Seq(Seq(Values))
  <2>1. Peek(0) \in Values /\ Peek(1) \in Values BY <1>1, PeekOK
  <2> QED BY <1>1, <2>1 DEF Values
<1> HIDE DEF h
<1>6. /\ job' \in Jobs /\ job'.drop = 3 /\ job'.height = h /\ job'.use = "result"
      /\ job'.made = Nil /\ job'.target = Peek(1) /\ job'.pieces = <<>>
      BY <1>1, <1>4, <1>5, NoJobType DEF Jobs, Values
<1>7. Height(0)' BY <1>1, <1>4, <1>6 DEF Height
<1>8. JobOK' BY <1>1, <1>6 DEF JobOK
<1> QED BY <1>1, <1>3, <1>5, <1>6, <1>7, <1>8
        DEF Shape, Control, CompilingOK, InterningOK, FillingOK, OthersOK, Interning

LEMMA NativePopShape ==
    ASSUME Shape, NEW v \in Values, NativePop(v)
    PROVE  Shape'
<1>1. /\ MemoryOK /\ RootsTyped /\ stack \in Seq(Values) /\ pc = "idle" /\ Len(stack) >= 2
      /\ heap' = Replaced(Peek(0), {v}, {}) \/ UNCHANGED heap
      /\ Peek(0) # Nil /\ stack' = Append(Drop(2), v)
      /\ UNCHANGED <<strings, open, static, pc, job>>
      BY TypeParts DEF Shape, RootsTyped, NativePop, Idle, Is
<1>2. Peek(0) \in Objects BY <1>1, PeekOK DEF Values
<1>3. MemoryOK' BY <1>1, <1>2, ReplacedOK DEF MemoryOK
<1>4. stack' \in Seq(Values) BY <1>1, DropOK
<1>5. RootsTyped' BY <1>1, <1>4 DEF RootsTyped, static
<1> QED BY <1>1, <1>3, <1>5, IdleShape DEF Shape, Control, JobOK

LEMMA BuildFailsShape == Shape /\ BuildFails => Shape'
<1> SUFFICES ASSUME Shape, BuildFails PROVE Shape' OBVIOUS
<1>1. /\ MemoryOK /\ RootsTyped /\ stack' = <<>> /\ open' = {} /\ pc' = "idle" /\ job' = NoJob
      /\ UNCHANGED <<heap, strings, static>>
      BY TypeParts DEF Shape, BuildFails
<1>2. MemoryOK' /\ RootsTyped' BY <1>1 DEF MemoryOK, RootsTyped, static
<1> QED BY <1>1, <1>2, IdleShape

(* Room is made in the array or the map, and then an item is stored in it. *)
LEMMA FillShape ==
    ASSUME Shape, Filling, pc' \in {"append", "store"}, pc' = "store" => job'.items # <<>>,
           MemoryOK', NEW items \in Seq(Seq(Values)), job' = [job EXCEPT !.items = items],
           UNCHANGED roots
    PROVE  Shape'
<1>1. /\ job \in Jobs /\ RootsTyped /\ UNCHANGED <<stack, open, compilers>>
      BY TypeParts DEF Shape, Control, JobOK, roots, static
<1>2. RootsTyped' BY <1>1 DEF RootsTyped, roots, static
<1>3. TypeOK' BY <1>2 DEF TypeOK, MemoryOK, RootsTyped, Heaps, Records, Kinds
<1>4. /\ job' \in Jobs /\ job'.drop = job.drop /\ job'.height = job.height
      /\ job'.use = job.use /\ job'.made = job.made /\ job'.target = job.target
      /\ job'.pieces = job.pieces
      BY <1>1 DEF Jobs
<1>5. JobOK' BY <1>4 DEF Shape, Control, JobOK, Filling
<1>6. CompilingOK' BY <1>1, <1>4 DEF Shape, Control, CompilingOK
<1>7. FillingOK' BY <1>1, <1>4 DEF Shape, Control, FillingOK, Height
<1> QED BY <1>3, <1>5, <1>6, <1>7 DEF Shape, Control, InterningOK, OthersOK, Interning

LEMMA GrowShape == Shape /\ Grow => Shape'
<1> SUFFICES ASSUME Shape, Grow PROVE Shape' OBVIOUS
<1>1. /\ MemoryOK /\ RootsTyped /\ stack \in Seq(Values) /\ Filling /\ pc' = "store"
      /\ job.items # <<>> /\ Reallocate(stack) /\ UNCHANGED <<roots, job>> /\ open' = open
      /\ job \in Jobs
      BY TypeParts DEF Shape, RootsTyped, Grow, Filling, roots, Control, JobOK
<1>2. MemoryOK' BY <1>1, ReallocateOK
<1>3. job.items \in Seq(Seq(Values)) /\ job' = [job EXCEPT !.items = job.items]
      BY <1>1 DEF Jobs
<1> QED BY <1>1, <1>2, <1>3, FillShape

LEMMA StoreShape ==
    ASSUME Shape, NEW old \in Values, Store(old)
    PROVE  Shape'
<1>1. /\ MemoryOK /\ RootsTyped /\ Filling /\ pc' = "append"
      /\ heap' = Replaced(job.target, {old}, ToSet(Head(job.items)))
      /\ job' = [job EXCEPT !.items = Tail(job.items)] /\ UNCHANGED roots
      /\ strings' = strings /\ open' = open
      /\ job \in Jobs /\ job.target \in Objects /\ job.items # <<>>
      BY TypeParts DEF Shape, Store, Filling, roots, Control, JobOK, FillingOK
<1>2. job.items \in Seq(Seq(Values)) BY <1>1 DEF Jobs
<1>3. Head(job.items) \in Seq(Values) /\ Tail(job.items) \in Seq(Seq(Values)) BY <1>1, <1>2
<1>4. ToSet(Head(job.items)) \subseteq Values BY <1>3, Elements
<1>5. MemoryOK' BY <1>1, <1>4, ReplacedOK
<1> QED BY <1>1, <1>3, <1>5, FillShape

(* split() goes on to its next piece. *)
LEMMA PieceDoneShape == Shape /\ PieceDone => Shape'
<1> SUFFICES ASSUME Shape, PieceDone PROVE Shape' OBVIOUS
<1> DEFINE n == Len(stack)
           h == job.height
           d == job.drop
<1>1. /\ MemoryOK /\ RootsTyped /\ stack \in Seq(Values) /\ pc' = "find"
      /\ Len(job.pieces) > 1 /\ stack' = Drop(1)
      /\ job' = [job EXCEPT !.pieces = Tail(job.pieces), !.content = job.pieces[2]]
      /\ UNCHANGED <<heap, strings, open, static>>
      /\ job \in Jobs /\ job.pieces \in Seq(Contents) /\ Filling /\ pc = "append"
      BY TypeParts DEF Shape, PieceDone, Filling, RootsTyped, Control, JobOK, Jobs
<1>2. /\ job.use = "piece" /\ d >= 1 /\ job.target \in Objects /\ job.made = Nil
      /\ h >= 1 /\ n = h + d - 1 + 1 /\ stack[h + d - 1] = job.target
  <2>1. job.pieces # <<>> BY <1>1
  <2> QED BY <1>1, <2>1 DEF Shape, Control, JobOK, FillingOK, Height
<1>3. n \in Nat /\ h \in Nat /\ d \in Nat BY <1>1 DEF Jobs
<1>4. n >= 1 /\ h + d - 1 \in 1..(n - 1) /\ n - 1 = h + d - 1 + 0
  <2> HIDE DEF n, h, d
  <2> QED BY <1>2, <1>3
<1>5. /\ stack' \in Seq(Values) /\ Len(stack') = n - 1
      /\ \A i \in 1..(n - 1) : stack'[i] = stack[i]
      BY <1>1, <1>4, DropOK
<1>6. MemoryOK' /\ RootsTyped' BY <1>1, <1>5 DEF MemoryOK, RootsTyped, static
<1>7. TypeOK' BY <1>1, <1>6 DEF TypeOK, MemoryOK, RootsTyped, Heaps, Records, Kinds
<1>8. /\ Tail(job.pieces) \in Seq(Contents) /\ Tail(job.pieces) # <<>>
      /\ job.pieces[2] \in Contents
      BY <1>1, TailOK
<1>9. /\ job' \in Jobs /\ job'.drop = d /\ job'.height = h /\ job'.use = "piece"
      /\ job'.made = Nil /\ job'.target = job.target /\ job'.pieces = Tail(job.pieces)
      /\ job'.content = job.pieces[2]
      BY <1>1, <1>2, <1>8 DEF Jobs
<1>10. CallerOK(0)'
  <2>1. h >= 1 /\ Len(stack') = h + d - 1 + 0 /\ stack'[h + d - 1] = job.target
        BY <1>2, <1>4, <1>5
  <2> QED BY <1>9, <2>1 DEF CallerOK, Height
<1>11. InterningOK' BY <1>1, <1>2, <1>8, <1>9, <1>10, HeapAssumption DEF InterningOK
<1>12. JobOK' BY <1>1, <1>2, <1>8, <1>9 DEF JobOK
<1> QED BY <1>1, <1>7, <1>9, <1>11, <1>12
        DEF Shape, Control, CompilingOK, FillingOK, OthersOK, Filling

(* The stack that the array or the map takes its place on. *)
LEMMA BuiltStack ==
    ASSUME Shape, Filling, job.use # "constant", Len(job.pieces) <= 1
    PROVE  /\ job \in Jobs /\ job.target \in Values
           /\ Drop(Len(job.pieces)) \in Seq(Values) /\ job.height >= 1
           /\ Len(Drop(Len(job.pieces))) = job.height + job.drop - 1
           /\ ToSet(Drop(Len(job.pieces))) \subseteq ToSet(stack)
<1> DEFINE n == Len(stack)
           h == job.height
           d == job.drop
           p == Len(job.pieces)
           s == Drop(p)
<1>1. stack \in Seq(Values) /\ job \in Jobs /\ job.pieces \in Seq(Contents)
      BY TypeParts DEF Shape, RootsTyped, Control, JobOK, Jobs
<1>2. job.target \in Values /\ h >= 1 /\ n = h + d - 1 + p
  <2>1. p = 0 => job.use = "result" BY <1>1 DEF Shape, Control, JobOK, FillingOK
  <2>2. p = 1 => job.use = "piece"
    <3>1. p = 1 => job.pieces # <<>> OBVIOUS
    <3> QED BY <3>1 DEF Shape, Control, JobOK
  <2>3. p \in 0..1
    <3>1. p \in Nat /\ p <= 1 BY <1>1
    <3> HIDE DEF p
    <3> QED BY <3>1
  <2> QED BY <2>1, <2>2, <2>3 DEF Shape, Control, FillingOK, Height, Values
<1>3. n \in Nat /\ h \in Nat /\ d \in Nat /\ p \in Nat BY <1>1 DEF Jobs
<1>4. p \in 0..n /\ n - p = h + d - 1 /\ n - p \in 0..n
  <2> HIDE DEF n, h, d, p
  <2> QED BY <1>2, <1>3
<1>5. s \in Seq(Values) /\ Len(s) = n - p BY <1>1, <1>4, DropOK
<1>6. ToSet(s) \subseteq ToSet(stack) BY <1>1, <1>4, PrefixElements DEF Drop
<1> QED BY <1>1, <1>2, <1>4, <1>5, <1>6

(* The array or the map takes the place of the operands. *)
LEMMA BuildDoneShape == Shape /\ BuildDone => Shape'
<1> SUFFICES ASSUME Shape, BuildDone PROVE Shape' OBVIOUS
<1>1. /\ MemoryOK /\ RootsTyped /\ Filling /\ job.use # "constant" /\ Len(job.pieces) <= 1
      /\ Finish(Drop(Len(job.pieces)), job.target) /\ UNCHANGED <<heap, strings, open, static>>
      BY TypeParts DEF Shape, BuildDone, Filling
<1>2. stack' \in Seq(Values) BY <1>1, BuiltStack, FinishOK
<1>3. MemoryOK' /\ RootsTyped' BY <1>1, <1>2 DEF MemoryOK, RootsTyped, static
<1> QED BY <1>1, <1>3, IdleShape DEF Finish

(* OP_SET_INDEX of a map. *)
LEMMA BeginSetIndexMapShape == Shape /\ BeginSetIndexMap => Shape'
<1> SUFFICES ASSUME Shape, BeginSetIndexMap PROVE Shape' OBVIOUS
<1> DEFINE h == Len(stack) - 3 + 1
           items == <<<<Peek(1), Peek(0)>>>>
<1>1. /\ MemoryOK /\ RootsTyped /\ stack \in Seq(Values) /\ pc' = "put" /\ Len(stack) >= 3
      /\ job' = [[NoJob EXCEPT !.target = Peek(2), !.held = {Peek(1), Peek(0)} \ {Nil},
                               !.items = items] EXCEPT !.height = h]
      /\ Peek(2) # Nil /\ stack' = Drop(3) /\ Reallocate(Drop(3)) /\ UNCHANGED <<open, static>>
      BY TypeParts DEF Shape, RootsTyped, BeginSetIndexMap, Start, Idle, Is
<1>2. Drop(3) \in Seq(Values) /\ Len(Drop(3)) = Len(stack) - 3 BY <1>1, DropOK
<1>3. MemoryOK' BY <1>1, <1>2, ReallocateOK
<1>4. RootsTyped' BY <1>1, <1>2 DEF RootsTyped, static
<1>5. TypeOK' BY <1>1, <1>3, <1>4 DEF TypeOK, MemoryOK, RootsTyped, Heaps, Records, Kinds
<1>6. Peek(0) \in Values /\ Peek(1) \in Values /\ Peek(2) \in Objects
      BY <1>1, PeekOK DEF Values
<1>7. /\ items \in Seq(Seq(Values)) /\ Len(items) = 1 /\ Len(items[1]) = 2
      /\ {Peek(1), Peek(0)} \ {Nil} \in SUBSET Objects
      BY <1>6 DEF Values
<1>8. h \in Nat /\ h >= 1 /\ Len(stack') = h + 0 - 1 + 0 BY <1>1, <1>2
<1> HIDE DEF h, items
<1>9. /\ job' \in Jobs /\ job'.drop = 0 /\ job'.height = h /\ job'.use = "result"
      /\ job'.made = Nil /\ job'.target = Peek(2) /\ job'.pieces = <<>> /\ job'.items = items
      BY <1>1, <1>6, <1>7, <1>8, NoJobType DEF Jobs, Values
<1>10. Height(0)' BY <1>8, <1>9 DEF Height
<1>11. JobOK' BY <1>1, <1>9 DEF JobOK
<1> QED BY <1>1, <1>5, <1>6, <1>7, <1>9, <1>10, <1>11
        DEF Shape, Control, CompilingOK, InterningOK, FillingOK, OthersOK, Interning, Filling

LEMMA SetIndexMapShape ==
    ASSUME Shape, NEW old \in Values, SetIndexMap(old)
    PROVE  Shape'
<1>1. /\ MemoryOK /\ RootsTyped /\ stack \in Seq(Values) /\ pc = "put"
      /\ heap' = Replaced(job.target, {old}, ToSet(job.items[1]))
      /\ stack' = Append(SubSeq(stack, 1, Len(stack) - job.drop), job.items[1][2])
      /\ pc' = "idle" /\ job' = NoJob /\ UNCHANGED <<strings, open, static>>
      /\ job \in Jobs /\ job.items \in Seq(Seq(Values))
      BY TypeParts DEF Shape, SetIndexMap, Finish, RootsTyped, Control, JobOK, Jobs
<1>2. job.target \in Objects /\ job.drop = 0 /\ Len(job.items) = 1 /\ Len(job.items[1]) = 2
      BY <1>1 DEF Shape, Control, OthersOK
<1>3. job.items[1] \in Seq(Values) /\ job.items[1][2] \in Values
  <2>1. job.items[1] \in Seq(Values) BY <1>1, <1>2
  <2> QED BY <1>2, <2>1
<1>4. ToSet(job.items[1]) \subseteq Values BY <1>3, Elements
<1>5. MemoryOK' BY <1>1, <1>2, <1>4, ReplacedOK
<1>6. Len(stack) - 0 \in 0..Len(stack) BY <1>1
<1>7. stack' \in Seq(Values) BY <1>1, <1>2, <1>3, <1>6, Prefix
<1>8. RootsTyped' BY <1>1, <1>7 DEF RootsTyped, static
<1> QED BY <1>1, <1>5, <1>8, IdleShape

LEMMA BuildShape == Shape /\ BuildStep => Shape'
BY ArrayShape, MapShape, KeysShape, SplitShape, NativePushShape, NativePopShape,
   BuildFailsShape, GrowShape, StoreShape, PieceDoneShape, BuildDoneShape,
   BeginSetIndexMapShape, SetIndexMapShape DEF BuildStep

(* Closures and their upvalues. *)
LEMMA BeginClosureShape == Shape /\ BeginClosure => Shape'
<1> SUFFICES ASSUME Shape, BeginClosure PROVE Shape' OBVIOUS
<1> DEFINE h == Len(stack) - 0 + 1
<1>1. /\ MemoryOK /\ RootsTyped /\ stack \in Seq(Values) /\ pc' = "closure"
      /\ job' = [NoJob EXCEPT !.height = h] /\ Reallocate(stack)
      /\ UNCHANGED <<stack, open, static>>
      BY TypeParts DEF Shape, RootsTyped, BeginClosure, Start, roots
<1>2. MemoryOK' /\ RootsTyped' BY <1>1, ReallocateOK DEF RootsTyped, static
<1>3. TypeOK' BY <1>1, <1>2 DEF TypeOK, MemoryOK, RootsTyped, Heaps, Records, Kinds
<1>4. h \in Nat /\ h >= 1 /\ Len(stack') = h + 0 - 1 + 0 BY <1>1
<1> HIDE DEF h
<1>5. /\ job' \in Jobs /\ job'.drop = 0 /\ job'.height = h /\ job'.use = "result"
      /\ job'.made = Nil /\ job'.pieces = <<>>
      BY <1>1, <1>4, NoJobType DEF Jobs
<1>6. Height(0)' BY <1>4, <1>5 DEF Height
<1>7. JobOK' BY <1>1, <1>5 DEF JobOK
<1> QED BY <1>1, <1>3, <1>5, <1>6, <1>7
        DEF Shape, Control, CompilingOK, InterningOK, FillingOK, OthersOK, Interning, Filling

LEMMA NewClosureShape ==
    ASSUME Shape, NEW o \in Objects, NewClosure(o)
    PROVE  Shape'
<1> DEFINE n == Len(stack)
           h == job.height
           d == job.drop
<1>1. /\ MemoryOK /\ RootsTyped /\ stack \in Seq(Values) /\ pc = "closure" /\ pc' = "capture"
      /\ stack' = Append(Drop(d), o) /\ job' = [job EXCEPT !.target = o]
      /\ UNCHANGED <<open, static>> /\ job \in Jobs /\ job.held \subseteq Objects
      BY TypeParts DEF Shape, NewClosure, RootsTyped, Control, JobOK, Jobs
<1>2. n \in Nat /\ h \in Nat /\ d \in Nat /\ h >= 1 /\ n = h + d - 1 + 0
      BY <1>1 DEF Shape, Control, OthersOK, Height, Jobs
<1>3. d \in 0..n /\ n - d + 1 = h
  <2> HIDE DEF n, h, d
  <2> QED BY <1>2
<1>4. stack' \in Seq(Values) /\ Len(stack') = h BY <1>1, <1>3, DropOK DEF Values
<1>5. MemoryOK'
  <2> DEFINE c == [New("closure", Nil) EXCEPT !.refs = job.held]
  <2>1. PICK m \in Memories(stack) :
          m[o].kind = "free" /\ heap' = [m EXCEPT ![o] = c] /\ strings' = Interned(m)
        BY DEF NewClosure
  <2>2. c \in Records BY <1>1 DEF New, Records, Kinds, Values
  <2>3. /\ m \in Heaps
        /\ Interned(m) \subseteq {q \in Objects : m[q].kind = "string"}
        /\ open \subseteq {q \in Objects : m[q].kind = "upvalue"}
        BY <1>1, MemoriesOK
  <2> HIDE DEF c
  <2>4. heap' \in Heaps /\ \A q \in Objects : q # o => heap'[q] = m[q]
        BY <2>1, <2>2, <2>3 DEF Heaps
  <2> QED BY <1>1, <2>1, <2>3, <2>4 DEF MemoryOK
<1>6. RootsTyped' BY <1>1, <1>4 DEF RootsTyped, static
<1>7. TypeOK' BY <1>1, <1>5, <1>6 DEF TypeOK, MemoryOK, RootsTyped, Heaps, Records, Kinds
<1>8. /\ job' \in Jobs /\ job'.height = h /\ job'.use = job.use /\ job'.drop = job.drop
      /\ job'.made = job.made /\ job'.target = o /\ job'.pieces = job.pieces
      BY <1>1 DEF Jobs, Values
<1>9. JobOK' BY <1>1, <1>8 DEF Shape, Control, JobOK
<1>10. CompilingOK' BY <1>1, <1>8 DEF Shape, Control, CompilingOK, static
<1> QED BY <1>1, <1>4, <1>7, <1>8, <1>9, <1>10
        DEF Shape, Control, InterningOK, FillingOK, OthersOK, Interning, Filling

(* A variable is captured for the closure that is being made. *)
LEMMA CaptureShape ==
    ASSUME Shape, pc = "capture", MemoryOK', UNCHANGED <<stack, static, pc, job>>
    PROVE  Shape'
<1>1. RootsTyped' BY TypeParts DEF Shape, RootsTyped, static
<1>2. TypeOK' BY <1>1 DEF TypeOK, MemoryOK, RootsTyped, Heaps, Records, Kinds
<1>3. JobOK' BY DEF Shape, Control, JobOK
<1>4. CompilingOK' BY DEF Shape, Control, CompilingOK, static
<1>5. OthersOK' BY DEF Shape, Control, OthersOK
<1> QED BY <1>2, <1>3, <1>4, <1>5
        DEF Shape, Control, InterningOK, FillingOK, Interning, Filling

LEMMA CaptureExistingShape ==
    ASSUME Shape, NEW u \in Objects, CaptureExisting(u)
    PROVE  Shape'
<1>1. /\ MemoryOK /\ pc = "capture" /\ job.target \in Objects
      /\ heap' = Replaced(job.target, {}, {u}) /\ UNCHANGED <<strings, stack, open, static, pc, job>>
      BY TypeParts DEF Shape, CaptureExisting, Capturing, Control, OthersOK, roots
<1>2. MemoryOK' BY <1>1, ReplacedOK DEF Values
<1> QED BY <1>1, <1>2, CaptureShape

LEMMA CaptureNewShape ==
    ASSUME Shape, NEW u \in Objects, CaptureNew(u)
    PROVE  Shape'
<1>1. /\ MemoryOK /\ RootsTyped /\ stack \in Seq(Values) /\ pc = "capture"
      /\ job.target \in Objects
      /\ open' = open \cup {u} /\ UNCHANGED <<stack, static, pc, job>>
      BY TypeParts DEF Shape, CaptureNew, Capturing, Control, OthersOK, RootsTyped
<1>2. MemoryOK'
  <2>1. PICK m \in Memories(stack) :
          /\ m[u].kind = "free" /\ strings' = Interned(m)
          /\ heap' = [m EXCEPT ![u] = New("upvalue", Nil), ![job.target].refs = @ \cup {u}]
        BY DEF CaptureNew
  <2>2. New("upvalue", Nil) \in Records /\ New("upvalue", Nil).kind = "upvalue"
        BY DEF New, Records, Kinds, Values
  <2>3. /\ m \in Heaps
        /\ Interned(m) \subseteq {q \in Objects : m[q].kind = "string"}
        /\ open \subseteq {q \in Objects : m[q].kind = "upvalue"}
        BY <1>1, MemoriesOK
  <2> DEFINE t == job.target
  <2>4. heap' \in Heaps
        BY <1>1, <2>1, <2>2, <2>3 DEF Heaps, Records
  <2>5. heap'[u].kind = "upvalue" /\ \A q \in Objects : q # u => heap'[q].kind = m[q].kind
        BY <1>1, <2>1, <2>2, <2>3 DEF Heaps, Records
  <2> QED BY <1>1, <2>1, <2>3, <2>4, <2>5 DEF MemoryOK
<1> QED BY <1>1, <1>2, CaptureShape

LEMMA ClosureDoneShape == Shape /\ ClosureDone => Shape'
<1> SUFFICES ASSUME Shape, ClosureDone PROVE Shape' OBVIOUS
<1>1. MemoryOK' /\ RootsTyped' /\ pc' = "idle" /\ job' = NoJob
      BY TypeParts DEF Shape, ClosureDone, MemoryOK, RootsTyped, roots, static
<1> QED BY <1>1, IdleShape

LEMMA CloseUpvalueShape ==
    ASSUME Shape, NEW u \in Objects, CloseUpvalue(u)
    PROVE  Shape'
<1>1. /\ MemoryOK /\ RootsTyped /\ stack \in Seq(Values) /\ pc = "idle" /\ Len(stack) >= 1
      /\ heap' = Replaced(u, {}, {Peek(0)}) /\ open' = open \ {u} /\ stack' = Drop(1)
      /\ UNCHANGED <<strings, static, pc, job>>
      BY TypeParts DEF Shape, RootsTyped, CloseUpvalue, Idle
<1>2. Peek(0) \in Values /\ Drop(1) \in Seq(Values) BY <1>1, PeekOK, DropOK
<1>3. MemoryOK' BY <1>1, <1>2, ReplacedOK
<1>4. RootsTyped' BY <1>1, <1>2 DEF RootsTyped, static
<1> QED BY <1>1, <1>3, <1>4, IdleShape DEF Shape, Control, JobOK

LEMMA ClosureShape == Shape /\ ClosureStep => Shape'
BY BeginClosureShape, NewClosureShape, CaptureExistingShape, CaptureNewShape,
   ClosureDoneShape, CloseUpvalueShape DEF ClosureStep

-----------------------------------------------------------------------------
(* Compiling. *)

LEMMA BeginCompileShape ==
    ASSUME Shape, NEW o \in Objects, BeginCompile(o)
    PROVE  Shape'
<1>1. /\ MemoryOK /\ RootsTyped /\ stack \in Seq(Values) /\ pc = "idle" /\ pc' = "compile"
      /\ Allocate(stack, "function", Nil, o) /\ compilers' = <<o>> /\ stack = <<>>
      /\ UNCHANGED <<stack, open, globals, names, program, job>> /\ job = NoJob
      BY TypeParts DEF Shape, RootsTyped, BeginCompile, Idle, Control, JobOK
<1>2. MemoryOK' BY <1>1, AllocateOK DEF Kinds
<1>3. RootsTyped' /\ compilers' # <<>> BY <1>1 DEF RootsTyped
<1>4. TypeOK' BY <1>1, <1>2, <1>3 DEF TypeOK, MemoryOK, RootsTyped, Heaps, Records, Kinds
<1>5. Control'
      BY <1>1, <1>3, NoJobType DEF Control, JobOK, CompilingOK, InterningOK, FillingOK,
         OthersOK, Interning, Filling
<1> QED BY <1>4, <1>5 DEF Shape

(* The compiler asks for a string while nothing is on the stack. *)
LEMMA CompilerAsks ==
    ASSUME Shape, pc' = "find", stack = <<>>, stack' = <<>>, MemoryOK', RootsTyped',
           compilers' # <<>>, NEW c \in Contents, NEW target \in Objects,
           NEW use \in {"constant", "functionName"},
           job' = [NoJob EXCEPT !.content = c, !.use = use, !.target = target]
    PROVE  Shape'
<1>1. TypeOK' BY DEF TypeOK, MemoryOK, RootsTyped, Heaps, Records, Kinds
<1>2. /\ job' \in Jobs /\ job'.content = c /\ job'.use = use /\ job'.made = Nil
      /\ job'.target = target /\ job'.pieces = <<>>
      BY NoJobType DEF Jobs, Uses, Values
<1>3. JobOK' BY <1>2 DEF JobOK
<1>4. c # Nil BY HeapAssumption
<1>5. InterningOK' BY <1>2, <1>4 DEF InterningOK, CallerOK, Height
<1> QED BY <1>1, <1>2, <1>3, <1>5
        DEF Shape, Control, CompilingOK, FillingOK, OthersOK, Filling

LEMMA BeginFunctionShape ==
    ASSUME Shape, NEW c \in Contents, NEW o \in Objects, BeginFunction(c, o)
    PROVE  Shape'
<1>1. /\ MemoryOK /\ RootsTyped /\ stack \in Seq(Values) /\ stack = <<>> /\ stack' = <<>>
      /\ pc' = "find"
      /\ Allocate(stack, "function", Nil, o) /\ compilers' = Append(compilers, o)
      /\ job' = [NoJob EXCEPT !.content = c, !.use = "functionName", !.target = o]
      /\ UNCHANGED <<open, globals, names, program>>
      BY TypeParts DEF Shape, RootsTyped, BeginFunction, Control, CompilingOK
<1>2. MemoryOK' BY <1>1, AllocateOK DEF Kinds
<1>3. RootsTyped' /\ compilers' # <<>> BY <1>1 DEF RootsTyped
<1> QED BY <1>1, <1>2, <1>3, CompilerAsks

LEMMA EmitByteShape == Shape /\ EmitByte => Shape'
<1> SUFFICES ASSUME Shape, EmitByte PROVE Shape' OBVIOUS
<1>1. /\ MemoryOK /\ RootsTyped /\ stack \in Seq(Values) /\ Reallocate(stack)
      /\ pc = "compile" /\ UNCHANGED <<stack, open, static, compilers, pc, job>>
      BY TypeParts DEF Shape, RootsTyped, EmitByte, roots, static
<1>2. MemoryOK' /\ RootsTyped' BY <1>1, ReallocateOK DEF RootsTyped, static
<1>3. TypeOK' BY <1>1, <1>2 DEF TypeOK, MemoryOK, RootsTyped, Heaps, Records, Kinds
<1>4. Control'
      BY <1>1 DEF Shape, Control, JobOK, CompilingOK, InterningOK, FillingOK, OthersOK,
         Interning, Filling
<1> QED BY <1>3, <1>4 DEF Shape

LEMMA StringConstantShape ==
    ASSUME Shape, NEW c \in Contents, StringConstant(c)
    PROVE  Shape'
<1>1. /\ MemoryOK /\ RootsTyped /\ stack = <<>> /\ compilers # <<>>
      /\ compilers \in Seq(Objects) /\ pc' = "find"
      /\ job' = [NoJob EXCEPT !.content = c, !.use = "constant", !.target = Last(compilers)]
      /\ UNCHANGED <<heap, strings, stack, open, static, compilers>>
      BY TypeParts DEF Shape, RootsTyped, StringConstant, Control, CompilingOK, roots, static
<1>2. Last(compilers) \in Objects BY <1>1 DEF Last
<1>3. MemoryOK' /\ RootsTyped' BY <1>1 DEF MemoryOK, RootsTyped, static
<1> QED BY <1>1, <1>2, <1>3, CompilerAsks

LEMMA EndFunctionShape == Shape /\ EndFunction => Shape'
<1> SUFFICES ASSUME Shape, EndFunction PROVE Shape' OBVIOUS
<1> DEFINE target == Last(Front(compilers))
           items == <<<<Last(compilers)>>>>
<1>1. /\ MemoryOK /\ RootsTyped /\ stack \in Seq(Values) /\ stack = <<>> /\ pc' = "append"
      /\ compilers \in Seq(Objects) /\ Len(compilers) > 1 /\ Reallocate(stack)
      /\ compilers' = Front(compilers) /\ stack' = Append(stack, Last(compilers))
      /\ job' = [NoJob EXCEPT !.use = "constant", !.target = target, !.items = items]
      /\ UNCHANGED <<open, globals, names, program>>
      BY TypeParts DEF Shape, RootsTyped, EndFunction, Control, CompilingOK
<1>2. Last(compilers) \in Objects BY <1>1 DEF Last
<1>3. Front(compilers) \in Seq(Objects) /\ Len(Front(compilers)) = Len(compilers) - 1
      BY <1>1 DEF Front
<1>4. target \in Objects /\ Front(compilers) # <<>> BY <1>1, <1>3 DEF Last
<1>5. stack' \in Seq(Values) /\ Len(stack') = 1 /\ items \in Seq(Seq(Values))
      BY <1>1, <1>2 DEF Values
<1>6. MemoryOK' BY <1>1, ReallocateOK
<1>7. RootsTyped' BY <1>1, <1>3, <1>5 DEF RootsTyped
<1>8. TypeOK' BY <1>1, <1>6, <1>7 DEF TypeOK, MemoryOK, RootsTyped, Heaps, Records, Kinds
<1> HIDE DEF target, items
<1>9. /\ job' \in Jobs /\ job'.use = "constant" /\ job'.made = Nil
      /\ job'.target = target /\ job'.pieces = <<>> /\ job'.content = Nil
      BY <1>1, <1>4, <1>5, NoJobType DEF Jobs, Uses, Values
<1>10. JobOK' BY <1>1, <1>9 DEF JobOK
<1> QED BY <1>1, <1>4, <1>5, <1>8, <1>9, <1>10
        DEF Shape, Control, CompilingOK, InterningOK, FillingOK, OthersOK, Interning

LEMMA ConstantAddedShape == Shape /\ ConstantAdded => Shape'
<1> SUFFICES ASSUME Shape, ConstantAdded PROVE Shape' OBVIOUS
<1>1. /\ MemoryOK /\ RootsTyped /\ stack \in Seq(Values) /\ Filling /\ job.use = "constant"
      /\ stack' = Drop(1) /\ pc' = "compile" /\ job' = NoJob
      /\ UNCHANGED <<heap, strings, open, static>> /\ compilers' = compilers
      BY TypeParts DEF Shape, RootsTyped, ConstantAdded, Filling, static
<1>2. Len(stack) = 1 /\ compilers # <<>>
      BY <1>1 DEF Shape, Control, FillingOK, CompilingOK
<1>3. stack' \in Seq(Values) /\ stack' = <<>>
  <2>1. Drop(1) \in Seq(Values) /\ Len(Drop(1)) = 0 BY <1>1, <1>2, DropOK
  <2> QED BY <1>1, <2>1
<1>4. MemoryOK' /\ RootsTyped' BY <1>1, <1>3 DEF MemoryOK, RootsTyped, static
<1>5. TypeOK' BY <1>1, <1>4 DEF TypeOK, MemoryOK, RootsTyped, Heaps, Records, Kinds
<1>6. Control'
      BY <1>1, <1>2, <1>3, NoJobType DEF Control, JobOK, CompilingOK, InterningOK, FillingOK,
         OthersOK, Interning, Filling
<1> QED BY <1>5, <1>6 DEF Shape

LEMMA EndCompileShape == Shape /\ EndCompile => Shape'
<1> SUFFICES ASSUME Shape, EndCompile PROVE Shape' OBVIOUS
<1>1. /\ MemoryOK /\ RootsTyped /\ stack \in Seq(Values) /\ stack = <<>> /\ job = NoJob
      /\ compilers \in Seq(Objects) /\ Len(compilers) = 1 /\ Reallocate(stack)
      /\ compilers' = <<>> /\ UNCHANGED <<open, globals, names, program>>
      BY TypeParts DEF Shape, RootsTyped, EndCompile, Control, JobOK, CompilingOK
<1>2. MemoryOK' BY <1>1, ReallocateOK
<1>3. CASE /\ stack' = compilers /\ pc' = "closure"
           /\ job' = [NoJob EXCEPT !.drop = 1, !.height = 1, !.held = ToSet(compilers)]
  <2>1. ToSet(compilers) \subseteq Objects BY <1>1, Elements
  <2>2. stack' \in Seq(Values) BY <1>1, <1>3 DEF Values
  <2>3. RootsTyped' BY <1>1, <2>2 DEF RootsTyped
  <2>4. TypeOK' BY <1>3, <1>2, <2>3 DEF TypeOK, MemoryOK, RootsTyped, Heaps, Records, Kinds
  <2>5. /\ job' \in Jobs /\ job'.drop = 1 /\ job'.height = 1 /\ job'.use = "result"
        /\ job'.made = Nil /\ job'.pieces = <<>>
        BY <1>3, <2>1, NoJobType DEF Jobs
  <2>6. JobOK' BY <1>3, <2>5 DEF JobOK
  <2>7. Height(0)' BY <1>1, <1>3, <2>5 DEF Height
  <2> QED BY <1>3, <2>4, <2>5, <2>6, <2>7
          DEF Shape, Control, CompilingOK, InterningOK, FillingOK, OthersOK, Interning, Filling
<1>4. CASE pc' = "idle" /\ UNCHANGED <<stack, job>>
  <2>1. RootsTyped' BY <1>1, <1>4 DEF RootsTyped
  <2> QED BY <1>1, <1>2, <1>4, <2>1, IdleShape
<1> QED BY <1>3, <1>4 DEF EndCompile

LEMMA CompileShape == Shape /\ CompileStep => Shape'
BY BeginCompileShape, BeginFunctionShape, EmitByteShape, StringConstantShape,
   EndFunctionShape, ConstantAddedShape, EndCompileShape DEF CompileStep

-----------------------------------------------------------------------------
(* Natives. *)

LEMMA BeginNativeShape ==
    ASSUME Shape, NEW c \in Contents, BeginNative(c)
    PROVE  Shape'
<1>1. /\ MemoryOK /\ RootsTyped /\ stack = <<>> /\ pc' = "find"
      /\ job' = [NoJob EXCEPT !.content = c, !.use = "global"]
      /\ UNCHANGED <<heap, strings, stack, open, static>>
      BY TypeParts DEF Shape, BeginNative, roots
<1>2. MemoryOK' /\ RootsTyped' BY <1>1 DEF MemoryOK, RootsTyped, static
<1>3. TypeOK' BY <1>1, <1>2 DEF TypeOK, MemoryOK, RootsTyped, Heaps, Records, Kinds
<1>4. /\ job' \in Jobs /\ job'.content = c /\ job'.use = "global" /\ job'.made = Nil
      /\ job'.pieces = <<>>
      BY <1>1, NoJobType DEF Jobs, Uses
<1>5. JobOK' BY <1>1, <1>4 DEF JobOK
<1>6. InterningOK' BY <1>1, <1>4, HeapAssumption DEF InterningOK, CallerOK, Height
<1> QED BY <1>1, <1>3, <1>4, <1>5, <1>6
        DEF Shape, Control, CompilingOK, FillingOK, OthersOK, Filling

LEMMA NewNativeShape ==
    ASSUME Shape, NEW o \in Objects, NewNative(o)
    PROVE  Shape'
<1>1. /\ MemoryOK /\ RootsTyped /\ stack \in Seq(Values) /\ pc = "native" /\ pc' = "find"
      /\ Allocate(stack, "native", Nil, o) /\ stack' = Append(stack, o)
      /\ job' = [job EXCEPT !.use = "nativeName", !.target = o]
      /\ UNCHANGED <<open, static>> /\ job \in Jobs /\ job.made = Nil /\ job.pieces = <<>>
      /\ Len(stack) = 1 /\ stack[1] # Nil /\ job.content # Nil
      BY TypeParts DEF Shape, NewNative, RootsTyped, Control, JobOK, OthersOK
<1>2. MemoryOK' BY <1>1, AllocateOK DEF Kinds
<1>3. /\ stack' \in Seq(Values) /\ Len(stack') = 2 + 0
      /\ stack'[1] = stack[1] /\ stack'[2] = o
  <2>1. o \in Values BY DEF Values
  <2>2. stack \in Seq(Values) BY <1>1
  <2>3. /\ Append(stack, o) \in Seq(Values) /\ Len(Append(stack, o)) = Len(stack) + 1
        /\ Append(stack, o)[Len(stack) + 1] = o
        /\ \A i \in 1..Len(stack) : Append(stack, o)[i] = stack[i]
        BY <2>1, <2>2
  <2> QED BY <1>1, <2>3
<1>4. RootsTyped' BY <1>1, <1>3 DEF RootsTyped, static
<1>5. TypeOK' BY <1>1, <1>2, <1>4 DEF TypeOK, MemoryOK, RootsTyped, Heaps, Records, Kinds
<1>6. /\ job' \in Jobs /\ job'.use = "nativeName" /\ job'.made = Nil /\ job'.target = o
      /\ job'.pieces = <<>> /\ job'.content = job.content
      BY <1>1 DEF Jobs, Uses, Values
<1>7. JobOK' BY <1>1, <1>6 DEF JobOK
<1>8. InterningOK' BY <1>1, <1>3, <1>6 DEF InterningOK, CallerOK
<1> QED BY <1>1, <1>5, <1>6, <1>7, <1>8
        DEF Shape, Control, CompilingOK, FillingOK, OthersOK, Filling

LEMMA RegisterNativeShape ==
    ASSUME Shape, NEW g \in Globals, RegisterNative(g)
    PROVE  Shape'
<1>1. /\ MemoryOK /\ RootsTyped /\ stack \in Seq(Values) /\ pc = "register" /\ Len(stack) = 2
      /\ Reallocate(stack) /\ globals' = [globals EXCEPT ![g] = stack[2]]
      /\ names' = names \cup {stack[1]} /\ stack' = <<>> /\ pc' = "idle" /\ job' = NoJob
      /\ UNCHANGED <<open, compilers, program>> /\ stack[1] # Nil
      BY TypeParts DEF Shape, RegisterNative, RootsTyped, Control, OthersOK
<1>2. stack[1] \in Objects /\ stack[2] \in Values BY <1>1 DEF Values
<1>3. MemoryOK' BY <1>1, ReallocateOK
<1>4. RootsTyped' BY <1>1, <1>2 DEF RootsTyped
<1> QED BY <1>1, <1>3, <1>4, IdleShape

LEMMA RegisterShape == Shape /\ RegisterStep => Shape'
BY BeginNativeShape, NewNativeShape, RegisterNativeShape DEF RegisterStep

-----------------------------------------------------------------------------

(* Each action takes well-formed states to well-formed states. *)
LEMMA NextShape == Shape /\ [Next]_vars => Shape'
<1> SUFFICES ASSUME Shape, [Next]_vars PROVE Shape' OBVIOUS
<1>1. CASE Next
      BY <1>1, InstructionShape, StringShape, BuildShape, ClosureShape, CompileShape,
         RegisterShape DEF Next
<1>2. CASE UNCHANGED vars
  <2>1. TypeOK' BY <1>2 DEF Shape, TypeOK, vars, roots, static
  <2>2. Control'
        BY <1>2 DEF Shape, Control, JobOK, CompilingOK, InterningOK, FillingOK, OthersOK,
           Interning, Filling, CallerOK, Height, vars, roots, static
  <2> QED BY <2>1, <2>2 DEF Shape
<1> QED BY <1>1, <1>2

LEMMA AlwaysShape == Spec => []Shape
BY InitShape, NextShape, PTL DEF Spec

(* The heap, the interner, the roots and the place of the C code always have  *)
(* their types: in particular the interner holds strings only, and the list   *)
(* of open upvalues holds upvalues only, whatever was collected.              *)
THEOREM TypeCorrect == Spec => []TypeOK
BY AlwaysShape, PTL DEF Shape

-----------------------------------------------------------------------------
(* What an operation leaves on the stack. *)

LEMMA DeliverReturns ==
    ASSUME Shape, NEW s, CallerStack(s), NEW string \in Objects, Deliver(s, string),
           pc' = "idle"
    PROVE  stack' = <<>> \/ Len(stack') = job.height
<1>1. job \in Jobs /\ string \in Values /\ s \in Seq(Values)
      BY DEF Shape, Control, JobOK, Values, CallerStack
<1>2. CASE job.use = "result" /\ Finish(s, string)
  <2>1. job.height >= 1 /\ Len(s) = job.height + job.drop - 1 BY <1>2 DEF CallerStack
  <2> QED BY <1>1, <1>2, <2>1, FinishOK
<1> QED BY <1>2 DEF Deliver

LEMMA Returns ==
    ASSUME Shape, Next, pc # "idle", pc' = "idle"
    PROVE  stack' = <<>> \/ Len(stack') = job.height
<1>0. MemoryOK /\ stack \in Seq(Values) /\ job \in Jobs
      BY TypeParts DEF Shape, RootsTyped, Control, JobOK
<1>1. CASE Find
  <2>1. PICK s \in strings : Deliver(stack, s) BY <1>1 DEF Find
  <2>2. s \in Objects BY <1>0 DEF MemoryOK
  <2> QED BY <1>1, <2>1, <2>2, FindCaller, DeliverReturns DEF Find
<1>2. CASE Intern
  <2>1. pc = "interned" /\ Deliver(Drop(1), job.made) BY <1>2 DEF Intern
  <2>2. job.made \in Objects
        BY <1>0, <2>1 DEF Shape, Control, JobOK, Jobs, Values
  <2> QED BY <2>1, <2>2, InternedCaller, DeliverReturns
<1>3. CASE BuildDone
  <2>1. /\ Filling /\ job.use # "constant" /\ Len(job.pieces) <= 1
        /\ Finish(Drop(Len(job.pieces)), job.target)
        BY <1>3 DEF BuildDone, Filling
  <2> QED BY <2>1, BuiltStack, FinishOK
<1>4. ASSUME NEW old \in Values, SetIndexMap(old) PROVE Len(stack') = job.height
  <2>1. pc = "put" /\ Finish(stack, job.items[1][2]) BY <1>4 DEF SetIndexMap
  <2>2. /\ job.drop = 0 /\ Height(0) /\ Len(job.items) = 1 /\ Len(job.items[1]) = 2
        /\ job.items \in Seq(Seq(Values))
        BY <1>0, <2>1 DEF Shape, Control, OthersOK, Jobs
  <2>3. job.items[1] \in Seq(Values) BY <2>2
  <2>4. job.items[1][2] \in Values BY <2>2, <2>3
  <2>5. job.height >= 1 /\ Len(stack) = job.height + job.drop - 1 + 0 BY <2>2 DEF Height
  <2>6. job.height \in Nat /\ job.drop \in Nat BY <1>0 DEF Jobs
  <2>7. Len(stack) = job.height + job.drop - 1 BY <2>5, <2>6
  <2> QED BY <1>0, <2>1, <2>4, <2>5, <2>7, FinishOK
<1>5. CASE ClosureDone
      BY <1>5 DEF ClosureDone, Shape, Control, OthersOK, roots
<1>6. CASE EndCompile
      BY <1>6 DEF EndCompile, Shape, Control, CompilingOK
<1>7. CASE BuildFails \/ \E g \in Globals : RegisterNative(g)
      BY <1>7 DEF BuildFails, RegisterNative
<1>8. CASE Instruction
      BY <1>8 DEF Instruction, Load, GetIndex, SetIndexArray, Pop, RuntimeError, SetGlobal,
         DefineGlobal, Idle
<1>9. CASE /\ StringStep /\ ~Find /\ ~Intern
      BY <1>9 DEF StringStep, BeginCopy, NativeFails, BeginConcatenate, BeginGetIndexString,
         Idle, AllocateCharacters, GrowInterner, AllocateString
<1>10. CASE BuildStep /\ ~BuildDone /\ ~BuildFails /\ ~\E old \in Values : SetIndexMap(old)
      BY <1>10 DEF BuildStep, Array, Map, Keys, Split, NativePush, Grow, PieceDone, Idle,
         BeginSetIndexMap, Store, NativePop
<1>11. CASE ClosureStep /\ ~ClosureDone
      BY <1>11 DEF ClosureStep, BeginClosure, NewClosure, CaptureExisting, CaptureNew,
         Capturing, CloseUpvalue, Idle
<1>12. CASE CompileStep /\ ~EndCompile
      BY <1>12 DEF CompileStep, StringConstant, BeginFunction, BeginCompile, EmitByte,
         EndFunction, ConstantAdded, Idle
<1>13. CASE RegisterStep /\ ~\E g \in Globals : RegisterNative(g)
      BY <1>13 DEF RegisterStep, BeginNative, NewNative, Idle
<1>14. CASE \E old \in Values : SetIndexMap(old) BY <1>4, <1>14
<1> QED BY <1>1, <1>2, <1>3, <1>5, <1>6, <1>7, <1>8, <1>9, <1>10, <1>11, <1>12, <1>13,
           <1>14 DEF Next

(* A native, an instruction or the compiler leaves nothing on the stack but its *)
(* result: what newArray, split, addConstant, allocateString and defineNative   *)
(* pushed to keep it reachable has been popped, on each of their paths.         *)
THEOREM OperationsPop == Spec => TemporariesPopped
<1>1. Shape /\ [Next]_vars
      => [pc # "idle" /\ pc' = "idle" => stack' = <<>> \/ Len(stack') = job.height]_vars
      BY Returns
<1> QED BY <1>1, AlwaysShape, PTL DEF Spec, TemporariesPopped

-----------------------------------------------------------------------------
(* Interning: one live string per content, and the names of the natives.      *)

StringsOK ==
    /\ \A s, r \in Objects :
          /\ heap[s].kind = "string" /\ heap[r].kind = "string"
          /\ heap[s].content = heap[r].content
          => s = r
    /\ \A s \in Objects : heap[s].kind = "string" => s \in strings \cup {job.made}
    /\ pc \in {"characters", "object"} =>
          \A s \in Objects : heap[s].kind = "string" => heap[s].content # job.content
    /\ pc \in {"intern", "interned"} => heap[job.made].content = job.content

(* Is the string that will be the key of a native's global in the first slot? *)
Registering == pc \in {"native", "register"} \/ (pc = "find" /\ job.use = "nativeName")

(* The name of a native is a key of vm.globals, or is about to be. *)
NativesOK ==
    /\ \A o \in names : heap[o].kind # "free"
    /\ Interning /\ job.use = "nativeName" => pc = "find"
    /\ Registering =>
          /\ stack[1] \in Objects /\ heap[stack[1]].kind = "string"
          /\ heap[stack[1]].content = job.content
    /\ \A o \in Objects :
          heap[o].kind = "native" =>
             \/ heap[o].name = Nil \/ heap[o].name \in names
             \/ pc = "register" /\ heap[o].name = stack[1]

NamesOK == Shape /\ StringsOK /\ NativesOK

(* A step makes no string, forgets none of those it leaves, and names no native. *)
StringsKept ==
    \A o \in Objects :
       heap'[o].kind = "string" =>
          /\ heap[o].kind = "string" /\ heap'[o].content = heap[o].content
          /\ o \in strings => o \in strings'

NativesKept ==
    /\ \A o \in names : heap[o].kind # "free" => heap'[o].kind # "free"
    /\ \A o \in Objects :
          heap'[o].kind = "native" =>
             heap'[o].name = Nil \/ (heap[o].kind = "native" /\ heap'[o].name = heap[o].name)

HeapKept == StringsKept /\ NativesKept

(* It neither takes part in making a string nor in registering a native. *)
Ordinary ==
    /\ names' = names /\ pc # "register"
    /\ pc' \notin {"characters", "object", "intern", "interned", "native", "register"}
    /\ pc' = "find" => job'.use # "nativeName"
    /\ job.made = Nil \/ job.made \in strings'

(* The strings that such a step leaves differ from each other, and the interner *)
(* has them all.                                                                *)
LEMMA KeptUnique ==
    ASSUME StringsOK, Shape', StringsKept, job.made = Nil \/ job.made \in strings'
    PROVE  /\ \A s, r \in Objects :
                 /\ heap'[s].kind = "string" /\ heap'[r].kind = "string"
                 /\ heap'[s].content = heap'[r].content
                 => s = r
           /\ \A s \in Objects : heap'[s].kind = "string" => s \in strings'
<1>1. ASSUME NEW s \in Objects, heap'[s].kind = "string" PROVE s \in strings'
  <2>1. heap[s].kind = "string" BY <1>1 DEF StringsKept
  <2>2. s \in strings \cup {job.made} BY <2>1 DEF StringsOK
  <2>3. CASE s \in strings BY <1>1, <2>3 DEF StringsKept
  <2>4. CASE s = job.made BY <2>4, HeapAssumption
  <2> QED BY <2>2, <2>3, <2>4
<1> QED BY <1>1 DEF StringsKept, StringsOK

LEMMA OrdinaryNames ==
    ASSUME NamesOK, Shape', HeapKept, Ordinary
    PROVE  NamesOK'
<1>1. StringsOK'
      BY KeptUnique DEF NamesOK, HeapKept, StringsOK, Ordinary
<1>2. NativesOK'
  <2>1. \A o \in names' : heap'[o].kind # "free"
        BY DEF NamesOK, NativesOK, HeapKept, NativesKept, Ordinary
  <2>2. \A o \in Objects :
          heap'[o].kind = "native" => heap'[o].name = Nil \/ heap'[o].name \in names'
        BY DEF NamesOK, NativesOK, HeapKept, NativesKept, Ordinary
  <2>3. ~Registering' BY DEF Ordinary, Registering
  <2>4. Interning' /\ job'.use = "nativeName" => pc' = "find"
        BY DEF Interning, Ordinary
  <2> QED BY <2>1, <2>2, <2>3, <2>4 DEF NativesOK
<1> QED BY <1>1, <1>2 DEF NamesOK

-----------------------------------------------------------------------------
(* What each kind of step does to the strings and the natives. *)

LEMMA SameKept ==
    ASSUME heap' = heap, strings' = strings
    PROVE  HeapKept
BY DEF HeapKept, StringsKept, NativesKept

(* The heap that a collection leaves, and the interner with it. *)
LEMMA MemoriesKept ==
    ASSUME MemoryOK, RootsTyped, NEW s \in Seq(Values), NEW h \in Memories(s)
    PROVE  /\ \A o \in Objects :
                h[o].kind = "string" =>
                   /\ heap[o].kind = "string" /\ h[o].content = heap[o].content
                   /\ o \in strings => o \in Interned(h)
           /\ \A o \in names : o \in Objects /\ h[o] = heap[o]
           /\ \A o \in Objects :
                h[o].kind = "native" => heap[o].kind = "native" /\ h[o].name = heap[o].name
<1>1. /\ \A o \in Objects : h[o] = heap[o] \/ h[o] = Free
      /\ \A o \in Reachable(RootsOf(s), References) : h[o] = heap[o]
      BY MemoriesOK
<1>2. names \subseteq Objects /\ names \subseteq Reachable(RootsOf(s), References)
  <2>1. names \subseteq Objects BY DEF RootsTyped
  <2>2. names \subseteq RootsOf(s) BY <2>1, HeapAssumption DEF RootsOf
  <2> QED BY <2>1, <2>2, RootsType, ReferencesType, ReachableLeast
<1>3. Free.kind = "free" BY FreeType
<1> QED BY <1>1, <1>2, <1>3 DEF Interned

LEMMA ReallocateKept ==
    ASSUME MemoryOK, RootsTyped, NEW s \in Seq(Values), Reallocate(s)
    PROVE  HeapKept
BY MemoriesKept DEF Reallocate, HeapKept, StringsKept, NativesKept

LEMMA AllocateKept ==
    ASSUME MemoryOK, RootsTyped, NEW s \in Seq(Values), NEW kind \in Kinds \ {"free", "string"},
           NEW content, NEW o \in Objects, Allocate(s, kind, content, o)
    PROVE  HeapKept
<1>1. PICK h \in Memories(s) :
        /\ h[o].kind = "free"
        /\ heap' = [h EXCEPT ![o] = New(kind, content)]
        /\ strings' = Interned(h)
      BY DEF Allocate
<1>2. h \in Heaps BY MemoriesOK
<1>3. /\ heap'[o].kind = kind /\ heap'[o].name = Nil
      /\ \A q \in Objects : q # o => heap'[q] = h[q]
      BY <1>1, <1>2 DEF New, Heaps
<1>4. \A q \in names : q \in Objects /\ h[q] = heap[q] BY MemoriesKept
<1> QED BY <1>1, <1>3, <1>4, MemoriesKept DEF HeapKept, StringsKept, NativesKept, Kinds

LEMMA ReplacedKept ==
    ASSUME MemoryOK, RootsTyped, NEW o \in Objects, NEW old, NEW new,
           heap' = Replaced(o, old, new), strings' = strings
    PROVE  HeapKept
<1>1. \A q \in Objects : /\ heap'[q].kind = heap[q].kind /\ heap'[q].name = heap[q].name
                         /\ heap'[q].content = heap[q].content
      BY DEF Replaced, MemoryOK, Heaps, Records
<1>2. names \subseteq Objects BY DEF RootsTyped
<1> QED BY <1>1, <1>2 DEF HeapKept, StringsKept, NativesKept

-----------------------------------------------------------------------------

(* Instructions, and the operations that build arrays, maps and closures. *)
LEMMA InstructionNames ==
    ASSUME NamesOK, Shape', Instruction
    PROVE  NamesOK'
<1>0. /\ MemoryOK /\ RootsTyped /\ stack \in Seq(Values)
      /\ pc = "idle" => job.made = Nil
      BY TypeParts DEF NamesOK, Shape, RootsTyped, Control, JobOK
<1>1. ASSUME NEW v \in Values, Load(v) \/ GetIndex(v) PROVE NamesOK'
  <2>1. HeapKept BY <1>1, SameKept DEF Load, GetIndex
  <2>2. Ordinary BY <1>0, <1>1 DEF Ordinary, Load, GetIndex, Idle, static
  <2> QED BY <2>1, <2>2, OrdinaryNames
<1>2. ASSUME NEW v \in Values, SetIndexArray(v) PROVE NamesOK'
  <2>1. Peek(2) \in Objects
        BY <1>0, <1>2, PeekOK DEF SetIndexArray, Idle, Is, Values
  <2>2. HeapKept BY <1>0, <1>2, <2>1, ReplacedKept DEF SetIndexArray
  <2>3. Ordinary BY <1>0, <1>2 DEF Ordinary, SetIndexArray, Idle, static
  <2> QED BY <2>2, <2>3, OrdinaryNames
<1>3. CASE Pop \/ RuntimeError
  <2>1. HeapKept BY <1>3, SameKept DEF Pop, RuntimeError
  <2>2. Ordinary BY <1>0, <1>3 DEF Ordinary, Pop, RuntimeError, Idle, static
  <2> QED BY <2>1, <2>2, OrdinaryNames
<1>4. ASSUME NEW g \in Globals, SetGlobal(g) \/ DefineGlobal(g) PROVE NamesOK'
  <2>1. HeapKept BY <1>0, <1>4, ReallocateKept DEF SetGlobal, DefineGlobal
  <2>2. Ordinary BY <1>0, <1>4 DEF Ordinary, SetGlobal, DefineGlobal, Idle
  <2> QED BY <2>1, <2>2, OrdinaryNames
<1> QED BY <1>1, <1>2, <1>3, <1>4 DEF Instruction

LEMMA BuildNames ==
    ASSUME NamesOK, Shape', BuildStep
    PROVE  NamesOK'
<1>0. /\ MemoryOK /\ RootsTyped /\ stack \in Seq(Values)
      /\ pc \in {"idle", "append", "store", "put"} => job.made = Nil
      BY TypeParts DEF NamesOK, Shape, RootsTyped, Control, JobOK
<1>1. ASSUME NEW n, NEW kind \in {"array", "map"}, NEW items, NEW o \in Objects,
             BeginBuild(n, kind, items, o), pc = "idle"
      PROVE  NamesOK'
  <2>1. Allocate(stack, kind, Nil, o) BY <1>1 DEF BeginBuild
  <2>2. HeapKept BY <1>0, <2>1, AllocateKept DEF Kinds
  <2>3. Ordinary BY <1>0, <1>1 DEF Ordinary, BeginBuild, static
  <2> QED BY <2>2, <2>3, OrdinaryNames
<1>2. ASSUME NEW n \in 0..MaxStack, NEW o \in Objects, Array(n, o) \/ Map(n, o) PROVE NamesOK'
      BY <1>1, <1>2 DEF Array, Map, Idle
<1>3. ASSUME NEW K \in SUBSET Objects, NEW o \in Objects, Keys(K, o) PROVE NamesOK'
      BY <1>1, <1>3 DEF Keys, Idle
<1>4. ASSUME NEW pieces, NEW o \in Objects, Split(pieces, o) PROVE NamesOK'
  <2>1. Allocate(stack, "array", Nil, o) BY <1>4 DEF Split
  <2>2. HeapKept BY <1>0, <2>1, AllocateKept DEF Kinds
  <2>3. job'.use = "piece" BY <1>4, NoJobType DEF Split, Start, Jobs
  <2>4. Ordinary BY <1>0, <1>4, <2>3 DEF Ordinary, Split, Idle, static
  <2> QED BY <2>2, <2>4, OrdinaryNames
<1>5. CASE NativePush \/ BuildFails \/ PieceDone \/ BuildDone
  <2>1. HeapKept BY <1>5, SameKept DEF NativePush, BuildFails, PieceDone, BuildDone
  <2>2. pc' = "find" => job'.use # "nativeName"
    <3>1. CASE PieceDone
      <4>1. job.use \in {"result", "piece", "constant"} /\ job \in Jobs
            BY <3>1 DEF NamesOK, Shape, Control, FillingOK, Filling, PieceDone, JobOK
      <4>2. job'.use = job.use BY <3>1, <4>1 DEF PieceDone, Jobs
      <4> QED BY <4>1, <4>2
    <3> QED BY <1>5, <3>1 DEF NativePush, BuildFails, BuildDone, Finish
  <2>3. Ordinary
        BY <1>0, <1>5, <2>2
           DEF Ordinary, NativePush, BuildFails, PieceDone, BuildDone, Finish, Idle, static, roots
  <2> QED BY <2>1, <2>3, OrdinaryNames
<1>6. CASE Grow
  <2>1. HeapKept BY <1>0, <1>6, ReallocateKept DEF Grow
  <2>2. Ordinary BY <1>0, <1>6 DEF Ordinary, Grow, roots, static
  <2> QED BY <2>1, <2>2, OrdinaryNames
<1>7. CASE BeginSetIndexMap
  <2>1. Drop(3) \in Seq(Values) /\ Reallocate(Drop(3))
        BY <1>0, <1>7, DropOK DEF BeginSetIndexMap, Idle
  <2>2. HeapKept BY <1>0, <2>1, ReallocateKept
  <2>3. Ordinary BY <1>0, <1>7 DEF Ordinary, BeginSetIndexMap, Idle, static
  <2> QED BY <2>2, <2>3, OrdinaryNames
<1>8. ASSUME NEW old \in Values, Store(old) \/ SetIndexMap(old) PROVE NamesOK'
  <2>1. job.target \in Objects
        BY <1>8 DEF Store, SetIndexMap, NamesOK, Shape, Control, FillingOK, Filling, OthersOK
  <2>2. HeapKept BY <1>0, <1>8, <2>1, ReplacedKept DEF Store, SetIndexMap
  <2>3. Ordinary BY <1>0, <1>8 DEF Ordinary, Store, SetIndexMap, Finish, roots, static
  <2> QED BY <2>2, <2>3, OrdinaryNames
<1>9. ASSUME NEW v \in Values, NativePop(v) PROVE NamesOK'
  <2>1. Peek(0) \in Objects BY <1>0, <1>9, PeekOK DEF NativePop, Idle, Is, Values
  <2>2. HeapKept BY <1>0, <1>9, <2>1, ReplacedKept, SameKept DEF NativePop
  <2>3. Ordinary BY <1>0, <1>9 DEF Ordinary, NativePop, Idle, static
  <2> QED BY <2>2, <2>3, OrdinaryNames
<1> QED BY <1>2, <1>3, <1>4, <1>5, <1>6, <1>7, <1>8, <1>9 DEF BuildStep

LEMMA ClosureNames ==
    ASSUME NamesOK, Shape', ClosureStep
    PROVE  NamesOK'
<1>0. /\ MemoryOK /\ RootsTyped /\ stack \in Seq(Values)
      /\ pc \in {"idle", "closure", "capture"} => job.made = Nil
      /\ pc = "capture" => job.target \in Objects
      BY TypeParts DEF NamesOK, Shape, RootsTyped, Control, JobOK, OthersOK
<1>1. CASE BeginClosure
  <2>1. HeapKept BY <1>0, <1>1, ReallocateKept DEF BeginClosure
  <2>2. Ordinary BY <1>0, <1>1 DEF Ordinary, BeginClosure, Idle, roots, static
  <2> QED BY <2>1, <2>2, OrdinaryNames
<1>2. CASE ClosureDone
  <2>1. HeapKept BY <1>2, SameKept DEF ClosureDone
  <2>2. Ordinary BY <1>0, <1>2 DEF Ordinary, ClosureDone, roots, static
  <2> QED BY <2>1, <2>2, OrdinaryNames
<1>3. ASSUME NEW o \in Objects, NewClosure(o) PROVE NamesOK'
  <2>1. PICK h \in Memories(stack) :
          /\ h[o].kind = "free" /\ strings' = Interned(h)
          /\ heap' = [h EXCEPT ![o] = [New("closure", Nil) EXCEPT !.refs = job.held]]
        BY <1>3 DEF NewClosure
  <2>2. h \in Heaps BY <1>0, MemoriesOK
  <2>3. /\ heap'[o].kind = "closure" /\ \A q \in Objects : q # o => heap'[q] = h[q]
        BY <2>1, <2>2 DEF Heaps, New
  <2>4. HeapKept
        BY <1>0, <2>1, <2>3, MemoriesKept DEF HeapKept, StringsKept, NativesKept
  <2>5. Ordinary BY <1>0, <1>3 DEF Ordinary, NewClosure, static
  <2> QED BY <2>4, <2>5, OrdinaryNames
<1>4. ASSUME NEW u \in Objects, CaptureExisting(u) PROVE NamesOK'
  <2>1. HeapKept BY <1>0, <1>4, ReplacedKept DEF CaptureExisting, Capturing
  <2>2. Ordinary BY <1>0, <1>4 DEF Ordinary, CaptureExisting, Capturing, roots, static
  <2> QED BY <2>1, <2>2, OrdinaryNames
<1>5. ASSUME NEW u \in Objects, CaptureNew(u) PROVE NamesOK'
  <2>1. PICK h \in Memories(stack) :
          /\ h[u].kind = "free" /\ strings' = Interned(h)
          /\ heap' = [h EXCEPT ![u] = New("upvalue", Nil), ![job.target].refs = @ \cup {u}]
        BY <1>5 DEF CaptureNew
  <2>2. h \in Heaps /\ job.target \in Objects
        BY <1>0, <1>5, MemoriesOK DEF CaptureNew, Capturing
  <2>3. /\ heap'[u].kind = "upvalue"
        /\ \A q \in Objects : q # u => /\ heap'[q].kind = h[q].kind
                                       /\ heap'[q].name = h[q].name
                                       /\ heap'[q].content = h[q].content
        BY <2>1, <2>2 DEF Heaps, Records, New
  <2>4. HeapKept
    <3>0. \A q \in Objects :
            h[q].kind = "string" =>
               /\ heap[q].kind = "string" /\ h[q].content = heap[q].content
               /\ q \in strings => q \in Interned(h)
          BY <1>0, MemoriesKept
    <3>1. StringsKept
      <4> SUFFICES ASSUME NEW q \in Objects, heap'[q].kind = "string"
                   PROVE  /\ heap[q].kind = "string" /\ heap'[q].content = heap[q].content
                          /\ q \in strings => q \in strings'
          BY DEF StringsKept
      <4>1. q # u BY <2>3
      <4>2. h[q].kind = "string" /\ heap'[q].content = h[q].content BY <4>1, <2>3
      <4> QED BY <4>2, <3>0, <2>1
    <3>2. \A q \in names : q \in Objects /\ h[q] = heap[q] BY <1>0, MemoriesKept
    <3>3. \A q \in Objects :
            h[q].kind = "native" => heap[q].kind = "native" /\ h[q].name = heap[q].name
          BY <1>0, MemoriesKept
    <3>4. NativesKept BY <2>3, <3>2, <3>3 DEF NativesKept
    <3> QED BY <3>1, <3>4 DEF HeapKept
  <2>5. Ordinary BY <1>0, <1>5 DEF Ordinary, CaptureNew, Capturing, static
  <2> QED BY <2>4, <2>5, OrdinaryNames
<1>6. ASSUME NEW u \in Objects, CloseUpvalue(u) PROVE NamesOK'
  <2>1. HeapKept BY <1>0, <1>6, ReplacedKept DEF CloseUpvalue
  <2>2. Ordinary BY <1>0, <1>6 DEF Ordinary, CloseUpvalue, Idle, static
  <2> QED BY <2>1, <2>2, OrdinaryNames
<1> QED BY <1>1, <1>2, <1>3, <1>4, <1>5, <1>6 DEF ClosureStep

LEMMA CompileNames ==
    ASSUME NamesOK, Shape', CompileStep
    PROVE  NamesOK'
<1>0. /\ MemoryOK /\ RootsTyped /\ stack \in Seq(Values)
      /\ pc \in {"idle", "compile", "append"} => job.made = Nil
      BY TypeParts DEF NamesOK, Shape, RootsTyped, Control, JobOK
<1>1. ASSUME NEW c \in Contents, StringConstant(c) PROVE NamesOK'
  <2>1. HeapKept BY <1>1, SameKept DEF StringConstant
  <2>2. job'.use = "constant" BY <1>1, NoJobType DEF StringConstant, Jobs
  <2>3. Ordinary BY <1>0, <1>1, <2>2 DEF Ordinary, StringConstant, roots, static
  <2> QED BY <2>1, <2>3, OrdinaryNames
<1>2. ASSUME NEW c \in Contents, NEW o \in Objects, BeginFunction(c, o) PROVE NamesOK'
  <2>1. HeapKept BY <1>0, <1>2, AllocateKept DEF BeginFunction, Kinds
  <2>2. job'.use = "functionName" BY <1>2, NoJobType DEF BeginFunction, Jobs
  <2>3. Ordinary BY <1>0, <1>2, <2>2 DEF Ordinary, BeginFunction
  <2> QED BY <2>1, <2>3, OrdinaryNames
<1>3. ASSUME NEW o \in Objects, BeginCompile(o) PROVE NamesOK'
  <2>1. HeapKept BY <1>0, <1>3, AllocateKept DEF BeginCompile, Kinds
  <2>2. Ordinary BY <1>0, <1>3 DEF Ordinary, BeginCompile, Idle
  <2> QED BY <2>1, <2>2, OrdinaryNames
<1>4. CASE EmitByte \/ EndFunction \/ EndCompile
  <2>1. HeapKept BY <1>0, <1>4, ReallocateKept DEF EmitByte, EndFunction, EndCompile
  <2>2. Ordinary
        BY <1>0, <1>4 DEF Ordinary, EmitByte, EndFunction, EndCompile, roots, static
  <2> QED BY <2>1, <2>2, OrdinaryNames
<1>5. CASE ConstantAdded
  <2>1. HeapKept BY <1>5, SameKept DEF ConstantAdded
  <2>2. Ordinary BY <1>0, <1>5 DEF Ordinary, ConstantAdded, static
  <2> QED BY <2>1, <2>2, OrdinaryNames
<1> QED BY <1>1, <1>2, <1>3, <1>4, <1>5 DEF CompileStep

(* What is on the stack is as it was after a collection. *)
LEMMA RootKept ==
    ASSUME MemoryOK, RootsTyped, stack \in Seq(Values), NEW h \in Memories(stack),
           NEW v \in ToSet(stack), v # Nil
    PROVE  v \in Objects /\ h[v] = heap[v]
<1>1. v \in RootsOf(stack) BY DEF RootsOf
<1>2. v \in Reachable(RootsOf(stack), References) /\ v \in Objects
      BY <1>1, RootsType, ReferencesType, ReachableLeast
<1> QED BY <1>2, MemoriesOK

(* The caller of copyString gets a string that has the characters it asked for. *)
LEMMA DeliverNames ==
    ASSUME NamesOK, Shape', pc \in {"find", "interned"}, NEW s, CallerStack(s),
           NEW string \in Objects, heap[string].kind = "string",
           heap[string].content = job.content, Deliver(s, string),
           strings \subseteq strings', job.made = Nil \/ job.made \in strings', names' = names,
           pc = "find" => s = stack
    PROVE  NamesOK'
<1>0. /\ MemoryOK /\ RootsTyped /\ job \in Jobs /\ StringsOK /\ NativesOK
      /\ Interning /\ s \in Seq(Values) /\ string \in Values
      BY TypeParts DEF NamesOK, Shape, Control, JobOK, Interning, CallerStack, Values
<1>1. CASE job.use \in {"result", "message", "piece", "constant"}
  <2>1. heap' = heap /\ pc' \in {"idle", "append"} BY <1>1 DEF Deliver, Finish
  <2>2. HeapKept BY <2>1 DEF HeapKept, StringsKept, NativesKept
  <2>3. Ordinary BY <2>1 DEF Ordinary
  <2> QED BY <2>2, <2>3, OrdinaryNames
<1>2. CASE job.use = "functionName"
  <2>1. /\ heap' = [heap EXCEPT ![job.target].refs = @ \cup {string}] /\ pc' = "compile"
        /\ job.target \in Objects
        BY <1>0, <1>2 DEF Deliver, NamesOK, Shape, Control, InterningOK
  <2>2. \A q \in Objects : /\ heap'[q].kind = heap[q].kind /\ heap'[q].name = heap[q].name
                           /\ heap'[q].content = heap[q].content
        BY <1>0, <2>1 DEF MemoryOK, Heaps, Records
  <2>3. HeapKept BY <1>0, <2>2 DEF HeapKept, StringsKept, NativesKept, RootsTyped
  <2>4. Ordinary BY <2>1 DEF Ordinary
  <2> QED BY <2>3, <2>4, OrdinaryNames
<1>3. CASE job.use = "global"
  <2>1. /\ heap' = heap /\ pc' = "native" /\ stack' = Append(s, string)
        /\ job' = [job EXCEPT !.made = Nil]
        BY <1>3 DEF Deliver
  <2>2. Len(s) = 0 BY <1>3 DEF CallerStack
  <2>3. stack'[1] = string BY <1>0, <2>1, <2>2
  <2>4. job'.content = job.content BY <1>0, <2>1 DEF Jobs
  <2>5. StringsKept BY <2>1 DEF StringsKept
  <2>6. StringsOK' BY <1>0, <2>1, <2>5, KeptUnique DEF StringsOK
  <2>7. pc # "register" BY DEF Interning
  <2>8. NativesOK' BY <1>0, <2>1, <2>3, <2>4, <2>7 DEF NativesOK, Interning
  <2> QED BY <2>6, <2>8 DEF NamesOK
<1>4. CASE job.use = "nativeName"
  <2>1. pc = "find" /\ Registering /\ s = stack
        BY <1>0, <1>4 DEF NativesOK, Registering
  <2>2. /\ heap' = [heap EXCEPT ![job.target].name = string] /\ pc' = "register"
        /\ stack' = stack /\ job' = [job EXCEPT !.made = Nil] /\ job.target \in Objects
        BY <1>0, <1>4, <2>1 DEF Deliver, NamesOK, Shape, Control, InterningOK
  <2>3. /\ stack[1] \in Objects /\ heap[stack[1]].kind = "string"
        /\ heap[stack[1]].content = job.content
        BY <1>0, <2>1 DEF NativesOK
  <2>4. string = stack[1] BY <1>0, <2>3 DEF StringsOK
  <2>5. \A q \in Objects : /\ heap'[q].kind = heap[q].kind
                           /\ heap'[q].content = heap[q].content
                           /\ heap'[q].name = heap[q].name \/ heap'[q].name = string
        BY <1>0, <2>2 DEF MemoryOK, Heaps, Records
  <2>6. StringsKept BY <2>5 DEF StringsKept
  <2>7. StringsOK' BY <1>0, <2>2, <2>6, KeptUnique DEF StringsOK
  <2>8. job'.content = job.content /\ names \subseteq Objects
        BY <1>0, <2>2 DEF Jobs, RootsTyped
  <2>9. NativesOK'
    <3>1. \A o \in names' : heap'[o].kind # "free" BY <1>0, <2>5, <2>8 DEF NativesOK
    <3>2. /\ stack'[1] \in Objects /\ heap'[stack'[1]].kind = "string"
          /\ heap'[stack'[1]].content = job'.content
          BY <2>2, <2>3, <2>5, <2>8
    <3>3. \A o \in Objects :
            heap'[o].kind = "native" =>
               heap'[o].name = Nil \/ heap'[o].name \in names' \/ heap'[o].name = stack'[1]
          BY <1>0, <2>1, <2>2, <2>4, <2>5 DEF NativesOK
    <3> QED BY <2>2, <3>1, <3>2, <3>3 DEF NativesOK, Interning
  <2> QED BY <2>7, <2>9 DEF NamesOK
<1> QED BY <1>0, <1>1, <1>2, <1>3, <1>4 DEF Jobs, Uses

LEMMA FindNames ==
    ASSUME NamesOK, Shape', Find
    PROVE  NamesOK'
<1>0. /\ MemoryOK /\ RootsTyped /\ StringsOK /\ NativesOK /\ pc = "find" /\ Interning
      /\ job.made = Nil /\ UNCHANGED <<strings, names>>
      BY TypeParts DEF NamesOK, Shape, Control, JobOK, Interning, Find, static
<1>1. ASSUME NEW s \in strings, heap[s].content = job.content, Deliver(stack, s)
      PROVE  NamesOK'
  <2>1. s \in Objects /\ heap[s].kind = "string" BY <1>0 DEF MemoryOK
  <2>2. CallerStack(stack) BY <1>0, FindCaller DEF NamesOK
  <2> QED BY <1>0, <1>1, <2>1, <2>2, DeliverNames
<1>2. ASSUME \A s \in strings : heap[s].content # job.content,
             pc' = (IF job.took THEN "object" ELSE "characters"),
             UNCHANGED <<heap, stack, open, job>>
      PROVE  NamesOK'
  <2>1. \A s \in Objects : heap[s].kind = "string" => s \in strings
        BY <1>0, HeapAssumption DEF StringsOK
  <2>2. job.use # "nativeName"
        BY <1>0, <1>2, <2>1 DEF NativesOK, Registering
  <2>3. StringsOK' BY <1>0, <1>2, <2>1 DEF StringsOK
  <2>4. ~Registering' BY <1>2 DEF Registering
  <2>5. NativesOK' BY <1>0, <1>2, <2>2, <2>4 DEF NativesOK
  <2> QED BY <2>3, <2>5 DEF NamesOK
<1> QED BY <1>1, <1>2 DEF Find

LEMMA AllocateCharactersNames ==
    ASSUME NamesOK, Shape', AllocateCharacters
    PROVE  NamesOK'
<1>0. /\ MemoryOK /\ RootsTyped /\ StringsOK /\ NativesOK /\ stack \in Seq(Values)
      /\ pc = "characters" /\ pc' = "object" /\ job.made = Nil /\ Reallocate(stack)
      /\ UNCHANGED <<stack, names, job>> /\ Interning
      BY TypeParts DEF NamesOK, Shape, RootsTyped, Control, JobOK, AllocateCharacters, static,
         roots, Interning
<1>1. HeapKept BY <1>0, ReallocateKept
<1>2. StringsOK'
  <2>1. \A s \in Objects : heap'[s].kind = "string" => heap'[s].content # job'.content
        BY <1>0, <1>1 DEF HeapKept, StringsKept, StringsOK
  <2> QED BY <1>0, <1>1, <2>1, KeptUnique DEF HeapKept, StringsOK
<1>3. NativesOK' BY <1>0, <1>1 DEF HeapKept, NativesKept, NativesOK, Registering
<1> QED BY <1>2, <1>3 DEF NamesOK

LEMMA AllocateStringNames ==
    ASSUME NamesOK, Shape', NEW o \in Objects, AllocateString(o)
    PROVE  NamesOK'
<1>0. /\ MemoryOK /\ RootsTyped /\ StringsOK /\ NativesOK /\ stack \in Seq(Values)
      /\ pc = "object" /\ pc' = "intern" /\ job.made = Nil /\ names' = names
      /\ Allocate(stack, "string", job.content, o) /\ job \in Jobs
      /\ job' = [job EXCEPT !.held = {}, !.made = o] /\ Interning
      BY TypeParts DEF NamesOK, Shape, RootsTyped, Control, JobOK, AllocateString, static,
         Interning
<1>1. PICK h \in Memories(stack) :
        /\ h[o].kind = "free"
        /\ heap' = [h EXCEPT ![o] = New("string", job.content)]
        /\ strings' = Interned(h)
      BY <1>0 DEF Allocate
<1>2. h \in Heaps BY <1>0, MemoriesOK
<1>3. /\ heap'[o].kind = "string" /\ heap'[o].content = job.content
      /\ \A q \in Objects : q # o => heap'[q] = h[q]
      BY <1>1, <1>2 DEF New, Heaps
<1>4. job'.made = o /\ job'.content = job.content /\ job'.use = job.use BY <1>0 DEF Jobs
<1>5. /\ \A q \in Objects :
           h[q].kind = "string" =>
              /\ heap[q].kind = "string" /\ h[q].content = heap[q].content
              /\ q \in strings => q \in strings'
      /\ \A q \in names : q \in Objects /\ h[q] = heap[q]
      /\ \A q \in Objects :
           h[q].kind = "native" => heap[q].kind = "native" /\ h[q].name = heap[q].name
      BY <1>0, <1>1, MemoriesKept
<1>6. StringsOK'
  <2>1. ASSUME NEW s \in Objects, heap'[s].kind = "string", s # o
        PROVE  /\ heap[s].kind = "string" /\ heap'[s].content = heap[s].content
               /\ heap'[s].content # job.content /\ s \in strings'
    <3>1. h[s].kind = "string" /\ heap'[s] = h[s] BY <1>3, <2>1
    <3>2. heap[s].kind = "string" /\ heap'[s].content = heap[s].content BY <1>5, <3>1
    <3>3. s \in strings BY <1>0, <3>2, HeapAssumption DEF StringsOK
    <3> QED BY <1>0, <1>5, <3>1, <3>2, <3>3 DEF StringsOK
  <2>2. \A s, r \in Objects :
          /\ heap'[s].kind = "string" /\ heap'[r].kind = "string"
          /\ heap'[s].content = heap'[r].content
          => s = r
        BY <1>0, <1>3, <2>1 DEF StringsOK
  <2> QED BY <1>0, <1>3, <1>4, <2>1, <2>2 DEF StringsOK
<1>7. NativesOK'
  <2>1. job.use # "nativeName" BY <1>0 DEF NativesOK
  <2>2. ~Registering' BY <1>0 DEF Registering
  <2>3. \A q \in names' : heap'[q].kind # "free"
        BY <1>0, <1>3, <1>5 DEF NativesOK
  <2>4. \A q \in Objects :
          heap'[q].kind = "native" => heap'[q].name = Nil \/ heap'[q].name \in names'
        BY <1>0, <1>3, <1>5 DEF NativesOK
  <2> QED BY <1>4, <2>1, <2>2, <2>3, <2>4 DEF NativesOK
<1> QED BY <1>6, <1>7 DEF NamesOK

LEMMA GrowInternerNames ==
    ASSUME NamesOK, Shape', GrowInterner
    PROVE  NamesOK'
<1>0. /\ MemoryOK /\ RootsTyped /\ StringsOK /\ NativesOK /\ stack \in Seq(Values)
      /\ pc = "intern" /\ pc' = "interned" /\ Reallocate(stack)
      /\ UNCHANGED <<stack, names, job>> /\ Interning /\ Interning'
      BY TypeParts DEF NamesOK, Shape, RootsTyped, GrowInterner, static, roots, Interning
<1>1. HeapKept BY <1>0, ReallocateKept
<1>2. job.made \in Objects /\ heap'[job.made].kind = "string"
      BY <1>0 DEF NamesOK, Shape, Control, JobOK, InterningOK, Jobs, Values
<1>3. StringsOK' BY <1>0, <1>1, <1>2 DEF HeapKept, StringsKept, StringsOK
<1>4. NativesOK' BY <1>0, <1>1 DEF HeapKept, NativesKept, NativesOK, Registering
<1> QED BY <1>3, <1>4 DEF NamesOK

LEMMA InternNames ==
    ASSUME NamesOK, Shape', Intern
    PROVE  NamesOK'
<1>0. /\ StringsOK /\ pc = "interned" /\ Interning /\ strings' = strings \cup {job.made}
      /\ Deliver(Drop(1), job.made) /\ names' = names
      BY DEF NamesOK, Intern, static, Interning
<1>1. /\ job.made \in Objects /\ heap[job.made].kind = "string"
      /\ heap[job.made].content = job.content
      BY <1>0 DEF NamesOK, Shape, Control, JobOK, InterningOK, Jobs, Values, StringsOK
<1>2. CallerStack(Drop(1)) BY <1>0, InternedCaller DEF NamesOK
<1> QED BY <1>0, <1>1, <1>2, DeliverNames

LEMMA StringNames ==
    ASSUME NamesOK, Shape', StringStep
    PROVE  NamesOK'
<1>0. /\ MemoryOK /\ RootsTyped /\ stack \in Seq(Values)
      /\ pc = "idle" => job.made = Nil
      BY TypeParts DEF NamesOK, Shape, RootsTyped, Control, JobOK
<1>1. ASSUME NEW c \in Contents, BeginCopy(c) \/ NativeFails(c) \/ BeginGetIndexString(c)
      PROVE  NamesOK'
  <2>1. HeapKept BY <1>1, SameKept DEF BeginCopy, NativeFails, BeginGetIndexString
  <2>2. job'.use \in {"result", "message"}
        BY <1>1, NoJobType DEF BeginCopy, NativeFails, BeginGetIndexString, Start, Jobs
  <2>3. Ordinary
        BY <1>0, <1>1, <2>2
           DEF Ordinary, BeginCopy, NativeFails, BeginGetIndexString, Idle, roots, static
  <2> QED BY <2>1, <2>3, OrdinaryNames
<1>2. ASSUME NEW c \in Contents, BeginConcatenate(c) PROVE NamesOK'
  <2>1. HeapKept BY <1>0, <1>2, ReallocateKept DEF BeginConcatenate
  <2>2. job'.use = "result" BY <1>2, NoJobType DEF BeginConcatenate, Start, Jobs
  <2>3. Ordinary BY <1>0, <1>2, <2>2 DEF Ordinary, BeginConcatenate, Idle, roots, static
  <2> QED BY <2>1, <2>3, OrdinaryNames
<1> QED BY <1>1, <1>2, FindNames, AllocateCharactersNames, AllocateStringNames,
           GrowInternerNames, InternNames DEF StringStep

LEMMA RegisterNames ==
    ASSUME NamesOK, Shape', RegisterStep
    PROVE  NamesOK'
<1>0. /\ MemoryOK /\ RootsTyped /\ stack \in Seq(Values) /\ StringsOK /\ NativesOK
      /\ pc \in {"idle", "native", "register"} => job.made = Nil
      BY TypeParts DEF NamesOK, Shape, RootsTyped, Control, JobOK
<1>1. ASSUME NEW c \in Contents, BeginNative(c) PROVE NamesOK'
  <2>1. HeapKept BY <1>1, SameKept DEF BeginNative
  <2>2. job'.use = "global" BY <1>1, NoJobType DEF BeginNative, Jobs
  <2>3. Ordinary BY <1>0, <1>1, <2>2 DEF Ordinary, BeginNative, Idle, roots, static
  <2> QED BY <2>1, <2>3, OrdinaryNames
<1>2. ASSUME NEW o \in Objects, NewNative(o) PROVE NamesOK'
  <2>1. /\ pc = "native" /\ pc' = "find" /\ Allocate(stack, "native", Nil, o)
        /\ stack' = Append(stack, o) /\ names' = names
        /\ job' = [job EXCEPT !.use = "nativeName", !.target = o]
        BY <1>2 DEF NewNative, static
  <2>2. Len(stack) = 1 /\ stack[1] # Nil /\ job \in Jobs
        BY <2>1 DEF NamesOK, Shape, Control, OthersOK, JobOK
  <2>3. HeapKept BY <1>0, <2>1, AllocateKept DEF Kinds
  <2>4. PICK h \in Memories(stack) :
          /\ h[o].kind = "free"
          /\ heap' = [h EXCEPT ![o] = New("native", Nil)]
        BY <2>1 DEF Allocate
  <2>5. /\ stack[1] \in Objects /\ heap[stack[1]].kind = "string"
        /\ heap[stack[1]].content = job.content
        BY <1>0, <2>1 DEF NativesOK, Registering
  <2>6. heap'[stack[1]] = heap[stack[1]]
    <3>1. stack[1] \in ToSet(stack) BY <1>0, <2>2, Elements
    <3>2. h[stack[1]] = heap[stack[1]] BY <1>0, <2>2, <3>1, RootKept
    <3>3. stack[1] # o BY <2>4, <2>5, <3>2
    <3>4. h \in Heaps BY <1>0, MemoriesOK
    <3> QED BY <2>4, <2>5, <3>2, <3>3, <3>4 DEF Heaps
  <2>7. stack'[1] = stack[1]
    <3>1. o \in Values BY DEF Values
    <3>2. \A i \in 1..Len(stack) : Append(stack, o)[i] = stack[i] BY <1>0, <3>1
    <3> QED BY <2>1, <2>2, <3>2
  <2>8. job'.content = job.content BY <2>1, <2>2 DEF Jobs
  <2>9. StringsOK' BY <1>0, <2>1, <2>3, KeptUnique DEF HeapKept, StringsOK
  <2>10. NativesOK'
        BY <1>0, <2>1, <2>3, <2>5, <2>6, <2>7, <2>8
           DEF HeapKept, NativesKept, NativesOK, Registering
  <2> QED BY <2>9, <2>10 DEF NamesOK
<1>3. ASSUME NEW g \in Globals, RegisterNative(g) PROVE NamesOK'
  <2>1. /\ pc = "register" /\ pc' = "idle" /\ Reallocate(stack)
        /\ names' = names \cup {stack[1]}
        BY <1>3 DEF RegisterNative
  <2>2. Len(stack) = 2 /\ stack[1] # Nil BY <2>1 DEF NamesOK, Shape, Control, OthersOK
  <2>3. HeapKept BY <1>0, <2>1, ReallocateKept
  <2>4. stack[1] \in Objects /\ heap[stack[1]].kind = "string"
        BY <1>0, <2>1 DEF NativesOK, Registering
  <2>5. heap'[stack[1]] = heap[stack[1]]
    <3>1. stack[1] \in ToSet(stack) BY <1>0, <2>2, Elements
    <3> QED BY <1>0, <2>1, <2>2, <3>1, RootKept DEF Reallocate
  <2>6. StringsOK' BY <1>0, <2>1, <2>3, KeptUnique DEF HeapKept, StringsOK
  <2>7. NativesOK'
        BY <1>0, <2>1, <2>3, <2>4, <2>5
           DEF HeapKept, NativesKept, NativesOK, Registering, Interning
  <2> QED BY <2>6, <2>7 DEF NamesOK
<1> QED BY <1>1, <1>2, <1>3 DEF RegisterStep

LEMMA InitNames == Init => NamesOK
<1> SUFFICES ASSUME Init PROVE NamesOK OBVIOUS
<1>1. Shape BY InitShape
<1>2. \A o \in Objects : heap[o].kind = "free" BY FreeType DEF Init
<1>3. StringsOK BY <1>2 DEF Init, StringsOK
<1>4. NativesOK BY <1>2 DEF Init, NativesOK, Registering, Interning
<1> QED BY <1>1, <1>3, <1>4 DEF NamesOK

LEMMA NextNames == NamesOK /\ [Next]_vars => NamesOK'
<1> SUFFICES ASSUME NamesOK, [Next]_vars PROVE NamesOK' OBVIOUS
<1>0. Shape' BY NextShape DEF NamesOK
<1>1. CASE Next
      BY <1>0, <1>1, InstructionNames, StringNames, BuildNames, ClosureNames, CompileNames,
         RegisterNames DEF Next
<1>2. CASE UNCHANGED vars
  <2>1. StringsOK' BY <1>2 DEF NamesOK, StringsOK, vars
  <2>2. NativesOK'
        BY <1>2 DEF NamesOK, NativesOK, Registering, Interning, vars, roots, static
  <2> QED BY <1>0, <2>1, <2>2 DEF NamesOK
<1> QED BY <1>1, <1>2

LEMMA AlwaysNames == Spec => []NamesOK
BY InitNames, NextNames, PTL DEF Spec

(* Two live strings of the same characters are the same object, and every string *)
(* but the one that allocateString has just made is in the interner: the garbage *)
(* that tableFindString may return is used again, never copied a second time.    *)
THEOREM StringsAreInterned == Spec => []StringsInterned
<1>1. NamesOK => StringsInterned
  <2> SUFFICES ASSUME NamesOK PROVE StringsInterned OBVIOUS
  <2>1. /\ StringsOK /\ strings \subseteq {o \in Objects : heap[o].kind = "string"}
        BY TypeParts DEF NamesOK, Shape, MemoryOK
  <2>2. \A s \in Live : s \in Objects /\ (Is(s, "string") => heap[s].kind = "string")
        BY DEF Live, Is
  <2>3. strings \subseteq Live BY <2>1 DEF Live
  <2> QED BY <2>1, <2>2, <2>3 DEF StringsInterned, StringsOK
<1> QED BY <1>1, AlwaysNames, PTL

(* The name of a native outlives every collection although the collector does    *)
(* not mark it: newNative finds the very string that defineNative has pushed, and *)
(* which stays a key of vm.globals.                                              *)
THEOREM NativesKeepNames == Spec => []NativeNamesLive
<1>1. NamesOK => NativeNamesLive
  <2> SUFFICES ASSUME NamesOK, NEW o \in Live, Is(o, "native"), heap[o].name # Nil
               PROVE  heap[o].name \in Live
      BY DEF NativeNamesLive
  <2>1. NativesOK /\ RootsTyped BY TypeParts DEF NamesOK, Shape
  <2>2. o \in Objects /\ heap[o].kind = "native" BY DEF Live, Is
  <2>3. \/ heap[o].name \in names
        \/ pc = "register" /\ heap[o].name = stack[1]
        BY <2>1, <2>2 DEF NativesOK
  <2> QED BY <2>1, <2>3 DEF NativesOK, Registering, RootsTyped, Live
<1> QED BY <1>1, AlwaysNames, PTL

-----------------------------------------------------------------------------
(* Nothing dangles: what the program and the C code need is alive, if the      *)
(* program keeps in a variable what it indexes.                                *)

RefsLive == \A o \in Live : heap[o].refs \subseteq Live
RootsLive == RootsOf(stack) \subseteq Live

(* What an array, a map or a constant is stored in is on the stack or is being *)
(* compiled; what may replace the value of a map's key is on the stack.        *)
FillingKept ==
    Filling =>
        /\ job.target \in RootsOf(stack)
        /\ heap[job.target].kind = "map" =>
              /\ job.held = {}
              /\ \A i \in 1..Len(job.items) : ToSet(job.items[i]) \subseteq ToSet(stack)

UsesKept ==
    /\ job.use # "result" => job.held = {}
    /\ job.use = "constant" => job.target \in ToSet(compilers)

HeapOK ==
    /\ RefsLive /\ RootsLive /\ Held \subseteq Needed /\ FillingKept /\ UsesKept
    /\ pc \in {"closure", "capture"} => job.items = <<>> /\ job.use = "result"

Kept == Shape /\ HeapOK

LEMMA NeededLive ==
    ASSUME MemoryOK, RootsTyped, RefsLive, NEW s \in Seq(Values), RootsOf(s) \subseteq Live
    PROVE  /\ Reachable(RootsOf(s), References) \subseteq Live
           /\ RootsOf(s) \subseteq Reachable(RootsOf(s), References)
           /\ \A o \in Reachable(RootsOf(s), References) :
                 heap[o].refs \subseteq Reachable(RootsOf(s), References)
<1>1. Live \in SUBSET Objects BY DEF Live
<1>2. \A o \in Objects : References[o] = heap[o].refs BY DEF References
<1>3. Closed(Live, References) BY <1>1, <1>2 DEF Closed, RefsLive
<1>4. References \in [Objects -> SUBSET Objects] /\ RootsOf(s) \in SUBSET Objects
      BY ReferencesType, RootsType
<1>5. /\ Reachable(RootsOf(s), References) \subseteq Objects
      /\ RootsOf(s) \subseteq Reachable(RootsOf(s), References)
      /\ Closed(Reachable(RootsOf(s), References), References)
      /\ Reachable(RootsOf(s), References) \subseteq Live
      BY <1>1, <1>3, <1>4, ReachableLeast
<1> QED BY <1>2, <1>5 DEF Closed

(* A collection frees nothing that something alive refers to. *)
LEMMA MemoriesLive ==
    ASSUME MemoryOK, RootsTyped, RefsLive, NEW s \in Seq(Values), RootsOf(s) \subseteq Live,
           NEW h \in Memories(s)
    PROVE  /\ \A o \in Objects :
                h[o].kind # "free" =>
                   /\ h[o] = heap[o]
                   /\ \A q \in heap[o].refs : q \in Objects /\ h[q].kind # "free"
           /\ \A o \in Reachable(RootsOf(s), References) :
                 o \in Objects /\ h[o] = heap[o] /\ heap[o].kind # "free"
<1> DEFINE R == Reachable(RootsOf(s), References)
<1>1. R \subseteq Live /\ \A o \in R : heap[o].refs \subseteq R BY NeededLive
<1>2. Live \subseteq Objects BY DEF Live
<1>3. \A o \in R : h[o] = heap[o] /\ heap[o].kind # "free" BY <1>1, MemoriesOK DEF Live
<1>4. CASE h = heap BY <1>1, <1>2, <1>3, <1>4 DEF RefsLive, Live
<1>5. CASE h = [o \in Objects |-> IF o \in R THEN heap[o] ELSE Free]
  <2>1. \A o \in Objects : h[o].kind # "free" => o \in R BY <1>5, FreeType
  <2> QED BY <1>1, <1>2, <1>3, <2>1
<1> QED BY <1>4, <1>5 DEF Memories, Collected

LEMMA ReallocateLive ==
    ASSUME MemoryOK, RootsTyped, RefsLive, NEW s \in Seq(Values), RootsOf(s) \subseteq Live,
           Reallocate(s)
    PROVE  /\ RefsLive'
           /\ \A o \in Reachable(RootsOf(s), References) : heap'[o] = heap[o] /\ o \in Live'
<1>1. PICK h \in Memories(s) : heap' = h BY DEF Reallocate
<1> QED BY <1>1, MemoriesLive DEF RefsLive, Live

(* A new object is alive and refers to what is alive. *)
Placed(h, o, r) == h[o].kind = "free" /\ r.kind # "free" /\ heap' = [h EXCEPT ![o] = r]

LEMMA NewLive ==
    ASSUME MemoryOK, RootsTyped, RefsLive, NEW s \in Seq(Values), RootsOf(s) \subseteq Live,
           NEW o \in Objects, NEW r \in Records, NEW h \in Memories(s), Placed(h, o, r),
           r.refs \subseteq Reachable(RootsOf(s), References)
    PROVE  /\ RefsLive' /\ heap'[o] = r /\ o \in Live'
           /\ \A q \in Reachable(RootsOf(s), References) :
                 q # o /\ heap'[q] = heap[q] /\ q \in Live'
<1>1. h \in Heaps BY MemoriesOK
<1>2. /\ heap'[o] = r /\ \A q \in Objects : q # o => heap'[q] = h[q]
      /\ h[o].kind = "free" /\ r.kind # "free"
      BY <1>1 DEF Heaps, Placed
<1>3. \A q \in Reachable(RootsOf(s), References) :
         q \in Objects /\ q # o /\ h[q] = heap[q] /\ heap[q].kind # "free"
      BY <1>2, MemoriesLive
<1>4. \A q \in Objects :
         h[q].kind # "free" =>
            h[q] = heap[q] /\ \A p \in heap[q].refs : p \in Objects /\ h[p].kind # "free"
      BY MemoriesLive
<1>5. RefsLive'
  <2> SUFFICES ASSUME NEW q \in Objects, heap'[q].kind # "free", NEW p \in heap'[q].refs
               PROVE  p \in Objects /\ heap'[p].kind # "free"
      BY DEF RefsLive, Live
  <2>1. CASE q = o BY <1>2, <1>3, <2>1
  <2>2. CASE q # o BY <1>2, <1>4, <2>2
  <2> QED BY <2>1, <2>2
<1> QED BY <1>2, <1>3, <1>5 DEF Live

LEMMA AllocateLive ==
    ASSUME MemoryOK, RootsTyped, RefsLive, NEW s \in Seq(Values), RootsOf(s) \subseteq Live,
           NEW kind \in Kinds \ {"free"}, NEW content \in Contents \cup {Nil},
           NEW o \in Objects, Allocate(s, kind, content, o)
    PROVE  /\ RefsLive' /\ heap'[o].kind = kind /\ o \in Live'
           /\ \A q \in Reachable(RootsOf(s), References) : heap'[q] = heap[q] /\ q \in Live'
<1>1. PICK h \in Memories(s) : h[o].kind = "free" /\ heap' = [h EXCEPT ![o] = New(kind, content)]
      BY DEF Allocate
<1> DEFINE r == New(kind, content)
<1>2. r \in Records /\ r.kind = kind /\ r.refs = {} BY DEF New, Records, Values
<1>3. heap' = [h EXCEPT ![o] = r] BY <1>1
<1> HIDE DEF r
<1>4. Placed(h, o, r) /\ r.refs \subseteq Reachable(RootsOf(s), References)
      BY <1>1, <1>2, <1>3 DEF Placed
<1>5. /\ RefsLive' /\ heap'[o] = r /\ o \in Live'
      /\ \A q \in Reachable(RootsOf(s), References) :
            q # o /\ heap'[q] = heap[q] /\ q \in Live'
      BY <1>1, <1>2, <1>3, <1>4, NewLive
<1> QED BY <1>2, <1>5

LEMMA ReplacedLive ==
    ASSUME MemoryOK, RefsLive, NEW o \in Objects, NEW old, NEW new,
           new \subseteq Live \cup {Nil}, heap' = Replaced(o, old, new)
    PROVE  /\ RefsLive' /\ Live' = Live
           /\ \A q \in Objects : /\ heap'[q].kind = heap[q].kind
                                 /\ q # o => heap'[q] = heap[q]
           /\ heap'[o].refs = (heap[o].refs \ old) \cup (new \ {Nil})
<1>1. /\ \A q \in Objects : heap'[q].kind = heap[q].kind /\ (q # o => heap'[q] = heap[q])
      /\ heap'[o].refs = (heap[o].refs \ old) \cup (new \ {Nil})
      BY DEF Replaced, MemoryOK, Heaps, Records
<1>2. Live' = Live BY <1>1 DEF Live
<1>3. RefsLive' BY <1>1, <1>2 DEF RefsLive, Live
<1> QED BY <1>1, <1>2, <1>3

(* What was needed is still needed. *)
LEMMA NeededGrows ==
    ASSUME MemoryOK, RootsTyped, MemoryOK', RootsTyped', NEW s \in Seq(Values),
           \A q \in Reachable(RootsOf(s), References) : heap[q].refs \subseteq heap'[q].refs,
           RootsOf(s) \subseteq RootsOf(stack)'
    PROVE  Reachable(RootsOf(s), References) \subseteq Needed' /\ RootsOf(stack)' \subseteq Needed'
<1>1. References \in [Objects -> SUBSET Objects] /\ RootsOf(s) \in SUBSET Objects
      BY ReferencesType, RootsType
<1>2. References' \in [Objects -> SUBSET Objects]
      BY DEF MemoryOK, References, Heaps, Records
<1>3. RootsOf(stack)' \in SUBSET Objects
  <2>1. ToSet(stack)' \subseteq Values BY Elements DEF RootsTyped
  <2>2. ToSet(compilers)' \subseteq Objects BY Elements DEF RootsTyped
  <2>3. Range(globals)' \subseteq Values BY DEF RootsTyped, Range
  <2>4. open' \subseteq Objects BY DEF MemoryOK
  <2> QED BY <2>1, <2>2, <2>3, <2>4, HeapAssumption DEF RootsOf, Values, RootsTyped
<1>4. \A q \in Reachable(RootsOf(s), References) : References[q] \subseteq References'[q]
  <2>1. Reachable(RootsOf(s), References) \subseteq Objects BY <1>1, ReachableLeast
  <2> QED BY <2>1 DEF References
<1>5. Reachable(RootsOf(s), References) \subseteq Reachable(RootsOf(stack)', References')
      BY <1>1, <1>2, <1>3, <1>4, ReachableGrows
<1>6. RootsOf(stack)' \subseteq Reachable(RootsOf(stack)', References')
      BY <1>2, <1>3, ReachableLeast
<1> QED BY <1>5, <1>6 DEF Needed

-----------------------------------------------------------------------------
(* The roots and the locals of the C code after a step. *)

(* The stack and the open upvalues after the step are in L, and the other roots *)
(* are what they were.                                                          *)
RootsBy(L) ==
    /\ ToSet(stack') \subseteq L \cup {Nil} /\ open' \subseteq L
    /\ UNCHANGED static

(* The pointers that the C code has after the step are in X. *)
HeldBy(X) ==
    /\ job'.held \subseteq X /\ job'.target \in X \cup {Nil} /\ job'.made \in X \cup {Nil}
    /\ \A i \in 1..Len(job'.items) : ToSet(job'.items[i]) \subseteq X \cup {Nil}

LEMMA RootsParts ==
    ASSUME RootsTyped
    PROVE  /\ ToSet(stack) \subseteq RootsOf(stack) \cup {Nil}
           /\ Range(globals) \subseteq RootsOf(stack) \cup {Nil}
           /\ names \subseteq RootsOf(stack) \cup {Nil}
           /\ open \subseteq RootsOf(stack) \cup {Nil}
           /\ ToSet(compilers) \subseteq RootsOf(stack) \cup {Nil}
BY DEF RootsOf

LEMMA RootsNext ==
    ASSUME RootsTyped, NEW L, RootsOf(stack) \subseteq L, RootsBy(L)
    PROVE  RootsOf(stack)' \subseteq L
<1>1. /\ Range(globals') \subseteq L \cup {Nil} /\ names' \subseteq L \cup {Nil}
      /\ ToSet(compilers') \subseteq L \cup {Nil}
      BY RootsParts DEF RootsBy, static
<1> QED BY <1>1 DEF RootsBy, RootsOf

LEMMA HeldNext ==
    ASSUME job' \in Jobs, NEW X, HeldBy(X)
    PROVE  Held' \subseteq X
<1>1. job'.items \in Seq(Seq(Values)) BY DEF Jobs
<1>2. \A i \in ToSet(job'.items) : ToSet(i) \subseteq X \cup {Nil}
  <2>1. \A i \in ToSet(job'.items) : \E j \in 1..Len(job'.items) : i = job'.items[j]
        BY <1>1, Elements
  <2> QED BY <2>1 DEF HeldBy
<1> QED BY <1>2 DEF Held, HeldBy

LEMMA HeldHas ==
    ASSUME job \in Jobs
    PROVE  /\ job.held \subseteq Held /\ job.target \in Held \cup {Nil}
           /\ job.made \in Held \cup {Nil}
           /\ \A i \in 1..Len(job.items) : ToSet(job.items[i]) \subseteq Held \cup {Nil}
<1>1. job.items \in Seq(Seq(Values)) /\ Nil \notin job.held
      BY HeapAssumption DEF Jobs
<1>2. \A i \in 1..Len(job.items) : job.items[i] \in ToSet(job.items) BY <1>1, Elements
<1> QED BY <1>1, <1>2 DEF Held

LEMMA NoJobHeld ==
    ASSUME job' = NoJob, NEW X
    PROVE  HeldBy(X)
BY NoJobType DEF HeldBy

(* What the step before it needed is alive after it, with its references. *)
Grows == \A q \in Needed : heap[q].refs \subseteq heap'[q].refs /\ q \in Live'

(* What Kept says of a state. *)
LEMMA KeptFacts ==
    ASSUME Kept
    PROVE  /\ MemoryOK /\ RootsTyped /\ stack \in Seq(Values) /\ job \in Jobs
           /\ RefsLive /\ RootsOf(stack) \subseteq Live /\ Needed \subseteq Live
           /\ RootsOf(stack) \subseteq Needed /\ Held \subseteq Needed
           /\ ToSet(stack) \subseteq RootsOf(stack) \cup {Nil} /\ open \subseteq RootsOf(stack)
           /\ \A o \in Needed : o \in Objects /\ heap[o].refs \subseteq Needed
           /\ pc = "idle" => job = NoJob
<1>1. /\ MemoryOK /\ RootsTyped /\ stack \in Seq(Values) /\ job \in Jobs
      /\ RefsLive /\ RootsOf(stack) \subseteq Live /\ Held \subseteq Needed
      /\ pc = "idle" => job = NoJob
      BY TypeParts DEF Kept, HeapOK, RootsLive, Shape, RootsTyped, Control, JobOK
<1>2. /\ Needed \subseteq Live /\ RootsOf(stack) \subseteq Needed
      /\ \A o \in Needed : heap[o].refs \subseteq Needed
      BY <1>1, NeededLive DEF Needed
<1>3. ToSet(stack) \subseteq RootsOf(stack) \cup {Nil} /\ open \subseteq RootsOf(stack)
      BY <1>1, RootsParts, RootsType
<1> QED BY <1>1, <1>2, <1>3 DEF Live

(* An operation is over, or the compiler between two of its own. *)
LEMMA IdleKept ==
    ASSUME Shape', RefsLive', RootsLive', job' = NoJob, pc' \in {"idle", "compile"}
    PROVE  Kept'
<1>1. job' \in Jobs BY NoJobType
<1>2. Held' \subseteq Needed'
  <2> DEFINE X == Needed'
  <2>1. HeldBy(X) BY NoJobHeld
  <2> HIDE DEF X
  <2>2. Held' \subseteq X BY <1>1, <2>1, HeldNext
  <2> QED BY <2>2 DEF X
<1>3. ~Filling' BY DEF Filling
<1>4. UsesKept' BY NoJobType DEF UsesKept
<1> QED BY <1>2, <1>3, <1>4 DEF Kept, HeapOK, FillingKept

(* An operation has begun, or goes on. *)
LEMMA WorkingKept ==
    ASSUME Shape', RefsLive', RootsLive', Held' \subseteq Needed', UsesKept',
           pc' \notin {"append", "store", "closure", "capture"}
    PROVE  Kept'
BY DEF Kept, HeapOK, FillingKept, Filling

(* The roots stay or become more, and what the C code holds was needed or is a root. *)
LEMMA GrowingHeld ==
    ASSUME Kept, Shape', Grows, RootsOf(stack) \subseteq RootsOf(stack)',
           HeldBy(Needed \cup RootsOf(stack)')
    PROVE  Held' \subseteq Needed'
<1>1. /\ MemoryOK /\ RootsTyped /\ stack \in Seq(Values) /\ MemoryOK' /\ RootsTyped'
      /\ job' \in Jobs
      BY KeptFacts, TypeParts
         DEF Shape, Control, JobOK, TypeOK, MemoryOK, RootsTyped, Heaps, Records, Kinds
<1>2. Needed \subseteq Needed' /\ RootsOf(stack)' \subseteq Needed'
  <2>1. \A q \in Reachable(RootsOf(stack), References) : heap[q].refs \subseteq heap'[q].refs
        BY DEF Grows, Needed
  <2> QED BY <1>1, <2>1, NeededGrows DEF Needed
<1>3. Held' \subseteq Needed \cup RootsOf(stack)' BY <1>1, HeldNext
<1> QED BY <1>2, <1>3

-----------------------------------------------------------------------------
(* What each kind of step leaves alive. *)

LEMMA SameHeap ==
    ASSUME Kept, heap' = heap
    PROVE  RefsLive' /\ Live' = Live /\ Grows
BY KeptFacts DEF RefsLive, Live, Grows

LEMMA ReallocateHeap ==
    ASSUME Kept, Reallocate(stack)
    PROVE  RefsLive' /\ Needed \subseteq Live' /\ Grows /\ \A q \in Needed : heap'[q] = heap[q]
<1>1. RefsLive' /\ \A q \in Needed : heap'[q] = heap[q] /\ q \in Live'
      BY KeptFacts, ReallocateLive DEF Needed
<1> QED BY <1>1 DEF Grows

LEMMA AllocateHeap ==
    ASSUME Kept, NEW kind \in Kinds \ {"free"}, NEW content \in Contents \cup {Nil},
           NEW o \in Objects, Allocate(stack, kind, content, o)
    PROVE  /\ RefsLive' /\ Needed \subseteq Live' /\ o \in Live' /\ heap'[o].kind = kind /\ Grows
           /\ \A q \in Needed : heap'[q] = heap[q]
<1>1. /\ RefsLive' /\ heap'[o].kind = kind /\ o \in Live'
      /\ \A q \in Needed : heap'[q] = heap[q] /\ q \in Live'
      BY KeptFacts, AllocateLive DEF Needed
<1> QED BY <1>1 DEF Grows

(* Slots of the stack. *)
LEMMA Slots ==
    ASSUME stack \in Seq(Values), NEW n \in 0..Len(stack)
    PROVE  /\ ToSet(Drop(n)) \subseteq ToSet(stack)
           /\ n < Len(stack) => Peek(n) \in ToSet(stack)
<1>1. Len(stack) - n \in 0..Len(stack) OBVIOUS
<1>2. n < Len(stack) => Len(stack) - n \in 1..Len(stack) OBVIOUS
<1> QED BY <1>1, <1>2, PrefixElements, Elements DEF Drop, Peek

(* A value is pushed on what is left of the stack. *)
LEMMA Pushed ==
    ASSUME stack \in Seq(Values), NEW n \in 0..Len(stack), NEW v \in Values
    PROVE  /\ ToSet(Append(Drop(n), v)) \subseteq ToSet(stack) \cup {v}
           /\ v \in ToSet(Append(Drop(n), v))
           /\ ToSet(Append(stack, v)) = ToSet(stack) \cup {v}
<1>1. Drop(n) \in Seq(Values) /\ ToSet(Drop(n)) \subseteq ToSet(stack) BY DropOK, Slots
<1>2. ToSet(Append(Drop(n), v)) = ToSet(Drop(n)) \cup {v} BY <1>1, AppendElements
<1>3. ToSet(Append(stack, v)) = ToSet(stack) \cup {v} BY AppendElements
<1> QED BY <1>1, <1>2, <1>3

-----------------------------------------------------------------------------
(* Every action keeps what it needs alive. *)

LEMMA InstructionKept ==
    ASSUME Kept, Shape', Instruction
    PROVE  Kept'
<1>0. /\ MemoryOK /\ RootsTyped /\ stack \in Seq(Values) /\ RefsLive
      /\ RootsOf(stack) \subseteq Live /\ Needed \subseteq Live
      /\ RootsOf(stack) \subseteq Needed /\ ToSet(stack) \subseteq RootsOf(stack) \cup {Nil}
      /\ open \subseteq RootsOf(stack)
      /\ \A o \in Needed : o \in Objects /\ heap[o].refs \subseteq Needed
      BY KeptFacts
<1>1. pc = "idle" => job = NoJob BY KeptFacts
<1>2. ASSUME NEW v \in Values, Load(v) \/ GetIndex(v) PROVE Kept'
  <2>1. /\ heap' = heap /\ UNCHANGED <<open, static>> /\ pc' = "idle" /\ job' = NoJob
        BY <1>1, <1>2 DEF Load, GetIndex, Idle
  <2>2. v \in Needed \cup {Nil} /\ ToSet(stack') \subseteq ToSet(stack) \cup {v}
    <3>1. CASE Load(v)
      <4>1. stack' = Append(stack, v) /\ v \in Needed \cup {Nil} BY <3>1 DEF Load
      <4>2. 0 \in 0..Len(stack) BY <1>0
      <4> QED BY <1>0, <4>1, <4>2, Pushed
    <3>2. CASE GetIndex(v)
      <4>1. /\ stack' = Append(Drop(2), v) /\ v \in heap[Peek(1)].refs \cup {Nil}
            /\ Len(stack) >= 2 /\ Peek(1) # Nil
            BY <3>2 DEF GetIndex, Idle, Is
      <4>2. Peek(1) \in Needed BY <1>0, <4>1, Slots
      <4> QED BY <1>0, <4>1, <4>2, Pushed
    <3> QED BY <1>2, <3>1, <3>2
  <2>3. RefsLive' /\ Live' = Live BY <2>1, SameHeap
  <2>4. RootsBy(Live) BY <1>0, <2>1, <2>2 DEF RootsBy
  <2>5. RootsLive' BY <1>0, <2>3, <2>4, RootsNext DEF RootsLive
  <2> QED BY <2>1, <2>3, <2>5, IdleKept
<1>3. ASSUME NEW v \in Values, SetIndexArray(v) PROVE Kept'
  <2>1. /\ heap' = Replaced(Peek(2), {v}, {Peek(0)}) /\ stack' = Append(Drop(3), Peek(0))
        /\ UNCHANGED <<open, static>> /\ pc' = "idle" /\ job' = NoJob
        /\ Len(stack) >= 3 /\ Peek(2) # Nil
        BY <1>1, <1>3 DEF SetIndexArray, Idle, Is
  <2>2. Peek(0) \in ToSet(stack) /\ Peek(2) \in Needed BY <1>0, <2>1, Slots
  <2>3. Peek(0) \in Values BY <1>0, <2>1, PeekOK
  <2>4. {Peek(0)} \subseteq Live \cup {Nil} BY <1>0, <2>2
  <2>5. RefsLive' /\ Live' = Live BY <1>0, <2>1, <2>2, <2>4, ReplacedLive
  <2>6. ToSet(stack') \subseteq ToSet(stack) BY <1>0, <2>1, <2>2, <2>3, Pushed
  <2>7. RootsBy(Live) BY <1>0, <2>1, <2>6 DEF RootsBy
  <2>8. RootsLive' BY <1>0, <2>5, <2>7, RootsNext DEF RootsLive
  <2> QED BY <2>1, <2>5, <2>8, IdleKept
<1>4. CASE Pop \/ RuntimeError
  <2>1. /\ heap' = heap /\ UNCHANGED static /\ open' \subseteq open
        /\ pc' = "idle" /\ job' = NoJob
        BY <1>1, <1>4 DEF Pop, RuntimeError, Idle
  <2>2. ToSet(stack') \subseteq ToSet(stack)
    <3>1. CASE Pop BY <1>0, <3>1, Slots DEF Pop, Idle
    <3>2. CASE RuntimeError BY <3>2 DEF RuntimeError, ToSet
    <3> QED BY <1>4, <3>1, <3>2
  <2>3. RefsLive' /\ Live' = Live BY <2>1, SameHeap
  <2>4. RootsBy(Live) BY <1>0, <2>1, <2>2 DEF RootsBy
  <2>5. RootsLive' BY <1>0, <2>3, <2>4, RootsNext DEF RootsLive
  <2> QED BY <2>1, <2>3, <2>5, IdleKept
<1>5. ASSUME NEW g \in Globals, SetGlobal(g) \/ DefineGlobal(g) PROVE Kept'
  <2>1. /\ Reallocate(stack) /\ globals' = [globals EXCEPT ![g] = Peek(0)]
        /\ stack' = stack \/ stack' = Drop(1)
        /\ UNCHANGED <<open, names, compilers>> /\ pc' = "idle" /\ job' = NoJob
        /\ Len(stack) >= 1
        BY <1>1, <1>5 DEF SetGlobal, DefineGlobal, Idle
  <2>2. RefsLive' /\ Needed \subseteq Live' BY <2>1, ReallocateHeap
  <2>3. Peek(0) \in ToSet(stack) /\ ToSet(stack') \subseteq ToSet(stack) BY <1>0, <2>1, Slots
  <2>4. Range(globals') \subseteq Range(globals) \cup {Peek(0)}
        BY <1>0, <2>1 DEF Range, RootsTyped
  <2>5. RootsOf(stack)' \subseteq RootsOf(stack)
        BY <1>0, <2>1, <2>3, <2>4, RootsParts DEF RootsOf
  <2>6. RootsLive' BY <1>0, <2>2, <2>5 DEF RootsLive
  <2> QED BY <2>1, <2>2, <2>6, IdleKept
<1> QED BY <1>2, <1>3, <1>4, <1>5 DEF Instruction

(* The operands of an operation that begins. *)
LEMMA BeginStringKept ==
    ASSUME Kept, Shape', KeepsOperands, NEW c \in Contents,
           BeginCopy(c) \/ NativeFails(c) \/ BeginConcatenate(c) \/ BeginGetIndexString(c)
    PROVE  Kept'
<1>0. /\ MemoryOK /\ RootsTyped /\ stack \in Seq(Values) /\ RefsLive
      /\ RootsOf(stack) \subseteq Live /\ Needed \subseteq Live
      /\ RootsOf(stack) \subseteq Needed /\ ToSet(stack) \subseteq RootsOf(stack) \cup {Nil}
      /\ open \subseteq RootsOf(stack)
      /\ Len(stack) >= 2 /\ pc' = "find" /\ UNCHANGED <<open, static>>
      BY KeptFacts DEF BeginCopy, NativeFails, BeginConcatenate, BeginGetIndexString, Idle, roots
<1>1. /\ job'.target = Nil /\ job'.made = Nil /\ job'.items = <<>>
      /\ job'.use \in {"result", "message"}
      /\ job'.held = {} \/ job'.use = "result"
      BY NoJobType
         DEF BeginCopy, NativeFails, BeginConcatenate, BeginGetIndexString, Start, Jobs
<1>2. UsesKept' BY <1>1 DEF UsesKept
<1>3. CASE BeginCopy(c) \/ NativeFails(c) \/ BeginConcatenate(c)
  <2>1. /\ stack' = stack
        /\ heap' = heap \/ Reallocate(stack)
        /\ job'.held \subseteq {Peek(0), Peek(1)} \ {Nil}
    <3>1. CASE BeginCopy(c) \/ NativeFails(c)
          BY <3>1, NoJobType DEF BeginCopy, NativeFails, Start, roots, Jobs
    <3>2. CASE BeginConcatenate(c)
      <4>1. job'.held = {Peek(0), Peek(1)}
            BY <3>2, NoJobType DEF BeginConcatenate, Start, Jobs
      <4>2. stack' = stack /\ Reallocate(stack) /\ Peek(0) # Nil /\ Peek(1) # Nil
            BY <3>2 DEF BeginConcatenate, roots, Is
      <4> QED BY <4>1, <4>2
    <3> QED BY <1>3, <3>1, <3>2
  <2>2. RefsLive' /\ Needed \subseteq Live' /\ Grows
        BY <1>0, <2>1, SameHeap, ReallocateHeap
  <2>3. RootsBy(RootsOf(stack)) BY <1>0, <2>1 DEF RootsBy
  <2>4. RootsOf(stack)' = RootsOf(stack)
        BY <1>0, <2>1 DEF RootsOf, static
  <2>5. RootsLive' BY <1>0, <2>2, <2>4 DEF RootsLive
  <2>6. {Peek(0), Peek(1)} \ {Nil} \subseteq Needed BY <1>0, Slots
  <2>7. HeldBy(Needed \cup RootsOf(stack)') BY <1>1, <2>1, <2>6 DEF HeldBy
  <2>8. Held' \subseteq Needed' BY <2>2, <2>4, <2>7, GrowingHeld
  <2> QED BY <1>0, <1>2, <2>2, <2>5, <2>8, WorkingKept
<1>4. CASE BeginGetIndexString(c)
  <2>1. /\ stack' = Drop(2) /\ heap' = heap /\ job'.held = {Peek(1)} /\ Peek(1) # Nil
        /\ KeptElsewhere({Peek(1)}, 2)
        BY <1>4, NoJobType DEF BeginGetIndexString, Start, Jobs, Is
  <2>2. RefsLive' /\ Live' = Live BY <2>1, SameHeap
  <2>3. ToSet(stack') \subseteq ToSet(stack) BY <1>0, <2>1, Slots
  <2>4. RootsBy(Live) BY <1>0, <2>3 DEF RootsBy
  <2>5. RootsLive' BY <1>0, <2>2, <2>4, RootsNext DEF RootsLive
  <2>6. Needed' = Reachable(RootsOf(Drop(2)), References)
        BY <1>0, <2>1 DEF Needed, RootsOf, References, static
  <2>7. HeldBy(Needed') BY <1>1, <2>1, <2>6 DEF HeldBy, KeptElsewhere
  <2>8. job' \in Jobs BY DEF Shape, Control, JobOK
  <2> DEFINE X == Needed'
  <2>9. HeldBy(X) BY <2>7
  <2> HIDE DEF X
  <2>10. Held' \subseteq X BY <2>8, <2>9, HeldNext
  <2> QED BY <1>0, <1>2, <2>2, <2>5, <2>10, WorkingKept DEF X
<1> QED BY <1>3, <1>4

(* The caller of copyString gets its string, which is alive. *)
LEMMA DeliverKept ==
    ASSUME Kept, Shape', pc \in {"find", "interned"}, NEW s, CallerStack(s),
           NEW string \in Live, Deliver(s, string), UNCHANGED static,
           ToSet(s) \subseteq ToSet(stack), ToSet(stack) \subseteq ToSet(s) \cup {string},
           job.use = "nativeName" => s = stack
    PROVE  Kept'
<1>0. /\ MemoryOK /\ RootsTyped /\ stack \in Seq(Values) /\ job \in Jobs /\ RefsLive
      /\ RootsOf(stack) \subseteq Live /\ Needed \subseteq Live
      /\ RootsOf(stack) \subseteq Needed /\ Held \subseteq Needed
      /\ ToSet(stack) \subseteq RootsOf(stack) \cup {Nil}
      /\ open \subseteq RootsOf(stack)
      BY KeptFacts
<1>1. s \in Seq(Values) /\ string \in Objects /\ string \in Values /\ string # Nil
      BY HeapAssumption DEF CallerStack, Live, Values
<1>2. /\ Append(s, string) \in Seq(Values)
      /\ ToSet(Append(s, string)) = ToSet(s) \cup {string}
      BY <1>1, AppendElements
<1>3. /\ job.held \subseteq Needed /\ job.target \in Needed \cup {Nil}
      /\ \A i \in 1..Len(job.items) : ToSet(job.items[i]) \subseteq Needed \cup {Nil}
      BY <1>0, HeldHas
<1>4. Interning BY DEF Interning
<1>5. CASE job.use \in {"result", "message"}
  <2>1. /\ heap' = heap /\ open' \subseteq open /\ pc' = "idle" /\ job' = NoJob
        BY <1>5 DEF Deliver, Finish
  <2>2. ToSet(stack') \subseteq ToSet(s) \cup {string}
    <3>1. CASE job.use = "result"
      <4>1. Finish(s, string) BY <3>1 DEF Deliver
      <4>2. job.height >= 1 /\ Len(s) = job.height + job.drop - 1 BY <3>1 DEF CallerStack
      <4> QED BY <1>0, <1>1, <4>1, <4>2, FinishOK
    <3>2. CASE job.use = "message"
      <4>1. stack' = <<>> BY <3>2 DEF Deliver
      <4> QED BY <4>1 DEF ToSet
    <3> QED BY <1>5, <3>1, <3>2
  <2>3. RefsLive' /\ Live' = Live BY <2>1, SameHeap
  <2>4. RootsBy(Live) BY <1>0, <2>1, <2>2 DEF RootsBy
  <2>5. RootsLive' BY <1>0, <2>3, <2>4, RootsNext DEF RootsLive
  <2> QED BY <2>1, <2>3, <2>5, IdleKept
<1>6. CASE job.use \in {"piece", "constant", "global"}
  <2>1. /\ heap' = heap /\ open' = open /\ stack' = Append(s, string)
        /\ pc' = (IF job.use = "global" THEN "native" ELSE "append")
        /\ \/ job.use = "global" /\ job' = [job EXCEPT !.made = Nil]
           \/ job.use # "global" /\ job' = [job EXCEPT !.items = <<<<string>>>>, !.made = Nil]
        BY <1>6 DEF Deliver
  <2>2. RefsLive' /\ Live' = Live /\ Grows BY <2>1, SameHeap
  <2>3. ToSet(stack') = ToSet(s) \cup {string} BY <1>2, <2>1
  <2>4. RootsBy(Live) BY <1>0, <2>1, <2>3 DEF RootsBy
  <2>5. RootsLive' BY <1>0, <2>2, <2>4, RootsNext DEF RootsLive
  <2>6. RootsOf(stack) \subseteq RootsOf(stack)' /\ string \in RootsOf(stack)'
        BY <1>1, <2>1, <2>3 DEF RootsOf, static
  <2>7. /\ job'.held = job.held /\ job'.target = job.target /\ job'.made = Nil
        /\ job'.use = job.use
        /\ job'.items \in {job.items, <<<<string>>>>}
        /\ job.use # "global" => job'.items = <<<<string>>>>
        BY <1>0, <2>1 DEF Jobs
  <2>8. HeldBy(Needed \cup RootsOf(stack)')
    <3>1. CASE job'.items = job.items BY <1>3, <2>7, <3>1 DEF HeldBy
    <3>2. CASE job'.items = <<<<string>>>>
      <4>1. \A i \in 1..Len(job'.items) : ToSet(job'.items[i]) \subseteq {string}
            BY <3>2 DEF ToSet
      <4> QED BY <1>3, <2>6, <2>7, <4>1 DEF HeldBy
    <3> QED BY <2>7, <3>1, <3>2
  <2>9. Held' \subseteq Needed' BY <2>2, <2>6, <2>8, GrowingHeld
  <2>10. UsesKept' BY <2>7 DEF Kept, HeapOK, UsesKept, static
  <2>11. CASE job.use = "global"
    <3>1. pc' = "native" BY <2>1, <2>11
    <3> QED BY <2>2, <2>5, <2>9, <2>10, <3>1, WorkingKept
  <2>12. CASE job.use # "global"
    <3>1. pc' = "append" /\ job'.items = <<<<string>>>> BY <2>1, <2>7, <2>12
    <3>2. job'.held = {} BY <1>6, <2>7 DEF Kept, HeapOK, UsesKept
    <3>3. job'.target \in RootsOf(stack)'
      <4>1. job.target \in Objects BY <1>4, <1>6, <2>12 DEF Kept, Shape, Control, InterningOK
      <4>2. job.target \in ToSet(s) \cup ToSet(compilers)
        <5>1. CASE job.use = "piece"
          <6>1. /\ job.height >= 1 /\ job.drop >= 1 /\ Len(s) = job.height + job.drop - 1
                /\ s[job.height + job.drop - 1] = job.target
                BY <5>1 DEF CallerStack, Kept, Shape, Control, JobOK
          <6>2. job.height \in Nat /\ job.drop \in Nat BY <1>0 DEF Jobs
          <6>3. job.height + job.drop - 1 \in 1..Len(s) BY <6>1, <6>2
          <6> QED BY <1>1, <6>1, <6>3, Elements
        <5>2. CASE job.use = "constant" BY <5>2 DEF Kept, HeapOK, UsesKept
        <5> QED BY <1>6, <2>12, <5>1, <5>2
      <4> QED BY <2>3, <2>7, <4>1, <4>2, HeapAssumption DEF RootsOf, static
    <3>4. \A i \in 1..Len(job'.items) : ToSet(job'.items[i]) \subseteq ToSet(stack')
          BY <2>3, <3>1 DEF ToSet
    <3> QED BY <2>2, <2>5, <2>9, <2>10, <3>1, <3>2, <3>3, <3>4
            DEF Kept, HeapOK, FillingKept
  <2> QED BY <2>11, <2>12
<1>7. CASE job.use = "functionName"
  <2>1. /\ heap' = [heap EXCEPT ![job.target].refs = @ \cup {string}]
        /\ stack' = s /\ pc' = "compile" /\ job' = NoJob /\ open' = open
        BY <1>7 DEF Deliver
  <2>2. job.target \in Objects BY <1>4, <1>7 DEF Kept, Shape, Control, InterningOK
  <2>3. \A o \in Objects : /\ heap'[o].kind = heap[o].kind
                           /\ heap'[o].refs \subseteq heap[o].refs \cup {string}
        BY <1>0, <2>1, <2>2 DEF MemoryOK, Heaps, Records
  <2>4. Live' = Live BY <2>3 DEF Live
  <2>5. RefsLive' BY <1>0, <2>3, <2>4 DEF RefsLive, Live
  <2>6. RootsBy(Live) BY <1>0, <2>1 DEF RootsBy
  <2>7. RootsLive' BY <1>0, <2>4, <2>6, RootsNext DEF RootsLive
  <2> QED BY <2>1, <2>5, <2>7, IdleKept
<1>8. CASE job.use = "nativeName"
  <2>1. /\ heap' = [heap EXCEPT ![job.target].name = string]
        /\ stack' = stack /\ pc' = "register" /\ job' = [job EXCEPT !.made = Nil] /\ open' = open
        BY <1>8 DEF Deliver
  <2>2. job.target \in Objects BY <1>4, <1>8 DEF Kept, Shape, Control, InterningOK
  <2>3. \A o \in Objects : heap'[o].kind = heap[o].kind /\ heap'[o].refs = heap[o].refs
        BY <1>0, <2>1, <2>2 DEF MemoryOK, Heaps, Records
  <2>4. Live' = Live /\ References' = References BY <2>3 DEF Live, References
  <2>5. RefsLive' /\ Grows BY <1>0, <2>3, <2>4 DEF RefsLive, Live, Grows
  <2>6. RootsOf(stack)' = RootsOf(stack) BY <2>1 DEF RootsOf, static
  <2>7. RootsLive' BY <1>0, <2>4, <2>6 DEF RootsLive
  <2>8. /\ job'.held = job.held /\ job'.target = job.target /\ job'.made = Nil
        /\ job'.use = job.use /\ job'.items = job.items
        BY <1>0, <2>1 DEF Jobs
  <2>9. HeldBy(Needed \cup RootsOf(stack)') BY <1>3, <2>8 DEF HeldBy
  <2>10. Held' \subseteq Needed' BY <2>5, <2>6, <2>9, GrowingHeld
  <2>11. UsesKept' BY <2>8 DEF Kept, HeapOK, UsesKept, static
  <2> QED BY <2>1, <2>5, <2>7, <2>10, <2>11, WorkingKept
<1> QED BY <1>0, <1>5, <1>6, <1>7, <1>8 DEF Jobs, Uses

(* The C code asks for memory, and goes on with the same locals. *)
LEMMA GoesOn ==
    ASSUME Kept, Shape', Reallocate(stack), UNCHANGED <<roots, job>>
    PROVE  /\ RefsLive' /\ RootsLive' /\ Held' \subseteq Needed' /\ UsesKept'
           /\ RootsOf(stack)' = RootsOf(stack) /\ \A q \in Needed : heap'[q] = heap[q]
<1>1. UNCHANGED <<stack, open, static, job>> BY DEF roots
<1>2. RefsLive' /\ Needed \subseteq Live' /\ Grows /\ \A q \in Needed : heap'[q] = heap[q]
      BY ReallocateHeap
<1>3. RootsOf(stack)' = RootsOf(stack) BY <1>1 DEF RootsOf, static
<1>4. RootsLive' BY <1>2, <1>3, KeptFacts DEF RootsLive
<1>5. HeldBy(Needed \cup RootsOf(stack)')
  <2>1. /\ job.held \subseteq Needed /\ job.target \in Needed \cup {Nil}
        /\ job.made \in Needed \cup {Nil}
        /\ \A i \in 1..Len(job.items) : ToSet(job.items[i]) \subseteq Needed \cup {Nil}
        BY KeptFacts, HeldHas
  <2> QED BY <1>1, <2>1 DEF HeldBy
<1>6. Held' \subseteq Needed' BY <1>2, <1>3, <1>5, GrowingHeld
<1>7. UsesKept' BY <1>1 DEF Kept, HeapOK, UsesKept, static
<1> QED BY <1>2, <1>3, <1>4, <1>6, <1>7

LEMMA FindKept ==
    ASSUME Kept, Shape', Find
    PROVE  Kept'
<1>0. /\ MemoryOK /\ pc = "find" /\ UNCHANGED static /\ stack \in Seq(Values)
      /\ CallerStack(stack)
      BY KeptFacts, FindCaller DEF Find, Kept
<1>1. CASE \E s \in strings : heap[s].content = job.content /\ Deliver(stack, s)
  <2>1. PICK s \in strings : Deliver(stack, s) BY <1>1
  <2>2. s \in Live BY <1>0 DEF MemoryOK, Live
  <2> QED BY <1>0, <2>1, <2>2, DeliverKept
<1>2. CASE /\ pc' = (IF job.took THEN "object" ELSE "characters")
           /\ UNCHANGED <<heap, stack, open, job>>
  <2>1. pc' \in {"object", "characters"} /\ UNCHANGED <<heap, stack, open, static, job>>
        BY <1>0, <1>2
  <2>2. RefsLive' /\ RootsLive' /\ Held' \subseteq Needed' /\ UsesKept'
        BY <2>1 DEF Kept, HeapOK, RefsLive, RootsLive, Live, RootsOf, static, Held, Needed,
           References, UsesKept
  <2> QED BY <2>1, <2>2, WorkingKept
<1> QED BY <1>1, <1>2 DEF Find

LEMMA AllocateStringKept ==
    ASSUME Kept, Shape', NEW o \in Objects, AllocateString(o)
    PROVE  Kept'
<1>0. /\ MemoryOK /\ RootsTyped /\ stack \in Seq(Values) /\ job \in Jobs
      /\ RootsOf(stack) \subseteq Needed /\ ToSet(stack) \subseteq RootsOf(stack) \cup {Nil}
      /\ open \subseteq RootsOf(stack)
      BY KeptFacts
<1>1. /\ Allocate(stack, "string", job.content, o) /\ stack' = Append(stack, o)
      /\ pc' = "intern" /\ job' = [job EXCEPT !.held = {}, !.made = o]
      /\ open' = open /\ UNCHANGED static
      BY DEF AllocateString
<1>2. job.content \in Contents \cup {Nil} /\ o \in Values BY <1>0 DEF Jobs, Values
<1>3. RefsLive' /\ Needed \subseteq Live' /\ o \in Live' /\ Grows
      BY <1>1, <1>2, AllocateHeap DEF Kinds
<1>4. ToSet(stack') = ToSet(stack) \cup {o} BY <1>0, <1>1, <1>2, AppendElements
<1>5. RootsOf(stack)' = RootsOf(stack) \cup {o}
      BY <1>1, <1>4, HeapAssumption DEF RootsOf, static
<1>6. RootsLive' BY <1>0, <1>3, <1>5 DEF RootsLive
<1>7. /\ job'.held = {} /\ job'.made = o /\ job'.target = job.target
      /\ job'.items = job.items /\ job'.use = job.use
      BY <1>0, <1>1 DEF Jobs
<1>8. /\ job.target \in Held \cup {Nil} /\ Held \subseteq Needed
      /\ \A i \in 1..Len(job.items) : ToSet(job.items[i]) \subseteq Held \cup {Nil}
      BY KeptFacts, HeldHas
<1>9. HeldBy(Needed \cup RootsOf(stack)') BY <1>5, <1>7, <1>8 DEF HeldBy
<1>10. Held' \subseteq Needed' BY <1>3, <1>5, <1>9, GrowingHeld
<1>11. UsesKept' BY <1>1, <1>7 DEF Kept, HeapOK, UsesKept, static
<1> QED BY <1>1, <1>3, <1>6, <1>10, <1>11, WorkingKept

LEMMA InternKept ==
    ASSUME Kept, NamesOK, Shape', Intern
    PROVE  Kept'
<1>0. /\ stack \in Seq(Values) /\ pc = "interned" /\ Deliver(Drop(1), job.made)
      /\ UNCHANGED static /\ Interning
      BY KeptFacts DEF Intern, Interning
<1>1. /\ job.made \in Live /\ stack # <<>> /\ Last(stack) = job.made
      /\ job.use # "nativeName"
      BY <1>0 DEF NamesOK, NativesOK, Shape, Control, JobOK, InterningOK, Jobs, Values, Live
<1>2. CallerStack(Drop(1)) BY <1>0, InternedCaller DEF Kept
<1>3. Len(stack) >= 1 BY <1>0, <1>1
<1>4. ToSet(Drop(1)) \subseteq ToSet(stack) BY <1>0, <1>3, Slots
<1>5. ToSet(stack) \subseteq ToSet(Drop(1)) \cup {job.made}
  <2>1. /\ Drop(1) \in Seq(Values) /\ Len(Drop(1)) = Len(stack) - 1
        /\ \A i \in 1..(Len(stack) - 1) : Drop(1)[i] = stack[i]
        BY <1>0, <1>3, DropOK
  <2>2. \A i \in 1..(Len(stack) - 1) : stack[i] \in ToSet(Drop(1)) BY <2>1, Elements
  <2>3. stack[Len(stack)] = job.made BY <1>1 DEF Last
  <2>4. \A i \in 1..Len(stack) : i \in 1..(Len(stack) - 1) \/ i = Len(stack)
        BY <1>0
  <2>5. \A v \in ToSet(stack) : \E i \in 1..Len(stack) : v = stack[i] BY <1>0, Elements
  <2> QED BY <2>2, <2>3, <2>4, <2>5
<1> QED BY <1>0, <1>1, <1>2, <1>4, <1>5, DeliverKept

LEMMA StringKept ==
    ASSUME Kept, NamesOK, Shape', KeepsOperands, StringStep
    PROVE  Kept'
<1>1. ASSUME AllocateCharacters \/ GrowInterner PROVE Kept'
  <2>1. /\ Reallocate(stack) /\ UNCHANGED <<roots, job>> /\ pc' \in {"object", "interned"}
        BY <1>1 DEF AllocateCharacters, GrowInterner
  <2>2. RefsLive' /\ RootsLive' /\ Held' \subseteq Needed' /\ UsesKept' BY <2>1, GoesOn
  <2> QED BY <2>1, <2>2, WorkingKept
<1> QED BY <1>1, BeginStringKept, FindKept, AllocateStringKept, InternKept DEF StringStep

(* The roots are needed, and so is what something needed refers to. *)
LEMMA RootsNeeded ==
    ASSUME Shape'
    PROVE  /\ RootsOf(stack)' \subseteq Needed'
           /\ \A q \in Needed' : heap'[q].refs \subseteq Needed'
<1>1. MemoryOK' /\ RootsTyped'
      BY DEF Shape, TypeOK, MemoryOK, RootsTyped, Heaps, Records, Kinds
<1>2. References' \in [Objects -> SUBSET Objects]
      BY <1>1 DEF MemoryOK, References, Heaps, Records
<1>3. RootsOf(stack)' \in SUBSET Objects
  <2>1. ToSet(stack)' \subseteq Values BY <1>1, Elements DEF RootsTyped
  <2>2. ToSet(compilers)' \subseteq Objects BY <1>1, Elements DEF RootsTyped
  <2>3. Range(globals)' \subseteq Values BY <1>1 DEF RootsTyped, Range
  <2>4. open' \subseteq Objects BY <1>1 DEF MemoryOK
  <2> QED BY <1>1, <2>1, <2>2, <2>3, <2>4, HeapAssumption DEF RootsOf, Values, RootsTyped
<1>4. /\ RootsOf(stack)' \subseteq Reachable(RootsOf(stack)', References')
      /\ Reachable(RootsOf(stack)', References') \subseteq Objects
      /\ Closed(Reachable(RootsOf(stack)', References'), References')
      BY <1>2, <1>3, ReachableLeast
<1>5. \A q \in Objects : References'[q] = heap'[q].refs BY DEF References
<1> QED BY <1>4, <1>5 DEF Needed, Closed

(* A new array or map is pushed, with its items still on the stack or in a map. *)
LEMMA BeginBuildKept ==
    ASSUME Kept, Shape', NEW n \in 0..Len(stack), NEW kind \in Kinds \ {"free"},
           NEW items \in Seq(Seq(Values)), NEW o \in Objects, BeginBuild(n, kind, items, o),
           \A i \in 1..Len(items) : ToSet(items[i]) \subseteq Needed \cup {Nil},
           kind = "map" => \A i \in 1..Len(items) : ToSet(items[i]) \subseteq ToSet(stack)
    PROVE  Kept'
<1>0. /\ stack \in Seq(Values) /\ RootsOf(stack) \subseteq Needed
      /\ ToSet(stack) \subseteq RootsOf(stack) \cup {Nil}
      BY KeptFacts
<1>1. /\ Allocate(stack, kind, Nil, o) /\ stack' = Append(stack, o) /\ pc' = "append"
      /\ open' = open /\ UNCHANGED static
      /\ Start(n, [NoJob EXCEPT !.drop = n + 1, !.target = o, !.items = items])
      BY DEF BeginBuild
<1>2. /\ RefsLive' /\ Needed \subseteq Live' /\ o \in Live' /\ Grows /\ heap'[o].kind = kind
      BY <1>1, AllocateHeap
<1>3. ToSet(stack') = ToSet(stack) \cup {o} BY <1>0, <1>1, AppendElements DEF Values
<1>4. RootsOf(stack)' = RootsOf(stack) \cup {o}
      BY <1>1, <1>3, HeapAssumption DEF RootsOf, static
<1>5. RootsLive' BY <1>0, <1>2, <1>4 DEF RootsLive
<1>6. /\ job'.held = {} /\ job'.made = Nil /\ job'.target = o /\ job'.items = items
      /\ job'.use = "result"
      BY <1>1, NoJobType DEF Jobs, Start
<1>7. HeldBy(Needed \cup RootsOf(stack)') BY <1>4, <1>6 DEF HeldBy
<1>8. Held' \subseteq Needed' BY <1>2, <1>4, <1>7, GrowingHeld
<1>9. UsesKept' BY <1>6 DEF UsesKept
<1>10. FillingKept' BY <1>2, <1>3, <1>4, <1>6 DEF FillingKept
<1> QED BY <1>1, <1>2, <1>5, <1>8, <1>9, <1>10 DEF Kept, HeapOK

LEMMA ArrayKept ==
    ASSUME Kept, Shape', NEW n \in 0..MaxStack, NEW o \in Objects, Array(n, o)
    PROVE  Kept'
<1> DEFINE items == [i \in 1..n |-> <<Peek(n - i)>>]
<1>1. /\ n \in 0..Len(stack) /\ stack \in Seq(Values) /\ BeginBuild(n, "array", items, o)
      /\ RootsOf(stack) \subseteq Needed /\ ToSet(stack) \subseteq RootsOf(stack) \cup {Nil}
      BY BoundsAssumption, KeptFacts DEF Array, Idle
<1>2. ASSUME NEW i \in 1..n PROVE Peek(n - i) \in Values /\ Peek(n - i) \in ToSet(stack)
  <2> DEFINE k == n - i
  <2>1. k \in 0..(Len(stack) - 1) /\ k \in 0..Len(stack) /\ k < Len(stack) BY <1>1
  <2> HIDE DEF k
  <2>2. Peek(k) \in Values BY <1>1, <2>1, PeekOK
  <2>3. Peek(k) \in ToSet(stack) BY <1>1, <2>1, Slots
  <2> QED BY <2>2, <2>3 DEF k
<1>3. items \in Seq(Seq(Values)) /\ Len(items) = n
  <2>1. \A i \in 1..n : <<Peek(n - i)>> \in Seq(Values) BY <1>2
  <2>2. n \in Nat BY <1>1
  <2> QED BY <2>1, <2>2
<1>4. \A i \in 1..Len(items) : ToSet(items[i]) \subseteq ToSet(stack)
      BY <1>2, <1>3 DEF ToSet
<1> HIDE DEF items
<1> QED BY <1>1, <1>3, <1>4, BeginBuildKept DEF Kinds

LEMMA MapKept ==
    ASSUME Kept, Shape', NEW n \in 0..MaxStack, NEW o \in Objects, Map(n, o)
    PROVE  Kept'
<1> DEFINE items == [i \in 1..n |-> <<Peek(2 * (n - i) + 1), Peek(2 * (n - i))>>]
<1>1. /\ n \in Nat /\ 2 * n \in 0..Len(stack) /\ stack \in Seq(Values)
      /\ BeginBuild(2 * n, "map", items, o)
      /\ RootsOf(stack) \subseteq Needed /\ ToSet(stack) \subseteq RootsOf(stack) \cup {Nil}
      BY BoundsAssumption, KeptFacts DEF Map, Idle
<1>2. ASSUME NEW i \in 1..n
      PROVE  /\ Peek(2 * (n - i) + 1) \in Values /\ Peek(2 * (n - i) + 1) \in ToSet(stack)
             /\ Peek(2 * (n - i)) \in Values /\ Peek(2 * (n - i)) \in ToSet(stack)
  <2> DEFINE k == 2 * (n - i)
             m == k + 1
  <2>1. m \in 0..(Len(stack) - 1) /\ k \in 0..(Len(stack) - 1) BY <1>1
  <2> HIDE DEF k, m
  <2>2. m \in 0..Len(stack) /\ k \in 0..Len(stack) /\ m < Len(stack) /\ k < Len(stack)
        BY <1>1, <2>1
  <2>3. Peek(m) \in Values /\ Peek(k) \in Values BY <1>1, <2>1, PeekOK
  <2>4. Peek(m) \in ToSet(stack) /\ Peek(k) \in ToSet(stack) BY <1>1, <2>2, Slots
  <2> QED BY <2>3, <2>4 DEF k, m
<1>3. items \in Seq(Seq(Values)) /\ Len(items) = n
  <2>1. \A i \in 1..n : <<Peek(2 * (n - i) + 1), Peek(2 * (n - i))>> \in Seq(Values) BY <1>2
  <2> QED BY <1>1, <2>1
<1>4. \A i \in 1..Len(items) : ToSet(items[i]) \subseteq ToSet(stack)
      BY <1>2, <1>3 DEF ToSet
<1> HIDE DEF items
<1> QED BY <1>1, <1>3, <1>4, BeginBuildKept DEF Kinds

(* keys(): the strings are references of the map, which is an operand. *)
LEMMA KeysKept ==
    ASSUME Kept, Shape', NEW K \in SUBSET Objects, NEW o \in Objects, Keys(K, o)
    PROVE  Kept'
<1>1. /\ Len(stack) >= 2 /\ Peek(0) # Nil /\ K \subseteq heap[Peek(0)].refs
      /\ stack \in Seq(Values) /\ RootsOf(stack) \subseteq Needed
      /\ ToSet(stack) \subseteq RootsOf(stack) \cup {Nil}
      /\ \A q \in Needed : q \in Objects /\ heap[q].refs \subseteq Needed
      BY KeptFacts DEF Keys, Idle, Is
<1>2. K \subseteq Needed
  <2>1. Peek(0) \in ToSet(stack) BY <1>1, Slots
  <2> QED BY <1>1, <2>1
<1>3. PICK keys \in SetToSeqs(K) :
        BeginBuild(2, "array", [i \in DOMAIN keys |-> <<keys[i]>>], o)
      BY DEF Keys
<1> DEFINE n == Cardinality(K)
           items == [i \in 1..n |-> <<keys[i]>>]
<1>4. n \in Nat BY HeapAssumption, FS_Subset, FS_CardinalityType
<1>5. DOMAIN keys = 1..n /\ \A i \in 1..n : keys[i] \in K BY <1>3, <1>4 DEF SetToSeqs
<1>6. \A i \in 1..n : <<keys[i]>> \in Seq(Values) BY <1>5 DEF Values
<1> HIDE DEF n
<1>7. items \in Seq(Seq(Values)) /\ Len(items) = n BY <1>4, <1>6
<1>8. BeginBuild(2, "array", items, o) BY <1>3, <1>5
<1>9. \A i \in 1..n : items[i] = <<keys[i]>> OBVIOUS
<1> HIDE DEF items
<1>10. \A i \in 1..Len(items) : ToSet(items[i]) \subseteq Needed \cup {Nil}
  <2>1. \A i \in 1..n : ToSet(<<keys[i]>>) = {keys[i]} BY DEF ToSet
  <2> QED BY <1>2, <1>5, <1>7, <1>9, <2>1
<1>11. 2 \in 0..Len(stack) BY <1>1
<1> QED BY <1>7, <1>8, <1>10, <1>11, BeginBuildKept DEF Kinds

LEMMA SplitKept ==
    ASSUME Kept, Shape', NEW n \in 1..MaxPieces, NEW pieces \in [1..n -> Contents],
           NEW o \in Objects, Split(pieces, o)
    PROVE  Kept'
<1>0. /\ stack \in Seq(Values) /\ RootsOf(stack) \subseteq Needed BY KeptFacts
<1>1. /\ Allocate(stack, "array", Nil, o) /\ stack' = Append(stack, o) /\ pc' = "find"
      /\ open' = open /\ UNCHANGED static
      /\ job'.held = {} /\ job'.made = Nil /\ job'.target = o /\ job'.items = <<>>
      /\ job'.use = "piece"
      BY NoJobType DEF Split, Start, Jobs
<1>2. RefsLive' /\ Needed \subseteq Live' /\ o \in Live' /\ Grows
      BY <1>1, AllocateHeap DEF Kinds
<1>3. ToSet(stack') = ToSet(stack) \cup {o} BY <1>0, <1>1, AppendElements DEF Values
<1>4. RootsOf(stack)' = RootsOf(stack) \cup {o}
      BY <1>1, <1>3, HeapAssumption DEF RootsOf, static
<1>5. RootsLive' BY <1>0, <1>2, <1>4 DEF RootsLive
<1>6. HeldBy(Needed \cup RootsOf(stack)') BY <1>1, <1>4 DEF HeldBy
<1>7. Held' \subseteq Needed' BY <1>2, <1>4, <1>6, GrowingHeld
<1>8. UsesKept' BY <1>1 DEF UsesKept
<1> QED BY <1>1, <1>2, <1>5, <1>7, <1>8, WorkingKept

LEMMA NativePushKept ==
    ASSUME Kept, Shape', NativePush
    PROVE  Kept'
<1>0. /\ stack \in Seq(Values) /\ RootsOf(stack) \subseteq Needed
      /\ ToSet(stack) \subseteq RootsOf(stack) \cup {Nil} /\ RootsOf(stack) \subseteq Live
      BY KeptFacts
<1>1. /\ Len(stack) >= 3 /\ Peek(1) # Nil /\ heap[Peek(1)].kind = "array"
      /\ UNCHANGED <<heap, stack, open, static>> /\ pc' = "append"
      /\ job'.held = {} /\ job'.made = Nil /\ job'.target = Peek(1)
      /\ job'.items = <<<<Peek(0)>>>> /\ job'.use = "result"
      BY NoJobType DEF NativePush, Start, Jobs, Idle, Is, roots
<1>2. RefsLive' /\ Live' = Live /\ Grows BY <1>1, SameHeap
<1>3. RootsOf(stack)' = RootsOf(stack) BY <1>1 DEF RootsOf, static
<1>4. RootsLive' BY <1>0, <1>2, <1>3 DEF RootsLive
<1>5. Peek(1) \in RootsOf(stack) /\ Peek(0) \in Needed \cup {Nil} BY <1>0, <1>1, Slots
<1>6. \A i \in 1..Len(job'.items) : ToSet(job'.items[i]) \subseteq {Peek(0)}
      BY <1>1 DEF ToSet
<1>7. HeldBy(Needed \cup RootsOf(stack)') BY <1>1, <1>3, <1>5, <1>6 DEF HeldBy
<1>8. Held' \subseteq Needed' BY <1>2, <1>3, <1>7, GrowingHeld
<1>9. UsesKept' BY <1>1 DEF UsesKept
<1>10. FillingKept' BY <1>1, <1>3, <1>5 DEF FillingKept
<1> QED BY <1>1, <1>2, <1>4, <1>8, <1>9, <1>10 DEF Kept, HeapOK

LEMMA NativePopKept ==
    ASSUME Kept, Shape', NEW v \in Values, NativePop(v)
    PROVE  Kept'
<1>0. /\ MemoryOK /\ RootsTyped /\ stack \in Seq(Values) /\ RefsLive /\ RootsOf(stack) \subseteq Live
      /\ RootsOf(stack) \subseteq Needed /\ Needed \subseteq Live
      /\ ToSet(stack) \subseteq RootsOf(stack) \cup {Nil} /\ open \subseteq RootsOf(stack)
      /\ \A o \in Needed : o \in Objects /\ heap[o].refs \subseteq Needed
      BY KeptFacts
<1>1. /\ Len(stack) >= 2 /\ Peek(0) # Nil /\ v \in heap[Peek(0)].refs \cup {Nil}
      /\ heap' = Replaced(Peek(0), {v}, {}) \/ heap' = heap
      /\ stack' = Append(Drop(2), v) /\ UNCHANGED <<open, static>>
      BY DEF NativePop, Idle, Is
<1>2. pc' = "idle" /\ job' = NoJob BY KeptFacts DEF NativePop, Idle
<1>3. Peek(0) \in Needed BY <1>0, <1>1, Slots
<1>4. RefsLive' /\ Live' = Live
  <2>1. CASE heap' = Replaced(Peek(0), {v}, {}) BY <1>0, <1>3, <2>1, ReplacedLive
  <2>2. CASE heap' = heap BY <2>2, SameHeap
  <2> QED BY <1>1, <2>1, <2>2
<1>5. ToSet(stack') \subseteq ToSet(stack) \cup {v} BY <1>0, <1>1, Pushed
<1>6. RootsBy(Live) BY <1>0, <1>1, <1>3, <1>5 DEF RootsBy
<1>7. RootsLive' BY <1>0, <1>4, <1>6, RootsNext DEF RootsLive
<1> QED BY <1>2, <1>4, <1>7, IdleKept

LEMMA BuildFailsKept ==
    ASSUME Kept, Shape', BuildFails
    PROVE  Kept'
<1>1. /\ stack' = <<>> /\ open' = {} /\ pc' = "idle" /\ job' = NoJob
      /\ heap' = heap /\ UNCHANGED static
      BY DEF BuildFails
<1>2. RefsLive' /\ Live' = Live BY <1>1, SameHeap
<1>3. RootsBy(Live) BY <1>1 DEF RootsBy, ToSet
<1>4. RootsLive' BY <1>2, <1>3, KeptFacts, RootsNext DEF RootsLive
<1> QED BY <1>1, <1>2, <1>4, IdleKept

LEMMA GrowKept ==
    ASSUME Kept, Shape', Grow
    PROVE  Kept'
<1>1. /\ Filling /\ pc' = "store" /\ Reallocate(stack) /\ UNCHANGED <<roots, job>>
      /\ stack' = stack
      BY DEF Grow, Filling, roots
<1>2. /\ RefsLive' /\ RootsLive' /\ Held' \subseteq Needed' /\ UsesKept'
      /\ RootsOf(stack)' = RootsOf(stack) /\ \A q \in Needed : heap'[q] = heap[q]
      BY <1>1, GoesOn
<1>3. FillingKept' BY <1>1, <1>2, KeptFacts DEF Kept, HeapOK, FillingKept
<1> QED BY <1>1, <1>2, <1>3 DEF Kept, HeapOK

(* An item is stored: what it replaces in a map the C code no longer needs. *)
LEMMA StoreKept ==
    ASSUME Kept, Shape', NEW old \in Values, Store(old)
    PROVE  Kept'
<1>0. /\ MemoryOK /\ RootsTyped /\ stack \in Seq(Values) /\ job \in Jobs /\ RefsLive
      /\ RootsOf(stack) \subseteq Live /\ Needed \subseteq Live /\ Held \subseteq Needed
      /\ RootsOf(stack) \subseteq Needed /\ \A o \in Needed : o \in Objects
      /\ ToSet(stack) \subseteq RootsOf(stack) \cup {Nil}
      BY KeptFacts
<1>1. /\ pc = "store" /\ Filling /\ pc' = "append" /\ UNCHANGED <<stack, open, static>>
      /\ old = Nil \/ heap[job.target].kind = "map"
      /\ heap' = Replaced(job.target, {old}, ToSet(Head(job.items)))
      /\ job' = [job EXCEPT !.items = Tail(job.items)]
      BY DEF Store, Filling, Is, roots
<1>2. job.items # <<>> /\ job.target \in RootsOf(stack) /\ job.made = Nil
      BY <1>1 DEF Kept, HeapOK, FillingKept, Shape, Control, FillingOK, JobOK
<1>3. job.items \in Seq(Seq(Values)) BY <1>0 DEF Jobs
<1>4. /\ Head(job.items) = job.items[1] /\ 1 \in 1..Len(job.items)
      /\ \A i \in 1..Len(Tail(job.items)) :
            i + 1 \in 1..Len(job.items) /\ Tail(job.items)[i] = job.items[i + 1]
      BY <1>2, <1>3
<1>5. /\ job.held \subseteq Needed /\ job.target \in Needed
      /\ \A i \in 1..Len(job.items) : ToSet(job.items[i]) \subseteq Needed \cup {Nil}
      BY <1>0, <1>2, HeldHas
<1>6. ToSet(Head(job.items)) \subseteq Live \cup {Nil} BY <1>0, <1>4, <1>5
<1>7. /\ RefsLive' /\ Live' = Live
      /\ \A q \in Objects : /\ heap'[q].kind = heap[q].kind
                            /\ q # job.target => heap'[q] = heap[q]
      /\ heap'[job.target].refs
            = (heap[job.target].refs \ {old}) \cup (ToSet(Head(job.items)) \ {Nil})
  <2> DEFINE t == job.target
             new == ToSet(Head(job.items))
  <2>1. /\ MemoryOK /\ RefsLive /\ t \in Objects /\ new \subseteq Live \cup {Nil}
        /\ heap' = Replaced(t, {old}, new)
        BY <1>0, <1>1, <1>5, <1>6
  <2> HIDE DEF t, new
  <2>2. /\ RefsLive' /\ Live' = Live
        /\ \A q \in Objects : heap'[q].kind = heap[q].kind /\ (q # t => heap'[q] = heap[q])
        /\ heap'[t].refs = (heap[t].refs \ {old}) \cup (new \ {Nil})
        BY ONLY <2>1, ReplacedLive
  <2> QED BY <2>2 DEF t, new
<1>8. RootsOf(stack)' = RootsOf(stack) BY <1>1 DEF RootsOf, static
<1>9. RootsLive' BY <1>0, <1>7, <1>8 DEF RootsLive
<1>10. /\ job'.held = job.held /\ job'.made = Nil /\ job'.target = job.target
       /\ job'.items = Tail(job.items) /\ job'.use = job.use
  <2>1. Tail(job.items) \in Seq(Seq(Values)) BY <1>2, <1>3
  <2> QED BY <1>0, <1>1, <1>2, <2>1 DEF Jobs
<1>11. UsesKept' BY <1>1, <1>10 DEF Kept, HeapOK, UsesKept, static
<1>12. heap[job.target].kind = "map" =>
          /\ job.held = {}
          /\ \A i \in 1..Len(job.items) : ToSet(job.items[i]) \subseteq ToSet(stack)
       BY <1>1 DEF Kept, HeapOK, FillingKept
<1>13. FillingKept'
  <2>1. heap'[job.target].kind = heap[job.target].kind BY <1>0, <1>5, <1>7
  <2> QED BY <1>1, <1>2, <1>4, <1>8, <1>10, <1>12, <2>1 DEF FillingKept
<1>14. Held' \subseteq Needed'
  <2>1. CASE heap[job.target].kind = "map"
    <3> DEFINE X == Needed'
    <3>1. RootsOf(stack) \subseteq X BY <1>8, RootsNeeded
    <3>2. \A i \in 1..Len(job.items) : ToSet(job.items[i]) \subseteq RootsOf(stack) \cup {Nil}
          BY <1>0, <1>12, <2>1
    <3>3. job' \in Jobs BY DEF Shape, Control, JobOK
    <3> HIDE DEF X
    <3>4. HeldBy(X) BY <1>2, <1>4, <1>10, <1>12, <2>1, <3>1, <3>2 DEF HeldBy
    <3>5. Held' \subseteq X BY <3>3, <3>4, HeldNext
    <3> QED BY <3>5 DEF X
  <2>2. CASE heap[job.target].kind # "map"
    <3>1. heap[job.target].refs \subseteq heap'[job.target].refs
      <4>1. Nil \notin heap[job.target].refs
            BY <1>0, <1>5, HeapAssumption DEF MemoryOK, Heaps, Records
      <4> QED BY <1>1, <1>7, <2>2, <4>1
    <3>2. Grows BY <1>0, <1>7, <3>1 DEF Grows
    <3>3. HeldBy(Needed \cup RootsOf(stack)') BY <1>4, <1>5, <1>10 DEF HeldBy
    <3> QED BY <1>8, <3>2, <3>3, GrowingHeld
  <2> QED BY <2>1, <2>2
<1> QED BY <1>1, <1>7, <1>9, <1>11, <1>13, <1>14 DEF Kept, HeapOK

(* split() pops its piece, and its array stays on the stack. *)
LEMMA PieceDoneKept ==
    ASSUME Kept, Shape', PieceDone
    PROVE  Kept'
<1>0. /\ RootsTyped /\ stack \in Seq(Values) /\ job \in Jobs /\ RootsOf(stack) \subseteq Live
      /\ ToSet(stack) \subseteq RootsOf(stack) \cup {Nil} /\ open \subseteq RootsOf(stack)
      BY KeptFacts
<1>1. /\ pc = "append" /\ Filling /\ job.items = <<>> /\ stack' = Drop(1) /\ pc' = "find"
      /\ job' = [job EXCEPT !.pieces = Tail(job.pieces), !.content = job.pieces[2]]
      /\ heap' = heap /\ UNCHANGED <<open, static>> /\ job.pieces # <<>>
      BY <1>0 DEF PieceDone, Filling
<1>2. /\ job.use = "piece" /\ job.target \in Objects /\ job.made = Nil /\ job.held = {}
      BY <1>1 DEF Kept, HeapOK, UsesKept, Shape, Control, JobOK, FillingOK
<1>3. /\ job'.held = {} /\ job'.made = Nil /\ job'.target = job.target
      /\ job'.items = <<>> /\ job'.use = "piece"
      BY <1>0, <1>1, <1>2 DEF Jobs
<1>4. RefsLive' /\ Live' = Live BY <1>1, SameHeap
<1>5. Len(stack) >= 1
  <2>1. stack # <<>>
    <3>1. /\ job.height >= 1 /\ Len(stack) = job.height + job.drop - 1 + 1
          BY <1>1, <1>2 DEF Kept, Shape, Control, FillingOK, Height
    <3>2. job.height \in Nat /\ job.drop \in Nat BY <1>0 DEF Jobs
    <3>3. Len(stack) # 0 BY <3>1, <3>2
    <3> QED BY <3>3
  <2> QED BY <1>0, <2>1
<1>6. ToSet(stack') \subseteq ToSet(stack) BY <1>0, <1>1, <1>5, Slots
<1>7. RootsBy(Live) BY <1>0, <1>1, <1>6 DEF RootsBy
<1>8. RootsLive' BY <1>0, <1>4, <1>7, RootsNext DEF RootsLive
<1>9. job.target \in RootsOf(stack)'
  <2>1. pc' = "find" /\ Interning' BY <1>1 DEF Interning
  <2>2. CallerOK(0)' BY <2>1 DEF Shape, Control, InterningOK
  <2>3. /\ job'.height >= 1 /\ Len(stack') = job'.height + job'.drop - 1 + 0
        /\ stack'[job'.height + job'.drop - 1] = job.target
        BY <1>3, <2>2 DEF CallerOK, Height
  <2>4. job' \in Jobs /\ stack' \in Seq(Values) /\ job'.drop >= 1
        BY <1>3 DEF Shape, Control, JobOK, TypeOK
  <2>5. job'.height \in Nat /\ job'.drop \in Nat BY <2>4 DEF Jobs
  <2>6. job'.height + job'.drop - 1 \in 1..Len(stack') BY <2>3, <2>4, <2>5
  <2>7. job.target \in ToSet(stack') BY <2>3, <2>4, <2>6, Elements
  <2> QED BY <1>2, <2>7, HeapAssumption DEF RootsOf
<1>10. Held' \subseteq Needed'
  <2> DEFINE X == Needed'
  <2>1. job.target \in X BY <1>9, RootsNeeded
  <2>2. job' \in Jobs BY DEF Shape, Control, JobOK
  <2> HIDE DEF X
  <2>3. HeldBy(X) BY <1>3, <2>1 DEF HeldBy
  <2>4. Held' \subseteq X BY <2>2, <2>3, HeldNext
  <2> QED BY <2>4 DEF X
<1>11. UsesKept' BY <1>3 DEF UsesKept
<1> QED BY <1>1, <1>4, <1>8, <1>10, <1>11, WorkingKept

LEMMA BuildDoneKept ==
    ASSUME Kept, Shape', BuildDone
    PROVE  Kept'
<1>0. /\ RootsTyped /\ RootsOf(stack) \subseteq Live
      /\ ToSet(stack) \subseteq RootsOf(stack) \cup {Nil} /\ open \subseteq RootsOf(stack)
      BY KeptFacts
<1>1. /\ Filling /\ job.use # "constant" /\ Len(job.pieces) <= 1
      /\ Finish(Drop(Len(job.pieces)), job.target) /\ heap' = heap /\ UNCHANGED <<open, static>>
      /\ pc' = "idle" /\ job' = NoJob
      BY DEF BuildDone, Filling, Finish
<1>2. job.target \in RootsOf(stack) BY <1>1 DEF Kept, HeapOK, FillingKept
<1>3. ToSet(stack') \subseteq ToSet(stack) \cup {job.target}
      BY <1>1, BuiltStack, FinishOK DEF Kept
<1>4. RefsLive' /\ Live' = Live BY <1>1, SameHeap
<1>5. RootsBy(Live) BY <1>0, <1>1, <1>2, <1>3 DEF RootsBy
<1>6. RootsLive' BY <1>0, <1>4, <1>5, RootsNext DEF RootsLive
<1> QED BY <1>1, <1>4, <1>6, IdleKept

(* OP_SET_INDEX of a map: the program keeps what the instruction has popped. *)
LEMMA BeginSetIndexMapKept ==
    ASSUME Kept, Shape', KeepsOperands, BeginSetIndexMap
    PROVE  Kept'
<1> DEFINE s == Drop(3)
           R == Reachable(RootsOf(s), References)
<1>0. /\ MemoryOK /\ RootsTyped /\ stack \in Seq(Values) /\ RefsLive
      /\ RootsOf(stack) \subseteq Live
      BY KeptFacts
<1>1. /\ Len(stack) >= 3 /\ Peek(2) # Nil /\ {Peek(0), Peek(1), Peek(2)} \subseteq R \cup {Nil}
      /\ stack' = s /\ Reallocate(s) /\ pc' = "put" /\ UNCHANGED <<open, static>>
      /\ job'.held = {Peek(1), Peek(0)} \ {Nil} /\ job'.made = Nil /\ job'.target = Peek(2)
      /\ job'.items = <<<<Peek(1), Peek(0)>>>> /\ job'.use = "result"
      BY NoJobType DEF BeginSetIndexMap, KeptElsewhere, Start, Jobs, Idle, Is
<1>2. s \in Seq(Values) /\ ToSet(s) \subseteq ToSet(stack) BY <1>0, <1>1, DropOK, Slots
<1>3. RootsOf(s) \subseteq RootsOf(stack) BY <1>2 DEF RootsOf
<1>4. RootsOf(stack)' = RootsOf(s) BY <1>1 DEF RootsOf, static
<1> HIDE DEF s
<1>5. RootsOf(s) \subseteq R BY <1>0, <1>2, <1>3, NeededLive
<1>6. RefsLive' /\ \A o \in R : heap'[o] = heap[o] /\ o \in Live'
      BY <1>0, <1>1, <1>2, <1>3, ReallocateLive
<1>7. RootsLive' BY <1>4, <1>5, <1>6 DEF RootsLive
<1>8. R \subseteq Needed'
  <2>1. MemoryOK' /\ RootsTyped'
        BY DEF Shape, TypeOK, MemoryOK, RootsTyped, Heaps, Records, Kinds
  <2>2. \A q \in R : heap[q].refs \subseteq heap'[q].refs BY <1>6
  <2> QED BY <1>0, <1>2, <1>4, <2>1, <2>2, NeededGrows
<1>9. job' \in Jobs BY DEF Shape, Control, JobOK
<1>10. \A i \in 1..Len(job'.items) : ToSet(job'.items[i]) \subseteq {Peek(1), Peek(0)}
       BY <1>1 DEF ToSet
<1> HIDE DEF R
<1>11. HeldBy(R) BY <1>1, <1>10 DEF HeldBy
<1>12. Held' \subseteq Needed' BY <1>8, <1>9, <1>11, HeldNext
<1>13. UsesKept' BY <1>1 DEF UsesKept
<1> QED BY <1>1, <1>6, <1>7, <1>12, <1>13, WorkingKept

LEMMA SetIndexMapKept ==
    ASSUME Kept, Shape', NEW old \in Values, SetIndexMap(old)
    PROVE  Kept'
<1>0. /\ MemoryOK /\ RootsTyped /\ stack \in Seq(Values) /\ job \in Jobs /\ RefsLive
      /\ RootsOf(stack) \subseteq Live /\ Needed \subseteq Live /\ Held \subseteq Needed
      /\ ToSet(stack) \subseteq RootsOf(stack) \cup {Nil} /\ open \subseteq RootsOf(stack)
      BY KeptFacts
<1>1. /\ pc = "put" /\ heap' = Replaced(job.target, {old}, ToSet(job.items[1]))
      /\ stack' = Append(SubSeq(stack, 1, Len(stack) - job.drop), job.items[1][2])
      /\ pc' = "idle" /\ job' = NoJob /\ UNCHANGED <<open, static>>
      BY DEF SetIndexMap, Finish
<1>2. job.target \in Objects /\ job.drop = 0 /\ Len(job.items) = 1 /\ Len(job.items[1]) = 2
      BY <1>1 DEF Kept, Shape, Control, OthersOK
<1>3. job.items[1] \in Seq(Values)
  <2>1. job.items \in Seq(Seq(Values)) BY <1>0 DEF Jobs
  <2> QED BY <1>2, <2>1
<1>4. ToSet(job.items[1]) \subseteq Live \cup {Nil}
  <2>1. 1 \in 1..Len(job.items) BY <1>2
  <2> QED BY <1>0, <2>1, HeldHas
<1>5. job.items[1][2] \in ToSet(job.items[1]) /\ job.items[1][2] \in Values
      BY <1>2, <1>3, Elements
<1>6. RefsLive' /\ Live' = Live BY <1>0, <1>1, <1>2, <1>4, ReplacedLive
<1>7. ToSet(stack') \subseteq ToSet(stack) \cup {job.items[1][2]}
  <2>1. 0 \in 0..Len(stack) /\ stack' = Append(Drop(0), job.items[1][2])
        BY <1>0, <1>1, <1>2 DEF Drop
  <2> QED BY <1>0, <1>5, <2>1, Pushed
<1>8. RootsBy(Live) BY <1>0, <1>1, <1>4, <1>5, <1>7 DEF RootsBy
<1>9. RootsLive' BY <1>0, <1>6, <1>8, RootsNext DEF RootsLive
<1> QED BY <1>1, <1>6, <1>9, IdleKept

LEMMA BuildKept ==
    ASSUME Kept, Shape', KeepsOperands, BuildStep
    PROVE  Kept'
BY ArrayKept, MapKept, KeysKept, SplitKept, NativePushKept, NativePopKept,
   BuildFailsKept, GrowKept, StoreKept, PieceDoneKept, BuildDoneKept,
   BeginSetIndexMapKept, SetIndexMapKept DEF BuildStep

(* Closures and their upvalues. *)
LEMMA BeginClosureKept ==
    ASSUME Kept, Shape', BeginClosure
    PROVE  Kept'
<1>1. /\ Reallocate(stack) /\ UNCHANGED <<stack, open, static>> /\ pc' = "closure"
      /\ job'.held = {} /\ job'.made = Nil /\ job'.target = Nil /\ job'.items = <<>>
      /\ job'.use = "result"
      BY NoJobType DEF BeginClosure, Start, roots, Jobs
<1>2. RefsLive' /\ Needed \subseteq Live' /\ Grows BY <1>1, ReallocateHeap
<1>3. RootsOf(stack)' = RootsOf(stack) BY <1>1 DEF RootsOf, static
<1>4. RootsLive' BY <1>2, <1>3, KeptFacts DEF RootsLive
<1>5. HeldBy(Needed \cup RootsOf(stack)') BY <1>1 DEF HeldBy
<1>6. Held' \subseteq Needed' BY <1>2, <1>3, <1>5, GrowingHeld
<1>7. UsesKept' BY <1>1 DEF UsesKept
<1>8. FillingKept' BY <1>1 DEF FillingKept, Filling
<1> QED BY <1>1, <1>2, <1>4, <1>6, <1>7, <1>8 DEF Kept, HeapOK

(* The new closure is pushed with what it needs in it. *)
LEMMA NewClosureKept ==
    ASSUME Kept, Shape', NEW o \in Objects, NewClosure(o)
    PROVE  Kept'
<1> DEFINE r == [New("closure", Nil) EXCEPT !.refs = job.held]
<1>0. /\ MemoryOK /\ RootsTyped /\ stack \in Seq(Values) /\ job \in Jobs /\ RefsLive
      /\ RootsOf(stack) \subseteq Live /\ Held \subseteq Needed /\ RootsOf(stack) \subseteq Needed
      /\ ToSet(stack) \subseteq RootsOf(stack) \cup {Nil} /\ open \subseteq RootsOf(stack)
      BY KeptFacts
<1>1. /\ pc = "closure" /\ pc' = "capture" /\ stack' = Append(Drop(job.drop), o)
      /\ job' = [job EXCEPT !.target = o] /\ UNCHANGED <<open, static>>
      BY DEF NewClosure
<1>2. PICK h \in Memories(stack) : h[o].kind = "free" /\ heap' = [h EXCEPT ![o] = r]
      BY DEF NewClosure
<1>3. job.held \in SUBSET Objects BY <1>0 DEF Jobs
<1>4. r \in Records /\ r.kind = "closure" /\ r.refs = job.held
      BY <1>3 DEF New, Records, Kinds, Values
<1> HIDE DEF r
<1>5. Placed(h, o, r) BY <1>2, <1>4 DEF Placed
<1>6. r.refs \subseteq Reachable(RootsOf(stack), References)
      BY <1>0, <1>4, HeldHas DEF Needed
<1>7. /\ RefsLive' /\ heap'[o] = r /\ o \in Live'
      /\ \A q \in Needed : heap'[q] = heap[q] /\ q \in Live'
      BY <1>0, <1>2, <1>4, <1>5, <1>6, NewLive DEF Needed
<1>8. job.items = <<>> /\ job.made = Nil /\ job.use = "result"
      BY <1>1 DEF Kept, HeapOK, Shape, Control, JobOK
<1>9. job.drop \in 0..Len(stack)
  <2>1. job.height >= 1 /\ Len(stack) = job.height + job.drop - 1 + 0
        BY <1>1 DEF Kept, Shape, Control, OthersOK, Height
  <2>2. job.height \in Nat /\ job.drop \in Nat BY <1>0 DEF Jobs
  <2> QED BY <2>1, <2>2
<1>10. ToSet(stack') \subseteq ToSet(stack) \cup {o} /\ o \in ToSet(stack')
       BY <1>0, <1>1, <1>9, Pushed DEF Values
<1>11. RootsLive'
  <2> DEFINE L == Live'
  <2>1. RootsOf(stack) \subseteq L BY <1>0, <1>7
  <2>2. RootsBy(L) BY <1>0, <1>1, <1>7, <1>10, <2>1 DEF RootsBy
  <2> HIDE DEF L
  <2>3. RootsOf(stack)' \subseteq L BY <1>0, <2>1, <2>2, RootsNext
  <2> QED BY <2>3 DEF L, RootsLive
<1>12. /\ job'.held = job.held /\ job'.made = Nil /\ job'.target = o /\ job'.items = <<>>
       /\ job'.use = job.use
       BY <1>0, <1>1, <1>8 DEF Jobs, Values
<1>13. Held' \subseteq Needed'
  <2> DEFINE X == Needed'
  <2>1. o \in RootsOf(stack)' BY <1>10, HeapAssumption DEF RootsOf
  <2>2. o \in X /\ job.held \subseteq X BY <1>4, <1>7, <2>1, RootsNeeded
  <2>3. job' \in Jobs BY DEF Shape, Control, JobOK
  <2> HIDE DEF X
  <2>4. HeldBy(X) BY <1>12, <2>2 DEF HeldBy
  <2>5. Held' \subseteq X BY <2>3, <2>4, HeldNext
  <2> QED BY <2>5 DEF X
<1>14. UsesKept' BY <1>8, <1>12 DEF UsesKept
<1>15. FillingKept' BY <1>1 DEF FillingKept, Filling
<1> QED BY <1>1, <1>7, <1>11, <1>12, <1>13, <1>14, <1>15 DEF Kept, HeapOK

(* A variable is captured: the closure refers to its upvalue. *)
LEMMA CaptureExistingKept ==
    ASSUME Kept, Shape', NEW u \in Objects, CaptureExisting(u)
    PROVE  Kept'
<1> DEFINE t == job.target
<1>0. /\ MemoryOK /\ RootsTyped /\ stack \in Seq(Values) /\ job \in Jobs /\ RefsLive
      /\ RootsOf(stack) \subseteq Live /\ Needed \subseteq Live /\ Held \subseteq Needed
      BY KeptFacts
<1>1. /\ pc = "capture" /\ pc' = "capture" /\ heap' = Replaced(t, {}, {u})
      /\ UNCHANGED <<stack, open, static, job>> /\ u \in Live
      BY DEF CaptureExisting, Capturing, Is, Live, roots
<1>2. t \in Objects /\ job.items = <<>> /\ job.use = "result" /\ job.made = Nil
      BY <1>1 DEF Kept, HeapOK, Shape, Control, OthersOK, JobOK
<1> HIDE DEF t
<1>3. /\ RefsLive' /\ Live' = Live /\ \A q \in Objects : q # t => heap'[q] = heap[q]
      /\ heap[t].refs \subseteq heap'[t].refs
  <2> DEFINE new == {u}
             old == {}
  <2>1. new \subseteq Live \cup {Nil} /\ heap' = Replaced(t, old, new) BY <1>1
  <2>2. heap[t].refs \ old = heap[t].refs OBVIOUS
  <2> HIDE DEF new, old
  <2>3. /\ RefsLive' /\ Live' = Live
        /\ \A q \in Objects : heap'[q].kind = heap[q].kind /\ (q # t => heap'[q] = heap[q])
        /\ heap'[t].refs = (heap[t].refs \ old) \cup (new \ {Nil})
        BY <1>0, <1>2, <2>1, ReplacedLive
  <2> QED BY <2>2, <2>3
<1>4. Grows BY <1>0, <1>3, KeptFacts DEF Grows
<1>5. RootsOf(stack)' = RootsOf(stack) BY <1>1 DEF RootsOf, static
<1>6. RootsLive' BY <1>0, <1>3, <1>5 DEF RootsLive
<1>7. job.held \subseteq Needed /\ job.target \in Needed \cup {Nil} BY <1>0, HeldHas
<1>8. HeldBy(Needed \cup RootsOf(stack)') BY <1>1, <1>2, <1>7 DEF HeldBy
<1>9. Held' \subseteq Needed' BY <1>4, <1>5, <1>8, GrowingHeld
<1>10. UsesKept' BY <1>1 DEF Kept, HeapOK, UsesKept, static
<1>11. FillingKept' BY <1>1 DEF FillingKept, Filling
<1> QED BY <1>1, <1>2, <1>3, <1>6, <1>9, <1>10, <1>11 DEF Kept, HeapOK

LEMMA CaptureNewKept ==
    ASSUME Kept, Shape', NEW u \in Objects, CaptureNew(u)
    PROVE  Kept'
<1> DEFINE t == job.target
<1>0. /\ MemoryOK /\ RootsTyped /\ stack \in Seq(Values) /\ job \in Jobs /\ RefsLive
      /\ RootsOf(stack) \subseteq Live /\ RootsOf(stack) \subseteq Needed /\ Held \subseteq Needed
      /\ \A q \in Needed : q \in Objects
      BY KeptFacts
<1>1. /\ pc = "capture" /\ pc' = "capture" /\ open' = open \cup {u}
      /\ UNCHANGED <<stack, static, job>>
      BY DEF CaptureNew, Capturing
<1>2. t \in Objects /\ job.items = <<>> /\ job.use = "result" /\ job.made = Nil /\ t # Nil
      BY <1>1, HeapAssumption DEF Kept, HeapOK, Shape, Control, OthersOK, JobOK
<1>3. job.held \subseteq Needed /\ t \in Needed BY <1>0, <1>2, HeldHas
<1>4. PICK h \in Memories(stack) :
        /\ h[u].kind = "free"
        /\ heap' = [h EXCEPT ![u] = New("upvalue", Nil), ![job.target].refs = @ \cup {u}]
      BY DEF CaptureNew
<1>5. h \in Heaps BY <1>0, <1>4, MemoriesOK
<1>6. /\ \A o \in Objects :
            h[o].kind # "free" =>
               /\ h[o] = heap[o]
               /\ \A q \in heap[o].refs : q \in Objects /\ h[q].kind # "free"
      /\ \A o \in Needed : o \in Objects /\ h[o] = heap[o] /\ heap[o].kind # "free"
      BY <1>0, <1>4, MemoriesLive DEF Needed
<1>7. t # u BY <1>3, <1>4, <1>6
<1>8. /\ heap'[u].kind = "upvalue" /\ heap'[u].refs = {}
      /\ heap'[t].kind = h[t].kind /\ heap'[t].refs = h[t].refs \cup {u}
      /\ \A q \in Objects : q # u /\ q # t => heap'[q] = h[q]
      BY <1>2, <1>4, <1>5, <1>7 DEF New, Heaps, Records
<1> HIDE DEF t
<1>9. \A q \in Objects : h[q].kind # "free" => heap'[q].kind # "free"
      BY <1>4, <1>8
<1>10. u \in Live' BY <1>8 DEF Live
<1>11. RefsLive'
  <2> SUFFICES ASSUME NEW o \in Objects, heap'[o].kind # "free", NEW q \in heap'[o].refs
               PROVE  q \in Objects /\ heap'[q].kind # "free"
      BY DEF RefsLive, Live
  <2>1. CASE o = u BY <1>8, <2>1
  <2>2. CASE o = t
    <3>1. q \in heap[t].refs \cup {u} BY <1>3, <1>6, <1>8, <2>2
    <3> QED BY <1>3, <1>6, <1>8, <1>9, <3>1
  <2>3. CASE o # u /\ o # t BY <1>6, <1>8, <1>9, <2>3
  <2> QED BY <2>1, <2>2, <2>3
<1>12. Grows
  <2> SUFFICES ASSUME NEW q \in Needed PROVE heap[q].refs \subseteq heap'[q].refs /\ q \in Live'
      BY DEF Grows
  <2>1. q \in Objects /\ h[q] = heap[q] /\ h[q].kind # "free" /\ q # u BY <1>4, <1>6
  <2> QED BY <1>8, <1>9, <2>1 DEF Live
<1>13. RootsOf(stack)' = RootsOf(stack) \cup {u}
       BY <1>1, HeapAssumption DEF RootsOf, static
<1>14. RootsLive' BY <1>0, <1>10, <1>12, <1>13 DEF RootsLive, Grows
<1>15. HeldBy(Needed \cup RootsOf(stack)') BY <1>1, <1>2, <1>3 DEF HeldBy, t
<1>16. Held' \subseteq Needed' BY <1>12, <1>13, <1>15, GrowingHeld
<1>17. UsesKept' BY <1>1 DEF Kept, HeapOK, UsesKept, static
<1>18. FillingKept' BY <1>1 DEF FillingKept, Filling
<1> QED BY <1>1, <1>2, <1>11, <1>14, <1>16, <1>17, <1>18 DEF Kept, HeapOK

(* The closure is complete, or the variable on the top moves into its upvalue. *)
LEMMA ClosureKept ==
    ASSUME Kept, Shape', ClosureStep
    PROVE  Kept'
<1>0. /\ MemoryOK /\ RootsTyped /\ stack \in Seq(Values) /\ RefsLive
      /\ RootsOf(stack) \subseteq Live /\ RootsOf(stack) \subseteq Needed
      /\ ToSet(stack) \subseteq RootsOf(stack) \cup {Nil} /\ open \subseteq RootsOf(stack)
      BY KeptFacts
<1>1. ASSUME ClosureDone PROVE Kept'
  <2>1. /\ heap' = heap /\ UNCHANGED <<stack, open, static>> /\ pc' = "idle" /\ job' = NoJob
        BY <1>1 DEF ClosureDone, roots
  <2>2. RefsLive' /\ Live' = Live BY <2>1, SameHeap
  <2>3. RootsLive' BY <1>0, <2>1, <2>2 DEF RootsLive, RootsOf, static
  <2> QED BY <2>1, <2>2, <2>3, IdleKept
<1>2. ASSUME NEW u \in Objects, CloseUpvalue(u) PROVE Kept'
  <2>1. /\ heap' = Replaced(u, {}, {Peek(0)}) /\ open' = open \ {u} /\ stack' = Drop(1)
        /\ UNCHANGED static /\ Len(stack) >= 1
        BY <1>2 DEF CloseUpvalue, Idle
  <2>2. pc' = "idle" /\ job' = NoJob BY <1>2, KeptFacts DEF CloseUpvalue, Idle
  <2>3. Peek(0) \in ToSet(stack) /\ ToSet(stack') \subseteq ToSet(stack)
        BY <1>0, <2>1, Slots
  <2>4. {Peek(0)} \subseteq Live \cup {Nil} BY <1>0, <2>3
  <2>5. RefsLive' /\ Live' = Live BY <1>0, <2>1, <2>4, ReplacedLive
  <2>6. RootsBy(Live) BY <1>0, <2>1, <2>3 DEF RootsBy
  <2>7. RootsLive' BY <1>0, <2>5, <2>6, RootsNext DEF RootsLive
  <2> QED BY <2>2, <2>5, <2>7, IdleKept
<1> QED BY <1>1, <1>2, BeginClosureKept, NewClosureKept, CaptureExistingKept, CaptureNewKept
        DEF ClosureStep

(* Compiling: the functions being compiled are roots. *)
LEMMA BeginCompileKept ==
    ASSUME Kept, Shape', NEW o \in Objects, BeginCompile(o)
    PROVE  Kept'
<1>0. RootsTyped /\ RootsOf(stack) \subseteq Needed BY KeptFacts
<1>1. /\ Allocate(stack, "function", Nil, o) /\ compilers' = <<o>>
      /\ UNCHANGED <<stack, open, globals, names>> /\ pc' = "compile" /\ job' = NoJob
      BY KeptFacts DEF BeginCompile, Idle
<1>2. RefsLive' /\ Needed \subseteq Live' /\ o \in Live' BY <1>1, AllocateHeap DEF Kinds
<1>3. ToSet(compilers') = {o} BY <1>1 DEF ToSet
<1>4. RootsOf(stack)' \subseteq RootsOf(stack) \cup {o} BY <1>1, <1>3 DEF RootsOf
<1>5. RootsLive' BY <1>0, <1>2, <1>4 DEF RootsLive
<1> QED BY <1>1, <1>2, <1>5, IdleKept

LEMMA BeginFunctionKept ==
    ASSUME Kept, Shape', NEW c \in Contents, NEW o \in Objects, BeginFunction(c, o)
    PROVE  Kept'
<1>0. /\ RootsTyped /\ RootsOf(stack) \subseteq Needed /\ compilers \in Seq(Objects)
      BY KeptFacts DEF RootsTyped
<1>1. /\ Allocate(stack, "function", Nil, o) /\ compilers' = Append(compilers, o)
      /\ UNCHANGED <<stack, open, globals, names>> /\ pc' = "find"
      /\ job'.held = {} /\ job'.made = Nil /\ job'.target = o /\ job'.items = <<>>
      /\ job'.use = "functionName"
      BY NoJobType DEF BeginFunction, Jobs
<1>2. RefsLive' /\ Needed \subseteq Live' /\ o \in Live' /\ Grows
      BY <1>1, AllocateHeap DEF Kinds
<1>3. ToSet(compilers') = ToSet(compilers) \cup {o} BY <1>0, <1>1, AppendElements
<1>4. RootsOf(stack)' = RootsOf(stack) \cup {o}
      BY <1>1, <1>3, HeapAssumption DEF RootsOf
<1>5. RootsLive' BY <1>0, <1>2, <1>4 DEF RootsLive
<1>6. HeldBy(Needed \cup RootsOf(stack)') BY <1>1, <1>4 DEF HeldBy
<1>7. Held' \subseteq Needed' BY <1>2, <1>4, <1>6, GrowingHeld
<1>8. UsesKept' BY <1>1 DEF UsesKept
<1> QED BY <1>1, <1>2, <1>5, <1>7, <1>8, WorkingKept

LEMMA EmitByteKept ==
    ASSUME Kept, Shape', EmitByte
    PROVE  Kept'
<1>1. /\ Reallocate(stack) /\ UNCHANGED <<roots, job>> /\ pc = "compile" /\ pc' = "compile"
      BY DEF EmitByte
<1>2. RefsLive' /\ RootsLive' BY <1>1, GoesOn
<1>3. job' = NoJob BY <1>1 DEF Kept, Shape, Control, JobOK
<1> QED BY <1>1, <1>2, <1>3, IdleKept

LEMMA StringConstantKept ==
    ASSUME Kept, Shape', NEW c \in Contents, StringConstant(c)
    PROVE  Kept'
<1>0. RootsOf(stack) \subseteq Live /\ compilers \in Seq(Objects) BY KeptFacts DEF RootsTyped
<1>1. /\ UNCHANGED <<heap, stack, open, static, compilers>> /\ pc = "compile" /\ pc' = "find"
      /\ job'.held = {} /\ job'.made = Nil /\ job'.target = Last(compilers)
      /\ job'.items = <<>> /\ job'.use = "constant"
      BY NoJobType DEF StringConstant, Jobs, roots, static
<1>2. RefsLive' /\ Live' = Live /\ Grows BY <1>1, SameHeap
<1>3. RootsOf(stack)' = RootsOf(stack) BY <1>1 DEF RootsOf, static
<1>4. RootsLive' BY <1>0, <1>2, <1>3 DEF RootsLive
<1>5. Last(compilers) \in ToSet(compilers) /\ Last(compilers) # Nil
  <2>1. compilers # <<>> BY <1>1 DEF Kept, Shape, Control, CompilingOK
  <2>2. Len(compilers) \in 1..Len(compilers) BY <1>0, <2>1
  <2>3. ToSet(compilers) \subseteq Objects BY <1>0, Elements
  <2> QED BY <1>0, <2>2, <2>3, Elements, HeapAssumption DEF Last
<1>6. Last(compilers) \in RootsOf(stack)' BY <1>3, <1>5 DEF RootsOf
<1>7. HeldBy(Needed \cup RootsOf(stack)') BY <1>1, <1>6 DEF HeldBy
<1>8. Held' \subseteq Needed' BY <1>2, <1>3, <1>7, GrowingHeld
<1>9. UsesKept' BY <1>1, <1>5 DEF UsesKept
<1> QED BY <1>1, <1>2, <1>4, <1>8, <1>9, WorkingKept

(* A finished function leaves the chain of compilers for the stack. *)
LEMMA EndFunctionKept ==
    ASSUME Kept, Shape', EndFunction
    PROVE  Kept'
<1> DEFINE last == Last(compilers)
           front == Front(compilers)
<1>0. /\ RootsTyped /\ RootsOf(stack) \subseteq Needed /\ compilers \in Seq(Objects)
      /\ stack \in Seq(Values)
      BY KeptFacts DEF RootsTyped
<1>1. /\ Reallocate(stack) /\ Len(compilers) > 1 /\ pc = "compile" /\ pc' = "append"
      /\ compilers' = front /\ stack' = Append(stack, last)
      /\ UNCHANGED <<open, globals, names>>
      /\ job'.held = {} /\ job'.made = Nil /\ job'.target = Last(front)
      /\ job'.items = <<<<last>>>> /\ job'.use = "constant"
      BY NoJobType DEF EndFunction, Jobs
<1>2. RefsLive' /\ Needed \subseteq Live' /\ Grows BY <1>1, ReallocateHeap
<1>3. /\ front \in Seq(Objects) /\ Len(front) = Len(compilers) - 1
      /\ \A i \in 1..(Len(compilers) - 1) : front[i] = compilers[i]
      BY <1>0, <1>1 DEF Front
<1>4. last = compilers[Len(compilers)] /\ last \in Objects BY <1>0, <1>1 DEF Last
<1>5. ToSet(compilers) = ToSet(front) \cup {last}
  <2>1. \A i \in 1..Len(compilers) : i \in 1..(Len(compilers) - 1) \/ i = Len(compilers)
        BY <1>0
  <2>2. \A v \in ToSet(compilers) : \E i \in 1..Len(compilers) : v = compilers[i]
        BY <1>0, Elements
  <2>3. \A i \in 1..Len(front) : front[i] \in ToSet(front) BY <1>3, Elements
  <2>4. \A v \in ToSet(front) : \E i \in 1..Len(front) : v = front[i] BY <1>3, Elements
  <2>5. /\ \A i \in 1..Len(compilers) : compilers[i] \in ToSet(compilers)
        /\ Len(compilers) \in 1..Len(compilers)
        BY <1>0, <1>1, Elements
  <2>6. ToSet(compilers) \subseteq ToSet(front) \cup {last}
        BY <1>3, <1>4, <2>1, <2>2, <2>3
  <2>7. ToSet(front) \subseteq ToSet(compilers) BY <1>0, <1>3, <2>4, <2>5
  <2> QED BY <1>4, <2>5, <2>6, <2>7
<1>6. Last(front) \in ToSet(front) /\ Last(front) \in Objects
  <2>1. Len(front) \in 1..Len(front) BY <1>0, <1>1, <1>3
  <2>2. ToSet(front) \subseteq Objects BY <1>3, Elements
  <2> QED BY <1>3, <2>1, <2>2, Elements DEF Last
<1> HIDE DEF last, front
<1>7. ToSet(stack') = ToSet(stack) \cup {last} BY <1>0, <1>1, <1>4, AppendElements DEF Values
<1>8. RootsOf(stack)' = RootsOf(stack) BY <1>1, <1>5, <1>7 DEF RootsOf
<1>9. RootsLive' BY <1>0, <1>2, <1>8 DEF RootsLive
<1>10. last \in RootsOf(stack)' /\ Last(front) \in RootsOf(stack)'
       BY <1>1, <1>4, <1>6, <1>7, HeapAssumption DEF RootsOf
<1>11. \A i \in 1..Len(job'.items) : ToSet(job'.items[i]) \subseteq {last}
       BY <1>1 DEF ToSet
<1>12. HeldBy(Needed \cup RootsOf(stack)') BY <1>1, <1>10, <1>11 DEF HeldBy
<1>13. Held' \subseteq Needed' BY <1>2, <1>8, <1>12, GrowingHeld
<1>14. UsesKept' BY <1>1, <1>6 DEF UsesKept
<1>15. FillingKept' BY <1>1, <1>7, <1>10, <1>11 DEF FillingKept
<1> QED BY <1>1, <1>2, <1>9, <1>13, <1>14, <1>15 DEF Kept, HeapOK

LEMMA ConstantAddedKept ==
    ASSUME Kept, Shape', ConstantAdded
    PROVE  Kept'
<1>0. /\ RootsTyped /\ stack \in Seq(Values) /\ RootsOf(stack) \subseteq Live
      /\ ToSet(stack) \subseteq RootsOf(stack) \cup {Nil} /\ open \subseteq RootsOf(stack)
      BY KeptFacts
<1>1. /\ Filling /\ job.use = "constant" /\ stack' = Drop(1) /\ pc' = "compile"
      /\ job' = NoJob /\ heap' = heap /\ UNCHANGED <<open, static>>
      BY DEF ConstantAdded, Filling
<1>2. Len(stack) = 1 BY <1>1 DEF Kept, Shape, Control, FillingOK
<1>3. 1 \in 0..Len(stack) BY <1>2
<1>4. ToSet(stack') \subseteq ToSet(stack) BY <1>0, <1>1, <1>3, Slots
<1>5. RefsLive' /\ Live' = Live BY <1>1, SameHeap
<1>6. RootsBy(Live) BY <1>0, <1>1, <1>4 DEF RootsBy
<1>7. RootsLive' BY <1>0, <1>5, <1>6, RootsNext DEF RootsLive
<1> QED BY <1>1, <1>5, <1>7, IdleKept

(* The script leaves the compiler for the stack, or is lost. *)
LEMMA EndCompileKept ==
    ASSUME Kept, Shape', EndCompile
    PROVE  Kept'
<1>0. /\ RootsTyped /\ RootsOf(stack) \subseteq Needed BY KeptFacts
<1>1. /\ Reallocate(stack) /\ pc = "compile" /\ stack = <<>> /\ job = NoJob
      /\ compilers' = <<>> /\ UNCHANGED <<open, globals, names>>
      BY DEF EndCompile, Kept, Shape, Control, CompilingOK, JobOK
<1>2. RefsLive' /\ Needed \subseteq Live' /\ Grows BY <1>1, ReallocateHeap
<1>3. ToSet(compilers') = {} /\ ToSet(stack) = {} BY <1>1 DEF ToSet
<1>4. CASE /\ stack' = compilers /\ pc' = "closure"
           /\ job' = [NoJob EXCEPT !.drop = 1, !.height = 1, !.held = ToSet(compilers)]
  <2>1. RootsOf(stack)' = RootsOf(stack) BY <1>1, <1>3, <1>4 DEF RootsOf
  <2>2. RootsLive' BY <1>0, <1>2, <2>1 DEF RootsLive
  <2>3. /\ job'.held = ToSet(compilers) /\ job'.made = Nil /\ job'.target = Nil
        /\ job'.items = <<>> /\ job'.use = "result"
        BY <1>4, NoJobType DEF Jobs
  <2>4. ToSet(compilers) \subseteq RootsOf(stack)
    <3>1. ToSet(compilers) \subseteq Objects BY <1>0, Elements DEF RootsTyped
    <3> QED BY <3>1, HeapAssumption DEF RootsOf
  <2>5. HeldBy(Needed \cup RootsOf(stack)') BY <2>1, <2>3, <2>4 DEF HeldBy
  <2>6. Held' \subseteq Needed' BY <1>2, <2>1, <2>5, GrowingHeld
  <2>7. UsesKept' BY <2>3 DEF UsesKept
  <2>8. FillingKept' BY <1>4 DEF FillingKept, Filling
  <2> QED BY <1>2, <1>4, <2>2, <2>3, <2>6, <2>7, <2>8 DEF Kept, HeapOK
<1>5. CASE pc' = "idle" /\ UNCHANGED <<stack, job>>
  <2>1. RootsOf(stack)' \subseteq RootsOf(stack) BY <1>1, <1>3, <1>5 DEF RootsOf
  <2>2. RootsLive' BY <1>0, <1>2, <2>1 DEF RootsLive
  <2> QED BY <1>1, <1>2, <1>5, <2>2, IdleKept
<1> QED BY <1>4, <1>5 DEF EndCompile

LEMMA CompileKept ==
    ASSUME Kept, Shape', CompileStep
    PROVE  Kept'
BY BeginCompileKept, BeginFunctionKept, EmitByteKept, StringConstantKept, EndFunctionKept,
   ConstantAddedKept, EndCompileKept DEF CompileStep

(* Natives: the name and the native are on the stack until vm.globals has them. *)
LEMMA NewNativeKept ==
    ASSUME Kept, Shape', NEW o \in Objects, NewNative(o)
    PROVE  Kept'
<1>0. /\ RootsTyped /\ stack \in Seq(Values) /\ job \in Jobs /\ RootsOf(stack) \subseteq Needed
      /\ Held \subseteq Needed
      BY KeptFacts
<1>1. /\ Allocate(stack, "native", Nil, o) /\ stack' = Append(stack, o) /\ pc = "native"
      /\ pc' = "find" /\ job' = [job EXCEPT !.use = "nativeName", !.target = o]
      /\ UNCHANGED <<open, static>>
      BY DEF NewNative
<1>2. RefsLive' /\ Needed \subseteq Live' /\ o \in Live' /\ Grows
      BY <1>1, AllocateHeap DEF Kinds
<1>3. ToSet(stack') = ToSet(stack) \cup {o} BY <1>0, <1>1, AppendElements DEF Values
<1>4. RootsOf(stack)' = RootsOf(stack) \cup {o}
      BY <1>1, <1>3, HeapAssumption DEF RootsOf, static
<1>5. RootsLive' BY <1>0, <1>2, <1>4 DEF RootsLive
<1>6. job.held = {} /\ job.made = Nil
      BY <1>1 DEF Kept, HeapOK, UsesKept, Shape, Control, OthersOK, JobOK
<1>7. /\ job'.held = {} /\ job'.made = Nil /\ job'.target = o /\ job'.items = job.items
      /\ job'.use = "nativeName"
      BY <1>0, <1>1, <1>6 DEF Jobs, Uses, Values
<1>8. \A i \in 1..Len(job.items) : ToSet(job.items[i]) \subseteq Needed \cup {Nil}
      BY <1>0, HeldHas
<1>9. HeldBy(Needed \cup RootsOf(stack)') BY <1>4, <1>7, <1>8 DEF HeldBy
<1>10. Held' \subseteq Needed' BY <1>2, <1>4, <1>9, GrowingHeld
<1>11. UsesKept' BY <1>7 DEF UsesKept
<1> QED BY <1>1, <1>2, <1>5, <1>10, <1>11, WorkingKept

LEMMA RegisterKept ==
    ASSUME Kept, Shape', RegisterStep
    PROVE  Kept'
<1>0. /\ RootsTyped /\ stack \in Seq(Values) /\ RootsOf(stack) \subseteq Live
      /\ RootsOf(stack) \subseteq Needed /\ ToSet(stack) \subseteq RootsOf(stack) \cup {Nil}
      BY KeptFacts
<1>1. ASSUME NEW c \in Contents, BeginNative(c) PROVE Kept'
  <2>1. /\ UNCHANGED <<heap, stack, open, static>> /\ pc' = "find"
        /\ job'.held = {} /\ job'.made = Nil /\ job'.target = Nil /\ job'.items = <<>>
        /\ job'.use = "global"
        BY <1>1, NoJobType DEF BeginNative, Jobs, roots
  <2>2. RefsLive' /\ Live' = Live /\ Grows BY <2>1, SameHeap
  <2>3. RootsOf(stack)' = RootsOf(stack) BY <2>1 DEF RootsOf, static
  <2>4. RootsLive' BY <1>0, <2>2, <2>3 DEF RootsLive
  <2>5. HeldBy(Needed \cup RootsOf(stack)') BY <2>1 DEF HeldBy
  <2>6. Held' \subseteq Needed' BY <2>2, <2>3, <2>5, GrowingHeld
  <2>7. UsesKept' BY <2>1 DEF UsesKept
  <2> QED BY <2>1, <2>2, <2>4, <2>6, <2>7, WorkingKept
<1>2. ASSUME NEW g \in Globals, RegisterNative(g) PROVE Kept'
  <2>1. /\ Reallocate(stack) /\ globals' = [globals EXCEPT ![g] = stack[2]]
        /\ names' = names \cup {stack[1]} /\ stack' = <<>> /\ UNCHANGED <<open, compilers>>
        /\ pc = "register" /\ pc' = "idle" /\ job' = NoJob
        BY <1>2 DEF RegisterNative
  <2>2. RefsLive' /\ Needed \subseteq Live' BY <2>1, ReallocateHeap
  <2>3. stack[1] \in ToSet(stack) /\ stack[2] \in ToSet(stack)
    <3>1. Len(stack) = 2 BY <2>1 DEF Kept, Shape, Control, OthersOK
    <3>2. 1 \in 1..Len(stack) /\ 2 \in 1..Len(stack) BY <3>1
    <3> QED BY <1>0, <3>2, Elements
  <2>4. Range(globals') \subseteq Range(globals) \cup {stack[2]}
        BY <1>0, <2>1 DEF Range, RootsTyped
  <2>5. ToSet(stack') = {} BY <2>1 DEF ToSet
  <2>6. RootsOf(stack)' \subseteq RootsOf(stack)
        BY <1>0, <2>1, <2>3, <2>4, <2>5, RootsParts DEF RootsOf
  <2>7. RootsLive' BY <1>0, <2>2, <2>6 DEF RootsLive
  <2> QED BY <2>1, <2>2, <2>7, IdleKept
<1> QED BY <1>1, <1>2, NewNativeKept DEF RegisterStep

-----------------------------------------------------------------------------

LEMMA InitKept == Init => Kept
<1> SUFFICES ASSUME Init PROVE Kept OBVIOUS
<1>1. Shape /\ job \in Jobs BY InitShape, NoJobType DEF Init
<1>2. RefsLive /\ UsesKept /\ FillingKept
      BY NoJobType DEF Init, RefsLive, Live, Free, New, UsesKept, FillingKept, Filling
<1>3. RootsLive
  <2>1. ToSet(stack) = {} /\ ToSet(compilers) = {} BY DEF Init, ToSet
  <2>2. Range(globals) \subseteq {Nil} BY DEF Init, Range
  <2> QED BY <2>1, <2>2 DEF Init, RootsLive, RootsOf
<1>4. Held = {}
  <2>1. ToSet(job.items) = {} BY NoJobType DEF Init, ToSet
  <2> QED BY <2>1, NoJobType DEF Init, Held
<1> QED BY <1>1, <1>2, <1>3, <1>4 DEF Init, Kept, HeapOK

LEMMA NextKept == KeepsOperands /\ Kept /\ NamesOK /\ [Next]_vars => Kept'
<1> SUFFICES ASSUME KeepsOperands, Kept, NamesOK, [Next]_vars PROVE Kept' OBVIOUS
<1>1. Shape' BY NextShape DEF Kept
<1>2. CASE Next
      BY <1>1, <1>2, InstructionKept, StringKept, BuildKept, ClosureKept, CompileKept,
         RegisterKept DEF Next
<1>3. CASE UNCHANGED vars
  <2>1. UNCHANGED <<heap, stack, open, static, pc, job>> BY <1>3 DEF vars, roots
  <2> QED BY <1>1, <2>1 DEF Kept, HeapOK, RefsLive, RootsLive, RootsOf, static, Live, Held,
             Needed, References, FillingKept, Filling, UsesKept
<1> QED BY <1>2, <1>3

LEMMA AlwaysKept == KeepsOperands => (Spec => []Kept)
<1> SUFFICES ASSUME KeepsOperands PROVE Spec => []Kept OBVIOUS
<1>1. Init => Kept BY InitKept
<1>2. Kept /\ NamesOK /\ [Next]_vars => Kept' BY NextKept
<1> QED BY <1>1, <1>2, AlwaysNames, PTL DEF Spec

(* In a program that keeps in a variable what it indexes, no collection frees    *)
(* what the program can reach, or what the C code between two allocations of     *)
(* copyString, the array and map instructions, the natives, closures and the     *)
(* compiler still has a pointer to.                                              *)
THEOREM NothingDangles == KeepsOperands => (Spec => []NoDangling)
<1> SUFFICES ASSUME KeepsOperands PROVE Spec => []NoDangling OBVIOUS
<1>1. Kept => NoDangling BY KeptFacts DEF NoDangling
<1> QED BY <1>1, AlwaysKept, PTL

(* However deep the compiler is in nested functions, the functions being compiled *)
(* are alive with their names and constants: markCompilerRoots marks them all.    *)
THEOREM CompilationSurvives == KeepsOperands => (Spec => []CompilationKept)
<1> SUFFICES ASSUME KeepsOperands PROVE Spec => []CompilationKept OBVIOUS
<1>1. Kept => CompilationKept
  <2> SUFFICES ASSUME Kept PROVE CompilationKept OBVIOUS
  <2>1. MemoryOK /\ RootsTyped /\ stack \in Seq(Values) /\ Needed \subseteq Live BY KeptFacts
  <2>2. ToSet(compilers) \in SUBSET Objects BY <2>1, Elements DEF RootsTyped
  <2>3. ToSet(compilers) \subseteq RootsOf(stack) BY <2>2, HeapAssumption DEF RootsOf
  <2>4. References \in [Objects -> SUBSET Objects] /\ RootsOf(stack) \in SUBSET Objects
        BY <2>1, ReferencesType, RootsType
  <2>5. Reachable(ToSet(compilers), References) \subseteq Reachable(RootsOf(stack), References)
        BY <2>2, <2>3, <2>4, ReachableGrows
  <2> QED BY <2>1, <2>5 DEF CompilationKept, Needed
<1> QED BY <1>1, AlwaysKept, PTL
=============================================================================
