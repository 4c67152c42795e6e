-------------------------------- MODULE Heap --------------------------------
(***************************************************************************)
(* Which objects the C code keeps reachable while it allocates:            *)
(* src/vm/object.c, the allocating instructions of src/vm/vm.c, the        *)
(* natives of src/stdlib/natives.c and how they are registered, and the    *)
(* functions and constants of a compilation in src/compiler/compiler.c.    *)
(* Every call of reallocate() that asks for more memory may collect, and   *)
(* a step here goes from one such call to the next.  A collection is one   *)
(* step of this module; MarkSweep shows what it keeps and frees.           *)
(* A value that is no object of the heap (a number, a boolean, nil) is Nil, *)
(* and so is what a run does not track: the function of a closure that     *)
(* OP_CLOSURE makes, the name of a global that OP_DEFINE_GLOBAL sets.       *)
(***************************************************************************)
EXTENDS Naturals, SequencesExt, Reachability

CONSTANTS
    Objects,         \* what the allocator can return; a freed one is used again
    Contents,        \* the characters of a string
    Nil,             \* a value that is no object of the heap, or no content
    Globals,         \* names of global variables
    MaxStack,        \* bound on the slots the program fills
    MaxPieces,       \* bound on the pieces split() cuts a string into
    MaxCaptures,     \* bound on the variables a closure captures
    MaxNesting,      \* bound on the functions being compiled at once
    Programs,        \* what a program does: its operations, the objects it has room for
    KeepsOperands    \* does the program keep in a variable what it indexes?

ASSUME HeapAssumption ==
    /\ IsFiniteSet(Objects) /\ Nil \notin Objects /\ Nil \notin Contents
ASSUME BoundsAssumption ==
    /\ {MaxStack, MaxPieces, MaxCaptures, MaxNesting} \subseteq Nat /\ KeepsOperands \in BOOLEAN
    /\ \A p \in Programs : p.room \in Nat

VARIABLES
    heap,            \* [Objects -> [kind, content, refs, name]]; kind "free" is no object
    strings,         \* vm.strings, the interner
    stack,           \* vm.stack up to vm.stackTop
    open,            \* vm.openUpvalues
    globals,         \* the values of vm.globals
    names,           \* the names that vm.globals has as keys
    compilers,       \* the functions of the chain of compilers; the last is current's
    program,         \* the member of Programs that is run
    pc,              \* where the C code is between two allocations
    job              \* the C locals of the operation in progress

static == <<globals, names, compilers, program>>
roots == <<stack, open, static>>
vars == <<heap, strings, roots, pc, job>>

Values == Objects \cup {Nil}
New(kind, content) == [kind |-> kind, content |-> content, refs |-> {}, name |-> Nil]
Free == New("free", Nil)

Live == {o \in Objects : heap[o].kind # "free"}
Is(v, kind) == v # Nil /\ heap[v].kind = kind
References == [o \in Objects |-> heap[o].refs]

(* Mutant: of the functions being compiled, only the innermost is marked. *)
RootsCurrentOnly(s) ==
    (ToSet(s) \cup Range(globals) \cup names \cup open
       \cup {compilers[i] : i \in {Len(compilers)} \ {0}}) \ {Nil}

(* Mutant: markTable leaves the keys out. *)
RootsNoKeys(s) == (ToSet(s) \cup Range(globals) \cup open \cup ToSet(compilers)) \ {Nil}

(* What markRoots marks: the stack, the open upvalues, the globals with their  *)
(* names, and the functions being compiled.  The closure of a frame is also in *)
(* the frame's first slot.                                                     *)
RootsOf(s) == (ToSet(s) \cup Range(globals) \cup names \cup open \cup ToSet(compilers)) \ {Nil}
Needed == Reachable(RootsOf(stack), References)

NoJob == [drop |-> 0, height |-> 0, content |-> Nil, use |-> "result", took |-> FALSE, held |-> {},
          made |-> Nil, target |-> Nil, items |-> <<>>, pieces |-> <<>>]

Init ==
    /\ heap = [o \in Objects |-> Free] /\ strings = {}
    /\ stack = <<>> /\ open = {} /\ globals = [g \in Globals |-> Nil] /\ names = {}
    /\ compilers = <<>> /\ program \in Programs
    /\ pc = "idle" /\ job = NoJob

-----------------------------------------------------------------------------

Peek(n) == stack[Len(stack) - n]
Drop(n) == SubSeq(stack, 1, Len(stack) - n)
Idle(operation, n) ==
    /\ pc = "idle" /\ operation \in program.operations
    /\ Len(stack) >= n /\ Len(stack) - n < MaxStack

(* An operation that takes n slots and leaves one begins, with the locals j. *)
Start(n, j) == job' = [j EXCEPT !.height = Len(stack) - n + 1]

(* It ends: what it still has on the stack s gives way to its result. *)
Finish(s, result) ==
    /\ stack' = Append(SubSeq(s, 1, Len(s) - job.drop), result)
    /\ pc' = "idle" /\ job' = NoJob

(* The values v have other references than the top n slots. *)
KeptElsewhere(v, n) == v \subseteq Reachable(RootsOf(Drop(n)), References) \cup {Nil}

(* The heap that reallocate() leaves while the stack is s: it may collect, and *)
(* a table or an array that has room for one more does not call it at all.    *)
Collected(s) ==
    [o \in Objects |-> IF o \in Reachable(RootsOf(s), References) THEN heap[o] ELSE Free]
Memories(s) == {heap, Collected(s)}

(* Mutant: the interner keeps what the collection frees. *)
InternedStill(h) == strings

(* tableRemoveWhiteKeys: the interner loses what the collection frees. *)
Interned(h) == {o \in strings : h[o].kind # "free"}

Reallocate(s) == \E h \in Memories(s) : heap' = h /\ strings' = Interned(h)

Room(h) == Cardinality({o \in Objects : h[o].kind # "free"}) < program.room

(* allocateObject, with the stack s. *)
Allocate(s, kind, content, o) ==
    \E h \in Memories(s) :
        /\ h[o].kind = "free" /\ Room(h)
        /\ heap' = [h EXCEPT ![o] = New(kind, content)]
        /\ strings' = Interned(h)

-----------------------------------------------------------------------------
(* Operations that allocate nothing. *)

(* OP_CONSTANT, OP_GET_LOCAL, OP_GET_GLOBAL, OP_GET_UPVALUE, OP_NIL ... *)
Load(v) ==
    /\ Idle("load", 0)
    /\ v \in Needed \cup {Nil} /\ ~Is(v, "upvalue")
    /\ stack' = Append(stack, v)
    /\ UNCHANGED <<heap, strings, open, static, pc, job>>

Pop ==
    /\ Idle("load", 1)
    /\ stack' = Drop(1)
    /\ UNCHANGED <<heap, strings, open, static, pc, job>>

(* An array's element, or a map's value, is replaced. *)
Replaced(o, old, new) == [heap EXCEPT ![o].refs = (@ \ old) \cup (new \ {Nil})]

(* OP_GET_INDEX of an array or a map: the result is one of its references. *)
GetIndex(v) ==
    /\ Idle("index", 2)
    /\ Is(Peek(1), "array") \/ (Is(Peek(1), "map") /\ Is(Peek(0), "string"))
    /\ v \in heap[Peek(1)].refs \cup {Nil}
    /\ stack' = Append(Drop(2), v)
    /\ UNCHANGED <<heap, strings, open, static, pc, job>>

(* OP_SET_INDEX of an array, all of whose elements exist. *)
SetIndexArray(old) ==
    /\ Idle("index", 3) /\ Is(Peek(2), "array") /\ Peek(1) = Nil
    /\ old \in heap[Peek(2)].refs \cup {Nil}
    /\ heap' = Replaced(Peek(2), {old}, {Peek(0)})
    /\ stack' = Append(Drop(3), Peek(0))
    /\ UNCHANGED <<strings, open, static, pc, job>>

(* runtimeError(), from any instruction whose operands are wrong. *)
RuntimeError ==
    /\ Idle("error", 1)
    /\ stack' = <<>> /\ open' = {}
    /\ UNCHANGED <<heap, strings, static, pc, job>>

(* OP_SET_GLOBAL: tableSet checks the load of vm.globals before it looks for  *)
(* the name, so an assignment to a global that exists may grow it too.        *)
SetGlobal(g) ==
    /\ Idle("global", 1)
    /\ Reallocate(stack)
    /\ globals' = [globals EXCEPT ![g] = Peek(0)]
    /\ UNCHANGED <<stack, open, names, compilers, program, pc, job>>

(* OP_DEFINE_GLOBAL: vm.globals may grow while the value is on the stack. *)
DefineGlobal(g) ==
    /\ Idle("global", 1)
    /\ Reallocate(stack)
    /\ globals' = [globals EXCEPT ![g] = Peek(0)]
    /\ stack' = Drop(1)
    /\ UNCHANGED <<open, names, compilers, program, pc, job>>

-----------------------------------------------------------------------------
(* Strings: copyString, takeString and allocateString. *)

(* What the caller of copyString does with the string, the stack being s: a   *)
(* result of the program takes the place of its operands, the message of a    *)
(* failing native is printed, a piece of split() goes on top of the array it  *)
(* is for, a constant or the name of a native is pushed, and the name of a    *)
(* function or of a native is stored in it.                                   *)
Deliver(s, string) ==
    \/ /\ job.use = "result" /\ Finish(s, string)
       /\ UNCHANGED <<heap, open>>
    \/ /\ job.use = "message"
       /\ stack' = <<>> /\ open' = {} /\ pc' = "idle" /\ job' = NoJob
       /\ UNCHANGED heap
    \/ /\ job.use \in {"piece", "constant"}
       /\ stack' = Append(s, string) /\ pc' = "append"
       /\ job' = [job EXCEPT !.items = <<<<string>>>>, !.made = Nil]
       /\ UNCHANGED <<heap, open>>
    \/ /\ job.use = "global"
       /\ stack' = Append(s, string) /\ pc' = "native" /\ job' = [job EXCEPT !.made = Nil]
       /\ UNCHANGED <<heap, open>>
    \/ /\ job.use = "functionName"
       /\ heap' = [heap EXCEPT ![job.target].refs = @ \cup {string}]
       /\ stack' = s /\ pc' = "compile" /\ job' = NoJob
       /\ UNCHANGED open
    \/ /\ job.use = "nativeName"
       /\ heap' = [heap EXCEPT ![job.target].name = string]
       /\ stack' = s /\ pc' = "register" /\ job' = [job EXCEPT !.made = Nil]
       /\ UNCHANGED open

(* A native that returns a copy of some characters: str, type, slice, join. *)
BeginCopy(c) ==
    /\ Idle("copy", 2) /\ Peek(1) = Nil
    /\ Start(2, [NoJob EXCEPT !.drop = 2, !.content = c])
    /\ pc' = "find"
    /\ UNCHANGED <<heap, strings, roots>>

(* nativeErrorf(): the message is copied into a string while the operands are  *)
(* still there, and runtimeError prints it.                                     *)
NativeFails(c) ==
    /\ Idle("copy", 2) /\ Peek(1) = Nil
    /\ Start(2, [NoJob EXCEPT !.drop = 2, !.content = c, !.use = "message"])
    /\ pc' = "find"
    /\ UNCHANGED <<heap, strings, roots>>

(* concatenate(): the characters are allocated first, then taken. *)
BeginConcatenate(c) ==
    /\ Idle("concatenate", 2) /\ Is(Peek(0), "string") /\ Is(Peek(1), "string")
    /\ Start(2, [NoJob EXCEPT !.drop = 2, !.content = c, !.took = TRUE,
                 !.held = {Peek(0), Peek(1)}])
    /\ Reallocate(stack)
    /\ pc' = "find"
    /\ UNCHANGED roots

(* OP_GET_INDEX of a string: it pops the string, and then copies from it. *)
BeginGetIndexString(c) ==
    /\ Idle("indexString", 2) /\ Is(Peek(1), "string") /\ Peek(0) = Nil
    /\ KeepsOperands => KeptElsewhere({Peek(1)}, 2)
    /\ Start(2, [NoJob EXCEPT !.content = c, !.held = {Peek(1)}])
    /\ stack' = Drop(2)
    /\ pc' = "find"
    /\ UNCHANGED <<heap, strings, open, static>>

(* Mutant: the interner is not asked. *)
FindNothing ==
    /\ pc = "find"
    /\ pc' = (IF job.took THEN "object" ELSE "characters")
    /\ UNCHANGED <<heap, strings, roots, job>>

(* tableFindString on the interner, which may still hold garbage. *)
Find ==
    /\ pc = "find"
    /\ \/ \E s \in strings :
            /\ heap[s].content = job.content
            /\ Deliver(stack, s)
       \/ /\ \A s \in strings : heap[s].content # job.content
          /\ pc' = (IF job.took THEN "object" ELSE "characters")
          /\ UNCHANGED <<heap, stack, open, job>>
    /\ UNCHANGED <<strings, static>>

(* copyString allocates the characters, and copies from what it was given. *)
AllocateCharacters ==
    /\ pc = "characters"
    /\ Reallocate(stack)
    /\ pc' = "object"
    /\ UNCHANGED <<roots, job>>

(* Mutant: the new string is not pushed while vm.strings grows. *)
AllocateStringUnrooted(o) ==
    /\ pc = "object"
    /\ Allocate(stack, "string", job.content, o)
    /\ stack' = Append(stack, Nil)
    /\ pc' = "intern"
    /\ job' = [job EXCEPT !.held = {}, !.made = o]
    /\ UNCHANGED <<open, static>>

(* allocateString pushes the new string while vm.strings may grow ... *)
AllocateString(o) ==
    /\ pc = "object"
    /\ Allocate(stack, "string", job.content, o)
    /\ stack' = Append(stack, o)
    /\ pc' = "intern"
    /\ job' = [job EXCEPT !.held = {}, !.made = o]
    /\ UNCHANGED <<open, static>>

(* ... and pops it once it is in there. *)
GrowInterner ==
    /\ pc = "intern"
    /\ Reallocate(stack)
    /\ pc' = "interned"
    /\ UNCHANGED <<roots, job>>

Intern ==
    /\ pc = "interned"
    /\ strings' = strings \cup {job.made}
    /\ Deliver(Drop(1), job.made)
    /\ UNCHANGED static

-----------------------------------------------------------------------------
(* Arrays and maps that are filled while their elements are on the stack. *)

(* A new object is pushed and will be given the items. *)
BeginBuild(n, kind, items, o) ==
    /\ Allocate(stack, kind, Nil, o)
    /\ stack' = Append(stack, o)
    /\ Start(n, [NoJob EXCEPT !.drop = n + 1, !.target = o, !.items = items])
    /\ pc' = "append"
    /\ UNCHANGED <<open, static>>

Array(n, o) ==
    /\ Idle("array", n)
    /\ BeginBuild(n, "array", [i \in 1..n |-> <<Peek(n - i)>>], o)

Map(n, o) ==
    /\ Idle("map", 2 * n)
    /\ BeginBuild(2 * n, "map",
                  [i \in 1..n |-> <<Peek(2 * (n - i) + 1), Peek(2 * (n - i))>>], o)

(* keys(): the strings of the table, in some order. *)
Keys(K, o) ==
    /\ Idle("keys", 2) /\ Peek(1) = Nil /\ Is(Peek(0), "map")
    /\ K \subseteq heap[Peek(0)].refs /\ \A k \in K : Is(k, "string")
    /\ \E keys \in SetToSeqs(K) :
           BeginBuild(2, "array", [i \in DOMAIN keys |-> <<keys[i]>>], o)

(* push(): the array is an argument. *)
NativePush ==
    /\ Idle("push", 3) /\ Peek(2) = Nil /\ Is(Peek(1), "array")
    /\ Start(3, [NoJob EXCEPT !.drop = 3, !.target = Peek(1),
                 !.items = <<<<Peek(0)>>>>])
    /\ pc' = "append"
    /\ UNCHANGED <<heap, strings, roots>>

(* pop(): the last element, which may be in the array once more. *)
NativePop(v) ==
    /\ Idle("push", 2) /\ Peek(1) = Nil /\ Is(Peek(0), "array")
    /\ v \in heap[Peek(0)].refs \cup {Nil}
    /\ \/ heap' = Replaced(Peek(0), {v}, {})
       \/ UNCHANGED heap
    /\ stack' = Append(Drop(2), v)
    /\ UNCHANGED <<strings, open, static, pc, job>>

(* split(): each piece is copied, pushed, appended and popped. *)
Split(pieces, o) ==
    /\ Idle("split", 3) /\ Peek(2) = Nil /\ Is(Peek(1), "string") /\ Is(Peek(0), "string")
    /\ Allocate(stack, "array", Nil, o)
    /\ stack' = Append(stack, o)
    /\ Start(3, [NoJob EXCEPT !.drop = 4, !.target = o, !.pieces = pieces,
                 !.content = Head(pieces), !.use = "piece"])
    /\ pc' = "find"
    /\ UNCHANGED <<open, static>>

(* The key of a pair is not a string: "Map keys must be strings." *)
BadKey == Len(Head(job.items)) = 2 /\ ~Is(Head(job.items)[1], "string")

BuildFails ==
    /\ pc = "append" /\ job.items # <<>> /\ BadKey
    /\ stack' = <<>> /\ open' = {}
    /\ pc' = "idle" /\ job' = NoJob
    /\ UNCHANGED <<heap, strings, static>>

(* writeValueArray or tableSet makes room ... *)
Grow ==
    /\ pc = "append" /\ job.items # <<>> /\ ~BadKey
    /\ Reallocate(stack)
    /\ pc' = "store"
    /\ UNCHANGED <<roots, job>>

(* ... and stores.  A pair may replace the value of its key in a map. *)
Store(old) ==
    /\ pc = "store"
    /\ old = Nil \/ (Is(job.target, "map") /\ old \in heap[job.target].refs)
    /\ heap' = Replaced(job.target, {old}, ToSet(Head(job.items)))
    /\ pc' = "append"
    /\ job' = [job EXCEPT !.items = Tail(@)]
    /\ UNCHANGED <<strings, roots>>

(* Mutant: split() leaves its pieces on the stack. *)
PieceKept ==
    /\ pc = "append" /\ job.items = <<>> /\ Len(job.pieces) > 1
    /\ pc' = "find"
    /\ job' = [job EXCEPT !.pieces = Tail(@), !.content = job.pieces[2]]
    /\ UNCHANGED <<heap, strings, roots>>

(* split() pops the piece it has stored, and goes on to the next. *)
PieceDone ==
    /\ pc = "append" /\ job.items = <<>> /\ Len(job.pieces) > 1
    /\ stack' = Drop(1)
    /\ pc' = "find"
    /\ job' = [job EXCEPT !.pieces = Tail(@), !.content = job.pieces[2]]
    /\ UNCHANGED <<heap, strings, open, static>>

(* The array or the map takes the place of the operands. *)
BuildDone ==
    /\ pc = "append" /\ job.items = <<>> /\ Len(job.pieces) <= 1 /\ job.use # "constant"
    /\ Finish(Drop(Len(job.pieces)), job.target)
    /\ UNCHANGED <<heap, strings, open, static>>

(* OP_SET_INDEX of a map pops its operands, and then tableSet may grow. *)
BeginSetIndexMap ==
    /\ Idle("indexMap", 3) /\ Is(Peek(2), "map") /\ Is(Peek(1), "string")
    /\ KeepsOperands => KeptElsewhere({Peek(0), Peek(1), Peek(2)}, 3)
    /\ Start(3, [NoJob EXCEPT !.target = Peek(2), !.held = {Peek(1), Peek(0)} \ {Nil},
                 !.items = <<<<Peek(1), Peek(0)>>>>])
    /\ stack' = Drop(3)
    /\ Reallocate(Drop(3))
    /\ pc' = "put"
    /\ UNCHANGED <<open, static>>

SetIndexMap(old) ==
    /\ pc = "put" /\ old \in heap[job.target].refs \cup {Nil}
    /\ heap' = Replaced(job.target, {old}, ToSet(job.items[1]))
    /\ Finish(stack, job.items[1][2])
    /\ UNCHANGED <<strings, open, static>>

-----------------------------------------------------------------------------
(* Closures. *)

(* newClosure allocates the array of upvalues, all NULL ... *)
BeginClosure ==
    /\ Idle("closure", 0)
    /\ Start(0, NoJob)
    /\ Reallocate(stack)
    /\ pc' = "closure"
    /\ UNCHANGED roots

(* ... and the closure, which OP_CLOSURE pushes before it captures.  interpret() *)
(* pushes it in the place of the script's function, which captures nothing.      *)
NewClosure(o) ==
    /\ pc = "closure"
    /\ \E h \in Memories(stack) :
          /\ h[o].kind = "free" /\ Room(h)
          /\ heap' = [h EXCEPT ![o] = [New("closure", Nil) EXCEPT !.refs = job.held]]
          /\ strings' = Interned(h)
    /\ stack' = Append(Drop(job.drop), o)
    /\ pc' = "capture"
    /\ job' = [job EXCEPT !.target = o]
    /\ UNCHANGED <<open, static>>

Capturing == pc = "capture" /\ job.drop = 0 /\ Cardinality(heap[job.target].refs) < MaxCaptures

(* captureUpvalue finds an open upvalue, or the closure of the frame has it. *)
CaptureExisting(u) ==
    /\ Capturing /\ Is(u, "upvalue")
    /\ u \in open \/ \E v \in ToSet(stack) : Is(v, "closure") /\ u \in heap[v].refs
    /\ heap' = Replaced(job.target, {}, {u})
    /\ UNCHANGED <<strings, roots, pc, job>>

(* newUpvalue, while the closure is on the stack with its array part filled. *)
CaptureNew(u) ==
    /\ Capturing
    /\ \E h \in Memories(stack) :
          /\ h[u].kind = "free" /\ Room(h)
          /\ heap' = [h EXCEPT ![u] = New("upvalue", Nil), ![job.target].refs = @ \cup {u}]
          /\ strings' = Interned(h)
    /\ open' = open \cup {u}
    /\ UNCHANGED <<stack, static, pc, job>>

ClosureDone ==
    /\ pc = "capture" /\ pc' = "idle" /\ job' = NoJob
    /\ UNCHANGED <<heap, strings, roots>>

(* OP_CLOSE_UPVALUE: the variable moves from the top of the stack into u. *)
CloseUpvalue(u) ==
    /\ Idle("closure", 1) /\ u \in open
    /\ heap' = Replaced(u, {}, {Peek(0)})
    /\ open' = open \ {u}
    /\ stack' = Drop(1)
    /\ UNCHANGED <<strings, static, pc, job>>

-----------------------------------------------------------------------------
(* Compiling, and running what was compiled. *)

(* compile() starts when nothing runs: initCompiler of the script. *)
BeginCompile(o) ==
    /\ Idle("compile", 0) /\ stack = <<>>
    /\ Allocate(stack, "function", Nil, o)
    /\ compilers' = <<o>> /\ pc' = "compile"
    /\ UNCHANGED <<stack, open, globals, names, program, job>>

(* initCompiler of a function: it joins the chain, and then its name is copied. *)
BeginFunction(c, o) ==
    /\ pc = "compile" /\ Len(compilers) < MaxNesting
    /\ Allocate(stack, "function", Nil, o)
    /\ compilers' = Append(compilers, o)
    /\ job' = [NoJob EXCEPT !.content = c, !.use = "functionName", !.target = o]
    /\ pc' = "find"
    /\ UNCHANGED <<stack, open, globals, names, program>>

(* emitByte, when the code of the current function has to grow. *)
EmitByte ==
    /\ pc = "compile"
    /\ Reallocate(stack)
    /\ UNCHANGED <<roots, pc, job>>

(* identifierConstant and string(): the characters become a constant. *)
StringConstant(c) ==
    /\ pc = "compile"
    /\ job' = [NoJob EXCEPT !.content = c, !.use = "constant", !.target = Last(compilers)]
    /\ pc' = "find"
    /\ UNCHANGED <<heap, strings, roots>>

(* endCompiler of a function, after which function() makes it a constant of the *)
(* enclosing one: addConstant pushes it while the constants may grow.           *)
EndFunction ==
    /\ pc = "compile" /\ Len(compilers) > 1
    /\ Reallocate(stack)
    /\ compilers' = Front(compilers)
    /\ stack' = Append(stack, Last(compilers))
    /\ job' = [NoJob EXCEPT !.use = "constant", !.target = Last(Front(compilers)),
               !.items = <<<<Last(compilers)>>>>]
    /\ pc' = "append"
    /\ UNCHANGED <<open, globals, names, program>>

(* addConstant has stored the constant, and pops it. *)
ConstantAdded ==
    /\ pc = "append" /\ job.items = <<>> /\ job.use = "constant"
    /\ stack' = Drop(1)
    /\ pc' = "compile" /\ job' = NoJob
    /\ UNCHANGED <<heap, strings, open, static>>

(* endCompiler of the script.  interpret() pushes the function and makes its   *)
(* closure; after an error in the source compile() returns NULL and it is lost. *)
EndCompile ==
    /\ pc = "compile" /\ Len(compilers) = 1
    /\ Reallocate(stack)
    /\ compilers' = <<>>
    /\ \/ /\ stack' = compilers /\ pc' = "closure"
          /\ job' = [NoJob EXCEPT !.drop = 1, !.height = 1, !.held = ToSet(compilers)]
       \/ pc' = "idle" /\ UNCHANGED <<stack, job>>
    /\ UNCHANGED <<open, globals, names, program>>

-----------------------------------------------------------------------------
(* registerNatives, before anything is compiled. *)

(* defineNative() pushes the name ... *)
BeginNative(c) ==
    /\ Idle("native", 0) /\ stack = <<>> /\ names = {}
    /\ job' = [NoJob EXCEPT !.content = c, !.use = "global"]
    /\ pc' = "find"
    /\ UNCHANGED <<heap, strings, roots>>

(* ... and newNative() the native, while it looks for the same name again. *)
NewNative(o) ==
    /\ pc = "native"
    /\ Allocate(stack, "native", Nil, o)
    /\ stack' = Append(stack, o)
    /\ job' = [job EXCEPT !.use = "nativeName", !.target = o]
    /\ pc' = "find"
    /\ UNCHANGED <<open, static>>

(* tableSet, while defineNative has the name and the native on the stack. *)
RegisterNative(g) ==
    /\ pc = "register"
    /\ Reallocate(stack)
    /\ globals' = [globals EXCEPT ![g] = stack[2]]
    /\ names' = names \cup {stack[1]}
    /\ stack' = <<>> /\ pc' = "idle" /\ job' = NoJob
    /\ UNCHANGED <<open, compilers, program>>

-----------------------------------------------------------------------------

Instruction ==
    \/ \E v \in Values : Load(v) \/ GetIndex(v) \/ SetIndexArray(v)
    \/ Pop \/ RuntimeError
    \/ \E g \in Globals : SetGlobal(g) \/ DefineGlobal(g)

StringStep ==
    \/ \E c \in Contents :
           BeginCopy(c) \/ NativeFails(c) \/ BeginConcatenate(c) \/ BeginGetIndexString(c)
    \/ Find \/ AllocateCharacters \/ GrowInterner \/ Intern
    \/ \E o \in Objects : AllocateString(o)

BuildStep ==
    \/ \E n \in 0..MaxStack, o \in Objects : Array(n, o) \/ Map(n, o)
    \/ \E K \in SUBSET Objects, o \in Objects : Keys(K, o)
    \/ \E n \in 1..MaxPieces : \E pieces \in [1..n -> Contents], o \in Objects :
           Split(pieces, o)
    \/ NativePush \/ BuildFails \/ Grow \/ PieceDone \/ BuildDone
    \/ BeginSetIndexMap
    \/ \E old \in Values : Store(old) \/ SetIndexMap(old) \/ NativePop(old)

ClosureStep ==
    \/ BeginClosure \/ ClosureDone
    \/ \E o \in Objects : NewClosure(o) \/ CaptureExisting(o) \/ CaptureNew(o) \/ CloseUpvalue(o)

CompileStep ==
    \/ \E c \in Contents : StringConstant(c) \/ \E o \in Objects : BeginFunction(c, o)
    \/ \E o \in Objects : BeginCompile(o)
    \/ EmitByte \/ EndFunction \/ ConstantAdded \/ EndCompile

RegisterStep ==
    \/ \E c \in Contents : BeginNative(c)
    \/ \E o \in Objects : NewNative(o)
    \/ \E g \in Globals : RegisterNative(g)

Next == Instruction \/ StringStep \/ BuildStep \/ ClosureStep \/ CompileStep \/ RegisterStep

Spec == Init /\ [][Next]_vars

-----------------------------------------------------------------------------
(* Correctness. *)

(* The objects that the C code in progress is about to read or to return. *)
Held == (job.held \cup {job.target, job.made} \cup UNION {ToSet(i) : i \in ToSet(job.items)}) \ {Nil}

TypeOK ==
    /\ heap \in [Objects -> [kind : {"free", "string", "array", "map", "closure", "upvalue",
                                     "function", "native"},
                             content : Contents \cup {Nil}, refs : SUBSET Objects, name : Values]]
    /\ strings \subseteq {o \in Objects : heap[o].kind = "string"}
    /\ names \subseteq Objects /\ compilers \in Seq(Objects) /\ program \in Programs
    /\ open \subseteq {o \in Objects : heap[o].kind = "upvalue"}
    /\ stack \in Seq(Values)
    /\ globals \in [Globals -> Values]
    /\ pc \in {"idle", "find", "characters", "object", "intern", "interned", "append",
               "store", "put", "closure", "capture", "compile", "native", "register"}

(* No collection frees what the program can reach, or what the C code between *)
(* two allocations still has a pointer to: docs/internals.md:169-177.         *)
NoDangling == Needed \cup Held \subseteq Live

(* However deep the compiler is in nested functions, each of them is alive with *)
(* the name and the constants it has so far: markCompilerRoots.                  *)
CompilationKept == Reachable(ToSet(compilers), References) \subseteq Live

(* The collector does not mark the name of a native (gc.c:41), which printing it *)
(* reads: the name lives because the interner gave the global's key and the      *)
(* native the same string, and a key never leaves vm.globals.                    *)
NativeNamesLive ==
    \A o \in Live : Is(o, "native") /\ heap[o].name # Nil => heap[o].name \in Live

(* One live string per content, and no content missing from the interner: the *)
(* pointer comparison of valuesEqual and of every table lookup is string      *)
(* equality (docs/architecture.md:114-119).                                   *)
StringsInterned ==
    /\ \A s, r \in Live :
          /\ Is(s, "string") /\ Is(r, "string") /\ heap[s].content = heap[r].content
          => s = r
    /\ \A s \in Live : Is(s, "string") => s \in strings \cup {job.made}
    /\ strings \subseteq Live

(* An operation leaves one value in place of its operands: every temporary it *)
(* pushed to keep an object reachable has been popped.                        *)
TemporariesPopped ==
    [][pc # "idle" /\ pc' = "idle" => stack' = <<>> \/ Len(stack') = job.height]_vars
=============================================================================
