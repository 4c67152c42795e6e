# Verification of nyx

nyx is a small scripting language: a one-pass compiler to bytecode, a stack
virtual machine with closures, a mark-sweep garbage collector and a hash table
that serves as globals, string interner and user maps. The program has one
thread; what makes it hard is that *any allocation may run the collector*, so
every function that allocates is interleaved with a collection, and that the
compiler, the stack and the upvalues must agree on which value is in which
slot without ever checking it at run time.

Paths such as `vm.c:354` below are in `src/src/`, headers in
`src/include/nyx/`, documents in `src/docs/`.

## Inventory

| Component | State | Operations | Interacts with | Must hold |
|---|---|---|---|---|
| Hash table, `vm/table.c` | `entries`, `capacity`, `count` | get, set, delete, find string, grow, remove white keys | called by the VM (globals, maps) and by the interner; growing it allocates, so it may call the collector, which calls it back | behaves as a finite map; probes end; `count` counts what the load check needs |
| Collector, `memory/gc.c`, `memory/memory.c` | `vm.objects`, mark bits, gray stack, byte count | mark roots, trace, clear the interner, sweep | called by every growing `reallocate` | frees nothing reachable, everything else; leaves no mark |
| Objects, `vm/object.c`, `vm/value.c` | `vm.strings`, the heap | allocate, copy, take, intern, new closure / upvalue / array / map | called by the VM, the natives, the compiler | what C code still uses stays reachable; one string per content |
| VM stack, frames, upvalues, `vm/vm.c` | `stack`, `frames`, `openUpvalues`, `globals` | instructions, call, return, capture, close, runtime error | executes compiled chunks; the collector reads its roots | closures see variables, not copies; frames do not overlap |
| VM arrays, maps, strings, `vm/vm.c` | as above | index, build, concatenate | allocator, hash table | operands stay rooted while it allocates |
| Compiler, scopes and statements, `compiler/compiler.c` | `locals`, `scopeDepth`, `loop`, the chunk | declarations, blocks, loops, break, continue, jumps | its bytecode assumes a stack height at every instruction | the stack has that height on every path |
| Compiler, upvalue resolution | `upvalues`, `isCaptured` | resolveUpvalue, addUpvalue | OP_CLOSURE's operands | each captured variable listed once, marked captured |
| Compiler, expressions and error recovery | parser, panic mode, bytes of the chunk | Pratt table, jumps, synchronize | takes tokens from the scanner; its bytes are what `run()` reads | exactly the sentences compile, and their code does what their tree says; every compilation ends |
| Compiler as a root set | chain of compilers, constants | markCompilerRoots, addConstant | collector in the middle of a compile | functions under construction survive |
| Natives, `stdlib/natives.c` | none | 15 functions | allocator, stack | temporaries pushed are popped; a native's name outlives its start-up |
| Scanner, `lexer/scanner.c` | `start`, `current`, `line` | scanToken | called by the parser, which keeps pointers into the text | the longest lexemes, in order, each with its line; never past the end |
| Disassembler, `debug/debug.c` | none | steps through a chunk | reads the compiler's bytes | lists the instructions that run |
| Command line and REPL, `main.c` | none | interprets a file, or line after line | VM | a line may follow one that failed |

Hard behaviours: a collection in the middle of an operation, in particular of
the interner's own growth; long sequences of sets and deletes (tombstones);
variables that outlive their frame; an error that cuts an operation short in a
session that goes on; jumps out of scopes. There are no threads, no
persistence and no messages, so no hazards of those kinds. The hazards are
listed one by one, with their lines, under `"hazards"` in PROJECT.json.

## Modules

| Module | Models | Correspondence |
|---|---|---|
| `Dict` | what a `Table` promises | a function from keys to values, one call at a time, and a sweep that drops unmarked keys |
| `HashTable` | `table.c` | one step per loop iteration; `scan` is the locals of `findEntry`, `fresh` and `i` those of `adjustCapacity`, `white` the unmarked keys of a collection in progress; keys are interned strings, so `tableFindString` looks for the key itself |
| `MCHashTable` | instance | four keys, hashes that collide and wrap |
| `HashTableProofs` | proofs about `HashTable`, and that it implements `Dict` | |
| `Reachability` | which objects roots reach | |
| `MarkSweep` | `gc.c`, `memory.c` | one object per step; `roots` is the sequence `markRoots` comes to (stack, frames, open upvalues, globals), `gray` the gray stack, `at` the position in the root walk and in the object list |
| `MarkSweepProofs` | proofs about `MarkSweep` | |
| `Heap` (`MCHeap`) | `object.c`, the allocating instructions and natives, the natives' registration, and the compiler as a user of the heap | one step from one allocation to the next; a collection is one step (`Collected`), which is what `MarkSweep` is proved to do; `job` is the C locals of the operation; `compilers` is the chain that `markCompilerRoots` walks, `names` the keys of `vm.globals`, and `name` in an object the string a native holds, which `blackenObject` does not mark |
| `HeapProofs` | proofs about `Heap` | |
| `LexicalCells` | what closures mean | cells without a stack |
| `ClosureVM` | `vm.c`: stack, frames, upvalues | one instruction per step, one captured variable per step in OP_CLOSURE; `cell` and `cellOf` are ghosts that name the variable in a slot and behind an upvalue |
| `ClosureVMProofs` | proofs about `ClosureVM`, and that it implements `LexicalCells` | |
| `Scopes` | `compiler.c`: statements and scopes, and the run of the code | first the statements are compiled, then the code is executed with either outcome of every condition; `height` in an instruction is what the compiler believed; ghosts: `base` and `at` in a loop are the locals outside of its body and its place in `nest`, `depth` in a statement its scope |
| `ScopesProofs` | proofs about `Scopes` | |
| `LexicalScope` | what a name denotes | the scopes around a point of the source and their variables, with nothing of slots or functions' frames |
| `Resolver` | `compiler.c`: locals, upvalues and the chain of compilers | one piece of source per step; `compilers` is the chain headed by `current`; `access` is the operand that `namedVariable` emits, and `variable` in a local the declaration it stands for (ghost) |
| `ResolverProofs` | proofs about `Resolver` | |
| `LexicalProofs` | proof that `Resolver` implements `LexicalScope` | |
| `Bytecode` | the bytes of a chunk | `emitJump`, `patchJump`, `emitLoop`, `READ_SHORT` and the disassembler's steps, as operators on byte sequences |
| `BytecodeProofs` | proofs about `Bytecode` | |
| `Grammar` | `docs/grammar.ebnf` for expressions, expression statements and `var` | the sentences over an alphabet up to a length, each with its tree |
| `Expressions` (`MCExpressions`) | `compiler.c`: the Pratt parser, what it emits, errors and `synchronize` | `calls` is the C stack of `parsePrecedence`, `binary`, `and_`, `argumentList` ...; the scanner gives any token next. `Performed` runs the bytes as `vm.c` does, `Denote` evaluates the tree |
| `Lexemes` | the lexical grammar | a source is trivia and longest lexemes in turn |
| `Scanner` (`MCScanner`) | `scanner.c`, `unescapeString` | one turn of a loop per step; offsets count from 0 as in the code |

How they compose: `HashTable` implements `Dict` (INSTANCE with the map read off
the slots); `ClosureVM` implements `LexicalCells` (INSTANCE with each slot and
each upvalue mapped to its cell); `Resolver` implements `LexicalScope`
(INSTANCE with each local mapped to the variable it was declared for) and gives
`ClosureVM` its captures; `Scanner` implements `Lexemes` (INSTANCE with the
tokens so far), and `Expressions` takes from it any sequence of tokens;
`Expressions` emits and runs the bytes of `Bytecode`; `Heap` and `MarkSweep` share `Reachability`,
and `Heap` takes as one step what `MarkSweep` does in many. The collector's
deletes inside a growth are in `HashTable` itself (`Sweep`).

Abstractions. Values that hold no reference are one value (`Nil`) in `Heap`
and a small set in `ClosureVM`; characters are model values; arithmetic is any
result; in `ClosureVM` the bytecode is any sequence of instructions that the
compiler's discipline allows (locals at the bottom of the frame, one value on
top at a declaration or return), and that the compiler keeps to it is what
`Scopes` shows. In `Scopes` an expression is one instruction that pushes,
jumps name an instruction rather than a byte, and an initializer of a `for`
that is an expression is left to the expression statement before the loop.
When `bytesAllocated` passes `nextGC` is not modelled: a collection may come at
any allocation, as with `NYX_STRESS_GC`, and may also not come. The natives
that have no rooting of their own (`str`, `type`, `slice`, `join`) are one
operation, a copy. In `Resolver` an identifier is one of a few names and an
initializer is the accesses made in it. In `Expressions` tokens have a type
and no text, operators stay uninterpreted (two codes are the same if they
apply the same operators to the same operands in the same order, with the same
assignments, calls and short cuts), and what was emitted before an error is
forgotten, because `compile()` then returns NULL. In `Scanner` a character is a
string of one character, and `Letters` and `Digits` are those that the
keywords and the sources have.

## Runs

| Run | Shows | Bounds and why they suffice |
|---|---|---|
| `hash_table` | types, count, load bound, probes within a lap, entries reachable, `Dict` implemented, every call and sweep ends | capacity 4 growing to 8 and 16 (`MinCapacity` is 8 in the code: 4 keeps the same 3/4 load and gets to tombstones and growth with four keys); hashes collide and wrap around; nil and true, which mark empty slots and tombstones, are also values |
| `closure_vm` | types, sorted open list, live open upvalues, `LexicalCells` implemented (which also needs frames that do not overlap) | two frames, two closures, one capture each, three slots per frame: sharing a variable, capturing through an enclosing closure, closing by scope and by return all occur. `Cells` (identities for the ghosts) has seven: five slots and two captured variables never need more |
| `closure_vm_error` | finding: an upvalue outlives a runtime error | as above, with another line interpreted after the error |
| `closure_vm_depth` | finding: the stack is overrun | two frames of two slots, a stack of four, two temporaries in a frame |
| `mark_sweep` | types, nothing needed freed, tri-colour, gray once, marks cleared, interner live, garbage freed, collections end | three objects, one a string, three roots: chains, cycles, sharing, self references and an object that is root twice |
| `heap` | types, no dangling pointer, interning, temporaries popped; functions under construction with their constants survive, and so do natives' names | four objects that are used again after they are freed, two contents. `Programs` is three kinds of program, each with all the operations that can meet in it: one that runs (three objects), a session that compiles a chain of three functions (four objects: the chain, and a literal), and the start that registers natives |
| `heap_indexing` | finding: an operand popped before the allocation | as `heap`, with the operations needed |
| `scopes` | types with jumps that land on an instruction, slots match locals, upvalues closed | functions of four statements nested three deep, three locals, any header of `for`, script and function |
| `scopes_exits` | finding: break and continue leave locals behind | as `scopes`, two deep |
| `resolver` | types with both limits of 256, captured locals marked, no variable listed twice, `LexicalScope` implemented | three names and three declarations: shadowing in one function and across functions, a use in its own initializer, a parameter captured; functions nested four deep with the script: an upvalue passed through two functions in between; room for three locals and two upvalues: both limits are met |
| `expressions` | what compiles is a sentence and does what its tree says; what is rejected is no sentence, or passed a limit; the disassembler lists the instructions that run; every compilation returns | six vocabularies of tokens (`MCSources`), each as long as its constructs need: calls, indices and assignments (6 tokens); every level of precedence (7); declarations, maps and lexical errors (6); jumps (12); constants (8); lists (9). `UINT8_COUNT` is 3, so that a byte, a constant index, a list and a 16-bit jump (9 values) reach their limits in so few tokens; the code has it at 256 and uses it in the same places |
| `scanner` | types, never past the end; escapes read twice mean one thing; `Lexemes` implemented | every text of up to 7 characters over those of comments, 6 over those of strings, 5 over numbers, names and symbols and over a mix of kinds, all pairs of symbols, and each keyword with what is one character away: nested comments need 6 characters (`/*/*` ... ) to go wrong, an escape at the end of the source 2 |

`CHECK_DEADLOCK FALSE` where the system really stops or a bound stops it:
`ClosureVM` ends at a runtime error (a file that is run exits with 70) and at
its bounds on temporaries and the stack; `Heap` has no object left to allocate
(`reallocate` exits with 74); `Scopes` ends when the function has returned, at
a compile error (exit 65), or at its bound on statements; `Resolver` at its
bounds and at a compile error; `Expressions` when `compile()` has returned;
`Scanner` at TOKEN_EOF. `HashTable` and
`MarkSweep` are checked for deadlock.

Symmetry (`MCHeap`): objects and contents are only compared, and the property
is safety. The other runs use none; those with liveness could not.

Two constants say what kind of program a run is about, because the code does
not keep a promise for all programs (see the findings): `KeepsOperands`, that
what is indexed is also in a variable, and `CleanExits`, that `break` and
`continue` are used where the body of the loop has no local in scope. The
passing runs show that the rest of the code is right for such programs; the
violation runs show what happens otherwise.

Every property of a passing run has a mutant: a definition with a plausible
bug in it (the operators under a comment "Mutant" or "as a bug would have
it"), which the property must catch under the same configuration.

## Fairness

`HashTable` and `MarkSweep` state weak fairness of the steps inside a call,
`Expressions` and `Scanner` of every step: all are plain calls on one thread,
which run to their return. The caller of `HashTable` is under no fairness: it
may never make another call. A sweep cannot starve a table call, for an
allocation collects at most once. In `Expressions` fairness does not say that
the source ends by itself: sources are finite, and after their last token the
scanner gives TOKEN_EOF as often as it is asked (`scanner.c:174`); that the
parser stops asking is what `CompileReturns` shows. `Lexemes` asks that the end
is reached, as `Scanner` does with its fairness.

## Findings

Each was reproduced with the compiled program.

- `break` and `continue` do not discard the locals of the body
  (`compiler.c:762-783`); later locals read the wrong slot.
- `OP_SET_INDEX` on a map pops the map, key and value before the table may grow
  and collect (`vm.c:354-361`): a use after free.
- `OP_GET_INDEX` on a string pops it before the allocation of the copy
  (`vm.c:346-353`, `220`): a use after free.
- `runtimeError` drops the open upvalues without closing them (`vm.c:15-19`);
  a closure kept in a global reads a stale slot from the next line of a
  session.
- `push` has no bound (`vm.c:60-63`) and the limit on frames does not bound the
  stack: deep calls with temporaries write past `vm.stack`.

Two more places where the code and its documents disagree were met on the way.
No run is about them, and the models say what the code does:

- `string()` takes the character behind a backslash without looking at it
  (`scanner.c:160`): a newline there is not counted, and every later token has
  a line too low. `docs/internals.md:57-58` says that each token carries its
  line. `LexemeLines` counts as the code does.
- A statement that begins with `{` is a block, so `{"a": 1};` is rejected,
  which `exprStmt` of `docs/grammar.ebnf` allows. The sources of `Expressions`
  have no `{` where a statement begins.

## Proofs

`HashTableProofs`, for any finite or infinite set of keys, any hash function
and any minimal capacity of at least 2. The inductive invariant `IInv` adds to
the types and to `CountOK`: the load bound in a form that survives a growth
(`Loaded`), where each loop can be (`Control`), that the part of the old array
already moved is in the new one and nothing else is (`Moved`), that each live
entry is on its probe path in the array and in the one being filled (`Paths`),
and that what `findEntry` has crossed holds neither its key nor an empty slot
(`Scanned`). Probe paths alone are not inductive: a store keeps them only
because the scan has seen no other copy of the key, and a lap is impossible
only because the load leaves an empty slot (`FullLap`, by counting). From it
follow `TypeOK`, `CountOK`, `LoadBounded`, `ProbeWithinLap` and `Reachable`.

That the table implements `Dict` (`TableIsMap`) needs two more invariants: the
new array of a growth holds the entries of the slots moved so far with their
values, and no others (`Carried`), and a sweep has left no unmarked key in the
slots it has passed (`Dropped`). A step inside a loop then maps to a stutter,
and the one that ends a call to the call of the map: a growth changes nothing
in it because of `Carried`, and `findEntry` answers for it because of `Scanned`
and `Paths`.

`HeapProofs`, for any finite set of objects, any contents, globals, stack bound
and programs (`HeapAssumption`), in three inductive invariants that build on
each other. `Shape` says of each place where the C code may be between two
allocations what its locals hold and how high the stack is; from it follow
`TypeOK` and the action property `TemporariesPopped`. `NamesOK` says that the
interner has every string but the one just made, and that a native's name is a
key of `vm.globals` or in the first slot of the stack: `StringsInterned` and
`NativeNamesLive`. `Kept` is the one about collections: what the C code still has
a pointer to (`Held`) is among what the roots reach (`Needed`), what is reached
is alive, and each operation that fills an object or uses an operand finds it
on the stack, in a constant, in a compiler or in a variable. `NoDangling` alone
is not inductive: that an object is alive now says nothing after the next
collection. The step that matters is a collection in the middle (`Collected`): it
keeps what is needed, and the references of what it keeps. From `Kept` follow
`NoDangling` and `CompilationKept`, under `KeepsOperands`; without it they are
false, which is what the run `heap_indexing` shows.

`MarkSweepProofs`, for any finite set of objects, any references and any roots.
`IInv` says, phase by phase, which objects are marked: the roots walked so far
(`RootsMarked`), the closure of what is marked and not gray (`Marking`), and
during the sweep that the objects before `at` are kept and unmarked while those
ahead are marked exactly if they are needed (`Sweeping`). The step that matters
is the end of the trace: the marked set holds the roots and is closed, so it
holds all that is reachable (`NeededWithin`, from `Reachable` as the least
closed set), and it never held more. From it follow `TypeOK`,
`NothingNeededFreed`, `TriColour`, `GrayOnce`, `MarksCleared`, `InternerLive`
and the action property `GarbageFreed`.

`ClosureVMProofs`, for any values, names, cells and bounds. `OpenListSorted`
and `OpenUpvaluesLive` are not inductive: what a return or the end of a scope
closes depends on which slots hold variables. `IInv` says that the frames lie
one above the other (`FramesOK`), that what slots, globals and upvalues hold
exists (`ValuesOK`), that the slots of variables and no others have identities,
no two the same (`CellsOK`), that the list goes down the stack through
variables' slots (`ListOK`), that a variable has one upvalue at most, which is
listed while the variable is in a slot (`OwnersOK`), and that only an error
leaves an open upvalue off the list (`AllListed`). A step keeps the slots below
some point and replaces those above it, and cuts the list there (`NewSlots`,
`Cut`); `StepKeeps` concludes for four of the parts, and each action's lemma
finds the point: a return at the callee's slot, a call above the callee, the end
of a scope at the local, an assignment at the end of the variables. The insertion
of a captured variable is the exception (`CaptureNewInv`): that the walk of
`captureUpvalue` stops at the right place is where the order comes from. From
`IInv` follow `TypeOK` and `OpenListSorted`, and `OpenUpvaluesLive` under the
hypothesis that the session ends at its first error; without it that is false,
and the run `closure_vm_error` shows what follows.

That the machine implements `LexicalCells` (`CellsImplemented`) has the same
hypothesis. The refinement says what the abstract machine sees: of a frame and
of a closure, the cells of its variables (`FramesMeant`, `ClosuresMeant`); of
the store, the value in the slot of a variable that is still on the stack and
that of its upvalue when it is not (`StoreMeant`). `CInv` adds to `IInv` that every
upvalue is some closure's (`Owned`), for the abstract machine takes as a new
cell one that nothing of it refers to, and these have to be the identities that
are free here (`CellsInUse`). Each instruction has a lemma that finds the
abstract step (`PushMeans`, `SetUpvalueMeans` ...), a stutter only where
OP_CLOSURE has no capture left to make. The steps that matter are those in which a
variable changes its place without changing its value: the end of a scope and a
return, which take slots away after the upvalues that pointed at them were
closed (`VariablesLeave`), a capture, which gives a variable a second way to it
(`UpvalueAdded`), and a call, where the arguments, values until now, become
cells (`CallFrames`, `CallStore`).

`ResolverProofs`, for any names, none of them empty, and any limits. What the
pairs of a function refer to (`Captures`) is a recursion over the compilers
around it, so `IInv` speaks of one link of it: each pair has its marked local or
its upvalue in the next compiler (`LinkOK`), no pair is in an array twice
(`CompilerOK`), and no two locals stand for the same declaration (`Declared`).
That a pair leads to a marked local of a function further out (`Refers`), and two
pairs to two variables (`Injective`), follows by taking the outermost compiler
where it fails. The step that matters is a use of a name through several
functions (`UseUpvalueInv`): the pairs each of them gets and the mark on the local
come in one step, and what was there before is where it was (`AddUpvalueOf`). At
the end of a function its variables become those of a closure, and are marked
because its pairs lead to marked locals (`EndFunctionInv`). From `IInv` follow
`TypeOK`, `CapturedMarked` and `UpvaluesDistinct`.

`LexicalProofs` goes on from there: whatever a use of a name is compiled to, it
reaches the variable that the scopes of the source say (`NamesAreLexical`). The
scopes are read off the locals of all compilers, one after the other
(`OpenScopes`), so `LInv` adds to `IInv` that the locals of a compiler are in the
order of their scopes, that a scope has no name twice (`ScopesOK`), and that no
local but the last of the innermost function waits for its initializer (`Nested`).
Each action then changes the last of the scopes, opens one or closes one: the
scopes are compared one by one, each as what it says of its locals (`Describes`).
The step that matters is again a use through several functions
(`UseUpvalueStep`): the search of `resolveLocal` from the last local backwards
ends in the innermost scope that has the name (`LastIsFound`), the functions in
between have no local of that name (`FoundFrom`), and the pairs lead from one to
the next out to just that local (`LeadsToLocal`, from `UseUpvalueReaches`).

`ScopesProofs`, for any bounds. That local n is in slot n is said of code that
runs, but has to be kept while the code is written, most of it inside statements
that are not complete. `IInv` says of the code (`Flow`) that each instruction and
the one after it, and the target of a jump, were emitted for heights of the stack
that fit; of the statements the parser is inside of (`EntriesOK`, `LoopsOK`) at
which heights the jumps stand that they are still to patch, and at which height
the position is where their loop goes back to; and that every jump without a
target belongs to one of them (`AllOwned`). These heights are numbers of locals
within a scope (`Within`), so that what is true of a statement stays true while
scopes inside of it come and go. Each statement's code is a piece with a height at
either end (`Piece`), which `Emitted` appends and `Patched` completes, and
`CoherentStep` with its cases (entered, complete, a loop, a break) keeps what the
other statements have to do. The step that matters is a jump that is patched: its
statement says that its height is the one at the end of the code. From `IInv`
follow `TypeOK`, with every jump landing in the code, and `SlotsMatchLocals` for
sources that leave a loop only where its body has no local (`CleanExits`); for
all others `NeverShort`: an instruction finds too many values, never too few. The
run `scopes_exits` shows the first to be false without the hypothesis.

That no upvalue stays open on a slot that is given up (`UpvaluesAreClosed`, also
for `CleanExits`: a `break` from a body with a captured local leaves it open) is
not about heights, but about ways through the code. The invariant `TInv` says
that there is a set of slots for each instruction which holds every slot that
may be open when it starts, whatever way the run came: the sets follow each
instruction to the next one and to where it jumps, a closure adds what it
captures, only OP_CLOSE_UPVALUE takes a slot out, and OP_POP never meets the slot
it removes (`Tracks`, `Opens`). For the finished code that is all the run needs
(`RunTraced`). While the code is written the difficulty is that the parser
learns that a local is captured only when it meets the closure, after code, and
jumps back over code, that was emitted for a local that was not. So the invariant
also has the place where each local came to be: from there on, until its scope
ends, nothing pops it, and no jump that stays within its life goes back before
that place (`Alive`). A capture then adds the slot to all the sets from that
place on at once (`Capturing`), and the end of its scope, which is the only place
that gives up the slot, emits OP_CLOSE_UPVALUE because the mark is there by then
(`Ending`). A jump that waits for its target was emitted where no local younger
than its statement was alive (`Waits`), so the sets fit when it is patched. TLC
found these sets on the instance of the run before the proof was written.

`BytecodeProofs`, for bytes of any width of at least two values: a jump that
`patchJump` has not reported lands at the end of the code it was patched in
(`JumpLandsWherePatched`, and from `emitJump` on in `EmittedJumpLands`), later
patches leave it there (`PatchesApart`), and OP_LOOP goes back to where the
loop starts (`LoopLandsAtStart`). All rest on `Shorts`: two bytes hold every
number up to `UINT16_MAX`, so the limit is exact, neither one less nor one
more. The `expressions` run has bytes of three values; that jumps land does
not depend on it.

Assumptions are the named ASSUMEs on the constants, which TLC evaluates in the
runs, and `KeepsOperands` and `CleanExits` where a theorem has them as its
hypothesis. Only model-checked: liveness (`CallsReturn`, `CollectionEnds`,
`CompileReturns`) and everything about `Expressions` and `Scanner`, with the
refinement of `Lexemes`. Out of the prover's reach are the liveness properties,
and what recursions and folds over code and text compute (`Performed`, `Denote`,
`Listed`, `Phrases`, `Items`, `StringsMean`): induction over data takes a
predicate as a parameter, which none of the provers can instantiate, and their
SMT solver is not available in a module that declares a recursive operator.

## Not modelled

- What values look like when they are printed (`value.c`, `printObject`,
  `debug.c`), usage messages, reading files and exit codes (`main.c`): text and
  I/O that no state depends on.
- The operands of OP_CLOSURE in the bytes (`closureInstruction`): functions are
  in `Scopes`, `Resolver` and `ClosureVM`, with jumps and operands that are not
  bytes, and `Expressions` has no functions.
- What characters `find`, `slice`, `split` and `join` return: their allocations
  and roots are in `Heap`, their index arithmetic is not. (For a negative end
  `nativeSlice` copies nothing, from an address before the string.)
- Numbers: how they are read, added and printed.
- The capacity of a table or an array past 2^30, where doubling an `int`
  overflows (`memory.h:12`): the memory of the program is gone long before.
- `freeVM` and `freeObjects` at exit, and the exit when memory is out.

## Plan

1. Done: hash table, collector, rooting, closures, scopes, with the first two
   proof modules.
2. Done: `Heap` with the compiler's roots and the natives' start-up; upvalue
   resolution; expressions, jumps as bytes and error recovery; the scanner.
3. Done: proofs for the jumps, for the heap, for the machine's upvalues, for the
   resolution of names and for scopes and the upvalues closed at their ends; that
   `HashTable` implements `Dict`, `ClosureVM` implements `LexicalCells` and
   `Resolver` implements `LexicalScope`, step by step.
4. Left to model checking: `Expressions`, `Scanner`, and liveness, for the reasons
   given under Proofs.
