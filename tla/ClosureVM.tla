------------------------------ MODULE ClosureVM ------------------------------
(***************************************************************************)
(* src/vm/vm.c: the operand stack, the call frames and the open upvalues   *)
(* of the nyx virtual machine.  A step is one instruction of run(), except *)
(* OP_CLOSURE, whose loop captures one variable per step.  The bytecode is *)
(* not modelled: any instruction may come next that the compiler's scoping *)
(* discipline (compiler.c: locals are the bottom slots of a frame, one     *)
(* value is on top of them when a local is declared or a function returns, *)
(* a scope ends with nothing on top) allows.  The slots of a frame start   *)
(* at the callee, so local n of a frame is stack[slots + n].               *)
(***************************************************************************)
EXTENDS Naturals, Sequences, FiniteSets, SequencesExt

CONSTANTS
    Data,            \* the values that are not closures, Nil among them
    Nil,             \* NIL_VAL
    Globals,         \* names of global variables
    Undefined,       \* a global that is not in vm.globals
    MaxFrames,       \* NYX_MAX_CALL_FRAMES
    MaxLocals,       \* slots of a frame the compiler can address (256)
    MaxStack,        \* NYX_MAX_STACK: MaxFrames frames of MaxLocals slots
    MaxArity,        \* bound on the parameters of the functions explored
    Cells,           \* ghost: identities of variables; a bound on those in use
    NoCell,          \* ghost: the identity of a slot that is no variable
    MaxClosures,     \* bound on the closures created
    MaxCaptures,     \* bound on the variables a closure captures
    MaxTemps,        \* bound on the temporaries of a frame; the compiler has none
    StackBound,      \* bound on the stack explored; push() has none
    ContinueOnError  \* does the session run another line after an error?

ASSUME DataAssumption == Nil \in Data /\ Undefined \notin Data /\ NoCell \notin Cells
ASSUME BoundsAssumption ==
    /\ {MaxFrames, MaxLocals, MaxArity, MaxClosures, MaxCaptures, MaxTemps,
        StackBound} \subseteq Nat
    /\ MaxStack = MaxFrames * MaxLocals
    /\ ContinueOnError \in BOOLEAN

VARIABLES
    status,          \* "idle" between programs, "running", or "failed"
    stack,           \* vm.stack up to vm.stackTop
    frames,          \* vm.frames: closure, slots, and the compiler's local count
    openUpvalues,    \* vm.openUpvalues, from its head
    upvalues,        \* every ObjUpvalue created: its location (0 once closed) and closed value
    closures,        \* every ObjClosure created: arity and upvalues
    capturing,       \* inside the loop of OP_CLOSURE
    globals,         \* vm.globals
    cell,            \* ghost: the identity of the variable in each slot, or NoCell
    cellOf           \* ghost: the identity of the variable each upvalue stands for

ghosts == <<cell, cellOf>>
heap == <<openUpvalues, upvalues, closures>>
vars == <<status, stack, frames, openUpvalues, upvalues, closures, capturing, globals,
          cell, cellOf>>

Script == 0
Values == Data \cup (1..MaxClosures)

Depth == Len(frames)
Top == frames[Depth]
StackTop == Len(stack)
Peek(n) == stack[StackTop - n]

(* The values above the locals of the running frame. *)
Temps == StackTop - (Top.slots + Top.locals - 1)

Upvalues(c) == IF c = Script THEN <<>> ELSE closures[c].upvalues
Open(u) == upvalues[u].location # 0

(* A variable that is declared gets an identity that no other has. *)
FreeCells == Cells \ (ToSet(cell) \cup ToSet(cellOf))
FreeCell == CHOOSE c \in FreeCells : TRUE
FreshCells(n) == {cs \in [1..n -> FreeCells] : IsInjective(cs)}

Init ==
    /\ status = "idle" /\ stack = <<>> /\ frames = <<>>
    /\ openUpvalues = <<>> /\ upvalues = <<>> /\ closures = <<>>
    /\ capturing = FALSE
    /\ globals = [g \in Globals |-> Undefined]
    /\ cell = <<>> /\ cellOf = <<>>

Running == status = "running" /\ ~capturing

-----------------------------------------------------------------------------
(* The stack. *)

(* push() has no check of its own: both bounds are of the exploration. *)
Push(v) ==
    /\ StackTop < StackBound /\ (Depth > 0 => Temps < MaxTemps)
    /\ stack' = Append(stack, v)
    /\ cell' = Append(cell, NoCell)

Truncate(n) ==
    /\ stack' = SubSeq(stack, 1, n)
    /\ cell' = SubSeq(cell, 1, n)

SetLocals(n) == frames' = [frames EXCEPT ![Depth].locals = n]

Constant(v) ==
    /\ Running /\ Push(v)
    /\ UNCHANGED <<status, frames, heap, capturing, globals, cellOf>>

(* OP_POP after an expression statement. *)
Pop ==
    /\ Running /\ Temps >= 1
    /\ Truncate(StackTop - 1)
    /\ UNCHANGED <<status, frames, heap, capturing, globals, cellOf>>

(* The binary operators, when they succeed with a value that is no closure. *)
Operate(v) ==
    /\ Running /\ Temps >= 2
    /\ stack' = Append(SubSeq(stack, 1, StackTop - 2), v)
    /\ cell' = SubSeq(cell, 1, StackTop - 1)
    /\ UNCHANGED <<status, frames, heap, capturing, globals, cellOf>>

GetLocal(n) ==
    /\ Running /\ n \in 1..(Top.locals - 1)
    /\ Push(stack[Top.slots + n])
    /\ UNCHANGED <<status, frames, heap, capturing, globals, cellOf>>

SetLocal(n) ==
    /\ Running /\ n \in 1..(Top.locals - 1) /\ Temps >= 1
    /\ stack' = [stack EXCEPT ![Top.slots + n] = Peek(0)]
    /\ UNCHANGED <<status, frames, heap, capturing, globals, ghosts>>

(* The compiler takes the value on top as a new local. *)
Declare ==
    /\ Running /\ Temps = 1 /\ Top.locals < MaxLocals /\ FreeCells # {}
    /\ SetLocals(Top.locals + 1)
    /\ cell' = [cell EXCEPT ![StackTop] = FreeCell]
    /\ UNCHANGED <<status, stack, heap, capturing, globals, cellOf>>

-----------------------------------------------------------------------------
(* Upvalues. *)

(* How many upvalues at the head of the list are above a slot: where the    *)
(* walks of captureUpvalue and closeUpvalues stop.                          *)
Above(slot) ==
    CHOOSE n \in 0..Len(openUpvalues) :
        /\ \A m \in 1..n : upvalues[openUpvalues[m]].location > slot
        /\ n < Len(openUpvalues) => upvalues[openUpvalues[n + 1]].location <= slot

(* closeUpvalues as a bug would have it: the upvalue keeps the slot's number. *)
CloseUpvaluesKeepSlot(last) ==
    LET n == Above(last - 1)
        closed == {openUpvalues[m] : m \in 1..n}
    IN  /\ openUpvalues' = SubSeq(openUpvalues, n + 1, Len(openUpvalues))
        /\ upvalues' = [u \in DOMAIN upvalues |->
                          IF u \in closed
                            THEN [location |-> 0, value |-> upvalues[u].location]
                            ELSE upvalues[u]]

(* ... and one that stops too early, at the upvalues above slot `last`. *)
CloseUpvaluesAbove(last) ==
    LET n == Above(last)
        closed == {openUpvalues[m] : m \in 1..n}
    IN  /\ openUpvalues' = SubSeq(openUpvalues, n + 1, Len(openUpvalues))
        /\ upvalues' = [u \in DOMAIN upvalues |->
                          IF u \in closed
                            THEN [location |-> 0, value |-> stack[upvalues[u].location]]
                            ELSE upvalues[u]]

(* closeUpvalues: the variables from slot `last` up move to their upvalues. *)
CloseUpvalues(last) ==
    LET n == Above(last - 1)
        closed == {openUpvalues[m] : m \in 1..n}
    IN  /\ openUpvalues' = SubSeq(openUpvalues, n + 1, Len(openUpvalues))
        /\ upvalues' = [u \in DOMAIN upvalues |->
                          IF u \in closed
                            THEN [location |-> 0, value |-> stack[upvalues[u].location]]
                            ELSE upvalues[u]]

AddUpvalue(u) ==
    closures' = [closures EXCEPT ![Len(closures)].upvalues = Append(@, u)]

(* captureUpvalue finds the open upvalue of the slot ... *)
CaptureShared(slot) ==
    LET n == Above(slot)
    IN  /\ n < Len(openUpvalues) /\ upvalues[openUpvalues[n + 1]].location = slot
        /\ AddUpvalue(openUpvalues[n + 1])
        /\ UNCHANGED <<openUpvalues, upvalues, cellOf>>

(* captureUpvalue as a bug would have it: the new upvalue becomes the head ... *)
CaptureAtHead(slot) ==
    LET n == Above(slot)
        u == Len(upvalues) + 1
    IN  /\ ~(n < Len(openUpvalues) /\ upvalues[openUpvalues[n + 1]].location = slot)
        /\ upvalues' = Append(upvalues, [location |-> slot, value |-> Nil])
        /\ openUpvalues' = <<u>> \o openUpvalues
        /\ AddUpvalue(u)
        /\ cellOf' = Append(cellOf, cell[slot])

(* ... and one that does not look for the slot's upvalue. *)
CaptureAlwaysNew(slot) ==
    LET n == Above(slot)
        u == Len(upvalues) + 1
    IN  /\ upvalues' = Append(upvalues, [location |-> slot, value |-> Nil])
        /\ openUpvalues' = InsertAt(openUpvalues, n + 1, u)
        /\ AddUpvalue(u)
        /\ cellOf' = Append(cellOf, cell[slot])

(* ... or creates one, and inserts it where its walk stopped. *)
CaptureNew(slot) ==
    LET n == Above(slot)
        u == Len(upvalues) + 1
    IN  /\ ~(n < Len(openUpvalues) /\ upvalues[openUpvalues[n + 1]].location = slot)
        /\ upvalues' = Append(upvalues, [location |-> slot, value |-> Nil])
        /\ openUpvalues' = InsertAt(openUpvalues, n + 1, u)
        /\ AddUpvalue(u)
        /\ cellOf' = Append(cellOf, cell[slot])

(* OP_CLOSURE pushes the closure before it captures anything, which may be   *)
(* the very slot of the closure when it is a local function.                 *)
Closure(arity, named) ==
    /\ Running /\ Len(closures) < MaxClosures
    /\ closures' = Append(closures, [arity |-> arity, upvalues |-> <<>>])
    /\ StackTop < StackBound /\ Temps < MaxTemps
    /\ stack' = Append(stack, Len(closures) + 1)
    /\ IF named
         THEN /\ Temps = 0 /\ Top.locals < MaxLocals /\ FreeCells # {}
              /\ SetLocals(Top.locals + 1)
              /\ cell' = Append(cell, FreeCell)
         ELSE cell' = Append(cell, NoCell) /\ UNCHANGED frames
    /\ capturing' = TRUE
    /\ UNCHANGED <<status, openUpvalues, upvalues, globals, cellOf>>

(* addUpvalue lists a variable once. *)
Listed(u) == u \in ToSet(Last(closures).upvalues)
SlotListed(slot) == \E u \in ToSet(Last(closures).upvalues) : upvalues[u].location = slot

CaptureLocal(n) ==
    /\ capturing /\ n \in 1..(Top.locals - 1)
    /\ Len(Last(closures).upvalues) < MaxCaptures /\ ~SlotListed(Top.slots + n)
    /\ CaptureShared(Top.slots + n) \/ CaptureNew(Top.slots + n)
    /\ UNCHANGED <<status, stack, frames, capturing, globals, cell>>

CaptureUpvalue(n) ==
    /\ capturing /\ n \in DOMAIN Upvalues(Top.closure)
    /\ Len(Last(closures).upvalues) < MaxCaptures /\ ~Listed(Upvalues(Top.closure)[n])
    /\ AddUpvalue(Upvalues(Top.closure)[n])
    /\ UNCHANGED <<status, stack, frames, openUpvalues, upvalues, capturing, globals, ghosts>>

ClosureDone ==
    /\ capturing /\ capturing' = FALSE
    /\ UNCHANGED <<status, stack, frames, heap, globals, ghosts>>

(* Through an upvalue: the slot it points at, or its own copy.  A slot that is *)
(* no longer on the stack holds whatever was left there.                       *)
GetUpvalue(n) ==
    /\ Running /\ n \in DOMAIN Upvalues(Top.closure)
    /\ LET u == upvalues[Upvalues(Top.closure)[n]]
       IN  \/ u.location = 0 /\ Push(u.value)
           \/ u.location \in 1..StackTop /\ Push(stack[u.location])
           \/ u.location > StackTop /\ \E v \in Data \cup DOMAIN closures : Push(v)
    /\ UNCHANGED <<status, frames, heap, capturing, globals, cellOf>>

SetUpvalue(n) ==
    /\ Running /\ n \in DOMAIN Upvalues(Top.closure) /\ Temps >= 1
    /\ LET u == Upvalues(Top.closure)[n]
       IN  \/ /\ upvalues[u].location = 0
              /\ upvalues' = [upvalues EXCEPT ![u].value = Peek(0)]
              /\ UNCHANGED stack
           \/ /\ upvalues[u].location \in 1..StackTop
              /\ stack' = [stack EXCEPT ![upvalues[u].location] = Peek(0)]
              /\ UNCHANGED upvalues
           \/ upvalues[u].location > StackTop /\ UNCHANGED <<stack, upvalues>>
    /\ UNCHANGED <<status, frames, openUpvalues, closures, capturing, globals, ghosts>>

(* The end of a local's scope: OP_POP for a local no closure captures, and   *)
(* OP_CLOSE_UPVALUE for one that some closure may have captured.             *)
EndScope ==
    /\ Running /\ Temps = 0
    /\ Top.locals > 1 + (IF Top.closure = Script THEN 0 ELSE closures[Top.closure].arity)
    /\ SetLocals(Top.locals - 1)
    /\ Truncate(StackTop - 1)
    /\ UNCHANGED <<status, closures, capturing, globals, cellOf>>

PopLocal ==
    /\ EndScope
    /\ \A u \in ToSet(openUpvalues) : upvalues[u].location # StackTop
    /\ UNCHANGED <<openUpvalues, upvalues>>

CloseUpvalue == EndScope /\ CloseUpvalues(StackTop)

-----------------------------------------------------------------------------
(* Globals. *)

GetGlobal(g) ==
    /\ Running /\ globals[g] # Undefined /\ Push(globals[g])
    /\ UNCHANGED <<status, frames, heap, capturing, globals, cellOf>>

(* A `var` at the top level; in a block it declares a local. *)
DefineGlobal(g) ==
    /\ Running /\ Temps = 1 /\ Depth = 1 /\ Top.locals = 1
    /\ globals' = [globals EXCEPT ![g] = Peek(0)]
    /\ Truncate(StackTop - 1)
    /\ UNCHANGED <<status, frames, heap, capturing, cellOf>>

SetGlobal(g) ==
    /\ Running /\ Temps >= 1 /\ globals[g] # Undefined
    /\ globals' = [globals EXCEPT ![g] = Peek(0)]
    /\ UNCHANGED <<status, stack, frames, heap, capturing, ghosts>>

-----------------------------------------------------------------------------
(* Calls. *)

(* interpret(): the script closure is pushed and called. *)
Interpret ==
    /\ status = "idle" \/ (status = "failed" /\ ContinueOnError)
    /\ status' = "running"
    /\ Push(Script)
    /\ frames' = <<[closure |-> Script, slots |-> StackTop + 1, locals |-> 1]>>
    /\ UNCHANGED <<heap, capturing, globals, cellOf>>

(* runtimeError() and resetStack(): everything on the stack is gone, and so  *)
(* is the list of open upvalues.                                             *)
RuntimeError ==
    /\ status' = "failed"
    /\ stack' = <<>> /\ cell' = <<>> /\ frames' = <<>> /\ openUpvalues' = <<>>
    /\ UNCHANGED <<upvalues, closures, capturing, globals, cellOf>>

Callable(n) ==
    /\ Peek(n) \notin Data /\ closures[Peek(n)].arity = n
    /\ Depth < MaxFrames

(* OP_CALL: the callee and its arguments are the first slots of its frame. *)
Call(n) ==
    /\ Running /\ n < Temps /\ Callable(n) /\ FreshCells(n) # {}
    /\ frames' = Append(frames, [closure |-> Peek(n), slots |-> StackTop - n, locals |-> n + 1])
    /\ cell' = SubSeq(cell, 1, StackTop - n) \o (CHOOSE cs \in FreshCells(n) : TRUE)
    /\ UNCHANGED <<status, stack, heap, capturing, globals, cellOf>>

(* Not a function, wrong number of arguments, or "Stack overflow."           *)
CallFails(n) == Running /\ n < Temps /\ ~Callable(n) /\ RuntimeError

(* An undefined global, or operands of the wrong type. *)
OperationFails ==
    /\ Running
    /\ \/ \E g \in Globals : globals[g] = Undefined
       \/ Temps >= 1
    /\ RuntimeError

(* OP_RETURN: the frame's variables are closed, and its slots give way to the *)
(* result.                                                                    *)
Return ==
    /\ Running /\ Temps = 1 /\ Depth > 1
    /\ CloseUpvalues(Top.slots)
    /\ frames' = Front(frames)
    /\ stack' = Append(SubSeq(stack, 1, Top.slots - 1), Peek(0))
    /\ cell' = SubSeq(cell, 1, Top.slots - 1) \o <<NoCell>>
    /\ UNCHANGED <<status, closures, capturing, globals, cellOf>>

(* OP_RETURN of the script pops its result and itself. *)
Finish ==
    /\ Running /\ Temps = 1 /\ Depth = 1 /\ Top.locals = 1
    /\ CloseUpvalues(Top.slots)
    /\ frames' = <<>> /\ status' = "idle"
    /\ Truncate(StackTop - 2)
    /\ UNCHANGED <<closures, capturing, globals, cellOf>>

-----------------------------------------------------------------------------

Next ==
    \/ Interpret
    \/ \E v \in Data : Constant(v) \/ Operate(v)
    \/ Pop \/ Declare \/ PopLocal \/ CloseUpvalue
    \/ \E n \in 1..MaxLocals : GetLocal(n) \/ SetLocal(n) \/ CaptureLocal(n)
    \/ \E a \in 0..MaxArity, named \in BOOLEAN : Closure(a, named)
    \/ \E n \in 1..MaxCaptures : CaptureUpvalue(n) \/ GetUpvalue(n) \/ SetUpvalue(n)
    \/ ClosureDone
    \/ \E g \in Globals : GetGlobal(g) \/ DefineGlobal(g) \/ SetGlobal(g)
    \/ \E n \in 0..MaxArity : Call(n) \/ CallFails(n)
    \/ OperationFails \/ Return \/ Finish

Spec == Init /\ [][Next]_vars

-----------------------------------------------------------------------------
(* Correctness. *)

TypeOK ==
    /\ status \in {"idle", "running", "failed"}
    /\ stack \in Seq(Values \cup {Script})
    /\ frames \in Seq([closure : 0..MaxClosures, slots : Nat \ {0}, locals : Nat \ {0}])
    /\ openUpvalues \in Seq(Nat \ {0})
    /\ upvalues \in Seq([location : Nat, value : Values \cup {Script}])
    /\ closures \in Seq([arity : Nat, upvalues : Seq(Nat \ {0})])
    /\ capturing \in BOOLEAN
    /\ globals \in [Globals -> Values \cup {Undefined}]
    /\ cell \in Seq(Cells \cup {NoCell}) /\ cellOf \in Seq(Cells)

Location(m) == upvalues[openUpvalues[m]].location

(* The open list goes strictly down the stack and holds open upvalues only:  *)
(* captureUpvalue finds a slot's upvalue, and closeUpvalues stops, by it.    *)
OpenListSorted ==
    /\ \A m \in DOMAIN openUpvalues : Open(openUpvalues[m])
    /\ \A m, n \in DOMAIN openUpvalues : m < n => Location(m) > Location(n)

PointsAtVariable(u) ==
    /\ u \in ToSet(openUpvalues)
    /\ upvalues[u].location <= StackTop
    /\ cell[upvalues[u].location] = cellOf[u]

(* While a program runs, an open upvalue is on the VM's list and points at a *)
(* slot that some active frame still uses as a variable: none was left       *)
(* behind by a scope, a return, or a program that ended.                     *)
OpenUpvaluesLive ==
    status = "running" => \A u \in DOMAIN upvalues : Open(u) => PointsAtVariable(u)

(* A closure that is being called has upvalues that are closed, or that still *)
(* point at the variable they captured: docs/architecture.md:135 says that an *)
(* upvalue whose function is gone "keeps working independent of the stack".   *)
CalledUpvaluesLive ==
    \A f \in DOMAIN frames : \A u \in ToSet(Upvalues(frames[f].closure)) :
        Open(u) => PointsAtVariable(u)


FrameEnd(f) == IF f = Depth THEN StackTop ELSE frames[f + 1].slots - 1

(* What the stack means: the cells of a frame's variables, and its temporaries; *)
(* the cells of a closure's upvalues; and a cell's content, which is in its     *)
(* slot, or in its upvalue once it has left the stack.                          *)
FrameMeant(f) ==
    [closure |-> frames[f].closure,
     locals  |-> SubSeq(cell, frames[f].slots + 1, frames[f].slots + frames[f].locals - 1),
     temps   |-> SubSeq(stack, frames[f].slots + frames[f].locals, FrameEnd(f))]

ClosureMeant(c) ==
    [arity |-> closures[c].arity,
     cells |-> [n \in DOMAIN closures[c].upvalues |-> cellOf[closures[c].upvalues[n]]]]

ContentOf(c) ==
    IF c \in ToSet(cell) THEN stack[CHOOSE p \in DOMAIN cell : cell[p] = c]
    ELSE upvalues[CHOOSE u \in DOMAIN cellOf : cellOf[u] = c].value

FramesMeant == [f \in 1..Depth |-> FrameMeant(f)]
ClosuresMeant == [c \in DOMAIN closures |-> ClosureMeant(c)]
CellsMeant == (ToSet(cell) \cup ToSet(cellOf)) \ {NoCell}
StoreMeant ==
    IF status = "failed" THEN [c \in {} |-> Nil] ELSE [c \in CellsMeant |-> ContentOf(c)]

Lexical == INSTANCE LexicalCells WITH
    frames <- FramesMeant, closures <- ClosuresMeant, store <- StoreMeant

(* Closures see their variables, and not copies of them: whatever is called, *)
(* returned from, assigned or closed, an access through a slot or through an *)
(* upvalue is an access to the one cell of that variable.                    *)
ImplementsLexicalCells == Lexical!Spec
=============================================================================
