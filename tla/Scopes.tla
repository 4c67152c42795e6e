------------------------------- MODULE Scopes -------------------------------
(***************************************************************************)
(* src/compiler/compiler.c: the statements of one function, the bytecode   *)
(* it emits for them, and what that bytecode does to the operand stack.    *)
(* The compiler gives every local the slot that its place in locals[] says *)
(* and tracks nothing else about the stack: each instruction is right only *)
(* if it runs with exactly the values below it that the compiler believed  *)
(* were there.  First the function is compiled, one statement at a time;   *)
(* then run() executes it, taking either way at a condition.               *)
(* An expression is one instruction that pushes its value; and / or are    *)
(* spelled out.  A jump names the instruction it goes to.                  *)
(***************************************************************************)
EXTENDS Naturals, SequencesExt

CONSTANTS
    MaxLocals,     \* UINT8_COUNT, the locals of a function, the callee's slot included
    MaxBreaks,     \* MAX_BREAKS, the break statements of a loop
    MaxStatements, \* bound on the statements of the function, blocks included
    MaxNest,       \* bound on how deep statements nest
    MaxArity,      \* bound on the parameters
    CleanExits     \* does the source leave a loop only where its body has no local?

ASSUME BoundsAssumption ==
    /\ {MaxLocals, MaxBreaks, MaxStatements, MaxNest, MaxArity} \subseteq Nat
    /\ MaxArity < MaxLocals /\ CleanExits \in BOOLEAN

VARIABLES
    status,        \* "compiling", "error", "running" or "returned"
    type,          \* TYPE_SCRIPT or TYPE_FUNCTION
    code,          \* the chunk
    locals,        \* current->locals: the depth and isCaptured of each
    scopeDepth,    \* current->scopeDepth
    nest,          \* the statements the parser is inside of (`depth`, a ghost: their scope)
    loops,         \* current->loop and its enclosing loops
    statements,    \* how many statements the parser has come to, for MaxStatements
    ip,            \* the instruction run() comes to
    stackTop,      \* how many slots of the frame are in use
    openSlots      \* the slots that open upvalues point at

compiler == <<type, code, locals, scopeDepth, nest, loops, statements>>
machine == <<ip, stackTop, openSlots>>
vars == <<status, compiler, machine>>

Callee == [depth |-> 0, captured |-> FALSE]

Init ==
    /\ status = "compiling"
    /\ \/ type = "script" /\ locals = <<Callee>> /\ scopeDepth = 0
       \/ /\ type = "function" /\ scopeDepth = 1
          /\ \E n \in 0..MaxArity :
                locals = <<Callee>> \o [m \in 1..n |-> [depth |-> 1, captured |-> FALSE]]
    /\ code = <<>> /\ nest = <<>> /\ loops = <<>> /\ statements = 0
    /\ ip = 1 /\ stackTop = Len(locals) /\ openSlots = {}

-----------------------------------------------------------------------------
(* Emitting code.  `height` is what the compiler believes is on the stack    *)
(* when the instruction starts: the locals, and the temporaries over them.   *)

NoTarget == 0
Instruction(op, height) == [op |-> op, to |-> NoTarget, height |-> height, captures |-> {}]
Jump(op, to, height) == [op |-> op, to |-> to, height |-> height, captures |-> {}]

Base == Len(locals)
Next1(c) == Len(c) + 1

(* patchJump: the jumps J of the code c go to what is emitted next. *)
Patch(c, J) == [n \in DOMAIN c |-> IF n \in J THEN [c[n] EXCEPT !.to = Next1(c)] ELSE c[n]]

Expression == <<Instruction("push", Base)>>
Discarded == <<Instruction("push", Base), Instruction("pop", Base + 1)>>

(* A condition, its jump, and the OP_POP for when it is true. *)
Condition ==
    <<Instruction("push", Base), Jump("jumpIfFalse", NoTarget, Base + 1),
      Instruction("pop", Base + 1)>>

Compiling == status = "compiling"

(* The parser comes to one more statement, or declaration. *)
Counted == statements < MaxStatements /\ statements' = statements + 1
NewStatement == Compiling /\ (nest # <<>> => ~Last(nest).done) /\ Counted
NewDeclaration == Compiling /\ (nest # <<>> => Last(nest).kind = "block") /\ Counted

(* The statement that was the whole branch or body of another is complete. *)
Complete(s) ==
    IF s = <<>> \/ Last(s).kind = "block" THEN s
    ELSE [s EXCEPT ![Len(s)].done = TRUE]

Enter(kind, jumps, start, depth) ==
    /\ Len(nest) < MaxNest
    /\ nest' = Append(nest, [kind |-> kind, jumps |-> jumps, start |-> start,
                             depth |-> depth, done |-> FALSE])

Leave == nest' = Complete(Front(nest))

Inside(kind) == Compiling /\ nest # <<>> /\ Last(nest).kind = kind
BranchDone(kind) == Inside(kind) /\ Last(nest).done

-----------------------------------------------------------------------------
(* Scopes. *)

(* How many locals are not deeper than depth d: where endScope stops. *)
Outer(d) ==
    CHOOSE n \in 0..Len(locals) :
        /\ n > 0 => locals[n].depth <= d
        /\ \A m \in (n + 1)..Len(locals) : locals[m].depth > d

(* Mutant: a captured local is popped like any other. *)
PopsOnly(d) ==
    [m \in 1..(Len(locals) - Outer(d)) |-> Instruction("pop", Len(locals) - m + 1)]

(* endScope pops the locals of the scope, and closes the captured ones. *)
Pops(d) ==
    [m \in 1..(Len(locals) - Outer(d)) |->
        Instruction(IF locals[Len(locals) - m + 1].captured THEN "close" ELSE "pop",
                    Len(locals) - m + 1)]

EndScope(c) ==
    /\ code' = c \o Pops(scopeDepth - 1)
    /\ scopeDepth' = scopeDepth - 1
    /\ locals' = SubSeq(locals, 1, Outer(scopeDepth - 1))

BeginBlock ==
    /\ NewStatement /\ Enter("block", {}, 0, scopeDepth + 1)
    /\ scopeDepth' = scopeDepth + 1
    /\ UNCHANGED <<status, type, code, locals, loops, machine>>

EndBlock ==
    /\ Inside("block")
    /\ EndScope(code)
    /\ Leave
    /\ UNCHANGED <<status, type, loops, statements, machine>>

(* An error: parsing goes on, but compile returns NULL and nothing runs. *)
CompileError ==
    /\ status' = "error"
    /\ code' = <<>> /\ locals' = <<>> /\ nest' = <<>> /\ loops' = <<>> /\ scopeDepth' = 0
    /\ UNCHANGED <<type, machine>>

(* addLocal and markInitialized, or "Too many local variables". *)
AddLocal(ls) ==
    locals' = Append(ls, [depth |-> scopeDepth, captured |-> FALSE])

TooManyLocals == NewDeclaration /\ scopeDepth > 0 /\ Base = MaxLocals /\ CompileError

(* In a scope the initializer's value is the local; outside it is popped. *)
VarDeclaration ==
    /\ NewDeclaration
    /\ \/ /\ scopeDepth > 0 /\ Base < MaxLocals
          /\ code' = code \o Expression
          /\ AddLocal(locals)
       \/ /\ scopeDepth = 0
          /\ code' = code \o Expression \o <<Instruction("define", Base + 1)>>
          /\ UNCHANGED locals
    /\ UNCHANGED <<status, type, scopeDepth, nest, loops, machine>>

(* A nested function that captures the locals C, maybe itself among them.    *)
(* resolveUpvalue marks them; its own code is another chunk.                 *)
FunDeclaration(C) ==
    /\ NewDeclaration /\ C \subseteq 2..(Base + 1) /\ (scopeDepth = 0 => Base + 1 \notin C)
    /\ LET marked == [m \in DOMAIN locals |->
                        [locals[m] EXCEPT !.captured = @ \/ m \in C]]
           closure == [Instruction("closure", Base) EXCEPT !.captures = C]
       IN  \/ /\ scopeDepth > 0 /\ Base < MaxLocals
              /\ code' = code \o <<closure>>
              /\ locals' = Append(marked, [depth |-> scopeDepth, captured |-> Base + 1 \in C])
           \/ /\ scopeDepth = 0
              /\ code' = code \o <<closure, Instruction("define", Base + 1)>>
              /\ locals' = marked
    /\ UNCHANGED <<status, type, scopeDepth, nest, loops, machine>>

-----------------------------------------------------------------------------
(* Statements without a loop. *)

SimpleStatement(c) ==
    /\ NewStatement
    /\ code' = c
    /\ nest' = Complete(nest)
    /\ UNCHANGED <<status, type, locals, scopeDepth, loops, machine>>

ExpressionStatement == SimpleStatement(code \o Discarded)

(* a and b; the right operand replaces the left one. *)
And ==
    LET right == Patch(code \o Condition \o Expression, {Len(code) + 2})
    IN  SimpleStatement(right \o <<Instruction("pop", Base + 1)>>)

(* a or b; *)
Or ==
    LET left == code \o Expression \o <<Jump("jumpIfFalse", NoTarget, Base + 1),
                                        Jump("jump", NoTarget, Base + 1)>>
        right == Patch(left, {Len(code) + 2}) \o <<Instruction("pop", Base + 1)>> \o Expression
    IN  SimpleStatement(Patch(right, {Len(code) + 3}) \o <<Instruction("pop", Base + 1)>>)

ReturnStatement ==
    /\ type = "function"
    /\ SimpleStatement(code \o Expression \o <<Instruction("return", Base + 1)>>)

If ==
    /\ NewStatement
    /\ code' = code \o Condition
    /\ Enter("then", {Len(code) + 2}, 0, scopeDepth)
    /\ UNCHANGED <<status, type, locals, scopeDepth, loops, machine>>

(* Mutant: the condition is popped on one branch only. *)
ThenCodeUnpopped ==
    Patch(Append(code, Jump("jump", NoTarget, Base)), Last(nest).jumps)

(* The end of the first branch jumps over the second, which pops the         *)
(* condition in its turn.                                                    *)
ThenCode ==
    Append(Patch(Append(code, Jump("jump", NoTarget, Base)), Last(nest).jumps),
           Instruction("pop", Base + 1))

Else ==
    /\ BranchDone("then")
    /\ code' = ThenCode
    /\ nest' = [nest EXCEPT ![Len(nest)] =
                   [@ EXCEPT !.kind = "else", !.jumps = {Next1(code)}, !.done = FALSE]]
    /\ UNCHANGED <<status, type, locals, scopeDepth, loops, statements, machine>>

NoElse ==
    /\ BranchDone("then")
    /\ code' = Patch(ThenCode, {Next1(code)})
    /\ Leave
    /\ UNCHANGED <<status, type, locals, scopeDepth, loops, statements, machine>>

ElseDone ==
    /\ BranchDone("else")
    /\ code' = Patch(code, Last(nest).jumps)
    /\ Leave
    /\ UNCHANGED <<status, type, locals, scopeDepth, loops, statements, machine>>

-----------------------------------------------------------------------------
(* Loops. *)

(* beginLoop; `base`, the locals outside of the body, and `at`, the place of *)
(* the loop in `nest`, are not in LoopState.                                 *)
BeginLoop(target, base) ==
    loops' = Append(loops, [target |-> target, breaks |-> {}, base |-> base,
                            at |-> Len(nest) + 1])

(* endLoop: the breaks of the loop go to what follows the code c. *)
EndLoop(c) == Patch(c, Last(loops).breaks)

(* The end of a loop: back to the start, and out of it with the condition. *)
LoopEnd ==
    LET back == Append(code, Jump("loop", Last(nest).start, Base))
    IN  IF Last(nest).jumps = {} THEN back
        ELSE Append(Patch(back, Last(nest).jumps), Instruction("pop", Base + 1))

While ==
    /\ NewStatement
    /\ code' = code \o Condition
    /\ Enter("while", {Len(code) + 2}, Next1(code), scopeDepth)
    /\ BeginLoop(Next1(code), Base)
    /\ UNCHANGED <<status, type, locals, scopeDepth, machine>>

WhileDone ==
    /\ BranchDone("while")
    /\ code' = EndLoop(LoopEnd)
    /\ loops' = Front(loops)
    /\ Leave
    /\ UNCHANGED <<status, type, locals, scopeDepth, statements, machine>>

(* The header of a for statement: its variable, if any, is in a scope of its *)
(* own, and the increment stands before the body, jumped over at first.  (An *)
(* initializer that is an expression compiles to what an expression          *)
(* statement before the loop does.)                                          *)
For(variable, condition, increment) ==
    /\ NewStatement /\ (variable => Base < MaxLocals)
    /\ LET b == IF variable THEN Base + 1 ELSE Base
           init == IF variable THEN code \o Expression ELSE code
           test == IF condition
                     THEN init \o <<Instruction("push", b), Jump("jumpIfFalse", NoTarget, b + 1),
                                    Instruction("pop", b + 1)>>
                     ELSE init
           exit == IF condition THEN {Len(init) + 2} ELSE {}
           step == test \o <<Jump("jump", NoTarget, b), Instruction("push", b),
                             Instruction("pop", b + 1), Jump("loop", Next1(init), b)>>
           start == IF increment THEN Len(test) + 2 ELSE Next1(init)
       IN  /\ code' = IF increment THEN Patch(step, {Next1(test)}) ELSE test
           /\ Enter("for", exit, start, scopeDepth + 1)
           /\ BeginLoop(start, b)
    /\ locals' = IF variable
                   THEN Append(locals, [depth |-> scopeDepth + 1, captured |-> FALSE])
                   ELSE locals
    /\ scopeDepth' = scopeDepth + 1
    /\ UNCHANGED <<status, type, machine>>

ForDone ==
    /\ BranchDone("for")
    /\ EndScope(EndLoop(LoopEnd))
    /\ loops' = Front(loops)
    /\ Leave
    /\ UNCHANGED <<status, type, statements, machine>>

(* A break or a continue emits its jump and no OP_POP for the locals of the  *)
(* body: CleanExits leaves those with locals in scope out of the source.     *)
InLoop == NewStatement /\ loops # <<>> /\ (CleanExits => Base = Last(loops).base)

(* Mutant: the array of break jumps takes one too many. *)
BreakRoomOffByOne == Cardinality(Last(loops).breaks) <= MaxBreaks

(* Room in breakJumps[]. *)
BreakRoom == Cardinality(Last(loops).breaks) < MaxBreaks

BreakStatement ==
    /\ InLoop /\ BreakRoom
    /\ code' = Append(code, Jump("jump", NoTarget, Base))
    /\ loops' = [loops EXCEPT ![Len(loops)].breaks = @ \cup {Next1(code)}]
    /\ nest' = Complete(nest)
    /\ UNCHANGED <<status, type, locals, scopeDepth, machine>>

ContinueStatement ==
    /\ InLoop
    /\ SimpleStatement(Append(code, Jump("loop", Last(loops).target, Base)))

(* "Can't return from top-level code.", "Can't use 'break' outside of a      *)
(* loop.", "Too many 'break' statements in one loop.", or no room for the    *)
(* variable of a for statement.                                              *)
StatementFails ==
    /\ NewStatement
    /\ loops # <<>> => type = "script" \/ Base = MaxLocals \/ ~BreakRoom
    /\ CompileError

-----------------------------------------------------------------------------
(* The end of the function, and its run. *)

(* endCompiler emits OP_NIL and OP_RETURN. *)
EndCompiler ==
    /\ Compiling /\ nest = <<>>
    /\ code' = code \o Expression \o <<Instruction("return", Base + 1)>>
    /\ status' = "running"
    /\ locals' = <<>> /\ scopeDepth' = 0 /\ statements' = 0
    /\ UNCHANGED <<type, nest, loops, machine>>

At(op) == status = "running" /\ code[ip].op = op

Stack(top, slots) ==
    /\ stackTop' = top /\ openSlots' = slots /\ ip' = ip + 1
    /\ UNCHANGED <<status, compiler>>

Push == At("push") /\ Stack(stackTop + 1, openSlots)
PopValue == (At("pop") \/ At("define")) /\ Stack(stackTop - 1, openSlots)
CloseUpvalue == At("close") /\ Stack(stackTop - 1, openSlots \ {stackTop})
Closure == At("closure") /\ Stack(stackTop + 1, openSlots \cup code[ip].captures)

Goto ==
    /\ At("jump") \/ At("loop") \/ At("jumpIfFalse")
    /\ ip' = code[ip].to
    /\ UNCHANGED <<status, compiler, stackTop, openSlots>>

FallThrough == At("jumpIfFalse") /\ Stack(stackTop, openSlots)

Return ==
    /\ At("return")
    /\ status' = "returned" /\ openSlots' = {}
    /\ UNCHANGED <<compiler, ip, stackTop>>

-----------------------------------------------------------------------------

Declaration ==
    \/ VarDeclaration \/ TooManyLocals
    \/ \E C \in SUBSET (2..(MaxLocals + 1)) : FunDeclaration(C)

Statement ==
    \/ BeginBlock \/ EndBlock
    \/ ExpressionStatement \/ And \/ Or \/ ReturnStatement
    \/ If \/ Else \/ NoElse \/ ElseDone
    \/ While \/ WhileDone
    \/ \E v, c, i \in BOOLEAN : For(v, c, i)
    \/ ForDone \/ BreakStatement \/ ContinueStatement \/ StatementFails

Run ==
    \/ Push \/ PopValue \/ CloseUpvalue \/ Closure
    \/ Goto \/ FallThrough \/ Return

Next == Declaration \/ Statement \/ EndCompiler \/ Run

Spec == Init /\ [][Next]_vars

-----------------------------------------------------------------------------
(* Correctness. *)

Ops == {"push", "pop", "close", "define", "closure", "jump", "loop", "jumpIfFalse", "return"}
Kinds == {"block", "then", "else", "while", "for"}

(* Code that runs has no jump left that patchJump was never called for. *)
JumpsLand ==
    status = "running" =>
        \A n \in DOMAIN code :
            code[n].op \in {"jump", "loop", "jumpIfFalse"} => code[n].to \in DOMAIN code

TypeOK ==
    /\ status \in {"compiling", "error", "running", "returned"}
    /\ type \in {"script", "function"}
    /\ code \in Seq([op : Ops, to : Nat, height : Nat, captures : SUBSET Nat])
    /\ locals \in Seq([depth : Nat, captured : BOOLEAN]) /\ Len(locals) <= MaxLocals
    /\ scopeDepth \in Nat
    /\ nest \in Seq([kind : Kinds, jumps : SUBSET Nat, start : Nat, depth : Nat, done : BOOLEAN])
    /\ loops \in Seq([target : Nat, breaks : SUBSET Nat, base : Nat, at : Nat])
    /\ \A n \in DOMAIN loops : Cardinality(loops[n].breaks) <= MaxBreaks
    /\ statements \in 0..MaxStatements /\ ip \in Nat /\ stackTop \in Nat /\ openSlots \subseteq Nat
    /\ JumpsLand

(* Every instruction runs on the stack the compiler emitted it for: local n  *)
(* is in slot n whatever way the program came (docs/internals.md:86-88).     *)
SlotsMatchLocals == status = "running" => stackTop = code[ip].height

(* No open upvalue points at a slot that has been given up. *)
UpvaluesClosed == status = "running" => openSlots \subseteq 1..stackTop
=============================================================================
