------------------------------ MODULE Resolver ------------------------------
(***************************************************************************)
(* src/compiler/compiler.c: how a name becomes the slot of a local, an     *)
(* upvalue or a global, through the chain of compilers of the functions    *)
(* around it, in the one pass over the source.  Every action is a piece of *)
(* source the parser comes to.  Slots and upvalues are counted from 1.     *)
(***************************************************************************)
EXTENDS Integers, SequencesExt

CONSTANTS
    Names,         \* identifiers of the program
    Global,        \* what a name denotes that is no local of any function
    MaxLocals,     \* UINT8_COUNT, the locals of a function, the callee's slot included
    MaxUpvalues,   \* UINT8_COUNT, the upvalues of a function
    MaxVariables,  \* bound on the declarations of locals
    MaxFunctions,  \* bound on how deep functions nest
    MaxDepth       \* bound on the scopes of a function, its own included

ASSUME BoundsAssumption ==
    /\ {MaxLocals, MaxUpvalues, MaxVariables, MaxFunctions, MaxDepth} \subseteq Nat
    /\ MaxLocals > 0 /\ MaxDepth > 0 /\ Global \notin 1..MaxVariables

VARIABLES
    status,        \* "compiling", or "error": compile() returns NULL
    compilers,     \* the chain that `current` heads, the script's first
    access,        \* the operand of the latest OP_GET_ or OP_SET_ of a variable
    variables,     \* ghost: how many locals have been declared
    closedOver     \* ghost: variables that closures made so far hold

vars == <<status, compilers, access, variables, closedOver>>

Depth == Len(compilers)
Current == compilers[Depth]
Uninitialized == -1            \* the depth of a local in its initializer
NoName == ""                   \* an identifier has a letter at least

ASSUME NamesAssumption == NoName \notin Names

(* A Local; `variable` is a ghost, the declaration that the slot is for. *)
Local(name, depth, variable) ==
    [name |-> name, depth |-> depth, captured |-> FALSE, variable |-> variable]

(* initCompiler: slot 1 is the callee's, and has a name no identifier has. *)
NewCompiler(scopeDepth) ==
    [locals |-> <<Local(NoName, 0, Global)>>, upvalues |-> <<>>, scopeDepth |-> scopeDepth]

NoAccess == [kind |-> "global", index |-> 0]

Init ==
    /\ status = "compiling"
    /\ compilers = <<NewCompiler(0)>>
    /\ access = NoAccess /\ variables = 0 /\ closedOver = {}

Compiling == status = "compiling"

(* The last local is declared and its initializer is being compiled. *)
Pending == Last(Current.locals).depth = Uninitialized /\ Len(Current.locals) > 1

SetCurrent(c) == compilers' = [compilers EXCEPT ![Depth] = c]

(* Parsing goes on after an error, but nothing of what it emits is run. *)
CompileError ==
    /\ status' = "error"
    /\ compilers' = <<NewCompiler(0)>> /\ access' = NoAccess
    /\ UNCHANGED <<variables, closedOver>>

-----------------------------------------------------------------------------
(* Scopes and declarations. *)

BeginScope ==
    /\ Compiling /\ ~Pending /\ Current.scopeDepth < MaxDepth
    /\ SetCurrent([Current EXCEPT !.scopeDepth = @ + 1])
    /\ access' = NoAccess
    /\ UNCHANGED <<status, variables, closedOver>>

(* How many locals are left when endScope stops, at one not deeper than d. *)
Kept(d) ==
    CHOOSE n \in 0..Len(Current.locals) :
        /\ n > 0 => Current.locals[n].depth <= d
        /\ \A m \in (n + 1)..Len(Current.locals) : Current.locals[m].depth > d

(* endScope drops the locals that are deeper than the scope it returns to;   *)
(* the scope of a function's parameters and body ends with the function.     *)
EndScope ==
    /\ Compiling /\ ~Pending
    /\ Current.scopeDepth > (IF Depth = 1 THEN 0 ELSE 1)
    /\ LET d == Current.scopeDepth - 1
       IN  SetCurrent([Current EXCEPT
               !.scopeDepth = d,
               !.locals = SubSeq(@, 1, Kept(d))])
    /\ access' = NoAccess
    /\ UNCHANGED <<status, variables, closedOver>>

(* declareVariable walks the locals of the scope it is in, the last of them  *)
(* still uninitialized if it is a variable.                                  *)
Redeclared(name) ==
    \E n \in DOMAIN Current.locals :
        /\ Current.locals[n].name = name
        /\ \A m \in n..Len(Current.locals) :
              Current.locals[m].depth \in {Uninitialized, Current.scopeDepth}

DeclarationFails(name) ==
    Current.scopeDepth > 0 /\ (Redeclared(name) \/ Len(Current.locals) = MaxLocals)

(* parseVariable of a local: a variable, or a parameter, which is            *)
(* initialized at once.                                                      *)
DeclareVariable(name) ==
    /\ Compiling /\ ~Pending /\ Current.scopeDepth > 0
    /\ IF DeclarationFails(name) THEN CompileError
       ELSE /\ variables < MaxVariables
            /\ variables' = variables + 1
            /\ SetCurrent([Current EXCEPT
                   !.locals = Append(@, Local(name, Uninitialized, variables + 1))])
            /\ access' = NoAccess
            /\ UNCHANGED <<status, closedOver>>

(* markInitialized, from defineVariable. *)
Initialize ==
    /\ Compiling /\ Pending
    /\ SetCurrent([Current EXCEPT !.locals[Len(Current.locals)].depth = Current.scopeDepth])
    /\ access' = NoAccess
    /\ UNCHANGED <<status, variables, closedOver>>

-----------------------------------------------------------------------------
(* Functions. *)

(* funDeclaration initializes the name, so that the function can refer to    *)
(* itself, and function() makes its compiler and begins its scope.           *)
BeginFunction(name) ==
    /\ Compiling /\ ~Pending /\ Depth < MaxFunctions
    /\ IF DeclarationFails(name) THEN CompileError
       ELSE /\ variables < MaxVariables
            /\ IF Current.scopeDepth = 0
                 THEN /\ compilers' = Append(compilers, NewCompiler(1))
                      /\ UNCHANGED variables
                 ELSE /\ variables' = variables + 1
                      /\ compilers' = Append([compilers EXCEPT ![Depth].locals =
                             Append(@, Local(name, Current.scopeDepth, variables + 1))],
                             NewCompiler(1))
            /\ access' = NoAccess
            /\ UNCHANGED <<status, closedOver>>

(* What the upvalues of the function of each compiler refer to, followed     *)
(* through the pairs that OP_CLOSURE of that function will read.             *)
Captures ==
    LET of[c \in 1..Depth] ==
            [u \in DOMAIN compilers[c].upvalues |->
                LET upvalue == compilers[c].upvalues[u]
                IN  IF upvalue.isLocal
                      THEN compilers[c - 1].locals[upvalue.index].variable
                      ELSE of[c - 1][upvalue.index]]
    IN  of

(* endCompiler, and OP_CLOSURE in the enclosing function, which captures. *)
EndFunction ==
    /\ Compiling /\ ~Pending /\ Depth > 1 /\ Current.scopeDepth = 1
    /\ compilers' = Front(compilers)
    /\ access' = NoAccess
    /\ closedOver' = closedOver \cup Range(Captures[Depth])
    /\ UNCHANGED <<status, variables>>

-----------------------------------------------------------------------------
(* Names. *)

Slots(c, name) == {n \in DOMAIN compilers[c].locals : compilers[c].locals[n].name = name}

(* resolveLocal: the last local of that name. *)
ResolveLocal(c, name) == Max(Slots(c, name))

(* Mutant: addUpvalue does not look for the variable. *)
AddUpvalueAlways(upvalues, new) == Append(upvalues, new)

(* addUpvalue lists a variable once ... *)
AddUpvalue(upvalues, new) ==
    IF new \in Range(upvalues) THEN upvalues ELSE Append(upvalues, new)

(* ... and returns where. *)
UpvalueOf(upvalues, new) ==
    CHOOSE u \in DOMAIN upvalues : upvalues[u].index = new.index /\ upvalues[u].isLocal = new.isLocal

(* Mutant: a name is looked for from the outermost function inwards. *)
OwnersOutermost(name) ==
    LET all == {c \in 1..(Depth - 1) : Slots(c, name) # {}}
    IN  IF all = {} THEN {} ELSE {Min(all)}

(* The enclosing functions that have a local of that name; resolveUpvalue    *)
(* stops at the innermost.                                                   *)
Owners(name) == {c \in 1..(Depth - 1) : Slots(c, name) # {}}

(* Mutant: the local is not marked. *)
MarkNothing(local) == local

MarkCaptured(local) == [local EXCEPT !.captured = TRUE]

(* resolveUpvalue returns from the child of the function `owner`, whose local *)
(* it is, to the current one: each adds what its enclosing function has got.  *)
UpvalueChain(owner, name) ==
    LET chain[c \in owner..Depth] ==
            IF c = owner THEN [index |-> ResolveLocal(owner, name), upvalues |-> <<>>]
            ELSE LET new == [index |-> chain[c - 1].index, isLocal |-> c = owner + 1]
                     upvalues == AddUpvalue(compilers[c].upvalues, new)
                 IN  [index |-> UpvalueOf(upvalues, new), upvalues |-> upvalues]
    IN  chain

(* Mutant: the array of upvalues takes one too many. *)
RoomOffByOne(upvalues) == Len(upvalues) <= MaxUpvalues + 1

RoomForUpvalues(upvalues) == Len(upvalues) <= MaxUpvalues

(* namedVariable: OP_GET_LOCAL or OP_SET_LOCAL, ... *)
UseLocal(name) ==
    /\ Compiling /\ Slots(Depth, name) # {}
    /\ LET n == ResolveLocal(Depth, name)
       IN  IF Current.locals[n].depth = Uninitialized THEN CompileError
           ELSE /\ access' = [kind |-> "local", index |-> n]
                /\ UNCHANGED <<status, compilers, variables, closedOver>>

(* ... OP_GET_UPVALUE or OP_SET_UPVALUE, ... *)
UseUpvalue(name) ==
    /\ Compiling /\ Slots(Depth, name) = {} /\ Owners(name) # {}
    /\ LET owner == Max(Owners(name))
           chain == UpvalueChain(owner, name)
       IN  IF \E c \in (owner + 1)..Depth : ~RoomForUpvalues(chain[c].upvalues)
             THEN CompileError
             ELSE /\ compilers' = [c \in 1..Depth |->
                        IF c < owner THEN compilers[c]
                        ELSE IF c = owner
                          THEN [compilers[c] EXCEPT
                                   !.locals[chain[c].index] = MarkCaptured(@)]
                          ELSE [compilers[c] EXCEPT !.upvalues = chain[c].upvalues]]
                  /\ access' = [kind |-> "upvalue", index |-> chain[Depth].index]
                  /\ UNCHANGED <<status, variables, closedOver>>

(* ... or OP_GET_GLOBAL or OP_SET_GLOBAL. *)
UseGlobal(name) ==
    /\ Compiling /\ Slots(Depth, name) = {} /\ Owners(name) = {}
    /\ access' = NoAccess
    /\ UNCHANGED <<status, compilers, variables, closedOver>>

-----------------------------------------------------------------------------

Next ==
    \/ BeginScope \/ EndScope \/ Initialize \/ EndFunction
    \/ \E name \in Names :
          \/ DeclareVariable(name) \/ BeginFunction(name)
          \/ UseLocal(name) \/ UseUpvalue(name) \/ UseGlobal(name)

Spec == Init /\ [][Next]_vars

-----------------------------------------------------------------------------
(* Correctness. *)

Locals ==
    [name : Names \cup {NoName}, depth : Uninitialized..MaxDepth, captured : BOOLEAN,
     variable : 1..MaxVariables \cup {Global}]
Upvalues == [index : 1..(MaxLocals + MaxUpvalues), isLocal : BOOLEAN]

(* The arrays of a compiler have room for what is in them, and every index   *)
(* that is emitted is in range.                                              *)
TypeOK ==
    /\ status \in {"compiling", "error"}
    /\ compilers \in Seq([locals : Seq(Locals), upvalues : Seq(Upvalues), scopeDepth : Nat])
    /\ variables \in 0..MaxVariables /\ closedOver \subseteq 1..MaxVariables
    /\ \A c \in DOMAIN compilers :
          /\ Len(compilers[c].locals) <= MaxLocals /\ Len(compilers[c].upvalues) <= MaxUpvalues
          /\ \A u \in Range(compilers[c].upvalues) :
                u.index <= Len(IF u.isLocal THEN compilers[c - 1].locals
                                            ELSE compilers[c - 1].upvalues)
    /\ access.kind = "local" => access.index \in DOMAIN Current.locals
    /\ access.kind = "upvalue" => access.index \in DOMAIN Current.upvalues

(* A variable that a closure has captured, or that a function still being    *)
(* compiled will capture, is marked for as long as it is in scope: endScope   *)
(* then closes its upvalue and does not just pop its slot.                    *)
CapturedMarked ==
    \A c \in 1..Depth : \A local \in Range(compilers[c].locals) :
        local.variable \in closedOver \cup UNION {Range(Captures[k]) : k \in 1..Depth}
        => local.captured

(* A function lists a variable once, however many of its own functions and   *)
(* names lead to it: the limit on upvalues is a limit on variables.          *)
UpvaluesDistinct == \A c \in 1..Depth : IsInjective(Captures[c])

(* The locals of compiler k that are in its scope d. *)
Here(k, d) ==
    {n \in DOMAIN k.locals : \/ k.locals[n].depth = d
                             \/ k.locals[n].depth = Uninitialized /\ d = k.scopeDepth}

(* The scopes of the source that the locals of compiler k stand for ... *)
ScopeAt(k, d) ==
    [name \in {k.locals[n].name : n \in Here(k, d)} |->
        LET n == CHOOSE m \in Here(k, d) : k.locals[m].name = name
        IN  [variable |-> k.locals[n].variable,
             initialized |-> k.locals[n].depth # Uninitialized]]

ScopesOf(k) == [d \in 1..k.scopeDepth |-> ScopeAt(k, d)]

(* ... all of them, and the variable that the latest access is of. *)
OpenScopes == FlattenSeq([c \in 1..Depth |-> ScopesOf(compilers[c])])
Denoted ==
    CASE access.kind = "local"   -> Current.locals[access.index].variable
      [] access.kind = "upvalue" -> Captures[Depth][access.index]
      [] OTHER                   -> Global

Lexical == INSTANCE LexicalScope WITH
    Variables <- 1..MaxVariables, scopes <- OpenScopes, denoted <- Denoted

(* What the bytecode reads or writes for a name is the variable that the     *)
(* scopes of the source say, whatever functions and blocks are in between:   *)
(* "the part of the compiler where a mistake does not crash"                 *)
(* (docs/internals.md:96-97).                                                *)
ImplementsLexicalScope == Lexical!Spec
=============================================================================
