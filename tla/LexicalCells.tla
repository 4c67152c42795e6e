---------------------------- MODULE LexicalCells ----------------------------
(***************************************************************************)
(* What closures mean in nyx, with no stack to alias: every declaration of *)
(* a local makes a new cell, a closure holds the cells of the variables it *)
(* captures, and a cell lives as long as a frame or a closure holds it.    *)
(* ClosureVM implements this with stack slots and upvalues.                *)
(***************************************************************************)
EXTENDS Naturals, Sequences, FiniteSets, SequencesExt

CONSTANTS
    Data,        \* the values that are not closures, Nil among them
    Nil,
    Globals,     \* names of global variables
    Undefined,   \* a global that is not defined
    Cells,       \* identities of variables
    MaxArity,    \* bound on the parameters of a function
    MaxClosures  \* bound on the closures created

VARIABLES
    status,      \* "idle", "running" or "failed"
    frames,      \* active calls: closure, cells of the locals, temporaries
    closures,    \* closures created: arity and captured cells
    store,       \* the contents of the cells in use
    globals

vars == <<status, frames, closures, store, globals>>

Script == 0
Values == Data \cup (1..MaxClosures)

Depth == Len(frames)
Top == frames[Depth]
Temps == Top.temps
Peek == Last(Temps)
CellsOf(c) == IF c = Script THEN <<>> ELSE closures[c].cells

Frame(c, locals) == [closure |-> c, locals |-> locals, temps |-> <<>>]

(* The cells some frame or closure can still reach. *)
InUse(fs, cs) ==
    (UNION {ToSet(fs[f].locals) : f \in DOMAIN fs})
        \cup (UNION {ToSet(cs[c].cells) : c \in DOMAIN cs})

Free == Cells \ InUse(frames, closures)

Keep(st) == [c \in DOMAIN st \cap InUse(frames', closures') |-> st[c]]

With(st, c, v) == [d \in DOMAIN st \cup {c} |-> IF d = c THEN v ELSE st[d]]

WithAll(st, cs, vs) ==
    [d \in DOMAIN st \cup ToSet(cs) |->
       IF d \in ToSet(cs) THEN vs[CHOOSE k \in DOMAIN cs : cs[k] = d] ELSE st[d]]

SetTop(fr) == frames' = [frames EXCEPT ![Depth] = fr]
SetTemps(ts) == SetTop([Top EXCEPT !.temps = ts])

Init ==
    /\ status = "idle" /\ frames = <<>> /\ closures = <<>>
    /\ store = [c \in {} |-> Nil]
    /\ globals = [g \in Globals |-> Undefined]

Run ==
    /\ status = "idle"
    /\ status' = "running" /\ frames' = <<Frame(Script, <<>>)>>
    /\ UNCHANGED <<closures, store, globals>>

Push(v) ==
    /\ SetTemps(Append(Temps, v))
    /\ UNCHANGED <<status, closures, store, globals>>

Literal == \E v \in Data : Push(v)
ReadLocal == \E n \in DOMAIN Top.locals : Push(store[Top.locals[n]])
ReadCaptured == \E n \in DOMAIN CellsOf(Top.closure) : Push(store[CellsOf(Top.closure)[n]])
ReadGlobal == \E g \in Globals : globals[g] # Undefined /\ Push(globals[g])

Assign(c) ==
    /\ Temps # <<>>
    /\ store' = With(store, c, Peek)
    /\ UNCHANGED <<status, frames, closures, globals>>

WriteLocal == \E n \in DOMAIN Top.locals : Assign(Top.locals[n])
WriteCaptured == \E n \in DOMAIN CellsOf(Top.closure) : Assign(CellsOf(Top.closure)[n])

WriteGlobal ==
    /\ Temps # <<>>
    /\ \E g \in Globals : globals' = [globals EXCEPT ![g] = Peek]
    /\ \/ UNCHANGED frames
       \/ SetTemps(Front(Temps))
    /\ UNCHANGED <<status, closures, store>>

Drop ==
    /\ Temps # <<>> /\ SetTemps(Front(Temps))
    /\ UNCHANGED <<status, closures, store, globals>>

Operate ==
    /\ Len(Temps) >= 2
    /\ \E v \in Data : SetTemps(Append(Front(Front(Temps)), v))
    /\ UNCHANGED <<status, closures, store, globals>>

(* A declaration: the value moves to a cell of its own. *)
Declare ==
    /\ Len(Temps) = 1
    /\ \E c \in Free :
         /\ SetTop([Top EXCEPT !.locals = Append(@, c), !.temps = <<>>])
         /\ store' = With(store, c, Peek)
    /\ UNCHANGED <<status, closures, globals>>

(* The end of a local's scope: its cell survives in the closures that hold it. *)
EndScope ==
    /\ Temps = <<>> /\ Top.locals # <<>>
    /\ SetTop([Top EXCEPT !.locals = Front(@)])
    /\ UNCHANGED <<status, closures, globals>>
    /\ store' = Keep(store)

(* A closure is created, possibly as the initial value of a local of its own *)
(* name, and then takes the variables it captures, one at a time.            *)
Closure(arity, named) ==
    /\ Len(closures) < MaxClosures
    /\ closures' = Append(closures, [arity |-> arity, cells |-> <<>>])
    /\ IF named
         THEN /\ Temps = <<>>
              /\ \E c \in Free : /\ SetTop([Top EXCEPT !.locals = Append(@, c)])
                                 /\ store' = With(store, c, Len(closures) + 1)
         ELSE SetTemps(Append(Temps, Len(closures) + 1)) /\ UNCHANGED store
    /\ UNCHANGED <<status, globals>>

Capture ==
    /\ closures # <<>>
    /\ \E c \in ToSet(Top.locals) \cup ToSet(CellsOf(Top.closure)) :
         closures' = [closures EXCEPT ![Len(closures)].cells = Append(@, c)]
    /\ UNCHANGED <<status, frames, store, globals>>

(* The arguments become the locals of the callee. *)
Call(n) ==
    /\ n < Len(Temps)
    /\ LET c    == Temps[Len(Temps) - n]
           args == SubSeq(Temps, Len(Temps) - n + 1, Len(Temps))
       IN  /\ c \notin Data /\ closures[c].arity = n
           /\ \E cs \in [1..n -> Free] :
                /\ IsInjective(cs)
                /\ frames' = Append([frames EXCEPT ![Depth].temps =
                                        SubSeq(@, 1, Len(@) - n - 1)],
                                    Frame(c, cs))
                /\ store' = WithAll(store, cs, args)
    /\ UNCHANGED <<status, closures, globals>>

Return ==
    /\ Depth > 1 /\ Len(Temps) = 1
    /\ frames' = [Front(frames) EXCEPT ![Depth - 1].temps = Append(@, Peek)]
    /\ UNCHANGED <<status, closures, globals>>
    /\ store' = Keep(store)

Finish ==
    /\ Depth = 1
    /\ status' = "idle" /\ frames' = <<>>
    /\ UNCHANGED <<closures, globals>>
    /\ store' = Keep(store)

(* A runtime error ends the program. *)
Fail ==
    /\ status' = "failed" /\ frames' = <<>>
    /\ store' = [c \in {} |-> Nil]
    /\ UNCHANGED <<closures, globals>>

Step ==
    \/ Literal \/ ReadLocal \/ ReadCaptured \/ ReadGlobal
    \/ WriteLocal \/ WriteCaptured \/ WriteGlobal
    \/ Drop \/ Operate \/ Declare \/ EndScope
    \/ \E a \in 0..MaxArity, named \in BOOLEAN : Closure(a, named)
    \/ Capture
    \/ \E n \in 0..MaxArity : Call(n)
    \/ Return \/ Finish \/ Fail

Next == Run \/ (status = "running" /\ Step)

Spec == Init /\ [][Next]_vars
=============================================================================
