--------------------------- MODULE ClosureVMProofs ---------------------------
(***************************************************************************)
(* The types and the open upvalues of ClosureVM, for every value of its    *)
(* constants.  OpenListSorted and OpenUpvaluesLive are not inductive: what *)
(* a return or the end of a scope closes depends on which slots hold       *)
(* variables, and on every open upvalue being on the list.  IInv adds      *)
(*   - FramesOK: the frames lie one above the other, below the stack's top;*)
(*   - ValuesOK: what a slot, a global or an upvalue holds exists;         *)
(*   - CellsOK: the slots of variables, and no others, have identities,    *)
(*     and no two have the same;                                           *)
(*   - ListOK: the list goes down the stack, through variables' slots;     *)
(*   - OwnersOK: a variable has one upvalue at most, listed if in a slot;  *)
(*   - AllListed: only an error leaves an open upvalue off the list.       *)
(* A step keeps the slots below some point and replaces those above (Cut,  *)
(* NewSlots): StepKeeps concludes for the last four parts, and each action *)
(* has a lemma that finds the point.                                       *)
(*                                                                         *)
(* The second half is the refinement of LexicalCells.  CInv adds to IInv   *)
(* that every upvalue is some closure's (Owned), so that the cells of the  *)
(* abstract machine are the identities here.  Each instruction has a lemma *)
(* (...Means) that names the step of the abstract machine it takes.        *)
(***************************************************************************)
EXTENDS ClosureVM, WellFoundedInduction, TLAPS

(* The values there are: plain ones and the closures created so far. *)
Existing == Data \cup DOMAIN closures

(* The slots that hold the variables of the active frames. *)
VariableSlot(p) ==
    \E f \in 1..Len(frames) :
        frames[f].slots < p /\ p < frames[f].slots + frames[f].locals

FramesOK ==
    /\ frames \in Seq([closure : {Script} \cup DOMAIN closures,
                       slots : Nat \ {0}, locals : Nat \ {0}])
    /\ \A f, g \in 1..Len(frames) :
         f < g => frames[f].slots + frames[f].locals <= frames[g].slots
    /\ frames # <<>> => frames[1].slots = 1 /\ Top.slots + Top.locals <= Len(stack) + 1
    /\ status = "running" <=> frames # <<>>
    /\ frames = <<>> => stack = <<>>
    /\ capturing => status = "running" /\ closures # <<>>

ValuesOK ==
    /\ stack \in Seq(Existing \cup {Script}) /\ \A p \in 2..Len(stack) : stack[p] \in Existing
    /\ globals \in [Globals -> Existing \cup {Undefined}]
    /\ upvalues \in Seq([location : Nat \ {1}, value : Existing])
    /\ closures \in Seq([arity : Nat, upvalues : Seq(DOMAIN upvalues)])
    /\ Len(closures) <= MaxClosures

CellsOK ==
    /\ cell \in Seq(Cells \cup {NoCell}) /\ Len(cell) = Len(stack)
    /\ cellOf \in Seq(Cells) /\ Len(cellOf) = Len(upvalues)
    /\ \A p \in 1..Len(cell) : cell[p] # NoCell <=> VariableSlot(p)
    /\ \A p, q \in 1..Len(cell) : cell[p] # NoCell /\ cell[p] = cell[q] => p = q

ListOK ==
    /\ openUpvalues \in Seq(DOMAIN upvalues)
    /\ \A m, n \in 1..Len(openUpvalues) : m < n => Location(m) > Location(n)
    /\ \A m \in 1..Len(openUpvalues) :
         VariableSlot(Location(m)) /\ cell[Location(m)] = cellOf[openUpvalues[m]]

OnList(u) == \E m \in 1..Len(openUpvalues) : openUpvalues[m] = u

(* A variable has one upvalue at most, which is on the list while the variable *)
(* is in a slot.                                                               *)
OwnersOK ==
    /\ \A u \in 1..Len(upvalues), p \in 1..Len(cell) : cellOf[u] = cell[p] => OnList(u)
    /\ \A u, v \in 1..Len(cellOf) : cellOf[u] = cellOf[v] => u = v

(* Only the end of a program by an error leaves an open upvalue off the list. *)
AllListed ==
    ~ContinueOnError /\ status # "failed" =>
        \A u \in 1..Len(upvalues) : Open(u) => OnList(u)

IInv ==
    /\ FramesOK /\ ValuesOK /\ CellsOK /\ ListOK /\ OwnersOK /\ AllListed
    /\ status \in {"idle", "running", "failed"} /\ capturing \in BOOLEAN

-----------------------------------------------------------------------------
(* Sequences. *)

LEMMA LeastNat ==
    ASSUME NEW S \in SUBSET Nat, S # {}
    PROVE  \E n \in S : \A m \in S : n <= m
<1>1. PICK n \in S : \A m \in S : <<m, n>> \notin OpToRel(<, Nat)
      BY WFMin, NatLessThanWellFounded, Zenon
<1>2. \A m \in S : ~(m < n)
      BY <1>1, Zenon DEF OpToRel
<1> QED BY <1>2

LEMMA Prefix ==
    ASSUME NEW S, NEW s \in Seq(S), NEW m \in 0..Len(s)
    PROVE  /\ SubSeq(s, 1, m) \in Seq(S) /\ Len(SubSeq(s, 1, m)) = m
           /\ \A i \in 1..m : SubSeq(s, 1, m)[i] = s[i]
OBVIOUS

LEMMA Appended ==
    ASSUME NEW S, NEW s \in Seq(S), NEW v \in S
    PROVE  /\ Append(s, v) \in Seq(S) /\ Len(Append(s, v)) = Len(s) + 1
           /\ Append(s, v)[Len(s) + 1] = v
           /\ \A i \in 1..Len(s) : Append(s, v)[i] = s[i]
OBVIOUS

LEMMA Replaced ==
    ASSUME NEW S, NEW s \in Seq(S), NEW p \in 1..Len(s), NEW v \in S
    PROVE  /\ [s EXCEPT ![p] = v] \in Seq(S) /\ Len([s EXCEPT ![p] = v]) = Len(s)
           /\ [s EXCEPT ![p] = v][p] = v
           /\ \A i \in 1..Len(s) : i # p => [s EXCEPT ![p] = v][i] = s[i]
OBVIOUS

LEMMA Elements ==
    ASSUME NEW S, NEW s \in Seq(S), NEW v
    PROVE  v \in ToSet(s) <=> \E i \in 1..Len(s) : s[i] = v
BY DEF ToSet

(* Sequence r is s followed by t. *)
IsJoined(r, s, t) ==
    /\ Len(r) = Len(s) + Len(t)
    /\ \A i \in 1..Len(s) : r[i] = s[i]
    /\ \A i \in (Len(s) + 1)..(Len(s) + Len(t)) : r[i] = t[i - Len(s)]

LEMMA Joined ==
    ASSUME NEW S, NEW s \in Seq(S), NEW t \in Seq(S)
    PROVE  s \o t \in Seq(S) /\ IsJoined(s \o t, s, t)
<1>1. s \o t \in Seq(S) OBVIOUS
<1>2. /\ Len(s \o t) = Len(s) + Len(t)
      /\ \A i \in 1..Len(s) : (s \o t)[i] = s[i]
      /\ \A i \in (Len(s) + 1)..(Len(s) + Len(t)) : (s \o t)[i] = t[i - Len(s)]
      OBVIOUS
<1> QED BY <1>1, <1>2 DEF IsJoined

LEMMA Empty ==
    ASSUME NEW S, NEW s \in Seq(S)
    PROVE  s = <<>> <=> Len(s) = 0
OBVIOUS

(* Sequence t is s with v between its first n elements and the others. *)
IsInserted(t, s, n, v) ==
    /\ Len(t) = Len(s) + 1 /\ t[n + 1] = v
    /\ \A i \in 1..n : t[i] = s[i]
    /\ \A i \in (n + 2)..(Len(s) + 1) : t[i] = s[i - 1]

LEMMA Inserted ==
    ASSUME NEW S, NEW s \in Seq(S), NEW n \in 0..Len(s), NEW v \in S
    PROVE  /\ InsertAt(s, n + 1, v) \in Seq(S)
           /\ IsInserted(InsertAt(s, n + 1, v), s, n, v)
<1> DEFINE a == SubSeq(s, 1, n)
           b == SubSeq(s, n + 1, Len(s))
<1>1. a \in Seq(S) /\ Len(a) = n /\ \A i \in 1..n : a[i] = s[i] OBVIOUS
<1>2. b \in Seq(S) /\ Len(b) = Len(s) - n /\ \A i \in 1..(Len(s) - n) : b[i] = s[n + i]
      OBVIOUS
<1>3. InsertAt(s, n + 1, v) = a \o <<v>> \o b
  <2>1. (n + 1) - 1 = n OBVIOUS
  <2> QED BY ONLY <2>1 DEF InsertAt, a, b
<1>4. Len(s) \in Nat /\ n \in Nat OBVIOUS
<1> HIDE DEF a, b
<1>5. /\ (a \o <<v>>) \in Seq(S) /\ Len(a \o <<v>>) = n + 1
      /\ (a \o <<v>>)[n + 1] = v /\ \A i \in 1..n : (a \o <<v>>)[i] = a[i]
      BY <1>1, <1>4
<1> DEFINE c == a \o <<v>>
<1>6. c \in Seq(S) /\ Len(c) = n + 1 /\ c[n + 1] = v /\ \A i \in 1..n : c[i] = a[i]
      BY <1>5
<1> HIDE DEF c
<1>7. /\ (c \o b) \in Seq(S) /\ Len(c \o b) = Len(s) + 1
      /\ \A i \in 1..(n + 1) : (c \o b)[i] = c[i]
      /\ \A i \in (n + 2)..(Len(s) + 1) : (c \o b)[i] = b[i - (n + 1)]
      BY <1>2, <1>4, <1>6
<1>8. \A i \in (n + 2)..(Len(s) + 1) : b[i - (n + 1)] = s[i - 1]
  <2> TAKE i \in (n + 2)..(Len(s) + 1)
  <2>1. i - (n + 1) \in 1..(Len(s) - n) /\ n + (i - (n + 1)) = i - 1 BY <1>4
  <2> QED BY <1>2, <2>1
<1> DEFINE t == InsertAt(s, n + 1, v)
<1>9. t = c \o b BY <1>3 DEF c
<1> HIDE DEF t
<1>10. t \in Seq(S) /\ Len(t) = Len(s) + 1 /\ t[n + 1] = v BY <1>4, <1>6, <1>7, <1>9
<1>11. \A i \in 1..n : t[i] = s[i] BY <1>1, <1>4, <1>6, <1>7, <1>9
<1>12. \A i \in (n + 2)..(Len(s) + 1) : t[i] = s[i - 1] BY <1>7, <1>8, <1>9
<1>13. IsInserted(t, s, n, v) BY <1>10, <1>11, <1>12 DEF IsInserted
<1> QED BY <1>10, <1>13 DEF t

-----------------------------------------------------------------------------
(* Frames and their slots. *)

Frames == [closure : {Script} \cup DOMAIN closures, slots : Nat \ {0}, locals : Nat \ {0}]

(* The running frame, and the first slot above its variables. *)
LEMMA TopFrame ==
    ASSUME FramesOK, ValuesOK, frames # <<>>
    PROVE  /\ Depth \in Nat /\ Depth >= 1 /\ Top = frames[Depth] /\ Top \in Frames
           /\ Top.slots \in Nat /\ Top.slots >= 1 /\ Top.locals \in Nat /\ Top.locals >= 1
           /\ Len(stack) \in Nat /\ Top.slots + Top.locals <= Len(stack) + 1
           /\ Temps \in Nat /\ Temps = Len(stack) + 1 - (Top.slots + Top.locals)
<1>1. frames \in Seq(Frames) BY DEF FramesOK, Frames
<1>2. Depth \in Nat /\ Depth >= 1 BY <1>1, Empty DEF Depth
<1>3. Top \in Frames /\ Top = frames[Depth] BY <1>1, <1>2 DEF Top, Depth
<1>4. /\ Top.slots \in Nat /\ Top.slots >= 1 /\ Top.locals \in Nat /\ Top.locals >= 1
      BY <1>3 DEF Frames
<1>5. Len(stack) \in Nat BY DEF ValuesOK
<1>6. Top.slots + Top.locals <= Len(stack) + 1 BY DEF FramesOK
<1> QED BY <1>2, <1>3, <1>4, <1>5, <1>6 DEF Temps, StackTop

LEMMA FrameTypes ==
    ASSUME FramesOK
    PROVE  /\ frames \in Seq(Frames) /\ Len(frames) \in Nat
           /\ \A f \in 1..Len(frames) :
                /\ frames[f] \in Frames
                /\ frames[f].slots \in Nat /\ frames[f].slots >= 1
                /\ frames[f].locals \in Nat /\ frames[f].locals >= 1
<1>1. frames \in Seq(Frames) BY DEF FramesOK, Frames
<1>2. \A f \in 1..Len(frames) : frames[f] \in Frames BY <1>1
<1> QED BY <1>1, <1>2 DEF Frames

(* Where the variables end: what is above are temporaries. *)
VariablesEnd == IF frames = <<>> THEN 1 ELSE Top.slots + Top.locals

LEMMA Variables ==
    ASSUME FramesOK, ValuesOK
    PROVE  /\ VariablesEnd \in Nat /\ VariablesEnd >= 1 /\ VariablesEnd <= Len(stack) + 1
           /\ \A p \in Nat : VariableSlot(p) => p >= 2 /\ p < VariablesEnd /\ p <= Len(stack)
           /\ \A p \in Nat, f \in 1..Len(frames) :
                /\ f < Len(frames)
                /\ frames[f].slots < p /\ p < frames[f].slots + frames[f].locals
                => p < Top.slots
<1>1. CASE frames = <<>>
  <2>1. Len(frames) = 0 BY <1>1, FrameTypes, Empty
  <2>2. Len(stack) \in Nat BY DEF ValuesOK
  <2> QED BY <1>1, <2>1, <2>2 DEF VariablesEnd, VariableSlot
<1>2. CASE frames # <<>>
  <2>1. ASSUME NEW p \in Nat, NEW f \in 1..Len(frames), f < Len(frames),
               frames[f].slots < p, p < frames[f].slots + frames[f].locals
        PROVE  p < Top.slots
    <3>1. Len(frames) \in 1..Len(frames) BY <1>2, TopFrame DEF Depth
    <3>2. frames[f].slots + frames[f].locals <= frames[Len(frames)].slots
          BY <2>1, <3>1 DEF FramesOK
    <3>3. Top.slots = frames[Len(frames)].slots BY DEF Top, Depth
    <3>4. Top.slots \in Nat BY <1>2, TopFrame
    <3>5. frames[f].slots + frames[f].locals \in Nat BY FrameTypes
    <3>6. frames[f].slots + frames[f].locals <= Top.slots BY <3>2, <3>3
    <3> QED BY <2>1, <3>4, <3>5, <3>6
  <2>2. ASSUME NEW p \in Nat, VariableSlot(p)
        PROVE  p >= 2 /\ p < VariablesEnd /\ p <= Len(stack)
    <3>1. PICK f \in 1..Len(frames) :
            frames[f].slots < p /\ p < frames[f].slots + frames[f].locals
          BY <2>2 DEF VariableSlot
    <3>2. p >= 2 BY <3>1, FrameTypes
    <3>3. p < Top.slots + Top.locals
      <4>1. CASE f < Len(frames)
        <5>1. p < Top.slots BY <2>1, <3>1, <4>1
        <5> QED BY <5>1, <1>2, TopFrame
      <4>2. CASE ~(f < Len(frames))
        <5>1. f = Len(frames) BY <4>2, FrameTypes
        <5> QED BY <3>1, <5>1 DEF Top, Depth
      <4> QED BY <4>1, <4>2
    <3> QED BY <3>2, <3>3, <1>2, TopFrame DEF VariablesEnd
  <2>3. VariablesEnd \in Nat /\ VariablesEnd >= 1 /\ VariablesEnd <= Len(stack) + 1
        BY <1>2, TopFrame DEF VariablesEnd
  <2> QED BY <2>1, <2>2, <2>3
<1> QED BY <1>1, <1>2

LEMMA SameFrames ==
    ASSUME frames' = frames, NEW p
    PROVE  VariableSlot(p)' <=> VariableSlot(p)
BY DEF VariableSlot

LEMMA NoFrames ==
    ASSUME frames' = <<>>, NEW p
    PROVE  ~VariableSlot(p)'
<1>1. Len(frames') = 0 OBVIOUS
<1> QED BY <1>1 DEF VariableSlot

(* The compiler declares or drops a local of the running frame. *)
LEMMA LocalsSet ==
    ASSUME FramesOK, ValuesOK, frames # <<>>, NEW k \in Nat \ {0}, SetLocals(k)
    PROVE  /\ frames' \in Seq(Frames) /\ Len(frames') = Len(frames) /\ frames' # <<>>
           /\ Top'.slots = Top.slots /\ Top'.locals = k /\ Top'.closure = Top.closure
           /\ frames'[1].slots = 1
           /\ \A f, g \in 1..Len(frames') :
                f < g => frames'[f].slots + frames'[f].locals <= frames'[g].slots
           /\ \A p \in Nat : VariableSlot(p)' <=>
                \/ VariableSlot(p) /\ p < Top.slots
                \/ Top.slots < p /\ p < Top.slots + k
<1>1. frames' = [frames EXCEPT ![Depth].locals = k] BY DEF SetLocals
<1> DEFINE fr == [frames[Depth] EXCEPT !.locals = k]
<1>2. frames' = [frames EXCEPT ![Depth] = fr] BY <1>1
<1>3. /\ Depth \in 1..Len(frames) /\ Len(frames) \in Nat /\ Depth = Len(frames)
      /\ frames \in Seq(Frames)
      BY TopFrame, FrameTypes DEF Depth
<1>4. frames[Depth] \in Frames BY <1>3
<1>5. /\ fr \in Frames /\ fr.slots = frames[Depth].slots /\ fr.locals = k
      /\ fr.closure = frames[Depth].closure
      BY <1>4 DEF Frames
<1> HIDE DEF fr
<1>6. /\ frames' \in Seq(Frames) /\ Len(frames') = Len(frames) /\ frames'[Depth] = fr
      /\ \A f \in 1..Len(frames) : f # Depth => frames'[f] = frames[f]
      BY <1>2, <1>3, <1>5, Replaced
<1>7. \A f \in 1..Len(frames) : /\ frames'[f].slots = frames[f].slots
                                /\ f < Len(frames) => frames'[f].locals = frames[f].locals
      BY <1>3, <1>5, <1>6
<1>8. frames' # <<>>
  <2>1. Len(frames') # 0 BY <1>3, <1>6
  <2> QED BY <2>1, <1>6, Empty
<1>9. Top'.slots = Top.slots /\ Top'.locals = k /\ Top'.closure = Top.closure
  <2>1. Top' = frames'[Depth] BY <1>3, <1>6 DEF Top, Depth
  <2> QED BY <2>1, <1>5, <1>6 DEF Top
<1>10. frames'[1].slots = 1
  <2>1. 1 \in 1..Len(frames) BY <1>3
  <2> QED BY <2>1, <1>7 DEF FramesOK
<1>11. ASSUME NEW f \in 1..Len(frames'), NEW g \in 1..Len(frames'), f < g
       PROVE  frames'[f].slots + frames'[f].locals <= frames'[g].slots
  <2>1. f \in 1..Len(frames) /\ g \in 1..Len(frames) /\ f < Len(frames)
        BY <1>3, <1>6, <1>11
  <2>2. frames[f].slots + frames[f].locals <= frames[g].slots BY <2>1, <1>11 DEF FramesOK
  <2> QED BY <2>1, <2>2, <1>7
<1>12. ASSUME NEW p \in Nat
       PROVE  VariableSlot(p)' <=> \/ VariableSlot(p) /\ p < Top.slots
                                   \/ Top.slots < p /\ p < Top.slots + k
  <2>1. Top.slots = frames[Depth].slots BY DEF Top
  <2>2. ASSUME VariableSlot(p)'
        PROVE  \/ VariableSlot(p) /\ p < Top.slots
               \/ Top.slots < p /\ p < Top.slots + k
    <3>1. PICK f \in 1..Len(frames') :
            frames'[f].slots < p /\ p < frames'[f].slots + frames'[f].locals
          BY <2>2 DEF VariableSlot
    <3>2. CASE f = Depth BY <3>1, <3>2, <1>5, <1>6, <2>1
    <3>3. CASE f # Depth
      <4>1. f \in 1..Len(frames) /\ f < Len(frames) BY <3>3, <1>3, <1>6
      <4>2. frames[f].slots < p /\ p < frames[f].slots + frames[f].locals
            BY <3>1, <3>3, <4>1, <1>6
      <4>3. VariableSlot(p) BY <4>1, <4>2 DEF VariableSlot
      <4>4. p < Top.slots BY <4>1, <4>2, Variables
      <4> QED BY <4>3, <4>4
    <3> QED BY <3>2, <3>3
  <2>3. ASSUME VariableSlot(p), p < Top.slots PROVE VariableSlot(p)'
    <3>1. PICK f \in 1..Len(frames) :
            frames[f].slots < p /\ p < frames[f].slots + frames[f].locals
          BY <2>3 DEF VariableSlot
    <3>2. f # Depth
      <4> SUFFICES ASSUME f = Depth PROVE FALSE OBVIOUS
      <4>1. Top.slots < p BY <3>1, <2>1
      <4> QED BY <4>1, <2>3, TopFrame
    <3>3. frames'[f] = frames[f] /\ f \in 1..Len(frames') BY <3>2, <1>6
    <3> QED BY <3>1, <3>3 DEF VariableSlot
  <2>4. ASSUME Top.slots < p, p < Top.slots + k PROVE VariableSlot(p)'
    <3>1. Depth \in 1..Len(frames') BY <1>3, <1>6
    <3>2. frames'[Depth].slots < p /\ p < frames'[Depth].slots + frames'[Depth].locals
          BY <2>1, <2>4, <1>5, <1>6
    <3> QED BY <3>1, <3>2 DEF VariableSlot
  <2> QED BY <2>2, <2>3, <2>4
<1> QED BY <1>6, <1>8, <1>9, <1>10, <1>11, <1>12

(* A call: one more frame, above the variables of the others. *)
LEMMA FrameAdded ==
    ASSUME FramesOK, ValuesOK, frames # <<>>, NEW fr \in Frames,
           fr.slots >= Top.slots + Top.locals, frames' = Append(frames, fr)
    PROVE  /\ frames' \in Seq(Frames) /\ Len(frames') = Len(frames) + 1 /\ frames' # <<>>
           /\ Top' = fr /\ frames'[1].slots = 1
           /\ \A f, g \in 1..Len(frames') :
                f < g => frames'[f].slots + frames'[f].locals <= frames'[g].slots
           /\ \A p \in Nat : VariableSlot(p)' <=>
                \/ VariableSlot(p)
                \/ fr.slots < p /\ p < fr.slots + fr.locals
<1>1. Len(frames) \in Nat /\ Depth = Len(frames) /\ Depth >= 1 /\ frames \in Seq(Frames)
      BY TopFrame, FrameTypes DEF Depth
<1>2. /\ frames' \in Seq(Frames) /\ Len(frames') = Len(frames) + 1
      /\ frames'[Len(frames) + 1] = fr
      /\ \A f \in 1..Len(frames) : frames'[f] = frames[f]
      BY <1>1, Appended
<1>3. frames' # <<>>
  <2>1. Len(frames') # 0 BY <1>1, <1>2
  <2> QED BY <2>1, <1>2, Empty
<1>4. Top' = fr BY <1>2 DEF Top, Depth
<1>5. frames'[1].slots = 1
  <2>1. 1 \in 1..Len(frames) BY <1>1
  <2> QED BY <2>1, <1>2 DEF FramesOK
<1>6. fr.slots \in Nat /\ fr.locals \in Nat BY DEF Frames
<1>7. ASSUME NEW f \in 1..Len(frames'), NEW g \in 1..Len(frames'), f < g
      PROVE  frames'[f].slots + frames'[f].locals <= frames'[g].slots
  <2>1. f \in 1..Len(frames) BY <1>1, <1>2, <1>7
  <2>2. CASE g \in 1..Len(frames)
    <3>1. frames[f].slots + frames[f].locals <= frames[g].slots BY <2>1, <2>2, <1>7 DEF FramesOK
    <3> QED BY <2>1, <2>2, <3>1, <1>2
  <2>3. CASE g = Len(frames) + 1
    <3>1. CASE f = Len(frames) BY <3>1, <2>1, <2>3, <1>1, <1>2 DEF Top
    <3>2. CASE f # Len(frames)
      <4>1. f < Len(frames) /\ Len(frames) \in 1..Len(frames) BY <3>2, <2>1, <1>1
      <4>2. frames[f].slots + frames[f].locals <= frames[Len(frames)].slots
            BY <4>1, <2>1 DEF FramesOK
      <4>3. frames[f].slots + frames[f].locals <= Top.slots BY <4>2, <1>1 DEF Top
      <4>4. frames[f].slots \in Nat /\ frames[f].locals \in Nat BY <2>1, FrameTypes
      <4>5. Top.slots \in Nat /\ Top.locals \in Nat BY TopFrame
      <4>6. frames[f].slots + frames[f].locals \in Nat BY <4>4
      <4>7. Top.slots <= fr.slots BY <4>5, <1>6
      <4>8. frames[f].slots + frames[f].locals <= fr.slots
            BY <4>3, <4>5, <4>6, <4>7, <1>6
      <4> QED BY <4>8, <2>1, <2>3, <1>2
    <3> QED BY <3>1, <3>2
  <2> QED BY <2>2, <2>3, <1>1, <1>2
<1>8. ASSUME NEW p \in Nat
      PROVE  VariableSlot(p)' <=> \/ VariableSlot(p)
                                  \/ fr.slots < p /\ p < fr.slots + fr.locals
  <2>1. 1..Len(frames') = 1..Len(frames) \cup {Len(frames) + 1} BY <1>1, <1>2
  <2> QED BY <2>1, <1>2 DEF VariableSlot
<1> QED BY <1>2, <1>3, <1>4, <1>5, <1>7, <1>8

(* A return: the frames below the running one are left. *)
LEMMA FrameRemoved ==
    ASSUME FramesOK, ValuesOK, Depth > 1, frames' = Front(frames)
    PROVE  /\ frames' \in Seq(Frames) /\ Len(frames') = Len(frames) - 1 /\ frames' # <<>>
           /\ frames'[1].slots = 1
           /\ \A f \in 1..Len(frames') : frames'[f] = frames[f]
           /\ Top'.slots + Top'.locals <= Top.slots
           /\ \A f, g \in 1..Len(frames') :
                f < g => frames'[f].slots + frames'[f].locals <= frames'[g].slots
           /\ \A p \in Nat : VariableSlot(p)' <=> VariableSlot(p) /\ p < Top.slots
<1>1. Len(frames) \in Nat /\ Depth = Len(frames) /\ frames \in Seq(Frames)
      BY FrameTypes DEF Depth
<1>2. Len(frames) - 1 \in 0..Len(frames) /\ Len(frames) - 1 \in Nat BY <1>1
<1>3. /\ frames' \in Seq(Frames) /\ Len(frames') = Len(frames) - 1
      /\ \A f \in 1..(Len(frames) - 1) : frames'[f] = frames[f]
      BY <1>1, <1>2, Prefix DEF Front
<1>4. frames' # <<>> /\ frames # <<>>
  <2>1. Len(frames') # 0 /\ Len(frames) # 0 BY <1>1, <1>3
  <2> QED BY <2>1, <1>1, <1>3, Empty
<1>5. frames'[1].slots = 1
  <2>1. 1 \in 1..(Len(frames) - 1) BY <1>1
  <2> QED BY <2>1, <1>3, <1>4 DEF FramesOK
<1>6. Top'.slots + Top'.locals <= Top.slots
  <2> DEFINE k == Len(frames) - 1
  <2>1. k \in 1..Len(frames) /\ k \in 1..(Len(frames) - 1) /\ k < Len(frames)
        /\ Len(frames) \in 1..Len(frames)
        BY <1>1
  <2>2. Top' = frames[k] BY <1>3, <2>1 DEF Top, Depth
  <2> HIDE DEF k
  <2>3. frames[k].slots + frames[k].locals <= frames[Len(frames)].slots
        BY <2>1 DEF FramesOK
  <2> QED BY <2>2, <2>3, <1>1 DEF Top
<1>7. ASSUME NEW f \in 1..Len(frames'), NEW g \in 1..Len(frames'), f < g
      PROVE  frames'[f].slots + frames'[f].locals <= frames'[g].slots
  <2>1. f \in 1..Len(frames) /\ g \in 1..Len(frames) BY <1>1, <1>3
  <2>2. frames[f].slots + frames[f].locals <= frames[g].slots BY <2>1, <1>7 DEF FramesOK
  <2> QED BY <2>2, <1>3
<1>8. ASSUME NEW p \in Nat
      PROVE  VariableSlot(p)' <=> VariableSlot(p) /\ p < Top.slots
  <2>1. ASSUME VariableSlot(p)' PROVE VariableSlot(p) /\ p < Top.slots
    <3>1. PICK f \in 1..Len(frames') :
            frames'[f].slots < p /\ p < frames'[f].slots + frames'[f].locals
          BY <2>1 DEF VariableSlot
    <3>2. f \in 1..Len(frames) /\ f < Len(frames) BY <1>1, <1>3
    <3>3. frames[f].slots < p /\ p < frames[f].slots + frames[f].locals BY <3>1, <1>3
    <3> QED BY <3>2, <3>3, Variables DEF VariableSlot
  <2>2. ASSUME VariableSlot(p), p < Top.slots PROVE VariableSlot(p)'
    <3>1. PICK f \in 1..Len(frames) :
            frames[f].slots < p /\ p < frames[f].slots + frames[f].locals
          BY <2>2 DEF VariableSlot
    <3>2. f # Len(frames)
      <4> SUFFICES ASSUME f = Len(frames) PROVE FALSE OBVIOUS
      <4>1. Top.slots < p BY <3>1, <1>1 DEF Top
      <4> QED BY <4>1, <2>2, <1>4, TopFrame
    <3>3. frames'[f] = frames[f] /\ f \in 1..Len(frames') BY <3>2, <1>1, <1>3
    <3> QED BY <3>1, <3>3 DEF VariableSlot
  <2> QED BY <2>1, <2>2
<1> QED BY <1>3, <1>4, <1>5, <1>6, <1>7, <1>8

-----------------------------------------------------------------------------
(* The list of open upvalues. *)

Records == [location : Nat \ {1}, value : Existing]

LEMMA ListTypes ==
    ASSUME ValuesOK, ListOK
    PROVE  /\ openUpvalues \in Seq(DOMAIN upvalues) /\ Len(openUpvalues) \in Nat
           /\ upvalues \in Seq(Records) /\ Len(upvalues) \in Nat
           /\ DOMAIN upvalues = 1..Len(upvalues)
           /\ \A m \in 1..Len(openUpvalues) :
                openUpvalues[m] \in 1..Len(upvalues) /\ Location(m) \in Nat
           /\ \A u \in 1..Len(upvalues) :
                upvalues[u] \in Records /\ upvalues[u].location \in Nat
<1>1. openUpvalues \in Seq(DOMAIN upvalues) BY DEF ListOK
<1>2. upvalues \in Seq(Records) BY DEF ValuesOK, Records
<1>3. DOMAIN upvalues = 1..Len(upvalues) /\ Len(upvalues) \in Nat BY <1>2
<1>4. \A m \in 1..Len(openUpvalues) : openUpvalues[m] \in 1..Len(upvalues) BY <1>1, <1>3
<1>5. \A u \in 1..Len(upvalues) : upvalues[u] \in Records BY <1>2
<1>6. \A u \in 1..Len(upvalues) : upvalues[u].location \in Nat BY <1>5 DEF Records
<1> QED BY <1>1, <1>2, <1>3, <1>4, <1>5, <1>6 DEF Location

(* The walk of captureUpvalue and closeUpvalues stops where the list passes the *)
(* slot, because the list is sorted.                                            *)
LEMMA WalkStops ==
    ASSUME ValuesOK, ListOK, NEW slot \in Nat
    PROVE  /\ Above(slot) \in 0..Len(openUpvalues)
           /\ \A m \in 1..Len(openUpvalues) : m <= Above(slot) <=> Location(m) > slot
<1> DEFINE Stops(n) ==
        /\ \A m \in 1..n : upvalues[openUpvalues[m]].location > slot
        /\ n < Len(openUpvalues) => upvalues[openUpvalues[n + 1]].location <= slot
    S == {m \in 1..Len(openUpvalues) : Location(m) <= slot}
<1>1. Len(openUpvalues) \in Nat /\ \A m \in 1..Len(openUpvalues) : Location(m) \in Nat
      BY ListTypes
<1>2. \E n \in 0..Len(openUpvalues) : Stops(n)
  <2>1. CASE S = {}
    <3>1. \A m \in 1..Len(openUpvalues) : Location(m) > slot BY <2>1, <1>1
    <3>2. Stops(Len(openUpvalues)) BY <3>1, <1>1 DEF Location
    <3> QED BY <3>2, <1>1
  <2>2. CASE S # {}
    <3>1. S \in SUBSET Nat OBVIOUS
    <3>2. PICK k \in S : \A m \in S : k <= m BY <2>2, <3>1, LeastNat
    <3>3. k \in 1..Len(openUpvalues) /\ Location(k) <= slot OBVIOUS
    <3>4. \A m \in 1..(k - 1) : m \in 1..Len(openUpvalues) /\ ~(k <= m) BY <3>3, <1>1
    <3>5. \A m \in 1..(k - 1) : Location(m) > slot BY <3>2, <3>4, <1>1
    <3>6. (k - 1) + 1 = k /\ k - 1 \in 0..Len(openUpvalues) BY <3>3, <1>1
    <3>7. Stops(k - 1) BY <3>3, <3>5, <3>6 DEF Location
    <3> QED BY <3>6, <3>7
  <2> QED BY <2>1, <2>2
<1>3. Above(slot) = CHOOSE n \in 0..Len(openUpvalues) : Stops(n) BY DEF Above
<1>4. Above(slot) \in 0..Len(openUpvalues) /\ Stops(Above(slot))
  <2> HIDE DEF Stops
  <2> QED BY <1>2, <1>3
<1> DEFINE a == Above(slot)
<1>5. a \in 0..Len(openUpvalues) /\ Stops(a) BY <1>4
<1> HIDE DEF a
<1>6. \A m \in 1..Len(openUpvalues) : m <= a => Location(m) > slot
      BY <1>5 DEF Location
<1>7. ASSUME NEW m \in 1..Len(openUpvalues), m > a PROVE Location(m) <= slot
  <2>1. a + 1 \in 1..Len(openUpvalues) /\ a < Len(openUpvalues) BY <1>5, <1>7, <1>1
  <2>2. Location(a + 1) <= slot BY <2>1, <1>5 DEF Location
  <2>3. CASE m = a + 1 BY <2>2, <2>3
  <2>4. CASE m # a + 1
    <3>1. a + 1 < m BY <2>4, <1>5, <1>7
    <3>2. Location(a + 1) > Location(m) BY <2>1, <3>1 DEF ListOK
    <3> QED BY <2>1, <2>2, <3>2, <1>1
  <2> QED BY <2>3, <2>4
<1>8. \A m \in 1..Len(openUpvalues) : m <= a <=> Location(m) > slot
  <2> TAKE m \in 1..Len(openUpvalues)
  <2>1. Location(m) \in Nat /\ a \in Nat BY <1>1, <1>5
  <2>2. m <= a => Location(m) > slot BY <1>6
  <2>3. m > a => Location(m) <= slot BY <1>7
  <2> QED BY <2>1, <2>2, <2>3
<1> QED BY <1>4, <1>8 DEF a

(* What a step may do to the list: it loses the upvalues of the slots from last *)
(* up, which are then closed, and keeps the others.                             *)
Cut(last) ==
    /\ upvalues' \in Seq([location : Nat \ {1}, value : Existing'])
    /\ Len(upvalues') = Len(upvalues)
    /\ \A u \in 1..Len(upvalues) :
         upvalues'[u].location = IF OnList(u) /\ upvalues[u].location >= last
                                   THEN 0 ELSE upvalues[u].location
    /\ openUpvalues' \in Seq(DOMAIN upvalues)
    /\ \A m, n \in 1..Len(openUpvalues') : m < n => Location(m)' > Location(n)'
    /\ \A u \in 1..Len(upvalues) : OnList(u)' <=> OnList(u) /\ upvalues[u].location < last

LEMMA OnListTypes ==
    ASSUME ValuesOK, ListOK, FramesOK, NEW u, OnList(u)
    PROVE  /\ u \in 1..Len(upvalues) /\ upvalues[u].location \in Nat
           /\ VariableSlot(upvalues[u].location) /\ cell[upvalues[u].location] = cellOf[u]
           /\ upvalues[u].location >= 2 /\ upvalues[u].location <= Len(stack)
           /\ upvalues[u].location < VariablesEnd
<1>1. PICK m \in 1..Len(openUpvalues) : openUpvalues[m] = u BY DEF OnList
<1>2. u \in 1..Len(upvalues) /\ Location(m) = upvalues[u].location /\ Location(m) \in Nat
      BY <1>1, ListTypes DEF Location
<1>3. VariableSlot(Location(m)) /\ cell[Location(m)] = cellOf[u] BY <1>1 DEF ListOK
<1> QED BY <1>2, <1>3, Variables

(* Nothing is closed when the slots of the list are all below. *)
LEMMA UncutBelow ==
    ASSUME FramesOK, ValuesOK, ListOK, NEW last \in Nat, openUpvalues' = openUpvalues,
           upvalues' \in Seq([location : Nat \ {1}, value : Existing']),
           Len(upvalues') = Len(upvalues),
           \A u \in 1..Len(upvalues) : upvalues'[u].location = upvalues[u].location,
           \A u \in 1..Len(upvalues) : OnList(u) => upvalues[u].location < last
    PROVE  Cut(last)
<1>1. \A u \in 1..Len(upvalues) : OnList(u)' <=> OnList(u) BY DEF OnList
<1>2. ASSUME NEW u \in 1..Len(upvalues), OnList(u)
      PROVE  upvalues[u].location < last /\ ~(upvalues[u].location >= last)
  <2>1. upvalues[u].location \in Nat BY ListTypes
  <2>2. upvalues[u].location < last BY <1>2
  <2> QED BY <2>1, <2>2
<1>3. \A m \in 1..Len(openUpvalues) : Location(m)' = Location(m)
      BY ListTypes DEF Location
<1>4. \A m, n \in 1..Len(openUpvalues') : m < n => Location(m)' > Location(n)'
      BY <1>3 DEF ListOK
<1>5. openUpvalues' \in Seq(DOMAIN upvalues) BY ListTypes
<1> QED BY <1>1, <1>2, <1>4, <1>5 DEF Cut

(* Most instructions leave the list alone. *)
LEMMA Uncut ==
    ASSUME FramesOK, ValuesOK, ListOK, openUpvalues' = openUpvalues,
           upvalues' \in Seq([location : Nat \ {1}, value : Existing']),
           Len(upvalues') = Len(upvalues),
           \A u \in 1..Len(upvalues) : upvalues'[u].location = upvalues[u].location
    PROVE  Cut(VariablesEnd)
<1>1. VariablesEnd \in Nat BY Variables
<1>2. \A u \in 1..Len(upvalues) : OnList(u) => upvalues[u].location < VariablesEnd
      BY OnListTypes
<1> QED BY <1>1, <1>2, UncutBelow

(* closeUpvalues. *)
LEMMA Closed ==
    ASSUME FramesOK, ValuesOK, ListOK, NEW last \in Nat \ {0}, CloseUpvalues(last),
           closures' = closures
    PROVE  /\ Cut(last)
           /\ \A u \in 1..Len(upvalues) :
                upvalues'[u] = IF OnList(u) /\ upvalues[u].location >= last
                                 THEN [location |-> 0, value |-> stack[upvalues[u].location]]
                                 ELSE upvalues[u]
<1> DEFINE n == Above(last - 1)
           closed == {openUpvalues[m] : m \in 1..n}
<1>1. last - 1 \in Nat OBVIOUS
<1>2. /\ n \in 0..Len(openUpvalues)
      /\ \A m \in 1..Len(openUpvalues) : m <= n <=> Location(m) > last - 1
      BY <1>1, WalkStops
<1>3. /\ openUpvalues' = SubSeq(openUpvalues, n + 1, Len(openUpvalues))
      /\ upvalues' = [u \in DOMAIN upvalues |->
                        IF u \in closed
                          THEN [location |-> 0, value |-> stack[upvalues[u].location]]
                          ELSE upvalues[u]]
      BY DEF CloseUpvalues
<1> HIDE DEF n
<1>4. \A m \in 1..Len(openUpvalues) : m <= n <=> Location(m) >= last
      BY <1>1, <1>2, ListTypes
<1>5. ASSUME NEW u PROVE u \in closed <=> OnList(u) /\ upvalues[u].location >= last
  <2>1. ASSUME u \in closed PROVE OnList(u) /\ upvalues[u].location >= last
    <3>1. PICK m \in 1..n : u = openUpvalues[m] BY <2>1
    <3>2. m \in 1..Len(openUpvalues) /\ m <= n BY <1>2
    <3> QED BY <3>1, <3>2, <1>4 DEF OnList, Location
  <2>2. ASSUME OnList(u), upvalues[u].location >= last PROVE u \in closed
    <3>1. PICK m \in 1..Len(openUpvalues) : u = openUpvalues[m] BY <2>2 DEF OnList
    <3>2. m <= n BY <3>1, <2>2, <1>4 DEF Location
    <3>3. m \in 1..n BY <3>2, <1>2
    <3> QED BY <3>1, <3>3
  <2> QED BY <2>1, <2>2
<1> HIDE DEF closed
<1>6. \A u \in 1..Len(upvalues) :
        upvalues'[u] = IF OnList(u) /\ upvalues[u].location >= last
                         THEN [location |-> 0, value |-> stack[upvalues[u].location]]
                         ELSE upvalues[u]
      BY <1>3, <1>5, ListTypes
<1>7. Existing' = Existing BY DEF Existing
<1>8. \A u \in 1..Len(upvalues) : upvalues'[u] \in Records
  <2> TAKE u \in 1..Len(upvalues)
  <2>1. CASE OnList(u) /\ upvalues[u].location >= last
    <3>1. upvalues[u].location \in 2..Len(stack) BY <2>1, OnListTypes, Variables, ListTypes
    <3>2. stack[upvalues[u].location] \in Existing BY <3>1 DEF ValuesOK
    <3>3. upvalues'[u] = [location |-> 0, value |-> stack[upvalues[u].location]] BY <2>1, <1>6
    <3> QED BY <3>2, <3>3 DEF Records
  <2>2. CASE ~(OnList(u) /\ upvalues[u].location >= last)
    <3>1. upvalues'[u] = upvalues[u] BY <2>2, <1>6
    <3> QED BY <3>1, ListTypes
  <2> QED BY <2>1, <2>2
<1>9. upvalues' \in Seq(Records) /\ Len(upvalues') = Len(upvalues)
  <2>1. /\ DOMAIN upvalues' = 1..Len(upvalues) /\ Len(upvalues) \in Nat
        /\ upvalues' = [u \in 1..Len(upvalues) |-> upvalues'[u]]
        BY <1>3, ListTypes
  <2>2. upvalues' \in [1..Len(upvalues) -> Records] BY <2>1, <1>8, Zenon
  <2> QED BY <2>1, <2>2
<1>10. /\ openUpvalues' \in Seq(DOMAIN upvalues)
       /\ Len(openUpvalues') = Len(openUpvalues) - n
       /\ \A m \in 1..(Len(openUpvalues) - n) : openUpvalues'[m] = openUpvalues[n + m]
       BY <1>2, <1>3, ListTypes
<1>11. \A m \in 1..(Len(openUpvalues) - n) :
         /\ n + m \in 1..Len(openUpvalues) /\ n + m > n
         /\ Location(m)' = Location(n + m)
  <2> TAKE m \in 1..(Len(openUpvalues) - n)
  <2> DEFINE k == n + m
  <2>1. k \in 1..Len(openUpvalues) /\ k > n /\ ~(k <= n) BY <1>2, ListTypes
  <2> HIDE DEF k
  <2>2. openUpvalues'[m] = openUpvalues[k] BY <1>10 DEF k
  <2>3. Location(k) < last BY <2>1, <1>4, ListTypes
  <2>4. openUpvalues[k] \in 1..Len(upvalues) BY <2>1, ListTypes
  <2>5. upvalues'[openUpvalues[k]].location = upvalues[openUpvalues[k]].location
    <3>1. ~(upvalues[openUpvalues[k]].location >= last)
          BY <2>1, <2>3, ListTypes DEF Location
    <3> QED BY <3>1, <2>4, <1>6
  <2>6. Location(m)' = Location(k) BY <2>2, <2>5 DEF Location
  <2> QED BY <2>1, <2>6 DEF k
<1>12. \A m, l \in 1..Len(openUpvalues') : m < l => Location(m)' > Location(l)'
  <2> SUFFICES ASSUME NEW m \in 1..Len(openUpvalues'), NEW l \in 1..Len(openUpvalues'), m < l
               PROVE  Location(m)' > Location(l)'
      OBVIOUS
  <2>1. m \in 1..(Len(openUpvalues) - n) /\ l \in 1..(Len(openUpvalues) - n) BY <1>10
  <2> DEFINE m1 == n + m
             l1 == n + l
  <2>2. m1 < l1 BY <1>2
  <2>3. /\ m1 \in 1..Len(openUpvalues) /\ l1 \in 1..Len(openUpvalues)
        /\ Location(m)' = Location(m1) /\ Location(l)' = Location(l1)
        BY <2>1, <1>11
  <2> HIDE DEF m1, l1
  <2> QED BY <2>2, <2>3 DEF ListOK
<1>13. ASSUME NEW u \in 1..Len(upvalues)
       PROVE  OnList(u)' <=> OnList(u) /\ upvalues[u].location < last
  <2>1. ASSUME OnList(u)' PROVE OnList(u) /\ upvalues[u].location < last
    <3>1. PICK m \in 1..Len(openUpvalues') : openUpvalues'[m] = u BY <2>1 DEF OnList
    <3> DEFINE k == n + m
    <3>2. m \in 1..(Len(openUpvalues) - n) BY <1>10
    <3>3. k \in 1..Len(openUpvalues) /\ ~(k <= n) /\ openUpvalues[k] = u
          BY <3>1, <3>2, <1>2, <1>10, <1>11
    <3> HIDE DEF k
    <3>4. ~(Location(k) >= last) BY <3>3, <1>4
    <3> QED BY <3>3, <3>4, ListTypes DEF OnList, Location
  <2>2. ASSUME OnList(u), upvalues[u].location < last PROVE OnList(u)'
    <3>1. PICK k \in 1..Len(openUpvalues) : openUpvalues[k] = u BY <2>2 DEF OnList
    <3>2. ~(Location(k) >= last) BY <3>1, <2>2, ListTypes DEF Location
    <3>3. ~(k <= n) BY <3>2, <1>4
    <3> DEFINE m == k - n
    <3>4. m \in 1..(Len(openUpvalues) - n) /\ n + m = k BY <3>3, <1>2, ListTypes
    <3> HIDE DEF m
    <3>5. m \in 1..Len(openUpvalues') /\ openUpvalues'[m] = u BY <3>1, <3>4, <1>10
    <3> QED BY <3>5 DEF OnList
  <2> QED BY <2>1, <2>2
<1>14. \A u \in 1..Len(upvalues) :
         upvalues'[u].location = IF OnList(u) /\ upvalues[u].location >= last
                                   THEN 0 ELSE upvalues[u].location
  <2> TAKE u \in 1..Len(upvalues)
  <2>1. CASE OnList(u) /\ upvalues[u].location >= last
    <3>1. upvalues'[u] = [location |-> 0, value |-> stack[upvalues[u].location]] BY <2>1, <1>6
    <3> QED BY <2>1, <3>1
  <2>2. CASE ~(OnList(u) /\ upvalues[u].location >= last)
    <3>1. upvalues'[u] = upvalues[u] BY <2>2, <1>6
    <3> QED BY <2>2, <3>1, Zenon
  <2> QED BY <2>1, <2>2
<1>15. Cut(last) BY <1>7, <1>9, <1>10, <1>12, <1>13, <1>14 DEF Cut, Records
<1> QED BY <1>6, <1>15

-----------------------------------------------------------------------------
(* What a step does to the slots. *)

(* Below last the slots keep their variables; above it a slot holds a temporary *)
(* or a new variable.                                                           *)
NewSlots(last) ==
    /\ cell' \in Seq(Cells \cup {NoCell}) /\ Len(cell') = Len(stack') /\ cellOf' = cellOf
    /\ last - 1 <= Len(cell') /\ last - 1 <= Len(cell)
    /\ \A p \in 1..Len(cell') :
         p < last => cell'[p] = cell[p] /\ (VariableSlot(p)' <=> VariableSlot(p))
    /\ \A p \in 1..Len(cell') :
         p >= last => \/ cell'[p] = NoCell /\ ~VariableSlot(p)'
                      \/ cell'[p] \in FreeCells /\ VariableSlot(p)'
    /\ \A p, q \in 1..Len(cell') :
         p >= last /\ q >= last /\ cell'[p] # NoCell /\ cell'[p] = cell'[q] => p = q

LEMMA FreeCellsNew ==
    ASSUME CellsOK, NEW c \in FreeCells
    PROVE  /\ c \in Cells /\ c # NoCell
           /\ \A p \in 1..Len(cell) : cell[p] # c
           /\ \A u \in 1..Len(cellOf) : cellOf[u] # c
<1>1. c \in Cells /\ c # NoCell BY DataAssumption DEF FreeCells
<1>2. \A p \in 1..Len(cell) : cell[p] # c BY Elements DEF FreeCells, CellsOK
<1>3. \A u \in 1..Len(cellOf) : cellOf[u] # c BY Elements DEF FreeCells, CellsOK
<1> QED BY <1>1, <1>2, <1>3

LEMMA CellTypes ==
    ASSUME CellsOK, ValuesOK
    PROVE  /\ Len(cell) = Len(stack) /\ Len(stack) \in Nat /\ Len(cellOf) = Len(upvalues)
           /\ cell \in Seq(Cells \cup {NoCell}) /\ cellOf \in Seq(Cells)
           /\ Len(upvalues) \in Nat
           /\ \A p \in 1..Len(cell) : cell[p] \in Cells \cup {NoCell}
           /\ \A u \in 1..Len(cellOf) : cellOf[u] \in Cells /\ cellOf[u] # NoCell
<1>1. cellOf \in Seq(Cells) /\ cell \in Seq(Cells \cup {NoCell}) BY DEF CellsOK
<1>2. \A u \in 1..Len(cellOf) : cellOf[u] \in Cells BY <1>1
<1>3. \A p \in 1..Len(cell) : cell[p] \in Cells \cup {NoCell} BY <1>1
<1>4. Len(stack) \in Nat /\ Len(upvalues) \in Nat BY DEF ValuesOK
<1> QED BY <1>1, <1>2, <1>3, <1>4, DataAssumption DEF CellsOK

LEMMA NewSlotsCells ==
    ASSUME CellsOK, ValuesOK, NEW last \in Nat \ {0}, NewSlots(last), Len(upvalues') = Len(upvalues)
    PROVE  CellsOK'
<1>1. /\ Len(cell) = Len(stack) /\ Len(stack) \in Nat /\ Len(cell') \in Nat
      /\ cellOf \in Seq(Cells) /\ Len(cellOf) = Len(upvalues) /\ cellOf' = cellOf
      /\ cell' \in Seq(Cells \cup {NoCell}) /\ Len(cell') = Len(stack')
      BY CellTypes DEF NewSlots
<1>2. ASSUME NEW p \in 1..Len(cell') PROVE cell'[p] # NoCell <=> VariableSlot(p)'
  <2>1. CASE p < last
    <3>1. p \in 1..Len(cell) BY <2>1, <1>1 DEF NewSlots
    <3>2. cell'[p] = cell[p] /\ (VariableSlot(p)' <=> VariableSlot(p)) BY <2>1 DEF NewSlots
    <3>3. cell[p] # NoCell <=> VariableSlot(p) BY <3>1 DEF CellsOK
    <3> QED BY <3>2, <3>3
  <2>2. CASE ~(p < last)
    <3>1. p >= last BY <2>2
    <3>2. CASE cell'[p] = NoCell /\ ~VariableSlot(p)' BY <3>2
    <3>3. CASE cell'[p] \in FreeCells /\ VariableSlot(p)' BY <3>3, FreeCellsNew
    <3> QED BY <3>1, <3>2, <3>3 DEF NewSlots
  <2> QED BY <2>1, <2>2
<1>3. ASSUME NEW p \in 1..Len(cell'), NEW q \in 1..Len(cell'), p < last, q >= last,
             cell'[p] # NoCell
      PROVE  cell'[p] # cell'[q]
  <2>1. p \in 1..Len(cell) /\ cell'[p] = cell[p] BY <1>1, <1>3 DEF NewSlots
  <2>2. cell'[q] = NoCell \/ cell'[q] \in FreeCells BY <1>3 DEF NewSlots
  <2> QED BY <1>3, <2>1, <2>2, FreeCellsNew
<1>4. ASSUME NEW p \in 1..Len(cell'), NEW q \in 1..Len(cell'), cell'[p] # NoCell,
             cell'[p] = cell'[q]
      PROVE  p = q
  <2>1. CASE p < last /\ q < last
    <3>1. p \in 1..Len(cell) /\ cell'[p] = cell[p] BY <1>1, <2>1 DEF NewSlots
    <3>2. q \in 1..Len(cell) /\ cell'[q] = cell[q] BY <1>1, <2>1 DEF NewSlots
    <3> QED BY <1>4, <3>1, <3>2 DEF CellsOK
  <2>2. CASE p < last /\ ~(q < last)
    <3>1. q >= last BY <2>2
    <3> QED BY <1>4, <2>2, <3>1, <1>3
  <2>3. CASE ~(p < last) /\ q < last
    <3>1. p >= last BY <2>3
    <3> QED BY <1>4, <2>3, <3>1, <1>3
  <2>4. CASE ~(p < last) /\ ~(q < last)
    <3>1. p >= last /\ q >= last BY <2>4
    <3> QED BY <1>4, <3>1 DEF NewSlots
  <2> QED BY <2>1, <2>2, <2>3, <2>4
<1>5. Len(cellOf') = Len(upvalues') /\ cellOf' \in Seq(Cells) BY <1>1
<1> QED BY <1>1, <1>2, <1>4, <1>5 DEF CellsOK

(* The list, the variables and their identities stay in step. *)
LEMMA StepKeeps ==
    ASSUME IInv, NEW last \in Nat \ {0}, Cut(last), NewSlots(last),
           ~ContinueOnError /\ status' # "failed" => status # "failed"
    PROVE  CellsOK' /\ ListOK' /\ OwnersOK' /\ AllListed'
<1>0. FramesOK /\ ValuesOK /\ CellsOK /\ ListOK /\ OwnersOK /\ AllListed BY DEF IInv
<1>1. /\ Len(upvalues') = Len(upvalues) /\ Len(upvalues) \in Nat
      /\ upvalues' \in Seq([location : Nat \ {1}, value : Existing'])
      BY <1>0, ListTypes DEF Cut
<1>2. CellsOK' BY <1>0, <1>1, NewSlotsCells
<1>3. DOMAIN upvalues' = DOMAIN upvalues BY <1>0, <1>1, ListTypes
<1>4. openUpvalues' \in Seq(DOMAIN upvalues) BY DEF Cut
<1>5. ASSUME NEW u \in 1..Len(upvalues), OnList(u)'
      PROVE  \E p \in Nat : /\ p = upvalues[u].location /\ p = upvalues'[u].location
                            /\ VariableSlot(p)' /\ cell'[p] = cellOf[u]
  <2>1. OnList(u) /\ upvalues[u].location < last BY <1>5 DEF Cut
  <2>2. PICK p \in Nat : p = upvalues[u].location BY <1>0, ListTypes
  <2>3. VariableSlot(p) /\ cell[p] = cellOf[u] /\ p >= 2 BY <2>1, <2>2, <1>0, OnListTypes
  <2>4. upvalues'[u].location = p
    <3>1. ~(upvalues[u].location >= last) BY <2>1, <2>2
    <3> QED BY <2>2, <3>1 DEF Cut
  <2>5. p \in 1..Len(cell') BY <2>1, <2>2, <2>3, <1>0, CellTypes DEF NewSlots
  <2>6. cell'[p] = cell[p] /\ (VariableSlot(p)' <=> VariableSlot(p))
        BY <2>1, <2>2, <2>5 DEF NewSlots
  <2> QED BY <2>2, <2>3, <2>4, <2>6
<1>6. ListOK'
  <2>1. ASSUME NEW m \in 1..Len(openUpvalues')
        PROVE  VariableSlot(Location(m))' /\ cell'[Location(m)'] = cellOf'[openUpvalues'[m]]
    <3>1. openUpvalues'[m] \in 1..Len(upvalues) BY <1>4, <1>0, ListTypes
    <3>2. PICK u \in 1..Len(upvalues) : u = openUpvalues'[m] BY <3>1
    <3>3. OnList(u)' BY <3>2 DEF OnList
    <3>4. PICK p \in Nat : /\ p = upvalues'[u].location
                           /\ VariableSlot(p)' /\ cell'[p] = cellOf[u]
          BY <3>3, <1>5
    <3>5. Location(m)' = p BY <3>2, <3>4 DEF Location
    <3>6. VariableSlot(Location(m))' BY <3>4, <3>5 DEF VariableSlot
    <3>7. cellOf' = cellOf BY DEF NewSlots
    <3> QED BY <3>2, <3>4, <3>5, <3>6, <3>7
  <2>2. \A m, n \in 1..Len(openUpvalues') : m < n => Location(m)' > Location(n)' BY DEF Cut
  <2>3. openUpvalues' \in Seq(DOMAIN upvalues') BY <1>3, <1>4
  <2> QED BY <2>1, <2>2, <2>3 DEF ListOK
<1>7. OwnersOK'
  <2>1. cellOf' = cellOf BY DEF NewSlots
  <2>2. ASSUME NEW u \in 1..Len(upvalues), NEW p \in 1..Len(cell'), cellOf[u] = cell'[p]
        PROVE  OnList(u)'
    <3>1. u \in 1..Len(cellOf) /\ cellOf[u] # NoCell BY <1>0, CellTypes
    <3>2. p < last
      <4> SUFFICES ASSUME p >= last PROVE FALSE OBVIOUS
      <4>1. cell'[p] = NoCell \/ cell'[p] \in FreeCells BY <3>2 DEF NewSlots
      <4> QED BY <2>2, <3>1, <4>1, <1>0, FreeCellsNew
    <3>3. p \in 1..Len(cell) /\ cell'[p] = cell[p] BY <3>2, <1>0, CellTypes DEF NewSlots
    <3>4. OnList(u) BY <2>2, <3>3, <1>0 DEF OwnersOK
    <3> DEFINE q == upvalues[u].location
    <3>5. q \in Nat /\ q >= 2 /\ q <= Len(stack) /\ cell[q] = cellOf[u]
          BY <3>4, <1>0, OnListTypes
    <3> HIDE DEF q
    <3>6. q \in 1..Len(cell) BY <3>5, <1>0, CellTypes
    <3>7. q = p BY <2>2, <3>1, <3>3, <3>5, <3>6, <1>0 DEF CellsOK
    <3>8. q < last BY <3>2, <3>7
    <3> QED BY <3>4, <3>8 DEF q, Cut
  <2> QED BY <2>1, <2>2, <1>0, <1>1 DEF OwnersOK
<1>8. AllListed'
  <2> SUFFICES ASSUME ~ContinueOnError, status' # "failed", NEW u \in 1..Len(upvalues'), Open(u)'
               PROVE  OnList(u)'
      BY DEF AllListed
  <2>1. u \in 1..Len(upvalues) BY <1>1
  <2>2. upvalues'[u].location # 0 BY DEF Open
  <2>3. /\ ~(OnList(u) /\ upvalues[u].location >= last)
        /\ upvalues'[u].location = upvalues[u].location
        BY <2>1, <2>2 DEF Cut
  <2>4. Open(u) BY <2>2, <2>3 DEF Open
  <2>5. OnList(u) BY <2>1, <2>4, <1>0 DEF AllListed
  <2>6. upvalues[u].location < last BY <2>3, <2>5, <1>0, OnListTypes
  <2> QED BY <2>1, <2>5, <2>6 DEF Cut
<1> QED BY <1>2, <1>6, <1>7, <1>8

-----------------------------------------------------------------------------
(* Instructions that leave the frames as they are. *)

LEMMA InvParts ==
    ASSUME IInv
    PROVE  /\ FramesOK /\ ValuesOK /\ CellsOK /\ ListOK /\ OwnersOK /\ AllListed
           /\ status \in {"idle", "running", "failed"} /\ capturing \in BOOLEAN
           /\ (Running \/ capturing) => status = "running" /\ frames # <<>>
BY DEF IInv, Running, FramesOK

(* The frames still fit their closures and the stack. *)
LEMMA FramesStay ==
    ASSUME IInv, frames # <<>>, frames' = frames, status' = status,
           capturing' \in BOOLEAN, capturing' => capturing \/ closures' # <<>>,
           closures' \in Seq([arity : Nat, upvalues : Seq(DOMAIN upvalues')]),
           Len(closures') >= Len(closures), VariablesEnd - 1 <= Len(stack'),
           Len(stack') \in Nat
    PROVE  FramesOK'
<1>0. FramesOK /\ ValuesOK BY InvParts
<1>1. status = "running" BY <1>0 DEF FramesOK
<1>2. DOMAIN closures = 1..Len(closures) /\ Len(closures) \in Nat BY <1>0 DEF ValuesOK
<1>3. DOMAIN closures' = 1..Len(closures') /\ Len(closures') \in Nat OBVIOUS
<1>4. Frames \subseteq Frames' BY <1>2, <1>3 DEF Frames
<1>5. frames' \in Seq([closure : {Script} \cup DOMAIN closures',
                       slots : Nat \ {0}, locals : Nat \ {0}])
  <2>1. frames \in Seq(Frames) BY <1>0, FrameTypes
  <2>2. frames \in Seq(Frames') BY <2>1, <1>4
  <2> QED BY <2>2 DEF Frames
<1>6. capturing' => closures' # <<>>
  <2> SUFFICES ASSUME capturing, closures' = <<>> PROVE FALSE OBVIOUS
  <2>1. closures # <<>> BY <1>0 DEF FramesOK
  <2>2. Len(closures) > 0 BY <2>1, <1>0, Empty DEF ValuesOK
  <2>3. Len(closures') = 0 OBVIOUS
  <2> QED BY <2>2, <2>3, <1>2
<1>7. Top'.slots + Top'.locals <= Len(stack') + 1
  <2>1. Top' = Top BY DEF Top, Depth
  <2>2. VariablesEnd = Top.slots + Top.locals BY DEF VariablesEnd
  <2>3. VariablesEnd \in Nat BY <1>0, Variables
  <2> QED BY <2>1, <2>2, <2>3
<1> QED BY <1>0, <1>1, <1>5, <1>6, <1>7 DEF FramesOK

(* An instruction on the temporaries, or on the contents of the variables. *)
LEMMA TempsStep ==
    ASSUME IInv, frames # <<>>, frames' = frames, status' = status,
           capturing' \in BOOLEAN, capturing' => capturing \/ closures' # <<>>,
           openUpvalues' = openUpvalues, cellOf' = cellOf, ValuesOK',
           Len(upvalues') = Len(upvalues), Len(closures') >= Len(closures),
           \A u \in 1..Len(upvalues) : upvalues'[u].location = upvalues[u].location,
           cell' \in Seq(Cells \cup {NoCell}), Len(cell') = Len(stack'),
           VariablesEnd - 1 <= Len(stack'),
           \A p \in 1..Len(cell') : IF p <= Len(cell) THEN cell'[p] = cell[p]
                                                      ELSE cell'[p] = NoCell
    PROVE  IInv'
<1>0. /\ FramesOK /\ ValuesOK /\ CellsOK /\ ListOK
      /\ status \in {"idle", "running", "failed"}
      BY InvParts
<1>1. Len(stack') \in Nat BY DEF ValuesOK
<1>2. FramesOK'
  <2>1. closures' \in Seq([arity : Nat, upvalues : Seq(DOMAIN upvalues')]) BY DEF ValuesOK
  <2> QED BY <2>1, <1>1, FramesStay
<1>3. VariablesEnd \in Nat \ {0} /\ VariablesEnd <= Len(stack) + 1 /\ Len(stack) \in Nat
      BY <1>0, Variables, CellTypes
<1>4. Cut(VariablesEnd)
  <2>1. upvalues' \in Seq([location : Nat \ {1}, value : Existing']) BY DEF ValuesOK
  <2> QED BY <1>0, <2>1, Uncut
<1>5. NewSlots(VariablesEnd)
  <2>1. Len(cell) = Len(stack) /\ Len(cell') \in Nat BY <1>0, CellTypes
  <2>2. \A p \in 1..Len(cell') : VariableSlot(p)' <=> VariableSlot(p) BY SameFrames
  <2>3. ASSUME NEW p \in 1..Len(cell'), p >= VariablesEnd
        PROVE  cell'[p] = NoCell /\ ~VariableSlot(p)'
    <3>1. ~VariableSlot(p) BY <2>3, <1>0, <1>3, Variables
    <3>2. CASE p <= Len(cell)
      <4>1. p \in 1..Len(cell) /\ cell'[p] = cell[p] BY <3>2, <2>1, <1>3
      <4> QED BY <4>1, <3>1, <2>2, <1>0 DEF CellsOK
    <3>3. CASE ~(p <= Len(cell)) BY <3>1, <3>3, <2>2
    <3> QED BY <3>2, <3>3
  <2>4. ASSUME NEW p \in 1..Len(cell'), p < VariablesEnd PROVE cell'[p] = cell[p]
    <3>1. p <= Len(cell) BY <2>1, <2>4, <1>3
    <3> QED BY <3>1
  <2>5. VariablesEnd - 1 <= Len(cell') /\ VariablesEnd - 1 <= Len(cell) BY <2>1, <1>3
  <2> QED BY <2>2, <2>3, <2>4, <2>5 DEF NewSlots
<1>6. CellsOK' /\ ListOK' /\ OwnersOK' /\ AllListed' BY <1>3, <1>4, <1>5, StepKeeps
<1> QED BY <1>0, <1>2, <1>6 DEF IInv

(* ... that creates no closure. *)
LEMMA TempStep ==
    ASSUME IInv, frames # <<>>, frames' = frames, status' = status,
           capturing' \in BOOLEAN, capturing' => capturing,
           openUpvalues' = openUpvalues, closures' = closures, cellOf' = cellOf,
           upvalues' \in Seq(Records), Len(upvalues') = Len(upvalues),
           \A u \in 1..Len(upvalues) : upvalues'[u].location = upvalues[u].location,
           stack' \in Seq(Existing \cup {Script}),
           \A p \in 2..Len(stack') : stack'[p] \in Existing,
           globals' \in [Globals -> Existing \cup {Undefined}],
           cell' \in Seq(Cells \cup {NoCell}), Len(cell') = Len(stack'),
           VariablesEnd - 1 <= Len(stack'),
           \A p \in 1..Len(cell') : IF p <= Len(cell) THEN cell'[p] = cell[p]
                                                      ELSE cell'[p] = NoCell
    PROVE  IInv'
<1>0. ValuesOK /\ ListOK BY InvParts
<1>1. Existing' = Existing BY DEF Existing
<1>2. DOMAIN upvalues' = DOMAIN upvalues
      BY <1>0, ListTypes
<1>3. /\ closures \in Seq([arity : Nat, upvalues : Seq(DOMAIN upvalues)])
      /\ Len(closures) \in Nat /\ Len(closures) <= MaxClosures
      BY <1>0 DEF ValuesOK
<1>4. ValuesOK' BY <1>1, <1>2, <1>3 DEF ValuesOK, Records
<1>5. Len(closures') >= Len(closures) BY <1>3
<1> QED BY <1>4, <1>5, TempsStep

(* A value is pushed. *)
LEMMA PushStep ==
    ASSUME IInv, Running, NEW v \in Existing, Push(v),
           UNCHANGED <<status, frames, heap, capturing, globals, cellOf>>
    PROVE  IInv'
<1>0. FramesOK /\ ValuesOK /\ CellsOK /\ ListOK /\ capturing \in BOOLEAN /\ frames # <<>>
      BY InvParts
<1>1. stack' = Append(stack, v) /\ cell' = Append(cell, NoCell) BY DEF Push
<1>2. stack \in Seq(Existing \cup {Script}) /\ Len(stack) \in Nat /\ v \in Existing \cup {Script}
      BY <1>0 DEF ValuesOK
<1>3. /\ stack' \in Seq(Existing \cup {Script}) /\ Len(stack') = Len(stack) + 1
      /\ stack'[Len(stack) + 1] = v /\ \A p \in 1..Len(stack) : stack'[p] = stack[p]
      BY <1>1, <1>2, Appended
<1>4. \A p \in 2..Len(stack') : stack'[p] \in Existing
  <2> TAKE p \in 2..Len(stack')
  <2>1. CASE p \in 2..Len(stack) BY <2>1, <1>3, <1>0 DEF ValuesOK
  <2>2. CASE p = Len(stack) + 1 BY <2>2, <1>3
  <2> QED BY <2>1, <2>2, <1>2, <1>3
<1>5. cell \in Seq(Cells \cup {NoCell}) /\ Len(cell) = Len(stack) BY <1>0, CellTypes
<1>6. /\ cell' \in Seq(Cells \cup {NoCell}) /\ Len(cell') = Len(cell) + 1
      /\ cell'[Len(cell) + 1] = NoCell /\ \A p \in 1..Len(cell) : cell'[p] = cell[p]
      BY <1>1, <1>5, Appended
<1>7. \A p \in 1..Len(cell') : IF p <= Len(cell) THEN cell'[p] = cell[p]
                                                 ELSE cell'[p] = NoCell
  <2> TAKE p \in 1..Len(cell')
  <2>1. CASE p <= Len(cell) BY <2>1, <1>6
  <2>2. CASE ~(p <= Len(cell))
    <3>1. p = Len(cell) + 1 BY <2>2, <1>2, <1>5, <1>6
    <3> QED BY <2>2, <3>1, <1>6
  <2> QED BY <2>1, <2>2
<1>8. VariablesEnd - 1 <= Len(stack') BY <1>0, <1>2, <1>3, Variables
<1>9. upvalues' \in Seq(Records) /\ Len(upvalues') = Len(upvalues)
      /\ \A u \in 1..Len(upvalues) : upvalues'[u].location = upvalues[u].location
      BY <1>0, ListTypes DEF heap
<1>10. /\ openUpvalues' = openUpvalues /\ closures' = closures
       /\ globals' \in [Globals -> Existing \cup {Undefined}]
       BY <1>0 DEF heap, ValuesOK
<1> QED BY <1>0, <1>3, <1>4, <1>5, <1>6, <1>7, <1>8, <1>9, <1>10, TempStep

(* The stack is cut down to m slots, the variables among them. *)
LEMMA TruncateStep ==
    ASSUME IInv, Running, NEW m \in Nat, m <= Len(stack), VariablesEnd - 1 <= m,
           Truncate(m), globals' \in [Globals -> Existing \cup {Undefined}],
           UNCHANGED <<status, frames, heap, capturing, cellOf>>
    PROVE  IInv'
<1>0. FramesOK /\ ValuesOK /\ CellsOK /\ ListOK /\ capturing \in BOOLEAN /\ frames # <<>>
      BY InvParts
<1>1. stack' = SubSeq(stack, 1, m) /\ cell' = SubSeq(cell, 1, m) BY DEF Truncate
<1>2. /\ stack \in Seq(Existing \cup {Script}) /\ m \in 0..Len(stack)
      /\ cell \in Seq(Cells \cup {NoCell}) /\ Len(cell) = Len(stack)
      BY <1>0, CellTypes DEF ValuesOK
<1>3. /\ stack' \in Seq(Existing \cup {Script}) /\ Len(stack') = m
      /\ \A p \in 1..m : stack'[p] = stack[p]
      BY <1>1, <1>2, Prefix
<1>4. /\ cell' \in Seq(Cells \cup {NoCell}) /\ Len(cell') = m
      /\ \A p \in 1..m : cell'[p] = cell[p]
      BY <1>1, <1>2, Prefix
<1>5. \A p \in 2..Len(stack') : stack'[p] \in Existing
  <2> TAKE p \in 2..Len(stack')
  <2>1. p \in 2..Len(stack) /\ p \in 1..m BY <1>2, <1>3
  <2> QED BY <2>1, <1>3, <1>0 DEF ValuesOK
<1>6. \A p \in 1..Len(cell') : IF p <= Len(cell) THEN cell'[p] = cell[p]
                                                 ELSE cell'[p] = NoCell
      BY <1>2, <1>4
<1>7. upvalues' \in Seq(Records) /\ Len(upvalues') = Len(upvalues)
      /\ \A u \in 1..Len(upvalues) : upvalues'[u].location = upvalues[u].location
      BY <1>0, ListTypes DEF heap
<1>8. openUpvalues' = openUpvalues /\ closures' = closures BY DEF heap
<1> QED BY <1>0, <1>3, <1>4, <1>5, <1>6, <1>7, <1>8, TempStep

(* What an instruction can count on: a frame, and temporaries that are values. *)
LEMMA RunningFacts ==
    ASSUME IInv, Running \/ capturing
    PROVE  /\ status = "running" /\ frames # <<>> /\ Depth \in Nat /\ Depth >= 1
           /\ Top \in Frames /\ Top.slots \in Nat /\ Top.slots >= 1
           /\ Top.locals \in Nat /\ Top.locals >= 1
           /\ Len(stack) \in Nat /\ StackTop = Len(stack)
           /\ VariablesEnd = Top.slots + Top.locals /\ VariablesEnd \in Nat
           /\ VariablesEnd >= 2 /\ VariablesEnd <= Len(stack) + 1
           /\ Temps \in Nat /\ Temps = Len(stack) + 1 - VariablesEnd
           /\ \A n \in Nat : n < Temps => /\ Peek(n) \in Existing /\ Peek(n) = stack[Len(stack) - n]
                                          /\ Len(stack) - n \in 2..Len(stack)
           /\ \A p \in 2..Len(stack) : stack[p] \in Existing
<1>0. FramesOK /\ ValuesOK /\ status = "running" /\ frames # <<>> BY InvParts
<1>1. /\ Depth \in Nat /\ Depth >= 1 /\ Top \in Frames /\ Top.slots \in Nat /\ Top.slots >= 1
      /\ Top.locals \in Nat /\ Top.locals >= 1 /\ Len(stack) \in Nat
      /\ Top.slots + Top.locals <= Len(stack) + 1
      /\ Temps \in Nat /\ Temps = Len(stack) + 1 - (Top.slots + Top.locals)
      BY <1>0, TopFrame
<1>2. VariablesEnd = Top.slots + Top.locals BY <1>0 DEF VariablesEnd
<1>3. VariablesEnd \in Nat /\ VariablesEnd >= 2
  <2> DEFINE s == Top.slots
             l == Top.locals
  <2>1. s \in Nat /\ s >= 1 /\ l \in Nat /\ l >= 1 /\ VariablesEnd = s + l BY <1>1, <1>2
  <2> HIDE DEF s, l
  <2> QED BY <2>1
<1>4. \A p \in 2..Len(stack) : stack[p] \in Existing BY <1>0 DEF ValuesOK
<1>5. ASSUME NEW n \in Nat, n < Temps
      PROVE  /\ Peek(n) \in Existing /\ Peek(n) = stack[Len(stack) - n]
             /\ Len(stack) - n \in 2..Len(stack)
  <2>1. Len(stack) - n \in 2..Len(stack) BY <1>1, <1>2, <1>3, <1>5
  <2> QED BY <2>1, <1>4 DEF Peek, StackTop
<1> QED BY <1>0, <1>1, <1>2, <1>3, <1>4, <1>5 DEF StackTop

(* The stack without some of its temporaries. *)
LEMMA Room ==
    ASSUME IInv, Running, NEW k \in Nat, k <= Temps
    PROVE  /\ StackTop - k \in Nat /\ StackTop - k \in 0..Len(stack)
           /\ StackTop - k <= Len(stack) /\ VariablesEnd - 1 <= StackTop - k
           /\ StackTop - k >= 1
<1>1. /\ Len(stack) \in Nat /\ StackTop = Len(stack) /\ VariablesEnd \in Nat
      /\ VariablesEnd >= 2 /\ Temps = Len(stack) + 1 - VariablesEnd
      BY RunningFacts
<1> QED BY <1>1

LEMMA ConstantInv ==
    ASSUME IInv, NEW v \in Data, Constant(v)
    PROVE  IInv'
<1>1. v \in Existing /\ Running /\ Push(v) BY DEF Constant, Existing
<1> QED BY <1>1, PushStep DEF Constant

(* The slot of a local is a variable of the running frame. *)
LEMMA LocalSlot ==
    ASSUME IInv, Running \/ capturing, NEW n \in 1..(Top.locals - 1)
    PROVE  /\ Top.slots + n \in 2..Len(stack) /\ stack[Top.slots + n] \in Existing
           /\ VariableSlot(Top.slots + n) /\ Top.slots + n < VariablesEnd
<1>0. PICK s \in Nat, l \in Nat, e \in Nat :
        /\ s = Top.slots /\ l = Top.locals /\ e = Len(stack)
        /\ s >= 1 /\ VariablesEnd = s + l /\ s + l <= e + 1
      BY RunningFacts
<1>a. PICK k \in Nat : k = n /\ k >= 1 /\ k <= l - 1 BY <1>0
<1>b. s + n \in 2..e /\ s + n < s + l /\ s < s + n
  <2>1. s >= 1 /\ s + l <= e + 1 BY <1>0
  <2>2. s + k \in 2..e /\ s + k < s + l /\ s < s + k BY <1>a, <2>1
  <2> QED BY <1>a, <2>2
<1>1. Top.slots + n \in 2..Len(stack) /\ Top.slots + n < VariablesEnd BY <1>0, <1>b
<1>2. stack[Top.slots + n] \in Existing BY <1>1, RunningFacts
<1>3. Depth \in 1..Len(frames) BY RunningFacts DEF Depth
<1>4. frames[Depth].slots < Top.slots + n
      /\ Top.slots + n < frames[Depth].slots + frames[Depth].locals
  <2>1. Top.slots < Top.slots + n /\ Top.slots + n < Top.slots + Top.locals BY <1>0, <1>b
  <2> QED BY <2>1 DEF Top
<1> QED BY <1>1, <1>2, <1>3, <1>4 DEF VariableSlot

LEMMA GetLocalInv ==
    ASSUME IInv, NEW n \in 1..MaxLocals, GetLocal(n)
    PROVE  IInv'
<1>1. Running /\ n \in 1..(Top.locals - 1) /\ Push(stack[Top.slots + n]) BY DEF GetLocal
<1>2. stack[Top.slots + n] \in Existing BY <1>1, LocalSlot
<1> QED BY <1>1, <1>2, PushStep DEF GetLocal

LEMMA GetGlobalInv ==
    ASSUME IInv, NEW g \in Globals, GetGlobal(g)
    PROVE  IInv'
<1>1. Running /\ Push(globals[g]) /\ globals[g] # Undefined BY DEF GetGlobal
<1>2. globals[g] \in Existing BY <1>1, InvParts DEF ValuesOK
<1> QED BY <1>1, <1>2, PushStep DEF GetGlobal

(* The upvalues of a closure exist. *)
LEMMA ClosureUpvalues ==
    ASSUME IInv, NEW c \in {Script} \cup DOMAIN closures, NEW n \in DOMAIN Upvalues(c)
    PROVE  /\ Upvalues(c)[n] \in 1..Len(upvalues)
           /\ upvalues[Upvalues(c)[n]] \in Records
           /\ c \in DOMAIN closures /\ c # Script /\ n \in 1..Len(Upvalues(c))
<1>0. ValuesOK /\ ListOK BY InvParts
<1>1. c # Script /\ Upvalues(c) = closures[c].upvalues
  <2>1. CASE c = Script
    <3>1. Upvalues(c) = <<>> BY <2>1 DEF Upvalues
    <3>2. DOMAIN <<>> = {} OBVIOUS
    <3> QED BY <3>1, <3>2
  <2> QED BY <2>1 DEF Upvalues
<1>2. c \in DOMAIN closures BY <1>1
<1>3. closures[c].upvalues \in Seq(DOMAIN upvalues)
  <2> DEFINE T == Seq(DOMAIN upvalues)
             R == [arity : Nat, upvalues : T]
  <2>1. closures \in Seq(R) BY <1>0 DEF ValuesOK
  <2> HIDE DEF R
  <2>2. closures[c] \in R BY <2>1, <1>2
  <2> HIDE DEF T
  <2>3. closures[c].upvalues \in T BY <2>2 DEF R
  <2> QED BY <2>3 DEF T
<1>4. Upvalues(c)[n] \in DOMAIN upvalues /\ n \in 1..Len(Upvalues(c)) BY <1>1, <1>3
<1> QED BY <1>0, <1>1, <1>2, <1>4, ListTypes

LEMMA GetUpvalueInv ==
    ASSUME IInv, NEW n \in 1..MaxCaptures, GetUpvalue(n)
    PROVE  IInv'
<1> DEFINE i == Upvalues(Top.closure)[n]
<1>1. Running /\ n \in DOMAIN Upvalues(Top.closure) BY DEF GetUpvalue
<1>2. Top.closure \in {Script} \cup DOMAIN closures BY <1>1, RunningFacts DEF Frames
<1>3. upvalues[i] \in Records BY <1>1, <1>2, ClosureUpvalues
<1>4. \/ Push(upvalues[i].value)
      \/ upvalues[i].location \in 1..StackTop /\ Push(stack[upvalues[i].location])
      \/ \E v \in Data \cup DOMAIN closures : Push(v)
      BY DEF GetUpvalue
<1> HIDE DEF i
<1>5. CASE Push(upvalues[i].value)
  <2>1. upvalues[i].value \in Existing BY <1>3 DEF Records
  <2> QED BY <1>1, <1>5, <2>1, PushStep DEF GetUpvalue
<1>6. CASE upvalues[i].location \in 1..StackTop /\ Push(stack[upvalues[i].location])
  <2>1. upvalues[i].location \in 2..Len(stack) BY <1>3, <1>6 DEF Records, StackTop
  <2>2. stack[upvalues[i].location] \in Existing BY <1>1, <2>1, RunningFacts
  <2> QED BY <1>1, <1>6, <2>2, PushStep DEF GetUpvalue
<1>7. CASE \E v \in Data \cup DOMAIN closures : Push(v)
  <2>1. PICK v \in Existing : Push(v) BY <1>7 DEF Existing
  <2> QED BY <1>1, <2>1, PushStep DEF GetUpvalue
<1> QED BY <1>4, <1>5, <1>6, <1>7

LEMMA PopInv ==
    ASSUME IInv, Pop
    PROVE  IInv'
<1>1. Running /\ Temps >= 1 /\ Truncate(StackTop - 1) BY DEF Pop
<1> DEFINE m == StackTop - 1
<1>2. m \in Nat /\ m <= Len(stack) /\ VariablesEnd - 1 <= m
  <2>1. Temps \in Nat /\ 1 <= Temps BY <1>1, RunningFacts
  <2> QED BY <1>1, <2>1, Room
<1>3. globals' \in [Globals -> Existing \cup {Undefined}] BY InvParts DEF ValuesOK, Pop
<1>4. Truncate(m) BY <1>1
<1> HIDE DEF m
<1> QED BY <1>1, <1>2, <1>3, <1>4, TruncateStep DEF Pop

LEMMA DefineGlobalInv ==
    ASSUME IInv, NEW g \in Globals, DefineGlobal(g)
    PROVE  IInv'
<1>1. Running /\ Temps = 1 /\ Truncate(StackTop - 1) BY DEF DefineGlobal
<1> DEFINE m == StackTop - 1
<1>2. m \in Nat /\ m <= Len(stack) /\ VariablesEnd - 1 <= m
  <2>1. Temps \in Nat /\ 1 <= Temps BY <1>1, RunningFacts
  <2> QED BY <1>1, <2>1, Room
<1>3. globals' \in [Globals -> Existing \cup {Undefined}]
  <2>1. Peek(0) \in Existing BY <1>1, RunningFacts
  <2>2. globals \in [Globals -> Existing \cup {Undefined}] BY InvParts DEF ValuesOK
  <2> QED BY <2>1, <2>2 DEF DefineGlobal
<1>4. Truncate(m) BY <1>1
<1> HIDE DEF m
<1> QED BY <1>1, <1>2, <1>3, <1>4, TruncateStep DEF DefineGlobal

LEMMA OperateInv ==
    ASSUME IInv, NEW v \in Data, Operate(v)
    PROVE  IInv'
<1>0. ValuesOK /\ CellsOK /\ ListOK /\ capturing \in BOOLEAN BY InvParts
<1>1. Running /\ Temps >= 2 BY DEF Operate
<1> DEFINE m == StackTop - 2
<1>2. m \in 0..Len(stack) /\ VariablesEnd - 1 <= m /\ m + 1 <= Len(stack) /\ m >= 1
      /\ Len(stack) \in Nat /\ m + 1 = StackTop - 1
  <2>1. Temps \in Nat /\ 2 <= Temps /\ StackTop = Len(stack) /\ Len(stack) \in Nat
        BY <1>1, RunningFacts
  <2>2. m \in 0..Len(stack) /\ VariablesEnd - 1 <= m /\ m >= 1 BY <1>1, <2>1, Room
  <2> QED BY <2>1, <2>2
<1>3. stack' = Append(SubSeq(stack, 1, m), v) /\ cell' = SubSeq(cell, 1, m + 1)
      BY <1>2 DEF Operate
<1> HIDE DEF m
<1> DEFINE s == SubSeq(stack, 1, m)
<1>4. stack \in Seq(Existing \cup {Script}) /\ \A p \in 2..Len(stack) : stack[p] \in Existing
      BY <1>0 DEF ValuesOK
<1>5. s \in Seq(Existing \cup {Script}) /\ Len(s) = m /\ \A p \in 1..m : s[p] = stack[p]
      BY <1>2, <1>4, Prefix
<1>6. v \in Existing BY DEF Existing
<1> HIDE DEF s
<1>7. /\ stack' \in Seq(Existing \cup {Script}) /\ Len(stack') = m + 1
      /\ stack'[m + 1] = v /\ \A p \in 1..m : stack'[p] = s[p]
  <2>1. stack' = Append(s, v) BY <1>3 DEF s
  <2> QED BY <2>1, <1>5, <1>6, Appended
<1>8. \A p \in 2..Len(stack') : stack'[p] \in Existing
  <2> TAKE p \in 2..Len(stack')
  <2>1. CASE p = m + 1 BY <2>1, <1>6, <1>7
  <2>2. CASE p # m + 1
    <3>1. p \in 1..m /\ p \in 2..Len(stack) BY <2>2, <1>2, <1>7
    <3> QED BY <3>1, <1>4, <1>5, <1>7
  <2> QED BY <2>1, <2>2
<1>9. /\ cell' \in Seq(Cells \cup {NoCell}) /\ Len(cell') = m + 1
      /\ \A p \in 1..(m + 1) : cell'[p] = cell[p]
  <2>1. cell \in Seq(Cells \cup {NoCell}) /\ m + 1 \in 0..Len(cell) BY <1>0, <1>2, CellTypes
  <2> QED BY <2>1, <1>3, Prefix
<1>10. \A p \in 1..Len(cell') : IF p <= Len(cell) THEN cell'[p] = cell[p]
                                                  ELSE cell'[p] = NoCell
       BY <1>0, <1>2, <1>9, CellTypes
<1>11. upvalues' \in Seq(Records) /\ Len(upvalues') = Len(upvalues)
       /\ \A u \in 1..Len(upvalues) : upvalues'[u].location = upvalues[u].location
       BY <1>0, ListTypes DEF heap, Operate
<1>12. /\ openUpvalues' = openUpvalues /\ closures' = closures /\ cellOf' = cellOf
       /\ frames' = frames /\ status' = status /\ capturing' = capturing
       /\ globals' \in [Globals -> Existing \cup {Undefined}]
       BY <1>0 DEF Operate, heap, ValuesOK
<1>13. frames # <<>> /\ VariablesEnd - 1 <= Len(stack') /\ Len(cell') = Len(stack')
  <2>1. VariablesEnd \in Nat BY <1>1, RunningFacts
  <2> QED BY <2>1, <1>1, <1>2, <1>7, <1>9, RunningFacts
<1> QED BY <1>0, <1>7, <1>8, <1>9, <1>10, <1>11, <1>12, <1>13, TempStep

(* A slot is assigned, or nothing on the stack changes. *)
LEMMA AssignStep ==
    ASSUME IInv, Running \/ capturing, NEW p \in 2..Len(stack), NEW v \in Existing,
           stack' = [stack EXCEPT ![p] = v] \/ stack' = stack,
           cell' = cell, frames' = frames, status' = status,
           capturing' \in BOOLEAN, capturing' => capturing,
           openUpvalues' = openUpvalues, closures' = closures, cellOf' = cellOf,
           upvalues' \in Seq(Records), Len(upvalues') = Len(upvalues),
           \A u \in 1..Len(upvalues) : upvalues'[u].location = upvalues[u].location,
           globals' \in [Globals -> Existing \cup {Undefined}]
    PROVE  IInv'
<1>0. ValuesOK /\ CellsOK BY InvParts
<1>1. stack \in Seq(Existing \cup {Script}) /\ \A q \in 2..Len(stack) : stack[q] \in Existing
      BY <1>0 DEF ValuesOK
<1>2. frames # <<>> /\ VariablesEnd - 1 <= Len(stack) BY RunningFacts
<1>3. /\ stack' \in Seq(Existing \cup {Script}) /\ Len(stack') = Len(stack)
      /\ \A q \in 2..Len(stack') : stack'[q] \in Existing
  <2>1. CASE stack' = stack BY <2>1, <1>1
  <2>2. CASE stack' = [stack EXCEPT ![p] = v]
    <3>1. /\ stack' \in Seq(Existing \cup {Script}) /\ Len(stack') = Len(stack)
          /\ stack'[p] = v /\ \A q \in 1..Len(stack) : q # p => stack'[q] = stack[q]
          BY <2>2, <1>1, Replaced
    <3>2. \A q \in 2..Len(stack') : stack'[q] \in Existing
      <4> TAKE q \in 2..Len(stack')
      <4>1. CASE q = p BY <4>1, <3>1
      <4>2. CASE q # p BY <4>2, <3>1, <1>1
      <4> QED BY <4>1, <4>2
    <3> QED BY <3>1, <3>2
  <2> QED BY <2>1, <2>2
<1>4. cell' \in Seq(Cells \cup {NoCell}) /\ Len(cell') = Len(stack')
      BY <1>0, <1>3, CellTypes
<1>5. \A q \in 1..Len(cell') : IF q <= Len(cell) THEN cell'[q] = cell[q] ELSE cell'[q] = NoCell
      BY <1>0, CellTypes
<1>6. VariablesEnd - 1 <= Len(stack') BY <1>2, <1>3
<1> QED BY <1>2, <1>3, <1>4, <1>5, <1>6, TempStep

LEMMA SetLocalInv ==
    ASSUME IInv, NEW n \in 1..MaxLocals, SetLocal(n)
    PROVE  IInv'
<1>0. ValuesOK /\ ListOK /\ capturing \in BOOLEAN BY InvParts
<1>1. Running /\ n \in 1..(Top.locals - 1) /\ Temps >= 1
      /\ stack' = [stack EXCEPT ![Top.slots + n] = Peek(0)]
      BY DEF SetLocal
<1> DEFINE p == Top.slots + n
           v == Peek(0)
<1>2. p \in 2..Len(stack) BY <1>1, LocalSlot
<1>3. v \in Existing BY <1>1, RunningFacts
<1>4. stack' = [stack EXCEPT ![p] = v] BY <1>1
<1> HIDE DEF p, v
<1>5. upvalues' \in Seq(Records) /\ Len(upvalues') = Len(upvalues)
      /\ \A u \in 1..Len(upvalues) : upvalues'[u].location = upvalues[u].location
      BY <1>0, ListTypes DEF heap, SetLocal
<1>6. /\ openUpvalues' = openUpvalues /\ closures' = closures /\ cellOf' = cellOf
      /\ frames' = frames /\ status' = status /\ capturing' = capturing /\ cell' = cell
      /\ globals' \in [Globals -> Existing \cup {Undefined}]
      BY <1>0 DEF SetLocal, heap, ghosts, ValuesOK
<1> QED BY <1>0, <1>1, <1>2, <1>3, <1>4, <1>5, <1>6, AssignStep

(* Some slot, and some value: for instructions that assign none. *)
LEMMA SomeSlot ==
    ASSUME IInv, Running, Temps >= 1
    PROVE  Len(stack) \in 2..Len(stack) /\ Peek(0) \in Existing
BY RunningFacts

LEMMA SetGlobalInv ==
    ASSUME IInv, NEW g \in Globals, SetGlobal(g)
    PROVE  IInv'
<1>0. ValuesOK /\ ListOK /\ capturing \in BOOLEAN BY InvParts
<1>1. Running /\ Temps >= 1 BY DEF SetGlobal
<1> DEFINE v == Peek(0)
           p == Len(stack)
<1>2. p \in 2..Len(stack) /\ v \in Existing BY <1>1, SomeSlot
<1>3. globals' \in [Globals -> Existing \cup {Undefined}]
  <2>1. globals \in [Globals -> Existing \cup {Undefined}] BY <1>0 DEF ValuesOK
  <2> QED BY <1>2, <2>1 DEF SetGlobal
<1> HIDE DEF v, p
<1>4. upvalues' \in Seq(Records) /\ Len(upvalues') = Len(upvalues)
      /\ \A u \in 1..Len(upvalues) : upvalues'[u].location = upvalues[u].location
      BY <1>0, ListTypes DEF heap, SetGlobal
<1>5. /\ openUpvalues' = openUpvalues /\ closures' = closures /\ cellOf' = cellOf
      /\ frames' = frames /\ status' = status /\ capturing' = capturing /\ cell' = cell
      /\ stack' = stack
      BY DEF SetGlobal, heap, ghosts
<1> QED BY <1>0, <1>1, <1>2, <1>3, <1>4, <1>5, AssignStep

LEMMA SetUpvalueInv ==
    ASSUME IInv, NEW n \in 1..MaxCaptures, SetUpvalue(n)
    PROVE  IInv'
<1>0. ValuesOK /\ ListOK /\ capturing \in BOOLEAN BY InvParts
<1> DEFINE u == Upvalues(Top.closure)[n]
<1>1. Running /\ n \in DOMAIN Upvalues(Top.closure) /\ Temps >= 1 BY DEF SetUpvalue
<1>2. Top.closure \in {Script} \cup DOMAIN closures BY <1>1, RunningFacts DEF Frames
<1>3. u \in 1..Len(upvalues) /\ upvalues[u] \in Records BY <1>1, <1>2, ClosureUpvalues
<1>4. Len(stack) \in 2..Len(stack) /\ Peek(0) \in Existing BY <1>1, SomeSlot
<1>5. /\ openUpvalues' = openUpvalues /\ closures' = closures /\ cellOf' = cellOf
      /\ frames' = frames /\ status' = status /\ capturing' = capturing /\ cell' = cell
      /\ globals' \in [Globals -> Existing \cup {Undefined}]
      BY <1>0 DEF SetUpvalue, ghosts, ValuesOK
<1>6. \/ /\ upvalues' = [upvalues EXCEPT ![u].value = Peek(0)] /\ stack' = stack
      \/ /\ upvalues[u].location \in 1..StackTop
         /\ stack' = [stack EXCEPT ![upvalues[u].location] = Peek(0)] /\ upvalues' = upvalues
      \/ stack' = stack /\ upvalues' = upvalues
      BY DEF SetUpvalue
<1>7. upvalues \in Seq(Records) /\ Len(upvalues) \in Nat BY <1>0, ListTypes
<1> HIDE DEF u
<1> DEFINE v == Peek(0)
<1>8. upvalues' \in Seq(Records) /\ Len(upvalues') = Len(upvalues)
      /\ \A w \in 1..Len(upvalues) : upvalues'[w].location = upvalues[w].location
  <2>1. CASE upvalues' = upvalues BY <2>1, <1>7
  <2>2. CASE upvalues' = [upvalues EXCEPT ![u].value = v]
    <3> DEFINE r == [upvalues[u] EXCEPT !.value = v]
    <3>1. v \in Existing BY <1>4
    <3> HIDE DEF v
    <3>2. r \in Records /\ r.location = upvalues[u].location BY <1>3, <3>1 DEF Records
    <3>3. upvalues' = [upvalues EXCEPT ![u] = r] BY <2>2
    <3> HIDE DEF r
    <3>4. /\ upvalues' \in Seq(Records) /\ Len(upvalues') = Len(upvalues) /\ upvalues'[u] = r
          /\ \A w \in 1..Len(upvalues) : w # u => upvalues'[w] = upvalues[w]
          BY <3>2, <3>3, <1>3, <1>7, Replaced
    <3> QED BY <3>2, <3>4
  <2> QED BY <2>1, <2>2, <1>6
<1>9. CASE stack' = stack
  <2> DEFINE p == Len(stack)
  <2>1. p \in 2..Len(stack) /\ v \in Existing BY <1>4
  <2> HIDE DEF p, v
  <2> QED BY <1>0, <1>1, <1>5, <1>8, <1>9, <2>1, AssignStep
<1>10. CASE /\ upvalues[u].location \in 1..StackTop
            /\ stack' = [stack EXCEPT ![upvalues[u].location] = v]
  <2> DEFINE p == upvalues[u].location
  <2>1. p \in 2..Len(stack) BY <1>3, <1>10 DEF Records, StackTop
  <2>2. v \in Existing BY <1>4
  <2>3. stack' = [stack EXCEPT ![p] = v] BY <1>10
  <2> HIDE DEF p, v
  <2> QED BY <1>0, <1>1, <1>5, <1>8, <2>1, <2>2, <2>3, AssignStep
<1> QED BY <1>6, <1>9, <1>10

LEMMA ClosureDoneInv ==
    ASSUME IInv, ClosureDone
    PROVE  IInv'
<1>0. ValuesOK /\ ListOK /\ CellsOK /\ capturing \in BOOLEAN BY InvParts
<1>1. capturing /\ capturing' = FALSE BY DEF ClosureDone
<1>2. /\ openUpvalues' = openUpvalues /\ closures' = closures /\ cellOf' = cellOf
      /\ frames' = frames /\ status' = status /\ cell' = cell /\ stack' = stack
      /\ globals' \in [Globals -> Existing \cup {Undefined}]
      BY <1>0 DEF ClosureDone, heap, ghosts, ValuesOK
<1>3. upvalues' \in Seq(Records) /\ Len(upvalues') = Len(upvalues)
      /\ \A u \in 1..Len(upvalues) : upvalues'[u].location = upvalues[u].location
      BY <1>0, ListTypes DEF heap, ClosureDone
<1>4. /\ stack' \in Seq(Existing \cup {Script})
      /\ \A p \in 2..Len(stack') : stack'[p] \in Existing
      BY <1>0, <1>2 DEF ValuesOK
<1>5. cell' \in Seq(Cells \cup {NoCell}) /\ Len(cell') = Len(stack') BY <1>0, <1>2, CellTypes
<1>6. \A q \in 1..Len(cell') : IF q <= Len(cell) THEN cell'[q] = cell[q] ELSE cell'[q] = NoCell
      BY <1>0, <1>2, CellTypes
<1>7. frames # <<>> /\ VariablesEnd - 1 <= Len(stack') BY <1>1, <1>2, RunningFacts
<1> QED BY <1>0, <1>1, <1>2, <1>3, <1>4, <1>5, <1>6, <1>7, TempStep

-----------------------------------------------------------------------------
(* Locals come and go. *)

LEMMA TopVariables ==
    ASSUME FramesOK, ValuesOK, frames # <<>>, NEW p \in Nat
    PROVE  VariableSlot(p) <=> \/ VariableSlot(p) /\ p < Top.slots
                               \/ Top.slots < p /\ p < VariablesEnd
<1>1. Depth \in 1..Len(frames) /\ VariablesEnd = Top.slots + Top.locals
      BY TopFrame DEF Depth, VariablesEnd
<1>2. ASSUME Top.slots < p, p < VariablesEnd PROVE VariableSlot(p)
  <2>1. frames[Depth].slots < p /\ p < frames[Depth].slots + frames[Depth].locals
        BY <1>1, <1>2 DEF Top
  <2> QED BY <2>1, <1>1 DEF VariableSlot
<1>3. ASSUME VariableSlot(p) PROVE p < Top.slots \/ (Top.slots < p /\ p < VariablesEnd)
  <2>1. PICK f \in 1..Len(frames) :
          frames[f].slots < p /\ p < frames[f].slots + frames[f].locals
        BY <1>3 DEF VariableSlot
  <2>2. CASE f < Len(frames) BY <2>1, <2>2, Variables
  <2>3. CASE ~(f < Len(frames))
    <3>1. f = Depth BY <2>3, FrameTypes DEF Depth
    <3> QED BY <2>1, <3>1, <1>1 DEF Top
  <2> QED BY <2>2, <2>3
<1> QED BY <1>2, <1>3

(* A variable more: what is on top of the stack, or a closure just pushed. *)
LEMMA LocalAdded ==
    ASSUME IInv, Running, FreeCells # {}, SetLocals(Top.locals + 1), status' = status,
           capturing' \in BOOLEAN, capturing' => closures' # <<>>,
           UNCHANGED <<openUpvalues, upvalues, cellOf>>, ValuesOK',
           Len(closures') >= Len(closures), Len(stack') = VariablesEnd,
           cell' \in Seq(Cells \cup {NoCell}), Len(cell') = Len(stack'),
           \A p \in 1..(VariablesEnd - 1) : cell'[p] = cell[p],
           cell'[VariablesEnd] = FreeCell
    PROVE  IInv'
<1>0. /\ FramesOK /\ ValuesOK /\ CellsOK /\ ListOK
      /\ status \in {"idle", "running", "failed"}
      BY InvParts
<1>1. /\ status = "running" /\ frames # <<>> /\ Top.locals \in Nat /\ Top.slots \in Nat
      /\ Top.locals >= 1 /\ VariablesEnd = Top.slots + Top.locals
      /\ VariablesEnd \in Nat /\ VariablesEnd >= 2
      /\ VariablesEnd <= Len(stack) + 1 /\ Len(stack) \in Nat
      BY RunningFacts
<1> DEFINE k == Top.locals + 1
<1>2. k \in Nat \ {0} /\ SetLocals(k) BY <1>1
<1> HIDE DEF k
<1>3. /\ frames' \in Seq(Frames) /\ frames' # <<>> /\ frames'[1].slots = 1
      /\ Top'.slots = Top.slots /\ Top'.locals = k
      /\ \A f, g \in 1..Len(frames') :
           f < g => frames'[f].slots + frames'[f].locals <= frames'[g].slots
      /\ \A p \in Nat : VariableSlot(p)' <=>
           \/ VariableSlot(p) /\ p < Top.slots
           \/ Top.slots < p /\ p < Top.slots + k
      BY <1>0, <1>1, <1>2, LocalsSet
<1>4. Top.slots + k = VariablesEnd + 1 BY <1>1 DEF k
<1>5. FramesOK'
  <2>1. DOMAIN closures \subseteq DOMAIN closures' BY <1>0 DEF ValuesOK
  <2>2. frames' \in Seq([closure : {Script} \cup DOMAIN closures',
                         slots : Nat \ {0}, locals : Nat \ {0}])
    <3> DEFINE F == [closure : {Script} \cup DOMAIN closures',
                     slots : Nat \ {0}, locals : Nat \ {0}]
    <3>1. Frames \subseteq F BY <2>1 DEF Frames
    <3> HIDE DEF F
    <3>2. frames' \in Seq(F) BY <3>1, <1>3
    <3> QED BY <3>2 DEF F
  <2>3. Top'.slots + Top'.locals <= Len(stack') + 1 BY <1>1, <1>3, <1>4
  <2> QED BY <1>1, <1>3, <2>2, <2>3 DEF FramesOK
<1>6. Cut(VariablesEnd)
  <2>1. upvalues' \in Seq([location : Nat \ {1}, value : Existing']) BY DEF ValuesOK
  <2> QED BY <1>0, <2>1, Uncut
<1>7. NewSlots(VariablesEnd)
  <2>1. Len(cell) = Len(stack) /\ Len(cell') = VariablesEnd BY <1>0, CellTypes
  <2>2. VariablesEnd - 1 <= Len(cell') /\ VariablesEnd - 1 <= Len(cell) BY <2>1, <1>1
  <2>3. ASSUME NEW p \in 1..Len(cell'), p < VariablesEnd
        PROVE  cell'[p] = cell[p] /\ (VariableSlot(p)' <=> VariableSlot(p))
    <3>1. p \in 1..(VariablesEnd - 1) /\ p \in Nat BY <2>3, <1>1
    <3>2. p < Top.slots + k BY <2>3, <1>1, <1>4
    <3> QED BY <2>3, <3>1, <3>2, <1>0, <1>1, <1>3, TopVariables
  <2>4. ASSUME NEW p \in 1..Len(cell'), p >= VariablesEnd
        PROVE  p = VariablesEnd /\ cell'[p] \in FreeCells /\ VariableSlot(p)'
    <3>1. p = VariablesEnd BY <2>1, <2>4, <1>1
    <3>2. FreeCell \in FreeCells BY DEF FreeCell
    <3>3. Top.slots < p /\ p < Top.slots + k /\ p \in Nat
          BY <3>1, <1>1, <1>4
    <3>4. VariableSlot(p)' BY <3>3, <1>3
    <3> QED BY <3>1, <3>2, <3>4
  <2>5. \A p, q \in 1..Len(cell') :
          p >= VariablesEnd /\ q >= VariablesEnd /\ cell'[p] # NoCell /\ cell'[p] = cell'[q]
            => p = q
        BY <2>4
  <2> QED BY <2>2, <2>3, <2>4, <2>5 DEF NewSlots
<1>8. CellsOK' /\ ListOK' /\ OwnersOK' /\ AllListed' BY <1>1, <1>6, <1>7, StepKeeps
<1> QED BY <1>0, <1>5, <1>8 DEF IInv

LEMMA DeclareInv ==
    ASSUME IInv, Declare
    PROVE  IInv'
<1>0. ValuesOK /\ CellsOK /\ capturing = FALSE /\ capturing' = FALSE
      BY InvParts DEF Declare, Running
<1>1. /\ Running /\ FreeCells # {} /\ SetLocals(Top.locals + 1) /\ Temps = 1
      /\ cell' = [cell EXCEPT ![StackTop] = FreeCell]
      /\ UNCHANGED <<status, stack, openUpvalues, upvalues, closures, globals, cellOf>>
      BY DEF Declare, heap
<1>2. StackTop = VariablesEnd /\ Len(stack) = VariablesEnd /\ VariablesEnd \in Nat
      /\ VariablesEnd >= 2
      BY <1>1, RunningFacts
<1>3. ValuesOK' BY <1>0, <1>1 DEF ValuesOK, Existing
<1>4. cell \in Seq(Cells \cup {NoCell}) /\ Len(cell) = VariablesEnd BY <1>0, <1>2, CellTypes
<1>5. FreeCell \in Cells BY <1>1 DEF FreeCell, FreeCells
<1>6. /\ cell' \in Seq(Cells \cup {NoCell}) /\ Len(cell') = Len(cell)
      /\ cell'[VariablesEnd] = FreeCell
      /\ \A p \in 1..Len(cell) : p # VariablesEnd => cell'[p] = cell[p]
  <2> DEFINE e == VariablesEnd
             c == FreeCell
  <2>1. cell' = [cell EXCEPT ![e] = c] BY <1>1, <1>2
  <2>2. e \in 1..Len(cell) /\ c \in Cells \cup {NoCell} BY <1>2, <1>4, <1>5
  <2> HIDE DEF e, c
  <2>3. /\ cell' \in Seq(Cells \cup {NoCell}) /\ Len(cell') = Len(cell) /\ cell'[e] = c
        /\ \A p \in 1..Len(cell) : p # e => cell'[p] = cell[p]
        BY <2>1, <2>2, <1>4, Replaced
  <2> QED BY <2>3 DEF e, c
<1>7. \A p \in 1..(VariablesEnd - 1) : cell'[p] = cell[p] BY <1>2, <1>4, <1>6
<1>8. Len(closures') >= Len(closures) BY <1>0, <1>1 DEF ValuesOK
<1>9. Len(stack') = VariablesEnd /\ Len(cell') = Len(stack') BY <1>1, <1>2, <1>4, <1>6
<1> QED BY <1>0, <1>1, <1>3, <1>6, <1>7, <1>8, <1>9, LocalAdded

(* What is left of the values when the stack is cut down. *)
LEMMA PrefixValues ==
    ASSUME ValuesOK, NEW m \in Nat, m <= Len(stack), stack' = SubSeq(stack, 1, m),
           upvalues' \in Seq([location : Nat \ {1}, value : Existing']),
           Len(upvalues') = Len(upvalues), UNCHANGED <<closures, globals>>
    PROVE  ValuesOK' /\ Len(stack') = m
<1>1. stack \in Seq(Existing \cup {Script}) /\ m \in 0..Len(stack) BY DEF ValuesOK
<1>2. /\ stack' \in Seq(Existing \cup {Script}) /\ Len(stack') = m
      /\ \A p \in 1..m : stack'[p] = stack[p]
      BY <1>1, Prefix
<1>3. \A p \in 2..Len(stack') : stack'[p] \in Existing
  <2> TAKE p \in 2..Len(stack')
  <2>1. p \in 2..Len(stack) /\ p \in 1..m BY <1>1, <1>2
  <2> QED BY <2>1, <1>2 DEF ValuesOK
<1>4. Existing' = Existing BY DEF Existing
<1>5. DOMAIN upvalues' = DOMAIN upvalues BY DEF ValuesOK
<1> QED BY <1>2, <1>3, <1>4, <1>5 DEF ValuesOK

(* The end of a scope, with the list without the slot that goes. *)
LEMMA ScopeEnds ==
    ASSUME IInv, EndScope, Cut(StackTop)
    PROVE  IInv'
<1>0. /\ FramesOK /\ ValuesOK /\ CellsOK /\ ListOK
      /\ status \in {"idle", "running", "failed"}
      BY InvParts
<1>1. /\ Running /\ Temps = 0 /\ SetLocals(Top.locals - 1) /\ Truncate(StackTop - 1)
      /\ UNCHANGED <<status, closures, capturing, globals, cellOf>>
      BY DEF EndScope
<1>2. /\ status = "running" /\ frames # <<>> /\ Top.slots \in Nat /\ Top.locals \in Nat
      /\ Len(stack) \in Nat /\ StackTop = Len(stack) /\ VariablesEnd = Top.slots + Top.locals
      /\ Len(stack) + 1 = Top.slots + Top.locals /\ Top.slots >= 1 /\ Top.locals >= 1
      /\ Top \in Frames
      BY <1>1, RunningFacts
<1>3. Top.locals - 1 \in Nat \ {0}
  <2>1. CASE Top.closure = Script BY <2>1, <1>2 DEF EndScope
  <2>2. CASE Top.closure # Script
    <3> DEFINE T == Seq(DOMAIN upvalues)
               R == [arity : Nat, upvalues : T]
    <3>1. closures \in Seq(R) BY <1>0 DEF ValuesOK
    <3>2. Top.closure \in DOMAIN closures BY <2>2, <1>2 DEF Frames
    <3> HIDE DEF R
    <3>3. closures[Top.closure] \in R BY <3>1, <3>2
    <3>4. closures[Top.closure].arity \in Nat BY <3>3 DEF R
    <3>5. Top.locals > 1 + closures[Top.closure].arity BY <2>2 DEF EndScope
    <3> QED BY <3>4, <3>5, <1>2
  <2> QED BY <2>1, <2>2
<1> DEFINE k == Top.locals - 1
           m == StackTop - 1
<1>4. k \in Nat \ {0} /\ SetLocals(k) BY <1>1, <1>3
<1>5. m \in Nat /\ m <= Len(stack) /\ Top.slots + k = StackTop /\ StackTop \in Nat \ {0}
      BY <1>2, <1>3
<1>6. stack' = SubSeq(stack, 1, m) /\ cell' = SubSeq(cell, 1, m) BY <1>1 DEF Truncate
<1>7. m = StackTop - 1 OBVIOUS
<1> HIDE DEF k, m
<1>8. /\ frames' \in Seq(Frames) /\ frames' # <<>> /\ frames'[1].slots = 1
      /\ Top'.slots = Top.slots /\ Top'.locals = k
      /\ \A f, g \in 1..Len(frames') :
           f < g => frames'[f].slots + frames'[f].locals <= frames'[g].slots
      /\ \A p \in Nat : VariableSlot(p)' <=>
           \/ VariableSlot(p) /\ p < Top.slots
           \/ Top.slots < p /\ p < Top.slots + k
      BY <1>0, <1>2, <1>4, LocalsSet
<1>9. ValuesOK' /\ Len(stack') = m
  <2>1. /\ upvalues' \in Seq([location : Nat \ {1}, value : Existing'])
        /\ Len(upvalues') = Len(upvalues)
        BY DEF Cut
  <2> QED BY <2>1, <1>0, <1>1, <1>5, <1>6, PrefixValues
<1>10. FramesOK'
  <2>1. Top'.slots + Top'.locals <= Len(stack') + 1 BY <1>2, <1>5, <1>7, <1>8, <1>9
  <2>2. frames' \in Seq([closure : {Script} \cup DOMAIN closures',
                         slots : Nat \ {0}, locals : Nat \ {0}])
        BY <1>1, <1>8 DEF Frames
  <2>3. status' = "running" /\ (capturing' => status' = "running" /\ closures' # <<>>)
        BY <1>0, <1>1, <1>2 DEF FramesOK
  <2> QED BY <1>8, <2>1, <2>2, <2>3 DEF FramesOK
<1>11. /\ cell' \in Seq(Cells \cup {NoCell}) /\ Len(cell') = m /\ Len(cell) = Len(stack)
       /\ \A p \in 1..m : cell'[p] = cell[p]
  <2>1. cell \in Seq(Cells \cup {NoCell}) /\ m \in 0..Len(cell) /\ Len(cell) = Len(stack)
        BY <1>0, <1>5, CellTypes
  <2> QED BY <2>1, <1>6, Prefix
<1>12. NewSlots(StackTop)
  <2>1. ASSUME NEW p \in 1..Len(cell')
        PROVE  /\ p < StackTop /\ cell'[p] = cell[p]
               /\ VariableSlot(p)' <=> VariableSlot(p)
    <3>1. p \in 1..m /\ p \in Nat /\ p < StackTop /\ p < VariablesEnd
          BY <1>2, <1>5, <1>7, <1>11
    <3> QED BY <3>1, <1>0, <1>2, <1>5, <1>8, <1>11, TopVariables
  <2>2. \A p \in 1..Len(cell') : p < StackTop /\ ~(p >= StackTop) BY <2>1, <1>2, <1>5, <1>11
  <2>3. StackTop - 1 <= Len(cell') /\ StackTop - 1 <= Len(cell) BY <1>2, <1>5, <1>7, <1>11
  <2> QED BY <1>1, <1>9, <1>11, <2>1, <2>2, <2>3 DEF NewSlots
<1>13. CellsOK' /\ ListOK' /\ OwnersOK' /\ AllListed' BY <1>1, <1>2, <1>5, <1>12, StepKeeps
<1>14. capturing' \in BOOLEAN /\ status' \in {"idle", "running", "failed"}
       BY <1>0, <1>1, InvParts
<1> QED BY <1>9, <1>10, <1>13, <1>14 DEF IInv

(* OP_POP: the compiler knows that no closure captured the variable. *)
LEMMA PopLocalInv ==
    ASSUME IInv, PopLocal
    PROVE  IInv'
<1>0. FramesOK /\ ValuesOK /\ CellsOK /\ ListOK BY InvParts
<1>1. /\ EndScope /\ UNCHANGED <<openUpvalues, upvalues>>
      /\ \A u \in ToSet(openUpvalues) : upvalues[u].location # StackTop
      BY DEF PopLocal
<1>2. /\ Running /\ Temps = 0 /\ closures' = closures BY <1>1 DEF EndScope
<1>3. StackTop \in Nat /\ VariablesEnd = StackTop + 1 BY <1>2, RunningFacts
<1>4. ASSUME NEW u \in 1..Len(upvalues), OnList(u) PROVE upvalues[u].location < StackTop
  <2>1. u \in ToSet(openUpvalues) BY <1>0, <1>4, ListTypes, Elements DEF OnList
  <2>2. upvalues[u].location # StackTop BY <1>1, <2>1
  <2>3. upvalues[u].location \in Nat /\ upvalues[u].location < VariablesEnd
        BY <1>0, <1>4, OnListTypes
  <2> QED BY <2>2, <2>3, <1>3
<1>5. upvalues' \in Seq([location : Nat \ {1}, value : Existing'])
  <2>1. Existing' = Existing BY <1>2 DEF Existing
  <2> QED BY <2>1, <1>0, <1>1 DEF ValuesOK
<1>6. Cut(StackTop) BY <1>0, <1>1, <1>3, <1>4, <1>5, UncutBelow
<1> QED BY <1>1, <1>6, ScopeEnds

(* OP_CLOSE_UPVALUE. *)
LEMMA CloseUpvalueInv ==
    ASSUME IInv, CloseUpvalue
    PROVE  IInv'
<1>0. FramesOK /\ ValuesOK /\ CellsOK /\ ListOK BY InvParts
<1>1. EndScope /\ CloseUpvalues(StackTop) BY DEF CloseUpvalue
<1>2. Running /\ closures' = closures BY <1>1 DEF EndScope
<1>3. StackTop \in Nat \ {0}
  <2>1. Temps = 0 BY <1>1 DEF EndScope
  <2> QED BY <1>2, <2>1, RunningFacts
<1>4. Cut(StackTop) BY <1>0, <1>1, <1>2, <1>3, Closed
<1> QED BY <1>1, <1>4, ScopeEnds

-----------------------------------------------------------------------------
(* Closures and what they capture. *)

ClosureRecords(S) == [arity : Nat, upvalues : Seq(S)]

LEMMA ClosureTypes ==
    ASSUME ValuesOK
    PROVE  /\ closures \in Seq(ClosureRecords(DOMAIN upvalues)) /\ Len(closures) \in Nat
           /\ DOMAIN closures = 1..Len(closures) /\ Len(closures) <= MaxClosures
           /\ \A c \in 1..Len(closures) : closures[c] \in ClosureRecords(DOMAIN upvalues)
           /\ \A c \in 1..Len(closures) : /\ closures[c].arity \in Nat
                                          /\ closures[c].upvalues \in Seq(DOMAIN upvalues)
<1>1. closures \in Seq(ClosureRecords(DOMAIN upvalues)) /\ Len(closures) <= MaxClosures
      BY DEF ValuesOK, ClosureRecords
<1>2. /\ DOMAIN closures = 1..Len(closures) /\ Len(closures) \in Nat
      /\ \A c \in 1..Len(closures) : closures[c] \in ClosureRecords(DOMAIN upvalues)
      BY <1>1
<1> DEFINE T == Seq(DOMAIN upvalues)
<1>3. \A c \in 1..Len(closures) : closures[c] \in [arity : Nat, upvalues : T]
      BY <1>2 DEF ClosureRecords
<1> HIDE DEF T
<1>4. \A c \in 1..Len(closures) : closures[c].arity \in Nat /\ closures[c].upvalues \in T
      BY <1>3
<1> QED BY <1>1, <1>2, <1>4 DEF T

LEMMA ClosureInv ==
    ASSUME IInv, NEW a \in 0..MaxArity, NEW named \in BOOLEAN, Closure(a, named)
    PROVE  IInv'
<1>0. FramesOK /\ ValuesOK /\ CellsOK /\ ListOK BY InvParts
<1> DEFINE c == Len(closures) + 1
           r == [arity |-> a, upvalues |-> <<>>]
<1>1. /\ Running /\ Len(closures) < MaxClosures /\ closures' = Append(closures, r)
      /\ stack' = Append(stack, c) /\ capturing' = TRUE
      /\ UNCHANGED <<status, openUpvalues, upvalues, globals, cellOf>>
      BY DEF Closure
<1>2. r \in ClosureRecords(DOMAIN upvalues)
  <2>1. <<>> \in Seq(DOMAIN upvalues) /\ a \in Nat BY BoundsAssumption
  <2> QED BY <2>1 DEF ClosureRecords
<1>3. Len(closures) \in Nat /\ DOMAIN closures = 1..Len(closures) BY <1>0, ClosureTypes
<1> HIDE DEF r
<1>4. /\ closures' \in Seq(ClosureRecords(DOMAIN upvalues)) /\ Len(closures') = c
      /\ DOMAIN closures' = 1..c
  <2>1. closures' \in Seq(ClosureRecords(DOMAIN upvalues)) /\ Len(closures') = c
        BY <1>0, <1>1, <1>2, ClosureTypes, Appended
  <2> QED BY <2>1
<1>5. Existing \subseteq Existing' /\ c \in Existing' BY <1>3, <1>4 DEF Existing
<1>6. c <= MaxClosures /\ Len(closures') >= Len(closures) /\ closures' # <<>>
  <2>1. MaxClosures \in Nat BY BoundsAssumption
  <2>2. Len(closures') # 0 BY <1>3, <1>4
  <2> QED BY <2>1, <2>2, <1>1, <1>3, <1>4, Empty
<1> HIDE DEF c
<1>7. ValuesOK' /\ Len(stack') = Len(stack) + 1 /\ Len(stack) \in Nat
  <2> DEFINE S == Existing' \cup {Script}
  <2>1. stack \in Seq(Existing \cup {Script}) /\ \A p \in 2..Len(stack) : stack[p] \in Existing
        BY <1>0 DEF ValuesOK
  <2>2. Existing \cup {Script} \subseteq S /\ c \in S BY <1>5
  <2> HIDE DEF S
  <2>3. stack \in Seq(S) BY <2>1, <2>2
  <2>4. /\ stack' \in Seq(S) /\ Len(stack') = Len(stack) + 1 /\ stack'[Len(stack) + 1] = c
        /\ \A p \in 1..Len(stack) : stack'[p] = stack[p]
        BY <1>1, <2>2, <2>3, Appended
  <2>5. \A p \in 2..Len(stack') : stack'[p] \in Existing'
    <3> TAKE p \in 2..Len(stack')
    <3>1. CASE p = Len(stack) + 1 BY <3>1, <2>4, <1>5
    <3>2. CASE p # Len(stack) + 1
      <4>1. p \in 2..Len(stack) /\ p \in 1..Len(stack) BY <3>2, <2>3, <2>4
      <4> QED BY <4>1, <2>1, <2>4, <1>5
    <3> QED BY <3>1, <3>2
  <2>6. globals' \in [Globals -> Existing' \cup {Undefined}] BY <1>0, <1>1, <1>5 DEF ValuesOK
  <2>7. upvalues' \in Seq([location : Nat \ {1}, value : Existing'])
    <3> DEFINE R == [location : Nat \ {1}, value : Existing']
    <3>1. Records \subseteq R BY <1>5 DEF Records
    <3> HIDE DEF R
    <3>2. upvalues' \in Seq(R) BY <1>0, <1>1, <3>1, ListTypes
    <3> QED BY <3>2 DEF R
  <2>8. closures' \in Seq([arity : Nat, upvalues : Seq(DOMAIN upvalues')])
        BY <1>1, <1>4 DEF ClosureRecords
  <2>9. Len(stack) \in Nat BY <2>1
  <2> QED BY <2>4, <2>5, <2>6, <2>7, <2>8, <2>9, <1>4, <1>6 DEF ValuesOK, S
<1>8. /\ Len(upvalues') = Len(upvalues)
      /\ \A u \in 1..Len(upvalues) : upvalues'[u].location = upvalues[u].location
      /\ openUpvalues' = openUpvalues /\ cellOf' = cellOf
      BY <1>1
<1>9. cell \in Seq(Cells \cup {NoCell}) /\ Len(cell) = Len(stack) BY <1>0, CellTypes
<1>10. frames # <<>> /\ VariablesEnd - 1 <= Len(stack') /\ status' = status
       BY <1>1, <1>7, RunningFacts
<1>11. CASE named
  <2>1. /\ Temps = 0 /\ FreeCells # {} /\ SetLocals(Top.locals + 1)
        /\ cell' = Append(cell, FreeCell)
        BY <1>11 DEF Closure
  <2>2. Len(stack') = VariablesEnd /\ VariablesEnd - 1 = Len(cell)
    <3>1. VariablesEnd = Len(stack) + 1 BY <1>1, <2>1, RunningFacts
    <3> QED BY <3>1, <1>7, <1>9
  <2>3. FreeCell \in Cells \cup {NoCell} BY <2>1 DEF FreeCell, FreeCells
  <2>4. /\ cell' \in Seq(Cells \cup {NoCell}) /\ Len(cell') = Len(cell) + 1
        /\ cell'[Len(cell) + 1] = FreeCell
        /\ \A p \in 1..Len(cell) : cell'[p] = cell[p]
        BY <2>1, <2>3, <1>9, Appended
  <2>5. Len(cell) + 1 = VariablesEnd /\ Len(cell') = Len(stack') BY <1>7, <1>9, <2>2, <2>4
  <2> QED BY <1>1, <1>6, <1>7, <1>10, <2>1, <2>2, <2>4, <2>5, LocalAdded
<1>12. CASE ~named
  <2>1. cell' = Append(cell, NoCell) /\ frames' = frames BY <1>12 DEF Closure
  <2>2. /\ cell' \in Seq(Cells \cup {NoCell}) /\ Len(cell') = Len(cell) + 1
        /\ cell'[Len(cell) + 1] = NoCell
        /\ \A p \in 1..Len(cell) : cell'[p] = cell[p]
        BY <2>1, <1>9, Appended
  <2>3. \A p \in 1..Len(cell') : IF p <= Len(cell) THEN cell'[p] = cell[p]
                                                   ELSE cell'[p] = NoCell
    <3> TAKE p \in 1..Len(cell')
    <3>1. CASE p <= Len(cell) BY <3>1, <2>2
    <3>2. CASE ~(p <= Len(cell))
      <4>1. p = Len(cell) + 1 BY <3>2, <1>7, <1>9, <2>2
      <4> QED BY <3>2, <4>1, <2>2
    <3> QED BY <3>1, <3>2
  <2>4. Len(cell') = Len(stack') BY <1>7, <1>9, <2>2
  <2> QED BY <1>1, <1>6, <1>7, <1>8, <1>10, <2>1, <2>2, <2>3, <2>4, TempsStep
<1> QED BY <1>11, <1>12

(* A captured upvalue is added to the closure. *)
LEMMA AddedUpvalue ==
    ASSUME ValuesOK, closures # <<>>, NEW u, AddUpvalue(u),
           DOMAIN upvalues \subseteq DOMAIN upvalues', u \in DOMAIN upvalues'
    PROVE  /\ closures' \in Seq(ClosureRecords(DOMAIN upvalues'))
           /\ Len(closures') = Len(closures) /\ Existing' = Existing
<1>1. /\ closures \in Seq(ClosureRecords(DOMAIN upvalues)) /\ Len(closures) \in Nat
      /\ Len(closures) # 0
      BY ClosureTypes, Empty
<1> DEFINE S == DOMAIN upvalues'
           e == Len(closures)
           s == Append(closures[e].upvalues, u)
           r == [closures[e] EXCEPT !.upvalues = s]
<1>2. e \in 1..Len(closures) BY <1>1
<1>3. closures' = [closures EXCEPT ![e] = r] BY DEF AddUpvalue
<1>4. closures[e] \in ClosureRecords(DOMAIN upvalues)
      /\ closures[e].upvalues \in Seq(DOMAIN upvalues)
      BY <1>2, ClosureTypes
<1> HIDE DEF e
<1>5. s \in Seq(S)
  <2> DEFINE D == DOMAIN upvalues
  <2>1. closures[e].upvalues \in Seq(D) /\ D \subseteq S /\ u \in S BY <1>4
  <2> HIDE DEF S, D
  <2>2. closures[e].upvalues \in Seq(S) BY <2>1
  <2> QED BY <2>1, <2>2
<1> HIDE DEF s, S
<1>6. r \in ClosureRecords(S)
  <2> DEFINE T == Seq(DOMAIN upvalues)
             W == Seq(S)
  <2>1. closures[e] \in [arity : Nat, upvalues : T] BY <1>4 DEF ClosureRecords
  <2>2. s \in W BY <1>5
  <2> HIDE DEF T, W
  <2>3. r \in [arity : Nat, upvalues : W] BY <2>1, <2>2
  <2> QED BY <2>3 DEF W, ClosureRecords
<1> HIDE DEF r
<1>7. closures \in Seq(ClosureRecords(S))
  <2>1. DOMAIN upvalues \subseteq S BY DEF S
  <2> DEFINE D == DOMAIN upvalues
  <2> HIDE DEF D
  <2>2. Seq(D) \subseteq Seq(S) BY <2>1 DEF D
  <2>3. ClosureRecords(D) \subseteq ClosureRecords(S)
    <3> DEFINE T == Seq(D)
               W == Seq(S)
    <3>1. T \subseteq W BY <2>2
    <3> HIDE DEF T, W
    <3>2. [arity : Nat, upvalues : T] \subseteq [arity : Nat, upvalues : W] BY <3>1
    <3> QED BY <3>2 DEF T, W, ClosureRecords
  <2> DEFINE P == ClosureRecords(D)
             Q == ClosureRecords(S)
  <2>4. closures \in Seq(P) /\ P \subseteq Q BY <1>1, <2>3 DEF D
  <2> HIDE DEF P, Q
  <2>5. closures \in Seq(Q) BY <2>4
  <2> QED BY <2>5 DEF Q
<1> DEFINE Q == ClosureRecords(S)
<1>8. closures \in Seq(Q) /\ r \in Q BY <1>6, <1>7
<1> HIDE DEF Q
<1>9. closures' \in Seq(Q) /\ Len(closures') = Len(closures)
      BY <1>2, <1>3, <1>8, Replaced
<1>10. DOMAIN closures' = DOMAIN closures BY <1>8, <1>9
<1> QED BY <1>9, <1>10 DEF Q, S, Existing

(* A variable that has an upvalue already: only the closure changes. *)
LEMMA AddStep ==
    ASSUME IInv, capturing, NEW u \in 1..Len(upvalues), AddUpvalue(u),
           UNCHANGED <<status, stack, frames, openUpvalues, upvalues, capturing, globals, ghosts>>
    PROVE  IInv'
<1>0. FramesOK /\ ValuesOK /\ CellsOK /\ ListOK BY InvParts
<1>1. closures # <<>> /\ frames # <<>> /\ VariablesEnd - 1 <= Len(stack')
      BY <1>0, RunningFacts DEF FramesOK
<1>2. u \in DOMAIN upvalues' /\ DOMAIN upvalues \subseteq DOMAIN upvalues'
      BY <1>0, ListTypes
<1>3. /\ closures' \in Seq(ClosureRecords(DOMAIN upvalues'))
      /\ Len(closures') = Len(closures) /\ Existing' = Existing
      BY <1>0, <1>1, <1>2, AddedUpvalue
<1>4. ValuesOK'
  <2>1. Len(closures') <= MaxClosures BY <1>0, <1>3 DEF ValuesOK
  <2>2. closures' \in Seq([arity : Nat, upvalues : Seq(DOMAIN upvalues')])
        BY <1>3 DEF ClosureRecords
  <2> QED BY <1>0, <1>3, <2>1, <2>2 DEF ValuesOK
<1>5. cell' = cell /\ cellOf' = cellOf BY DEF ghosts
<1>6. cell' \in Seq(Cells \cup {NoCell}) /\ Len(cell') = Len(stack') BY <1>0, <1>5, CellTypes
<1>7. \A q \in 1..Len(cell') : IF q <= Len(cell) THEN cell'[q] = cell[q] ELSE cell'[q] = NoCell
      BY <1>0, <1>5, CellTypes
<1>8. /\ Len(upvalues') = Len(upvalues) /\ Len(closures') >= Len(closures)
      /\ \A w \in 1..Len(upvalues) : upvalues'[w].location = upvalues[w].location
      BY <1>0, <1>3, ClosureTypes
<1>9. capturing' \in BOOLEAN /\ (capturing' => capturing) BY InvParts
<1> QED BY <1>1, <1>4, <1>5, <1>6, <1>7, <1>8, <1>9, TempsStep

(* A variable with no upvalue on the list has none. *)
LEMMA FirstCapture ==
    ASSUME IInv, NEW slot \in Nat, VariableSlot(slot),
           ~(/\ Above(slot) < Len(openUpvalues)
             /\ upvalues[openUpvalues[Above(slot) + 1]].location = slot)
    PROVE  /\ \A m \in 1..Len(openUpvalues) : Location(m) # slot
           /\ \A u \in 1..Len(cellOf) : cellOf[u] # cell[slot]
           /\ slot \in 2..Len(stack) /\ cell[slot] \in Cells
<1>0. FramesOK /\ ValuesOK /\ CellsOK /\ ListOK /\ OwnersOK BY InvParts
<1>1. /\ Above(slot) \in 0..Len(openUpvalues)
      /\ \A m \in 1..Len(openUpvalues) : m <= Above(slot) <=> Location(m) > slot
      BY <1>0, WalkStops
<1> DEFINE a == Above(slot)
<1>2. /\ a \in 0..Len(openUpvalues) /\ \A m \in 1..Len(openUpvalues) : m <= a <=> Location(m) > slot
      /\ a < Len(openUpvalues) => Location(a + 1) # slot
      BY <1>1 DEF Location
<1> HIDE DEF a
<1>3. ASSUME NEW m \in 1..Len(openUpvalues) PROVE Location(m) # slot
  <2> SUFFICES ASSUME Location(m) = slot PROVE FALSE OBVIOUS
  <2>1. Location(m) \in Nat /\ Len(openUpvalues) \in Nat BY <1>0, ListTypes
  <2>2. ~(m <= a) BY <2>1, <1>2
  <2>3. a + 1 \in 1..Len(openUpvalues) /\ a < Len(openUpvalues) BY <2>1, <2>2, <1>2
  <2>4. m # a + 1 BY <2>3, <1>2
  <2>5. a + 1 < m BY <2>2, <2>4, <1>2
  <2>6. Location(a + 1) > Location(m) BY <2>3, <2>5, <1>0 DEF ListOK
  <2>7. ~(a + 1 <= a) BY <1>2
  <2>8. ~(Location(a + 1) > slot) BY <2>3, <2>7, <1>2
  <2> QED BY <2>6, <2>8
<1>4. slot \in 2..Len(stack) BY <1>0, Variables, CellTypes
<1>5. cell[slot] \in Cells
  <2>1. slot \in 1..Len(cell) BY <1>0, <1>4, CellTypes
  <2>2. cell[slot] # NoCell BY <2>1, <1>0 DEF CellsOK
  <2> QED BY <2>1, <2>2, <1>0, CellTypes
<1>6. ASSUME NEW u \in 1..Len(cellOf), cellOf[u] = cell[slot] PROVE FALSE
  <2>1. slot \in 1..Len(cell) /\ u \in 1..Len(upvalues) BY <1>0, <1>4, CellTypes
  <2>2. OnList(u) BY <2>1, <1>0, <1>6 DEF OwnersOK
  <2> DEFINE q == upvalues[u].location
  <2>3. q \in Nat /\ q >= 2 /\ q <= Len(stack) /\ cell[q] = cellOf[u]
        BY <2>2, <1>0, OnListTypes
  <2>4. q # slot
    <3>1. PICK m \in 1..Len(openUpvalues) : openUpvalues[m] = u BY <2>2 DEF OnList
    <3>2. Location(m) = q BY <3>1 DEF Location
    <3> QED BY <3>2, <1>3
  <2> HIDE DEF q
  <2>5. q \in 1..Len(cell) BY <2>3, <1>0, CellTypes
  <2>6. cell[q] # NoCell /\ cell[q] = cell[slot]
        BY <2>3, <1>5, <1>6, DataAssumption
  <2> QED BY <2>1, <2>4, <2>5, <2>6, <1>0 DEF CellsOK
<1> QED BY <1>3, <1>4, <1>5, <1>6

(* captureUpvalue inserts the new upvalue where it belongs. *)
LEMMA CaptureNewInv ==
    ASSUME IInv, capturing, NEW slot \in Nat, VariableSlot(slot), CaptureNew(slot),
           UNCHANGED <<status, stack, frames, capturing, globals, cell>>
    PROVE  IInv'
<1>0. /\ FramesOK /\ ValuesOK /\ CellsOK /\ ListOK /\ OwnersOK /\ AllListed
      /\ status \in {"idle", "running", "failed"} /\ capturing \in BOOLEAN
      BY InvParts
<1>u. PICK u \in Nat : u = Len(upvalues) + 1 BY <1>0, ListTypes
<1> DEFINE a == Above(slot)
           r == [location |-> slot, value |-> Nil]
           c == cell[slot]
<1>1. /\ upvalues' = Append(upvalues, r)
      /\ openUpvalues' = InsertAt(openUpvalues, a + 1, u)
      /\ AddUpvalue(u) /\ cellOf' = Append(cellOf, c)
      BY <1>u DEF CaptureNew
<1>2. /\ a \in 0..Len(openUpvalues)
      /\ \A m \in 1..Len(openUpvalues) : m <= a <=> Location(m) > slot
      BY <1>0, WalkStops
<1>3. /\ \A m \in 1..Len(openUpvalues) : Location(m) # slot
      /\ \A w \in 1..Len(cellOf) : cellOf[w] # c
      /\ slot \in 2..Len(stack) /\ c \in Cells
      BY FirstCapture DEF CaptureNew
<1>4. r \in Records /\ r.location = slot
  <2>1. slot \in Nat \ {1} BY <1>3
  <2>2. Nil \in Existing BY DataAssumption DEF Existing
  <2> QED BY <2>1, <2>2 DEF Records
<1>5. /\ Len(upvalues) \in Nat /\ upvalues \in Seq(Records) /\ DOMAIN upvalues = 1..Len(upvalues)
      /\ openUpvalues \in Seq(1..Len(upvalues)) /\ Len(openUpvalues) \in Nat
      /\ \A m \in 1..Len(openUpvalues) :
           openUpvalues[m] \in 1..Len(upvalues) /\ Location(m) \in Nat
      BY <1>0, ListTypes
<1> HIDE DEF a, r, c
<1>6. /\ upvalues' \in Seq(Records) /\ Len(upvalues') = u /\ upvalues'[u] = r
      /\ \A w \in 1..Len(upvalues) : upvalues'[w] = upvalues[w]
      BY <1>u, <1>1, <1>4, <1>5, Appended
<1>7. DOMAIN upvalues' = 1..u /\ u \in 1..u /\ 1..Len(upvalues) \subseteq 1..u
      BY <1>u, <1>5, <1>6
<1>8. /\ openUpvalues' \in Seq(1..u) /\ Len(openUpvalues') = Len(openUpvalues) + 1
      /\ \A i \in 1..a : openUpvalues'[i] = openUpvalues[i]
      /\ openUpvalues'[a + 1] = u
      /\ \A i \in (a + 2)..(Len(openUpvalues) + 1) : openUpvalues'[i] = openUpvalues[i - 1]
  <2> DEFINE D == 1..u
           t == InsertAt(openUpvalues, a + 1, u)
  <2>1. 1..Len(upvalues) \subseteq D /\ u \in D BY <1>7
  <2> HIDE DEF D
  <2>2. openUpvalues \in Seq(D) BY <2>1, <1>5
  <2>3. a \in 0..Len(openUpvalues) BY <1>2
  <2>4. t \in Seq(D) /\ IsInserted(t, openUpvalues, a, u) BY <2>1, <2>2, <2>3, Inserted
  <2>5. openUpvalues' = t BY <1>1
  <2> HIDE DEF t
  <2>6. /\ openUpvalues' \in Seq(D) /\ Len(openUpvalues') = Len(openUpvalues) + 1
        /\ \A i \in 1..a : openUpvalues'[i] = openUpvalues[i]
        /\ openUpvalues'[a + 1] = u
        /\ \A i \in (a + 2)..(Len(openUpvalues) + 1) : openUpvalues'[i] = openUpvalues[i - 1]
        BY <2>4, <2>5 DEF IsInserted
  <2> QED BY <2>6 DEF D
<1>9. closures # <<>> /\ frames # <<>> BY <1>0, RunningFacts DEF FramesOK
<1>10. /\ closures' \in Seq(ClosureRecords(DOMAIN upvalues'))
       /\ Len(closures') = Len(closures) /\ Existing' = Existing
       BY <1>0, <1>1, <1>5, <1>7, <1>9, AddedUpvalue
<1>11. ValuesOK'
  <2>1. Len(closures') <= MaxClosures BY <1>0, <1>10 DEF ValuesOK
  <2>2. closures' \in Seq([arity : Nat, upvalues : Seq(DOMAIN upvalues')])
        BY <1>10 DEF ClosureRecords
  <2>3. upvalues' \in Seq([location : Nat \ {1}, value : Existing'])
        BY <1>6, <1>10 DEF Records
  <2>4. /\ stack' \in Seq(Existing' \cup {Script})
        /\ \A p \in 2..Len(stack') : stack'[p] \in Existing'
        /\ globals' \in [Globals -> Existing' \cup {Undefined}]
        BY <1>0, <1>10 DEF ValuesOK
  <2> QED BY <2>1, <2>2, <2>3, <2>4 DEF ValuesOK
<1>12. FramesOK'
  <2>1. DOMAIN closures' = DOMAIN closures BY <1>0, <1>10, ClosureTypes
  <2>2. closures' # <<>>
    <3>1. Len(closures') # 0 BY <1>0, <1>9, <1>10, ClosureTypes, Empty
    <3> QED BY <3>1
  <2>3. Top' = Top BY DEF Top, Depth
  <2> QED BY <1>0, <2>1, <2>2, <2>3 DEF FramesOK
<1>13. \A p : VariableSlot(p)' <=> VariableSlot(p) BY SameFrames
<1>14. /\ cellOf' \in Seq(Cells) /\ Len(cellOf') = u /\ cellOf'[u] = c
       /\ \A w \in 1..Len(upvalues) : cellOf'[w] = cellOf[w]
  <2>1. cellOf \in Seq(Cells) /\ Len(cellOf) = Len(upvalues) BY <1>0, CellTypes
  <2>2. /\ cellOf' \in Seq(Cells) /\ Len(cellOf') = Len(cellOf) + 1
        /\ cellOf'[Len(cellOf) + 1] = c
        /\ \A w \in 1..Len(cellOf) : cellOf'[w] = cellOf[w]
        BY <1>1, <1>3, <2>1, Appended
  <2> QED BY <2>1, <2>2, <1>u
<1>15. CellsOK' BY <1>0, <1>6, <1>13, <1>14 DEF CellsOK
(* Where each entry of the new list comes from. *)
<1>16. ASSUME NEW i \in 1..Len(openUpvalues')
       PROVE  \/ i = a + 1 /\ Location(i)' = slot /\ openUpvalues'[i] = u
              \/ \E m \in 1..Len(openUpvalues) :
                   /\ openUpvalues'[i] = openUpvalues[m] /\ Location(i)' = Location(m)
                   /\ \/ i = m /\ m <= a
                      \/ i = m + 1 /\ ~(m <= a)
  <2>1. CASE i = a + 1
    <3>1. openUpvalues'[i] = u BY <2>1, <1>8
    <3>2. Location(i)' = slot BY <3>1, <1>4, <1>6 DEF Location
    <3> QED BY <2>1, <3>1, <3>2
  <2>2. CASE i \in 1..a
    <3>1. i \in 1..Len(openUpvalues) /\ i <= a BY <2>2, <1>2, <1>5
    <3>2. openUpvalues'[i] = openUpvalues[i] BY <2>2, <1>8
    <3>3. Location(i)' = Location(i) BY <3>1, <3>2, <1>5, <1>6 DEF Location
    <3> QED BY <3>1, <3>2, <3>3
  <2>3. CASE i > a + 1
    <3> DEFINE m == i - 1
    <3>1. m \in 1..Len(openUpvalues) /\ ~(m <= a) /\ i = m + 1
          /\ i \in (a + 2)..(Len(openUpvalues) + 1)
          BY <2>3, <1>2, <1>5, <1>8
    <3>2. openUpvalues'[i] = openUpvalues[m] BY <3>1, <1>8
    <3> HIDE DEF m
    <3>3. Location(i)' = Location(m) BY <3>1, <3>2, <1>5, <1>6 DEF Location
    <3> QED BY <3>1, <3>2, <3>3
  <2>4. i \in Nat /\ a \in Nat BY <1>2, <1>5, <1>8
  <2> QED BY <2>1, <2>2, <2>3, <2>4
<1>17. ListOK'
  <2>1. ASSUME NEW i \in 1..Len(openUpvalues'), NEW j \in 1..Len(openUpvalues'), i < j
        PROVE  Location(i)' > Location(j)'
    <3>1. CASE i = a + 1 /\ Location(i)' = slot
      <4>1. j # a + 1 BY <2>1, <3>1, <1>2, <1>5
      <4>2. PICK m \in 1..Len(openUpvalues) :
              /\ Location(j)' = Location(m)
              /\ \/ j = m /\ m <= a
                 \/ j = m + 1 /\ ~(m <= a)
            BY <4>1, <1>16
      <4>3. ~(m <= a) BY <2>1, <3>1, <4>2, <1>2, <1>5
      <4>4. ~(Location(m) > slot) /\ Location(m) # slot /\ Location(m) \in Nat
            BY <4>3, <1>2, <1>3, <1>5
      <4> QED BY <3>1, <4>2, <4>4
    <3>2. CASE j = a + 1 /\ Location(j)' = slot
      <4>1. i # a + 1 BY <2>1, <3>2, <1>2, <1>5
      <4>2. PICK m \in 1..Len(openUpvalues) :
              /\ Location(i)' = Location(m)
              /\ \/ i = m /\ m <= a
                 \/ i = m + 1 /\ ~(m <= a)
            BY <4>1, <1>16
      <4>3. m <= a BY <2>1, <3>2, <4>2, <1>2, <1>5
      <4> QED BY <3>2, <4>2, <4>3, <1>2
    <3>3. CASE /\ \E m \in 1..Len(openUpvalues) :
                    /\ Location(i)' = Location(m)
                    /\ \/ i = m /\ m <= a
                       \/ i = m + 1 /\ ~(m <= a)
               /\ \E l \in 1..Len(openUpvalues) :
                    /\ Location(j)' = Location(l)
                    /\ \/ j = l /\ l <= a
                       \/ j = l + 1 /\ ~(l <= a)
      <4>1. PICK m \in 1..Len(openUpvalues) :
              /\ Location(i)' = Location(m)
              /\ \/ i = m /\ m <= a
                 \/ i = m + 1 /\ ~(m <= a)
            BY <3>3
      <4>2. PICK l \in 1..Len(openUpvalues) :
              /\ Location(j)' = Location(l)
              /\ \/ j = l /\ l <= a
                 \/ j = l + 1 /\ ~(l <= a)
            BY <3>3
      <4>3. m < l BY <2>1, <4>1, <4>2, <1>2, <1>5
      <4>4. Location(m) > Location(l) BY <4>3, <1>0 DEF ListOK
      <4> QED BY <4>1, <4>2, <4>4
    <3> QED BY <3>1, <3>2, <3>3, <1>16
  <2>2. ASSUME NEW i \in 1..Len(openUpvalues')
        PROVE  VariableSlot(Location(i))' /\ cell'[Location(i)'] = cellOf'[openUpvalues'[i]]
    <3>1. CASE Location(i)' = slot /\ openUpvalues'[i] = u
      <4>1. VariableSlot(slot)' BY <1>13
      <4>2. VariableSlot(Location(i))' BY <3>1, <4>1 DEF VariableSlot
      <4> QED BY <3>1, <4>2, <1>14 DEF c
    <3>2. CASE \E m \in 1..Len(openUpvalues) :
                 openUpvalues'[i] = openUpvalues[m] /\ Location(i)' = Location(m)
      <4>1. PICK m \in 1..Len(openUpvalues) :
              openUpvalues'[i] = openUpvalues[m] /\ Location(i)' = Location(m)
            BY <3>2
      <4>2. PICK p \in Nat : p = Location(m) BY <1>5
      <4>3. VariableSlot(p) /\ cell[p] = cellOf[openUpvalues[m]] BY <4>2, <1>0 DEF ListOK
      <4>4. VariableSlot(p)' BY <4>3, <1>13
      <4>5. VariableSlot(Location(i))' BY <4>1, <4>2, <4>4 DEF VariableSlot
      <4>6. cellOf'[openUpvalues[m]] = cellOf[openUpvalues[m]] BY <1>5, <1>14
      <4> QED BY <4>1, <4>2, <4>3, <4>5, <4>6
    <3> QED BY <3>1, <3>2, <1>16
  <2>3. openUpvalues' \in Seq(DOMAIN upvalues') BY <1>7, <1>8
  <2> QED BY <2>1, <2>2, <2>3 DEF ListOK
(* No entry is lost. *)
<1>18. ASSUME NEW w \in 1..Len(upvalues), OnList(w) PROVE OnList(w)'
  <2>1. PICK m \in 1..Len(openUpvalues) : openUpvalues[m] = w BY <1>18 DEF OnList
  <2>2. PICK i \in Nat : i = IF m <= a THEN m ELSE m + 1 BY <1>5
  <2>3. i \in 1..Len(openUpvalues') /\ openUpvalues'[i] = openUpvalues[m]
    <3>1. CASE m <= a
      <4>1. i \in 1..a BY <2>2, <3>1, <1>2, <1>5
      <4> QED BY <2>2, <3>1, <4>1, <1>5, <1>8
    <3>2. CASE ~(m <= a)
      <4>1. i \in (a + 2)..(Len(openUpvalues) + 1) /\ i = m + 1 /\ i - 1 = m
            BY <2>2, <3>2, <1>2, <1>5
      <4>2. i \in 1..(Len(openUpvalues) + 1) BY <4>1, <1>2, <1>5
      <4> QED BY <4>1, <4>2, <1>8
    <3> QED BY <3>1, <3>2
  <2> QED BY <2>1, <2>3 DEF OnList
<1>19. OnList(u)'
  <2>1. a + 1 \in 1..Len(openUpvalues') /\ openUpvalues'[a + 1] = u BY <1>2, <1>5, <1>8
  <2> QED BY <2>1 DEF OnList
<1>20. \A w \in 1..Len(upvalues') : w = u \/ w \in 1..Len(upvalues) BY <1>u, <1>5, <1>6
<1>21. OwnersOK'
  <2>1. ASSUME NEW w \in 1..Len(upvalues'), NEW p \in 1..Len(cell'), cellOf'[w] = cell'[p]
        PROVE  OnList(w)'
    <3>1. CASE w = u BY <3>1, <1>19
    <3>2. CASE w \in 1..Len(upvalues)
      <4>1. cellOf[w] = cell[p] BY <2>1, <3>2, <1>14
      <4>2. OnList(w) BY <3>2, <4>1, <1>0 DEF OwnersOK
      <4> QED BY <3>2, <4>2, <1>18
    <3> QED BY <3>1, <3>2, <1>20
  <2>2. ASSUME NEW w \in 1..Len(cellOf'), NEW v \in 1..Len(cellOf'), cellOf'[w] = cellOf'[v]
        PROVE  w = v
    <3>1. Len(cellOf) = Len(upvalues) /\ Len(cellOf') = Len(upvalues')
          BY <1>0, <1>6, <1>14, CellTypes
    <3>2. CASE w = u /\ v = u BY <3>2
    <3>3. CASE w = u /\ v \in 1..Len(upvalues) BY <2>2, <3>1, <3>3, <1>3, <1>14
    <3>4. CASE v = u /\ w \in 1..Len(upvalues) BY <2>2, <3>1, <3>4, <1>3, <1>14
    <3>5. CASE w \in 1..Len(upvalues) /\ v \in 1..Len(upvalues)
          BY <2>2, <3>1, <3>5, <1>0, <1>14 DEF OwnersOK
    <3> QED BY <3>1, <3>2, <3>3, <3>4, <3>5, <1>20
  <2> QED BY <2>1, <2>2 DEF OwnersOK
<1>22. AllListed'
  <2> SUFFICES ASSUME ~ContinueOnError, status' # "failed", NEW w \in 1..Len(upvalues'), Open(w)'
               PROVE  OnList(w)'
      BY DEF AllListed
  <2>1. CASE w = u BY <2>1, <1>19
  <2>2. CASE w \in 1..Len(upvalues)
    <3>1. Open(w) BY <2>2, <1>6 DEF Open
    <3>2. OnList(w) BY <2>2, <3>1, <1>0 DEF AllListed
    <3> QED BY <2>2, <3>2, <1>18
  <2> QED BY <2>1, <2>2, <1>20
<1> QED BY <1>0, <1>11, <1>12, <1>15, <1>17, <1>21, <1>22 DEF IInv

LEMMA CaptureLocalInv ==
    ASSUME IInv, NEW n \in 1..MaxLocals, CaptureLocal(n)
    PROVE  IInv'
<1>0. FramesOK /\ ValuesOK /\ ListOK BY InvParts
<1>1. capturing /\ n \in 1..(Top.locals - 1) BY DEF CaptureLocal
<1>2. PICK slot \in Nat : slot = Top.slots + n BY <1>1, RunningFacts
<1>3. VariableSlot(slot) BY <1>1, <1>2, LocalSlot
<1>4. /\ CaptureShared(slot) \/ CaptureNew(slot)
      /\ UNCHANGED <<status, stack, frames, capturing, globals, cell>>
      BY <1>2 DEF CaptureLocal
<1>5. CASE CaptureShared(slot)
  <2>1. /\ Above(slot) < Len(openUpvalues) /\ AddUpvalue(openUpvalues[Above(slot) + 1])
        /\ UNCHANGED <<openUpvalues, upvalues, cellOf>>
        BY <1>5 DEF CaptureShared
  <2>2. Above(slot) + 1 \in 1..Len(openUpvalues)
    <3>1. Above(slot) \in 0..Len(openUpvalues) BY <1>0, WalkStops
    <3>2. Len(openUpvalues) \in Nat BY <1>0, ListTypes
    <3> QED BY <2>1, <3>1, <3>2
  <2>3. PICK u \in 1..Len(upvalues) : u = openUpvalues[Above(slot) + 1]
        BY <2>2, <1>0, ListTypes
  <2>4. AddUpvalue(u) BY <2>1, <2>3
  <2> QED BY <2>1, <2>4, <1>1, <1>4, AddStep DEF ghosts
<1>6. CASE CaptureNew(slot) BY <1>1, <1>3, <1>4, <1>6, CaptureNewInv
<1> QED BY <1>4, <1>5, <1>6

LEMMA CaptureUpvalueInv ==
    ASSUME IInv, NEW n \in 1..MaxCaptures, CaptureUpvalue(n)
    PROVE  IInv'
<1>1. /\ capturing /\ n \in DOMAIN Upvalues(Top.closure)
      /\ AddUpvalue(Upvalues(Top.closure)[n])
      /\ UNCHANGED <<status, stack, frames, openUpvalues, upvalues, capturing, globals, ghosts>>
      BY DEF CaptureUpvalue
<1>2. Top \in Frames BY <1>1, RunningFacts
<1>3. Top.closure \in {Script} \cup DOMAIN closures BY <1>2 DEF Frames
<1>4. PICK u \in 1..Len(upvalues) : u = Upvalues(Top.closure)[n]
      BY <1>1, <1>3, ClosureUpvalues
<1>5. AddUpvalue(u) BY <1>1, <1>4
<1> QED BY <1>1, <1>5, AddStep

-----------------------------------------------------------------------------
(* Calls and returns. *)

(* Distinct free cells there are enough of. *)
LEMMA FreshTypes ==
    ASSUME NEW n \in Nat, FreshCells(n) # {}
    PROVE  LET cs == CHOOSE cs \in FreshCells(n) : TRUE
           IN  /\ cs \in Seq(FreeCells) /\ Len(cs) = n
               /\ \A i \in 1..n : cs[i] \in FreeCells
               /\ \A i, j \in 1..n : cs[i] = cs[j] => i = j
<1> DEFINE cs == CHOOSE cs \in FreshCells(n) : TRUE
<1>1. cs \in FreshCells(n) OBVIOUS
<1> HIDE DEF cs
<1>2. cs \in [1..n -> FreeCells] /\ IsInjective(cs) BY <1>1 DEF FreshCells
<1>3. cs \in Seq(FreeCells) /\ Len(cs) = n BY <1>2
<1>4. \A i, j \in 1..n : cs[i] = cs[j] => i = j BY <1>2 DEF IsInjective
<1>5. \A i \in 1..n : cs[i] \in FreeCells BY <1>2
<1> QED BY <1>3, <1>4, <1>5 DEF cs

LEMMA Unchanged ==
    ASSUME ValuesOK, UNCHANGED <<stack, globals, upvalues, closures>>
    PROVE  ValuesOK' /\ Existing' = Existing
BY DEF ValuesOK, Existing

(* OP_CALL: the arguments become variables of the new frame. *)
LEMMA CallInv ==
    ASSUME IInv, NEW n \in 0..MaxArity, Call(n)
    PROVE  IInv'
<1>0. /\ FramesOK /\ ValuesOK /\ CellsOK /\ ListOK
      /\ status \in {"idle", "running", "failed"} /\ capturing \in BOOLEAN
      BY InvParts
<1>1. /\ Running /\ n < Temps /\ Callable(n) /\ FreshCells(n) # {}
      /\ UNCHANGED <<status, stack, openUpvalues, upvalues, closures, capturing, globals, cellOf>>
      BY DEF Call, heap
<1>2. n \in Nat OBVIOUS
<1>3. /\ status = "running" /\ frames # <<>> /\ Top.slots \in Nat /\ Top.locals \in Nat
      /\ Len(stack) \in Nat /\ StackTop = Len(stack) /\ VariablesEnd = Top.slots + Top.locals
      /\ VariablesEnd \in Nat /\ VariablesEnd >= 2 /\ Temps = Len(stack) + 1 - VariablesEnd
      /\ Peek(n) \in Existing
      BY <1>1, <1>2, RunningFacts
<1>4. PICK s \in Nat : s = StackTop - n /\ s >= VariablesEnd /\ s + n = Len(stack)
  <2> DEFINE m == Len(stack)
             e == VariablesEnd
  <2>1. m \in Nat /\ e \in Nat /\ n < m + 1 - e BY <1>1, <1>3
  <2>2. StackTop = m BY <1>3
  <2> HIDE DEF m, e
  <2>3. m - n \in Nat /\ m - n >= e /\ (m - n) + n = m BY <1>2, <2>1
  <2> QED BY <2>2, <2>3 DEF m, e
<1> DEFINE fr == [closure |-> Peek(n), slots |-> s, locals |-> n + 1]
           cs == CHOOSE cs \in FreshCells(n) : TRUE
<1>5. frames' = Append(frames, fr) /\ cell' = SubSeq(cell, 1, s) \o cs BY <1>4 DEF Call
<1>6. /\ cs \in Seq(FreeCells) /\ Len(cs) = n /\ \A i \in 1..n : cs[i] \in FreeCells
      /\ \A i, j \in 1..n : cs[i] = cs[j] => i = j
      BY <1>1, <1>2, FreshTypes
<1>7. fr \in Frames /\ fr.slots = s /\ fr.locals = n + 1
  <2>1. Peek(n) \in DOMAIN closures BY <1>1, <1>3 DEF Callable, Existing
  <2>2. s \in Nat \ {0} /\ n + 1 \in Nat \ {0} BY <1>2, <1>3, <1>4
  <2> QED BY <2>1, <2>2 DEF Frames
<1> HIDE DEF fr, cs
<1>8. /\ frames' \in Seq(Frames) /\ frames' # <<>> /\ Top' = fr /\ frames'[1].slots = 1
      /\ \A f, g \in 1..Len(frames') :
           f < g => frames'[f].slots + frames'[f].locals <= frames'[g].slots
      /\ \A p \in Nat : VariableSlot(p)' <=>
           \/ VariableSlot(p)
           \/ s < p /\ p < s + (n + 1)
  <2>1. fr.slots >= Top.slots + Top.locals BY <1>3, <1>4, <1>7
  <2> QED BY <2>1, <1>0, <1>3, <1>5, <1>7, FrameAdded
<1>9. ValuesOK' /\ Existing' = Existing BY <1>0, <1>1, Unchanged
<1>10. FramesOK'
  <2>1. Top'.slots + Top'.locals <= Len(stack') + 1 BY <1>1, <1>2, <1>3, <1>4, <1>7, <1>8
  <2>2. frames' \in Seq([closure : {Script} \cup DOMAIN closures',
                         slots : Nat \ {0}, locals : Nat \ {0}])
        BY <1>1, <1>8 DEF Frames
  <2>3. status' = "running" /\ (capturing' => status' = "running" /\ closures' # <<>>)
        BY <1>0, <1>1, <1>3 DEF FramesOK
  <2> QED BY <1>8, <2>1, <2>2, <2>3 DEF FramesOK
<1>11. /\ cell' \in Seq(Cells \cup {NoCell}) /\ Len(cell') = Len(stack)
       /\ \A p \in 1..s : cell'[p] = cell[p]
       /\ \A p \in (s + 1)..Len(stack) : cell'[p] = cs[p - s]
  <2> DEFINE S == Cells \cup {NoCell}
             b == SubSeq(cell, 1, s)
             t == b \o cs
  <2>1. FreeCells \subseteq S BY DEF FreeCells
  <2>2. cell \in Seq(S) /\ s \in 0..Len(cell) /\ Len(cell) = Len(stack)
        BY <1>0, <1>3, <1>4, CellTypes
  <2> HIDE DEF S
  <2>3. b \in Seq(S) /\ Len(b) = s /\ \A p \in 1..s : b[p] = cell[p] BY <2>2, Prefix
  <2>4. cs \in Seq(S) BY <2>1, <1>6
  <2>5. cell' = b \o cs BY <1>5
  <2> HIDE DEF b
  <2>a. Len(b) = s /\ Len(cs) = n BY <2>3, <1>6
  <2>b. t \in Seq(S) /\ IsJoined(t, b, cs) BY <2>3, <2>4, Joined
  <2>c. cell' = t BY <2>5
  <2> HIDE DEF t
  <2>6. cell' \in Seq(S) /\ Len(cell') = s + n /\ \A p \in 1..s : cell'[p] = b[p]
        BY <2>a, <2>b, <2>c DEF IsJoined
  <2>7. \A p \in (s + 1)..(s + n) : cell'[p] = cs[p - s]
        BY <2>a, <2>b, <2>c DEF IsJoined
  <2> QED BY <2>3, <2>6, <2>7, <1>4 DEF S
<1>l. PICK m \in Nat : m = Len(cell') /\ m = s + n /\ m = Len(stack) BY <1>3, <1>4, <1>11
<1>12. NewSlots(s + 1)
  <2>1. ASSUME NEW p \in 1..Len(cell'), p < s + 1
        PROVE  /\ cell'[p] = cell[p]
               /\ VariableSlot(p)' <=> VariableSlot(p)
    <3>1. p \in 1..s /\ p \in Nat /\ ~(s < p) BY <2>1, <1>l
    <3> QED BY <3>1, <1>8, <1>11
  <2>2. ASSUME NEW p \in 1..Len(cell'), p >= s + 1
        PROVE  cell'[p] \in FreeCells /\ VariableSlot(p)'
    <3>1. p \in (s + 1)..Len(stack) /\ p - s \in 1..n /\ p \in Nat /\ s < p /\ p < s + (n + 1)
          BY <2>2, <1>2, <1>l
    <3> QED BY <3>1, <1>6, <1>8, <1>11
  <2>3. ASSUME NEW p \in 1..Len(cell'), NEW q \in 1..Len(cell'), p >= s + 1, q >= s + 1,
               cell'[p] = cell'[q]
        PROVE  p = q
    <3>1. /\ p \in (s + 1)..Len(stack) /\ p - s \in 1..n
          /\ q \in (s + 1)..Len(stack) /\ q - s \in 1..n
          BY <2>3, <1>2, <1>l
    <3>2. cs[p - s] = cs[q - s] BY <3>1, <2>3, <1>11
    <3>3. p - s = q - s BY <3>1, <3>2, <1>6
    <3> QED BY <3>1, <3>3, <1>4
  <2>4. (s + 1) - 1 <= Len(cell') /\ (s + 1) - 1 <= Len(cell)
        BY <1>0, <1>2, <1>3, <1>4, <1>11, CellTypes
  <2> QED BY <2>1, <2>2, <2>3, <2>4, <1>1, <1>11 DEF NewSlots
<1>13. Cut(s + 1)
  <2>1. upvalues' \in Seq([location : Nat \ {1}, value : Existing'])
        BY <1>0, <1>1, <1>9 DEF ValuesOK
  <2>2. ASSUME NEW u \in 1..Len(upvalues), OnList(u) PROVE upvalues[u].location < s + 1
    <3> DEFINE x == upvalues[u].location
               e == VariablesEnd
    <3>1. x \in Nat /\ x < e BY <2>2, <1>0, OnListTypes
    <3>2. e \in Nat /\ s >= e BY <1>3, <1>4
    <3> HIDE DEF x, e
    <3>3. x < s + 1 BY <3>1, <3>2
    <3> QED BY <3>3 DEF x
  <2>3. s + 1 \in Nat OBVIOUS
  <2> QED BY <2>1, <2>2, <2>3, <1>0, <1>1, UncutBelow
<1>14. CellsOK' /\ ListOK' /\ OwnersOK' /\ AllListed'
  <2>1. s + 1 \in Nat \ {0} OBVIOUS
  <2> QED BY <2>1, <1>1, <1>12, <1>13, StepKeeps
<1> QED BY <1>0, <1>1, <1>9, <1>10, <1>14 DEF IInv

(* What the steps that leave a program, or start one, do to the closures. *)
LEMMA ClosuresKept ==
    ASSUME ValuesOK, UNCHANGED <<closures, globals>>,
           upvalues' \in Seq([location : Nat \ {1}, value : Existing']),
           Len(upvalues') = Len(upvalues),
           stack' \in Seq(Existing \cup {Script}),
           \A p \in 2..Len(stack') : stack'[p] \in Existing
    PROVE  ValuesOK' /\ Existing' = Existing
<1>1. Existing' = Existing BY DEF Existing
<1>2. DOMAIN upvalues' = DOMAIN upvalues BY DEF ValuesOK
<1> QED BY <1>1, <1>2 DEF ValuesOK

(* runtimeError() leaves open upvalues behind that are not on the list. *)
LEMMA ErrorInv ==
    ASSUME IInv, Running, RuntimeError
    PROVE  IInv'
<1>0. FramesOK /\ ValuesOK /\ CellsOK /\ OwnersOK /\ capturing \in BOOLEAN BY InvParts
<1>1. /\ status' = "failed" /\ stack' = <<>> /\ cell' = <<>> /\ frames' = <<>>
      /\ openUpvalues' = <<>> /\ UNCHANGED <<upvalues, closures, capturing, globals, cellOf>>
      BY DEF RuntimeError
<1>2. ~capturing' BY <1>1 DEF Running
<1>3. /\ Len(stack') = 0 /\ Len(cell') = 0 /\ Len(frames') = 0 /\ Len(openUpvalues') = 0
      BY <1>1
<1>4. FramesOK'
  <2>1. frames' \in Seq([closure : {Script} \cup DOMAIN closures',
                         slots : Nat \ {0}, locals : Nat \ {0}])
        BY <1>1
  <2> QED BY <2>1, <1>1, <1>2, <1>3 DEF FramesOK
<1>5. ValuesOK'
  <2>1. Existing' = Existing BY <1>1 DEF Existing
  <2>2. stack' \in Seq(Existing \cup {Script}) BY <1>1
  <2>3. upvalues' \in Seq([location : Nat \ {1}, value : Existing']) /\ Len(upvalues') = Len(upvalues)
        BY <2>1, <1>0, <1>1 DEF ValuesOK
  <2> QED BY <2>2, <2>3, <1>0, <1>1, <1>3, ClosuresKept
<1>6. CellsOK'
  <2>1. cell' \in Seq(Cells \cup {NoCell}) BY <1>1
  <2>2. cellOf' \in Seq(Cells) /\ Len(cellOf') = Len(upvalues') BY <1>0, <1>1 DEF CellsOK
  <2> QED BY <2>1, <2>2, <1>3 DEF CellsOK
<1>7. ListOK'
  <2>1. openUpvalues' \in Seq(DOMAIN upvalues') BY <1>1
  <2> QED BY <2>1, <1>3 DEF ListOK
<1>8. OwnersOK' BY <1>0, <1>1, <1>3 DEF OwnersOK
<1>9. AllListed' BY <1>1 DEF AllListed
<1> QED BY <1>0, <1>1, <1>4, <1>5, <1>6, <1>7, <1>8, <1>9 DEF IInv

(* OP_RETURN: nothing of the frame is left but the result. *)
LEMMA ReturnInv ==
    ASSUME IInv, Return
    PROVE  IInv'
<1>0. /\ FramesOK /\ ValuesOK /\ CellsOK /\ ListOK
      /\ status \in {"idle", "running", "failed"} /\ capturing \in BOOLEAN
      BY InvParts
<1>1. /\ Running /\ Temps = 1 /\ Depth > 1 /\ CloseUpvalues(Top.slots) /\ frames' = Front(frames)
      /\ stack' = Append(SubSeq(stack, 1, Top.slots - 1), Peek(0))
      /\ cell' = SubSeq(cell, 1, Top.slots - 1) \o <<NoCell>>
      /\ UNCHANGED <<status, closures, capturing, globals, cellOf>>
      BY DEF Return
<1>2. /\ status = "running" /\ frames # <<>> /\ Top.slots \in Nat /\ Top.slots >= 1
      /\ Len(stack) \in Nat /\ VariablesEnd = Top.slots + Top.locals /\ Top.locals \in Nat
      /\ Top.locals >= 1 /\ Temps = Len(stack) + 1 - VariablesEnd /\ Peek(0) \in Existing
      BY <1>1, RunningFacts
<1>3. PICK last \in Nat \ {0} : last = Top.slots BY <1>2
<1>4. last <= Len(stack)
  <2> DEFINE m == Len(stack)
             k == Top.locals
  <2>1. m \in Nat /\ k \in Nat /\ k >= 1 /\ m + 1 - (last + k) = 1 BY <1>1, <1>2, <1>3
  <2> HIDE DEF m, k
  <2>2. last <= m BY <2>1
  <2> QED BY <2>2 DEF m
<1>5. /\ frames' \in Seq(Frames) /\ frames' # <<>> /\ frames'[1].slots = 1
      /\ Top'.slots + Top'.locals <= last
      /\ \A f, g \in 1..Len(frames') :
           f < g => frames'[f].slots + frames'[f].locals <= frames'[g].slots
      /\ \A p \in Nat : VariableSlot(p)' <=> VariableSlot(p) /\ p < last
      BY <1>0, <1>1, <1>3, FrameRemoved
<1>6. Cut(last) BY <1>0, <1>1, <1>3, Closed
<1>7. PICK m \in Nat : m = last - 1 /\ m + 1 = last /\ m <= Len(stack) BY <1>2, <1>3, <1>4
<1>8. /\ stack' \in Seq(Existing \cup {Script}) /\ Len(stack') = last
      /\ \A p \in 2..Len(stack') : stack'[p] \in Existing
  <2> DEFINE S == Existing \cup {Script}
             b == SubSeq(stack, 1, m)
             v == Peek(0)
  <2>1. stack \in Seq(S) /\ v \in S /\ v \in Existing BY <1>0, <1>2 DEF ValuesOK
  <2>2. stack' = Append(b, v) BY <1>1, <1>3, <1>7
  <2>3. m \in 0..Len(stack) BY <1>2, <1>7
  <2>4. \A p \in 2..Len(stack) : stack[p] \in Existing BY <1>0 DEF ValuesOK
  <2> HIDE DEF S, v
  <2>5. b \in Seq(S) /\ Len(b) = m /\ \A p \in 1..m : b[p] = stack[p] BY <2>1, <2>3, Prefix
  <2> HIDE DEF b
  <2>6. /\ stack' \in Seq(S) /\ Len(stack') = m + 1 /\ stack'[m + 1] = v
        /\ \A p \in 1..m : stack'[p] = b[p]
        BY <2>1, <2>2, <2>5, Appended
  <2>7. ASSUME NEW p \in 2..Len(stack') PROVE stack'[p] \in Existing
    <3>1. CASE p = m + 1 BY <3>1, <2>1, <2>6
    <3>2. CASE p # m + 1
      <4>1. p \in 1..m /\ p \in 2..Len(stack) BY <3>2, <2>3, <2>6
      <4> QED BY <4>1, <2>4, <2>5, <2>6
    <3> QED BY <3>1, <3>2
  <2> QED BY <2>6, <2>7, <1>7 DEF S
<1>9. ValuesOK' /\ Existing' = Existing
  <2>1. /\ upvalues' \in Seq([location : Nat \ {1}, value : Existing'])
        /\ Len(upvalues') = Len(upvalues)
        BY <1>6 DEF Cut
  <2> QED BY <2>1, <1>0, <1>1, <1>8, ClosuresKept
<1>10. FramesOK'
  <2>1. Top'.slots + Top'.locals <= Len(stack') + 1
    <3>1. Top' \in Frames
      <4>1. Len(frames') \in 1..Len(frames') BY <1>5, Empty
      <4> QED BY <4>1, <1>5 DEF Top, Depth
    <3>2. Top'.slots \in Nat /\ Top'.locals \in Nat BY <3>1 DEF Frames
    <3> QED BY <3>2, <1>3, <1>5, <1>8
  <2>2. frames' \in Seq([closure : {Script} \cup DOMAIN closures',
                         slots : Nat \ {0}, locals : Nat \ {0}])
        BY <1>1, <1>5 DEF Frames
  <2>3. status' = "running" /\ (capturing' => status' = "running" /\ closures' # <<>>)
        BY <1>0, <1>1, <1>2 DEF FramesOK
  <2> QED BY <1>5, <2>1, <2>2, <2>3 DEF FramesOK
<1>11. /\ cell' \in Seq(Cells \cup {NoCell}) /\ Len(cell') = last
       /\ cell'[last] = NoCell /\ \A p \in 1..m : cell'[p] = cell[p]
  <2> DEFINE S == Cells \cup {NoCell}
             b == SubSeq(cell, 1, m)
  <2>1. NoCell \in S OBVIOUS
  <2>2. cell \in Seq(S) /\ m \in 0..Len(cell)
        BY <1>0, <1>2, <1>7, CellTypes
  <2> HIDE DEF S
  <2>3. b \in Seq(S) /\ Len(b) = m /\ \A p \in 1..m : b[p] = cell[p] BY <2>2, Prefix
  <2>4. cell' = b \o <<NoCell>> BY <1>1, <1>3, <1>7
  <2> HIDE DEF b
  <2>5. /\ b \o <<NoCell>> \in Seq(S) /\ Len(b \o <<NoCell>>) = m + 1
        /\ (b \o <<NoCell>>)[m + 1] = NoCell
        /\ \A p \in 1..m : (b \o <<NoCell>>)[p] = b[p]
        BY <2>1, <2>3
  <2> QED BY <2>3, <2>4, <2>5, <1>7 DEF S
<1>12. NewSlots(last)
  <2>1. ASSUME NEW p \in 1..Len(cell'), p < last
        PROVE  cell'[p] = cell[p] /\ (VariableSlot(p)' <=> VariableSlot(p))
    <3>1. p \in 1..m /\ p \in Nat BY <2>1, <1>7, <1>11
    <3> QED BY <2>1, <3>1, <1>5, <1>11
  <2>2. ASSUME NEW p \in 1..Len(cell'), p >= last
        PROVE  p = last /\ cell'[p] = NoCell /\ ~VariableSlot(p)'
    <3>1. p = last /\ p \in Nat /\ ~(p < last) BY <2>2, <1>11
    <3> QED BY <3>1, <1>5, <1>11
  <2>3. last - 1 <= Len(cell') /\ last - 1 <= Len(cell)
        BY <1>0, <1>2, <1>3, <1>4, <1>11, CellTypes
  <2> QED BY <2>1, <2>2, <2>3, <1>1, <1>8, <1>11 DEF NewSlots
<1>13. CellsOK' /\ ListOK' /\ OwnersOK' /\ AllListed'
       BY <1>1, <1>6, <1>12, StepKeeps
<1> QED BY <1>0, <1>1, <1>9, <1>10, <1>13 DEF IInv

(* OP_RETURN of the script: the stack is empty again. *)
LEMMA FinishInv ==
    ASSUME IInv, Finish
    PROVE  IInv'
<1>0. /\ FramesOK /\ ValuesOK /\ CellsOK /\ ListOK
      /\ status \in {"idle", "running", "failed"} /\ capturing \in BOOLEAN
      BY InvParts
<1>1. /\ Running /\ Temps = 1 /\ Depth = 1 /\ Top.locals = 1 /\ CloseUpvalues(Top.slots)
      /\ frames' = <<>> /\ status' = "idle" /\ Truncate(StackTop - 2)
      /\ UNCHANGED <<closures, capturing, globals, cellOf>>
      BY DEF Finish
<1>2. /\ status = "running" /\ frames # <<>> /\ Len(stack) \in Nat /\ StackTop = Len(stack)
      /\ VariablesEnd = Top.slots + Top.locals /\ Temps = Len(stack) + 1 - VariablesEnd
      BY <1>1, RunningFacts
<1>3. Top.slots = 1 BY <1>0, <1>1, <1>2 DEF FramesOK, Top
<1>4. StackTop - 2 = 0
  <2> DEFINE m == Len(stack)
  <2>1. m \in Nat /\ StackTop = m BY <1>2
  <2>2. m + 1 - (1 + 1) = 1 BY <1>1, <1>2, <1>3
  <2> HIDE DEF m
  <2>3. m - 2 = 0 BY <2>1, <2>2
  <2> QED BY <2>1, <2>3
<1>5. stack' = <<>> /\ cell' = <<>>
  <2>1. stack' = SubSeq(stack, 1, 0) /\ cell' = SubSeq(cell, 1, 0) BY <1>1, <1>4 DEF Truncate
  <2>2. stack \in Seq(Existing \cup {Script}) BY <1>0 DEF ValuesOK
  <2>3. cell \in Seq(Cells \cup {NoCell}) BY <1>0 DEF CellsOK
  <2> QED BY <2>1, <2>2, <2>3
<1>6. Len(stack') = 0 /\ Len(cell') = 0 /\ Len(frames') = 0 BY <1>1, <1>5
<1>7. 1 \in Nat \ {0} /\ CloseUpvalues(1) BY <1>1, <1>3
<1>8. Cut(1) BY <1>0, <1>1, <1>7, Closed
<1>9. ValuesOK' /\ Existing' = Existing
  <2>1. /\ upvalues' \in Seq([location : Nat \ {1}, value : Existing'])
        /\ Len(upvalues') = Len(upvalues)
        BY <1>8 DEF Cut
  <2>2. stack' \in Seq(Existing \cup {Script}) BY <1>5
  <2> QED BY <2>1, <2>2, <1>0, <1>1, <1>6, ClosuresKept
<1>10. FramesOK'
  <2>1. frames' \in Seq([closure : {Script} \cup DOMAIN closures',
                         slots : Nat \ {0}, locals : Nat \ {0}])
        BY <1>1
  <2>2. ~capturing' BY <1>1 DEF Running
  <2> QED BY <2>1, <2>2, <1>1, <1>5, <1>6 DEF FramesOK
<1>11. NewSlots(1)
  <2>1. cell' \in Seq(Cells \cup {NoCell}) BY <1>5
  <2>2. 1 - 1 <= Len(cell') /\ 1 - 1 <= Len(cell) BY <1>0, <1>6, CellTypes
  <2> QED BY <2>1, <2>2, <1>1, <1>6 DEF NewSlots
<1>12. CellsOK' /\ ListOK' /\ OwnersOK' /\ AllListed'
       BY <1>2, <1>7, <1>8, <1>11, StepKeeps
<1> QED BY <1>0, <1>1, <1>9, <1>10, <1>12 DEF IInv

(* interpret(): the first program, or the next one. *)
LEMMA InterpretInv ==
    ASSUME IInv, Interpret
    PROVE  IInv'
<1>0. /\ FramesOK /\ ValuesOK /\ CellsOK /\ ListOK
      /\ status \in {"idle", "running", "failed"} /\ capturing \in BOOLEAN
      BY InvParts
<1>1. /\ status = "idle" \/ (status = "failed" /\ ContinueOnError)
      /\ status' = "running" /\ Push(Script)
      /\ frames' = <<[closure |-> Script, slots |-> StackTop + 1, locals |-> 1]>>
      /\ UNCHANGED <<openUpvalues, upvalues, closures, capturing, globals, cellOf>>
      BY DEF Interpret, heap
<1>2. frames = <<>> /\ stack = <<>> /\ ~capturing /\ StackTop = 0
  <2>1. status # "running" BY <1>1
  <2>2. frames = <<>> /\ ~capturing BY <2>1, <1>0 DEF FramesOK
  <2>3. stack = <<>> BY <2>2, <1>0 DEF FramesOK
  <2> QED BY <2>2, <2>3 DEF StackTop
<1>3. cell = <<>>
  <2>1. cell \in Seq(Cells \cup {NoCell}) /\ Len(cell) = 0 BY <1>0, <1>2, CellTypes
  <2> QED BY <2>1, Empty
<1>4. stack' = <<Script>> /\ cell' = <<NoCell>> BY <1>1, <1>2, <1>3 DEF Push
<1> DEFINE fr == [closure |-> Script, slots |-> 1, locals |-> 1]
<1>5. frames' = <<fr>> BY <1>1, <1>2
<1>6. fr \in Frames BY DEF Frames
<1>7. fr.slots = 1 /\ fr.locals = 1 OBVIOUS
<1> HIDE DEF fr
<1>8. Len(frames') = 1 /\ frames'[1] = fr /\ frames' # <<>> BY <1>5
<1>9. Len(stack') = 1 /\ Len(cell') = 1 /\ cell'[1] = NoCell BY <1>4
<1>10. Top' = fr BY <1>8 DEF Top, Depth
<1>11. FramesOK'
  <2>1. frames' \in Seq(Frames) BY <1>5, <1>6
  <2>2. frames' \in Seq([closure : {Script} \cup DOMAIN closures',
                         slots : Nat \ {0}, locals : Nat \ {0}])
        BY <2>1, <1>1 DEF Frames
  <2>3. Top'.slots + Top'.locals <= Len(stack') + 1 BY <1>7, <1>9, <1>10
  <2>4. ~capturing' BY <1>1, <1>2
  <2>5. \A f, g \in 1..Len(frames') :
          f < g => frames'[f].slots + frames'[f].locals <= frames'[g].slots
        BY <1>8
  <2> QED BY <2>2, <2>3, <2>4, <2>5, <1>1, <1>7, <1>8 DEF FramesOK
<1>12. upvalues' \in Seq([location : Nat \ {1}, value : Existing'])
  <2>1. Existing' = Existing BY <1>1 DEF Existing
  <2> QED BY <2>1, <1>0, <1>1 DEF ValuesOK
<1>13. ValuesOK'
  <2>1. stack' \in Seq(Existing \cup {Script}) BY <1>4
  <2>2. \A p \in 2..Len(stack') : stack'[p] \in Existing BY <1>9
  <2> QED BY <2>1, <2>2, <1>0, <1>1, <1>12, ClosuresKept
<1>14. NewSlots(1)
  <2>1. cell' \in Seq(Cells \cup {NoCell}) BY <1>4
  <2>2. 1 - 1 <= Len(cell') /\ 1 - 1 <= Len(cell) BY <1>0, <1>9, CellTypes
  <2>3. \A p \in 1..Len(cell') : p = 1 BY <1>9
  <2>4. ~VariableSlot(1)' BY <1>7, <1>8 DEF VariableSlot
  <2>5. \A p \in 1..Len(cell') : cell'[p] = NoCell /\ ~VariableSlot(p)' BY <2>3, <2>4, <1>9
  <2> QED BY <2>1, <2>2, <2>3, <2>5, <1>1, <1>9 DEF NewSlots
<1>15. Cut(1)
  <2>1. VariablesEnd = 1 BY <1>2 DEF VariablesEnd
  <2> QED BY <2>1, <1>0, <1>1, <1>12, Uncut
<1>16. 1 \in Nat \ {0} OBVIOUS
<1>17. CellsOK' /\ ListOK' /\ OwnersOK' /\ AllListed'
       BY <1>1, <1>14, <1>15, <1>16, StepKeeps
<1> QED BY <1>0, <1>1, <1>11, <1>13, <1>17 DEF IInv

-----------------------------------------------------------------------------
(* The invariant. *)

LEMMA InitInv == Init => IInv
<1> SUFFICES ASSUME Init PROVE IInv OBVIOUS
<1>1. /\ status = "idle" /\ stack = <<>> /\ frames = <<>> /\ openUpvalues = <<>>
      /\ upvalues = <<>> /\ closures = <<>> /\ capturing = FALSE
      /\ globals = [g \in Globals |-> Undefined] /\ cell = <<>> /\ cellOf = <<>>
      BY DEF Init
<1>2. /\ Len(stack) = 0 /\ Len(frames) = 0 /\ Len(openUpvalues) = 0 /\ Len(upvalues) = 0
      /\ Len(closures) = 0 /\ Len(cell) = 0 /\ Len(cellOf) = 0
      BY <1>1
<1>3. FramesOK
  <2>1. frames \in Seq([closure : {Script} \cup DOMAIN closures,
                        slots : Nat \ {0}, locals : Nat \ {0}])
        BY <1>1
  <2> QED BY <2>1, <1>1, <1>2 DEF FramesOK
<1>4. ValuesOK
  <2>1. stack \in Seq(Existing \cup {Script}) BY <1>1
  <2>2. globals \in [Globals -> Existing \cup {Undefined}] BY <1>1
  <2>3. upvalues \in Seq([location : Nat \ {1}, value : Existing]) BY <1>1
  <2>4. closures \in Seq([arity : Nat, upvalues : Seq(DOMAIN upvalues)]) BY <1>1
  <2>5. 0 <= MaxClosures BY BoundsAssumption
  <2> QED BY <2>1, <2>2, <2>3, <2>4, <2>5, <1>2 DEF ValuesOK
<1>5. CellsOK
  <2>1. cell \in Seq(Cells \cup {NoCell}) /\ cellOf \in Seq(Cells) BY <1>1
  <2> QED BY <2>1, <1>2 DEF CellsOK
<1>6. ListOK
  <2>1. openUpvalues \in Seq(DOMAIN upvalues) BY <1>1
  <2> QED BY <2>1, <1>2 DEF ListOK
<1>7. OwnersOK /\ AllListed BY <1>2 DEF OwnersOK, AllListed
<1> QED BY <1>1, <1>3, <1>4, <1>5, <1>6, <1>7 DEF IInv

LEMMA NextInv == IInv /\ Next => IInv'
<1> SUFFICES ASSUME IInv, Next PROVE IInv' OBVIOUS
<1>1. ASSUME Interpret PROVE IInv' BY <1>1, InterpretInv
<1>2. ASSUME NEW v \in Data, Constant(v) \/ Operate(v) PROVE IInv'
      BY <1>2, ConstantInv, OperateInv
<1>3. ASSUME Pop \/ Declare \/ PopLocal \/ CloseUpvalue PROVE IInv'
      BY <1>3, PopInv, DeclareInv, PopLocalInv, CloseUpvalueInv
<1>4. ASSUME NEW n \in 1..MaxLocals, GetLocal(n) \/ SetLocal(n) \/ CaptureLocal(n) PROVE IInv'
      BY <1>4, GetLocalInv, SetLocalInv, CaptureLocalInv
<1>5. ASSUME NEW a \in 0..MaxArity, NEW named \in BOOLEAN, Closure(a, named) PROVE IInv'
      BY <1>5, ClosureInv
<1>6. ASSUME NEW n \in 1..MaxCaptures, CaptureUpvalue(n) \/ GetUpvalue(n) \/ SetUpvalue(n)
      PROVE  IInv'
      BY <1>6, CaptureUpvalueInv, GetUpvalueInv, SetUpvalueInv
<1>7. ASSUME ClosureDone PROVE IInv' BY <1>7, ClosureDoneInv
<1>8. ASSUME NEW g \in Globals, GetGlobal(g) \/ DefineGlobal(g) \/ SetGlobal(g) PROVE IInv'
      BY <1>8, GetGlobalInv, DefineGlobalInv, SetGlobalInv
<1>9. ASSUME NEW n \in 0..MaxArity, Call(n) \/ CallFails(n) PROVE IInv'
  <2>1. CASE Call(n) BY <2>1, CallInv
  <2>2. CASE CallFails(n) BY <2>2, ErrorInv DEF CallFails
  <2> QED BY <1>9, <2>1, <2>2
<1>10. ASSUME OperationFails PROVE IInv' BY <1>10, ErrorInv DEF OperationFails
<1>11. ASSUME Return \/ Finish PROVE IInv' BY <1>11, ReturnInv, FinishInv
<1> QED BY <1>1, <1>2, <1>3, <1>4, <1>5, <1>6, <1>7, <1>8, <1>9, <1>10, <1>11 DEF Next

LEMMA StutterInv == IInv /\ UNCHANGED vars => IInv'
<1> SUFFICES ASSUME IInv, UNCHANGED vars PROVE IInv' OBVIOUS
<1>0. /\ FramesOK /\ ValuesOK /\ CellsOK /\ ListOK /\ OwnersOK /\ AllListed
      /\ status \in {"idle", "running", "failed"} /\ capturing \in BOOLEAN
      BY InvParts
<1>1. /\ status' = status /\ stack' = stack /\ frames' = frames /\ openUpvalues' = openUpvalues
      /\ upvalues' = upvalues /\ closures' = closures /\ capturing' = capturing
      /\ globals' = globals /\ cell' = cell /\ cellOf' = cellOf
      BY DEF vars
<1>2. \A p : VariableSlot(p)' <=> VariableSlot(p) BY <1>1, SameFrames
<1>3. FramesOK' BY <1>0, <1>1 DEF FramesOK, Top, Depth
<1>4. ValuesOK' BY <1>0, <1>1, Unchanged
<1>5. CellsOK' BY <1>0, <1>1, <1>2 DEF CellsOK
<1>6. ListOK' BY <1>0, <1>1 DEF ListOK, Location, VariableSlot
<1>7. OwnersOK' BY <1>0, <1>1 DEF OwnersOK, OnList
<1>8. AllListed' BY <1>0, <1>1 DEF AllListed, OnList, Open
<1> QED BY <1>0, <1>1, <1>3, <1>4, <1>5, <1>6, <1>7, <1>8 DEF IInv

LEMMA AlwaysInv == Spec => []IInv
<1>1. Init => IInv BY InitInv
<1>2. IInv /\ [Next]_vars => IInv' BY NextInv, StutterInv
<1> QED BY <1>1, <1>2, PTL DEF Spec

LEMMA InvTypes == IInv => TypeOK
<1> SUFFICES ASSUME IInv PROVE TypeOK OBVIOUS
<1>0. FramesOK /\ ValuesOK /\ CellsOK /\ ListOK BY InvParts
<1>1. DOMAIN closures = 1..Len(closures) /\ Len(closures) \in Nat /\ Len(closures) <= MaxClosures
      BY <1>0, ClosureTypes
<1>2. MaxClosures \in Nat BY BoundsAssumption
<1>3. DOMAIN closures \subseteq 1..MaxClosures BY <1>1, <1>2
<1>4. Existing \subseteq Values BY <1>3 DEF Existing, Values
<1>5. {Script} \cup DOMAIN closures \subseteq 0..MaxClosures BY <1>2, <1>3 DEF Script
<1>6. stack \in Seq(Values \cup {Script})
  <2> DEFINE S == Existing \cup {Script}
             T == Values \cup {Script}
  <2>1. S \subseteq T /\ stack \in Seq(S) BY <1>0, <1>4 DEF ValuesOK
  <2> HIDE DEF S, T
  <2>2. stack \in Seq(T) BY <2>1
  <2> QED BY <2>2 DEF T
<1>7. frames \in Seq([closure : 0..MaxClosures, slots : Nat \ {0}, locals : Nat \ {0}])
  <2> DEFINE T == [closure : 0..MaxClosures, slots : Nat \ {0}, locals : Nat \ {0}]
  <2>1. Frames \subseteq T BY <1>5 DEF Frames
  <2>2. frames \in Seq(Frames) BY <1>0, FrameTypes
  <2> HIDE DEF T
  <2>3. frames \in Seq(T) BY <2>1, <2>2
  <2> QED BY <2>3 DEF T
<1>8. /\ openUpvalues \in Seq(DOMAIN upvalues) /\ upvalues \in Seq(Records)
      /\ DOMAIN upvalues = 1..Len(upvalues) /\ Len(upvalues) \in Nat
      BY <1>0, ListTypes
<1>9. DOMAIN upvalues \subseteq Nat \ {0} BY <1>8
<1>10. openUpvalues \in Seq(Nat \ {0})
  <2> DEFINE S == DOMAIN upvalues
             T == Nat \ {0}
  <2>1. S \subseteq T /\ openUpvalues \in Seq(S) BY <1>8, <1>9
  <2> HIDE DEF S, T
  <2>2. openUpvalues \in Seq(T) BY <2>1
  <2> QED BY <2>2 DEF T
<1>11. upvalues \in Seq([location : Nat, value : Values \cup {Script}])
  <2> DEFINE T == [location : Nat, value : Values \cup {Script}]
  <2>1. Records \subseteq T BY <1>4 DEF Records
  <2> HIDE DEF T
  <2>2. upvalues \in Seq(T) BY <2>1, <1>8
  <2> QED BY <2>2 DEF T
<1>12. closures \in Seq([arity : Nat, upvalues : Seq(Nat \ {0})])
  <2> DEFINE S == DOMAIN upvalues
             T == Nat \ {0}
             A == Seq(S)
             B == Seq(T)
             R == [arity : Nat, upvalues : A]
             Q == [arity : Nat, upvalues : B]
  <2>1. closures \in Seq(R) BY <1>0 DEF ValuesOK
  <2>2. S \subseteq T BY <1>9
  <2>3. A \subseteq B
    <3> HIDE DEF S, T
    <3> QED BY <2>2
  <2>4. R \subseteq Q
    <3> HIDE DEF A, B
    <3> QED BY <2>3
  <2> HIDE DEF R, Q
  <2>5. closures \in Seq(Q) BY <2>1, <2>4
  <2> QED BY <2>5 DEF Q
<1>13. globals \in [Globals -> Values \cup {Undefined}]
  <2>1. globals \in [Globals -> Existing \cup {Undefined}] BY <1>0 DEF ValuesOK
  <2> QED BY <2>1, <1>4
<1>14. cell \in Seq(Cells \cup {NoCell}) /\ cellOf \in Seq(Cells) BY <1>0 DEF CellsOK
<1>15. status \in {"idle", "running", "failed"} /\ capturing \in BOOLEAN BY InvParts
<1> QED BY <1>6, <1>7, <1>10, <1>11, <1>12, <1>13, <1>14, <1>15 DEF TypeOK

LEMMA InvSorted == IInv => OpenListSorted
<1> SUFFICES ASSUME IInv PROVE OpenListSorted OBVIOUS
<1>0. FramesOK /\ ValuesOK /\ ListOK BY InvParts
<1>1. DOMAIN openUpvalues = 1..Len(openUpvalues) BY <1>0, ListTypes
<1>2. ASSUME NEW m \in DOMAIN openUpvalues PROVE Open(openUpvalues[m])
  <2>1. PICK u : u = openUpvalues[m] OBVIOUS
  <2>2. OnList(u) BY <2>1, <1>1 DEF OnList
  <2>3. upvalues[u].location >= 2 /\ upvalues[u].location \in Nat BY <2>2, <1>0, OnListTypes
  <2>4. upvalues[u].location # 0 BY <2>3
  <2> QED BY <2>1, <2>4 DEF Open
<1>3. \A m, n \in DOMAIN openUpvalues : m < n => Location(m) > Location(n)
      BY <1>0, <1>1 DEF ListOK
<1> QED BY <1>2, <1>3 DEF OpenListSorted

LEMMA InvLive == ~ContinueOnError /\ IInv => OpenUpvaluesLive
<1> SUFFICES ASSUME ~ContinueOnError, IInv, status = "running", NEW u \in DOMAIN upvalues, Open(u)
             PROVE  PointsAtVariable(u)
    BY DEF OpenUpvaluesLive
<1>0. FramesOK /\ ValuesOK /\ ListOK /\ AllListed BY InvParts
<1>1. u \in 1..Len(upvalues) BY <1>0, ListTypes
<1>2. OnList(u) BY <1>0, <1>1 DEF AllListed
<1>3. u \in ToSet(openUpvalues) BY <1>0, <1>2, ListTypes, Elements DEF OnList
<1>4. upvalues[u].location <= StackTop /\ cell[upvalues[u].location] = cellOf[u]
      BY <1>0, <1>2, OnListTypes DEF StackTop
<1> QED BY <1>3, <1>4 DEF PointsAtVariable

(* Every component of the virtual machine keeps its type: the slots and the  *)
(* upvalues hold values that exist, and every upvalue a closure lists is one *)
(* that was created.                                                         *)
THEOREM TypeCorrect == Spec => []TypeOK
<1>1. IInv => TypeOK BY InvTypes
<1> QED BY <1>1, AlwaysInv, PTL

(* captureUpvalue() keeps vm.openUpvalues in the order in which it and       *)
(* closeUpvalues() walk it, whatever is called, captured, closed or fails.   *)
THEOREM ListSorted == Spec => []OpenListSorted
<1>1. IInv => OpenListSorted BY InvSorted
<1> QED BY <1>1, AlwaysInv, PTL

(* In a session that ends at its first error, no instruction leaves an open  *)
(* upvalue off vm.openUpvalues, or one that points at anything but the slot  *)
(* of the variable it captured.  The hypothesis is needed: resetStack()      *)
(* forgets the list, and the run ClosureVMError shows what follows.          *)
THEOREM UpvaluesLive == ~ContinueOnError => (Spec => []OpenUpvaluesLive)
<1> SUFFICES ASSUME ~ContinueOnError PROVE Spec => []OpenUpvaluesLive OBVIOUS
<1>1. IInv => OpenUpvaluesLive BY InvLive
<1> QED BY <1>1, AlwaysInv, PTL

-----------------------------------------------------------------------------
(* What the frames mean. *)

LEMMA Slice ==
    ASSUME NEW S, NEW s \in Seq(S), NEW a \in Nat \ {0}, NEW b \in Nat, b <= Len(s), a <= b + 1
    PROVE  /\ SubSeq(s, a, b) \in Seq(S) /\ Len(SubSeq(s, a, b)) = b + 1 - a
           /\ \A i \in 1..(b + 1 - a) : SubSeq(s, a, b)[i] = s[a + i - 1]
<1>1. \A i \in a..b : i \in 1..Len(s) /\ s[i] \in S OBVIOUS
<1>2. SubSeq(s, a, b) \in Seq(S) BY <1>1
<1>3. Len(SubSeq(s, a, b)) = b + 1 - a OBVIOUS
<1>4. \A i \in 1..(b + 1 - a) : SubSeq(s, a, b)[i] = s[a + i - 1] OBVIOUS
<1> QED BY <1>2, <1>3, <1>4

LEMMA SameSequence ==
    ASSUME NEW S, NEW T, NEW s \in Seq(S), NEW t \in Seq(T), Len(s) = Len(t),
           \A i \in 1..Len(s) : s[i] = t[i]
    PROVE  s = t
OBVIOUS

LEMMA SameSlice ==
    ASSUME NEW S, NEW T, NEW s \in Seq(S), NEW t \in Seq(T), NEW a \in Nat \ {0}, NEW b \in Nat,
           b <= Len(s), b <= Len(t), a <= b + 1, \A i \in a..b : s[i] = t[i]
    PROVE  SubSeq(s, a, b) = SubSeq(t, a, b)
<1> DEFINE x == SubSeq(s, a, b)
           y == SubSeq(t, a, b)
<1>1. /\ x \in Seq(S) /\ Len(x) = b + 1 - a
      /\ \A i \in 1..(b + 1 - a) : x[i] = s[a + i - 1]
      BY Slice
<1>2. /\ y \in Seq(T) /\ Len(y) = b + 1 - a
      /\ \A i \in 1..(b + 1 - a) : y[i] = t[a + i - 1]
      BY Slice
<1> HIDE DEF x, y
<1>3. ASSUME NEW i \in 1..(b + 1 - a) PROVE x[i] = y[i]
  <2>1. a + i - 1 \in a..b OBVIOUS
  <2> QED BY <2>1, <1>1, <1>2
<1>4. x = y BY <1>1, <1>2, <1>3, SameSequence
<1> QED BY <1>4 DEF x, y

(* The slice with one element more. *)
LEMMA SliceMore ==
    ASSUME NEW S, NEW s \in Seq(S), NEW a \in Nat \ {0}, NEW b \in Nat, b + 1 <= Len(s), a <= b + 1
    PROVE  SubSeq(s, a, b + 1) = Append(SubSeq(s, a, b), s[b + 1])
<1> DEFINE x == SubSeq(s, a, b)
           y == SubSeq(s, a, b + 1)
           v == s[b + 1]
           z == Append(x, v)
<1>1. /\ x \in Seq(S) /\ Len(x) = b + 1 - a
      /\ \A i \in 1..(b + 1 - a) : x[i] = s[a + i - 1]
      BY Slice
<1>2. /\ y \in Seq(S) /\ Len(y) = b + 2 - a
      /\ \A i \in 1..(b + 2 - a) : y[i] = s[a + i - 1]
  <2>1. a <= (b + 1) + 1 /\ b + 1 \in Nat OBVIOUS
  <2> QED BY <2>1, Slice
<1>3. v \in S OBVIOUS
<1> HIDE DEF x, y, v
<1>4. /\ z \in Seq(S) /\ Len(z) = b + 2 - a /\ z[b + 2 - a] = v
      /\ \A i \in 1..(b + 1 - a) : z[i] = x[i]
  <2>1. z \in Seq(S) /\ Len(z) = Len(x) + 1 /\ z[Len(x) + 1] = v
        /\ \A i \in 1..Len(x) : z[i] = x[i]
        BY <1>1, <1>3, Appended
  <2>2. Len(x) + 1 = b + 2 - a BY <1>1
  <2> QED BY <2>1, <2>2, <1>1
<1> HIDE DEF z
<1>5. ASSUME NEW i \in 1..(b + 2 - a) PROVE y[i] = z[i]
  <2>1. CASE i = b + 2 - a
    <3>1. a + i - 1 = b + 1 BY <2>1
    <3> QED BY <3>1, <2>1, <1>2, <1>4 DEF v
  <2>2. CASE i # b + 2 - a
    <3>1. i \in 1..(b + 1 - a) BY <2>2
    <3> QED BY <3>1, <1>1, <1>2, <1>4
  <2> QED BY <2>1, <2>2
<1>6. y = z BY <1>2, <1>4, <1>5, SameSequence
<1> QED BY <1>6 DEF x, y, z, v

(* ... and with one element less. *)
LEMMA SliceLess ==
    ASSUME NEW S, NEW s \in Seq(S), NEW a \in Nat \ {0}, NEW b \in Nat \ {0}, b <= Len(s), a <= b
    PROVE  /\ Front(SubSeq(s, a, b)) = SubSeq(s, a, b - 1)
           /\ Last(SubSeq(s, a, b)) = s[b] /\ SubSeq(s, a, b) # <<>>
<1> DEFINE x == SubSeq(s, a, b)
           y == SubSeq(s, a, b - 1)
<1>1. x \in Seq(S) /\ Len(x) = b + 1 - a /\ \A i \in 1..(b + 1 - a) : x[i] = s[a + i - 1] BY Slice
<1>2. y \in Seq(S) /\ Len(y) = b - a /\ \A i \in 1..(b - a) : y[i] = s[a + i - 1]
  <2>1. b - 1 \in Nat /\ b - 1 <= Len(s) /\ a <= (b - 1) + 1 /\ (b - 1) + 1 - a = b - a OBVIOUS
  <2> QED BY <2>1, Slice
<1> HIDE DEF x, y
<1>3. Last(x) = s[b]
  <2>1. b + 1 - a \in 1..(b + 1 - a) /\ a + (b + 1 - a) - 1 = b OBVIOUS
  <2>2. x[Len(x)] = s[b] BY <2>1, <1>1
  <2> QED BY <2>2 DEF Last
<1>4. Front(x) = SubSeq(x, 1, b - a) BY <1>1 DEF Front
<1>5. /\ Front(x) \in Seq(S) /\ Len(Front(x)) = b - a
      /\ \A i \in 1..(b - a) : Front(x)[i] = x[i]
  <2>1. b - a \in 0..Len(x) BY <1>1
  <2> QED BY <2>1, <1>1, <1>4, Prefix
<1>6. ASSUME NEW i \in 1..(b - a) PROVE Front(x)[i] = y[i]
  <2>1. i \in 1..(b + 1 - a) OBVIOUS
  <2> QED BY <2>1, <1>1, <1>2, <1>5
<1>7. Front(x) = y BY <1>2, <1>5, <1>6, SameSequence
<1>8. x # <<>> BY <1>1
<1> QED BY <1>3, <1>7, <1>8 DEF x, y

(* The slots of a frame: its variables, and its temporaries up to the next frame. *)
LEMMA FrameFacts ==
    ASSUME IInv, NEW f \in 1..Len(frames)
    PROVE  /\ frames[f].slots \in Nat \ {0} /\ frames[f].locals \in Nat \ {0}
           /\ frames[f].closure \in {Script} \cup DOMAIN closures
           /\ FrameEnd(f) \in Nat /\ FrameEnd(f) <= Len(stack)
           /\ frames[f].slots + frames[f].locals <= FrameEnd(f) + 1
           /\ f < Len(frames) => FrameEnd(f) < Top.slots
           /\ \A p \in (frames[f].slots + frames[f].locals)..FrameEnd(f) : ~VariableSlot(p)
<1>0. FramesOK /\ ValuesOK BY InvParts
<1>1. /\ frames \in Seq(Frames) /\ Len(frames) \in Nat
      /\ \A g \in 1..Len(frames) :
           /\ frames[g] \in Frames
           /\ frames[g].slots \in Nat /\ frames[g].slots >= 1
           /\ frames[g].locals \in Nat /\ frames[g].locals >= 1
      BY <1>0, FrameTypes
<1>2. /\ Top = frames[Len(frames)] /\ Len(stack) \in Nat
      /\ Top.slots \in Nat /\ Top.locals \in Nat /\ Top.slots + Top.locals <= Len(stack) + 1
  <2>1. frames # <<>> BY <1>1
  <2> QED BY <2>1, <1>0, TopFrame DEF Depth
<1>3. \A g, h \in 1..Len(frames) : g < h => frames[g].slots + frames[g].locals <= frames[h].slots
      BY <1>0 DEF FramesOK
<1>4. frames[f].closure \in {Script} \cup DOMAIN closures BY <1>1 DEF Frames
<1>5. CASE f = Len(frames)
  <2>1. FrameEnd(f) = Len(stack) BY <1>5 DEF FrameEnd, Depth, StackTop
  <2>2. frames[f] = Top BY <1>2, <1>5
  <2>3. ASSUME NEW p \in (Top.slots + Top.locals)..Len(stack), VariableSlot(p) PROVE FALSE
    <3>1. PICK g \in 1..Len(frames) : frames[g].slots < p /\ p < frames[g].slots + frames[g].locals
          BY <2>3 DEF VariableSlot
    <3>2. CASE g = f BY <3>1, <3>2, <2>2, <1>2
    <3>3. CASE g # f
      <4>1. g < f BY <3>3, <1>1, <1>5
      <4>2. frames[g].slots + frames[g].locals <= Top.slots BY <4>1, <1>3, <2>2
      <4>3. frames[g].slots \in Nat /\ frames[g].locals \in Nat BY <1>1
      <4>4. Top.slots \in Nat /\ Top.locals \in Nat BY <1>2
      <4>5. p \in Int /\ p >= Top.slots + Top.locals BY <4>4, <1>2
      <4> QED BY ONLY <4>2, <4>3, <4>4, <4>5, <3>1
    <3> QED BY <3>2, <3>3
  <2> QED BY <2>1, <2>2, <2>3, <1>1, <1>2, <1>4, <1>5
<1>6. CASE f < Len(frames)
  <2> DEFINE g == f + 1
  <2>1. g \in 1..Len(frames) /\ f < g BY <1>1, <1>6
  <2>2. FrameEnd(f) = frames[g].slots - 1 BY <1>1, <1>6 DEF FrameEnd, Depth
  <2>3. frames[f].slots + frames[f].locals <= frames[g].slots BY <2>1, <1>3
  <2> HIDE DEF g
  <2>4. frames[g].slots <= Top.slots
    <3>1. CASE g = Len(frames) BY <3>1, <2>1, <1>1, <1>2
    <3>2. CASE g # Len(frames)
      <4>1. frames[g].slots + frames[g].locals <= Top.slots BY <3>2, <2>1, <1>1, <1>2, <1>3
      <4> QED BY <4>1, <2>1, <1>1, <1>2
    <3> QED BY <3>1, <3>2
  <2>5. ASSUME NEW p \in (frames[f].slots + frames[f].locals)..FrameEnd(f), VariableSlot(p)
        PROVE  FALSE
    <3>1. PICK h \in 1..Len(frames) : frames[h].slots < p /\ p < frames[h].slots + frames[h].locals
          BY <2>5 DEF VariableSlot
    <3>2. p \in Nat /\ p < frames[g].slots BY <2>1, <2>2, <1>1
    <3>3. CASE h = f BY <3>1, <3>2, <3>3, <1>1
    <3>4. CASE h < f
      <4>1. frames[h].slots + frames[h].locals <= frames[f].slots BY <3>4, <1>3
      <4>2. frames[h].slots \in Nat /\ frames[h].locals \in Nat BY <1>1
      <4>3. frames[f].slots \in Nat /\ frames[f].locals \in Nat BY <1>1
      <4>4. p >= frames[f].slots + frames[f].locals BY <3>2, <4>3, <2>2
      <4> QED BY ONLY <4>1, <4>2, <4>3, <4>4, <3>1, <3>2
    <3>5. CASE h = g BY <3>1, <3>2, <3>5, <1>1
    <3>6. CASE h > g
      <4>1. frames[g].slots + frames[g].locals <= frames[h].slots BY <3>6, <2>1, <1>3
      <4> QED BY <4>1, <3>1, <3>2, <2>1, <1>1
    <3> QED BY <3>3, <3>4, <3>5, <3>6, <2>1, <1>1 DEF g
  <2>6. /\ frames[f].slots \in Nat \ {0} /\ frames[f].locals \in Nat \ {0}
        /\ frames[g].slots \in Nat /\ frames[g].slots >= 1
        BY <2>1, <1>1
  <2>7. /\ FrameEnd(f) \in Nat /\ FrameEnd(f) < Top.slots /\ FrameEnd(f) <= Len(stack)
        /\ frames[f].slots + frames[f].locals <= FrameEnd(f) + 1
    <3> DEFINE x == frames[g].slots
               y == frames[f].slots + frames[f].locals
               z == Top.slots
    <3>1. x \in Nat /\ x >= 1 /\ y \in Nat /\ y <= x BY <2>3, <2>6
    <3>2. z \in Nat /\ x <= z /\ z <= Len(stack) /\ Len(stack) \in Nat
      <4>1. Len(frames) \in 1..Len(frames) BY <1>1
      <4>2. Top.locals >= 1 BY <4>1, <1>1, <1>2
      <4>3. /\ Len(stack) \in Nat /\ Top.slots \in Nat /\ Top.locals \in Nat
            /\ Top.slots + Top.locals <= Len(stack) + 1
            BY <1>2
      <4>4. Top.slots <= Len(stack) BY ONLY <4>2, <4>3
      <4> QED BY <4>3, <4>4, <2>4
    <3> HIDE DEF x, y, z
    <3>3. FrameEnd(f) = x - 1 BY <2>2 DEF x
    <3>4. FrameEnd(f) \in Nat /\ FrameEnd(f) < z /\ FrameEnd(f) <= Len(stack)
          /\ y <= FrameEnd(f) + 1
          BY ONLY <3>1, <3>2, <3>3
    <3> QED BY <3>4 DEF y, z
  <2> QED BY <2>5, <2>6, <2>7, <1>4
<1> QED BY <1>1, <1>5, <1>6

(* The cells and the temporaries of a frame, one by one. *)
LEMMA FrameCells ==
    ASSUME IInv, NEW f \in 1..Len(frames)
    PROVE  /\ FrameMeant(f).closure = frames[f].closure
           /\ FrameMeant(f).locals \in Seq(Cells \cup {NoCell})
           /\ Len(FrameMeant(f).locals) = frames[f].locals - 1
           /\ \A n \in 1..(frames[f].locals - 1) :
                FrameMeant(f).locals[n] = cell[frames[f].slots + n]
           /\ FrameMeant(f).temps \in Seq(Existing \cup {Script})
           /\ Len(FrameMeant(f).temps) = FrameEnd(f) + 1 - (frames[f].slots + frames[f].locals)
           /\ \A n \in 1..(FrameEnd(f) + 1 - (frames[f].slots + frames[f].locals)) :
                FrameMeant(f).temps[n] = stack[frames[f].slots + frames[f].locals + n - 1]
<1>0. ValuesOK /\ CellsOK BY InvParts
<1> DEFINE s == frames[f].slots
           k == frames[f].locals
           e == FrameEnd(f)
<1>1. /\ s \in Nat \ {0} /\ k \in Nat \ {0} /\ e \in Nat /\ e <= Len(stack) /\ s + k <= e + 1
      /\ Len(stack) \in Nat
      BY <1>0, FrameFacts, CellTypes
<1>2. /\ cell \in Seq(Cells \cup {NoCell}) /\ Len(cell) = Len(stack)
      /\ stack \in Seq(Existing \cup {Script})
      BY <1>0, CellTypes DEF ValuesOK
<1>3. /\ FrameMeant(f).closure = frames[f].closure
      /\ FrameMeant(f).locals = SubSeq(cell, s + 1, s + k - 1)
      /\ FrameMeant(f).temps = SubSeq(stack, s + k, e)
      BY DEF FrameMeant
<1> HIDE DEF s, k, e
<1>4. /\ s + 1 \in Nat \ {0} /\ s + k - 1 \in Nat /\ s + k - 1 <= Len(cell)
      /\ s + 1 <= (s + k - 1) + 1 /\ (s + k - 1) + 1 - (s + 1) = k - 1
      /\ s + k \in Nat \ {0}
      BY <1>1, <1>2
<1>5. /\ FrameMeant(f).locals \in Seq(Cells \cup {NoCell})
      /\ Len(FrameMeant(f).locals) = k - 1
      /\ \A n \in 1..(k - 1) : FrameMeant(f).locals[n] = cell[(s + 1) + n - 1]
  <2> DEFINE x == s + 1
             y == s + k - 1
             w == SubSeq(cell, x, y)
  <2>1. x \in Nat \ {0} /\ y \in Nat /\ y <= Len(cell) /\ x <= y + 1 /\ y + 1 - x = k - 1
        BY <1>4
  <2> HIDE DEF x, y
  <2>2. /\ w \in Seq(Cells \cup {NoCell}) /\ Len(w) = k - 1
        /\ \A n \in 1..(k - 1) : w[n] = cell[x + n - 1]
    <3>1. /\ w \in Seq(Cells \cup {NoCell}) /\ Len(w) = y + 1 - x
          /\ \A n \in 1..(y + 1 - x) : w[n] = cell[x + n - 1]
          BY ONLY <2>1, <1>2, Slice
    <3> HIDE DEF w
    <3> QED BY <3>1, <2>1
  <2>3. FrameMeant(f).locals = w BY <1>3 DEF x, y
  <2> HIDE DEF w
  <2> QED BY <2>2, <2>3 DEF x
<1>6. \A n \in 1..(k - 1) : (s + 1) + n - 1 = s + n BY <1>1
<1>7. /\ FrameMeant(f).temps \in Seq(Existing \cup {Script})
      /\ Len(FrameMeant(f).temps) = e + 1 - (s + k)
      /\ \A n \in 1..(e + 1 - (s + k)) : FrameMeant(f).temps[n] = stack[(s + k) + n - 1]
      BY <1>1, <1>2, <1>3, <1>4, Slice
<1> QED BY <1>3, <1>5, <1>6, <1>7 DEF s, k, e

(* A frame means what it did while its slots and its variables' cells stay. *)
LEMMA SameFrame ==
    ASSUME IInv, IInv', NEW f \in 1..Len(frames), frames'[f] = frames[f],
           FrameEnd(f)' = FrameEnd(f), FrameEnd(f) <= Len(stack'),
           \A p \in (frames[f].slots + 1)..(frames[f].slots + frames[f].locals - 1) :
               cell'[p] = cell[p],
           \A p \in (frames[f].slots + frames[f].locals)..FrameEnd(f) : stack'[p] = stack[p]
    PROVE  FrameMeant(f)' = FrameMeant(f)
<1>0. ValuesOK /\ CellsOK BY InvParts
<1>p. ValuesOK' /\ CellsOK' BY DEF IInv
<1> DEFINE s == frames[f].slots
           k == frames[f].locals
           e == FrameEnd(f)
<1>1. /\ s \in Nat \ {0} /\ k \in Nat \ {0} /\ e \in Nat /\ e <= Len(stack) /\ s + k <= e + 1
      /\ Len(stack) \in Nat
      BY <1>0, FrameFacts, CellTypes
<1>2. /\ cell \in Seq(Cells \cup {NoCell}) /\ Len(cell) = Len(stack)
      /\ stack \in Seq(Existing \cup {Script})
      BY <1>0, CellTypes DEF ValuesOK
<1>3. /\ cell' \in Seq(Cells \cup {NoCell}) /\ Len(cell') = Len(stack')
      /\ stack' \in Seq(Existing' \cup {Script})
      BY <1>p DEF ValuesOK, CellsOK
<1>4. e <= Len(stack') /\ frames'[f].slots = s /\ frames'[f].locals = k /\ FrameEnd(f)' = e
      OBVIOUS
<1>5. \A p \in (s + 1)..(s + k - 1) : cell'[p] = cell[p] OBVIOUS
<1>6. \A p \in (s + k)..e : stack'[p] = stack[p] OBVIOUS
<1>7. /\ FrameMeant(f) = [closure |-> frames[f].closure, locals |-> SubSeq(cell, s + 1, s + k - 1),
                          temps |-> SubSeq(stack, s + k, e)]
      /\ FrameMeant(f)' = [closure |-> frames[f].closure,
                           locals |-> SubSeq(cell', s + 1, s + k - 1),
                           temps |-> SubSeq(stack', s + k, e)]
      BY <1>4 DEF FrameMeant
<1> HIDE DEF s, k, e
<1>8. /\ s + 1 \in Nat \ {0} /\ s + k - 1 \in Nat /\ s + k - 1 <= Len(cell)
      /\ s + 1 <= (s + k - 1) + 1 /\ s + k \in Nat \ {0}
      BY <1>1, <1>2
<1>9. Len(stack') \in Nat /\ s + k - 1 <= Len(cell') BY <1>1, <1>3, <1>4
<1>10. SubSeq(cell', s + 1, s + k - 1) = SubSeq(cell, s + 1, s + k - 1)
  <2> DEFINE x == s + 1
             y == s + k - 1
  <2>1. /\ x \in Nat \ {0} /\ y \in Nat /\ y <= Len(cell) /\ y <= Len(cell') /\ x <= y + 1
        /\ \A p \in x..y : cell'[p] = cell[p]
        BY <1>5, <1>8, <1>9
  <2> HIDE DEF x, y
  <2>2. SubSeq(cell', x, y) = SubSeq(cell, x, y) BY ONLY <2>1, <1>2, <1>3, SameSlice
  <2> QED BY <2>2 DEF x, y
<1>11. SubSeq(stack', s + k, e) = SubSeq(stack, s + k, e)
       BY <1>1, <1>2, <1>3, <1>4, <1>6, <1>8, SameSlice
<1> QED BY <1>7, <1>10, <1>11

LEMMA MeantFrames ==
    ASSUME IInv
    PROVE  /\ DOMAIN FramesMeant = 1..Len(frames) /\ Len(FramesMeant) = Len(frames)
           /\ Len(frames) \in Nat
           /\ \A f \in 1..Len(frames) : FramesMeant[f] = FrameMeant(f)
           /\ Lexical!Depth = Len(frames)
           /\ frames # <<>> => /\ Lexical!Top = FrameMeant(Len(frames))
                               /\ Lexical!Temps = FrameMeant(Len(frames)).temps
<1>0. FramesOK /\ ValuesOK BY InvParts
<1>1. Len(frames) \in Nat /\ frames \in Seq(Frames) BY <1>0, FrameTypes
<1>2. FramesMeant = [f \in 1..Len(frames) |-> FrameMeant(f)] BY DEF FramesMeant, Depth
<1>3. /\ DOMAIN FramesMeant = 1..Len(frames)
      /\ \A f \in 1..Len(frames) : FramesMeant[f] = FrameMeant(f)
      BY <1>2
<1>4. FramesMeant \in Seq({FramesMeant[f] : f \in 1..Len(frames)}) BY <1>1, <1>2
<1>5. Len(FramesMeant) = Len(frames) BY <1>1, <1>3, <1>4
<1>6. frames # <<>> => Len(frames) \in 1..Len(frames) BY <1>1
<1> QED BY <1>1, <1>3, <1>5, <1>6 DEF Lexical!Depth, Lexical!Top, Lexical!Temps

LEMMA FrameLocals == FramesOK => \A f \in 1..Len(frames) : frames[f].locals \in Nat
BY FrameTypes

(* An instruction of the running frame: the frames below mean what they did. *)
LEMMA TopStep ==
    ASSUME IInv, IInv', frames # <<>>, Len(frames') = Len(frames), Top'.slots = Top.slots,
           \A f \in 1..Len(frames) : f < Len(frames) => frames'[f] = frames[f],
           \A p \in 1..(Top.slots - 1) : cell'[p] = cell[p],
           \A p \in 1..(Top.slots - 1) : VariableSlot(p) \/ stack'[p] = stack[p]
    PROVE  FramesMeant' = [FramesMeant EXCEPT ![Len(frames)] = FrameMeant(Len(frames))']
<1>0. FramesOK BY InvParts
<1>p. FramesOK' /\ ValuesOK' BY DEF IInv
<1>1. Len(frames) \in Nat /\ Top = frames[Len(frames)] BY <1>0, FrameTypes DEF Top, Depth
<1>2. Top' = frames'[Len(frames)] BY DEF Top, Depth
<1>3. /\ Top.slots \in Nat /\ Top.slots >= 1 /\ Top.slots - 1 <= Len(stack')
  <2>1. Top.slots \in Nat /\ Top.slots >= 1
    <3>1. Len(frames) \in 1..Len(frames) BY <1>0, FrameTypes
    <3> QED BY <3>1, <1>0, <1>1, FrameTypes
  <2>2. frames' # <<>> BY <1>0, <1>1, FrameTypes
  <2>3. Top'.slots + Top'.locals <= Len(stack') + 1 BY <2>2, <1>p DEF FramesOK
  <2>4. Top'.locals \in Nat
    <3>1. (FramesOK => \A f \in 1..Len(frames) : frames[f].locals \in Nat)'
          BY FrameLocals, PTL
    <3>2. Len(frames) \in 1..Len(frames') BY <1>0, <1>1, FrameTypes
    <3> QED BY <3>1, <3>2, <1>2, <1>p
  <2>5. Len(stack') \in Nat BY <1>p DEF ValuesOK
  <2> QED BY <2>1, <2>3, <2>4, <2>5
<1>4. ASSUME NEW f \in 1..Len(frames), f < Len(frames) PROVE FrameMeant(f)' = FrameMeant(f)
  <2> DEFINE s == frames[f].slots
             k == frames[f].locals
             e == FrameEnd(f)
             t == Top.slots
  <2>1. /\ s \in Nat \ {0} /\ k \in Nat \ {0} /\ e \in Nat /\ s + k <= e + 1 /\ e < t /\ t \in Nat
        /\ \A p \in (s + k)..e : ~VariableSlot(p)
        BY <1>3, <1>4, FrameFacts
  <2>2. frames'[f] = frames[f] BY <1>4
  <2>3. FrameEnd(f)' = FrameEnd(f)
    <3>1. f + 1 \in 1..Len(frames) /\ f # Len(frames) BY <1>1, <1>4
    <3>2. frames'[f + 1].slots = frames[f + 1].slots
      <4>1. CASE f + 1 < Len(frames) BY <4>1, <3>1
      <4>2. CASE f + 1 = Len(frames) BY <4>2, <1>1, <1>2
      <4> QED BY <4>1, <4>2, <3>1, <1>1
    <3> QED BY <3>1, <3>2 DEF FrameEnd, Depth
  <2>4. /\ \A p \in 1..(t - 1) : cell'[p] = cell[p]
        /\ \A p \in 1..(t - 1) : VariableSlot(p) \/ stack'[p] = stack[p]
        OBVIOUS
  <2>5. t - 1 <= Len(stack') /\ Len(stack') \in Nat BY <1>3, <1>p DEF ValuesOK
  <2> HIDE DEF s, k, e, t
  <2>6. e <= Len(stack') BY <2>1, <2>5
  <2>7. \A p \in (s + 1)..(s + k - 1) : cell'[p] = cell[p]
    <3> TAKE p \in (s + 1)..(s + k - 1)
    <3>1. p \in 1..(t - 1) BY <2>1
    <3> QED BY <3>1, <2>4
  <2>8. \A p \in (s + k)..e : stack'[p] = stack[p]
    <3> TAKE p \in (s + k)..e
    <3>1. p \in 1..(t - 1) BY <2>1
    <3> QED BY <3>1, <2>1, <2>4
  <2> QED BY <2>2, <2>3, <2>6, <2>7, <2>8, SameFrame DEF s, k, e
<1>5. FramesMeant' = [f \in 1..Len(frames) |-> FrameMeant(f)'] BY DEF FramesMeant, Depth
<1>6. /\ DOMAIN FramesMeant = 1..Len(frames)
      /\ \A f \in 1..Len(frames) : FramesMeant[f] = FrameMeant(f)
      BY MeantFrames
<1>7. FramesMeant = [f \in 1..Len(frames) |-> FrameMeant(f)] BY DEF FramesMeant, Depth
<1>8. \A f \in 1..Len(frames) :
         FrameMeant(f)' = IF f = Len(frames) THEN FrameMeant(Len(frames))' ELSE FrameMeant(f)
      BY <1>1, <1>4
<1> QED BY <1>5, <1>6, <1>7, <1>8

(* What the store means. *)

InSlot(c) == \E p \in 1..Len(cell) : cell[p] = c

MeantCellsAre ==
    \A c : c \in CellsMeant <=> c # NoCell /\ (InSlot(c) \/ \E u \in 1..Len(cellOf) : cellOf[u] = c)

LEMMA MeantCells == IInv => MeantCellsAre
<1> SUFFICES ASSUME IInv PROVE MeantCellsAre OBVIOUS
<1>1. cell \in Seq(Cells \cup {NoCell}) /\ cellOf \in Seq(Cells) BY DEF IInv, CellsOK
<1>2. \A c : c \in ToSet(cell) <=> InSlot(c) BY <1>1, Elements DEF InSlot
<1>3. \A c : c \in ToSet(cellOf) <=> \E u \in 1..Len(cellOf) : cellOf[u] = c BY <1>1, Elements
<1> QED BY <1>2, <1>3 DEF MeantCellsAre, CellsMeant

LEMMA MeantCellsNext == IInv' => MeantCellsAre'
BY MeantCells, PTL

(* A function is the store if it has the contents of all slots, and of all upvalues *)
(* whose variable has left the stack.                                               *)
LEMMA StoreIs ==
    ASSUME IInv', status' # "failed", NEW g, g = [c \in CellsMeant' |-> g[c]],
           \A p \in 1..Len(cell') : cell'[p] # NoCell => g[cell'[p]] = stack'[p],
           \A u \in 1..Len(cellOf') : ~InSlot(cellOf[u])' => g[cellOf'[u]] = upvalues'[u].value
    PROVE  StoreMeant' = g
<1>1. CellsOK' /\ ValuesOK' /\ OwnersOK' BY DEF IInv
<1>2. MeantCellsAre' BY MeantCellsNext
<1>3. ASSUME NEW c \in CellsMeant' PROVE ContentOf(c)' = g[c]
  <2>1. cell' \in Seq(Cells \cup {NoCell}) /\ cellOf' \in Seq(Cells) BY <1>1 DEF CellsOK
  <2>2. CASE InSlot(c)'
    <3>1. \E p \in 1..Len(cell') : cell'[p] = c BY <2>2 DEF InSlot
    <3>2. c \in ToSet(cell)' BY <2>1, <3>1, Elements
    <3> DEFINE p == CHOOSE p \in DOMAIN cell' : cell'[p] = c
    <3>3. p \in 1..Len(cell') /\ cell'[p] = c BY <2>1, <3>1
    <3>4. ContentOf(c)' = stack'[p] BY <3>2 DEF ContentOf
    <3>5. c # NoCell BY <1>2 DEF MeantCellsAre
    <3> HIDE DEF p
    <3> QED BY <3>3, <3>4, <3>5
  <2>3. CASE ~InSlot(c)'
    <3>1. \E u \in 1..Len(cellOf') : cellOf'[u] = c BY <2>3, <1>2 DEF MeantCellsAre
    <3>2. c \notin ToSet(cell)' BY <2>1, <2>3, Elements DEF InSlot
    <3> DEFINE u == CHOOSE u \in DOMAIN cellOf' : cellOf'[u] = c
    <3>3. u \in 1..Len(cellOf') /\ cellOf'[u] = c BY <2>1, <3>1
    <3>4. ContentOf(c)' = upvalues'[u].value BY <3>2 DEF ContentOf
    <3> HIDE DEF u
    <3> QED BY <3>3, <3>4, <2>3
  <2> QED BY <2>2, <2>3
<1>4. StoreMeant' = [c \in CellsMeant' |-> ContentOf(c)'] BY DEF StoreMeant
<1> QED BY <1>3, <1>4

(* The content of a cell is in its slot, or in its upvalue. *)
LEMMA StoreAt ==
    ASSUME IInv, status # "failed"
    PROVE  /\ StoreMeant = [c \in CellsMeant |-> StoreMeant[c]] /\ DOMAIN StoreMeant = CellsMeant
           /\ \A p \in 1..Len(cell) :
                cell[p] # NoCell => cell[p] \in CellsMeant /\ StoreMeant[cell[p]] = stack[p]
           /\ \A u \in 1..Len(cellOf) :
                /\ cellOf[u] \in CellsMeant
                /\ ~InSlot(cellOf[u]) => StoreMeant[cellOf[u]] = upvalues[u].value
<1>1. CellsOK /\ ValuesOK /\ OwnersOK BY DEF IInv
<1>2. MeantCellsAre BY MeantCells
<1>3. StoreMeant = [c \in CellsMeant |-> ContentOf(c)] BY DEF StoreMeant
<1>4. cell \in Seq(Cells \cup {NoCell}) /\ cellOf \in Seq(Cells) /\ NoCell \notin Cells
      BY <1>1, DataAssumption DEF CellsOK
<1>5. ASSUME NEW p \in 1..Len(cell), cell[p] # NoCell
      PROVE  cell[p] \in CellsMeant /\ StoreMeant[cell[p]] = stack[p]
  <2> DEFINE c == cell[p]
             q == CHOOSE q \in DOMAIN cell : cell[q] = c
  <2>1. c \in CellsMeant BY <1>2, <1>5 DEF MeantCellsAre, InSlot
  <2>2. c \in ToSet(cell) BY <1>4, Elements
  <2>3. q \in 1..Len(cell) /\ cell[q] = cell[p] BY <1>4
  <2>4. q = p BY <2>3, <1>1, <1>5 DEF CellsOK
  <2>5. ContentOf(c) = stack[q] BY <2>2 DEF ContentOf
  <2> QED BY <2>1, <2>4, <2>5, <1>3
<1>6. ASSUME NEW u \in 1..Len(cellOf)
      PROVE  /\ cellOf[u] \in CellsMeant
             /\ ~InSlot(cellOf[u]) => StoreMeant[cellOf[u]] = upvalues[u].value
  <2> DEFINE c == cellOf[u]
             v == CHOOSE v \in DOMAIN cellOf : cellOf[v] = c
  <2>1. c # NoCell BY <1>4
  <2>2. c \in CellsMeant BY <2>1, <1>2 DEF MeantCellsAre
  <2>3. v \in 1..Len(cellOf) /\ cellOf[v] = cellOf[u] BY <1>4
  <2>4. v = u BY <2>3, <1>1 DEF OwnersOK
  <2>5. ASSUME ~InSlot(c) PROVE ContentOf(c) = upvalues[v].value
    <3>1. c \notin ToSet(cell) BY <2>5, <1>4, Elements DEF InSlot
    <3> QED BY <3>1 DEF ContentOf
  <2> QED BY <2>2, <2>4, <2>5, <1>3
<1> QED BY <1>3, <1>5, <1>6

(* What the closures mean. *)

LEMMA MeantClosures ==
    ASSUME IInv
    PROVE  /\ DOMAIN ClosuresMeant = 1..Len(closures) /\ Len(ClosuresMeant) = Len(closures)
           /\ Len(closures) \in Nat
           /\ \A c \in 1..Len(closures) :
                /\ closures[c].upvalues \in Seq(DOMAIN upvalues)
                /\ ClosuresMeant[c].arity = closures[c].arity
                /\ ClosuresMeant[c].cells \in Seq(Cells)
                /\ Len(ClosuresMeant[c].cells) = Len(closures[c].upvalues)
                /\ \A n \in 1..Len(closures[c].upvalues) :
                     /\ closures[c].upvalues[n] \in 1..Len(cellOf)
                     /\ ClosuresMeant[c].cells[n] = cellOf[closures[c].upvalues[n]]
<1>0. ValuesOK /\ CellsOK BY InvParts
<1>1. /\ Len(closures) \in Nat /\ DOMAIN closures = 1..Len(closures)
      /\ \A c \in 1..Len(closures) : closures[c].upvalues \in Seq(DOMAIN upvalues)
      BY <1>0, ClosureTypes
<1>2. /\ cellOf \in Seq(Cells) /\ DOMAIN upvalues = 1..Len(cellOf)
      BY <1>0 DEF CellsOK, ValuesOK
<1>3. ClosuresMeant = [c \in 1..Len(closures) |-> ClosureMeant(c)] BY <1>1 DEF ClosuresMeant
<1>4. Len(ClosuresMeant) = Len(closures) /\ DOMAIN ClosuresMeant = 1..Len(closures)
  <2>1. ClosuresMeant \in Seq({ClosureMeant(c) : c \in 1..Len(closures)}) BY <1>1, <1>3
  <2> QED BY <2>1, <1>1, <1>3
<1>5. ASSUME NEW c \in 1..Len(closures)
      PROVE  /\ ClosuresMeant[c].arity = closures[c].arity
             /\ ClosuresMeant[c].cells \in Seq(Cells)
             /\ Len(ClosuresMeant[c].cells) = Len(closures[c].upvalues)
             /\ \A n \in 1..Len(closures[c].upvalues) :
                  /\ closures[c].upvalues[n] \in 1..Len(cellOf)
                  /\ ClosuresMeant[c].cells[n] = cellOf[closures[c].upvalues[n]]
  <2> DEFINE ups == closures[c].upvalues
             g == [n \in DOMAIN ups |-> cellOf[ups[n]]]
  <2>1. ClosuresMeant[c].arity = closures[c].arity /\ ClosuresMeant[c].cells = g
        BY <1>3 DEF ClosureMeant
  <2>2. ups \in Seq(DOMAIN upvalues) BY <1>1
  <2>3. g = [n \in DOMAIN ups |-> cellOf[ups[n]]] OBVIOUS
  <2> HIDE DEF ups, g
  <2>4. /\ DOMAIN ups = 1..Len(ups) /\ Len(ups) \in Nat
        /\ \A n \in 1..Len(ups) : ups[n] \in 1..Len(cellOf)
        BY <2>2, <1>2
  <2>5. g \in [1..Len(ups) -> Cells] BY <2>3, <2>4, <1>2
  <2>6. g \in Seq(Cells) /\ Len(g) = Len(ups) BY <2>4, <2>5
  <2>7. \A n \in 1..Len(ups) : g[n] = cellOf[ups[n]] BY <2>3, <2>4
  <2> QED BY <2>1, <2>4, <2>6, <2>7 DEF ups
<1> QED BY <1>1, <1>4, <1>5

(* Every upvalue was made for a closure, which keeps it. *)
Owned ==
    \A u \in 1..Len(upvalues) : \E c \in 1..Len(closures) :
        \E n \in 1..Len(closures[c].upvalues) : closures[c].upvalues[n] = u

CInv == IInv /\ Owned

(* The cells the abstract machine can reach are the ones with an identity here. *)
LEMMA CellsInUse == CInv => Lexical!InUse(FramesMeant, ClosuresMeant) = CellsMeant
<1> SUFFICES ASSUME CInv PROVE Lexical!InUse(FramesMeant, ClosuresMeant) = CellsMeant OBVIOUS
<1>0. IInv /\ Owned /\ FramesOK /\ ValuesOK /\ CellsOK BY InvParts DEF CInv
<1>1. MeantCellsAre BY <1>0, MeantCells
<1>2. /\ cell \in Seq(Cells \cup {NoCell}) /\ cellOf \in Seq(Cells) /\ NoCell \notin Cells
      /\ Len(cellOf) = Len(upvalues) /\ Len(cell) \in Nat
      BY <1>0, DataAssumption DEF CellsOK
<1>3. /\ DOMAIN FramesMeant = 1..Len(frames)
      /\ \A f \in 1..Len(frames) : FramesMeant[f] = FrameMeant(f)
      BY <1>0, MeantFrames
<1>4. ASSUME NEW f \in 1..Len(frames), NEW c \in Lexical!ToSet(FramesMeant[f].locals)
      PROVE  c \in CellsMeant
  <2> DEFINE ls == FrameMeant(f).locals
             k == frames[f].locals - 1
  <2>1. c \in Lexical!ToSet(ls) BY <1>3
  <2>2. ls \in Seq(Cells \cup {NoCell}) /\ Len(ls) = k
        /\ \A n \in 1..k : ls[n] = cell[frames[f].slots + n]
        BY <1>0, FrameCells
  <2> HIDE DEF ls
  <2>3. PICK n \in 1..k : ls[n] = c BY <2>1, <2>2 DEF Lexical!ToSet
  <2>4. /\ frames[f].slots \in Nat \ {0} /\ frames[f].locals \in Nat \ {0}
        BY <1>0, FrameFacts
  <2>5. VariableSlot(frames[f].slots + n)
    <3>1. /\ frames[f].slots < frames[f].slots + n
          /\ frames[f].slots + n < frames[f].slots + frames[f].locals
          BY <2>4
    <3> QED BY <3>1 DEF VariableSlot
  <2>6. frames[f].slots + n \in 1..Len(cell)
    <3>1. frames[f].slots + n \in Nat BY <2>4
    <3>2. frames[f].slots + n <= Len(stack) /\ frames[f].slots + n >= 2
          BY <3>1, <2>5, <1>0, Variables
    <3> QED BY <3>1, <3>2, <1>0, CellTypes
  <2>7. cell[frames[f].slots + n] # NoCell BY <2>5, <2>6, <1>0 DEF CellsOK
  <2>8. cell[frames[f].slots + n] = c BY <2>2, <2>3
  <2> QED BY <2>6, <2>7, <2>8, <1>1 DEF MeantCellsAre, InSlot
<1>5. ASSUME NEW k \in 1..Len(closures), NEW c \in Lexical!ToSet(ClosuresMeant[k].cells)
      PROVE  c \in CellsMeant
  <2> DEFINE cs == ClosuresMeant[k].cells
             ups == closures[k].upvalues
  <2>1. /\ cs \in Seq(Cells) /\ Len(cs) = Len(ups)
        /\ \A n \in 1..Len(ups) : ups[n] \in 1..Len(cellOf) /\ cs[n] = cellOf[ups[n]]
        BY <1>0, MeantClosures
  <2>2. c \in Lexical!ToSet(cs) OBVIOUS
  <2> HIDE DEF cs, ups
  <2>3. PICK n \in 1..Len(ups) : cs[n] = c BY <2>1, <2>2 DEF Lexical!ToSet
  <2>4. ups[n] \in 1..Len(cellOf) /\ cellOf[ups[n]] = c /\ c \in Cells BY <2>1, <2>3, <1>2
  <2>5. c # NoCell BY <2>4, <1>2
  <2> QED BY <2>4, <2>5, <1>1 DEF MeantCellsAre
<1>6. ASSUME NEW c \in CellsMeant PROVE c \in Lexical!InUse(FramesMeant, ClosuresMeant)
  <2>1. CASE InSlot(c)
    <3>1. PICK p \in 1..Len(cell) : cell[p] = c BY <2>1 DEF InSlot
    <3>2. c # NoCell BY <1>1 DEF MeantCellsAre
    <3>3. VariableSlot(p) BY <3>1, <3>2, <1>0 DEF CellsOK
    <3>4. PICK f \in 1..Len(frames) : frames[f].slots < p /\ p < frames[f].slots + frames[f].locals
          BY <3>3 DEF VariableSlot
    <3>5. PICK n \in Nat : n = p - frames[f].slots /\ n \in 1..(frames[f].locals - 1)
                           /\ frames[f].slots + n = p
      <4>1. frames[f].slots \in Nat \ {0} /\ frames[f].locals \in Nat \ {0} BY <1>0, FrameFacts
      <4> QED BY <4>1, <3>4
    <3> DEFINE ls == FrameMeant(f).locals
    <3>6. ls \in Seq(Cells \cup {NoCell}) /\ Len(ls) = frames[f].locals - 1 /\ ls[n] = c
          BY <1>0, <3>1, <3>5, FrameCells
    <3>7. FramesMeant[f].locals = ls BY <1>3
    <3> HIDE DEF ls
    <3>8. c \in Lexical!ToSet(ls) BY <3>5, <3>6 DEF Lexical!ToSet
    <3> QED BY <3>7, <3>8, <1>3 DEF Lexical!InUse
  <2>2. CASE ~InSlot(c)
    <3>1. PICK u \in 1..Len(upvalues) : cellOf[u] = c BY <2>2, <1>1, <1>2 DEF MeantCellsAre
    <3>a. PICK k \in 1..Len(closures) :
            \E n \in 1..Len(closures[k].upvalues) : closures[k].upvalues[n] = u
          BY <1>0 DEF Owned
    <3>2. PICK n \in 1..Len(closures[k].upvalues) : closures[k].upvalues[n] = u BY <3>a
    <3> DEFINE cs == ClosuresMeant[k].cells
    <3>3. cs \in Seq(Cells) /\ n \in 1..Len(cs) /\ cs[n] = c
          BY <3>1, <3>2, <1>0, MeantClosures
    <3>4. k \in DOMAIN ClosuresMeant BY <1>0, MeantClosures
    <3>5. ClosuresMeant[k].cells = cs OBVIOUS
    <3> HIDE DEF cs
    <3>6. c \in Lexical!ToSet(cs) BY <3>3 DEF Lexical!ToSet
    <3> QED BY <3>4, <3>5, <3>6 DEF Lexical!InUse
  <2> QED BY <2>1, <2>2
<1>7. DOMAIN ClosuresMeant = 1..Len(closures) BY <1>0, MeantClosures
<1>8. ASSUME NEW c \in Lexical!InUse(FramesMeant, ClosuresMeant) PROVE c \in CellsMeant
  <2>1. \/ \E f \in DOMAIN FramesMeant : c \in Lexical!ToSet(FramesMeant[f].locals)
        \/ \E k \in DOMAIN ClosuresMeant : c \in Lexical!ToSet(ClosuresMeant[k].cells)
        BY DEF Lexical!InUse
  <2> QED BY <2>1, <1>3, <1>4, <1>5, <1>7
<1> QED BY <1>6, <1>8

LEMMA CellsInUseNext == CInv' => Lexical!InUse(FramesMeant', ClosuresMeant') = CellsMeant'
<1>1. (CInv => Lexical!InUse(FramesMeant, ClosuresMeant) = CellsMeant)' BY CellsInUse, PTL
<1> QED BY <1>1

(* The running frame. *)

TopIs ==
    /\ Lexical!Depth = Len(frames) /\ Len(frames) \in Nat /\ Len(frames) >= 1
    /\ Lexical!Top = FramesMeant[Len(frames)]
    /\ Lexical!Top = FrameMeant(Len(frames))
    /\ Lexical!Top = [closure |-> Top.closure, locals |-> Lexical!Top.locals,
                      temps |-> Lexical!Temps]
    /\ Lexical!Top.closure = Top.closure
    /\ Lexical!Top.locals \in Seq(Cells \cup {NoCell})
    /\ Len(Lexical!Top.locals) = Top.locals - 1
    /\ \A n \in 1..(Top.locals - 1) : Lexical!Top.locals[n] = cell[Top.slots + n]
    /\ Lexical!Temps \in Seq(Existing \cup {Script}) /\ Len(Lexical!Temps) = Temps
    /\ \A n \in 1..Temps : Lexical!Temps[n] = stack[VariablesEnd + n - 1]
    /\ Temps >= 1 => Lexical!Temps # <<>> /\ Lexical!Peek = Peek(0)
    /\ VariablesEnd = Top.slots + Top.locals /\ Temps = Len(stack) + 1 - VariablesEnd
    /\ Temps \in Nat /\ VariablesEnd \in Nat /\ Len(stack) \in Nat
    /\ Top.locals \in Nat \ {0} /\ Top.slots \in Nat \ {0}

LEMMA TopMeans == IInv /\ frames # <<>> => TopIs
<1> SUFFICES ASSUME IInv, frames # <<>> PROVE TopIs OBVIOUS
<1>0. FramesOK /\ ValuesOK BY InvParts
<1> DEFINE d == Len(frames)
<1>1. d \in Nat /\ d \in 1..d /\ d >= 1 /\ Top = frames[d] BY <1>0, FrameTypes DEF Top, Depth
<1>2. /\ Lexical!Depth = d /\ Lexical!Top = FrameMeant(d) /\ Lexical!Temps = FrameMeant(d).temps
      /\ FramesMeant[d] = FrameMeant(d)
      BY <1>1, MeantFrames
<1>3. FrameEnd(d) = Len(stack) BY DEF FrameEnd, Depth, StackTop
<1>4. VariablesEnd = Top.slots + Top.locals BY DEF VariablesEnd
<1>5. Temps = Len(stack) + 1 - VariablesEnd /\ Temps \in Nat /\ Len(stack) \in Nat
      BY <1>0, <1>4, TopFrame
<1> HIDE DEF d
<1>6. /\ FrameMeant(d).closure = Top.closure
      /\ FrameMeant(d).locals \in Seq(Cells \cup {NoCell})
      /\ Len(FrameMeant(d).locals) = Top.locals - 1
      /\ \A n \in 1..(Top.locals - 1) : FrameMeant(d).locals[n] = cell[Top.slots + n]
      /\ FrameMeant(d).temps \in Seq(Existing \cup {Script})
      /\ Len(FrameMeant(d).temps) = Temps
      /\ \A n \in 1..Temps : FrameMeant(d).temps[n] = stack[VariablesEnd + n - 1]
      BY <1>1, <1>3, <1>4, <1>5, FrameCells DEF d
<1>7. FrameMeant(d) = [closure |-> Top.closure, locals |-> FrameMeant(d).locals,
                       temps |-> FrameMeant(d).temps]
      BY <1>1 DEF FrameMeant
<1>8. Temps >= 1 => Lexical!Temps # <<>> /\ Lexical!Peek = Peek(0)
  <2> SUFFICES ASSUME Temps >= 1 PROVE Lexical!Temps # <<>> /\ Lexical!Peek = Peek(0) OBVIOUS
  <2> DEFINE ts == FrameMeant(d).temps
  <2>1. ts \in Seq(Existing \cup {Script}) /\ Len(ts) = Temps BY <1>6
  <2>2. Temps \in 1..Temps BY <1>5
  <2>3. ts[Temps] = stack[VariablesEnd + Temps - 1] BY <2>2, <1>6
  <2>4. VariablesEnd \in Nat BY <1>0, Variables
  <2>5. VariablesEnd + Temps - 1 = Len(stack) BY <2>4, <1>5
  <2>6. Peek(0) = stack[Len(stack)] BY <1>5 DEF Peek, StackTop
  <2> HIDE DEF ts
  <2>7. ts # <<>> BY <2>1, <1>5
  <2>8. Lexical!Last(ts) = ts[Temps] BY <2>1 DEF Lexical!Last
  <2>9. Lexical!Peek = Lexical!Last(ts) BY <1>2 DEF Lexical!Peek, ts
  <2> QED BY <2>3, <2>5, <2>6, <2>7, <2>8, <2>9, <1>2 DEF ts
<1>9. VariablesEnd \in Nat /\ Top.slots \in Nat \ {0} /\ Top.locals \in Nat \ {0}
      BY <1>0, Variables, TopFrame
<1> QED BY <1>1, <1>2, <1>4, <1>5, <1>6, <1>7, <1>8, <1>9 DEF d, TopIs

LEMMA TopMeansNext == (IInv /\ frames # <<>> => TopIs)'
BY TopMeans, PTL

(* What it is after an instruction that changes no other frame. *)
LEMMA TopBecomes ==
    ASSUME IInv, IInv', frames # <<>>, Len(frames') = Len(frames), Top'.slots = Top.slots,
           Top'.closure = Top.closure,
           \A f \in 1..Len(frames) : f < Len(frames) => frames'[f] = frames[f],
           \A p \in 1..(Top.slots - 1) : cell'[p] = cell[p],
           \A p \in 1..(Top.slots - 1) : VariableSlot(p) \/ stack'[p] = stack[p],
           NEW S, NEW T, NEW ls \in Seq(S), NEW ts \in Seq(T),
           Len(ls) = Top'.locals - 1,
           \A n \in 1..(Top'.locals - 1) : ls[n] = cell'[Top.slots + n],
           Len(ts) = Len(stack') + 1 - (Top.slots + Top'.locals),
           \A n \in 1..Len(ts) : ts[n] = stack'[Top.slots + Top'.locals + n - 1]
    PROVE  Lexical!SetTop([closure |-> Top.closure, locals |-> ls, temps |-> ts])
<1>0. Len(frames) \in Nat /\ Len(frames) >= 1 BY InvParts, FrameTypes
<1>1. frames' # <<>> BY <1>0
<1>2. TopIs' BY <1>1, TopMeansNext
<1>3. TopIs BY TopMeans
<1> DEFINE d == Len(frames)
           a == Top.slots
           k == Top'.locals
           lt == (Lexical!Top.locals)'
           tt == (Lexical!Temps)'
<1>4. /\ Top' = frames'[d] /\ Top'.slots = a BY DEF Top, Depth
<1>5. /\ lt \in Seq(Cells \cup {NoCell}) /\ Len(lt) = k - 1
      /\ \A n \in 1..(k - 1) : lt[n] = cell'[a + n]
      /\ tt \in Seq(Existing' \cup {Script})
      /\ Len(tt) = Len(stack') + 1 - (a + k)
      /\ \A n \in 1..(Len(stack') + 1 - (a + k)) : tt[n] = stack'[a + k + n - 1]
      /\ Lexical!Top' = [closure |-> Top'.closure, locals |-> lt, temps |-> tt]
      /\ Lexical!Top' = FrameMeant(d)'
      BY <1>2 DEF TopIs
<1>6. /\ ls \in Seq(S) /\ Len(ls) = k - 1 /\ \A n \in 1..(k - 1) : ls[n] = cell'[a + n]
      /\ ts \in Seq(T) /\ Len(ts) = Len(stack') + 1 - (a + k)
      /\ \A n \in 1..(Len(stack') + 1 - (a + k)) : ts[n] = stack'[a + k + n - 1]
      OBVIOUS
<1> HIDE DEF a, k, lt, tt
<1>7. lt = ls
  <2>1. Len(lt) = Len(ls) /\ \A i \in 1..Len(lt) : lt[i] = ls[i] BY <1>5, <1>6
  <2> QED BY <2>1, <1>5, <1>6, SameSequence
<1>8. tt = ts
  <2>1. Len(tt) = Len(ts) /\ \A i \in 1..Len(tt) : tt[i] = ts[i] BY <1>5, <1>6
  <2> QED BY <2>1, <1>5, <1>6, SameSequence
<1>9. FrameMeant(d)' = [closure |-> Top.closure, locals |-> ls, temps |-> ts] BY <1>5, <1>7, <1>8
<1>10. FramesMeant' = [FramesMeant EXCEPT ![d] = FrameMeant(d)'] BY TopStep
<1>11. Lexical!Depth = d BY <1>3 DEF TopIs
<1> QED BY <1>9, <1>10, <1>11 DEF Lexical!SetTop

-----------------------------------------------------------------------------
(* What a step does to the store. *)

(* Slots are lost, and what leaves the stack moves to its upvalue. *)
LEMMA StoreLess ==
    ASSUME IInv, IInv', status # "failed", status' # "failed",
           \A p \in 1..Len(cell') : cell'[p] # NoCell =>
               p \in 1..Len(cell) /\ cell'[p] = cell[p] /\ stack'[p] = stack[p],
           \A u \in 1..Len(cellOf') : ~InSlot(cellOf[u])' =>
               /\ u \in 1..Len(cellOf) /\ cellOf'[u] = cellOf[u]
               /\ upvalues'[u].value = StoreMeant[cellOf[u]]
    PROVE  /\ CellsMeant' \subseteq CellsMeant
           /\ StoreMeant' = [c \in CellsMeant' |-> StoreMeant[c]]
<1>1. MeantCellsAre /\ MeantCellsAre' BY MeantCells, MeantCellsNext
<1>2. ASSUME NEW c \in CellsMeant' PROVE c \in CellsMeant
  <2>0. c # NoCell BY <1>1 DEF MeantCellsAre
  <2>1. CASE InSlot(c)'
    <3>1. PICK p \in 1..Len(cell') : cell'[p] = c BY <2>1 DEF InSlot
    <3>2. p \in 1..Len(cell) /\ cell[p] = c BY <3>1, <2>0
    <3> QED BY <3>2, <2>0, <1>1 DEF MeantCellsAre, InSlot
  <2>2. CASE ~InSlot(c)'
    <3>1. PICK u \in 1..Len(cellOf') : cellOf'[u] = c BY <2>2, <1>1 DEF MeantCellsAre
    <3>2. ~InSlot(cellOf[u])' BY <3>1, <2>2 DEF InSlot
    <3>3. u \in 1..Len(cellOf) /\ cellOf[u] = c BY <3>1, <3>2
    <3> QED BY <3>3, <2>0, <1>1 DEF MeantCellsAre
  <2> QED BY <2>1, <2>2
<1> DEFINE g == [c \in CellsMeant' |-> StoreMeant[c]]
<1>3. g = [c \in CellsMeant' |-> g[c]] OBVIOUS
<1>4. ASSUME NEW p \in 1..Len(cell'), cell'[p] # NoCell PROVE g[cell'[p]] = stack'[p]
  <2>1. p \in 1..Len(cell) /\ cell'[p] = cell[p] /\ stack'[p] = stack[p] BY <1>4
  <2>2. StoreMeant[cell[p]] = stack[p] BY <1>4, <2>1, StoreAt
  <2>3. cell'[p] \in CellsMeant' BY <1>1, <1>4 DEF MeantCellsAre, InSlot
  <2> QED BY <2>1, <2>2, <2>3
<1>5. ASSUME NEW u \in 1..Len(cellOf'), ~InSlot(cellOf[u])'
      PROVE  g[cellOf'[u]] = upvalues'[u].value
  <2>1. /\ u \in 1..Len(cellOf) /\ cellOf'[u] = cellOf[u]
        /\ upvalues'[u].value = StoreMeant[cellOf[u]]
        BY <1>5
  <2>2. CellsOK /\ ValuesOK BY InvParts
  <2>3. cellOf[u] # NoCell BY <2>1, <2>2, CellTypes
  <2>4. cellOf'[u] \in CellsMeant' BY <1>1, <1>5, <2>1, <2>3 DEF MeantCellsAre
  <2> QED BY <2>1, <2>4
<1> HIDE DEF g
<1>6. StoreMeant' = g BY <1>3, <1>4, <1>5, StoreIs
<1> QED BY <1>2, <1>6 DEF g

(* No slot of a variable is lost. *)
LEMMA StoreSame ==
    ASSUME IInv, IInv', status # "failed", status' # "failed",
           \A p \in 1..Len(cell') : cell'[p] # NoCell =>
               p \in 1..Len(cell) /\ cell'[p] = cell[p] /\ stack'[p] = stack[p],
           \A p \in 1..Len(cell) : cell[p] # NoCell => p \in 1..Len(cell') /\ cell'[p] = cell[p],
           \A u \in 1..Len(cellOf') : ~InSlot(cellOf[u])' =>
               u \in 1..Len(cellOf) /\ cellOf'[u] = cellOf[u] /\ upvalues'[u].value = upvalues[u].value,
           \A u \in 1..Len(cellOf) : u \in 1..Len(cellOf') /\ cellOf'[u] = cellOf[u]
    PROVE  CellsMeant' = CellsMeant /\ StoreMeant' = StoreMeant
<1>1. MeantCellsAre /\ MeantCellsAre' BY MeantCells, MeantCellsNext
<1>2. ASSUME NEW u \in 1..Len(cellOf'), ~InSlot(cellOf[u])'
      PROVE  /\ u \in 1..Len(cellOf) /\ cellOf'[u] = cellOf[u]
             /\ upvalues'[u].value = StoreMeant[cellOf[u]]
  <2>1. u \in 1..Len(cellOf) /\ cellOf'[u] = cellOf[u] /\ upvalues'[u].value = upvalues[u].value
        BY <1>2
  <2>2. ASSUME InSlot(cellOf[u]) PROVE FALSE
    <3>1. PICK p \in 1..Len(cell) : cell[p] = cellOf[u] BY <2>2 DEF InSlot
    <3>2. CellsOK /\ ValuesOK BY InvParts
    <3>3. cellOf[u] # NoCell BY <2>1, <3>2, CellTypes
    <3>4. p \in 1..Len(cell') /\ cell'[p] = cellOf'[u] BY <2>1, <3>1, <3>3
    <3> QED BY <3>4, <1>2 DEF InSlot
  <2>3. StoreMeant[cellOf[u]] = upvalues[u].value BY <2>1, <2>2, StoreAt
  <2> QED BY <2>1, <2>3
<1>3. /\ CellsMeant' \subseteq CellsMeant
      /\ StoreMeant' = [c \in CellsMeant' |-> StoreMeant[c]]
      BY <1>2, StoreLess
<1>4. ASSUME NEW c \in CellsMeant PROVE c \in CellsMeant'
  <2>0. c # NoCell BY <1>1 DEF MeantCellsAre
  <2>1. CASE InSlot(c)
    <3>1. PICK p \in 1..Len(cell) : cell[p] = c BY <2>1 DEF InSlot
    <3>2. p \in 1..Len(cell') /\ cell'[p] = c BY <3>1, <2>0
    <3> QED BY <3>2, <2>0, <1>1 DEF MeantCellsAre, InSlot
  <2>2. CASE \E u \in 1..Len(cellOf) : cellOf[u] = c
    <3>1. PICK u \in 1..Len(cellOf) : cellOf[u] = c BY <2>2
    <3>2. u \in 1..Len(cellOf') /\ cellOf'[u] = c BY <3>1
    <3> QED BY <3>2, <2>0, <1>1 DEF MeantCellsAre
  <2> QED BY <2>1, <2>2, <1>1 DEF MeantCellsAre
<1>5. CellsMeant' = CellsMeant BY <1>3, <1>4
<1>6. StoreMeant = [c \in CellsMeant |-> StoreMeant[c]] BY StoreAt
<1> QED BY <1>3, <1>5, <1>6

(* The abstract machine keeps the cells that are still in use. *)
LEMMA StoreKept ==
    ASSUME CInv, CInv', status # "failed", CellsMeant' \subseteq CellsMeant,
           StoreMeant' = [c \in CellsMeant' |-> StoreMeant[c]]
    PROVE  StoreMeant' = Lexical!Keep(StoreMeant)
<1>1. Lexical!InUse(FramesMeant', ClosuresMeant') = CellsMeant' BY CellsInUseNext
<1>2. DOMAIN StoreMeant = CellsMeant BY StoreAt DEF CInv
<1>3. DOMAIN StoreMeant \cap CellsMeant' = CellsMeant' BY <1>2
<1> QED BY <1>1, <1>3 DEF Lexical!Keep

(* A slot is written, which may be the slot of a new variable. *)
LEMMA StoreWith ==
    ASSUME IInv, IInv', status # "failed", status' # "failed",
           NEW q \in 1..Len(cell'), cell'[q] # NoCell,
           \A p \in 1..Len(cell') : p # q /\ cell'[p] # NoCell =>
               p \in 1..Len(cell) /\ cell'[p] = cell[p] /\ stack'[p] = stack[p],
           \A p \in 1..Len(cell) : cell[p] # NoCell => p \in 1..Len(cell') /\ cell'[p] = cell[p],
           cellOf' = cellOf,
           \A u \in 1..Len(cellOf) : upvalues'[u].value = upvalues[u].value
    PROVE  StoreMeant' = Lexical!With(StoreMeant, cell'[q], stack'[q])
<1>1. MeantCellsAre /\ MeantCellsAre' BY MeantCells, MeantCellsNext
<1>0. CellsOK /\ ValuesOK /\ CellsOK' BY InvParts DEF IInv
<1> DEFINE c0 == cell'[q]
<1>2. ASSUME NEW c PROVE c \in CellsMeant' <=> c \in CellsMeant \cup {c0}
  <2>1. ASSUME c \in CellsMeant' PROVE c \in CellsMeant \cup {c0}
    <3>1. c # NoCell BY <2>1, <1>1 DEF MeantCellsAre
    <3>2. CASE InSlot(c)'
      <4>1. PICK p \in 1..Len(cell') : cell'[p] = c BY <3>2 DEF InSlot
      <4>2. CASE p = q BY <4>1, <4>2
      <4>3. CASE p # q
        <5>1. p \in 1..Len(cell) /\ cell[p] = c BY <4>1, <4>3, <3>1
        <5> QED BY <5>1, <3>1, <1>1 DEF MeantCellsAre, InSlot
      <4> QED BY <4>2, <4>3
    <3>3. CASE \E u \in 1..Len(cellOf') : cellOf'[u] = c
          BY <3>1, <3>3, <1>1 DEF MeantCellsAre
    <3> QED BY <2>1, <3>2, <3>3, <1>1 DEF MeantCellsAre
  <2>2. ASSUME c \in CellsMeant PROVE c \in CellsMeant'
    <3>1. c # NoCell BY <2>2, <1>1 DEF MeantCellsAre
    <3>2. CASE InSlot(c)
      <4>1. PICK p \in 1..Len(cell) : cell[p] = c BY <3>2 DEF InSlot
      <4>2. p \in 1..Len(cell') /\ cell'[p] = c BY <4>1, <3>1
      <4> QED BY <4>2, <3>1, <1>1 DEF MeantCellsAre, InSlot
    <3>3. CASE \E u \in 1..Len(cellOf) : cellOf[u] = c
          BY <3>1, <3>3, <1>1 DEF MeantCellsAre
    <3> QED BY <2>2, <3>2, <3>3, <1>1 DEF MeantCellsAre
  <2>3. c0 \in CellsMeant' BY <1>1 DEF MeantCellsAre, InSlot
  <2> QED BY <2>1, <2>2, <2>3
<1>3. DOMAIN StoreMeant = CellsMeant BY StoreAt
<1>4. CellsMeant' = DOMAIN StoreMeant \cup {c0} BY <1>2, <1>3
<1> DEFINE g == [c \in CellsMeant' |-> IF c = c0 THEN stack'[q] ELSE StoreMeant[c]]
<1>5. g = [c \in CellsMeant' |-> g[c]] OBVIOUS
<1>6. ASSUME NEW p \in 1..Len(cell'), cell'[p] # NoCell PROVE g[cell'[p]] = stack'[p]
  <2>1. cell'[p] \in CellsMeant' BY <1>1, <1>6 DEF MeantCellsAre, InSlot
  <2>2. CASE p = q BY <2>1, <2>2
  <2>3. CASE p # q
    <3>1. p \in 1..Len(cell) /\ cell'[p] = cell[p] /\ stack'[p] = stack[p] BY <1>6, <2>3
    <3>2. cell'[p] # c0 BY <1>0, <1>6, <2>3 DEF CellsOK
    <3>3. StoreMeant[cell[p]] = stack[p] BY <3>1, <1>6, StoreAt
    <3> QED BY <2>1, <3>1, <3>2, <3>3
  <2> QED BY <2>2, <2>3
<1>7. ASSUME NEW u \in 1..Len(cellOf'), ~InSlot(cellOf[u])'
      PROVE  g[cellOf'[u]] = upvalues'[u].value
  <2>1. u \in 1..Len(cellOf) /\ cellOf'[u] = cellOf[u] OBVIOUS
  <2>2. cellOf[u] # NoCell BY <2>1, <1>0, CellTypes
  <2>3. cellOf[u] # c0 BY <1>7, <2>1 DEF InSlot
  <2>4. cellOf[u] \in CellsMeant' BY <1>1, <2>1, <2>2 DEF MeantCellsAre
  <2>5. ASSUME InSlot(cellOf[u]) PROVE FALSE
    <3>1. PICK p \in 1..Len(cell) : cell[p] = cellOf[u] BY <2>5 DEF InSlot
    <3>2. p \in 1..Len(cell') /\ cell'[p] = cellOf'[u] BY <3>1, <2>2, <2>1
    <3> QED BY <3>2, <1>7 DEF InSlot
  <2>6. StoreMeant[cellOf[u]] = upvalues[u].value BY <2>1, <2>5, StoreAt
  <2> QED BY <2>1, <2>3, <2>4, <2>6
<1> HIDE DEF g
<1>8. StoreMeant' = g BY <1>5, <1>6, <1>7, StoreIs
<1> QED BY <1>4, <1>8 DEF g, Lexical!With

-----------------------------------------------------------------------------
(* What a step does to the closures and to the frames. *)

LEMMA ClosuresSame ==
    ASSUME IInv, closures' = closures,
           \A u \in 1..Len(cellOf) : cellOf'[u] = cellOf[u]
    PROVE  ClosuresMeant' = ClosuresMeant
<1>1. ASSUME NEW c \in 1..Len(closures) PROVE ClosureMeant(c)' = ClosureMeant(c)
  <2>1. /\ closures[c].upvalues \in Seq(DOMAIN upvalues)
        /\ \A n \in 1..Len(closures[c].upvalues) : closures[c].upvalues[n] \in 1..Len(cellOf)
        BY MeantClosures
  <2>2. DOMAIN closures[c].upvalues = 1..Len(closures[c].upvalues) BY <2>1
  <2>3. \A n \in DOMAIN closures[c].upvalues :
            cellOf'[closures[c].upvalues[n]] = cellOf[closures[c].upvalues[n]]
        BY <2>1, <2>2
  <2> QED BY <2>3 DEF ClosureMeant
<1>2. DOMAIN closures = 1..Len(closures) BY InvParts, ClosureTypes
<1> QED BY <1>1, <1>2 DEF ClosuresMeant

LEMMA OwnedSame ==
    ASSUME Owned, closures' = closures, Len(upvalues') = Len(upvalues)
    PROVE  Owned'
BY DEF Owned

(* Only the contents of variables change. *)
LEMMA FramesSame ==
    ASSUME IInv, IInv', frames # <<>>, frames' = frames, cell' = cell,
           \A p \in 1..Len(stack) : VariableSlot(p) \/ stack'[p] = stack[p]
    PROVE  FramesMeant' = FramesMeant
<1>0. FramesOK /\ ValuesOK /\ CellsOK /\ ValuesOK' /\ CellsOK' BY DEF IInv
<1>1. Len(stack') = Len(stack) /\ Len(stack) \in Nat BY <1>0 DEF CellsOK, ValuesOK
<1>2. Len(frames) \in Nat BY <1>0, FrameTypes
<1>3. ASSUME NEW f \in 1..Len(frames) PROVE FrameMeant(f)' = FrameMeant(f)
  <2>1. /\ frames[f].slots \in Nat \ {0} /\ frames[f].locals \in Nat \ {0}
        /\ FrameEnd(f) \in Nat /\ FrameEnd(f) <= Len(stack)
        /\ frames[f].slots + frames[f].locals <= FrameEnd(f) + 1
        /\ \A p \in (frames[f].slots + frames[f].locals)..FrameEnd(f) : ~VariableSlot(p)
        BY FrameFacts
  <2>2. FrameEnd(f)' = FrameEnd(f) BY <1>1 DEF FrameEnd, Depth, StackTop
  <2>3. \A p \in (frames[f].slots + frames[f].locals)..FrameEnd(f) : stack'[p] = stack[p]
    <3> TAKE p \in (frames[f].slots + frames[f].locals)..FrameEnd(f)
    <3>1. p \in 1..Len(stack) BY <2>1, <1>1
    <3> QED BY <3>1, <2>1
  <2>4. FrameEnd(f) <= Len(stack') BY <2>1, <1>1
  <2> QED BY <2>2, <2>3, <2>4, SameFrame
<1> QED BY <1>3 DEF FramesMeant, Depth

(* An instruction on the temporaries of the running frame. *)
LEMMA TempsMoved ==
    ASSUME IInv, IInv', status = "running", frames # <<>>,
           UNCHANGED <<status, frames, upvalues, cellOf>>,
           \A p \in 1..(VariablesEnd - 1) : cell'[p] = cell[p] /\ stack'[p] = stack[p],
           NEW T, NEW ts \in Seq(T), Len(ts) = Len(stack') + 1 - VariablesEnd,
           \A n \in 1..Len(ts) : ts[n] = stack'[VariablesEnd + n - 1]
    PROVE  Lexical!SetTemps(ts) /\ StoreMeant' = StoreMeant
<1>0. IInv OBVIOUS
<1>1. FramesOK /\ ValuesOK /\ CellsOK BY <1>0, InvParts
<1>2. FramesOK' /\ ValuesOK' /\ CellsOK' BY DEF IInv
<1>3. /\ Top' = Top /\ Len(frames') = Len(frames) /\ frames' = frames
      /\ upvalues' = upvalues /\ cellOf' = cellOf /\ status' = "running"
      BY DEF Top, Depth
<1>4. TopIs BY <1>0, TopMeans
<1>5. /\ VariablesEnd = Top.slots + Top.locals /\ Top.slots \in Nat \ {0}
      /\ Top.locals \in Nat \ {0} /\ VariablesEnd \in Nat
      /\ Len(stack) \in Nat /\ VariablesEnd - 1 <= Len(stack)
      BY <1>4, <1>1, Variables DEF TopIs
<1>6. /\ Len(cell) = Len(stack) /\ Len(cell') = Len(stack') /\ Len(stack') \in Nat
      /\ VariablesEnd - 1 <= Len(stack')
      BY <1>1, <1>2, <1>3, <1>5 DEF CellsOK, ValuesOK, FramesOK
<1>7. \A p \in Nat : VariableSlot(p) => p \in 1..(VariablesEnd - 1)
      BY <1>1, <1>5, Variables
<1>8. ASSUME NEW p \in 1..Len(cell), cell[p] # NoCell
      PROVE  p \in 1..Len(cell') /\ cell'[p] = cell[p]
  <2>1. VariableSlot(p) BY <1>8, <1>1 DEF CellsOK
  <2>2. p \in Nat BY <1>5, <1>6
  <2>3. p \in 1..(VariablesEnd - 1) BY <2>1, <2>2, <1>7
  <2> QED BY <2>3, <1>5, <1>6
<1>9. ASSUME NEW p \in 1..Len(cell'), cell'[p] # NoCell
      PROVE  p \in 1..Len(cell) /\ cell'[p] = cell[p] /\ stack'[p] = stack[p]
  <2>1. VariableSlot(p)' BY <1>9, <1>2 DEF CellsOK
  <2>2. p \in Nat BY <1>5, <1>6
  <2>3. VariableSlot(p) BY <2>1, <1>3 DEF VariableSlot
  <2>4. p \in 1..(VariablesEnd - 1) BY <2>3, <2>2, <1>7
  <2> QED BY <2>4, <1>5, <1>6
<1>10. StoreMeant' = StoreMeant
  <2>1. status # "failed" /\ status' # "failed" BY <1>3
  <2>2. \A u \in 1..Len(cellOf) : u \in 1..Len(cellOf') /\ cellOf'[u] = cellOf[u] BY <1>3
  <2>3. \A u \in 1..Len(cellOf') : ~InSlot(cellOf[u])' =>
            u \in 1..Len(cellOf) /\ cellOf'[u] = cellOf[u] /\ upvalues'[u].value = upvalues[u].value
        BY <1>3
  <2> QED BY <1>0, <1>8, <1>9, <2>1, <2>2, <2>3, StoreSame
<1>13. /\ Lexical!Top = [closure |-> Top.closure, locals |-> Lexical!Top.locals,
                         temps |-> Lexical!Temps]
       /\ Lexical!Top.locals \in Seq(Cells \cup {NoCell})
       /\ Len(Lexical!Top.locals) = Top.locals - 1
       /\ \A n \in 1..(Top.locals - 1) : Lexical!Top.locals[n] = cell[Top.slots + n]
       BY <1>4 DEF TopIs
<1> DEFINE lt == Lexical!Top.locals
<1>14. lt \in Seq(Cells \cup {NoCell}) /\ Len(lt) = Top.locals - 1 BY <1>13
<1>15. \A n \in 1..(Top.locals - 1) : lt[n] = cell'[Top.slots + n]
  <2> DEFINE e == VariablesEnd
             a == Top.slots
             k == Top.locals
  <2>1. a \in Nat \ {0} /\ k \in Nat \ {0} /\ e = a + k BY <1>5
  <2> HIDE DEF e, a, k
  <2>2. \A n \in 1..(k - 1) : a + n \in 1..(e - 1) BY ONLY <2>1
  <2>3. \A n \in 1..(k - 1) : cell'[a + n] = cell[a + n] BY <2>2 DEF e
  <2> QED BY <2>3, <1>13 DEF a, k
<1>16. Lexical!Top = [closure |-> Top.closure, locals |-> lt, temps |-> Lexical!Temps]
       BY <1>13
<1> HIDE DEF lt
<1>17. Lexical!SetTop([closure |-> Top.closure, locals |-> lt, temps |-> ts])
  <2>1. \A f \in 1..Len(frames) : f < Len(frames) => frames'[f] = frames[f] BY <1>3
  <2>0. \A p \in 1..(Top.slots - 1) : p \in 1..(VariablesEnd - 1)
    <3> DEFINE e == VariablesEnd
               a == Top.slots
               k == Top.locals
    <3>1. a \in Nat \ {0} /\ k \in Nat \ {0} /\ e = a + k BY <1>5
    <3> HIDE DEF e, a, k
    <3>2. \A p \in 1..(a - 1) : p \in 1..(e - 1) BY ONLY <3>1
    <3> QED BY <3>2 DEF e, a
  <2>2. \A p \in 1..(Top.slots - 1) : cell'[p] = cell[p] BY <2>0
  <2>3. \A p \in 1..(Top.slots - 1) : VariableSlot(p) \/ stack'[p] = stack[p] BY <2>0
  <2>4. /\ Top'.slots = Top.slots /\ Top'.closure = Top.closure
        /\ Len(lt) = Top'.locals - 1
        /\ \A n \in 1..(Top'.locals - 1) : lt[n] = cell'[Top.slots + n]
        BY <1>3, <1>14, <1>15
  <2>5. /\ Len(ts) = Len(stack') + 1 - (Top.slots + Top'.locals)
        /\ \A n \in 1..Len(ts) : ts[n] = stack'[Top.slots + Top'.locals + n - 1]
        BY <1>3, <1>5
  <2> QED BY <1>0, <1>3, <1>14, <2>1, <2>2, <2>3, <2>4, <2>5, TopBecomes
<1>18. [Lexical!Top EXCEPT !.temps = ts] = [closure |-> Top.closure, locals |-> lt, temps |-> ts]
       BY <1>16
<1>19. Lexical!SetTemps(ts) BY <1>17, <1>18 DEF Lexical!SetTemps
<1> QED BY <1>10, <1>19

(* ... that creates no closure. *)
LEMMA TempsSet ==
    ASSUME CInv, IInv', status = "running", frames # <<>>,
           UNCHANGED <<status, frames, heap, cellOf>>,
           \A p \in 1..(VariablesEnd - 1) : cell'[p] = cell[p] /\ stack'[p] = stack[p],
           NEW T, NEW ts \in Seq(T), Len(ts) = Len(stack') + 1 - VariablesEnd,
           \A n \in 1..Len(ts) : ts[n] = stack'[VariablesEnd + n - 1]
    PROVE  /\ Lexical!SetTemps(ts) /\ CInv'
           /\ ClosuresMeant' = ClosuresMeant /\ StoreMeant' = StoreMeant
<1>1. IInv /\ Owned BY DEF CInv
<1>2. /\ status' = status /\ frames' = frames /\ upvalues' = upvalues /\ closures' = closures
      /\ cellOf' = cellOf
      BY DEF heap
<1>3. Lexical!SetTemps(ts) /\ StoreMeant' = StoreMeant BY <1>1, <1>2, TempsMoved
<1>4. ClosuresMeant' = ClosuresMeant BY <1>1, <1>2, ClosuresSame
<1>5. CInv' BY <1>1, <1>2, OwnedSame DEF CInv
<1> QED BY <1>3, <1>4, <1>5

-----------------------------------------------------------------------------
(* Each instruction is an action of the abstract machine. *)

LEMMA RunningTop ==
    ASSUME CInv, Running \/ capturing
    PROVE  /\ IInv /\ Owned /\ TopIs /\ status = "running" /\ frames # <<>>
           /\ VariablesEnd \in Nat \ {0}
<1>1. IInv /\ Owned BY DEF CInv
<1>2. status = "running" /\ frames # <<>> BY <1>1, InvParts
<1>3. VariablesEnd \in Nat /\ VariablesEnd >= 1 BY <1>1, InvParts, Variables
<1> QED BY <1>1, <1>2, <1>3, TopMeans

(* A value more on top of the stack. *)
LEMMA PushTemps ==
    ASSUME CInv, IInv', Running, NEW v, stack' = Append(stack, v), cell' = Append(cell, NoCell),
           UNCHANGED <<status, frames, upvalues, cellOf>>
    PROVE  Lexical!SetTemps(Append(Lexical!Temps, v)) /\ StoreMeant' = StoreMeant
<1>1. IInv /\ TopIs /\ status = "running" /\ frames # <<>> /\ VariablesEnd \in Nat \ {0}
      BY RunningTop
<1>3. CellsOK /\ ValuesOK BY <1>1, InvParts
<1> DEFINE ls == Lexical!Temps
           ts == Append(ls, v)
<1>4. /\ ls \in Seq(Existing \cup {Script}) /\ Len(ls) = Temps
      /\ \A n \in 1..Temps : ls[n] = stack[VariablesEnd + n - 1]
      /\ VariablesEnd \in Nat \ {0} /\ Len(stack) \in Nat /\ Temps = Len(stack) + 1 - VariablesEnd
      /\ Temps \in Nat
      BY <1>1 DEF TopIs
<1> DEFINE T == Existing \cup {Script, v}
<1>5. /\ stack \in Seq(T) /\ ls \in Seq(T) /\ v \in T /\ NoCell \in Cells \cup {NoCell}
      /\ cell \in Seq(Cells \cup {NoCell})
  <2>1. Existing \cup {Script} \subseteq T OBVIOUS
  <2>2. stack \in Seq(Existing \cup {Script}) BY <1>3 DEF ValuesOK
  <2>3. cell \in Seq(Cells \cup {NoCell}) BY <1>3 DEF CellsOK
  <2>4. v \in T OBVIOUS
  <2> HIDE DEF T, ls
  <2> QED BY <2>1, <2>2, <2>3, <2>4, <1>4
<1>6. Len(cell) = Len(stack) BY <1>3, CellTypes
<1> HIDE DEF ls, T
<1>7. /\ Len(stack') = Len(stack) + 1 /\ stack'[Len(stack) + 1] = v
      /\ \A p \in 1..Len(stack) : stack'[p] = stack[p] /\ cell'[p] = cell[p]
      BY <1>4, <1>5, <1>6, Appended
<1>8. /\ ts \in Seq(T) /\ Len(ts) = Temps + 1 /\ ts[Temps + 1] = v
      /\ \A n \in 1..Temps : ts[n] = ls[n]
      BY <1>4, <1>5, Appended
<1> HIDE DEF ts
<1>9. Len(ts) = Len(stack') + 1 - VariablesEnd BY <1>4, <1>7, <1>8
<1>10. \A n \in 1..Len(ts) : ts[n] = stack'[VariablesEnd + n - 1]
  <2> TAKE n \in 1..Len(ts)
  <2>1. CASE n = Temps + 1
    <3>1. VariablesEnd + n - 1 = Len(stack) + 1 BY <2>1, <1>4
    <3> QED BY <3>1, <2>1, <1>7, <1>8
  <2>2. CASE n # Temps + 1
    <3>1. n \in 1..Temps BY <2>2, <1>4, <1>8
    <3>2. VariablesEnd + n - 1 \in 1..Len(stack) BY <3>1, <1>4
    <3>3. stack'[VariablesEnd + n - 1] = stack[VariablesEnd + n - 1] BY <3>2, <1>7
    <3> QED BY <3>1, <3>3, <1>4, <1>8
  <2> QED BY <2>1, <2>2
<1>11. \A p \in 1..(VariablesEnd - 1) : cell'[p] = cell[p] /\ stack'[p] = stack[p]
  <2> TAKE p \in 1..(VariablesEnd - 1)
  <2>1. p \in 1..Len(stack) BY <1>4
  <2> QED BY <2>1, <1>7
<1>12. Lexical!SetTemps(ts) /\ StoreMeant' = StoreMeant
       BY <1>1, <1>8, <1>9, <1>10, <1>11, TempsMoved
<1> QED BY <1>12 DEF ts, ls

(* push(). *)
LEMMA PushMeans ==
    ASSUME CInv, Running, NEW v \in Existing, Push(v),
           UNCHANGED <<status, frames, heap, capturing, globals, cellOf>>
    PROVE  Lexical!Push(v) /\ CInv'
<1>1. IInv /\ Owned BY DEF CInv
<1>2. IInv' BY <1>1, PushStep
<1>3. /\ stack' = Append(stack, v) /\ cell' = Append(cell, NoCell)
      /\ status' = status /\ frames' = frames /\ upvalues' = upvalues /\ closures' = closures
      /\ cellOf' = cellOf /\ globals' = globals
      BY DEF Push, heap
<1>4. Lexical!SetTemps(Append(Lexical!Temps, v)) /\ StoreMeant' = StoreMeant
      BY <1>2, <1>3, PushTemps
<1>5. ClosuresMeant' = ClosuresMeant BY <1>1, <1>3, ClosuresSame
<1>6. CInv' BY <1>1, <1>2, <1>3, OwnedSame DEF CInv
<1> QED BY <1>3, <1>4, <1>5, <1>6 DEF Lexical!Push

LEMMA ConstantMeans ==
    ASSUME CInv, NEW v \in Data, Constant(v)
    PROVE  Lexical!Literal /\ CInv'
<1>1. Running /\ Push(v) /\ UNCHANGED <<status, frames, heap, capturing, globals, cellOf>>
      BY DEF Constant
<1>2. v \in Existing BY DEF Existing
<1>3. Lexical!Push(v) /\ CInv' BY <1>1, <1>2, PushMeans
<1> QED BY <1>3 DEF Lexical!Literal

(* The top of the stack is dropped. *)
LEMMA DropMeans ==
    ASSUME CInv, IInv', Running, Temps >= 1, Truncate(StackTop - 1),
           UNCHANGED <<status, frames, heap, cellOf>>
    PROVE  /\ Lexical!Temps # <<>> /\ Lexical!SetTemps(Lexical!Front(Lexical!Temps)) /\ CInv'
           /\ ClosuresMeant' = ClosuresMeant /\ StoreMeant' = StoreMeant
<1>1. IInv /\ TopIs /\ status = "running" /\ frames # <<>> /\ VariablesEnd \in Nat \ {0}
      BY RunningTop
<1>3. CellsOK /\ ValuesOK BY <1>1, InvParts
<1> DEFINE ls == Lexical!Temps
           ts == SubSeq(ls, 1, Temps - 1)
<1>4. /\ ls \in Seq(Existing \cup {Script}) /\ Len(ls) = Temps
      /\ \A n \in 1..Temps : ls[n] = stack[VariablesEnd + n - 1]
      /\ VariablesEnd \in Nat \ {0} /\ Len(stack) \in Nat /\ Temps = Len(stack) + 1 - VariablesEnd
      /\ Temps \in Nat
      BY <1>1 DEF TopIs
<1>5. stack' = SubSeq(stack, 1, Len(stack) - 1) /\ cell' = SubSeq(cell, 1, Len(stack) - 1)
      BY DEF Truncate, StackTop
<1>6. Len(cell) = Len(stack) BY <1>3, CellTypes
<1>66. Lexical!Front(ls) = ts BY <1>4 DEF Lexical!Front
<1>67. ls # <<>> BY <1>4
<1> HIDE DEF ls
<1>60. Len(stack) - 1 \in 0..Len(stack) /\ Temps - 1 \in 0..Temps BY <1>4
<1>7. /\ Len(stack') = Len(stack) - 1
      /\ \A p \in 1..(Len(stack) - 1) : stack'[p] = stack[p] /\ cell'[p] = cell[p]
  <2> DEFINE m == Len(stack) - 1
  <2>1. stack \in Seq(Existing \cup {Script}) /\ cell \in Seq(Cells \cup {NoCell})
        BY <1>3 DEF ValuesOK, CellsOK
  <2>2. /\ m \in 0..Len(stack) /\ m \in 0..Len(cell)
        /\ stack' = SubSeq(stack, 1, m) /\ cell' = SubSeq(cell, 1, m)
        BY <1>5, <1>6, <1>60
  <2> HIDE DEF m
  <2>3. Len(stack') = m /\ \A p \in 1..m : stack'[p] = stack[p] BY ONLY <2>1, <2>2, Prefix
  <2>4. \A p \in 1..m : cell'[p] = cell[p] BY ONLY <2>1, <2>2, Prefix
  <2> QED BY <2>3, <2>4 DEF m
<1>8. /\ ts \in Seq(Existing \cup {Script}) /\ Len(ts) = Temps - 1
      /\ \A n \in 1..(Temps - 1) : ts[n] = ls[n]
      BY <1>4, <1>60, Prefix
<1> HIDE DEF ts
<1>9. Len(ts) = Len(stack') + 1 - VariablesEnd BY <1>4, <1>7, <1>8
<1>10. \A n \in 1..Len(ts) : ts[n] = stack'[VariablesEnd + n - 1]
  <2> TAKE n \in 1..Len(ts)
  <2>1. n \in 1..(Temps - 1) /\ n \in 1..Temps BY <1>4, <1>8
  <2>2. VariablesEnd + n - 1 \in 1..(Len(stack) - 1) BY <2>1, <1>4
  <2>3. stack'[VariablesEnd + n - 1] = stack[VariablesEnd + n - 1] BY <2>2, <1>7
  <2> QED BY <2>1, <2>3, <1>4, <1>8
<1>11. \A p \in 1..(VariablesEnd - 1) : cell'[p] = cell[p] /\ stack'[p] = stack[p]
  <2> TAKE p \in 1..(VariablesEnd - 1)
  <2>1. p \in 1..(Len(stack) - 1) BY <1>4
  <2> QED BY <2>1, <1>7
<1>12. /\ Lexical!SetTemps(ts) /\ CInv'
       /\ ClosuresMeant' = ClosuresMeant /\ StoreMeant' = StoreMeant
       BY <1>1, <1>8, <1>9, <1>10, <1>11, TempsSet
<1> QED BY <1>12, <1>66, <1>67 DEF ls

LEMMA PopMeans ==
    ASSUME CInv, Pop
    PROVE  Lexical!Drop /\ CInv'
<1>1. IInv BY DEF CInv
<1>2. /\ Running /\ Temps >= 1 /\ Truncate(StackTop - 1)
      /\ UNCHANGED <<status, frames, heap, capturing, globals, cellOf>>
      BY DEF Pop
<1>3. IInv' BY <1>1, PopInv
<1>4. UNCHANGED <<status, frames, heap, cellOf>> /\ globals' = globals BY <1>2
<1>5. /\ Lexical!Temps # <<>> /\ Lexical!SetTemps(Lexical!Front(Lexical!Temps)) /\ CInv'
      /\ ClosuresMeant' = ClosuresMeant /\ StoreMeant' = StoreMeant
      BY <1>2, <1>3, <1>4, DropMeans
<1> QED BY <1>4, <1>5 DEF Lexical!Drop

(* The content of a variable in a slot, or of one that has left the stack. *)
LEMMA GetLocalMeans ==
    ASSUME CInv, NEW n \in 1..MaxLocals, GetLocal(n)
    PROVE  Lexical!ReadLocal /\ CInv'
<1>1. /\ Running /\ n \in 1..(Top.locals - 1) /\ Push(stack[Top.slots + n])
      /\ UNCHANGED <<status, frames, heap, capturing, globals, cellOf>>
      BY DEF GetLocal
<1>2. IInv /\ TopIs /\ status # "failed" BY <1>1, RunningTop
<1>3. /\ Top.slots + n \in 2..Len(stack) /\ stack[Top.slots + n] \in Existing
      /\ VariableSlot(Top.slots + n)
      BY <1>1, <1>2, LocalSlot
<1>4. Lexical!Push(stack[Top.slots + n]) /\ CInv' BY <1>1, <1>3, PushMeans
<1>5. CellsOK /\ Len(cell) = Len(stack) BY <1>2, InvParts DEF CellsOK
<1>6. Top.slots + n \in 1..Len(cell) /\ cell[Top.slots + n] # NoCell BY <1>3, <1>5 DEF CellsOK
<1>7. StoreMeant[cell[Top.slots + n]] = stack[Top.slots + n] BY <1>2, <1>6, StoreAt
<1>8. /\ Lexical!Top.locals[n] = cell[Top.slots + n] /\ Len(Lexical!Top.locals) = Top.locals - 1
      /\ Lexical!Top.locals \in Seq(Cells \cup {NoCell})
      BY <1>1, <1>2 DEF TopIs
<1> DEFINE ls == Lexical!Top.locals
<1>9. ls \in Seq(Cells \cup {NoCell}) /\ n \in 1..Len(ls) BY <1>1, <1>8
<1> HIDE DEF ls
<1>10. n \in DOMAIN ls BY <1>9
<1> QED BY <1>4, <1>7, <1>8, <1>10 DEF ls, Lexical!ReadLocal

LEMMA GetGlobalMeans ==
    ASSUME CInv, NEW g \in Globals, GetGlobal(g)
    PROVE  Lexical!ReadGlobal /\ CInv'
<1>1. /\ Running /\ globals[g] # Undefined /\ Push(globals[g])
      /\ UNCHANGED <<status, frames, heap, capturing, globals, cellOf>>
      BY DEF GetGlobal
<1>2. ValuesOK BY InvParts DEF CInv
<1>3. globals[g] \in Existing BY <1>1, <1>2 DEF ValuesOK
<1>4. Lexical!Push(globals[g]) /\ CInv' BY <1>1, <1>3, PushMeans
<1> QED BY <1>1, <1>4 DEF Lexical!ReadGlobal

(* The binary operators. *)
LEMMA OperateMeans ==
    ASSUME CInv, NEW v \in Data, Operate(v)
    PROVE  Lexical!Operate /\ CInv'
<1>0. /\ Running /\ Temps >= 2 /\ stack' = Append(SubSeq(stack, 1, Len(stack) - 2), v)
      /\ cell' = SubSeq(cell, 1, Len(stack) - 1)
      /\ UNCHANGED <<status, frames, heap, capturing, globals, cellOf>>
      BY DEF Operate, StackTop
<1>1. IInv /\ TopIs /\ status = "running" /\ frames # <<>> /\ VariablesEnd \in Nat \ {0}
      BY <1>0, RunningTop
<1>2. IInv' BY <1>1, OperateInv
<1>3. CellsOK /\ ValuesOK /\ v \in Existing BY <1>1, InvParts DEF Existing
<1> DEFINE ls == Lexical!Temps
           m == Len(stack) - 2
           k == Temps - 2
           lf == SubSeq(ls, 1, Temps - 1)
           lff == SubSeq(ls, 1, k)
           ts == Append(lff, v)
<1>4. /\ ls \in Seq(Existing \cup {Script}) /\ Len(ls) = Temps
      /\ \A n \in 1..Temps : ls[n] = stack[VariablesEnd + n - 1]
      /\ VariablesEnd \in Nat \ {0} /\ Len(stack) \in Nat /\ Temps = Len(stack) + 1 - VariablesEnd
      /\ Temps \in Nat
      BY <1>1 DEF TopIs
<1>5. Len(cell) = Len(stack) BY <1>3, CellTypes
<1>6. Lexical!Front(Lexical!Front(ls)) = lff
  <2> HIDE DEF ls
  <2>1. Lexical!Front(ls) = lf BY <1>4 DEF Lexical!Front
  <2>2. Temps - 1 \in 0..Len(ls) BY <1>0, <1>4
  <2>3. /\ lf \in Seq(Existing \cup {Script}) /\ Len(lf) = Temps - 1
        /\ \A i \in 1..(Temps - 1) : lf[i] = ls[i]
        BY <2>2, <1>4, Prefix
  <2> HIDE DEF lf
  <2>4. Lexical!Front(lf) = SubSeq(lf, 1, k) BY <2>3, <1>4 DEF Lexical!Front
  <2>5. SubSeq(lf, 1, k) = lff
    <3>1. k \in Nat /\ k <= Len(lf) /\ k <= Len(ls) /\ 1 <= k + 1 BY <2>3, <1>0, <1>4
    <3>2. \A i \in 1..k : lf[i] = ls[i] BY <2>3, <1>0, <1>4
    <3> HIDE DEF k
    <3> QED BY <3>1, <3>2, <2>3, <1>4, SameSlice
  <2> QED BY <2>1, <2>4, <2>5
<1> HIDE DEF ls, lf
<1>7. m \in 0..Len(stack) /\ k \in 0..Len(ls) /\ Len(stack) - 1 \in 0..Len(cell)
      /\ k = m + 1 - VariablesEnd /\ VariablesEnd - 1 <= m
      BY <1>0, <1>4, <1>5
<1> HIDE DEF m, k
<1>8. /\ SubSeq(stack, 1, m) \in Seq(Existing \cup {Script}) /\ Len(SubSeq(stack, 1, m)) = m
      /\ \A p \in 1..m : SubSeq(stack, 1, m)[p] = stack[p]
      BY <1>3, <1>7, Prefix DEF ValuesOK
<1>9. /\ Len(stack') = m + 1 /\ stack'[m + 1] = v /\ \A p \in 1..m : stack'[p] = stack[p]
  <2> DEFINE s == SubSeq(stack, 1, m)
  <2>1. s \in Seq(Existing \cup {Script}) /\ Len(s) = m /\ \A p \in 1..m : s[p] = stack[p]
        BY <1>8
  <2>2. stack' = Append(s, v) BY <1>0 DEF m
  <2> HIDE DEF s
  <2> QED BY <2>1, <2>2, <1>3, Appended
<1>10. \A p \in 1..(Len(stack) - 1) : cell'[p] = cell[p]
       BY <1>0, <1>3, <1>7, Prefix DEF CellsOK
<1>11. /\ lff \in Seq(Existing \cup {Script}) /\ Len(lff) = k
       /\ \A n \in 1..k : lff[n] = ls[n]
       BY <1>4, <1>7, Prefix
<1> HIDE DEF lff
<1>12. /\ ts \in Seq(Existing \cup {Script}) /\ Len(ts) = k + 1 /\ ts[k + 1] = v
       /\ \A n \in 1..k : ts[n] = lff[n]
       BY <1>3, <1>11, Appended
<1> HIDE DEF ts
<1>13. Len(ts) = Len(stack') + 1 - VariablesEnd BY <1>4, <1>7, <1>9, <1>12
<1>14. \A n \in 1..Len(ts) : ts[n] = stack'[VariablesEnd + n - 1]
  <2> TAKE n \in 1..Len(ts)
  <2>1. CASE n = k + 1
    <3>1. VariablesEnd + n - 1 = m + 1 BY <2>1, <1>4, <1>7
    <3> QED BY <3>1, <2>1, <1>9, <1>12
  <2>2. CASE n # k + 1
    <3>1. n \in 1..k BY <2>2, <1>7, <1>12
    <3>2. n \in 1..Temps /\ VariablesEnd + n - 1 \in 1..m BY <3>1, <1>4, <1>7
    <3>3. stack'[VariablesEnd + n - 1] = stack[VariablesEnd + n - 1] BY <3>2, <1>9
    <3> QED BY <3>1, <3>2, <3>3, <1>4, <1>11, <1>12
  <2> QED BY <2>1, <2>2
<1>15. \A p \in 1..(VariablesEnd - 1) : cell'[p] = cell[p] /\ stack'[p] = stack[p]
  <2> TAKE p \in 1..(VariablesEnd - 1)
  <2>1. p \in 1..m /\ p \in 1..(Len(stack) - 1) BY <1>4, <1>7 DEF m
  <2> QED BY <2>1, <1>9, <1>10
<1>16. UNCHANGED <<status, frames, heap, cellOf>> /\ globals' = globals BY <1>0
<1>17. /\ Lexical!SetTemps(ts) /\ CInv'
       /\ ClosuresMeant' = ClosuresMeant /\ StoreMeant' = StoreMeant
       BY <1>1, <1>2, <1>12, <1>13, <1>14, <1>15, <1>16, TempsSet
<1>18. Len(ls) >= 2 BY <1>0, <1>4
<1>19. Lexical!SetTemps(Append(Lexical!Front(Lexical!Front(Lexical!Temps)), v))
       BY <1>6, <1>17 DEF ts, ls
<1> QED BY <1>16, <1>17, <1>18, <1>19 DEF Lexical!Operate, ls

(* A variable is read through an upvalue. *)
LEMMA UpvalueContent ==
    ASSUME CInv, Running, ~ContinueOnError, NEW n \in DOMAIN Upvalues(Top.closure)
    PROVE  LET u == Upvalues(Top.closure)[n]
           IN  /\ u \in 1..Len(cellOf) /\ u \in 1..Len(upvalues) /\ upvalues[u] \in Records
               /\ n \in DOMAIN Lexical!CellsOf(Lexical!Top.closure)
               /\ Lexical!CellsOf(Lexical!Top.closure)[n] = cellOf[u]
               /\ \/ /\ upvalues[u].location = 0 /\ ~InSlot(cellOf[u])
                     /\ StoreMeant[cellOf[u]] = upvalues[u].value
                  \/ /\ upvalues[u].location \in 2..Len(stack)
                     /\ VariableSlot(upvalues[u].location)
                     /\ cell[upvalues[u].location] = cellOf[u]
                     /\ StoreMeant[cellOf[u]] = stack[upvalues[u].location]
                     /\ stack[upvalues[u].location] \in Existing
<1> DEFINE c == Top.closure
           u == Upvalues(c)[n]
<1>1. IInv /\ TopIs /\ status = "running" /\ frames # <<>> BY RunningTop
<1>2. FramesOK /\ ValuesOK /\ CellsOK /\ ListOK /\ OwnersOK /\ AllListed BY <1>1, InvParts
<1>3. c \in {Script} \cup DOMAIN closures
  <2>1. Top \in Frames BY <1>1, <1>2, TopFrame
  <2> QED BY <2>1 DEF Frames
<1>4. /\ u \in 1..Len(upvalues) /\ upvalues[u] \in Records
      /\ c \in DOMAIN closures /\ c # Script /\ n \in 1..Len(Upvalues(c))
  <2>1. n \in DOMAIN Upvalues(c) OBVIOUS
  <2> HIDE DEF c
  <2> QED BY <2>1, <1>1, <1>3, ClosureUpvalues
<1>5. u \in 1..Len(cellOf) BY <1>2, <1>4 DEF CellsOK
<1>6. Upvalues(c) = closures[c].upvalues BY <1>4 DEF Upvalues
<1>7. /\ Lexical!Top.closure = c /\ Lexical!CellsOf(c) = ClosuresMeant[c].cells
  <2>1. Lexical!Top.closure = c BY <1>1 DEF TopIs
  <2>2. c # Lexical!Script BY <1>4 DEF Script, Lexical!Script
  <2> QED BY <2>1, <2>2 DEF Lexical!CellsOf
<1>8. /\ ClosuresMeant[c].cells \in Seq(Cells)
      /\ Len(ClosuresMeant[c].cells) = Len(closures[c].upvalues)
      /\ \A i \in 1..Len(closures[c].upvalues) :
           ClosuresMeant[c].cells[i] = cellOf[closures[c].upvalues[i]]
  <2>1. c \in 1..Len(closures) BY <1>4, <1>2, ClosureTypes
  <2> HIDE DEF c
  <2> QED BY <2>1, <1>1, MeantClosures
<1>9. n \in DOMAIN Lexical!CellsOf(c) /\ Lexical!CellsOf(c)[n] = cellOf[u]
  <2>1. n \in 1..Len(closures[c].upvalues) BY <1>4, <1>6
  <2> DEFINE cs == ClosuresMeant[c].cells
  <2>2. cs \in Seq(Cells) /\ n \in 1..Len(cs) BY <2>1, <1>8
  <2>3. cs[n] = cellOf[u] BY <2>1, <1>6, <1>8
  <2>4. Lexical!CellsOf(c) = cs BY <1>7
  <2> HIDE DEF cs
  <2>5. n \in DOMAIN cs BY <2>2
  <2> QED BY <2>3, <2>4, <2>5
<1> HIDE DEF u
<1>10. upvalues[u].location \in Nat BY <1>4 DEF Records
<1>11. CASE upvalues[u].location = 0
  <2>1. ASSUME InSlot(cellOf[u]) PROVE FALSE
    <3>1. PICK p \in 1..Len(cell) : cellOf[u] = cell[p] BY <2>1 DEF InSlot
    <3>2. OnList(u) BY <3>1, <1>2, <1>4 DEF OwnersOK
    <3>3. upvalues[u].location >= 2 BY <3>2, <1>2, OnListTypes
    <3> QED BY <3>3, <1>11
  <2>2. StoreMeant[cellOf[u]] = upvalues[u].value BY <2>1, <1>1, <1>5, StoreAt
  <2> QED BY <2>1, <2>2, <1>4, <1>5, <1>7, <1>9, <1>11 DEF u
<1>12. CASE upvalues[u].location # 0
  <2>1. OnList(u) BY <1>1, <1>2, <1>4, <1>12 DEF AllListed, Open
  <2> DEFINE l == upvalues[u].location
  <2>2. /\ l \in Nat /\ l >= 2 /\ l <= Len(stack) /\ VariableSlot(l) /\ cell[l] = cellOf[u]
        BY <2>1, <1>2, OnListTypes
  <2> HIDE DEF l
  <2>3. Len(stack) \in Nat /\ Len(cell) = Len(stack) BY <1>2, CellTypes
  <2>4. l \in 2..Len(stack) /\ l \in 1..Len(cell) BY <2>2, <2>3
  <2>5. cell[l] # NoCell BY <2>2, <2>4, <1>2 DEF CellsOK
  <2>6. StoreMeant[cell[l]] = stack[l] BY <2>4, <2>5, <1>1, StoreAt
  <2>7. stack[l] \in Existing BY <2>4, <1>2 DEF ValuesOK
  <2> QED BY <2>2, <2>4, <2>6, <2>7, <1>4, <1>5, <1>7, <1>9 DEF l, u
<1> QED BY <1>11, <1>12

LEMMA GetUpvalueMeans ==
    ASSUME CInv, ~ContinueOnError, NEW n \in 1..MaxCaptures, GetUpvalue(n)
    PROVE  Lexical!ReadCaptured /\ CInv'
<1>1. /\ Running /\ n \in DOMAIN Upvalues(Top.closure)
      /\ UNCHANGED <<status, frames, heap, capturing, globals, cellOf>>
      BY DEF GetUpvalue
<1> DEFINE u == Upvalues(Top.closure)[n]
           a == cellOf[u]
<1>2. /\ upvalues[u] \in Records
      /\ n \in DOMAIN Lexical!CellsOf(Lexical!Top.closure)
      /\ Lexical!CellsOf(Lexical!Top.closure)[n] = a
      /\ \/ upvalues[u].location = 0 /\ StoreMeant[a] = upvalues[u].value
         \/ /\ upvalues[u].location \in 2..Len(stack)
            /\ StoreMeant[a] = stack[upvalues[u].location]
            /\ stack[upvalues[u].location] \in Existing
      BY <1>1, UpvalueContent
<1>3. Len(stack) \in Nat BY InvParts, CellTypes DEF CInv
<1>4. \/ upvalues[u].location = 0 /\ Push(upvalues[u].value)
      \/ upvalues[u].location \in 1..Len(stack) /\ Push(stack[upvalues[u].location])
      \/ upvalues[u].location > Len(stack)
      BY DEF GetUpvalue, StackTop
<1> HIDE DEF u
<1>5. upvalues[u].location = 0 => upvalues[u].value \in Existing BY <1>2 DEF Records
<1>6. PICK v \in Existing : v = StoreMeant[a] /\ Push(v)
  <2>1. CASE upvalues[u].location = 0
    <3>1. Push(upvalues[u].value) BY <2>1, <1>3, <1>4
    <3>2. StoreMeant[a] = upvalues[u].value BY <2>1, <1>2
    <3> QED BY <3>1, <3>2, <2>1, <1>5
  <2>2. CASE upvalues[u].location \in 2..Len(stack)
    <3>1. Push(stack[upvalues[u].location]) BY <2>2, <1>3, <1>4
    <3>2. /\ StoreMeant[a] = stack[upvalues[u].location]
          /\ stack[upvalues[u].location] \in Existing
          BY <2>2, <1>2
    <3> QED BY <3>1, <3>2
  <2> QED BY <2>1, <2>2, <1>2
<1>7. Lexical!Push(v) /\ CInv' BY <1>1, <1>6, PushMeans
<1> QED BY <1>2, <1>6, <1>7 DEF Lexical!ReadCaptured

(* A variable is assigned in its slot. *)
LEMMA SlotAssigned ==
    ASSUME CInv, IInv', Running, Temps >= 1, NEW p \in 1..Len(stack), VariableSlot(p),
           stack' = [stack EXCEPT ![p] = Peek(0)],
           UNCHANGED <<status, frames, openUpvalues, upvalues, closures, globals, ghosts>>
    PROVE  Lexical!Assign(cell[p]) /\ CInv'
<1>1. IInv /\ Owned /\ TopIs /\ status = "running" /\ frames # <<>> BY RunningTop
<1>2. CellsOK /\ ValuesOK BY <1>1, InvParts
<1>3. Lexical!Temps # <<>> /\ Lexical!Peek = Peek(0) BY <1>1 DEF TopIs
<1>4. /\ frames' = frames /\ cell' = cell /\ cellOf' = cellOf /\ upvalues' = upvalues
      /\ closures' = closures /\ status' = "running" /\ globals' = globals
      BY <1>1 DEF ghosts
<1>5. Len(cell) = Len(stack) /\ Len(stack) \in Nat BY <1>2, CellTypes
<1>6. p \in 1..Len(cell') /\ cell'[p] # NoCell BY <1>2, <1>4, <1>5 DEF CellsOK
<1>7. stack \in Seq(Existing \cup {Script}) /\ DOMAIN stack = 1..Len(stack) BY <1>2 DEF ValuesOK
<1>8. stack'[p] = Peek(0) BY <1>7
<1>9. \A q \in 1..Len(stack) : q # p => stack'[q] = stack[q] BY <1>7
<1>10. FramesMeant' = FramesMeant
  <2>1. \A q \in 1..Len(stack) : VariableSlot(q) \/ stack'[q] = stack[q] BY <1>9
  <2> QED BY <2>1, <1>1, <1>4, FramesSame
<1>11. ClosuresMeant' = ClosuresMeant BY <1>1, <1>4, ClosuresSame
<1>12. CInv' BY <1>1, <1>4, OwnedSame DEF CInv
<1>13. StoreMeant' = Lexical!With(StoreMeant, cell'[p], stack'[p])
  <2>1. \A q \in 1..Len(cell') : q # p /\ cell'[q] # NoCell =>
            q \in 1..Len(cell) /\ cell'[q] = cell[q] /\ stack'[q] = stack[q]
        BY <1>4, <1>5, <1>9
  <2>2. \A q \in 1..Len(cell) : cell[q] # NoCell => q \in 1..Len(cell') /\ cell'[q] = cell[q]
        BY <1>4
  <2>3. \A u \in 1..Len(cellOf) : upvalues'[u].value = upvalues[u].value BY <1>4
  <2>4. status # "failed" /\ status' # "failed" BY <1>1, <1>4
  <2> QED BY <2>1, <2>2, <2>3, <2>4, <1>1, <1>4, <1>6, StoreWith
<1> QED BY <1>1, <1>3, <1>4, <1>8, <1>10, <1>11, <1>12, <1>13 DEF Lexical!Assign

LEMMA SetLocalMeans ==
    ASSUME CInv, NEW n \in 1..MaxLocals, SetLocal(n)
    PROVE  Lexical!WriteLocal /\ CInv'
<1>1. /\ Running /\ n \in 1..(Top.locals - 1) /\ Temps >= 1
      /\ stack' = [stack EXCEPT ![Top.slots + n] = Peek(0)]
      /\ UNCHANGED <<status, frames, openUpvalues, upvalues, closures, globals, ghosts>>
      BY DEF SetLocal, heap
<1>2. IInv /\ TopIs BY <1>1, RunningTop
<1>3. IInv' BY <1>2, SetLocalInv
<1>4. Top.slots + n \in 2..Len(stack) /\ VariableSlot(Top.slots + n) BY <1>1, <1>2, LocalSlot
<1>5. Top.slots + n \in 1..Len(stack) BY <1>4
<1>6. Lexical!Assign(cell[Top.slots + n]) /\ CInv' BY <1>1, <1>3, <1>4, <1>5, SlotAssigned
<1>7. /\ Lexical!Top.locals[n] = cell[Top.slots + n] /\ Len(Lexical!Top.locals) = Top.locals - 1
      /\ Lexical!Top.locals \in Seq(Cells \cup {NoCell})
      BY <1>1, <1>2 DEF TopIs
<1> DEFINE ls == Lexical!Top.locals
<1>8. ls \in Seq(Cells \cup {NoCell}) /\ n \in 1..Len(ls) BY <1>1, <1>7
<1> HIDE DEF ls
<1>9. n \in DOMAIN ls BY <1>8
<1> QED BY <1>6, <1>7, <1>9 DEF ls, Lexical!WriteLocal

(* A variable that has left the stack is assigned in its upvalue. *)
LEMMA UpvalueAssigned ==
    ASSUME CInv, IInv', Running, Temps >= 1, NEW u \in 1..Len(upvalues), ~InSlot(cellOf[u]),
           upvalues' = [upvalues EXCEPT ![u].value = Peek(0)],
           UNCHANGED <<status, stack, frames, openUpvalues, closures, globals, ghosts>>
    PROVE  Lexical!Assign(cellOf[u]) /\ CInv'
<1>1. IInv /\ Owned /\ TopIs /\ status = "running" /\ frames # <<>> BY RunningTop
<1>2. CellsOK /\ ValuesOK /\ OwnersOK BY <1>1, InvParts
<1>3. Lexical!Temps # <<>> /\ Lexical!Peek = Peek(0) BY <1>1 DEF TopIs
<1>4. /\ frames' = frames /\ cell' = cell /\ cellOf' = cellOf /\ stack' = stack
      /\ closures' = closures /\ status' = "running" /\ globals' = globals
      BY <1>1 DEF ghosts
<1>5. /\ Len(cell) = Len(stack) /\ Len(stack) \in Nat /\ Len(cellOf) = Len(upvalues)
      /\ \A v \in 1..Len(cellOf) : cellOf[v] # NoCell
      BY <1>2, CellTypes
<1>6. upvalues \in Seq(Records) /\ DOMAIN upvalues = 1..Len(upvalues)
      BY <1>2 DEF ValuesOK, Records
<1>7. /\ Len(upvalues') = Len(upvalues) /\ upvalues'[u].value = Peek(0)
      /\ \A v \in 1..Len(upvalues) : v # u => upvalues'[v] = upvalues[v]
  <2>1. upvalues[u] \in Records BY <1>6
  <2>2. upvalues'[u] = [upvalues[u] EXCEPT !.value = Peek(0)] BY <1>6
  <2>3. upvalues'[u].value = Peek(0) BY <2>1, <2>2 DEF Records
  <2>4. \A v \in 1..Len(upvalues) : v # u => upvalues'[v] = upvalues[v] BY <1>6
  <2> DEFINE r == [upvalues[u] EXCEPT !.value = Peek(0)]
  <2>5. upvalues' = [upvalues EXCEPT ![u] = r] OBVIOUS
  <2> HIDE DEF r
  <2>6. Len(upvalues') = Len(upvalues) BY <2>5, <1>6
  <2> QED BY <2>3, <2>4, <2>6
<1>10. FramesMeant' = FramesMeant BY <1>1, <1>4, FramesSame
<1>11. ClosuresMeant' = ClosuresMeant BY <1>1, <1>4, ClosuresSame
<1>12. CInv' BY <1>1, <1>4, <1>7, OwnedSame DEF CInv
<1>13. MeantCellsAre /\ MeantCellsAre' BY <1>1, MeantCells, MeantCellsNext
<1>14. CellsMeant' = CellsMeant BY <1>4 DEF CellsMeant
<1>15. status # "failed" /\ status' # "failed" BY <1>1, <1>4
<1> DEFINE a == cellOf[u]
           g == [c \in CellsMeant |-> IF c = a THEN Peek(0) ELSE StoreMeant[c]]
<1>16. g = [c \in CellsMeant' |-> g[c]] BY <1>14
<1>17. ASSUME NEW p \in 1..Len(cell'), cell'[p] # NoCell PROVE g[cell'[p]] = stack'[p]
  <2>1. cell[p] # a BY <1>4 DEF InSlot
  <2>2. cell[p] \in CellsMeant /\ StoreMeant[cell[p]] = stack[p]
        BY <1>1, <1>4, <1>15, <1>17, StoreAt
  <2> QED BY <2>1, <2>2, <1>4
<1>18. ASSUME NEW v \in 1..Len(cellOf'), ~InSlot(cellOf[v])'
       PROVE  g[cellOf'[v]] = upvalues'[v].value
  <2>1. ~InSlot(cellOf[v]) BY <1>18, <1>4 DEF InSlot
  <2>2. cellOf[v] \in CellsMeant /\ StoreMeant[cellOf[v]] = upvalues[v].value
        BY <1>1, <1>4, <1>15, <2>1, StoreAt
  <2>3. CASE v = u BY <2>2, <2>3, <1>4, <1>7
  <2>4. CASE v # u
    <3>1. cellOf[v] # a BY <2>4, <1>2, <1>4, <1>5 DEF OwnersOK
    <3>2. upvalues'[v] = upvalues[v] BY <2>4, <1>4, <1>5, <1>7
    <3> QED BY <2>2, <3>1, <3>2, <1>4
  <2> QED BY <2>3, <2>4
<1> HIDE DEF g
<1>19. StoreMeant' = g BY <1>15, <1>16, <1>17, <1>18, StoreIs
<1>20. DOMAIN StoreMeant \cup {a} = CellsMeant BY <1>1, <1>5, <1>15, StoreAt
<1>21. StoreMeant' = Lexical!With(StoreMeant, a, Peek(0)) BY <1>19, <1>20 DEF g, Lexical!With
<1> QED BY <1>1, <1>3, <1>4, <1>10, <1>11, <1>12, <1>21 DEF Lexical!Assign

LEMMA SetUpvalueMeans ==
    ASSUME CInv, ~ContinueOnError, NEW n \in 1..MaxCaptures, SetUpvalue(n)
    PROVE  Lexical!WriteCaptured /\ CInv'
<1>1. /\ Running /\ n \in DOMAIN Upvalues(Top.closure) /\ Temps >= 1
      /\ UNCHANGED <<status, frames, openUpvalues, closures, capturing, globals, ghosts>>
      BY DEF SetUpvalue
<1> DEFINE u == Upvalues(Top.closure)[n]
           l == upvalues[u].location
<1>2. /\ u \in 1..Len(upvalues)
      /\ n \in DOMAIN Lexical!CellsOf(Lexical!Top.closure)
      /\ Lexical!CellsOf(Lexical!Top.closure)[n] = cellOf[u]
      /\ \/ l = 0 /\ ~InSlot(cellOf[u])
         \/ l \in 2..Len(stack) /\ VariableSlot(l) /\ cell[l] = cellOf[u]
      BY <1>1, UpvalueContent
<1>3. Len(stack) \in Nat BY InvParts, CellTypes DEF CInv
<1>4. IInv /\ IInv' BY SetUpvalueInv DEF CInv
<1>5. \/ l = 0 /\ upvalues' = [upvalues EXCEPT ![u].value = Peek(0)] /\ UNCHANGED stack
      \/ l \in 1..Len(stack) /\ stack' = [stack EXCEPT ![l] = Peek(0)] /\ UNCHANGED upvalues
      \/ l > Len(stack)
      BY DEF SetUpvalue, StackTop
<1> HIDE DEF u
<1>6. ASSUME l = 0, ~InSlot(cellOf[u]) PROVE Lexical!Assign(cellOf[u]) /\ CInv'
  <2>1. upvalues' = [upvalues EXCEPT ![u].value = Peek(0)] /\ UNCHANGED stack
        BY <1>3, <1>5, <1>6
  <2>2. UNCHANGED <<status, stack, frames, openUpvalues, closures, globals, ghosts>>
        BY <1>1, <2>1
  <2> QED BY <1>1, <1>2, <1>4, <1>6, <2>1, <2>2, UpvalueAssigned
<1>7. ASSUME l \in 2..Len(stack), VariableSlot(l), cell[l] = cellOf[u]
      PROVE  Lexical!Assign(cellOf[u]) /\ CInv'
  <2>1. stack' = [stack EXCEPT ![l] = Peek(0)] /\ UNCHANGED upvalues BY <1>3, <1>5, <1>7
  <2>2. UNCHANGED <<status, frames, openUpvalues, upvalues, closures, globals, ghosts>>
        BY <1>1, <2>1
  <2>3. l \in 1..Len(stack) BY <1>7
  <2> HIDE DEF l
  <2> QED BY <1>1, <1>2, <1>4, <1>7, <2>1, <2>2, <2>3, SlotAssigned
<1>8. Lexical!Assign(cellOf[u]) /\ CInv' BY <1>2, <1>6, <1>7
<1> QED BY <1>2, <1>8 DEF Lexical!WriteCaptured

(* Nothing that means anything changes. *)
LEMMA NothingMeant ==
    ASSUME CInv, IInv', UNCHANGED <<status, stack, frames, heap, ghosts>>
    PROVE  /\ FramesMeant' = FramesMeant /\ ClosuresMeant' = ClosuresMeant
           /\ StoreMeant' = StoreMeant /\ status' = status /\ CInv'
<1>1. /\ status' = status /\ stack' = stack /\ frames' = frames /\ openUpvalues' = openUpvalues
      /\ upvalues' = upvalues /\ closures' = closures /\ cell' = cell /\ cellOf' = cellOf
      BY DEF heap, ghosts
<1>2. FramesMeant' = FramesMeant BY <1>1 DEF FramesMeant, FrameMeant, FrameEnd, Depth, StackTop
<1>3. ClosuresMeant' = ClosuresMeant BY <1>1 DEF ClosuresMeant, ClosureMeant
<1>4. StoreMeant' = StoreMeant BY <1>1 DEF StoreMeant, ContentOf, CellsMeant
<1>5. CInv' BY <1>1, OwnedSame DEF CInv
<1> QED BY <1>1, <1>2, <1>3, <1>4, <1>5

LEMMA ClosureDoneMeans ==
    ASSUME CInv, ClosureDone
    PROVE  UNCHANGED <<status, FramesMeant, ClosuresMeant, StoreMeant, globals>> /\ CInv'
<1>1. IInv' BY ClosureDoneInv DEF CInv
<1>2. UNCHANGED <<status, stack, frames, heap, ghosts>> /\ globals' = globals BY DEF ClosureDone
<1> QED BY <1>1, <1>2, NothingMeant

LEMMA SetGlobalMeans ==
    ASSUME CInv, NEW g \in Globals, SetGlobal(g)
    PROVE  Lexical!WriteGlobal /\ CInv'
<1>1. /\ Running /\ Temps >= 1 /\ globals' = [globals EXCEPT ![g] = Peek(0)]
      /\ UNCHANGED <<status, stack, frames, heap, ghosts>>
      BY DEF SetGlobal
<1>2. TopIs BY <1>1, RunningTop
<1>3. Lexical!Temps # <<>> /\ Lexical!Peek = Peek(0) BY <1>1, <1>2 DEF TopIs
<1>4. IInv' BY SetGlobalInv DEF CInv
<1>5. /\ FramesMeant' = FramesMeant /\ ClosuresMeant' = ClosuresMeant
      /\ StoreMeant' = StoreMeant /\ status' = status /\ CInv'
      BY <1>1, <1>4, NothingMeant
<1> QED BY <1>1, <1>3, <1>5 DEF Lexical!WriteGlobal

LEMMA DefineGlobalMeans ==
    ASSUME CInv, NEW g \in Globals, DefineGlobal(g)
    PROVE  Lexical!WriteGlobal /\ CInv'
<1>1. /\ Running /\ Temps = 1 /\ globals' = [globals EXCEPT ![g] = Peek(0)]
      /\ Truncate(StackTop - 1) /\ UNCHANGED <<status, frames, heap, capturing, cellOf>>
      BY DEF DefineGlobal
<1>2. TopIs BY <1>1, RunningTop
<1>3. Lexical!Temps # <<>> /\ Lexical!Peek = Peek(0) BY <1>1, <1>2 DEF TopIs
<1>4. IInv' BY DefineGlobalInv DEF CInv
<1>5. UNCHANGED <<status, frames, heap, cellOf>> /\ status' = status /\ Temps >= 1 BY <1>1
<1>6. /\ Lexical!SetTemps(Lexical!Front(Lexical!Temps)) /\ CInv'
      /\ ClosuresMeant' = ClosuresMeant /\ StoreMeant' = StoreMeant
      BY <1>1, <1>4, <1>5, DropMeans
<1> QED BY <1>1, <1>3, <1>5, <1>6 DEF Lexical!WriteGlobal

(* The cells that are free here and there. *)
LEMMA FreeMeans == CInv => Lexical!Free = FreeCells
<1> SUFFICES ASSUME CInv PROVE Lexical!Free = FreeCells OBVIOUS
<1>1. Lexical!InUse(FramesMeant, ClosuresMeant) = CellsMeant BY CellsInUse
<1>2. NoCell \notin Cells BY DataAssumption
<1> QED BY <1>1, <1>2 DEF Lexical!Free, FreeCells, CellsMeant

(* What the compiler sees on top of the stack becomes a variable. *)
LEMMA LocalDeclared ==
    ASSUME CInv, IInv', Running, FreeCells # {}, SetLocals(Top.locals + 1), status' = status,
           UNCHANGED <<openUpvalues, upvalues, cellOf>>,
           Len(stack') = VariablesEnd, cell'[VariablesEnd] = FreeCell,
           \A p \in 1..(VariablesEnd - 1) : cell'[p] = cell[p] /\ stack'[p] = stack[p]
    PROVE  /\ FreeCell \in Lexical!Free
           /\ Lexical!SetTop([Lexical!Top EXCEPT !.locals = Append(@, FreeCell), !.temps = <<>>])
           /\ StoreMeant' = Lexical!With(StoreMeant, FreeCell, stack'[VariablesEnd])
<1>1. IInv /\ TopIs /\ status = "running" /\ frames # <<>> /\ VariablesEnd \in Nat \ {0}
      BY RunningTop
<1>2. FramesOK /\ ValuesOK /\ CellsOK BY <1>1, InvParts
<1>3. FramesOK' /\ ValuesOK' /\ CellsOK' BY DEF IInv
<1> DEFINE c == FreeCell
           k == Top.locals
           e == VariablesEnd
           ls == Lexical!Top.locals
           lt == Append(ls, c)
<1>4. c \in FreeCells BY DEF FreeCell
<1>5. c \in Cells /\ c # NoCell BY <1>2, <1>4, FreeCellsNew
<1>6. c \in Lexical!Free BY <1>4, FreeMeans
<1>7. /\ k \in Nat \ {0} /\ Top.slots \in Nat \ {0} /\ e = Top.slots + k /\ e \in Nat
      /\ Len(stack) \in Nat /\ e - 1 <= Len(stack)
      /\ ls \in Seq(Cells \cup {NoCell}) /\ Len(ls) = k - 1
      /\ \A n \in 1..(k - 1) : ls[n] = cell[Top.slots + n]
      /\ Lexical!Top = [closure |-> Top.closure, locals |-> ls, temps |-> Lexical!Temps]
      BY <1>1, <1>2, Variables DEF TopIs
<1> HIDE DEF c, k, ls
<1>8. /\ Top'.slots = Top.slots /\ Top'.locals = k + 1 /\ Top'.closure = Top.closure
      /\ Len(frames') = Len(frames)
      /\ \A p \in Nat : VariableSlot(p)' <=> \/ VariableSlot(p) /\ p < Top.slots
                                             \/ Top.slots < p /\ p < Top.slots + (k + 1)
  <2>1. k + 1 \in Nat \ {0} BY <1>7
  <2>2. SetLocals(k + 1) BY DEF k
  <2> QED BY <2>1, <2>2, <1>1, <1>2, LocalsSet
<1>9. \A f \in 1..Len(frames) : f < Len(frames) => frames'[f] = frames[f]
  <2>1. frames' = [frames EXCEPT ![Len(frames)].locals = Top.locals + 1] BY DEF SetLocals, Depth
  <2>2. frames \in Seq(Frames) BY <1>2, FrameTypes
  <2>3. Len(frames) \in Nat BY <2>2
  <2> QED BY <2>1, <2>2, <2>3
<1> HIDE DEF e
<1>10. /\ lt \in Seq(Cells \cup {NoCell}) /\ Len(lt) = k /\ lt[k] = c
       /\ \A n \in 1..(k - 1) : lt[n] = ls[n]
  <2>1. /\ lt \in Seq(Cells \cup {NoCell}) /\ Len(lt) = (k - 1) + 1 /\ lt[(k - 1) + 1] = c
        /\ \A n \in 1..(k - 1) : lt[n] = ls[n]
        BY <1>5, <1>7, Appended
  <2>2. (k - 1) + 1 = k BY <1>7
  <2> QED BY <2>1, <2>2
<1> HIDE DEF lt
<1>11. \A n \in 1..(Top'.locals - 1) : lt[n] = cell'[Top.slots + n]
  <2> TAKE n \in 1..(Top'.locals - 1)
  <2>1. n \in 1..k BY <1>7, <1>8
  <2>2. CASE n = k BY <2>2, <1>7, <1>10 DEF e, c
  <2>3. CASE n # k
    <3>1. n \in 1..(k - 1) BY <2>1, <2>3, <1>7
    <3>2. PICK a \in Nat \ {0} : a = Top.slots /\ e = a + k /\ k \in Nat BY <1>7
    <3>3. a + n \in 1..((a + k) - 1) BY <3>1, <3>2
    <3>4. Top.slots + n \in 1..(VariablesEnd - 1) BY <3>2, <3>3 DEF e
    <3> QED BY <3>1, <3>4, <1>7, <1>10
  <2> QED BY <2>2, <2>3
<1>12. Lexical!SetTop([closure |-> Top.closure, locals |-> lt, temps |-> <<>>])
  <2>0. \A p \in 1..(Top.slots - 1) : p \in 1..(VariablesEnd - 1)
    <3>1. PICK a \in Nat \ {0} : a = Top.slots /\ e = a + k /\ k \in Nat BY <1>7
    <3>2. \A p \in 1..(a - 1) : p \in 1..((a + k) - 1) BY <3>1
    <3> QED BY <3>1, <3>2 DEF e
  <2>1. \A p \in 1..(Top.slots - 1) : cell'[p] = cell[p] BY <2>0
  <2>2. \A p \in 1..(Top.slots - 1) : VariableSlot(p) \/ stack'[p] = stack[p] BY <2>0
  <2> DEFINE ts == <<>>
  <2>3. ts \in Seq(Cells) /\ Len(ts) = 0 OBVIOUS
  <2>4. Len(stack') + 1 - (Top.slots + Top'.locals) = 0 BY <1>7, <1>8 DEF e
  <2>5. Len(lt) = Top'.locals - 1 BY <1>7, <1>8, <1>10
  <2>6. \A n \in 1..Len(ts) : ts[n] = stack'[Top.slots + Top'.locals + n - 1] BY <2>3
  <2> HIDE DEF ts
  <2>7. Lexical!SetTop([closure |-> Top.closure, locals |-> lt, temps |-> ts])
        BY <1>1, <1>8, <1>9, <1>10, <1>11, <2>1, <2>2, <2>3, <2>4, <2>5, <2>6, TopBecomes
  <2> QED BY <2>7 DEF ts
<1>13. [Lexical!Top EXCEPT !.locals = Append(@, c), !.temps = <<>>]
         = [closure |-> Top.closure, locals |-> lt, temps |-> <<>>]
  <2> DEFINE r == Lexical!Top
             t == Lexical!Temps
             l == Top.closure
  <2>1. r = [closure |-> l, locals |-> ls, temps |-> t] BY <1>7
  <2> HIDE DEF r, t, l
  <2>2. [r EXCEPT !.locals = Append(@, c), !.temps = <<>>]
          = [closure |-> l, locals |-> lt, temps |-> <<>>]
    <3>1. r.locals = ls BY ONLY <2>1
    <3> DEFINE q == [closure |-> l, locals |-> lt, temps |-> t]
    <3>2. [r EXCEPT !.locals = lt] = q BY ONLY <2>1
    <3>3. [q EXCEPT !.temps = <<>>] = [closure |-> l, locals |-> lt, temps |-> <<>>] OBVIOUS
    <3> HIDE DEF q
    <3>4. Append(r.locals, c) = lt BY <3>1 DEF lt
    <3> QED BY ONLY <3>2, <3>3, <3>4
  <2> QED BY <2>2 DEF r, l
<1>14. StoreMeant' = Lexical!With(StoreMeant, cell'[e], stack'[e])
  <2>1. /\ Len(cell) = Len(stack) /\ Len(cell') = Len(stack') /\ Len(stack') = e
        BY <1>2, <1>3 DEF CellsOK, e
  <2>2. e \in 1..Len(cell') /\ cell'[e] # NoCell BY <1>5, <1>7, <2>1 DEF e, c
  <2>3. ASSUME NEW p \in 1..Len(cell'), p # e
        PROVE  p \in 1..Len(cell) /\ cell'[p] = cell[p] /\ stack'[p] = stack[p]
    <3>1. p \in 1..(e - 1) BY <2>1, <2>3, <1>7
    <3> QED BY <3>1, <2>1, <1>7 DEF e
  <2>4. ASSUME NEW p \in 1..Len(cell), cell[p] # NoCell
        PROVE  p \in 1..Len(cell') /\ cell'[p] = cell[p]
    <3>1. VariableSlot(p) BY <2>4, <1>2 DEF CellsOK
    <3>2. p \in Nat BY <2>1, <1>7
    <3>3. p < e BY <3>1, <3>2, <1>2, Variables DEF e
    <3>4. p \in 1..(e - 1) BY <3>2, <3>3, <1>7, <2>1
    <3> QED BY <3>4, <2>1, <1>7 DEF e
  <2>5. status # "failed" /\ status' # "failed" BY <1>1
  <2>6. \A u \in 1..Len(cellOf) : upvalues'[u].value = upvalues[u].value OBVIOUS
  <2>7. cellOf' = cellOf OBVIOUS
  <2> QED BY <2>2, <2>3, <2>4, <2>5, <2>6, <2>7, <1>1, StoreWith
<1> QED BY <1>6, <1>12, <1>13, <1>14 DEF c, e

LEMMA DeclareMeans ==
    ASSUME CInv, Declare
    PROVE  Lexical!Declare /\ CInv'
<1>1. /\ Running /\ Temps = 1 /\ FreeCells # {} /\ SetLocals(Top.locals + 1)
      /\ cell' = [cell EXCEPT ![Len(stack)] = FreeCell]
      /\ status' = status /\ stack' = stack /\ closures' = closures /\ globals' = globals
      /\ openUpvalues' = openUpvalues /\ upvalues' = upvalues /\ cellOf' = cellOf
      BY DEF Declare, heap, StackTop
<1>2. IInv /\ Owned /\ TopIs /\ VariablesEnd \in Nat \ {0} BY <1>1, RunningTop
<1>3. IInv' BY <1>2, DeclareInv
<1>4. CellsOK /\ ValuesOK BY <1>2, InvParts
<1>5. /\ Len(Lexical!Temps) = 1 /\ Lexical!Peek = Peek(0) /\ Len(stack) \in Nat
      /\ Len(stack) = VariablesEnd
  <2>1. /\ Len(Lexical!Temps) = Temps /\ (Temps >= 1 => Lexical!Peek = Peek(0))
        /\ Len(stack) \in Nat /\ Temps = Len(stack) + 1 - VariablesEnd
        BY <1>2 DEF TopIs
  <2> QED BY <2>1, <1>1, <1>2
<1>6. Len(cell) = Len(stack) /\ cell \in Seq(Cells \cup {NoCell}) BY <1>4 DEF CellsOK
<1>7. cell'[VariablesEnd] = FreeCell
  <2>1. Len(stack) \in DOMAIN cell BY <1>2, <1>5, <1>6
  <2> QED BY <2>1, <1>1, <1>5
<1>8. \A p \in 1..(VariablesEnd - 1) : cell'[p] = cell[p] /\ stack'[p] = stack[p]
  <2> TAKE p \in 1..(VariablesEnd - 1)
  <2>1. p # Len(stack) /\ p \in DOMAIN cell BY <1>2, <1>5, <1>6
  <2> QED BY <2>1, <1>1
<1>9. Len(stack') = VariablesEnd BY <1>1, <1>5
<1>10. /\ FreeCell \in Lexical!Free
       /\ Lexical!SetTop([Lexical!Top EXCEPT !.locals = Append(@, FreeCell), !.temps = <<>>])
       /\ StoreMeant' = Lexical!With(StoreMeant, FreeCell, stack'[VariablesEnd])
       BY <1>1, <1>3, <1>7, <1>8, <1>9, LocalDeclared
<1>11. stack'[VariablesEnd] = Lexical!Peek
  <2>1. Peek(0) = stack[Len(stack)] BY <1>5 DEF Peek, StackTop
  <2> QED BY <2>1, <1>1, <1>5
<1>12. ClosuresMeant' = ClosuresMeant BY <1>1, <1>2, ClosuresSame
<1>13. CInv' BY <1>1, <1>2, <1>3, OwnedSame DEF CInv
<1> QED BY <1>1, <1>5, <1>10, <1>11, <1>12, <1>13 DEF Lexical!Declare

(* Variables leave the stack: the ones that are captured take their contents with *)
(* them, and the abstract machine forgets the others.                             *)
LEMMA VariablesLeave ==
    ASSUME CInv, IInv', status # "failed", status' # "failed", NEW last \in Nat,
           closures' = closures, cellOf' = cellOf, Len(upvalues') = Len(upvalues),
           \A p \in 1..Len(cell') : cell'[p] # NoCell =>
               p \in 1..Len(cell) /\ cell'[p] = cell[p] /\ stack'[p] = stack[p],
           \A p \in 1..Len(cell) : cell[p] # NoCell /\ p < last =>
               p \in 1..Len(cell') /\ cell'[p] = cell[p],
           \A u \in 1..Len(upvalues) :
               upvalues'[u].value = IF OnList(u) /\ upvalues[u].location >= last
                                      THEN stack[upvalues[u].location] ELSE upvalues[u].value
    PROVE  CInv' /\ StoreMeant' = Lexical!Keep(StoreMeant) /\ ClosuresMeant' = ClosuresMeant
<1>1. IInv /\ Owned BY DEF CInv
<1>2. FramesOK /\ ValuesOK /\ CellsOK /\ ListOK /\ OwnersOK BY <1>1, InvParts
<1>3. /\ Len(cell) = Len(stack) /\ Len(stack) \in Nat /\ Len(cellOf) = Len(upvalues)
      /\ \A v \in 1..Len(cellOf) : cellOf[v] # NoCell
      BY <1>2, CellTypes
<1>4. CInv' BY <1>1, OwnedSame DEF CInv
<1>5. ClosuresMeant' = ClosuresMeant BY <1>1, ClosuresSame
<1>6. ASSUME NEW u \in 1..Len(cellOf'), ~InSlot(cellOf[u])'
      PROVE  /\ u \in 1..Len(cellOf) /\ cellOf'[u] = cellOf[u]
             /\ upvalues'[u].value = StoreMeant[cellOf[u]]
  <2>1. u \in 1..Len(cellOf) /\ u \in 1..Len(upvalues) /\ cellOf[u] # NoCell BY <1>3
  <2>2. CASE InSlot(cellOf[u])
    <3>1. PICK p \in 1..Len(cell) : cellOf[u] = cell[p] BY <2>2 DEF InSlot
    <3>2. OnList(u) BY <3>1, <2>1, <1>2 DEF OwnersOK
    <3> DEFINE l == upvalues[u].location
    <3>3. l \in Nat /\ l >= 2 /\ l <= Len(stack) /\ cell[l] = cellOf[u]
          BY <3>2, <1>2, OnListTypes
    <3>4. upvalues'[u].value = IF l >= last THEN stack[l] ELSE upvalues[u].value BY <3>2, <2>1
    <3> HIDE DEF l
    <3>5. l \in 1..Len(cell) BY <3>3, <1>3
    <3>6. l >= last
      <4>1. ASSUME l < last PROVE FALSE
        <5>1. l \in 1..Len(cell') /\ cell'[l] = cell[l] BY <4>1, <3>3, <3>5, <2>1
        <5> QED BY <5>1, <3>3, <1>6 DEF InSlot
      <4> QED BY <4>1, <3>3
    <3>7. StoreMeant[cell[l]] = stack[l] BY <3>3, <3>5, <2>1, <1>1, StoreAt
    <3> QED BY <3>3, <3>4, <3>6, <3>7, <2>1
  <2>3. CASE ~InSlot(cellOf[u])
    <3>1. ASSUME OnList(u) PROVE FALSE
      <4> DEFINE l == upvalues[u].location
      <4>1. l \in Nat /\ l >= 2 /\ l <= Len(stack) /\ cell[l] = cellOf[u]
            BY <3>1, <1>2, OnListTypes
      <4> HIDE DEF l
      <4>2. l \in 1..Len(cell) BY <4>1, <1>3
      <4> QED BY <4>1, <4>2, <2>3 DEF InSlot
    <3>2. upvalues'[u].value = upvalues[u].value BY <3>1, <2>1
    <3>3. StoreMeant[cellOf[u]] = upvalues[u].value BY <2>1, <2>3, <1>1, StoreAt
    <3> QED BY <3>2, <3>3, <2>1
  <2> QED BY <2>2, <2>3
<1>7. /\ CellsMeant' \subseteq CellsMeant
      /\ StoreMeant' = [c \in CellsMeant' |-> StoreMeant[c]]
      BY <1>1, <1>6, StoreLess
<1>8. StoreMeant' = Lexical!Keep(StoreMeant) BY <1>4, <1>7, StoreKept
<1> QED BY <1>4, <1>5, <1>8

LEMMA ScopeEndMeans ==
    ASSUME CInv, IInv', EndScope, Len(upvalues') = Len(upvalues),
           \A u \in 1..Len(upvalues) :
               upvalues'[u].value = IF OnList(u) /\ upvalues[u].location >= Len(stack)
                                      THEN stack[upvalues[u].location] ELSE upvalues[u].value
    PROVE  Lexical!EndScope /\ CInv'
<1>1. /\ Running /\ Temps = 0 /\ SetLocals(Top.locals - 1)
      /\ stack' = SubSeq(stack, 1, Len(stack) - 1) /\ cell' = SubSeq(cell, 1, Len(stack) - 1)
      /\ status' = status /\ closures' = closures /\ globals' = globals /\ cellOf' = cellOf
      BY DEF EndScope, Truncate, StackTop
<1>2. IInv /\ TopIs /\ status = "running" /\ frames # <<>> /\ VariablesEnd \in Nat \ {0}
      BY <1>1, RunningTop
<1>3. FramesOK /\ ValuesOK /\ CellsOK BY <1>2, InvParts
<1> DEFINE k == Top.locals
           e == VariablesEnd
           ls == Lexical!Top.locals
           lf == SubSeq(ls, 1, k - 2)
<1>4. /\ k \in Nat \ {0} /\ Top.slots \in Nat \ {0} /\ e = Top.slots + k /\ e \in Nat
      /\ Len(stack) \in Nat /\ e = Len(stack) + 1 /\ Len(cell) = Len(stack)
      /\ ls \in Seq(Cells \cup {NoCell}) /\ Len(ls) = k - 1
      /\ \A n \in 1..(k - 1) : ls[n] = cell[Top.slots + n]
  <2>1. Len(cell) = Len(stack) BY <1>3, CellTypes
  <2> QED BY <2>1, <1>1, <1>2 DEF TopIs
<1>5. Lexical!Top = [closure |-> Top.closure, locals |-> ls, temps |-> Lexical!Temps]
      /\ Lexical!Temps \in Seq(Existing \cup {Script}) /\ Len(Lexical!Temps) = 0
      BY <1>1, <1>2 DEF TopIs
<1>6. k >= 2
  <2>1. k > 1 + (IF Top.closure = Script THEN 0 ELSE closures[Top.closure].arity)
        BY DEF EndScope
  <2>2. CASE Top.closure = Script BY <2>1, <2>2, <1>4
  <2>3. CASE Top.closure # Script
    <3>1. Top \in Frames BY <1>2, <1>3, TopFrame
    <3>2. Top.closure \in 1..Len(closures) BY <3>1, <2>3, <1>3, ClosureTypes DEF Frames
    <3>3. closures[Top.closure].arity \in Nat BY <3>2, <1>3, ClosureTypes
    <3> QED BY <2>1, <2>3, <3>3, <1>4
  <2> QED BY <2>2, <2>3
<1>7. Lexical!Temps = <<>> BY <1>5
<1> HIDE DEF ls
<1>8. Lexical!Front(ls) = lf /\ ls # <<>>
  <2>1. Len(ls) - 1 = k - 2 BY <1>4
  <2> QED BY <2>1, <1>4, <1>6 DEF Lexical!Front
<1> HIDE DEF k
<1>9. k - 2 \in 0..Len(ls) /\ Len(stack) - 1 \in 0..Len(stack) BY <1>4, <1>6
<1>10. /\ lf \in Seq(Cells \cup {NoCell}) /\ Len(lf) = k - 2
       /\ \A n \in 1..(k - 2) : lf[n] = ls[n]
       BY <1>4, <1>9, Prefix
<1> HIDE DEF lf
<1>11. /\ Len(stack') = Len(stack) - 1 /\ Len(cell') = Len(stack) - 1
       /\ \A p \in 1..(Len(stack) - 1) : stack'[p] = stack[p] /\ cell'[p] = cell[p]
  <2>1. stack \in Seq(Existing \cup {Script}) /\ cell \in Seq(Cells \cup {NoCell})
        BY <1>3 DEF ValuesOK, CellsOK
  <2> DEFINE m == Len(stack) - 1
  <2>2. /\ m \in 0..Len(stack) /\ m \in 0..Len(cell)
        /\ stack' = SubSeq(stack, 1, m) /\ cell' = SubSeq(cell, 1, m)
        BY <1>1, <1>4, <1>9
  <2> HIDE DEF m
  <2>3. Len(stack') = m /\ \A p \in 1..m : stack'[p] = stack[p] BY ONLY <2>1, <2>2, Prefix
  <2>4. Len(cell') = m /\ \A p \in 1..m : cell'[p] = cell[p] BY ONLY <2>1, <2>2, Prefix
  <2> QED BY <2>3, <2>4 DEF m
<1>12. /\ Top'.slots = Top.slots /\ Top'.locals = k - 1 /\ Top'.closure = Top.closure
       /\ Len(frames') = Len(frames)
  <2>1. k - 1 \in Nat \ {0} BY <1>4, <1>6
  <2>2. SetLocals(k - 1) BY <1>1 DEF k
  <2> QED BY <2>1, <2>2, <1>2, <1>3, LocalsSet
<1>13. \A f \in 1..Len(frames) : f < Len(frames) => frames'[f] = frames[f]
  <2>1. frames' = [frames EXCEPT ![Len(frames)].locals = Top.locals - 1]
        BY <1>1 DEF SetLocals, Depth
  <2>2. frames \in Seq(Frames) BY <1>3, FrameTypes
  <2>3. Len(frames) \in Nat BY <2>2
  <2> QED BY <2>1, <2>2, <2>3
<1> HIDE DEF e
<1>14. \A n \in 1..(Top'.locals - 1) : lf[n] = cell'[Top.slots + n]
  <2> TAKE n \in 1..(Top'.locals - 1)
  <2>1. n \in 1..(k - 2) /\ n \in 1..(k - 1) BY <1>4, <1>6, <1>12
  <2>2. Top.slots + n \in 1..(Len(stack) - 1) BY <2>1, <1>4
  <2> QED BY <2>1, <2>2, <1>4, <1>10, <1>11
<1>15. Lexical!SetTop([closure |-> Top.closure, locals |-> lf, temps |-> <<>>])
  <2>1. \A p \in 1..(Top.slots - 1) : p \in 1..(Len(stack) - 1)
    <3>1. Top.slots \in Nat /\ k \in Nat /\ Len(stack) \in Nat /\ Top.slots + k = Len(stack) + 1
          BY <1>4
    <3> QED BY ONLY <3>1, <1>6
  <2>2. \A p \in 1..(Top.slots - 1) : cell'[p] = cell[p] BY <2>1, <1>11
  <2>3. \A p \in 1..(Top.slots - 1) : VariableSlot(p) \/ stack'[p] = stack[p] BY <2>1, <1>11
  <2> DEFINE ts == <<>>
  <2>4. ts \in Seq(Cells) /\ Len(ts) = 0 OBVIOUS
  <2>5. Len(stack') + 1 - (Top.slots + Top'.locals) = 0
    <3>1. Top.slots \in Nat /\ k \in Nat /\ Len(stack) \in Nat /\ Top.slots + k = Len(stack) + 1
          BY <1>4
    <3>2. Len(stack') = Len(stack) - 1 /\ Top'.locals = k - 1 BY <1>11, <1>12
    <3> QED BY ONLY <3>1, <3>2
  <2>6. Len(lf) = Top'.locals - 1 BY <1>4, <1>6, <1>12, <1>10
  <2>7. \A n \in 1..Len(ts) : ts[n] = stack'[Top.slots + Top'.locals + n - 1] BY <2>4
  <2> HIDE DEF ts
  <2>8. Lexical!SetTop([closure |-> Top.closure, locals |-> lf, temps |-> ts])
        BY <1>2, <1>12, <1>13, <1>10, <1>14, <2>2, <2>3, <2>4, <2>5, <2>6, <2>7, TopBecomes
  <2> QED BY <2>8 DEF ts
<1>16. [Lexical!Top EXCEPT !.locals = Lexical!Front(@)]
         = [closure |-> Top.closure, locals |-> lf, temps |-> <<>>]
  <2> DEFINE r == Lexical!Top
             l == Top.closure
  <2>1. r = [closure |-> l, locals |-> ls, temps |-> <<>>] BY <1>5, <1>7
  <2> HIDE DEF r, l
  <2>2. r.locals = ls BY ONLY <2>1
  <2>3. Lexical!Front(r.locals) = lf BY <2>2, <1>8
  <2>4. [r EXCEPT !.locals = lf] = [closure |-> l, locals |-> lf, temps |-> <<>>] BY ONLY <2>1
  <2> QED BY <2>3, <2>4 DEF r, l
<1>17. Lexical!Top.locals # <<>> BY <1>8 DEF ls
<1>18. CInv' /\ StoreMeant' = Lexical!Keep(StoreMeant) /\ ClosuresMeant' = ClosuresMeant
  <2>1. \A p \in 1..Len(cell') : cell'[p] # NoCell =>
            p \in 1..Len(cell) /\ cell'[p] = cell[p] /\ stack'[p] = stack[p]
        BY <1>4, <1>11
  <2>2. \A p \in 1..Len(cell) : cell[p] # NoCell /\ p < Len(stack) =>
            p \in 1..Len(cell') /\ cell'[p] = cell[p]
    <3>1. Len(stack) \in Nat /\ Len(cell) = Len(stack) BY <1>4
    <3> QED BY ONLY <3>1, <1>11
  <2>3. status # "failed" /\ status' # "failed" BY <1>1, <1>2
  <2> QED BY <2>1, <2>2, <2>3, <1>1, <1>4, VariablesLeave
<1> QED BY <1>1, <1>7, <1>15, <1>16, <1>17, <1>18 DEF Lexical!EndScope

LEMMA PopLocalMeans ==
    ASSUME CInv, PopLocal
    PROVE  Lexical!EndScope /\ CInv'
<1>1. /\ EndScope /\ upvalues' = upvalues
      /\ \A u \in ToSet(openUpvalues) : upvalues[u].location # Len(stack)
      BY DEF PopLocal, StackTop
<1>2. IInv BY DEF CInv
<1>3. IInv' BY <1>2, PopLocalInv
<1>4. FramesOK /\ ValuesOK /\ ListOK BY <1>2, InvParts
<1>5. Len(stack) \in Nat BY <1>4 DEF ValuesOK
<1>6. ASSUME NEW u \in 1..Len(upvalues), OnList(u), upvalues[u].location >= Len(stack)
      PROVE  FALSE
  <2>1. upvalues[u].location \in Nat /\ upvalues[u].location <= Len(stack)
        BY <1>6, <1>4, OnListTypes
  <2>2. u \in ToSet(openUpvalues) BY <1>6, <1>4, Elements DEF OnList, ListOK
  <2> QED BY <2>1, <2>2, <1>1, <1>5, <1>6
<1>7. \A u \in 1..Len(upvalues) :
          upvalues'[u].value = IF OnList(u) /\ upvalues[u].location >= Len(stack)
                                 THEN stack[upvalues[u].location] ELSE upvalues[u].value
      BY <1>1, <1>6
<1> QED BY <1>1, <1>3, <1>7, ScopeEndMeans

LEMMA CloseUpvalueMeans ==
    ASSUME CInv, CloseUpvalue
    PROVE  Lexical!EndScope /\ CInv'
<1>1. EndScope /\ CloseUpvalues(Len(stack)) /\ closures' = closures /\ Running
      BY DEF CloseUpvalue, StackTop, EndScope
<1>2. IInv /\ VariablesEnd \in Nat \ {0} /\ TopIs BY <1>1, RunningTop
<1>3. IInv' BY <1>2, CloseUpvalueInv
<1>4. FramesOK /\ ValuesOK /\ ListOK BY <1>2, InvParts
<1>5. Len(stack) \in Nat \ {0}
  <2>1. Len(stack) \in Nat /\ VariablesEnd >= 2 /\ VariablesEnd <= Len(stack) + 1
        BY <1>1, <1>2, RunningFacts
  <2> QED BY <2>1, <1>2
<1>6. /\ Cut(Len(stack))
      /\ \A u \in 1..Len(upvalues) :
           upvalues'[u] = IF OnList(u) /\ upvalues[u].location >= Len(stack)
                            THEN [location |-> 0, value |-> stack[upvalues[u].location]]
                            ELSE upvalues[u]
      BY <1>1, <1>4, <1>5, Closed
<1>7. Len(upvalues') = Len(upvalues) BY <1>6 DEF Cut
<1>8. \A u \in 1..Len(upvalues) :
          upvalues'[u].value = IF OnList(u) /\ upvalues[u].location >= Len(stack)
                                 THEN stack[upvalues[u].location] ELSE upvalues[u].value
  <2> TAKE u \in 1..Len(upvalues)
  <2>1. CASE OnList(u) /\ upvalues[u].location >= Len(stack)
    <3>1. upvalues'[u] = [location |-> 0, value |-> stack[upvalues[u].location]] BY <2>1, <1>6
    <3> QED BY <2>1, <3>1
  <2>2. CASE ~(OnList(u) /\ upvalues[u].location >= Len(stack)) BY <2>2, <1>6
  <2> QED BY <2>1, <2>2
<1> QED BY <1>1, <1>3, <1>7, <1>8, ScopeEndMeans

(* OP_CLOSURE creates a closure that has captured nothing yet. *)
LEMMA ClosureCreated ==
    ASSUME IInv, IInv', NEW a, closures' = Append(closures, [arity |-> a, upvalues |-> <<>>]),
           cellOf' = cellOf
    PROVE  ClosuresMeant' = Append(ClosuresMeant, [arity |-> a, cells |-> <<>>])
<1>1. ValuesOK /\ ValuesOK' BY DEF IInv
<1>2. closures \in Seq(ClosureRecords(DOMAIN upvalues)) /\ Len(closures) \in Nat
      /\ DOMAIN closures = 1..Len(closures)
      BY <1>1, ClosureTypes
<1>0. PICK k \in Nat : k = Len(closures) BY <1>2
<1> DEFINE r == [arity |-> a, upvalues |-> <<>>]
           S == ClosureRecords(DOMAIN upvalues) \cup {r}
<1>3. closures \in Seq(S) /\ r \in S BY <1>2
<1>4. closures' = Append(closures, r) OBVIOUS
<1>5. r.arity = a /\ r.upvalues = <<>> OBVIOUS
<1> HIDE DEF r, S
<1>6. /\ closures' \in Seq(S) /\ Len(closures') = k + 1 /\ closures'[k + 1] = r
      /\ \A i \in 1..k : closures'[i] = closures[i]
      BY <1>0, <1>3, <1>4, Appended
<1>7. \A i \in 1..k : ClosureMeant(i)' = ClosureMeant(i) BY <1>6 DEF ClosureMeant
<1>8. ClosureMeant(k + 1)' = [arity |-> a, cells |-> <<>>]
  <2>1. closures'[k + 1].upvalues = <<>> /\ closures'[k + 1].arity = a BY <1>5, <1>6
  <2>2. DOMAIN closures'[k + 1].upvalues = 1..0
    <3> DEFINE z == closures'[k + 1].upvalues
    <3>1. z = <<>> BY <2>1
    <3> HIDE DEF z
    <3>2. z \in Seq(Nat) /\ Len(z) = 0 BY <3>1
    <3>3. DOMAIN z = 1..0 BY <3>2
    <3> QED BY <3>3 DEF z
  <2> DEFINE cs == [n \in DOMAIN closures'[k + 1].upvalues |-> cellOf'[closures'[k + 1].upvalues[n]]]
  <2>3. cs = <<>>
    <3> DEFINE e(n) == cellOf'[closures'[k + 1].upvalues[n]]
    <3>1. cs = [n \in 1..0 |-> e(n)] BY <2>2
    <3>2. 1..0 = {} OBVIOUS
    <3> HIDE DEF cs, e
    <3>3. DOMAIN cs = 1..0 /\ \A n \in 1..0 : cs[n] \in Nat BY <3>1, <3>2
    <3>4. cs = [n \in 1..0 |-> cs[n]] BY <3>1
    <3>5. cs \in Seq(Nat) /\ Len(cs) = 0 BY <3>3, <3>4
    <3> QED BY <3>5, Empty
  <2>4. ClosureMeant(k + 1)' = [arity |-> closures'[k + 1].arity, cells |-> cs] BY DEF ClosureMeant
  <2> QED BY <2>1, <2>3, <2>4
<1>9. DOMAIN closures' = 1..(k + 1) BY <1>6
<1> DEFINE m == [arity |-> a, cells |-> <<>>]
           M == {ClosureMeant(i) : i \in 1..k} \cup {m}
           s == ClosuresMeant
           t == ClosuresMeant'
<1>10. s = [i \in 1..k |-> ClosureMeant(i)] BY <1>0, <1>2 DEF ClosuresMeant
<1>11. t = [i \in 1..(k + 1) |-> ClosureMeant(i)'] BY <1>9 DEF ClosuresMeant
<1>12. k \in Nat BY <1>2
<1>121. ClosureMeant(k + 1)' = m BY <1>8
<1> HIDE DEF s, t, m
<1>13. s \in Seq(M) /\ Len(s) = k /\ \A i \in 1..k : s[i] = ClosureMeant(i) BY <1>10, <1>12
<1>14. m \in M OBVIOUS
<1>15. t \in Seq(M) /\ Len(t) = k + 1
  <2>1. \A i \in 1..(k + 1) : ClosureMeant(i)' \in M
    <3> TAKE i \in 1..(k + 1)
    <3>1. CASE i = k + 1 BY <3>1, <1>14, <1>121
    <3>2. CASE i # k + 1
      <4>1. i \in 1..k BY <3>2, <1>12
      <4>2. ClosureMeant(i) \in M BY <4>1
      <4> HIDE DEF M
      <4> QED BY <4>1, <4>2, <1>7
    <3> QED BY <3>1, <3>2
  <2> HIDE DEF M
  <2> QED BY <2>1, <1>11, <1>12
<1>16. \A i \in 1..(k + 1) : t[i] = ClosureMeant(i)' BY <1>11
<1> HIDE DEF M
<1>17. /\ Append(s, m) \in Seq(M) /\ Len(Append(s, m)) = k + 1 /\ Append(s, m)[k + 1] = m
       /\ \A i \in 1..k : Append(s, m)[i] = s[i]
       BY <1>13, <1>14, Appended
<1>18. \A i \in 1..(k + 1) : t[i] = Append(s, m)[i]
  <2> TAKE i \in 1..(k + 1)
  <2>1. CASE i = k + 1 BY <2>1, <1>121, <1>16, <1>17, <1>12
  <2>2. CASE i # k + 1
    <3>1. i \in 1..k BY <2>2, <1>12
    <3> QED BY <3>1, <1>7, <1>13, <1>16, <1>17
  <2> QED BY <2>1, <2>2
<1> DEFINE w == Append(s, m)
<1>19. w \in Seq(M) /\ Len(t) = Len(w) /\ \A i \in 1..Len(t) : t[i] = w[i] BY <1>15, <1>17, <1>18
<1> HIDE DEF w
<1>20. t = w BY <1>15, <1>19, SameSequence
<1> QED BY <1>20 DEF w, s, t, m

LEMMA OwnedMore ==
    ASSUME IInv, Owned, NEW r, closures' = Append(closures, r), Len(upvalues') = Len(upvalues)
    PROVE  Owned'
<1>1. closures \in Seq(ClosureRecords(DOMAIN upvalues)) /\ Len(closures) \in Nat
      BY InvParts, ClosureTypes
<1> DEFINE S == ClosureRecords(DOMAIN upvalues) \cup {r}
<1>2. closures \in Seq(S) /\ r \in S BY <1>1
<1> HIDE DEF S
<1>3. /\ Len(closures') = Len(closures) + 1
      /\ \A i \in 1..Len(closures) : closures'[i] = closures[i]
      BY <1>2, Appended
<1>4. SUFFICES ASSUME NEW u \in 1..Len(upvalues)
               PROVE  \E c \in 1..Len(closures') :
                          \E n \in 1..Len(closures'[c].upvalues) : closures'[c].upvalues[n] = u
      BY DEF Owned
<1>5. PICK c \in 1..Len(closures) :
          \E n \in 1..Len(closures[c].upvalues) : closures[c].upvalues[n] = u
      BY <1>4 DEF Owned
<1>6. closures'[c] = closures[c] /\ c \in 1..Len(closures') BY <1>1, <1>3, <1>5
<1> QED BY <1>5, <1>6

LEMMA ClosureMeans ==
    ASSUME CInv, NEW a \in 0..MaxArity, NEW named \in BOOLEAN, Closure(a, named)
    PROVE  Lexical!Closure(a, named) /\ CInv'
<1>1. /\ Running /\ Len(closures) < MaxClosures
      /\ closures' = Append(closures, [arity |-> a, upvalues |-> <<>>])
      /\ stack' = Append(stack, Len(closures) + 1)
      /\ IF named
           THEN /\ Temps = 0 /\ FreeCells # {} /\ SetLocals(Top.locals + 1)
                /\ cell' = Append(cell, FreeCell)
           ELSE cell' = Append(cell, NoCell) /\ frames' = frames
      /\ status' = status /\ openUpvalues' = openUpvalues /\ upvalues' = upvalues
      /\ globals' = globals /\ cellOf' = cellOf
      BY DEF Closure
<1>2. IInv /\ Owned /\ TopIs /\ VariablesEnd \in Nat \ {0} BY <1>1, RunningTop
<1>3. IInv' BY <1>2, ClosureInv
<1>4. CInv' BY <1>1, <1>2, <1>3, OwnedMore DEF CInv
<1>5. ClosuresMeant' = Append(ClosuresMeant, [arity |-> a, cells |-> <<>>])
      BY <1>1, <1>2, <1>3, ClosureCreated
<1>6. Len(ClosuresMeant) = Len(closures) /\ Len(closures) \in Nat BY <1>2, MeantClosures
<1> DEFINE v == Len(closures) + 1
<1>7. CASE named
  <2>1. CellsOK /\ ValuesOK BY <1>2, InvParts
  <2>2. Len(Lexical!Temps) = 0 /\ Lexical!Temps \in Seq(Existing \cup {Script})
        /\ Len(stack) \in Nat /\ VariablesEnd = Len(stack) + 1
    <3>1. /\ Len(Lexical!Temps) = Temps /\ Lexical!Temps \in Seq(Existing \cup {Script})
          /\ Len(stack) \in Nat /\ Temps = Len(stack) + 1 - VariablesEnd
          BY <1>2 DEF TopIs
    <3>2. Temps = 0 BY <1>1, <1>7
    <3> QED BY <3>1, <3>2, <1>2
  <2>3. Lexical!Temps = <<>> BY <2>2
  <2>4. FreeCell \in Cells BY <1>1, <1>7, <2>1, FreeCellsNew DEF FreeCell
  <2>5. Len(cell) = Len(stack) BY <2>1, CellTypes
  <2>6. /\ Len(stack') = Len(stack) + 1 /\ stack'[Len(stack) + 1] = v
        /\ \A p \in 1..Len(stack) : stack'[p] = stack[p]
    <3> DEFINE T == Existing \cup {Script, v}
    <3>1. Existing \cup {Script} \subseteq T /\ v \in T OBVIOUS
    <3>2. stack \in Seq(Existing \cup {Script}) BY <2>1 DEF ValuesOK
    <3> HIDE DEF T
    <3>3. stack \in Seq(T) BY <3>1, <3>2
    <3>4. stack' = Append(stack, v) BY <1>1
    <3> HIDE DEF v
    <3> QED BY <3>1, <3>3, <3>4, Appended
  <2>7. /\ cell'[Len(stack) + 1] = FreeCell
        /\ \A p \in 1..Len(stack) : cell'[p] = cell[p]
    <3>1. cell \in Seq(Cells \cup {NoCell}) BY <2>1 DEF CellsOK
    <3>2. cell' = Append(cell, FreeCell) BY <1>1, <1>7
    <3> QED BY <3>1, <3>2, <2>4, <2>5, Appended
  <2>8. Len(stack') = VariablesEnd /\ cell'[VariablesEnd] = FreeCell BY <2>2, <2>6, <2>7
  <2>9. \A p \in 1..(VariablesEnd - 1) : cell'[p] = cell[p] /\ stack'[p] = stack[p]
        BY <2>2, <2>6, <2>7
  <2>10. /\ FreeCell \in Lexical!Free
         /\ Lexical!SetTop([Lexical!Top EXCEPT !.locals = Append(@, FreeCell), !.temps = <<>>])
         /\ StoreMeant' = Lexical!With(StoreMeant, FreeCell, stack'[VariablesEnd])
         BY <1>1, <1>3, <1>7, <2>8, <2>9, LocalDeclared
  <2>11. stack'[VariablesEnd] = v BY <2>2, <2>6
  <2>12. [Lexical!Top EXCEPT !.locals = Append(@, FreeCell), !.temps = <<>>]
           = [Lexical!Top EXCEPT !.locals = Append(@, FreeCell)]
    <3> DEFINE q == Lexical!Top
               l == Top.closure
               ls == Lexical!Top.locals
    <3>1. Lexical!Top = [closure |-> Top.closure, locals |-> Lexical!Top.locals,
                         temps |-> Lexical!Temps]
          BY <1>2 DEF TopIs
    <3>2. q = [closure |-> l, locals |-> ls, temps |-> <<>>] BY <2>3, <3>1
    <3> HIDE DEF q, l, ls
    <3> DEFINE x == Append(q.locals, FreeCell)
    <3> HIDE DEF x
    <3> DEFINE y == [closure |-> l, locals |-> x, temps |-> <<>>]
    <3>3. [q EXCEPT !.locals = x] = y BY ONLY <3>2
    <3>4. [y EXCEPT !.temps = <<>>] = y OBVIOUS
    <3> HIDE DEF y
    <3>5. [[q EXCEPT !.locals = x] EXCEPT !.temps = <<>>] = [q EXCEPT !.locals = x]
          BY ONLY <3>3, <3>4
    <3> QED BY <3>5 DEF q, x
  <2> QED BY <1>1, <1>4, <1>5, <1>6, <1>7, <2>3, <2>10, <2>11, <2>12 DEF Lexical!Closure
<1>8. CASE ~named
  <2>1. cell' = Append(cell, NoCell) /\ frames' = frames /\ stack' = Append(stack, v) BY <1>1, <1>8
  <2> HIDE DEF v
  <2>2. Lexical!SetTemps(Append(Lexical!Temps, v)) /\ StoreMeant' = StoreMeant
        BY <1>1, <1>3, <2>1, PushTemps
  <2> QED BY <1>1, <1>4, <1>5, <1>6, <1>8, <2>2 DEF Lexical!Closure, v
<1> QED BY <1>7, <1>8

(* A closure captures one variable more. *)
LEMMA UpvalueAdded ==
    ASSUME IInv, IInv', closures # <<>>, NEW u \in 1..Len(cellOf'), AddUpvalue(u),
           \A v \in 1..Len(cellOf) : v \in 1..Len(cellOf') /\ cellOf'[v] = cellOf[v]
    PROVE  /\ ClosuresMeant # <<>>
           /\ ClosuresMeant' = [ClosuresMeant EXCEPT ![Len(ClosuresMeant)].cells = Append(@, cellOf'[u])]
<1>1. ValuesOK /\ ValuesOK' /\ CellsOK /\ CellsOK' BY DEF IInv
<1>2. /\ closures \in Seq(ClosureRecords(DOMAIN upvalues)) /\ Len(closures) \in Nat
      /\ DOMAIN closures = 1..Len(closures)
      /\ \A c \in 1..Len(closures) : /\ closures[c] \in ClosureRecords(DOMAIN upvalues)
                                     /\ closures[c].upvalues \in Seq(DOMAIN upvalues)
      BY <1>1, ClosureTypes
<1>3. Len(closures) >= 1
  <2>1. Len(closures) # 0 BY <1>2, Empty
  <2> QED BY <2>1, <1>2
<1>4. PICK k \in Nat : k = Len(closures) BY <1>2
<1>5. k \in 1..k /\ k >= 1 BY <1>3, <1>4
<1>6. /\ closures' = [closures EXCEPT ![k].upvalues = Append(closures[k].upvalues, u)]
      BY <1>4 DEF AddUpvalue
<1>7. /\ DOMAIN closures' = 1..k
      /\ \A i \in 1..k : i # k => closures'[i] = closures[i]
      /\ closures'[k].arity = closures[k].arity
      /\ closures'[k].upvalues = Append(closures[k].upvalues, u)
  <2>1. closures[k] \in ClosureRecords(DOMAIN upvalues) BY <1>2, <1>4, <1>5
  <2> DEFINE r == [closures[k] EXCEPT !.upvalues = Append(closures[k].upvalues, u)]
  <2>2. r.arity = closures[k].arity /\ r.upvalues = Append(closures[k].upvalues, u)
        BY <2>1 DEF ClosureRecords
  <2>3. closures' = [closures EXCEPT ![k] = r] BY <1>6
  <2> HIDE DEF r
  <2> QED BY <2>2, <2>3, <1>2, <1>4, <1>5
<1>8. ASSUME NEW i \in 1..k, i # k PROVE ClosureMeant(i)' = ClosureMeant(i)
  <2>1. closures'[i] = closures[i] BY <1>7, <1>8
  <2>2. /\ closures[i].upvalues \in Seq(DOMAIN upvalues)
        /\ \A n \in 1..Len(closures[i].upvalues) : closures[i].upvalues[n] \in 1..Len(cellOf)
        BY <1>4, MeantClosures
  <2>3. DOMAIN closures[i].upvalues = 1..Len(closures[i].upvalues) BY <2>2
  <2>4. \A n \in DOMAIN closures[i].upvalues :
            cellOf'[closures[i].upvalues[n]] = cellOf[closures[i].upvalues[n]]
        BY <2>2, <2>3
  <2> QED BY <2>1, <2>4 DEF ClosureMeant
<1> DEFINE us == closures[k].upvalues
           cs == ClosureMeant(k).cells
           c0 == cellOf'[u]
           ct == [n \in DOMAIN Append(us, u) |-> cellOf'[Append(us, u)[n]]]
<1>9. /\ us \in Seq(DOMAIN upvalues) /\ Len(us) \in Nat
      /\ cs \in Seq(Cells) /\ Len(cs) = Len(us)
      /\ \A n \in 1..Len(us) : us[n] \in 1..Len(cellOf) /\ cs[n] = cellOf[us[n]]
  <2>1. /\ us \in Seq(DOMAIN upvalues)
        /\ ClosuresMeant[k].cells \in Seq(Cells) /\ Len(ClosuresMeant[k].cells) = Len(us)
        /\ \A n \in 1..Len(us) :
             us[n] \in 1..Len(cellOf) /\ ClosuresMeant[k].cells[n] = cellOf[us[n]]
        BY <1>4, <1>5, MeantClosures
  <2>2. ClosuresMeant[k] = ClosureMeant(k) BY <1>2, <1>4, <1>5 DEF ClosuresMeant
  <2>3. Len(us) \in Nat BY <2>1
  <2> QED BY <2>1, <2>2, <2>3
<1>10. c0 \in Cells
  <2>1. cellOf' \in Seq(Cells) BY <1>1 DEF CellsOK
  <2> QED BY <2>1
<1>11. ClosureMeant(k)' = [arity |-> closures[k].arity, cells |-> ct]
       BY <1>7 DEF ClosureMeant
<1>12. ClosureMeant(k) = [arity |-> closures[k].arity, cells |-> cs] BY DEF ClosureMeant
<1> HIDE DEF us, cs, c0
<1>13. ct = Append(cs, c0)
  <2> DEFINE S == DOMAIN upvalues \cup {u}
             q == Append(us, u)
             w == Append(cs, c0)
  <2>1. us \in Seq(S) /\ u \in S BY <1>9
  <2> HIDE DEF S
  <2>2. /\ q \in Seq(S) /\ Len(q) = Len(us) + 1 /\ q[Len(us) + 1] = u
        /\ \A n \in 1..Len(us) : q[n] = us[n]
        BY <2>1, Appended
  <2>3. /\ w \in Seq(Cells) /\ Len(w) = Len(us) + 1 /\ w[Len(us) + 1] = c0
        /\ \A n \in 1..Len(us) : w[n] = cs[n]
        BY <1>9, <1>10, Appended
  <2>4. ct = [n \in DOMAIN q |-> cellOf'[q[n]]] OBVIOUS
  <2> HIDE DEF q, w, ct
  <2>5. DOMAIN q = 1..(Len(us) + 1) BY <2>2
  <2>6. ASSUME NEW n \in 1..(Len(us) + 1) PROVE cellOf'[q[n]] = w[n]
    <3>1. CASE n = Len(us) + 1 BY <3>1, <2>2, <2>3 DEF c0
    <3>2. CASE n # Len(us) + 1
      <4>1. n \in 1..Len(us) BY <3>2, <1>9
      <4> QED BY <4>1, <2>2, <2>3, <1>9
    <3> QED BY <3>1, <3>2
  <2>7. ct = [n \in 1..(Len(us) + 1) |-> w[n]] BY <2>4, <2>5, <2>6
  <2>8. w = [n \in 1..(Len(us) + 1) |-> w[n]] BY <2>3
  <2> QED BY <2>7, <2>8 DEF w
<1>14. ClosureMeant(k)' = [ClosureMeant(k) EXCEPT !.cells = Append(@, c0)]
  <2> DEFINE b == closures[k].arity
             m == ClosureMeant(k)
             x == Append(cs, c0)
  <2>1. m = [arity |-> b, cells |-> cs] BY <1>12
  <2>2. ClosureMeant(k)' = [arity |-> b, cells |-> x] BY <1>11, <1>13
  <2> HIDE DEF m, b, x
  <2>3. m.cells = cs BY ONLY <2>1
  <2>4. Append(m.cells, c0) = x BY <2>3 DEF x
  <2>5. [m EXCEPT !.cells = x] = [arity |-> b, cells |-> x] BY ONLY <2>1
  <2> QED BY <2>2, <2>4, <2>5 DEF m
<1>15. ClosuresMeant = [i \in 1..k |-> ClosureMeant(i)] BY <1>2, <1>4 DEF ClosuresMeant
<1>16. ClosuresMeant' = [i \in 1..k |-> ClosureMeant(i)'] BY <1>7 DEF ClosuresMeant
<1>17. Len(ClosuresMeant) = k BY <1>4, MeantClosures
<1>18. ClosuresMeant' = [ClosuresMeant EXCEPT ![k].cells = Append(@, c0)]
  <2> DEFINE M == [ClosureMeant(k) EXCEPT !.cells = Append(@, c0)]
  <2>1. ClosuresMeant[k] = ClosureMeant(k) BY <1>5, <1>15
  <2>2. [ClosuresMeant EXCEPT ![k].cells = Append(@, c0)] = [ClosuresMeant EXCEPT ![k] = M]
        BY <2>1
  <2>3. ClosureMeant(k)' = M BY <1>14
  <2> HIDE DEF M
  <2>4. ClosuresMeant' = [ClosuresMeant EXCEPT ![k] = M] BY <2>3, <1>5, <1>8, <1>15, <1>16
  <2> QED BY <2>2, <2>4
<1>19. ClosuresMeant # <<>>
  <2>1. DOMAIN ClosuresMeant = 1..k BY <1>15
  <2> DEFINE z == ClosuresMeant
  <2>2. Len(z) = k BY <1>17
  <2> HIDE DEF z
  <2>3. z # <<>> BY <2>2, <1>5
  <2> QED BY <2>3 DEF z
<1> QED BY <1>17, <1>18, <1>19 DEF c0

LEMMA OwnedAdded ==
    ASSUME IInv, Owned, closures # <<>>, NEW u, AddUpvalue(u),
           \A v \in 1..Len(upvalues') : v \in 1..Len(upvalues) \/ v = u
    PROVE  Owned'
<1>1. ValuesOK BY InvParts
<1>2. /\ closures \in Seq(ClosureRecords(DOMAIN upvalues)) /\ Len(closures) \in Nat
      /\ \A c \in 1..Len(closures) : /\ closures[c] \in ClosureRecords(DOMAIN upvalues)
                                     /\ closures[c].upvalues \in Seq(DOMAIN upvalues)
      BY <1>1, ClosureTypes
<1>3. Len(closures) \in 1..Len(closures)
  <2>1. Len(closures) # 0 BY <1>2, Empty
  <2> QED BY <2>1, <1>2
<1> DEFINE k == Len(closures)
           us == closures[k].upvalues
           q == Append(us, u)
<1>4. us \in Seq(DOMAIN upvalues) BY <1>2, <1>3
<1> DEFINE S == DOMAIN upvalues \cup {u}
<1>5. us \in Seq(S) /\ u \in S BY <1>4
<1> HIDE DEF S, us
<1>6. /\ q \in Seq(S) /\ Len(q) = Len(us) + 1 /\ q[Len(us) + 1] = u
      /\ \A n \in 1..Len(us) : q[n] = us[n]
      BY <1>5, Appended
<1>7. Len(us) \in Nat BY <1>5
<1>8. Len(closures') = k /\ closures'[k].upvalues = q
      /\ \A c \in 1..k : c # k => closures'[c] = closures[c]
  <2> DEFINE r == [closures[k] EXCEPT !.upvalues = q]
  <2>1. closures[k] \in ClosureRecords(DOMAIN upvalues) BY <1>2, <1>3
  <2>2. closures' = [closures EXCEPT ![k] = r] BY DEF AddUpvalue, us
  <2> HIDE DEF q
  <2>3. r.upvalues = q BY <2>1 DEF ClosureRecords
  <2> HIDE DEF r
  <2> QED BY <2>2, <2>3, <1>2, <1>3
<1> HIDE DEF q
<1>9. SUFFICES ASSUME NEW v \in 1..Len(upvalues')
               PROVE  \E c \in 1..Len(closures') :
                          \E n \in 1..Len(closures'[c].upvalues) : closures'[c].upvalues[n] = v
      BY DEF Owned
<1>10. CASE v = u
  <2>1. Len(us) + 1 \in 1..Len(q) BY <1>6, <1>7
  <2>2. \E n \in 1..Len(closures'[k].upvalues) : closures'[k].upvalues[n] = v
        BY <2>1, <1>6, <1>8, <1>10
  <2> QED BY <2>2, <1>3, <1>8
<1>11. CASE v \in 1..Len(upvalues)
  <2>1. PICK c \in 1..Len(closures) :
            \E n \in 1..Len(closures[c].upvalues) : closures[c].upvalues[n] = v
        BY <1>11 DEF Owned
  <2>2. CASE c = k
    <3>1. PICK n \in 1..Len(us) : us[n] = v BY <2>1, <2>2 DEF us
    <3>2. n \in 1..Len(q) /\ q[n] = v BY <3>1, <1>6, <1>7
    <3>3. \E i \in 1..Len(closures'[k].upvalues) : closures'[k].upvalues[i] = v
          BY <3>2, <1>8
    <3> QED BY <3>3, <1>3, <1>8
  <2>3. CASE c # k
    <3>1. closures'[c] = closures[c] /\ c \in 1..Len(closures') BY <2>3, <1>8
    <3> QED BY <3>1, <2>1
  <2> QED BY <2>2, <2>3
<1> QED BY <1>9, <1>10, <1>11

LEMMA CaptureMeans ==
    ASSUME CInv, IInv', capturing, NEW u \in 1..Len(cellOf'), AddUpvalue(u),
           UNCHANGED <<status, stack, frames, globals, cell>>,
           cellOf'[u] \in Lexical!ToSet(Lexical!Top.locals)
                            \cup Lexical!ToSet(Lexical!CellsOf(Lexical!Top.closure)),
           \A v \in 1..Len(cellOf) : /\ v \in 1..Len(cellOf') /\ cellOf'[v] = cellOf[v]
                                     /\ upvalues'[v].value = upvalues[v].value,
           \A v \in 1..Len(cellOf') : v \in 1..Len(cellOf) \/ (v = u /\ InSlot(cellOf'[u]))
    PROVE  Lexical!Capture /\ CInv'
<1>1. IInv /\ Owned /\ TopIs /\ status = "running" /\ frames # <<>> BY RunningTop
<1>2. FramesOK /\ ValuesOK /\ CellsOK /\ CellsOK' BY <1>1, InvParts DEF IInv
<1>3. closures # <<>> BY <1>2 DEF FramesOK
<1>4. /\ status' = status /\ stack' = stack /\ frames' = frames /\ cell' = cell
      /\ globals' = globals
      OBVIOUS
<1>5. FramesMeant' = FramesMeant BY <1>1, <1>4, FramesSame
<1>6. /\ ClosuresMeant # <<>>
      /\ ClosuresMeant' = [ClosuresMeant EXCEPT ![Len(ClosuresMeant)].cells = Append(@, cellOf'[u])]
      BY <1>1, <1>3, UpvalueAdded
<1>7. Owned'
  <2>1. Len(upvalues) = Len(cellOf) /\ Len(upvalues') = Len(cellOf') BY <1>2 DEF CellsOK
  <2>2. \A v \in 1..Len(upvalues') : v \in 1..Len(upvalues) \/ v = u BY <2>1
  <2> QED BY <2>2, <1>1, <1>3, OwnedAdded
<1>8. StoreMeant' = StoreMeant
  <2>1. \A p \in 1..Len(cell') : cell'[p] # NoCell =>
            p \in 1..Len(cell) /\ cell'[p] = cell[p] /\ stack'[p] = stack[p]
        BY <1>4
  <2>2. \A p \in 1..Len(cell) : cell[p] # NoCell => p \in 1..Len(cell') /\ cell'[p] = cell[p]
        BY <1>4
  <2>3. ASSUME NEW v \in 1..Len(cellOf'), ~InSlot(cellOf[v])'
        PROVE  v \in 1..Len(cellOf) /\ cellOf'[v] = cellOf[v] /\ upvalues'[v].value = upvalues[v].value
    <3>1. ~InSlot(cellOf'[v]) BY <2>3, <1>4 DEF InSlot
    <3>2. v \in 1..Len(cellOf) BY <3>1
    <3> QED BY <3>2
  <2>4. status # "failed" /\ status' # "failed" BY <1>1, <1>4
  <2> QED BY <2>1, <2>2, <2>3, <2>4, <1>1, StoreSame
<1>9. CInv' BY <1>7 DEF CInv
<1> QED BY <1>4, <1>5, <1>6, <1>8, <1>9 DEF Lexical!Capture

LEMMA LocalCell ==
    ASSUME CInv, capturing, NEW n \in 1..(Top.locals - 1)
    PROVE  /\ cell[Top.slots + n] \in Lexical!ToSet(Lexical!Top.locals)
           /\ VariableSlot(Top.slots + n) /\ Top.slots + n \in Nat
           /\ cell[Top.slots + n] \in Cells /\ InSlot(cell[Top.slots + n])
<1>1. IInv /\ TopIs BY RunningTop
<1>2. CellsOK /\ ValuesOK BY <1>1, InvParts
<1>3. Top.slots + n \in 2..Len(stack) /\ VariableSlot(Top.slots + n) BY <1>1, LocalSlot
<1> DEFINE ls == Lexical!Top.locals
           p == Top.slots + n
<1>4. ls \in Seq(Cells \cup {NoCell}) /\ n \in 1..Len(ls) /\ ls[n] = cell[p] BY <1>1 DEF TopIs
<1>5. Len(cell) = Len(stack) /\ Len(stack) \in Nat BY <1>2, CellTypes
<1> HIDE DEF ls, p
<1>6. p \in 2..Len(stack) /\ VariableSlot(p) BY <1>3 DEF p
<1>7. p \in 1..Len(cell) /\ p \in Nat BY <1>5, <1>6
<1>8. cell[p] # NoCell /\ cell[p] \in Cells \cup {NoCell} BY <1>2, <1>6, <1>7, CellTypes DEF CellsOK
<1>9. n \in DOMAIN ls BY <1>4
<1> QED BY <1>4, <1>6, <1>7, <1>8, <1>9 DEF Lexical!ToSet, InSlot, ls, p

LEMMA CaptureLocalMeans ==
    ASSUME CInv, NEW n \in 1..MaxLocals, CaptureLocal(n)
    PROVE  Lexical!Capture /\ CInv'
<1> DEFINE slot == Top.slots + n
<1>1. /\ capturing /\ n \in 1..(Top.locals - 1)
      /\ CaptureShared(slot) \/ CaptureNew(slot)
      /\ UNCHANGED <<status, stack, frames, globals, cell>>
      BY DEF CaptureLocal
<1>2. IInv BY DEF CInv
<1>3. IInv' BY <1>2, CaptureLocalInv
<1>4. FramesOK /\ ValuesOK /\ CellsOK /\ ListOK BY <1>2, InvParts
<1>5. /\ cell[slot] \in Lexical!ToSet(Lexical!Top.locals)
      /\ slot \in Nat /\ cell[slot] \in Cells /\ InSlot(cell[slot])
      BY <1>1, LocalCell
<1>6. /\ cellOf \in Seq(Cells) /\ Len(cellOf) = Len(upvalues) /\ Len(cellOf) \in Nat
      /\ upvalues \in Seq(Records)
      BY <1>4, CellTypes DEF ValuesOK, Records
<1> HIDE DEF slot
<1>7. CASE CaptureShared(slot)
  <2> DEFINE m == Above(slot) + 1
             u == openUpvalues[m]
  <2>1. /\ Above(slot) < Len(openUpvalues) /\ upvalues[u].location = slot
        /\ AddUpvalue(u) /\ upvalues' = upvalues /\ cellOf' = cellOf
        BY <1>7 DEF CaptureShared
  <2>2. Above(slot) \in 0..Len(openUpvalues) BY <1>4, <1>5, WalkStops
  <2>3. openUpvalues \in Seq(DOMAIN upvalues) BY <1>4 DEF ListOK
  <2>4. m \in 1..Len(openUpvalues) BY <2>1, <2>2, <2>3
  <2> HIDE DEF m
  <2>5. u \in 1..Len(upvalues) /\ cell[Location(m)] = cellOf[u] BY <2>4, <1>4, ListTypes DEF ListOK
  <2>6. Location(m) = slot BY <2>1 DEF Location
  <2> HIDE DEF u
  <2>7. cellOf'[u] = cell[slot] /\ u \in 1..Len(cellOf') BY <2>1, <2>5, <2>6, <1>6
  <2>8. \A v \in 1..Len(cellOf) : /\ v \in 1..Len(cellOf') /\ cellOf'[v] = cellOf[v]
                                  /\ upvalues'[v].value = upvalues[v].value
        BY <2>1
  <2>9. \A v \in 1..Len(cellOf') : v \in 1..Len(cellOf) BY <2>1
  <2> QED BY <1>1, <1>3, <1>5, <2>1, <2>7, <2>8, <2>9, CaptureMeans
<1>8. CASE CaptureNew(slot)
  <2> DEFINE u == Len(upvalues) + 1
             c == cell[slot]
             r == [location |-> slot, value |-> Nil]
  <2>1. upvalues' = Append(upvalues, r) /\ AddUpvalue(u) /\ cellOf' = Append(cellOf, c)
        BY <1>8 DEF CaptureNew
  <2>2. c \in Cells BY <1>5
  <2>3. upvalues \in Seq(Records \cup {r}) /\ r \in Records \cup {r} BY <1>6
  <2> HIDE DEF c, r
  <2>4. /\ Len(cellOf') = Len(cellOf) + 1 /\ cellOf'[Len(cellOf) + 1] = c
        /\ \A v \in 1..Len(cellOf) : cellOf'[v] = cellOf[v]
        BY <1>6, <2>1, <2>2, Appended
  <2>5. \A v \in 1..Len(upvalues) : upvalues'[v] = upvalues[v] BY <2>1, <2>3, Appended
  <2>6. u = Len(cellOf) + 1 /\ u \in 1..Len(cellOf') /\ cellOf'[u] = c BY <1>6, <2>4
  <2> HIDE DEF u
  <2>7. \A v \in 1..Len(cellOf) : /\ v \in 1..Len(cellOf') /\ cellOf'[v] = cellOf[v]
                                  /\ upvalues'[v].value = upvalues[v].value
        BY <1>6, <2>4, <2>5
  <2>8. \A v \in 1..Len(cellOf') : v \in 1..Len(cellOf) \/ (v = u /\ InSlot(cellOf'[u]))
        BY <1>5, <1>6, <2>4, <2>6 DEF c
  <2>9. cellOf'[u] \in Lexical!ToSet(Lexical!Top.locals)
                         \cup Lexical!ToSet(Lexical!CellsOf(Lexical!Top.closure))
        BY <1>5, <2>6 DEF c
  <2> QED BY <1>1, <1>3, <2>1, <2>6, <2>7, <2>8, <2>9, CaptureMeans
<1> QED BY <1>1, <1>7, <1>8

LEMMA CaptureUpvalueMeans ==
    ASSUME CInv, NEW n \in 1..MaxCaptures, CaptureUpvalue(n)
    PROVE  Lexical!Capture /\ CInv'
<1> DEFINE c == Top.closure
           u == Upvalues(c)[n]
<1>1. /\ capturing /\ n \in DOMAIN Upvalues(c) /\ AddUpvalue(u)
      /\ upvalues' = upvalues /\ cellOf' = cellOf
      /\ UNCHANGED <<status, stack, frames, globals, cell>>
      BY DEF CaptureUpvalue, ghosts
<1>2. IInv /\ TopIs /\ frames # <<>> BY <1>1, RunningTop
<1>3. IInv' BY <1>2, CaptureUpvalueInv
<1>4. FramesOK /\ ValuesOK /\ CellsOK BY <1>2, InvParts
<1>5. c \in {Script} \cup DOMAIN closures
  <2>1. Top \in Frames BY <1>2, <1>4, TopFrame
  <2> QED BY <2>1 DEF Frames
<1>6. /\ u \in 1..Len(upvalues) /\ c \in DOMAIN closures /\ c # Script
      /\ n \in 1..Len(Upvalues(c))
  <2> HIDE DEF c
  <2> QED BY <1>1, <1>2, <1>5, ClosureUpvalues
<1>7. u \in 1..Len(cellOf') BY <1>1, <1>4, <1>6 DEF CellsOK
<1>8. cellOf[u] \in Lexical!ToSet(Lexical!CellsOf(Lexical!Top.closure))
  <2> DEFINE cs == ClosuresMeant[c].cells
  <2>1. Lexical!Top.closure = c BY <1>2 DEF TopIs
  <2>2. Lexical!CellsOf(c) = cs
    <3>1. c # Lexical!Script BY <1>6 DEF Script, Lexical!Script
    <3> QED BY <3>1 DEF Lexical!CellsOf
  <2>3. Upvalues(c) = closures[c].upvalues BY <1>6 DEF Upvalues
  <2>4. /\ cs \in Seq(Cells) /\ Len(cs) = Len(closures[c].upvalues)
        /\ \A i \in 1..Len(closures[c].upvalues) : cs[i] = cellOf[closures[c].upvalues[i]]
    <3>1. c \in 1..Len(closures) BY <1>4, <1>6, ClosureTypes
    <3> HIDE DEF c
    <3> QED BY <3>1, <1>2, MeantClosures
  <2>5. n \in 1..Len(cs) /\ cs[n] = cellOf[u] BY <1>6, <2>3, <2>4
  <2> HIDE DEF cs
  <2>6. n \in DOMAIN cs BY <2>4, <2>5
  <2> QED BY <2>1, <2>2, <2>5, <2>6 DEF Lexical!ToSet
<1>9. cellOf'[u] \in Lexical!ToSet(Lexical!Top.locals)
                       \cup Lexical!ToSet(Lexical!CellsOf(Lexical!Top.closure))
      BY <1>1, <1>8
<1> HIDE DEF u
<1>10. \A v \in 1..Len(cellOf) : /\ v \in 1..Len(cellOf') /\ cellOf'[v] = cellOf[v]
                                 /\ upvalues'[v].value = upvalues[v].value
       BY <1>1
<1>11. \A v \in 1..Len(cellOf') : v \in 1..Len(cellOf) BY <1>1
<1> QED BY <1>1, <1>3, <1>7, <1>9, <1>10, <1>11, CaptureMeans

LEMMA NoFramesMeant ==
    ASSUME frames' = <<>>
    PROVE  FramesMeant' = <<>>
<1> DEFINE e(f) == FrameMeant(f)'
           s == FramesMeant'
<1>1. Depth' = 0 BY DEF Depth
<1>2. s = [f \in 1..0 |-> e(f)] BY <1>1 DEF FramesMeant
<1>3. 1..0 = {} OBVIOUS
<1> HIDE DEF s, e
<1>4. DOMAIN s = 1..0 /\ \A n \in 1..0 : s[n] \in Nat BY <1>2, <1>3
<1>5. s = [n \in 1..0 |-> s[n]] BY <1>2
<1>6. s \in Seq(Nat) /\ Len(s) = 0 BY <1>4, <1>5
<1>7. s = <<>> BY <1>6, Empty
<1> QED BY <1>7 DEF s

(* runtimeError(). *)
LEMMA ErrorMeans ==
    ASSUME CInv, Running, RuntimeError
    PROVE  Lexical!Fail /\ CInv'
<1>1. IInv /\ Owned BY DEF CInv
<1>2. IInv' BY <1>1, ErrorInv
<1>3. /\ status' = "failed" /\ frames' = <<>> /\ upvalues' = upvalues /\ closures' = closures
      /\ globals' = globals /\ cellOf' = cellOf
      BY DEF RuntimeError
<1>4. FramesMeant' = <<>> BY <1>3, NoFramesMeant
<1>5. ClosuresMeant' = ClosuresMeant BY <1>1, <1>3, ClosuresSame
<1>6. StoreMeant' = [c \in {} |-> Nil] BY <1>3 DEF StoreMeant
<1>7. CInv' BY <1>1, <1>2, <1>3, OwnedSame DEF CInv
<1> QED BY <1>3, <1>4, <1>5, <1>6, <1>7 DEF Lexical!Fail

LEMMA FinishMeans ==
    ASSUME CInv, Finish
    PROVE  Lexical!Finish /\ CInv'
<1>1. /\ Running /\ Temps = 1 /\ Depth = 1 /\ Top.locals = 1 /\ CloseUpvalues(Top.slots)
      /\ frames' = <<>> /\ status' = "idle" /\ Truncate(StackTop - 2)
      /\ UNCHANGED <<closures, capturing, globals, cellOf>>
      BY DEF Finish
<1>2. IInv /\ TopIs /\ status = "running" /\ frames # <<>> BY <1>1, RunningTop
<1>3. IInv' BY <1>2, FinishInv
<1>4. FramesOK /\ ValuesOK /\ CellsOK /\ ListOK /\ FramesOK' /\ CellsOK' BY <1>2, <1>3, InvParts DEF IInv
<1>5. Top.slots = 1 BY <1>1, <1>2, <1>4 DEF FramesOK, Top
<1>6. 1 \in Nat \ {0} /\ CloseUpvalues(1) /\ closures' = closures BY <1>1, <1>5
<1>7. /\ Cut(1)
      /\ \A u \in 1..Len(upvalues) :
           upvalues'[u] = IF OnList(u) /\ upvalues[u].location >= 1
                            THEN [location |-> 0, value |-> stack[upvalues[u].location]]
                            ELSE upvalues[u]
      BY <1>4, <1>6, Closed
<1>8. Len(upvalues') = Len(upvalues) BY <1>7 DEF Cut
<1>9. \A u \in 1..Len(upvalues) :
          upvalues'[u].value = IF OnList(u) /\ upvalues[u].location >= 1
                                 THEN stack[upvalues[u].location] ELSE upvalues[u].value
  <2> TAKE u \in 1..Len(upvalues)
  <2>1. CASE OnList(u) /\ upvalues[u].location >= 1
    <3>1. upvalues'[u] = [location |-> 0, value |-> stack[upvalues[u].location]] BY <2>1, <1>7
    <3> QED BY <2>1, <3>1
  <2>2. CASE ~(OnList(u) /\ upvalues[u].location >= 1) BY <2>2, <1>7
  <2> QED BY <2>1, <2>2
<1>10. Len(cell') = 0
  <2>1. stack' = <<>> BY <1>1, <1>4 DEF FramesOK
  <2> QED BY <2>1, <1>4 DEF CellsOK
<1>11. Len(cell) \in Nat BY <1>4, CellTypes
<1>12. CInv' /\ StoreMeant' = Lexical!Keep(StoreMeant) /\ ClosuresMeant' = ClosuresMeant
  <2>1. \A p \in 1..Len(cell') : cell'[p] # NoCell =>
            p \in 1..Len(cell) /\ cell'[p] = cell[p] /\ stack'[p] = stack[p]
        BY <1>10
  <2>2. \A p \in 1..Len(cell) : cell[p] # NoCell /\ p < 1 =>
            p \in 1..Len(cell') /\ cell'[p] = cell[p]
        BY <1>11
  <2>3. status # "failed" /\ status' # "failed" /\ cellOf' = cellOf BY <1>1, <1>2
  <2> QED BY <2>1, <2>2, <2>3, <1>3, <1>6, <1>8, <1>9, VariablesLeave
<1>13. FramesMeant' = <<>> BY <1>1, NoFramesMeant
<1>14. Lexical!Depth = 1 BY <1>1, <1>2 DEF TopIs, Depth
<1> QED BY <1>1, <1>12, <1>13, <1>14 DEF Lexical!Finish

(* interpret(). *)
LEMMA InterpretMeans ==
    ASSUME CInv, ~ContinueOnError, Interpret
    PROVE  Lexical!Run /\ CInv'
<1>1. /\ status = "idle" /\ status' = "running" /\ Push(Script)
      /\ frames' = <<[closure |-> Script, slots |-> StackTop + 1, locals |-> 1]>>
      /\ upvalues' = upvalues /\ closures' = closures /\ globals' = globals /\ cellOf' = cellOf
      BY DEF Interpret, heap
<1>2. IInv /\ Owned BY DEF CInv
<1>3. IInv' BY <1>2, InterpretInv
<1>4. FramesOK /\ ValuesOK /\ CellsOK BY <1>2, InvParts
<1>5. stack = <<>> /\ StackTop = 0
  <2>1. frames = <<>> BY <1>1, <1>4 DEF FramesOK
  <2> QED BY <2>1, <1>4 DEF FramesOK, StackTop
<1>6. cell = <<>>
  <2>1. cell \in Seq(Cells \cup {NoCell}) /\ Len(cell) = 0 BY <1>4, <1>5, CellTypes
  <2> QED BY <2>1, Empty
<1>7. stack' = <<Script>> /\ cell' = <<NoCell>> BY <1>1, <1>5, <1>6 DEF Push
<1> DEFINE fr == [closure |-> Script, slots |-> 1, locals |-> 1]
<1>8. frames' = <<fr>> BY <1>1, <1>5
<1>9. fr.slots = 1 /\ fr.locals = 1 /\ fr.closure = Script OBVIOUS
<1> HIDE DEF fr
<1>10. Len(frames') = 1 /\ frames'[1] = fr /\ Len(stack') = 1 BY <1>7, <1>8
<1> DEFINE r == [closure |-> Script, locals |-> <<>>, temps |-> <<>>]
<1>12. FrameMeant(1)' = r
  <2>1. FrameEnd(1)' = 1 BY <1>10 DEF FrameEnd, Depth, StackTop
  <2> DEFINE a == SubSeq(cell', 2, 1)
             b == SubSeq(stack', 2, 1)
  <2>2. FrameMeant(1)' = [closure |-> Script, locals |-> a, temps |-> b]
        BY <2>1, <1>9, <1>10 DEF FrameMeant
  <2>3. stack' \in Seq({Script}) /\ cell' \in Seq(Cells \cup {NoCell}) /\ Len(cell') = 1
        BY <1>7
  <2>4. 2 \in Nat \ {0} /\ 1 \in Nat /\ 1 <= 1 /\ 2 <= 1 + 1 /\ 1 + 1 - 2 = 0 OBVIOUS
  <2>5. a \in Seq(Cells \cup {NoCell}) /\ Len(a) = 0 BY <2>3, <2>4, Slice
  <2>6. b \in Seq({Script}) /\ Len(b) = 0 BY <2>3, <2>4, <1>10, Slice
  <2> HIDE DEF a, b
  <2>7. a = <<>> BY <2>5, Empty
  <2>8. b = <<>> BY <2>6, Empty
  <2> QED BY <2>2, <2>7, <2>8
<1>13. FramesMeant' = <<r>>
  <2>1. FramesMeant' = [f \in 1..1 |-> FrameMeant(f)'] BY <1>10 DEF FramesMeant, Depth
  <2> HIDE DEF r
  <2>2. \A f \in 1..1 : FrameMeant(f)' = r BY <1>12
  <2>3. FramesMeant' = [f \in 1..1 |-> r] BY <2>1, <2>2
  <2>4. <<r>> = [f \in 1..1 |-> r] OBVIOUS
  <2> QED BY <2>3, <2>4
<1>14. ClosuresMeant' = ClosuresMeant BY <1>1, <1>2, ClosuresSame
<1>15. CInv' BY <1>1, <1>2, <1>3, OwnedSame DEF CInv
<1>16. StoreMeant' = StoreMeant
  <2>1. Len(cell) = 0 /\ Len(cell') = 1 /\ cell'[1] = NoCell BY <1>6, <1>7
  <2>2. \A p \in 1..Len(cell') : cell'[p] = NoCell
    <3>1. \A p \in 1..1 : p = 1 OBVIOUS
    <3> QED BY <2>1, <3>1
  <2>3. \A p \in 1..Len(cell) : FALSE BY <2>1
  <2>4. status # "failed" /\ status' # "failed" BY <1>1
  <2>5. \A u \in 1..Len(cellOf') : ~InSlot(cellOf[u])' =>
            u \in 1..Len(cellOf) /\ cellOf'[u] = cellOf[u] /\ upvalues'[u].value = upvalues[u].value
        BY <1>1
  <2>6. \A u \in 1..Len(cellOf) : u \in 1..Len(cellOf') /\ cellOf'[u] = cellOf[u] BY <1>1
  <2> QED BY <2>2, <2>3, <2>4, <2>5, <2>6, <1>2, <1>3, StoreSame
<1>17. Lexical!Frame(Lexical!Script, <<>>) = r BY DEF Lexical!Frame, Lexical!Script, Script
<1> QED BY <1>1, <1>13, <1>14, <1>15, <1>16, <1>17 DEF Lexical!Run

LEMMA InitMeans == Init => Lexical!Init /\ CInv
<1> SUFFICES ASSUME Init PROVE Lexical!Init /\ CInv OBVIOUS
<1>1. IInv BY InitInv
<1>2. /\ status = "idle" /\ frames = <<>> /\ upvalues = <<>> /\ closures = <<>>
      /\ globals = [g \in Globals |-> Undefined] /\ cell = <<>> /\ cellOf = <<>>
      BY DEF Init
<1>3. Len(frames) = 0 /\ Len(closures) = 0 /\ Len(upvalues) = 0 /\ Len(cell) = 0 /\ Len(cellOf) = 0
      BY <1>2
<1>4. CInv BY <1>1, <1>3 DEF CInv, Owned
<1>5. FramesMeant = <<>>
  <2> DEFINE s == FramesMeant
             e(f) == FrameMeant(f)
  <2>1. s = [f \in 1..0 |-> e(f)] BY <1>3 DEF FramesMeant, Depth
  <2>2. 1..0 = {} OBVIOUS
  <2> HIDE DEF s, e
  <2>3. DOMAIN s = 1..0 /\ \A n \in 1..0 : s[n] \in Nat BY <2>1, <2>2
  <2>4. s = [n \in 1..0 |-> s[n]] BY <2>1
  <2>5. s \in Seq(Nat) /\ Len(s) = 0 BY <2>3, <2>4
  <2>6. s = <<>> BY <2>5, Empty
  <2> QED BY <2>6 DEF s
<1>6. ClosuresMeant = <<>>
  <2> DEFINE s == ClosuresMeant
             e(f) == ClosureMeant(f)
  <2>1. DOMAIN closures = 1..0 BY <1>1, <1>3, InvParts, ClosureTypes
  <2>2. s = [f \in 1..0 |-> e(f)] BY <2>1 DEF ClosuresMeant
  <2>3. 1..0 = {} OBVIOUS
  <2> HIDE DEF s, e
  <2>4. DOMAIN s = 1..0 /\ \A n \in 1..0 : s[n] \in Nat BY <2>2, <2>3
  <2>5. s = [n \in 1..0 |-> s[n]] BY <2>2
  <2>6. s \in Seq(Nat) /\ Len(s) = 0 BY <2>4, <2>5
  <2>7. s = <<>> BY <2>6, Empty
  <2> QED BY <2>7 DEF s
<1>7. StoreMeant = [c \in {} |-> Nil]
  <2>1. MeantCellsAre BY <1>1, MeantCells
  <2>2. \A c : c \notin CellsMeant BY <2>1, <1>3 DEF MeantCellsAre, InSlot
  <2>3. CellsMeant = {} BY <2>2
  <2>4. StoreMeant = [c \in {} |-> ContentOf(c)] BY <2>3, <1>2 DEF StoreMeant
  <2> QED BY <2>4
<1> QED BY <1>2, <1>4, <1>5, <1>6, <1>7 DEF Lexical!Init

LEMMA ReturnMeans ==
    ASSUME CInv, Return
    PROVE  Lexical!Return /\ CInv'
<1>1. /\ Running /\ Temps = 1 /\ Depth > 1 /\ CloseUpvalues(Top.slots) /\ frames' = Front(frames)
      /\ stack' = Append(SubSeq(stack, 1, Top.slots - 1), Peek(0))
      /\ cell' = SubSeq(cell, 1, Top.slots - 1) \o <<NoCell>>
      /\ status' = status /\ closures' = closures /\ globals' = globals /\ cellOf' = cellOf
      BY DEF Return
<1>2. IInv /\ TopIs /\ status = "running" /\ frames # <<>> BY <1>1, RunningTop
<1>3. IInv' BY <1>2, ReturnInv
<1>4. FramesOK /\ ValuesOK /\ CellsOK /\ ListOK /\ FramesOK' BY <1>2, <1>3, InvParts DEF IInv
<1>5. PICK d \in Nat \ {0} : d = Len(frames) /\ d > 1
  <2>1. Len(frames) \in Nat BY <1>4, FrameTypes
  <2> QED BY <2>1, <1>1 DEF Depth
<1>6. PICK last \in Nat \ {0} : last = Top.slots BY <1>2 DEF TopIs
<1>7. Len(stack) \in Nat /\ last <= Len(stack) /\ Len(cell) = Len(stack)
  <2> DEFINE m == Len(stack)
             k == Top.locals
  <2>1. m \in Nat /\ k \in Nat \ {0} /\ m + 1 - (last + k) = 1
        BY <1>1, <1>2, <1>6 DEF TopIs
  <2>2. Len(cell) = Len(stack) BY <1>4, CellTypes
  <2> HIDE DEF m, k
  <2>3. last <= m BY <2>1
  <2> QED BY <2>1, <2>2, <2>3 DEF m
<1>8. PICK m \in Nat : m = last - 1 /\ m + 1 = last /\ m \in 0..Len(stack) /\ m \in 0..Len(cell)
  <2> DEFINE l == Len(stack)
  <2>1. l \in Nat /\ last <= l /\ Len(cell) = l BY <1>7
  <2> HIDE DEF l
  <2>2. last - 1 \in Nat /\ (last - 1) + 1 = last /\ last - 1 \in 0..l BY <2>1
  <2> QED BY <2>1, <2>2 DEF l
<1> DEFINE v == Peek(0)
           S == Existing \cup {Script, v}
<1>9. stack \in Seq(S) /\ v \in S
  <2>1. Existing \cup {Script} \subseteq S /\ v \in S OBVIOUS
  <2>2. stack \in Seq(Existing \cup {Script}) BY <1>4 DEF ValuesOK
  <2> HIDE DEF S
  <2> QED BY <2>1, <2>2
<1> HIDE DEF v, S
<1>10. /\ stack' \in Seq(S) /\ Len(stack') = last /\ stack'[last] = v
       /\ \A p \in 1..m : stack'[p] = stack[p]
  <2> DEFINE b == SubSeq(stack, 1, m)
  <2>1. stack' = Append(b, v) BY <1>1, <1>6, <1>8 DEF v
  <2>2. b \in Seq(S) /\ Len(b) = m /\ \A p \in 1..m : b[p] = stack[p] BY <1>8, <1>9, Prefix
  <2> HIDE DEF b
  <2>3. /\ stack' \in Seq(S) /\ Len(stack') = m + 1 /\ stack'[m + 1] = v
        /\ \A p \in 1..m : stack'[p] = b[p]
        BY <2>1, <2>2, <1>9, Appended
  <2> QED BY <2>2, <2>3, <1>8
<1>11. /\ cell' \in Seq(Cells \cup {NoCell}) /\ Len(cell') = last /\ cell'[last] = NoCell
       /\ \A p \in 1..m : cell'[p] = cell[p]
  <2> DEFINE C == Cells \cup {NoCell}
             b == SubSeq(cell, 1, m)
  <2>1. NoCell \in C OBVIOUS
  <2>2. cell \in Seq(C) BY <1>4, CellTypes
  <2> HIDE DEF C
  <2>3. b \in Seq(C) /\ Len(b) = m /\ \A p \in 1..m : b[p] = cell[p] BY <1>8, <2>2, Prefix
  <2>4. cell' = b \o <<NoCell>> BY <1>1, <1>6, <1>8
  <2> HIDE DEF b
  <2>5. /\ b \o <<NoCell>> \in Seq(C) /\ Len(b \o <<NoCell>>) = m + 1
        /\ (b \o <<NoCell>>)[m + 1] = NoCell
        /\ \A p \in 1..m : (b \o <<NoCell>>)[p] = b[p]
        BY <2>1, <2>3
  <2> QED BY <2>3, <2>4, <2>5, <1>8 DEF C
<1>12. /\ Len(frames') = d - 1 /\ \A f \in 1..(d - 1) : frames'[f] = frames[f]
       /\ \A p \in Nat : VariableSlot(p)' <=> VariableSlot(p) /\ p < last
       BY <1>1, <1>4, <1>5, <1>6, FrameRemoved
<1>13. d - 1 \in 1..d /\ d - 1 \in 1..(d - 1) /\ d \in 1..d /\ d - 1 < d /\ (d - 1) + 1 = d
       /\ d - 1 \in Nat \ {0}
       BY <1>5
(* The frames below the caller. *)
<1>14. ASSUME NEW f \in 1..(d - 1), f # d - 1 PROVE FrameMeant(f)' = FrameMeant(f)
  <2>1. f \in 1..Len(frames) /\ f < Len(frames) /\ f # d /\ f + 1 \in 1..(d - 1)
        BY <1>5, <1>14
  <2>2. /\ frames[f].slots \in Nat \ {0} /\ frames[f].locals \in Nat \ {0}
        /\ FrameEnd(f) \in Nat /\ FrameEnd(f) < last
        /\ frames[f].slots + frames[f].locals <= FrameEnd(f) + 1
        BY <2>1, <1>2, <1>6, FrameFacts
  <2>3. FrameEnd(f)' = FrameEnd(f)
    <3>1. FrameEnd(f)' = frames'[f + 1].slots - 1 BY <1>12, <1>14 DEF FrameEnd, Depth
    <3>2. FrameEnd(f) = frames[f + 1].slots - 1 BY <1>5, <2>1 DEF FrameEnd, Depth
    <3> QED BY <3>1, <3>2, <2>1, <1>12
  <2> DEFINE e == FrameEnd(f)
             a == frames[f].slots
             k == frames[f].locals
  <2>4. a \in Nat \ {0} /\ k \in Nat \ {0} /\ e \in Nat /\ e < last /\ a + k <= e + 1 BY <2>2
  <2> HIDE DEF e, a, k
  <2>5. e <= m /\ \A p \in (a + 1)..(a + k - 1) : p \in 1..m BY <2>4, <1>8
  <2>6. \A p \in (a + k)..e : p \in 1..m BY <2>4, <1>8
  <2>7. \A p \in (a + 1)..(a + k - 1) : cell'[p] = cell[p] BY <2>5, <1>11
  <2>8. \A p \in (a + k)..e : stack'[p] = stack[p] BY <2>6, <1>10
  <2>9. e <= Len(stack') BY <2>4, <1>10
  <2>10. frames'[f] = frames[f] BY <1>12
  <2> QED BY <2>1, <2>3, <2>7, <2>8, <2>9, <2>10, <1>2, <1>3, SameFrame DEF e, a, k
(* The caller gets the result. *)
<1> DEFINE g == d - 1
           a == frames[d - 1].slots
           k == frames[d - 1].locals
           ts == SubSeq(stack, a + k, m)
           ls == SubSeq(cell, a + 1, a + k - 1)
<1>15. /\ a \in Nat \ {0} /\ k \in Nat \ {0} /\ a + k <= m + 1
       /\ FrameMeant(d - 1) = [closure |-> frames[d - 1].closure, locals |-> ls, temps |-> ts]
  <2>1. FrameEnd(d - 1) = m
    <3>1. FrameEnd(d - 1) = frames[(d - 1) + 1].slots - 1 BY <1>5, <1>13 DEF FrameEnd, Depth
    <3>2. Top = frames[d] BY <1>5 DEF Top, Depth
    <3> QED BY <3>1, <3>2, <1>6, <1>8, <1>13
  <2>2. d - 1 \in 1..Len(frames) BY <1>5, <1>13
  <2>3. a \in Nat \ {0} /\ k \in Nat \ {0} /\ a + k <= FrameEnd(d - 1) + 1
        BY <2>2, <1>2, FrameFacts
  <2> QED BY <2>1, <2>3 DEF FrameMeant
<1>16. FrameMeant(d - 1)' = [closure |-> frames[d - 1].closure, locals |-> ls, temps |-> Append(ts, v)]
  <2>1. Depth' = d - 1 /\ frames'[d - 1] = frames[d - 1] BY <1>12, <1>13 DEF Depth
  <2> DEFINE lt == SubSeq(cell', a + 1, a + k - 1)
             tt == SubSeq(stack', a + k, m + 1)
  <2>3. PICK dd : dd = d - 1 OBVIOUS
  <2>4. FrameEnd(dd)' = m + 1
    <3>1. FrameEnd(dd)' = Len(stack') BY <2>1, <2>3 DEF FrameEnd, StackTop
    <3> QED BY <3>1, <1>8, <1>10
  <2>5. FrameMeant(dd)' = [closure |-> frames[d - 1].closure, locals |-> lt, temps |-> tt]
        BY <2>1, <2>3, <2>4 DEF FrameMeant
  <2> HIDE DEF a, k
  <2>6. lt = ls
    <3> DEFINE x == a + 1
               y == a + k - 1
    <3>1. /\ x \in Nat \ {0} /\ y \in Nat /\ x <= y + 1 /\ y <= Len(cell) /\ y <= Len(cell')
          /\ \A i \in x..y : i \in 1..m
          BY <1>15, <1>7, <1>8, <1>11
    <3>2. cell \in Seq(Cells \cup {NoCell}) BY <1>4, CellTypes
    <3> HIDE DEF x, y
    <3>3. \A i \in x..y : cell'[i] = cell[i] BY <3>1, <1>11
    <3>4. cell' \in Seq(Cells \cup {NoCell}) BY <1>11
    <3>5. SubSeq(cell', x, y) = SubSeq(cell, x, y) BY ONLY <3>1, <3>2, <3>3, <3>4, SameSlice
    <3> QED BY <3>5 DEF x, y
  <2>7. tt = Append(ts, v)
    <3> DEFINE x == a + k
    <3>1. /\ x \in Nat \ {0} /\ x <= m + 1 /\ m + 1 <= Len(stack')
          /\ \A i \in x..m : i \in 1..m
          BY <1>15, <1>8, <1>10
    <3>2. m <= Len(stack) /\ m <= Len(stack') BY <1>7, <1>8, <1>10
    <3> HIDE DEF x
    <3>3. SubSeq(stack', x, m + 1) = Append(SubSeq(stack', x, m), stack'[m + 1])
          BY <3>1, <1>10, SliceMore
    <3>4. \A i \in x..m : stack'[i] = stack[i] BY <3>1, <1>10
    <3>5. SubSeq(stack', x, m) = SubSeq(stack, x, m) BY <3>1, <3>2, <3>4, <1>9, <1>10, SameSlice
    <3>6. stack'[m + 1] = v BY <1>8, <1>10
    <3> QED BY <3>3, <3>5, <3>6 DEF x
  <2> QED BY <2>3, <2>5, <2>6, <2>7
<1>17. /\ FramesMeant = [f \in 1..d |-> FrameMeant(f)] /\ FramesMeant' = [f \in 1..(d - 1) |-> FrameMeant(f)']
       BY <1>5, <1>12 DEF FramesMeant, Depth
<1>18. Lexical!Front(FramesMeant) = [f \in 1..(d - 1) |-> FrameMeant(f)]
  <2> DEFINE fs == FramesMeant
             M == {FrameMeant(f) : f \in 1..d}
  <2>1. fs = [f \in 1..d |-> FrameMeant(f)] BY <1>17
  <2>2. \A f \in 1..d : FrameMeant(f) \in M OBVIOUS
  <2> HIDE DEF fs, M
  <2>3. fs \in Seq(M) /\ Len(fs) = d BY <2>1, <2>2
  <2>4. Lexical!Front(fs) = SubSeq(fs, 1, d - 1) BY <2>3 DEF Lexical!Front
  <2>5. d - 1 \in 0..Len(fs) BY <2>3, <1>5
  <2> DEFINE t == SubSeq(fs, 1, d - 1)
  <2>6. t \in Seq(M) /\ Len(t) = d - 1 /\ \A i \in 1..(d - 1) : t[i] = fs[i] BY <2>3, <2>5, Prefix
  <2> HIDE DEF t
  <2>7. t = [i \in 1..(d - 1) |-> t[i]] BY <2>6
  <2>8. \A i \in 1..(d - 1) : t[i] = FrameMeant(i)
    <3> TAKE i \in 1..(d - 1)
    <3>1. i \in 1..d BY <1>5
    <3> QED BY <3>1, <2>1, <2>6
  <2>9. t = [f \in 1..(d - 1) |-> FrameMeant(f)] BY <2>7, <2>8
  <2> QED BY <2>4, <2>9 DEF t, fs
<1>19. Lexical!Peek = v /\ Len(Lexical!Temps) = 1 /\ Lexical!Depth = d
       BY <1>1, <1>2, <1>5 DEF TopIs, v
<1>20. FramesMeant' = [Lexical!Front(FramesMeant) EXCEPT ![Lexical!Depth - 1].temps = Append(@, Lexical!Peek)]
  <2> DEFINE fs == [f \in 1..(d - 1) |-> FrameMeant(f)]
             cl == frames[d - 1].closure
             r == [closure |-> cl, locals |-> ls, temps |-> ts]
             q == [closure |-> cl, locals |-> ls, temps |-> Append(ts, v)]
  <2>1. fs[g] = r BY <1>13, <1>15
  <2> HIDE DEF cl, ls, ts
  <2>2. r.temps = ts /\ [r EXCEPT !.temps = Append(ts, v)] = q OBVIOUS
  <2> HIDE DEF r
  <2>3. [fs EXCEPT ![g].temps = Append(@, v)] = [fs EXCEPT ![g] = q] BY <2>1, <2>2
  <2>4. FrameMeant(d - 1)' = q BY <1>16 DEF cl, q
  <2> HIDE DEF q
  <2>5. FramesMeant' = [fs EXCEPT ![g] = q]
    <3>1. \A f \in 1..(d - 1) : FrameMeant(f)' = IF f = d - 1 THEN q ELSE FrameMeant(f)
      <4> TAKE f \in 1..(d - 1)
      <4>1. CASE f = d - 1 BY <4>1, <2>4
      <4>2. CASE f # d - 1 BY <4>2, <1>14
      <4> QED BY <4>1, <4>2
    <3> QED BY <3>1, <1>13, <1>17
  <2> QED BY <2>3, <2>5, <1>18, <1>19
(* The variables of the callee. *)
<1>21. /\ Cut(last)
       /\ \A u \in 1..Len(upvalues) :
            upvalues'[u] = IF OnList(u) /\ upvalues[u].location >= last
                             THEN [location |-> 0, value |-> stack[upvalues[u].location]]
                             ELSE upvalues[u]
       BY <1>1, <1>4, <1>6, Closed
<1>22. Len(upvalues') = Len(upvalues) BY <1>21 DEF Cut
<1>23. \A u \in 1..Len(upvalues) :
           upvalues'[u].value = IF OnList(u) /\ upvalues[u].location >= last
                                  THEN stack[upvalues[u].location] ELSE upvalues[u].value
  <2> TAKE u \in 1..Len(upvalues)
  <2>1. CASE OnList(u) /\ upvalues[u].location >= last
    <3>1. upvalues'[u] = [location |-> 0, value |-> stack[upvalues[u].location]] BY <2>1, <1>21
    <3> QED BY <2>1, <3>1
  <2>2. CASE ~(OnList(u) /\ upvalues[u].location >= last) BY <2>2, <1>21
  <2> QED BY <2>1, <2>2
<1>24. CInv' /\ StoreMeant' = Lexical!Keep(StoreMeant) /\ ClosuresMeant' = ClosuresMeant
  <2>1. ASSUME NEW p \in 1..Len(cell'), cell'[p] # NoCell
        PROVE  p \in 1..Len(cell) /\ cell'[p] = cell[p] /\ stack'[p] = stack[p]
    <3>1. p # last /\ p \in 1..last BY <2>1, <1>11
    <3>2. p \in 1..m /\ p \in 1..Len(cell) BY <3>1, <1>7, <1>8
    <3> QED BY <3>2, <1>10, <1>11
  <2>2. ASSUME NEW p \in 1..Len(cell), p < last
        PROVE  p \in 1..Len(cell') /\ cell'[p] = cell[p]
    <3>1. p \in 1..m /\ p \in 1..last BY <2>2, <1>7, <1>8
    <3> QED BY <3>1, <1>11
  <2>3. status # "failed" /\ status' # "failed" /\ last \in Nat BY <1>1, <1>2
  <2> QED BY <2>1, <2>2, <2>3, <1>1, <1>3, <1>22, <1>23, VariablesLeave
<1>25. Lexical!Depth > 1 BY <1>5, <1>19
<1> QED BY <1>1, <1>19, <1>20, <1>24, <1>25 DEF Lexical!Return

(* The frames below a frame that is called keep their meaning; the caller loses the *)
(* callee and the arguments; the callee's variables are cells of their own.         *)
LEMMA CallFrames ==
    ASSUME IInv, IInv', frames # <<>>, NEW n \in Nat, NEW s \in Nat,
           s >= VariablesEnd, s + n = Len(stack), stack' = stack,
           NEW fr \in Frames, fr.slots = s, fr.locals = n + 1, frames' = Append(frames, fr),
           NEW cs \in Seq(FreeCells), Len(cs) = n,
           \A p \in 1..s : cell'[p] = cell[p], \A p \in (s + 1)..(s + n) : cell'[p] = cs[p - s],
           Len(cell') = s + n
    PROVE  FramesMeant' = Append([FramesMeant EXCEPT ![Len(frames)].temps =
                                     SubSeq(@, 1, Len(@) - n - 1)],
                                 [closure |-> fr.closure, locals |-> cs, temps |-> <<>>])
<1>1. FramesOK /\ ValuesOK /\ CellsOK /\ FramesOK' /\ CellsOK' BY InvParts DEF IInv
<1>2. PICK d \in Nat \ {0} : d = Len(frames)
  <2>1. Len(frames) \in Nat /\ frames \in Seq(Frames) BY <1>1, FrameTypes
  <2>2. Len(frames) # 0 BY <2>1, Empty
  <2> QED BY <2>1, <2>2
<1>3. frames \in Seq(Frames) BY <1>1, FrameTypes
<1>4. /\ Len(frames') = d + 1 /\ frames'[d + 1] = fr
      /\ \A f \in 1..d : frames'[f] = frames[f]
      BY <1>2, <1>3, Appended
<1>5. Top = frames[d] /\ TopIs /\ Depth' = d + 1 BY <1>2, <1>4, TopMeans DEF Top, Depth
<1> DEFINE a == Top.slots
           k == Top.locals
           L == Len(stack)
<1>6. /\ a \in Nat \ {0} /\ k \in Nat \ {0} /\ VariablesEnd = a + k /\ L \in Nat
      /\ a + k <= s /\ s + n = L
      BY <1>5 DEF TopIs
<1>7. /\ stack \in Seq(Existing \cup {Script}) /\ cell \in Seq(Cells \cup {NoCell})
      /\ cell' \in Seq(Cells \cup {NoCell}) /\ Len(cell) = L
      BY <1>1 DEF ValuesOK, CellsOK
<1>70. s >= 2 BY <1>6
(* The frames below the caller. *)
<1>8. ASSUME NEW f \in 1..d, f # d PROVE FrameMeant(f)' = FrameMeant(f)
  <2>1. f \in 1..Len(frames) /\ f < Len(frames) /\ f + 1 \in 1..d /\ f # d + 1 BY <1>2, <1>8
  <2>2. /\ frames[f].slots \in Nat \ {0} /\ frames[f].locals \in Nat \ {0}
        /\ FrameEnd(f) \in Nat /\ FrameEnd(f) < a
        /\ frames[f].slots + frames[f].locals <= FrameEnd(f) + 1
        BY <2>1, FrameFacts
  <2>3. FrameEnd(f)' = FrameEnd(f)
    <3>1. FrameEnd(f)' = frames'[f + 1].slots - 1 BY <1>5, <2>1 DEF FrameEnd
    <3>2. FrameEnd(f) = frames[f + 1].slots - 1 BY <1>2, <1>8 DEF FrameEnd, Depth
    <3> QED BY <3>1, <3>2, <2>1, <1>4
  <2> DEFINE e == FrameEnd(f)
             x == frames[f].slots
             y == frames[f].locals
  <2>4. x \in Nat \ {0} /\ y \in Nat \ {0} /\ e \in Nat /\ e < s /\ x + y <= e + 1
    <3>1. a \in Nat /\ k \in Nat /\ a + k <= s BY <1>6
    <3> HIDE DEF e, x, y, a, k, L
    <3>2. e \in Nat /\ e < a BY <2>2 DEF e
    <3>3. e < s BY ONLY <3>1, <3>2
    <3> QED BY <3>2, <3>3, <2>2 DEF e, x, y
  <2> HIDE DEF e, x, y, a, k, L
  <2>5. e <= L /\ \A p \in (x + 1)..(x + y - 1) : p \in 1..s BY <2>4, <1>6
  <2>7. \A p \in (x + 1)..(x + y - 1) : cell'[p] = cell[p] BY <2>5
  <2>8. \A p \in (x + y)..e : stack'[p] = stack[p] OBVIOUS
  <2>9. e <= Len(stack') BY <2>5 DEF L
  <2>10. frames'[f] = frames[f] BY <1>4
  <2> QED BY <2>1, <2>3, <2>7, <2>8, <2>9, <2>10, SameFrame DEF e, x, y
(* The caller. *)
<1> DEFINE ls == SubSeq(cell, a + 1, a + k - 1)
           ts == SubSeq(stack, a + k, L)
           tt == SubSeq(ts, 1, Len(ts) - n - 1)
           cl == Top.closure
<1>9. FrameMeant(d) = [closure |-> cl, locals |-> ls, temps |-> ts]
  <2>1. FrameEnd(d) = L BY <1>2 DEF FrameEnd, Depth, StackTop
  <2> QED BY <2>1, <1>5 DEF FrameMeant
<1>10. FrameMeant(d)' = [closure |-> cl, locals |-> ls, temps |-> tt]
  <2> DEFINE lt == SubSeq(cell', a + 1, a + k - 1)
             te == SubSeq(stack, a + k, s - 1)
  <2>1. FrameEnd(d)' = s - 1
    <3>1. d # d + 1 BY <1>2
    <3>2. FrameEnd(d)' = frames'[d + 1].slots - 1 BY <3>1, <1>5 DEF FrameEnd
    <3> QED BY <3>2, <1>4
  <2>2. frames'[d] = Top BY <1>2, <1>4, <1>5
  <2>3. FrameMeant(d)' = [closure |-> cl, locals |-> lt, temps |-> te] BY <2>1, <2>2 DEF FrameMeant
  <2> HIDE DEF a, k, L, cl
  <2>4. lt = ls
    <3> DEFINE x == a + 1
               y == a + k - 1
    <3>1. /\ x \in Nat \ {0} /\ y \in Nat /\ x <= y + 1 /\ y <= Len(cell) /\ y <= Len(cell')
          /\ \A i \in x..y : i \in 1..s
          BY <1>6, <1>7
    <3> HIDE DEF x, y
    <3>3. \A i \in x..y : cell'[i] = cell[i] BY <3>1
    <3>4. SubSeq(cell', x, y) = SubSeq(cell, x, y)
          BY ONLY <3>1, <3>3, <1>7, SameSlice
    <3> QED BY <3>4 DEF x, y
  <2>5. te = tt
    <3> DEFINE T == Existing \cup {Script}
               x == a + k
               w == s - 1
    <3>1. /\ x \in Nat \ {0} /\ x <= L + 1 /\ w \in Nat /\ w <= L /\ x <= w + 1
          /\ w + 1 = s
          BY <1>6
    <3>2. stack \in Seq(T) /\ L \in Nat /\ L <= Len(stack) BY <1>6, <1>7 DEF L
    <3> DEFINE us == SubSeq(stack, x, L)
               ue == SubSeq(stack, x, w)
    <3>50. ts = us /\ te = ue OBVIOUS
    <3> HIDE DEF x, w, T, ts, te
    <3>3. /\ ts \in Seq(T) /\ Len(ts) = L + 1 - x
          /\ \A i \in 1..(L + 1 - x) : ts[i] = stack[x + i - 1]
      <4>1. /\ us \in Seq(T) /\ Len(us) = L + 1 - x
            /\ \A i \in 1..(L + 1 - x) : us[i] = stack[x + i - 1]
            BY <3>1, <3>2, Slice
      <4> QED BY <4>1, <3>50
    <3>4. /\ te \in Seq(T) /\ Len(te) = w + 1 - x
          /\ \A i \in 1..(w + 1 - x) : te[i] = stack[x + i - 1]
      <4>1. w <= Len(stack) BY <3>1, <3>2 DEF L
      <4>2. /\ ue \in Seq(T) /\ Len(ue) = w + 1 - x
            /\ \A i \in 1..(w + 1 - x) : ue[i] = stack[x + i - 1]
            BY <4>1, <3>1, <3>2, Slice
      <4> QED BY <4>2, <3>50
    <3>5. PICK j \in Nat : j = Len(ts) - n - 1 /\ j = w + 1 - x /\ j \in 0..Len(ts)
      <4>1. L + 1 - x - n - 1 = w + 1 - x /\ w + 1 - x \in Nat /\ w + 1 - x <= L + 1 - x
            /\ L + 1 - x \in Nat
            BY <3>1, <1>6
      <4>2. PICK z \in Nat : z = Len(ts) /\ z = L + 1 - x BY <4>1, <3>3
      <4>3. z - n - 1 = w + 1 - x /\ w + 1 - x \in 0..z
        <5>1. x \in Nat /\ w \in Nat /\ L \in Nat BY <3>1, <1>6
        <5> QED BY <5>1, <4>1, <4>2
      <4> QED BY <4>1, <4>2, <4>3
    <3>6. tt = SubSeq(ts, 1, j) BY <3>5
    <3> DEFINE tj == SubSeq(ts, 1, j)
    <3>7. tj \in Seq(T) /\ Len(tj) = j /\ \A i \in 1..j : tj[i] = ts[i] BY <3>3, <3>5, Prefix
    <3> HIDE DEF tj
    <3>8. Len(te) = Len(tj) /\ \A i \in 1..Len(te) : te[i] = tj[i]
      <4>1. Len(te) = Len(tj) BY <3>4, <3>5, <3>7
      <4>2. ASSUME NEW i \in 1..Len(te) PROVE te[i] = tj[i]
        <5>1. i \in 1..j /\ i \in 1..(w + 1 - x) BY <3>4, <3>5
        <5>2. i \in 1..(L + 1 - x) BY <5>1, <3>1, <1>6
        <5> QED BY <5>1, <5>2, <3>3, <3>4, <3>7
      <4> QED BY <4>1, <4>2
    <3>9. te = tj BY <3>4, <3>7, <3>8, SameSequence
    <3> QED BY <3>6, <3>9 DEF tj
  <2> QED BY <2>3, <2>4, <2>5
<1>11. FrameMeant(d)' = [FrameMeant(d) EXCEPT !.temps = SubSeq(@, 1, Len(@) - n - 1)]
  <2> DEFINE r == [closure |-> cl, locals |-> ls, temps |-> ts]
             Less(z) == SubSeq(z, 1, Len(z) - n - 1)
  <2>0. tt = Less(ts) OBVIOUS
  <2> HIDE DEF cl, ls, ts, tt, Less
  <2>1. r.temps = ts OBVIOUS
  <2>2. [r EXCEPT !.temps = Less(ts)] = [closure |-> cl, locals |-> ls, temps |-> Less(ts)] OBVIOUS
  <2>3. FrameMeant(d) = r /\ FrameMeant(d)' = [closure |-> cl, locals |-> ls, temps |-> Less(ts)]
        BY <2>0, <1>9, <1>10
  <2> HIDE DEF r
  <2>4. FrameMeant(d)' = [FrameMeant(d) EXCEPT !.temps = Less(FrameMeant(d).temps)]
        BY ONLY <2>1, <2>2, <2>3
  <2> QED BY <2>4 DEF Less
(* The callee. *)
<1> HIDE DEF a, k, L, ls, ts, tt, cl
<1>12. FrameMeant(d + 1)' = [closure |-> fr.closure, locals |-> cs, temps |-> <<>>]
  <2> DEFINE lt == SubSeq(cell', s + 1, s + n)
             te == SubSeq(stack, s + n + 1, s + n)
  <2>1. FrameEnd(d + 1)' = s + n BY <1>5, <1>6 DEF FrameEnd, StackTop, L
  <2>2. FrameMeant(d + 1)' = [closure |-> fr.closure, locals |-> lt, temps |-> te]
    <3>1. s + (n + 1) - 1 = s + n /\ s + (n + 1) = s + n + 1 OBVIOUS
    <3> QED BY <3>1, <2>1, <1>4 DEF FrameMeant
  <2>3. te = <<>>
    <3> DEFINE x == s + n + 1
               y == s + n
    <3>1. /\ x \in Nat \ {0} /\ y \in Nat /\ y <= Len(stack) /\ x <= y + 1 /\ y + 1 - x = 0
          OBVIOUS
    <3> HIDE DEF x, y
    <3>2. SubSeq(stack, x, y) \in Seq(Existing \cup {Script}) /\ Len(SubSeq(stack, x, y)) = 0
          BY <3>1, <1>7, Slice
    <3>3. SubSeq(stack, x, y) = <<>> BY <3>2, Empty
    <3> QED BY <3>3 DEF x, y
  <2>4. lt = cs
    <3> DEFINE x == s + 1
               y == s + n
    <3>1. /\ x \in Nat \ {0} /\ y \in Nat /\ y <= Len(cell') /\ x <= y + 1 /\ y + 1 - x = n
          OBVIOUS
    <3> DEFINE w == SubSeq(cell', x, y)
    <3> HIDE DEF x, y
    <3>2. /\ w \in Seq(Cells \cup {NoCell}) /\ Len(w) = n
          /\ \A i \in 1..n : w[i] = cell'[x + i - 1]
          BY <3>1, <1>7, Slice
    <3> HIDE DEF w
    <3>3. ASSUME NEW i \in 1..Len(w) PROVE w[i] = cs[i]
      <4>1. i \in 1..n /\ x + i - 1 = s + i /\ s + i \in (s + 1)..(s + n) /\ (s + i) - s = i
            BY <3>2 DEF x
      <4>2. cell'[s + i] = cs[(s + i) - s] BY <4>1
      <4> QED BY <4>1, <4>2, <3>2
    <3>4. Len(w) = Len(cs) BY <3>2
    <3>5. w = cs BY <3>2, <3>3, <3>4, SameSequence
    <3> QED BY <3>5 DEF w, x, y
  <2> QED BY <2>2, <2>3, <2>4
(* All of them. *)
<1> DEFINE q == [FrameMeant(d) EXCEPT !.temps = SubSeq(@, 1, Len(@) - n - 1)]
           r == [closure |-> fr.closure, locals |-> cs, temps |-> <<>>]
           fs == [FramesMeant EXCEPT ![d].temps = SubSeq(@, 1, Len(@) - n - 1)]
           M == {FrameMeant(f) : f \in 1..d} \cup {q, r}
           ft == FramesMeant'
<1>13. FramesMeant = [f \in 1..d |-> FrameMeant(f)] BY <1>2 DEF FramesMeant, Depth
<1>14. ft = [f \in 1..(d + 1) |-> FrameMeant(f)'] BY <1>5 DEF FramesMeant
<1>15. d \in 1..d /\ d + 1 \in 1..(d + 1) BY <1>2
<1>16. fs = [f \in 1..d |-> IF f = d THEN q ELSE FrameMeant(f)]
  <2>1. FramesMeant[d] = FrameMeant(d) BY <1>13, <1>15
  <2>2. fs = [FramesMeant EXCEPT ![d] = q] BY <2>1
  <2> HIDE DEF q, fs
  <2> QED BY <2>2, <1>13, <1>15
<1>17. q \in M /\ r \in M /\ \A f \in 1..d : FrameMeant(f) \in M OBVIOUS
<1>18. FrameMeant(d)' = q /\ FrameMeant(d + 1)' = r BY <1>11, <1>12
<1> HIDE DEF q, r, fs, M, ft
<1>19. fs \in Seq(M) /\ Len(fs) = d /\ \A f \in 1..d : fs[f] = IF f = d THEN q ELSE FrameMeant(f)
  <2>1. \A f \in 1..d : (IF f = d THEN q ELSE FrameMeant(f)) \in M BY <1>17
  <2> QED BY <2>1, <1>16
<1> DEFINE w == Append(fs, r)
<1>20. /\ w \in Seq(M) /\ Len(w) = d + 1 /\ w[d + 1] = r
       /\ \A f \in 1..d : w[f] = fs[f]
       BY <1>17, <1>19, Appended
<1> HIDE DEF w
<1>21. \A f \in 1..(d + 1) : FrameMeant(f)' = w[f]
  <2> TAKE f \in 1..(d + 1)
  <2>1. CASE f = d + 1 BY <2>1, <1>18, <1>20
  <2>2. CASE f = d
    <3>1. f # d + 1 BY <2>2, <1>15
    <3> QED BY <2>2, <1>15, <1>18, <1>19, <1>20
  <2>3. CASE f # d + 1 /\ f # d
    <3>1. f \in 1..d BY <2>3
    <3> QED BY <3>1, <2>3, <1>8, <1>19, <1>20
  <2> QED BY <2>1, <2>2, <2>3
<1>22. w = [f \in 1..(d + 1) |-> w[f]] BY <1>20
<1>23. ft = w BY <1>14, <1>21, <1>22
<1> QED BY <1>2, <1>23 DEF ft, w, fs, r

(* The arguments become the contents of new cells. *)
LEMMA CallStore ==
    ASSUME CInv, IInv', status # "failed", status' # "failed", NEW n \in Nat, NEW s \in Nat,
           s >= VariablesEnd, s + n = Len(stack), stack' = stack,
           upvalues' = upvalues, cellOf' = cellOf,
           NEW cs \in Seq(FreeCells), Len(cs) = n,
           \A i, j \in 1..n : cs[i] = cs[j] => i = j,
           NEW args, \A j \in 1..n : args[j] = stack[s + j],
           \A p \in 1..s : cell'[p] = cell[p], \A p \in (s + 1)..(s + n) : cell'[p] = cs[p - s],
           Len(cell') = s + n
    PROVE  StoreMeant' = Lexical!WithAll(StoreMeant, cs, args)
<1> DEFINE C == Lexical!ToSet(cs)
<1>1. IInv /\ FramesOK /\ ValuesOK /\ CellsOK BY InvParts DEF CInv
<1>2. MeantCellsAre /\ MeantCellsAre' BY <1>1, MeantCells, MeantCellsNext
<1>3. /\ cell \in Seq(Cells \cup {NoCell}) /\ Len(cell) = s + n /\ Len(cellOf') = Len(cellOf)
      /\ VariablesEnd \in Nat
      BY <1>1, Variables DEF CellsOK
<1>4. DOMAIN cs = 1..n /\ \A j \in 1..n : cs[j] \in FreeCells OBVIOUS
<1>5. \A c : c \in C <=> \E j \in 1..n : cs[j] = c BY <1>4 DEF Lexical!ToSet
<1> HIDE DEF C
<1>6. ASSUME NEW c \in C PROVE c # NoCell /\ c \notin CellsMeant
  <2>1. c \in FreeCells BY <1>4, <1>5
  <2>2. /\ c # NoCell /\ \A p \in 1..Len(cell) : cell[p] # c
        /\ \A u \in 1..Len(cellOf) : cellOf[u] # c
        BY <1>1, <2>1, FreeCellsNew
  <2> QED BY <2>2, <1>2 DEF MeantCellsAre, InSlot
(* The slots of the arguments held no variable. *)
<1>7. ASSUME NEW p \in 1..Len(cell), cell[p] # NoCell PROVE p \in 1..s
  <2>1. VariableSlot(p) /\ p \in Nat /\ p >= 1 BY <1>1, <1>3, <1>7 DEF CellsOK
  <2>2. p < VariablesEnd BY <2>1, <1>1, Variables
  <2> QED BY <2>1, <2>2, <1>3
<1>8. \A p \in 1..s : p \in 1..Len(cell) /\ p \in 1..Len(cell') BY <1>3
<1>9. ASSUME NEW j \in 1..n PROVE s + j \in 1..Len(cell') /\ cell'[s + j] = cs[j]
  <2>1. s + j \in (s + 1)..(s + n) /\ (s + j) - s = j OBVIOUS
  <2>2. cell'[s + j] = cs[(s + j) - s] BY <2>1
  <2> QED BY <2>1, <2>2
<1>10. ASSUME NEW c, InSlot(c), c # NoCell PROVE InSlot(c)'
  <2>1. PICK p \in 1..Len(cell) : cell[p] = c BY <1>10 DEF InSlot
  <2>2. p \in 1..s BY <2>1, <1>7, <1>10
  <2> QED BY <2>1, <2>2, <1>8 DEF InSlot
<1>11. ASSUME NEW c PROVE c \in CellsMeant' <=> c \in CellsMeant \cup C
  <2>1. ASSUME c \in CellsMeant' PROVE c \in CellsMeant \cup C
    <3>1. c # NoCell BY <2>1, <1>2 DEF MeantCellsAre
    <3>2. CASE InSlot(c)'
      <4>1. PICK p \in 1..Len(cell') : cell'[p] = c BY <3>2 DEF InSlot
      <4>2. CASE p \in 1..s
        <5>1. p \in 1..Len(cell) /\ cell[p] = c BY <4>1, <4>2, <1>8
        <5> QED BY <5>1, <3>1, <1>2 DEF MeantCellsAre, InSlot
      <4>3. CASE p \notin 1..s
        <5>1. p \in (s + 1)..(s + n) /\ p - s \in 1..n BY <4>3
        <5>2. cs[p - s] = c BY <4>1, <5>1
        <5> QED BY <5>1, <5>2, <1>5
      <4> QED BY <4>2, <4>3
    <3>3. CASE \E u \in 1..Len(cellOf') : cellOf'[u] = c
          BY <3>1, <3>3, <1>2 DEF MeantCellsAre
    <3> QED BY <2>1, <3>2, <3>3, <1>2 DEF MeantCellsAre
  <2>2. ASSUME c \in CellsMeant PROVE c \in CellsMeant'
    <3>1. c # NoCell BY <2>2, <1>2 DEF MeantCellsAre
    <3>2. CASE InSlot(c) BY <3>1, <3>2, <1>10, <1>2 DEF MeantCellsAre
    <3>3. CASE \E u \in 1..Len(cellOf) : cellOf[u] = c
          BY <3>1, <3>3, <1>2 DEF MeantCellsAre
    <3> QED BY <2>2, <3>2, <3>3, <1>2 DEF MeantCellsAre
  <2>3. ASSUME c \in C PROVE c \in CellsMeant'
    <3>1. PICK j \in 1..n : cs[j] = c BY <2>3, <1>5
    <3>2. InSlot(c)' BY <3>1, <1>9 DEF InSlot
    <3> QED BY <3>2, <2>3, <1>6, <1>2 DEF MeantCellsAre
  <2> QED BY <2>1, <2>2, <2>3
<1>12. CellsMeant' = CellsMeant \cup C BY <1>11
<1>13. DOMAIN StoreMeant = CellsMeant BY <1>1, StoreAt
<1> DEFINE At(c) == IF c \in C THEN args[CHOOSE j \in DOMAIN cs : cs[j] = c] ELSE StoreMeant[c]
           g == [c \in DOMAIN StoreMeant \cup C |-> At(c)]
<1>14. \A c \in CellsMeant : c \notin C /\ c \in CellsMeant' BY <1>6, <1>12
<1>15. ASSUME NEW j \in 1..n PROVE cs[j] \in CellsMeant' /\ At(cs[j]) = stack[s + j]
  <2> DEFINE i == CHOOSE i \in DOMAIN cs : cs[i] = cs[j]
  <2>1. i \in 1..n /\ cs[i] = cs[j] BY <1>4
  <2>2. i = j BY <2>1
  <2>3. cs[j] \in C BY <1>5
  <2>4. At(cs[j]) = args[i] BY <2>3
  <2> HIDE DEF i, At
  <2> QED BY <2>2, <2>3, <2>4, <1>12
<1>16. \A c \in CellsMeant : At(c) = StoreMeant[c] BY <1>14
<1>17. DOMAIN g = CellsMeant' /\ \A c \in CellsMeant' : g[c] = At(c) BY <1>12, <1>13
<1>18. g = [c \in CellsMeant' |-> g[c]] BY <1>12, <1>13
<1>19. g = Lexical!WithAll(StoreMeant, cs, args) BY DEF Lexical!WithAll, C
<1> HIDE DEF g, At
<1>20. ASSUME NEW p \in 1..Len(cell'), cell'[p] # NoCell PROVE g[cell'[p]] = stack'[p]
  <2>1. CASE p \in 1..s
    <3>1. p \in 1..Len(cell) /\ cell'[p] = cell[p] BY <2>1, <1>8
    <3>2. cell[p] \in CellsMeant /\ StoreMeant[cell[p]] = stack[p] BY <3>1, <1>1, <1>20, StoreAt
    <3> QED BY <3>1, <3>2, <1>14, <1>16, <1>17
  <2>2. CASE p \notin 1..s
    <3>1. PICK j \in 1..n : p = s + j
      <4>1. p \in (s + 1)..(s + n) BY <2>2
      <4>2. p - s \in 1..n /\ p = s + (p - s) BY <4>1
      <4> QED BY <4>2
    <3>2. cell'[p] = cs[j] BY <3>1, <1>9
    <3> QED BY <3>1, <3>2, <1>15, <1>17
  <2> QED BY <2>1, <2>2
<1>21. ASSUME NEW u \in 1..Len(cellOf'), ~InSlot(cellOf[u])'
       PROVE  g[cellOf'[u]] = upvalues'[u].value
  <2>1. u \in 1..Len(cellOf) /\ cellOf'[u] = cellOf[u] BY <1>3
  <2>2. cellOf[u] \in CellsMeant BY <2>1, <1>1, StoreAt
  <2>3. cellOf[u] # NoCell BY <2>2, <1>2 DEF MeantCellsAre
  <2>4. ~InSlot(cellOf[u]) BY <2>1, <2>3, <1>10, <1>21 DEF InSlot
  <2>5. StoreMeant[cellOf[u]] = upvalues[u].value BY <2>1, <2>4, <1>1, StoreAt
  <2> QED BY <2>1, <2>2, <2>5, <1>14, <1>16, <1>17
<1>22. StoreMeant' = g BY <1>18, <1>20, <1>21, StoreIs
<1> QED BY <1>19, <1>22

(* OP_CALL: the abstract machine calls the same closure, with the arguments in cells that *)
(* are free here too.                                                                     *)
LEMMA CallMeans ==
    ASSUME CInv, NEW n \in 0..MaxArity, Call(n)
    PROVE  Lexical!Call(n) /\ CInv'
<1>1. /\ Running /\ n < Temps /\ Callable(n) /\ FreshCells(n) # {}
      /\ UNCHANGED <<status, stack, openUpvalues, upvalues, closures, capturing, globals, cellOf>>
      BY DEF Call, heap
<1>2. IInv /\ Owned /\ TopIs /\ frames # <<>> /\ status = "running" BY <1>1, RunningTop
<1>3. IInv' BY <1>2, CallInv
<1>4. FramesOK /\ ValuesOK /\ CellsOK BY <1>2, InvParts
<1>5. n \in Nat OBVIOUS
<1>6. /\ Len(stack) \in Nat /\ StackTop = Len(stack) /\ VariablesEnd \in Nat /\ VariablesEnd >= 2
      /\ Temps = Len(stack) + 1 - VariablesEnd /\ Peek(n) \in Existing /\ Temps \in Nat
      BY <1>1, <1>2, <1>5, RunningFacts DEF TopIs
<1>7. PICK s \in Nat : s = StackTop - n /\ s >= VariablesEnd /\ s + n = Len(stack)
  <2> DEFINE m == Len(stack)
             e == VariablesEnd
  <2>1. m \in Nat /\ e \in Nat /\ n < m + 1 - e BY <1>1, <1>6
  <2>2. StackTop = m BY <1>6
  <2> HIDE DEF m, e
  <2>3. m - n \in Nat /\ m - n >= e /\ (m - n) + n = m BY <1>5, <2>1
  <2> QED BY <2>2, <2>3 DEF m, e
<1>80. PICK c, cs : c = Peek(n) /\ cs = CHOOSE ds \in FreshCells(n) : TRUE OBVIOUS
<1> DEFINE fr == [closure |-> c, slots |-> s, locals |-> n + 1]
           T == Existing \cup {Script}
           ts == Lexical!Temps
           L == Len(ts)
<1>8. frames' = Append(frames, fr) /\ cell' = SubSeq(cell, 1, s) \o cs BY <1>7, <1>80 DEF Call
<1>9. /\ cs \in Seq(FreeCells) /\ Len(cs) = n
      /\ \A i, j \in 1..n : cs[i] = cs[j] => i = j
      BY <1>1, <1>5, <1>80, FreshTypes
<1>10. fr \in Frames /\ fr.slots = s /\ fr.locals = n + 1 /\ fr.closure = c
  <2>1. Peek(n) \in DOMAIN closures BY <1>1, <1>6 DEF Callable, Existing
  <2>3. c \in DOMAIN closures BY <2>1, <1>80
  <2>2. s \in Nat \ {0} /\ n + 1 \in Nat \ {0} BY <1>5, <1>6, <1>7
  <2> QED BY <2>2, <2>3 DEF Frames
<1>11. c \notin Data /\ c \in 1..Len(closures) /\ closures[c].arity = n
  <2>1. DOMAIN closures = 1..Len(closures) BY <1>2, <1>4, ClosureTypes
  <2> QED BY <2>1, <1>1, <1>6, <1>80 DEF Callable, Existing
<1> HIDE DEF fr
<1>12. /\ \A p \in 1..s : cell'[p] = cell[p]
       /\ \A p \in (s + 1)..(s + n) : cell'[p] = cs[p - s]
       /\ Len(cell') = s + n
  <2> DEFINE S == Cells \cup {NoCell}
             b == SubSeq(cell, 1, s)
             t == b \o cs
  <2>1. FreeCells \subseteq S BY DEF FreeCells
  <2>2. cell \in Seq(S) /\ s \in 0..Len(cell) BY <1>4, <1>6, <1>7 DEF CellsOK
  <2> HIDE DEF S
  <2>3. b \in Seq(S) /\ Len(b) = s /\ \A p \in 1..s : b[p] = cell[p] BY <2>2, Prefix
  <2>4. cs \in Seq(S) BY <2>1, <1>9
  <2>5. cell' = b \o cs BY <1>8
  <2> HIDE DEF b
  <2>6. Len(b) = s /\ Len(cs) = n BY <2>3, <1>9
  <2>7. t \in Seq(S) /\ IsJoined(t, b, cs) BY <2>3, <2>4, Joined
  <2>8. cell' = t BY <2>5
  <2> HIDE DEF t
  <2>9. /\ Len(cell') = s + n /\ \A p \in 1..s : cell'[p] = b[p]
        /\ \A p \in (s + 1)..(s + n) : cell'[p] = cs[p - s]
        BY <2>6, <2>7, <2>8 DEF IsJoined
  <2> QED BY <2>3, <2>9
(* The callee and the arguments are the top temporaries. *)
<1>13. /\ ts \in Seq(T) /\ L = Temps /\ n < L /\ L \in Nat
       /\ \A j \in 1..L : ts[j] = stack[VariablesEnd + j - 1]
       BY <1>1, <1>2, <1>6 DEF TopIs
<1> HIDE DEF ts, T
<1>14. L - n \in 1..L /\ VariablesEnd + (L - n) - 1 = s
  <2> DEFINE m == Len(stack)
             e == VariablesEnd
  <2>1. m \in Nat /\ e \in Nat /\ L = m + 1 - e /\ s + n = m BY <1>6, <1>7, <1>13
  <2>2. L - n \in 1..L BY <1>5, <1>13
  <2> HIDE DEF m, e
  <2>3. e + (L - n) - 1 = s BY <1>5, <1>13, <2>1
  <2> QED BY <2>2, <2>3 DEF e
<1>15. ts[L - n] = c
  <2>1. ts[L - n] = stack[s] BY <1>13, <1>14
  <2> QED BY <2>1, <1>7, <1>80 DEF Peek
<1>150. PICK args : args = SubSeq(ts, L - n + 1, L) OBVIOUS
<1>16. \A j \in 1..n : args[j] = stack[s + j]
  <2> DEFINE x == L - n + 1
             a == SubSeq(ts, x, L)
  <2>1. x \in Nat \ {0} /\ x <= L + 1 /\ L + 1 - x = n BY <1>5, <1>13
  <2>2. \A j \in 1..n : x + j - 1 \in 1..L /\ VariablesEnd + (x + j - 1) - 1 = s + j
    <3> TAKE j \in 1..n
    <3>1. x + j - 1 = (L - n) + j /\ x + j - 1 \in 1..L
      <4>1. PICK m \in Nat : m = L /\ n < m BY <1>13
      <4>2. m - n + 1 + j - 1 = (m - n) + j /\ m - n + 1 + j - 1 \in 1..m BY <1>5, <4>1
      <4> QED BY <4>1, <4>2
    <3>2. VariablesEnd + ((L - n) + j) - 1 = (VariablesEnd + (L - n) - 1) + j
      <4> DEFINE e == VariablesEnd
                 z == L - n
      <4>1. e \in Nat /\ z \in Nat BY <1>6, <1>14, <1>13
      <4> HIDE DEF e, z
      <4> QED BY <4>1 DEF e, z
    <3> HIDE DEF x
    <3>3. VariablesEnd + (x + j - 1) - 1 = s + j BY <3>1, <3>2, <1>14
    <3> QED BY <3>1, <3>3
  <2> HIDE DEF x
  <2>3. \A i \in 1..(L + 1 - x) : a[i] = ts[x + i - 1] BY <2>1, <1>13, Slice
  <2>4. \A j \in 1..n : a[j] = ts[x + j - 1] BY <2>1, <2>3
  <2>5. \A j \in 1..n : a[j] = stack[s + j]
    <3> TAKE j \in 1..n
    <3>1. x + j - 1 \in 1..L /\ VariablesEnd + (x + j - 1) - 1 = s + j BY <2>2
    <3> QED BY <3>1, <2>4, <1>13
  <2> QED BY <2>5, <1>150 DEF x
<1>17. StoreMeant' = Lexical!WithAll(StoreMeant, cs, args)
  <2>1. status # "failed" /\ status' # "failed" /\ stack' = stack
        /\ upvalues' = upvalues /\ cellOf' = cellOf
        BY <1>1, <1>2
  <2>2. CInv OBVIOUS
  <2>3. s >= VariablesEnd /\ s + n = Len(stack) BY <1>7
  <2> QED BY ONLY <2>2, <1>3, <1>5, <2>3, <1>9, <1>12, <1>16, <2>1, CallStore
<1>18. FramesMeant' = Append([FramesMeant EXCEPT ![Lexical!Depth].temps =
                                SubSeq(@, 1, Len(@) - n - 1)],
                             Lexical!Frame(c, cs))
  <2>1. FramesMeant' = Append([FramesMeant EXCEPT ![Len(frames)].temps =
                                 SubSeq(@, 1, Len(@) - n - 1)],
                              [closure |-> c, locals |-> cs, temps |-> <<>>])
        BY <1>1, <1>2, <1>3, <1>5, <1>7, <1>8, <1>9, <1>10, <1>12, CallFrames
  <2>2. Lexical!Depth = Len(frames) BY <1>2, <1>4, MeantFrames DEF Lexical!Depth
  <2>3. Lexical!Frame(c, cs) = [closure |-> c, locals |-> cs, temps |-> <<>>]
        BY DEF Lexical!Frame
  <2> QED BY <2>1, <2>2, <2>3
<1>19. cs \in [1..n -> Lexical!Free] /\ Lexical!IsInjective(cs)
  <2>1. Lexical!Free = FreeCells BY FreeMeans
  <2>2. cs \in [1..n -> FreeCells] /\ DOMAIN cs = 1..n BY <1>9
  <2> QED BY <2>1, <2>2, <1>9 DEF Lexical!IsInjective
<1>20. ClosuresMeant' = ClosuresMeant BY <1>1, <1>2, ClosuresSame
<1>21. ClosuresMeant[c].arity = n BY <1>2, <1>11, MeantClosures
<1>22. CInv' BY <1>1, <1>2, <1>3, OwnedSame DEF CInv
<1>23. UNCHANGED <<status, ClosuresMeant, globals>> BY <1>1, <1>20
<1>24. n < Len(Lexical!Temps) /\ Lexical!Temps[Len(Lexical!Temps) - n] = c BY <1>13, <1>15 DEF ts
<1>25. args = SubSeq(Lexical!Temps, Len(Lexical!Temps) - n + 1, Len(Lexical!Temps))
       BY <1>150 DEF ts
<1>26. Lexical!Call(n)
  <2>1. \E k \in [1..n -> Lexical!Free] :
            /\ Lexical!IsInjective(k)
            /\ FramesMeant' = Append([FramesMeant EXCEPT ![Lexical!Depth].temps =
                                         SubSeq(@, 1, Len(@) - n - 1)],
                                     Lexical!Frame(c, k))
            /\ StoreMeant' = Lexical!WithAll(StoreMeant, k, args)
        BY ONLY <1>17, <1>18, <1>19
  <2> QED BY ONLY <2>1, <1>11, <1>21, <1>23, <1>24, <1>25 DEF Lexical!Call
<1> QED BY <1>22, <1>26

-----------------------------------------------------------------------------
(* The refinement. *)

LEMMA NextMeans ==
    ASSUME CInv, ~ContinueOnError, Next
    PROVE  (Lexical!Next \/ UNCHANGED Lexical!vars) /\ CInv'
<1> DEFINE Goal == (Lexical!Next \/ UNCHANGED Lexical!vars) /\ CInv'
<1>1. ASSUME Interpret PROVE Goal
  <2>1. Lexical!Run /\ CInv' BY <1>1, InterpretMeans
  <2> QED BY <2>1 DEF Lexical!Next
<1>2. ASSUME status = "running", Lexical!Step, CInv' PROVE Goal BY <1>2 DEF Lexical!Next
<1>3. ASSUME Running \/ capturing PROVE status = "running" BY <1>3, RunningTop
<1> HIDE DEF Goal
<1>4. ASSUME NEW v \in Data, Constant(v) \/ Operate(v) PROVE Goal
  <2>1. status = "running" BY <1>3, <1>4 DEF Constant, Operate
  <2>2. CASE Constant(v) BY <1>2, <2>1, <2>2, ConstantMeans DEF Lexical!Step
  <2>3. CASE Operate(v) BY <1>2, <2>1, <2>3, OperateMeans DEF Lexical!Step
  <2> QED BY <1>4, <2>2, <2>3
<1>5. ASSUME Pop \/ Declare \/ PopLocal \/ CloseUpvalue PROVE Goal
  <2>1. status = "running" BY <1>3, <1>5 DEF Pop, Declare, PopLocal, CloseUpvalue, EndScope
  <2>2. CASE Pop BY <1>2, <2>1, <2>2, PopMeans DEF Lexical!Step
  <2>3. CASE Declare BY <1>2, <2>1, <2>3, DeclareMeans DEF Lexical!Step
  <2>4. CASE PopLocal BY <1>2, <2>1, <2>4, PopLocalMeans DEF Lexical!Step
  <2>5. CASE CloseUpvalue BY <1>2, <2>1, <2>5, CloseUpvalueMeans DEF Lexical!Step
  <2> QED BY <1>5, <2>2, <2>3, <2>4, <2>5
<1>6. ASSUME NEW n \in 1..MaxLocals, GetLocal(n) \/ SetLocal(n) \/ CaptureLocal(n) PROVE Goal
  <2>1. status = "running" BY <1>3, <1>6 DEF GetLocal, SetLocal, CaptureLocal
  <2>2. CASE GetLocal(n) BY <1>2, <2>1, <2>2, GetLocalMeans DEF Lexical!Step
  <2>3. CASE SetLocal(n) BY <1>2, <2>1, <2>3, SetLocalMeans DEF Lexical!Step
  <2>4. CASE CaptureLocal(n) BY <1>2, <2>1, <2>4, CaptureLocalMeans DEF Lexical!Step
  <2> QED BY <1>6, <2>2, <2>3, <2>4
<1>7. ASSUME NEW a \in 0..MaxArity, NEW named \in BOOLEAN, Closure(a, named) PROVE Goal
  <2>1. status = "running" BY <1>3, <1>7 DEF Closure
  <2>2. Lexical!Closure(a, named) /\ CInv' BY <1>7, ClosureMeans
  <2> QED BY <1>2, <2>1, <2>2 DEF Lexical!Step
<1>8. ASSUME NEW n \in 1..MaxCaptures, CaptureUpvalue(n) \/ GetUpvalue(n) \/ SetUpvalue(n)
      PROVE  Goal
  <2>1. status = "running" BY <1>3, <1>8 DEF CaptureUpvalue, GetUpvalue, SetUpvalue
  <2>2. CASE CaptureUpvalue(n) BY <1>2, <2>1, <2>2, CaptureUpvalueMeans DEF Lexical!Step
  <2>3. CASE GetUpvalue(n) BY <1>2, <2>1, <2>3, GetUpvalueMeans DEF Lexical!Step
  <2>4. CASE SetUpvalue(n) BY <1>2, <2>1, <2>4, SetUpvalueMeans DEF Lexical!Step
  <2> QED BY <1>8, <2>2, <2>3, <2>4
<1>9. ASSUME ClosureDone PROVE Goal BY <1>9, ClosureDoneMeans DEF Lexical!vars, Goal
<1>10. ASSUME NEW g \in Globals, GetGlobal(g) \/ DefineGlobal(g) \/ SetGlobal(g) PROVE Goal
  <2>1. status = "running" BY <1>3, <1>10 DEF GetGlobal, DefineGlobal, SetGlobal
  <2>2. CASE GetGlobal(g) BY <1>2, <2>1, <2>2, GetGlobalMeans DEF Lexical!Step
  <2>3. CASE DefineGlobal(g) BY <1>2, <2>1, <2>3, DefineGlobalMeans DEF Lexical!Step
  <2>4. CASE SetGlobal(g) BY <1>2, <2>1, <2>4, SetGlobalMeans DEF Lexical!Step
  <2> QED BY <1>10, <2>2, <2>3, <2>4
<1>11. ASSUME Running, RuntimeError PROVE Goal
  <2>1. status = "running" BY <1>3, <1>11
  <2>2. Lexical!Fail /\ CInv' BY <1>11, ErrorMeans
  <2> QED BY <1>2, <2>1, <2>2 DEF Lexical!Step
<1>12. ASSUME NEW n \in 0..MaxArity, Call(n) \/ CallFails(n) PROVE Goal
  <2>1. CASE Call(n)
    <3>1. status = "running" BY <1>3, <2>1 DEF Call
    <3>2. Lexical!Call(n) /\ CInv' BY <2>1, CallMeans
    <3> QED BY <1>2, <3>1, <3>2 DEF Lexical!Step
  <2>2. CASE CallFails(n) BY <1>11, <2>2 DEF CallFails
  <2> QED BY <1>12, <2>1, <2>2
<1>13. ASSUME OperationFails PROVE Goal BY <1>11, <1>13 DEF OperationFails
<1>14. ASSUME Return \/ Finish PROVE Goal
  <2>1. status = "running" BY <1>3, <1>14 DEF Return, Finish
  <2>2. CASE Return BY <1>2, <2>1, <2>2, ReturnMeans DEF Lexical!Step
  <2>3. CASE Finish BY <1>2, <2>1, <2>3, FinishMeans DEF Lexical!Step
  <2> QED BY <1>14, <2>2, <2>3
<1>15. Goal
       BY <1>4, <1>5, <1>6, <1>7, <1>8, <1>9, <1>10, <1>12, <1>13, <1>14, <1>1 DEF Next
<1> QED BY <1>15 DEF Goal

LEMMA StutterMeans ==
    ASSUME CInv, UNCHANGED vars
    PROVE  UNCHANGED Lexical!vars /\ CInv'
<1>1. IInv' BY StutterInv DEF CInv
<1>2. UNCHANGED <<status, stack, frames, heap, ghosts>> /\ globals' = globals
      BY DEF vars, heap, ghosts
<1> QED BY <1>1, <1>2, NothingMeant DEF Lexical!vars

(* Closures share their variables and do not copy them: in a session that     *)
(* ends at its first error, every instruction of the virtual machine, with    *)
(* its slots, its list of open upvalues and its captures, does to the meaning *)
(* of the state what the machine that has one cell for each variable does, or *)
(* leaves that meaning alone.  The hypothesis is the one of UpvaluesLive.     *)
THEOREM CellsImplemented == ~ContinueOnError => (Spec => ImplementsLexicalCells)
<1> SUFFICES ASSUME ~ContinueOnError PROVE Spec => ImplementsLexicalCells OBVIOUS
<1>1. Init => Lexical!Init /\ CInv BY InitMeans
<1>2. CInv /\ [Next]_vars => [Lexical!Next]_Lexical!vars /\ CInv'
  <2>1. ASSUME CInv, Next PROVE [Lexical!Next]_Lexical!vars /\ CInv' BY <2>1, NextMeans
  <2>2. ASSUME CInv, UNCHANGED vars PROVE [Lexical!Next]_Lexical!vars /\ CInv'
        BY <2>2, StutterMeans
  <2> QED BY <2>1, <2>2
<1> QED BY <1>1, <1>2, PTL DEF Spec, ImplementsLexicalCells, Lexical!Spec
=============================================================================
