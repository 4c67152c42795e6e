---------------------------- MODULE ScopesProofs ----------------------------
(* Proofs about Scopes, for every value of its bounds.                       *)
(*                                                                           *)
(* What the compiler and the machine agree on is the height of the stack: an *)
(* instruction is emitted for a number of values (the locals in scope, and   *)
(* the operands above them) and has to run on as many.  A run finds that     *)
(* number when whatever goes from one instruction to another, to the next    *)
(* one or along a jump, is emitted for it on both sides: Flow.  While a      *)
(* statement is not complete, jumps of it have no target yet, so the         *)
(* invariant also says what the statements that the parser is inside of, and *)
(* the loops, are going to do with theirs: EntriesOK and LoopsOK, and that   *)
(* each such jump belongs to one of them: AllOwned.  They measure heights by *)
(* scopes (Within), because it is the end of a scope that gives up locals.   *)
(*                                                                           *)
(* That no upvalue stays open on a slot that is given up needs a second one: *)
(* a set of slots for each instruction, that has in it every slot that may   *)
(* be open there whatever way the program comes, and that no OP_POP takes a  *)
(* slot from (Tracks).  The compiler learns late that a local is captured,   *)
(* after code that was emitted while it was not: the sets then grow, from    *)
(* the place on where the local came to be (Alive, Capturing), and that is   *)
(* sound because no jump in between goes back to before that place.          *)
EXTENDS Scopes, FiniteSetTheorems, WellFoundedInduction, TLAPS

(* The types of the compiler's state. *)
Instructions == [op : Ops, to : Nat, height : Nat, captures : SUBSET Nat]
LocalSet == [depth : Nat, captured : BOOLEAN]
Entries == [kind : Kinds, jumps : SUBSET Nat, start : Nat, depth : Nat, done : BOOLEAN]
LoopSet == [target : Nat, breaks : SUBSET Nat, base : Nat, at : Nat]

(* The instructions that jump, and the statements that loop. *)
JumpOps == {"jump", "loop", "jumpIfFalse"}
LoopKinds == {"while", "for"}

(* The height at position p of code c, when what comes next starts at e. *)
HeightAt(c, e, p) == IF p = Len(c) + 1 THEN e ELSE c[p].height

(* A jump from height h may go where height k is expected: the same, unless  *)
(* it leaves locals behind.                                                  *)
Reaches(h, k) == k <= h /\ (CleanExits => k = h)

(* What an instruction leaves on the stack is what the next one, and the one *)
(* it jumps to, was emitted for.                                             *)
StepOK(c, e, n) ==
    /\ c[n].op \in {"push", "closure"} => HeightAt(c, e, n + 1) = c[n].height + 1
    /\ c[n].op \in {"pop", "close", "define"} => HeightAt(c, e, n + 1) + 1 = c[n].height
    /\ c[n].op = "jumpIfFalse" => HeightAt(c, e, n + 1) = c[n].height
    /\ c[n].op \in JumpOps /\ c[n].to # NoTarget =>
          c[n].to \in 1..(Len(c) + 1) /\ Reaches(c[n].height, HeightAt(c, e, c[n].to))

(* The code fits together. *)
Flow(c, e) ==
    /\ c \in Seq(Instructions) /\ e \in Nat
    /\ \A n \in 1..Len(c) : StepOK(c, e, n)

(* The locals are in the order of their scopes, none deeper than d. *)
LocalsOK(ls, d) ==
    /\ ls \in Seq(LocalSet) /\ Len(ls) >= 1 /\ Len(ls) <= MaxLocals /\ ls[1].depth = 0
    /\ \A m \in 1..Len(ls) : ls[m].depth <= d
    /\ \A m, n \in 1..Len(ls) : m <= n => ls[m].depth <= ls[n].depth

(* How many locals are in scopes no deeper than d. *)
Within(ls, d) ==
    CHOOSE n \in 0..Len(ls) :
        /\ n > 0 => ls[n].depth <= d
        /\ \A m \in (n + 1)..Len(ls) : ls[m].depth > d

(* The statements are in the order of their scopes; d is that of the last. *)
Outside == IF type = "script" THEN 0 ELSE 1
NestOK(ns, outside, d) ==
    /\ ns \in Seq(Entries) /\ outside \in Nat
    /\ d = IF Len(ns) = 0 THEN outside ELSE ns[Len(ns)].depth
    /\ \A i \in 1..Len(ns) : 
         /\ outside <= ns[i].depth
         /\ ns[i].depth = (IF i = 1 THEN outside ELSE ns[i - 1].depth)
                          + (IF ns[i].kind \in {"block", "for"} THEN 1 ELSE 0)
    /\ \A i, j \in 1..Len(ns) : i <= j => ns[i].depth <= ns[j].depth

(* What a statement has left in the code to be completed. *)
EntryOK(c, e, ls, x) ==
    /\ x.kind = "block" => x.jumps = {}
    /\ \A n \in x.jumps :
         /\ n \in 1..Len(c) /\ c[n].op \in JumpOps
         /\ c[n].height = Within(ls, x.depth) + (IF x.kind = "else" THEN 0 ELSE 1)
    /\ x.kind \in LoopKinds =>
         x.start \in 1..(Len(c) + 1) /\ HeightAt(c, e, x.start) = Within(ls, x.depth)

(* A loop is one of the statements; its breaks go to its end. *)
LoopOK(c, ls, ns, l) ==
    /\ l.at \in 1..Len(ns) /\ ns[l.at].kind \in LoopKinds /\ l.target = ns[l.at].start
    /\ l.base = Within(ls, ns[l.at].depth)
    /\ IsFiniteSet(l.breaks) /\ Cardinality(l.breaks) <= MaxBreaks
    /\ \A n \in l.breaks : n \in 1..Len(c) /\ c[n].op = "jump" /\ Reaches(c[n].height, l.base)

(* The loops are in order, and no loop statement lacks one. *)
LoopsOK(c, ls, ns, lps) ==
    /\ lps \in Seq(LoopSet)
    /\ \A j \in 1..Len(lps) : LoopOK(c, ls, ns, lps[j])
    /\ \A i, j \in 1..Len(lps) : i < j => lps[i].at < lps[j].at
    /\ \A i \in 1..Len(ns) : ns[i].kind \in LoopKinds => \E j \in 1..Len(lps) : lps[j].at = i

(* The jumps that patchJump is still to be called for. *)
Unpatched(c, n) == c[n].op \in JumpOps /\ c[n].to = NoTarget
Owned(ns, lps, n) ==
    \/ \E i \in 1..Len(ns) : n \in ns[i].jumps
    \/ \E j \in 1..Len(lps) : n \in lps[j].breaks

(* The statements that are not complete own all the jumps without a target. *)
EntriesOK(c, ls, ns) == \A i \in 1..Len(ns) : EntryOK(c, Len(ls), ls, ns[i])
AllOwned(c, ns, lps) == \A n \in 1..Len(c) : Unpatched(c, n) => Owned(ns, lps, n)

(* The code c, the locals ls at scope depth d and the statements ns and loops *)
(* lps that are not complete yet fit together.                               *)
Coherent(c, ls, d, ns, outside, lps) ==
    /\ Flow(c, Len(ls)) /\ LocalsOK(ls, d) /\ d \in Nat /\ NestOK(ns, outside, d)
    /\ EntriesOK(c, ls, ns) /\ LoopsOK(c, ls, ns, lps) /\ AllOwned(c, ns, lps)

(* While the function is compiled. *)
CompileOK ==
    /\ Coherent(code, locals, scopeDepth, nest, Outside, loops)
    /\ ip = 1 /\ stackTop \in Nat /\ HeightAt(code, Base, 1) = stackTop
    /\ openSlots = {}

(* Afterwards. *)
NothingLeft == locals = <<>> /\ nest = <<>> /\ loops = <<>> /\ scopeDepth = 0

(* While it runs: all jumps lead to its code, and the stack has the values *)
(* that the next instruction was emitted for.                              *)
RunOK ==
    /\ NothingLeft /\ Flow(code, 0) /\ Len(code) >= 1 /\ code[Len(code)].op = "return"
    /\ \A n \in 1..Len(code) : code[n].op \in JumpOps => code[n].to \in 1..Len(code)
    /\ ip \in 1..Len(code) /\ stackTop \in Nat /\ Reaches(stackTop, code[ip].height)
    /\ openSlots \subseteq Nat

(* The inductive invariant. *)
IInv ==
    /\ status \in {"compiling", "error", "running", "returned"}
    /\ type \in {"script", "function"} /\ statements \in 0..MaxStatements
    /\ status = "compiling" => CompileOK
    /\ status = "error" => NothingLeft /\ code = <<>> /\ ip = 1 /\ stackTop \in Nat /\ openSlots = {}
    /\ status \in {"running", "returned"} => RunOK

-----------------------------------------------------------------------------
(* Numbers and sequences. *)

(* A nonempty set of naturals has a least element. *)
LEMMA LeastNat ==
    ASSUME NEW S \in SUBSET Nat, S # {}
    PROVE  \E n \in S : \A m \in S : n <= m
<1>1. PICK n \in S : \A m \in S : <<m, n>> \notin OpToRel(<, Nat)
      BY WFMin, NatLessThanWellFounded, Zenon
<1>2. \A m \in S : ~(m < n)
      BY <1>1, Zenon DEF OpToRel
<1> QED BY <1>2

(* The first m elements of a sequence. *)
LEMMA Prefix ==
    ASSUME NEW S, NEW s \in Seq(S), NEW m \in 0..Len(s)
    PROVE  /\ SubSeq(s, 1, m) \in Seq(S) /\ Len(SubSeq(s, 1, m)) = m
           /\ \A i \in 1..m : SubSeq(s, 1, m)[i] = s[i]
OBVIOUS

(* A sequence with one more element. *)
LEMMA Appended ==
    ASSUME NEW S, NEW s \in Seq(S), NEW v \in S
    PROVE  /\ Append(s, v) \in Seq(S) /\ Len(Append(s, v)) = Len(s) + 1
           /\ Append(s, v)[Len(s) + 1] = v
           /\ \A i \in 1..Len(s) : Append(s, v)[i] = s[i]
OBVIOUS

(* A sequence after another. *)
LEMMA Joined ==
    ASSUME NEW S, NEW s \in Seq(S), NEW t \in Seq(S)
    PROVE  /\ s \o t \in Seq(S) /\ Len(s \o t) = Len(s) + Len(t)
           /\ \A i \in 1..Len(s) : (s \o t)[i] = s[i]
           /\ \A i \in 1..Len(t) : (s \o t)[Len(s) + i] = t[i]
OBVIOUS

(* The same, for one element. *)
LEMMA JoinedAt ==
    ASSUME NEW S, NEW s \in Seq(S), NEW t \in Seq(S), NEW i \in 1..Len(t)
    PROVE  (s \o t)[Len(s) + i] = t[i] /\ Len(s \o t) = Len(s) + Len(t)
OBVIOUS

-----------------------------------------------------------------------------
(* Code that is emitted or patched. *)

(* c2, which ends at height e2, is c, which ended at e, and more: what was     *)
(* there is for the same heights, the jumps J have been patched, and of what  *)
(* is new the jumps N are to be.                                             *)
Grown(c, e, c2, e2, J, N) ==
    /\ Flow(c2, e2) /\ Len(c) <= Len(c2)
    /\ \A p \in 1..(Len(c) + 1) : HeightAt(c2, e2, p) = HeightAt(c, e, p)
    /\ \A n \in 1..Len(c) : c2[n].op = c[n].op /\ c2[n].height = c[n].height
    /\ \A n \in 1..Len(c2) :
         Unpatched(c2, n) => n \in N \/ (n \in 1..Len(c) /\ Unpatched(c, n) /\ n \notin J)

(* The heights and the targets of code that flows are naturals. *)
LEMMA FlowTypes ==
    ASSUME NEW c, NEW e, Flow(c, e)
    PROVE  /\ c \in Seq(Instructions) /\ Len(c) \in Nat /\ e \in Nat
           /\ DOMAIN c = 1..Len(c)
           /\ \A n \in 1..Len(c) : /\ c[n] \in Instructions /\ c[n].op \in Ops /\ c[n].to \in Nat
                                   /\ c[n].height \in Nat /\ c[n].captures \in SUBSET Nat
           /\ \A n \in 1..(Len(c) + 1) : HeightAt(c, e, n) \in Nat
<1>1. c \in Seq(Instructions) /\ Len(c) \in Nat /\ e \in Nat /\ DOMAIN c = 1..Len(c)
      BY DEF Flow
<1>2. ASSUME NEW n \in 1..Len(c)
      PROVE  /\ c[n] \in Instructions /\ c[n].op \in Ops /\ c[n].to \in Nat
             /\ c[n].height \in Nat /\ c[n].captures \in SUBSET Nat
  <2>1. c[n] \in Instructions BY <1>1
  <2> QED BY <2>1 DEF Instructions
<1>3. \A n \in 1..(Len(c) + 1) : HeightAt(c, e, n) \in Nat BY <1>1, <1>2 DEF HeightAt
<1> QED BY <1>1, <1>2, <1>3

(* Code has grown when nothing has been added. *)
LEMMA GrownSame ==
    ASSUME NEW c, NEW e, Flow(c, e) PROVE Grown(c, e, c, e, {}, {})
BY FlowTypes DEF Grown

(* Code that has grown may grow again. *)
LEMMA GrownTwice ==
    ASSUME NEW a, NEW ea, NEW b, NEW eb, NEW c, NEW ec, NEW J, NEW N, NEW J2, NEW N2,
           Flow(a, ea), Grown(a, ea, b, eb, J, N), Grown(b, eb, c, ec, J2, N2)
    PROVE  Grown(a, ea, c, ec, J \cup J2, (N \ J2) \cup N2)
<1>1. Len(a) \in Nat /\ Len(b) \in Nat /\ Len(c) \in Nat BY FlowTypes DEF Grown
<1>2. Flow(c, ec) /\ Len(a) <= Len(c) BY <1>1 DEF Grown
<1>3. ASSUME NEW p \in 1..(Len(a) + 1) PROVE HeightAt(c, ec, p) = HeightAt(a, ea, p)
  <2>1. p \in 1..(Len(b) + 1) BY <1>1 DEF Grown
  <2> QED BY <2>1 DEF Grown
<1>4. ASSUME NEW n \in 1..Len(a) PROVE c[n].op = a[n].op /\ c[n].height = a[n].height
  <2>1. n \in 1..Len(b) BY <1>1 DEF Grown
  <2> QED BY <2>1 DEF Grown
<1>5. ASSUME NEW n \in 1..Len(c), Unpatched(c, n)
      PROVE  \/ n \in (N \ J2) \cup N2
             \/ n \in 1..Len(a) /\ Unpatched(a, n) /\ n \notin J \cup J2
      BY <1>5 DEF Grown
<1> QED BY <1>2, <1>3, <1>4, <1>5 DEF Grown

(* Code without a jump that is patched already, after c. *)
LEMMA FlowJoined ==
    ASSUME NEW c, NEW e, Flow(c, e), NEW s, NEW e2, Flow(s, e2), HeightAt(s, e2, 1) = e, NEW N,
           \A n \in 1..Len(s) : s[n].op \in JumpOps => s[n].to = NoTarget /\ Len(c) + n \in N
    PROVE  Grown(c, e, c \o s, e2, {}, N)
<1> DEFINE d == c \o s
<1>1. /\ c \in Seq(Instructions) /\ s \in Seq(Instructions) /\ e \in Nat /\ e2 \in Nat
      /\ Len(c) \in Nat /\ Len(s) \in Nat
      BY FlowTypes
<1>2. /\ d \in Seq(Instructions) /\ Len(d) = Len(c) + Len(s)
      /\ \A i \in 1..Len(c) : d[i] = c[i]
      /\ \A i \in 1..Len(s) : d[Len(c) + i] = s[i]
      BY <1>1, Joined
<1> HIDE DEF d
<1>3. ASSUME NEW p \in 1..(Len(s) + 1) PROVE HeightAt(d, e2, Len(c) + p) = HeightAt(s, e2, p)
  <2>1. CASE p = Len(s) + 1 BY <2>1, <1>1, <1>2 DEF HeightAt
  <2>2. CASE p \in 1..Len(s)
    <3>1. Len(c) + p # Len(d) + 1 /\ p # Len(s) + 1 BY <2>2, <1>1, <1>2
    <3> QED BY <3>1, <2>2, <1>2 DEF HeightAt
  <2> QED BY <2>1, <2>2, <1>1
<1>4. ASSUME NEW p \in 1..(Len(c) + 1) PROVE HeightAt(d, e2, p) = HeightAt(c, e, p)
  <2>1. CASE p = Len(c) + 1 BY <2>1, <1>1, <1>3 DEF HeightAt
  <2>2. CASE p # Len(c) + 1
    <3>1. p \in 1..Len(c) /\ p # Len(d) + 1 BY <2>2, <1>1, <1>2
    <3> QED BY <3>1, <2>2, <1>2 DEF HeightAt
  <2> QED BY <2>1, <2>2
<1>5. ASSUME NEW n \in 1..Len(d)
      PROVE  \/ n \in 1..Len(c)
             \/ \E i \in 1..Len(s) : n = Len(c) + i
  <2>1. CASE n > Len(c)
    <3>1. n - Len(c) \in 1..Len(s) /\ n = Len(c) + (n - Len(c)) BY <2>1, <1>1, <1>2
    <3> QED BY <3>1
  <2> QED BY <2>1, <1>1, <1>2
<1>6. ASSUME NEW n \in 1..Len(d) PROVE StepOK(d, e2, n)
  <2>1. CASE n \in 1..Len(c)
    <3>1. d[n] = c[n] /\ StepOK(c, e, n) BY <2>1, <1>2 DEF Flow
    <3>2. n + 1 \in 1..(Len(c) + 1) BY <2>1, <1>1
    <3>3. HeightAt(d, e2, n + 1) = HeightAt(c, e, n + 1) BY <3>2, <1>4
    <3>4. c[n].to \in 1..(Len(c) + 1) =>
            c[n].to \in 1..(Len(d) + 1) /\ HeightAt(d, e2, c[n].to) = HeightAt(c, e, c[n].to)
          BY <1>1, <1>2, <1>4
    <3> QED BY <3>1, <3>3, <3>4 DEF StepOK
  <2>2. ASSUME NEW i \in 1..Len(s), n = Len(c) + i PROVE StepOK(d, e2, n)
    <3>1. d[n] = s[i] /\ StepOK(s, e2, i) BY <2>2, <1>2 DEF Flow
    <3>2. i + 1 \in 1..(Len(s) + 1) /\ n + 1 = Len(c) + (i + 1) BY <2>2, <1>1
    <3>3. HeightAt(d, e2, n + 1) = HeightAt(s, e2, i + 1) BY <3>2, <1>3
    <3>4. s[i].op \in JumpOps => s[i].to = NoTarget OBVIOUS
    <3> QED BY <3>1, <3>3, <3>4 DEF StepOK
  <2> QED BY <2>1, <2>2, <1>5
<1>7. Flow(d, e2) BY <1>1, <1>2, <1>6 DEF Flow
<1>8. ASSUME NEW n \in 1..Len(d), Unpatched(d, n)
      PROVE  n \in N \/ (n \in 1..Len(c) /\ Unpatched(c, n) /\ n \notin {})
  <2>1. CASE n \in 1..Len(c) BY <2>1, <1>2, <1>8 DEF Unpatched
  <2>2. ASSUME NEW i \in 1..Len(s), n = Len(c) + i PROVE n \in N
        BY <2>2, <1>2, <1>8 DEF Unpatched
  <2> QED BY <2>1, <2>2, <1>5
<1> QED BY <1>1, <1>2, <1>4, <1>7, <1>8 DEF Grown, d

(* One more instruction. *)
LEMMA FlowAppended ==
    ASSUME NEW c, NEW e, Flow(c, e), NEW x \in Instructions, x.height = e, NEW e2 \in Nat, NEW N,
           x.op \in {"push", "closure"} => e2 = e + 1,
           x.op \in {"pop", "close", "define"} => e2 + 1 = e,
           x.op = "jumpIfFalse" => e2 = e,
           x.op \in JumpOps => \/ x.to = NoTarget /\ Len(c) + 1 \in N
                               \/ x.to \in 1..(Len(c) + 1) /\ Reaches(e, HeightAt(c, e, x.to))
    PROVE  Grown(c, e, Append(c, x), e2, {}, N)
<1> DEFINE d == Append(c, x)
<1>1. c \in Seq(Instructions) /\ e \in Nat /\ Len(c) \in Nat BY FlowTypes
<1>2. /\ d \in Seq(Instructions) /\ Len(d) = Len(c) + 1 /\ d[Len(c) + 1] = x
      /\ \A i \in 1..Len(c) : d[i] = c[i]
      BY <1>1, Appended
<1> HIDE DEF d
<1>3. ASSUME NEW p \in 1..(Len(c) + 1) PROVE HeightAt(d, e2, p) = HeightAt(c, e, p)
  <2>1. CASE p = Len(c) + 1 BY <2>1, <1>1, <1>2 DEF HeightAt
  <2>2. CASE p # Len(c) + 1
    <3>1. p \in 1..Len(c) /\ p # Len(d) + 1 BY <2>2, <1>1, <1>2
    <3> QED BY <3>1, <2>2, <1>2 DEF HeightAt
  <2> QED BY <2>1, <2>2
<1>4. \A n \in 1..Len(d) : n \in 1..Len(c) \/ n = Len(c) + 1 BY <1>1, <1>2
<1>5. ASSUME NEW n \in 1..Len(d) PROVE StepOK(d, e2, n)
  <2>1. CASE n \in 1..Len(c)
    <3>1. d[n] = c[n] /\ StepOK(c, e, n) BY <2>1, <1>2 DEF Flow
    <3>2. n + 1 \in 1..(Len(c) + 1) BY <2>1, <1>1
    <3>3. HeightAt(d, e2, n + 1) = HeightAt(c, e, n + 1) BY <3>2, <1>3
    <3>4. c[n].to \in 1..(Len(c) + 1) =>
            c[n].to \in 1..(Len(d) + 1) /\ HeightAt(d, e2, c[n].to) = HeightAt(c, e, c[n].to)
          BY <1>1, <1>2, <1>3
    <3> QED BY <3>1, <3>3, <3>4 DEF StepOK
  <2>2. CASE n = Len(c) + 1
    <3>1. d[n] = x /\ HeightAt(d, e2, n + 1) = e2 BY <2>2, <1>1, <1>2 DEF HeightAt
    <3>2. x.to \in 1..(Len(c) + 1) =>
            x.to \in 1..(Len(d) + 1) /\ HeightAt(d, e2, x.to) = HeightAt(c, e, x.to)
          BY <1>1, <1>2, <1>3
    <3> QED BY <3>1, <3>2 DEF StepOK
  <2> QED BY <2>1, <2>2, <1>4
<1>6. Flow(d, e2) BY <1>1, <1>2, <1>5 DEF Flow
<1>7. ASSUME NEW n \in 1..Len(d), Unpatched(d, n)
      PROVE  n \in N \/ (n \in 1..Len(c) /\ Unpatched(c, n) /\ n \notin {})
  <2>1. CASE n \in 1..Len(c) BY <2>1, <1>2, <1>7 DEF Unpatched
  <2>2. CASE n = Len(c) + 1
    <3>1. 0 \notin 1..(Len(c) + 1) BY <1>1
    <3> QED BY <3>1, <2>2, <1>2, <1>7 DEF Unpatched, NoTarget
  <2> QED BY <2>1, <2>2, <1>4
<1> QED BY <1>1, <1>2, <1>3, <1>6, <1>7 DEF Grown, d

(* patchJump: the jumps J were made at heights that reach the end of the code. *)
LEMMA FlowPatched ==
    ASSUME NEW c, NEW e, Flow(c, e), NEW J,
           \A n \in J : n \in 1..Len(c) /\ c[n].op \in JumpOps /\ Reaches(c[n].height, e)
    PROVE  /\ Grown(c, e, Patch(c, J), e, J, {}) /\ Len(Patch(c, J)) = Len(c)
           /\ \A n \in 1..Len(c) : /\ Patch(c, J)[n].op = c[n].op
                                   /\ Patch(c, J)[n].height = c[n].height
<1> DEFINE d == Patch(c, J)
           end == Next1(c)
<1>1. /\ c \in Seq(Instructions) /\ e \in Nat /\ Len(c) \in Nat
      /\ DOMAIN c = 1..Len(c) /\ end = Len(c) + 1 /\ end \in Nat
      /\ \A n \in 1..Len(c) : c[n] \in Instructions
      BY FlowTypes DEF Next1
<1> HIDE DEF end
<1>2. d = [n \in 1..Len(c) |-> IF n \in J THEN [c[n] EXCEPT !.to = end] ELSE c[n]]
      BY <1>1 DEF Patch, end
<1>3. ASSUME NEW n \in 1..Len(c)
      PROVE  /\ d[n] \in Instructions /\ d[n].op = c[n].op /\ d[n].height = c[n].height
             /\ d[n].to = IF n \in J THEN end ELSE c[n].to
  <2> DEFINE x == c[n]
             y == [x EXCEPT !.to = end]
  <2>1. d[n] = IF n \in J THEN y ELSE x BY <1>2
  <2>2. x \in Instructions BY <1>1
  <2> HIDE DEF x, d
  <2>3. y \in Instructions /\ y.op = x.op /\ y.height = x.height /\ y.to = end
        BY <1>1, <2>2 DEF Instructions
  <2> QED BY <2>1, <2>2, <2>3 DEF x
<1> HIDE DEF d
<1>4. d \in Seq(Instructions) /\ Len(d) = Len(c)
  <2>1. DOMAIN d = 1..Len(c) /\ d = [n \in 1..Len(c) |-> d[n]] BY <1>2
  <2> QED BY <1>1, <1>3, <2>1
<1>5. ASSUME NEW p \in 1..(Len(c) + 1) PROVE HeightAt(d, e, p) = HeightAt(c, e, p)
      BY <1>1, <1>3, <1>4 DEF HeightAt
<1>6. ASSUME NEW n \in 1..Len(c) PROVE StepOK(d, e, n)
  <2>1. StepOK(c, e, n) BY DEF Flow
  <2>2. n + 1 \in 1..(Len(c) + 1) BY <1>1
  <2>3. HeightAt(d, e, n + 1) = HeightAt(c, e, n + 1) BY <2>2, <1>5
  <2>4. c[n].to \in 1..(Len(c) + 1) => HeightAt(d, e, c[n].to) = HeightAt(c, e, c[n].to)
        BY <1>5
  <2>5. end \in 1..(Len(d) + 1) /\ HeightAt(d, e, end) = e BY <1>1, <1>4 DEF HeightAt
  <2>6. CASE n \in J
    <3>1. Reaches(c[n].height, e) /\ d[n].to = end BY <2>6, <1>3
    <3> QED BY <2>1, <2>3, <2>5, <3>1, <1>3 DEF StepOK
  <2>7. CASE n \notin J BY <2>1, <2>3, <2>4, <2>7, <1>3, <1>4 DEF StepOK
  <2> QED BY <2>6, <2>7
<1>7. Flow(d, e) BY <1>1, <1>4, <1>6 DEF Flow
<1>8. ASSUME NEW n \in 1..Len(d), Unpatched(d, n)
      PROVE  n \in {} \/ (n \in 1..Len(c) /\ Unpatched(c, n) /\ n \notin J)
  <2>1. end # 0 BY <1>1
  <2> QED BY <2>1, <1>3, <1>4, <1>8 DEF Unpatched, NoTarget
<1>9. Grown(c, e, d, e, J, {}) BY <1>1, <1>3, <1>4, <1>5, <1>7, <1>8 DEF Grown
<1> QED BY <1>3, <1>4, <1>9 DEF d

-----------------------------------------------------------------------------
(* How many locals a scope and the scopes around it have. *)

WithinIs(ls, d, n) ==
    /\ n \in 0..Len(ls) /\ (n > 0 => ls[n].depth <= d)
    /\ \A m \in (n + 1)..Len(ls) : ls[m].depth > d

(* The depths of locals are naturals. *)
LEMMA LocalTypes ==
    ASSUME NEW ls \in Seq(LocalSet)
    PROVE  /\ Len(ls) \in Nat
           /\ \A m \in 1..Len(ls) : /\ ls[m] \in LocalSet
                                    /\ ls[m].depth \in Nat /\ ls[m].captured \in BOOLEAN
<1>1. \A m \in 1..Len(ls) : ls[m] \in LocalSet OBVIOUS
<1> QED BY <1>1 DEF LocalSet

(* Within(ls, d) is the only number of its kind. *)
LEMMA WithinOnly ==
    ASSUME NEW ls \in Seq(LocalSet), NEW d \in Nat, NEW n, WithinIs(ls, d, n)
    PROVE  Within(ls, d) = n
<1>1. Len(ls) \in Nat /\ \A m \in 1..Len(ls) : ls[m].depth \in Nat BY LocalTypes
<1>2. ASSUME NEW m, WithinIs(ls, d, m) PROVE m = n
  <2>1. m \in 0..Len(ls) /\ n \in 0..Len(ls) BY <1>2 DEF WithinIs
  <2>2. CASE m < n
    <3>1. n \in (m + 1)..Len(ls) /\ n > 0 /\ n \in 1..Len(ls) BY <2>1, <2>2, <1>1
    <3> QED BY <3>1, <1>1, <1>2 DEF WithinIs
  <2>3. CASE n < m
    <3>1. m \in (n + 1)..Len(ls) /\ m > 0 /\ m \in 1..Len(ls) BY <2>1, <2>3, <1>1
    <3> QED BY <3>1, <1>1, <1>2 DEF WithinIs
  <2> QED BY <2>1, <2>2, <2>3, <1>1
<1> QED BY <1>2 DEF Within, WithinIs

(* Within(ls, d) is such a number: the locals are sorted by depth. *)
LEMMA WithinHolds ==
    ASSUME NEW ls \in Seq(LocalSet), NEW d \in Nat
    PROVE  WithinIs(ls, d, Within(ls, d)) /\ Within(ls, d) \in Nat
<1> DEFINE S == {n \in 0..Len(ls) : \A m \in (n + 1)..Len(ls) : ls[m].depth > d}
<1>1. Len(ls) \in Nat /\ \A m \in 1..Len(ls) : ls[m].depth \in Nat BY LocalTypes
<1>2. Len(ls) \in S BY <1>1
<1>3. S \in SUBSET Nat BY <1>1
<1> HIDE DEF S
<1>4. PICK n \in S : \A m \in S : n <= m BY <1>2, <1>3, LeastNat
<1>5. n \in 0..Len(ls) /\ \A m \in (n + 1)..Len(ls) : ls[m].depth > d BY <1>4 DEF S
<1>6. ASSUME n > 0, ls[n].depth > d PROVE FALSE
  <2>1. n - 1 \in 0..Len(ls) BY <1>5, <1>6, <1>1
  <2>2. ASSUME NEW m \in ((n - 1) + 1)..Len(ls) PROVE ls[m].depth > d
    <3>1. m = n \/ m \in (n + 1)..Len(ls) BY <1>5, <1>1
    <3> QED BY <3>1, <1>5, <1>6
  <2>3. n - 1 \in S BY <2>1, <2>2 DEF S
  <2> QED BY <2>3, <1>4, <1>5
<1>7. n > 0 => ls[n].depth <= d
  <2>1. n > 0 => n \in 1..Len(ls) BY <1>5, <1>1
  <2> QED BY <2>1, <1>1, <1>6
<1>8. WithinIs(ls, d, n) BY <1>5, <1>7 DEF WithinIs
<1>9. Within(ls, d) = n BY <1>8, WithinOnly
<1> QED BY <1>5, <1>8, <1>9, <1>1

(* The locals of the function are all within its deepest scope. *)
LEMMA WithinAll ==
    ASSUME NEW ls, NEW d \in Nat, LocalsOK(ls, d)
    PROVE  Within(ls, d) = Len(ls)
<1>1. ls \in Seq(LocalSet) BY DEF LocalsOK
<1>2. Len(ls) \in Nat BY <1>1
<1>3. WithinIs(ls, d, Len(ls)) BY <1>2 DEF WithinIs, LocalsOK
<1> QED BY <1>1, <1>3, WithinOnly

(* A local that is deeper than d is not within it. *)
LEMMA WithinAppended ==
    ASSUME NEW ls \in Seq(LocalSet), NEW d \in Nat, NEW x \in LocalSet, x.depth > d
    PROVE  Within(Append(ls, x), d) = Within(ls, d)
<1> DEFINE l2 == Append(ls, x)
           n == Within(ls, d)
<1>1. l2 \in Seq(LocalSet) /\ Len(l2) = Len(ls) + 1 /\ Len(ls) \in Nat /\ l2[Len(ls) + 1] = x
      BY Appended
<1>2. \A m \in 1..Len(ls) : l2[m] = ls[m] BY Appended
<1>3. WithinIs(ls, d, n) BY WithinHolds
<1> HIDE DEF l2, n
<1>4. n \in 0..Len(ls) /\ n \in 0..Len(l2) BY <1>1, <1>3 DEF WithinIs
<1>5. n > 0 => l2[n].depth <= d
  <2>1. n > 0 => n \in 1..Len(ls) BY <1>4, <1>1
  <2> QED BY <2>1, <1>2, <1>3 DEF WithinIs
<1>6. ASSUME NEW m \in (n + 1)..Len(l2) PROVE l2[m].depth > d
  <2>1. CASE m = Len(ls) + 1 BY <2>1, <1>1
  <2>2. CASE m # Len(ls) + 1
    <3>1. m \in (n + 1)..Len(ls) /\ m \in 1..Len(ls) BY <2>2, <1>1, <1>4
    <3> QED BY <3>1, <1>2, <1>3 DEF WithinIs
  <2> QED BY <2>1, <2>2
<1>7. WithinIs(l2, d, n) BY <1>4, <1>5, <1>6 DEF WithinIs
<1>8. Within(l2, d) = n BY <1>1, <1>7, WithinOnly
<1> QED BY <1>8 DEF l2, n

(* To be captured changes nothing. *)
LEMMA WithinMarked ==
    ASSUME NEW ls \in Seq(LocalSet), NEW d \in Nat, NEW l2 \in Seq(LocalSet), Len(l2) = Len(ls),
           \A m \in 1..Len(ls) : l2[m].depth = ls[m].depth
    PROVE  Within(l2, d) = Within(ls, d)
<1> DEFINE n == Within(ls, d)
<1>1. Len(ls) \in Nat BY LocalTypes
<1>2. WithinIs(ls, d, n) BY WithinHolds
<1> HIDE DEF n
<1>3. n \in 0..Len(ls) BY <1>2 DEF WithinIs
<1>4. n > 0 => n \in 1..Len(ls) BY <1>1, <1>3
<1>5. ASSUME NEW m \in (n + 1)..Len(l2) PROVE l2[m].depth > d
  <2>1. m \in 1..Len(ls) BY <1>1, <1>3
  <2> QED BY <2>1, <1>2 DEF WithinIs
<1>6. WithinIs(l2, d, n) BY <1>2, <1>3, <1>4, <1>5 DEF WithinIs
<1>7. Within(l2, d) = n BY <1>6, WithinOnly
<1> QED BY <1>7 DEF n

(* Nor does to give up what is deeper. *)
LEMMA WithinCut ==
    ASSUME NEW ls \in Seq(LocalSet), NEW d \in Nat, NEW e \in Nat, d <= e
    PROVE  /\ Within(SubSeq(ls, 1, Within(ls, e)), d) = Within(ls, d)
           /\ Within(ls, d) <= Within(ls, e)
<1> DEFINE k == Within(ls, e)
           n == Within(ls, d)
           l2 == SubSeq(ls, 1, k)
<1>1. Len(ls) \in Nat /\ \A m \in 1..Len(ls) : ls[m].depth \in Nat BY LocalTypes
<1>2. WithinIs(ls, d, n) /\ WithinIs(ls, e, k) BY WithinHolds
<1> HIDE DEF k, n
<1>3. n \in 0..Len(ls) /\ k \in 0..Len(ls) BY <1>2 DEF WithinIs
<1>4. l2 \in Seq(LocalSet) /\ Len(l2) = k /\ \A i \in 1..k : l2[i] = ls[i]
      BY <1>3, Prefix
<1> HIDE DEF l2
<1>5. n <= k
  <2> SUFFICES ASSUME n > k PROVE FALSE BY <1>3, <1>1
  <2>1. n \in (k + 1)..Len(ls) /\ n > 0 /\ n \in 1..Len(ls) BY <1>3, <1>1
  <2>2. ls[n].depth > e /\ ls[n].depth <= d BY <2>1, <1>2 DEF WithinIs
  <2> QED BY <2>1, <2>2, <1>1
<1>6. n > 0 => l2[n].depth <= d
  <2>1. n > 0 => n \in 1..k BY <1>3, <1>5, <1>1
  <2> QED BY <2>1, <1>2, <1>4 DEF WithinIs
<1>7. ASSUME NEW m \in (n + 1)..k PROVE l2[m].depth > d
  <2>1. m \in 1..k /\ m \in (n + 1)..Len(ls) BY <1>1, <1>3
  <2> QED BY <2>1, <1>2, <1>4 DEF WithinIs
<1>8. WithinIs(l2, d, n) BY <1>3, <1>4, <1>5, <1>6, <1>7 DEF WithinIs
<1>9. Within(l2, d) = n BY <1>4, <1>8, WithinOnly
<1> QED BY <1>5, <1>9 DEF k, n, l2

-----------------------------------------------------------------------------
(* The locals and the statements, as scopes are entered and left. *)

(* A local of the innermost scope is declared. *)
LEMMA LocalsAppended ==
    ASSUME NEW ls, NEW d \in Nat, LocalsOK(ls, d), NEW x \in LocalSet, d <= x.depth,
           Len(ls) < MaxLocals
    PROVE  LocalsOK(Append(ls, x), x.depth)
<1> DEFINE l2 == Append(ls, x)
<1>1. ls \in Seq(LocalSet) /\ MaxLocals \in Nat BY BoundsAssumption DEF LocalsOK
<1>2. Len(ls) \in Nat /\ (\A m \in 1..Len(ls) : ls[m].depth \in Nat) /\ x.depth \in Nat
      BY <1>1, LocalTypes DEF LocalSet
<1>3. l2 \in Seq(LocalSet) /\ Len(l2) = Len(ls) + 1 /\ l2[Len(ls) + 1] = x
      BY <1>1, Appended
<1>4. \A m \in 1..Len(ls) : l2[m] = ls[m] BY <1>1, Appended
<1> HIDE DEF l2
<1>5. Len(l2) >= 1 /\ Len(l2) <= MaxLocals /\ l2[1].depth = 0
      BY <1>1, <1>2, <1>3, <1>4 DEF LocalsOK
<1>6. ASSUME NEW m \in 1..Len(l2) PROVE l2[m].depth <= x.depth /\ l2[m].depth \in Nat
  <2>1. CASE m \in 1..Len(ls)
    <3>1. l2[m] = ls[m] /\ ls[m].depth <= d BY <2>1, <1>4 DEF LocalsOK
    <3> QED BY <3>1, <2>1, <1>2
  <2>2. CASE m = Len(ls) + 1 BY <2>2, <1>2, <1>3
  <2> QED BY <2>1, <2>2, <1>2, <1>3
<1>7. ASSUME NEW m \in 1..Len(l2), NEW n \in 1..Len(l2), m <= n PROVE l2[m].depth <= l2[n].depth
  <2>1. CASE n \in 1..Len(ls)
    <3>1. m \in 1..Len(ls) BY <2>1, <1>2, <1>3, <1>7
    <3> QED BY <3>1, <2>1, <1>4, <1>7 DEF LocalsOK
  <2>2. CASE n = Len(ls) + 1 BY <2>2, <1>3, <1>6
  <2> QED BY <2>1, <2>2, <1>2, <1>3
<1>8. LocalsOK(l2, x.depth) BY <1>3, <1>5, <1>6, <1>7 DEF LocalsOK
<1> QED BY <1>8 DEF l2

(* Locals are captured. *)
LEMMA LocalsMarked ==
    ASSUME NEW ls, NEW d \in Nat, LocalsOK(ls, d), NEW l2 \in Seq(LocalSet), Len(l2) = Len(ls),
           \A m \in 1..Len(ls) : l2[m].depth = ls[m].depth
    PROVE  LocalsOK(l2, d)
<1>1. 1 \in 1..Len(ls) BY DEF LocalsOK
<1> QED BY <1>1 DEF LocalsOK

(* A scope is entered. *)
LEMMA LocalsDeeper ==
    ASSUME NEW ls, NEW d \in Nat, LocalsOK(ls, d), NEW e \in Nat, d <= e
    PROVE  LocalsOK(ls, e)
<1>1. ls \in Seq(LocalSet) BY DEF LocalsOK
<1>2. \A m \in 1..Len(ls) : ls[m].depth \in Nat BY <1>1, LocalTypes
<1> QED BY <1>2 DEF LocalsOK

(* A scope is left, and its locals are given up. *)
LEMMA LocalsCut ==
    ASSUME NEW ls, NEW d \in Nat, LocalsOK(ls, d), NEW e \in Nat
    PROVE  /\ LocalsOK(SubSeq(ls, 1, Within(ls, e)), e)
           /\ Len(SubSeq(ls, 1, Within(ls, e))) = Within(ls, e)
           /\ Within(ls, e) \in 1..Len(ls)
<1> DEFINE k == Within(ls, e)
           l2 == SubSeq(ls, 1, k)
<1>1. ls \in Seq(LocalSet) /\ MaxLocals \in Nat BY BoundsAssumption DEF LocalsOK
<1>2. Len(ls) \in Nat /\ \A m \in 1..Len(ls) : ls[m].depth \in Nat BY <1>1, LocalTypes
<1>3. WithinIs(ls, e, k) BY <1>1, WithinHolds
<1> HIDE DEF k
<1>4. k \in 0..Len(ls) BY <1>3 DEF WithinIs
<1>5. l2 \in Seq(LocalSet) /\ Len(l2) = k /\ \A i \in 1..k : l2[i] = ls[i]
      BY <1>1, <1>4, Prefix
<1> HIDE DEF l2
<1>6. k >= 1
  <2>1. 1 \in 1..Len(ls) /\ ls[1].depth = 0 BY <1>2 DEF LocalsOK
  <2> SUFFICES ASSUME k = 0 PROVE FALSE BY <1>4
  <2>2. 1 \in (k + 1)..Len(ls) BY <2>1
  <2> QED BY <2>1, <2>2, <1>3 DEF WithinIs
<1>7. k \in 1..Len(ls) BY <1>4, <1>6, <1>2
<1>8. Len(l2) <= MaxLocals /\ l2[1].depth = 0
  <2>1. Len(ls) <= MaxLocals /\ ls[1].depth = 0 BY DEF LocalsOK
  <2>2. 1 \in 1..k /\ l2[1] = ls[1] BY <1>5, <1>6, <1>7
  <2> QED BY <2>1, <2>2, <1>1, <1>2, <1>5, <1>7
<1>9. ASSUME NEW m \in 1..k, NEW n \in 1..k, m <= n PROVE l2[m].depth <= l2[n].depth
  <2>1. m \in 1..Len(ls) /\ n \in 1..Len(ls) BY <1>2, <1>7
  <2> QED BY <2>1, <1>5, <1>9 DEF LocalsOK
<1>10. ASSUME NEW m \in 1..k PROVE l2[m].depth <= e
  <2>1. ls[k].depth <= e /\ ls[k].depth \in Nat BY <1>3, <1>6, <1>7, <1>2 DEF WithinIs
  <2>2. k \in 1..k /\ m <= k /\ m \in 1..Len(ls) BY <1>7, <1>2
  <2>3. l2[m].depth <= l2[k].depth /\ l2[k] = ls[k] /\ l2[m] = ls[m] BY <2>2, <1>9, <1>5
  <2> QED BY <2>1, <2>2, <2>3, <1>2
<1>11. LocalsOK(l2, e) BY <1>5, <1>6, <1>8, <1>9, <1>10 DEF LocalsOK
<1> QED BY <1>5, <1>7, <1>11 DEF k, l2

(* The depths of the statements are naturals. *)
LEMMA NestTypes ==
    ASSUME NEW ns \in Seq(Entries)
    PROVE  /\ Len(ns) \in Nat
           /\ \A i \in 1..Len(ns) :
                /\ ns[i] \in Entries /\ ns[i].kind \in Kinds /\ ns[i].jumps \in SUBSET Nat
                /\ ns[i].start \in Nat /\ ns[i].depth \in Nat /\ ns[i].done \in BOOLEAN
<1>1. \A i \in 1..Len(ns) : ns[i] \in Entries OBVIOUS
<1> QED BY <1>1 DEF Entries

(* No statement is in a scope deeper than the current one. *)
LEMMA NestDepth ==
    ASSUME NEW ns, NEW o, NEW d, NestOK(ns, o, d)
    PROVE  /\ d \in Nat /\ o \in Nat /\ o <= d /\ ns \in Seq(Entries)
           /\ \A i \in 1..Len(ns) : ns[i].depth <= d
<1>1. ns \in Seq(Entries) /\ o \in Nat BY DEF NestOK
<1>2. Len(ns) \in Nat /\ \A i \in 1..Len(ns) : ns[i].depth \in Nat BY <1>1, NestTypes
<1>3. CASE Len(ns) = 0 BY <1>1, <1>3 DEF NestOK
<1>4. CASE Len(ns) # 0
  <2>1. Len(ns) \in 1..Len(ns) /\ d = ns[Len(ns)].depth BY <1>2, <1>4 DEF NestOK
  <2>2. \A i \in 1..Len(ns) : ns[i].depth <= d BY <1>2, <2>1 DEF NestOK
  <2> QED BY <1>1, <1>2, <2>1, <2>2 DEF NestOK
<1> QED BY <1>3, <1>4

(* The first k statements, in ns and in ns2, are the same but for `done`. *)
KeptTo(ns, ns2, k) ==
    /\ k \in 0..Len(ns) /\ k <= Len(ns2)
    /\ \A i \in 1..k : /\ ns2[i].kind = ns[i].kind /\ ns2[i].jumps = ns[i].jumps
                       /\ ns2[i].start = ns[i].start /\ ns2[i].depth = ns[i].depth

(* That a statement is complete is noted in the one around it. *)
LEMMA CompleteKept ==
    ASSUME NEW ns \in Seq(Entries)
    PROVE  /\ Complete(ns) \in Seq(Entries) /\ Len(Complete(ns)) = Len(ns)
           /\ KeptTo(ns, Complete(ns), Len(ns))
<1>1. Len(ns) \in Nat /\ \A i \in 1..Len(ns) : ns[i] \in Entries BY NestTypes
<1>2. CASE ns = <<>> \/ Last(ns).kind = "block" BY <1>1, <1>2 DEF Complete, KeptTo
<1>3. CASE ~(ns = <<>> \/ Last(ns).kind = "block")
  <2> DEFINE n == Len(ns)
             x == ns[n]
             y == [x EXCEPT !.done = TRUE]
             n2 == [ns EXCEPT ![n] = y]
  <2>1. Complete(ns) = n2 BY <1>3 DEF Complete
  <2>2. n \in 1..Len(ns) BY <1>1, <1>3
  <2>3. x \in Entries BY <1>1, <2>2
  <2> HIDE DEF x
  <2>4. /\ y \in Entries /\ y.kind = x.kind /\ y.jumps = x.jumps /\ y.start = x.start
        /\ y.depth = x.depth
        BY <2>3 DEF Entries
  <2> HIDE DEF y
  <2>5. n2 \in Seq(Entries) /\ Len(n2) = Len(ns) /\ n2[n] = y
        /\ \A i \in 1..Len(ns) : i # n => n2[i] = ns[i]
        BY <2>2, <2>4
  <2> HIDE DEF n2, n
  <2>6. KeptTo(ns, n2, Len(ns)) BY <2>4, <2>5, <1>1 DEF KeptTo, x
  <2> QED BY <2>1, <2>5, <2>6
<1> QED BY <1>2, <1>3

(* The statements around the last one stay. *)
LEMMA LeaveKept ==
    ASSUME NEW ns \in Seq(Entries), ns # <<>>
    PROVE  /\ Complete(Front(ns)) \in Seq(Entries) /\ Len(Complete(Front(ns))) = Len(ns) - 1
           /\ KeptTo(ns, Complete(Front(ns)), Len(ns) - 1) /\ Len(ns) \in Nat \ {0}
<1> DEFINE f == Front(ns)
           k == Len(ns) - 1
<1>1. Len(ns) \in Nat \ {0} /\ k \in 0..Len(ns) BY NestTypes
<1>2. f = SubSeq(ns, 1, k) BY DEF Front
<1> HIDE DEF f, k
<1>3. f \in Seq(Entries) /\ Len(f) = k /\ \A i \in 1..k : f[i] = ns[i]
      BY <1>1, <1>2, Prefix
<1>4. Complete(f) \in Seq(Entries) /\ Len(Complete(f)) = k /\ KeptTo(f, Complete(f), k)
      BY <1>3, CompleteKept
<1>5. KeptTo(ns, Complete(f), k) BY <1>1, <1>3, <1>4 DEF KeptTo
<1> QED BY <1>1, <1>4, <1>5 DEF f, k

Scoped == {"block", "for"}

(* Statements that stay where they are. *)
LEMMA NestSame ==
    ASSUME NEW ns, NEW o, NEW d, NestOK(ns, o, d), NEW n2 \in Seq(Entries), Len(n2) = Len(ns),
           \A i \in 1..Len(ns) : n2[i].depth = ns[i].depth /\ (n2[i].kind \in Scoped <=> ns[i].kind \in Scoped)
    PROVE  NestOK(n2, o, d)
<1>1. ns \in Seq(Entries) /\ Len(ns) \in Nat BY DEF NestOK
<1>2. d = IF Len(n2) = 0 THEN o ELSE n2[Len(n2)].depth BY <1>1 DEF NestOK
<1>3. ASSUME NEW i \in 1..Len(n2)
      PROVE  /\ o <= n2[i].depth
             /\ n2[i].depth = (IF i = 1 THEN o ELSE n2[i - 1].depth)
                              + (IF n2[i].kind \in {"block", "for"} THEN 1 ELSE 0)
  <2>1. i # 1 => i - 1 \in 1..Len(ns) BY <1>1
  <2>2. i \in 1..Len(ns) OBVIOUS
  <2>3. ns[i].depth = (IF i = 1 THEN o ELSE ns[i - 1].depth)
                      + (IF ns[i].kind \in {"block", "for"} THEN 1 ELSE 0)
        BY <2>2 DEF NestOK
  <2> QED BY <2>1, <2>2, <2>3 DEF NestOK, Scoped
<1>4. \A i, j \in 1..Len(n2) : i <= j => n2[i].depth <= n2[j].depth BY DEF NestOK
<1> QED BY <1>2, <1>3, <1>4 DEF NestOK

(* A statement is entered. *)
LEMMA NestEntered ==
    ASSUME NEW ns, NEW o, NEW d, NestOK(ns, o, d), NEW x \in Entries,
           x.depth = d + (IF x.kind \in Scoped THEN 1 ELSE 0)
    PROVE  /\ NestOK(Append(ns, x), o, x.depth) /\ KeptTo(ns, Append(ns, x), Len(ns))
           /\ Len(Append(ns, x)) = Len(ns) + 1 /\ Append(ns, x)[Len(ns) + 1] = x
           /\ Len(ns) \in Nat
<1> DEFINE n2 == Append(ns, x)
<1>1. ns \in Seq(Entries) /\ d \in Nat /\ o \in Nat /\ o <= d BY NestDepth
<1>2. \A i \in 1..Len(ns) : ns[i].depth <= d BY NestDepth
<1>3. Len(ns) \in Nat /\ \A i \in 1..Len(ns) : ns[i].depth \in Nat BY <1>1, NestTypes
<1>4. n2 \in Seq(Entries) /\ Len(n2) = Len(ns) + 1 /\ n2[Len(ns) + 1] = x
      BY <1>1, Appended
<1>5. \A i \in 1..Len(ns) : n2[i] = ns[i] BY <1>1, Appended
<1> HIDE DEF n2
<1>6. x.depth \in Nat /\ d <= x.depth BY <1>1
<1>7. KeptTo(ns, n2, Len(ns)) BY <1>3, <1>4, <1>5 DEF KeptTo
<1>8. Len(n2) # 0 /\ n2[Len(n2)].depth = x.depth BY <1>3, <1>4
<1>9. ASSUME NEW i \in 1..Len(n2)
      PROVE  /\ o <= n2[i].depth
             /\ n2[i].depth = (IF i = 1 THEN o ELSE n2[i - 1].depth)
                              + (IF n2[i].kind \in {"block", "for"} THEN 1 ELSE 0)
  <2>1. CASE i \in 1..Len(ns)
    <3>1. n2[i] = ns[i] /\ (i # 1 => n2[i - 1] = ns[i - 1])
      <4>1. i # 1 => i - 1 \in 1..Len(ns) BY <2>1, <1>3
      <4> QED BY <4>1, <2>1, <1>5
    <3>2. /\ o <= ns[i].depth
          /\ ns[i].depth = (IF i = 1 THEN o ELSE ns[i - 1].depth)
                           + (IF ns[i].kind \in {"block", "for"} THEN 1 ELSE 0)
          BY <2>1 DEF NestOK
    <3> QED BY <3>1, <3>2
  <2>2. CASE i = Len(ns) + 1
    <3>1. n2[i] = x /\ o <= x.depth BY <2>2, <1>1, <1>4, <1>6
    <3>2. d = IF i = 1 THEN o ELSE n2[i - 1].depth
      <4>1. CASE Len(ns) = 0 BY <4>1, <2>2 DEF NestOK
      <4>2. CASE Len(ns) # 0
        <5>1. Len(ns) \in 1..Len(ns) /\ i - 1 = Len(ns) /\ i # 1 BY <4>2, <2>2, <1>3
        <5>2. d = ns[Len(ns)].depth BY <4>2 DEF NestOK
        <5> QED BY <5>1, <5>2, <1>5
      <4> QED BY <4>1, <4>2
    <3> QED BY <3>1, <3>2 DEF Scoped
  <2> QED BY <2>1, <2>2, <1>3, <1>4
<1>10. ASSUME NEW i \in 1..Len(n2), NEW j \in 1..Len(n2), i <= j PROVE n2[i].depth <= n2[j].depth
  <2>1. CASE j \in 1..Len(ns)
    <3>1. i \in 1..Len(ns) BY <2>1, <1>3, <1>4, <1>10
    <3> QED BY <3>1, <2>1, <1>5, <1>10 DEF NestOK
  <2>2. CASE j = Len(ns) + 1
    <3>1. CASE i \in 1..Len(ns)
      <4>1. n2[i].depth = ns[i].depth /\ ns[i].depth <= d /\ ns[i].depth \in Nat
            BY <3>1, <1>2, <1>3, <1>5
      <4>2. n2[j] = x /\ d <= x.depth /\ x.depth \in Nat BY <2>2, <1>1, <1>4, <1>6
      <4> QED BY <4>1, <4>2, <1>1
    <3>2. CASE i = Len(ns) + 1 BY <3>2, <2>2, <1>4, <1>6
    <3> QED BY <3>1, <3>2, <1>3, <1>4
  <2> QED BY <2>1, <2>2, <1>3, <1>4
<1>11. NestOK(n2, o, x.depth) BY <1>1, <1>4, <1>8, <1>9, <1>10 DEF NestOK
<1> QED BY <1>3, <1>4, <1>7, <1>11 DEF n2

(* The statement that is left, and the scope it leaves. *)
LEMMA NestLeft ==
    ASSUME NEW ns, NEW o, NEW d, NestOK(ns, o, d), ns # <<>>
    PROVE  /\ NestOK(Complete(Front(ns)), o, d - (IF Last(ns).kind \in Scoped THEN 1 ELSE 0))
           /\ KeptTo(ns, Complete(Front(ns)), Len(ns) - 1)
           /\ Len(Complete(Front(ns))) = Len(ns) - 1 /\ Len(ns) \in Nat \ {0}
           /\ Last(ns) = ns[Len(ns)] /\ Last(ns).depth = d
           /\ \A i \in 1..(Len(ns) - 1) : ns[i].depth <= d - (IF Last(ns).kind \in Scoped THEN 1 ELSE 0)
<1> DEFINE n2 == Complete(Front(ns))
           k == Len(ns) - 1
           e == d - (IF Last(ns).kind \in Scoped THEN 1 ELSE 0)
<1>1. ns \in Seq(Entries) /\ d \in Nat /\ o \in Nat BY NestDepth
<1>2. Len(ns) \in Nat /\ \A i \in 1..Len(ns) : ns[i].depth \in Nat BY <1>1, NestTypes
<1>3. n2 \in Seq(Entries) /\ Len(n2) = k /\ KeptTo(ns, n2, k) /\ Len(ns) \in Nat \ {0}
      BY <1>1, LeaveKept
<1>4. Last(ns) = ns[Len(ns)] BY DEF Last
<1> HIDE DEF n2
<1>5. \A i \in 1..k : n2[i].depth = ns[i].depth /\ n2[i].kind = ns[i].kind BY <1>3 DEF KeptTo
<1>6. Len(ns) \in 1..Len(ns) /\ d = ns[Len(ns)].depth BY <1>3 DEF NestOK
<1>7. e = IF k = 0 THEN o ELSE ns[k].depth
  <2>1. d = (IF Len(ns) = 1 THEN o ELSE ns[Len(ns) - 1].depth)
            + (IF ns[Len(ns)].kind \in {"block", "for"} THEN 1 ELSE 0)
        BY <1>6 DEF NestOK
  <2>2. Len(ns) # 1 => Len(ns) - 1 \in 1..Len(ns) BY <1>3
  <2>3. CASE Len(ns) = 1 BY <2>1, <2>3, <1>1, <1>3, <1>4 DEF Scoped
  <2>4. CASE Len(ns) # 1
    <3>1. k # 0 /\ ns[k].depth \in Nat BY <2>2, <2>4, <1>2, <1>3
    <3> QED BY <2>1, <2>4, <3>1, <1>1, <1>4 DEF Scoped
  <2> QED BY <2>3, <2>4
<1>8. k = Len(n2) /\ k \in Nat /\ \A i \in 1..k : i \in 1..Len(ns) BY <1>3
<1>9. e = IF Len(n2) = 0 THEN o ELSE n2[Len(n2)].depth
  <2>1. k # 0 => k \in 1..k BY <1>8
  <2> QED BY <2>1, <1>5, <1>7, <1>8
<1> HIDE DEF e, k
<1>10. ASSUME NEW i \in 1..k
       PROVE  /\ o <= n2[i].depth
              /\ n2[i].depth = (IF i = 1 THEN o ELSE n2[i - 1].depth)
                               + (IF n2[i].kind \in {"block", "for"} THEN 1 ELSE 0)
  <2>1. i # 1 => i - 1 \in 1..k BY <1>8
  <2>2. i \in 1..Len(ns) BY <1>8
  <2>3. /\ o <= ns[i].depth
        /\ ns[i].depth = (IF i = 1 THEN o ELSE ns[i - 1].depth)
                         + (IF ns[i].kind \in {"block", "for"} THEN 1 ELSE 0)
        BY <2>2 DEF NestOK
  <2> QED BY <2>1, <2>3, <1>5
<1>11. \A i, j \in 1..k : i <= j => n2[i].depth <= n2[j].depth BY <1>5, <1>8 DEF NestOK
<1>12. NestOK(n2, o, e) BY <1>1, <1>3, <1>8, <1>9, <1>10, <1>11 DEF NestOK
<1>13. ASSUME NEW i \in 1..k PROVE ns[i].depth <= e
  <2>1. k \in 1..Len(ns) /\ i \in 1..Len(ns) /\ i <= k /\ k # 0 BY <1>8
  <2>2. ns[i].depth <= ns[k].depth BY <2>1 DEF NestOK
  <2> QED BY <2>1, <2>2, <1>7
<1> QED BY <1>3, <1>4, <1>6, <1>12, <1>13 DEF n2, k, e

-----------------------------------------------------------------------------
(* What a step keeps of the statements that are not complete. *)

(* The scopes of the first k statements have the locals they had.  A block   *)
(* has nothing to complete that depends on its locals, and may get more.     *)
Stays(ls, l2, ns, k) ==
    \A i \in 1..k : ns[i].kind # "block" => Within(l2, ns[i].depth) = Within(ls, ns[i].depth)

(* What a statement has to complete stays, when code is added. *)
LEMMA EntryKept ==
    ASSUME NEW c, NEW ls, NEW c2, NEW l2, NEW J, NEW N, NEW x \in Entries, NEW y,
           Flow(c, Len(ls)), Grown(c, Len(ls), c2, Len(l2), J, N), EntryOK(c, Len(ls), ls, x),
           y.kind = x.kind, y.jumps = x.jumps, y.start = x.start, y.depth = x.depth,
           x.kind # "block" => Within(l2, x.depth) = Within(ls, x.depth)
    PROVE  EntryOK(c2, Len(l2), l2, y)
<1>1. Len(c) \in Nat /\ Len(c2) \in Nat /\ Len(c) <= Len(c2) BY FlowTypes DEF Grown
<1>2. y.kind = "block" => y.jumps = {} BY DEF EntryOK
<1>3. ASSUME NEW n \in y.jumps
      PROVE  /\ n \in 1..Len(c2) /\ c2[n].op \in JumpOps
             /\ c2[n].height = Within(l2, y.depth) + (IF y.kind = "else" THEN 0 ELSE 1)
  <2>1. /\ n \in 1..Len(c) /\ c[n].op \in JumpOps /\ x.kind # "block"
        /\ c[n].height = Within(ls, x.depth) + (IF x.kind = "else" THEN 0 ELSE 1)
        BY <1>2 DEF EntryOK
  <2>2. c2[n].op = c[n].op /\ c2[n].height = c[n].height BY <2>1 DEF Grown
  <2> QED BY <2>1, <2>2, <1>1
<1>4. y.kind \in LoopKinds =>
        y.start \in 1..(Len(c2) + 1) /\ HeightAt(c2, Len(l2), y.start) = Within(l2, y.depth)
  <2> SUFFICES ASSUME y.kind \in LoopKinds
               PROVE  y.start \in 1..(Len(c2) + 1) /\ HeightAt(c2, Len(l2), y.start) = Within(l2, y.depth)
        OBVIOUS
  <2>1. x.start \in 1..(Len(c) + 1) /\ HeightAt(c, Len(ls), x.start) = Within(ls, x.depth)
        BY DEF EntryOK
  <2>2. HeightAt(c2, Len(l2), x.start) = HeightAt(c, Len(ls), x.start) BY <2>1 DEF Grown
  <2>3. x.kind # "block" BY DEF LoopKinds
  <2> QED BY <2>1, <2>2, <2>3, <1>1
<1> QED BY <1>2, <1>3, <1>4 DEF EntryOK

(* So does what a loop has to complete. *)
LEMMA LoopKept ==
    ASSUME NEW c, NEW ls, NEW c2, NEW l2, NEW J, NEW N, NEW ns, NEW n2, NEW l, NEW k,
           Flow(c, Len(ls)), Grown(c, Len(ls), c2, Len(l2), J, N), LoopOK(c, ls, ns, l),
           KeptTo(ns, n2, k), Stays(ls, l2, ns, k), l.at <= k, Len(ns) \in Nat, Len(n2) \in Nat
    PROVE  LoopOK(c2, l2, n2, l)
<1>1. Len(c) \in Nat /\ Len(c2) \in Nat /\ Len(c) <= Len(c2) BY FlowTypes DEF Grown
<1>2. l.at \in 1..Len(ns) /\ k \in Nat /\ k <= Len(n2) BY DEF LoopOK, KeptTo
<1>3. l.at \in 1..k /\ l.at \in 1..Len(n2) BY <1>2
<1>4. /\ n2[l.at].kind = ns[l.at].kind /\ n2[l.at].start = ns[l.at].start
      /\ n2[l.at].depth = ns[l.at].depth
      BY <1>3 DEF KeptTo
<1>5. ns[l.at].kind \in LoopKinds BY DEF LoopOK
<1>6. Within(l2, ns[l.at].depth) = Within(ls, ns[l.at].depth)
      BY <1>3, <1>5 DEF Stays, LoopKinds
<1>7. ASSUME NEW n \in l.breaks
      PROVE  n \in 1..Len(c2) /\ c2[n].op = "jump" /\ Reaches(c2[n].height, l.base)
  <2>1. n \in 1..Len(c) /\ c[n].op = "jump" /\ Reaches(c[n].height, l.base) BY DEF LoopOK
  <2> QED BY <2>1, <1>1 DEF Grown
<1> QED BY <1>3, <1>4, <1>5, <1>6, <1>7 DEF LoopOK

(* The jumps that the statements own, of the first k of ns and of the first j *)
(* loops.                                                                    *)
LEMMA CoherentStep ==
    ASSUME NEW c, NEW ls, NEW d, NEW ns, NEW o, NEW lps, NEW c2, NEW l2, NEW d2, NEW n2, NEW lps2,
           NEW J, NEW N, NEW k,
           Coherent(c, ls, d, ns, o, lps), Grown(c, Len(ls), c2, Len(l2), J, N),
           LocalsOK(l2, d2), NestOK(n2, o, d2), KeptTo(ns, n2, k), Stays(ls, l2, ns, k),
           \A i \in 1..Len(n2) : i > k => EntryOK(c2, Len(l2), l2, n2[i]),
           LoopsOK(c2, l2, n2, lps2),
           \A n \in N : Owned(n2, lps2, n),
           \A n : Owned(ns, lps, n) /\ n \notin J => Owned(n2, lps2, n)
    PROVE  Coherent(c2, l2, d2, n2, o, lps2)
<1>1. Flow(c, Len(ls)) /\ NestOK(ns, o, d) BY DEF Coherent
<1>2. ns \in Seq(Entries) /\ n2 \in Seq(Entries) /\ d2 \in Nat BY <1>1, NestDepth
<1>3. Len(ns) \in Nat /\ Len(n2) \in Nat /\ \A i \in 1..Len(ns) : ns[i] \in Entries
      BY <1>2, NestTypes
<1>4. Flow(c2, Len(l2)) BY DEF Grown
<1>5. ASSUME NEW i \in 1..Len(n2) PROVE EntryOK(c2, Len(l2), l2, n2[i])
  <2>1. CASE i \in 1..k
    <3>1. i \in 1..Len(ns) BY <2>1, <1>3 DEF KeptTo
    <3>2. EntryOK(c, Len(ls), ls, ns[i]) BY <3>1 DEF Coherent, EntriesOK
    <3>3. /\ n2[i].kind = ns[i].kind /\ n2[i].jumps = ns[i].jumps
          /\ n2[i].start = ns[i].start /\ n2[i].depth = ns[i].depth
          BY <2>1 DEF KeptTo
    <3>4. ns[i].kind # "block" => Within(l2, ns[i].depth) = Within(ls, ns[i].depth)
          BY <2>1 DEF Stays
    <3>5. ns[i] \in Entries BY <3>1, <1>3
    <3> QED BY <1>1, <3>2, <3>3, <3>4, <3>5, EntryKept
  <2>2. CASE i \notin 1..k
    <3>1. i > k BY <2>2, <1>3 DEF KeptTo
    <3> QED BY <3>1
  <2> QED BY <2>1, <2>2
<1>6. EntriesOK(c2, l2, n2) BY <1>5 DEF EntriesOK
<1>7. AllOwned(c2, n2, lps2) BY DEF AllOwned, Coherent, Grown
<1> QED BY <1>2, <1>4, <1>6, <1>7 DEF Coherent

(* A statement that neither begins nor ends another, nor adds a break. *)
LEMMA SimpleCoherent ==
    ASSUME NEW c, NEW ls, NEW d, NEW ns, NEW o, NEW lps, NEW c2, NEW l2, NEW n2, NEW J,
           Coherent(c, ls, d, ns, o, lps), Grown(c, Len(ls), c2, Len(l2), J, {}),
           LocalsOK(l2, d), n2 \in Seq(Entries), Len(n2) = Len(ns), KeptTo(ns, n2, Len(ns)),
           Stays(ls, l2, ns, Len(ns))
    PROVE  Coherent(c2, l2, d, n2, o, lps)
<1>1. Flow(c, Len(ls)) /\ NestOK(ns, o, d) /\ LoopsOK(c, ls, ns, lps) BY DEF Coherent
<1>2. Len(ns) \in Nat /\ Len(n2) \in Nat BY <1>1, NestDepth, NestTypes
<1>3. NestOK(n2, o, d) BY <1>1, NestSame DEF KeptTo
<1>4. LoopsOK(c2, l2, n2, lps)
  <2>1. ASSUME NEW j \in 1..Len(lps) PROVE LoopOK(c2, l2, n2, lps[j])
    <3>1. LoopOK(c, ls, ns, lps[j]) BY <1>1 DEF LoopsOK
    <3>2. lps[j].at <= Len(ns) BY <3>1, <1>2 DEF LoopOK
    <3> QED BY <1>1, <1>2, <3>1, <3>2, LoopKept
  <2>2. \A i \in 1..Len(n2) : n2[i].kind \in LoopKinds => \E j \in 1..Len(lps) : lps[j].at = i
        BY <1>1 DEF LoopsOK, KeptTo
  <2> QED BY <1>1, <2>1, <2>2 DEF LoopsOK
<1>5. \A n : Owned(ns, lps, n) => Owned(n2, lps, n) BY DEF Owned, KeptTo
<1>6. \A i \in 1..Len(n2) : ~(i > Len(ns)) BY <1>2
<1> QED BY <1>3, <1>4, <1>5, <1>6, CoherentStep

(* A statement that is entered, which is not a loop. *)
LEMMA EnteredCoherent ==
    ASSUME NEW c, NEW ls, NEW d, NEW ns, NEW o, NEW lps, NEW c2, NEW l2, NEW x \in Entries,
           Coherent(c, ls, d, ns, o, lps), Grown(c, Len(ls), c2, Len(l2), {}, x.jumps),
           x.depth = d + (IF x.kind \in Scoped THEN 1 ELSE 0), LocalsOK(l2, x.depth),
           Stays(ls, l2, ns, Len(ns)), EntryOK(c2, Len(l2), l2, x), x.kind \notin LoopKinds
    PROVE  Coherent(c2, l2, x.depth, Append(ns, x), o, lps)
<1> DEFINE n2 == Append(ns, x)
<1>1. Flow(c, Len(ls)) /\ NestOK(ns, o, d) /\ LoopsOK(c, ls, ns, lps) BY DEF Coherent
<1>2. /\ NestOK(n2, o, x.depth) /\ KeptTo(ns, n2, Len(ns)) /\ Len(n2) = Len(ns) + 1
      /\ n2[Len(ns) + 1] = x /\ Len(ns) \in Nat
      BY <1>1, NestEntered
<1> HIDE DEF n2
<1>3. \A i \in 1..Len(n2) : i \in 1..Len(ns) \/ i = Len(ns) + 1 BY <1>2
<1>4. LoopsOK(c2, l2, n2, lps)
  <2>1. ASSUME NEW j \in 1..Len(lps) PROVE LoopOK(c2, l2, n2, lps[j])
    <3>1. LoopOK(c, ls, ns, lps[j]) BY <1>1 DEF LoopsOK
    <3>2. lps[j].at <= Len(ns) BY <3>1, <1>2 DEF LoopOK
    <3> QED BY <1>1, <1>2, <3>1, <3>2, LoopKept
  <2>2. \A i \in 1..Len(n2) : n2[i].kind \in LoopKinds => \E j \in 1..Len(lps) : lps[j].at = i
        BY <1>1, <1>2, <1>3 DEF LoopsOK, KeptTo
  <2> QED BY <1>1, <2>1, <2>2 DEF LoopsOK
<1>5. \A n : Owned(ns, lps, n) => Owned(n2, lps, n)
  <2>1. \A i \in 1..Len(ns) : i \in 1..Len(n2) BY <1>2
  <2> QED BY <2>1, <1>2 DEF Owned, KeptTo
<1>6. \A n \in x.jumps : Owned(n2, lps, n)
  <2>1. Len(ns) + 1 \in 1..Len(n2) BY <1>2
  <2> QED BY <2>1, <1>2 DEF Owned
<1>7. ASSUME NEW i \in 1..Len(n2), i > Len(ns) PROVE EntryOK(c2, Len(l2), l2, n2[i])
  <2>1. i = Len(ns) + 1 BY <1>2, <1>7
  <2> QED BY <2>1, <1>2
<1>8. Coherent(c2, l2, x.depth, n2, o, lps)
      BY <1>2, <1>4, <1>5, <1>6, <1>7, CoherentStep
<1> QED BY <1>8 DEF n2

(* A loop that is entered. *)
LEMMA LoopCoherent ==
    ASSUME NEW c, NEW ls, NEW d, NEW ns, NEW o, NEW lps, NEW c2, NEW l2, NEW x \in Entries,
           NEW l \in LoopSet,
           Coherent(c, ls, d, ns, o, lps), Grown(c, Len(ls), c2, Len(l2), {}, x.jumps),
           x.depth = d + (IF x.kind \in Scoped THEN 1 ELSE 0), LocalsOK(l2, x.depth),
           Stays(ls, l2, ns, Len(ns)), EntryOK(c2, Len(l2), l2, x), x.kind \in LoopKinds,
           l.target = x.start, l.breaks = {}, l.base = Len(l2), l.at = Len(ns) + 1
    PROVE  Coherent(c2, l2, x.depth, Append(ns, x), o, Append(lps, l))
<1> DEFINE n2 == Append(ns, x)
           lps2 == Append(lps, l)
<1>1. Flow(c, Len(ls)) /\ NestOK(ns, o, d) /\ LoopsOK(c, ls, ns, lps) BY DEF Coherent
<1>2. /\ NestOK(n2, o, x.depth) /\ KeptTo(ns, n2, Len(ns)) /\ Len(n2) = Len(ns) + 1
      /\ n2[Len(ns) + 1] = x /\ Len(ns) \in Nat
      BY <1>1, NestEntered
<1>3. lps \in Seq(LoopSet) /\ Len(lps) \in Nat BY <1>1 DEF LoopsOK
<1>4. lps2 \in Seq(LoopSet) /\ Len(lps2) = Len(lps) + 1 /\ lps2[Len(lps) + 1] = l
      BY <1>3, Appended
<1>5. \A j \in 1..Len(lps) : lps2[j] = lps[j] BY <1>3, Appended
<1> HIDE DEF n2, lps2
<1>6. \A i \in 1..Len(n2) : i \in 1..Len(ns) \/ i = Len(ns) + 1 BY <1>2
<1>7. \A j \in 1..Len(lps2) : j \in 1..Len(lps) \/ j = Len(lps) + 1 BY <1>3, <1>4
<1>8. Len(ns) + 1 \in 1..Len(n2) /\ Len(lps) + 1 \in 1..Len(lps2) BY <1>2, <1>3, <1>4
<1>9. \A j \in 1..Len(lps) : j \in 1..Len(lps2) BY <1>3, <1>4
<1>10. \A j \in 1..Len(lps) : lps[j].at \in 1..Len(ns) BY <1>1 DEF LoopsOK, LoopOK
<1>11. LoopsOK(c2, l2, n2, lps2)
  <2>1. ASSUME NEW j \in 1..Len(lps) PROVE LoopOK(c2, l2, n2, lps2[j])
    <3>1. LoopOK(c, ls, ns, lps[j]) BY <1>1 DEF LoopsOK
    <3>2. lps[j].at <= Len(ns) BY <1>2, <1>10
    <3> QED BY <1>1, <1>2, <1>5, <3>1, <3>2, LoopKept
  <2>2. LoopOK(c2, l2, n2, l)
    <3>1. Within(l2, x.depth) = Len(l2) BY <1>2, WithinAll, NestDepth
    <3>2. IsFiniteSet(l.breaks) /\ Cardinality(l.breaks) <= MaxBreaks
          BY FS_EmptySet, BoundsAssumption
    <3> QED BY <3>1, <3>2, <1>2, <1>8 DEF LoopOK
  <2>3. \A j \in 1..Len(lps2) : LoopOK(c2, l2, n2, lps2[j]) BY <2>1, <2>2, <1>4, <1>7
  <2>4. ASSUME NEW i \in 1..Len(lps2), NEW j \in 1..Len(lps2), i < j PROVE lps2[i].at < lps2[j].at
    <3>1. i \in 1..Len(lps) BY <2>4, <1>3, <1>4
    <3>2. CASE j \in 1..Len(lps) BY <3>1, <3>2, <2>4, <1>1, <1>5 DEF LoopsOK
    <3>3. CASE j = Len(lps) + 1 BY <3>1, <3>3, <1>2, <1>4, <1>5, <1>10
    <3> QED BY <3>2, <3>3, <1>7
  <2>5. ASSUME NEW i \in 1..Len(n2), n2[i].kind \in LoopKinds
        PROVE  \E j \in 1..Len(lps2) : lps2[j].at = i
    <3>1. CASE i \in 1..Len(ns)
      <4>1. ns[i].kind \in LoopKinds BY <3>1, <2>5, <1>2 DEF KeptTo
      <4>2. PICK j \in 1..Len(lps) : lps[j].at = i BY <4>1, <3>1, <1>1 DEF LoopsOK
      <4> QED BY <4>2, <1>5, <1>9
    <3>2. CASE i = Len(ns) + 1 BY <3>2, <1>4, <1>8
    <3> QED BY <3>1, <3>2, <1>6
  <2> QED BY <1>4, <2>3, <2>4, <2>5 DEF LoopsOK
<1>12. \A n : Owned(ns, lps, n) => Owned(n2, lps2, n)
  <2>1. \A i \in 1..Len(ns) : i \in 1..Len(n2) BY <1>2
  <2> QED BY <2>1, <1>2, <1>5, <1>9 DEF Owned, KeptTo
<1>13. \A n \in x.jumps : Owned(n2, lps2, n) BY <1>2, <1>8 DEF Owned
<1>14. ASSUME NEW i \in 1..Len(n2), i > Len(ns) PROVE EntryOK(c2, Len(l2), l2, n2[i])
  <2>1. i = Len(ns) + 1 BY <1>2, <1>14
  <2> QED BY <2>1, <1>2
<1>15. Coherent(c2, l2, x.depth, n2, o, lps2)
       BY <1>2, <1>11, <1>12, <1>13, <1>14, CoherentStep
<1> QED BY <1>15 DEF n2, lps2

(* A statement that is complete, which is not a loop. *)
LEMMA LeftCoherent ==
    ASSUME NEW c, NEW ls, NEW d, NEW ns, NEW o, NEW lps, NEW c2, NEW l2, NEW d2, NEW J,
           Coherent(c, ls, d, ns, o, lps), ns # <<>>, Last(ns).kind \notin LoopKinds,
           Grown(c, Len(ls), c2, Len(l2), J, {}), Last(ns).jumps \subseteq J,
           d2 = d - (IF Last(ns).kind \in Scoped THEN 1 ELSE 0), LocalsOK(l2, d2),
           Stays(ls, l2, ns, Len(ns) - 1)
    PROVE  Coherent(c2, l2, d2, Complete(Front(ns)), o, lps)
<1> DEFINE n2 == Complete(Front(ns))
           k == Len(ns) - 1
<1>1. Flow(c, Len(ls)) /\ NestOK(ns, o, d) /\ LoopsOK(c, ls, ns, lps) BY DEF Coherent
<1>2. /\ NestOK(n2, o, d2) /\ KeptTo(ns, n2, k) /\ Len(n2) = k /\ Len(ns) \in Nat \ {0}
      /\ Last(ns) = ns[Len(ns)] /\ k \in Nat /\ k + 1 = Len(ns) /\ Stays(ls, l2, ns, k)
      BY <1>1, NestLeft
<1> HIDE DEF n2, k
<1>3. LoopsOK(c2, l2, n2, lps)
  <2>1. ASSUME NEW j \in 1..Len(lps) PROVE LoopOK(c2, l2, n2, lps[j])
    <3>1. LoopOK(c, ls, ns, lps[j]) BY <1>1 DEF LoopsOK
    <3>2. lps[j].at # Len(ns) BY <3>1, <1>2 DEF LoopOK
    <3>3. lps[j].at <= k BY <3>1, <3>2, <1>2 DEF LoopOK
    <3> QED BY <1>1, <1>2, <3>1, <3>3, LoopKept
  <2>2. \A i \in 1..Len(n2) : n2[i].kind \in LoopKinds => \E j \in 1..Len(lps) : lps[j].at = i
    <3>1. \A i \in 1..Len(n2) : i \in 1..Len(ns) /\ n2[i].kind = ns[i].kind
          BY <1>2 DEF KeptTo
    <3> QED BY <3>1, <1>1 DEF LoopsOK
  <2> QED BY <1>1, <2>1, <2>2 DEF LoopsOK
<1>4. ASSUME NEW n, Owned(ns, lps, n), n \notin J PROVE Owned(n2, lps, n)
  <2>1. CASE \E j \in 1..Len(lps) : n \in lps[j].breaks BY <2>1 DEF Owned
  <2>2. ASSUME NEW i \in 1..Len(ns), n \in ns[i].jumps PROVE Owned(n2, lps, n)
    <3>1. i # Len(ns) BY <2>2, <1>2, <1>4
    <3>2. i \in 1..k BY <3>1, <1>2
    <3> QED BY <3>2, <2>2, <1>2 DEF Owned, KeptTo
  <2> QED BY <2>1, <2>2, <1>4 DEF Owned
<1>5. \A i \in 1..Len(n2) : ~(i > k) BY <1>2
<1>6. Coherent(c2, l2, d2, n2, o, lps) BY <1>2, <1>3, <1>4, <1>5, CoherentStep
<1> QED BY <1>6 DEF n2

(* The loop of the last statement is the last one. *)
LEMMA InnermostLoop ==
    ASSUME NEW c, NEW ls, NEW d, NEW ns, NEW o, NEW lps, Coherent(c, ls, d, ns, o, lps),
           ns # <<>>, Last(ns).kind \in LoopKinds
    PROVE  /\ lps # <<>> /\ Len(lps) \in Nat \ {0} /\ Last(lps) = lps[Len(lps)]
           /\ Last(lps).at = Len(ns) /\ LoopOK(c, ls, ns, Last(lps))
           /\ \A j \in 1..(Len(lps) - 1) : lps[j].at <= Len(ns) - 1
<1>1. LoopsOK(c, ls, ns, lps) /\ NestOK(ns, o, d) BY DEF Coherent
<1>2. lps \in Seq(LoopSet) /\ ns \in Seq(Entries) BY <1>1 DEF LoopsOK, NestOK
<1>3. Len(lps) \in Nat /\ Len(ns) \in Nat /\ Len(ns) \in 1..Len(ns) /\ Last(ns) = ns[Len(ns)]
      BY <1>2 DEF Last
<1>4. PICK j \in 1..Len(lps) : lps[j].at = Len(ns) BY <1>1, <1>3 DEF LoopsOK
<1>5. \A i \in 1..Len(lps) : lps[i].at \in 1..Len(ns) BY <1>1 DEF LoopsOK, LoopOK
<1>6. j = Len(lps)
  <2> SUFFICES ASSUME j < Len(lps) PROVE FALSE BY <1>3
  <2>1. Len(lps) \in 1..Len(lps) BY <1>3
  <2>2. lps[j].at < lps[Len(lps)].at BY <2>1, <1>1 DEF LoopsOK
  <2> QED BY <2>1, <2>2, <1>3, <1>4, <1>5
<1>7. Last(lps) = lps[Len(lps)] BY DEF Last
<1>8. ASSUME NEW i \in 1..(Len(lps) - 1) PROVE lps[i].at <= Len(ns) - 1
  <2>1. i \in 1..Len(lps) /\ i < j BY <1>3, <1>6
  <2>2. lps[i].at < lps[j].at BY <2>1, <1>1 DEF LoopsOK
  <2> QED BY <2>1, <2>2, <1>3, <1>4, <1>5
<1>9. LoopOK(c, ls, ns, lps[j]) BY <1>1 DEF LoopsOK
<1>10. lps # <<>> BY <1>3, <1>6
<1> QED BY <1>3, <1>4, <1>6, <1>7, <1>8, <1>9, <1>10

(* A loop that is complete. *)
LEMMA LoopLeftCoherent ==
    ASSUME NEW c, NEW ls, NEW d, NEW ns, NEW o, NEW lps, NEW c2, NEW l2, NEW d2, NEW J,
           Coherent(c, ls, d, ns, o, lps), ns # <<>>, Last(ns).kind \in LoopKinds,
           Grown(c, Len(ls), c2, Len(l2), J, {}),
           Last(ns).jumps \subseteq J, Last(lps).breaks \subseteq J,
           d2 = d - (IF Last(ns).kind \in Scoped THEN 1 ELSE 0), LocalsOK(l2, d2),
           Stays(ls, l2, ns, Len(ns) - 1)
    PROVE  Coherent(c2, l2, d2, Complete(Front(ns)), o, Front(lps))
<1> DEFINE n2 == Complete(Front(ns))
           k == Len(ns) - 1
           lps2 == Front(lps)
           m == Len(lps) - 1
<1>1. Flow(c, Len(ls)) /\ NestOK(ns, o, d) /\ LoopsOK(c, ls, ns, lps) BY DEF Coherent
<1>2. /\ NestOK(n2, o, d2) /\ KeptTo(ns, n2, k) /\ Len(n2) = k /\ Len(ns) \in Nat \ {0}
      /\ Last(ns) = ns[Len(ns)] /\ k \in Nat /\ k + 1 = Len(ns) /\ Stays(ls, l2, ns, k)
      BY <1>1, NestLeft
<1>3. /\ Len(lps) \in Nat \ {0} /\ Last(lps) = lps[Len(lps)] /\ Last(lps).at = Len(ns)
      /\ m \in 0..Len(lps) /\ m \in Nat /\ m + 1 = Len(lps)
      /\ \A j \in 1..m : lps[j].at <= k
      BY InnermostLoop
<1>4. lps \in Seq(LoopSet) BY <1>1 DEF LoopsOK
<1>5. lps2 = SubSeq(lps, 1, m) BY DEF Front
<1> HIDE DEF n2, k, lps2, m
<1>6. lps2 \in Seq(LoopSet) /\ Len(lps2) = m /\ \A j \in 1..m : lps2[j] = lps[j]
      BY <1>3, <1>4, <1>5, Prefix
<1>7. \A j \in 1..m : j \in 1..Len(lps) BY <1>3
<1>8. \A i \in 1..k : i \in 1..Len(ns) /\ n2[i].kind = ns[i].kind BY <1>2 DEF KeptTo
<1>9. LoopsOK(c2, l2, n2, lps2)
  <2>1. ASSUME NEW j \in 1..m PROVE LoopOK(c2, l2, n2, lps2[j])
    <3>1. LoopOK(c, ls, ns, lps[j]) BY <1>1, <1>7 DEF LoopsOK
    <3>2. lps[j].at <= k BY <1>3
    <3> QED BY <1>1, <1>2, <1>6, <3>1, <3>2, LoopKept
  <2>2. ASSUME NEW i \in 1..k, n2[i].kind \in LoopKinds PROVE \E j \in 1..m : lps2[j].at = i
    <3>1. i \in 1..Len(ns) /\ ns[i].kind \in LoopKinds BY <2>2, <1>8
    <3>2. PICK j \in 1..Len(lps) : lps[j].at = i BY <3>1, <1>1 DEF LoopsOK
    <3>3. j # Len(lps) BY <3>2, <1>2, <1>3
    <3>4. j \in 1..m BY <3>3, <1>3
    <3> QED BY <3>2, <3>4, <1>6
  <2>3. \A i, j \in 1..m : i < j => lps2[i].at < lps2[j].at BY <1>1, <1>6, <1>7 DEF LoopsOK
  <2> QED BY <2>1, <2>2, <2>3, <1>2, <1>6 DEF LoopsOK
<1>10. ASSUME NEW n, Owned(ns, lps, n), n \notin J PROVE Owned(n2, lps2, n)
  <2>1. ASSUME NEW j \in 1..Len(lps), n \in lps[j].breaks PROVE Owned(n2, lps2, n)
    <3>1. j # Len(lps) BY <2>1, <1>3, <1>10
    <3>2. j \in 1..m BY <3>1, <1>3
    <3> QED BY <3>2, <2>1, <1>6 DEF Owned
  <2>2. ASSUME NEW i \in 1..Len(ns), n \in ns[i].jumps PROVE Owned(n2, lps2, n)
    <3>1. i # Len(ns) BY <2>2, <1>2, <1>10
    <3>2. i \in 1..k BY <3>1, <1>2
    <3> QED BY <3>2, <2>2, <1>2 DEF Owned, KeptTo
  <2> QED BY <2>1, <2>2, <1>10 DEF Owned
<1>11. \A i \in 1..Len(n2) : ~(i > k) BY <1>2
<1>12. Coherent(c2, l2, d2, n2, o, lps2) BY <1>2, <1>9, <1>10, <1>11, CoherentStep
<1> QED BY <1>12 DEF n2, lps2

(* The first branch of an if is complete, and the second one begins. *)
LEMMA ElseCoherent ==
    ASSUME NEW c, NEW ls, NEW d, NEW ns, NEW o, NEW lps, NEW c2, NEW n2 \in Seq(Entries), NEW J, NEW N,
           Coherent(c, ls, d, ns, o, lps), ns # <<>>, Last(ns).kind = "then",
           Grown(c, Len(ls), c2, Len(ls), J, N), Last(ns).jumps \subseteq J,
           Len(n2) = Len(ns), KeptTo(ns, n2, Len(ns) - 1), Last(n2).depth = Last(ns).depth,
           Last(n2).kind = "else", Last(n2).jumps = N, EntryOK(c2, Len(ls), ls, Last(n2))
    PROVE  Coherent(c2, ls, d, n2, o, lps)
<1> DEFINE k == Len(ns) - 1
<1>1. Flow(c, Len(ls)) /\ NestOK(ns, o, d) /\ LoopsOK(c, ls, ns, lps) /\ LocalsOK(ls, d)
      BY DEF Coherent
<1>2. /\ Len(ns) \in Nat \ {0} /\ k \in Nat /\ k + 1 = Len(ns) /\ KeptTo(ns, n2, k)
      /\ Last(ns) = ns[Len(ns)] /\ Last(n2) = n2[Len(ns)]
      BY <1>1, NestDepth, NestTypes DEF Last
<1> HIDE DEF k
<1>3. \A i \in 1..Len(ns) : i \in 1..k \/ i = Len(ns) BY <1>2
<1>4. NestOK(n2, o, d)
  <2>1. \A i \in 1..Len(ns) : n2[i].depth = ns[i].depth /\ (n2[i].kind \in Scoped <=> ns[i].kind \in Scoped)
        BY <1>2, <1>3 DEF KeptTo, Scoped
  <2> QED BY <2>1, <1>1, NestSame
<1>5. Stays(ls, ls, ns, k) BY DEF Stays
<1>6. LoopsOK(c2, ls, n2, lps)
  <2>1. ASSUME NEW j \in 1..Len(lps) PROVE LoopOK(c2, ls, n2, lps[j])
    <3>1. LoopOK(c, ls, ns, lps[j]) BY <1>1 DEF LoopsOK
    <3>2. lps[j].at # Len(ns) BY <3>1, <1>2 DEF LoopOK, LoopKinds
    <3>3. lps[j].at <= k BY <3>1, <3>2, <1>2 DEF LoopOK
    <3> QED BY <1>1, <1>2, <1>5, <3>1, <3>3, LoopKept
  <2>2. \A i \in 1..Len(n2) : n2[i].kind \in LoopKinds => \E j \in 1..Len(lps) : lps[j].at = i
        BY <1>1, <1>2, <1>3 DEF LoopsOK, LoopKinds, KeptTo
  <2> QED BY <1>1, <2>1, <2>2 DEF LoopsOK
<1>7. ASSUME NEW n, Owned(ns, lps, n), n \notin J PROVE Owned(n2, lps, n)
  <2>1. CASE \E j \in 1..Len(lps) : n \in lps[j].breaks BY <2>1 DEF Owned
  <2>2. ASSUME NEW i \in 1..Len(ns), n \in ns[i].jumps PROVE Owned(n2, lps, n)
    <3>1. i \in 1..k BY <2>2, <1>2, <1>3, <1>7
    <3> QED BY <3>1, <2>2, <1>2 DEF Owned, KeptTo
  <2> QED BY <2>1, <2>2, <1>7 DEF Owned
<1>8. \A n \in N : Owned(n2, lps, n)
  <2>1. Len(ns) \in 1..Len(n2) BY <1>2
  <2> QED BY <2>1, <1>2 DEF Owned
<1>9. \A i \in 1..Len(n2) : i > k => EntryOK(c2, Len(ls), ls, n2[i])
  <2>1. \A i \in 1..Len(n2) : i > k => i = Len(ns) BY <1>2
  <2> QED BY <2>1, <1>2
<1> QED BY <1>1, <1>2, <1>4, <1>5, <1>6, <1>7, <1>8, <1>9, CoherentStep

(* A break statement: the loops with the jump m, and what that jump has to be. *)
WithBreak(lps, m) == [lps EXCEPT ![Len(lps)].breaks = @ \cup {m}]
BreakAt(c, m, h) == m \in 1..Len(c) /\ c[m].op = "jump" /\ Reaches(c[m].height, h)

(* A break statement keeps what the other statements have to complete. *)
LEMMA BreakCoherent ==
    ASSUME NEW c, NEW ls, NEW d, NEW ns, NEW o, NEW lps, NEW c2, NEW n2, NEW J, NEW m \in Nat,
           Coherent(c, ls, d, ns, o, lps), lps # <<>>, Grown(c, Len(ls), c2, Len(ls), J, {m}),
           n2 \in Seq(Entries), Len(n2) = Len(ns), KeptTo(ns, n2, Len(ns)),
           Cardinality(Last(lps).breaks) < MaxBreaks, BreakAt(c2, m, Last(lps).base)
    PROVE  Coherent(c2, ls, d, n2, o, WithBreak(lps, m))
<1> DEFINE z == Len(lps)
           lps2 == WithBreak(lps, m)
           l == lps[z]
           l2 == [l EXCEPT !.breaks = @ \cup {m}]
<1>1. /\ Flow(c, Len(ls)) /\ NestOK(ns, o, d) /\ LoopsOK(c, ls, ns, lps) /\ LocalsOK(ls, d)
      /\ lps \in Seq(LoopSet)
      BY DEF Coherent, LoopsOK
<1>2. Len(ns) \in Nat /\ Len(n2) \in Nat BY <1>1, NestDepth, NestTypes
<1>3. z \in Nat /\ z \in 1..z /\ Last(lps) = l BY <1>1 DEF Last
<1>4. l \in LoopSet BY <1>1, <1>3
<1>5. lps2 = [lps EXCEPT ![z] = l2] BY DEF WithBreak
<1> HIDE DEF lps2
<1>6. LoopOK(c, ls, ns, l) /\ Cardinality(l.breaks) < MaxBreaks BY <1>1, <1>3 DEF LoopsOK
<1>7. m \in 1..Len(c2) /\ c2[m].op = "jump" /\ Reaches(c2[m].height, l.base)
      BY <1>3 DEF BreakAt
<1> HIDE DEF l
<1>8. /\ l2 \in LoopSet /\ l2.breaks = l.breaks \cup {m} /\ l2.at = l.at /\ l2.base = l.base
      /\ l2.target = l.target
      BY <1>4 DEF LoopSet
<1> HIDE DEF l2
<1>9. lps2 \in Seq(LoopSet) /\ Len(lps2) = z /\ lps2[z] = l2
      /\ \A j \in 1..z : j # z => lps2[j] = lps[j]
      BY ONLY <1>1, <1>3, <1>5, <1>8
<1>10. lps[z] = l BY DEF l
<1> HIDE DEF z
<1>11. Len(lps) = z BY DEF z
<1>12. \A j \in 1..z : lps2[j].at = lps[j].at BY <1>8, <1>9, <1>10
<1>13. Stays(ls, ls, ns, Len(ns)) BY DEF Stays
<1>14. ASSUME NEW j \in 1..z PROVE LoopOK(c2, ls, n2, lps[j])
  <2>1. LoopOK(c, ls, ns, lps[j]) BY <1>1, <1>11 DEF LoopsOK
  <2>2. lps[j].at <= Len(ns) BY <2>1, <1>2 DEF LoopOK
  <2> QED BY <1>1, <1>2, <1>13, <2>1, <2>2, LoopKept
<1>15. LoopOK(c2, ls, n2, l2)
  <2>1. LoopOK(c2, ls, n2, l) BY <1>3, <1>10, <1>14
  <2>2. IsFiniteSet(l2.breaks) /\ Cardinality(l2.breaks) <= MaxBreaks
    <3>1. IsFiniteSet(l.breaks) /\ MaxBreaks \in Nat BY <1>6, BoundsAssumption DEF LoopOK
    <3>2. /\ IsFiniteSet(l.breaks \cup {m}) /\ Cardinality(l.breaks) \in Nat
          /\ Cardinality(l.breaks \cup {m}) \in {Cardinality(l.breaks), Cardinality(l.breaks) + 1}
          BY <3>1, FS_AddElement, FS_CardinalityType
    <3> QED BY <3>1, <3>2, <1>6, <1>8
  <2> QED BY <2>1, <2>2, <1>7, <1>8 DEF LoopOK
<1>16. LoopsOK(c2, ls, n2, lps2)
  <2>1. \A j \in 1..z : LoopOK(c2, ls, n2, lps2[j]) BY <1>9, <1>14, <1>15
  <2>2. \A i, j \in 1..z : i < j => lps2[i].at < lps2[j].at BY <1>1, <1>11, <1>12 DEF LoopsOK
  <2>3. \A i \in 1..Len(n2) : n2[i].kind \in LoopKinds => \E j \in 1..z : lps2[j].at = i
        BY <1>1, <1>11, <1>12 DEF LoopsOK, KeptTo
  <2> QED BY <2>1, <2>2, <2>3, <1>9 DEF LoopsOK
<1>17. \A n : Owned(ns, lps, n) => Owned(n2, lps2, n)
  <2>1. \A j \in 1..z : \A n \in lps[j].breaks : n \in lps2[j].breaks BY <1>8, <1>9, <1>10
  <2> QED BY <2>1, <1>9, <1>11 DEF Owned, KeptTo
<1>18. Owned(n2, lps2, m) BY <1>3, <1>8, <1>9 DEF Owned
<1>19. NestOK(n2, o, d) BY <1>1, NestSame DEF KeptTo
<1>20. \A i \in 1..Len(n2) : ~(i > Len(ns)) BY <1>2
<1>21. \A n \in {m} : Owned(n2, lps2, n) BY <1>18
<1>22. /\ Coherent(c, ls, d, ns, o, lps) /\ Grown(c, Len(ls), c2, Len(ls), J, {m})
       /\ KeptTo(ns, n2, Len(ns))
       OBVIOUS
<1>23. /\ \A i \in 1..Len(n2) : i > Len(ns) => EntryOK(c2, Len(ls), ls, n2[i])
       /\ \A n : Owned(ns, lps, n) /\ n \notin J => Owned(n2, lps2, n)
       BY <1>17, <1>20
<1>24. Coherent(c2, ls, d, n2, o, lps2)
       BY ONLY <1>1, <1>13, <1>16, <1>19, <1>21, <1>22, <1>23, CoherentStep
<1> QED BY <1>24 DEF lps2

-----------------------------------------------------------------------------
(* The pieces of code that statements emit, on a stack of b values. *)

(* s takes the stack from height b to height e; its jumps, at the places N,    *)
(* are not patched yet.                                                      *)
Piece(s, b, e, N) ==
    /\ Flow(s, e) /\ HeightAt(s, e, 1) = b
    /\ \A n \in 1..Len(s) : s[n].op \in JumpOps => s[n].to = NoTarget /\ n \in N

(* A piece is appended to the code. *)
LEMMA Emitted ==
    ASSUME NEW c, NEW b, Flow(c, b), NEW s, NEW e, NEW N, NEW M, Piece(s, b, e, N),
           \A n \in N : Len(c) + n \in M
    PROVE  Grown(c, b, c \o s, e, {}, M)
BY FlowJoined DEF Piece

(* It may be forgotten which jumps are new, and that some are patched. *)
LEMMA GrownWeaker ==
    ASSUME NEW c, NEW e, NEW c2, NEW e2, NEW J, NEW N, NEW K, NEW M,
           Grown(c, e, c2, e2, J, N), K \subseteq J, N \subseteq M
    PROVE  Grown(c, e, c2, e2, K, M)
BY DEF Grown

(* A piece is appended to code that has grown. *)
LEMMA GrownThen ==
    ASSUME NEW a, NEW ea, NEW b, NEW eb, NEW c, NEW ec, NEW J, NEW N, NEW J2, NEW N2, NEW K, NEW M,
           Flow(a, ea), Grown(a, ea, b, eb, J, N), Grown(b, eb, c, ec, J2, N2),
           K \subseteq J \cup J2, (N \ J2) \cup N2 \subseteq M
    PROVE  Grown(a, ea, c, ec, K, M)
<1>1. Grown(a, ea, c, ec, J \cup J2, (N \ J2) \cup N2) BY GrownTwice
<1> QED BY <1>1, GrownWeaker

(* Code that has grown flows. *)
LEMMA GrownFlow ==
    ASSUME NEW c, NEW e, NEW c2, NEW e2, NEW J, NEW N, Grown(c, e, c2, e2, J, N)
    PROVE  Flow(c2, e2)
BY DEF Grown

(* The jumps J of c can go to its end, at height e. *)
Patchable(c, J, e) == \A n \in J : n \in 1..Len(c) /\ c[n].op \in JumpOps /\ Reaches(c[n].height, e)

(* patchJump, on code that has grown. *)
LEMMA Patched ==
    ASSUME NEW c, NEW e, Flow(c, e), NEW J, Patchable(c, J, e)
    PROVE  /\ Grown(c, e, Patch(c, J), e, J, {}) /\ Len(Patch(c, J)) = Len(c)
           /\ \A n \in 1..Len(c) : /\ Patch(c, J)[n].op = c[n].op
                                   /\ Patch(c, J)[n].height = c[n].height
BY FlowPatched DEF Patchable

(* The instructions the compiler writes. *)
LEMMA InstructionTypes ==
    ASSUME NEW op \in Ops, NEW h \in Nat, NEW t \in Nat
    PROVE  /\ Instruction(op, h) \in Instructions /\ Jump(op, t, h) \in Instructions
           /\ Instruction(op, h).op = op /\ Instruction(op, h).height = h
           /\ Jump(op, t, h).op = op /\ Jump(op, t, h).height = h /\ Jump(op, t, h).to = t
BY DEF Instruction, Jump, Instructions, NoTarget

(* An instruction that pushes a value. *)
LEMMA ValuePiece ==
    ASSUME NEW b \in Nat, NEW x \in Instructions, x.op \in {"push", "closure"}, x.height = b
    PROVE  Piece(<<x>>, b, b + 1, {})
<1> DEFINE s == <<x>>
<1>1. s \in Seq(Instructions) /\ Len(s) = 1 /\ s[1] = x OBVIOUS
<1> HIDE DEF s
<1> QED BY <1>1 DEF Piece, Flow, StepOK, HeightAt, JumpOps, s

(* The code of an expression. *)
LEMMA ExpressionPiece ==
    ASSUME NEW b \in Nat PROVE Piece(<<Instruction("push", b)>>, b, b + 1, {})
BY ValuePiece, InstructionTypes DEF Ops

(* An instruction that pops a value. *)
LEMMA PopPiece ==
    ASSUME NEW b \in Nat PROVE Piece(<<Instruction("pop", b + 1)>>, b + 1, b, {})
<1> DEFINE x == Instruction("pop", b + 1)
           s == <<x>>
<1>1. x \in Instructions /\ x.op = "pop" /\ x.height = b + 1 BY InstructionTypes DEF Ops
<1> HIDE DEF x
<1>2. s \in Seq(Instructions) /\ Len(s) = 1 /\ s[1] = x BY <1>1
<1> HIDE DEF s
<1> QED BY <1>1, <1>2 DEF Piece, Flow, StepOK, HeightAt, JumpOps, s, x

(* A value that is used up at once. *)
LEMMA UsedPiece ==
    ASSUME NEW b \in Nat, NEW x \in Instructions, x.op \in {"push", "closure"}, x.height = b,
           NEW op \in {"pop", "define", "return"}
    PROVE  Piece(<<x, Instruction(op, b + 1)>>, b, b, {})
<1> DEFINE y == Instruction(op, b + 1)
           s == <<x, y>>
<1>1. y \in Instructions /\ y.op = op /\ y.height = b + 1 BY InstructionTypes DEF Ops
<1> HIDE DEF y
<1>2. s \in Seq(Instructions) /\ Len(s) = 2 /\ s[1] = x /\ s[2] = y BY <1>1
<1> HIDE DEF s
<1> QED BY <1>1, <1>2 DEF Piece, Flow, StepOK, HeightAt, JumpOps, s, y

(* An expression whose value is used up at once. *)
LEMMA UsedExpression ==
    ASSUME NEW b \in Nat, NEW op \in {"pop", "define", "return"}
    PROVE  Piece(<<Instruction("push", b), Instruction(op, b + 1)>>, b, b, {})
<1> DEFINE x == Instruction("push", b)
<1>1. x \in Instructions /\ x.op \in {"push", "closure"} /\ x.height = b
      BY InstructionTypes DEF Ops
<1> HIDE DEF x
<1>2. Piece(<<x, Instruction(op, b + 1)>>, b, b, {}) BY <1>1, UsedPiece
<1> QED BY <1>2 DEF x

(* The code of a condition, and the jump that tests it. *)
LEMMA ConditionPiece ==
    ASSUME NEW b \in Nat, NEW s,
           s = <<Instruction("push", b), Jump("jumpIfFalse", NoTarget, b + 1),
                 Instruction("pop", b + 1)>>
    PROVE  /\ Piece(s, b, b, {2}) /\ s \in Seq(Instructions) /\ Len(s) = 3
           /\ s[2].op = "jumpIfFalse" /\ s[2].height = b + 1
<1> DEFINE x == Instruction("push", b)
           y == Jump("jumpIfFalse", NoTarget, b + 1)
           z == Instruction("pop", b + 1)
<1>0. s = <<x, y, z>> OBVIOUS
<1>1. /\ x \in Instructions /\ x.op = "push" /\ x.height = b
      /\ y \in Instructions /\ y.op = "jumpIfFalse" /\ y.height = b + 1 /\ y.to = NoTarget
      /\ z \in Instructions /\ z.op = "pop" /\ z.height = b + 1
  <2>1. b + 1 \in Nat /\ NoTarget \in Nat BY DEF NoTarget
  <2>2. x \in Instructions /\ x.op = "push" /\ x.height = b
        BY ONLY b \in Nat, <2>1, InstructionTypes DEF Ops, x, y, z
  <2>3. y \in Instructions /\ y.op = "jumpIfFalse" /\ y.height = b + 1 /\ y.to = NoTarget
        BY ONLY b \in Nat, <2>1, InstructionTypes DEF Ops, x, y, z
  <2>4. z \in Instructions /\ z.op = "pop" /\ z.height = b + 1
        BY ONLY b \in Nat, <2>1, InstructionTypes DEF Ops, x, y, z
  <2> QED BY <2>2, <2>3, <2>4
<1> HIDE DEF x, y, z
<1>2. s \in Seq(Instructions) /\ Len(s) = 3 /\ s[1] = x /\ s[2] = y /\ s[3] = z BY ONLY <1>0, <1>1
<1>3. \A n \in 1..Len(s) : n = 1 \/ n = 2 \/ n = 3 BY <1>2
<1>4. HeightAt(s, b, 1) = b /\ HeightAt(s, b, 2) = b + 1 /\ HeightAt(s, b, 3) = b + 1
      BY <1>1, <1>2 DEF HeightAt
<1>5. HeightAt(s, b, 4) = b BY <1>2 DEF HeightAt
<1>6. StepOK(s, b, 1) /\ StepOK(s, b, 2) /\ StepOK(s, b, 3)
      BY <1>1, <1>2, <1>4, <1>5 DEF StepOK, JumpOps
<1>7. Flow(s, b) BY <1>2, <1>3, <1>6 DEF Flow
<1>8. Piece(s, b, b, {2}) BY <1>1, <1>2, <1>3, <1>4, <1>7 DEF Piece, JumpOps
<1> QED BY <1>1, <1>2, <1>8

(* The same, after the code c. *)
LEMMA ConditionEmitted ==
    ASSUME NEW b \in Nat, NEW c, Flow(c, b), NEW s,
           s = <<Instruction("push", b), Jump("jumpIfFalse", NoTarget, b + 1),
                 Instruction("pop", b + 1)>>
    PROVE  /\ Grown(c, b, c \o s, b, {}, {Len(c) + 2}) /\ Len(c \o s) = Len(c) + 3
           /\ Len(c) \in Nat /\ Len(c) + 2 \in 1..Len(c \o s) /\ c \o s \in Seq(Instructions)
           /\ (c \o s)[Len(c) + 2].op = "jumpIfFalse" /\ (c \o s)[Len(c) + 2].height = b + 1
<1> DEFINE d == c \o s
<1>1. c \in Seq(Instructions) /\ Len(c) \in Nat BY FlowTypes
<1>2. /\ Piece(s, b, b, {2}) /\ s \in Seq(Instructions) /\ Len(s) = 3
      /\ s[2].op = "jumpIfFalse" /\ s[2].height = b + 1
      BY ConditionPiece
<1>3. d \in Seq(Instructions) /\ Len(d) = Len(c) + 3 /\ d[Len(c) + 2] = s[2]
  <2> DEFINE i == 2
  <2>1. i \in 1..Len(s) BY <1>2
  <2> HIDE DEF i
  <2>2. d[Len(c) + i] = s[i] BY <1>1, <1>2, <2>1, JoinedAt
  <2>3. d \in Seq(Instructions) /\ Len(d) = Len(c) + 3 BY <1>1, <1>2, Joined
  <2> QED BY <2>2, <2>3 DEF i
<1>4. Grown(c, b, d, b, {}, {Len(c) + 2}) BY <1>2, Emitted
<1> HIDE DEF d
<1>5. Len(c) + 2 \in 1..Len(d) BY <1>1, <1>3
<1> QED BY <1>1, <1>2, <1>3, <1>4, <1>5 DEF d

(* The two jumps of an `or`: the first goes to its right operand. *)
LEMMA OrPiece ==
    ASSUME NEW b \in Nat, NEW s,
           s = <<Jump("jumpIfFalse", NoTarget, b), Jump("jump", NoTarget, b)>>
    PROVE  /\ Piece(s, b, b, {1, 2}) /\ s \in Seq(Instructions) /\ Len(s) = 2
           /\ s[1].op = "jumpIfFalse" /\ s[2].op = "jump" /\ s[1].height = b /\ s[2].height = b
<1> DEFINE x == Jump("jumpIfFalse", NoTarget, b)
           y == Jump("jump", NoTarget, b)
<1>0. s = <<x, y>> OBVIOUS
<1>1. /\ x \in Instructions /\ x.op = "jumpIfFalse" /\ x.height = b /\ x.to = NoTarget
      /\ y \in Instructions /\ y.op = "jump" /\ y.height = b /\ y.to = NoTarget
      BY InstructionTypes DEF Ops, NoTarget
<1> HIDE DEF x, y
<1>2. s \in Seq(Instructions) /\ Len(s) = 2 /\ s[1] = x /\ s[2] = y BY ONLY <1>0, <1>1
<1>3. \A n \in 1..Len(s) : n = 1 \/ n = 2 BY <1>2
<1>4. HeightAt(s, b, 1) = b /\ HeightAt(s, b, 2) = b /\ HeightAt(s, b, 3) = b
      BY <1>1, <1>2 DEF HeightAt
<1>5. StepOK(s, b, 1) /\ StepOK(s, b, 2) BY <1>1, <1>2, <1>4 DEF StepOK, JumpOps
<1>6. Flow(s, b) BY <1>2, <1>3, <1>5 DEF Flow
<1>7. Piece(s, b, b, {1, 2}) BY <1>3, <1>1, <1>2, <1>4, <1>6 DEF Piece
<1> QED BY <1>1, <1>2, <1>7

(* The increment of a for statement, up to its jump back. *)
LEMMA IncrementPiece ==
    ASSUME NEW b \in Nat, NEW s,
           s = <<Jump("jump", NoTarget, b), Instruction("push", b), Instruction("pop", b + 1)>>
    PROVE  /\ Piece(s, b, b, {1}) /\ s \in Seq(Instructions) /\ Len(s) = 3
           /\ s[1].op = "jump" /\ s[1].height = b /\ s[2].height = b
<1> DEFINE x == Jump("jump", NoTarget, b)
           y == Instruction("push", b)
           z == Instruction("pop", b + 1)
<1>0. s = <<x, y, z>> OBVIOUS
<1>1. /\ x \in Instructions /\ x.op = "jump" /\ x.height = b /\ x.to = NoTarget
      /\ y \in Instructions /\ y.op = "push" /\ y.height = b
      /\ z \in Instructions /\ z.op = "pop" /\ z.height = b + 1
  <2>1. b + 1 \in Nat /\ NoTarget \in Nat BY DEF NoTarget
  <2>2. x \in Instructions /\ x.op = "jump" /\ x.height = b /\ x.to = NoTarget
        BY ONLY b \in Nat, <2>1, InstructionTypes DEF Ops, x, y, z
  <2>3. y \in Instructions /\ y.op = "push" /\ y.height = b
        BY ONLY b \in Nat, <2>1, InstructionTypes DEF Ops, x, y, z
  <2>4. z \in Instructions /\ z.op = "pop" /\ z.height = b + 1
        BY ONLY b \in Nat, <2>1, InstructionTypes DEF Ops, x, y, z
  <2> QED BY <2>2, <2>3, <2>4
<1> HIDE DEF x, y, z
<1>2. s \in Seq(Instructions) /\ Len(s) = 3 /\ s[1] = x /\ s[2] = y /\ s[3] = z BY ONLY <1>0, <1>1
<1>3. \A n \in 1..Len(s) : n = 1 \/ n = 2 \/ n = 3 BY <1>2
<1>4. HeightAt(s, b, 1) = b /\ HeightAt(s, b, 2) = b /\ HeightAt(s, b, 3) = b + 1
      BY <1>1, <1>2 DEF HeightAt
<1>5. HeightAt(s, b, 4) = b BY <1>2 DEF HeightAt
<1>6. StepOK(s, b, 1) /\ StepOK(s, b, 2) /\ StepOK(s, b, 3)
      BY <1>1, <1>2, <1>4, <1>5 DEF StepOK, JumpOps
<1>7. Flow(s, b) BY <1>2, <1>3, <1>6 DEF Flow
<1>8. Piece(s, b, b, {1}) BY <1>1, <1>2, <1>3, <1>4, <1>7 DEF Piece, JumpOps
<1> QED BY <1>1, <1>2, <1>8

(* endScope gives up the locals from the last one down. *)
LEMMA PopsPiece ==
    ASSUME NEW d \in Nat, LocalsOK(locals, d), NEW e \in Nat
    PROVE  Piece(Pops(e), Base, Outer(e), {})
<1> DEFINE b == Len(locals)
           w == Outer(e)
           s == Pops(e)
           op(m) == IF locals[b - m + 1].captured THEN "close" ELSE "pop"
<1>1. b \in Nat /\ w \in 0..b
  <2>1. locals \in Seq(LocalSet) BY DEF LocalsOK
  <2>2. w = Within(locals, e) BY DEF Outer, Within
  <2> QED BY <2>1, <2>2, WithinHolds DEF WithinIs
<1>2. s = [m \in 1..(b - w) |-> Instruction(op(m), b - m + 1)] BY DEF Pops
<1>3. \A m \in 1..(b - w) : op(m) \in {"close", "pop"} OBVIOUS
<1> HIDE DEF b, w, s, op
<1>4. ASSUME NEW m \in 1..(b - w)
      PROVE  s[m] \in Instructions /\ s[m].op \in {"close", "pop"} /\ s[m].height = b - m + 1
  <2>1. b - m + 1 \in Nat /\ op(m) \in Ops BY <1>1, <1>3 DEF Ops
  <2>2. s[m] = Instruction(op(m), b - m + 1) BY <1>2
  <2> QED BY <2>1, <2>2, <1>3, InstructionTypes
<1>5. s \in Seq(Instructions) /\ Len(s) = b - w
  <2>1. b - w \in Nat /\ DOMAIN s = 1..(b - w) /\ s = [m \in 1..(b - w) |-> s[m]] BY <1>1, <1>2
  <2> QED BY <2>1, <1>4
<1>6. \A m \in 1..(b - w + 1) : HeightAt(s, w, m) = b - m + 1
      BY <1>1, <1>4, <1>5 DEF HeightAt
<1>7. ASSUME NEW m \in 1..Len(s) PROVE StepOK(s, w, m)
  <2>1. m \in 1..(b - w) /\ m + 1 \in 1..(b - w + 1) BY <1>1, <1>5
  <2>2. HeightAt(s, w, m + 1) = b - m BY <2>1, <1>1, <1>6
  <2> QED BY <2>1, <2>2, <1>1, <1>4 DEF StepOK, JumpOps
<1>8. Flow(s, w) BY <1>1, <1>5, <1>7 DEF Flow
<1>9. HeightAt(s, w, 1) = b BY <1>1, <1>6
<1>10. Piece(s, b, w, {}) BY <1>4, <1>5, <1>8, <1>9 DEF Piece, JumpOps
<1> QED BY <1>10 DEF b, w, s, Base

-----------------------------------------------------------------------------
(* The steps of the compiler. *)

(* What the steps of the compiler use of the invariant. *)
LEMMA CompileFacts ==
    ASSUME CompileOK
    PROVE  /\ Coherent(code, locals, scopeDepth, nest, Outside, loops)
           /\ Flow(code, Base) /\ Len(code) \in Nat /\ Base = Len(locals) /\ Base \in Nat \ {0}
           /\ Base <= MaxLocals /\ code \in Seq(Instructions)
           /\ locals \in Seq(LocalSet) /\ LocalsOK(locals, scopeDepth) /\ scopeDepth \in Nat
           /\ NestOK(nest, Outside, scopeDepth) /\ nest \in Seq(Entries) /\ Len(nest) \in Nat
           /\ loops \in Seq(LoopSet) /\ Within(locals, scopeDepth) = Base
<1>1. Coherent(code, locals, scopeDepth, nest, Outside, loops) BY DEF CompileOK
<1>2. /\ Flow(code, Base) /\ LocalsOK(locals, scopeDepth) /\ NestOK(nest, Outside, scopeDepth)
      /\ LoopsOK(code, locals, nest, loops) /\ scopeDepth \in Nat
      BY <1>1 DEF Coherent, Base
<1>3. nest \in Seq(Entries) BY <1>2, NestDepth
<1>4. locals \in Seq(LocalSet) /\ Base \in Nat \ {0} /\ Base = Len(locals) /\ Base <= MaxLocals
      BY <1>2 DEF LocalsOK, Base
<1>5. Within(locals, scopeDepth) = Base BY <1>2, WithinAll DEF Base
<1> QED BY <1>1, <1>2, <1>3, <1>4, <1>5, FlowTypes, NestTypes DEF LoopsOK

(* A step that keeps the code and the compiler together keeps CompileOK. *)
LEMMA Compiled ==
    ASSUME CompileOK, UNCHANGED <<type, machine>>, NEW J, NEW N,
           Grown(code, Base, code', Len(locals'), J, N),
           Coherent(code', locals', scopeDepth', nest', Outside, loops')
    PROVE  CompileOK'
<1>1. Outside' = Outside BY DEF Outside
<1>2. HeightAt(code', Len(locals'), 1) = HeightAt(code, Base, 1)
  <2>1. 1 \in 1..(Len(code) + 1) BY CompileFacts
  <2> QED BY <2>1 DEF Grown
<1> QED BY <1>1, <1>2 DEF CompileOK, machine, Base

(* A statement that emits code and is complete. *)
LEMMA Simple ==
    ASSUME CompileOK, NEW c, SimpleStatement(c), NEW J, Grown(code, Base, c, Base, J, {})
    PROVE  CompileOK'
<1>1. /\ code' = c /\ nest' = Complete(nest) /\ UNCHANGED <<type, machine>>
      /\ UNCHANGED <<locals, scopeDepth, loops>>
      BY DEF SimpleStatement
<1>2. /\ nest' \in Seq(Entries) /\ Len(nest') = Len(nest) /\ KeptTo(nest, nest', Len(nest))
      BY <1>1, CompileFacts, CompleteKept
<1>3. Stays(locals, locals, nest, Len(nest)) BY DEF Stays
<1>4. /\ Coherent(code, locals, scopeDepth, nest, Outside, loops) /\ LocalsOK(locals, scopeDepth)
      /\ Base = Len(locals)
      BY CompileFacts
<1>5. Grown(code, Len(locals), c, Len(locals), J, {}) BY <1>4
<1>6. Coherent(c, locals, scopeDepth, nest', Outside, loops)
      BY ONLY <1>2, <1>3, <1>4, <1>5, SimpleCoherent
<1> QED BY <1>1, <1>4, <1>5, <1>6, Compiled

(* The code of an expression statement. *)
LEMMA DiscardedGrown ==
    ASSUME NEW c, Flow(c, Base), Base \in Nat
    PROVE  Grown(c, Base, c \o Discarded, Base, {}, {})
<1>1. Piece(Discarded, Base, Base, {}) BY UsedExpression DEF Discarded
<1> QED BY <1>1, Emitted

(* expressionStatement(). *)
LEMMA StepExpressionStatement ==
    ASSUME CompileOK, ExpressionStatement PROVE CompileOK'
BY CompileFacts, DiscardedGrown, Simple DEF ExpressionStatement

(* returnStatement(). *)
LEMMA StepReturnStatement ==
    ASSUME CompileOK, ReturnStatement PROVE CompileOK'
<1> DEFINE s == <<Instruction("push", Base), Instruction("return", Base + 1)>>
           c == code \o Expression \o <<Instruction("return", Base + 1)>>
<1>1. Flow(code, Base) /\ Base \in Nat /\ code \in Seq(Instructions) BY CompileFacts
<1>2. Piece(s, Base, Base, {}) BY <1>1, UsedExpression
<1>3. Grown(code, Base, code \o s, Base, {}, {}) BY <1>1, <1>2, Emitted
<1>4. c = code \o s
  <2>1. Instruction("push", Base) \in Instructions /\ Instruction("return", Base + 1) \in Instructions
        BY <1>1, InstructionTypes DEF Ops
  <2> QED BY <2>1, <1>1 DEF Expression
<1>5. SimpleStatement(c) BY DEF ReturnStatement
<1> QED BY <1>3, <1>4, <1>5, Simple

(* One instruction that is no jump, after the code c. *)
LEMMA PlainAppended ==
    ASSUME NEW c, NEW b, Flow(c, b), NEW op \in Ops \ JumpOps, NEW e \in Nat,
           op \in {"push", "closure"} => e = b + 1,
           op \in {"pop", "close", "define"} => e + 1 = b
    PROVE  Grown(c, b, Append(c, Instruction(op, b)), e, {}, {})
<1> DEFINE x == Instruction(op, b)
<1>1. b \in Nat BY FlowTypes
<1>2. x \in Instructions /\ x.op = op /\ x.height = b BY <1>1, InstructionTypes
<1> HIDE DEF x
<1>3. x.op # "jumpIfFalse" /\ x.op \notin JumpOps BY <1>2 DEF JumpOps
<1>4. Grown(c, b, Append(c, x), e, {}, {}) BY <1>2, <1>3, FlowAppended
<1> QED BY <1>4 DEF x

(* Two ways to add an element. *)
LEMMA OneAppended ==
    ASSUME NEW S, NEW c \in Seq(S), NEW x \in S PROVE c \o <<x>> = Append(c, x)
OBVIOUS

(* The condition of the statement that begins here. *)
LEMMA CompileCondition ==
    ASSUME CompileOK
    PROVE  /\ Grown(code, Base, code \o Condition, Base, {}, {Len(code) + 2})
           /\ Len(code) + 2 \in 1..Len(code \o Condition) /\ Len(code \o Condition) \in Nat
           /\ (code \o Condition)[Len(code) + 2].op = "jumpIfFalse"
           /\ (code \o Condition)[Len(code) + 2].height = Base + 1
<1> DEFINE b == Base
           s == Condition
           c == code
<1>1. Flow(c, b) /\ b \in Nat BY CompileFacts
<1>2. s = <<Instruction("push", b), Jump("jumpIfFalse", NoTarget, b + 1), Instruction("pop", b + 1)>>
      BY DEF Condition
<1> HIDE DEF b, s, c
<1>3. /\ Grown(c, b, c \o s, b, {}, {Len(c) + 2}) /\ Len(c \o s) = Len(c) + 3
      /\ Len(c) \in Nat /\ Len(c) + 2 \in 1..Len(c \o s)
      /\ (c \o s)[Len(c) + 2].op = "jumpIfFalse" /\ (c \o s)[Len(c) + 2].height = b + 1
      BY ONLY <1>1, <1>2, ConditionEmitted
<1> QED BY <1>3 DEF b, s, c

(* and_(). *)
LEMMA StepAnd ==
    ASSUME CompileOK, And PROVE CompileOK'
<1> DEFINE b == Base
           m == Len(code) + 2
           c1 == code \o Condition
           c2 == c1 \o Expression
           c3 == Patch(c2, {m})
           x == Instruction("pop", b + 1)
           c4 == c3 \o <<x>>
<1>1. Flow(code, b) /\ b \in Nat /\ code \in Seq(Instructions) /\ Len(code) \in Nat
      BY CompileFacts
<1>2. SimpleStatement(c4) BY DEF And
<1>3. /\ Grown(code, b, c1, b, {}, {m}) /\ m \in 1..Len(c1) /\ Len(c1) \in Nat
      /\ c1[m].op = "jumpIfFalse" /\ c1[m].height = b + 1
      BY CompileCondition
<1>4. Piece(Expression, b, b + 1, {}) BY <1>1, ExpressionPiece DEF Expression
<1> HIDE DEF b
<1>5. Flow(c1, b) BY <1>3 DEF Grown
<1> HIDE DEF c1, m
<1>6. Grown(c1, b, c2, b + 1, {}, {}) BY <1>4, <1>5, Emitted
<1>7. Flow(c2, b + 1) /\ m \in 1..Len(c2) /\ c2[m].op = "jumpIfFalse" /\ c2[m].height = b + 1
  <2>1. Flow(c2, b + 1) /\ Len(c2) \in Nat BY <1>6, FlowTypes DEF Grown
  <2> QED BY <2>1, <1>3, <1>6 DEF Grown
<1> HIDE DEF c2
<1>8. Grown(c2, b + 1, c3, b + 1, {m}, {})
       BY <1>1, <1>7, FlowPatched DEF JumpOps, Reaches
<1>9. Flow(c3, b + 1) /\ c3 \in Seq(Instructions) BY <1>8, FlowTypes DEF Grown
<1> HIDE DEF c3
<1>10. Grown(c3, b + 1, c4, b, {}, {})
  <2>1. c4 = Append(c3, x) BY <1>1, <1>9, OneAppended, InstructionTypes DEF Ops
  <2>2. Grown(c3, b + 1, Append(c3, x), b, {}, {}) BY <1>1, <1>9, PlainAppended DEF Ops, JumpOps
  <2> QED BY <2>1, <2>2
<1> HIDE DEF c4
<1>11. Grown(code, b, c2, b + 1, {}, {m}) BY <1>1, <1>3, <1>6, GrownThen
<1>12. Grown(code, b, c3, b + 1, {}, {}) BY <1>1, <1>8, <1>11, GrownThen
<1>13. Grown(code, b, c4, b, {}, {}) BY <1>1, <1>10, <1>12, GrownThen
<1> QED BY <1>2, <1>13, Simple DEF b

(* The code of an `or`. *)
TwoJumps(s, b) ==
    /\ s[1].op = "jumpIfFalse" /\ s[2].op = "jump" /\ s[1].height = b /\ s[2].height = b

(* It takes the stack from b values to b values. *)
LEMMA OrGrown ==
    ASSUME NEW b \in Nat, NEW c, Flow(c, b), NEW x, NEW s, NEW y,
           Piece(x, b, b + 1, {}), Len(x) = 1, Piece(y, b + 1, b, {}), Len(y) = 1,
           Piece(s, b + 1, b + 1, {1, 2}), Len(s) = 2, TwoJumps(s, b + 1)
    PROVE  Grown(c, b, Patch(Patch(c \o x \o s, {Len(c) + 2}) \o y \o x, {Len(c) + 3}) \o y,
                 b, {}, {})
<1> DEFINE m == Len(c) + 2
           n == Len(c) + 3
           c1 == c \o x
           c2 == c1 \o s
           c3 == Patch(c2, {m})
           c4 == c3 \o y
           c5 == c4 \o x
           c6 == Patch(c5, {n})
           c7 == c6 \o y
<1>1. /\ c \in Seq(Instructions) /\ Len(c) \in Nat /\ m \in Nat /\ n \in Nat /\ m # n
      /\ x \in Seq(Instructions) /\ s \in Seq(Instructions) /\ y \in Seq(Instructions)
      BY FlowTypes DEF Piece
<1>2. Grown(c, b, c1, b + 1, {}, {}) BY Emitted
<1>3. c1 \in Seq(Instructions) /\ Len(c1) = Len(c) + 1 /\ Flow(c1, b + 1)
  <2>1. c1 \in Seq(Instructions) /\ Len(c1) = Len(c) + Len(x) BY ONLY <1>1, Joined
  <2> QED BY <2>1, <1>2, GrownFlow
<1>4. m = Len(c1) + 1 /\ n = Len(c1) + 2 BY <1>1, <1>3
<1> HIDE DEF c1, m, n
<1>5. Grown(c1, b + 1, c2, b + 1, {}, {m, n}) BY <1>3, <1>4, Emitted
<1>6. c2 \in Seq(Instructions) /\ Len(c2) = Len(c) + 3 /\ Flow(c2, b + 1)
  <2>1. c2 \in Seq(Instructions) /\ Len(c2) = Len(c1) + Len(s) BY ONLY <1>1, <1>3, Joined
  <2> QED BY <2>1, <1>1, <1>3, <1>5, GrownFlow
<1>7. c2[m] = s[1] /\ c2[n] = s[2]
  <2> DEFINE i == 1
             j == 2
  <2>1. i \in 1..Len(s) /\ j \in 1..Len(s) /\ m = Len(c1) + i /\ n = Len(c1) + j BY <1>4
  <2> HIDE DEF i, j
  <2>2. c2[Len(c1) + i] = s[i] BY ONLY <1>1, <1>3, <2>1, JoinedAt
  <2>3. c2[Len(c1) + j] = s[j] BY ONLY <1>1, <1>3, <2>1, JoinedAt
  <2> QED BY <2>1, <2>2, <2>3 DEF i, j
<1> HIDE DEF c2
<1>8. m \in 1..Len(c2) /\ n \in 1..Len(c2) BY <1>1, <1>6 DEF m, n
<1>9. Patchable(c2, {m}, b + 1) BY <1>7, <1>8 DEF Patchable, JumpOps, Reaches, TwoJumps
<1>10. /\ Grown(c2, b + 1, c3, b + 1, {m}, {}) /\ Len(c3) = Len(c2) /\ Flow(c3, b + 1)
       /\ c3[n].op = "jump" /\ c3[n].height = b + 1
       BY <1>6, <1>7, <1>8, <1>9, Patched, GrownFlow DEF TwoJumps
<1> HIDE DEF c3
<1>11. Grown(c3, b + 1, c4, b, {}, {}) /\ Flow(c4, b) BY <1>10, Emitted, GrownFlow
<1> HIDE DEF c4
<1>12. Grown(c4, b, c5, b + 1, {}, {}) /\ Flow(c5, b + 1) BY <1>11, Emitted, GrownFlow
<1>13. Grown(c3, b + 1, c5, b + 1, {}, {}) BY <1>10, <1>11, <1>12, GrownThen
<1> HIDE DEF c5
<1>14. n \in 1..Len(c5) /\ c5[n].op = "jump" /\ c5[n].height = b + 1
  <2>1. n \in 1..Len(c3) BY <1>8, <1>10
  <2>2. Len(c5) \in Nat /\ Len(c3) \in Nat BY <1>10, <1>12, FlowTypes
  <2> QED BY <2>1, <2>2, <1>10, <1>13 DEF Grown
<1>15. Patchable(c5, {n}, b + 1) BY <1>14 DEF Patchable, JumpOps, Reaches
<1>16. Grown(c5, b + 1, c6, b + 1, {n}, {}) /\ Flow(c6, b + 1)
       BY <1>12, <1>15, Patched, GrownFlow
<1> HIDE DEF c6
<1>17. Grown(c6, b + 1, c7, b, {}, {}) BY <1>16, Emitted
<1> HIDE DEF c7
<1>18. Grown(c, b, c2, b + 1, {}, {m, n}) BY <1>2, <1>5, GrownThen
<1>19. Grown(c, b, c3, b + 1, {}, {n}) BY <1>10, <1>18, GrownThen
<1>20. Grown(c, b, c5, b + 1, {}, {n}) BY <1>13, <1>19, GrownThen
<1>21. Grown(c, b, c6, b + 1, {}, {}) BY <1>16, <1>20, GrownThen
<1>22. Grown(c, b, c7, b, {}, {}) BY <1>17, <1>21, GrownThen
<1> QED BY <1>22 DEF c7, c6, c5, c4, c3, c2, c1, m, n

(* or_(). *)
LEMMA StepOr ==
    ASSUME CompileOK, Or PROVE CompileOK'
<1> DEFINE b == Base
           x == Expression
           y == <<Instruction("pop", b + 1)>>
           s == <<Jump("jumpIfFalse", NoTarget, b + 1), Jump("jump", NoTarget, b + 1)>>
           c == Patch(Patch(code \o x \o s, {Len(code) + 2}) \o y \o x, {Len(code) + 3}) \o y
<1>1. Flow(code, b) /\ b \in Nat /\ b + 1 \in Nat BY CompileFacts
<1>2. Piece(x, b, b + 1, {}) /\ Len(x) = 1 BY <1>1, ExpressionPiece DEF Expression
<1>3. Piece(y, b + 1, b, {}) /\ Len(y) = 1 BY <1>1, PopPiece
<1>4. Piece(s, b + 1, b + 1, {1, 2}) /\ Len(s) = 2 /\ TwoJumps(s, b + 1)
      BY <1>1, OrPiece DEF TwoJumps
<1>5. SimpleStatement(c) BY DEF Or
<1> HIDE DEF x, y, s
<1>6. Grown(code, b, c, b, {}, {}) BY <1>1, <1>2, <1>3, <1>4, OrGrown
<1> HIDE DEF c
<1> QED BY <1>5, <1>6, Simple

(* Code that is emitted for a statement that is entered. *)
LEMMA StepIf ==
    ASSUME CompileOK, If PROVE CompileOK'
<1> DEFINE m == Len(code) + 2
           x == [kind |-> "then", jumps |-> {m}, start |-> 0, depth |-> scopeDepth, done |-> FALSE]
           c == code \o Condition
<1>1. /\ code' = c /\ nest' = Append(nest, x) /\ UNCHANGED <<type, machine>>
      /\ UNCHANGED <<locals, scopeDepth, loops>>
      BY DEF If, Enter
<1>2. /\ Coherent(code, locals, scopeDepth, nest, Outside, loops) /\ Base = Len(locals)
      /\ LocalsOK(locals, scopeDepth) /\ Within(locals, scopeDepth) = Base /\ Base \in Nat
      /\ scopeDepth \in Nat /\ Len(code) \in Nat
      BY CompileFacts
<1>3. /\ Grown(code, Base, c, Base, {}, {m}) /\ m \in 1..Len(c)
      /\ c[m].op = "jumpIfFalse" /\ c[m].height = Base + 1 /\ m \in Nat
      BY CompileCondition, <1>2
<1> HIDE DEF m, c
<1>4. /\ x \in Entries /\ x.kind = "then" /\ x.jumps = {m} /\ x.depth = scopeDepth
      BY <1>2, <1>3 DEF Entries, Kinds
<1> HIDE DEF x
<1>5. EntryOK(c, Len(locals), locals, x)
      BY <1>2, <1>3, <1>4 DEF EntryOK, JumpOps, LoopKinds
<1>6. x.depth = scopeDepth + (IF x.kind \in Scoped THEN 1 ELSE 0) /\ x.kind \notin LoopKinds
      BY <1>2, <1>4 DEF Scoped, LoopKinds
<1>7. Stays(locals, locals, nest, Len(nest)) BY DEF Stays
<1>8. Grown(code, Len(locals), c, Len(locals), {}, x.jumps) BY <1>2, <1>3, <1>4
<1>9. LocalsOK(locals, x.depth) BY <1>2, <1>4
<1>10. Coherent(c, locals, x.depth, Append(nest, x), Outside, loops)
       BY ONLY <1>2, <1>4, <1>5, <1>6, <1>7, <1>8, <1>9, EnteredCoherent
<1>11. Coherent(code', locals', scopeDepth', nest', Outside, loops') BY <1>1, <1>4, <1>10
<1>12. Grown(code, Base, code', Len(locals'), {}, {m}) BY <1>1, <1>2, <1>3
<1> QED BY <1>1, <1>11, <1>12, Compiled

(* A block begins: beginScope(). *)
LEMMA StepBeginBlock ==
    ASSUME CompileOK, BeginBlock PROVE CompileOK'
<1> DEFINE x == [kind |-> "block", jumps |-> {}, start |-> 0, depth |-> scopeDepth + 1, done |-> FALSE]
<1>1. /\ nest' = Append(nest, x) /\ scopeDepth' = scopeDepth + 1 /\ UNCHANGED <<type, machine>>
      /\ UNCHANGED <<code, locals, loops>>
      BY DEF BeginBlock, Enter
<1>2. /\ Coherent(code, locals, scopeDepth, nest, Outside, loops) /\ Base = Len(locals)
      /\ LocalsOK(locals, scopeDepth) /\ scopeDepth \in Nat /\ Flow(code, Base)
      BY CompileFacts
<1>3. x \in Entries /\ x.kind = "block" /\ x.jumps = {} /\ x.depth = scopeDepth + 1
      BY <1>2 DEF Entries, Kinds
<1> HIDE DEF x
<1>4. EntryOK(code, Len(locals), locals, x) BY <1>3 DEF EntryOK, LoopKinds
<1>5. x.depth = scopeDepth + (IF x.kind \in Scoped THEN 1 ELSE 0) /\ x.kind \notin LoopKinds
      BY <1>3 DEF Scoped, LoopKinds
<1>6. Stays(locals, locals, nest, Len(nest)) BY DEF Stays
<1>7. Grown(code, Len(locals), code, Len(locals), {}, x.jumps) BY <1>2, <1>3, GrownSame
<1>8. LocalsOK(locals, x.depth) BY <1>2, <1>3, LocalsDeeper
<1>9. Coherent(code, locals, x.depth, Append(nest, x), Outside, loops)
      BY ONLY <1>2, <1>3, <1>4, <1>5, <1>6, <1>7, <1>8, EnteredCoherent
<1>10. Coherent(code', locals', scopeDepth', nest', Outside, loops') BY <1>1, <1>3, <1>9
<1>11. Grown(code, Base, code', Len(locals'), {}, {}) BY <1>1, <1>2, <1>3, <1>7
<1> QED BY <1>1, <1>10, <1>11, Compiled

(* whileStatement(), up to its body. *)
LEMMA StepWhile ==
    ASSUME CompileOK, While PROVE CompileOK'
<1> DEFINE m == Len(code) + 2
           t == Len(code) + 1
           x == [kind |-> "while", jumps |-> {m}, start |-> t, depth |-> scopeDepth, done |-> FALSE]
           l == [target |-> t, breaks |-> {}, base |-> Base, at |-> Len(nest) + 1]
           c == code \o Condition
<1>1. /\ code' = c /\ nest' = Append(nest, x) /\ loops' = Append(loops, l)
      /\ UNCHANGED <<type, machine>> /\ UNCHANGED <<locals, scopeDepth>>
      BY DEF While, Enter, BeginLoop, Next1
<1>2. /\ Coherent(code, locals, scopeDepth, nest, Outside, loops) /\ Base = Len(locals)
      /\ LocalsOK(locals, scopeDepth) /\ Within(locals, scopeDepth) = Base /\ Base \in Nat
      /\ scopeDepth \in Nat /\ Len(code) \in Nat /\ Len(nest) \in Nat
      BY CompileFacts
<1>3. /\ Grown(code, Base, c, Base, {}, {m}) /\ m \in 1..Len(c) /\ Len(c) \in Nat
      /\ c[m].op = "jumpIfFalse" /\ c[m].height = Base + 1 /\ m \in Nat
      BY CompileCondition, <1>2
<1>4. t \in 1..(Len(c) + 1) /\ HeightAt(c, Base, t) = Base /\ t \in Nat
  <2>1. t \in 1..(Len(code) + 1) /\ HeightAt(code, Base, t) = Base BY <1>2 DEF HeightAt
  <2>2. HeightAt(c, Base, t) = HeightAt(code, Base, t) BY <2>1, <1>3 DEF Grown
  <2>3. Len(code) <= Len(c) BY <1>3 DEF Grown
  <2> QED BY <2>1, <2>2, <2>3, <1>2, <1>3
<1> HIDE DEF m, c, t
<1>5. /\ x \in Entries /\ x.kind = "while" /\ x.jumps = {m} /\ x.depth = scopeDepth
      /\ x.start = t
      BY <1>2, <1>3, <1>4 DEF Entries, Kinds
<1>6. /\ l \in LoopSet /\ l.target = x.start /\ l.breaks = {} /\ l.base = Len(locals)
      /\ l.at = Len(nest) + 1
      BY <1>2, <1>4 DEF LoopSet
<1> HIDE DEF x, l
<1>7. EntryOK(c, Len(locals), locals, x)
      BY <1>2, <1>3, <1>4, <1>5 DEF EntryOK, JumpOps, LoopKinds
<1>8. x.depth = scopeDepth + (IF x.kind \in Scoped THEN 1 ELSE 0) /\ x.kind \in LoopKinds
      BY <1>2, <1>5 DEF Scoped, LoopKinds
<1>9. Stays(locals, locals, nest, Len(nest)) BY DEF Stays
<1>10. Grown(code, Len(locals), c, Len(locals), {}, x.jumps) BY <1>2, <1>3, <1>5
<1>11. LocalsOK(locals, x.depth) BY <1>2, <1>5
<1>12. Coherent(c, locals, x.depth, Append(nest, x), Outside, Append(loops, l))
       BY ONLY <1>2, <1>5, <1>6, <1>7, <1>8, <1>9, <1>10, <1>11, LoopCoherent
<1>13. Coherent(code', locals', scopeDepth', nest', Outside, loops') BY <1>1, <1>5, <1>12
<1>14. Grown(code, Base, code', Len(locals'), {}, {m}) BY <1>1, <1>2, <1>3
<1> QED BY <1>1, <1>13, <1>14, Compiled

(* The statement that the parser is in, whose locals are all there are. *)
LEMMA LastEntry ==
    ASSUME CompileOK, nest # <<>>
    PROVE  /\ Last(nest) \in Entries /\ Last(nest) = nest[Len(nest)] /\ Len(nest) \in 1..Len(nest)
           /\ Last(nest).depth = scopeDepth /\ EntryOK(code, Base, locals, Last(nest))
           /\ Within(locals, Last(nest).depth) = Base
<1>1. /\ nest \in Seq(Entries) /\ NestOK(nest, Outside, scopeDepth) /\ Base = Len(locals)
      /\ Within(locals, scopeDepth) = Base
      BY CompileFacts
<1>2. EntriesOK(code, locals, nest) BY CompileFacts DEF Coherent
<1>3. Last(nest) = nest[Len(nest)] BY DEF Last
<1>4. Len(nest) \in 1..Len(nest) BY <1>1
<1>5. nest[Len(nest)] \in Entries BY <1>1, <1>4
<1>6. nest[Len(nest)].depth = scopeDepth BY <1>1, <1>4 DEF NestOK
<1>7. EntryOK(code, Base, locals, nest[Len(nest)]) BY <1>1, <1>2, <1>4 DEF EntriesOK
<1> QED BY <1>1, <1>3, <1>4, <1>5, <1>6, <1>7

(* The code at the end of the first branch. *)
LEMMA ThenGrown ==
    ASSUME CompileOK, nest # <<>>, Last(nest).kind = "then"
    PROVE  /\ Grown(code, Base, ThenCode, Base, Last(nest).jumps, {Len(code) + 1})
           /\ Len(code) + 1 \in 1..Len(ThenCode) /\ Len(code) + 1 \in Nat
           /\ ThenCode[Len(code) + 1].op = "jump" /\ ThenCode[Len(code) + 1].height = Base
<1> DEFINE b == Base
           m == Len(code) + 1
           J == Last(nest).jumps
           x == Jump("jump", NoTarget, b)
           c1 == Append(code, x)
           c2 == Patch(c1, J)
           p == Instruction("pop", b + 1)
           c3 == Append(c2, p)
<1>1. Flow(code, b) /\ b \in Nat /\ code \in Seq(Instructions) /\ Len(code) \in Nat
      BY CompileFacts
<1>2. \A n \in J : n \in 1..Len(code) /\ code[n].op \in JumpOps /\ code[n].height = b + 1
      BY LastEntry DEF EntryOK
<1> HIDE DEF J
<1>3. /\ x \in Instructions /\ x.op = "jump" /\ x.height = b /\ x.to = NoTarget
      /\ p \in Instructions /\ p.op = "pop" /\ p.height = b + 1
      BY <1>1, InstructionTypes DEF Ops, NoTarget
<1>4. ThenCode = c3 BY DEF ThenCode, J
<1> HIDE DEF b, x, p
<1>5. /\ c1 \in Seq(Instructions) /\ Len(c1) = m /\ c1[m] = x
      /\ \A n \in 1..Len(code) : c1[n] = code[n]
      BY <1>1, <1>3, Appended
<1>6. Grown(code, b, c1, b + 1, {}, {m}) /\ Flow(c1, b + 1)
  <2>1. Grown(code, b, c1, b + 1, {}, {m}) BY <1>1, <1>3, FlowAppended DEF JumpOps
  <2> QED BY <2>1, GrownFlow
<1> HIDE DEF c1
<1>7. m \in Nat /\ m \in 1..m /\ m \notin J BY <1>1, <1>2
<1>8. Patchable(c1, J, b + 1)
  <2>1. \A n \in J : n \in 1..Len(c1) BY <1>1, <1>2, <1>5
  <2> QED BY <2>1, <1>1, <1>2, <1>5 DEF Patchable, Reaches
<1>9. /\ Grown(c1, b + 1, c2, b + 1, J, {}) /\ Len(c2) = m /\ Flow(c2, b + 1)
      /\ c2[m].op = "jump" /\ c2[m].height = b
  <2>1. /\ Grown(c1, b + 1, c2, b + 1, J, {}) /\ Len(c2) = Len(c1)
        /\ c2[m].op = c1[m].op /\ c2[m].height = c1[m].height
        BY <1>5, <1>6, <1>7, <1>8, Patched
  <2> QED BY <2>1, <1>3, <1>5, GrownFlow
<1> HIDE DEF c2
<1>10. c2 \in Seq(Instructions) BY <1>9, FlowTypes
<1>11. Len(c3) = m + 1 /\ c3[m] = c2[m]
       BY <1>3, <1>7, <1>9, <1>10, Appended
<1>12. Grown(c2, b + 1, c3, b, {}, {})
       BY <1>1, <1>9, PlainAppended DEF Ops, JumpOps, p
<1> HIDE DEF c3
<1>13. Grown(code, b, c2, b + 1, J, {m}) BY <1>1, <1>6, <1>9, GrownThen
<1>14. Grown(code, b, c3, b, J, {m}) BY <1>1, <1>12, <1>13, GrownThen
<1>15. m \in 1..Len(c3) BY <1>7, <1>11
<1> QED BY <1>4, <1>7, <1>9, <1>11, <1>14, <1>15 DEF b, J

(* ifStatement(), between its branches. *)
LEMMA StepElse ==
    ASSUME CompileOK, Else PROVE CompileOK'
<1> DEFINE m == Len(code) + 1
           k == Len(nest)
           x == nest[k]
           y == [x EXCEPT !.kind = "else", !.jumps = {m}, !.done = FALSE]
           n2 == [nest EXCEPT ![k] = y]
           c == ThenCode
<1>1. /\ code' = c /\ UNCHANGED <<type, machine>>
      /\ UNCHANGED <<locals, scopeDepth, loops>> /\ nest # <<>> /\ Last(nest).kind = "then"
      BY DEF Else, BranchDone, Inside
<1>2. nest' = n2 BY DEF Else, Next1
<1>3. /\ Coherent(code, locals, scopeDepth, nest, Outside, loops) /\ Base = Len(locals)
      /\ Within(locals, scopeDepth) = Base /\ Base \in Nat /\ nest \in Seq(Entries)
      BY CompileFacts
<1>4. /\ Last(nest) = x /\ x \in Entries /\ k \in 1..k /\ k \in Nat
      /\ x.depth = scopeDepth
      BY <1>1, <1>3, LastEntry
<1>5. /\ Grown(code, Base, c, Base, x.jumps, {m}) /\ m \in 1..Len(c)
      /\ c[m].op = "jump" /\ c[m].height = Base /\ m \in Nat
      BY <1>1, <1>4, ThenGrown
<1> HIDE DEF m, c, x
<1>6. y \in Entries /\ y.kind = "else" /\ y.jumps = {m} /\ y.depth = x.depth
      BY <1>4, <1>5 DEF Entries, Kinds
<1> HIDE DEF y
<1>7. n2 \in Seq(Entries) /\ Len(n2) = k /\ n2[k] = y /\ \A i \in 1..k : i # k => n2[i] = nest[i]
      BY <1>3, <1>4, <1>6
<1>8. EntryOK(c, Len(locals), locals, y)
      BY <1>3, <1>4, <1>5, <1>6 DEF EntryOK, JumpOps, LoopKinds
<1> HIDE DEF n2
<1>9. KeptTo(nest, n2, k - 1) BY <1>4, <1>7 DEF KeptTo
<1>10. Last(n2) = y BY <1>7 DEF Last
<1>11. Grown(code, Len(locals), c, Len(locals), Last(nest).jumps, {m}) BY <1>3, <1>4, <1>5
<1>12. /\ Last(n2).depth = Last(nest).depth /\ Last(n2).kind = "else" /\ Last(n2).jumps = {m}
       /\ EntryOK(c, Len(locals), locals, Last(n2)) /\ Last(nest).jumps \subseteq Last(nest).jumps
       BY <1>4, <1>6, <1>8, <1>10
<1>13. Coherent(c, locals, scopeDepth, n2, Outside, loops)
       BY ONLY <1>1, <1>3, <1>7, <1>9, <1>11, <1>12, ElseCoherent
<1>14. Coherent(code', locals', scopeDepth', nest', Outside, loops') BY <1>1, <1>2, <1>13
<1>15. Grown(code, Base, code', Len(locals'), x.jumps, {m}) BY <1>1, <1>3, <1>5
<1> QED BY <1>1, <1>14, <1>15, Compiled

(* A branch or a body that is complete. *)
LEMMA LeftInPlace ==
    ASSUME CompileOK, nest # <<>>, Last(nest).kind \in {"then", "else"},
           NEW c, NEW J, Grown(code, Base, c, Base, J, {}), Last(nest).jumps \subseteq J,
           code' = c, nest' = Complete(Front(nest)), UNCHANGED <<type, machine>>,
           UNCHANGED <<locals, scopeDepth, loops>>
    PROVE  CompileOK'
<1>1. /\ Coherent(code, locals, scopeDepth, nest, Outside, loops) /\ Base = Len(locals)
      /\ LocalsOK(locals, scopeDepth) /\ scopeDepth \in Nat
      BY CompileFacts
<1>2. Last(nest).kind \notin LoopKinds /\ scopeDepth = scopeDepth - (IF Last(nest).kind \in Scoped THEN 1 ELSE 0)
      BY <1>1 DEF LoopKinds, Scoped
<1>3. Stays(locals, locals, nest, Len(nest) - 1) BY DEF Stays
<1>4. Grown(code, Len(locals), c, Len(locals), J, {}) /\ Last(nest).jumps \subseteq J /\ nest # <<>>
      BY <1>1
<1>5. Coherent(c, locals, scopeDepth, Complete(Front(nest)), Outside, loops)
      BY ONLY <1>1, <1>2, <1>3, <1>4, LeftCoherent
<1>6. Coherent(code', locals', scopeDepth', nest', Outside, loops') BY <1>5
<1>7. Grown(code, Base, code', Len(locals'), J, {}) BY <1>1
<1> QED BY <1>6, <1>7, Compiled

(* ifStatement(), after its only branch. *)
LEMMA StepNoElse ==
    ASSUME CompileOK, NoElse PROVE CompileOK'
<1> DEFINE m == Len(code) + 1
           J == Last(nest).jumps
           c == Patch(ThenCode, {m})
<1>1. /\ code' = c /\ nest' = Complete(Front(nest)) /\ UNCHANGED <<type, machine>>
      /\ UNCHANGED <<locals, scopeDepth, loops>> /\ nest # <<>> /\ Last(nest).kind = "then"
      BY DEF NoElse, BranchDone, Inside, Leave, Next1
<1>2. /\ Grown(code, Base, ThenCode, Base, J, {m}) /\ m \in 1..Len(ThenCode)
      /\ ThenCode[m].op = "jump" /\ ThenCode[m].height = Base
      BY <1>1, ThenGrown
<1>3. Base \in Nat /\ Flow(code, Base) /\ Flow(ThenCode, Base) BY <1>2, CompileFacts, GrownFlow
<1> HIDE DEF m, J
<1>4. Patchable(ThenCode, {m}, Base) BY <1>2, <1>3 DEF Patchable, JumpOps, Reaches
<1>5. Grown(ThenCode, Base, c, Base, {m}, {}) BY <1>3, <1>4, Patched
<1> HIDE DEF c
<1>6. Grown(code, Base, c, Base, J, {}) BY <1>2, <1>3, <1>5, GrownThen
<1>7. Last(nest).jumps \subseteq J BY DEF J
<1> QED BY <1>1, <1>6, <1>7, LeftInPlace

(* ifStatement(), after its second branch. *)
LEMMA StepElseDone ==
    ASSUME CompileOK, ElseDone PROVE CompileOK'
<1> DEFINE J == Last(nest).jumps
           c == Patch(code, J)
<1>1. /\ code' = c /\ nest' = Complete(Front(nest)) /\ UNCHANGED <<type, machine>>
      /\ UNCHANGED <<locals, scopeDepth, loops>> /\ nest # <<>> /\ Last(nest).kind = "else"
      BY DEF ElseDone, BranchDone, Inside, Leave
<1>2. Base \in Nat /\ Flow(code, Base) BY CompileFacts
<1>3. \A n \in J : n \in 1..Len(code) /\ code[n].op \in JumpOps /\ code[n].height = Base
      BY <1>1, <1>2, LastEntry DEF EntryOK
<1>4. Last(nest).jumps \subseteq J OBVIOUS
<1> HIDE DEF J
<1>5. Patchable(code, J, Base) BY <1>2, <1>3 DEF Patchable, Reaches
<1>6. Grown(code, Base, c, Base, J, {}) BY <1>2, <1>5, Patched
<1> HIDE DEF c
<1> QED BY <1>1, <1>4, <1>6, LeftInPlace

(* The code at the end of a loop: the jump back, and the exits patched. *)
LEMMA LoopEndGrown ==
    ASSUME CompileOK, nest # <<>>, Last(nest).kind \in LoopKinds
    PROVE  Grown(code, Base, EndLoop(LoopEnd), Base, Last(nest).jumps \cup Last(loops).breaks, {})
<1> DEFINE b == Base
           J == Last(nest).jumps
           K == Last(loops).breaks
           t == Last(nest).start
           x == Jump("loop", t, b)
           c1 == Append(code, x)
           c2 == Patch(c1, J)
           p == Instruction("pop", b + 1)
           c3 == Append(c2, p)
           c4 == LoopEnd
           c5 == EndLoop(LoopEnd)
<1>1. Flow(code, b) /\ b \in Nat /\ code \in Seq(Instructions) /\ Len(code) \in Nat
      BY CompileFacts
<1>2. /\ \A n \in J : n \in 1..Len(code) /\ code[n].op \in JumpOps /\ code[n].height = b + 1
      /\ t \in 1..(Len(code) + 1) /\ HeightAt(code, b, t) = b
  <2>1. /\ EntryOK(code, b, locals, Last(nest)) /\ Within(locals, Last(nest).depth) = b
        /\ Last(nest).kind # "else"
        BY LastEntry DEF LoopKinds
  <2> QED BY <2>1 DEF EntryOK
<1>3. \A n \in K : n \in 1..Len(code) /\ code[n].op = "jump" /\ Reaches(code[n].height, b)
  <2>1. Coherent(code, locals, scopeDepth, nest, Outside, loops) BY CompileFacts
  <2>2. LoopOK(code, locals, nest, Last(loops)) /\ Last(loops).at = Len(nest)
        BY <2>1, InnermostLoop
  <2>3. Last(loops).base = b BY <2>2, LastEntry DEF LoopOK
  <2> QED BY <2>2, <2>3 DEF LoopOK
<1>4. c4 = IF J = {} THEN c1 ELSE c3 BY DEF LoopEnd
<1>5. c5 = Patch(c4, K) BY DEF EndLoop
<1>6. Grown(code, b, c1, b + 1, {}, {}) /\ Grown(code, b, c1, b, {}, {})
  <2>1. /\ x \in Instructions /\ x.op = "loop" /\ x.height = b /\ x.to = t
    <3>1. b \in Nat /\ t \in Nat BY <1>1, <1>2
    <3> HIDE DEF b, t
    <3> QED BY <3>1, InstructionTypes DEF Ops
  <2>2. b + 1 \in Nat /\ Reaches(b, HeightAt(code, b, t)) BY <1>1, <1>2 DEF Reaches
  <2> HIDE DEF x, b, t
  <2> QED BY <1>1, <1>2, <2>1, <2>2, FlowAppended
<1> HIDE DEF c4, c5, b, J, K, t, x, c1
<1>7. Grown(code, b, c4, b, J, {})
  <2>1. CASE J = {} BY <2>1, <1>4, <1>6
  <2>2. CASE J # {}
    <3>1. Flow(c1, b + 1) /\ Len(c1) \in Nat BY <1>6, GrownFlow, FlowTypes
    <3>2. \A n \in J : n \in 1..Len(c1) /\ c1[n].op = code[n].op /\ c1[n].height = code[n].height
          BY <3>1, <1>1, <1>2, <1>6 DEF Grown
    <3>3. Patchable(c1, J, b + 1) BY <3>2, <1>1, <1>2 DEF Patchable, Reaches
    <3>4. Grown(c1, b + 1, c2, b + 1, J, {}) /\ Flow(c2, b + 1) BY <3>1, <3>3, Patched, GrownFlow
    <3> HIDE DEF c2
    <3>5. Grown(c2, b + 1, c3, b, {}, {}) BY <1>1, <3>4, PlainAppended DEF Ops, JumpOps
    <3> HIDE DEF c3
    <3>6. Grown(code, b, c2, b + 1, J, {}) BY <1>1, <1>6, <3>4, GrownThen
    <3>7. Grown(code, b, c3, b, J, {}) BY <1>1, <3>5, <3>6, GrownThen
    <3> QED BY <2>2, <3>7, <1>4
  <2> QED BY <2>1, <2>2
<1>8. Flow(c4, b) /\ Len(c4) \in Nat BY <1>7, GrownFlow, FlowTypes
<1>9. \A n \in K : n \in 1..Len(c4) /\ c4[n].op = code[n].op /\ c4[n].height = code[n].height
      BY <1>8, <1>1, <1>3, <1>7 DEF Grown
<1>10. Patchable(c4, K, b) BY <1>9, <1>3 DEF Patchable, JumpOps
<1>11. Grown(c4, b, c5, b, K, {}) BY <1>5, <1>8, <1>10, Patched
<1>12. Grown(code, b, c5, b, J \cup K, {}) BY <1>1, <1>7, <1>11, GrownThen
<1> QED BY <1>12 DEF b, J, K, c5

(* whileStatement(), after its body. *)
LEMMA StepWhileDone ==
    ASSUME CompileOK, WhileDone PROVE CompileOK'
<1> DEFINE J == Last(nest).jumps \cup Last(loops).breaks
           c == EndLoop(LoopEnd)
<1>1. /\ code' = c /\ nest' = Complete(Front(nest)) /\ UNCHANGED <<type, machine>>
      /\ UNCHANGED <<locals, scopeDepth>> /\ nest # <<>> /\ Last(nest).kind = "while"
      /\ loops' = Front(loops)
      BY DEF WhileDone, BranchDone, Inside, Leave
<1>2. /\ Coherent(code, locals, scopeDepth, nest, Outside, loops) /\ Base = Len(locals)
      /\ LocalsOK(locals, scopeDepth) /\ scopeDepth \in Nat
      BY CompileFacts
<1>3. /\ nest # <<>> /\ Last(nest).kind \in LoopKinds
      /\ scopeDepth = scopeDepth - (IF Last(nest).kind \in Scoped THEN 1 ELSE 0)
      BY <1>1, <1>2 DEF LoopKinds, Scoped
<1>4. Grown(code, Base, c, Base, J, {}) BY <1>3, LoopEndGrown
<1>5. Last(nest).jumps \subseteq J /\ Last(loops).breaks \subseteq J OBVIOUS
<1> HIDE DEF J, c
<1>6. Stays(locals, locals, nest, Len(nest) - 1) BY DEF Stays
<1>7. Grown(code, Len(locals), c, Len(locals), J, {}) BY <1>2, <1>4
<1>8. Coherent(c, locals, scopeDepth, Complete(Front(nest)), Outside, Front(loops))
      BY ONLY <1>2, <1>3, <1>5, <1>6, <1>7, LoopLeftCoherent
<1>9. Coherent(code', locals', scopeDepth', nest', Outside, loops') BY <1>1, <1>8
<1>10. Grown(code, Base, code', Len(locals'), J, {}) BY <1>1, <1>2, <1>4
<1> QED BY <1>1, <1>9, <1>10, Compiled

(* The innermost loop: where continue goes, and what break and continue find *)
(* on the stack there.                                                       *)
LEMMA LoopTarget ==
    ASSUME CompileOK, loops # <<>>, CleanExits => Base = Last(loops).base
    PROVE  /\ Last(loops).target \in 1..(Len(code) + 1)
           /\ Reaches(Base, HeightAt(code, Base, Last(loops).target))
           /\ Reaches(Base, Last(loops).base)
<1> DEFINE l == Last(loops)
           i == l.at
           d == nest[i].depth
<1>1. /\ loops \in Seq(LoopSet) /\ locals \in Seq(LocalSet) /\ Base = Len(locals) /\ Base \in Nat
      /\ nest \in Seq(Entries)
      BY CompileFacts
<1>2. LoopsOK(code, locals, nest, loops) /\ EntriesOK(code, locals, nest)
      BY CompileFacts DEF Coherent
<1>3. Len(loops) \in 1..Len(loops) /\ l = loops[Len(loops)] BY <1>1 DEF Last
<1>4. LoopOK(code, locals, nest, l) BY <1>2, <1>3 DEF LoopsOK
<1> HIDE DEF l
<1>5. /\ i \in 1..Len(nest) /\ nest[i].kind \in LoopKinds /\ l.target = nest[i].start
      /\ l.base = Within(locals, d)
      BY <1>4 DEF LoopOK
<1>6. EntryOK(code, Base, locals, nest[i]) /\ d \in Nat
      BY <1>1, <1>2, <1>5, NestTypes DEF EntriesOK
<1> HIDE DEF i
<1>7. l.target \in 1..(Len(code) + 1) /\ HeightAt(code, Base, l.target) = l.base
      BY <1>5, <1>6 DEF EntryOK
<1>8. Within(locals, d) \in 0..Len(locals) BY <1>1, <1>6, WithinHolds DEF WithinIs
<1>9. l.base <= Base BY <1>1, <1>5, <1>8
<1>10. CleanExits => Base = l.base BY DEF l
<1>11. Reaches(Base, l.base) BY <1>9, <1>10 DEF Reaches
<1> QED BY <1>7, <1>11 DEF l

(* endScope, after the code c of the statement that is complete. *)
LEMMA ScopeEnded ==
    ASSUME CompileOK, nest # <<>>, Last(nest).kind \in Scoped, NEW c, Flow(c, Base),
           NEW e, e = scopeDepth - 1, NEW l2, l2 = SubSeq(locals, 1, Outer(e))
    PROVE  /\ Grown(c, Base, c \o Pops(e), Len(l2), {}, {}) /\ LocalsOK(l2, e)
           /\ Stays(locals, l2, nest, Len(nest) - 1)
           /\ e = scopeDepth - (IF Last(nest).kind \in Scoped THEN 1 ELSE 0)
<1> DEFINE w == Outer(e)
           k == Len(nest) - 1
<1>1. /\ NestOK(nest, Outside, scopeDepth) /\ LocalsOK(locals, scopeDepth) /\ scopeDepth \in Nat
      /\ locals \in Seq(LocalSet) /\ nest \in Seq(Entries)
      BY CompileFacts
<1>2. e = scopeDepth - (IF Last(nest).kind \in Scoped THEN 1 ELSE 0) OBVIOUS
<1>3. NestOK(Complete(Front(nest)), Outside, e) /\ \A i \in 1..k : nest[i].depth <= e
      BY <1>1, <1>2, NestLeft
<1>4. e \in Nat BY <1>3, NestDepth
<1>5. w = Within(locals, e) BY DEF Outer, Within
<1>6. LocalsOK(l2, e) /\ Len(l2) = w BY <1>1, <1>4, <1>5, LocalsCut
<1>7. Piece(Pops(e), Base, w, {}) BY <1>1, <1>4, PopsPiece
<1>8. Grown(c, Base, c \o Pops(e), w, {}, {}) BY <1>7, Emitted
<1>9. ASSUME NEW i \in 1..k PROVE Within(l2, nest[i].depth) = Within(locals, nest[i].depth)
  <2>1. i \in 1..Len(nest) BY <1>1
  <2>2. nest[i].depth \in Nat /\ nest[i].depth <= e BY <2>1, <1>1, <1>3, NestTypes
  <2> QED BY <2>2, <1>1, <1>4, <1>5, WithinCut
<1>10. Stays(locals, l2, nest, k) BY <1>9 DEF Stays
<1> QED BY <1>2, <1>6, <1>8, <1>10

(* A block ends: endScope(). *)
LEMMA StepEndBlock ==
    ASSUME CompileOK, EndBlock PROVE CompileOK'
<1> DEFINE e == scopeDepth - 1
           c == code \o Pops(e)
           l2 == SubSeq(locals, 1, Outer(e))
<1>1. /\ code' = c /\ locals' = l2 /\ scopeDepth' = e /\ nest' = Complete(Front(nest))
      /\ UNCHANGED <<type, machine>> /\ loops' = loops /\ nest # <<>> /\ Last(nest).kind = "block"
      BY DEF EndBlock, EndScope, Inside, Leave
<1>2. Last(nest).kind \in Scoped /\ Last(nest).kind \notin LoopKinds BY <1>1 DEF Scoped, LoopKinds
<1>3. /\ Coherent(code, locals, scopeDepth, nest, Outside, loops) /\ Base = Len(locals)
      /\ Flow(code, Base)
      BY CompileFacts
<1>4. /\ Grown(code, Base, c, Len(l2), {}, {}) /\ LocalsOK(l2, e)
      /\ Stays(locals, l2, nest, Len(nest) - 1)
      /\ e = scopeDepth - (IF Last(nest).kind \in Scoped THEN 1 ELSE 0)
      BY <1>1, <1>2, <1>3, ScopeEnded
<1>5. Last(nest).jumps \subseteq {} BY <1>1, LastEntry DEF EntryOK
<1> HIDE DEF e, c, l2
<1>6. Grown(code, Len(locals), c, Len(l2), {}, {}) /\ nest # <<>> BY <1>1, <1>3, <1>4
<1>7. Coherent(c, l2, e, Complete(Front(nest)), Outside, loops)
      BY ONLY <1>2, <1>3, <1>4, <1>5, <1>6, LeftCoherent
<1>8. Coherent(code', locals', scopeDepth', nest', Outside, loops') BY <1>1, <1>7
<1>9. Grown(code, Base, code', Len(locals'), {}, {}) BY <1>1, <1>4
<1> QED BY <1>1, <1>8, <1>9, Compiled

(* forStatement(), after its body. *)
LEMMA StepForDone ==
    ASSUME CompileOK, ForDone PROVE CompileOK'
<1> DEFINE e == scopeDepth - 1
           J == Last(nest).jumps \cup Last(loops).breaks
           c1 == EndLoop(LoopEnd)
           c == c1 \o Pops(e)
           l2 == SubSeq(locals, 1, Outer(e))
<1>1. /\ code' = c /\ locals' = l2 /\ scopeDepth' = e /\ nest' = Complete(Front(nest))
      /\ UNCHANGED <<type, machine>> /\ loops' = Front(loops)
      /\ nest # <<>> /\ Last(nest).kind = "for"
      BY DEF ForDone, BranchDone, EndScope, Inside, Leave
<1>2. Last(nest).kind \in Scoped /\ Last(nest).kind \in LoopKinds BY <1>1 DEF Scoped, LoopKinds
<1>3. /\ Coherent(code, locals, scopeDepth, nest, Outside, loops) /\ Base = Len(locals)
      /\ Flow(code, Base)
      BY CompileFacts
<1>4. Grown(code, Base, c1, Base, J, {}) /\ Flow(c1, Base) BY <1>1, <1>2, LoopEndGrown, GrownFlow
<1>5. Last(nest).jumps \subseteq J /\ Last(loops).breaks \subseteq J OBVIOUS
<1> HIDE DEF c1, J
<1>6. /\ Grown(c1, Base, c, Len(l2), {}, {}) /\ LocalsOK(l2, e)
      /\ Stays(locals, l2, nest, Len(nest) - 1)
      /\ e = scopeDepth - (IF Last(nest).kind \in Scoped THEN 1 ELSE 0)
      BY <1>1, <1>2, <1>4, ScopeEnded
<1> HIDE DEF e, c, l2
<1>7. Grown(code, Base, c, Len(l2), J, {}) BY <1>3, <1>4, <1>6, GrownThen
<1>8. Grown(code, Len(locals), c, Len(l2), J, {}) /\ nest # <<>> BY <1>1, <1>3, <1>7
<1>9. Coherent(c, l2, e, Complete(Front(nest)), Outside, Front(loops))
      BY ONLY <1>2, <1>3, <1>5, <1>6, <1>8, LoopLeftCoherent
<1>10. Coherent(code', locals', scopeDepth', nest', Outside, loops') BY <1>1, <1>9
<1>11. Grown(code, Base, code', Len(locals'), J, {}) BY <1>1, <1>7
<1> QED BY <1>1, <1>10, <1>11, Compiled

(* continueStatement(). *)
LEMMA StepContinueStatement ==
    ASSUME CompileOK, ContinueStatement PROVE CompileOK'
<1> DEFINE l == Last(loops)
           x == Jump("loop", l.target, Base)
           c == Append(code, x)
<1>1. SimpleStatement(c) /\ loops # <<>> /\ (CleanExits => Base = l.base)
      BY DEF ContinueStatement, InLoop
<1>2. Flow(code, Base) /\ Base \in Nat /\ Len(code) \in Nat BY CompileFacts
<1>3. l.target \in 1..(Len(code) + 1) /\ Reaches(Base, HeightAt(code, Base, l.target))
      BY <1>1, LoopTarget
<1>4. x \in Instructions /\ x.op = "loop" /\ x.height = Base /\ x.to = l.target
  <2> DEFINE t == l.target
             b == Base
  <2>1. b \in Nat /\ t \in Nat BY <1>2, <1>3
  <2> HIDE DEF b, t
  <2>2. x = Jump("loop", t, b) BY DEF b, t
  <2> QED BY <2>1, <2>2, InstructionTypes DEF Ops, b, t
<1> HIDE DEF x, l
<1>5. Grown(code, Base, c, Base, {}, {}) BY <1>2, <1>3, <1>4, FlowAppended
<1> HIDE DEF c
<1> QED BY <1>1, <1>5, Simple

(* breakStatement(). *)
LEMMA StepBreakStatement ==
    ASSUME CompileOK, BreakStatement PROVE CompileOK'
<1> DEFINE m == Len(code) + 1
           x == Jump("jump", NoTarget, Base)
           c == Append(code, x)
           lps2 == WithBreak(loops, m)
           n2 == Complete(nest)
<1>1. /\ code' = c /\ loops' = lps2 /\ nest' = n2 /\ UNCHANGED <<type, machine>>
      /\ UNCHANGED <<locals, scopeDepth>> /\ loops # <<>>
      /\ (CleanExits => Base = Last(loops).base) /\ Cardinality(Last(loops).breaks) < MaxBreaks
      BY DEF BreakStatement, InLoop, BreakRoom, Next1, WithBreak
<1>2. /\ Coherent(code, locals, scopeDepth, nest, Outside, loops) /\ Base = Len(locals)
      /\ Flow(code, Base) /\ Base \in Nat /\ Len(code) \in Nat /\ code \in Seq(Instructions)
      /\ nest \in Seq(Entries)
      BY CompileFacts
<1>3. x \in Instructions /\ x.op = "jump" /\ x.height = Base /\ x.to = NoTarget
      BY <1>2, InstructionTypes DEF Ops, NoTarget
<1> HIDE DEF x
<1>4. Grown(code, Base, c, Base, {}, {m})
      BY <1>2, <1>3, FlowAppended
<1>5. m \in 1..Len(c) /\ c[m].op = "jump" /\ c[m].height = Base /\ m \in Nat
      BY <1>2, <1>3, Appended
<1>6. BreakAt(c, m, Last(loops).base) BY <1>1, <1>5, LoopTarget DEF BreakAt
<1>7. n2 \in Seq(Entries) /\ Len(n2) = Len(nest) /\ KeptTo(nest, n2, Len(nest))
      BY <1>2, CompleteKept
<1> HIDE DEF m, c, n2
<1>8. m \in Nat /\ loops # <<>> /\ Cardinality(Last(loops).breaks) < MaxBreaks BY <1>1, <1>5
<1>9. Grown(code, Len(locals), c, Len(locals), {}, {m}) BY <1>2, <1>4
<1>10. Coherent(c, locals, scopeDepth, n2, Outside, lps2)
       BY ONLY <1>2, <1>6, <1>7, <1>8, <1>9, BreakCoherent
<1>11. Coherent(code', locals', scopeDepth', nest', Outside, loops') BY <1>1, <1>10
<1>12. Grown(code, Base, code', Len(locals'), {}, {m}) BY <1>1, <1>2, <1>4
<1> QED BY <1>1, <1>11, <1>12, Compiled

(* A declaration adds to the innermost block only. *)
LEMMA DeclaredStays ==
    ASSUME CompileOK, nest # <<>> => Last(nest).kind = "block", NEW l1 \in Seq(LocalSet),
           Len(l1) = Len(locals), \A m \in 1..Len(locals) : l1[m].depth = locals[m].depth,
           NEW x \in LocalSet, x.depth = scopeDepth
    PROVE  /\ Stays(locals, l1, nest, Len(nest))
           /\ Stays(locals, Append(l1, x), nest, Len(nest))
<1>1. /\ NestOK(nest, Outside, scopeDepth) /\ locals \in Seq(LocalSet) /\ nest \in Seq(Entries)
      /\ scopeDepth \in Nat
      BY CompileFacts
<1>2. ASSUME NEW i \in 1..Len(nest), nest[i].kind # "block"
      PROVE  nest[i].depth \in Nat /\ nest[i].depth < scopeDepth
  <2>1. nest[i].depth \in Nat /\ Len(nest) \in Nat BY <1>1, NestTypes
  <2>2. nest # <<>> /\ Last(nest).kind \in Scoped /\ Last(nest) = nest[Len(nest)]
        BY DEF Scoped, Last
  <2>3. i # Len(nest) BY <2>2, <1>2
  <2>4. i \in 1..(Len(nest) - 1) BY <2>1, <2>3
  <2>5. nest[i].depth <= scopeDepth - 1 BY <2>2, <2>4, <1>1, NestLeft
  <2> QED BY <2>1, <2>5, <1>1
<1>3. ASSUME NEW i \in 1..Len(nest), nest[i].kind # "block"
      PROVE  /\ Within(l1, nest[i].depth) = Within(locals, nest[i].depth)
             /\ Within(Append(l1, x), nest[i].depth) = Within(locals, nest[i].depth)
  <2>1. nest[i].depth \in Nat /\ x.depth > nest[i].depth BY <1>1, <1>2, <1>3
  <2>2. Within(l1, nest[i].depth) = Within(locals, nest[i].depth) BY <1>1, <2>1, WithinMarked
  <2>3. Within(Append(l1, x), nest[i].depth) = Within(l1, nest[i].depth)
        BY <2>1, WithinAppended
  <2> QED BY <2>2, <2>3
<1> QED BY <1>3 DEF Stays

(* A declaration: the locals l1, the old ones but for `captured`, and maybe a  *)
(* new one, x.                                                               *)
LEMMA Declared ==
    ASSUME CompileOK, nest # <<>> => Last(nest).kind = "block", NEW l1 \in Seq(LocalSet),
           Len(l1) = Len(locals), \A m \in 1..Len(locals) : l1[m].depth = locals[m].depth,
           NEW x \in LocalSet, x.depth = scopeDepth, NEW l2, NEW c,
           \/ l2 = l1
           \/ l2 = Append(l1, x) /\ Base < MaxLocals,
           Grown(code, Base, c, Len(l2), {}, {}),
           code' = c, locals' = l2, UNCHANGED <<type, machine>>, UNCHANGED <<scopeDepth, nest, loops>>
    PROVE  CompileOK'
<1>1. /\ Coherent(code, locals, scopeDepth, nest, Outside, loops) /\ Base = Len(locals)
      /\ LocalsOK(locals, scopeDepth) /\ scopeDepth \in Nat /\ nest \in Seq(Entries)
      /\ Len(nest) \in Nat
      BY CompileFacts
<1>2. Stays(locals, l2, nest, Len(nest)) BY DeclaredStays
<1>3. LocalsOK(l1, scopeDepth) BY <1>1, LocalsMarked
<1>4. LocalsOK(l2, scopeDepth)
  <2>1. CASE l2 = l1 BY <2>1, <1>3
  <2>2. CASE l2 = Append(l1, x) /\ Base < MaxLocals
    <3>1. LocalsOK(Append(l1, x), x.depth) BY <2>2, <1>1, <1>3, LocalsAppended
    <3> QED BY <3>1, <2>2
  <2> QED BY <2>1, <2>2
<1>5. KeptTo(nest, nest, Len(nest)) /\ Len(nest) = Len(nest) BY <1>1 DEF KeptTo
<1>6. Grown(code, Len(locals), c, Len(l2), {}, {}) BY <1>1
<1>7. Coherent(c, l2, scopeDepth, nest, Outside, loops)
      BY ONLY <1>1, <1>2, <1>4, <1>5, <1>6, SimpleCoherent
<1>8. Coherent(code', locals', scopeDepth', nest', Outside, loops') BY <1>7
<1>9. Grown(code, Base, code', Len(locals'), {}, {}) BY <1>1, <1>6
<1> QED BY <1>8, <1>9, Compiled

(* The value that a declaration leaves on the stack, or defines a global with. *)
LEMMA ValueGrown ==
    ASSUME NEW b \in Nat, NEW c, Flow(c, b), NEW x \in Instructions, x.height = b,
           x.op \in {"push", "closure"}
    PROVE  /\ Grown(c, b, c \o <<x>>, b + 1, {}, {})
           /\ Grown(c, b, c \o <<x, Instruction("define", b + 1)>>, b, {}, {})
<1>1. Piece(<<x>>, b, b + 1, {}) BY ValuePiece
<1>2. Piece(<<x, Instruction("define", b + 1)>>, b, b, {}) BY UsedPiece
<1> QED BY <1>1, <1>2, Emitted

(* varDeclaration(). *)
LEMMA StepVarDeclaration ==
    ASSUME CompileOK, VarDeclaration PROVE CompileOK'
<1> DEFINE b == Base
           v == Instruction("push", b)
           y == Instruction("define", b + 1)
           x == [depth |-> scopeDepth, captured |-> FALSE]
<1>1. /\ UNCHANGED <<type, machine>> /\ UNCHANGED <<scopeDepth, nest, loops>>
      /\ (nest # <<>> => Last(nest).kind = "block")
      BY DEF VarDeclaration, NewDeclaration
<1>2. /\ Flow(code, b) /\ b \in Nat /\ scopeDepth \in Nat /\ locals \in Seq(LocalSet) /\ b = Len(locals)
      /\ code \in Seq(Instructions)
      BY CompileFacts
<1>3. /\ v \in Instructions /\ v.op \in {"push", "closure"} /\ v.height = b
      /\ y \in Instructions
      BY <1>2, InstructionTypes DEF Ops
<1>4. x \in LocalSet /\ x.depth = scopeDepth BY <1>2 DEF LocalSet
<1>5. \/ code' = code \o <<v>> /\ locals' = Append(locals, x) /\ b < MaxLocals
      \/ code' = code \o <<v>> \o <<y>> /\ locals' = locals
      BY DEF VarDeclaration, Expression, AddLocal
<1> HIDE DEF v, x
<1>6. code \o <<v>> \o <<y>> = code \o <<v, y>> BY <1>2, <1>3
<1>7. /\ Grown(code, b, code \o <<v>>, b + 1, {}, {})
      /\ Grown(code, b, code \o <<v, y>>, b, {}, {})
      BY <1>2, <1>3, ValueGrown
<1> HIDE DEF y
<1>8. CASE code' = code \o <<v>> /\ locals' = Append(locals, x) /\ b < MaxLocals
  <2>1. Len(Append(locals, x)) = b + 1 BY <1>2
  <2> QED BY <2>1, <1>1, <1>2, <1>4, <1>7, <1>8, Declared
<1>9. CASE code' = code \o <<v>> \o <<y>> /\ locals' = locals
      BY <1>1, <1>2, <1>4, <1>6, <1>7, <1>9, Declared
<1> QED BY <1>5, <1>8, <1>9

(* funDeclaration(). *)
LEMMA StepFunDeclaration ==
    ASSUME CompileOK, NEW C, FunDeclaration(C) PROVE CompileOK'
<1> DEFINE b == Base
           v == [Instruction("closure", b) EXCEPT !.captures = C]
           y == Instruction("define", b + 1)
           l1 == [m \in DOMAIN locals |-> [locals[m] EXCEPT !.captured = @ \/ m \in C]]
           x == [depth |-> scopeDepth, captured |-> b + 1 \in C]
<1>1. /\ UNCHANGED <<type, machine>> /\ UNCHANGED <<scopeDepth, nest, loops>>
      /\ (nest # <<>> => Last(nest).kind = "block") /\ C \subseteq 2..(b + 1)
      BY DEF FunDeclaration, NewDeclaration
<1>2. /\ Flow(code, b) /\ b \in Nat /\ scopeDepth \in Nat /\ locals \in Seq(LocalSet) /\ b = Len(locals)
      /\ code \in Seq(Instructions)
      BY CompileFacts
<1>3. \/ code' = code \o <<v>> /\ locals' = Append(l1, x) /\ b < MaxLocals
      \/ code' = code \o <<v, y>> /\ locals' = l1
      BY DEF FunDeclaration
<1>4. v \in Instructions /\ v.op \in {"push", "closure"} /\ v.height = b
  <2> DEFINE i == Instruction("closure", b)
  <2>1. i \in Instructions /\ i.op = "closure" /\ i.height = b BY <1>2, InstructionTypes DEF Ops
  <2>2. C \in SUBSET Nat BY <1>1, <1>2
  <2>3. v = [i EXCEPT !.captures = C] OBVIOUS
  <2> HIDE DEF i, v
  <2> QED BY <2>1, <2>2, <2>3 DEF Instructions
<1> HIDE DEF v
<1>5. x \in LocalSet /\ x.depth = scopeDepth
  <2>1. (b + 1 \in C) \in BOOLEAN OBVIOUS
  <2> QED BY <2>1, <1>2 DEF LocalSet
<1> HIDE DEF x
<1>6. /\ l1 \in Seq(LocalSet) /\ Len(l1) = Len(locals)
      /\ \A m \in 1..Len(locals) : l1[m].depth = locals[m].depth
  <2>1. DOMAIN locals = 1..b BY <1>2
  <2>2. ASSUME NEW m \in 1..b PROVE l1[m] \in LocalSet /\ l1[m].depth = locals[m].depth
    <3> DEFINE z == locals[m]
               z2 == [z EXCEPT !.captured = @ \/ m \in C]
    <3>1. z \in LocalSet BY <1>2
    <3>2. l1[m] = z2 BY <2>1
    <3> HIDE DEF z
    <3>3. z.captured \in BOOLEAN /\ z.depth \in Nat BY <3>1 DEF LocalSet
    <3>4. z2 = [depth |-> z.depth, captured |-> (z.captured \/ m \in C)] BY <3>1 DEF LocalSet
    <3>5. (z.captured \/ m \in C) \in BOOLEAN BY <3>3
    <3> HIDE DEF z2
    <3>6. z2 \in LocalSet /\ z2.depth = z.depth BY <3>3, <3>4, <3>5 DEF LocalSet
    <3> HIDE DEF l1
    <3> QED BY <3>2, <3>6 DEF z
  <2>3. DOMAIN l1 = 1..b /\ l1 = [m \in 1..b |-> l1[m]] BY <2>1
  <2> HIDE DEF l1
  <2>4. l1 \in Seq(LocalSet) /\ Len(l1) = b BY <1>2, <2>2, <2>3
  <2> QED BY <1>2, <2>2, <2>4
<1> HIDE DEF l1
<1>7. /\ Grown(code, b, code \o <<v>>, b + 1, {}, {})
      /\ Grown(code, b, code \o <<v, y>>, b, {}, {})
      BY <1>2, <1>4, ValueGrown
<1> HIDE DEF y
<1>8. CASE code' = code \o <<v>> /\ locals' = Append(l1, x) /\ b < MaxLocals
  <2>1. Len(Append(l1, x)) = b + 1 BY <1>2, <1>6
  <2> QED BY <2>1, <1>1, <1>2, <1>5, <1>6, <1>7, <1>8, Declared
<1>9. CASE code' = code \o <<v, y>> /\ locals' = l1
      BY <1>1, <1>2, <1>5, <1>6, <1>7, <1>9, Declared
<1> QED BY <1>3, <1>8, <1>9

-----------------------------------------------------------------------------
(* The header of a for statement, on a stack of b values. *)

TestOK(c, b, test, exit) ==
    /\ Grown(c, b, test, b, {}, exit) /\ Len(test) \in Nat /\ exit \in SUBSET Nat
    /\ \A n \in exit : n \in 1..Len(test) /\ test[n].op = "jumpIfFalse" /\ test[n].height = b + 1

(* The condition of a for statement, or none. *)
LEMMA ForTest ==
    ASSUME NEW b \in Nat, NEW c, Flow(c, b), NEW condition \in BOOLEAN,
           NEW s, s = <<Instruction("push", b), Jump("jumpIfFalse", NoTarget, b + 1),
                        Instruction("pop", b + 1)>>,
           NEW test, test = IF condition THEN c \o s ELSE c,
           NEW exit, exit = IF condition THEN {Len(c) + 2} ELSE {}
    PROVE  TestOK(c, b, test, exit)
<1>1. CASE condition
  <2> DEFINE d == c \o s
             m == Len(c) + 2
  <2>1. /\ Grown(c, b, d, b, {}, {m}) /\ Len(d) = Len(c) + 3
        /\ Len(c) \in Nat /\ m \in 1..Len(d)
        /\ d[m].op = "jumpIfFalse" /\ d[m].height = b + 1
        BY ConditionEmitted
  <2>2. test = d /\ exit = {m} BY <1>1
  <2> HIDE DEF d, m
  <2>3. Len(d) \in Nat /\ m \in Nat BY <2>1
  <2> QED BY ONLY <2>1, <2>2, <2>3 DEF TestOK
<1>2. CASE ~condition BY <1>2, GrownSame, FlowTypes DEF TestOK
<1> QED BY <1>1, <1>2

(* Four elements are added, and the last of them. *)
LEMMA FourJoined ==
    ASSUME NEW S, NEW c \in Seq(S), NEW x \in S, NEW y \in S, NEW z \in S, NEW w \in S
    PROVE  c \o <<x, y, z, w>> = Append(c \o <<x, y, z>>, w)
OBVIOUS

(* The increment of a for statement, and the jumps around it. *)
LEMMA ForIncrement ==
    ASSUME NEW b \in Nat, NEW c, Flow(c, b), NEW t \in Nat, t \in 1..(Len(c) + 1),
           HeightAt(c, b, t) = b, NEW step,
           step = c \o <<Jump("jump", NoTarget, b), Instruction("push", b),
                         Instruction("pop", b + 1), Jump("loop", t, b)>>
    PROVE  /\ Grown(c, b, Patch(step, {Len(c) + 1}), b, {}, {})
           /\ Len(c) + 2 \in 1..Len(Patch(step, {Len(c) + 1}))
           /\ HeightAt(Patch(step, {Len(c) + 1}), b, Len(c) + 2) = b
<1> DEFINE x == Jump("jump", NoTarget, b)
           y == Instruction("push", b)
           z == Instruction("pop", b + 1)
           w == Jump("loop", t, b)
           s == <<x, y, z>>
           m == Len(c) + 1
           d == c \o s
           g == Patch(step, {m})
<1>1. c \in Seq(Instructions) /\ Len(c) \in Nat BY FlowTypes
<1>2. /\ x \in Instructions /\ y \in Instructions /\ z \in Instructions /\ w \in Instructions
      /\ w.op = "loop" /\ w.height = b /\ w.to = t
  <2>1. NoTarget \in Nat /\ b + 1 \in Nat /\ b \in Nat /\ t \in Nat BY DEF NoTarget
  <2>2. x \in Instructions BY ONLY <2>1, InstructionTypes DEF Ops
  <2>3. y \in Instructions BY ONLY <2>1, InstructionTypes DEF Ops
  <2>4. z \in Instructions BY ONLY <2>1, InstructionTypes DEF Ops
  <2>5. w \in Instructions /\ w.op = "loop" /\ w.height = b /\ w.to = t
        BY ONLY <2>1, InstructionTypes DEF Ops
  <2> QED BY <2>2, <2>3, <2>4, <2>5
<1>3. Piece(s, b, b, {1}) /\ s \in Seq(Instructions) /\ Len(s) = 3
      BY IncrementPiece
<1>3a. s[1].op = "jump" /\ s[1].height = b /\ s[2].height = b
      BY IncrementPiece
<1>4. step = c \o <<x, y, z, w>> OBVIOUS
<1>5. s = <<x, y, z>> OBVIOUS
<1> HIDE DEF x, y, z, w, s
<1>6. step = Append(d, w) BY ONLY <1>1, <1>2, <1>4, <1>5, FourJoined
<1>3b. s \in Seq(Instructions) BY <1>3
<1>7. d \in Seq(Instructions) /\ Len(d) = Len(c) + 3
  <2>1. d \in Seq(Instructions) /\ Len(d) = Len(c) + Len(s) BY ONLY <1>1, <1>3b, Joined
  <2> QED BY <2>1, <1>3
<1>8. d[Len(c) + 1] = s[1] /\ d[Len(c) + 2] = s[2]
  <2> DEFINE i == 1
             j == 2
  <2>1. i \in 1..Len(s) /\ j \in 1..Len(s) BY <1>3
  <2> HIDE DEF i, j
  <2>2. d[Len(c) + i] = s[i] /\ d[Len(c) + j] = s[j] BY ONLY <1>1, <1>3b, <2>1, JoinedAt
  <2> QED BY <2>2 DEF i, j
<1>9. \A n \in {1} : Len(c) + n \in {m} OBVIOUS
<1> HIDE DEF m
<1>10. Grown(c, b, d, b, {}, {m}) /\ Flow(d, b) BY <1>3, <1>9, Emitted, GrownFlow
<1> HIDE DEF d
<1>11. t \in 1..(Len(d) + 1) /\ Reaches(b, HeightAt(d, b, t))
  <2>1. HeightAt(d, b, t) = b BY <1>10 DEF Grown
  <2> QED BY <2>1, <1>1, <1>7 DEF Reaches
<1>12. Grown(d, b, step, b, {}, {}) /\ Flow(step, b)
  <2>1. Grown(d, b, Append(d, w), b, {}, {}) BY ONLY <1>2, <1>10, <1>11, FlowAppended, b \in Nat
  <2> QED BY <2>1, <1>6, GrownFlow
<1>13. /\ m \in Nat /\ m \in 1..Len(d) /\ m + 1 \in 1..Len(d)
       /\ d[m].op = "jump" /\ d[m].height = b /\ d[m + 1].height = b
  <2>1. m = Len(c) + 1 /\ m + 1 = Len(c) + 2 BY <1>1 DEF m
  <2> QED BY <2>1, <1>1, <1>3a, <1>7, <1>8
<1>14. m \in 1..Len(step) /\ step[m].op = "jump" /\ step[m].height = b /\ Len(d) <= Len(step)
       /\ Len(step) \in Nat
  <2>1. Len(step) \in Nat BY <1>12, FlowTypes
  <2> QED BY <2>1, <1>7, <1>12, <1>13 DEF Grown
<1>15. Patchable(step, {m}, b)
  <2>1. Reaches(step[m].height, b) BY <1>14 DEF Reaches
  <2>2. step[m].op \in JumpOps BY <1>14 DEF JumpOps
  <2> QED BY <1>14, <2>1, <2>2 DEF Patchable
<1>16. Grown(step, b, g, b, {m}, {}) /\ Len(g) = Len(step) BY <1>12, <1>15, Patched
<1> HIDE DEF g
<1>17. Grown(d, b, g, b, {m}, {}) BY <1>10, <1>12, <1>16, GrownThen
<1>18. Grown(c, b, g, b, {}, {}) BY <1>10, <1>17, GrownThen
<1>19. HeightAt(g, b, m + 1) = b
  <2>1. HeightAt(d, b, m + 1) = b BY <1>7, <1>1, <1>13 DEF HeightAt
  <2>2. m + 1 \in 1..(Len(d) + 1) BY <1>1, <1>7, <1>13
  <2> QED BY <2>1, <2>2, <1>17 DEF Grown
<1>20. m + 1 \in 1..Len(g) BY <1>13, <1>14, <1>16, <1>7, <1>1
<1>21. m + 1 = Len(c) + 2 BY <1>1 DEF m
<1> QED BY <1>18, <1>19, <1>20, <1>21 DEF g, m

(* forStatement(), up to its body. *)
LEMMA StepFor ==
    ASSUME CompileOK, NEW variable \in BOOLEAN, NEW condition \in BOOLEAN, NEW increment \in BOOLEAN,
           For(variable, condition, increment)
    PROVE  CompileOK'
<1> DEFINE b == IF variable THEN Base + 1 ELSE Base
           init == IF variable THEN code \o Expression ELSE code
           s == <<Instruction("push", b), Jump("jumpIfFalse", NoTarget, b + 1),
                  Instruction("pop", b + 1)>>
           test == IF condition THEN init \o s ELSE init
           exit == IF condition THEN {Len(init) + 2} ELSE {}
           t == Next1(init)
           step == test \o <<Jump("jump", NoTarget, b), Instruction("push", b),
                             Instruction("pop", b + 1), Jump("loop", t, b)>>
           start == IF increment THEN Len(test) + 2 ELSE t
           c == IF increment THEN Patch(step, {Next1(test)}) ELSE test
           x == [kind |-> "for", jumps |-> exit, start |-> start, depth |-> scopeDepth + 1,
                 done |-> FALSE]
           l == [target |-> start, breaks |-> {}, base |-> b, at |-> Len(nest) + 1]
           y == [depth |-> scopeDepth + 1, captured |-> FALSE]
           l2 == IF variable THEN Append(locals, y) ELSE locals
<1>1. /\ code' = c /\ nest' = Append(nest, x) /\ loops' = Append(loops, l) /\ locals' = l2
      /\ scopeDepth' = scopeDepth + 1 /\ UNCHANGED <<type, machine>>
      /\ (variable => Base < MaxLocals)
      BY DEF For, Enter, BeginLoop
<1>2. /\ Coherent(code, locals, scopeDepth, nest, Outside, loops) /\ Base = Len(locals)
      /\ LocalsOK(locals, scopeDepth) /\ Base \in Nat /\ locals \in Seq(LocalSet)
      /\ scopeDepth \in Nat /\ Len(code) \in Nat /\ Len(nest) \in Nat /\ Flow(code, Base)
      /\ NestOK(nest, Outside, scopeDepth) /\ nest \in Seq(Entries)
      BY CompileFacts
<1>3. b \in Nat BY <1>2
<1>4. Grown(code, Base, init, b, {}, {}) /\ Flow(init, b) /\ Len(init) \in Nat
  <2>1. CASE variable
    <3>1. Piece(Expression, Base, Base + 1, {}) BY <1>2, ExpressionPiece DEF Expression
    <3>2. Grown(code, Base, code \o Expression, Base + 1, {}, {}) BY <1>2, <3>1, Emitted
    <3>3. init = code \o Expression /\ b = Base + 1 BY <2>1
    <3> HIDE DEF init, b
    <3>4. Grown(code, Base, init, b, {}, {}) BY <3>2, <3>3
    <3> QED BY <3>4, GrownFlow, FlowTypes
  <2>2. CASE ~variable BY <2>2, <1>2, GrownSame, FlowTypes
  <2> QED BY <2>1, <2>2
<1>5. y \in LocalSet /\ y.depth = scopeDepth + 1 BY <1>2 DEF LocalSet
<1> HIDE DEF y
<1>6. LocalsOK(l2, scopeDepth + 1) /\ Len(l2) = b /\ Stays(locals, l2, nest, Len(nest))
  <2>1. CASE variable
    <3>1. l2 = Append(locals, y) /\ b = Base + 1 BY <2>1
    <3>2. LocalsOK(Append(locals, y), y.depth) BY <2>1, <1>1, <1>2, <1>5, LocalsAppended
    <3>3. Len(Append(locals, y)) = Base + 1 BY <1>2
    <3>4. ASSUME NEW i \in 1..Len(nest)
          PROVE  Within(Append(locals, y), nest[i].depth) = Within(locals, nest[i].depth)
      <4>1. nest[i].depth \in Nat /\ nest[i].depth <= scopeDepth
            BY <1>2, NestTypes, NestDepth
      <4>2. y.depth > nest[i].depth BY <4>1, <1>2, <1>5
      <4> QED BY <4>1, <4>2, <1>2, <1>5, WithinAppended
    <3> QED BY <3>1, <3>2, <3>3, <3>4, <1>5 DEF Stays
  <2>2. CASE ~variable
    <3>1. l2 = locals /\ b = Base BY <2>2
    <3>2. LocalsOK(locals, scopeDepth + 1) BY <1>2, LocalsDeeper
    <3> QED BY <3>1, <3>2, <1>2 DEF Stays
  <2> QED BY <2>1, <2>2
<1>7. t = Len(init) + 1 BY DEF Next1
<1> HIDE DEF b, init, t, l2
<1>7a. s = <<Instruction("push", b), Jump("jumpIfFalse", NoTarget, b + 1),
             Instruction("pop", b + 1)>>
       OBVIOUS
<1> HIDE DEF s
<1>7b. /\ test = IF condition THEN init \o s ELSE init
       /\ exit = IF condition THEN {Len(init) + 2} ELSE {}
       OBVIOUS
<1> HIDE DEF test, exit
<1>8. /\ Grown(init, b, test, b, {}, exit) /\ Len(test) \in Nat /\ exit \in SUBSET Nat
      /\ \A n \in exit : /\ n \in 1..Len(test)
                         /\ test[n].op = "jumpIfFalse" /\ test[n].height = b + 1
  <2>1. condition \in BOOLEAN OBVIOUS
  <2>2. TestOK(init, b, test, exit) BY ONLY <2>1, <1>3, <1>4, <1>7a, <1>7b, ForTest
  <2> QED BY <2>2 DEF TestOK
<1>9. Flow(test, b) /\ Len(init) <= Len(test) BY <1>8 DEF Grown
<1>10. t \in Nat /\ t \in 1..(Len(test) + 1) /\ HeightAt(test, b, t) = b
  <2>1. t \in 1..(Len(init) + 1) /\ HeightAt(init, b, t) = b BY <1>3, <1>4, <1>7 DEF HeightAt
  <2> QED BY <2>1, <1>4, <1>7, <1>8, <1>9 DEF Grown
<1>11. /\ Grown(test, b, c, b, {}, {}) /\ start \in 1..(Len(c) + 1)
       /\ HeightAt(c, b, start) = b /\ start \in Nat
  <2>1. CASE increment
    <3>1. c = Patch(step, {Len(test) + 1}) /\ start = Len(test) + 2 BY <2>1 DEF Next1
    <3>2. /\ Grown(test, b, Patch(step, {Len(test) + 1}), b, {}, {})
          /\ Len(test) + 2 \in 1..Len(Patch(step, {Len(test) + 1}))
          /\ HeightAt(Patch(step, {Len(test) + 1}), b, Len(test) + 2) = b
          BY <1>3, <1>9, <1>10, ForIncrement
    <3> HIDE DEF c, start, step
    <3>3. Len(c) \in Nat BY <3>1, <3>2, GrownFlow, FlowTypes
    <3> QED BY <3>1, <3>2, <3>3, <1>8
  <2>2. CASE ~increment
    <3>1. c = test /\ start = t BY <2>2
    <3> HIDE DEF c, start
    <3> QED BY <3>1, <1>9, <1>10, GrownSame
  <2> QED BY <2>1, <2>2
<1> HIDE DEF c, start
<1>12. Grown(init, b, c, b, {}, exit) BY <1>4, <1>8, <1>11, GrownThen
<1>13. Grown(code, Base, c, b, {}, exit) BY <1>2, <1>4, <1>12, GrownThen
<1>14. \A n \in exit : /\ n \in 1..Len(c) /\ c[n].op = "jumpIfFalse" /\ c[n].height = b + 1
  <2>1. Len(c) \in Nat /\ Len(test) <= Len(c) BY <1>11, GrownFlow, FlowTypes DEF Grown
  <2> QED BY <2>1, <1>8, <1>11 DEF Grown
<1>15. /\ x \in Entries /\ x.kind = "for" /\ x.jumps = exit /\ x.depth = scopeDepth + 1
       /\ x.start = start
       BY <1>2, <1>8, <1>11 DEF Entries, Kinds
<1>16. /\ l \in LoopSet /\ l.target = x.start /\ l.breaks = {} /\ l.base = Len(l2)
       /\ l.at = Len(nest) + 1
       BY <1>2, <1>3, <1>6, <1>11 DEF LoopSet
<1> HIDE DEF x, l
<1>17. Within(l2, x.depth) = b BY <1>2, <1>6, <1>15, WithinAll
<1>18. EntryOK(c, Len(l2), l2, x)
       BY <1>6, <1>11, <1>14, <1>15, <1>17 DEF EntryOK, JumpOps, LoopKinds
<1>19. x.depth = scopeDepth + (IF x.kind \in Scoped THEN 1 ELSE 0) /\ x.kind \in LoopKinds
       BY <1>2, <1>15 DEF Scoped, LoopKinds
<1>20. /\ Stays(locals, l2, nest, Len(nest)) /\ LocalsOK(l2, x.depth)
       /\ Grown(code, Len(locals), c, Len(l2), {}, x.jumps)
       BY <1>2, <1>6, <1>13, <1>15
<1>21. Coherent(c, l2, x.depth, Append(nest, x), Outside, Append(loops, l))
       BY ONLY <1>2, <1>15, <1>16, <1>18, <1>19, <1>20, LoopCoherent
<1>22. Coherent(code', locals', scopeDepth', nest', Outside, loops') BY <1>1, <1>15, <1>21
<1>23. Grown(code, Base, code', Len(locals'), {}, exit) BY <1>1, <1>6, <1>13
<1> QED BY <1>1, <1>22, <1>23, Compiled

-----------------------------------------------------------------------------
(* The end of the function, and its run. *)

(* emitReturn(). *)
LEMMA ReturnPiece ==
    ASSUME NEW b \in Nat, NEW e \in Nat
    PROVE  Piece(<<Instruction("push", b), Instruction("return", b + 1)>>, b, e, {})
<1> DEFINE x == Instruction("push", b)
           y == Instruction("return", b + 1)
           s == <<x, y>>
<1>1. /\ x \in Instructions /\ x.op = "push" /\ x.height = b
      /\ y \in Instructions /\ y.op = "return" /\ y.height = b + 1
      BY InstructionTypes DEF Ops
<1> HIDE DEF x, y
<1>2. s \in Seq(Instructions) /\ Len(s) = 2 /\ s[1] = x /\ s[2] = y BY <1>1
<1> HIDE DEF s
<1> QED BY <1>1, <1>2 DEF Piece, Flow, StepOK, HeightAt, JumpOps, s, x, y

(* Two elements are added, at once and one by one. *)
LEMMA TwoJoined ==
    ASSUME NEW S, NEW c \in Seq(S), NEW x \in S, NEW y \in S
    PROVE  c \o <<x>> \o <<y>> = c \o <<x, y>>
<1> DEFINE d == c \o <<x>>
<1>1. c \o <<x, y>> = Append(d, y) OBVIOUS
<1>2. d \in Seq(S) OBVIOUS
<1> HIDE DEF d
<1>3. d \o <<y>> = Append(d, y) BY ONLY <1>2, y \in S, OneAppended
<1> QED BY <1>1, <1>3 DEF d

(* endCompiler(): the code is complete, and starts to run. *)
LEMMA StepEndCompiler ==
    ASSUME CompileOK, EndCompiler PROVE RunOK'
<1> DEFINE b == Base
           x == Instruction("push", b)
           y == Instruction("return", b + 1)
           s == <<x, y>>
           z == Len(code)
           c == code \o s
<1>1. /\ Coherent(code, locals, scopeDepth, nest, Outside, loops) /\ b = Len(locals)
      /\ Flow(code, b) /\ b \in Nat /\ z \in Nat /\ code \in Seq(Instructions)
      /\ loops \in Seq(LoopSet)
      BY CompileFacts
<1>2. /\ x \in Instructions /\ y \in Instructions /\ y.op = "return" /\ x.op = "push"
  <2>1. b \in Nat /\ b + 1 \in Nat /\ NoTarget \in Nat BY <1>1 DEF NoTarget
  <2>2. "push" \in Ops /\ "return" \in Ops BY DEF Ops
  <2>3. x \in Instructions /\ x.op = "push" BY ONLY <2>1, <2>2, InstructionTypes
  <2>4. y \in Instructions /\ y.op = "return" BY ONLY <2>1, <2>2, InstructionTypes
  <2> QED BY <2>3, <2>4
<1>3. Piece(s, b, 0, {}) BY <1>1, ReturnPiece
<1>4. /\ nest = <<>> /\ locals' = <<>> /\ scopeDepth' = 0 /\ nest' = nest /\ loops' = loops
      /\ UNCHANGED machine /\ code' = code \o <<x>> \o <<y>>
      BY DEF EndCompiler, Expression
<1> HIDE DEF x, y
<1>5. code' = c
  <2>1. code \o <<x>> \o <<y>> = code \o <<x, y>> BY ONLY <1>1, <1>2, TwoJoined
  <2> QED BY <2>1, <1>4
<1>6. loops = <<>>
  <2>1. \A j \in 1..Len(loops) : LoopOK(code, locals, nest, loops[j])
        BY <1>1 DEF Coherent, LoopsOK
  <2>2. Len(nest) = 0 BY <1>4
  <2>3. \A j \in 1..Len(loops) : FALSE BY <2>1, <2>2 DEF LoopOK
  <2> QED BY <2>3, <1>1
<1>7. s \in Seq(Instructions) /\ Len(s) = 2 /\ s[1] = x /\ s[2] = y BY <1>2
<1> HIDE DEF s
<1>8. Grown(code, b, c, 0, {}, {}) /\ Flow(c, 0) BY <1>1, <1>3, Emitted, GrownFlow
<1>9. /\ c \in Seq(Instructions) /\ Len(c) = z + 2
      /\ \A n \in 1..z : c[n] = code[n]
      /\ c[z + 1] = x /\ c[z + 2] = y
  <2>1. c \in Seq(Instructions) /\ Len(c) = z + Len(s) BY ONLY <1>1, <1>7, Joined
  <2>2. \A n \in 1..z : c[n] = code[n] BY ONLY <1>1, <1>7, Joined
  <2>3. c[z + 1] = s[1] /\ c[z + 2] = s[2]
    <3> DEFINE i == 1
               j == 2
    <3>1. i \in 1..Len(s) /\ j \in 1..Len(s) /\ s \in Seq(Instructions) BY <1>7
    <3> HIDE DEF i, j
    <3>2. c[Len(code) + i] = s[i] /\ c[Len(code) + j] = s[j] BY ONLY <1>1, <3>1, JoinedAt
    <3> QED BY <3>2 DEF i, j
  <2> QED BY <2>1, <2>2, <2>3, <1>7
<1> HIDE DEF c, b, z
<1>10. ASSUME NEW n \in 1..z, code[n].op \in JumpOps PROVE code[n].to \in 1..(z + 1)
  <2>1. ~Unpatched(code, n)
    <3>1. Unpatched(code, n) => Owned(nest, loops, n) BY <1>1 DEF Coherent, AllOwned, z
    <3>2. Len(nest) = 0 /\ Len(loops) = 0 BY <1>4, <1>6
    <3> QED BY <3>1, <3>2 DEF Owned
  <2>2. StepOK(code, b, n) BY <1>1 DEF Flow, z
  <2> QED BY <2>1, <2>2, <1>10 DEF Unpatched, StepOK, z
<1>11. ASSUME NEW n \in 1..Len(c), c[n].op \in JumpOps PROVE c[n].to \in 1..Len(c)
  <2>1. n \in 1..z \/ n = z + 1 \/ n = z + 2 BY <1>1, <1>9
  <2>2. n # z + 1 /\ n # z + 2 BY <1>2, <1>9, <1>11 DEF JumpOps
  <2>3. n \in 1..z BY <2>1, <2>2
  <2>4. code[n].to \in 1..(z + 1) BY <2>3, <1>9, <1>10, <1>11
  <2> QED BY <2>3, <2>4, <1>1, <1>9
<1>12. /\ Len(c) >= 1 /\ c[Len(c)].op = "return" /\ 1 \in 1..Len(c) /\ 1 # Len(c) + 1
      BY <1>1, <1>2, <1>9
<1>13. /\ ip' = 1 /\ stackTop' = stackTop /\ openSlots' = {} /\ stackTop \in Nat
       /\ HeightAt(code, b, 1) = stackTop
       BY <1>4 DEF machine, CompileOK, b
<1>14. c[1].height = stackTop
  <2>1. 1 \in 1..(Len(code) + 1) BY <1>1 DEF z
  <2>2. HeightAt(c, 0, 1) = HeightAt(code, b, 1) BY <2>1, <1>8 DEF Grown
  <2> QED BY <2>2, <1>12, <1>13 DEF HeightAt
<1>15. Reaches(stackTop, c[1].height) BY <1>13, <1>14 DEF Reaches
<1> QED BY <1>4, <1>5, <1>6, <1>8, <1>11, <1>12, <1>13, <1>15 DEF RunOK, NothingLeft

(* What the steps of run() use of the invariant. *)
LEMMA RunFacts ==
    ASSUME RunOK
    PROVE  /\ code[ip] \in Instructions /\ code[ip].height \in Nat /\ code[ip].op \in Ops
           /\ ip \in Nat /\ stackTop \in Nat /\ Reaches(stackTop, code[ip].height)
           /\ Len(code) \in Nat /\ code[ip].captures \in SUBSET Nat
           /\ code[ip].op # "return" =>
                 /\ ip + 1 \in 1..Len(code) /\ code[ip + 1].height \in Nat
                 /\ HeightAt(code, 0, ip + 1) = code[ip + 1].height
           /\ StepOK(code, 0, ip)
<1>1. Flow(code, 0) /\ ip \in 1..Len(code) /\ stackTop \in Nat /\ code[Len(code)].op = "return"
      /\ Reaches(stackTop, code[ip].height)
      BY DEF RunOK
<1>2. /\ Len(code) \in Nat /\ code[ip] \in Instructions /\ code[ip].height \in Nat
      /\ code[ip].op \in Ops /\ code[ip].captures \in SUBSET Nat
      BY <1>1, FlowTypes
<1>3. ASSUME code[ip].op # "return"
      PROVE  /\ ip + 1 \in 1..Len(code) /\ code[ip + 1].height \in Nat
             /\ HeightAt(code, 0, ip + 1) = code[ip + 1].height
  <2>1. ip # Len(code) BY <1>1, <1>3
  <2>2. ip + 1 \in 1..Len(code) /\ ip + 1 # Len(code) + 1 BY <2>1, <1>1, <1>2
  <2>3. code[ip + 1].height \in Nat BY <2>2, <1>1, FlowTypes
  <2> QED BY <2>2, <2>3 DEF HeightAt
<1>4. StepOK(code, 0, ip) BY <1>1 DEF Flow
<1> QED BY <1>1, <1>2, <1>3, <1>4

(* What a step of run() needs to leave: the next instruction has its stack. *)
LEMMA Ran ==
    ASSUME RunOK, UNCHANGED compiler, ip' \in 1..Len(code), stackTop' \in Nat,
           Reaches(stackTop', code[ip'].height), openSlots' \subseteq Nat
    PROVE  RunOK'
<1>1. code' = code /\ locals' = locals /\ nest' = nest /\ loops' = loops /\ scopeDepth' = scopeDepth
      BY DEF compiler
<1> QED BY <1>1 DEF RunOK, NothingLeft

(* A step that goes on to the next instruction. *)
LEMMA RanNext ==
    ASSUME RunOK, code[ip].op # "return", NEW top \in Nat, NEW slots \in SUBSET Nat, Stack(top, slots),
           Reaches(top, code[ip + 1].height)
    PROVE  RunOK'
<1>1. ip' = ip + 1 /\ stackTop' = top /\ openSlots' = slots /\ UNCHANGED compiler BY DEF Stack
<1>2. ip' \in 1..Len(code) BY <1>1, RunFacts
<1> QED BY <1>1, <1>2, Ran

(* An instruction that pushes. *)
LEMMA StepPush ==
    ASSUME RunOK, Push \/ Closure PROVE RunOK'
<1>1. /\ code[ip].op \in {"push", "closure"} /\ openSlots \in SUBSET Nat
      /\ \/ Stack(stackTop + 1, openSlots)
         \/ Stack(stackTop + 1, openSlots \cup code[ip].captures)
      BY DEF Push, Closure, At, RunOK
<1>2. code[ip + 1].height = code[ip].height + 1 BY <1>1, RunFacts DEF StepOK
<1>3. Reaches(stackTop + 1, code[ip + 1].height) /\ stackTop + 1 \in Nat
      BY <1>2, RunFacts DEF Reaches
<1>4. openSlots \cup code[ip].captures \in SUBSET Nat BY <1>1, RunFacts
<1> QED BY <1>1, <1>3, <1>4, RanNext

(* An instruction that pops. *)
LEMMA StepPopValue ==
    ASSUME RunOK, PopValue \/ CloseUpvalue PROVE RunOK'
<1>1. /\ code[ip].op \in {"pop", "close", "define"} /\ openSlots \in SUBSET Nat
      /\ \/ Stack(stackTop - 1, openSlots)
         \/ Stack(stackTop - 1, openSlots \ {stackTop})
      BY DEF PopValue, CloseUpvalue, At, RunOK
<1>2. code[ip + 1].height + 1 = code[ip].height BY <1>1, RunFacts DEF StepOK
<1>3. Reaches(stackTop - 1, code[ip + 1].height) /\ stackTop - 1 \in Nat
      BY <1>1, <1>2, RunFacts DEF Reaches
<1>4. openSlots \ {stackTop} \in SUBSET Nat BY <1>1
<1> QED BY <1>1, <1>3, <1>4, RanNext

(* A jump that is not taken. *)
LEMMA StepFallThrough ==
    ASSUME RunOK, FallThrough PROVE RunOK'
<1>1. code[ip].op = "jumpIfFalse" /\ openSlots \in SUBSET Nat /\ Stack(stackTop, openSlots)
      BY DEF FallThrough, At, RunOK
<1>2. code[ip + 1].height = code[ip].height BY <1>1, RunFacts DEF StepOK
<1>3. Reaches(stackTop, code[ip + 1].height) /\ stackTop \in Nat BY <1>2, RunFacts
<1> QED BY <1>1, <1>3, RanNext

(* A jump that is taken. *)
LEMMA StepGoto ==
    ASSUME RunOK, Goto PROVE RunOK'
<1> DEFINE t == code[ip].to
<1>1. /\ code[ip].op \in JumpOps /\ ip' = t /\ UNCHANGED compiler /\ stackTop' = stackTop
      /\ openSlots' = openSlots /\ openSlots \subseteq Nat /\ ip \in 1..Len(code)
      BY DEF Goto, At, RunOK, JumpOps
<1>2. t \in 1..Len(code) BY <1>1 DEF RunOK
<1>3. t # NoTarget /\ t # Len(code) + 1 BY <1>2, RunFacts DEF NoTarget
<1>4. Reaches(code[ip].height, HeightAt(code, 0, t)) BY <1>1, <1>3, RunFacts DEF StepOK
<1>5. HeightAt(code, 0, t) = code[t].height /\ code[t].height \in Nat
  <2>1. Flow(code, 0) BY DEF RunOK
  <2> QED BY <2>1, <1>2, <1>3, FlowTypes DEF HeightAt
<1>6. Reaches(stackTop, code[t].height) BY <1>4, <1>5, RunFacts DEF Reaches
<1> QED BY <1>1, <1>2, <1>6, RunFacts, Ran

(* OP_RETURN. *)
LEMMA StepReturn ==
    ASSUME RunOK, Return PROVE RunOK'
<1>1. /\ UNCHANGED compiler /\ ip' = ip /\ stackTop' = stackTop /\ openSlots' = {}
      BY DEF Return
<1> QED BY <1>1, Ran DEF RunOK

-----------------------------------------------------------------------------
(* The invariant. *)

(* A sequence of equal elements. *)
LEMMA Constantly ==
    ASSUME NEW S, NEW x \in S, NEW n \in Nat, NEW q, q = [m \in 1..n |-> x]
    PROVE  q \in Seq(S) /\ Len(q) = n /\ \A m \in 1..n : q[m] = x
OBVIOUS

(* The invariant holds when a function starts to be compiled ... *)
LEMMA InitIInv == Init => IInv
<1> SUFFICES ASSUME Init PROVE IInv OBVIOUS
<1> DEFINE p(n) == [m \in 1..n |-> [depth |-> 1, captured |-> FALSE]]
           d == scopeDepth
<1>1. /\ status = "compiling" /\ type \in {"script", "function"} /\ code = <<>> /\ nest = <<>>
      /\ loops = <<>> /\ statements = 0 /\ ip = 1 /\ stackTop = Len(locals) /\ openSlots = {}
      /\ d = Outside
      BY DEF Init, Outside
<1>2. MaxLocals \in Nat /\ MaxArity \in Nat /\ MaxArity < MaxLocals /\ MaxStatements \in Nat
      /\ MaxBreaks \in Nat
      BY BoundsAssumption
<1>3. Callee \in LocalSet /\ Callee.depth = 0 BY DEF Callee, LocalSet
<1>4. LocalsOK(locals, d) /\ d \in Nat
  <2>1. CASE locals = <<Callee>> /\ d = 0
    <3>1. locals \in Seq(LocalSet) /\ Len(locals) = 1 /\ locals[1] = Callee BY <2>1, <1>3
    <3>2. \A m \in 1..Len(locals) : m = 1 BY <3>1
    <3> QED BY <3>1, <3>2, <2>1, <1>2, <1>3 DEF LocalsOK
  <2>2. ASSUME NEW n \in 0..MaxArity, locals = <<Callee>> \o p(n), d = 1
        PROVE  LocalsOK(locals, d) /\ d \in Nat
    <3> DEFINE l == <<Callee>>
               x == [depth |-> 1, captured |-> FALSE]
    <3>1. l \in Seq(LocalSet) /\ Len(l) = 1 /\ l[1] = Callee BY <1>3
    <3>2. x \in LocalSet /\ x.depth = 1 BY DEF LocalSet
    <3> DEFINE q == p(n)
    <3>3. n \in Nat /\ q = [m \in 1..n |-> x] BY <1>2
    <3>5. locals = l \o q BY <2>2 DEF l
    <3> HIDE DEF x, l, p, q
    <3>4. q \in Seq(LocalSet) /\ Len(q) = n /\ \A m \in 1..n : q[m] = x
          BY ONLY <3>2, <3>3, Constantly
    <3>6. locals \in Seq(LocalSet) /\ Len(locals) = Len(l) + Len(q)
          BY ONLY <3>1, <3>4, <3>5, Joined
    <3>7. \A i \in 1..Len(l) : locals[i] = l[i] BY ONLY <3>1, <3>4, <3>5, Joined
    <3>8. ASSUME NEW i \in 1..Len(q) PROVE locals[Len(l) + i] = q[i]
      <4>1. (l \o q)[Len(l) + i] = q[i] BY ONLY <3>1, <3>4, i \in 1..Len(q), JoinedAt
      <4> QED BY <4>1, <3>5
    <3>9. Len(locals) = n + 1 /\ locals[1] = Callee BY <3>1, <3>3, <3>4, <3>6, <3>7
    <3>10. ASSUME NEW m \in 1..Len(locals), m # 1 PROVE locals[m] = x
      <4>1. m - 1 \in 1..n /\ 1 + (m - 1) = m BY <3>3, <3>9, <3>10
      <4>2. locals[1 + (m - 1)] = q[m - 1] BY <4>1, <3>1, <3>4, <3>8
      <4> QED BY <4>1, <4>2, <3>4
    <3>11. Len(locals) >= 1 /\ Len(locals) <= MaxLocals BY <3>3, <3>9, <1>2
    <3>12. \A m \in 1..Len(locals) : locals[m].depth = IF m = 1 THEN 0 ELSE 1
           BY <3>2, <3>9, <3>10, <1>3
    <3> HIDE DEF d
    <3> QED BY <3>6, <3>11, <3>12, <2>2 DEF LocalsOK
  <2> QED BY <2>1, <2>2 DEF Init
<1>5. Len(locals) \in Nat /\ Len(code) = 0 /\ Len(nest) = 0 /\ Len(loops) = 0
      BY <1>1, <1>4 DEF LocalsOK
<1>6. code \in Seq(Instructions) /\ nest \in Seq(Entries) /\ loops \in Seq(LoopSet) BY <1>1
<1>7. Flow(code, Base) /\ HeightAt(code, Base, 1) = stackTop
      BY <1>1, <1>5, <1>6 DEF Flow, HeightAt, Base
<1>8. NestOK(nest, Outside, d) BY <1>1, <1>5, <1>6 DEF NestOK, Outside
<1>9. EntriesOK(code, locals, nest) /\ LoopsOK(code, locals, nest, loops) /\ AllOwned(code, nest, loops)
      BY <1>5, <1>6 DEF EntriesOK, LoopsOK, AllOwned
<1>10. CompileOK BY <1>1, <1>4, <1>5, <1>7, <1>8, <1>9 DEF CompileOK, Coherent, Base
<1> QED BY <1>1, <1>2, <1>10 DEF IInv

(* A step of the compiler that goes on compiling. *)
LEMMA StillCompiling ==
    ASSUME IInv, Compiling, UNCHANGED <<status, type>>, UNCHANGED statements \/ Counted, CompileOK'
    PROVE  IInv'
<1>1. statements' \in 0..MaxStatements
      BY BoundsAssumption DEF Counted, IInv
<1> QED BY <1>1 DEF IInv, Compiling

(* A compile error. *)
LEMMA StepError ==
    ASSUME IInv, Compiling, Counted, CompileError PROVE IInv'
<1>1. statements' \in 0..MaxStatements
      BY BoundsAssumption DEF Counted, IInv
<1>2. ip = 1 /\ stackTop \in Nat /\ openSlots = {} BY DEF IInv, Compiling, CompileOK
<1>3. /\ status' = "error" /\ code' = <<>> /\ locals' = <<>> /\ nest' = <<>> /\ loops' = <<>>
      /\ scopeDepth' = 0 /\ type' = type /\ ip' = ip /\ stackTop' = stackTop
      /\ openSlots' = openSlots
      BY DEF CompileError, machine
<1> QED BY <1>1, <1>2, <1>3 DEF IInv, NothingLeft

(* The declarations. *)
LEMMA StepDeclaration ==
    ASSUME IInv, Declaration PROVE IInv'
<1>1. Compiling /\ CompileOK
      BY DEF Declaration, VarDeclaration, TooManyLocals, FunDeclaration, NewDeclaration, IInv, Compiling
<1>2. CASE VarDeclaration
  <2>1. CompileOK' BY <1>1, <1>2, StepVarDeclaration
  <2>2. UNCHANGED <<status, type>> /\ Counted BY <1>2 DEF VarDeclaration, NewDeclaration
  <2> QED BY <1>1, <2>1, <2>2, StillCompiling
<1>3. CASE TooManyLocals
  <2>1. Counted /\ CompileError BY <1>3 DEF TooManyLocals, NewDeclaration
  <2> QED BY <1>1, <2>1, StepError
<1>4. ASSUME NEW C, FunDeclaration(C) PROVE IInv'
  <2>1. CompileOK' BY <1>1, <1>4, StepFunDeclaration
  <2>2. UNCHANGED <<status, type>> /\ Counted BY <1>4 DEF FunDeclaration, NewDeclaration
  <2> QED BY <1>1, <2>1, <2>2, StillCompiling
<1> QED BY <1>2, <1>3, <1>4 DEF Declaration

(* The compiler goes on, or reports an error. *)
LEMMA DeclarationStatus == Declaration => Compiling /\ (UNCHANGED status \/ CompileError)
BY DEF Declaration, VarDeclaration, TooManyLocals, FunDeclaration, NewDeclaration

(* The same, of a statement. *)
LEMMA StatementStatus == Statement => Compiling /\ (UNCHANGED status \/ CompileError)
<1> SUFFICES ASSUME Statement PROVE Compiling /\ (UNCHANGED status \/ CompileError) OBVIOUS
<1>1. ASSUME NEW c, SimpleStatement(c) PROVE Compiling /\ UNCHANGED status
      BY <1>1 DEF SimpleStatement, NewStatement
<1>2. CASE ExpressionStatement \/ And \/ Or \/ ReturnStatement \/ ContinueStatement
      BY <1>1, <1>2 DEF ExpressionStatement, And, Or, ReturnStatement, ContinueStatement
<1>3. CASE BeginBlock \/ EndBlock BY <1>3 DEF BeginBlock, EndBlock, NewStatement, Inside
<1>4. CASE If \/ Else \/ NoElse \/ ElseDone
      BY <1>4 DEF If, Else, NoElse, ElseDone, NewStatement, BranchDone, Inside
<1>5. CASE While \/ WhileDone \/ ForDone
      BY <1>5 DEF While, WhileDone, ForDone, NewStatement, BranchDone, Inside
<1>6. ASSUME NEW v \in BOOLEAN, NEW c \in BOOLEAN, NEW i \in BOOLEAN, For(v, c, i)
      PROVE  Compiling /\ UNCHANGED status
      BY <1>6 DEF For, NewStatement
<1>7. CASE BreakStatement BY <1>7 DEF BreakStatement, InLoop, NewStatement
<1>8. CASE StatementFails BY <1>8 DEF StatementFails, NewStatement
<1> QED BY <1>2, <1>3, <1>4, <1>5, <1>6, <1>7, <1>8 DEF Statement

(* The statements. *)
LEMMA StepStatement ==
    ASSUME IInv, Statement PROVE IInv'
<1>1. Compiling /\ CompileOK
  <2>1. Compiling BY StatementStatus
  <2> QED BY <2>1 DEF IInv, Compiling
<1>2. CASE BeginBlock
  <2>1. CompileOK' BY <1>1, <1>2, StepBeginBlock
  <2>2. UNCHANGED <<status, type>> /\ Counted BY <1>2 DEF BeginBlock, NewStatement
  <2> QED BY <1>1, <2>1, <2>2, StillCompiling
<1>3. CASE EndBlock
  <2>1. CompileOK' BY <1>1, <1>3, StepEndBlock
  <2>2. UNCHANGED <<status, type, statements>> BY <1>3 DEF EndBlock
  <2> QED BY <1>1, <2>1, <2>2, StillCompiling
<1>4. CASE ExpressionStatement \/ And \/ Or \/ ReturnStatement \/ ContinueStatement
  <2>1. CompileOK'
        BY <1>1, <1>4, StepExpressionStatement, StepAnd, StepOr, StepReturnStatement,
           StepContinueStatement
  <2>2. ASSUME NEW c, SimpleStatement(c) PROVE UNCHANGED <<status, type>> /\ Counted
        BY <2>2 DEF SimpleStatement, NewStatement
  <2>3. UNCHANGED <<status, type>> /\ Counted
        BY <1>4, <2>2 DEF ExpressionStatement, And, Or, ReturnStatement, ContinueStatement
  <2> QED BY <1>1, <2>1, <2>3, StillCompiling
<1>5. CASE If
  <2>1. CompileOK' BY <1>1, <1>5, StepIf
  <2>2. UNCHANGED <<status, type>> /\ Counted BY <1>5 DEF If, NewStatement
  <2> QED BY <1>1, <2>1, <2>2, StillCompiling
<1>6. CASE Else \/ NoElse \/ ElseDone
  <2>1. CompileOK' BY <1>1, <1>6, StepElse, StepNoElse, StepElseDone
  <2>2. UNCHANGED <<status, type, statements>> BY <1>6 DEF Else, NoElse, ElseDone
  <2> QED BY <1>1, <2>1, <2>2, StillCompiling
<1>7. CASE While
  <2>1. CompileOK' BY <1>1, <1>7, StepWhile
  <2>2. UNCHANGED <<status, type>> /\ Counted BY <1>7 DEF While, NewStatement
  <2> QED BY <1>1, <2>1, <2>2, StillCompiling
<1>8. CASE WhileDone \/ ForDone
  <2>1. CompileOK' BY <1>1, <1>8, StepWhileDone, StepForDone
  <2>2. UNCHANGED <<status, type, statements>> BY <1>8 DEF WhileDone, ForDone
  <2> QED BY <1>1, <2>1, <2>2, StillCompiling
<1>9. ASSUME NEW v \in BOOLEAN, NEW c \in BOOLEAN, NEW i \in BOOLEAN, For(v, c, i) PROVE IInv'
  <2>1. CompileOK' BY <1>1, <1>9, StepFor
  <2>2. UNCHANGED <<status, type>> /\ Counted BY <1>9 DEF For, NewStatement
  <2> QED BY <1>1, <2>1, <2>2, StillCompiling
<1>10. CASE BreakStatement
  <2>1. CompileOK' BY <1>1, <1>10, StepBreakStatement
  <2>2. UNCHANGED <<status, type>> /\ Counted BY <1>10 DEF BreakStatement, InLoop, NewStatement
  <2> QED BY <1>1, <2>1, <2>2, StillCompiling
<1>11. CASE StatementFails
  <2>1. Counted /\ CompileError BY <1>11 DEF StatementFails, NewStatement
  <2> QED BY <1>1, <2>1, StepError
<1> QED BY <1>2, <1>3, <1>4, <1>5, <1>6, <1>7, <1>8, <1>9, <1>10, <1>11 DEF Statement

(* run(). *)
LEMMA StepRun ==
    ASSUME IInv, Run PROVE IInv'
<1>1. status = "running"
      BY DEF Run, Push, PopValue, CloseUpvalue, Closure, Goto, FallThrough, Return, At
<1>2. RunOK BY <1>1 DEF IInv
<1>3. status' \in {"running", "returned"} /\ UNCHANGED compiler
      BY <1>1 DEF Run, Push, PopValue, CloseUpvalue, Closure, Goto, FallThrough, Return, Stack
<1>4. RunOK'
      BY <1>2, StepPush, StepPopValue, StepFallThrough, StepGoto, StepReturn DEF Run
<1>5. type' = type /\ statements' = statements BY <1>3 DEF compiler
<1> QED BY <1>3, <1>4, <1>5 DEF IInv

(* ... every step keeps it ... *)
LEMMA NextIInv == IInv /\ [Next]_vars => IInv'
<1> SUFFICES ASSUME IInv, [Next]_vars PROVE IInv' OBVIOUS
<1>1. CASE Declaration BY <1>1, StepDeclaration
<1>2. CASE Statement BY <1>2, StepStatement
<1>3. CASE EndCompiler
  <2>1. Compiling /\ CompileOK BY <1>3 DEF EndCompiler, Compiling, IInv
  <2>2. RunOK' BY <2>1, <1>3, StepEndCompiler
  <2>3. status' = "running" /\ type' = type /\ statements' = 0 BY <1>3 DEF EndCompiler
  <2> QED BY <2>2, <2>3, BoundsAssumption DEF IInv
<1>4. CASE Run BY <1>4, StepRun
<1>5. CASE UNCHANGED vars
  <2>1. UNCHANGED <<status, type, code, locals, scopeDepth, nest, loops, statements, ip, stackTop, openSlots>>
        BY <1>5 DEF vars, compiler, machine
  <2> QED BY <2>1 DEF IInv, CompileOK, RunOK, NothingLeft, Base, Outside
<1> QED BY <1>1, <1>2, <1>3, <1>4, <1>5 DEF Next

(* ... and so it always holds. *)
LEMMA AlwaysIInv == Spec => []IInv
BY InitIInv, NextIInv, PTL DEF Spec

-----------------------------------------------------------------------------
(* The theorems. *)

(* It says that the state is well formed ... *)
LEMMA IInvType == IInv => TypeOK
<1> SUFFICES ASSUME IInv PROVE TypeOK OBVIOUS
<1>1. /\ status \in {"compiling", "error", "running", "returned"}
      /\ type \in {"script", "function"} /\ statements \in 0..MaxStatements
      /\ MaxLocals \in Nat
      BY BoundsAssumption DEF IInv
<1>2. CASE status = "compiling"
  <2>1. CompileOK BY <1>2 DEF IInv
  <2>2. /\ code \in Seq(Instructions) /\ locals \in Seq(LocalSet) /\ Len(locals) <= MaxLocals
        /\ scopeDepth \in Nat /\ nest \in Seq(Entries) /\ loops \in Seq(LoopSet)
        BY <2>1, CompileFacts
  <2>3. \A n \in DOMAIN loops : Cardinality(loops[n].breaks) <= MaxBreaks
    <3>1. DOMAIN loops = 1..Len(loops) BY <2>2
    <3>2. \A n \in 1..Len(loops) : LoopOK(code, locals, nest, loops[n])
          BY <2>1 DEF CompileOK, Coherent, LoopsOK
    <3> QED BY <3>1, <3>2 DEF LoopOK
  <2>4. ip = 1 /\ stackTop \in Nat /\ openSlots = {} BY <2>1 DEF CompileOK
  <2> QED BY <1>1, <1>2, <2>2, <2>3, <2>4 DEF TypeOK, JumpsLand, Instructions, LocalSet, Entries, LoopSet
<1>3. CASE status = "error"
  <2>1. NothingLeft /\ code = <<>> /\ ip = 1 /\ stackTop \in Nat /\ openSlots = {} BY <1>3 DEF IInv
  <2> QED BY <1>1, <1>3, <2>1 DEF TypeOK, JumpsLand, NothingLeft
<1>4. CASE status \in {"running", "returned"}
  <2>1. RunOK BY <1>4 DEF IInv
  <2>2. code \in Seq(Instructions) /\ DOMAIN code = 1..Len(code) BY <2>1, FlowTypes DEF RunOK
  <2>3. JumpsLand BY <2>1, <2>2 DEF JumpsLand, RunOK, JumpOps
  <2>4. ip \in Nat /\ stackTop \in Nat /\ openSlots \subseteq Nat /\ NothingLeft
        BY <2>1, RunFacts DEF RunOK
  <2> QED BY <1>1, <2>2, <2>3, <2>4 DEF TypeOK, NothingLeft, Instructions
<1> QED BY <1>1, <1>2, <1>3, <1>4

(* Whatever the bounds: the compiler's records are well formed, no loop has    *)
(* more breaks than there is room for, and the jumps of code that runs all    *)
(* lead to an instruction of it.                                              *)
THEOREM TypeCorrect == Spec => []TypeOK
BY AlwaysIInv, IInvType, PTL

(* ... and, without a dirty exit, that the slots match. *)
LEMMA IInvSlots == CleanExits /\ IInv => SlotsMatchLocals
<1> SUFFICES ASSUME CleanExits, IInv, status = "running" PROVE stackTop = code[ip].height
      BY DEF SlotsMatchLocals
<1>1. RunOK BY DEF IInv
<1> QED BY <1>1 DEF RunOK, Reaches

(* Whatever way the source leaves its loops, an instruction finds at least the *)
(* values it was emitted for: break and continue leave locals behind on the    *)
(* stack, they never take any (breakStatement, continueStatement).            *)
THEOREM NeverShort == Spec => [](status = "running" => stackTop >= code[ip].height)
<1>1. IInv => (status = "running" => stackTop >= code[ip].height)
  <2> SUFFICES ASSUME IInv, status = "running" PROVE stackTop >= code[ip].height OBVIOUS
  <2>1. RunOK BY DEF IInv
  <2>2. code[ip].height \in Nat /\ stackTop \in Nat BY <2>1, RunFacts
  <2> QED BY <2>1, <2>2 DEF RunOK, Reaches
<1> QED BY <1>1, AlwaysIInv, PTL

(* A source that leaves a loop only where its body has no local runs every     *)
(* instruction on the stack it was emitted for: exactly these values.         *)
THEOREM SlotsCorrect == ASSUME CleanExits PROVE Spec => []SlotsMatchLocals
<1>1. IInv => SlotsMatchLocals BY IInvSlots
<1> QED BY <1>1, AlwaysIInv, PTL

-----------------------------------------------------------------------------
(* Which slots may be open.  K[n] is a set of slots that has those in it     *)
(* that may be open, on some way of the program, when instruction n starts;  *)
(* B[m] is the place in the code where local m came to be.                   *)

(* Instruction x, at place n of a code of length z, finds on the stack what  *)
(* may be open, pops none of it, and hands it to where it leads.             *)
Tracks(x, n, z, K) ==
    /\ K[n] \subseteq 1..x.height
    /\ x.op \in {"pop", "define"} => x.height \notin K[n]
    /\ x.op \notin {"close", "jump", "loop", "return"} => K[n] \subseteq K[n + 1]
    /\ x.op = "close" => K[n] \ {x.height} \subseteq K[n + 1]
    /\ x.op \in JumpOps /\ x.to # NoTarget => x.to \in 1..(z + 1) /\ K[n] \subseteq K[x.to]

(* As long as local m is there, it is under what instruction x works on, its *)
(* slot may be open if it is one of C, the captured ones, and x does not     *)
(* jump back to where it was not there.                                      *)
Alive(x, n, m, C, K, B) ==
    B[m] <= n =>
        /\ m <= x.height /\ (x.op \in {"pop", "define"} => m < x.height)
        /\ m \in C => m \in K[n]
        /\ x.op \in JumpOps /\ x.to # NoTarget => B[m] <= x.to

(* The code c with b locals, of which those of C are captured. *)
CodeTraced(c, b, C, K, B) ==
    /\ c \in Seq(Instructions) /\ b \in Nat /\ C \subseteq 1..b
    /\ K \in [Nat -> SUBSET Nat] /\ B \in [Nat -> Nat]
    /\ \A n \in Nat : n > Len(c) => K[n] = C
    /\ \A m \in 1..b : B[m] <= Len(c) + 1
    /\ \A n \in 1..Len(c) : Tracks(c[n], n, Len(c), K)
    /\ \A n \in 1..Len(c) : \A m \in 1..b : Alive(c[n], n, m, C, K, B)

(* What a closure captures may be open after it. *)
Opens(c, K) == \A n \in 1..Len(c) : c[n].op = "closure" => c[n].captures \subseteq K[n + 1]

(* The types of all this. *)
LEMMA TracedTypes ==
    ASSUME NEW c, NEW b, NEW C, NEW K, NEW B, CodeTraced(c, b, C, K, B)
    PROVE  /\ c \in Seq(Instructions) /\ Len(c) \in Nat /\ b \in Nat /\ C \subseteq 1..b
           /\ K \in [Nat -> SUBSET Nat] /\ B \in [Nat -> Nat]
           /\ \A n \in 1..Len(c) : /\ c[n] \in Instructions /\ c[n].op \in Ops /\ c[n].to \in Nat
                                   /\ c[n].height \in Nat /\ c[n].captures \in SUBSET Nat
           /\ \A n \in Nat : K[n] \in SUBSET Nat /\ B[n] \in Nat
<1>1. /\ c \in Seq(Instructions) /\ b \in Nat /\ C \subseteq 1..b
      /\ K \in [Nat -> SUBSET Nat] /\ B \in [Nat -> Nat]
      BY DEF CodeTraced
<1>2. \A n \in 1..Len(c) : c[n] \in Instructions BY <1>1
<1>3. ASSUME NEW x \in Instructions
      PROVE  x.op \in Ops /\ x.to \in Nat /\ x.height \in Nat /\ x.captures \in SUBSET Nat
      BY DEF Instructions
<1>4. \A n \in 1..Len(c) : /\ c[n] \in Instructions /\ c[n].op \in Ops /\ c[n].to \in Nat
                            /\ c[n].height \in Nat /\ c[n].captures \in SUBSET Nat
      BY <1>2, <1>3
<1>5. \A n \in Nat : K[n] \in SUBSET Nat /\ B[n] \in Nat BY <1>1
<1>6. Len(c) \in Nat BY <1>1
<1> QED BY ONLY <1>1, <1>4, <1>5, <1>6

(* More code does no harm to an instruction. *)
LEMMA TracksLonger ==
    ASSUME NEW x, NEW n, NEW z \in Nat, NEW y \in Nat, z <= y, NEW K, Tracks(x, n, z, K)
    PROVE  Tracks(x, n, y, K)
BY DEF Tracks

(* An instruction over all the locals, that jumps nowhere yet. *)
Calm(x, b) ==
    /\ x \in Instructions /\ x.op # "close" /\ b <= x.height
    /\ x.op \in {"pop", "define"} => b < x.height
    /\ x.op \in JumpOps => x.to = NoTarget

(* At the end of the code nothing may be open but the captured locals. *)
LEMMA CalmTracked ==
    ASSUME NEW c, NEW b, NEW C, NEW K, NEW B, CodeTraced(c, b, C, K, B), NEW x \in Instructions,
           x.op # "close", b <= x.height, x.op \in {"pop", "define"} => b < x.height,
           NEW z \in Nat, NEW n \in Nat, Len(c) < n, n <= z,
           x.op \in JumpOps /\ x.to # NoTarget =>
              x.to \in 1..(z + 1) /\ \A m \in 1..b : B[m] <= x.to
    PROVE  Tracks(x, n, z, K) /\ \A m \in 1..b : Alive(x, n, m, C, K, B)
<1>1. /\ Len(c) \in Nat /\ b \in Nat /\ C \subseteq 1..b /\ \A i \in Nat : K[i] \in SUBSET Nat /\ B[i] \in Nat
      BY TracedTypes
<1>2. x.height \in Nat /\ x.to \in Nat BY DEF Instructions
<1>3. K[n] = C /\ K[n + 1] = C BY <1>1 DEF CodeTraced
<1>4. ASSUME x.op \in JumpOps, x.to # NoTarget PROVE C \subseteq K[x.to]
  <2>1. x.to \in 1..(z + 1) /\ \A m \in 1..b : B[m] <= x.to BY <1>4
  <2>2. CASE x.to > Len(c) BY <2>2, <1>2 DEF CodeTraced
  <2>3. CASE x.to <= Len(c)
    <3>1. x.to \in 1..Len(c) BY <2>1, <2>3, <1>1
    <3>2. \A m \in 1..b : Alive(c[x.to], x.to, m, C, K, B) BY <3>1 DEF CodeTraced
    <3> QED BY <3>2, <2>1, <1>1 DEF Alive
  <2> QED BY <2>2, <2>3, <1>1, <1>2
<1>5. Tracks(x, n, z, K) BY <1>1, <1>2, <1>3, <1>4 DEF Tracks
<1>6. ASSUME NEW m \in 1..b PROVE Alive(x, n, m, C, K, B) BY <1>1, <1>2, <1>3 DEF Alive
<1> QED BY <1>5, <1>6

(* Instructions are added that are calm. *)
LEMMA TracedJoined ==
    ASSUME NEW c, NEW b, NEW C, NEW K, NEW B, CodeTraced(c, b, C, K, B), NEW s \in Seq(Instructions),
           \A i \in 1..Len(s) : Calm(s[i], b)
    PROVE  CodeTraced(c \o s, b, C, K, B)
<1> DEFINE d == c \o s
<1>1. c \in Seq(Instructions) /\ Len(c) \in Nat /\ b \in Nat /\ Len(s) \in Nat BY TracedTypes
<1>2. /\ d \in Seq(Instructions) /\ Len(d) = Len(c) + Len(s)
      /\ \A n \in 1..Len(c) : d[n] = c[n] /\ \A i \in 1..Len(s) : d[Len(c) + i] = s[i]
      BY <1>1, Joined
<1>2a. \A i \in 1..Len(s) : d[Len(c) + i] = s[i] BY <1>1, Joined
<1> HIDE DEF d
<1>3. ASSUME NEW n \in 1..Len(d)
      PROVE  Tracks(d[n], n, Len(d), K) /\ \A m \in 1..b : Alive(d[n], n, m, C, K, B)
  <2>1. CASE n \in 1..Len(c)
    <3>1. Tracks(c[n], n, Len(c), K) /\ \A m \in 1..b : Alive(c[n], n, m, C, K, B)
          BY <2>1 DEF CodeTraced
    <3>2. Tracks(c[n], n, Len(d), K) BY <3>1, <1>1, <1>2, TracksLonger
    <3> QED BY <3>1, <3>2, <2>1, <1>2
  <2>2. CASE n \notin 1..Len(c)
    <3>1. n - Len(c) \in 1..Len(s) /\ Len(c) + (n - Len(c)) = n /\ n > Len(c) BY <2>2, <1>1, <1>2
    <3>2. d[n] = s[n - Len(c)] BY <3>1, <1>2a
    <3>3. Calm(d[n], b) BY <3>1, <3>2
    <3> DEFINE x == d[n]
    <3> HIDE DEF x
    <3>4. /\ x \in Instructions /\ x.op # "close" /\ b <= x.height
          /\ (x.op \in {"pop", "define"} => b < x.height)
          /\ ~(x.op \in JumpOps /\ x.to # NoTarget)
          BY <3>3 DEF Calm, x
    <3>5. n \in Nat /\ Len(d) \in Nat /\ n <= Len(d) BY <1>1, <1>2
    <3>6. Tracks(x, n, Len(d), K) /\ \A m \in 1..b : Alive(x, n, m, C, K, B)
          BY <3>1, <3>4, <3>5, CalmTracked
    <3> QED BY <3>6 DEF x
  <2> QED BY <2>1, <2>2
<1>4. \A n \in Nat : n > Len(d) => K[n] = C
  <2>1. \A n \in Nat : n > Len(d) => n > Len(c) BY <1>1, <1>2
  <2>2. \A n \in Nat : n > Len(c) => K[n] = C BY DEF CodeTraced
  <2> QED BY <2>1, <2>2
<1>5. \A m \in 1..b : B[m] <= Len(d) + 1
  <2>1. \A m \in 1..b : m \in Nat BY <1>1
  <2>2. \A m \in 1..b : B[m] \in Nat BY <2>1, TracedTypes
  <2>3. \A m \in 1..b : B[m] <= Len(c) + 1 BY DEF CodeTraced
  <2> QED BY <2>2, <2>3, <1>1, <1>2
<1>6. CodeTraced(d, b, C, K, B) BY <1>2, <1>3, <1>4, <1>5 DEF CodeTraced
<1> QED BY <1>6 DEF d

(* A jump back to where all the locals were there already. *)
LEMMA TracedLooped ==
    ASSUME NEW c, NEW b, NEW C, NEW K, NEW B, CodeTraced(c, b, C, K, B), NEW x \in Instructions,
           x.op = "loop", b <= x.height, x.to \in 1..(Len(c) + 1), \A m \in 1..b : B[m] <= x.to
    PROVE  CodeTraced(Append(c, x), b, C, K, B)
<1> DEFINE d == Append(c, x)
<1>1. c \in Seq(Instructions) /\ Len(c) \in Nat /\ b \in Nat BY TracedTypes
<1>2. /\ d \in Seq(Instructions) /\ Len(d) = Len(c) + 1 /\ d[Len(c) + 1] = x
      /\ \A n \in 1..Len(c) : d[n] = c[n]
      BY <1>1, Appended
<1> HIDE DEF d
<1>3. ASSUME NEW n \in 1..Len(d)
      PROVE  Tracks(d[n], n, Len(d), K) /\ \A m \in 1..b : Alive(d[n], n, m, C, K, B)
  <2>1. CASE n \in 1..Len(c)
    <3>1. Tracks(c[n], n, Len(c), K) /\ \A m \in 1..b : Alive(c[n], n, m, C, K, B)
          BY <2>1 DEF CodeTraced
    <3>2. Tracks(c[n], n, Len(d), K) BY <3>1, <1>1, <1>2, TracksLonger
    <3> QED BY <3>1, <3>2, <2>1, <1>2
  <2>2. CASE n \notin 1..Len(c)
    <3>1. n = Len(c) + 1 /\ n \in Nat /\ n > Len(c) /\ Len(d) \in Nat /\ n <= Len(d)
          BY <2>2, <1>1, <1>2
    <3>2. d[n] = x /\ x.op # "close" /\ x.op \notin {"pop", "define"} BY <3>1, <1>2
    <3>3. x.to \in 1..(Len(d) + 1) BY <1>1, <1>2
    <3>4. Tracks(x, n, Len(d), K) /\ \A m \in 1..b : Alive(x, n, m, C, K, B)
          BY <3>1, <3>2, <3>3, CalmTracked
    <3> QED BY <3>2, <3>4
  <2> QED BY <2>1, <2>2
<1>4. \A n \in Nat : n > Len(d) => K[n] = C
  <2>1. \A n \in Nat : n > Len(d) => n > Len(c) BY <1>1, <1>2
  <2>2. \A n \in Nat : n > Len(c) => K[n] = C BY DEF CodeTraced
  <2> QED BY <2>1, <2>2
<1>5. \A m \in 1..b : B[m] <= Len(d) + 1
  <2>1. \A m \in 1..b : m \in Nat BY <1>1
  <2>2. \A m \in 1..b : B[m] \in Nat BY <2>1, TracedTypes
  <2>3. \A m \in 1..b : B[m] <= Len(c) + 1 BY DEF CodeTraced
  <2> QED BY <2>2, <2>3, <1>1, <1>2
<1>6. CodeTraced(d, b, C, K, B) BY <1>2, <1>3, <1>4, <1>5 DEF CodeTraced
<1> QED BY <1>6 DEF d

(* Jumps are patched at which nothing may be open but the captured locals. *)
LEMMA TracedPatched ==
    ASSUME NEW c, NEW b, NEW C, NEW K, NEW B, CodeTraced(c, b, C, K, B), NEW J,
           \A n \in J : n \in 1..Len(c) => K[n] \subseteq C
    PROVE  /\ CodeTraced(Patch(c, J), b, C, K, B) /\ Len(Patch(c, J)) = Len(c)
           /\ \A n \in 1..Len(c) : /\ Patch(c, J)[n].op = c[n].op
                                   /\ Patch(c, J)[n].captures = c[n].captures
<1> DEFINE d == Patch(c, J)
           z == Len(c)
<1>1. /\ c \in Seq(Instructions) /\ z \in Nat /\ b \in Nat /\ DOMAIN c = 1..z
      /\ \A n \in 1..Len(c) : c[n] \in Instructions
      /\ \A n \in Nat : K[n] \in SUBSET Nat /\ B[n] \in Nat
      BY TracedTypes
<1>2. d = [n \in 1..z |-> IF n \in J THEN [c[n] EXCEPT !.to = z + 1] ELSE c[n]]
      BY <1>1 DEF Patch, Next1
<1>3. ASSUME NEW n \in 1..z
      PROVE  /\ d[n] \in Instructions /\ d[n].op = c[n].op /\ d[n].height = c[n].height
             /\ d[n].captures = c[n].captures
             /\ d[n].to = IF n \in J THEN z + 1 ELSE c[n].to
  <2> DEFINE x == c[n]
  <2>1. x \in Instructions BY <1>1
  <2> HIDE DEF x
  <2>2. d[n] = IF n \in J THEN [x EXCEPT !.to = z + 1] ELSE x BY <1>2 DEF x
  <2> HIDE DEF d
  <2>3. CASE n \in J
    <3> DEFINE y == [x EXCEPT !.to = z + 1]
    <3>1. z + 1 \in Nat BY <1>1
    <3> HIDE DEF z
    <3>2. /\ y \in Instructions /\ y.op = x.op /\ y.height = x.height /\ y.captures = x.captures
          /\ y.to = z + 1
          BY <2>1, <3>1 DEF Instructions
    <3>3. d[n] = y BY <2>2, <2>3
    <3> HIDE DEF y
    <3> QED BY <3>2, <3>3, <2>3 DEF x
  <2>4. CASE n \notin J BY <2>1, <2>2, <2>4 DEF x
  <2> QED BY <2>3, <2>4
<1>4. d \in Seq(Instructions) /\ Len(d) = z
  <2>1. DOMAIN d = 1..z /\ d = [n \in 1..z |-> d[n]] BY <1>2
  <2> HIDE DEF d
  <2> QED BY <2>1, <1>1, <1>3
<1> HIDE DEF d
<1>5. K[z + 1] = C BY <1>1 DEF CodeTraced
<1>6. ASSUME NEW n \in 1..z PROVE Tracks(d[n], n, z, K)
  <2>1. Tracks(c[n], n, z, K) BY DEF CodeTraced
  <2>2. n \in J => K[n] \subseteq C OBVIOUS
  <2>3. z + 1 \in 1..(z + 1) BY <1>1
  <2> HIDE DEF z
  <2> QED BY <2>1, <2>2, <2>3, <1>3, <1>5 DEF Tracks
<1>7. ASSUME NEW n \in 1..z, NEW m \in 1..b PROVE Alive(d[n], n, m, C, K, B)
  <2>1. Alive(c[n], n, m, C, K, B) BY DEF CodeTraced
  <2>2. B[m] <= z + 1 BY DEF CodeTraced
  <2> HIDE DEF z
  <2> QED BY <2>1, <2>2, <1>3 DEF Alive
<1>8. CodeTraced(d, b, C, K, B) BY <1>4, <1>6, <1>7 DEF CodeTraced
<1> QED BY <1>3, <1>4, <1>8 DEF d

(* Locals are captured. *)
Capturing(K, B, D) == [n \in Nat |-> K[n] \cup {m \in D : B[m] <= n}]

(* The locals of D become captured. *)
LEMMA TracedCaptured ==
    ASSUME NEW c, NEW b, NEW C, NEW K, NEW B, CodeTraced(c, b, C, K, B), NEW D, D \subseteq 1..b
    PROVE  /\ CodeTraced(c, b, C \cup D, Capturing(K, B, D), B)
           /\ \A n \in Nat : K[n] \subseteq Capturing(K, B, D)[n]
<1> DEFINE G == Capturing(K, B, D)
           z == Len(c)
<1>1. /\ c \in Seq(Instructions) /\ z \in Nat /\ b \in Nat /\ C \subseteq 1..b
      /\ K \in [Nat -> SUBSET Nat] /\ B \in [Nat -> Nat]
      /\ \A n \in Nat : K[n] \in SUBSET Nat /\ B[n] \in Nat
      BY TracedTypes
<1>1a. \A n \in 1..z : /\ c[n].op \in Ops /\ c[n].to \in Nat /\ c[n].height \in Nat
       BY TracedTypes
<1>2. \A n \in Nat : \A m : m \in G[n] <=> m \in K[n] \/ (m \in D /\ B[m] <= n)
      BY DEF Capturing
<1>3. G \in [Nat -> SUBSET Nat]
  <2>0. D \subseteq Nat BY <1>1
  <2>1. \A n \in Nat : K[n] \cup {m \in D : B[m] <= n} \in SUBSET Nat BY <2>0, <1>1
  <2> QED BY <2>1 DEF Capturing
<1> HIDE DEF G
<1>4. \A m \in D : m \in 1..b /\ m \in Nat /\ B[m] <= z + 1
  <2>1. \A m \in D : m \in 1..b OBVIOUS
  <2> QED BY <2>1, <1>1 DEF CodeTraced
<1>5. ASSUME NEW n \in Nat, n > z PROVE G[n] = C \cup D
  <2>1. K[n] = C BY <1>5 DEF CodeTraced
  <2>2. \A m \in D : B[m] <= n BY <1>1, <1>4, <1>5
  <2> QED BY <2>1, <2>2, <1>2
<1>6. ASSUME NEW n \in 1..z, NEW m \in D, B[m] <= n
      PROVE  /\ m \in 1..c[n].height
             /\ c[n].op \in {"pop", "define"} => m # c[n].height
             /\ m \in G[n + 1]
             /\ c[n].op \in JumpOps /\ c[n].to # NoTarget /\ c[n].to \in Nat => m \in G[c[n].to]
  <2>1. Alive(c[n], n, m, C, K, B) BY <1>4 DEF CodeTraced
  <2>2. m \in Nat /\ m >= 1 /\ B[m] \in Nat /\ n \in Nat BY <1>1, <1>4
  <2>3. m <= c[n].height /\ (c[n].op \in {"pop", "define"} => m < c[n].height) BY <2>1, <1>6 DEF Alive
  <2>4. c[n].op \in JumpOps /\ c[n].to # NoTarget => B[m] <= c[n].to BY <2>1, <1>6 DEF Alive
  <2>5. B[m] <= n + 1 BY <2>2, <1>6
  <2>6. m \in G[n + 1] BY <2>2, <2>5, <1>2
  <2> QED BY <2>2, <2>3, <2>4, <2>6, <1>2, <1>1a
<1>7. ASSUME NEW n \in 1..z PROVE Tracks(c[n], n, z, G)
  <2> DEFINE x == c[n]
  <2>1. Tracks(x, n, z, K) BY DEF CodeTraced
  <2>2. n \in Nat /\ n + 1 \in Nat /\ x.to \in Nat
    <3>1. x.to \in Nat BY <1>1a
    <3> HIDE DEF x
    <3> QED BY <3>1, <1>1
  <2>3. \A m : m \in G[n] <=> m \in K[n] \/ (m \in D /\ B[m] <= n) BY <2>2, <1>2
  <2>4. \A m : m \in K[n + 1] => m \in G[n + 1] BY <2>2, <1>2
  <2>5. \A m : m \in K[x.to] => m \in G[x.to] BY <2>2, <1>2
  <2>6. \A m \in D : B[m] <= n =>
          /\ m \in 1..x.height
          /\ x.op \in {"pop", "define"} => m # x.height
          /\ m \in G[n + 1]
          /\ x.op \in JumpOps /\ x.to # NoTarget => m \in G[x.to]
        BY <2>2, <1>6
  <2> HIDE DEF x, z
  <2>7. G[n] \subseteq 1..x.height BY <2>1, <2>3, <2>6 DEF Tracks
  <2>8. x.op \in {"pop", "define"} => x.height \notin G[n] BY <2>1, <2>3, <2>6 DEF Tracks
  <2>9. x.op \notin {"close", "jump", "loop", "return"} => G[n] \subseteq G[n + 1]
        BY <2>1, <2>3, <2>4, <2>6 DEF Tracks
  <2>10. x.op = "close" => G[n] \ {x.height} \subseteq G[n + 1]
         BY <2>1, <2>3, <2>4, <2>6 DEF Tracks
  <2>11. x.op \in JumpOps /\ x.to # NoTarget => x.to \in 1..(z + 1) /\ G[n] \subseteq G[x.to]
         BY <2>1, <2>3, <2>5, <2>6 DEF Tracks
  <2>12. Tracks(x, n, z, G) BY <2>7, <2>8, <2>9, <2>10, <2>11 DEF Tracks
  <2> QED BY <2>12 DEF x
<1>8. ASSUME NEW n \in 1..z, NEW m \in 1..b PROVE Alive(c[n], n, m, C \cup D, G, B)
  <2>1. Alive(c[n], n, m, C, K, B) BY DEF CodeTraced
  <2>2. n \in Nat BY <1>1
  <2> QED BY <2>1, <2>2, <1>2 DEF Alive
<1>9. C \cup D \subseteq 1..b BY <1>1
<1>10. \A m \in 1..b : B[m] <= z + 1 BY DEF CodeTraced
<1>11. CodeTraced(c, b, C \cup D, G, B)
       BY <1>1, <1>3, <1>5, <1>7, <1>8, <1>9, <1>10 DEF CodeTraced
<1> QED BY <1>2, <1>11 DEF G

(* A local comes to be at the end of the code. *)
Declaring(c, b, B) == [B EXCEPT ![b + 1] = Len(c) + 1]

(* Where the locals came to be, when there is one more. *)
LEMMA DeclaringAt ==
    ASSUME NEW c, NEW b, NEW C, NEW K, NEW B, CodeTraced(c, b, C, K, B)
    PROVE  /\ Declaring(c, b, B) \in [Nat -> Nat] /\ Declaring(c, b, B)[b + 1] = Len(c) + 1
           /\ \A m \in 1..b : Declaring(c, b, B)[m] = B[m]
<1> DEFINE G == Declaring(c, b, B)
           z == Len(c)
<1>1. z \in Nat /\ b \in Nat /\ B \in [Nat -> Nat] BY TracedTypes
<1>2. b + 1 \in Nat /\ z + 1 \in Nat /\ \A m \in 1..b : m \in Nat /\ m # b + 1 BY <1>1
<1> HIDE DEF z
<1>3. G = [B EXCEPT ![b + 1] = z + 1] BY DEF Declaring, z
<1> HIDE DEF G
<1>4. G \in [Nat -> Nat] /\ G[b + 1] = z + 1 /\ \A m \in 1..b : G[m] = B[m]
      BY <1>1, <1>2, <1>3
<1> QED BY <1>4 DEF G, z

(* One more local is there, that no code has touched yet. *)
LEMMA TracedDeclared ==
    ASSUME NEW c, NEW b, NEW C, NEW K, NEW B, CodeTraced(c, b, C, K, B)
    PROVE  CodeTraced(c, b + 1, C, K, Declaring(c, b, B))
<1> DEFINE G == Declaring(c, b, B)
           z == Len(c)
<1>1. /\ c \in Seq(Instructions) /\ z \in Nat /\ b \in Nat /\ C \subseteq 1..b
      /\ K \in [Nat -> SUBSET Nat] /\ B \in [Nat -> Nat]
      BY TracedTypes
<1>2. G \in [Nat -> Nat] /\ G[b + 1] = z + 1 /\ \A m \in 1..b : G[m] = B[m]
      BY DeclaringAt
<1> HIDE DEF G
<1>3. \A m \in 1..(b + 1) : m = b + 1 \/ m \in 1..b BY <1>1
<1>4. \A m \in 1..(b + 1) : G[m] <= z + 1
  <2>1. \A m \in 1..b : B[m] <= z + 1 BY DEF CodeTraced
  <2>2. G[b + 1] <= z + 1
    <3> HIDE DEF z
    <3> QED BY <1>1, <1>2
  <2>3. \A m \in 1..b : G[m] <= z + 1 BY <2>1, <1>2
  <2> QED BY <2>2, <2>3, <1>3
<1>5. ASSUME NEW n \in 1..z, NEW m \in 1..(b + 1) PROVE Alive(c[n], n, m, C, K, G)
  <2>1. CASE m = b + 1
    <3>1. ~(G[m] <= n) BY <2>1, <1>1, <1>2
    <3> QED BY <3>1 DEF Alive
  <2>2. CASE m \in 1..b
    <3>1. Alive(c[n], n, m, C, K, B) BY <2>2 DEF CodeTraced
    <3> QED BY <3>1, <2>2, <1>2 DEF Alive
  <2> QED BY <2>1, <2>2, <1>3
<1>6. C \subseteq 1..(b + 1) /\ b + 1 \in Nat BY <1>1
<1>7. CodeTraced(c, b + 1, C, K, G)
      BY <1>1, <1>2, <1>4, <1>5, <1>6 DEF CodeTraced
<1> QED BY <1>7 DEF G

(* A scope ends: locals are given up from the last one down, to w of them. *)
Ending(c, b, C, w, K) ==
    [n \in Nat |-> IF n <= Len(c) THEN K[n] ELSE {m \in C : m <= w \/ m + n <= b + Len(c) + 1}]

(* The code of endScope: s pops the locals over the first w, and closes the captured ones. *)
LEMMA TracedEnded ==
    ASSUME NEW c, NEW b, NEW C, NEW K, NEW B, CodeTraced(c, b, C, K, B), NEW w \in 0..b,
           NEW s \in Seq(Instructions), Len(s) = b - w,
           \A i \in 1..Len(s) : /\ s[i].height = b - i + 1
                                /\ s[i].op = IF b - i + 1 \in C THEN "close" ELSE "pop",
           NEW D, D = {m \in C : m <= w}
    PROVE  /\ CodeTraced(c \o s, w, D, Ending(c, b, C, w, K), B)
           /\ \A n \in 1..(Len(c) + 1) : Ending(c, b, C, w, K)[n] = K[n]
<1> DEFINE G == Ending(c, b, C, w, K)
           z == Len(c)
           d == c \o s
           y == Len(d)
<1>1. /\ c \in Seq(Instructions) /\ z \in Nat /\ b \in Nat /\ C \subseteq 1..b
      /\ K \in [Nat -> SUBSET Nat] /\ B \in [Nat -> Nat]
      /\ \A n \in Nat : K[n] \in SUBSET Nat
      BY TracedTypes
<1>1a. C \subseteq Nat /\ w \in Nat /\ w <= b BY <1>1
<1>1b. \A m \in 1..b : B[m] \in Nat /\ B[m] <= z + 1
  <2>1. \A m \in 1..b : m \in Nat BY <1>1
  <2>2. \A m \in 1..b : B[m] \in Nat BY <2>1, <1>1
  <2> QED BY <2>2 DEF CodeTraced
<1>2. /\ d \in Seq(Instructions) /\ y = z + (b - w) /\ y \in Nat /\ z <= y
  <2>1. d \in Seq(Instructions) /\ Len(d) = z + Len(s) BY <1>1, Joined
  <2> HIDE DEF d, z
  <2>2. Len(d) = z + (b - w) BY <2>1
  <2> QED BY <2>1, <2>2, <1>1, <1>1a
<1>3. \A n \in 1..z : d[n] = c[n] BY <1>1, Joined
<1>4. ASSUME NEW n \in 1..y, n > z
      PROVE  /\ d[n].height = b + z + 1 - n
             /\ d[n].op = IF b + z + 1 - n \in C THEN "close" ELSE "pop"
  <2> DEFINE i == n - z
  <2>1. i \in 1..Len(s) /\ z + i = n /\ b - i + 1 = b + z + 1 - n
    <3> HIDE DEF z, y
    <3> QED BY <1>1, <1>1a, <1>2, <1>4
  <2> HIDE DEF i
  <2>1a. i \in 1..Len(s) /\ s \in Seq(Instructions) BY <2>1
  <2>2. d[z + i] = s[i] BY ONLY <2>1a, <1>1, JoinedAt DEF d, z
  <2> HIDE DEF d, z
  <2> QED BY <2>1, <2>2
<1>5. \A n \in Nat : G[n] = IF n <= z THEN K[n] ELSE {m \in C : m <= w \/ m + n <= b + z + 1}
      BY DEF Ending
<1>6. G \in [Nat -> SUBSET Nat]
  <2>1. \A n \in Nat : (IF n <= z THEN K[n] ELSE {m \in C : m <= w \/ m + n <= b + z + 1}) \in SUBSET Nat
        BY <1>1, <1>1a
  <2> QED BY <2>1 DEF Ending
<1> HIDE DEF G, d
<1>7. \A n \in Nat : n > z => K[n] = C BY DEF CodeTraced
<1> HIDE DEF z, y
<1>8. ASSUME NEW n \in 1..(z + 1) PROVE G[n] = K[n]
  <2>1. n \in Nat BY <1>1
  <2>2. CASE n <= z BY <2>1, <2>2, <1>5
  <2>3. CASE n = z + 1
    <3>0. ~(n <= z) BY <2>3, <1>1
    <3>1. G[n] = {m \in C : m <= w \/ m + n <= b + z + 1} BY <3>0, <2>1, <1>5
    <3>2. \A m \in C : m + n <= b + z + 1
      <4>1. \A m \in C : m \in Nat /\ m <= b BY <1>1
      <4> QED BY <4>1, <2>3, <1>1
    <3>3. K[n] = C BY <2>1, <2>3, <1>1, <1>7
    <3> QED BY <3>1, <3>2, <3>3
  <2>4. n <= z \/ n = z + 1 BY <1>1
  <2> QED BY <2>2, <2>3, <2>4
<1>9. ASSUME NEW n \in Nat, n > y PROVE G[n] = D
  <2>0. ~(n <= z) BY <1>1, <1>2, <1>9
  <2>1. G[n] = {m \in C : m <= w \/ m + n <= b + z + 1} BY <2>0, <1>5
  <2>2. ASSUME NEW m \in C, m + n <= b + z + 1 PROVE m <= w
    <3>1. m \in Nat BY <1>1a
    <3> QED BY <3>1, <2>2, <1>1, <1>1a, <1>2, <1>9
  <2> QED BY <2>1, <2>2
<1>10. ASSUME NEW n \in 1..y PROVE Tracks(d[n], n, y, G) /\ \A m \in 1..w : Alive(d[n], n, m, D, G, B)
  <2>1. n \in Nat BY <1>2
  <2>2. CASE n <= z
    <3>1. n \in 1..z /\ n \in 1..(z + 1) /\ n + 1 \in 1..(z + 1) BY <2>1, <2>2, <1>1
    <3> DEFINE x == c[n]
    <3>2. d[n] = x BY <3>1, <1>3 DEF z
    <3>3. Tracks(x, n, z, K) /\ \A m \in 1..b : Alive(x, n, m, C, K, B) BY <3>1 DEF CodeTraced, z
    <3> HIDE DEF x
    <3>4. Tracks(x, n, z, G) BY <3>1, <3>3, <1>8 DEF Tracks
    <3>5. Tracks(x, n, y, G) BY <3>4, <1>1, <1>2, TracksLonger
    <3>6. ASSUME NEW m \in 1..w PROVE Alive(x, n, m, D, G, B)
      <4>1. m \in 1..b BY <1>1, <1>1a
      <4>2. Alive(x, n, m, C, K, B) BY <4>1, <3>3
      <4>3. G[n] = K[n] BY <3>1, <1>8
      <4>4. m \in D => m \in C OBVIOUS
      <4> QED BY <4>2, <4>3, <4>4 DEF Alive
    <3> QED BY <3>2, <3>5, <3>6
  <2>3. CASE n > z
    <3> DEFINE x == d[n]
               h == b + z + 1 - n
    <3>1. x.height = h /\ x.op = IF h \in C THEN "close" ELSE "pop" BY <2>3, <1>4
    <3>2. h \in Nat /\ w < h /\ h + n = b + z + 1 BY <2>1, <2>3, <1>1, <1>1a, <1>2
    <3>3. G[n] = {m \in C : m <= w \/ m + n <= h + n}
      <4>1. ~(n <= z) BY <2>1, <2>3, <1>1
      <4> QED BY <4>1, <2>1, <1>5, <3>2
    <3>4. G[n + 1] = {m \in C : m <= w \/ m + (n + 1) <= h + n}
      <4>1. ~(n + 1 <= z) /\ n + 1 \in Nat BY <2>1, <2>3, <1>1
      <4> QED BY <4>1, <1>5, <3>2
    <3> HIDE DEF x, h
    <3>5. ASSUME NEW m \in C PROVE /\ m \in Nat /\ m >= 1
                                   /\ m \in G[n] <=> m <= h
                                   /\ m \in G[n + 1] <=> m < h
      <4>1. m \in Nat /\ m >= 1 BY <1>1
      <4>2. m \in G[n] <=> m <= h BY <4>1, <3>2, <3>3, <2>1, <1>1a
      <4>3. m \in G[n + 1] <=> m < h BY <4>1, <3>2, <3>4, <2>1, <1>1a
      <4> QED BY <4>1, <4>2, <4>3
    <3>6. G[n] \subseteq C BY <3>3
    <3>7. G[n] \subseteq 1..h BY <3>2, <3>5, <3>6
    <3>8. x.op = "pop" => h \notin G[n] BY <3>1, <3>6
    <3>9. x.op = "pop" => G[n] \subseteq G[n + 1]
      <4>1. ASSUME x.op = "pop", NEW m \in G[n] PROVE m \in G[n + 1]
        <5>1. m \in C /\ m # h BY <4>1, <3>6, <3>8
        <5>2. m \in Nat /\ m <= h BY <5>1, <3>5
        <5> QED BY <5>1, <5>2, <3>2, <3>5
      <4> QED BY <4>1
    <3>10. G[n] \ {h} \subseteq G[n + 1]
      <4>1. ASSUME NEW m \in G[n], m # h PROVE m \in G[n + 1]
        <5>1. m \in C BY <3>6
        <5>2. m \in Nat /\ m <= h BY <5>1, <3>5
        <5> QED BY <5>1, <5>2, <4>1, <3>2, <3>5
      <4> QED BY <4>1
    <3>11. x.op = "pop" \/ x.op = "close" BY <3>1
    <3>12. Tracks(x, n, y, G) BY <3>1, <3>7, <3>8, <3>9, <3>10, <3>11 DEF Tracks, JumpOps
    <3>13. ASSUME NEW m \in 1..w PROVE Alive(x, n, m, D, G, B)
      <4>1. m \in Nat /\ m <= w /\ m < h /\ m <= h BY <3>2, <1>1a
      <4>2. m \in D => m \in G[n] BY <4>1, <3>5
      <4> QED BY <4>1, <4>2, <3>1, <3>11 DEF Alive, JumpOps
    <3> QED BY <3>12, <3>13 DEF x
  <2>4. n <= z \/ n > z BY <2>1, <1>1
  <2> QED BY <2>2, <2>3, <2>4
<1>11. D \subseteq 1..w
  <2> SUFFICES ASSUME NEW m \in D PROVE m \in 1..w OBVIOUS
  <2>1. m \in C /\ m <= w OBVIOUS
  <2>2. m \in 1..b BY <2>1, <1>1
  <2> QED BY <2>1, <2>2, <1>1, <1>1a
<1>12. \A m \in 1..w : B[m] <= y + 1
  <2> SUFFICES ASSUME NEW m \in 1..w PROVE B[m] <= y + 1 OBVIOUS
  <2>1. m \in 1..b BY <1>1, <1>1a
  <2>2. B[m] \in Nat /\ B[m] <= z + 1 BY <2>1, <1>1, <1>1b
  <2> QED BY <2>2, <1>1, <1>1a, <1>2
<1>13. CodeTraced(d, w, D, G, B)
  <2>1. y = Len(d) BY DEF y
  <2> QED BY <2>1, <1>1, <1>1a, <1>2, <1>6, <1>9, <1>10, <1>11, <1>12 DEF CodeTraced
<1> QED BY <1>8, <1>13 DEF G, d, z

(* Code in which closures open what they capture, too. *)
CodeOpens(c, b, C, K, B) == CodeTraced(c, b, C, K, B) /\ Opens(c, K)

(* A calm instruction that is no closure. *)
Plain(x, b) == Calm(x, b) /\ x.op # "closure"

(* The instructions that the compiler writes over b locals. *)
LEMMA PlainInstruction ==
    ASSUME NEW b \in Nat, NEW h \in Nat, b <= h, NEW op \in {"push", "return"} PROVE Plain(Instruction(op, h), b)
<1>1. op \in Ops BY DEF Ops
<1> QED BY <1>1, InstructionTypes DEF Plain, Calm, JumpOps

(* The same, of one that pops over them. *)
LEMMA PlainPop ==
    ASSUME NEW b \in Nat, NEW h \in Nat, b < h, NEW op \in {"pop", "define", "return"}
    PROVE  Plain(Instruction(op, h), b)
<1>1. op \in Ops BY DEF Ops
<1> QED BY <1>1, InstructionTypes DEF Plain, Calm, JumpOps

(* The same, of a jump that waits. *)
LEMMA PlainJump ==
    ASSUME NEW b \in Nat, NEW h \in Nat, b <= h, NEW op \in JumpOps
    PROVE  Plain(Jump(op, NoTarget, h), b)
<1>1. op \in Ops /\ NoTarget \in Nat BY DEF Ops, JumpOps, NoTarget
<1> QED BY <1>1, InstructionTypes DEF Plain, Calm, JumpOps

(* Plain instructions are added. *)
LEMMA OpensJoined ==
    ASSUME NEW c, NEW b, NEW C, NEW K, NEW B, CodeOpens(c, b, C, K, B), NEW s \in Seq(Instructions),
           \A i \in 1..Len(s) : Plain(s[i], b)
    PROVE  CodeOpens(c \o s, b, C, K, B)
<1> DEFINE d == c \o s
<1>1. CodeTraced(c, b, C, K, B) /\ Opens(c, K) BY DEF CodeOpens
<1>2. c \in Seq(Instructions) /\ Len(c) \in Nat /\ Len(s) \in Nat BY <1>1, TracedTypes
<1>3. CodeTraced(d, b, C, K, B) BY <1>1, TracedJoined DEF Plain
<1>4. /\ Len(d) = Len(c) + Len(s) /\ \A n \in 1..Len(c) : d[n] = c[n] BY <1>2, Joined
<1>4a. \A i \in 1..Len(s) : d[Len(c) + i] = s[i] BY <1>2, Joined
<1> HIDE DEF d
<1>5. ASSUME NEW n \in 1..Len(d), d[n].op = "closure" PROVE d[n].captures \subseteq K[n + 1]
  <2>1. CASE n \in 1..Len(c) BY <2>1, <1>1, <1>4, <1>5 DEF Opens
  <2>2. CASE n \notin 1..Len(c)
    <3>1. n - Len(c) \in 1..Len(s) /\ Len(c) + (n - Len(c)) = n BY <2>2, <1>2, <1>4
    <3>2. d[n] = s[n - Len(c)] BY <3>1, <1>4a
    <3> QED BY <3>1, <3>2, <1>5 DEF Plain
  <2> QED BY <2>1, <2>2
<1> QED BY <1>3, <1>5 DEF CodeOpens, Opens, d

(* One, two, or three. *)
LEMMA OpensOne ==
    ASSUME NEW c, NEW b, NEW C, NEW K, NEW B, CodeOpens(c, b, C, K, B), NEW x, Plain(x, b)
    PROVE  CodeOpens(c \o <<x>>, b, C, K, B) /\ CodeOpens(Append(c, x), b, C, K, B)
<1> DEFINE s == <<x>>
<1>1. x \in Instructions BY DEF Plain, Calm
<1>2. s \in Seq(Instructions) /\ Len(s) = 1 /\ s[1] = x BY <1>1
<1>3. \A i \in 1..Len(s) : Plain(s[i], b) BY <1>2
<1> HIDE DEF s
<1>4. CodeOpens(c \o s, b, C, K, B) BY <1>2, <1>3, OpensJoined
<1>5. c \in Seq(Instructions) BY TracedTypes DEF CodeOpens
<1>6. c \o <<x>> = Append(c, x) BY ONLY <1>1, <1>5, OneAppended
<1> QED BY <1>4, <1>6 DEF s

(* Two plain instructions. *)
LEMMA OpensTwo ==
    ASSUME NEW c, NEW b, NEW C, NEW K, NEW B, CodeOpens(c, b, C, K, B), NEW x, NEW y,
           Plain(x, b), Plain(y, b)
    PROVE  CodeOpens(c \o <<x, y>>, b, C, K, B)
<1> DEFINE s == <<x, y>>
<1>1. x \in Instructions /\ y \in Instructions BY DEF Plain, Calm
<1>2. s \in Seq(Instructions) /\ Len(s) = 2 /\ s[1] = x /\ s[2] = y BY <1>1
<1> HIDE DEF s
<1>3. \A i \in 1..Len(s) : i = 1 \/ i = 2 BY <1>2
<1>4. \A i \in 1..Len(s) : Plain(s[i], b) BY <1>2, <1>3
<1>5. CodeOpens(c \o s, b, C, K, B) BY <1>2, <1>4, OpensJoined
<1> QED BY <1>5 DEF s

(* Three plain instructions. *)
LEMMA OpensThree ==
    ASSUME NEW c, NEW b, NEW C, NEW K, NEW B, CodeOpens(c, b, C, K, B), NEW x, NEW y, NEW z,
           Plain(x, b), Plain(y, b), Plain(z, b)
    PROVE  CodeOpens(c \o <<x, y, z>>, b, C, K, B)
<1> DEFINE s == <<x, y, z>>
<1>1. x \in Instructions /\ y \in Instructions /\ z \in Instructions BY DEF Plain, Calm
<1>2. s \in Seq(Instructions) /\ Len(s) = 3 /\ s[1] = x /\ s[2] = y /\ s[3] = z BY <1>1
<1> HIDE DEF s
<1>3. \A i \in 1..Len(s) : i = 1 \/ i = 2 \/ i = 3 BY <1>2
<1>4. \A i \in 1..Len(s) : Plain(s[i], b) BY <1>2, <1>3
<1>5. CodeOpens(c \o s, b, C, K, B) BY <1>2, <1>4, OpensJoined
<1> QED BY <1>5 DEF s

(* A jump back. *)
LEMMA OpensLooped ==
    ASSUME NEW c, NEW b, NEW C, NEW K, NEW B, CodeOpens(c, b, C, K, B), NEW t \in 1..(Len(c) + 1),
           \A m \in 1..b : B[m] <= t
    PROVE  CodeOpens(Append(c, Jump("loop", t, b)), b, C, K, B)
<1> DEFINE x == Jump("loop", t, b)
           d == Append(c, x)
<1>1. CodeTraced(c, b, C, K, B) /\ Opens(c, K) BY DEF CodeOpens
<1>2. c \in Seq(Instructions) /\ Len(c) \in Nat /\ b \in Nat BY <1>1, TracedTypes
<1>3. x \in Instructions /\ x.op = "loop" /\ x.height = b /\ x.to = t
      BY <1>2, InstructionTypes DEF Ops
<1> HIDE DEF x
<1>4. CodeTraced(d, b, C, K, B) BY <1>1, <1>2, <1>3, TracedLooped
<1>5. Len(d) = Len(c) + 1 /\ d[Len(c) + 1] = x /\ \A n \in 1..Len(c) : d[n] = c[n]
      BY <1>2, <1>3, Appended
<1> HIDE DEF d
<1>6. \A n \in 1..Len(d) : n \in 1..Len(c) \/ n = Len(c) + 1 BY <1>2, <1>5
<1>7. Opens(d, K) BY <1>1, <1>3, <1>5, <1>6 DEF Opens
<1> QED BY <1>4, <1>7 DEF CodeOpens, d, x

(* patchJump. *)
LEMMA OpensPatched ==
    ASSUME NEW c, NEW b, NEW C, NEW K, NEW B, CodeOpens(c, b, C, K, B), NEW J,
           \A n \in J : n \in 1..Len(c) => K[n] \subseteq C
    PROVE  CodeOpens(Patch(c, J), b, C, K, B) /\ Len(Patch(c, J)) = Len(c)
<1> DEFINE d == Patch(c, J)
<1>1. CodeTraced(c, b, C, K, B) /\ Opens(c, K) BY DEF CodeOpens
<1>2. /\ CodeTraced(d, b, C, K, B) /\ Len(d) = Len(c)
      /\ \A n \in 1..Len(c) : d[n].op = c[n].op /\ d[n].captures = c[n].captures
      BY <1>1, TracedPatched
<1> HIDE DEF d
<1> QED BY <1>1, <1>2 DEF CodeOpens, Opens, d

(* The jumps that are new may be patched. *)
LEMMA PatchNew ==
    ASSUME NEW c, NEW b, NEW C, NEW K, NEW B, CodeOpens(c, b, C, K, B), NEW n \in Nat, n > Len(c)
    PROVE  K[n] = C
BY DEF CodeOpens, CodeTraced

-----------------------------------------------------------------------------
(* The jumps that are still to be patched. *)

(* At such a jump, at n, nothing may be open but captured locals among the   *)
(* first w; the other locals came to be after it.                            *)
Waits(b, C, K, B, n, w) ==
    /\ K[n] \subseteq C /\ \A m \in K[n] : m <= w
    /\ \A m \in 1..b : m > w => n < B[m]

(* The jumps of a statement, and the place where a loop goes back to. *)
EntryWaits(ls, C, K, B, x) ==
    /\ \A n \in x.jumps : Waits(Len(ls), C, K, B, n, Within(ls, x.depth))
    /\ x.kind \in LoopKinds => \A m \in 1..Within(ls, x.depth) : B[m] <= x.start

(* The breaks of a loop. *)
LoopWaits(ls, C, K, B, l) == \A n \in l.breaks : Waits(Len(ls), C, K, B, n, l.base)

(* The locals that are captured. *)
Captured(ls) == {m \in 1..Len(ls) : ls[m].captured}

(* All of the compiler's state. *)
Traced(c, ls, ns, lps, K, B) ==
    /\ CodeOpens(c, Len(ls), Captured(ls), K, B)
    /\ \A i \in 1..Len(ns) : EntryWaits(ls, Captured(ls), K, B, ns[i])
    /\ \A j \in 1..Len(lps) : LoopWaits(ls, Captured(ls), K, B, lps[j])

Traceable(c, ls, ns, lps) == \E K, B : Traced(c, ls, ns, lps, K, B)

(* Jumps that wait go on to, at the places up to z. *)
Fits(b, C, K, B, b2, C2, K2, B2, z) ==
    /\ \A n \in 1..z, w \in 0..b2 : Waits(b, C, K, B, n, w) => Waits(b2, C2, K2, B2, n, w)
    /\ \A m \in 1..b2 : m <= b => B2[m] = B[m]

(* Nothing changes ... *)
LEMMA FitsSame ==
    ASSUME NEW b, NEW C, NEW K, NEW B, NEW z
    PROVE  Fits(b, C, K, B, b, C, K, B, z)
BY DEF Fits

(* ... one change follows another ... *)
LEMMA FitsThen ==
    ASSUME NEW b \in Nat, NEW C, NEW K, NEW B, NEW b1 \in Nat, NEW C1, NEW K1, NEW B1,
           NEW b2 \in Nat, NEW C2, NEW K2, NEW B2, NEW z, b2 <= b1,
           Fits(b, C, K, B, b1, C1, K1, B1, z), Fits(b1, C1, K1, B1, b2, C2, K2, B2, z)
    PROVE  Fits(b, C, K, B, b2, C2, K2, B2, z)
<1>1. \A w \in 0..b2 : w \in 0..b1 OBVIOUS
<1>2. \A n \in 1..z, w \in 0..b2 : Waits(b, C, K, B, n, w) => Waits(b2, C2, K2, B2, n, w)
      BY <1>1 DEF Fits
<1>3. \A m \in 1..b2 : m \in 1..b1 /\ m <= b1 OBVIOUS
<1>4. \A m \in 1..b2 : m <= b => B2[m] = B[m] BY <1>3 DEF Fits
<1> QED BY <1>2, <1>4 DEF Fits

(* ... locals are captured ... *)
LEMMA FitsCaptured ==
    ASSUME NEW c, NEW b, NEW C, NEW K, NEW B, CodeTraced(c, b, C, K, B), NEW D, D \subseteq 1..b,
           NEW z \in Nat
    PROVE  Fits(b, C, K, B, b, C \cup D, Capturing(K, B, D), B, z)
<1> DEFINE G == Capturing(K, B, D)
<1>1. \A n \in Nat : \A m : m \in G[n] <=> m \in K[n] \/ (m \in D /\ B[m] <= n) BY DEF Capturing
<1>2. b \in Nat /\ \A n \in Nat : B[n] \in Nat BY TracedTypes
<1> HIDE DEF G
<1>3. ASSUME NEW n \in 1..z, NEW w \in 0..b, Waits(b, C, K, B, n, w)
      PROVE  Waits(b, C \cup D, G, B, n, w)
  <2>1. /\ K[n] \subseteq C /\ \A m \in K[n] : m <= w
        /\ \A m \in 1..b : m > w => n < B[m]
        BY <1>3 DEF Waits
  <2>2. n \in Nat /\ w \in Nat BY <1>2
  <2>3. G[n] \subseteq C \cup D BY <2>1, <2>2, <1>1
  <2>4. ASSUME NEW m \in G[n] PROVE m <= w
    <3>1. CASE m \in K[n] BY <3>1, <2>1
    <3>2. CASE m \in D /\ B[m] <= n
      <4>0. m \in 1..b BY <3>2
      <4>1. m \in 1..b /\ m \in Nat /\ B[m] \in Nat BY <4>0, <1>2
      <4> QED BY <4>1, <3>2, <2>1, <2>2
    <3> QED BY <3>1, <3>2, <2>2, <1>1
  <2> QED BY <2>1, <2>3, <2>4 DEF Waits
<1> QED BY <1>3 DEF Fits, G

(* ... a local is declared ... *)
LEMMA FitsDeclared ==
    ASSUME NEW c, NEW b, NEW C, NEW K, NEW B, CodeTraced(c, b, C, K, B), NEW z \in Nat, z <= Len(c)
    PROVE  Fits(b, C, K, B, b + 1, C, K, Declaring(c, b, B), z)
<1> DEFINE G == Declaring(c, b, B)
<1>1. G[b + 1] = Len(c) + 1 /\ \A m \in 1..b : G[m] = B[m]
      BY DeclaringAt
<1>1a. b \in Nat /\ Len(c) \in Nat BY TracedTypes
<1> HIDE DEF G
<1>2. \A m \in 1..(b + 1) : m = b + 1 \/ m \in 1..b BY <1>1a
<1>3. ASSUME NEW n \in 1..z, NEW w \in 0..(b + 1), Waits(b, C, K, B, n, w)
      PROVE  Waits(b + 1, C, K, G, n, w)
  <2>1. /\ K[n] \subseteq C /\ \A m \in K[n] : m <= w
        /\ \A m \in 1..b : m > w => n < B[m]
        BY <1>3 DEF Waits
  <2>2. n < G[b + 1] BY <1>1, <1>1a
  <2>3. \A m \in 1..(b + 1) : m > w => n < G[m] BY <2>1, <2>2, <1>1, <1>2
  <2> QED BY <2>1, <2>3 DEF Waits
<1>4. \A m \in 1..(b + 1) : m <= b => G[m] = B[m] BY <1>1, <1>1a, <1>2
<1> QED BY <1>3, <1>4 DEF Fits, G

(* ... or locals are given up: the jumps that wait still may. *)
LEMMA FitsEnded ==
    ASSUME NEW c, NEW b, NEW C, NEW K, NEW B, CodeTraced(c, b, C, K, B), NEW w \in 0..b,
           NEW D, D = {m \in C : m <= w}, NEW z \in Nat, z <= Len(c)
    PROVE  Fits(b, C, K, B, w, D, Ending(c, b, C, w, K), B, z)
<1> DEFINE G == Ending(c, b, C, w, K)
<1>1. b \in Nat /\ Len(c) \in Nat /\ C \subseteq 1..b BY TracedTypes
<1>2. \A n \in 1..z : G[n] = K[n]
  <2>1. \A n \in 1..z : n \in Nat /\ n <= Len(c) BY <1>1
  <2> QED BY <2>1 DEF Ending
<1> HIDE DEF G
<1>3. ASSUME NEW n \in 1..z, NEW v \in 0..w, Waits(b, C, K, B, n, v)
      PROVE  Waits(w, D, G, B, n, v)
  <2>1. /\ K[n] \subseteq C /\ \A m \in K[n] : m <= v
        /\ \A m \in 1..b : m > v => n < B[m]
        BY <1>3 DEF Waits
  <2>2. \A m \in 1..w : m \in 1..b BY <1>1
  <2>3. ASSUME NEW m \in K[n] PROVE m \in D
    <3>1. m \in C /\ m <= v BY <2>1
    <3>2. m \in Nat BY <3>1, <1>1
    <3> QED BY <3>1, <3>2
  <2> QED BY <2>1, <2>2, <2>3, <1>2 DEF Waits
<1> QED BY <1>3 DEF Fits, G

(* A step of the compiler: the statements up to the k-th stay, and wait; the *)
(* others, and the loops that do not stay, wait by themselves.               *)
LEMMA TracedStep ==
    ASSUME NEW c, NEW ls, NEW d, NEW ns, NEW o, NEW lps, Coherent(c, ls, d, ns, o, lps),
           NEW K, NEW B, Traced(c, ls, ns, lps, K, B), NEW c2, NEW l2 \in Seq(LocalSet), NEW n2, NEW lps2,
           NEW k, KeptTo(ns, n2, k), Stays(ls, l2, ns, k), NEW K2, NEW B2,
           CodeOpens(c2, Len(l2), Captured(l2), K2, B2),
           Fits(Len(ls), Captured(ls), K, B, Len(l2), Captured(l2), K2, B2, Len(c)),
           \A i \in 1..Len(n2) : i \in 1..k \/ EntryWaits(l2, Captured(l2), K2, B2, n2[i]),
           \A j \in 1..Len(lps2) :
              \/ \E i \in 1..Len(lps) : lps2[j] = lps[i] /\ lps[i].at <= k
              \/ LoopWaits(l2, Captured(l2), K2, B2, lps2[j])
    PROVE  Traceable(c2, l2, n2, lps2)
<1> DEFINE b == Len(ls)
           C == Captured(ls)
           e == Len(l2)
           E == Captured(l2)
           z == Len(c)
<1>1. /\ ls \in Seq(LocalSet) /\ ns \in Seq(Entries) /\ b \in Nat /\ e \in Nat
      /\ EntriesOK(c, ls, ns) /\ LoopsOK(c, ls, ns, lps)
      BY LocalTypes DEF Coherent, LocalsOK, NestOK
<1>2. /\ \A i \in 1..Len(ns) : EntryWaits(ls, C, K, B, ns[i])
      /\ \A j \in 1..Len(lps) : LoopWaits(ls, C, K, B, lps[j])
      BY DEF Traced
<1>3. \A i \in 1..k : i \in 1..Len(ns)
  <2>1. Len(ns) \in Nat BY <1>1
  <2> QED BY <2>1 DEF KeptTo
<1>4. ASSUME NEW i \in 1..k, ns[i].kind # "block"
      PROVE  Within(l2, ns[i].depth) = Within(ls, ns[i].depth)
             /\ Within(ls, ns[i].depth) \in 0..e /\ Within(ls, ns[i].depth) \in 0..b
  <2>1. ns[i].depth \in Nat BY <1>1, <1>3, NestTypes
  <2>2. Within(l2, ns[i].depth) = Within(ls, ns[i].depth) BY <1>4 DEF Stays
  <2>3. Within(l2, ns[i].depth) \in 0..e /\ Within(ls, ns[i].depth) \in 0..b
        BY <2>1, <1>1, WithinHolds DEF WithinIs
  <2> QED BY <2>2, <2>3
<1>5. ASSUME NEW i \in 1..k PROVE EntryWaits(l2, E, K2, B2, n2[i])
  <2> DEFINE x == ns[i]
             y == n2[i]
  <2>1. y.kind = x.kind /\ y.jumps = x.jumps /\ y.start = x.start /\ y.depth = x.depth
        BY DEF KeptTo
  <2>2. EntryOK(c, b, ls, x) BY <1>1, <1>3 DEF EntriesOK
  <2>3. EntryWaits(ls, C, K, B, x) BY <1>2, <1>3
  <2>4. x.kind # "block" =>
          /\ Within(l2, x.depth) = Within(ls, x.depth)
          /\ Within(ls, x.depth) \in 0..e /\ Within(ls, x.depth) \in 0..b
        BY <1>4
  <2> HIDE DEF x, y, b, C, e, E, z
  <2>5. CASE x.kind = "block"
    <3>1. y.jumps = {} /\ y.kind \notin LoopKinds BY <2>1, <2>2, <2>5 DEF EntryOK, LoopKinds
    <3> QED BY <3>1 DEF EntryWaits, y
  <2>6. CASE x.kind # "block"
    <3> DEFINE w == Within(ls, x.depth)
    <3>1. Within(l2, y.depth) = w /\ w \in 0..e /\ w \in 0..b BY <2>1, <2>4, <2>6
    <3>2. ASSUME NEW n \in x.jumps PROVE Waits(e, E, K2, B2, n, w)
      <4>1. n \in 1..z BY <2>2 DEF EntryOK, z
      <4>2. Waits(b, C, K, B, n, w) BY <2>3 DEF EntryWaits, b
      <4> HIDE DEF w
      <4> QED BY <4>1, <4>2, <3>1 DEF Fits, b, C, e, E, z
    <3>3. ASSUME x.kind \in LoopKinds, NEW m \in 1..w PROVE B2[m] <= x.start
      <4>1. B[m] <= x.start BY <3>3, <2>3 DEF EntryWaits
      <4> HIDE DEF w
      <4>2. m \in 1..e /\ m <= b BY <3>1, <1>1 DEF b, e
      <4>3. B2[m] = B[m] BY <4>2 DEF Fits, b, e
      <4> QED BY <4>1, <4>3
    <3> HIDE DEF w
    <3> QED BY <2>1, <3>1, <3>2, <3>3 DEF EntryWaits, e, E, y
  <2> QED BY <2>5, <2>6
<1>6. ASSUME NEW i \in 1..Len(lps), lps[i].at <= k PROVE LoopWaits(l2, E, K2, B2, lps[i])
  <2> DEFINE l == lps[i]
             w == l.base
  <2>1. LoopOK(c, ls, ns, l) /\ LoopWaits(ls, C, K, B, l) BY <1>1, <1>2 DEF LoopsOK
  <2>2. l.at \in 1..k /\ ns[l.at].kind \in LoopKinds /\ w = Within(ls, ns[l.at].depth)
    <3>1. Len(ns) \in Nat /\ k \in 0..Len(ns) BY <1>1 DEF KeptTo
    <3>2. l.at \in 1..Len(ns) /\ ns[l.at].kind \in LoopKinds /\ w = Within(ls, ns[l.at].depth)
          BY <2>1 DEF LoopOK
    <3>3. l.at <= k BY <1>6
    <3> HIDE DEF l
    <3> QED BY <3>1, <3>2, <3>3
  <2>3. w \in 0..e BY <2>2, <1>4 DEF LoopKinds
  <2> HIDE DEF w, b, C, e, E, z
  <2>4. ASSUME NEW n \in l.breaks PROVE Waits(e, E, K2, B2, n, w)
    <3>1. n \in 1..z BY <2>1 DEF LoopOK, z
    <3>2. Waits(b, C, K, B, n, w) BY <2>1 DEF LoopWaits, b, w
    <3> QED BY <3>1, <3>2, <2>3 DEF Fits, b, C, e, E, z
  <2> QED BY <2>4 DEF LoopWaits, w, e
<1>7. \A i \in 1..Len(n2) : EntryWaits(l2, E, K2, B2, n2[i]) BY <1>5
<1>8. \A j \in 1..Len(lps2) : LoopWaits(l2, E, K2, B2, lps2[j]) BY <1>6
<1>9. Traced(c2, l2, n2, lps2, K2, B2) BY <1>7, <1>8 DEF Traced
<1> QED BY <1>9 DEF Traceable

-----------------------------------------------------------------------------
(* The steps of the compiler, and what may be open. *)

(* What these steps use. *)
LEMMA TraceFacts ==
    ASSUME CompileOK, NEW K, NEW B, Traced(code, locals, nest, loops, K, B), NEW C, C = Captured(locals)
    PROVE  /\ CodeOpens(code, Base, C, K, B) /\ C \subseteq 1..Base
           /\ \A n \in Nat : n > Len(code) => K[n] = C
           /\ \A m \in 1..Base : B[m] \in Nat /\ B[m] <= Len(code) + 1
<1>1. CodeOpens(code, Base, C, K, B) BY DEF Traced, Base
<1>2. CodeTraced(code, Base, C, K, B) BY <1>1 DEF CodeOpens
<1>3. Base \in Nat /\ \A n \in Nat : B[n] \in Nat BY <1>2, TracedTypes
<1>4. \A m \in 1..Base : m \in Nat BY <1>3
<1> QED BY <1>1, <1>2, <1>3, <1>4 DEF CodeTraced

(* The statements that stay wait for what they waited for. *)
LEMMA SameTraced ==
    ASSUME CompileOK, NEW K, NEW B, Traced(code, locals, nest, loops, K, B), NEW C, C = Captured(locals),
           NEW c2, CodeOpens(c2, Base, C, K, B), NEW n2, NEW k, KeptTo(nest, n2, k),
           \A i \in 1..Len(n2) : i \in 1..k \/ EntryWaits(locals, C, K, B, n2[i]), NEW lps2,
           \A j \in 1..Len(lps2) :
              \/ \E i \in 1..Len(loops) : lps2[j] = loops[i] /\ loops[i].at <= k
              \/ LoopWaits(locals, C, K, B, lps2[j])
    PROVE  Traceable(c2, locals, n2, lps2)
<1>1. /\ Coherent(code, locals, scopeDepth, nest, Outside, loops) /\ Base = Len(locals)
      /\ locals \in Seq(LocalSet)
      BY CompileFacts
<1>2. Stays(locals, locals, nest, k) BY DEF Stays
<1>3. Fits(Len(locals), C, K, B, Len(locals), C, K, B, Len(code)) BY FitsSame
<1> QED BY <1>1, <1>2, <1>3, TracedStep

(* All the loops are statements. *)
LEMMA LoopsAt ==
    ASSUME CompileOK
    PROVE  /\ Len(loops) \in Nat /\ Len(nest) \in Nat
           /\ \A j \in 1..Len(loops) : loops[j].at \in 1..Len(nest) /\ loops[j].at <= Len(nest)
<1>1. Coherent(code, locals, scopeDepth, nest, Outside, loops) /\ Len(nest) \in Nat
      /\ loops \in Seq(LoopSet)
      BY CompileFacts
<1>2. \A j \in 1..Len(loops) : loops[j].at \in 1..Len(nest) BY <1>1 DEF Coherent, LoopsOK, LoopOK
<1> QED BY <1>1, <1>2

(* A statement that is complete at once. *)
LEMMA SimpleTraced ==
    ASSUME CompileOK, NEW K, NEW B, Traced(code, locals, nest, loops, K, B), NEW C, C = Captured(locals),
           NEW c2, CodeOpens(c2, Base, C, K, B)
    PROVE  Traceable(c2, locals, Complete(nest), loops)
<1>1. nest \in Seq(Entries) BY CompileFacts
<1>2. KeptTo(nest, Complete(nest), Len(nest)) /\ Len(Complete(nest)) = Len(nest)
      BY <1>1, CompleteKept
<1>3. \A j \in 1..Len(loops) : loops[j].at <= Len(nest) BY LoopsAt
<1> QED BY <1>2, <1>3, SameTraced

(* One more statement is entered; its jumps are new. *)
LEMMA NewWaits ==
    ASSUME NEW c, NEW ls, NEW C, C = Captured(ls), NEW K, NEW B, CodeOpens(c, Len(ls), C, K, B), NEW x,
           Within(ls, x.depth) = Len(ls), \A n \in x.jumps : n \in Nat /\ n > Len(c),
           x.kind \in LoopKinds => x.start \in Nat /\ x.start > Len(c)
    PROVE  EntryWaits(ls, C, K, B, x)
<1> DEFINE b == Len(ls)
<1>1. CodeTraced(c, b, C, K, B) BY DEF CodeOpens
<1>2. b \in Nat /\ C \subseteq 1..b /\ Len(c) \in Nat /\ \A n \in Nat : B[n] \in Nat BY <1>1, TracedTypes
<1>3. ASSUME NEW n \in x.jumps PROVE Waits(b, C, K, B, n, b)
  <2>1. K[n] = C BY <1>1 DEF CodeTraced
  <2> HIDE DEF b
  <2> QED BY <2>1, <1>2 DEF Waits
<1>4. ASSUME x.kind \in LoopKinds, NEW m \in 1..b PROVE B[m] <= x.start
  <2>1. B[m] <= Len(c) + 1 BY <1>1 DEF CodeTraced
  <2>2. m \in Nat BY <1>2
  <2> QED BY <2>1, <2>2, <1>2, <1>4
<1> QED BY <1>3, <1>4 DEF EntryWaits

(* A statement is entered, maybe with a loop of its own. *)
LEMMA EnteredTraced ==
    ASSUME CompileOK, NEW K, NEW B, Traced(code, locals, nest, loops, K, B), NEW C, C = Captured(locals),
           NEW c2, CodeOpens(c2, Base, C, K, B), NEW x, EntryWaits(locals, C, K, B, x), NEW lps2,
           \A j \in 1..Len(lps2) :
              \/ \E i \in 1..Len(loops) : lps2[j] = loops[i]
              \/ LoopWaits(locals, C, K, B, lps2[j])
    PROVE  Traceable(c2, locals, Append(nest, x), lps2)
<1> DEFINE n2 == Append(nest, x)
<1>1. nest \in Seq(Entries) /\ Len(nest) \in Nat BY CompileFacts
<1>2. /\ Len(n2) = Len(nest) + 1 /\ n2[Len(nest) + 1] = x
      /\ \A i \in 1..Len(nest) : n2[i] = nest[i]
      BY <1>1
<1> HIDE DEF n2
<1>3. KeptTo(nest, n2, Len(nest)) BY <1>1, <1>2 DEF KeptTo
<1>4. \A i \in 1..Len(n2) : i \in 1..Len(nest) \/ i = Len(nest) + 1 BY <1>1, <1>2
<1>5. \A i \in 1..Len(n2) : i \in 1..Len(nest) \/ EntryWaits(locals, C, K, B, n2[i]) BY <1>2, <1>4
<1>6. \A i \in 1..Len(loops) : loops[i].at <= Len(nest) BY LoopsAt
<1>7. \A j \in 1..Len(lps2) :
         \/ \E i \in 1..Len(loops) : lps2[j] = loops[i] /\ loops[i].at <= Len(nest)
         \/ LoopWaits(locals, C, K, B, lps2[j])
      BY <1>6
<1>8. Traceable(c2, locals, n2, lps2) BY <1>3, <1>5, <1>7, SameTraced
<1> QED BY <1>8 DEF n2

(* A statement is left where it was the last. *)
LEMMA LeftTraced ==
    ASSUME CompileOK, NEW K, NEW B, Traced(code, locals, nest, loops, K, B), NEW C, C = Captured(locals),
           nest # <<>>, NEW c2, CodeOpens(c2, Base, C, K, B), NEW lps2,
           \A j \in 1..Len(lps2) :
              \E i \in 1..Len(loops) : lps2[j] = loops[i] /\ loops[i].at <= Len(nest) - 1
    PROVE  Traceable(c2, locals, Complete(Front(nest)), lps2)
<1> DEFINE n2 == Complete(Front(nest))
           k == Len(nest) - 1
<1>1. nest \in Seq(Entries) BY CompileFacts
<1>2. Len(n2) = k /\ KeptTo(nest, n2, k) BY <1>1, LeaveKept
<1> HIDE DEF n2, k
<1>3. \A i \in 1..Len(n2) : i \in 1..k \/ EntryWaits(locals, C, K, B, n2[i]) BY <1>2
<1>4. \A j \in 1..Len(lps2) :
         \/ \E i \in 1..Len(loops) : lps2[j] = loops[i] /\ loops[i].at <= k
         \/ LoopWaits(locals, C, K, B, lps2[j])
      BY DEF k
<1>5. Traceable(c2, locals, n2, lps2) BY <1>2, <1>3, <1>4, SameTraced
<1> QED BY <1>5 DEF n2

(* Statements that emit plain code. *)
LEMMA TraceSimple ==
    ASSUME CompileOK, NEW K, NEW B, Traced(code, locals, nest, loops, K, B), NEW c2,
           CodeOpens(c2, Base, Captured(locals), K, B), SimpleStatement(c2)
    PROVE  Traceable(code, locals, nest, loops)'
<1>1. code' = c2 /\ nest' = Complete(nest) /\ locals' = locals /\ loops' = loops
      BY DEF SimpleStatement
<1>2. Traceable(c2, locals, Complete(nest), loops) BY SimpleTraced
<1> QED BY <1>1, <1>2

(* expressionStatement(), and returnStatement(). *)
LEMMA TraceExpressionStatement ==
    ASSUME CompileOK, NEW K, NEW B, Traced(code, locals, nest, loops, K, B),
           ExpressionStatement \/ ReturnStatement
    PROVE  Traceable(code, locals, nest, loops)'
<1> DEFINE C == Captured(locals)
           b == Base
           x == Instruction("push", b)
           y == Instruction("pop", b + 1)
           r == Instruction("return", b + 1)
<1>1. CodeOpens(code, b, C, K, B) /\ b \in Nat /\ code \in Seq(Instructions) BY TraceFacts, CompileFacts
<1>2. Plain(x, b) /\ Plain(y, b) /\ Plain(r, b) BY <1>1, PlainInstruction, PlainPop
<1>3. ExpressionStatement => SimpleStatement(code \o <<x, y>>) BY DEF ExpressionStatement, Discarded
<1>4. ReturnStatement => SimpleStatement(code \o <<x>> \o <<r>>)
      BY DEF ReturnStatement, Expression
<1> HIDE DEF x, y, r, C, b
<1>5. CodeOpens(code \o <<x, y>>, b, C, K, B) BY <1>1, <1>2, OpensTwo
<1>6. CodeOpens(code \o <<x>>, b, C, K, B) BY <1>1, <1>2, OpensOne
<1>7. CodeOpens(code \o <<x>> \o <<r>>, b, C, K, B) BY <1>2, <1>6, OpensOne
<1> QED BY <1>3, <1>4, <1>5, <1>7, TraceSimple DEF C, b

(* The code of a condition. *)
LEMMA TraceCondition ==
    ASSUME NEW b \in Nat, NEW c, NEW C, NEW K, NEW B, CodeOpens(c, b, C, K, B), NEW s,
           s = <<Instruction("push", b), Jump("jumpIfFalse", NoTarget, b + 1), Instruction("pop", b + 1)>>
    PROVE  CodeOpens(c \o s, b, C, K, B)
<1> DEFINE x == Instruction("push", b)
           y == Jump("jumpIfFalse", NoTarget, b + 1)
           z == Instruction("pop", b + 1)
<1>1. Plain(x, b) /\ Plain(y, b) /\ Plain(z, b)
  <2>1. b + 1 \in Nat /\ b < b + 1 /\ b <= b + 1 /\ b <= b OBVIOUS
  <2>2. Plain(x, b) BY <2>1, PlainInstruction
  <2>3. Plain(y, b) BY <2>1, PlainJump DEF JumpOps
  <2>4. Plain(z, b) BY <2>1, PlainPop
  <2> QED BY <2>2, <2>3, <2>4
<1>2. s = <<x, y, z>> OBVIOUS
<1> HIDE DEF x, y, z
<1> QED BY <1>1, <1>2, OpensThree

(* and_(). *)
LEMMA TraceAnd ==
    ASSUME CompileOK, NEW K, NEW B, Traced(code, locals, nest, loops, K, B), And
    PROVE  Traceable(code, locals, nest, loops)'
<1> DEFINE C == Captured(locals)
           b == Base
           x == Instruction("push", b)
           y == Instruction("pop", b + 1)
           n == Len(code) + 2
           c1 == code \o Condition
           c2 == c1 \o <<x>>
           c3 == Patch(c2, {n})
           c4 == c3 \o <<y>>
<1>1. CodeOpens(code, b, C, K, B) /\ b \in Nat /\ Len(code) \in Nat BY TraceFacts, CompileFacts
<1>2. Plain(x, b) /\ Plain(y, b) BY <1>1, PlainInstruction, PlainPop
<1>3. SimpleStatement(c4) BY DEF And, Expression
<1>4. Condition = <<Instruction("push", b), Jump("jumpIfFalse", NoTarget, b + 1), Instruction("pop", b + 1)>>
      BY DEF Condition
<1> HIDE DEF x, y, C, b
<1>5. CodeOpens(c1, b, C, K, B) BY <1>1, <1>4, TraceCondition
<1> HIDE DEF c1
<1>6. CodeOpens(c2, b, C, K, B) BY <1>2, <1>5, OpensOne
<1> HIDE DEF c2
<1>7. K[n] = C BY <1>1, PatchNew
<1> HIDE DEF n
<1>8. CodeOpens(c3, b, C, K, B) BY <1>6, <1>7, OpensPatched
<1> HIDE DEF c3
<1>9. CodeOpens(c4, b, C, K, B) BY <1>2, <1>8, OpensOne
<1> HIDE DEF c4
<1> QED BY <1>3, <1>9, TraceSimple DEF C, b

(* or_(). *)
LEMMA TraceOr ==
    ASSUME CompileOK, NEW K, NEW B, Traced(code, locals, nest, loops, K, B), Or
    PROVE  Traceable(code, locals, nest, loops)'
<1> DEFINE C == Captured(locals)
           b == Base
           x == Instruction("push", b)
           y == Instruction("pop", b + 1)
           u == Jump("jumpIfFalse", NoTarget, b + 1)
           v == Jump("jump", NoTarget, b + 1)
           n == Len(code) + 2
           m == Len(code) + 3
           c1 == code \o <<x>>
           c2 == c1 \o <<u, v>>
           c3 == Patch(c2, {n})
           c4 == c3 \o <<y>>
           c5 == c4 \o <<x>>
           c6 == Patch(c5, {m})
           c7 == c6 \o <<y>>
<1>1. CodeOpens(code, b, C, K, B) /\ b \in Nat /\ Len(code) \in Nat BY TraceFacts, CompileFacts
<1>2. Plain(x, b) /\ Plain(y, b) /\ Plain(u, b) /\ Plain(v, b)
  <2>1. b + 1 \in Nat /\ b < b + 1 /\ b <= b + 1 /\ b <= b BY <1>1
  <2>2. Plain(x, b) /\ Plain(y, b) BY <1>1, <2>1, PlainInstruction, PlainPop
  <2>3. Plain(u, b) /\ Plain(v, b) BY <1>1, <2>1, PlainJump DEF JumpOps
  <2> QED BY <2>2, <2>3
<1>3. SimpleStatement(c7) BY DEF Or, Expression
<1> HIDE DEF x, y, u, v, C, b
<1>4. CodeOpens(c1, b, C, K, B) BY <1>1, <1>2, OpensOne
<1> HIDE DEF c1
<1>5. CodeOpens(c2, b, C, K, B) BY <1>2, <1>4, OpensTwo
<1> HIDE DEF c2
<1>6. K[n] = C /\ K[m] = C
  <2>1. n \in Nat /\ n > Len(code) /\ m \in Nat /\ m > Len(code) BY <1>1
  <2> HIDE DEF n, m
  <2> QED BY <2>1, <1>1, PatchNew
<1> HIDE DEF n, m
<1>7. CodeOpens(c3, b, C, K, B) BY <1>5, <1>6, OpensPatched
<1> HIDE DEF c3
<1>8. CodeOpens(c4, b, C, K, B) BY <1>2, <1>7, OpensOne
<1> HIDE DEF c4
<1>9. CodeOpens(c5, b, C, K, B) BY <1>2, <1>8, OpensOne
<1> HIDE DEF c5
<1>10. CodeOpens(c6, b, C, K, B) BY <1>6, <1>9, OpensPatched
<1> HIDE DEF c6
<1>11. CodeOpens(c7, b, C, K, B) BY <1>2, <1>10, OpensOne
<1> HIDE DEF c7
<1> QED BY <1>3, <1>11, TraceSimple DEF C, b

(* A statement with a condition is entered. *)
LEMMA TraceIf ==
    ASSUME CompileOK, NEW K, NEW B, Traced(code, locals, nest, loops, K, B), If \/ While
    PROVE  Traceable(code, locals, nest, loops)'
<1> DEFINE C == Captured(locals)
           b == Base
           z == Len(code)
           c == code \o Condition
           x(kind, start) == [kind |-> kind, jumps |-> {z + 2}, start |-> start, depth |-> scopeDepth,
                              done |-> FALSE]
           l == [target |-> z + 1, breaks |-> {}, base |-> b, at |-> Len(nest) + 1]
<1>1. /\ CodeOpens(code, b, C, K, B) /\ b \in Nat /\ z \in Nat /\ b = Len(locals)
      /\ Within(locals, scopeDepth) = b /\ loops \in Seq(LoopSet)
      BY TraceFacts, CompileFacts
<1>2. /\ code' = c /\ locals' = locals
      /\ \/ nest' = Append(nest, x("then", 0)) /\ loops' = loops
         \/ nest' = Append(nest, x("while", z + 1)) /\ loops' = Append(loops, l)
      BY DEF If, While, Enter, BeginLoop, Next1
<1>3. Condition = <<Instruction("push", b), Jump("jumpIfFalse", NoTarget, b + 1), Instruction("pop", b + 1)>>
      BY DEF Condition
<1> HIDE DEF C, b
<1>4. CodeOpens(c, b, C, K, B) BY <1>1, <1>3, TraceCondition
<1> HIDE DEF c
<1>5. ASSUME NEW kind, NEW start, kind \in LoopKinds => start = z + 1
      PROVE  EntryWaits(locals, C, K, B, x(kind, start))
  <2> DEFINE y == x(kind, start)
  <2>1. /\ y.kind = kind /\ y.jumps = {z + 2} /\ y.start = start /\ y.depth = scopeDepth
        OBVIOUS
  <2> HIDE DEF y
  <2>2. \A n \in y.jumps : n \in Nat /\ n > Len(code) BY <2>1, <1>1
  <2>3. y.kind \in LoopKinds => y.start \in Nat /\ y.start > Len(code) BY <2>1, <1>1, <1>5
  <2>4. Within(locals, y.depth) = Len(locals) BY <2>1, <1>1
  <2>5. CodeOpens(code, Len(locals), C, K, B) BY <1>1
  <2>6. EntryWaits(locals, C, K, B, y) BY ONLY <2>2, <2>3, <2>4, <2>5, C = Captured(locals), NewWaits DEF C
  <2> QED BY <2>6 DEF y
<1>6. EntryWaits(locals, C, K, B, x("then", 0)) /\ EntryWaits(locals, C, K, B, x("while", z + 1))
      BY <1>5 DEF LoopKinds
<1> HIDE DEF x
<1>7. \A lps2 : lps2 = loops \/ lps2 = Append(loops, l) =>
         \A j \in 1..Len(lps2) :
            \/ \E i \in 1..Len(loops) : lps2[j] = loops[i]
            \/ LoopWaits(locals, C, K, B, lps2[j])
  <2>1. l.breaks = {} OBVIOUS
  <2> HIDE DEF l
  <2>2. LoopWaits(locals, C, K, B, l) BY <2>1 DEF LoopWaits
  <2>3. /\ Len(Append(loops, l)) = Len(loops) + 1 /\ Append(loops, l)[Len(loops) + 1] = l
        /\ \A i \in 1..Len(loops) : Append(loops, l)[i] = loops[i] /\ Len(loops) \in Nat
        BY <1>1
  <2>4. Len(loops) \in Nat BY <1>1
  <2>5. \A j \in 1..(Len(loops) + 1) : j \in 1..Len(loops) \/ j = Len(loops) + 1 BY <2>4
  <2> QED BY <2>2, <2>3, <2>4, <2>5
<1> HIDE DEF l
<1>8. CASE nest' = Append(nest, x("then", 0)) /\ loops' = loops
  <2>1. Traceable(c, locals, Append(nest, x("then", 0)), loops)
        BY <1>4, <1>6, <1>7, EnteredTraced DEF C, b
  <2> QED BY <2>1, <1>2, <1>8
<1>9. CASE nest' = Append(nest, x("while", z + 1)) /\ loops' = Append(loops, l)
  <2> DEFINE lps2 == Append(loops, l)
  <2>1. \A j \in 1..Len(lps2) :
            \/ \E i \in 1..Len(loops) : lps2[j] = loops[i]
            \/ LoopWaits(locals, C, K, B, lps2[j])
        BY <1>7
  <2> HIDE DEF lps2
  <2>2. Traceable(c, locals, Append(nest, x("while", z + 1)), lps2)
        BY <1>4, <1>6, <2>1, EnteredTraced DEF C, b
  <2> QED BY <2>2, <1>2, <1>9 DEF lps2
<1> QED BY <1>2, <1>8, <1>9

(* beginScope(), for a block. *)
LEMMA TraceBeginBlock ==
    ASSUME CompileOK, NEW K, NEW B, Traced(code, locals, nest, loops, K, B), BeginBlock
    PROVE  Traceable(code, locals, nest, loops)'
<1> DEFINE x == [kind |-> "block", jumps |-> {}, start |-> 0, depth |-> scopeDepth + 1, done |-> FALSE]
           C == Captured(locals)
<1>1. code' = code /\ locals' = locals /\ loops' = loops /\ nest' = Append(nest, x)
      BY DEF BeginBlock, Enter
<1>2. x.kind = "block" /\ x.jumps = {} OBVIOUS
<1> HIDE DEF x
<1>3. EntryWaits(locals, C, K, B, x) BY <1>2 DEF EntryWaits, LoopKinds
<1>4. CodeOpens(code, Base, C, K, B) BY TraceFacts
<1>5. \A j \in 1..Len(loops) : \E i \in 1..Len(loops) : loops[j] = loops[i] OBVIOUS
<1> HIDE DEF C
<1>6. Traceable(code, locals, Append(nest, x), loops) BY <1>3, <1>4, <1>5, EnteredTraced DEF C
<1> QED BY <1>1, <1>6

(* The statement that the parser is in. *)
LEMMA LastWaits ==
    ASSUME CompileOK, NEW K, NEW B, Traced(code, locals, nest, loops, K, B), nest # <<>>
    PROVE  /\ \A n \in Last(nest).jumps : K[n] \subseteq Captured(locals)
           /\ Last(nest).kind \in LoopKinds =>
                /\ Last(nest).start \in 1..(Len(code) + 1)
                /\ \A m \in 1..Base : B[m] <= Last(nest).start
<1>1. /\ Last(nest) = nest[Len(nest)] /\ Len(nest) \in 1..Len(nest)
      /\ Within(locals, Last(nest).depth) = Base /\ EntryOK(code, Base, locals, Last(nest))
      BY LastEntry
<1>2. EntryWaits(locals, Captured(locals), K, B, Last(nest)) BY <1>1 DEF Traced
<1> QED BY <1>1, <1>2 DEF EntryWaits, Waits, EntryOK

(* The code at the end of the first branch. *)
LEMMA TraceThen ==
    ASSUME CompileOK, NEW K, NEW B, Traced(code, locals, nest, loops, K, B), nest # <<>>
    PROVE  CodeOpens(ThenCode, Base, Captured(locals), K, B)
<1> DEFINE C == Captured(locals)
           b == Base
           x == Jump("jump", NoTarget, b)
           y == Instruction("pop", b + 1)
           J == Last(nest).jumps
           c1 == Append(code, x)
           c2 == Patch(c1, J)
           c3 == Append(c2, y)
<1>1. CodeOpens(code, b, C, K, B) /\ b \in Nat BY TraceFacts, CompileFacts
<1>2. Plain(x, b) /\ Plain(y, b)
  <2>1. Plain(x, b) BY <1>1, PlainJump DEF JumpOps
  <2>2. b + 1 \in Nat /\ b < b + 1 BY <1>1
  <2>3. Plain(y, b) BY <1>1, <2>2, PlainPop
  <2> QED BY <2>1, <2>3
<1>3. \A n \in J : K[n] \subseteq C BY LastWaits
<1>4. ThenCode = c3 BY DEF ThenCode
<1> HIDE DEF x, y, J, C, b
<1>5. CodeOpens(c1, b, C, K, B) BY <1>1, <1>2, OpensOne
<1> HIDE DEF c1
<1>6. CodeOpens(c2, b, C, K, B) BY <1>3, <1>5, OpensPatched
<1> HIDE DEF c2
<1>7. CodeOpens(c3, b, C, K, B) BY <1>2, <1>6, OpensOne
<1> QED BY <1>4, <1>7 DEF C, b

(* ifStatement(): its else branch starts. *)
LEMMA TraceElse ==
    ASSUME CompileOK, NEW K, NEW B, Traced(code, locals, nest, loops, K, B), Else
    PROVE  Traceable(code, locals, nest, loops)'
<1> DEFINE C == Captured(locals)
           k == Len(nest)
           z == Len(code)
           x == nest[k]
           y == [x EXCEPT !.kind = "else", !.jumps = {z + 1}, !.done = FALSE]
           n2 == [nest EXCEPT ![k] = y]
<1>1. /\ code' = ThenCode /\ locals' = locals /\ loops' = loops /\ nest # <<>>
      /\ Last(nest).kind = "then" /\ nest' = n2
      BY DEF Else, BranchDone, Inside, Next1
<1>2. /\ k \in 1..Len(nest) /\ x \in Entries /\ x = Last(nest) /\ Within(locals, x.depth) = Base
      BY <1>1, LastEntry
<1>3. /\ CodeOpens(code, Base, C, K, B) /\ Base = Len(locals) /\ nest \in Seq(Entries) /\ k \in Nat
      /\ z \in Nat
      BY TraceFacts, CompileFacts
<1> HIDE DEF x
<1>4. y.kind = "else" /\ y.jumps = {z + 1} /\ y.depth = x.depth BY <1>2 DEF Entries
<1> HIDE DEF y
<1>5. Len(n2) = k /\ n2[k] = y /\ \A i \in 1..k : i # k => n2[i] = nest[i] BY <1>2, <1>3
<1> HIDE DEF n2
<1>6. EntryWaits(locals, C, K, B, y)
  <2>1. \A n \in y.jumps : n \in Nat /\ n > Len(code) BY <1>3, <1>4
  <2>2. y.kind \notin LoopKinds BY <1>4 DEF LoopKinds
  <2>3. Within(locals, y.depth) = Len(locals) BY <1>2, <1>3, <1>4
  <2>4. CodeOpens(code, Len(locals), C, K, B) BY <1>3
  <2> QED BY ONLY <2>1, <2>2, <2>3, <2>4, C = Captured(locals), NewWaits DEF C
<1>7. KeptTo(nest, n2, k - 1)
  <2>1. Len(nest) = k /\ k \in Nat /\ k >= 1 BY <1>2, <1>3
  <2> HIDE DEF k
  <2>2. k - 1 \in 0..Len(nest) /\ k - 1 <= Len(n2) BY <2>1, <1>5
  <2>3. \A i \in 1..(k - 1) : n2[i] = nest[i] BY <2>1, <1>5
  <2> QED BY <2>2, <2>3 DEF KeptTo
<1>8. \A i \in 1..Len(n2) : i \in 1..(k - 1) \/ EntryWaits(locals, C, K, B, n2[i])
  <2>1. \A i \in 1..k : i \in 1..(k - 1) \/ i = k BY <1>3
  <2> QED BY <2>1, <1>5, <1>6
<1>9. \A j \in 1..Len(loops) : loops[j].at <= k - 1
  <2> SUFFICES ASSUME NEW j \in 1..Len(loops) PROVE loops[j].at <= k - 1 OBVIOUS
  <2>1. LoopOK(code, locals, nest, loops[j]) BY CompileFacts DEF Coherent, LoopsOK
  <2>2. loops[j].at \in 1..k /\ nest[loops[j].at].kind \in LoopKinds BY <2>1 DEF LoopOK
  <2>3. loops[j].at # k BY <2>2, <1>1, <1>2 DEF LoopKinds, x
  <2> QED BY <2>2, <2>3, <1>3
<1>10. CodeOpens(ThenCode, Base, C, K, B) BY <1>1, TraceThen
<1> HIDE DEF C, k
<1>11. Traceable(ThenCode, locals, n2, loops) BY <1>7, <1>8, <1>9, <1>10, SameTraced DEF C
<1> QED BY <1>1, <1>11

(* The end of an if statement. *)
LEMMA TraceIfDone ==
    ASSUME CompileOK, NEW K, NEW B, Traced(code, locals, nest, loops, K, B), NoElse \/ ElseDone
    PROVE  Traceable(code, locals, nest, loops)'
<1> DEFINE C == Captured(locals)
           c2 == Patch(ThenCode, {Next1(code)})
           c3 == Patch(code, Last(nest).jumps)
<1>1. /\ code' = c2 \/ code' = c3
      /\ locals' = locals /\ loops' = loops /\ nest # <<>>
      /\ Last(nest).kind \in {"then", "else"} /\ nest' = Complete(Front(nest))
      BY DEF NoElse, ElseDone, BranchDone, Inside, Leave
<1>2. CodeOpens(code, Base, C, K, B) /\ Len(code) \in Nat /\ Len(nest) \in Nat BY TraceFacts, CompileFacts
<1>3. CodeOpens(ThenCode, Base, C, K, B) BY <1>1, TraceThen
<1>4. \A n \in Last(nest).jumps : K[n] \subseteq C BY <1>1, LastWaits
<1>5. \A j \in 1..Len(loops) : loops[j].at <= Len(nest) - 1
  <2> SUFFICES ASSUME NEW j \in 1..Len(loops) PROVE loops[j].at <= Len(nest) - 1 OBVIOUS
  <2>1. LoopOK(code, locals, nest, loops[j]) BY CompileFacts DEF Coherent, LoopsOK
  <2>2. loops[j].at \in 1..Len(nest) /\ nest[loops[j].at].kind \in LoopKinds BY <2>1 DEF LoopOK
  <2>3. Last(nest) = nest[Len(nest)] BY <1>1, LastEntry
  <2>4. loops[j].at # Len(nest) BY <2>2, <2>3, <1>1 DEF LoopKinds
  <2> QED BY <2>2, <2>4, <1>2
<1> HIDE DEF C
<1>6. CodeOpens(c3, Base, C, K, B) BY <1>2, <1>4, OpensPatched
<1>7. CodeOpens(c2, Base, C, K, B)
  <2>1. K[Next1(code)] = C BY <1>2, PatchNew DEF Next1
  <2> QED BY <2>1, <1>3, OpensPatched
<1> HIDE DEF c2, c3
<1>8. CodeOpens(code', Base, C, K, B) BY <1>1, <1>6, <1>7
<1>9. Traceable(code', locals, Complete(Front(nest)), loops)
      BY <1>1, <1>5, <1>8, LeftTraced DEF C
<1> QED BY <1>1, <1>9

(* The code at the end of a loop. *)
LEMMA TraceLoopEnd ==
    ASSUME CompileOK, NEW K, NEW B, Traced(code, locals, nest, loops, K, B), nest # <<>>,
           Last(nest).kind \in LoopKinds
    PROVE  CodeOpens(EndLoop(LoopEnd), Base, Captured(locals), K, B)
<1> DEFINE C == Captured(locals)
           b == Base
           J == Last(nest).jumps
           L == Last(loops).breaks
           t == Last(nest).start
           x == Jump("loop", t, b)
           y == Instruction("pop", b + 1)
           c1 == Append(code, x)
           c2 == Patch(c1, J)
           c3 == Append(c2, y)
           c4 == LoopEnd
           c5 == EndLoop(LoopEnd)
<1>1. CodeOpens(code, b, C, K, B) /\ b \in Nat BY TraceFacts, CompileFacts
<1>2. /\ \A n \in J : K[n] \subseteq C
      /\ t \in 1..(Len(code) + 1) /\ \A m \in 1..b : B[m] <= t
      BY LastWaits
<1>3. \A n \in L : K[n] \subseteq C
  <2>1. Coherent(code, locals, scopeDepth, nest, Outside, loops) BY CompileFacts
  <2>2. Last(loops) = loops[Len(loops)] /\ Len(loops) \in Nat \ {0} BY <2>1, InnermostLoop
  <2>3. LoopWaits(locals, C, K, B, loops[Len(loops)]) BY <2>2 DEF Traced
  <2> QED BY <2>2, <2>3 DEF LoopWaits, Waits
<1>4. Plain(y, b)
  <2>1. b + 1 \in Nat /\ b < b + 1 BY <1>1
  <2> QED BY <1>1, <2>1, PlainPop
<1>5. c4 = IF J = {} THEN c1 ELSE c3 BY DEF LoopEnd
<1>6. c5 = Patch(c4, L) BY DEF EndLoop
<1> HIDE DEF c4, c5
<1>7. CodeOpens(c1, b, C, K, B)
  <2> HIDE DEF t, b, C
  <2> QED BY <1>1, <1>2, OpensLooped
<1> HIDE DEF x, y, J, L, C, b, c1
<1>8. CodeOpens(c2, b, C, K, B) BY <1>2, <1>7, OpensPatched
<1> HIDE DEF c2
<1>9. CodeOpens(c3, b, C, K, B) BY <1>4, <1>8, OpensOne
<1> HIDE DEF c3
<1>10. CodeOpens(c4, b, C, K, B) BY <1>5, <1>7, <1>9
<1>11. CodeOpens(c5, b, C, K, B) BY <1>3, <1>6, <1>10, OpensPatched
<1> QED BY <1>11 DEF C, b, c5

(* The loops that are left. *)
LEMMA OuterLoops ==
    ASSUME CompileOK, nest # <<>>, Last(nest).kind \in LoopKinds
    PROVE  /\ Len(Front(loops)) = Len(loops) - 1
           /\ \A j \in 1..Len(Front(loops)) :
                \E i \in 1..Len(loops) : Front(loops)[j] = loops[i] /\ loops[i].at <= Len(nest) - 1
<1>1. Coherent(code, locals, scopeDepth, nest, Outside, loops) /\ loops \in Seq(LoopSet)
      BY CompileFacts
<1>2. /\ Len(loops) \in Nat \ {0}
      /\ \A j \in 1..(Len(loops) - 1) : loops[j].at <= Len(nest) - 1
      BY <1>1, InnermostLoop
<1>3. Front(loops) = SubSeq(loops, 1, Len(loops) - 1) /\ Len(loops) - 1 \in 0..Len(loops)
      BY <1>2 DEF Front
<1>4. /\ Len(Front(loops)) = Len(loops) - 1
      /\ \A j \in 1..(Len(loops) - 1) : Front(loops)[j] = loops[j]
      BY <1>1, <1>3, Prefix
<1>5. \A j \in 1..(Len(loops) - 1) : j \in 1..Len(loops) BY <1>2
<1> QED BY <1>2, <1>4, <1>5

(* whileStatement(): the end of the loop. *)
LEMMA TraceWhileDone ==
    ASSUME CompileOK, NEW K, NEW B, Traced(code, locals, nest, loops, K, B), WhileDone
    PROVE  Traceable(code, locals, nest, loops)'
<1>1. /\ code' = EndLoop(LoopEnd) /\ nest' = Complete(Front(nest)) /\ locals' = locals
      /\ nest # <<>> /\ Last(nest).kind \in LoopKinds /\ loops' = Front(loops)
      BY DEF WhileDone, BranchDone, Inside, Leave, LoopKinds
<1>2. CodeOpens(EndLoop(LoopEnd), Base, Captured(locals), K, B) BY <1>1, TraceLoopEnd
<1>3. \A j \in 1..Len(Front(loops)) :
         \E i \in 1..Len(loops) : Front(loops)[j] = loops[i] /\ loops[i].at <= Len(nest) - 1
      BY <1>1, OuterLoops
<1>4. Traceable(EndLoop(LoopEnd), locals, Complete(Front(nest)), Front(loops))
      BY <1>1, <1>2, <1>3, LeftTraced
<1> QED BY <1>1, <1>4

(* All the locals that there are when a loop is continued were there when it *)
(* started, if it is not left from where its body has locals.                *)
LEMMA TraceContinueStatement ==
    ASSUME CleanExits, CompileOK, NEW K, NEW B, Traced(code, locals, nest, loops, K, B),
           ContinueStatement
    PROVE  Traceable(code, locals, nest, loops)'
<1> DEFINE l == Last(loops)
           t == l.target
           b == Base
           i == l.at
           C == Captured(locals)
           c == Append(code, Jump("loop", t, b))
<1>1. SimpleStatement(c) /\ loops # <<>> /\ b = l.base BY DEF ContinueStatement, InLoop
<1>2. CodeOpens(code, b, C, K, B) /\ loops \in Seq(LoopSet) BY TraceFacts, CompileFacts
<1>3. t \in 1..(Len(code) + 1) BY <1>1, LoopTarget
<1>4. Len(loops) \in 1..Len(loops) /\ l = loops[Len(loops)] BY <1>1, <1>2 DEF Last
<1>5. LoopOK(code, locals, nest, l)
  <2>1. LoopsOK(code, locals, nest, loops) BY CompileFacts DEF Coherent
  <2> QED BY <2>1, <1>4 DEF LoopsOK
<1> HIDE DEF l
<1>6. /\ i \in 1..Len(nest) /\ nest[i].kind \in LoopKinds /\ t = nest[i].start
      /\ b = Within(locals, nest[i].depth)
      BY <1>1, <1>5 DEF LoopOK
<1>7. EntryWaits(locals, C, K, B, nest[i]) BY <1>6 DEF Traced
<1>8. \A m \in 1..b : B[m] <= t BY <1>6, <1>7 DEF EntryWaits
<1> HIDE DEF t, b, C
<1>9. CodeOpens(c, b, C, K, B) BY <1>2, <1>3, <1>8, OpensLooped
<1> HIDE DEF c
<1> QED BY <1>1, <1>9, TraceSimple DEF C, b

(* breakStatement(): the jump waits with the loop that it leaves. *)
LEMMA TraceBreakStatement ==
    ASSUME CleanExits, CompileOK, NEW K, NEW B, Traced(code, locals, nest, loops, K, B),
           BreakStatement
    PROVE  Traceable(code, locals, nest, loops)'
<1> DEFINE k == Len(loops)
           l == loops[k]
           z == Len(code)
           b == Base
           C == Captured(locals)
           x == Jump("jump", NoTarget, b)
           l2 == [l EXCEPT !.breaks = @ \cup {z + 1}]
           lps2 == [loops EXCEPT ![k] = l2]
           c == Append(code, x)
<1>1. /\ code' = c /\ nest' = Complete(nest) /\ locals' = locals /\ loops # <<>>
      /\ b = Last(loops).base /\ loops' = [loops EXCEPT ![k].breaks = @ \cup {z + 1}]
      BY DEF BreakStatement, InLoop, Next1
<1>1a. loops' = lps2 BY <1>1
<1>2. /\ CodeOpens(code, b, C, K, B) /\ C \subseteq 1..b /\ b \in Nat /\ z \in Nat /\ b = Len(locals)
      /\ loops \in Seq(LoopSet) /\ nest \in Seq(Entries)
      BY TraceFacts, CompileFacts
<1>3. k \in 1..k /\ k \in Nat /\ l = Last(loops) /\ l \in LoopSet BY <1>1, <1>2 DEF Last
<1>4. Plain(x, b) BY <1>2, PlainJump DEF JumpOps
<1>5. LoopWaits(locals, C, K, B, l) BY <1>3 DEF Traced
<1> HIDE DEF x
<1>6. CodeOpens(c, b, C, K, B) BY <1>2, <1>4, OpensOne
<1> HIDE DEF c, l
<1>7. l2.breaks = l.breaks \cup {z + 1} /\ l2.base = b BY <1>1, <1>3 DEF LoopSet
<1> HIDE DEF l2
<1>8. K[z + 1] = C BY <1>2, PatchNew
<1>9. Waits(b, C, K, B, z + 1, b)
  <2> HIDE DEF b, C, z
  <2>1. \A m \in C : m <= b BY <1>2
  <2>2. \A m \in 1..b : ~(m > b) BY <1>2
  <2> QED BY <2>1, <2>2, <1>8 DEF Waits
<1>10. LoopWaits(locals, C, K, B, l2) BY <1>1, <1>2, <1>3, <1>5, <1>7, <1>9 DEF LoopWaits
<1>11. Len(lps2) = k /\ lps2[k] = l2 /\ \A j \in 1..k : j # k => lps2[j] = loops[j] BY <1>2, <1>3
<1> HIDE DEF lps2
<1>12. KeptTo(nest, Complete(nest), Len(nest)) /\ Len(Complete(nest)) = Len(nest)
       BY <1>2, CompleteKept
<1>13. \A j \in 1..k : loops[j].at <= Len(nest) BY LoopsAt
<1>14. \A j \in 1..Len(lps2) :
          \/ \E i \in 1..Len(loops) : lps2[j] = loops[i] /\ loops[i].at <= Len(nest)
          \/ LoopWaits(locals, C, K, B, lps2[j])
       BY <1>10, <1>11, <1>13
<1> HIDE DEF k, b, C
<1>15. Traceable(c, locals, Complete(nest), lps2) BY <1>6, <1>12, <1>14, SameTraced DEF C, b
<1> QED BY <1>1, <1>1a, <1>15

(* The locals over the first w are given up, the captured ones closed. *)
GivesUp(s, b, w, C) ==
    /\ w \in 0..b /\ s \in Seq(Instructions) /\ Len(s) = b - w
    /\ \A i \in 1..Len(s) : /\ s[i].height = b - i + 1
                            /\ s[i].op = IF b - i + 1 \in C THEN "close" ELSE "pop"

(* What endScope emits. *)
LEMMA PopsAre ==
    ASSUME NEW ls, ls = locals, NEW d \in Nat, LocalsOK(ls, d), NEW e \in Nat, NEW w, w = Outer(e),
           NEW s, s = Pops(e), NEW b, b = Len(ls)
    PROVE  GivesUp(s, b, w, Captured(ls))
<1>1. b \in Nat /\ w \in 0..b
  <2>1. ls \in Seq(LocalSet) BY DEF LocalsOK
  <2>2. w = Within(ls, e) BY DEF Outer, Within
  <2> QED BY <2>1, <2>2, WithinHolds DEF WithinIs
<1> DEFINE op(m) == IF ls[b - m + 1].captured THEN "close" ELSE "pop"
<1>2. s = [m \in 1..(b - w) |-> Instruction(op(m), b - m + 1)] BY DEF Pops
<1>3. ASSUME NEW m \in 1..(b - w)
      PROVE  /\ op(m) \in Ops /\ op(m) = IF b - m + 1 \in Captured(ls) THEN "close" ELSE "pop"
             /\ b - m + 1 \in Nat
  <2>1. b - m + 1 \in 1..b /\ b - m + 1 \in Nat BY <1>1
  <2>2. b - m + 1 \in Captured(ls) <=> ls[b - m + 1].captured BY <2>1 DEF Captured
  <2> QED BY <2>1, <2>2 DEF Ops
<1> HIDE DEF op
<1>4. ASSUME NEW m \in 1..(b - w)
      PROVE  /\ s[m] \in Instructions /\ s[m].op = op(m) /\ s[m].height = b - m + 1
  <2>1. s[m] = Instruction(op(m), b - m + 1) BY <1>2
  <2> QED BY <2>1, <1>3, InstructionTypes
<1>5. b - w \in Nat /\ DOMAIN s = 1..(b - w) /\ s = [m \in 1..(b - w) |-> s[m]] BY <1>1, <1>2
<1>6. s \in Seq(Instructions) /\ Len(s) = b - w
  <2>1. \A m \in 1..(b - w) : s[m] \in Instructions BY <1>4
  <2> QED BY ONLY <1>5, <2>1
<1> QED BY <1>1, <1>3, <1>4, <1>6 DEF GivesUp

(* A scope ends, after the code c of its statement. *)
LEMMA TraceEnded ==
    ASSUME CompileOK, NEW K, NEW B, Traced(code, locals, nest, loops, K, B), nest # <<>>,
           Last(nest).kind \in Scoped, NEW c, CodeOpens(c, Base, Captured(locals), K, B), Flow(c, Base),
           Len(code) <= Len(c), NEW e, e = scopeDepth - 1, NEW l2, l2 = SubSeq(locals, 1, Outer(e)),
           NEW lps2, \A j \in 1..Len(lps2) :
              \E i \in 1..Len(loops) : lps2[j] = loops[i] /\ loops[i].at <= Len(nest) - 1
    PROVE  Traceable(c \o Pops(e), l2, Complete(Front(nest)), lps2)
<1> DEFINE b == Base
           C == Captured(locals)
           w == Outer(e)
           s == Pops(e)
           d == c \o s
           D == {m \in C : m <= w}
           G == Ending(c, b, C, w, K)
           n2 == Complete(Front(nest))
           k == Len(nest) - 1
<1>1. /\ locals \in Seq(LocalSet) /\ LocalsOK(locals, scopeDepth) /\ scopeDepth \in Nat
      /\ nest \in Seq(Entries) /\ b = Len(locals) /\ b \in Nat /\ Len(code) \in Nat
      /\ Coherent(code, locals, scopeDepth, nest, Outside, loops)
      /\ NestOK(nest, Outside, scopeDepth)
      BY CompileFacts
<1>2. LocalsOK(l2, e) /\ Stays(locals, l2, nest, k) BY ScopeEnded
<1>3. e \in Nat
  <2>1. NestOK(n2, Outside, e) BY <1>1, NestLeft
  <2> QED BY <2>1, NestDepth
<1>4. /\ w \in 0..b /\ s \in Seq(Instructions) /\ Len(s) = b - w
      /\ \A i \in 1..Len(s) : /\ s[i].height = b - i + 1
                              /\ s[i].op = IF b - i + 1 \in C THEN "close" ELSE "pop"
  <2>1. LocalsOK(locals, scopeDepth) /\ scopeDepth \in Nat /\ e \in Nat BY <1>1, <1>3
  <2>2. w = Outer(e) /\ s = Pops(e) /\ b = Len(locals) /\ C = Captured(locals) BY <1>1
  <2> HIDE DEF w, s, b, C
  <2>3. GivesUp(s, b, w, Captured(locals)) BY ONLY <2>1, <2>2, PopsAre
  <2> QED BY <2>2, <2>3 DEF GivesUp
<1> HIDE DEF w, s
<1>5. /\ l2 \in Seq(LocalSet) /\ Len(l2) = w /\ \A m \in 1..w : l2[m] = locals[m]
  <2>1. l2 = SubSeq(locals, 1, w) /\ w \in 0..Len(locals) BY <1>1, <1>4 DEF w
  <2>2. locals \in Seq(LocalSet) BY <1>1
  <2> QED BY ONLY <2>1, <2>2, Prefix
<1>6. Captured(l2) = D
  <2>1. ASSUME NEW m PROVE m \in Captured(l2) <=> m \in D
    <3>1. m \in 1..w => m \in 1..b /\ l2[m] = locals[m] /\ m <= w BY <1>1, <1>4, <1>5
    <3>2. m \in 1..b /\ m <= w => m \in 1..w BY <1>1, <1>4
    <3> QED BY <3>1, <3>2, <1>1, <1>5 DEF Captured
  <2> QED BY <2>1
<1>7. CodeTraced(c, b, C, K, B) /\ Opens(c, K) BY DEF CodeOpens
<1>8. c \in Seq(Instructions) /\ Len(c) \in Nat BY <1>7, TracedTypes
<1>9. CodeTraced(d, w, D, G, B) /\ \A n \in 1..(Len(c) + 1) : G[n] = K[n]
  <2>1. D = {m \in C : m <= w} OBVIOUS
  <2> HIDE DEF D, b, C
  <2> QED BY ONLY <2>1, <1>4, <1>7, TracedEnded
<1>10. Fits(b, C, K, B, w, D, G, B, Len(code))
  <2>1. D = {m \in C : m <= w} OBVIOUS
  <2> HIDE DEF D, b, C
  <2> QED BY <2>1, <1>1, <1>4, <1>7, FitsEnded
<1> HIDE DEF D, G
<1>11. Opens(d, G)
  <2>0. c \in Seq(Instructions) /\ s \in Seq(Instructions) BY <1>4, <1>8
  <2>1. Len(d) = Len(c) + Len(s) /\ \A n \in 1..Len(c) : d[n] = c[n] BY ONLY <2>0, Joined
  <2>2. \A i \in 1..Len(s) : d[Len(c) + i] = s[i] BY ONLY <2>0, Joined
  <2> HIDE DEF d
  <2>3. ASSUME NEW n \in 1..Len(d), d[n].op = "closure" PROVE d[n].captures \subseteq G[n + 1]
    <3>1. CASE n \in 1..Len(c)
      <4>1. n + 1 \in 1..(Len(c) + 1) BY <3>1, <1>8
      <4>2. G[n + 1] = K[n + 1] BY <4>1, <1>9
      <4> QED BY <4>2, <3>1, <2>1, <2>3, <1>7 DEF Opens
    <3>2. CASE n \notin 1..Len(c)
      <4>1. Len(s) \in Nat BY <1>4
      <4>2. n - Len(c) \in 1..Len(s) /\ Len(c) + (n - Len(c)) = n BY <3>2, <4>1, <1>8, <2>1
      <4>3. d[n] = s[n - Len(c)] BY <4>2, <2>2
      <4>4. s[n - Len(c)].op # "closure" BY <4>2, <1>4
      <4> QED BY <4>3, <4>4, <2>3
    <3> QED BY <3>1, <3>2
  <2> QED BY <2>3 DEF Opens
<1>12. CodeOpens(d, Len(l2), Captured(l2), G, B) BY <1>5, <1>6, <1>9, <1>11 DEF CodeOpens
<1>13. Fits(Len(locals), Captured(locals), K, B, Len(l2), Captured(l2), G, B, Len(code))
       BY <1>1, <1>5, <1>6, <1>10
<1>14. Len(n2) = k /\ KeptTo(nest, n2, k) BY <1>1, LeaveKept
<1> HIDE DEF n2, k, d
<1>15. \A i \in 1..Len(n2) : i \in 1..k \/ EntryWaits(l2, Captured(l2), G, B, n2[i]) BY <1>14
<1>16. \A j \in 1..Len(lps2) :
          \/ \E i \in 1..Len(loops) : lps2[j] = loops[i] /\ loops[i].at <= k
          \/ LoopWaits(l2, Captured(l2), G, B, lps2[j])
       BY DEF k
<1>17. Traceable(d, l2, n2, lps2)
       BY ONLY <1>1, <1>2, <1>5, <1>12, <1>13, <1>14, <1>15, <1>16, TracedStep,
               Traced(code, locals, nest, loops, K, B)
<1> QED BY <1>17 DEF d, s, n2

(* endScope(), for a block. *)
LEMMA TraceEndBlock ==
    ASSUME CompileOK, NEW K, NEW B, Traced(code, locals, nest, loops, K, B), EndBlock
    PROVE  Traceable(code, locals, nest, loops)'
<1> DEFINE e == scopeDepth - 1
           l2 == SubSeq(locals, 1, Outer(e))
           c2 == code \o Pops(e)
           n2 == Complete(Front(nest))
<1>1. /\ code' = c2 /\ locals' = l2 /\ nest' = n2 /\ loops' = loops
      /\ nest # <<>> /\ Last(nest).kind = "block"
      BY DEF EndBlock, EndScope, Inside, Leave
<1>2. Last(nest).kind \in Scoped BY <1>1 DEF Scoped
<1>3. /\ Flow(code, Base) /\ Len(code) \in Nat /\ Len(nest) \in Nat
      /\ CodeOpens(code, Base, Captured(locals), K, B)
      BY TraceFacts, CompileFacts
<1>4. \A j \in 1..Len(loops) : loops[j].at <= Len(nest) - 1
  <2> SUFFICES ASSUME NEW j \in 1..Len(loops) PROVE loops[j].at <= Len(nest) - 1 OBVIOUS
  <2>1. LoopOK(code, locals, nest, loops[j]) BY CompileFacts DEF Coherent, LoopsOK
  <2>2. loops[j].at \in 1..Len(nest) /\ nest[loops[j].at].kind \in LoopKinds BY <2>1 DEF LoopOK
  <2>3. Last(nest) = nest[Len(nest)] BY <1>1, LastEntry
  <2>4. loops[j].at # Len(nest) BY <2>2, <2>3, <1>1 DEF LoopKinds
  <2> QED BY <2>2, <2>4, <1>3
<1>5. \A j \in 1..Len(loops) :
         \E i \in 1..Len(loops) : loops[j] = loops[i] /\ loops[i].at <= Len(nest) - 1
      BY <1>4
<1>6. e = scopeDepth - 1 /\ l2 = SubSeq(locals, 1, Outer(e)) OBVIOUS
<1> HIDE DEF e, l2
<1>6a. Len(code) <= Len(code) BY <1>3
<1>7. Traceable(c2, l2, n2, loops)
      BY ONLY CompileOK, Traced(code, locals, nest, loops, K, B), <1>1, <1>2, <1>3, <1>5, <1>6, <1>6a,
              TraceEnded
<1> HIDE DEF c2, n2
<1> QED BY <1>1, <1>7

(* forStatement(): the end of the loop and of its scope. *)
LEMMA TraceForDone ==
    ASSUME CompileOK, NEW K, NEW B, Traced(code, locals, nest, loops, K, B), ForDone
    PROVE  Traceable(code, locals, nest, loops)'
<1> DEFINE e == scopeDepth - 1
           l2 == SubSeq(locals, 1, Outer(e))
           c == EndLoop(LoopEnd)
           c2 == c \o Pops(e)
           n2 == Complete(Front(nest))
<1>1. /\ code' = c2 /\ locals' = l2 /\ nest' = n2 /\ loops' = Front(loops)
      /\ nest # <<>> /\ Last(nest).kind = "for"
      BY DEF ForDone, BranchDone, EndScope, Inside, Leave
<1>2. Last(nest).kind \in Scoped /\ Last(nest).kind \in LoopKinds BY <1>1 DEF Scoped, LoopKinds
<1>3. CodeOpens(c, Base, Captured(locals), K, B) BY <1>1, <1>2, TraceLoopEnd
<1>4. Flow(c, Base) /\ Len(code) <= Len(c) BY <1>1, <1>2, LoopEndGrown DEF Grown
<1>5. \A j \in 1..Len(Front(loops)) :
         \E i \in 1..Len(loops) : Front(loops)[j] = loops[i] /\ loops[i].at <= Len(nest) - 1
      BY <1>1, <1>2, OuterLoops
<1>6. e = scopeDepth - 1 /\ l2 = SubSeq(locals, 1, Outer(e)) OBVIOUS
<1> HIDE DEF e, l2, c
<1>7. Traceable(c2, l2, n2, Front(loops)) BY <1>1, <1>2, <1>3, <1>4, <1>5, <1>6, TraceEnded
<1> HIDE DEF c2, n2
<1> QED BY <1>1, <1>7

(* A declaration: the code c2, and the locals that are captured. *)
LEMMA CapturingOpens ==
    ASSUME NEW c, NEW b, NEW C, NEW K, NEW B, CodeTraced(c, b, C, K, B), NEW D, D \subseteq 1..b,
           \A n \in 1..Len(c) : c[n].op = "closure" =>
              \/ c[n].captures \subseteq K[n + 1]
              \/ c[n].captures \subseteq D /\ \A m \in D : B[m] <= n + 1
    PROVE  CodeOpens(c, b, C \cup D, Capturing(K, B, D), B)
<1> DEFINE G == Capturing(K, B, D)
<1>1. CodeTraced(c, b, C \cup D, G, B) BY TracedCaptured
<1>2. \A n \in Nat : \A m : m \in G[n] <=> m \in K[n] \/ (m \in D /\ B[m] <= n) BY DEF Capturing
<1>3. Len(c) \in Nat BY TracedTypes
<1> HIDE DEF G
<1>4. ASSUME NEW n \in 1..Len(c), c[n].op = "closure" PROVE c[n].captures \subseteq G[n + 1]
  <2>1. n + 1 \in Nat BY <1>3
  <2>2. \/ c[n].captures \subseteq K[n + 1]
        \/ c[n].captures \subseteq D /\ \A m \in D : B[m] <= n + 1
        BY <1>4
  <2> QED BY <2>1, <2>2, <1>2
<1> QED BY <1>1, <1>4 DEF CodeOpens, Opens, G

(* The statements stay what they are when something is declared. *)
LEMMA TraceDeclared ==
    ASSUME CompileOK, NEW K, NEW B, Traced(code, locals, nest, loops, K, B),
           nest # <<>> => Last(nest).kind = "block", NEW l2 \in Seq(LocalSet),
           Stays(locals, l2, nest, Len(nest)), NEW c2, NEW K2, NEW B2,
           CodeOpens(c2, Len(l2), Captured(l2), K2, B2),
           Fits(Len(locals), Captured(locals), K, B, Len(l2), Captured(l2), K2, B2, Len(code))
    PROVE  Traceable(c2, l2, nest, loops)
<1>1. Coherent(code, locals, scopeDepth, nest, Outside, loops) /\ nest \in Seq(Entries)
      BY CompileFacts
<1>2. KeptTo(nest, nest, Len(nest)) BY <1>1, NestTypes DEF KeptTo
<1>3. \A j \in 1..Len(loops) : \E i \in 1..Len(loops) : loops[j] = loops[i] /\ loops[i].at <= Len(nest)
      BY LoopsAt
<1>4. \A i \in 1..Len(nest) : i \in 1..Len(nest) \/ EntryWaits(l2, Captured(l2), K2, B2, nest[i])
      OBVIOUS
<1>5. \A j \in 1..Len(loops) :
         \/ \E i \in 1..Len(loops) : loops[j] = loops[i] /\ loops[i].at <= Len(nest)
         \/ LoopWaits(l2, Captured(l2), K2, B2, loops[j])
      BY <1>3
<1>6. /\ CodeOpens(c2, Len(l2), Captured(l2), K2, B2) /\ l2 \in Seq(LocalSet)
      /\ Fits(Len(locals), Captured(locals), K, B, Len(l2), Captured(l2), K2, B2, Len(code))
      /\ Stays(locals, l2, nest, Len(nest)) /\ Traced(code, locals, nest, loops, K, B)
      OBVIOUS
<1> QED BY ONLY <1>1, <1>2, <1>4, <1>5, <1>6, TracedStep

(* varDeclaration(). *)
LEMMA TraceVarDeclaration ==
    ASSUME CompileOK, NEW K, NEW B, Traced(code, locals, nest, loops, K, B), VarDeclaration
    PROVE  Traceable(code, locals, nest, loops)'
<1> DEFINE C == Captured(locals)
           b == Base
           x == Instruction("push", b)
           y == Instruction("define", b + 1)
           v == [depth |-> scopeDepth, captured |-> FALSE]
           c == code \o <<x>>
           l2 == Append(locals, v)
           G == Declaring(c, b, B)
<1>1. /\ nest' = nest /\ loops' = loops /\ (nest # <<>> => Last(nest).kind = "block")
      /\ \/ code' = c /\ locals' = l2
         \/ code' = c \o <<y>> /\ locals' = locals
      BY DEF VarDeclaration, NewDeclaration, AddLocal, Expression
<1>2. /\ CodeOpens(code, b, C, K, B) /\ b \in Nat /\ b = Len(locals) /\ locals \in Seq(LocalSet)
      /\ Len(code) \in Nat /\ scopeDepth \in Nat /\ nest \in Seq(Entries) /\ code \in Seq(Instructions)
      BY TraceFacts, CompileFacts
<1>3. Plain(x, b) /\ Plain(y, b)
  <2>1. b + 1 \in Nat /\ b < b + 1 /\ b <= b BY <1>2
  <2> QED BY <1>2, <2>1, PlainInstruction, PlainPop
<1>4. x \in Instructions BY <1>3 DEF Plain, Calm
<1>5. v \in LocalSet /\ v.depth = scopeDepth /\ v.captured = FALSE BY <1>2 DEF LocalSet
<1> HIDE DEF x, y, v, C, b
<1>6. CodeOpens(c, b, C, K, B) /\ CodeTraced(c, b, C, K, B) BY <1>2, <1>3, OpensOne DEF CodeOpens
<1>7. Len(code) <= Len(c)
  <2>1. c = Append(code, x) BY ONLY <1>2, <1>4, OneAppended
  <2> QED BY <2>1, <1>2
<1> HIDE DEF c
<1>8. CASE code' = c /\ locals' = l2
  <2>1. /\ l2 \in Seq(LocalSet) /\ Len(l2) = b + 1 /\ l2[b + 1] = v
        /\ \A m \in 1..b : l2[m] = locals[m]
        BY <1>2, <1>5
  <2>2. Captured(l2) = C
    <3>1. \A m \in 1..(b + 1) : m \in 1..b \/ m = b + 1 BY <1>2
    <3>2. \A m \in 1..b : m \in 1..(b + 1) BY <1>2
    <3>3. \A m : m \in Captured(l2) <=> m \in C
          BY <3>1, <3>2, <2>1, <1>2, <1>5 DEF Captured, C
    <3> QED BY <3>3
  <2>3. CodeTraced(c, b + 1, C, K, G) BY <1>6, TracedDeclared
  <2>4. Fits(b, C, K, B, b + 1, C, K, G, Len(code)) BY <1>2, <1>6, <1>7, FitsDeclared
  <2>5. Opens(c, K) BY <1>6 DEF CodeOpens
  <2> HIDE DEF G
  <2>6. CodeOpens(c, Len(l2), Captured(l2), K, G) BY <2>1, <2>2, <2>3, <2>5 DEF CodeOpens
  <2>7. Fits(Len(locals), Captured(locals), K, B, Len(l2), Captured(l2), K, G, Len(code))
        BY <2>1, <2>2, <2>4, <1>2 DEF C
  <2>8. Stays(locals, l2, nest, Len(nest))
        BY <1>1, <1>2, <1>5, DeclaredStays
  <2> HIDE DEF l2
  <2>9. Traceable(c, l2, nest, loops)
        BY ONLY CompileOK, Traced(code, locals, nest, loops, K, B), <1>1, <2>1, <2>6, <2>7, <2>8,
                TraceDeclared
  <2> QED BY <2>9, <1>1, <1>8
<1>9. CASE code' = c \o <<y>> /\ locals' = locals
  <2>1. CodeOpens(c \o <<y>>, b, C, K, B) BY <1>3, <1>6, OpensOne
  <2>2. Stays(locals, locals, nest, Len(nest)) BY DEF Stays
  <2>3. Fits(b, C, K, B, b, C, K, B, Len(code)) BY FitsSame
  <2>4. Traceable(c \o <<y>>, locals, nest, loops)
        BY <1>1, <1>2, <2>1, <2>2, <2>3, TraceDeclared DEF C
  <2> QED BY <2>4, <1>1, <1>9
<1> QED BY <1>1, <1>8, <1>9

(* A closure is added that captures the locals of D. *)
LEMMA ClosureOpens ==
    ASSUME NEW c, NEW b, NEW C, NEW K, NEW B, CodeOpens(c, b, C, K, B), NEW s \in Seq(Instructions),
           Len(s) >= 1, NEW D, s[1].captures = D,
           \A i \in 1..Len(s) : Calm(s[i], b) /\ (i # 1 => s[i].op # "closure"),
           NEW e, NEW B2, CodeTraced(c \o s, e, C, K, B2), D \subseteq 1..e,
           \A m \in D : B2[m] <= Len(c) + 2
    PROVE  CodeOpens(c \o s, e, C \cup D, Capturing(K, B2, D), B2)
<1> DEFINE d == c \o s
           z == Len(c)
<1>1. c \in Seq(Instructions) /\ z \in Nat /\ Len(s) \in Nat /\ Opens(c, K)
      BY TracedTypes DEF CodeOpens
<1>2. /\ Len(d) = z + Len(s) /\ \A n \in 1..z : d[n] = c[n] BY <1>1, Joined
<1>3. \A i \in 1..Len(s) : d[z + i] = s[i] BY <1>1, Joined
<1>4. CodeTraced(d, e, C, K, B2) OBVIOUS
<1> HIDE DEF d
<1>5. ASSUME NEW n \in 1..Len(d), d[n].op = "closure"
      PROVE  \/ d[n].captures \subseteq K[n + 1]
             \/ d[n].captures \subseteq D /\ \A m \in D : B2[m] <= n + 1
  <2>1. CASE n \in 1..z BY <2>1, <1>1, <1>2, <1>5 DEF Opens
  <2>2. CASE n \notin 1..z
    <3>1. n - z \in 1..Len(s) /\ z + (n - z) = n BY <2>2, <1>1, <1>2
    <3>2. d[n] = s[n - z] BY <3>1, <1>3
    <3>3. n - z = 1 BY <3>1, <3>2, <1>5
    <3>4. n + 1 = z + 2 BY <3>1, <3>3, <1>1
    <3> QED BY <3>2, <3>3, <3>4
  <2> QED BY <2>1, <2>2
<1> HIDE DEF z
<1>6. CodeOpens(d, e, C \cup D, Capturing(K, B2, D), B2) BY ONLY <1>4, <1>5, D \subseteq 1..e, CapturingOpens
<1> QED BY <1>6 DEF d

(* funDeclaration(): what the nested function captures is captured from here on. *)
LEMMA TraceFunDeclaration ==
    ASSUME CompileOK, NEW K, NEW B, Traced(code, locals, nest, loops, K, B), NEW D, FunDeclaration(D)
    PROVE  Traceable(code, locals, nest, loops)'
<1> DEFINE C == Captured(locals)
           b == Base
           v == [Instruction("closure", b) EXCEPT !.captures = D]
           y == Instruction("define", b + 1)
           l1 == [m \in DOMAIN locals |-> [locals[m] EXCEPT !.captured = @ \/ m \in D]]
           x == [depth |-> scopeDepth, captured |-> b + 1 \in D]
           l2 == Append(l1, x)
           c1 == code \o <<v>>
           c2 == code \o <<v, y>>
           G == Declaring(c1, b, B)
<1>1. /\ nest' = nest /\ loops' = loops /\ (nest # <<>> => Last(nest).kind = "block")
      /\ D \subseteq 2..(b + 1)
      /\ \/ code' = c1 /\ locals' = l2
         \/ code' = c2 /\ locals' = l1 /\ b + 1 \notin D
      BY DEF FunDeclaration, NewDeclaration
<1>2. /\ CodeOpens(code, b, C, K, B) /\ b \in Nat /\ b = Len(locals) /\ locals \in Seq(LocalSet)
      /\ Len(code) \in Nat /\ scopeDepth \in Nat /\ nest \in Seq(Entries) /\ code \in Seq(Instructions)
      BY TraceFacts, CompileFacts
<1>2a. CodeTraced(code, b, C, K, B) BY <1>2 DEF CodeOpens
<1>3. v \in Instructions /\ v.op = "closure" /\ v.height = b /\ v.captures = D
  <2> DEFINE i == Instruction("closure", b)
  <2>1. i \in Instructions /\ i.op = "closure" /\ i.height = b BY <1>2, InstructionTypes DEF Ops
  <2>2. D \in SUBSET Nat BY <1>1, <1>2
  <2>3. v = [i EXCEPT !.captures = D] OBVIOUS
  <2> HIDE DEF i, v
  <2> QED BY <2>1, <2>2, <2>3 DEF Instructions
<1>4. Calm(v, b) /\ Calm(y, b) /\ y.op = "define"
  <2>1. b + 1 \in Nat /\ b < b + 1 /\ b <= b BY <1>2
  <2>2. Calm(y, b) BY <1>2, <2>1, PlainPop DEF Plain
  <2>3. y.op = "define" BY DEF Instruction
  <2> HIDE DEF v, y, b
  <2> QED BY <2>1, <2>2, <2>3, <1>3 DEF Calm, JumpOps
<1> HIDE DEF v
<1>5. x \in LocalSet /\ x.depth = scopeDepth /\ (x.captured <=> b + 1 \in D)
  <2>1. (b + 1 \in D) \in BOOLEAN OBVIOUS
  <2> QED BY <2>1, <1>2 DEF LocalSet
<1> HIDE DEF x, y
<1>6. /\ l1 \in Seq(LocalSet) /\ Len(l1) = b
      /\ \A m \in 1..b : l1[m].depth = locals[m].depth /\ (l1[m].captured <=> locals[m].captured \/ m \in D)
  <2>1. DOMAIN locals = 1..b BY <1>2
  <2>2. ASSUME NEW m \in 1..b
        PROVE  /\ l1[m] \in LocalSet /\ l1[m].depth = locals[m].depth
               /\ (l1[m].captured <=> locals[m].captured \/ m \in D)
    <3> DEFINE z == locals[m]
               z2 == [z EXCEPT !.captured = @ \/ m \in D]
    <3>1. z \in LocalSet BY <1>2
    <3>2. l1[m] = z2 BY <2>1
    <3> HIDE DEF z
    <3>3. z.captured \in BOOLEAN /\ z.depth \in Nat BY <3>1 DEF LocalSet
    <3>4. z2 = [depth |-> z.depth, captured |-> (z.captured \/ m \in D)] BY <3>1 DEF LocalSet
    <3>5. (z.captured \/ m \in D) \in BOOLEAN BY <3>3
    <3> HIDE DEF z2
    <3>6. z2 \in LocalSet /\ z2.depth = z.depth BY <3>3, <3>4, <3>5 DEF LocalSet
    <3>7. z2.captured <=> z.captured \/ m \in D BY <3>4
    <3> HIDE DEF l1
    <3> QED BY <3>2, <3>6, <3>7 DEF z
  <2>3. DOMAIN l1 = 1..b /\ l1 = [m \in 1..b |-> l1[m]] BY <2>1
  <2> HIDE DEF l1
  <2>4. l1 \in Seq(LocalSet) /\ Len(l1) = b BY <1>2, <2>2, <2>3
  <2> QED BY <1>2, <2>2, <2>4
<1> HIDE DEF l1, b
<1>7. /\ Stays(locals, l1, nest, Len(nest)) /\ Stays(locals, l2, nest, Len(nest))
  <2>1. Len(l1) = Len(locals) /\ \A m \in 1..Len(locals) : l1[m].depth = locals[m].depth
        BY <1>2, <1>6
  <2>2. l1 \in Seq(LocalSet) BY <1>6
  <2>3. x \in LocalSet /\ x.depth = scopeDepth BY <1>5
  <2> QED BY ONLY CompileOK, <1>1, <2>1, <2>2, <2>3, DeclaredStays
<1>8. \A m : m \in C <=> m \in 1..b /\ locals[m].captured BY <1>2 DEF Captured
<1> HIDE DEF C
<1>9. CASE code' = c1 /\ locals' = l2
  <2> DEFINE s == <<v>>
  <2>1. s \in Seq(Instructions) /\ Len(s) = 1 /\ s[1] = v /\ \A i \in 1..Len(s) : i = 1 BY <1>3
  <2>2. c1 = code \o s OBVIOUS
  <2> HIDE DEF s, c1
  <2>3. \A i \in 1..Len(s) : Calm(s[i], b) /\ (i # 1 => s[i].op # "closure") BY <2>1, <1>4
  <2>4. CodeTraced(c1, b, C, K, B) BY <2>1, <2>2, <2>3, <1>2a, TracedJoined
  <2>5. Len(c1) = Len(code) + 1
    <3>1. Len(code \o s) = Len(code) + Len(s) BY <2>1, <1>2, Joined
    <3> QED BY <3>1, <2>1, <2>2
  <2>6. CodeTraced(c1, b + 1, C, K, G) BY <2>4, TracedDeclared
  <2>7. G[b + 1] = Len(code) + 2 /\ \A m \in 1..b : G[m] = B[m]
    <3>1. G[b + 1] = Len(c1) + 1 /\ \A m \in 1..b : G[m] = B[m] BY <2>4, DeclaringAt
    <3> QED BY <3>1, <2>5, <1>2
  <2>8. D \subseteq 1..(b + 1) BY <1>1, <1>2
  <2>9. \A m \in 1..b : B[m] \in Nat /\ B[m] <= Len(code) + 1 BY TraceFacts DEF b
  <2> HIDE DEF G
  <2>10. \A m \in D : G[m] <= Len(code) + 2
    <3>1. \A m \in D : m \in 1..b \/ m = b + 1 BY <2>8, <1>2
    <3>2. G[b + 1] <= Len(code) + 2 BY <2>7, <1>2
    <3>3. \A m \in 1..b : G[m] <= Len(code) + 2 BY <2>7, <2>9, <1>2
    <3> QED BY <3>1, <3>2, <3>3
  <2> DEFINE K2 == Capturing(K, G, D)
             C2 == C \cup D
  <2>11. CodeOpens(c1, b + 1, C2, K2, G)
    <3>1. s[1].captures = D /\ Len(s) >= 1 BY <2>1, <1>3
    <3>2. CodeTraced(code \o s, b + 1, C, K, G) BY <2>2, <2>6
    <3>3. CodeOpens(code \o s, b + 1, C2, K2, G)
          BY ONLY <3>1, <3>2, <2>1, <2>3, <2>8, <2>10, <1>2, ClosureOpens
    <3> QED BY <3>3, <2>2
  <2>12. Fits(b, C, K, B, b + 1, C2, K2, G, Len(code))
    <3>0. Len(code) <= Len(c1) /\ Len(code) \in Nat /\ b + 1 \in Nat /\ b \in Nat /\ b + 1 <= b + 1 BY <2>5, <1>2
    <3>1. Fits(b, C, K, B, b + 1, C, K, G, Len(code)) BY <2>4, <3>0, FitsDeclared DEF G
    <3>2. Fits(b + 1, C, K, G, b + 1, C2, K2, G, Len(code)) BY <2>6, <2>8, <3>0, FitsCaptured
    <3> HIDE DEF K2, C2
    <3> QED BY ONLY <3>0, <3>1, <3>2, FitsThen
  <2>13. /\ l2 \in Seq(LocalSet) /\ Len(l2) = b + 1 /\ l2[b + 1] = x
         /\ \A m \in 1..b : l2[m] = l1[m]
         BY <1>2, <1>5, <1>6
  <2>14. Captured(l2) = C2
    <3>1. \A m \in 1..(b + 1) : m \in 1..b \/ m = b + 1 BY <1>2
    <3>2. \A m \in 1..b : m \in 1..(b + 1) /\ m # b + 1 BY <1>2
    <3>2a. b + 1 \in 1..(b + 1) /\ b + 1 \notin 1..b BY <1>2
    <3>3. \A m \in 1..b : l2[m].captured <=> m \in C2 BY <2>13, <1>6, <1>8
    <3>4. l2[b + 1].captured <=> b + 1 \in C2 BY <2>13, <1>5, <1>8, <3>2a
    <3>5. \A m : m \in C2 => m \in 1..(b + 1) BY <2>8, <1>8, <3>2
    <3> HIDE DEF C2, l2
    <3>6. \A m : m \in Captured(l2) <=> m \in C2
          BY <3>1, <3>3, <3>4, <3>5, <2>13 DEF Captured
    <3> QED BY <3>6
  <2> HIDE DEF l2, K2, C2
  <2>15. CodeOpens(c1, Len(l2), Captured(l2), K2, G) BY <2>11, <2>13, <2>14
  <2>16. Fits(Len(locals), Captured(locals), K, B, Len(l2), Captured(l2), K2, G, Len(code))
         BY <2>12, <2>13, <2>14, <1>2 DEF C
  <2>17. Traceable(c1, l2, nest, loops)
         BY ONLY CompileOK, Traced(code, locals, nest, loops, K, B), <1>1, <2>13, <2>15, <2>16, <1>7,
                 TraceDeclared
  <2> QED BY <2>17, <1>1, <1>9
<1>10. CASE code' = c2 /\ locals' = l1 /\ b + 1 \notin D
  <2> DEFINE s == <<v, y>>
  <2>1. y \in Instructions BY <1>4 DEF Calm
  <2>1a. s \in Seq(Instructions) /\ Len(s) = 2 /\ s[1] = v /\ s[2] = y /\ \A i \in 1..Len(s) : i = 1 \/ i = 2
        BY <1>3, <2>1
  <2>2. c2 = code \o s OBVIOUS
  <2> HIDE DEF s, c2
  <2>3. \A i \in 1..Len(s) : Calm(s[i], b) /\ (i # 1 => s[i].op # "closure") BY <2>1a, <1>4
  <2>4. CodeTraced(code \o s, b, C, K, B) BY <2>1a, <2>3, <1>2a, TracedJoined
  <2>8. D \subseteq 1..b BY <1>1, <1>2, <1>10
  <2>9. \A m \in 1..b : B[m] \in Nat /\ B[m] <= Len(code) + 1 BY TraceFacts DEF b
  <2>10. \A m \in D : B[m] <= Len(code) + 2 BY <2>8, <2>9, <1>2
  <2> DEFINE K2 == Capturing(K, B, D)
             C2 == C \cup D
  <2>11. CodeOpens(c2, b, C2, K2, B)
    <3>1. s[1].captures = D /\ Len(s) >= 1 BY <2>1a, <1>3
    <3>2. s \in Seq(Instructions) BY <2>1a
    <3>3. CodeOpens(code \o s, b, C2, K2, B)
          BY ONLY <3>1, <3>2, <2>3, <2>4, <2>8, <2>10, <1>2, ClosureOpens
    <3> QED BY <3>3, <2>2
  <2>12. Fits(b, C, K, B, b, C2, K2, B, Len(code)) BY <1>2, <1>2a, <2>8, FitsCaptured
  <2>14. Captured(l1) = C2
    <3>3. \A m \in 1..b : l1[m].captured <=> m \in C2 BY <1>6, <1>8
    <3>5. \A m : m \in C2 => m \in 1..b BY <2>8, <1>8
    <3> HIDE DEF C2
    <3>6. \A m : m \in Captured(l1) <=> m \in C2 BY <3>3, <3>5, <1>6 DEF Captured
    <3> QED BY <3>6
  <2> HIDE DEF K2, C2
  <2>15. CodeOpens(c2, Len(l1), Captured(l1), K2, B) BY <2>11, <2>14, <1>6
  <2>16. Fits(Len(locals), Captured(locals), K, B, Len(l1), Captured(l1), K2, B, Len(code))
         BY <2>12, <2>14, <1>2, <1>6 DEF C
  <2>17. Traceable(c2, l1, nest, loops)
         BY ONLY CompileOK, Traced(code, locals, nest, loops, K, B), <1>1, <1>6, <2>15, <2>16, <1>7,
                 TraceDeclared
  <2> QED BY <2>17, <1>1, <1>10
<1> QED BY <1>1, <1>9, <1>10

(* The condition of a for statement, or none. *)
LEMMA TraceTest ==
    ASSUME NEW b \in Nat, NEW c, NEW C, NEW K, NEW B, CodeOpens(c, b, C, K, B), NEW condition, NEW s,
           s = <<Instruction("push", b), Jump("jumpIfFalse", NoTarget, b + 1), Instruction("pop", b + 1)>>,
           NEW test, test = IF condition THEN c \o s ELSE c
    PROVE  CodeOpens(test, b, C, K, B) /\ Len(c) <= Len(test)
<1>1. CASE condition
  <2>1. test = c \o s BY <1>1
  <2>2. CodeOpens(c \o s, b, C, K, B) BY TraceCondition
  <2>3. c \in Seq(Instructions) /\ Len(c) \in Nat BY TracedTypes DEF CodeOpens
  <2>4. Instruction("push", b) \in Instructions /\ Jump("jumpIfFalse", NoTarget, b + 1) \in Instructions
        /\ Instruction("pop", b + 1) \in Instructions
    <3>1. b + 1 \in Nat /\ NoTarget \in Nat BY DEF NoTarget
    <3> QED BY <3>1, InstructionTypes DEF Ops
  <2>5. s \in Seq(Instructions) /\ Len(s) = 3 BY <2>4
  <2>6. Len(c \o s) = Len(c) + Len(s) BY <2>3, <2>5, Joined
  <2>7. Len(c) <= Len(test)
    <3> DEFINE z == Len(c)
    <3>1. z \in Nat /\ Len(test) = z + 3 BY <2>1, <2>3, <2>5, <2>6
    <3> HIDE DEF z
    <3>2. z <= z + 3 BY <3>1
    <3> QED BY <3>1, <3>2 DEF z
  <2> QED BY <2>1, <2>2, <2>7
<1>2. CASE ~condition
  <2>1. Len(c) \in Nat BY TracedTypes DEF CodeOpens
  <2> QED BY <1>2, <2>1
<1> QED BY <1>1, <1>2

(* The increment, and the jumps around it. *)
LEMMA TraceIncrement ==
    ASSUME NEW b \in Nat, NEW c, NEW C, NEW K, NEW B, CodeOpens(c, b, C, K, B), NEW t \in 1..(Len(c) + 1),
           \A m \in 1..b : B[m] <= t, NEW step,
           step = c \o <<Jump("jump", NoTarget, b), Instruction("push", b),
                         Instruction("pop", b + 1), Jump("loop", t, b)>>
    PROVE  CodeOpens(Patch(step, {Len(c) + 1}), b, C, K, B)
<1> DEFINE x == Jump("jump", NoTarget, b)
           y == Instruction("push", b)
           z == Instruction("pop", b + 1)
           w == Jump("loop", t, b)
           s == <<x, y, z>>
           d == c \o s
<1>1. c \in Seq(Instructions) /\ Len(c) \in Nat BY TracedTypes DEF CodeOpens
<1>2. Plain(x, b) /\ Plain(y, b) /\ Plain(z, b)
  <2>1. b + 1 \in Nat /\ b < b + 1 /\ b <= b OBVIOUS
  <2>2. Plain(x, b) BY <2>1, PlainJump DEF JumpOps
  <2>3. Plain(y, b) /\ Plain(z, b) BY <2>1, PlainInstruction, PlainPop
  <2> QED BY <2>2, <2>3
<1>3. w \in Instructions
  <2>1. t \in Nat BY <1>1
  <2> QED BY <2>1, InstructionTypes DEF Ops
<1>4. step = c \o <<x, y, z, w>> OBVIOUS
<1>5. x \in Instructions /\ y \in Instructions /\ z \in Instructions BY <1>2 DEF Plain, Calm
<1>6. s = <<x, y, z>> OBVIOUS
<1> HIDE DEF x, y, z, s
<1>7. step = Append(d, w) BY ONLY <1>1, <1>3, <1>4, <1>5, <1>6, FourJoined
<1>8. CodeOpens(d, b, C, K, B) BY <1>2, <1>6, OpensThree
<1>9. Len(d) = Len(c) + 3
  <2>1. s \in Seq(Instructions) /\ Len(s) = 3 BY <1>5, <1>6
  <2>2. Len(c \o s) = Len(c) + Len(s) BY <1>1, <2>1, Joined
  <2> QED BY <2>1, <2>2
<1>10. t \in 1..(Len(d) + 1) BY <1>1, <1>9
<1> HIDE DEF d, w
<1>11. CodeOpens(step, b, C, K, B) BY <1>7, <1>8, <1>10, OpensLooped DEF w
<1>12. K[Len(c) + 1] = C BY <1>1, PatchNew
<1> QED BY <1>11, <1>12, OpensPatched

(* forStatement(), up to its body. *)
LEMMA TraceFor ==
    ASSUME CompileOK, NEW K, NEW B, Traced(code, locals, nest, loops, K, B),
           NEW variable \in BOOLEAN, NEW condition \in BOOLEAN, NEW increment \in BOOLEAN,
           For(variable, condition, increment)
    PROVE  Traceable(code, locals, nest, loops)'
<1> DEFINE C == Captured(locals)
           b == IF variable THEN Base + 1 ELSE Base
           init == IF variable THEN code \o Expression ELSE code
           s == <<Instruction("push", b), Jump("jumpIfFalse", NoTarget, b + 1),
                  Instruction("pop", b + 1)>>
           test == IF condition THEN init \o s ELSE init
           exit == IF condition THEN {Len(init) + 2} ELSE {}
           t == Next1(init)
           step == test \o <<Jump("jump", NoTarget, b), Instruction("push", b),
                             Instruction("pop", b + 1), Jump("loop", t, b)>>
           start == IF increment THEN Len(test) + 2 ELSE t
           c == IF increment THEN Patch(step, {Next1(test)}) ELSE test
           x == [kind |-> "for", jumps |-> exit, start |-> start, depth |-> scopeDepth + 1,
                 done |-> FALSE]
           l == [target |-> start, breaks |-> {}, base |-> b, at |-> Len(nest) + 1]
           y == [depth |-> scopeDepth + 1, captured |-> FALSE]
           l2 == IF variable THEN Append(locals, y) ELSE locals
           B2 == IF variable THEN Declaring(init, Base, B) ELSE B
<1>1. /\ code' = c /\ nest' = Append(nest, x) /\ loops' = Append(loops, l) /\ locals' = l2
      /\ (variable => Base < MaxLocals)
      BY DEF For, Enter, BeginLoop
<1>2. /\ Coherent(code, locals, scopeDepth, nest, Outside, loops) /\ Base = Len(locals)
      /\ Base \in Nat /\ locals \in Seq(LocalSet) /\ LocalsOK(locals, scopeDepth)
      /\ scopeDepth \in Nat /\ Len(code) \in Nat /\ Len(nest) \in Nat
      /\ NestOK(nest, Outside, scopeDepth) /\ nest \in Seq(Entries) /\ loops \in Seq(LoopSet)
      /\ code \in Seq(Instructions)
      BY CompileFacts
<1>3. b \in Nat BY <1>2
<1>4. CodeOpens(code, Base, C, K, B) BY TraceFacts
<1>5. y \in LocalSet /\ y.depth = scopeDepth + 1 /\ y.captured = FALSE BY <1>2 DEF LocalSet
<1> HIDE DEF y
<1>6. LocalsOK(l2, scopeDepth + 1) /\ Len(l2) = b /\ Stays(locals, l2, nest, Len(nest)) /\ l2 \in Seq(LocalSet)
  <2>1. CASE variable
    <3>1. l2 = Append(locals, y) /\ b = Base + 1 BY <2>1
    <3>2. LocalsOK(Append(locals, y), y.depth) BY <2>1, <1>1, <1>2, <1>5, LocalsAppended
    <3>3. Len(Append(locals, y)) = Base + 1 /\ Append(locals, y) \in Seq(LocalSet) BY <1>2, <1>5
    <3>4. ASSUME NEW i \in 1..Len(nest)
          PROVE  Within(Append(locals, y), nest[i].depth) = Within(locals, nest[i].depth)
      <4>1. nest[i].depth \in Nat /\ nest[i].depth <= scopeDepth
            BY <1>2, NestTypes, NestDepth
      <4>2. y.depth > nest[i].depth BY <4>1, <1>2, <1>5
      <4> QED BY <4>1, <4>2, <1>2, <1>5, WithinAppended
    <3> QED BY <3>1, <3>2, <3>3, <3>4, <1>5 DEF Stays
  <2>2. CASE ~variable
    <3>1. l2 = locals /\ b = Base BY <2>2
    <3>2. LocalsOK(locals, scopeDepth + 1) BY <1>2, LocalsDeeper
    <3> QED BY <3>1, <3>2, <1>2 DEF Stays
  <2> QED BY <2>1, <2>2
<1>7. Captured(l2) = C
  <2>1. CASE variable
    <3>1. l2 = Append(locals, y) BY <2>1
    <3>2. /\ Len(l2) = Len(locals) + 1 /\ l2[Len(locals) + 1] = y /\ Len(locals) \in Nat
          /\ \A m \in 1..Len(locals) : l2[m] = locals[m]
          BY <3>1, <1>2, <1>5
    <3> HIDE DEF l2
    <3>3. \A m \in 1..(Len(locals) + 1) : m \in 1..Len(locals) \/ m = Len(locals) + 1 BY <3>2
    <3>4. \A m \in 1..Len(locals) : m \in 1..(Len(locals) + 1) BY <3>2
    <3>5. \A m : m \in Captured(l2) <=> m \in C
          BY <3>2, <3>3, <3>4, <1>5 DEF Captured
    <3> HIDE DEF C
    <3> QED BY <3>5
  <2>2. CASE ~variable BY <2>2
  <2> QED BY <2>1, <2>2
<1>8. /\ CodeOpens(init, b, C, K, B2) /\ Len(init) \in Nat /\ Len(code) <= Len(init)
      /\ Fits(Base, C, K, B, b, C, K, B2, Len(code))
  <2>1. CASE variable
    <3> DEFINE i == Instruction("push", Base)
               d == code \o <<i>>
               G == Declaring(d, Base, B)
    <3>1. init = d /\ b = Base + 1 /\ B2 = G BY <2>1 DEF Expression
    <3>2. Base <= Base BY <1>2
    <3>3. Plain(i, Base) BY <1>2, <3>2, PlainInstruction
    <3>4. i \in Instructions BY <3>3 DEF Plain, Calm
    <3> HIDE DEF i, b, B2, init, C
    <3>5. CodeOpens(d, Base, C, K, B) BY <1>4, <3>3, OpensOne
    <3>6. CodeTraced(d, Base, C, K, B) /\ Opens(d, K) BY <3>5 DEF CodeOpens
    <3>7. Len(code) <= Len(d) /\ Len(d) \in Nat
      <4>1. d = Append(code, i) BY ONLY <1>2, <3>4, OneAppended
      <4> QED BY <4>1, <1>2
    <3> HIDE DEF d
    <3>8. CodeTraced(d, Base + 1, C, K, G) BY <3>6, TracedDeclared
    <3>9. Fits(Base, C, K, B, Base + 1, C, K, G, Len(code)) BY <1>2, <3>6, <3>7, FitsDeclared
    <3> HIDE DEF G
    <3> QED BY <3>1, <3>6, <3>7, <3>8, <3>9 DEF CodeOpens
  <2>2. CASE ~variable
    <3>1. init = code /\ b = Base /\ B2 = B BY <2>2
    <3> HIDE DEF b, B2, init, C
    <3>2. Fits(Base, C, K, B, Base, C, K, B, Len(code)) BY FitsSame
    <3> QED BY <3>1, <3>2, <1>2, <1>4
  <2> QED BY <2>1, <2>2
<1>9. t = Len(init) + 1 BY DEF Next1
<1> HIDE DEF b, init, t, l2, B2, C
<1>10. /\ s = <<Instruction("push", b), Jump("jumpIfFalse", NoTarget, b + 1), Instruction("pop", b + 1)>>
       /\ test = IF condition THEN init \o s ELSE init
       /\ exit = IF condition THEN {Len(init) + 2} ELSE {}
       OBVIOUS
<1> HIDE DEF s, test, exit
<1>11. CodeOpens(test, b, C, K, B2) /\ Len(init) <= Len(test)
  <2>1. CodeOpens(init, b, C, K, B2) BY <1>8
  <2> QED BY ONLY <1>3, <2>1, <1>10, TraceTest
<1>12. Len(test) \in Nat BY <1>11, TracedTypes DEF CodeOpens
<1>13. \A m \in 1..b : B2[m] <= t BY <1>8, <1>9 DEF CodeOpens, CodeTraced
<1>14. CodeOpens(c, b, C, K, B2)
  <2>1. CASE increment
    <3>1. t \in 1..(Len(test) + 1) BY <1>8, <1>9, <1>11, <1>12
    <3>2. step = test \o <<Jump("jump", NoTarget, b), Instruction("push", b),
                           Instruction("pop", b + 1), Jump("loop", t, b)>>
          OBVIOUS
    <3>3. c = Patch(step, {Len(test) + 1}) BY <2>1 DEF Next1
    <3> HIDE DEF c, step
    <3>4. CodeOpens(Patch(step, {Len(test) + 1}), b, C, K, B2)
          BY ONLY <1>3, <1>11, <1>13, <3>1, <3>2, TraceIncrement
    <3> QED BY <3>3, <3>4
  <2>2. CASE ~increment
    <3>1. c = test BY <2>2
    <3> HIDE DEF c
    <3> QED BY <3>1, <1>11
  <2> QED BY <2>1, <2>2
<1> HIDE DEF c
<1>15. start \in Nat /\ start > Len(init)
  <2>1. CASE increment
    <3>1. start = Len(test) + 2 BY <2>1
    <3> HIDE DEF start
    <3> QED BY <3>1, <1>8, <1>11, <1>12
  <2>2. CASE ~increment
    <3>1. start = t BY <2>2
    <3> HIDE DEF start
    <3> QED BY <3>1, <1>8, <1>9
  <2> QED BY <2>1, <2>2
<1> HIDE DEF start
<1>16. \A n \in exit : n \in Nat /\ n > Len(init) BY <1>8, <1>10
<1>17. x.jumps = exit /\ x.start = start /\ x.depth = scopeDepth + 1 /\ l.breaks = {} OBVIOUS
<1> HIDE DEF x, l
<1>18. Within(l2, x.depth) = Len(l2) BY <1>2, <1>6, <1>17, WithinAll
<1>19. EntryWaits(l2, C, K, B2, x)
  <2>1. CodeOpens(init, Len(l2), C, K, B2) BY <1>6, <1>8
  <2>2. \A n \in x.jumps : n \in Nat /\ n > Len(init) BY <1>16, <1>17
  <2>3. x.kind \in LoopKinds => x.start \in Nat /\ x.start > Len(init) BY <1>15, <1>17
  <2>4. C = Captured(l2) BY <1>7
  <2> QED BY ONLY <1>18, <2>1, <2>2, <2>3, <2>4, NewWaits
<1>20. LoopWaits(l2, C, K, B2, l) BY <1>17 DEF LoopWaits
<1> DEFINE n2 == Append(nest, x)
           lps2 == Append(loops, l)
<1>21. /\ Len(n2) = Len(nest) + 1 /\ n2[Len(nest) + 1] = x
       /\ \A i \in 1..Len(nest) : n2[i] = nest[i]
       BY <1>2
<1>22. /\ Len(lps2) = Len(loops) + 1 /\ lps2[Len(loops) + 1] = l /\ Len(loops) \in Nat
       /\ \A i \in 1..Len(loops) : lps2[i] = loops[i]
       BY <1>2
<1> HIDE DEF n2, lps2
<1>23. KeptTo(nest, n2, Len(nest)) BY <1>2, <1>21 DEF KeptTo
<1>24. \A i \in 1..Len(n2) : i \in 1..Len(nest) \/ EntryWaits(l2, C, K, B2, n2[i])
  <2>1. \A i \in 1..Len(n2) : i \in 1..Len(nest) \/ i = Len(nest) + 1 BY <1>2, <1>21
  <2> QED BY <2>1, <1>19, <1>21
<1>25. \A j \in 1..Len(lps2) :
          \/ \E i \in 1..Len(loops) : lps2[j] = loops[i] /\ loops[i].at <= Len(nest)
          \/ LoopWaits(l2, C, K, B2, lps2[j])
  <2>1. \A j \in 1..Len(lps2) : j \in 1..Len(loops) \/ j = Len(loops) + 1 BY <1>22
  <2>2. \A i \in 1..Len(loops) : loops[i].at <= Len(nest) BY LoopsAt
  <2> QED BY <2>1, <2>2, <1>20, <1>22
<1>26. CodeOpens(c, Len(l2), C, K, B2) BY <1>6, <1>14
<1>27. Fits(Len(locals), Captured(locals), K, B, Len(l2), C, K, B2, Len(code)) BY <1>2, <1>6, <1>8 DEF C
<1>28. Traceable(c, l2, n2, lps2)
  <2>1. C = Captured(l2) BY <1>7
  <2> QED BY ONLY <1>2, Traced(code, locals, nest, loops, K, B), <1>6, <1>23, <1>24, <1>25, <1>26, <1>27,
                  <2>1, TracedStep
<1> QED BY <1>1, <1>28 DEF n2, lps2

-----------------------------------------------------------------------------
(* The run, and the invariant. *)

(* When instruction p of the complete code c starts, only those of `slots`   *)
(* are open.                                                                 *)
RunTraced(c, slots, p) ==
    \E K : /\ \A n \in 1..Len(c) : Tracks(c[n], n, Len(c), K)
           /\ Opens(c, K) /\ slots \subseteq K[p]

TInv ==
    /\ status = "compiling" => Traceable(code, locals, nest, loops)
    /\ status = "running" => RunTraced(code, openSlots, ip)

(* The code is complete. *)
LEMMA TraceEndCompiler ==
    ASSUME CompileOK, Traceable(code, locals, nest, loops), EndCompiler
    PROVE  RunTraced(code, openSlots, ip)'
<1> DEFINE b == Base
           C == Captured(locals)
           x == Instruction("push", b)
           y == Instruction("return", b + 1)
           c == code \o <<x>>
           d == c \o <<y>>
<1>1. PICK K, B : Traced(code, locals, nest, loops, K, B) BY DEF Traceable
<1>2. CodeOpens(code, b, C, K, B) /\ b \in Nat BY <1>1, TraceFacts, CompileFacts
<1>3. Plain(x, b) /\ Plain(y, b)
  <2>1. b + 1 \in Nat /\ b < b + 1 /\ b <= b BY <1>2
  <2> QED BY <1>2, <2>1, PlainInstruction, PlainPop
<1>4. code' = d /\ openSlots' = {} BY DEF EndCompiler, Expression, machine, CompileOK
<1> HIDE DEF x, y, b, C
<1>5. CodeOpens(c, b, C, K, B) BY <1>2, <1>3, OpensOne
<1> HIDE DEF c
<1>6. CodeOpens(d, b, C, K, B) BY <1>3, <1>5, OpensOne
<1> HIDE DEF d
<1>7. (\A n \in 1..Len(d) : Tracks(d[n], n, Len(d), K)) /\ Opens(d, K)
      BY <1>6 DEF CodeOpens, CodeTraced
<1> QED BY <1>4, <1>7 DEF RunTraced

(* A step of run() hands on what may be open. *)
LEMMA TraceRun ==
    ASSUME CleanExits, RunOK, RunTraced(code, openSlots, ip), Run, status' = "running"
    PROVE  RunTraced(code, openSlots, ip)'
<1>1. PICK K : /\ \A n \in 1..Len(code) : Tracks(code[n], n, Len(code), K)
               /\ Opens(code, K) /\ openSlots \subseteq K[ip]
      BY DEF RunTraced
<1> DEFINE x == code[ip]
<1>2. /\ ip \in 1..Len(code) /\ stackTop = x.height
      /\ x.op \in JumpOps => x.to \in 1..Len(code) /\ x.to # NoTarget
  <2>1. ip \in 1..Len(code) /\ (x.op \in JumpOps => x.to \in 1..Len(code)) BY DEF RunOK
  <2>2. stackTop = x.height BY RunFacts DEF Reaches
  <2> QED BY <2>1, <2>2, RunFacts DEF NoTarget
<1>3. Tracks(x, ip, Len(code), K) BY <1>1, <1>2
<1>4. x.op = "closure" => x.captures \subseteq K[ip + 1] BY <1>1, <1>2 DEF Opens
<1>5. code' = code
      BY DEF Run, Push, PopValue, CloseUpvalue, Closure, Goto, FallThrough, Return, Stack, compiler
<1>6. openSlots' \subseteq K[ip']
  <2>1. CASE Push \/ PopValue \/ FallThrough
    <3>1. x.op \in {"push", "pop", "define", "jumpIfFalse"} /\ openSlots' = openSlots /\ ip' = ip + 1
          BY <2>1 DEF Push, PopValue, FallThrough, At, Stack
    <3>2. K[ip] \subseteq K[ip + 1] BY <3>1, <1>3 DEF Tracks
    <3> QED BY <3>1, <3>2, <1>1
  <2>2. CASE CloseUpvalue
    <3>1. x.op = "close" /\ openSlots' = openSlots \ {stackTop} /\ ip' = ip + 1
          BY <2>2 DEF CloseUpvalue, At, Stack
    <3>2. K[ip] \ {x.height} \subseteq K[ip + 1] BY <3>1, <1>3 DEF Tracks
    <3> HIDE DEF x
    <3> QED BY <3>1, <3>2, <1>1, <1>2
  <2>3. CASE Closure
    <3>1. x.op = "closure" /\ openSlots' = openSlots \cup x.captures /\ ip' = ip + 1
          BY <2>3 DEF Closure, At, Stack
    <3>2. K[ip] \subseteq K[ip + 1] BY <3>1, <1>3 DEF Tracks
    <3> HIDE DEF x
    <3> QED BY <3>1, <3>2, <1>1, <1>4
  <2>4. CASE Goto
    <3>1. x.op \in JumpOps /\ openSlots' = openSlots /\ ip' = x.to
          BY <2>4 DEF Goto, At, JumpOps
    <3>2. K[ip] \subseteq K[x.to] BY <3>1, <1>2, <1>3 DEF Tracks
    <3> QED BY <3>1, <3>2, <1>1
  <2>5. CASE Return BY <2>5 DEF Return
  <2> QED BY <2>1, <2>2, <2>3, <2>4, <2>5 DEF Run
<1> QED BY <1>1, <1>5, <1>6 DEF RunTraced

(* The declarations and the statements. *)
LEMMA TraceStep ==
    ASSUME CleanExits, CompileOK, Traceable(code, locals, nest, loops), Declaration \/ Statement,
           status' = "compiling"
    PROVE  Traceable(code, locals, nest, loops)'
<1>1. PICK K, B : Traced(code, locals, nest, loops, K, B) BY DEF Traceable
<1>2. ~CompileError BY DEF CompileError
<1>3. ASSUME Declaration PROVE Traceable(code, locals, nest, loops)'
  <2>1. \/ VarDeclaration
        \/ \E D \in SUBSET (2..(MaxLocals + 1)) : FunDeclaration(D)
        BY <1>2, <1>3 DEF Declaration, TooManyLocals
  <2> QED BY <1>1, <2>1, TraceVarDeclaration, TraceFunDeclaration
<1>4. ASSUME Statement PROVE Traceable(code, locals, nest, loops)'
  <2>1. ~StatementFails BY <1>2 DEF StatementFails
  <2>2. CASE BeginBlock BY <1>1, <2>2, TraceBeginBlock
  <2>3. CASE EndBlock BY <1>1, <2>3, TraceEndBlock
  <2>4. CASE ExpressionStatement \/ ReturnStatement BY <1>1, <2>4, TraceExpressionStatement
  <2>5. CASE And BY <1>1, <2>5, TraceAnd
  <2>6. CASE Or BY <1>1, <2>6, TraceOr
  <2>7. CASE If \/ While BY <1>1, <2>7, TraceIf
  <2>8. CASE Else BY <1>1, <2>8, TraceElse
  <2>9. CASE NoElse \/ ElseDone BY <1>1, <2>9, TraceIfDone
  <2>10. CASE WhileDone BY <1>1, <2>10, TraceWhileDone
  <2>11. ASSUME NEW v \in BOOLEAN, NEW c \in BOOLEAN, NEW i \in BOOLEAN, For(v, c, i)
         PROVE  Traceable(code, locals, nest, loops)'
         BY <1>1, <2>11, TraceFor
  <2>12. CASE ForDone BY <1>1, <2>12, TraceForDone
  <2>13. CASE BreakStatement BY <1>1, <2>13, TraceBreakStatement
  <2>14. CASE ContinueStatement BY <1>1, <2>14, TraceContinueStatement
  <2> QED BY <1>4, <2>1, <2>2, <2>3, <2>4, <2>5, <2>6, <2>7, <2>8, <2>9, <2>10, <2>11, <2>12, <2>13,
             <2>14 DEF Statement
<1> QED BY <1>3, <1>4

(* It holds at the start: there is no code, and nothing is captured ... *)
LEMMA InitTInv == Init => TInv
<1> SUFFICES ASSUME Init PROVE TInv OBVIOUS
<1> DEFINE K == [n \in Nat |-> {}]
           B == [n \in Nat |-> 1]
<1>1. code = <<>> /\ nest = <<>> /\ loops = <<>> /\ status = "compiling" BY DEF Init
<1>2. Len(code) = 0 /\ Len(nest) = 0 /\ Len(loops) = 0 /\ code \in Seq(Instructions) BY <1>1
<1>3. locals \in Seq(LocalSet)
  <2>1. CompileOK BY <1>1, InitIInv DEF IInv
  <2> QED BY <2>1, CompileFacts
<1>4. \A m \in 1..Len(locals) : ~locals[m].captured
  <2>1. Callee.captured = FALSE /\ Len(<<Callee>>) = 1 /\ <<Callee>>[1] = Callee BY DEF Callee
  <2>2. CASE locals = <<Callee>>
    <3>1. \A m \in 1..Len(locals) : m = 1 BY <2>1, <2>2
    <3> QED BY <3>1, <2>1, <2>2
  <2>3. ASSUME NEW n \in 0..MaxArity,
               locals = <<Callee>> \o [m \in 1..n |-> [depth |-> 1, captured |-> FALSE]]
        PROVE  \A m \in 1..Len(locals) : ~locals[m].captured
    <3> DEFINE l == <<Callee>>
               x == [depth |-> 1, captured |-> FALSE]
               q == [m \in 1..n |-> x]
    <3>1. x \in LocalSet /\ x.captured = FALSE BY DEF LocalSet
    <3>2. n \in Nat BY BoundsAssumption
    <3>3. l \in Seq(LocalSet) /\ Len(l) = 1 /\ l[1] = Callee
      <4>1. Callee \in LocalSet BY DEF Callee, LocalSet
      <4> QED BY <4>1
    <3>4. locals = l \o q BY <2>3
    <3> HIDE DEF x, l
    <3>5. q \in Seq(LocalSet) /\ Len(q) = n /\ \A m \in 1..n : q[m] = x
          BY ONLY <3>1, <3>2, Constantly
    <3> HIDE DEF q
    <3>6. Len(locals) = 1 + n /\ locals[1] = Callee
      <4>1. Len(l \o q) = Len(l) + Len(q) /\ \A i \in 1..Len(l) : (l \o q)[i] = l[i]
            BY ONLY <3>3, <3>5, Joined
      <4> QED BY <4>1, <3>3, <3>4, <3>5
    <3>7. \A i \in 1..n : locals[1 + i] = x
      <4> SUFFICES ASSUME NEW i \in 1..n PROVE locals[1 + i] = x OBVIOUS
      <4>1. i \in 1..Len(q) BY <3>5
      <4>2. (l \o q)[Len(l) + i] = q[i] BY ONLY <3>3, <3>5, <4>1, JoinedAt
      <4> QED BY <4>1, <4>2, <3>3, <3>4, <3>5
    <3>8. ASSUME NEW m \in 1..Len(locals) PROVE ~locals[m].captured
      <4>1. CASE m = 1 BY <4>1, <3>6, <2>1
      <4>2. CASE m # 1
        <5>1. m - 1 \in 1..n /\ 1 + (m - 1) = m BY <4>2, <3>2, <3>6
        <5>2. locals[m] = x BY <5>1, <3>7
        <5> QED BY <5>2, <3>1
      <4> QED BY <4>1, <4>2
    <3> QED BY <3>8
  <2> QED BY <2>2, <2>3 DEF Init
<1>5. Captured(locals) = {} BY <1>4 DEF Captured
<1>6. K \in [Nat -> SUBSET Nat] /\ B \in [Nat -> Nat] /\ \A n \in Nat : K[n] = {} /\ B[n] = 1
      OBVIOUS
<1>7. Len(locals) \in Nat /\ \A m \in 1..Len(locals) : m \in Nat BY <1>3
<1> HIDE DEF K, B
<1>8. CodeOpens(code, Len(locals), {}, K, B)
      BY <1>2, <1>6, <1>7 DEF CodeOpens, CodeTraced, Opens
<1>9. Traced(code, locals, nest, loops, K, B) BY <1>2, <1>5, <1>8 DEF Traced
<1> QED BY <1>1, <1>9 DEF TInv, Traceable

(* ... and every step keeps it. *)
LEMMA NextTInv == CleanExits /\ IInv /\ TInv /\ [Next]_vars => TInv'
<1> SUFFICES ASSUME CleanExits, IInv, TInv, [Next]_vars PROVE TInv' OBVIOUS
<1>1. ASSUME Declaration \/ Statement PROVE TInv'
  <2>1. Compiling /\ (UNCHANGED status \/ CompileError) BY <1>1, DeclarationStatus, StatementStatus
  <2>2. CompileOK /\ Traceable(code, locals, nest, loops) BY <2>1 DEF IInv, TInv, Compiling
  <2>3. status' \in {"compiling", "error"} BY <2>1 DEF CompileError, Compiling
  <2>4. status' = "compiling" => Traceable(code, locals, nest, loops)'
        BY <1>1, <2>2, TraceStep
  <2> QED BY <2>3, <2>4 DEF TInv
<1>2. CASE EndCompiler
  <2>1. CompileOK /\ Traceable(code, locals, nest, loops)
        BY <1>2 DEF EndCompiler, Compiling, IInv, TInv
  <2>2. RunTraced(code, openSlots, ip)' BY <1>2, <2>1, TraceEndCompiler
  <2>3. status' = "running" BY <1>2 DEF EndCompiler
  <2> QED BY <2>2, <2>3 DEF TInv
<1>3. CASE Run
  <2>1. status = "running"
        BY <1>3 DEF Run, Push, PopValue, CloseUpvalue, Closure, Goto, FallThrough, Return, At
  <2>2. RunOK /\ RunTraced(code, openSlots, ip) BY <2>1 DEF IInv, TInv
  <2>3. status' \in {"running", "returned"}
        BY <1>3, <2>1 DEF Run, Push, PopValue, CloseUpvalue, Closure, Goto, FallThrough, Return, Stack
  <2>4. status' = "running" => RunTraced(code, openSlots, ip)' BY <1>3, <2>2, TraceRun
  <2> QED BY <2>3, <2>4 DEF TInv
<1>4. CASE UNCHANGED vars
  <2>1. UNCHANGED <<status, code, locals, nest, loops, ip, openSlots>>
        BY <1>4 DEF vars, compiler, machine
  <2> QED BY <2>1 DEF TInv
<1> QED BY <1>1, <1>2, <1>3, <1>4 DEF Next

(* Whatever the function, its loops and its nested functions: if the source   *)
(* leaves a loop only where its body has no local, every OP_CLOSE_UPVALUE is  *)
(* where it has to be, and no open upvalue ever points at a slot that the     *)
(* function has given up (endScope, OP_POP and OP_CLOSE_UPVALUE in run).      *)
THEOREM UpvaluesAreClosed == ASSUME CleanExits PROVE Spec => []UpvaluesClosed
<1>1. IInv /\ TInv => UpvaluesClosed
  <2> SUFFICES ASSUME IInv, TInv, status = "running" PROVE openSlots \subseteq 1..stackTop
        BY DEF UpvaluesClosed
  <2>1. RunOK /\ RunTraced(code, openSlots, ip) BY DEF IInv, TInv
  <2>2. PICK K : (\A n \in 1..Len(code) : Tracks(code[n], n, Len(code), K)) /\ openSlots \subseteq K[ip]
        BY <2>1 DEF RunTraced
  <2>3. ip \in 1..Len(code) /\ stackTop = code[ip].height BY <2>1 DEF RunOK, Reaches
  <2>4. K[ip] \subseteq 1..code[ip].height BY <2>2, <2>3 DEF Tracks
  <2> QED BY <2>2, <2>3, <2>4
<1>2. IInv /\ TInv /\ [Next]_vars => TInv' BY NextTInv
<1>3. Spec => []TInv BY <1>2, InitTInv, AlwaysIInv, PTL DEF Spec
<1> QED BY <1>1, <1>3, AlwaysIInv, PTL
=============================================================================
