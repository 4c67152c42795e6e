--------------------------- MODULE ResolverProofs ---------------------------
(***************************************************************************)
(* Resolver: a name always becomes a slot or a pair that is there, what    *)
(* closures share is marked, and an upvalue is listed once, however many   *)
(* functions a name is looked for through and whatever the limits are.     *)
(*                                                                         *)
(* What the pairs of a function refer to is defined by recursion over the  *)
(* compilers around it.  IInv says that each pair has its local or its     *)
(* upvalue in the next compiler, so that the recursion always ends at a    *)
(* marked local, and that no two locals are of the same declaration.       *)
(***************************************************************************)
EXTENDS Resolver, WellFoundedInduction, TLAPS

Compilers == [locals : Seq(Locals), upvalues : Seq(Upvalues), scopeDepth : Nat]

(* The arrays of a compiler: the callee's slot comes first, the locals of the *)
(* program have names, and no pair is among the upvalues twice.               *)
CompilerOK(k) ==
    /\ k \in Compilers /\ k.scopeDepth <= MaxDepth
    /\ Len(k.locals) >= 1 /\ Len(k.locals) <= MaxLocals /\ Len(k.upvalues) <= MaxUpvalues
    /\ k.locals[1].name = NoName /\ k.locals[1].depth = 0 /\ k.locals[1].variable = Global
    /\ \A n \in 2..Len(k.locals) : k.locals[n].name \in Names
    /\ \A u, v \in 1..Len(k.upvalues) : k.upvalues[u] = k.upvalues[v] => u = v

(* What a pair of compiler k refers to is there in the one around it, and a   *)
(* local is marked.                                                           *)
LinkOK(k, around) ==
    \A u \in 1..Len(k.upvalues) :
        IF k.upvalues[u].isLocal
          THEN /\ k.upvalues[u].index \in 2..Len(around.locals)
               /\ around.locals[k.upvalues[u].index].captured
          ELSE k.upvalues[u].index \in 1..Len(around.upvalues)

Chain(cs) ==
    /\ cs \in Seq(Compilers) /\ Len(cs) >= 1 /\ cs[1].upvalues = <<>>
    /\ \A c \in 1..Len(cs) : CompilerOK(cs[c])
    /\ \A c \in 2..Len(cs) : LinkOK(cs[c], cs[c - 1])

(* Every declaration has a variable of its own, of the v there have been. *)
Declared(cs, v) ==
    /\ \A c \in 1..Len(cs) : \A n \in 2..Len(cs[c].locals) : cs[c].locals[n].variable \in 1..v
    /\ \A c, d \in 1..Len(cs) : \A n \in 2..Len(cs[c].locals), m \in 2..Len(cs[d].locals) :
         cs[c].locals[n].variable = cs[d].locals[m].variable => c = d /\ n = m

(* The locals whose variables are in X are marked. *)
Marked(cs, X) ==
    \A c \in 1..Len(cs) : \A n \in 2..Len(cs[c].locals) :
        cs[c].locals[n].variable \in X => cs[c].locals[n].captured

AccessOK ==
    /\ access.kind = "local" => access.index \in 1..Len(Current.locals)
    /\ access.kind = "upvalue" => access.index \in 1..Len(Current.upvalues)

IInv ==
    /\ status \in {"compiling", "error"}
    /\ Chain(compilers) /\ Declared(compilers, variables) /\ Marked(compilers, closedOver)
    /\ variables \in 0..MaxVariables /\ closedOver \subseteq 1..variables
    /\ AccessOK

-----------------------------------------------------------------------------
(* Numbers and sequences. *)

LEMMA LeastNat ==
    ASSUME NEW S \in SUBSET Nat, S # {}
    PROVE  \E n \in S : \A m \in S : n <= m
<1>1. PICK n \in S : \A m \in S : <<m, n>> \notin OpToRel(<, Nat)
      BY WFMin, NatLessThanWellFounded, Zenon
<1>2. \A m \in S : ~(m < n)
      BY <1>1, Zenon DEF OpToRel
<1> QED BY <1>2

(* Max is of the largest number. *)
LEMMA MaxOf ==
    ASSUME NEW n \in Nat, NEW S \in SUBSET (1..n), S # {}
    PROVE  Max(S) \in S /\ \A m \in S : m <= Max(S)
<1> DEFINE D == {k \in Nat : n - k \in S}
<1>1. D # {}
  <2>1. PICK m \in S : TRUE OBVIOUS
  <2>2. m \in 1..n /\ n - m \in Nat /\ n - (n - m) = m OBVIOUS
  <2> QED BY <2>2
<1>2. PICK k \in D : \A j \in D : k <= j BY <1>1, LeastNat
<1> DEFINE x == n - k
<1>3. x \in S BY <1>2
<1>4. ASSUME NEW m \in S PROVE x >= m
  <2>1. m \in 1..n /\ n - m \in Nat /\ n - (n - m) = m OBVIOUS
  <2>2. n - m \in D BY <2>1
  <2>3. k <= n - m /\ k \in Nat BY <1>2, <2>2
  <2> QED BY <2>1, <2>3
<1> HIDE DEF x
<1>5. \E y \in S : \A m \in S : y >= m BY <1>3, <1>4
<1> DEFINE z == CHOOSE y \in S : \A m \in S : y >= m
<1>6. z \in S /\ \A m \in S : z >= m BY <1>5
<1>7. Max(S) = z BY DEF Max
<1> HIDE DEF z
<1>8. z \in 1..n BY <1>6
<1> QED BY <1>6, <1>7, <1>8

LEMMA Prefix ==
    ASSUME NEW S, NEW s \in Seq(S), NEW m \in 0..Len(s)
    PROVE  /\ SubSeq(s, 1, m) \in Seq(S) /\ Len(SubSeq(s, 1, m)) = m
           /\ \A i \in 1..m : SubSeq(s, 1, m)[i] = s[i]
OBVIOUS

LEMMA Appended ==
    ASSUME NEW S, NEW s \in Seq(S), NEW v \in S
    PROVE  /\ Append(s, v) \in Seq(S) /\ Len(Append(s, v)) = Len(s) + 1
           /\ Append(s, v)[Len(s) + 1] = v
           /\ \A i \in 1..Len(s) : Append(s, v)[i] = s[i]
OBVIOUS

LEMMA Replaced ==
    ASSUME NEW S, NEW s \in Seq(S), NEW p \in 1..Len(s), NEW v \in S
    PROVE  /\ [s EXCEPT ![p] = v] \in Seq(S) /\ Len([s EXCEPT ![p] = v]) = Len(s)
           /\ [s EXCEPT ![p] = v][p] = v
           /\ \A i \in 1..Len(s) : i # p => [s EXCEPT ![p] = v][i] = s[i]
OBVIOUS

-----------------------------------------------------------------------------
(* What a chain of compilers is made of. *)

LEMMA CompilerTypes ==
    ASSUME NEW k, CompilerOK(k)
    PROVE  /\ k \in Compilers /\ k.scopeDepth \in Nat
           /\ k.locals \in Seq(Locals) /\ Len(k.locals) \in Nat
           /\ DOMAIN k.locals = 1..Len(k.locals)
           /\ \A n \in 1..Len(k.locals) : k.locals[n] \in Locals
           /\ k.upvalues \in Seq(Upvalues) /\ Len(k.upvalues) \in Nat
           /\ DOMAIN k.upvalues = 1..Len(k.upvalues)
           /\ \A u \in 1..Len(k.upvalues) : k.upvalues[u] \in Upvalues
<1> DEFINE L == Seq(Locals)
           U == Seq(Upvalues)
<1>1. k \in [locals : L, upvalues : U, scopeDepth : Nat] BY DEF CompilerOK, Compilers
<1> HIDE DEF L, U
<1>2. k.locals \in L /\ k.upvalues \in U /\ k.scopeDepth \in Nat BY <1>1
<1>3. /\ Len(k.locals) \in Nat /\ DOMAIN k.locals = 1..Len(k.locals)
      /\ \A n \in 1..Len(k.locals) : k.locals[n] \in Locals
      BY <1>2 DEF L
<1>4. /\ Len(k.upvalues) \in Nat /\ DOMAIN k.upvalues = 1..Len(k.upvalues)
      /\ \A n \in 1..Len(k.upvalues) : k.upvalues[n] \in Upvalues
      BY <1>2 DEF U
<1> QED BY <1>2, <1>3, <1>4 DEF L, U, CompilerOK

LEMMA ChainTypes ==
    ASSUME NEW cs, Chain(cs)
    PROVE  /\ cs \in Seq(Compilers) /\ Len(cs) \in Nat /\ Len(cs) >= 1
           /\ DOMAIN cs = 1..Len(cs)
           /\ \A c \in 1..Len(cs) : cs[c] \in Compilers /\ CompilerOK(cs[c])
<1> QED BY DEF Chain

(* ds is cs with k for its innermost compiler. *)
IsSet(ds, cs, k) ==
    /\ Len(ds) = Len(cs) /\ ds[Len(cs)] = k
    /\ \A c \in 1..Len(cs) : c # Len(cs) => ds[c] = cs[c]

(* The locals `new` are of the variables and marks of `old`, but for a last   *)
(* one that is the declaration w, made after v others.                        *)
FromLocals(new, old, v, w) ==
    \A n \in 2..Len(new) :
        \/ /\ n <= Len(old) /\ new[n].variable = old[n].variable
           /\ new[n].captured = old[n].captured
        \/ n = Len(new) /\ w = v + 1 /\ new[n].variable = w

(* From v to w one declaration is made at most; those in X are of the first v. *)
Counted(v, w, X) == v \in Nat /\ w \in {v, v + 1} /\ X \subseteq 1..v

(* Of the innermost compiler, what does not change its upvalues may be done. *)
LEMMA ChainReplaced ==
    ASSUME NEW cs, Chain(cs), NEW k, CompilerOK(k), k.upvalues = cs[Len(cs)].upvalues
    PROVE  LET ds == [cs EXCEPT ![Len(cs)] = k]
           IN  Chain(ds) /\ IsSet(ds, cs, k)
<1> DEFINE ds == [cs EXCEPT ![Len(cs)] = k]
           d == Len(cs)
<1>1. cs \in Seq(Compilers) /\ d \in Nat /\ d \in 1..Len(cs) BY ChainTypes
<1>2. k \in Compilers BY DEF CompilerOK
<1>3. /\ ds \in Seq(Compilers) /\ Len(ds) = d /\ ds[d] = k
      /\ \A c \in 1..d : c # d => ds[c] = cs[c]
      BY <1>1, <1>2, Replaced
<1> HIDE DEF ds, d
<1>4. \A c \in 1..d : ds[c].upvalues = cs[c].upvalues BY <1>3 DEF d
<1>5. Chain(ds)
  <2>1. ds[1].upvalues = <<>> BY <1>1, <1>4 DEF Chain, d
  <2>2. \A c \in 1..Len(ds) : CompilerOK(ds[c]) BY <1>3 DEF Chain, d
  <2>3. ASSUME NEW c \in 2..Len(ds) PROVE LinkOK(ds[c], ds[c - 1])
    <3>1. c \in 1..d /\ c - 1 \in 1..d /\ c - 1 # d BY <1>1, <1>3
    <3>2. ds[c - 1] = cs[c - 1] /\ ds[c].upvalues = cs[c].upvalues BY <3>1, <1>3, <1>4
    <3>3. LinkOK(cs[c], cs[c - 1]) BY <1>3 DEF Chain, d
    <3> QED BY <3>2, <3>3 DEF LinkOK
  <2> QED BY <1>1, <1>3, <2>1, <2>2, <2>3 DEF Chain
<1> QED BY <1>3, <1>5 DEF ds, d, IsSet

(* A local may be added, as the last of the innermost compiler. *)
LEMMA LocalsReplaced ==
    ASSUME NEW cs, Chain(cs), NEW k, CompilerOK(k), NEW ds, IsSet(ds, cs, k),
           NEW v, NEW w, NEW X, Counted(v, w, X), Declared(cs, v), Marked(cs, X),
           FromLocals(k.locals, cs[Len(cs)].locals, v, w)
    PROVE  Declared(ds, w) /\ Marked(ds, X)
<1> DEFINE d == Len(cs)
<1>0. /\ Len(ds) = Len(cs) /\ ds[Len(cs)] = k
      /\ \A c \in 1..Len(cs) : c # Len(cs) => ds[c] = cs[c]
      BY DEF IsSet
<1>v. v \in Nat /\ w \in {v, v + 1} /\ X \subseteq 1..v BY DEF Counted
(* A local is one there was before, or the new one. *)
<1>1. ASSUME NEW c \in 1..d, NEW n \in 2..Len(ds[c].locals)
      PROVE  \/ /\ n \in 2..Len(cs[c].locals)
                /\ ds[c].locals[n].variable = cs[c].locals[n].variable
                /\ ds[c].locals[n].captured = cs[c].locals[n].captured
             \/ c = d /\ n = Len(k.locals) /\ w = v + 1 /\ ds[c].locals[n].variable = w
  <2>1. CASE c # d BY <1>0, <2>1
  <2>2. CASE c = d
    <3>1. n \in 2..Len(k.locals) /\ ds[c] = k BY <1>0, <2>2
    <3>2. Len(k.locals) \in Nat /\ Len(cs[d].locals) \in Nat BY CompilerTypes, ChainTypes
    <3> QED BY <2>2, <3>1, <3>2 DEF FromLocals
  <2> QED BY <2>1, <2>2
<1>2. \A c \in 1..d : \A n \in 2..Len(cs[c].locals) : cs[c].locals[n].variable \in 1..v
      BY DEF Declared
<1>3. d \in Nat BY ChainTypes
<1> HIDE DEF d
<1>4. Declared(ds, w)
  <2>1. ASSUME NEW c \in 1..d, NEW n \in 2..Len(ds[c].locals)
        PROVE  ds[c].locals[n].variable \in 1..w
    <3>1. w \in Nat /\ 1..v \subseteq 1..w BY <1>v
    <3>2. w = v + 1 => w \in 1..w BY <1>v
    <3>3. CASE n \in 2..Len(cs[c].locals) /\ ds[c].locals[n].variable = cs[c].locals[n].variable
      <4>1. cs[c].locals[n].variable \in 1..v BY <3>3, <1>2
      <4> QED BY <3>1, <3>3, <4>1
    <3>4. CASE w = v + 1 /\ ds[c].locals[n].variable = w BY <3>2, <3>4
    <3> QED BY <3>3, <3>4, <1>1
  <2>2. ASSUME NEW c \in 1..d, NEW e \in 1..d, NEW n \in 2..Len(ds[c].locals),
               NEW m \in 2..Len(ds[e].locals), ds[c].locals[n].variable = ds[e].locals[m].variable
        PROVE  c = e /\ n = m
    <3>1. v + 1 \notin 1..v BY <1>v
    <3>2. CASE /\ n \in 2..Len(cs[c].locals) /\ m \in 2..Len(cs[e].locals)
               /\ ds[c].locals[n].variable = cs[c].locals[n].variable
               /\ ds[e].locals[m].variable = cs[e].locals[m].variable
      <4>1. cs[c].locals[n].variable = cs[e].locals[m].variable BY <2>2, <3>2
      <4>2. \A a, b \in 1..d : \A i \in 2..Len(cs[a].locals), j \in 2..Len(cs[b].locals) :
              cs[a].locals[i].variable = cs[b].locals[j].variable => a = b /\ i = j
            BY DEF Declared, d
      <4>3. n \in 2..Len(cs[c].locals) /\ m \in 2..Len(cs[e].locals) BY <3>2
      <4>4. \A i \in 2..Len(cs[c].locals), j \in 2..Len(cs[e].locals) :
              cs[c].locals[i].variable = cs[e].locals[j].variable => c = e /\ i = j
            BY ONLY <4>2, c \in 1..d, e \in 1..d
      <4> QED BY ONLY <4>1, <4>3, <4>4
    <3>3. CASE n \in 2..Len(cs[c].locals) /\ ds[c].locals[n].variable = cs[c].locals[n].variable
      <4>1. ds[c].locals[n].variable \in 1..v BY <3>3, <1>2
      <4>2. m \in 2..Len(cs[e].locals) /\ ds[e].locals[m].variable = cs[e].locals[m].variable
            BY <4>1, <3>1, <2>2, <1>1
      <4> QED BY <3>2, <3>3, <4>2
    <3>4. CASE c = d /\ n = Len(k.locals) /\ w = v + 1 /\ ds[c].locals[n].variable = w
      <4>1. CASE m \in 2..Len(cs[e].locals) /\ ds[e].locals[m].variable = cs[e].locals[m].variable
        <5>1. ds[e].locals[m].variable \in 1..v BY <4>1, <1>2
        <5> QED BY <5>1, <3>1, <3>4, <2>2
      <4>2. CASE e = d /\ m = Len(k.locals) BY <3>4, <4>2
      <4> QED BY <4>1, <4>2, <1>1
    <3> QED BY <3>3, <3>4, <1>1
  <2> QED BY <1>0, <2>1, <2>2 DEF Declared, d
<1>5. Marked(ds, X)
  <2> SUFFICES ASSUME NEW c \in 1..d, NEW n \in 2..Len(ds[c].locals),
                      ds[c].locals[n].variable \in X
               PROVE  ds[c].locals[n].captured
      BY <1>0 DEF Marked, d
  <2>1. v + 1 \notin X BY <1>v
  <2> QED BY <2>1, <1>1 DEF Marked, d
<1> QED BY <1>4, <1>5

-----------------------------------------------------------------------------
(* What the pairs lead to. *)

(* What the upvalues of compiler c refer to, if those of the others are `of`. *)
Follow(cs, of, c) ==
    [u \in DOMAIN cs[c].upvalues |->
        IF cs[c].upvalues[u].isLocal
          THEN cs[c - 1].locals[cs[c].upvalues[u].index].variable
          ELSE of[c - 1][cs[c].upvalues[u].index]]

CapturesOf(cs) == CHOOSE of : of = [c \in 1..Len(cs) |-> Follow(cs, of, c)]

LEMMA CapturesNow == Captures = CapturesOf(compilers)
BY DEF Captures, CapturesOf, Follow, Depth

(* The script's compiler has no upvalues, so the recursion is well founded. *)
LEMMA FollowBelow ==
    ASSUME NEW cs, Chain(cs), NEW c \in 1..Len(cs), NEW f, NEW g,
           c > 1 => f[c - 1] = g[c - 1]
    PROVE  Follow(cs, f, c) = Follow(cs, g, c)
<1>1. c \in Nat /\ c >= 1 BY ChainTypes
<1>2. CASE c = 1
  <2>1. cs[c].upvalues = <<>> BY <1>2 DEF Chain
  <2>2. DOMAIN cs[c].upvalues = {} BY <2>1
  <2> QED BY <2>2 DEF Follow
<1>3. CASE c > 1 BY <1>3 DEF Follow
<1> QED BY <1>1, <1>2, <1>3

LEMMA CapturesFollow ==
    ASSUME NEW cs, Chain(cs)
    PROVE  /\ CapturesOf(cs) = [c \in 1..Len(cs) |-> Follow(cs, CapturesOf(cs), c)]
           /\ \A c \in 1..Len(cs) : CapturesOf(cs)[c] = Follow(cs, CapturesOf(cs), c)
<1> DEFINE Good(f, n) == f = [c \in 1..n |-> Follow(cs, f, c)]
           Bad == {n \in 0..Len(cs) : \A f : ~Good(f, n)}
<1>1. Len(cs) \in Nat BY ChainTypes
<1>2. Bad = {}
  <2> SUFFICES ASSUME Bad # {} PROVE FALSE OBVIOUS
  <2>1. Bad \in SUBSET Nat BY <1>1
  <2>2. PICK n \in Bad : \A m \in Bad : n <= m BY <2>1, LeastNat
  <2>3. n \in Nat /\ n <= Len(cs) BY <2>1, <2>2, <1>1
  <2>4. CASE n = 0
    <3> DEFINE f == [c \in 1..n |-> 0]
    <3>1. 1..n = {} BY <2>4
    <3>2. Good(f, n) BY <3>1
    <3> QED BY <3>2, <2>2
  <2>5. CASE n # 0
    <3>1. n - 1 \in 0..Len(cs) /\ ~(n <= n - 1) BY <2>3, <2>5, <1>1
    <3>2. n - 1 \notin Bad BY <3>1, <2>2
    <3>3. PICK f : Good(f, n - 1) BY <3>1, <3>2
    <3> DEFINE g == [c \in 1..n |-> IF c = n THEN Follow(cs, f, n) ELSE f[c]]
    <3>4. ASSUME NEW c \in 1..n PROVE g[c] = Follow(cs, g, c)
      <4>1. c \in 1..Len(cs) /\ c \in Nat BY <2>3, <1>1
      <4>2. c > 1 => f[c - 1] = g[c - 1]
        <5> SUFFICES ASSUME c > 1 PROVE f[c - 1] = g[c - 1] OBVIOUS
        <5>1. c - 1 \in 1..n /\ c - 1 # n BY <4>1, <2>3
        <5> QED BY <5>1
      <4>3. Follow(cs, f, c) = Follow(cs, g, c)
        <5> HIDE DEF g
        <5> QED BY <4>1, <4>2, FollowBelow
      <4>4. g[c] = Follow(cs, f, c)
        <5>1. CASE c = n BY <5>1
        <5>2. CASE c # n
          <6>1. c \in 1..(n - 1) BY <5>2, <4>1, <2>3
          <6>2. f[c] = [e \in 1..(n - 1) |-> Follow(cs, f, e)][c] BY <3>3
          <6>3. f[c] = Follow(cs, f, c) BY <6>1, <6>2
          <6> QED BY <5>2, <6>3
        <5> QED BY <5>1, <5>2
      <4> QED BY <4>3, <4>4
    <3>5. Good(g, n)
      <4>1. g = [c \in 1..n |-> g[c]] OBVIOUS
      <4> HIDE DEF g
      <4>2. [c \in 1..n |-> g[c]] = [c \in 1..n |-> Follow(cs, g, c)] BY <3>4
      <4> QED BY <4>1, <4>2
    <3> QED BY <3>5, <2>2
  <2> QED BY <2>4, <2>5
<1>3. \E f : Good(f, Len(cs))
  <2>1. Len(cs) \in 0..Len(cs) BY <1>1
  <2> QED BY <1>2, <2>1
<1>4. CapturesOf(cs) = [c \in 1..Len(cs) |-> Follow(cs, CapturesOf(cs), c)]
      BY <1>3 DEF CapturesOf
<1> DEFINE h == CapturesOf(cs)
<1>5. h = [c \in 1..Len(cs) |-> Follow(cs, h, c)] BY <1>4
<1> HIDE DEF h
<1>6. \A c \in 1..Len(cs) : h[c] = Follow(cs, h, c)
  <2> TAKE c \in 1..Len(cs)
  <2>1. h[c] = [e \in 1..Len(cs) |-> Follow(cs, h, e)][c] BY <1>5
  <2> QED BY <2>1
<1> QED BY <1>4, <1>6 DEF h

(* One pair followed one compiler outwards. *)
FollowsOut(cs, c, u) ==
    /\ c \in 2..Len(cs) /\ c - 1 \in 1..Len(cs) /\ c - 1 \in Nat
    /\ LinkOK(cs[c], cs[c - 1])
    /\ CapturesOf(cs)[c][u] = IF cs[c].upvalues[u].isLocal
                                THEN cs[c - 1].locals[cs[c].upvalues[u].index].variable
                                ELSE CapturesOf(cs)[c - 1][cs[c].upvalues[u].index]

LEMMA Unfold ==
    ASSUME NEW cs, Chain(cs), NEW c \in 1..Len(cs)
    PROVE  /\ DOMAIN CapturesOf(cs)[c] = 1..Len(cs[c].upvalues)
           /\ \A u \in 1..Len(cs[c].upvalues) : FollowsOut(cs, c, u)
<1> DEFINE of == CapturesOf(cs)
<1>1. of[c] = Follow(cs, of, c) BY CapturesFollow
<1> HIDE DEF of
<1>2. CompilerOK(cs[c]) /\ Len(cs) \in Nat BY ChainTypes
<1>3. DOMAIN cs[c].upvalues = 1..Len(cs[c].upvalues) BY <1>2, CompilerTypes
<1>4. DOMAIN of[c] = 1..Len(cs[c].upvalues) BY <1>1, <1>3 DEF Follow
<1>5. ASSUME NEW u \in 1..Len(cs[c].upvalues)
      PROVE  /\ c \in 2..Len(cs) /\ c - 1 \in 1..Len(cs) /\ c - 1 \in Nat
             /\ LinkOK(cs[c], cs[c - 1])
             /\ of[c][u] = IF cs[c].upvalues[u].isLocal
                             THEN cs[c - 1].locals[cs[c].upvalues[u].index].variable
                             ELSE of[c - 1][cs[c].upvalues[u].index]
  <2>1. c # 1
    <3> SUFFICES ASSUME c = 1 PROVE FALSE OBVIOUS
    <3>1. cs[c].upvalues = <<>> BY DEF Chain
    <3>2. Len(cs[c].upvalues) = 0 BY <3>1
    <3> QED BY <3>2
  <2>2. c \in 2..Len(cs) /\ c - 1 \in 1..Len(cs) /\ c - 1 \in Nat BY <2>1, <1>2
  <2>3. LinkOK(cs[c], cs[c - 1]) BY <2>2 DEF Chain
  <2> QED BY <2>2, <2>3, <1>1, <1>3 DEF Follow
<1> QED BY <1>4, <1>5 DEF of, FollowsOut

(* Every pair leads to a marked local of a function further out. *)
LeadsOut(cs, c, u) ==
    \E k \in 1..Len(cs) : \E n \in 2..Len(cs[k].locals) :
        /\ k < c /\ cs[k].locals[n].captured
        /\ CapturesOf(cs)[c][u] = cs[k].locals[n].variable

LEMMA Refers ==
    ASSUME NEW cs, Chain(cs), NEW c \in 1..Len(cs), NEW u \in 1..Len(cs[c].upvalues)
    PROVE  LeadsOut(cs, c, u)
<1> DEFINE Bad == {d \in 1..Len(cs) : \E w \in 1..Len(cs[d].upvalues) : ~LeadsOut(cs, d, w)}
<1>1. Len(cs) \in Nat BY ChainTypes
<1> SUFFICES ASSUME Bad # {} PROVE FALSE OBVIOUS
<1>2. Bad \in SUBSET Nat BY <1>1
<1>3. PICK d \in Bad : \A e \in Bad : d <= e BY <1>2, LeastNat
<1>4. d \in 1..Len(cs) /\ d \in Nat BY <1>2
<1>5. PICK w \in 1..Len(cs[d].upvalues) : ~LeadsOut(cs, d, w) BY <1>3
<1> DEFINE up == cs[d].upvalues[w]
           b == d - 1
<1>6. /\ b \in 1..Len(cs) /\ b \in Nat /\ LinkOK(cs[d], cs[b])
      /\ CapturesOf(cs)[d][w] = IF up.isLocal THEN cs[b].locals[up.index].variable
                                              ELSE CapturesOf(cs)[b][up.index]
  <2>1. FollowsOut(cs, d, w) BY <1>4, Unfold
  <2> QED BY <2>1 DEF FollowsOut
<1>7. b < d /\ ~(d <= b) BY <1>4
<1>8. IF up.isLocal THEN up.index \in 2..Len(cs[b].locals) /\ cs[b].locals[up.index].captured
                    ELSE up.index \in 1..Len(cs[b].upvalues)
      BY <1>6 DEF LinkOK
<1> HIDE DEF b
<1>9. CASE up.isLocal BY <1>5, <1>6, <1>7, <1>8, <1>9 DEF LeadsOut
<1>10. CASE ~up.isLocal
  <2>1. b \notin Bad BY <1>3, <1>7
  <2>2. LeadsOut(cs, b, up.index) BY <2>1, <1>6, <1>8, <1>10
  <2>3. PICK k \in 1..Len(cs) : \E n \in 2..Len(cs[k].locals) :
               /\ k < b /\ cs[k].locals[n].captured
               /\ CapturesOf(cs)[b][up.index] = cs[k].locals[n].variable
        BY <2>2 DEF LeadsOut
  <2>4. k < d BY <2>3, <1>1, <1>4, <1>6, <1>7
  <2> QED BY <2>3, <2>4, <1>5, <1>6, <1>10 DEF LeadsOut
<1> QED BY <1>9, <1>10

LEMMA SamePair ==
    ASSUME NEW x \in Upvalues, NEW y \in Upvalues, x.index = y.index, x.isLocal <=> y.isLocal
    PROVE  x = y
BY DEF Upvalues

LEMMA DeclaredOnce ==
    ASSUME NEW cs, NEW v, Declared(cs, v), NEW c \in 1..Len(cs), NEW d \in 1..Len(cs),
           NEW n \in 2..Len(cs[c].locals), NEW m \in 2..Len(cs[d].locals),
           cs[c].locals[n].variable = cs[d].locals[m].variable
    PROVE  c = d /\ n = m
<1>1. \A i \in 2..Len(cs[c].locals), j \in 2..Len(cs[d].locals) :
        cs[c].locals[i].variable = cs[d].locals[j].variable => c = d /\ i = j
      BY DEF Declared
<1> QED BY <1>1

(* No two pairs of a function lead to the same variable. *)
LEMMA Injective ==
    ASSUME NEW cs, Chain(cs), NEW v, Declared(cs, v), NEW c \in 1..Len(cs),
           NEW u \in 1..Len(cs[c].upvalues), NEW w \in 1..Len(cs[c].upvalues),
           CapturesOf(cs)[c][u] = CapturesOf(cs)[c][w]
    PROVE  u = w
<1> DEFINE Same(d) == \A i, j \in 1..Len(cs[d].upvalues) :
                        CapturesOf(cs)[d][i] = CapturesOf(cs)[d][j] => i = j
           Bad == {d \in 1..Len(cs) : ~Same(d)}
<1>1. Len(cs) \in Nat BY ChainTypes
<1> SUFFICES ASSUME Bad # {} PROVE FALSE OBVIOUS
<1>2. Bad \in SUBSET Nat BY <1>1
<1>3. PICK d \in Bad : \A e \in Bad : d <= e BY <1>2, LeastNat
<1>4. d \in 1..Len(cs) /\ d \in Nat BY <1>2
<1>5. PICK i \in 1..Len(cs[d].upvalues), j \in 1..Len(cs[d].upvalues) :
        CapturesOf(cs)[d][i] = CapturesOf(cs)[d][j] /\ i # j
      BY <1>3
<1> DEFINE x == cs[d].upvalues[i]
           y == cs[d].upvalues[j]
           b == d - 1
<1>6. /\ b \in 1..Len(cs) /\ b \in Nat /\ LinkOK(cs[d], cs[b])
      /\ CapturesOf(cs)[d][i] = IF x.isLocal THEN cs[b].locals[x.index].variable
                                             ELSE CapturesOf(cs)[b][x.index]
      /\ CapturesOf(cs)[d][j] = IF y.isLocal THEN cs[b].locals[y.index].variable
                                             ELSE CapturesOf(cs)[b][y.index]
  <2>1. FollowsOut(cs, d, i) /\ FollowsOut(cs, d, j) BY <1>4, Unfold
  <2> QED BY <2>1 DEF FollowsOut
<1>7. b < d /\ ~(d <= b) BY <1>4
<1>8. /\ IF x.isLocal THEN x.index \in 2..Len(cs[b].locals)
                      ELSE x.index \in 1..Len(cs[b].upvalues)
      /\ IF y.isLocal THEN y.index \in 2..Len(cs[b].locals)
                      ELSE y.index \in 1..Len(cs[b].upvalues)
      BY <1>6 DEF LinkOK
<1>9. x # y /\ x \in Upvalues /\ y \in Upvalues
  <2>1. CompilerOK(cs[d]) BY <1>4, ChainTypes
  <2> QED BY <2>1, <1>5, CompilerTypes DEF CompilerOK
<1>10. ~(x.index = y.index /\ (x.isLocal <=> y.isLocal))
  <2> HIDE DEF x, y
  <2> QED BY <1>9, SamePair
<1>11. x.isLocal \in BOOLEAN /\ y.isLocal \in BOOLEAN BY <1>9 DEF Upvalues
<1> HIDE DEF b, x, y
<1>12. CASE x.isLocal /\ y.isLocal
  <2>1. cs[b].locals[x.index].variable = cs[b].locals[y.index].variable
        BY <1>5, <1>6, <1>12
  <2>2. PICK p \in 2..Len(cs[b].locals), q \in 2..Len(cs[b].locals) : p = x.index /\ q = y.index
        BY <1>8, <1>12
  <2>3. cs[b].locals[p].variable = cs[b].locals[q].variable BY <2>1, <2>2
  <2>4. p = q BY <2>3, <1>6, DeclaredOnce
  <2> QED BY <2>2, <2>4, <1>10, <1>12
<1>13. CASE ~x.isLocal /\ ~y.isLocal
  <2>1. b \notin Bad BY <1>3, <1>7
  <2>2. CapturesOf(cs)[b][x.index] = CapturesOf(cs)[b][y.index] BY <1>5, <1>6, <1>13
  <2>3. Same(b) BY <2>1, <1>6
  <2>4. x.index = y.index BY <2>2, <2>3, <1>8, <1>13
  <2> QED BY <2>4, <1>10, <1>13
(* A local of the function around this one is no local of those further out. *)
<1>14. ASSUME NEW p \in 2..Len(cs[b].locals), NEW q \in 1..Len(cs[b].upvalues),
              cs[b].locals[p].variable = CapturesOf(cs)[b][q]
       PROVE  FALSE
  <2>a. b \in 1..Len(cs) BY <1>6
  <2>1. PICK k \in 1..Len(cs) : \E n \in 2..Len(cs[k].locals) :
               /\ k < b /\ cs[k].locals[n].captured
               /\ CapturesOf(cs)[b][q] = cs[k].locals[n].variable
    <3>1. LeadsOut(cs, b, q) BY <2>a, Refers
    <3> QED BY <3>1 DEF LeadsOut
  <2>2. PICK n \in 2..Len(cs[k].locals) : k < b /\ cs[b].locals[p].variable = cs[k].locals[n].variable
        BY <2>1, <1>14
  <2>3. b = k BY <2>a, <2>2, DeclaredOnce
  <2> QED BY <2>2, <2>3, <1>6
<1>15. CASE x.isLocal /\ ~y.isLocal BY <1>5, <1>6, <1>8, <1>14, <1>15
<1>16. CASE ~x.isLocal /\ y.isLocal BY <1>5, <1>6, <1>8, <1>14, <1>16
<1> QED BY <1>11, <1>12, <1>13, <1>15, <1>16

-----------------------------------------------------------------------------
(* The innermost compiler. *)

LEMMA CurrentFacts ==
    ASSUME IInv
    PROVE  /\ Chain(compilers) /\ Declared(compilers, variables) /\ Marked(compilers, closedOver)
           /\ status \in {"compiling", "error"}
           /\ variables \in Nat /\ variables <= MaxVariables /\ MaxVariables \in Nat
           /\ closedOver \subseteq 1..variables
           /\ Depth = Len(compilers) /\ Depth \in Nat /\ Depth >= 1 /\ Depth \in 1..Len(compilers)
           /\ Current = compilers[Depth] /\ CompilerOK(Current)
           /\ AccessOK
<1>1. MaxVariables \in Nat BY BoundsAssumption
<1>2. Chain(compilers) BY DEF IInv
<1>3. Len(compilers) \in Nat /\ Len(compilers) >= 1 BY <1>2, ChainTypes
<1>4. Depth \in 1..Len(compilers) BY <1>3 DEF Depth
<1>5. CompilerOK(Current) BY <1>2, <1>4, ChainTypes DEF Current
<1> QED BY <1>1, <1>2, <1>3, <1>4, <1>5 DEF IInv, Depth, Current

(* A local of the program, new or not. *)
LEMMA LocalType ==
    ASSUME NEW name \in Names \cup {NoName}, NEW depth \in Uninitialized..MaxDepth,
           NEW v \in 1..MaxVariables \cup {Global}
    PROVE  /\ Local(name, depth, v) \in Locals
           /\ Local(name, depth, v).name = name /\ Local(name, depth, v).variable = v
           /\ Local(name, depth, v).depth = depth
BY DEF Local, Locals

(* Its locals or its depth set. *)
LEMMA CompilerSet ==
    ASSUME NEW k, CompilerOK(k), NEW ls \in Seq(Locals), NEW d \in Nat, d <= MaxDepth,
           Len(ls) >= 1, Len(ls) <= MaxLocals,
           ls[1].name = NoName, ls[1].depth = 0, ls[1].variable = Global,
           \A n \in 2..Len(ls) : ls[n].name \in Names
    PROVE  LET new == [locals |-> ls, upvalues |-> k.upvalues, scopeDepth |-> d]
           IN  CompilerOK(new) /\ new.upvalues = k.upvalues /\ new.locals = ls
<1> DEFINE new == [locals |-> ls, upvalues |-> k.upvalues, scopeDepth |-> d]
           L == Seq(Locals)
           U == Seq(Upvalues)
<1>1. k.upvalues \in U /\ ls \in L BY CompilerTypes
<1> HIDE DEF L, U
<1>2. new \in [locals : L, upvalues : U, scopeDepth : Nat] BY <1>1
<1>3. new \in Compilers BY <1>2 DEF Compilers, L, U
<1>4. new.locals = ls /\ new.upvalues = k.upvalues /\ new.scopeDepth = d OBVIOUS
<1> HIDE DEF new
<1>5. CompilerOK(new) BY <1>3, <1>4 DEF CompilerOK
<1> QED BY <1>4, <1>5 DEF new

LEMMA Remade ==
    ASSUME NEW k, CompilerOK(k), NEW ls, NEW d
    PROVE  /\ [k EXCEPT !.scopeDepth = d] =
                [locals |-> k.locals, upvalues |-> k.upvalues, scopeDepth |-> d]
           /\ [k EXCEPT !.locals = ls] =
                [locals |-> ls, upvalues |-> k.upvalues, scopeDepth |-> k.scopeDepth]
<1> DEFINE L == Seq(Locals)
           U == Seq(Upvalues)
<1>1. k \in [locals : L, upvalues : U, scopeDepth : Nat] BY DEF CompilerOK, Compilers
<1> HIDE DEF L, U
<1>2. k = [locals |-> k.locals, upvalues |-> k.upvalues, scopeDepth |-> k.scopeDepth] BY <1>1
<1>3. DOMAIN k = {"locals", "upvalues", "scopeDepth"} BY <1>1
<1>4. [k EXCEPT !.scopeDepth = d] =
        [locals |-> k.locals, upvalues |-> k.upvalues, scopeDepth |-> d] BY <1>1
<1>5. [k EXCEPT !.locals = ls] =
        [locals |-> ls, upvalues |-> k.upvalues, scopeDepth |-> k.scopeDepth] BY <1>1
<1> QED BY <1>4, <1>5

(* What is done to the locals of the innermost compiler. *)
LEMMA CurrentSet ==
    ASSUME IInv, NEW ls \in Seq(Locals), NEW d \in Nat, d <= MaxDepth,
           Len(ls) >= 1, Len(ls) <= MaxLocals,
           ls[1].name = NoName, ls[1].depth = 0, ls[1].variable = Global,
           \A n \in 2..Len(ls) : ls[n].name \in Names,
           NEW w, w \in {variables, variables + 1},
           FromLocals(ls, Current.locals, variables, w)
    PROVE  LET ds == [compilers EXCEPT ![Depth] =
                        [locals |-> ls, upvalues |-> Current.upvalues, scopeDepth |-> d]]
           IN  Chain(ds) /\ Declared(ds, w) /\ Marked(ds, closedOver)
<1>0. /\ Chain(compilers) /\ Declared(compilers, variables) /\ Marked(compilers, closedOver)
      /\ variables \in Nat /\ closedOver \subseteq 1..variables
      /\ Depth = Len(compilers) /\ Depth \in 1..Len(compilers) /\ Current = compilers[Depth]
      /\ CompilerOK(Current)
      BY CurrentFacts
<1> DEFINE k == [locals |-> ls, upvalues |-> Current.upvalues, scopeDepth |-> d]
           cs == compilers
           ds == [cs EXCEPT ![Depth] = k]
           v == variables
           X == closedOver
<1>1. CompilerOK(k) /\ k.upvalues = Current.upvalues /\ k.locals = ls BY <1>0, CompilerSet
<1>2. Chain(cs) /\ Declared(cs, v) /\ Marked(cs, X) BY <1>0
<1>3. ds = [cs EXCEPT ![Len(cs)] = k] /\ k.upvalues = cs[Len(cs)].upvalues BY <1>0, <1>1
<1>4. FromLocals(k.locals, cs[Len(cs)].locals, v, w) BY <1>0, <1>1
<1>5. Counted(v, w, X) BY <1>0 DEF Counted
<1> HIDE DEF k, cs, ds, v, X
<1>6. Chain(ds) /\ IsSet(ds, cs, k) BY <1>1, <1>2, <1>3, ChainReplaced
<1>7. Declared(ds, w) /\ Marked(ds, X)
      BY ONLY <1>1, <1>2, <1>4, <1>5, <1>6, LocalsReplaced
<1> QED BY <1>6, <1>7 DEF ds, cs, k, X

LEMMA CurrentStep ==
    ASSUME IInv, NEW ls \in Seq(Locals), NEW d \in Nat, d <= MaxDepth,
           Len(ls) >= 1, Len(ls) <= MaxLocals,
           ls[1].name = NoName, ls[1].depth = 0, ls[1].variable = Global,
           \A n \in 2..Len(ls) : ls[n].name \in Names,
           SetCurrent([locals |-> ls, upvalues |-> Current.upvalues, scopeDepth |-> d]),
           access' = NoAccess, UNCHANGED <<status, closedOver>>,
           variables' \in {variables, variables + 1}, variables' <= MaxVariables,
           FromLocals(ls, Current.locals, variables, variables')
    PROVE  IInv'
<1> DEFINE ds == [compilers EXCEPT ![Depth] =
                    [locals |-> ls, upvalues |-> Current.upvalues, scopeDepth |-> d]]
           w == variables'
<1>1. w \in {variables, variables + 1} /\ FromLocals(ls, Current.locals, variables, w) OBVIOUS
<1>2. Chain(ds) /\ Declared(ds, w) /\ Marked(ds, closedOver)
  <2> HIDE DEF w
  <2> QED BY <1>1, CurrentSet
<1>3. compilers' = ds BY DEF SetCurrent
<1> HIDE DEF ds
<1>4. /\ status \in {"compiling", "error"} /\ variables \in Nat
      /\ MaxVariables \in Nat /\ closedOver \subseteq 1..variables
      BY CurrentFacts
<1>5. variables' \in 0..MaxVariables /\ closedOver \subseteq 1..variables' BY <1>4
<1>6. AccessOK' BY DEF AccessOK, NoAccess
<1> QED BY <1>2, <1>3, <1>4, <1>5, <1>6 DEF IInv

-----------------------------------------------------------------------------
(* Scopes and declarations. *)

LEMMA BeginScopeInv == IInv /\ BeginScope => IInv'
<1> SUFFICES ASSUME IInv, BeginScope PROVE IInv' OBVIOUS
<1>1. CompilerOK(Current) BY CurrentFacts
<1> DEFINE ls == Current.locals
           d == Current.scopeDepth + 1
<1>2. ls \in Seq(Locals) /\ d \in Nat /\ d <= MaxDepth
      BY <1>1, CompilerTypes, BoundsAssumption DEF BeginScope
<1>3. /\ Len(ls) >= 1 /\ Len(ls) <= MaxLocals
      /\ ls[1].name = NoName /\ ls[1].depth = 0 /\ ls[1].variable = Global
      /\ \A n \in 2..Len(ls) : ls[n].name \in Names
      BY <1>1 DEF CompilerOK
<1>4. SetCurrent([locals |-> ls, upvalues |-> Current.upvalues, scopeDepth |-> d])
      BY <1>1, Remade DEF BeginScope
<1>5. FromLocals(ls, Current.locals, variables, variables') BY <1>2 DEF FromLocals
<1>6. access' = NoAccess /\ UNCHANGED <<status, variables, closedOver>> BY DEF BeginScope
<1>7. variables' \in {variables, variables + 1} /\ variables' <= MaxVariables
      BY <1>6, CurrentFacts
<1> HIDE DEF ls, d
<1> QED BY <1>2, <1>3, <1>4, <1>5, <1>6, <1>7, CurrentStep

(* endScope stops at a local, the callee's at the latest. *)
LEMMA KeptOf ==
    ASSUME IInv, NEW d \in Nat
    PROVE  /\ Kept(d) \in 1..Len(Current.locals) /\ Current.locals[Kept(d)].depth <= d
           /\ \A m \in (Kept(d) + 1)..Len(Current.locals) : Current.locals[m].depth > d
<1> DEFINE ls == Current.locals
<1>1. CompilerOK(Current) BY CurrentFacts
<1>2. /\ Len(ls) \in Nat /\ Len(ls) >= 1 /\ ls[1].depth = 0
      /\ \A n \in 1..Len(ls) : ls[n].depth \in Int
  <2>1. MaxDepth \in Nat BY BoundsAssumption
  <2>2. \A n \in 1..Len(ls) : ls[n] \in Locals BY <1>1, CompilerTypes
  <2>3. Len(ls) \in Nat BY <1>1, CompilerTypes
  <2> QED BY <1>1, <2>1, <2>2, <2>3 DEF CompilerOK, Locals, Uninitialized
<1> HIDE DEF ls
<1> DEFINE Deeper(n) == \A m \in (n + 1)..Len(ls) : ls[m].depth > d
           S == {n \in 0..Len(ls) : Deeper(n)}
<1>3. Len(ls) \in S BY <1>2
<1>4. PICK n \in S : \A m \in S : n <= m
  <2>1. S \in SUBSET Nat /\ S # {} BY <1>2, <1>3
  <2> HIDE DEF S
  <2> QED BY <2>1, LeastNat
<1>5. n \in 0..Len(ls) /\ n \in Nat /\ Deeper(n) BY <1>2
<1>6. ASSUME n > 0 PROVE ls[n].depth <= d
  <2>1. n - 1 \in 0..Len(ls) /\ ~(n <= n - 1) /\ n \in 1..Len(ls) BY <1>2, <1>5, <1>6
  <2>2. n - 1 \notin S BY <2>1, <1>4
  <2>3. PICK m \in ((n - 1) + 1)..Len(ls) : ~(ls[m].depth > d) BY <2>1, <2>2
  <2>4. m = n \/ m \in (n + 1)..Len(ls) BY <1>5, <1>2
  <2>5. m = n BY <2>3, <2>4, <1>5
  <2> QED BY <2>1, <2>3, <2>5, <1>2
<1> DEFINE Stops(j) == (j > 0 => ls[j].depth <= d) /\ Deeper(j)
<1>7. Stops(n) BY <1>5, <1>6
<1>8. Kept(d) = CHOOSE j \in 0..Len(ls) : Stops(j) BY DEF Kept, ls
<1> DEFINE kept == Kept(d)
<1>9. kept \in 0..Len(ls) /\ Stops(kept) BY <1>5, <1>7, <1>8
<1>10. kept # 0
  <2> SUFFICES ASSUME kept = 0 PROVE FALSE OBVIOUS
  <2>1. 1 \in (kept + 1)..Len(ls) BY <1>2
  <2>2. ls[1].depth > d BY <1>9, <2>1
  <2> QED BY <1>2, <2>2
<1> HIDE DEF kept
<1>11. kept \in 1..Len(ls) BY <1>2, <1>9, <1>10
<1>12. ls[kept].depth <= d /\ \A m \in (kept + 1)..Len(ls) : ls[m].depth > d BY <1>9, <1>11
<1> QED BY <1>11, <1>12 DEF kept, ls

LEMMA EndScopeInv == IInv /\ EndScope => IInv'
<1> SUFFICES ASSUME IInv, EndScope PROVE IInv' OBVIOUS
<1>1. CompilerOK(Current) BY CurrentFacts
<1> DEFINE d == Current.scopeDepth - 1
           k == Kept(d)
           ls == SubSeq(Current.locals, 1, k)
<1>2. d \in Nat /\ d <= MaxDepth
  <2>1. Current.scopeDepth \in Nat /\ Current.scopeDepth <= MaxDepth /\ MaxDepth \in Nat
        BY <1>1, CompilerTypes, BoundsAssumption DEF CompilerOK
  <2>2. Current.scopeDepth > 0 BY <2>1 DEF EndScope
  <2> QED BY <2>1, <2>2
<1>3. k \in 1..Len(Current.locals) BY <1>2, KeptOf
<1>4. SetCurrent([locals |-> ls, upvalues |-> Current.upvalues, scopeDepth |-> d])
  <2>1. SetCurrent([Current EXCEPT !.scopeDepth = d, !.locals = SubSeq(@, 1, k)]) BY DEF EndScope
  <2>2. [Current EXCEPT !.scopeDepth = d, !.locals = SubSeq(@, 1, k)] =
          [Current EXCEPT !.scopeDepth = d, !.locals = ls]
    <3> HIDE DEF d, k
    <3>1. [Current EXCEPT !.scopeDepth = d].locals = Current.locals OBVIOUS
    <3> QED BY <3>1
  <2> HIDE DEF ls, d, k
  <2>3. [Current EXCEPT !.scopeDepth = d, !.locals = ls] =
          [locals |-> ls, upvalues |-> Current.upvalues, scopeDepth |-> d]
    <3> DEFINE c == Current
    <3>1. CompilerOK(c) BY <1>1
    <3> HIDE DEF c
    <3> DEFINE m == [c EXCEPT !.scopeDepth = d]
    <3>2. m = [locals |-> c.locals, upvalues |-> c.upvalues, scopeDepth |-> d] BY <3>1, Remade
    <3> HIDE DEF m
    <3>3. [m EXCEPT !.locals = ls] = [locals |-> ls, upvalues |-> c.upvalues, scopeDepth |-> d]
          BY <3>2
    <3> QED BY <3>3 DEF c, m
  <2> QED BY <2>1, <2>2, <2>3
<1> HIDE DEF k, d
<1>5. /\ Current.locals \in Seq(Locals) /\ Len(Current.locals) \in Nat
      /\ Len(Current.locals) <= MaxLocals /\ MaxLocals \in Nat
      BY <1>1, CompilerTypes, BoundsAssumption DEF CompilerOK
<1>6. /\ ls \in Seq(Locals) /\ Len(ls) = k
      /\ \A i \in 1..k : ls[i] = Current.locals[i]
      BY <1>3, <1>5, Prefix
<1> HIDE DEF ls
<1>7. /\ Len(ls) >= 1 /\ Len(ls) <= MaxLocals
      /\ ls[1].name = NoName /\ ls[1].depth = 0 /\ ls[1].variable = Global
      /\ \A n \in 2..Len(ls) : ls[n].name \in Names
      BY <1>1, <1>3, <1>5, <1>6 DEF CompilerOK
<1>8. FromLocals(ls, Current.locals, variables, variables')
  <2> SUFFICES ASSUME NEW n \in 2..Len(ls)
               PROVE  n <= Len(Current.locals) /\ ls[n] = Current.locals[n]
      BY DEF FromLocals
  <2> QED BY <1>3, <1>5, <1>6
<1>9. access' = NoAccess /\ UNCHANGED <<status, variables, closedOver>> BY DEF EndScope
<1>10. variables' \in {variables, variables + 1} /\ variables' <= MaxVariables
      BY <1>9, CurrentFacts
<1> QED BY <1>2, <1>4, <1>6, <1>7, <1>8, <1>9, <1>10, CurrentStep

(* A local declared, while there is room for it. *)
LEMMA LocalAdded ==
    ASSUME IInv, NEW name \in Names, NEW depth \in Uninitialized..MaxDepth,
           Len(Current.locals) # MaxLocals, variables < MaxVariables
    PROVE  LET ls == Append(Current.locals, Local(name, depth, variables + 1))
           IN  /\ ls \in Seq(Locals) /\ Len(ls) >= 1 /\ Len(ls) <= MaxLocals
               /\ ls[1].name = NoName /\ ls[1].depth = 0 /\ ls[1].variable = Global
               /\ \A n \in 2..Len(ls) : ls[n].name \in Names
               /\ FromLocals(ls, Current.locals, variables, variables + 1)
<1>1. CompilerOK(Current) BY CurrentFacts
<1> DEFINE old == Current.locals
           new == Local(name, depth, variables + 1)
           ls == Append(old, new)
<1>2. /\ old \in Seq(Locals) /\ Len(old) \in Nat /\ Len(old) >= 1 /\ Len(old) <= MaxLocals
      /\ MaxLocals \in Nat
      BY <1>1, CompilerTypes, BoundsAssumption DEF CompilerOK
<1>3. variables \in Nat /\ variables + 1 \in 1..MaxVariables
  <2>1. variables \in Nat /\ variables <= MaxVariables /\ MaxVariables \in Nat BY CurrentFacts
  <2> QED BY <2>1
<1>4. new \in Locals /\ new.name = name /\ new.variable = variables + 1
      BY <1>3, LocalType
<1>5. Len(old) # MaxLocals OBVIOUS
<1>6. /\ old[1].name = NoName /\ old[1].depth = 0 /\ old[1].variable = Global
      /\ \A n \in 2..Len(old) : old[n].name \in Names
      BY <1>1 DEF CompilerOK
<1> HIDE DEF new, old
<1>7. /\ ls \in Seq(Locals) /\ Len(ls) = Len(old) + 1 /\ ls[Len(old) + 1] = new
      /\ \A i \in 1..Len(old) : ls[i] = old[i]
      BY <1>2, <1>4, Appended
<1> HIDE DEF ls
<1>8. ASSUME NEW n \in 2..Len(ls)
      PROVE  \/ n \in 2..Len(old) /\ ls[n] = old[n]
             \/ n = Len(ls) /\ ls[n] = new
      BY <1>2, <1>7
<1>9. /\ Len(ls) >= 1 /\ Len(ls) <= MaxLocals
      /\ ls[1].name = NoName /\ ls[1].depth = 0 /\ ls[1].variable = Global
      BY <1>2, <1>5, <1>6, <1>7
<1>10. \A n \in 2..Len(ls) : ls[n].name \in Names BY <1>4, <1>6, <1>8
<1>11. FromLocals(ls, old, variables, variables + 1)
  <2> SUFFICES ASSUME NEW n \in 2..Len(ls)
               PROVE  \/ n <= Len(old) /\ ls[n] = old[n]
                      \/ n = Len(ls) /\ ls[n].variable = variables + 1
      BY DEF FromLocals
  <2> QED BY <1>2, <1>4, <1>8
<1> QED BY <1>7, <1>9, <1>10, <1>11 DEF ls, old, new

LEMMA DeclareVariableInv ==
    ASSUME IInv, NEW name \in Names, DeclareVariable(name), ~DeclarationFails(name)
    PROVE  IInv'
<1>1. CompilerOK(Current) BY CurrentFacts
<1> DEFINE ls == Append(Current.locals, Local(name, Uninitialized, variables + 1))
           d == Current.scopeDepth
<1>2. d \in Nat /\ d <= MaxDepth /\ Uninitialized \in Uninitialized..MaxDepth
      BY <1>1, CompilerTypes, BoundsAssumption DEF CompilerOK, Uninitialized
<1>3. /\ variables \in Nat /\ variables' = variables + 1 /\ variables' <= MaxVariables
      /\ variables < MaxVariables /\ access' = NoAccess /\ UNCHANGED <<status, closedOver>>
  <2>1. variables \in Nat /\ MaxVariables \in Nat BY CurrentFacts
  <2> QED BY <2>1 DEF DeclareVariable
<1>4. Len(Current.locals) # MaxLocals BY DEF DeclareVariable, DeclarationFails
<1>5. SetCurrent([locals |-> ls, upvalues |-> Current.upvalues, scopeDepth |-> d])
  <2>1. SetCurrent([Current EXCEPT !.locals = ls]) BY DEF DeclareVariable
  <2> HIDE DEF ls
  <2>2. [Current EXCEPT !.locals = ls] =
          [locals |-> ls, upvalues |-> Current.upvalues, scopeDepth |-> d]
        BY <1>1, Remade
  <2> QED BY <2>1, <2>2
<1>6. /\ ls \in Seq(Locals) /\ Len(ls) >= 1 /\ Len(ls) <= MaxLocals
      /\ ls[1].name = NoName /\ ls[1].depth = 0 /\ ls[1].variable = Global
      /\ \A n \in 2..Len(ls) : ls[n].name \in Names
      /\ FromLocals(ls, Current.locals, variables, variables + 1)
      BY <1>2, <1>3, <1>4, LocalAdded
<1> HIDE DEF ls, d
<1>7. variables' \in {variables, variables + 1} BY <1>3
<1>8. FromLocals(ls, Current.locals, variables, variables') BY <1>3, <1>6
<1> QED BY <1>2, <1>3, <1>5, <1>6, <1>7, <1>8, CurrentStep

LEMMA InitializeInv == IInv /\ Initialize => IInv'
<1> SUFFICES ASSUME IInv, Initialize PROVE IInv' OBVIOUS
<1>1. CompilerOK(Current) BY CurrentFacts
<1> DEFINE old == Current.locals
           d == Current.scopeDepth
           l == Len(old)
           ls == [old EXCEPT ![l] = [@ EXCEPT !.depth = d]]
<1>2. /\ old \in Seq(Locals) /\ l \in Nat /\ l >= 1 /\ l <= MaxLocals /\ l # 1
      /\ d \in Nat /\ d <= MaxDepth /\ MaxDepth \in Nat
      BY <1>1, CompilerTypes, BoundsAssumption DEF CompilerOK, Initialize, Pending
<1>3. /\ old[1].name = NoName /\ old[1].depth = 0 /\ old[1].variable = Global
      /\ \A n \in 2..Len(old) : old[n].name \in Names
      BY <1>1 DEF CompilerOK
<1>4. SetCurrent([locals |-> ls, upvalues |-> Current.upvalues, scopeDepth |-> d])
  <2>1. SetCurrent([Current EXCEPT !.locals[l].depth = d]) BY DEF Initialize
  <2>2. [Current EXCEPT !.locals[l].depth = d] = [Current EXCEPT !.locals = ls]
    <3> HIDE DEF l, d
    <3> QED OBVIOUS
  <2> HIDE DEF ls
  <2>3. [Current EXCEPT !.locals = ls] =
          [locals |-> ls, upvalues |-> Current.upvalues, scopeDepth |-> d]
        BY <1>1, Remade
  <2> QED BY <2>1, <2>2, <2>3
<1>cur. Current.locals = old OBVIOUS
<1> HIDE DEF old, d
<1> DEFINE x == old[l]
           new == [x EXCEPT !.depth = d]
<1>5. x \in Locals BY <1>2
<1>6. /\ new \in Locals /\ new.name = x.name /\ new.variable = x.variable
      /\ new.captured = x.captured
  <2>1. d \in Uninitialized..MaxDepth BY <1>2 DEF Uninitialized
  <2> HIDE DEF x, d
  <2> QED BY <1>5, <2>1 DEF Locals
<1>7. ls = [old EXCEPT ![l] = new] OBVIOUS
<1> HIDE DEF ls, new
<1>8. /\ ls \in Seq(Locals) /\ Len(ls) = Len(old)
      /\ ls[l] = new /\ \A i \in 1..Len(old) : i # l => ls[i] = old[i]
  <2>1. l \in 1..Len(old) BY <1>2
  <2> HIDE DEF l
  <2> QED BY <1>2, <1>6, <1>7, <2>1, Replaced
<1>9. /\ Len(ls) >= 1 /\ Len(ls) <= MaxLocals
      /\ ls[1].name = NoName /\ ls[1].depth = 0 /\ ls[1].variable = Global
      BY <1>2, <1>3, <1>8
<1>10. ASSUME NEW n \in 2..Len(ls)
       PROVE  /\ n <= Len(old) /\ n \in 2..Len(old) /\ ls[n].name = old[n].name
              /\ ls[n].variable = old[n].variable /\ ls[n].captured = old[n].captured
       BY <1>2, <1>6, <1>8
<1>11. \A n \in 2..Len(ls) : ls[n].name \in Names BY <1>3, <1>10
<1>12. FromLocals(ls, old, variables, variables') BY <1>10 DEF FromLocals
<1>13. access' = NoAccess /\ UNCHANGED <<status, variables, closedOver>> BY DEF Initialize
<1>14. variables' \in {variables, variables + 1} /\ variables' <= MaxVariables
      BY <1>13, CurrentFacts
<1>15. FromLocals(ls, Current.locals, variables, variables') BY <1>12, <1>cur
<1> QED BY <1>2, <1>4, <1>8, <1>9, <1>11, <1>13, <1>14, <1>15, CurrentStep

(* A compiler that has just been made. *)
LEMMA NewCompilerOK ==
    ASSUME NEW d \in Nat, d <= MaxDepth
    PROVE  /\ CompilerOK(NewCompiler(d)) /\ NewCompiler(d).upvalues = <<>>
           /\ Len(NewCompiler(d).locals) = 1
<1> DEFINE l == Local(NoName, 0, Global)
           new == NewCompiler(d)
           L == Seq(Locals)
           U == Seq(Upvalues)
<1>1. MaxDepth \in Nat /\ MaxLocals \in Nat /\ MaxLocals > 0 /\ MaxUpvalues \in Nat
      BY BoundsAssumption
<1>2. l \in Locals /\ l.name = NoName /\ l.depth = 0 /\ l.variable = Global
  <2>1. 0 \in Uninitialized..MaxDepth BY <1>1 DEF Uninitialized
  <2> QED BY <2>1 DEF Local, Locals
<1>3. new.locals = <<l>> /\ new.upvalues = <<>> /\ new.scopeDepth = d BY DEF NewCompiler
<1>4. <<l>> \in L /\ <<>> \in U BY <1>2
<1>5. new \in Compilers
  <2> HIDE DEF l, L, U
  <2>1. [locals |-> <<l>>, upvalues |-> <<>>, scopeDepth |-> d] \in
          [locals : L, upvalues : U, scopeDepth : Nat]
        BY <1>4
  <2> QED BY <2>1 DEF NewCompiler, Compilers, L, U, l
<1> HIDE DEF new, l
<1>6. Len(<<l>>) = 1 /\ <<l>>[1] = l /\ Len(<<>>) = 0 OBVIOUS
<1>7. CompilerOK(new) BY <1>1, <1>2, <1>3, <1>5, <1>6 DEF CompilerOK
<1> QED BY <1>3, <1>6, <1>7 DEF new

(* The script's compiler alone. *)
LEMMA Alone ==
    ASSUME NEW v, NEW X
    PROVE  LET cs == <<NewCompiler(0)>> IN Chain(cs) /\ Declared(cs, v) /\ Marked(cs, X)
<1> DEFINE k == NewCompiler(0)
           cs == <<k>>
<1>1. CompilerOK(k) /\ k.upvalues = <<>> /\ Len(k.locals) = 1
      BY NewCompilerOK, BoundsAssumption
<1> HIDE DEF k
<1>2. k \in Compilers BY <1>1 DEF CompilerOK
<1>3. cs \in Seq(Compilers) /\ Len(cs) = 1 /\ cs[1] = k /\ \A c \in 1..1 : c = 1 BY <1>2
<1> HIDE DEF cs
<1>4. 2..Len(cs) = {} BY <1>3
<1>5. Chain(cs) BY <1>1, <1>3, <1>4 DEF Chain
<1>6. \A c \in 1..Len(cs) : 2..Len(cs[c].locals) = {}
  <2> TAKE c \in 1..Len(cs)
  <2>1. cs[c] = k BY <1>3
  <2>2. 2..1 = {} OBVIOUS
  <2> QED BY <2>1, <2>2, <1>1
<1>7. Declared(cs, v) /\ Marked(cs, X) BY <1>6 DEF Declared, Marked
<1> QED BY <1>5, <1>7 DEF cs, k

LEMMA CompileErrorInv == IInv /\ CompileError => IInv'
<1> SUFFICES ASSUME IInv, CompileError PROVE IInv' OBVIOUS
<1>1. /\ status' = "error" /\ compilers' = <<NewCompiler(0)>> /\ access' = NoAccess
      /\ variables' = variables /\ closedOver' = closedOver
      BY DEF CompileError
<1>2. Chain(compilers') /\ Declared(compilers', variables') /\ Marked(compilers', closedOver')
      BY <1>1, Alone
<1>3. AccessOK' BY <1>1 DEF AccessOK, NoAccess
<1> QED BY <1>1, <1>2, <1>3 DEF IInv

LEMMA InitInv == Init => IInv
<1> SUFFICES ASSUME Init PROVE IInv OBVIOUS
<1>1. Chain(compilers) /\ Declared(compilers, variables) /\ Marked(compilers, closedOver)
      BY Alone DEF Init
<1>2. AccessOK BY DEF AccessOK, NoAccess, Init
<1>3. variables \in 0..MaxVariables BY BoundsAssumption DEF Init
<1> QED BY <1>1, <1>2, <1>3 DEF IInv, Init

-----------------------------------------------------------------------------
(* Functions. *)

LEMMA CompilerAdded ==
    ASSUME NEW cs, Chain(cs), NEW v, NEW X, Declared(cs, v), Marked(cs, X)
    PROVE  LET ds == Append(cs, NewCompiler(1))
           IN  Chain(ds) /\ Declared(ds, v) /\ Marked(ds, X)
<1> DEFINE k == NewCompiler(1)
           d == Len(cs)
           ds == Append(cs, k)
<1>1. CompilerOK(k) /\ k.upvalues = <<>> /\ Len(k.locals) = 1
  <2>1. 1 <= MaxDepth BY BoundsAssumption
  <2> QED BY <2>1, NewCompilerOK
<1>2. cs \in Seq(Compilers) /\ d \in Nat /\ d >= 1 BY ChainTypes
<1> HIDE DEF k
<1>3. k \in Compilers BY <1>1 DEF CompilerOK
<1>4. /\ ds \in Seq(Compilers) /\ Len(ds) = d + 1 /\ ds[d + 1] = k
      /\ \A c \in 1..d : ds[c] = cs[c]
      BY <1>2, <1>3, Appended
<1>5. \A c \in 1..d : CompilerOK(cs[c]) BY DEF Chain
<1>6. \A c \in 2..d : LinkOK(cs[c], cs[c - 1]) BY DEF Chain
<1>7. cs[1].upvalues = <<>> BY DEF Chain
<1> HIDE DEF ds
<1>8. Chain(ds)
  <2>1. ds[1].upvalues = <<>> BY <1>2, <1>4, <1>7
  <2>2. ASSUME NEW c \in 1..Len(ds) PROVE CompilerOK(ds[c])
    <3>1. c \in 1..d \/ c = d + 1 BY <1>2, <1>4
    <3> QED BY <3>1, <1>1, <1>4, <1>5
  <2>3. ASSUME NEW c \in 2..Len(ds) PROVE LinkOK(ds[c], ds[c - 1])
    <3>1. c \in 2..d \/ c = d + 1 BY <1>2, <1>4
    <3>2. CASE c \in 2..d
      <4>1. c \in 1..d /\ c - 1 \in 1..d BY <1>2, <3>2
      <4>2. ds[c] = cs[c] /\ ds[c - 1] = cs[c - 1] BY <4>1, <1>4
      <4> QED BY <3>2, <4>2, <1>6
    <3>3. CASE c = d + 1
      <4>1. ds[c].upvalues = <<>> BY <3>3, <1>1, <1>4
      <4>2. Len(ds[c].upvalues) = 0 BY <4>1
      <4>3. 1..0 = {} OBVIOUS
      <4> QED BY <4>2, <4>3 DEF LinkOK
    <3> QED BY <3>1, <3>2, <3>3
  <2> QED BY <1>2, <1>4, <2>1, <2>2, <2>3 DEF Chain
<1>9. ASSUME NEW c \in 1..Len(ds), NEW n \in 2..Len(ds[c].locals)
      PROVE  c \in 1..d /\ ds[c] = cs[c]
  <2>1. c \in 1..d \/ c = d + 1 BY <1>2, <1>4
  <2>2. c # d + 1
    <3> SUFFICES ASSUME c = d + 1 PROVE FALSE OBVIOUS
    <3>1. Len(ds[c].locals) = 1 BY <1>1, <1>4
    <3>2. 2..1 = {} OBVIOUS
    <3> QED BY <3>1, <3>2
  <2> QED BY <2>1, <2>2, <1>4
<1>10. Declared(ds, v)
  <2>1. ASSUME NEW c \in 1..Len(ds), NEW n \in 2..Len(ds[c].locals)
        PROVE  ds[c].locals[n].variable \in 1..v
        BY <1>9 DEF Declared
  <2>2. ASSUME NEW c \in 1..Len(ds), NEW e \in 1..Len(ds), NEW n \in 2..Len(ds[c].locals),
               NEW m \in 2..Len(ds[e].locals), ds[c].locals[n].variable = ds[e].locals[m].variable
        PROVE  c = e /\ n = m
    <3>1. c \in 1..Len(cs) /\ ds[c] = cs[c] /\ e \in 1..Len(cs) /\ ds[e] = cs[e] BY <1>9
    <3>2. n \in 2..Len(cs[c].locals) /\ m \in 2..Len(cs[e].locals) BY <3>1
    <3>3. cs[c].locals[n].variable = cs[e].locals[m].variable BY <2>2, <3>1
    <3> QED BY <3>1, <3>2, <3>3, DeclaredOnce
  <2> QED BY <2>1, <2>2 DEF Declared
<1>11. Marked(ds, X) BY <1>9 DEF Marked
<1> QED BY <1>8, <1>10, <1>11 DEF ds, k

LEMMA BeginFunctionInv ==
    ASSUME IInv, NEW name \in Names, BeginFunction(name), ~DeclarationFails(name)
    PROVE  IInv'
<1>1. /\ access' = NoAccess /\ status' = status /\ closedOver' = closedOver
      /\ variables < MaxVariables
      BY DEF BeginFunction
<1>2. /\ Chain(compilers) /\ Declared(compilers, variables) /\ Marked(compilers, closedOver)
      /\ status \in {"compiling", "error"}
      /\ variables \in Nat /\ variables <= MaxVariables /\ MaxVariables \in Nat
      /\ closedOver \subseteq 1..variables /\ CompilerOK(Current)
      /\ Depth = Len(compilers) /\ Depth \in 1..Len(compilers) /\ Current = compilers[Depth]
      BY CurrentFacts
<1>3. /\ Chain(compilers') /\ Declared(compilers', variables') /\ Marked(compilers', closedOver)
      /\ variables' \in {variables, variables + 1}
  <2>1. CASE Current.scopeDepth = 0
    <3>1. compilers' = Append(compilers, NewCompiler(1)) /\ variables' = variables
          BY <2>1 DEF BeginFunction
    <3> QED BY <3>1, <1>2, CompilerAdded
  <2>2. CASE Current.scopeDepth # 0
    <3> DEFINE d == Current.scopeDepth
               ls == Append(Current.locals, Local(name, d, variables + 1))
               k == [locals |-> ls, upvalues |-> Current.upvalues, scopeDepth |-> d]
               ds == [compilers EXCEPT ![Depth] = k]
               w == variables + 1
    <3>1. d \in Nat /\ d <= MaxDepth /\ d > 0 /\ d \in Uninitialized..MaxDepth
          BY <1>2, <2>2, CompilerTypes, BoundsAssumption DEF CompilerOK, Uninitialized
    <3>2. variables' = w
          BY <2>2 DEF BeginFunction
    <3>3. compilers' = Append([compilers EXCEPT ![Depth].locals = ls], NewCompiler(1))
          BY <1>2, <2>2 DEF BeginFunction
    <3>4. [compilers EXCEPT ![Depth].locals = ls] = ds
      <4>1. [Current EXCEPT !.locals = ls] = k
        <5> HIDE DEF ls
        <5> QED BY <1>2, Remade
      <4> HIDE DEF ls, k
      <4> QED BY <1>2, <4>1
    <3>5. Len(Current.locals) # MaxLocals
          BY <3>1 DEF DeclarationFails
    <3>6. /\ ls \in Seq(Locals) /\ Len(ls) >= 1 /\ Len(ls) <= MaxLocals
          /\ ls[1].name = NoName /\ ls[1].depth = 0 /\ ls[1].variable = Global
          /\ \A n \in 2..Len(ls) : ls[n].name \in Names
          /\ FromLocals(ls, Current.locals, variables, w)
          BY <1>1, <3>1, <3>5, LocalAdded
    <3>7. w \in {variables, variables + 1} OBVIOUS
    <3> HIDE DEF ls, w, d
    <3>8. Chain(ds) /\ Declared(ds, w) /\ Marked(ds, closedOver)
          BY <3>1, <3>6, <3>7, CurrentSet
    <3> HIDE DEF ds
    <3>9. compilers' = Append(ds, NewCompiler(1)) BY <3>3, <3>4
    <3>10. Chain(compilers') /\ Declared(compilers', w) /\ Marked(compilers', closedOver)
          BY <3>8, <3>9, CompilerAdded
    <3> QED BY <3>2, <3>7, <3>10
  <2> QED BY <2>1, <2>2
<1>4. variables' \in 0..MaxVariables /\ closedOver \subseteq 1..variables' BY <1>1, <1>2, <1>3
<1>5. AccessOK' BY <1>1 DEF AccessOK, NoAccess
<1> QED BY <1>1, <1>2, <1>3, <1>4, <1>5 DEF IInv

(* The local that a pair leads to is the only one of its variable. *)
LEMMA CapturedIsMarked ==
    ASSUME NEW cs, Chain(cs), NEW v, Declared(cs, v),
           NEW d \in 1..Len(cs), NEW u \in 1..Len(cs[d].upvalues)
    PROVE  /\ CapturesOf(cs)[d][u] \in 1..v
           /\ \A c \in 1..Len(cs) : \A n \in 2..Len(cs[c].locals) :
                cs[c].locals[n].variable = CapturesOf(cs)[d][u] => cs[c].locals[n].captured
<1>1. LeadsOut(cs, d, u) BY Refers
<1>2. PICK k \in 1..Len(cs) : \E m \in 2..Len(cs[k].locals) :
         cs[k].locals[m].captured /\ CapturesOf(cs)[d][u] = cs[k].locals[m].variable
      BY <1>1 DEF LeadsOut
<1>3. PICK m \in 2..Len(cs[k].locals) :
         cs[k].locals[m].captured /\ CapturesOf(cs)[d][u] = cs[k].locals[m].variable
      BY <1>2
<1>4. cs[k].locals[m].variable \in 1..v BY DEF Declared
<1>5. ASSUME NEW c \in 1..Len(cs), NEW n \in 2..Len(cs[c].locals),
             cs[c].locals[n].variable = CapturesOf(cs)[d][u]
      PROVE  cs[c].locals[n].captured
  <2>1. cs[c].locals[n].variable = cs[k].locals[m].variable BY <1>3, <1>5
  <2>2. c = k /\ n = m BY <2>1, DeclaredOnce
  <2> QED BY <1>3, <2>2
<1> QED BY <1>3, <1>4, <1>5

LEMMA EndFunctionInv == IInv /\ EndFunction => IInv'
<1> SUFFICES ASSUME IInv, EndFunction PROVE IInv' OBVIOUS
<1> DEFINE cs == compilers
           ds == Front(cs)
           d == Len(cs)
           of == CapturesOf(cs)
           R == Range(of[d])
           v == variables
           X == closedOver
<1>1. /\ Chain(cs) /\ Declared(cs, v) /\ Marked(cs, X) /\ status \in {"compiling", "error"}
      /\ v \in Nat /\ v <= MaxVariables /\ MaxVariables \in Nat /\ X \subseteq 1..v
      /\ Depth = d /\ d \in Nat /\ d \in 1..d
      BY CurrentFacts
<1>2. /\ d > 1 /\ compilers' = ds /\ access' = NoAccess /\ closedOver' = X \cup R
      /\ status' = status /\ variables' = v
      BY <1>1, CapturesNow DEF EndFunction
<1>3. DOMAIN of[d] = 1..Len(cs[d].upvalues)
  <2>1. d \in 1..Len(cs) BY <1>1
  <2> HIDE DEF cs, d
  <2> QED BY <1>1, <2>1, Unfold
<1> HIDE DEF cs, ds, d, of, R, v, X
<1>4. \A x \in R : \E u \in 1..Len(cs[d].upvalues) : x = of[d][u] BY <1>3 DEF R, Range
<1>5. /\ cs \in Seq(Compilers) /\ d = Len(cs) /\ d - 1 \in 0..d /\ d - 1 >= 1
      /\ ds = SubSeq(cs, 1, d - 1)
      BY <1>1, <1>2, ChainTypes DEF ds, Front, d
<1>6. /\ ds \in Seq(Compilers) /\ Len(ds) = d - 1
      /\ \A c \in 1..(d - 1) : ds[c] = cs[c]
      BY <1>5, Prefix
<1>7. \A c \in 1..Len(ds) : c \in 1..Len(cs) /\ ds[c] = cs[c] BY <1>1, <1>5, <1>6
<1>8. Chain(ds)
  <2>1. ds[1].upvalues = <<>> BY <1>1, <1>5, <1>6 DEF Chain
  <2>2. \A c \in 1..Len(ds) : CompilerOK(ds[c]) BY <1>1, <1>7 DEF Chain
  <2>3. ASSUME NEW c \in 2..Len(ds) PROVE LinkOK(ds[c], ds[c - 1])
    <3>1. c \in 1..Len(ds) /\ c - 1 \in 1..Len(ds) /\ c \in 2..Len(cs) BY <1>1, <1>5, <1>6
    <3>2. LinkOK(cs[c], cs[c - 1]) BY <1>1, <3>1 DEF Chain
    <3> QED BY <3>1, <3>2, <1>7
  <2> QED BY <1>1, <1>5, <1>6, <2>1, <2>2, <2>3 DEF Chain
<1>9. Declared(ds, v)
  <2>1. ASSUME NEW c \in 1..Len(ds), NEW n \in 2..Len(ds[c].locals)
        PROVE  ds[c].locals[n].variable \in 1..v
        BY <1>1, <1>7 DEF Declared
  <2>2. ASSUME NEW c \in 1..Len(ds), NEW e \in 1..Len(ds), NEW n \in 2..Len(ds[c].locals),
               NEW m \in 2..Len(ds[e].locals), ds[c].locals[n].variable = ds[e].locals[m].variable
        PROVE  c = e /\ n = m
    <3>1. c \in 1..Len(cs) /\ ds[c] = cs[c] /\ e \in 1..Len(cs) /\ ds[e] = cs[e] BY <1>7
    <3>2. n \in 2..Len(cs[c].locals) /\ m \in 2..Len(cs[e].locals) BY <3>1
    <3>3. cs[c].locals[n].variable = cs[e].locals[m].variable BY <2>2, <3>1
    <3> QED BY <1>1, <3>1, <3>2, <3>3, DeclaredOnce
  <2> QED BY <2>1, <2>2 DEF Declared
<1>10. Marked(ds, X \cup R)
  <2> SUFFICES ASSUME NEW c \in 1..Len(ds), NEW n \in 2..Len(ds[c].locals),
                      ds[c].locals[n].variable \in X \cup R
               PROVE  ds[c].locals[n].captured
      BY DEF Marked
  <2>1. c \in 1..Len(cs) /\ ds[c] = cs[c] /\ n \in 2..Len(cs[c].locals) BY <1>7
  <2>2. CASE cs[c].locals[n].variable \in X BY <2>1, <2>2, <1>1 DEF Marked
  <2>3. CASE cs[c].locals[n].variable \in R
    <3>1. PICK u \in 1..Len(cs[d].upvalues) : cs[c].locals[n].variable = of[d][u]
          BY <1>4, <2>3
    <3>2. d \in 1..Len(cs) BY <1>1, <1>5
    <3>3. cs[c].locals[n].captured BY <3>1, <3>2, <2>1, <1>1, CapturedIsMarked DEF of
    <3> QED BY <2>1, <3>3
  <2> QED BY <2>1, <2>2, <2>3
<1>11. X \cup R \subseteq 1..v
  <2> SUFFICES ASSUME NEW x \in R PROVE x \in 1..v BY <1>1
  <2>1. PICK u \in 1..Len(cs[d].upvalues) : x = of[d][u] BY <1>4
  <2>2. d \in 1..Len(cs) BY <1>1, <1>5
  <2> QED BY <2>1, <2>2, <1>1, CapturedIsMarked DEF of
<1>12. AccessOK' BY <1>2 DEF AccessOK, NoAccess
<1>13. v \in 0..MaxVariables BY <1>1
<1> QED BY <1>1, <1>2, <1>8, <1>9, <1>10, <1>11, <1>12, <1>13 DEF IInv

-----------------------------------------------------------------------------
(* Names. *)

LEMMA ResolveLocalOf ==
    ASSUME NEW c \in 1..Depth, CompilerOK(compilers[c]), NEW name, Slots(c, name) # {}
    PROVE  /\ ResolveLocal(c, name) \in 1..Len(compilers[c].locals)
           /\ compilers[c].locals[ResolveLocal(c, name)].name = name
           /\ \A n \in 1..Len(compilers[c].locals) :
                compilers[c].locals[n].name = name => n <= ResolveLocal(c, name)
<1> DEFINE ls == compilers[c].locals
           S == Slots(c, name)
<1>1. Len(ls) \in Nat /\ DOMAIN ls = 1..Len(ls) BY CompilerTypes
<1>2. /\ S \in SUBSET (1..Len(ls)) /\ S # {}
      /\ \A n \in S : ls[n].name = name
      /\ \A n \in 1..Len(ls) : ls[n].name = name => n \in S
      BY <1>1 DEF Slots
<1> HIDE DEF S, ls
<1>3. Max(S) \in S /\ \A n \in S : n <= Max(S) BY <1>1, <1>2, MaxOf
<1> QED BY <1>2, <1>3 DEF ResolveLocal, S, ls

LEMMA UseLocalInv ==
    ASSUME IInv, NEW name \in Names, UseLocal(name), ~CompileError
    PROVE  IInv'
<1> DEFINE n == ResolveLocal(Depth, name)
<1>1. /\ access' = [kind |-> "local", index |-> n] /\ compilers' = compilers
      /\ UNCHANGED <<status, variables, closedOver>>
      BY DEF UseLocal
<1>2. n \in 1..Len(Current.locals)
  <2>1. /\ Depth = Len(compilers) /\ Depth \in 1..Depth /\ Current = compilers[Depth]
        /\ CompilerOK(Current)
        BY CurrentFacts
  <2>2. Slots(Depth, name) # {} BY DEF UseLocal
  <2> QED BY <2>1, <2>2, ResolveLocalOf
<1>3. Current' = Current BY <1>1 DEF Current, Depth
<1> HIDE DEF n
<1>4. AccessOK' BY <1>1, <1>2, <1>3 DEF AccessOK
<1> QED BY <1>1, <1>4 DEF IInv

LEMMA UseGlobalInv ==
    ASSUME IInv, NEW name \in Names, UseGlobal(name)
    PROVE  IInv'
<1>1. access' = NoAccess /\ UNCHANGED <<status, compilers, variables, closedOver>>
      BY DEF UseGlobal
<1>2. AccessOK' BY <1>1 DEF AccessOK, NoAccess
<1> QED BY <1>1, <1>2 DEF IInv

(* What the function of compiler c gives to the one inside, if those further *)
(* out give `chain`.                                                         *)
Pair(owner, chain, c) == [index |-> chain[c - 1].index, isLocal |-> c = owner + 1]

Give(owner, name, chain, c) ==
    IF c = owner THEN [index |-> ResolveLocal(owner, name), upvalues |-> <<>>]
    ELSE LET new == Pair(owner, chain, c)
             upvalues == AddUpvalue(compilers[c].upvalues, new)
         IN  [index |-> UpvalueOf(upvalues, new), upvalues |-> upvalues]

LEMMA GiveBelow ==
    ASSUME NEW owner \in Nat, NEW name, NEW c \in Nat, NEW f, NEW g,
           c > owner => f[c - 1] = g[c - 1], c >= owner
    PROVE  Give(owner, name, f, c) = Give(owner, name, g, c)
<1>1. CASE c = owner BY <1>1 DEF Give
<1>2. CASE c # owner
  <2>1. f[c - 1] = g[c - 1] BY <1>2
  <2>2. Pair(owner, f, c) = Pair(owner, g, c) BY <2>1 DEF Pair
  <2> QED BY <2>2 DEF Give
<1> QED BY <1>1, <1>2

LEMMA ChainGives ==
    ASSUME NEW owner \in Nat, Depth \in Nat, owner <= Depth, NEW name
    PROVE  \A c \in owner..Depth :
             UpvalueChain(owner, name)[c] = Give(owner, name, UpvalueChain(owner, name), c)
<1> DEFINE Good(f, n) == f = [c \in owner..n |-> Give(owner, name, f, c)]
           Bad == {n \in owner..Depth : \A f : ~Good(f, n)}
<1>1. Bad = {}
  <2> SUFFICES ASSUME Bad # {} PROVE FALSE OBVIOUS
  <2>1. Bad \in SUBSET Nat OBVIOUS
  <2>2. PICK n \in Bad : \A m \in Bad : n <= m BY <2>1, LeastNat
  <2>3. n \in Nat /\ n <= Depth /\ n >= owner BY <2>1, <2>2
  <2>4. CASE n = owner
    <3> DEFINE f == [c \in owner..n |-> Give(owner, name, <<>>, c)]
    <3>1. ASSUME NEW c \in owner..n PROVE f[c] = Give(owner, name, f, c)
      <4>1. c \in Nat /\ c = owner /\ ~(c > owner) BY <2>4
      <4>2. f[c] = Give(owner, name, <<>>, c) OBVIOUS
      <4> HIDE DEF f
      <4>3. Give(owner, name, <<>>, c) = Give(owner, name, f, c) BY <4>1 DEF Give
      <4> QED BY <4>2, <4>3
    <3>2. f = [c \in owner..n |-> f[c]] OBVIOUS
    <3> HIDE DEF f
    <3>3. [c \in owner..n |-> f[c]] = [c \in owner..n |-> Give(owner, name, f, c)] BY <3>1
    <3>4. Good(f, n) BY <3>2, <3>3
    <3> QED BY <3>4, <2>2
  <2>5. CASE n # owner
    <3>1. n - 1 \in owner..Depth /\ ~(n <= n - 1) BY <2>3, <2>5
    <3>2. n - 1 \notin Bad BY <3>1, <2>2
    <3>3. PICK f : Good(f, n - 1) BY <3>1, <3>2
    <3> DEFINE g == [c \in owner..n |-> IF c = n THEN Give(owner, name, f, n) ELSE f[c]]
    <3>4. ASSUME NEW c \in owner..n PROVE g[c] = Give(owner, name, g, c)
      <4>1. c \in Nat /\ c >= owner BY <2>3
      <4>2. c > owner => f[c - 1] = g[c - 1]
        <5> SUFFICES ASSUME c > owner PROVE f[c - 1] = g[c - 1] OBVIOUS
        <5>1. c - 1 \in owner..n /\ c - 1 # n BY <4>1, <2>3
        <5> QED BY <5>1
      <4>3. Give(owner, name, f, c) = Give(owner, name, g, c)
        <5> HIDE DEF g
        <5> QED BY <4>1, <4>2, GiveBelow
      <4>4. g[c] = Give(owner, name, f, c)
        <5>1. CASE c = n BY <5>1
        <5>2. CASE c # n
          <6>1. c \in owner..(n - 1) BY <5>2, <4>1, <2>3
          <6>2. f[c] = [e \in owner..(n - 1) |-> Give(owner, name, f, e)][c] BY <3>3
          <6>3. f[c] = Give(owner, name, f, c) BY <6>1, <6>2
          <6> QED BY <5>2, <6>3
        <5> QED BY <5>1, <5>2
      <4> QED BY <4>3, <4>4
    <3>5. Good(g, n)
      <4>1. g = [c \in owner..n |-> g[c]] OBVIOUS
      <4> HIDE DEF g
      <4>2. [c \in owner..n |-> g[c]] = [c \in owner..n |-> Give(owner, name, g, c)] BY <3>4
      <4> QED BY <4>1, <4>2
    <3> QED BY <3>5, <2>2
  <2> QED BY <2>4, <2>5
<1>2. \E f : Good(f, Depth) BY <1>1
<1> DEFINE h == CHOOSE f : Good(f, Depth)
<1>3. Good(h, Depth) BY <1>2
<1>4. UpvalueChain(owner, name) = h BY DEF UpvalueChain, Give, Pair
<1> HIDE DEF h
<1>5. \A c \in owner..Depth : h[c] = Give(owner, name, h, c)
  <2> TAKE c \in owner..Depth
  <2>1. h[c] = [e \in owner..Depth |-> Give(owner, name, h, e)][c] BY <1>3
  <2> QED BY <2>1
<1> QED BY <1>4, <1>5

(* addUpvalue: the pair is there once, and what was there is where it was. *)
IsExtended(more, ups, new) ==
    /\ Len(more) \in Nat /\ Len(ups) <= Len(more)
    /\ \A u \in 1..Len(ups) : more[u] = ups[u]
    /\ \A u \in 1..Len(more) : u \in 1..Len(ups) \/ more[u] = new
    /\ \A u, w \in 1..Len(more) : more[u] = more[w] => u = w
    /\ UpvalueOf(more, new) \in 1..Len(more)
    /\ more[UpvalueOf(more, new)].index = new.index
    /\ more[UpvalueOf(more, new)].isLocal = new.isLocal

LEMMA AddUpvalueOf ==
    ASSUME NEW S, NEW ups \in Seq(S), NEW new,
           \A u, w \in 1..Len(ups) : ups[u] = ups[w] => u = w
    PROVE  LET more == AddUpvalue(ups, new)
           IN  more \in Seq(S \cup {new}) /\ IsExtended(more, ups, new)
<1> DEFINE more == AddUpvalue(ups, new)
           T == S \cup {new}
<1>1. ups \in Seq(T) /\ new \in T /\ Len(ups) \in Nat /\ DOMAIN ups = 1..Len(ups) OBVIOUS
<1> HIDE DEF T
<1>2. /\ more \in Seq(T) /\ Len(more) \in Nat /\ Len(ups) <= Len(more)
      /\ \A u \in 1..Len(ups) : more[u] = ups[u]
      /\ \A u \in 1..Len(more) : u \in 1..Len(ups) \/ more[u] = new
      /\ \A u, w \in 1..Len(more) : more[u] = more[w] => u = w
      /\ \E u \in 1..Len(more) : more[u] = new
  <2>1. CASE new \in Range(ups)
    <3>1. more = ups BY <2>1 DEF AddUpvalue
    <3>2. \E u \in 1..Len(ups) : ups[u] = new BY <2>1, <1>1 DEF Range
    <3> HIDE DEF more
    <3> QED BY <1>1, <3>1, <3>2
  <2>2. CASE new \notin Range(ups)
    <3>1. more = Append(ups, new) BY <2>2 DEF AddUpvalue
    <3>2. \A u \in 1..Len(ups) : ups[u] # new BY <2>2, <1>1 DEF Range
    <3>3. /\ Append(ups, new) \in Seq(T) /\ Len(Append(ups, new)) = Len(ups) + 1
          /\ Append(ups, new)[Len(ups) + 1] = new
          /\ \A i \in 1..Len(ups) : Append(ups, new)[i] = ups[i]
          BY <1>1, Appended
    <3> HIDE DEF more
    <3>4. ASSUME NEW u \in 1..Len(more)
          PROVE  \/ u \in 1..Len(ups) /\ more[u] = ups[u]
                 \/ u = Len(ups) + 1 /\ more[u] = new
          BY <1>1, <3>1, <3>3
    <3>5. ASSUME NEW u \in 1..Len(more), NEW w \in 1..Len(more), more[u] = more[w]
          PROVE  u = w
      <4> QED BY <3>2, <3>4, <3>5
    <3>6. Len(ups) + 1 \in 1..Len(more) /\ Len(more) \in Nat /\ Len(ups) <= Len(more)
          BY <1>1, <3>1, <3>3
    <3> QED BY <3>1, <3>3, <3>4, <3>5, <3>6
  <2> QED BY <2>1, <2>2
<1> HIDE DEF more
<1>3. DOMAIN more = 1..Len(more) BY <1>2
<1>4. \E u \in DOMAIN more : more[u].index = new.index /\ more[u].isLocal = new.isLocal
      BY <1>2, <1>3
<1>5. /\ UpvalueOf(more, new) \in 1..Len(more)
      /\ more[UpvalueOf(more, new)].index = new.index
      /\ more[UpvalueOf(more, new)].isLocal = new.isLocal
      BY <1>3, <1>4 DEF UpvalueOf
<1> QED BY <1>2, <1>5 DEF more, T, IsExtended

(* The pairs of k and a new one, if there is room. *)
LEMMA PairAdded ==
    ASSUME NEW k, CompilerOK(k), NEW new \in Upvalues,
           RoomForUpvalues(AddUpvalue(k.upvalues, new))
    PROVE  LET more == AddUpvalue(k.upvalues, new)
               j == [k EXCEPT !.upvalues = more]
           IN  /\ CompilerOK(j) /\ j.upvalues = more
               /\ j.locals = k.locals /\ j.scopeDepth = k.scopeDepth
<1> DEFINE ups == k.upvalues
           more == AddUpvalue(ups, new)
           j == [k EXCEPT !.upvalues = more]
           L == Seq(Locals)
           U == Seq(Upvalues)
<1>1. k \in [locals : L, upvalues : U, scopeDepth : Nat] BY DEF CompilerOK, Compilers
<1>2. ups \in Seq(Upvalues) BY CompilerTypes
<1>3. \A u, w \in 1..Len(ups) : ups[u] = ups[w] => u = w BY DEF CompilerOK
<1>4. more \in U /\ \A u, w \in 1..Len(more) : more[u] = more[w] => u = w
  <2>1. Upvalues \cup {new} = Upvalues OBVIOUS
  <2> HIDE DEF ups
  <2>2. more \in Seq(Upvalues \cup {new}) /\ IsExtended(more, ups, new)
        BY <1>2, <1>3, AddUpvalueOf
  <2> QED BY <2>1, <2>2 DEF IsExtended
<1>5. Len(more) <= MaxUpvalues BY DEF RoomForUpvalues
<1> HIDE DEF L, U, more
<1>6. j \in [locals : L, upvalues : U, scopeDepth : Nat] BY <1>1, <1>4
<1>7. j.locals = k.locals /\ j.upvalues = more /\ j.scopeDepth = k.scopeDepth BY <1>1
<1> HIDE DEF j
<1>8. CompilerOK(j) BY <1>4, <1>5, <1>6, <1>7 DEF CompilerOK, Compilers, L, U
<1> QED BY <1>7, <1>8 DEF j, more, ups

(* A local of k marked. *)
IsMarked(j, k, r) ==
    /\ CompilerOK(j) /\ j.upvalues = k.upvalues /\ Len(j.locals) = Len(k.locals)
    /\ j.locals[r].captured /\ j.scopeDepth = k.scopeDepth
    /\ \A n \in 1..Len(k.locals) :
         /\ j.locals[n].name = k.locals[n].name /\ j.locals[n].depth = k.locals[n].depth
         /\ j.locals[n].variable = k.locals[n].variable
         /\ k.locals[n].captured => j.locals[n].captured

LEMMA LocalMarked ==
    ASSUME NEW k, CompilerOK(k), NEW r \in 2..Len(k.locals)
    PROVE  IsMarked([k EXCEPT !.locals[r] = MarkCaptured(@)], k, r)
<1> DEFINE old == k.locals
           x == old[r]
           new == MarkCaptured(x)
           ls == [old EXCEPT ![r] = new]
           j == [k EXCEPT !.locals[r] = MarkCaptured(@)]
<1>1. /\ old \in Seq(Locals) /\ Len(old) \in Nat /\ r \in 1..Len(old) /\ r # 1
      /\ k.scopeDepth \in Nat /\ k.scopeDepth <= MaxDepth /\ Len(old) <= MaxLocals
      /\ old[1].name = NoName /\ old[1].depth = 0 /\ old[1].variable = Global
      /\ \A n \in 2..Len(old) : old[n].name \in Names
  <2>1. Len(k.locals) \in Nat BY CompilerTypes
  <2> QED BY <2>1, CompilerTypes DEF CompilerOK
<1>2. x \in Locals BY <1>1
<1>3. /\ new \in Locals /\ new.name = x.name /\ new.depth = x.depth
      /\ new.variable = x.variable /\ new.captured
  <2> HIDE DEF x
  <2> QED BY <1>2 DEF Locals, MarkCaptured
<1>4. j = [k EXCEPT !.locals = ls] OBVIOUS
<1> HIDE DEF new
<1>5. /\ ls \in Seq(Locals) /\ Len(ls) = Len(old) /\ ls[r] = new
      /\ \A i \in 1..Len(old) : i # r => ls[i] = old[i]
  <2> HIDE DEF old, x
  <2> QED BY <1>1, <1>3, Replaced
<1>cur. k.locals = old OBVIOUS
<1> HIDE DEF ls, old
<1>6. j = [locals |-> ls, upvalues |-> k.upvalues, scopeDepth |-> k.scopeDepth]
  <2> HIDE DEF j
  <2> QED BY <1>4, Remade
<1> HIDE DEF j
<1>7. /\ Len(ls) >= 1 /\ Len(ls) <= MaxLocals
      /\ ls[1].name = NoName /\ ls[1].depth = 0 /\ ls[1].variable = Global
      BY <1>1, <1>5
<1>8. ASSUME NEW n \in 2..Len(ls) PROVE ls[n].name \in Names
  <2>1. n \in 1..Len(old) /\ n \in 2..Len(old) BY <1>1, <1>5
  <2>2. ls[n].name = old[n].name BY <2>1, <1>3, <1>5
  <2> QED BY <2>1, <2>2, <1>1
<1>9. /\ CompilerOK(j) /\ j.upvalues = k.upvalues /\ j.locals = ls
      /\ j.scopeDepth = k.scopeDepth
      BY <1>1, <1>5, <1>6, <1>7, <1>8, CompilerSet
<1>10. \A n \in 1..Len(old) : /\ ls[n].name = old[n].name /\ ls[n].depth = old[n].depth
                              /\ ls[n].variable = old[n].variable
                              /\ old[n].captured => ls[n].captured
      BY <1>3, <1>5
<1>11. ls[r].captured BY <1>3, <1>5
<1>12. IsMarked(j, k, r) BY <1>cur, <1>5, <1>9, <1>10, <1>11 DEF IsMarked
<1> QED BY <1>12 DEF j

(* Declarations and marks are kept when nothing but marks is added. *)
SameLocals(ds, cs) ==
    /\ Len(ds) = Len(cs)
    /\ \A c \in 1..Len(cs) :
         /\ Len(ds[c].locals) = Len(cs[c].locals)
         /\ \A n \in 1..Len(cs[c].locals) :
              /\ ds[c].locals[n].variable = cs[c].locals[n].variable
              /\ cs[c].locals[n].captured => ds[c].locals[n].captured

LEMMA LocalsKept ==
    ASSUME NEW cs, Chain(cs), NEW ds, SameLocals(ds, cs), NEW v, NEW X,
           Declared(cs, v), Marked(cs, X)
    PROVE  Declared(ds, v) /\ Marked(ds, X)
<1>1. ASSUME NEW c \in 1..Len(ds), NEW n \in 2..Len(ds[c].locals)
      PROVE  /\ c \in 1..Len(cs) /\ n \in 2..Len(cs[c].locals)
             /\ ds[c].locals[n].variable = cs[c].locals[n].variable
             /\ cs[c].locals[n].captured => ds[c].locals[n].captured
  <2>1. c \in 1..Len(cs) /\ Len(ds[c].locals) = Len(cs[c].locals) BY DEF SameLocals
  <2>2. Len(cs[c].locals) \in Nat
    <3>1. CompilerOK(cs[c]) BY <2>1, ChainTypes
    <3> QED BY <3>1, CompilerTypes
  <2>3. n \in 2..Len(cs[c].locals) /\ n \in 1..Len(cs[c].locals) BY <2>1, <2>2
  <2> QED BY <2>1, <2>3 DEF SameLocals
<1>2. ASSUME NEW c \in 1..Len(ds), NEW n \in 2..Len(ds[c].locals)
      PROVE  ds[c].locals[n].variable \in 1..v
      BY <1>1 DEF Declared
<1>3. ASSUME NEW c \in 1..Len(ds), NEW e \in 1..Len(ds), NEW n \in 2..Len(ds[c].locals),
             NEW m \in 2..Len(ds[e].locals), ds[c].locals[n].variable = ds[e].locals[m].variable
      PROVE  c = e /\ n = m
  <2>1. c \in 1..Len(cs) /\ e \in 1..Len(cs) BY <1>1
  <2>2. n \in 2..Len(cs[c].locals) /\ m \in 2..Len(cs[e].locals) BY <1>1
  <2>3. cs[c].locals[n].variable = cs[e].locals[m].variable BY <1>1, <1>3
  <2>4. \A a, b \in 1..Len(cs) : \A i \in 2..Len(cs[a].locals), j \in 2..Len(cs[b].locals) :
          cs[a].locals[i].variable = cs[b].locals[j].variable => a = b /\ i = j
        BY DEF Declared
  <2>5. \A i \in 2..Len(cs[c].locals), j \in 2..Len(cs[e].locals) :
          cs[c].locals[i].variable = cs[e].locals[j].variable => c = e /\ i = j
        BY ONLY <2>1, <2>4
  <2> QED BY ONLY <2>2, <2>3, <2>5
<1>4. Declared(ds, v) BY <1>2, <1>3 DEF Declared
<1>5. Marked(ds, X) BY <1>1 DEF Marked
<1> QED BY <1>4, <1>5

(* The compilers ds are cs but for marks and for the pairs through which      *)
(* pair i of the innermost one leads to local r of compiler o.               *)
PassedOn(ds, cs, o, r, i) ==
    /\ Len(ds) = Len(cs)
    /\ \A c \in 1..Len(cs) :
         /\ ds[c].scopeDepth = cs[c].scopeDepth /\ Len(ds[c].locals) = Len(cs[c].locals)
         /\ \A n \in 1..Len(cs[c].locals) :
              /\ ds[c].locals[n].name = cs[c].locals[n].name
              /\ ds[c].locals[n].depth = cs[c].locals[n].depth
              /\ ds[c].locals[n].variable = cs[c].locals[n].variable
    /\ \E at : /\ at[Len(cs)] = i
               /\ \A c \in (o + 1)..Len(cs) :
                    /\ at[c] \in 1..Len(ds[c].upvalues)
                    /\ IF c = o + 1
                         THEN ds[c].upvalues[at[c]].isLocal /\ ds[c].upvalues[at[c]].index = r
                         ELSE /\ ~ds[c].upvalues[at[c]].isLocal
                              /\ ds[c].upvalues[at[c]].index = at[c - 1]

(* The functions between the owner of a local and the one that names it each *)
(* have a pair for it.                                                       *)
LEMMA UseUpvalueReaches ==
    ASSUME IInv, NEW name \in Names, UseUpvalue(name), ~CompileError
    PROVE  LET o == Max(Owners(name))
           IN  /\ IInv' /\ o \in Owners(name) /\ \A c \in Owners(name) : c <= o
               /\ PassedOn(compilers', compilers, o, ResolveLocal(o, name), access'.index)
               /\ ResolveLocal(o, name) \in 2..Len(compilers[o].locals)
               /\ access'.kind = "upvalue" /\ UNCHANGED <<status, variables>>
<1> DEFINE cs == compilers
           d == Len(cs)
           o == Max(Owners(name))
           ch == UpvalueChain(o, name)
           r == ResolveLocal(o, name)
           ds == compilers'
<1>1. /\ Chain(cs) /\ Declared(cs, variables) /\ Marked(cs, closedOver)
      /\ Depth = d /\ d \in Nat /\ d \in 1..d /\ Depth \in Nat
      BY CurrentFacts
<1>2. /\ o \in 1..(d - 1) /\ Slots(o, name) # {}
      /\ o \in Owners(name) /\ \A c \in Owners(name) : c <= o
  <2>1. Owners(name) \in SUBSET (1..(d - 1)) /\ Owners(name) # {} /\ d - 1 \in Nat
        BY <1>1 DEF UseUpvalue, Owners
  <2>2. \A c \in Owners(name) : Slots(c, name) # {} BY DEF Owners
  <2> HIDE DEF d
  <2>3. o \in Owners(name) /\ \A c \in Owners(name) : c <= o BY <2>1, MaxOf
  <2> QED BY <2>1, <2>2, <2>3
<1>3. /\ \A c \in (o + 1)..Depth : RoomForUpvalues(ch[c].upvalues)
      /\ ds = [c \in 1..Depth |->
                 IF c < o THEN cs[c]
                 ELSE IF c = o THEN [cs[c] EXCEPT !.locals[ch[c].index] = MarkCaptured(@)]
                 ELSE [cs[c] EXCEPT !.upvalues = ch[c].upvalues]]
      /\ access' = [kind |-> "upvalue", index |-> ch[Depth].index]
      /\ UNCHANGED <<status, variables, closedOver>>
      BY DEF UseUpvalue
<1>4. /\ \A c \in 1..d : CompilerOK(cs[c]) /\ cs[c] \in Compilers
      /\ \A c \in 2..d : LinkOK(cs[c], cs[c - 1])
      /\ cs[1].upvalues = <<>> /\ cs \in Seq(Compilers)
      BY <1>1, ChainTypes DEF Chain
<1>5. o \in Nat /\ o >= 1 /\ o < d /\ o \in 1..d /\ o \in 1..Depth /\ o <= Depth /\ o \in o..Depth
      BY <1>1, <1>2
<1>6. r \in 2..Len(cs[o].locals) /\ Len(cs[o].locals) \in Nat /\ Len(cs[o].locals) <= MaxLocals
  <2>1. CompilerOK(cs[o]) /\ o \in 1..Depth BY <1>4, <1>5
  <2>2. r \in 1..Len(cs[o].locals) /\ cs[o].locals[r].name = name
        BY <2>1, <1>2, ResolveLocalOf
  <2>3. r # 1
    <3> SUFFICES ASSUME r = 1 PROVE FALSE OBVIOUS
    <3>1. cs[o].locals[r].name = NoName BY <2>1 DEF CompilerOK
    <3> HIDE DEF r, cs
    <3> QED BY <2>2, <3>1, NamesAssumption
  <2>4. Len(cs[o].locals) \in Nat /\ Len(cs[o].locals) <= MaxLocals
        BY <2>1, CompilerTypes DEF CompilerOK
  <2> HIDE DEF r
  <2> QED BY <2>2, <2>3, <2>4
<1>7. \A c \in o..Depth : ch[c] = Give(o, name, ch, c)
  <2> HIDE DEF o
  <2> QED BY <1>1, <1>5, ChainGives
<1>8. ch[o].index = r
  <2> HIDE DEF o, ch
  <2>1. ch[o] = Give(o, name, ch, o) BY <1>5, <1>7
  <2>2. Give(o, name, ch, o) = [index |-> ResolveLocal(o, name), upvalues |-> <<>>] BY DEF Give
  <2> QED BY <2>1, <2>2
<1> HIDE DEF d, o, ch, r
<1>9. ASSUME NEW c \in (o + 1)..d
      PROVE  /\ ch[c].upvalues = AddUpvalue(cs[c].upvalues, Pair(o, ch, c))
             /\ ch[c].index = UpvalueOf(ch[c].upvalues, Pair(o, ch, c))
  <2>1. c \in o..Depth /\ c # o BY <1>1, <1>5
  <2>2. ch[c] = Give(o, name, ch, c) BY <2>1, <1>7
  <2> QED BY <2>1, <2>2 DEF Give
<1>10. ASSUME NEW c \in (o + 1)..d
       PROVE  /\ Len(cs[c].upvalues) <= Len(ch[c].upvalues) /\ Len(ch[c].upvalues) \in Nat
              /\ \A u \in 1..Len(cs[c].upvalues) : ch[c].upvalues[u] = cs[c].upvalues[u]
              /\ \A u \in 1..Len(ch[c].upvalues) :
                   u \in 1..Len(cs[c].upvalues) \/ ch[c].upvalues[u] = Pair(o, ch, c)
              /\ ch[c].index \in 1..Len(ch[c].upvalues)
              /\ ch[c].upvalues[ch[c].index].index = Pair(o, ch, c).index
              /\ ch[c].upvalues[ch[c].index].isLocal = Pair(o, ch, c).isLocal
              /\ Len(ch[c].upvalues) <= MaxUpvalues
  <2>1. CompilerOK(cs[c]) /\ c \in (o + 1)..Depth BY <1>1, <1>4, <1>5
  <2> DEFINE ups == cs[c].upvalues
             new == Pair(o, ch, c)
             more == AddUpvalue(ups, new)
  <2>2. ups \in Seq(Upvalues) BY <2>1, CompilerTypes
  <2>3. \A u, w \in 1..Len(ups) : ups[u] = ups[w] => u = w BY <2>1 DEF CompilerOK
  <2> HIDE DEF ups, new
  <2>4. /\ Len(more) \in Nat /\ Len(ups) <= Len(more)
        /\ \A u \in 1..Len(ups) : more[u] = ups[u]
        /\ \A u \in 1..Len(more) : u \in 1..Len(ups) \/ more[u] = new
        /\ UpvalueOf(more, new) \in 1..Len(more)
        /\ more[UpvalueOf(more, new)].index = new.index
        /\ more[UpvalueOf(more, new)].isLocal = new.isLocal
    <3>1. IsExtended(more, ups, new) BY <2>2, <2>3, AddUpvalueOf
    <3> HIDE DEF more
    <3> QED BY <3>1 DEF IsExtended
  <2> HIDE DEF more
  <2>5. ch[c].upvalues = more /\ ch[c].index = UpvalueOf(more, new)
        BY <1>9 DEF more, ups, new
  <2>6. Len(ch[c].upvalues) <= MaxUpvalues BY <2>1, <1>3 DEF RoomForUpvalues
  <2> QED BY <2>4, <2>5, <2>6 DEF ups, new
<1>11. ASSUME NEW c \in (o + 1)..d
       PROVE  /\ Pair(o, ch, c) \in Upvalues
              /\ c = o + 1 => /\ Pair(o, ch, c).isLocal /\ Pair(o, ch, c).index = r
              /\ c # o + 1 => /\ ~Pair(o, ch, c).isLocal /\ c - 1 \in (o + 1)..d
                              /\ Pair(o, ch, c).index \in 1..Len(ch[c - 1].upvalues)
  <2>1. MaxLocals \in Nat /\ MaxUpvalues \in Nat BY BoundsAssumption
  <2> DEFINE i == ch[c - 1].index
  <2>2. CASE c = o + 1
    <3>1. i = r BY <2>2, <1>5, <1>8
    <3>2. i \in 1..(MaxLocals + MaxUpvalues) BY <3>1, <2>1, <1>6
    <3> HIDE DEF i
    <3> QED BY <2>2, <3>1, <3>2 DEF Pair, Upvalues, i
  <2>3. CASE c # o + 1
    <3>1. c - 1 \in (o + 1)..d BY <2>3, <1>1, <1>5
    <3>2. /\ i \in 1..Len(ch[c - 1].upvalues) /\ Len(ch[c - 1].upvalues) \in Nat
          /\ Len(ch[c - 1].upvalues) <= MaxUpvalues
          BY <3>1, <1>10
    <3>3. i \in 1..(MaxLocals + MaxUpvalues) BY <3>2, <2>1
    <3> HIDE DEF i
    <3> QED BY <2>3, <3>1, <3>2, <3>3 DEF Pair, Upvalues, i
  <2> QED BY <2>2, <2>3
<1>12. ASSUME NEW c \in 1..d, c < o PROVE ds[c] = cs[c] BY <1>1, <1>3, <1>12
<1>13. /\ CompilerOK(ds[o]) /\ ds[o].upvalues = cs[o].upvalues
       /\ Len(ds[o].locals) = Len(cs[o].locals) /\ ds[o].locals[r].captured
       /\ ds[o].scopeDepth = cs[o].scopeDepth
       /\ \A n \in 1..Len(cs[o].locals) :
            /\ ds[o].locals[n].name = cs[o].locals[n].name
            /\ ds[o].locals[n].depth = cs[o].locals[n].depth
            /\ ds[o].locals[n].variable = cs[o].locals[n].variable
            /\ cs[o].locals[n].captured => ds[o].locals[n].captured
  <2>1. CompilerOK(cs[o]) BY <1>4, <1>5
  <2> DEFINE k == cs[o]
  <2>2. ds[o] = [k EXCEPT !.locals[r] = MarkCaptured(@)]
        BY <1>3, <1>5, <1>8
  <2> HIDE DEF k, ds
  <2>3. CompilerOK(k) /\ r \in 2..Len(k.locals) BY <2>1, <1>6 DEF k
  <2>4. IsMarked(ds[o], k, r) BY <2>2, <2>3, LocalMarked
  <2> QED BY <2>4 DEF k, IsMarked
<1>14. ASSUME NEW c \in (o + 1)..d
       PROVE  /\ CompilerOK(ds[c]) /\ ds[c].locals = cs[c].locals
              /\ ds[c].upvalues = ch[c].upvalues /\ ds[c].scopeDepth = cs[c].scopeDepth
  <2>1. CompilerOK(cs[c]) /\ c \in 1..Depth /\ ~(c < o) /\ c # o /\ c \in (o + 1)..Depth
        BY <1>1, <1>4, <1>5
  <2> DEFINE new == Pair(o, ch, c)
             k == cs[c]
             more == AddUpvalue(k.upvalues, new)
  <2>2. ds[c] = [k EXCEPT !.upvalues = ch[c].upvalues] BY <1>3, <2>1
  <2>3. ch[c].upvalues = more /\ RoomForUpvalues(more) BY <1>3, <1>9, <2>1
  <2>4. CompilerOK(k) /\ new \in Upvalues BY <2>1, <1>11
  <2> HIDE DEF new, k, ds
  <2>5. /\ CompilerOK([k EXCEPT !.upvalues = more])
        /\ [k EXCEPT !.upvalues = more].upvalues = more
        /\ [k EXCEPT !.upvalues = more].locals = k.locals
        /\ [k EXCEPT !.upvalues = more].scopeDepth = k.scopeDepth
        BY <2>3, <2>4, PairAdded
  <2> HIDE DEF more
  <2> QED BY <2>2, <2>3, <2>5 DEF k
<1>15. ASSUME NEW c \in 1..d PROVE c < o \/ c = o \/ c \in (o + 1)..d BY <1>1, <1>5
<1>16. DOMAIN ds = 1..d BY <1>1, <1>3
<1> HIDE DEF ds
<1>17. \A c \in 1..d : CompilerOK(ds[c]) BY <1>4, <1>12, <1>13, <1>14, <1>15
<1>18. ds \in Seq(Compilers) /\ Len(ds) = d
  <2>1. \A c \in 1..d : ds[c] \in Compilers BY <1>17 DEF CompilerOK
  <2>2. ds = [c \in 1..d |-> ds[c]] BY <1>1, <1>3, <1>16
  <2> QED BY <1>1, <2>1, <2>2
<1>19. \A c \in 2..d : LinkOK(ds[c], ds[c - 1])
  <2> TAKE c \in 2..d
  <2>0. c \in 1..d /\ c \in Nat /\ c - 1 \in 1..d /\ LinkOK(cs[c], cs[c - 1]) BY <1>1, <1>4
  <2>1. CASE c < o
    <3>1. c - 1 < o BY <2>0, <2>1, <1>5
    <3> QED BY <2>0, <2>1, <3>1, <1>12
  <2>2. CASE c = o
    <3>1. c - 1 < o BY <2>0, <2>2, <1>5
    <3>2. ds[c - 1] = cs[c - 1] BY <2>0, <3>1, <1>12
    <3>3. ds[c].upvalues = cs[c].upvalues BY <2>2, <1>13
    <3> QED BY <2>0, <3>2, <3>3 DEF LinkOK
  <2>3. CASE c \in (o + 1)..d
    <3> DEFINE k == ds[c]
               a == ds[c - 1]
               old == cs[c]
               b == cs[c - 1]
    <3>1. /\ k.upvalues = ch[c].upvalues
          /\ \A u \in 1..Len(old.upvalues) : k.upvalues[u] = old.upvalues[u]
          /\ \A u \in 1..Len(k.upvalues) :
               u \in 1..Len(old.upvalues) \/ k.upvalues[u] = Pair(o, ch, c)
          BY <2>3, <1>10, <1>14
(* Whatever was there to refer to around it is still there ... *)
    <3>2. /\ Len(a.locals) = Len(b.locals) /\ Len(b.upvalues) <= Len(a.upvalues)
          /\ \A n \in 1..Len(b.locals) : b.locals[n].captured => a.locals[n].captured
          /\ Len(a.upvalues) \in Nat /\ Len(b.upvalues) \in Nat /\ Len(b.locals) \in Nat
      <4>0. CompilerOK(a) /\ CompilerOK(b) BY <2>0, <1>4, <1>17
      <4>1. Len(a.upvalues) \in Nat /\ Len(b.upvalues) \in Nat /\ Len(b.locals) \in Nat
            BY <4>0, CompilerTypes
      <4>2. CASE c - 1 = o BY <4>1, <4>2, <1>13
      <4>3. CASE c - 1 # o
        <5>1. c - 1 \in (o + 1)..d BY <4>3, <2>0, <2>3, <1>1, <1>5
        <5> QED BY <4>1, <5>1, <1>10, <1>14
      <4> QED BY <4>2, <4>3
(* ... and what the new pair refers to is, too.                        *)
    <3>3. IF Pair(o, ch, c).isLocal
            THEN /\ Pair(o, ch, c).index \in 2..Len(a.locals)
                 /\ a.locals[Pair(o, ch, c).index].captured
            ELSE Pair(o, ch, c).index \in 1..Len(a.upvalues)
      <4>1. CASE c = o + 1
        <5>1. c - 1 = o BY <4>1, <1>5
        <5> QED BY <4>1, <5>1, <2>3, <1>6, <1>11, <1>13
      <4>2. CASE c # o + 1
        <5>1. /\ ~Pair(o, ch, c).isLocal /\ c - 1 \in (o + 1)..d
              /\ Pair(o, ch, c).index \in 1..Len(ch[c - 1].upvalues)
              BY <4>2, <2>3, <1>11
        <5> QED BY <5>1, <1>14
      <4> QED BY <4>1, <4>2
    <3> HIDE DEF k, a, old, b
    <3>4. LinkOK(old, b) BY <2>0 DEF old, b
    <3>5. LinkOK(k, a)
      <4> SUFFICES ASSUME NEW u \in 1..Len(k.upvalues)
                   PROVE  IF k.upvalues[u].isLocal
                            THEN /\ k.upvalues[u].index \in 2..Len(a.locals)
                                 /\ a.locals[k.upvalues[u].index].captured
                            ELSE k.upvalues[u].index \in 1..Len(a.upvalues)
          BY DEF LinkOK
      <4>1. CASE k.upvalues[u] = Pair(o, ch, c) BY <4>1, <3>3
      <4>2. CASE u \in 1..Len(old.upvalues)
        <5> DEFINE x == old.upvalues[u]
        <5>1. IF x.isLocal THEN x.index \in 2..Len(b.locals) /\ b.locals[x.index].captured
                           ELSE x.index \in 1..Len(b.upvalues)
              BY <4>2, <3>4 DEF LinkOK
        <5>2. k.upvalues[u] = x BY <4>2, <3>1
        <5> HIDE DEF x
        <5>3. IF x.isLocal THEN x.index \in 2..Len(a.locals) /\ a.locals[x.index].captured
                           ELSE x.index \in 1..Len(a.upvalues)
          <6>1. CASE x.isLocal
            <7>1. x.index \in 2..Len(b.locals) /\ b.locals[x.index].captured BY <5>1, <6>1
            <7>2. x.index \in 1..Len(b.locals) BY <7>1, <3>2
            <7> QED BY <6>1, <7>1, <7>2, <3>2
          <6>2. CASE ~x.isLocal BY <5>1, <6>2, <3>2
          <6> QED BY <6>1, <6>2
        <5> QED BY <5>2, <5>3
      <4> QED BY <4>1, <4>2, <3>1
    <3> QED BY <3>5 DEF k, a
  <2> QED BY <2>0, <2>1, <2>2, <2>3, <1>15
<1>20. Chain(ds)
  <2>1. ds[1].upvalues = <<>>
    <3>1. 1 \in 1..d /\ (1 < o \/ 1 = o) BY <1>1, <1>5
    <3> QED BY <3>1, <1>4, <1>12, <1>13
  <2> QED BY <1>1, <1>17, <1>18, <1>19, <2>1 DEF Chain
<1>21. SameLocals(ds, cs)
  <2> SUFFICES ASSUME NEW c \in 1..d
               PROVE  /\ Len(ds[c].locals) = Len(cs[c].locals)
                      /\ \A n \in 1..Len(cs[c].locals) :
                           /\ ds[c].locals[n].variable = cs[c].locals[n].variable
                           /\ cs[c].locals[n].captured => ds[c].locals[n].captured
      BY <1>18 DEF SameLocals, d
  <2> QED BY <1>12, <1>13, <1>14, <1>15
<1>22. Declared(ds, variables) /\ Marked(ds, closedOver)
  <2> HIDE DEF cs
  <2> QED BY <1>1, <1>21, LocalsKept
<1>23. AccessOK'
  <2>1. d \in (o + 1)..d BY <1>1, <1>5
  <2>2. ch[d].index \in 1..Len(ds[d].upvalues) BY <2>1, <1>10, <1>14
  <2>3. Current' = ds[d] BY <1>18 DEF Current, Depth, ds
  <2>4. access'.kind = "upvalue" /\ access'.index = ch[d].index BY <1>1, <1>3
  <2> QED BY <2>2, <2>3, <2>4 DEF AccessOK
<1>24. IInv' BY <1>3, <1>20, <1>22, <1>23, CurrentFacts DEF ds, IInv
<1> DEFINE at == [c \in (o + 1)..d |-> ch[c].index]
<1>25. \A c \in (o + 1)..d :
         /\ at[c] \in 1..Len(ds[c].upvalues)
         /\ IF c = o + 1
              THEN ds[c].upvalues[at[c]].isLocal /\ ds[c].upvalues[at[c]].index = r
              ELSE /\ ~ds[c].upvalues[at[c]].isLocal
                   /\ ds[c].upvalues[at[c]].index = at[c - 1]
  <2> TAKE c \in (o + 1)..d
  <2>1. at[c] = ch[c].index /\ ds[c].upvalues = ch[c].upvalues BY <1>14
  <2>2. /\ at[c] \in 1..Len(ds[c].upvalues)
        /\ ds[c].upvalues[at[c]].index = Pair(o, ch, c).index
        /\ ds[c].upvalues[at[c]].isLocal = Pair(o, ch, c).isLocal
        BY <2>1, <1>10
  <2>3. c # o + 1 => Pair(o, ch, c).index = at[c - 1] BY <1>11 DEF Pair
  <2> HIDE DEF at
  <2> QED BY <2>2, <2>3, <1>11
<1>26. d \in (o + 1)..d BY <1>1, <1>5
<1>27. at[d] = ch[d].index BY <1>26
<1> HIDE DEF at
<1>28. ASSUME NEW c \in 1..d
       PROVE  /\ ds[c].scopeDepth = cs[c].scopeDepth /\ Len(ds[c].locals) = Len(cs[c].locals)
              /\ \A n \in 1..Len(cs[c].locals) :
                   /\ ds[c].locals[n].name = cs[c].locals[n].name
                   /\ ds[c].locals[n].depth = cs[c].locals[n].depth
                   /\ ds[c].locals[n].variable = cs[c].locals[n].variable
       BY <1>12, <1>13, <1>14, <1>15
<1>29. PassedOn(ds, cs, o, r, ch[d].index)
  <2>1. Len(ds) = Len(cs) /\ Len(cs) = d BY <1>18 DEF d
  <2> QED BY <2>1, <1>25, <1>27, <1>28 DEF PassedOn
<1>30. access'.kind = "upvalue" /\ access'.index = ch[d].index BY <1>1, <1>3
<1> QED BY <1>2, <1>3, <1>6, <1>24, <1>29, <1>30 DEF ds, o, r

LEMMA UseUpvalueInv ==
    ASSUME IInv, NEW name \in Names, UseUpvalue(name), ~CompileError
    PROVE  IInv'
BY UseUpvalueReaches

-----------------------------------------------------------------------------

LEMMA NextInv == IInv /\ [Next]_vars => IInv'
<1> SUFFICES ASSUME IInv, [Next]_vars PROVE IInv' OBVIOUS
<1>1. CASE UNCHANGED vars
      BY <1>1 DEF vars, IInv, AccessOK, Current, Depth
<1>2. CASE BeginScope BY <1>2, BeginScopeInv
<1>3. CASE EndScope BY <1>3, EndScopeInv
<1>4. CASE Initialize BY <1>4, InitializeInv
<1>5. CASE EndFunction BY <1>5, EndFunctionInv
<1>6. CASE CompileError BY <1>6, CompileErrorInv
<1>7. ASSUME NEW name \in Names, DeclareVariable(name) PROVE IInv'
  <2>1. CASE DeclarationFails(name) BY <2>1, <1>6, <1>7 DEF DeclareVariable
  <2> QED BY <2>1, <1>7, DeclareVariableInv
<1>8. ASSUME NEW name \in Names, BeginFunction(name) PROVE IInv'
  <2>1. CASE DeclarationFails(name) BY <2>1, <1>6, <1>8 DEF BeginFunction
  <2> QED BY <2>1, <1>8, BeginFunctionInv
<1>9. ASSUME NEW name \in Names, UseLocal(name) PROVE IInv' BY <1>6, <1>9, UseLocalInv
<1>10. ASSUME NEW name \in Names, UseUpvalue(name) PROVE IInv' BY <1>6, <1>10, UseUpvalueInv
<1>11. ASSUME NEW name \in Names, UseGlobal(name) PROVE IInv' BY <1>11, UseGlobalInv
<1> QED BY <1>1, <1>2, <1>3, <1>4, <1>5, <1>7, <1>8, <1>9, <1>10, <1>11 DEF Next

LEMMA AlwaysInv == Spec => []IInv
BY InitInv, NextInv, PTL DEF Spec

(* The arrays of locals and upvalues, of a fixed size each, hold what is put *)
(* in them, and every slot and every pair that namedVariable emits is there. *)
THEOREM TypeCorrect == Spec => []TypeOK
<1>1. IInv => TypeOK
  <2> SUFFICES ASSUME IInv PROVE TypeOK OBVIOUS
  <2> DEFINE cs == compilers
  <2>1. /\ Chain(cs) /\ status \in {"compiling", "error"} /\ AccessOK
        /\ variables \in Nat /\ variables <= MaxVariables /\ MaxVariables \in Nat
        /\ closedOver \subseteq 1..variables
        /\ Depth \in 1..Len(cs) /\ Current = cs[Depth] /\ CompilerOK(Current)
        BY CurrentFacts
  <2>2. cs \in Seq(Compilers) /\ DOMAIN cs = 1..Len(cs) /\ Len(cs) \in Nat BY <2>1, ChainTypes
  <2>3. variables \in 0..MaxVariables /\ closedOver \subseteq 1..MaxVariables BY <2>1
  <2>4. ASSUME NEW c \in 1..Len(cs)
        PROVE  /\ Len(cs[c].locals) <= MaxLocals /\ Len(cs[c].upvalues) <= MaxUpvalues
               /\ \A x \in Range(cs[c].upvalues) :
                     x.index <= Len(IF x.isLocal THEN cs[c - 1].locals ELSE cs[c - 1].upvalues)
    <3>1. CompilerOK(cs[c]) BY <2>1, ChainTypes
    <3>2. DOMAIN cs[c].upvalues = 1..Len(cs[c].upvalues) BY <3>1, CompilerTypes
    <3>3. ASSUME NEW u \in 1..Len(cs[c].upvalues)
          PROVE  LET x == cs[c].upvalues[u]
                 IN  x.index <= Len(IF x.isLocal THEN cs[c - 1].locals ELSE cs[c - 1].upvalues)
      <4> DEFINE x == cs[c].upvalues[u]
                 k == cs[c - 1]
      <4>1. c - 1 \in 1..Len(cs) /\ LinkOK(cs[c], k)
        <5> HIDE DEF cs
        <5>1. FollowsOut(cs, c, u) BY <2>1, Unfold
        <5> QED BY <5>1 DEF FollowsOut
      <4>2. IF x.isLocal THEN x.index \in 2..Len(k.locals) ELSE x.index \in 1..Len(k.upvalues)
            BY <4>1 DEF LinkOK
      <4>3. Len(k.locals) \in Nat /\ Len(k.upvalues) \in Nat
        <5>1. CompilerOK(k) BY <2>1, <4>1, ChainTypes
        <5> QED BY <5>1, CompilerTypes
      <4> HIDE DEF x, k
      <4>4. x.index <= Len(IF x.isLocal THEN k.locals ELSE k.upvalues) BY <4>2, <4>3
      <4> QED BY <4>4 DEF x, k
    <3> QED BY <3>1, <3>2, <3>3 DEF Range, CompilerOK
  <2>5. /\ access.kind = "local" => access.index \in DOMAIN Current.locals
        /\ access.kind = "upvalue" => access.index \in DOMAIN Current.upvalues
        BY <2>1, CompilerTypes DEF AccessOK
  <2> QED BY <2>1, <2>2, <2>3, <2>4, <2>5 DEF TypeOK, Compilers
<1> QED BY <1>1, AlwaysInv, PTL

(* endScope never just pops the slot of a local that a closure has captured, *)
(* or that a function still being compiled will: resolveUpvalue marks it,    *)
(* through however many functions it is reached.                             *)
THEOREM CapturedLocalsMarked == Spec => []CapturedMarked
<1>1. IInv => CapturedMarked
  <2> SUFFICES ASSUME IInv PROVE CapturedMarked OBVIOUS
  <2> DEFINE cs == compilers
             of == CapturesOf(cs)
             v == variables
             X == closedOver
  <2>1. /\ Chain(cs) /\ Declared(cs, v) /\ Marked(cs, X)
        /\ v \in Nat /\ v <= MaxVariables /\ MaxVariables \in Nat
        /\ X \subseteq 1..v /\ Depth = Len(cs) /\ Depth \in Nat
        BY CurrentFacts
  <2>2. Captures = of BY CapturesNow
  <2>3. Global \notin 1..v
    <3>1. 1..v \subseteq 1..MaxVariables BY <2>1
    <3> QED BY <3>1, BoundsAssumption
  <2> SUFFICES ASSUME NEW c \in 1..Depth, NEW local \in Range(cs[c].locals),
                      local.variable \in X \cup UNION {Range(of[k]) : k \in 1..Depth}
               PROVE  local.captured
      BY <2>2 DEF CapturedMarked
  <2> HIDE DEF cs, of, v, X
  <2>4. c \in 1..Len(cs) /\ CompilerOK(cs[c]) BY <2>1, ChainTypes
  <2>5. PICK n \in 1..Len(cs[c].locals) : local = cs[c].locals[n]
        BY <2>4, CompilerTypes DEF Range
  <2>6. Len(cs[c].locals) \in Nat BY <2>4, CompilerTypes
(* The callee's slot is no variable of the program. *)
  <2>7. CASE local.variable \in X
    <3>1. n # 1 BY <2>1, <2>3, <2>4, <2>5, <2>7 DEF CompilerOK
    <3>2. n \in 2..Len(cs[c].locals) BY <3>1, <2>6
    <3> QED BY <2>1, <2>4, <2>5, <2>7, <3>2 DEF Marked
  <2>8. CASE local.variable \in UNION {Range(of[k]) : k \in 1..Depth}
    <3>1. PICK k \in 1..Len(cs) : local.variable \in Range(of[k]) BY <2>1, <2>8
    <3>2. DOMAIN of[k] = 1..Len(cs[k].upvalues) BY <2>1, Unfold DEF of
    <3>3. PICK u \in 1..Len(cs[k].upvalues) : local.variable = of[k][u]
          BY <3>1, <3>2 DEF Range
    <3>4. of[k][u] \in 1..v BY <2>1, CapturedIsMarked DEF of
    <3>5. n # 1 BY <2>3, <2>4, <2>5, <3>3, <3>4 DEF CompilerOK
    <3>6. n \in 2..Len(cs[c].locals) BY <3>5, <2>6
    <3>7. cs[c].locals[n].variable = of[k][u] BY <2>5, <3>3
    <3>8. cs[c].locals[n].captured BY <2>1, <2>4, <3>6, <3>7, CapturedIsMarked DEF of
    <3> QED BY <2>5, <3>8
  <2> QED BY <2>7, <2>8
<1> QED BY <1>1, AlwaysInv, PTL

(* addUpvalue finds a variable that is there already, so that two upvalues of *)
(* a function are two variables.                                             *)
THEOREM VariablesListedOnce == Spec => []UpvaluesDistinct
<1>1. IInv => UpvaluesDistinct
  <2> SUFFICES ASSUME IInv PROVE UpvaluesDistinct OBVIOUS
  <2> DEFINE cs == compilers
             v == variables
             of == CapturesOf(cs)
  <2>1. Chain(cs) /\ Declared(cs, v) /\ Depth = Len(cs) BY CurrentFacts
  <2>2. Captures = of BY CapturesNow
  <2> SUFFICES ASSUME NEW c \in 1..Len(cs), NEW u \in DOMAIN of[c], NEW w \in DOMAIN of[c],
                      of[c][u] = of[c][w]
               PROVE  u = w
      BY <2>1, <2>2 DEF UpvaluesDistinct, IsInjective
  <2> HIDE DEF cs, v
  <2>3. DOMAIN of[c] = 1..Len(cs[c].upvalues) BY <2>1, Unfold
  <2>4. u \in 1..Len(cs[c].upvalues) /\ w \in 1..Len(cs[c].upvalues) BY <2>3
  <2> QED BY <2>1, <2>4, Injective
<1> QED BY <1>1, AlwaysInv, PTL
=============================================================================
