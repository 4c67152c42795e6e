---------------------------- MODULE LexicalProofs ----------------------------
(***************************************************************************)
(* Resolver implements LexicalScope.                                       *)
(***************************************************************************)
EXTENDS ResolverProofs

-----------------------------------------------------------------------------
(* FlattenSeq. *)

(* The sequence that FlattenSeq has put together after ss[i], if f are those  *)
(* before.                                                                    *)
Joins(ss, f, i) == IF i = 1 THEN ss[i] ELSE f[i - 1] \o ss[i]
Joined(ss, n) == CHOOSE f : f = [i \in 1..n |-> Joins(ss, f, i)]

LEMMA FlattenIsJoined ==
    ASSUME NEW S, NEW ss \in Seq(S), Len(ss) # 0
    PROVE  FlattenSeq(ss) = Joined(ss, Len(ss))[Len(ss)]
BY DEF FlattenSeq, Joined, Joins

LEMMA JoinsBelow ==
    ASSUME NEW ss, NEW i \in Nat, i >= 1, NEW f, NEW g, i > 1 => f[i - 1] = g[i - 1]
    PROVE  Joins(ss, f, i) = Joins(ss, g, i)
<1>1. CASE i = 1 BY <1>1 DEF Joins
<1>2. CASE i # 1
  <2>1. f[i - 1] = g[i - 1] BY <1>2
  <2> QED BY <2>1, <1>2 DEF Joins
<1> QED BY <1>1, <1>2

(* The recursion has a solution for every n. *)
LEMMA JoinedUnfolds ==
    ASSUME NEW ss, NEW n \in Nat
    PROVE  /\ Joined(ss, n) = [i \in 1..n |-> Joins(ss, Joined(ss, n), i)]
           /\ \A i \in 1..n : Joined(ss, n)[i] = Joins(ss, Joined(ss, n), i)
<1> DEFINE Good(f, m) == f = [i \in 1..m |-> Joins(ss, f, i)]
           Bad == {m \in Nat : \A f : ~Good(f, m)}
<1>1. Bad = {}
  <2> SUFFICES ASSUME Bad # {} PROVE FALSE OBVIOUS
  <2>1. PICK m \in Bad : \A k \in Bad : m <= k
    <3>1. Bad \in SUBSET Nat OBVIOUS
    <3> HIDE DEF Bad
    <3> QED BY <3>1, LeastNat
  <2>2. m # 0
    <3> SUFFICES ASSUME m = 0 PROVE FALSE OBVIOUS
    <3> DEFINE e == [i \in 1..0 |-> <<>>]
    <3>1. Good(e, 0) OBVIOUS
    <3> QED BY <3>1
  <2>3. m - 1 \in Nat /\ m \in Nat BY <2>2
  <2>4. PICK f : Good(f, m - 1) BY <2>1, <2>3
  <2> DEFINE g == [i \in 1..m |-> Joins(ss, f, i)]
  <2>5. \A i \in 1..(m - 1) : g[i] = f[i]
    <3> TAKE i \in 1..(m - 1)
    <3>1. f[i] = [j \in 1..(m - 1) |-> Joins(ss, f, j)][i] BY <2>4
    <3>2. f[i] = Joins(ss, f, i) BY <3>1
    <3>3. i \in 1..m BY <2>3
    <3> QED BY <3>2, <3>3
  <2>6. ASSUME NEW i \in 1..m PROVE Joins(ss, f, i) = Joins(ss, g, i)
    <3>1. i \in Nat /\ i >= 1 BY <2>3
    <3>2. i > 1 => i - 1 \in 1..(m - 1) BY <2>3
    <3>3. i > 1 => f[i - 1] = g[i - 1] BY <2>5, <3>2
    <3> HIDE DEF g
    <3> QED BY <3>1, <3>3, JoinsBelow
  <2>7. Good(g, m) BY <2>6
  <2> QED BY <2>1, <2>7
<1>2. \E f : Good(f, n) BY <1>1
<1>3. Joined(ss, n) = [i \in 1..n |-> Joins(ss, Joined(ss, n), i)] BY <1>2 DEF Joined
<1> DEFINE h == Joined(ss, n)
<1>4. h = [i \in 1..n |-> Joins(ss, h, i)] BY <1>3
<1> HIDE DEF h
<1>5. \A i \in 1..n : h[i] = Joins(ss, h, i)
  <2> TAKE i \in 1..n
  <2>1. h[i] = [j \in 1..n |-> Joins(ss, h, j)][i] BY <1>4
  <2> QED BY <2>1
<1> QED BY <1>4, <1>5 DEF h

(* What is put together first is that of any longer sequence. *)
LEMMA JoinedSame ==
    ASSUME NEW ss, NEW tt, NEW n \in Nat, NEW m \in Nat, n <= m,
           \A i \in 1..n : ss[i] = tt[i], NEW i \in 1..n
    PROVE  Joined(ss, n)[i] = Joined(tt, m)[i]
<1> DEFINE f == Joined(ss, n)
           g == Joined(tt, m)
           Bad == {j \in 1..n : f[j] # g[j]}
<1>1. \A j \in 1..n : f[j] = Joins(ss, f, j) /\ g[j] = Joins(tt, g, j)
  <2> TAKE j \in 1..n
  <2>1. j \in 1..m OBVIOUS
  <2> QED BY <2>1, JoinedUnfolds
<1> HIDE DEF f, g
<1>2. Bad = {}
  <2> SUFFICES ASSUME Bad # {} PROVE FALSE OBVIOUS
  <2>1. PICK j \in Bad : \A k \in Bad : j <= k
    <3>1. Bad \in SUBSET Nat OBVIOUS
    <3> HIDE DEF Bad
    <3> QED BY <3>1, LeastNat
  <2>2. j \in Nat /\ j >= 1 /\ j \in 1..n OBVIOUS
  <2>3. j > 1 => f[j - 1] = g[j - 1]
    <3> SUFFICES ASSUME j > 1, f[j - 1] # g[j - 1] PROVE FALSE OBVIOUS
    <3>1. j - 1 \in Bad BY <2>2
    <3> QED BY <2>1, <2>2, <3>1
  <2>4. Joins(ss, f, j) = Joins(ss, g, j) BY <2>2, <2>3, JoinsBelow
  <2>5. Joins(ss, g, j) = Joins(tt, g, j) BY <2>2 DEF Joins
  <2> QED BY <1>1, <2>2, <2>4, <2>5
<1> QED BY <1>2 DEF f, g

LEMMA FlattenLast ==
    ASSUME NEW S, NEW ss \in Seq(Seq(S)), NEW tt \in Seq(Seq(S)), Len(ss) = Len(tt) + 1,
           \A i \in 1..Len(tt) : tt[i] = ss[i]
    PROVE  FlattenSeq(ss) = FlattenSeq(tt) \o ss[Len(ss)]
<1> DEFINE n == Len(tt)
           m == Len(ss)
           x == ss[m]
<1>1. n \in Nat /\ m \in Nat /\ m = n + 1 /\ m # 0 /\ m \in 1..m OBVIOUS
<1>2. x \in Seq(S) BY <1>1
<1>3. FlattenSeq(ss) = Joined(ss, m)[m]
  <2>1. Len(ss) # 0 BY <1>1
  <2> QED BY <2>1, FlattenIsJoined
<1>4. Joined(ss, m)[m] = Joins(ss, Joined(ss, m), m) BY ONLY <1>1, JoinedUnfolds
<1>5. CASE n = 0
  <2>1. tt = <<>> BY <1>5
  <2>2. FlattenSeq(tt) = <<>> BY <1>5, <2>1 DEF FlattenSeq
  <2>3. Joins(ss, Joined(ss, m), m) = x BY <1>1, <1>5 DEF Joins
  <2> HIDE DEF x, m, n
  <2>4. <<>> \o x = x BY ONLY <1>2
  <2> QED BY <1>3, <1>4, <2>2, <2>3, <2>4 DEF x, m
<1>6. CASE n # 0
  <2>1. m # 1 /\ m - 1 = n /\ n \in 1..n /\ n <= m BY <1>1, <1>6
  <2>2. Joins(ss, Joined(ss, m), m) = Joined(ss, m)[n] \o x BY <2>1 DEF Joins
  <2>3. FlattenSeq(tt) = Joined(tt, n)[n]
    <3>1. Len(tt) # 0 BY <1>6
    <3> QED BY <3>1, FlattenIsJoined
  <2>4. Joined(tt, n)[n] = Joined(ss, m)[n]
    <3>1. \A i \in 1..n : tt[i] = ss[i] OBVIOUS
    <3> HIDE DEF n, m
    <3> QED BY ONLY <3>1, <2>1, <1>1, JoinedSame
  <2> QED BY <1>3, <1>4, <2>2, <2>3, <2>4
<1> QED BY <1>5, <1>6

-----------------------------------------------------------------------------
(* The scopes of the first n compilers. *)

FlatTo(cs, n) == FlattenSeq([c \in 1..n |-> ScopesOf(cs[c])])

LEMMA FlatNow == OpenScopes = FlatTo(compilers, Len(compilers))
BY DEF OpenScopes, FlatTo, Depth

LEMMA FlatSame ==
    ASSUME NEW cs, NEW ds, NEW n \in Nat, \A c \in 1..n : ScopesOf(ds[c]) = ScopesOf(cs[c])
    PROVE  FlatTo(ds, n) = FlatTo(cs, n)
<1>1. [c \in 1..n |-> ScopesOf(cs[c])] = [c \in 1..n |-> ScopesOf(ds[c])] OBVIOUS
<1> QED BY <1>1 DEF FlatTo

LEMMA FlatNone == ASSUME NEW cs PROVE FlatTo(cs, 0) = <<>>
<1>1. [c \in 1..0 |-> ScopesOf(cs[c])] = <<>> OBVIOUS
<1> QED BY <1>1 DEF FlatTo, FlattenSeq

LEMMA FlatStep ==
    ASSUME NEW S, NEW cs, NEW n \in Nat, n # 0, \A c \in 1..n : ScopesOf(cs[c]) \in Seq(S)
    PROVE  FlatTo(cs, n) = FlatTo(cs, n - 1) \o ScopesOf(cs[n])
<1> DEFINE ss == [c \in 1..n |-> ScopesOf(cs[c])]
           tt == [c \in 1..(n - 1) |-> ScopesOf(cs[c])]
<1>1. ss \in Seq(Seq(S)) /\ Len(ss) = n /\ ss[n] = ScopesOf(cs[n]) OBVIOUS
<1>2. tt \in Seq(Seq(S)) /\ Len(tt) = n - 1
  <2>1. n - 1 \in Nat OBVIOUS
  <2>2. \A c \in 1..(n - 1) : tt[c] \in Seq(S) OBVIOUS
  <2> QED BY <2>1, <2>2
<1>3. \A i \in 1..Len(tt) : tt[i] = ss[i] BY <1>2
<1>4. FlatTo(cs, n) = FlattenSeq(ss) /\ FlatTo(cs, n - 1) = FlattenSeq(tt) BY DEF FlatTo
<1> HIDE DEF ss, tt
<1>5. FlattenSeq(ss) = FlattenSeq(tt) \o ss[Len(ss)]
  <2>1. Len(ss) = Len(tt) + 1 BY <1>1, <1>2
  <2> QED BY ONLY <2>1, <1>1, <1>2, <1>3, FlattenLast
<1> QED BY <1>1, <1>4, <1>5

LEMMA FlatTyped ==
    ASSUME NEW S, NEW cs, NEW n \in Nat, \A c \in 1..n : ScopesOf(cs[c]) \in Seq(S)
    PROVE  FlatTo(cs, n) \in Seq(S)
<1> DEFINE Bad == {m \in 0..n : FlatTo(cs, m) \notin Seq(S)}
<1> SUFFICES Bad = {}
  <2>1. n \in 0..n OBVIOUS
  <2> QED BY <2>1
<1> SUFFICES ASSUME Bad # {} PROVE FALSE OBVIOUS
<1>1. PICK m \in Bad : \A k \in Bad : m <= k
  <2>1. Bad \in SUBSET Nat OBVIOUS
  <2> HIDE DEF Bad
  <2> QED BY <2>1, LeastNat
<1>2. m \in Nat /\ m <= n /\ FlatTo(cs, m) \notin Seq(S) OBVIOUS
<1>3. m # 0
  <2> SUFFICES ASSUME m = 0 PROVE FALSE OBVIOUS
  <2>1. FlatTo(cs, 0) = <<>> BY FlatNone
  <2>2. <<>> \in Seq(S) OBVIOUS
  <2>3. FlatTo(cs, m) = FlatTo(cs, 0) OBVIOUS
  <2> HIDE DEF Bad
  <2> QED BY ONLY <1>2, <2>1, <2>2, <2>3
<1>4. FlatTo(cs, m - 1) \in Seq(S)
  <2>1. m - 1 \in 0..n BY <1>2, <1>3
  <2> QED BY <1>1, <1>2, <2>1
<1>5. \A c \in 1..m : ScopesOf(cs[c]) \in Seq(S) BY <1>2
<1>6. FlatTo(cs, m) = FlatTo(cs, m - 1) \o ScopesOf(cs[m]) BY <1>2, <1>3, <1>5, FlatStep
<1>7. ScopesOf(cs[m]) \in Seq(S) BY <1>2, <1>3, <1>5
<1> QED BY <1>2, <1>4, <1>6, <1>7

-----------------------------------------------------------------------------
(* Looking a name up, from the innermost scope outwards. *)

LEMMA Concatenated ==
    ASSUME NEW S, NEW s \in Seq(S), NEW t \in Seq(S)
    PROVE  /\ s \o t \in Seq(S) /\ Len(s \o t) = Len(s) + Len(t)
           /\ \A i \in 1..Len(s) : (s \o t)[i] = s[i]
           /\ \A i \in 1..Len(t) : (s \o t)[Len(s) + i] = t[i]
OBVIOUS

Absent(ss, name) == \A s \in 1..Len(ss) : name \notin DOMAIN ss[s]

Finds(ss, name, x) ==
    \E s \in 1..Len(ss) :
        /\ name \in DOMAIN ss[s] /\ ss[s][name] = x
        /\ \A t \in 1..Len(ss) : t > s => name \notin DOMAIN ss[t]

(* Of two parts, an element is of the one or of the other. *)
LEMMA OfEither ==
    ASSUME NEW S, NEW s \in Seq(S), NEW t \in Seq(S), NEW i \in 1..Len(s \o t)
    PROVE  \/ i \in 1..Len(s) /\ (s \o t)[i] = s[i]
           \/ i - Len(s) \in 1..Len(t) /\ (s \o t)[i] = t[i - Len(s)]
<1> DEFINE u == s \o t
<1>1. /\ Len(u) = Len(s) + Len(t) /\ Len(s) \in Nat /\ Len(t) \in Nat
      /\ \A j \in 1..Len(s) : u[j] = s[j] /\ \A k \in 1..Len(t) : u[Len(s) + k] = t[k]
      BY Concatenated
<1> HIDE DEF u
<1>2. i \in 1..Len(u) BY DEF u
<1>3. CASE i \in 1..Len(s) BY <1>1, <1>3 DEF u
<1>4. CASE i \notin 1..Len(s)
  <2>1. i - Len(s) \in 1..Len(t) /\ Len(s) + (i - Len(s)) = i BY <1>1, <1>2, <1>4
  <2>2. \A k \in 1..Len(t) : u[Len(s) + k] = t[k]
    <3>1. \A k \in 1..Len(t) : (s \o t)[Len(s) + k] = t[k] BY Concatenated
    <3> QED BY <3>1 DEF u
  <2>3. u[Len(s) + (i - Len(s))] = t[i - Len(s)] BY ONLY <2>1, <2>2
  <2> QED BY <2>1, <2>3 DEF u
<1> QED BY <1>3, <1>4

LEMMA AbsentJoined ==
    ASSUME NEW S, NEW s \in Seq(S), NEW t \in Seq(S), NEW name, Absent(s, name), Absent(t, name)
    PROVE  Absent(s \o t, name)
<1> SUFFICES ASSUME NEW i \in 1..Len(s \o t) PROVE name \notin DOMAIN (s \o t)[i]
    BY DEF Absent
<1>1. \/ i \in 1..Len(s) /\ (s \o t)[i] = s[i]
      \/ i - Len(s) \in 1..Len(t) /\ (s \o t)[i] = t[i - Len(s)]
      BY OfEither
<1> QED BY <1>1 DEF Absent

LEMMA FoundBefore ==
    ASSUME NEW S, NEW s \in Seq(S), NEW t \in Seq(S), NEW name, NEW x,
           Finds(s, name, x), Absent(t, name)
    PROVE  Finds(s \o t, name, x)
<1> DEFINE u == s \o t
<1>1. PICK i \in 1..Len(s) : /\ name \in DOMAIN s[i] /\ s[i][name] = x
                             /\ \A j \in 1..Len(s) : j > i => name \notin DOMAIN s[j]
      BY DEF Finds
<1>2. Len(u) = Len(s) + Len(t) /\ Len(s) \in Nat /\ Len(t) \in Nat BY Concatenated
<1>3. u[i] = s[i] BY Concatenated
<1>4. ASSUME NEW j \in 1..Len(u), j > i PROVE name \notin DOMAIN u[j]
  <2>1. \/ j \in 1..Len(s) /\ u[j] = s[j]
        \/ j - Len(s) \in 1..Len(t) /\ u[j] = t[j - Len(s)]
        BY OfEither
  <2> HIDE DEF u
  <2> QED BY <2>1, <1>1, <1>4 DEF Absent
<1> HIDE DEF u
<1>5. i \in 1..Len(u) BY <1>2
<1>6. Finds(u, name, x) BY <1>1, <1>3, <1>4, <1>5 DEF Finds
<1> QED BY <1>6 DEF u

LEMMA FoundAfter ==
    ASSUME NEW S, NEW s \in Seq(S), NEW t \in Seq(S), NEW name, NEW x, Finds(t, name, x)
    PROVE  Finds(s \o t, name, x)
<1> DEFINE u == s \o t
<1>1. PICK i \in 1..Len(t) : /\ name \in DOMAIN t[i] /\ t[i][name] = x
                             /\ \A j \in 1..Len(t) : j > i => name \notin DOMAIN t[j]
      BY DEF Finds
<1>2. Len(u) = Len(s) + Len(t) /\ Len(s) \in Nat /\ Len(t) \in Nat BY Concatenated
<1>3. u[Len(s) + i] = t[i] BY Concatenated
<1>4. ASSUME NEW j \in 1..Len(u), j > Len(s) + i PROVE name \notin DOMAIN u[j]
  <2>1. \/ j \in 1..Len(s) /\ u[j] = s[j]
        \/ j - Len(s) \in 1..Len(t) /\ u[j] = t[j - Len(s)]
        BY OfEither
  <2> HIDE DEF u
  <2>2. j \notin 1..Len(s) /\ j - Len(s) > i BY <1>2, <1>4
  <2> QED BY <2>1, <2>2, <1>1
<1> HIDE DEF u
<1>5. Len(s) + i \in 1..Len(u) BY <1>2
<1>6. name \in DOMAIN u[Len(s) + i] /\ u[Len(s) + i][name] = x BY <1>1, <1>3
<1>7. Finds(u, name, x) BY <1>4, <1>5, <1>6 DEF Finds
<1> QED BY <1>7 DEF u

-----------------------------------------------------------------------------
(* The scopes of one compiler. *)

(* The scope that local n of compiler k is in; its initializer is compiled in *)
(* the innermost one.                                                         *)
Level(k, n) == IF k.locals[n].depth = Uninitialized THEN k.scopeDepth ELSE k.locals[n].depth

(* The locals but the callee's are in the order of their scopes, and a scope  *)
(* has no two of the same name.                                               *)
ScopesOK(k) ==
    /\ \A n \in 2..Len(k.locals) : Level(k, n) \in 1..k.scopeDepth
    /\ \A n, m \in 2..Len(k.locals) : n <= m => Level(k, n) <= Level(k, m)
    /\ \A n, m \in 2..Len(k.locals) :
         Level(k, n) = Level(k, m) /\ k.locals[n].name = k.locals[m].name => n = m

(* What a scope says of local n. *)
Meaning(k, n) ==
    [variable |-> k.locals[n].variable, initialized |-> k.locals[n].depth # Uninitialized]

(* sc is scope d of compiler k. *)
Describes(sc, k, d) ==
    /\ sc = [x \in DOMAIN sc |-> sc[x]]
    /\ \A x \in DOMAIN sc : \E n \in 2..Len(k.locals) : Level(k, n) = d /\ k.locals[n].name = x
    /\ \A n \in 2..Len(k.locals) :
         Level(k, n) = d => k.locals[n].name \in DOMAIN sc /\ sc[k.locals[n].name] = Meaning(k, n)

LEMMA DescribesOnly ==
    ASSUME NEW sc, NEW sd, NEW k, NEW d, Describes(sc, k, d), Describes(sd, k, d)
    PROVE  sc = sd
<1>1. DOMAIN sc = DOMAIN sd BY DEF Describes
<1>2. \A x \in DOMAIN sc : sc[x] = sd[x] BY DEF Describes
<1>3. sc = [x \in DOMAIN sc |-> sc[x]] /\ sd = [x \in DOMAIN sd |-> sd[x]] BY DEF Describes
<1> QED BY <1>1, <1>2, <1>3

LEMMA LevelHere ==
    ASSUME NEW k, CompilerOK(k), ScopesOK(k), NEW d \in 1..k.scopeDepth
    PROVE  /\ Here(k, d) \subseteq 2..Len(k.locals)
           /\ \A n \in 2..Len(k.locals) : n \in Here(k, d) <=> Level(k, n) = d
<1>1. /\ DOMAIN k.locals = 1..Len(k.locals) /\ k.scopeDepth \in Nat /\ Len(k.locals) \in Nat
      /\ k.locals[1].depth = 0
      BY CompilerTypes DEF CompilerOK
<1>2. d \in Nat /\ d # Uninitialized /\ d # 0 /\ 0 # Uninitialized BY <1>1 DEF Uninitialized
<1>3. 1 \notin Here(k, d) BY <1>1, <1>2 DEF Here
<1>4. Here(k, d) \subseteq 1..Len(k.locals) BY <1>1 DEF Here
<1>5. ASSUME NEW n \in 2..Len(k.locals) PROVE n \in Here(k, d) <=> Level(k, n) = d
  <2>1. n \in 1..Len(k.locals) BY <1>1
  <2> QED BY <2>1, <1>1, <1>2 DEF Here, Level
<1> QED BY <1>1, <1>3, <1>4, <1>5

LEMMA ScopeDescribed ==
    ASSUME NEW k, CompilerOK(k), ScopesOK(k), NEW d \in 1..k.scopeDepth
    PROVE  Describes(ScopeAt(k, d), k, d)
<1> DEFINE H == Here(k, d)
           sc == ScopeAt(k, d)
           of(x) == CHOOSE m \in H : k.locals[m].name = x
<1>1. /\ H \subseteq 2..Len(k.locals) /\ \A n \in 2..Len(k.locals) : n \in H <=> Level(k, n) = d
      BY LevelHere
<1>2. /\ sc = [x \in {k.locals[n].name : n \in H} |-> Meaning(k, of(x))]
      BY DEF ScopeAt, Meaning
<1> HIDE DEF H, sc
<1>3. DOMAIN sc = {k.locals[n].name : n \in H} /\ sc = [x \in DOMAIN sc |-> sc[x]] BY <1>2
<1>4. ASSUME NEW n \in H PROVE sc[k.locals[n].name] = Meaning(k, n)
  <2> DEFINE x == k.locals[n].name
  <2>1. of(x) \in H /\ k.locals[of(x)].name = x OBVIOUS
  <2>2. Level(k, of(x)) = Level(k, n) /\ of(x) \in 2..Len(k.locals) /\ n \in 2..Len(k.locals)
        BY <1>1, <2>1
  <2>3. of(x) = n BY <2>1, <2>2 DEF ScopesOK
  <2>4. x \in {k.locals[m].name : m \in H} OBVIOUS
  <2>5. sc[x] = Meaning(k, of(x)) BY <1>2, <2>4
  <2> QED BY <2>3, <2>5
<1>5. ASSUME NEW n \in 2..Len(k.locals), Level(k, n) = d
      PROVE  k.locals[n].name \in DOMAIN sc /\ sc[k.locals[n].name] = Meaning(k, n)
  <2>1. n \in H BY <1>1, <1>5
  <2> QED BY <2>1, <1>3, <1>4
<1>6. ASSUME NEW x \in DOMAIN sc
      PROVE  \E n \in 2..Len(k.locals) : Level(k, n) = d /\ k.locals[n].name = x
  <2>1. PICK n \in H : k.locals[n].name = x BY <1>3
  <2> QED BY <2>1, <1>1
<1>7. Describes(sc, k, d) BY <1>3, <1>5, <1>6 DEF Describes
<1> QED BY <1>7 DEF sc

(* The scopes of a program in which v variables have been declared. *)
Meanings(v) == [variable : 1..v, initialized : BOOLEAN]
ScopeSet(v) == UNION {[N -> Meanings(v)] : N \in SUBSET Names}

LEMMA ScopesWidened ==
    ASSUME NEW v \in Nat, NEW w \in Nat, v <= w
    PROVE  ScopeSet(v) \subseteq ScopeSet(w)
<1> SUFFICES ASSUME NEW x \in ScopeSet(v) PROVE x \in ScopeSet(w) OBVIOUS
<1>1. PICK N \in SUBSET Names : x \in [N -> Meanings(v)] BY DEF ScopeSet
<1>2. Meanings(v) \subseteq Meanings(w) BY DEF Meanings
<1>3. x \in [N -> Meanings(w)] BY <1>1, <1>2
<1> QED BY <1>3 DEF ScopeSet

LEMMA ScopeTyped ==
    ASSUME NEW k, CompilerOK(k), ScopesOK(k), NEW v,
           \A n \in 2..Len(k.locals) : k.locals[n].variable \in 1..v, NEW d \in 1..k.scopeDepth
    PROVE  ScopeAt(k, d) \in ScopeSet(v)
<1> DEFINE sc == ScopeAt(k, d)
<1>1. Describes(sc, k, d) BY ScopeDescribed
<1> HIDE DEF sc
<1>2. ASSUME NEW x \in DOMAIN sc PROVE x \in Names /\ sc[x] \in Meanings(v)
  <2>1. PICK n \in 2..Len(k.locals) : Level(k, n) = d /\ k.locals[n].name = x
        BY <1>1 DEF Describes
  <2>2. sc[x] = Meaning(k, n) BY <1>1, <2>1 DEF Describes
  <2>3. x \in Names BY <2>1 DEF CompilerOK
  <2>4. Meaning(k, n) \in Meanings(v) BY DEF Meaning, Meanings
  <2> QED BY <2>2, <2>3, <2>4
<1>3. sc \in [DOMAIN sc -> Meanings(v)] BY <1>1, <1>2 DEF Describes
<1>4. DOMAIN sc \in SUBSET Names BY <1>2
<1>5. sc \in ScopeSet(v) BY <1>3, <1>4 DEF ScopeSet
<1> QED BY <1>5 DEF sc

LEMMA ScopesTyped ==
    ASSUME NEW k, CompilerOK(k), ScopesOK(k), NEW v,
           \A n \in 2..Len(k.locals) : k.locals[n].variable \in 1..v
    PROVE  /\ ScopesOf(k) \in Seq(ScopeSet(v)) /\ Len(ScopesOf(k)) = k.scopeDepth
           /\ \A d \in 1..k.scopeDepth :
                ScopesOf(k)[d] = ScopeAt(k, d) /\ Describes(ScopesOf(k)[d], k, d)
<1>1. k.scopeDepth \in Nat BY CompilerTypes
<1>2. \A d \in 1..k.scopeDepth : ScopeAt(k, d) \in ScopeSet(v) BY ScopeTyped
<1>3. ScopesOf(k) = [d \in 1..k.scopeDepth |-> ScopeAt(k, d)] BY DEF ScopesOf
<1>4. \A d \in 1..k.scopeDepth : Describes(ScopeAt(k, d), k, d) BY ScopeDescribed
<1> QED BY <1>1, <1>2, <1>3, <1>4

-----------------------------------------------------------------------------
(* The invariant, and the compilers around the one that changes. *)

Settled(k, m) == \A n \in 2..m : k.locals[n].depth # Uninitialized

(* Every compiler has its locals in order; only the last local of the         *)
(* innermost one can have no value yet; a function has a scope of its own.    *)
Nested(cs) ==
    /\ \A c \in 1..Len(cs) : ScopesOK(cs[c])
    /\ \A c \in 1..(Len(cs) - 1) : Settled(cs[c], Len(cs[c].locals))
    /\ Settled(cs[Len(cs)], Len(cs[Len(cs)].locals) - 1)
    /\ \A c \in 2..Len(cs) : cs[c].scopeDepth >= 1

LInv == IInv /\ Nested(compilers)

(* O are the scopes outside of the innermost function. *)
LEMMA Around ==
    ASSUME NEW cs, Chain(cs), NEW v, Declared(cs, v), Nested(cs)
    PROVE  LET n == Len(cs)
               O == FlatTo(cs, n - 1)
               I == ScopesOf(cs[n])
           IN  /\ O \in Seq(ScopeSet(v)) /\ I \in Seq(ScopeSet(v))
               /\ FlatTo(cs, n) = O \o I /\ FlatTo(cs, n) \in Seq(ScopeSet(v))
               /\ Len(I) = cs[n].scopeDepth
               /\ \A d \in 1..cs[n].scopeDepth : Describes(I[d], cs[n], d)
<1> DEFINE n == Len(cs)
<1>1. n \in Nat /\ n # 0 /\ n \in 1..n BY ChainTypes
<1>2. ASSUME NEW c \in 1..n
      PROVE  /\ ScopesOf(cs[c]) \in Seq(ScopeSet(v)) /\ Len(ScopesOf(cs[c])) = cs[c].scopeDepth
             /\ \A d \in 1..cs[c].scopeDepth : Describes(ScopesOf(cs[c])[d], cs[c], d)
  <2>1. CompilerOK(cs[c]) /\ ScopesOK(cs[c]) BY ChainTypes DEF Nested
  <2>2. \A i \in 2..Len(cs[c].locals) : cs[c].locals[i].variable \in 1..v BY DEF Declared
  <2> QED BY <2>1, <2>2, ScopesTyped
<1>3. \A c \in 1..n : ScopesOf(cs[c]) \in Seq(ScopeSet(v)) BY <1>2
<1>4. \A c \in 1..(n - 1) : ScopesOf(cs[c]) \in Seq(ScopeSet(v)) BY <1>1, <1>3
<1>5. n - 1 \in Nat BY <1>1
<1>6. FlatTo(cs, n - 1) \in Seq(ScopeSet(v))
  <2> HIDE DEF n
  <2> QED BY <1>4, <1>5, FlatTyped
<1>7. FlatTo(cs, n) = FlatTo(cs, n - 1) \o ScopesOf(cs[n])
  <2> HIDE DEF n
  <2> QED BY <1>1, <1>3, FlatStep
<1>8. FlatTo(cs, n) \in Seq(ScopeSet(v))
  <2> HIDE DEF n
  <2> QED BY <1>1, <1>3, FlatTyped
<1> QED BY <1>1, <1>2, <1>6, <1>7, <1>8

(* The innermost compiler changes. *)
LEMMA InnermostSet ==
    ASSUME NEW cs, Chain(cs), Nested(cs), NEW ds, Chain(ds), NEW k, IsSet(ds, cs, k),
           ScopesOK(k), Settled(k, Len(k.locals) - 1), Len(cs) # 1 => k.scopeDepth >= 1
    PROVE  Nested(ds) /\ FlatTo(ds, Len(ds) - 1) = FlatTo(cs, Len(cs) - 1)
<1>1. /\ Len(cs) \in Nat /\ Len(cs) >= 1 /\ Len(ds) = Len(cs) /\ ds[Len(cs)] = k
      /\ \A c \in 1..Len(cs) : c # Len(cs) => ds[c] = cs[c]
      BY ChainTypes DEF IsSet
<1>2. \A c \in 1..(Len(cs) - 1) : c \in 1..Len(cs) /\ ds[c] = cs[c] BY <1>1
<1>3. FlatTo(ds, Len(cs) - 1) = FlatTo(cs, Len(cs) - 1)
  <2>1. Len(cs) - 1 \in Nat BY <1>1
  <2> QED BY <2>1, <1>2, FlatSame
<1>4. \A c \in 1..Len(ds) : ScopesOK(ds[c]) BY <1>1 DEF Nested
<1>5. \A c \in 1..(Len(ds) - 1) : Settled(ds[c], Len(ds[c].locals)) BY <1>1, <1>2 DEF Nested
<1>6. \A c \in 2..Len(ds) : ds[c].scopeDepth >= 1
  <2> TAKE c \in 2..Len(ds)
  <2>1. CASE c = Len(cs) BY <2>1, <1>1
  <2>2. CASE c # Len(cs)
    <3>1. c \in 1..Len(cs) /\ c \in 2..Len(cs) BY <1>1
    <3> QED BY <3>1, <2>2, <1>1 DEF Nested
  <2> QED BY <2>1, <2>2
<1> QED BY <1>1, <1>3, <1>4, <1>5, <1>6 DEF Nested

(* What a change of the innermost compiler is to the scopes. *)
LEMMA ChangeOfCurrent ==
    ASSUME LInv, NEW k, NEW ds, ds = [compilers EXCEPT ![Depth] = k],
           NEW w, Chain(ds), Declared(ds, w),
           ScopesOK(k), Settled(k, Len(k.locals) - 1), Depth # 1 => k.scopeDepth >= 1
    PROVE  /\ CompilerOK(k) /\ Nested(ds) /\ Len(ds) = Depth
           /\ \E O \in Seq(ScopeSet(variables)) :
                /\ OpenScopes = O \o ScopesOf(Current) /\ FlatTo(ds, Depth) = O \o ScopesOf(k)
                /\ O \in Seq(ScopeSet(w))
<1> DEFINE cs == compilers
           v == variables
           n == Len(cs)
<1>1. /\ Chain(cs) /\ Declared(cs, v) /\ Nested(cs) /\ Depth = n /\ n \in Nat /\ n \in 1..n
      /\ Current = cs[n] /\ cs \in Seq(Compilers)
      BY CurrentFacts, ChainTypes DEF LInv
<1>3. Len(ds) = n /\ ds[n] = k /\ IsSet(ds, cs, k) BY <1>1 DEF IsSet
<1>4. CompilerOK(k) BY <1>1, <1>3, ChainTypes
<1>5. Depth # 1 => k.scopeDepth >= 1 OBVIOUS
<1>10. OpenScopes = FlatTo(cs, n) BY FlatNow
<1> HIDE DEF cs, v
<1>6. Nested(ds) /\ FlatTo(ds, Len(ds) - 1) = FlatTo(cs, n - 1)
      BY <1>1, <1>3, <1>5, InnermostSet
<1> DEFINE O == FlatTo(cs, n - 1)
<1>7. O \in Seq(ScopeSet(v)) /\ FlatTo(cs, n) = O \o ScopesOf(cs[n]) BY <1>1, Around
<1>8. FlatTo(ds, n - 1) \in Seq(ScopeSet(w)) /\ FlatTo(ds, n) = FlatTo(ds, n - 1) \o ScopesOf(ds[n])
      BY <1>3, <1>6, Around
<1>9. O \in Seq(ScopeSet(w)) /\ FlatTo(ds, n) = O \o ScopesOf(k) BY <1>3, <1>6, <1>8
<1> HIDE DEF O
<1> QED BY <1>1, <1>3, <1>4, <1>6, <1>7, <1>9, <1>10 DEF v

(* The innermost compiler. *)
LEMMA CurrentLevels ==
    ASSUME LInv
    PROVE  /\ CompilerOK(Current) /\ ScopesOK(Current)
           /\ Settled(Current, Len(Current.locals) - 1)
           /\ ~Pending => Settled(Current, Len(Current.locals))
           /\ Depth # 1 => Current.scopeDepth >= 1
           /\ Current.scopeDepth \in Nat /\ Len(Current.locals) \in Nat
           /\ Current.locals \in Seq(Locals)
<1> DEFINE k == Current
<1>1. /\ CompilerOK(k) /\ Nested(compilers) /\ Depth = Len(compilers) /\ Depth \in Nat
      /\ Depth \in 1..Len(compilers) /\ k = compilers[Depth]
      BY CurrentFacts DEF LInv
<1>2. ScopesOK(k) /\ Settled(k, Len(k.locals) - 1) BY <1>1 DEF Nested
<1>3. Depth # 1 => k.scopeDepth >= 1
  <2>1. Depth # 1 => Depth \in 2..Len(compilers) BY <1>1
  <2> QED BY <2>1, <1>1 DEF Nested
<1>4. k.scopeDepth \in Nat /\ Len(k.locals) \in Nat /\ k.locals \in Seq(Locals)
      BY <1>1, CompilerTypes
<1>5. ~Pending => Settled(k, Len(k.locals))
  <2> SUFFICES ASSUME ~Pending, NEW n \in 2..Len(k.locals)
               PROVE  k.locals[n].depth # Uninitialized
      BY DEF Settled
  <2>1. Last(k.locals) = k.locals[Len(k.locals)] BY DEF Last
  <2>2. CASE n = Len(k.locals)
    <3>1. Len(k.locals) > 1 BY <2>2, <1>4
    <3> QED BY <2>1, <2>2, <3>1 DEF Pending
  <2>3. CASE n # Len(k.locals)
    <3>1. n \in 2..(Len(k.locals) - 1) BY <2>3, <1>4
    <3> QED BY <3>1, <1>2 DEF Settled
  <2> QED BY <2>2, <2>3
<1> HIDE DEF k
<1> QED BY <1>1, <1>2, <1>3, <1>4, <1>5 DEF k

(* Scope d of compiler k is that of compiler j, when they agree on its locals. *)
Agree(j, k, d) ==
    /\ \A n \in 2..Len(k.locals) : Level(k, n) = d =>
         /\ n \in 2..Len(j.locals) /\ Level(j, n) = d
         /\ j.locals[n].name = k.locals[n].name /\ Meaning(j, n) = Meaning(k, n)
    /\ \A n \in 2..Len(j.locals) : Level(j, n) = d => n \in 2..Len(k.locals) /\ Level(k, n) = d

LEMMA DescribesSame ==
    ASSUME NEW j, NEW k, NEW d, Agree(j, k, d), NEW sc, Describes(sc, k, d)
    PROVE  Describes(sc, j, d)
<1>1. ASSUME NEW x \in DOMAIN sc
      PROVE  \E n \in 2..Len(j.locals) : Level(j, n) = d /\ j.locals[n].name = x
  <2>1. PICK n \in 2..Len(k.locals) : Level(k, n) = d /\ k.locals[n].name = x BY DEF Describes
  <2> QED BY <2>1 DEF Agree
<1>2. ASSUME NEW n \in 2..Len(j.locals), Level(j, n) = d
      PROVE  j.locals[n].name \in DOMAIN sc /\ sc[j.locals[n].name] = Meaning(j, n)
  <2>1. n \in 2..Len(k.locals) /\ Level(k, n) = d BY <1>2 DEF Agree
  <2>2. j.locals[n].name = k.locals[n].name /\ Meaning(j, n) = Meaning(k, n) BY <2>1 DEF Agree
  <2>3. k.locals[n].name \in DOMAIN sc /\ sc[k.locals[n].name] = Meaning(k, n)
        BY <2>1 DEF Describes
  <2> QED BY <2>2, <2>3
<1>3. sc = [x \in DOMAIN sc |-> sc[x]] BY DEF Describes
<1> QED BY <1>1, <1>2, <1>3 DEF Describes

(* The scopes I of compiler k, as ScopesOf lists them. *)
Lists(I, k) ==
    /\ I = ScopesOf(k) /\ Len(I) = k.scopeDepth /\ I \in Seq(ScopeSet(MaxVariables))
    /\ \A d \in 1..k.scopeDepth : Describes(I[d], k, d)

LEMMA ScopesListed ==
    ASSUME NEW k, CompilerOK(k), ScopesOK(k),
           \A n \in 2..Len(k.locals) : k.locals[n].variable \in 1..MaxVariables
    PROVE  Lists(ScopesOf(k), k)
BY ScopesTyped DEF Lists

LEMMA EmptyScope ==
    ASSUME NEW sc, NEW k, NEW d, Describes(sc, k, d), \A n \in 2..Len(k.locals) : Level(k, n) # d
    PROVE  sc = << >>
<1>1. sc = [x \in DOMAIN sc |-> sc[x]] /\ DOMAIN sc = {} BY DEF Describes
<1> QED BY <1>1

-----------------------------------------------------------------------------
(* Sequences whose last part changes. *)

LEMMA AppendedLast ==
    ASSUME NEW S, NEW O \in Seq(S), NEW I \in Seq(S), NEW x \in S
    PROVE  O \o Append(I, x) = Append(O \o I, x)
OBVIOUS

LEMMA CutLast ==
    ASSUME NEW S, NEW O \in Seq(S), NEW I \in Seq(S), Len(I) # 0
    PROVE  SubSeq(O \o I, 1, Len(O \o I) - 1) = O \o SubSeq(I, 1, Len(I) - 1)
OBVIOUS

LEMMA LastOf ==
    ASSUME NEW S, NEW O \in Seq(S), NEW I \in Seq(S), Len(I) # 0
    PROVE  (O \o I)[Len(O \o I)] = I[Len(I)] /\ Len(O \o I) # 0 /\ O \o I # << >>
OBVIOUS

LEMMA SameElements ==
    ASSUME NEW S, NEW s \in Seq(S), NEW t \in Seq(S), Len(s) = Len(t),
           \A i \in 1..Len(s) : s[i] = t[i]
    PROVE  s = t
OBVIOUS

LEMMA ReplacedLast ==
    ASSUME NEW S, NEW O \in Seq(S), NEW I \in Seq(S), NEW J \in Seq(S), Len(I) # 0,
           Len(J) = Len(I), \A i \in 1..Len(I) : i # Len(I) => J[i] = I[i]
    PROVE  O \o J = [O \o I EXCEPT ![Len(O \o I)] = J[Len(I)]]
<1> DEFINE p == O \o I
           q == O \o J
           x == J[Len(I)]
           n == Len(p)
           r == [p EXCEPT ![n] = x]
<1>1. /\ p \in Seq(S) /\ n = Len(O) + Len(I) /\ Len(O) \in Nat /\ Len(I) \in Nat
      /\ \A i \in 1..Len(O) : p[i] = O[i]
      /\ \A i \in 1..Len(I) : p[Len(O) + i] = I[i]
      BY Concatenated
<1>2. /\ q \in Seq(S) /\ Len(q) = Len(O) + Len(I)
      /\ \A i \in 1..Len(O) : q[i] = O[i]
      /\ \A i \in 1..Len(I) : q[Len(O) + i] = J[i]
  <2>1. Len(q) = Len(O) + Len(J) /\ q \in Seq(S) BY Concatenated
  <2>2. \A i \in 1..Len(O) : q[i] = O[i] BY Concatenated
  <2>3. \A i \in 1..Len(J) : q[Len(O) + i] = J[i] BY Concatenated
  <2> HIDE DEF q
  <2> QED BY <2>1, <2>2, <2>3
<1>3. x \in S OBVIOUS
<1> HIDE DEF p, q, x
<1>4. n \in 1..n BY <1>1
<1>5. r \in Seq(S) /\ Len(r) = n /\ r[n] = x /\ \A i \in 1..n : i # n => r[i] = p[i]
      BY <1>1, <1>3, <1>4, Replaced
<1> HIDE DEF r, n
<1>6. ASSUME NEW i \in 1..Len(q) PROVE q[i] = r[i]
  <2>1. CASE i \in 1..Len(O)
    <3>1. i \in 1..n /\ i # n BY <2>1, <1>1
    <3> QED BY <2>1, <3>1, <1>1, <1>2, <1>5
  <2>2. CASE i \notin 1..Len(O)
    <3> DEFINE m == i - Len(O)
    <3>1. m \in 1..Len(I) /\ Len(O) + m = i BY <2>2, <1>1, <1>2
    <3>2. i \in 1..n /\ (i = n <=> m = Len(I)) BY <3>1, <1>1
    <3> HIDE DEF m
    <3>3. q[i] = J[m] /\ p[i] = I[m] BY <3>1, <1>1, <1>2
    <3>4. CASE i = n BY <3>2, <3>3, <3>4, <1>5 DEF x
    <3>5. CASE i # n
      <4>1. J[m] = I[m] BY <3>1, <3>2, <3>5
      <4>2. r[i] = p[i] BY <3>2, <3>5, <1>5
      <4> QED BY <3>3, <4>1, <4>2
    <3> QED BY <3>4, <3>5
  <2> QED BY <2>1, <2>2
<1>7. q = r BY <1>1, <1>2, <1>5, <1>6, SameElements
<1> QED BY <1>7 DEF p, q, r, n, x

-----------------------------------------------------------------------------
(* Every step of the compiler is a step of the scopes. *)

LEMMA DenotedGlobal == access = NoAccess => Denoted = Global
BY DEF Denoted, NoAccess

(* The scopes before and after, with those of the innermost function apart. *)
LEMMA ApartIn ==
    ASSUME LInv, NEW k, NEW ds, ds = [compilers EXCEPT ![Depth] = k],
           NEW w \in 0..MaxVariables, Chain(ds), Declared(ds, w),
           ScopesOK(k), Settled(k, Len(k.locals) - 1), Depth # 1 => k.scopeDepth >= 1
    PROVE  /\ Nested(ds) /\ Len(ds) = Depth
           /\ \E O, I, J \in Seq(ScopeSet(MaxVariables)) :
                /\ OpenScopes = O \o I /\ Lists(I, Current)
                /\ FlatTo(ds, Depth) = O \o J /\ Lists(J, k)
<1>1. /\ CompilerOK(k) /\ Nested(ds) /\ Len(ds) = Depth
      /\ \E O \in Seq(ScopeSet(variables)) :
           /\ OpenScopes = O \o ScopesOf(Current) /\ FlatTo(ds, Depth) = O \o ScopesOf(k)
           /\ O \in Seq(ScopeSet(w))
      BY ChangeOfCurrent
<1>2. PICK O \in Seq(ScopeSet(variables)) :
           /\ OpenScopes = O \o ScopesOf(Current) /\ FlatTo(ds, Depth) = O \o ScopesOf(k)
      BY <1>1
<1>3. CompilerOK(Current) /\ ScopesOK(Current) BY CurrentLevels
<1>4. variables \in Nat /\ variables <= MaxVariables /\ MaxVariables \in Nat
      BY CurrentFacts DEF LInv
<1>6. ScopeSet(variables) \subseteq ScopeSet(MaxVariables) BY <1>4, ScopesWidened
<1>7. O \in Seq(ScopeSet(MaxVariables)) BY <1>6
<1>8. \A n \in 2..Len(Current.locals) : Current.locals[n].variable \in 1..MaxVariables
  <2>1. /\ Declared(compilers, variables) /\ Depth \in 1..Len(compilers)
        /\ Current = compilers[Depth]
        BY CurrentFacts DEF LInv
  <2>2. 1..variables \subseteq 1..MaxVariables BY <1>4
  <2> QED BY <2>1, <2>2 DEF Declared
<1>9. \A n \in 2..Len(k.locals) : k.locals[n].variable \in 1..MaxVariables
  <2>2. /\ Depth \in 1..Len(compilers) /\ compilers \in Seq(Compilers)
        BY CurrentFacts, ChainTypes DEF LInv
  <2>3. Depth \in 1..Len(ds) /\ ds[Depth] = k BY <2>2
  <2>4. \A n \in 2..Len(k.locals) : k.locals[n].variable \in 1..w BY <2>3 DEF Declared
  <2>5. 1..w \subseteq 1..MaxVariables BY <1>4
  <2> QED BY <2>4, <2>5
<1>12. Lists(ScopesOf(Current), Current) BY <1>3, <1>8, ScopesListed
<1>13. Lists(ScopesOf(k), k) BY <1>1, <1>9, ScopesListed
<1>14. /\ ScopesOf(Current) \in Seq(ScopeSet(MaxVariables))
       /\ ScopesOf(k) \in Seq(ScopeSet(MaxVariables))
       BY <1>12, <1>13 DEF Lists
<1> QED BY <1>1, <1>2, <1>7, <1>12, <1>13, <1>14

LEMMA Apart ==
    ASSUME LInv, IInv', NEW k, compilers' = [compilers EXCEPT ![Depth] = k],
           ScopesOK(k), Settled(k, Len(k.locals) - 1), Depth # 1 => k.scopeDepth >= 1
    PROVE  /\ Nested(compilers')
           /\ \E O, I, J \in Seq(ScopeSet(MaxVariables)) :
                OpenScopes = O \o I /\ Lists(I, Current) /\ OpenScopes' = O \o J /\ Lists(J, k)
<1> DEFINE ds == compilers'
           w == variables'
<1>1. Chain(ds) /\ Declared(ds, w) /\ w \in 0..MaxVariables BY DEF IInv
<1>2. OpenScopes' = FlatTo(ds, Len(ds)) BY DEF OpenScopes, FlatTo, Depth
<1>3. ds = [compilers EXCEPT ![Depth] = k] /\ (Depth # 1 => k.scopeDepth >= 1) OBVIOUS
<1> HIDE DEF ds, w
<1>4. /\ Nested(ds) /\ Len(ds) = Depth
      /\ \E O, I, J \in Seq(ScopeSet(MaxVariables)) :
           /\ OpenScopes = O \o I /\ Lists(I, Current)
           /\ FlatTo(ds, Depth) = O \o J /\ Lists(J, k)
      BY <1>1, <1>3, ApartIn
<1> QED BY <1>2, <1>4 DEF ds

LEMMA ScopeKept ==
    ASSUME NEW I, NEW j, Lists(I, j), NEW J, NEW k, Lists(J, k),
           NEW d, d \in 1..j.scopeDepth, d \in 1..k.scopeDepth, Agree(k, j, d)
    PROVE  J[d] = I[d]
<1>1. Describes(I[d], j, d) /\ Describes(J[d], k, d) BY DEF Lists
<1>2. Describes(I[d], k, d) BY <1>1, DescribesSame
<1> QED BY <1>1, <1>2, DescribesOnly

(* What is not pending is where its depth says, whatever the scope. *)
LEMMA BeginScopeStep ==
    ASSUME LInv, IInv', BeginScope
    PROVE  Lexical!Open /\ Nested(compilers')
<1> DEFINE j == Current
           k == [j EXCEPT !.scopeDepth = @ + 1]
           e == j.scopeDepth
<1>1. /\ CompilerOK(j) /\ ScopesOK(j) /\ Settled(j, Len(j.locals))
      /\ e \in Nat /\ Len(j.locals) \in Nat
      BY CurrentLevels DEF BeginScope
<1>2. k.locals = j.locals /\ k.scopeDepth = e + 1
  <2>1. [j EXCEPT !.scopeDepth = e + 1] =
          [locals |-> j.locals, upvalues |-> j.upvalues, scopeDepth |-> e + 1]
        BY <1>1, Remade
  <2> QED BY <2>1
<1>3. compilers' = [compilers EXCEPT ![Depth] = k] /\ access' = NoAccess
      /\ status = "compiling" /\ status' = status
      BY DEF BeginScope, SetCurrent, Compiling
<1> HIDE DEF j, k, e
<1>4. \A n \in 2..Len(j.locals) : Level(k, n) = Level(j, n) /\ Meaning(k, n) = Meaning(j, n)
      BY <1>1, <1>2 DEF Level, Settled, Meaning
<1>5. ScopesOK(k)
  <2>1. /\ \A n \in 2..Len(j.locals) : Level(j, n) \in 1..e
        /\ \A n, m \in 2..Len(j.locals) : n <= m => Level(j, n) <= Level(j, m)
        /\ \A n, m \in 2..Len(j.locals) :
             Level(j, n) = Level(j, m) /\ j.locals[n].name = j.locals[m].name => n = m
        BY <1>1 DEF ScopesOK, e
  <2>2. \A n \in 2..Len(j.locals) : Level(k, n) \in 1..(e + 1) BY <2>1, <1>1, <1>4
  <2>3. \A n, m \in 2..Len(j.locals) : n <= m => Level(k, n) <= Level(k, m) BY <2>1, <1>4
  <2>4. \A n, m \in 2..Len(j.locals) :
          Level(k, n) = Level(k, m) /\ j.locals[n].name = j.locals[m].name => n = m
        BY <2>1, <1>4
  <2> QED BY <1>2, <2>2, <2>3, <2>4 DEF ScopesOK
<1>6. Settled(k, Len(k.locals) - 1) BY <1>1, <1>2 DEF Settled
<1>7. k.scopeDepth >= 1 BY <1>1, <1>2
<1>8. PICK O \in Seq(ScopeSet(MaxVariables)) : \E I, J \in Seq(ScopeSet(MaxVariables)) :
         OpenScopes = O \o I /\ Lists(I, j) /\ OpenScopes' = O \o J /\ Lists(J, k)
      BY <1>3, <1>5, <1>6, <1>7, Apart DEF j
<1>9. PICK I \in Seq(ScopeSet(MaxVariables)), J \in Seq(ScopeSet(MaxVariables)) :
         OpenScopes = O \o I /\ Lists(I, j) /\ OpenScopes' = O \o J /\ Lists(J, k)
      BY <1>8
<1>10. Len(I) = e /\ Len(J) = e + 1 BY <1>2, <1>9 DEF Lists, e
<1>11. J[e + 1] = << >>
  <2>1. Describes(J[e + 1], k, e + 1) BY <1>1, <1>2, <1>9 DEF Lists
  <2>2. \A n \in 2..Len(k.locals) : Level(k, n) # e + 1
    <3>1. \A n \in 2..Len(j.locals) : Level(j, n) \in 1..e BY <1>1 DEF ScopesOK, e
    <3> QED BY <3>1, <1>1, <1>2, <1>4
  <2> QED BY <2>1, <2>2, EmptyScope
<1>12. \A d \in 1..e : J[d] = I[d]
  <2> TAKE d \in 1..e
  <2>1. Agree(k, j, d) BY <1>2, <1>4 DEF Agree
  <2>2. d \in 1..j.scopeDepth /\ d \in 1..k.scopeDepth BY <1>1, <1>2 DEF e
  <2>3. Lists(I, j) /\ Lists(J, k) BY <1>9
  <2> QED BY ONLY <2>1, <2>2, <2>3, ScopeKept
<1>13. J = Append(I, << >>)
  <2> DEFINE S == ScopeSet(MaxVariables)
  <2>1. J[e + 1] \in S BY <1>1, <1>9, <1>10
  <2>2. << >> \in S BY <2>1, <1>11
  <2> HIDE DEF S
  <2>3. I \in Seq(S) /\ J \in Seq(S) BY DEF S
  <2> DEFINE x == << >>
             K == Append(I, x)
  <2> HIDE DEF x
  <2>4. x \in S /\ J[e + 1] = x BY <2>2, <1>11 DEF x
  <2>5. K \in Seq(S) /\ Len(K) = e + 1 /\ K[e + 1] = x /\ \A i \in 1..e : K[i] = I[i]
        BY <2>3, <2>4, <1>10, Appended
  <2> HIDE DEF K
  <2>6. \A i \in 1..Len(J) : J[i] = K[i]
    <3> TAKE i \in 1..Len(J)
    <3>1. i \in 1..e \/ i = e + 1 BY <1>1, <1>10
    <3> QED BY <3>1, <2>4, <2>5, <1>12
  <2>7. J = K BY <2>3, <2>5, <2>6, <1>10, SameElements
  <2> QED BY <2>7 DEF K, x
<1>14. OpenScopes' = Append(OpenScopes, << >>)
  <2> DEFINE S == ScopeSet(MaxVariables)
             x == << >>
  <2>1. x \in S BY <1>1, <1>9, <1>10, <1>11
  <2> HIDE DEF S, x
  <2>2. O \in Seq(S) /\ I \in Seq(S) BY DEF S
  <2>3. O \o Append(I, x) = Append(O \o I, x) BY ONLY <2>1, <2>2, AppendedLast
  <2> QED BY <2>3, <1>9, <1>13 DEF x
<1>15. Denoted' = Global
  <2>1. access' = NoAccess => Denoted' = Global BY DEF Denoted, NoAccess
  <2> QED BY <2>1, <1>3
<1>16. Nested(compilers') BY <1>3, <1>5, <1>6, <1>7, Apart DEF j
<1> QED BY <1>3, <1>14, <1>15, <1>16 DEF Lexical!Open, Lexical!Compiling

LEMMA EndScopeStep ==
    ASSUME LInv, IInv', EndScope
    PROVE  Lexical!Close /\ Nested(compilers')
<1> DEFINE j == Current
           e == j.scopeDepth
           p == Kept(e - 1)
           k == [j EXCEPT !.scopeDepth = e - 1, !.locals = SubSeq(@, 1, p)]
<1>1. /\ CompilerOK(j) /\ ScopesOK(j) /\ Settled(j, Len(j.locals))
      /\ e \in Nat /\ e - 1 \in Nat /\ e >= 1 /\ (Depth # 1 => e - 1 >= 1)
      /\ Len(j.locals) \in Nat /\ j.locals \in Seq(Locals)
  <2>1. /\ CompilerOK(j) /\ ScopesOK(j) /\ Settled(j, Len(j.locals)) /\ e \in Nat
        /\ Len(j.locals) \in Nat /\ j.locals \in Seq(Locals)
        BY CurrentLevels DEF EndScope
  <2>2. e > (IF Depth = 1 THEN 0 ELSE 1) BY DEF EndScope
  <2> QED BY <2>1, <2>2
<1>2. /\ p \in 1..Len(j.locals) /\ j.locals[p].depth <= e - 1
      /\ \A m \in (p + 1)..Len(j.locals) : j.locals[m].depth > e - 1
  <2> HIDE DEF e
  <2> QED BY <1>1, KeptOf DEF LInv
<1>3. compilers' = [compilers EXCEPT ![Depth] = k] /\ access' = NoAccess
      /\ status = "compiling" /\ status' = status
      BY DEF EndScope, SetCurrent, Compiling
<1>4. k.locals = SubSeq(j.locals, 1, p) /\ k.scopeDepth = e - 1
  <2> HIDE DEF e, p
  <2>1. [j EXCEPT !.scopeDepth = e - 1] =
          [locals |-> j.locals, upvalues |-> j.upvalues, scopeDepth |-> e - 1]
        BY <1>1, Remade
  <2>2. k = [[j EXCEPT !.scopeDepth = e - 1] EXCEPT !.locals = SubSeq(@, 1, p)] OBVIOUS
  <2> QED BY <2>1, <2>2
<1> HIDE DEF j, k, e, p
<1>5. /\ Len(k.locals) = p /\ p \in Nat /\ p <= Len(j.locals)
      /\ \A n \in 1..p : k.locals[n] = j.locals[n]
      BY <1>1, <1>2, <1>4, Prefix
<1>6. \A n \in 2..Len(j.locals) : /\ j.locals[n].depth # Uninitialized
                                  /\ Level(j, n) = j.locals[n].depth
      BY <1>1 DEF Settled, Level
<1>7. \A n \in 2..p : Level(k, n) = Level(j, n) /\ Meaning(k, n) = Meaning(j, n)
  <2> TAKE n \in 2..p
  <2>1. k.locals[n] = j.locals[n] /\ k.locals[n].depth # Uninitialized BY <1>5, <1>6
  <2> QED BY <2>1 DEF Level, Meaning
<1>8. /\ \A n \in 2..Len(j.locals) : Level(j, n) \in 1..e
      /\ \A n, m \in 2..Len(j.locals) : n <= m => Level(j, n) <= Level(j, m)
      /\ \A n, m \in 2..Len(j.locals) :
           Level(j, n) = Level(j, m) /\ j.locals[n].name = j.locals[m].name => n = m
      BY <1>1 DEF ScopesOK, e
<1>9. \A n \in 2..Len(j.locals) : n <= p <=> Level(j, n) <= e - 1
  <2> TAKE n \in 2..Len(j.locals)
  <2>1. CASE n <= p
    <3>1. p \in 2..Len(j.locals) BY <2>1, <1>5
    <3>2. Level(j, n) <= Level(j, p) /\ Level(j, p) <= e - 1 BY <3>1, <2>1, <1>2, <1>6, <1>8
    <3>3. Level(j, n) \in Int /\ Level(j, p) \in Int /\ e - 1 \in Int BY <3>1, <1>1, <1>8
    <3> QED BY <2>1, <3>2, <3>3
  <2>2. CASE ~(n <= p)
    <3>1. n \in (p + 1)..Len(j.locals) BY <2>2, <1>5
    <3>2. Level(j, n) > e - 1 /\ Level(j, n) \in Int BY <3>1, <1>2, <1>6, <1>8
    <3> QED BY <2>2, <3>2, <1>1
  <2> QED BY <2>1, <2>2
<1>10. ScopesOK(k)
  <2>1. ASSUME NEW n \in 2..p PROVE n \in 2..Len(j.locals) /\ Level(k, n) \in 1..(e - 1)
    <3>1. n \in 2..Len(j.locals) BY <1>1, <1>5
    <3>2. Level(j, n) <= e - 1 /\ Level(j, n) \in 1..e BY <3>1, <1>8, <1>9
    <3> QED BY <3>1, <3>2, <1>1, <1>7
  <2>2. \A n, m \in 2..p : n <= m => Level(k, n) <= Level(k, m) BY <2>1, <1>7, <1>8
  <2>3. \A n, m \in 2..p : Level(k, n) = Level(k, m) /\ k.locals[n].name = k.locals[m].name => n = m
    <3> TAKE n, m \in 2..p
    <3>1. n \in 2..Len(j.locals) /\ m \in 2..Len(j.locals) BY <2>1
    <3>2. k.locals[n] = j.locals[n] /\ k.locals[m] = j.locals[m] BY <1>5
    <3>3. Level(k, n) = Level(j, n) /\ Level(k, m) = Level(j, m) BY <1>7
    <3> QED BY <3>1, <3>2, <3>3, <1>8
  <2> QED BY <2>1, <2>2, <2>3, <1>4, <1>5 DEF ScopesOK
<1>11. Settled(k, Len(k.locals) - 1)
  <2>1. \A n \in 2..p : n \in 2..Len(j.locals) /\ k.locals[n] = j.locals[n] BY <1>1, <1>5
  <2> QED BY <2>1, <1>5, <1>6 DEF Settled
<1>12. Depth # 1 => k.scopeDepth >= 1 BY <1>1, <1>4
<1>13. PICK O \in Seq(ScopeSet(MaxVariables)) : \E I, J \in Seq(ScopeSet(MaxVariables)) :
         OpenScopes = O \o I /\ Lists(I, j) /\ OpenScopes' = O \o J /\ Lists(J, k)
      BY <1>3, <1>10, <1>11, <1>12, Apart DEF j
<1>14. PICK I \in Seq(ScopeSet(MaxVariables)), J \in Seq(ScopeSet(MaxVariables)) :
         OpenScopes = O \o I /\ Lists(I, j) /\ OpenScopes' = O \o J /\ Lists(J, k)
      BY <1>13
<1>15. Len(I) = e /\ Len(J) = e - 1 BY <1>4, <1>14 DEF Lists, e
<1>16. \A d \in 1..(e - 1) : J[d] = I[d]
  <2> TAKE d \in 1..(e - 1)
  <2>1. Agree(k, j, d)
    <3>1. ASSUME NEW n \in 2..Len(j.locals), Level(j, n) = d
          PROVE  /\ n \in 2..Len(k.locals) /\ Level(k, n) = d
                 /\ k.locals[n].name = j.locals[n].name /\ Meaning(k, n) = Meaning(j, n)
      <4>1. n <= p BY <3>1, <1>1, <1>9
      <4>2. n \in 2..p /\ n \in 1..p BY <4>1, <1>5
      <4> QED BY <3>1, <4>2, <1>5, <1>7
    <3>2. ASSUME NEW n \in 2..Len(k.locals), Level(k, n) = d
          PROVE  n \in 2..Len(j.locals) /\ Level(j, n) = d
          BY <3>2, <1>1, <1>5, <1>7
    <3> QED BY <3>1, <3>2 DEF Agree
  <2>2. d \in 1..j.scopeDepth /\ d \in 1..k.scopeDepth BY <1>1, <1>4 DEF e
  <2>3. Lists(I, j) /\ Lists(J, k) BY <1>14
  <2> QED BY ONLY <2>1, <2>2, <2>3, ScopeKept
<1>17. J = SubSeq(I, 1, e - 1)
  <2> DEFINE S == ScopeSet(MaxVariables)
  <2> HIDE DEF S
  <2>1. I \in Seq(S) /\ J \in Seq(S) /\ e - 1 \in 0..Len(I) BY <1>1, <1>15 DEF S
  <2> DEFINE K == SubSeq(I, 1, e - 1)
  <2>2. K \in Seq(S) /\ Len(K) = e - 1 /\ \A i \in 1..(e - 1) : K[i] = I[i] BY <2>1, Prefix
  <2> HIDE DEF K
  <2>3. \A i \in 1..Len(J) : J[i] = K[i] BY <2>2, <1>15, <1>16
  <2>4. J = K BY <2>1, <2>2, <2>3, <1>15, SameElements
  <2> QED BY <2>4 DEF K
<1>18. OpenScopes # << >> /\ OpenScopes' = SubSeq(OpenScopes, 1, Len(OpenScopes) - 1)
  <2> DEFINE S == ScopeSet(MaxVariables)
  <2> HIDE DEF S
  <2>1. O \in Seq(S) /\ I \in Seq(S) /\ Len(I) # 0 /\ Len(I) = e BY <1>1, <1>15 DEF S
  <2>2. SubSeq(O \o I, 1, Len(O \o I) - 1) = O \o SubSeq(I, 1, Len(I) - 1) BY ONLY <2>1, CutLast
  <2>3. O \o I # << >> BY ONLY <2>1, LastOf
  <2> QED BY <2>1, <2>2, <2>3, <1>14, <1>17
<1>19. Denoted' = Global
  <2>1. access' = NoAccess => Denoted' = Global BY DEF Denoted, NoAccess
  <2> QED BY <2>1, <1>3
<1>20. Nested(compilers') BY <1>3, <1>10, <1>11, <1>12, Apart DEF j
<1> QED BY <1>3, <1>18, <1>19, <1>20 DEF Lexical!Close, Lexical!Compiling

(* The scopes of a script that has just begun, and of a function. *)
LEMMA NewScopes ==
    ASSUME NEW d \in {0, 1}
    PROVE  /\ CompilerOK(NewCompiler(d)) /\ ScopesOK(NewCompiler(d))
           /\ Settled(NewCompiler(d), Len(NewCompiler(d).locals))
           /\ NewCompiler(d).scopeDepth = d
           /\ Lists(ScopesOf(NewCompiler(d)), NewCompiler(d))
           /\ ScopesOf(NewCompiler(0)) = << >> /\ ScopesOf(NewCompiler(1)) = << << >> >>
<1>1. \A e \in {0, 1} : /\ CompilerOK(NewCompiler(e)) /\ Len(NewCompiler(e).locals) = 1
                        /\ NewCompiler(e).scopeDepth = e
  <2> TAKE e \in {0, 1}
  <2>1. e \in Nat /\ e <= MaxDepth BY BoundsAssumption
  <2>2. NewCompiler(e).scopeDepth = e BY DEF NewCompiler
  <2> QED BY <2>1, <2>2, NewCompilerOK
<1>2. 2..1 = {} OBVIOUS
<1>3. \A e \in {0, 1} : /\ ScopesOK(NewCompiler(e)) /\ Settled(NewCompiler(e), 1)
                        /\ Lists(ScopesOf(NewCompiler(e)), NewCompiler(e))
  <2> TAKE e \in {0, 1}
  <2>1. CompilerOK(NewCompiler(e)) /\ Len(NewCompiler(e).locals) = 1 BY <1>1
  <2>2. ScopesOK(NewCompiler(e)) /\ Settled(NewCompiler(e), 1) BY <2>1, <1>2 DEF ScopesOK, Settled
  <2>3. \A n \in 2..Len(NewCompiler(e).locals) :
          NewCompiler(e).locals[n].variable \in 1..MaxVariables
        BY <2>1, <1>2
  <2> HIDE DEF NewCompiler
  <2>4. Lists(ScopesOf(NewCompiler(e)), NewCompiler(e)) BY <2>1, <2>2, <2>3, ScopesListed
  <2> QED BY <2>2, <2>4
<1>4. ScopesOf(NewCompiler(0)) = << >>
  <2>1. 1..NewCompiler(0).scopeDepth = {} BY <1>1
  <2>2. ScopesOf(NewCompiler(0)) = [e \in {} |-> ScopeAt(NewCompiler(0), e)] BY <2>1 DEF ScopesOf
  <2> QED BY <2>2
<1>5. ScopesOf(NewCompiler(1)) = << << >> >>
  <2> DEFINE k == NewCompiler(1)
             I == ScopesOf(k)
  <2>1. Lists(I, k) /\ k.scopeDepth = 1 /\ Len(k.locals) = 1 BY <1>1, <1>3
  <2> HIDE DEF k, I
  <2>2. Len(I) = 1 /\ I \in Seq(ScopeSet(MaxVariables)) /\ Describes(I[1], k, 1)
        BY <2>1 DEF Lists
  <2>3. I[1] = << >>
    <3>1. \A n \in 2..Len(k.locals) : Level(k, n) # 1 BY <2>1, <1>2
    <3> QED BY <3>1, <2>2, EmptyScope
  <2>4. I = <<I[1]>> BY <2>2
  <2> QED BY <2>3, <2>4 DEF I, k
<1> QED BY <1>1, <1>3, <1>4, <1>5

LEMMA NoScopes ==
    FlatTo(<<NewCompiler(0)>>, 1) = << >> /\ Nested(<<NewCompiler(0)>>)
<1> DEFINE k == NewCompiler(0)
           cs == <<k>>
<1>1. /\ ScopesOK(k) /\ Settled(k, Len(k.locals)) /\ ScopesOf(k) = << >>
      /\ Len(k.locals) \in Nat
  <2>1. CompilerOK(NewCompiler(0)) BY NewScopes
  <2> QED BY <2>1, NewScopes, CompilerTypes
<1> HIDE DEF k
<1>2. Len(cs) = 1 /\ cs[1] = k OBVIOUS
<1> HIDE DEF cs
<1>3. FlatTo(cs, 1) = << >>
  <2> DEFINE S == {0}
  <2>1. \A c \in 1..1 : ScopesOf(cs[c]) = << >> BY <1>1, <1>2
  <2>2. << >> \in Seq(S) OBVIOUS
  <2>3. \A c \in 1..1 : ScopesOf(cs[c]) \in Seq(S) BY <2>1, <2>2
  <2> HIDE DEF S
  <2>4. 1 \in Nat /\ 1 # 0 /\ 1 - 1 = 0 OBVIOUS
  <2>5. FlatTo(cs, 1) = FlatTo(cs, 0) \o ScopesOf(cs[1]) BY <2>3, <2>4, FlatStep
  <2>6. FlatTo(cs, 0) = << >> BY FlatNone
  <2>7. << >> \o << >> = << >> OBVIOUS
  <2> QED BY <2>5, <2>6, <2>7, <1>1, <1>2
<1>4. Nested(cs)
  <2>1. \A c \in 1..1 : c = 1 OBVIOUS
  <2>2. 1..(1 - 1) = {} /\ 2..1 = {} OBVIOUS
  <2>3. Settled(k, Len(k.locals) - 1) BY <1>1 DEF Settled
  <2> QED BY <2>1, <2>2, <2>3, <1>1, <1>2 DEF Nested
<1> QED BY <1>3, <1>4 DEF cs, k

LEMMA CompileErrorStep ==
    ASSUME Compiling, CompileError
    PROVE  Lexical!Reject /\ Nested(compilers')
<1>1. /\ status = "compiling" /\ status' = "error" /\ access' = NoAccess
      /\ compilers' = <<NewCompiler(0)>>
      BY DEF Compiling, CompileError
<1>2. OpenScopes' = << >>
  <2>1. OpenScopes' = FlatTo(compilers', Len(compilers')) BY DEF OpenScopes, FlatTo, Depth
  <2>2. Len(compilers') = 1 BY <1>1
  <2> QED BY <2>1, <2>2, <1>1, NoScopes
<1>3. Denoted' = Global
  <2>1. access' = NoAccess => Denoted' = Global BY DEF Denoted, NoAccess
  <2> QED BY <2>1, <1>1
<1> QED BY <1>1, <1>2, <1>3, NoScopes DEF Lexical!Reject, Lexical!Compiling

LEMMA InitScopes == Init => Lexical!Init /\ LInv
<1> SUFFICES ASSUME Init PROVE Lexical!Init /\ LInv OBVIOUS
<1>1. status = "compiling" /\ access = NoAccess /\ compilers = <<NewCompiler(0)>> BY DEF Init
<1>2. OpenScopes = << >>
  <2>1. Len(compilers) = 1 BY <1>1
  <2> QED BY <2>1, <1>1, NoScopes, FlatNow
<1>3. LInv BY <1>1, NoScopes, InitInv DEF LInv
<1> QED BY <1>1, <1>2, <1>3, DenotedGlobal DEF Lexical!Init

SetTo(sc, name, m) == [x \in DOMAIN sc \cup {name} |-> IF x = name THEN m ELSE sc[x]]

(* J are the scopes I with `name` meaning m in the innermost. *)
Sets(I, J, name, m) ==
    /\ Len(J) = Len(I) /\ Len(I) # 0 /\ \A d \in 1..Len(I) : d # Len(I) => J[d] = I[d]
    /\ J[Len(I)] = SetTo(I[Len(I)], name, m)

(* k is j but for its last local p, new or not, which is in the innermost scope. *)
LastOnly(j, k, p) ==
    /\ k.scopeDepth = j.scopeDepth /\ p = Len(k.locals)
    /\ p \in 2..Len(k.locals) /\ Level(k, p) = j.scopeDepth
    /\ \A n \in 2..Len(k.locals) : n # p =>
         /\ n \in 2..Len(j.locals) /\ Level(k, n) = Level(j, n)
         /\ k.locals[n].name = j.locals[n].name /\ Meaning(k, n) = Meaning(j, n)
    /\ \A n \in 2..Len(j.locals) :
         /\ n \in 2..Len(k.locals)
         /\ n = p => Level(j, n) = j.scopeDepth /\ j.locals[n].name = k.locals[p].name

LEMMA SetsOf ==
    ASSUME NEW j, NEW k, NEW p, LastOnly(j, k, p), ScopesOK(k), j.scopeDepth \in Nat,
           j.scopeDepth >= 1, NEW I, Lists(I, j), NEW J, Lists(J, k)
    PROVE  Sets(I, J, k.locals[p].name, Meaning(k, p))
<1> DEFINE e == j.scopeDepth
           name == k.locals[p].name
           m == Meaning(k, p)
           sc == I[e]
           W == SetTo(sc, name, m)
<1>1. /\ e \in Nat /\ e >= 1 /\ k.scopeDepth = e /\ Len(I) = e /\ Len(J) = e /\ e \in 1..e
      BY DEF Lists, LastOnly
<1>2. /\ p \in 2..Len(k.locals) /\ Level(k, p) = e
      /\ \A n \in 2..Len(k.locals) : n # p =>
           /\ n \in 2..Len(j.locals) /\ Level(k, n) = Level(j, n)
           /\ k.locals[n].name = j.locals[n].name /\ Meaning(k, n) = Meaning(j, n)
      /\ \A n \in 2..Len(j.locals) :
           /\ n \in 2..Len(k.locals)
           /\ n = p => Level(j, n) = e /\ j.locals[n].name = name
      BY DEF LastOnly
<1>3. Describes(sc, j, e) /\ Describes(J[e], k, e) BY <1>1 DEF Lists
<1> HIDE DEF e, name, m, sc
<1>4. \A d \in 1..e : d # e => J[d] = I[d]
  <2> SUFFICES ASSUME NEW d \in 1..e, d # e PROVE J[d] = I[d] OBVIOUS
  <2>1. Agree(k, j, d) BY <1>2 DEF Agree
  <2>2. d \in 1..j.scopeDepth /\ d \in 1..k.scopeDepth BY <1>1 DEF e
  <2>3. Lists(I, j) /\ Lists(J, k) OBVIOUS
  <2> QED BY ONLY <2>1, <2>2, <2>3, ScopeKept
<1>5. Describes(W, k, e)
  <2>1. W = [x \in DOMAIN W |-> W[x]] /\ DOMAIN W = DOMAIN sc \cup {name} BY DEF SetTo
  <2>2. W[name] = m /\ \A x \in DOMAIN sc : x # name => W[x] = sc[x] BY DEF SetTo
  <2> HIDE DEF W
  <2>3. ASSUME NEW x \in DOMAIN W
        PROVE  \E n \in 2..Len(k.locals) : Level(k, n) = e /\ k.locals[n].name = x
    <3>1. CASE x = name BY <3>1, <1>2 DEF name
    <3>2. CASE x # name
      <4>1. x \in DOMAIN sc BY <2>1, <3>2
      <4>2. PICK n \in 2..Len(j.locals) : Level(j, n) = e /\ j.locals[n].name = x
            BY <4>1, <1>3 DEF Describes
      <4>3. n \in 2..Len(k.locals) /\ n # p BY <4>2, <3>2, <1>2
      <4> QED BY <4>2, <4>3, <1>2
    <3> QED BY <3>1, <3>2
  <2>4. ASSUME NEW n \in 2..Len(k.locals), Level(k, n) = e
        PROVE  k.locals[n].name \in DOMAIN W /\ W[k.locals[n].name] = Meaning(k, n)
    <3>1. CASE n = p BY <3>1, <2>1, <2>2 DEF name, m
    <3>2. CASE n # p
      <4>1. /\ n \in 2..Len(j.locals) /\ Level(j, n) = e
            /\ k.locals[n].name = j.locals[n].name /\ Meaning(k, n) = Meaning(j, n)
            BY <3>2, <2>4, <1>2
      <4>2. j.locals[n].name \in DOMAIN sc /\ sc[j.locals[n].name] = Meaning(j, n)
            BY <4>1, <1>3 DEF Describes
      <4>3. k.locals[n].name # name BY <3>2, <2>4, <1>2 DEF ScopesOK, name
      <4> QED BY <4>1, <4>2, <4>3, <2>1, <2>2
    <3> QED BY <3>1, <3>2
  <2> QED BY <2>1, <2>3, <2>4 DEF Describes
<1>6. J[e] = W
  <2> HIDE DEF W
  <2> QED BY <1>3, <1>5, DescribesOnly
<1> QED BY <1>1, <1>4, <1>6 DEF Sets, sc, name, m

(* The scopes s are O, and then those of the innermost function, I. *)
Parts(S, O, I, s) == O \in Seq(S) /\ I \in Seq(S) /\ s = O \o I

(* In the scopes s the innermost is sc, and in t `name` means m in it. *)
SetsIn(s, t, sc, name, m) ==
    s # << >> /\ s[Len(s)] = sc /\ t = [s EXCEPT ![Len(s)] = SetTo(sc, name, m)]

(* What is set in the innermost scope of a function is, in that of them all. *)
LEMMA SetsJoined ==
    ASSUME NEW S, NEW O, NEW I, NEW J, NEW s, NEW t, Parts(S, O, I, s), Parts(S, O, J, t),
           NEW name, NEW m, Sets(I, J, name, m)
    PROVE  SetsIn(s, t, I[Len(I)], name, m)
<1> DEFINE W == SetTo(I[Len(I)], name, m)
<1>1. /\ Len(J) = Len(I) /\ Len(I) # 0 /\ \A d \in 1..Len(I) : d # Len(I) => J[d] = I[d]
      /\ J[Len(I)] = W
      BY DEF Sets
<1>2. /\ O \in Seq(S) /\ I \in Seq(S) /\ J \in Seq(S)
      /\ s = O \o I /\ t = O \o J
      BY DEF Parts
<1> HIDE DEF W
<1>3. s[Len(s)] = I[Len(I)] /\ s # << >>
  <2>1. (O \o I)[Len(O \o I)] = I[Len(I)] /\ O \o I # << >> BY <1>1, <1>2, LastOf
  <2> QED BY <2>1, <1>2
<1>4. O \o J = [O \o I EXCEPT ![Len(O \o I)] = J[Len(I)]]
  <2>1. Len(J) = Len(I) /\ Len(I) # 0 BY <1>1
  <2>2. \A d \in 1..Len(I) : d # Len(I) => J[d] = I[d] BY <1>1
  <2>3. O \in Seq(S) /\ I \in Seq(S) /\ J \in Seq(S) BY <1>2
  <2> QED BY ONLY <2>1, <2>2, <2>3, ReplacedLast
<1>5. t = [s EXCEPT ![Len(s)] = W] BY <1>1, <1>2, <1>4
<1> QED BY <1>3, <1>5 DEF SetsIn, W

(* A declaration in the innermost scope, of a name that is free there. *)
LEMMA LocalDeclared ==
    ASSUME LInv, ~Pending, NEW name \in Names, ~DeclarationFails(name), Current.scopeDepth > 0,
           variables < MaxVariables, NEW depth \in {Uninitialized, Current.scopeDepth},
           NEW k, k.locals = Append(Current.locals, Local(name, depth, variables + 1)),
           k.scopeDepth = Current.scopeDepth
    PROVE  LET p == Len(Current.locals) + 1
           IN  /\ ScopesOK(k) /\ Settled(k, Len(k.locals) - 1) /\ LastOnly(Current, k, p)
               /\ depth # Uninitialized => Settled(k, Len(k.locals))
               /\ k.locals[p].name = name
               /\ Meaning(k, p) = [variable |-> variables + 1,
                                   initialized |-> depth # Uninitialized]
               /\ \A n \in 2..Len(Current.locals) :
                    Level(Current, n) = Current.scopeDepth => Current.locals[n].name # name
<1> DEFINE j == Current
           e == j.scopeDepth
           l == Len(j.locals)
           p == l + 1
           new == Local(name, depth, variables + 1)
<1>1. /\ CompilerOK(j) /\ ScopesOK(j) /\ Settled(j, l) /\ e \in Nat /\ e >= 1 /\ l \in Nat
      /\ l >= 1 /\ j.locals \in Seq(Locals) /\ DOMAIN j.locals = 1..l
      BY CurrentLevels, CompilerTypes DEF CompilerOK
<1>2. /\ new \in Locals /\ new.name = name /\ new.variable = variables + 1
      /\ new.depth = depth
  <2>1. variables \in Nat /\ MaxVariables \in Nat /\ variables + 1 \in 1..MaxVariables
        BY CurrentFacts DEF LInv
  <2>2. depth \in Uninitialized..MaxDepth
    <3>1. e <= MaxDepth /\ MaxDepth \in Nat BY <1>1, BoundsAssumption DEF CompilerOK
    <3> QED BY <3>1, <1>1 DEF Uninitialized
  <2> QED BY <2>1, <2>2, LocalType
<1>3. ~Redeclared(name) BY DEF DeclarationFails
<1>4. depth \in {Uninitialized, e} /\ k.scopeDepth = e /\ k.locals = Append(j.locals, new)
      OBVIOUS
<1> HIDE DEF new
<1>5. /\ Len(k.locals) = p /\ k.locals[p] = new
      /\ \A n \in 1..l : k.locals[n] = j.locals[n]
      BY <1>1, <1>2, <1>4, Appended
<1>6. /\ \A n \in 2..l : j.locals[n].depth # Uninitialized /\ Level(j, n) = j.locals[n].depth
      /\ \A n \in 2..l : Level(j, n) \in 1..e
      /\ \A n, m \in 2..l : n <= m => Level(j, n) <= Level(j, m)
      /\ \A n, m \in 2..l : Level(j, n) = Level(j, m) /\ j.locals[n].name = j.locals[m].name
                            => n = m
      BY <1>1 DEF ScopesOK, Settled, Level
(* declareVariable would have come to it. *)
<1>7. ASSUME NEW n \in 2..l, Level(j, n) = e PROVE j.locals[n].name # name
  <2> SUFFICES ASSUME j.locals[n].name = name PROVE FALSE OBVIOUS
  <2>1. ASSUME NEW m \in n..l PROVE j.locals[m].depth = e
    <3>1. m \in 2..l /\ n <= m BY <1>1
    <3>2. Level(j, n) <= Level(j, m) /\ Level(j, m) \in 1..e /\ Level(j, m) = j.locals[m].depth
          BY <3>1, <1>6
    <3> QED BY <3>2, <1>1, <1>7
  <2>2. n \in DOMAIN j.locals BY <1>1
  <2>3. Redeclared(name) BY <2>1, <2>2 DEF Redeclared
  <2> QED BY <2>3, <1>3
<1> HIDE DEF j, e, l
<1>8. ASSUME NEW n \in 2..p
      PROVE  \/ n = p
             \/ n \in 2..l /\ k.locals[n] = j.locals[n] /\ n # p
  <2>1. n = p \/ n \in 2..l BY <1>1
  <2>2. n \in 2..l => n \in 1..l /\ n # p BY <1>1
  <2> QED BY <2>1, <2>2, <1>5
<1>9. Level(k, p) = e BY <1>2, <1>4, <1>5 DEF Level
<1>10. \A n \in 2..l : /\ n \in 2..p /\ n # p /\ k.locals[n] = j.locals[n]
                       /\ Level(k, n) = Level(j, n) /\ Meaning(k, n) = Meaning(j, n)
  <2> TAKE n \in 2..l
  <2>1. n \in 2..p /\ n # p /\ n \in 1..l BY <1>1
  <2>2. k.locals[n] = j.locals[n] BY <2>1, <1>5
  <2> QED BY <2>1, <2>2, <1>4 DEF Level, Meaning, e
<1>11. ScopesOK(k)
  <2>1. \A n \in 2..p : Level(k, n) \in 1..e
    <3> TAKE n \in 2..p
    <3>1. e \in 1..e BY <1>1
    <3> QED BY <3>1, <1>6, <1>8, <1>9, <1>10
  <2>2. ASSUME NEW n \in 2..p, NEW m \in 2..p, n <= m PROVE Level(k, n) <= Level(k, m)
    <3>1. CASE m = p
      <4>1. Level(k, n) \in 1..e BY <2>1
      <4> QED BY <4>1, <3>1, <1>1, <1>9
    <3>2. CASE m # p
      <4>1. m \in 2..l BY <3>2, <1>8
      <4>2. n \in 2..l BY <4>1, <2>2, <1>1
      <4> QED BY <4>1, <4>2, <2>2, <1>6, <1>10
    <3> QED BY <3>1, <3>2
  <2>3. ASSUME NEW n \in 2..p, NEW m \in 2..p, Level(k, n) = Level(k, m),
               k.locals[n].name = k.locals[m].name
        PROVE  n = m
    <3>1. CASE n \in 2..l /\ m \in 2..l BY <3>1, <2>3, <1>6, <1>10
    <3>2. CASE n \in 2..l /\ m = p
      <4>1. Level(j, n) = e /\ j.locals[n].name = name BY <3>2, <2>3, <1>2, <1>5, <1>9, <1>10
      <4> QED BY <4>1, <3>2, <1>7
    <3>3. CASE m \in 2..l /\ n = p
      <4>1. Level(j, m) = e /\ j.locals[m].name = name BY <3>3, <2>3, <1>2, <1>5, <1>9, <1>10
      <4> QED BY <4>1, <3>3, <1>7
    <3> QED BY <3>1, <3>2, <3>3, <1>8
  <2> QED BY <2>1, <2>2, <2>3, <1>4, <1>5 DEF ScopesOK
<1>12. Settled(k, Len(k.locals) - 1)
  <2>1. Len(k.locals) - 1 = l BY <1>1, <1>5
  <2> QED BY <2>1, <1>6, <1>10 DEF Settled
<1>13. depth # Uninitialized => Settled(k, Len(k.locals))
      BY <1>2, <1>5, <1>6, <1>8 DEF Settled
<1>14. LastOnly(j, k, p)
  <2>1. p \in 2..p BY <1>1
  <2>2. \A n \in 2..p : n # p =>
          /\ n \in 2..l /\ Level(k, n) = Level(j, n)
          /\ k.locals[n].name = j.locals[n].name /\ Meaning(k, n) = Meaning(j, n)
        BY <1>8, <1>10
  <2> QED BY <2>1, <2>2, <1>4, <1>5, <1>9, <1>10 DEF LastOnly, l, e
<1>15. Meaning(k, p) = [variable |-> variables + 1, initialized |-> depth # Uninitialized]
      BY <1>2, <1>5 DEF Meaning
<1> QED BY <1>2, <1>5, <1>7, <1>11, <1>12, <1>13, <1>14, <1>15 DEF j, e, l

(* The next declaration is of a variable that no scope has. *)
LEMMA FreshVariable ==
    ASSUME LInv
    PROVE  Lexical!Fresh(variables + 1)
<1> DEFINE cs == compilers
           v == variables
<1>1. Chain(cs) /\ Declared(cs, v) /\ Nested(cs) /\ OpenScopes = FlatTo(cs, Len(cs)) /\ v \in Nat
      BY CurrentFacts, FlatNow DEF LInv
<1> HIDE DEF cs, v
<1>2. OpenScopes \in Seq(ScopeSet(v)) BY <1>1, Around
<1> SUFFICES ASSUME NEW s \in DOMAIN OpenScopes, NEW n \in DOMAIN OpenScopes[s]
             PROVE  OpenScopes[s][n].variable # v + 1
    BY DEF Lexical!Fresh, v
<1> DEFINE x == OpenScopes[s]
<1>3. x \in ScopeSet(v) BY <1>2
<1>4. n \in DOMAIN x OBVIOUS
<1> HIDE DEF x
<1>5. x[n] \in Meanings(v) BY <1>3, <1>4 DEF ScopeSet
<1>6. x[n].variable \in 1..v BY <1>5 DEF Meanings
<1>7. x[n].variable # v + 1 BY <1>1, <1>6
<1> QED BY <1>7 DEF x

LEMMA NameFree ==
    ASSUME NEW I, NEW j, Lists(I, j), NEW e, e = j.scopeDepth, e \in Nat, e >= 1, NEW name,
           \A n \in 2..Len(j.locals) : Level(j, n) = e => j.locals[n].name # name
    PROVE  name \notin DOMAIN I[Len(I)] /\ Len(I) = e
<1>1. Len(I) = e /\ e \in 1..e BY DEF Lists
<1>2. Describes(I[e], j, e) BY <1>1 DEF Lists
<1> QED BY <1>1, <1>2 DEF Describes

LEMMA DeclareVariableStep ==
    ASSUME LInv, IInv', NEW name \in Names, DeclareVariable(name), ~DeclarationFails(name)
    PROVE  Lexical!Declare(name, variables + 1) /\ Nested(compilers')
<1> DEFINE j == Current
           ls == Append(j.locals, Local(name, Uninitialized, variables + 1))
           k == [j EXCEPT !.locals = ls]
           e == j.scopeDepth
           p == Len(j.locals) + 1
           m == [variable |-> variables + 1, initialized |-> FALSE]
<1>1. /\ compilers' = [compilers EXCEPT ![Depth] = k] /\ access' = NoAccess
      /\ status = "compiling" /\ status' = status /\ ~Pending /\ e > 0
      /\ variables < MaxVariables
      BY DEF DeclareVariable, SetCurrent, Compiling
<1>2. CompilerOK(j) /\ e \in Nat BY CurrentLevels
<1>3. k.locals = ls /\ k.scopeDepth = e
  <2> HIDE DEF ls
  <2>1. k = [locals |-> ls, upvalues |-> j.upvalues, scopeDepth |-> j.scopeDepth]
        BY <1>2, Remade
  <2> QED BY <2>1
<1> HIDE DEF k
<1>4. /\ ScopesOK(k) /\ Settled(k, Len(k.locals) - 1) /\ LastOnly(j, k, p)
      /\ k.locals[p].name = name
      /\ Meaning(k, p) = [variable |-> variables + 1,
                          initialized |-> Uninitialized # Uninitialized]
      /\ \A n \in 2..Len(j.locals) : Level(j, n) = e => j.locals[n].name # name
      BY <1>1, <1>3, LocalDeclared
<1>5. Meaning(k, p) = m BY <1>4
<1>6. Depth # 1 => k.scopeDepth >= 1 BY <1>1, <1>2, <1>3
<1> HIDE DEF j, e, m, p
<1>7. PICK O \in Seq(ScopeSet(MaxVariables)), I \in Seq(ScopeSet(MaxVariables)),
           J \in Seq(ScopeSet(MaxVariables)) :
         OpenScopes = O \o I /\ Lists(I, j) /\ OpenScopes' = O \o J /\ Lists(J, k)
      BY <1>1, <1>4, <1>6, Apart DEF j
<1>8. Sets(I, J, name, m)
  <2>1. j.scopeDepth \in Nat /\ j.scopeDepth >= 1 BY <1>1, <1>2 DEF e
  <2>2. Sets(I, J, k.locals[p].name, Meaning(k, p)) BY <2>1, <1>4, <1>7, SetsOf
  <2> QED BY <2>2, <1>4, <1>5
<1>9. name \notin DOMAIN I[Len(I)]
  <2>1. e = j.scopeDepth /\ e \in Nat /\ e >= 1 BY <1>1, <1>2 DEF e
  <2> QED BY <2>1, <1>4, <1>7, NameFree
<1> DEFINE s == OpenScopes
           t == OpenScopes'
           sc == I[Len(I)]
<1>10. s # << >> /\ s[Len(s)] = sc /\ t = [s EXCEPT ![Len(s)] = SetTo(sc, name, m)]
  <2> DEFINE S == ScopeSet(MaxVariables)
  <2>1. Parts(S, O, I, s) /\ Parts(S, O, J, t) BY <1>7 DEF Parts
  <2> HIDE DEF S, s, t
  <2>2. SetsIn(s, t, sc, name, m) BY ONLY <2>1, <1>8, SetsJoined
  <2> QED BY <2>2 DEF SetsIn
<1>11. name \notin DOMAIN sc BY <1>9
<1>12. Denoted' = Global
  <2>1. access' = NoAccess => Denoted' = Global BY DEF Denoted, NoAccess
  <2> QED BY <2>1, <1>1
<1>13. Nested(compilers') BY <1>1, <1>4, <1>6, Apart DEF j
<1>14. Lexical!Fresh(variables + 1) BY FreshVariable
<1>15. OpenScopes' = [OpenScopes EXCEPT ![Len(OpenScopes)] =
                        Lexical!With(name, variables + 1, FALSE)]
       BY <1>10 DEF Lexical!With, Lexical!Inner, SetTo, m
<1>16. name \notin DOMAIN Lexical!Inner BY <1>10, <1>11 DEF Lexical!Inner
<1> QED BY <1>1, <1>10, <1>12, <1>13, <1>14, <1>15, <1>16
        DEF Lexical!Declare, Lexical!Compiling

LEMMA InitializeStep ==
    ASSUME LInv, IInv', Initialize
    PROVE  (\E name \in Names : Lexical!Initialize(name)) /\ Nested(compilers')
<1> DEFINE j == Current
           l == Len(j.locals)
           e == j.scopeDepth
           y == j.locals[l]
           z == [y EXCEPT !.depth = e]
           ls == [j.locals EXCEPT ![l] = z]
           k == [j EXCEPT !.locals = ls]
           name == y.name
           m == [variable |-> y.variable, initialized |-> TRUE]
<1>1. /\ compilers' = [compilers EXCEPT ![Depth] = [j EXCEPT !.locals[l].depth = e]]
      /\ access' = NoAccess /\ status = "compiling" /\ status' = status
      /\ y.depth = Uninitialized /\ l > 1
      BY DEF Initialize, SetCurrent, Compiling, Pending, Last
<1>2. [j EXCEPT !.locals[l].depth = e] = k
  <2> HIDE DEF l, e
  <2> QED OBVIOUS
<1>3. /\ CompilerOK(j) /\ ScopesOK(j) /\ Settled(j, l - 1) /\ e \in Nat /\ l \in Nat
      /\ j.locals \in Seq(Locals)
      BY CurrentLevels
<1>4. k.locals = ls /\ k.scopeDepth = e
  <2> HIDE DEF ls
  <2>1. k = [locals |-> ls, upvalues |-> j.upvalues, scopeDepth |-> j.scopeDepth]
        BY <1>3, Remade
  <2> QED BY <2>1
<1>5. l \in 1..l /\ l \in 2..l /\ l # 1 BY <1>1, <1>3
<1>6. y \in Locals /\ name \in Names BY <1>3, <1>5 DEF CompilerOK
<1>7. /\ z \in Locals /\ z.name = name /\ z.variable = y.variable /\ z.depth = e
      /\ e # Uninitialized
  <2>1. e \in Uninitialized..MaxDepth /\ e # Uninitialized
    <3>1. e <= MaxDepth /\ MaxDepth \in Nat BY <1>3, BoundsAssumption DEF CompilerOK
    <3> QED BY <3>1, <1>3 DEF Uninitialized
  <2> HIDE DEF y, e
  <2> QED BY <1>6, <2>1 DEF Locals
<1> HIDE DEF z, k
<1>8. Len(ls) = l /\ ls[l] = z /\ \A n \in 1..l : n # l => ls[n] = j.locals[n]
      BY <1>3, <1>5, <1>7, Replaced
<1> HIDE DEF ls
<1>9. /\ \A n \in 2..l : Level(j, n) \in 1..e
      /\ \A n, i \in 2..l : n <= i => Level(j, n) <= Level(j, i)
      /\ \A n, i \in 2..l : Level(j, n) = Level(j, i) /\ j.locals[n].name = j.locals[i].name
                            => n = i
      BY <1>3 DEF ScopesOK
<1>10. Level(j, l) = e /\ e >= 1
  <2>1. Level(j, l) = e BY <1>1 DEF Level
  <2> QED BY <2>1, <1>3, <1>5, <1>9
<1> HIDE DEF j, l, e, y
<1>11. /\ Len(k.locals) = l
       /\ \A n \in 2..l : k.locals[n].name = j.locals[n].name /\ Level(k, n) = Level(j, n)
       /\ \A n \in 2..l : n # l => Meaning(k, n) = Meaning(j, n)
       /\ Meaning(k, l) = m
  <2>1. \A n \in 2..l : n # l => k.locals[n] = j.locals[n] BY <1>4, <1>8
  <2>2. k.locals[l] = z BY <1>4, <1>8
  <2>3. \A n \in 2..l : n # l =>
          /\ k.locals[n].name = j.locals[n].name /\ Level(k, n) = Level(j, n)
          /\ Meaning(k, n) = Meaning(j, n)
        BY <2>1, <1>4 DEF Level, Meaning, e
  <2>4. k.locals[l].name = j.locals[l].name /\ Level(k, l) = Level(j, l) /\ Meaning(k, l) = m
        BY <2>2, <1>4, <1>7, <1>10 DEF Level, Meaning, y
  <2> QED BY <2>3, <2>4, <1>4, <1>8
<1>12. ScopesOK(k)
  <2>1. \A n \in 2..l : Level(k, n) \in 1..e BY <1>9, <1>11
  <2>2. \A n, i \in 2..l : n <= i => Level(k, n) <= Level(k, i) BY <1>9, <1>11
  <2>3. \A n, i \in 2..l : Level(k, n) = Level(k, i) /\ k.locals[n].name = k.locals[i].name
                            => n = i
        BY <1>9, <1>11
  <2> QED BY <2>1, <2>2, <2>3, <1>4, <1>11 DEF ScopesOK
<1>13. Settled(k, Len(k.locals) - 1)
  <2>1. \A n \in 2..(l - 1) : n # l /\ n \in 1..l BY <1>3
  <2>2. \A n \in 2..(l - 1) : k.locals[n] = j.locals[n] BY <2>1, <1>4, <1>8
  <2> QED BY <2>2, <1>3, <1>11 DEF Settled
<1>14. LastOnly(j, k, l)
  <2>1. k.scopeDepth = j.scopeDepth /\ l = Len(k.locals) /\ l = Len(j.locals) /\ j.scopeDepth = e
        BY <1>4, <1>11 DEF e, l
  <2>2. \A n \in 2..l : n = l => Level(j, n) = e /\ j.locals[n].name = k.locals[l].name
        BY <1>10, <1>11
  <2> QED BY <2>1, <2>2, <1>5, <1>10, <1>11 DEF LastOnly
<1>15. /\ k.locals[l].name = name /\ (Depth # 1 => k.scopeDepth >= 1)
       BY <1>4, <1>5, <1>10, <1>11 DEF y
<1>16. compilers' = [compilers EXCEPT ![Depth] = k] BY <1>1, <1>2
<1>17. PICK O \in Seq(ScopeSet(MaxVariables)), I \in Seq(ScopeSet(MaxVariables)),
            J \in Seq(ScopeSet(MaxVariables)) :
         OpenScopes = O \o I /\ Lists(I, j) /\ OpenScopes' = O \o J /\ Lists(J, k)
      BY <1>12, <1>13, <1>15, <1>16, Apart DEF j
<1>18. Sets(I, J, name, m)
  <2>1. j.scopeDepth \in Nat /\ j.scopeDepth >= 1 BY <1>3, <1>10 DEF e
  <2>2. Sets(I, J, k.locals[l].name, Meaning(k, l)) BY <2>1, <1>12, <1>14, <1>17, SetsOf
  <2> QED BY <2>2, <1>11, <1>15
<1>19. /\ name \in DOMAIN I[Len(I)] /\ ~I[Len(I)][name].initialized
       /\ I[Len(I)][name].variable = y.variable
  <2>1. Len(I) = e /\ e \in 1..e /\ Describes(I[e], j, e)
        BY <1>3, <1>10, <1>17 DEF Lists, e
  <2>2. name \in DOMAIN I[e] /\ I[e][name] = Meaning(j, l)
        BY <2>1, <1>5, <1>10 DEF Describes, l, y
  <2>3. Meaning(j, l).initialized = FALSE /\ Meaning(j, l).variable = y.variable
        BY <1>1 DEF Meaning, y
  <2> QED BY <2>1, <2>2, <2>3
<1> HIDE DEF m
<1> DEFINE s == OpenScopes
           t == OpenScopes'
           sc == I[Len(I)]
<1>20. s # << >> /\ s[Len(s)] = sc /\ t = [s EXCEPT ![Len(s)] = SetTo(sc, name, m)]
  <2> DEFINE S == ScopeSet(MaxVariables)
  <2>1. Parts(S, O, I, s) /\ Parts(S, O, J, t) BY <1>17 DEF Parts
  <2> HIDE DEF S, name, s, t
  <2>2. SetsIn(s, t, sc, name, m) BY ONLY <2>1, <1>18, SetsJoined
  <2> QED BY <2>2 DEF SetsIn
<1>21. name \in DOMAIN sc /\ ~sc[name].initialized /\ sc[name].variable = y.variable BY <1>19
<1>22. Denoted' = Global
  <2>1. access' = NoAccess => Denoted' = Global BY DEF Denoted, NoAccess
  <2> QED BY <2>1, <1>1
<1>23. Nested(compilers') BY <1>12, <1>13, <1>15, <1>16, Apart DEF j
<1> HIDE DEF name
<1>24. OpenScopes' = [OpenScopes EXCEPT ![Len(OpenScopes)] =
                        Lexical!With(name, Lexical!Inner[name].variable, TRUE)]
       BY <1>20, <1>21 DEF Lexical!With, Lexical!Inner, SetTo, m
<1>25. name \in DOMAIN Lexical!Inner /\ ~Lexical!Inner[name].initialized
       BY <1>20, <1>21 DEF Lexical!Inner
<1>26. Lexical!Initialize(name)
       BY <1>1, <1>20, <1>22, <1>24, <1>25 DEF Lexical!Initialize, Lexical!Compiling
<1> QED BY <1>6, <1>23, <1>26 DEF name

-----------------------------------------------------------------------------
(* Functions. *)

(* A function has one scope to begin with. *)
LEMMA FunctionAdded ==
    ASSUME NEW ds, Chain(ds), NEW w, Declared(ds, w), Nested(ds),
           Settled(ds[Len(ds)], Len(ds[Len(ds)].locals))
    PROVE  LET es == Append(ds, NewCompiler(1))
           IN  Nested(es) /\ FlatTo(es, Len(es)) = Append(FlatTo(ds, Len(ds)), << >>)
<1> DEFINE k == NewCompiler(1)
           es == Append(ds, k)
           n == Len(ds)
<1>1. ds \in Seq(Compilers) /\ n \in Nat /\ n >= 1 BY ChainTypes
<1>2. /\ CompilerOK(k) /\ ScopesOK(k) /\ Settled(k, Len(k.locals)) /\ k.scopeDepth = 1
      /\ ScopesOf(k) = << << >> >>
      BY NewScopes
<1>3. Chain(es) /\ Declared(es, w)
  <2>1. Marked(ds, {}) BY DEF Marked
  <2> QED BY <2>1, CompilerAdded
<1> HIDE DEF k
<1>4. /\ es \in Seq(Compilers) /\ Len(es) = n + 1 /\ es[n + 1] = k
      /\ \A c \in 1..n : es[c] = ds[c]
  <2>1. k \in Compilers BY <1>2, CompilerTypes
  <2> QED BY <2>1, <1>1, Appended
<1> HIDE DEF es, n
<1>5. Nested(es)
  <2>1. \A c \in 1..n : /\ ScopesOK(ds[c]) /\ (c # 1 => ds[c].scopeDepth >= 1)
                        /\ Settled(ds[c], Len(ds[c].locals))
    <3> TAKE c \in 1..n
    <3>1. c # 1 => c \in 2..n BY <1>1
    <3>2. c = n \/ c \in 1..(n - 1) BY <1>1
    <3> QED BY <3>1, <3>2 DEF Nested, n
  <2>2. \A c \in 1..Len(es) : \/ c = n + 1 /\ es[c] = k
                              \/ c \in 1..n /\ es[c] = ds[c]
        BY <1>1, <1>4
  <2>3. \A c \in 1..Len(es) : ScopesOK(es[c]) BY <2>1, <2>2, <1>2
  <2>4. \A c \in 1..(Len(es) - 1) : Settled(es[c], Len(es[c].locals))
    <3> TAKE c \in 1..(Len(es) - 1)
    <3>1. c \in 1..n BY <1>1, <1>4
    <3> QED BY <3>1, <2>1, <1>4
  <2>5. Settled(es[Len(es)], Len(es[Len(es)].locals) - 1)
    <3>1. Len(k.locals) \in Nat BY <1>2, CompilerTypes
    <3> QED BY <3>1, <1>2, <1>4 DEF Settled
  <2>6. \A c \in 2..Len(es) : es[c].scopeDepth >= 1
    <3> TAKE c \in 2..Len(es)
    <3>1. c \in 1..Len(es) /\ c # 1 BY <1>4
    <3> QED BY <3>1, <2>1, <2>2, <1>2
  <2> QED BY <2>3, <2>4, <2>5, <2>6 DEF Nested
<1> DEFINE O == FlatTo(es, n)
           S == ScopeSet(w)
           x == << >>
<1>6. FlatTo(es, Len(es)) = O \o ScopesOf(k) /\ O \in Seq(S) /\ ScopesOf(k) \in Seq(S)
  <2>1. /\ FlatTo(es, Len(es) - 1) \in Seq(S) /\ ScopesOf(es[Len(es)]) \in Seq(S)
        /\ FlatTo(es, Len(es)) = FlatTo(es, Len(es) - 1) \o ScopesOf(es[Len(es)])
        BY <1>3, <1>5, Around
  <2>2. Len(es) - 1 = n /\ es[Len(es)] = k BY <1>1, <1>4
  <2> QED BY <2>1, <2>2
<1>7. O = FlatTo(ds, n) BY <1>1, <1>4, FlatSame
<1> HIDE DEF O, S, x
<1>8. O \o ScopesOf(k) = Append(O, x)
  <2>1. ScopesOf(k) = <<x>> BY <1>2 DEF x
  <2>2. x \in S
    <3>1. <<x>> \in Seq(S) BY <2>1, <1>6
    <3> QED BY ONLY <3>1
  <2>3. O \o <<x>> = Append(O, x) BY ONLY <2>2, <1>6
  <2> QED BY <2>1, <2>3
<1> QED BY <1>5, <1>6, <1>7, <1>8 DEF es, k, n, x

LEMMA EndFunctionStep ==
    ASSUME LInv, EndFunction
    PROVE  Lexical!Close /\ Nested(compilers')
<1> DEFINE cs == compilers
           ds == Front(cs)
           n == Len(cs)
<1>1. /\ Chain(cs) /\ Declared(cs, variables) /\ Nested(cs) /\ Depth = n /\ n \in Nat
      /\ cs \in Seq(Compilers) /\ Current = cs[n]
      BY CurrentFacts, ChainTypes DEF LInv
<1>2. /\ compilers' = ds /\ access' = NoAccess /\ status = "compiling" /\ status' = status
      /\ n > 1 /\ cs[n].scopeDepth = 1
      BY <1>1 DEF EndFunction, Compiling
<1>3. ds \in Seq(Compilers) /\ Len(ds) = n - 1 /\ \A c \in 1..(n - 1) : ds[c] = cs[c]
  <2>1. ds = SubSeq(cs, 1, n - 1) /\ n - 1 \in 0..n BY <1>1, <1>2 DEF Front
  <2> QED BY <2>1, <1>1, Prefix
<1> DEFINE O == FlatTo(cs, n - 1)
           I == ScopesOf(cs[n])
           S == ScopeSet(variables)
<1>4. /\ O \in Seq(S) /\ I \in Seq(S) /\ FlatTo(cs, n) = O \o I /\ Len(I) = 1
  <2> HIDE DEF cs
  <2>1. Len(I) = cs[n].scopeDepth BY <1>1, Around
  <2> QED BY <2>1, <1>1, <1>2, Around
<1>5. OpenScopes = O \o I BY <1>4, FlatNow
<1>6. OpenScopes' = O
  <2>1. OpenScopes' = FlatTo(compilers', Len(compilers')) BY DEF OpenScopes, FlatTo, Depth
  <2>2. OpenScopes' = FlatTo(ds, n - 1) BY <2>1, <1>2, <1>3
  <2> HIDE DEF ds, cs, n
  <2>3. n - 1 \in Nat BY <1>1, <1>2
  <2>4. FlatTo(ds, n - 1) = FlatTo(cs, n - 1) BY <2>3, <1>3, FlatSame
  <2> QED BY <2>2, <2>4
<1> HIDE DEF cs, ds, n, O, I, S
<1>7. OpenScopes # << >> /\ O = SubSeq(OpenScopes, 1, Len(OpenScopes) - 1)
  <2>1. SubSeq(O \o I, 1, Len(O \o I) - 1) = O \o SubSeq(I, 1, Len(I) - 1) /\ O \o I # << >>
    <3>1. O \in Seq(S) /\ I \in Seq(S) /\ Len(I) # 0 BY <1>4
    <3>2. SubSeq(O \o I, 1, Len(O \o I) - 1) = O \o SubSeq(I, 1, Len(I) - 1)
          BY ONLY <3>1, CutLast
    <3>3. O \o I # << >> BY ONLY <3>1, LastOf
    <3> QED BY <3>2, <3>3
  <2>2. SubSeq(I, 1, Len(I) - 1) = << >> BY <1>4
  <2>3. O \o << >> = O BY <1>4
  <2> QED BY <2>1, <2>2, <2>3, <1>5
<1>8. Nested(ds)
  <2>1. \A c \in 1..(n - 1) : c \in 1..n /\ ds[c] = cs[c] BY <1>1, <1>3
  <2>2. \A c \in 1..n : ScopesOK(cs[c]) BY <1>1 DEF Nested, n
  <2>3. \A c \in 1..(n - 1) : Settled(cs[c], Len(cs[c].locals)) BY <1>1 DEF Nested, n
  <2>4. \A c \in 2..(n - 1) : cs[c].scopeDepth >= 1
    <3>1. \A c \in 2..(n - 1) : c \in 2..n BY <1>1
    <3> QED BY <3>1, <1>1 DEF Nested, n
  <2>5. n - 1 \in 1..(n - 1) /\ \A c \in 1..((n - 1) - 1) : c \in 1..(n - 1) BY <1>1, <1>2
  <2>6. Settled(ds[n - 1], Len(ds[n - 1].locals) - 1)
    <3>1. Settled(cs[n - 1], Len(cs[n - 1].locals)) BY <2>3, <2>5
    <3>2. Len(cs[n - 1].locals) \in Nat BY <2>1, <2>5, <1>1, ChainTypes, CompilerTypes DEF n
    <3> QED BY <3>1, <3>2, <2>1, <2>5 DEF Settled
  <2>7. \A c \in 2..(n - 1) : c \in 1..(n - 1) OBVIOUS
  <2> QED BY <2>1, <2>2, <2>3, <2>4, <2>5, <2>6, <2>7, <1>3 DEF Nested
<1>9. Denoted' = Global
  <2>1. access' = NoAccess => Denoted' = Global BY DEF Denoted, NoAccess
  <2> QED BY <2>1, <1>2
<1> QED BY <1>2, <1>6, <1>7, <1>8, <1>9 DEF Lexical!Close, Lexical!Compiling

LEMMA BeginFunctionStep ==
    ASSUME LInv, NEW name \in Names, BeginFunction(name), ~DeclarationFails(name)
    PROVE  /\ Lexical!Open \/ Lexical!DeclareFunction(name, variables + 1)
           /\ Nested(compilers')
<1> DEFINE j == Current
           e == j.scopeDepth
           v == variables
<1>1. /\ access' = NoAccess /\ status = "compiling" /\ status' = status /\ ~Pending
      /\ v < MaxVariables
      BY DEF BeginFunction, Compiling
<1>2. /\ Chain(compilers) /\ Declared(compilers, v) /\ Nested(compilers)
      /\ Depth = Len(compilers) /\ Depth \in 1..Len(compilers) /\ j = compilers[Depth]
      /\ CompilerOK(j) /\ e \in Nat /\ Settled(j, Len(j.locals)) /\ v \in Nat
      /\ MaxVariables \in Nat /\ closedOver \subseteq 1..v /\ (Depth # 1 => e >= 1)
      BY <1>1, CurrentFacts, CurrentLevels DEF LInv
<1>3. OpenScopes' = FlatTo(compilers', Len(compilers')) BY DEF OpenScopes, FlatTo, Depth
<1>4. Denoted' = Global
  <2>1. access' = NoAccess => Denoted' = Global BY DEF Denoted, NoAccess
  <2> QED BY <2>1, <1>1
<1>5. CASE e = 0
  <2>1. compilers' = Append(compilers, NewCompiler(1)) BY <1>5 DEF BeginFunction
  <2> DEFINE ds == compilers
  <2>2. Settled(ds[Len(ds)], Len(ds[Len(ds)].locals)) BY <1>2
  <2>3. /\ Nested(Append(ds, NewCompiler(1)))
        /\ FlatTo(Append(ds, NewCompiler(1)), Len(Append(ds, NewCompiler(1)))) =
             Append(FlatTo(ds, Len(ds)), << >>)
    <3>1. Chain(ds) /\ Declared(ds, v) /\ Nested(ds) BY <1>2
    <3> HIDE DEF ds, v
    <3> QED BY <2>2, <3>1, FunctionAdded
  <2>4. Nested(compilers') /\ OpenScopes' = Append(OpenScopes, << >>)
        BY <2>1, <2>3, <1>3, FlatNow
  <2> QED BY <2>4, <1>1, <1>4 DEF Lexical!Open, Lexical!Compiling
<1>6. CASE e # 0
  <2> DEFINE ls == Append(j.locals, Local(name, e, v + 1))
             k == [j EXCEPT !.locals = ls]
             ds == [compilers EXCEPT ![Depth] = k]
             p == Len(j.locals) + 1
             w == v + 1
             m == [variable |-> v + 1, initialized |-> TRUE]
  <2>1. k.locals = ls /\ k.scopeDepth = e
    <3> HIDE DEF ls
    <3>1. k = [locals |-> ls, upvalues |-> j.upvalues, scopeDepth |-> j.scopeDepth]
          BY <1>2, Remade
    <3> QED BY <3>1
  <2>2. e > 0 /\ e # Uninitialized /\ e \in {Uninitialized, e} BY <1>2, <1>6 DEF Uninitialized
  <2>3. compilers' = Append(ds, NewCompiler(1))
    <3>1. compilers' = Append([compilers EXCEPT ![Depth].locals = ls], NewCompiler(1))
          BY <1>2, <1>6 DEF BeginFunction
    <3>2. [compilers EXCEPT ![Depth].locals = ls] = ds
      <4> HIDE DEF ls
      <4> QED BY <1>2
    <3> QED BY <3>1, <3>2
  <2> HIDE DEF k
  <2>4. /\ ScopesOK(k) /\ Settled(k, Len(k.locals) - 1) /\ LastOnly(j, k, p)
        /\ Settled(k, Len(k.locals)) /\ k.locals[p].name = name
        /\ Meaning(k, p) = [variable |-> v + 1, initialized |-> e # Uninitialized]
        /\ \A n \in 2..Len(j.locals) : Level(j, n) = e => j.locals[n].name # name
        BY <1>1, <2>1, <2>2, LocalDeclared
  <2>5. Meaning(k, p) = m BY <2>2, <2>4
  <2>6. Chain(ds) /\ Declared(ds, w) /\ w \in 0..MaxVariables
    <3>1. e <= MaxDepth /\ MaxDepth \in Nat /\ e \in Uninitialized..MaxDepth
          BY <1>2, BoundsAssumption DEF CompilerOK, Uninitialized
    <3>2. Len(j.locals) # MaxLocals BY <2>2 DEF DeclarationFails
    <3>3. /\ ls \in Seq(Locals) /\ Len(ls) >= 1 /\ Len(ls) <= MaxLocals
          /\ ls[1].name = NoName /\ ls[1].depth = 0 /\ ls[1].variable = Global
          /\ \A n \in 2..Len(ls) : ls[n].name \in Names
          /\ FromLocals(ls, Current.locals, variables, v + 1)
          BY <1>1, <3>1, <3>2, LocalAdded DEF LInv
    <3>4. k = [locals |-> ls, upvalues |-> Current.upvalues, scopeDepth |-> e]
      <4> HIDE DEF ls
      <4> QED BY <1>2, Remade DEF k
    <3>5. w \in {variables, variables + 1} /\ w \in 0..MaxVariables BY <1>1, <1>2
    <3> DEFINE d == e
               es == [compilers EXCEPT ![Depth] =
                        [locals |-> ls, upvalues |-> Current.upvalues, scopeDepth |-> d]]
    <3>6. d \in Nat /\ d <= MaxDepth /\ IInv BY <1>2, <3>1 DEF LInv
    <3>7. FromLocals(ls, Current.locals, variables, w) BY <3>3
    <3> HIDE DEF ls, w, d
    <3>8. Chain(es) /\ Declared(es, w) BY <3>3, <3>5, <3>6, <3>7, CurrentSet
    <3>9. ds = es BY <3>4 DEF d
    <3> QED BY <3>5, <3>8, <3>9
  <2>7. Depth # 1 => k.scopeDepth >= 1 BY <1>2, <2>1
  <2>d. ds = [compilers EXCEPT ![Depth] = k] OBVIOUS
  <2> HIDE DEF ls, ds, p, w, m, e, j
  <2>8. /\ Nested(ds) /\ Len(ds) = Depth
        /\ \E O, I, J \in Seq(ScopeSet(MaxVariables)) :
             OpenScopes = O \o I /\ Lists(I, j) /\ FlatTo(ds, Depth) = O \o J /\ Lists(J, k)
        BY <2>d, <2>4, <2>6, <2>7, ApartIn DEF j
  <2>9. PICK O \in Seq(ScopeSet(MaxVariables)), I \in Seq(ScopeSet(MaxVariables)),
             J \in Seq(ScopeSet(MaxVariables)) :
           OpenScopes = O \o I /\ Lists(I, j) /\ FlatTo(ds, Depth) = O \o J /\ Lists(J, k)
        BY <2>8
  <2>10. Sets(I, J, name, m)
    <3>1. j.scopeDepth \in Nat /\ j.scopeDepth >= 1 BY <1>2, <2>2 DEF e
    <3>2. Sets(I, J, k.locals[p].name, Meaning(k, p)) BY <3>1, <2>4, <2>9, SetsOf
    <3> QED BY <3>2, <2>4, <2>5
  <2>11. name \notin DOMAIN I[Len(I)]
    <3>1. e = j.scopeDepth /\ e \in Nat /\ e >= 1 BY <1>2, <2>2 DEF e
    <3>2. Lists(I, j) BY <2>9
    <3>3. \A n \in 2..Len(j.locals) : Level(j, n) = e => j.locals[n].name # name BY <2>4
    <3> QED BY ONLY <3>1, <3>2, <3>3, NameFree
  <2> DEFINE s == OpenScopes
             t == FlatTo(ds, Depth)
             sc == I[Len(I)]
  <2>12. s # << >> /\ s[Len(s)] = sc /\ t = [s EXCEPT ![Len(s)] = SetTo(sc, name, m)]
    <3> DEFINE S == ScopeSet(MaxVariables)
    <3>1. Parts(S, O, I, s) /\ Parts(S, O, J, t) BY <2>9 DEF Parts
    <3> HIDE DEF S, s, t
    <3>2. SetsIn(s, t, sc, name, m) BY ONLY <3>1, <2>10, SetsJoined
    <3> QED BY <3>2 DEF SetsIn
  <2>13. Nested(compilers') /\ OpenScopes' = Append(t, << >>)
    <3>1. Settled(ds[Len(ds)], Len(ds[Len(ds)].locals))
      <4>1. ds[Depth] = k
        <5>1. compilers \in Seq(Compilers) BY <1>2, ChainTypes
        <5> QED BY <5>1, <2>d, <1>2
      <4> QED BY <4>1, <2>4, <2>8
    <3>2. /\ Nested(Append(ds, NewCompiler(1)))
          /\ FlatTo(Append(ds, NewCompiler(1)), Len(Append(ds, NewCompiler(1)))) =
               Append(FlatTo(ds, Len(ds)), << >>)
      <4> HIDE DEF t
      <4> QED BY <3>1, <2>6, <2>8, FunctionAdded
    <3> QED BY <3>2, <2>3, <2>8, <1>3
  <2>14. Lexical!Fresh(v + 1) BY FreshVariable
  <2>15. name \notin DOMAIN Lexical!Inner BY <2>11, <2>12 DEF Lexical!Inner
  <2>16. OpenScopes' = Append([OpenScopes EXCEPT ![Len(OpenScopes)] =
                                 Lexical!With(name, v + 1, TRUE)], << >>)
    <3>1. Lexical!With(name, v + 1, TRUE) = SetTo(sc, name, m)
          BY <2>12 DEF Lexical!With, Lexical!Inner, SetTo, m
    <3> HIDE DEF t, sc
    <3> QED BY <3>1, <2>12, <2>13
  <2>17. Lexical!DeclareFunction(name, v + 1)
         BY <1>1, <1>4, <2>12, <2>14, <2>15, <2>16 DEF Lexical!DeclareFunction, Lexical!Compiling
  <2> QED BY <2>13, <2>17
<1> QED BY <1>5, <1>6

-----------------------------------------------------------------------------
(* A name is looked for from the innermost scope outwards. *)

LEMMA FoundIsUsed ==
    ASSUME NEW S, OpenScopes \in Seq(S), NEW name, NEW x, Finds(OpenScopes, name, x)
    PROVE  /\ Lexical!Declaring(name) # {}
           /\ OpenScopes[Lexical!Max(Lexical!Declaring(name))][name] = x
<1> DEFINE ss == OpenScopes
           D == Lexical!Declaring(name)
<1>1. PICK s \in 1..Len(ss) : /\ name \in DOMAIN ss[s] /\ ss[s][name] = x
                              /\ \A t \in 1..Len(ss) : t > s => name \notin DOMAIN ss[t]
      BY DEF Finds
<1>2. Len(ss) \in Nat /\ DOMAIN ss = 1..Len(ss) OBVIOUS
<1>3. D = {t \in 1..Len(ss) : name \in DOMAIN ss[t]} BY <1>2 DEF Lexical!Declaring
<1>4. Lexical!Max(D) = Max(D) BY DEF Lexical!Max, Max
<1> HIDE DEF D, ss
<1>5. s \in D /\ D \in SUBSET (1..Len(ss)) BY <1>1, <1>3
<1>6. Max(D) \in D /\ \A t \in D : t <= Max(D) BY <1>2, <1>5, MaxOf
<1>7. \A t \in D : t <= s BY <1>1, <1>2, <1>3
<1>8. Max(D) = s
  <2>1. Max(D) <= s /\ s <= Max(D) BY <1>5, <1>6, <1>7
  <2>2. s \in 1..Len(ss) /\ Max(D) \in 1..Len(ss) BY <1>5, <1>6
  <2>3. \A y, z \in 1..Len(ss) : y <= z /\ z <= y => y = z BY <1>2
  <2> QED BY ONLY <2>1, <2>2, <2>3
<1> QED BY <1>1, <1>4, <1>5, <1>8 DEF D, ss

LEMMA AbsentIsGlobal ==
    ASSUME NEW S, OpenScopes \in Seq(S), NEW name, Absent(OpenScopes, name)
    PROVE  Lexical!Declaring(name) = {}
<1>1. DOMAIN OpenScopes = 1..Len(OpenScopes) OBVIOUS
<1> QED BY <1>1 DEF Lexical!Declaring, Absent

(* The last local of a name is in the innermost of the scopes that have one. *)
LEMMA LastIsFound ==
    ASSUME NEW k, ScopesOK(k), NEW I, Lists(I, k), k.scopeDepth \in Nat,
           NEW n \in 2..Len(k.locals),
           \A m \in 2..Len(k.locals) : k.locals[m].name = k.locals[n].name => m <= n
    PROVE  Finds(I, k.locals[n].name, Meaning(k, n))
<1> DEFINE d == Level(k, n)
           name == k.locals[n].name
<1>1. d \in 1..k.scopeDepth BY DEF ScopesOK
<1>2. Len(I) = k.scopeDepth /\ \A t \in 1..k.scopeDepth : Describes(I[t], k, t) BY DEF Lists
<1>3. name \in DOMAIN I[d] /\ I[d][name] = Meaning(k, n) BY <1>1, <1>2 DEF Describes
<1>4. ASSUME NEW t \in 1..Len(I), t > d, name \in DOMAIN I[t] PROVE FALSE
  <2>1. PICK m \in 2..Len(k.locals) : Level(k, m) = t /\ k.locals[m].name = name
        BY <1>2, <1>4 DEF Describes
  <2>2. m <= n BY <2>1
  <2>3. Level(k, m) <= d BY <2>2 DEF ScopesOK
  <2> HIDE DEF d
  <2> QED BY <2>1, <2>3, <1>1, <1>2, <1>4
<1> HIDE DEF d, name
<1>5. Finds(I, name, Meaning(k, n)) BY <1>1, <1>2, <1>3, <1>4 DEF Finds
<1> QED BY <1>5 DEF name

LEMMA NameAbsent ==
    ASSUME NEW k, NEW I, Lists(I, k), NEW name, \A n \in 2..Len(k.locals) : k.locals[n].name # name
    PROVE  Absent(I, name)
<1> SUFFICES ASSUME NEW t \in 1..Len(I), name \in DOMAIN I[t] PROVE FALSE BY DEF Absent
<1>1. Describes(I[t], k, t) BY DEF Lists
<1> QED BY <1>1 DEF Describes

(* From function o outwards nothing matters, once it has a local of the name. *)
LEMMA FoundFrom ==
    ASSUME NEW S, NEW cs, NEW n \in Nat, \A c \in 1..n : ScopesOf(cs[c]) \in Seq(S),
           NEW name, NEW x, NEW o \in 1..n, Finds(ScopesOf(cs[o]), name, x),
           \A c \in (o + 1)..n : Absent(ScopesOf(cs[c]), name)
    PROVE  Finds(FlatTo(cs, n), name, x)
<1> DEFINE Bad == {m \in o..n : ~Finds(FlatTo(cs, m), name, x)}
<1> SUFFICES Bad = {} OBVIOUS
<1> SUFFICES ASSUME Bad # {} PROVE FALSE OBVIOUS
<1>1. PICK m \in Bad : \A k \in Bad : m <= k
  <2>1. Bad \in SUBSET Nat OBVIOUS
  <2> HIDE DEF Bad
  <2> QED BY <2>1, LeastNat
<1>2. m \in Nat /\ m # 0 /\ m - 1 \in Nat /\ m \in 1..n /\ m \in o..n OBVIOUS
<1>3. ~Finds(FlatTo(cs, m), name, x) OBVIOUS
<1>4. \A c \in 1..m : ScopesOf(cs[c]) \in Seq(S) BY <1>2
<1>5. FlatTo(cs, m) = FlatTo(cs, m - 1) \o ScopesOf(cs[m]) BY <1>2, <1>4, FlatStep
<1>6. FlatTo(cs, m - 1) \in Seq(S)
  <2>1. \A c \in 1..(m - 1) : ScopesOf(cs[c]) \in Seq(S) BY <1>2, <1>4
  <2> QED BY <1>2, <2>1, FlatTyped
<1>7. ScopesOf(cs[m]) \in Seq(S) BY <1>2
<1>8. m = o => Finds(FlatTo(cs, m - 1) \o ScopesOf(cs[m]), name, x) BY <1>6, <1>7, FoundAfter
<1>9. CASE m # o
  <2>1. m - 1 \in o..n /\ m \in (o + 1)..n BY <1>2, <1>9
  <2>2. m - 1 \notin Bad BY <1>1, <1>2
  <2>3. Finds(FlatTo(cs, m - 1), name, x) BY <2>1, <2>2
  <2>4. Absent(ScopesOf(cs[m]), name) BY <2>1
  <2> HIDE DEF Bad
  <2>5. Finds(FlatTo(cs, m - 1) \o ScopesOf(cs[m]), name, x) BY <1>6, <1>7, <2>3, <2>4, FoundBefore
  <2> QED BY <2>5, <1>3, <1>5
<1> HIDE DEF Bad
<1> QED BY <1>3, <1>5, <1>8, <1>9

LEMMA AbsentFrom ==
    ASSUME NEW S, NEW cs, NEW n \in Nat, \A c \in 1..n : ScopesOf(cs[c]) \in Seq(S),
           NEW name, \A c \in 1..n : Absent(ScopesOf(cs[c]), name)
    PROVE  Absent(FlatTo(cs, n), name)
<1> DEFINE Bad == {m \in 0..n : ~Absent(FlatTo(cs, m), name)}
<1> SUFFICES Bad = {} OBVIOUS
<1> SUFFICES ASSUME Bad # {} PROVE FALSE OBVIOUS
<1>1. PICK m \in Bad : \A k \in Bad : m <= k
  <2>1. Bad \in SUBSET Nat OBVIOUS
  <2> HIDE DEF Bad
  <2> QED BY <2>1, LeastNat
<1>2. m \in Nat /\ m <= n /\ ~Absent(FlatTo(cs, m), name) OBVIOUS
<1>3. m # 0
  <2> SUFFICES ASSUME m = 0 PROVE FALSE OBVIOUS
  <2>1. FlatTo(cs, 0) = <<>> BY FlatNone
  <2>2. Absent(<<>>, name) BY DEF Absent
  <2>3. FlatTo(cs, m) = FlatTo(cs, 0) OBVIOUS
  <2> HIDE DEF Bad
  <2> QED BY ONLY <1>2, <2>1, <2>2, <2>3
<1>4. m - 1 \in Nat /\ m - 1 \in 0..n /\ m \in 1..n BY <1>2, <1>3
<1>5. Absent(FlatTo(cs, m - 1), name) BY <1>1, <1>2, <1>4
<1>6. \A c \in 1..m : ScopesOf(cs[c]) \in Seq(S) BY <1>2
<1>7. FlatTo(cs, m) = FlatTo(cs, m - 1) \o ScopesOf(cs[m]) BY <1>2, <1>3, <1>6, FlatStep
<1>8. FlatTo(cs, m - 1) \in Seq(S)
  <2>1. \A c \in 1..(m - 1) : ScopesOf(cs[c]) \in Seq(S) BY <1>2, <1>6
  <2> QED BY <1>4, <2>1, FlatTyped
<1>9. ScopesOf(cs[m]) \in Seq(S) /\ Absent(ScopesOf(cs[m]), name) BY <1>4
<1> HIDE DEF Bad
<1>10. Absent(FlatTo(cs, m - 1) \o ScopesOf(cs[m]), name) BY <1>5, <1>8, <1>9, AbsentJoined
<1> QED BY <1>2, <1>7, <1>10

(* Every compiler of a chain lists its scopes. *)
LEMMA ChainListed ==
    ASSUME NEW cs, Chain(cs), NEW v \in 0..MaxVariables, Declared(cs, v), Nested(cs)
    PROVE  \A c \in 1..Len(cs) :
             /\ CompilerOK(cs[c]) /\ ScopesOK(cs[c]) /\ cs[c].scopeDepth \in Nat
             /\ Lists(ScopesOf(cs[c]), cs[c])
             /\ ScopesOf(cs[c]) \in Seq(ScopeSet(MaxVariables))
<1> SUFFICES ASSUME NEW c \in 1..Len(cs)
             PROVE  /\ CompilerOK(cs[c]) /\ ScopesOK(cs[c]) /\ cs[c].scopeDepth \in Nat
                    /\ Lists(ScopesOf(cs[c]), cs[c])
                    /\ ScopesOf(cs[c]) \in Seq(ScopeSet(MaxVariables))
    OBVIOUS
<1>1. CompilerOK(cs[c]) /\ ScopesOK(cs[c]) BY ChainTypes DEF Nested
<1>2. \A n \in 2..Len(cs[c].locals) : cs[c].locals[n].variable \in 1..MaxVariables
  <2>1. 1..v \subseteq 1..MaxVariables BY BoundsAssumption
  <2> QED BY <2>1 DEF Declared
<1>3. Lists(ScopesOf(cs[c]), cs[c]) BY <1>1, <1>2, ScopesListed
<1>4. cs[c].scopeDepth \in Nat BY <1>1, CompilerTypes
<1> QED BY <1>1, <1>3, <1>4 DEF Lists

-----------------------------------------------------------------------------
(* The uses of a name. *)

LEMMA NoSlots ==
    ASSUME LInv, NEW c \in 1..Depth, NEW name, Slots(c, name) = {}
    PROVE  \A n \in 2..Len(compilers[c].locals) : compilers[c].locals[n].name # name
<1> SUFFICES ASSUME NEW n \in 2..Len(compilers[c].locals), compilers[c].locals[n].name = name
             PROVE  FALSE
    OBVIOUS
<1>1. CompilerOK(compilers[c])
  <2>1. Chain(compilers) /\ c \in 1..Len(compilers) BY DEF LInv, IInv, Depth
  <2> QED BY <2>1, ChainTypes
<1>2. Len(compilers[c].locals) \in Nat /\ DOMAIN compilers[c].locals = 1..Len(compilers[c].locals)
      BY <1>1, CompilerTypes
<1>3. n \in Slots(c, name) BY <1>2 DEF Slots
<1> QED BY <1>3

LEMMA UseGlobalStep ==
    ASSUME LInv, NEW name, UseGlobal(name)
    PROVE  Lexical!Use(name) /\ Nested(compilers')
<1> DEFINE cs == compilers
           S == ScopeSet(MaxVariables)
<1>1. /\ Chain(cs) /\ Declared(cs, variables) /\ Nested(cs) /\ Depth = Len(cs) /\ Depth \in Nat
      /\ Depth \in 1..Len(cs) /\ variables \in 0..MaxVariables
      BY CurrentFacts DEF LInv
<1>2. /\ Slots(Depth, name) = {} /\ Owners(name) = {} /\ access' = NoAccess
      /\ status = "compiling" /\ status' = status /\ compilers' = compilers
      BY DEF UseGlobal, Compiling
<1>3. \A c \in 1..Len(cs) : Lists(ScopesOf(cs[c]), cs[c]) /\ ScopesOf(cs[c]) \in Seq(S)
  <2> HIDE DEF cs
  <2> QED BY <1>1, ChainListed
<1>4. ASSUME NEW c \in 1..Depth PROVE Absent(ScopesOf(cs[c]), name)
  <2>1. Slots(c, name) = {}
    <3>1. CASE c = Depth BY <3>1, <1>2
    <3>2. CASE c # Depth
      <4>1. c \in 1..(Depth - 1) BY <3>2, <1>1
      <4> QED BY <4>1, <1>2 DEF Owners
    <3> QED BY <3>1, <3>2
  <2>2. \A n \in 2..Len(cs[c].locals) : cs[c].locals[n].name # name BY <2>1, NoSlots
  <2>3. Lists(ScopesOf(cs[c]), cs[c]) BY <1>1, <1>3
  <2> HIDE DEF cs
  <2> QED BY <2>2, <2>3, NameAbsent
<1>5. OpenScopes = FlatTo(cs, Depth) BY <1>1, FlatNow
<1>6. \A c \in 1..Depth : ScopesOf(cs[c]) \in Seq(S) BY <1>1, <1>3
<1>7. OpenScopes \in Seq(S) /\ Absent(OpenScopes, name)
  <2> HIDE DEF cs, S
  <2>1. Depth \in Nat BY <1>1
  <2>2. FlatTo(cs, Depth) \in Seq(S) BY <2>1, <1>6, FlatTyped
  <2>3. \A c \in 1..Depth : Absent(ScopesOf(cs[c]), name) BY <1>4
  <2>4. Absent(FlatTo(cs, Depth), name) BY <2>1, <2>3, <1>6, AbsentFrom
  <2> QED BY <2>2, <2>4, <1>5
<1> HIDE DEF cs, S
<1>8. Lexical!Declaring(name) = {} BY <1>7, AbsentIsGlobal
<1>9. OpenScopes' = OpenScopes BY <1>2 DEF OpenScopes, Depth
<1>10. Denoted' = Global
  <2>1. access' = NoAccess => Denoted' = Global BY DEF Denoted, NoAccess
  <2> QED BY <2>1, <1>2
<1> QED BY <1>1, <1>2, <1>8, <1>9, <1>10 DEF Lexical!Use, Lexical!Compiling, cs

LEMMA MeaningFields ==
    ASSUME NEW k, NEW n, k.locals[n].depth # Uninitialized
    PROVE  Meaning(k, n).initialized /\ Meaning(k, n).variable = k.locals[n].variable
BY DEF Meaning

(* A name denotes what the scopes say once it is found there. *)
LEMMA FoundStep ==
    ASSUME status = "compiling", status' = status, NEW S, OpenScopes \in Seq(S),
           OpenScopes' = OpenScopes, NEW name, NEW k, NEW n, k.locals[n].depth # Uninitialized,
           Finds(OpenScopes, name, Meaning(k, n)), Denoted' = k.locals[n].variable
    PROVE  Lexical!Use(name)
<1> DEFINE x == Meaning(k, n)
<1>1. x.initialized /\ x.variable = k.locals[n].variable BY MeaningFields
<1> HIDE DEF x
<1>2. Finds(OpenScopes, name, x) BY DEF x
<1>3. /\ Lexical!Declaring(name) # {}
      /\ OpenScopes[Lexical!Max(Lexical!Declaring(name))][name] = x
      BY <1>2, FoundIsUsed
<1> QED BY <1>1, <1>3 DEF Lexical!Use, Lexical!Compiling

LEMMA UseLocalStep ==
    ASSUME LInv, NEW name \in Names, UseLocal(name), ~CompileError
    PROVE  Lexical!Use(name) /\ Nested(compilers')
<1> DEFINE cs == compilers
           n == ResolveLocal(Depth, name)
           S == ScopeSet(MaxVariables)
           k == cs[Depth]
<1>1. /\ Chain(cs) /\ Declared(cs, variables) /\ Nested(cs) /\ Depth = Len(cs) /\ Depth \in Nat
      /\ Depth \in 1..Depth /\ variables \in 0..MaxVariables /\ Current = k /\ CompilerOK(k)
      BY CurrentFacts DEF LInv
<1>2. /\ Slots(Depth, name) # {} /\ status = "compiling" /\ status' = status
      /\ k.locals[n].depth # Uninitialized /\ compilers' = compilers
      /\ access' = [kind |-> "local", index |-> n]
      BY <1>1 DEF UseLocal, Compiling
<1>3. /\ n \in 2..Len(k.locals) /\ k.locals[n].name = name
      /\ \A m \in 2..Len(k.locals) : k.locals[m].name = name => m <= n
  <2>1. /\ n \in 1..Len(k.locals) /\ k.locals[n].name = name
        /\ \A m \in 1..Len(k.locals) : k.locals[m].name = name => m <= n
        BY <1>1, <1>2, ResolveLocalOf
  <2>2. k.locals[1].name # name BY <1>1, NamesAssumption DEF CompilerOK
  <2>3. Len(k.locals) \in Nat BY <1>1, CompilerTypes
  <2> HIDE DEF n, k
  <2>4. n # 1 BY <2>1, <2>2
  <2> QED BY <2>1, <2>3, <2>4
<1>4. \A c \in 1..Depth : /\ ScopesOK(cs[c]) /\ cs[c].scopeDepth \in Nat
                          /\ Lists(ScopesOf(cs[c]), cs[c]) /\ ScopesOf(cs[c]) \in Seq(S)
  <2> HIDE DEF cs
  <2> QED BY <1>1, ChainListed
<1> HIDE DEF n
<1>5. Finds(ScopesOf(k), name, Meaning(k, n))
  <2>1. ScopesOK(k) /\ k.scopeDepth \in Nat /\ Lists(ScopesOf(k), k) BY <1>1, <1>4
  <2> HIDE DEF k
  <2>2. \A m \in 2..Len(k.locals) : k.locals[m].name = k.locals[n].name => m <= n BY <1>3
  <2>3. Finds(ScopesOf(k), k.locals[n].name, Meaning(k, n)) BY <2>1, <2>2, <1>3, LastIsFound
  <2> QED BY <2>3, <1>3
<1>6. OpenScopes = FlatTo(cs, Depth) BY <1>1, FlatNow
<1>7. OpenScopes \in Seq(S) /\ Finds(OpenScopes, name, Meaning(k, n))
  <2> DEFINE x == Meaning(k, n)
  <2>1. Finds(ScopesOf(cs[Depth]), name, x) BY <1>5
  <2>2. \A c \in 1..Depth : ScopesOf(cs[c]) \in Seq(S) BY <1>4
  <2>3. \A c \in (Depth + 1)..Depth : Absent(ScopesOf(cs[c]), name) BY <1>1
  <2> HIDE DEF cs, S, k, x
  <2>4. FlatTo(cs, Depth) \in Seq(S) BY <1>1, <2>2, FlatTyped
  <2>5. Finds(FlatTo(cs, Depth), name, x) BY <1>1, <2>1, <2>2, <2>3, FoundFrom
  <2> QED BY <2>4, <2>5, <1>6 DEF x
<1>8. OpenScopes' = OpenScopes BY <1>2 DEF OpenScopes, Depth
<1>9. Denoted' = k.locals[n].variable
  <2>1. Denoted' = Current'.locals[access'.index].variable BY <1>2 DEF Denoted
  <2>2. Current' = k BY <1>1, <1>2 DEF Current, Depth
  <2> QED BY <2>1, <2>2, <1>2
<1> HIDE DEF k, S
<1>10. Lexical!Use(name) BY <1>2, <1>7, <1>8, <1>9, FoundStep
<1> QED BY <1>1, <1>2, <1>10

(* Marks and pairs are nothing to the scopes. *)
Alike(j, k) ==
    /\ j.scopeDepth = k.scopeDepth /\ Len(j.locals) = Len(k.locals)
    /\ \A n \in 1..Len(k.locals) :
         /\ j.locals[n].name = k.locals[n].name /\ j.locals[n].depth = k.locals[n].depth
         /\ j.locals[n].variable = k.locals[n].variable

LEMMA AlikeLevels ==
    ASSUME NEW j, NEW k, Alike(j, k), Len(k.locals) \in Nat
    PROVE  /\ \A n \in 2..Len(k.locals) : Level(j, n) = Level(k, n) /\ Meaning(j, n) = Meaning(k, n)
           /\ ScopesOK(k) => ScopesOK(j)
           /\ \A d : Agree(k, j, d)
           /\ Settled(k, Len(k.locals)) => Settled(j, Len(j.locals))
           /\ Settled(k, Len(k.locals) - 1) => Settled(j, Len(j.locals) - 1)
<1>1. /\ Len(j.locals) = Len(k.locals) /\ j.scopeDepth = k.scopeDepth
      /\ \A n \in 2..Len(k.locals) :
           /\ j.locals[n].name = k.locals[n].name /\ j.locals[n].depth = k.locals[n].depth
           /\ j.locals[n].variable = k.locals[n].variable
      BY DEF Alike
<1>2. \A n \in 2..Len(k.locals) : Level(j, n) = Level(k, n) /\ Meaning(j, n) = Meaning(k, n)
      BY <1>1 DEF Level, Meaning
<1>3. ASSUME ScopesOK(k) PROVE ScopesOK(j)
  <2>1. \A n \in 2..Len(j.locals) : Level(j, n) \in 1..j.scopeDepth BY <1>1, <1>2, <1>3 DEF ScopesOK
  <2>2. \A n, m \in 2..Len(j.locals) : n <= m => Level(j, n) <= Level(j, m)
        BY <1>1, <1>2, <1>3 DEF ScopesOK
  <2>3. \A n, m \in 2..Len(j.locals) :
           Level(j, n) = Level(j, m) /\ j.locals[n].name = j.locals[m].name => n = m
        BY <1>1, <1>2, <1>3 DEF ScopesOK
  <2> QED BY <2>1, <2>2, <2>3 DEF ScopesOK
<1>4. \A d : Agree(k, j, d) BY <1>1, <1>2 DEF Agree
<1>5. ASSUME Settled(k, Len(k.locals)) PROVE Settled(j, Len(j.locals))
      BY <1>1, <1>5 DEF Settled
<1>6. ASSUME Settled(k, Len(k.locals) - 1) PROVE Settled(j, Len(j.locals) - 1)
  <2>1. \A n \in 2..(Len(k.locals) - 1) : n \in 2..Len(k.locals) OBVIOUS
  <2> QED BY <1>1, <1>6, <2>1 DEF Settled
<1> QED BY <1>2, <1>3, <1>4, <1>5, <1>6

LEMMA AlikeScopes ==
    ASSUME NEW j, NEW k, Alike(j, k), CompilerOK(k), NEW I, Lists(I, k), NEW J, Lists(J, j)
    PROVE  J = I
<1> DEFINE S == ScopeSet(MaxVariables)
<1>1. Len(k.locals) \in Nat BY CompilerTypes
<1>2. I \in Seq(S) /\ J \in Seq(S) /\ Len(I) = Len(J) /\ Len(I) = k.scopeDepth
      /\ k.scopeDepth = j.scopeDepth
      BY DEF Lists, Alike
<1>3. ASSUME NEW d \in 1..Len(I) PROVE I[d] = J[d]
  <2>1. Agree(k, j, d) BY <1>1, AlikeLevels
  <2>2. d \in 1..k.scopeDepth /\ d \in 1..j.scopeDepth BY <1>2
  <2> QED BY <2>1, <2>2, ScopeKept
<1> HIDE DEF S
<1> QED BY <1>2, <1>3, SameElements

LEMMA AlikeChain ==
    ASSUME NEW cs, Chain(cs), NEW v \in 0..MaxVariables, Declared(cs, v), Nested(cs),
           NEW ds, Chain(ds), NEW w \in 0..MaxVariables, Declared(ds, w),
           Len(ds) = Len(cs), \A c \in 1..Len(cs) : Alike(ds[c], cs[c])
    PROVE  Nested(ds) /\ FlatTo(ds, Len(ds)) = FlatTo(cs, Len(cs))
<1>1. Len(cs) \in Nat /\ Len(cs) >= 1 BY ChainTypes
<1>2. \A c \in 1..Len(cs) : CompilerOK(cs[c]) /\ ScopesOK(cs[c]) /\ Lists(ScopesOf(cs[c]), cs[c])
      BY ChainListed
<1>3. ASSUME NEW c \in 1..Len(cs)
      PROVE  /\ ScopesOK(ds[c])
             /\ Settled(cs[c], Len(cs[c].locals)) => Settled(ds[c], Len(ds[c].locals))
             /\ Settled(cs[c], Len(cs[c].locals) - 1) => Settled(ds[c], Len(ds[c].locals) - 1)
             /\ ds[c].scopeDepth = cs[c].scopeDepth
  <2>1. Len(cs[c].locals) \in Nat BY <1>2, CompilerTypes
  <2>2. Alike(ds[c], cs[c]) /\ ScopesOK(cs[c]) BY <1>2
  <2>3. ds[c].scopeDepth = cs[c].scopeDepth BY <2>2 DEF Alike
  <2> QED BY <2>1, <2>2, <2>3, AlikeLevels
<1>4. Nested(ds)
  <2>1. \A c \in 1..(Len(cs) - 1) : c \in 1..Len(cs) OBVIOUS
  <2>2. \A c \in 1..Len(ds) : ScopesOK(ds[c]) BY <1>3
  <2>3. \A c \in 1..(Len(ds) - 1) : Settled(ds[c], Len(ds[c].locals)) BY <1>3, <2>1 DEF Nested
  <2>4. Len(cs) \in 1..Len(cs) BY <1>1
  <2>5. Settled(ds[Len(ds)], Len(ds[Len(ds)].locals) - 1) BY <1>3, <2>4 DEF Nested
  <2>6. \A c \in 2..Len(ds) : ds[c].scopeDepth >= 1
    <3>1. \A c \in 2..Len(cs) : c \in 1..Len(cs) OBVIOUS
    <3> QED BY <1>3, <3>1 DEF Nested
  <2> QED BY <2>2, <2>3, <2>5, <2>6 DEF Nested
<1>5. \A c \in 1..Len(ds) : Lists(ScopesOf(ds[c]), ds[c]) BY <1>4, ChainListed
<1>6. ASSUME NEW c \in 1..Len(cs) PROVE ScopesOf(ds[c]) = ScopesOf(cs[c])
  <2>1. Lists(ScopesOf(ds[c]), ds[c]) BY <1>5
  <2>2. Lists(ScopesOf(cs[c]), cs[c]) /\ CompilerOK(cs[c]) /\ Alike(ds[c], cs[c]) BY <1>2
  <2> QED BY <2>1, <2>2, AlikeScopes
<1>7. FlatTo(ds, Len(cs)) = FlatTo(cs, Len(cs)) BY <1>1, <1>6, FlatSame
<1> QED BY <1>4, <1>7

(* Pair after pair, out of the innermost function to local r of function o. *)
Leads(cs, o, r, at, c) ==
    /\ at[c] \in 1..Len(cs[c].upvalues)
    /\ IF c = o + 1
         THEN cs[c].upvalues[at[c]].isLocal /\ cs[c].upvalues[at[c]].index = r
         ELSE ~cs[c].upvalues[at[c]].isLocal /\ cs[c].upvalues[at[c]].index = at[c - 1]

LEMMA LeadsToLocal ==
    ASSUME NEW cs, Chain(cs), NEW o \in 1..(Len(cs) - 1), NEW r, NEW at,
           \A c \in (o + 1)..Len(cs) : Leads(cs, o, r, at, c)
    PROVE  CapturesOf(cs)[Len(cs)][at[Len(cs)]] = cs[o].locals[r].variable
<1> DEFINE x == cs[o].locals[r].variable
           n == Len(cs)
           Bad == {c \in (o + 1)..n : CapturesOf(cs)[c][at[c]] # x}
<1>1. n \in Nat /\ o \in Nat /\ o >= 1 /\ n \in (o + 1)..n BY ChainTypes
<1> HIDE DEF x
<1> SUFFICES Bad = {} BY <1>1 DEF x
<1> SUFFICES ASSUME Bad # {} PROVE FALSE OBVIOUS
<1>2. PICK c \in Bad : \A b \in Bad : c <= b
  <2>1. Bad \in SUBSET Nat BY <1>1
  <2> HIDE DEF Bad
  <2> QED BY <2>1, LeastNat
<1>3. c \in (o + 1)..n /\ CapturesOf(cs)[c][at[c]] # x OBVIOUS
<1>4. Leads(cs, o, r, at, c) /\ c \in 1..n BY <1>1, <1>3
<1>5. FollowsOut(cs, c, at[c]) BY <1>4, Unfold DEF Leads
<1>6. CASE c = o + 1
  <2>1. cs[c].upvalues[at[c]].isLocal /\ cs[c].upvalues[at[c]].index = r BY <1>4, <1>6 DEF Leads
  <2>2. c - 1 = o BY <1>1, <1>6
  <2>3. CapturesOf(cs)[c][at[c]] = x BY <1>5, <2>1, <2>2 DEF FollowsOut, x
  <2> HIDE DEF Bad
  <2> QED BY <2>3, <1>3
<1>7. CASE c # o + 1
  <2>1. ~cs[c].upvalues[at[c]].isLocal /\ cs[c].upvalues[at[c]].index = at[c - 1]
        BY <1>4, <1>7 DEF Leads
  <2>2. c - 1 \in (o + 1)..n /\ ~(c <= c - 1) BY <1>1, <1>3, <1>7
  <2>3. c - 1 \notin Bad BY <1>2, <2>2
  <2>4. CapturesOf(cs)[c - 1][at[c - 1]] = x BY <2>2, <2>3
  <2> HIDE DEF Bad
  <2>5. CapturesOf(cs)[c][at[c]] = CapturesOf(cs)[c - 1][at[c - 1]] BY <1>5, <2>1 DEF FollowsOut
  <2> QED BY <2>4, <2>5, <1>3
<1> QED BY <1>6, <1>7

LEMMA UseUpvalueStep ==
    ASSUME LInv, NEW name \in Names, UseUpvalue(name), ~CompileError
    PROVE  Lexical!Use(name) /\ Nested(compilers')
<1> DEFINE cs == compilers
           ds == compilers'
           n == Len(cs)
           o == Max(Owners(name))
           r == ResolveLocal(o, name)
           i == access'.index
           k == cs[o]
           S == ScopeSet(MaxVariables)
<1>1. /\ Chain(cs) /\ Declared(cs, variables) /\ Nested(cs) /\ Depth = n /\ n \in Nat
      /\ n \in 1..n /\ variables \in 0..MaxVariables
      BY CurrentFacts DEF LInv
<1>2. /\ IInv' /\ o \in Owners(name) /\ \A c \in Owners(name) : c <= o
      /\ PassedOn(ds, cs, o, r, i) /\ r \in 2..Len(k.locals)
      /\ access'.kind = "upvalue" /\ status' = status /\ variables' = variables
      BY UseUpvalueReaches DEF LInv
<1>3. Slots(n, name) = {} /\ status = "compiling" BY <1>1 DEF UseUpvalue, Compiling
<1>4. o \in 1..(n - 1) /\ o \in 1..n /\ Slots(o, name) # {}
  <2>1. \A c \in Owners(name) : c \in 1..(n - 1) /\ Slots(c, name) # {} BY <1>1 DEF Owners
  <2> HIDE DEF o, n
  <2>2. o \in 1..(n - 1) /\ Slots(o, name) # {} BY <1>2, <2>1
  <2> QED BY <1>1, <2>2
<1>5. CompilerOK(k) /\ Len(k.locals) \in Nat /\ k.scopeDepth \in Nat
  <2>1. CompilerOK(cs[o]) BY <1>1, <1>4, ChainTypes
  <2> QED BY <2>1, CompilerTypes
<1>6. k.locals[r].name = name /\ \A m \in 2..Len(k.locals) : k.locals[m].name = name => m <= r
  <2>1. /\ k.locals[r].name = name
        /\ \A m \in 1..Len(k.locals) : k.locals[m].name = name => m <= r
        BY <1>1, <1>4, <1>5, ResolveLocalOf
  <2> QED BY <2>1
<1>7. k.locals[r].depth # Uninitialized
  <2>1. Settled(k, Len(k.locals)) BY <1>1, <1>4 DEF Nested
  <2> QED BY <2>1, <1>2 DEF Settled
<1>8. Chain(ds) /\ Declared(ds, variables) BY <1>2 DEF IInv
<1>9. /\ Len(ds) = n /\ \A c \in 1..n : Alike(ds[c], cs[c])
      BY <1>2 DEF PassedOn, Alike
<1>10. \E at : at[n] = i /\ \A c \in (o + 1)..n : Leads(ds, o, r, at, c)
  <2>1. PICK at : /\ at[n] = i
                  /\ \A c \in (o + 1)..n :
                       /\ at[c] \in 1..Len(ds[c].upvalues)
                       /\ IF c = o + 1
                            THEN ds[c].upvalues[at[c]].isLocal /\ ds[c].upvalues[at[c]].index = r
                            ELSE /\ ~ds[c].upvalues[at[c]].isLocal
                                 /\ ds[c].upvalues[at[c]].index = at[c - 1]
        BY <1>2 DEF PassedOn
  <2>2. \A c \in (o + 1)..n : Leads(ds, o, r, at, c) BY <2>1 DEF Leads
  <2> QED BY <2>1, <2>2
<1>11. OpenScopes = FlatTo(cs, n) /\ OpenScopes' = FlatTo(ds, Len(ds))
       BY FlatNow DEF OpenScopes, FlatTo, Depth
<1>12. Denoted' = CapturesOf(ds)[n][i]
  <2>1. Denoted' = Captures'[Depth'][access'.index] BY <1>2 DEF Denoted
  <2>2. Captures' = CapturesOf(ds) BY DEF Captures, CapturesOf, Follow, Depth
  <2>3. Depth' = n BY <1>9 DEF Depth
  <2> QED BY <2>1, <2>2, <2>3
<1>13. ASSUME NEW c \in (o + 1)..n
       PROVE  \A m \in 2..Len(cs[c].locals) : cs[c].locals[m].name # name
  <2>1. c \in 1..Depth BY <1>1, <1>4
  <2>2. Slots(c, name) = {}
    <3>1. CASE c = n BY <3>1, <1>3
    <3>2. CASE c # n
      <4>1. c \in 1..(Depth - 1) /\ ~(c <= o) BY <3>2, <1>1, <1>4
      <4> QED BY <4>1, <1>2 DEF Owners
    <3> QED BY <3>1, <3>2
  <2> QED BY <2>1, <2>2, NoSlots
<1> HIDE DEF o, r, i, ds, n, cs
<1>14. Nested(ds) /\ FlatTo(ds, Len(ds)) = FlatTo(cs, n)
       BY <1>1, <1>8, <1>9, AlikeChain DEF n
<1>15. CapturesOf(ds)[n][i] = ds[o].locals[r].variable
  <2>1. PICK at : at[n] = i /\ \A c \in (o + 1)..n : Leads(ds, o, r, at, c) BY <1>10
  <2>2. o \in 1..(Len(ds) - 1) /\ \A c \in (o + 1)..Len(ds) : Leads(ds, o, r, at, c)
        BY <2>1, <1>4, <1>9
  <2>3. CapturesOf(ds)[Len(ds)][at[Len(ds)]] = ds[o].locals[r].variable
        BY <2>2, <1>8, LeadsToLocal
  <2> QED BY <2>1, <2>3, <1>9
<1>16. ds[o].locals[r].variable = k.locals[r].variable
  <2>1. Alike(ds[o], k) BY <1>4, <1>9
  <2>2. r \in 1..Len(k.locals) BY <1>2, <1>5
  <2> HIDE DEF k
  <2> QED BY <2>1, <2>2 DEF Alike
<1>17. \A c \in 1..n : /\ ScopesOK(cs[c]) /\ cs[c].scopeDepth \in Nat
                       /\ Lists(ScopesOf(cs[c]), cs[c]) /\ ScopesOf(cs[c]) \in Seq(S)
       BY <1>1, ChainListed DEF n
<1>18. Finds(ScopesOf(k), name, Meaning(k, r))
  <2>1. ScopesOK(k) /\ k.scopeDepth \in Nat /\ Lists(ScopesOf(k), k) BY <1>4, <1>17
  <2>2. r \in 2..Len(k.locals) BY <1>2
  <2> HIDE DEF k
  <2>3. \A m \in 2..Len(k.locals) : k.locals[m].name = k.locals[r].name => m <= r BY <1>6
  <2>4. Finds(ScopesOf(k), k.locals[r].name, Meaning(k, r)) BY <2>1, <2>2, <2>3, LastIsFound
  <2> QED BY <2>4, <1>6
<1>19. OpenScopes \in Seq(S) /\ Finds(OpenScopes, name, Meaning(k, r))
  <2> DEFINE x == Meaning(k, r)
  <2>1. Finds(ScopesOf(cs[o]), name, x) BY <1>18
  <2>2. \A c \in 1..n : ScopesOf(cs[c]) \in Seq(S) BY <1>17
  <2>3. \A c \in (o + 1)..n : Absent(ScopesOf(cs[c]), name)
    <3> SUFFICES ASSUME NEW c \in (o + 1)..n PROVE Absent(ScopesOf(cs[c]), name) OBVIOUS
    <3>1. c \in 1..n BY <1>1, <1>4
    <3>2. Lists(ScopesOf(cs[c]), cs[c]) BY <3>1, <1>17
    <3>3. \A m \in 2..Len(cs[c].locals) : cs[c].locals[m].name # name BY <1>13
    <3> QED BY <3>2, <3>3, NameAbsent
  <2> HIDE DEF S, k, x
  <2>4. FlatTo(cs, n) \in Seq(S) BY <1>1, <2>2, FlatTyped
  <2>5. Finds(FlatTo(cs, n), name, x) BY <1>1, <1>4, <2>1, <2>2, <2>3, FoundFrom
  <2> QED BY <2>4, <2>5, <1>11 DEF x
<1>20. OpenScopes' = OpenScopes /\ Denoted' = k.locals[r].variable
       BY <1>11, <1>12, <1>14, <1>15, <1>16
<1> HIDE DEF k, S
<1>21. Lexical!Use(name) BY <1>2, <1>3, <1>7, <1>19, <1>20, FoundStep
<1> QED BY <1>14, <1>21 DEF ds

-----------------------------------------------------------------------------
(* The refinement. *)

LEMMA Stutter == UNCHANGED vars /\ LInv => UNCHANGED Lexical!vars /\ LInv'
<1> SUFFICES ASSUME UNCHANGED vars, LInv PROVE UNCHANGED Lexical!vars /\ LInv' OBVIOUS
<1>1. /\ status' = status /\ compilers' = compilers /\ access' = access
      /\ variables' = variables /\ closedOver' = closedOver
      BY DEF vars
<1>2. OpenScopes' = OpenScopes BY <1>1 DEF OpenScopes, Depth
<1>3. Denoted' = Denoted BY <1>1 DEF Denoted, Current, Captures, Depth
<1>4. IInv' BY <1>1, NextInv DEF LInv
<1>5. Nested(compilers') BY <1>1 DEF LInv
<1> QED BY <1>1, <1>2, <1>3, <1>4, <1>5 DEF Lexical!vars, LInv

LEMMA NextStep == LInv /\ [Next]_vars => [Lexical!Next]_(Lexical!vars) /\ LInv'
<1> SUFFICES ASSUME LInv, [Next]_vars PROVE [Lexical!Next]_(Lexical!vars) /\ LInv' OBVIOUS
<1>1. IInv' BY NextInv DEF LInv
<1>2. CASE UNCHANGED vars BY <1>2, Stutter
<1> SUFFICES ASSUME Next PROVE Lexical!Next /\ Nested(compilers')
    BY <1>1, <1>2 DEF LInv
<1>3. ASSUME Compiling, CompileError PROVE Lexical!Next /\ Nested(compilers')
      BY <1>1, <1>3, CompileErrorStep DEF Lexical!Next
<1>4. CASE BeginScope BY <1>1, <1>4, BeginScopeStep DEF Lexical!Next
<1>5. CASE EndScope BY <1>1, <1>5, EndScopeStep DEF Lexical!Next
<1>6. CASE Initialize BY <1>1, <1>6, InitializeStep DEF Lexical!Next
<1>7. CASE EndFunction BY <1>7, EndFunctionStep DEF Lexical!Next
<1>8. ASSUME NEW name \in Names, DeclareVariable(name) PROVE Lexical!Next /\ Nested(compilers')
  <2>1. CASE DeclarationFails(name) BY <1>3, <1>8, <2>1 DEF DeclareVariable
  <2>2. CASE ~DeclarationFails(name)
    <3>1. variables + 1 \in 1..MaxVariables
      <4>1. variables < MaxVariables BY <1>8, <2>2 DEF DeclareVariable
      <4> QED BY <4>1, CurrentFacts DEF LInv
    <3>2. Lexical!Declare(name, variables + 1) /\ Nested(compilers')
          BY <1>1, <1>8, <2>2, DeclareVariableStep
    <3> QED BY <3>1, <3>2 DEF Lexical!Next
  <2> QED BY <2>1, <2>2
<1>9. ASSUME NEW name \in Names, BeginFunction(name) PROVE Lexical!Next /\ Nested(compilers')
  <2>1. CASE DeclarationFails(name) BY <1>3, <1>9, <2>1 DEF BeginFunction
  <2>2. CASE ~DeclarationFails(name)
    <3>1. variables + 1 \in 1..MaxVariables
      <4>1. variables < MaxVariables BY <1>9, <2>2 DEF BeginFunction
      <4> QED BY <4>1, CurrentFacts DEF LInv
    <3>2. /\ Lexical!Open \/ Lexical!DeclareFunction(name, variables + 1)
          /\ Nested(compilers')
          BY <1>9, <2>2, BeginFunctionStep
    <3> QED BY <3>1, <3>2 DEF Lexical!Next
  <2> QED BY <2>1, <2>2
<1>10. ASSUME NEW name \in Names, UseLocal(name) PROVE Lexical!Next /\ Nested(compilers')
  <2>1. CASE CompileError BY <1>3, <1>10, <2>1 DEF UseLocal
  <2>2. CASE ~CompileError BY <1>10, <2>2, UseLocalStep DEF Lexical!Next
  <2> QED BY <2>1, <2>2
<1>11. ASSUME NEW name \in Names, UseUpvalue(name) PROVE Lexical!Next /\ Nested(compilers')
  <2>1. CASE CompileError BY <1>3, <1>11, <2>1 DEF UseUpvalue
  <2>2. CASE ~CompileError BY <1>11, <2>2, UseUpvalueStep DEF Lexical!Next
  <2> QED BY <2>1, <2>2
<1>12. ASSUME NEW name \in Names, UseGlobal(name) PROVE Lexical!Next /\ Nested(compilers')
       BY <1>12, UseGlobalStep DEF Lexical!Next
<1> QED BY <1>4, <1>5, <1>6, <1>7, <1>8, <1>9, <1>10, <1>11, <1>12 DEF Next

(* What an access of a name reaches is what the scopes of the source say, for *)
(* every nesting of functions and scopes and whatever has been captured       *)
(* before: resolveLocal, resolveUpvalue and addUpvalue implement lexical      *)
(* scope.                                                                     *)
THEOREM NamesAreLexical == Spec => ImplementsLexicalScope
<1>1. Init => Lexical!Init /\ LInv BY InitScopes
<1>2. LInv /\ [Next]_vars => [Lexical!Next]_(Lexical!vars) /\ LInv' BY NextStep
<1> QED BY <1>1, <1>2, PTL DEF Spec, ImplementsLexicalScope, Lexical!Spec
=============================================================================
