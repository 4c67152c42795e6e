---------------------------- MODULE LexicalScope ----------------------------
(***************************************************************************)
(* What a name means in nyx: the declaration in the innermost scope around *)
(* its use that declares it, functions or no functions in between, or the  *)
(* global of that name.  Resolver implements this with one array of locals *)
(* and one of upvalues per function.                                       *)
(***************************************************************************)
EXTENDS Naturals, Sequences, FiniteSets, FiniteSetsExt

CONSTANTS
    Names,         \* identifiers of the program
    Variables,     \* identities of declared local variables
    Global         \* what a name denotes that no scope declares

VARIABLES
    status,        \* "compiling", or "error"
    scopes,        \* open scopes, outermost first: [name -> variable, initialized]
    denoted        \* what the name just used denotes, and Global in between

vars == <<status, scopes, denoted>>

Init == status = "compiling" /\ scopes = <<>> /\ denoted = Global

Compiling == status = "compiling"
Inner == scopes[Len(scopes)]
Declaring(name) == {s \in DOMAIN scopes : name \in DOMAIN scopes[s]}

Open == Compiling /\ scopes' = Append(scopes, << >>) /\ denoted' = Global /\ UNCHANGED status

Close ==
    /\ Compiling /\ scopes # <<>>
    /\ scopes' = SubSeq(scopes, 1, Len(scopes) - 1)
    /\ denoted' = Global /\ UNCHANGED status

(* A name is declared once in a scope. *)
With(name, v, initialized) ==
    [n \in DOMAIN Inner \cup {name} |->
        IF n = name THEN [variable |-> v, initialized |-> initialized] ELSE Inner[n]]

Fresh(v) == \A s \in DOMAIN scopes : \A n \in DOMAIN scopes[s] : scopes[s][n].variable # v

Declare(name, v) ==
    /\ Compiling /\ scopes # <<>> /\ name \notin DOMAIN Inner /\ Fresh(v)
    /\ scopes' = [scopes EXCEPT ![Len(scopes)] = With(name, v, FALSE)]
    /\ denoted' = Global /\ UNCHANGED status

Initialize(name) ==
    /\ Compiling /\ scopes # <<>> /\ name \in DOMAIN Inner /\ ~Inner[name].initialized
    /\ scopes' = [scopes EXCEPT ![Len(scopes)] = With(name, Inner[name].variable, TRUE)]
    /\ denoted' = Global /\ UNCHANGED status

(* A function can call itself: its name is initialized in its own body. *)
DeclareFunction(name, v) ==
    /\ Compiling /\ scopes # <<>> /\ name \notin DOMAIN Inner /\ Fresh(v)
    /\ scopes' = Append([scopes EXCEPT ![Len(scopes)] = With(name, v, TRUE)], << >>)
    /\ denoted' = Global /\ UNCHANGED status

Use(name) ==
    /\ Compiling
    /\ \/ Declaring(name) = {} /\ denoted' = Global
       \/ /\ Declaring(name) # {}
          /\ LET found == scopes[Max(Declaring(name))][name]
             IN  found.initialized /\ denoted' = found.variable
    /\ UNCHANGED <<status, scopes>>

(* A program is rejected for what it says, or because it is too large.       *)
Reject == Compiling /\ status' = "error" /\ scopes' = <<>> /\ denoted' = Global

Next ==
    \/ Open \/ Close \/ Reject
    \/ \E name \in Names : Initialize(name) \/ Use(name)
    \/ \E name \in Names, v \in Variables : Declare(name, v) \/ DeclareFunction(name, v)

Spec == Init /\ [][Next]_vars
=============================================================================
