------------------------------- MODULE Scope -------------------------------
(***************************************************************************)
(* What names mean in C, for module Declarations to implement: a name      *)
(* means the entity it is declared as in the innermost scope that declares *)
(* it, and a scope ends with its block.  An entity is whatever can be told *)
(* from all others: a variable, a function, a constant or a type.          *)
(***************************************************************************)
EXTENDS Integers, Sequences

VARIABLES
    scopes,  \* from file scope inwards, the entity of each name declared
    uses     \* the entities that the uses of names so far mean

vars == <<scopes, uses>>

Innermost == Len(scopes)

\* The entity a name means, where it means one.
Declaring(n) == {i \in 1..Innermost : n \in DOMAIN scopes[i]}

Meaning(n) == scopes[CHOOSE i \in Declaring(n) : \A j \in Declaring(n) : j <= i][n]

NamesInScope == UNION {DOMAIN scopes[i] : i \in 1..Innermost}

InScope == UNION {{scopes[i][n] : n \in DOMAIN scopes[i]} : i \in 1..Innermost}

Init == Len(scopes) = 1 /\ uses = << >>

-----------------------------------------------------------------------------

Added(i) == DOMAIN scopes'[i] \ DOMAIN scopes[i]

\* Scope i grows by new names for new entities; none is declared anew.
Grows(i) ==
    /\ \A n \in DOMAIN scopes[i] : n \in DOMAIN scopes'[i] /\ scopes'[i][n] = scopes[i][n]
    /\ \A n \in Added(i) : scopes'[i][n] \notin InScope
    /\ \A m, n \in Added(i) : scopes'[i][m] = scopes'[i][n] => m = n

\* Names are declared in the innermost scope.
Extend ==
    /\ Len(scopes') = Innermost
    /\ \A i \in 1..(Innermost - 1) : scopes'[i] = scopes[i]
    /\ Grows(Innermost)

Declare == Extend /\ UNCHANGED uses

\* A function is declared, if it was not, and entered: its parameters and its
\* body are the scopes inside of file scope.
EnterFunction ==
    /\ Innermost = 1 /\ Len(scopes') = 3
    /\ Grows(1)
    /\ scopes'[3] = << >>
    /\ UNCHANGED uses

OpenBlock == Innermost > 1 /\ scopes' = Append(scopes, << >>) /\ UNCHANGED uses

CloseBlock ==
    Innermost > 3 /\ scopes' = SubSeq(scopes, 1, Innermost - 1) /\ UNCHANGED uses

LeaveFunction == Innermost = 3 /\ scopes' = SubSeq(scopes, 1, 1) /\ UNCHANGED uses

Use ==
    /\ \E n \in NamesInScope : uses' = Append(uses, Meaning(n))
    /\ UNCHANGED scopes

\* A variable is declared and given a value.
DeclareAndUse ==
    /\ Extend
    /\ \E n \in NamesInScope' : uses' = Append(uses, Meaning(n)')

Next ==
    \/ Declare \/ EnterFunction \/ OpenBlock \/ CloseBlock \/ LeaveFunction
    \/ Use \/ DeclareAndUse

Spec == Init /\ [][Next]_vars
=============================================================================
