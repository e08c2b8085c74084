---------------------------- MODULE MCDictionary ----------------------------
(* Two flows of one line, three names.  The line's y is the inverse of x.      *)
EXTENDS Dictionary

CONSTANTS x, y, z, f1, f2, l1, p1, p2

one       == [op |-> "one", dep |-> {}]
zero      == [op |-> "zero", dep |-> {}]
copy(n)   == [op |-> "copy", dep |-> {n}]
inverse(n) == [op |-> "inverse", dep |-> {n}]
var(n, v) == [name |-> n, type |-> "number", value |-> v]

TwoFlows == f1 :> l1 @@ f2 :> l1
AllFull  == p1 :> <<var(x, one)>> @@ l1 :> <<var(y, inverse(x))>>
         @@ f1 :> <<var(x, one), var(z, copy(y))>> @@ f2 :> <<var(x, zero)>> @@ p2 :> <<var(x, zero)>>
OneEmpty == p1 :> <<var(x, one)>> @@ l1 :> <<var(y, inverse(x))>>
         @@ f1 :> <<var(x, zero)>> @@ f2 :> <<>>
OldFlow  == f1 :> <<var(y, one)>>
NoFlow   == [f \in {} |-> <<>>]
Typed    == {inverse(x)}
BothPages == {Flow, Line}
=============================================================================
