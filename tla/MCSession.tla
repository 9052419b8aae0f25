------------------------------ MODULE MCSession ------------------------------
(***************************************************************************)
(* Session on small instances: the owner, two others or a second tab of    *)
(* the owner, and one element, whose writes carry versions 1 and 2.        *)
(***************************************************************************)
EXTENDS Session, TLC

CONSTANTS c1, c2, c3, u1, u2, u3, e1, k1, a, b

OneEach == c1 :> u1 @@ c2 :> u2 @@ c3 :> u3

\* The owner has two connections.
TwoTabs == c1 :> u1 @@ c2 :> u1 @@ c3 :> u2

Write(v, p) == [elem |-> e1, version |-> v, props |-> p]
First == Write(1, k1 :> a)
Second == Write(2, k1 :> b)
TwoWrites == {First, Second}
TwoWriters == c1 :> {First} @@ c2 :> {Second} @@ c3 :> {Second}

EmptyText == Blank
Texts0 == {EmptyText}
=============================================================================
