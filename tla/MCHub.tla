-------------------------------- MODULE MCHub --------------------------------
(***************************************************************************)
(* Hub on small instances: two or three connections, one or two canvases.  *)
(***************************************************************************)
EXTENDS Hub, TLC

CONSTANTS c1, c2, c3, u1, u2

\* The second user has two connections, as from two tabs of a browser.
TwoTabs == c1 :> u1 @@ c2 :> u2 @@ c3 :> u2

OneUser == c1 :> u1

TwoUsers == c1 :> u1 @@ c2 :> u2

\* Addresses and canvases are interchangeable.
Symmetry == Permutations(RoomId) \cup Permutations(Canvas)
=============================================================================
