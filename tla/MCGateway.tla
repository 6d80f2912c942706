----------------------------- MODULE MCGateway -----------------------------
(* Model values and symmetry for the runs of Gateway.                      *)
EXTENDS Gateway, TLC

CONSTANTS c1, c2, c3, h1, h2

OneConn    == {c1}
TwoConns   == {c1, c2}
ThreeConns == {c1, c2, c3}
OneHandle  == {h1}
TwoHandles == {h1, h2}

Two       == c1 :> 2
TwoNone   == c1 :> 2 @@ c2 :> 0
TwoAndOne == c1 :> 2 @@ c2 :> 1
\* Enough to reset c1 inside a frame, to lose c2 to the second closesocket,
\* and to let two threads read the two frames of c3.
OneNoneTwo == c1 :> 1 @@ c2 :> 0 @@ c3 :> 2

NoFaults  == {}
ShortOnly == {"short"}
AllFaults == {"short", "auth"}

UpToZero == {-1, 0}
FromOne  == {1}

HandlesAlike == Permutations(TwoHandles)
=============================================================================
