---------------------------- MODULE MCAuthServer ----------------------------
(* Model values and bounds for the runs of AuthServer and AuthRefinement.  *)
EXTENDS AuthRefinement, TLC

CONSTANTS t1, t2, e1, e2, p1, p2

OneThread    == {t1}
TwoThreads   == {t1, t2}
OneEmail     == {e1}
TwoEmails    == {e1, e2}
OnePassword  == {p1}
TwoPasswords == {p1, p2}

OneEach   == t1 :> 1 @@ t2 :> 1
TwoAndOne == t1 :> 2 @@ t2 :> 1
Three     == t1 :> 3

NoFaults  == {}
SqlFaults == {"sql"}
\* What an uninitialised userId may hold: an id in use, or none.
StackJunk == {1, 77}

ThreeUsers == 1 .. 3

Alike == Permutations(TwoEmails) \cup Permutations(TwoPasswords)
=============================================================================
