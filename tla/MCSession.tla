----------------------------- MODULE MCSession ------------------------------
(* Model values and bounds for the runs of Session.                        *)
EXTENDS Session, TLC

CONSTANTS k1, k2, t, e1, empty, p1, p2

TwoClients == {k1, k2}
OneLine    == {t}
TheEmails    == {e1, empty}
ThePasswords == {p1, p2, empty}

ZeroOrOne == {0, 1}
TwoUsers  == 1 .. 2
=============================================================================
