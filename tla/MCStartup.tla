----------------------------- MODULE MCStartup ------------------------------
(* Model values for the run of Startup.                                    *)
EXTENDS Startup

CONSTANTS a1, a2, g1, g2, k1

TwoAuths    == {a1, a2}
TwoGateways == {g1, g2}
OneClient   == {k1}
=============================================================================
