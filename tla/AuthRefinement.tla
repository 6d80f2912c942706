--------------------------- MODULE AuthRefinement ---------------------------
(***************************************************************************)
(* With a single gateway connection, and as long as nothing fails, the     *)
(* steps of AuthServer amount to those of the Registry: a row of web_auth  *)
(* counts as an account from the moment its creation is answered.          *)
(***************************************************************************)
EXTENDS AuthServer

CONSTANT Users  \* the user ids AUTO_INCREMENT can reach

ASSUME NoAccountAssumption == None \notin [pw : Passwords, user : Users]

\* The registration of e has inserted the row and not answered yet.
Unanswered(e) ==
  \E t \in Threads :
    /\ request[t] # None /\ request[t].kind = "create" /\ request[t].email = e
    /\ Registering(e) \/ verdict[t] = "created"

accountsBar ==
  [e \in Emails |-> IF webAuth[e] = None \/ Unanswered(e) THEN None
                    ELSE [pw |-> webAuth[e].hash.pw, user |-> webAuth[e].user]]

answersBar ==
  [k \in 1 .. Len(replies) |-> [request |-> replies[k].request,
                                answer |-> replies[k].answer, user |-> replies[k].user]]

Abstract == INSTANCE Registry
  WITH accounts <- accountsBar, pending <- request, answers <- answersBar

\* The server of one connection does what the Registry promises.
ImplementsRegistry == Abstract!Spec
=============================================================================
