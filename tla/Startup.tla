------------------------------ MODULE Startup -------------------------------
(***************************************************************************)
(* How the three programs find each other: main and Initialize of the      *)
(* authentication server (src/Server2), the gateway (src/Server) and the   *)
(* client (src/src).  Each goes through its steps once, ends at the first  *)
(* that fails, and never tries again; a restart is another process.  What  *)
(* they do once they accept or talk is in the other modules.               *)
(***************************************************************************)
EXTENDS Integers, Sequences

CONSTANTS
  Auths, Gateways, Clients,  \* the processes there may be
  Statements,                \* how many statements main prepares
  None

ASSUME StartupAssumption ==
  /\ Statements \in Nat \ {0}
  /\ None \notin Auths \cup Gateways
  /\ Auths \cap Gateways = {} /\ (Auths \cup Gateways) \cap Clients = {}

VARIABLES
  at,         \* at[p]: the step p comes to next, "off" before and "gone" after
  connection, \* connection[a]: MySQLUtil::connection, "open" or never set
  prepared,   \* prepared[a]: the size of statementsList
  link,       \* link[p]: the process p's connect has reached, or None
  accepted    \* accepted[p]: that process has accepted it

startVars == <<at, connection, prepared, link, accepted>>

Processes == Auths \cup Gateways \cup Clients

\* Mutant of Steps: the gateway accepts clients before it connects.
StepsAcceptFirst(p) ==
  CASE p \in Auths    -> <<"database", "prepare", "socket", "bind", "listen", "accept">>
    [] p \in Gateways -> <<"socket", "bind", "listen", "accept", "connect">>
    [] OTHER          -> <<"socket", "connect", "talk">>

\* "socket" is WSAStartup, getaddrinfo and socket.
Steps(p) ==
  CASE p \in Auths    -> <<"database", "prepare", "socket", "bind", "listen", "accept">>
    [] p \in Gateways -> <<"socket", "bind", "listen", "connect", "accept">>
    [] OTHER          -> <<"socket", "connect", "talk">>

Step(p, i) == at[p] = Steps(p)[i]
Past(p, s) == \E i, j \in 1 .. Len(Steps(p)) : i < j /\ Steps(p)[i] = s /\ Step(p, j)

GoesOn(p, s) ==
  \E i \in 1 .. Len(Steps(p)) - 1 :
    /\ Steps(p)[i] = s /\ Step(p, i)
    /\ at' = [at EXCEPT ![p] = Steps(p)[i + 1]]

Ends(p) == at' = [at EXCEPT ![p] = "gone"]

StartInit ==
  /\ at = [p \in Processes |-> "off"]
  /\ connection = [a \in Auths |-> None]
  /\ prepared = [a \in Auths |-> 0]
  /\ link = [p \in Gateways \cup Clients |-> None]
  /\ accepted = [p \in Gateways \cup Clients |-> FALSE]

Start(p) ==
  /\ at[p] = "off" /\ at' = [at EXCEPT ![p] = Steps(p)[1]]
  /\ UNCHANGED <<connection, prepared, link, accepted>>
-----------------------------------------------------------------------------
(* The database of the authentication server.                              *)

\* The exception of a failed connect is caught, and the rest is the same.
ConnectToDatabase(a) ==
  /\ GoesOn(a, "database")
  /\ \E c \in {"open", None} : connection' = [connection EXCEPT ![a] = c]
  /\ UNCHANGED <<prepared, link, accepted>>

\* Mutant of AddPreparedStatement: it is called once too often.
AddPreparedPast(a) ==
  /\ at[a] = "prepare"
  /\ \/ /\ connection[a] = "open"
        /\ IF prepared[a] < Statements THEN UNCHANGED at ELSE GoesOn(a, "prepare")
        /\ prepared' = [prepared EXCEPT ![a] = @ + 1]
     \/ Ends(a) /\ UNCHANGED prepared
  /\ UNCHANGED <<connection, link, accepted>>

\* main prepares its statements one by one.  Nothing catches what a failure
\* throws, and with no connection the pointer is one that was never set.
AddPreparedStatement(a) ==
  /\ at[a] = "prepare"
  /\ \/ /\ connection[a] = "open"
        /\ IF prepared[a] + 1 < Statements THEN UNCHANGED at ELSE GoesOn(a, "prepare")
        /\ prepared' = [prepared EXCEPT ![a] = @ + 1]
     \/ Ends(a) /\ UNCHANGED prepared
  /\ UNCHANGED <<connection, link, accepted>>
-----------------------------------------------------------------------------
(* Sockets.  Every call may fail, and then Initialize returns.             *)

Peers(p) ==
  CASE p \in Auths -> Auths [] p \in Gateways -> Gateways [] OTHER -> Clients

\* A port has one owner: 5001 among the authentication servers, 27015 among
\* the gateways.
CallSocket(p) ==
  /\ \/ GoesOn(p, "socket")
     \/ GoesOn(p, "bind") /\ ~\E q \in Peers(p) : Past(q, "bind")
     \/ GoesOn(p, "listen")
     \/ at[p] \in {"socket", "bind", "listen"} /\ Ends(p)
  /\ UNCHANGED <<connection, prepared, link, accepted>>

Servers(p) == IF p \in Gateways THEN Auths ELSE Gateways

\* Mutant of Connect: a refused connect is tried again.
ConnectRetries(p) ==
  /\ at[p] = "connect"
  /\ \E q \in Servers(p) :
       Past(q, "listen") /\ GoesOn(p, "connect") /\ link' = [link EXCEPT ![p] = q]
  /\ UNCHANGED <<connection, prepared, accepted>>

\* A listening server need not be accepting yet for connect to succeed.
Connect(p) ==
  /\ at[p] = "connect"
  /\ \/ \E q \in Servers(p) :
          Past(q, "listen") /\ GoesOn(p, "connect") /\ link' = [link EXCEPT ![p] = q]
     \/ Ends(p) /\ UNCHANGED link
  /\ UNCHANGED <<connection, prepared, accepted>>

\* AcceptClientConnections, for ever; a failed accept is tried again.
Accept(q, p) ==
  /\ at[q] = "accept" /\ link[p] = q /\ at[p] # "gone" /\ ~accepted[p]
  /\ accepted' = [accepted EXCEPT ![p] = TRUE]
  /\ UNCHANGED <<at, connection, prepared, link>>

\* The process is ended from outside, or the user of a client ends its pause.
Quit(p) ==
  /\ at[p] \notin {"off", "gone"} /\ Ends(p)
  /\ UNCHANGED <<connection, prepared, link, accepted>>
-----------------------------------------------------------------------------
Proceeds(p) ==
  \/ p \in Auths /\ (ConnectToDatabase(p) \/ AddPreparedStatement(p))
  \/ CallSocket(p)
  \/ p \notin Auths /\ Connect(p)

StartNext ==
  \/ \E p \in Processes : Start(p) \/ Proceeds(p) \/ Quit(p)
  \/ \E p \in Gateways \cup Clients : \E q \in Servers(p) : Accept(q, p)

StartSpec == StartInit /\ [][StartNext]_startVars

\* No call of the start-up waits; accept is called again and again.
StartFairness ==
  /\ \A p \in Processes : WF_startVars(Proceeds(p))
  /\ \A p \in Gateways \cup Clients : \A q \in Servers(p) : WF_startVars(Accept(q, p))

FairStart == StartSpec /\ StartFairness
-----------------------------------------------------------------------------
StartTypeOK ==
  /\ at \in [Processes -> {"off", "database", "prepare", "socket", "bind", "listen", "connect",
                          "accept", "talk", "gone"}]
  /\ connection \in [Auths -> {"open", None}]
  /\ prepared \in [Auths -> 0 .. Statements]
  /\ link \in [Gateways \cup Clients -> Auths \cup Gateways \cup {None}]
  /\ accepted \in [Gateways \cup Clients -> BOOLEAN]

Prepared(a) == connection[a] = "open" /\ prepared[a] = Statements

\* A client whose connection a gateway has accepted has an authentication
\* server with an open database and all its statements behind that gateway,
\* though a failed connect to the database says it succeeded
\* (MySQLUtil.cpp:47) and the gateway listens before it connects
\* (Server.cpp:70, 112).
AcceptedHasADatabase ==
  \A c \in Clients : accepted[c] =>
    LET g == link[c] IN g # None /\ link[g] # None /\ Prepared(link[g])

\* A client that got through to a listening gateway is accepted, or the
\* gateway has ended: it does not wait for a gateway that waits for an
\* authentication server (Server.cpp:112).
ConnectedIsNotLeftWaiting ==
  \A c \in Clients : \A g \in Gateways :
    link[c] = g ~> accepted[c] \/ at[g] = "gone" \/ at[c] = "gone"
=============================================================================
