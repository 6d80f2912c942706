------------------------------ MODULE Session ------------------------------
(***************************************************************************)
(* The whole system from keyboard to screen: clients (src/Client.cpp), the *)
(* gateway's bookkeeping and the Registry in place of the authentication   *)
(* server.  A client has a thread that reads commands and sends them,      *)
(* without ever waiting, and a thread that prints what comes back; nothing *)
(* in an answer or on the screen says which command it belongs to.         *)
(*                                                                         *)
(* The gateway handles a frame in one step here (Gateway has the races     *)
(* inside it), frames arrive whole (Framing has the rest), and requests    *)
(* reach the authentication server over one connection, Line, in order.    *)
(***************************************************************************)
EXTENDS Registry, FiniteSets

CONSTANTS
  Clients,
  Line,         \* the gateway's connection to the authentication server
  Empty,        \* the empty string: an email and a password never typed
  MaxCommands,  \* bound on the commands all users type
  StartIds      \* values the uninitialised clientRequestId may start with

ASSUME SessionAssumption ==
  /\ IsFiniteSet(Clients) /\ Line \in Threads /\ Empty \in Emails \cap Passwords
  /\ MaxCommands \in Nat /\ StartIds \subseteq Int

VARIABLES
  typed,     \* typed[c]: the commands of c, and how many texts it had then seen
  taken,     \* taken[c]: how many of them the gateway has handled
  requestId, \* requestId[c]: Client::requestId in the gateway
  counter,   \* clientRequestId
  forwarded, \* the requests passed on; answers[k] answers forwarded[k]
  routed,    \* how many answers the gateway has taken
  told,      \* told[c]: the answers sent to c, as positions in answers
  shown,     \* shown[c]: how many of them c has printed
  stopped,   \* stopped[c]: a send has failed and c reads no more commands
  lineUp,    \* the connection to the authentication server is alive
  gatewayUp  \* the gateway runs

clientVars   == <<typed, shown, stopped>>
gatewayVars  == <<taken, requestId, counter, forwarded, routed, told>>
faultVars    == <<lineUp, gatewayUp>>
registryVars == <<accounts, pending, answers>>
sessionVars  == <<clientVars, gatewayVars, faultVars, registryVars>>

\* What is typed after any other word is of no matter.
Commands ==
  [word : {"REGISTER", "AUTHENTICATE"}, email : Emails \ {Empty}, pw : Passwords \ {Empty}]
    \cup [word : {"other"}, email : {Empty}, pw : {Empty}]

\* Mutant of Frame: the command of an AUTHENTICATE is left at its default.
FrameDefault(cmd) ==
  IF cmd.word = "other" THEN None
  ELSE [kind |-> "create", email |-> cmd.email, pw |-> cmd.pw]

\* What the client sends: for any other word an empty string, here None.
Frame(cmd) ==
  CASE cmd.word = "REGISTER"     -> [kind |-> "create", email |-> cmd.email, pw |-> cmd.pw]
    [] cmd.word = "AUTHENTICATE" -> [kind |-> "authenticate", email |-> cmd.email, pw |-> cmd.pw]
    [] OTHER                     -> None

\* ParseFromString: every field an empty string does not set has its default,
\* and the default command is CREATE_ACCOUNT_WEB.
Parsed(frame) ==
  IF frame = None THEN [kind |-> "create", email |-> Empty, pw |-> Empty] ELSE frame

RequestOf(c, n) == Parsed(Frame(typed[c][n]))

\* The places of commands, and those typed so far.
Keystrokes == Clients \X (1 .. MaxCommands)
Typed(s)   == s[2] <= Len(typed[s[1]])

SessionInit ==
  /\ Init
  /\ typed = [c \in Clients |-> <<>>]
  /\ taken = [c \in Clients |-> 0]
  /\ requestId = [c \in Clients |-> 0]
  /\ counter \in StartIds
  /\ forwarded = <<>> /\ routed = 0
  /\ told = [c \in Clients |-> <<>>]
  /\ shown = [c \in Clients |-> 0]
  /\ stopped = [c \in Clients |-> FALSE]
  /\ lineUp = TRUE /\ gatewayUp = TRUE
-----------------------------------------------------------------------------
(* A client.                                                               *)

\* SendToServer: prompt, read, send.  A first send after the gateway is gone
\* may still succeed; nobody receives it.
Type(c, cmd) ==
  /\ ~stopped[c] /\ Cardinality({s \in Keystrokes : Typed(s)}) < MaxCommands
  /\ typed' = [typed EXCEPT ![c] =
       Append(@, [word |-> cmd.word, email |-> cmd.email, pw |-> cmd.pw, seen |-> shown[c]])]
  /\ UNCHANGED <<shown, stopped, gatewayVars, faultVars, registryVars>>

\* The loop is left; the receive thread goes on until the user ends the pause
\* and with it the process.
SendFails(c) ==
  /\ ~stopped[c] /\ ~gatewayUp
  /\ stopped' = [stopped EXCEPT ![c] = TRUE]
  /\ UNCHANGED <<typed, shown, gatewayVars, faultVars, registryVars>>

\* ReceiveMessages prints the next answer.
Show(c) ==
  /\ shown[c] < Len(told[c])
  /\ shown' = [shown EXCEPT ![c] = @ + 1]
  /\ UNCHANGED <<typed, stopped, gatewayVars, faultVars, registryVars>>

\* Mutant of Printed: the two cases of a registration change places.
PrintedSwapped(answer) ==
  CASE answer = "created"       -> {"FAILED TO REGISTER"}
    [] answer = "exists"        -> {"ACCOUNT REGISTERED SUCCESSFULLY"}
    [] answer = "authenticated" -> {"ACCOUNT AUTHENTICATE SUCCESS"}
    [] answer = "invalid"       -> {"ACCOUNT AUTHENTICATED FAILED"}

Printed(answer) ==
  CASE answer = "created"       -> {"ACCOUNT REGISTERED SUCCESSFULLY"}
    [] answer = "exists"        -> {"FAILED TO REGISTER", "CREATED ACCOUNT SUCCESFULLY"}
    [] answer = "authenticated" -> {"ACCOUNT AUTHENTICATE SUCCESS"}
    [] answer = "invalid"       -> {"ACCOUNT AUTHENTICATED FAILED"}
-----------------------------------------------------------------------------
(* The gateway.                                                            *)

\* Mutant of Handle: the id is not noted in the Client.
HandleUnnoted(c) ==
  /\ gatewayUp /\ taken[c] < Len(typed[c])
  /\ taken' = [taken EXCEPT ![c] = @ + 1]
  /\ counter' = counter + 1
  /\ forwarded' = Append(forwarded, [from |-> c, nr |-> taken[c] + 1, id |-> counter])
  /\ UNCHANGED <<requestId, routed, told, clientVars, faultVars, registryVars>>

\* Receive, stamp, remember, forward, count.  A send over a dead connection
\* fails, and nobody looks.
Handle(c) ==
  /\ gatewayUp /\ taken[c] < Len(typed[c])
  /\ taken' = [taken EXCEPT ![c] = @ + 1]
  /\ requestId' = [requestId EXCEPT ![c] = counter]
  /\ counter' = counter + 1
  /\ forwarded' = IF lineUp
                  THEN Append(forwarded, [from |-> c, nr |-> taken[c] + 1, id |-> counter])
                  ELSE forwarded
  /\ UNCHANGED <<routed, told, clientVars, faultVars, registryVars>>

\* Mutant of Asker: whoever has asked before is a match.
AskerAny(id) == {c \in Clients : requestId[c] # 0}

Asker(id) == {c \in Clients : requestId[c] = id}

\* The answer goes to the first Client that carries its id, in whatever
\* order they were accepted, or is dropped.
Route ==
  /\ gatewayUp /\ routed < Len(answers)
  /\ routed' = routed + 1
  /\ LET asker == Asker(forwarded[routed + 1].id) IN
     \/ asker = {} /\ UNCHANGED told
     \/ \E c \in asker : told' = [told EXCEPT ![c] = Append(@, routed + 1)]
  /\ UNCHANGED <<taken, requestId, counter, forwarded, clientVars, faultVars, registryVars>>
-----------------------------------------------------------------------------
(* The authentication server takes the next request, and answers it.       *)

\* Mutant of Take: the newest request is served first.
TakeNewest ==
  /\ Len(answers) < Len(forwarded)
  /\ LET f == forwarded[Len(forwarded)] IN Ask(Line, RequestOf(f.from, f.nr))
  /\ UNCHANGED <<clientVars, gatewayVars, faultVars>>

Take ==
  /\ Len(answers) < Len(forwarded)
  /\ LET f == forwarded[Len(answers) + 1] IN Ask(Line, RequestOf(f.from, f.nr))
  /\ UNCHANGED <<clientVars, gatewayVars, faultVars>>

Decide ==
  /\ (\E user \in Users : Create(Line, user))
       \/ RefuseDuplicate(Line) \/ Login(Line) \/ RefuseLogin(Line)
  /\ UNCHANGED <<clientVars, gatewayVars, faultVars>>

LineDown ==
  /\ lineUp /\ lineUp' = FALSE
  /\ UNCHANGED <<gatewayUp, clientVars, gatewayVars, registryVars>>

GatewayDown ==
  /\ gatewayUp /\ gatewayUp' = FALSE
  /\ UNCHANGED <<lineUp, clientVars, gatewayVars, registryVars>>
-----------------------------------------------------------------------------
SessionNext ==
  \/ \E c \in Clients, cmd \in Commands : Type(c, cmd)
  \/ \E c \in Clients : SendFails(c) \/ Show(c) \/ Handle(c)
  \/ Route \/ Take \/ Decide \/ LineDown \/ GatewayDown

SessionSpec == SessionInit /\ [][SessionNext]_sessionVars

\* Threads of running processes run; nobody has to type.
SessionFairness ==
  /\ \A c \in Clients : WF_sessionVars(Show(c)) /\ WF_sessionVars(Handle(c))
  /\ WF_sessionVars(Route)
  /\ WF_sessionVars(lineUp /\ (Take \/ Decide))

FairSession == SessionSpec /\ SessionFairness
-----------------------------------------------------------------------------
\* The command answers[k] is an answer to, and whether it could be mistaken.
IsAbout(k, c, n) == forwarded[k].from = c /\ forwarded[k].nr = n
ZeroId == \E k \in 1 .. Len(forwarded) : forwarded[k].id = 0

\* Every text on a screen answers a command typed there, in the order of the
\* commands and each once.  Only an answer with id 0 may go to a client that
\* has not asked yet (Server.cpp:309, 359).
ScreenFollowsKeyboard ==
  \A c \in Clients :
    /\ \A i \in 1 .. Len(told[c]) : forwarded[told[c][i]].from = c \/ forwarded[told[c][i]].id = 0
    /\ \A i, j \in 1 .. Len(told[c]) :
         i < j => forwarded[told[c][i]].nr < forwarded[told[c][j]].nr \/ ZeroId

\* c typed every command only after it had been told of those before.
Patient(c) == \A n \in 1 .. Len(typed[c]) : typed[c][n].seen = n - 1

\* If the user waits for a text before every command, as no code makes him
\* (Client.cpp:229-284), the n-th success on the screen is about the n-th
\* command, and true: the account is there and has the password typed.
SuccessIsTrue ==
  \A c \in Clients : \A i \in 1 .. shown[c] :
    LET success == {"ACCOUNT REGISTERED SUCCESSFULLY", "ACCOUNT AUTHENTICATE SUCCESS"}
        request == RequestOf(c, i) IN
    /\ i <= Len(typed[c]) /\ Patient(c)
    /\ Printed(answers[told[c][i]].answer) \cap success # {}
    => (accounts[request.email] # None /\ accounts[request.email].pw = request.pw) \/ ZeroId

\* Every account was asked for by a REGISTER with its email and password,
\* but for the one of the empty email: any other word creates that
\* (Client.cpp:255, Server.cpp:250).
AccountsWereTyped ==
  \A e \in Emails : accounts[e] # None =>
    \E c \in Clients : \E n \in 1 .. Len(typed[c]) :
      IF e = Empty THEN typed[c][n].word = "other"
      ELSE typed[c][n].word = "REGISTER" /\ typed[c][n].email = e
             /\ typed[c][n].pw = accounts[e].pw

\* What the prompt ENTER COMMAND REGISTER OR AUTHENTICATE (Client.cpp:234)
\* says: an account comes from a REGISTER.
OnlyRegisterCreates ==
  \A e \in Emails : accounts[e] # None =>
    \E c \in Clients : \E n \in 1 .. Len(typed[c]) :
      typed[c][n].word = "REGISTER" /\ typed[c][n].email = e

\* Every command is answered on the screen of its client, unless the client
\* types the next one first, the connection to the authentication server or
\* the gateway is lost (Server.cpp:352: nobody is told), or an id is 0.
CommandsAreAnswered ==
  \A c \in Clients : \A n \in 1 .. MaxCommands :
    Len(typed[c]) >= n ~>
      \/ \E i \in 1 .. shown[c] : IsAbout(told[c][i], c, n)
      \/ Len(typed[c]) > n \/ ~lineUp \/ ~gatewayUp \/ ZeroId
-----------------------------------------------------------------------------
(* Seen from the keyboards the whole is a Registry again, in which every   *)
(* command is a caller of its own.                                         *)

Answered(c, n) == \E k \in 1 .. Len(answers) : IsAbout(k, c, n)

asked ==
  [s \in Keystrokes |->
     LET c == s[1]
         n == s[2] IN
     IF n <= Len(typed[c]) /\ ~Answered(c, n) THEN RequestOf(c, n) ELSE None]

Desk == INSTANCE Registry
  WITH Threads <- Keystrokes, pending <- asked

\* No answer is given but to a command of some client, once, and as the
\* register has it, however commands and answers overtake each other.
ImplementsDesk == Desk!Spec
=============================================================================
