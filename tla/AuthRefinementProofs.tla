------------------------ MODULE AuthRefinementProofs ------------------------
(***************************************************************************)
(* With one gateway connection, and as long as nothing fails, the          *)
(* authentication server implements the Registry.                          *)
(***************************************************************************)
EXTENDS AuthRefinement, AuthServerProofs

\* One connection, and neither a failing statement nor a crash: what the
\* Registry has no answer for.  A registration takes at most one user id.
Undisturbed ==
  /\ \E t : Threads = {t}
  /\ Faults = {} /\ MaxCrashes = 0
  /\ \A t \in Threads : 1 .. MaxRequests[t] \subseteq Users

\* What a connection that is alone can rely on besides.
AloneInv ==
  /\ mixed = {} /\ garbled = {} /\ failed = {} /\ crashes = 0
  /\ \A t \in Threads :
       /\ users <= served[t] /\ served[t] <= MaxRequests[t]
       /\ pc[t] \in {"hash", "addUser"} \cup Hashed => users < served[t]
       /\ verdict[t] # "internal"
       /\ verdict[t] = "exists" => request[t].kind = "create"
       /\ verdict[t] \in {"authenticated", "invalid"} => request[t].kind = "authenticate"
       /\ verdict[t] = "authenticated" => userId[t] = webAuth[Email(t)].user
       /\ verdict[t] = "invalid" => ~Opens(Email(t), request[t].pw)
  /\ \A e \in Emails : webAuth[e] # None =>
       webAuth[e].hash.salt = webAuth[e].salt /\ webAuth[e].hash.pw \in Passwords
-----------------------------------------------------------------------------

\* A connection that is alone meets nobody; what it answers follows from the row
\* of its own email.
LEMMA AloneServe ==
  ASSUME Undisturbed, AuthInv, AloneInv, NEW t \in Threads, Serve(t)
  PROVE  AloneInv'
<1>0. /\ Types /\ StepInv /\ BoundInv /\ Threads = {t} /\ ~SqlError
      /\ \A step : Disturbed(t, step) = {}
  BY DEF AuthInv, Undisturbed, SqlError, Disturbed
<1>1. /\ served' = served /\ pc[t] # "idle" /\ served[t] \in Nat /\ users \in Nat
      /\ pc'[t] # "idle" => request'[t] = request[t]
  BY <1>0, Frame DEF Types
<1>2. /\ mixed = {} /\ garbled = {} /\ failed = {} /\ crashes = 0
      /\ users <= served[t] /\ served[t] <= MaxRequests[t]
      /\ pc[t] \in {"hash", "addUser"} \cup Hashed => users < served[t]
  BY DEF AloneInv
<1> USE DEF Serve, Register, Authenticate, HashBegin, HashEnd, BindEmail, BindSalt, BindHash,
           Insert, InsertDuplicate, InsertError, AddUser, LastId, AddUserError, BindUser,
           BindUserEmail, Update, BindLogin, SelectValid, SelectInvalid, SelectError,
           BindTouch, BindCreation, Touch, Creation, TouchError, Reply, Goto,
           localVars, bindVars, dbVars, histVars
<1>3. mixed' = {} /\ crashes' = 0
  BY <1>0, <1>2 DEF Enter
<1>4. garbled' = {}
  BY <1>0, <1>2
<1>5. failed' = {}
  BY <1>0, <1>2
<1>6. pc'[t] \in {"hash", "addUser"} \cup Hashed => users' = users /\ users < served[t]
  BY <1>0, <1>2 DEF Types, Hashed
<1>7. users' <= served[t]
  BY <1>0, <1>1, <1>2
<1>8. verdict'[t] # "internal"
  BY <1>0, NothingAssumption DEF AloneInv, Types, Verdicts
<1>9. verdict'[t] = "exists" => request'[t].kind = "create"
  BY <1>0, NothingAssumption DEF AloneInv, Types, Verdicts, StepInv, Creator, Hashed
<1>10. verdict'[t] \in {"authenticated", "invalid"} => request'[t].kind = "authenticate"
  BY <1>0, NothingAssumption DEF AloneInv, Types, Verdicts, StepInv, Asker
<1> HIDE DEF Serve, Register, Authenticate, HashBegin, HashEnd, BindEmail, BindSalt, BindHash,
           Insert, InsertDuplicate, InsertError, AddUser, LastId, AddUserError, BindUser,
           BindUserEmail, Update, BindLogin, SelectValid, SelectInvalid, SelectError,
           BindTouch, BindCreation, Touch, Creation, TouchError, Reply, Goto,
           localVars, bindVars, dbVars, histVars
<1>11. ASSUME verdict'[t] = "authenticated"
       PROVE  userId'[t] = webAuth'[Email(t)'].user
  <2>1. pc'[t] # "idle" /\ pc[t] # "reply" /\ Email(t)' = Email(t)
    <3>1. ASSUME Reply(t) PROVE FALSE
      BY <3>1, <1>0, <1>11, NothingAssumption DEF Verdicts, Reply, Types
    <3> QED BY <3>1, <1>0, <1>1, Moves DEF Email
  <2>2. CASE pc[t] = "select"
    BY <2>1, <2>2, <1>0, <1>2, <1>11, Moves DEF BoundInv
  <2>3. CASE pc[t] # "select"
    <3>1. verdict[t] = "authenticated"
      BY <2>1, <2>3, <1>0, <1>11, Moves
    <3>2. userId' = userId /\ webAuth' = webAuth
      BY <2>1, <3>1, <1>0, VerdictAt, Moves
    <3> QED BY <2>1, <3>1, <3>2 DEF AloneInv
  <2> QED BY <2>2, <2>3
<1>12. ASSUME verdict'[t] = "invalid"
       PROVE  ~Opens(Email(t), request[t].pw)'
  <2>1. SelectInvalid(t)
    <3>1. ASSUME Reply(t) PROVE FALSE
      BY <3>1, <1>0, <1>12, NothingAssumption DEF Verdicts, Reply, Types
    <3> QED BY <3>1, <1>0, <1>12, Moves, VerdictAt
  <2>2. webAuth' = webAuth /\ request' = request /\ login = Email(t)
    BY <2>1, <1>0, <1>2 DEF SelectInvalid, Goto, dbVars, BoundInv
  <2> QED BY <2>1, <2>2 DEF SelectInvalid, Opens, Email
<1>13. ASSUME NEW e \in Emails, webAuth'[e] # None
       PROVE  webAuth'[e].hash.salt = webAuth'[e].salt /\ webAuth'[e].hash.pw \in Passwords
  <2>1. CASE webAuth'[e] = webAuth[e]
    BY <2>1, <1>13 DEF AloneInv
  <2>2. CASE Inserted(t, e)
    <3>1. request[t].pw \in Passwords
      BY <1>0, <1>1 DEF Types, StepInv, Requests
    <3>2. webAuth'[e] = [salt |-> Salt(t), hash |-> HashOf(t), user |-> Placeholder]
      BY <2>2, <1>0, <1>2 DEF Inserted, NewRow, BoundInv, Hashed
    <3> QED BY <3>1, <3>2 DEF HashOf
  <2>3. CASE Updated(t, e)
    <3>1. webAuth[e] \in Rows
      BY <2>3, <1>0 DEF Types, Updated
    <3>2. webAuth'[e].hash = webAuth[e].hash /\ webAuth'[e].salt = webAuth[e].salt
      BY <2>3, <3>1 DEF Updated, Rows
    <3> QED BY <2>3, <3>2 DEF AloneInv, Updated
  <2> QED BY <2>1, <2>2, <2>3, <1>0, RowSteps
<1>14. ASSUME NEW d \in Threads PROVE d = t
  BY <1>0
<1> QED
  BY <1>1, <1>2, <1>3, <1>4, <1>5, <1>6, <1>7, <1>8, <1>9, <1>10, <1>11, <1>12, <1>13, <1>14
     DEF AloneInv


\* Each request brings at most one user.
LEMMA AloneTake ==
  ASSUME Undisturbed, AuthInv, AloneInv, NEW t \in Threads, NEW r \in Requests, Take(t, r)
  PROVE  AloneInv'
<1>0. /\ Threads = {t} /\ served[t] \in Nat /\ users \in Nat /\ MaxRequests[t] \in Nat
      /\ verdict[t] = None
  BY AuthServerAssumption DEF AuthInv, Types, StepInv, Undisturbed, Take, Goto
<1>1. /\ UNCHANGED <<webAuth, users, userId, verdict, crashes, mixed, garbled, failed>>
      /\ served'[t] = served[t] + 1 /\ served[t] < MaxRequests[t]
  BY DEF AuthInv, Types, Take, dbVars, histVars
<1>2. served'[t] <= MaxRequests[t] /\ users < served'[t]
  BY <1>0, <1>1 DEF AloneInv
<1> QED BY <1>0, <1>1, <1>2, NothingAssumption DEF AloneInv, Verdicts

LEMMA AloneInvariant == ASSUME Undisturbed PROVE Spec => [](AuthInv /\ AloneInv)
<1>1. Init => AloneInv
  <2> SUFFICES ASSUME Init PROVE AloneInv
    OBVIOUS
  <2>1. \A t \in Threads : 0 <= MaxRequests[t]
    BY AuthServerAssumption
  <2> QED BY <2>1, NothingAssumption DEF Init, AloneInv, Verdicts, Hashed
<1>2. AuthInv /\ AloneInv /\ [Next]_vars => AloneInv'
  <2> SUFFICES ASSUME AuthInv, AloneInv, [Next]_vars PROVE AloneInv'
    OBVIOUS
  <2>1. CASE \E t \in Threads : Serve(t)
    BY <2>1, AloneServe
  <2>2. CASE \E t \in Threads, r \in Requests : Take(t, r)
    BY <2>2, AloneTake
  <2>3. CASE Crash
    BY <2>3 DEF Crash, AloneInv, Undisturbed
  <2>4. CASE UNCHANGED vars
    BY <2>4 DEF AloneInv, vars, localVars, dbVars, histVars, Email, Opens
  <2> QED BY <2>1, <2>2, <2>3, <2>4 DEF Next
<1> QED BY <1>1, <1>2, AuthInvariant, PTL DEF Spec


\* The row of an account whose registration is through, as an account of the Registry.
LEMMA AccountIs ==
  ASSUME Undisturbed, AuthInv, AloneInv, NEW e \in Emails, webAuth[e] # None, ~Registering(e)
  PROVE  /\ webAuth[e].user \in Users /\ webAuth[e].hash.pw \in Passwords
         /\ [pw |-> webAuth[e].hash.pw, user |-> webAuth[e].user] # None
         /\ \A pw \in Passwords : Opens(e, pw) <=> webAuth[e].hash.pw = pw
<1>1. PICK t : Threads = {t}
  BY DEF Undisturbed
<1>2. Settled(e)
  BY DEF Settled, AloneInv
<1>3. webAuth[e].user \in 1 .. users /\ users \in Nat
  BY <1>2 DEF AuthInv, SettledAccountHasOwnUser, Types
<1>4. users <= MaxRequests[t] /\ MaxRequests[t] \in Nat /\ served[t] \in Nat
  BY <1>1, <1>3, AuthServerAssumption DEF AloneInv, AuthInv, Types
<1>5. webAuth[e].user \in Users
  BY <1>1, <1>3, <1>4 DEF Undisturbed
<1>6. webAuth[e].hash.salt = webAuth[e].salt /\ webAuth[e].hash.pw \in Passwords
  BY DEF AloneInv
<1>7. webAuth[e].hash \in Hashes
  BY DEF AuthInv, Types, Rows
<1>8. \A pw \in Passwords : Opens(e, pw) <=> webAuth[e].hash.pw = pw
  BY <1>6, <1>7 DEF Opens, Hashes
<1> QED BY <1>5, <1>6, <1>8, NoAccountAssumption

\* A request changes the register when it is answered, and not before.
LEMMA WorkIsHidden ==
  ASSUME Undisturbed, AuthInv, AloneInv, NEW t \in Threads, Serve(t), ~Reply(t), AuthInv'
  PROVE  UNCHANGED <<accountsBar, request, answersBar>>
<1>0. /\ Types /\ StepInv /\ BoundInv /\ VerdictInv /\ Threads = {t} /\ Types' /\ StepInv'
      /\ mixed = {} /\ failed' = {}
  BY AloneServe DEF AuthInv, AloneInv, Undisturbed
<1>1. pc'[t] # "idle" /\ pc[t] # "idle" /\ pc[t] # "reply"
  BY <1>0, Moves, Frame
<1>2. request' = request
  BY <1>0, <1>1, Frame DEF Types
<1>3. answersBar' = answersBar
  BY <1>0, <1>2, Moves DEF answersBar
<1>4. ASSUME NEW e \in Emails, e # Email(t)
      PROVE  webAuth'[e] = webAuth[e] /\ ~Unanswered(e) /\ ~Unanswered(e)'
  <2>1. webAuth'[e] = webAuth[e]
    BY <1>0, <1>4, RowUser
  <2>2. ~Unanswered(e) /\ ~Unanswered(e)'
    BY <1>0, <1>2, <1>4 DEF Unanswered, Email
  <2> QED BY <2>1, <2>2
<1>5. ASSUME NEW e \in Emails, e = Email(t)
      PROVE  \/ webAuth[e] = None /\ (webAuth'[e] = None \/ Unanswered(e)')
             \/ Unanswered(e) /\ Unanswered(e)'
             \/ webAuth'[e] = webAuth[e] /\ ~Unanswered(e) /\ ~Unanswered(e)'
  <2>1. /\ Unanswered(e) <=> Registering(e)
        /\ Unanswered(e)' <=> Registering(e)' \/ (verdict'[t] = "created" /\ pc[t] = "update")
    <3>1. verdict[t] # "created"
      BY <1>0, <1>1, VerdictAt
    <3>2. verdict'[t] = "created" => pc[t] = "update" /\ request[t].kind = "create"
      BY <1>0, <1>1, <1>2, <3>1, Moves DEF Update, Goto, StepInv
    <3> QED BY <1>0, <1>1, <1>2, <1>5, <3>1, <3>2 DEF Unanswered, Email, Registering, StepInv
  <2>2. pc[t] = "update" => Registering(e) /\ verdict'[t] = "created"
    BY <1>0, <1>5, RegisteringIs, Moves DEF Rowed, Update, Types
  <2>3. CASE Registering(e)
    BY <2>1, <2>2, <2>3, <1>0, RegisteringSteps
  <2>4. CASE ~Registering(e) /\ Registering(e)'
    BY <2>1, <2>4, <1>0, RegisteringSteps, Moves DEF BoundInv, Span
  <2>5. CASE ~Registering(e) /\ ~Registering(e)'
    <3>1. ~Unanswered(e) /\ ~Unanswered(e)'
      BY <2>1, <2>2, <2>5
    <3>2. ASSUME webAuth'[e] # webAuth[e] PROVE FALSE
      BY <3>2, <2>2, <2>5, <1>0, <1>5, RowUser, RegisteringSteps DEF Inserted, Updated
    <3> QED BY <3>1, <3>2
  <2> QED BY <2>3, <2>4, <2>5
<1> QED BY <1>2, <1>3, <1>4, <1>5 DEF accountsBar


\* A request that is taken is one the Registry is asked for.
LEMMA TakeIsAsk ==
  ASSUME Undisturbed, AuthInv, AloneInv, NEW t \in Threads, NEW r \in Requests, Take(t, r)
  PROVE  Abstract!Ask(t, r)
<1>0. Types /\ StepInv /\ Threads = {t}
  BY DEF AuthInv, Undisturbed
<1>1. /\ pc[t] = "idle" /\ request[t] = None /\ request' = [request EXCEPT ![t] = r]
      /\ pc'[t] \in {"hash", "bindLogin"} /\ verdict'[t] # "created"
      /\ UNCHANGED <<webAuth, replies>>
  BY <1>0, NothingAssumption DEF Take, Goto, StepInv, Types, dbVars, Verdicts
<1>2. \A e : ~Unanswered(e) /\ ~Unanswered(e)'
  BY <1>0, <1>1 DEF Unanswered, Registering
<1>3. accountsBar' = accountsBar
  BY <1>1, <1>2 DEF accountsBar
<1>4. answersBar' = answersBar
  BY <1>1 DEF answersBar
<1> QED BY <1>1, <1>3, <1>4 DEF Abstract!Ask

\* An answer that is sent is one the Registry gives, at that moment.
LEMMA ReplyIsAnswer ==
  ASSUME Undisturbed, AuthInv, AloneInv, NEW t \in Threads, Reply(t)
  PROVE  \/ \E user \in Users : Abstract!Create(t, user)
         \/ Abstract!RefuseDuplicate(t) \/ Abstract!Login(t) \/ Abstract!RefuseLogin(t)
<1> DEFINE e == Email(t)
           Said == IF verdict[t] \in {"created", "authenticated"} THEN userId[t] ELSE None
<1>0. /\ Types /\ StepInv /\ VerdictInv /\ UserInv /\ SettledAccountHasOwnUser /\ Threads = {t}
      /\ mixed = {} /\ garbled = {} /\ failed = {}
  BY DEF AuthInv, AloneInv, Undisturbed
<1>1. /\ pc[t] = "reply" /\ request' = [request EXCEPT ![t] = None] /\ webAuth' = webAuth
      /\ replies' = Append(replies, [request |-> request[t], answer |-> verdict[t],
                                     user |-> Said, date |-> date[t]])
      /\ request'[t] = None
  BY <1>0 DEF Reply, Goto, dbVars, Types
<1>2. request[t] \in Requests /\ request[t] # None /\ e \in Emails /\ request[t].pw \in Passwords
  BY <1>0, <1>1 DEF Types, StepInv, Requests, Email
<1>3. verdict[t] \in {"created", "exists", "authenticated", "invalid"}
  BY <1>0, <1>1 DEF Types, StepInv, AloneInv, Verdicts
<1>4. \A f : ~Registering(f) /\ ~Unanswered(f)'
  BY <1>0, <1>1 DEF Registering, Unanswered
<1>5. \A f : Unanswered(f) <=> f = e /\ verdict[t] = "created"
  BY <1>0, <1>2, <1>4 DEF Unanswered, StepInv, Email
<1>6. accountsBar' = [f \in Emails |-> IF webAuth[f] = None THEN None
                        ELSE [pw |-> webAuth[f].hash.pw, user |-> webAuth[f].user]]
  BY <1>1, <1>4 DEF accountsBar
<1>7. accountsBar = [f \in Emails |->
                        IF webAuth[f] = None \/ (f = e /\ verdict[t] = "created") THEN None
                        ELSE [pw |-> webAuth[f].hash.pw, user |-> webAuth[f].user]]
  BY <1>5 DEF accountsBar
<1>8. \A f \in Emails : webAuth[f] # None =>
        /\ webAuth[f].user \in Users
        /\ [pw |-> webAuth[f].hash.pw, user |-> webAuth[f].user] # None
        /\ \A pw \in Passwords : Opens(f, pw) <=> webAuth[f].hash.pw = pw
  BY <1>4, AccountIs
<1>9. answersBar' = Append(answersBar, [request |-> request[t], answer |-> verdict[t],
                                        user |-> Said])
  BY <1>0, <1>1 DEF answersBar, Types
<1>10. Abstract!Answer(t, verdict[t], Said)
  BY <1>1, <1>9 DEF Abstract!Answer
<1>11. CASE verdict[t] = "created"
  <2>1. /\ request[t].kind = "create" /\ webAuth[e] # None /\ Said = webAuth[e].user
        /\ Opens(e, request[t].pw)
    BY <1>0, <1>1, <1>11 DEF StepInv, VerdictInv, UserInv, Clean
  <2>2. accountsBar[e] = None /\ request[t].email = e
    BY <1>2, <1>7, <1>11 DEF Email
  <2>3. Said \notin Abstract!TakenUsers
    <3>1. SUFFICES ASSUME NEW f \in Emails, accountsBar[f] # None, accountsBar[f].user = Said
                   PROVE FALSE
      BY DEF Abstract!TakenUsers
    <3>2. f # e /\ webAuth[f] # None /\ webAuth[f].user = Said
      BY <3>1, <2>2, <1>7
    <3> QED BY <3>2, <2>1, <1>0, <1>2, <1>4 DEF SettledAccountHasOwnUser, Settled
  <2>4. accountsBar' = [accountsBar EXCEPT ![e] = [pw |-> request[t].pw, user |-> Said]]
    <3>1. webAuth[e].hash.pw = request[t].pw
      BY <2>1, <1>2, <1>8
    <3> QED BY <3>1, <2>1, <1>2, <1>6, <1>7
  <2>5. Said \in Users
    BY <2>1, <1>2, <1>8
  <2>6. Abstract!Create(t, Said)
    BY <2>1, <2>2, <2>3, <2>4, <1>2, <1>10, <1>11 DEF Abstract!Create, Abstract!Asked
  <2> QED BY <2>5, <2>6
<1>12. CASE verdict[t] # "created"
  <2>1. accountsBar' = accountsBar /\ request[t].email = e
    BY <1>6, <1>7, <1>12 DEF Email
  <2>2. accountsBar[e] = IF webAuth[e] = None THEN None
                         ELSE [pw |-> webAuth[e].hash.pw, user |-> webAuth[e].user]
    BY <1>2, <1>7, <1>12
  <2>3. CASE verdict[t] = "exists"
    <3>1. request[t].kind = "create" /\ webAuth[e] # None
      BY <2>3, <1>0, <1>1 DEF AloneInv, VerdictInv
    <3> QED BY <3>1, <2>1, <2>2, <2>3, <1>2, <1>8, <1>10
            DEF Abstract!RefuseDuplicate, Abstract!Asked
  <2>4. CASE verdict[t] = "authenticated"
    <3>1. /\ request[t].kind = "authenticate" /\ Opens(e, request[t].pw)
          /\ Said = webAuth[e].user
      BY <2>4, <1>0, <1>1 DEF AloneInv, VerdictInv
    <3>2. webAuth[e] # None /\ webAuth[e].hash.pw = request[t].pw
      BY <3>1, <1>2, <1>8 DEF Opens
    <3>3. accountsBar[e] # None /\ accountsBar[e].pw = request[t].pw /\ accountsBar[e].user = Said
      BY <3>1, <3>2, <2>2, <1>2, <1>8
    <3> QED BY <3>1, <3>3, <2>1, <2>4, <1>2, <1>10
            DEF Abstract!Login, Abstract!Asked, Abstract!Opens
  <2>5. CASE verdict[t] = "invalid"
    <3>1. request[t].kind = "authenticate" /\ ~Opens(e, request[t].pw)
      BY <2>5, <1>0, <1>1 DEF AloneInv
    <3>2. webAuth[e] = None \/ webAuth[e].hash.pw # request[t].pw
      BY <3>1, <1>2, <1>8
    <3>3. ~(accountsBar[e] # None /\ accountsBar[e].pw = request[t].pw)
      BY <3>2, <2>2
    <3> QED BY <3>1, <3>3, <2>1, <2>5, <1>2, <1>10
            DEF Abstract!RefuseLogin, Abstract!Asked, Abstract!Opens
  <2> QED BY <2>3, <2>4, <2>5, <1>3, <1>12
<1> QED BY <1>11, <1>12


\* With one gateway connection and nothing failing, whatever the emails, the
\* passwords and the number of requests, the steps of the server (hashing,
\* binding, INSERT, AddNewUser, UpdateUserID, SELECT) amount to those of the
\* Registry: each request takes effect at once, when its answer is sent.
THEOREM ServesAsRegistry == ASSUME Undisturbed PROVE Spec => ImplementsRegistry
<1>1. Init => Abstract!Init
  <2> SUFFICES ASSUME Init PROVE Abstract!Init
    OBVIOUS
  <2>1. accountsBar = [e \in Emails |-> None]
    BY DEF Init, accountsBar
  <2>2. answersBar = <<>>
    BY DEF Init, answersBar
  <2> QED BY <2>1, <2>2 DEF Init, Abstract!Init
<1>2. /\ AuthInv /\ AloneInv /\ AuthInv' /\ [Next]_vars
      => [Abstract!Next]_<<accountsBar, request, answersBar>>
  <2> SUFFICES ASSUME AuthInv, AloneInv, AuthInv', [Next]_vars
               PROVE  \/ Abstract!Next
                      \/ UNCHANGED <<accountsBar, request, answersBar>>
    OBVIOUS
  <2>1. ASSUME NEW t \in Threads, Serve(t), ~Reply(t)
        PROVE  UNCHANGED <<accountsBar, request, answersBar>>
    BY <2>1, WorkIsHidden
  <2>2. ASSUME NEW t \in Threads, Reply(t) PROVE Abstract!Next
    BY <2>2, ReplyIsAnswer DEF Abstract!Next
  <2>3. ASSUME NEW t \in Threads, NEW r \in Requests, Take(t, r) PROVE Abstract!Next
    BY <2>3, TakeIsAsk DEF Abstract!Next, Abstract!Requests, Requests
  <2>4. ~Crash
    BY DEF Crash, AloneInv, Undisturbed
  <2>5. CASE UNCHANGED vars
    <3>1. UNCHANGED <<request, webAuth, replies, pc, verdict>>
      BY <2>5 DEF vars, localVars, dbVars
    <3>2. UNCHANGED <<accountsBar, answersBar>>
      BY <3>1 DEF accountsBar, answersBar, Unanswered, Registering
    <3> QED BY <3>1, <3>2
  <2> QED BY <2>1, <2>2, <2>3, <2>4, <2>5 DEF Next
<1> QED
  BY <1>1, <1>2, AloneInvariant, PTL DEF Spec, ImplementsRegistry, Abstract!Spec


\* What is proved of the Registry, about the rows and replies of the server.
Promises == INSTANCE RegistryProofs
  WITH accounts <- accountsBar, pending <- request, answers <- answersBar

LEMMA RegisterAssumption == None \notin Promises!Requests /\ None \notin Promises!Accounts
BY NothingAssumption, NoAccountAssumption DEF Promises!Requests, Requests, Promises!Accounts

LEMMA SameRegister == ImplementsRegistry => Promises!Spec
<1>1. Abstract!Init => Promises!Init
  BY DEF Abstract!Init, Promises!Init
<1>2. Abstract!Next => Promises!Next
  BY DEF Abstract!Next, Promises!Next, Abstract!Ask, Promises!Ask,
         Abstract!Create, Promises!Create,
         Abstract!RefuseDuplicate, Promises!RefuseDuplicate, Abstract!Login, Promises!Login,
         Abstract!RefuseLogin, Promises!RefuseLogin, Abstract!Asked, Promises!Asked,
         Abstract!Answer, Promises!Answer, Abstract!Opens, Promises!Opens,
         Abstract!TakenUsers, Promises!TakenUsers, Abstract!Requests, Promises!Requests
<1> QED BY <1>1, <1>2, PTL DEF ImplementsRegistry, Abstract!Spec, Promises!Spec

\* What is proved of the Registry then holds of the server: whoever is let in
\* gave the password of an account the server created before and is told the
\* user it was created with, and no email or user id is given out twice.
THEOREM ServerKeepsPromises ==
  ASSUME Undisturbed
  PROVE  Spec => [](Abstract!LoginFollowsCreate /\ Abstract!CreatedOnce)
<1>1. Promises!Spec => []Promises!LoginFollowsCreate
  BY RegisterAssumption, Promises!LoginsFollowCreations
<1>2. Promises!Spec => []Promises!CreatedOnce
  BY RegisterAssumption, Promises!NothingGivenTwice
<1>3. Promises!LoginFollowsCreate => Abstract!LoginFollowsCreate
  BY DEF Promises!LoginFollowsCreate, Abstract!LoginFollowsCreate
<1>4. Promises!CreatedOnce => Abstract!CreatedOnce
  BY DEF Promises!CreatedOnce, Abstract!CreatedOnce
<1> QED BY <1>1, <1>2, <1>3, <1>4, SameRegister, ServesAsRegistry, PTL
=============================================================================
