-------------------------- MODULE AuthServerProofs --------------------------
(***************************************************************************)
(* Proofs about AuthServer for any number of connections, requests,        *)
(* crashes, emails and passwords, with and without failing statements.     *)
(***************************************************************************)
EXTENDS AuthServer, TLAPS

Steps == {"idle", "hash", "hashing", "bindEmail", "bindSalt", "bindHash", "insert", "addUser",
          "lastId", "bindUser", "bindUserEmail", "update", "bindLogin", "select", "bindTouch",
          "bindCreation", "touch", "creation", "reply"}

\* Before the row of a registration is there, and after.
Hashed  == {"hashing", "bindEmail", "bindSalt", "bindHash", "insert"}
Rowed   == {"addUser", "lastId", "bindUser", "bindUserEmail", "update"}
Creator == {"hash"} \cup Hashed \cup Rowed
Asker   == {"bindLogin", "select", "bindTouch", "bindCreation", "touch", "creation"}

Email(t) == request[t].email

Replies == [request : Requests, answer : Verdicts, user : Int \cup {None}, date : Int \cup {None}]

\* What every thread and every shared object may hold.
Types ==
  /\ pc \in [Threads -> Steps]
  /\ request \in [Threads -> Requests \cup {None}]
  /\ userId \in [Threads -> Int]
  /\ date \in [Threads -> Int \cup {None}]
  /\ verdict \in [Threads -> Verdicts \cup {None}]
  /\ hashed \in [Threads -> Hashes \cup {None}]
  /\ served \in [Threads -> Nat]
  /\ create \in [email : Emails \cup {None}, salt : Salts \cup {None},
                 hash : Hashes \cup {None}]
  /\ update \in [user : Int \cup {None}, email : Emails \cup {None}]
  /\ login \in Emails \cup {None} /\ creation \in Int \cup {None}
  /\ webAuth \in [Emails -> Rows \cup {None}]
  /\ users \in Nat /\ lastInsert \in 0 .. users
  /\ replies \in Seq(Replies)

\* What a thread at some step has already put there.
StepInv ==
  \A t \in Threads :
    /\ pc[t] = "idle" <=> request[t] = None
    /\ pc[t] = "reply" => verdict[t] # None
    /\ pc[t] \in Creator => request[t].kind = "create"
    /\ pc[t] \in Asker => request[t].kind = "authenticate"
    /\ pc[t] \in Hashed => hashed[t] \in Hashes
    /\ pc[t] \in {"bindHash", "insert"} => create.salt \in Salts
    /\ pc[t] = "insert" => create.hash \in Hashes
    /\ pc[t] \in {"bindUserEmail", "update"} => update.user \in Int
    /\ pc[t] = "select" => login \in Emails
    /\ pc[t] \in {"touch", "creation"} => creation \in Int
    /\ pc[t] \in Creator \cup {"idle", "bindLogin", "select"} => verdict[t] = None
    /\ pc[t] \in Asker \ {"bindLogin", "select"} => verdict[t] = "authenticated"
    /\ pc[t] # "reply" => date[t] = None
    /\ verdict[t] = "created" => request[t].kind = "create"
    /\ verdict[t] # "authenticated" => date[t] = None

\* Two threads that use a statement, or the hash object, at once.
Together(t, d) ==
  \E step \in {"bindEmail", "addUser", "bindUser", "bindLogin", "bindTouch"} :
    pc[t] \in Span[step] /\ pc[d] \in Span[step]

MeetInv ==
  \A t, d \in Threads : t # d =>
    /\ Together(t, d) => Email(t) \in mixed
    /\ pc[t] = "hashing" /\ pc[d] = "hashing" => Email(t) \in garbled

\* Who met nobody finds what it bound; who met somebody may find the
\* parameters of another request that met somebody.
BoundInv ==
  \A t \in Threads :
    /\ pc[t] \in Span.bindEmail => create.email \in {Email(t)} \cup mixed
    /\ pc[t] = "update" => update.email \in {Email(t)} \cup mixed
    /\ pc[t] # "idle" /\ Email(t) \notin mixed =>
         /\ pc[t] \in Span.bindEmail => create.email = Email(t)
         /\ pc[t] \in {"bindHash", "insert"} => create.salt = Salt(t)
         /\ pc[t] = "insert" => create.hash = hashed[t]
         /\ pc[t] \in Span.bindUser => update.user = userId[t]
         /\ pc[t] = "update" => update.email = Email(t)
         /\ pc[t] = "select" => login = Email(t)
         /\ pc[t] \in {"touch", "creation"} => creation = userId[t]
    /\ pc[t] \in Hashed /\ Email(t) \notin garbled => hashed[t] = HashOf(t)

\* What a thread is about to answer is so.
VerdictInv ==
  \A t \in Threads : pc[t] # "idle" /\ Email(t) \notin mixed =>
    /\ verdict[t] = "authenticated" => Opens(Email(t), request[t].pw)
    /\ verdict[t] = "exists" => webAuth[Email(t)] # None
    /\ pc[t] \in Rowed \/ verdict[t] = "created" =>
         /\ webAuth[Email(t)] # None
         /\ Email(t) \notin garbled => Opens(Email(t), request[t].pw)
    /\ date[t] \in {userId[t], None}

\* One registration of an email gets past the INSERT.
PastInsert(t) == pc[t] # "idle" /\ (pc[t] \in Rowed \/ verdict[t] = "created")

OnceInv ==
  \A t, d \in Threads :
    PastInsert(t) /\ PastInsert(d) /\ Email(t) = Email(d) => t = d \/ Email(t) \in mixed

Clean(e) == e \notin mixed \cup failed

\* The user of a row is the placeholder until its registration is through.
UserInv ==
  /\ \A e \in Emails : Clean(e) /\ Registering(e) => webAuth[e].user = Placeholder
  /\ \A t \in Threads : pc[t] # "idle" /\ Clean(Email(t)) =>
       /\ verdict[t] = "created" => userId[t] = webAuth[Email(t)].user
       /\ verdict[t] = "authenticated" =>
            userId[t] = webAuth[Email(t)].user \/ userId[t] = Placeholder
  /\ \A k \in 1 .. Len(replies) :
       LET e == replies[k].request.email IN
       replies[k].answer = "created" /\ Clean(e) => ~Registering(e)

\* The user id a registration has been given, or is about to read.
Holding(t) == pc[t] \in Rowed \ {"addUser"} /\ Clean(Email(t))
IdOf(t)    == IF pc[t] = "lastId" THEN lastInsert ELSE userId[t]

OwnInv ==
  /\ \A t \in Threads : Holding(t) => IdOf(t) \in 1 .. users
  /\ \A t, d \in Threads : Holding(t) /\ Holding(d) /\ t # d => IdOf(t) # IdOf(d)
  /\ \A t \in Threads, e \in Emails : Holding(t) /\ Settled(e) => webAuth[e].user # IdOf(t)

AuthInv ==
  /\ Types /\ StepInv /\ MeetInv /\ BoundInv /\ VerdictInv /\ OnceInv /\ UserInv /\ OwnInv
  /\ LoginNeedsOwnPassword /\ CreatedAccountOpens /\ ToldIdIsStored
  /\ SettledAccountHasOwnUser /\ DateIsOfTheUser /\ ExistsIsTrue
-----------------------------------------------------------------------------
(* What a step of a thread may change.                                     *)

LEMMA HashTypes ==
  ASSUME hashed \in [Threads -> Hashes \cup {None}], NEW t \in Threads,
         HashBegin(t) \/ HashEnd(t), HashOf(t) \in Hashes
  PROVE  hashed' \in [Threads -> Hashes \cup {None}]
<1>1. Garbage \in Hashes
  BY DEF Garbage, Hashes
<1> QED BY <1>1 DEF HashBegin, HashEnd

\* Only Creation and Reply change the date.
LEMMA DateTypes ==
  ASSUME date \in [Threads -> Int \cup {None}], users \in Nat, NEW t \in Threads, Serve(t)
  PROVE  date' \in [Threads -> Int \cup {None}]
<1>1. CASE Register(t)
  <2>1. date' = date
    BY <1>1 DEF Register, HashBegin, HashEnd, BindEmail, BindSalt, BindHash, Insert,
                InsertDuplicate, InsertError, AddUser, LastId, AddUserError, BindUser,
                BindUserEmail, Update, localVars
  <2> QED BY <2>1
<1>2. CASE BindLogin(t) \/ SelectValid(t) \/ SelectInvalid(t) \/ SelectError(t)
           \/ BindTouch(t) \/ BindCreation(t) \/ Touch(t) \/ TouchError(t)
  <2>1. date' = date
    BY <1>2 DEF BindLogin, SelectValid, SelectInvalid, SelectError, BindTouch, BindCreation,
                Touch, TouchError, localVars
  <2> QED BY <2>1
<1>3. CASE Creation(t)
  <2>1. PICK d : /\ d = IF creation \in 1 .. users THEN creation ELSE None
                 /\ date' = [date EXCEPT ![t] = d]
    BY <1>3, Zenon DEF Creation
  <2>2. d \in Int \cup {None}
    BY <2>1
  <2> QED BY <2>1, <2>2
<1>4. CASE Reply(t)
  <2>1. date' = [date EXCEPT ![t] = None]
    BY <1>4 DEF Reply
  <2> QED BY <2>1
<1> QED BY <1>1, <1>2, <1>3, <1>4 DEF Serve, Authenticate

\* The steps of a thread keep the types.
LEMMA TypesServe ==
  ASSUME Types, StepInv, NEW t \in Threads, Serve(t)
  PROVE  Types'
<1> USE AuthServerAssumption
<1> USE DEF Serve, Register, Authenticate, HashBegin, HashEnd, BindEmail, BindSalt, BindHash,
           Insert, InsertDuplicate, InsertError, AddUser, LastId, AddUserError, BindUser,
           BindUserEmail, Update, BindLogin, SelectValid, SelectInvalid, SelectError,
           BindTouch, BindCreation, Touch, Creation, TouchError, Reply, Goto,
           localVars, bindVars, dbVars, histVars
<1>0. /\ pc \in [Threads -> Steps] /\ served[t] \in Nat /\ users \in Nat
      /\ pc[t] # "idle" => request[t] \in Requests
      /\ pc[t] # "idle" => request[t].email \in Emails /\ request[t].pw \in Passwords
      /\ hashed[t] \in Hashes \cup {None} /\ userId[t] \in Int
  BY DEF Types, StepInv, Requests
<1>1. Salt(t) \in Salts /\ Garbage \in Hashes /\ (pc[t] # "idle" => HashOf(t) \in Hashes)
  BY <1>0 DEF Salt, Salts, Garbage, Hashes, HashOf
<1>2. pc' \in [Threads -> Steps]
  BY <1>0, SMTT(30) DEF Steps
<1>a. request' \in [Threads -> Requests \cup {None}]
  BY DEF Types
<1>b. date' \in [Threads -> Int \cup {None}]
  BY <1>0, DateTypes, Zenon DEF Types
<1>c. served' \in [Threads -> Nat]
  BY DEF Types
<1>3. verdict' \in [Threads -> Verdicts \cup {None}]
  BY DEF Types, Verdicts
<1>4. users' \in Nat /\ lastInsert' \in 0 .. users'
  BY DEF Types
<1>d. login' \in Emails \cup {None} /\ creation' \in Int \cup {None}
  BY <1>0 DEF Types
<1>e. update' \in [user : Int \cup {None}, email : Emails \cup {None}]
  BY <1>0 DEF Types
<1>5. hashed' \in [Threads -> Hashes \cup {None}]
  <2>1. CASE pc[t] = "hash"
    <3>1. HashBegin(t)
      BY <2>1
    <3> QED BY <2>1, <3>1, <1>1, HashTypes DEF Types
  <2>2. CASE pc[t] = "hashing"
    <3>1. HashEnd(t)
      BY <2>2
    <3> QED BY <2>2, <3>1, <1>1, HashTypes DEF Types
  <2>3. CASE pc[t] \notin {"hash", "hashing"}
    BY <2>3 DEF Types
  <2> QED BY <2>1, <2>2, <2>3
<1>6. create' \in [email : Emails \cup {None}, salt : Salts \cup {None},
                     hash : Hashes \cup {None}]
  BY <1>0, <1>1 DEF Types
<1>7. webAuth' \in [Emails -> Rows \cup {None}]
  <2>1. pc[t] = "insert" => NewRow \in Rows
    BY DEF Types, StepInv, NewRow, Rows
  <2>2. pc[t] = "update" => update.user \in Int
    BY DEF StepInv
  <2>3. CASE pc[t] = "update"
    <3>1. \A r \in Rows, n \in Int : [r EXCEPT !.user = n] \in Rows
      BY DEF Rows
    <3>2. \A e \in Emails : webAuth[e] # None => [webAuth[e] EXCEPT !.user = update.user] \in Rows
      BY <2>2, <2>3, <3>1 DEF Types
    <3>3. webAuth' = webAuth \/ SetUser
      BY <2>3
    <3>4. CASE SetUser
      <4>1. \A e \in Emails : webAuth'[e] = webAuth[e] \/ webAuth'[e] \in Rows
        BY <3>2, <3>4 DEF SetUser
      <4>2. webAuth' = [e \in Emails |-> webAuth'[e]]
        BY <3>4 DEF SetUser
      <4> QED BY <4>1, <4>2 DEF Types
    <3> QED BY <3>3, <3>4 DEF Types
  <2>4. CASE pc[t] # "update"
    BY <2>1, <2>4, ZenonT(30) DEF Types, InsertRow
  <2> QED BY <2>3, <2>4
<1>8. userId' \in [Threads -> Int]
  <2>1. \A e \in Emails : webAuth[e] # None => webAuth[e].user \in Int
    BY DEF Types, Rows
  <2>2. pc[t] = "select" => login \in Emails
    BY DEF StepInv
  <2> QED BY <2>1, <2>2 DEF Types, Opens
<1>9. replies' \in Seq(Replies)
  <2>1. CASE Reply(t)
    <3>1. date[t] \in Int \cup {None} /\ verdict[t] \in Verdicts
      BY <2>1 DEF Types, StepInv
    <3>2. [request |-> request[t], answer |-> verdict[t],
        user |-> IF verdict[t] \in {"created", "authenticated"} THEN userId[t] ELSE None,
        date |-> date[t]] \in Replies
       BY <3>1, <1>0, <2>1 DEF Replies
    <3> QED BY <3>2, <2>1 DEF Types
  <2>2. CASE ~Reply(t)
    BY <2>2 DEF Types
  <2> QED BY <2>1, <2>2
<1> QED BY <1>2, <1>3, <1>4, <1>5, <1>6, <1>7, <1>8, <1>9, <1>a, <1>b, <1>c, <1>d, <1>e DEF Types

\* A step of one thread leaves the locals of the others alone, except that a hash
\* under way is spoiled, and the history only grows.
LEMMA Frame ==
  ASSUME Types, StepInv, NEW t \in Threads, Serve(t)
  PROVE  /\ \A d \in Threads \ {t} :
              /\ pc'[d] = pc[d] /\ request'[d] = request[d] /\ userId'[d] = userId[d]
              /\ verdict'[d] = verdict[d] /\ date'[d] = date[d]
              /\ \/ hashed'[d] = hashed[d]
                 \/ pc[t] = "hash" /\ pc[d] = "hashing" /\ hashed'[d] = Garbage
         /\ served' = served /\ pc[t] # "idle"
         /\ pc'[t] # "idle" => request'[t] = request[t]
         /\ mixed \subseteq mixed' /\ garbled \subseteq garbled' /\ failed \subseteq failed'
<1> USE DEF Serve, Register, Authenticate, HashBegin, HashEnd, BindEmail, BindSalt, BindHash,
           Insert, InsertDuplicate, InsertError, AddUser, LastId, AddUserError, BindUser,
           BindUserEmail, Update, BindLogin, SelectValid, SelectInvalid, SelectError,
           BindTouch, BindCreation, Touch, Creation, TouchError, Reply, Goto,
           localVars, bindVars, dbVars, histVars
<1>1. \A d \in Threads \ {t} : pc'[d] = pc[d]
  BY DEF Types
<1>a. \A d \in Threads \ {t} : request'[d] = request[d]
  BY DEF Types
<1>b. \A d \in Threads \ {t} : userId'[d] = userId[d]
  BY DEF Types
<1>c. \A d \in Threads \ {t} : verdict'[d] = verdict[d]
  BY DEF Types
<1>d. \A d \in Threads \ {t} : date'[d] = date[d]
  BY DEF Types
<1>2. \A d \in Threads \ {t} :
        \/ hashed'[d] = hashed[d]
        \/ pc[t] = "hash" /\ pc[d] = "hashing" /\ hashed'[d] = Garbage
  BY DEF Types
<1>3. served' = served /\ pc[t] # "idle"
  OBVIOUS
<1>4. pc'[t] # "idle" => request'[t] = request[t]
  BY DEF Types
<1>5. mixed \subseteq mixed' /\ garbled \subseteq garbled' /\ failed \subseteq failed'
  BY DEF Enter, Fail
<1> QED BY <1>1, <1>2, <1>3, <1>4, <1>5, <1>a, <1>b, <1>c, <1>d

\* The two ways in which the row of an email changes.
Inserted(t, e) ==
  /\ pc[t] = "insert" /\ e = create.email /\ webAuth[e] = None /\ webAuth'[e] = NewRow
  /\ pc'[t] = "addUser" \/ e \in failed'

Updated(t, e) ==
  /\ pc[t] = "update" /\ pc'[t] = "reply" /\ e = update.email /\ webAuth[e] # None
  /\ webAuth'[e] = [webAuth[e] EXCEPT !.user = update.user]

\* A row appears at an INSERT, and changes at an UPDATE; nothing else touches it.
LEMMA RowSteps ==
  ASSUME Types, StepInv, NEW t \in Threads, Serve(t)
  PROVE  \A e \in Emails : webAuth'[e] = webAuth[e] \/ Inserted(t, e) \/ Updated(t, e)
<1> USE DEF Serve, Register, Authenticate, HashBegin, HashEnd, BindEmail, BindSalt, BindHash,
           Insert, InsertDuplicate, InsertError, AddUser, LastId, AddUserError, BindUser,
           BindUserEmail, Update, BindLogin, SelectValid, SelectInvalid, SelectError,
           BindTouch, BindCreation, Touch, Creation, TouchError, Reply, Goto,
           localVars, bindVars, dbVars, histVars
<1>1. \/ webAuth' = webAuth
      \/ InsertRow /\ pc[t] = "insert" /\ webAuth[create.email] = None
      \/ SetUser /\ pc[t] = "update" /\ pc'[t] = "reply"
  <2>1. CASE pc[t] = "insert"
    BY <2>1
  <2>2. CASE pc[t] = "update"
    BY <2>2 DEF Types
  <2>3. CASE pc[t] \notin {"insert", "update"}
    BY <2>3
  <2> QED BY <2>1, <2>2, <2>3
<1>2. CASE InsertRow /\ pc[t] = "insert" /\ webAuth[create.email] = None
  <2>1. pc'[t] = "addUser" \/ create.email \in failed'
    BY <1>2 DEF Types
  <2> QED BY <1>2, <2>1 DEF Types, InsertRow, Inserted
<1>3. CASE SetUser /\ pc[t] = "update" /\ pc'[t] = "reply"
  BY <1>3 DEF SetUser, Updated
<1> QED BY <1>1, <1>2, <1>3

\* The salt and the hash of a row never change.
LEMMA RowsKept ==
  ASSUME Types, StepInv, NEW t \in Threads, Serve(t), NEW e \in Emails, webAuth[e] # None
  PROVE  /\ webAuth'[e] # None
         /\ \A pw \in Passwords : Opens(e, pw) => Opens(e, pw)'
<1>1. webAuth[e] \in Rows
  BY DEF Types
<1>2. webAuth'[e] = webAuth[e] \/ Updated(t, e)
  BY RowSteps DEF Inserted
<1>3. update.user \in Int \/ ~Updated(t, e)
  BY DEF StepInv, Updated
<1>4. Updated(t, e) => webAuth'[e] \in Rows
  BY <1>1, <1>3 DEF Updated, Rows
<1> QED BY <1>1, <1>2, <1>3, <1>4, NothingAssumption DEF Updated, Rows, Opens

\* What the steps do that begin or end a phase of the work on a request.
LEMMA Moves ==
  ASSUME Types, StepInv, NEW t \in Threads, Serve(t)
  PROVE  /\ pc'[t] \in Rowed /\ pc[t] \notin Rowed => pc[t] = "insert" /\ pc'[t] = "addUser"
         /\ pc[t] \in Rowed /\ pc'[t] \notin Rowed => pc[t] = "update" /\ pc'[t] = "reply"
         /\ pc[t] = "insert" /\ pc'[t] = "addUser" => webAuth[create.email] = None
         /\ pc[t] = "update" => Update(t)
         /\ pc[t] = "reply" => Reply(t) /\ pc'[t] = "idle"
         /\ verdict'[t] = "created" /\ verdict[t] # "created" /\ pc[t] # "reply" => Update(t)
         /\ verdict'[t] = "authenticated" /\ pc[t] = "select" =>
              userId'[t] = webAuth[login].user /\ webAuth' = webAuth
         /\ verdict'[t] = "authenticated" /\ pc[t] # "select" =>
              verdict[t] = "authenticated" \/ pc[t] = "reply"
         /\ pc[t] \in Asker \ {"bindLogin", "select"} => userId' = userId /\ webAuth' = webAuth
         /\ Reply(t) \/ replies' = replies
         /\ \/ users' = users /\ lastInsert' = lastInsert
            \/ pc[t] = "addUser" /\ pc'[t] = "lastId" /\ users' = users + 1
               /\ lastInsert' = users + 1
         /\ pc'[t] \in Rowed \ {"addUser"} /\ Email(t) \notin failed' =>
              AddUser(t) \/ LastId(t) \/ BindUser(t) \/ BindUserEmail(t)
         /\ Reply(t) \/ pc'[t] # "idle"
         /\ verdict'[t] = "invalid" => SelectInvalid(t) \/ verdict[t] = "invalid" \/ pc[t] = "reply"
<1> USE DEF Serve, Register, Authenticate, HashBegin, HashEnd, BindEmail, BindSalt, BindHash,
           Insert, InsertDuplicate, InsertError, AddUser, LastId, AddUserError, BindUser,
           BindUserEmail, Update, BindLogin, SelectValid, SelectInvalid, SelectError,
           BindTouch, BindCreation, Touch, Creation, TouchError, Reply, Goto,
           localVars, bindVars, dbVars, histVars
<1>1. pc'[t] \in Rowed /\ pc[t] \notin Rowed => pc[t] = "insert" /\ pc'[t] = "addUser"
  BY DEF Types, Rowed
<1>2. pc[t] \in Rowed /\ pc'[t] \notin Rowed => pc[t] = "update" /\ pc'[t] = "reply"
  BY DEF Types, Rowed
<1>3. pc[t] = "insert" /\ pc'[t] = "addUser" => webAuth[create.email] = None
  BY DEF Types
<1>4. pc[t] = "update" => Update(t)
  BY DEF Types
<1>5. pc[t] = "reply" => Reply(t) /\ pc'[t] = "idle"
  BY DEF Types
<1>6. verdict'[t] = "created" /\ verdict[t] # "created" /\ pc[t] # "reply" => Update(t)
  BY DEF Types
<1>7. verdict'[t] = "authenticated" /\ pc[t] = "select" =>
       userId'[t] = webAuth[login].user /\ webAuth' = webAuth
  BY DEF Types
<1>8. verdict'[t] = "authenticated" /\ pc[t] # "select" =>
       verdict[t] = "authenticated" \/ pc[t] = "reply"
  BY DEF Types
<1>9. pc[t] \in Asker \ {"bindLogin", "select"} => userId' = userId /\ webAuth' = webAuth
  BY DEF Types, Asker
<1>10. Reply(t) \/ replies' = replies
  BY DEF Types
<1>11. \/ users' = users /\ lastInsert' = lastInsert
       \/ pc[t] = "addUser" /\ pc'[t] = "lastId" /\ users' = users + 1 /\ lastInsert' = users + 1
  BY DEF Types
<1>12. pc'[t] \in Rowed \ {"addUser"} /\ Email(t) \notin failed' =>
       AddUser(t) \/ LastId(t) \/ BindUser(t) \/ BindUserEmail(t)
  BY DEF Types, Rowed, Email, Fail
<1>13. Reply(t) \/ pc'[t] # "idle"
  BY DEF Types
<1>14. verdict'[t] = "invalid" => SelectInvalid(t) \/ verdict[t] = "invalid" \/ pc[t] = "reply"
  BY DEF Types
<1> QED BY <1>1, <1>2, <1>3, <1>4, <1>5, <1>6, <1>7, <1>8, <1>9, <1>10, <1>11, <1>12, <1>13, <1>14
-----------------------------------------------------------------------------
(* Parameters, answers and rows.                                           *)

\* Each thread finds what its earlier steps left behind: the one that moves ...
LEMMA StepMover ==
  ASSUME Types, StepInv, NEW t \in Threads, Serve(t)
  PROVE  StepInv!(t)'
<1> USE AuthServerAssumption, NothingAssumption
<1> USE DEF Types, StepInv, Creator, Hashed, Rowed, Asker, Goto, localVars, bindVars, dbVars, histVars
<1>0. /\ served[t] \in Nat /\ None \notin Requests /\ None \notin Verdicts
      /\ pc[t] # "idle" => request[t] \in Requests /\ request[t] # None
      /\ pc[t] # "idle" => request[t].email \in Emails /\ request[t].pw \in Passwords
      /\ userId[t] \in Int
  BY DEF Requests
<1>00. Salt(t) \in Salts /\ Garbage \in Hashes /\ (pc[t] # "idle" => HashOf(t) \in Hashes)
  BY <1>0 DEF Salt, Salts, Garbage, Hashes, HashOf
<1>1. CASE HashBegin(t)
  BY <1>0, <1>00, <1>1 DEF Verdicts, HashBegin
<1>2. CASE HashEnd(t)
  BY <1>0, <1>00, <1>2 DEF Verdicts, HashEnd
<1>3. CASE BindEmail(t)
  BY <1>0, <1>00, <1>3 DEF Verdicts, BindEmail
<1>4. CASE BindSalt(t)
  BY <1>0, <1>00, <1>4 DEF Verdicts, BindSalt
<1>5. CASE BindHash(t)
  BY <1>0, <1>00, <1>5 DEF Verdicts, BindHash
<1>6. CASE Insert(t)
  BY <1>0, <1>00, <1>6 DEF Verdicts, Insert
<1>7. CASE InsertDuplicate(t)
  BY <1>0, <1>00, <1>7 DEF Verdicts, InsertDuplicate
<1>8. CASE InsertError(t)
  BY <1>0, <1>00, <1>8 DEF Verdicts, InsertError
<1>9. CASE AddUser(t)
  BY <1>0, <1>00, <1>9 DEF Verdicts, AddUser
<1>10. CASE LastId(t)
  BY <1>0, <1>00, <1>10 DEF Verdicts, LastId
<1>11. CASE AddUserError(t)
  BY <1>0, <1>00, <1>11 DEF Verdicts, AddUserError
<1>12. CASE BindUser(t)
  BY <1>0, <1>00, <1>12 DEF Verdicts, BindUser
<1>13. CASE BindUserEmail(t)
  BY <1>0, <1>00, <1>13 DEF Verdicts, BindUserEmail
<1>14. CASE Update(t)
  BY <1>0, <1>00, <1>14 DEF Verdicts, Update
<1>15. CASE BindLogin(t)
  BY <1>0, <1>00, <1>15 DEF Verdicts, BindLogin
<1>16. CASE SelectValid(t)
  BY <1>0, <1>00, <1>16 DEF Verdicts, SelectValid
<1>17. CASE SelectInvalid(t)
  BY <1>0, <1>00, <1>17 DEF Verdicts, SelectInvalid
<1>18. CASE SelectError(t)
  BY <1>0, <1>00, <1>18 DEF Verdicts, SelectError
<1>19. CASE BindTouch(t)
  BY <1>0, <1>00, <1>19 DEF Verdicts, BindTouch
<1>20. CASE BindCreation(t)
  BY <1>0, <1>00, <1>20 DEF Verdicts, BindCreation
<1>21. CASE Touch(t)
  BY <1>0, <1>00, <1>21 DEF Verdicts, Touch
<1>22. CASE Creation(t)
  BY <1>0, <1>00, <1>22 DEF Verdicts, Creation
<1>23. CASE TouchError(t)
  BY <1>0, <1>00, <1>23 DEF Verdicts, TouchError
<1>24. CASE Reply(t)
  BY <1>0, <1>00, <1>24 DEF Verdicts, Reply
<1> QED
  BY <1>1, <1>2, <1>3, <1>4, <1>5, <1>6, <1>7, <1>8, <1>9, <1>10, <1>11, <1>12,
     <1>13, <1>14, <1>15, <1>16, <1>17, <1>18, <1>19, <1>20, <1>21, <1>22, <1>23, <1>24
     DEF Serve, Register, Authenticate

\* ... and the others.
LEMMA StepServe ==
  ASSUME Types, StepInv, NEW t \in Threads, Serve(t)
  PROVE  StepInv'
<1> USE DEF Serve, Register, Authenticate, HashBegin, HashEnd, BindEmail, BindSalt, BindHash,
           Insert, InsertDuplicate, InsertError, AddUser, LastId, AddUserError, BindUser,
           BindUserEmail, Update, BindLogin, SelectValid, SelectInvalid, SelectError,
           BindTouch, BindCreation, Touch, Creation, TouchError, Reply, Goto,
           localVars, bindVars, dbVars, histVars
<1>0. /\ Email(t) \in Emails \/ pc[t] = "idle"
      /\ userId[t] \in Int /\ Salt(t) \in Salts
  BY DEF Types, StepInv, Requests, Email, Salt, Salts
<1>1. create.salt \in Salts => create'.salt \in Salts
  BY <1>0 DEF Types
<1>2. create.hash \in Hashes => create'.hash \in Hashes
  BY DEF Types, StepInv, Hashed
<1>3. update.user \in Int => update'.user \in Int
  BY <1>0 DEF Types
<1>4. (login \in Emails => login' \in Emails) /\ (creation \in Int => creation' \in Int)
  BY <1>0 DEF Types, Email
<1> HIDE DEF Serve, Register, Authenticate, HashBegin, HashEnd, BindEmail, BindSalt, BindHash,
           Insert, InsertDuplicate, InsertError, AddUser, LastId, AddUserError, BindUser,
           BindUserEmail, Update, BindLogin, SelectValid, SelectInvalid, SelectError,
           BindTouch, BindCreation, Touch, Creation, TouchError, Reply, Goto,
           localVars, bindVars, dbVars, histVars
<1>5. \A d \in Threads \ {t} :
         /\ pc'[d] = pc[d] /\ request'[d] = request[d]
         /\ verdict'[d] = verdict[d] /\ date'[d] = date[d]
         /\ hashed[d] \in Hashes => hashed'[d] \in Hashes
  BY Frame DEF Garbage, Hashes
<1>6. ASSUME NEW d \in Threads \ {t} PROVE StepInv!(d)'
  BY <1>1, <1>2, <1>3, <1>4, <1>5 DEF StepInv
<1> QED BY StepMover, <1>6 DEF StepInv

\* Two threads do not get into the same statement without being noticed.
LEMMA MeetServe ==
  ASSUME Types, StepInv, MeetInv, NEW t \in Threads, Serve(t), StepInv'
  PROVE  MeetInv'
<1> USE DEF Serve, Register, Authenticate, HashBegin, HashEnd, BindEmail, BindSalt, BindHash,
           Insert, InsertDuplicate, InsertError, AddUser, LastId, AddUserError, BindUser,
           BindUserEmail, Update, BindLogin, SelectValid, SelectInvalid, SelectError,
           BindTouch, BindCreation, Touch, Creation, TouchError, Reply, Goto,
           localVars, bindVars, dbVars, histVars
<1>a. pc'[t] \in Span.bindEmail => pc[t] \in Span.bindEmail \/ Enter(t, "bindEmail")
  BY DEF Types, Span
<1>b. pc'[t] \in Span.addUser => pc[t] \in Span.addUser \/ Enter(t, "addUser")
  BY DEF Types, Span
<1>c. pc'[t] \in Span.bindUser => pc[t] \in Span.bindUser \/ Enter(t, "bindUser")
  BY DEF Types, Span
<1>d. pc'[t] \in Span.bindLogin => pc[t] \in Span.bindLogin \/ Enter(t, "bindLogin")
  BY DEF Types, Span
<1>e. pc'[t] \in Span.bindTouch => pc[t] \in Span.bindTouch \/ Enter(t, "bindTouch")
  BY DEF Types, Span
<1>1. \A step \in {"bindEmail", "addUser", "bindUser", "bindLogin", "bindTouch"} :
         pc'[t] \in Span[step] => pc[t] \in Span[step] \/ Enter(t, step)
  BY <1>a, <1>b, <1>c, <1>d, <1>e
<1>2. pc'[t] = "hashing" => garbled' = garbled \cup Disturbed(t, "hash")
  BY DEF Types
<1> HIDE DEF Serve, Register, Authenticate, HashBegin, HashEnd, BindEmail, BindSalt, BindHash,
           Insert, InsertDuplicate, InsertError, AddUser, LastId, AddUserError, BindUser,
           BindUserEmail, Update, BindLogin, SelectValid, SelectInvalid, SelectError,
           BindTouch, BindCreation, Touch, Creation, TouchError, Reply, Goto,
           localVars, bindVars, dbVars, histVars
<1>3. \A d \in Threads \ {t} : pc'[d] = pc[d] /\ Email(d)' = Email(d)
  BY Frame DEF Email
<1>4. Email(t)' = Email(t) \/ pc'[t] = "idle"
  BY Frame DEF Email
<1>5. mixed \subseteq mixed' /\ garbled \subseteq garbled'
  BY Frame
<1>6. ASSUME NEW d \in Threads \ {t}, NEW step \in DOMAIN Span, pc[d] \in Span[step]
      PROVE  Email(t) \in Disturbed(t, step) /\ Email(d) \in Disturbed(t, step)
  BY <1>6 DEF Disturbed, Email
<1>7. ASSUME NEW d \in Threads \ {t}, Together(t, d)'
      PROVE  Email(t)' \in mixed' /\ Email(d)' \in mixed'
  <2>1. PICK step \in {"bindEmail", "addUser", "bindUser", "bindLogin", "bindTouch"} :
           pc'[t] \in Span[step] /\ pc'[d] \in Span[step]
    BY <1>7 DEF Together
  <2>2. pc[d] \in Span[step] /\ step \in DOMAIN Span /\ pc'[t] # "idle"
    BY <2>1, <1>3 DEF Span
  <2>3. CASE pc[t] \in Span[step]
    BY <2>1, <2>2, <2>3, <1>3, <1>4, <1>5 DEF MeetInv, Together
  <2>4. CASE Enter(t, step)
    BY <2>2, <2>4, <1>3, <1>4, <1>6 DEF Enter
  <2> QED BY <2>1, <2>3, <2>4, <1>1
<1>8. ASSUME NEW d \in Threads \ {t}, pc'[t] = "hashing", pc'[d] = "hashing"
      PROVE  Email(t)' \in garbled' /\ Email(d)' \in garbled'
  <2>1. pc[d] \in Span["hash"] /\ "hash" \in DOMAIN Span
    BY <1>3, <1>8 DEF Span
  <2> QED BY <2>1, <1>2, <1>3, <1>4, <1>6, <1>8
<1>9. ASSUME NEW d \in Threads \ {t}, NEW c \in Threads \ {t}, c # d
      PROVE  /\ Together(c, d)' => Email(c)' \in mixed'
             /\ pc'[c] = "hashing" /\ pc'[d] = "hashing" => Email(c)' \in garbled'
  BY <1>9, <1>3, <1>5 DEF MeetInv, Together
<1>10. \A c, d \in Threads : Together(c, d)' <=> Together(d, c)'
  BY DEF Together
<1> QED BY <1>7, <1>8, <1>9, <1>10 DEF MeetInv

\* A thread that met nobody executes a statement with its own parameters: whoever
\* binds one of them in between is inside the statement at the same time.
LEMMA BoundServe ==
  ASSUME Types, StepInv, MeetInv, BoundInv, NEW t \in Threads, Serve(t), Types', StepInv', MeetInv'
  PROVE  BoundInv'
<1>0. /\ pc[t] # "idle" /\ served' = served
      /\ pc'[t] # "idle" => Email(t)' = Email(t) /\ HashOf(t)' = HashOf(t) /\ Salt(t)' = Salt(t)
      /\ mixed \subseteq mixed' /\ garbled \subseteq garbled'
  BY Frame DEF Email, HashOf, Salt
<1>1. \A d \in Threads \ {t} :
        /\ pc'[d] = pc[d] /\ Email(d)' = Email(d) /\ userId'[d] = userId[d]
        /\ HashOf(d)' = HashOf(d) /\ Salt(d)' = Salt(d)
        /\ hashed'[d] = hashed[d] \/ (pc[t] = "hash" /\ pc[d] = "hashing")
  BY Frame DEF Email, HashOf, Salt
<1>s. /\ Span.bindEmail = {"bindSalt", "bindHash", "insert"} /\ Span.addUser = {"lastId"}
      /\ Span.bindUser = {"bindUserEmail", "update"} /\ Span.bindLogin = {"select"}
      /\ Span.bindTouch = {"bindCreation", "touch", "creation"}
  BY DEF Span
<1> USE DEF Serve, Register, Authenticate, HashBegin, HashEnd, BindEmail, BindSalt, BindHash,
           Insert, InsertDuplicate, InsertError, AddUser, LastId, AddUserError, BindUser,
           BindUserEmail, Update, BindLogin, SelectValid, SelectInvalid, SelectError,
           BindTouch, BindCreation, Touch, Creation, TouchError, Reply, Goto,
           localVars, bindVars, dbVars, histVars
<1>a. create' = create \/ pc'[t] \in Span.bindEmail
  BY <1>s DEF Types
<1>b. update' = update \/ pc'[t] \in Span.bindUser
  BY <1>s DEF Types
<1>c. login' = login \/ pc'[t] = "select"
  BY DEF Types
<1>d. creation' = creation \/ pc'[t] = "touch"
  BY DEF Types
<1>e. create'.email \in {create.email, Email(t)}
  BY DEF Types, Email
<1>f. update'.email \in {update.email, Email(t)}
  BY DEF Types, Email
<1>g. pc[t] = "hash" => pc'[t] = "hashing"
  BY DEF Types
\* The thread that moves.
<1>h. pc'[t] \in Span.bindEmail => create'.email \in {Email(t)} \cup mixed
  BY <1>s DEF Types, Email, BoundInv
<1>i. pc'[t] = "update" => update'.email \in {Email(t)} \cup mixed
  BY DEF Types, Email, BoundInv
<1>j. ASSUME Email(t) \notin mixed
      PROVE  pc'[t] \in Span.bindEmail => create'.email = Email(t)
  BY <1>j, <1>s DEF Types, Email, BoundInv
<1>k. ASSUME Email(t) \notin mixed
      PROVE  pc'[t] \in {"bindHash", "insert"} => create'.salt = Salt(t)
  BY <1>k DEF Types, BoundInv
<1>l. ASSUME Email(t) \notin mixed
      PROVE  pc'[t] = "insert" => create'.hash = hashed'[t]
  BY <1>l DEF Types, BoundInv
<1>m. ASSUME Email(t) \notin mixed
      PROVE  pc'[t] \in Span.bindUser => update'.user = userId'[t]
  BY <1>m, <1>s, SMTT(30) DEF Types, BoundInv
<1>n. pc'[t] = "update" => update'.email = Email(t)
  BY DEF Types, Email
<1>o. pc'[t] = "select" => login' = Email(t)
  BY DEF Types, Email
<1>p. ASSUME Email(t) \notin mixed
      PROVE  pc'[t] \in {"touch", "creation"} => creation' = userId'[t]
  BY <1>p, SMTT(30) DEF Types, BoundInv
<1>q. ASSUME pc'[t] \in Hashed, Email(t) \notin garbled'
      PROVE  hashed'[t] = HashOf(t)
  <2>1. CASE pc[t] = "hash"
    <3>1. HashBegin(t)
      BY <2>1
    <3> HIDE DEF Serve, Register, Authenticate, HashBegin, HashEnd, BindEmail, BindSalt, BindHash,
           Insert, InsertDuplicate, InsertError, AddUser, LastId, AddUserError, BindUser,
           BindUserEmail, Update, BindLogin, SelectValid, SelectInvalid, SelectError,
           BindTouch, BindCreation, Touch, Creation, TouchError, Reply, Goto,
           localVars, bindVars, dbVars, histVars
    <3>2. \A d \in Threads \ {t} : pc[d] # "hashing"
      <4>1. SUFFICES ASSUME NEW d \in Threads \ {t}, pc[d] = "hashing" PROVE FALSE
        OBVIOUS
      <4>2. pc'[d] = "hashing" /\ pc'[t] = "hashing" /\ Email(t)' = Email(t)
        BY <4>1, <2>1, <1>0, <1>1, <1>g
      <4> QED BY <4>2, <1>q DEF MeetInv
    <3>3. hashed'[t] = IF {d \in Threads : pc[d] = "hashing"} = {} THEN HashOf(t) ELSE Garbage
      BY <3>1 DEF HashBegin
    <3> QED BY <3>2, <3>3, <2>1
  <2>2. CASE pc[t] # "hash"
    <3>1. pc[t] \in Hashed /\ hashed'[t] \in {hashed[t], HashOf(t)}
      BY <2>2, <1>q DEF Types, Hashed
    <3> QED BY <3>1, <1>q, <1>0 DEF BoundInv
  <2> QED BY <2>1, <2>2
<1> HIDE DEF Serve, Register, Authenticate, HashBegin, HashEnd, BindEmail, BindSalt, BindHash,
           Insert, InsertDuplicate, InsertError, AddUser, LastId, AddUserError, BindUser,
           BindUserEmail, Update, BindLogin, SelectValid, SelectInvalid, SelectError,
           BindTouch, BindCreation, Touch, Creation, TouchError, Reply, Goto,
           localVars, bindVars, dbVars, histVars
<1>2. ASSUME pc'[t] # "idle"
      PROVE  BoundInv!(t)'
  BY <1>2, <1>0, <1>h, <1>i, <1>j, <1>k, <1>l, <1>m, <1>n, <1>o, <1>p, <1>q DEF BoundInv
<1>3. ASSUME pc'[t] = "idle"
      PROVE  BoundInv!(t)'
  BY <1>3, <1>s DEF BoundInv, Hashed
\* Another thread.
<1>4. ASSUME NEW d \in Threads \ {t}
      PROVE  BoundInv!(d)'
  <2>1. create' = create \/ pc[d] \notin Span.bindEmail
          \/ {Email(t), Email(d)} \subseteq mixed'
    BY <1>0, <1>1, <1>a, <1>s DEF MeetInv, Together
  <2>2. update' = update \/ pc[d] \notin Span.bindUser
          \/ {Email(t), Email(d)} \subseteq mixed'
    BY <1>0, <1>1, <1>b, <1>s DEF MeetInv, Together
  <2>3. login' = login \/ pc[d] # "select" \/ Email(d) \in mixed'
    BY <1>0, <1>1, <1>c, <1>s DEF MeetInv, Together
  <2>4. creation' = creation \/ pc[d] \notin {"touch", "creation"} \/ Email(d) \in mixed'
    BY <1>0, <1>1, <1>d, <1>s DEF MeetInv, Together
  <2>5. hashed'[d] = hashed[d] \/ (pc[d] = "hashing" /\ Email(d) \in garbled')
    BY <1>0, <1>1, <1>g DEF MeetInv
  <2>6. pc[d] \in Span.bindEmail => create'.email \in {Email(d)} \cup mixed'
    BY <2>1, <1>0, <1>e DEF BoundInv
  <2>7. pc[d] = "update" => update'.email \in {Email(d)} \cup mixed'
    BY <2>2, <1>0, <1>f, <1>s DEF BoundInv
  <2>8. ASSUME pc[d] # "idle", Email(d) \notin mixed'
        PROVE  /\ pc[d] \in Span.bindEmail => create'.email = Email(d)
               /\ pc[d] \in {"bindHash", "insert"} => create'.salt = Salt(d)
               /\ pc[d] = "insert" => create'.hash = hashed[d]
               /\ pc[d] \in Span.bindUser => update'.user = userId[d]
               /\ pc[d] = "update" => update'.email = Email(d)
               /\ pc[d] = "select" => login' = Email(d)
               /\ pc[d] \in {"touch", "creation"} => creation' = userId[d]
    BY <2>1, <2>2, <2>3, <2>4, <2>8, <1>0, <1>s DEF BoundInv
  <2>9. pc[d] \in Hashed /\ Email(d) \notin garbled' => hashed'[d] = HashOf(d)
    BY <2>5, <1>0 DEF BoundInv
  <2>10. pc[d] = "insert" => hashed'[d] = hashed[d]
    BY <1>1
  <2> QED BY <2>6, <2>7, <2>8, <2>9, <2>10, <1>1
<1> QED BY <1>2, <1>3, <1>4 DEF BoundInv

\* What a thread has made up its mind to answer stays true until it answers.
LEMMA VerdictServe ==
  ASSUME Types, StepInv, BoundInv, VerdictInv, NEW t \in Threads, Serve(t)
  PROVE  VerdictInv'
<1>0. /\ pc[t] # "idle" /\ request[t] \in Requests
      /\ Email(t) \in Emails /\ request[t].pw \in Passwords
      /\ pc'[t] # "idle" => Email(t)' = Email(t) /\ request'[t] = request[t]
      /\ mixed \subseteq mixed' /\ garbled \subseteq garbled'
  BY Frame DEF Email, Types, StepInv, Requests
<1>1. \A d \in Threads \ {t} :
        /\ pc'[d] = pc[d] /\ Email(d)' = Email(d) /\ request'[d] = request[d]
        /\ userId'[d] = userId[d] /\ verdict'[d] = verdict[d] /\ date'[d] = date[d]
        /\ pc[d] # "idle" => Email(d) \in Emails /\ request[d].pw \in Passwords
  BY Frame DEF Email, Types, StepInv, Requests
<1>2. \A e \in Emails : webAuth[e] # None =>
        webAuth'[e] # None /\ \A pw \in Passwords : Opens(e, pw) => Opens(e, pw)'
  BY RowsKept
<1> USE DEF Serve, Register, Authenticate, HashBegin, HashEnd, BindEmail, BindSalt, BindHash,
           Insert, InsertDuplicate, InsertError, AddUser, LastId, AddUserError, BindUser,
           BindUserEmail, Update, BindLogin, SelectValid, SelectInvalid, SelectError,
           BindTouch, BindCreation, Touch, Creation, TouchError, Reply, Goto,
           localVars, bindVars, dbVars, histVars
<1>a. ASSUME Email(t) \notin mixed, verdict'[t] = "authenticated", pc'[t] # "idle"
      PROVE  Opens(Email(t), request[t].pw)
  <2>1. \/ verdict[t] = "authenticated"
        \/ pc[t] = "select" /\ Opens(login, request[t].pw)
    BY <1>a DEF Types
  <2> HIDE DEF Serve, Register, Authenticate, HashBegin, HashEnd, BindEmail, BindSalt, BindHash,
           Insert, InsertDuplicate, InsertError, AddUser, LastId, AddUserError, BindUser,
           BindUserEmail, Update, BindLogin, SelectValid, SelectInvalid, SelectError,
           BindTouch, BindCreation, Touch, Creation, TouchError, Reply, Goto,
           localVars, bindVars, dbVars, histVars
  <2> QED BY <2>1, <1>a, <1>0 DEF VerdictInv, BoundInv
<1>b. ASSUME Email(t) \notin mixed, verdict'[t] = "exists", pc'[t] # "idle"
      PROVE  webAuth[Email(t)] # None
  <2>1. \/ verdict[t] = "exists"
        \/ pc[t] = "insert" /\ webAuth[create.email] # None
    BY <1>b DEF Types
  <2> HIDE DEF Serve, Register, Authenticate, HashBegin, HashEnd, BindEmail, BindSalt, BindHash,
           Insert, InsertDuplicate, InsertError, AddUser, LastId, AddUserError, BindUser,
           BindUserEmail, Update, BindLogin, SelectValid, SelectInvalid, SelectError,
           BindTouch, BindCreation, Touch, Creation, TouchError, Reply, Goto,
           localVars, bindVars, dbVars, histVars
  <2> QED BY <2>1, <1>b, <1>0 DEF VerdictInv, BoundInv, Span
<1>c. ASSUME Email(t) \notin mixed, pc'[t] \in Rowed \/ verdict'[t] = "created", pc'[t] # "idle"
      PROVE  /\ webAuth'[Email(t)] # None
             /\ Email(t) \notin garbled => Opens(Email(t), request[t].pw)'
  <2>1. pc[t] \in Rowed \/ verdict[t] = "created" \/ Insert(t)
    BY <1>c DEF Types, Rowed
  <2>2. CASE Insert(t)
    <3>1. /\ pc[t] = "insert"
          /\ webAuth' = [webAuth EXCEPT ![create.email] = NewRow]
      BY <2>2 DEF InsertRow
    <3> HIDE DEF Serve, Register, Authenticate, HashBegin, HashEnd, BindEmail, BindSalt, BindHash,
           Insert, InsertDuplicate, InsertError, AddUser, LastId, AddUserError, BindUser,
           BindUserEmail, Update, BindLogin, SelectValid, SelectInvalid, SelectError,
           BindTouch, BindCreation, Touch, Creation, TouchError, Reply, Goto,
           localVars, bindVars, dbVars, histVars
    <3>2. webAuth'[Email(t)] = [salt |-> Salt(t), hash |-> hashed[t], user |-> Placeholder]
      BY <3>1, <1>0, <1>c DEF BoundInv, Span, NewRow, Types
    <3>3. create.salt \in Salts /\ create.hash \in Hashes
      BY <3>1 DEF StepInv
    <3>4. webAuth'[Email(t)] \in Rows
      BY <3>1, <3>2, <3>3, <1>0, <1>c, AuthServerAssumption DEF BoundInv, Rows
    <3>5. Email(t) \notin garbled => hashed[t] = [salt |-> Salt(t), pw |-> request[t].pw]
      BY <3>1 DEF BoundInv, HashOf, Hashed
    <3>6. webAuth'[Email(t)] # None
      BY <3>4, NothingAssumption
    <3>7. request'[t] = request[t] /\ Email(t)' = Email(t)
      BY <1>0, <1>c
    <3> QED BY <3>2, <3>5, <3>6, <3>7 DEF Opens
  <2>3. CASE pc[t] \in Rowed \/ verdict[t] = "created"
    <3> HIDE DEF Serve, Register, Authenticate, HashBegin, HashEnd, BindEmail, BindSalt, BindHash,
           Insert, InsertDuplicate, InsertError, AddUser, LastId, AddUserError, BindUser,
           BindUserEmail, Update, BindLogin, SelectValid, SelectInvalid, SelectError,
           BindTouch, BindCreation, Touch, Creation, TouchError, Reply, Goto,
           localVars, bindVars, dbVars, histVars
    <3>1. /\ webAuth[Email(t)] # None
          /\ Email(t) \notin garbled => Opens(Email(t), request[t].pw)
      BY <2>3, <1>0, <1>c DEF VerdictInv
    <3>2. request'[t] = request[t] /\ Email(t)' = Email(t)
      BY <1>0, <1>c
    <3> QED BY <3>1, <3>2, <1>0, <1>2 DEF Opens
  <2> QED BY <2>1, <2>2, <2>3
<1>d. ASSUME Email(t) \notin mixed, pc'[t] # "idle"
      PROVE  date'[t] \in {userId'[t], None}
  <2>1. pc'[t] # "reply" => date'[t] = None
    BY <1>d DEF Types, StepInv
  <2>2. pc'[t] = "reply" =>
          \/ date'[t] = date[t]
          \/ date'[t] \in {creation, None} /\ pc[t] = "creation" /\ userId'[t] = userId[t]
    BY <1>d DEF Types
  <2>3. pc'[t] = "reply" => pc[t] \notin {"idle", "reply"}
    BY <1>d DEF Types
  <2> HIDE DEF Serve, Register, Authenticate, HashBegin, HashEnd, BindEmail, BindSalt, BindHash,
           Insert, InsertDuplicate, InsertError, AddUser, LastId, AddUserError, BindUser,
           BindUserEmail, Update, BindLogin, SelectValid, SelectInvalid, SelectError,
           BindTouch, BindCreation, Touch, Creation, TouchError, Reply, Goto,
           localVars, bindVars, dbVars, histVars
  <2> QED BY <2>1, <2>2, <2>3, <1>d, <1>0 DEF BoundInv, StepInv
<1> HIDE DEF Serve, Register, Authenticate, HashBegin, HashEnd, BindEmail, BindSalt, BindHash,
           Insert, InsertDuplicate, InsertError, AddUser, LastId, AddUserError, BindUser,
           BindUserEmail, Update, BindLogin, SelectValid, SelectInvalid, SelectError,
           BindTouch, BindCreation, Touch, Creation, TouchError, Reply, Goto,
           localVars, bindVars, dbVars, histVars
<1>3. ASSUME pc'[t] # "idle", Email(t)' \notin mixed'
      PROVE  /\ verdict'[t] = "authenticated" => Opens(Email(t), request[t].pw)'
             /\ verdict'[t] = "exists" => webAuth'[Email(t)'] # None
             /\ pc'[t] \in Rowed \/ verdict'[t] = "created" =>
                  /\ webAuth'[Email(t)'] # None
                  /\ Email(t)' \notin garbled' => Opens(Email(t), request[t].pw)'
             /\ date'[t] \in {userId'[t], None}
  <2>1. Email(t) \notin mixed /\ Email(t)' = Email(t) /\ request'[t] = request[t]
    BY <1>3, <1>0
  <2>2. Opens(Email(t), request[t].pw) => Opens(Email(t), request[t].pw)'
    BY <2>1, <1>0, <1>2 DEF Opens
  <2> QED BY <2>1, <2>2, <1>0, <1>2, <1>3, <1>a, <1>b, <1>c, <1>d
<1>4. ASSUME NEW d \in Threads \ {t}, pc[d] # "idle", Email(d) \notin mixed'
      PROVE  /\ verdict[d] = "authenticated" => Opens(Email(d), request[d].pw)'
             /\ verdict[d] = "exists" => webAuth'[Email(d)] # None
             /\ pc[d] \in Rowed \/ verdict[d] = "created" =>
                  /\ webAuth'[Email(d)] # None
                  /\ Email(d) \notin garbled' => Opens(Email(d), request[d].pw)'
             /\ date[d] \in {userId[d], None}
  <2>1. Opens(Email(d), request[d].pw) => Opens(Email(d), request[d].pw)'
    BY <1>1, <1>2, <1>4 DEF Opens
  <2> QED BY <2>1, <1>0, <1>1, <1>2, <1>4 DEF VerdictInv
<1> QED BY <1>1, <1>3, <1>4 DEF VerdictInv

\* The second INSERT of an email fails.
LEMMA OnceServe ==
  ASSUME Types, StepInv, BoundInv, VerdictInv, OnceInv, NEW t \in Threads, Serve(t)
  PROVE  OnceInv'
<1>0. /\ pc[t] # "idle" /\ mixed \subseteq mixed'
      /\ pc'[t] # "idle" => Email(t)' = Email(t)
  BY Frame DEF Email
<1>1. \A d \in Threads \ {t} :
        Email(d)' = Email(d) /\ PastInsert(d)' = PastInsert(d)
  BY Frame DEF Email, PastInsert
<1>2. ASSUME PastInsert(t)', ~PastInsert(t)
      PROVE  pc[t] = "insert" /\ webAuth[create.email] = None
  <2> USE DEF Serve, Register, Authenticate, HashBegin, HashEnd, BindEmail, BindSalt, BindHash,
           Insert, InsertDuplicate, InsertError, AddUser, LastId, AddUserError, BindUser,
           BindUserEmail, Update, BindLogin, SelectValid, SelectInvalid, SelectError,
           BindTouch, BindCreation, Touch, Creation, TouchError, Reply, Goto,
           localVars, bindVars, dbVars, histVars
  <2>1. CASE pc[t] = "insert"
    BY <2>1, <1>2 DEF Types, PastInsert, Rowed
  <2>2. CASE pc[t] # "insert"
    BY <2>2, <1>2 DEF Types, PastInsert, Rowed
  <2> QED BY <2>1, <2>2
<1>3. ASSUME NEW d \in Threads \ {t}, PastInsert(t)', PastInsert(d), Email(t) = Email(d),
             Email(t) \notin mixed
      PROVE  FALSE
  <2>1. CASE PastInsert(t)
    BY <1>3, <2>1 DEF OnceInv
  <2>2. CASE ~PastInsert(t)
    BY <1>0, <1>2, <1>3, <2>2 DEF BoundInv, VerdictInv, PastInsert, Span
  <2> QED BY <2>1, <2>2
<1>4. PastInsert(t)' => Email(t)' = Email(t)
  BY <1>0 DEF PastInsert
<1> QED BY <1>0, <1>1, <1>3, <1>4 DEF OnceInv
-----------------------------------------------------------------------------
(* Users.                                                                  *)

\* Who is past the INSERT is registering an account.
LEMMA RegisteringIs ==
  ASSUME StepInv, NEW e \in Emails
  PROVE  Registering(e) <=> \E d \in Threads : pc[d] \in Rowed /\ Email(d) = e
BY DEF Registering, StepInv, Rowed, Creator, Email

\* A thread registers an email from its INSERT to its UPDATE.
LEMMA RegisteringSteps ==
  ASSUME Types, StepInv, NEW t \in Threads, Serve(t), StepInv', NEW e \in Emails
  PROVE  /\ Registering(e)' /\ ~Registering(e) =>
              e = Email(t) /\ pc[t] = "insert" /\ pc'[t] = "addUser"
         /\ Registering(e) /\ ~Registering(e)' =>
              e = Email(t) /\ pc[t] = "update" /\ pc'[t] = "reply"
         /\ pc[t] = "insert" /\ pc'[t] = "addUser" /\ e = Email(t) => Registering(e)'
<1>1. Registering(e) <=> \E d \in Threads : pc[d] \in Rowed /\ Email(d) = e
  BY RegisteringIs
<1>2. Registering(e)' <=> \E d \in Threads : pc'[d] \in Rowed /\ Email(d)' = e
  BY DEF Registering, StepInv, Rowed, Creator, Email
<1>3. \A d \in Threads \ {t} : pc'[d] = pc[d] /\ Email(d)' = Email(d)
  BY Frame DEF Email
<1>4. pc'[t] \in Rowed => Email(t)' = Email(t)
  BY Frame DEF Email, Rowed
<1>5. pc'[t] \in Rowed /\ pc[t] \notin Rowed => pc[t] = "insert" /\ pc'[t] = "addUser"
  BY Moves
<1>6. pc'[t] \notin Rowed /\ pc[t] \in Rowed => pc[t] = "update" /\ pc'[t] = "reply"
  BY Moves
<1> QED BY <1>1, <1>2, <1>3, <1>4, <1>5, <1>6 DEF Rowed

\* Whose row it is that changes, and the user it gets.
LEMMA RowUser ==
  ASSUME Types, StepInv, BoundInv, VerdictInv, NEW t \in Threads, Serve(t),
         NEW e \in Emails, e \notin mixed, webAuth'[e] # webAuth[e]
  PROVE  /\ e = Email(t) /\ webAuth'[e] # None
         /\ \/ Inserted(t, e) /\ webAuth'[e].user = Placeholder
            \/ Updated(t, e) /\ webAuth'[e].user = userId[t]
<1>1. CASE Inserted(t, e)
  <2>1. e = Email(t)
    BY <1>1 DEF Inserted, BoundInv, Span
  <2>2. NewRow \in Rows /\ NewRow.user = Placeholder
    BY <1>1, AuthServerAssumption DEF Inserted, StepInv, NewRow, Rows
  <2> QED BY <1>1, <2>1, <2>2, NothingAssumption DEF Inserted
<1>2. CASE Updated(t, e)
  <2>1. e = Email(t) /\ update.user = userId[t]
    BY <1>2 DEF Updated, BoundInv, Span
  <2>2. webAuth[e] \in Rows /\ update.user \in Int
    BY <1>2 DEF Updated, Types, StepInv
  <2>3. webAuth'[e] \in Rows /\ webAuth'[e].user = update.user
    BY <1>2, <2>2 DEF Updated, Rows
  <2> QED BY <1>2, <2>1, <2>3, NothingAssumption
<1> QED BY <1>1, <1>2, RowSteps

\* Where a thread is that is about to answer with a user id.
LEMMA VerdictAt ==
  ASSUME Types, StepInv, NEW t \in Threads
  PROVE  /\ verdict[t] \in {"created", "invalid"} => pc[t] = "reply"
         /\ verdict[t] = "authenticated" =>
              pc[t] \in (Asker \ {"bindLogin", "select"}) \cup {"reply"}
<1>1. \/ pc[t] \in Creator \cup {"idle", "bindLogin", "select"}
      \/ pc[t] \in Asker \ {"bindLogin", "select"}
      \/ pc[t] = "reply"
  BY DEF Types, Steps, Creator, Hashed, Rowed, Asker
<1>2. pc[t] \in Creator \cup {"idle", "bindLogin", "select"} => verdict[t] = None
  BY DEF StepInv
<1>3. pc[t] \in Asker \ {"bindLogin", "select"} => verdict[t] = "authenticated"
  BY DEF StepInv
<1>4. None \notin {"created", "authenticated", "invalid"}
  BY NothingAssumption DEF Verdicts
<1> QED BY <1>1, <1>2, <1>3, <1>4

\* A reply is appended or the replies stay.
LEMMA RepliesSteps ==
  ASSUME Types, StepInv, NEW t \in Threads, Serve(t), Types', NEW k \in 1 .. Len(replies')
  PROVE  \/ k \in 1 .. Len(replies) /\ replies'[k] = replies[k]
         \/ /\ Reply(t) /\ pc[t] = "reply"
            /\ replies'[k].request = request[t] /\ replies'[k].answer = verdict[t]
            /\ replies'[k].user = IF verdict[t] \in {"created", "authenticated"}
                                  THEN userId[t] ELSE None
            /\ replies'[k].date = date[t]
<1>1. CASE Reply(t)
  BY <1>1 DEF Reply, Goto, Types
<1>2. CASE ~Reply(t)
  <2>1. replies' = replies
    BY <1>2, Moves
  <2> QED BY <2>1
<1> QED BY <1>1, <1>2

\* The placeholder is replaced once, by the id the client is told.
LEMMA UserServe ==
  ASSUME Types, StepInv, BoundInv, VerdictInv, OnceInv, UserInv, ToldIdIsStored,
         NEW t \in Threads, Serve(t), Types', StepInv', OnceInv'
  PROVE  UserInv'
<1>0. /\ pc[t] # "idle" /\ Email(t) \in Emails
      /\ pc'[t] # "idle" => Email(t)' = Email(t)
      /\ mixed \subseteq mixed' /\ failed \subseteq failed'
      /\ \A e : Clean(e)' => Clean(e) /\ e \notin mixed
  BY Frame DEF Email, Types, StepInv, Requests, Clean
<1>1. \A d \in Threads \ {t} :
        /\ pc'[d] = pc[d] /\ Email(d)' = Email(d)
        /\ userId'[d] = userId[d] /\ verdict'[d] = verdict[d]
        /\ pc[d] # "idle" => Email(d) \in Emails
  <2>1. \A d \in Threads : pc[d] # "idle" => Email(d) \in Emails
    BY DEF Email, Types, StepInv, Requests
  <2> QED BY <2>1, Frame DEF Email
<1>2. ASSUME NEW e \in Emails, Clean(e)', Registering(e)'
      PROVE  webAuth'[e].user = Placeholder
  <2>1. CASE webAuth'[e] = webAuth[e]
    <3>1. Registering(e) \/ (e = Email(t) /\ pc[t] = "insert" /\ pc'[t] = "addUser")
      BY <1>2, RegisteringSteps
    <3>2. CASE Registering(e)
      BY <2>1, <3>2, <1>2, <1>0 DEF UserInv
    <3>3. CASE e = Email(t) /\ pc[t] = "insert" /\ pc'[t] = "addUser"
      <4>1. webAuth[e] = None
        BY <3>3, <1>0, <1>2, Moves DEF BoundInv, Span
      <4>2. webAuth'[e] # None
        <5>1. VerdictInv'
          BY VerdictServe
        <5> QED BY <5>1, <3>3, <1>2, <1>0 DEF VerdictInv, Rowed, Clean
      <4> QED BY <2>1, <4>1, <4>2
    <3> QED BY <3>1, <3>2, <3>3
  <2>2. CASE webAuth'[e] # webAuth[e]
    <3>1. e = Email(t) /\ (webAuth'[e].user = Placeholder \/ Updated(t, e))
      BY <2>2, <1>0, <1>2, RowUser
    <3>2. ASSUME Updated(t, e) PROVE FALSE
      <4>1. PICK d \in Threads : pc'[d] \in Rowed /\ Email(d)' = e
        BY <1>2 DEF Registering, StepInv, Rowed, Creator, Email
      <4>2. d # t /\ pc[d] \in Rowed /\ Email(d) = e
        BY <4>1, <3>2, <1>1 DEF Updated, Rowed
      <4> QED BY <4>2, <3>1, <3>2, <1>0, <1>2 DEF OnceInv, PastInsert, Updated, Rowed
    <3> QED BY <3>1, <3>2
  <2> QED BY <2>1, <2>2
<1>3. ASSUME NEW d \in Threads \ {t}, pc[d] # "idle", Clean(Email(d))'
      PROVE  /\ verdict[d] = "created" => userId[d] = webAuth'[Email(d)].user
             /\ verdict[d] = "authenticated" =>
                  userId[d] = webAuth'[Email(d)].user \/ userId[d] = Placeholder
  <2> DEFINE e == Email(d)
  <2>0. e \in Emails /\ Clean(e) /\ e \notin mixed /\ Email(d)' = Email(d)
    BY <1>0, <1>1, <1>3 DEF Clean
  <2>1. CASE webAuth'[e] = webAuth[e]
    BY <2>0, <2>1, <1>3 DEF UserInv
  <2>2. CASE webAuth'[e] # webAuth[e]
    <3>1. e = Email(t) /\ (Inserted(t, e) \/ Updated(t, e))
      BY <2>0, <2>2, RowUser
    <3>2. CASE Inserted(t, e)
      BY <3>2, <2>0, <1>3 DEF Inserted, VerdictInv, Opens
    <3>3. CASE Updated(t, e)
      <4>1. verdict[d] # "created"
        BY <3>1, <3>3, <2>0, <1>3 DEF OnceInv, PastInsert, Updated, Rowed
      <4>2. webAuth[e].user = Placeholder
        BY <3>1, <3>3, <2>0, RegisteringIs DEF UserInv, Updated, Rowed
      <4> QED BY <4>1, <4>2, <2>0, <1>3 DEF UserInv
    <3> QED BY <3>1, <3>2, <3>3
  <2> QED BY <2>1, <2>2
<1>4. ASSUME pc'[t] # "idle", Clean(Email(t))'
      PROVE  /\ verdict'[t] = "created" => userId'[t] = webAuth'[Email(t)].user
             /\ verdict'[t] = "authenticated" =>
                  userId'[t] = webAuth'[Email(t)].user \/ userId'[t] = Placeholder
  <2>0. Clean(Email(t)) /\ Email(t) \notin mixed /\ Email(t) \notin failed'
    BY <1>0, <1>4 DEF Clean
  <2>1. ASSUME verdict'[t] = "created"
        PROVE  userId'[t] = webAuth'[Email(t)].user
    <3>1. pc[t] # "reply" /\ verdict[t] # "created"
      <4>1. pc[t] # "reply"
        BY <1>4, Moves
      <4> QED BY <4>1, VerdictAt
    <3>2. Update(t)
      BY <3>1, <2>1, Moves
    <3>3. pc[t] = "update" /\ userId' = userId /\ SetUser
      BY <3>2, <2>0 DEF Update, Goto, Fail, Email
    <3>4. webAuth[Email(t)] # None
      BY <3>3, <2>0 DEF VerdictInv, Rowed
    <3>5. update.email = Email(t) /\ update.user = userId[t] /\ webAuth[Email(t)] \in Rows
      BY <3>3, <3>4, <2>0, <1>0 DEF BoundInv, Span, Types
    <3>6. webAuth'[Email(t)] = [webAuth[Email(t)] EXCEPT !.user = userId[t]]
      BY <3>3, <3>4, <3>5, <1>0 DEF SetUser
    <3> QED BY <3>3, <3>5, <3>6 DEF Rows
  <2>2. ASSUME verdict'[t] = "authenticated"
        PROVE  userId'[t] = webAuth'[Email(t)].user \/ userId'[t] = Placeholder
    <3>1. CASE pc[t] = "select"
      <4>1. userId'[t] = webAuth[login].user /\ webAuth' = webAuth
        BY <3>1, <2>2, Moves
      <4> QED BY <3>1, <4>1, <2>0 DEF BoundInv
    <3>2. CASE pc[t] # "select"
      <4>1. pc[t] # "reply"
        BY <1>4, Moves
      <4>2. verdict[t] = "authenticated" /\ pc[t] \in Asker \ {"bindLogin", "select"}
        BY <4>1, <3>2, <2>2, Moves, VerdictAt
      <4>3. userId' = userId /\ webAuth' = webAuth
        BY <4>2, Moves
      <4> QED BY <4>2, <4>3, <2>0, <1>0 DEF UserInv
    <3> QED BY <3>1, <3>2
  <2> QED BY <2>1, <2>2
<1>5. ASSUME NEW k \in 1 .. Len(replies'), replies'[k].answer = "created",
             NEW e \in Emails, e = replies'[k].request.email, Clean(e)', Registering(e)'
      PROVE  FALSE
  <2>0. Clean(e) /\ e \notin mixed /\ e \notin failed
    BY <1>0, <1>5 DEF Clean
  <2>1. PICK d \in Threads : pc'[d] \in Rowed /\ Email(d)' = e
    BY <1>5 DEF Registering, StepInv, Rowed, Creator, Email
  <2>2. CASE k \in 1 .. Len(replies) /\ replies'[k] = replies[k]
    <3>1. webAuth[e] # None /\ ~Registering(e)
      BY <2>0, <2>2, <1>5 DEF ToldIdIsStored, UserInv
    <3>2. e = Email(t) /\ pc[t] = "insert" /\ pc'[t] = "addUser"
      BY <3>1, <2>0, <1>5, RegisteringSteps
    <3> QED BY <3>1, <3>2, <2>0, Moves DEF BoundInv, Span
  <2>3. CASE Reply(t) /\ replies'[k].request = request[t] /\ replies'[k].answer = verdict[t]
    <3>1. d # t /\ pc[d] \in Rowed /\ Email(d) = e /\ Email(t) = e
      BY <2>1, <2>3, <1>1, <1>5 DEF Reply, Goto, Rowed, Email, Types
    <3> QED BY <3>1, <2>0, <2>3, <1>0, <1>5 DEF OnceInv, PastInsert, Rowed
  <2> QED BY <2>2, <2>3, RepliesSteps
<1>6. \A k \in 1 .. Len(replies') : replies'[k].request.email \in Emails
  <2>1. replies' \in Seq(Replies)
    BY DEF Types
  <2>2. \A k \in 1 .. Len(replies') : replies'[k] \in Replies
    BY <2>1
  <2> QED BY <2>2 DEF Replies, Requests
<1> QED
  BY <1>0, <1>1, <1>2, <1>3, <1>4, <1>5, <1>6 DEF UserInv

\* A new user id is nobody's yet, and becomes the user of one account.
LEMMA OwnServe ==
  ASSUME Types, StepInv, MeetInv, BoundInv, VerdictInv, OwnInv, SettledAccountHasOwnUser,
         NEW t \in Threads, Serve(t), StepInv', MeetInv'
  PROVE  OwnInv' /\ SettledAccountHasOwnUser'
<1>0. /\ pc[t] # "idle" /\ Email(t) \in Emails /\ users \in Nat
      /\ pc'[t] # "idle" => Email(t)' = Email(t)
      /\ mixed \subseteq mixed' /\ failed \subseteq failed'
  BY Frame DEF Email, Types, StepInv, Requests
<1>1. \A d \in Threads \ {t} :
        pc'[d] = pc[d] /\ Email(d)' = Email(d) /\ userId'[d] = userId[d]
  BY Frame DEF Email
<1>a. \/ users' = users /\ lastInsert' = lastInsert
      \/ pc[t] = "addUser" /\ pc'[t] = "lastId" /\ users' = users + 1 /\ lastInsert' = users + 1
  BY Moves
<1>2. ASSUME NEW d \in Threads \ {t}, Holding(d)'
      PROVE  Holding(d) /\ IdOf(d)' = IdOf(d)
  <2>1. Holding(d)
    BY <1>0, <1>1, <1>2 DEF Holding, Clean
  <2>2. CASE pc[d] = "lastId" /\ pc'[t] = "lastId"
    BY <2>2, <1>1, <1>2 DEF MeetInv, Together, Span, Holding, Clean
  <2>3. CASE ~(pc[d] = "lastId" /\ pc'[t] = "lastId")
    BY <2>1, <2>3, <1>1, <1>a DEF IdOf
  <2> QED BY <2>1, <2>2, <2>3
<1>3. ASSUME Holding(t)'
      PROVE  \/ Holding(t) /\ IdOf(t)' = IdOf(t)
             \/ IdOf(t)' = users + 1 /\ users' = users + 1
  <2>1. Clean(Email(t)) /\ Email(t) \notin failed' /\ pc'[t] \in Rowed \ {"addUser"}
    BY <1>0, <1>3 DEF Holding, Clean, Rowed
  <2>2. CASE AddUser(t)
    BY <2>2, <2>1 DEF AddUser, Goto, IdOf, Types
  <2>3. CASE LastId(t)
    BY <2>3, <2>1 DEF LastId, Goto, IdOf, Types, Holding, Rowed
  <2>4. CASE BindUser(t) \/ BindUserEmail(t)
    BY <2>4, <2>1 DEF BindUser, BindUserEmail, Goto, localVars, IdOf, Types, Holding, Rowed
  <2>5. AddUser(t) \/ LastId(t) \/ BindUser(t) \/ BindUserEmail(t)
    BY <2>1, Moves
  <2> QED BY <2>2, <2>3, <2>4, <2>5
<1>4. ASSUME NEW e \in Emails, Settled(e)'
      PROVE  \/ Settled(e) /\ webAuth'[e] = webAuth[e]
             \/ Holding(t) /\ ~Holding(t)' /\ e = Email(t) /\ webAuth'[e].user = IdOf(t)
  <2>0. /\ e \notin mixed /\ e \notin failed /\ e \notin failed'
        /\ webAuth'[e] # None /\ ~Registering(e)'
    BY <1>0, <1>4 DEF Settled
  <2>1. CASE e = Email(t) /\ pc[t] = "update" /\ pc'[t] = "reply"
    <3>1. pc[t] = "update" /\ SetUser
      BY <2>0, <2>1, Moves DEF Update, Email, Fail
    <3>2. /\ webAuth[e] \in Rows /\ update.email = e /\ update.user = userId[t]
          /\ webAuth[e] # None
      BY <3>1, <2>0, <2>1 DEF BoundInv, VerdictInv, Span, Rowed, Types
    <3>3. webAuth'[e] = [webAuth[e] EXCEPT !.user = userId[t]]
      BY <3>1, <3>2 DEF SetUser
    <3>4. Holding(t) /\ ~Holding(t)' /\ IdOf(t) = userId[t]
      BY <2>0, <2>1 DEF Holding, IdOf, Rowed, Clean
    <3> QED BY <2>1, <3>2, <3>3, <3>4 DEF Rows
  <2>2. CASE ~(e = Email(t) /\ pc[t] = "update" /\ pc'[t] = "reply")
    <3>1. webAuth'[e] = webAuth[e]
      BY <2>0, <2>2, RowUser, RegisteringSteps DEF Inserted, Updated
    <3>2. ~Registering(e)
      BY <2>0, <2>2, RegisteringSteps
    <3> QED BY <3>1, <3>2, <2>0 DEF Settled
  <2> QED BY <2>1, <2>2
<1>5. \A e \in Emails : Settled(e) => webAuth[e].user \in 1 .. users
  BY DEF SettledAccountHasOwnUser
<1>6. users' \in {users, users + 1}
  BY <1>a
<1>7. ASSUME NEW d \in Threads, Holding(d)'
      PROVE  IdOf(d)' \in 1 .. users'
  BY <1>0, <1>2, <1>3, <1>6, <1>7 DEF OwnInv
<1>8. ASSUME NEW d \in Threads, NEW c \in Threads, Holding(d)', Holding(c)', d # c
      PROVE  IdOf(d)' # IdOf(c)'
  BY <1>0, <1>2, <1>3, <1>8 DEF OwnInv
<1>9. ASSUME NEW d \in Threads, NEW e \in Emails, Holding(d)', Settled(e)'
      PROVE  webAuth'[e].user # IdOf(d)'
  <2>1. CASE Settled(e) /\ webAuth'[e] = webAuth[e]
    BY <2>1, <1>0, <1>2, <1>3, <1>5, <1>9 DEF OwnInv
  <2>2. CASE Holding(t) /\ ~Holding(t)' /\ e = Email(t) /\ webAuth'[e].user = IdOf(t)
    BY <2>2, <1>2, <1>9 DEF OwnInv
  <2> QED BY <2>1, <2>2, <1>4, <1>9
<1>10. ASSUME NEW e \in Emails, Settled(e)'
       PROVE  webAuth'[e].user \in 1 .. users'
  BY <1>0, <1>4, <1>5, <1>6, <1>10 DEF OwnInv
<1>11. ASSUME NEW e \in Emails, NEW f \in Emails \ {e}, Settled(e)', Settled(f)'
       PROVE  webAuth'[e].user # webAuth'[f].user
  BY <1>4, <1>11 DEF OwnInv, SettledAccountHasOwnUser
<1> QED
  BY <1>7, <1>8, <1>9, <1>10, <1>11 DEF OwnInv, SettledAccountHasOwnUser
-----------------------------------------------------------------------------
(* Replies, and the other kinds of step.                                   *)

\* The answers given stay true, and a new one is as true as the verdict was.
LEMMA RepliesServe ==
  ASSUME AuthInv, NEW t \in Threads, Serve(t), Types'
  PROVE  /\ LoginNeedsOwnPassword' /\ CreatedAccountOpens' /\ ToldIdIsStored'
         /\ DateIsOfTheUser' /\ ExistsIsTrue'
<1>0. Types /\ StepInv /\ BoundInv /\ VerdictInv /\ UserInv
  BY DEF AuthInv
<1>1. /\ mixed \subseteq mixed' /\ garbled \subseteq garbled' /\ failed \subseteq failed'
      /\ pc[t] # "idle" /\ request[t] \in Requests /\ Email(t) = request[t].email
  BY <1>0, Frame DEF Types, StepInv, Email
<1>2. \A e \in Emails : webAuth[e] # None =>
        webAuth'[e] # None /\ \A pw \in Passwords : Opens(e, pw) => Opens(e, pw)'
  BY <1>0, RowsKept
<1>3. SUFFICES
        ASSUME NEW k \in 1 .. Len(replies'), NEW e \in Emails, NEW pw \in Passwords,
               e = replies'[k].request.email, pw = replies'[k].request.pw
        PROVE  /\ replies'[k].answer = "authenticated" => Opens(e, pw)' \/ e \in mixed'
               /\ replies'[k].answer = "created" => Opens(e, pw)' \/ e \in mixed' \cup garbled'
               /\ replies'[k].answer \in {"created", "authenticated"} =>
                    \/ e \in mixed' \cup failed'
                    \/ webAuth'[e] # None /\ replies'[k].user = webAuth'[e].user
                    \/ replies'[k].answer = "authenticated" /\ replies'[k].user = Placeholder
               /\ replies'[k].date \in {replies'[k].user, None} \/ e \in mixed'
               /\ replies'[k].answer = "exists" => webAuth'[e] # None \/ e \in mixed'
  <2>1. replies' \in Seq(Replies)
    BY DEF Types
  <2>2. \A k \in 1 .. Len(replies') : replies'[k] \in Replies
    BY <2>1
  <2>3. \A k \in 1 .. Len(replies') :
          replies'[k].request.email \in Emails /\ replies'[k].request.pw \in Passwords
    BY <2>2 DEF Replies, Requests
  <2> QED
    BY <2>3 DEF LoginNeedsOwnPassword, CreatedAccountOpens, ToldIdIsStored, DateIsOfTheUser,
                ExistsIsTrue, Opens
<1>4. CASE k \in 1 .. Len(replies) /\ replies'[k] = replies[k]
  <2>1. /\ replies[k].answer = "authenticated" => Opens(e, pw) \/ e \in mixed
        /\ replies[k].answer = "created" => Opens(e, pw) \/ e \in mixed \cup garbled
        /\ replies[k].date \in {replies[k].user, None} \/ e \in mixed
        /\ replies[k].answer = "exists" => webAuth[e] # None \/ e \in mixed
    BY <1>3, <1>4 DEF AuthInv, LoginNeedsOwnPassword, CreatedAccountOpens, DateIsOfTheUser,
                      ExistsIsTrue
  <2>2. ASSUME replies[k].answer \in {"created", "authenticated"}, Clean(e)
        PROVE  \/ webAuth'[e] # None /\ replies[k].user = webAuth'[e].user
               \/ replies[k].answer = "authenticated" /\ replies[k].user = Placeholder
    <3>1. \/ webAuth[e] # None /\ replies[k].user = webAuth[e].user
          \/ replies[k].answer = "authenticated" /\ replies[k].user = Placeholder
      BY <1>3, <1>4, <2>2 DEF AuthInv, ToldIdIsStored, Clean
    <3>2. CASE webAuth'[e] = webAuth[e]
      BY <3>1, <3>2
    <3>3. CASE webAuth'[e] # webAuth[e] /\ webAuth[e] # None
      <4>1. pc[t] = "update" /\ e = Email(t)
        BY <3>3, <2>2, <1>0, RowUser DEF Inserted, Updated, Clean
      <4>2. Registering(e)
        BY <4>1, <1>0, RegisteringIs DEF Rowed
      <4>3. replies[k].answer # "created" /\ webAuth[e].user = Placeholder
        BY <4>2, <2>2, <1>0, <1>3, <1>4 DEF UserInv
      <4> QED BY <3>1, <4>3, <2>2
    <3> QED BY <3>1, <3>2, <3>3
  <2>3. Opens(e, pw) => Opens(e, pw)'
    BY <1>2 DEF Opens
  <2> QED BY <2>1, <2>2, <2>3, <1>1, <1>2, <1>4 DEF Clean
<1>5. CASE /\ Reply(t) /\ pc[t] = "reply"
           /\ replies'[k].request = request[t] /\ replies'[k].answer = verdict[t]
           /\ replies'[k].user = IF verdict[t] \in {"created", "authenticated"}
                                 THEN userId[t] ELSE None
           /\ replies'[k].date = date[t]
  <2>1. e = Email(t) /\ pw = request[t].pw /\ webAuth' = webAuth
    BY <1>1, <1>3, <1>5 DEF Reply, dbVars
  <2>2. Opens(e, pw)' <=> Opens(e, pw)
    BY <2>1 DEF Opens
  <2>3. verdict[t] # "authenticated" => date[t] = None
    BY <1>0 DEF StepInv
  <2>4. ASSUME e \notin mixed
        PROVE  /\ verdict[t] = "authenticated" => Opens(e, pw)
               /\ verdict[t] = "created" => (Opens(e, pw) \/ e \in garbled) /\ webAuth[e] # None
               /\ verdict[t] = "exists" => webAuth[e] # None
               /\ date[t] \in {userId[t], None}
    BY <2>1, <2>4, <1>0, <1>1 DEF VerdictInv
  <2>5. ASSUME Clean(e)
        PROVE  /\ verdict[t] = "created" => userId[t] = webAuth[e].user
               /\ verdict[t] = "authenticated" =>
                    userId[t] = webAuth[e].user \/ userId[t] = Placeholder
    BY <2>1, <2>5, <1>0, <1>1 DEF UserInv
  <2>6. Opens(e, pw) => webAuth[e] # None
    BY DEF Opens
  <2> QED BY <2>1, <2>2, <2>3, <2>4, <2>5, <2>6, <1>1, <1>5 DEF Clean
<1> QED BY <1>0, <1>4, <1>5, RepliesSteps

\* A thread that takes a request disturbs nobody.
LEMMA TakeKeeps ==
  ASSUME AuthInv, NEW t \in Threads, NEW r \in Requests, Take(t, r)
  PROVE  AuthInv'
<1> USE DEF Take, Goto, bindVars, dbVars, histVars
<1>0. Types /\ StepInv /\ MeetInv /\ BoundInv /\ VerdictInv /\ OnceInv /\ UserInv /\ OwnInv
  BY DEF AuthInv
<1>1. /\ pc[t] = "idle" /\ pc'[t] \in {"hash", "bindLogin"} /\ request'[t] = r /\ r # None
      /\ (pc'[t] = "hash" <=> r.kind = "create") /\ r.kind \in {"create", "authenticate"}
      /\ r.email \in Emails
  BY <1>0, NothingAssumption DEF Types, Requests
<1>2. \A d \in Threads \ {t} :
        pc'[d] = pc[d] /\ request'[d] = request[d] /\ served'[d] = served[d]
  BY <1>0 DEF Types
<1>3. /\ UNCHANGED <<userId, date, verdict, hashed, create, update, login, touch, creation>>
      /\ UNCHANGED <<webAuth, users, lastInsert, replies, crashes, mixed, garbled, failed>>
  OBVIOUS
<1>4. Types'
  <2>1. pc' \in [Threads -> Steps]
    BY <1>0 DEF Types, Steps
  <2>2. request' \in [Threads -> Requests \cup {None}]
    BY <1>0 DEF Types
  <2>3. served' \in [Threads -> Nat]
    BY <1>0 DEF Types
  <2> QED BY <2>1, <2>2, <2>3, <1>0, <1>3 DEF Types
<1> HIDE DEF Take, Goto, bindVars, dbVars, histVars
<1>5. verdict[t] = None /\ date[t] = None /\ None \notin Verdicts
  BY <1>0, <1>1, NothingAssumption DEF StepInv
<1>6. StepInv'
  <2>1. ASSUME NEW d \in Threads \ {t} PROVE StepInv!(d)'
    BY <1>0, <1>2, <1>3 DEF StepInv
  <2>2. StepInv!(t)'
    BY <1>1, <1>3, <1>5 DEF Creator, Hashed, Rowed, Asker, Verdicts
  <2> QED BY <2>1, <2>2 DEF StepInv
<1>7. /\ \A d \in Threads \ {t} : /\ Email(d)' = Email(d) /\ Salt(d)' = Salt(d)
                                  /\ HashOf(d)' = HashOf(d)
      /\ \A e : Registering(e)' <=> Registering(e)
  BY <1>1, <1>2 DEF Email, Salt, HashOf, Registering
<1>8. MeetInv'
  <2>1. \A d \in Threads : ~Together(t, d)' /\ ~Together(d, t)'
    BY <1>1 DEF Together, Span
  <2>2. \A c, d \in Threads \ {t} : Together(c, d)' <=> Together(c, d)
    BY <1>2 DEF Together
  <2> QED BY <2>1, <2>2, <1>0, <1>1, <1>2, <1>3, <1>7 DEF MeetInv
<1>9. BoundInv'
  <2>1. ASSUME NEW d \in Threads \ {t} PROVE BoundInv!(d)'
    BY <1>0, <1>2, <1>3, <1>7 DEF BoundInv
  <2>2. BoundInv!(t)'
    BY <1>1 DEF Span, Hashed
  <2> QED BY <2>1, <2>2 DEF BoundInv
<1>10. \A e, pw : Opens(e, pw)' <=> Opens(e, pw)
  BY <1>3 DEF Opens
<1>11. VerdictInv'
  <2>1. ASSUME NEW d \in Threads \ {t} PROVE VerdictInv!(d)'
    BY <1>0, <1>2, <1>3, <1>7, <1>10 DEF VerdictInv
  <2>2. VerdictInv!(t)'
    BY <1>1, <1>3, <1>5 DEF Rowed, Verdicts
  <2> QED BY <2>1, <2>2 DEF VerdictInv
<1>12. ~PastInsert(t)' /\ \A d \in Threads \ {t} : PastInsert(d)' <=> PastInsert(d)
  BY <1>1, <1>2, <1>3, <1>5 DEF PastInsert, Rowed, Verdicts
<1>13. OnceInv'
  BY <1>0, <1>3, <1>7, <1>12 DEF OnceInv
<1>14. \A e : (Clean(e)' <=> Clean(e)) /\ (Settled(e)' <=> Settled(e))
  BY <1>3, <1>7 DEF Clean, Settled
<1>15. UserInv'
  BY <1>0, <1>1, <1>2, <1>3, <1>5, <1>7, <1>14 DEF UserInv, Verdicts
<1>16. OwnInv'
  <2>1. ~Holding(t)'
    BY <1>1 DEF Holding, Rowed
  <2>2. \A d \in Threads \ {t} : (Holding(d)' <=> Holding(d)) /\ IdOf(d)' = IdOf(d)
    BY <1>2, <1>3, <1>7, <1>14 DEF Holding, IdOf
  <2> QED BY <2>1, <2>2, <1>0, <1>3, <1>14 DEF OwnInv
<1>17. LoginNeedsOwnPassword' /\ CreatedAccountOpens'
  BY <1>3, <1>10 DEF AuthInv, LoginNeedsOwnPassword, CreatedAccountOpens, Opens
<1>18. ToldIdIsStored' /\ DateIsOfTheUser' /\ ExistsIsTrue'
  BY <1>3 DEF AuthInv, ToldIdIsStored, DateIsOfTheUser, ExistsIsTrue
<1>19. SettledAccountHasOwnUser'
  BY <1>3, <1>14 DEF AuthInv, SettledAccountHasOwnUser
<1> QED
  BY <1>4, <1>6, <1>8, <1>9, <1>11, <1>13, <1>15, <1>16, <1>17, <1>18, <1>19 DEF AuthInv

\* After a crash no thread is anywhere; the registrations it cut short have failed.
LEMMA CrashKeeps ==
  ASSUME AuthInv, Crash
  PROVE  AuthInv'
<1>0. Types /\ StepInv /\ BoundInv /\ VerdictInv /\ UserInv /\ OwnInv
  BY DEF AuthInv
<1>1. \A t \in Threads :
        /\ pc'[t] = "idle" /\ request'[t] = None /\ verdict'[t] = None /\ date'[t] = None
  BY DEF Crash
<1>2. UNCHANGED <<served, webAuth, users, replies, mixed, garbled>> /\ failed \subseteq failed'
  BY DEF Crash
<1>3. Types'
  BY <1>0, <1>2 DEF Types, Steps, Crash
<1>4. StepInv'
  BY <1>1, NothingAssumption DEF StepInv, Creator, Hashed, Rowed, Asker, Verdicts
<1>5. MeetInv' /\ BoundInv' /\ VerdictInv' /\ OnceInv'
  BY <1>1 DEF MeetInv, Together, Span, BoundInv, VerdictInv, OnceInv, PastInsert, Hashed
<1>6. \A e : ~Registering(e)'
  BY <1>1 DEF Registering
<1>7. \A e \in Emails : Settled(e)' => Settled(e)
  <2>1. SUFFICES ASSUME NEW e \in Emails, Settled(e)', Registering(e) PROVE FALSE
    BY <1>2 DEF Settled
  <2>2. PICK t \in Threads : pc[t] # "idle" /\ request[t].email = e
    BY <2>1 DEF Registering
  <2>3. e \in failed'
    BY <2>2 DEF Crash
  <2> QED BY <2>1, <2>3 DEF Settled
<1>8. UserInv' /\ OwnInv'
  BY <1>1, <1>6 DEF UserInv, OwnInv, Holding, Rowed
<1>9. LoginNeedsOwnPassword' /\ CreatedAccountOpens'
  BY <1>2 DEF AuthInv, LoginNeedsOwnPassword, CreatedAccountOpens, Opens
<1>10. ToldIdIsStored' /\ DateIsOfTheUser' /\ ExistsIsTrue'
  BY <1>2 DEF AuthInv, ToldIdIsStored, DateIsOfTheUser, ExistsIsTrue
<1>11. SettledAccountHasOwnUser'
  BY <1>2, <1>7 DEF AuthInv, SettledAccountHasOwnUser
<1> QED BY <1>3, <1>4, <1>5, <1>8, <1>9, <1>10, <1>11 DEF AuthInv

LEMMA ServeKeeps ==
  ASSUME AuthInv, NEW t \in Threads, Serve(t)
  PROVE  AuthInv'
<1>0. /\ Types /\ StepInv /\ MeetInv /\ BoundInv /\ VerdictInv /\ OnceInv /\ UserInv /\ OwnInv
      /\ ToldIdIsStored /\ SettledAccountHasOwnUser
  BY DEF AuthInv
<1>1. Types'
  BY <1>0, TypesServe
<1>2. StepInv'
  BY <1>0, <1>1, StepServe
<1>3. MeetInv'
  BY <1>0, <1>2, MeetServe
<1>4. BoundInv'
  BY <1>0, <1>1, <1>2, <1>3, BoundServe
<1>5. VerdictInv' /\ OnceInv'
  BY <1>0, VerdictServe, OnceServe
<1>6. UserInv'
  BY <1>0, <1>1, <1>2, <1>5, UserServe
<1>7. OwnInv' /\ SettledAccountHasOwnUser'
  BY <1>0, <1>2, <1>3, OwnServe
<1> QED BY <1>1, <1>2, <1>3, <1>4, <1>5, <1>6, <1>7, RepliesServe DEF AuthInv

LEMMA StutterKeeps ==
  ASSUME AuthInv, UNCHANGED vars
  PROVE  AuthInv'
<1> USE DEF vars, localVars, bindVars, dbVars, histVars
<1>1. Types' /\ StepInv' /\ MeetInv'
  BY DEF AuthInv, Types, StepInv, MeetInv, Together, Email
<1>2. BoundInv' /\ VerdictInv' /\ OnceInv'
  BY DEF AuthInv, BoundInv, VerdictInv, OnceInv, PastInsert, Email, Salt, HashOf, Opens
<1>3. UserInv' /\ OwnInv'
  BY DEF AuthInv, UserInv, OwnInv, Clean, Registering, Settled, Holding, IdOf, Email
<1>4. LoginNeedsOwnPassword' /\ CreatedAccountOpens' /\ ToldIdIsStored'
  BY DEF AuthInv, LoginNeedsOwnPassword, CreatedAccountOpens, ToldIdIsStored, Opens
<1>5. SettledAccountHasOwnUser' /\ DateIsOfTheUser' /\ ExistsIsTrue'
  BY DEF AuthInv, SettledAccountHasOwnUser, DateIsOfTheUser, ExistsIsTrue, Settled, Registering
<1> QED BY <1>1, <1>2, <1>3, <1>4, <1>5 DEF AuthInv

LEMMA InitHolds == Init => AuthInv
<1> SUFFICES ASSUME Init PROVE AuthInv
  OBVIOUS
<1>1. \A t \in Threads :
        pc[t] = "idle" /\ request[t] = None /\ verdict[t] = None /\ date[t] = None
  BY DEF Init
<1>2. Types
  BY DEF Init, Types, Steps
<1>3. StepInv
  BY <1>1, NothingAssumption DEF StepInv, Creator, Hashed, Rowed, Asker, Verdicts
<1>4. MeetInv /\ BoundInv /\ VerdictInv /\ OnceInv
  BY <1>1 DEF MeetInv, Together, Span, BoundInv, VerdictInv, OnceInv, PastInsert, Hashed
<1>5. UserInv /\ OwnInv
  BY <1>1 DEF UserInv, OwnInv, Holding, Rowed, Registering
<1>6. \A k \in 1 .. Len(replies) : FALSE
  BY DEF Init
<1>7. SettledAccountHasOwnUser
  BY DEF Init, SettledAccountHasOwnUser, Settled
<1> QED
  BY <1>2, <1>3, <1>4, <1>5, <1>6, <1>7
     DEF AuthInv, LoginNeedsOwnPassword, CreatedAccountOpens, ToldIdIsStored, DateIsOfTheUser,
         ExistsIsTrue

LEMMA AuthInvariant == Spec => []AuthInv
<1>1. AuthInv /\ [Next]_vars => AuthInv'
  BY ServeKeeps, TakeKeeps, CrashKeeps, StutterKeeps DEF Next
<1> QED BY InitHolds, <1>1, PTL DEF Spec
-----------------------------------------------------------------------------
(* What holds of every execution.                                          *)

\* Every variable has its type in every state; a connection has a request exactly
\* while its thread works on one and an answer when it replies, whatever fails.
THEOREM TypeCorrect == Spec => []TypeOK
<1>1. AuthInv => TypeOK
  BY DEF AuthInv, Types, StepInv, TypeOK
<1> QED BY AuthInvariant, <1>1, PTL

\* Whoever is let in gave the password of the account named in the request, unless
\* another thread was inside the same statement: the binding and the execution of
\* AUTHENTICATE_ACCOUNT are two calls on one shared object.
THEOREM LoginIsByPassword == Spec => []LoginNeedsOwnPassword
<1>1. AuthInv => LoginNeedsOwnPassword
  BY DEF AuthInv
<1> QED BY AuthInvariant, <1>1, PTL

\* An account reported as created opens with the password it was created with, however
\* many threads register, log in, fail and restart, unless two of them shared the
\* CREATE_ACCOUNT statement or the SHA256 object.
THEOREM CreatedOpens == Spec => []CreatedAccountOpens
<1>1. AuthInv => CreatedAccountOpens
  BY DEF AuthInv
<1> QED BY AuthInvariant, <1>1, PTL

\* The user id a client is told is the one stored with its account, for ever, if
\* neither a failure nor a second thread interfered; only a login in the middle of
\* the registration is told the placeholder.
THEOREM IdToldIsStored == Spec => []ToldIdIsStored
<1>1. AuthInv => ToldIdIsStored
  BY DEF AuthInv
<1> QED BY AuthInvariant, <1>1, PTL

\* An account whose registration is through has a row of gdp.user that no other such
\* account has, although LAST_INSERT_ID() is asked of a connection all threads share.
THEOREM AccountsHaveOwnUsers == Spec => []SettledAccountHasOwnUser
<1>1. AuthInv => SettledAccountHasOwnUser
  BY DEF AuthInv
<1> QED BY AuthInvariant, <1>1, PTL

\* The creation date in a reply is that of the user id beside it, although the two
\* parameters of the turn are bound to shared statements.
THEOREM DatesAreOfUsers == Spec => []DateIsOfTheUser
<1>1. AuthInv => DateIsOfTheUser
  BY DEF AuthInv
<1> QED BY AuthInvariant, <1>1, PTL

\* A registration is refused as a duplicate only for an email that has a row.
THEOREM ExistsIsSaidTruly == Spec => []ExistsIsTrue
<1>1. AuthInv => ExistsIsTrue
  BY DEF AuthInv
<1> QED BY AuthInvariant, <1>1, PTL
=============================================================================
