----------------------------- MODULE AuthServer -----------------------------
(***************************************************************************)
(* The authentication server (Server2/AuthenticateServer.cpp) and its      *)
(* database layer (Server2/MySQLUtil.cpp): one thread per gateway          *)
(* connection serves requests one after the other.  All threads share one  *)
(* SHA256 object, one database connection and one prepared statement per   *)
(* query, whose parameters are bound one call at a time, without a lock.   *)
(*                                                                         *)
(* The tables gdp.web_auth and gdp.user are external: email is a key of    *)
(* the first (an INSERT that repeats one fails with error 1062), ids of    *)
(* the second count up from 1.  A salt is named by the request it was      *)
(* generated for, and a hash by the salt and password it was computed      *)
(* from: neither repeats.                                                  *)
(***************************************************************************)
EXTENDS Integers, Sequences

CONSTANTS
  Threads, Emails, Passwords,
  MaxRequests,  \* MaxRequests[t]: requests that arrive on connection t
  MaxCrashes,   \* how often the process may crash and be started again
  Faults,       \* {"sql"} if statements may fail, {} if not
  Placeholder,  \* userId of a new web_auth row: 10 in the code
  Junk,         \* values the uninitialised userId may have
  None          \* no row, no request, no value

ASSUME AuthServerAssumption ==
  /\ MaxRequests \in [Threads -> Nat] /\ MaxCrashes \in Nat
  /\ Placeholder \in Int /\ Junk \subseteq Int /\ None \notin Int

VARIABLES
  pc, request, userId, date,  \* pc[t], ...: thread t and its locals
  verdict,    \* verdict[t]: what thread t is going to answer
  hashed,     \* hashed[t]: hashPassword, the hash computed or under way
  served,     \* served[t]: requests taken from connection t so far
  create,     \* bound parameters of CREATE_ACCOUNT: email, salt, hash
  update,     \* bound parameters of UPDATE_WEB_AUTH_ID: user, email
  login,      \* bound parameter of AUTHENTICATE_ACCOUNT
  touch,      \* bound parameter of UPDATE_LAST_LOGIN
  creation,   \* bound parameter of GET_CREATION_DATE
  webAuth,    \* table gdp.web_auth: webAuth[e] is the row of email e, or None
  users,      \* table gdp.user: ids 1 .. users exist
  lastInsert, \* LAST_INSERT_ID() of the shared database connection
  replies,    \* replies sent to the gateways
  crashes,
  mixed,      \* history: emails of requests that used a statement at once
  garbled,    \* history: emails of requests that used the SHA256 object at once
  failed      \* history: emails of registrations a failure has cut short

localVars == <<request, userId, date, verdict, hashed, served>>
bindVars  == <<create, update, login, touch, creation>>
dbVars    == <<webAuth, users, lastInsert>>
histVars  == <<crashes, mixed, garbled, failed>>
vars == <<pc, localVars, bindVars, dbVars, replies, histVars>>

Requests == [kind : {"create", "authenticate"}, email : Emails, pw : Passwords]
Verdicts == {"created", "exists", "authenticated", "invalid", "internal"}

\* A hash of bytes of several requests has no salt and no password.
Salts  == Threads \X Nat
Hashes == [salt : Salts \cup {None}, pw : Passwords \cup {None}]
Rows   == [salt : Salts, hash : Hashes, user : Int]

ASSUME NothingAssumption ==
  None \notin Requests \cup Rows /\ None \notin Verdicts

Init ==
  /\ pc = [t \in Threads |-> "idle"]
  /\ request = [t \in Threads |-> None]
  /\ userId = [t \in Threads |-> 0]
  /\ date = [t \in Threads |-> None]
  /\ verdict = [t \in Threads |-> None]
  /\ hashed = [t \in Threads |-> None]
  /\ served = [t \in Threads |-> 0]
  /\ create = [email |-> None, salt |-> None, hash |-> None]
  /\ update = [user |-> None, email |-> None]
  /\ login = None /\ touch = None /\ creation = None
  /\ webAuth = [e \in Emails |-> None]
  /\ users = 0 /\ lastInsert = 0
  /\ replies = <<>>
  /\ crashes = 0 /\ mixed = {} /\ garbled = {} /\ failed = {}
-----------------------------------------------------------------------------
Goto(t, from, to) == pc[t] = from /\ pc' = [pc EXCEPT ![t] = to]

\* Where a thread is in the middle of using something that is shared: one
\* that enters at the given step may meet it there.
Span == [hash       |-> {"hashing"},
         bindEmail  |-> {"bindSalt", "bindHash", "insert"},
         addUser    |-> {"lastId"},
         bindUser   |-> {"bindUserEmail", "update"},
         bindLogin  |-> {"select"},
         bindTouch  |-> {"bindCreation", "touch", "creation"}]

\* The emails of the requests that t disturbs, its own among them.
Disturbed(t, step) ==
  LET met == {d \in Threads \ {t} : pc[d] \in Span[step]} IN
  IF met = {} THEN {} ELSE {request[d].email : d \in met \cup {t}}

Enter(t, step) == mixed' = mixed \cup Disturbed(t, step)

Salt(t) == <<t, served[t]>>
-----------------------------------------------------------------------------
(* Taking a request and registering an account.                            *)

Take(t, r) ==
  /\ served[t] < MaxRequests[t]
  /\ Goto(t, "idle", IF r.kind = "create" THEN "hash" ELSE "bindLogin")
  /\ request' = [request EXCEPT ![t] = r]
  /\ served' = [served EXCEPT ![t] = @ + 1]
  /\ UNCHANGED <<userId, date, verdict, hashed, bindVars, dbVars, replies, histVars>>

HashOf(t) == [salt |-> Salt(t), pw |-> request[t].pw]

\* A digest of bytes of two requests: no salt and password produce it.
Garbage == [salt |-> None, pw |-> None]

\* hash(salt + password): reset, add and getHash of the shared object.  A
\* thread that comes in between spoils its own hash and the one under way.
HashBegin(t) ==
  /\ Goto(t, "hash", "hashing")
  /\ LET spoiled == {d \in Threads : pc[d] = "hashing"} IN
     hashed' = [d \in Threads |->
       IF d = t /\ spoiled = {} THEN HashOf(t)
       ELSE IF d \in spoiled \cup {t} THEN Garbage ELSE hashed[d]]
  /\ garbled' = garbled \cup Disturbed(t, "hash")
  /\ UNCHANGED <<request, userId, date, verdict, served, bindVars, dbVars, replies,
                 crashes, mixed, failed>>

\* The accesses that raced may still have fallen apart.
HashEnd(t) ==
  /\ Goto(t, "hashing", "bindEmail")
  /\ hashed' \in {hashed, [hashed EXCEPT ![t] = HashOf(t)]}
  /\ UNCHANGED <<request, userId, date, verdict, served, bindVars, dbVars, replies, histVars>>

\* Mutant of BindEmail: the statement keeps the first email bound to it.
BindEmailOnce(t) ==
  /\ Goto(t, "bindEmail", "bindSalt")
  /\ create' = IF create.email = None THEN [create EXCEPT !.email = request[t].email] ELSE create
  /\ Enter(t, "bindEmail")
  /\ UNCHANGED <<localVars, update, login, touch, creation, dbVars, replies, crashes,
                 garbled, failed>>

BindEmail(t) ==
  /\ Goto(t, "bindEmail", "bindSalt")
  /\ create' = [create EXCEPT !.email = request[t].email]
  /\ Enter(t, "bindEmail")
  /\ UNCHANGED <<localVars, update, login, touch, creation, dbVars, replies, crashes,
                 garbled, failed>>

\* Mutant of BindSalt: the second parameter is forgotten.
BindSaltForgotten(t) ==
  /\ Goto(t, "bindSalt", "bindHash")
  /\ UNCHANGED <<localVars, bindVars, dbVars, replies, histVars>>

BindSalt(t) ==
  /\ Goto(t, "bindSalt", "bindHash")
  /\ create' = [create EXCEPT !.salt = Salt(t)]
  /\ UNCHANGED <<localVars, update, login, touch, creation, dbVars, replies, histVars>>

BindHash(t) ==
  /\ Goto(t, "bindHash", "insert")
  /\ create' = [create EXCEPT !.hash = hashed[t]]
  /\ UNCHANGED <<localVars, update, login, touch, creation, dbVars, replies, histVars>>

\* The row web_auth gets; setBigInt(4, "10") binds the user id.
NewRow == [salt |-> create.salt, hash |-> create.hash, user |-> Placeholder]

InsertRow == webAuth' = [webAuth EXCEPT ![create.email] = NewRow]

\* Mutant of Insert: a row that is there already is replaced.
InsertReplaces(t) ==
  /\ Goto(t, "insert", "addUser")
  /\ InsertRow
  /\ UNCHANGED <<localVars, bindVars, users, lastInsert, replies, histVars>>

Insert(t) ==
  /\ Goto(t, "insert", "addUser")
  /\ webAuth[create.email] = None
  /\ InsertRow
  /\ UNCHANGED <<localVars, bindVars, users, lastInsert, replies, histVars>>

\* Mutant of InsertDuplicate: no reason is set.
InsertDuplicateSilent(t) ==
  /\ Goto(t, "insert", "reply")
  /\ webAuth[create.email] # None
  /\ UNCHANGED <<localVars, bindVars, dbVars, replies, histVars>>

InsertDuplicate(t) ==
  /\ Goto(t, "insert", "reply")
  /\ webAuth[create.email] # None
  /\ verdict' = [verdict EXCEPT ![t] = "exists"]
  /\ UNCHANGED <<request, userId, date, hashed, served, bindVars, dbVars, replies, histVars>>

\* A statement throws SQLException, before or after the database did its work.
SqlError == "sql" \in Faults

Fail(t) == failed' = failed \cup {request[t].email}

\* Mutant of InsertError: every exception is taken for error 1062.
InsertErrorExists(t) ==
  /\ Goto(t, "insert", "reply") /\ SqlError
  /\ failed' = failed \cup {request[t].email, create.email}
  /\ verdict' = [verdict EXCEPT ![t] = "exists"]
  /\ UNCHANGED webAuth \/ (webAuth[create.email] = None /\ InsertRow)
  /\ UNCHANGED <<request, userId, date, hashed, served, bindVars, users, lastInsert,
                 replies, crashes, mixed, garbled>>

InsertError(t) ==
  /\ Goto(t, "insert", "reply") /\ SqlError
  /\ failed' = failed \cup {request[t].email, create.email}
  /\ verdict' = [verdict EXCEPT ![t] = "internal"]
  /\ UNCHANGED webAuth \/ (webAuth[create.email] = None /\ InsertRow)
  /\ UNCHANGED <<request, userId, date, hashed, served, bindVars, users, lastInsert,
                 replies, crashes, mixed, garbled>>

\* Mutant of AddUser: the id is asked of another database connection.
AddUserElsewhere(t) ==
  /\ Goto(t, "addUser", "lastId")
  /\ users' = users + 1
  /\ Enter(t, "addUser")
  /\ UNCHANGED <<localVars, bindVars, webAuth, lastInsert, replies, crashes, garbled, failed>>

\* AddNewUser: INSERT INTO user, then SELECT LAST_INSERT_ID().
AddUser(t) ==
  /\ Goto(t, "addUser", "lastId")
  /\ users' = users + 1 /\ lastInsert' = users + 1
  /\ Enter(t, "addUser")
  /\ UNCHANGED <<localVars, bindVars, webAuth, replies, crashes, garbled, failed>>

LastId(t) ==
  /\ Goto(t, "lastId", "bindUser")
  /\ userId' = [userId EXCEPT ![t] = lastInsert]
  /\ UNCHANGED <<request, date, verdict, hashed, served, bindVars, dbVars, replies, histVars>>

\* Its result is overwritten, so the thread goes on with whatever userId is.
AddUserError(t) ==
  /\ Goto(t, "addUser", "bindUser") \/ Goto(t, "lastId", "bindUser")
  /\ SqlError /\ Fail(t)
  /\ \E junk \in Junk : userId' = [userId EXCEPT ![t] = junk]
  /\ UNCHANGED <<request, date, verdict, hashed, served, bindVars, dbVars, replies,
                 crashes, mixed, garbled>>

BindUser(t) ==
  /\ Goto(t, "bindUser", "bindUserEmail")
  /\ update' = [update EXCEPT !.user = userId[t]]
  /\ Enter(t, "bindUser")
  /\ UNCHANGED <<localVars, create, login, touch, creation, dbVars, replies, crashes,
                 garbled, failed>>

BindUserEmail(t) ==
  /\ Goto(t, "bindUserEmail", "update")
  /\ update' = [update EXCEPT !.email = request[t].email]
  /\ UNCHANGED <<localVars, create, login, touch, creation, dbVars, replies, histVars>>

\* Mutant of SetUser: an UPDATE without its WHERE.
SetUserEverywhere ==
  webAuth' = [e \in Emails |-> IF webAuth[e] # None
                               THEN [webAuth[e] EXCEPT !.user = update.user]
                               ELSE webAuth[e]]

SetUser ==
  webAuth' = [e \in Emails |-> IF e = update.email /\ webAuth[e] # None
                               THEN [webAuth[e] EXCEPT !.user = update.user]
                               ELSE webAuth[e]]

\* UpdateUserID; its result is not looked at either.
Update(t) ==
  /\ Goto(t, "update", "reply")
  /\ verdict' = [verdict EXCEPT ![t] = "created"]
  /\ \/ SetUser /\ UNCHANGED failed
     \/ SqlError /\ Fail(t) /\ UNCHANGED webAuth
  /\ UNCHANGED <<request, userId, date, hashed, served, bindVars, users, lastInsert,
                 replies, crashes, mixed, garbled>>
-----------------------------------------------------------------------------
(* Authenticating.                                                         *)

BindLogin(t) ==
  /\ Goto(t, "bindLogin", "select")
  /\ login' = request[t].email
  /\ Enter(t, "bindLogin")
  /\ UNCHANGED <<localVars, create, update, touch, creation, dbVars, replies, crashes,
                 garbled, failed>>

\* e has a row, and its hash is that of its own salt and the given password.
Opens(e, pw) ==
  webAuth[e] # None /\ webAuth[e].hash = [salt |-> webAuth[e].salt, pw |-> pw]

\* Mutant of SelectValid: the password is not compared.
SelectAnyRow(t) ==
  /\ Goto(t, "select", "bindTouch")
  /\ webAuth[login] # None
  /\ userId' = [userId EXCEPT ![t] = webAuth[login].user]
  /\ verdict' = [verdict EXCEPT ![t] = "authenticated"]
  /\ UNCHANGED <<request, date, hashed, served, bindVars, dbVars, replies, histVars>>

\* The row is fetched through the shared statement, then hashed with a hasher
\* of the thread's own.
SelectValid(t) ==
  /\ Goto(t, "select", "bindTouch")
  /\ Opens(login, request[t].pw)
  /\ userId' = [userId EXCEPT ![t] = webAuth[login].user]
  /\ verdict' = [verdict EXCEPT ![t] = "authenticated"]
  /\ UNCHANGED <<request, date, hashed, served, bindVars, dbVars, replies, histVars>>

SelectInvalid(t) ==
  /\ Goto(t, "select", "reply")
  /\ ~Opens(login, request[t].pw)
  /\ verdict' = [verdict EXCEPT ![t] = "invalid"]
  /\ userId' = [userId EXCEPT ![t] = IF webAuth[login] = None THEN @ ELSE webAuth[login].user]
  /\ UNCHANGED <<request, date, hashed, served, bindVars, dbVars, replies, histVars>>

SelectError(t) ==
  /\ SqlError
  /\ Goto(t, "select", "reply")
  /\ verdict' = [verdict EXCEPT ![t] = "internal"]
  /\ UNCHANGED <<request, userId, date, hashed, served, bindVars, dbVars, replies, histVars>>

BindTouch(t) ==
  /\ Goto(t, "bindTouch", "bindCreation")
  /\ touch' = userId[t]
  /\ Enter(t, "bindTouch")
  /\ UNCHANGED <<localVars, create, update, login, creation, dbVars, replies, crashes,
                 garbled, failed>>

\* Mutant of BindCreation: the id of the newest user is bound.
BindCreationNewest(t) ==
  /\ Goto(t, "bindCreation", "touch")
  /\ creation' = lastInsert
  /\ UNCHANGED <<localVars, create, update, login, touch, dbVars, replies, histVars>>

BindCreation(t) ==
  /\ Goto(t, "bindCreation", "touch")
  /\ creation' = userId[t]
  /\ UNCHANGED <<localVars, create, update, login, touch, dbVars, replies, histVars>>

\* UPDATE user SET last_login: the time itself is not modelled.
Touch(t) ==
  /\ Goto(t, "touch", "creation")
  /\ UNCHANGED <<localVars, bindVars, dbVars, replies, histVars>>

\* A creation date is named by the user it belongs to.
Creation(t) ==
  /\ Goto(t, "creation", "reply")
  /\ date' = [date EXCEPT ![t] = IF creation \in 1 .. users THEN creation ELSE None]
  /\ UNCHANGED <<request, userId, verdict, hashed, served, bindVars, dbVars, replies, histVars>>

TouchError(t) ==
  /\ Goto(t, "touch", "reply") \/ Goto(t, "creation", "reply")
  /\ SqlError
  /\ UNCHANGED <<localVars, bindVars, dbVars, replies, histVars>>
-----------------------------------------------------------------------------
\* SendMessagestoServer1; the locals of the turn end with it.
Reply(t) ==
  /\ Goto(t, "reply", "idle")
  /\ replies' = Append(replies,
       [request |-> request[t], answer |-> verdict[t],
        user |-> IF verdict[t] \in {"created", "authenticated"} THEN userId[t] ELSE None,
        date |-> date[t]])
  /\ request' = [request EXCEPT ![t] = None]
  /\ userId' = [userId EXCEPT ![t] = 0]
  /\ date' = [date EXCEPT ![t] = None]
  /\ verdict' = [verdict EXCEPT ![t] = None]
  /\ hashed' = [hashed EXCEPT ![t] = None]
  /\ UNCHANGED <<served, bindVars, dbVars, histVars>>

\* The process dies and is started again: only the tables remain.
Crash ==
  /\ crashes < MaxCrashes /\ \E t \in Threads : pc[t] # "idle"
  /\ crashes' = crashes + 1
  /\ failed' = failed \cup {request[t].email : t \in {d \in Threads : pc[d] # "idle"}}
  /\ pc' = [t \in Threads |-> "idle"]
  /\ request' = [t \in Threads |-> None]
  /\ userId' = [t \in Threads |-> 0]
  /\ date' = [t \in Threads |-> None]
  /\ verdict' = [t \in Threads |-> None]
  /\ hashed' = [t \in Threads |-> None]
  /\ create' = [email |-> None, salt |-> None, hash |-> None]
  /\ update' = [user |-> None, email |-> None]
  /\ login' = None /\ touch' = None /\ creation' = None
  /\ lastInsert' = 0
  /\ UNCHANGED <<served, webAuth, users, replies, mixed, garbled>>
-----------------------------------------------------------------------------
Register(t) ==
  \/ HashBegin(t) \/ HashEnd(t) \/ BindEmail(t) \/ BindSalt(t) \/ BindHash(t)
  \/ Insert(t) \/ InsertDuplicate(t) \/ InsertError(t)
  \/ AddUser(t) \/ LastId(t) \/ AddUserError(t)
  \/ BindUser(t) \/ BindUserEmail(t) \/ Update(t)

Authenticate(t) ==
  \/ BindLogin(t) \/ SelectValid(t) \/ SelectInvalid(t) \/ SelectError(t)
  \/ BindTouch(t) \/ BindCreation(t) \/ Touch(t) \/ Creation(t) \/ TouchError(t)

Serve(t) == Register(t) \/ Authenticate(t) \/ Reply(t)

Next ==
  \/ \E t \in Threads : Serve(t)
  \/ \E t \in Threads, r \in Requests : Take(t, r)
  \/ Crash

Spec == Init /\ [][Next]_vars
-----------------------------------------------------------------------------
\* The type invariant; a thread has a request exactly while it works on one,
\* and has made up its mind when it replies (AuthenticateServer.cpp:204-297).
TypeOK ==
  /\ request \in [Threads -> Requests \cup {None}]
  /\ userId \in [Threads -> Int]
  /\ verdict \in [Threads -> Verdicts \cup {None}]
  /\ \A t \in Threads : pc[t] = "idle" <=> request[t] = None
  /\ \A t \in Threads : pc[t] = "reply" => verdict[t] # None
  /\ webAuth \in [Emails -> Rows \cup {None}]
  /\ users \in Nat /\ lastInsert \in 0 .. users

Registering(e) ==
  \E t \in Threads :
    /\ request[t] # None /\ request[t].kind = "create" /\ request[t].email = e
    /\ pc[t] \in {"addUser", "lastId", "bindUser", "bindUserEmail", "update"}

\* Whoever is let in gave the password of the account named in the request,
\* unless another thread rebound the shared statement (MySQLUtil.cpp:147)
\* before this one executed it.
LoginNeedsOwnPassword ==
  \A k \in 1 .. Len(replies) :
    LET r == replies[k].request IN
    replies[k].answer = "authenticated" => Opens(r.email, r.pw) \/ r.email \in mixed

\* An account reported as created can be opened with the password it was
\* created with, unless the bound statement (MySQLUtil.cpp:93) or the SHA256
\* object (AuthenticateServer.cpp:203) was in use by a second thread.
CreatedAccountOpens ==
  \A k \in 1 .. Len(replies) :
    LET r == replies[k].request IN
    replies[k].answer = "created" => Opens(r.email, r.pw) \/ r.email \in mixed \cup garbled

\* The user id a caller is told, on creation and on every login, is the one
\* stored with the account; only a login during the registration is told
\* the placeholder instead.
ToldIdIsStored ==
  \A k \in 1 .. Len(replies) :
    LET e == replies[k].request.email IN
    replies[k].answer \in {"created", "authenticated"} =>
      \/ e \in mixed \cup failed
      \/ webAuth[e] # None /\ replies[k].user = webAuth[e].user
      \/ replies[k].answer = "authenticated" /\ replies[k].user = Placeholder

Settled(e) == webAuth[e] # None /\ ~Registering(e) /\ e \notin failed \cup mixed

\* An account that is no longer being registered has a user of its own: it
\* keeps the placeholder, or shares a user, only if its own registration
\* met a failed statement (the results at AuthenticateServer.cpp:208 and 209
\* are ignored) or a crash, or ran into another one.
SettledAccountHasOwnUser ==
  \A e \in Emails :
    Settled(e) =>
      /\ webAuth[e].user \in 1 .. users
      /\ \A f \in Emails \ {e} : Settled(f) => webAuth[f].user # webAuth[e].user

\* The creation date sent along with a user id is that user's.
DateIsOfTheUser ==
  \A k \in 1 .. Len(replies) :
    replies[k].date \in {replies[k].user, None} \/ replies[k].request.email \in mixed

\* "Already exists" is said of an email that is registered, or about to be.
ExistsIsTrue ==
  \A k \in 1 .. Len(replies) :
    replies[k].answer = "exists" =>
      LET e == replies[k].request.email IN webAuth[e] # None \/ e \in mixed
=============================================================================
