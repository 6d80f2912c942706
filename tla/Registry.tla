------------------------------ MODULE Registry ------------------------------
(***************************************************************************)
(* What the authentication server promises a caller: a register of         *)
(* accounts in which every request takes effect at once, as it is          *)
(* answered.  An account is created once, keeps its password, belongs to a *)
(* user of its own, and only its password opens it.                        *)
(***************************************************************************)
EXTENDS Integers, Sequences

CONSTANTS
  Threads,      \* connections requests arrive on
  Emails, Passwords,
  Users,        \* user ids there are to give
  None

VARIABLES
  accounts,  \* accounts[e]: the password and user of e, or None
  pending,   \* pending[t]: the request being served for t, or None
  answers    \* the answers given so far

Requests == [kind : {"create", "authenticate"}, email : Emails, pw : Passwords]
Accounts == [pw : Passwords, user : Users]
Answers  == [request : Requests, user : Users \cup {None},
             answer : {"created", "exists", "authenticated", "invalid"}]

ASSUME NoneAssumption == None \notin Requests /\ None \notin Accounts

Init ==
  /\ accounts = [e \in Emails |-> None]
  /\ pending = [t \in Threads |-> None]
  /\ answers = <<>>

Ask(t, r) ==
  /\ pending[t] = None
  /\ pending' = [pending EXCEPT ![t] = r]
  /\ UNCHANGED <<accounts, answers>>

Asked(t, kind) == pending[t] # None /\ pending[t].kind = kind

\* Mutant of Answer: the request is cleared before it is answered.
AnswerCleared(t, what, user) ==
  /\ pending' = [pending EXCEPT ![t] = None]
  /\ answers' = Append(answers, [request |-> pending'[t], answer |-> what, user |-> user])

Answer(t, what, user) ==
  /\ pending' = [pending EXCEPT ![t] = None]
  /\ answers' = Append(answers, [request |-> pending[t], answer |-> what, user |-> user])

TakenUsers == {accounts[e].user : e \in {f \in Emails : accounts[f] # None}}

\* Mutant of Create: an account is created over another.
CreateAgain(t, user) ==
  LET r == pending[t] IN
  /\ Asked(t, "create")
  /\ user \notin TakenUsers
  /\ Answer(t, "created", user)
  /\ accounts' = [accounts EXCEPT ![r.email] = [pw |-> r.pw, user |-> user]]

Create(t, user) ==
  LET r == pending[t] IN
  /\ Asked(t, "create") /\ accounts[r.email] = None
  /\ user \notin TakenUsers
  /\ Answer(t, "created", user)
  /\ accounts' = [accounts EXCEPT ![r.email] = [pw |-> r.pw, user |-> user]]

RefuseDuplicate(t) ==
  /\ Asked(t, "create") /\ accounts[pending[t].email] # None
  /\ Answer(t, "exists", None)
  /\ UNCHANGED accounts

Opens(r) == accounts[r.email] # None /\ accounts[r.email].pw = r.pw

\* Mutant of Login: any account opens.
LoginAnyone(t) ==
  /\ Asked(t, "authenticate") /\ accounts[pending[t].email] # None
  /\ Answer(t, "authenticated", accounts[pending[t].email].user)
  /\ UNCHANGED accounts

Login(t) ==
  /\ Asked(t, "authenticate") /\ Opens(pending[t])
  /\ Answer(t, "authenticated", accounts[pending[t].email].user)
  /\ UNCHANGED accounts

RefuseLogin(t) ==
  /\ Asked(t, "authenticate") /\ ~Opens(pending[t])
  /\ Answer(t, "invalid", None)
  /\ UNCHANGED accounts

Next ==
  \E t \in Threads :
    \/ \E r \in Requests : Ask(t, r)
    \/ \E user \in Users : Create(t, user)
    \/ RefuseDuplicate(t) \/ Login(t) \/ RefuseLogin(t)

Spec == Init /\ [][Next]_<<accounts, pending, answers>>
-----------------------------------------------------------------------------
\* The type invariant: accounts, requests and answers are whole records, so
\* no answer is given without the request it answers.
TypeOK ==
  /\ accounts \in [Emails -> Accounts \cup {None}]
  /\ pending \in [Threads -> Requests \cup {None}]
  /\ answers \in Seq(Answers)

\* Whoever is let in gave the email and password of an account created
\* before, and is told the user that account was created with: what
\* AuthenticateAccount (MySQLUtil.cpp:144) is for.
LoginFollowsCreate ==
  \A k \in 1 .. Len(answers) :
    answers[k].answer = "authenticated" =>
      \E j \in 1 .. k - 1 :
        /\ answers[j].answer = "created"
        /\ answers[j].user = answers[k].user
        /\ answers[j].request.email = answers[k].request.email
        /\ answers[j].request.pw = answers[k].request.pw

\* No email is registered twice, the key of web_auth that error 1062
\* (MySQLUtil.cpp:106) guards, and no two accounts get the same user.
CreatedOnce ==
  \A j, k \in 1 .. Len(answers) :
    /\ answers[j].answer = "created" /\ answers[k].answer = "created"
    /\ \/ answers[j].request.email = answers[k].request.email
       \/ answers[j].user = answers[k].user
    => j = k
=============================================================================
