--------------------------- MODULE RegistryProofs ---------------------------
(***************************************************************************)
(* Proofs about Registry for any number of connections, emails, passwords, *)
(* users and requests.                                                     *)
(***************************************************************************)
EXTENDS Registry, SequenceTheorems, TLAPS

rvars == <<accounts, pending, answers>>

\* Answer k is the creation of an account for e with the given details.
Creates(k, e, account) ==
  /\ answers[k].answer = "created" /\ answers[k].request.email = e
  /\ answers[k].request.pw = account.pw /\ answers[k].user = account.user

\* Every account was created by an answer ...
HasOrigin ==
  \A e \in Emails : accounts[e] # None =>
    \E k \in 1 .. Len(answers) : Creates(k, e, accounts[e])

\* ... and every such answer still has its account, with the same user.
Kept ==
  \A k \in 1 .. Len(answers) : answers[k].answer = "created" =>
    LET account == accounts[answers[k].request.email] IN
    account # None /\ account.user = answers[k].user

RegistryInv == TypeOK /\ HasOrigin /\ Kept /\ LoginFollowsCreate /\ CreatedOnce

\* No account and no answer exists at the start.
LEMMA RegistryInit == Init => RegistryInv
<1> SUFFICES ASSUME Init PROVE RegistryInv
  OBVIOUS
<1>1. answers = <<>> /\ Len(answers) = 0
  BY DEF Init
<1>2. TypeOK
  BY <1>1 DEF Init, TypeOK
<1>3. HasOrigin /\ Kept /\ LoginFollowsCreate /\ CreatedOnce
  BY <1>1 DEF Init, HasOrigin, Kept, LoginFollowsCreate, CreatedOnce
<1> QED BY <1>2, <1>3 DEF RegistryInv

\* What giving an answer changes: one request less, one answer more.
LEMMA AnswerStep ==
  ASSUME TypeOK, NEW t \in Threads, pending[t] # None,
         NEW what \in {"created", "exists", "authenticated", "invalid"},
         NEW user \in Users \cup {None}, Answer(t, what, user)
  PROVE  /\ pending' \in [Threads -> Requests \cup {None}]
         /\ answers' \in Seq(Answers)
         /\ Len(answers') = Len(answers) + 1
         /\ \A k \in 1 .. Len(answers) : answers'[k] = answers[k]
         /\ answers'[Len(answers')] =
              [request |-> pending[t], answer |-> what, user |-> user]
<1> DEFINE new == [request |-> pending[t], answer |-> what, user |-> user]
<1>1. pending[t] \in Requests
  BY DEF TypeOK
<1>2. new \in Answers
  BY <1>1 DEF Answers
<1>3. answers' = Append(answers, new)
  BY DEF Answer
<1>4. pending' \in [Threads -> Requests \cup {None}]
  BY DEF TypeOK, Answer
<1> HIDE DEF new
<1>5. /\ answers' \in Seq(Answers)
      /\ Len(answers') = Len(answers) + 1
      /\ \A k \in 1 .. Len(answers) : answers'[k] = answers[k]
      /\ answers'[Len(answers) + 1] = new
  BY <1>2, <1>3 DEF TypeOK
<1> QED BY <1>4, <1>5 DEF new

\* A creation adds an account under an email, and with a user, that no other
\* account has.
LEMMA CreateStep ==
  ASSUME RegistryInv, NEW t \in Threads, NEW user \in Users, Create(t, user)
  PROVE  RegistryInv'
<1> DEFINE r == pending[t]  e == r.email  n == Len(answers)
           account == [pw |-> r.pw, user |-> user]
<1> USE DEF RegistryInv
<1>1. /\ r \in Requests /\ r # None /\ accounts[e] = None
      /\ user \notin TakenUsers
      /\ Answer(t, "created", user)
      /\ accounts' = [accounts EXCEPT ![e] = account]
  BY DEF Create, Asked, TypeOK
<1>2. /\ pending' \in [Threads -> Requests \cup {None}]
      /\ answers' \in Seq(Answers)
      /\ Len(answers') = n + 1
      /\ \A k \in 1 .. n : answers'[k] = answers[k]
      /\ answers'[n + 1] = [request |-> r, answer |-> "created", user |-> user]
  BY <1>1, AnswerStep
<1>3. e \in Emails /\ account \in Accounts /\ account # None
  BY <1>1, NoneAssumption DEF Requests, Accounts
<1>4. accounts \in [Emails -> Accounts \cup {None}] /\ n \in Nat
  BY DEF TypeOK
<1>5. accounts'[e] = account /\ \A f \in Emails \ {e} : accounts'[f] = accounts[f]
  BY <1>1, <1>3, <1>4
<1>6. \A k \in 1 .. n : answers[k] \in Answers /\ answers[k].request.email \in Emails
  <2>1. \A k \in 1 .. n : answers[k] \in Answers
    BY DEF TypeOK
  <2>2. \A a \in Answers : a.request.email \in Emails
    BY DEF Answers, Requests
  <2> QED BY <2>1, <2>2
<1>7. \A k \in 1 .. n : answers[k].answer = "created" =>
        answers[k].request.email # e /\ answers[k].user # user
  BY <1>1, <1>6 DEF Kept, TakenUsers
<1>8. TypeOK'
  BY <1>1, <1>2, <1>3, <1>4 DEF TypeOK
<1>9. HasOrigin'
  <2> SUFFICES ASSUME NEW f \in Emails, accounts'[f] # None
               PROVE  \E k \in 1 .. Len(answers') : Creates(k, f, accounts[f])'
    BY DEF HasOrigin
  <2>1. CASE f = e
    BY <2>1, <1>2, <1>4, <1>5 DEF Creates
  <2>2. CASE f # e
    <3>1. PICK k \in 1 .. n : Creates(k, f, accounts[f])
      BY <2>2, <1>5 DEF HasOrigin
    <3> QED BY <3>1, <2>2, <1>2, <1>4, <1>5 DEF Creates
  <2> QED BY <2>1, <2>2
<1>10. Kept'
  <2> SUFFICES ASSUME NEW k \in 1 .. Len(answers'), answers'[k].answer = "created"
               PROVE  /\ accounts'[answers'[k].request.email] # None
                      /\ accounts'[answers'[k].request.email].user = answers'[k].user
    BY DEF Kept
  <2>1. CASE k = n + 1
    BY <2>1, <1>2, <1>3, <1>5
  <2>2. CASE k \in 1 .. n
    BY <2>2, <1>2, <1>5, <1>6, <1>7 DEF Kept
  <2> QED BY <2>1, <2>2, <1>2, <1>4
<1>11. LoginFollowsCreate'
  <2> SUFFICES ASSUME NEW k \in 1 .. Len(answers'), answers'[k].answer = "authenticated"
               PROVE  \E j \in 1 .. k - 1 :
                        /\ answers'[j].answer = "created"
                        /\ answers'[j].user = answers'[k].user
                        /\ answers'[j].request.email = answers'[k].request.email
                        /\ answers'[j].request.pw = answers'[k].request.pw
    BY DEF LoginFollowsCreate
  <2>1. k \in 1 .. n
    BY <1>2, <1>4
  <2>2. PICK j \in 1 .. k - 1 :
          /\ answers[j].answer = "created"
          /\ answers[j].user = answers[k].user
          /\ answers[j].request.email = answers[k].request.email
          /\ answers[j].request.pw = answers[k].request.pw
    BY <2>1, <1>2 DEF LoginFollowsCreate
  <2>3. j \in 1 .. n
    BY <2>1, <1>4
  <2> QED BY <2>1, <2>2, <2>3, <1>2
<1>12. CreatedOnce'
  <2> SUFFICES ASSUME NEW j \in 1 .. n + 1, NEW k \in 1 .. n + 1,
                      answers'[j].answer = "created", answers'[k].answer = "created",
                      \/ answers'[j].request.email = answers'[k].request.email
                      \/ answers'[j].user = answers'[k].user
               PROVE  j = k
    BY <1>2 DEF CreatedOnce
  <2>1. CASE j \in 1 .. n /\ k \in 1 .. n
    BY <2>1, <1>2 DEF CreatedOnce
  <2>2. CASE j = n + 1 /\ k \in 1 .. n
    BY <2>2, <1>2, <1>7
  <2>3. CASE k = n + 1 /\ j \in 1 .. n
    BY <2>3, <1>2, <1>7
  <2> QED BY <2>1, <2>2, <2>3, <1>4
<1> QED BY <1>8, <1>9, <1>10, <1>11, <1>12

\* An answer that is no creation leaves the accounts alone, and a login that
\* is accepted repeats the details of an account.
LEMMA OtherAnswerStep ==
  ASSUME RegistryInv, NEW t \in Threads, pending[t] # None,
         NEW what \in {"exists", "authenticated", "invalid"},
         NEW user \in Users \cup {None}, Answer(t, what, user), UNCHANGED accounts,
         what = "authenticated" =>
           Opens(pending[t]) /\ user = accounts[pending[t].email].user
  PROVE  RegistryInv'
<1> DEFINE r == pending[t]  n == Len(answers)
<1> USE DEF RegistryInv
<1>1. r \in Requests /\ r.email \in Emails
  BY DEF TypeOK, Requests
<1>2. /\ pending' \in [Threads -> Requests \cup {None}]
      /\ answers' \in Seq(Answers)
      /\ Len(answers') = n + 1
      /\ \A k \in 1 .. n : answers'[k] = answers[k]
      /\ answers'[n + 1] = [request |-> r, answer |-> what, user |-> user]
  BY AnswerStep
<1>3. n \in Nat /\ accounts' = accounts
  BY DEF TypeOK
<1>4. \A k \in 1 .. n + 1 : answers'[k].answer = "created" =>
        k \in 1 .. n /\ answers'[k] = answers[k]
  BY <1>2, <1>3
<1>5. TypeOK'
  BY <1>2, <1>3 DEF TypeOK
<1>6. HasOrigin'
  <2> SUFFICES ASSUME NEW f \in Emails, accounts'[f] # None
               PROVE  \E k \in 1 .. Len(answers') : Creates(k, f, accounts[f])'
    BY DEF HasOrigin
  <2>1. PICK k \in 1 .. n : Creates(k, f, accounts[f])
    BY <1>3 DEF HasOrigin
  <2> QED BY <2>1, <1>2, <1>3 DEF Creates
<1>7. Kept'
  BY <1>2, <1>3, <1>4 DEF Kept
<1>8. CreatedOnce'
  BY <1>2, <1>3, <1>4 DEF CreatedOnce
<1>9. LoginFollowsCreate'
  <2> SUFFICES ASSUME NEW k \in 1 .. n + 1, answers'[k].answer = "authenticated"
               PROVE  \E j \in 1 .. k - 1 :
                        /\ answers'[j].answer = "created"
                        /\ answers'[j].user = answers'[k].user
                        /\ answers'[j].request.email = answers'[k].request.email
                        /\ answers'[j].request.pw = answers'[k].request.pw
    BY <1>2 DEF LoginFollowsCreate
  <2>1. CASE k \in 1 .. n
    <3>1. PICK j \in 1 .. k - 1 :
            /\ answers[j].answer = "created"
            /\ answers[j].user = answers[k].user
            /\ answers[j].request.email = answers[k].request.email
            /\ answers[j].request.pw = answers[k].request.pw
      BY <2>1, <1>2 DEF LoginFollowsCreate
    <3>2. j \in 1 .. n
      BY <2>1, <1>3
    <3> QED BY <2>1, <3>1, <3>2, <1>2
  <2>2. CASE k = n + 1
    <3>1. /\ what = "authenticated"
          /\ accounts[r.email] # None /\ accounts[r.email].pw = r.pw
          /\ user = accounts[r.email].user
      BY <2>2, <1>2 DEF Opens
    <3>2. PICK j \in 1 .. n : Creates(j, r.email, accounts[r.email])
      BY <3>1, <1>1 DEF HasOrigin
    <3>3. j \in 1 .. k - 1
      BY <2>2, <1>3
    <3> QED BY <2>2, <3>1, <3>2, <3>3, <1>2 DEF Creates
  <2> QED BY <2>1, <2>2, <1>3
<1> QED BY <1>5, <1>6, <1>7, <1>8, <1>9

\* Every step keeps the invariant.
LEMMA RegistryStep == RegistryInv /\ [Next]_rvars => RegistryInv'
<1> SUFFICES ASSUME RegistryInv, [Next]_rvars PROVE RegistryInv'
  OBVIOUS
<1>1. ASSUME NEW t \in Threads, NEW r \in Requests, Ask(t, r) PROVE RegistryInv'
  <2>1. accounts' = accounts /\ answers' = answers
    BY <1>1 DEF Ask
  <2>2. pending' \in [Threads -> Requests \cup {None}]
    BY <1>1 DEF Ask, RegistryInv, TypeOK
  <2> QED
    BY <2>1, <2>2 DEF RegistryInv, TypeOK, HasOrigin, Kept, Creates, LoginFollowsCreate,
                      CreatedOnce
<1>2. ASSUME NEW t \in Threads, NEW user \in Users, Create(t, user) PROVE RegistryInv'
  BY <1>2, CreateStep
<1>3. ASSUME NEW t \in Threads, RefuseDuplicate(t) PROVE RegistryInv'
  <2>1. pending[t] # None /\ Answer(t, "exists", None) /\ UNCHANGED accounts
    BY <1>3 DEF RefuseDuplicate, Asked
  <2> QED BY <2>1, OtherAnswerStep
<1>4. ASSUME NEW t \in Threads, Login(t) PROVE RegistryInv'
  <2> DEFINE user == accounts[pending[t].email].user
  <2>1. /\ pending[t] # None /\ Opens(pending[t])
        /\ Answer(t, "authenticated", user) /\ UNCHANGED accounts
    BY <1>4 DEF Login, Asked
  <2>2. user \in Users
    BY <2>1 DEF RegistryInv, TypeOK, Opens, Requests, Accounts
  <2> QED BY <2>1, <2>2, OtherAnswerStep
<1>5. ASSUME NEW t \in Threads, RefuseLogin(t) PROVE RegistryInv'
  <2>1. pending[t] # None /\ Answer(t, "invalid", None) /\ UNCHANGED accounts
    BY <1>5 DEF RefuseLogin, Asked
  <2> QED BY <2>1, OtherAnswerStep
<1>6. CASE UNCHANGED rvars
  BY <1>6 DEF rvars, RegistryInv, TypeOK, HasOrigin, Kept, Creates, LoginFollowsCreate,
              CreatedOnce
<1> QED BY <1>1, <1>2, <1>3, <1>4, <1>5, <1>6 DEF Next

\* The invariant holds of every reachable state.
LEMMA RegistryInvariant == Spec => []RegistryInv
<1> QED BY RegistryInit, RegistryStep, PTL DEF Spec, rvars

\* Accounts, requests and answers stay whole records.
THEOREM RegistryTypes == Spec => []TypeOK
<1>1. RegistryInv => TypeOK
  BY DEF RegistryInv
<1> QED BY <1>1, RegistryInvariant, PTL

\* Whoever is let in by the register gave the details of an account created
\* before, whatever the numbers of connections, accounts and requests.
THEOREM LoginsFollowCreations == Spec => []LoginFollowsCreate
<1>1. RegistryInv => LoginFollowsCreate
  BY DEF RegistryInv
<1> QED BY <1>1, RegistryInvariant, PTL

\* No email and no user is given out twice.
THEOREM NothingGivenTwice == Spec => []CreatedOnce
<1>1. RegistryInv => CreatedOnce
  BY DEF RegistryInv
<1> QED BY <1>1, RegistryInvariant, PTL
=============================================================================
