--------------------------- MODULE SessionProofs ----------------------------
(***************************************************************************)
(* Proofs about Session for any number of clients, commands, emails and    *)
(* passwords.                                                              *)
(***************************************************************************)
EXTENDS Session, RegistryProofs, FiniteSetTheorems

Words ==
  [word : {"REGISTER", "AUTHENTICATE"}, email : Emails \ {Empty},
   pw : Passwords \ {Empty}, seen : Nat]
    \cup [word : {"other"}, email : {Empty}, pw : {Empty}, seen : Nat]

Forwards == [from : Clients, nr : Nat \ {0}, id : Int]

SessionTypes ==
  /\ typed \in [Clients -> Seq(Words)]
  /\ taken \in [Clients -> Nat]
  /\ requestId \in [Clients -> Int] /\ counter \in Int
  /\ forwarded \in Seq(Forwards)
  /\ routed \in Nat
  /\ told \in [Clients -> Seq(Nat)]
  /\ shown \in [Clients -> Nat]

\* The request forwarded[k] stands for.
Request(k) == RequestOf(forwarded[k].from, forwarded[k].nr)

\* Commands are handled in the order they were typed, and answered in the
\* order they were handled.
QueueInv ==
  /\ \A c \in Clients : taken[c] <= Len(typed[c]) /\ Len(typed[c]) <= MaxCommands
  /\ \A k \in 1 .. Len(forwarded) : forwarded[k].nr <= taken[forwarded[k].from]
  /\ \A j, k \in 1 .. Len(forwarded) :
       j < k /\ forwarded[j].from = forwarded[k].from => forwarded[j].nr < forwarded[k].nr
  /\ Len(answers) <= Len(forwarded)

\* What the register is asked, and what it has answered.
AnswersInv ==
  /\ pending[Line] # None =>
       Len(answers) < Len(forwarded) /\ pending[Line] = Request(Len(answers) + 1)
  /\ \A k \in 1 .. Len(answers) :
       /\ answers[k].request = Request(k)
       /\ answers[k].answer = "created" => answers[k].request.kind = "create"

\* An id other than 0 in a Client is that of a request of its own.
RouteInv ==
  /\ routed <= Len(answers)
  /\ \A k \in 1 .. Len(forwarded) : forwarded[k].id < counter
  /\ \A c \in Clients : requestId[c] # 0 =>
       /\ requestId[c] < counter
       /\ \A k \in 1 .. Len(forwarded) : forwarded[k].id = requestId[c] => forwarded[k].from = c
  /\ \A c \in Clients :
       /\ \A i \in 1 .. Len(told[c]) :
            /\ told[c][i] \in 1 .. routed
            /\ forwarded[told[c][i]].from = c \/ forwarded[told[c][i]].id = 0
       /\ \A i, j \in 1 .. Len(told[c]) : i < j => told[c][i] < told[c][j]

\* Who waits for every text is told about the commands one by one.
PatientInv ==
  \A c \in Clients :
    /\ \A n \in 1 .. Len(typed[c]) : typed[c][n].seen <= shown[c]
    /\ shown[c] <= Len(told[c])
    /\ Patient(c) /\ ~ZeroId =>
         \A i \in 1 .. Len(told[c]) : forwarded[told[c][i]].nr = i

SessionInv ==
  RegistryInv /\ SessionTypes /\ QueueInv /\ AnswersInv /\ RouteInv /\ PatientInv
-----------------------------------------------------------------------------
\* Which request a word becomes.
LEMMA WordRequest ==
  ASSUME NEW w \in Words
  PROVE  /\ Parsed(Frame(w)) =
              [kind |-> IF w.word = "AUTHENTICATE" THEN "authenticate" ELSE "create",
               email |-> w.email, pw |-> w.pw]
         /\ Parsed(Frame(w)) \in Requests /\ Parsed(Frame(w)) # None
<1>1. w.word \in {"REGISTER", "AUTHENTICATE", "other"} /\ w.email \in Emails /\ w.pw \in Passwords
  BY SessionAssumption DEF Words
<1>2. w.word = "other" => w.email = Empty /\ w.pw = Empty
  BY DEF Words
<1>3. \A k \in {"create", "authenticate"} :
        /\ [kind |-> k, email |-> w.email, pw |-> w.pw] \in Requests
        /\ [kind |-> k, email |-> w.email, pw |-> w.pw] # None
  BY <1>1, NoneAssumption DEF Requests
<1>4. CASE w.word = "REGISTER"
  <2>1. Frame(w) = [kind |-> "create", email |-> w.email, pw |-> w.pw]
    BY <1>4 DEF Frame
  <2> QED BY <2>1, <1>3, <1>4 DEF Parsed
<1>5. CASE w.word = "AUTHENTICATE"
  <2>1. Frame(w) = [kind |-> "authenticate", email |-> w.email, pw |-> w.pw]
    BY <1>5 DEF Frame
  <2> QED BY <2>1, <1>3, <1>5 DEF Parsed
<1>6. CASE w.word = "other"
  <2>1. Frame(w) = None
    BY <1>6 DEF Frame
  <2>2. Parsed(Frame(w)) = [kind |-> "create", email |-> w.email, pw |-> w.pw]
    BY <2>1, <1>6, <1>2 DEF Parsed
  <2> QED BY <2>2, <1>3, <1>6
<1> QED BY <1>1, <1>4, <1>5, <1>6

\* A typed command is a request.
LEMMA TypedRequest ==
  ASSUME SessionTypes, NEW c \in Clients, NEW n \in 1 .. Len(typed[c])
  PROVE  /\ typed[c][n] \in Words
         /\ RequestOf(c, n) \in Requests /\ RequestOf(c, n) # None
<1>1. typed[c][n] \in Words
  BY DEF SessionTypes
<1> QED BY <1>1, WordRequest DEF RequestOf

\* What is forwarded was typed.
LEMMA ForwardedRequest ==
  ASSUME SessionTypes, QueueInv, NEW k \in 1 .. Len(forwarded)
  PROVE  /\ forwarded[k] \in Forwards
         /\ forwarded[k].from \in Clients
         /\ forwarded[k].nr \in 1 .. Len(typed[forwarded[k].from])
         /\ Request(k) \in Requests /\ Request(k) # None
<1>1. forwarded[k] \in Forwards
  BY DEF SessionTypes
<1>2. forwarded[k].from \in Clients /\ forwarded[k].nr \in Nat \ {0}
  BY <1>1 DEF Forwards
<1>3. /\ forwarded[k].nr <= taken[forwarded[k].from]
      /\ taken[forwarded[k].from] <= Len(typed[forwarded[k].from])
      /\ taken[forwarded[k].from] \in Nat /\ Len(typed[forwarded[k].from]) \in Nat
  BY <1>2 DEF QueueInv, SessionTypes
<1>4. forwarded[k].nr \in 1 .. Len(typed[forwarded[k].from])
  BY <1>2, <1>3
<1> QED BY <1>1, <1>2, <1>4, TypedRequest DEF Request

\* There is room for one more command.
LEMMA RoomToType ==
  ASSUME SessionTypes, NEW c \in Clients,
         Cardinality({s \in Keystrokes : Typed(s)}) < MaxCommands
  PROVE  Len(typed[c]) < MaxCommands
<1> DEFINE T == {s \in Keystrokes : Typed(s)}
           f == [n \in 1 .. MaxCommands |-> <<c, n>>]
<1>1. MaxCommands \in Nat /\ IsFiniteSet(Clients) /\ Len(typed[c]) \in Nat
  BY SessionAssumption DEF SessionTypes
<1>2. IsFiniteSet(Keystrokes)
  <2>1. IsFiniteSet(1 .. MaxCommands)
    BY <1>1, FS_Interval
  <2> QED BY <2>1, <1>1, FS_Product DEF Keystrokes
<1>3. IsFiniteSet(T)
  BY <1>2, FS_Subset
<1>4. IsFiniteSet(1 .. MaxCommands) /\ Cardinality(1 .. MaxCommands) = MaxCommands
  BY <1>1, FS_Interval
<1>5. ASSUME Len(typed[c]) >= MaxCommands PROVE FALSE
  <2>1. \A n \in 1 .. MaxCommands : <<c, n>> \in T
    BY <1>1, <1>5 DEF Keystrokes, Typed
  <2>2. f \in [1 .. MaxCommands -> T]
    BY <2>1
  <2>3. \A m, n \in 1 .. MaxCommands : f[m] = f[n] => m = n
    OBVIOUS
  <2>4. f \in Injection(1 .. MaxCommands, T)
    BY <2>2, <2>3 DEF Injection, IsInjective
  <2>5. Cardinality(1 .. MaxCommands) <= Cardinality(T)
    <3> HIDE DEF T, f
    <3> QED BY <2>4, <1>3, FS_Injection
  <2>6. Cardinality(T) \in Nat
    BY <1>3, FS_CardinalityType
  <2> QED BY <2>5, <2>6, <1>4, <1>1
<1> QED BY <1>5, <1>1
-----------------------------------------------------------------------------
(* The invariant holds at the start.                                       *)

LEMMA SessionStarts == SessionInit => SessionInv
<1> SUFFICES ASSUME SessionInit PROVE SessionInv
  OBVIOUS
<1>1. RegistryInv
  BY RegistryInit DEF SessionInit
<1>2. SessionTypes
  BY SessionAssumption DEF SessionInit, SessionTypes
<1>3. answers = <<>> /\ Len(answers) = 0 /\ forwarded = <<>> /\ Len(forwarded) = 0
  BY DEF SessionInit, Init
<1>4. \A c \in Clients : Len(typed[c]) = 0 /\ Len(told[c]) = 0
  BY DEF SessionInit
<1>5. QueueInv
  BY <1>3, <1>4, SessionAssumption DEF SessionInit, QueueInv
<1>6. AnswersInv
  BY <1>3, SessionAssumption DEF SessionInit, Init, AnswersInv
<1>7. RouteInv
  BY <1>3, <1>4 DEF SessionInit, RouteInv
<1>8. PatientInv
  BY <1>4 DEF SessionInit, PatientInv
<1> QED BY <1>1, <1>2, <1>5, <1>6, <1>7, <1>8 DEF SessionInv
-----------------------------------------------------------------------------
(* Every step keeps it.                                                    *)

\* What does not change the commands and the forwarded requests leaves what
\* they stand for as it is.
LEMMA RequestsStay ==
  ASSUME UNCHANGED typed
  PROVE  \A c, n : RequestOf(c, n)' = RequestOf(c, n)
BY DEF RequestOf

\* Typing adds a command behind those there are.
LEMMA TypeAppends ==
  ASSUME SessionTypes, NEW c \in Clients, NEW cmd \in Commands, Type(c, cmd)
  PROVE  /\ typed' \in [Clients -> Seq(Words)]
         /\ Len(typed'[c]) = Len(typed[c]) + 1
         /\ typed'[c][Len(typed[c]) + 1].seen = shown[c]
         /\ \A d \in Clients \ {c} : typed'[d] = typed[d]
         /\ \A d \in Clients : Len(typed[d]) <= Len(typed'[d])
         /\ \A d \in Clients : \A n \in 1 .. Len(typed[d]) :
              typed'[d][n] = typed[d][n] /\ RequestOf(d, n)' = RequestOf(d, n)
<1> DEFINE w == [word |-> cmd.word, email |-> cmd.email, pw |-> cmd.pw, seen |-> shown[c]]
<1>1. w \in Words
  <2>1. shown[c] \in Nat
    BY DEF SessionTypes
  <2>2. CASE cmd \in [word : {"other"}, email : {Empty}, pw : {Empty}]
    BY <2>1, <2>2 DEF Words
  <2>3. CASE cmd \in [word : {"REGISTER", "AUTHENTICATE"}, email : Emails \ {Empty},
                      pw : Passwords \ {Empty}]
    BY <2>1, <2>3 DEF Words
  <2> QED BY <2>2, <2>3 DEF Commands
<1>2. typed' = [typed EXCEPT ![c] = Append(@, w)] /\ w.seen = shown[c]
  BY DEF Type
<1> HIDE DEF w
<1>3. typed[c] \in Seq(Words) /\ \A d \in Clients : Len(typed[d]) \in Nat
  BY DEF SessionTypes
<1>4. /\ Append(typed[c], w) \in Seq(Words)
      /\ Len(Append(typed[c], w)) = Len(typed[c]) + 1
      /\ Append(typed[c], w)[Len(typed[c]) + 1] = w
      /\ \A n \in 1 .. Len(typed[c]) : Append(typed[c], w)[n] = typed[c][n]
  BY <1>1, <1>3
<1>5. typed'[c] = Append(typed[c], w) /\ \A d \in Clients \ {c} : typed'[d] = typed[d]
  BY <1>2 DEF SessionTypes
<1>6. typed' \in [Clients -> Seq(Words)]
  BY <1>2, <1>4 DEF SessionTypes
<1>7. \A d \in Clients : Len(typed[d]) <= Len(typed'[d])
  BY <1>3, <1>4, <1>5
<1>8. \A d \in Clients : \A n \in 1 .. Len(typed[d]) : typed'[d][n] = typed[d][n]
  BY <1>4, <1>5
<1>9. \A d \in Clients : \A n \in 1 .. Len(typed[d]) : RequestOf(d, n)' = RequestOf(d, n)
  BY <1>8 DEF RequestOf
<1> QED BY <1>2, <1>4, <1>5, <1>6, <1>7, <1>8, <1>9

LEMMA TypeStep ==
  ASSUME SessionInv, NEW c \in Clients, NEW cmd \in Commands, Type(c, cmd)
  PROVE  SessionInv'
<1> USE DEF SessionInv
<1>1. UNCHANGED <<shown, taken, requestId, counter, forwarded, routed, told, accounts, pending,
                  answers>>
  BY DEF Type, gatewayVars, registryVars
<1>2. /\ typed' \in [Clients -> Seq(Words)]
      /\ Len(typed'[c]) = Len(typed[c]) + 1
      /\ typed'[c][Len(typed[c]) + 1].seen = shown[c]
      /\ \A d \in Clients \ {c} : typed'[d] = typed[d]
      /\ \A d \in Clients : Len(typed[d]) <= Len(typed'[d])
      /\ \A d \in Clients : \A n \in 1 .. Len(typed[d]) :
           typed'[d][n] = typed[d][n] /\ RequestOf(d, n)' = RequestOf(d, n)
  BY TypeAppends
<1>3. RegistryInv'
  BY <1>1 DEF RegistryInv, TypeOK, HasOrigin, Kept, Creates, LoginFollowsCreate, CreatedOnce
<1>4. SessionTypes'
  BY <1>1, <1>2 DEF SessionTypes
<1>5. QueueInv'
  <2>1. Len(typed[c]) < MaxCommands /\ MaxCommands \in Nat
    BY RoomToType, SessionAssumption DEF Type
  <2>2. ASSUME NEW d \in Clients PROVE taken[d] <= Len(typed'[d]) /\ Len(typed'[d]) <= MaxCommands
    <3>1. /\ taken[d] <= Len(typed[d]) /\ Len(typed[d]) <= MaxCommands
          /\ taken[d] \in Nat /\ Len(typed[d]) \in Nat /\ Len(typed'[d]) \in Nat
      BY <1>2 DEF QueueInv, SessionTypes
    <3>2. CASE d = c
      <4>1. taken[c] <= Len(typed[c]) /\ taken[c] \in Nat /\ Len(typed[c]) \in Nat
            /\ Len(typed'[c]) = Len(typed[c]) + 1
        BY <3>1, <3>2, <1>2
      <4> QED BY <4>1, <3>2, <2>1
    <3>3. CASE d # c
      <4>1. typed'[d] = typed[d]
        BY <3>3, <1>2
      <4> QED BY <4>1, <3>1
    <3> QED BY <3>2, <3>3
  <2> QED BY <2>2, <1>1 DEF QueueInv
<1>6. \A k \in 1 .. Len(forwarded) : Request(k)' = Request(k)
  BY <1>1, <1>2, ForwardedRequest DEF Request
<1>7. AnswersInv'
  <2>1. Len(answers) <= Len(forwarded) /\ Len(answers) \in Nat /\ Len(forwarded) \in Nat
    BY DEF QueueInv, RegistryInv, TypeOK, SessionTypes
  <2> QED BY <2>1, <1>1, <1>6 DEF AnswersInv
<1>8. RouteInv'
  BY <1>1 DEF RouteInv
<1>9. PatientInv'
  <2> SUFFICES ASSUME NEW d \in Clients
               PROVE  /\ \A n \in 1 .. Len(typed'[d]) : typed'[d][n].seen <= shown[d]
                      /\ shown[d] <= Len(told[d])
                      /\ Patient(d)' /\ ~ZeroId =>
                           \A i \in 1 .. Len(told[d]) : forwarded[told[d][i]].nr = i
    BY <1>1 DEF PatientInv, ZeroId
  <2>1. Len(typed[d]) \in Nat /\ shown[d] \in Nat
    BY DEF SessionTypes
  <2>2. ASSUME NEW n \in 1 .. Len(typed'[d]) PROVE typed'[d][n].seen <= shown[d]
    <3>1. CASE n \in 1 .. Len(typed[d])
      <4>1. typed'[d][n] = typed[d][n]
        BY <3>1, <1>2
      <4> QED BY <4>1, <3>1 DEF PatientInv
    <3>2. CASE n \notin 1 .. Len(typed[d])
      <4>1. d = c
        BY <3>2, <1>2
      <4>2. Len(typed'[c]) = Len(typed[c]) + 1 /\ typed'[c][Len(typed[c]) + 1].seen = shown[c]
        BY <1>2
      <4>3. n = Len(typed[c]) + 1
        BY <4>1, <4>2, <3>2, <2>1
      <4> QED BY <4>1, <4>2, <4>3, <2>1
    <3> QED BY <3>1, <3>2
  <2>3. Patient(d)' => Patient(d)
    <3>1. \A n \in 1 .. Len(typed[d]) : n \in 1 .. Len(typed'[d])
      BY <1>2, <2>1
    <3> QED BY <3>1, <1>2 DEF Patient
  <2> QED BY <2>2, <2>3 DEF PatientInv
<1> QED BY <1>3, <1>4, <1>5, <1>7, <1>8, <1>9

\* Show changes only what a client has printed.
LEMMA ShowStep ==
  ASSUME SessionInv, NEW c \in Clients, Show(c)
  PROVE  SessionInv'
<1> USE DEF SessionInv
<1>1. UNCHANGED <<typed, taken, requestId, counter, forwarded, routed, told, accounts, pending,
                  answers>>
  BY DEF Show, gatewayVars, registryVars
<1>2. /\ shown' \in [Clients -> Nat]
      /\ \A d \in Clients : shown[d] <= shown'[d] /\ shown'[d] <= Len(told[d])
  BY DEF Show, SessionTypes, PatientInv
<1>3. RegistryInv'
  BY <1>1 DEF RegistryInv, TypeOK, HasOrigin, Kept, Creates, LoginFollowsCreate, CreatedOnce
<1>4. SessionTypes' /\ QueueInv' /\ RouteInv'
  BY <1>1, <1>2 DEF SessionTypes, QueueInv, RouteInv
<1>5. AnswersInv'
  BY <1>1, RequestsStay DEF AnswersInv, Request
<1>6. PatientInv'
  <2>1. \A d \in Clients : \A n \in 1 .. Len(typed[d]) :
          typed[d][n].seen \in Nat /\ typed[d][n].seen <= shown'[d]
    <3> SUFFICES ASSUME NEW d \in Clients, NEW n \in 1 .. Len(typed[d])
                 PROVE  typed[d][n].seen \in Nat /\ typed[d][n].seen <= shown'[d]
      OBVIOUS
    <3>1. typed[d][n].seen \in Nat
      BY TypedRequest DEF Words
    <3>2. typed[d][n].seen <= shown[d]
      BY DEF PatientInv
    <3>3. shown[d] \in Nat /\ shown'[d] \in Nat /\ shown[d] <= shown'[d]
      BY <1>2 DEF SessionTypes
    <3> QED BY <3>1, <3>2, <3>3
  <2> QED BY <2>1, <1>1, <1>2 DEF PatientInv, Patient, ZeroId
<1> QED BY <1>3, <1>4, <1>5, <1>6

\* Handling a command may forward it, behind the requests there are.
LEMMA HandleStep ==
  ASSUME SessionInv, NEW c \in Clients, Handle(c)
  PROVE  SessionInv'
<1> USE DEF SessionInv
<1> DEFINE f == [from |-> c, nr |-> taken[c] + 1, id |-> counter]
           n == Len(forwarded)
<1>1. /\ UNCHANGED <<typed, shown, routed, told, accounts, pending, answers>>
      /\ taken[c] < Len(typed[c])
      /\ taken' = [taken EXCEPT ![c] = @ + 1]
      /\ requestId' = [requestId EXCEPT ![c] = counter]
      /\ counter' = counter + 1
      /\ forwarded' = forwarded \/ forwarded' = Append(forwarded, f)
  BY DEF Handle, clientVars, registryVars
<1>2. /\ taken \in [Clients -> Nat] /\ requestId \in [Clients -> Int] /\ counter \in Int
      /\ forwarded \in Seq(Forwards) /\ n \in Nat
      /\ Len(typed[c]) \in Nat
  BY DEF SessionTypes
<1>3. f \in Forwards /\ f.from = c /\ f.nr = taken[c] + 1 /\ f.id = counter
  BY <1>2 DEF Forwards
<1> HIDE DEF f
<1>4. /\ forwarded' \in Seq(Forwards)
      /\ Len(forwarded') \in n .. n + 1
      /\ \A k \in 1 .. n : forwarded'[k] = forwarded[k]
      /\ \A k \in 1 .. Len(forwarded') : k \in 1 .. n \/ (k = n + 1 /\ forwarded'[k] = f)
  <2>1. CASE forwarded' = forwarded
    BY <2>1, <1>2
  <2>2. CASE forwarded' = Append(forwarded, f)
    <3>1. /\ Append(forwarded, f) \in Seq(Forwards) /\ Len(Append(forwarded, f)) = n + 1
          /\ Append(forwarded, f)[n + 1] = f
          /\ \A k \in 1 .. n : Append(forwarded, f)[k] = forwarded[k]
      BY <1>2, <1>3
    <3>2. \A k \in 1 .. n + 1 : k \in 1 .. n \/ k = n + 1
      BY <1>2
    <3>3. n + 1 \in n .. n + 1
      BY <1>2
    <3> HIDE DEF n
    <3> QED BY <2>2, <3>1, <3>2, <3>3
  <2> QED BY <2>1, <2>2, <1>1
<1>5. /\ taken'[c] = taken[c] + 1 /\ \A d \in Clients \ {c} : taken'[d] = taken[d]
      /\ requestId'[c] = counter /\ \A d \in Clients \ {c} : requestId'[d] = requestId[d]
      /\ \A d \in Clients : taken[d] <= taken'[d] /\ taken[d] \in Nat /\ taken'[d] \in Nat
  BY <1>1, <1>2
<1>6. \A k \in 1 .. n :
        /\ forwarded[k].from \in Clients /\ forwarded[k].nr \in Nat /\ forwarded[k].id \in Int
        /\ forwarded[k].nr <= taken[forwarded[k].from] /\ forwarded[k].id < counter
  BY ForwardedRequest DEF Forwards, QueueInv, RouteInv
<1>7. RegistryInv'
  BY <1>1 DEF RegistryInv, TypeOK, HasOrigin, Kept, Creates, LoginFollowsCreate, CreatedOnce
<1>8. SessionTypes'
  BY <1>1, <1>2, <1>4 DEF SessionTypes
<1>9. QueueInv'
  <2>1. \A d \in Clients : taken'[d] <= Len(typed[d]) /\ Len(typed[d]) <= MaxCommands
    <3>1. taken'[c] <= Len(typed[c])
      BY <1>1, <1>2, <1>5
    <3> QED BY <3>1, <1>5 DEF QueueInv
  <2>2. ASSUME NEW k \in 1 .. Len(forwarded')
        PROVE  forwarded'[k].nr <= taken'[forwarded'[k].from]
    <3>1. CASE k \in 1 .. n
      <4>1. /\ forwarded'[k] = forwarded[k]
            /\ forwarded[k].from \in Clients /\ forwarded[k].nr \in Nat
            /\ forwarded[k].nr <= taken[forwarded[k].from]
        BY <3>1, <1>4, <1>6
      <4>2. taken[forwarded[k].from] <= taken'[forwarded[k].from]
        BY <4>1, <1>5
      <4> QED BY <4>1, <4>2, <1>5
    <3>2. CASE k = n + 1 /\ forwarded'[k] = f
      BY <3>2, <1>2, <1>3, <1>5
    <3> QED BY <3>1, <3>2, <1>4
  <2>3. ASSUME NEW j \in 1 .. Len(forwarded'), NEW k \in 1 .. Len(forwarded'),
               j < k, forwarded'[j].from = forwarded'[k].from
        PROVE  forwarded'[j].nr < forwarded'[k].nr
    <3>1. j \in 1 .. n
      BY <2>3, <1>2, <1>4
    <3>2. CASE k \in 1 .. n
      BY <3>1, <3>2, <2>3, <1>4 DEF QueueInv
    <3>3. CASE k = n + 1 /\ forwarded'[k] = f
      BY <3>1, <3>3, <2>3, <1>2, <1>3, <1>4, <1>6
    <3> QED BY <3>2, <3>3, <1>4
  <2>4. Len(answers) <= n /\ Len(answers) \in Nat
    BY DEF QueueInv, RegistryInv, TypeOK
  <2> QED BY <2>1, <2>2, <2>3, <2>4, <1>1, <1>2, <1>4 DEF QueueInv
<1>10. \A k \in 1 .. n : Request(k)' = Request(k)
  BY <1>1, <1>4, RequestsStay DEF Request
<1>11. AnswersInv'
  <2>1. Len(answers) <= n /\ Len(answers) \in Nat
    BY DEF QueueInv, RegistryInv, TypeOK
  <2> QED BY <2>1, <1>1, <1>2, <1>4, <1>10 DEF AnswersInv
<1>12. RouteInv'
  <2>1. routed <= Len(answers) /\ Len(answers) <= n /\ routed \in Nat /\ Len(answers) \in Nat
    BY DEF RouteInv, QueueInv, SessionTypes, RegistryInv, TypeOK
  <2>2. ASSUME NEW k \in 1 .. Len(forwarded') PROVE forwarded'[k].id < counter'
    <3>1. CASE k \in 1 .. n
      <4>1. forwarded'[k] = forwarded[k] /\ forwarded[k].id \in Int /\ forwarded[k].id < counter
        BY <3>1, <1>4, <1>6
      <4> QED BY <4>1, <1>1, <1>2
    <3>2. CASE forwarded'[k] = f
      BY <3>2, <1>1, <1>2, <1>3
    <3> QED BY <3>1, <3>2, <1>4
  <2>3. ASSUME NEW d \in Clients, requestId'[d] # 0
        PROVE  /\ requestId'[d] < counter'
               /\ \A k \in 1 .. Len(forwarded') :
                    forwarded'[k].id = requestId'[d] => forwarded'[k].from = d
    <3>1. CASE d = c
      BY <3>1, <1>1, <1>2, <1>3, <1>4, <1>5, <1>6
    <3>2. CASE d # c
      <4>1. requestId'[d] = requestId[d] /\ requestId[d] < counter /\ requestId[d] \in Int
        BY <3>2, <2>3, <1>2, <1>5 DEF RouteInv
      <4> QED BY <4>1, <2>3, <1>1, <1>2, <1>3, <1>4 DEF RouteInv
    <3> QED BY <3>1, <3>2
  <2>4. \A d \in Clients : \A i \in 1 .. Len(told[d]) :
          /\ told[d][i] \in 1 .. routed
          /\ forwarded'[told[d][i]] = forwarded[told[d][i]]
    <3>1. \A i \in 1 .. routed : i \in 1 .. n
      BY <2>1, <1>2
    <3> HIDE DEF n
    <3> QED BY <3>1, <1>4 DEF RouteInv
  <2> QED BY <2>1, <2>2, <2>3, <2>4, <1>1 DEF RouteInv
<1>13. PatientInv'
  <2>1. ZeroId => ZeroId'
    BY <1>2, <1>4 DEF ZeroId
  <2>2. \A d \in Clients : \A i \in 1 .. Len(told[d]) : forwarded'[told[d][i]] = forwarded[told[d][i]]
    <3>1. routed <= Len(answers) /\ Len(answers) <= n /\ routed \in Nat /\ Len(answers) \in Nat
      BY DEF RouteInv, QueueInv, SessionTypes, RegistryInv, TypeOK
    <3>2. \A i \in 1 .. routed : i \in 1 .. n
      BY <3>1, <1>2
    <3> HIDE DEF n
    <3> QED BY <3>2, <1>4 DEF RouteInv
  <2> QED BY <2>1, <2>2, <1>1 DEF PatientInv, Patient
<1> QED BY <1>7, <1>8, <1>9, <1>11, <1>12, <1>13

\* An answer that is routed goes behind those its receiver has.
LEMMA RouteStep ==
  ASSUME SessionInv, Route
  PROVE  SessionInv'
<1> USE DEF SessionInv
<1> DEFINE r == routed + 1
<1>1. /\ UNCHANGED <<typed, shown, taken, requestId, counter, forwarded, accounts, pending,
                     answers>>
      /\ routed < Len(answers) /\ routed' = r
      /\ \/ UNCHANGED told
         \/ \E c \in Asker(forwarded[r].id) : told' = [told EXCEPT ![c] = Append(@, r)]
  BY DEF Route, clientVars, registryVars
<1>2. /\ routed \in Nat /\ r \in 1 .. Len(answers) /\ r \in 1 .. Len(forwarded)
      /\ Len(answers) \in Nat /\ Len(forwarded) \in Nat
  BY <1>1 DEF SessionTypes, QueueInv, RegistryInv, TypeOK
<1>3. RegistryInv' /\ QueueInv'
  BY <1>1 DEF RegistryInv, TypeOK, HasOrigin, Kept, Creates, LoginFollowsCreate, CreatedOnce,
              QueueInv
<1>4. AnswersInv'
  BY <1>1, RequestsStay DEF AnswersInv, Request
<1>5. \A c \in Clients : \A i \in 1 .. Len(told[c]) :
        told[c][i] \in 1 .. routed /\ told[c][i] \in 1 .. r
  BY <1>2 DEF RouteInv
<1>6. CASE UNCHANGED told
  <2>1. SessionTypes' /\ RouteInv'
    BY <1>6, <1>1, <1>2, <1>5 DEF SessionTypes, RouteInv
  <2>2. PatientInv'
    BY <1>6, <1>1 DEF PatientInv, Patient, ZeroId
  <2> QED BY <2>1, <2>2, <1>3, <1>4
<1>7. ASSUME NEW c \in Asker(forwarded[r].id), told' = [told EXCEPT ![c] = Append(@, r)]
      PROVE  SessionInv'
  <2> DEFINE m == Len(told[c])
  <2>1. c \in Clients /\ requestId[c] = forwarded[r].id
    BY DEF Asker
  <2>2. told[c] \in Seq(Nat) /\ m \in Nat
    BY <2>1 DEF SessionTypes
  <2>3. /\ Append(told[c], r) \in Seq(Nat) /\ Len(Append(told[c], r)) = m + 1
        /\ Append(told[c], r)[m + 1] = r
        /\ \A i \in 1 .. m : Append(told[c], r)[i] = told[c][i]
    BY <2>2, <1>2
  <2>4. /\ told' \in [Clients -> Seq(Nat)]
        /\ told'[c] = Append(told[c], r) /\ \A d \in Clients \ {c} : told'[d] = told[d]
    BY <1>7, <2>1, <2>3 DEF SessionTypes
  <2>5. /\ Len(told'[c]) = m + 1 /\ told'[c][m + 1] = r
        /\ \A i \in 1 .. m : told'[c][i] = told[c][i]
    BY <2>3, <2>4
  <2>6. SessionTypes'
    <3>1. routed' \in Nat
      BY <1>1, <1>2
    <3>2. told' \in [Clients -> Seq(Nat)]
      BY <2>4
    <3> QED BY <3>1, <3>2, <1>1 DEF SessionTypes
  <2>7. forwarded[r].from = c \/ forwarded[r].id = 0
    BY <2>1, <1>2 DEF RouteInv
  <2>8. RouteInv'
    <3>1. ASSUME NEW d \in Clients, NEW i \in 1 .. Len(told'[d])
          PROVE  /\ told'[d][i] \in 1 .. r
                 /\ forwarded[told'[d][i]].from = d \/ forwarded[told'[d][i]].id = 0
      <4>1. CASE d = c /\ i = m + 1
        BY <4>1, <2>5, <2>7, <1>2
      <4>2. CASE d = c /\ i \in 1 .. m
        BY <4>2, <2>5, <1>5 DEF RouteInv
      <4>3. CASE d # c
        <5>1. told'[d] = told[d] /\ i \in 1 .. Len(told[d])
          BY <4>3, <2>4
        <5>2. told[d][i] \in 1 .. r
          BY <5>1, <1>5
        <5>3. forwarded[told[d][i]].from = d \/ forwarded[told[d][i]].id = 0
          BY <5>1 DEF RouteInv
        <5> QED BY <5>1, <5>2, <5>3
      <4> QED BY <4>1, <4>2, <4>3, <2>2, <2>5
    <3>2. ASSUME NEW d \in Clients, NEW i \in 1 .. Len(told'[d]), NEW j \in 1 .. Len(told'[d]), i < j
          PROVE  told'[d][i] < told'[d][j]
      <4>1. CASE d = c /\ j = m + 1
        <5>1. i \in 1 .. m
          BY <4>1, <3>2, <2>2
        <5>2. told'[d][i] \in 1 .. routed /\ told'[d][j] = r
          BY <5>1, <4>1, <2>1, <2>5, <1>5
        <5> QED BY <5>2, <1>2
      <4>2. CASE d = c /\ j \in 1 .. m
        <5>1. i \in 1 .. m
          BY <4>2, <3>2, <2>2
        <5> QED BY <5>1, <4>2, <3>2, <2>1, <2>5 DEF RouteInv
      <4>3. CASE d # c
        BY <4>3, <3>2, <2>4 DEF RouteInv
      <4> QED BY <4>1, <4>2, <4>3, <2>2, <2>5
    <3>3. /\ \A k \in 1 .. Len(forwarded) : forwarded[k].id < counter
          /\ \A d \in Clients : requestId[d] # 0 =>
               /\ requestId[d] < counter
               /\ \A k \in 1 .. Len(forwarded) :
                    forwarded[k].id = requestId[d] => forwarded[k].from = d
      BY DEF RouteInv
    <3>4. r <= Len(answers)
      BY <1>2
    <3> HIDE DEF r
    <3> QED BY <3>1, <3>2, <3>3, <3>4, <1>1 DEF RouteInv
  <2>9. PatientInv'
    <3> SUFFICES ASSUME NEW d \in Clients
                 PROVE  /\ \A n \in 1 .. Len(typed[d]) : typed[d][n].seen <= shown[d]
                        /\ shown[d] <= Len(told'[d])
                        /\ Patient(d) /\ ~ZeroId =>
                             \A i \in 1 .. Len(told'[d]) : forwarded[told'[d][i]].nr = i
      BY <1>1 DEF PatientInv, Patient, ZeroId
    <3>1. CASE d # c
      BY <3>1, <2>4 DEF PatientInv
    <3>2. CASE d = c
      <4>1. shown[c] <= m /\ shown[c] \in Nat
        BY <2>1 DEF PatientInv, SessionTypes
      <4>2. shown[c] <= m + 1
        BY <4>1, <2>2
      <4>3. ASSUME Patient(c), ~ZeroId, NEW i \in 1 .. m + 1
            PROVE  forwarded[told'[c][i]].nr = i
        <5>1. CASE i \in 1 .. m
          BY <5>1, <4>3, <2>1, <2>5 DEF PatientInv
        <5>2. CASE i = m + 1
          <6>1. forwarded[r].from = c /\ forwarded[r].nr \in Nat \ {0}
            BY <4>3, <2>7, <1>2, ForwardedRequest DEF ZeroId, Forwards
          <6>2. forwarded[r].nr > m
            <7>1. CASE m = 0
              BY <7>1, <6>1
            <7>2. CASE m > 0
              <8>1. m \in 1 .. m /\ told[c][m] \in 1 .. routed
                BY <7>2, <2>1, <2>2, <1>5
              <8>2. told[c][m] \in 1 .. Len(forwarded) /\ told[c][m] < r
                BY <8>1, <1>2
              <8>3. forwarded[told[c][m]].from = c /\ forwarded[told[c][m]].nr = m
                BY <8>1, <8>2, <4>3, <2>1 DEF RouteInv, ZeroId, PatientInv
              <8> QED BY <8>2, <8>3, <6>1, <1>2 DEF QueueInv
            <7> QED BY <7>1, <7>2, <2>2
          <6>3. forwarded[r].nr \in 1 .. Len(typed[c])
            BY <6>1, <1>2, ForwardedRequest
          <6>4. /\ typed[c][Len(typed[c])].seen = Len(typed[c]) - 1
                /\ typed[c][Len(typed[c])].seen <= shown[c]
                /\ Len(typed[c]) \in Nat
            <7>0. Len(typed[c]) \in Nat
              BY <2>1 DEF SessionTypes
            <7>1. Len(typed[c]) \in 1 .. Len(typed[c]) /\ Len(typed[c]) \in Nat
              BY <6>3, <7>0
            <7> QED BY <7>1, <4>3, <2>1 DEF Patient, PatientInv
          <6>5. Len(typed[c]) <= m + 1
            BY <6>4, <4>1, <2>2
          <6> QED BY <5>2, <6>1, <6>2, <6>3, <6>5, <6>4, <2>2, <2>5
        <5> QED BY <5>1, <5>2, <2>2
      <4> QED BY <3>2, <4>2, <4>3, <2>1, <2>5 DEF PatientInv
    <3> QED BY <3>1, <3>2
  <2> QED BY <2>6, <2>8, <2>9, <1>3, <1>4
<1> QED BY <1>1, <1>6, <1>7

\* The register is asked what was forwarded next.
LEMMA TakeStep ==
  ASSUME SessionInv, Take
  PROVE  SessionInv'
<1> USE DEF SessionInv
<1> DEFINE n == Len(answers)  f == forwarded[n + 1]
<1>1. /\ UNCHANGED <<typed, shown, taken, requestId, counter, forwarded, routed, told>>
      /\ n < Len(forwarded)
      /\ Ask(Line, RequestOf(f.from, f.nr))
  BY DEF Take, clientVars, gatewayVars
<1>2. n + 1 \in 1 .. Len(forwarded) /\ n \in Nat
  BY <1>1 DEF RegistryInv, TypeOK, SessionTypes
<1>3. Request(n + 1) \in Requests /\ Request(n + 1) = RequestOf(f.from, f.nr)
  BY <1>2, ForwardedRequest DEF Request
<1>4. RegistryInv'
  <2>1. Line \in Threads
    BY SessionAssumption
  <2>2. Next
    BY <1>1, <1>3, <2>1 DEF Next
  <2> QED BY <2>2, RegistryStep
<1>5. accounts' = accounts /\ answers' = answers /\ pending' = [pending EXCEPT ![Line] = Request(n + 1)]
  BY <1>1, <1>3 DEF Ask
<1>6. pending'[Line] = Request(n + 1)
  BY <1>5, SessionAssumption DEF RegistryInv, TypeOK
<1>7. \A k : Request(k)' = Request(k)
  BY <1>1, RequestsStay DEF Request
<1>8. AnswersInv'
  BY <1>1, <1>5, <1>6, <1>7 DEF AnswersInv
<1>9. SessionTypes' /\ QueueInv' /\ RouteInv' /\ PatientInv'
  BY <1>1, <1>5 DEF SessionTypes, QueueInv, RouteInv, PatientInv, Patient, ZeroId
<1> QED BY <1>4, <1>8, <1>9

\* Whatever the register decides, it answers the request that is next.
LEMMA DecideAnswers ==
  ASSUME SessionInv, Decide
  PROVE  /\ UNCHANGED <<typed, shown, taken, requestId, counter, forwarded, routed, told>>
         /\ pending[Line] # None /\ pending[Line] = Request(Len(answers) + 1)
         /\ Len(answers) + 1 \in 1 .. Len(forwarded)
         /\ \E what \in {"created", "exists", "authenticated", "invalid"},
               user \in Users \cup {None} :
              /\ Answer(Line, what, user)
              /\ what = "created" => pending[Line].kind = "create"
         /\ RegistryInv'
<1> USE DEF SessionInv
<1>1. Line \in Threads
  BY SessionAssumption
<1>2. UNCHANGED <<typed, shown, taken, requestId, counter, forwarded, routed, told>>
  BY DEF Decide, clientVars, gatewayVars
<1>3. Next
  BY <1>1 DEF Decide, Next
<1>4. RegistryInv'
  BY <1>3, RegistryStep
<1> DEFINE GivesAnswer ==
             \E what \in {"created", "exists", "authenticated", "invalid"},
                user \in Users \cup {None} :
               /\ Answer(Line, what, user)
               /\ what = "created" => pending[Line].kind = "create"
<1>5. pending[Line] # None /\ GivesAnswer
  <2>1. ASSUME NEW user \in Users, Create(Line, user) PROVE pending[Line] # None /\ GivesAnswer
    BY <2>1 DEF Create, Asked
  <2>2. ASSUME RefuseDuplicate(Line) PROVE pending[Line] # None /\ GivesAnswer
    BY <2>2 DEF RefuseDuplicate, Asked
  <2>3. ASSUME Login(Line) PROVE pending[Line] # None /\ GivesAnswer
    <3>1. /\ pending[Line] # None /\ Opens(pending[Line])
          /\ Answer(Line, "authenticated", accounts[pending[Line].email].user)
      BY <2>3 DEF Login, Asked
    <3>2. accounts[pending[Line].email].user \in Users
      BY <1>1, <3>1 DEF RegistryInv, TypeOK, Opens, Requests, Accounts
    <3> QED BY <3>1, <3>2
  <2>4. ASSUME RefuseLogin(Line) PROVE pending[Line] # None /\ GivesAnswer
    BY <2>4 DEF RefuseLogin, Asked
  <2> QED BY <2>1, <2>2, <2>3, <2>4 DEF Decide
<1>6. pending[Line] = Request(Len(answers) + 1) /\ Len(answers) + 1 \in 1 .. Len(forwarded)
  <2>1. Len(answers) \in Nat /\ Len(forwarded) \in Nat
    BY DEF RegistryInv, TypeOK, SessionTypes
  <2>2. Len(answers) < Len(forwarded) /\ pending[Line] = Request(Len(answers) + 1)
    BY <1>5 DEF AnswersInv
  <2> QED BY <2>1, <2>2
<1> QED BY <1>2, <1>4, <1>5, <1>6

LEMMA DecideStep ==
  ASSUME SessionInv, Decide
  PROVE  SessionInv'
<1> USE DEF SessionInv
<1> DEFINE n == Len(answers)
<1>1. /\ UNCHANGED <<typed, shown, taken, requestId, counter, forwarded, routed, told>>
      /\ pending[Line] # None /\ pending[Line] = Request(n + 1)
      /\ n + 1 \in 1 .. Len(forwarded) /\ RegistryInv'
  BY DecideAnswers
<1>2. PICK what \in {"created", "exists", "authenticated", "invalid"},
           user \in Users \cup {None} :
         /\ Answer(Line, what, user)
         /\ what = "created" => pending[Line].kind = "create"
  BY DecideAnswers
<1>3. TypeOK /\ Line \in Threads /\ n \in Nat /\ Len(forwarded) \in Nat /\ routed \in Nat
  BY SessionAssumption DEF RegistryInv, TypeOK, SessionTypes
<1>4. /\ Len(answers') = n + 1
      /\ \A k \in 1 .. n : answers'[k] = answers[k]
      /\ answers'[n + 1] = [request |-> pending[Line], answer |-> what, user |-> user]
  BY <1>1, <1>2, <1>3, AnswerStep
<1>5. pending'[Line] = None
  BY <1>2, <1>3 DEF Answer, TypeOK
<1>6. \A k : Request(k)' = Request(k)
  BY <1>1, RequestsStay DEF Request
<1>7. AnswersInv'
  <2>1. ASSUME NEW k \in 1 .. n + 1
        PROVE  /\ answers'[k].request = Request(k)
               /\ answers'[k].answer = "created" => answers'[k].request.kind = "create"
    <3>1. CASE k \in 1 .. n
      BY <3>1, <1>4 DEF AnswersInv
    <3>2. CASE k = n + 1
      BY <3>2, <1>1, <1>2, <1>4
    <3> QED BY <3>1, <3>2, <1>3
  <2> QED BY <2>1, <1>4, <1>5, <1>6 DEF AnswersInv
<1>8. QueueInv'
  BY <1>1, <1>4 DEF QueueInv
<1>9. RouteInv'
  <2>1. routed <= Len(answers')
    BY <1>3, <1>4 DEF RouteInv
  <2> QED BY <2>1, <1>1 DEF RouteInv
<1>10. SessionTypes' /\ PatientInv'
  BY <1>1 DEF SessionTypes, PatientInv, Patient, ZeroId
<1> QED BY <1>1, <1>7, <1>8, <1>9, <1>10

\* Nothing of this is about who still runs.
LEMMA OtherStep ==
  ASSUME SessionInv,
         UNCHANGED <<typed, shown, taken, requestId, counter, forwarded, routed, told, accounts,
                     pending, answers>>
  PROVE  SessionInv'
<1> USE DEF SessionInv
<1>1. RegistryInv'
  BY DEF RegistryInv, TypeOK, HasOrigin, Kept, Creates, LoginFollowsCreate, CreatedOnce
<1>2. AnswersInv'
  BY RequestsStay DEF AnswersInv, Request
<1>3. SessionTypes' /\ QueueInv' /\ RouteInv' /\ PatientInv'
  BY DEF SessionTypes, QueueInv, RouteInv, PatientInv, Patient, ZeroId
<1> QED BY <1>1, <1>2, <1>3

LEMMA SessionStep == SessionInv /\ [SessionNext]_sessionVars => SessionInv'
<1> SUFFICES ASSUME SessionInv, [SessionNext]_sessionVars PROVE SessionInv'
  OBVIOUS
<1> USE DEF clientVars, gatewayVars, faultVars, registryVars
<1>1. ASSUME NEW c \in Clients, NEW cmd \in Commands, Type(c, cmd) PROVE SessionInv'
  BY <1>1, TypeStep
<1>2. ASSUME NEW c \in Clients, SendFails(c) PROVE SessionInv'
  BY <1>2, OtherStep DEF SendFails
<1>3. ASSUME NEW c \in Clients, Show(c) PROVE SessionInv'
  BY <1>3, ShowStep
<1>4. ASSUME NEW c \in Clients, Handle(c) PROVE SessionInv'
  BY <1>4, HandleStep
<1>5. CASE Route
  BY <1>5, RouteStep
<1>6. CASE Take
  BY <1>6, TakeStep
<1>7. CASE Decide
  BY <1>7, DecideStep
<1>8. CASE LineDown \/ GatewayDown
  BY <1>8, OtherStep DEF LineDown, GatewayDown
<1>9. CASE UNCHANGED sessionVars
  BY <1>9, OtherStep DEF sessionVars
<1> QED BY <1>1, <1>2, <1>3, <1>4, <1>5, <1>6, <1>7, <1>8, <1>9 DEF SessionNext

\* The invariant holds of every reachable state.
LEMMA SessionInvariant == SessionSpec => []SessionInv
<1> QED BY SessionStarts, SessionStep, PTL DEF SessionSpec
-----------------------------------------------------------------------------
\* The register inside the system keeps the promises it makes on its own.
THEOREM SessionKeepsRegister ==
  SessionSpec => [](TypeOK /\ LoginFollowsCreate /\ CreatedOnce)
<1>1. SessionInv => TypeOK /\ LoginFollowsCreate /\ CreatedOnce
  BY DEF SessionInv, RegistryInv
<1> QED BY <1>1, SessionInvariant, PTL

\* Every text on a screen answers a command typed there, in their order.
THEOREM ScreensFollowKeyboards == SessionSpec => []ScreenFollowsKeyboard
<1>1. SessionInv => ScreenFollowsKeyboard
  <2> SUFFICES ASSUME SessionInv, NEW c \in Clients
               PROVE  /\ \A i \in 1 .. Len(told[c]) :
                           forwarded[told[c][i]].from = c \/ forwarded[told[c][i]].id = 0
                      /\ \A i, j \in 1 .. Len(told[c]) : i < j =>
                           forwarded[told[c][i]].nr < forwarded[told[c][j]].nr \/ ZeroId
    BY DEF ScreenFollowsKeyboard
  <2> USE DEF SessionInv
  <2>1. /\ \A i \in 1 .. Len(told[c]) :
             /\ told[c][i] \in 1 .. routed
             /\ forwarded[told[c][i]].from = c \/ forwarded[told[c][i]].id = 0
        /\ \A i, j \in 1 .. Len(told[c]) : i < j => told[c][i] < told[c][j]
    BY DEF RouteInv
  <2>2. \A k \in 1 .. routed : k \in 1 .. Len(forwarded)
    <3>1. /\ routed <= Len(answers) /\ Len(answers) <= Len(forwarded)
          /\ routed \in Nat /\ Len(answers) \in Nat /\ Len(forwarded) \in Nat
      BY DEF RouteInv, QueueInv, SessionTypes, RegistryInv, TypeOK
    <3> QED BY <3>1
  <2>3. ASSUME NEW i \in 1 .. Len(told[c]), NEW j \in 1 .. Len(told[c]), i < j, ~ZeroId
        PROVE  forwarded[told[c][i]].nr < forwarded[told[c][j]].nr
    <3>1. told[c][i] \in 1 .. Len(forwarded) /\ told[c][j] \in 1 .. Len(forwarded)
      BY <2>1, <2>2
    <3>2. forwarded[told[c][i]].from = c /\ forwarded[told[c][j]].from = c
      BY <2>1, <2>3, <3>1 DEF ZeroId
    <3> QED BY <2>1, <2>3, <3>1, <3>2 DEF QueueInv
  <2> QED BY <2>1, <2>3
<1> QED BY <1>1, SessionInvariant, PTL

\* Every account was asked for by a command with its email and password.
THEOREM AccountsComeFromKeyboards == SessionSpec => []AccountsWereTyped
<1>1. SessionInv => AccountsWereTyped
  <2> SUFFICES ASSUME SessionInv, NEW e \in Emails, accounts[e] # None
               PROVE  \E c \in Clients : \E n \in 1 .. Len(typed[c]) :
                        IF e = Empty THEN typed[c][n].word = "other"
                        ELSE typed[c][n].word = "REGISTER" /\ typed[c][n].email = e
                               /\ typed[c][n].pw = accounts[e].pw
    BY DEF AccountsWereTyped
  <2> USE DEF SessionInv
  <2>1. PICK k \in 1 .. Len(answers) : Creates(k, e, accounts[e])
    BY DEF RegistryInv, HasOrigin
  <2>2. k \in 1 .. Len(forwarded)
    <3>1. Len(answers) <= Len(forwarded) /\ Len(answers) \in Nat /\ Len(forwarded) \in Nat
      BY DEF QueueInv, SessionTypes, RegistryInv, TypeOK
    <3> QED BY <3>1
  <2> DEFINE c == forwarded[k].from  n == forwarded[k].nr  w == typed[c][n]
  <2>3. c \in Clients /\ n \in 1 .. Len(typed[c])
    BY <2>2, ForwardedRequest
  <2>4. w \in Words
    BY <2>3, TypedRequest
  <2>5. /\ Parsed(Frame(w)).kind = "create" /\ Parsed(Frame(w)).email = e
        /\ Parsed(Frame(w)).pw = accounts[e].pw
    BY <2>1 DEF Creates, AnswersInv, Request, RequestOf
  <2> HIDE DEF c, n, w
  <2>6. w.word # "AUTHENTICATE" /\ w.email = e /\ w.pw = accounts[e].pw
    <3>1. Parsed(Frame(w)) =
            [kind |-> IF w.word = "AUTHENTICATE" THEN "authenticate" ELSE "create",
             email |-> w.email, pw |-> w.pw]
      BY <2>4, WordRequest
    <3> QED BY <3>1, <2>5
  <2>7. IF e = Empty THEN w.word = "other"
        ELSE w.word = "REGISTER" /\ w.email = e /\ w.pw = accounts[e].pw
    BY <2>4, <2>6 DEF Words
  <2> QED BY <2>3, <2>7 DEF w
<1> QED BY <1>1, SessionInvariant, PTL

\* What prints a success is a success.
Succeeds(answer) ==
  Printed(answer) \cap {"ACCOUNT REGISTERED SUCCESSFULLY", "ACCOUNT AUTHENTICATE SUCCESS"} # {}

LEMMA SuccessAnswers ==
  ASSUME NEW answer \in {"created", "exists", "authenticated", "invalid"}, Succeeds(answer)
  PROVE  answer \in {"created", "authenticated"}
BY DEF Succeeds, Printed

\* A success on the screen of a user who waits for every text is about the
\* command with that number, and true.
THEOREM SuccessesAreTrue == SessionSpec => []SuccessIsTrue
<1>1. SessionInv => SuccessIsTrue
  <2> SUFFICES ASSUME SessionInv, NEW c \in Clients, NEW i \in 1 .. shown[c],
                      i <= Len(typed[c]), Patient(c), ~ZeroId,
                      Succeeds(answers[told[c][i]].answer)
               PROVE  /\ accounts[RequestOf(c, i).email] # None
                      /\ accounts[RequestOf(c, i).email].pw = RequestOf(c, i).pw
    BY DEF SuccessIsTrue, Succeeds
  <2> USE DEF SessionInv
  <2> DEFINE k == told[c][i]
  <2>1. i \in 1 .. Len(told[c])
    <3>1. shown[c] <= Len(told[c]) /\ shown[c] \in Nat /\ Len(told[c]) \in Nat
      BY DEF PatientInv, SessionTypes
    <3> QED BY <3>1
  <2>2. k \in 1 .. Len(answers) /\ k \in 1 .. Len(forwarded)
    <3>1. k \in 1 .. routed
      BY <2>1 DEF RouteInv
    <3>2. /\ routed <= Len(answers) /\ Len(answers) <= Len(forwarded)
          /\ routed \in Nat /\ Len(answers) \in Nat /\ Len(forwarded) \in Nat
      BY DEF RouteInv, QueueInv, SessionTypes, RegistryInv, TypeOK
    <3> QED BY <3>1, <3>2
  <2>3. forwarded[k].from = c /\ forwarded[k].nr = i
    BY <2>1, <2>2 DEF RouteInv, PatientInv, ZeroId
  <2>4. answers[k].request = RequestOf(c, i)
    BY <2>2, <2>3 DEF AnswersInv, Request
  <2> HIDE DEF k
  <2>5. answers[k].answer \in {"created", "authenticated"}
    <3>1. answers[k].answer \in {"created", "exists", "authenticated", "invalid"}
      <4>1. answers[k] \in Answers
        BY <2>2 DEF RegistryInv, TypeOK
      <4> QED BY <4>1 DEF Answers
    <3> QED BY <3>1, SuccessAnswers DEF k
  <2>6. PICK j \in 1 .. Len(answers) :
          answers[j].answer = "created" /\ answers[j].request.email = RequestOf(c, i).email
            /\ answers[j].request.pw = RequestOf(c, i).pw
    <3>1. CASE answers[k].answer = "created"
      BY <3>1, <2>2, <2>4
    <3>2. CASE answers[k].answer = "authenticated"
      <4>1. PICK j \in 1 .. k - 1 :
              answers[j].answer = "created" /\ answers[j].request.email = answers[k].request.email
                /\ answers[j].request.pw = answers[k].request.pw
        BY <3>2, <2>2 DEF RegistryInv, LoginFollowsCreate
      <4>2. j \in 1 .. Len(answers)
        BY <2>2, <4>1
      <4> QED BY <4>1, <4>2, <2>4
    <3> QED BY <2>5, <3>1, <3>2
  <2> DEFINE e == RequestOf(c, i).email
  <2>7. e \in Emails
    <3>1. i \in 1 .. Len(typed[c])
      BY DEF SessionTypes
    <3> QED BY <3>1, TypedRequest DEF Requests
  <2>8. accounts[e] # None
    BY <2>6 DEF RegistryInv, Kept
  <2>9. PICK o \in 1 .. Len(answers) : Creates(o, e, accounts[e])
    BY <2>7, <2>8 DEF RegistryInv, HasOrigin
  <2>10. o = j
    BY <2>6, <2>9 DEF RegistryInv, CreatedOnce, Creates
  <2> QED BY <2>6, <2>8, <2>9, <2>10 DEF Creates
<1> QED BY <1>1, SessionInvariant, PTL
-----------------------------------------------------------------------------
(* The refinement.                                                         *)

Open(s) == s[2] <= Len(typed[s[1]]) /\ ~Answered(s[1], s[2])

LEMMA AskedIs == asked = [s \in Keystrokes |-> IF Open(s) THEN RequestOf(s[1], s[2]) ELSE None]
BY DEF asked, Open

\* A place that is not open is not waiting, and one that is waits for what
\* was typed.
LEMMA AskedAt ==
  ASSUME NEW s \in Keystrokes
  PROVE  asked[s] = IF Open(s) THEN RequestOf(s[1], s[2]) ELSE None
BY AskedIs

\* What leaves the commands and the answers alone is a stutter.
LEMMA DeskStutters ==
  ASSUME SessionInv, UNCHANGED <<typed, accounts, answers>>,
         \A k \in 1 .. Len(answers) : forwarded'[k] = forwarded[k]
  PROVE  UNCHANGED <<accounts, asked, answers>>
<1>1. \A c, n : Answered(c, n)' <=> Answered(c, n)
  BY DEF Answered, IsAbout
<1>2. \A s \in Keystrokes : Open(s)' <=> Open(s)
  BY <1>1 DEF Open
<1>3. \A s \in Keystrokes : RequestOf(s[1], s[2])' = RequestOf(s[1], s[2])
  BY RequestsStay
<1>4. asked' = [s \in Keystrokes |-> IF Open(s)' THEN RequestOf(s[1], s[2])' ELSE None]
  BY DEF asked, Open
<1>5. asked' = asked
  BY <1>2, <1>3, <1>4, AskedIs
<1> QED BY <1>5

\* A command that is typed is asked of the desk.
LEMMA TypeAsksDesk ==
  ASSUME SessionInv, NEW c \in Clients, NEW cmd \in Commands, Type(c, cmd)
  PROVE  Desk!Next
<1> USE DEF SessionInv
<1>0. PICK n \in Nat : n = Len(typed[c]) + 1
  BY DEF SessionTypes
<1> DEFINE t == <<c, n>>  r == RequestOf(c, n)'
<1>1. UNCHANGED <<taken, forwarded, accounts, answers>>
  BY DEF Type, gatewayVars, registryVars
<1>2. /\ Len(typed'[c]) = n /\ Len(typed[c]) \in Nat
      /\ \A d \in Clients \ {c} : typed'[d] = typed[d]
      /\ \A d \in Clients : \A m \in 1 .. Len(typed[d]) : RequestOf(d, m)' = RequestOf(d, m)
  BY <1>0, TypeAppends DEF SessionTypes
<1>3. t \in Keystrokes
  <2>1. Len(typed[c]) < MaxCommands /\ MaxCommands \in Nat
    BY RoomToType, SessionAssumption DEF Type
  <2> QED BY <2>1, <1>0, <1>2 DEF Keystrokes
<1>4. r \in Requests
  <2>1. SessionTypes'
    BY TypeStep
  <2>2. n \in 1 .. Len(typed'[c])
    BY <1>0, <1>2
  <2>3. typed'[c][n] \in Words
    BY <2>1, <2>2 DEF SessionTypes
  <2>4. Parsed(Frame(typed'[c][n])) \in Requests
    BY <2>3, WordRequest
  <2> QED BY <2>4 DEF RequestOf
<1>5. \A d, m : Answered(d, m)' <=> Answered(d, m)
  BY <1>1 DEF Answered, IsAbout
<1>6. ~Answered(c, n)
  <2> SUFFICES ASSUME NEW k \in 1 .. Len(answers), IsAbout(k, c, n) PROVE FALSE
    BY DEF Answered
  <2>1. k \in 1 .. Len(forwarded)
    <3>1. Len(answers) <= Len(forwarded) /\ Len(answers) \in Nat /\ Len(forwarded) \in Nat
      BY DEF QueueInv, SessionTypes, RegistryInv, TypeOK
    <3> QED BY <3>1
  <2>2. n \in 1 .. Len(typed[c])
    BY <2>1, ForwardedRequest DEF IsAbout
  <2> QED BY <2>2, <1>0, <1>2
<1>7. asked[t] = None
  <2>1. ~Open(t)
    BY <1>0, <1>2 DEF Open
  <2> QED BY <2>1, <1>3, AskedAt
<1>8. ASSUME NEW s \in Keystrokes
      PROVE  asked'[s] = IF s = t THEN r ELSE asked[s]
  <2>1. asked'[s] = IF Open(s)' THEN RequestOf(s[1], s[2])' ELSE None
    BY DEF asked, Open
  <2>2. s = <<s[1], s[2]>> /\ s[1] \in Clients /\ s[2] \in 1 .. MaxCommands
    BY DEF Keystrokes
  <2>3. CASE s = t
    <3>1. Open(s)'
      BY <2>3, <1>0, <1>2, <1>5, <1>6 DEF Open
    <3> QED BY <2>1, <2>3, <3>1
  <2>4. CASE s # t
    <3>1. s[1] # c \/ s[2] # n
      BY <2>2, <2>4
    <3>2. s[2] <= Len(typed'[s[1]]) <=> s[2] <= Len(typed[s[1]])
      BY <2>2, <3>1, <1>0, <1>2, SessionAssumption
    <3>3. Open(s)' <=> Open(s)
      BY <3>2, <1>5 DEF Open
    <3>4. Open(s) => RequestOf(s[1], s[2])' = RequestOf(s[1], s[2])
      <4>1. Open(s) => s[2] \in 1 .. Len(typed[s[1]])
        BY <2>2, SessionAssumption DEF Open, SessionTypes
      <4> QED BY <4>1, <2>2, <1>2
    <3> QED BY <2>1, <2>4, <3>3, <3>4, AskedAt
  <2> QED BY <2>3, <2>4
<1>9. asked' = [asked EXCEPT ![t] = r]
  <2>1. /\ asked' = [s \in Keystrokes |-> asked'[s]]
        /\ asked = [s \in Keystrokes |-> asked[s]]
    BY DEF asked
  <2> HIDE DEF t, r
  <2> QED BY <2>1, <1>8
<1>10. Desk!Ask(t, r)
  BY <1>1, <1>7, <1>9 DEF Desk!Ask
<1> HIDE DEF t, r
<1>11. r \in Desk!Requests
  BY <1>4 DEF Requests, Desk!Requests
<1> QED BY <1>3, <1>10, <1>11 DEF Desk!Next

\* An answer of the register is an answer of the desk, to the command the
\* request was forwarded for.
LEMMA DeskAnswers ==
  ASSUME SessionInv, Decide,
         NEW what \in {"created", "exists", "authenticated", "invalid"},
         NEW user \in Users \cup {None}, Answer(Line, what, user)
  PROVE  \E t \in Keystrokes :
           asked[t] = pending[Line] /\ Desk!Answer(t, what, user)
<1> USE DEF SessionInv
<1>0. PICK n \in Nat : n = Len(answers) + 1
  BY DEF RegistryInv, TypeOK
<1>1. /\ UNCHANGED <<typed, forwarded>>
      /\ pending[Line] # None /\ pending[Line] = Request(n)
      /\ n \in 1 .. Len(forwarded)
  BY <1>0, DecideAnswers
<1> DEFINE f == forwarded[n]  t == <<f.from, f.nr>>
<1>2. /\ f.from \in Clients /\ f.nr \in 1 .. Len(typed[f.from])
      /\ \A k \in 1 .. Len(forwarded) : forwarded[k].nr \in Nat
  BY <1>1, ForwardedRequest
<1>3. t \in Keystrokes
  <2>1. Len(typed[f.from]) <= MaxCommands /\ Len(typed[f.from]) \in Nat /\ MaxCommands \in Nat
    BY <1>2, SessionAssumption DEF QueueInv, SessionTypes
  <2> QED BY <2>1, <1>2 DEF Keystrokes
<1>4. ~Answered(f.from, f.nr)
  <2> SUFFICES ASSUME NEW k \in 1 .. Len(answers), IsAbout(k, f.from, f.nr) PROVE FALSE
    BY DEF Answered
  <2>1. k \in 1 .. Len(forwarded) /\ k < n
    <3>1. Len(answers) \in Nat /\ Len(forwarded) \in Nat
      BY DEF SessionTypes, RegistryInv, TypeOK
    <3> QED BY <3>1, <1>0, <1>1
  <2>2. forwarded[k].nr < f.nr
    BY <2>1, <1>1 DEF IsAbout, QueueInv
  <2> QED BY <2>1, <2>2, <1>1, <1>2 DEF IsAbout
<1>5. Open(t)
  BY <1>2, <1>4, SessionAssumption DEF Open
<1>6. asked[t] = pending[Line]
  BY <1>1, <1>3, <1>5, AskedAt DEF Request
<1>7. Len(answers') = n
  BY <1>0, AnswerStep, <1>1, SessionAssumption DEF RegistryInv
<1>8. ASSUME NEW d, NEW m PROVE Answered(d, m)' <=> Answered(d, m) \/ IsAbout(n, d, m)
  <2>1. \A k \in 1 .. n : k \in 1 .. Len(answers) \/ k = n
    BY <1>0 DEF RegistryInv, TypeOK
  <2>2. n \in 1 .. n /\ \A k \in 1 .. Len(answers) : k \in 1 .. n
    BY <1>0 DEF RegistryInv, TypeOK
  <2> QED BY <2>1, <2>2, <1>1, <1>7 DEF Answered, IsAbout
<1>9. ASSUME NEW s \in Keystrokes
      PROVE  asked'[s] = IF s = t THEN None ELSE asked[s]
  <2>1. asked'[s] = IF Open(s)' THEN RequestOf(s[1], s[2])' ELSE None
    BY DEF asked, Open
  <2>2. RequestOf(s[1], s[2])' = RequestOf(s[1], s[2])
    BY <1>1, RequestsStay
  <2>3. s = <<s[1], s[2]>>
    BY DEF Keystrokes
  <2>4. IsAbout(n, s[1], s[2]) <=> s = t
    BY <2>3 DEF IsAbout
  <2>5. Open(s)' <=> Open(s) /\ s # t
    BY <2>4, <1>1, <1>8 DEF Open
  <2> QED BY <2>1, <2>2, <2>5, AskedAt
<1>10. asked' = [asked EXCEPT ![t] = None]
  <2>1. /\ asked' = [s \in Keystrokes |-> asked'[s]]
        /\ asked = [s \in Keystrokes |-> asked[s]]
    BY DEF asked
  <2> HIDE DEF t
  <2> QED BY <2>1, <1>9
<1>11. answers' = Append(answers, [request |-> asked[t], answer |-> what, user |-> user])
  BY <1>6 DEF Answer
<1> HIDE DEF t
<1>12. Desk!Answer(t, what, user)
  BY <1>10, <1>11 DEF Desk!Answer
<1> QED BY <1>3, <1>6, <1>12

LEMMA DecideIsDesks ==
  ASSUME SessionInv, Decide
  PROVE  Desk!Next
<1>1. ASSUME NEW user \in Users, Create(Line, user) PROVE Desk!Next
  <2>1. /\ pending[Line].kind = "create" /\ accounts[pending[Line].email] = None
        /\ user \notin TakenUsers /\ Answer(Line, "created", user)
        /\ accounts' = [accounts EXCEPT ![pending[Line].email] =
                          [pw |-> pending[Line].pw, user |-> user]]
        /\ pending[Line] # None
    BY <1>1 DEF Create, Asked
  <2>2. PICK t \in Keystrokes : asked[t] = pending[Line] /\ Desk!Answer(t, "created", user)
    BY <2>1, DeskAnswers
  <2>3. Desk!Create(t, user)
    BY <2>1, <2>2 DEF Desk!Create, Desk!Asked, Desk!TakenUsers, TakenUsers
  <2> QED BY <2>3 DEF Desk!Next
<1>2. ASSUME RefuseDuplicate(Line) PROVE Desk!Next
  <2>1. /\ pending[Line].kind = "create" /\ accounts[pending[Line].email] # None
        /\ Answer(Line, "exists", None) /\ UNCHANGED accounts /\ pending[Line] # None
    BY <1>2 DEF RefuseDuplicate, Asked
  <2>2. PICK t \in Keystrokes : asked[t] = pending[Line] /\ Desk!Answer(t, "exists", None)
    BY <2>1, DeskAnswers
  <2>3. Desk!RefuseDuplicate(t)
    BY <2>1, <2>2 DEF Desk!RefuseDuplicate, Desk!Asked
  <2> QED BY <2>3 DEF Desk!Next
<1>3. ASSUME Login(Line) PROVE Desk!Next
  <2> DEFINE user == accounts[pending[Line].email].user
  <2>1. /\ pending[Line].kind = "authenticate" /\ Opens(pending[Line]) /\ pending[Line] # None
        /\ Answer(Line, "authenticated", user) /\ UNCHANGED accounts
    BY <1>3 DEF Login, Asked
  <2>2. user \in Users
    BY <2>1, SessionAssumption DEF SessionInv, RegistryInv, TypeOK, Opens, Requests, Accounts
  <2>3. PICK t \in Keystrokes : asked[t] = pending[Line] /\ Desk!Answer(t, "authenticated", user)
    BY <2>1, <2>2, DeskAnswers
  <2>4. Desk!Login(t)
    BY <2>1, <2>3 DEF Desk!Login, Desk!Asked, Desk!Opens, Opens
  <2> QED BY <2>4 DEF Desk!Next
<1>4. ASSUME RefuseLogin(Line) PROVE Desk!Next
  <2>1. /\ pending[Line].kind = "authenticate" /\ ~Opens(pending[Line]) /\ pending[Line] # None
        /\ Answer(Line, "invalid", None) /\ UNCHANGED accounts
    BY <1>4 DEF RefuseLogin, Asked
  <2>2. PICK t \in Keystrokes : asked[t] = pending[Line] /\ Desk!Answer(t, "invalid", None)
    BY <2>1, DeskAnswers
  <2>3. Desk!RefuseLogin(t)
    BY <2>1, <2>2 DEF Desk!RefuseLogin, Desk!Asked, Desk!Opens, Opens
  <2> QED BY <2>3 DEF Desk!Next
<1> QED BY <1>1, <1>2, <1>3, <1>4 DEF Decide

LEMMA DeskStarts == SessionInit => Desk!Init
<1> SUFFICES ASSUME SessionInit PROVE Desk!Init
  OBVIOUS
<1>1. accounts = [e \in Emails |-> None] /\ answers = <<>>
  BY DEF SessionInit, Init
<1>2. ASSUME NEW s \in Keystrokes PROVE asked[s] = None
  <2>1. s[1] \in Clients /\ s[2] \in 1 .. MaxCommands /\ Len(typed[s[1]]) = 0
    BY DEF Keystrokes, SessionInit
  <2>2. ~Open(s)
    BY <2>1, SessionAssumption DEF Open
  <2> QED BY <2>2, AskedAt
<1>3. asked = [s \in Keystrokes |-> None]
  BY <1>2, AskedIs
<1> QED BY <1>1, <1>3 DEF Desk!Init

LEMMA DeskSteps ==
  SessionInv /\ [SessionNext]_sessionVars
    => Desk!Next \/ UNCHANGED <<accounts, asked, answers>>
<1> SUFFICES ASSUME SessionInv, [SessionNext]_sessionVars
             PROVE  Desk!Next \/ UNCHANGED <<accounts, asked, answers>>
  OBVIOUS
<1> USE DEF clientVars, gatewayVars, faultVars, registryVars
<1>1. ASSUME NEW c \in Clients, NEW cmd \in Commands, Type(c, cmd) PROVE Desk!Next
  BY <1>1, TypeAsksDesk
<1>2. ASSUME NEW c \in Clients, Handle(c) PROVE UNCHANGED <<accounts, asked, answers>>
  <2>1. /\ UNCHANGED <<typed, accounts, answers>>
        /\ \/ forwarded' = forwarded
           \/ forwarded' =
                Append(forwarded, [from |-> c, nr |-> taken[c] + 1, id |-> counter])
    BY <1>2 DEF Handle
  <2>2. \A k \in 1 .. Len(answers) : k \in 1 .. Len(forwarded)
    <3>1. Len(answers) <= Len(forwarded) /\ Len(answers) \in Nat /\ Len(forwarded) \in Nat
      BY DEF SessionInv, QueueInv, SessionTypes, RegistryInv, TypeOK
    <3> QED BY <3>1
  <2>3. ASSUME NEW f, forwarded' = Append(forwarded, f), NEW k \in 1 .. Len(forwarded)
        PROVE  forwarded'[k] = forwarded[k]
    <3>1. forwarded \in Seq(Forwards)
      BY DEF SessionInv, SessionTypes
    <3> QED BY <3>1, <2>3
  <2>4. \A k \in 1 .. Len(answers) : forwarded'[k] = forwarded[k]
    BY <2>1, <2>2, <2>3
  <2> QED BY <2>1, <2>4, DeskStutters
<1>3. CASE Decide
  BY <1>3, DecideIsDesks
<1>4. CASE UNCHANGED <<typed, forwarded, accounts, answers>>
  BY <1>4, DeskStutters
<1>5. ASSUME NEW c \in Clients, SendFails(c) \/ Show(c)
      PROVE  UNCHANGED <<typed, forwarded, accounts, answers>>
  BY <1>5 DEF SendFails, Show
<1>6. CASE Route \/ LineDown \/ GatewayDown
  BY <1>4, <1>6 DEF Route, LineDown, GatewayDown
<1>7. CASE Take
  BY <1>4, <1>7 DEF Take, Ask
<1>8. CASE UNCHANGED sessionVars
  BY <1>4, <1>8 DEF sessionVars
<1> QED BY <1>1, <1>2, <1>3, <1>4, <1>5, <1>6, <1>7, <1>8 DEF SessionNext

\* The whole system, seen from the keyboards, is a Registry.
THEOREM SessionImplementsDesk == SessionSpec => ImplementsDesk
<1>1. SessionInit => Desk!Init
  BY DeskStarts
<1>2. SessionInv /\ [SessionNext]_sessionVars => [Desk!Next]_<<accounts, asked, answers>>
  BY DeskSteps
<1> QED BY <1>1, <1>2, SessionInvariant, PTL DEF SessionSpec, ImplementsDesk, Desk!Spec
=============================================================================
