--------------------------- MODULE StartupProofs ----------------------------
(***************************************************************************)
(* Proofs about Startup for any number of processes and statements.        *)
(***************************************************************************)
EXTENDS Startup, TLAPS

\* An authentication server goes through its preparations one by one.
AuthInv ==
  \A a \in Auths :
    /\ at[a] \in {"off", "database"} => prepared[a] = 0
    /\ at[a] = "prepare" => prepared[a] < Statements
    /\ at[a] \in {"socket", "bind", "listen", "accept"} => Prepared(a)

\* What a connection that was made says about the server.
LinkInv ==
  /\ \A g \in Gateways : link[g] # None => link[g] \in Auths /\ Prepared(link[g])
  /\ \A g \in Gateways : at[g] = "accept" => link[g] # None
  /\ \A c \in Clients : link[c] # None => at[c] \in {"talk", "gone"}
  /\ \A c \in Clients : accepted[c] => link[c] \in Gateways /\ link[link[c]] # None

StartInv == StartTypeOK /\ AuthInv /\ LinkInv
-----------------------------------------------------------------------------
LEMMA StepsAre ==
  ASSUME NEW p \in Processes
  PROVE  /\ p \in Auths =>
              Steps(p) = <<"database", "prepare", "socket", "bind", "listen", "accept">>
         /\ p \in Gateways => Steps(p) = <<"socket", "bind", "listen", "connect", "accept">>
         /\ p \in Clients => Steps(p) = <<"socket", "connect", "talk">>
<1>1. p \in Auths => p \notin Gateways
  BY StartupAssumption
<1>2. p \in Clients => p \notin Auths /\ p \notin Gateways
  BY StartupAssumption
<1> QED BY <1>1, <1>2 DEF Steps

\* Where a step leads.
LEMMA GoesOnTo ==
  ASSUME NEW p \in Processes, NEW s, GoesOn(p, s)
  PROVE  /\ at[p] = s
         /\ \E n \in {"prepare", "socket", "bind", "listen", "connect", "accept", "talk"} :
              /\ at' = [at EXCEPT ![p] = n]
              /\ p \in Auths =>
                   /\ s = "database" => n = "prepare"
                   /\ s # "database" => n \in {"socket", "bind", "listen", "accept"}
              /\ n = "accept" /\ p \in Gateways => s = "connect"
              /\ s = "connect" /\ p \in Clients => n = "talk"
<1>1. PICK i \in 1 .. Len(Steps(p)) - 1 :
        /\ Steps(p)[i] = s /\ at[p] = s /\ at' = [at EXCEPT ![p] = Steps(p)[i + 1]]
  BY DEF GoesOn, Step
<1>2. CASE p \in Auths
  <2>1. Steps(p) = <<"database", "prepare", "socket", "bind", "listen", "accept">>
    BY <1>2, StepsAre
  <2>2. i \in {1, 2, 3, 4, 5}
    BY <1>1, <2>1
  <2>3. p \notin Gateways
    BY <1>2, StartupAssumption
  <2>4. \E n \in {"prepare", "socket", "bind", "listen", "accept"} :
          /\ at' = [at EXCEPT ![p] = n]
          /\ \/ s = "database" /\ n = "prepare"
             \/ s = "prepare" /\ n = "socket"
             \/ s = "socket" /\ n = "bind"
             \/ s = "bind" /\ n = "listen"
             \/ s = "listen" /\ n = "accept"
    <3>1. CASE i = 1
      <4>1. s = "database" /\ at' = [at EXCEPT ![p] = "prepare"]
        BY <3>1, <1>1, <2>1
      <4> QED BY <4>1
    <3>2. CASE i = 2
      <4>1. s = "prepare" /\ at' = [at EXCEPT ![p] = "socket"]
        BY <3>2, <1>1, <2>1
      <4> QED BY <4>1
    <3>3. CASE i = 3
      <4>1. s = "socket" /\ at' = [at EXCEPT ![p] = "bind"]
        BY <3>3, <1>1, <2>1
      <4> QED BY <4>1
    <3>4. CASE i = 4
      <4>1. s = "bind" /\ at' = [at EXCEPT ![p] = "listen"]
        BY <3>4, <1>1, <2>1
      <4> QED BY <4>1
    <3>5. CASE i = 5
      <4>1. s = "listen" /\ at' = [at EXCEPT ![p] = "accept"]
        BY <3>5, <1>1, <2>1
      <4> QED BY <4>1
    <3> QED BY <2>2, <3>1, <3>2, <3>3, <3>4, <3>5
  <2> QED BY <1>1, <2>3, <2>4
<1>3. CASE p \in Gateways
  <2>1. Steps(p) = <<"socket", "bind", "listen", "connect", "accept">>
    BY <1>3, StepsAre
  <2>2. i \in {1, 2, 3, 4}
    BY <1>1, <2>1
  <2>3. p \notin Auths /\ p \notin Clients
    BY <1>3, StartupAssumption
  <2>4. \E n \in {"bind", "listen", "connect", "accept"} :
          /\ at' = [at EXCEPT ![p] = n]
          /\ \/ s = "socket" /\ n = "bind"
             \/ s = "bind" /\ n = "listen"
             \/ s = "listen" /\ n = "connect"
             \/ s = "connect" /\ n = "accept"
    <3>1. CASE i = 1
      <4>1. s = "socket" /\ at' = [at EXCEPT ![p] = "bind"]
        BY <3>1, <1>1, <2>1
      <4> QED BY <4>1
    <3>2. CASE i = 2
      <4>1. s = "bind" /\ at' = [at EXCEPT ![p] = "listen"]
        BY <3>2, <1>1, <2>1
      <4> QED BY <4>1
    <3>3. CASE i = 3
      <4>1. s = "listen" /\ at' = [at EXCEPT ![p] = "connect"]
        BY <3>3, <1>1, <2>1
      <4> QED BY <4>1
    <3>4. CASE i = 4
      <4>1. s = "connect" /\ at' = [at EXCEPT ![p] = "accept"]
        BY <3>4, <1>1, <2>1
      <4> QED BY <4>1
    <3> QED BY <2>2, <3>1, <3>2, <3>3, <3>4
  <2> QED BY <1>1, <2>3, <2>4
<1>4. CASE p \in Clients
  <2>1. Steps(p) = <<"socket", "connect", "talk">>
    BY <1>4, StepsAre
  <2>2. i \in {1, 2}
    BY <1>1, <2>1
  <2>3. p \notin Auths /\ p \notin Gateways
    BY <1>4, StartupAssumption
  <2>4. \E n \in {"connect", "talk"} :
          /\ at' = [at EXCEPT ![p] = n]
          /\ \/ s = "socket" /\ n = "connect"
             \/ s = "connect" /\ n = "talk"
    <3>1. CASE i = 1
      <4>1. s = "socket" /\ at' = [at EXCEPT ![p] = "connect"]
        BY <3>1, <1>1, <2>1
      <4> QED BY <4>1
    <3>2. CASE i = 2
      <4>1. s = "connect" /\ at' = [at EXCEPT ![p] = "talk"]
        BY <3>2, <1>1, <2>1
      <4> QED BY <4>1
    <3> QED BY <2>2, <3>1, <3>2
  <2> QED BY <1>1, <2>3, <2>4
<1> QED BY <1>2, <1>3, <1>4 DEF Processes
-----------------------------------------------------------------------------
LEMMA StartsRight == StartInit => StartInv
<1> SUFFICES ASSUME StartInit PROVE StartInv
  OBVIOUS
<1>1. StartTypeOK
  BY StartupAssumption DEF StartInit, StartTypeOK
<1>2. AuthInv /\ LinkInv
  BY StartupAssumption DEF StartInit, AuthInv, LinkInv, Processes
<1> QED BY <1>1, <1>2 DEF StartInv

\* What a step of at alone may do to the invariant.
LEMMA OnlyAt ==
  ASSUME StartInv, NEW p \in Processes, NEW s, at' = [at EXCEPT ![p] = s],
         s \in {"off", "database", "prepare", "socket", "bind", "listen", "connect", "accept",
                "talk", "gone"},
         UNCHANGED <<connection, prepared, link, accepted>>,
         p \in Auths =>
           \/ s = "gone" \/ (s = "database" /\ at[p] = "off")
           \/ s \in {"socket", "bind", "listen", "accept"} /\ Prepared(p),
         p \in Gateways /\ s = "accept" => link[p] # None,
         p \in Clients /\ link[p] # None => s \in {"talk", "gone"}
  PROVE  StartInv'
<1> USE DEF StartInv
<1>1. at \in [Processes -> {"off", "database", "prepare", "socket", "bind", "listen", "connect",
                            "accept", "talk", "gone"}]
  BY DEF StartTypeOK
<1>2. at'[p] = s /\ \A q \in Processes \ {p} : at'[q] = at[q]
  BY <1>1
<1>3. StartTypeOK'
  BY <1>1 DEF StartTypeOK
<1>4. AuthInv'
  <2> SUFFICES ASSUME NEW a \in Auths
               PROVE  /\ at'[a] \in {"off", "database"} => prepared[a] = 0
                      /\ at'[a] = "prepare" => prepared[a] < Statements
                      /\ at'[a] \in {"socket", "bind", "listen", "accept"} => Prepared(a)
    BY DEF AuthInv, Prepared
  <2>1. CASE a = p
    BY <2>1, <1>2 DEF AuthInv
  <2>2. CASE a # p
    BY <2>2, <1>2 DEF AuthInv, Processes
  <2> QED BY <2>1, <2>2
<1>5. LinkInv'
  <2>1. \A g \in Gateways : at'[g] = "accept" => link[g] # None
    <3> SUFFICES ASSUME NEW g \in Gateways, at'[g] = "accept" PROVE link[g] # None
      OBVIOUS
    <3>1. CASE g = p
      BY <3>1, <1>2
    <3>2. CASE g # p
      BY <3>2, <1>2 DEF LinkInv, Processes
    <3> QED BY <3>1, <3>2
  <2>2. \A c \in Clients : link[c] # None => at'[c] \in {"talk", "gone"}
    <3> SUFFICES ASSUME NEW c \in Clients, link[c] # None PROVE at'[c] \in {"talk", "gone"}
      OBVIOUS
    <3>1. CASE c = p
      BY <3>1, <1>2
    <3>2. CASE c # p
      BY <3>2, <1>2 DEF LinkInv, Processes
    <3> QED BY <3>1, <3>2
  <2> QED BY <2>1, <2>2 DEF LinkInv, Prepared
<1> QED BY <1>3, <1>4, <1>5

\* A process that ends changes nothing the invariant says.
LEMMA Ending ==
  ASSUME StartInv, NEW p \in Processes, Ends(p), UNCHANGED <<connection, prepared, link, accepted>>
  PROVE  StartInv'
BY OnlyAt DEF Ends

LEMMA DatabaseStep ==
  ASSUME StartInv, NEW a \in Auths, ConnectToDatabase(a)
  PROVE  StartInv'
<1> USE DEF StartInv
<1>1. a \in Processes /\ GoesOn(a, "database")
  BY DEF ConnectToDatabase, Processes
<1>2. at[a] = "database" /\ at' = [at EXCEPT ![a] = "prepare"]
  BY <1>1, GoesOnTo
<1>3. PICK o \in {"open", None} : connection' = [connection EXCEPT ![a] = o]
  BY DEF ConnectToDatabase
<1>4. UNCHANGED <<prepared, link, accepted>>
  BY DEF ConnectToDatabase
<1>5. prepared[a] = 0 /\ Statements \in Nat \ {0} /\ prepared[a] # Statements
  BY <1>2, StartupAssumption DEF AuthInv
<1>6. /\ at'[a] = "prepare" /\ \A q \in Processes \ {a} : at'[q] = at[q]
      /\ \A b \in Auths \ {a} : connection'[b] = connection[b]
  BY <1>1, <1>2, <1>3 DEF StartTypeOK
<1>7. StartTypeOK'
  BY <1>2, <1>3, <1>4 DEF StartTypeOK
<1>8. \A b \in Auths : Prepared(b) => b # a /\ Prepared(b)'
  BY <1>4, <1>5, <1>6 DEF Prepared
<1>9. AuthInv'
  <2> SUFFICES ASSUME NEW b \in Auths
               PROVE  /\ at'[b] \in {"off", "database"} => prepared[b] = 0
                      /\ at'[b] = "prepare" => prepared[b] < Statements
                      /\ at'[b] \in {"socket", "bind", "listen", "accept"} => Prepared(b)'
    BY <1>4 DEF AuthInv
  <2>1. CASE b = a
    BY <2>1, <1>5, <1>6
  <2>2. CASE b # a
    BY <2>2, <1>6, <1>8 DEF AuthInv, Processes
  <2> QED BY <2>1, <2>2
<1>10. LinkInv'
  <2>1. \A g \in Gateways : at'[g] = "accept" => at[g] = "accept"
    BY <1>6, StartupAssumption DEF Processes
  <2>2. \A c \in Clients : at'[c] = at[c]
    BY <1>6, StartupAssumption DEF Processes
  <2> QED BY <2>1, <2>2, <1>4, <1>8 DEF LinkInv
<1> QED BY <1>7, <1>9, <1>10

LEMMA PrepareStep ==
  ASSUME StartInv, NEW a \in Auths, AddPreparedStatement(a)
  PROVE  StartInv'
<1> USE DEF StartInv
<1>1. a \in Processes /\ at[a] = "prepare" /\ UNCHANGED <<connection, link, accepted>>
  BY DEF AddPreparedStatement, Processes
<1>2. prepared \in [Auths -> 0 .. Statements] /\ Statements \in Nat /\ prepared[a] < Statements
  BY <1>1, StartupAssumption DEF StartTypeOK, AuthInv
<1>3. CASE Ends(a) /\ UNCHANGED prepared
  BY <1>1, <1>3, Ending
<1>4. CASE /\ connection[a] = "open"
           /\ IF prepared[a] + 1 < Statements THEN UNCHANGED at ELSE GoesOn(a, "prepare")
           /\ prepared' = [prepared EXCEPT ![a] = @ + 1]
  <2>1. /\ prepared' \in [Auths -> 0 .. Statements] /\ prepared'[a] = prepared[a] + 1
        /\ \A b \in Auths \ {a} : prepared'[b] = prepared[b]
    BY <1>2, <1>4
  <2>2. PICK s : /\ at' = [at EXCEPT ![a] = s]
                 /\ \/ s = "prepare" /\ prepared'[a] < Statements
                    \/ s \in {"socket", "bind", "listen", "accept"} /\ prepared'[a] = Statements
    <3>1. CASE prepared[a] + 1 < Statements
      <4>1. at' = [at EXCEPT ![a] = "prepare"]
        BY <1>1, <1>4, <3>1 DEF StartTypeOK
      <4> QED BY <4>1, <3>1, <2>1
    <3>2. CASE ~(prepared[a] + 1 < Statements)
      <4>1. prepared'[a] = Statements
        BY <3>2, <2>1, <1>2
      <4>2. \E s \in {"socket", "bind", "listen", "accept"} : at' = [at EXCEPT ![a] = s]
        BY <3>2, <1>1, <1>4, GoesOnTo
      <4> QED BY <4>1, <4>2
    <3> QED BY <3>1, <3>2
  <2>3. at'[a] = s /\ \A q \in Processes \ {a} : at'[q] = at[q]
    BY <2>2, <1>1 DEF StartTypeOK
  <2>4. StartTypeOK'
    BY <2>1, <2>2, <1>1 DEF StartTypeOK
  <2>5. \A b \in Auths : Prepared(b) => b # a /\ Prepared(b)'
    BY <2>1, <1>1, <1>2 DEF Prepared
  <2>6. AuthInv'
    <3> SUFFICES ASSUME NEW b \in Auths
                 PROVE  /\ at'[b] \in {"off", "database"} => prepared'[b] = 0
                        /\ at'[b] = "prepare" => prepared'[b] < Statements
                        /\ at'[b] \in {"socket", "bind", "listen", "accept"} => Prepared(b)'
      BY DEF AuthInv
    <3>1. CASE b = a
      <4>1. connection'[a] = "open"
        BY <1>1, <1>4
      <4> QED BY <3>1, <4>1, <2>2, <2>3 DEF Prepared
    <3>2. CASE b # a
      BY <3>2, <2>1, <2>3, <2>5 DEF AuthInv, Processes
    <3> QED BY <3>1, <3>2
  <2>7. LinkInv'
    <3>1. \A g \in Gateways : at'[g] = "accept" => at[g] = "accept"
      BY <2>3, StartupAssumption DEF Processes
    <3>2. \A c \in Clients : at'[c] = at[c]
      BY <2>3, StartupAssumption DEF Processes
    <3> QED BY <3>1, <3>2, <1>1, <2>5 DEF LinkInv
  <2> QED BY <2>4, <2>6, <2>7
<1> QED BY <1>3, <1>4 DEF AddPreparedStatement

\* Who has listened at all has prepared its statements before.
LEMMA ListeningIsPrepared ==
  ASSUME StartInv, NEW a \in Auths, Past(a, "listen")
  PROVE  Prepared(a)
<1>1. Steps(a) = <<"database", "prepare", "socket", "bind", "listen", "accept">>
  BY StepsAre DEF Processes
<1>2. PICK i \in 1 .. 6, j \in 1 .. 6 : i < j /\ Steps(a)[i] = "listen" /\ at[a] = Steps(a)[j]
  BY <1>1 DEF Past, Step
<1>3. i \in {1, 2, 3, 4, 5}
  BY <1>2
<1>4. i = 5
  BY <1>1, <1>2, <1>3
<1>5. j = 6
  BY <1>2, <1>4
<1>6. at[a] = "accept"
  BY <1>1, <1>2, <1>5
<1> QED BY <1>6 DEF StartInv, AuthInv

LEMMA SocketStep ==
  ASSUME StartInv, NEW p \in Processes, CallSocket(p)
  PROVE  StartInv'
<1>1. UNCHANGED <<connection, prepared, link, accepted>>
  BY DEF CallSocket
<1>2. CASE Ends(p)
  BY <1>1, <1>2, Ending
<1>3. ASSUME NEW s \in {"socket", "bind", "listen"}, GoesOn(p, s)
      PROVE  StartInv'
  <2>1. at[p] = s
    BY <1>3, GoesOnTo
  <2>2. PICK n \in {"prepare", "socket", "bind", "listen", "connect", "accept", "talk"} :
          /\ at' = [at EXCEPT ![p] = n]
          /\ p \in Auths => n \in {"socket", "bind", "listen", "accept"}
          /\ ~(n = "accept" /\ p \in Gateways)
    BY <1>3, GoesOnTo
  <2>3. p \in Auths => Prepared(p)
    BY <2>1 DEF StartInv, AuthInv
  <2>4. p \in Clients => link[p] = None
    BY <2>1 DEF StartInv, LinkInv
  <2> QED BY <1>1, <2>2, <2>3, <2>4, OnlyAt
<1> QED BY <1>2, <1>3 DEF CallSocket

LEMMA ConnectStep ==
  ASSUME StartInv, NEW p \in Processes, p \notin Auths, Connect(p)
  PROVE  StartInv'
<1> USE DEF StartInv
<1>1. UNCHANGED <<connection, prepared, accepted>> /\ at[p] = "connect"
  BY DEF Connect
<1>2. CASE Ends(p) /\ UNCHANGED link
  BY <1>1, <1>2, Ending
<1>3. ASSUME NEW q \in Servers(p), Past(q, "listen"), GoesOn(p, "connect"),
             link' = [link EXCEPT ![p] = q]
      PROVE  StartInv'
  <2>1. p \in Gateways \cup Clients
    BY DEF Processes
  <2>2. /\ p \in Gateways => q \in Auths
        /\ p \in Clients => q \in Gateways
    BY <1>3, StartupAssumption DEF Servers
  <2>3. q # None
    BY <2>1, <2>2, StartupAssumption
  <2>4. p \in Gateways => Prepared(q)
    BY <1>3, <2>2, ListeningIsPrepared
  <2>5. PICK n \in {"prepare", "socket", "bind", "listen", "connect", "accept", "talk"} :
          at' = [at EXCEPT ![p] = n] /\ (p \in Clients => n = "talk")
    BY <1>3, GoesOnTo
  <2>6. /\ at'[p] = n /\ \A r \in Processes \ {p} : at'[r] = at[r]
        /\ link'[p] = q /\ \A r \in Gateways \cup Clients : r # p => link'[r] = link[r]
    BY <1>3, <2>1, <2>5 DEF StartTypeOK
  <2>7. StartTypeOK'
    <3>1. at' \in [Processes -> {"off", "database", "prepare", "socket", "bind", "listen",
                                 "connect", "accept", "talk", "gone"}]
      BY <2>5 DEF StartTypeOK
    <3>2. link' \in [Gateways \cup Clients -> Auths \cup Gateways \cup {None}]
      BY <1>3, <2>1, <2>2 DEF StartTypeOK
    <3> QED BY <1>1, <3>1, <3>2 DEF StartTypeOK
  <2>8. AuthInv'
    <3>1. \A a \in Auths : at'[a] = at[a]
      BY <2>6 DEF Processes
    <3> QED BY <3>1, <1>1 DEF AuthInv, Prepared
  <2>9. LinkInv'
    <3>1. ASSUME NEW g \in Gateways
          PROVE  /\ link'[g] # None => link'[g] \in Auths /\ Prepared(link[g])'
                 /\ at'[g] = "accept" => link'[g] # None
      <4>1. CASE g = p
        BY <4>1, <1>1, <2>2, <2>3, <2>4, <2>6 DEF Prepared
      <4>2. CASE g # p
        BY <4>2, <1>1, <2>6 DEF LinkInv, Prepared, Processes
      <4> QED BY <4>1, <4>2
    <3>2. ASSUME NEW g \in Gateways, link[g] # None PROVE link'[g] # None
      BY <3>2, <2>3, <2>6
    <3>3. ASSUME NEW c \in Clients
          PROVE  /\ link'[c] # None => at'[c] \in {"talk", "gone"}
                 /\ accepted[c] => link'[c] \in Gateways /\ link'[link'[c]] # None
      <4>1. CASE c = p
        <5>1. ~accepted[c]
          BY <4>1, <1>1, StartupAssumption DEF LinkInv
        <5> QED BY <4>1, <5>1, <2>5, <2>6
      <4>2. CASE c # p
        <5>1. at'[c] = at[c] /\ link'[c] = link[c]
          BY <4>2, <2>6 DEF Processes
        <5> QED BY <5>1, <3>2 DEF LinkInv
      <4> QED BY <4>1, <4>2
    <3> QED BY <3>1, <3>3, <1>1 DEF LinkInv
  <2> QED BY <2>7, <2>8, <2>9
<1> QED BY <1>2, <1>3 DEF Connect

LEMMA AcceptStep ==
  ASSUME StartInv, NEW p \in Gateways \cup Clients, NEW q \in Servers(p), Accept(q, p)
  PROVE  StartInv'
<1> USE DEF StartInv
<1>1. UNCHANGED <<at, connection, prepared, link>> /\ at[q] = "accept" /\ link[p] = q
  BY DEF Accept
<1>2. accepted' = [accepted EXCEPT ![p] = TRUE]
  BY DEF Accept
<1>3. StartTypeOK'
  BY <1>1, <1>2 DEF StartTypeOK
<1>4. AuthInv'
  BY <1>1 DEF AuthInv, Prepared
<1>5. LinkInv'
  <2>1. ASSUME NEW c \in Clients, accepted'[c]
        PROVE  link[c] \in Gateways /\ link[link[c]] # None
    <3>1. CASE c = p
      <4>1. q \in Gateways
        BY <3>1, StartupAssumption DEF Servers
      <4> QED BY <3>1, <4>1, <1>1 DEF LinkInv
    <3>2. CASE c # p
      <4>1. accepted[c]
        BY <2>1, <3>2, <1>2 DEF StartTypeOK
      <4> QED BY <4>1 DEF LinkInv
    <3> QED BY <3>1, <3>2
  <2> QED BY <2>1, <1>1 DEF LinkInv, Prepared
<1> QED BY <1>3, <1>4, <1>5

LEMMA StartStep ==
  ASSUME StartInv, NEW p \in Processes, Start(p)
  PROVE  StartInv'
<1>1. UNCHANGED <<connection, prepared, link, accepted>> /\ at[p] = "off"
  BY DEF Start
<1>2. PICK s \in {"database", "socket"} :
        at' = [at EXCEPT ![p] = s] /\ (p \in Auths => s = "database")
  <2>1. Steps(p)[1] \in {"database", "socket"} /\ (p \in Auths => Steps(p)[1] = "database")
    BY StepsAre DEF Processes
  <2> QED BY <2>1 DEF Start
<1>3. p \in Clients => link[p] = None
  BY <1>1 DEF StartInv, LinkInv
<1> QED BY <1>1, <1>2, <1>3, OnlyAt
-----------------------------------------------------------------------------
LEMMA StartKeeps == StartInv /\ [StartNext]_startVars => StartInv'
<1> SUFFICES ASSUME StartInv, [StartNext]_startVars PROVE StartInv'
  OBVIOUS
<1>1. ASSUME NEW p \in Processes, Start(p) \/ Proceeds(p) \/ Quit(p)
      PROVE  StartInv'
  <2>1. CASE Start(p)
    BY <2>1, StartStep
  <2>2. CASE p \in Auths /\ (ConnectToDatabase(p) \/ AddPreparedStatement(p))
    BY <2>2, DatabaseStep, PrepareStep
  <2>3. CASE CallSocket(p)
    BY <2>3, SocketStep
  <2>4. CASE p \notin Auths /\ Connect(p)
    BY <2>4, ConnectStep
  <2>5. CASE Quit(p)
    BY <2>5, Ending DEF Quit
  <2> QED BY <1>1, <2>1, <2>2, <2>3, <2>4, <2>5 DEF Proceeds
<1>2. ASSUME NEW p \in Gateways \cup Clients, NEW q \in Servers(p), Accept(q, p)
      PROVE  StartInv'
  BY <1>2, AcceptStep
<1>3. CASE UNCHANGED startVars
  BY <1>3 DEF StartInv, StartTypeOK, AuthInv, LinkInv, Prepared, startVars
<1> QED BY <1>1, <1>2, <1>3 DEF StartNext

LEMMA Started == StartSpec => []StartInv
BY StartsRight, StartKeeps, PTL DEF StartSpec

\* The types of the start-up, whatever fails and whoever is ended when.
THEOREM StartTypesCorrect == StartSpec => []StartTypeOK
<1>1. StartInv => StartTypeOK
  BY DEF StartInv
<1> QED BY <1>1, Started, PTL

\* Whoever a gateway has accepted has, through that gateway, an
\* authentication server that prepared all its statements on an open
\* connection: there is no way to start half, for any number of processes.
THEOREM AcceptedAreBacked == StartSpec => []AcceptedHasADatabase
<1>1. StartInv => AcceptedHasADatabase
  <2> SUFFICES ASSUME StartInv, NEW c \in Clients, accepted[c]
               PROVE  link[c] # None /\ link[link[c]] # None /\ Prepared(link[link[c]])
    BY DEF AcceptedHasADatabase
  <2>1. link[c] \in Gateways /\ link[link[c]] # None
    BY DEF StartInv, LinkInv
  <2> QED BY <2>1, StartupAssumption DEF StartInv, LinkInv
<1> QED BY <1>1, Started, PTL
=============================================================================
