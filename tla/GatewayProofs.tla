--------------------------- MODULE GatewayProofs ---------------------------
(***************************************************************************)
(* Proofs about Gateway for any number of connections, handles and         *)
(* requests and any start of the counter.                                  *)
(***************************************************************************)
EXTENDS Gateway, SequenceTheorems, TLAPS

Started(c) == pc[c] # "none"

\* A connection has a handle exactly from its accept on, and a handle that
\* names a connection is the one that connection was given.
SocketInv ==
  /\ \A c \in Conns : Started(c) <=> sock[c] # None
  /\ \A c \in Conns : tcp[c] # "idle" <=> sock[c] # None
  /\ \A h \in Handles : owner[h] \in Conns => sock[owner[h]] = h
  /\ \A i \in 1 .. Len(clientList) : sock[clientList[i]] # None

\* A thread with a request in hand read it through its own handle.
HoldInv ==
  \A c \in Conns : pc[c] \in Critical \cup {"stamp"} =>
    hold[c] \in Frame /\ sock[hold[c].from] = sock[c]

TypeInv == TypeOK /\ SocketInv /\ HoldInv

\* Without returns a list whose entries all come from the given one.
LEMMA WithoutSublist ==
  ASSUME NEW S, NEW list \in Seq(S), NEW c \in S
  PROVE  /\ Without(list, c) \in Seq(S)
         /\ \A i \in 1 .. Len(Without(list, c)) :
              \E j \in 1 .. Len(list) : Without(list, c)[i] = list[j]
<1>1. CASE ~ \E i \in 1 .. Len(list) : list[i] = c
  BY <1>1 DEF Without
<1>2. CASE \E i \in 1 .. Len(list) : list[i] = c
  <2> DEFINE at == CHOOSE i \in 1 .. Len(list) : list[i] = c
             m  == Len(list) - 1
             w  == [i \in 1 .. m |-> IF i < at THEN list[i] ELSE list[i + 1]]
  <2>1. Without(list, c) = w
    BY <1>2 DEF Without
  <2>2. Len(list) \in Nat /\ m \in Nat
    BY <1>2
  <2>3. \A i \in 1 .. m : i \in 1 .. Len(list) /\ i + 1 \in 1 .. Len(list)
    BY <2>2
  <2>4. \A i \in 1 .. m : \E j \in 1 .. Len(list) : w[i] = list[j]
    BY <2>3
  <2>5. \A i \in 1 .. m : w[i] \in S
    BY <2>4
  <2> HIDE DEF w, at, m
  <2>6. w = [i \in 1 .. m |-> w[i]]
    BY DEF w
  <2>7. w \in Seq(S) /\ Len(w) = m
    BY <2>2, <2>5, <2>6
  <2> QED BY <2>1, <2>4, <2>7
<1> QED BY <1>1, <1>2

\* At the start there is no connection, no request and no answer.
LEMMA TypeInit == Init => TypeInv
<1> SUFFICES ASSUME Init PROVE TypeInv
  OBVIOUS
<1>1. SocketInv /\ HoldInv
  BY NoneAssumption DEF Init, SocketInv, HoldInv, Started, Critical
<1>2. forwarded \in Seq(Request) /\ outcome \in Seq(Conns \cup {None, Dropped})
  BY DEF Init
<1>3. clientList \in Seq(Conns) /\ Len(forwarded) = 0 /\ clientRequestId \in Int
  BY StartIdsAssumption DEF Init
<1>4. TypeOK
  <2>1. /\ tcp \in [Conns -> {"idle", "open", "fin", "rst"}]
        /\ sent \in [Conns -> Nat]
        /\ read \in [Conns -> Nat]
        /\ owner \in [Handles -> Conns \cup {None}]
        /\ sock \in [Conns -> Handles \cup {None}]
    BY DEF Init
  <2>2. /\ requestId \in [Conns -> Int]
        /\ pc \in [Conns -> ThreadPc]
        /\ hold \in [Conns -> Frame \cup {None}]
        /\ loaded \in [Conns -> Int]
    BY DEF Init, ThreadPc
  <2>3. /\ answered = 0 /\ routed = 0 /\ scanAt = 1 /\ target = None
        /\ replyPc = "recv"
        /\ authUp = TRUE /\ up = TRUE /\ overlap = FALSE /\ torn = FALSE
    BY DEF Init
  <2>4. /\ answered \in 0 .. Len(forwarded) /\ routed \in 0 .. answered
        /\ scanAt \in Nat \ {0}
    BY <1>3, <2>3
  <2>5. /\ target \in Conns \cup {None}
        /\ replyPc \in {"recv", "scan", "send", "done"}
        /\ authUp \in BOOLEAN /\ up \in BOOLEAN
        /\ overlap \in BOOLEAN /\ torn \in BOOLEAN
    BY <2>3
  <2> QED BY <1>2, <1>3, <2>1, <2>2, <2>4, <2>5 DEF TypeOK
<1> QED BY <1>1, <1>4 DEF TypeInv

\* The three parts of TypeInv, one action at a time.
LEMMA TypeStep == TypeInv /\ [Next]_vars => TypeInv'
<1> SUFFICES ASSUME TypeInv, [Next]_vars PROVE TypeInv'
  OBVIOUS
<1> USE NoneAssumption, DroppedAssumption
<1> USE DEF vars, envVars, sockVars, listVars, idVars, recvVars, replyVars,
            Critical, ThreadPc, Frame, Request
<1>a. TypeOK /\ SocketInv /\ HoldInv
  BY DEF TypeInv
<1>0. ASSUME UNCHANGED vars PROVE TypeInv'
  <2>1. TypeOK'
    BY <1>a, <1>0 DEF TypeOK, SocketInv, HoldInv, Started
  <2>2. SocketInv'
    BY <1>a, <1>0 DEF TypeOK, SocketInv, Started
  <2>3. HoldInv'
    BY <1>a, <1>0 DEF TypeOK, SocketInv, HoldInv, Started
  <2> QED BY <2>1, <2>2, <2>3 DEF TypeInv
<1>1. ASSUME NEW c \in Conns, PeerSend(c) PROVE TypeInv'
  <2>1. TypeOK'
    <3>1. sent' \in [Conns -> Nat]
      <4>1. sent \in [Conns -> Nat] /\ sent' = [sent EXCEPT ![c] = @ + 1]
        BY <1>a, <1>1 DEF TypeOK, PeerSend
      <4> QED BY <4>1
    <3> QED
      BY <3>1, <1>a, <1>1 DEF TypeOK, PeerSend
  <2>2. SocketInv'
    BY <1>a, <1>1 DEF TypeOK, SocketInv, Started, PeerSend
  <2>3. HoldInv'
    BY <1>a, <1>1 DEF TypeOK, SocketInv, HoldInv, Started, PeerSend
  <2> QED BY <2>1, <2>2, <2>3 DEF TypeInv
<1>2. ASSUME NEW c \in Conns, PeerClose(c) \/ PeerReset(c) PROVE TypeInv'
  <2>1. TypeOK'
    <3>1. tcp' \in [Conns -> {"idle", "open", "fin", "rst"}]
      <4>1. /\ tcp \in [Conns -> {"idle", "open", "fin", "rst"}]
            /\ \E how \in {"fin", "rst"} : tcp' = [tcp EXCEPT ![c] = how]
        BY <1>a, <1>2 DEF TypeOK, PeerClose, PeerReset, PeerStop
      <4> QED BY <4>1
    <3> QED
      BY <3>1, <1>a, <1>2 DEF TypeOK, PeerClose, PeerReset, PeerStop
  <2>2. SocketInv'
    BY <1>a, <1>2 DEF TypeOK, SocketInv, Started, PeerClose, PeerReset, PeerStop
  <2>3. HoldInv'
    BY <1>a, <1>2 DEF TypeOK, SocketInv, HoldInv, Started, PeerClose, PeerReset, PeerStop
  <2> QED BY <2>1, <2>2, <2>3 DEF TypeInv
<1>3. ASSUME NEW c \in Conns, RecvFrame(c) PROVE TypeInv'
  <2>1. TypeOK'
    <3>1. read' \in [Conns -> Nat]
      <4> DEFINE d == owner[sock[c]]
      <4>1. d \in Conns /\ read' = [read EXCEPT ![d] = @ + 1]
        BY <1>3 DEF Unread, RecvFrame
      <4>2. read \in [Conns -> Nat]
        BY <1>a DEF TypeOK
      <4> HIDE DEF d
      <4> QED BY <4>1, <4>2
    <3>2. hold' \in [Conns -> Frame \cup {None}]
      <4> DEFINE d == owner[sock[c]]
                 f == [from |-> d, seq |-> read[d] + 1, id |-> 0]
      <4>1. d \in Conns /\ read \in [Conns -> Nat]
        BY <1>a, <1>3 DEF TypeOK, RecvFrame, Unread
      <4>2. f \in Frame
        BY <4>1
      <4>3. hold' = [hold EXCEPT ![c] = f] /\ hold \in [Conns -> Frame \cup {None}]
        BY <1>a, <1>3 DEF TypeOK, RecvFrame
      <4> QED BY <4>2, <4>3
    <3>3. pc' \in [Conns -> ThreadPc]
      <4>1. pc \in [Conns -> ThreadPc] /\ \E to \in ThreadPc : pc' = [pc EXCEPT ![c] = to]
        BY <1>a, <1>3 DEF TypeOK, Goto, RecvFrame
      <4> QED BY <4>1
    <3> QED
      BY <3>1, <3>2, <3>3, <1>a, <1>3 DEF TypeOK, Goto, Unread, RecvFrame
  <2>2. SocketInv'
    BY <1>a, <1>3 DEF TypeOK, SocketInv, Started, Goto, Unread, RecvFrame
  <2>3. HoldInv'
    <3> DEFINE d == owner[sock[c]]
               f == [from |-> d, seq |-> read[d] + 1, id |-> 0]
    <3>1. d \in Conns /\ sock[d] = sock[c] /\ read[d] \in Nat
      BY <1>a, <1>3 DEF TypeOK, SocketInv, Started, RecvFrame, Unread, Goto
    <3>2. f \in Frame /\ f.from = d
      BY <3>1
    <3>3. hold' = [hold EXCEPT ![c] = f] /\ pc' = [pc EXCEPT ![c] = "stamp"] /\ sock' = sock
      BY <1>3 DEF RecvFrame, Goto
    <3> HIDE DEF f, d
    <3>4. hold'[c] = f /\ \A e \in Conns \ {c} : hold'[e] = hold[e] /\ pc'[e] = pc[e]
      BY <3>3, <1>a DEF TypeOK
    <3> QED BY <3>1, <3>2, <3>3, <3>4, <1>a DEF HoldInv
  <2> QED BY <2>1, <2>2, <2>3 DEF TypeInv
<1>4. ASSUME NEW c \in Conns, RecvShort(c) PROVE TypeInv'
  <2>1. TypeOK'
    <3>1. read' \in [Conns -> Nat]
      <4> DEFINE d == owner[sock[c]]
      <4>1. d \in Conns /\ read' = [read EXCEPT ![d] = @ + 1]
        BY <1>4 DEF Unread, RecvShort
      <4>2. read \in [Conns -> Nat]
        BY <1>a DEF TypeOK
      <4> HIDE DEF d
      <4> QED BY <4>1, <4>2
    <3>2. pc' \in [Conns -> ThreadPc]
      <4>1. pc \in [Conns -> ThreadPc] /\ \E to \in ThreadPc : pc' = [pc EXCEPT ![c] = to]
        BY <1>a, <1>4 DEF TypeOK, Goto, RecvShort
      <4> QED BY <4>1
    <3> QED
      BY <3>1, <3>2, <1>a, <1>4 DEF TypeOK, Goto, Unread, RecvShort
  <2>2. SocketInv'
    BY <1>a, <1>4 DEF TypeOK, SocketInv, Started, Goto, Unread, RecvShort
  <2>3. HoldInv'
    BY <1>a, <1>4 DEF TypeOK, SocketInv, HoldInv, Started, Goto, Unread, RecvShort
  <2> QED BY <2>1, <2>2, <2>3 DEF TypeInv
<1>5. ASSUME NEW c \in Conns, RecvEnd(c) PROVE TypeInv'
  <2>1. TypeOK'
    <3>1. pc' \in [Conns -> ThreadPc]
      <4>1. pc \in [Conns -> ThreadPc] /\ \E to \in ThreadPc : pc' = [pc EXCEPT ![c] = to]
        BY <1>a, <1>5 DEF TypeOK, Goto, RecvEnd
      <4> QED BY <4>1
    <3> QED
      BY <3>1, <1>a, <1>5 DEF TypeOK, Goto, RecvEnd
  <2>2. SocketInv'
    BY <1>a, <1>5 DEF TypeOK, SocketInv, Started, Goto, RecvEnd
  <2>3. HoldInv'
    BY <1>a, <1>5 DEF TypeOK, SocketInv, HoldInv, Started, Goto, RecvEnd
  <2> QED BY <2>1, <2>2, <2>3 DEF TypeInv
<1>6. ASSUME NEW c \in Conns, RecvReset(c) PROVE TypeInv'
  <2>1. TypeOK'
    <3>1. read' \in [Conns -> Nat]
      <4> DEFINE d == owner[sock[c]]
      <4>1. d \in Conns /\ read' = [read EXCEPT ![d] = @ + 1]
        BY <1>6 DEF RecvReset
      <4>2. read \in [Conns -> Nat]
        BY <1>a DEF TypeOK
      <4> HIDE DEF d
      <4> QED BY <4>1, <4>2
    <3>2. owner' \in [Handles -> Conns \cup {None}]
      BY <1>a, <1>6 DEF TypeOK, Goto, RecvReset
    <3>3. pc' \in [Conns -> ThreadPc]
      <4>1. pc \in [Conns -> ThreadPc] /\ \E to \in ThreadPc : pc' = [pc EXCEPT ![c] = to]
        BY <1>a, <1>6 DEF TypeOK, Goto, RecvReset
      <4> QED BY <4>1
    <3> QED
      BY <3>1, <3>2, <3>3, <1>a, <1>6 DEF TypeOK, Goto, RecvReset
  <2>2. SocketInv'
    BY <1>a, <1>6 DEF TypeOK, SocketInv, Started, Goto, RecvReset
  <2>3. HoldInv'
    BY <1>a, <1>6 DEF TypeOK, SocketInv, HoldInv, Started, Goto, RecvReset
  <2> QED BY <2>1, <2>2, <2>3 DEF TypeInv
<1>7. ASSUME NEW c \in Conns, EraseBegin(c) PROVE TypeInv'
  <2>1. TypeOK'
    <3>1. torn' \in BOOLEAN
      BY <1>a, <1>7, Zenon DEF TypeOK, EraseBegin
    <3>2. pc' \in [Conns -> ThreadPc]
      <4>1. pc \in [Conns -> ThreadPc] /\ \E to \in ThreadPc : pc' = [pc EXCEPT ![c] = to]
        BY <1>a, <1>7 DEF TypeOK, Goto, EraseBegin
      <4> QED BY <4>1
    <3> QED
      BY <3>1, <3>2, <1>a, <1>7 DEF TypeOK, Goto, EraseBegin
  <2>2. SocketInv'
    BY <1>a, <1>7 DEF TypeOK, SocketInv, Started, Goto, ListBusy, EraseBegin
  <2>3. HoldInv'
    BY <1>a, <1>7 DEF TypeOK, SocketInv, HoldInv, Started, Goto, ListBusy, EraseBegin
  <2> QED BY <2>1, <2>2, <2>3 DEF TypeInv
<1>8. ASSUME NEW c \in Conns, EraseEnd(c) PROVE TypeInv'
  <2>1. TypeOK'
    <3>1. clientList' \in Seq(Conns)
      BY <1>a, <1>8, WithoutSublist DEF TypeOK, Goto, ListWrite, ListBusy, EraseEnd
    <3>2. torn' \in BOOLEAN
      BY <1>a, <1>8 DEF TypeOK, Goto, ListWrite, ListBusy, EraseEnd
    <3>3. pc' \in [Conns -> ThreadPc]
      <4>1. pc \in [Conns -> ThreadPc] /\ \E to \in ThreadPc : pc' = [pc EXCEPT ![c] = to]
        BY <1>a, <1>8 DEF TypeOK, Goto, EraseEnd
      <4> QED BY <4>1
    <3> QED
      BY <3>1, <3>2, <3>3, <1>a, <1>8 DEF TypeOK, Goto, ListWrite, ListBusy, EraseEnd
  <2>2. SocketInv'
    <3>1. \A i \in 1 .. Len(clientList') : \E j \in 1 .. Len(clientList) :
            clientList'[i] = clientList[j]
      <4>1. CASE clientList' = clientList
        BY <4>1
      <4>2. CASE clientList' = Without(clientList, c)
        <5>1. \A i \in 1 .. Len(Without(clientList, c)) : \E j \in 1 .. Len(clientList) :
                Without(clientList, c)[i] = clientList[j]
          BY <1>a, WithoutSublist DEF TypeOK
        <5> QED BY <4>2, <5>1
      <4> QED BY <1>8, <4>1, <4>2 DEF EraseEnd, ListWrite
    <3>2. UNCHANGED <<sock, owner, tcp>>
      BY <1>8 DEF EraseEnd, Goto
    <3>3. \A d \in Conns : Started(d)' <=> Started(d)
      BY <1>8, <1>a DEF EraseEnd, Goto, Started, TypeOK
    <3> QED BY <3>1, <3>2, <3>3, <1>a DEF SocketInv
  <2>3. HoldInv'
    BY <1>a, <1>8 DEF TypeOK, SocketInv, HoldInv, Started, Goto, ListWrite, ListBusy, EraseEnd
  <2> QED BY <2>1, <2>2, <2>3 DEF TypeInv
<1>9. ASSUME NEW c \in Conns, Close(c) PROVE TypeInv'
  <2>1. TypeOK'
    <3>1. owner' \in [Handles -> Conns \cup {None}]
      BY <1>a, <1>9 DEF TypeOK, Close
    <3>2. pc' \in [Conns -> ThreadPc]
      <4>1. pc \in [Conns -> ThreadPc] /\ \E to \in ThreadPc : pc' = [pc EXCEPT ![c] = to]
        BY <1>a, <1>9 DEF TypeOK, Goto, Close
      <4> QED BY <4>1
    <3> QED
      BY <3>1, <3>2, <1>a, <1>9 DEF TypeOK, Goto, Close
  <2>2. SocketInv'
    BY <1>a, <1>9 DEF TypeOK, SocketInv, Started, Goto, Close
  <2>3. HoldInv'
    BY <1>a, <1>9 DEF TypeOK, SocketInv, HoldInv, Started, Goto, Close
  <2> QED BY <2>1, <2>2, <2>3 DEF TypeInv
<1>10. ASSUME NEW c \in Conns, Stamp(c) PROVE TypeInv'
  <2>1. TypeOK'
    <3>1. hold' \in [Conns -> Frame \cup {None}]
      <4> DEFINE f == [hold[c] EXCEPT !.id = clientRequestId]
      <4>1. hold[c] \in Frame /\ clientRequestId \in Int
        BY <1>a, <1>10 DEF TypeOK, HoldInv, Stamp, Goto
      <4>2. f \in Frame
        BY <4>1
      <4>3. hold' = [hold EXCEPT ![c] = f]
        BY <1>10 DEF Stamp
      <4> HIDE DEF f
      <4> QED BY <4>2, <4>3, <1>a DEF TypeOK
    <3>2. pc' \in [Conns -> ThreadPc]
      <4>1. pc \in [Conns -> ThreadPc] /\ \E to \in ThreadPc : pc' = [pc EXCEPT ![c] = to]
        BY <1>a, <1>10 DEF TypeOK, Goto, Stamp
      <4> QED BY <4>1
    <3>3. overlap' \in BOOLEAN
      BY <1>a, <1>10, Zenon DEF TypeOK, Stamp
    <3> QED
      BY <3>1, <3>2, <3>3, <1>a, <1>10 DEF TypeOK, Goto, Stamp
  <2>2. SocketInv'
    BY <1>a, <1>10 DEF TypeOK, SocketInv, Started, Goto, Stamp
  <2>3. HoldInv'
    <3> SUFFICES ASSUME NEW d \in Conns, pc'[d] \in Critical \cup {"stamp"}
                 PROVE  hold'[d] \in Frame /\ sock'[hold'[d].from] = sock'[d]
      BY DEF HoldInv
    <3>1. /\ pc[c] = "stamp" /\ pc' = [pc EXCEPT ![c] = "remember"] /\ sock' = sock
          /\ hold' = [hold EXCEPT ![c].id = clientRequestId]
      BY <1>10 DEF Stamp, Goto
    <3>2. CASE d = c
      <4> DEFINE f == [hold[c] EXCEPT !.id = clientRequestId]
      <4>1. hold[c] \in Frame /\ sock[hold[c].from] = sock[c] /\ clientRequestId \in Int
        BY <1>a, <3>1 DEF TypeOK, HoldInv
      <4>2. f \in Frame /\ f.from = hold[c].from
        BY <4>1
      <4>3. hold'[c] = f
        BY <1>a, <3>1 DEF TypeOK
      <4> QED BY <3>1, <3>2, <4>1, <4>2, <4>3
    <3>3. CASE d # c
      <4>1. hold'[d] = hold[d] /\ pc'[d] = pc[d]
        BY <1>a, <3>1, <3>3 DEF TypeOK
      <4> QED BY <1>a, <3>1, <4>1 DEF HoldInv
    <3> QED BY <3>2, <3>3
  <2> QED BY <2>1, <2>2, <2>3 DEF TypeInv
<1>11. ASSUME NEW c \in Conns, Remember(c) PROVE TypeInv'
  <2>1. TypeOK'
    <3>1. requestId' \in [Conns -> Int]
      BY <1>a, <1>11 DEF TypeOK, Remember
    <3>2. pc' \in [Conns -> ThreadPc]
      <4>1. pc \in [Conns -> ThreadPc] /\ \E to \in ThreadPc : pc' = [pc EXCEPT ![c] = to]
        BY <1>a, <1>11 DEF TypeOK, Goto, Remember
      <4> QED BY <4>1
    <3> QED
      BY <3>1, <3>2, <1>a, <1>11 DEF TypeOK, Goto, Remember
  <2>2. SocketInv'
    BY <1>a, <1>11 DEF TypeOK, SocketInv, Started, Goto, Remember
  <2>3. HoldInv'
    BY <1>a, <1>11 DEF TypeOK, SocketInv, HoldInv, Started, Goto, Remember
  <2> QED BY <2>1, <2>2, <2>3 DEF TypeInv
<1>12. ASSUME NEW c \in Conns, Forward(c) PROVE TypeInv'
  <2>1. TypeOK'
    <3>1. forwarded' \in Seq(Request) /\ Len(forwarded) <= Len(forwarded')
      <4>1. hold[c] \in Frame
        BY <1>a, <1>12 DEF HoldInv, Forward, Goto
      <4>2. [from |-> hold[c].from, seq |-> hold[c].seq, id |-> hold[c].id,
             thread |-> c] \in Request
        BY <4>1
      <4>3. forwarded \in Seq(Request)
        BY <1>a DEF TypeOK
      <4>4. CASE authUp
        <5>1. forwarded' = Append(forwarded, [from |-> hold[c].from, seq |-> hold[c].seq,
                                              id |-> hold[c].id, thread |-> c])
          BY <4>4, <1>12 DEF Forward
        <5> HIDE DEF Request
        <5> QED BY <4>2, <4>3, <5>1, AppendProperties
      <4>5. CASE ~authUp
        BY <4>3, <4>5, <1>12 DEF Forward
      <4> QED BY <4>4, <4>5
    <3>2. pc' \in [Conns -> ThreadPc]
      <4>1. pc \in [Conns -> ThreadPc] /\ \E to \in ThreadPc : pc' = [pc EXCEPT ![c] = to]
        BY <1>a, <1>12 DEF TypeOK, Goto, Forward
      <4> QED BY <4>1
    <3>3. answered' \in 0 .. Len(forwarded') /\ routed' \in 0 .. answered'
      BY <1>a, <1>12 DEF TypeOK, Goto, Forward
    <3> QED
      BY <3>1, <3>2, <3>3, <1>a, <1>12 DEF TypeOK, Goto, Forward
  <2>2. SocketInv'
    BY <1>a, <1>12 DEF TypeOK, SocketInv, Started, Goto, Forward
  <2>3. HoldInv'
    BY <1>a, <1>12 DEF TypeOK, SocketInv, HoldInv, Started, Goto, Forward
  <2> QED BY <2>1, <2>2, <2>3 DEF TypeInv
<1>13. ASSUME NEW c \in Conns, Load(c) PROVE TypeInv'
  <2>1. TypeOK'
    <3>1. loaded' \in [Conns -> Int]
      BY <1>a, <1>13 DEF TypeOK, Load
    <3>2. pc' \in [Conns -> ThreadPc]
      <4>1. pc \in [Conns -> ThreadPc] /\ \E to \in ThreadPc : pc' = [pc EXCEPT ![c] = to]
        BY <1>a, <1>13 DEF TypeOK, Goto, Load
      <4> QED BY <4>1
    <3> QED
      BY <3>1, <3>2, <1>a, <1>13 DEF TypeOK, Goto, Load
  <2>2. SocketInv'
    BY <1>a, <1>13 DEF TypeOK, SocketInv, Started, Goto, Load
  <2>3. HoldInv'
    BY <1>a, <1>13 DEF TypeOK, SocketInv, HoldInv, Started, Goto, Load
  <2> QED BY <2>1, <2>2, <2>3 DEF TypeInv
<1>14. ASSUME NEW c \in Conns, Store(c) PROVE TypeInv'
  <2>1. TypeOK'
    <3>1. clientRequestId' \in Int
      BY <1>a, <1>14 DEF TypeOK, Goto, Store
    <3>2. loaded' \in [Conns -> Int]
      BY <1>a, <1>14 DEF TypeOK, Goto, Store
    <3>3. hold' \in [Conns -> Frame \cup {None}]
      BY <1>a, <1>14 DEF TypeOK, Goto, Store
    <3>4. pc' \in [Conns -> ThreadPc]
      <4>1. pc \in [Conns -> ThreadPc] /\ \E to \in ThreadPc : pc' = [pc EXCEPT ![c] = to]
        BY <1>a, <1>14 DEF TypeOK, Goto, Store
      <4> QED BY <4>1
    <3> QED
      BY <3>1, <3>2, <3>3, <3>4, <1>a, <1>14 DEF TypeOK, Goto, Store
  <2>2. SocketInv'
    BY <1>a, <1>14 DEF TypeOK, SocketInv, Started, Goto, Store
  <2>3. HoldInv'
    BY <1>a, <1>14 DEF TypeOK, SocketInv, HoldInv, Started, Goto, Store
  <2> QED BY <2>1, <2>2, <2>3 DEF TypeInv
<1>15. ASSUME NEW c \in Conns, NEW h \in Handles, Accept(c, h) PROVE TypeInv'
  <2>1. TypeOK'
    <3>1. tcp' \in [Conns -> {"idle", "open", "fin", "rst"}]
      BY <1>a, <1>15 DEF TypeOK, Accept, ListWrite, ListBusy
    <3>2. owner' \in [Handles -> Conns \cup {None}]
      BY <1>a, <1>15 DEF TypeOK, Accept, ListWrite, ListBusy
    <3>3. sock' \in [Conns -> Handles \cup {None}]
      BY <1>a, <1>15 DEF TypeOK, Accept, ListWrite, ListBusy
    <3>4. clientList' \in Seq(Conns)
      <4>1. clientList \in Seq(Conns)
        BY <1>a DEF TypeOK
      <4>2. clientList' \in {clientList, Append(clientList, c)}
        BY <1>15 DEF Accept, ListWrite
      <4> QED BY <4>1, <4>2
    <3>5. torn' \in BOOLEAN
      BY <1>a, <1>15 DEF TypeOK, Accept, ListWrite, ListBusy
    <3>6. pc' \in [Conns -> ThreadPc]
      <4>1. pc \in [Conns -> ThreadPc] /\ \E to \in ThreadPc : pc' = [pc EXCEPT ![c] = to]
        BY <1>a, <1>15 DEF TypeOK, Goto, Accept
      <4> QED BY <4>1
    <3> QED
      BY <3>1, <3>2, <3>3, <3>4, <3>5, <3>6, <1>a, <1>15 DEF TypeOK, Accept, ListWrite, ListBusy
  <2>2. sock[c] = None /\ h \in Handles /\ h # None
    BY <1>a, <1>15 DEF SocketInv, Accept
  <2>3. SocketInv'
    <3>1. \A i \in 1 .. Len(clientList') : clientList'[i] # c =>
            \E j \in 1 .. Len(clientList) : clientList'[i] = clientList[j]
      <4>1. CASE clientList' = clientList
        BY <4>1
      <4>2. CASE clientList' = Append(clientList, c)
        <5>1. clientList \in Seq(Conns)
          BY <1>a DEF TypeOK
        <5>2. /\ Len(clientList') = Len(clientList) + 1
              /\ \A i \in 1 .. Len(clientList) : clientList'[i] = clientList[i]
              /\ clientList'[Len(clientList) + 1] = c
          BY <4>2, <5>1, AppendProperties
        <5> QED BY <5>1, <5>2, LenProperties
      <4> QED BY <1>15, <4>1, <4>2 DEF Accept, ListWrite
    <3>2. sock' = [sock EXCEPT ![c] = h] /\ owner' = [owner EXCEPT ![h] = c]
      BY <1>15 DEF Accept
    <3>3. \A d \in Conns : sock'[d] = IF d = c THEN h ELSE sock[d]
      BY <3>2, <1>a DEF TypeOK
    <3>4. \A d \in Conns : Started(d)' <=> d = c \/ Started(d)
      BY <1>15, <1>a DEF Accept, Started, TypeOK
    <3>5. \A d \in Conns : tcp'[d] # "idle" <=> d = c \/ tcp[d] # "idle"
      BY <1>15, <1>a DEF Accept, TypeOK
    <3>6. \A g \in Handles : owner'[g] \in Conns => sock'[owner'[g]] = g
      BY <2>2, <3>2, <3>3, <1>a DEF TypeOK, SocketInv
    <3>7. \A i \in 1 .. Len(clientList') : sock'[clientList'[i]] # None
      <4> SUFFICES ASSUME NEW i \in 1 .. Len(clientList')
                   PROVE  sock'[clientList'[i]] # None
        OBVIOUS
      <4>1. clientList'[i] \in Conns
        BY <2>1 DEF TypeOK
      <4>2. CASE clientList'[i] = c
        BY <4>1, <4>2, <2>2, <3>3
      <4>3. CASE clientList'[i] # c
        <5>1. PICK j \in 1 .. Len(clientList) : clientList'[i] = clientList[j]
          BY <4>3, <3>1
        <5>2. sock[clientList[j]] # None
          BY <1>a DEF SocketInv
        <5> QED BY <4>1, <4>3, <5>1, <5>2, <3>3
      <4> QED BY <4>2, <4>3
    <3> QED BY <2>2, <3>3, <3>4, <3>5, <3>6, <3>7, <1>a DEF SocketInv
  <2>4. HoldInv'
    <3> SUFFICES ASSUME NEW d \in Conns, pc'[d] \in Critical \cup {"stamp"}
                 PROVE  hold'[d] \in Frame /\ sock'[hold'[d].from] = sock'[d]
      BY DEF HoldInv
    <3>1. d # c /\ pc'[d] = pc[d] /\ hold'[d] = hold[d]
      BY <1>15, <1>a DEF Accept, TypeOK
    <3>2. sock[d] # None /\ sock[hold[d].from] = sock[d] /\ hold[d] \in Frame
      BY <3>1, <1>a DEF SocketInv, Started, HoldInv
    <3>3. hold[d].from # c /\ hold[d].from \in Conns
      BY <2>2, <3>2
    <3> QED BY <3>1, <3>2, <3>3, <1>15, <1>a DEF Accept, TypeOK
  <2> QED BY <2>1, <2>3, <2>4 DEF TypeInv
<1>16. ASSUME AuthAnswer PROVE TypeInv'
  <2>1. TypeOK'
    <3>1. answered' \in 0 .. Len(forwarded') /\ routed' \in 0 .. answered'
      BY <1>a, <1>16 DEF TypeOK, AuthAnswer
    <3> QED
      BY <3>1, <1>a, <1>16 DEF TypeOK, AuthAnswer
  <2>2. SocketInv'
    BY <1>a, <1>16 DEF TypeOK, SocketInv, Started, AuthAnswer
  <2>3. HoldInv'
    BY <1>a, <1>16 DEF TypeOK, SocketInv, HoldInv, Started, AuthAnswer
  <2> QED BY <2>1, <2>2, <2>3 DEF TypeInv
<1>17. ASSUME AuthDown PROVE TypeInv'
  <2>1. TypeOK'
    BY <1>a, <1>17 DEF TypeOK, AuthDown
  <2>2. SocketInv'
    BY <1>a, <1>17 DEF TypeOK, SocketInv, Started, AuthDown
  <2>3. HoldInv'
    BY <1>a, <1>17 DEF TypeOK, SocketInv, HoldInv, Started, AuthDown
  <2> QED BY <2>1, <2>2, <2>3 DEF TypeInv
<1>18. ASSUME ReplyRecv PROVE TypeInv'
  <2>1. TypeOK'
    <3>1. answered' \in 0 .. Len(forwarded') /\ routed' \in 0 .. answered'
      BY <1>a, <1>18 DEF TypeOK, ReplyRecv, ReplyGoto
    <3>2. torn' \in BOOLEAN
      BY <1>a, <1>18 DEF TypeOK, ReplyRecv, ReplyGoto
    <3> QED
      BY <3>1, <3>2, <1>a, <1>18 DEF TypeOK, ReplyRecv, ReplyGoto
  <2>2. SocketInv'
    BY <1>a, <1>18 DEF TypeOK, SocketInv, Started, ReplyRecv, ReplyGoto
  <2>3. HoldInv'
    BY <1>a, <1>18 DEF TypeOK, SocketInv, HoldInv, Started, ReplyRecv, ReplyGoto
  <2> QED BY <2>1, <2>2, <2>3 DEF TypeInv
<1>19. ASSUME ReplyEnd PROVE TypeInv'
  <2>1. TypeOK'
    BY <1>a, <1>19 DEF TypeOK, ReplyEnd, ReplyGoto
  <2>2. SocketInv'
    BY <1>a, <1>19 DEF TypeOK, SocketInv, Started, ReplyEnd, ReplyGoto
  <2>3. HoldInv'
    BY <1>a, <1>19 DEF TypeOK, SocketInv, HoldInv, Started, ReplyEnd, ReplyGoto
  <2> QED BY <2>1, <2>2, <2>3 DEF TypeInv
<1>20. ASSUME ScanNext PROVE TypeInv'
  <2>1. TypeOK'
    <3>1. scanAt' \in Nat \ {0}
      BY <1>a, <1>20 DEF TypeOK, ScanNext, ReplyGoto
    <3> QED
      BY <3>1, <1>a, <1>20 DEF TypeOK, ScanNext, ReplyGoto
  <2>2. SocketInv'
    BY <1>a, <1>20 DEF TypeOK, SocketInv, Started, ScanNext, ReplyGoto
  <2>3. HoldInv'
    BY <1>a, <1>20 DEF TypeOK, SocketInv, HoldInv, Started, ScanNext, ReplyGoto
  <2> QED BY <2>1, <2>2, <2>3 DEF TypeInv
<1>21. ASSUME ScanEnd PROVE TypeInv'
  <2>1. TypeOK'
    <3>1. target' \in Conns \cup {None}
      <4>1. clientList \in Seq(Conns) /\ scanAt \in Nat \ {0} /\ target \in Conns \cup {None}
        BY <1>a DEF TypeOK
      <4>2. CASE scanAt > Len(clientList)
        BY <4>1, <4>2, <1>21 DEF ScanEnd
      <4>3. CASE ~(scanAt > Len(clientList))
        <5>1. scanAt \in 1 .. Len(clientList)
          BY <4>1, <4>3
        <5> QED BY <4>1, <4>3, <5>1, <1>21 DEF ScanEnd
      <4> QED BY <4>2, <4>3
    <3> QED
      BY <3>1, <1>a, <1>21 DEF TypeOK, ScanEnd, ReplyGoto
  <2>2. SocketInv'
    BY <1>a, <1>21 DEF TypeOK, SocketInv, Started, ScanEnd, ReplyGoto
  <2>3. HoldInv'
    BY <1>a, <1>21 DEF TypeOK, SocketInv, HoldInv, Started, ScanEnd, ReplyGoto
  <2> QED BY <2>1, <2>2, <2>3 DEF TypeInv
<1>22. ASSUME ScanTorn PROVE TypeInv'
  <2>1. TypeOK'
    BY <1>a, <1>22 DEF TypeOK, ScanTorn, ReplyGoto
  <2>2. SocketInv'
    BY <1>a, <1>22 DEF TypeOK, SocketInv, Started, ScanTorn, ReplyGoto
  <2>3. HoldInv'
    BY <1>a, <1>22 DEF TypeOK, SocketInv, HoldInv, Started, ScanTorn, ReplyGoto
  <2> QED BY <2>1, <2>2, <2>3 DEF TypeInv
<1>23. ASSUME SendReply PROVE TypeInv'
  <2>1. TypeOK'
    <3>1. outcome' \in Seq(Conns \cup {None, Dropped})
      <4> DEFINE o == IF target = None THEN Dropped ELSE Receiver(target)
      <4>1. o \in Conns \cup {None, Dropped}
        BY DEF Receiver
      <4>2. outcome' = Append(outcome, o) /\ outcome \in Seq(Conns \cup {None, Dropped})
        BY <1>a, <1>23 DEF TypeOK, SendReply
      <4> HIDE DEF o
      <4> QED BY <4>1, <4>2
    <3>2. scanAt' \in Nat \ {0} /\ target' \in Conns \cup {None}
      BY <1>23 DEF SendReply
    <3> QED
      BY <3>1, <3>2, <1>a, <1>23 DEF TypeOK, SendReply, ReplyGoto
  <2>2. SocketInv'
    BY <1>a, <1>23 DEF TypeOK, SocketInv, Started, SendReply, ReplyGoto, Receiver
  <2>3. HoldInv'
    BY <1>a, <1>23 DEF TypeOK, SocketInv, HoldInv, Started, SendReply, ReplyGoto, Receiver
  <2> QED BY <2>1, <2>2, <2>3 DEF TypeInv
<1>24. ASSUME Crash PROVE TypeInv'
  <2>1. TypeOK'
    BY <1>a, <1>24 DEF TypeOK, Crash
  <2>2. SocketInv'
    BY <1>a, <1>24 DEF TypeOK, SocketInv, Started, Crash
  <2>3. HoldInv'
    BY <1>a, <1>24 DEF TypeOK, SocketInv, HoldInv, Started, Crash
  <2> QED BY <2>1, <2>2, <2>3 DEF TypeInv
<1> QED
  BY <1>0, <1>1, <1>2, <1>3, <1>4, <1>5, <1>6, <1>7, <1>8, <1>9, <1>10, <1>11, <1>12, <1>13, <1>14, <1>15, <1>16, <1>17, <1>18, <1>19, <1>20, <1>21, <1>22, <1>23, <1>24 DEF Next, Peer, ReceiveThread, ReplyThread

\* Every variable keeps its type: in particular no thread ever stamps or
\* forwards without a request in hand, and the reply thread never takes more
\* answers than there are.
THEOREM TypeCorrect == Spec => []TypeOK
<1>1. TypeInv => TypeOK
  BY DEF TypeInv
<1> QED BY <1>1, TypeInit, TypeStep, PTL DEF Spec
-----------------------------------------------------------------------------
Holding(c) == pc[c] \in {"forward", "load", "store"}

\* As long as no two threads have been between stamp and store at once, the
\* counter is ahead of every id in use but that of the thread now there.
OneCritical ==
  \A c, d \in Conns : pc[c] \in Critical /\ pc[d] \in Critical => c = d
CriticalIds ==
  \A c \in Conns :
    /\ pc[c] \in Critical => hold[c].id = clientRequestId
    /\ Holding(c) => requestId[c] = clientRequestId
    /\ pc[c] = "store" => loaded[c] = clientRequestId
ForwardedIds ==
  \A k \in 1 .. Len(forwarded) :
    \/ forwarded[k].id < clientRequestId
    \/ /\ forwarded[k].id = clientRequestId /\ k = Len(forwarded)
       /\ pc[forwarded[k].thread] \in {"load", "store"}
IncreasingIds ==
  \A j, k \in 1 .. Len(forwarded) : j < k => forwarded[j].id < forwarded[k].id
ClientIds ==
  \A c \in Conns : requestId[c] = 0 \/ requestId[c] < clientRequestId \/ Holding(c)
\* A Client that carries the id of a request, other than 0, sent it.
Requester ==
  \A c \in Conns : \A k \in 1 .. Len(forwarded) :
    requestId[c] = forwarded[k].id => forwarded[k].id = 0 \/ forwarded[k].thread = c

IdInv ==
  ~overlap => /\ OneCritical /\ CriticalIds /\ ForwardedIds
              /\ IncreasingIds /\ ClientIds /\ Requester

IdStep(c) == Stamp(c) \/ Remember(c) \/ Forward(c) \/ Load(c) \/ Store(c)

\* What every other step leaves alone.
Quiet ==
  /\ UNCHANGED <<overlap, requestId, clientRequestId, loaded, forwarded>>
  /\ \A c \in Conns : pc[c] \in Critical \/ pc'[c] \in Critical =>
       pc'[c] = pc[c] /\ hold'[c] = hold[c]

\* The steps of peers, the environment and the reply thread, and the receive
\* steps outside stamping, leave the ids alone.
LEMMA QuietSteps ==
  TypeInv /\ [Next]_vars => Quiet \/ \E c \in Conns : IdStep(c)
<1> SUFFICES ASSUME TypeInv, [Next]_vars, ~ \E c \in Conns : IdStep(c) PROVE Quiet
  OBVIOUS
<1> USE DEF vars, envVars, sockVars, listVars, idVars, recvVars, replyVars, Critical
<1>a. pc \in [Conns -> ThreadPc] /\ hold \in [Conns -> Frame \cup {None}]
  BY DEF TypeInv, TypeOK
<1>1. CASE UNCHANGED vars
  BY <1>1 DEF Quiet
<1>2. ASSUME NEW c \in Conns, Peer(c) PROVE Quiet
  BY <1>2 DEF Quiet, Peer, PeerSend, PeerClose, PeerReset, PeerStop
<1>3. ASSUME NEW c \in Conns, NEW h \in Handles, Accept(c, h) PROVE Quiet
  <2>1. pc[c] = "none"
    BY <1>3 DEF TypeInv, SocketInv, Started, Accept
  <2> QED BY <1>a, <1>3, <2>1 DEF Quiet, Accept
<1>4. ASSUME NEW c \in Conns, RecvFrame(c) PROVE Quiet
  BY <1>a, <1>4 DEF Quiet, RecvFrame, Goto
<1>5. ASSUME NEW c \in Conns, RecvShort(c) \/ RecvEnd(c) \/ RecvReset(c) PROVE Quiet
  BY <1>a, <1>5 DEF Quiet, RecvShort, RecvEnd, RecvReset, Goto
<1>6. ASSUME NEW c \in Conns, EraseBegin(c) \/ EraseEnd(c) \/ Close(c) PROVE Quiet
  BY <1>a, <1>6 DEF Quiet, EraseBegin, EraseEnd, Close, Goto
<1>7. CASE AuthAnswer \/ AuthDown \/ Crash
  BY <1>7 DEF Quiet, AuthAnswer, AuthDown, Crash
<1>8. CASE ReplyThread
  BY <1>8 DEF Quiet, ReplyThread, ReplyRecv, ReplyEnd, ScanNext, ScanEnd, ScanTorn,
     SendReply, ReplyGoto
<1> QED
  BY <1>1, <1>2, <1>3, <1>4, <1>5, <1>6, <1>7, <1>8 DEF Next, ReceiveThread, IdStep

\* Before the first request there is nothing to tell apart.
LEMMA IdInit == Init => IdInv
  BY DEF Init, IdInv, OneCritical, CriticalIds, ForwardedIds, IncreasingIds, ClientIds,
         Requester, Holding, Critical

\* While only one thread at a time is between stamp and store, stamping,
\* forwarding and counting keep the ids apart.
LEMMA IdPreserved == TypeInv /\ TypeInv' /\ IdInv /\ [Next]_vars => IdInv'
<1> SUFFICES ASSUME TypeInv, TypeInv', IdInv, [Next]_vars, ~overlap' PROVE IdInv'
  BY DEF IdInv
<1>a. /\ pc \in [Conns -> ThreadPc] /\ requestId \in [Conns -> Int]
      /\ loaded \in [Conns -> Int] /\ hold \in [Conns -> Frame \cup {None}]
      /\ clientRequestId \in Int /\ forwarded \in Seq(Request)
  BY DEF TypeInv, TypeOK
<1>b. /\ Len(forwarded) \in Nat
      /\ \A k \in 1 .. Len(forwarded) :
           forwarded[k].thread \in Conns /\ forwarded[k].id \in Int
  <2>1. Len(forwarded) \in Nat /\ \A k \in 1 .. Len(forwarded) : forwarded[k] \in Request
    BY <1>a
  <2>2. \A r \in Request : r.thread \in Conns /\ r.id \in Int
    BY DEF Request
  <2> QED BY <2>1, <2>2
<1> DEFINE Ids == /\ OneCritical /\ CriticalIds /\ ForwardedIds
                  /\ IncreasingIds /\ ClientIds /\ Requester
<1>1. CASE Quiet
  <2>1. ~overlap
    BY <1>1 DEF Quiet
  <2>2. /\ OneCritical /\ CriticalIds /\ ForwardedIds /\ IncreasingIds /\ ClientIds /\ Requester
    BY <2>1 DEF IdInv
  <2>3. OneCritical' /\ CriticalIds' /\ ClientIds'
    BY <1>1, <2>2 DEF Quiet, OneCritical, CriticalIds, ClientIds, Holding, Critical
  <2>4. ForwardedIds'
    BY <1>1, <1>b, <2>2 DEF Quiet, ForwardedIds, Critical
  <2>5. IncreasingIds' /\ Requester'
    BY <1>1, <2>2 DEF Quiet, IncreasingIds, Requester
  <2> QED BY <2>3, <2>4, <2>5 DEF IdInv
<1>2. ASSUME NEW c \in Conns, Stamp(c) PROVE IdInv'
  <2>1. /\ pc[c] = "stamp" /\ pc' = [pc EXCEPT ![c] = "remember"]
        /\ hold' = [hold EXCEPT ![c].id = clientRequestId]
        /\ UNCHANGED <<requestId, clientRequestId, loaded, forwarded>>
        /\ ~overlap /\ \A d \in Conns \ {c} : pc[d] \notin Critical
    BY <1>2 DEF Stamp, Goto
  <2>2. Ids
    BY <2>1 DEF IdInv
  <2>3. hold[c] \in Frame
    BY <2>1 DEF TypeInv, HoldInv
  <2>4. /\ pc'[c] = "remember" /\ hold'[c].id = clientRequestId
        /\ \A d \in Conns \ {c} : pc'[d] = pc[d] /\ hold'[d] = hold[d]
    BY <1>a, <2>1, <2>3 DEF Frame
  <2>5. OneCritical' /\ CriticalIds' /\ ClientIds'
    BY <2>1, <2>2, <2>4 DEF OneCritical, CriticalIds, ClientIds, Holding, Critical
  <2>6. ForwardedIds' /\ IncreasingIds' /\ Requester'
    BY <1>b, <2>1, <2>2, <2>4 DEF ForwardedIds, IncreasingIds, Requester, Critical
  <2> QED BY <2>5, <2>6 DEF IdInv
<1>3. ASSUME NEW c \in Conns, Remember(c) PROVE IdInv'
  <2>1. /\ pc[c] = "remember" /\ pc' = [pc EXCEPT ![c] = "forward"]
        /\ requestId' = [requestId EXCEPT ![c] = clientRequestId]
        /\ UNCHANGED <<hold, clientRequestId, loaded, forwarded>>
        /\ ~overlap
    BY <1>3 DEF Remember, Goto
  <2>2. Ids
    BY <2>1 DEF IdInv
  <2>3. /\ pc'[c] = "forward" /\ requestId'[c] = clientRequestId
        /\ \A d \in Conns \ {c} : pc'[d] = pc[d] /\ requestId'[d] = requestId[d]
    BY <1>a, <2>1
  <2>4. \A d \in Conns \ {c} : pc[d] \notin Critical
    BY <2>1, <2>2 DEF OneCritical, Critical
  <2>5. OneCritical' /\ CriticalIds' /\ ClientIds'
    BY <2>1, <2>2, <2>3, <2>4 DEF OneCritical, CriticalIds, ClientIds, Holding, Critical
  <2>6. \A k \in 1 .. Len(forwarded) : forwarded[k].id < clientRequestId
    BY <1>b, <2>1, <2>2, <2>4 DEF ForwardedIds, Critical
  <2>7. ForwardedIds' /\ IncreasingIds'
    BY <2>1, <2>2, <2>6 DEF ForwardedIds, IncreasingIds
  <2>8. Requester'
    <3> SUFFICES ASSUME NEW d \in Conns, NEW k \in 1 .. Len(forwarded),
                        requestId'[d] = forwarded[k].id
                 PROVE  forwarded[k].id = 0 \/ forwarded[k].thread = d
      BY <2>1 DEF Requester
    <3>1. d # c
      BY <1>a, <1>b, <2>3, <2>6
    <3> QED BY <2>2, <2>3, <3>1 DEF Requester
  <2> QED BY <2>5, <2>7, <2>8 DEF IdInv
<1>4. ASSUME NEW c \in Conns, Forward(c) PROVE IdInv'
  <2> DEFINE r == [from |-> hold[c].from, seq |-> hold[c].seq, id |-> hold[c].id, thread |-> c]
  <2>1. /\ pc[c] = "forward" /\ pc' = [pc EXCEPT ![c] = "load"]
        /\ UNCHANGED <<hold, requestId, clientRequestId, loaded>>
        /\ forwarded' = Append(forwarded, r) \/ forwarded' = forwarded
        /\ ~overlap
    BY <1>4 DEF Forward, Goto, idVars
  <2>2. Ids
    BY <2>1 DEF IdInv
  <2>3. pc'[c] = "load" /\ \A d \in Conns \ {c} : pc'[d] = pc[d]
    BY <1>a, <2>1
  <2>4. \A d \in Conns \ {c} : pc[d] \notin Critical
    BY <2>1, <2>2 DEF OneCritical, Critical
  <2>5. OneCritical' /\ CriticalIds' /\ ClientIds'
    BY <2>1, <2>2, <2>3, <2>4 DEF OneCritical, CriticalIds, ClientIds, Holding, Critical
  <2>6. \A k \in 1 .. Len(forwarded) : forwarded[k].id < clientRequestId
    BY <1>b, <2>1, <2>2, <2>4 DEF ForwardedIds, Critical
  <2>7. r.id = clientRequestId /\ r.thread = c /\ requestId[c] = clientRequestId
    BY <2>1, <2>2 DEF CriticalIds, Critical, Holding
  <2>8. \A d \in Conns \ {c} : requestId[d] = 0 \/ requestId[d] < clientRequestId
    BY <2>2, <2>4 DEF ClientIds, Holding, Critical
  <2> HIDE DEF r
  <2>9. CASE forwarded' = Append(forwarded, r)
    <3>1. /\ Len(forwarded') = Len(forwarded) + 1 /\ forwarded'[Len(forwarded) + 1] = r
          /\ \A k \in 1 .. Len(forwarded) : forwarded'[k] = forwarded[k]
      BY <1>a, <2>9
    <3>2. \A k \in 1 .. Len(forwarded') : k \in 1 .. Len(forwarded) \/ k = Len(forwarded')
      BY <1>b, <3>1
    <3>3. ForwardedIds'
      BY <1>b, <2>1, <2>3, <2>6, <2>7, <3>1, <3>2 DEF ForwardedIds
    <3>4. IncreasingIds'
      <4> SUFFICES ASSUME NEW j \in 1 .. Len(forwarded'), NEW k \in 1 .. Len(forwarded'), j < k
                   PROVE  forwarded'[j].id < forwarded'[k].id
        BY DEF IncreasingIds
      <4>1. j \in 1 .. Len(forwarded)
        BY <1>b, <3>1
      <4>2. CASE k \in 1 .. Len(forwarded)
        BY <2>2, <3>1, <4>1, <4>2 DEF IncreasingIds
      <4>3. CASE k = Len(forwarded')
        BY <2>6, <2>7, <3>1, <4>1, <4>3
      <4> QED BY <3>2, <4>2, <4>3
    <3>5. Requester'
      <4> SUFFICES ASSUME NEW d \in Conns, NEW k \in 1 .. Len(forwarded'),
                          requestId[d] = forwarded'[k].id
                   PROVE  forwarded'[k].id = 0 \/ forwarded'[k].thread = d
        BY <2>1 DEF Requester
      <4>1. CASE k \in 1 .. Len(forwarded)
        BY <2>2, <3>1, <4>1 DEF Requester
      <4>2. CASE k = Len(forwarded')
        BY <1>a, <2>7, <2>8, <3>1, <4>2
      <4> QED BY <3>2, <4>1, <4>2
    <3> QED BY <2>5, <3>3, <3>4, <3>5 DEF IdInv
  <2>10. CASE forwarded' = forwarded
    <3>1. ForwardedIds' /\ IncreasingIds' /\ Requester'
      BY <2>1, <2>2, <2>6, <2>10 DEF ForwardedIds, IncreasingIds, Requester
    <3> QED BY <2>5, <3>1 DEF IdInv
  <2> QED BY <2>1, <2>9, <2>10
<1>5. ASSUME NEW c \in Conns, Load(c) PROVE IdInv'
  <2>1. /\ pc[c] = "load" /\ pc' = [pc EXCEPT ![c] = "store"]
        /\ loaded' = [loaded EXCEPT ![c] = clientRequestId]
        /\ UNCHANGED <<hold, requestId, clientRequestId, forwarded>>
        /\ ~overlap
    BY <1>5 DEF Load, Goto
  <2>2. Ids
    BY <2>1 DEF IdInv
  <2>3. /\ pc'[c] = "store" /\ loaded'[c] = clientRequestId
        /\ \A d \in Conns \ {c} : pc'[d] = pc[d] /\ loaded'[d] = loaded[d]
    BY <1>a, <2>1
  <2>4. OneCritical' /\ CriticalIds' /\ ClientIds'
    BY <2>1, <2>2, <2>3 DEF OneCritical, CriticalIds, ClientIds, Holding, Critical
  <2>5. ForwardedIds' /\ IncreasingIds' /\ Requester'
    BY <1>b, <2>1, <2>2, <2>3 DEF ForwardedIds, IncreasingIds, Requester
  <2> QED BY <2>4, <2>5 DEF IdInv
<1>6. ASSUME NEW c \in Conns, Store(c) PROVE IdInv'
  <2>1. /\ pc[c] = "store" /\ pc' = [pc EXCEPT ![c] = "recv"]
        /\ clientRequestId' = loaded[c] + 1
        /\ UNCHANGED <<requestId, forwarded>>
        /\ ~overlap
    BY <1>6 DEF Store, Goto
  <2>2. Ids
    BY <2>1 DEF IdInv
  <2>3. pc'[c] = "recv" /\ \A d \in Conns \ {c} : pc'[d] = pc[d]
    BY <1>a, <2>1
  <2>4. \A d \in Conns : pc'[d] \notin Critical
    BY <2>1, <2>2, <2>3 DEF OneCritical, Critical
  <2>5. clientRequestId' = clientRequestId + 1 /\ requestId[c] = clientRequestId
    BY <2>1, <2>2 DEF CriticalIds, Holding
  <2>6. OneCritical' /\ CriticalIds'
    BY <2>4 DEF OneCritical, CriticalIds, Holding, Critical
  <2>7. ClientIds'
    <3>1. \A d \in Conns : requestId[d] = 0 \/ requestId[d] < clientRequestId \/ d = c
      BY <2>1, <2>2 DEF ClientIds, Holding, OneCritical, Critical
    <3>2. \A d \in Conns : requestId[d] \in Int
      BY <1>a
    <3>3. \A d \in Conns : requestId[d] = 0 \/ requestId[d] < clientRequestId + 1
      <4> TAKE d \in Conns
      <4>1. clientRequestId \in Int /\ requestId[d] \in Int
        BY <1>a, <3>2
      <4>2. requestId[d] = 0 \/ requestId[d] < clientRequestId \/ requestId[d] = clientRequestId
        BY <2>5, <3>1
      <4> QED BY <4>1, <4>2
    <3> QED BY <2>1, <2>5, <3>3 DEF ClientIds
  <2>8. ForwardedIds' /\ IncreasingIds' /\ Requester'
    <3>1. \A k \in 1 .. Len(forwarded) : forwarded[k].id < clientRequestId + 1
      <4> TAKE k \in 1 .. Len(forwarded)
      <4>1. clientRequestId \in Int /\ forwarded[k].id \in Int
        BY <1>a, <1>b
      <4>2. forwarded[k].id < clientRequestId \/ forwarded[k].id = clientRequestId
        BY <2>2 DEF ForwardedIds
      <4> QED BY <4>1, <4>2
    <3>2. ForwardedIds'
      BY <2>1, <2>5, <3>1 DEF ForwardedIds
    <3> QED BY <2>1, <2>2, <3>2 DEF IncreasingIds, Requester
  <2> QED BY <2>6, <2>7, <2>8 DEF IdInv
<1> QED BY <1>1, <1>2, <1>3, <1>4, <1>5, <1>6, QuietSteps DEF IdStep

\* As long as no two threads have been between stamp and store at once, every
\* request the gateway forwards carries an id of its own.
THEOREM IdsAreUnique == Spec => []IdsUnique
<1>1. TypeInv /\ IdInv => IdsUnique
  <2> SUFFICES ASSUME TypeInv, IdInv, ~overlap,
                      NEW j \in 1 .. Len(forwarded), NEW k \in 1 .. Len(forwarded),
                      forwarded[j].id = forwarded[k].id
               PROVE  j = k
    BY DEF IdsUnique
  <2>1. forwarded \in Seq(Request)
    BY DEF TypeInv, TypeOK
  <2>2. Len(forwarded) \in Nat /\ forwarded[j] \in Request /\ forwarded[k] \in Request
    BY <2>1
  <2>3. forwarded[j].id \in Int /\ forwarded[k].id \in Int
    BY <2>2 DEF Request
  <2> QED BY <2>2, <2>3 DEF IdInv, IncreasingIds
<1> QED BY <1>1, TypeInit, TypeStep, IdInit, IdPreserved, PTL DEF Spec

\* As long as that holds, clientRequestId++ never writes a smaller value than
\* the one it replaces.
THEOREM CounterIsMonotone == Spec => CounterNeverGoesBack
<1>1. TypeInv /\ IdInv /\ [Next]_vars => [clientRequestId' >= clientRequestId \/ overlap]_vars
  <2> SUFFICES ASSUME TypeInv, IdInv, Next, ~overlap PROVE clientRequestId' >= clientRequestId
    OBVIOUS
  <2>1. clientRequestId \in Int /\ loaded \in [Conns -> Int]
    BY DEF TypeInv, TypeOK
  <2>2. CASE \E c \in Conns : Store(c)
    BY <2>1, <2>2 DEF IdInv, CriticalIds, Store, Goto
  <2>3. CASE ~ \E c \in Conns : Store(c)
    <3>1. Quiet \/ \E c \in Conns : Stamp(c) \/ Remember(c) \/ Forward(c) \/ Load(c)
      BY <2>3, QuietSteps DEF IdStep
    <3>2. clientRequestId' = clientRequestId
      BY <3>1 DEF Quiet, Stamp, Remember, Forward, Load, idVars
    <3> QED BY <2>1, <3>2
  <2> QED BY <2>2, <2>3
<1> QED BY <1>1, TypeInit, TypeStep, IdInit, IdPreserved, PTL DEF Spec, CounterNeverGoesBack
-----------------------------------------------------------------------------
\* The reply thread works on answer number routed, outcomes are one behind
\* while it does, and it holds a target only in order to send.
ReplyCounts ==
  /\ Len(outcome) = IF replyPc \in {"scan", "send"} THEN routed - 1 ELSE routed
  /\ replyPc \in {"recv", "scan"} => target = None
SameSocket ==
  \A k \in 1 .. Len(forwarded) :
    /\ sock[forwarded[k].thread] # None
    /\ sock[forwarded[k].from] = sock[forwarded[k].thread]
TargetAsked ==
  replyPc = "send" /\ target \in Conns =>
    /\ sock[target] # None
    /\ overlap \/ forwarded[routed].id = 0 \/ target = forwarded[routed].thread
OutcomeInv ==
  \A k \in 1 .. Len(outcome) : outcome[k] \in Conns =>
    \/ overlap \/ forwarded[k].id = 0
    \/ sock[outcome[k]] = sock[forwarded[k].thread]

RouteInv == ReplyCounts /\ SameSocket /\ TargetAsked /\ OutcomeInv

Routing == <<sock, forwarded, replyPc, routed, target, outcome>>

\* Only a few steps touch what the reply thread routes by: every other one
\* leaves it alone or gives a connection its handle.
LEMMA RoutingSteps ==
  [Next]_vars =>
    \/ UNCHANGED Routing /\ (overlap => overlap')
    \/ \E c \in Conns : Forward(c)
    \/ \E c \in Conns, h \in Handles : Accept(c, h)
    \/ ReplyThread
<1> SUFFICES ASSUME [Next]_vars,
                    ~ \E c \in Conns : Forward(c),
                    ~ \E c \in Conns, h \in Handles : Accept(c, h),
                    ~ ReplyThread
             PROVE  UNCHANGED Routing /\ (overlap => overlap')
  OBVIOUS
<1> USE DEF vars, envVars, sockVars, listVars, idVars, recvVars, replyVars, Routing
<1>1. CASE UNCHANGED vars
  BY <1>1
<1>2. ASSUME NEW c \in Conns, Peer(c) PROVE UNCHANGED Routing /\ (overlap => overlap')
  BY <1>2 DEF Peer, PeerSend, PeerClose, PeerReset, PeerStop
<1>3. ASSUME NEW c \in Conns, ReceiveThread(c)
      PROVE  UNCHANGED Routing /\ (overlap => overlap')
  <2>1. ~Forward(c)
    OBVIOUS
  <2>2. CASE RecvFrame(c) \/ RecvShort(c) \/ RecvEnd(c) \/ RecvReset(c)
    BY <2>2 DEF Goto, RecvFrame, RecvShort, RecvEnd, RecvReset
  <2>3. CASE EraseBegin(c) \/ EraseEnd(c) \/ Close(c)
    BY <2>3 DEF Goto, EraseBegin, EraseEnd, Close
  <2>4. CASE Remember(c) \/ Load(c) \/ Store(c)
    BY <2>4 DEF Goto, Remember, Load, Store
  <2>5. CASE Stamp(c)
    <3>1. UNCHANGED Routing
      BY <2>5 DEF Goto, Stamp
    <3>2. overlap => overlap'
      BY <2>5, Zenon DEF Stamp
    <3> QED BY <3>1, <3>2
  <2> QED BY <1>3, <2>1, <2>2, <2>3, <2>4, <2>5 DEF ReceiveThread
<1>4. CASE AuthAnswer \/ AuthDown \/ Crash
  BY <1>4 DEF AuthAnswer, AuthDown, Crash
<1> QED BY <1>1, <1>2, <1>3, <1>4 DEF Next

\* Before the first answer nothing has been routed.
LEMMA RouteInit == Init => RouteInv
  BY DEF Init, RouteInv, ReplyCounts, SameSocket, TargetAsked, OutcomeInv

\* Finding the Client of an answer and sending to its handle end at the
\* connection that asked, but for the causes named.
LEMMA RoutePreserved ==
  TypeInv /\ TypeInv' /\ IdInv /\ RouteInv /\ [Next]_vars => RouteInv'
<1> SUFFICES ASSUME TypeInv, TypeInv', IdInv, RouteInv, [Next]_vars PROVE RouteInv'
  OBVIOUS
<1>a. /\ forwarded \in Seq(Request) /\ outcome \in Seq(Conns \cup {None, Dropped})
      /\ answered \in 0 .. Len(forwarded) /\ routed \in 0 .. answered
      /\ sock \in [Conns -> Handles \cup {None}] /\ requestId \in [Conns -> Int]
      /\ target \in Conns \cup {None}
  BY DEF TypeInv, TypeOK
<1>b. /\ Len(forwarded) \in Nat /\ Len(outcome) \in Nat
      /\ \A k \in 1 .. Len(forwarded) :
           forwarded[k].thread \in Conns /\ forwarded[k].from \in Conns
  <2>1. /\ Len(forwarded) \in Nat /\ Len(outcome) \in Nat
        /\ \A k \in 1 .. Len(forwarded) : forwarded[k] \in Request
    BY <1>a
  <2>2. \A r \in Request : r.thread \in Conns /\ r.from \in Conns
    BY DEF Request
  <2> QED BY <2>1, <2>2
<1>c. ReplyCounts /\ SameSocket /\ TargetAsked /\ OutcomeInv
  BY DEF RouteInv
<1>d. \A k \in 1 .. Len(outcome) : k \in 1 .. Len(forwarded)
  BY <1>a, <1>b, <1>c DEF ReplyCounts
<1>e. replyPc \in {"scan", "send"} => routed \in 1 .. Len(forwarded) /\ routed = Len(outcome) + 1
  BY <1>a, <1>b, <1>c DEF ReplyCounts
<1>1. CASE UNCHANGED Routing /\ (overlap => overlap')
  BY <1>c, <1>1 DEF Routing, RouteInv, ReplyCounts, SameSocket, TargetAsked, OutcomeInv
<1>2. ASSUME NEW c \in Conns, Forward(c) PROVE RouteInv'
  <2> DEFINE r == [from |-> hold[c].from, seq |-> hold[c].seq, id |-> hold[c].id, thread |-> c]
  <2>1. /\ pc[c] = "forward"
        /\ forwarded' = Append(forwarded, r) \/ forwarded' = forwarded
        /\ UNCHANGED <<sock, replyPc, routed, target, outcome, overlap>>
    BY <1>2 DEF Forward, Goto, sockVars, idVars, replyVars
  <2>2. sock[r.from] = sock[r.thread] /\ sock[r.thread] # None
    <3>1. pc[c] = "forward"
      BY <2>1
    <3>2. sock[hold[c].from] = sock[c] /\ sock[c] # None
      BY <3>1 DEF TypeInv, HoldInv, SocketInv, Started, Critical
    <3> QED BY <3>2
  <2> HIDE DEF r
  <2>3. \A k \in 1 .. Len(forwarded) : forwarded'[k] = forwarded[k]
    <3>1. CASE forwarded' = Append(forwarded, r)
      BY <1>a, <3>1
    <3> QED BY <2>1, <3>1
  <2>4. \A k \in 1 .. Len(forwarded') : k \in 1 .. Len(forwarded) \/ forwarded'[k] = r
    <3>1. CASE forwarded' = forwarded
      BY <3>1
    <3>2. CASE forwarded' = Append(forwarded, r)
      <4>1. Len(forwarded') = Len(forwarded) + 1 /\ forwarded'[Len(forwarded) + 1] = r
        BY <1>a, <3>2
      <4> QED BY <1>b, <4>1
    <3> QED BY <2>1, <3>1, <3>2
  <2>5. SameSocket'
    BY <1>c, <2>1, <2>2, <2>3, <2>4 DEF SameSocket
  <2>6. ReplyCounts' /\ OutcomeInv'
    BY <1>c, <1>d, <2>1, <2>3 DEF ReplyCounts, OutcomeInv
  <2>7. TargetAsked'
    BY <1>c, <1>e, <2>1, <2>3 DEF TargetAsked
  <2> QED BY <2>5, <2>6, <2>7 DEF RouteInv
<1>3. ASSUME NEW c \in Conns, NEW h \in Handles, Accept(c, h) PROVE RouteInv'
  <2>1. /\ tcp[c] = "idle" /\ sock' = [sock EXCEPT ![c] = h]
        /\ UNCHANGED <<forwarded, replyPc, routed, target, outcome, overlap>>
    BY <1>3 DEF Accept, idVars, replyVars
  <2>2. sock[c] = None
    BY <2>1 DEF TypeInv, SocketInv
  <2>3. \A d \in Conns : sock[d] # None => sock'[d] = sock[d]
    BY <1>a, <2>1, <2>2
  <2>4. \A d \in Conns : d # c => sock'[d] = sock[d]
    BY <1>a, <2>1
  <2>5. ReplyCounts' /\ SameSocket' /\ TargetAsked'
    BY <1>b, <1>c, <2>1, <2>3 DEF ReplyCounts, SameSocket, TargetAsked
  <2>6. OutcomeInv'
    <3> SUFFICES ASSUME NEW k \in 1 .. Len(outcome), outcome[k] \in Conns,
                        ~overlap, forwarded[k].id # 0
                 PROVE  sock'[outcome[k]] = sock'[forwarded[k].thread]
      BY <2>1 DEF OutcomeInv
    <3>1. forwarded[k].thread \in Conns /\ sock[forwarded[k].thread] # None
      BY <1>b, <1>c, <1>d DEF SameSocket
    <3>2. sock[outcome[k]] = sock[forwarded[k].thread]
      BY <1>c DEF OutcomeInv
    <3> QED BY <2>3, <3>1, <3>2
  <2> QED BY <2>5, <2>6 DEF RouteInv
<1>4. CASE ReplyThread
  <2>1. UNCHANGED <<sock, forwarded, overlap>>
    BY <1>4 DEF ReplyThread, ReplyRecv, ReplyEnd, ScanNext, ScanEnd, ScanTorn, SendReply,
       recvVars, sockVars, idVars
  <2>2. SameSocket'
    BY <1>c, <2>1 DEF SameSocket
  <2>3. CASE ReplyRecv \/ ReplyEnd \/ ScanNext
    BY <1>a, <1>b, <1>c, <2>1, <2>2, <2>3 DEF ReplyRecv, ReplyEnd, ScanNext, ReplyGoto,
       RouteInv, ReplyCounts, TargetAsked, OutcomeInv
  <2>4. ASSUME ScanEnd \/ ScanTorn PROVE RouteInv'
    <3>1. /\ replyPc = "scan" /\ replyPc' = "send" /\ UNCHANGED <<routed, outcome>>
          /\ target = None
      BY <1>c, <2>4 DEF ScanEnd, ScanTorn, ReplyGoto, ReplyCounts
    <3>2. target' \in Conns => sock[target'] # None /\ requestId[target'] = WantedId
      <4>1. CASE ScanEnd
        <5>1. CASE scanAt > Len(clientList)
          BY <4>1, <5>1, <3>1, NoneAssumption DEF ScanEnd
        <5>2. CASE ~(scanAt > Len(clientList))
          <6>1. scanAt \in 1 .. Len(clientList)
            BY <5>2 DEF TypeInv, TypeOK
          <6>2. target' = clientList[scanAt] /\ requestId[target'] = WantedId
            BY <4>1, <5>2 DEF ScanEnd
          <6> QED BY <6>1, <6>2 DEF TypeInv, SocketInv
        <5> QED BY <5>1, <5>2
      <4>2. CASE ScanTorn
        BY <4>2, NoneAssumption DEF ScanTorn
      <4> QED BY <2>4, <4>1, <4>2
    <3>3. TargetAsked'
      BY <1>e, <2>1, <3>1, <3>2 DEF TargetAsked, WantedId, IdInv, Requester
    <3>4. ReplyCounts' /\ OutcomeInv'
      BY <1>c, <2>1, <3>1 DEF ReplyCounts, OutcomeInv
    <3> QED BY <2>2, <3>3, <3>4 DEF RouteInv
  <2>5. ASSUME SendReply PROVE RouteInv'
    <3> DEFINE o == IF target = None THEN Dropped ELSE Receiver(target)
    <3>1. /\ replyPc = "send" /\ replyPc' = "recv" /\ outcome' = Append(outcome, o)
          /\ routed' = routed /\ target' = None
      BY <2>5 DEF SendReply, ReplyGoto
    <3>2. o \in Conns =>
            overlap \/ forwarded[routed].id = 0 \/ sock[o] = sock[forwarded[routed].thread]
      <4> SUFFICES ASSUME o \in Conns
                   PROVE  overlap \/ forwarded[routed].id = 0
                            \/ sock[o] = sock[forwarded[routed].thread]
        OBVIOUS
      <4>1. target \in Conns /\ o = owner[sock[target]]
        BY <1>a, NoneAssumption, DroppedAssumption DEF Receiver
      <4>2. sock[target] \in Handles
        BY <1>a, <1>c, <3>1, <4>1 DEF TargetAsked
      <4>3. sock[o] = sock[target]
        BY <4>1, <4>2 DEF TypeInv, SocketInv
      <4> QED BY <1>c, <3>1, <4>1, <4>3 DEF TargetAsked
    <3> HIDE DEF o
    <3>3. /\ Len(outcome') = Len(outcome) + 1 /\ outcome'[Len(outcome) + 1] = o
          /\ \A k \in 1 .. Len(outcome) : outcome'[k] = outcome[k]
      BY <1>a, <3>1
    <3>4. ReplyCounts' /\ TargetAsked'
      BY <1>e, <3>1, <3>3 DEF ReplyCounts, TargetAsked
    <3>5. OutcomeInv'
      <4> SUFFICES ASSUME NEW k \in 1 .. Len(outcome'), outcome'[k] \in Conns
                   PROVE  overlap \/ forwarded[k].id = 0
                            \/ sock[outcome'[k]] = sock[forwarded[k].thread]
        BY <2>1 DEF OutcomeInv
      <4>1. CASE k \in 1 .. Len(outcome)
        BY <1>c, <3>3, <4>1 DEF OutcomeInv
      <4>2. CASE k = routed
        BY <1>e, <3>1, <3>2, <3>3, <4>2
      <4> QED BY <1>b, <1>e, <3>1, <3>3, <4>1, <4>2
    <3> QED BY <2>2, <3>4, <3>5 DEF RouteInv
  <2> QED BY <1>4, <2>3, <2>4, <2>5 DEF ReplyThread
<1> QED BY <1>1, <1>2, <1>3, <1>4, RoutingSteps

\* A reply goes astray only through overlapping stamps, through id 0, or to a
\* connection that was given the SOCKET value of the requester.
THEOREM RepliesReachRequesters == Spec => []ReplyReachesRequester
<1>1. TypeInv /\ RouteInv => ReplyReachesRequester
  <2> SUFFICES ASSUME TypeInv, RouteInv, NEW k \in 1 .. Len(outcome), outcome[k] \in Conns,
                      ~overlap, forwarded[k].id # 0
               PROVE  sock[outcome[k]] = sock[forwarded[k].from]
    BY DEF ReplyReachesRequester, Delivered
  <2>1. k \in 1 .. Len(forwarded)
    BY DEF TypeInv, TypeOK, RouteInv, ReplyCounts
  <2> QED BY <2>1 DEF RouteInv, OutcomeInv, SameSocket
<1> QED
  BY <1>1, TypeInit, TypeStep, IdInit, IdPreserved, RouteInit, RoutePreserved, PTL DEF Spec
-----------------------------------------------------------------------------
\* Another connection was given the same SOCKET value.
Shared(d) == \E e \in Conns : e # d /\ sock[e] = sock[d]

\* What is known of a frame in hand and of the frames forwarded: each was
\* read, and the one in hand came after those forwarded, unless two threads
\* read from its connection.
ReadInv ==
  /\ \A c \in Conns : pc[c] \in Critical \cup {"stamp"} => hold[c].seq <= read[hold[c].from]
  /\ \A k \in 1 .. Len(forwarded) : forwarded[k].seq <= read[forwarded[k].from]
NewerInv ==
  \A c \in Conns : \A k \in 1 .. Len(forwarded) :
    pc[c] \in {"stamp", "remember", "forward"} /\ hold[c].from = forwarded[k].from =>
      forwarded[k].seq < hold[c].seq \/ Shared(forwarded[k].from)

OrderInv == ReadInv /\ NewerInv /\ ForwardKeepsOrder

\* What no step takes back.
LEMMA Lasting ==
  ASSUME TypeInv, [Next]_vars
  PROVE  /\ overlap => overlap'
         /\ torn => torn'
         /\ \A c \in Conns : sock[c] # None => sock'[c] = sock[c]
         /\ \A c \in Conns : tcp[c] \in {"fin", "rst"} => tcp'[c] = tcp[c]
         /\ \A c \in Conns : tcp[c] # "idle" => tcp'[c] # "idle"
         /\ \A c \in Conns : pc[c] = "done" => pc'[c] = "done"
         /\ \A c \in Conns : read[c] <= read'[c]
<1> USE DEF vars, envVars, sockVars, listVars, idVars, recvVars, replyVars
<1>a. /\ tcp \in [Conns -> {"idle", "open", "fin", "rst"}] /\ read \in [Conns -> Nat]
      /\ sock \in [Conns -> Handles \cup {None}] /\ pc \in [Conns -> ThreadPc]
  BY DEF TypeInv, TypeOK
<1>b. \A c \in Conns : tcp[c] = "idle" => sock[c] = None /\ pc[c] = "none"
  BY DEF TypeInv, SocketInv, Started
<1> DEFINE Here ==
      /\ overlap => overlap'
      /\ torn => torn'
      /\ \A c \in Conns : sock[c] # None => sock'[c] = sock[c]
      /\ \A c \in Conns : tcp[c] \in {"fin", "rst"} => tcp'[c] = tcp[c]
      /\ \A c \in Conns : tcp[c] # "idle" => tcp'[c] # "idle"
      /\ \A c \in Conns : pc[c] = "done" => pc'[c] = "done"
      /\ \A c \in Conns : read[c] <= read'[c]
<1>1. CASE UNCHANGED vars \/ AuthAnswer \/ AuthDown \/ Crash
  BY <1>a, <1>1 DEF AuthAnswer, AuthDown, Crash
<1>2. ASSUME NEW c \in Conns, Peer(c) PROVE Here
  BY <1>a, <1>2 DEF Peer, PeerSend, PeerClose, PeerReset, PeerStop
<1>3. ASSUME NEW c \in Conns, NEW h \in Handles, Accept(c, h) PROVE Here
  <2>1. torn => torn'
    BY <1>3, Zenon DEF Accept, ListWrite
  <2> QED BY <1>a, <1>b, <1>3, <2>1 DEF Accept
<1>4. ASSUME NEW c \in Conns, RecvFrame(c) \/ RecvShort(c) \/ RecvReset(c) PROVE Here
  <2>1. UNCHANGED <<overlap, torn, sock, tcp>>
    BY <1>4 DEF Goto, RecvFrame, RecvShort, RecvReset
  <2>2. \A e \in Conns : pc[e] = "done" => pc'[e] = "done"
    BY <1>a, <1>4 DEF Goto, RecvFrame, RecvShort, RecvReset
  <2>3. \A e \in Conns : read[e] <= read'[e]
    BY <1>a, <1>4 DEF RecvFrame, RecvShort, RecvReset, Unread
  <2> QED BY <2>1, <2>2, <2>3
<1>5. ASSUME NEW c \in Conns, RecvEnd(c) \/ Close(c) \/ Remember(c) \/ Forward(c)
                              \/ Load(c) \/ Store(c)
      PROVE  Here
  <2>1. UNCHANGED <<overlap, torn, sock, tcp, read>>
    BY <1>5 DEF Goto, RecvEnd, Close, Remember, Forward, Load, Store
  <2>2. \A e \in Conns : pc[e] = "done" => pc'[e] = "done"
    BY <1>a, <1>5 DEF Goto, RecvEnd, Close, Remember, Forward, Load, Store
  <2> QED BY <1>a, <2>1, <2>2
<1>6. ASSUME NEW c \in Conns, Stamp(c) PROVE Here
  <2>1. overlap => overlap'
    BY <1>6, Zenon DEF Stamp
  <2> QED BY <1>a, <1>6, <2>1 DEF Stamp, Goto
<1>7. ASSUME NEW c \in Conns, EraseBegin(c) \/ EraseEnd(c) PROVE Here
  <2>1. torn => torn'
    BY <1>7, Zenon DEF EraseBegin, EraseEnd, ListWrite
  <2>2. UNCHANGED <<overlap, sock, tcp, read>>
    BY <1>7 DEF Goto, EraseBegin, EraseEnd
  <2>3. \A e \in Conns : pc[e] = "done" => pc'[e] = "done"
    BY <1>a, <1>7 DEF Goto, EraseBegin, EraseEnd
  <2> QED BY <1>a, <2>1, <2>2, <2>3
<1>8. CASE ReplyThread
  <2>1. torn => torn'
    BY <1>8, Zenon DEF ReplyThread, ReplyRecv, ReplyEnd, ScanNext, ScanEnd, ScanTorn, SendReply
  <2>2. UNCHANGED <<overlap, sock, tcp, pc, read>>
    BY <1>8 DEF ReplyThread, ReplyRecv, ReplyEnd, ScanNext, ScanEnd, ScanTorn, SendReply,
       ReplyGoto
  <2> QED BY <1>a, <2>1, <2>2
<1> QED
  BY <1>1, <1>2, <1>3, <1>4, <1>5, <1>6, <1>7, <1>8 DEF Next, ReceiveThread

\* A request forwarded stays as it is; only Forward adds one.
LEMMA ForwardedStays ==
  ASSUME TypeInv, [Next]_vars
  PROVE  /\ Len(forwarded) \in Nat
         /\ \A k \in 1 .. Len(forwarded) :
              /\ k \in 1 .. Len(forwarded') /\ forwarded'[k] = forwarded[k]
              /\ forwarded[k].from \in Conns /\ forwarded[k].thread \in Conns
              /\ forwarded[k].seq \in Nat /\ forwarded[k].id \in Int
         /\ forwarded' = forwarded \/ \E c \in Conns : Forward(c)
<1>1. forwarded \in Seq(Request)
  BY DEF TypeInv, TypeOK
<1>2. \A r \in Request : r.from \in Conns /\ r.thread \in Conns /\ r.seq \in Nat /\ r.id \in Int
  BY DEF Request
<1>3. \A k \in 1 .. Len(forwarded) : forwarded[k] \in Request
  BY <1>1
<1>4. forwarded' = forwarded \/ \E c \in Conns : Forward(c)
  BY QuietSteps DEF Quiet, IdStep, Stamp, Remember, Load, Store
<1>5. ASSUME NEW c \in Conns, Forward(c)
      PROVE  \A k \in 1 .. Len(forwarded) : k \in 1 .. Len(forwarded') /\ forwarded'[k] = forwarded[k]
  <2> DEFINE r == [from |-> hold[c].from, seq |-> hold[c].seq, id |-> hold[c].id, thread |-> c]
  <2>1. forwarded' = Append(forwarded, r) \/ forwarded' = forwarded
    BY <1>5 DEF Forward
  <2> HIDE DEF r
  <2> QED BY <1>1, <2>1
<1> QED BY <1>1, <1>2, <1>3, <1>4, <1>5

\* Connections that have a handle keep sharing it.
LEMMA SharedStays ==
  ASSUME TypeInv, [Next]_vars, NEW d \in Conns, sock[d] # None, Shared(d)
  PROVE  Shared(d)'
<1>1. PICK e \in Conns : e # d /\ sock[e] = sock[d]
  BY DEF Shared
<1>2. sock'[e] = sock[e] /\ sock'[d] = sock[d]
  BY <1>1, Lasting
<1> QED BY <1>1, <1>2 DEF Shared

\* A thread comes to a request in hand by reading a frame, and keeps it until
\* it has counted.
LEMMA FrameKept ==
  ASSUME TypeInv, [Next]_vars, NEW c \in Conns,
         pc'[c] \in Critical \cup {"stamp"}, ~RecvFrame(c)
  PROVE  /\ pc[c] \in Critical \cup {"stamp"}
         /\ hold'[c].from = hold[c].from /\ hold'[c].seq = hold[c].seq
         /\ pc'[c] \in {"stamp", "remember", "forward"} =>
              pc[c] \in {"stamp", "remember", "forward"}
<1> USE DEF vars, envVars, sockVars, listVars, idVars, recvVars, replyVars, Critical
<1>a. /\ pc \in [Conns -> ThreadPc] /\ hold \in [Conns -> Frame \cup {None}]
      /\ \A e \in Conns : pc[e] = "stamp" => hold[e] \in Frame
  BY DEF TypeInv, TypeOK, HoldInv
<1> DEFINE Here ==
      /\ pc[c] \in Critical \cup {"stamp"}
      /\ hold'[c].from = hold[c].from /\ hold'[c].seq = hold[c].seq
      /\ pc'[c] \in {"stamp", "remember", "forward"} =>
           pc[c] \in {"stamp", "remember", "forward"}
<1>1. CASE UNCHANGED <<pc, hold>>
  BY <1>1
<1>2. ASSUME NEW e \in Conns, NEW h \in Handles, Accept(e, h) PROVE Here
  BY <1>a, <1>2 DEF Accept
<1>3. ASSUME NEW e \in Conns, RecvFrame(e) PROVE Here
  BY <1>a, <1>3 DEF Goto, RecvFrame
<1>4. ASSUME NEW e \in Conns, Stamp(e) PROVE Here
  BY <1>a, <1>4 DEF Goto, Stamp, Frame
<1>5. ASSUME NEW e \in Conns, RecvShort(e) \/ RecvEnd(e) \/ RecvReset(e)
                              \/ EraseBegin(e) \/ EraseEnd(e) \/ Close(e)
      PROVE  Here
  BY <1>a, <1>5 DEF Goto, RecvShort, RecvEnd, RecvReset, EraseBegin, EraseEnd, Close
<1>6. ASSUME NEW e \in Conns, Remember(e) \/ Forward(e) \/ Load(e) \/ Store(e) PROVE Here
  BY <1>a, <1>6 DEF Goto, Remember, Forward, Load, Store
<1>7. ASSUME NEW e \in Conns, Peer(e) PROVE UNCHANGED <<pc, hold>>
  BY <1>7 DEF Peer, PeerSend, PeerClose, PeerReset, PeerStop
<1>8. CASE ReplyThread
  BY <1>1, <1>8 DEF ReplyThread, ReplyRecv, ReplyEnd, ScanNext, ScanEnd, ScanTorn, SendReply,
     ReplyGoto
<1>9. CASE AuthAnswer \/ AuthDown \/ Crash
  BY <1>1, <1>9 DEF AuthAnswer, AuthDown, Crash
<1> QED
  BY <1>1, <1>2, <1>3, <1>4, <1>5, <1>6, <1>7, <1>8, <1>9 DEF Next, ReceiveThread

\* The frame RecvFrame takes is the next of the connection the handle names.
LEMMA FrameTaken ==
  ASSUME TypeInv, NEW c \in Conns, RecvFrame(c)
  PROVE  \E d \in Conns :
           /\ hold'[c] = [from |-> d, seq |-> read[d] + 1, id |-> 0]
           /\ read'[d] = read[d] + 1 /\ sock[d] = sock[c] /\ sock[c] # None
           /\ UNCHANGED <<sock, forwarded>>
<1> DEFINE d == owner[sock[c]]
<1>1. sock[c] \in Handles
  BY DEF TypeInv, TypeOK, SocketInv, Started, RecvFrame, Goto
<1>2. d \in Conns /\ UNCHANGED <<sock, forwarded>>
  BY DEF RecvFrame, Unread
<1>3. hold'[c] = [from |-> d, seq |-> read[d] + 1, id |-> 0]
  BY DEF RecvFrame, TypeInv, TypeOK
<1>4. read'[d] = read[d] + 1
  BY <1>2 DEF RecvFrame, TypeInv, TypeOK
<1>5. sock[d] = sock[c] /\ sock[c] # None
  BY <1>1, <1>2, NoneAssumption DEF TypeInv, SocketInv
<1> QED BY <1>2, <1>3, <1>4, <1>5

\* Forward appends the request in hand or, when the server is gone, nothing.
LEMMA ForwardAdds ==
  ASSUME TypeInv, NEW c \in Conns, Forward(c)
  PROVE  /\ pc[c] = "forward" /\ pc'[c] = "load"
         /\ UNCHANGED <<sock, hold, read>>
         /\ \A k \in 1 .. Len(forwarded') :
              \/ k \in 1 .. Len(forwarded)
              \/ /\ k = Len(forwarded) + 1
                 /\ forwarded'[k].from = hold[c].from /\ forwarded'[k].seq = hold[c].seq
                 /\ forwarded'[k].id = hold[c].id /\ forwarded'[k].thread = c
<1> DEFINE r == [from |-> hold[c].from, seq |-> hold[c].seq, id |-> hold[c].id, thread |-> c]
<1>1. pc[c] = "forward" /\ pc'[c] = "load" /\ UNCHANGED <<sock, hold, read>>
  BY DEF Forward, Goto, TypeInv, TypeOK, sockVars
<1>2. forwarded' = Append(forwarded, r) \/ forwarded' = forwarded
  BY DEF Forward
<1>3. forwarded \in Seq(Request)
  BY DEF TypeInv, TypeOK
<1>4. r.from = hold[c].from /\ r.seq = hold[c].seq /\ r.id = hold[c].id /\ r.thread = c
  OBVIOUS
<1> HIDE DEF r
<1>5. \A k \in 1 .. Len(forwarded') :
        k \in 1 .. Len(forwarded) \/ (k = Len(forwarded) + 1 /\ forwarded'[k] = r)
  BY <1>2, <1>3
<1> QED BY <1>1, <1>4, <1>5

\* Before the first frame nothing is out of order.
LEMMA OrderInit == Init => OrderInv
  BY DEF Init, OrderInv, ReadInv, NewerInv, ForwardKeepsOrder, Critical

\* A frame is numbered above those read before it, and a connection that has
\* its handle for itself has one thread reading it.
LEMMA OrderPreserved ==
  TypeInv /\ TypeInv' /\ RouteInv /\ OrderInv /\ [Next]_vars => OrderInv'
<1> SUFFICES ASSUME TypeInv, TypeInv', RouteInv, OrderInv, [Next]_vars PROVE OrderInv'
  OBVIOUS
<1>a. ReadInv /\ NewerInv /\ ForwardKeepsOrder
  BY DEF OrderInv
<1>b. /\ read \in [Conns -> Nat] /\ read' \in [Conns -> Nat]
      /\ \A c \in Conns : read[c] <= read'[c]
  BY Lasting DEF TypeInv, TypeOK
<1>c. \A c \in Conns : pc[c] \in Critical \cup {"stamp"} =>
        hold[c].from \in Conns /\ hold[c].seq \in Nat /\ sock[hold[c].from] = sock[c]
  BY DEF TypeInv, HoldInv, Frame
<1>d. \A k \in 1 .. Len(forwarded) : sock[forwarded[k].from] # None
  BY DEF RouteInv, SameSocket
<1>e. \A d \in Conns : sock[d] # None /\ Shared(d) => Shared(d)'
  BY SharedStays
<1>f. \A k \in 1 .. Len(forwarded) :
        /\ k \in 1 .. Len(forwarded') /\ forwarded'[k] = forwarded[k]
        /\ forwarded[k].from \in Conns /\ forwarded[k].seq \in Nat
  BY ForwardedStays
<1>1. ReadInv'
  <2>1. ASSUME NEW c \in Conns, pc'[c] \in Critical \cup {"stamp"}
        PROVE  hold'[c].seq <= read'[hold'[c].from]
    <3>1. CASE RecvFrame(c)
      <4>1. PICK d \in Conns : /\ hold'[c] = [from |-> d, seq |-> read[d] + 1, id |-> 0]
                               /\ read'[d] = read[d] + 1
        BY <3>1, FrameTaken
      <4> QED BY <1>b, <4>1
    <3>2. CASE ~RecvFrame(c)
      <4>1. /\ pc[c] \in Critical \cup {"stamp"}
            /\ hold'[c].from = hold[c].from /\ hold'[c].seq = hold[c].seq
        BY <2>1, <3>2, FrameKept
      <4>2. hold[c].seq <= read[hold[c].from]
        BY <1>a, <4>1 DEF ReadInv
      <4>3. /\ hold[c].seq \in Nat /\ read[hold[c].from] \in Nat
            /\ read'[hold[c].from] \in Nat /\ read[hold[c].from] <= read'[hold[c].from]
        BY <1>b, <1>c, <4>1
      <4> QED BY <4>1, <4>2, <4>3
    <3> QED BY <3>1, <3>2
  <2>2. ASSUME NEW k \in 1 .. Len(forwarded'), k \in 1 .. Len(forwarded)
        PROVE  forwarded'[k].seq <= read'[forwarded'[k].from]
    <3>1. forwarded[k].seq <= read[forwarded[k].from]
      BY <1>a, <2>2 DEF ReadInv
    <3>2. /\ forwarded'[k] = forwarded[k] /\ forwarded[k].seq \in Nat
          /\ forwarded[k].from \in Conns
      BY <1>f, <2>2
    <3>3. /\ read[forwarded[k].from] \in Nat /\ read'[forwarded[k].from] \in Nat
          /\ read[forwarded[k].from] <= read'[forwarded[k].from]
      BY <1>b, <3>2
    <3> QED BY <3>1, <3>2, <3>3
  <2>3. ASSUME NEW k \in 1 .. Len(forwarded'), k \notin 1 .. Len(forwarded)
        PROVE  forwarded'[k].seq <= read'[forwarded'[k].from]
    <3>1. PICK c \in Conns : Forward(c)
      BY <2>3, ForwardedStays
    <3>2. /\ pc[c] = "forward" /\ read' = read
          /\ forwarded'[k].from = hold[c].from /\ forwarded'[k].seq = hold[c].seq
      BY <2>3, <3>1, ForwardAdds
    <3> QED BY <1>a, <3>2 DEF ReadInv, Critical
  <2> QED BY <2>1, <2>2, <2>3 DEF ReadInv
<1>2. NewerInv'
  <2> SUFFICES ASSUME NEW c \in Conns, NEW k \in 1 .. Len(forwarded'),
                      pc'[c] \in {"stamp", "remember", "forward"},
                      hold'[c].from = forwarded'[k].from,
                      ~Shared(forwarded[k].from)'
               PROVE  forwarded'[k].seq < hold'[c].seq
    BY DEF NewerInv
  <2>1. CASE k \notin 1 .. Len(forwarded)
    <3>1. PICK e \in Conns : Forward(e)
      BY <2>1, ForwardedStays
    <3>2. /\ pc[e] = "forward" /\ pc'[e] = "load" /\ UNCHANGED <<hold, sock>>
          /\ forwarded'[k].from = hold[e].from
      BY <2>1, <3>1, ForwardAdds
    <3>3. ~RecvFrame(c)
      BY <3>1 DEF Forward, RecvFrame, Goto, TypeInv, TypeOK
    <3>4. pc[c] \in Critical \cup {"stamp"} /\ c # e
      BY <3>2, <3>3, FrameKept DEF Critical
    <3>5. hold[c].from = hold[e].from /\ sock[hold[c].from] = sock[c]
          /\ sock[hold[e].from] = sock[e] /\ hold[c].from \in Conns
      BY <1>c, <3>2, <3>4 DEF Critical
    <3>6. Shared(hold[e].from)
      BY <3>4, <3>5 DEF Shared
    <3> QED BY <3>2, <3>6 DEF Shared
  <2>2. CASE k \in 1 .. Len(forwarded)
    <3>1. forwarded'[k] = forwarded[k] /\ ~Shared(forwarded[k].from)
      BY <1>d, <1>e, <1>f, <2>2 DEF Shared
    <3>2. CASE RecvFrame(c)
      <4>1. PICK d \in Conns : hold'[c] = [from |-> d, seq |-> read[d] + 1, id |-> 0]
        BY <3>2, FrameTaken
      <4>2. forwarded[k].seq <= read[forwarded[k].from] /\ forwarded[k].from = d
        BY <1>a, <2>2, <3>1, <4>1 DEF ReadInv
      <4>3. forwarded[k].seq \in Nat /\ read[d] \in Nat
        BY <1>b, <1>f, <2>2
      <4> QED BY <3>1, <4>1, <4>2, <4>3
    <3>3. CASE ~RecvFrame(c)
      <4>1. /\ pc[c] \in {"stamp", "remember", "forward"}
            /\ hold'[c].from = hold[c].from /\ hold'[c].seq = hold[c].seq
        BY <3>3, FrameKept DEF Critical
      <4> QED BY <1>a, <2>2, <3>1, <4>1 DEF NewerInv
    <3> QED BY <3>2, <3>3
  <2> QED BY <2>1, <2>2
<1>3. ForwardKeepsOrder'
  <2> SUFFICES ASSUME NEW j \in 1 .. Len(forwarded'), NEW k \in 1 .. Len(forwarded'), j < k,
                      forwarded'[j].from = forwarded'[k].from,
                      ~Shared(forwarded[k].from)'
               PROVE  forwarded'[j].seq < forwarded'[k].seq
    BY DEF ForwardKeepsOrder, Shared
  <2>1. CASE k \in 1 .. Len(forwarded)
    <3>1. j \in 1 .. Len(forwarded)
      BY <2>1, ForwardedStays
    <3>2. forwarded'[j] = forwarded[j] /\ forwarded'[k] = forwarded[k]
      BY <1>f, <2>1, <3>1
    <3>3. ~Shared(forwarded[k].from)
      BY <1>d, <1>e, <1>f, <2>1, <3>2 DEF Shared
    <3> QED BY <1>a, <2>1, <3>1, <3>2, <3>3 DEF ForwardKeepsOrder, Shared
  <2>2. CASE k \notin 1 .. Len(forwarded)
    <3>1. PICK c \in Conns : Forward(c)
      BY <2>2, ForwardedStays
    <3>2. /\ pc[c] = "forward" /\ k = Len(forwarded) + 1
          /\ forwarded'[k].from = hold[c].from /\ forwarded'[k].seq = hold[c].seq
      BY <2>2, <3>1, ForwardAdds
    <3>3. j \in 1 .. Len(forwarded)
      BY <3>2, ForwardedStays
    <3>4. forwarded'[j] = forwarded[j]
      BY <1>f, <3>3
    <3>5. ~Shared(forwarded[j].from)
      BY <1>d, <1>e, <1>f, <3>3, <3>4 DEF Shared
    <3> QED BY <1>a, <3>2, <3>3, <3>4, <3>5 DEF NewerInv
  <2> QED BY <2>1, <2>2
<1> QED BY <1>1, <1>2, <1>3 DEF OrderInv

\* The requests of a connection that does not share its handle reach the
\* authentication server in the order its peer sent them.
THEOREM RequestsStayInOrder == Spec => []ForwardKeepsOrder
<1>1. OrderInv => ForwardKeepsOrder
  BY DEF OrderInv
<1> QED
  BY <1>1, TypeInit, TypeStep, IdInit, IdPreserved, RouteInit, RoutePreserved,
     OrderInit, OrderPreserved, PTL DEF Spec
-----------------------------------------------------------------------------
\* A handle of one connection only names it until its peer resets it or its
\* own thread closes it.
HandleInv ==
  \A c \in Conns : sock[c] # None =>
    owner[sock[c]] = c \/ tcp[c] = "rst" \/ pc[c] = "done" \/ Shared(c)

\* A Client leaves clientList only after a reset was read through its handle.
EraseInv ==
  \A c \in Conns : pc[c] \in {"erase", "trim"} => tcp[c] = "rst" \/ Shared(c)
ListInv ==
  \A c \in Conns : sock[c] # None =>
    \/ \E i \in 1 .. Len(clientList) : clientList[i] = c
    \/ torn \/ tcp[c] = "rst" \/ Shared(c)

\* Why the answer to forwarded[k] may find nobody.
Missed(k) ==
  \/ overlap \/ torn
  \/ requestId[forwarded[k].thread] # forwarded[k].id
  \/ tcp[forwarded[k].from] = "rst" \/ Shared(forwarded[k].from)

\* A scan starts at the front, and the entries it has passed do not carry the
\* id it looks for.
ScanInv ==
  /\ replyPc = "recv" => scanAt = 1
  /\ replyPc = "scan" =>
       \/ overlap \/ torn
       \/ \A i \in 1 .. Len(clientList) : i < scanAt => requestId[clientList[i]] # WantedId
MissInv ==
  replyPc = "send" /\ target = None => Missed(routed)

\* Why the answer to forwarded[k] may not be written to its connection.
Unsent(k) ==
  \/ overlap \/ forwarded[k].id = 0
  \/ tcp[forwarded[k].from] # "open" \/ pc[forwarded[k].thread] = "done"
  \/ Shared(forwarded[k].from)

CauseInv ==
  /\ HandleInv /\ EraseInv /\ ListInv /\ ScanInv /\ MissInv
  /\ LossHasACause /\ FailedSendHasACause

\* An entry that does not belong to c stays in the list.
LEMMA WithoutKeeps ==
  ASSUME NEW S, NEW list \in Seq(S), NEW c \in S,
         NEW i \in 1 .. Len(list), list[i] # c
  PROVE  \E j \in 1 .. Len(Without(list, c)) : Without(list, c)[j] = list[i]
<1>1. CASE ~ \E k \in 1 .. Len(list) : list[k] = c
  BY <1>1 DEF Without
<1>2. CASE \E k \in 1 .. Len(list) : list[k] = c
  <2> DEFINE at == CHOOSE k \in 1 .. Len(list) : list[k] = c
             m  == Len(list) - 1
             w  == [k \in 1 .. m |-> IF k < at THEN list[k] ELSE list[k + 1]]
  <2>1. Without(list, c) = w
    BY <1>2 DEF Without
  <2>2. at \in 1 .. Len(list) /\ list[at] = c
    BY <1>2
  <2>3. Len(list) \in Nat /\ m \in Nat /\ i # at
    BY <1>2, <2>2
  <2> HIDE DEF at
  <2>4. \A k \in 1 .. m : w[k] \in S
    BY <2>3
  <2>5. CASE i < at
    <3>1. i \in 1 .. m /\ w[i] = list[i]
      BY <2>2, <2>3, <2>5
    <3> HIDE DEF w, m
    <3>2. Len(w) = m
      BY <2>3, <2>4 DEF w
    <3> QED BY <2>1, <3>1, <3>2
  <2>6. CASE i > at
    <3>1. i - 1 \in 1 .. m /\ w[i - 1] = list[i]
      BY <2>2, <2>3, <2>6
    <3> HIDE DEF w, m
    <3>2. Len(w) = m
      BY <2>3, <2>4 DEF w
    <3> QED BY <2>1, <3>1, <3>2
  <2> QED BY <2>2, <2>3, <2>5, <2>6
<1> QED BY <1>1, <1>2

\* Only accept, Close and RecvReset change whom a handle names.
LEMMA OwnerSteps ==
  ASSUME [Next]_vars
  PROVE  \/ owner' = owner
         \/ \E c \in Conns, h \in Handles : Accept(c, h)
         \/ \E c \in Conns : (Close(c) \/ RecvReset(c)) /\ owner' = [owner EXCEPT ![sock[c]] = None]
<1> USE DEF vars, envVars, sockVars, listVars, idVars, recvVars, replyVars
<1>1. CASE UNCHANGED vars \/ AuthAnswer \/ AuthDown \/ Crash
  BY <1>1 DEF AuthAnswer, AuthDown, Crash
<1>2. ASSUME NEW c \in Conns, Peer(c) PROVE owner' = owner
  BY <1>2 DEF Peer, PeerSend, PeerClose, PeerReset, PeerStop
<1>3. ASSUME NEW c \in Conns, ReceiveThread(c), ~Close(c), ~RecvReset(c) PROVE owner' = owner
  BY <1>3 DEF ReceiveThread, RecvFrame, RecvShort, RecvEnd, EraseBegin, EraseEnd, Stamp,
     Remember, Forward, Load, Store
<1>4. ASSUME NEW c \in Conns, Close(c) \/ RecvReset(c)
      PROVE  owner' = [owner EXCEPT ![sock[c]] = None]
  BY <1>4 DEF Close, RecvReset
<1>5. CASE ReplyThread
  BY <1>5 DEF ReplyThread, ReplyRecv, ReplyEnd, ScanNext, ScanEnd, ScanTorn, SendReply
<1> QED BY <1>1, <1>2, <1>3, <1>4, <1>5 DEF Next

\* Only accept and EraseEnd write clientList.
LEMMA ListSteps ==
  ASSUME [Next]_vars
  PROVE  \/ clientList' = clientList
         \/ \E c \in Conns, h \in Handles : Accept(c, h)
         \/ \E c \in Conns : EraseEnd(c)
<1> USE DEF vars, envVars, sockVars, listVars, idVars, recvVars, replyVars
<1>1. CASE UNCHANGED vars \/ AuthAnswer \/ AuthDown \/ Crash
  BY <1>1 DEF AuthAnswer, AuthDown, Crash
<1>2. ASSUME NEW c \in Conns, Peer(c) PROVE clientList' = clientList
  BY <1>2 DEF Peer, PeerSend, PeerClose, PeerReset, PeerStop
<1>3. ASSUME NEW c \in Conns, ReceiveThread(c), ~EraseEnd(c) PROVE clientList' = clientList
  BY <1>3 DEF ReceiveThread, RecvFrame, RecvShort, RecvEnd, RecvReset, EraseBegin, Close,
     Stamp, Remember, Forward, Load, Store
<1>4. CASE ReplyThread
  BY <1>4 DEF ReplyThread, ReplyRecv, ReplyEnd, ScanNext, ScanEnd, ScanTorn, SendReply
<1> QED BY <1>1, <1>2, <1>3, <1>4 DEF Next

\* Only accept gives a connection its handle.
LEMMA SockSteps ==
  ASSUME [Next]_vars
  PROVE  sock' = sock \/ \E c \in Conns, h \in Handles : Accept(c, h)
  BY RoutingSteps DEF Routing, Forward, sockVars, ReplyThread, ReplyRecv, ReplyEnd, ScanNext,
     ScanEnd, ScanTorn, SendReply, recvVars

\* A thread comes to the erasure by a reset it has read.
LEMMA EraseSteps ==
  ASSUME TypeInv, [Next]_vars, NEW c \in Conns, pc'[c] \in {"erase", "trim"}
  PROVE  pc[c] \in {"erase", "trim"} \/ RecvReset(c)
<1> USE DEF vars, envVars, sockVars, listVars, idVars, recvVars, replyVars
<1>a. pc \in [Conns -> ThreadPc]
  BY DEF TypeInv, TypeOK
<1>1. CASE UNCHANGED vars \/ AuthAnswer \/ AuthDown \/ Crash
  BY <1>1 DEF AuthAnswer, AuthDown, Crash
<1>2. ASSUME NEW e \in Conns, Peer(e) PROVE pc' = pc
  BY <1>2 DEF Peer, PeerSend, PeerClose, PeerReset, PeerStop
<1>3. ASSUME NEW e \in Conns, NEW h \in Handles, Accept(e, h) PROVE pc[c] \in {"erase", "trim"}
  BY <1>a, <1>3 DEF Accept
<1>4. ASSUME NEW e \in Conns, ReceiveThread(e), ~RecvReset(c) PROVE pc[c] \in {"erase", "trim"}
  BY <1>a, <1>4 DEF ReceiveThread, Goto, RecvFrame, RecvShort, RecvEnd, RecvReset, EraseBegin,
     EraseEnd, Close, Stamp, Remember, Forward, Load, Store
<1>5. CASE ReplyThread
  BY <1>5 DEF ReplyThread, ReplyRecv, ReplyEnd, ScanNext, ScanEnd, ScanTorn, SendReply
<1> QED BY <1>1, <1>2, <1>3, <1>4, <1>5 DEF Next

\* Before the first connection there is no handle and no list.
LEMMA HandleInit == Init => HandleInv /\ EraseInv /\ ListInv
  BY DEF Init, HandleInv, EraseInv, ListInv

\* Until a connection is reset, is shared or raced on, its handle names it
\* and its Client stays in the list.
LEMMA HandlePreserved ==
  ASSUME TypeInv, TypeInv', HandleInv, EraseInv, ListInv, [Next]_vars
  PROVE  HandleInv' /\ EraseInv' /\ ListInv'
<1>a. /\ owner \in [Handles -> Conns \cup {None}] /\ sock \in [Conns -> Handles \cup {None}]
      /\ sock' \in [Conns -> Handles \cup {None}] /\ clientList \in Seq(Conns)
      /\ tcp \in [Conns -> {"idle", "open", "fin", "rst"}]
  BY DEF TypeInv, TypeOK
<1>b. /\ torn => torn'
      /\ \A c \in Conns : sock[c] # None => sock'[c] = sock[c]
      /\ \A c \in Conns : tcp[c] = "rst" => tcp'[c] = "rst"
      /\ \A c \in Conns : pc[c] = "done" => pc'[c] = "done"
  BY Lasting
<1>c. \A d \in Conns : sock[d] # None /\ Shared(d) => Shared(d)'
  BY SharedStays
<1>d. ASSUME NEW c \in Conns, RecvReset(c) PROVE tcp[c] = "rst" \/ Shared(c)
  <2> DEFINE d == owner[sock[c]]
  <2>1. sock[c] \in Handles /\ sock[c] # None
    BY <1>a, <1>d, NoneAssumption DEF TypeInv, SocketInv, Started, RecvReset, Goto
  <2>2. d \in Conns /\ tcp[d] = "rst"
    BY <1>d DEF RecvReset
  <2>3. sock[d] = sock[c]
    BY <2>1, <2>2 DEF TypeInv, SocketInv
  <2> QED BY <2>2, <2>3 DEF Shared
<1>e. \A c \in Conns : sock'[c] # None => sock[c] # None \/ \E h \in Handles : Accept(c, h)
  <2> SUFFICES ASSUME NEW c \in Conns, sock'[c] # None, sock[c] = None
               PROVE  \E h \in Handles : Accept(c, h)
    OBVIOUS
  <2>1. PICK e \in Conns, h \in Handles : Accept(e, h)
    BY SockSteps
  <2>2. e = c
    BY <1>a, <2>1 DEF Accept
  <2> QED BY <2>1, <2>2
<1>1. HandleInv'
  <2> SUFFICES ASSUME NEW c \in Conns, sock'[c] # None,
                      tcp'[c] # "rst", pc'[c] # "done", ~Shared(c)'
               PROVE  owner'[sock'[c]] = c
    BY DEF HandleInv
  <2>1. ASSUME NEW h \in Handles, Accept(c, h) PROVE owner'[sock'[c]] = c
    BY <1>a, <2>1 DEF Accept
  <2>2. CASE sock[c] # None
    <3>1. sock'[c] = sock[c] /\ owner[sock[c]] = c /\ sock[c] \in Handles
          /\ tcp[c] # "rst" /\ ~Shared(c)
      BY <1>a, <1>b, <1>c, <2>2 DEF HandleInv
    <3>2. CASE owner' = owner
      BY <3>1, <3>2
    <3>3. ASSUME NEW e \in Conns, NEW h \in Handles, Accept(e, h) PROVE owner'[sock[c]] = c
      <4>1. owner[h] = None /\ owner' = [owner EXCEPT ![h] = e]
        BY <3>3 DEF Accept
      <4> QED BY <1>a, <3>1, <4>1, NoneAssumption
    <3>4. ASSUME NEW e \in Conns, Close(e) \/ RecvReset(e),
                 owner' = [owner EXCEPT ![sock[e]] = None]
          PROVE  owner'[sock[c]] = c
      <4>1. CASE e = c
        <5>1. Close(c)
          BY <1>d, <3>1, <3>4, <4>1
        <5>2. pc'[c] = "done"
          BY <5>1 DEF Close, Goto, TypeInv, TypeOK
        <5> QED BY <5>2
      <4>2. CASE e # c
        <5>1. sock[e] # sock[c]
          BY <3>1, <4>2 DEF Shared
        <5> QED BY <1>a, <3>1, <3>4, <5>1
      <4> QED BY <4>1, <4>2
    <3> QED BY <3>1, <3>2, <3>3, <3>4, OwnerSteps
  <2> QED BY <1>e, <2>1, <2>2
<1>2. EraseInv'
  <2> SUFFICES ASSUME NEW c \in Conns, pc'[c] \in {"erase", "trim"}
               PROVE  tcp'[c] = "rst" \/ Shared(c)'
    BY DEF EraseInv
  <2>1. pc[c] \in {"erase", "trim"} \/ RecvReset(c)
    BY EraseSteps
  <2>2. tcp[c] = "rst" \/ Shared(c)
    BY <1>d, <2>1 DEF EraseInv
  <2>3. sock[c] # None
    BY <2>1 DEF TypeInv, SocketInv, Started, RecvReset, Goto
  <2> QED BY <1>b, <1>c, <2>2, <2>3
<1>3. ListInv'
  <2> SUFFICES ASSUME NEW c \in Conns, sock'[c] # None,
                      ~torn', tcp'[c] # "rst", ~Shared(c)'
               PROVE  \E i \in 1 .. Len(clientList') : clientList'[i] = c
    BY DEF ListInv
  <2>1. ASSUME NEW e \in Conns, NEW h \in Handles, Accept(e, h)
        PROVE  /\ clientList'[Len(clientList) + 1] = e
               /\ Len(clientList) + 1 \in 1 .. Len(clientList')
               /\ \A i \in 1 .. Len(clientList) :
                    i \in 1 .. Len(clientList') /\ clientList'[i] = clientList[i]
    <3>1. clientList' = Append(clientList, e)
      BY <2>1 DEF Accept, ListWrite
    <3> QED BY <1>a, <3>1
  <2>2. ASSUME NEW h \in Handles, Accept(c, h)
        PROVE  \E i \in 1 .. Len(clientList') : clientList'[i] = c
    BY <2>1, <2>2
  <2>3. CASE sock[c] # None
    <3>1. ~torn /\ tcp[c] # "rst" /\ ~Shared(c)
      BY <1>b, <1>c, <2>3
    <3>2. PICK i \in 1 .. Len(clientList) : clientList[i] = c
      BY <2>3, <3>1 DEF ListInv
    <3>3. CASE clientList' = clientList
      BY <3>2, <3>3
    <3>4. ASSUME NEW e \in Conns, NEW h \in Handles, Accept(e, h)
          PROVE  \E j \in 1 .. Len(clientList') : clientList'[j] = c
      BY <2>1, <3>2, <3>4
    <3>5. ASSUME NEW e \in Conns, EraseEnd(e)
          PROVE  \E j \in 1 .. Len(clientList') : clientList'[j] = c
      <4>1. clientList' = Without(clientList, e) /\ pc[e] = "trim"
        BY <3>5 DEF EraseEnd, ListWrite, Goto
      <4>2. e # c
        BY <3>1, <4>1 DEF EraseInv
      <4> QED BY <1>a, <3>2, <4>1, <4>2, WithoutKeeps
    <3> QED BY <3>3, <3>4, <3>5, ListSteps
  <2> QED BY <1>e, <2>2, <2>3
<1> QED BY <1>1, <1>2, <1>3

\* The reply thread alone changes what it works with.
LEMMA ReplySteps ==
  ASSUME [Next]_vars
  PROVE  ReplyThread \/ UNCHANGED replyVars
<1> USE DEF vars, envVars, recvVars, replyVars
<1>1. CASE UNCHANGED vars \/ AuthAnswer \/ AuthDown \/ Crash
  BY <1>1 DEF AuthAnswer, AuthDown, Crash
<1>2. ASSUME NEW c \in Conns, Peer(c) PROVE UNCHANGED replyVars
  BY <1>2 DEF Peer, PeerSend, PeerClose, PeerReset, PeerStop
<1>3. ASSUME NEW c \in Conns, NEW h \in Handles, Accept(c, h) PROVE UNCHANGED replyVars
  BY <1>3 DEF Accept
<1>4. ASSUME NEW c \in Conns, ReceiveThread(c) PROVE UNCHANGED replyVars
  BY <1>4 DEF ReceiveThread, Goto, RecvFrame, RecvShort, RecvEnd, RecvReset, EraseBegin,
     EraseEnd, Close, Stamp, Remember, Forward, Load, Store
<1> QED BY <1>1, <1>2, <1>3, <1>4 DEF Next

\* A Client that carries another id than a request forwarded will not come to
\* carry that id: the counter is past it.
LEMMA OtherIdStays ==
  ASSUME TypeInv, IdInv, [Next]_vars, ~overlap',
         NEW c \in Conns, NEW k \in 1 .. Len(forwarded), requestId[c] # forwarded[k].id
  PROVE  requestId'[c] # forwarded[k].id
<1>a. /\ requestId \in [Conns -> Int] /\ clientRequestId \in Int /\ ~overlap
      /\ forwarded[k].id \in Int /\ forwarded[k].thread \in Conns
  BY Lasting, ForwardedStays DEF TypeInv, TypeOK
<1>1. CASE requestId' = requestId
  BY <1>1
<1>2. ASSUME NEW e \in Conns, Remember(e) PROVE requestId'[c] # forwarded[k].id
  <2>1. pc[e] = "remember" /\ requestId' = [requestId EXCEPT ![e] = clientRequestId]
    BY <1>2 DEF Remember, Goto
  <2>2. \A d \in Conns : pc[d] \notin {"load", "store"}
    BY <1>a, <2>1 DEF IdInv, OneCritical, Critical
  <2>3. forwarded[k].id < clientRequestId
    BY <1>a, <2>2 DEF IdInv, ForwardedIds
  <2> QED BY <1>a, <2>1, <2>3
<1> QED
  BY <1>1, <1>2, QuietSteps DEF Quiet, IdStep, Stamp, Forward, Load, Store, idVars

\* The causes named stay causes.
LEMMA CausesStay ==
  ASSUME TypeInv, IdInv, RouteInv, [Next]_vars, NEW k \in 1 .. Len(forwarded)
  PROVE  (Missed(k) => Missed(k)') /\ (Unsent(k) => Unsent(k)')
<1> DEFINE d == forwarded[k].from
           t == forwarded[k].thread
<1>1. d \in Conns /\ t \in Conns /\ forwarded'[k] = forwarded[k]
  BY ForwardedStays
<1>2. sock[d] # None
  BY DEF RouteInv, SameSocket
<1>3. tcp[d] # "idle" /\ tcp[d] \in {"idle", "open", "fin", "rst"}
  BY <1>1, <1>2 DEF TypeInv, TypeOK, SocketInv
<1>4. /\ overlap => overlap'
      /\ torn => torn'
      /\ tcp[d] = "rst" => tcp'[d] = "rst"
      /\ tcp[d] # "open" => tcp'[d] # "open"
      /\ pc[t] = "done" => pc'[t] = "done"
  BY <1>1, <1>3, Lasting
<1>5. Shared(d) => Shared(d)'
  BY <1>1, <1>2, SharedStays
<1>6. requestId[t] # forwarded[k].id => overlap' \/ requestId'[t] # forwarded[k].id
  BY <1>1, OtherIdStays
<1> HIDE DEF d, t
<1>7. Missed(k) <=> overlap \/ torn \/ requestId[t] # forwarded[k].id \/ tcp[d] = "rst" \/ Shared(d)
  BY DEF Missed, d, t
<1>8. Missed(k)' <=> \/ overlap' \/ torn' \/ requestId'[t] # forwarded[k].id
                     \/ tcp'[d] = "rst" \/ Shared(d)'
  BY <1>1 DEF Missed, Shared, d, t
<1>9. Unsent(k) <=> \/ overlap \/ forwarded[k].id = 0 \/ tcp[d] # "open"
                    \/ pc[t] = "done" \/ Shared(d)
  BY DEF Unsent, d, t
<1>10. Unsent(k)' <=> \/ overlap' \/ forwarded[k].id = 0 \/ tcp'[d] # "open"
                      \/ pc'[t] = "done" \/ Shared(d)'
  BY <1>1 DEF Unsent, Shared, d, t
<1> QED BY <1>4, <1>5, <1>6, <1>7, <1>8, <1>9, <1>10

\* Before the first answer nothing has been scanned or lost.
LEMMA CauseInit == Init => CauseInv
  BY HandleInit DEF Init, CauseInv, ScanInv, MissInv, LossHasACause, FailedSendHasACause

\* A complete scan of a list nobody raced on misses its Client only if that
\* no longer carries the id, and a handle of one connection fails only when
\* that connection is over.
LEMMA CausePreserved ==
  TypeInv /\ TypeInv' /\ IdInv /\ RouteInv /\ CauseInv /\ [Next]_vars => CauseInv'
<1> SUFFICES ASSUME TypeInv, TypeInv', IdInv, RouteInv, CauseInv, [Next]_vars PROVE CauseInv'
  OBVIOUS
<1>a. /\ HandleInv /\ EraseInv /\ ListInv /\ ScanInv /\ MissInv
      /\ LossHasACause /\ FailedSendHasACause
  BY DEF CauseInv
<1>b. /\ clientList \in Seq(Conns) /\ scanAt \in Nat \ {0} /\ Len(forwarded) \in Nat
      /\ answered \in 0 .. Len(forwarded) /\ routed \in 0 .. answered
      /\ outcome \in Seq(Conns \cup {None, Dropped}) /\ target \in Conns \cup {None}
      /\ sock \in [Conns -> Handles \cup {None}] /\ Len(outcome) \in Nat
  <2>1. outcome \in Seq(Conns \cup {None, Dropped}) /\ forwarded \in Seq(Request)
    BY DEF TypeInv, TypeOK
  <2>2. Len(outcome) \in Nat /\ Len(forwarded) \in Nat
    BY <2>1
  <2>3. /\ clientList \in Seq(Conns) /\ scanAt \in Nat \ {0}
        /\ answered \in 0 .. Len(forwarded) /\ routed \in 0 .. answered
        /\ target \in Conns \cup {None} /\ sock \in [Conns -> Handles \cup {None}]
    BY DEF TypeInv, TypeOK
  <2> QED BY <2>1, <2>2, <2>3
<1>c. replyPc \in {"scan", "send"} => routed \in 1 .. Len(forwarded) /\ routed = Len(outcome) + 1
  BY <1>b DEF RouteInv, ReplyCounts
<1>d. \A k \in 1 .. Len(outcome) : k \in 1 .. Len(forwarded)
  BY <1>b DEF RouteInv, ReplyCounts
<1>e. \A k \in 1 .. Len(forwarded) :
        /\ forwarded[k].from \in Conns /\ forwarded[k].thread \in Conns
        /\ forwarded'[k] = forwarded[k]
        /\ sock[forwarded[k].from] = sock[forwarded[k].thread] /\ sock[forwarded[k].from] # None
  BY ForwardedStays DEF RouteInv, SameSocket
<1>f. \A k \in 1 .. Len(forwarded) : (Missed(k) => Missed(k)') /\ (Unsent(k) => Unsent(k)')
  BY CausesStay
<1>1. HandleInv' /\ EraseInv' /\ ListInv'
  BY <1>a, HandlePreserved
<1>2. ScanInv'
  <2>1. ASSUME replyPc' = "recv" PROVE scanAt' = 1
    BY <1>a, <2>1, ReplySteps DEF ScanInv, replyVars, ReplyThread, ReplyRecv, ReplyEnd, ScanNext,
       ScanEnd, ScanTorn, SendReply, ReplyGoto
  <2>2. ASSUME replyPc' = "scan", ~overlap', ~torn',
               NEW i \in 1 .. Len(clientList'), i < scanAt'
        PROVE  requestId'[clientList'[i]] # WantedId'
    <3>1. CASE ReplyRecv
      BY <1>a, <2>2, <3>1 DEF ScanInv, ReplyRecv, ReplyGoto
    <3>2. CASE ScanNext
      <4>1. /\ replyPc = "scan" /\ scanAt' = scanAt + 1 /\ requestId[clientList[scanAt]] # WantedId
            /\ UNCHANGED <<clientList, requestId, forwarded, routed>>
            /\ UNCHANGED <<overlap, torn>>
        BY <3>2 DEF ScanNext, ReplyGoto, recvVars, listVars, idVars
      <4>2. i \in 1 .. Len(clientList) /\ (i < scanAt \/ i = scanAt)
        BY <1>b, <2>2, <4>1
      <4>3. requestId[clientList[i]] # WantedId
        BY <1>a, <2>2, <4>1, <4>2 DEF ScanInv
      <4> QED BY <4>1, <4>3 DEF WantedId
    <3>3. CASE UNCHANGED replyVars
      <4>1. replyPc = "scan" /\ scanAt' = scanAt /\ routed' = routed
        BY <2>2, <3>3 DEF replyVars
      <4>2. ~overlap /\ ~torn
        BY <2>2, Lasting
      <4>3. ~ \E c \in Conns : EraseEnd(c) \/ \E h \in Handles : Accept(c, h)
        BY <2>2, <4>1 DEF EraseEnd, Accept, ListWrite, ListBusy
      <4>4. clientList' = clientList
        BY <4>3, ListSteps
      <4>5. clientList[i] \in Conns /\ i \in 1 .. Len(clientList)
        BY <1>b, <2>2, <4>4
      <4>6. requestId[clientList[i]] # forwarded[routed].id
        BY <1>a, <2>2, <4>1, <4>2, <4>4, <4>5 DEF ScanInv, WantedId
      <4>7. routed \in 1 .. Len(forwarded)
        BY <1>c, <4>1
      <4>8. requestId'[clientList[i]] # forwarded[routed].id
        BY <2>2, <4>5, <4>6, <4>7, OtherIdStays
      <4> QED BY <1>e, <4>1, <4>4, <4>7, <4>8 DEF WantedId
    <3>4. CASE ReplyEnd \/ ScanEnd \/ ScanTorn \/ SendReply
      BY <2>2, <3>4 DEF ReplyEnd, ScanEnd, ScanTorn, SendReply, ReplyGoto
    <3> QED BY <3>1, <3>2, <3>3, <3>4, ReplySteps DEF ReplyThread
  <2> QED BY <2>1, <2>2 DEF ScanInv
<1>3. MissInv'
  <2> SUFFICES ASSUME replyPc' = "send", target' = None PROVE Missed(routed)'
    BY DEF MissInv
  <2>1. CASE UNCHANGED replyVars
    <3>1. replyPc = "send" /\ target = None /\ routed' = routed
      BY <2>1 DEF replyVars
    <3>2. Missed(routed) /\ routed \in 1 .. Len(forwarded)
      BY <1>a, <1>c, <3>1 DEF MissInv
    <3> QED BY <1>f, <3>1, <3>2 DEF Missed
  <2>2. CASE ScanEnd \/ ScanTorn
    <3>1. replyPc = "scan" /\ routed' = routed /\ routed \in 1 .. Len(forwarded)
      BY <1>c, <2>2 DEF ScanEnd, ScanTorn, ReplyGoto
    <3>2. CASE ScanTorn
      <4>1. torn
        BY <3>2 DEF ScanTorn
      <4> QED BY <1>f, <3>1, <4>1 DEF Missed
    <3>3. CASE ScanEnd
      <4> DEFINE d == forwarded[routed].from
      <4>1. scanAt > Len(clientList)
        <5>1. CASE ~(scanAt > Len(clientList))
          <6>1. scanAt \in 1 .. Len(clientList) /\ target' = clientList[scanAt]
            BY <1>b, <3>3, <5>1 DEF ScanEnd
          <6> QED BY <1>b, <6>1, NoneAssumption
        <5> QED BY <5>1
      <4>2. CASE ~Missed(routed)
        <5>1. /\ ~overlap /\ ~torn /\ tcp[d] # "rst" /\ ~Shared(d)
              /\ requestId[forwarded[routed].thread] = forwarded[routed].id
          BY <4>2 DEF Missed
        <5>2. forwarded[routed].thread = d /\ sock[d] # None /\ d \in Conns
          BY <1>e, <3>1, <5>1 DEF Shared
        <5>3. PICK i \in 1 .. Len(clientList) : clientList[i] = d
          BY <1>a, <5>1, <5>2 DEF ListInv
        <5>4. i < scanAt
          BY <1>b, <4>1
        <5> QED BY <1>a, <3>1, <5>1, <5>2, <5>3, <5>4 DEF ScanInv, WantedId
      <4> QED BY <1>f, <3>1, <4>2 DEF Missed
    <3> QED BY <2>2, <3>2, <3>3
  <2>3. CASE ReplyRecv \/ ReplyEnd \/ ScanNext \/ SendReply
    BY <2>3 DEF ReplyRecv, ReplyEnd, ScanNext, SendReply, ReplyGoto
  <2> QED BY <2>1, <2>2, <2>3, ReplySteps DEF ReplyThread
<1>4. outcome' = outcome \/ SendReply
  BY ReplySteps DEF replyVars, ReplyThread, ReplyRecv, ReplyEnd, ScanNext, ScanEnd, ScanTorn
<1>5. ASSUME NEW k \in 1 .. Len(outcome)
      PROVE  /\ outcome[k] = Dropped => Missed(k)'
             /\ outcome[k] = None => Unsent(k)'
  <2>1. k \in 1 .. Len(forwarded)
    BY <1>d
  <2>2. outcome[k] = Dropped => Missed(k)
    BY <1>a DEF LossHasACause, Missed, Shared
  <2>3. outcome[k] = None => Unsent(k)
    BY <1>a DEF FailedSendHasACause, Unsent, Shared
  <2> QED BY <1>f, <2>1, <2>2, <2>3
<1>6. ASSUME SendReply
      PROVE  LET o == IF target = None THEN Dropped ELSE Receiver(target) IN
             /\ o = Dropped => Missed(routed)'
             /\ o = None => Unsent(routed)'
  <2> DEFINE o == IF target = None THEN Dropped ELSE Receiver(target)
             d == forwarded[routed].from
  <2>1. replyPc = "send" /\ routed \in 1 .. Len(forwarded)
    BY <1>c, <1>6 DEF SendReply, ReplyGoto
  <2> HIDE DEF o
  <2>2. ASSUME o = Dropped PROVE Missed(routed)
    <3>1. target = None
      BY <1>b, <2>2, DroppedAssumption DEF o, Receiver
    <3> QED BY <1>a, <2>1, <3>1 DEF MissInv
  <2>3. ASSUME o = None, ~Unsent(routed) PROVE FALSE
    <3>1. /\ ~overlap /\ forwarded[routed].id # 0 /\ tcp[d] = "open"
          /\ pc[forwarded[routed].thread] # "done" /\ ~Shared(d)
      BY <2>3 DEF Unsent
    <3>2. forwarded[routed].thread = d /\ sock[d] # None /\ d \in Conns
      BY <1>e, <2>1, <3>1 DEF Shared
    <3>3. target # None /\ target \in Conns
      BY <1>b, <2>3, DroppedAssumption DEF o
    <3>4. target = d
      BY <2>1, <3>1, <3>2, <3>3 DEF RouteInv, TargetAsked
    <3>5. owner[sock[d]] = d
      BY <1>a, <3>1, <3>2 DEF HandleInv
    <3>6. Receiver(d) = d
      BY <3>1, <3>2, <3>5 DEF Receiver
    <3> QED BY <2>3, <3>2, <3>3, <3>4, <3>6, NoneAssumption DEF o
  <2>4. (o = Dropped => Missed(routed)') /\ (o = None => Unsent(routed)')
    BY <1>6, <1>f, <2>1, <2>2, <2>3 DEF SendReply, Missed, Unsent
  <2> QED BY <2>4 DEF o
<1>7. ASSUME NEW k \in 1 .. Len(outcome')
      PROVE  /\ outcome'[k] = Dropped => Missed(k)'
             /\ outcome'[k] = None => Unsent(k)'
  <2>1. CASE outcome' = outcome
    BY <1>5, <2>1
  <2>2. CASE SendReply
    <3> DEFINE o == IF target = None THEN Dropped ELSE Receiver(target)
    <3>1. outcome' = Append(outcome, o) /\ routed = Len(outcome) + 1 /\ routed' = routed
      BY <1>c, <2>2 DEF SendReply, ReplyGoto
    <3>2. (o = Dropped => Missed(routed)') /\ (o = None => Unsent(routed)')
      BY <1>6, <2>2
    <3> HIDE DEF o
    <3>3. CASE k \in 1 .. Len(outcome)
      <4>1. outcome'[k] = outcome[k]
        BY <1>b, <3>1, <3>3
      <4> QED BY <1>5, <3>3, <4>1
    <3>4. CASE k \notin 1 .. Len(outcome)
      <4>1. k = routed /\ outcome'[k] = o
        BY <1>b, <3>1, <3>4
      <4> QED BY <3>1, <3>2, <4>1 DEF Missed, Unsent
    <3> QED BY <3>3, <3>4
  <2> QED BY <1>4, <2>1, <2>2
<1>8. LossHasACause' /\ FailedSendHasACause'
  BY <1>7 DEF LossHasACause, FailedSendHasACause, Missed, Unsent, Shared
<1> QED BY <1>1, <1>2, <1>3, <1>8 DEF CauseInv

\* An answer finds no Client only for the causes LossHasACause names.
THEOREM LossesHaveACause == Spec => []LossHasACause
<1>1. CauseInv => LossHasACause
  BY DEF CauseInv
<1> QED
  BY <1>1, TypeInit, TypeStep, IdInit, IdPreserved, RouteInit, RoutePreserved,
     CauseInit, CausePreserved, PTL DEF Spec

\* A reply fails to be sent only for the causes FailedSendHasACause names.
THEOREM FailedSendsHaveACause == Spec => []FailedSendHasACause
<1>1. CauseInv => FailedSendHasACause
  BY DEF CauseInv
<1> QED
  BY <1>1, TypeInit, TypeStep, IdInit, IdPreserved, RouteInit, RoutePreserved,
     CauseInit, CausePreserved, PTL DEF Spec
=============================================================================
