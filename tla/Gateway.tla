------------------------------ MODULE Gateway ------------------------------
(***************************************************************************)
(* The gateway (Server/Server.cpp): one accept thread, one receive thread  *)
(* per client connection and one reply thread share, without a lock, the   *)
(* vector clientList, the counter clientRequestId and the requestId field  *)
(* of every Client object.  A receive thread stamps a request with the     *)
(* counter, notes the stamp in its Client and passes the request on to the *)
(* authentication server; the reply thread takes the answer and looks for  *)
(* the first Client in clientList that carries the answer's id.            *)
(*                                                                         *)
(* A connection, the Client object accept creates for it and the receive   *)
(* thread of that Client have the same name c \in Conns.  SOCKET values    *)
(* are handles: a Client keeps its handle for good, while the operating    *)
(* system gives a handle that was closed to a later connection.            *)
(***************************************************************************)
EXTENDS Integers, Sequences

CONSTANTS
  Conns,      \* client connections; each is accepted at most once
  Handles,    \* SOCKET values accept may return
  MaxSends,   \* MaxSends[c]: how many request frames the peer of c sends
  Faults,     \* which of "short" reads and loss of "auth" may happen
  StartIds,   \* values the uninitialised clientRequestId may start with
  None,       \* no connection, no handle, no Client (nullptr)
  Dropped     \* outcome of a reply for which no Client was found

ASSUME MaxSendsAssumption == MaxSends \in [Conns -> Nat]
ASSUME StartIdsAssumption == StartIds \subseteq Int
ASSUME NoneAssumption     == None \notin Conns /\ None \notin Handles
ASSUME DroppedAssumption  == Dropped \notin Conns /\ Dropped # None

VARIABLES
  tcp,             \* tcp[c]: the peer's side: "idle", "open", "fin" or "rst"
  sent,            \* sent[c]: frames the peer has sent on connection c
  read,            \* read[c]: frames of c some receive thread has consumed
  owner,           \* owner[h]: the connection handle h names now, or None
  sock,            \* sock[c]: Client::clientSocket, never cleared
  clientList,      \* Server::clientList
  requestId,       \* requestId[c]: Client::requestId
  clientRequestId, \* Server::clientRequestId
  pc,              \* pc[c]: where receive thread c stands
  hold,            \* hold[c]: the request receive thread c is handling
  loaded,          \* loaded[c]: the value clientRequestId++ has read
  forwarded,       \* every request sent to the authentication server
  answered,        \* how many of them the authentication server answered
  routed,          \* how many answers the reply thread has taken
  replyPc,         \* the reply thread: "recv", "scan", "send" or "done"
  scanAt,          \* the position GetClientWithRequestID looks at
  target,          \* the Client it returned, or None
  outcome,         \* outcome[k]: what became of the answer to forwarded[k]
  authUp,          \* the connection to the authentication server is alive
  up,              \* the process has not crashed
  overlap,         \* history: two threads were between stamp and store
  torn             \* history: two threads used clientList at once, one to write

envVars   == <<tcp, sent, answered, authUp>>
sockVars  == <<read, owner, sock>>
listVars  == <<clientList, torn>>
idVars    == <<requestId, clientRequestId, loaded, overlap>>
recvVars  == <<sockVars, listVars, idVars, pc, hold, forwarded>>
replyVars == <<routed, replyPc, scanAt, target, outcome>>
vars      == <<envVars, recvVars, replyVars, up>>

Frame   == [from : Conns, seq : Nat, id : Int]
Request == [from : Conns, seq : Nat, id : Int, thread : Conns]

\* Between the first read of clientRequestId and the write of its increment.
Critical == {"remember", "forward", "load", "store"}
ThreadPc == {"none", "recv", "stamp", "erase", "trim", "close", "done"} \cup Critical

\* The type invariant; a thread stamps and forwards only with a request in
\* hand, and no more answers are taken than were given.
TypeOK ==
  /\ tcp \in [Conns -> {"idle", "open", "fin", "rst"}]
  /\ sent \in [Conns -> Nat]
  /\ read \in [Conns -> Nat]
  /\ owner \in [Handles -> Conns \cup {None}]
  /\ sock \in [Conns -> Handles \cup {None}]
  /\ clientList \in Seq(Conns)
  /\ requestId \in [Conns -> Int]
  /\ clientRequestId \in Int
  /\ pc \in [Conns -> ThreadPc]
  /\ hold \in [Conns -> Frame \cup {None}]
  /\ loaded \in [Conns -> Int]
  /\ forwarded \in Seq(Request)
  /\ answered \in 0 .. Len(forwarded)
  /\ routed \in 0 .. answered
  /\ replyPc \in {"recv", "scan", "send", "done"}
  /\ scanAt \in Nat \ {0}
  /\ target \in Conns \cup {None}
  /\ outcome \in Seq(Conns \cup {None, Dropped})
  /\ authUp \in BOOLEAN /\ up \in BOOLEAN
  /\ overlap \in BOOLEAN /\ torn \in BOOLEAN

Init ==
  /\ tcp = [c \in Conns |-> "idle"]
  /\ sent = [c \in Conns |-> 0]
  /\ read = [c \in Conns |-> 0]
  /\ owner = [h \in Handles |-> None]
  /\ sock = [c \in Conns |-> None]
  /\ clientList = <<>>
  /\ requestId = [c \in Conns |-> 0]
  /\ clientRequestId \in StartIds
  /\ pc = [c \in Conns |-> "none"]
  /\ hold = [c \in Conns |-> None]
  /\ loaded = [c \in Conns |-> 0]
  /\ forwarded = <<>>
  /\ answered = 0
  /\ routed = 0
  /\ replyPc = "recv"
  /\ scanAt = 1
  /\ target = None
  /\ outcome = <<>>
  /\ authUp = TRUE /\ up = TRUE
  /\ overlap = FALSE /\ torn = FALSE
-----------------------------------------------------------------------------
(* The peers.  A reset discards the frames the gateway has not yet read.   *)
(* What the other side does after the process has crashed is of no matter. *)

PeerSend(c) ==
  /\ up /\ tcp[c] = "open" /\ sent[c] < MaxSends[c]
  /\ sent' = [sent EXCEPT ![c] = @ + 1]
  /\ UNCHANGED <<tcp, answered, authUp, recvVars, replyVars, up>>

PeerStop(c, how) ==
  /\ up /\ tcp[c] = "open"
  /\ tcp' = [tcp EXCEPT ![c] = how]
  /\ UNCHANGED <<sent, answered, authUp, recvVars, replyVars, up>>

PeerClose(c) == PeerStop(c, "fin")
PeerReset(c) == PeerStop(c, "rst")
-----------------------------------------------------------------------------
(* The accept thread.                                                      *)

\* Another thread is inside clientList while c starts to write it.
ListBusy(c) == replyPc = "scan" \/ \E d \in Conns \ {c} : pc[d] = "trim"

\* What a write of clientList leaves when it may have raced: the intended
\* list or, once two threads have met there, possibly the old one.
ListWrite(c, list) ==
  /\ torn' = (torn \/ ListBusy(c))
  /\ \/ clientList' = list
     \/ torn' /\ clientList' = clientList

Accept(c, h) ==
  /\ up /\ tcp[c] = "idle" /\ owner[h] = None
  /\ tcp' = [tcp EXCEPT ![c] = "open"]
  /\ owner' = [owner EXCEPT ![h] = c]
  /\ sock' = [sock EXCEPT ![c] = h]
  /\ ListWrite(c, Append(clientList, c))
  /\ pc' = [pc EXCEPT ![c] = "recv"]
  /\ UNCHANGED <<sent, answered, authUp, read, idVars, hold, forwarded, replyVars, up>>
-----------------------------------------------------------------------------
(* Receive thread c.  It reads from whatever connection its handle names.  *)

Goto(c, from, to) ==
  /\ up /\ pc[c] = from
  /\ pc' = [pc EXCEPT ![c] = to]
  /\ UNCHANGED <<envVars, replyVars, up>>

Unread(d) == d \in Conns /\ tcp[d] # "rst" /\ read[d] < sent[d]

\* Mutant: the frame stays unread.
RecvFrameAgain(c) ==
  LET d == owner[sock[c]] IN
  /\ Goto(c, "recv", "stamp")
  /\ Unread(d)
  /\ hold' = [hold EXCEPT ![c] = [from |-> d, seq |-> read[d] + 1, id |-> 0]]
  /\ UNCHANGED <<sockVars, listVars, idVars, forwarded>>

\* recv of the length and recv of the whole payload succeed.
RecvFrame(c) ==
  LET d == owner[sock[c]] IN
  /\ Goto(c, "recv", "stamp")
  /\ Unread(d)
  /\ read' = [read EXCEPT ![d] = @ + 1]
  /\ hold' = [hold EXCEPT ![c] = [from |-> d, seq |-> read[d] + 1, id |-> 0]]
  /\ UNCHANGED <<owner, sock, listVars, idVars, forwarded>>

\* A segment boundary inside the frame: recv returns less than was asked for.
RecvShort(c) ==
  LET d == owner[sock[c]] IN
  /\ "short" \in Faults
  /\ Goto(c, "recv", "close")
  /\ Unread(d)
  /\ read' = [read EXCEPT ![d] = @ + 1]
  /\ UNCHANGED <<owner, sock, listVars, idVars, hold, forwarded>>

\* Mutant: a failed recv does not leave the loop.
RecvEndSpins(c) ==
  LET d == owner[sock[c]] IN
  /\ Goto(c, "recv", "recv")
  /\ d # None => tcp[d] = "rst" \/ (tcp[d] = "fin" /\ ~Unread(d))
  /\ UNCHANGED <<sockVars, listVars, idVars, hold, forwarded>>

\* recv of the length fails: end of stream, a reset, or a closed handle.
RecvEnd(c) ==
  LET d == owner[sock[c]] IN
  /\ Goto(c, "recv", "close")
  /\ d # None => tcp[d] = "rst" \/ (tcp[d] = "fin" /\ ~Unread(d))
  /\ UNCHANGED <<sockVars, listVars, idVars, hold, forwarded>>

\* The reset arrives between the length and the payload: the socket is
\* closed at once, the list entry comes next.
RecvReset(c) ==
  LET d == owner[sock[c]] IN
  /\ Goto(c, "recv", "erase")
  /\ d \in Conns /\ tcp[d] = "rst" /\ read[d] < sent[d]
  /\ read' = [read EXCEPT ![d] = @ + 1]
  /\ owner' = [owner EXCEPT ![sock[c]] = None]
  /\ UNCHANGED <<sock, listVars, idVars, hold, forwarded>>

\* Mutant: the entry at the front goes, whoever it belongs to.
WithoutFront(list, c) == IF list = <<>> THEN list ELSE Tail(list)

\* Each Client is pushed once, so one entry goes, if any.
Without(list, c) ==
  IF \E i \in 1 .. Len(list) : list[i] = c
  THEN LET at == CHOOSE i \in 1 .. Len(list) : list[i] = c
       IN  [i \in 1 .. Len(list) - 1 |-> IF i < at THEN list[i] ELSE list[i + 1]]
  ELSE list

\* clientList.erase(std::remove(...)): begins, and ends with the list changed.
EraseBegin(c) ==
  /\ Goto(c, "erase", "trim")
  /\ torn' = (torn \/ ListBusy(c))
  /\ UNCHANGED <<sockVars, clientList, idVars, hold, forwarded>>

EraseEnd(c) ==
  /\ Goto(c, "trim", "close")
  /\ ListWrite(c, Without(clientList, c))
  /\ UNCHANGED <<sockVars, idVars, hold, forwarded>>

\* Mutant: the loop goes on with a closed socket.
CloseAndGoOn(c) ==
  /\ Goto(c, "close", "recv")
  /\ owner' = [owner EXCEPT ![sock[c]] = None]
  /\ UNCHANGED <<read, sock, listVars, idVars, hold, forwarded>>

\* The closesocket after the loop; after RecvReset it is the second one.
Close(c) ==
  /\ Goto(c, "close", "done")
  /\ owner' = [owner EXCEPT ![sock[c]] = None]
  /\ UNCHANGED <<read, sock, listVars, idVars, hold, forwarded>>

\* set_request_id(clientRequestId)
Stamp(c) ==
  /\ Goto(c, "stamp", "remember")
  /\ hold' = [hold EXCEPT ![c].id = clientRequestId]
  /\ overlap' = (overlap \/ \E d \in Conns \ {c} : pc[d] \in Critical)
  /\ UNCHANGED <<sockVars, listVars, requestId, clientRequestId, loaded, forwarded>>

\* client->requestId = clientRequestId reads the counter a second time.
Remember(c) ==
  /\ Goto(c, "remember", "forward")
  /\ requestId' = [requestId EXCEPT ![c] = clientRequestId]
  /\ UNCHANGED <<sockVars, listVars, clientRequestId, loaded, overlap, hold, forwarded>>

\* SendMessageToAuthenticateServer; the result of send is not looked at.
Forward(c) ==
  /\ Goto(c, "forward", "load")
  /\ forwarded' = IF authUp
                  THEN Append(forwarded, [from |-> hold[c].from, seq |-> hold[c].seq,
                                          id |-> hold[c].id, thread |-> c])
                  ELSE forwarded
  /\ UNCHANGED <<sockVars, listVars, idVars, hold>>

\* clientRequestId++ on a plain int: a read, then a write.  The locals of
\* the turn end with it.
Load(c) ==
  /\ Goto(c, "load", "store")
  /\ loaded' = [loaded EXCEPT ![c] = clientRequestId]
  /\ UNCHANGED <<sockVars, listVars, requestId, clientRequestId, overlap, hold,
                 forwarded>>

\* Mutant: the counter starts over at 0.
StoreWraps(c) ==
  /\ Goto(c, "store", "recv")
  /\ clientRequestId' = (loaded[c] + 1) % 2
  /\ UNCHANGED <<sockVars, listVars, requestId, loaded, overlap, hold, forwarded>>

Store(c) ==
  /\ Goto(c, "store", "recv")
  /\ clientRequestId' = loaded[c] + 1
  /\ loaded' = [loaded EXCEPT ![c] = 0]
  /\ hold' = [hold EXCEPT ![c] = None]
  /\ UNCHANGED <<sockVars, listVars, requestId, overlap, forwarded>>
-----------------------------------------------------------------------------
(* The authentication server, seen from its connection: it answers the     *)
(* requests one by one in the order they arrive, until it goes away.       *)

AuthAnswer ==
  /\ up /\ authUp /\ answered < Len(forwarded)
  /\ answered' = answered + 1
  /\ UNCHANGED <<tcp, sent, authUp, recvVars, replyVars, up>>

AuthDown ==
  /\ "auth" \in Faults
  /\ up /\ authUp /\ authUp' = FALSE
  /\ UNCHANGED <<tcp, sent, answered, recvVars, replyVars, up>>
-----------------------------------------------------------------------------
(* The reply thread, ReceiveMessagesFromAuthenticateServer.                *)

\* Mutant: the switch has no case for the answer, nothing is sent.
ReplyIgnored(from, to) ==
  up /\ replyPc = from /\ UNCHANGED <<replyPc, envVars, up>>

ReplyGoto(from, to) ==
  up /\ replyPc = from /\ replyPc' = to /\ UNCHANGED <<envVars, up>>

ReplyRecv ==
  /\ ReplyGoto("recv", "scan")
  /\ routed < answered
  /\ routed' = routed + 1
  /\ torn' = (torn \/ \E d \in Conns : pc[d] = "trim")
  /\ UNCHANGED <<sockVars, clientList, idVars, pc, hold, forwarded, scanAt,
                 target, outcome>>

\* recv returns too little, once: the loop is left and never entered again.
ReplyEnd ==
  /\ ReplyGoto("recv", "done")
  /\ ("short" \in Faults /\ routed < answered) \/ ~authUp
  /\ UNCHANGED <<recvVars, routed, scanAt, target, outcome>>

\* Mutant: the id is not that of the answer in hand.
WantedNewestId == forwarded[answered].id

WantedId == forwarded[routed].id

\* The loop of GetClientWithRequestID, one entry at a time.
ScanNext ==
  /\ ReplyGoto("scan", "scan")
  /\ scanAt <= Len(clientList) /\ requestId[clientList[scanAt]] # WantedId
  /\ scanAt' = scanAt + 1
  /\ UNCHANGED <<recvVars, routed, target, outcome>>

ScanEnd ==
  /\ ReplyGoto("scan", "send")
  /\ IF scanAt > Len(clientList) THEN UNCHANGED target
     ELSE requestId[clientList[scanAt]] = WantedId /\ target' = clientList[scanAt]
  /\ UNCHANGED <<recvVars, routed, scanAt, outcome>>

\* The vector moved under the loop: a match may be missed, or found in
\* memory that no longer belongs to the list.
ScanTorn ==
  /\ torn
  /\ ReplyGoto("scan", "send")
  /\ target' \in {c \in Conns : sock[c] # None /\ requestId[c] = WantedId} \cup {None}
  /\ UNCHANGED <<recvVars, routed, scanAt, outcome>>

\* Mutant: the SOCKET value is taken for the Client.
ReceiverHandle(c) == sock[c]

\* SendMessagestoClient: a null Client is only reported, and the result of
\* send is not looked at.
Receiver(c) ==
  LET d == owner[sock[c]] IN IF d \in Conns /\ tcp[d] # "rst" THEN d ELSE None

SendReply ==
  /\ ReplyGoto("send", "recv")
  /\ outcome' = Append(outcome, IF target = None THEN Dropped ELSE Receiver(target))
  /\ scanAt' = 1 /\ target' = None
  /\ UNCHANGED <<recvVars, routed>>

\* Undefined behaviour on the vector may end the process.
Crash ==
  /\ torn /\ up /\ up' = FALSE
  /\ UNCHANGED <<envVars, recvVars, replyVars>>
-----------------------------------------------------------------------------
Peer(c) == PeerSend(c) \/ PeerClose(c) \/ PeerReset(c)

ReceiveThread(c) ==
  \/ RecvFrame(c) \/ RecvShort(c) \/ RecvEnd(c) \/ RecvReset(c)
  \/ EraseBegin(c) \/ EraseEnd(c) \/ Close(c)
  \/ Stamp(c) \/ Remember(c) \/ Forward(c) \/ Load(c) \/ Store(c)

ReplyThread == ReplyRecv \/ ReplyEnd \/ ScanNext \/ ScanEnd \/ ScanTorn \/ SendReply

Next ==
  \/ \E c \in Conns : Peer(c) \/ ReceiveThread(c)
  \/ \E c \in Conns, h \in Handles : Accept(c, h)
  \/ AuthAnswer \/ AuthDown \/ ReplyThread \/ Crash

Spec == Init /\ [][Next]_vars

\* The operating system runs every thread of the process, and the
\* authentication server works while its connection is up.  Nothing makes a
\* peer act, a connection end or a process crash.
Fairness ==
  /\ \A c \in Conns : WF_vars(ReceiveThread(c))
  /\ WF_vars(ReplyThread)
  /\ WF_vars(AuthAnswer)

FairSpec == Spec /\ Fairness
-----------------------------------------------------------------------------
Delivered(k) == outcome[k] \in Conns

\* A reply reaches the connection whose request it answers.  It may only go
\* astray if two threads were stamping at once (Server.cpp:256-279 takes no
\* lock), if its id is 0, which every Client that has not sent anything yet
\* carries (new Client() at 309), or to a connection that was given the same
\* SOCKET value, because entries are not removed from clientList (235, 304).
ReplyReachesRequester ==
  \A k \in 1 .. Len(outcome) :
    Delivered(k) =>
      \/ outcome[k] = forwarded[k].from
      \/ overlap
      \/ forwarded[k].id = 0
      \/ sock[outcome[k]] = sock[forwarded[k].from]

\* Two requests carry the same request_id only if their threads were between
\* the read at 256 and the increment at 264 at the same time.
IdsUnique ==
  \A j, k \in 1 .. Len(forwarded) :
    forwarded[j].id = forwarded[k].id => j = k \/ overlap

\* Only such an overlap may move the counter backwards (a store of a value
\* loaded before another thread's stores), so that ids are issued again.
CounterNeverGoesBack ==
  [][clientRequestId' >= clientRequestId \/ overlap]_vars

\* GetClientWithRequestID finds nobody for an answer only when the Client
\* that asked has asked again since (260, 276 overwrite requestId), was
\* erased (224) because the connection it read from was reset, or the list
\* or the counter was raced on.
LossHasACause ==
  \A k \in 1 .. Len(outcome) :
    outcome[k] = Dropped =>
      LET d == forwarded[k].from
          t == forwarded[k].thread IN
      \/ overlap \/ torn
      \/ requestId[t] # forwarded[k].id
      \/ tcp[d] = "rst" \/ \E e \in Conns \ {d} : sock[e] = sock[d]

\* A reply cannot be written (336) to a connection whose peer is still there
\* only when the gateway itself has given that connection up, or when the
\* handle was shared and another thread's second closesocket closed it.
FailedSendHasACause ==
  \A k \in 1 .. Len(outcome) :
    outcome[k] = None =>
      LET d == forwarded[k].from
          t == forwarded[k].thread IN
      \/ overlap \/ forwarded[k].id = 0
      \/ tcp[d] # "open" \/ pc[t] = "done"
      \/ \E e \in Conns \ {d} : sock[e] = sock[d]

\* Requests of one connection are forwarded in the order they were sent,
\* unless a stale thread reads from the same handle.
ForwardKeepsOrder ==
  \A j, k \in 1 .. Len(forwarded) :
    j < k /\ forwarded[j].from = forwarded[k].from =>
      \/ forwarded[j].seq < forwarded[k].seq
      \/ \E e \in Conns : e # forwarded[k].from /\ sock[e] = sock[forwarded[k].from]

\* What the message " Client disconnected .." (322) says of a null Client:
\* an answer finds no Client only if its requester's connection is over.
DroppedMeansDisconnected ==
  \A k \in 1 .. Len(outcome) :
    outcome[k] = Dropped => tcp[forwarded[k].from] # "open"

IsRequest(k, c, s) == forwarded[k].from = c /\ forwarded[k].seq = s

\* Every forwarded request comes to an outcome, unless the authentication
\* server is lost, the reply thread has left its loop (373-386) or the
\* process has crashed.
EveryRequestSettles ==
  \A c \in Conns : \A s \in 1 .. MaxSends[c] :
    (\E k \in 1 .. Len(forwarded) : IsRequest(k, c, s)) ~>
      \/ \E k \in 1 .. Len(outcome) : IsRequest(k, c, s)
      \/ ~authUp \/ replyPc = "done" \/ ~up

\* When the peer is gone its receive thread leaves the loop and closes the
\* socket, unless the handle meanwhile names another connection.
GoneClientIsClosed ==
  \A c \in Conns :
    tcp[c] \in {"fin", "rst"} ~>
      \/ pc[c] = "done" \/ ~up
      \/ \E e \in Conns \ {c} : sock[e] = sock[c]
=============================================================================
