# Verification project: a gateway and an authentication server

TLA+ models, TLC runs and TLAPS proofs for the three programs of this
repository: a console **client**, a **gateway** that clients connect to, and an
**authentication server** with a MySQL database behind it. Paths below are
relative to the repository's root.

## 1. The system

```
 client 1 ──TCP 27015──┐                                     ┌── gdp.web_auth
 client 2 ─────────────┤ gateway ──TCP 5001── auth. server ──┤
 client 3 ─────────────┘ (Server/)            (Server2/)     └── gdp.user
 (src/Client.cpp)
```

Every message is a protobuf `MessageAndCommand` behind a four-byte length.
A client sends REGISTER or AUTHENTICATE with an email and a password. The
gateway stamps the request with a number, remembers the number in its record
of the client, and passes the request on. The authentication server creates
the account or checks the password and answers with the same number, by which
the gateway finds the client the answer is for.

| Component | State | Operations | Hard behaviour |
|---|---|---|---|
| Gateway, `Server/Server.cpp` | `clientList`, `clientRequestId` (never initialised), `Client::requestId`, one socket per client | accept; receive, stamp, remember, forward, count; erase and close; take an answer, look its client up, send | one thread per client, an accept thread and a reply thread share all of it without a lock; sockets are closed twice and their numbers reused; results of `send` are ignored; any short read ends a loop |
| Authentication server, `Server2/AuthenticateServer.cpp` | one `SHA256` object, the database layer, the locals of a turn (`userId` uninitialised) | register; authenticate; reply | one thread per connection; results of database calls ignored; a crash between the statements of a registration |
| Database layer, `Server2/MySQLUtil.cpp` | one connection, one prepared statement per query, its bound parameters | AddAccount, AddNewUser, UpdateUserID, AuthenticateAccount, UpdateLastLogin | parameters are bound one call at a time on objects all threads share; `LAST_INSERT_ID()` belongs to the connection; statements fail |
| SHA-256, `Server2/sha256.cpp` | hash value, 64-byte buffer, two counters | reset, add, getHash | block and padding boundaries; hashes taken in mid-message |
| Client, `src/Client.cpp` | a socket, a sending and a receiving thread | read a command, send; receive, print | never waits for a reply; spins on a dead connection; an unknown word sends an empty frame |
| Wire format | bytes in flight | send and receive of length and payload | TCP splits frames anywhere; two of the four readers go on after a short read |
| Start-up and shut-down | sockets, the database connection | Initialize, ConnectToDatabase, ServerClose | failures on the way; shut-down code that is never reached |
| MySQLProject | — | — | an early stand-alone trial of the connector; not part of the system |

`include/` is vendored protobuf and MySQL Connector/C++, `Shared/authentication.pb.*`
is generated; neither is modelled.

What makes each part correct, in words; the properties are in the modules:

* **Gateway.** A reply reaches the client that asked, and only that one. Ids
  tell requests apart. A reply is lost, or written to nobody, only for a reason
  the code knows of. Every request that was forwarded comes to an outcome, and
  the socket of a client that is gone is closed.
* **Authentication server.** Whoever is let in gave the password of the account
  named; an account reported as created opens with its password; the ids and
  dates told are those stored; every account has a user of its own.
* **SHA-256.** A hash depends on the message alone, not on how it was cut into
  pieces or on what the object did before.
* **Client.** What a screen shows answers what was typed there; a success told to
  a user who waits is about the command he typed last, and true; accounts come
  from commands.
* **Wire format.** A reader handles the messages that were sent, in order, each
  once, and notices when its peer is gone.
* **Start-up.** Nobody talks to a program that started half; nobody waits for one
  that will never accept.
* **All together.** Seen from the keyboards, three programs and their connections
  behave as one register of accounts would.

## 2. Modules

| Module | What it is |
|---|---|
| `Gateway` | the gateway, every access to shared state a step of its own |
| `MCGateway` | model values and bounds for its runs |
| `GatewayProofs` | inductive invariants and seven theorems about `Gateway` |
| `Framing`, `MCFraming` | one direction of a connection: bytes, segments and the two kinds of reader; payloads for its run |
| `FramingProofs` | that a length survives `htonl` and `ntohl`, the invariant of `Framing` and four theorems |
| `Session`, `MCSession` | the composition: clients, the gateway's bookkeeping and `Registry`, from keyboard to screen; bounds for its runs |
| `SessionProofs` | the invariant of `Session`, and the proof that the whole implements `Registry` again |
| `Startup`, `MCStartup` | `main` and `Initialize` of the three programs; processes for its run |
| `StartupProofs` | the invariant of `Startup` and two theorems |
| `AuthServer` | the authentication server and its database layer, every database call a step |
| `AuthServerProofs` | its invariant and seven theorems |
| `Registry` | abstract specification: a register of accounts in which a request takes effect at once |
| `RegistryProofs` | the register's guarantees, proved |
| `AuthRefinement` | the refinement mapping from `AuthServer` to `Registry` |
| `AuthRefinementProofs` | the proof that it is one |
| `MCAuthServer` | model values and bounds |
| `Sha256`, `MCSha256` | the buffer of the SHA-256 object; pieces for its run |
| `Sha256Proofs` | the arithmetic of blocks and padding, and two theorems |

```
        Session ──extends──► Registry ◄──INSTANCE── AuthRefinement ──extends──► AuthServer
           └───INSTANCE (Desk)──►┘                                              (crashes, statements,
   Gateway (threads, handles)    Framing (bytes)    Startup (processes)          shared objects)
```

Each of `Gateway`, `AuthServer` and `Framing` looks into a step or a channel that
`Session` takes as one: a frame is handled at once, a request is decided at
once, a message arrives whole. What can go wrong below that level is in their
properties.

Operators commented `Mutant of ...` or `Mutant: ...` are plausible bugs.
No specification uses them; putting one in the place of the definition it
stands next to makes TLC refute a property, which shows that the property
depends on that line of the code.

### Gateway

A connection, its `Client` object and its receive thread share one name in
`Conns`. A `SOCKET` is a member of `Handles`: `owner[h]` is the connection the
operating system means by it now, `sock[c]` the one a `Client` keeps for good.
So a `closesocket` followed by an accept can give a later connection the handle
of an older one, whose `Client` is still in `clientList`.

| Actions | Code |
|---|---|
| `Accept` | accept, `new Client`, `push_back` (Server.cpp 172-192, 307-316) |
| `RecvFrame`, `RecvShort`, `RecvEnd`, `RecvReset` | the two `recv` calls and their outcomes (201-246) |
| `Stamp`, `Remember`, `Forward`, `Load`, `Store` | `set_request_id`, `requestId =`, `send`, and the read and the write of `clientRequestId++` (256-264, 272-279) |
| `EraseBegin`, `EraseEnd`, `Close` | `erase(remove(...))` (224) and the `closesocket` calls (222, 304) |
| `ReplyRecv`, `ScanNext`, `ScanEnd`, `ScanTorn`, `SendReply`, `ReplyEnd` | the reply thread and `GetClientWithRequestID` (318-338, 355-452) |
| `PeerSend`, `PeerClose`, `PeerReset`, `AuthAnswer`, `AuthDown` | the programs at the other ends |

CREATE_ACCOUNT and AUTHENTICATE take the same path through the gateway and are
not told apart; the same holds for the four kinds of answer. A client never
sends another command (Client.cpp 242-267).

Two threads inside `clientList` at once are undefined behaviour. The history
variable `torn` records it; from then on a write may be lost, a scan may miss
its entry or find a `Client` that is no longer in the list, and the process may
crash (`Crash`). `overlap` records that two threads were between stamp and
store at once. The properties use both, and only to say when they do not hold.
`clientRequestId` starts with any value of `StartIds`, as it is never
initialised.

### AuthServer

A thread moves through `pc[t]`, one step per database call and one per bound
parameter. `create`, `update`, `login`, `touch` and `creation` are the
parameters bound to the five shared statements that have any. `HashBegin` and
`HashEnd` delimit the use of the shared `SHA256` object: a thread that comes
in between turns both hashes into `Garbage`, or not. `webAuth` and `users` are
the tables; email is the key of `web_auth`, and ids of `user` count up. `Crash`
loses everything but the tables. A failing statement throws before or after
the database has done its work.

The histories `mixed`, `garbled` and `failed` hold the *emails* of the requests
that overlapped on a statement, overlapped on the hash object, or were cut short
by a failure. A property may excuse an email in one of these sets, not the rest
of the system: a race between two requests must not affect a third.

Salts and hashes are named by what they were made from; that
neither repeats is an assumption. Times are left out: a creation date is named
by its user.

### Registry and AuthRefinement

`Registry` is what a caller would like to see: `Create`, `RefuseDuplicate`,
`Login` and `RefuseLogin` each answer a pending request and change the accounts
in one step. `AuthRefinement` maps the server's state to it: a row counts as an
account from the moment its creation is answered. With one connection and no
failure this is a refinement. With two it is not, which is what the excuses of
`AuthServer`'s properties are about.

### Sha256

`hashed` is the sequence of bytes `processBlock` has been given, in place of
`m_hash`; a hash is the sequence of all bytes it was computed from, so that two
hashes are equal only if they were computed from the same blocks. Bytes of the
stack or of an earlier message are `Junk`. `BlockSize` and `LengthSize` are 64
and 8 in the run.

### Framing

`stream` is every byte sent in one direction, `arrived` how many the network has
delivered, `pos` how many the reader has read. Header and payload are built and
read back byte by byte, as `htonl` and `ntohl` do, so that a reader out of step
takes payload for a length and gets whatever number that makes.

| Definitions | Code |
|---|---|
| `Header`, `SendFrame` | one `send` of length and payload (Client.cpp 269-277, AuthenticateServer.cpp 331-349) |
| `Power`, `ValueOf`, `Signed`, `LengthOf`, `Throws`, `RecvLength` | `ntohl` into an `int`, and the vector of that size (Server.cpp 201-212, AuthenticateServer.cpp 147-157) |
| `RecvPayload` | the second `recv` (AuthenticateServer.cpp 158-166) |
| `RecvShort`, `RecvEnd`, `AfterFailure` | what a reader does about any other result: the gateway leaves its loop (Server.cpp 373-387), the server and the client go on (AuthenticateServer.cpp 149, 160, Client.cpp 125, 136) |
| `Arrive`, `PeerStop` | the network and the other end |

`cuts` is a history: the places where a `recv` ended short. The properties use
it to say from where on the second kind of reader may be out of step.

### Session

| Actions | Code |
|---|---|
| `Type`, `SendFails` | `SendToServer`: prompt, read, build, send (Client.cpp 227-287) |
| `Show` | `ReceiveMessages` and its texts (118-217) |
| `Handle` | a turn of a receive thread of the gateway: stamp, remember, forward, count (Server.cpp 239-290) |
| `Route` | a turn of the reply thread and `GetClientWithRequestID` (355-363, 390-452) |
| `Take`, `Decide` | the authentication server reads a request and answers it (AuthenticateServer.cpp 141-300), by the actions of `Registry` |
| `LineDown`, `GatewayDown` | the connection between the servers, or the gateway, is lost |

`typed[c]` is all that a user typed, with the number of texts he had seen by
then, which is how the properties tell a user who waits (`Patient`) from one who does
not; the program lets both happen. A word that is neither of the two commands
sends the empty string, which parses as a message of defaults: a registration
of the empty email.

`Desk` is `Registry` with the commands typed as its callers; `asked` says that a
command is pending until an answer to it has been decided. So `ImplementsDesk`
says of the whole system what `Registry` says of the authentication server.

### Startup

A process goes through `Steps(p)`; each call may fail, and then `Initialize`
returns and the process is over. Two exceptions are in the code: a failed
database connect is caught and forgotten (MySQLUtil.cpp 38-48), so that the next
step uses a pointer that was never set, and `accept` is tried again for ever.
A listening socket answers `connect` before anybody calls `accept`.

## 3. Runs

| Run | Instance | Shows |
|---|---|---|
| `gateway_safety` | 2 clients with 2 and 1 requests, 2 handles, start at -1 or 0 | types; a delivered reply goes where it belongs, ids are distinct, the counter grows and a reply is dropped, but for overlapping stamps, an id of 0, and the causes listed |
| `gateway_reuse` | 3 connections with 1, 0 and 2 requests on 1 handle, short reads | writes to nobody have a cause; requests of a client keep their order |
| `gateway_liveness` | a client with 2 requests and an idle one, 2 handles, all faults, fair threads | forwarded requests come to an outcome; sockets of clients that are gone are closed |
| `gateway_dropped` | 2 requests in a row | *violated*: see Findings |
| `auth_races` | 2 connections with 2 and 1 requests, 2 emails, 2 passwords, 1 crash | races on statements and the hash object harm only the requests that met |
| `auth_failures` | 1 connection, 3 requests, failing statements, 1 crash | which half-made accounts failures leave behind, and that there are no others |
| `auth_registry` | 1 connection, 3 requests | `AuthServer` implements `Registry` |
| `sha256` | messages to 140 bytes in pieces of 0, 1, 8, 55, 56, 63, 64, 65 | every hash is that of the padded message |
| `framing` | 3 messages of 0 to 3 bytes, segments cut anywhere, both readers, close or reset | frames handled are frames sent, in order, up to the first short read; the gateway's readers end when the peer does |
| `session` | 2 clients, 2 commands in any split, 1 email and the empty one, both servers may be lost | screens follow keyboards; successes are true for a user who waits; commands are answered; the whole implements `Registry`, whose own guarantees are checked too |
| `session_unknown` | the same | *violated*: see Findings |
| `startup` | 2 authentication servers, 2 gateways, 1 client, 2 statements, any call may fail, any process may end | an accepted client has a prepared database behind it; a connected one is not left waiting |

*Why these bounds are enough.* Each hazard needs two actors: two threads between
stamp and store, a reply racing an accept or an erase, two registrations on one
statement. A reused handle needs an old connection, a later one, and a third
that the old thread's second `closesocket` can harm: hence three connections
on one handle. A dropped reply needs two requests of one client. In
`AuthServer`, a registration, a request that races with it and a login that sees
the result are three requests on two connections; four requests, two on
each, were also checked (18 million states) and add nothing. 140 bytes cover
zero, one and two full blocks with every kind of padding. Dropping any single
excuse from a property of `AuthServer` or `Gateway` makes TLC find a counterexample
within these bounds, with two exceptions in `LossHasACause`: `overlap` would need
more requests, and the shared handle a fourth connection on it (a search
restricted to such schedules finds that one: an old thread closes the handle
under the connection that asked, and the next reset on it erases the `Client`).

In `Framing` a length has two bytes of four values, so that four kinds of payload
bytes cover the cases of a misread length: negative, too long to allocate,
reaching beyond its message, and fitting what follows. Three messages let a
reader lose its place in the first, misread in the second and be found out in
the third. In `Session` a wrong screen needs two commands: of two clients, to
mix them up, or of one, to lose or swap them. Three commands, with the counter
starting at 1, were also checked (702,360 states). `Startup` needs a second
server of each kind for the port that is taken, and a gateway that connects to
one server after the other has failed; a second statement, for a failure between
the two.

*Deadlock* is not checked where clients may stop sending: the system then
rightly stands still. `sha256` has no such state and checks it.

*Fairness* (`Gateway!Fairness`): weak fairness of every receive thread and of
the reply thread, as the operating system schedules the threads of a process,
and of the authentication server's answers while its connection is up. Nothing
is assumed of clients, of crashes, or of any particular step of a thread.
`Framing` assumes that TCP delivers what was sent and that the reader's thread
runs; `Session`, that the threads of running processes run (nobody has to type, and
the authentication server only has to answer while the connection to it is up);
`Startup`, that a process goes on to its next call, none of which waits, and
that an accept loop takes a connection that is there. Each is weak fairness of
one thread, which only the end of its process or connection disables for good.

## 4. Findings

* `DroppedMeansDisconnected`. When no `Client` carries the id of an answer, the
  gateway prints " Client disconnected .." and drops the answer
  (Server.cpp:322). A `Client` remembers only its latest id (260, 276), and the
  client program sends without waiting for replies (Client.cpp 229-277): two
  requests in a row and the first answer is dropped though its client is
  connected.
* `OnlyRegisterCreates`. The prompt asks for REGISTER or AUTHENTICATE
  (Client.cpp:234). Any other word is sent as an empty string, as there is no
  branch for it (242, 255); the gateway parses that as a message with the default
  command CREATE_ACCOUNT_WEB (Server.cpp 244-250), and the authentication server
  registers the empty email with the empty password.

Two texts contradict what happened without any interleaving, and need no run:
after the reason of a failed registration the client prints "CREATED ACCOUNT
SUCCESFULLY" (Client.cpp:187), and `ConnectToDatabase` prints "Successfully
connected to MySQL database.. " after a failed connect as well
(MySQLUtil.cpp 47-48). `Session!Printed` and `Startup!ConnectToDatabase` do the same.

## 5. Proofs

All for arbitrary constants, under the named assumptions of the modules. None of
them bounds the system:

* the model values stand apart: `None` is no connection, handle, record, request,
  row, verdict or account, and `Dropped` is neither a connection nor `None`;
* the counter of the gateway starts with some integer;
* clients of `Session` are finitely many, as its bound counts commands;
* block, length field and `int` have at least one byte, a byte at least two
  values, and a message is short enough for its length to fit an `int`.

One theorem has a hypothesis besides, `Undisturbed`, as what it says holds of
part of the executions only; it is below.

**GatewayProofs**

* `TypeCorrect`: `TypeOK`. Not inductive as it stands, since `Close` and
  `SendReply` look up `owner[sock[c]]` and `Forward` copies `hold[c]`; `TypeInv` adds
  `SocketInv` (a connection has a handle exactly from its accept on; a handle
  names a connection that was given it) and `HoldInv` (a thread that stamps
  holds a request it read through its own handle).
* `IdsAreUnique` and `CounterIsMonotone`: through `IdInv`, which says, while
  there has been no overlap, that at most one thread is between stamp and store,
  that what it holds and has loaded is the current counter, and that the ids
  forwarded increase and lie below the counter (or at it, between forward and
  store).
* `RepliesReachRequesters`: through `RouteInv`, which ties the answer in hand to
  the request it answers, the `Client` found by the scan to a thread that
  asked with that id, and a thread to the handle it read the request from.
  `IdInv` then makes the thread unique.
* `RequestsStayInOrder`: through `OrderInv`. A frame in hand is newer than every
  forwarded frame of its connection (`NewerInv`) as long as the handle is not
  shared (`Shared`), because then one thread only reads from it.
* `LossesHaveACause` and `FailedSendsHaveACause`: through `CauseInv`. An owner keeps
  its handle until a reset or its own thread's close (`HandleInv`); a `Client` is
  erased only after a reset (`EraseInv`), so the asker is in the list unless a
  cause applies (`ListInv`); a scan has passed nobody with the id it looks for
  (`ScanInv`), so one that ends without a `Client` has a cause (`MissInv`). The causes
  last: resets and shared handles are never undone, and an id that has been
  overwritten does not come back, as `IdInv` has ids increase (`OtherIdStays`).

**RegistryProofs**

Its assumption bounds nothing: a register may answer for ever.

* `RegistryTypes`, `LoginsFollowCreations`, `NothingGivenTwice`: through
  `RegistryInv`, which adds that every account has an answer that created it,
  and every such answer its account.

**SessionProofs.** `SessionInv` is the invariant of `Registry` and five more parts:

* `SessionTypes`: shapes, commands included;
* `QueueInv`: commands are handled in the order they were typed, none twice;
* `AnswersInv`: the k-th answer is to the k-th request forwarded, because there is
  one connection between the servers and the server finishes each request before
  it reads the next;
* `RouteInv`: an id other than 0 in a `Client` belongs to a request of its own, so
  an answer is sent to its asker or dropped, and positions told to a client grow;
* `PatientInv`: a user who waits for every text is told about his n-th command in
  his n-th text. It rests on the other four: the next command is not typed before
  the text has come, so no id is overwritten while its answer is on the way.

From it follow `SessionKeepsRegister`, `ScreensFollowKeyboards`,
`AccountsComeFromKeyboards` and `SuccessesAreTrue`. `SessionImplementsDesk` is the
refinement: initial states map to initial states; `Type` and `Decide` map to
`Ask` and to the answers of `Registry`; all other steps, both faults included,
map to none. The step of `Decide` is the hard one: the command it answers is pending at
the desk, is the request the server has in hand, and stops being pending, and
no other does. Clients are assumed to be finitely many, as the bound counts commands.

**StartupProofs.** `StartInv` adds to the types what an authentication server has
achieved at each step (`AuthInv`) and what a connection says about the one it
leads to (`LinkInv`): who listens has prepared everything, a gateway that accepts
has connected, a client has no connection before its `connect`. Hence
`StartTypesCorrect` and `AcceptedAreBacked`.

**AuthServerProofs.** `AuthInv` is the six properties of the run with `TypeOK`'s
generalisation `Types` and seven more parts:

* `StepInv`: what a thread at a step has put there already; `MeetInv`: two threads in
  one statement, or in the hash object, are recorded in `mixed` or `garbled`;
* `BoundInv`: who met nobody finds bound what it bound itself;
* `VerdictInv`: what a thread is about to answer is so, and stays so, as rows are
  never deleted and passwords never change;
* `OnceInv`: of two registrations of an email one at most passes the INSERT;
* `UserInv`: the placeholder stays until the registration of its row is through;
* `OwnInv`: user ids handed out and not yet stored differ from each other and from
  all stored ones. It is what makes `LAST_INSERT_ID()` of a shared connection
  safe, and only in the absence of an overlap.

The theorems are `TypeCorrect`, `LoginIsByPassword`, `CreatedOpens`, `IdToldIsStored`,
`AccountsHaveOwnUsers`, `DatesAreOfUsers` and `ExistsIsSaidTruly`.

**AuthRefinementProofs.** `ServesAsRegistry`: under `Undisturbed` (one connection, as
the only gateway makes; no failing statement, no crash, and as many user ids as
requests) the server implements `Registry`. With two connections, or with a failure
after the INSERT, it does not: those executions are what the properties above
are about. `AloneInv` adds to `AuthInv` what a connection that is alone can rely on:
it has met nobody, and each verdict is what its email's row says. Each step but
`Reply` maps to none, and `Reply` to the one answer of `Registry` its verdict names.
`ServerKeepsPromises` carries over the guarantees proved in `RegistryProofs`.

**Sha256Proofs.** `BufferIsInOrder`: each of `reset`, `add` and `getHash` keeps
`BufferHoldsTheRest`, for any block size: what `add` hashes is cut off in whole
blocks (`WholeBlocks`, `BlocksAdd`) and what it copies begins where the buffer ends.
`DigestsAreOfMessages`: the padding `getHash` writes, one block or two, has the one
number of zeros `Padded` chooses (`PaddingFits`), so the last blocks continue the
message as `Padded` does.

**FramingProofs.** First, `HeaderDecodes`: `LengthOf` reads what `Header` wrote, for any
number of bytes to a length. `Power` and `ValueOf` are recursive functions; that
they exist, and that `ntohl` has after k bytes the quotient of the length by a
power, is induction on `0 .. N`, done from the least element of a set of naturals
(`Least`, `Induct`, `Recursion`). Then `FramingInv`:

* `Layout`: the frames follow one another without a gap and fill the stream;
* `AlignInv`: a reader that is not `Lost` is where a message begins and has read that
  message's length. `Lost` readers go on, and have made a short read that ended
  inside a message; the readers of the gateway are never lost;
* `CountInv`: before the first short read the reader is at the message after those
  it has taken;
* `SkipInv` and `PlaceInv`: what lies behind the reader is accounted for, and where
  cuts and messages taken lie.

Hence `HandledMessagesWereSent`, `NoMessageIsSkipped`, `ThrowsHaveACause`, and, which no
run states, `GatewayReadsAPrefix`: whatever the segments, what a reader of the gateway
has handled is a beginning of what was sent to it.

The invariants of `GatewayProofs` and `FramingProofs` were checked with TLC on the
instances of the runs before they were proved.

*Only model-checked:* the liveness properties `EveryRequestSettles`,
`GoneClientIsClosed`, `EveryFrameIsTaken`, `GoneReaderLeaves`, `CommandsAreAnswered` and
`ConnectedIsNotLeftWaiting`, as TLAPS cannot prove liveness under fairness. Every
invariant and every safety property of the runs is proved.

## 6. Not modelled

* `processBlock`: the 64 rounds add 32-bit words, which TLC's integers cannot hold.
* Parsing and serialising of protobuf messages beyond what an empty string parses
  to; logging; the texts that tell reasons.
* `ServerClose` of both servers: the accept loops never return. `CloseClient`:
  nothing calls it.
* `Select`, `Insert`, `Update`, `Disconnect` and the getters of `MySQLUtil`:
  nothing calls them.
* `MySQLProject/`: a trial of the connector in one `main`, not built into any of the
  programs.
* `include/`: vendored protobuf and MySQL Connector/C++, some 350,000 lines of
  the repository, against about 2,300 of its own.
* Overflow of `clientRequestId` after 2^31 requests: ids are integers.
* Standard input at its end, where the client sends empty frames as fast as it can:
  one such frame is a command of another word in `Session`.

## 7. Plan

Done: all modules above; every invariant, `CounterNeverGoesBack` and both
refinements are proved. All operations the programs ever reach are modelled, but for
the rounds of SHA-256. What may follow:

1. The safety part of the liveness arguments: that a thread that is not blocked has a
   step to take, and that what `EveryRequestSettles` and `EveryFrameIsTaken` wait for
   comes nearer with each step of the fair actions.
2. A form of `ServesAsRegistry` for several connections that never meet inside a
   statement.
