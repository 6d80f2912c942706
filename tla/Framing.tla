------------------------------ MODULE Framing ------------------------------
(***************************************************************************)
(* One direction of a connection: every message travels behind its length, *)
(* and TCP delivers the bytes in segments that know nothing of messages.   *)
(* All four readers ask recv for the length, then for the payload, and     *)
(* expect each in one piece.  The two of the gateway (Server.cpp:194, 366) *)
(* leave their loop when recv returns anything else; those of the          *)
(* authentication server (AuthenticateServer.cpp:141) and of the client    *)
(* (Client.cpp:118) ignore it and read on from wherever they are.          *)
(***************************************************************************)
EXTENDS Integers, Sequences

CONSTANTS
  LengthSize, \* bytes of a length: sizeof(int), 4 in the code
  Base,       \* values of a byte: 256
  MaxAlloc,   \* longest vector that can be allocated
  Payloads,   \* messages that are sent, as sequences of bytes
  MaxFrames,  \* how many are sent
  Readers     \* the readers considered: "leaves", "goes on"

ASSUME SizesAssumption ==
  LengthSize \in Nat \ {0} /\ Base \in Nat \ {0, 1} /\ MaxAlloc \in Nat

\* Base ^ k.
Power[k \in 0 .. LengthSize] == IF k = 0 THEN 1 ELSE Base * Power[k - 1]

ASSUME ReadersAssumption == Readers \subseteq {"leaves", "goes on"}
\* Messages are short: their length fits an int and can be allocated.
ASSUME PayloadsAssumption ==
  \A p \in Payloads : p \in Seq(0 .. Base - 1) /\ Len(p) <= MaxAlloc
                        /\ 2 * Len(p) < Power[LengthSize]

VARIABLES
  reader,   \* which of the two readers this is
  stream,   \* all bytes sent
  frames,   \* the messages they were made of, and where each begins
  peer,     \* "open", "fin" after the peer closed, "rst" after a reset
  arrived,  \* how many bytes have reached the reader's socket
  pos,      \* how many of them it has read
  pc,       \* "length", "payload", "closed", or "thrown" by the vector
  want,     \* expectedLength
  taken,    \* the messages it has handled, and where each began
  cuts      \* history: where a recv ended that returned less than asked for

wireVars   == <<reader, stream, frames, peer, arrived>>
readerVars == <<pos, pc, want, taken, cuts>>
vars       == <<wireVars, readerVars>>

\* Mutant: the length is sent without htonl.
HeaderReversed(n) == [i \in 1 .. LengthSize |-> (n \div Power[i - 1]) % Base]

\* htonl: the most significant byte comes first.
Header(n) == [i \in 1 .. LengthSize |-> (n \div Power[LengthSize - i]) % Base]

\* ntohl.
ValueOf(bytes) ==
  LET value[i \in 0 .. LengthSize] ==
        IF i = 0 THEN 0 ELSE value[i - 1] * Base + bytes[i]
  IN  value[LengthSize]

\* ... into a signed int.
Signed(n) == IF 2 * n >= Power[LengthSize] THEN n - Power[LengthSize] ELSE n

LengthOf(bytes) == Signed(ValueOf(bytes))

\* A negative length becomes a huge size_t.
Throws(n) == n < 0 \/ n > MaxAlloc

Init ==
  /\ reader \in Readers
  /\ stream = <<>> /\ frames = <<>> /\ peer = "open" /\ arrived = 0
  /\ pos = 0 /\ pc = "length" /\ want = 0 /\ taken = <<>> /\ cuts = {}
-----------------------------------------------------------------------------
(* The peer and the network.                                               *)

\* One send of length and payload in one buffer.
SendFrame(p) ==
  /\ peer = "open" /\ Len(frames) < MaxFrames
  /\ stream' = stream \o Header(Len(p)) \o p
  /\ frames' = Append(frames, [at |-> Len(stream), payload |-> p])
  /\ UNCHANGED <<reader, peer, arrived, readerVars>>

PeerStop ==
  /\ peer = "open" /\ peer' \in {"fin", "rst"}
  /\ UNCHANGED <<reader, stream, frames, arrived, readerVars>>

\* A segment ends anywhere.
Arrive ==
  /\ peer # "rst"
  /\ arrived' \in arrived + 1 .. Len(stream)
  /\ UNCHANGED <<reader, stream, frames, peer, readerVars>>
-----------------------------------------------------------------------------
(* The reader.  recv blocks until there is a byte, and then returns what   *)
(* there is, up to what was asked for.                                     *)

Ready == arrived - pos

Bytes(n) == SubSeq(stream, pos + 1, pos + n)

\* Mutant: a short read is ignored by every reader.
AfterFailureIgnored == "length"

AfterFailure == IF reader = "leaves" THEN "closed" ELSE "length"

RecvLength ==
  /\ pc = "length" /\ peer # "rst" /\ Ready >= LengthSize
  /\ want' = LengthOf(Bytes(LengthSize))
  /\ pos' = pos + LengthSize
  /\ pc' = IF Throws(want') THEN "thrown" ELSE "payload"
  /\ UNCHANGED <<wireVars, taken, cuts>>

\* Mutant: the last byte must be followed by another.
RecvPayloadLate ==
  /\ pc = "payload" /\ Ready > want /\ peer # "rst"
  /\ taken' = Append(taken, [at |-> pos - LengthSize, payload |-> Bytes(want)])
  /\ pos' = pos + want /\ pc' = "length"
  /\ UNCHANGED <<wireVars, want, cuts>>

\* Mutant: recv is asked for as much as there is.
RecvPayloadAll ==
  /\ pc = "payload" /\ Ready >= want /\ (peer # "rst" \/ want = 0)
  /\ taken' = Append(taken, [at |-> pos - LengthSize, payload |-> Bytes(want)])
  /\ pos' = arrived /\ pc' = "length"
  /\ UNCHANGED <<wireVars, want, cuts>>

\* Asking for no bytes at all succeeds at once.
RecvPayload ==
  /\ pc = "payload" /\ Ready >= want /\ (peer # "rst" \/ want = 0)
  /\ taken' = Append(taken, [at |-> pos - LengthSize, payload |-> Bytes(want)])
  /\ pos' = pos + want /\ pc' = "length"
  /\ UNCHANGED <<wireVars, want, cuts>>

Asked == IF pc = "length" THEN LengthSize ELSE want

RecvShort ==
  /\ pc \in {"length", "payload"} /\ peer # "rst"
  /\ Ready > 0 /\ Ready < Asked
  /\ pos' = arrived /\ cuts' = cuts \cup {arrived}
  /\ pc' = AfterFailure
  /\ UNCHANGED <<wireVars, want, taken>>

\* Mutant: the end of the stream does not end the loop.
RecvEndSpins ==
  /\ pc = "length" /\ peer = "fin" /\ pos = Len(stream)
  /\ UNCHANGED vars

\* End of stream, or a reset.  A reader that goes on is told so again and
\* again: it never waits and never stops.
RecvEnd ==
  /\ pc \in {"length", "payload"} /\ Asked > 0
  /\ peer = "rst" \/ (peer = "fin" /\ pos = Len(stream))
  /\ pc' = AfterFailure
  /\ UNCHANGED <<wireVars, pos, want, taken, cuts>>
-----------------------------------------------------------------------------
Read == RecvLength \/ RecvPayload \/ RecvShort \/ RecvEnd

Next == (\E p \in Payloads : SendFrame(p)) \/ PeerStop \/ Arrive \/ Read

\* TCP delivers what was sent, and the reader's thread runs.
Spec == Init /\ [][Next]_vars /\ WF_vars(Arrive) /\ WF_vars(Read)
-----------------------------------------------------------------------------
Sent(t) == \E k \in 1 .. Len(frames) : frames[k] = t

Boundary(p) == p = Len(stream) \/ \E k \in 1 .. Len(frames) : frames[k].at = p

Ends(k) == frames[k].at + LengthSize + Len(frames[k].payload)

\* A message is handled that nobody sent only after a short read that ended
\* inside a message, by a reader that went on from there
\* (AuthenticateServer.cpp:149, 160, Client.cpp:125, 136).
TakenIsSent ==
  \A k \in 1 .. Len(taken) :
    \/ Sent(taken[k])
    \/ reader = "goes on" /\ \E c \in cuts : c <= taken[k].at /\ ~Boundary(c)

\* Messages are handled in the order they were sent, and none is skipped or
\* handled twice, up to the first short read.
NothingSkipped ==
  LET begun == IF pc \in {"payload", "thrown"} THEN pos - LengthSize ELSE pos IN
  /\ \A k \in 1 .. Len(frames) :
       Ends(k) <= begun =>
         (k <= Len(taken) /\ taken[k] = frames[k]) \/ \E c \in cuts : c <= Ends(k)
  /\ \A j, k \in 1 .. Len(taken) : j < k => taken[j].at < taken[k].at

\* The vector is never given a length it cannot take (Server.cpp:212, 381),
\* except after a short read by a reader that goes on (Client.cpp:133,
\* AuthenticateServer.cpp:157).
ThrowHasACause == pc = "thrown" => reader = "goes on" /\ cuts # {}

\* Every message is handled in the end, unless a read was short or the
\* connection was reset.
EveryFrameIsTaken ==
  \A k \in 1 .. MaxFrames :
    Len(frames) >= k ~> Len(taken) >= k \/ cuts # {} \/ peer = "rst"

\* A reader of the gateway ends when its peer is gone (205, 230, 375).  The
\* others never do: they read on for ever.
GoneReaderLeaves ==
  peer \in {"fin", "rst"} ~> pc = "closed" \/ reader = "goes on"
=============================================================================
