------------------------------- MODULE Sha256 -------------------------------
(***************************************************************************)
(* The SHA256 object (Server2/sha256.cpp) seen from its buffer: which      *)
(* bytes the compression function is fed, in which order, when a message   *)
(* is added in pieces and the hash is asked for, now and then, on the way. *)
(*                                                                         *)
(* processBlock is not modelled: m_hash stands for the bytes it has been   *)
(* given, 'hashed', and a hash value for all the bytes it was computed     *)
(* from.  A byte is <<kind, n, k>>: byte n of the message, a padding byte, *)
(* byte k of the length n, or what was in memory before.                   *)
(***************************************************************************)
EXTENDS Integers, Sequences

CONSTANTS
  BlockSize,   \* bytes of a block: 64
  LengthSize,  \* bytes of the message length in the last block: 8
  Chunks,      \* sizes add may be called with
  MaxBytes,    \* bound on the length of a message
  None         \* no hash was asked for

ASSUME BlockAssumption ==
  /\ BlockSize \in Nat /\ LengthSize \in Nat
  /\ 0 < LengthSize /\ LengthSize < BlockSize
  /\ Chunks \subseteq Nat /\ MaxBytes \in Nat

VARIABLES
  hashed,      \* the bytes m_hash has taken in
  buffer,      \* m_buffer
  bufferSize,  \* m_bufferSize
  numBytes,    \* m_numBytes
  total,       \* history: the length of the message added since reset
  digest       \* what the last call has returned, None unless getHash

vars == <<hashed, buffer, bufferSize, numBytes, total, digest>>

Index == 0 .. BlockSize - 1

Message(n)   == <<"message", n, 0>>
One          == <<"one", 0, 0>>
Zero         == <<"zero", 0, 0>>
Length(n, k) == <<"length", n, k>>
Junk         == <<"junk", 0, 0>>

\* The bytes processBlock reads from a buffer.
Bytes(block) == [i \in 1 .. BlockSize |-> block[i - 1]]

Init ==
  /\ hashed = <<>> /\ bufferSize = 0 /\ numBytes = 0
  /\ buffer = [i \in Index |-> Junk]
  /\ total = 0 /\ digest = None

\* m_buffer keeps what is in it, which is no part of the next message.
Reset ==
  /\ hashed' = <<>> /\ bufferSize' = 0 /\ numBytes' = 0
  /\ buffer' = [i \in Index |-> Junk]
  /\ total' = 0 /\ digest' = None
-----------------------------------------------------------------------------
\* How many of n bytes complete a block that was begun.
Fill(n) ==
  IF bufferSize = 0 THEN 0
  ELSE IF n < BlockSize - bufferSize THEN n ELSE BlockSize - bufferSize

\* Mutant of Refill: m_bufferSize is not set back to 0.
RefillOn(n) == bufferSize + Fill(n)

\* Where the bytes go that are left when the begun block is done with.
Refill(n) == IF bufferSize + Fill(n) = BlockSize THEN 0 ELSE bufferSize + Fill(n)

\* Bytes that fill a block of the buffer, blocks taken from the data itself,
\* and bytes kept for the next call.
Add(n) ==
  LET fill   == Fill(n)
      full   == bufferSize + fill = BlockSize
      kept   == (n - fill) % BlockSize
      direct == n - fill - kept
      start  == Refill(n)
      filled == [i \in Index |-> IF i \in bufferSize .. bufferSize + fill - 1
                                 THEN Message(total + i - bufferSize) ELSE buffer[i]]
  IN
  /\ total + n <= MaxBytes
  /\ hashed' = hashed \o (IF full THEN Bytes(filled) ELSE <<>>)
                      \o [i \in 1 .. direct |-> Message(total + fill + i - 1)]
  /\ numBytes' = numBytes + direct + (IF full THEN BlockSize ELSE 0)
  /\ bufferSize' = start + kept
  /\ buffer' = [i \in Index |-> IF i \in start .. start + kept - 1
                                THEN Message(total + n - kept + i - start) ELSE filled[i]]
  /\ total' = total + n /\ digest' = None
-----------------------------------------------------------------------------
\* Mutant of PaddedLength: the appended one bit is not counted.
PaddedLengthShort ==
  LET bits  == bufferSize * 8
      lower == bits % (8 * BlockSize)
      room  == 8 * (BlockSize - LengthSize)
  IN  (IF lower <= room THEN bits + room - lower
                        ELSE bits + 8 * BlockSize + room - lower) \div 8

\* paddedLength, in bytes: the place of the length behind the padding.
PaddedLength ==
  LET bits  == bufferSize * 8 + 1
      lower == bits % (8 * BlockSize)
      room  == 8 * (BlockSize - LengthSize)
  IN  (IF lower <= room THEN bits + room - lower
                        ELSE bits + 8 * BlockSize + room - lower) \div 8

\* Byte i, counted from the start of m_buffer, of the length and the padding
\* processBuffer writes into m_buffer and, past its end, into extra.
Padding(i) ==
  IF i \in PaddedLength .. PaddedLength + LengthSize - 1
  THEN Length(8 * (numBytes + bufferSize), i - PaddedLength)
  ELSE IF i = bufferSize THEN One
  ELSE IF i < BlockSize \/ i < PaddedLength THEN Zero ELSE Junk

\* getHash pads a copy of what is not hashed yet and puts m_hash back.
GetHash ==
  LET last  == [i \in Index |-> IF i < bufferSize THEN buffer[i] ELSE Padding(i)]
      extra == [i \in Index |-> Padding(BlockSize + i)]
  IN
  /\ buffer' = last
  /\ digest' = hashed \o Bytes(last) \o (IF PaddedLength > BlockSize THEN Bytes(extra) ELSE <<>>)
  /\ UNCHANGED <<hashed, bufferSize, numBytes, total>>

Next == Reset \/ (\E n \in Chunks : Add(n)) \/ GetHash

Spec == Init /\ [][Next]_vars
-----------------------------------------------------------------------------
\* The bytes of the message are each in their place, hashed or waiting in the
\* buffer, however the message was cut into pieces, and m_numBytes counts
\* the hashed ones.
BufferHoldsTheRest ==
  /\ bufferSize \in Index
  /\ numBytes = Len(hashed) /\ numBytes % BlockSize = 0
  /\ numBytes + bufferSize = total
  /\ \A i \in 1 .. Len(hashed) : hashed[i] = Message(i - 1)
  /\ \A i \in 0 .. bufferSize - 1 : buffer[i] = Message(numBytes + i)

\* The message of length n as the comment at 306-308 pads it: a one bit, the
\* fewest zero bits that leave room for the length, and the length.
Padded(n) ==
  LET zeros == CHOOSE z \in 0 .. BlockSize - 1 :
                 (n + 1 + z + LengthSize) % BlockSize = 0
  IN  [i \in 1 .. n |-> Message(i - 1)] \o <<One>> \o [i \in 1 .. zeros |-> Zero]
        \o [k \in 1 .. LengthSize |-> Length(8 * n, k - 1)]

\* A hash is that of the whole message added since reset and of nothing
\* else: not of the pieces it came in, of what the object or the stack held
\* before, or of hashes taken on the way.
DigestIsOfMessage == digest # None => digest = Padded(total)
=============================================================================
