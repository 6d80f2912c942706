---------------------------- MODULE Sha256Proofs ----------------------------
(***************************************************************************)
(* Proofs about Sha256 for any sizes of block and length field, any pieces *)
(* and any length of message.                                              *)
(***************************************************************************)
EXTENDS Sha256, SequenceTheorems, TLAPS

\* A byte of any kind.
Byte == {"message", "one", "zero", "length", "junk"} \X Int \X Int

\* s is the bytes of the message from number 'from' on.
IsRun(s, from) ==
  /\ s \in Seq(Byte)
  /\ \A i \in 1 .. Len(s) : s[i] = Message(from + i - 1)

\* What is hashed is a beginning of the message, in whole blocks, and the
\* buffer begins with what follows it.
Inv ==
  /\ numBytes \in Nat /\ total \in Nat
  /\ hashed \in Seq(Byte)
  /\ BufferHoldsTheRest
-----------------------------------------------------------------------------
(* Arithmetic of blocks.                                                   *)

\* A multiple of b leaves no remainder, and what is less than b is its own.
LEMMA Remainder ==
  ASSUME NEW b \in Nat, b > 0, NEW q \in Nat, NEW d \in 0 .. b - 1
  PROVE  (q * b + d) % b = d
<1> DEFINE m == q * b + d
           p == m \div b
           r == m % b
<1>1. q * b \in Nat /\ m \in Nat
  OBVIOUS
<1>2. p \in Nat /\ r \in 0 .. b - 1 /\ m = p * b + r
  BY <1>1
<1>3. q * b - p * b = r - d
  BY <1>1, <1>2
<1>4. (q - p) * b = r - d
  BY <1>2, <1>3
<1>5. q - p = 0
  <2>1. CASE q - p >= 1
    <3>1. (q - p) * b >= b
      BY <1>2, <2>1
    <3> QED BY <1>2, <1>4, <3>1
  <2>2. CASE q - p <= -1
    <3>1. (q - p) * b <= -b
      BY <1>2, <2>2
    <3> QED BY <1>2, <1>4, <3>1
  <2> QED BY <1>2, <2>1, <2>2
<1> QED BY <1>2, <1>4, <1>5

\* What is left after the remainder is taken off is a multiple of b.
LEMMA Multiples ==
  ASSUME NEW b \in Nat, b > 0
  PROVE  /\ \A m \in Nat : m % b \in 0 .. b - 1 /\ m - (m % b) \in Nat /\ (m - (m % b)) % b = 0
         /\ b % b = 0 /\ 0 % b = 0
<1>1. \A m \in Nat : m % b \in 0 .. b - 1 /\ m - (m % b) \in Nat /\ (m - (m % b)) % b = 0
  <2> TAKE m \in Nat
  <2>1. m % b \in 0 .. b - 1 /\ m \div b \in Nat /\ m - (m % b) = (m \div b) * b
    OBVIOUS
  <2>2. ((m \div b) * b + 0) % b = 0
    BY <2>1, Remainder
  <2> QED BY <2>1, <2>2
<1>2. b % b = 0 /\ 0 % b = 0
  <2>1. b = 1 * b + 0 /\ 0 = 0 * b + 0
    OBVIOUS
  <2> QED BY <2>1, Remainder
<1> QED BY <1>1, <1>2
\* What leaves no remainder is whole blocks.
LEMMA WholeBlocks ==
  \A m \in Nat : m % BlockSize = 0 => \E q \in Nat : m = q * BlockSize
<1> SUFFICES ASSUME NEW m \in Nat, m % BlockSize = 0 PROVE \E q \in Nat : m = q * BlockSize
  OBVIOUS
<1> QED BY BlockAssumption

\* Whole blocks add up to whole blocks.
LEMMA BlocksAdd ==
  \A m, n \in Nat : m % BlockSize = 0 /\ n % BlockSize = 0 => (m + n) % BlockSize = 0
<1> SUFFICES ASSUME NEW m \in Nat, NEW n \in Nat, m % BlockSize = 0, n % BlockSize = 0
             PROVE  (m + n) % BlockSize = 0
  OBVIOUS
<1>a. BlockSize \in Nat /\ BlockSize > 0
  BY BlockAssumption
<1>1. PICK p \in Nat : m = p * BlockSize
  BY WholeBlocks
<1>2. PICK q \in Nat : n = q * BlockSize
  BY WholeBlocks
<1>3. m + n = (p + q) * BlockSize + 0 /\ p + q \in Nat
  BY <1>a, <1>1, <1>2
<1>4. ((p + q) * BlockSize + 0) % BlockSize = 0
  BY <1>a, <1>3, Remainder
<1> QED BY <1>3, <1>4
-----------------------------------------------------------------------------
(* Sequences of bytes.                                                     *)

\* The elements of a concatenation.
LEMMA ConcatAt ==
  ASSUME NEW s \in Seq(Byte), NEW t \in Seq(Byte)
  PROVE  /\ s \o t \in Seq(Byte) /\ Len(s \o t) = Len(s) + Len(t)
         /\ \A i \in 1 .. Len(s) : (s \o t)[i] = s[i]
         /\ \A i \in Len(s) + 1 .. Len(s) + Len(t) : (s \o t)[i] = t[i - Len(s)]
  OBVIOUS

\* A byte more at the end.
LEMMA ConcatOne ==
  ASSUME NEW s \in Seq(Byte), NEW b \in Byte
  PROVE  /\ s \o <<b>> \in Seq(Byte) /\ Len(s \o <<b>>) = Len(s) + 1
         /\ \A i \in 1 .. Len(s) : (s \o <<b>>)[i] = s[i]
         /\ (s \o <<b>>)[Len(s) + 1] = b
  OBVIOUS

\* Runs that follow one another make a run.
LEMMA RunConcat ==
  ASSUME NEW from \in Nat, NEW s, NEW t, IsRun(s, from), IsRun(t, from + Len(s))
  PROVE  IsRun(s \o t, from)
<1>1. s \in Seq(Byte) /\ t \in Seq(Byte) /\ Len(s) \in Nat /\ Len(t) \in Nat
  BY DEF IsRun
<1>2. s \o t \in Seq(Byte) /\ Len(s \o t) = Len(s) + Len(t)
  BY <1>1, ConcatAt
<1>3. ASSUME NEW i \in 1 .. Len(s \o t) PROVE (s \o t)[i] = Message(from + i - 1)
  <2>1. CASE i \in 1 .. Len(s)
    BY <1>1, <2>1, ConcatAt DEF IsRun
  <2>2. CASE i \in Len(s) + 1 .. Len(s) + Len(t)
    <3>1. (s \o t)[i] = t[i - Len(s)]
      BY <1>1, <2>2, ConcatAt
    <3>2. i - Len(s) \in 1 .. Len(t)
      BY <1>1, <2>2
    <3>3. t[i - Len(s)] = Message((from + Len(s)) + (i - Len(s)) - 1)
      BY <3>2 DEF IsRun
    <3>4. (from + Len(s)) + (i - Len(s)) - 1 = from + i - 1
      BY <1>1, <3>2
    <3> QED BY <3>1, <3>3, <3>4
  <2> QED BY <1>1, <1>2, <2>1, <2>2
<1> QED BY <1>2, <1>3 DEF IsRun

\* A function on the first m numbers is a sequence of that length.
LEMMA ByteSeq ==
  ASSUME NEW m \in Nat, NEW s, s = [i \in 1 .. m |-> s[i]], \A i \in 1 .. m : s[i] \in Byte
  PROVE  s \in Seq(Byte) /\ Len(s) = m
  OBVIOUS

\* The bytes of the message are bytes.
LEMMA MessageByte == \A n \in Int : Message(n) \in Byte
  BY DEF Message, Byte
-----------------------------------------------------------------------------
(* Adding to the message.                                                  *)

\* An empty object holds the empty message.
LEMMA InvInit == Init => Inv
<1> SUFFICES ASSUME Init PROVE Inv
  OBVIOUS
<1>1. bufferSize \in Index /\ 0 % BlockSize = 0
  BY BlockAssumption, Multiples DEF Init, Index
<1> QED BY <1>1 DEF Init, Inv, BufferHoldsTheRest

\* Reset empties the object.
LEMMA ResetKeeps == ASSUME Reset PROVE Inv'
<1>1. bufferSize' \in Index /\ 0 % BlockSize = 0
  BY BlockAssumption, Multiples DEF Reset, Index
<1> QED BY <1>1 DEF Reset, Inv, BufferHoldsTheRest

\* Every byte added goes to its place: behind what the buffer holds, past it
\* into whole blocks, and to the front of the buffer again.
LEMMA AddKeeps ==
  ASSUME Inv, NEW n \in Chunks, Add(n)
  PROVE  Inv'
<1> DEFINE fill   == Fill(n)
           full   == bufferSize + fill = BlockSize
           kept   == (n - fill) % BlockSize
           direct == n - fill - kept
           start  == Refill(n)
           filled == [i \in Index |-> IF i \in bufferSize .. bufferSize + fill - 1
                                      THEN Message(total + i - bufferSize) ELSE buffer[i]]
           block  == IF full THEN Bytes(filled) ELSE <<>>
           rest   == [i \in 1 .. direct |-> Message(total + fill + i - 1)]
           size   == IF full THEN BlockSize ELSE 0
<1>a. /\ BlockSize \in Nat /\ BlockSize > 0 /\ n \in Nat
      /\ numBytes \in Nat /\ total \in Nat /\ bufferSize \in 0 .. BlockSize - 1
      /\ hashed \in Seq(Byte) /\ numBytes = Len(hashed)
      /\ numBytes + bufferSize = total
  BY BlockAssumption DEF Inv, BufferHoldsTheRest, Index
<1>b. /\ IsRun(hashed, 0)
      /\ \A i \in 0 .. bufferSize - 1 : buffer[i] = Message(numBytes + i)
  BY <1>a DEF Inv, BufferHoldsTheRest, IsRun
<1>c. /\ hashed' = hashed \o block \o rest
      /\ numBytes' = numBytes + direct + size
      /\ bufferSize' = start + kept
      /\ buffer' = [i \in Index |-> IF i \in start .. start + kept - 1
                                    THEN Message(total + n - kept + i - start) ELSE filled[i]]
      /\ total' = total + n
  BY DEF Add
<1>1. fill \in 0 .. n /\ bufferSize + fill \in 0 .. BlockSize
  BY <1>a DEF Fill
<1>2. /\ kept \in 0 .. BlockSize - 1 /\ direct \in Nat
      /\ n = fill + direct + kept
      /\ direct % BlockSize = 0
  <2> DEFINE m == n - fill
  <2>1. m \in Nat
    BY <1>a, <1>1
  <2>2. m % BlockSize \in 0 .. BlockSize - 1 /\ m - (m % BlockSize) \in Nat
        /\ (m - (m % BlockSize)) % BlockSize = 0
    BY <1>a, <2>1, Multiples
  <2>3. kept = m % BlockSize /\ direct = m - (m % BlockSize) /\ direct = n - fill - kept
    OBVIOUS
  <2> HIDE DEF kept, direct, fill
  <2>4. kept \in 0 .. BlockSize - 1 /\ direct \in Nat /\ direct % BlockSize = 0
    BY <2>2, <2>3
  <2> QED BY <1>a, <1>1, <2>3, <2>4
\* Either the buffer is empty when the rest comes, or there is no rest.
<1>3. \/ full /\ start = 0 /\ size = BlockSize
      \/ ~full /\ start = 0 /\ size = 0 /\ fill = 0 /\ bufferSize = 0
      \/ ~full /\ start = bufferSize + fill /\ size = 0 /\ fill = n /\ start \in Index
  BY <1>a, <1>1 DEF Fill, Refill, Index
<1> HIDE DEF fill, kept, direct, start
<1>d. kept \in 0 .. BlockSize - 1 /\ direct \in Nat /\ n = fill + direct + kept
  BY <1>2
<1>9. size \in Nat /\ fill \in Nat /\ start \in Nat
  BY <1>a, <1>1, <1>3 DEF Index
<1>m. size % BlockSize = 0
  BY <1>a, Multiples
<1>s. size # 0 <=> full
  BY <1>a
<1>4. start > 0 => direct = 0 /\ kept = 0 /\ ~full /\ start = bufferSize + fill
  BY <1>a, <1>d, <1>1, <1>3
<1>5. \A i \in 0 .. bufferSize + fill - 1 : filled[i] = Message(numBytes + i)
  <2> TAKE i \in 0 .. bufferSize + fill - 1
  <2>1. i \in Index
    BY <1>a, <1>1 DEF Index
  <2>2. CASE i < bufferSize
    BY <1>a, <1>b, <2>1, <2>2
  <2>3. CASE i >= bufferSize
    <3>1. filled[i] = Message(total + i - bufferSize)
      BY <1>a, <1>1, <2>1, <2>3
    <3>2. total + i - bufferSize = numBytes + i
      BY <1>a
    <3> QED BY <3>1, <3>2
  <2> QED BY <1>a, <2>2, <2>3
<1> HIDE DEF filled
<1>6. IsRun(block, numBytes) /\ Len(block) = size
  <2>1. CASE ~full
    BY <2>1 DEF IsRun
  <2>2. CASE full
    <3>1. block = [i \in 1 .. BlockSize |-> filled[i - 1]]
      BY <2>2 DEF Bytes
    <3>2. \A i \in 1 .. BlockSize : i - 1 \in 0 .. bufferSize + fill - 1
      BY <1>a, <1>1, <2>2
    <3>3. \A i \in 1 .. BlockSize : block[i] = Message(numBytes + i - 1)
      <4> TAKE i \in 1 .. BlockSize
      <4>1. block[i] = Message(numBytes + (i - 1))
        BY <1>5, <3>1, <3>2
      <4>2. numBytes + (i - 1) = numBytes + i - 1
        BY <1>a
      <4> QED BY <4>1, <4>2
    <3>4. \A i \in 1 .. BlockSize : block[i] \in Byte
      <4> TAKE i \in 1 .. BlockSize
      <4>1. numBytes + i - 1 \in Int
        BY <1>a
      <4> QED BY <3>3, <4>1, MessageByte
    <3>5. block = [i \in 1 .. BlockSize |-> block[i]]
      BY <3>1
    <3> HIDE DEF block
    <3>6. block \in Seq(Byte) /\ Len(block) = BlockSize
      BY <1>a, <3>4, <3>5, ByteSeq
    <3> QED BY <2>2, <3>3, <3>6 DEF IsRun
  <2> QED BY <2>1, <2>2
<1>7. IsRun(rest, numBytes + size) /\ Len(rest) = direct
  <2>1. \A i \in 1 .. direct : rest[i] = Message(numBytes + size + i - 1)
    <3> TAKE i \in 1 .. direct
    <3>1. rest[i] = Message(total + fill + i - 1)
      OBVIOUS
    <3>2. total + fill = numBytes + size
      BY <1>a, <1>1, <1>2, <1>3
    <3> QED BY <3>1, <3>2
  <2>2. \A i \in 1 .. direct : rest[i] \in Byte
    <3> TAKE i \in 1 .. direct
    <3>1. numBytes + size + i - 1 \in Int
      BY <1>a
    <3> QED BY <2>1, <3>1, MessageByte
  <2>3. rest = [i \in 1 .. direct |-> rest[i]]
    OBVIOUS
  <2> HIDE DEF rest
  <2>4. rest \in Seq(Byte) /\ Len(rest) = direct
    BY <1>2, <2>2, <2>3, ByteSeq
  <2> QED BY <2>1, <2>4 DEF IsRun
<1> HIDE DEF block, rest, size, full
<1>8. IsRun(hashed', 0) /\ numBytes' = Len(hashed')
  <2>1. IsRun(hashed \o block, 0) /\ Len(hashed \o block) = numBytes + size
    <3>1. IsRun(block, 0 + Len(hashed))
      BY <1>a, <1>6
    <3>2. IsRun(hashed \o block, 0)
      BY <1>b, <3>1, RunConcat
    <3>3. Len(hashed \o block) = numBytes + size
      BY <1>a, <1>6, ConcatAt DEF IsRun
    <3> QED BY <3>2, <3>3
  <2>2. IsRun(rest, 0 + Len(hashed \o block))
    <3>1. 0 + Len(hashed \o block) = numBytes + size
      BY <1>a, <2>1
    <3> QED BY <1>7, <3>1
  <2>3. IsRun((hashed \o block) \o rest, 0)
    BY <2>1, <2>2, RunConcat
  <2>4. Len((hashed \o block) \o rest) = numBytes + size + direct
    BY <1>7, <2>1, ConcatAt DEF IsRun
  <2>5. numBytes' = numBytes + size + direct
    BY <1>a, <1>c, <1>d, <1>9
  <2> QED BY <1>c, <2>3, <2>4, <2>5
<1>10. numBytes' \in Nat /\ numBytes' % BlockSize = 0
  <2>1. /\ numBytes \in Nat /\ numBytes % BlockSize = 0
        /\ direct \in Nat /\ direct % BlockSize = 0
    BY <1>a, <1>2 DEF Inv, BufferHoldsTheRest
  <2>2. numBytes + direct \in Nat /\ numBytes + direct + size \in Nat
    BY <1>9, <2>1
  <2>3. (numBytes + direct) % BlockSize = 0
    BY <2>1, BlocksAdd, Zenon
  <2>4. (numBytes + direct + size) % BlockSize = 0
    BY <1>9, <1>m, <2>2, <2>3, BlocksAdd, Zenon
  <2> QED BY <1>c, <2>2, <2>4
<1>e. /\ numBytes' = numBytes + direct + size /\ bufferSize' = start + kept
      /\ total' = total + n
  BY <1>c
<1>11. bufferSize' \in 0 .. BlockSize - 1 /\ numBytes' + bufferSize' = total' /\ total' \in Nat
  <2>1. CASE full /\ start = 0 /\ size = BlockSize
    BY <1>a, <1>d, <1>e, <1>1, <2>1 DEF full
  <2>2. CASE start = 0 /\ size = 0 /\ fill = 0 /\ bufferSize = 0
    BY <1>a, <1>d, <1>e, <1>1, <2>2
  <2>3. CASE start = bufferSize + fill /\ size = 0 /\ fill = n /\ start \in Index
    BY <1>a, <1>d, <1>e, <1>1, <2>3 DEF Index
  <2> QED BY <1>3, <2>1, <2>2, <2>3
<1>12. ASSUME NEW i \in Nat, i < bufferSize' PROVE buffer'[i] = Message(numBytes' + i)
  <2>1. i \in Index
    <3>1. BlockSize \in Nat /\ bufferSize' \in 0 .. BlockSize - 1
      BY <1>a, <1>11
    <3> QED BY <1>12, <3>1 DEF Index
  <2>2. CASE i \in start .. start + kept - 1
    <3>1. buffer'[i] = Message(total + n - kept + i - start)
      BY <1>c, <2>1, <2>2
    <3>2. start = 0
      BY <1>d, <1>9, <1>4, <2>2
    <3>3. total + n - kept + i - start = numBytes' + i
      BY <1>a, <1>d, <1>e, <1>9, <1>11, <2>2, <3>2
    <3> QED BY <3>1, <3>3
  <2>3. CASE i \notin start .. start + kept - 1
    <3>1. start > 0 /\ i \in 0 .. start - 1
      BY <1>a, <1>d, <1>e, <1>9, <1>11, <1>12, <2>3
    <3>2. direct = 0 /\ size = 0 /\ start = bufferSize + fill
      BY <1>s, <1>4, <3>1
    <3>3. numBytes' = numBytes
      BY <1>a, <1>e, <3>2
    <3>4. buffer'[i] = filled[i]
      BY <1>c, <2>1, <2>3
    <3>5. filled[i] = Message(numBytes + i)
      <4>1. i \in 0 .. bufferSize + fill - 1
        BY <1>a, <1>9, <3>1, <3>2
      <4> QED BY <1>5, <4>1
    <3> QED BY <3>3, <3>4, <3>5
  <2> QED BY <2>2, <2>3
<1>13. hashed' \in Seq(Byte) /\ \A i \in 1 .. Len(hashed') : hashed'[i] = Message(i - 1)
  <2>1. \A i \in 1 .. Len(hashed') : hashed'[i] = Message(0 + i - 1) /\ 0 + i - 1 = i - 1
    BY <1>8 DEF IsRun
  <2> QED BY <1>8, <2>1 DEF IsRun
<1>14. bufferSize' \in Index
  BY <1>11 DEF Index
<1>15. \A i \in 0 .. bufferSize' - 1 : buffer'[i] = Message(numBytes' + i)
  <2>1. bufferSize' \in Int
    BY <1>a, <1>11
  <2>2. \A b \in Int : \A i \in 0 .. b - 1 : i \in Nat /\ i < b
    OBVIOUS
  <2> QED BY <1>12, <2>1, <2>2, Zenon
<1> QED BY <1>8, <1>10, <1>11, <1>13, <1>14, <1>15 DEF Inv, BufferHoldsTheRest
-----------------------------------------------------------------------------
(* Padding.                                                                *)

\* The length comes behind the message and one more byte, at the end of the
\* first block in which it has room.
LEMMA PaddedLengths ==
  ASSUME bufferSize \in Index
  PROVE  /\ PaddedLength = IF bufferSize + LengthSize < BlockSize
                           THEN BlockSize - LengthSize ELSE 2 * BlockSize - LengthSize
         /\ PaddedLength \in Nat /\ bufferSize < PaddedLength
         /\ PaddedLength - bufferSize - 1 \in 0 .. BlockSize - 1
<1> DEFINE bits  == bufferSize * 8 + 1
           lower == bits % (8 * BlockSize)
           room  == 8 * (BlockSize - LengthSize)
<1>a. /\ BlockSize \in Nat /\ LengthSize \in Nat /\ bufferSize \in 0 .. BlockSize - 1
      /\ 0 < LengthSize /\ LengthSize < BlockSize
  BY BlockAssumption DEF Index
<1>1. bits \in Nat /\ 8 * BlockSize \in Nat /\ bits < 8 * BlockSize /\ 8 * BlockSize > 0
  BY <1>a
<1>2. lower = bits
  <2>1. \A b, m \in Nat : b > 0 /\ m < b => m % b = m
    OBVIOUS
  <2> HIDE DEF bits
  <2> QED BY <1>1, <2>1
<1>3. PaddedLength = (IF lower <= room THEN bits + room - lower
                      ELSE bits + 8 * BlockSize + room - lower) \div 8
  BY DEF PaddedLength
<1> HIDE DEF lower
<1>4. CASE bufferSize + LengthSize < BlockSize
  <2>1. lower <= room /\ bits + room - lower = 8 * (BlockSize - LengthSize)
    BY <1>a, <1>2, <1>4
  <2>2. PaddedLength = (8 * (BlockSize - LengthSize)) \div 8
    BY <1>3, <2>1
  <2>3. PaddedLength = BlockSize - LengthSize
    BY <1>a, <2>2
  <2> QED BY <1>a, <1>4, <2>3
<1>5. CASE ~(bufferSize + LengthSize < BlockSize)
  <2>1. /\ ~(lower <= room)
        /\ bits + 8 * BlockSize + room - lower = 8 * (2 * BlockSize - LengthSize)
    BY <1>a, <1>2, <1>5
  <2>2. PaddedLength = (8 * (2 * BlockSize - LengthSize)) \div 8
    BY <1>3, <2>1
  <2>3. PaddedLength = 2 * BlockSize - LengthSize
    BY <1>a, <2>2
  <2> QED BY <1>a, <1>5, <2>3
<1> QED BY <1>4, <1>5

\* The number of zero bytes the comment asks for is the one processBuffer
\* writes: no smaller one and no other one within a block will do.
LEMMA PaddingFits ==
  ASSUME Inv
  PROVE  (CHOOSE z \in 0 .. BlockSize - 1 : (total + 1 + z + LengthSize) % BlockSize = 0)
           = PaddedLength - bufferSize - 1
<1> DEFINE zeros == PaddedLength - bufferSize - 1
           Fits(z) == (total + 1 + z + LengthSize) % BlockSize = 0
<1>a. /\ BlockSize \in Nat /\ BlockSize > 0 /\ LengthSize \in Nat
      /\ numBytes \in Nat /\ total \in Nat /\ bufferSize \in Index /\ bufferSize \in Nat
      /\ numBytes % BlockSize = 0 /\ numBytes + bufferSize = total
  BY BlockAssumption DEF Inv, BufferHoldsTheRest, Index
<1>b. /\ zeros \in 0 .. BlockSize - 1 /\ PaddedLength \in Nat
      /\ PaddedLength + LengthSize \in {BlockSize, 2 * BlockSize}
  BY <1>a, PaddedLengths
<1> HIDE DEF zeros
<1>1. PICK q \in Nat : numBytes = q * BlockSize
  BY <1>a, WholeBlocks, Zenon
<1>2. \E p \in Nat : total + 1 + zeros + LengthSize = p * BlockSize
  <2>1. total + 1 + zeros + LengthSize = numBytes + (PaddedLength + LengthSize)
    BY <1>a, <1>b DEF zeros
  <2>2. CASE PaddedLength + LengthSize = BlockSize
    <3>1. numBytes + BlockSize = (q + 1) * BlockSize
      BY <1>a, <1>1
    <3> QED BY <2>1, <2>2, <3>1
  <2>3. CASE PaddedLength + LengthSize = 2 * BlockSize
    <3>1. numBytes + 2 * BlockSize = (q + 2) * BlockSize
      BY <1>a, <1>1
    <3> QED BY <2>1, <2>3, <3>1
  <2> QED BY <1>b, <2>2, <2>3
<1>3. Fits(zeros)
  <2>1. PICK p \in Nat : total + 1 + zeros + LengthSize = p * BlockSize
    BY <1>2
  <2>2. (p * BlockSize + 0) % BlockSize = 0 /\ p * BlockSize + 0 = p * BlockSize
    BY <1>a, Remainder
  <2> QED BY <2>1, <2>2
<1>4. ASSUME NEW z \in 0 .. BlockSize - 1, Fits(z) PROVE z = zeros
  <2>1. PICK p \in Nat : total + 1 + zeros + LengthSize = p * BlockSize
    BY <1>2
  <2>2. total + 1 + z + LengthSize \in Nat
    BY <1>a
  <2>3. PICK r \in Nat : total + 1 + z + LengthSize = r * BlockSize
    BY <1>4, <2>2, WholeBlocks
  <2>4. (r - p) * BlockSize = z - zeros
    <3>1. r * BlockSize - p * BlockSize = z - zeros
      BY <1>a, <1>b, <2>1, <2>3
    <3> QED BY <1>a, <3>1
  <2>5. r - p = 0
    <3>1. CASE r - p >= 1
      <4>1. (r - p) * BlockSize >= BlockSize
        BY <1>a, <3>1
      <4> QED BY <1>a, <1>b, <2>4, <4>1
    <3>2. CASE r - p <= -1
      <4>1. (r - p) * BlockSize <= -BlockSize
        BY <1>a, <3>2
      <4> QED BY <1>a, <1>b, <2>4, <4>1
    <3> QED BY <3>1, <3>2
  <2> QED BY <1>a, <1>b, <2>4, <2>5
<1>5. \A z \in 0 .. BlockSize - 1 : Fits(z) <=> z = zeros
  BY <1>3, <1>4
<1>6. (CHOOSE z \in 0 .. BlockSize - 1 : Fits(z)) = zeros
  BY <1>b, <1>5
<1> QED BY <1>6 DEF zeros

\* Every byte of the padding is a byte.
LEMMA PaddingBytes ==
  /\ One \in Byte /\ Zero \in Byte /\ Junk \in Byte
  /\ \A n, k \in Int : Length(n, k) \in Byte
  BY DEF One, Zero, Junk, Length, Byte

\* The padded message, byte by byte.
LEMMA PaddedAt ==
  ASSUME NEW n \in Nat, NEW z \in Nat,
         z = CHOOSE y \in 0 .. BlockSize - 1 : (n + 1 + y + LengthSize) % BlockSize = 0
  PROVE  /\ Padded(n) \in Seq(Byte) /\ Len(Padded(n)) = n + 1 + z + LengthSize
         /\ \A i \in 1 .. n : Padded(n)[i] = Message(i - 1)
         /\ Padded(n)[n + 1] = One
         /\ \A i \in n + 2 .. n + 1 + z : Padded(n)[i] = Zero
         /\ \A i \in n + z + 2 .. n + z + 1 + LengthSize :
              Padded(n)[i] = Length(8 * n, i - (n + z + 2))
<1> DEFINE a == [i \in 1 .. n |-> Message(i - 1)]
           o == <<One>>
           s == [i \in 1 .. z |-> Zero]
           f == [k \in 1 .. LengthSize |-> Length(8 * n, k - 1)]
<1>a. LengthSize \in Nat
  BY BlockAssumption
<1>0. Padded(n) = ((a \o o) \o s) \o f
  BY DEF Padded
<1>1. a \in Seq(Byte) /\ Len(a) = n
  <2>1. \A i \in 1 .. n : a[i] \in Byte
    BY MessageByte
  <2>2. a = [i \in 1 .. n |-> a[i]]
    OBVIOUS
  <2> HIDE DEF a
  <2> QED BY <2>1, <2>2, ByteSeq
<1>2. o \in Seq(Byte) /\ Len(o) = 1 /\ o[1] = One
  BY PaddingBytes
<1>3. s \in Seq(Byte) /\ Len(s) = z
  <2>1. \A i \in 1 .. z : s[i] \in Byte
    BY PaddingBytes
  <2>2. s = [i \in 1 .. z |-> s[i]]
    OBVIOUS
  <2> HIDE DEF s
  <2> QED BY <2>1, <2>2, ByteSeq
<1>4. f \in Seq(Byte) /\ Len(f) = LengthSize
  <2>1. \A i \in 1 .. LengthSize : f[i] \in Byte
    BY <1>a, PaddingBytes
  <2>2. f = [i \in 1 .. LengthSize |-> f[i]]
    OBVIOUS
  <2> HIDE DEF f
  <2> QED BY <1>a, <2>1, <2>2, ByteSeq
<1>5. /\ \A i \in 1 .. n : a[i] = Message(i - 1)
      /\ \A i \in 1 .. z : s[i] = Zero
      /\ \A i \in 1 .. LengthSize : f[i] = Length(8 * n, i - 1)
  OBVIOUS
<1> HIDE DEF a, o, s, f
<1>6. /\ a \o o \in Seq(Byte) /\ Len(a \o o) = n + 1
      /\ \A i \in 1 .. n : (a \o o)[i] = Message(i - 1)
      /\ (a \o o)[n + 1] = One
  <2>1. /\ a \o o \in Seq(Byte) /\ Len(a \o o) = Len(a) + 1
        /\ \A i \in 1 .. Len(a) : (a \o o)[i] = a[i]
        /\ (a \o o)[Len(a) + 1] = One
    BY <1>1, PaddingBytes, ConcatOne, Zenon DEF o
  <2> QED BY <1>1, <1>5, <2>1, Zenon
<1>7. /\ (a \o o) \o s \in Seq(Byte) /\ Len((a \o o) \o s) = n + 1 + z
      /\ \A i \in 1 .. n : ((a \o o) \o s)[i] = Message(i - 1)
      /\ ((a \o o) \o s)[n + 1] = One
      /\ \A i \in n + 2 .. n + 1 + z : ((a \o o) \o s)[i] = Zero
  <2> DEFINE t == a \o o
  <2>1. t \in Seq(Byte) /\ Len(t) = n + 1
    BY <1>6
  <2> HIDE DEF t
  <2>2. /\ t \o s \in Seq(Byte) /\ Len(t \o s) = n + 1 + z
        /\ \A i \in 1 .. n + 1 : (t \o s)[i] = t[i]
        /\ \A i \in (n + 1) + 1 .. n + 1 + z : (t \o s)[i] = s[i - (n + 1)]
    <3>1. /\ t \o s \in Seq(Byte) /\ Len(t \o s) = Len(t) + Len(s)
          /\ \A i \in 1 .. Len(t) : (t \o s)[i] = t[i]
          /\ \A i \in Len(t) + 1 .. Len(t) + Len(s) : (t \o s)[i] = s[i - Len(t)]
      BY <1>3, <2>1, ConcatAt, Zenon
    <3> QED BY <1>3, <2>1, <3>1, Zenon
  <2>3. \A i \in n + 2 .. n + 1 + z : i - (n + 1) \in 1 .. z /\ i \in (n + 1) + 1 .. n + 1 + z
    OBVIOUS
  <2>4. \A i \in n + 2 .. n + 1 + z : (t \o s)[i] = Zero
    BY <1>5, <2>2, <2>3, Zenon
  <2>5. \A i \in 1 .. n : i \in 1 .. n + 1
    OBVIOUS
  <2>6. n + 1 \in 1 .. n + 1
    OBVIOUS
  <2>7. \A i \in 1 .. n : (t \o s)[i] = Message(i - 1)
    BY <1>6, <2>2, <2>5, Zenon DEF t
  <2>8. (t \o s)[n + 1] = One
    BY <1>6, <2>2, <2>6, Zenon DEF t
  <2> QED BY <2>2, <2>4, <2>7, <2>8, Zenon DEF t
<1>8. LET t == ((a \o o) \o s) \o f IN
      /\ t \in Seq(Byte) /\ Len(t) = n + 1 + z + LengthSize
      /\ \A i \in 1 .. n : t[i] = Message(i - 1)
      /\ t[n + 1] = One
      /\ \A i \in n + 2 .. n + 1 + z : t[i] = Zero
      /\ \A i \in n + z + 2 .. n + z + 1 + LengthSize : t[i] = Length(8 * n, i - (n + z + 2))
  <2> DEFINE t == (a \o o) \o s
  <2>1. /\ t \in Seq(Byte) /\ Len(t) = n + 1 + z
        /\ \A i \in 1 .. n : t[i] = Message(i - 1)
        /\ t[n + 1] = One
        /\ \A i \in n + 2 .. n + 1 + z : t[i] = Zero
    BY <1>7
  <2> HIDE DEF t
  <2>2. /\ t \o f \in Seq(Byte) /\ Len(t \o f) = n + 1 + z + LengthSize
        /\ \A i \in 1 .. n + 1 + z : (t \o f)[i] = t[i]
        /\ \A i \in (n + 1 + z) + 1 .. n + 1 + z + LengthSize : (t \o f)[i] = f[i - (n + 1 + z)]
    <3>1. /\ t \o f \in Seq(Byte) /\ Len(t \o f) = Len(t) + Len(f)
          /\ \A i \in 1 .. Len(t) : (t \o f)[i] = t[i]
          /\ \A i \in Len(t) + 1 .. Len(t) + Len(f) : (t \o f)[i] = f[i - Len(t)]
      BY <1>4, <2>1, ConcatAt, Zenon
    <3> QED BY <1>4, <2>1, <3>1, Zenon
  <2>3. \A i \in n + z + 2 .. n + z + 1 + LengthSize :
          /\ i \in (n + 1 + z) + 1 .. n + 1 + z + LengthSize
          /\ i - (n + 1 + z) \in 1 .. LengthSize
          /\ (i - (n + 1 + z)) - 1 = i - (n + z + 2)
    BY <1>a
  <2>4. \A i \in n + z + 2 .. n + z + 1 + LengthSize :
          (t \o f)[i] = Length(8 * n, i - (n + z + 2))
    <3> TAKE i \in n + z + 2 .. n + z + 1 + LengthSize
    <3>1. (t \o f)[i] = f[i - (n + 1 + z)]
      BY <2>2, <2>3, Zenon
    <3>2. f[i - (n + 1 + z)] = Length(8 * n, (i - (n + 1 + z)) - 1)
      BY <1>5, <2>3, Zenon
    <3> QED BY <2>3, <3>1, <3>2, Zenon
  <2>5. \A i \in 1 .. n : i \in 1 .. n + 1 + z
    OBVIOUS
  <2>6. n + 1 \in 1 .. n + 1 + z
    OBVIOUS
  <2>7. \A i \in n + 2 .. n + 1 + z : i \in 1 .. n + 1 + z
    OBVIOUS
  <2>8. \A i \in 1 .. n : (t \o f)[i] = Message(i - 1)
    BY <2>1, <2>2, <2>5, Zenon
  <2>9. (t \o f)[n + 1] = One /\ \A i \in n + 2 .. n + 1 + z : (t \o f)[i] = Zero
    BY <2>1, <2>2, <2>6, <2>7, Zenon
  <2> QED BY <2>2, <2>4, <2>8, <2>9, Zenon DEF t
<1> QED BY <1>0, <1>8

\* Byte j, counted from the start of the buffer, of what getHash hashes last.
LastByte(j) == IF j < bufferSize THEN Message(numBytes + j) ELSE Padding(j)

\* The blocks getHash hashes last.
last  == [i \in Index |-> IF i < bufferSize THEN buffer[i] ELSE Padding(i)]
extra == [i \in Index |-> Padding(BlockSize + i)]
FinalBlocks == IF PaddedLength > BlockSize THEN Bytes(last) \o Bytes(extra) ELSE Bytes(last)

\* Byte by byte they are the rest of the message and the padding.
LEMMA BlockBytes ==
  ASSUME Inv
  PROVE  /\ Bytes(last) \in Seq(Byte) /\ Len(Bytes(last)) = BlockSize
         /\ \A i \in 1 .. BlockSize : Bytes(last)[i] = LastByte(i - 1)
         /\ Bytes(extra) \in Seq(Byte) /\ Len(Bytes(extra)) = BlockSize
         /\ \A i \in 1 .. BlockSize : Bytes(extra)[i] = LastByte(BlockSize + (i - 1))
<1>a. /\ BlockSize \in Nat /\ BlockSize > 0 /\ LengthSize \in Nat
      /\ LengthSize > 0 /\ LengthSize < BlockSize
      /\ numBytes \in Nat /\ bufferSize \in Index /\ bufferSize \in 0 .. BlockSize - 1
  BY BlockAssumption DEF Inv, BufferHoldsTheRest, Index
<1>b. /\ PaddedLength \in Nat /\ bufferSize < PaddedLength
      /\ \/ PaddedLength = BlockSize - LengthSize
         \/ PaddedLength = 2 * BlockSize - LengthSize
  BY <1>a, PaddedLengths
<1>d. \A j \in Int : Padding(j) \in Byte
  <2> TAKE j \in Int
  <2>1. 8 * (numBytes + bufferSize) \in Int /\ j - PaddedLength \in Int
    BY <1>a, <1>b
  <2> QED BY <2>1, PaddingBytes, Zenon DEF Padding
<1>e. \A j \in 0 .. bufferSize - 1 : buffer[j] = Message(numBytes + j)
  BY DEF Inv, BufferHoldsTheRest
<1>1. \A j \in Index : last[j] = LastByte(j)
  <2> TAKE j \in Index
  <2>1. CASE j < bufferSize
    <3>1. j \in 0 .. bufferSize - 1
      BY <1>a, <2>1 DEF Index
    <3> QED BY <1>e, <2>1, <3>1 DEF LastByte, last
  <2>2. CASE ~(j < bufferSize)
    BY <2>2 DEF LastByte, last
  <2> QED BY <2>1, <2>2
<1>2. \A j \in Index : extra[j] = LastByte(BlockSize + j)
  <2> TAKE j \in Index
  <2>1. ~(BlockSize + j < bufferSize)
    BY <1>a DEF Index
  <2> QED BY <2>1 DEF LastByte, extra
<1>3. \A j \in Nat : LastByte(j) \in Byte
  <2> TAKE j \in Nat
  <2>1. numBytes + j \in Int /\ j \in Int
    BY <1>a
  <2> QED BY <1>d, <2>1, MessageByte, Zenon DEF LastByte
<1>4. \A i \in 1 .. BlockSize : i - 1 \in Index /\ i - 1 \in Nat /\ BlockSize + (i - 1) \in Nat
  BY <1>a DEF Index
<1>5. /\ Bytes(last) \in Seq(Byte) /\ Len(Bytes(last)) = BlockSize
      /\ \A i \in 1 .. BlockSize : Bytes(last)[i] = LastByte(i - 1)
  <2> DEFINE w == Bytes(last)
  <2>1. w = [i \in 1 .. BlockSize |-> last[i - 1]]
    BY DEF Bytes
  <2>2. \A i \in 1 .. BlockSize : w[i] = LastByte(i - 1)
    BY <1>1, <1>4, <2>1
  <2>3. w = [i \in 1 .. BlockSize |-> w[i]]
    BY <2>1
  <2> HIDE DEF w
  <2>4. \A i \in 1 .. BlockSize : w[i] \in Byte
    BY <1>3, <1>4, <2>2
  <2>5. w \in Seq(Byte) /\ Len(w) = BlockSize
    BY <1>a, <2>3, <2>4, ByteSeq
  <2> QED BY <2>2, <2>5 DEF w
<1>6. /\ Bytes(extra) \in Seq(Byte) /\ Len(Bytes(extra)) = BlockSize
      /\ \A i \in 1 .. BlockSize : Bytes(extra)[i] = LastByte(BlockSize + (i - 1))
  <2> DEFINE w == Bytes(extra)
  <2>1. w = [i \in 1 .. BlockSize |-> extra[i - 1]]
    BY DEF Bytes
  <2>2. \A i \in 1 .. BlockSize : w[i] = LastByte(BlockSize + (i - 1))
    BY <1>2, <1>4, <2>1
  <2>3. w = [i \in 1 .. BlockSize |-> w[i]]
    BY <2>1
  <2> HIDE DEF w
  <2>4. \A i \in 1 .. BlockSize : w[i] \in Byte
    BY <1>3, <1>4, <2>2
  <2>5. w \in Seq(Byte) /\ Len(w) = BlockSize
    BY <1>a, <2>3, <2>4, ByteSeq
  <2> QED BY <2>2, <2>5 DEF w
<1> QED BY <1>5, <1>6

\* They end with the length.
LEMMA LastBlocks ==
  ASSUME Inv
  PROVE  /\ FinalBlocks \in Seq(Byte) /\ Len(FinalBlocks) = PaddedLength + LengthSize
         /\ \A j \in 0 .. (PaddedLength + LengthSize) - 1 : FinalBlocks[j + 1] = LastByte(j)
<1> DEFINE end == PaddedLength + LengthSize
<1>a. /\ BlockSize \in Nat /\ BlockSize > 0 /\ LengthSize \in Nat
      /\ LengthSize > 0 /\ LengthSize < BlockSize
      /\ numBytes \in Nat /\ bufferSize \in Index /\ bufferSize \in 0 .. BlockSize - 1
  BY BlockAssumption DEF Inv, BufferHoldsTheRest, Index
<1>b. /\ PaddedLength \in Nat /\ bufferSize < PaddedLength
      /\ \/ PaddedLength = BlockSize - LengthSize
         \/ PaddedLength = 2 * BlockSize - LengthSize
  BY <1>a, PaddedLengths
<1>c. /\ PaddedLength > BlockSize => end = 2 * BlockSize
      /\ ~(PaddedLength > BlockSize) => end = BlockSize
  BY <1>a, <1>b
<1> DEFINE Complete == /\ FinalBlocks \in Seq(Byte) /\ Len(FinalBlocks) = end
                       /\ \A j \in 0 .. end - 1 : FinalBlocks[j + 1] = LastByte(j)
<1>1. ASSUME ~(PaddedLength > BlockSize) PROVE Complete
  <2>1. \A j \in 0 .. BlockSize - 1 : j + 1 \in 1 .. BlockSize /\ (j + 1) - 1 = j
    BY <1>a
  <2>2. \A j \in 0 .. BlockSize - 1 : Bytes(last)[j + 1] = LastByte(j)
    <3> TAKE j \in 0 .. BlockSize - 1
    <3>1. Bytes(last)[j + 1] = LastByte((j + 1) - 1)
      BY BlockBytes, <2>1
    <3> QED BY <2>1, <3>1
  <2>3. FinalBlocks = Bytes(last) /\ end = BlockSize
    BY <1>1, <1>c DEF FinalBlocks
  <2> QED BY BlockBytes, <2>2, <2>3
<1>2. ASSUME PaddedLength > BlockSize PROVE Complete
  <2> DEFINE w == Bytes(last)
             x == Bytes(extra)
  <2> HIDE DEF w, x
  <2>1. /\ w \in Seq(Byte) /\ Len(w) = BlockSize /\ x \in Seq(Byte) /\ Len(x) = BlockSize
        /\ \A i \in 1 .. BlockSize : w[i] = LastByte(i - 1)
        /\ \A i \in 1 .. BlockSize : x[i] = LastByte(BlockSize + (i - 1))
    BY BlockBytes DEF w, x
  <2>2. /\ w \o x \in Seq(Byte) /\ Len(w \o x) = Len(w) + Len(x)
        /\ \A i \in 1 .. Len(w) : (w \o x)[i] = w[i]
        /\ \A i \in Len(w) + 1 .. Len(w) + Len(x) : (w \o x)[i] = x[i - Len(w)]
    BY <2>1, ConcatAt, Zenon
  <2>3. ASSUME NEW j \in 0 .. 2 * BlockSize - 1 PROVE (w \o x)[j + 1] = LastByte(j)
    <3>1. CASE j < BlockSize
      <4>1. j + 1 \in 1 .. BlockSize /\ (j + 1) - 1 = j
        BY <1>a, <3>1
      <4>2. (w \o x)[j + 1] = LastByte((j + 1) - 1)
        BY <2>1, <2>2, <4>1
      <4> QED BY <4>1, <4>2
    <3>2. CASE ~(j < BlockSize)
      <4> DEFINE i == j + 1 - BlockSize
      <4>1. /\ i \in 1 .. BlockSize /\ BlockSize + (i - 1) = j
            /\ j + 1 \in BlockSize + 1 .. BlockSize + BlockSize /\ (j + 1) - BlockSize = i
        BY <1>a, <3>2
      <4> HIDE DEF i
      <4>2. (w \o x)[j + 1] = x[i]
        BY <2>1, <2>2, <4>1, Zenon
      <4>3. x[i] = LastByte(BlockSize + (i - 1))
        BY <2>1, <4>1
      <4> QED BY <4>1, <4>2, <4>3
    <3> QED BY <3>1, <3>2
  <2>4. Len(w \o x) = 2 * BlockSize
    BY <1>a, <2>1, <2>2
  <2>5. end = 2 * BlockSize
    BY <1>2, <1>c
  <2>6. /\ w \o x \in Seq(Byte) /\ Len(w \o x) = end
        /\ \A j \in 0 .. end - 1 : (w \o x)[j + 1] = LastByte(j)
    BY <2>2, <2>3, <2>4, <2>5
  <2>7. FinalBlocks = w \o x
    BY <1>2 DEF FinalBlocks, w, x
  <2> QED BY <2>6, <2>7
<1>3. Complete
  BY <1>1, <1>2
<1> QED BY <1>3

\* What getHash has hashed is the message, padded as the comment pads it.
LEMMA DigestIsPadded ==
  ASSUME Inv
  PROVE  hashed \o FinalBlocks = Padded(total)
<1> DEFINE zeros == PaddedLength - bufferSize - 1
           d == hashed \o FinalBlocks
           p == Padded(total)
           end == PaddedLength + LengthSize
<1>a. /\ LengthSize \in Nat /\ hashed \in Seq(Byte) /\ Len(hashed) = numBytes
      /\ numBytes \in Nat /\ total \in Nat /\ bufferSize \in Nat /\ bufferSize \in Index
      /\ total = numBytes + bufferSize
      /\ \A i \in 1 .. numBytes : hashed[i] = Message(i - 1)
  BY BlockAssumption DEF Inv, BufferHoldsTheRest, Index
<1>b. PaddedLength \in Nat /\ zeros \in Nat /\ PaddedLength = bufferSize + 1 + zeros
  <2>1. zeros \in 0 .. BlockSize - 1 /\ BlockSize \in Nat /\ PaddedLength \in Nat
    BY <1>a, BlockAssumption, PaddedLengths
  <2> QED BY <1>a, <2>1
<1>1. /\ FinalBlocks \in Seq(Byte) /\ Len(FinalBlocks) = end
      /\ \A j \in 0 .. end - 1 : FinalBlocks[j + 1] = LastByte(j)
  BY LastBlocks
<1>2. zeros = CHOOSE y \in 0 .. BlockSize - 1 : (total + 1 + y + LengthSize) % BlockSize = 0
  BY PaddingFits
<1> HIDE DEF zeros
<1>3. /\ p \in Seq(Byte) /\ Len(p) = total + 1 + zeros + LengthSize
      /\ \A i \in 1 .. total : p[i] = Message(i - 1)
      /\ p[total + 1] = One
      /\ \A i \in total + 2 .. total + 1 + zeros : p[i] = Zero
      /\ \A i \in total + zeros + 2 .. total + zeros + 1 + LengthSize :
           p[i] = Length(8 * total, i - (total + zeros + 2))
  BY <1>a, <1>b, <1>2, PaddedAt
<1> HIDE DEF p
<1>4. /\ d \in Seq(Byte) /\ Len(d) = numBytes + end
      /\ \A i \in 1 .. numBytes : d[i] = Message(i - 1)
      /\ \A j \in 0 .. end - 1 : d[numBytes + 1 + j] = LastByte(j)
  <2>1. /\ d \in Seq(Byte) /\ Len(d) = Len(hashed) + Len(FinalBlocks)
        /\ \A i \in 1 .. Len(hashed) : d[i] = hashed[i]
        /\ \A i \in Len(hashed) + 1 .. Len(hashed) + Len(FinalBlocks) :
             d[i] = FinalBlocks[i - Len(hashed)]
    BY <1>a, <1>1, ConcatAt, Zenon
  <2>2. ASSUME NEW j \in 0 .. end - 1 PROVE d[numBytes + 1 + j] = LastByte(j)
    <3>1. /\ numBytes + 1 + j \in Len(hashed) + 1 .. Len(hashed) + Len(FinalBlocks)
          /\ (numBytes + 1 + j) - Len(hashed) = j + 1
      BY <1>a, <1>b, <1>1
    <3>2. d[numBytes + 1 + j] = FinalBlocks[j + 1]
      BY <2>1, <3>1
    <3> QED BY <1>1, <3>2
  <2>3. \A i \in 1 .. numBytes : d[i] = Message(i - 1)
    BY <1>a, <2>1
  <2>4. Len(d) = numBytes + end
    BY <1>a, <1>1, <2>1
  <2> QED BY <2>1, <2>2, <2>3, <2>4
<1> HIDE DEF d
<1>5. Len(d) = Len(p) /\ Len(d) \in Nat
  BY <1>a, <1>b, <1>3, <1>4
<1>6. ASSUME NEW i \in 1 .. Len(d) PROVE d[i] = p[i]
  <2>0. /\ i \in Nat /\ 1 <= i /\ i <= numBytes + bufferSize + 1 + zeros + LengthSize
    BY <1>a, <1>b, <1>4
  <2>1. CASE i <= numBytes
    <3>1. i \in 1 .. numBytes /\ i \in 1 .. total
      BY <1>a, <2>0, <2>1
    <3> QED BY <1>3, <1>4, <3>1
  <2>2. CASE i > numBytes
    <3> DEFINE j == i - (numBytes + 1)
    <3>1. j \in 0 .. end - 1 /\ j \in Nat /\ numBytes + 1 + j = i
      BY <1>a, <1>b, <2>0, <2>2
    <3> HIDE DEF j
    <3>2. d[i] = LastByte(j)
      BY <1>4, <3>1
    <3>3. CASE j < bufferSize
      <4>1. i \in 1 .. total /\ i - 1 = numBytes + j
        BY <1>a, <3>1, <3>3
      <4>2. p[i] = Message(numBytes + j)
        BY <1>3, <4>1
      <4> QED BY <3>2, <3>3, <4>2 DEF LastByte
    <3>4. CASE j = bufferSize
      <4>1. /\ i = total + 1 /\ ~(j < bufferSize)
            /\ j \notin PaddedLength .. PaddedLength + LengthSize - 1
        BY <1>a, <1>b, <3>1, <3>4
      <4>2. LastByte(j) = One
        BY <3>4, <4>1 DEF LastByte, Padding
      <4> QED BY <1>3, <3>2, <4>1, <4>2
    <3>5. CASE bufferSize < j /\ j < PaddedLength
      <4>1. /\ i \in total + 2 .. total + 1 + zeros /\ ~(j < bufferSize) /\ j # bufferSize
            /\ j \notin PaddedLength .. PaddedLength + LengthSize - 1
        BY <1>a, <1>b, <3>1, <3>5
      <4>2. LastByte(j) = Zero
        BY <3>5, <4>1 DEF LastByte, Padding
      <4> QED BY <1>3, <3>2, <4>1, <4>2
    <3>6. CASE PaddedLength <= j
      <4>1. /\ i \in total + zeros + 2 .. total + zeros + 1 + LengthSize /\ ~(j < bufferSize)
            /\ j \in PaddedLength .. PaddedLength + LengthSize - 1
            /\ i - (total + zeros + 2) = j - PaddedLength
        BY <1>a, <1>b, <3>1, <3>6
      <4>2. LastByte(j) = Length(8 * (numBytes + bufferSize), j - PaddedLength)
        BY <4>1 DEF LastByte, Padding
      <4>3. p[i] = Length(8 * total, i - (total + zeros + 2))
        BY <1>3, <4>1
      <4> QED BY <1>a, <3>2, <4>1, <4>2, <4>3
    <3> QED BY <1>a, <1>b, <3>1, <3>3, <3>4, <3>5, <3>6
  <2> QED BY <1>a, <2>0, <2>1, <2>2
<1>7. d = p
  <2>1. d = [i \in 1 .. Len(d) |-> d[i]] /\ p = [i \in 1 .. Len(p) |-> p[i]]
    BY <1>3, <1>4
  <2> QED BY <1>5, <1>6, <2>1
<1> QED BY <1>7 DEF d, p

\* getHash leaves what the object holds of the message.
LEMMA GetHashKeeps ==
  ASSUME Inv, GetHash
  PROVE  Inv' /\ digest' = Padded(total')
<1>1. UNCHANGED <<hashed, bufferSize, numBytes, total>> /\ buffer' = last
  BY DEF GetHash, last
<1>2. \A i \in 0 .. bufferSize - 1 : buffer'[i] = buffer[i]
  <2>1. \A i \in 0 .. bufferSize - 1 : i \in Index /\ i < bufferSize
    BY BlockAssumption DEF Inv, BufferHoldsTheRest, Index
  <2> QED BY <1>1, <2>1 DEF last
<1>3. Inv'
  BY <1>1, <1>2 DEF Inv, BufferHoldsTheRest
<1>4. digest' = hashed \o FinalBlocks
  <2>1. hashed \in Seq(Byte) /\ Bytes(last) \in Seq(Byte) /\ Bytes(extra) \in Seq(Byte)
    BY BlockBytes DEF Inv
  <2>2. digest' = (hashed \o Bytes(last))
                    \o (IF PaddedLength > BlockSize THEN Bytes(extra) ELSE <<>>)
    BY DEF GetHash, last, extra
  <2>3. CASE PaddedLength > BlockSize
    BY <2>1, <2>2, <2>3, ConcatAssociative DEF FinalBlocks
  <2>4. CASE ~(PaddedLength > BlockSize)
    <3>1. hashed \o Bytes(last) \in Seq(Byte)
      BY <2>1
    <3>2. digest' = (hashed \o Bytes(last)) \o <<>>
      BY <2>2, <2>4
    <3> QED BY <2>4, <3>1, <3>2, ConcatEmptySeq DEF FinalBlocks
  <2> QED BY <2>3, <2>4
<1> QED BY <1>1, <1>3, <1>4, DigestIsPadded
-----------------------------------------------------------------------------
\* Every call keeps the object in order and returns what it should.
LEMMA InvStep ==
  Inv /\ DigestIsOfMessage /\ [Next]_vars => Inv' /\ DigestIsOfMessage'
<1> SUFFICES ASSUME Inv, DigestIsOfMessage, [Next]_vars PROVE Inv' /\ DigestIsOfMessage'
  OBVIOUS
<1>1. CASE Reset
  BY <1>1, ResetKeeps DEF Reset, DigestIsOfMessage
<1>2. ASSUME NEW n \in Chunks, Add(n) PROVE Inv' /\ DigestIsOfMessage'
  <2>1. digest' = None
    BY <1>2 DEF Add
  <2> QED BY <1>2, <2>1, AddKeeps DEF DigestIsOfMessage
<1>3. CASE GetHash
  <2>1. Inv' /\ digest' = Padded(total')
    BY <1>3, GetHashKeeps
  <2>2. total' = total
    BY <1>3 DEF GetHash
  <2>3. DigestIsOfMessage'
    BY <1>3, <2>1, <2>2 DEF DigestIsOfMessage, Padded, Message, One, Zero, Length
  <2> QED BY <2>1, <2>3
<1>4. CASE UNCHANGED vars
  <2>1. Inv'
    BY <1>4 DEF vars, Inv, BufferHoldsTheRest
  <2>2. DigestIsOfMessage'
    BY <1>4 DEF vars, DigestIsOfMessage
  <2> QED BY <2>1, <2>2
<1> QED BY <1>1, <1>2, <1>3, <1>4 DEF Next

\* However the message is cut into pieces and whenever hashes are asked for
\* on the way, every byte is hashed or kept, in its place.
THEOREM BufferIsInOrder == Spec => []BufferHoldsTheRest
<1>1. Init => DigestIsOfMessage
  BY DEF Init, DigestIsOfMessage
<1>2. Inv => BufferHoldsTheRest
  BY DEF Inv
<1> QED BY <1>1, <1>2, InvInit, InvStep, PTL DEF Spec

\* Every hash returned is that of the whole message, padded as the comment
\* says, and of nothing else.
THEOREM DigestsAreOfMessages == Spec => []DigestIsOfMessage
<1>1. Init => DigestIsOfMessage
  BY DEF Init, DigestIsOfMessage
<1> QED BY <1>1, InvInit, InvStep, PTL DEF Spec
=============================================================================
