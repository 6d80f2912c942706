---------------------------- MODULE FramingProofs ----------------------------
(***************************************************************************)
(* Proofs about Framing, for any size of a length, any number of values of *)
(* a byte, any messages and any number of them, and segments that end      *)
(* anywhere.                                                               *)
(***************************************************************************)
EXTENDS Framing, SequenceTheorems, WellFoundedInduction, TLAPS

-----------------------------------------------------------------------------
(* Induction and recursion on 0 .. N, from the order of the naturals.      *)

\* A set of naturals has a least element.
LEMMA Least ==
  ASSUME NEW T, T \subseteq Nat, T # {}
  PROVE  \E x \in T : \A y \in T : x <= y
<1>1. IsWellFoundedOn(OpToRel(<, Nat), Nat)
  BY NatLessThanWellFounded
<1>2. \E x \in T : \A y \in T : ~(<<y, x>> \in OpToRel(<, Nat))
  BY <1>1, WFMin
<1>3. PICK x \in T : \A y \in T : ~(<<y, x>> \in OpToRel(<, Nat))
  BY <1>2
<1>4. \A y \in T : x \in Nat /\ y \in Nat /\ ~(y < x)
  BY <1>3 DEF OpToRel
<1>5. \A y \in T : x <= y
  BY <1>4
<1> QED BY <1>3, <1>5

\* What holds of 0, and of k + 1 when it holds of k, holds of all.
LEMMA Induct ==
  ASSUME NEW N \in Nat, NEW S, 0 \in S, \A k \in 0 .. N : k \in S /\ k < N => k + 1 \in S
  PROVE  \A k \in 0 .. N : k \in S
<1> DEFINE T == {k \in 0 .. N : k \notin S}
<1> SUFFICES ASSUME T # {} PROVE FALSE
  OBVIOUS
<1>1. PICK x \in T : \A y \in T : x <= y
  <2>1. T \subseteq Nat
    OBVIOUS
  <2> HIDE DEF T
  <2> QED BY <2>1, Least
<1>2. x # 0 /\ x - 1 \in 0 .. N /\ x - 1 \notin T
  BY <1>1
<1> QED BY <1>1, <1>2

\* Some function has the value a at 0 and follows g from there.
Defined(N, V, a, g) ==
  \E f \in [0 .. N -> V] : f[0] = a /\ \A k \in 1 .. N : f[k] = g[k][f[k - 1]]

\* Recursion on 0 .. N defines a function.
LEMMA Recursion ==
  ASSUME NEW N \in Nat, NEW V, NEW a \in V, NEW g \in [1 .. N -> [V -> V]]
  PROVE  Defined(N, V, a, g)
<1> DEFINE Good(n, f) == f[0] = a /\ \A k \in 1 .. n : f[k] = g[k][f[k - 1]]
           S == {n \in 0 .. N : \E f \in [0 .. n -> V] : Good(n, f)}
<1>1. 0 \in S
  <2>1. [k \in 0 .. 0 |-> a] \in [0 .. 0 -> V] /\ Good(0, [k \in 0 .. 0 |-> a])
    OBVIOUS
  <2>2. \E f \in [0 .. 0 -> V] : Good(0, f)
    BY <2>1
  <2> QED BY <2>2
<1>2. ASSUME NEW n \in 0 .. N, n \in S, n < N PROVE n + 1 \in S
  <2>1. PICK f \in [0 .. n -> V] : Good(n, f)
    BY <1>2
  <2> DEFINE h == [k \in 0 .. n + 1 |-> IF k = n + 1 THEN g[n + 1][f[n]] ELSE f[k]]
  <2>2. h \in [0 .. n + 1 -> V]
    <3>1. f[n] \in V /\ n + 1 \in 1 .. N
      BY <1>2
    <3>2. g[n + 1][f[n]] \in V
      BY <3>1
    <3> QED BY <3>2
  <2>3. h[0] = a
    BY <2>1
  <2>4. ASSUME NEW k \in 1 .. n + 1 PROVE h[k] = g[k][h[k - 1]]
    <3>1. CASE k = n + 1
      <4>1. h[k] = g[k][f[n]] /\ h[k - 1] = f[n]
        BY <3>1
      <4> QED BY <4>1
    <3>2. CASE k # n + 1
      <4>1. h[k] = f[k] /\ h[k - 1] = f[k - 1] /\ k \in 1 .. n
        BY <3>2
      <4> QED BY <4>1, <2>1
    <3> QED BY <3>1, <3>2
  <2>5. \E x \in [0 .. n + 1 -> V] : Good(n + 1, x)
    <3>1. Good(n + 1, h)
      BY <2>3, <2>4
    <3> HIDE DEF h, Good
    <3> QED BY <2>2, <3>1
  <2>6. n + 1 \in 0 .. N
    BY <1>2
  <2> HIDE DEF Good
  <2> QED BY <2>5, <2>6
<1>3. N \in S
  <2> HIDE DEF S
  <2>1. \A k \in 0 .. N : k \in S /\ k < N => k + 1 \in S
    BY <1>2
  <2>2. \A k \in 0 .. N : k \in S
    BY <1>1, <2>1, Induct
  <2> QED BY <2>2
<1>4. PICK f \in [0 .. N -> V] : Good(N, f)
  BY <1>3
<1> QED BY <1>4 DEF Defined
-----------------------------------------------------------------------------
(* A length survives htonl and ntohl.                                      *)

\* Power is what its definition says.
LEMMA PowerFacts ==
  /\ Power[0] = 1
  /\ \A k \in 1 .. LengthSize : Power[k] = Base * Power[k - 1]
  /\ \A k \in 0 .. LengthSize : Power[k] \in Nat \ {0}
<1> USE SizesAssumption
<1> DEFINE g == [k \in 1 .. LengthSize |-> [v \in Nat |-> Base * v]]
<1>1. g \in [1 .. LengthSize -> [Nat -> Nat]]
  OBVIOUS
<1>2. \E f \in [0 .. LengthSize -> Nat] :
        f[0] = 1 /\ \A k \in 1 .. LengthSize : f[k] = g[k][f[k - 1]]
  <2>1. LengthSize \in Nat /\ 1 \in Nat
    OBVIOUS
  <2>2. Defined(LengthSize, Nat, 1, g)
    <3> HIDE DEF g
    <3> QED BY <1>1, <2>1, Recursion
  <2> HIDE DEF g
  <2> QED BY <2>2 DEF Defined
<1>3. PICK f \in [0 .. LengthSize -> Nat] :
        f[0] = 1 /\ \A k \in 1 .. LengthSize : f[k] = g[k][f[k - 1]]
  BY <1>2
<1>a. ASSUME NEW k \in 1 .. LengthSize PROVE f[k] = Base * f[k - 1]
  <2>1. f[k - 1] \in Nat /\ f[k] = g[k][f[k - 1]]
    <3> HIDE DEF g
    <3> QED BY <1>3
  <2> QED BY <2>1
<1>4. f = [k \in 0 .. LengthSize |-> IF k = 0 THEN 1 ELSE Base * f[k - 1]]
  <2> HIDE DEF g
  <2>1. ASSUME NEW k \in 0 .. LengthSize PROVE f[k] = IF k = 0 THEN 1 ELSE Base * f[k - 1]
    <3>1. k # 0 => k \in 1 .. LengthSize
      OBVIOUS
    <3> QED BY <3>1, <1>a, <1>3
  <2>2. f = [k \in 0 .. LengthSize |-> f[k]]
    OBVIOUS
  <2> QED BY <2>1, <2>2, Zenon
<1>5. Power = [k \in 0 .. LengthSize |-> IF k = 0 THEN 1 ELSE Base * Power[k - 1]]
  BY <1>4, Zenon DEF Power
<1> HIDE DEF g
<1>6. Power[0] = 1 /\ \A k \in 1 .. LengthSize : Power[k] = Base * Power[k - 1]
  <2>1. \A k \in 0 .. LengthSize : Power[k] = IF k = 0 THEN 1 ELSE Base * Power[k - 1]
    BY <1>5, Zenon
  <2>2. 0 \in 0 .. LengthSize /\ \A k \in 1 .. LengthSize : k \in 0 .. LengthSize /\ k # 0
    OBVIOUS
  <2> QED BY <2>1, <2>2, Zenon
<1>7. \A k \in 0 .. LengthSize : Power[k] \in Nat \ {0}
  <2> DEFINE S == {k \in 0 .. LengthSize : Power[k] \in Nat \ {0}}
  <2>1. 0 \in S
    BY <1>6
  <2>2. ASSUME NEW k \in 0 .. LengthSize, k \in S, k < LengthSize PROVE k + 1 \in S
    <3>1. k + 1 \in 1 .. LengthSize /\ Power[k + 1] = Base * Power[k] /\ Power[k] \in Nat \ {0}
      BY <2>2, <1>6
    <3>2. Base * Power[k] \in Nat \ {0}
      BY <3>1
    <3> QED BY <3>1, <3>2
  <2>3. LengthSize \in Nat
    OBVIOUS
  <2>4. \A k \in 0 .. LengthSize : k \in S
    <3> HIDE DEF S
    <3> QED BY <2>1, <2>2, <2>3, Induct
  <2> QED BY <2>4
<1> QED BY <1>6, <1>7

\* So is ntohl: it computes one value after another, a byte at a time.
LEMMA ValueFacts ==
  ASSUME NEW bytes \in [1 .. LengthSize -> Int]
  PROVE  \E v \in [0 .. LengthSize -> Int] :
           /\ v[0] = 0
           /\ \A k \in 1 .. LengthSize : v[k] = v[k - 1] * Base + bytes[k]
           /\ ValueOf(bytes) = v[LengthSize]
<1> USE SizesAssumption
<1> DEFINE g == [k \in 1 .. LengthSize |-> [v \in Int |-> v * Base + bytes[k]]]
<1>1. g \in [1 .. LengthSize -> [Int -> Int]]
  OBVIOUS
<1>2. \E f \in [0 .. LengthSize -> Int] :
        f[0] = 0 /\ \A k \in 1 .. LengthSize : f[k] = g[k][f[k - 1]]
  <2>1. LengthSize \in Nat /\ 0 \in Int
    OBVIOUS
  <2>2. Defined(LengthSize, Int, 0, g)
    <3> HIDE DEF g
    <3> QED BY <1>1, <2>1, Recursion
  <2> HIDE DEF g
  <2> QED BY <2>2 DEF Defined
<1>3. PICK f \in [0 .. LengthSize -> Int] :
        f[0] = 0 /\ \A k \in 1 .. LengthSize : f[k] = g[k][f[k - 1]]
  BY <1>2
<1>a. ASSUME NEW k \in 1 .. LengthSize PROVE f[k] = f[k - 1] * Base + bytes[k]
  <2>1. f[k - 1] \in Int /\ f[k] = g[k][f[k - 1]]
    <3> HIDE DEF g
    <3> QED BY <1>3
  <2> QED BY <2>1
<1>4. f = [k \in 0 .. LengthSize |-> IF k = 0 THEN 0 ELSE f[k - 1] * Base + bytes[k]]
  <2> HIDE DEF g
  <2>1. ASSUME NEW k \in 0 .. LengthSize PROVE f[k] = IF k = 0 THEN 0 ELSE f[k - 1] * Base + bytes[k]
    <3>1. k # 0 => k \in 1 .. LengthSize
      OBVIOUS
    <3> QED BY <3>1, <1>a, <1>3
  <2>2. f = [k \in 0 .. LengthSize |-> f[k]]
    OBVIOUS
  <2> QED BY <2>1, <2>2, Zenon
<1> HIDE DEF g
<1> DEFINE v == CHOOSE w : w = [k \in 0 .. LengthSize |->
                                  IF k = 0 THEN 0 ELSE w[k - 1] * Base + bytes[k]]
<1>5. v = [k \in 0 .. LengthSize |-> IF k = 0 THEN 0 ELSE v[k - 1] * Base + bytes[k]]
  BY <1>4, Zenon
<1>6. ValueOf(bytes) = v[LengthSize]
  BY Zenon DEF ValueOf
<1> HIDE DEF v
<1>7. v[0] = 0 /\ \A k \in 1 .. LengthSize : v[k] = v[k - 1] * Base + bytes[k]
  <2>1. \A k \in 0 .. LengthSize : v[k] = IF k = 0 THEN 0 ELSE v[k - 1] * Base + bytes[k]
    BY <1>5, Zenon
  <2>2. 0 \in 0 .. LengthSize /\ \A k \in 1 .. LengthSize : k \in 0 .. LengthSize /\ k # 0
    OBVIOUS
  <2> QED BY <2>1, <2>2, Zenon
<1>8. \A k \in 0 .. LengthSize : v[k] \in Int
  <2> DEFINE S == {k \in 0 .. LengthSize : v[k] \in Int}
  <2>1. 0 \in S
    BY <1>7
  <2>2. ASSUME NEW k \in 0 .. LengthSize, k \in S, k < LengthSize PROVE k + 1 \in S
    <3>1. k + 1 \in 1 .. LengthSize /\ v[k + 1] = v[k] * Base + bytes[k + 1] /\ v[k] \in Int
      BY <2>2, <1>7
    <3>2. v[k] * Base + bytes[k + 1] \in Int
      BY <3>1
    <3> QED BY <3>1, <3>2
  <2>3. LengthSize \in Nat
    OBVIOUS
  <2>4. \A k \in 0 .. LengthSize : k \in S
    <3> HIDE DEF S
    <3> QED BY <2>1, <2>2, <2>3, Induct
  <2> QED BY <2>4
<1>9. v \in [0 .. LengthSize -> Int]
  BY <1>5, <1>8
<1> QED BY <1>6, <1>7, <1>9

\* Quotient and remainder are the only ones.
LEMMA Quotient ==
  ASSUME NEW d \in Nat \ {0}, NEW s \in Nat, NEW u \in 0 .. d - 1
  PROVE  (d * s + u) \div d = s
<1> DEFINE m == d * s + u
           p == m \div d
           r == m % d
<1>1. d * s \in Nat /\ m \in Nat
  OBVIOUS
<1>2. p \in Nat /\ r \in 0 .. d - 1 /\ m = p * d + r
  BY <1>1
<1>3. s * d - p * d = r - u
  BY <1>1, <1>2
<1>4. (s - p) * d = r - u
  BY <1>2, <1>3
<1>5. s - p = 0
  <2>1. CASE s - p >= 1
    <3>1. (s - p) * d >= d
      BY <1>2, <2>1
    <3> QED BY <1>2, <1>4, <3>1
  <2>2. CASE s - p <= -1
    <3>1. (s - p) * d <= -d
      BY <1>2, <2>2
    <3> QED BY <1>2, <1>4, <3>1
  <2> QED BY <1>2, <2>1, <2>2
<1> QED BY <1>2, <1>5

\* Dividing by a product is dividing twice.
LEMMA DivideTwice ==
  ASSUME NEW n \in Nat, NEW p \in Nat \ {0}, NEW b \in Nat \ {0}
  PROVE  n \div p = (n \div (b * p)) * b + ((n \div p) % b)
<1>1. PICK q \in Nat, r \in 0 .. p - 1 : n \div p = q /\ n = p * q + r
  <2>1. n \div p \in Nat /\ n % p \in 0 .. p - 1 /\ n = p * (n \div p) + (n % p)
    OBVIOUS
  <2> QED BY <2>1
<1>2. PICK s \in Nat, t \in 0 .. b - 1 : q % b = t /\ q = b * s + t
  <2>1. q \div b \in Nat /\ q % b \in 0 .. b - 1 /\ q = b * (q \div b) + (q % b)
    BY <1>1
  <2> QED BY <2>1
<1>3. PICK d \in Nat \ {0} : d = b * p
  <2>1. b * p \in Nat \ {0}
    OBVIOUS
  <2> QED BY <2>1
<1>4. PICK m \in Nat : m = p * t
  <2>1. p * t \in Nat
    BY <1>2
  <2> QED BY <2>1
<1>5. m + r \in 0 .. d - 1
  <2>1. p * t <= p * (b - 1)
    BY <1>2
  <2>2. p * (b - 1) = d - p
    BY <1>3
  <2> QED BY <1>1, <1>3, <1>4, <2>1, <2>2
<1>6. n = d * s + (m + r)
  <2>1. p * q = p * (b * s) + p * t
    BY <1>1, <1>2
  <2>2. p * (b * s) = d * s
    BY <1>2, <1>3
  <2>3. d * s \in Nat
    BY <1>2, <1>3
  <2> QED BY <1>1, <1>4, <2>1, <2>2, <2>3
<1>7. n \div d = s
  BY <1>3, <1>5, <1>6, Quotient
<1>8. s * b + t = q
  BY <1>1, <1>2
<1> QED BY <1>1, <1>2, <1>3, <1>7, <1>8

\* ntohl undoes htonl for every length a message may have.
LEMMA HeaderDecodes ==
  ASSUME NEW n \in Nat, 2 * n < Power[LengthSize]
  PROVE  LengthOf(Header(n)) = n
<1> USE SizesAssumption
<1>1. \A k \in 1 .. LengthSize : LengthSize - k \in 0 .. LengthSize
  OBVIOUS
<1>2. \A k \in 0 .. LengthSize : Power[k] \in Nat \ {0}
  BY PowerFacts
<1>3. Header(n) \in [1 .. LengthSize -> Int]
  <2>1. ASSUME NEW k \in 1 .. LengthSize
        PROVE  (n \div Power[LengthSize - k]) % Base \in Int
    <3>1. PICK p \in Nat \ {0} : p = Power[LengthSize - k]
      BY <1>1, <1>2
    <3>2. (n \div p) % Base \in Int
      OBVIOUS
    <3> QED BY <3>1, <3>2
  <2> QED BY <2>1 DEF Header
<1>4. PICK v \in [0 .. LengthSize -> Int] :
        /\ v[0] = 0
        /\ \A k \in 1 .. LengthSize : v[k] = v[k - 1] * Base + Header(n)[k]
        /\ ValueOf(Header(n)) = v[LengthSize]
  BY <1>3, ValueFacts
<1> DEFINE S == {k \in 0 .. LengthSize : v[k] = n \div Power[LengthSize - k]}
<1>5. 0 \in S
  <2>1. PICK p \in Nat \ {0} : p = Power[LengthSize - 0]
    BY <1>2
  <2>2. n \in 0 .. p - 1
    BY <2>1
  <2>3. (p * 0 + n) \div p = 0
    BY <2>1, <2>2, Quotient
  <2>4. p * 0 + n = n
    BY <2>1
  <2> QED BY <1>4, <2>1, <2>3, <2>4
<1>6. ASSUME NEW k \in 0 .. LengthSize, k \in S, k < LengthSize PROVE k + 1 \in S
  <2>1. k + 1 \in 1 .. LengthSize /\ LengthSize - (k + 1) \in 0 .. LengthSize
        /\ LengthSize - k \in 1 .. LengthSize /\ (LengthSize - k) - 1 = LengthSize - (k + 1)
        /\ (k + 1) - 1 = k
    BY <1>6
  <2>2. PICK p \in Nat \ {0} : p = Power[LengthSize - (k + 1)]
    BY <2>1, <1>2
  <2>3. Power[LengthSize - k] = Base * p
    BY <2>1, <2>2, PowerFacts
  <2>4. n \div p = (n \div (Base * p)) * Base + ((n \div p) % Base)
    BY DivideTwice
  <2>5. v[k] = n \div (Base * p)
    BY <1>6, <2>3
  <2>6. Header(n)[k + 1] = (n \div p) % Base
    BY <2>1, <2>2 DEF Header
  <2>7. v[k + 1] = v[k] * Base + Header(n)[k + 1]
    BY <2>1, <1>4
  <2>8. v[k + 1] = n \div p
    BY <2>4, <2>5, <2>6, <2>7
  <2> QED BY <2>1, <2>2, <2>8
<1>7. LengthSize \in S
  <2>1. LengthSize \in Nat /\ LengthSize \in 0 .. LengthSize
    OBVIOUS
  <2> HIDE DEF S
  <2>2. \A k \in 0 .. LengthSize : k \in S
    BY <1>5, <1>6, <2>1, Induct
  <2> QED BY <2>1, <2>2
<1>8. v[LengthSize] = n
  <2>1. v[LengthSize] = n \div Power[0]
    BY <1>7
  <2>2. n \div 1 = n
    OBVIOUS
  <2> QED BY <2>1, <2>2, PowerFacts
<1>9. 2 * n < Power[LengthSize] /\ Power[LengthSize] \in Nat
  BY <1>2
<1> QED BY <1>4, <1>8, <1>9 DEF LengthOf, Signed

\* Whatever bytes are taken for a length, the result is an int.
LEMMA LengthType ==
  ASSUME NEW bytes \in [1 .. LengthSize -> Int]
  PROVE  LengthOf(bytes) \in Int
<1>1. ValueOf(bytes) \in Int
  BY ValueFacts, SizesAssumption
<1>2. Power[LengthSize] \in Int
  BY PowerFacts, SizesAssumption
<1> QED BY <1>1, <1>2 DEF LengthOf, Signed
-----------------------------------------------------------------------------
(* The invariant.                                                          *)

Types ==
  /\ reader \in {"leaves", "goes on"} /\ peer \in {"open", "fin", "rst"}
  /\ stream \in Seq(0 .. Base - 1)
  /\ frames \in Seq([at : Nat, payload : Payloads])
  /\ arrived \in Nat /\ arrived <= Len(stream)
  /\ pos \in Nat /\ pos <= arrived
  /\ pc \in {"length", "payload", "closed", "thrown"}
  /\ want \in Int
  /\ taken \in Seq([at : Nat, payload : Seq(0 .. Base - 1)])
  /\ cuts \subseteq Nat

\* Frame k lies in the stream as a header and the payload behind it.
InPlace(k) ==
  /\ Ends(k) <= Len(stream)
  /\ \A i \in 1 .. LengthSize :
       stream[frames[k].at + i] = Header(Len(frames[k].payload))[i]
  /\ \A i \in 1 .. Len(frames[k].payload) :
       stream[frames[k].at + LengthSize + i] = frames[k].payload[i]

\* The frames follow one another without a gap, and fill the stream.
Layout ==
  /\ frames = <<>> => Len(stream) = 0
  /\ frames # <<>> => frames[1].at = 0 /\ Ends(Len(frames)) = Len(stream)
  /\ \A k \in 1 .. Len(frames) : k < Len(frames) => frames[k + 1].at = Ends(k)
  /\ \A j, k \in 1 .. Len(frames) : j < k => Ends(j) <= frames[k].at
  /\ \A k \in 1 .. Len(frames) : InPlace(k)

\* Where the message begins that the reader is at.
Begun == IF pc \in {"payload", "thrown"} THEN pos - LengthSize ELSE pos

PlaceInv ==
  /\ Begun \in Nat
  /\ pc = "payload" => want \in Nat
  /\ \A c \in cuts : c <= Begun
  /\ \A k \in 1 .. Len(taken) : taken[k].at + LengthSize <= Begun
  /\ \A j, k \in 1 .. Len(taken) : j < k => taken[j].at < taken[k].at

\* The reader went on from inside a message.
Lost == reader = "goes on" /\ \E c \in cuts : c <= Begun /\ ~Boundary(c)

\* A reader that is not lost is where a message begins, and knows its length.
AlignInv ==
  /\ pc = "length" => peer = "rst" \/ Boundary(pos) \/ Lost
  /\ pc = "payload" =>
       \/ Lost
       \/ \E k \in 1 .. Len(frames) :
            frames[k].at = Begun /\ Len(frames[k].payload) = want
  /\ pc = "thrown" => Lost

\* Before the first short read the reader is at the message after those it
\* has taken.
CountInv ==
  /\ cuts = {} /\ (pc = "payload" \/ (pc = "length" /\ peer # "rst")) =>
       Begun = IF Len(taken) < Len(frames) THEN frames[Len(taken) + 1].at ELSE Len(stream)
  /\ reader = "leaves" /\ cuts # {} => pc = "closed"
  /\ reader = "leaves" \/ cuts = {} =>
       Len(taken) <= Len(frames) /\ \A k \in 1 .. Len(taken) : taken[k] = frames[k]

\* No message that ends where the reader has been is missing, unless a read
\* was short before its end.
SkipInv ==
  \A k \in 1 .. Len(frames) :
    Ends(k) <= Begun =>
      (k <= Len(taken) /\ taken[k] = frames[k]) \/ \E c \in cuts : c <= Ends(k)

FramingInv ==
  Types /\ Layout /\ PlaceInv /\ AlignInv /\ CountInv /\ SkipInv /\ TakenIsSent

\* Nothing is sent or read at first.
LEMMA InitInv == Init => FramingInv
<1> SUFFICES ASSUME Init PROVE FramingInv
  OBVIOUS
<1> USE SizesAssumption
<1>a. reader \in {"leaves", "goes on"}
  BY ReadersAssumption, Zenon DEF Init
<1>b. \A S : <<>> \in Seq(S)
  OBVIOUS
<1>c. stream = <<>> /\ frames = <<>> /\ taken = <<>>
  BY DEF Init
<1>0. /\ peer = "open" /\ pc = "length" /\ want = 0 /\ arrived = 0 /\ pos = 0 /\ cuts = {}
      /\ Len(stream) = 0 /\ Len(frames) = 0 /\ Len(taken) = 0
      /\ \A k \in 1 .. 0 : FALSE
  BY DEF Init
<1>1. Types
  <2>1. /\ stream \in Seq(0 .. Base - 1)
        /\ frames \in Seq([at : Nat, payload : Payloads])
        /\ taken \in Seq([at : Nat, payload : Seq(0 .. Base - 1)])
    BY <1>b, <1>c, Zenon
  <2>2. /\ peer \in {"open", "fin", "rst"} /\ pc \in {"length", "payload", "closed", "thrown"}
        /\ arrived \in Nat /\ pos \in Nat /\ arrived <= Len(stream) /\ pos <= arrived
        /\ want \in Int /\ cuts \subseteq Nat
    BY <1>0
  <2> QED BY <1>a, <2>1, <2>2, Zenon DEF Types
<1>2. Layout /\ SkipInv /\ TakenIsSent
  BY <1>0, <1>c, Zenon DEF Layout, SkipInv, TakenIsSent
<1>3. Begun = 0
  BY <1>0 DEF Begun
<1>4. PlaceInv
  BY <1>0, <1>3 DEF PlaceInv
<1>5. AlignInv
  BY <1>0 DEF AlignInv, Boundary
<1>6. CountInv
  <2>1. \A k \in 1 .. Len(taken) : taken[k] = frames[k]
    BY <1>0, Zenon
  <2> QED BY <1>0, <1>3, <2>1 DEF CountInv
<1> QED BY <1>1, <1>2, <1>4, <1>5, <1>6 DEF FramingInv
-----------------------------------------------------------------------------
(* What the stream holds.                                                  *)

\* What it is to be a sequence.
LEMMA SeqFacts ==
  ASSUME NEW S, NEW s \in Seq(S)
  PROVE  /\ Len(s) \in Nat /\ (Len(s) = 0 <=> s = <<>>)
         /\ \A k \in 1 .. Len(s) : s[k] \in S
         /\ s = [k \in 1 .. Len(s) |-> s[k]]
         /\ \A m \in Nat, n \in Nat : m + n <= Len(s) =>
              SubSeq(s, m + 1, m + n) = [k \in 1 .. n |-> s[m + k]]
OBVIOUS

\* The lengths the invariant speaks of are naturals.
LEMMA Lengths ==
  ASSUME Types
  PROVE  /\ Len(stream) \in Nat /\ Len(frames) \in Nat /\ Len(taken) \in Nat
         /\ Len(frames) = 0 <=> frames = <<>>
         /\ \A k \in 1 .. Len(frames) : frames[k] \in [at : Nat, payload : Payloads]
         /\ \A k \in 1 .. Len(taken) : taken[k] \in [at : Nat, payload : Seq(0 .. Base - 1)]
         /\ \A m \in Nat, n \in Nat : m + n <= Len(stream) =>
              SubSeq(stream, m + 1, m + n) = [k \in 1 .. n |-> stream[m + k]]
<1>1. stream \in Seq(0 .. Base - 1)
  BY Zenon DEF Types
<1>2. frames \in Seq([at : Nat, payload : Payloads])
  BY Zenon DEF Types
<1>3. taken \in Seq([at : Nat, payload : Seq(0 .. Base - 1)])
  BY Zenon DEF Types
<1>4. \A S : \A s \in Seq(S) :
        /\ Len(s) \in Nat /\ (Len(s) = 0 <=> s = <<>>)
        /\ \A k \in 1 .. Len(s) : s[k] \in S
        /\ \A m \in Nat, n \in Nat : m + n <= Len(s) =>
              SubSeq(s, m + 1, m + n) = [k \in 1 .. n |-> s[m + k]]
  BY SeqFacts
<1> QED BY <1>1, <1>2, <1>3, <1>4, Zenon

\* A frame reads back as it was sent, header and payload.
LEMMA FrameBytes ==
  ASSUME Types, Layout, NEW k \in 1 .. Len(frames)
  PROVE  /\ frames[k].at \in Nat /\ Len(frames[k].payload) \in Nat
         /\ Ends(k) \in Nat /\ frames[k].at + LengthSize <= Ends(k) /\ Ends(k) <= Len(stream)
         /\ frames[k] = [at |-> frames[k].at, payload |-> frames[k].payload]
         /\ LengthOf(SubSeq(stream, frames[k].at + 1, frames[k].at + LengthSize))
              = Len(frames[k].payload)
         /\ Len(frames[k].payload) <= MaxAlloc
         /\ SubSeq(stream, frames[k].at + LengthSize + 1, Ends(k)) = frames[k].payload
<1> USE SizesAssumption
<1>1. frames[k] \in [at : Nat, payload : Payloads]
  BY Lengths
<1>2. PICK a \in Nat, p \in Payloads : a = frames[k].at /\ p = frames[k].payload
  BY <1>1
<1>3. p \in Seq(0 .. Base - 1) /\ Len(p) <= MaxAlloc /\ 2 * Len(p) < Power[LengthSize]
  BY PayloadsAssumption
<1>4. PICK n \in Nat : n = Len(p)
  BY <1>3
<1>5. Ends(k) = a + LengthSize + n
  BY <1>2, <1>4 DEF Ends
<1>6. PICK m \in Nat : m = Len(stream)
  BY Lengths
<1>7. /\ a + LengthSize + n <= m
      /\ \A i \in 1 .. LengthSize : stream[a + i] = Header(n)[i]
      /\ \A i \in 1 .. n : stream[a + LengthSize + i] = p[i]
  BY <1>2, <1>4, <1>5, <1>6 DEF Layout, InPlace
<1>8. SubSeq(stream, a + 1, a + LengthSize) = Header(n)
  <2>1. SubSeq(stream, a + 1, a + LengthSize) = [i \in 1 .. LengthSize |-> stream[a + i]]
    <3>1. LengthSize \in Nat /\ a + LengthSize <= Len(stream)
      BY <1>6, <1>7
    <3> QED BY <3>1, Lengths, Zenon
  <2>2. Header(n) = [i \in 1 .. LengthSize |-> Header(n)[i]]
    BY DEF Header
  <2> QED BY <1>7, <2>1, <2>2, Zenon
<1>9. SubSeq(stream, a + LengthSize + 1, a + LengthSize + n) = p
  <2>1. SubSeq(stream, a + LengthSize + 1, a + LengthSize + n)
          = [i \in 1 .. n |-> stream[a + LengthSize + i]]
    <3>1. a + LengthSize \in Nat /\ a + LengthSize + n <= Len(stream)
      BY <1>6, <1>7
    <3> QED BY <3>1, Lengths, Zenon
  <2>2. p = [i \in 1 .. n |-> p[i]]
    BY <1>3, <1>4
  <2> QED BY <1>7, <2>1, <2>2, Zenon
<1>10. LengthOf(Header(n)) = n
  BY <1>3, <1>4, HeaderDecodes
<1>11. frames[k] = [at |-> a, payload |-> p]
  BY <1>1, <1>2
<1>12. a + LengthSize + n \in Nat /\ a + LengthSize <= a + LengthSize + n
  OBVIOUS
<1>13. /\ LengthOf(SubSeq(stream, frames[k].at + 1, frames[k].at + LengthSize))
            = Len(frames[k].payload)
       /\ SubSeq(stream, frames[k].at + LengthSize + 1, Ends(k)) = frames[k].payload
  BY <1>2, <1>4, <1>5, <1>8, <1>9, <1>10, Zenon
<1>14. /\ frames[k].at \in Nat /\ Len(frames[k].payload) \in Nat
       /\ Ends(k) \in Nat /\ frames[k].at + LengthSize <= Ends(k) /\ Ends(k) <= Len(stream)
       /\ Len(frames[k].payload) <= MaxAlloc
  <2>1. n <= MaxAlloc /\ a + LengthSize + n <= Len(stream)
    BY <1>3, <1>4, <1>6, <1>7
  <2> QED BY <1>2, <1>4, <1>5, <1>12, <2>1, Zenon
<1> QED BY <1>2, <1>11, <1>13, <1>14, Zenon

\* A frame ends where the next one begins, or the stream does.
LEMMA EndsAreBoundaries ==
  ASSUME Types, Layout, NEW k \in 1 .. Len(frames)
  PROVE  /\ Boundary(Ends(k))
         /\ Ends(k) = IF k < Len(frames) THEN frames[k + 1].at ELSE Len(stream)
<1>1. CASE k < Len(frames)
  <2>1. k + 1 \in 1 .. Len(frames) /\ frames[k + 1].at = Ends(k)
    BY <1>1, Lengths DEF Layout
  <2> QED BY <1>1, <2>1, Zenon DEF Boundary
<1>2. CASE ~(k < Len(frames))
  <2>1. k = Len(frames) /\ frames # <<>>
    BY <1>2, Lengths
  <2>2. Ends(k) = Len(stream)
    BY <2>1 DEF Layout
  <2> QED BY <1>2, <2>2, Zenon DEF Boundary
<1> QED BY <1>1, <1>2

\* Only the frames before a frame end before it does, and nothing begins or
\* ends inside one.
LEMMA FramesApart ==
  ASSUME Types, Layout, NEW j \in 1 .. Len(frames), NEW k \in 1 .. Len(frames)
  PROVE  /\ Ends(j) <= frames[k].at => j < k
         /\ Ends(j) > frames[k].at => Ends(j) >= Ends(k)
         /\ Ends(j) > frames[k].at /\ Ends(j) <= Ends(k) => j = k
         /\ frames[j].at = frames[k].at => j = k
<1> USE SizesAssumption
<1>1. /\ frames[j].at \in Nat /\ Ends(j) \in Nat /\ frames[j].at + LengthSize <= Ends(j)
      /\ frames[k].at \in Nat /\ Ends(k) \in Nat /\ frames[k].at + LengthSize <= Ends(k)
  BY FrameBytes
<1>2. CASE j < k
  <2>1. Ends(j) <= frames[k].at
    BY <1>2 DEF Layout
  <2> QED BY <1>1, <1>2, <2>1
<1>3. CASE j > k
  <2>1. Ends(k) <= frames[j].at
    BY <1>3 DEF Layout
  <2> QED BY <1>1, <1>3, <2>1
<1>4. CASE j = k
  BY <1>1, <1>4
<1> QED BY <1>2, <1>3, <1>4
-----------------------------------------------------------------------------
(* Sending adds a frame at the end and changes nothing before it.          *)

\* Three sequences one behind the other.
LEMMA ThreeParts ==
  ASSUME NEW S, NEW r \in Seq(S), NEW s \in Seq(S), NEW t \in Seq(S)
  PROVE  /\ r \o s \o t \in Seq(S)
         /\ Len(r \o s \o t) = Len(r) + Len(s) + Len(t)
         /\ \A i \in 1 .. Len(r) : (r \o s \o t)[i] = r[i]
         /\ \A i \in 1 .. Len(s) : (r \o s \o t)[Len(r) + i] = s[i]
         /\ \A i \in 1 .. Len(t) : (r \o s \o t)[Len(r) + Len(s) + i] = t[i]
<1>1. /\ \A x, y \in Seq(S) : x \o y \in Seq(S) /\ Len(x \o y) = Len(x) + Len(y)
      /\ \A x, y \in Seq(S) : \A i \in 1 .. Len(x) : (x \o y)[i] = x[i]
      /\ \A x, y \in Seq(S) : \A i \in 1 .. Len(y) : (x \o y)[Len(x) + i] = y[i]
      /\ \A x \in Seq(S) : Len(x) \in Nat
  OBVIOUS
<1>2. r \o s \in Seq(S) /\ Len(r \o s) = Len(r) + Len(s)
  BY <1>1, Zenon
<1>3. PICK m \in Nat, n \in Nat : m = Len(r) /\ n = Len(s)
  BY <1>1, Zenon
<1>4. \A i \in 1 .. Len(r \o s) : (r \o s \o t)[i] = (r \o s)[i]
  BY <1>1, <1>2, Zenon
<1>5. ASSUME NEW i \in 1 .. m PROVE (r \o s \o t)[i] = r[i]
  <2>1. i \in 1 .. Len(r \o s)
    BY <1>2, <1>3
  <2> QED BY <1>1, <1>3, <1>4, <2>1, Zenon
<1>6. ASSUME NEW i \in 1 .. n PROVE (r \o s \o t)[m + i] = s[i]
  <2>1. m + i \in 1 .. Len(r \o s)
    BY <1>2, <1>3
  <2> QED BY <1>1, <1>3, <1>4, <2>1, Zenon
<1>7. \A i \in 1 .. Len(t) : (r \o s \o t)[Len(r \o s) + i] = t[i]
  BY <1>1, <1>2, Zenon
<1>8. r \o s \o t \in Seq(S) /\ Len(r \o s \o t) = Len(r \o s) + Len(t)
  BY <1>1, <1>2, Zenon
<1> QED BY <1>2, <1>3, <1>5, <1>6, <1>7, <1>8, Zenon

\* What a send adds.
LEMMA SendGrows ==
  ASSUME Types, NEW p \in Payloads, SendFrame(p)
  PROVE  /\ Types'
         /\ Len(frames') = Len(frames) + 1
         /\ \A k \in 1 .. Len(frames) : frames'[k] = frames[k]
         /\ frames'[Len(frames) + 1] = [at |-> Len(stream), payload |-> p]
         /\ Len(p) \in Nat
         /\ Len(stream') = Len(stream) + LengthSize + Len(p)
         /\ \A i \in 1 .. Len(stream) : stream'[i] = stream[i]
         /\ \A i \in 1 .. LengthSize : stream'[Len(stream) + i] = Header(Len(p))[i]
         /\ \A i \in 1 .. Len(p) : stream'[Len(stream) + LengthSize + i] = p[i]
<1> USE SizesAssumption
<1>1. p \in Seq(0 .. Base - 1) /\ Len(p) \in Nat
  BY PayloadsAssumption
<1>2. Header(Len(p)) \in Seq(0 .. Base - 1) /\ Len(Header(Len(p))) = LengthSize
  <2>1. PICK n \in Nat : n = Len(p)
    BY <1>1
  <2>2. ASSUME NEW i \in 1 .. LengthSize
        PROVE  (n \div Power[LengthSize - i]) % Base \in 0 .. Base - 1
    <3>1. PICK b \in Nat \ {0} : b = Power[LengthSize - i]
      <4>1. LengthSize - i \in 0 .. LengthSize
        OBVIOUS
      <4> QED BY <4>1, PowerFacts
    <3>2. n \div b \in Nat
      OBVIOUS
    <3>3. (n \div b) % Base \in 0 .. Base - 1
      BY <3>2
    <3> QED BY <3>1, <3>3
  <2>3. Header(n) \in [1 .. LengthSize -> 0 .. Base - 1]
    BY <2>2, Zenon DEF Header
  <2>4. \A S : \A h \in [1 .. LengthSize -> S] : h \in Seq(S) /\ Len(h) = LengthSize
    OBVIOUS
  <2> QED BY <2>1, <2>3, <2>4, Zenon
<1>3. stream \in Seq(0 .. Base - 1) /\ frames \in Seq([at : Nat, payload : Payloads])
  BY Zenon DEF Types
<1>4. stream' = stream \o Header(Len(p)) \o p
  BY Zenon DEF SendFrame
<1>5. /\ stream' \in Seq(0 .. Base - 1)
      /\ Len(stream') = Len(stream) + LengthSize + Len(p)
      /\ \A i \in 1 .. Len(stream) : stream'[i] = stream[i]
      /\ \A i \in 1 .. LengthSize : stream'[Len(stream) + i] = Header(Len(p))[i]
      /\ \A i \in 1 .. Len(p) : stream'[Len(stream) + LengthSize + i] = p[i]
  <2>1. \A h \in Seq(0 .. Base - 1) :
          LET w == stream \o h \o p IN
          /\ w \in Seq(0 .. Base - 1)
          /\ Len(w) = Len(stream) + Len(h) + Len(p)
          /\ \A i \in 1 .. Len(stream) : w[i] = stream[i]
          /\ \A i \in 1 .. Len(h) : w[Len(stream) + i] = h[i]
          /\ \A i \in 1 .. Len(p) : w[Len(stream) + Len(h) + i] = p[i]
    BY <1>1, <1>3, ThreeParts
  <2> QED BY <1>2, <1>4, <2>1, Zenon
<1>7. Len(stream) \in Nat /\ Len(frames) \in Nat
  BY Lengths
<1>8. [at |-> Len(stream), payload |-> p] \in [at : Nat, payload : Payloads]
  BY <1>7
<1>9. frames' = Append(frames, [at |-> Len(stream), payload |-> p])
  BY Zenon DEF SendFrame
<1>10. /\ frames' \in Seq([at : Nat, payload : Payloads])
       /\ Len(frames') = Len(frames) + 1
       /\ \A k \in 1 .. Len(frames) : frames'[k] = frames[k]
       /\ frames'[Len(frames) + 1] = [at |-> Len(stream), payload |-> p]
  <2>1. PICK x \in [at : Nat, payload : Payloads] : x = [at |-> Len(stream), payload |-> p]
    BY <1>8
  <2> DEFINE F == [at : Nat, payload : Payloads]
  <2>2. x \in F /\ frames \in Seq(F) /\ frames' = Append(frames, x)
    BY <1>3, <1>9, <2>1
  <2> HIDE DEF F
  <2>3. /\ frames' \in Seq(F)
        /\ Len(frames') = Len(frames) + 1
        /\ \A k \in 1 .. Len(frames) : frames'[k] = frames[k]
        /\ frames'[Len(frames) + 1] = x
    <3>1. /\ Append(frames, x) \in Seq(F)
          /\ Len(Append(frames, x)) = Len(frames) + 1
          /\ \A k \in 1 .. Len(frames) : Append(frames, x)[k] = frames[k]
          /\ Append(frames, x)[Len(frames) + 1] = x
      BY <2>2, AppendProperties
    <3> QED BY <2>2, <3>1, Zenon
  <2> QED BY <2>1, <2>3, Zenon DEF F
<1>11. UNCHANGED <<reader, peer, arrived, pos, pc, want, taken, cuts>>
  BY DEF SendFrame, readerVars
<1>12. arrived <= Len(stream')
  <2>1. arrived \in Nat /\ arrived <= Len(stream)
    BY Zenon DEF Types
  <2> QED BY <1>1, <1>5, <1>7, <2>1
<1>13. Types'
  BY <1>5, <1>10, <1>11, <1>12, Zenon DEF Types
<1> QED BY <1>1, <1>5, <1>10, <1>13, Zenon

\* The frames that were there stay where they are, and so do the places
\* where a message begins.
LEMMA SendStays ==
  ASSUME Types, Layout, NEW p \in Payloads, SendFrame(p), NEW n \in Nat, n = Len(frames)
  PROVE  /\ \A k \in 1 .. n : Ends(k)' = Ends(k)
         /\ Ends(n + 1)' = Len(stream')
         /\ \A c \in Nat : c <= Len(stream) => (Boundary(c)' <=> Boundary(c))
<1> USE SizesAssumption
<1>1. /\ Len(frames') = n + 1
      /\ \A k \in 1 .. n : frames'[k] = frames[k]
      /\ frames'[n + 1] = [at |-> Len(stream), payload |-> p]
      /\ Len(stream') = Len(stream) + LengthSize + Len(p) /\ Len(p) \in Nat
      /\ n \in Nat /\ Len(stream) \in Nat
  BY SendGrows, Lengths
<1>2. \A k \in 1 .. n : Ends(k)' = Ends(k)
  BY <1>1, Zenon DEF Ends
<1>3. Ends(n + 1)' = Len(stream')
  <2>1. Ends(n + 1)' = frames'[n + 1].at + LengthSize + Len(frames'[n + 1].payload)
    BY DEF Ends
  <2>2. frames'[n + 1].at = Len(stream) /\ frames'[n + 1].payload = p
    BY <1>1
  <2> QED BY <1>1, <2>1, <2>2, Zenon
<1>4. ASSUME NEW c \in Nat, c <= Len(stream) PROVE Boundary(c)' <=> Boundary(c)
  <2>1. c # Len(stream')
    BY <1>1, <1>4
  <2>2. Boundary(c)' <=> \E k \in 1 .. n + 1 : frames'[k].at = c
    BY <1>1, <2>1, Zenon DEF Boundary
  <2>3. frames'[n + 1].at = Len(stream)
    BY <1>1
  <2>4. /\ \A k \in 1 .. n + 1 : k = n + 1 \/ k \in 1 .. n
        /\ n + 1 \in 1 .. n + 1 /\ \A k \in 1 .. n : k \in 1 .. n + 1
    BY <1>1
  <2>5. (\E k \in 1 .. n + 1 : frames'[k].at = c) <=> Boundary(c)
    BY <1>1, <2>3, <2>4, Zenon DEF Boundary
  <2> QED BY <2>2, <2>5
<1> QED BY <1>2, <1>3, <1>4, Zenon

\* The new frame joins on to the last one.
LEMMA SendLayout ==
  ASSUME Types, Layout, NEW p \in Payloads, SendFrame(p)
  PROVE  Layout'
<1> USE SizesAssumption
<1>1. PICK n \in Nat, m \in Nat, l \in Nat : n = Len(frames) /\ m = Len(stream) /\ l = Len(p)
  <2>1. Len(frames) \in Nat /\ Len(stream) \in Nat /\ Len(p) \in Nat
    BY Lengths, SendGrows, Zenon
  <2> QED BY <2>1
<1>2. /\ Len(frames') = n + 1
      /\ \A k \in 1 .. n : frames'[k] = frames[k]
      /\ frames'[n + 1].at = m /\ frames'[n + 1].payload = p
      /\ Len(stream') = m + LengthSize + l
      /\ \A i \in 1 .. m : stream'[i] = stream[i]
      /\ \A i \in 1 .. LengthSize : stream'[m + i] = Header(l)[i]
      /\ \A i \in 1 .. l : stream'[m + LengthSize + i] = p[i]
  <2>1. /\ Len(frames') = n + 1
        /\ \A k \in 1 .. n : frames'[k] = frames[k]
        /\ frames'[n + 1] = [at |-> m, payload |-> p]
        /\ Len(stream') = m + LengthSize + l
        /\ \A i \in 1 .. m : stream'[i] = stream[i]
        /\ \A i \in 1 .. LengthSize : stream'[m + i] = Header(l)[i]
        /\ \A i \in 1 .. l : stream'[m + LengthSize + i] = p[i]
    BY <1>1, SendGrows, Zenon
  <2>2. frames'[n + 1].at = m /\ frames'[n + 1].payload = p
    BY <2>1
  <2> QED BY <2>1, <2>2, Zenon
<1>3. /\ \A k \in 1 .. n : Ends(k)' = Ends(k)
      /\ Ends(n + 1)' = m + LengthSize + l
  BY <1>1, <1>2, SendStays
<1>4. frames' # <<>> /\ frames'[1].at = 0 /\ Ends(Len(frames))' = Len(stream')
  <2>1. frames' # <<>>
    BY <1>2
  <2>2. Ends(Len(frames))' = Len(stream')
    BY <1>2, <1>3, Zenon DEF Ends
  <2>3. CASE n = 0
    <3>1. m = 0 /\ n + 1 = 1
      BY <1>1, <2>3, Lengths DEF Layout
    <3> QED BY <1>2, <2>1, <2>2, <3>1, Zenon
  <2>4. CASE n # 0
    <3>1. 1 \in 1 .. n /\ frames # <<>>
      BY <1>1, <2>4
    <3> QED BY <1>2, <2>1, <2>2, <3>1 DEF Layout
  <2> QED BY <2>3, <2>4
<1>5. ASSUME NEW k \in 1 .. n PROVE frames'[k + 1].at = Ends(k)
  <2>1. CASE k = n
    <3>1. Ends(n) = m /\ k + 1 = n + 1
      BY <1>1, <2>1, Lengths DEF Layout
    <3> QED BY <1>2, <2>1, <3>1
  <2>2. CASE k < n
    <3>1. k + 1 \in 1 .. n
      BY <2>2
    <3> QED BY <1>1, <1>2, <2>2, <3>1 DEF Layout
  <2> QED BY <2>1, <2>2
<1>6. ASSUME NEW k \in 1 .. n
      PROVE  frames[k].at \in Nat /\ Len(frames[k].payload) \in Nat /\ Ends(k) \in Nat
             /\ Ends(k) = frames[k].at + LengthSize + Len(frames[k].payload) /\ Ends(k) <= m
  BY <1>1, FrameBytes DEF Ends
<1>7. ASSUME NEW j \in 1 .. n + 1, NEW k \in 1 .. n + 1, j < k
      PROVE  Ends(j)' <= frames'[k].at
  <2>1. j \in 1 .. n /\ (k \in 1 .. n \/ k = n + 1)
    BY <1>7
  <2>2. CASE k \in 1 .. n
    <3>1. Ends(j) <= frames[k].at
      BY <1>1, <1>7, <2>1, <2>2 DEF Layout
    <3> QED BY <1>2, <1>3, <2>1, <2>2, <3>1
  <2>3. CASE k = n + 1
    BY <1>2, <1>3, <1>6, <2>1, <2>3
  <2> QED BY <2>1, <2>2, <2>3
<1>8. ASSUME NEW k \in 1 .. n PROVE InPlace(k)'
  <2>1. PICK a \in Nat, b \in Nat : a = frames[k].at /\ b = Len(frames[k].payload)
    BY <1>6
  <2>2. a + LengthSize + b <= m
    BY <1>6, <2>1
  <2>3. /\ \A i \in 1 .. LengthSize : a + i \in 1 .. m
        /\ \A i \in 1 .. b : a + LengthSize + i \in 1 .. m
    BY <2>2
  <2>4. InPlace(k)
    BY <1>1 DEF Layout
  <2>5. /\ \A i \in 1 .. LengthSize : stream'[a + i] = Header(b)[i]
        /\ \A i \in 1 .. b : stream'[a + LengthSize + i] = frames[k].payload[i]
    BY <1>2, <2>1, <2>3, <2>4, Zenon DEF InPlace
  <2>6. Ends(k)' <= Len(stream')
    BY <1>2, <1>3, <1>6
  <2> QED BY <1>2, <2>1, <2>5, <2>6, Zenon DEF InPlace
<1>9. InPlace(n + 1)'
  <2>1. Ends(n + 1)' <= Len(stream')
    BY <1>2, <1>3
  <2> QED BY <1>1, <1>2, <2>1, Zenon DEF InPlace
<1>10. \A k \in 1 .. n + 1 : InPlace(k)'
  <2>1. \A k \in 1 .. n + 1 : k = n + 1 \/ k \in 1 .. n
    OBVIOUS
  <2> QED BY <1>8, <1>9, <2>1, Zenon
<1>11. \A k \in 1 .. Len(frames') : k < Len(frames') => frames'[k + 1].at = Ends(k)'
  <2>1. ASSUME NEW k \in 1 .. n + 1, k < n + 1 PROVE frames'[k + 1].at = Ends(k)'
    <3>1. k \in 1 .. n
      BY <2>1
    <3> QED BY <1>3, <1>5, <3>1
  <2> QED BY <1>2, <2>1
<1>12. \A j, k \in 1 .. Len(frames') : j < k => Ends(j)' <= frames'[k].at
  BY <1>2, <1>7, Zenon
<1> QED BY <1>2, <1>4, <1>10, <1>11, <1>12, Zenon DEF Layout
-----------------------------------------------------------------------------
(* The steps of the peer and of the network.                               *)

\* The reader has not read beyond what was sent.
LEMMA Within ==
  ASSUME Types, PlaceInv
  PROVE  /\ Begun \in Nat /\ pos \in Nat /\ Begun <= pos /\ pos <= Len(stream)
         /\ \A c \in cuts : c \in Nat /\ c <= Begun
         /\ \A k \in 1 .. Len(taken) :
              taken[k].at \in Nat /\ taken[k].at + LengthSize <= Begun
<1>1. /\ pos \in Nat /\ pos <= arrived /\ arrived \in Nat /\ arrived <= Len(stream)
      /\ cuts \subseteq Nat
  BY Zenon DEF Types
<1>2. Len(stream) \in Nat /\ \A k \in 1 .. Len(taken) : taken[k].at \in Nat
  BY Lengths
<1>3. Begun = pos \/ Begun = pos - LengthSize
  BY DEF Begun
<1>4. Begun \in Nat /\ Begun <= pos /\ pos <= Len(stream)
  BY <1>1, <1>2, <1>3, SizesAssumption DEF PlaceInv
<1> QED BY <1>1, <1>2, <1>4 DEF PlaceInv

\* A new frame lies beyond all the reader has seen.
LEMMA SendKeeps ==
  ASSUME FramingInv, NEW p \in Payloads, SendFrame(p)
  PROVE  FramingInv'
<1> USE SizesAssumption
<1>1. Types /\ Layout /\ PlaceInv /\ AlignInv /\ CountInv /\ SkipInv /\ TakenIsSent
  BY DEF FramingInv
<1>2. Types' /\ Layout'
  BY <1>1, SendGrows, SendLayout
<1>3. UNCHANGED <<reader, peer, pos, pc, want, taken, cuts>> /\ Begun' = Begun
  BY DEF SendFrame, readerVars, Begun
<1>4. PICK n \in Nat, m \in Nat : n = Len(frames) /\ m = Len(stream)
  BY <1>1, Lengths
<1>5. /\ Len(frames') = n + 1
      /\ \A k \in 1 .. n : frames'[k] = frames[k]
      /\ frames'[n + 1].at = m
      /\ Len(stream') \in Nat /\ m + LengthSize <= Len(stream')
  <2>1. /\ Len(frames') = n + 1 /\ \A k \in 1 .. n : frames'[k] = frames[k]
        /\ frames'[n + 1] = [at |-> m, payload |-> p]
        /\ Len(p) \in Nat /\ Len(stream') = m + LengthSize + Len(p)
    BY <1>1, <1>4, SendGrows, Zenon
  <2>2. frames'[n + 1].at = m
    BY <2>1
  <2> QED BY <2>1, <2>2
<1>6. /\ \A k \in 1 .. n : Ends(k)' = Ends(k)
      /\ Ends(n + 1)' = Len(stream')
      /\ \A c \in Nat : c <= m => (Boundary(c)' <=> Boundary(c))
  BY <1>1, <1>4, SendStays
<1>7. /\ Begun \in Nat /\ pos \in Nat /\ Begun <= pos /\ pos <= m
      /\ \A c \in cuts : c \in Nat /\ c <= Begun
      /\ \A k \in 1 .. Len(taken) : taken[k].at \in Nat /\ taken[k].at + LengthSize <= Begun
  BY <1>1, <1>4, Within
<1>8. PlaceInv'
  BY <1>1, <1>3, Zenon DEF PlaceInv
<1>9. \A c \in cuts : Boundary(c)' <=> Boundary(c)
  BY <1>6, <1>7
<1>10. Lost' <=> Lost
  BY <1>3, <1>9, Zenon DEF Lost
<1>11. \A k \in 1 .. n : k \in 1 .. n + 1
  BY <1>4
<1>12. AlignInv'
  <2>1. pc = "length" => peer = "rst" \/ Boundary(pos)' \/ Lost
    <3>1. Boundary(pos) => Boundary(pos)'
      <4>1. PICK x \in Nat : x = pos /\ x <= m
        BY <1>7
      <4>2. Boundary(x)' <=> Boundary(x)
        BY <1>6, <4>1
      <4> QED BY <1>3, <4>1, <4>2, Zenon DEF Boundary
    <3> QED BY <1>1, <3>1 DEF AlignInv
  <2>2. pc = "payload" =>
          \/ Lost
          \/ \E k \in 1 .. n + 1 : frames'[k].at = Begun /\ Len(frames'[k].payload) = want
    BY <1>1, <1>4, <1>5, <1>11, Zenon DEF AlignInv
  <2> QED BY <1>1, <1>3, <1>5, <1>10, <2>1, <2>2, Zenon DEF AlignInv
<1>13. CountInv'
  <2>1. ASSUME cuts = {}, pc = "payload" \/ (pc = "length" /\ peer # "rst")
        PROVE  Begun = IF Len(taken) < n + 1 THEN frames'[Len(taken) + 1].at ELSE Len(stream')
    <3>1. Len(taken) \in Nat /\ Len(taken) <= n
      BY <1>1, <1>4, <2>1, Lengths DEF CountInv
    <3>2. CASE Len(taken) < n
      <4>1. Len(taken) + 1 \in 1 .. n /\ Begun = frames[Len(taken) + 1].at
        BY <1>1, <1>4, <2>1, <3>1, <3>2 DEF CountInv
      <4> QED BY <1>5, <3>1, <3>2, <4>1
    <3>3. CASE Len(taken) = n
      <4>1. Begun = m
        BY <1>1, <1>4, <2>1, <3>3 DEF CountInv
      <4> QED BY <1>5, <3>3, <4>1
    <3> QED BY <3>1, <3>2, <3>3
  <2>2. ASSUME reader = "leaves" \/ cuts = {}
        PROVE  Len(taken) <= n + 1 /\ \A k \in 1 .. Len(taken) : taken[k] = frames'[k]
    <3>1. Len(taken) \in Nat /\ Len(taken) <= n /\ \A k \in 1 .. Len(taken) : taken[k] = frames[k]
      BY <1>1, <1>4, <2>2, Lengths DEF CountInv
    <3>2. \A k \in 1 .. Len(taken) : k \in 1 .. n
      BY <3>1
    <3> QED BY <1>5, <3>1, <3>2
  <2>3. reader = "leaves" /\ cuts # {} => pc = "closed"
    BY <1>1 DEF CountInv
  <2> QED BY <1>3, <1>5, <2>1, <2>2, <2>3, Zenon DEF CountInv
<1>14. SkipInv'
  <2>1. ASSUME NEW k \in 1 .. n + 1, Ends(k)' <= Begun
        PROVE  (k <= Len(taken) /\ taken[k] = frames'[k]) \/ \E c \in cuts : c <= Ends(k)'
    <3>1. k # n + 1
      BY <1>5, <1>6, <1>7, <2>1
    <3>2. k \in 1 .. n
      BY <3>1
    <3> QED BY <1>1, <1>4, <1>5, <1>6, <2>1, <3>2, Zenon DEF SkipInv
  <2> QED BY <1>3, <1>5, <2>1, Zenon DEF SkipInv
<1>15. TakenIsSent'
  <2>1. ASSUME NEW k \in 1 .. Len(taken)
        PROVE  \/ \E j \in 1 .. n + 1 : frames'[j] = taken[k]
               \/ reader = "goes on" /\ \E c \in cuts : c <= taken[k].at /\ ~Boundary(c)'
    <3>1. \/ \E j \in 1 .. n : frames[j] = taken[k]
          \/ reader = "goes on" /\ \E c \in cuts : c <= taken[k].at /\ ~Boundary(c)
      BY <1>1, <1>4, Zenon DEF TakenIsSent, Sent
    <3> QED BY <1>5, <1>9, <1>11, <3>1, Zenon
  <2> QED BY <1>3, <1>5, <2>1, Zenon DEF TakenIsSent, Sent
<1> QED BY <1>2, <1>8, <1>12, <1>13, <1>14, <1>15, Zenon DEF FramingInv

\* A close, a reset or a segment changes nothing the reader has.
LEMMA WireKeeps ==
  ASSUME FramingInv, PeerStop \/ Arrive
  PROVE  FramingInv'
<1>1. Types /\ Layout /\ PlaceInv /\ AlignInv /\ CountInv /\ SkipInv /\ TakenIsSent
  BY DEF FramingInv
<1>2. /\ UNCHANGED <<reader, stream, frames, pos, pc, want, taken, cuts>>
      /\ peer = "rst" => peer' = "rst"
  BY DEF PeerStop, Arrive, readerVars
<1>3. Begun' = Begun
  BY <1>2 DEF Begun
<1>4. Types'
  <2>1. peer' \in {"open", "fin", "rst"}
    <3>1. peer \in {"open", "fin", "rst"}
      BY <1>1, Zenon DEF Types
    <3> QED BY <3>1 DEF PeerStop, Arrive
  <2>2. arrived' \in Nat /\ arrived' <= Len(stream) /\ pos <= arrived'
    <3>1. arrived \in Nat /\ arrived <= Len(stream) /\ pos <= arrived /\ pos \in Nat
      BY <1>1, Zenon DEF Types
    <3>2. Len(stream) \in Nat
      BY <1>1, Lengths
    <3> QED BY <3>1, <3>2 DEF PeerStop, Arrive
  <2> QED BY <1>1, <1>2, <2>1, <2>2, Zenon DEF Types
<1>5. Layout'
  BY <1>1, <1>2, Zenon DEF Layout, InPlace, Ends
<1>6. PlaceInv'
  BY <1>1, <1>2, <1>3, Zenon DEF PlaceInv
<1>7. /\ \A c : Boundary(c)' <=> Boundary(c)
      /\ Lost' <=> Lost
  BY <1>2, <1>3, Zenon DEF Lost, Boundary
<1>8. AlignInv'
  BY <1>1, <1>2, <1>3, <1>7, Zenon DEF AlignInv, Boundary
<1>9. CountInv'
  BY <1>1, <1>2, <1>3, Zenon DEF CountInv
<1>10. SkipInv'
  BY <1>1, <1>2, <1>3, Zenon DEF SkipInv, Ends
<1>11. TakenIsSent'
  <2>1. ASSUME NEW k \in 1 .. Len(taken)
        PROVE  \/ \E j \in 1 .. Len(frames) : frames[j] = taken[k]
               \/ reader = "goes on" /\ \E c \in cuts : c <= taken[k].at /\ ~Boundary(c)'
    BY <1>1, <1>7, Zenon DEF TakenIsSent, Sent
  <2> QED BY <1>2, <2>1, Zenon DEF TakenIsSent, Sent
<1> QED BY <1>4, <1>5, <1>6, <1>8, <1>9, <1>10, <1>11, Zenon DEF FramingInv
-----------------------------------------------------------------------------
(* The steps of the reader.                                                *)

\* A step of the reader leaves the stream alone.
LEMMA ReadStays ==
  ASSUME Types, Layout, UNCHANGED wireVars
  PROVE  /\ UNCHANGED <<reader, stream, frames, peer, arrived>>
         /\ Layout'
         /\ \A k : Ends(k)' = Ends(k)
         /\ \A c : Boundary(c)' <=> Boundary(c)
<1>1. UNCHANGED <<reader, stream, frames, peer, arrived>>
  BY DEF wireVars
<1> QED BY <1>1, Zenon DEF Layout, InPlace, Ends, Boundary

\* A place the reader was lost at stays one.
LEMMA StaysLost ==
  ASSUME Types, Layout, PlaceInv, UNCHANGED wireVars, cuts \subseteq cuts',
         Begun' \in Nat, Begun <= Begun', Lost
  PROVE  Lost'
<1>1. PICK c \in cuts : reader = "goes on" /\ c <= Begun /\ ~Boundary(c)
  BY DEF Lost
<1>2. c \in Nat /\ Begun \in Nat
  BY Within
<1>3. c \in cuts' /\ c <= Begun'
  <2>1. c \in Nat /\ Begun \in Nat /\ c <= Begun
    BY <1>1, <1>2, Zenon
  <2>2. c <= Begun'
    BY <2>1
  <2> QED BY <2>2
<1>4. UNCHANGED reader /\ \A x : Boundary(x)' <=> Boundary(x)
  BY ReadStays, Zenon
<1> QED BY <1>1, <1>3, <1>4, Zenon DEF Lost

\* A reader that is not lost reads the length of the message it is at.
LEMMA LengthRead ==
  ASSUME FramingInv, RecvLength, ~Lost
  PROVE  \E k \in 1 .. Len(frames) :
           frames[k].at = pos /\ Len(frames[k].payload) = want' /\ ~Throws(want')
<1> USE SizesAssumption
<1>1. Types /\ Layout /\ PlaceInv /\ AlignInv
  BY DEF FramingInv
<1>2. pos \in Nat /\ pos < Len(stream) /\ Len(stream) \in Nat
  <2>1. arrived \in Nat /\ pos \in Nat /\ arrived <= Len(stream)
    BY <1>1, Zenon DEF Types
  <2>2. arrived - pos >= LengthSize
    BY DEF RecvLength, Ready
  <2> QED BY <1>1, <2>1, <2>2, Lengths
<1>3. Boundary(pos)
  BY <1>1 DEF AlignInv, RecvLength
<1>4. PICK k \in 1 .. Len(frames) : frames[k].at = pos
  BY <1>2, <1>3 DEF Boundary
<1>5. /\ LengthOf(SubSeq(stream, pos + 1, pos + LengthSize)) = Len(frames[k].payload)
      /\ Len(frames[k].payload) \in Nat /\ Len(frames[k].payload) <= MaxAlloc
  BY <1>1, <1>4, FrameBytes
<1>6. want' = Len(frames[k].payload)
  BY <1>5, Zenon DEF RecvLength, Bytes
<1>7. ~Throws(want')
  BY <1>5, <1>6 DEF Throws
<1> QED BY <1>4, <1>6, <1>7, Zenon

\* The length is the one sent, or the reader was lost before.
LEMMA RecvLengthKeeps ==
  ASSUME FramingInv, RecvLength
  PROVE  FramingInv'
<1> USE SizesAssumption
<1>1. Types /\ Layout /\ PlaceInv /\ AlignInv /\ CountInv /\ SkipInv /\ TakenIsSent
  BY DEF FramingInv
<1>2. /\ pc = "length" /\ peer # "rst" /\ arrived - pos >= LengthSize
      /\ pos' = pos + LengthSize
      /\ pc' = IF Throws(want') THEN "thrown" ELSE "payload"
      /\ UNCHANGED wireVars /\ UNCHANGED <<taken, cuts>>
  BY DEF RecvLength, Ready
<1>3. /\ UNCHANGED <<reader, stream, frames, peer, arrived>>
      /\ Layout'
      /\ \A k : Ends(k)' = Ends(k)
      /\ \A c : Boundary(c)' <=> Boundary(c)
  BY <1>1, <1>2, ReadStays, Zenon
<1>4. pos \in Nat /\ arrived \in Nat /\ arrived <= Len(stream) /\ Len(stream) \in Nat
  <2>1. pos \in Nat /\ arrived \in Nat /\ arrived <= Len(stream)
    BY <1>1, Zenon DEF Types
  <2> QED BY <1>1, <2>1, Lengths
<1>5. want' \in Int
  <2>1. Bytes(LengthSize) \in [1 .. LengthSize -> Int]
    <3>1. pos + LengthSize <= Len(stream) /\ LengthSize \in Nat
      BY <1>2, <1>4
    <3>2. Bytes(LengthSize) = [k \in 1 .. LengthSize |-> stream[pos + k]]
      BY <1>1, <1>4, <3>1, Lengths, Zenon DEF Bytes
    <3>3. \A k \in 1 .. LengthSize : stream[pos + k] \in Int
      <4>1. \A k \in 1 .. LengthSize : pos + k \in 1 .. Len(stream)
        BY <1>4, <3>1
      <4>2. \A k \in 1 .. Len(stream) : stream[k] \in 0 .. Base - 1
        BY <1>1, SeqFacts DEF Types
      <4> QED BY <4>1, <4>2
    <3> QED BY <3>2, <3>3
  <2> QED BY <2>1, LengthType DEF RecvLength
<1>6. Begun = pos /\ Begun' = pos
  BY <1>2, <1>4 DEF Begun
<1>7. Types'
  <2>1. pos' \in Nat /\ pos' <= arrived /\ pc' \in {"length", "payload", "closed", "thrown"}
    BY <1>2, <1>4
  <2> QED BY <1>1, <1>2, <1>3, <1>5, <2>1, Zenon DEF Types
<1>8. PlaceInv'
  <2>1. pc' = "payload" => want' \in Nat
    BY <1>2, <1>5 DEF Throws
  <2> QED BY <1>1, <1>2, <1>4, <1>6, <2>1, Zenon DEF PlaceInv
<1>9. AlignInv'
  <2>1. Lost => Lost'
    BY <1>1, <1>2, <1>4, <1>6, StaysLost
  <2>2. ~Lost => ~Throws(want') /\ \E k \in 1 .. Len(frames') :
                   frames'[k].at = Begun' /\ Len(frames'[k].payload) = want'
    BY <1>3, <1>6, LengthRead, Zenon
  <2>3. pc' # "length"
    BY <1>2
  <2>4. ~Throws(want') => pc' # "thrown"
    BY <1>2
  <2> QED BY <2>1, <2>2, <2>3, <2>4, Zenon DEF AlignInv
<1>10. CountInv'
  <2>1. cuts = {} => Begun = IF Len(taken) < Len(frames) THEN frames[Len(taken) + 1].at
                             ELSE Len(stream)
    BY <1>1, <1>2, Zenon DEF CountInv
  <2>2. reader = "leaves" => cuts = {}
    BY <1>1, <1>2, Zenon DEF CountInv
  <2> QED BY <1>1, <1>2, <1>3, <1>6, <2>1, <2>2, Zenon DEF CountInv
<1>11. SkipInv'
  BY <1>1, <1>2, <1>3, <1>6, Zenon DEF SkipInv
<1>12. TakenIsSent'
  <2>1. ASSUME NEW k \in 1 .. Len(taken)
        PROVE  \/ \E j \in 1 .. Len(frames) : frames[j] = taken[k]
               \/ reader = "goes on" /\ \E c \in cuts : c <= taken[k].at /\ ~Boundary(c)'
    BY <1>1, <1>3, Zenon DEF TakenIsSent, Sent
  <2> QED BY <1>2, <1>3, <2>1, Zenon DEF TakenIsSent, Sent
<1> QED BY <1>3, <1>7, <1>8, <1>9, <1>10, <1>11, <1>12, Zenon DEF FramingInv

\* A reader that is not lost takes the message whose length it has read.
LEMMA PayloadRead ==
  ASSUME FramingInv, RecvPayload, ~Lost
  PROVE  \E k \in 1 .. Len(frames) :
           /\ frames[k].at = Begun /\ Ends(k) = pos'
           /\ frames[k] = [at |-> Begun, payload |-> Bytes(want)]
<1> USE SizesAssumption
<1>1. Types /\ Layout /\ PlaceInv /\ AlignInv
  BY DEF FramingInv
<1>2. pc = "payload" /\ pos' = pos + want
  BY DEF RecvPayload
<1>3. PICK k \in 1 .. Len(frames) : frames[k].at = Begun /\ Len(frames[k].payload) = want
  BY <1>1, <1>2, Zenon DEF AlignInv
<1>4. Begun \in Nat /\ pos \in Nat /\ Begun + LengthSize = pos
  BY <1>1, <1>2, Within DEF Begun
<1>5. /\ frames[k] = [at |-> frames[k].at, payload |-> frames[k].payload]
      /\ SubSeq(stream, frames[k].at + LengthSize + 1, Ends(k)) = frames[k].payload
  BY <1>1, FrameBytes
<1>6. Ends(k) = pos + want
  BY <1>3, <1>4, Zenon DEF Ends
<1>7. Bytes(want) = frames[k].payload
  BY <1>3, <1>4, <1>5, <1>6, Zenon DEF Bytes
<1> QED BY <1>2, <1>3, <1>5, <1>6, <1>7, Zenon

\* What is taken is the message, and the reader is at the next one.
LEMMA RecvPayloadKeeps ==
  ASSUME FramingInv, RecvPayload
  PROVE  FramingInv'
<1> USE SizesAssumption
<1> DEFINE t == [at |-> Begun, payload |-> Bytes(want)]
           T == [at : Nat, payload : Seq(0 .. Base - 1)]
<1>1. Types /\ Layout /\ PlaceInv /\ AlignInv /\ CountInv /\ SkipInv /\ TakenIsSent
  BY DEF FramingInv
<1>2. /\ pc = "payload" /\ arrived - pos >= want /\ pos' = pos + want /\ pc' = "length"
      /\ UNCHANGED wireVars /\ UNCHANGED <<want, cuts>>
      /\ taken' = Append(taken, [at |-> pos - LengthSize, payload |-> Bytes(want)])
  BY DEF RecvPayload, Ready
<1>3. /\ UNCHANGED <<reader, stream, frames, peer, arrived>>
      /\ Layout'
      /\ \A k : Ends(k)' = Ends(k)
      /\ \A c : Boundary(c)' <=> Boundary(c)
  BY <1>1, <1>2, ReadStays, Zenon
<1>4. /\ Begun = pos - LengthSize /\ Begun' = pos + want
      /\ want \in Nat /\ Begun \in Nat /\ Begun + LengthSize = pos /\ pos \in Nat
      /\ pos + want \in Nat /\ pos + want <= arrived
      /\ arrived \in Nat /\ arrived <= Len(stream)
  <2>1. Begun = pos - LengthSize /\ Begun' = pos + want /\ want \in Nat
    BY <1>1, <1>2 DEF Begun, PlaceInv
  <2>2. Begun \in Nat /\ pos \in Nat
    BY <1>1, Within
  <2>3. arrived \in Nat /\ arrived <= Len(stream)
    BY <1>1, Zenon DEF Types
  <2> QED BY <1>2, <2>1, <2>2, <2>3
<1>5. t \in T
  <2>1. Bytes(want) \in Seq(0 .. Base - 1)
    <3>1. pos + want <= Len(stream)
      BY <1>1, <1>4, Lengths
    <3>2. Bytes(want) = [k \in 1 .. want |-> stream[pos + k]]
      BY <1>1, <1>4, <3>1, Lengths, Zenon DEF Bytes
    <3>3. ASSUME NEW k \in 1 .. want PROVE stream[pos + k] \in 0 .. Base - 1
      <4>1. pos + k \in 1 .. Len(stream)
        BY <1>1, <1>4, <3>1, Lengths
      <4>2. \A i \in 1 .. Len(stream) : stream[i] \in 0 .. Base - 1
        BY <1>1, SeqFacts DEF Types
      <4> QED BY <4>1, <4>2
    <3>4. Bytes(want) \in [1 .. want -> 0 .. Base - 1]
      BY <3>2, <3>3, Zenon
    <3>5. \A S : \A h \in [1 .. want -> S] : h \in Seq(S)
      BY <1>4
    <3> QED BY <3>4, <3>5, Zenon
  <2> QED BY <1>4, <2>1
<1>6. t.at = Begun
  OBVIOUS
<1>7. PICK n \in Nat : n = Len(taken)
  BY <1>1, Lengths
<1>8. taken \in Seq(T) /\ taken' = Append(taken, t)
  BY <1>1, <1>2, <1>4, Zenon DEF Types
<1> HIDE DEF t, T
<1>9. /\ taken' \in Seq(T)
      /\ Len(taken') = n + 1
      /\ \A k \in 1 .. n : taken'[k] = taken[k]
      /\ taken'[n + 1] = t
      /\ \A k \in 1 .. n + 1 : k \in 1 .. n \/ k = n + 1
  <2>1. /\ Append(taken, t) \in Seq(T)
        /\ Len(Append(taken, t)) = Len(taken) + 1
        /\ \A k \in 1 .. Len(taken) : Append(taken, t)[k] = taken[k]
        /\ Append(taken, t)[Len(taken) + 1] = t
    BY <1>5, <1>8, AppendProperties
  <2>2. \A k \in 1 .. n + 1 : k \in 1 .. n \/ k = n + 1
    OBVIOUS
  <2> QED BY <1>7, <1>8, <2>1, <2>2, Zenon
<1>10. /\ \A c \in cuts : c \in Nat /\ c <= Begun
       /\ \A k \in 1 .. n : taken[k].at \in Nat /\ taken[k].at + LengthSize <= Begun
  BY <1>1, <1>7, Within
<1>11. ~Lost => \E k \in 1 .. Len(frames) :
                  frames[k].at = Begun /\ Ends(k) = Begun' /\ frames[k] = t
  BY <1>2, <1>4, PayloadRead, Zenon DEF t
<1>12. Types'
  <2>1. pos' \in Nat /\ pos' <= arrived /\ pc' \in {"length", "payload", "closed", "thrown"}
    BY <1>2, <1>4
  <2> QED BY <1>1, <1>2, <1>3, <1>9, <2>1, Zenon DEF Types, T
<1>13. PlaceInv'
  <2>1. Begun' \in Nat /\ pc' # "payload"
    BY <1>2, <1>4
  <2>2. \A c \in cuts : c <= Begun'
    BY <1>4, <1>10
  <2>3. ASSUME NEW k \in 1 .. n + 1 PROVE taken'[k].at + LengthSize <= Begun'
    <3>1. CASE k \in 1 .. n
      <4>1. taken[k].at \in Nat /\ taken[k].at + LengthSize <= Begun
        BY <1>10, <3>1
      <4>2. taken'[k] = taken[k]
        BY <1>9, <3>1
      <4> QED BY <1>4, <4>1, <4>2
    <3>2. CASE k = n + 1
      BY <1>4, <1>6, <1>9, <3>2
    <3> QED BY <3>1, <3>2
  <2>4. ASSUME NEW j \in 1 .. n + 1, NEW k \in 1 .. n + 1, j < k
        PROVE  taken'[j].at < taken'[k].at
    <3>1. j \in 1 .. n /\ taken'[j] = taken[j]
      BY <1>9, <2>4
    <3>2. CASE k \in 1 .. n
      BY <1>1, <1>7, <1>9, <2>4, <3>1, <3>2 DEF PlaceInv
    <3>3. CASE k = n + 1
      <4>1. taken[j].at \in Nat /\ taken[j].at + LengthSize <= Begun
        BY <1>10, <3>1
      <4> QED BY <1>4, <1>6, <1>9, <3>1, <3>3, <4>1
    <3> QED BY <3>2, <3>3
  <2> QED BY <1>2, <1>9, <2>1, <2>2, <2>3, <2>4, Zenon DEF PlaceInv
<1>14. AlignInv'
  <2>1. Lost => Lost'
    BY <1>1, <1>2, <1>4, StaysLost
  <2>2. ~Lost => Boundary(pos)'
    <3>1. PICK x : x = pos' /\ x = Begun'
      BY <1>2, <1>4
    <3>2. ~Lost => Boundary(x)
      BY <1>1, <1>11, <3>1, EndsAreBoundaries, Zenon
    <3> QED BY <1>3, <3>1, <3>2, Zenon DEF Boundary
  <2>3. pc' # "payload" /\ pc' # "thrown"
    BY <1>2, <1>4
  <2> QED BY <2>1, <2>2, <2>3, Zenon DEF AlignInv
<1>15. cuts = {} => \E k \in 1 .. Len(frames) :
                      /\ frames[k].at = Begun /\ Ends(k) = Begun' /\ frames[k] = t
                      /\ k = n + 1
  <2> SUFFICES ASSUME cuts = {}
               PROVE  \E k \in 1 .. Len(frames) :
                        /\ frames[k].at = Begun /\ Ends(k) = Begun' /\ frames[k] = t
                        /\ k = n + 1
    OBVIOUS
  <2>1. ~Lost
    BY DEF Lost
  <2>2. PICK k \in 1 .. Len(frames) : frames[k].at = Begun /\ Ends(k) = Begun' /\ frames[k] = t
    BY <1>11, <2>1
  <2>3. Begun < Len(stream) /\ Len(frames) \in Nat
    BY <1>1, <1>4, Lengths
  <2>4. Begun = IF n < Len(frames) THEN frames[n + 1].at ELSE Len(stream)
    BY <1>1, <1>2, <1>7, Zenon DEF CountInv
  <2>5. n + 1 \in 1 .. Len(frames) /\ frames[n + 1].at = Begun
    BY <1>4, <2>3, <2>4
  <2>6. k = n + 1
    BY <1>1, <2>2, <2>5, FramesApart
  <2> QED BY <2>2, <2>6
<1>16. reader = "leaves" => cuts = {}
  BY <1>1, <1>2, Zenon DEF CountInv
<1>17. CountInv'
  <2>1. ASSUME cuts = {}
        PROVE  /\ Begun' = IF n + 1 < Len(frames) THEN frames[(n + 1) + 1].at ELSE Len(stream)
               /\ n + 1 <= Len(frames) /\ \A k \in 1 .. n + 1 : taken'[k] = frames[k]
    <3>1. n + 1 \in 1 .. Len(frames) /\ Ends(n + 1) = Begun' /\ frames[n + 1] = t
      BY <1>15, <2>1
    <3>2. Ends(n + 1) = IF n + 1 < Len(frames) THEN frames[(n + 1) + 1].at ELSE Len(stream)
      BY <1>1, <3>1, EndsAreBoundaries
    <3>3. \A k \in 1 .. n : taken[k] = frames[k]
      BY <1>1, <1>7, <2>1, Zenon DEF CountInv
    <3>4. n + 1 <= Len(frames)
      BY <1>1, <3>1, Lengths
    <3> QED BY <1>9, <3>1, <3>2, <3>3, <3>4, Zenon
  <2> QED BY <1>2, <1>3, <1>9, <1>16, <2>1, Zenon DEF CountInv
<1>18. SkipInv'
  <2>1. ASSUME NEW j \in 1 .. Len(frames), Ends(j) <= Begun'
        PROVE  (j <= n + 1 /\ taken'[j] = frames[j]) \/ \E c \in cuts : c <= Ends(j)
    <3>1. Ends(j) \in Nat
      BY <1>1, FrameBytes
    <3>2. CASE Ends(j) <= Begun
      <4>1. (j <= n /\ taken[j] = frames[j]) \/ \E c \in cuts : c <= Ends(j)
        BY <1>1, <1>7, <3>2, Zenon DEF SkipInv
      <4>2. j <= n => j \in 1 .. n /\ j <= n + 1
        OBVIOUS
      <4> QED BY <1>9, <4>1, <4>2, Zenon
    <3>3. CASE Ends(j) > Begun /\ cuts # {}
      <4>1. PICK c \in cuts : c \in Nat /\ c <= Begun
        BY <1>10, <3>3
      <4>2. c <= Ends(j)
        BY <1>4, <3>1, <3>3, <4>1
      <4> QED BY <4>2
    <3>4. CASE Ends(j) > Begun /\ cuts = {}
      <4>1. PICK k \in 1 .. Len(frames) :
              frames[k].at = Begun /\ Ends(k) = Begun' /\ frames[k] = t /\ k = n + 1
        BY <1>15, <3>4
      <4>2. j = k
        BY <1>1, <2>1, <3>4, <4>1, FramesApart
      <4> QED BY <1>9, <4>1, <4>2
    <3> QED BY <1>4, <3>1, <3>2, <3>3, <3>4
  <2> QED BY <1>2, <1>3, <1>9, <2>1, Zenon DEF SkipInv
<1>19. TakenIsSent'
  <2>1. ASSUME NEW k \in 1 .. n + 1
        PROVE  \/ \E j \in 1 .. Len(frames) : frames[j] = taken'[k]
               \/ reader = "goes on" /\ \E c \in cuts : c <= taken'[k].at /\ ~Boundary(c)'
    <3>1. CASE k \in 1 .. n
      BY <1>1, <1>3, <1>7, <1>9, <3>1, Zenon DEF TakenIsSent, Sent
    <3>2. CASE k = n + 1
      <4>1. CASE Lost
        BY <1>3, <1>6, <1>9, <3>2, <4>1, Zenon DEF Lost
      <4>2. CASE ~Lost
        BY <1>9, <1>11, <3>2, <4>2, Zenon
      <4> QED BY <4>1, <4>2
    <3> QED BY <1>9, <3>1, <3>2
  <2> QED BY <1>2, <1>3, <1>9, <2>1, Zenon DEF TakenIsSent, Sent
<1> QED BY <1>3, <1>12, <1>13, <1>14, <1>17, <1>18, <1>19, Zenon DEF FramingInv

\* A read is short only before the end of the message the reader is at.
LEMMA ShortRead ==
  ASSUME FramingInv, pc \in {"length", "payload"}, peer # "rst" \/ pc = "payload",
         pos < Len(stream) \/ pc = "payload", Asked > 0, ~Lost,
         NEW j \in 1 .. Len(frames), Ends(j) > Begun
  PROVE  Ends(j) \in Nat /\ Ends(j) >= pos + Asked
<1> USE SizesAssumption
<1>1. Types /\ Layout /\ PlaceInv /\ AlignInv
  BY DEF FramingInv
<1>2. Begun \in Nat /\ pos \in Nat /\ Len(stream) \in Nat
  BY <1>1, Within, Lengths
<1>3. PICK k \in 1 .. Len(frames) : frames[k].at = Begun /\ Ends(k) >= pos + Asked
  <2>1. CASE pc = "length"
    <3>1. Begun = pos /\ Asked = LengthSize
      BY <2>1 DEF Begun, Asked
    <3>2. Boundary(pos) /\ pos # Len(stream)
      BY <1>1, <1>2, <2>1 DEF AlignInv
    <3>3. PICK k \in 1 .. Len(frames) : frames[k].at = pos
      BY <3>2, Zenon DEF Boundary
    <3>4. frames[k].at + LengthSize <= Ends(k) /\ Ends(k) \in Nat
      BY <1>1, FrameBytes
    <3> QED BY <1>2, <3>1, <3>3, <3>4
  <2>2. CASE pc = "payload"
    <3>1. Begun + LengthSize = pos /\ Asked = want /\ want \in Nat
      BY <1>1, <1>2, <2>2 DEF Begun, Asked, PlaceInv
    <3>2. PICK k \in 1 .. Len(frames) : frames[k].at = Begun /\ Len(frames[k].payload) = want
      BY <1>1, <2>2, Zenon DEF AlignInv
    <3>3. Ends(k) = pos + want
      BY <3>1, <3>2, Zenon DEF Ends
    <3>4. Ends(k) >= pos + Asked
      BY <1>2, <3>1, <3>3
    <3> QED BY <3>2, <3>4
  <2> QED BY <2>1, <2>2
<1>4. Ends(j) >= Ends(k)
  BY <1>1, <1>3, FramesApart
<1>5. Ends(j) \in Nat /\ Ends(k) \in Nat
  BY <1>1, FrameBytes
<1>6. Asked \in Int
  BY <1>1 DEF Asked, PlaceInv
<1> QED BY <1>2, <1>3, <1>4, <1>5, <1>6

\* What a reader has read it need not account for again.
LEMMA SkipsNothing ==
  ASSUME FramingInv, UNCHANGED wireVars, UNCHANGED taken, cuts \subseteq cuts',
         NEW j \in 1 .. Len(frames), Ends(j) <= Begun \/ cuts # {}
  PROVE  (j <= Len(taken) /\ taken[j] = frames[j]) \/ \E c \in cuts' : c <= Ends(j)
<1>1. Types /\ Layout /\ PlaceInv /\ SkipInv
  BY DEF FramingInv
<1>2. CASE Ends(j) <= Begun
  BY <1>1, <1>2, Zenon DEF SkipInv
<1>3. CASE ~(Ends(j) <= Begun)
  <2>1. PICK c \in cuts : c \in Nat /\ c <= Begun
    BY <1>1, <1>3, Within
  <2>2. Begun \in Nat /\ Ends(j) \in Nat
    BY <1>1, Within, FrameBytes
  <2>3. c <= Ends(j) /\ c \in cuts'
    BY <1>3, <2>1, <2>2
  <2> QED BY <2>3
<1> QED BY <1>2, <1>3

\* The messages handled stay what they were.
LEMMA TakenStays ==
  ASSUME FramingInv, UNCHANGED wireVars, UNCHANGED taken, cuts \subseteq cuts'
  PROVE  TakenIsSent'
<1>1. Types /\ Layout /\ TakenIsSent
  BY DEF FramingInv
<1>2. /\ UNCHANGED <<reader, stream, frames, peer, arrived>>
      /\ \A c : Boundary(c)' <=> Boundary(c)
  BY <1>1, ReadStays, Zenon
<1>3. ASSUME NEW k \in 1 .. Len(taken)
      PROVE  \/ \E j \in 1 .. Len(frames) : frames[j] = taken[k]
             \/ reader = "goes on" /\ \E c \in cuts' : c <= taken[k].at /\ ~Boundary(c)'
  BY <1>1, <1>2, Zenon DEF TakenIsSent, Sent
<1> QED BY <1>2, <1>3, Zenon DEF TakenIsSent, Sent

\* A short read leaves the reader inside a message, or ends it.
LEMMA RecvShortKeeps ==
  ASSUME FramingInv, RecvShort
  PROVE  FramingInv'
<1> USE SizesAssumption
<1>1. Types /\ Layout /\ PlaceInv /\ AlignInv /\ CountInv /\ SkipInv /\ TakenIsSent
  BY DEF FramingInv
<1>2. /\ pc \in {"length", "payload"} /\ peer # "rst"
      /\ arrived - pos > 0 /\ arrived - pos < Asked
      /\ pos' = arrived /\ cuts' = cuts \cup {arrived}
      /\ UNCHANGED wireVars /\ UNCHANGED <<want, taken>>
      /\ pc' = IF reader = "leaves" THEN "closed" ELSE "length"
  BY DEF RecvShort, Ready, AfterFailure
<1>3. /\ UNCHANGED <<reader, stream, frames, peer, arrived>>
      /\ Layout'
      /\ \A k : Ends(k)' = Ends(k)
      /\ \A c : Boundary(c)' <=> Boundary(c)
  BY <1>1, <1>2, ReadStays, Zenon
<1>4. /\ Begun \in Nat /\ pos \in Nat /\ Begun <= pos /\ Len(stream) \in Nat
      /\ \A c \in cuts : c \in Nat /\ c <= Begun
      /\ \A k \in 1 .. Len(taken) :
           taken[k].at \in Nat /\ taken[k].at + LengthSize <= Begun
  BY <1>1, Within, Lengths
<1>5. arrived \in Nat /\ pos < arrived /\ arrived <= Len(stream) /\ Asked \in Int
  <2>1. arrived \in Nat /\ arrived <= Len(stream) /\ want \in Int
    BY <1>1, Zenon DEF Types
  <2> QED BY <1>2, <1>4, <2>1 DEF Asked
<1>6. Begun' = arrived /\ Begun < arrived
  BY <1>2, <1>4, <1>5 DEF Begun
<1>7. Types'
  <2>1. /\ pos' \in Nat /\ pos' <= arrived /\ cuts' \subseteq Nat
        /\ pc' \in {"length", "payload", "closed", "thrown"}
    BY <1>2, <1>4, <1>5
  <2> QED BY <1>1, <1>2, <1>3, <2>1, Zenon DEF Types
<1>8. PlaceInv'
  <2>1. Begun' \in Nat /\ pc' # "payload" /\ \A c \in cuts' : c <= Begun'
    BY <1>2, <1>4, <1>5, <1>6
  <2>2. \A k \in 1 .. Len(taken) : taken[k].at + LengthSize <= Begun'
    BY <1>4, <1>5, <1>6
  <2> QED BY <1>1, <1>2, <2>1, <2>2, Zenon DEF PlaceInv
<1>9. AlignInv'
  <2>1. pc' # "payload" /\ pc' # "thrown" /\ (pc' = "length" => reader # "leaves")
    BY <1>2
  <2>2. reader # "leaves" => reader = "goes on"
    BY <1>1, Zenon DEF Types
  <2>3. Boundary(arrived) => Boundary(pos)'
    BY <1>2, <1>3, Zenon DEF Boundary
  <2>4. reader = "goes on" /\ ~Boundary(arrived) => Lost'
    <3>1. arrived \in cuts' /\ arrived <= Begun'
      BY <1>2, <1>5, <1>6
    <3> QED BY <1>3, <3>1, Zenon DEF Lost
  <2> QED BY <1>3, <2>1, <2>2, <2>3, <2>4, Zenon DEF AlignInv
<1>10. CountInv'
  <2>1. cuts' # {} /\ (reader = "leaves" => pc' = "closed")
    BY <1>2
  <2> QED BY <1>1, <1>2, <1>3, <2>1, Zenon DEF CountInv
<1>11. SkipInv'
  <2>1. ASSUME NEW j \in 1 .. Len(frames), Ends(j) <= Begun'
        PROVE  (j <= Len(taken) /\ taken[j] = frames[j]) \/ \E c \in cuts' : c <= Ends(j)
    <3>1. cuts \subseteq cuts'
      BY <1>2
    <3>2. CASE Ends(j) <= Begun \/ cuts # {}
      BY <1>2, <3>1, <3>2, SkipsNothing, Zenon
    <3>3. CASE ~(Ends(j) <= Begun) /\ cuts = {}
      <4>1. ~Lost
        BY <3>3 DEF Lost
      <4>2. Ends(j) \in Nat
        BY <1>1, FrameBytes
      <4>3. Ends(j) > Begun /\ pos < Len(stream) /\ Asked > 0
        BY <1>2, <1>4, <1>5, <3>3, <4>2
      <4>4. Ends(j) >= pos + Asked
        BY <1>2, <4>1, <4>3, ShortRead
      <4> QED BY <1>2, <1>4, <1>5, <1>6, <2>1, <4>2, <4>4
    <3> QED BY <3>2, <3>3
  <2> QED BY <1>2, <1>3, <2>1, Zenon DEF SkipInv
<1>12. TakenIsSent'
  BY <1>2, TakenStays
<1> QED BY <1>3, <1>7, <1>8, <1>9, <1>10, <1>11, <1>12, Zenon DEF FramingInv

\* At the end of the stream there is no message left to read.
LEMMA RecvEndKeeps ==
  ASSUME FramingInv, RecvEnd
  PROVE  FramingInv'
<1> USE SizesAssumption
<1>1. Types /\ Layout /\ PlaceInv /\ AlignInv /\ CountInv /\ SkipInv /\ TakenIsSent
  BY DEF FramingInv
<1>2. /\ pc \in {"length", "payload"} /\ Asked > 0
      /\ peer = "rst" \/ (peer = "fin" /\ pos = Len(stream))
      /\ UNCHANGED wireVars /\ UNCHANGED <<pos, want, taken, cuts>>
      /\ pc' = IF reader = "leaves" THEN "closed" ELSE "length"
  BY DEF RecvEnd, AfterFailure
<1>3. /\ UNCHANGED <<reader, stream, frames, peer, arrived>>
      /\ Layout'
      /\ \A k : Ends(k)' = Ends(k)
      /\ \A c : Boundary(c)' <=> Boundary(c)
  BY <1>1, <1>2, ReadStays, Zenon
<1>4. /\ Begun \in Nat /\ pos \in Nat /\ Begun <= pos /\ Len(stream) \in Nat
      /\ \A c \in cuts : c \in Nat /\ c <= Begun
      /\ \A k \in 1 .. Len(taken) :
           taken[k].at \in Nat /\ taken[k].at + LengthSize <= Begun
  BY <1>1, Within, Lengths
<1>5. Begun' = pos /\ (pc = "length" => Begun = pos) /\ Asked \in Int
  <2>1. want \in Int
    BY <1>1, Zenon DEF Types
  <2> QED BY <1>2, <2>1 DEF Begun, Asked
<1>6. Types'
  <2>1. pc' \in {"length", "payload", "closed", "thrown"}
    BY <1>2
  <2> QED BY <1>1, <1>2, <1>3, <2>1, Zenon DEF Types
<1>7. PlaceInv'
  <2>1. Begun' \in Nat /\ pc' # "payload" /\ \A c \in cuts : c <= Begun'
    BY <1>2, <1>4, <1>5
  <2>2. \A k \in 1 .. Len(taken) : taken[k].at + LengthSize <= Begun'
    BY <1>4, <1>5
  <2> QED BY <1>1, <1>2, <2>1, <2>2, Zenon DEF PlaceInv
<1>8. AlignInv'
  <2>1. pc' # "payload" /\ pc' # "thrown"
    BY <1>2
  <2>2. peer' = "rst" \/ Boundary(pos)'
    BY <1>2, <1>3 DEF Boundary
  <2> QED BY <2>1, <2>2, Zenon DEF AlignInv
<1>9. ASSUME cuts = {}, pc = "payload", NEW j \in 1 .. Len(frames), Ends(j) > Begun
      PROVE  Ends(j) \in Nat /\ Ends(j) > pos
  <2>1. ~Lost
    BY <1>9 DEF Lost
  <2>2. Ends(j) \in Nat /\ Ends(j) >= pos + Asked
    BY <1>2, <1>9, <2>1, ShortRead
  <2> QED BY <1>2, <1>4, <1>5, <2>2
<1>10. CountInv'
  <2>1. ASSUME cuts = {}, peer # "rst"
        PROVE  Begun' = IF Len(taken) < Len(frames) THEN frames[Len(taken) + 1].at
                        ELSE Len(stream)
    <3>1. CASE pc = "length"
      BY <1>1, <1>5, <2>1, <3>1, Zenon DEF CountInv
    <3>2. CASE pc = "payload"
      <4>1. ~Lost
        BY <2>1 DEF Lost
      <4>2. PICK k \in 1 .. Len(frames) : frames[k].at = Begun
        BY <1>1, <3>2, <4>1, Zenon DEF AlignInv
      <4>3. Ends(k) \in Nat /\ frames[k].at + LengthSize <= Ends(k) /\ Ends(k) <= Len(stream)
        BY <1>1, FrameBytes
      <4>4. Ends(k) > Begun
        BY <1>4, <4>2, <4>3
      <4>5. Ends(k) > pos
        BY <1>9, <2>1, <3>2, <4>4
      <4>6. pos = Len(stream)
        BY <1>2, <2>1
      <4> QED BY <1>4, <4>3, <4>5, <4>6
    <3> QED BY <1>2, <3>1, <3>2
  <2>2. reader = "leaves" => pc' = "closed"
    BY <1>2
  <2> QED BY <1>1, <1>2, <1>3, <2>1, <2>2, Zenon DEF CountInv
<1>11. SkipInv'
  <2>1. ASSUME NEW j \in 1 .. Len(frames), Ends(j) <= Begun'
        PROVE  (j <= Len(taken) /\ taken[j] = frames[j]) \/ \E c \in cuts : c <= Ends(j)
    <3>1. CASE Ends(j) <= Begun \/ cuts # {}
      BY <1>2, <3>1, SkipsNothing, Zenon
    <3>2. CASE ~(Ends(j) <= Begun) /\ cuts = {}
      <4>1. Ends(j) \in Nat
        BY <1>1, FrameBytes
      <4>2. Ends(j) > Begun /\ pc = "payload"
        BY <1>2, <1>4, <1>5, <2>1, <3>2, <4>1
      <4>3. Ends(j) > pos
        BY <1>9, <3>2, <4>2
      <4> QED BY <1>4, <1>5, <2>1, <4>1, <4>3
    <3> QED BY <3>1, <3>2
  <2> QED BY <1>2, <1>3, <2>1, Zenon DEF SkipInv
<1>12. TakenIsSent'
  BY <1>2, TakenStays
<1> QED BY <1>3, <1>6, <1>7, <1>8, <1>10, <1>11, <1>12, Zenon DEF FramingInv
-----------------------------------------------------------------------------
(* The theorems.                                                           *)

\* A reader that leaves has handled a beginning of what was sent.
TakenIsAPrefix ==
  reader = "leaves" =>
    Len(taken) <= Len(frames) /\ \A k \in 1 .. Len(taken) : taken[k] = frames[k]

\* The invariant holds at the start and every step keeps it.
LEMMA FramingAlways == Spec => []FramingInv
<1>1. Init => FramingInv
  BY InitInv
<1>2. FramingInv /\ [Next]_vars => FramingInv'
  <2> SUFFICES ASSUME FramingInv, [Next]_vars PROVE FramingInv'
    OBVIOUS
  <2>1. CASE \E p \in Payloads : SendFrame(p)
    BY <2>1, SendKeeps
  <2>2. CASE PeerStop \/ Arrive
    BY <2>2, WireKeeps
  <2>3. CASE RecvLength
    BY <2>3, RecvLengthKeeps
  <2>4. CASE RecvPayload
    BY <2>4, RecvPayloadKeeps
  <2>5. CASE RecvShort
    BY <2>5, RecvShortKeeps
  <2>6. CASE RecvEnd
    BY <2>6, RecvEndKeeps
  <2>7. CASE UNCHANGED vars
    <3>1. UNCHANGED <<reader, stream, frames, peer, arrived, pos, pc, want, taken, cuts>>
      BY <2>7 DEF vars, wireVars, readerVars
    <3>2. Begun' = Begun
      BY <3>1, Zenon DEF Begun
    <3>3. /\ UNCHANGED wireVars
          /\ Types /\ Layout /\ PlaceInv /\ AlignInv /\ CountInv /\ SkipInv /\ TakenIsSent
      BY <2>7 DEF vars, FramingInv
    <3>4. Layout' /\ \A c : Boundary(c)' <=> Boundary(c)
      BY <3>3, ReadStays, Zenon
    <3>5. TakenIsSent'
      BY <3>1, <3>3, TakenStays
    <3>6. Types' /\ PlaceInv' /\ CountInv' /\ SkipInv'
      BY <3>1, <3>2, <3>3, Zenon DEF Types, PlaceInv, CountInv, SkipInv, Ends
    <3>7. AlignInv'
      BY <3>1, <3>2, <3>3, <3>4, Zenon DEF AlignInv, Lost, Boundary
    <3> QED BY <3>4, <3>5, <3>6, <3>7, Zenon DEF FramingInv
  <2> QED BY <2>1, <2>2, <2>3, <2>4, <2>5, <2>6, <2>7 DEF Next, Read
<1> QED BY <1>1, <1>2, PTL DEF Spec

\* A reader handles a message that nobody sent only after a short read from
\* inside a message, by one of the readers that go on
\* (AuthenticateServer.cpp:149, 160, Client.cpp:125, 136).
THEOREM HandledMessagesWereSent == Spec => []TakenIsSent
<1>1. FramingInv => TakenIsSent
  BY DEF FramingInv
<1> QED BY <1>1, FramingAlways, PTL

\* Up to the first short read every message is handled, in order and once.
THEOREM NoMessageIsSkipped == Spec => []NothingSkipped
<1>1. FramingInv => NothingSkipped
  BY Zenon DEF FramingInv, SkipInv, PlaceInv, NothingSkipped, Begun
<1> QED BY <1>1, FramingAlways, PTL

\* No reader allocates a length nobody sent before it is lost; the readers of
\* the gateway (Server.cpp:212, 381) never do.
THEOREM ThrowsHaveACause == Spec => []ThrowHasACause
<1>1. FramingInv => ThrowHasACause
  BY DEF FramingInv, AlignInv, Lost, ThrowHasACause
<1> QED BY <1>1, FramingAlways, PTL

\* The readers of the gateway (Server.cpp:194, 366) handle a beginning of what
\* was sent, whatever the network does.
THEOREM GatewayReadsAPrefix == Spec => []TakenIsAPrefix
<1>1. FramingInv => TakenIsAPrefix
  BY DEF FramingInv, CountInv, TakenIsAPrefix
<1> QED BY <1>1, FramingAlways, PTL
=============================================================================
