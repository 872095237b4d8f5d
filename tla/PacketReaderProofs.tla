-------------------------- MODULE PacketReaderProofs --------------------------
(* Theorems about PacketReader, for every value of its constants.          *)
EXTENDS PacketReader, SequenceTheorems, WellFoundedInduction, TLAPS

-----------------------------------------------------------------------------
(* Recursive functions on numbers.                                         *)

(* A set of numbers has a least one.                                       *)
LEMMA LeastNumber ==
    ASSUME NEW S, S \subseteq Nat, S # {}
    PROVE  \E x \in S : \A y \in S : x <= y
<1> DEFINE R == OpToRel(<, Nat)
<1>1. IsWellFoundedOn(R, Nat)
  BY NatLessThanWellFounded
<1>2. \A x, y \in Nat : x < y => <<x, y>> \in R
  BY DEF OpToRel
<1> HIDE DEF R
<1>3. PICK x \in S : \A y \in S : ~(<<y, x>> \in R)
  BY <1>1, WFMin
<1>4. \A y \in S : y \in Nat /\ ~(y < x)
  BY <1>2, <1>3
<1> QED
  BY <1>3, <1>4

(* A function whose value at a number n of D is made by step[n] from that  *)
(* at the smaller number less[n], and elsewhere is first[n].               *)
MadeFrom(f, T, D, less, first, step) ==
    /\ f \in [Nat -> T]
    /\ \A n \in Nat : /\ n \in D => f[n] = step[n][f[less[n]]]
                      /\ n \notin D => f[n] = first[n]

Shrinks(D, less) == \A n \in D : less[n] \in Nat /\ less[n] < n

Begins(T, first) == \A n \in Nat : first[n] \in T

Steps(T, D, step) == \A n \in D, t \in T : step[n][t] \in T

LEMMA RecursionExists ==
    ASSUME NEW T, NEW D, NEW less, NEW first, NEW step,
           Shrinks(D, less), Begins(T, first), Steps(T, D, step)
    PROVE  \E f : MadeFrom(f, T, D, less, first, step)
<1>0. /\ \A n \in D : less[n] \in Nat /\ less[n] < n
      /\ \A n \in Nat : first[n] \in T
      /\ \A n \in D, t \in T : step[n][t] \in T
  BY Zenon DEF Shrinks, Begins, Steps
<1> DEFINE Good(h, n) ==
      /\ h \in [0..n -> T]
      /\ \A k \in 0..n : h[k] = IF k \in D THEN step[k][h[less[k]]] ELSE first[k]
<1>1. \A n \in Nat : \E h : Good(h, n)
  <2> DEFINE bad == {n \in Nat : ~ \E h : Good(h, n)}
  <2> SUFFICES ASSUME bad # {} PROVE FALSE
    OBVIOUS
  <2>1. PICK n \in bad : \A m \in bad : n <= m
    <3>1. bad \subseteq Nat
      OBVIOUS
    <3> HIDE DEF bad
    <3> QED
      BY <3>1, LeastNumber
  <2>2. CASE n = 0
    <3>1. 0 \notin D /\ first[0] \in T
      BY <1>0
    <3>2. Good([k \in 0..0 |-> first[0]], 0)
      BY <3>1
    <3> QED
      BY <2>1, <2>2, <3>2
  <2>3. CASE n # 0
    <3>1. n \in Nat /\ n - 1 \in Nat /\ n - 1 \notin bad
      <4>1. n \in Nat
        BY Zenon
      <4> HIDE DEF bad
      <4>2. n - 1 \in Nat /\ ~(n <= n - 1)
        BY <2>3, <4>1
      <4> QED
        BY <2>1, <4>1, <4>2, Zenon
    <3>2. PICK g : Good(g, n - 1)
      BY <3>1, Zenon
    <3> DEFINE last == IF n \in D THEN step[n][g[less[n]]] ELSE first[n]
               h == [k \in 0..n |-> IF k = n THEN last ELSE g[k]]
    <3>3. last \in T /\ (n \in D => less[n] \in 0..(n - 1))
      <4>1. n \in D => less[n] \in 0..(n - 1)
        BY <1>0, <3>1
      <4>2. n \in D => g[less[n]] \in T
        BY <3>2, <4>1
      <4> QED
        BY <1>0, <3>1, <4>1, <4>2
    <3> HIDE DEF last
    <3>4. /\ \A k \in 0..(n - 1) : h[k] = g[k] /\ k \in 0..n
          /\ h[n] = last /\ \A k \in 0..n : k = n \/ k \in 0..(n - 1)
          /\ h \in [0..n -> T]
      BY <3>1, <3>2, <3>3
    <3> HIDE DEF h
    <3>5. \A k \in 0..(n - 1) : k \in D => less[k] \in 0..(n - 1)
      BY <1>0, <3>1
    <3>6. h[n] = IF n \in D THEN step[n][h[less[n]]] ELSE first[n]
      BY <3>3, <3>4 DEF last
    <3>7. \A k \in 0..(n - 1) : h[k] = IF k \in D THEN step[k][h[less[k]]] ELSE first[k]
      BY <3>2, <3>4, <3>5
    <3>8. Good(h, n)
      BY <3>4, <3>6, <3>7
    <3> QED
      BY <2>1, <3>8
  <2> QED
    BY <2>1, <2>2, <2>3
<1>2. ASSUME NEW n \in Nat, NEW m \in Nat, NEW g, NEW h, Good(g, n), Good(h, m)
      PROVE  \A k \in Nat : k <= n /\ k <= m => g[k] = h[k]
  <2> DEFINE bad == {k \in Nat : k <= n /\ k <= m /\ g[k] # h[k]}
  <2> SUFFICES ASSUME bad # {} PROVE FALSE
    OBVIOUS
  <2>1. PICK k \in bad : \A j \in bad : k <= j
    <3>1. bad \subseteq Nat
      OBVIOUS
    <3> HIDE DEF bad
    <3> QED
      BY <3>1, LeastNumber
  <2>2. k \in 0..n /\ k \in 0..m /\ g[k] # h[k]
    BY <2>1
  <2>3. k \in D => g[less[k]] = h[less[k]]
    BY <1>0, <2>1, <2>2
  <2> QED
    BY <1>2, <2>2, <2>3
<1> DEFINE H(n) == CHOOSE h : Good(h, n)
           f == [n \in Nat |-> H(n)[n]]
<1>3. \A n \in Nat : Good(H(n), n)
  BY <1>1
<1>4. \A n \in Nat : f[n] = H(n)[n]
  OBVIOUS
<1> HIDE DEF H
<1>5. f \in [Nat -> T]
  BY <1>3
<1>6. ASSUME NEW n \in Nat
      PROVE  /\ n \in D => f[n] = step[n][f[less[n]]]
             /\ n \notin D => f[n] = first[n]
  <2>1. CASE n \in D
    <3>1. less[n] \in Nat /\ less[n] <= n
      BY <1>0, <2>1
    <3>2. H(n)[less[n]] = H(less[n])[less[n]]
      <4>1. Good(H(n), n) /\ Good(H(less[n]), less[n])
        BY <1>3, <3>1, Zenon
      <4>2. less[n] <= less[n]
        BY <3>1
      <4> HIDE DEF Good
      <4> QED
        BY <1>2, <3>1, <4>1, <4>2
    <3>3. f[less[n]] = H(n)[less[n]]
      BY <1>4, <3>1, <3>2
    <3>4. H(n)[n] = step[n][H(n)[less[n]]]
      BY <1>3, <2>1
    <3> QED
      BY <1>4, <2>1, <3>3, <3>4
  <2>2. CASE n \notin D
    BY <1>3, <1>4, <2>2
  <2> QED
    BY <2>1, <2>2
<1> HIDE DEF f
<1> QED
  BY <1>5, <1>6 DEF MadeFrom

-----------------------------------------------------------------------------
(* The constants: a packet's length in digits, and the text of the packets.*)

LEMMA Constants ==
    /\ Base \in Nat /\ Base > 1 /\ RecordHeader \in Nat /\ RecordHeader > 0
    /\ MaxTries \in Nat /\ MaxTries > 0
    /\ Width \in Nat /\ Width > 2 * Base
    /\ Len(Packets) \in Nat /\ DOMAIN Packets = 1..Len(Packets)
    /\ Byte = 0..(2 * Base - 1) /\ 0 \in Byte
BY ReaderAssumption DEF ReaderAssumption, Byte

LEMMA PacketType ==
    ASSUME NEW k \in 1..Len(Packets)
    PROVE  /\ Packets[k].header \in Byte /\ Packets[k].payload \in Seq(Byte)
           /\ Packets[k] = [header |-> Packets[k].header, payload |-> Packets[k].payload]
           /\ Len(Packets[k].payload) \in Nat
<1> DEFINE Type == [header : Byte, payload : Seq(Byte)]
<1>1. Packets[k] \in Type
  <2>1. Packets \in Seq(Type)
    BY ReaderAssumption DEF ReaderAssumption
  <2> HIDE DEF Type
  <2> QED
    BY <2>1, ElementOfSeq
<1>2. \A p \in Type : /\ p.header \in Byte /\ p.payload \in Seq(Byte)
                      /\ p = [header |-> p.header, payload |-> p.payload]
                      /\ Len(p.payload) \in Nat
  OBVIOUS
<1> QED
  BY <1>1, <1>2, Zenon

(* Two sequences in one.                                                   *)
IsJoined(w, s, r) ==
    /\ Len(s) \in Nat /\ Len(r) \in Nat /\ Len(w) = Len(s) + Len(r)
    /\ \A j \in 1..Len(s) : w[j] = s[j]
    /\ \A j \in 1..Len(r) : w[Len(s) + j] = r[j]

LEMMA Joined ==
    ASSUME NEW S, NEW s \in Seq(S), NEW r \in Seq(S)
    PROVE  s \o r \in Seq(S) /\ IsJoined(s \o r, s, r)
<1> DEFINE w == s \o r
<1>1. /\ w \in Seq(S) /\ Len(w) = Len(s) + Len(r)
      /\ \A j \in 1..(Len(s) + Len(r)) :
           w[j] = IF j <= Len(s) THEN s[j] ELSE r[j - Len(s)]
  BY ConcatProperties, Zenon
<1> HIDE DEF w
<1>2. Len(s) \in Nat /\ Len(r) \in Nat
  OBVIOUS
<1>3. \A j \in 1..Len(s) : w[j] = s[j]
  BY <1>1, <1>2
<1>4. ASSUME NEW j \in 1..Len(r) PROVE w[Len(s) + j] = r[j]
  <2>1. /\ Len(s) + j \in 1..(Len(s) + Len(r)) /\ ~(Len(s) + j <= Len(s))
        /\ (Len(s) + j) - Len(s) = j
    BY <1>2
  <2> QED
    BY <1>1, <2>1
<1> QED
  BY <1>1, <1>2, <1>3, <1>4 DEF IsJoined, w

LEMMA Digits ==
    ASSUME NEW n \in Nat
    PROVE  /\ n % Base \in 0..(Base - 1) /\ n \div Base \in Nat
           /\ n = (n \div Base) * Base + (n % Base)
           /\ n >= Base => n \div Base < n /\ n \div Base > 0
           /\ n < Base => n % Base = n
           /\ (n % Base) + Base \in Byte
           /\ n < Base => n \in Byte
           /\ ((n % Base) + Base) % Base = n % Base
<1>1. Base \in Nat /\ Base > 1
  BY Constants
<1>2. n % Base \in 0..(Base - 1) /\ n \div Base \in Nat
  BY <1>1
<1>3. n = (n \div Base) * Base + (n % Base)
  BY <1>1, Z3
<1>4. n >= Base => n \div Base < n
  BY <1>1
<1>5. n >= Base => n \div Base > 0
  BY <1>1, <1>2, <1>3
<1>6. n < Base => n % Base = n
  BY <1>1
<1>7. (n % Base) + Base \in Byte /\ (n < Base => n \in Byte)
  BY <1>1, <1>2, Constants
<1>8. ((n % Base) + Base) % Base = n % Base
  BY <1>1, <1>2
<1> QED
  BY <1>2, <1>3, <1>4, <1>5, <1>6, <1>7, <1>8

LEMMA EncodedIs ==
    \A n \in Nat :
      /\ Encoded[n] \in Seq(Byte) /\ Len(Encoded[n]) >= 1
      /\ n < Base => Encoded[n] = <<n>>
      /\ n >= Base => Encoded[n] = <<(n % Base) + Base>> \o Encoded[n \div Base]
<1> DEFINE D == {n \in Nat : n >= Base}
           T == {s \in Seq(Byte) : Len(s) >= 1}
           less == [n \in Nat |-> n \div Base]
           first == [n \in Nat |-> IF n < Base THEN <<n>> ELSE <<0>>]
           step == [n \in Nat |-> [t \in T |-> <<(n % Base) + Base>> \o t]]
<1>1. Shrinks(D, less)
  BY Digits DEF Shrinks
<1>2. Begins(T, first)
  BY Digits, Constants DEF Begins
<1>3. Steps(T, D, step)
  <2> SUFFICES ASSUME NEW n \in Nat, NEW t \in T
               PROVE  <<(n % Base) + Base>> \o t \in T
    BY DEF Steps
  <2>1. (n % Base) + Base \in Byte
    BY Digits
  <2>2. <<(n % Base) + Base>> \in Seq(Byte) /\ Len(<<(n % Base) + Base>>) = 1
    BY <2>1
  <2> QED
    BY <2>2, ConcatProperties
<1> HIDE DEF step, first, less, T, D
<1>4. PICK f : MadeFrom(f, T, D, less, first, step)
  BY <1>1, <1>2, <1>3, RecursionExists, Zenon
<1>5. \A n \in Nat : f[n] = IF n < Base THEN <<n>>
                            ELSE <<(n % Base) + Base>> \o f[n \div Base]
  <2> SUFFICES ASSUME NEW n \in Nat
               PROVE  f[n] = IF n < Base THEN <<n>>
                             ELSE <<(n % Base) + Base>> \o f[n \div Base]
    OBVIOUS
  <2>1. Base \in Nat /\ n \div Base \in Nat
    BY Constants, Digits
  <2>2. CASE n < Base
    BY <1>4, <2>1, <2>2 DEF MadeFrom, D, first
  <2>3. CASE n >= Base
    <3>1. n \in D /\ less[n] = n \div Base /\ f[n \div Base] \in T
      <4>1. n \in D /\ less[n] = n \div Base
        BY <2>3 DEF D, less
      <4>2. f \in [Nat -> T]
        BY <1>4 DEF MadeFrom
      <4> QED
        BY <2>1, <4>1, <4>2
    <3>2. step[n][f[n \div Base]] = <<(n % Base) + Base>> \o f[n \div Base]
      <4>1. step[n] = [t \in T |-> <<(n % Base) + Base>> \o t]
        BY Zenon DEF step
      <4> QED
        BY <3>1, <4>1, Zenon
    <3> QED
      <4>1. f[n] = step[n][f[less[n]]]
        BY <1>4, <3>1 DEF MadeFrom
      <4>2. ~(n < Base)
        BY <2>1, <2>3
      <4> QED
        BY <3>1, <3>2, <4>1, <4>2
  <2> QED
    BY <2>1, <2>2, <2>3
<1>6. f = [n \in Nat |-> IF n < Base THEN <<n>>
                         ELSE <<(n % Base) + Base>> \o f[n \div Base]]
  <2>1. f = [n \in Nat |-> f[n]]
    <3>1. f \in [Nat -> T]
      BY <1>4 DEF MadeFrom
    <3> QED
      BY <3>1, Zenon
  <2> QED
    BY <1>5, <2>1, Zenon
<1>7. Encoded = [n \in Nat |-> IF n < Base THEN <<n>>
                               ELSE <<(n % Base) + Base>> \o Encoded[n \div Base]]
  BY <1>6 DEF Encoded
<1>8. \A n \in Nat :
        Encoded[n] = IF n < Base THEN <<n>>
                     ELSE <<(n % Base) + Base>> \o Encoded[n \div Base]
  BY <1>7
<1>9. ASSUME {n \in Nat : Encoded[n] \notin T} # {} PROVE FALSE
  <2> DEFINE bad == {n \in Nat : Encoded[n] \notin T}
  <2>1. PICK n \in bad : \A m \in bad : n <= m
    <3>1. bad \subseteq Nat /\ bad # {}
      BY <1>9
    <3> HIDE DEF bad
    <3> QED
      BY <3>1, LeastNumber
  <2>2. n \in Nat /\ Encoded[n] \notin T
    BY Zenon
  <2>3. CASE n < Base
    <3>1. <<n>> \in T
      BY <2>2, <2>3, Digits DEF T
    <3> QED
      BY <1>8, <2>2, <2>3, <3>1
  <2>4. CASE ~(n < Base)
    <3>0. n \in Nat /\ n >= Base
      BY <2>2, <2>4, Constants
    <3>1. n \div Base \in Nat /\ n \div Base < n /\ n \in D
      BY <3>0, Digits DEF D
    <3>2. Encoded[n \div Base] \in T
      <4>1. ~(n <= n \div Base)
        BY <2>2, <3>1
      <4> QED
        BY <2>1, <3>1, <4>1, Zenon
    <3>3. step[n][Encoded[n \div Base]] = <<(n % Base) + Base>> \o Encoded[n \div Base]
      BY <2>2, <3>2 DEF step
    <3> QED
      BY <1>3, <1>8, <2>2, <2>4, <3>1, <3>2, <3>3 DEF Steps
  <2> QED
    BY <2>3, <2>4
<1>10. \A n \in Nat : Encoded[n] \in Seq(Byte) /\ Len(Encoded[n]) >= 1
  BY <1>9 DEF T
<1>11. ASSUME NEW n \in Nat
       PROVE  /\ n < Base => Encoded[n] = <<n>>
              /\ n >= Base => Encoded[n] = <<(n % Base) + Base>> \o Encoded[n \div Base]
  <2>1. n >= Base => ~(n < Base)
    BY Constants
  <2> QED
    BY <1>8, <2>1, Zenon
<1> QED
  BY <1>10, <1>11, Zenon

LEMMA BytesAre ==
    ASSUME NEW k \in 1..Len(Packets)
    PROVE  LET p == Packets[k]
               digits == Encoded[Len(p.payload)]
           IN  /\ Len(digits) \in Nat
               /\ Bytes(p) \in Seq(Byte)
               /\ Len(Bytes(p)) = 1 + Len(digits) + Len(p.payload)
               /\ Bytes(p)[1] = p.header
               /\ \A j \in 1..Len(digits) : Bytes(p)[1 + j] = digits[j]
               /\ \A j \in 1..Len(p.payload) :
                    Bytes(p)[1 + Len(digits) + j] = p.payload[j]
<1> DEFINE p == Packets[k]
           digits == Encoded[Len(p.payload)]
           head == <<p.header>>
           start == head \o digits
           whole == start \o p.payload
<1>1. p.header \in Byte /\ p.payload \in Seq(Byte) /\ Len(p.payload) \in Nat
  BY PacketType
<1> HIDE DEF p
<1>2. digits \in Seq(Byte)
  BY <1>1, EncodedIs, Zenon
<1>3. head \in Seq(Byte) /\ Len(head) = 1 /\ head[1] = p.header
  BY <1>1
<1> HIDE DEF digits, head
<1>4. start \in Seq(Byte) /\ IsJoined(start, head, digits)
  BY <1>2, <1>3, Joined, Zenon
<1> HIDE DEF start
<1>5. whole \in Seq(Byte) /\ IsJoined(whole, start, p.payload)
  BY <1>1, <1>4, Joined, Zenon
<1> HIDE DEF whole
<1>6. Bytes(p) = whole
  BY DEF Bytes, whole, start, head, digits
<1>7. /\ Len(digits) \in Nat /\ Len(start) = 1 + Len(digits) /\ start[1] = p.header
      /\ \A j \in 1..Len(digits) : start[1 + j] = digits[j]
  BY <1>3, <1>4 DEF IsJoined
<1>8. /\ Len(whole) = Len(start) + Len(p.payload) /\ whole[1] = start[1]
      /\ \A j \in 1..Len(digits) : whole[1 + j] = start[1 + j]
      /\ \A j \in 1..Len(p.payload) : whole[Len(start) + j] = p.payload[j]
  <2>1. 1 \in 1..Len(start) /\ \A j \in 1..Len(digits) : 1 + j \in 1..Len(start)
    BY <1>7
  <2> QED
    BY <1>5, <2>1, Zenon DEF IsJoined
<1> QED
  BY <1>5, <1>6, <1>7, <1>8 DEF p, digits

LEMMA TextIs ==
    /\ Text[0] = <<>>
    /\ \A k \in 1..Len(Packets) : Text[k] = Text[k - 1] \o Bytes(Packets[k])
    /\ \A k \in 0..Len(Packets) : Text[k] \in Seq(Byte)
<1> DEFINE N == Len(Packets)
           T == Seq(Byte)
           D == 1..N
           less == [n \in Nat |-> n - 1]
           first == [n \in Nat |-> <<>>]
           step == [n \in Nat |-> [t \in T |-> t \o Bytes(Packets[n])]]
<1>1. N \in Nat
  BY Constants
<1>2. Shrinks(D, less)
  BY <1>1 DEF Shrinks
<1>3. Begins(T, first)
  BY DEF Begins
<1>4. ASSUME NEW n \in D, NEW t \in T
      PROVE  t \o Bytes(Packets[n]) \in T
  <2>1. Bytes(Packets[n]) \in Seq(Byte)
    BY BytesAre
  <2> QED
    BY <2>1, Joined, Zenon
<1>5. \A n \in D, t \in T : step[n][t] = t \o Bytes(Packets[n])
  <2>1. \A n \in D : n \in Nat
    BY <1>1
  <2> QED
    BY <2>1, Zenon
<1> HIDE DEF T
<1>6. Steps(T, D, step)
  BY <1>4, <1>5 DEF Steps
<1> HIDE DEF step, first, less, N
<1>7. PICK f : MadeFrom(f, T, D, less, first, step)
  BY <1>2, <1>3, <1>6, RecursionExists, Zenon
<1> DEFINE g == [k \in 0..N |-> f[k]]
<1>8. /\ \A k \in 0..N : f[k] \in T
      /\ f[0] = <<>>
      /\ \A k \in D : k - 1 \in 0..N /\ f[k] = f[k - 1] \o Bytes(Packets[k])
  <2>1. f \in [Nat -> T] /\ f[0] = first[0]
    BY <1>7 DEF MadeFrom
  <2>2. \A k \in D : f[k] = step[k][f[less[k]]]
    BY <1>1, <1>7 DEF MadeFrom
  <2>3. \A k \in D : k - 1 \in 0..N /\ less[k] = k - 1 /\ f[k - 1] \in T
    BY <1>1, <2>1 DEF less
  <2>4. \A k \in D : f[k] = f[k - 1] \o Bytes(Packets[k])
    <3> SUFFICES ASSUME NEW k \in D PROVE f[k] = f[k - 1] \o Bytes(Packets[k])
      OBVIOUS
    <3>1. step[k][f[k - 1]] = f[k - 1] \o Bytes(Packets[k])
      BY <1>5, <2>3, Zenon
    <3> QED
      BY <2>2, <2>3, <3>1
  <2>5. f[0] = <<>> /\ \A k \in 0..N : f[k] \in T
    BY <1>1, <2>1 DEF first
  <2> QED
    BY <2>3, <2>4, <2>5, Zenon
<1>9. g = [k \in 0..N |-> IF k = 0 THEN <<>> ELSE g[k - 1] \o Bytes(Packets[k])]
  <2>1. ASSUME NEW k \in 0..N
        PROVE  f[k] = IF k = 0 THEN <<>> ELSE g[k - 1] \o Bytes(Packets[k])
    <3>1. CASE k = 0
      BY <1>8, <3>1
    <3>2. CASE k # 0
      <4>1. k \in D /\ k - 1 \in 0..N
        BY <1>1, <3>2
      <4>2. g[k - 1] = f[k - 1]
        BY <4>1
      <4> QED
        BY <1>8, <3>2, <4>1, <4>2
    <3> QED
      BY <3>1, <3>2
  <2> QED
    BY <2>1
<1>10. Text = [k \in 0..N |-> IF k = 0 THEN <<>> ELSE Text[k - 1] \o Bytes(Packets[k])]
  <2> HIDE DEF g
  <2> QED
    BY <1>9 DEF Text, N
<1>11. \A k \in 0..N : Text[k] = IF k = 0 THEN <<>>
                                 ELSE Text[k - 1] \o Bytes(Packets[k])
  BY <1>10
<1>12. ASSUME {k \in 0..N : Text[k] \notin T} # {} PROVE FALSE
  <2> DEFINE bad == {k \in 0..N : Text[k] \notin T}
  <2>1. PICK k \in bad : \A j \in bad : k <= j
    <3>1. bad \subseteq Nat /\ bad # {}
      BY <1>12
    <3> HIDE DEF bad
    <3> QED
      BY <3>1, LeastNumber
  <2>2. k \in 0..N /\ Text[k] \notin T
    BY Zenon
  <2>3. k # 0
    <3>1. <<>> \in T
      BY DEF T
    <3> QED
      BY <1>11, <2>2, <3>1, Zenon
  <2>4. k \in D /\ k - 1 \in 0..N /\ ~(k <= k - 1)
    BY <1>1, <2>2, <2>3
  <2>5. Text[k - 1] \in T
    BY <2>1, <2>4, Zenon
  <2>6. Text[k - 1] \o Bytes(Packets[k]) \in T
    BY <1>4, <2>4, <2>5, Zenon
  <2>7. Text[k] = Text[k - 1] \o Bytes(Packets[k])
    BY <1>11, <2>2, <2>3, Zenon
  <2> QED
    BY <2>2, <2>6, <2>7, Zenon
<1>13. \A k \in 1..N : k \in 0..N /\ k # 0
  BY <1>1
<1>14. Text[0] = <<>> /\ \A k \in 0..N : Text[k] \in Seq(Byte)
  BY <1>1, <1>11, <1>12 DEF T
<1>15. \A k \in 1..N : Text[k] = Text[k - 1] \o Bytes(Packets[k])
  BY <1>11, <1>13
<1> QED
  BY <1>14, <1>15 DEF N

LEMMA TextGrows ==
    ASSUME NEW k \in 0..Len(Packets), NEW l \in 0..Len(Packets), k <= l
    PROVE  Plain(k) <= Plain(l) /\ \A j \in 1..Plain(k) : Text[l][j] = Text[k][j]
<1> DEFINE Grown(n) == /\ Len(Text[k]) <= Len(Text[n])
                       /\ \A j \in 1..Len(Text[k]) : Text[n][j] = Text[k][j]
           bad == {n \in k..l : ~Grown(n)}
<1>1. Len(Packets) \in Nat /\ k \in Nat /\ l \in Nat
  BY Constants
<1>2. \A n \in 0..Len(Packets) : Text[n] \in Seq(Byte) /\ Len(Text[n]) \in Nat
  BY TextIs
<1>3. ASSUME NEW n \in (k + 1)..l, Grown(n - 1) PROVE Grown(n)
  <2>1. n \in 1..Len(Packets) /\ n - 1 \in 0..Len(Packets) /\ n \in 0..Len(Packets)
    BY <1>1
  <2>2. Bytes(Packets[n]) \in Seq(Byte)
    BY <2>1, BytesAre
  <2>3. Text[n] = Text[n - 1] \o Bytes(Packets[n]) /\ Text[n - 1] \in Seq(Byte)
    BY <2>1, TextIs
  <2>4. IsJoined(Text[n], Text[n - 1], Bytes(Packets[n]))
    BY <2>2, <2>3, Joined, Zenon
  <2>5. /\ Len(Text[n - 1]) <= Len(Text[n])
        /\ \A j \in 1..Len(Text[n - 1]) : Text[n][j] = Text[n - 1][j]
    <3> HIDE DEF bad, Grown
    <3>1. \A w, s, r : IsJoined(w, s, r) =>
            Len(s) <= Len(w) /\ \A j \in 1..Len(s) : w[j] = s[j]
      BY DEF IsJoined
    <3> QED
      BY <2>4, <3>1, Zenon
  <2>6. \A j \in 1..Len(Text[k]) : j \in 1..Len(Text[n - 1])
    BY <1>2, <1>3, <2>1
  <2> QED
    BY <1>2, <1>3, <2>1, <2>5, <2>6
<1>4. Grown(k)
  BY <1>2
<1> HIDE DEF Grown
<1>5. ASSUME bad # {} PROVE FALSE
  <2>1. PICK n \in bad : \A m \in bad : n <= m
    <3>1. bad \subseteq Nat
      BY <1>1
    <3> HIDE DEF bad
    <3> QED
      BY <1>5, <3>1, LeastNumber
  <2>2. n \in k..l /\ ~Grown(n)
    BY Zenon
  <2>3. n # k
    BY <1>4, <2>2
  <2>4. n \in (k + 1)..l /\ n - 1 \in k..l /\ ~(n <= n - 1)
    BY <1>1, <2>2, <2>3
  <2>5. Grown(n - 1)
    BY <2>1, <2>4, Zenon
  <2> QED
    BY <1>3, <2>2, <2>4, <2>5, Zenon
<1>6. l \in k..l
  BY <1>1
<1> QED
  BY <1>5, <1>6 DEF Grown, Plain

(* Where the bytes of the packets are in the text of all of them.          *)
LEMMA TextLength ==
    /\ PlainText \in Seq(Byte)
    /\ Plain(0) = 0 /\ Plain(Len(Packets)) = Len(PlainText)
    /\ \A k \in 0..Len(Packets) : Plain(k) \in Nat /\ Plain(k) <= Len(PlainText)
<1>1. Len(Packets) \in Nat /\ Len(Packets) \in 0..Len(Packets)
  BY Constants
<1>2. PlainText \in Seq(Byte) /\ Plain(0) = 0 /\ Plain(Len(Packets)) = Len(PlainText)
  BY <1>1, TextIs DEF PlainText, Plain
<1>3. ASSUME NEW k \in 0..Len(Packets)
      PROVE  Plain(k) \in Nat /\ Plain(k) <= Len(PlainText)
  <2>1. Plain(k) \in Nat
    BY TextIs DEF Plain
  <2>2. k <= Len(Packets)
    BY <1>1
  <2> QED
    BY <1>1, <1>2, <2>1, <2>2, TextGrows
<1> QED
  BY <1>2, <1>3

LEMMA PacketInText ==
    ASSUME NEW k \in 1..Len(Packets)
    PROVE  LET p == Packets[k]
               digits == Encoded[Len(p.payload)]
               at == Plain(k - 1)
           IN  /\ k - 1 \in 0..Len(Packets) /\ k \in 0..Len(Packets)
               /\ at \in Nat /\ Len(digits) \in Nat
               /\ Plain(k) = at + 1 + Len(digits) + Len(p.payload)
               /\ PlainText[at + 1] = p.header
               /\ \A j \in 1..Len(digits) : PlainText[at + 1 + j] = digits[j]
               /\ \A j \in 1..Len(p.payload) :
                    PlainText[Plain(k) - Len(p.payload) + j] = p.payload[j]
<1> DEFINE p == Packets[k]
           header == p.header
           payload == p.payload
           digits == Encoded[Len(payload)]
           b == Bytes(p)
           at == Plain(k - 1)
<1>1. /\ Len(digits) \in Nat /\ Len(payload) \in Nat
      /\ b \in Seq(Byte) /\ Len(b) = 1 + Len(digits) + Len(payload)
      /\ b[1] = header
      /\ \A j \in 1..Len(digits) : b[1 + j] = digits[j]
      /\ \A j \in 1..Len(payload) : b[1 + Len(digits) + j] = payload[j]
  BY BytesAre, PacketType
<1>2. /\ k - 1 \in 0..Len(Packets) /\ k \in 0..Len(Packets) /\ k <= Len(Packets)
      /\ Len(Packets) \in 0..Len(Packets)
  BY Constants
<1>3. Text[k] = Text[k - 1] \o b /\ Text[k - 1] \in Seq(Byte)
  BY <1>2, TextIs
<1> HIDE DEF b, digits, header, payload, p
<1>4. IsJoined(Text[k], Text[k - 1], b)
  BY <1>1, <1>3, Joined
<1>5. /\ at \in Nat /\ Plain(k) = at + Len(b)
      /\ \A j \in 1..Len(b) : Text[k][at + j] = b[j]
  BY <1>4 DEF IsJoined, Plain
<1>6. \A j \in 1..Plain(k) : PlainText[j] = Text[k][j]
  BY <1>2, TextGrows DEF PlainText
<1> HIDE DEF at
<1>7. /\ at \in Nat /\ Len(digits) \in Nat /\ Len(payload) \in Nat
      /\ Len(b) = 1 + Len(digits) + Len(payload) /\ Plain(k) = at + Len(b)
  BY <1>1, <1>5
<1>8. ASSUME NEW j \in 1..Len(b) PROVE PlainText[at + j] = b[j]
  <2>1. at + j \in 1..Plain(k)
    BY <1>7
  <2> QED
    BY <1>5, <1>6, <2>1
<1>9. PlainText[at + 1] = header
  <2>1. 1 \in 1..Len(b)
    BY <1>7
  <2> QED
    BY <1>1, <1>8, <2>1
<1>10. ASSUME NEW j \in 1..Len(digits) PROVE PlainText[at + 1 + j] = digits[j]
  <2>1. 1 + j \in 1..Len(b) /\ at + (1 + j) = at + 1 + j
    BY <1>7
  <2>2. PlainText[at + (1 + j)] = b[1 + j]
    BY <1>8, <2>1
  <2> QED
    BY <1>1, <2>1, <2>2
<1>11. ASSUME NEW j \in 1..Len(payload)
       PROVE  PlainText[Plain(k) - Len(payload) + j] = payload[j]
  <2>1. /\ 1 + Len(digits) + j \in 1..Len(b)
        /\ at + (1 + Len(digits) + j) = Plain(k) - Len(payload) + j
    BY <1>7
  <2>2. PlainText[at + (1 + Len(digits) + j)] = b[1 + Len(digits) + j]
    BY <1>8, <2>1
  <2> QED
    BY <1>1, <2>1, <2>2
<1>12. Plain(k) = at + 1 + Len(digits) + Len(payload)
  BY <1>7
<1> QED
  BY <1>2, <1>7, <1>9, <1>10, <1>11, <1>12, Zenon DEF p, header, payload, digits, at

-----------------------------------------------------------------------------
(* Every variable has its type.                                            *)

(* The connection and the engine: no byte is counted twice.                *)
CountInv ==
    /\ fed <= taken /\ taken <= arrived /\ arrived <= OnTheWire
    /\ lost = 0 => fed + bytes <= taken
    /\ read <= Len(PlainText)

(* The read that is under way, or that none is.                            *)
ReadInv ==
    /\ Len(buffer) <= need
    /\ want > bytes => Len(buffer) < need
    /\ secure = 0 => \/ want = need /\ bytes = Len(buffer)
                     \/ want = 0 /\ bytes = 0 /\ Len(buffer) = need
    /\ reading = "idle" => need = 0 /\ want = 0 /\ bytes = 0
    /\ reading # "idle" => need >= 1
    /\ reading = "header" => numRetries >= 1
    /\ reading \in {"length", "rest"} => Len(readbuf) >= 1
    /\ socketCorrupted = 1 => reading = "idle"

ReaderInv == ReaderTypeOK /\ CountInv /\ ReadInv

LEMMA RecordsAre ==
    ASSUME fed \in Nat
    PROVE  /\ Records \in 0..Len(Packets)
           /\ RecordEnd(Records) <= fed
           /\ Records = Len(Packets) \/ RecordEnd(Records + 1) > fed
<1> DEFINE N == Len(Packets)
           enough == {k \in 0..N : k = N \/ RecordEnd(k + 1) > fed}
<1>1. N \in Nat /\ RecordHeader \in Nat /\ Plain(0) = 0
  BY Constants, TextLength
<1>2. RecordEnd(0) = 0 /\ \A k \in 0..N : RecordEnd(k) \in Int
  <2>1. \A k \in 0..N : Plain(k) \in Nat /\ k * RecordHeader \in Int
    BY <1>1, TextLength
  <2> QED
    BY <1>1, <2>1 DEF RecordEnd
<1> HIDE DEF N
<1>3. PICK k \in enough : \A j \in enough : k <= j
  <2>1. enough \subseteq Nat /\ N \in enough
    BY <1>1
  <2> HIDE DEF enough
  <2> QED
    BY <2>1, LeastNumber
<1>4. k \in 0..N /\ (k = N \/ RecordEnd(k + 1) > fed)
  OBVIOUS
<1>5. RecordEnd(k) <= fed
  <2>1. CASE k = 0
    BY <1>2, <2>1
  <2>2. CASE k # 0
    <3>1. k - 1 \in 0..N /\ ~(k <= k - 1) /\ k - 1 # N /\ (k - 1) + 1 = k
      BY <1>1, <1>4, <2>2
    <3>2. k - 1 \notin enough
      BY <1>3, <3>1, Zenon
    <3>3. ~(RecordEnd(k) > fed)
      BY <3>1, <3>2
    <3> QED
      BY <1>2, <1>4, <3>3
  <2> QED
    BY <2>1, <2>2
<1>6. \E r \in 0..Len(Packets) : /\ RecordEnd(r) <= fed
                                 /\ r = Len(Packets) \/ RecordEnd(r + 1) > fed
  BY <1>4, <1>5 DEF N
<1> QED
  BY <1>6, Zenon DEF Records

LEMMA RequestType ==
    ASSUME fed \in Nat, secure = 1, fed <= OnTheWire
    PROVE  Request \in Nat
<1>1. /\ Records \in 0..Len(Packets) /\ RecordEnd(Records) <= fed
      /\ Records = Len(Packets) \/ RecordEnd(Records + 1) > fed
  BY RecordsAre
<1>2. Records = Len(Packets) => RecordEnd(Records) = OnTheWire
  BY DEF OnTheWire
<1>3. RecordHeader \in Nat /\ RecordHeader > 0 /\ Len(Packets) \in Nat
  BY Constants
<1>4. \A k \in 0..Len(Packets) : RecordEnd(k) \in Int
  <2>1. \A k \in 0..Len(Packets) : Plain(k) \in Nat /\ k * RecordHeader \in Int
    BY <1>3, TextLength
  <2> QED
    BY <2>1 DEF RecordEnd
<1>5. Records # Len(Packets) => Records + 1 \in 0..Len(Packets)
  BY <1>1, <1>3
<1> DEFINE start == RecordEnd(Records)
           next == RecordEnd(Records + 1)
<1>6. start \in Int /\ (Records # Len(Packets) => next \in Int)
  BY <1>1, <1>4, <1>5
<1> HIDE DEF start, next
<1>7. start + RecordHeader - fed \in Nat
      \/ (~(fed < start + RecordHeader) /\ Records # Len(Packets))
  BY <1>1, <1>2, <1>3, <1>6 DEF start
<1>8. Records # Len(Packets) => next - fed \in Nat
  BY <1>1, <1>6 DEF next
<1>9. Request = IF fed < start + RecordHeader \/ Records = Len(Packets)
                THEN start + RecordHeader - fed ELSE next - fed
  BY DEF Request, start, next
<1> QED
  BY <1>7, <1>8, <1>9

LEMMA WireType == secure \in 0..1 => OnTheWire \in Nat
<1>1. Len(Packets) \in Nat /\ RecordHeader \in Nat
  BY Constants
<1>2. Plain(Len(Packets)) \in Nat /\ Len(PlainText) \in Nat
  BY <1>1, TextLength
<1>3. Len(Packets) * RecordHeader \in Nat
  BY <1>1
<1> QED
  BY <1>1, <1>2, <1>3 DEF OnTheWire, RecordEnd

LEMMA WireStays == secure' = secure => OnTheWire' = OnTheWire
BY DEF OnTheWire

LEMMA TypesAre ==
    ASSUME ReaderTypeOK
    PROVE  /\ secure \in 0..1 /\ errno \in 0..1 /\ lost \in 0..1
           /\ socketCorrupted \in 0..1 /\ fooled \in 0..1
           /\ arrived \in Nat /\ taken \in Nat /\ fed \in Nat /\ read \in Nat
           /\ want \in Nat /\ bytes \in Nat /\ need \in Nat
           /\ Len(buffer) \in Nat /\ Len(readbuf) \in Nat /\ Len(handed) \in Nat
           /\ OnTheWire \in Nat /\ Len(PlainText) \in Nat
BY WireType, TextLength DEF ReaderTypeOK

(* A sequence that is filled up with m copies of a byte.                   *)
LEMMA Filled ==
    ASSUME NEW s \in Seq(Byte), NEW m \in Nat, NEW x \in Byte
    PROVE  /\ s \o [k \in 1..m |-> x] \in Seq(Byte)
           /\ Len(s \o [k \in 1..m |-> x]) = Len(s) + m
           /\ \A j \in 1..(Len(s) + m) :
                (s \o [k \in 1..m |-> x])[j] = IF j <= Len(s) THEN s[j] ELSE x
<1> DEFINE z == [k \in 1..m |-> x]
<1>1. z \in Seq(Byte) /\ Len(z) = m /\ \A k \in 1..m : z[k] = x
  BY LenProperties
<1> HIDE DEF z
<1>2. Len(s) \in Nat
  OBVIOUS
<1>3. \A j \in 1..(Len(s) + m) : ~(j <= Len(s)) => j - Len(s) \in 1..m
  BY <1>2
<1>4. /\ s \o z \in Seq(Byte) /\ Len(s \o z) = Len(s) + Len(z)
      /\ \A j \in 1..(Len(s) + Len(z)) :
           (s \o z)[j] = IF j <= Len(s) THEN s[j] ELSE z[j - Len(s)]
  BY <1>1, ConcatProperties, Zenon
<1>5. /\ s \o z \in Seq(Byte) /\ Len(s \o z) = Len(s) + m
      /\ \A j \in 1..(Len(s) + m) :
           (s \o z)[j] = IF j <= Len(s) THEN s[j] ELSE x
  BY <1>1, <1>3, <1>4
<1> QED
  BY <1>5 DEF z

(* A sequence to which bytes of the text are added.                        *)
LEMMA Extended ==
    ASSUME NEW s \in Seq(Byte), NEW from \in Nat, NEW n \in Nat,
           from + n <= Len(PlainText)
    PROVE  /\ s \o SubSeq(PlainText, from + 1, from + n) \in Seq(Byte)
           /\ Len(s \o SubSeq(PlainText, from + 1, from + n)) = Len(s) + n
           /\ \A j \in 1..(Len(s) + n) :
                (s \o SubSeq(PlainText, from + 1, from + n))[j]
                  = IF j <= Len(s) THEN s[j] ELSE PlainText[from - Len(s) + j]
<1> DEFINE z == SubSeq(PlainText, from + 1, from + n)
<1>1. PlainText \in Seq(Byte) /\ Len(PlainText) \in Nat
  BY TextLength
<1>2. \A k \in (from + 1)..(from + n) : k \in 1..Len(PlainText)
  BY <1>1
<1>3. z \in Seq(Byte) /\ Len(z) = n /\ \A k \in 1..n : z[k] = PlainText[from + k]
  <2>1. /\ from + 1 \in Int /\ from + n \in Int /\ from + 1 <= from + n + 1
        /\ (from + n) - (from + 1) + 1 = n
        /\ \A k \in 1..n : (from + 1) + k - 1 = from + k
        /\ from + 1 <= (from + n) + 1
    OBVIOUS
  <2>2. \A k \in (from + 1)..(from + n) : PlainText[k] \in Byte
    BY <1>1, <1>2, ElementOfSeq
  <2>3. /\ z = [k \in 1..n |-> PlainText[from + k]]
    BY <1>1 DEF z
  <2>4. \A k \in 1..n : PlainText[from + k] \in Byte
    <3>1. \A k \in 1..n : from + k \in (from + 1)..(from + n)
      OBVIOUS
    <3> QED
      BY <2>2, <3>1
  <2> HIDE DEF z
  <2> QED
    BY <2>3, <2>4, LenProperties
<1> HIDE DEF z
<1>4. Len(s) \in Nat
  OBVIOUS
<1>5. \A j \in 1..(Len(s) + n) :
        ~(j <= Len(s)) => /\ j - Len(s) \in 1..n
                          /\ from + (j - Len(s)) = from - Len(s) + j
  BY <1>4
<1>6. /\ s \o z \in Seq(Byte) /\ Len(s \o z) = Len(s) + Len(z)
      /\ \A j \in 1..(Len(s) + Len(z)) :
           (s \o z)[j] = IF j <= Len(s) THEN s[j] ELSE z[j - Len(s)]
  BY <1>3, ConcatProperties, Zenon
<1>7. ASSUME NEW j \in 1..(Len(s) + n)
      PROVE  (s \o z)[j] = IF j <= Len(s) THEN s[j] ELSE PlainText[from - Len(s) + j]
  <2>1. (s \o z)[j] = IF j <= Len(s) THEN s[j] ELSE z[j - Len(s)]
    BY <1>3, <1>6
  <2>2. ~(j <= Len(s)) => z[j - Len(s)] = PlainText[from - Len(s) + j]
    BY <1>3, <1>5
  <2> QED
    BY <2>1, <2>2, Zenon
<1> QED
  BY <1>3, <1>6, <1>7 DEF z

(* Facts that many of the steps share.                                     *)
LEMMA WhatHolds ==
    ASSUME ReaderInv
    PROVE  ReaderTypeOK /\ CountInv /\ ReadInv
BY DEF ReaderInv

LEMMA StartIsTyped == ReaderInit => ReaderInv
<1> SUFFICES ASSUME ReaderInit PROVE ReaderInv
  OBVIOUS
<1>1. ReaderTypeOK
  BY Constants DEF ReaderInit, ReaderTypeOK
<1>2. OnTheWire \in Nat /\ Len(PlainText) \in Nat
  BY <1>1, TypesAre
<1>3. CountInv
  BY <1>2 DEF ReaderInit, CountInv
<1>4. ReadInv
  BY DEF ReaderInit, ReadInv
<1> QED
  BY <1>1, <1>3, <1>4 DEF ReaderInv

LEMMA ReadPacketTyped == ASSUME ReaderInv, ReadPacket PROVE ReaderInv'
<1>1. OnTheWire' = OnTheWire
  BY WireStays DEF ReadPacket
<1>2. ReaderTypeOK'
  BY WhatHolds, Constants
  DEF ReadPacket, Read, network, engineVars, ReaderTypeOK
<1>3. CountInv'
  BY <1>1, WhatHolds, TypesAre
  DEF ReadPacket, Read, network, engineVars, CountInv
<1>4. ReadInv'
  BY WhatHolds, TypesAre, Constants
  DEF ReadPacket, Read, network, engineVars, ReadInv
<1> QED
  BY <1>2, <1>3, <1>4 DEF ReaderInv

(* The bytes of plain text that a read gets, and how many: n of them.      *)
LEMMA ReadPlainTextAdds ==
    ASSUME ReaderInv, ReadPlainText
    PROVE  \E n \in Nat :
             /\ n > 0 /\ Len(buffer) + n <= need /\ read + n <= Len(PlainText)
             /\ read' = read + n
             /\ buffer' = buffer \o SubSeq(PlainText, read + 1, read + n)
<1> DEFINE all == Plain(Records) - read
           n == IF all < need - Len(buffer) THEN all ELSE need - Len(buffer)
<1>1. Records \in 0..Len(Packets)
  BY WhatHolds, TypesAre, RecordsAre
<1>2. Plain(Records) \in Nat /\ Plain(Records) <= Len(PlainText)
  BY <1>1, TextLength
<1>3. /\ n \in Nat /\ n > 0 /\ Len(buffer) + n <= need
      /\ read + n <= Len(PlainText)
  <2>1. /\ need \in Nat /\ Len(buffer) \in Nat /\ read \in Nat
        /\ Len(PlainText) \in Nat
        /\ Len(buffer) < need /\ read < Plain(Records)
    BY WhatHolds, TypesAre DEF ReadPlainText
  <2> QED
    BY <1>2, <2>1
<1>4. /\ read' = read + n
      /\ buffer' = buffer \o SubSeq(PlainText, read + 1, read + n)
  BY DEF ReadPlainText
<1> HIDE DEF n
<1> QED
  BY <1>3, <1>4

LEMMA ReadPlainTextTyped == ASSUME ReaderInv, ReadPlainText PROVE ReaderInv'
<1>1. PICK n \in Nat :
        /\ n > 0 /\ Len(buffer) + n <= need /\ read + n <= Len(PlainText)
        /\ read' = read + n
        /\ buffer' = buffer \o SubSeq(PlainText, read + 1, read + n)
  BY ReadPlainTextAdds
<1>2. OnTheWire' = OnTheWire
  BY WireStays DEF ReadPlainText
<1>3. buffer \in Seq(Byte) /\ read \in Nat
  BY WhatHolds DEF ReaderTypeOK
<1>4. buffer' \in Seq(Byte) /\ Len(buffer') = Len(buffer) + n
  BY <1>1, <1>3, Extended
<1>5. ReaderTypeOK'
  <2>1. /\ read' \in Nat
        /\ UNCHANGED <<secure, arrived, connection, taken, errno, fed, lost, want,
                      bytes, need, reading, numRetries, rem_len, multiplier, i,
                      readbuf, socketCorrupted, handed, fooled>>
    BY <1>1, <1>3 DEF ReadPlainText, network, packetVars
  <2> QED
    BY <1>4, <2>1, WhatHolds DEF ReaderTypeOK
<1>6. CountInv'
  BY <1>1, <1>2, WhatHolds, TypesAre DEF ReadPlainText, network, CountInv
<1>7. ReadInv'
  <2>1. /\ secure' = 1 /\ want' = 0 /\ bytes' = bytes /\ need' = need
        /\ UNCHANGED <<reading, numRetries, readbuf, socketCorrupted>>
    BY WhatHolds DEF ReadPlainText, packetVars, ReadInv
  <2>2. /\ Len(buffer') <= need /\ Len(buffer') \in Nat
        /\ bytes \in Nat /\ need \in Nat
    <3>1. Len(buffer) \in Nat /\ bytes \in Nat /\ need \in Nat
      BY WhatHolds, TypesAre
    <3>2. Len(buffer) + n <= need /\ Len(buffer') = Len(buffer) + n
      BY <1>1, <1>4
    <3> QED
      BY <3>1, <3>2
  <2>3. reading # "idle"
    BY WhatHolds, TypesAre DEF ReadPlainText, ReadInv
  <2>4. /\ need >= 1 /\ (reading = "header" => numRetries >= 1)
        /\ reading \in {"length", "rest"} => Len(readbuf) >= 1
        /\ socketCorrupted # 1
    BY <2>3, WhatHolds DEF ReadInv
  <2> HIDE DEF ReadPlainText
  <2> QED
    BY <2>1, <2>2, <2>3, <2>4 DEF ReadInv
<1> QED
  BY <1>5, <1>6, <1>7 DEF ReaderInv

LEMMA ReadPendingTyped == ASSUME ReaderInv, ReadPending PROVE ReaderInv'
<1>1. OnTheWire' = OnTheWire
  BY WireStays DEF ReadPending
<1>2. want' \in Nat
  <2>1. Request \in Nat
    BY WhatHolds, TypesAre, RequestType DEF ReadPending, CountInv
  <2> QED
    BY <2>1, Constants DEF ReadPending
<1>3. ReaderTypeOK'
  BY <1>2, WhatHolds
  DEF ReadPending, network, engineVars, packetVars, ReaderTypeOK
<1>4. CountInv'
  BY <1>1, WhatHolds, TypesAre
  DEF ReadPending, network, engineVars, CountInv
<1>5. ReadInv'
  BY <1>2, WhatHolds, TypesAre DEF ReadPending, packetVars, ReadInv
<1> QED
  BY <1>3, <1>4, <1>5 DEF ReaderInv

(* What a read that fails leaves.                                          *)
LEMMA ReadFailsTyped ==
    ASSUME ReaderInv, ReadFails, reading # "idle", errno' \in 0..1,
           UNCHANGED <<secure, network, taken, engineVars, fooled>>
    PROVE  ReaderInv'
<1>1. OnTheWire' = OnTheWire
  BY WireStays
<1>2. handed' \in Seq([header : Byte, payload : Seq(Byte)])
  <2> DEFINE payload == IF reading = "length" THEN <<>>
                        ELSE buffer \o [k \in 1..(need - Len(buffer)) |-> 0]
             packet == [header |-> readbuf[1], payload |-> payload]
  <2>1. CASE reading = "header" \/ fooled = 1
    BY <2>1, WhatHolds DEF ReadFails, ReaderTypeOK
  <2>2. CASE ~(reading = "header" \/ fooled = 1)
    <3>1. readbuf[1] \in Byte
      <4>1. readbuf \in Seq(Byte) /\ Len(readbuf) >= 1
        BY <2>2, WhatHolds DEF ReaderTypeOK, ReadInv
      <4> QED
        BY <4>1
    <3>2. payload \in Seq(Byte)
      <4>1. buffer \in Seq(Byte) /\ need - Len(buffer) \in Nat
        BY WhatHolds, TypesAre DEF ReaderTypeOK, ReadInv
      <4>2. buffer \o [k \in 1..(need - Len(buffer)) |-> 0] \in Seq(Byte)
        BY <4>1, Filled, Constants
      <4> QED
        BY <4>2
    <3>3. handed' = Append(handed, packet)
      BY <2>2, Zenon DEF ReadFails
    <3>4. handed \in Seq([header : Byte, payload : Seq(Byte)])
      BY WhatHolds DEF ReaderTypeOK
    <3> HIDE DEF payload
    <3>5. packet \in [header : Byte, payload : Seq(Byte)]
      BY <3>1, <3>2
    <3> HIDE DEF packet
    <3> QED
      BY <3>3, <3>4, <3>5, AppendProperties
  <2> QED
    BY <2>1, <2>2
<1>3. ReaderTypeOK'
  BY <1>2, WhatHolds
  DEF ReadFails, NoRead, network, engineVars, ReaderTypeOK
<1>4. CountInv'
  BY <1>1, WhatHolds, TypesAre DEF ReadFails, NoRead, network, engineVars, CountInv
<1>5. ReadInv'
  BY WhatHolds, TypesAre DEF ReadFails, NoRead, ReadInv
<1> QED
  BY <1>3, <1>4, <1>5 DEF ReaderInv

(* Who reads is in readPacket().                                           *)
LEMMA WhoReads ==
    ASSUME ReaderInv, want > bytes \/ Len(buffer) < need \/ need > 0
    PROVE  reading # "idle"
BY WhatHolds, TypesAre DEF ReadInv

LEMMA NoRetryCaseTyped == ASSUME ReaderInv, NoRetryCase PROVE ReaderInv'
BY ReadFailsTyped, WhoReads, WhatHolds DEF NoRetryCase, ReaderTypeOK

LEMMA RecvFailsTyped == ASSUME ReaderInv, RecvFails PROVE ReaderInv'
BY ReadFailsTyped, WhoReads DEF RecvFails

LEMMA RecvEndTyped == ASSUME ReaderInv, RecvEnd PROVE ReaderInv'
BY ReadFailsTyped, WhoReads, WhatHolds DEF RecvEnd, AtEnd, ReaderTypeOK

LEMMA RecvTyped == ASSUME ReaderInv, Recv PROVE ReaderInv'
<1>1. OnTheWire' = OnTheWire /\ secure' = secure
  BY WireStays DEF Recv
<1>2. PICK n \in 1..Waiting :
        LET all == secure = 1 /\ bytes + n = want IN
        /\ n <= want - bytes
        /\ taken' = taken + n
        /\ bytes' = IF all THEN 0 ELSE bytes + n
        /\ want' = IF all THEN 0 ELSE want
        /\ buffer' = IF secure = 1 THEN buffer
                     ELSE buffer \o SubSeq(PlainText, taken + 1, taken + n)
        /\ fed' = IF all /\ lost = 0 THEN fed + want ELSE fed
  BY DEF Recv
<1>3. /\ taken \in Nat /\ arrived \in Nat /\ want \in Nat /\ bytes \in Nat
      /\ fed \in Nat /\ need \in Nat /\ Len(buffer) \in Nat /\ OnTheWire \in Nat
      /\ read \in Nat /\ Len(PlainText) \in Nat /\ secure \in 0..1
      /\ fed <= taken /\ arrived <= OnTheWire /\ read <= Len(PlainText)
      /\ lost = 0 => fed + bytes <= taken
      /\ bytes < want
      /\ secure = 0 => want = need /\ bytes = Len(buffer)
      /\ Len(buffer) < need
  BY WhatHolds, TypesAre DEF Recv, CountInv, ReadInv
<1>4. n \in Nat /\ n > 0 /\ taken + n <= arrived /\ bytes + n <= want
  BY <1>2, <1>3 DEF Waiting
<1>5. /\ buffer' \in Seq(Byte)
      /\ Len(buffer') = IF secure = 1 THEN Len(buffer) ELSE Len(buffer) + n
  <2>1. buffer \in Seq(Byte)
    BY WhatHolds DEF ReaderTypeOK
  <2>2. CASE secure = 1
    BY <1>2, <2>1, <2>2
  <2>3. CASE secure # 1
    <3>1. taken + n <= Len(PlainText)
      BY <1>3, <1>4, <2>3 DEF OnTheWire
    <3>2. buffer' = buffer \o SubSeq(PlainText, taken + 1, taken + n)
      BY <1>2, <2>3
    <3>3. taken \in Nat /\ n \in Nat
      BY <1>3, <1>4
    <3>4. /\ buffer' \in Seq(Byte) /\ Len(buffer') = Len(buffer) + n
      BY <2>1, <3>1, <3>2, <3>3, Extended
    <3> QED
      BY <2>3, <3>4, Zenon
  <2> QED
    BY <2>2, <2>3
<1>6. /\ taken' \in Nat /\ bytes' \in Nat /\ want' \in Nat /\ fed' \in Nat
      /\ fed' <= taken' /\ taken' <= arrived
      /\ lost = 0 => fed' + bytes' <= taken'
      /\ want' > bytes' => secure = 1 \/ Len(buffer) + n < need
      /\ bytes' <= want'
      /\ secure = 0 => want' = need /\ bytes' = Len(buffer) + n
  <2> DEFINE all == secure = 1 /\ bytes + n = want
  <2>1. /\ taken' = taken + n
        /\ bytes' = IF all THEN 0 ELSE bytes + n
        /\ want' = IF all THEN 0 ELSE want
        /\ fed' = IF all /\ lost = 0 THEN fed + want ELSE fed
    BY <1>2
  <2> HIDE DEF all
  <2>2. CASE all
    <3>1. secure = 1 /\ bytes + n = want
      BY <2>2 DEF all
    <3> QED
      BY <1>3, <1>4, <2>1, <2>2, <3>1
  <2>3. CASE ~all
    <3>1. secure = 0 => want = need /\ bytes = Len(buffer)
      BY <1>3
    <3> QED
      BY <1>3, <1>4, <2>1, <2>3, <3>1
  <2> QED
    BY <2>2, <2>3
<1>7. /\ UNCHANGED <<secure, arrived, connection, errno, lost, read, need, reading,
                     numRetries, rem_len, multiplier, i, readbuf,
                     socketCorrupted, handed, fooled>>
  BY DEF Recv, network, packetVars
<1>8. ReaderTypeOK'
  BY <1>5, <1>6, <1>7, WhatHolds DEF ReaderTypeOK
<1>9. CountInv'
  BY <1>1, <1>3, <1>6, <1>7 DEF CountInv
<1>10. ReadInv'
  <2>1. reading # "idle"
    BY <1>3, WhoReads
  <2>2. /\ Len(buffer') <= need /\ Len(buffer') \in Nat
        /\ want' > bytes' => Len(buffer') < need
        /\ secure = 0 => want' = need /\ bytes' = Len(buffer')
    <3>1. CASE secure = 1
      BY <1>3, <1>5, <3>1
    <3>2. CASE secure # 1
      BY <1>3, <1>4, <1>5, <1>6, <3>2
    <3> QED
      BY <3>1, <3>2
  <2>3. /\ need >= 1 /\ (reading = "header" => numRetries >= 1)
        /\ reading \in {"length", "rest"} => Len(readbuf) >= 1
        /\ socketCorrupted # 1
    BY <2>1, WhatHolds DEF ReadInv
  <2> QED
    BY <1>7, <2>1, <2>2, <2>3 DEF ReadInv
<1> QED
  BY <1>8, <1>9, <1>10 DEF ReaderInv

LEMMA RecvTimesOutTyped == ASSUME ReaderInv, RecvTimesOut PROVE ReaderInv'
<1>1. OnTheWire' = OnTheWire
  BY WireStays DEF RecvTimesOut
<1>2. /\ reading # "idle" /\ numRetries \in 0..MaxTries
      /\ reading = "header" => numRetries >= 1
      /\ MaxTries \in Nat
  BY WhoReads, WhatHolds, Constants DEF RecvTimesOut, ReadInv, ReaderTypeOK
<1>3. CASE Guaranteed
  <2>1. /\ want' = IF secure = 1 THEN 0 ELSE want
        /\ bytes' = IF secure = 1 THEN 0 ELSE bytes
        /\ lost' = IF secure = 1 /\ bytes > 0 THEN 1 ELSE lost
        /\ errno' = 1
        /\ UNCHANGED <<need, buffer, reading, numRetries, secure, arrived,
                       connection, taken, fed, read, rem_len, multiplier, i,
                       readbuf, socketCorrupted, handed, fooled>>
    BY <1>3 DEF RecvTimesOut, network
  <2>2. ReaderTypeOK'
    BY <2>1, WhatHolds DEF ReaderTypeOK
  <2>3. CountInv'
    BY <1>1, <2>1, WhatHolds, TypesAre DEF CountInv
  <2>4. ReadInv'
    BY <1>2, <2>1, WhatHolds, TypesAre DEF ReadInv
  <2> QED
    BY <2>2, <2>3, <2>4 DEF ReaderInv
<1>4. CASE ~Guaranteed
  <2>1. reading = "header"
    BY <1>4 DEF Guaranteed
  <2>2. /\ numRetries' = numRetries - 1
        /\ IF numRetries = 1 THEN reading' = "idle" /\ NoRead
           ELSE Read(1) /\ reading' = reading
        /\ lost' = IF secure = 1 /\ bytes > 0 THEN 1 ELSE lost
        /\ errno' = 1
        /\ UNCHANGED <<secure, arrived, connection, taken, fed, read, rem_len,
                       multiplier, i, readbuf, socketCorrupted, handed, fooled>>
    BY <1>4 DEF RecvTimesOut, NothingToRead, network
  <2>3. numRetries' \in 0..MaxTries /\ (numRetries # 1 => numRetries' >= 1)
    BY <1>2, <2>1, <2>2
  <2>4. ReaderTypeOK'
    <3>1. /\ need' \in Nat /\ want' \in Nat /\ bytes' \in Nat
          /\ buffer' \in Seq(Byte) /\ reading' \in {"idle", "header"}
          /\ lost' \in 0..1
      <4>1. lost' \in 0..1
        BY <2>2, WhatHolds, TypesAre
      <4>2. /\ buffer' = <<>> /\ need' \in 0..1 /\ want' \in 0..1 /\ bytes' = 0
            /\ reading' \in {"idle", "header"}
        BY <2>1, <2>2 DEF Read, NoRead
      <4> QED
        BY <4>1, <4>2
    <3> QED
      BY <2>2, <2>3, <3>1, WhatHolds DEF ReaderTypeOK
  <2>5. CountInv'
    BY <1>1, <2>2, WhatHolds, TypesAre DEF Read, NoRead, CountInv
  <2>6. ReadInv'
    BY <2>1, <2>2, <2>3, WhatHolds, TypesAre DEF Read, NoRead, ReadInv
  <2> QED
    BY <2>4, <2>5, <2>6 DEF ReaderInv
<1> QED
  BY <1>3, <1>4

LEMMA RecvEndUnnoticedTyped == ASSUME ReaderInv, RecvEndUnnoticed PROVE ReaderInv'
<1>1. OnTheWire' = OnTheWire
  BY WireStays DEF RecvEndUnnoticed
<1>2. /\ reading # "idle" /\ need \in Nat /\ Len(buffer) \in Nat
      /\ Len(buffer) < need
  <2>1. want > bytes
    BY DEF RecvEndUnnoticed, AtEnd
  <2>2. reading # "idle" /\ Len(buffer) < need
    BY <2>1, WhoReads, WhatHolds DEF ReadInv
  <2> QED
    BY <2>2, WhatHolds, TypesAre
<1>3. /\ buffer' \in Seq(Byte)
      /\ Len(buffer') = IF secure = 1 THEN Len(buffer) ELSE need
  <2> DEFINE x == IF reading = "length" THEN i ELSE 0
  <2>1. buffer \in Seq(Byte) /\ x \in Byte /\ need - Len(buffer) \in Nat
    <3>1. buffer \in Seq(Byte) /\ i \in Byte
      BY WhatHolds DEF ReaderTypeOK
    <3>2. x \in Byte
      BY <3>1, Constants
    <3>3. need - Len(buffer) \in Nat
      BY <1>2
    <3> QED
      BY <3>1, <3>2, <3>3, Zenon
  <2>2. buffer' = IF secure = 1 THEN buffer
                  ELSE buffer \o [k \in 1..(need - Len(buffer)) |-> x]
    BY DEF RecvEndUnnoticed
  <2> HIDE DEF x
  <2>3. /\ buffer \o [k \in 1..(need - Len(buffer)) |-> x] \in Seq(Byte)
        /\ Len(buffer \o [k \in 1..(need - Len(buffer)) |-> x])
             = Len(buffer) + (need - Len(buffer))
    BY <2>1, Filled
  <2>4. Len(buffer) + (need - Len(buffer)) = need
    BY <1>2
  <2> QED
    BY <2>1, <2>2, <2>3, <2>4
<1>4. /\ fooled' = 1 /\ bytes' = 0 /\ want' = 0
      /\ lost' = IF secure = 1 THEN 1 ELSE lost
      /\ UNCHANGED <<secure, arrived, connection, taken, errno, fed, read, need,
                     reading, numRetries, rem_len, multiplier, i, readbuf,
                     socketCorrupted, handed>>
  BY DEF RecvEndUnnoticed, network, packetVars
<1>5. ReaderTypeOK'
  BY <1>3, <1>4, WhatHolds DEF ReaderTypeOK
<1>6. CountInv'
  BY <1>1, <1>4, WhatHolds, TypesAre DEF CountInv
<1>7. ReadInv'
  <2>1. Len(buffer') <= need /\ (secure = 0 => Len(buffer') = need)
    BY <1>2, <1>3
  <2>2. /\ need >= 1 /\ (reading = "header" => numRetries >= 1)
        /\ reading \in {"length", "rest"} => Len(readbuf) >= 1
        /\ socketCorrupted # 1
    BY <1>2, WhatHolds DEF ReadInv
  <2> QED
    BY <1>2, <1>4, <2>1, <2>2 DEF ReadInv
<1> QED
  BY <1>5, <1>6, <1>7 DEF ReaderInv

(* A read that has all of its bytes.                                       *)
LEMMA WhatIsDone ==
    ASSUME ReaderInv, Done
    PROVE  /\ reading # "idle" /\ socketCorrupted = 0
           /\ need \in Nat /\ need >= 1 /\ Len(buffer) = need
           /\ buffer \in Seq(Byte) /\ buffer[1] \in Byte
           /\ reading \in {"length", "rest"} =>
                readbuf \in Seq(Byte) /\ Len(readbuf) >= 1 /\ readbuf[1] \in Byte
<1>1. need \in Nat /\ need >= 1 /\ Len(buffer) = need /\ buffer \in Seq(Byte)
  BY WhatHolds, TypesAre DEF Done, ReaderTypeOK
<1>2. buffer[1] \in Byte
  <2>1. 1 \in 1..Len(buffer)
    BY <1>1
  <2> QED
    BY <1>1, <2>1, ElementOfSeq
<1>3. reading # "idle" /\ socketCorrupted = 0
  BY <1>1, WhatHolds, TypesAre DEF ReadInv
<1>4. ASSUME reading \in {"length", "rest"}
      PROVE  readbuf \in Seq(Byte) /\ Len(readbuf) >= 1 /\ readbuf[1] \in Byte
  <2>1. readbuf \in Seq(Byte) /\ Len(readbuf) >= 1
    BY <1>4, WhatHolds DEF ReadInv, ReaderTypeOK
  <2>2. 1 \in 1..Len(readbuf)
    BY <2>1
  <2> QED
    BY <2>1, <2>2, ElementOfSeq
<1> QED
  BY <1>1, <1>2, <1>3, <1>4

LEMMA HeaderReadTyped == ASSUME ReaderInv, HeaderRead PROVE ReaderInv'
<1>1. OnTheWire' = OnTheWire
  BY WireStays DEF HeaderRead
<1>2. Done /\ reading = "header"
  BY DEF HeaderRead
<1>3. ReaderTypeOK'
  BY <1>2, WhatHolds DEF HeaderRead, Read, network, engineVars, ReaderTypeOK
<1>4. CountInv'
  BY <1>1, WhatHolds, TypesAre DEF HeaderRead, Read, network, engineVars, CountInv
<1>5. ReadInv'
  <2>1. Len(buffer) >= 1 /\ socketCorrupted = 0
    BY <1>2, WhatIsDone
  <2>2. /\ need' = 1 /\ want' = (IF secure = 1 THEN 0 ELSE 1) /\ bytes' = 0
        /\ buffer' = <<>> /\ reading' = "length" /\ readbuf' = buffer
        /\ secure' = secure /\ socketCorrupted' = socketCorrupted
    BY DEF HeaderRead, Read
  <2>3. Len(buffer') = 0 /\ Len(readbuf') >= 1
    BY <2>1, <2>2
  <2> QED
    BY <2>1, <2>2, <2>3 DEF ReadInv
<1> QED
  BY <1>3, <1>4, <1>5 DEF ReaderInv

(* What ReadDigit and RestRead hand over has its type.                     *)
LEMMA HandOverTyped ==
    ASSUME ReaderInv, NEW header \in Byte, NEW payload \in Seq(Byte),
           HandOver(header, payload)
    PROVE  handed' \in Seq([header : Byte, payload : Seq(Byte)])
<1> DEFINE packet == [header |-> header, payload |-> payload]
<1>1. handed \in Seq([header : Byte, payload : Seq(Byte)])
  BY WhatHolds DEF ReaderTypeOK
<1>2. packet \in [header : Byte, payload : Seq(Byte)]
  OBVIOUS
<1>3. handed' = IF fooled = 1 THEN handed ELSE Append(handed, packet)
  BY DEF HandOver
<1> HIDE DEF packet
<1> QED
  BY <1>1, <1>2, <1>3, AppendProperties

LEMMA LengthReadTyped == ASSUME ReaderInv, LengthRead PROVE ReaderInv'
<1>1. OnTheWire' = OnTheWire
  BY WireStays DEF LengthRead, ReadDigit
<1>2. Done /\ reading = "length"
  BY DEF LengthRead, ReadDigit
<1>3. /\ socketCorrupted = 0 /\ buffer[1] \in Byte /\ Len(readbuf) >= 1
      /\ readbuf[1] \in Byte
  BY <1>2, WhatIsDone
<1>4. /\ rem_len \in Nat /\ multiplier \in Nat /\ Width \in Nat /\ Width > 0
      /\ Base \in Nat /\ Base > 1
  BY WhatHolds, Constants DEF ReaderTypeOK
<1>5. /\ i' = buffer[1] /\ rem_len' = (rem_len + (i' % Base) * multiplier) % Width
      /\ multiplier' = (multiplier * Base) % Width
      /\ UNCHANGED <<secure, arrived, connection, taken, errno, fed, lost, read,
                     numRetries, readbuf, socketCorrupted, fooled>>
  BY DEF LengthRead, ReadDigit, network, engineVars
<1>6. i' \in Byte /\ rem_len' \in 0..(Width - 1) /\ multiplier' \in 0..(Width - 1)
  <2>1. i' \in Byte /\ i' \in Nat
    BY <1>3, <1>4, <1>5, Constants
  <2>2. i' % Base \in Nat
    BY <2>1, Digits
  <2>3. (i' % Base) * multiplier \in Nat /\ multiplier * Base \in Nat
    BY <1>4, <2>2
  <2>4. rem_len + (i' % Base) * multiplier \in Nat
    BY <1>4, <2>3
  <2>5. \A n \in Nat : n % Width \in 0..(Width - 1)
    BY <1>4
  <2> QED
    BY <1>5, <2>1, <2>3, <2>4, <2>5
<1>7. CASE Read(1) /\ UNCHANGED <<reading, handed>>
  <2>1. ReaderTypeOK'
    BY <1>5, <1>6, <1>7, WhatHolds DEF Read, ReaderTypeOK
  <2>2. CountInv'
    BY <1>1, <1>5, <1>7, WhatHolds, TypesAre DEF Read, CountInv
  <2>3. ReadInv'
    <3>1. Len(buffer') = 0 /\ Len(readbuf') >= 1
      BY <1>3, <1>5, <1>7 DEF Read
    <3> QED
      BY <1>2, <1>3, <1>5, <1>7, <3>1 DEF Read, ReadInv
  <2> QED
    BY <2>1, <2>2, <2>3 DEF ReaderInv
<1>8. CASE /\ rem_len' \in 1..(Width \div 2 - 1) /\ reading' = "rest"
           /\ Read(rem_len') /\ UNCHANGED handed
  <2>0. rem_len' \in Nat /\ rem_len' >= 1
    BY <1>4, <1>6, <1>8
  <2>1. ReaderTypeOK'
    BY <1>5, <1>6, <1>8, <2>0, WhatHolds DEF Read, ReaderTypeOK
  <2>2. CountInv'
    BY <1>1, <1>5, <1>8, WhatHolds, TypesAre DEF Read, CountInv
  <2>3. ReadInv'
    <3>1. Len(buffer') = 0 /\ Len(readbuf') >= 1
      BY <1>3, <1>5, <1>8 DEF Read
    <3> QED
      BY <1>3, <1>5, <1>8, <2>0, <3>1 DEF Read, ReadInv
  <2> QED
    BY <2>1, <2>2, <2>3 DEF ReaderInv
<1>9. CASE HandOver(readbuf[1], <<>>)
  <2>0. handed' \in Seq([header : Byte, payload : Seq(Byte)])
    <3>1. <<>> \in Seq(Byte)
      OBVIOUS
    <3> QED
      BY <1>3, <1>9, <3>1, HandOverTyped, Zenon
  <2>1. ReaderTypeOK'
    BY <1>5, <1>6, <1>9, <2>0, WhatHolds DEF HandOver, NoRead, ReaderTypeOK
  <2>2. CountInv'
    BY <1>1, <1>5, <1>9, WhatHolds, TypesAre DEF HandOver, NoRead, CountInv
  <2>3. ReadInv'
    BY <1>3, <1>5, <1>9 DEF HandOver, NoRead, ReadInv
  <2> QED
    BY <2>1, <2>2, <2>3 DEF ReaderInv
<1>10. \/ Read(1) /\ UNCHANGED <<reading, handed>>
       \/ /\ rem_len' \in 1..(Width \div 2 - 1) /\ reading' = "rest"
          /\ Read(rem_len') /\ UNCHANGED handed
       \/ HandOver(readbuf[1], <<>>)
  BY Zenon DEF LengthRead, ReadDigit
<1> QED
  BY <1>7, <1>8, <1>9, <1>10

LEMMA RestReadTyped == ASSUME ReaderInv, RestRead PROVE ReaderInv'
<1>1. OnTheWire' = OnTheWire
  BY WireStays DEF RestRead
<1>2. Done /\ reading = "rest" /\ HandOver(readbuf[1], buffer)
  BY DEF RestRead
<1>3. handed' \in Seq([header : Byte, payload : Seq(Byte)])
  BY <1>2, WhatIsDone, HandOverTyped
<1>4. ReaderTypeOK'
  BY <1>2, <1>3, WhatHolds
  DEF RestRead, HandOver, NoRead, network, engineVars, ReaderTypeOK
<1>5. CountInv'
  BY <1>1, <1>2, WhatHolds, TypesAre
  DEF RestRead, HandOver, NoRead, network, engineVars, CountInv
<1>6. ReadInv'
  BY <1>2, WhatIsDone DEF RestRead, HandOver, NoRead, ReadInv
<1> QED
  BY <1>4, <1>5, <1>6 DEF ReaderInv

LEMMA NewConnectionTyped ==
    ASSUME ReaderInv, NewConnection, secure' = secure, errno' \in 0..1
    PROVE  ReaderInv'
<1>1. OnTheWire' = OnTheWire
  BY WireStays
<1>2. ReaderTypeOK'
  BY WhatHolds DEF NewConnection, NoRead, ReaderTypeOK
<1>3. CountInv'
  BY <1>1, WhatHolds, TypesAre DEF NewConnection, NoRead, CountInv
<1>4. ReadInv'
  BY DEF NewConnection, NoRead, ReadInv
<1> QED
  BY <1>2, <1>3, <1>4 DEF ReaderInv

LEMMA ArriveTyped == ASSUME ReaderInv, Arrive PROVE ReaderInv'
<1>1. OnTheWire' = OnTheWire
  BY WireStays DEF Arrive
<1>2. ReaderTypeOK'
  BY WhatHolds DEF Arrive, engineVars, callVars, packetVars, ReaderTypeOK
<1>3. CountInv'
  BY <1>1, WhatHolds, TypesAre
  DEF Arrive, engineVars, callVars, packetVars, CountInv
<1>4. ReadInv'
  BY WhatHolds DEF Arrive, engineVars, callVars, packetVars, ReadInv
<1> QED
  BY <1>2, <1>3, <1>4 DEF ReaderInv

LEMMA DisconnectTyped == ASSUME ReaderInv, Disconnect PROVE ReaderInv'
<1>1. OnTheWire' = OnTheWire
  BY WireStays DEF Disconnect
<1>2. ReaderTypeOK'
  BY WhatHolds DEF Disconnect, engineVars, callVars, packetVars, ReaderTypeOK
<1>3. CountInv'
  BY <1>1, WhatHolds, TypesAre
  DEF Disconnect, engineVars, callVars, packetVars, CountInv
<1>4. ReadInv'
  BY WhatHolds DEF Disconnect, engineVars, callVars, packetVars, ReadInv
<1> QED
  BY <1>2, <1>3, <1>4 DEF ReaderInv

LEMMA StepIsTyped == ReaderInv /\ [ReaderNext]_readerVars => ReaderInv'
<1> SUFFICES ASSUME ReaderInv, [ReaderNext]_readerVars PROVE ReaderInv'
  OBVIOUS
<1>1. CASE Reader
  BY <1>1, ReadPacketTyped, ReadPlainTextTyped, ReadPendingTyped, NoRetryCaseTyped,
     RecvTyped, RecvTimesOutTyped, RecvFailsTyped, RecvEndTyped,
     RecvEndUnnoticedTyped, HeaderReadTyped, LengthReadTyped, RestReadTyped
  DEF Reader
<1>2. CASE Reconnect
  <2>1. errno \in 0..1
    BY WhatHolds DEF ReaderTypeOK
  <2> QED
    BY <1>2, <2>1, NewConnectionTyped DEF Reconnect
<1>3. CASE WatchdogExpires
  BY <1>3, NewConnectionTyped DEF WatchdogExpires
<1>4. CASE Arrive
  BY <1>4, ArriveTyped
<1>5. CASE Disconnect
  BY <1>5, DisconnectTyped
<1>6. CASE UNCHANGED readerVars
  <2>1. OnTheWire' = OnTheWire
    BY <1>6, WireStays DEF readerVars
  <2>2. ReaderTypeOK'
    BY <1>6, WhatHolds
    DEF readerVars, network, engineVars, callVars, packetVars, ReaderTypeOK
  <2>3. CountInv'
    BY <1>6, <2>1, WhatHolds
    DEF readerVars, network, engineVars, callVars, packetVars, CountInv
  <2>4. ReadInv'
    BY <1>6, WhatHolds
    DEF readerVars, network, engineVars, callVars, packetVars, ReadInv
  <2> QED
    BY <2>2, <2>3, <2>4 DEF ReaderInv
<1> QED
  BY <1>1, <1>2, <1>3, <1>4, <1>5, <1>6 DEF ReaderNext

LEMMA ReaderInvHolds == ReaderSpec => []ReaderInv
BY StartIsTyped, StepIsTyped, PTL DEF ReaderSpec

(* Whatever the packets and however their bytes arrive, every variable     *)
(* keeps its type: the remaining length and its multiplier stay in an int, *)
(* and what is handed over are packets of bytes.                           *)
THEOREM ReaderTypeCorrect == ReaderSpec => []ReaderTypeOK
<1>1. ReaderInv => ReaderTypeOK
  BY DEF ReaderInv
<1> QED
  BY <1>1, ReaderInvHolds, PTL

-----------------------------------------------------------------------------
(* What is read is the stream.                                             *)

(* The length of a packet fits into an int. *)
ShortPackets == \A k \in 1..Len(Packets) : Len(Packets[k].payload) < Width \div 2

(* How far the plain text has been read, and where the read began that is  *)
(* under way, and the packet that is being read.                           *)
Position == IF secure = 1 THEN read ELSE taken
Start    == Position - Len(buffer)
Current  == Packets[Len(handed) + 1]

HandedInv ==
    /\ Len(handed) <= Len(Packets)
    /\ \A j \in 1..Len(handed) : handed[j] = Packets[j]

BufferInv ==
    /\ Start \in Nat
    /\ \A j \in 1..Len(buffer) : buffer[j] = PlainText[Start + j]

(* The digits of q are left of the remaining length.                       *)
DigitsLeft(q) ==
    /\ rem_len + multiplier * q = Len(Current.payload)
    /\ Start + Len(Encoded[q]) + Len(Current.payload) = Plain(Len(handed) + 1)
    /\ \A j \in 1..Len(Encoded[q]) : PlainText[Start + j] = Encoded[q][j]

InPacket == Len(handed) < Len(Packets) /\ readbuf[1] = Current.header

PlaceInv ==
    /\ reading \in {"idle", "header"} => Start = Plain(Len(handed))
    /\ reading = "header" => need = 1 /\ rem_len = 0 /\ multiplier = 1
    /\ reading = "length" => /\ InPacket /\ need = 1 /\ multiplier >= 1
                             /\ \E q \in Nat : DigitsLeft(q)
    /\ reading = "rest" => /\ InPacket /\ need = Len(Current.payload)
                           /\ Start + need = Plain(Len(handed) + 1)

StreamInv ==
    fooled = 0 /\ socketCorrupted = 0 => HandedInv /\ BufferInv /\ PlaceInv

StreamStep == StreamInv' /\ [Stream!StreamNext]_(Stream!streamVars)

LEMMA Stutters ==
    ASSUME UNCHANGED <<handed, socketCorrupted, fooled>>
    PROVE  [Stream!StreamNext]_(Stream!streamVars)
BY DEF Stream!streamVars

(* A step that reads nothing and leaves the packet alone.                  *)
LEMMA NothingIsRead ==
    ASSUME StreamInv, Position' = Position,
           UNCHANGED <<buffer, need, reading, rem_len, multiplier, readbuf,
                       socketCorrupted, handed, fooled>>
    PROVE  StreamStep
<1>1. Start' = Start /\ Current' = Current
  BY DEF Start, Current
<1>2. HandedInv' <=> HandedInv
  BY DEF HandedInv
<1>3. BufferInv' <=> BufferInv
  BY <1>1 DEF BufferInv
<1>4. \A q \in Nat : DigitsLeft(q)' <=> DigitsLeft(q)
  BY <1>1 DEF DigitsLeft
<1>5. InPacket' <=> InPacket
  BY <1>1 DEF InPacket
<1>6. PlaceInv' <=> PlaceInv
  BY <1>1, <1>4, <1>5 DEF PlaceInv
<1>7. StreamInv'
  BY <1>2, <1>3, <1>6 DEF StreamInv
<1> QED
  BY <1>7, Stutters DEF StreamStep

(* A step that reads n bytes of the plain text.                            *)
LEMMA BytesAreRead ==
    ASSUME StreamInv, ReaderInv, NEW n \in Nat,
           Position \in Nat, Position + n <= Len(PlainText),
           Position' = Position + n,
           buffer' = buffer \o SubSeq(PlainText, Position + 1, Position + n),
           n > 0, reading # "idle",
           UNCHANGED <<need, reading, rem_len, multiplier, readbuf,
                       socketCorrupted, handed, fooled>>
    PROVE  StreamStep
<1>1. /\ buffer' \in Seq(Byte) /\ Len(buffer') = Len(buffer) + n
      /\ \A j \in 1..(Len(buffer) + n) :
           buffer'[j] = IF j <= Len(buffer) THEN buffer[j]
                        ELSE PlainText[Position - Len(buffer) + j]
  <2>1. buffer \in Seq(Byte)
    BY WhatHolds DEF ReaderTypeOK
  <2> QED
    BY <2>1, Extended
<1>2. Len(buffer) \in Nat
  BY WhatHolds, TypesAre
<1>3. Start' = Start /\ Current' = Current
  <2>1. Len(buffer') = Len(buffer) + n
    BY <1>1
  <2>2. (Position + n) - (Len(buffer) + n) = Position - Len(buffer)
    BY <1>2
  <2> QED
    BY <2>1, <2>2 DEF Start, Current
<1>4. HandedInv' <=> HandedInv
  BY DEF HandedInv
<1>5. BufferInv => BufferInv'
  <2> SUFFICES ASSUME BufferInv PROVE BufferInv'
    OBVIOUS
  <2>1. \A j \in 1..Len(buffer) : buffer[j] = PlainText[Start + j]
    BY DEF BufferInv
  <2>2. \A j \in 1..(Len(buffer) + n) : j <= Len(buffer) => j \in 1..Len(buffer)
    BY <1>2
  <2>3. \A j \in 1..(Len(buffer) + n) : buffer'[j] = PlainText[Start + j]
    BY <1>1, <2>1, <2>2 DEF Start
  <2>4. Start \in Nat
    BY DEF BufferInv
  <2> QED
    BY <1>1, <1>3, <2>3, <2>4, Zenon DEF BufferInv
<1>6. \A q \in Nat : DigitsLeft(q)' <=> DigitsLeft(q)
  BY <1>3 DEF DigitsLeft
<1>7. InPacket' <=> InPacket
  BY <1>3 DEF InPacket
<1>8. PlaceInv' <=> PlaceInv
  BY <1>3, <1>6, <1>7 DEF PlaceInv
<1>9. StreamInv'
  BY <1>4, <1>5, <1>8 DEF StreamInv
<1> QED
  BY <1>9, Stutters DEF StreamStep

(* A connection that is given up, or in which the reader was fooled.       *)
LEMMA NoStreamAnyMore ==
    ASSUME fooled' = 1 \/ socketCorrupted' = 1
    PROVE  StreamInv'
BY DEF StreamInv

LEMMA StreamStarts == ReaderInit => StreamInv /\ Stream!StreamInit
<1> SUFFICES ASSUME ReaderInit PROVE StreamInv /\ Stream!StreamInit
  OBVIOUS
<1>1. Len(Packets) \in Nat /\ Plain(0) = 0
  BY Constants, TextLength
<1>2. /\ handed = <<>> /\ buffer = <<>> /\ read = 0 /\ taken = 0
      /\ reading = "idle" /\ socketCorrupted = 0 /\ fooled = 0
  BY DEF ReaderInit
<1>3. Len(handed) = 0 /\ Len(buffer) = 0 /\ Start = 0
  <2>1. Len(handed) = 0 /\ Len(buffer) = 0
    BY <1>2
  <2>2. Position = 0
    BY <1>2 DEF Position
  <2> QED
    BY <2>1, <2>2 DEF Start
<1>4. HandedInv /\ BufferInv /\ PlaceInv
  BY <1>1, <1>2, <1>3 DEF HandedInv, BufferInv, PlaceInv
<1> QED
  BY <1>2, <1>4 DEF StreamInv, Stream!StreamInit

LEMMA NothingPending ==
    ASSUME StreamInv, UNCHANGED <<secure, taken, read, buffer, need, reading, rem_len,
                                  multiplier, readbuf, socketCorrupted, handed, fooled>>
    PROVE  StreamStep
<1>1. Position' = Position
  BY DEF Position
<1> QED
  BY <1>1, NothingIsRead

LEMMA ReadPacketStreams ==
    ASSUME ReaderInv, StreamInv, ReadPacket PROVE StreamStep
<1>1. /\ reading = "idle" /\ reading' = "header" /\ need' = 1 /\ buffer' = <<>>
      /\ rem_len' = 0 /\ multiplier' = 1
      /\ UNCHANGED <<secure, taken, read, socketCorrupted, handed, fooled>>
  BY DEF ReadPacket, Read, engineVars
<1>2. Len(buffer) = 0
  BY <1>1, WhatHolds, TypesAre DEF ReadInv
<1>3. Start' = Start
  <2>1. Position' = Position
    BY <1>1 DEF Position
  <2>2. Len(buffer') = 0
    BY <1>1
  <2> QED
    BY <1>2, <2>1, <2>2 DEF Start
<1>4. HandedInv => HandedInv'
  BY <1>1 DEF HandedInv
<1>5. BufferInv => BufferInv'
  <2>1. Len(buffer') = 0
    BY <1>1
  <2> QED
    BY <1>3, <2>1 DEF BufferInv
<1>6. PlaceInv => PlaceInv'
  BY <1>1, <1>3 DEF PlaceInv
<1> QED
  BY <1>1, <1>4, <1>5, <1>6, Stutters DEF StreamInv, StreamStep

LEMMA ReadPlainTextStreams ==
    ASSUME ReaderInv, StreamInv, ReadPlainText PROVE StreamStep
<1>1. PICK n \in Nat :
        /\ n > 0 /\ Len(buffer) + n <= need /\ read + n <= Len(PlainText)
        /\ read' = read + n
        /\ buffer' = buffer \o SubSeq(PlainText, read + 1, read + n)
  BY ReadPlainTextAdds
<1>2. /\ secure = 1
      /\ UNCHANGED <<secure, need, reading, rem_len, multiplier, readbuf,
                     socketCorrupted, handed, fooled>>
  BY DEF ReadPlainText, packetVars
<1>3. Position = read /\ Position' = read' /\ read \in Nat
  BY <1>2, WhatHolds, TypesAre DEF Position
<1>4. reading # "idle"
  BY WhoReads DEF ReadPlainText
<1> QED
  BY <1>1, <1>2, <1>3, <1>4, BytesAreRead

LEMMA RecvStreams ==
    ASSUME ReaderInv, StreamInv, Recv PROVE StreamStep
<1>1. PICK n \in 1..Waiting :
        LET all == secure = 1 /\ bytes + n = want IN
        /\ n <= want - bytes
        /\ taken' = taken + n
        /\ bytes' = IF all THEN 0 ELSE bytes + n
        /\ want' = IF all THEN 0 ELSE want
        /\ buffer' = IF secure = 1 THEN buffer
                     ELSE buffer \o SubSeq(PlainText, taken + 1, taken + n)
        /\ fed' = IF all /\ lost = 0 THEN fed + want ELSE fed
  BY DEF Recv
<1>2. /\ taken' = taken + n
      /\ buffer' = IF secure = 1 THEN buffer
                   ELSE buffer \o SubSeq(PlainText, taken + 1, taken + n)
      /\ UNCHANGED <<secure, read, need, reading, rem_len, multiplier, readbuf,
                     socketCorrupted, handed, fooled>>
  BY <1>1 DEF Recv, packetVars
<1>3. CASE secure = 1
  <2>1. Position' = Position /\ buffer' = buffer
    BY <1>2, <1>3 DEF Position
  <2> QED
    BY <1>2, <2>1, NothingIsRead
<1>4. CASE secure # 1
  <2>1. Position = taken /\ Position' = taken'
    BY <1>2, <1>4 DEF Position
  <2>2. /\ taken \in Nat /\ arrived \in Nat /\ arrived <= Len(PlainText)
        /\ Len(PlainText) \in Nat
    BY <1>4, WhatHolds, TypesAre DEF CountInv, OnTheWire
  <2>3. n \in Nat /\ n > 0 /\ taken + n <= Len(PlainText)
    BY <2>2 DEF Waiting
  <2>4. reading # "idle"
    BY WhoReads DEF Recv
  <2>5. buffer' = buffer \o SubSeq(PlainText, taken + 1, taken + n)
    BY <1>2, <1>4
  <2> QED
    BY <1>2, <2>1, <2>2, <2>3, <2>4, <2>5, BytesAreRead
<1> QED
  BY <1>3, <1>4

LEMMA RecvTimesOutStreams ==
    ASSUME ReaderInv, StreamInv, RecvTimesOut PROVE StreamStep
<1>1. UNCHANGED <<secure, taken, read, rem_len, multiplier, readbuf,
                  socketCorrupted, handed, fooled>>
  BY DEF RecvTimesOut
<1>2. CASE Guaranteed
  BY <1>1, <1>2, NothingPending DEF RecvTimesOut
<1>3. CASE ~Guaranteed
  <2>1. /\ reading = "header" /\ reading' \in {"idle", "header"}
        /\ buffer' = <<>> /\ (reading' = "header" => need' = 1)
    BY <1>3 DEF RecvTimesOut, NothingToRead, Guaranteed, Read, NoRead
  <2>2. PlaceInv => Len(buffer) = 0
    <3>1. Len(buffer) \in Nat /\ Len(buffer) < need
      BY WhatHolds, TypesAre DEF RecvTimesOut, ReadInv
    <3> QED
      BY <2>1, <3>1 DEF PlaceInv
  <2>3. Len(buffer') = 0
    BY <2>1
  <2>4. PlaceInv => Start' = Start
    <3>1. Position' = Position
      BY <1>1 DEF Position
    <3> QED
      BY <2>2, <2>3, <3>1 DEF Start
  <2>5. HandedInv => HandedInv'
    BY <1>1 DEF HandedInv
  <2>6. PlaceInv /\ BufferInv => BufferInv'
    BY <2>3, <2>4 DEF BufferInv
  <2>7. PlaceInv => PlaceInv'
    BY <1>1, <2>1, <2>4 DEF PlaceInv
  <2> QED
    BY <1>1, <2>5, <2>6, <2>7, Stutters DEF StreamInv, StreamStep
<1> QED
  BY <1>2, <1>3

LEMMA RecvEndUnnoticedStreams ==
    ASSUME ReaderInv, StreamInv, RecvEndUnnoticed PROVE StreamStep
<1>1. fooled' = 1 /\ handed' = handed /\ socketCorrupted' = socketCorrupted
  BY DEF RecvEndUnnoticed
<1>2. socketCorrupted = 0
  <2>1. reading # "idle"
    BY WhoReads DEF RecvEndUnnoticed, AtEnd
  <2> QED
    BY <2>1, WhatHolds, TypesAre DEF ReadInv
<1>3. CASE fooled = 0
  <2>1. Stream!BeFooled
    BY <1>1, <1>2, <1>3 DEF Stream!BeFooled
  <2> QED
    BY <1>1, <2>1, NoStreamAnyMore DEF StreamStep, Stream!StreamNext
<1>4. CASE fooled = 1
  BY <1>1, <1>4, NoStreamAnyMore, Stutters DEF StreamStep
<1>5. fooled \in 0..1
  BY WhatHolds, TypesAre
<1> QED
  BY <1>3, <1>4, <1>5

LEMMA NewConnectionStreams ==
    ASSUME NewConnection PROVE StreamStep
<1>1. Len(Packets) \in Nat /\ Plain(0) = 0
  BY Constants, TextLength
<1>2. /\ handed' = <<>> /\ buffer' = <<>> /\ read' = 0 /\ taken' = 0
      /\ reading' = "idle" /\ socketCorrupted' = 0 /\ fooled' = 0
  BY DEF NewConnection, NoRead
<1>3. Len(handed') = 0 /\ Len(buffer') = 0 /\ Start' = 0
  <2>1. Len(handed') = 0 /\ Len(buffer') = 0
    BY <1>2
  <2>2. Position' = 0
    BY <1>2 DEF Position
  <2> QED
    BY <2>1, <2>2 DEF Start
<1>4. HandedInv' /\ BufferInv' /\ PlaceInv'
  BY <1>1, <1>2, <1>3 DEF HandedInv, BufferInv, PlaceInv
<1>5. Stream!Renew
  BY <1>2 DEF Stream!Renew
<1> QED
  BY <1>4, <1>5 DEF StreamInv, StreamStep, Stream!StreamNext

(* The packet that is being read.                                          *)
LEMMA CurrentIs ==
    ASSUME Len(handed) \in Nat, Len(handed) < Len(Packets)
    PROVE  /\ Len(handed) + 1 \in 1..Len(Packets)
           /\ Current.header \in Byte /\ Current.payload \in Seq(Byte)
           /\ Current = [header |-> Current.header, payload |-> Current.payload]
           /\ Len(Current.payload) \in Nat
<1>1. Len(handed) + 1 \in 1..Len(Packets)
  BY Constants
<1> QED
  BY <1>1, PacketType DEF Current

LEMMA SameBytes ==
    ASSUME NEW s \in Seq(Byte), NEW t \in Seq(Byte), Len(s) = Len(t),
           \A j \in 1..Len(s) : s[j] = t[j]
    PROVE  s = t
OBVIOUS

(* What a packet is handed over with when its payload is cut off.          *)
LEMMA FilledIsCutOff ==
    ASSUME NEW payload \in Seq(Byte), NEW s \in Seq(Byte),
           Len(s) <= Len(payload), \A j \in 1..Len(s) : s[j] = payload[j]
    PROVE  s \o [k \in 1..(Len(payload) - Len(s)) |-> 0]
             = Stream!CutOff(payload, Len(s))
<1> DEFINE m == Len(payload) - Len(s)
           filled == s \o [k \in 1..m |-> 0]
           cut == [j \in 1..Len(payload) |-> IF j <= Len(s) THEN payload[j] ELSE 0]
<1>1. m \in Nat /\ Len(s) \in Nat /\ Len(payload) \in Nat /\ Len(s) + m = Len(payload)
  OBVIOUS
<1> HIDE DEF m
<1>2. /\ filled \in Seq(Byte) /\ Len(filled) = Len(payload)
      /\ \A j \in 1..Len(payload) :
           filled[j] = IF j <= Len(s) THEN s[j] ELSE 0
  BY <1>1, Filled, Constants
<1> HIDE DEF filled
<1>3. \A j \in 1..Len(payload) : payload[j] \in Byte /\ 0 \in Byte
  BY ElementOfSeq, Constants
<1>4. cut \in Seq(Byte) /\ Len(cut) = Len(payload)
  BY <1>1, <1>3, LenProperties
<1>5. \A j \in 1..Len(payload) : cut[j] = IF j <= Len(s) THEN payload[j] ELSE 0
  OBVIOUS
<1>6. Stream!CutOff(payload, Len(s)) = cut
  <2>1. DOMAIN payload = 1..Len(payload)
    BY LenProperties
  <2> QED
    BY <2>1 DEF Stream!CutOff
<1> HIDE DEF cut
<1>7. \A j \in 1..Len(payload) : filled[j] = cut[j]
  <2>1. \A j \in 1..Len(payload) : j <= Len(s) => j \in 1..Len(s)
    BY <1>1
  <2> QED
    BY <1>2, <1>5, <2>1
<1>8. filled = cut
  BY <1>2, <1>4, <1>7, SameBytes
<1> QED
  BY <1>6, <1>8 DEF filled, m

LEMMA ReadFailsStreams ==
    ASSUME ReaderInv, StreamInv, ReadFails, reading # "idle", fooled' = fooled
    PROVE  StreamStep
<1>1. socketCorrupted = 0 /\ socketCorrupted' = 1 /\ fooled \in 0..1
  BY WhatHolds, TypesAre DEF ReadFails, ReadInv
<1>2. CASE reading = "header" \/ fooled = 1
  <2>1. handed' = handed
    BY <1>2 DEF ReadFails
  <2>2. Stream!GiveUp
    BY <1>1, <2>1 DEF Stream!GiveUp
  <2> QED
    BY <1>1, <2>2, NoStreamAnyMore DEF StreamStep, Stream!StreamNext
<1>3. CASE ~(reading = "header" \/ fooled = 1)
  <2> DEFINE filled == buffer \o [k \in 1..(need - Len(buffer)) |-> 0]
             payload == IF reading = "length" THEN <<>> ELSE filled
  <2>1. handed' = Append(handed, [header |-> readbuf[1], payload |-> payload])
    BY <1>3, Zenon DEF ReadFails
  <2>2. /\ fooled = 0 /\ HandedInv /\ BufferInv /\ PlaceInv
        /\ reading \in {"length", "rest"}
    BY <1>1, <1>3, WhatHolds DEF StreamInv, ReaderTypeOK
  <2>3. InPacket
    BY <2>2 DEF PlaceInv
  <2>4. /\ Len(handed) \in Nat /\ Len(handed) < Len(Packets)
        /\ readbuf[1] = Current.header
    BY <2>3, WhatHolds, TypesAre DEF InPacket
  <2>5. /\ Len(handed) + 1 \in 1..Len(Packets)
        /\ Current.payload \in Seq(Byte) /\ Len(Current.payload) \in Nat
        /\ Current = [header |-> Current.header, payload |-> Current.payload]
    BY <2>4, CurrentIs
  <2>6. payload \in {Stream!CutOff(Current.payload, k) : k \in 0..Len(Current.payload)}
                      \cup {<<>>}
    <3>1. CASE reading = "length"
      BY <3>1
    <3>2. CASE reading = "rest"
      <4>1. /\ buffer \in Seq(Byte) /\ Len(buffer) \in Nat /\ Len(buffer) <= need
            /\ need = Len(Current.payload) /\ need \in Nat
            /\ Start + need = Plain(Len(handed) + 1)
        BY <2>2, <3>2, WhatHolds, TypesAre DEF ReaderTypeOK, ReadInv, PlaceInv
      <4>2. \A j \in 1..Len(buffer) : buffer[j] = Current.payload[j]
        <5>1. /\ \A j \in 1..Len(Current.payload) :
                   PlainText[Plain(Len(handed) + 1) - Len(Current.payload) + j]
                     = Current.payload[j]
          BY <2>5, PacketInText, Zenon DEF Current
        <5>2. /\ Start \in Nat
              /\ \A j \in 1..Len(buffer) : buffer[j] = PlainText[Start + j]
          BY <2>2 DEF BufferInv
        <5>3. \A j \in 1..Len(buffer) : j \in 1..Len(Current.payload)
          BY <4>1
        <5>4. Plain(Len(handed) + 1) - Len(Current.payload) = Start
          BY <4>1, <5>2
        <5> QED
          BY <5>1, <5>2, <5>3, <5>4
      <4>3. filled = Stream!CutOff(Current.payload, Len(buffer))
        BY <2>5, <4>1, <4>2, FilledIsCutOff
      <4>4. Len(buffer) \in 0..Len(Current.payload)
        BY <4>1
      <4>5. payload = filled
        BY <3>2
      <4> QED
        BY <4>3, <4>4, <4>5, Zenon
    <3> QED
      BY <2>2, <3>1, <3>2
  <2> HIDE DEF payload
  <2>7. [Current EXCEPT !.payload = payload]
          = [header |-> readbuf[1], payload |-> payload]
    BY <2>4, <2>5
  <2>8. Stream!GiveUpInAPacket
    <3>1. /\ handed' = Append(handed, [Current EXCEPT !.payload = payload])
      BY <2>1, <2>7
    <3> QED
      BY <1>1, <2>2, <2>4, <2>6, <3>1 DEF Stream!GiveUpInAPacket, Current
  <2> QED
    BY <1>1, <2>8, NoStreamAnyMore DEF StreamStep, Stream!StreamNext
<1> QED
  BY <1>2, <1>3

LEMMA NoRetryCaseStreams ==
    ASSUME ReaderInv, StreamInv, NoRetryCase PROVE StreamStep
BY ReadFailsStreams, WhoReads DEF NoRetryCase

LEMMA RecvFailsStreams ==
    ASSUME ReaderInv, StreamInv, RecvFails PROVE StreamStep
BY ReadFailsStreams, WhoReads DEF RecvFails

LEMMA RecvEndStreams ==
    ASSUME ReaderInv, StreamInv, RecvEnd PROVE StreamStep
BY ReadFailsStreams, WhoReads DEF RecvEnd, AtEnd

(* What has been read is a part of the text.                               *)
LEMMA PositionInText ==
    ASSUME ReaderInv
    PROVE  Position \in Nat /\ Position <= Len(PlainText)
<1>1. CASE secure = 1
  BY <1>1, WhatHolds, TypesAre DEF CountInv, Position
<1>2. CASE secure # 1
  BY <1>2, WhatHolds, TypesAre DEF CountInv, Position, OnTheWire
<1> QED
  BY <1>1, <1>2

(* After one byte: where the next read begins, and which byte it was.      *)
LEMMA ByteIsRead ==
    ASSUME ReaderInv, StreamInv, Done, fooled = 0, need = 1,
           buffer' = <<>>, UNCHANGED <<secure, taken, read>>
    PROVE  /\ Start \in Nat /\ Start' = Start + 1 /\ Position = Start + 1
           /\ buffer[1] = PlainText[Start + 1]
           /\ Len(buffer') = 0 /\ BufferInv'
<1>1. Len(buffer) = 1 /\ socketCorrupted = 0
  BY WhatIsDone
<1>2. BufferInv
  BY <1>1 DEF StreamInv
<1>3. Start \in Nat /\ buffer[1] = PlainText[Start + 1]
  BY <1>1, <1>2 DEF BufferInv
<1>4. Position \in Nat /\ Position' = Position
  BY PositionInText DEF Position
<1>5. Len(buffer') = 0
  OBVIOUS
<1>6. Position = Start + 1 /\ Start' = Start + 1
  <2>1. Start = Position - 1 /\ Start' = Position
    BY <1>1, <1>4, <1>5 DEF Start
  <2> QED
    BY <1>4, <2>1
<1>7. BufferInv'
  BY <1>3, <1>5, <1>6 DEF BufferInv
<1> QED
  BY <1>3, <1>5, <1>6, <1>7

LEMMA HeaderReadStreams ==
    ASSUME ReaderInv, StreamInv, HeaderRead PROVE StreamStep
<1>1. /\ Done /\ reading = "header" /\ reading' = "length" /\ readbuf' = buffer
      /\ need' = 1 /\ buffer' = <<>>
      /\ UNCHANGED <<secure, taken, read, rem_len, multiplier, socketCorrupted,
                     handed, fooled>>
  BY DEF HeaderRead, Read, engineVars
<1>2. ASSUME fooled = 0, socketCorrupted = 0
      PROVE  HandedInv' /\ BufferInv' /\ PlaceInv'
  <2>1. HandedInv /\ PlaceInv
    BY <1>2 DEF StreamInv
  <2>2. /\ need = 1 /\ rem_len = 0 /\ multiplier = 1 /\ Start = Plain(Len(handed))
    BY <1>1, <2>1 DEF PlaceInv
  <2>3. /\ Start \in Nat /\ Start' = Start + 1 /\ Position = Start + 1
        /\ buffer[1] = PlainText[Start + 1] /\ BufferInv'
    BY <1>1, <1>2, <2>2, ByteIsRead
  <2>4. Len(handed) \in Nat /\ Len(handed) < Len(Packets)
    <3>1. /\ Len(handed) \in Nat /\ Len(handed) <= Len(Packets)
          /\ Len(Packets) \in Nat
      BY <2>1, WhatHolds, TypesAre, Constants DEF HandedInv
    <3>2. Len(handed) # Len(Packets)
      <4>1. Position <= Len(PlainText) /\ Len(PlainText) \in Nat
        BY PositionInText, TextLength
      <4>2. Plain(Len(Packets)) = Len(PlainText)
        BY TextLength
      <4> QED
        BY <2>2, <2>3, <4>1, <4>2
    <3> QED
      BY <3>1, <3>2
  <2>5. Len(handed) + 1 \in 1..Len(Packets) /\ Len(Current.payload) \in Nat
    BY <2>4, CurrentIs
  <2>0. PICK q \in Nat : q = Len(Current.payload)
    BY <2>5
  <2> DEFINE digits == Encoded[q]
  <2>6. /\ Len(digits) \in Nat
        /\ Plain(Len(handed) + 1) = Start + 1 + Len(digits) + q
        /\ PlainText[Start + 1] = Current.header
        /\ \A j \in 1..Len(digits) : PlainText[Start + 1 + j] = digits[j]
    <3>1. (Len(handed) + 1) - 1 = Len(handed)
      BY <2>4
    <3>2. LET p == Packets[Len(handed) + 1]
              ds == Encoded[Len(p.payload)]
              at == Plain((Len(handed) + 1) - 1)
          IN  /\ Len(ds) \in Nat
              /\ Plain(Len(handed) + 1) = at + 1 + Len(ds) + Len(p.payload)
              /\ PlainText[at + 1] = p.header
              /\ \A j \in 1..Len(ds) : PlainText[at + 1 + j] = ds[j]
      BY <2>5, PacketInText, Zenon
    <3> QED
      BY <2>0, <2>2, <3>1, <3>2 DEF Current
  <2>7. Current' = Current
    BY <1>1 DEF Current
  <2>8. DigitsLeft(q)'
    <3>1. rem_len' + multiplier' * q = q
      BY <1>1, <2>2, <2>5
    <3>2. Start' + Len(digits) + q = Plain(Len(handed) + 1)
      BY <2>3, <2>6
    <3>3. \A j \in 1..Len(digits) : PlainText[Start' + j] = digits[j]
      BY <2>3, <2>6
    <3>4. handed' = handed
      BY <1>1
    <3> QED
      BY <2>0, <2>7, <3>1, <3>2, <3>3, <3>4, Zenon DEF DigitsLeft
  <2>9. HandedInv'
    BY <1>1, <2>1 DEF HandedInv
  <2>10. InPacket'
    BY <1>1, <2>3, <2>4, <2>6, <2>7 DEF InPacket
  <2>11. \E r \in Nat : DigitsLeft(r)'
    BY <2>8, Zenon
  <2>12. PlaceInv'
    BY <1>1, <2>2, <2>10, <2>11 DEF PlaceInv
  <2> QED
    BY <2>3, <2>9, <2>12
<1>3. StreamInv'
  BY <1>1, <1>2 DEF StreamInv
<1> QED
  BY <1>1, <1>3, Stutters DEF StreamStep

(* The packet that is being read is handed over.                           *)
LEMMA CurrentIsHandedOver ==
    ASSUME ReaderInv, StreamInv, InPacket, fooled = 0, socketCorrupted = 0,
           NEW payload, payload = Current.payload,
           HandOver(readbuf[1], payload), Position' = Plain(Len(handed) + 1),
           UNCHANGED <<socketCorrupted, fooled>>
    PROVE  StreamStep
<1>1. /\ Len(handed) \in Nat /\ Len(handed) < Len(Packets)
      /\ readbuf[1] = Current.header /\ Len(Packets) \in Nat
  BY WhatHolds, TypesAre, Constants DEF InPacket
<1>2. /\ Len(handed) + 1 \in 1..Len(Packets)
      /\ Current = [header |-> Current.header, payload |-> Current.payload]
  BY <1>1, CurrentIs
<1>3. handed' = Append(handed, Current) /\ reading' = "idle" /\ buffer' = <<>>
  BY <1>1, <1>2 DEF HandOver, NoRead
<1>4. /\ Len(handed') = Len(handed) + 1
      /\ \A j \in 1..Len(handed) : handed'[j] = handed[j]
      /\ handed'[Len(handed) + 1] = Current
  <2>1. handed \in Seq([header : Byte, payload : Seq(Byte)])
    BY WhatHolds DEF ReaderTypeOK
  <2>2. Current \in [header : Byte, payload : Seq(Byte)]
    BY <1>1, CurrentIs
  <2> QED
    BY <1>3, <2>1, <2>2, AppendProperties
<1>5. HandedInv
  BY DEF StreamInv
<1>6. HandedInv'
  <2>1. \A j \in 1..(Len(handed) + 1) : j \in 1..Len(handed) \/ j = Len(handed) + 1
    BY <1>1
  <2>2. \A j \in 1..(Len(handed) + 1) : handed'[j] = Packets[j]
    BY <1>4, <1>5, <2>1 DEF HandedInv, Current
  <2>3. Len(handed) + 1 <= Len(Packets)
    BY <1>1
  <2> QED
    BY <1>4, <2>2, <2>3 DEF HandedInv
<1>7. Start' = Plain(Len(handed')) /\ Len(buffer') = 0 /\ Plain(Len(handed')) \in Nat
  <2>1. Len(buffer') = 0
    BY <1>3
  <2>2. Plain(Len(handed) + 1) \in Nat
    BY <1>1, <1>2, TextLength
  <2> QED
    BY <1>4, <2>1, <2>2 DEF Start
<1>8. BufferInv' /\ PlaceInv'
  BY <1>3, <1>7 DEF BufferInv, PlaceInv
<1>9. Stream!HandOver
  BY <1>1, <1>3 DEF Stream!HandOver, Current
<1> QED
  BY <1>6, <1>8, <1>9 DEF StreamInv, StreamStep, Stream!StreamNext

(* A packet that is handed over to a reader that was fooled.               *)
LEMMA NothingIsHandedOver ==
    ASSUME ReaderInv, NEW header, NEW payload, fooled = 1, HandOver(header, payload),
           UNCHANGED <<socketCorrupted, fooled>>
    PROVE  StreamStep
<1>1. handed' = handed
  BY DEF HandOver
<1> QED
  BY <1>1, Stutters, NoStreamAnyMore DEF StreamStep

LEMMA RestReadStreams ==
    ASSUME ReaderInv, StreamInv, RestRead PROVE StreamStep
<1>1. /\ Done /\ reading = "rest" /\ HandOver(readbuf[1], buffer)
      /\ UNCHANGED <<secure, taken, read, socketCorrupted, fooled>>
  BY DEF RestRead, engineVars
<1>2. /\ fooled \in 0..1 /\ socketCorrupted = 0 /\ Len(buffer) = need /\ need \in Nat
      /\ buffer \in Seq(Byte)
  BY <1>1, WhatHolds, TypesAre, WhatIsDone
<1>3. CASE fooled = 0
  <2>1. BufferInv /\ PlaceInv
    BY <1>2, <1>3 DEF StreamInv
  <2>2. /\ InPacket /\ need = Len(Current.payload)
        /\ Start + need = Plain(Len(handed) + 1)
    BY <1>1, <2>1 DEF PlaceInv
  <2>3. Len(handed) \in Nat /\ Len(handed) < Len(Packets)
    BY <2>2, WhatHolds, TypesAre DEF InPacket
  <2>4. Len(handed) + 1 \in 1..Len(Packets) /\ Current.payload \in Seq(Byte)
    BY <2>3, CurrentIs
  <2>5. Start \in Nat /\ \A j \in 1..Len(buffer) : buffer[j] = PlainText[Start + j]
    BY <2>1 DEF BufferInv
  <2>6. Position' = Plain(Len(handed) + 1)
    <3>1. Position' = Position /\ Position \in Nat
      BY <1>1, PositionInText DEF Position
    <3>2. Position = Start + need
      BY <1>2, <3>1 DEF Start
    <3> QED
      BY <2>2, <3>1, <3>2
  <2>7. buffer = Current.payload
    <3>1. \A j \in 1..Len(Current.payload) :
            PlainText[Plain(Len(handed) + 1) - Len(Current.payload) + j]
              = Current.payload[j]
      BY <2>4, PacketInText, Zenon DEF Current
    <3>2. Plain(Len(handed) + 1) - Len(Current.payload) = Start
      BY <1>2, <2>2, <2>5
    <3>3. \A j \in 1..Len(buffer) : buffer[j] = Current.payload[j]
      BY <1>2, <2>2, <2>5, <3>1, <3>2
    <3> QED
      BY <1>2, <2>2, <2>4, <3>3, SameBytes
  <2> QED
    BY <1>1, <1>2, <1>3, <2>2, <2>6, <2>7, CurrentIsHandedOver
<1>4. CASE fooled = 1
  BY <1>1, <1>4, NothingIsHandedOver
<1> QED
  BY <1>2, <1>3, <1>4

(* The first digit of q, and what it leaves of the length.                 *)
LEMMA OneDigit ==
    ASSUME NEW q \in Nat, NEW rem \in Nat, NEW mult \in Nat, mult >= 1,
           rem + mult * q < Width, q >= Base
    PROVE  /\ q \div Base \in Nat /\ Encoded[q][1] = (q % Base) + Base
           /\ Len(Encoded[q]) = 1 + Len(Encoded[q \div Base])
           /\ Len(Encoded[q \div Base]) \in Nat
           /\ \A j \in 1..Len(Encoded[q \div Base]) :
                Encoded[q][1 + j] = Encoded[q \div Base][j]
           /\ (rem + (q % Base) * mult) % Width = rem + (q % Base) * mult
           /\ (mult * Base) % Width = mult * Base /\ mult * Base >= 1
           /\ (rem + (q % Base) * mult) + (mult * Base) * (q \div Base)
                = rem + mult * q
<1> DEFINE r == q \div Base
           m == q % Base
<1>1. /\ Base \in Nat /\ Base > 1 /\ Width \in Nat
      /\ r \in Nat /\ r > 0 /\ m \in Nat /\ q = r * Base + m
      /\ m + Base \in Byte
  <2>1. Base \in Nat /\ Base > 1 /\ Width \in Nat
    BY Constants
  <2>2. /\ r \in Nat /\ r > 0 /\ m \in 0..(Base - 1) /\ q = r * Base + m
        /\ m + Base \in Byte
    BY Digits, Zenon
  <2> HIDE DEF r, m
  <2>3. m \in Nat
    BY <2>1, <2>2
  <2> QED
    BY <2>1, <2>2, <2>3
<1>2. /\ Encoded[r] \in Seq(Byte) /\ Encoded[q] = <<m + Base>> \o Encoded[r]
  BY <1>1, EncodedIs
<1> HIDE DEF r, m
<1>3. Encoded[q][1] = m + Base
      /\ Len(Encoded[q]) = 1 + Len(Encoded[r]) /\ Len(Encoded[r]) \in Nat
      /\ \A j \in 1..Len(Encoded[r]) : Encoded[q][1 + j] = Encoded[r][j]
  <2> DEFINE head == <<m + Base>>
  <2>1. head \in Seq(Byte) /\ Len(head) = 1 /\ head[1] = m + Base
    BY <1>1
  <2>2. Encoded[q] = head \o Encoded[r]
    BY <1>2
  <2> HIDE DEF head
  <2>3. IsJoined(Encoded[q], head, Encoded[r])
    BY <1>2, <2>1, <2>2, Joined, Zenon
  <2> QED
    BY <2>1, <2>3 DEF IsJoined
<1>4. mult * q = m * mult + (mult * Base) * r
  BY <1>1
<1>5. m * mult \in Nat /\ mult * Base \in Nat /\ mult * Base >= 1
  <2>1. mult * Base >= Base
    BY <1>1
  <2> QED
    BY <1>1, <2>1
<1>6. (mult * Base) * r \in Nat /\ (mult * Base) * r >= mult * Base
  <2> DEFINE x == mult * Base
  <2>1. x \in Nat
    BY <1>5
  <2> HIDE DEF x
  <2>2. x * r \in Nat /\ x * r >= x
    BY <1>1, <2>1
  <2> QED
    BY <2>2 DEF x
<1>7. \A n \in Nat : n < Width => n % Width = n
  BY <1>1
<1> DEFINE a == m * mult
           b == mult * Base
           c == (mult * Base) * r
           d == mult * q
<1>8. /\ a \in Nat /\ b \in Nat /\ c \in Nat /\ c >= b /\ d = a + c
      /\ rem + d < Width
  BY <1>4, <1>5, <1>6
<1> HIDE DEF a, b, c, d
<1>9. rem + a \in Nat /\ rem + a < Width /\ b < Width /\ (rem + a) + c = rem + d
  BY <1>1, <1>8
<1>10. (rem + a) % Width = rem + a /\ b % Width = b
  BY <1>7, <1>8, <1>9
<1> QED
  BY <1>1, <1>3, <1>5, <1>9, <1>10, Zenon DEF a, b, c, d, r, m

LEMMA LastDigit ==
    ASSUME NEW q \in Nat, NEW rem \in Nat, NEW mult \in Nat,
           rem + mult * q < Width, q < Base
    PROVE  /\ Encoded[q][1] = q /\ Len(Encoded[q]) = 1 /\ q % Base = q
           /\ (rem + q * mult) % Width = rem + mult * q
<1>1. Encoded[q] = <<q>> /\ q % Base = q
  BY EncodedIs, Digits
<1>2. Width \in Nat /\ mult * q \in Nat /\ q * mult = mult * q
  BY Constants
<1>3. \A n \in Nat : n < Width => n % Width = n
  BY <1>2
<1>4. rem + mult * q \in Nat
  BY <1>2
<1> QED
  BY <1>1, <1>2, <1>3, <1>4

LEMMA LengthReadStreams ==
    ASSUME ShortPackets, ReaderInv, StreamInv, LengthRead PROVE StreamStep
<1>1. /\ Done /\ reading = "length" /\ i' = buffer[1]
      /\ rem_len' = (rem_len + (i' % Base) * multiplier) % Width
      /\ multiplier' = (multiplier * Base) % Width
      /\ UNCHANGED <<secure, taken, read, readbuf, socketCorrupted, fooled>>
  BY DEF LengthRead, ReadDigit, engineVars
<1>2. \/ i' >= Base /\ Read(1) /\ UNCHANGED <<reading, handed>>
      \/ /\ i' < Base /\ rem_len' \in 1..(Width \div 2 - 1)
         /\ reading' = "rest" /\ Read(rem_len') /\ UNCHANGED handed
      \/ /\ i' < Base /\ rem_len' \notin 1..(Width \div 2 - 1)
         /\ HandOver(readbuf[1], <<>>)
  BY Zenon DEF LengthRead, ReadDigit
<1>3. /\ fooled \in 0..1 /\ socketCorrupted = 0 /\ buffer' = <<>>
  BY <1>1, <1>2, WhatHolds, TypesAre, WhatIsDone DEF Read, HandOver, NoRead
<1>4. CASE fooled = 1
  <2>1. CASE handed' = handed
    BY <1>1, <1>4, <2>1, Stutters, NoStreamAnyMore DEF StreamStep
  <2>2. CASE HandOver(readbuf[1], <<>>)
    BY <1>1, <1>4, <2>2, NothingIsHandedOver
  <2> QED
    BY <1>2, <2>1, <2>2
<1>5. CASE fooled = 0
  <2>1. HandedInv /\ PlaceInv
    BY <1>3, <1>5 DEF StreamInv
  <2>2. InPacket /\ need = 1 /\ multiplier >= 1 /\ \E q \in Nat : DigitsLeft(q)
    BY <1>1, <2>1 DEF PlaceInv
  <2>3. Len(handed) \in Nat /\ Len(handed) < Len(Packets)
    BY <2>2, WhatHolds, TypesAre DEF InPacket
  <2>4. /\ Len(handed) + 1 \in 1..Len(Packets)
        /\ Current.payload \in Seq(Byte) /\ Len(Current.payload) \in Nat
    BY <2>3, CurrentIs
  <2>5. PICK q \in Nat : DigitsLeft(q)
    BY <2>2
  <2>6. PICK l \in Nat : l = Len(Current.payload)
    BY <2>4
  <2>7. /\ rem_len + multiplier * q = l
        /\ Start + Len(Encoded[q]) + l = Plain(Len(handed) + 1)
        /\ \A j \in 1..Len(Encoded[q]) : PlainText[Start + j] = Encoded[q][j]
    BY <2>5, <2>6, Zenon DEF DigitsLeft
  <2>8. /\ Start \in Nat /\ Start' = Start + 1 /\ Position = Start + 1
        /\ buffer[1] = PlainText[Start + 1] /\ Len(buffer') = 0 /\ BufferInv'
    BY <1>1, <1>3, <1>5, <2>2, ByteIsRead
  <2>9. i' = Encoded[q][1]
    <3>1. 1 \in 1..Len(Encoded[q])
      <4>1. Encoded[q] \in Seq(Byte) /\ Len(Encoded[q]) >= 1
        BY EncodedIs, Zenon
      <4> QED
        BY <4>1
    <3> QED
      BY <1>1, <2>7, <2>8, <3>1
  <2>10. /\ Base \in Nat /\ Width \in Nat /\ Width \div 2 \in Nat
         /\ Width \div 2 <= Width
         /\ rem_len \in Nat /\ multiplier \in Nat
    <3>1. /\ Base \in Nat /\ Width \in Nat
      BY Constants
    <3>2. rem_len \in 0..(Width - 1) /\ multiplier \in 0..(Width - 1)
      BY WhatHolds DEF ReaderTypeOK
    <3> QED
      BY <3>1, <3>2
  <2>11. l < Width \div 2 /\ l < Width
    BY <2>4, <2>6, <2>10 DEF ShortPackets, Current
  <2>12. handed' = handed => HandedInv' /\ Current' = Current /\ InPacket'
    BY <1>1, <2>1, <2>2 DEF HandedInv, Current, InPacket
  <2>13. CASE q < Base
    <3>1. /\ i' = q /\ Len(Encoded[q]) = 1 /\ rem_len' = l
      <4>1. /\ Encoded[q][1] = q /\ Len(Encoded[q]) = 1 /\ q % Base = q
            /\ (rem_len + q * multiplier) % Width = rem_len + multiplier * q
        <5>1. rem_len + multiplier * q < Width
          BY <2>7, <2>11
        <5> QED
          BY <2>10, <2>13, <5>1, LastDigit, Zenon
      <4> QED
        BY <1>1, <2>7, <2>9, <4>1
    <3>2. Start + 1 + l = Plain(Len(handed) + 1)
      BY <2>7, <3>1
    <3>3. ~(i' >= Base)
      BY <2>10, <2>13, <3>1
    <3>4. CASE reading' = "rest" /\ Read(rem_len') /\ UNCHANGED handed
      <4>1. need' = l
        BY <3>1, <3>4 DEF Read
      <4>2. Start' + need' = Plain(Len(handed) + 1)
        BY <2>8, <3>2, <4>1
      <4>3. PlaceInv'
        BY <2>6, <2>12, <3>4, <4>1, <4>2 DEF PlaceInv
      <4> QED
        BY <1>1, <2>8, <2>12, <3>4, <4>3, Stutters DEF StreamStep, StreamInv
    <3>5. CASE /\ rem_len' \notin 1..(Width \div 2 - 1) /\ HandOver(readbuf[1], <<>>)
      <4>1. l = 0
        BY <2>10, <2>11, <3>1, <3>5
      <4>2. Current.payload = <<>>
        <5>1. \A s \in Seq(Byte) : Len(s) = 0 => s = <<>>
          OBVIOUS
        <5> QED
          BY <2>4, <2>6, <4>1, <5>1, Zenon
      <4>3. Position' = Plain(Len(handed) + 1)
        <5>1. Position' = Position
          BY <1>1 DEF Position
        <5> QED
          BY <2>8, <3>2, <4>1, <5>1
      <4> QED
        BY <1>1, <1>3, <1>5, <2>2, <3>5, <4>2, <4>3, CurrentIsHandedOver
    <3> QED
      BY <1>2, <3>3, <3>4, <3>5
  <2>14. CASE q >= Base
    <3> DEFINE r == q \div Base
               m == q % Base
    <3>1. /\ r \in Nat /\ Encoded[q][1] = m + Base
          /\ Len(Encoded[q]) = 1 + Len(Encoded[r]) /\ Len(Encoded[r]) \in Nat
          /\ \A j \in 1..Len(Encoded[r]) : Encoded[q][1 + j] = Encoded[r][j]
          /\ (rem_len + m * multiplier) % Width = rem_len + m * multiplier
          /\ (multiplier * Base) % Width = multiplier * Base /\ multiplier * Base >= 1
          /\ (rem_len + m * multiplier) + (multiplier * Base) * r
               = rem_len + multiplier * q
      <4>1. rem_len + multiplier * q < Width
        BY <2>7, <2>11
      <4>2. q \in Nat /\ rem_len \in Nat /\ multiplier \in Nat /\ multiplier >= 1
        BY <2>2, <2>10
      <4> HIDE DEF r, m
      <4>3. /\ q \div Base = r /\ q % Base = m
        BY DEF r, m
      <4> QED
        BY <2>14, <4>1, <4>2, <4>3, OneDigit
    <3>2. m \in Nat /\ (m + Base) % Base = m
      BY Digits
    <3> HIDE DEF r, m
    <3>3. i' = m + Base /\ i' >= Base /\ i' % Base = m
      BY <2>9, <2>10, <3>1, <3>2
    <3>4. Read(1) /\ reading' = reading /\ handed' = handed
      BY <1>2, <2>10, <3>3
    <3>5. /\ rem_len' = rem_len + m * multiplier /\ multiplier' = multiplier * Base
          /\ multiplier' >= 1 /\ rem_len' + multiplier' * r = l
      BY <1>1, <2>7, <3>1, <3>3
    <3>6. Start' + Len(Encoded[r]) + l = Plain(Len(handed) + 1)
      <4>1. Start + (1 + Len(Encoded[r])) + l = Plain(Len(handed) + 1)
        BY <2>7, <3>1
      <4>2. /\ Start \in Nat /\ Start' = Start + 1 /\ l \in Nat
            /\ Len(Encoded[r]) \in Nat
        BY <2>8, <3>1
      <4>3. \A a, b, c \in Nat : (a + 1) + b + c = a + (1 + b) + c
        OBVIOUS
      <4> QED
        BY <4>1, <4>2, <4>3, Zenon
    <3>7. ASSUME NEW j \in 1..Len(Encoded[r])
          PROVE  PlainText[Start' + j] = Encoded[r][j]
      <4>1. 1 + j \in 1..Len(Encoded[q]) /\ Start' + j = Start + (1 + j)
        BY <2>8, <3>1
      <4> QED
        BY <2>7, <3>1, <4>1
    <3>8. DigitsLeft(r)'
      BY <2>6, <2>12, <3>4, <3>5, <3>6, <3>7, Zenon DEF DigitsLeft, r
    <3>9. \E d \in Nat : DigitsLeft(d)'
      BY <3>1, <3>8, Zenon DEF r
    <3>10. need' = 1 /\ reading' = "length"
      BY <1>1, <3>4 DEF Read
    <3>11. PlaceInv'
      BY <2>12, <3>4, <3>5, <3>9, <3>10 DEF PlaceInv
    <3> QED
      BY <1>1, <2>8, <2>12, <3>4, <3>11, Stutters DEF StreamStep, StreamInv
  <2> QED
    BY <2>10, <2>13, <2>14
<1> QED
  BY <1>3, <1>4, <1>5

LEMMA StepStreams ==
    ShortPackets /\ ReaderInv /\ StreamInv /\ [ReaderNext]_readerVars => StreamStep
<1> SUFFICES ASSUME ShortPackets, ReaderInv, StreamInv, [ReaderNext]_readerVars
             PROVE  StreamStep
  OBVIOUS
<1>1. CASE Reader
  <2>1. CASE ReadPending
    BY <2>1, NothingPending DEF ReadPending, engineVars, packetVars
  <2> QED
    BY <1>1, <2>1, ReadPacketStreams, ReadPlainTextStreams, NoRetryCaseStreams,
       RecvStreams, RecvTimesOutStreams, RecvFailsStreams, RecvEndStreams,
       RecvEndUnnoticedStreams, HeaderReadStreams, LengthReadStreams, RestReadStreams
    DEF Reader
<1>2. CASE Reconnect
  BY <1>2, NewConnectionStreams DEF Reconnect
<1>3. CASE WatchdogExpires
  BY <1>3, NewConnectionStreams DEF WatchdogExpires
<1>4. CASE Arrive
  BY <1>4, NothingPending DEF Arrive, engineVars, callVars, packetVars
<1>5. CASE Disconnect
  BY <1>5, NothingPending DEF Disconnect, engineVars, callVars, packetVars
<1>6. CASE UNCHANGED readerVars
  BY <1>6, NothingPending DEF readerVars, engineVars, callVars, packetVars
<1> QED
  BY <1>1, <1>2, <1>3, <1>4, <1>5, <1>6 DEF ReaderNext

(* However the bytes arrive, in plain text or through SSL, and wherever    *)
(* reads time out: readPacket() hands over the packets that the server     *)
(* sent, whole and in order, and after that at most the one that was cut   *)
(* off when the connection was given up.  For packets whose length fits    *)
(* into an int, as that of every MQTT packet does.                         *)
THEOREM PacketsAreAStream == ShortPackets => (ReaderSpec => ReadsStream)
<1> SUFFICES ASSUME ShortPackets PROVE ReaderSpec => ReadsStream
  OBVIOUS
<1>1. ReaderInit => ReaderInv /\ StreamInv /\ Stream!StreamInit
  BY StartIsTyped, StreamStarts
<1>2. ReaderInv /\ StreamInv /\ [ReaderNext]_readerVars
        => (ReaderInv /\ StreamInv)' /\ [Stream!StreamNext]_(Stream!streamVars)
  BY StepIsTyped, StepStreams DEF StreamStep
<1> QED
  BY <1>1, <1>2, PTL DEF ReaderSpec, ReadsStream, Stream!StreamSpec

=============================================================================
