--------------------------- MODULE ExampleProofs ---------------------------
(***************************************************************************)
(* Proofs about the example programs of examples/c:                        *)
(*   - the ring of bytes of spsc_queue.h, for any size and any width of    *)
(*     the indices that is a multiple of it, and calls of any length: its  *)
(*     indices in every build, its bytes in those that order the copy and  *)
(*     the store of the index;                                             *)
(*   - the state machine engine, for any forest of states, any tables and  *)
(*     guards and any depth of nesting, if only actions dispatch;          *)
(*   - the loop and the worker of fs-hsm.c, for any number of chunks;      *)
(*   - the connections of hsm-echo.c, for any number of them and any sizes *)
(*     of their queues and buffers.                                        *)
(***************************************************************************)
EXTENDS Spsc, Hsm, EchoServer, FileWriter, DataStructureProofs

-----------------------------------------------------------------------------
\* The indices wrap around at a multiple of the size, and can tell an empty
\* ring from a full one: spsc_queue_create takes powers of two only.
SpscAssumption ==
  /\ Size \in Nat \ {0}
  /\ Mod \in Nat /\ Mod > Size /\ Mod % Size = 0

-----------------------------------------------------------------------------
\* Arithmetic of remainders

\* No multiple of m but 0 is less than m.
LEMMA NoMultipleBetween ==
  ASSUME NEW m \in Nat \ {0}, NEW d \in Int, 0 <= m * d, m * d < m
  PROVE  d = 0
<1>1. d >= 1 => m * d >= m
  OBVIOUS
<1>2. d <= -1 => m * d <= -m
  OBVIOUS
<1> QED BY <1>1, <1>2

\* The remainder is unique.
LEMMA Unique ==
  ASSUME NEW m \in Nat \ {0}, NEW q \in Int, NEW r \in 0 .. m - 1
  PROVE  ((m * q) + r) % m = r
<1> DEFINE a == (m * q) + r
<1>1. a \in Int
  OBVIOUS
<1>2. a \div m \in Int /\ a % m \in 0 .. m - 1 /\ a = (m * (a \div m)) + (a % m)
  BY <1>1, DivMod
<1>3. PICK e \in Int : e = a \div m
  BY <1>2
<1>4. PICK s \in 0 .. m - 1 : s = a % m
  BY <1>2
<1>5. (m * q) + r = (m * e) + s
  BY <1>2, <1>3, <1>4
<1>6. m * (q - e) = s - r /\ m * (e - q) = r - s
  BY <1>5
<1>7. q = e
  <2>1. CASE s >= r
    <3>1. 0 <= m * (q - e) /\ m * (q - e) < m /\ q - e \in Int
      BY <1>6, <2>1
    <3> QED BY <3>1, NoMultipleBetween
  <2>2. CASE s < r
    <3>1. 0 <= m * (e - q) /\ m * (e - q) < m /\ e - q \in Int
      BY <1>6, <2>2
    <3> QED BY <3>1, NoMultipleBetween
  <2> QED BY <2>1, <2>2
<1> QED BY <1>4, <1>5, <1>7

\* a and a + m * q have the same place
LEMMA ShiftMod ==
  ASSUME NEW m \in Nat \ {0}, NEW a \in Int, NEW q \in Int
  PROVE  ((m * q) + a) % m = a % m
<1>1. a % m \in 0 .. m - 1 /\ a \div m \in Int /\ a = (m * (a \div m)) + (a % m)
  BY DivMod
<1>2. PICK e \in Int : e = a \div m
  BY <1>1
<1>3. PICK s \in 0 .. m - 1 : s = a % m
  BY <1>1
<1>4. a = (m * e) + s
  BY <1>1, <1>2, <1>3
<1>5. (m * q) + a = (m * (q + e)) + s
  BY <1>4
<1>6. q + e \in Int
  OBVIOUS
<1> QED BY <1>3, <1>5, <1>6, Unique

\* What is less than m is its own remainder.
LEMMA Small ==
  ASSUME NEW m \in Nat \ {0}, NEW r \in 0 .. m - 1
  PROVE  r % m = r
<1>1. ((m * 0) + r) % m = r
  BY Unique
<1>2. (m * 0) + r = r
  OBVIOUS
<1> QED BY <1>1, <1>2

\* A remainder is a place.
LEMMA InRange ==
  ASSUME NEW m \in Nat \ {0}, NEW a \in Nat
  PROVE  a % m \in 0 .. m - 1 /\ a % m \in Nat
<1>1. a % m \in 0 .. m - 1
  BY DivMod
<1> QED BY <1>1

\* Adding to an index adds to its position.
LEMMA ModPlus ==
  ASSUME NEW m \in Nat \ {0}, NEW p \in Nat, NEW i \in Nat
  PROVE  ((p % m) + i) % m = (p + i) % m
<1>2. p % m \in 0 .. m - 1 /\ p \div m \in Int /\ p = (m * (p \div m)) + (p % m)
  BY DivMod
<1>3. PICK e \in Int : e = p \div m
  BY <1>2
<1>4. PICK s \in 0 .. m - 1 : s = p % m
  BY <1>2
<1>5. p = (m * e) + s
  BY <1>2, <1>3, <1>4
<1>6. p + i = (m * e) + (s + i) /\ s + i \in Int
  BY <1>5
<1>8. (p + i) % m = (s + i) % m
  BY <1>6, ShiftMod
<1> QED BY <1>4, <1>8

\* Unsigned subtraction of two indices gives the distance of the positions.
LEMMA Distance ==
  ASSUME NEW m \in Nat \ {0}, NEW h \in Nat, NEW d \in 0 .. m - 1
  PROVE  (((h + d) % m) + (m - (h % m))) % m = d
<1>1. h % m \in 0 .. m - 1 /\ h \div m \in Int /\ h = (m * (h \div m)) + (h % m)
  BY DivMod
<1>3. PICK e \in Int : e = h \div m
  BY <1>1
<1>4. PICK s \in 0 .. m - 1 : s = h % m
  BY <1>1
<1>5. h = (m * e) + s
  BY <1>1, <1>3, <1>4
<1>6. h + d \in Nat /\ m - s \in Nat
  OBVIOUS
<1>7. (((h + d) % m) + (m - s)) % m = ((h + d) + (m - s)) % m
  BY <1>6, ModPlus
<1>8. (h + d) + (m - s) = (m * (e + 1)) + d /\ e + 1 \in Int
  BY <1>5
<1>9. ((h + d) + (m - s)) % m = d
  BY <1>8, Unique
<1> QED BY <1>4, <1>7, <1>9

\* Positions less than m apart have different places.
LEMMA Apart ==
  ASSUME NEW m \in Nat \ {0}, NEW p \in Nat, NEW q \in Nat, p % m = q % m, p <= q, q < p + m
  PROVE  p = q
<1>1. p % m \in 0 .. m - 1 /\ p \div m \in Int /\ p = (m * (p \div m)) + (p % m)
  BY DivMod
<1>2. q % m \in 0 .. m - 1 /\ q \div m \in Int /\ q = (m * (q \div m)) + (q % m)
  BY DivMod
<1>3. PICK e \in Int : e = p \div m
  BY <1>1
<1>4. PICK f \in Int : f = q \div m
  BY <1>2
<1>5. PICK s \in 0 .. m - 1 : s = p % m
  BY <1>1
<1>6. p = (m * e) + s /\ q = (m * f) + s
  BY <1>1, <1>2, <1>3, <1>4, <1>5
<1>7. m * (f - e) = q - p /\ f - e \in Int
  BY <1>6
<1>8. f - e = 0
  BY <1>7, NoMultipleBetween
<1> QED BY <1>7, <1>8

\* An index has the place of the position it stands for.
LEMMA PlaceOfIndex ==
  ASSUME SpscAssumption, NEW p \in Nat, NEW i \in Nat
  PROVE  ((p % Mod) + i) % Size = (p + i) % Size
<1>1. PICK m \in Nat \ {0} : m = Size
  BY DEF SpscAssumption
<1>2. PICK mod \in Nat \ {0} : mod = Mod
  <2>1. Size \in Nat \ {0} /\ Mod \in Nat /\ Mod > Size
    BY Zenon DEF SpscAssumption
  <2>2. Mod \in Nat \ {0}
    BY <2>1
  <2> QED BY <2>2, Zenon
<1>3. mod % m = 0
  BY <1>1, <1>2, Zenon DEF SpscAssumption
<1>4. mod % m \in 0 .. m - 1 /\ mod \div m \in Int /\ mod = (m * (mod \div m)) + (mod % m)
  BY DivMod
<1>5. PICK k \in Int : k = mod \div m
  BY <1>4
<1>6. mod = m * k
  BY <1>4, <1>5, <1>3
<1>7. p % mod \in 0 .. mod - 1 /\ p \div mod \in Int /\ p = (mod * (p \div mod)) + (p % mod)
  BY DivMod
<1>8. PICK e \in Int : e = p \div mod
  BY <1>7
<1>9. PICK s \in 0 .. mod - 1 : s = p % mod
  BY <1>7
<1>10. p = (mod * e) + s
  BY <1>7, <1>8, <1>9
<1>11. PICK f \in Int : f = k * e
  OBVIOUS
<1>12. PICK t \in Int : t = s + i
  OBVIOUS
<1>13. p + i = (m * f) + t
  BY <1>6, <1>10, <1>11, <1>12
<1>14. (p + i) % m = t % m
  <2>1. ((m * f) + t) % m = t % m
    BY ShiftMod
  <2> QED BY <1>13, <2>1, Zenon
<1> QED BY <1>1, <1>2, <1>9, <1>12, <1>14

-----------------------------------------------------------------------------
\* The positions in the stream of bytes: where the producer's index stands, how
\* many bytes beyond it are copied, and where the consumer's call began.
StoredBytes == Len(pushed) - Unstored
Copied == IF push.on /\ ~push.stored THEN push.n ELSE 0
TakenBytes == IF pop.stored THEN popped - pop.len ELSE popped

SpscTypes ==
  /\ pushed \in Seq(Bytes)
  /\ popped \in Nat
  /\ head \in Nat /\ tail \in Nat
  /\ buffer \in [Places -> Bytes]
  /\ push \in [on : BOOLEAN, data : Seq(Bytes), at : Nat, n : Nat, stored : BOOLEAN]
  /\ pop \in [on : BOOLEAN, data : Seq(Bytes), at : Nat, len : Nat, stored : BOOLEAN]

\* The indices are the positions, and these are at most Size apart.
Positions ==
  /\ head = popped % Mod
  /\ tail = StoredBytes % Mod
  /\ popped <= StoredBytes /\ StoredBytes <= Len(pushed) /\ Len(pushed) <= popped + Size

Producer ==
  /\ push.n <= Len(push.data)
  /\ push.stored => push.on /\ push.n = Len(push.data)
  /\ ~push.on => push = NotPushing
  /\ push.on /\ ~push.stored =>
       /\ push.at = tail
       /\ \A i \in 1 .. Len(push.data) : push.data[i] = pushed[StoredBytes + i]

Consumer ==
  /\ Len(pop.data) <= pop.len
  /\ pop.stored => pop.on /\ Len(pop.data) = pop.len /\ pop.len <= popped
  /\ ~pop.on => pop = NotPopping
  /\ pop.on /\ ~pop.stored => pop.at = head /\ popped + pop.len <= StoredBytes
  /\ \A i \in 1 .. Len(pop.data) : pop.data[i] = pushed[TakenBytes + i]

\* What is not released yet and copied is in its place.
Contents ==
  \A p \in Nat : popped <= p /\ p < StoredBytes + Copied => buffer[p % Size] = pushed[p + 1]

RingInv == SpscTypes /\ Positions /\ Producer /\ Consumer /\ Contents

\* data_len counts the bytes between the two positions.
LEMMA UsedIsDistance ==
  ASSUME SpscAssumption, SpscTypes, Positions
  PROVE  Used(tail, head) = StoredBytes - popped /\ StoredBytes - popped \in 0 .. Size
<1>1. StoredBytes \in Int /\ Unstored \in Nat
  BY DEF StoredBytes, Unstored, SpscTypes
<1>2. StoredBytes - popped \in 0 .. Size
  <2>1. Size \in Nat /\ popped \in Nat /\ Len(pushed) \in Nat
    BY DEF SpscTypes, SpscAssumption
  <2>2. popped <= StoredBytes /\ StoredBytes <= Len(pushed) /\ Len(pushed) <= popped + Size
    BY DEF Positions
  <2> QED BY <1>1, <2>1, <2>2
<1>3. PICK d \in 0 .. Size : d = StoredBytes - popped
  BY <1>2
<1>4. StoredBytes = popped + d /\ popped \in Nat
  BY <1>1, <1>3 DEF SpscTypes
<1>5. Mod \in Nat \ {0} /\ d \in 0 .. Mod - 1
  BY DEF SpscAssumption
<1>6. (((popped + d) % Mod) + (Mod - (popped % Mod))) % Mod = d
  BY <1>4, <1>5, Distance
<1>7. Used(tail, head) = d
  <2>1. tail = (popped + d) % Mod /\ head = popped % Mod
    BY <1>4 DEF Positions
  <2> QED BY <1>6, <2>1, Zenon DEF Used
<1> QED BY <1>2, <1>3, <1>7

\* What the consumer has is a piece of the stream.
LEMMA TakenInStream ==
  ASSUME RingInv
  PROVE  /\ TakenBytes \in Nat /\ Len(pop.data) \in Nat
         /\ TakenBytes + Len(pop.data) <= Len(pushed)
<1>1. /\ Len(pop.data) \in Nat /\ pop.len \in Nat /\ popped \in Nat
      /\ Len(pushed) \in Nat /\ Unstored \in Nat
  BY DEF RingInv, SpscTypes, Unstored
<1>2. StoredBytes \in Int
  BY <1>1 DEF StoredBytes
<1>3. /\ Len(pop.data) <= pop.len /\ popped <= StoredBytes /\ StoredBytes <= Len(pushed)
      /\ pop.stored => pop.len <= popped /\ Len(pop.data) = pop.len
      /\ pop.on /\ ~pop.stored => popped + pop.len <= StoredBytes
      /\ ~pop.on => pop = NotPopping
  BY DEF RingInv, Positions, Consumer
<1>4. CASE pop.stored
  BY <1>1, <1>2, <1>3, <1>4 DEF TakenBytes
<1>5. CASE pop.on /\ ~pop.stored
  BY <1>1, <1>2, <1>3, <1>5 DEF TakenBytes
<1>6. CASE ~pop.on
  <2>1. Len(pop.data) = 0 /\ ~pop.stored
    BY <1>3, <1>6 DEF NotPopping
  <2> QED BY <1>1, <1>2, <1>3, <2>1 DEF TakenBytes
<1> QED BY <1>4, <1>5, <1>6

LEMMA InitRingInv ==
  ASSUME SpscAssumption, SpscCreate
  PROVE  RingInv
<1>1. 0 % Mod = 0
  BY Small DEF SpscAssumption
<1>2. Unstored = 0 /\ StoredBytes = 0 /\ Copied = 0 /\ TakenBytes = 0 /\ Len(pushed) = 0
  BY DEF SpscCreate, Unstored, StoredBytes, Copied, TakenBytes, NotPushing, NotPopping
<1>3. SpscTypes
  BY DEF SpscCreate, SpscTypes, NotPushing, NotPopping, Bytes
<1>4. Positions
  BY <1>1, <1>2 DEF SpscCreate, Positions, SpscAssumption
<1>5. Producer
  BY DEF SpscCreate, Producer, NotPushing
<1>6. Consumer
  BY DEF SpscCreate, Consumer, NotPopping
<1>7. Contents
  BY <1>2 DEF SpscCreate, Contents
<1> QED BY <1>3, <1>4, <1>5, <1>6, <1>7 DEF RingInv

\* A call of the producer begins: what it will copy is accepted, and there is room.
LEMMA PushStartsInv ==
  ASSUME SpscAssumption, RingInv, NEW data \in Seq(Bytes), PushStarts(data)
  PROVE  RingInv'
<1>1. Used(tail, head) = StoredBytes - popped /\ StoredBytes - popped \in 0 .. Size
  BY UsedIsDistance DEF RingInv
<1>2. Unstored = 0 /\ Copied = 0 /\ StoredBytes = Len(pushed)
  BY DEF PushStarts, Unstored, Copied, StoredBytes, RingInv, SpscTypes
<1>3. Unstored' = Len(data) /\ Copied' = 0
  BY DEF PushStarts, Unstored, Copied
<1>4. /\ pushed' \in Seq(Bytes) /\ Len(pushed') = Len(pushed) + Len(data)
      /\ \A i \in 1 .. Len(pushed) : pushed'[i] = pushed[i]
      /\ \A i \in 1 .. Len(data) : pushed'[Len(pushed) + i] = data[i]
  <2>1. pushed' = pushed \o data /\ pushed \in Seq(Bytes)
    BY DEF PushStarts, RingInv, SpscTypes
  <2> QED BY <2>1, ConcatProperties
<1>5. StoredBytes' = Len(pushed) /\ StoredBytes' = StoredBytes
  BY <1>2, <1>3, <1>4 DEF StoredBytes, RingInv, SpscTypes
<1>6. Len(data) <= Size - (StoredBytes - popped)
  BY <1>1 DEF PushStarts, RoomFor
<1>7. SpscTypes'
  BY <1>4 DEF PushStarts, RingInv, SpscTypes
<1>8. Positions'
  <2>1. Len(pushed') <= popped + Size
    <3>1. Len(pushed) \in Nat /\ Len(data) \in Nat /\ popped \in Nat /\ Size \in Nat
      BY DEF RingInv, SpscTypes, SpscAssumption
    <3>2. Len(data) <= Size - (Len(pushed) - popped)
      BY <1>2, <1>6
    <3> QED BY <1>4, <3>1, <3>2
  <2> QED BY <2>1, <1>1, <1>2, <1>4, <1>5 DEF PushStarts, Positions, RingInv, SpscTypes
<1>9. Producer'
  <2>1. push' = [on |-> TRUE, data |-> data, at |-> tail, n |-> 0, stored |-> FALSE] /\ tail' = tail
    BY DEF PushStarts
  <2>2. \A i \in 1 .. Len(data) : data[i] = pushed'[StoredBytes' + i]
    BY <1>4, <1>5
  <2> QED BY <2>1, <2>2 DEF Producer
<1>10. Consumer'
  <2>1. \A i \in 1 .. Len(pop.data) : TakenBytes + i \in 1 .. Len(pushed)
    BY TakenInStream DEF RingInv, SpscTypes
  <2>2. TakenBytes' = TakenBytes
    BY DEF PushStarts, TakenBytes
  <2> QED BY <1>2, <1>4, <1>5, <2>1, <2>2 DEF PushStarts, Consumer, RingInv, SpscTypes
<1>11. Contents'
  <2>1. \A p \in Nat : popped <= p /\ p < StoredBytes => pushed'[p + 1] = pushed[p + 1]
    BY <1>2, <1>4 DEF RingInv, SpscTypes
  <2> QED BY <1>2, <1>3, <1>5, <2>1 DEF PushStarts, Contents, RingInv
<1> QED BY <1>7, <1>8, <1>9, <1>10, <1>11 DEF RingInv

\* A byte is copied beyond the producer's position: its place is no one's that is
\* not released.
LEMMA PushCopiesInv ==
  ASSUME SpscAssumption, RingInv, PushCopies
  PROVE  RingInv'
<1>1. push.on /\ ~push.stored /\ push.n < Len(push.data)
  BY DEF PushCopies, RingInv, Producer
<1>2. /\ push.n \in Nat /\ Len(push.data) \in Nat /\ Len(pushed) \in Nat
      /\ StoredBytes \in Nat /\ popped \in Nat
  BY DEF RingInv, SpscTypes, Positions, StoredBytes, Unstored
<1>3. StoredBytes + Len(push.data) = Len(pushed)
  BY <1>1, <1>2 DEF StoredBytes, Unstored
<1>4. Copied = push.n /\ Copied' = push.n + 1 /\ StoredBytes' = StoredBytes /\ TakenBytes' = TakenBytes
  BY <1>1, <1>2 DEF PushCopies, Copied, StoredBytes, Unstored, TakenBytes, RingInv, SpscTypes
<1>5. Place(push.at + push.n) = (StoredBytes + push.n) % Size
  <2>2. push.at = StoredBytes % Mod
    BY <1>1 DEF RingInv, Producer, Positions
  <2>3. ((StoredBytes % Mod) + push.n) % Size = (StoredBytes + push.n) % Size
    BY <1>2, PlaceOfIndex
  <2> QED BY <2>2, <2>3 DEF Place
<1>6. push.data[push.n + 1] = pushed[StoredBytes + push.n + 1] /\ push.data[push.n + 1] \in Bytes
  <2>1. push.n + 1 \in 1 .. Len(push.data) /\ push.data \in Seq(Bytes)
    BY <1>1, <1>2 DEF RingInv, SpscTypes
  <2>2. push.data[push.n + 1] = pushed[StoredBytes + (push.n + 1)]
    BY <1>1, <2>1 DEF RingInv, Producer
  <2>3. StoredBytes + (push.n + 1) = StoredBytes + push.n + 1
    BY <1>2
  <2> QED BY <2>1, <2>2, <2>3
<1>7. (StoredBytes + push.n) % Size \in Places
  <2>1. StoredBytes + push.n \in Nat /\ Size \in Nat \ {0}
    BY <1>2 DEF SpscAssumption
  <2> QED BY <2>1, InRange DEF Places
<1>8. SpscTypes'
  <2>1. buffer' \in [Places -> Bytes]
    BY <1>5, <1>6, <1>7 DEF PushCopies, RingInv, SpscTypes
  <2>2. push' = [push EXCEPT !.n = push.n + 1] /\ push.n + 1 \in Nat
    BY <1>2 DEF PushCopies
  <2>3. push' \in [on : BOOLEAN, data : Seq(Bytes), at : Nat, n : Nat, stored : BOOLEAN]
    BY <2>2 DEF RingInv, SpscTypes
  <2> QED BY <2>1, <2>3 DEF PushCopies, RingInv, SpscTypes
<1>9. Positions'
  BY <1>4 DEF PushCopies, RingInv, Positions
<1>10. Producer'
  BY <1>1, <1>2, <1>4 DEF PushCopies, RingInv, Producer, SpscTypes
<1>11. Consumer'
  BY <1>4 DEF PushCopies, RingInv, Consumer
<1>12. Contents'
  <2> SUFFICES ASSUME NEW p \in Nat, popped <= p, p < StoredBytes + push.n + 1
               PROVE  buffer'[p % Size] = pushed[p + 1]
    <3>1. popped' = popped /\ pushed' = pushed
      BY DEF PushCopies
    <3>2. StoredBytes' + Copied' = StoredBytes + push.n + 1
      BY <1>2, <1>4
    <3> QED BY <3>1, <3>2 DEF Contents
  <2>1. p % Size \in Places
    BY InRange DEF SpscAssumption, Places
  <2>2. CASE p = StoredBytes + push.n
    BY <1>2, <1>5, <1>6, <1>7, <2>2 DEF PushCopies, RingInv, SpscTypes
  <2>3. CASE p < StoredBytes + push.n
    <3>1. p % Size # (StoredBytes + push.n) % Size
      <4>1. StoredBytes + push.n < p + Size /\ StoredBytes + push.n \in Nat /\ p <= StoredBytes + push.n
        <5>1. Len(pushed) <= popped + Size /\ Size \in Nat
          BY DEF RingInv, Positions, SpscAssumption
        <5>2. PICK stored \in Nat, all \in Nat, data \in Nat :
                stored = StoredBytes /\ all = Len(pushed) /\ data = Len(push.data)
          BY <1>2
        <5>3. stored + push.n < all /\ stored + push.n \in Nat
          BY <1>1, <1>2, <1>3, <5>2
        <5>4. all <= p + Size /\ p <= stored + push.n
          BY <1>2, <2>3, <5>1, <5>2
        <5> QED BY <5>1, <5>2, <5>3, <5>4
      <4> QED BY <4>1, <2>3, Apart DEF SpscAssumption
    <3>2. buffer[p % Size] = pushed[p + 1]
      BY <1>4, <2>3 DEF RingInv, Contents
    <3>3. buffer'[p % Size] = buffer[p % Size]
      BY <1>5, <1>6, <2>1, <3>1 DEF PushCopies, RingInv, SpscTypes
    <3> QED BY <3>2, <3>3
  <2>4. StoredBytes + push.n \in Nat
    BY <1>2 DEF SpscAssumption
  <2> QED BY <2>2, <2>3, <2>4
<1> QED BY <1>8, <1>9, <1>10, <1>11, <1>12 DEF RingInv

\* The producer's index moves behind what is copied.
LEMMA PushStoresInv ==
  ASSUME SpscAssumption, BARRIER, RingInv, PushStores
  PROVE  RingInv'
<1>1. push.on /\ ~push.stored /\ push.n = Len(push.data)
  BY DEF PushStores, MayStore
<1>2. /\ push.n \in Nat /\ Len(push.data) \in Nat /\ Len(pushed) \in Nat
      /\ StoredBytes \in Nat /\ popped \in Nat
  BY DEF RingInv, SpscTypes, Positions, StoredBytes, Unstored
<1>3. StoredBytes + Len(push.data) = Len(pushed) /\ Copied = Len(push.data)
  BY <1>1, <1>2 DEF StoredBytes, Unstored, Copied
<1>4. StoredBytes' = Len(pushed) /\ Copied' = 0 /\ TakenBytes' = TakenBytes
  BY <1>1, <1>2 DEF PushStores, StoredBytes, Unstored, Copied, TakenBytes, RingInv, SpscTypes
<1>5. tail' = Len(pushed) % Mod
  <2>1. push.at = StoredBytes % Mod /\ Mod \in Nat \ {0}
    BY <1>1 DEF RingInv, Producer, Positions, SpscAssumption
  <2>2. ((StoredBytes % Mod) + Len(push.data)) % Mod = (StoredBytes + Len(push.data)) % Mod
    BY <1>2, <2>1, ModPlus
  <2> QED BY <1>3, <2>1, <2>2 DEF PushStores
<1>6. tail' \in Nat
  BY <1>2, <1>5, InRange DEF SpscAssumption
<1>7. SpscTypes'
  BY <1>6 DEF PushStores, RingInv, SpscTypes
<1>8. Positions'
  BY <1>2, <1>3, <1>4, <1>5 DEF PushStores, RingInv, Positions
<1>9. Producer'
  BY <1>1 DEF PushStores, RingInv, Producer, SpscTypes
<1>10. Consumer'
  <2>1. pop' = pop /\ pushed' = pushed /\ popped' = popped /\ head' = head
    BY DEF PushStores
  <2>2. pop.len \in Nat
    BY DEF RingInv, SpscTypes
  <2>3. popped + pop.len <= StoredBytes => popped + pop.len <= StoredBytes'
    BY <1>2, <1>3, <1>4, <2>2
  <2> QED BY <1>4, <2>1, <2>3 DEF RingInv, Consumer
<1>11. Contents'
  BY <1>2, <1>3, <1>4 DEF PushStores, RingInv, Contents
<1> QED BY <1>7, <1>8, <1>9, <1>10, <1>11 DEF RingInv

LEMMA PushReturnsInv ==
  ASSUME SpscAssumption, RingInv, PushReturns
  PROVE  RingInv'
<1>1. Unstored' = Unstored /\ StoredBytes' = StoredBytes /\ Copied' = Copied /\ TakenBytes' = TakenBytes
  BY DEF PushReturns, Unstored, StoredBytes, Copied, TakenBytes, NotPushing
<1>2. SpscTypes'
  BY DEF PushReturns, RingInv, SpscTypes, NotPushing
<1>3. Producer'
  BY DEF PushReturns, Producer, NotPushing
<1> QED BY <1>1, <1>2, <1>3 DEF PushReturns, RingInv, Positions, Consumer, Contents

\* A call of the consumer begins: it takes no more than is there.
LEMMA PopStartsInv ==
  ASSUME SpscAssumption, RingInv, NEW len \in Nat, PopStarts(len)
  PROVE  RingInv'
<1>1. Used(tail, head) = StoredBytes - popped /\ StoredBytes - popped \in 0 .. Size
  BY UsedIsDistance DEF RingInv
<1>2. StoredBytes' = StoredBytes /\ Copied' = Copied
  BY DEF PopStarts, StoredBytes, Copied, Unstored
<1>3. pop'.len \in Nat /\ pop'.len <= StoredBytes - popped
  BY <1>1 DEF PopStarts, spsc_queue_min, SpscAssumption
<1>4. SpscTypes'
  BY <1>3 DEF PopStarts, RingInv, SpscTypes
<1>5. Consumer'
  <2>1. popped + pop'.len <= StoredBytes
    <3>1. popped \in Nat /\ Len(pushed) \in Nat /\ Unstored \in Nat
      BY DEF RingInv, SpscTypes, Unstored
    <3>2. StoredBytes \in Int
      BY <3>1 DEF StoredBytes
    <3> QED BY <1>3, <3>1, <3>2
  <2> QED BY <1>2, <1>3, <2>1 DEF PopStarts, Consumer
<1> QED BY <1>2, <1>4, <1>5 DEF PopStarts, RingInv, Positions, Producer, Contents

\* A byte is copied that is not released.
LEMMA PopCopiesInv ==
  ASSUME SpscAssumption, RingInv, PopCopies
  PROVE  RingInv'
<1>1. pop.on /\ ~pop.stored /\ Len(pop.data) < pop.len
  BY DEF PopCopies, RingInv, Consumer
<1>2. /\ Len(pop.data) \in Nat /\ pop.len \in Nat /\ StoredBytes \in Nat /\ Copied \in Nat
      /\ popped \in Nat /\ pop.data \in Seq(Bytes)
  BY DEF RingInv, SpscTypes, Positions, StoredBytes, Unstored, Copied
<1>3. StoredBytes' = StoredBytes /\ Copied' = Copied /\ TakenBytes' = popped /\ TakenBytes = popped
  BY <1>1 DEF PopCopies, StoredBytes, Copied, Unstored, TakenBytes, RingInv, SpscTypes
<1>4. PICK k \in Nat : k = Len(pop.data)
  BY <1>2
<1>5. Place(pop.at + k) = (popped + k) % Size
  <2>2. pop.at = popped % Mod
    BY <1>1 DEF RingInv, Consumer, Positions
  <2>3. ((popped % Mod) + k) % Size = (popped + k) % Size
    BY <1>2, PlaceOfIndex
  <2> QED BY <2>2, <2>3 DEF Place
<1>6. (popped + k) % Size \in Places
  <2>1. popped + k \in Nat /\ Size \in Nat \ {0}
    BY <1>2 DEF SpscAssumption
  <2> QED BY <2>1, InRange DEF Places
<1>7. PICK b \in Bytes : b = buffer[(popped + k) % Size]
  BY <1>6 DEF RingInv, SpscTypes
<1>8. b = pushed[popped + k + 1]
  <2>1. popped + k < StoredBytes + Copied /\ popped + k \in Nat /\ popped <= popped + k
    BY <1>1, <1>2, <1>4 DEF RingInv, Consumer
  <2> QED BY <1>7, <2>1 DEF RingInv, Contents
<1>9. pop' = [pop EXCEPT !.data = Append(pop.data, b)]
  BY <1>4, <1>5, <1>7 DEF PopCopies
<1>10. /\ pop'.data = Append(pop.data, b) /\ pop'.on = pop.on /\ pop'.at = pop.at
       /\ pop'.len = pop.len /\ pop'.stored = pop.stored
  BY <1>9 DEF RingInv, SpscTypes
<1>11. /\ pop'.data \in Seq(Bytes) /\ Len(pop'.data) = k + 1
       /\ \A i \in 1 .. k : pop'.data[i] = pop.data[i]
       /\ pop'.data[k + 1] = b
  BY <1>2, <1>4, <1>10, AppendProperties
<1>12. SpscTypes'
  BY <1>9, <1>10, <1>11 DEF PopCopies, RingInv, SpscTypes
<1>13. Consumer'
  <2>1. ASSUME NEW i \in 1 .. k + 1
        PROVE  pop'.data[i] = pushed[popped + i]
    <3>1. CASE i = k + 1
      BY <1>2, <1>8, <1>11, <3>1
    <3>2. CASE i \in 1 .. k
      BY <1>3, <1>4, <1>11, <3>2 DEF RingInv, Consumer
    <3> QED BY <3>1, <3>2
  <2>2. pushed' = pushed /\ popped' = popped /\ head' = head
    BY DEF PopCopies
  <2> QED BY <1>1, <1>2, <1>3, <1>4, <1>10, <1>11, <2>1, <2>2 DEF Consumer, RingInv
<1> QED BY <1>3, <1>12, <1>13 DEF PopCopies, RingInv, Positions, Producer, Contents

\* The consumer's index moves behind what is read.
LEMMA PopStoresInv ==
  ASSUME SpscAssumption, BARRIER, RingInv, PopStores
  PROVE  RingInv'
<1>1. pop.on /\ ~pop.stored /\ Len(pop.data) = pop.len
  BY DEF PopStores, MayStore
<1>2. /\ pop.len \in Nat /\ Len(pushed) \in Nat /\ StoredBytes \in Nat /\ popped \in Nat
  BY DEF RingInv, SpscTypes, Positions, StoredBytes, Unstored
<1>3. popped' = popped + pop.len /\ popped + pop.len <= StoredBytes
  BY <1>1 DEF PopStores, RingInv, Consumer
<1>4. StoredBytes' = StoredBytes /\ Copied' = Copied /\ TakenBytes' = popped /\ TakenBytes = popped
  BY <1>1, <1>2, <1>3 DEF PopStores, StoredBytes, Copied, Unstored, TakenBytes, RingInv, SpscTypes
<1>5. head' = (popped + pop.len) % Mod
  <2>1. pop.at = popped % Mod /\ Mod \in Nat \ {0}
    BY <1>1 DEF RingInv, Consumer, Positions, SpscAssumption
  <2>2. ((popped % Mod) + pop.len) % Mod = (popped + pop.len) % Mod
    BY <1>2, <2>1, ModPlus
  <2> QED BY <2>1, <2>2 DEF PopStores
<1>6. head' \in Nat
  <2>1. popped + pop.len \in Nat /\ Mod \in Nat \ {0}
    BY <1>2 DEF SpscAssumption
  <2> QED BY <1>5, <2>1, InRange
<1>7. SpscTypes'
  <2>1. pop' = [pop EXCEPT !.stored = TRUE] /\ popped' \in Nat
    BY <1>2, <1>3 DEF PopStores
  <2>2. pop' \in [on : BOOLEAN, data : Seq(Bytes), at : Nat, len : Nat, stored : BOOLEAN]
    BY <2>1 DEF RingInv, SpscTypes
  <2> QED BY <1>6, <2>1, <2>2 DEF PopStores, RingInv, SpscTypes
<1>8. Positions'
  BY <1>2, <1>3, <1>4, <1>5 DEF PopStores, RingInv, Positions, SpscAssumption
<1>9. Producer'
  BY <1>4 DEF PopStores, RingInv, Producer
<1>10. Consumer'
  BY <1>1, <1>2, <1>3, <1>4 DEF PopStores, RingInv, Consumer, SpscTypes
<1>11. Contents'
  BY <1>2, <1>3, <1>4 DEF PopStores, RingInv, Contents
<1> QED BY <1>7, <1>8, <1>9, <1>10, <1>11 DEF RingInv

LEMMA PopReturnsInv ==
  ASSUME SpscAssumption, RingInv, PopReturns
  PROVE  RingInv'
<1>1. StoredBytes' = StoredBytes /\ Copied' = Copied
  BY DEF PopReturns, StoredBytes, Copied, Unstored
<1>2. SpscTypes'
  BY DEF PopReturns, RingInv, SpscTypes, NotPopping
<1>3. Consumer'
  BY DEF PopReturns, Consumer, NotPopping
<1> QED BY <1>1, <1>2, <1>3 DEF PopReturns, RingInv, Positions, Producer, Contents

LEMMA RingInvHolds ==
  ASSUME SpscAssumption, BARRIER
  PROVE  SpscSpec => []RingInv
<1>1. SpscCreate => RingInv
  BY InitRingInv
<1>2. RingInv /\ [SpscNext]_spsc_vars => RingInv'
  <2> SUFFICES ASSUME RingInv, [SpscNext]_spsc_vars
               PROVE  RingInv'
    OBVIOUS
  <2>1. CASE UNCHANGED spsc_vars
    BY <2>1 DEF spsc_vars, RingInv, SpscTypes, Positions, Producer, Consumer, Contents,
                StoredBytes, Copied, TakenBytes, Unstored
  <2>2. ASSUME NEW data \in Seq(Bytes) \ {<<>>}, PushStarts(data) PROVE RingInv'
    BY <2>2, PushStartsInv
  <2>3. ASSUME NEW data \in Seq(Bytes) \ {<<>>}, PushFails(data) PROVE RingInv'
    BY <2>1, <2>3 DEF PushFails
  <2>4. ASSUME NEW len \in Nat \ {0}, PopStarts(len) PROVE RingInv'
    BY <2>4, PopStartsInv
  <2> QED BY <2>1, <2>2, <2>3, <2>4, PushCopiesInv, PushStoresInv, PushReturnsInv,
             PopCopiesInv, PopStoresInv, PopReturnsInv DEF SpscNext
<1> QED BY <1>1, <1>2, PTL DEF SpscSpec

-----------------------------------------------------------------------------
\* What is left of the invariant if the index may be stored before the copy: all
\* that it says of the indices.
Indices ==
  /\ push.stored => push.on
  /\ push.on /\ ~push.stored => push.at = tail
  /\ pop.stored => pop.on
  /\ pop.on /\ ~pop.stored => pop.at = head /\ popped + pop.len <= StoredBytes

IndexInv == SpscTypes /\ Positions /\ Indices

\* The numbers in it, and what a store makes of an index
LEMMA IndexTypes ==
  ASSUME SpscAssumption, IndexInv
  PROVE  /\ Size \in Nat \ {0} /\ Mod \in Nat \ {0} /\ StoredBytes \in Nat /\ popped \in Nat
         /\ pop.len \in Nat /\ Len(push.data) \in Nat /\ Len(pushed) \in Nat
         /\ popped <= StoredBytes /\ StoredBytes <= Len(pushed) /\ Len(pushed) <= popped + Size
<1>1. /\ popped \in Nat /\ pop.len \in Nat /\ Len(push.data) \in Nat /\ Len(pushed) \in Nat
      /\ Unstored \in Nat
  BY DEF IndexInv, SpscTypes, Unstored
<1>2. popped <= StoredBytes /\ StoredBytes <= Len(pushed) /\ Len(pushed) <= popped + Size
  BY DEF IndexInv, Positions
<1>3. StoredBytes \in Int
  BY <1>1 DEF StoredBytes
<1>4. Size \in Nat \ {0} /\ Mod \in Nat \ {0}
  BY DEF SpscAssumption
<1> QED BY <1>1, <1>2, <1>3, <1>4

LEMMA PushKeepsIndices ==
  ASSUME SpscAssumption, IndexInv,
         (\E data \in Seq(Bytes) : PushStarts(data)) \/ PushCopies \/ PushStores \/ PushReturns
  PROVE  IndexInv'
<1>1. ASSUME NEW data \in Seq(Bytes), PushStarts(data) PROVE IndexInv'
  <2>1. Used(tail, head) = StoredBytes - popped
    BY UsedIsDistance DEF IndexInv
  <2>2. Unstored = 0 /\ Unstored' = Len(data) /\ StoredBytes = Len(pushed)
    BY <1>1 DEF PushStarts, Unstored, StoredBytes, IndexInv, SpscTypes
  <2>3. pushed' \in Seq(Bytes) /\ Len(pushed') = Len(pushed) + Len(data)
    <3>1. pushed' = pushed \o data /\ pushed \in Seq(Bytes)
      BY <1>1 DEF PushStarts, IndexInv, SpscTypes
    <3> QED BY <3>1, ConcatProperties
  <2>4. PICK n \in Nat, l \in Nat : n = Len(pushed) /\ l = Len(data)
    BY IndexTypes
  <2>5. StoredBytes' = StoredBytes /\ popped' = popped
    BY <1>1, <2>2, <2>3, <2>4 DEF StoredBytes, PushStarts
  <2>6. l <= Size - (n - popped)
    BY <1>1, <2>1, <2>2, <2>4 DEF PushStarts, RoomFor
  <2>7. Positions'
    <3>1. popped <= n /\ n <= n + l /\ n + l <= popped + Size
      BY <2>2, <2>4, <2>6, IndexTypes
    <3>2. head' = popped' % Mod /\ tail' = StoredBytes' % Mod
      BY <1>1, <2>5 DEF PushStarts, IndexInv, Positions
    <3> QED BY <2>2, <2>3, <2>4, <2>5, <3>1, <3>2 DEF Positions
  <2>8. SpscTypes'
    BY <1>1, <2>3 DEF PushStarts, IndexInv, SpscTypes
  <2>9. Indices'
    BY <1>1, <2>5 DEF PushStarts, IndexInv, Indices
  <2> QED BY <2>7, <2>8, <2>9 DEF IndexInv
<1>2. CASE PushCopies
  <2>1. push.on /\ push.n < Len(push.data) /\ push.n \in Nat /\ push.at \in Nat
        /\ push.data \in Seq(Bytes)
    BY <1>2 DEF PushCopies, IndexInv, SpscTypes
  <2>2. push.data[push.n + 1] \in Bytes
    BY <2>1
  <2>3. buffer' \in [Places -> Bytes]
    BY <1>2, <2>2 DEF PushCopies, IndexInv, SpscTypes
  <2>4. push' = [push EXCEPT !.n = push.n + 1] /\ push.n + 1 \in Nat
    BY <1>2, <2>1 DEF PushCopies
  <2>5. /\ push' \in [on : BOOLEAN, data : Seq(Bytes), at : Nat, n : Nat, stored : BOOLEAN]
        /\ push'.on = push.on /\ push'.stored = push.stored /\ push'.at = push.at
        /\ push'.data = push.data
    BY <2>4 DEF IndexInv, SpscTypes
  <2>6. StoredBytes' = StoredBytes
    BY <1>2, <2>5 DEF PushCopies, StoredBytes, Unstored
  <2>7. SpscTypes'
    BY <1>2, <2>3, <2>5 DEF PushCopies, IndexInv, SpscTypes
  <2> QED BY <1>2, <2>5, <2>6, <2>7 DEF PushCopies, IndexInv, Positions, Indices
<1>3. CASE PushStores
  <2>1. push.on /\ ~push.stored /\ tail' = (push.at + Len(push.data)) % Mod
    BY <1>3 DEF PushStores
  <2>2. StoredBytes + Len(push.data) = Len(pushed) /\ StoredBytes' = Len(pushed)
    BY <1>3, <2>1, IndexTypes DEF PushStores, StoredBytes, Unstored, IndexInv, SpscTypes
  <2>3. tail' = Len(pushed) % Mod
    <3>1. push.at = StoredBytes % Mod
      BY <2>1 DEF IndexInv, Indices, Positions
    <3>2. ((StoredBytes % Mod) + Len(push.data)) % Mod = (StoredBytes + Len(push.data)) % Mod
      BY IndexTypes, ModPlus
    <3> QED BY <2>1, <2>2, <3>1, <3>2
  <2>4. tail' \in Nat
    BY <2>3, IndexTypes, InRange
  <2>5. SpscTypes'
    BY <1>3, <2>4 DEF PushStores, IndexInv, SpscTypes
  <2>6. Positions'
    <3>1. popped <= Len(pushed) /\ Len(pushed) <= popped + Size
      BY IndexTypes
    <3>2. head' = popped' % Mod /\ popped' = popped /\ pushed' = pushed
      BY <1>3 DEF PushStores, IndexInv, Positions
    <3> QED BY <2>2, <2>3, <3>1, <3>2, IndexTypes DEF Positions
  <2>7. Indices'
    <3>1. popped + pop.len <= StoredBytes => popped + pop.len <= StoredBytes'
      BY <2>2, IndexTypes
    <3> QED BY <1>3, <2>1, <3>1 DEF PushStores, IndexInv, Indices, SpscTypes
  <2> QED BY <2>5, <2>6, <2>7 DEF IndexInv
<1>4. CASE PushReturns
  <2>1. StoredBytes' = StoredBytes
    BY <1>4 DEF PushReturns, StoredBytes, Unstored, NotPushing
  <2>2. SpscTypes'
    BY <1>4 DEF PushReturns, IndexInv, SpscTypes, NotPushing
  <2>3. Indices'
    BY <1>4, <2>1 DEF PushReturns, IndexInv, Indices, NotPushing
  <2> QED BY <1>4, <2>1, <2>2, <2>3 DEF PushReturns, IndexInv, Positions
<1> QED BY <1>1, <1>2, <1>3, <1>4

LEMMA PopKeepsIndices ==
  ASSUME SpscAssumption, IndexInv,
         (\E len \in Nat : PopStarts(len)) \/ PopCopies \/ PopStores \/ PopReturns
  PROVE  IndexInv'
<1>1. ASSUME NEW len \in Nat, PopStarts(len) PROVE IndexInv'
  <2>1. Used(tail, head) = StoredBytes - popped
    BY UsedIsDistance DEF IndexInv
  <2>2. StoredBytes' = StoredBytes /\ popped' = popped
    BY <1>1 DEF PopStarts, StoredBytes, Unstored
  <2>3. pop'.len \in Nat /\ pop'.len <= StoredBytes - popped
    BY <1>1, <2>1, IndexTypes DEF PopStarts, spsc_queue_min
  <2>4. popped + pop'.len <= StoredBytes
    BY <2>3, IndexTypes
  <2>5. SpscTypes'
    BY <1>1, <2>3 DEF PopStarts, IndexInv, SpscTypes
  <2>6. Indices'
    BY <1>1, <2>2, <2>4 DEF PopStarts, IndexInv, Indices
  <2> QED BY <1>1, <2>2, <2>5, <2>6 DEF PopStarts, IndexInv, Positions
<1>2. CASE PopCopies
  <2>1. pop.on /\ pop.data \in Seq(Bytes) /\ pop.at \in Nat /\ Len(pop.data) \in Nat
    BY <1>2 DEF PopCopies, IndexInv, SpscTypes
  <2>2. PICK k \in Nat : k = pop.at + Len(pop.data)
    BY <2>1
  <2>3. PICK b \in Bytes : b = buffer[Place(k)]
    <3>1. k % Size \in Places
      BY <2>2, IndexTypes, InRange DEF Places
    <3> QED BY <3>1 DEF Place, IndexInv, SpscTypes
  <2>4. pop' = [pop EXCEPT !.data = Append(pop.data, b)] /\ Append(pop.data, b) \in Seq(Bytes)
    BY <1>2, <2>1, <2>2, <2>3 DEF PopCopies
  <2>5. /\ pop' \in [on : BOOLEAN, data : Seq(Bytes), at : Nat, len : Nat, stored : BOOLEAN]
        /\ pop'.on = pop.on /\ pop'.stored = pop.stored /\ pop'.at = pop.at /\ pop'.len = pop.len
    BY <2>4 DEF IndexInv, SpscTypes
  <2>6. StoredBytes' = StoredBytes
    BY <1>2 DEF PopCopies, StoredBytes, Unstored
  <2>7. SpscTypes'
    BY <1>2, <2>5 DEF PopCopies, IndexInv, SpscTypes
  <2> QED BY <1>2, <2>5, <2>6, <2>7 DEF PopCopies, IndexInv, Positions, Indices
<1>3. CASE PopStores
  <2>1. pop.on /\ ~pop.stored /\ popped' = popped + pop.len
    BY <1>3 DEF PopStores
  <2>2. StoredBytes' = StoredBytes /\ popped + pop.len <= StoredBytes
    BY <1>3, <2>1 DEF PopStores, StoredBytes, Unstored, IndexInv, Indices
  <2>3. head' = (popped + pop.len) % Mod
    <3>1. pop.at = popped % Mod
      BY <2>1 DEF IndexInv, Indices, Positions
    <3>2. ((popped % Mod) + pop.len) % Mod = (popped + pop.len) % Mod
      BY IndexTypes, ModPlus
    <3> QED BY <1>3, <3>1, <3>2 DEF PopStores
  <2>4. head' \in Nat /\ popped' \in Nat
    <3>1. popped + pop.len \in Nat
      BY IndexTypes
    <3> QED BY <2>1, <2>3, <3>1, IndexTypes, InRange
  <2>5. SpscTypes'
    BY <1>3, <2>4 DEF PopStores, IndexInv, SpscTypes
  <2>6. Positions'
    <3>1. Len(pushed) <= (popped + pop.len) + Size
      BY IndexTypes
    <3>2. tail' = StoredBytes' % Mod /\ pushed' = pushed
      BY <1>3, <2>2 DEF PopStores, IndexInv, Positions
    <3> QED BY <2>1, <2>2, <2>3, <3>1, <3>2, IndexTypes DEF Positions
  <2>7. Indices'
    BY <1>3, <2>1, <2>2 DEF PopStores, IndexInv, Indices, SpscTypes
  <2> QED BY <2>5, <2>6, <2>7 DEF IndexInv
<1>4. CASE PopReturns
  <2>1. StoredBytes' = StoredBytes
    BY <1>4 DEF PopReturns, StoredBytes, Unstored
  <2>2. SpscTypes'
    BY <1>4 DEF PopReturns, IndexInv, SpscTypes, NotPopping
  <2>3. Indices'
    BY <1>4, <2>1 DEF PopReturns, IndexInv, Indices, NotPopping
  <2> QED BY <1>4, <2>1, <2>2, <2>3 DEF PopReturns, IndexInv, Positions
<1> QED BY <1>1, <1>2, <1>3, <1>4

LEMMA IndexInvHolds ==
  ASSUME SpscAssumption
  PROVE  SpscSpec => []IndexInv
<1>1. SpscCreate => IndexInv
  <2> SUFFICES ASSUME SpscCreate PROVE IndexInv
    OBVIOUS
  <2>1. RingInv
    BY InitRingInv
  <2>2. Indices
    BY DEF SpscCreate, Indices, NotPushing, NotPopping
  <2> QED BY <2>1, <2>2 DEF RingInv, IndexInv
<1>2. IndexInv /\ [SpscNext]_spsc_vars => IndexInv'
  <2> SUFFICES ASSUME IndexInv, [SpscNext]_spsc_vars
               PROVE  IndexInv'
    OBVIOUS
  <2>1. CASE UNCHANGED spsc_vars
    BY <2>1 DEF spsc_vars, IndexInv, SpscTypes, Positions, Indices, StoredBytes, Unstored
  <2>2. ASSUME NEW data \in Seq(Bytes) \ {<<>>}, PushStarts(data) PROVE IndexInv'
    BY <2>2, PushKeepsIndices
  <2>3. ASSUME NEW data \in Seq(Bytes) \ {<<>>}, PushFails(data) PROVE IndexInv'
    BY <2>1, <2>3 DEF PushFails
  <2>4. ASSUME NEW len \in Nat \ {0}, PopStarts(len) PROVE IndexInv'
    BY <2>4, PopKeepsIndices
  <2> QED BY <2>1, <2>2, <2>3, <2>4, PushKeepsIndices, PopKeepsIndices DEF SpscNext
<1> QED BY <1>1, <1>2, PTL DEF SpscSpec

-----------------------------------------------------------------------------
\* Positions that are to be written and positions that are to be read are less
\* than Size apart and never the same.
LEMMA InvNoRace ==
  ASSUME SpscAssumption, RingInv
  PROVE  NoRace
<1> SUFFICES ASSUME NEW i \in push.n .. Len(push.data) - 1,
                    NEW j \in Len(pop.data) .. pop.len - 1,
                    Place(push.at + i) = Place(pop.at + j)
             PROVE  FALSE
  BY DEF NoRace, ToWrite, ToRead
<1>1. /\ push.n \in Nat /\ Len(push.data) \in Nat /\ Len(pop.data) \in Nat /\ pop.len \in Nat
      /\ StoredBytes \in Nat /\ popped \in Nat /\ Len(pushed) \in Nat
  <2>1. /\ push.n \in Nat /\ Len(push.data) \in Nat /\ Len(pop.data) \in Nat /\ pop.len \in Nat
        /\ popped \in Nat /\ Len(pushed) \in Nat
    BY DEF RingInv, SpscTypes
  <2>2. Unstored \in Nat
    BY <2>1 DEF Unstored
  <2>3. StoredBytes \in Int /\ popped <= StoredBytes
    BY <2>1, <2>2 DEF StoredBytes, RingInv, Positions
  <2> QED BY <2>1, <2>3
<1>2. i \in Nat /\ j \in Nat /\ i < Len(push.data) /\ j < pop.len
  BY <1>1
<1>3. push.on /\ ~push.stored /\ pop.on /\ ~pop.stored
  <2>1. push.n # Len(push.data) /\ Len(pop.data) # pop.len
    BY <1>1, <1>2
  <2>2. push.on /\ ~push.stored
    BY <2>1 DEF RingInv, Producer, NotPushing
  <2>3. pop.on /\ ~pop.stored
    BY <2>1 DEF RingInv, Consumer, NotPopping
  <2> QED BY <2>2, <2>3
<1>4. StoredBytes + Len(push.data) = Len(pushed)
  BY <1>1, <1>3 DEF StoredBytes, Unstored
<1>5. push.at = StoredBytes % Mod /\ pop.at = popped % Mod /\ popped + pop.len <= StoredBytes
  BY <1>3 DEF RingInv, Producer, Consumer, Positions
<1>6. Size \in Nat \ {0}
  BY DEF SpscAssumption
<1>7. Place(push.at + i) = (StoredBytes + i) % Size
  <2>1. ((StoredBytes % Mod) + i) % Size = (StoredBytes + i) % Size
    BY <1>1, <1>2, PlaceOfIndex
  <2> QED BY <1>5, <2>1 DEF Place
<1>8. Place(pop.at + j) = (popped + j) % Size
  <2>1. ((popped % Mod) + j) % Size = (popped + j) % Size
    BY <1>1, <1>2, PlaceOfIndex
  <2> QED BY <1>5, <2>1 DEF Place
<1>9. popped + j < StoredBytes + i /\ StoredBytes + i < (popped + j) + Size
  <2>1. Len(pushed) <= popped + Size
    BY DEF RingInv, Positions
  <2>2. popped + pop.len <= StoredBytes
    BY <1>5
  <2> QED BY <1>1, <1>2, <1>4, <1>6, <2>1, <2>2
<1>10. popped + j \in Nat /\ StoredBytes + i \in Nat /\ popped + j <= StoredBytes + i
  BY <1>1, <1>2, <1>9
<1>11. popped + j = StoredBytes + i
  BY <1>6, <1>7, <1>8, <1>9, <1>10, Apart
<1> QED BY <1>9, <1>10, <1>11

\* What the consumer has is the piece of the stream that begins where its call did.
LEMMA InvInOrder ==
  ASSUME RingInv
  PROVE  InOrder
<1>1. /\ Len(pop.data) \in Nat /\ TakenBytes \in Nat /\ pushed \in Seq(Bytes)
      /\ pop.data \in Seq(Bytes)
  BY TakenInStream DEF RingInv, SpscTypes
<1>2. TakenBytes + Len(pop.data) <= Len(pushed)
  BY TakenInStream
<1>3. PICK k \in Nat : k = Len(pop.data)
  BY <1>1
<1>4. PICK t \in Nat : t = TakenBytes
  BY <1>1
<1> DEFINE piece == SubSeq(pushed, t + 1, t + k)
<1>5. \A i \in t + 1 .. t + k : pushed[i] \in Bytes
  BY <1>1, <1>2, <1>3, <1>4
<1>6. /\ piece \in Seq(Bytes)
      /\ Len(piece) = IF t + 1 <= t + k THEN (t + k) - (t + 1) + 1 ELSE 0
      /\ \A i \in 1 .. (t + k) - (t + 1) + 1 : piece[i] = pushed[(t + 1) + i - 1]
  BY <1>5, SubSeqProperties
<1>7. Len(piece) = k /\ \A i \in 1 .. k : piece[i] = pushed[t + i]
  BY <1>6
<1>8. \A i \in 1 .. k : pop.data[i] = piece[i]
  BY <1>3, <1>4, <1>7 DEF RingInv, Consumer
<1>9. pop.data = piece
  BY <1>1, <1>3, <1>6, <1>7, <1>8, SeqEqual
<1>10. /\ t + 1 = popped + 1 - (IF pop.stored THEN pop.len ELSE 0)
       /\ t + k = popped + Len(pop.data) - (IF pop.stored THEN pop.len ELSE 0)
  BY <1>3, <1>4 DEF TakenBytes, RingInv, SpscTypes
<1> QED BY <1>9, <1>10 DEF InOrder

(***************************************************************************)
(* Spsc: in every build, with or without a barrier, data_len counts what   *)
(* is stored and not released.  If the build keeps the copy and the store  *)
(* of the index in order, the producer also writes no byte that is still   *)
(* to be read, and the consumer gets the bytes that were accepted, in      *)
(* order, each once.                                                       *)
(***************************************************************************)
THEOREM RingIsCorrect ==
  ASSUME SpscAssumption
  PROVE  /\ SpscSpec => []CountedRight
         /\ BARRIER => (SpscSpec => [](NoRace /\ InOrder))
<1>1. SpscSpec => []CountedRight
  <2>1. IndexInv => CountedRight
    BY UsedIsDistance DEF IndexInv, CountedRight, StoredBytes
  <2> QED BY <2>1, IndexInvHolds, PTL
<1>2. ASSUME BARRIER PROVE SpscSpec => [](NoRace /\ InOrder)
  <2>1. RingInv => NoRace /\ InOrder
    BY InvNoRace, InvInOrder
  <2>2. SpscSpec => []RingInv
    BY <1>2, RingInvHolds
  <2> QED BY <2>1, <2>2, PTL
<1> QED BY <1>1, <1>2

-----------------------------------------------------------------------------
\* Walks through a forest of states

\* Every state has a parent or none, and the walk up ends.
ForestOf(S, up, null) ==
  /\ null \notin S
  /\ up \in [S -> S \cup {null}]
  /\ \E N \in Nat : \E depth \in [S -> 0 .. N] :
       \A s \in S : up[s] # null => depth[up[s]] < depth[s]

\* What holds of a state if it holds of its parent holds of all.
LEMMA ForestInduction ==
  ASSUME NEW S, NEW up, NEW null, ForestOf(S, up, null), NEW X,
         \A s \in S : up[s] = null \/ up[s] \in X => s \in X
  PROVE  \A s \in S : s \in X
<1>1. PICK N \in Nat : \E depth \in [S -> 0 .. N] :
                         \A s \in S : up[s] # null => depth[up[s]] < depth[s]
  BY DEF ForestOf
<1>2. PICK depth \in [S -> 0 .. N] : \A s \in S : up[s] # null => depth[up[s]] < depth[s]
  BY <1>1
<1> DEFINE Y == {m \in Nat : \A s \in S : depth[s] < m => s \in X}
<1>3. 0 \in Y
  BY <1>2
<1>4. ASSUME NEW m \in Nat, m \in Y PROVE m + 1 \in Y
  <2> SUFFICES ASSUME NEW s \in S, depth[s] < m + 1 PROVE s \in X
    OBVIOUS
  <2>1. up[s] = null \/ up[s] \in X
    <3> SUFFICES ASSUME up[s] # null PROVE up[s] \in X
      OBVIOUS
    <3>1. up[s] \in S
      BY DEF ForestOf
    <3>2. depth[up[s]] < m
      BY <1>2, <3>1
    <3> QED BY <1>4, <3>1, <3>2
  <2> QED BY <2>1
<1>5. N + 1 \in Y
  <2>1. \A m \in Nat : m \in Y
    <3> HIDE DEF Y
    <3> QED BY <1>3, <1>4, InductOnNat
  <2> HIDE DEF Y
  <2> QED BY <2>1
<1>6. \A s \in S : depth[s] < N + 1
  BY <1>2
<1> QED BY <1>5, <1>6

\* A function can be defined by what it makes of a state and of the value for
\* its parent.
Walks(g, S, up, null, z, F) ==
  g[null] = z /\ \A s \in S : g[s] = F[<<s, g[up[s]]>>]

LEMMA WalkExists ==
  ASSUME NEW S, NEW up, NEW null, ForestOf(S, up, null),
         NEW V, NEW z \in V, NEW F \in [S \X V -> V]
  PROVE  \E g \in [S \cup {null} -> V] : Walks(g, S, up, null, z, F)
<1>1. PICK N \in Nat : \E depth \in [S -> 0 .. N] :
                         \A s \in S : up[s] # null => depth[up[s]] < depth[s]
  BY DEF ForestOf
<1>2. PICK depth \in [S -> 0 .. N] : \A s \in S : up[s] # null => depth[up[s]] < depth[s]
  BY <1>1
<1>3. null \notin S /\ \A s \in S : up[s] \in S \cup {null}
  BY DEF ForestOf
<1> DEFINE Solves(g, m) == /\ g[null] = z
                           /\ \A s \in S : depth[s] < m => g[s] = F[<<s, g[up[s]]>>]
           X == {m \in Nat : \E g \in [S \cup {null} -> V] : Solves(g, m)}
<1>4. 0 \in X
  <2> DEFINE g == [s \in S \cup {null} |-> z]
  <2>1. g \in [S \cup {null} -> V] /\ Solves(g, 0)
    BY <1>2
  <2> HIDE DEF g, Solves
  <2> QED BY <2>1
<1>5. ASSUME NEW m \in Nat, m \in X PROVE m + 1 \in X
  <2>1. PICK g \in [S \cup {null} -> V] : Solves(g, m)
    BY <1>5
  <2> DEFINE h == [s \in S \cup {null} |-> IF s = null THEN z ELSE F[<<s, g[up[s]]>>]]
  <2>2. h \in [S \cup {null} -> V] /\ h[null] = z /\ \A s \in S : h[s] = F[<<s, g[up[s]]>>]
    <3>1. \A s \in S : F[<<s, g[up[s]]>>] \in V
      BY <1>3
    <3> QED BY <1>3, <3>1
  <2> HIDE DEF h
  <2>3. ASSUME NEW s \in S, depth[s] < m + 1 PROVE h[s] = F[<<s, h[up[s]]>>]
    <3>1. CASE up[s] = null
      BY <2>1, <2>2, <3>1
    <3>2. CASE up[s] # null
      <4>1. up[s] \in S /\ depth[up[s]] < m
        BY <1>2, <1>3, <2>3, <3>2
      <4>2. PICK t \in S : t = up[s]
        BY <4>1
      <4>3. g[t] = F[<<t, g[up[t]]>>]
        BY <2>1, <4>1, <4>2
      <4>4. h[up[s]] = g[up[s]]
        BY <2>2, <4>2, <4>3
      <4> QED BY <2>2, <4>4
    <3> QED BY <3>1, <3>2
  <2>4. Solves(h, m + 1)
    BY <2>2, <2>3
  <2> HIDE DEF Solves
  <2> QED BY <2>2, <2>4
<1>6. N + 1 \in X
  <2>1. \A m \in Nat : m \in X
    <3> HIDE DEF X
    <3> QED BY <1>4, <1>5, InductOnNat
  <2> HIDE DEF X
  <2> QED BY <2>1
<1>7. PICK g \in [S \cup {null} -> V] : Solves(g, N + 1)
  BY <1>6
<1>8. \A s \in S : depth[s] < N + 1
  BY <1>2
<1>9. Walks(g, S, up, null, z, F)
  BY <1>7, <1>8 DEF Walks
<1> QED BY <1>9

\* chain gives every state with its ancestors, innermost first.
IsChain(chain, S, up, null) ==
  chain = [s \in S \cup {null} |-> IF s = null THEN <<>> ELSE <<s>> \o chain[up[s]]]

LEMMA ChainExists ==
  ASSUME NEW S, NEW up, NEW null, ForestOf(S, up, null)
  PROVE  \E g : IsChain(g, S, up, null)
<1> DEFINE F == [q \in S \X Seq(S) |-> <<q[1]>> \o q[2]]
<1>1. <<>> \in Seq(S)
  OBVIOUS
<1>2. F \in [S \X Seq(S) -> Seq(S)]
  OBVIOUS
<1>3. PICK g \in [S \cup {null} -> Seq(S)] :
        g[null] = <<>> /\ \A s \in S : g[s] = F[<<s, g[up[s]]>>]
  <2> DEFINE V == Seq(S)
             z == <<>>
  <2>1. z \in V /\ F \in [S \X V -> V]
    BY <1>1, <1>2
  <2> HIDE DEF F, V, z
  <2>2. \E g \in [S \cup {null} -> V] : Walks(g, S, up, null, z, F)
    BY <2>1, WalkExists
  <2> QED BY <2>2 DEF V, z, Walks
<1>4. null \notin S /\ \A s \in S : up[s] \in S \cup {null}
  BY DEF ForestOf
<1>5. ASSUME NEW s \in S \cup {null}
      PROVE  g[s] = IF s = null THEN <<>> ELSE <<s>> \o g[up[s]]
  <2>1. CASE s = null
    BY <1>3, <2>1
  <2>2. CASE s # null
    <3>1. s \in S /\ g[up[s]] \in Seq(S)
      BY <1>4, <2>2
    <3>2. F[<<s, g[up[s]]>>] = <<s>> \o g[up[s]]
      BY <3>1
    <3> QED BY <1>3, <2>2, <3>1, <3>2
  <2> QED BY <2>1, <2>2
<1>6. g = [s \in S \cup {null} |-> IF s = null THEN <<>> ELSE <<s>> \o g[up[s]]]
  BY <1>5
<1> HIDE DEF F
<1> QED BY <1>6 DEF IsChain

\* What follows a state in a chain is its own.
HasTails(chain, S, up, null) ==
  /\ chain[null] = <<>>
  /\ \A s \in S : chain[s] = <<s>> \o chain[up[s]]
  /\ \A s \in S : chain[s] \in Seq(S) /\ Len(chain[s]) \in Nat \ {0} /\ chain[s][1] = s
  /\ \A s \in S : \A i \in 1 .. Len(chain[s]) :
       chain[chain[s][i]] = SubSeq(chain[s], i, Len(chain[s]))

LEMMA ChainTails ==
  ASSUME NEW S, NEW up, NEW null, ForestOf(S, up, null),
         NEW chain, IsChain(chain, S, up, null)
  PROVE  HasTails(chain, S, up, null)
<1>1. null \notin S /\ \A s \in S : up[s] \in S \cup {null}
  BY DEF ForestOf
<1>2. chain[null] = <<>> /\ \A s \in S : chain[s] = <<s>> \o chain[up[s]]
  BY <1>1 DEF IsChain
<1> DEFINE Tails(s) == \A i \in 1 .. Len(chain[s]) :
                         chain[chain[s][i]] = SubSeq(chain[s], i, Len(chain[s]))
           X == {s \in S : /\ chain[s] \in Seq(S) /\ Len(chain[s]) \in Nat \ {0} /\ chain[s][1] = s
                           /\ Tails(s)}
<1>3. ASSUME NEW s \in S, up[s] = null \/ up[s] \in X PROVE s \in X
  <2> DEFINE p == chain[s]
             q == chain[up[s]]
  <2>1. p = <<s>> \o q
    BY <1>2
  <2>2. q \in Seq(S) /\ \A i \in 1 .. Len(q) : chain[q[i]] = SubSeq(q, i, Len(q))
    <3>1. CASE up[s] = null
      <4>1. q = <<>> /\ Len(q) = 0
        BY <1>2, <3>1
      <4> QED BY <4>1
    <3>2. CASE up[s] \in X
      BY <3>2
    <3> QED BY <1>3, <3>1, <3>2
  <2> HIDE DEF p, q
  <2>3. /\ p \in Seq(S) /\ Len(p) = Len(q) + 1 /\ Len(q) \in Nat /\ p[1] = s
        /\ \A i \in 1 .. Len(q) : p[i + 1] = q[i]
    BY <2>1, <2>2
  <2>4. ASSUME NEW i \in 1 .. Len(p) PROVE chain[p[i]] = SubSeq(p, i, Len(p))
    <3>1. CASE i = 1
      <4>1. SubSeq(p, 1, Len(p)) = p
        BY <2>3, SubSeqFull
      <4> QED BY <2>3, <3>1, <4>1 DEF p
    <3>2. CASE i # 1
      <4>1. i - 1 \in 1 .. Len(q) /\ (i - 1) + 1 = i
        BY <2>3, <3>2
      <4>2. chain[p[i]] = SubSeq(q, i - 1, Len(q))
        BY <2>2, <2>3, <4>1
      <4>3. SubSeq(p, i, Len(p)) = SubSeq(q, i - 1, Len(q))
        <5> DEFINE a == SubSeq(p, i, Len(p))
                   b == SubSeq(q, i - 1, Len(q))
        <5>1. /\ a \in Seq(S) /\ Len(a) = Len(p) - i + 1
              /\ \A j \in 1 .. Len(p) - i + 1 : a[j] = p[i + j - 1]
          BY <2>3, SubSeqProperties
        <5>2. /\ b \in Seq(S) /\ Len(b) = Len(q) - (i - 1) + 1
              /\ \A j \in 1 .. Len(q) - (i - 1) + 1 : b[j] = q[(i - 1) + j - 1]
          BY <2>2, <2>3, <4>1, SubSeqProperties
        <5>3. ASSUME NEW j \in 1 .. Len(p) - i + 1 PROVE a[j] = b[j]
          <6>1. j + (i - 1) - 1 \in 1 .. Len(q) /\ (j + (i - 1) - 1) + 1 = i + j - 1
            BY <2>3, <4>1
          <6>2. p[i + j - 1] = q[(i - 1) + j - 1]
            BY <2>3, <6>1
          <6>3. j \in 1 .. Len(q) - (i - 1) + 1
            BY <2>3
          <6> QED BY <5>1, <5>2, <6>2, <6>3
        <5> HIDE DEF a, b
        <5>4. a = b
          BY <2>3, <5>1, <5>2, <5>3, SeqEqual
        <5> QED BY <5>4 DEF a, b
      <4> QED BY <4>2, <4>3
    <3> QED BY <3>1, <3>2
  <2> QED BY <2>3, <2>4 DEF p
<1>4. \A s \in S : s \in X
  <2> HIDE DEF X
  <2> QED BY <1>3, ForestInduction
<1> QED BY <1>2, <1>4 DEF HasTails

\* A chain leads from parent to parent, and nowhere twice.
LEMMA ChainClimbs ==
  ASSUME NEW S, NEW up, NEW null, ForestOf(S, up, null),
         NEW chain, IsChain(chain, S, up, null), NEW s \in S, NEW i \in 1 .. Len(chain[s])
  PROVE  /\ chain[s][i] \in S
         /\ up[chain[s][i]] = IF i < Len(chain[s]) THEN chain[s][i + 1] ELSE null
         /\ Len(chain[chain[s][i]]) = Len(chain[s]) - i + 1
         /\ \A j \in 1 .. Len(chain[s]) : chain[s][j] = chain[s][i] => j = i
<1> DEFINE p == chain[s]
           n == Len(p)
<1>0. HasTails(chain, S, up, null)
  BY ChainTails
<1>1. p \in Seq(S) /\ n \in Nat
  BY <1>0 DEF HasTails
<1>2. \A j \in 1 .. n : chain[p[j]] = SubSeq(p, j, n)
  BY <1>0 DEF HasTails
<1> HIDE DEF p, n
<1>3. \A j \in 1 .. n : /\ p[j] \in S /\ Len(chain[p[j]]) = n - j + 1
                        /\ \A k \in 1 .. n - j + 1 : chain[p[j]][k] = p[j + k - 1]
  <2> SUFFICES ASSUME NEW j \in 1 .. n
               PROVE  /\ p[j] \in S /\ Len(chain[p[j]]) = n - j + 1
                      /\ \A k \in 1 .. n - j + 1 : chain[p[j]][k] = p[j + k - 1]
    OBVIOUS
  <2>1. \A k \in j .. n : p[k] \in S
    BY <1>1 DEF n
  <2>2. /\ Len(SubSeq(p, j, n)) = n - j + 1
        /\ \A k \in 1 .. n - j + 1 : SubSeq(p, j, n)[k] = p[j + k - 1]
    BY <1>1, <2>1, SubSeqProperties
  <2> QED BY <1>1, <1>2, <2>1, <2>2
<1>4. i \in 1 .. n
  BY DEF n, p
<1>5. PICK t \in S : t = p[i]
  BY <1>3, <1>4
<1>6. chain[t] = <<t>> \o chain[up[t]] /\ up[t] \in S \cup {null} /\ chain[null] = <<>>
  BY <1>0 DEF HasTails, ForestOf
<1>7. up[t] # null => /\ chain[up[t]] \in Seq(S) /\ Len(chain[up[t]]) \in Nat \ {0}
                      /\ chain[up[t]][1] = up[t]
  BY <1>0, <1>6 DEF HasTails
<1>8. i \in Int /\ n \in Int /\ Len(chain[t]) = n - i + 1
  <2>1. Len(chain[p[i]]) = n - i + 1
    BY <1>3, <1>4
  <2>2. i \in Int /\ n \in Int
    BY <1>1, <1>4
  <2> QED BY <1>5, <2>1, <2>2
<1>9. ASSUME NEW j \in 1 .. n, p[j] = p[i] PROVE j = i
  <2>1. Len(chain[p[j]]) = n - j + 1
    BY <1>3
  <2>2. n - j + 1 = n - i + 1 /\ j \in Int
    BY <1>5, <1>8, <1>9, <2>1
  <2> QED BY <1>8, <2>2
<1>10. CASE up[t] = null
  <2>1. Len(chain[t]) = 1
    BY <1>6, <1>10
  <2>2. n - i + 1 = 1
    BY <1>8, <2>1
  <2>3. n = i
    BY <1>8, <2>2
  <2>4. \A j \in 1 .. n : p[j] = p[i] => j = i
    BY <1>9
  <2> QED BY <1>1, <1>3, <1>4, <1>5, <1>10, <2>1, <2>3, <2>4 DEF n, p
<1>11. CASE up[t] # null
  <2>1. Len(chain[t]) = 1 + Len(chain[up[t]]) /\ chain[t][2] = up[t]
    BY <1>6, <1>7, <1>11
  <2>2. i < n /\ 2 \in 1 .. n - i + 1 /\ i + 2 - 1 = i + 1
    <3>1. PICK l \in Nat \ {0} : l = Len(chain[up[t]])
      BY <1>7, <1>11
    <3>2. 1 + l = n - i + 1 /\ i \in Int /\ n \in Int
      BY <1>8, <2>1, <3>1
    <3> QED BY <3>2
  <2>3. p[i + 1] = up[t]
    BY <1>3, <1>4, <1>5, <2>1, <2>2
  <2> QED BY <1>1, <1>3, <1>4, <1>5, <1>9, <2>2, <2>3 DEF n, p
<1> QED BY <1>10, <1>11

-----------------------------------------------------------------------------
\* Where two walks meet

\* One step up from the deeper of two states, or from both
Higher(p, chain, up) ==
  <<IF Len(chain[p[2]]) > Len(chain[p[1]]) THEN p[1] ELSE up[p[1]],
    IF Len(chain[p[1]]) > Len(chain[p[2]]) THEN p[2] ELSE up[p[2]]>>

Apiece(S, null) == {p \in (S \cup {null}) \X (S \cup {null}) : p[1] # p[2]}

\* The pairs of different states are a forest, too.
HigherPair(S, up, null, chain) ==
  [p \in Apiece(S, null) |->
     IF Higher(p, chain, up) \in Apiece(S, null) THEN Higher(p, chain, up) ELSE <<null, null>>]

LEMMA ChainsAreBounded ==
  ASSUME NEW S, NEW up, NEW null, ForestOf(S, up, null),
         NEW chain, IsChain(chain, S, up, null)
  PROVE  \E M \in Nat : \A s \in S \cup {null} : Len(chain[s]) \in 0 .. M
<1>1. PICK N \in Nat : \E depth \in [S -> 0 .. N] :
                         \A s \in S : up[s] # null => depth[up[s]] < depth[s]
  BY DEF ForestOf
<1>2. PICK depth \in [S -> 0 .. N] : \A s \in S : up[s] # null => depth[up[s]] < depth[s]
  BY <1>1
<1>3. HasTails(chain, S, up, null)
  BY ChainTails
<1> DEFINE X == {s \in S : Len(chain[s]) <= depth[s] + 1}
<1>4. ASSUME NEW s \in S, up[s] = null \/ up[s] \in X PROVE s \in X
  <2>1. chain[s] = <<s>> \o chain[up[s]]
    BY <1>3 DEF HasTails
  <2>2. CASE up[s] = null
    <3>1. Len(chain[s]) = 1
      BY <1>3, <2>1, <2>2 DEF HasTails
    <3>2. PICK d \in 0 .. N : d = depth[s]
      BY <1>2
    <3>3. Len(chain[s]) <= d + 1
      BY <3>1
    <3> QED BY <3>2, <3>3
  <2>3. CASE up[s] # null
    <3>1. up[s] \in S /\ Len(chain[up[s]]) <= depth[up[s]] + 1
      BY <1>4, <2>3
    <3>2. chain[up[s]] \in Seq(S) /\ Len(chain[up[s]]) \in Nat
      BY <1>3, <3>1 DEF HasTails
    <3>3. Len(chain[s]) = 1 + Len(chain[up[s]])
      BY <2>1, <3>2
    <3>4. depth[up[s]] < depth[s] /\ depth[up[s]] \in Nat /\ depth[s] \in Nat
      BY <1>2, <2>3, <3>1
    <3> QED BY <3>1, <3>2, <3>3, <3>4
  <2> QED BY <2>2, <2>3
<1>5. \A s \in S : s \in X
  <2> HIDE DEF X
  <2> QED BY <1>4, ForestInduction
<1>6. \A s \in S : Len(chain[s]) \in 0 .. N + 1
  BY <1>2, <1>3, <1>5 DEF HasTails
<1>7. Len(chain[null]) = 0
  BY <1>3 DEF HasTails
<1>8. N + 1 \in Nat
  OBVIOUS
<1> QED BY <1>6, <1>7, <1>8

\* Of the pair p one or both are exchanged for their parents in h.
OneUp(h, p, S, up, null, chain) ==
  /\ h \in (S \cup {null}) \X (S \cup {null})
  /\ Len(chain[h[1]]) + Len(chain[h[2]]) < Len(chain[p[1]]) + Len(chain[p[2]])
  /\ h[1] = p[1] \/ (p[1] \in S /\ h[1] = up[p[1]])
  /\ h[2] = p[2] \/ (p[2] \in S /\ h[2] = up[p[2]])

LEMMA HigherIsOneUp ==
  ASSUME NEW S, NEW up, NEW null, ForestOf(S, up, null),
         NEW chain, IsChain(chain, S, up, null), NEW p \in Apiece(S, null)
  PROVE  OneUp(Higher(p, chain, up), p, S, up, null, chain)
<1> DEFINE h == Higher(p, chain, up)
<1>1. HasTails(chain, S, up, null)
  BY ChainTails
<1>2. PICK a \in S \cup {null}, b \in S \cup {null} :
        p = <<a, b>> /\ p[1] = a /\ p[2] = b /\ a # b
  BY DEF Apiece
<1>3. ASSUME NEW s \in S
      PROVE  /\ up[s] \in S \cup {null} /\ s # null
             /\ Len(chain[s]) = Len(chain[up[s]]) + 1
  <2>1. up[s] \in S \cup {null} /\ s # null
    BY DEF ForestOf
  <2>2. chain[s] = <<s>> \o chain[up[s]]
    BY <1>1 DEF HasTails
  <2>3. chain[up[s]] \in Seq(S)
    <3>1. <<>> \in Seq(S)
      OBVIOUS
    <3> QED BY <1>1, <2>1, <3>1 DEF HasTails
  <2>4. Len(chain[s]) = 1 + Len(chain[up[s]]) /\ Len(chain[up[s]]) \in Nat
    BY <2>2, <2>3
  <2> QED BY <2>1, <2>4
<1> DEFINE len == [s \in S \cup {null} |-> Len(chain[s])]
<1>4. /\ len \in [S \cup {null} -> Nat] /\ len[null] = 0
      /\ \A s \in S : len[s] \in Nat \ {0} /\ len[s] = len[up[s]] + 1
  BY <1>1, <1>3 DEF HasTails
<1>5. \A s \in S \cup {null} : len[s] = Len(chain[s])
  OBVIOUS
<1> HIDE DEF len
<1>6. len[a] \in Nat /\ len[b] \in Nat
  BY <1>4
<1>7. /\ h = <<h[1], h[2]>>
      /\ h[1] = IF len[b] > len[a] THEN a ELSE up[a]
      /\ h[2] = IF len[a] > len[b] THEN b ELSE up[b]
  BY <1>2, <1>5 DEF Higher
<1> HIDE DEF h
<1>8. /\ h[1] \in S \cup {null} /\ h[2] \in S \cup {null}
      /\ len[h[1]] + len[h[2]] < len[a] + len[b]
      /\ h[1] = a \/ (a \in S /\ h[1] = up[a])
      /\ h[2] = b \/ (b \in S /\ h[2] = up[b])
  <2>1. CASE len[b] > len[a]
    <3>1. b \in S /\ h[1] = a /\ h[2] = up[b]
      BY <1>4, <1>6, <1>7, <2>1
    <3>2. up[b] \in S \cup {null} /\ len[up[b]] \in Nat /\ len[b] = len[up[b]] + 1
      BY <1>3, <1>4, <3>1
    <3>3. len[h[1]] + len[h[2]] < len[a] + len[b]
      BY <1>6, <3>1, <3>2
    <3> QED BY <1>2, <3>1, <3>2, <3>3
  <2>2. CASE len[a] > len[b]
    <3>1. a \in S /\ h[1] = up[a] /\ h[2] = b
      BY <1>4, <1>6, <1>7, <2>2
    <3>2. up[a] \in S \cup {null} /\ len[up[a]] \in Nat /\ len[a] = len[up[a]] + 1
      BY <1>3, <1>4, <3>1
    <3>3. len[h[1]] + len[h[2]] < len[a] + len[b]
      BY <1>6, <3>1, <3>2
    <3> QED BY <1>2, <3>1, <3>2, <3>3
  <2>3. CASE len[a] = len[b]
    <3>1. a \in S /\ b \in S
      BY <1>2, <1>4, <2>3
    <3>2. h[1] = up[a] /\ h[2] = up[b]
      BY <1>6, <1>7, <2>3
    <3> QED BY <1>3, <1>4, <1>6, <3>1, <3>2
  <2> QED BY <1>6, <2>1, <2>2, <2>3
<1>9. Len(chain[h[1]]) + Len(chain[h[2]]) < Len(chain[p[1]]) + Len(chain[p[2]])
  BY <1>2, <1>5, <1>8
<1>10. h \in (S \cup {null}) \X (S \cup {null})
  BY <1>7, <1>8
<1>11. OneUp(h, p, S, up, null, chain)
  BY <1>2, <1>8, <1>9, <1>10 DEF OneUp
<1> QED BY <1>11 DEF h

LEMMA PairsAreForest ==
  ASSUME NEW S, NEW up, NEW null, ForestOf(S, up, null),
         NEW chain, IsChain(chain, S, up, null)
  PROVE  ForestOf(Apiece(S, null), HigherPair(S, up, null, chain), <<null, null>>)
<1> DEFINE P == Apiece(S, null)
           next == HigherPair(S, up, null, chain)
           end == <<null, null>>
<1>1. end \notin P
  BY DEF Apiece
<1>2. next \in [P -> P \cup {end}]
  BY DEF HigherPair
<1>3. PICK M \in Nat : \A s \in S \cup {null} : Len(chain[s]) \in 0 .. M
  BY ChainsAreBounded
<1> DEFINE depth == [p \in P |-> Len(chain[p[1]]) + Len(chain[p[2]])]
<1>4. depth \in [P -> 0 .. 2 * M]
  <2> SUFFICES ASSUME NEW p \in P PROVE Len(chain[p[1]]) + Len(chain[p[2]]) \in 0 .. 2 * M
    OBVIOUS
  <2>1. p[1] \in S \cup {null} /\ p[2] \in S \cup {null}
    BY DEF Apiece
  <2>2. PICK x \in 0 .. M, y \in 0 .. M : Len(chain[p[1]]) = x /\ Len(chain[p[2]]) = y
    BY <1>3, <2>1
  <2>3. x + y \in 0 .. 2 * M
    OBVIOUS
  <2> QED BY <2>2, <2>3
<1>5. ASSUME NEW p \in P, next[p] # end PROVE depth[next[p]] < depth[p]
  <2>1. next[p] \in P /\ next[p] = Higher(p, chain, up)
    BY <1>5 DEF HigherPair
  <2>2. OneUp(Higher(p, chain, up), p, S, up, null, chain)
    BY HigherIsOneUp
  <2> HIDE DEF P, next
  <2> QED BY <2>1, <2>2 DEF OneUp
<1>6. 2 * M \in Nat
  OBVIOUS
<1> HIDE DEF P, next, end, depth
<1>7. ForestOf(P, next, end)
  BY <1>1, <1>2, <1>4, <1>5, <1>6 DEF ForestOf
<1> QED BY <1>7 DEF P, next, end

\* g takes every pair of states to where their walks up meet.
IsMeet(g, S, up, null, chain) ==
  g = [p \in (S \cup {null}) \X (S \cup {null}) |->
         IF p[1] = p[2] THEN p[1] ELSE g[Higher(p, chain, up)]]

LEMMA MeetExists ==
  ASSUME NEW S, NEW up, NEW null, ForestOf(S, up, null),
         NEW chain, IsChain(chain, S, up, null)
  PROVE  \E g : IsMeet(g, S, up, null, chain)
<1> DEFINE N == S \cup {null}
           P == Apiece(S, null)
           next == HigherPair(S, up, null, chain)
           end == <<null, null>>
           F == [q \in P \X N |-> IF Higher(q[1], chain, up) \in P THEN q[2]
                                 ELSE Higher(q[1], chain, up)[1]]
<1>1. \A p \in P : Higher(p, chain, up) \in N \X N
  BY HigherIsOneUp DEF OneUp
<1>2. F \in [P \X N -> N]
  <2> HIDE DEF P
  <2> QED BY <1>1
<1>3. null \in N
  OBVIOUS
<1>4. ForestOf(P, next, end)
  BY PairsAreForest
<1>5. \E g \in [P \cup {end} -> N] : Walks(g, P, next, end, null, F)
  <2> HIDE DEF N, P, next, end, F
  <2> QED BY <1>2, <1>3, <1>4, WalkExists
<1>6. PICK g \in [P \cup {end} -> N] : Walks(g, P, next, end, null, F)
  BY <1>5
<1> DEFINE h == [p \in N \X N |-> IF p[1] = p[2] THEN p[1] ELSE g[p]]
<1>7. ASSUME NEW p \in N \X N
      PROVE  h[p] = IF p[1] = p[2] THEN p[1] ELSE h[Higher(p, chain, up)]
  <2>1. CASE p[1] = p[2]
    BY <2>1
  <2>2. CASE p[1] # p[2]
    <3>1. p \in P
      BY <2>2 DEF Apiece
    <3>2. PICK n \in N \X N : n = Higher(p, chain, up)
      BY <1>1, <3>1
    <3>3. g[p] = F[<<p, g[next[p]]>>] /\ g[next[p]] \in N
      <4>1. next[p] \in P \cup {end}
        BY <1>4, <3>1 DEF ForestOf
      <4> HIDE DEF N, P, next, end, F
      <4> QED BY <1>6, <3>1, <4>1 DEF Walks
    <3>4. CASE n \in P
      <4>1. next[p] = n
        BY <3>1, <3>2, <3>4 DEF HigherPair
      <4>2. g[p] = g[n]
        BY <3>1, <3>2, <3>3, <3>4, <4>1
      <4>3. n[1] # n[2]
        BY <3>4 DEF Apiece
      <4> QED BY <2>2, <3>2, <4>2, <4>3
    <3>5. CASE n \notin P
      <4>1. n[1] = n[2]
        BY <3>2, <3>5 DEF Apiece
      <4>2. g[p] = n[1]
        BY <3>1, <3>2, <3>3, <3>5
      <4> QED BY <2>2, <3>2, <4>1, <4>2
    <3> QED BY <3>4, <3>5
  <2> QED BY <2>1, <2>2
<1>8. h = [p \in N \X N |-> IF p[1] = p[2] THEN p[1] ELSE h[Higher(p, chain, up)]]
  <2>1. h = [p \in N \X N |-> h[p]]
    OBVIOUS
  <2> HIDE DEF h
  <2> QED BY <1>7, <2>1
<1>9. IsMeet(h, S, up, null, chain)
  <2> HIDE DEF h
  <2> QED BY <1>8 DEF IsMeet
<1> QED BY <1>9

\* l is s, an ancestor of s or null: it is where the chain of s goes by.
Above(l, s, null, chain) ==
  \E i \in 1 .. Len(chain[s]) + 1 :
    l = IF i <= Len(chain[s]) THEN chain[s][i] ELSE null

LEMMA MeetIsAbove ==
  ASSUME NEW S, NEW up, NEW null, ForestOf(S, up, null),
         NEW chain, IsChain(chain, S, up, null),
         NEW g, IsMeet(g, S, up, null, chain),
         NEW s1 \in S \cup {null}, NEW s2 \in S \cup {null}
  PROVE  /\ Above(g[<<s1, s2>>], s1, null, chain)
         /\ Above(g[<<s1, s2>>], s2, null, chain)
<1> DEFINE N == S \cup {null}
           P == Apiece(S, null)
           next == HigherPair(S, up, null, chain)
           end == <<null, null>>
           Both(p) == Above(g[p], p[1], null, chain) /\ Above(g[p], p[2], null, chain)
<1>1. HasTails(chain, S, up, null)
  BY ChainTails
<1>2. ASSUME NEW s \in N PROVE Above(s, s, null, chain)
  <2>1. CASE s = null
    BY <1>1, <2>1 DEF Above, HasTails
  <2>2. CASE s \in S
    <3>1. Len(chain[s]) \in Nat \ {0} /\ chain[s][1] = s
      BY <1>1, <2>2 DEF HasTails
    <3> QED BY <3>1 DEF Above
  <2> QED BY <2>1, <2>2
<1>3. ASSUME NEW l, NEW s \in S, Above(l, up[s], null, chain) PROVE Above(l, s, null, chain)
  <2>1. chain[s] = <<s>> \o chain[up[s]]
    BY <1>1 DEF HasTails
  <2>2. chain[up[s]] \in Seq(S)
    <3>1. <<>> \in Seq(S) /\ up[s] \in S \cup {null}
      BY DEF ForestOf
    <3> QED BY <1>1, <3>1 DEF HasTails
  <2>3. /\ Len(chain[up[s]]) \in Nat /\ Len(chain[s]) = Len(chain[up[s]]) + 1
        /\ \A i \in 1 .. Len(chain[up[s]]) : chain[s][i + 1] = chain[up[s]][i]
    BY <2>1, <2>2
  <2>4. PICK n \in Nat : n = Len(chain[up[s]])
    BY <2>3
  <2>5. PICK i \in 1 .. n + 1 : l = IF i <= n THEN chain[up[s]][i] ELSE null
    BY <1>3, <2>4 DEF Above
  <2>6. i + 1 \in 1 .. (n + 1) + 1 /\ (i + 1 <= n + 1 <=> i <= n)
    BY <2>4
  <2>7. l = IF i + 1 <= n + 1 THEN chain[s][i + 1] ELSE null
    BY <2>3, <2>4, <2>5, <2>6
  <2> QED BY <2>3, <2>4, <2>6, <2>7 DEF Above
<1>4. \A p \in N \X N : g[p] = IF p[1] = p[2] THEN p[1] ELSE g[Higher(p, chain, up)]
  BY DEF IsMeet
<1>5. ASSUME NEW p \in N \X N, p[1] = p[2] PROVE Both(p)
  BY <1>2, <1>4, <1>5
<1> DEFINE X == {p \in P : Both(p)}
<1>6. ASSUME NEW p \in P, next[p] = end \/ next[p] \in X PROVE p \in X
  <2>1. OneUp(Higher(p, chain, up), p, S, up, null, chain)
    BY HigherIsOneUp
  <2>2. PICK n \in N \X N : n = Higher(p, chain, up)
    BY <2>1 DEF OneUp
  <2>3. Both(n)
    <3>1. CASE n[1] = n[2]
      BY <1>5, <3>1
    <3>2. CASE n[1] # n[2]
      <4>1. n \in P
        BY <3>2 DEF Apiece
      <4>2. next[p] = n /\ n # end
        BY <2>2, <4>1 DEF HigherPair, Apiece
      <4> HIDE DEF Both, next, end, P, N
      <4> QED BY <1>6, <4>2
    <3> QED BY <3>1, <3>2
  <2>4. g[p] = g[n]
    BY <1>4, <2>2 DEF Apiece
  <2>5. /\ n[1] = p[1] \/ (p[1] \in S /\ n[1] = up[p[1]])
        /\ n[2] = p[2] \/ (p[2] \in S /\ n[2] = up[p[2]])
    BY <2>1, <2>2 DEF OneUp
  <2>6. Both(p)
    BY <1>3, <2>3, <2>4, <2>5
  <2> HIDE DEF Both
  <2> QED BY <2>6
<1>7. \A p \in P : p \in X
  <2>1. ForestOf(P, next, end)
    BY PairsAreForest
  <2> HIDE DEF X, P, next, end
  <2> QED BY <1>6, <2>1, ForestInduction
<1>8. Both(<<s1, s2>>)
  <2>1. CASE s1 = s2
    BY <1>5, <2>1
  <2>2. CASE s1 # s2
    <3>1. <<s1, s2>> \in P
      BY <2>2 DEF Apiece
    <3> HIDE DEF Both, P
    <3> QED BY <1>7, <3>1
  <2> QED BY <2>1, <2>2
<1> QED BY <1>8

-----------------------------------------------------------------------------
\* The search of the transition tables

IsHandler(g, S, up, null, matches, tables) ==
  g = [a \in S \cup {null} |->
         IF a = null THEN <<>>
         ELSE IF matches[a] = {} THEN g[up[a]]
         ELSE <<tables[a][Min(matches[a])]>>]

LEMMA HandlerExists ==
  ASSUME NEW S, NEW up, NEW null, ForestOf(S, up, null), NEW matches, NEW tables
  PROVE  \E g : IsHandler(g, S, up, null, matches, tables)
<1> DEFINE First(a) == <<tables[a][Min(matches[a])]>>
           V == {<<>>} \cup {First(a) : a \in S}
           F == [q \in S \X V |-> IF matches[q[1]] = {} THEN q[2] ELSE First(q[1])]
<1>1. F \in [S \X V -> V]
  <2> HIDE DEF First
  <2> QED OBVIOUS
<1>2. <<>> \in V
  OBVIOUS
<1>3. PICK g \in [S \cup {null} -> V] : Walks(g, S, up, null, <<>>, F)
  <2> DEFINE z == <<>>
  <2>1. z \in V
    BY <1>2
  <2> HIDE DEF F, V, z
  <2>2. \E g \in [S \cup {null} -> V] : Walks(g, S, up, null, z, F)
    BY <1>1, <2>1, WalkExists
  <2> QED BY <2>2 DEF z
<1>4. ASSUME NEW a \in S \cup {null}
      PROVE  g[a] = IF a = null THEN <<>>
                    ELSE IF matches[a] = {} THEN g[up[a]] ELSE First(a)
  <2>1. CASE a = null
    BY <1>3, <2>1 DEF Walks
  <2>2. CASE a # null
    <3>1. a \in S /\ up[a] \in S \cup {null}
      BY <2>2 DEF ForestOf
    <3>2. g[up[a]] \in V
      <4> HIDE DEF V
      <4> QED BY <1>3, <3>1
    <3>3. g[a] = F[<<a, g[up[a]]>>]
      <4> HIDE DEF F
      <4> QED BY <1>3, <3>1 DEF Walks
    <3> HIDE DEF V, First
    <3>4. F[<<a, g[up[a]]>>] = IF matches[a] = {} THEN g[up[a]] ELSE First(a)
      BY <3>1, <3>2
    <3> QED BY <2>2, <3>3, <3>4
  <2> QED BY <2>1, <2>2
<1>5. g = [a \in S \cup {null} |-> g[a]]
  <2> HIDE DEF V
  <2> QED BY <1>3
<1>6. IsHandler(g, S, up, null, matches, tables)
  <2> HIDE DEF V, F
  <2> QED BY <1>4, <1>5 DEF IsHandler
<1> QED BY <1>6

\* It is an entry of the table of a state, if it is any.
LEMMA HandlerFinds ==
  ASSUME NEW S, NEW up, NEW null, ForestOf(S, up, null), NEW matches, NEW tables,
         NEW g, IsHandler(g, S, up, null, matches, tables), NEW s \in S
  PROVE  g[s] = <<>> \/ \E a \in S : matches[a] # {} /\ g[s] = <<tables[a][Min(matches[a])]>>
<1> DEFINE X == {t \in S : g[t] = <<>> \/ \E a \in S : matches[a] # {} /\ g[t] = <<tables[a][Min(matches[a])]>>}
<1>1. ASSUME NEW t \in S, up[t] = null \/ up[t] \in X PROVE t \in X
  <2>1. t # null
    BY DEF ForestOf
  <2>2. g[t] = IF matches[t] = {} THEN g[up[t]] ELSE <<tables[t][Min(matches[t])]>>
    BY <2>1 DEF IsHandler
  <2>3. g[null] = <<>>
    BY DEF IsHandler
  <2> QED BY <1>1, <2>2, <2>3
<1>2. \A t \in S : t \in X
  <2> HIDE DEF X
  <2> QED BY <1>1, ForestInduction
<1> QED BY <1>2

-----------------------------------------------------------------------------
\* The states of Hsm

Forest == ForestOf(States, parent, NULL)

LEMMA ChainOfStates ==
  ASSUME Forest
  PROVE  IsChain(Chain, States, parent, NULL)
<1>1. \E g : IsChain(g, States, parent, NULL)
  BY ChainExists DEF Forest
<1> QED BY <1>1 DEF Chain, IsChain

LEMMA LcaOfStates ==
  ASSUME Forest, NEW s1 \in States \cup {NULL}, NEW s2 \in States \cup {NULL}
  PROVE  Above(Lca(s1, s2), s1, NULL, Chain) /\ Above(Lca(s1, s2), s2, NULL, Chain)
<1> DEFINE N == States \cup {NULL}
           lca == CHOOSE g : g = [p \in N \X N |->
                                    IF p[1] = p[2] THEN p[1] ELSE g[Higher(p, Chain, parent)]]
<1>1. IsChain(Chain, States, parent, NULL)
  BY ChainOfStates
<1>2. IsMeet(lca, States, parent, NULL, Chain)
  <2>1. \E g : IsMeet(g, States, parent, NULL, Chain)
    BY <1>1, MeetExists DEF Forest
  <2> QED BY <2>1 DEF IsMeet
<1>3. Lca(s1, s2) = lca[<<s1, s2>>]
  BY DEF Lca, Higher
<1> HIDE DEF lca
<1> QED BY <1>1, <1>2, <1>3, MeetIsAbove DEF Forest

LEMMA MinIsIn ==
  ASSUME NEW X, X \subseteq Nat, X # {}
  PROVE  Min(X) \in X
<1> DEFINE Y == {n \in Nat : (\E x \in X : x <= n) => \E x \in X : \A y \in X : x <= y}
<1>1. 0 \in Y
  OBVIOUS
<1>2. ASSUME NEW n \in Nat, n \in Y PROVE n + 1 \in Y
  <2> SUFFICES ASSUME NEW x \in X, x <= n + 1, \A y \in X : ~(y <= n)
               PROVE  \A y \in X : x <= y
    BY <1>2
  <2> QED OBVIOUS
<1>3. \A n \in Nat : n \in Y
  <2> HIDE DEF Y
  <2> QED BY <1>1, <1>2, InductOnNat
<1>4. PICK x \in X : TRUE
  OBVIOUS
<1>5. \E z \in X : \A y \in X : z <= y
  BY <1>3, <1>4
<1> QED BY <1>5 DEF Min

\* The transition that is found for an event, if these guards pass
FoundFor(s, event, passing) == Handler(Tables, s, event, passing)

\* A transition found is in a table.
LEMMA HandlerOfStates ==
  ASSUME Forest, NEW s \in States, NEW event, NEW passing,
         \A a \in States : DOMAIN Tables[a] \subseteq Nat
  PROVE  FoundFor(s, event, passing) # <<>> =>
           \E a \in States : \E i \in DOMAIN Tables[a] : FoundFor(s, event, passing) = <<Tables[a][i]>>
<1> DEFINE matches == [a \in States |-> Matches(Tables[a], event, passing)]
           found == FoundFor(s, event, passing)
           handler == CHOOSE g : g = [a \in States \cup {NULL} |->
                        IF a = NULL THEN <<>>
                        ELSE IF matches[a] = {} THEN g[parent[a]]
                        ELSE <<Tables[a][Min(matches[a])]>>]
<1>1. IsHandler(handler, States, parent, NULL, matches, Tables)
  <2> HIDE DEF matches
  <2>1. \E g : IsHandler(g, States, parent, NULL, matches, Tables)
    BY HandlerExists DEF Forest
  <2> QED BY <2>1 DEF IsHandler
<1>2. found = handler[s]
  BY DEF Handler, FoundFor
<1>3. \A a \in States : matches[a] \subseteq DOMAIN Tables[a]
  BY DEF Matches
<1> HIDE DEF matches, handler, found
<1>4. found = <<>> \/ \E a \in States : matches[a] # {} /\ found = <<Tables[a][Min(matches[a])]>>
  BY <1>1, <1>2, HandlerFinds DEF Forest
<1>5. ASSUME NEW a \in States, matches[a] # {} PROVE Min(matches[a]) \in DOMAIN Tables[a]
  BY <1>3, <1>5, MinIsIn
<1> QED BY <1>4, <1>5 DEF found

-----------------------------------------------------------------------------
\* The activations of Hsm

\* Where an activation stands, and what its type says.
Steps == {"find", "action", "perform", "exit", "entry"}

Nodes == States \cup {NULL}

AllTransitions ==
  {NoTransition} \cup (UNION {{Tables[s][i] : i \in DOMAIN Tables[s]} : s \in States})
    \cup {Trans("none", s, "none", "none", "external") : s \in States}

Frame ==
  [event : Events \cup {"none"}, tr : AllTransitions, step : Steps, source : Nodes, lca : Nodes,
   again : BOOLEAN, exits : Seq(States), n : Nat]

\* The ancestors of s past the first k, s being the first
Upper(s, k) == {Chain[s][i] : i \in k + 1 .. Len(Chain[s])}

HsmTypes ==
  /\ current_state \in Nodes /\ initial \in Nodes
  /\ initial = NULL <=> current_state = NULL
  /\ initial = NULL => frames = <<>>
  /\ entry_path_buffer \in Seq(States)
  /\ frames \in Seq(Frame)

\* An activation below another one is in its action.
FramesNest ==
  \A i \in 1 .. Len(frames) :
    /\ i < Len(frames) => frames[i].step = "action"
    /\ frames[i].step = "action" => frames[i].tr.type = "internal" \/ frames[i].tr.target \in States
    /\ frames[i].step \in {"perform", "exit"} => frames[i].tr.target \in States
    /\ frames[i].step # "entry" => frames[i].n = 0

\* Between exit actions: those left to run, and what they leave of the chain
Leaving(f) ==
  \E k \in 0 .. Len(Chain[current_state]) : \E m \in k .. Len(Chain[current_state]) :
    /\ f.exits = SubSeq(Chain[current_state], k + 1, m)
    /\ inside = Upper(current_state, k)
    /\ Len(Chain[f.lca]) <= Len(Chain[f.tr.target])
    /\ Upper(current_state, m) =
         Upper(f.tr.target, Len(Chain[f.tr.target]) - Len(Chain[f.lca]))

LeavingItself(f) ==
  /\ f.tr.target = current_state
  /\ \/ f.exits = <<current_state>> /\ inside = Upper(current_state, 0)
     \/ f.exits = <<>> /\ inside = Upper(current_state, 1)

\* Between entry actions: those left to run are in the buffer.
Entering(f) ==
  /\ f.n <= Len(Chain[current_state]) /\ f.n <= Len(entry_path_buffer)
  /\ inside = Upper(current_state, f.n)
  /\ \A i \in 1 .. f.n : entry_path_buffer[i] = Chain[current_state][i]

Stands ==
  /\ frames = <<>> \/ Innermost.step \in {"find", "action", "perform"} =>
       inside = Upper(current_state, 0)
  /\ InStep("exit") => IF Innermost.again THEN LeavingItself(Innermost) ELSE Leaving(Innermost)
  /\ InStep("entry") => Entering(Innermost)

HsmInv == HsmTypes /\ FramesNest /\ Stands

\* Actions, and no other callbacks, dispatch events, as in the example programs.
HsmAssumption ==
  /\ Forest
  /\ \A s \in States :
       /\ DOMAIN Tables[s] \subseteq Nat
       /\ \A i \in DOMAIN Tables[s] :
            Tables[s][i].type = "internal" \/ Tables[s][i].target \in States
  /\ NESTS \subseteq {"action"}

LEMMA OnlyActionsNest ==
  ASSUME NESTS \subseteq {"action"}
  PROVE  HsmAssumption
<1>1. Cardinality(States) \in Nat
  BY MachineAssumption, FS_CardinalityType
<1>2. Forest
  BY <1>1, MachineAssumption DEF Forest, ForestOf
<1> QED BY <1>2, MachineAssumption DEF HsmAssumption

LEMMA ChainTypes ==
  ASSUME Forest
  PROVE  /\ Chain[NULL] = <<>>
         /\ \A s \in Nodes : /\ Chain[s] \in Seq(States) /\ Len(Chain[s]) \in Nat
                             /\ Ancestors(s) = Upper(s, 0)
         /\ \A s \in States : Len(Chain[s]) >= 1 /\ Chain[s][1] = s
<1>1. HasTails(Chain, States, parent, NULL)
  BY ChainOfStates, ChainTails DEF Forest
<1>2. Chain[NULL] = <<>> /\ Len(Chain[NULL]) = 0 /\ <<>> \in Seq(States)
  BY <1>1 DEF HasTails
<1>3. \A s \in States : /\ Chain[s] \in Seq(States) /\ Len(Chain[s]) \in Nat \ {0}
                        /\ Chain[s][1] = s
  BY <1>1 DEF HasTails
<1>4. ASSUME NEW s \in Nodes PROVE Ancestors(s) = Upper(s, 0)
  <2>1. Chain[s] \in Seq(States)
    BY <1>2, <1>3 DEF Nodes
  <2>2. DOMAIN Chain[s] = 0 + 1 .. Len(Chain[s])
    BY <2>1
  <2> QED BY <2>2 DEF Ancestors, ToSet, Upper
<1>5. ASSUME NEW s \in Nodes PROVE Chain[s] \in Seq(States) /\ Len(Chain[s]) \in Nat
  <2>1. CASE s = NULL
    BY <1>2, <2>1
  <2>2. CASE s \in States
    BY <1>3, <2>2
  <2> QED BY <2>1, <2>2 DEF Nodes
<1> QED BY <1>2, <1>3, <1>4, <1>5

\* One state less
LEMMA UpperDrops ==
  ASSUME Forest, NEW s \in Nodes, NEW k \in Nat, k < Len(Chain[s])
  PROVE  /\ Chain[s][k + 1] \in States
         /\ Chain[s][k + 1] \notin Upper(s, k + 1)
         /\ Upper(s, k) = Upper(s, k + 1) \cup {Chain[s][k + 1]}
<1>1. s \in States
  BY ChainTypes DEF Nodes
<1>2. PICK n \in Nat : n = Len(Chain[s])
  BY ChainTypes
<1>3. k + 1 \in 1 .. n
  BY <1>2
<1>4. /\ Chain[s][k + 1] \in States
      /\ \A j \in 1 .. n : Chain[s][j] = Chain[s][k + 1] => j = k + 1
  BY <1>1, <1>2, <1>3, ChainOfStates, ChainClimbs DEF Forest
<1>5. Chain[s][k + 1] \notin Upper(s, k + 1)
  <2> SUFFICES ASSUME NEW j \in k + 1 + 1 .. n, Chain[s][j] = Chain[s][k + 1] PROVE FALSE
    BY <1>2 DEF Upper
  <2>1. j \in 1 .. n /\ j # k + 1
    OBVIOUS
  <2> QED BY <1>4, <2>1
<1>6. Upper(s, k) = Upper(s, k + 1) \cup {Chain[s][k + 1]}
  <2>1. \A j \in k + 1 .. n : j \in k + 1 + 1 .. n \/ j = k + 1
    OBVIOUS
  <2>2. k + 1 \in k + 1 .. n /\ k + 1 + 1 .. n \subseteq k + 1 .. n
    BY <1>3
  <2> QED BY <1>2, <2>1, <2>2 DEF Upper
<1> QED BY <1>4, <1>5, <1>6

\* A part of a chain is closed under parents.
LEMMA UpperEncloses ==
  ASSUME Forest, NEW s \in Nodes, NEW k \in Nat, NEW t \in Upper(s, k), parent[t] # NULL
  PROVE  parent[t] \in Upper(s, k)
<1>1. PICK n \in Nat : n = Len(Chain[s])
  BY ChainTypes
<1>2. PICK i \in k + 1 .. n : t = Chain[s][i]
  BY <1>1 DEF Upper
<1>3. s \in States
  <2>1. n # 0
    BY <1>2
  <2> QED BY <1>1, <2>1, ChainTypes DEF Nodes
<1>4. i \in 1 .. n
  BY <1>2
<1>5. parent[t] = IF i < n THEN Chain[s][i + 1] ELSE NULL
  BY <1>1, <1>2, <1>3, <1>4, ChainOfStates, ChainClimbs DEF Forest
<1>6. i < n /\ parent[t] = Chain[s][i + 1]
  BY <1>5
<1>7. i + 1 \in k + 1 .. n
  BY <1>2, <1>6
<1> QED BY <1>1, <1>6, <1>7 DEF Upper

\* Where a chain goes by, its rest is a chain.
LEMMA UpperOfAbove ==
  ASSUME Forest, NEW s \in Nodes, NEW l, Above(l, s, NULL, Chain)
  PROVE  /\ l \in Nodes /\ Len(Chain[l]) <= Len(Chain[s])
         /\ Upper(s, Len(Chain[s]) - Len(Chain[l])) = Upper(l, 0)
<1>1. PICK n \in Nat : n = Len(Chain[s])
  BY ChainTypes
<1>2. PICK i \in 1 .. n + 1 : l = IF i <= n THEN Chain[s][i] ELSE NULL
  BY <1>1 DEF Above
<1>3. CASE i <= n
  <2>1. l = Chain[s][i] /\ i \in 1 .. n
    BY <1>2, <1>3
  <2>2. s \in States
    <3>1. n # 0
      BY <1>3
    <3> QED BY <1>1, <3>1, ChainTypes DEF Nodes
  <2>3. l \in States /\ Len(Chain[l]) = n - i + 1
    <3>1. IsChain(Chain, States, parent, NULL) /\ i \in 1 .. Len(Chain[s])
      BY <1>1, <2>1, ChainOfStates
    <3>2. Chain[s][i] \in States /\ Len(Chain[Chain[s][i]]) = Len(Chain[s]) - i + 1
      BY <2>2, <3>1, ChainClimbs DEF Forest
    <3> QED BY <1>1, <2>1, <3>2
  <2>4. Chain[l] = SubSeq(Chain[s], i, n)
    <3>1. HasTails(Chain, States, parent, NULL)
      BY ChainOfStates, ChainTails DEF Forest
    <3> QED BY <1>1, <2>1, <2>2, <3>1 DEF HasTails
  <2>5. \A j \in 1 .. n - i + 1 : Chain[l][j] = Chain[s][i + j - 1]
    BY <1>1, <2>1, <2>2, <2>4, ChainTypes, SubSeqProperties
  <2>6. n - Len(Chain[l]) = i - 1
    BY <2>3
  <2>7. Upper(s, i - 1) = Upper(l, 0)
    <3>1. Upper(s, i - 1) = {Chain[s][j] : j \in i .. n}
      BY <1>1 DEF Upper
    <3>2. Upper(l, 0) = {Chain[l][j] : j \in 1 .. n - i + 1}
      BY <2>3 DEF Upper
    <3>3. ASSUME NEW j \in i .. n
          PROVE  j - i + 1 \in 1 .. n - i + 1 /\ Chain[s][j] = Chain[l][j - i + 1]
      <4>1. j - i + 1 \in 1 .. n - i + 1 /\ i + (j - i + 1) - 1 = j
        OBVIOUS
      <4> QED BY <2>5, <4>1
    <3>4. ASSUME NEW j \in 1 .. n - i + 1
          PROVE  i + j - 1 \in i .. n /\ Chain[l][j] = Chain[s][i + j - 1]
      BY <2>5
    <3> QED BY <3>1, <3>2, <3>3, <3>4
  <2> QED BY <1>1, <2>3, <2>6, <2>7 DEF Nodes
<1>4. CASE i > n
  <2>1. l = NULL /\ Len(Chain[l]) = 0
    BY <1>2, <1>4, ChainTypes
  <2>2. Upper(s, n) = {} /\ Upper(l, 0) = {}
    BY <1>1, <2>1 DEF Upper
  <2>3. n - 0 = n /\ 0 <= n
    OBVIOUS
  <2>4. Len(Chain[s]) - Len(Chain[l]) = n
    BY <1>1, <2>1, <2>3
  <2>5. Len(Chain[l]) <= Len(Chain[s]) /\ l \in Nodes
    BY <1>1, <2>1, <2>3 DEF Nodes
  <2> QED BY <2>2, <2>4, <2>5
<1>5. i <= n \/ i > n
  OBVIOUS
<1> QED BY <1>3, <1>4, <1>5

\* Changing the innermost activation, and removing it
LEMMA AdvanceFrames ==
  ASSUME frames \in Seq(Frame), frames # <<>>, NEW f \in Frame, Advance(f)
  PROVE  /\ frames' \in Seq(Frame) /\ frames' # <<>> /\ Len(frames') = Len(frames)
         /\ Innermost' = f
         /\ \A i \in 1 .. Len(frames) : i < Len(frames) => frames'[i] = frames[i]
<1>1. PICK n \in Nat \ {0} : n = Len(frames)
  BY EmptySeq
<1>2. frames' = [frames EXCEPT ![n] = f]
  BY <1>1 DEF Advance
<1>3. n \in 1 .. Len(frames)
  BY <1>1
<1>4. /\ frames' \in Seq(Frame) /\ Len(frames') = Len(frames)
      /\ \A i \in 1 .. Len(frames) : frames'[i] = IF i = n THEN f ELSE frames[i]
  BY <1>2, <1>3, ExceptSeq
<1>5. Innermost' = f
  BY <1>1, <1>3, <1>4 DEF Innermost
<1>6. frames' # <<>>
  BY <1>1, <1>4
<1> QED BY <1>1, <1>4, <1>5, <1>6

LEMMA PopFrames ==
  ASSUME frames \in Seq(Frame), frames # <<>>, Pop
  PROVE  /\ frames' \in Seq(Frame) /\ Len(frames') = Len(frames) - 1
         /\ \A i \in 1 .. Len(frames') : frames'[i] = frames[i] /\ i < Len(frames)
<1>1. PICK n \in Nat \ {0} : n = Len(frames)
  BY EmptySeq
<1>2. frames' = SubSeq(frames, 1, n - 1)
  BY <1>1 DEF Pop, Front
<1>3. \A i \in 1 .. n - 1 : frames[i] \in Frame
  BY <1>1
<1>4. /\ frames' \in Seq(Frame)
      /\ Len(frames') = IF 1 <= n - 1 THEN n - 1 - 1 + 1 ELSE 0
      /\ \A i \in 1 .. n - 1 - 1 + 1 : frames'[i] = frames[1 + i - 1]
  BY <1>2, <1>3, SubSeqProperties
<1>5. Len(frames') = n - 1
  BY <1>4
<1>6. ASSUME NEW i \in 1 .. n - 1 PROVE frames'[i] = frames[i] /\ i < n
  <2>1. i \in 1 .. n - 1 - 1 + 1 /\ 1 + i - 1 = i
    OBVIOUS
  <2> QED BY <1>4, <2>1
<1> QED BY <1>1, <1>4, <1>5, <1>6

LEMMA InnermostType ==
  ASSUME HsmTypes, frames # <<>>
  PROVE  Innermost \in Frame /\ Len(frames) \in 1 .. Len(frames)
<1>1. Len(frames) \in Nat \ {0}
  BY EmptySeq DEF HsmTypes
<1> QED BY <1>1 DEF HsmTypes, Innermost

\* The machine is in a state and its ancestors, or in a part of them.
LEMMA InsideIsUpper ==
  ASSUME HsmAssumption, HsmInv
  PROVE  \E k \in Nat : inside = Upper(current_state, k)
<1> USE DEF HsmInv
<1>1. CASE frames = <<>>
  BY <1>1 DEF Stands
<1>2. CASE frames # <<>>
  <2>1. Innermost.step \in Steps
    BY <1>2, InnermostType DEF Frame
  <2>2. CASE Innermost.step \in {"find", "action", "perform"}
    BY <2>2 DEF Stands
  <2>3. CASE Innermost.step = "exit" /\ Innermost.again
    BY <1>2, <2>3 DEF Stands, InStep, LeavingItself
  <2>4. CASE Innermost.step = "exit" /\ ~Innermost.again
    <3>1. Leaving(Innermost)
      BY <1>2, <2>4 DEF Stands, InStep
    <3>2. PICK k \in 0 .. Len(Chain[current_state]) : inside = Upper(current_state, k)
      BY <3>1 DEF Leaving
    <3> QED BY <3>2
  <2>5. CASE Innermost.step = "entry"
    <3>1. Innermost.n \in Nat
      BY <1>2, InnermostType DEF Frame
    <3> QED BY <1>2, <2>5, <3>1 DEF Stands, InStep, Entering
  <2> QED BY <2>1, <2>2, <2>3, <2>4, <2>5 DEF Steps
<1> QED BY <1>1, <1>2

LEMMA InitHsmInv ==
  ASSUME HsmAssumption, HsmZero
  PROVE  HsmInv
<1>1. Upper(NULL, 0) = {}
  <2>1. Len(Chain[NULL]) = 0
    BY ChainTypes DEF HsmAssumption
  <2> QED BY <2>1 DEF Upper
<1>2. HsmTypes
  BY DEF HsmZero, HsmTypes, Nodes
<1>3. FramesNest
  BY DEF HsmZero, FramesNest
<1>4. Stands
  BY <1>1 DEF HsmZero, Stands, InStep
<1> QED BY <1>2, <1>3, <1>4 DEF HsmInv

LEMMA HsmInitInv ==
  ASSUME HsmAssumption, HsmInv, NEW s \in States, HsmInit(s)
  PROVE  HsmInv'
<1>1. s \in Nodes /\ s # NULL
  BY DEF HsmAssumption, Forest, ForestOf, Nodes
<1>2. inside' = Upper(s, 0)
  BY <1>1, ChainTypes DEF HsmInit, HsmAssumption
<1>3. HsmTypes'
  BY <1>1 DEF HsmInv, HsmTypes, HsmInit
<1>4. FramesNest'
  BY DEF HsmInv, FramesNest, HsmInit
<1>5. Stands'
  BY <1>2 DEF HsmInit, Stands, InStep
<1> QED BY <1>3, <1>4, <1>5 DEF HsmInv

LEMMA HsmDeinitInv ==
  ASSUME HsmAssumption, HsmInv, HsmDeinit
  PROVE  HsmInv'
<1>1. Upper(NULL, 0) = {}
  <2>1. Len(Chain[NULL]) = 0
    BY ChainTypes DEF HsmAssumption
  <2> QED BY <2>1 DEF Upper
<1>2. HsmTypes'
  BY DEF HsmInv, HsmTypes, HsmDeinit, Nodes
<1>3. FramesNest'
  BY DEF HsmInv, FramesNest, HsmDeinit
<1>4. Stands'
  BY <1>1 DEF HsmDeinit, Stands, InStep
<1> QED BY <1>2, <1>3, <1>4 DEF HsmInv

LEMMA HsmResetInv ==
  ASSUME HsmAssumption, HsmInv, HsmReset
  PROVE  HsmInv'
<1> DEFINE f == Activation("none", Trans("none", initial, "none", "none", "external"), "perform")
<1>1. initial \in States /\ current_state \in Nodes
  BY DEF HsmInv, HsmTypes, HsmReset, Nodes
<1>2. f.tr.target = initial
  BY DEF Activation, Trans
<1>3. f \in Frame /\ f.step = "perform" /\ f.n = 0
  <2>1. Trans("none", initial, "none", "none", "external") \in AllTransitions
    <3>1. Trans("none", initial, "none", "none", "external")
            \in {Trans("none", s, "none", "none", "external") : s \in States}
      BY <1>1
    <3> QED BY <3>1 DEF AllTransitions
  <2>2. NULL \in Nodes /\ <<>> \in Seq(States)
    BY DEF Nodes
  <2> QED BY <1>1, <2>1, <2>2 DEF Activation, Frame, Steps
<1> HIDE DEF f
<1>4. frames' = <<f>>
  BY DEF HsmReset, f
<1>5. frames' \in Seq(Frame) /\ Len(frames') = 1 /\ frames'[1] = f /\ frames' # <<>>
  BY <1>3, <1>4
<1>6. HsmTypes'
  BY <1>5 DEF HsmInv, HsmTypes, HsmReset
<1>7. FramesNest'
  BY <1>1, <1>2, <1>3, <1>5 DEF FramesNest
<1>8. inside = Upper(current_state, 0)
  BY DEF HsmInv, Stands, HsmReset
<1>9. Stands'
  BY <1>3, <1>5, <1>8 DEF HsmReset, Stands, InStep, Innermost
<1> QED BY <1>6, <1>7, <1>9 DEF HsmInv

LEMMA HsmDispatchInv ==
  ASSUME HsmAssumption, HsmInv, NEW event \in Events, HsmDispatch(event)
  PROVE  HsmInv'
<1> DEFINE f == Activation(event, NoTransition, "find")
<1>1. f \in Frame /\ f.step = "find" /\ f.n = 0
  <2>1. NoTransition \in AllTransitions
    BY DEF AllTransitions
  <2>2. NULL \in Nodes /\ <<>> \in Seq(States) /\ current_state \in Nodes
    BY DEF Nodes, HsmInv, HsmTypes
  <2> QED BY <2>1, <2>2 DEF Activation, Frame, Steps
<1>2. frames' = Append(frames, f)
  BY DEF HsmDispatch
<1> HIDE DEF f
<1>3. PICK n \in Nat : n = Len(frames) /\ frames \in Seq(Frame)
  BY DEF HsmInv, HsmTypes
<1>4. /\ frames' \in Seq(Frame) /\ Len(frames') = n + 1 /\ frames'[n + 1] = f /\ frames' # <<>>
      /\ \A i \in 1 .. n : frames'[i] = frames[i]
  BY <1>1, <1>2, <1>3
<1>5. frames # <<>> => Innermost.step = "action"
  BY DEF HsmDispatch, HsmAssumption
<1>6. n # 0 => frames[n].step = "action"
  <2>1. n # 0 => frames # <<>>
    BY <1>3
  <2> QED BY <1>3, <1>5, <2>1 DEF Innermost
<1>7. HsmTypes'
  BY <1>4 DEF HsmInv, HsmTypes, HsmDispatch
<1>8. FramesNest'
  <2> SUFFICES ASSUME NEW i \in 1 .. n + 1
               PROVE  /\ i < n + 1 => frames'[i].step = "action"
                      /\ frames'[i].step = "action" =>
                           frames'[i].tr.type = "internal" \/ frames'[i].tr.target \in States
                      /\ frames'[i].step \in {"perform", "exit"} => frames'[i].tr.target \in States
                      /\ frames'[i].step # "entry" => frames'[i].n = 0
    BY <1>4 DEF FramesNest
  <2>1. CASE i = n + 1
    BY <1>1, <1>4, <2>1
  <2>2. CASE i # n + 1
    <3>1. i \in 1 .. n /\ frames'[i] = frames[i] /\ (i < n \/ i = n)
      BY <1>4, <2>2
    <3> QED BY <1>3, <1>6, <3>1 DEF HsmInv, FramesNest
  <2> QED BY <2>1, <2>2
<1>9. inside = Upper(current_state, 0)
  BY <1>5 DEF HsmInv, Stands
<1>10. Innermost' = f
  BY <1>4 DEF Innermost
<1>11. Stands'
  BY <1>1, <1>4, <1>9, <1>10 DEF HsmDispatch, Stands, InStep
<1> QED BY <1>7, <1>8, <1>11 DEF HsmInv

\* The innermost activation changes and is in a state that no other may be in:
\* what the others say is as it was.
LEMMA NestAfterAdvance ==
  ASSUME HsmInv, frames # <<>>, NEW f \in Frame, Advance(f), f.step # "entry" => f.n = 0,
         f.step = "action" => f.tr.type = "internal" \/ f.tr.target \in States,
         f.step \in {"perform", "exit"} => f.tr.target \in States
  PROVE  FramesNest'
<1>1. PICK n \in Nat \ {0} : n = Len(frames) /\ frames \in Seq(Frame)
  BY EmptySeq DEF HsmInv, HsmTypes
<1>2. /\ Len(frames') = n /\ Innermost' = f
      /\ \A i \in 1 .. n : i < n => frames'[i] = frames[i]
  BY <1>1, AdvanceFrames
<1>3. frames'[n] = f
  BY <1>2 DEF Innermost
<1> SUFFICES ASSUME NEW i \in 1 .. n
             PROVE  /\ i < n => frames'[i].step = "action"
                    /\ frames'[i].step = "action" =>
                         frames'[i].tr.type = "internal" \/ frames'[i].tr.target \in States
                    /\ frames'[i].step \in {"perform", "exit"} => frames'[i].tr.target \in States
                    /\ frames'[i].step # "entry" => frames'[i].n = 0
  BY <1>2 DEF FramesNest
<1>4. CASE i = n
  BY <1>3, <1>4
<1>5. CASE i # n
  <2>1. i < n /\ frames'[i] = frames[i]
    BY <1>2, <1>5
  <2> QED BY <1>1, <2>1 DEF HsmInv, FramesNest
<1> QED BY <1>4, <1>5

\* The innermost activation returns while the machine is in its current state
\* and all ancestors.
LEMMA InvAfterPop ==
  ASSUME HsmInv, frames # <<>>, Pop, inside = Upper(current_state, 0),
         UNCHANGED <<current_state, initial, entry_path_buffer, inside>>
  PROVE  HsmInv'
<1>1. PICK n \in Nat \ {0} : n = Len(frames) /\ frames \in Seq(Frame)
  BY EmptySeq DEF HsmInv, HsmTypes
<1>2. /\ frames' \in Seq(Frame) /\ Len(frames') = n - 1
      /\ \A i \in 1 .. n - 1 : frames'[i] = frames[i] /\ i < n
  BY <1>1, PopFrames
<1>3. HsmTypes'
  BY <1>2 DEF HsmInv, HsmTypes
<1>4. \A i \in 1 .. n - 1 : frames[i].step = "action"
  BY <1>1, <1>2 DEF HsmInv, FramesNest
<1>5. FramesNest'
  <2> SUFFICES ASSUME NEW i \in 1 .. n - 1
               PROVE  /\ i < n - 1 => frames'[i].step = "action"
                      /\ frames'[i].step = "action" =>
                           frames'[i].tr.type = "internal" \/ frames'[i].tr.target \in States
                      /\ frames'[i].step \in {"perform", "exit"} => frames'[i].tr.target \in States
                      /\ frames'[i].step # "entry" => frames'[i].n = 0
    BY <1>2 DEF FramesNest
  <2>1. i \in 1 .. n /\ frames'[i] = frames[i] /\ frames[i].step = "action"
    BY <1>2, <1>4
  <2> QED BY <1>1, <2>1 DEF HsmInv, FramesNest
<1>6. frames' # <<>> => Innermost'.step = "action"
  <2> SUFFICES ASSUME frames' # <<>> PROVE Innermost'.step = "action"
    OBVIOUS
  <2>1. n - 1 \in 1 .. n - 1
    BY <1>2, EmptySeq
  <2> QED BY <1>2, <1>4, <2>1 DEF Innermost
<1>7. Stands'
  BY <1>6 DEF Stands, InStep
<1> QED BY <1>3, <1>5, <1>7 DEF HsmInv

LEMMA FindInv ==
  ASSUME HsmAssumption, HsmInv, Find
  PROVE  HsmInv'
<1>1. /\ frames # <<>> /\ Innermost.step = "find"
      /\ UNCHANGED <<current_state, initial, entry_path_buffer, inside, entered>>
  BY DEF Find, InStep
<1>2. Innermost \in Frame /\ Innermost.n = 0
  <2>1. Innermost \in Frame /\ Len(frames) \in 1 .. Len(frames)
    BY <1>1, InnermostType DEF HsmInv
  <2> QED BY <1>1, <2>1 DEF HsmInv, FramesNest, Innermost
<1>3. inside = Upper(current_state, 0)
  BY <1>1 DEF HsmInv, Stands
<1>4. current_state \in States
  BY <1>1 DEF HsmInv, HsmTypes, Nodes
<1>5. PICK passing \in SUBSET Guards :
        IF FoundFor(current_state, Innermost.event, passing) = <<>>
          THEN Pop
          ELSE Advance([Innermost EXCEPT
                 !.tr = Head(FoundFor(current_state, Innermost.event, passing)), !.step = "action"])
  BY DEF Find, FoundFor
<1> DEFINE found == FoundFor(current_state, Innermost.event, passing)
<1>6. CASE found = <<>>
  BY <1>1, <1>3, <1>5, <1>6, InvAfterPop
<1>7. CASE found # <<>>
  <2>1. PICK a \in States : \E i \in DOMAIN Tables[a] : found = <<Tables[a][i]>>
    BY <1>4, <1>7, HandlerOfStates DEF HsmAssumption
  <2>2. PICK i \in DOMAIN Tables[a] : found = <<Tables[a][i]>>
    BY <2>1
  <2> DEFINE tr == Tables[a][i]
             f == [Innermost EXCEPT !.tr = tr, !.step = "action"]
  <2>3. Advance(f)
    BY <1>5, <1>7, <2>2
  <2>4. tr \in AllTransitions /\ (tr.type = "internal" \/ tr.target \in States)
    <3>1. tr \in UNION {{Tables[s][j] : j \in DOMAIN Tables[s]} : s \in States}
      OBVIOUS
    <3> QED BY <3>1 DEF AllTransitions, HsmAssumption
  <2> HIDE DEF tr
  <2>5. f \in Frame /\ f.step = "action" /\ f.n = 0 /\ f.tr = tr
    BY <1>2, <2>4 DEF Frame, Steps
  <2> HIDE DEF f, found
  <2>6. FramesNest'
    BY <1>1, <2>3, <2>4, <2>5, NestAfterAdvance
  <2>7. frames' \in Seq(Frame) /\ frames' # <<>> /\ Innermost' = f
    BY <1>1, <2>3, <2>5, AdvanceFrames DEF HsmInv, HsmTypes
  <2>8. HsmTypes'
    BY <1>1, <2>7 DEF HsmInv, HsmTypes
  <2>9. Stands'
    BY <1>1, <1>3, <2>5, <2>7 DEF Stands, InStep
  <2> QED BY <2>6, <2>8, <2>9 DEF HsmInv
<1> QED BY <1>6, <1>7

LEMMA ActionReturnsInv ==
  ASSUME HsmAssumption, HsmInv, ActionReturns
  PROVE  HsmInv'
<1>1. /\ frames # <<>> /\ Innermost.step = "action"
      /\ UNCHANGED <<current_state, initial, entry_path_buffer, inside, entered>>
  BY DEF ActionReturns, InStep
<1>2. /\ Innermost \in Frame /\ Innermost.n = 0
      /\ Innermost.tr.type = "internal" \/ Innermost.tr.target \in States
  <2>1. Innermost \in Frame /\ Len(frames) \in 1 .. Len(frames)
    BY <1>1, InnermostType DEF HsmInv
  <2> QED BY <1>1, <2>1 DEF HsmInv, FramesNest, Innermost
<1>3. inside = Upper(current_state, 0)
  BY <1>1 DEF HsmInv, Stands
<1>4. CASE Innermost.tr.type = "internal"
  BY <1>1, <1>3, <1>4, InvAfterPop DEF ActionReturns
<1>5. CASE Innermost.tr.type # "internal"
  <2> DEFINE f == [Innermost EXCEPT !.step = "perform"]
  <2>1. Advance(f)
    BY <1>5 DEF ActionReturns
  <2>2. f \in Frame /\ f.step = "perform" /\ f.n = 0 /\ f.tr = Innermost.tr
    BY <1>2 DEF Frame, Steps
  <2> HIDE DEF f
  <2>3. FramesNest'
    BY <1>1, <1>2, <1>5, <2>1, <2>2, NestAfterAdvance
  <2>4. frames' \in Seq(Frame) /\ frames' # <<>> /\ Innermost' = f
    BY <1>1, <2>1, <2>2, AdvanceFrames DEF HsmInv, HsmTypes
  <2>5. HsmTypes'
    BY <1>1, <2>4 DEF HsmInv, HsmTypes
  <2>6. Stands'
    BY <1>1, <1>3, <2>2, <2>4 DEF Stands, InStep
  <2> QED BY <2>3, <2>5, <2>6 DEF HsmInv
<1> QED BY <1>4, <1>5

LEMMA StartTransitionInv ==
  ASSUME HsmAssumption, HsmInv, StartTransition
  PROVE  HsmInv'
<1> DEFINE target == Innermost.tr.target
           lca == FindLca(current_state, target)
           again == current_state = target
           f == [Innermost EXCEPT !.step = "exit", !.lca = lca, !.again = again,
                   !.exits = IF again THEN <<target>> ELSE Below(current_state, lca)]
<1>1. /\ frames # <<>> /\ Innermost.step = "perform" /\ Advance(f)
      /\ UNCHANGED <<current_state, initial, entry_path_buffer, inside, entered>>
  BY DEF StartTransition, InStep, Source, Exits
<1>2. Innermost \in Frame /\ Innermost.n = 0 /\ target \in States
  <2>1. Innermost \in Frame /\ Len(frames) \in 1 .. Len(frames)
    BY <1>1, InnermostType DEF HsmInv
  <2> QED BY <1>1, <2>1 DEF HsmInv, FramesNest, Innermost
<1>3. inside = Upper(current_state, 0)
  BY <1>1 DEF HsmInv, Stands
<1>4. current_state \in States /\ current_state # NULL /\ current_state \in Nodes /\ target \in Nodes
  BY <1>1, <1>2 DEF HsmInv, HsmTypes, Nodes
<1>5. lca = Lca(current_state, target)
  BY <1>4 DEF FindLca
<1>6. Above(lca, current_state, NULL, Chain) /\ Above(lca, target, NULL, Chain)
  BY <1>4, <1>5, LcaOfStates DEF Nodes, HsmAssumption
<1> HIDE DEF lca
<1>7. /\ lca \in Nodes
      /\ Len(Chain[lca]) <= Len(Chain[current_state]) /\ Len(Chain[lca]) <= Len(Chain[target])
      /\ Upper(current_state, Len(Chain[current_state]) - Len(Chain[lca])) = Upper(lca, 0)
      /\ Upper(target, Len(Chain[target]) - Len(Chain[lca])) = Upper(lca, 0)
  BY <1>4, <1>6, UpperOfAbove DEF HsmAssumption
<1>8. PICK n \in Nat, l \in Nat : /\ n = Len(Chain[current_state]) /\ l = Len(Chain[lca])
                                  /\ Chain[current_state] \in Seq(States)
  BY <1>4, <1>7, ChainTypes DEF HsmAssumption
<1>9. l <= n /\ n - l \in 0 .. n
  <2>1. Len(Chain[lca]) <= Len(Chain[current_state])
    BY <1>7
  <2>2. l <= n
    BY <1>8, <2>1
  <2> HIDE DEF target, again, f
  <2>3. n - l \in 0 .. n
    BY <2>2
  <2> QED BY <2>2, <2>3
<1>10. Below(current_state, lca) \in Seq(States)
  <2>1. \A i \in 1 .. n - l : Chain[current_state][i] \in States
    BY <1>8, <1>9
  <2> QED BY <1>8, <2>1, SubSeqProperties DEF Below
<1>11. /\ f \in Frame /\ f.step = "exit" /\ f.n = 0 /\ f.tr = Innermost.tr /\ f.lca = lca
       /\ f.again = again
       /\ f.exits = IF again THEN <<target>> ELSE Below(current_state, lca)
  <2>1. (IF again THEN <<target>> ELSE Below(current_state, lca)) \in Seq(States)
    BY <1>2, <1>10
  <2> HIDE DEF target
  <2> QED BY <1>2, <1>7, <2>1 DEF Frame, Steps
<1> HIDE DEF f
<1>12. FramesNest'
  BY <1>1, <1>2, <1>11, NestAfterAdvance
<1>13. frames' \in Seq(Frame) /\ frames' # <<>> /\ Innermost' = f
  BY <1>1, <1>11, AdvanceFrames DEF HsmInv, HsmTypes
<1>14. HsmTypes'
  BY <1>1, <1>13 DEF HsmInv, HsmTypes
<1>15. again => LeavingItself(Innermost)'
  BY <1>1, <1>3, <1>11, <1>13 DEF LeavingItself
<1>16. ~again => Leaving(Innermost)'
  <2> SUFFICES ASSUME ~again
               PROVE  /\ f.exits = SubSeq(Chain[current_state], 0 + 1, n - l)
                      /\ inside = Upper(current_state, 0)
                      /\ Len(Chain[f.lca]) <= Len(Chain[f.tr.target])
                      /\ Upper(current_state, n - l) =
                           Upper(f.tr.target, Len(Chain[f.tr.target]) - Len(Chain[f.lca]))
    <3>1. 0 \in 0 .. n /\ n - l \in 0 .. n
      BY <1>9
    <3> QED BY <1>1, <1>8, <1>13, <3>1 DEF Leaving
  <2>1. f.exits = SubSeq(Chain[current_state], 1, n - l)
    BY <1>8, <1>11 DEF Below
  <2>2. f.lca = lca /\ f.tr.target = target
    BY <1>11
  <2>3. Len(Chain[f.lca]) <= Len(Chain[f.tr.target])
    BY <1>7, <2>2
  <2>4. /\ Upper(current_state, n - l) = Upper(lca, 0)
        /\ Upper(target, Len(Chain[target]) - Len(Chain[lca])) = Upper(lca, 0)
    BY <1>7, <1>8
  <2>5. 0 + 1 = 1
    OBVIOUS
  <2> HIDE DEF target
  <2> QED BY <1>3, <2>1, <2>2, <2>3, <2>4, <2>5
<1>17. Stands'
  BY <1>11, <1>13, <1>15, <1>16 DEF Stands, InStep
<1> QED BY <1>12, <1>14, <1>17 DEF HsmInv

LEMMA ExitActionInv ==
  ASSUME HsmAssumption, HsmInv, ExitAction
  PROVE  HsmInv' /\ Head(Innermost.exits) \in inside
<1> DEFINE f == [Innermost EXCEPT !.exits = Tail(@)]
           x == Head(Innermost.exits)
<1>1. /\ frames # <<>> /\ Innermost.step = "exit" /\ Innermost.exits # <<>> /\ Advance(f)
      /\ inside' = inside \ {x}
      /\ UNCHANGED <<current_state, initial, entry_path_buffer, entered>>
  BY DEF ExitAction, InStep
<1>2. Innermost \in Frame /\ Innermost.n = 0 /\ Innermost.tr.target \in States
  <2>1. Innermost \in Frame /\ Len(frames) \in 1 .. Len(frames)
    BY <1>1, InnermostType DEF HsmInv
  <2> QED BY <1>1, <2>1 DEF HsmInv, FramesNest, Innermost
<1>3. current_state \in States /\ current_state \in Nodes
  BY <1>1 DEF HsmInv, HsmTypes, Nodes
<1>4. /\ f \in Frame /\ f.step = "exit" /\ f.n = 0 /\ f.tr = Innermost.tr
      /\ f.lca = Innermost.lca /\ f.again = Innermost.again /\ f.exits = Tail(Innermost.exits)
  <2>1. Tail(Innermost.exits) \in Seq(States)
    BY <1>1, <1>2, HeadTailProperties DEF Frame
  <2> QED BY <1>1, <1>2, <2>1 DEF Frame
<1> HIDE DEF f
<1>5. FramesNest'
  BY <1>1, <1>2, <1>4, NestAfterAdvance
<1>6. frames' \in Seq(Frame) /\ frames' # <<>> /\ Innermost' = f
  BY <1>1, <1>4, AdvanceFrames DEF HsmInv, HsmTypes
<1>7. HsmTypes'
  BY <1>1, <1>6 DEF HsmInv, HsmTypes
<1>8. PICK n \in Nat : /\ n = Len(Chain[current_state]) /\ Chain[current_state] \in Seq(States)
                       /\ Chain[current_state][1] = current_state /\ n >= 1
  BY <1>3, ChainTypes DEF HsmAssumption
<1>9. CASE Innermost.again
  <2>1. LeavingItself(Innermost)
    BY <1>1, <1>9 DEF HsmInv, Stands, InStep
  <2>2. Innermost.exits = <<current_state>> /\ inside = Upper(current_state, 0)
    BY <1>1, <2>1 DEF LeavingItself
  <2>3. x = current_state /\ f.exits = <<>>
    BY <1>4, <2>2
  <2>4. /\ current_state \notin Upper(current_state, 0 + 1)
        /\ Upper(current_state, 0) = Upper(current_state, 0 + 1) \cup {current_state}
    BY <1>3, <1>8, UpperDrops DEF HsmAssumption
  <2>5. inside' = Upper(current_state, 1) /\ x \in inside
    BY <1>1, <2>2, <2>3, <2>4
  <2>6. LeavingItself(Innermost)'
    BY <1>1, <1>4, <1>6, <2>1, <2>3, <2>5 DEF LeavingItself
  <2>7. Stands'
    BY <1>4, <1>6, <1>9, <2>6 DEF Stands, InStep
  <2> QED BY <1>5, <1>7, <2>5, <2>7 DEF HsmInv
<1>10. CASE ~Innermost.again
  <2>1. Leaving(Innermost)
    BY <1>1, <1>10 DEF HsmInv, Stands, InStep
  <2>21. PICK k \in 0 .. n : \E m \in k .. n :
          /\ Innermost.exits = SubSeq(Chain[current_state], k + 1, m)
          /\ inside = Upper(current_state, k)
          /\ Len(Chain[Innermost.lca]) <= Len(Chain[Innermost.tr.target])
          /\ Upper(current_state, m) =
               Upper(Innermost.tr.target,
                     Len(Chain[Innermost.tr.target]) - Len(Chain[Innermost.lca]))
    BY <1>8, <2>1 DEF Leaving
  <2>2. PICK m \in k .. n :
          /\ Innermost.exits = SubSeq(Chain[current_state], k + 1, m)
          /\ inside = Upper(current_state, k)
          /\ Len(Chain[Innermost.lca]) <= Len(Chain[Innermost.tr.target])
          /\ Upper(current_state, m) =
               Upper(Innermost.tr.target,
                     Len(Chain[Innermost.tr.target]) - Len(Chain[Innermost.lca]))
    BY <2>21
  <2>3. k < m
    <3> SUFFICES ASSUME m < k + 1 PROVE FALSE
      OBVIOUS
    <3>1. SubSeq(Chain[current_state], k + 1, m) = <<>>
      BY SubSeqEmpty
    <3> QED BY <1>1, <2>2, <3>1
  <2>4. k + 1 \in 1 .. n /\ m \in k + 1 .. n /\ k \in Nat /\ k < n
    BY <2>3
  <2>5. x = Chain[current_state][k + 1] /\ f.exits = SubSeq(Chain[current_state], (k + 1) + 1, m)
    BY <1>4, <1>8, <2>2, <2>4, HeadTailOfSubSeq
  <2>6. /\ Chain[current_state][k + 1] \notin Upper(current_state, k + 1)
        /\ Upper(current_state, k) = Upper(current_state, k + 1) \cup {Chain[current_state][k + 1]}
    BY <1>3, <1>8, <2>4, UpperDrops DEF HsmAssumption
  <2>7. inside' = Upper(current_state, k + 1) /\ x \in inside
    BY <1>1, <2>2, <2>5, <2>6
  <2>8. k + 1 \in 0 .. n
    BY <2>4
  <2>9. Leaving(Innermost)'
    BY <1>1, <1>4, <1>6, <1>8, <2>2, <2>4, <2>5, <2>7, <2>8 DEF Leaving
  <2>10. Stands'
    BY <1>4, <1>6, <1>10, <2>9 DEF Stands, InStep
  <2> QED BY <1>5, <1>7, <2>7, <2>10 DEF HsmInv
<1> QED BY <1>9, <1>10

LEMMA ArriveInv ==
  ASSUME HsmAssumption, HsmInv, Arrive
  PROVE  HsmInv'
<1> DEFINE target == Innermost.tr.target
           path == Below(target, Innermost.lca)
           f == [Innermost EXCEPT !.step = "entry", !.n = Len(path)]
<1>1. /\ frames # <<>> /\ Innermost.step = "exit" /\ Innermost.exits = <<>> /\ ~Innermost.again
      /\ Advance(f)
      /\ entry_path_buffer' = path \o SubSeq(entry_path_buffer, Len(path) + 1, Len(entry_path_buffer))
      /\ current_state' = target
      /\ UNCHANGED <<initial, inside, entered>>
  BY DEF Arrive, InStep, EntryPath
<1>2. Innermost \in Frame /\ target \in States /\ Innermost.lca \in Nodes
  <2>1. Innermost \in Frame /\ Len(frames) \in 1 .. Len(frames)
    BY <1>1, InnermostType DEF HsmInv
  <2> QED BY <1>1, <2>1 DEF HsmInv, FramesNest, Innermost, Frame
<1>3. current_state \in States /\ current_state \in Nodes /\ target \in Nodes /\ target # NULL
  BY <1>1, <1>2 DEF HsmInv, HsmTypes, Nodes, HsmAssumption, Forest, ForestOf
<1>4. PICK n \in Nat, t \in Nat, l \in Nat :
        /\ n = Len(Chain[current_state]) /\ t = Len(Chain[target]) /\ l = Len(Chain[Innermost.lca])
        /\ Chain[current_state] \in Seq(States) /\ Chain[target] \in Seq(States)
  BY <1>2, <1>3, ChainTypes DEF HsmAssumption
<1>5. Leaving(Innermost)
  BY <1>1 DEF HsmInv, Stands, InStep
<1>61. PICK k \in 0 .. n : \E m \in k .. n :
        /\ Innermost.exits = SubSeq(Chain[current_state], k + 1, m)
        /\ inside = Upper(current_state, k)
        /\ l <= t /\ Upper(current_state, m) = Upper(target, t - l)
  BY <1>4, <1>5 DEF Leaving
<1>6. PICK m \in k .. n :
        /\ Innermost.exits = SubSeq(Chain[current_state], k + 1, m)
        /\ inside = Upper(current_state, k)
        /\ l <= t /\ Upper(current_state, m) = Upper(target, t - l)
  BY <1>61
<1>7. k = m
  <2> SUFFICES ASSUME k < m PROVE FALSE
    OBVIOUS
  <2>1. \A i \in k + 1 .. m : Chain[current_state][i] \in States
    BY <1>4
  <2>2. Len(SubSeq(Chain[current_state], k + 1, m)) = m - (k + 1) + 1
    BY <2>1, SubSeqProperties
  <2>3. Len(Innermost.exits) = 0
    BY <1>1
  <2> QED BY <1>6, <2>2, <2>3
<1>8. inside = Upper(target, t - l) /\ t - l \in Nat /\ t - l <= t
  BY <1>6, <1>7
<1>9. /\ path \in Seq(States) /\ Len(path) = t - l
      /\ \A i \in 1 .. t - l : path[i] = Chain[target][i]
  <2>1. \A i \in 1 .. t - l : Chain[target][i] \in States
    <3> HIDE DEF target, path
    <3>1. \A i \in 1 .. t : Chain[target][i] \in States
      BY <1>4
    <3> QED BY <1>8, <3>1
  <2>2. path = SubSeq(Chain[target], 1, t - l)
    BY <1>4 DEF Below
  <2> HIDE DEF path, target
  <2>3. /\ path \in Seq(States) /\ Len(path) = IF 1 <= t - l THEN t - l - 1 + 1 ELSE 0
        /\ \A i \in 1 .. t - l - 1 + 1 : path[i] = Chain[target][1 + i - 1]
    BY <1>8, <2>1, <2>2, SubSeqProperties
  <2>4. Len(path) = t - l
    BY <1>8, <2>3
  <2>5. ASSUME NEW i \in 1 .. t - l PROVE path[i] = Chain[target][i]
    <3>1. i \in 1 .. t - l - 1 + 1 /\ 1 + i - 1 = i
      BY <1>8
    <3> QED BY <2>3, <3>1
  <2> QED BY <2>3, <2>4, <2>5
<1>10. /\ f \in Frame /\ f.step = "entry" /\ f.n = t - l
  BY <1>2, <1>8, <1>9 DEF Frame, Steps
<1> HIDE DEF f, path
<1>11. /\ entry_path_buffer' \in Seq(States) /\ t - l <= Len(entry_path_buffer')
       /\ \A i \in 1 .. t - l : entry_path_buffer'[i] = Chain[target][i]
  <2> DEFINE rest == SubSeq(entry_path_buffer, Len(path) + 1, Len(entry_path_buffer))
  <2>1. rest \in Seq(States)
    <3>1. entry_path_buffer \in Seq(States) /\ Len(entry_path_buffer) \in Nat
      BY DEF HsmInv, HsmTypes
    <3>2. \A i \in Len(path) + 1 .. Len(entry_path_buffer) : entry_path_buffer[i] \in States
      BY <1>8, <1>9, <3>1
    <3>3. Len(path) + 1 \in Int
      BY <1>8, <1>9
    <3> QED BY <3>1, <3>2, <3>3, SubSeqProperties
  <2> HIDE DEF rest
  <2>2. entry_path_buffer' = path \o rest
    BY <1>1 DEF rest
  <2>3. Len(rest) \in Nat
    BY <2>1
  <2>4. /\ entry_path_buffer' \in Seq(States)
        /\ Len(entry_path_buffer') = Len(path) + Len(rest)
        /\ \A i \in 1 .. Len(path) + Len(rest) :
             entry_path_buffer'[i] = IF i <= Len(path) THEN path[i] ELSE rest[i - Len(path)]
    BY <1>9, <2>1, <2>2, ConcatProperties
  <2>5. ASSUME NEW i \in 1 .. t - l PROVE entry_path_buffer'[i] = Chain[target][i]
    <3>1. i \in 1 .. Len(path) + Len(rest) /\ i <= Len(path)
      BY <1>8, <1>9, <2>3
    <3> QED BY <1>9, <2>4, <3>1
  <2>6. t - l <= Len(entry_path_buffer')
    BY <1>8, <1>9, <2>3, <2>4
  <2> QED BY <2>4, <2>5, <2>6
<1>12. FramesNest'
  BY <1>1, <1>10, NestAfterAdvance
<1>13. frames' \in Seq(Frame) /\ frames' # <<>> /\ Innermost' = f
  BY <1>1, <1>10, AdvanceFrames DEF HsmInv, HsmTypes
<1>14. HsmTypes'
  <2>1. initial # NULL
    BY <1>1 DEF HsmInv, HsmTypes
  <2> QED BY <1>1, <1>3, <1>11, <1>13, <2>1 DEF HsmInv, HsmTypes
<1>15. Entering(Innermost)'
  BY <1>1, <1>4, <1>8, <1>10, <1>11, <1>13 DEF Entering
<1>16. Stands'
  BY <1>10, <1>13, <1>15 DEF Stands, InStep
<1> QED BY <1>12, <1>14, <1>16 DEF HsmInv

LEMMA EntryActionInv ==
  ASSUME HsmAssumption, HsmInv, EntryAction
  PROVE  HsmInv' /\ entry_path_buffer[Innermost.n] \notin inside
<1> DEFINE f == [Innermost EXCEPT !.n = @ - 1]
           x == entry_path_buffer[Innermost.n]
<1>1. /\ frames # <<>> /\ Innermost.step = "entry" /\ Innermost.n > 0 /\ Advance(f)
      /\ inside' = inside \cup {x}
      /\ UNCHANGED <<current_state, initial, entry_path_buffer>>
  BY DEF EntryAction, InStep, Enter
<1>2. Innermost \in Frame /\ Innermost.n \in Nat
  BY <1>1, InnermostType DEF HsmInv, Frame
<1>3. current_state \in Nodes
  BY DEF HsmInv, HsmTypes
<1>4. PICK n \in Nat : n = Len(Chain[current_state])
  BY <1>3, ChainTypes DEF HsmAssumption
<1>5. PICK e \in Nat \ {0} : e = Innermost.n
  BY <1>1, <1>2
<1>6. /\ e <= n /\ e <= Len(entry_path_buffer) /\ inside = Upper(current_state, e)
      /\ \A i \in 1 .. e : entry_path_buffer[i] = Chain[current_state][i]
  BY <1>1, <1>4, <1>5 DEF HsmInv, Stands, InStep, Entering
<1>7. e - 1 \in Nat /\ e - 1 < n /\ (e - 1) + 1 = e
  BY <1>6
<1>8. x = Chain[current_state][e]
  BY <1>5, <1>6
<1>9. /\ Chain[current_state][e] \notin Upper(current_state, e)
      /\ Upper(current_state, e - 1) = Upper(current_state, e) \cup {Chain[current_state][e]}
  BY <1>3, <1>4, <1>7, UpperDrops DEF HsmAssumption
<1>10. f \in Frame /\ f.step = "entry" /\ f.n = e - 1
  BY <1>1, <1>2, <1>5, <1>7 DEF Frame
<1> HIDE DEF f
<1>11. FramesNest'
  BY <1>1, <1>10, NestAfterAdvance
<1>12. frames' \in Seq(Frame) /\ frames' # <<>> /\ Innermost' = f
  BY <1>1, <1>10, AdvanceFrames DEF HsmInv, HsmTypes
<1>13. HsmTypes'
  BY <1>1, <1>12 DEF HsmInv, HsmTypes
<1>14. Entering(Innermost)'
  <2>1. Len(entry_path_buffer) \in Nat
    BY DEF HsmInv, HsmTypes
  <2>2. e - 1 <= n /\ e - 1 <= Len(entry_path_buffer) /\ \A i \in 1 .. e - 1 : i \in 1 .. e
    BY <1>6, <1>7, <2>1
  <2> QED BY <1>1, <1>4, <1>6, <1>8, <1>9, <1>10, <1>12, <2>2 DEF Entering
<1>15. Stands'
  BY <1>10, <1>12, <1>14 DEF Stands, InStep
<1> QED BY <1>6, <1>8, <1>9, <1>11, <1>13, <1>15 DEF HsmInv

LEMMA ReenterActionInv ==
  ASSUME HsmAssumption, HsmInv, ReenterAction
  PROVE  HsmInv' /\ Innermost.tr.target \notin inside
<1> DEFINE f == [Innermost EXCEPT !.step = "entry"]
<1>1. /\ frames # <<>> /\ Innermost.step = "exit" /\ Innermost.exits = <<>> /\ Innermost.again
      /\ Advance(f)
      /\ inside' = inside \cup {Innermost.tr.target}
      /\ UNCHANGED <<current_state, initial, entry_path_buffer>>
  BY DEF ReenterAction, InStep, Enter
<1>2. Innermost \in Frame /\ Innermost.n = 0
  <2>1. Innermost \in Frame /\ Len(frames) \in 1 .. Len(frames)
    BY <1>1, InnermostType DEF HsmInv
  <2> QED BY <1>1, <2>1 DEF HsmInv, FramesNest, Innermost
<1>3. current_state \in States /\ current_state \in Nodes
  BY <1>1 DEF HsmInv, HsmTypes, Nodes
<1>4. PICK n \in Nat : /\ n = Len(Chain[current_state]) /\ Chain[current_state][1] = current_state
                       /\ n >= 1
  BY <1>3, ChainTypes DEF HsmAssumption
<1>5. Innermost.tr.target = current_state /\ inside = Upper(current_state, 1)
  BY <1>1 DEF HsmInv, Stands, InStep, LeavingItself
<1>6. /\ current_state \notin Upper(current_state, 0 + 1)
      /\ Upper(current_state, 0) = Upper(current_state, 0 + 1) \cup {current_state}
  <2>1. 0 \in Nat /\ 0 < Len(Chain[current_state]) /\ 0 + 1 = 1
    BY <1>4
  <2> QED BY <1>3, <1>4, <2>1, UpperDrops DEF HsmAssumption
<1>7. inside' = Upper(current_state, 0) /\ current_state \notin inside
  BY <1>1, <1>5, <1>6
<1>8. f \in Frame /\ f.step = "entry" /\ f.n = 0
  BY <1>2 DEF Frame, Steps
<1> HIDE DEF f
<1>9. FramesNest'
  BY <1>1, <1>8, NestAfterAdvance
<1>10. frames' \in Seq(Frame) /\ frames' # <<>> /\ Innermost' = f
  BY <1>1, <1>8, AdvanceFrames DEF HsmInv, HsmTypes
<1>11. HsmTypes'
  BY <1>1, <1>10 DEF HsmInv, HsmTypes
<1>12. Entering(Innermost)'
  <2>1. 0 <= Len(entry_path_buffer) /\ 0 <= n
    BY DEF HsmInv, HsmTypes
  <2> QED BY <1>1, <1>4, <1>7, <1>8, <1>10, <2>1 DEF Entering
<1>13. Stands'
  BY <1>8, <1>10, <1>12 DEF Stands, InStep
<1> QED BY <1>5, <1>7, <1>9, <1>11, <1>13 DEF HsmInv

LEMMA ReturnInv ==
  ASSUME HsmAssumption, HsmInv, Return
  PROVE  HsmInv'
<1>1. frames # <<>> /\ Innermost.step = "entry" /\ Innermost.n = 0 /\ Pop
  BY DEF Return, InStep
<1>2. inside = Upper(current_state, 0)
  BY <1>1 DEF HsmInv, Stands, InStep, Entering
<1> QED BY <1>1, <1>2, InvAfterPop DEF Return

LEMMA HsmInvHolds ==
  ASSUME HsmAssumption
  PROVE  HsmSpec => []HsmInv
<1>1. HsmZero => HsmInv
  BY InitHsmInv
<1>2. HsmInv /\ [HsmNext]_hsm_vars => HsmInv'
  <2> SUFFICES ASSUME HsmInv, [HsmNext]_hsm_vars PROVE HsmInv'
    OBVIOUS
  <2>1. CASE UNCHANGED hsm_vars
    BY <2>1 DEF HsmInv, HsmTypes, FramesNest, Stands, InStep, Innermost, Leaving, LeavingItself,
                Entering, hsm_vars
  <2>2. CASE HsmNext
    BY <2>2, HsmInitInv, HsmDeinitInv, HsmResetInv, HsmDispatchInv, FindInv, ActionReturnsInv,
       StartTransitionInv, ExitActionInv, ArriveInv, EntryActionInv, ReenterActionInv, ReturnInv
       DEF HsmNext
  <2> QED BY <2>1, <2>2
<1> QED BY <1>1, <1>2, PTL DEF HsmSpec

(***************************************************************************)
(* Hsm: in the middle of transitions that actions started within others no *)
(* state is inside without its parent, and between events the machine is   *)
(* in the current state and its ancestors.                                 *)
(***************************************************************************)
THEOREM MachineStaysConsistent ==
  ASSUME NESTS \subseteq {"action"}
  PROVE  HsmSpec => []MachineConsistent
<1>0. HsmAssumption
  BY OnlyActionsNest
<1>1. HsmInv => MachineConsistent
  <2> SUFFICES ASSUME HsmInv PROVE MachineConsistent
    OBVIOUS
  <2>1. ParentsEnclose
    <3>1. PICK k \in Nat : inside = Upper(current_state, k)
      BY <1>0, InsideIsUpper
    <3>2. current_state \in Nodes
      BY DEF HsmInv, HsmTypes
    <3> QED BY <1>0, <3>1, <3>2, UpperEncloses DEF ParentsEnclose, HsmAssumption
  <2>2. InsideMatchesCurrent
    BY <1>0, ChainTypes DEF HsmInv, HsmTypes, Stands, InsideMatchesCurrent, HsmAssumption
  <2> QED BY <2>1, <2>2 DEF MachineConsistent
<1>2. HsmSpec => []HsmInv
  BY <1>0, HsmInvHolds
<1> QED BY <1>1, <1>2, PTL

(***************************************************************************)
(* Hsm: entry actions run for states the machine is not in, exit actions   *)
(* for states it is in.                                                    *)
(***************************************************************************)
THEOREM EntriesAndExitsAlternate ==
  ASSUME NESTS \subseteq {"action"}
  PROVE  HsmSpec => EntersOnlyOutside
<1>0. HsmAssumption
  BY OnlyActionsNest
<1>1. HsmInv =>
        /\ EntryAction => entry_path_buffer[Innermost.n] \notin inside
        /\ ReenterAction => Innermost.tr.target \notin inside
        /\ ExitAction => Head(Innermost.exits) \in inside
  BY <1>0, EntryActionInv, ReenterActionInv, ExitActionInv
<1>2. HsmSpec => []HsmInv
  BY <1>0, HsmInvHolds
<1> QED BY <1>1, <1>2, PTL DEF EntersOnlyOutside

-----------------------------------------------------------------------------
\* The state machine of FileWriter


FwStates == DOMAIN FwTree

LEMMA FwTreeIs ==
  /\ FwStates = {"TOP", "IDLE", "BUSY", "WRITING", "SYNCING", "DONE", "FAILED"}
  /\ FwTree["TOP"] = "NULL" /\ FwTree["IDLE"] = "TOP" /\ FwTree["BUSY"] = "TOP"
  /\ FwTree["WRITING"] = "BUSY" /\ FwTree["SYNCING"] = "BUSY"
  /\ FwTree["DONE"] = "IDLE" /\ FwTree["FAILED"] = "IDLE"
  /\ FwTree \in [FwStates -> FwStates \cup {"NULL"}]
<1>1. FwStates = {"TOP", "IDLE", "BUSY", "WRITING", "SYNCING", "DONE", "FAILED"}
  BY DEF FwStates, FwTree
<1>2. /\ FwTree["TOP"] = "NULL" /\ FwTree["IDLE"] = "TOP" /\ FwTree["BUSY"] = "TOP"
      /\ FwTree["WRITING"] = "BUSY" /\ FwTree["SYNCING"] = "BUSY"
      /\ FwTree["DONE"] = "IDLE" /\ FwTree["FAILED"] = "IDLE"
  BY DEF FwTree
<1>3. FwTree = [s \in FwStates |-> FwTree[s]]
  BY DEF FwTree, FwStates
<1>4. \A s \in FwStates : FwTree[s] \in FwStates \cup {"NULL"}
  BY <1>1, <1>2
<1> QED BY <1>1, <1>2, <1>3, <1>4

FwFound(s, event) ==
  FwHsm!Handler([t \in DOMAIN FwTree |-> FwTable(t)], s, event, {})

LEMMA AfterIs ==
  ASSUME NEW event
  PROVE  After(event) = IF FwFound(current, event) = <<>> THEN current
                        ELSE Head(FwFound(current, event)).target
BY DEF After, FwFound

LEMMA FwForest == ForestOf(FwStates, FwTree, "NULL")
<1> DEFINE depth == [s \in FwStates |-> CASE s = "TOP" -> 0
                                          [] s \in {"IDLE", "BUSY"} -> 1
                                          [] OTHER -> 2]
<1>1. depth \in [FwStates -> 0 .. 2]
  OBVIOUS
<1>2. \A s \in FwStates : FwTree[s] # "NULL" => depth[FwTree[s]] < depth[s]
  BY FwTreeIs
<1>3. "NULL" \notin FwStates
  BY FwTreeIs
<1> HIDE DEF depth
<1> QED BY <1>1, <1>2, <1>3, FwTreeIs DEF ForestOf

\* The entries of a state's table for an event, which have no guards
FwMatches(event) == [s \in FwStates |-> FwHsm!Matches(FwTable(s), event, {})]

LEMMA FwFoundIn ==
  ASSUME NEW event, NEW s \in FwStates
  PROVE  FwFound(s, event) = IF FwMatches(event)[s] = {} 
                               THEN IF FwTree[s] = "NULL" THEN <<>> ELSE FwFound(FwTree[s], event)
                               ELSE <<FwTable(s)[Min(FwMatches(event)[s])]>>
<1> DEFINE tables == [t \in FwStates |-> FwTable(t)]
           matches == [a \in FwStates |-> FwHsm!Matches(tables[a], event, {})]
           handler == CHOOSE g : g = [a \in FwStates \cup {"NULL"} |->
                        IF a = "NULL" THEN <<>>
                        ELSE IF matches[a] = {} THEN g[FwTree[a]]
                        ELSE <<tables[a][Min(matches[a])]>>]
<1>1. IsHandler(handler, FwStates, FwTree, "NULL", matches, tables)
  <2> HIDE DEF matches, tables
  <2>1. \E g : IsHandler(g, FwStates, FwTree, "NULL", matches, tables)
    BY HandlerExists, FwForest
  <2> QED BY <2>1 DEF IsHandler
<1>2. \A t : FwFound(t, event) = handler[t]
  BY DEF FwHsm!Handler, FwFound, FwStates, FwHsm!Min, Min
<1>3. ASSUME NEW a \in FwStates PROVE matches[a] = FwMatches(event)[a]
  BY DEF FwMatches
<1>4. s # "NULL" /\ FwTree[s] \in FwStates \cup {"NULL"}
  BY FwTreeIs
<1>5. tables[s] = FwTable(s)
  OBVIOUS
<1> HIDE DEF matches, handler, tables
<1> QED BY <1>1, <1>2, <1>3, <1>4, <1>5 DEF IsHandler

LEMMA FwTables ==
  /\ FwTable("IDLE") = <<FwHsm!Trans("WRITE_REQ", "WRITING", "none", "start_write", "external")>>
  /\ FwTable("BUSY") = <<FwHsm!Trans("WORKER_FAIL", "FAILED", "none", "none", "external")>>
  /\ FwTable("WRITING") = <<FwHsm!Trans("WRITE_DONE", "SYNCING", "none", "none", "external")>>
  /\ FwTable("SYNCING") = <<FwHsm!Trans("SYNC_DONE", "DONE", "none", "none", "external")>>
<1>1. FwTable("IDLE") = <<FwHsm!Trans("WRITE_REQ", "WRITING", "none", "start_write", "external")>>
  BY DEF FwTable
<1>2. FwTable("BUSY") = <<FwHsm!Trans("WORKER_FAIL", "FAILED", "none", "none", "external")>>
  BY DEF FwTable
<1>3. FwTable("WRITING") = <<FwHsm!Trans("WRITE_DONE", "SYNCING", "none", "none", "external")>>
  BY DEF FwTable
<1>4. FwTable("SYNCING") = <<FwHsm!Trans("SYNC_DONE", "DONE", "none", "none", "external")>>
  BY DEF FwTable
<1> QED BY <1>1, <1>2, <1>3, <1>4

\* A table of one entry
LEMMA OneEntry ==
  ASSUME NEW s \in FwStates, NEW event, NEW e, NEW t, NEW a,
         FwTable(s) = <<FwHsm!Trans(e, t, "none", a, "external")>>
  PROVE  IF event = e THEN FwFound(s, event) = <<FwHsm!Trans(e, t, "none", a, "external")>>
         ELSE FwTree[s] # "NULL" => FwFound(s, event) = FwFound(FwTree[s], event)
<1>1. FwMatches(event)[s] = IF event = e THEN {1} ELSE {}
  BY DEF FwMatches, FwHsm!Matches, FwHsm!Trans
<1>2. Min({1}) = 1
  BY MinIsIn
<1> QED BY <1>1, <1>2, FwFoundIn

\* Where the events that the program dispatches lead from the states it
\* dispatches them in
LEMMA FwLeads ==
  /\ current = "IDLE" => After("WRITE_REQ") = "WRITING"
  /\ current = "WRITING" => After("WRITE_DONE") = "SYNCING"
  /\ current = "SYNCING" => After("SYNC_DONE") = "DONE"
  /\ current \in {"WRITING", "SYNCING"} => After("WORKER_FAIL") = "FAILED"
<1> DEFINE Found(e, t, a) == <<FwHsm!Trans(e, t, "none", a, "external")>>
<1>1. ASSUME NEW event, NEW e, NEW t, NEW a, FwFound(current, event) = Found(e, t, a)
      PROVE  After(event) = t
  BY <1>1, AfterIs DEF FwHsm!Trans
<1>2. FwFound("IDLE", "WRITE_REQ") = Found("WRITE_REQ", "WRITING", "start_write")
  BY OneEntry, FwTables, FwTreeIs
<1>3. FwFound("WRITING", "WRITE_DONE") = Found("WRITE_DONE", "SYNCING", "none")
  BY OneEntry, FwTables, FwTreeIs
<1>4. FwFound("SYNCING", "SYNC_DONE") = Found("SYNC_DONE", "DONE", "none")
  BY OneEntry, FwTables, FwTreeIs
<1>5. FwFound("BUSY", "WORKER_FAIL") = Found("WORKER_FAIL", "FAILED", "none")
  BY OneEntry, FwTables, FwTreeIs
<1>6. FwFound("WRITING", "WORKER_FAIL") = FwFound("BUSY", "WORKER_FAIL")
  BY OneEntry, FwTables, FwTreeIs
<1>7. FwFound("SYNCING", "WORKER_FAIL") = FwFound("BUSY", "WORKER_FAIL")
  BY OneEntry, FwTables, FwTreeIs
<1> HIDE DEF Found
<1> QED BY <1>1, <1>2, <1>3, <1>4, <1>5, <1>6, <1>7

LEMMA PrefixedSet ==
  ASSUME NEW a, NEW S, NEW q \in Seq(S)
  PROVE  ToSet(<<a>> \o q) = {a} \cup ToSet(q)
<1> DEFINE p == <<a>> \o q
<1>1. q \in Seq(S \cup {a}) /\ <<a>> \in Seq(S \cup {a})
  OBVIOUS
<1>2. PICK n \in Nat : n = Len(q)
  OBVIOUS
<1>3. /\ p \in Seq(S \cup {a}) /\ Len(p) = 1 + n
      /\ \A i \in 1 .. 1 + n : p[i] = IF i <= 1 THEN a ELSE q[i - 1]
  <2>1. /\ p \in Seq(S \cup {a}) /\ Len(p) = Len(<<a>>) + Len(q)
        /\ \A i \in 1 .. Len(<<a>>) + Len(q) :
             p[i] = IF i <= Len(<<a>>) THEN <<a>>[i] ELSE q[i - Len(<<a>>)]
    BY <1>1, ConcatProperties
  <2>2. Len(<<a>>) = 1 /\ <<a>>[1] = a
    OBVIOUS
  <2> HIDE DEF p
  <2>3. ASSUME NEW i \in 1 .. 1 + n PROVE p[i] = IF i <= 1 THEN a ELSE q[i - 1]
    BY <1>2, <2>1, <2>2
  <2> QED BY <1>2, <2>1, <2>2, <2>3
<1> HIDE DEF p
<1>4. DOMAIN p = 1 .. 1 + n /\ DOMAIN q = 1 .. n
  BY <1>2, <1>3
<1>5. ASSUME NEW i \in 1 .. n PROVE q[i] = p[i + 1] /\ i + 1 \in 1 .. 1 + n
  BY <1>2, <1>3
<1>6. ASSUME NEW i \in 1 .. 1 + n PROVE p[i] = a \/ \E j \in 1 .. n : p[i] = q[j]
  <2>1. CASE i <= 1
    BY <1>3, <2>1
  <2>2. CASE i > 1
    <3>1. i - 1 \in 1 .. n /\ p[i] = q[i - 1]
      BY <1>2, <1>3, <2>2
    <3> QED BY <3>1
  <2> QED BY <2>1, <2>2
<1>7. p[1] = a /\ 1 \in 1 .. 1 + n
  BY <1>2, <1>3
<1>8. {p[i] : i \in DOMAIN p} = {a} \cup {q[i] : i \in DOMAIN q}
  <2>1. ASSUME NEW x \in {p[i] : i \in DOMAIN p} PROVE x \in {a} \cup {q[i] : i \in DOMAIN q}
    BY <1>4, <1>6
  <2>2. ASSUME NEW x \in {q[i] : i \in DOMAIN q} PROVE x \in {p[i] : i \in DOMAIN p}
    BY <1>4, <1>5
  <2>3. a \in {p[i] : i \in DOMAIN p}
    BY <1>4, <1>7
  <2> QED BY <2>1, <2>2, <2>3
<1> QED BY <1>8 DEF p, ToSet

\* IsIn (WRITING)
LEMMA InWriting ==
  /\ FwHsm!IsIn("WRITING", "WRITING")
  /\ ~FwHsm!IsIn("SYNCING", "WRITING")
<1>1. IsChain(FwHsm!Chain, FwStates, FwTree, "NULL")
  <2>1. \E g : IsChain(g, FwStates, FwTree, "NULL")
    BY FwForest, ChainExists
  <2> QED BY <2>1 DEF FwHsm!Chain, IsChain, FwStates
<1> HIDE DEF FwHsm!Chain
<1>2. /\ FwHsm!Chain["NULL"] = <<>>
      /\ \A s \in FwStates : FwHsm!Chain[s] = <<s>> \o FwHsm!Chain[FwTree[s]]
  BY <1>1, FwTreeIs DEF IsChain
<1>3. \A s \in FwStates : FwHsm!Chain[s] \in Seq(FwStates) /\ FwHsm!Chain["NULL"] \in Seq(FwStates)
  <2>1. HasTails(FwHsm!Chain, FwStates, FwTree, "NULL")
    BY <1>1, FwForest, ChainTails
  <2> QED BY <2>1 DEF HasTails
<1>4. ASSUME NEW s \in FwStates
      PROVE  FwHsm!Ancestors(s) = {s} \cup FwHsm!Ancestors(FwTree[s])
  <2>1. FwTree[s] \in FwStates \/ FwTree[s] = "NULL"
    BY FwTreeIs
  <2>2. FwHsm!Chain[FwTree[s]] \in Seq(FwStates)
    BY <1>3, <2>1
  <2>3. ToSet(<<s>> \o FwHsm!Chain[FwTree[s]]) = {s} \cup ToSet(FwHsm!Chain[FwTree[s]])
    BY <2>2, PrefixedSet
  <2>4. \A t : FwHsm!Ancestors(t) = ToSet(FwHsm!Chain[t])
    BY DEF FwHsm!Ancestors, FwHsm!ToSet, ToSet
  <2> QED BY <1>2, <2>3, <2>4
<1>5. FwHsm!Ancestors("NULL") = {}
  BY <1>2 DEF FwHsm!Ancestors, FwHsm!ToSet
<1>6. FwHsm!Ancestors("BUSY") = {"BUSY", "TOP"}
  BY <1>4, <1>5, FwTreeIs
<1>7. "WRITING" \in FwHsm!Ancestors("WRITING") /\ FwHsm!Ancestors("SYNCING") = {"SYNCING", "BUSY", "TOP"}
  BY <1>4, <1>6, FwTreeIs
<1> QED BY <1>7 DEF FwHsm!IsIn

-----------------------------------------------------------------------------
\* The loop and the worker of FileWriter

\* The worker has answered, or was not asked: it goes to sleep or is asleep.
Resting ==
  /\ worker \in {"release", "test", "waiting", "end"}
  /\ worker_busy => worker = "release"

\* The write: chunk after chunk, the fsync, and what the loop will be told
Writing ==
  /\ worker_busy = TRUE /\ worker_phase = FALSE
  /\ \/ worker = "test" /\ file = [written |-> 0, synced |-> 0]
     \/ /\ worker = "write"
        /\ \E n \in 0 .. FW_CHUNKS - 1 : file = [written |-> n, synced |-> 0]
     \/ worker = "sync" /\ file = [written |-> FW_CHUNKS, synced |-> 0]
     \/ worker = "send"

\* The file is on disk.
Durable == file = [written |-> FW_CHUNKS, synced |-> FW_CHUNKS]

FwTypes ==
  /\ worker_busy \in BOOLEAN /\ worker_phase \in BOOLEAN /\ done_sent \in BOOLEAN
  /\ main \in {"loop", "kick", "broken", "join", "end"}
  /\ quit => main \in {"join", "end"}
  /\ worker = "end" => quit
  /\ current \in {"IDLE", "WRITING", "SYNCING", "DONE", "FAILED"}
  /\ current \in {"DONE", "FAILED"} <=> main \in {"broken", "join", "end"}
  /\ main = "kick" => current = "SYNCING"

\* What the worker does for a state of the machine
FwInv ==
  /\ FwTypes
  /\ current = "IDLE" => /\ worker \in {"test", "waiting"} /\ ~worker_busy /\ ~done_sent
                         /\ file = [written |-> 0, synced |-> 0]
  /\ current = "WRITING" /\ ~done_sent =>
       Writing /\ (worker = "send" => result # 0 \/ Durable)
  /\ current = "WRITING" /\ done_sent => Resting /\ (result # 0 \/ Durable)
  /\ current = "SYNCING" => Durable
  /\ current = "SYNCING" /\ main = "loop" /\ ~done_sent =>
       /\ worker \in {"test", "waiting", "sync", "send", "release"}
       /\ worker_phase = TRUE
  /\ current = "SYNCING" /\ (main = "kick" \/ done_sent) => Resting
  /\ main = "kick" => ~done_sent
  /\ current = "DONE" => Durable
  /\ current \in {"DONE", "FAILED"} => Resting /\ ~done_sent

LEMMA ChunksDone ==
  ASSUME NEW n \in 0 .. FW_CHUNKS - 1
  PROVE  (n + 1) % FW_CHUNKS = 0 <=> n + 1 = FW_CHUNKS
<1>1. FW_CHUNKS \in Nat \ {0}
  BY FwAssumption
<1>2. CASE n + 1 = FW_CHUNKS
  <2>1. ((FW_CHUNKS * 1) + 0) % FW_CHUNKS = 0
    BY <1>1, Unique
  <2>2. (FW_CHUNKS * 1) + 0 = n + 1
    BY <1>1, <1>2
  <2> QED BY <1>2, <2>1, <2>2
<1>3. CASE n + 1 # FW_CHUNKS
  <2>1. n + 1 \in 0 .. FW_CHUNKS - 1
    BY <1>1, <1>3
  <2>2. (n + 1) % FW_CHUNKS = n + 1
    BY <1>1, <2>1, Small
  <2> QED BY <1>3, <2>1, <2>2
<1> QED BY <1>2, <1>3

LEMMA InitFwInv == FwInit => FwInv
BY DEF FwInit, FwInv, FwTypes

LEMMA WorkerWritesInv ==
  ASSUME FwInv, WorkerWrites
  PROVE  FwInv'
<1>1. worker = "write" /\ current = "WRITING" /\ ~done_sent /\ Writing
  BY DEF FwInv, FwTypes, Resting, WorkerWrites
<1>2. PICK n \in 0 .. FW_CHUNKS - 1 : file = [written |-> n, synced |-> 0]
  BY <1>1 DEF Writing
<1>3. UNCHANGED <<current, worker_busy, worker_phase, quit, done_sent, main>>
  BY DEF WorkerWrites
<1>4. CASE /\ file' = [file EXCEPT !.written = @ + 1]
           /\ worker' = IF file'.written % FW_CHUNKS = 0 THEN "sync" ELSE "write"
  <2>1. file' = [written |-> n + 1, synced |-> 0]
    BY <1>2, <1>4
  <2>2. worker' = IF n + 1 = FW_CHUNKS THEN "sync" ELSE "write"
    <3>1. file'.written = n + 1
      BY <2>1
    <3> QED BY <1>4, <3>1, ChunksDone
  <2>3. n + 1 # FW_CHUNKS => n + 1 \in 0 .. FW_CHUNKS - 1
    BY FwAssumption
  <2>4. Writing' /\ worker' # "send"
    BY <1>1, <1>3, <2>1, <2>2, <2>3 DEF Writing
  <2> QED BY <1>1, <1>3, <2>2, <2>4 DEF FwInv, FwTypes
<1>5. CASE result' = 1 /\ worker' = "send"
  BY <1>1, <1>3, <1>5 DEF FwInv, FwTypes, Writing
<1> QED BY <1>4, <1>5 DEF WorkerWrites

LEMMA WorkerInv ==
  ASSUME FwInv, Worker \/ SpuriousWakeup
  PROVE  FwInv'
<1>1. CASE WorkerTests
  <2>1. /\ worker = "test"
        /\ quit => worker' = "end"
        /\ ~quit /\ ~worker_busy => worker' = "waiting"
        /\ ~quit /\ worker_busy /\ worker_phase => worker' = "sync"
        /\ ~quit /\ worker_busy /\ ~worker_phase => worker' = "write"
        /\ UNCHANGED <<current, result, worker_busy, worker_phase, quit, done_sent, file, main>>
    BY <1>1 DEF WorkerTests
  <2>2. 0 \in 0 .. FW_CHUNKS - 1
    BY FwAssumption
  <2>3. CASE current = "WRITING" /\ ~done_sent
    <3>1. /\ ~quit /\ worker_busy = TRUE /\ worker_phase = FALSE
          /\ file = [written |-> 0, synced |-> 0]
      BY <2>1, <2>3 DEF FwInv, FwTypes, Writing
    <3>2. Writing' /\ worker' = "write"
      BY <2>1, <2>2, <3>1 DEF Writing
    <3> QED BY <2>1, <2>3, <3>2 DEF FwInv, FwTypes
  <2>4. CASE current = "IDLE"
    BY <2>1, <2>4 DEF FwInv, FwTypes
  <2>5. CASE current = "SYNCING" /\ main = "loop" /\ ~done_sent
    BY <2>1, <2>5 DEF FwInv, FwTypes, Durable
  <2>6. CASE Resting
    BY <2>1, <2>6, <2>3, <2>4, <2>5 DEF FwInv, FwTypes, Resting, Durable
  <2> QED BY <2>3, <2>4, <2>5, <2>6 DEF FwInv, FwTypes
<1>2. CASE WorkerWrites
  BY <1>2, WorkerWritesInv
<1>3. CASE WorkerSyncs
  <2>1. /\ worker = "sync" /\ worker' = "send"
        /\ \/ result' = 0 /\ file' = [file EXCEPT !.synced = file.written]
           \/ result' = 1 /\ UNCHANGED file
        /\ UNCHANGED <<current, worker_busy, worker_phase, quit, done_sent, main>>
    BY <1>3 DEF WorkerSyncs
  <2>2. CASE current = "WRITING"
    <3>1. ~done_sent /\ Writing /\ file = [written |-> FW_CHUNKS, synced |-> 0]
      BY <2>1, <2>2 DEF FwInv, Resting, Writing
    <3>2. Writing' /\ (result' = 1 \/ Durable')
      BY <2>1, <3>1 DEF Writing, Durable
    <3> QED BY <2>1, <2>2, <3>1, <3>2 DEF FwInv, FwTypes
  <2>3. CASE current = "SYNCING"
    <3>1. Durable' /\ main = "loop" /\ ~done_sent
      BY <2>1, <2>3 DEF FwInv, FwTypes, Resting, Durable
    <3> QED BY <2>1, <2>3, <3>1 DEF FwInv, FwTypes
  <2> QED BY <2>1, <2>2, <2>3 DEF FwInv, FwTypes, Resting
<1>4. CASE WorkerSends
  <2>1. /\ worker = "send" /\ worker' = "release" /\ done_sent' = TRUE
        /\ UNCHANGED <<current, result, worker_busy, worker_phase, quit, file, main>>
    BY <1>4 DEF WorkerSends
  <2>2. Resting' /\ ~Resting /\ current \in {"WRITING", "SYNCING"} /\ ~done_sent /\ main = "loop"
    BY <2>1 DEF FwInv, FwTypes, Resting
  <2> QED BY <2>1, <2>2 DEF FwInv, FwTypes, Durable
<1>5. CASE WorkerReleases
  <2>1. /\ worker = "release" /\ worker_busy' = FALSE /\ worker' = "test"
        /\ UNCHANGED <<current, result, worker_phase, quit, done_sent, file, main>>
    BY <1>5 DEF WorkerReleases
  <2>2. Resting' /\ current # "IDLE" /\ ~(current = "WRITING" /\ ~done_sent)
    BY <2>1 DEF FwInv, Resting, Writing
  <2> QED BY <2>1, <2>2 DEF FwInv, FwTypes, Durable
<1>6. CASE SpuriousWakeup
  <2>1. /\ worker = "waiting" /\ worker' = "test"
        /\ UNCHANGED <<current, result, worker_busy, worker_phase, quit, done_sent, file, main>>
    BY <1>6 DEF SpuriousWakeup
  <2>2. (Resting => Resting') /\ ~(current = "WRITING" /\ ~done_sent)
    BY <2>1 DEF FwInv, Resting, Writing
  <2> QED BY <2>1, <2>2 DEF FwInv, FwTypes, Durable
<1> QED BY <1>1, <1>2, <1>3, <1>4, <1>5, <1>6 DEF Worker

LEMMA MainInv ==
  ASSUME FwInv, Main
  PROVE  FwInv'
<1>1. CASE step_cb
  <2>1. /\ main = "loop" /\ current = "IDLE" /\ current' = "WRITING"
        /\ worker_busy' = TRUE /\ worker_phase' = FALSE /\ worker' = Signalled
        /\ UNCHANGED <<result, quit, done_sent, file, main>>
    BY <1>1, FwLeads DEF step_cb, Kick
  <2>2. worker' = "test" /\ ~done_sent /\ file = [written |-> 0, synced |-> 0]
    BY <2>1 DEF FwInv, Signalled
  <2>3. Writing'
    BY <2>1, <2>2 DEF Writing
  <2> QED BY <2>1, <2>2, <2>3 DEF FwInv, FwTypes
<1>2. CASE done_async_cb
  <2>1. /\ main = "loop" /\ done_sent /\ done_sent' = FALSE /\ current' = After(Event)
        /\ main' = IF Event = "WRITE_DONE" THEN "kick" ELSE "broken"
        /\ UNCHANGED <<result, worker_busy, worker_phase, quit, file, worker>>
    BY <1>2 DEF done_async_cb
  <2>2. current \in {"WRITING", "SYNCING"} /\ Resting /\ Resting'
    BY <2>1 DEF FwInv, FwTypes, Resting
  <2>3. ~quit /\ worker # "end"
    BY <2>1 DEF FwInv, FwTypes
  <2>4. CASE result # 0
    <3>1. Event = "WORKER_FAIL"
      BY <2>4 DEF Event
    <3>2. current' = "FAILED" /\ main' = "broken"
      BY <2>1, <2>2, <3>1, FwLeads
    <3> QED BY <2>1, <2>2, <2>3, <3>2 DEF FwInv, FwTypes
  <2>5. CASE result = 0 /\ current = "WRITING"
    <3>1. Event = "WRITE_DONE"
      BY <2>5, InWriting DEF Event
    <3>2. current' = "SYNCING" /\ main' = "kick"
      BY <2>1, <2>5, <3>1, FwLeads
    <3>3. Durable'
      BY <2>1, <2>5 DEF FwInv, Durable
    <3> QED BY <2>1, <2>2, <2>3, <3>2, <3>3 DEF FwInv, FwTypes
  <2>6. CASE result = 0 /\ current = "SYNCING"
    <3>1. Event = "SYNC_DONE"
      BY <2>6, InWriting DEF Event
    <3>2. current' = "DONE" /\ main' = "broken"
      BY <2>1, <2>6, <3>1, FwLeads
    <3>3. Durable'
      BY <2>1, <2>6 DEF FwInv, Durable
    <3> QED BY <2>1, <2>2, <2>3, <3>2, <3>3 DEF FwInv, FwTypes
  <2> QED BY <2>2, <2>4, <2>5, <2>6
<1>3. CASE done_async_kick
  <2>1. /\ main = "kick" /\ main' = "loop"
        /\ worker_busy' = TRUE /\ worker_phase' = TRUE /\ worker' = Signalled
        /\ UNCHANGED <<current, result, quit, done_sent, file>>
    BY <1>3 DEF done_async_kick, Kick
  <2>2. current = "SYNCING" /\ Resting /\ ~done_sent /\ Durable' /\ ~quit
    BY <2>1 DEF FwInv, FwTypes, Durable
  <2>3. worker' \in {"test", "release"}
    BY <2>1, <2>2 DEF Resting, Signalled, FwInv, FwTypes
  <2> QED BY <2>1, <2>2, <2>3 DEF FwInv, FwTypes
<1>4. CASE MainQuits
  <2>1. /\ main = "broken" /\ quit' = TRUE /\ worker' = Signalled /\ main' = "join"
        /\ UNCHANGED <<current, result, worker_busy, worker_phase, done_sent, file>>
    BY <1>4 DEF MainQuits
  <2>2. current \in {"DONE", "FAILED"} /\ Resting /\ Resting'
    BY <2>1 DEF FwInv, FwTypes, Resting, Signalled
  <2> QED BY <2>1, <2>2 DEF FwInv, FwTypes, Durable
<1>5. CASE MainJoins
  <2>1. /\ main = "join" /\ main' = "end"
        /\ UNCHANGED <<current, result, worker_busy, worker_phase, quit, done_sent, file, worker>>
    BY <1>5 DEF MainJoins
  <2>2. current \in {"DONE", "FAILED"} /\ (Resting => Resting')
    BY <2>1 DEF FwInv, FwTypes, Resting
  <2> QED BY <2>1, <2>2 DEF FwInv, FwTypes, Durable
<1> QED BY <1>1, <1>2, <1>3, <1>4, <1>5 DEF Main

(***************************************************************************)
(* FileWriter: DONE means that every chunk is written and synced, and the  *)
(* result is read by the loop only while the worker leaves it alone, for   *)
(* any number of chunks and any interleaving of the two threads, spurious  *)
(* wakeups and failures of write and fsync included.                       *)
(***************************************************************************)
THEOREM FileStaysConsistent == FwSpec => []FileConsistent
<1>1. FwInv /\ [FwNext]_fw_vars => FwInv'
  <2> SUFFICES ASSUME FwInv, [FwNext]_fw_vars PROVE FwInv'
    OBVIOUS
  <2>1. CASE UNCHANGED fw_vars
    BY <2>1 DEF FwInv, FwTypes, Resting, Writing, Durable, fw_vars
  <2> QED BY <2>1, WorkerInv, MainInv DEF FwNext
<1>2. FwInv => FileConsistent
  BY DEF FwInv, FwTypes, Resting, Durable, FileConsistent, DoneIsDurable, ResultHandedOver
<1> QED BY InitFwInv, <1>1, <1>2, PTL DEF FwSpec

-----------------------------------------------------------------------------
\* The connections of EchoServer

HStates == DOMAIN Tree

ConnRec ==
  [mem : {"none", "live", "freed"}, current : HStates \cup {"NULL"},
   armed : SUBSET {"EV_READ", "EV_WRITE"}, fd : {"open", "closed"}, queue : Seq(Nat),
   next : Conns \cup {"NULL"}, pp_self : Conns \cup {"NULL", "head"},
   wrote : Nat, got : Nat, sent : Seq(Nat), read : Nat, eof : BOOLEAN, reset : BOOLEAN]

\* Strictly increasing, and read from the peer
Increasing(out, got) ==
  /\ \A i \in 1 .. Len(out) : out[i] <= got
  /\ \A i \in 2 .. Len(out) : out[i - 1] < out[i]

\* What the peer was sent and has not read fits the kernel's buffer.
FitsKernel(r) == r.read <= Len(r.sent) /\ Len(r.sent) - r.read <= ROOM

\* The peer was sent the bytes in order; the queue goes on with them until a
\* flush fails.
SentInv(r) == FitsKernel(r) /\ Increasing(r.sent, r.got)

BytesInv(r) ==
  /\ FitsKernel(r)
  /\ Increasing(IF r.current = "FAILED" THEN r.sent ELSE r.sent \o r.queue, r.got)

\* Between callbacks a connection is in one of two states, or it has failed.
StateInv(r) ==
  r.mem = "live" =>
    /\ r.current \in {"RECEIVING", "FLUSHING", "FAILED"}
    /\ r.current # "FAILED" => "EV_READ" \in r.armed
    /\ r.current = "RECEIVING" => r.queue = <<>>
    /\ r.current = "FLUSHING" => r.queue # <<>> /\ "EV_WRITE" \in r.armed
    /\ r.current = "FAILED" => r.reset /\ r.armed = {} /\ r.fd = "closed"

LiveIn(cs) == {c \in Conns : cs[c].mem = "live"}

\* The links join the live connections, and rank grows along the list, so that
\* it has no cycles.
Ranked(cs, rank) ==
  \A c \in LiveIn(cs) : cs[c].next # "NULL" => rank[c] < rank[cs[c].next]

ListInv(cs, head_of) ==
  /\ IF head_of = "NULL" THEN LiveIn(cs) = {}
     ELSE head_of \in LiveIn(cs) /\ cs[head_of].pp_self = "head"
  /\ \A c \in LiveIn(cs) :
       /\ cs[c].next # "NULL" => cs[c].next \in LiveIn(cs) /\ cs[cs[c].next].pp_self = c
       /\ IF cs[c].pp_self = "head" THEN head_of = c
          ELSE cs[c].pp_self \in LiveIn(cs) /\ cs[cs[c].pp_self].next = c
  /\ \E rank \in [Conns -> Nat] : Ranked(cs, rank)

EchoInv ==
  /\ conn \in [Conns -> ConnRec]
  /\ \A c \in Conns : BytesInv(conn[c]) /\ StateInv(conn[c])
  /\ ListInv(conn, conn_head)

LEMMA HTreeIs ==
  /\ HStates = {"TOP", "ESTABLISHED", "CONNECTED", "RECEIVING", "FLUSHING", "CLOSING", "FAILED"}
  /\ Tree["TOP"] = "NULL" /\ Tree["ESTABLISHED"] = "TOP" /\ Tree["CONNECTED"] = "ESTABLISHED"
  /\ Tree["RECEIVING"] = "CONNECTED" /\ Tree["FLUSHING"] = "CONNECTED"
  /\ Tree["CLOSING"] = "ESTABLISHED" /\ Tree["FAILED"] = "ESTABLISHED"
  /\ Tree \in [HStates -> HStates \cup {"NULL"}]
<1>1. HStates = {"TOP", "ESTABLISHED", "CONNECTED", "RECEIVING", "FLUSHING", "CLOSING", "FAILED"}
  BY DEF HStates, Tree
<1>2. /\ Tree["TOP"] = "NULL" /\ Tree["ESTABLISHED"] = "TOP" /\ Tree["CONNECTED"] = "ESTABLISHED"
      /\ Tree["RECEIVING"] = "CONNECTED" /\ Tree["FLUSHING"] = "CONNECTED"
      /\ Tree["CLOSING"] = "ESTABLISHED" /\ Tree["FAILED"] = "ESTABLISHED"
  BY DEF Tree
<1>3. Tree = [s \in HStates |-> Tree[s]]
  BY DEF Tree, HStates
<1>4. \A s \in HStates : Tree[s] \in HStates \cup {"NULL"}
  BY <1>1, <1>2
<1> QED BY <1>1, <1>2, <1>3, <1>4

LEMMA HForest == ForestOf(HStates, Tree, "NULL")
<1> DEFINE depth == [s \in HStates |-> IF s = "TOP" THEN 0
                                       ELSE IF s = "ESTABLISHED" THEN 1
                                       ELSE IF s \in {"RECEIVING", "FLUSHING"} THEN 3 ELSE 2]
<1>1. depth \in [HStates -> 0 .. 3]
  OBVIOUS
<1>2. \A s \in HStates : Tree[s] # "NULL" => depth[Tree[s]] < depth[s]
  BY HTreeIs
<1>3. "NULL" \notin HStates
  BY HTreeIs
<1> HIDE DEF depth
<1> QED BY <1>1, <1>2, <1>3, HTreeIs DEF ForestOf

LEMMA HChain ==
  /\ IsChain(H!Chain, HStates, Tree, "NULL")
  /\ HasTails(H!Chain, HStates, Tree, "NULL")
<1>1. IsChain(H!Chain, HStates, Tree, "NULL")
  <2>1. \E g : IsChain(g, HStates, Tree, "NULL")
    BY HForest, ChainExists
  <2> QED BY <2>1 DEF H!Chain, IsChain, HStates
<1> QED BY <1>1, HForest, ChainTails

LEMMA PrefixedLen ==
  ASSUME NEW a, NEW S, NEW q \in Seq(S)
  PROVE  Len(<<a>> \o q) = 1 + Len(q)
<1>1. q \in Seq(S \cup {a}) /\ <<a>> \in Seq(S \cup {a}) /\ Len(<<a>>) = 1
  OBVIOUS
<1>2. Len(<<a>> \o q) = Len(<<a>>) + Len(q)
  BY <1>1, ConcatProperties
<1> QED BY <1>1, <1>2

\* The chains of the states a connection is in between callbacks
LEMMA HChains ==
  /\ H!Chain["NULL"] = <<>>
  /\ \A s \in HStates \cup {"NULL"} : H!Chain[s] \in Seq(HStates)
  /\ Len(H!Chain["TOP"]) = 1 /\ Len(H!Chain["ESTABLISHED"]) = 2
  /\ Len(H!Chain["CONNECTED"]) = 3
  /\ \A s \in {"RECEIVING", "FLUSHING"} :
       /\ Len(H!Chain[s]) = 4
       /\ H!Chain[s][1] = s /\ H!Chain[s][2] = "CONNECTED"
       /\ H!Chain[s][3] = "ESTABLISHED" /\ H!Chain[s][4] = "TOP"
  /\ Len(H!Chain["FAILED"]) = 3
  /\ H!Chain["FAILED"][1] = "FAILED" /\ H!Chain["FAILED"][2] = "ESTABLISHED"
  /\ H!Chain["FAILED"][3] = "TOP"
<1>1. /\ H!Chain["NULL"] = <<>>
      /\ \A s \in HStates : /\ H!Chain[s] \in Seq(HStates) /\ H!Chain[s][1] = s
                            /\ H!Chain[s] = <<s>> \o H!Chain[Tree[s]]
  BY HChain DEF HasTails
<1>2. \A s \in HStates \cup {"NULL"} : H!Chain[s] \in Seq(HStates)
  <2>1. <<>> \in Seq(HStates)
    OBVIOUS
  <2> QED BY <1>1, <2>1
<1>3. ASSUME NEW s \in HStates, NEW t \in HStates \cup {"NULL"}, t = Tree[s]
      PROVE  Len(H!Chain[s]) = 1 + Len(H!Chain[t])
  <2>1. H!Chain[t] \in Seq(HStates) /\ H!Chain[s] = <<s>> \o H!Chain[t]
    BY <1>1, <1>2, <1>3
  <2> QED BY <2>1, PrefixedLen
<1>4. Len(H!Chain["TOP"]) = 1
  <2>1. Len(H!Chain["TOP"]) = 1 + Len(H!Chain["NULL"])
    BY <1>3, HTreeIs
  <2> QED BY <1>1, <2>1
<1>5. Len(H!Chain["ESTABLISHED"]) = 2
  <2>1. Len(H!Chain["ESTABLISHED"]) = 1 + Len(H!Chain["TOP"])
    BY <1>3, HTreeIs
  <2> QED BY <1>4, <2>1
<1>6. Len(H!Chain["CONNECTED"]) = 3
  <2>1. Len(H!Chain["CONNECTED"]) = 1 + Len(H!Chain["ESTABLISHED"])
    BY <1>3, HTreeIs
  <2> QED BY <1>5, <2>1
<1>7. ASSUME NEW s \in {"RECEIVING", "FLUSHING"}
      PROVE  /\ Len(H!Chain[s]) = 4
             /\ H!Chain[s][1] = s /\ H!Chain[s][2] = "CONNECTED"
             /\ H!Chain[s][3] = "ESTABLISHED" /\ H!Chain[s][4] = "TOP"
  <2>0. s \in HStates /\ Tree[s] = "CONNECTED"
    BY HTreeIs
  <2>1. s \in HStates /\ Tree[s] = "CONNECTED" /\ Len(H!Chain[s]) = 4 /\ H!Chain[s][1] = s
    <3>1. Len(H!Chain[s]) = 1 + Len(H!Chain["CONNECTED"])
      BY <1>3, <2>0, HTreeIs
    <3>2. Len(H!Chain[s]) = 4
      BY <1>6, <3>1
    <3> QED BY <1>1, <2>0, <3>2
  <2>2. ASSUME NEW i \in 1 .. 3 PROVE H!Chain[s][i + 1] = Tree[H!Chain[s][i]]
    <3>1. i \in 1 .. Len(H!Chain[s]) /\ i < Len(H!Chain[s])
      BY <2>1
    <3> QED BY <2>1, <3>1, HChain, HForest, ChainClimbs
  <2>3. H!Chain[s][2] = "CONNECTED"
    <3>1. 1 \in 1 .. 3 /\ 1 + 1 = 2
      OBVIOUS
    <3> QED BY <2>1, <2>2, <3>1
  <2>4. H!Chain[s][3] = "ESTABLISHED"
    <3>1. 2 \in 1 .. 3 /\ 2 + 1 = 3
      OBVIOUS
    <3> QED BY <2>2, <2>3, <3>1, HTreeIs
  <2>5. H!Chain[s][4] = "TOP"
    <3>1. 3 \in 1 .. 3 /\ 3 + 1 = 4
      OBVIOUS
    <3> QED BY <2>2, <2>4, <3>1, HTreeIs
  <2> QED BY <2>1, <2>3, <2>4, <2>5
<1>8. /\ Len(H!Chain["FAILED"]) = 3
      /\ H!Chain["FAILED"][1] = "FAILED" /\ H!Chain["FAILED"][2] = "ESTABLISHED"
      /\ H!Chain["FAILED"][3] = "TOP"
  <2>1. Len(H!Chain["FAILED"]) = 3 /\ H!Chain["FAILED"][1] = "FAILED"
    <3>1. Len(H!Chain["FAILED"]) = 1 + Len(H!Chain["ESTABLISHED"])
      BY <1>3, HTreeIs
    <3> QED BY <1>1, <1>5, <3>1, HTreeIs
  <2>2. ASSUME NEW i \in 1 .. 2 PROVE H!Chain["FAILED"][i + 1] = Tree[H!Chain["FAILED"][i]]
    <3>1. i \in 1 .. Len(H!Chain["FAILED"]) /\ i < Len(H!Chain["FAILED"]) /\ "FAILED" \in HStates
      BY <2>1, HTreeIs
    <3> QED BY <3>1, HChain, HForest, ChainClimbs
  <2>3. H!Chain["FAILED"][2] = "ESTABLISHED"
    <3>1. 1 \in 1 .. 2 /\ 1 + 1 = 2
      OBVIOUS
    <3> QED BY <2>1, <2>2, <3>1, HTreeIs
  <2>4. H!Chain["FAILED"][3] = "TOP"
    <3>1. 2 \in 1 .. 2 /\ 2 + 1 = 3
      OBVIOUS
    <3> QED BY <2>2, <2>3, <3>1, HTreeIs
  <2> QED BY <2>1, <2>3, <2>4
<1> QED BY <1>1, <1>2, <1>4, <1>5, <1>6, <1>7, <1>8

\* Where the ways up from these states meet
LEMMA HMeets ==
  /\ \A s, t \in {"RECEIVING", "FLUSHING"} : s # t => H!Lca(s, t) = "CONNECTED"
  /\ \A s \in HStates : H!Lca(s, "NULL") = "NULL" /\ H!Lca("NULL", s) = "NULL"
  /\ \A s, t \in HStates \cup {"NULL"} :
       Above(H!Lca(s, t), s, "NULL", H!Chain) /\ Above(H!Lca(s, t), t, "NULL", H!Chain)
<1> DEFINE N == HStates \cup {"NULL"}
           lca == CHOOSE g : g = [p \in N \X N |->
                                    IF p[1] = p[2] THEN p[1] ELSE g[Higher(p, H!Chain, Tree)]]
<1>1. IsMeet(lca, HStates, Tree, "NULL", H!Chain)
  <2>1. \E g : IsMeet(g, HStates, Tree, "NULL", H!Chain)
    BY HChain, HForest, MeetExists
  <2> QED BY <2>1 DEF IsMeet
<1>2. \A s, t : H!Lca(s, t) = lca[<<s, t>>]
  BY DEF H!Lca, Higher, HStates
<1> HIDE DEF lca
<1>3. \A s, t \in N : lca[<<s, t>>] = IF s = t THEN s ELSE lca[Higher(<<s, t>>, H!Chain, Tree)]
  BY <1>1 DEF IsMeet
<1>4. ASSUME NEW s \in {"RECEIVING", "FLUSHING"}, NEW t \in {"RECEIVING", "FLUSHING"}, s # t
      PROVE  lca[<<s, t>>] = "CONNECTED"
  <2>1. Higher(<<s, t>>, H!Chain, Tree) = <<"CONNECTED", "CONNECTED">>
    <3>1. /\ Len(H!Chain[s]) = 4 /\ Len(H!Chain[t]) = 4
          /\ Tree[s] = "CONNECTED" /\ Tree[t] = "CONNECTED"
      BY HChains, HTreeIs
    <3> QED BY <3>1 DEF Higher
  <2>2. lca[<<s, t>>] = lca[<<"CONNECTED", "CONNECTED">>]
    <3>1. s \in N /\ t \in N /\ s # t
      BY <1>4, HTreeIs
    <3>2. lca[<<s, t>>] = lca[Higher(<<s, t>>, H!Chain, Tree)]
      BY <1>3, <3>1
    <3> QED BY <2>1, <3>2
  <2> QED BY <1>3, <2>2, HTreeIs
<1>5. \A s, t \in N : Above(lca[<<s, t>>], s, "NULL", H!Chain)
                      /\ Above(lca[<<s, t>>], t, "NULL", H!Chain)
  BY <1>1, HChain, HForest, MeetIsAbove
<1>6. ASSUME NEW l, Above(l, "NULL", "NULL", H!Chain) PROVE l = "NULL"
  BY <1>6, HChains DEF Above
<1> QED BY <1>2, <1>4, <1>5, <1>6

-----------------------------------------------------------------------------
\* The transitions that are found

\* The search, for a queue that is empty or not
Passing(empty) == IF empty THEN {"queue_empty"} ELSE {}

ConnFound(s, event, empty) == H!Handler(ConnTables, s, event, Passing(empty))

LEMMA ConnHandlerIs ==
  ASSUME NEW c, NEW event
  PROVE  ConnHandler(c, event) = ConnFound(c.current, event, c.queue = <<>>)
BY DEF ConnHandler, ConnFound, Passing

ConnMatches(event, empty) ==
  [s \in HStates |-> H!Matches(ConnTables[s], event, Passing(empty))]

LEMMA ConnFoundIn ==
  ASSUME NEW event, NEW empty \in BOOLEAN, NEW s \in HStates
  PROVE  ConnFound(s, event, empty) =
           IF ConnMatches(event, empty)[s] = {}
             THEN IF Tree[s] = "NULL" THEN <<>> ELSE ConnFound(Tree[s], event, empty)
             ELSE <<ConnTables[s][Min(ConnMatches(event, empty)[s])]>>
<1> DEFINE matches == [a \in HStates |-> H!Matches(ConnTables[a], event, Passing(empty))]
           handler == CHOOSE g : g = [a \in HStates \cup {"NULL"} |->
                        IF a = "NULL" THEN <<>>
                        ELSE IF matches[a] = {} THEN g[Tree[a]]
                        ELSE <<ConnTables[a][Min(matches[a])]>>]
<1>1. IsHandler(handler, HStates, Tree, "NULL", matches, ConnTables)
  <2> HIDE DEF matches
  <2>1. \E g : IsHandler(g, HStates, Tree, "NULL", matches, ConnTables)
    BY HandlerExists, HForest
  <2> QED BY <2>1 DEF IsHandler
<1>2. \A t : ConnFound(t, event, empty) = handler[t]
  BY DEF H!Handler, ConnFound, HStates, H!Min, Min
<1>3. ASSUME NEW a \in HStates PROVE matches[a] = ConnMatches(event, empty)[a]
  BY DEF ConnMatches
<1>4. s # "NULL" /\ Tree[s] \in HStates \cup {"NULL"}
  BY HTreeIs
<1> HIDE DEF matches, handler
<1> QED BY <1>1, <1>2, <1>3, <1>4 DEF IsHandler

LEMMA ConnTablesAre ==
  /\ ConnTables["RECEIVING"] = <<H!Trans("DATA", "NULL", "none", "echo", "internal")>>
  /\ ConnTables["FLUSHING"] = <<H!Trans("WRITABLE", "NULL", "none", "try_drain", "internal")>>
  /\ ConnTables["CONNECTED"] = <<H!Trans("EOF", "CLOSING", "queue_empty", "none", "external")>>
  /\ ConnTables["ESTABLISHED"] = <<H!Trans("ERROR", "FAILED", "none", "none", "external")>>
  /\ ConnTables["TOP"] = <<>>
BY DEF ConnTables

\* A table of one entry
LEMMA ConnEntry ==
  ASSUME NEW s \in HStates, NEW event, NEW empty \in BOOLEAN,
         NEW e, NEW t, NEW g, NEW a, NEW ty, ConnTables[s] = <<H!Trans(e, t, g, a, ty)>>
  PROVE  IF event = e /\ (g = "none" \/ g \in Passing(empty))
           THEN ConnFound(s, event, empty) = <<H!Trans(e, t, g, a, ty)>>
           ELSE Tree[s] # "NULL" => ConnFound(s, event, empty) = ConnFound(Tree[s], event, empty)
<1>1. ConnMatches(event, empty)[s] =
        IF event = e /\ (g = "none" \/ g \in Passing(empty)) THEN {1} ELSE {}
  BY DEF ConnMatches, H!Matches, H!Trans
<1>2. Min({1}) = 1
  BY MinIsIn
<1> QED BY <1>1, <1>2, ConnFoundIn

LEMMA ConnLeads ==
  ASSUME NEW empty \in BOOLEAN
  PROVE  /\ ConnFound("RECEIVING", "DATA", empty) =
              <<H!Trans("DATA", "NULL", "none", "echo", "internal")>>
         /\ ConnFound("FLUSHING", "DATA", empty) = <<>>
         /\ \A s \in {"RECEIVING", "FLUSHING"} :
              /\ ConnFound(s, "EOF", empty) =
                   IF empty THEN <<H!Trans("EOF", "CLOSING", "queue_empty", "none", "external")>>
                   ELSE <<>>
              /\ ConnFound(s, "ERROR", empty) =
                   <<H!Trans("ERROR", "FAILED", "none", "none", "external")>>
         /\ ConnFound("FLUSHING", "WRITABLE", empty) =
              <<H!Trans("WRITABLE", "NULL", "none", "try_drain", "internal")>>
         /\ ConnFound("RECEIVING", "WRITABLE", empty) = <<>>
<1>1. ASSUME NEW event PROVE ConnFound("TOP", event, empty) = <<>>
  <2>1. ConnMatches(event, empty)["TOP"] = {}
    BY ConnTablesAre, HTreeIs DEF ConnMatches, H!Matches
  <2> QED BY <2>1, ConnFoundIn, HTreeIs
<1>2. ASSUME NEW event, event # "ERROR" PROVE ConnFound("ESTABLISHED", event, empty) = <<>>
  BY <1>1, <1>2, ConnEntry, ConnTablesAre, HTreeIs
<1>3. ASSUME NEW event, event # "ERROR", event # "EOF" PROVE ConnFound("CONNECTED", event, empty) = <<>>
  BY <1>2, <1>3, ConnEntry, ConnTablesAre, HTreeIs
<1>4. ConnFound("ESTABLISHED", "ERROR", empty) = <<H!Trans("ERROR", "FAILED", "none", "none", "external")>>
  BY ConnEntry, ConnTablesAre, HTreeIs
<1>5. ConnFound("CONNECTED", "ERROR", empty) = ConnFound("ESTABLISHED", "ERROR", empty)
  BY ConnEntry, ConnTablesAre, HTreeIs
<1>6. ConnFound("CONNECTED", "EOF", empty) =
        IF empty THEN <<H!Trans("EOF", "CLOSING", "queue_empty", "none", "external")>> ELSE <<>>
  <2>1. "CONNECTED" \in HStates /\ Tree["CONNECTED"] = "ESTABLISHED" /\ "EOF" # "ERROR"
    BY HTreeIs
  <2>2. empty => ConnFound("CONNECTED", "EOF", empty) =
                   <<H!Trans("EOF", "CLOSING", "queue_empty", "none", "external")>>
    <3> DEFINE P(e) == e = "EOF" /\ ("queue_empty" = "none" \/ "queue_empty" \in Passing(empty))
    <3>1. IF P("EOF")
            THEN ConnFound("CONNECTED", "EOF", empty) =
                   <<H!Trans("EOF", "CLOSING", "queue_empty", "none", "external")>>
            ELSE TRUE
      BY <2>1, ConnEntry, ConnTablesAre
    <3>2. empty => P("EOF")
      BY DEF Passing
    <3> QED BY <3>1, <3>2, Zenon
  <2>3. ~empty => ConnFound("CONNECTED", "EOF", empty) = ConnFound("ESTABLISHED", "EOF", empty)
    BY <2>1, ConnEntry, ConnTablesAre DEF Passing
  <2> QED BY <1>2, <2>1, <2>2, <2>3
<1>7. ASSUME NEW s \in {"RECEIVING", "FLUSHING"}, NEW event \in {"EOF", "ERROR"}
      PROVE  ConnFound(s, event, empty) = ConnFound("CONNECTED", event, empty)
  BY ConnEntry, ConnTablesAre, HTreeIs
<1>8. ConnFound("RECEIVING", "DATA", empty) = <<H!Trans("DATA", "NULL", "none", "echo", "internal")>>
  BY ConnEntry, ConnTablesAre, HTreeIs
<1>9. ConnFound("FLUSHING", "WRITABLE", empty) =
        <<H!Trans("WRITABLE", "NULL", "none", "try_drain", "internal")>>
  BY ConnEntry, ConnTablesAre, HTreeIs
<1>10. ConnFound("FLUSHING", "DATA", empty) = <<>>
  <2>1. ConnFound("FLUSHING", "DATA", empty) = ConnFound("CONNECTED", "DATA", empty)
    BY ConnEntry, ConnTablesAre, HTreeIs
  <2> QED BY <1>3, <2>1
<1>11. ConnFound("RECEIVING", "WRITABLE", empty) = <<>>
  <2>1. ConnFound("RECEIVING", "WRITABLE", empty) = ConnFound("CONNECTED", "WRITABLE", empty)
    BY ConnEntry, ConnTablesAre, HTreeIs
  <2> QED BY <1>3, <2>1
<1>12. ASSUME NEW s \in {"RECEIVING", "FLUSHING"}
       PROVE  /\ ConnFound(s, "EOF", empty) =
                   IF empty THEN <<H!Trans("EOF", "CLOSING", "queue_empty", "none", "external")>>
                   ELSE <<>>
              /\ ConnFound(s, "ERROR", empty) =
                   <<H!Trans("ERROR", "FAILED", "none", "none", "external")>>
  BY <1>4, <1>5, <1>6, <1>7
<1> QED BY <1>8, <1>9, <1>10, <1>11, <1>12

-----------------------------------------------------------------------------
\* What a transition does to a connection

\* A run of steps, each of which may look at its number
RunOf(g, n, c, step) ==
  g = [i \in 0 .. n |-> IF i = 0 THEN c ELSE step[<<i, g[i - 1]>>]]

LEMMA RunExists ==
  ASSUME NEW n \in Nat, NEW D, NEW c \in D, NEW step \in [(1 .. n) \X D -> D]
  PROVE  \E g \in [0 .. n -> D] : RunOf(g, n, c, step)
<1> DEFINE X == {m \in Nat : m <= n => \E g \in [0 .. m -> D] :
                   g[0] = c /\ \A i \in 1 .. m : g[i] = step[<<i, g[i - 1]>>]}
<1>1. 0 \in X
  <2> DEFINE g == [i \in 0 .. 0 |-> c]
  <2>1. g \in [0 .. 0 -> D] /\ g[0] = c
    OBVIOUS
  <2>2. \A i \in 1 .. 0 : g[i] = step[<<i, g[i - 1]>>]
    OBVIOUS
  <2> HIDE DEF g
  <2> QED BY <2>1, <2>2
<1>2. ASSUME NEW m \in Nat, m \in X PROVE m + 1 \in X
  <2> SUFFICES ASSUME m + 1 <= n
               PROVE  \E g \in [0 .. m + 1 -> D] :
                        g[0] = c /\ \A i \in 1 .. m + 1 : g[i] = step[<<i, g[i - 1]>>]
    OBVIOUS
  <2>1. PICK g \in [0 .. m -> D] : g[0] = c /\ \A i \in 1 .. m : g[i] = step[<<i, g[i - 1]>>]
    BY <1>2
  <2>2. step[<<m + 1, g[m]>>] \in D
    BY <2>1
  <2> DEFINE h == [i \in 0 .. m + 1 |-> IF i = m + 1 THEN step[<<m + 1, g[m]>>] ELSE g[i]]
  <2>3. h \in [0 .. m + 1 -> D]
    BY <2>1, <2>2
  <2>4. h[0] = c
    BY <2>1
  <2>5. ASSUME NEW i \in 1 .. m + 1 PROVE h[i] = step[<<i, h[i - 1]>>]
    <3>1. CASE i = m + 1
      <4>1. m \in 0 .. m + 1 /\ m # m + 1 /\ m + 1 \in 0 .. m + 1 /\ i - 1 = m
        BY <3>1
      <4>2. h[m] = g[m] /\ h[m + 1] = step[<<m + 1, g[m]>>]
        BY <4>1
      <4> HIDE DEF h
      <4> QED BY <3>1, <4>1, <4>2
    <3>2. CASE i # m + 1
      <4>1. i \in 1 .. m /\ i - 1 \in 0 .. m
        BY <3>2
      <4>2. h[i] = g[i] /\ h[i - 1] = g[i - 1]
        BY <4>1
      <4> QED BY <2>1, <4>1, <4>2
    <3> QED BY <3>1, <3>2
  <2> HIDE DEF h
  <2> QED BY <2>3, <2>4, <2>5
<1>3. n \in X
  <2>1. \A m \in Nat : m \in X
    <3> HIDE DEF X
    <3> QED BY <1>1, <1>2, InductOnNat
  <2> QED BY <2>1
<1>4. PICK g \in [0 .. n -> D] : g[0] = c /\ \A i \in 1 .. n : g[i] = step[<<i, g[i - 1]>>]
  BY <1>3
<1>5. RunOf(g, n, c, step)
  <2>1. \A i \in 0 .. n : g[i] = IF i = 0 THEN c ELSE step[<<i, g[i - 1]>>]
    BY <1>4
  <2> QED BY <2>1 DEF RunOf
<1> QED BY <1>5

\* What holds at first and is preserved holds all along.
LEMMA StaysIn ==
  ASSUME NEW n \in Nat, NEW g, NEW D, g[0] \in D, \A i \in 1 .. n : g[i - 1] \in D => g[i] \in D
  PROVE  \A i \in 0 .. n : g[i] \in D
<1> DEFINE X == {i \in Nat : i <= n => g[i] \in D}
<1>1. 0 \in X
  OBVIOUS
<1>2. ASSUME NEW i \in Nat, i \in X PROVE i + 1 \in X
  <2> SUFFICES ASSUME i + 1 <= n PROVE g[i + 1] \in D
    OBVIOUS
  <2>1. g[i] \in D /\ i + 1 \in 1 .. n /\ (i + 1) - 1 = i
    BY <1>2
  <2> QED BY <2>1
<1>3. \A i \in Nat : i \in X
  <2> HIDE DEF X
  <2> QED BY <1>1, <1>2, InductOnNat
<1> QED BY <1>3

Exiting(exits) == [p \in (1 .. Len(exits)) \X ConnRec |-> OnExit(p[2], exits[p[1]])]

EnteringBack(entries) ==
  [p \in (1 .. Len(entries)) \X ConnRec |-> OnEntry(p[2], entries[Len(entries) + 1 - p[1]])]

\* What entry and exit actions leave alone
SameBut(c, r) ==
  /\ r.mem = c.mem /\ r.queue = c.queue /\ r.next = c.next /\ r.pp_self = c.pp_self
  /\ r.wrote = c.wrote /\ r.got = c.got /\ r.sent = c.sent /\ r.read = c.read
  /\ r.eof = c.eof /\ r.reset = c.reset

LEMMA ActionsKeep ==
  ASSUME NEW c \in ConnRec, NEW s
  PROVE  /\ OnEntry(c, s) \in ConnRec /\ SameBut(c, OnEntry(c, s))
         /\ OnExit(c, s) \in ConnRec /\ SameBut(c, OnExit(c, s))
<1> DEFINE Good1(r) == r \in ConnRec /\ SameBut(c, r)
<1>1. ASSUME NEW A \in SUBSET {"EV_READ", "EV_WRITE"} PROVE Good1(Arm(c, A))
  BY DEF Arm, ConnRec, SameBut
<1>2. Good1(StopAndClose(c))
  BY DEF StopAndClose, ConnRec, SameBut
<1>3. Good1(c)
  BY DEF SameBut
<1>4. OnEntry(c, s) \in {Arm(c, {"EV_READ"}), Arm(c, {"EV_READ", "EV_WRITE"}), StopAndClose(c), c}
  BY Zenon DEF OnEntry
<1>5. OnExit(c, s) \in {StopAndClose(c), c}
  BY DEF OnExit
<1>6. Good1(OnEntry(c, s))
  <2> HIDE DEF Good1
  <2> QED BY <1>1, <1>2, <1>3, <1>4
<1>7. Good1(OnExit(c, s))
  <2> HIDE DEF Good1
  <2> QED BY <1>2, <1>3, <1>5
<1> QED BY <1>6, <1>7

LEMMA BetweenIs ==
  ASSUME NEW s \in HStates \cup {"NULL"}, NEW t \in HStates \cup {"NULL"}, s # "NULL" \/ t # "NULL"
  PROVE  /\ Between[s][t] = IF s = t THEN <<s>> ELSE H!Below(s, H!Lca(s, t))
         /\ Between[s][t] \in Seq(HStates)
<1>1. Between[s][t] = IF s = t THEN <<s>> ELSE H!Below(s, H!Lca(s, t))
  BY DEF Between, HStates
<1>2. H!Below(s, H!Lca(s, t)) \in Seq(HStates)
  <2>1. /\ H!Chain[s] \in Seq(HStates) /\ Above(H!Lca(s, t), s, "NULL", H!Chain)
        /\ H!Chain["NULL"] = <<>>
    BY HChains, HMeets
  <2>2. PICK n \in Nat : n = Len(H!Chain[s])
    BY <2>1
  <2>3. PICK i \in 1 .. n + 1 :
          H!Lca(s, t) = IF i <= n THEN H!Chain[s][i] ELSE "NULL"
    BY <2>1, <2>2 DEF Above
  <2>4. H!Lca(s, t) \in HStates \cup {"NULL"}
    BY <2>1, <2>2, <2>3
  <2>5. PICK l \in Nat : l = Len(H!Chain[H!Lca(s, t)])
    BY <2>4, HChains
  <2>6. \A j \in 1 .. n - l : H!Chain[s][j] \in HStates
    BY <2>1, <2>2
  <2> QED BY <2>1, <2>2, <2>5, <2>6, SubSeqProperties DEF H!Below
<1> QED BY <1>1, <1>2

\* Perform as two runs, one of exit and one of entry actions
Runs(c, exits, entries, l, e) ==
  /\ l[0] = c /\ \A i \in 1 .. Len(exits) : l[i] = OnExit(l[i - 1], exits[i])
  /\ e[0] = l[Len(exits)]
  /\ \A i \in 1 .. Len(entries) : e[i] = OnEntry(e[i - 1], entries[Len(entries) + 1 - i])

PerformsAs(c, target, exits, entries) ==
  \E l \in [0 .. Len(exits) -> ConnRec], e \in [0 .. Len(entries) -> ConnRec] :
    /\ Runs(c, exits, entries, l, e)
    /\ Perform(c, target) = [e[Len(entries)] EXCEPT !.current = target]

LEMMA PerformRuns ==
  ASSUME NEW c \in ConnRec, NEW target \in HStates, NEW exits, NEW entries,
         exits = Between[c.current][target], entries = Between[target][c.current]
  PROVE  /\ exits \in Seq(HStates) /\ entries \in Seq(HStates)
         /\ PerformsAs(c, target, exits, entries)
<1> DEFINE leaves == CHOOSE g : g = [i \in 0 .. Len(exits) |->
                                     IF i = 0 THEN c ELSE OnExit(g[i - 1], exits[i])]
           enters(f) == CHOOSE g : g = [i \in 0 .. Len(entries) |->
                        IF i = 0 THEN f[Len(exits)]
                        ELSE OnEntry(g[i - 1], entries[Len(entries) + 1 - i])]
<1>1. exits \in Seq(HStates) /\ entries \in Seq(HStates)
  <2>1. c.current \in HStates \cup {"NULL"} /\ target # "NULL"
    BY HTreeIs DEF ConnRec
  <2> QED BY <2>1, BetweenIs
<1>2. Perform(c, target) = [enters(leaves)[Len(entries)] EXCEPT !.current = target]
  BY DEF Perform
<1>3. PICK n \in Nat, m \in Nat : n = Len(exits) /\ m = Len(entries)
  BY <1>1
<1>4. Exiting(exits) \in [(1 .. n) \X ConnRec -> ConnRec]
  BY <1>3, ActionsKeep DEF Exiting
<1>5. EnteringBack(entries) \in [(1 .. m) \X ConnRec -> ConnRec]
  BY <1>3, ActionsKeep DEF EnteringBack
<1>6. PICK l \in [0 .. n -> ConnRec] : RunOf(l, n, c, Exiting(exits))
  BY <1>4, RunExists
<1>7. l = [i \in 0 .. n |-> IF i = 0 THEN c ELSE OnExit(l[i - 1], exits[i])]
  <2>1. ASSUME NEW i \in 0 .. n
        PROVE  l[i] = IF i = 0 THEN c ELSE OnExit(l[i - 1], exits[i])
    <3>1. i # 0 => <<i, l[i - 1]>> \in (1 .. n) \X ConnRec
      BY <1>6
    <3> QED BY <1>3, <1>6, <3>1 DEF RunOf, Exiting
  <2> QED BY <1>6, <2>1
<1>8. leaves = [i \in 0 .. n |-> IF i = 0 THEN c ELSE OnExit(leaves[i - 1], exits[i])]
  BY <1>3, <1>7
<1> HIDE DEF leaves
<1>9. leaves[0] = c /\ \A i \in 1 .. n : leaves[i] = OnExit(leaves[i - 1], exits[i])
  <2>1. \A i \in 0 .. n : leaves[i] = IF i = 0 THEN c ELSE OnExit(leaves[i - 1], exits[i])
    BY <1>8
  <2> QED BY <2>1
<1>10. \A i \in 0 .. n : leaves[i] \in ConnRec
  <2>1. leaves[0] \in ConnRec /\ \A i \in 1 .. n : leaves[i - 1] \in ConnRec => leaves[i] \in ConnRec
    BY <1>9, ActionsKeep
  <2> QED BY <2>1, StaysIn
<1>11. leaves \in [0 .. n -> ConnRec]
  BY <1>8, <1>10
<1>12. leaves[n] \in ConnRec
  BY <1>10
<1>13. PICK e \in [0 .. m -> ConnRec] : RunOf(e, m, leaves[n], EnteringBack(entries))
  BY <1>5, <1>12, RunExists
<1>14. e = [i \in 0 .. m |-> IF i = 0 THEN leaves[n] ELSE OnEntry(e[i - 1], entries[m + 1 - i])]
  <2>1. ASSUME NEW i \in 0 .. m
        PROVE  e[i] = IF i = 0 THEN leaves[n] ELSE OnEntry(e[i - 1], entries[m + 1 - i])
    <3>1. i # 0 => <<i, e[i - 1]>> \in (1 .. m) \X ConnRec
      BY <1>13
    <3> QED BY <1>3, <1>13, <3>1 DEF RunOf, EnteringBack
  <2> QED BY <1>13, <2>1
<1> DEFINE h == enters(leaves)
<1>15. h = [i \in 0 .. m |-> IF i = 0 THEN leaves[n] ELSE OnEntry(h[i - 1], entries[m + 1 - i])]
  <2>1. h = CHOOSE g : g = [i \in 0 .. m |-> IF i = 0 THEN leaves[n]
                                            ELSE OnEntry(g[i - 1], entries[m + 1 - i])]
    BY <1>3
  <2> HIDE DEF h
  <2> QED BY <1>14, <2>1
<1>16. Perform(c, target) = [h[m] EXCEPT !.current = target]
  BY <1>2, <1>3
<1> HIDE DEF h
<1>17. h[0] = leaves[n] /\ \A i \in 1 .. m : h[i] = OnEntry(h[i - 1], entries[m + 1 - i])
  <2>1. \A i \in 0 .. m : h[i] = IF i = 0 THEN leaves[n] ELSE OnEntry(h[i - 1], entries[m + 1 - i])
    BY <1>15
  <2> QED BY <2>1
<1>18. \A i \in 0 .. m : h[i] \in ConnRec
  <2>1. h[0] \in ConnRec /\ \A i \in 1 .. m : h[i - 1] \in ConnRec => h[i] \in ConnRec
    BY <1>12, <1>17, ActionsKeep
  <2> QED BY <2>1, StaysIn
<1>19. h \in [0 .. m -> ConnRec]
  BY <1>15, <1>18
<1>20. Runs(c, exits, entries, leaves, h)
  BY <1>3, <1>9, <1>17 DEF Runs
<1>21. PerformsAs(c, target, exits, entries)
  BY <1>3, <1>11, <1>16, <1>19, <1>20 DEF PerformsAs
<1> QED BY <1>1, <1>21

\* A transition ends in its target and leaves the rest to the actions.
LEMMA PerformKeeps ==
  ASSUME NEW c \in ConnRec, NEW target \in HStates
  PROVE  /\ Perform(c, target) \in ConnRec /\ Perform(c, target).current = target
         /\ SameBut(c, Perform(c, target))
<1> DEFINE exits == Between[c.current][target]
           entries == Between[target][c.current]
           D == {r \in ConnRec : SameBut(c, r)}
<1>1. PICK l \in [0 .. Len(exits) -> ConnRec], e \in [0 .. Len(entries) -> ConnRec] :
        /\ Runs(c, exits, entries, l, e)
        /\ Perform(c, target) = [e[Len(entries)] EXCEPT !.current = target]
  BY PerformRuns DEF PerformsAs
<1>2. exits \in Seq(HStates) /\ entries \in Seq(HStates)
  BY PerformRuns
<1> HIDE DEF exits, entries
<1>3. PICK n \in Nat, m \in Nat : n = Len(exits) /\ m = Len(entries)
  BY <1>2
<1>4. ASSUME NEW r \in D, NEW s PROVE OnExit(r, s) \in D /\ OnEntry(r, s) \in D
  <2>1. r \in ConnRec /\ SameBut(c, r)
    OBVIOUS
  <2>2. /\ OnExit(r, s) \in ConnRec /\ SameBut(r, OnExit(r, s))
        /\ OnEntry(r, s) \in ConnRec /\ SameBut(r, OnEntry(r, s))
    BY <2>1, ActionsKeep
  <2> QED BY <2>1, <2>2 DEF SameBut
<1>5. c \in D
  BY DEF SameBut
<1> HIDE DEF D
<1>6. l[n] \in D
  <2>1. l[0] \in D /\ \A i \in 1 .. n : l[i - 1] \in D => l[i] \in D
    BY <1>1, <1>3, <1>4, <1>5 DEF Runs
  <2>2. \A i \in 0 .. n : l[i] \in D
    BY <2>1, StaysIn
  <2> QED BY <2>2
<1>7. e[m] \in D
  <2>1. e[0] \in D /\ \A i \in 1 .. m : e[i - 1] \in D => e[i] \in D
    BY <1>1, <1>3, <1>4, <1>6 DEF Runs
  <2>2. \A i \in 0 .. m : e[i] \in D
    BY <2>1, StaysIn
  <2> QED BY <2>2
<1>8. Perform(c, target) = [e[m] EXCEPT !.current = target]
  BY <1>1, <1>3
<1>9. e[m] \in ConnRec /\ SameBut(c, e[m])
  BY <1>7 DEF D
<1>10. ASSUME NEW r \in ConnRec
       PROVE  /\ [r EXCEPT !.current = target] \in ConnRec
              /\ [r EXCEPT !.current = target].current = target
              /\ SameBut(r, [r EXCEPT !.current = target])
  BY DEF ConnRec, SameBut
<1> QED BY <1>8, <1>9, <1>10 DEF SameBut

\* Between the two states of a connection that stays
LEMMA BetweenTheTwo ==
  ASSUME NEW s \in {"RECEIVING", "FLUSHING"}, NEW t \in {"RECEIVING", "FLUSHING"}
  PROVE  Between[s][t] = <<s>>
<1>1. s \in HStates /\ t \in HStates /\ s # "NULL"
  BY HTreeIs
<1>2. CASE s = t
  BY <1>1, <1>2, BetweenIs
<1>3. CASE s # t
  <2>1. Between[s][t] = H!Below(s, "CONNECTED")
    <3>1. Between[s][t] = IF s = t THEN <<s>> ELSE H!Below(s, H!Lca(s, t))
      BY <1>1, BetweenIs
    <3>2. H!Lca(s, t) = "CONNECTED"
      BY <1>3, HMeets
    <3> QED BY <1>3, <3>1, <3>2
  <2>2. H!Chain[s] \in Seq(HStates) /\ Len(H!Chain[s]) = 4 /\ H!Chain[s][1] = s
    BY <1>1, HChains
  <2>3. H!Below(s, "CONNECTED") = SubSeq(H!Chain[s], 1, 1)
    BY <2>2, HChains DEF H!Below
  <2> QED BY <2>1, <2>2, <2>3
<1> QED BY <1>2, <1>3

LEMMA PerformTheTwo ==
  ASSUME NEW c \in ConnRec, c.current \in {"RECEIVING", "FLUSHING"},
         NEW target \in {"RECEIVING", "FLUSHING"}
  PROVE  Perform(c, target) =
           [c EXCEPT !.armed = IF target = "FLUSHING" THEN {"EV_READ", "EV_WRITE"} ELSE @,
                     !.current = target]
<1>1. target \in HStates
  BY HTreeIs
<1>2. Between[c.current][target] = <<c.current>> /\ Between[target][c.current] = <<target>>
  BY BetweenTheTwo
<1>3. PICK l, e :
        /\ Runs(c, <<c.current>>, <<target>>, l, e)
        /\ Perform(c, target) = [e[1] EXCEPT !.current = target]
  <2>1. PICK l \in [0 .. Len(<<c.current>>) -> ConnRec], e \in [0 .. Len(<<target>>) -> ConnRec] :
          /\ Runs(c, <<c.current>>, <<target>>, l, e)
          /\ Perform(c, target) = [e[Len(<<target>>)] EXCEPT !.current = target]
    <3>1. PICK exits, entries :
            exits = Between[c.current][target] /\ entries = Between[target][c.current]
      OBVIOUS
    <3>2. PerformsAs(c, target, exits, entries)
      BY <1>1, <3>1, PerformRuns
    <3>3. exits = <<c.current>> /\ entries = <<target>>
      BY <1>2, <3>1
    <3>4. PICK l \in [0 .. Len(exits) -> ConnRec], e \in [0 .. Len(entries) -> ConnRec] :
            /\ Runs(c, exits, entries, l, e)
            /\ Perform(c, target) = [e[Len(entries)] EXCEPT !.current = target]
      BY <3>2 DEF PerformsAs
    <3> QED BY <3>3, <3>4
  <2>2. Len(<<target>>) = 1
    OBVIOUS
  <2> QED BY <2>1, <2>2
<1>4. l[0] = c /\ l[1] = OnExit(l[0], c.current) /\ e[0] = l[1] /\ e[1] = OnEntry(e[0], target)
  BY <1>3 DEF Runs
<1>5. e[1] = OnEntry(c, target)
  BY <1>4 DEF OnExit
<1>6. OnEntry(c, target) =
        IF target = "FLUSHING" THEN Arm(c, {"EV_READ", "EV_WRITE"}) ELSE c
  BY Zenon DEF OnEntry
<1>7. CASE target = "FLUSHING"
  BY <1>3, <1>5, <1>6, <1>7 DEF Arm, ConnRec
<1>8. CASE target = "RECEIVING"
  <2>1. Perform(c, target) = [c EXCEPT !.current = target]
    BY <1>3, <1>5, <1>6, <1>8
  <2>2. [c EXCEPT !.current = target] = [c EXCEPT !.armed = @, !.current = target]
    BY DEF ConnRec
  <2> QED BY <1>8, <2>1, <2>2
<1> QED BY <1>7, <1>8

\* hsm_init of a connection that was just accepted
LEMMA PerformFirst ==
  ASSUME NEW c \in ConnRec, c.current = "NULL"
  PROVE  "EV_READ" \in Perform(c, "RECEIVING").armed
<1>1. "RECEIVING" \in HStates /\ "NULL" # "RECEIVING" /\ "NULL" \notin HStates
  BY HTreeIs
<1>2. Between["NULL"]["RECEIVING"] = <<>>
  <2>1. Between["NULL"]["RECEIVING"] = H!Below("NULL", "NULL")
    <3>1. Between["NULL"]["RECEIVING"] = H!Below("NULL", H!Lca("NULL", "RECEIVING"))
      BY <1>1, BetweenIs
    <3> QED BY <1>1, <3>1, HMeets
  <2> QED BY <2>1, HChains DEF H!Below
<1>3. Between["RECEIVING"]["NULL"] = H!Chain["RECEIVING"]
  <2>1. Between["RECEIVING"]["NULL"] = H!Below("RECEIVING", "NULL")
    <3>1. Between["RECEIVING"]["NULL"] = H!Below("RECEIVING", H!Lca("RECEIVING", "NULL"))
      BY <1>1, BetweenIs
    <3> QED BY <1>1, <3>1, HMeets
  <2>2. H!Chain["RECEIVING"] \in Seq(HStates) /\ Len(H!Chain["RECEIVING"]) = 4
    BY <1>1, HChains
  <2>3. SubSeq(H!Chain["RECEIVING"], 1, 4) = H!Chain["RECEIVING"]
    BY <2>2
  <2> QED BY <2>1, <2>2, <2>3, HChains DEF H!Below
<1>4. PICK l, e :
        /\ Runs(c, <<>>, H!Chain["RECEIVING"], l, e)
        /\ e \in [0 .. 4 -> ConnRec]
        /\ Perform(c, "RECEIVING") = [e[4] EXCEPT !.current = "RECEIVING"]
  <2>1. Len(H!Chain["RECEIVING"]) = 4
    BY HChains
  <2>2. PICK l \in [0 .. Len(<<>>) -> ConnRec], e \in [0 .. Len(H!Chain["RECEIVING"]) -> ConnRec] :
          /\ Runs(c, <<>>, H!Chain["RECEIVING"], l, e)
          /\ Perform(c, "RECEIVING") =
               [e[Len(H!Chain["RECEIVING"])] EXCEPT !.current = "RECEIVING"]
    <3>1. PICK exits, entries :
            exits = Between[c.current]["RECEIVING"] /\ entries = Between["RECEIVING"][c.current]
      OBVIOUS
    <3>2. PerformsAs(c, "RECEIVING", exits, entries)
      BY <1>1, <3>1, PerformRuns
    <3>3. exits = <<>> /\ entries = H!Chain["RECEIVING"]
      BY <1>2, <1>3, <3>1
    <3> QED BY <3>2, <3>3 DEF PerformsAs
  <2> QED BY <2>1, <2>2
<1>5. e[3] = OnEntry(e[2], "CONNECTED") /\ e[4] = OnEntry(e[3], "RECEIVING")
  <2>1. \A i \in 1 .. 4 : e[i] = OnEntry(e[i - 1], H!Chain["RECEIVING"][5 - i])
    <3>1. Len(H!Chain["RECEIVING"]) = 4
      BY HChains
    <3> QED BY <1>4, <3>1 DEF Runs
  <2>2. e[3] = OnEntry(e[3 - 1], H!Chain["RECEIVING"][5 - 3])
    BY <2>1
  <2>3. e[4] = OnEntry(e[4 - 1], H!Chain["RECEIVING"][5 - 4])
    BY <2>1
  <2>4. 3 - 1 = 2 /\ 5 - 3 = 2 /\ 4 - 1 = 3 /\ 5 - 4 = 1
    OBVIOUS
  <2>5. H!Chain["RECEIVING"][1] = "RECEIVING" /\ H!Chain["RECEIVING"][2] = "CONNECTED"
    BY HChains
  <2> QED BY <2>2, <2>3, <2>4, <2>5
<1>6. e[3] = Arm(e[2], {"EV_READ"}) /\ e[4] = e[3]
  BY <1>5, Zenon DEF OnEntry
<1>7. "EV_READ" \in e[4].armed /\ e[4] \in ConnRec
  <2>1. e[2] \in ConnRec /\ e[4] \in ConnRec
    BY <1>4
  <2>2. Arm(e[2], {"EV_READ"}).armed = {"EV_READ"}
    BY <2>1 DEF Arm, ConnRec
  <2> QED BY <1>6, <2>1, <2>2
<1> QED BY <1>4, <1>7 DEF ConnRec

\* The last thing a transition does is to enter the first state of its entry path.
LEMMA PerformEnds ==
  ASSUME NEW c \in ConnRec, NEW target \in HStates
  PROVE  Len(Between[target][c.current]) >= 1 /\ Between[target][c.current][1] = target =>
           \E p \in ConnRec : Perform(c, target) = [OnEntry(p, target) EXCEPT !.current = target]
<1> DEFINE exits == Between[c.current][target]
           entries == Between[target][c.current]
<1>1. PICK l \in [0 .. Len(exits) -> ConnRec], e \in [0 .. Len(entries) -> ConnRec] :
        /\ Runs(c, exits, entries, l, e)
        /\ Perform(c, target) = [e[Len(entries)] EXCEPT !.current = target]
  BY PerformRuns DEF PerformsAs
<1>2. entries \in Seq(HStates)
  BY PerformRuns
<1> HIDE DEF exits, entries
<1> SUFFICES ASSUME Len(entries) >= 1, entries[1] = target
             PROVE  \E p \in ConnRec : Perform(c, target) = [OnEntry(p, target) EXCEPT !.current = target]
  BY DEF entries
<1>3. PICK n \in Nat : n = Len(entries) /\ n >= 1
  BY <1>2
<1>4. n \in 1 .. n /\ n - 1 \in 0 .. n /\ n + 1 - n = 1
  BY <1>3
<1>5. \A i \in 1 .. n : e[i] = OnEntry(e[i - 1], entries[n + 1 - i])
  BY <1>1, <1>3 DEF Runs
<1>6. e[n] = OnEntry(e[n - 1], entries[1])
  BY <1>4, <1>5
<1>7. e[n - 1] \in ConnRec
  BY <1>1, <1>3, <1>4
<1> QED BY <1>1, <1>3, <1>6, <1>7

\* The transition to FAILED ends with its entry action.
LEMMA PerformFailed ==
  ASSUME NEW c \in ConnRec, c.current \in {"RECEIVING", "FLUSHING"}
  PROVE  Perform(c, "FAILED").armed = {} /\ Perform(c, "FAILED").fd = "closed"
<1> DEFINE entries == Between["FAILED"][c.current]
           lca == H!Lca("FAILED", c.current)
<1>1. c.current \in HStates /\ "FAILED" \in HStates /\ "FAILED" # "NULL" /\ c.current # "FAILED"
  BY HTreeIs
<1>2. entries = H!Below("FAILED", lca)
  BY <1>1, BetweenIs
<1>3. Above(lca, "FAILED", "NULL", H!Chain) /\ Above(lca, c.current, "NULL", H!Chain)
  BY <1>1, HMeets
<1> HIDE DEF entries, lca
<1>4. lca \in {"ESTABLISHED", "TOP", "NULL"}
  <2>1. lca \in {"FAILED", "ESTABLISHED", "TOP", "NULL"}
    <3>1. PICK i \in 1 .. 4 : lca = IF i <= 3 THEN H!Chain["FAILED"][i] ELSE "NULL"
      BY <1>3, HChains DEF Above
    <3>2. i = 1 \/ i = 2 \/ i = 3 \/ i = 4
      BY <3>1
    <3> QED BY <3>1, <3>2, HChains
  <2>2. lca # "FAILED"
    <3>1. Len(H!Chain[c.current]) = 4
      BY HChains
    <3>2. PICK i \in 1 .. 5 : lca = IF i <= 4 THEN H!Chain[c.current][i] ELSE "NULL"
      BY <1>3, <3>1 DEF Above
    <3>3. i = 1 \/ i = 2 \/ i = 3 \/ i = 4 \/ i = 5
      BY <3>2
    <3>4. /\ H!Chain[c.current][1] = c.current /\ H!Chain[c.current][2] = "CONNECTED"
          /\ H!Chain[c.current][3] = "ESTABLISHED" /\ H!Chain[c.current][4] = "TOP"
      BY HChains
    <3>5. lca \in {c.current, "CONNECTED", "ESTABLISHED", "TOP", "NULL"}
      BY <3>2, <3>3, <3>4
    <3> QED BY <1>1, <3>5
  <2> QED BY <2>1, <2>2
<1>5. PICK n \in 1 .. 3 : entries = SubSeq(H!Chain["FAILED"], 1, n)
  <2>1. Len(H!Chain["FAILED"]) = 3 /\ Len(H!Chain["ESTABLISHED"]) = 2
        /\ Len(H!Chain["TOP"]) = 1 /\ Len(H!Chain["NULL"]) = 0
    BY HChains
  <2>2. PICK k \in {0, 1, 2} : k = Len(H!Chain[lca])
    BY <1>4, <2>1
  <2>3. 3 - k \in 1 .. 3
    OBVIOUS
  <2> QED BY <1>2, <2>1, <2>2, <2>3 DEF H!Below
<1>6. Len(entries) >= 1 /\ entries[1] = "FAILED"
  <2>1. H!Chain["FAILED"] \in Seq(HStates) /\ Len(H!Chain["FAILED"]) = 3
        /\ H!Chain["FAILED"][1] = "FAILED"
    BY <1>1, HChains
  <2> QED BY <1>5, <2>1
<1>7. PICK p \in ConnRec : Perform(c, "FAILED") = [OnEntry(p, "FAILED") EXCEPT !.current = "FAILED"]
  BY <1>1, <1>6, PerformEnds DEF entries
<1>8. OnEntry(p, "FAILED") = [p EXCEPT !.armed = {}, !.fd = "closed"]
  BY Zenon DEF OnEntry, StopAndClose
<1>9. PICK q : q = [p EXCEPT !.armed = {}, !.fd = "closed"]
  OBVIOUS
<1>10. [q EXCEPT !.current = "FAILED"].armed = {} /\ [q EXCEPT !.current = "FAILED"].fd = "closed"
  BY <1>9 DEF ConnRec
<1> QED BY <1>7, <1>8, <1>9, <1>10

-----------------------------------------------------------------------------
\* What flushing and queueing do to the bytes of a connection

\* What neither they nor entry and exit actions change
SameLinks(c, r) == r.mem = c.mem /\ r.next = c.next /\ r.pp_self = c.pp_self

SameButBytes(c, r) ==
  /\ SameLinks(c, r) /\ r.current = c.current /\ r.armed = c.armed
  /\ r.reset = c.reset

LEMMA Associates ==
  ASSUME NEW a \in Seq(Nat), NEW b \in Seq(Nat), NEW c \in Seq(Nat)
  PROVE  (a \o b) \o c = a \o (b \o c)
BY ConcatAssociative, SMTT(30)

LEMMA MovedFront ==
  ASSUME NEW s \in Seq(Nat), NEW q \in Seq(Nat), NEW n \in 0 .. Len(q)
  PROVE  /\ s \o SubSeq(q, 1, n) \in Seq(Nat) /\ SubSeq(q, n + 1, Len(q)) \in Seq(Nat)
         /\ Len(s \o SubSeq(q, 1, n)) = Len(s) + n
         /\ (s \o SubSeq(q, 1, n)) \o SubSeq(q, n + 1, Len(q)) = s \o q
<1> DEFINE first == SubSeq(q, 1, n)
           rest == SubSeq(q, n + 1, Len(q))
<1>1. PICK k \in Nat : k = Len(q)
  OBVIOUS
<1>2. (\A i \in 1 .. n : q[i] \in Nat) /\ \A i \in n + 1 .. k : q[i] \in Nat
  BY <1>1
<1>3. first \in Seq(Nat) /\ rest \in Seq(Nat) /\ Len(first) = n
  BY <1>1, <1>2, SubSeqProperties
<1>4. first \o rest = q
  <2>1. 1 \in 1 .. Len(q) + 1 /\ n \in 1 - 1 .. Len(q) /\ Len(q) \in n .. Len(q)
    BY <1>1
  <2>2. first \o rest = SubSeq(q, 1, Len(q))
    BY <2>1, ConcatAdjacentSubSeq
  <2> QED BY <2>2, SubSeqFull
<1>5. (s \o first) \o rest = s \o q
  <2>1. (s \o first) \o rest = s \o (first \o rest)
    BY <1>3, Associates, Zenon
  <2> QED BY <1>4, <2>1
<1>6. s \o first \in Seq(Nat) /\ Len(s \o first) = Len(s) + n
  BY <1>3, ConcatProperties
<1> QED BY <1>3, <1>5, <1>6

LEMMA MoreBytes ==
  ASSUME NEW out \in Seq(Nat), NEW got \in Nat, NEW n \in Nat, Increasing(out, got),
         NEW bytes, bytes = [i \in 1 .. n |-> got + i]
  PROVE  Increasing(out, got + n) /\ Increasing(out \o bytes, got + n)
<1>1. PICK k \in Nat : k = Len(out)
  OBVIOUS
<1>2. (\A i \in 1 .. k : out[i] \in Nat /\ out[i] <= got) /\ \A i \in 2 .. k : out[i - 1] < out[i]
  BY <1>1 DEF Increasing
<1>3. Increasing(out, got + n)
  <2>1. \A i \in 1 .. k : out[i] <= got + n
    BY <1>2
  <2> QED BY <1>1, <1>2, <2>1 DEF Increasing
<1>4. bytes \in Seq(Nat) /\ Len(bytes) = n
  OBVIOUS
<1>5. \A i \in 1 .. n : bytes[i] = got + i
  OBVIOUS
<1> DEFINE new == out \o bytes
<1>6. /\ Len(new) = k + n
      /\ \A i \in 1 .. k + n : new[i] = IF i <= k THEN out[i] ELSE bytes[i - k]
  BY <1>1, <1>4, ConcatProperties
<1> HIDE DEF new
<1>7. \A i \in 1 .. k + n : new[i] = IF i <= k THEN out[i] ELSE got + (i - k)
  <2> TAKE i \in 1 .. k + n
  <2>1. ~(i <= k) => i - k \in 1 .. n
    OBVIOUS
  <2> QED BY <1>5, <1>6, <2>1
<1>8. \A i \in 1 .. k + n : new[i] <= got + n
  <2> TAKE i \in 1 .. k + n
  <2>1. CASE i <= k
    <3>1. i \in 1 .. k
      BY <2>1
    <3>2. out[i] \in Nat /\ out[i] <= got /\ new[i] = out[i]
      BY <1>2, <1>7, <2>1, <3>1
    <3> QED BY <3>2
  <2>2. CASE ~(i <= k)
    BY <1>7, <2>2
  <2> QED BY <2>1, <2>2
<1>9. ASSUME NEW i \in 2 .. k + n PROVE new[i - 1] < new[i]
  <2>1. i \in 1 .. k + n /\ i - 1 \in 1 .. k + n
    OBVIOUS
  <2>2. new[i] = (IF i <= k THEN out[i] ELSE got + (i - k))
        /\ new[i - 1] = (IF i - 1 <= k THEN out[i - 1] ELSE got + (i - 1 - k))
    BY <1>7, <2>1
  <2>3. CASE i <= k
    BY <1>2, <2>2, <2>3
  <2>4. CASE i = k + 1
    <3>1. new[i] = got + 1 /\ new[i - 1] = out[k] /\ k \in 1 .. k
      BY <2>2, <2>4
    <3> QED BY <1>2, <3>1
  <2>5. CASE i > k + 1
    BY <2>2, <2>5
  <2> QED BY <2>3, <2>4, <2>5
<1> QED BY <1>3, <1>6, <1>8, <1>9 DEF Increasing, new

\* The first bytes of some that are in order are in order.
LEMMA FirstBytes ==
  ASSUME NEW s \in Seq(Nat), NEW q \in Seq(Nat), NEW got \in Nat, Increasing(s \o q, got),
         NEW n \in 0 .. Len(q)
  PROVE  Increasing(s \o SubSeq(q, 1, n), got)
<1>1. PICK k \in Nat, l \in Nat : k = Len(s) /\ l = Len(q)
  OBVIOUS
<1>2. /\ Len(s \o q) = k + l
      /\ \A i \in 1 .. k + l : (s \o q)[i] = IF i <= k THEN s[i] ELSE q[i - k]
  BY <1>1, ConcatProperties
<1>3. /\ SubSeq(q, 1, n) \in Seq(Nat) /\ Len(SubSeq(q, 1, n)) = n
      /\ \A i \in 1 .. n : SubSeq(q, 1, n)[i] = q[i]
  <2>1. \A i \in 1 .. n : q[i] \in Nat
    BY <1>1
  <2> QED BY <1>1, <2>1, SubSeqProperties
<1> DEFINE first == SubSeq(q, 1, n)
           out == s \o first
<1> HIDE DEF first
<1>4. /\ Len(out) = k + n
      /\ \A i \in 1 .. k + n : out[i] = IF i <= k THEN s[i] ELSE first[i - k]
  <2>1. first \in Seq(Nat) /\ Len(first) = n
    BY <1>3 DEF first
  <2> QED BY <1>1, <2>1, ConcatProperties
<1> HIDE DEF out
<1>5. \A i \in 1 .. k + n : out[i] = (s \o q)[i]
  <2> TAKE i \in 1 .. k + n
  <2>1. i \in 1 .. k + l /\ (~(i <= k) => i - k \in 1 .. n)
    BY <1>1
  <2> QED BY <1>2, <1>3, <1>4, <2>1 DEF first
<1>6. \A i \in 1 .. k + n : out[i] <= got
  <2> TAKE i \in 1 .. k + n
  <2>1. i \in 1 .. k + l
    BY <1>1
  <2> QED BY <1>2, <1>5, <2>1 DEF Increasing
<1>7. ASSUME NEW i \in 2 .. k + n PROVE out[i - 1] < out[i]
  <2>1. i \in 2 .. k + l /\ i \in 1 .. k + n /\ i - 1 \in 1 .. k + n
    BY <1>1
  <2> QED BY <1>2, <1>5, <2>1 DEF Increasing
<1> QED BY <1>4, <1>6, <1>7 DEF Increasing, out, first

\* What was sent is in order, whatever the queue goes on with.
LEMMA SentIsInOrder ==
  ASSUME NEW c \in ConnRec, BytesInv(c)
  PROVE  SentInv(c)
<1>1. PICK s \in Seq(Nat), q \in Seq(Nat), got \in Nat :
        s = c.sent /\ q = c.queue /\ got = c.got
  BY DEF ConnRec
<1>2. CASE c.current = "FAILED"
  BY <1>2 DEF BytesInv, SentInv
<1>3. CASE c.current # "FAILED"
  <2>1. Increasing(s \o q, got)
    BY <1>1, <1>3 DEF BytesInv
  <2>2. Increasing(s \o SubSeq(q, 1, 0), got)
    <3>1. 0 \in 0 .. Len(q)
      OBVIOUS
    <3> QED BY <2>1, <3>1, FirstBytes, Zenon
  <2>3. s \o SubSeq(q, 1, 0) = s
    OBVIOUS
  <2> QED BY <1>1, <2>2, <2>3 DEF BytesInv, SentInv
<1> QED BY <1>2, <1>3

\* What the sends of a flush may take
LEMMA TakenIs ==
  ASSUME NEW c \in ConnRec, BytesInv(c)
  PROVE  Taken(c) \in 0 .. Len(c.queue) /\ Len(c.sent) + Taken(c) - c.read <= ROOM
<1>1. PICK k \in Nat, l \in Nat, room \in Nat, read \in Nat :
        k = Len(c.queue) /\ l = Len(c.sent) /\ room = ROOM /\ read = c.read
  BY EchoAssumption DEF ConnRec
<1>2. read <= l /\ l - read <= room
  BY <1>1 DEF BytesInv, FitsKernel
<1>3. Taken(c) = IF room - (l - read) < k THEN room - (l - read) ELSE k
  BY <1>1 DEF Taken, Room
<1>4. PICK t \in 0 .. k : t = Taken(c) /\ l + t - read <= room
  <2>1. Taken(c) \in 0 .. k /\ l + Taken(c) - read <= room
    <3>1. PICK t : t = Taken(c)
      OBVIOUS
    <3>2. t \in 0 .. k /\ l + t - read <= room
      BY <1>2, <1>3, <3>1
    <3> QED BY <3>1, <3>2
  <2> QED BY <2>1
<1> QED BY <1>1, <1>4

\* n bytes of the queue are sent.
LEMMA SentIs ==
  ASSUME NEW c \in ConnRec, BytesInv(c), c.current # "FAILED",
         NEW n \in 0 .. Len(c.queue), n <= Taken(c), NEW r, r = Sent(c, n)
  PROVE  /\ r \in ConnRec /\ SameButBytes(c, r) /\ SentInv(r)
         /\ r.queue = c.queue /\ r.read = c.read /\ r.got = c.got
         /\ r.sent \o SubSeq(c.queue, n + 1, Len(c.queue)) = c.sent \o c.queue
         /\ SubSeq(c.queue, n + 1, Len(c.queue)) \in Seq(Nat)
<1>1. PICK s \in Seq(Nat), q \in Seq(Nat), got \in Nat :
        s = c.sent /\ q = c.queue /\ got = c.got
  BY DEF ConnRec
<1>2. PICK first, rest : first = SubSeq(q, 1, n) /\ rest = SubSeq(q, n + 1, Len(q))
  OBVIOUS
<1>3. /\ s \o first \in Seq(Nat) /\ rest \in Seq(Nat)
      /\ Len(s \o first) = Len(s) + n
      /\ (s \o first) \o rest = s \o q
  BY <1>1, <1>2, MovedFront, Zenon
<1>4. PICK new \in Seq(Nat) : new = s \o first
  BY <1>3
<1>5. r = [c EXCEPT !.sent = new]
  BY <1>1, <1>2, <1>4 DEF Sent
<1>6. /\ r \in ConnRec /\ SameButBytes(c, r) /\ r.sent = new /\ r.queue = q
      /\ r.read = c.read /\ r.got = got
  BY <1>1, <1>5 DEF ConnRec, SameButBytes, SameLinks
<1>7. Increasing(new, got)
  <2>1. Increasing(s \o q, got)
    BY <1>1 DEF BytesInv
  <2>2. Increasing(s \o SubSeq(q, 1, n), got)
    BY <1>1, <2>1, FirstBytes, Zenon
  <2> QED BY <1>2, <1>4, <2>2
<1>8. FitsKernel(r)
  <2>1. PICK k \in Nat, l \in Nat, room \in Nat, read \in Nat :
          k = Len(q) /\ l = Len(s) /\ room = ROOM /\ read = c.read
    BY EchoAssumption DEF ConnRec
  <2>2. read <= l /\ Taken(c) \in Nat /\ l + Taken(c) - read <= room /\ n \in Nat
    BY <1>1, <2>1, TakenIs DEF BytesInv, FitsKernel
  <2>3. Len(new) = l + n
    BY <1>3, <1>4, <2>1
  <2>4. n <= Taken(c)
    BY <1>1
  <2>5. read <= l + n /\ (l + n) - read <= room
    BY <2>1, <2>2, <2>4
  <2> QED BY <1>6, <2>1, <2>3, <2>5 DEF FitsKernel
<1> QED BY <1>1, <1>2, <1>3, <1>4, <1>6, <1>7, <1>8 DEF SentInv

\* A flush sends what the kernel takes.
LEMMA FlushKeeps ==
  ASSUME NEW c \in ConnRec, BytesInv(c), c.current # "FAILED", NEW r, r = Flushed(c)
  PROVE  r \in ConnRec /\ BytesInv(r) /\ SameButBytes(c, r)
<1>1. PICK n \in 0 .. Len(c.queue) : n = Taken(c) /\ n <= Taken(c)
  <2>1. Taken(c) \in 0 .. Len(c.queue)
    BY TakenIs
  <2> QED BY <2>1
<1>2. PICK f, rest : f = Sent(c, n) /\ rest = SubSeq(c.queue, n + 1, Len(c.queue))
  OBVIOUS
<1>3. /\ f \in ConnRec /\ SameButBytes(c, f) /\ SentInv(f) /\ f.queue = c.queue
      /\ f.got = c.got /\ f.sent \o rest = c.sent \o c.queue /\ rest \in Seq(Nat)
  BY <1>1, <1>2, SentIs
<1>4. r = [f EXCEPT !.queue = rest]
  BY <1>1, <1>2, <1>3 DEF Flushed
<1>5. /\ r \in ConnRec /\ SameButBytes(f, r) /\ r.sent = f.sent /\ r.queue = rest
      /\ r.read = f.read /\ r.got = f.got
  <2>1. f \in ConnRec /\ rest \in Seq(Nat)
    BY <1>3
  <2>2. /\ r \in ConnRec /\ r.sent = f.sent /\ r.queue = rest /\ r.read = f.read /\ r.got = f.got
        /\ r.mem = f.mem /\ r.next = f.next /\ r.pp_self = f.pp_self
        /\ r.current = f.current /\ r.armed = f.armed /\ r.reset = f.reset
    BY <1>4, <2>1 DEF ConnRec
  <2> QED BY <2>2 DEF SameButBytes, SameLinks
<1>6. SameButBytes(c, r)
  BY <1>3, <1>5 DEF SameButBytes, SameLinks
<1>7. Increasing(r.sent \o r.queue, r.got)
  BY <1>3, <1>5 DEF BytesInv
<1> QED BY <1>3, <1>5, <1>6, <1>7 DEF BytesInv, SentInv, FitsKernel, SameButBytes

\* A send fails when those before it took n bytes, which stay in the queue too.
LEMMA BreakKeeps ==
  ASSUME NEW c \in ConnRec, BytesInv(c), c.current # "FAILED",
         NEW n \in 0 .. Len(c.queue), n <= Taken(c), NEW r, r = Broken(c, n)
  PROVE  /\ r \in ConnRec /\ SentInv(r) /\ SameLinks(c, r)
         /\ r.current = c.current /\ r.queue = c.queue /\ r.reset
<1>1. PICK f : f = Sent(c, n)
  OBVIOUS
<1>2. f \in ConnRec /\ SameButBytes(c, f) /\ SentInv(f) /\ f.queue = c.queue
  BY <1>1, SentIs
<1>3. r = [f EXCEPT !.reset = TRUE]
  BY <1>1 DEF Broken
<1>4. /\ r \in ConnRec /\ r.mem = f.mem /\ r.next = f.next /\ r.pp_self = f.pp_self
      /\ r.current = f.current /\ r.queue = f.queue /\ r.sent = f.sent
      /\ r.read = f.read /\ r.got = f.got /\ r.reset
  BY <1>2, <1>3 DEF ConnRec
<1> QED BY <1>2, <1>4 DEF SentInv, FitsKernel, SameButBytes, SameLinks

\* act_echo with the n bytes that were read
LEMMA QueueKeeps ==
  ASSUME NEW c \in ConnRec, BytesInv(c), c.current # "FAILED", NEW n \in Nat, NEW d,
         d = [c EXCEPT !.got = @ + n],
         NEW r \in {d, EchoQueue(d, [i \in 1 .. n |-> c.got + i])}
  PROVE  r \in ConnRec /\ BytesInv(r) /\ SameButBytes(c, r)
<1> DEFINE bytes == [i \in 1 .. n |-> c.got + i]
<1>1. PICK s \in Seq(Nat), q \in Seq(Nat), got \in Nat :
        s = c.sent /\ q = c.queue /\ got = c.got
  BY DEF ConnRec
<1>2. d \in ConnRec /\ SameButBytes(c, d) /\ d.got = got + n /\ d.sent = s
      /\ d.queue = q /\ d.read = c.read
  <2>1. got + n \in Nat /\ d = [c EXCEPT !.got = got + n]
    BY <1>1
  <2> QED BY <1>1, <2>1 DEF ConnRec, SameButBytes, SameLinks
<1>3. s \o q \in Seq(Nat)
  BY ConcatProperties
<1>4. Increasing(s \o q, got)
  BY <1>1 DEF BytesInv
<1>5. Increasing(s \o q, got + n) /\ Increasing((s \o q) \o bytes, got + n)
  BY <1>1, <1>3, <1>4, MoreBytes
<1>6. BytesInv(d)
  BY <1>1, <1>2, <1>5 DEF BytesInv, FitsKernel, SameButBytes
<1>7. bytes \in Seq(Nat)
  <2>1. bytes = [i \in 1 .. n |-> got + i]
    BY <1>1
  <2>2. \A i \in 1 .. n : got + i \in Nat
    OBVIOUS
  <2> HIDE DEF bytes
  <2> QED BY <2>1, <2>2, FunctionIsSeq
<1>8. r = d \/ r = [d EXCEPT !.queue = q \o bytes]
  BY <1>2 DEF EchoQueue
<1>9. ASSUME r = [d EXCEPT !.queue = q \o bytes]
      PROVE  r \in ConnRec /\ BytesInv(r) /\ SameButBytes(c, r)
  <2> HIDE DEF bytes
  <2>1. q \o bytes \in Seq(Nat)
    BY <1>7, ConcatProperties
  <2>2. r \in ConnRec /\ SameButBytes(c, r) /\ r.queue = q \o bytes
        /\ r.got = got + n /\ r.sent = s /\ r.read = c.read
    <3>1. PICK b \in Seq(Nat) : b = q \o bytes
      BY <2>1
    <3>2. d \in ConnRec /\ r = [d EXCEPT !.queue = b]
      BY <1>2, <1>9, <3>1
    <3>3. r \in ConnRec
      BY <3>2 DEF ConnRec
    <3>4. SameButBytes(d, r) /\ r.queue = b /\ r.got = d.got /\ r.sent = d.sent /\ r.read = d.read
      BY <3>2 DEF ConnRec, SameButBytes, SameLinks
    <3> QED BY <1>2, <3>1, <3>3, <3>4 DEF SameButBytes, SameLinks
  <2>3. s \o (q \o bytes) = (s \o q) \o bytes
    BY <1>7, Associates, Zenon
  <2>4. Increasing(r.sent \o r.queue, r.got)
    BY <1>5, <2>2, <2>3
  <2> QED BY <1>1, <2>2, <2>4 DEF BytesInv, FitsKernel, SameButBytes
<1> QED BY <1>2, <1>6, <1>8, <1>9

-----------------------------------------------------------------------------
\* The list of connections

LEMMA SameList ==
  ASSUME NEW cs \in [Conns -> ConnRec], NEW ds \in [Conns -> ConnRec], NEW h,
         ListInv(cs, h), \A d \in Conns : SameLinks(cs[d], ds[d])
  PROVE  ListInv(ds, h)
<1>1. LiveIn(ds) = LiveIn(cs)
  BY DEF LiveIn, SameLinks
<1>2. \A d \in Conns : ds[d].next = cs[d].next /\ ds[d].pp_self = cs[d].pp_self
  BY DEF SameLinks
<1>3. LiveIn(cs) \subseteq Conns
  BY DEF LiveIn
<1>4. PICK rank \in [Conns -> Nat] : Ranked(cs, rank)
  BY DEF ListInv
<1>5. Ranked(ds, rank)
  BY <1>1, <1>2, <1>3, <1>4 DEF Ranked
<1>6. IF h = "NULL" THEN LiveIn(ds) = {}
      ELSE h \in LiveIn(ds) /\ ds[h].pp_self = "head"
  BY <1>1, <1>2, <1>3 DEF ListInv
<1>7. \A c \in LiveIn(ds) :
       /\ ds[c].next # "NULL" => ds[c].next \in LiveIn(ds) /\ ds[ds[c].next].pp_self = c
       /\ IF ds[c].pp_self = "head" THEN h = c
          ELSE ds[c].pp_self \in LiveIn(ds) /\ ds[ds[c].pp_self].next = c
  BY <1>1, <1>2, <1>3 DEF ListInv
<1> QED BY <1>5, <1>6, <1>7 DEF ListInv

\* accept_cb's push to the front
LEMMA PushedList ==
  ASSUME NEW cs \in [Conns -> ConnRec], NEW h, ListInv(cs, h),
         NEW c \in Conns, c \notin LiveIn(cs),
         NEW ds \in [Conns -> ConnRec],
         ds[c].mem = "live", ds[c].next = h, ds[c].pp_self = "head",
         \A d \in Conns \ {c} :
           /\ ds[d].mem = cs[d].mem /\ ds[d].next = cs[d].next
           /\ ds[d].pp_self = IF d = h THEN c ELSE cs[d].pp_self
  PROVE  ListInv(ds, c)
<1>1. LiveIn(ds) = LiveIn(cs) \cup {c} /\ LiveIn(cs) \subseteq Conns \ {c}
  BY DEF LiveIn
<1>2. c # "NULL" /\ c # "head" /\ \A d \in Conns : d # "NULL" /\ d # "head"
  BY EchoAssumption
<1>3. PICK rank \in [Conns -> Nat] : Ranked(cs, rank)
  BY DEF ListInv
<1> DEFINE new == [d \in Conns |-> IF d = c THEN 0 ELSE rank[d] + 1]
<1>4. /\ h # "NULL" => h \in LiveIn(cs) /\ cs[h].pp_self = "head"
      /\ \A d \in LiveIn(cs) :
           /\ cs[d].next # "NULL" => cs[d].next \in LiveIn(cs) /\ cs[cs[d].next].pp_self = d
           /\ cs[d].pp_self = "head" => h = d
           /\ cs[d].pp_self # "head" => cs[d].pp_self \in LiveIn(cs) /\ cs[cs[d].pp_self].next = d
  BY DEF ListInv
<1>5. new \in [Conns -> Nat] /\ Ranked(ds, new)
  <2>1. new \in [Conns -> Nat]
    OBVIOUS
  <2>2. ASSUME NEW d \in LiveIn(ds), ds[d].next # "NULL" PROVE new[d] < new[ds[d].next]
    <3>1. CASE d = c
      <4>1. h \in Conns /\ h # c /\ ds[d].next = h
        BY <1>1, <1>4, <2>2, <3>1
      <4> QED BY <3>1, <4>1
    <3>2. CASE d # c
      <4>1. d \in LiveIn(cs) /\ d \in Conns /\ ds[d].next = cs[d].next
        BY <1>1, <3>2
      <4>2. cs[d].next \in Conns \ {c} /\ rank[d] < rank[cs[d].next]
        BY <1>1, <1>3, <1>4, <2>2, <4>1 DEF Ranked
      <4> QED BY <3>2, <4>1, <4>2
    <3> QED BY <3>1, <3>2
  <2> HIDE DEF new
  <2> QED BY <2>1, <2>2 DEF Ranked
<1>6. ASSUME NEW d \in LiveIn(ds)
      PROVE  /\ ds[d].next # "NULL" => ds[d].next \in LiveIn(ds) /\ ds[ds[d].next].pp_self = d
             /\ IF ds[d].pp_self = "head" THEN c = d
                ELSE ds[d].pp_self \in LiveIn(ds) /\ ds[ds[d].pp_self].next = d
  <2>1. CASE d = c
    <3>1. ds[d].next = h /\ ds[d].pp_self = "head"
      BY <2>1
    <3>2. h # "NULL" => h \in LiveIn(ds) /\ h \in Conns \ {c} /\ ds[h].pp_self = c
      BY <1>1, <1>4
    <3> QED BY <2>1, <3>1, <3>2
  <2>2. CASE d # c
    <3>1. d \in LiveIn(cs) /\ d \in Conns \ {c} /\ ds[d].next = cs[d].next
          /\ ds[d].pp_self = IF d = h THEN c ELSE cs[d].pp_self
      BY <1>1, <2>2
    <3>2. ds[d].next # "NULL" => ds[d].next \in LiveIn(ds) /\ ds[ds[d].next].pp_self = d
      <4>1. SUFFICES ASSUME NEW x, x = cs[d].next, x # "NULL"
                     PROVE  x \in LiveIn(ds) /\ ds[x].pp_self = d
        BY <3>1
      <4>2. x \in LiveIn(cs) /\ cs[x].pp_self = d /\ x \in Conns \ {c}
        BY <1>1, <1>4, <3>1, <4>1
      <4>3. x # h
        BY <1>2, <1>4, <3>1, <4>1, <4>2
      <4> QED BY <1>1, <4>2, <4>3
    <3>3. CASE d = h
      BY <1>1, <1>2, <3>1, <3>2, <3>3
    <3>4. CASE d # h
      <4>1. cs[d].pp_self # "head"
        BY <1>4, <3>1, <3>4
      <4>2. cs[d].pp_self \in LiveIn(cs) /\ cs[d].pp_self \in Conns \ {c} /\ cs[cs[d].pp_self].next = d
        BY <1>1, <1>4, <3>1, <4>1
      <4>3. ds[d].pp_self = cs[d].pp_self
        BY <3>1, <3>4
      <4> QED BY <1>1, <3>2, <4>1, <4>2, <4>3
    <3> QED BY <3>3, <3>4
  <2> QED BY <2>1, <2>2
<1>7. c \in LiveIn(ds) /\ c # "NULL"
  BY <1>1, <1>2
<1> HIDE DEF new
<1> QED BY <1>5, <1>6, <1>7 DEF ListInv

LEMMA ListFacts ==
  ASSUME NEW cs \in [Conns -> ConnRec], NEW h, ListInv(cs, h)
  PROVE  /\ LiveIn(cs) \subseteq Conns /\ "NULL" \notin Conns /\ "head" \notin Conns
         /\ h = "NULL" => LiveIn(cs) = {}
         /\ h # "NULL" => h \in LiveIn(cs) /\ cs[h].pp_self = "head"
         /\ \A d \in LiveIn(cs) :
              /\ cs[d].next # "NULL" => cs[d].next \in LiveIn(cs) /\ cs[cs[d].next].pp_self = d
              /\ cs[d].pp_self = "head" => h = d
              /\ cs[d].pp_self # "head" => cs[d].pp_self \in LiveIn(cs) /\ cs[cs[d].pp_self].next = d
BY EchoAssumption DEF ListInv, LiveIn

\* A connection is not its own neighbour.
LEMMA NoSelfLink ==
  ASSUME NEW cs \in [Conns -> ConnRec], NEW h, ListInv(cs, h), NEW c \in LiveIn(cs)
  PROVE  cs[c].next # c /\ cs[c].pp_self # c
<1>1. PICK rank \in [Conns -> Nat] : Ranked(cs, rank)
  BY DEF ListInv
<1>2. c \in Conns /\ c # "NULL" /\ c # "head"
  BY ListFacts
<1>3. cs[c].next # c
  <2>1. rank[c] \in Nat
    BY <1>1, <1>2
  <2> QED BY <1>1, <1>2, <2>1 DEF Ranked
<1>4. cs[c].pp_self = c => cs[c].next = c
  BY <1>2, ListFacts
<1> QED BY <1>3, <1>4

LEMMA FreedIs ==
  ASSUME NEW r \in ConnRec
  PROVE  /\ Freed(r) \in ConnRec /\ Freed(r).mem = "freed" /\ Freed(r).queue = r.queue
         /\ Freed(r).sent = r.sent /\ Freed(r).read = r.read /\ Freed(r).got = r.got
         /\ Freed(r).reset = r.reset /\ Freed(r).current = r.current
<1>1. StopAndClose(r) \in ConnRec /\ StopAndClose(r).queue = r.queue
      /\ StopAndClose(r).sent = r.sent /\ StopAndClose(r).read = r.read
      /\ StopAndClose(r).got = r.got /\ StopAndClose(r).reset = r.reset
      /\ StopAndClose(r).current = r.current
  BY DEF StopAndClose, ConnRec
<1> DEFINE q == StopAndClose(r)
<1> HIDE DEF q
<1>2. Freed(r) = [q EXCEPT !.mem = "freed", !.next = "NULL", !.pp_self = "NULL"]
  BY DEF Freed, q
<1>3. q \in ConnRec /\ q.queue = r.queue /\ q.sent = r.sent /\ q.read = r.read /\ q.got = r.got
      /\ q.reset = r.reset /\ q.current = r.current
  BY <1>1 DEF q
<1>4. Freed(r) \in ConnRec
  <2>1. [q EXCEPT !.mem = "freed"] \in ConnRec
    BY <1>3 DEF ConnRec
  <2>2. PICK f \in ConnRec : f = [q EXCEPT !.mem = "freed"]
    BY <2>1
  <2>3. [f EXCEPT !.next = "NULL", !.pp_self = "NULL"] \in ConnRec
    BY DEF ConnRec
  <2>4. Freed(r) = [f EXCEPT !.next = "NULL", !.pp_self = "NULL"]
    BY <1>2, <1>3, <2>2 DEF ConnRec
  <2> QED BY <2>3, <2>4
<1>5. /\ Freed(r).mem = "freed" /\ Freed(r).queue = q.queue /\ Freed(r).sent = q.sent
      /\ Freed(r).read = q.read /\ Freed(r).got = q.got /\ Freed(r).reset = q.reset
      /\ Freed(r).current = q.current
  BY <1>2, <1>3 DEF ConnRec
<1> QED BY <1>3, <1>4, <1>5

\* The record r of d without the connection between prev and succ
Relinked(r, d, prev, succ) ==
  [r EXCEPT !.next = IF d = prev THEN succ ELSE @, !.pp_self = IF d = succ THEN prev ELSE @]

LEMMA TeardownIs ==
  ASSUME NEW cs \in [Conns -> ConnRec], NEW h, ListInv(cs, h), NEW c \in LiveIn(cs),
         NEW ds, ds = Teardown(cs, c)
  PROVE  /\ ds \in [Conns -> ConnRec] /\ ds[c] = Freed(cs[c])
         /\ \A d \in Conns \ {c} : ds[d] = Relinked(cs[d], d, cs[c].pp_self, cs[c].next)
<1>1. PICK prev, succ : prev = cs[c].pp_self /\ succ = cs[c].next
  OBVIOUS
<1>2. /\ c \in Conns /\ prev \in Conns \cup {"head"} /\ succ \in Conns \cup {"NULL"}
      /\ prev # c /\ succ # c /\ "NULL" \notin Conns /\ "head" \notin Conns
  <2>1. c \in Conns /\ prev # c /\ succ # c
    BY <1>1, ListFacts, NoSelfLink
  <2>2. prev # "head" => prev \in LiveIn(cs)
    BY <1>1, ListFacts
  <2>3. succ # "NULL" => succ \in LiveIn(cs)
    BY <1>1, ListFacts
  <2> QED BY <2>1, <2>2, <2>3, ListFacts
<1> DEFINE fixed == IF succ = "NULL" THEN cs ELSE [cs EXCEPT ![succ].pp_self = prev]
           unlinked == IF prev = "head" THEN fixed ELSE [fixed EXCEPT ![prev].next = succ]
<1>3. ds = [unlinked EXCEPT ![c] = Freed(cs[c])]
  BY <1>1 DEF Teardown, Unlink
<1>4. ASSUME NEW d \in Conns PROVE cs[d] \in ConnRec
  OBVIOUS
<1>5. /\ fixed \in [Conns -> ConnRec]
      /\ \A d \in Conns : fixed[d] = [cs[d] EXCEPT !.pp_self = IF d = succ THEN prev ELSE @]
  <2>1. ASSUME NEW r \in ConnRec
        PROVE  /\ [r EXCEPT !.pp_self = prev] \in ConnRec
               /\ r = [r EXCEPT !.pp_self = @]
    BY <1>2 DEF ConnRec
  <2>2. CASE succ = "NULL"
    BY <1>2, <2>1, <2>2
  <2>3. CASE succ # "NULL"
    <3>1. fixed = [cs EXCEPT ![succ] = [cs[succ] EXCEPT !.pp_self = prev]] /\ succ \in Conns
      BY <1>2, <2>3
    <3> HIDE DEF fixed
    <3> QED BY <2>1, <3>1
  <2> QED BY <2>2, <2>3
<1> HIDE DEF fixed
<1>6. /\ unlinked \in [Conns -> ConnRec]
      /\ \A d \in Conns : unlinked[d] = [fixed[d] EXCEPT !.next = IF d = prev THEN succ ELSE @]
  <2>1. ASSUME NEW r \in ConnRec
        PROVE  /\ [r EXCEPT !.next = succ] \in ConnRec
               /\ r = [r EXCEPT !.next = @]
    BY <1>2 DEF ConnRec
  <2>2. CASE prev = "head"
    BY <1>2, <1>5, <2>1, <2>2
  <2>3. CASE prev # "head"
    <3>1. unlinked = [fixed EXCEPT ![prev] = [fixed[prev] EXCEPT !.next = succ]] /\ prev \in Conns
      BY <1>2, <1>5, <2>3
    <3> HIDE DEF unlinked
    <3> QED BY <1>5, <2>1, <3>1
  <2> QED BY <2>2, <2>3
<1> HIDE DEF unlinked
<1>7. Freed(cs[c]) \in ConnRec
  BY <1>2, FreedIs
<1>8. ds \in [Conns -> ConnRec] /\ ds[c] = Freed(cs[c])
  BY <1>2, <1>3, <1>6, <1>7
<1>9. ASSUME NEW d \in Conns \ {c}
      PROVE  ds[d] = Relinked(cs[d], d, prev, succ)
  <2>1. ds[d] = unlinked[d]
    BY <1>3, <1>6
  <2>2. ds[d] = [[cs[d] EXCEPT !.pp_self = IF d = succ THEN prev ELSE @]
                   EXCEPT !.next = IF d = prev THEN succ ELSE @]
    BY <1>5, <1>6, <2>1
  <2>3. cs[d] \in ConnRec
    OBVIOUS
  <2> QED BY <2>2, <2>3 DEF ConnRec, Relinked
<1> QED BY <1>1, <1>8, <1>9

\* The last connection of the list is the only one that has no successor.
LEMMA LastIsAlone ==
  ASSUME NEW cs \in [Conns -> ConnRec], NEW h, ListInv(cs, h), NEW c \in LiveIn(cs),
         cs[c].pp_self = "head", cs[c].next = "NULL"
  PROVE  LiveIn(cs) = {c}
<1>1. PICK rank \in [Conns -> Nat] : Ranked(cs, rank)
  BY DEF ListInv
<1> DEFINE X == {n \in Nat : \A d \in LiveIn(cs) : rank[d] < n => d = c}
<1>2. 0 \in X
  <2>1. \A d \in LiveIn(cs) : rank[d] \in Nat
    BY <1>1 DEF LiveIn
  <2> QED BY <2>1
<1>3. ASSUME NEW n \in Nat, n \in X PROVE n + 1 \in X
  <2> SUFFICES ASSUME NEW d \in LiveIn(cs), rank[d] < n + 1, d # c PROVE FALSE
    OBVIOUS
  <2>1. cs[d].pp_self # "head"
    BY ListFacts
  <2>2. PICK p \in LiveIn(cs) : p = cs[d].pp_self /\ cs[p].next = d
    BY <2>1, ListFacts
  <2>3. d # "NULL" /\ rank[p] \in Nat /\ rank[d] \in Nat
    BY <1>1, ListFacts
  <2>4. rank[p] < rank[d]
    BY <1>1, <2>2, <2>3 DEF Ranked
  <2>5. rank[p] < n
    BY <2>3, <2>4
  <2>6. p = c
    BY <1>3, <2>5
  <2> QED BY <2>2, <2>3, <2>6
<1>4. \A n \in Nat : n \in X
  <2> HIDE DEF X
  <2> QED BY <1>2, <1>3, InductOnNat
<1>5. ASSUME NEW d \in LiveIn(cs) PROVE d = c
  <2>1. rank[d] \in Nat
    BY <1>1 DEF LiveIn
  <2>2. rank[d] + 1 \in X /\ rank[d] < rank[d] + 1
    BY <1>4, <2>1
  <2> QED BY <2>2
<1> QED BY <1>5

\* teardown's unlinking
LEMMA UnlinkedList ==
  ASSUME NEW cs \in [Conns -> ConnRec], NEW h, ListInv(cs, h), NEW c \in LiveIn(cs),
         NEW ds, ds = Teardown(cs, c),
         NEW k, k = IF cs[c].pp_self = "head" THEN cs[c].next ELSE h
  PROVE  ListInv(ds, k)
<1>1. PICK prev, succ : prev = cs[c].pp_self /\ succ = cs[c].next
  OBVIOUS
<1>2. /\ c \in Conns /\ LiveIn(cs) \subseteq Conns /\ "NULL" \notin Conns /\ "head" \notin Conns
      /\ h = "NULL" => LiveIn(cs) = {}
      /\ h # "NULL" => h \in LiveIn(cs) /\ cs[h].pp_self = "head"
  BY ListFacts
<1>3. \A d \in LiveIn(cs) :
        /\ cs[d].next # "NULL" => cs[d].next \in LiveIn(cs) /\ cs[cs[d].next].pp_self = d
        /\ cs[d].pp_self = "head" => h = d
        /\ cs[d].pp_self # "head" => cs[d].pp_self \in LiveIn(cs) /\ cs[cs[d].pp_self].next = d
  BY ListFacts
<1>4. prev # c /\ succ # c
  BY <1>1, NoSelfLink
<1>5. ds \in [Conns -> ConnRec] /\ ds[c] = Freed(cs[c])
  BY TeardownIs
<1>6. ASSUME NEW d \in Conns \ {c}
      PROVE  /\ ds[d].mem = cs[d].mem
             /\ ds[d].next = IF d = prev THEN succ ELSE cs[d].next
             /\ ds[d].pp_self = IF d = succ THEN prev ELSE cs[d].pp_self
  <2>1. ds[d] = Relinked(cs[d], d, prev, succ)
    BY <1>1, TeardownIs
  <2>2. cs[d] \in ConnRec
    OBVIOUS
  <2> QED BY <2>1, <2>2 DEF ConnRec, Relinked
<1>7. LiveIn(ds) = LiveIn(cs) \ {c}
  <2>1. ds[c].mem = "freed"
    BY <1>2, <1>5, FreedIs
  <2> QED BY <1>2, <1>6, <2>1 DEF LiveIn
<1>8. /\ prev # "head" => prev \in LiveIn(ds) /\ cs[prev].next = c
      /\ prev = "head" => h = c
      /\ succ # "NULL" => succ \in LiveIn(ds) /\ cs[succ].pp_self = c
  BY <1>1, <1>3, <1>4, <1>7
<1>9. IF k = "NULL" THEN LiveIn(ds) = {}
      ELSE k \in LiveIn(ds) /\ ds[k].pp_self = "head"
  <2>1. CASE prev = "head"
    <3>1. k = succ
      BY <1>1, <2>1
    <3>2. succ = "NULL" => LiveIn(ds) = {}
      BY <1>1, <1>7, <2>1, LastIsAlone
    <3>3. succ # "NULL" => succ \in LiveIn(ds) /\ succ \in Conns \ {c} /\ ds[succ].pp_self = prev
      BY <1>2, <1>6, <1>7, <1>8
    <3> QED BY <2>1, <3>1, <3>2, <3>3
  <2>2. CASE prev # "head"
    <3>1. k = h /\ h # "NULL" /\ h \in LiveIn(cs) /\ cs[h].pp_self = "head"
      BY <1>1, <1>2, <2>2
    <3>2. h # c
      BY <1>1, <2>2, <3>1
    <3>3. h # succ
      BY <1>2, <1>8, <3>1
    <3>4. h \in LiveIn(ds) /\ h \in Conns \ {c} /\ ds[h].pp_self = cs[h].pp_self
      BY <1>2, <1>6, <1>7, <3>1, <3>2, <3>3
    <3> QED BY <3>1, <3>4
  <2> QED BY <2>1, <2>2
<1>10. ASSUME NEW d \in LiveIn(ds)
       PROVE  ds[d].next # "NULL" => ds[d].next \in LiveIn(ds) /\ ds[ds[d].next].pp_self = d
  <2>1. d \in LiveIn(cs) /\ d \in Conns \ {c}
    BY <1>2, <1>7
  <2>2. CASE d = prev
    <3>1. ds[d].next = succ
      BY <1>6, <2>1, <2>2
    <3>2. succ # "NULL" => succ \in LiveIn(ds) /\ succ \in Conns \ {c} /\ ds[succ].pp_self = prev
      BY <1>2, <1>6, <1>7, <1>8
    <3> QED BY <2>2, <3>1, <3>2
  <2>3. CASE d # prev
    <3> SUFFICES ASSUME NEW x, x = cs[d].next, x # "NULL"
                 PROVE  x \in LiveIn(ds) /\ ds[x].pp_self = d
      BY <1>6, <2>1, <2>3
    <3>1. x \in LiveIn(cs) /\ cs[x].pp_self = d
      BY <1>3, <2>1
    <3>2. x # c
      BY <1>1, <2>3, <3>1
    <3>3. x # succ
      BY <1>8, <2>1, <3>1
    <3> QED BY <1>2, <1>6, <1>7, <3>1, <3>2, <3>3
  <2> QED BY <2>2, <2>3
<1>11. ASSUME NEW d \in LiveIn(ds)
       PROVE  IF ds[d].pp_self = "head" THEN k = d
              ELSE ds[d].pp_self \in LiveIn(ds) /\ ds[ds[d].pp_self].next = d
  <2>1. d \in LiveIn(cs) /\ d \in Conns \ {c}
    BY <1>2, <1>7
  <2>2. CASE d = succ
    <3>1. ds[d].pp_self = prev
      BY <1>6, <2>1, <2>2
    <3>2. prev = "head" => k = d
      BY <1>1, <2>2
    <3>3. prev # "head" => prev \in LiveIn(ds) /\ prev \in Conns \ {c} /\ ds[prev].next = succ
      BY <1>2, <1>6, <1>7, <1>8
    <3> QED BY <2>2, <3>1, <3>2, <3>3
  <2>3. CASE d # succ
    <3>1. ds[d].pp_self = cs[d].pp_self
      BY <1>6, <2>1, <2>3
    <3>2. CASE cs[d].pp_self = "head"
      <4>1. h = d /\ prev # "head"
        BY <1>3, <1>8, <2>1, <3>2
      <4> QED BY <1>1, <3>1, <3>2, <4>1
    <3>3. CASE cs[d].pp_self # "head"
      <4>1. PICK p \in LiveIn(cs) : p = cs[d].pp_self /\ cs[p].next = d
        BY <1>3, <2>1, <3>3
      <4>2. p # c
        BY <1>1, <2>3, <4>1
      <4>3. p # prev
        BY <1>2, <1>8, <2>1, <4>1
      <4>4. p \in LiveIn(ds) /\ p \in Conns \ {c} /\ ds[p].next = d
        BY <1>2, <1>6, <1>7, <4>1, <4>2, <4>3
      <4> QED BY <3>1, <3>3, <4>1, <4>4
    <3> QED BY <3>2, <3>3
  <2> QED BY <2>2, <2>3
<1>12. PICK rank \in [Conns -> Nat] : Ranked(cs, rank)
  BY DEF ListInv
<1>13. Ranked(ds, rank)
  <2> SUFFICES ASSUME NEW d \in LiveIn(ds), ds[d].next # "NULL" PROVE rank[d] < rank[ds[d].next]
    BY DEF Ranked
  <2>1. d \in LiveIn(cs) /\ d \in Conns \ {c}
    BY <1>2, <1>7
  <2>2. CASE d # prev
    BY <1>6, <1>12, <2>1, <2>2 DEF Ranked
  <2>3. CASE d = prev
    <3>1. ds[d].next = succ /\ succ # "NULL" /\ succ \in Conns /\ prev # "head"
      BY <1>2, <1>6, <1>7, <1>8, <2>1, <2>3
    <3>2. cs[prev].next = c /\ c # "NULL"
      BY <1>2, <1>8, <3>1
    <3>3. rank[prev] < rank[c] /\ rank[c] < rank[succ]
      BY <1>1, <1>12, <2>1, <2>3, <3>1, <3>2 DEF Ranked
    <3>4. rank[prev] \in Nat /\ rank[c] \in Nat /\ rank[succ] \in Nat
      BY <1>2, <1>12, <2>1, <2>3, <3>1
    <3> QED BY <2>3, <3>1, <3>3, <3>4
  <2> QED BY <2>2, <2>3
<1> QED BY <1>9, <1>10, <1>11, <1>12, <1>13 DEF ListInv

-----------------------------------------------------------------------------
\* The steps of the server

\* What a callback may make of a connection
MadeOf(c, r) == r \in ConnRec /\ BytesInv(r) /\ SameLinks(c, r)

LEMMA PerformGood ==
  ASSUME NEW c0, NEW c, MadeOf(c0, c), c.current # "FAILED",
         NEW target \in HStates, NEW r, r = Perform(c, target)
  PROVE  MadeOf(c0, r) /\ r.current = target /\ r.queue = c.queue /\ r.reset = c.reset
<1>1. r \in ConnRec /\ r.current = target /\ SameBut(c, r)
  BY PerformKeeps DEF MadeOf
<1>2. BytesInv(c) /\ SentInv(c)
  BY SentIsInOrder DEF MadeOf
<1>3. BytesInv(r)
  BY <1>1, <1>2 DEF SameBut, BytesInv, SentInv, FitsKernel
<1> QED BY <1>1, <1>3 DEF MadeOf, SameBut, SameLinks

\* A connection in one of its two states
Staying(c0, c) ==
  /\ MadeOf(c0, c) /\ c.mem = "live"
  /\ c.current \in {"RECEIVING", "FLUSHING"} /\ "EV_READ" \in c.armed

LEMMA WhereItIs ==
  /\ \A s \in {"RECEIVING", "FLUSHING"} : H!IsIn(s, "CONNECTED") /\ ~H!IsIn(s, "CLOSING")
  /\ H!IsIn("CLOSING", "CLOSING")
  /\ ~H!IsIn("FAILED", "CLOSING") /\ ~H!IsIn("FAILED", "CONNECTED")
<1>1. ASSUME NEW s \in {"RECEIVING", "FLUSHING"}
      PROVE  H!IsIn(s, "CONNECTED") /\ ~H!IsIn(s, "CLOSING")
  <2>1. H!Chain[s] \in Seq(HStates) /\ Len(H!Chain[s]) = 4
    BY HChains, HTreeIs
  <2>2. H!Ancestors(s) = {H!Chain[s][1], H!Chain[s][2], H!Chain[s][3], H!Chain[s][4]}
    <3>1. H!Ancestors(s) = {H!Chain[s][i] : i \in 1 .. 4}
      BY <2>1 DEF H!Ancestors, H!ToSet
    <3> QED BY <3>1
  <2> QED BY <2>2, HChains DEF H!IsIn
<1>2. H!IsIn("CLOSING", "CLOSING")
  <2>1. /\ H!Chain["CLOSING"] \in Seq(HStates) /\ H!Chain["CLOSING"][1] = "CLOSING"
        /\ Len(H!Chain["CLOSING"]) >= 1
    BY HChain, HTreeIs DEF HasTails
  <2> QED BY <2>1 DEF H!IsIn, H!Ancestors, H!ToSet
<1>3. ~H!IsIn("FAILED", "CLOSING") /\ ~H!IsIn("FAILED", "CONNECTED")
  <2>1. H!Chain["FAILED"] \in Seq(HStates) /\ Len(H!Chain["FAILED"]) = 3
    BY HChains, HTreeIs
  <2>2. H!Ancestors("FAILED") = {H!Chain["FAILED"][1], H!Chain["FAILED"][2], H!Chain["FAILED"][3]}
    <3>1. H!Ancestors("FAILED") = {H!Chain["FAILED"][i] : i \in 1 .. 3}
      BY <2>1 DEF H!Ancestors, H!ToSet
    <3> QED BY <3>1
  <2> QED BY <2>2, HChains DEF H!IsIn
<1> QED BY <1>1, <1>2, <1>3

\* hsm_dispatch of a connection in one of its two states
LEMMA DispatchData ==
  ASSUME NEW c \in ConnRec, c.current \in {"RECEIVING", "FLUSHING"}, NEW bytes
  PROVE  Dispatch(c, "DATA", bytes) \subseteq {c, EchoQueue(c, bytes)}
<1>1. ConnHandler(c, "DATA") =
        IF c.current = "RECEIVING" THEN <<H!Trans("DATA", "NULL", "none", "echo", "internal")>>
        ELSE <<>>
  BY ConnHandlerIs, ConnLeads
<1>2. CASE ConnHandler(c, "DATA") = <<>>
  BY <1>2 DEF Dispatch
<1>3. CASE ConnHandler(c, "DATA") = <<H!Trans("DATA", "NULL", "none", "echo", "internal")>>
  <2>1. Head(ConnHandler(c, "DATA")).action = "echo" /\ ConnHandler(c, "DATA") # <<>>
    BY <1>3 DEF H!Trans
  <2> QED BY <2>1, Zenon DEF Dispatch
<1> QED BY <1>1, <1>2, <1>3

LEMMA DispatchWritable ==
  ASSUME NEW c \in ConnRec, c.current \in {"RECEIVING", "FLUSHING"}
  PROVE  Dispatch(c, "WRITABLE", <<>>) = IF c.current = "FLUSHING" THEN TryDrain(c) ELSE {c}
<1>1. ConnHandler(c, "WRITABLE") =
        IF c.current = "FLUSHING"
          THEN <<H!Trans("WRITABLE", "NULL", "none", "try_drain", "internal")>>
          ELSE <<>>
  BY ConnHandlerIs, ConnLeads
<1>2. CASE c.current = "RECEIVING"
  BY <1>1, <1>2 DEF Dispatch
<1>3. CASE c.current = "FLUSHING"
  <2>1. /\ Head(ConnHandler(c, "WRITABLE")).action = "try_drain"
        /\ ConnHandler(c, "WRITABLE") # <<>>
    BY <1>1, <1>3 DEF H!Trans
  <2>2. Dispatch(c, "WRITABLE", <<>>) = TryDrain(c)
    BY <2>1, Zenon DEF Dispatch
  <2> QED BY <1>3, <2>2
<1> QED BY <1>2, <1>3

LEMMA DispatchEof ==
  ASSUME NEW c \in ConnRec, c.current \in {"RECEIVING", "FLUSHING"}
  PROVE  Dispatch(c, "EOF", <<>>) = {IF c.queue = <<>> THEN Perform(c, "CLOSING") ELSE c}
<1>1. ConnHandler(c, "EOF") =
        IF c.queue = <<>>
          THEN <<H!Trans("EOF", "CLOSING", "queue_empty", "none", "external")>>
          ELSE <<>>
  BY ConnHandlerIs, ConnLeads
<1>2. CASE c.queue # <<>>
  BY <1>1, <1>2 DEF Dispatch
<1>3. CASE c.queue = <<>>
  <2>1. /\ Head(ConnHandler(c, "EOF")).action = "none"
        /\ Head(ConnHandler(c, "EOF")).target = "CLOSING"
        /\ ConnHandler(c, "EOF") # <<>>
    BY <1>1, <1>3 DEF H!Trans
  <2> QED BY <1>3, <2>1, Zenon DEF Dispatch
<1> QED BY <1>2, <1>3

LEMMA DispatchError ==
  ASSUME NEW c \in ConnRec, c.current \in {"RECEIVING", "FLUSHING"}
  PROVE  DispatchPlain(c, "ERROR") = Perform(c, "FAILED")
<1>1. ConnHandler(c, "ERROR") = <<H!Trans("ERROR", "FAILED", "none", "none", "external")>>
  BY ConnHandlerIs, ConnLeads
<1> QED BY <1>1 DEF DispatchPlain, H!Trans

\* What a failed flush makes of it
HalfSent(c0, f) ==
  /\ f \in ConnRec /\ SentInv(f) /\ SameLinks(c0, f) /\ f.mem = "live"
  /\ f.current \in {"RECEIVING", "FLUSHING"} /\ f.reset

LEMMA FlushStays ==
  ASSUME NEW c0, NEW c, Staying(c0, c), NEW f \in TryFlush(c)
  PROVE  IF FlushFailed(f) THEN HalfSent(c0, f)
         ELSE Staying(c0, f) /\ f.current = c.current /\ f.armed = c.armed
<1>1. /\ c \in ConnRec /\ BytesInv(c) /\ SameLinks(c0, c) /\ c.mem = "live"
      /\ c.current \in {"RECEIVING", "FLUSHING"}
  BY DEF Staying, MadeOf
<1>2. CASE c.queue = <<>>
  BY <1>2 DEF TryFlush, FlushFailed
<1>3. ASSUME c.queue # <<>>, NEW n \in 0 .. Len(c.queue), n <= Taken(c), f = Broken(c, n)
      PROVE  FlushFailed(f) /\ HalfSent(c0, f)
  <2>1. /\ f \in ConnRec /\ SentInv(f) /\ SameLinks(c, f)
        /\ f.current = c.current /\ f.queue = c.queue /\ f.reset
    BY <1>1, <1>3, BreakKeeps
  <2> QED BY <1>1, <1>3, <2>1 DEF FlushFailed, HalfSent, SameLinks
<1>4. CASE c.queue # <<>> /\ ~c.reset /\ f = Flushed(c)
  <2>1. f \in ConnRec /\ BytesInv(f) /\ SameButBytes(c, f)
    BY <1>1, <1>4, FlushKeeps
  <2> QED BY <1>4, <2>1 DEF Staying, MadeOf, SameButBytes, SameLinks, FlushFailed
<1>5. PICK k \in Nat, t \in Nat : k = Len(c.queue) /\ t = Taken(c) /\ t <= k
  <2>1. Taken(c) \in 0 .. Len(c.queue) /\ c.queue \in Seq(Nat)
    BY <1>1, TakenIs DEF ConnRec
  <2> QED BY <2>1
<1>6. CASE c.queue # <<>> /\ c.reset
  <2>1. f = Broken(c, 0) /\ 0 \in 0 .. Len(c.queue) /\ 0 <= Taken(c)
    BY <1>5, <1>6 DEF TryFlush
  <2> QED BY <1>3, <1>6, <2>1
<1>7. CASE c.queue # <<>> /\ ~c.reset /\ f # Flushed(c)
  <2>1. PICK n \in 0 .. Taken(c) : f = Broken(c, n)
    BY <1>7 DEF TryFlush
  <2>2. n \in 0 .. Len(c.queue) /\ n <= Taken(c)
    BY <1>5
  <2> QED BY <1>3, <1>7, <2>1, <2>2
<1> QED BY <1>2, <1>4, <1>6, <1>7

\* The state is chosen by the queue.
LEMMA SettleStays ==
  ASSUME NEW c0, NEW c, Staying(c0, c), NEW target \in {"RECEIVING", "FLUSHING"},
         target = "RECEIVING" <=> c.queue = <<>>, NEW r, r = Perform(c, target)
  PROVE  Staying(c0, r) /\ StateInv(r)
<1>1. target \in HStates
  BY HTreeIs
<1>2. MadeOf(c0, r) /\ r.current = target /\ r.queue = c.queue /\ r.reset = c.reset
  BY <1>1, PerformGood DEF Staying
<1>3. r.armed = IF target = "FLUSHING" THEN {"EV_READ", "EV_WRITE"} ELSE c.armed
  <2>1. c \in ConnRec /\ c.current \in {"RECEIVING", "FLUSHING"}
    BY DEF Staying, MadeOf
  <2>2. r = [c EXCEPT !.armed = IF target = "FLUSHING" THEN {"EV_READ", "EV_WRITE"} ELSE @,
                      !.current = target]
    BY <2>1, PerformTheTwo
  <2> QED BY <2>1, <2>2 DEF ConnRec
<1>4. r.mem = "live"
  BY <1>2 DEF Staying, MadeOf, SameLinks
<1> QED BY <1>2, <1>3, <1>4 DEF Staying, StateInv

\* A failed flush leaves the connection in FAILED.
LEMMA FailedStays ==
  ASSUME NEW c0, NEW c, HalfSent(c0, c), NEW r, r = DispatchPlain(c, "ERROR")
  PROVE  MadeOf(c0, r) /\ StateInv(r) /\ r.current = "FAILED" /\ r.reset
<1>1. c \in ConnRec /\ SentInv(c) /\ SameLinks(c0, c) /\ c.reset
      /\ c.current \in {"RECEIVING", "FLUSHING"}
  BY DEF HalfSent
<1>2. r = Perform(c, "FAILED")
  BY <1>1, DispatchError
<1>3. r \in ConnRec /\ r.current = "FAILED" /\ SameBut(c, r)
  BY <1>1, <1>2, PerformKeeps, HTreeIs
<1>4. r.armed = {} /\ r.fd = "closed"
  BY <1>1, <1>2, PerformFailed
<1>5. BytesInv(r)
  BY <1>1, <1>3 DEF SameBut, SentInv, BytesInv, FitsKernel
<1>6. SameLinks(c0, r) /\ r.reset
  BY <1>1, <1>3 DEF SameBut, SameLinks
<1> QED BY <1>3, <1>4, <1>5, <1>6 DEF MadeOf, StateInv

LEMMA WritableKeeps ==
  ASSUME NEW c, NEW c0, NEW r, Staying(c0, r), StateInv(r), Writable(c, r)
  PROVE  \E w : MadeOf(c0, w) /\ StateInv(w) /\ Keep(c, w)
<1>1. PICK w \in Dispatch(r, "WRITABLE", <<>>) :
        IF Done(w) THEN Finish(c, w)
        ELSE Keep(c, IF H!IsIn(w.current, "CONNECTED") /\ w.queue = <<>>
                       THEN Perform(w, "RECEIVING") ELSE w)
  BY DEF Writable
<1>2. r \in ConnRec /\ r.current \in {"RECEIVING", "FLUSHING"} /\ r.mem = "live"
  BY DEF Staying, MadeOf
<1>3. w \in IF r.current = "FLUSHING" THEN TryDrain(r) ELSE {r}
  BY <1>1, <1>2, DispatchWritable
<1>4. ASSUME Staying(c0, w), w.current = r.current, w.armed = r.armed,
             r.current = "RECEIVING" => w = r
      PROVE  \E v : MadeOf(c0, v) /\ StateInv(v) /\ Keep(c, v)
  <2>1. w.current \in {"RECEIVING", "FLUSHING"}
    BY <1>4 DEF Staying
  <2>2. Keep(c, IF w.queue = <<>> THEN Perform(w, "RECEIVING") ELSE w)
    BY <1>1, <2>1, WhereItIs DEF Done
  <2>3. CASE w.queue = <<>>
    <3>1. Staying(c0, Perform(w, "RECEIVING")) /\ StateInv(Perform(w, "RECEIVING"))
      BY <1>4, <2>3, SettleStays
    <3> QED BY <2>2, <2>3, <3>1 DEF Staying
  <2>4. CASE w.queue # <<>>
    <3>1. w.current = "FLUSHING" /\ r.current = "FLUSHING"
      BY <1>2, <1>4, <2>1, <2>4 DEF StateInv
    <3>2. StateInv(w)
      BY <1>2, <1>4, <2>4, <3>1 DEF StateInv, Staying
    <3> QED BY <1>4, <2>2, <2>4, <3>2 DEF Staying
  <2> QED BY <2>3, <2>4
<1>5. CASE r.current = "FLUSHING"
  <2>1. PICK f \in TryFlush(r) :
          w = IF FlushFailed(f) THEN DispatchPlain(f, "ERROR") ELSE f
    BY <1>3, <1>5 DEF TryDrain
  <2>2. CASE FlushFailed(f)
    <3>1. HalfSent(c0, f)
      BY <2>2, FlushStays
    <3>2. MadeOf(c0, w) /\ StateInv(w) /\ w.current = "FAILED"
      BY <2>1, <2>2, <3>1, FailedStays
    <3> QED BY <1>1, <3>2, WhereItIs DEF Done
  <2>3. CASE ~FlushFailed(f)
    <3>1. w = f /\ Staying(c0, f) /\ f.current = r.current /\ f.armed = r.armed
      BY <2>1, <2>3, FlushStays
    <3> QED BY <1>4, <1>5, <3>1
  <2> QED BY <2>2, <2>3
<1>6. CASE r.current = "RECEIVING"
  <2>1. w = r
    BY <1>3, <1>6
  <2> QED BY <1>4, <2>1
<1> QED BY <1>2, <1>5, <1>6

LEMMA AfterReadKeeps ==
  ASSUME NEW c, NEW c0, NEW r, Staying(c0, r), StateInv(r), NEW revents, AfterRead(c, r, revents)
  PROVE  \E w : MadeOf(c0, w) /\ StateInv(w) /\ Keep(c, w)
<1>1. CASE Writable(c, r)
  BY <1>1, WritableKeeps
<1>2. CASE Keep(c, r)
  BY <1>2 DEF Staying
<1> QED BY <1>1, <1>2 DEF AfterRead

\* conn_cb settles a connection or ends it, without an error only when all is sent.
LEMMA ConnCbDoes ==
  ASSUME EchoInv, NEW c \in Conns, conn_cb(c)
  PROVE  \E r : /\ MadeOf(conn[c], r)
                /\ \/ StateInv(r) /\ Keep(c, r)
                   \/ (r.reset \/ r.queue = <<>>) /\ Finish(c, r)
<1> DEFINE c0 == conn[c]
<1>1. PICK revents : /\ revents = Reported(c0)
                     /\ \/ ReadData(c, revents) \/ ReadEof(c, revents)
                        \/ ReadError(c, revents) \/ WriteOnly(c, revents)
  BY DEF conn_cb
<1>2. c0 \in ConnRec /\ BytesInv(c0) /\ StateInv(c0) /\ c0.mem = "live"
  BY DEF EchoInv, conn_cb
<1>3. c0.current \in {"RECEIVING", "FLUSHING"} /\ "EV_READ" \in c0.armed
  <2>1. revents # {}
    BY <1>1 DEF ReadData, ReadEof, ReadError, WriteOnly
  <2>2. c0.armed # {}
    BY <1>1, <2>1 DEF Reported
  <2> QED BY <1>2, <2>2 DEF StateInv
<1>4. MadeOf(c0, c0) /\ Staying(c0, c0)
  BY <1>2, <1>3 DEF Staying, MadeOf, SameLinks
<1>5. CASE ReadData(c, revents)
  <2>1. PICK n \in 1 .. BUF_SIZE : Received(c, [i \in 1 .. n |-> c0.got + i], revents)
    BY <1>5 DEF ReadData
  <2>2. n \in Nat
    BY EchoAssumption
  <2> DEFINE bytes == [i \in 1 .. n |-> c0.got + i]
             e == [c0 EXCEPT !.got = @ + n]
  <2>3. Len(bytes) = n
    BY <2>2
  <2>4. e \in ConnRec /\ e.current = c0.current /\ e.current \in {"RECEIVING", "FLUSHING"}
    <3>1. c0.current # "FAILED"
      BY <1>3
    <3>2. e \in ConnRec /\ SameButBytes(c0, e)
      BY <1>2, <2>2, <3>1, QueueKeeps
    <3> QED BY <1>3, <3>2 DEF SameButBytes
  <2>5. PICK d \in Dispatch(e, "DATA", bytes) : \E f \in TryFlush(d) :
          IF FlushFailed(f) THEN Finish(c, DispatchPlain(f, "ERROR"))
          ELSE AfterRead(c, Settled(f), revents)
    BY <2>1, <2>3 DEF Received
  <2>6. d \in {e, EchoQueue(e, bytes)}
    <3> HIDE DEF e, bytes
    <3> QED BY <2>4, <2>5, DispatchData
  <2>7. d \in ConnRec /\ BytesInv(d) /\ SameButBytes(c0, d)
    BY <1>2, <1>3, <2>2, <2>6, QueueKeeps
  <2>8. PICK f \in TryFlush(d) :
          IF FlushFailed(f) THEN Finish(c, DispatchPlain(f, "ERROR"))
          ELSE AfterRead(c, Settled(f), revents)
    BY <2>5
  <2> HIDE DEF e, bytes
  <2>9. Staying(c0, d)
    BY <1>2, <1>3, <2>7 DEF Staying, MadeOf, SameButBytes, SameLinks
  <2>10. CASE FlushFailed(f)
    <3>1. HalfSent(c0, f) /\ Finish(c, DispatchPlain(f, "ERROR"))
      BY <2>8, <2>9, <2>10, FlushStays
    <3> QED BY <3>1, FailedStays
  <2>11. CASE ~FlushFailed(f)
    <3> DEFINE r == Settled(f)
    <3>1. Staying(c0, f) /\ AfterRead(c, r, revents)
      BY <2>8, <2>9, <2>11, FlushStays
    <3>2. r = Perform(f, IF f.queue # <<>> THEN "FLUSHING" ELSE "RECEIVING")
      BY <3>1, WhereItIs DEF Settled, Staying
    <3> HIDE DEF r
    <3>3. Staying(c0, r) /\ StateInv(r)
      BY <3>1, <3>2, SettleStays
    <3> QED BY <3>1, <3>3, AfterReadKeeps
  <2> QED BY <2>10, <2>11
<1>6. CASE ReadEof(c, revents)
  <2>1. PICK r \in Dispatch(c0, "EOF", <<>>) :
          IF Done(r) THEN Finish(c, r) ELSE AfterRead(c, r, revents)
    BY <1>6 DEF ReadEof
  <2>2. r = IF c0.queue = <<>> THEN Perform(c0, "CLOSING") ELSE c0
    BY <1>2, <1>3, <2>1, DispatchEof
  <2>3. CASE c0.queue = <<>>
    <3>1. MadeOf(c0, r) /\ r.current = "CLOSING" /\ r.queue = <<>>
      BY <1>3, <1>4, <2>2, <2>3, PerformGood, HTreeIs
    <3>2. Finish(c, r)
      BY <2>1, <3>1, WhereItIs DEF Done
    <3> QED BY <3>1, <3>2
  <2>4. CASE c0.queue # <<>>
    <3>1. AfterRead(c, c0, revents)
      BY <1>3, <2>1, <2>2, <2>4, WhereItIs DEF Done
    <3> QED BY <1>2, <1>4, <3>1, AfterReadKeeps
  <2> QED BY <2>3, <2>4
<1>7. CASE ReadError(c, revents)
  <2>1. c0.reset /\ Finish(c, Perform(c0, "FAILED"))
    BY <1>2, <1>3, <1>7, DispatchError DEF ReadError
  <2>2. MadeOf(c0, Perform(c0, "FAILED")) /\ Perform(c0, "FAILED").reset
    BY <1>3, <1>4, <2>1, PerformGood, HTreeIs
  <2> QED BY <2>1, <2>2
<1>8. CASE WriteOnly(c, revents)
  <2>1. Writable(c, c0)
    BY <1>8 DEF WriteOnly
  <2> QED BY <1>2, <1>4, <2>1, WritableKeeps
<1> QED BY <1>1, <1>5, <1>6, <1>7, <1>8

LEMMA KeepInv ==
  ASSUME EchoInv, NEW c \in Conns, NEW r, MadeOf(conn[c], r), StateInv(r),
         conn' = [conn EXCEPT ![c] = r], conn_head' = conn_head
  PROVE  EchoInv'
<1>1. conn \in [Conns -> ConnRec] /\ ListInv(conn, conn_head)
      /\ \A d \in Conns : BytesInv(conn[d]) /\ StateInv(conn[d])
  BY DEF EchoInv
<1>2. r \in ConnRec /\ BytesInv(r) /\ SameLinks(conn[c], r)
  BY DEF MadeOf
<1>3. conn' \in [Conns -> ConnRec] /\ \A d \in Conns : conn'[d] = IF d = c THEN r ELSE conn[d]
  BY <1>1, <1>2
<1>4. \A d \in Conns : SameLinks(conn[d], conn'[d])
  BY <1>2, <1>3 DEF SameLinks
<1>5. ListInv(conn', conn_head')
  BY <1>1, <1>3, <1>4, SameList
<1>6. \A d \in Conns : BytesInv(conn'[d]) /\ StateInv(conn'[d])
  BY <1>1, <1>2, <1>3
<1> QED BY <1>3, <1>5, <1>6 DEF EchoInv

LEMMA FinishInv ==
  ASSUME EchoInv, NEW c \in Live, NEW r, MadeOf(conn[c], r), Finish(c, r)
  PROVE  /\ EchoInv'
         /\ conn'[c].queue = r.queue /\ conn'[c].reset = r.reset
         /\ \A d \in Conns \ {c} : conn'[d].mem = conn[d].mem
<1>1. conn \in [Conns -> ConnRec] /\ ListInv(conn, conn_head)
      /\ \A d \in Conns : BytesInv(conn[d]) /\ StateInv(conn[d])
  BY DEF EchoInv
<1>2. c \in Conns /\ r \in ConnRec /\ BytesInv(r) /\ SameLinks(conn[c], r)
  BY DEF MadeOf, Live
<1> DEFINE cs == [conn EXCEPT ![c] = r]
           k == IF cs[c].pp_self = "head" THEN cs[c].next ELSE conn_head
<1>3. cs \in [Conns -> ConnRec] /\ cs[c] = r /\ \A d \in Conns \ {c} : cs[d] = conn[d]
  BY <1>1, <1>2
<1>4. conn' = Teardown(cs, c)
  BY DEF Finish
<1>5. conn_head' = k
  BY <1>2, <1>3 DEF Finish, HeadAfter, SameLinks
<1> HIDE DEF cs
<1>6. ListInv(cs, conn_head)
  <2>1. \A d \in Conns : SameLinks(conn[d], cs[d])
    BY <1>2, <1>3 DEF SameLinks
  <2> QED BY <1>1, <1>3, <2>1, SameList
<1>7. c \in LiveIn(cs)
  BY <1>2, <1>3 DEF LiveIn, Live, SameLinks
<1>8. ListInv(conn', conn_head')
  BY <1>3, <1>4, <1>5, <1>6, <1>7, UnlinkedList
<1>9. /\ conn' \in [Conns -> ConnRec] /\ conn'[c] = Freed(r)
      /\ \A d \in Conns \ {c} : conn'[d] = Relinked(conn[d], d, cs[c].pp_self, cs[c].next)
  <2>1. /\ conn' \in [Conns -> ConnRec] /\ conn'[c] = Freed(cs[c])
        /\ \A d \in Conns \ {c} : conn'[d] = Relinked(cs[d], d, cs[c].pp_self, cs[c].next)
    BY <1>3, <1>4, <1>6, <1>7, TeardownIs
  <2> QED BY <1>3, <2>1
<1>10. /\ BytesInv(conn'[c]) /\ StateInv(conn'[c])
       /\ conn'[c].queue = r.queue /\ conn'[c].reset = r.reset
  BY <1>2, <1>9, FreedIs DEF BytesInv, FitsKernel, StateInv
<1>11. ASSUME NEW d \in Conns \ {c}
       PROVE  BytesInv(conn'[d]) /\ StateInv(conn'[d]) /\ conn'[d].mem = conn[d].mem
  <2> DEFINE old == conn[d]
             new == conn'[d]
  <2>1. new = Relinked(old, d, cs[c].pp_self, cs[c].next) /\ old \in ConnRec
    BY <1>1, <1>9
  <2>2. BytesInv(old) /\ StateInv(old)
    BY <1>1
  <2> HIDE DEF old, new
  <2>3. /\ new.mem = old.mem /\ new.current = old.current /\ new.armed = old.armed
        /\ new.queue = old.queue /\ new.sent = old.sent /\ new.read = old.read /\ new.got = old.got
        /\ new.fd = old.fd /\ new.reset = old.reset
    BY <2>1 DEF Relinked, ConnRec
  <2>4. BytesInv(new) /\ StateInv(new) /\ new.mem = old.mem
    BY <2>2, <2>3 DEF BytesInv, FitsKernel, StateInv
  <2> QED BY <2>4 DEF old, new
<1>12. \A d \in Conns : BytesInv(conn'[d]) /\ StateInv(conn'[d])
  BY <1>10, <1>11
<1>13. EchoInv'
  BY <1>8, <1>9, <1>12 DEF EchoInv
<1> QED BY <1>10, <1>11, <1>13

LEMMA AcceptInv ==
  ASSUME EchoInv, NEW c \in Conns, Accept(c)
  PROVE  EchoInv'
<1>1. conn \in [Conns -> ConnRec] /\ ListInv(conn, conn_head)
      /\ \A d \in Conns : BytesInv(conn[d]) /\ StateInv(conn[d])
  BY DEF EchoInv
<1>2. /\ "NULL" \notin Conns /\ c \notin LiveIn(conn)
      /\ conn_head # "NULL" => conn_head \in Conns /\ conn_head # c
  BY <1>1, ListFacts DEF Accept, LiveIn
<1> DEFINE fresh == [NoConn EXCEPT !.mem = "live", !.fd = "open",
                                   !.next = conn_head, !.pp_self = "head"]
           old == IF conn_head = "NULL" THEN conn ELSE [conn EXCEPT ![conn_head].pp_self = c]
           r == Perform(fresh, "RECEIVING")
<1>3. conn' = [old EXCEPT ![c] = r] /\ conn_head' = c
  BY DEF Accept
<1>4. /\ old \in [Conns -> ConnRec]
      /\ \A d \in Conns \ {c} :
           old[d] = [conn[d] EXCEPT !.pp_self = IF d = conn_head THEN c ELSE @]
  <2>1. ASSUME NEW s \in ConnRec
        PROVE  [s EXCEPT !.pp_self = c] \in ConnRec /\ s = [s EXCEPT !.pp_self = @]
    BY DEF ConnRec
  <2>2. CASE conn_head = "NULL"
    BY <1>1, <1>2, <2>1, <2>2
  <2>3. CASE conn_head # "NULL"
    <3>1. old = [conn EXCEPT ![conn_head] = [conn[conn_head] EXCEPT !.pp_self = c]]
          /\ conn_head \in Conns
      BY <1>1, <1>2, <2>3
    <3> HIDE DEF old
    <3> QED BY <1>1, <2>1, <3>1
  <2> QED BY <2>2, <2>3
<1>5. fresh \in ConnRec /\ fresh.mem = "live" /\ fresh.next = conn_head
      /\ fresh.pp_self = "head" /\ fresh.queue = <<>> /\ fresh.current = "NULL"
      /\ fresh.sent = <<>> /\ fresh.read = 0 /\ fresh.got = 0
  <2>1. conn_head \in Conns \cup {"NULL"} /\ <<>> \in Seq(Nat)
    BY <1>2
  <2> QED BY <2>1 DEF NoConn, ConnRec
<1> HIDE DEF fresh, old
<1>6. r \in ConnRec /\ r.current = "RECEIVING" /\ SameBut(fresh, r) /\ "EV_READ" \in r.armed
  BY <1>5, PerformKeeps, PerformFirst, HTreeIs
<1> HIDE DEF r
<1>7. conn' \in [Conns -> ConnRec] /\ conn'[c] = r
      /\ \A d \in Conns \ {c} : conn'[d] = old[d]
  BY <1>3, <1>4, <1>6
<1>8. BytesInv(r) /\ StateInv(r)
  <2>1. r.sent = <<>> /\ r.queue = <<>> /\ r.read = 0 /\ r.got = 0
    BY <1>5, <1>6 DEF SameBut
  <2>2. Increasing(<<>> \o <<>>, 0)
    <3>1. <<>> \o <<>> = <<>> /\ Len(<<>>) = 0
      OBVIOUS
    <3> QED BY <3>1 DEF Increasing
  <2>3. Len(<<>>) = 0 /\ ROOM \in Nat
    BY EchoAssumption
  <2> QED BY <1>6, <2>1, <2>2, <2>3 DEF BytesInv, FitsKernel, StateInv
<1>9. ASSUME NEW d \in Conns \ {c}
      PROVE  /\ conn'[d].mem = conn[d].mem /\ conn'[d].next = conn[d].next
             /\ conn'[d].pp_self = IF d = conn_head THEN c ELSE conn[d].pp_self
             /\ BytesInv(conn'[d]) /\ StateInv(conn'[d])
  <2> DEFINE new == conn'[d]
             s == conn[d]
  <2>1. new = [s EXCEPT !.pp_self = IF d = conn_head THEN c ELSE @] /\ s \in ConnRec
    BY <1>1, <1>4, <1>7
  <2>2. BytesInv(s) /\ StateInv(s)
    BY <1>1
  <2> HIDE DEF new, s
  <2>3. /\ new.mem = s.mem /\ new.current = s.current /\ new.armed = s.armed /\ new.next = s.next
        /\ new.queue = s.queue /\ new.sent = s.sent /\ new.read = s.read /\ new.got = s.got
        /\ new.fd = s.fd /\ new.reset = s.reset
        /\ new.pp_self = IF d = conn_head THEN c ELSE s.pp_self
    BY <2>1 DEF ConnRec
  <2>4. BytesInv(new) /\ StateInv(new)
    BY <2>2, <2>3 DEF BytesInv, FitsKernel, StateInv
  <2> QED BY <2>3, <2>4 DEF new, s
<1>10. ListInv(conn', conn_head')
  <2>1. conn'[c].mem = "live" /\ conn'[c].next = conn_head /\ conn'[c].pp_self = "head"
    BY <1>5, <1>6, <1>7 DEF SameBut
  <2>2. ListInv(conn', c)
    BY <1>1, <1>2, <1>7, <1>9, <2>1, PushedList
  <2> QED BY <1>3, <2>2
<1>11. \A d \in Conns : BytesInv(conn'[d]) /\ StateInv(conn'[d])
  BY <1>7, <1>8, <1>9
<1> QED BY <1>7, <1>10, <1>11 DEF EchoInv

LEMMA InitEchoInv == EchoInit => EchoInv
<1> SUFFICES ASSUME EchoInit PROVE EchoInv
  OBVIOUS
<1>1. NoConn \in ConnRec
  <2>1. <<>> \in Seq(Nat)
    OBVIOUS
  <2> QED BY <2>1 DEF NoConn, ConnRec
<1>2. conn \in [Conns -> ConnRec] /\ \A d \in Conns : conn[d] = NoConn
  BY <1>1 DEF EchoInit
<1>3. BytesInv(NoConn) /\ StateInv(NoConn)
  <2>1. Increasing(<<>> \o <<>>, 0)
    <3>1. <<>> \o <<>> = <<>> /\ Len(<<>>) = 0
      OBVIOUS
    <3> QED BY <3>1 DEF Increasing
  <2>2. Len(<<>>) = 0 /\ ROOM \in Nat
    BY EchoAssumption
  <2> QED BY <2>1, <2>2 DEF NoConn, BytesInv, FitsKernel, StateInv
<1>4. LiveIn(conn) = {}
  BY <1>2 DEF LiveIn, NoConn
<1>5. [c \in Conns |-> 0] \in [Conns -> Nat] /\ Ranked(conn, [c \in Conns |-> 0])
  BY <1>4 DEF Ranked
<1>6. ListInv(conn, conn_head)
  BY <1>4, <1>5 DEF ListInv, EchoInit
<1> QED BY <1>2, <1>3, <1>6 DEF EchoInv

\* What the peer does
LEMMA PeerInv ==
  ASSUME EchoInv, NEW c \in Conns, Peer(c) \/ PeerReads(c)
  PROVE  EchoInv' /\ \A d \in Conns : conn'[d].mem = conn[d].mem
<1> DEFINE s == conn[c]
<1>1. conn \in [Conns -> ConnRec] /\ s \in ConnRec /\ BytesInv(s) /\ StateInv(s)
  BY DEF EchoInv
<1>2. conn_head' = conn_head
  BY DEF Peer, PeerReads
<1> HIDE DEF s
<1>3. ASSUME NEW r \in {[s EXCEPT !.wrote = @ + 1], [s EXCEPT !.eof = TRUE], [s EXCEPT !.reset = TRUE]}
      PROVE  MadeOf(s, r) /\ StateInv(r)
  <2>1. s.wrote + 1 \in Nat
    BY <1>1 DEF ConnRec
  <2>2. /\ r \in ConnRec /\ r.mem = s.mem /\ r.current = s.current /\ r.armed = s.armed
        /\ r.next = s.next /\ r.pp_self = s.pp_self
        /\ r.queue = s.queue /\ r.sent = s.sent /\ r.read = s.read /\ r.got = s.got
        /\ r.fd = s.fd /\ r.reset \in {s.reset, TRUE}
    <3>1. CASE r = [s EXCEPT !.wrote = s.wrote + 1]
      BY <1>1, <2>1, <3>1 DEF ConnRec
    <3>2. CASE r = [s EXCEPT !.eof = TRUE]
      BY <1>1, <3>2 DEF ConnRec
    <3>3. CASE r = [s EXCEPT !.reset = TRUE]
      BY <1>1, <3>3 DEF ConnRec
    <3> QED BY <1>3, <3>1, <3>2, <3>3
  <2> QED BY <1>1, <2>2 DEF MadeOf, SameLinks, BytesInv, FitsKernel, StateInv
<1>4. ASSUME NEW r, r = [s EXCEPT !.read = @ + 1], s.read < Len(s.sent)
      PROVE  MadeOf(s, r) /\ StateInv(r)
  <2>1. PICK k \in Nat, l \in Nat : k = s.read /\ l = Len(s.sent)
    BY <1>1 DEF ConnRec
  <2>2. PICK m \in Nat : m = k + 1 /\ r = [s EXCEPT !.read = m]
    <3>1. k + 1 \in Nat /\ r = [s EXCEPT !.read = k + 1]
      BY <1>4, <2>1
    <3> QED BY <3>1
  <2>3. /\ r \in ConnRec /\ r.mem = s.mem /\ r.current = s.current /\ r.armed = s.armed
        /\ r.next = s.next /\ r.pp_self = s.pp_self
        /\ r.queue = s.queue /\ r.sent = s.sent /\ r.read = m /\ r.got = s.got
        /\ r.fd = s.fd /\ r.reset = s.reset
    BY <1>1, <2>2 DEF ConnRec
  <2>4. m <= l /\ l - m <= ROOM
    <3>1. k < l
      BY <1>4, <2>1
    <3>2. l - k <= ROOM
      BY <1>1, <2>1 DEF BytesInv, FitsKernel
    <3>3. PICK room \in Nat : room = ROOM
      BY EchoAssumption
    <3> QED BY <2>2, <3>1, <3>2, <3>3
  <2> QED BY <1>1, <2>1, <2>3, <2>4 DEF MadeOf, SameLinks, BytesInv, FitsKernel, StateInv
<1>5. PICK r : MadeOf(s, r) /\ StateInv(r) /\ conn' = [conn EXCEPT ![c] = r]
  <2>1. CASE Peer(c)
    <3>1. PICK r \in {[s EXCEPT !.wrote = @ + 1], [s EXCEPT !.eof = TRUE], [s EXCEPT !.reset = TRUE]} :
            conn' = [conn EXCEPT ![c] = r]
      BY <1>1, <2>1 DEF Peer, s
    <3> QED BY <1>3, <3>1
  <2>2. CASE PeerReads(c)
    <3>1. conn' = [conn EXCEPT ![c] = [s EXCEPT !.read = @ + 1]] /\ s.read < Len(s.sent)
      BY <1>1, <2>2 DEF PeerReads, s
    <3> QED BY <1>4, <3>1
  <2> QED BY <2>1, <2>2
<1>6. EchoInv'
  BY <1>2, <1>5, KeepInv DEF s
<1>7. \A d \in Conns : conn'[d].mem = conn[d].mem
  BY <1>1, <1>5 DEF MadeOf, SameLinks, s
<1> QED BY <1>6, <1>7

\* A step, and which connections it frees
LEMMA EchoStep ==
  ASSUME EchoInv, [EchoNext]_echo_vars
  PROVE  /\ EchoInv'
         /\ \A c \in Conns :
              conn[c].mem = "live" /\ conn'[c].mem = "freed" /\ ~conn'[c].reset /\ ~stopped
                => conn'[c].queue = <<>>
<1>1. ASSUME NEW c \in Conns, conn_cb(c)
      PROVE  /\ EchoInv'
             /\ \A d \in Conns :
                  conn[d].mem = "live" /\ conn'[d].mem = "freed" /\ ~conn'[d].reset /\ ~stopped
                    => conn'[d].queue = <<>>
  <2>1. PICK r : /\ MadeOf(conn[c], r)
                 /\ \/ StateInv(r) /\ Keep(c, r)
                    \/ (r.reset \/ r.queue = <<>>) /\ Finish(c, r)
    BY <1>1, ConnCbDoes
  <2>2. c \in Live /\ conn \in [Conns -> ConnRec]
    BY <1>1 DEF conn_cb, Live, EchoInv
  <2>3. CASE StateInv(r) /\ Keep(c, r)
    <3>1. conn' = [conn EXCEPT ![c] = r] /\ conn_head' = conn_head
      BY <2>3 DEF Keep
    <3>2. EchoInv'
      BY <2>1, <2>3, <3>1, KeepInv
    <3>3. \A d \in Conns : conn'[d].mem = conn[d].mem
      BY <2>1, <2>2, <3>1 DEF MadeOf, SameLinks
    <3> QED BY <3>2, <3>3
  <2>4. CASE (r.reset \/ r.queue = <<>>) /\ Finish(c, r)
    BY <2>1, <2>2, <2>4, FinishInv
  <2> QED BY <2>1, <2>3, <2>4
<1>2. ASSUME NEW c \in Conns, Accept(c)
      PROVE  /\ EchoInv'
             /\ \A d \in Conns : conn'[d].mem = "freed" => conn[d].mem = "freed"
  <2>1. EchoInv'
    BY <1>2, AcceptInv
  <2> DEFINE fresh == [NoConn EXCEPT !.mem = "live", !.fd = "open",
                                     !.next = conn_head, !.pp_self = "head"]
             old == IF conn_head = "NULL" THEN conn ELSE [conn EXCEPT ![conn_head].pp_self = c]
             r == Perform(fresh, "RECEIVING")
  <2>2. conn' = [old EXCEPT ![c] = r] /\ conn \in [Conns -> ConnRec] /\ conn_head' = c
    BY <1>2 DEF Accept, EchoInv
  <2>3. conn'[c].mem = "live"
    BY <2>1, <2>2, EchoAssumption DEF EchoInv, ListInv, LiveIn
  <2>4. ASSUME NEW d \in Conns \ {c} PROVE conn'[d].mem = conn[d].mem
    <3>1. conn'[d] = old[d]
      <4>1. DOMAIN old = Conns
        BY <2>2
      <4> HIDE DEF old, r
      <4> QED BY <2>2, <4>1
    <3>2. old[d].mem = conn[d].mem
      <4>1. conn[d] \in ConnRec
        BY <2>2
      <4> QED BY <2>2, <4>1 DEF ConnRec
    <3> QED BY <3>1, <3>2
  <2> QED BY <2>1, <2>3, <2>4
<1>3. ASSUME NEW c \in Conns, Peer(c) \/ PeerReads(c)
      PROVE  EchoInv' /\ \A d \in Conns : conn'[d].mem = conn[d].mem
  BY <1>3, PeerInv
<1>4. CASE sig_cb_turn
  <2>1. conn \in [Conns -> ConnRec] /\ ListInv(conn, conn_head)
    BY DEF EchoInv
  <2>2. conn_head \in Live /\ stopped /\ Finish(conn_head, conn[conn_head])
    BY <1>4, <2>1, ListFacts DEF sig_cb_turn, Live, LiveIn
  <2>3. MadeOf(conn[conn_head], conn[conn_head])
    BY <2>2 DEF MadeOf, SameLinks, EchoInv, Live
  <2> QED BY <2>2, <2>3, FinishInv
<1>5. CASE sig_cb \/ UNCHANGED echo_vars
  <2>1. conn' = conn /\ conn_head' = conn_head
    BY <1>5 DEF sig_cb, echo_vars
  <2> QED BY <2>1 DEF EchoInv, Ranked, ListInv, LiveIn
<1> QED BY <1>1, <1>2, <1>3, <1>4, <1>5 DEF EchoNext

LEMMA EchoInvHolds == EchoSpec => []EchoInv
<1>1. EchoInv /\ [EchoNext]_echo_vars => EchoInv'
  BY EchoStep
<1> QED BY InitEchoInv, <1>1, PTL DEF EchoSpec

LEMMA InvConnections == EchoInv => ConnectionsConsistent
<1> SUFFICES ASSUME EchoInv PROVE ConnectionsConsistent
  OBVIOUS
<1>1. conn \in [Conns -> ConnRec] /\ ListInv(conn, conn_head)
      /\ \A d \in Conns : BytesInv(conn[d]) /\ StateInv(conn[d])
  BY DEF EchoInv
<1>2. Live = LiveIn(conn) /\ Live \subseteq Conns
  BY DEF Live, LiveIn
<1>3. ListIntact
  <2>1. (conn_head = "NULL") = (Live = {})
    BY <1>1, <1>2 DEF ListInv
  <2>2. \A c \in Live :
       /\ conn[c].next # "NULL" => conn[c].next \in Live /\ conn[conn[c].next].pp_self = c
       /\ IF conn[c].pp_self = "head" THEN conn_head = c
          ELSE conn[c].pp_self \in Live /\ conn[conn[c].pp_self].next = c
    BY <1>1, <1>2 DEF ListInv
  <2> QED BY <2>1, <2>2 DEF ListIntact
<1>4. StateFitsQueue
  <2> SUFFICES ASSUME NEW c \in Live
               PROVE  /\ conn[c].current \in {"RECEIVING", "FLUSHING", "FAILED"}
                      /\ conn[c].current = "RECEIVING" => conn[c].queue = <<>>
                      /\ conn[c].current = "FLUSHING" =>
                           conn[c].queue # <<>> /\ "EV_WRITE" \in conn[c].armed
                      /\ conn[c].current = "FAILED" =>
                           conn[c].reset /\ conn[c].armed = {} /\ conn[c].fd = "closed"
    BY DEF StateFitsQueue
  <2>1. StateInv(conn[c]) /\ conn[c].mem = "live"
    BY <1>1, <1>2 DEF Live
  <2> QED BY <2>1 DEF StateInv
<1>5. EchoedInOrder
  BY <1>1 DEF EchoedInOrder, BytesInv, Increasing
<1> QED BY <1>3, <1>4, <1>5 DEF ConnectionsConsistent

(***************************************************************************)
(* For any number of connections, any sizes of the queue and of what recv  *)
(* returns, and whatever the peers do: the list, the states and the bytes  *)
(* of the connections of hsm-echo.c are right after every callback.        *)
(***************************************************************************)
THEOREM ConnectionsStayConsistent == EchoSpec => []ConnectionsConsistent
<1>1. EchoInv => ConnectionsConsistent
  BY InvConnections
<1> QED BY EchoInvHolds, <1>1, PTL

(***************************************************************************)
(* A connection that ends for another reason than an error or the signal   *)
(* has sent everything that its queue took.                                *)
(***************************************************************************)
THEOREM ConnectionsEndDrained == EchoSpec => EndsDrained
<1>1. EchoInv /\ [EchoNext]_echo_vars =>
        [\A c \in Conns :
           /\ conn[c].mem = "live" /\ conn'[c].mem = "freed"
           /\ ~conn'[c].reset /\ ~stopped
           => conn'[c].queue = <<>>]_echo_vars
  BY EchoStep
<1> QED BY EchoInvHolds, <1>1, PTL DEF EchoSpec, EndsDrained

=============================================================================
